----------------------------- MODULE ObjectTasks -----------------------------
(***************************************************************************)
(* ObjectTasks: tools that run in the background for an Object, each under *)
(* a runner process of its own.  object_tasks.py, object_task_state.py and *)
(* object_task_notifications.py, with the rows of storage/sql.py.          *)
(*                                                                         *)
(* A task is a durable row; what executes it is a coroutine ("run") on the *)
(* one event loop thread of the manager, found again through the maps      *)
(* _futures and _active_runs and lost with the Runtime.  Callers of start, *)
(* get, wait and cancel, posters of messages, ending children and deciding *)
(* Humans are other threads: they meet the coroutine under _lock or in the *)
(* Store.  The steps that a coroutine takes between two awaits exclude the *)
(* other coroutines, not those threads.                                    *)
(*                                                                         *)
(* The tool of a task is one of three: "receive" waits for a message of    *)
(* the runner, "wait_child" for a child process, "ask" for a Human; each   *)
(* waits for one condition.                                                *)
(***************************************************************************)
EXTENDS Integers, Sequences

CONSTANTS Tasks,       \* task identities
          Runs,        \* coroutines that a task can have at a time
          NoRun,       \* no coroutine
          MaxFaults    \* bound on faults: see Faulty

ASSUME ObjectTasksAssumption ==
    /\ NoRun \notin Runs
    /\ MaxFaults \in Nat

VARIABLES
    task,       \* the durable rows: status, tool, notice (status of the notification slot)
    runner,     \* status of the runner's process row
    result,     \* who owns the result Object: nobody, the runner, or the task
    grant,      \* grant_result_to_notify and the reserved use of the creator's authority
    handle,     \* tasks whose recipient holds a handle on the result
    cond,       \* what the tool waits for: open, met, refused (a Human's rejection)
    recipient,  \* of the notifications: open, refuses (its domain), ended
    told,       \* the terminal notifications posted, in order
    starter,    \* the thread inside start
    pc,         \* the coroutines
    future,     \* _futures
    undone,     \* futures that were cancelled: done, whatever the coroutine does
    active,     \* _active_runs
    args,       \* _pending_args
    hook,       \* tasks with a committed condition whose hook has not run yet
    owed,       \* tasks with a committed terminal row whose notification follows
    phase,      \* of the Runtime
    todo,       \* notifications the startup has yet to retry
    unwired,    \* tasks whose result could not be wired or granted
    faults      \* crashes, ended runners and recipients, refused wiring and hand-off

rows   == <<task, runner, result, grant, handle>>
world  == <<cond, recipient>>
maps   == <<future, undone, active, args>>
memory == <<pc, maps>>
host   == <<starter, hook, owed, phase, todo, unwired, faults>>
vars   == <<task, runner, result, grant, handle, cond, recipient, told, starter, pc, future,
            undone, active, args, hook, owed, phase, todo, unwired, faults>>

Tools    == {"receive", "wait_child", "ask"}
Terminal == {"succeeded", "failed", "cancelled", "abandoned", "unavailable"}
Active   == {"queued", "running", "waiting"}
Notices  == {"none", "delivered", "failed", "undelivered_terminal"}

LiveRunner == {"waiting_tool", "running", "parked", "runnable"}
EndedRunner == {"exited", "failed", "killed"}

Points == {"idle", "queued", "begun", "calling", "tool_ok", "tool_err", "tool_wait", "wiring",
           "published", "exited", "recorded", "raised", "failing", "notify", "waitnote",
           "finish", "callback"}

\* Between two awaits a coroutine keeps the event loop thread.
OnLoop == {"begun", "wiring", "published", "exited", "recorded", "raised", "failing",
           "notify", "waitnote", "finish"}

TypeOK ==
    /\ task \in [Tasks -> [status : {"none"} \cup Active \cup Terminal, tool : Tools,
                           notice : Notices]]
    /\ runner \in [Tasks -> {"absent"} \cup LiveRunner \cup EndedRunner]
    /\ result \in [Tasks -> {"none", "runner", "task"}]
    /\ grant \in [Tasks -> {"none", "wanted", "reserved", "committed", "restored", "abandoned"}]
    /\ handle \subseteq Tasks
    /\ cond \in [Tasks -> {"open", "met", "refused"}]
    /\ recipient \in [Tasks -> {"open", "refuses", "ended"}]
    /\ told \in [Tasks -> Seq(Terminal)]
    /\ starter \in [Tasks -> {"new", "spawned", "inserted", "done"}]
    /\ pc \in [Tasks -> [Runs -> Points]]
    /\ future \in [Tasks -> Runs \cup {NoRun}]
    /\ undone \subseteq Tasks \X Runs
    /\ active \subseteq Tasks /\ args \subseteq Tasks /\ hook \subseteq Tasks
    /\ owed \subseteq Tasks /\ todo \subseteq Tasks /\ unwired \subseteq Tasks
    /\ phase \in {"open", "closing", "down", "active", "results", "notices"}
    /\ faults \in 0..MaxFaults

Init ==
    /\ task = [t \in Tasks |-> [status |-> "none", tool |-> "ask", notice |-> "none"]]
    /\ runner = [t \in Tasks |-> "absent"]
    /\ result = [t \in Tasks |-> "none"]
    /\ grant = [t \in Tasks |-> "none"]
    /\ handle = {}
    /\ cond = [t \in Tasks |-> "open"]
    /\ recipient = [t \in Tasks |-> "open"]
    /\ told = [t \in Tasks |-> <<>>]
    /\ starter = [t \in Tasks |-> "new"]
    /\ pc = [t \in Tasks |-> [r \in Runs |-> "idle"]]
    /\ future = [t \in Tasks |-> NoRun]
    /\ undone = {} /\ active = {} /\ args = {} /\ hook = {} /\ owed = {}
    /\ phase = "open"
    /\ todo = {} /\ unwired = {}
    /\ faults = 0

Status(t)    == task[t].status
IsActive(t)  == Status(t) \in Active
IsTerminal(t) == Status(t) \in Terminal
LoopFree     == \A t \in Tasks, r \in Runs : pc[t][r] \notin OnLoop
\* The success of a task is recorded under _lock, over two commits.
LockFree     == \A t \in Tasks, r \in Runs : pc[t][r] \notin {"exited", "recorded"}
Future(t)    == future[t] # NoRun /\ <<t, future[t]>> \notin undone
\* _has_active_future.
HasActive(t) == t \in active \/ Future(t)
Live(t)      == \E r \in Runs : pc[t][r] # "idle"

\* Things that go wrong outside this manager are bounded.
Faulty == faults < MaxFaults /\ faults' = faults + 1

Goes(t, r, p) == pc' = [pc EXCEPT ![t][r] = p]
\* A row that enters a new phase has an empty notification slot: begin_phase.
Becomes(t, s) == task' = [task EXCEPT ![t].status = s, ![t].notice = "none"]

-------------------------------------------------------------------------------
(* The runner *)

\* terminalize_runner.
Ended(t, s) == IF runner[t] \in LiveRunner THEN [runner EXCEPT ![t] = s] ELSE runner

\* The cleanup of a terminal process releases what it owns.
KeptBy(t) ==
    IF runner[t] \in LiveRunner /\ result[t] = "runner"
      THEN [result EXCEPT ![t] = "none"] ELSE result

\* set_runner_status: the transition to RUNNING is for a runner that still has its
\* first wait, or that its wait owner has released.  A terminal runner is no error.
MayRun(t) ==
    \/ runner[t] \notin LiveRunner
    \/ Status(t) = "queued" /\ runner[t] = "waiting_tool"
    \/ Status(t) = "waiting" /\ runner[t] = "runnable"

\* A signal from outside ends the runner: its creator, a resource limit.
KillRunner(t) ==
    /\ phase = "open" /\ IsActive(t) /\ runner[t] \in LiveRunner
    /\ runner' = Ended(t, "killed")
    /\ result' = KeptBy(t)
    /\ Faulty
    /\ UNCHANGED <<task, grant, handle, world, told, memory, starter, hook, owed, phase, todo,
                   unwired>>

-------------------------------------------------------------------------------
(* Notification *)

\* What a post to the recipient comes to: it is terminal, or the message may not
\* flow to it, or it has the message.
Outcome(t) ==
    CASE recipient[t] = "ended"   -> "undelivered_terminal"
      [] recipient[t] = "refuses" -> "failed"
      [] recipient[t] = "open"    -> "delivered"
Posted(t, s) == IF Outcome(t) = "delivered" THEN [told EXCEPT ![t] = Append(@, s)] ELSE told

\* Mutant: an empty slot is not taken for a notification that is due.
DueIfFailed(t) == IsTerminal(t) /\ task[t].notice = "failed"

\* What _notify_terminal_locked finds when it has the lock and has read the row
\* again: a terminal row whose slot is neither delivered nor given up.
Due(t) == IsTerminal(t) /\ task[t].notice \in {"none", "failed"}

\* notify_terminal, retry_terminal: the message and the slot commit together.
Notified(t) ==
    IF Due(t) THEN /\ task' = [task EXCEPT ![t].notice = Outcome(t)]
                   /\ told' = Posted(t, Status(t))
    ELSE UNCHANGED <<task, told>>

\* The thread that made a row terminal, outside the event loop, notifies after it.
NotifyOwed(t) ==
    /\ t \in owed /\ LockFree
    /\ Notified(t)
    /\ owed' = owed \ {t}
    /\ UNCHANGED <<runner, result, grant, handle, world, starter, memory, hook, phase, todo,
                   unwired, faults>>

\* The recipient ends, or its data-flow domain changes.
RecipientChanges(t, how) ==
    /\ phase = "open" /\ Status(t) # "none" /\ recipient[t] \notin {how, "ended"}
    /\ recipient' = [recipient EXCEPT ![t] = how]
    /\ IF how = "open" THEN UNCHANGED faults ELSE Faulty
    /\ UNCHANGED <<rows, cond, told, memory, starter, hook, owed, phase, todo, unwired>>

-------------------------------------------------------------------------------
(* Starting *)

\* start: the checks, and the commit of the runner in its initial wait.  The caller
\* may want the result granted to a recipient that is not the creator.
Spawn(t, tool, wanted) ==
    /\ phase = "open" /\ starter[t] = "new" /\ runner[t] = "absent"
    /\ runner' = [runner EXCEPT ![t] = "waiting_tool"]
    /\ task' = [task EXCEPT ![t].tool = tool]
    /\ starter' = [starter EXCEPT ![t] = "spawned"]
    /\ grant' = [grant EXCEPT ![t] = wanted]
    /\ UNCHANGED <<result, handle, world, told, memory, hook, owed, phase, todo,
                   unwired, faults>>

\* The publication of the row.
Insert(t) ==
    /\ starter[t] = "spawned"
    /\ task' = [task EXCEPT ![t].status = "queued"]
    /\ starter' = [starter EXCEPT ![t] = "inserted"]
    /\ UNCHANGED <<runner, result, grant, handle, world, told, memory, hook, owed, phase, todo,
                   unwired, faults>>

\* A check made again in that transaction refuses it (the owner Object is gone, a
\* policy restricts it, the concurrency limit is reached): the runner is removed.
RefuseInsert(t) ==
    /\ starter[t] = "spawned"
    /\ runner' = [runner EXCEPT ![t] = "absent"]
    /\ starter' = [starter EXCEPT ![t] = "done"]
    /\ Faulty
    /\ UNCHANGED <<task, result, grant, handle, world, told, memory, hook, owed, phase, todo,
                   unwired>>

\* _schedule_task_locked.
Schedules(t) ==
    \E r \in Runs :
        /\ pc[t][r] = "idle"
        /\ Goes(t, r, "queued")
        /\ future' = [future EXCEPT ![t] = r]

HandOff(t) ==
    /\ starter[t] = "inserted" /\ LockFree
    /\ Schedules(t)
    /\ args' = args \cup {t}
    /\ starter' = [starter EXCEPT ![t] = "done"]
    /\ UNCHANGED <<rows, world, told, undone, active, hook, owed, phase, todo, unwired, faults>>

\* _abort_unscheduled_task: the event loop did not take the coroutine.
AbortHandOff(t) ==
    /\ starter[t] = "inserted" /\ LockFree
    /\ runner' = [runner EXCEPT ![t] = "absent"]
    /\ IF IsTerminal(t) THEN UNCHANGED <<task, owed>>
       ELSE Becomes(t, "failed") /\ owed' = owed \cup {t}
    /\ starter' = [starter EXCEPT ![t] = "done"]
    /\ Faulty
    /\ UNCHANGED <<result, grant, handle, world, told, memory, hook, phase, todo, unwired>>

-------------------------------------------------------------------------------
(* The coroutine: _run_task, _execute_task *)

\* The first step takes an admission, which a closing Runtime refuses.
Begin(t, r) ==
    /\ pc[t][r] = "queued" /\ LoopFree /\ LockFree
    /\ IF <<t, r>> \in undone
         THEN /\ Goes(t, r, "idle") /\ undone' = undone \ {<<t, r>>}
              /\ UNCHANGED active
         ELSE /\ Goes(t, r, IF phase = "open" THEN "begun" ELSE "finish")
              /\ active' = active \cup {t}
              /\ UNCHANGED undone
    /\ UNCHANGED <<rows, world, told, future, args, host>>

\* mark_running: the row and the runner's move together, from the durable row.
MarkRunning(t, r) ==
    /\ pc[t][r] = "begun" /\ LockFree
    /\ CASE IsTerminal(t) -> Goes(t, r, "finish") /\ UNCHANGED <<task, runner>>
         [] ~IsTerminal(t) /\ ~MayRun(t) -> Goes(t, r, "raised") /\ UNCHANGED <<task, runner>>
         [] OTHER ->
              /\ Goes(t, r, "calling")
              /\ task' = [task EXCEPT ![t].status = "running"]
              /\ runner' = IF runner[t] \in LiveRunner
                             THEN [runner EXCEPT ![t] = "running"] ELSE runner
    /\ UNCHANGED <<result, grant, handle, world, told, maps, host>>

\* The tool runs on a thread of the executor, under the runner's authority.
ToolReturns(t, r) ==
    /\ pc[t][r] = "calling" /\ runner[t] = "running"
    /\ cond[t] = "met" \/ task[t].tool = "ask"
    /\ Goes(t, r, "tool_ok")
    /\ result' = [result EXCEPT ![t] = "runner"]
    /\ UNCHANGED <<task, runner, grant, handle, world, told, maps, host>>

ToolFails(t, r) ==
    /\ pc[t][r] = "calling"
    /\ Goes(t, r, "tool_err")
    /\ UNCHANGED <<rows, world, told, maps, host>>

\* The tool registers its wait, with the condition checked in the same transaction.
ToolWaits(t, r) ==
    /\ pc[t][r] = "calling" /\ runner[t] = "running" /\ cond[t] = "open"
    /\ Goes(t, r, "tool_wait")
    /\ runner' = [runner EXCEPT ![t] = "parked"]
    /\ UNCHANGED <<task, result, grant, handle, world, told, maps, host>>

\* CancelledError, thrown into the await.
Cancelled(t, r) ==
    /\ pc[t][r] \in {"calling", "tool_ok", "tool_err", "tool_wait"}
    /\ <<t, r>> \in undone /\ LoopFree
    /\ Goes(t, r, "finish")
    /\ UNCHANGED <<rows, world, told, maps, host>>

Resumed(t, r, p) == pc[t][r] = p /\ <<t, r>> \notin undone /\ LoopFree /\ LockFree

\* mark_waiting.
MarkWaiting(t, r) ==
    /\ Resumed(t, r, "tool_wait")
    /\ IF IsTerminal(t) THEN Goes(t, r, "finish") /\ UNCHANGED task
       ELSE Becomes(t, "waiting") /\ Goes(t, r, "waitnote")
    /\ UNCHANGED <<runner, result, grant, handle, world, told, maps, host>>

\* Mutant: a late notice of the wait takes whatever row it finds.
NoticeIsWantedAnyway(t) == TRUE

\* notify, phase "waiting": the row may have left that phase since.
NoticeIsWanted(t) == Status(t) = "waiting" /\ task[t].notice \in {"none", "failed"}

NotifyWaiting(t, r) ==
    /\ pc[t][r] = "waitnote" /\ LockFree
    /\ task' = IF NoticeIsWanted(t) THEN [task EXCEPT ![t].notice = Outcome(t)] ELSE task
    /\ Goes(t, r, "finish")
    /\ UNCHANGED <<runner, result, grant, handle, world, told, maps, host>>

\* Mutant: only a result that the runner still owns is discarded.
DiscardedIfRunners(t) == IF result[t] = "runner" THEN [result EXCEPT ![t] = "none"] ELSE result

\* discard_failed_result, for a result of the runner or of the task.
Discarded(t) == [result EXCEPT ![t] = "none"]

\* The row has its outcome: a late result changes nothing.
AlreadySettled(t) == IsTerminal(t)

\* _settle_tool_result, a result that is not ok.
SettleError(t, r) ==
    /\ Resumed(t, r, "tool_err")
    /\ IF AlreadySettled(t) THEN Goes(t, r, "finish") /\ UNCHANGED runner
       ELSE Goes(t, r, "failing") /\ runner' = Ended(t, "failed")
    /\ result' = Discarded(t)
    /\ UNCHANGED <<task, grant, handle, world, told, maps, host>>

\* _publish_success_result, its first commit: the task becomes the owner.
TransferResult(t, r) ==
    /\ Resumed(t, r, "tool_ok")
    /\ CASE AlreadySettled(t) -> Goes(t, r, "finish") /\ result' = Discarded(t)
         [] ~AlreadySettled(t) /\ result[t] = "none" -> Goes(t, r, "raised") /\ UNCHANGED result
         [] OTHER -> Goes(t, r, "wiring") /\ result' = [result EXCEPT ![t] = "task"]
    /\ UNCHANGED <<task, runner, grant, handle, world, told, maps, host>>

\* The creator's handle, the link from the owner, the reservation of the grant.
WireResult(t, r) ==
    /\ pc[t][r] = "wiring"
    /\ grant' = IF grant[t] = "wanted" THEN [grant EXCEPT ![t] = "reserved"] ELSE grant
    /\ Goes(t, r, "published")
    /\ UNCHANGED <<task, runner, result, handle, world, told, maps, host>>

WiringRaises(t, r) ==
    /\ pc[t][r] = "wiring"
    /\ Goes(t, r, "raised")
    /\ unwired' = unwired \cup {t}
    /\ Faulty
    /\ UNCHANGED <<rows, world, told, starter, maps, hook, owed, phase, todo>>

Restored(t) == IF grant[t] = "reserved" THEN [grant EXCEPT ![t] = "restored"] ELSE grant

\* The end of _settle_tool_result, under _lock: a cancellation may have won since.
ExitRunner(t, r) ==
    /\ pc[t][r] = "published" /\ LockFree
    /\ IF ~IsTerminal(t)
         THEN /\ runner' = Ended(t, "exited") /\ Goes(t, r, "exited")
              /\ UNCHANGED <<result, grant>>
         ELSE /\ result' = Discarded(t) /\ grant' = Restored(t) /\ Goes(t, r, "finish")
              /\ UNCHANGED runner
    /\ UNCHANGED <<task, handle, world, told, maps, host>>

\* mark_succeeded.
RecordSuccess(t, r) ==
    /\ pc[t][r] = "exited" /\ grant[t] # "reserved"
    /\ Becomes(t, "succeeded")
    /\ Goes(t, r, "recorded")
    /\ UNCHANGED <<runner, result, grant, handle, world, told, maps, host>>

\* Delivery decides whether the transaction of the grant commits.
GrantsOn(o) == o = "delivered"

\* _mark_succeeded with a pending grant: the recipient's handle, the success, the
\* delivery and the use commit together or not at all; then success alone is recorded.
RecordGrantedSuccess(t, r) ==
    /\ pc[t][r] = "exited" /\ grant[t] = "reserved"
    /\ IF GrantsOn(Outcome(t))
         THEN /\ task' = [task EXCEPT ![t].status = "succeeded", ![t].notice = Outcome(t)]
              /\ told' = Posted(t, "succeeded")
              /\ handle' = handle \cup {t}
              /\ grant' = [grant EXCEPT ![t] = "committed"]
              /\ Goes(t, r, "finish")
         ELSE /\ Becomes(t, "succeeded") /\ grant' = Restored(t) /\ Goes(t, r, "recorded")
              /\ UNCHANGED <<told, handle>>
    /\ UNCHANGED <<runner, result, world, maps, host>>

\* The result may not flow to the recipient, or its handle cannot be made.
GrantRaises(t, r) ==
    /\ pc[t][r] = "exited" /\ grant[t] = "reserved"
    /\ Goes(t, r, "raised")
    /\ unwired' = unwired \cup {t}
    /\ Faulty
    /\ UNCHANGED <<rows, world, told, starter, maps, hook, owed, phase, todo>>

\* The notification that follows a terminal row of the coroutine.
NotifyEnd(t, r) ==
    /\ pc[t][r] \in {"recorded", "notify"} /\ (pc[t][r] = "notify" => LockFree)
    /\ Notified(t)
    /\ Goes(t, r, "finish")
    /\ UNCHANGED <<runner, result, grant, handle, world, maps, host>>

\* _fail_task_from_exception.
HandleFailure(t, r) ==
    /\ pc[t][r] = "raised"
    /\ IF IsTerminal(t) THEN Goes(t, r, "finish") /\ UNCHANGED <<runner, result>>
       ELSE /\ runner' = Ended(t, "killed") /\ result' = Discarded(t) /\ Goes(t, r, "failing")
    /\ grant' = Restored(t)
    /\ UNCHANGED <<task, handle, world, told, maps, host>>

\* Mutant: the failure is recorded over an outcome that came first.
FailsOver(t) == Becomes(t, "failed")

\* mark_failed: a row that is already terminal stays as it is.
Fails(t) == IF IsTerminal(t) THEN UNCHANGED task ELSE Becomes(t, "failed")

MarkFailed(t, r) ==
    /\ pc[t][r] = "failing" /\ LockFree
    /\ Fails(t)
    /\ Goes(t, r, IF IsTerminal(t) THEN "finish" ELSE "notify")
    /\ UNCHANGED <<runner, result, grant, handle, world, told, maps, host>>

\* What stays of _pending_args when a run of t is over.
KeptArgs(t) == IF IsTerminal(t) THEN args \ {t} ELSE args

\* _finish_active_run.
Finish(t, r) ==
    /\ pc[t][r] = "finish" /\ LockFree
    /\ active' = active \ {t}
    /\ future' = [future EXCEPT ![t] = NoRun]
    /\ args' = KeptArgs(t)
    /\ Goes(t, r, IF <<t, r>> \in undone THEN "idle" ELSE "callback")
    /\ undone' = undone \ {<<t, r>>}
    /\ UNCHANGED <<rows, world, told, host>>

\* _forget_future: the done callback, which names the task and not the future.
Forget(t, r) ==
    /\ pc[t][r] = "callback" /\ LoopFree /\ LockFree
    /\ IF t \in active THEN UNCHANGED <<future, args>>
       ELSE future' = [future EXCEPT ![t] = NoRun] /\ args' = KeptArgs(t)
    /\ Goes(t, r, "idle")
    /\ UNCHANGED <<rows, world, told, undone, active, host>>

-------------------------------------------------------------------------------
(* What the tools wait for, and what resumes a task *)

Woken(t) == IF runner[t] = "parked" THEN [runner EXCEPT ![t] = "runnable"] ELSE runner

\* A message for the runner is posted, or its child ends: the commit wakes the row.
ConditionMet(t) ==
    /\ phase = "open" /\ cond[t] = "open" /\ task[t].tool # "ask"
    /\ runner[t] \in LiveRunner
    /\ cond' = [cond EXCEPT ![t] = "met"]
    /\ runner' = Woken(t)
    /\ hook' = hook \cup {t}
    /\ UNCHANGED <<task, result, grant, handle, recipient, told, starter, memory, owed, phase,
                   todo, unwired, faults>>

\* A Human decides the approval that a call of the runner waits for.  (A rejection is
\* an answer only to the tool request_permission, which resumes as for "met".)
HumanDecides(t, verdict) ==
    /\ phase = "open" /\ cond[t] = "open" /\ task[t].tool = "ask" /\ runner[t] = "parked"
    /\ cond' = [cond EXCEPT ![t] = verdict]
    /\ runner' = Woken(t)
    /\ UNCHANGED <<task, result, grant, handle, recipient, told, memory, host>>

MayResume(t) == Status(t) = "waiting" /\ ~Future(t) /\ t \in args

\* notify_process_message, notify_process_terminal: once, after the commit.
RunHook(t) ==
    /\ t \in hook /\ LockFree
    /\ hook' = hook \ {t}
    /\ IF MayResume(t) THEN Schedules(t) ELSE UNCHANGED <<pc, future>>
    /\ UNCHANGED <<rows, world, told, starter, undone, active, args, owed, phase, todo,
                   unwired, faults>>

\* Mutant: a read does not look for mail that no hook has delivered.
HasMailNever(t) == FALSE

\* _has_matching_waiting_message.
HasMail(t) == task[t].tool = "receive" /\ cond[t] = "met"

\* get: mail that came before the row said "waiting" is found again by a read.
ReconcileMail(t) ==
    /\ phase = "open" /\ LockFree
    /\ HasMail(t) /\ ~HasActive(t) /\ MayResume(t)
    /\ Schedules(t)
    /\ UNCHANGED <<rows, world, told, undone, active, args, host>>

\* wait: _schedule_waiting_human_resume.
ResumeDecided(t) ==
    /\ phase = "open" /\ LockFree
    /\ task[t].tool = "ask" /\ ~HasActive(t)
    /\ CASE Status(t) = "waiting" /\ cond[t] = "met" ->
              /\ MayResume(t) /\ Schedules(t)
              /\ UNCHANGED <<task, args, owed>>
         [] Status(t) = "waiting" /\ cond[t] = "refused" ->
              /\ Fails(t) /\ owed' = owed \cup {t} /\ args' = args \ {t}
              /\ UNCHANGED <<pc, future>>
         [] OTHER -> FALSE
    /\ UNCHANGED <<runner, result, grant, handle, world, told, starter, undone, active, hook,
                   phase, todo, unwired, faults>>

\* _refresh_task_from_runner, by every reader: a runner that ended without a run.
Refresh(t) ==
    /\ phase = "open" /\ LockFree
    /\ IsActive(t) /\ ~HasActive(t) /\ runner[t] \in EndedRunner
    /\ Becomes(t, IF runner[t] = "killed" THEN "cancelled" ELSE "failed")
    /\ args' = IF runner[t] = "killed" THEN args \ {t} ELSE args
    /\ owed' = owed \cup {t}
    /\ UNCHANGED <<runner, result, grant, handle, world, told, starter, pc, future, undone,
                   active, hook, phase, todo, unwired, faults>>

\* get: retry_terminal.
RetryNotice(t) ==
    /\ phase = "open" /\ LockFree /\ Due(t)
    /\ Notified(t)
    /\ UNCHANGED <<runner, result, grant, handle, world, memory, host>>

\* is_sync_side_effect_tool: "ask" stands for the tools that change something.
MayCancel(t) == IsActive(t) /\ ~(Status(t) = "running" /\ task[t].tool = "ask")

\* cancel: the row, the runner and the notification commit together; the future is
\* cancelled, and its callback runs at once on this thread.
Cancel(t) ==
    /\ phase = "open" /\ LockFree /\ MayCancel(t)
    /\ task' = [task EXCEPT ![t].status = "cancelled", ![t].notice = Outcome(t)]
    /\ told' = Posted(t, "cancelled")
    /\ runner' = Ended(t, "killed")
    /\ result' = KeptBy(t)
    /\ IF Future(t)
         THEN /\ undone' = undone \cup {<<t, future[t]>>}
              /\ future' = IF t \in active THEN future ELSE [future EXCEPT ![t] = NoRun]
         ELSE UNCHANGED <<undone, future>>
    /\ args' = args \ {t}
    /\ UNCHANGED <<grant, handle, world, pc, active, host>>

-------------------------------------------------------------------------------
(* Shutdown, crash and startup *)

\* The Runtime has drained its admissions and stops this manager: _shutdown.
BeginShutdown ==
    /\ phase = "open" /\ owed = {} /\ hook = {}
    /\ \A t \in Tasks : /\ starter[t] \notin {"spawned", "inserted"}
                        /\ \A r \in Runs : pc[t][r] \in {"idle", "queued", "callback"}
    /\ phase' = "closing"
    /\ Faulty
    /\ UNCHANGED <<rows, world, told, starter, memory, hook, owed, todo, unwired>>

ShutdownCancels(t) ==
    /\ phase = "closing" /\ IsActive(t)
    /\ Becomes(t, "cancelled")
    /\ runner' = Ended(t, "killed")
    /\ result' = KeptBy(t)
    /\ args' = args \ {t}
    /\ owed' = owed \cup {t}
    /\ UNCHANGED <<grant, handle, world, told, starter, pc, future, undone, active, hook,
                   phase, todo, unwired, faults>>

\* What ends with the Runtime: threads, maps, and the payloads that only live in
\* memory.  A result that a checkpoint or an image can rebuild may stay.
Forgotten ==
    /\ phase' = "down"
    /\ pc' = [t \in Tasks |-> [r \in Runs |-> "idle"]]
    /\ future' = [t \in Tasks |-> NoRun]
    /\ undone' = {} /\ active' = {} /\ args' = {} /\ hook' = {} /\ owed' = {} /\ todo' = {}
    /\ starter' = [t \in Tasks |-> IF starter[t] = "new" THEN "new" ELSE "done"]
    /\ grant' = [t \in Tasks |-> IF grant[t] = "reserved" THEN "abandoned" ELSE grant[t]]
    /\ \E kept \in SUBSET {t \in Tasks : Status(t) = "succeeded" /\ result[t] = "task"} :
         result' = [t \in Tasks |-> IF t \in kept THEN "task" ELSE "none"]
    /\ UNCHANGED <<task, runner, handle, world, told, unwired>>

Close ==
    /\ phase = "closing" /\ owed = {}
    /\ \A t \in Tasks : ~IsActive(t) /\ ~Live(t)
    /\ Forgotten
    /\ UNCHANGED faults

Crash ==
    /\ phase # "down"
    /\ Forgotten
    /\ Faulty

Reopen ==
    /\ phase = "down"
    /\ phase' = "active"
    /\ UNCHANGED <<rows, world, told, starter, memory, hook, owed, todo, unwired, faults>>

\* The runner of a task that startup abandons ends in the same transaction.
AbandonedRunner(t) == Ended(t, "killed")

\* _recover_active_tasks.
RecoverActive(t) ==
    /\ phase = "active" /\ owed = {} /\ IsActive(t)
    /\ Becomes(t, "abandoned")
    /\ runner' = AbandonedRunner(t)
    /\ owed' = {t}
    /\ UNCHANGED <<result, grant, handle, world, told, starter, memory, hook, phase, todo,
                   unwired, faults>>

\* _recover_missing_results.
RecoverResult(t) ==
    /\ phase = "results" /\ owed = {} /\ Status(t) = "succeeded" /\ result[t] = "none"
    /\ Becomes(t, "unavailable")
    /\ owed' = {t}
    /\ UNCHANGED <<runner, result, grant, handle, world, told, starter, memory, hook, phase,
                   todo, unwired, faults>>

\* _object_task_recovery_filter, NOTIFICATION.
Retryable(t) ==
    Status(t) \in {"succeeded", "failed", "cancelled"} /\ task[t].notice \in {"none", "failed"}

\* _retry_notifications.
RecoverNotice(t) ==
    /\ phase = "notices" /\ t \in todo
    /\ Notified(t)
    /\ todo' = todo \ {t}
    /\ UNCHANGED <<runner, result, grant, handle, world, starter, memory, hook, owed, phase,
                   unwired, faults>>

\* recover: one pass after the other, then the worker starts.
NextPass ==
    /\ owed = {} /\ todo = {}
    /\ \/ /\ phase = "active" /\ \A t \in Tasks : ~IsActive(t)
          /\ phase' = "results" /\ UNCHANGED todo
       \/ /\ phase = "results"
          /\ \A t \in Tasks : ~(Status(t) = "succeeded" /\ result[t] = "none")
          /\ LET due == {t \in Tasks : Retryable(t)}
             IN  /\ phase' = IF due = {} THEN "open" ELSE "notices"
                 /\ todo' = due
       \/ /\ phase = "notices"
          /\ phase' = "open" /\ UNCHANGED todo
    /\ UNCHANGED <<rows, world, told, starter, memory, hook, owed, unwired, faults>>

-------------------------------------------------------------------------------

Tool(t, r) == ToolReturns(t, r) \/ ToolFails(t, r) \/ ToolWaits(t, r)

Coroutine(t, r) ==
    \/ Begin(t, r) \/ MarkRunning(t, r) \/ Cancelled(t, r)
    \/ MarkWaiting(t, r) \/ NotifyWaiting(t, r)
    \/ SettleError(t, r) \/ TransferResult(t, r) \/ WireResult(t, r) \/ WiringRaises(t, r)
    \/ ExitRunner(t, r) \/ RecordSuccess(t, r) \/ RecordGrantedSuccess(t, r) \/ GrantRaises(t, r)
    \/ NotifyEnd(t, r) \/ HandleFailure(t, r) \/ MarkFailed(t, r)
    \/ Finish(t, r) \/ Forget(t, r)

Loop     == \E t \in Tasks, r \in Runs : Coroutine(t, r)
Starting == \E t \in Tasks : Insert(t) \/ RefuseInsert(t) \/ HandOff(t) \/ AbortHandOff(t)
Threads  == \E t \in Tasks : NotifyOwed(t) \/ RunHook(t)
Reads    == \E t \in Tasks : ReconcileMail(t) \/ ResumeDecided(t) \/ Refresh(t) \/ RetryNotice(t)
Stopping == Close \/ \E t \in Tasks : ShutdownCancels(t)
Startup  == Reopen \/ NextPass
            \/ \E t \in Tasks : RecoverActive(t) \/ RecoverResult(t) \/ RecoverNotice(t)

World ==
    \E t \in Tasks :
        \/ \E tool \in Tools, wanted \in {"none", "wanted"} : Spawn(t, tool, wanted)
        \/ \E verdict \in {"met", "refused"} : HumanDecides(t, verdict)
        \/ \E how \in {"open", "refuses", "ended"} : RecipientChanges(t, how)
        \/ ConditionMet(t) \/ KillRunner(t) \/ Cancel(t)

\* Every task has been started and has ended.
Rest ==
    /\ phase = "open"
    /\ \A t \in Tasks : starter[t] = "done" /\ ~IsActive(t)
    /\ UNCHANGED vars

Next ==
    \/ Loop \/ Starting \/ Threads \/ Reads \/ Stopping \/ Startup \/ World
    \/ (\E t \in Tasks, r \in Runs : Tool(t, r))
    \/ BeginShutdown \/ Crash \/ Rest

Spec == Init /\ [][Next]_vars

\* The event loop, the threads inside a call and a startup go on; somebody reads
\* the tasks.  Tools, Humans and peers owe nothing.
FairSpec ==
    Spec /\ WF_vars(Loop) /\ WF_vars(Starting) /\ WF_vars(Threads) /\ WF_vars(Reads)
         /\ WF_vars(Stopping) /\ WF_vars(Startup)

-------------------------------------------------------------------------------
(* Properties *)

\* A task that says "running" has a coroutine that will settle it: no error path,
\* refused admission or cancelled future leaves one behind (_run_task).
RunningHasRun ==
    \A t \in Tasks : Status(t) = "running" /\ phase \in {"open", "closing"} => Live(t)

\* A result belongs to a task that succeeded, or to a run that has yet to publish or
\* discard it; the one exception is a task whose wiring or grant raised (_settle_tool_result,
\* discard_failed_result).
NoLeakedResult ==
    \A t \in Tasks : result[t] # "none" => Status(t) = "succeeded" \/ Live(t) \/ t \in unwired

\* A task that succeeded has its result while the Runtime is open: what a restart
\* lost is marked before admission opens (_recover_missing_results).
SuccessHasResult ==
    \A t \in Tasks : Status(t) = "succeeded" /\ phase \in {"open", "closing"} => result[t] = "task"

\* The runner ends with its task, in every outcome but one: a Human's rejection
\* (terminalize_runner, and _schedule_waiting_human_resume which does not call it).
RunnerEndsWithTask ==
    \A t \in Tasks : IsTerminal(t) /\ runner[t] \in LiveRunner => cond[t] = "refused"

\* The scheduler passes over a runner as long as its task is active (is_runner_pid):
\* a runner that is runnable must have such a task.
RunnerNotScheduled == \A t \in Tasks : runner[t] = "runnable" => IsActive(t)

\* No outcome is told twice, and a slot that says "delivered" on a terminal row
\* stands for the message of that outcome, not of a wait (begin_phase, notify).
ToldOnce ==
    \A t \in Tasks :
        /\ \A i, j \in DOMAIN told[t] : told[t][i] = told[t][j] => i = j
        /\ IsTerminal(t) /\ task[t].notice = "delivered" =>
              told[t] # <<>> /\ told[t][Len(told[t])] = Status(t)

\* The recipient's handle comes with a success that it was told of and with the use
\* of the grant, and no use stays reserved without a run (_mark_succeeded).
GrantIsAtomic ==
    \A t \in Tasks :
        /\ t \in handle <=> grant[t] = "committed"
        /\ t \in handle => \E i \in DOMAIN told[t] : told[t][i] = "succeeded"
        /\ grant[t] = "reserved" => Live(t)

\* The first outcome stands, against late results, cancellations and restarts; only
\* a success whose result is gone may be corrected, by a startup.
FirstOutcomeStands ==
    [][\A t \in Tasks :
          IsTerminal(t) =>
              \/ Status(t)' = Status(t)
              \/ phase = "results" /\ Status(t) = "succeeded" /\ Status(t)' = "unavailable"]_vars

\* A task whose message has come, or whose Human has decided, does not stay in its
\* wait, even when the wakeup came before the row said so (get, wait).
WaitIsServed ==
    \A t \in Tasks :
        (Status(t) = "waiting" /\ task[t].tool # "wait_child" /\ cond[t] # "open")
            ~> Status(t) # "waiting"

\* The notification of an outcome is attempted, by the thread that made it, by a
\* read, or by the next startup (notify_terminal, _retry_notifications).
OutcomeIsTold ==
    \A t \in Tasks :
        (Status(t) \in {"succeeded", "failed", "cancelled"} /\ task[t].notice = "none")
            ~> (task[t].notice # "none" \/ Status(t) = "unavailable")

\* The row of a task agrees with its run, its runner, its result and its grant, in
\* every order of settlement, cancellation, kill, shutdown and restart
\* (_settle_tool_result, mark_cancelled, _recover_persisted_tasks).
TasksInv ==
    /\ TypeOK
    /\ RunningHasRun
    /\ NoLeakedResult
    /\ SuccessHasResult
    /\ RunnerEndsWithTask
    /\ GrantIsAtomic

===============================================================================
