--------------------------- MODULE ObjectTasks_proof ---------------------------
(***************************************************************************)
(* Proofs about ObjectTasks, for every set of tasks and coroutines and any *)
(* number of faults.                                                       *)
(*                                                                         *)
(* A task can have several coroutines at a time: a callback that is late   *)
(* removes the future of a newer one, and the next hook schedules a third. *)
(* What keeps them apart is not the map of futures but the runner.  While  *)
(* it lives, one coroutine uses it (UserInv); what is done on the event    *)
(* loop between two awaits is done alone (LoopInv); and a result that is   *)
(* being published stays the task's, because the tools of the others could *)
(* only have come by it through the runner (PublishInv).                   *)
(***************************************************************************)
EXTENDS ObjectTasks, TLAPS

-------------------------------------------------------------------------------
(* The inductive invariant, task by task *)

\* A coroutine that uses the runner, one that publishes the runner's result, and one that
\* has the task to settle.
Using      == {"calling", "tool_ok", "tool_err", "wiring", "published"}
Publishing == {"wiring", "published", "exited"}
Settling   == Using \cup {"tool_wait", "exited", "raised", "failing"}

\* While a caller is inside start, nothing runs.
StartInv(t) ==
    /\ starter[t] \in {"new", "spawned"} => Status(t) = "none"
    /\ starter[t] = "inserted" => Status(t) \in {"queued"} \cup Terminal
    /\ starter[t] # "done" =>
         /\ \A r \in Runs : pc[t][r] = "idle"
         /\ result[t] = "none" /\ grant[t] \in {"none", "wanted"}
    /\ starter[t] = "new" => runner[t] = "absent" /\ grant[t] = "none"

\* A Runtime that stops has no work in hand, and one that starts has none at all; what
\* its passes have dealt with stays so.
PhaseInv(t) ==
    /\ phase # "open" => starter[t] \in {"new", "done"}
    /\ phase = "closing" => \A r \in Runs : pc[t][r] \in {"idle", "queued", "callback", "finish"}
    /\ phase \notin {"open", "closing"} => t \notin hook /\ \A r \in Runs : pc[t][r] = "idle"
    /\ phase \in {"results", "notices"} => ~IsActive(t)

\* One coroutine uses a living runner, and the row says "running" as long as it does.
UserInv(t) ==
    /\ runner[t] \in LiveRunner =>
         \A r \in Runs : pc[t][r] \in Using \cup {"tool_wait"} =>
           /\ Status(t) = "running"
           /\ pc[t][r] \in Using => runner[t] = "running"
           /\ pc[t][r] = "tool_wait" => runner[t] \in {"parked", "runnable"}
           /\ \A x \in Runs : pc[t][x] \in Using \cup {"tool_wait"} => x = r
    /\ runner[t] = "running" => Status(t) = "running"
    /\ \A r \in Runs : pc[t][r] \in {"exited", "failing"} => runner[t] \notin LiveRunner

\* A result is the runner's until the tool's return is settled, and the task's while it
\* is published, by one coroutine.
PublishInv(t) ==
    /\ result[t] = "runner" => runner[t] = "running" /\ \E r \in Runs : pc[t][r] = "tool_ok"
    /\ \A r \in Runs : pc[t][r] \in Publishing =>
         /\ result[t] = "task"
         /\ \A x \in Runs : pc[t][x] \in Using \cup {"tool_wait", "exited"} => x = r
    /\ result[t] = "task" =>
         \/ Status(t) = "succeeded"
         \/ \E r \in Runs : pc[t][r] \in Publishing
         \/ t \in unwired
    /\ result[t] = "task" /\ ~IsTerminal(t) =>
         \E r \in Runs : pc[t][r] \in Publishing \cup {"raised"}

\* A success is recorded over no other outcome, and no tool of the task is then left that
\* could discard its result.
SuccessInv(t) ==
    /\ \A r \in Runs : pc[t][r] = "exited" => ~IsTerminal(t)
    /\ Status(t) = "succeeded" =>
         /\ \A r \in Runs : pc[t][r] \notin Using \cup {"tool_wait", "exited"}
         /\ phase \in {"open", "closing", "notices"} => result[t] = "task"

\* A running row has a coroutine that will settle it; a coroutine is cancelled only with
\* its task; and the runner ends with its task.
SettleInv(t) ==
    /\ Status(t) = "running" /\ phase \in {"open", "closing"} =>
         \E r \in Runs : pc[t][r] \in Settling
    /\ \A r \in Runs : <<t, r>> \in undone => IsTerminal(t)
    /\ IsTerminal(t) /\ runner[t] \in LiveRunner => cond[t] = "refused"

\* The use of a grant is reserved by the coroutine that publishes, and committed with
\* the handle and the message.
GrantInv(t) ==
    /\ t \in handle <=> grant[t] = "committed"
    /\ t \in handle => \E i \in DOMAIN told[t] : told[t][i] = "succeeded"
    /\ grant[t] = "reserved" => \E r \in Runs : pc[t][r] \in {"published", "exited", "raised"}

\* What was told is the outcome, or the success that it corrects, each once; the slot
\* says whether the outcome itself was told.
ToldInv(t) ==
    /\ \A i, j \in DOMAIN told[t] : told[t][i] = told[t][j] => i = j
    /\ \A i \in DOMAIN told[t] :
         \/ told[t][i] = Status(t) /\ task[t].notice = "delivered"
         \/ told[t][i] = "succeeded" /\ Status(t) = "unavailable"
    /\ IsTerminal(t) /\ task[t].notice = "delivered" =>
         told[t] # <<>> /\ told[t][Len(told[t])] = Status(t)

TaskInv(t) ==
    /\ StartInv(t)
    /\ PhaseInv(t)
    /\ UserInv(t)
    /\ PublishInv(t)
    /\ SuccessInv(t)
    /\ SettleInv(t)
    /\ GrantInv(t)
    /\ ToldInv(t)

\* Between two awaits a coroutine is alone on the event loop.
LoopInv ==
    \A t, u \in Tasks, r, x \in Runs :
      pc[t][r] \in OnLoop /\ pc[u][x] \in OnLoop => t = u /\ r = x

TasksInvs == \A t \in Tasks : TaskInv(t)

IInv == TypeOK /\ LoopInv /\ TasksInvs

-------------------------------------------------------------------------------
(* What a step does to one task *)

\* The other tasks, and the phase of the Runtime, are as they were.
Elsewhere(t) ==
    /\ phase' = phase
    /\ \A u \in Tasks : u # t =>
         /\ task'[u] = task[u] /\ runner'[u] = runner[u] /\ result'[u] = result[u]
         /\ grant'[u] = grant[u] /\ cond'[u] = cond[u] /\ told'[u] = told[u]
         /\ starter'[u] = starter[u] /\ pc'[u] = pc[u]
         /\ u \in handle' <=> u \in handle
         /\ u \in hook' => u \in hook
         /\ u \in unwired => u \in unwired'
         /\ \A r \in Runs : <<u, r>> \in undone' => <<u, r>> \in undone

\* One coroutine of t moves to p.
PcMoves(t, r, p) ==
    /\ pc'[t][r] = p
    /\ \A x \in Runs : x # r => pc'[t][x] = pc[t][x]
    /\ \A u \in Tasks : u # t => pc'[u] = pc[u]

\* The row of t says s, and its slot n.
RowSays(t, s, n) ==
    /\ task'[t].status = s /\ task'[t].notice = n /\ task'[t].tool = task[t].tool
    /\ \A u \in Tasks : u # t => task'[u] = task[u]

\* The invariant of a task that a step leaves as it is.
LEMMA Untouched ==
    ASSUME NEW t \in Tasks, Elsewhere(t), NEW u \in Tasks, u # t, TaskInv(u)
    PROVE  TaskInv(u)'
<1>0. /\ phase' = phase /\ task'[u] = task[u] /\ runner'[u] = runner[u] /\ result'[u] = result[u]
      /\ grant'[u] = grant[u] /\ cond'[u] = cond[u] /\ told'[u] = told[u]
      /\ starter'[u] = starter[u] /\ pc'[u] = pc[u]
      /\ u \in handle' <=> u \in handle
      /\ u \in hook' => u \in hook
      /\ u \in unwired => u \in unwired'
      /\ \A r \in Runs : <<u, r>> \in undone' => <<u, r>> \in undone
  BY DEF Elsewhere
<1> USE DEF TaskInv, Status, IsTerminal, IsActive
<1>1. StartInv(u)' /\ PhaseInv(u)'
  BY <1>0 DEF StartInv, PhaseInv
<1>2. UserInv(u)' /\ PublishInv(u)'
  BY <1>0 DEF UserInv, PublishInv
<1>3. SuccessInv(u)' /\ SettleInv(u)'
  BY <1>0 DEF SuccessInv, SettleInv
<1>4. GrantInv(u)' /\ ToldInv(u)'
  BY <1>0 DEF GrantInv, ToldInv
<1> QED
  BY <1>1, <1>2, <1>3, <1>4

\* A step of one task keeps the invariant if it keeps the invariant of that task.
LEMMA OneTask ==
    ASSUME IInv, NEW t \in Tasks, Elsewhere(t), TypeOK', LoopInv', TaskInv(t)'
    PROVE  IInv'
  BY Untouched DEF IInv, TasksInvs

\* The steps of a coroutine keep it alone on the loop: it is there already, it leaves, or
\* nobody is there.
LEMMA LoopStep ==
    ASSUME IInv, NEW t \in Tasks, NEW r \in Runs, NEW p, PcMoves(t, r, p),
           p \in OnLoop => pc[t][r] \in OnLoop \/ LoopFree
    PROVE  LoopInv'
<1>1. \A u \in Tasks, x \in Runs : pc'[u][x] \in OnLoop =>
        (u = t /\ x = r) \/ pc[u][x] \in OnLoop
  BY DEF PcMoves
<1> QED
  BY <1>1 DEF LoopInv, LoopFree, PcMoves, IInv

\* So do the steps of no coroutine.
LEMMA LoopStays ==
    ASSUME IInv, UNCHANGED pc
    PROVE  LoopInv'
  BY DEF IInv, LoopInv

\* A move of one coroutine, seen from its task.
LEMMA GoesMoves ==
    ASSUME TypeOK, NEW t \in Tasks, NEW r \in Runs, NEW p, Goes(t, r, p)
    PROVE  PcMoves(t, r, p)
  BY DEF TypeOK, Goes, PcMoves

\* A row that enters a new phase has an empty slot.
LEMMA BecomesSays ==
    ASSUME TypeOK, NEW t \in Tasks, NEW s, Becomes(t, s)
    PROVE  RowSays(t, s, "none")
  BY DEF TypeOK, Becomes, RowSays

\* terminalize_runner ends a runner that lives.
LEMMA EndedRow ==
    ASSUME TypeOK, NEW t \in Tasks, NEW s, runner' = Ended(t, s)
    PROVE  /\ runner[t] \in LiveRunner => runner'[t] = s
           /\ runner[t] \notin LiveRunner => runner'[t] = runner[t]
           /\ \A u \in Tasks : u # t => runner'[u] = runner[u]
  BY DEF TypeOK, Ended

\* What a living runner owned is released when it ends.
LEMMA KeptRow ==
    ASSUME TypeOK, NEW t \in Tasks, result' = KeptBy(t)
    PROVE  /\ runner[t] \in LiveRunner /\ result[t] = "runner" => result'[t] = "none"
           /\ ~(runner[t] \in LiveRunner /\ result[t] = "runner") => result'[t] = result[t]
           /\ \A u \in Tasks : u # t => result'[u] = result[u]
  BY DEF TypeOK, KeptBy

\* A reserved use of the grant is given back.
LEMMA RestoredRow ==
    ASSUME TypeOK, NEW t \in Tasks, grant' = Restored(t)
    PROVE  /\ grant[t] = "reserved" => grant'[t] = "restored"
           /\ grant[t] # "reserved" => grant'[t] = grant[t]
           /\ \A u \in Tasks : u # t => grant'[u] = grant[u]
  BY DEF TypeOK, Restored

-------------------------------------------------------------------------------
(* What is told *)

\* Whoever was told of an outcome is not made to forget it.
ToldStays(t) ==
    \A e : (\E i \in DOMAIN told[t] : told[t][i] = e) => \E i \in DOMAIN told'[t] : told'[t][i] = e

\* An outcome that was not told is told, or not.
LEMMA Tells ==
    ASSUME TypeOK, NEW t \in Tasks, ToldInv(t), NEW s \in Terminal, NEW n \in Notices,
           \/ ~IsTerminal(t)
           \/ Due(t) /\ s = Status(t),
           RowSays(t, s, n),
           told'[t] = IF n = "delivered" THEN Append(told[t], s) ELSE told[t]
    PROVE  /\ ToldInv(t)' /\ ToldStays(t)
           /\ n = "delivered" => \E i \in DOMAIN told'[t] : told'[t][i] = s
<1>0. told[t] \in Seq(Terminal)
  BY DEF TypeOK
<1>1. \A i \in DOMAIN told[t] :
        told[t][i] = "succeeded" /\ s = "unavailable" /\ Status(t) = "unavailable"
  BY <1>0 DEF ToldInv, Due, IsTerminal, Terminal
<1>2. CASE n = "delivered"
  <2>1. /\ told'[t] \in Seq(Terminal) /\ Len(told'[t]) = Len(told[t]) + 1
        /\ DOMAIN told'[t] = 1..(Len(told[t]) + 1) /\ DOMAIN told[t] = 1..Len(told[t])
        /\ told'[t][Len(told[t]) + 1] = s /\ Len(told[t]) \in Nat
        /\ \A i \in 1..Len(told[t]) : told'[t][i] = told[t][i]
    BY <1>0, <1>2
  <2>2. told'[t] # <<>>
    BY <2>1
  <2>3. ToldStays(t)
    BY <2>1 DEF ToldStays
  <2>4. \A i, j \in DOMAIN told'[t] : told'[t][i] = told'[t][j] => i = j
    <3> SUFFICES ASSUME NEW i \in DOMAIN told'[t], NEW j \in DOMAIN told'[t],
                        told'[t][i] = told'[t][j], i # j
                 PROVE  FALSE
      OBVIOUS
    <3>1. CASE i \in 1..Len(told[t]) /\ j \in 1..Len(told[t])
      BY <2>1, <3>1 DEF ToldInv
    <3>2. CASE i \in 1..Len(told[t]) /\ j = Len(told[t]) + 1
      BY <1>1, <2>1, <3>2
    <3>3. CASE j \in 1..Len(told[t]) /\ i = Len(told[t]) + 1
      BY <1>1, <2>1, <3>3
    <3> QED
      BY <2>1, <3>1, <3>2, <3>3
  <2>5. \A i \in DOMAIN told'[t] :
          told'[t][i] = s \/ (told'[t][i] = "succeeded" /\ s = "unavailable")
    BY <1>1, <2>1
  <2> QED
    BY <1>2, <2>1, <2>2, <2>3, <2>4, <2>5 DEF ToldInv, RowSays, Status
<1>3. CASE n # "delivered"
  BY <1>1, <1>3 DEF ToldInv, ToldStays, RowSays, Status
<1> QED
  BY <1>2, <1>3

\* The outcome of a post is one of the three.
LEMMA Outcomes ==
    ASSUME TypeOK, NEW t \in Tasks
    PROVE  Outcome(t) \in Notices \ {"none"}
  BY DEF TypeOK, Outcome, Notices

\* Posting, seen from the task.
LEMMA PostedRow ==
    ASSUME TypeOK, NEW t \in Tasks, NEW s, told' = Posted(t, s)
    PROVE  /\ told'[t] = IF Outcome(t) = "delivered" THEN Append(told[t], s) ELSE told[t]
           /\ \A u \in Tasks : u # t => told'[u] = told[u]
  BY DEF TypeOK, Posted

\* A notification: the outcome is told, the slot written, and nothing else.
LEMMA NotifiedRow ==
    ASSUME TypeOK, NEW t \in Tasks, Notified(t), ToldInv(t)
    PROVE  /\ ToldInv(t)' /\ ToldStays(t)
           /\ task'[t].status = task[t].status /\ task'[t].tool = task[t].tool
           /\ \A u \in Tasks : u # t => task'[u] = task[u] /\ told'[u] = told[u]
<1>1. CASE Due(t)
  <2>1. /\ task' = [task EXCEPT ![t].notice = Outcome(t)] /\ told' = Posted(t, Status(t))
    BY <1>1 DEF Notified
  <2>2. RowSays(t, Status(t), Outcome(t))
    BY <2>1 DEF TypeOK, RowSays, Status
  <2>3. Status(t) \in Terminal /\ Outcome(t) \in Notices
    BY <1>1, Outcomes DEF Due, IsTerminal
  <2>4. PICK s, n : s = Status(t) /\ n = Outcome(t)
    OBVIOUS
  <2>5. /\ told'[t] = IF n = "delivered" THEN Append(told[t], s) ELSE told[t]
        /\ \A u \in Tasks : u # t => told'[u] = told[u]
    BY <2>1, <2>4, PostedRow
  <2>6. RowSays(t, s, n) /\ s \in Terminal /\ n \in Notices
    BY <2>2, <2>3, <2>4
  <2>7. ToldInv(t)' /\ ToldStays(t)
    BY <1>1, <2>4, <2>5, <2>6, Tells
  <2> QED
    BY <2>4, <2>5, <2>6, <2>7 DEF RowSays, Status
<1>2. CASE ~Due(t)
  BY <1>2 DEF Notified, ToldInv, ToldStays, Status, IsTerminal
<1> QED
  BY <1>1, <1>2

\* A row that had no outcome gets one, which is not told yet, or none; a lost success is
\* corrected.
LEMMA NotTold ==
    ASSUME TypeOK, NEW t \in Tasks, ToldInv(t), told'[t] = told[t],
           \/ ~IsTerminal(t) /\ (~IsTerminal(t)' \/ task'[t].notice = "none")
           \/ Status(t) = "succeeded" /\ task'[t].status = "unavailable" /\ task'[t].notice = "none"
    PROVE  ToldInv(t)'
<1>0. told[t] \in Seq(Terminal)
  BY DEF TypeOK
<1>1. \A i \in DOMAIN told[t] : told[t][i] \in Terminal
  BY <1>0
<1> QED
  BY <1>1 DEF ToldInv, Status, IsTerminal, Terminal

-------------------------------------------------------------------------------
(* Types *)

TaskRows ==
    [Tasks -> [status : {"none"} \cup Active \cup Terminal, tool : Tools, notice : Notices]]
RunnerRows == [Tasks -> {"absent"} \cup LiveRunner \cup EndedRunner]
GrantRows ==
    [Tasks -> {"none", "wanted", "reserved", "committed", "restored", "abandoned"}]
Phases == {"open", "closing", "down", "active", "results", "notices"}

\* The points of the coroutines, after one has moved.
LEMMA GoesType ==
    ASSUME TypeOK, NEW t \in Tasks, NEW r \in Runs, NEW p \in Points, Goes(t, r, p)
    PROVE  pc' \in [Tasks -> [Runs -> Points]]
  BY DEF TypeOK, Goes

\* A row that enters a new phase is a row.
LEMMA BecomesType ==
    ASSUME TypeOK, NEW t \in Tasks, NEW s \in {"none"} \cup Active \cup Terminal, Becomes(t, s)
    PROVE  task' \in TaskRows
<1>1. task[t] \in [status : {"none"} \cup Active \cup Terminal, tool : Tools, notice : Notices]
  BY DEF TypeOK
<1>2. [[task[t] EXCEPT !.status = s] EXCEPT !.notice = "none"]
        \in [status : {"none"} \cup Active \cup Terminal, tool : Tools, notice : Notices]
  BY <1>1 DEF Notices
<1> QED
  BY <1>2 DEF TypeOK, TaskRows, Becomes

\* So is one whose status is written.
LEMMA StatusType ==
    ASSUME TypeOK, NEW t \in Tasks, NEW s \in {"none"} \cup Active \cup Terminal,
           task' = [task EXCEPT ![t].status = s]
    PROVE  task' \in TaskRows
<1>1. task[t] \in [status : {"none"} \cup Active \cup Terminal, tool : Tools, notice : Notices]
  BY DEF TypeOK
<1>2. [task[t] EXCEPT !.status = s]
        \in [status : {"none"} \cup Active \cup Terminal, tool : Tools, notice : Notices]
  BY <1>1
<1> QED
  BY <1>2 DEF TypeOK, TaskRows

\* And one whose slot is written.
LEMMA SlotType ==
    ASSUME TypeOK, NEW t \in Tasks, NEW n \in Notices,
           task' = [task EXCEPT ![t].notice = n]
    PROVE  task' \in TaskRows
<1>1. task[t] \in [status : {"none"} \cup Active \cup Terminal, tool : Tools, notice : Notices]
  BY DEF TypeOK
<1>2. [task[t] EXCEPT !.notice = n]
        \in [status : {"none"} \cup Active \cup Terminal, tool : Tools, notice : Notices]
  BY <1>1
<1> QED
  BY <1>2 DEF TypeOK, TaskRows

\* And one whose tool is written.
LEMMA ToolType ==
    ASSUME TypeOK, NEW t \in Tasks, NEW f \in Tools,
           task' = [task EXCEPT ![t].tool = f]
    PROVE  task' \in TaskRows
<1>1. task[t] \in [status : {"none"} \cup Active \cup Terminal, tool : Tools, notice : Notices]
  BY DEF TypeOK
<1>2. [task[t] EXCEPT !.tool = f]
        \in [status : {"none"} \cup Active \cup Terminal, tool : Tools, notice : Notices]
  BY <1>1
<1> QED
  BY <1>2 DEF TypeOK, TaskRows

\* And one that has its outcome together with its notification.
LEMMA OutcomeType ==
    ASSUME TypeOK, NEW t \in Tasks, NEW s \in Terminal, NEW n \in Notices,
           task' = [task EXCEPT ![t].status = s, ![t].notice = n]
    PROVE  task' \in TaskRows
<1>1. task[t] \in [status : {"none"} \cup Active \cup Terminal, tool : Tools, notice : Notices]
  BY DEF TypeOK
<1>2. [[task[t] EXCEPT !.status = s] EXCEPT !.notice = n]
        \in [status : {"none"} \cup Active \cup Terminal, tool : Tools, notice : Notices]
  BY <1>1
<1> QED
  BY <1>2 DEF TypeOK, TaskRows

\* terminalize_runner writes a status of a process.
LEMMA EndedType ==
    ASSUME TypeOK, NEW t \in Tasks, NEW s \in EndedRunner
    PROVE  Ended(t, s) \in RunnerRows
  BY DEF TypeOK, Ended, RunnerRows

\* The owners of results, after a runner ended.
LEMMA KeptType ==
    ASSUME TypeOK, NEW t \in Tasks
    PROVE  KeptBy(t) \in [Tasks -> {"none", "runner", "task"}]
  BY DEF TypeOK, KeptBy

\* The grants, after one was given back.
LEMMA RestoredType ==
    ASSUME TypeOK, NEW t \in Tasks
    PROVE  Restored(t) \in GrantRows
  BY DEF TypeOK, Restored, GrantRows

\* What is told are outcomes.
LEMMA PostedType ==
    ASSUME TypeOK, NEW t \in Tasks, NEW s \in Terminal
    PROVE  Posted(t, s) \in [Tasks -> Seq(Terminal)]
<1>1. told[t] \in Seq(Terminal) /\ Append(told[t], s) \in Seq(Terminal)
  BY DEF TypeOK
<1> QED
  BY <1>1 DEF TypeOK, Posted

\* A notification writes a slot and tells an outcome.
LEMMA NotifiedType ==
    ASSUME TypeOK, NEW t \in Tasks, Notified(t)
    PROVE  task' \in TaskRows /\ told' \in [Tasks -> Seq(Terminal)]
<1>1. CASE Due(t)
  <2>1. /\ task' = [task EXCEPT ![t].notice = Outcome(t)] /\ told' = Posted(t, Status(t))
        /\ Status(t) \in Terminal
    BY <1>1 DEF Notified, Due, IsTerminal
  <2>2. Outcome(t) \in Notices
    BY Outcomes
  <2>3. task' \in TaskRows
    BY <2>1, <2>2, SlotType
  <2> QED
    BY <2>1, <2>3, PostedType
<1>2. CASE ~Due(t)
  BY <1>2 DEF TypeOK, Notified, TaskRows
<1> QED
  BY <1>1, <1>2

\* A stutter keeps the types.
LEMMA UntouchedType ==
    ASSUME TypeOK, UNCHANGED vars
    PROVE  TypeOK'
  BY DEF TypeOK, vars

\* The types, in Begin.
LEMMA BeginType ==
    ASSUME TypeOK, NEW t \in Tasks, NEW r \in Runs, Begin(t, r)
    PROVE  TypeOK'
<1>1. pc' \in [Tasks -> [Runs -> Points]]
  BY GoesType DEF TypeOK, Begin, Points
<1>2. undone' \subseteq Tasks \X Runs
  BY DEF TypeOK, Begin
<1>3. active' \subseteq Tasks
  BY DEF TypeOK, Begin
<1> QED
  BY <1>1, <1>2, <1>3 DEF TypeOK, Begin, rows, world, host, TaskRows, RunnerRows,
     GrantRows, Phases

\* The types, in MarkRunning.
LEMMA MarkRunningType ==
    ASSUME TypeOK, NEW t \in Tasks, NEW r \in Runs, MarkRunning(t, r)
    PROVE  TypeOK'
<1>1. task' \in TaskRows
  <2>1. CASE UNCHANGED task
    BY <2>1 DEF TypeOK, TaskRows
  <2>2. CASE task' = [task EXCEPT ![t].status = "running"]
    BY <2>2, StatusType DEF Active
  <2> QED
    BY <2>1, <2>2 DEF MarkRunning
<1>2. runner' \in RunnerRows
  BY DEF TypeOK, MarkRunning, RunnerRows, LiveRunner, EndedRunner
<1>3. pc' \in [Tasks -> [Runs -> Points]]
  BY GoesType DEF TypeOK, MarkRunning, Points
<1> QED
  BY <1>1, <1>2, <1>3 DEF TypeOK, MarkRunning, world, maps, host, TaskRows, RunnerRows,
     GrantRows, Phases

\* The types, in Cancelled.
LEMMA CancelledType ==
    ASSUME TypeOK, NEW t \in Tasks, NEW r \in Runs, Cancelled(t, r)
    PROVE  TypeOK'
<1>1. pc' \in [Tasks -> [Runs -> Points]]
  BY GoesType DEF TypeOK, Cancelled, Points
<1> QED
  BY <1>1 DEF TypeOK, Cancelled, rows, world, maps, host, TaskRows, RunnerRows,
     GrantRows, Phases

\* The types, in MarkWaiting.
LEMMA MarkWaitingType ==
    ASSUME TypeOK, NEW t \in Tasks, NEW r \in Runs, MarkWaiting(t, r)
    PROVE  TypeOK'
<1>1. task' \in TaskRows
  BY BecomesType DEF TypeOK, MarkWaiting, Resumed, TaskRows, Active, Terminal
<1>2. pc' \in [Tasks -> [Runs -> Points]]
  BY GoesType DEF TypeOK, MarkWaiting, Resumed, Points
<1> QED
  BY <1>1, <1>2 DEF TypeOK, MarkWaiting, world, maps, host, TaskRows, RunnerRows,
     GrantRows, Phases

\* The types, in NotifyWaiting.
LEMMA NotifyWaitingType ==
    ASSUME TypeOK, NEW t \in Tasks, NEW r \in Runs, NotifyWaiting(t, r)
    PROVE  TypeOK'
<1>1. task' \in TaskRows
  <2>1. CASE UNCHANGED task
    BY <2>1 DEF TypeOK, TaskRows
  <2>2. CASE task' = [task EXCEPT ![t].notice = Outcome(t)]
    BY <2>2, SlotType, Outcomes
  <2> QED
    BY <2>1, <2>2 DEF NotifyWaiting
<1>2. pc' \in [Tasks -> [Runs -> Points]]
  BY GoesType DEF TypeOK, NotifyWaiting, Points
<1> QED
  BY <1>1, <1>2 DEF TypeOK, NotifyWaiting, world, maps, host, TaskRows, RunnerRows,
     GrantRows, Phases

\* The types, in SettleError.
LEMMA SettleErrorType ==
    ASSUME TypeOK, NEW t \in Tasks, NEW r \in Runs, SettleError(t, r)
    PROVE  TypeOK'
<1>1. runner' \in RunnerRows
  BY EndedType DEF TypeOK, SettleError, Resumed, Discarded, RunnerRows, LiveRunner,
       EndedRunner
<1>2. result' \in [Tasks -> {"none", "runner", "task"}]
  BY DEF TypeOK, SettleError, Resumed, Discarded
<1>3. pc' \in [Tasks -> [Runs -> Points]]
  BY GoesType DEF TypeOK, SettleError, Resumed, Discarded, Points
<1> QED
  BY <1>1, <1>2, <1>3 DEF TypeOK, SettleError, world, maps, host, TaskRows, RunnerRows,
     GrantRows, Phases

\* The types, in TransferResult.
LEMMA TransferResultType ==
    ASSUME TypeOK, NEW t \in Tasks, NEW r \in Runs, TransferResult(t, r)
    PROVE  TypeOK'
<1>1. result' \in [Tasks -> {"none", "runner", "task"}]
  BY DEF TypeOK, TransferResult, Resumed, Discarded
<1>2. pc' \in [Tasks -> [Runs -> Points]]
  BY GoesType DEF TypeOK, TransferResult, Resumed, Discarded, Points
<1> QED
  BY <1>1, <1>2 DEF TypeOK, TransferResult, world, maps, host, TaskRows, RunnerRows,
     GrantRows, Phases

\* The types, in WireResult.
LEMMA WireResultType ==
    ASSUME TypeOK, NEW t \in Tasks, NEW r \in Runs, WireResult(t, r)
    PROVE  TypeOK'
<1>1. grant' \in GrantRows
  BY DEF TypeOK, WireResult, GrantRows
<1>2. pc' \in [Tasks -> [Runs -> Points]]
  BY GoesType DEF TypeOK, WireResult, Points
<1> QED
  BY <1>1, <1>2 DEF TypeOK, WireResult, world, maps, host, TaskRows, RunnerRows,
     GrantRows, Phases

\* The types, in WiringRaises.
LEMMA WiringRaisesType ==
    ASSUME TypeOK, NEW t \in Tasks, NEW r \in Runs, WiringRaises(t, r)
    PROVE  TypeOK'
<1>1. pc' \in [Tasks -> [Runs -> Points]]
  BY GoesType DEF TypeOK, WiringRaises, Faulty, Points
<1>2. unwired' \subseteq Tasks
  BY DEF TypeOK, WiringRaises, Faulty
<1>3. faults' \in 0..MaxFaults
  BY ObjectTasksAssumption DEF TypeOK, WiringRaises, Faulty
<1> QED
  BY <1>1, <1>2, <1>3 DEF TypeOK, WiringRaises, rows, world, maps, TaskRows, RunnerRows,
     GrantRows, Phases

\* The types, in ExitRunner.
LEMMA ExitRunnerType ==
    ASSUME TypeOK, NEW t \in Tasks, NEW r \in Runs, ExitRunner(t, r)
    PROVE  TypeOK'
<1>1. runner' \in RunnerRows
  BY EndedType DEF TypeOK, ExitRunner, Discarded, RunnerRows, LiveRunner, EndedRunner
<1>2. result' \in [Tasks -> {"none", "runner", "task"}]
  BY DEF TypeOK, ExitRunner, Discarded
<1>3. grant' \in GrantRows
  BY RestoredType DEF TypeOK, ExitRunner, Discarded, GrantRows
<1>4. pc' \in [Tasks -> [Runs -> Points]]
  BY GoesType DEF TypeOK, ExitRunner, Discarded, Points
<1> QED
  BY <1>1, <1>2, <1>3, <1>4 DEF TypeOK, ExitRunner, world, maps, host, TaskRows,
     RunnerRows, GrantRows, Phases

\* The types, in RecordSuccess.
LEMMA RecordSuccessType ==
    ASSUME TypeOK, NEW t \in Tasks, NEW r \in Runs, RecordSuccess(t, r)
    PROVE  TypeOK'
<1>1. task' \in TaskRows
  BY BecomesType DEF TypeOK, RecordSuccess, TaskRows, Active, Terminal
<1>2. pc' \in [Tasks -> [Runs -> Points]]
  BY GoesType DEF TypeOK, RecordSuccess, Points
<1> QED
  BY <1>1, <1>2 DEF TypeOK, RecordSuccess, world, maps, host, TaskRows, RunnerRows,
     GrantRows, Phases

\* The types, in RecordGrantedSuccess.
LEMMA RecordGrantedSuccessType ==
    ASSUME TypeOK, NEW t \in Tasks, NEW r \in Runs, RecordGrantedSuccess(t, r)
    PROVE  TypeOK'
<1>1. task' \in TaskRows
  <2>1. CASE Becomes(t, "succeeded")
    BY <2>1, BecomesType DEF Terminal
  <2>2. CASE task' = [task EXCEPT ![t].status = "succeeded", ![t].notice = Outcome(t)]
    BY <2>2, OutcomeType, Outcomes DEF Terminal
  <2> QED
    BY <2>1, <2>2 DEF RecordGrantedSuccess
<1>2. grant' \in GrantRows
  BY RestoredType DEF TypeOK, RecordGrantedSuccess, GrantRows
<1>3. handle' \subseteq Tasks
  BY DEF TypeOK, RecordGrantedSuccess
<1>4. told' \in [Tasks -> Seq(Terminal)]
  BY PostedType DEF TypeOK, RecordGrantedSuccess, Terminal
<1>5. pc' \in [Tasks -> [Runs -> Points]]
  BY GoesType DEF TypeOK, RecordGrantedSuccess, Points
<1> QED
  BY <1>1, <1>2, <1>3, <1>4, <1>5 DEF TypeOK, RecordGrantedSuccess, world, maps, host,
     TaskRows, RunnerRows, GrantRows, Phases

\* The types, in GrantRaises.
LEMMA GrantRaisesType ==
    ASSUME TypeOK, NEW t \in Tasks, NEW r \in Runs, GrantRaises(t, r)
    PROVE  TypeOK'
<1>1. pc' \in [Tasks -> [Runs -> Points]]
  BY GoesType DEF TypeOK, GrantRaises, Faulty, Points
<1>2. unwired' \subseteq Tasks
  BY DEF TypeOK, GrantRaises, Faulty
<1>3. faults' \in 0..MaxFaults
  BY ObjectTasksAssumption DEF TypeOK, GrantRaises, Faulty
<1> QED
  BY <1>1, <1>2, <1>3 DEF TypeOK, GrantRaises, rows, world, maps, TaskRows, RunnerRows,
     GrantRows, Phases

\* The types, in NotifyEnd.
LEMMA NotifyEndType ==
    ASSUME TypeOK, NEW t \in Tasks, NEW r \in Runs, NotifyEnd(t, r)
    PROVE  TypeOK'
<1>1. task' \in TaskRows
  BY NotifiedType DEF TypeOK, NotifyEnd, TaskRows, Active, Terminal
<1>2. told' \in [Tasks -> Seq(Terminal)]
  BY NotifiedType, PostedType DEF TypeOK, NotifyEnd, Terminal
<1>3. pc' \in [Tasks -> [Runs -> Points]]
  BY GoesType DEF TypeOK, NotifyEnd, Points
<1> QED
  BY <1>1, <1>2, <1>3 DEF TypeOK, NotifyEnd, world, maps, host, TaskRows, RunnerRows,
     GrantRows, Phases

\* The types, in HandleFailure.
LEMMA HandleFailureType ==
    ASSUME TypeOK, NEW t \in Tasks, NEW r \in Runs, HandleFailure(t, r)
    PROVE  TypeOK'
<1>1. runner' \in RunnerRows
  BY EndedType DEF TypeOK, HandleFailure, Discarded, RunnerRows, LiveRunner, EndedRunner
<1>2. result' \in [Tasks -> {"none", "runner", "task"}]
  BY DEF TypeOK, HandleFailure, Discarded
<1>3. grant' \in GrantRows
  BY RestoredType DEF TypeOK, HandleFailure, Discarded, GrantRows
<1>4. pc' \in [Tasks -> [Runs -> Points]]
  BY GoesType DEF TypeOK, HandleFailure, Discarded, Points
<1> QED
  BY <1>1, <1>2, <1>3, <1>4 DEF TypeOK, HandleFailure, world, maps, host, TaskRows,
     RunnerRows, GrantRows, Phases

\* The types, in MarkFailed.
LEMMA MarkFailedType ==
    ASSUME TypeOK, NEW t \in Tasks, NEW r \in Runs, MarkFailed(t, r)
    PROVE  TypeOK'
<1>1. task' \in TaskRows
  BY BecomesType DEF TypeOK, MarkFailed, Fails, TaskRows, Active, Terminal
<1>2. pc' \in [Tasks -> [Runs -> Points]]
  BY GoesType DEF TypeOK, MarkFailed, Fails, Points
<1> QED
  BY <1>1, <1>2 DEF TypeOK, MarkFailed, world, maps, host, TaskRows, RunnerRows,
     GrantRows, Phases

\* The types, in Finish.
LEMMA FinishType ==
    ASSUME TypeOK, NEW t \in Tasks, NEW r \in Runs, Finish(t, r)
    PROVE  TypeOK'
<1>1. pc' \in [Tasks -> [Runs -> Points]]
  BY GoesType DEF TypeOK, Finish, KeptArgs, Points
<1>2. future' \in [Tasks -> Runs \cup {NoRun}]
  BY DEF TypeOK, Finish, KeptArgs
<1>3. undone' \subseteq Tasks \X Runs
  BY DEF TypeOK, Finish, KeptArgs
<1>4. active' \subseteq Tasks
  BY DEF TypeOK, Finish, KeptArgs
<1>5. args' \subseteq Tasks
  BY DEF TypeOK, Finish, KeptArgs
<1> QED
  BY <1>1, <1>2, <1>3, <1>4, <1>5 DEF TypeOK, Finish, rows, world, host, TaskRows,
     RunnerRows, GrantRows, Phases

\* The types, in Forget.
LEMMA ForgetType ==
    ASSUME TypeOK, NEW t \in Tasks, NEW r \in Runs, Forget(t, r)
    PROVE  TypeOK'
<1>1. pc' \in [Tasks -> [Runs -> Points]]
  BY GoesType DEF TypeOK, Forget, KeptArgs, Points
<1>2. future' \in [Tasks -> Runs \cup {NoRun}]
  BY DEF TypeOK, Forget, KeptArgs
<1>3. args' \subseteq Tasks
  BY DEF TypeOK, Forget, KeptArgs
<1> QED
  BY <1>1, <1>2, <1>3 DEF TypeOK, Forget, rows, world, host, TaskRows, RunnerRows,
     GrantRows, Phases

\* The types, in ToolReturns.
LEMMA ToolReturnsType ==
    ASSUME TypeOK, NEW t \in Tasks, NEW r \in Runs, ToolReturns(t, r)
    PROVE  TypeOK'
<1>1. result' \in [Tasks -> {"none", "runner", "task"}]
  BY DEF TypeOK, ToolReturns
<1>2. pc' \in [Tasks -> [Runs -> Points]]
  BY GoesType DEF TypeOK, ToolReturns, Points
<1> QED
  BY <1>1, <1>2 DEF TypeOK, ToolReturns, world, maps, host, TaskRows, RunnerRows,
     GrantRows, Phases

\* The types, in ToolFails.
LEMMA ToolFailsType ==
    ASSUME TypeOK, NEW t \in Tasks, NEW r \in Runs, ToolFails(t, r)
    PROVE  TypeOK'
<1>1. pc' \in [Tasks -> [Runs -> Points]]
  BY GoesType DEF TypeOK, ToolFails, Points
<1> QED
  BY <1>1 DEF TypeOK, ToolFails, rows, world, maps, host, TaskRows, RunnerRows,
     GrantRows, Phases

\* The types, in ToolWaits.
LEMMA ToolWaitsType ==
    ASSUME TypeOK, NEW t \in Tasks, NEW r \in Runs, ToolWaits(t, r)
    PROVE  TypeOK'
<1>1. runner' \in RunnerRows
  BY DEF TypeOK, ToolWaits, RunnerRows, LiveRunner, EndedRunner
<1>2. pc' \in [Tasks -> [Runs -> Points]]
  BY GoesType DEF TypeOK, ToolWaits, Points
<1> QED
  BY <1>1, <1>2 DEF TypeOK, ToolWaits, world, maps, host, TaskRows, RunnerRows,
     GrantRows, Phases

\* The types, in Insert.
LEMMA InsertType ==
    ASSUME TypeOK, NEW t \in Tasks, Insert(t)
    PROVE  TypeOK'
<1>1. task' \in TaskRows
  BY StatusType DEF Insert, Active
<1>2. starter' \in [Tasks -> {"new", "spawned", "inserted", "done"}]
  BY DEF TypeOK, Insert
<1> QED
  BY <1>1, <1>2 DEF TypeOK, Insert, world, memory, maps, TaskRows, RunnerRows,
     GrantRows, Phases

\* The types, in RefuseInsert.
LEMMA RefuseInsertType ==
    ASSUME TypeOK, NEW t \in Tasks, RefuseInsert(t)
    PROVE  TypeOK'
<1>1. runner' \in RunnerRows
  BY DEF TypeOK, RefuseInsert, Faulty, RunnerRows, LiveRunner, EndedRunner
<1>2. starter' \in [Tasks -> {"new", "spawned", "inserted", "done"}]
  BY DEF TypeOK, RefuseInsert, Faulty
<1>3. faults' \in 0..MaxFaults
  BY ObjectTasksAssumption DEF TypeOK, RefuseInsert, Faulty
<1> QED
  BY <1>1, <1>2, <1>3 DEF TypeOK, RefuseInsert, world, memory, maps, TaskRows,
     RunnerRows, GrantRows, Phases

\* The types, in HandOff.
LEMMA HandOffType ==
    ASSUME TypeOK, NEW t \in Tasks, HandOff(t)
    PROVE  TypeOK'
<1>1. starter' \in [Tasks -> {"new", "spawned", "inserted", "done"}]
  BY DEF TypeOK, HandOff, Schedules
<1>2. pc' \in [Tasks -> [Runs -> Points]]
  BY GoesType DEF TypeOK, HandOff, Schedules, Points
<1>3. future' \in [Tasks -> Runs \cup {NoRun}]
  BY DEF TypeOK, HandOff, Schedules
<1>4. args' \subseteq Tasks
  BY DEF TypeOK, HandOff, Schedules
<1> QED
  BY <1>1, <1>2, <1>3, <1>4 DEF TypeOK, HandOff, Schedules, rows, world, TaskRows,
     RunnerRows, GrantRows, Phases

\* The types, in AbortHandOff.
LEMMA AbortHandOffType ==
    ASSUME TypeOK, NEW t \in Tasks, AbortHandOff(t)
    PROVE  TypeOK'
<1>1. task' \in TaskRows
  BY BecomesType DEF TypeOK, AbortHandOff, Faulty, TaskRows, Active, Terminal
<1>2. runner' \in RunnerRows
  BY DEF TypeOK, AbortHandOff, Faulty, RunnerRows, LiveRunner, EndedRunner
<1>3. starter' \in [Tasks -> {"new", "spawned", "inserted", "done"}]
  BY DEF TypeOK, AbortHandOff, Faulty
<1>4. owed' \subseteq Tasks
  BY DEF TypeOK, AbortHandOff, Faulty
<1>5. faults' \in 0..MaxFaults
  BY ObjectTasksAssumption DEF TypeOK, AbortHandOff, Faulty
<1> QED
  BY <1>1, <1>2, <1>3, <1>4, <1>5 DEF TypeOK, AbortHandOff, world, memory, maps,
     TaskRows, RunnerRows, GrantRows, Phases

\* The types, in NotifyOwed.
LEMMA NotifyOwedType ==
    ASSUME TypeOK, NEW t \in Tasks, NotifyOwed(t)
    PROVE  TypeOK'
<1>1. task' \in TaskRows
  BY NotifiedType DEF TypeOK, NotifyOwed, TaskRows, Active, Terminal
<1>2. told' \in [Tasks -> Seq(Terminal)]
  BY NotifiedType, PostedType DEF TypeOK, NotifyOwed, Terminal
<1>3. owed' \subseteq Tasks
  BY DEF TypeOK, NotifyOwed
<1> QED
  BY <1>1, <1>2, <1>3 DEF TypeOK, NotifyOwed, world, memory, maps, TaskRows, RunnerRows,
     GrantRows, Phases

\* The types, in RunHook.
LEMMA RunHookType ==
    ASSUME TypeOK, NEW t \in Tasks, RunHook(t)
    PROVE  TypeOK'
<1>1. pc' \in [Tasks -> [Runs -> Points]]
  BY GoesType DEF TypeOK, RunHook, Schedules, Points
<1>2. future' \in [Tasks -> Runs \cup {NoRun}]
  BY DEF TypeOK, RunHook, Schedules
<1>3. hook' \subseteq Tasks
  BY DEF TypeOK, RunHook, Schedules
<1> QED
  BY <1>1, <1>2, <1>3 DEF TypeOK, RunHook, Schedules, rows, world, TaskRows, RunnerRows,
     GrantRows, Phases

\* The types, in ReconcileMail.
LEMMA ReconcileMailType ==
    ASSUME TypeOK, NEW t \in Tasks, ReconcileMail(t)
    PROVE  TypeOK'
<1>1. pc' \in [Tasks -> [Runs -> Points]]
  BY GoesType DEF TypeOK, ReconcileMail, Schedules, Points
<1>2. future' \in [Tasks -> Runs \cup {NoRun}]
  BY DEF TypeOK, ReconcileMail, Schedules
<1> QED
  BY <1>1, <1>2 DEF TypeOK, ReconcileMail, Schedules, rows, world, host, TaskRows,
     RunnerRows, GrantRows, Phases

\* The types, in ResumeDecided.
LEMMA ResumeDecidedType ==
    ASSUME TypeOK, NEW t \in Tasks, ResumeDecided(t)
    PROVE  TypeOK'
<1>1. task' \in TaskRows
  BY BecomesType DEF TypeOK, ResumeDecided, Schedules, Fails, TaskRows, Active, Terminal
<1>2. pc' \in [Tasks -> [Runs -> Points]]
  BY GoesType DEF TypeOK, ResumeDecided, Schedules, Fails, Points
<1>3. future' \in [Tasks -> Runs \cup {NoRun}]
  BY DEF TypeOK, ResumeDecided, Schedules, Fails
<1>4. args' \subseteq Tasks
  BY DEF TypeOK, ResumeDecided, Schedules, Fails
<1>5. owed' \subseteq Tasks
  BY DEF TypeOK, ResumeDecided, Schedules, Fails
<1> QED
  BY <1>1, <1>2, <1>3, <1>4, <1>5 DEF TypeOK, ResumeDecided, Schedules, world, TaskRows,
     RunnerRows, GrantRows, Phases

\* The types, in Refresh.
LEMMA RefreshType ==
    ASSUME TypeOK, NEW t \in Tasks, Refresh(t)
    PROVE  TypeOK'
<1>1. task' \in TaskRows
  BY BecomesType DEF TypeOK, Refresh, TaskRows, Active, Terminal
<1>2. args' \subseteq Tasks
  BY DEF TypeOK, Refresh
<1>3. owed' \subseteq Tasks
  BY DEF TypeOK, Refresh
<1> QED
  BY <1>1, <1>2, <1>3 DEF TypeOK, Refresh, world, TaskRows, RunnerRows, GrantRows,
     Phases

\* The types, in RetryNotice.
LEMMA RetryNoticeType ==
    ASSUME TypeOK, NEW t \in Tasks, RetryNotice(t)
    PROVE  TypeOK'
<1>1. task' \in TaskRows
  BY NotifiedType DEF TypeOK, RetryNotice, TaskRows, Active, Terminal
<1>2. told' \in [Tasks -> Seq(Terminal)]
  BY NotifiedType, PostedType DEF TypeOK, RetryNotice, Terminal
<1> QED
  BY <1>1, <1>2 DEF TypeOK, RetryNotice, world, memory, maps, host, TaskRows,
     RunnerRows, GrantRows, Phases

\* The types, in ShutdownCancels.
LEMMA ShutdownCancelsType ==
    ASSUME TypeOK, NEW t \in Tasks, ShutdownCancels(t)
    PROVE  TypeOK'
<1>1. task' \in TaskRows
  BY BecomesType DEF TypeOK, ShutdownCancels, TaskRows, Active, Terminal
<1>2. runner' \in RunnerRows
  BY EndedType DEF TypeOK, ShutdownCancels, RunnerRows, LiveRunner, EndedRunner
<1>3. result' \in [Tasks -> {"none", "runner", "task"}]
  BY KeptType DEF TypeOK, ShutdownCancels
<1>4. args' \subseteq Tasks
  BY DEF TypeOK, ShutdownCancels
<1>5. owed' \subseteq Tasks
  BY DEF TypeOK, ShutdownCancels
<1> QED
  BY <1>1, <1>2, <1>3, <1>4, <1>5 DEF TypeOK, ShutdownCancels, world, TaskRows,
     RunnerRows, GrantRows, Phases

\* The types, in RecoverActive.
LEMMA RecoverActiveType ==
    ASSUME TypeOK, NEW t \in Tasks, RecoverActive(t)
    PROVE  TypeOK'
<1>1. task' \in TaskRows
  BY BecomesType DEF TypeOK, RecoverActive, AbandonedRunner, TaskRows, Active, Terminal
<1>2. runner' \in RunnerRows
  BY EndedType DEF TypeOK, RecoverActive, AbandonedRunner, RunnerRows, LiveRunner,
       EndedRunner
<1>3. owed' \subseteq Tasks
  BY DEF TypeOK, RecoverActive, AbandonedRunner
<1> QED
  BY <1>1, <1>2, <1>3 DEF TypeOK, RecoverActive, world, memory, maps, TaskRows,
     RunnerRows, GrantRows, Phases

\* The types, in RecoverResult.
LEMMA RecoverResultType ==
    ASSUME TypeOK, NEW t \in Tasks, RecoverResult(t)
    PROVE  TypeOK'
<1>1. task' \in TaskRows
  BY BecomesType DEF TypeOK, RecoverResult, TaskRows, Active, Terminal
<1>2. owed' \subseteq Tasks
  BY DEF TypeOK, RecoverResult
<1> QED
  BY <1>1, <1>2 DEF TypeOK, RecoverResult, world, memory, maps, TaskRows, RunnerRows,
     GrantRows, Phases

\* The types, in RecoverNotice.
LEMMA RecoverNoticeType ==
    ASSUME TypeOK, NEW t \in Tasks, RecoverNotice(t)
    PROVE  TypeOK'
<1>1. task' \in TaskRows
  BY NotifiedType DEF TypeOK, RecoverNotice, TaskRows, Active, Terminal
<1>2. told' \in [Tasks -> Seq(Terminal)]
  BY NotifiedType, PostedType DEF TypeOK, RecoverNotice, Terminal
<1>3. todo' \subseteq Tasks
  BY DEF TypeOK, RecoverNotice
<1> QED
  BY <1>1, <1>2, <1>3 DEF TypeOK, RecoverNotice, world, memory, maps, TaskRows,
     RunnerRows, GrantRows, Phases

\* The types, in ConditionMet.
LEMMA ConditionMetType ==
    ASSUME TypeOK, NEW t \in Tasks, ConditionMet(t)
    PROVE  TypeOK'
<1>1. runner' \in RunnerRows
  BY DEF TypeOK, ConditionMet, Woken, RunnerRows, LiveRunner, EndedRunner
<1>2. cond' \in [Tasks -> {"open", "met", "refused"}]
  BY DEF TypeOK, ConditionMet, Woken
<1>3. hook' \subseteq Tasks
  BY DEF TypeOK, ConditionMet, Woken
<1> QED
  BY <1>1, <1>2, <1>3 DEF TypeOK, ConditionMet, memory, maps, TaskRows, RunnerRows,
     GrantRows, Phases

\* The types, in KillRunner.
LEMMA KillRunnerType ==
    ASSUME TypeOK, NEW t \in Tasks, KillRunner(t)
    PROVE  TypeOK'
<1>1. runner' \in RunnerRows
  BY EndedType DEF TypeOK, KillRunner, Faulty, RunnerRows, LiveRunner, EndedRunner
<1>2. result' \in [Tasks -> {"none", "runner", "task"}]
  BY KeptType DEF TypeOK, KillRunner, Faulty
<1>3. faults' \in 0..MaxFaults
  BY ObjectTasksAssumption DEF TypeOK, KillRunner, Faulty
<1> QED
  BY <1>1, <1>2, <1>3 DEF TypeOK, KillRunner, world, memory, maps, TaskRows, RunnerRows,
     GrantRows, Phases

\* The types, in Cancel.
LEMMA CancelType ==
    ASSUME TypeOK, NEW t \in Tasks, Cancel(t)
    PROVE  TypeOK'
<1>1. task' \in TaskRows
  BY OutcomeType, Outcomes DEF Cancel, Terminal
<1>2. runner' \in RunnerRows
  BY EndedType DEF TypeOK, Cancel, RunnerRows, LiveRunner, EndedRunner
<1>3. result' \in [Tasks -> {"none", "runner", "task"}]
  BY KeptType DEF TypeOK, Cancel
<1>4. told' \in [Tasks -> Seq(Terminal)]
  BY PostedType DEF TypeOK, Cancel, Terminal
<1>5. future' \in [Tasks -> Runs \cup {NoRun}]
  BY DEF TypeOK, Cancel
<1>6. undone' \subseteq Tasks \X Runs
  <2>1. future[t] \in Runs \cup {NoRun} /\ undone \subseteq Tasks \X Runs
    BY DEF TypeOK
  <2>2. CASE Future(t)
    <3>1. <<t, future[t]>> \in Tasks \X Runs /\ undone' = undone \cup {<<t, future[t]>>}
      BY <2>1, <2>2 DEF Cancel, Future
    <3> QED
      BY <2>1, <3>1
  <2>3. CASE ~Future(t)
    BY <2>1, <2>3 DEF Cancel
  <2> QED
    BY <2>2, <2>3
<1>7. args' \subseteq Tasks
  BY DEF TypeOK, Cancel
<1> QED
  BY <1>1, <1>2, <1>3, <1>4, <1>5, <1>6, <1>7 DEF TypeOK, Cancel, world, host, TaskRows,
     RunnerRows, GrantRows, Phases

\* The types, in Spawn.
LEMMA SpawnType ==
    ASSUME TypeOK, NEW t \in Tasks, NEW tool \in Tools, NEW wanted \in {"none",
           "wanted"}, Spawn(t, tool, wanted)
    PROVE  TypeOK'
<1>1. task' \in TaskRows
  BY ToolType DEF Spawn
<1>2. runner' \in RunnerRows
  BY DEF TypeOK, Spawn, RunnerRows, LiveRunner, EndedRunner
<1>3. grant' \in GrantRows
  BY DEF TypeOK, Spawn, GrantRows
<1>4. starter' \in [Tasks -> {"new", "spawned", "inserted", "done"}]
  BY DEF TypeOK, Spawn
<1> QED
  BY <1>1, <1>2, <1>3, <1>4 DEF TypeOK, Spawn, world, memory, maps, TaskRows,
     RunnerRows, GrantRows, Phases

\* The types, in HumanDecides.
LEMMA HumanDecidesType ==
    ASSUME TypeOK, NEW t \in Tasks, NEW verdict \in {"met", "refused"}, HumanDecides(t,
           verdict)
    PROVE  TypeOK'
<1>1. runner' \in RunnerRows
  BY DEF TypeOK, HumanDecides, Woken, RunnerRows, LiveRunner, EndedRunner
<1>2. cond' \in [Tasks -> {"open", "met", "refused"}]
  BY DEF TypeOK, HumanDecides, Woken
<1> QED
  BY <1>1, <1>2 DEF TypeOK, HumanDecides, memory, maps, host, TaskRows, RunnerRows,
     GrantRows, Phases

\* The types, in RecipientChanges.
LEMMA RecipientChangesType ==
    ASSUME TypeOK, NEW t \in Tasks, NEW how \in {"open", "refuses", "ended"},
           RecipientChanges(t, how)
    PROVE  TypeOK'
<1>1. recipient' \in [Tasks -> {"open", "refuses", "ended"}]
  BY DEF TypeOK, RecipientChanges, Faulty
<1>2. faults' \in 0..MaxFaults
  BY ObjectTasksAssumption DEF TypeOK, RecipientChanges, Faulty
<1> QED
  BY <1>1, <1>2 DEF TypeOK, RecipientChanges, rows, memory, maps, TaskRows, RunnerRows,
     GrantRows, Phases

\* The types, in Close.
LEMMA CloseType ==
    ASSUME TypeOK, Close
    PROVE  TypeOK'
<1>1. result' \in [Tasks -> {"none", "runner", "task"}]
  BY DEF TypeOK, Close, Forgotten
<1>2. grant' \in GrantRows
  BY DEF TypeOK, Close, Forgotten, GrantRows
<1>3. starter' \in [Tasks -> {"new", "spawned", "inserted", "done"}]
  BY DEF TypeOK, Close, Forgotten
<1>4. pc' \in [Tasks -> [Runs -> Points]]
  BY DEF TypeOK, Close, Forgotten, Points
<1>5. future' \in [Tasks -> Runs \cup {NoRun}]
  BY DEF TypeOK, Close, Forgotten
<1>6. undone' \subseteq Tasks \X Runs
  BY DEF TypeOK, Close, Forgotten
<1>7. active' \subseteq Tasks
  BY DEF TypeOK, Close, Forgotten
<1>8. args' \subseteq Tasks
  BY DEF TypeOK, Close, Forgotten
<1>9. hook' \subseteq Tasks
  BY DEF TypeOK, Close, Forgotten
<1>10. owed' \subseteq Tasks
  BY DEF TypeOK, Close, Forgotten
<1>11. todo' \subseteq Tasks
  BY DEF TypeOK, Close, Forgotten
<1>12. phase' \in Phases
  BY DEF TypeOK, Close, Forgotten, Phases
<1> QED
  BY <1>1, <1>2, <1>3, <1>4, <1>5, <1>6, <1>7, <1>8, <1>9, <1>10, <1>11, <1>12 DEF
     TypeOK, Close, Forgotten, world, TaskRows, RunnerRows, GrantRows, Phases

\* The types, in Crash.
LEMMA CrashType ==
    ASSUME TypeOK, Crash
    PROVE  TypeOK'
<1>1. result' \in [Tasks -> {"none", "runner", "task"}]
  BY DEF TypeOK, Crash, Forgotten, Faulty
<1>2. grant' \in GrantRows
  BY DEF TypeOK, Crash, Forgotten, Faulty, GrantRows
<1>3. starter' \in [Tasks -> {"new", "spawned", "inserted", "done"}]
  BY DEF TypeOK, Crash, Forgotten, Faulty
<1>4. pc' \in [Tasks -> [Runs -> Points]]
  BY DEF TypeOK, Crash, Forgotten, Faulty, Points
<1>5. future' \in [Tasks -> Runs \cup {NoRun}]
  BY DEF TypeOK, Crash, Forgotten, Faulty
<1>6. undone' \subseteq Tasks \X Runs
  BY DEF TypeOK, Crash, Forgotten, Faulty
<1>7. active' \subseteq Tasks
  BY DEF TypeOK, Crash, Forgotten, Faulty
<1>8. args' \subseteq Tasks
  BY DEF TypeOK, Crash, Forgotten, Faulty
<1>9. hook' \subseteq Tasks
  BY DEF TypeOK, Crash, Forgotten, Faulty
<1>10. owed' \subseteq Tasks
  BY DEF TypeOK, Crash, Forgotten, Faulty
<1>11. todo' \subseteq Tasks
  BY DEF TypeOK, Crash, Forgotten, Faulty
<1>12. phase' \in Phases
  BY DEF TypeOK, Crash, Forgotten, Faulty, Phases
<1>13. faults' \in 0..MaxFaults
  BY ObjectTasksAssumption DEF TypeOK, Crash, Forgotten, Faulty
<1> QED
  BY <1>1, <1>2, <1>3, <1>4, <1>5, <1>6, <1>7, <1>8, <1>9, <1>10, <1>11, <1>12, <1>13
     DEF TypeOK, Crash, Forgotten, world, TaskRows, RunnerRows, GrantRows, Phases

\* The types, in Reopen.
LEMMA ReopenType ==
    ASSUME TypeOK, Reopen
    PROVE  TypeOK'
<1>1. phase' \in Phases
  BY DEF TypeOK, Reopen, Phases
<1> QED
  BY <1>1 DEF TypeOK, Reopen, rows, world, memory, maps, TaskRows, RunnerRows,
     GrantRows, Phases

\* The types, in NextPass.
LEMMA NextPassType ==
    ASSUME TypeOK, NextPass
    PROVE  TypeOK'
<1>1. todo' \subseteq Tasks
  BY DEF TypeOK, NextPass, Retryable
<1>2. phase' \in Phases
  BY DEF TypeOK, NextPass, Retryable, Phases
<1> QED
  BY <1>1, <1>2 DEF TypeOK, NextPass, rows, world, memory, maps, TaskRows, RunnerRows,
     GrantRows, Phases

\* The types, in BeginShutdown.
LEMMA BeginShutdownType ==
    ASSUME TypeOK, BeginShutdown
    PROVE  TypeOK'
<1>1. phase' \in Phases
  BY DEF TypeOK, BeginShutdown, Faulty, Phases
<1>2. faults' \in 0..MaxFaults
  BY ObjectTasksAssumption DEF TypeOK, BeginShutdown, Faulty
<1> QED
  BY <1>1, <1>2 DEF TypeOK, BeginShutdown, rows, world, memory, maps, TaskRows,
     RunnerRows, GrantRows, Phases

\* Every step keeps the types.
LEMMA TypeStep ==
    ASSUME TypeOK, [Next]_vars
    PROVE  TypeOK'
  BY BeginType, MarkRunningType, CancelledType, MarkWaitingType, NotifyWaitingType,
     SettleErrorType, TransferResultType, WireResultType, WiringRaisesType, ExitRunnerType,
     RecordSuccessType, RecordGrantedSuccessType, GrantRaisesType, NotifyEndType,
     HandleFailureType, MarkFailedType, FinishType, ForgetType, ToolReturnsType,
     ToolFailsType, ToolWaitsType, InsertType, RefuseInsertType, HandOffType,
     AbortHandOffType, NotifyOwedType, RunHookType, ReconcileMailType, ResumeDecidedType,
     RefreshType, RetryNoticeType, ShutdownCancelsType, RecoverActiveType,
     RecoverResultType, RecoverNoticeType, ConditionMetType, KillRunnerType, CancelType,
     SpawnType, HumanDecidesType, RecipientChangesType, CloseType, CrashType, ReopenType,
     NextPassType, BeginShutdownType, UntouchedType DEF Next, Loop, Coroutine, Tool,
     Starting, Threads, Reads, Stopping, Startup, World, Rest

-------------------------------------------------------------------------------
(* The actions *)

\* The runner is ended from outside, and what it owns is released.
LEMMA KillRunnerStep ==
    ASSUME IInv, TypeOK', NEW t \in Tasks, KillRunner(t)
    PROVE  IInv'
<1>0. TypeOK /\ LoopInv /\ TaskInv(t)
  BY DEF IInv, TasksInvs
<1>1. /\ phase = "open" /\ Status(t) \in Active
      /\ runner[t] \in LiveRunner => runner'[t] = "killed"
      /\ runner[t] \notin LiveRunner => runner'[t] = runner[t]
      /\ \A u \in Tasks : u # t => runner'[u] = runner[u]
      /\ runner[t] \in LiveRunner /\ result[t] = "runner" => result'[t] = "none"
      /\ ~(runner[t] \in LiveRunner /\ result[t] = "runner") => result'[t] = result[t]
      /\ \A u \in Tasks : u # t => result'[u] = result[u]
      /\ UNCHANGED <<task, grant, handle, cond, told, starter, pc, undone, hook,
                     unwired, phase>>
  BY <1>0, EndedRow, KeptRow
  DEF KillRunner, TypeOK, IsActive, world, maps, memory
<1> USE DEF TaskInv, PcMoves, RowSays, Status, IsTerminal, IsActive
<1>2. Elsewhere(t)
  BY <1>1 DEF Elsewhere
<1>3. LoopInv'
  BY <1>1, LoopStays
<1>4. StartInv(t)'
  BY <1>0, <1>1
  DEF StartInv, Active, Terminal, LiveRunner
<1>5. PhaseInv(t)'
  BY <1>0, <1>1
  DEF PhaseInv, Active, LiveRunner
<1>6. UserInv(t)'
  BY <1>0, <1>1
  DEF UserInv, Active, LiveRunner, Using
<1>7. PublishInv(t)'
  BY <1>0, <1>1
  DEF PublishInv, Active, Terminal, LiveRunner, Using, Publishing
<1>8. SuccessInv(t)'
  BY <1>0, <1>1
  DEF SuccessInv, Active, Terminal, LiveRunner, Using
<1>9. SettleInv(t)'
  BY <1>0, <1>1
  DEF SettleInv, Active, Terminal, LiveRunner, Using, Settling
<1>10. GrantInv(t)'
  BY <1>0, <1>1
  DEF GrantInv, Active, LiveRunner
<1>11. ToldInv(t)'
  BY <1>0, <1>1
  DEF ToldInv, Active, Terminal, LiveRunner
<1> QED
  BY <1>2, <1>3, <1>4, <1>5, <1>6, <1>7, <1>8, <1>9, <1>10, <1>11, OneTask

\* A runner is created in its first wait.
LEMMA SpawnStep ==
    ASSUME IInv, TypeOK', NEW t \in Tasks, NEW tool \in Tools,
           NEW wanted \in {"none", "wanted"}, Spawn(t, tool, wanted)
    PROVE  IInv'
<1>0. TypeOK /\ LoopInv /\ TaskInv(t)
  BY DEF IInv, TasksInvs
<1>1. /\ phase = "open" /\ starter[t] = "new"
      /\ task'[t].status = task[t].status /\ task'[t].notice = task[t].notice
      /\ \A u \in Tasks : u # t => task'[u] = task[u]
      /\ runner'[t] = "waiting_tool"
      /\ \A u \in Tasks : u # t => runner'[u] = runner[u]
      /\ starter'[t] = "spawned"
      /\ \A u \in Tasks : u # t => starter'[u] = starter[u]
      /\ grant'[t] = wanted
      /\ \A u \in Tasks : u # t => grant'[u] = grant[u]
      /\ UNCHANGED <<result, handle, cond, told, pc, undone, hook, unwired, phase>>
  BY <1>0
  DEF Spawn, TypeOK, world, maps, memory
<1> USE DEF TaskInv, PcMoves, RowSays, Status, IsTerminal, IsActive
<1>2. Elsewhere(t)
  BY <1>1 DEF Elsewhere
<1>3. LoopInv'
  BY <1>1, LoopStays
<1>4. StartInv(t)'
  BY <1>0, <1>1
  DEF StartInv, Terminal
<1>5. PhaseInv(t)'
  BY <1>0, <1>1
  DEF PhaseInv, Active
<1>6. UserInv(t)'
  BY <1>0, <1>1
  DEF UserInv, StartInv, Terminal, LiveRunner, Using
<1>7. PublishInv(t)'
  BY <1>0, <1>1
  DEF PublishInv, StartInv, Terminal, Using, Publishing
<1>8. SuccessInv(t)'
  BY <1>0, <1>1
  DEF SuccessInv, Terminal, Using
<1>9. SettleInv(t)'
  BY <1>0, <1>1
  DEF SettleInv, StartInv, Terminal, LiveRunner, Using, Settling
<1>10. GrantInv(t)'
  BY <1>0, <1>1
  DEF GrantInv, StartInv, Terminal
<1>11. ToldInv(t)'
  BY <1>0, <1>1
  DEF ToldInv, Terminal
<1> QED
  BY <1>2, <1>3, <1>4, <1>5, <1>6, <1>7, <1>8, <1>9, <1>10, <1>11, OneTask

\* The row is published.
LEMMA InsertStep ==
    ASSUME IInv, TypeOK', NEW t \in Tasks, Insert(t)
    PROVE  IInv'
<1>0. TypeOK /\ LoopInv /\ TaskInv(t)
  BY DEF IInv, TasksInvs
<1>1. /\ starter[t] = "spawned" /\ task'[t].status = "queued" /\ task'[t].notice = task[t].notice
      /\ \A u \in Tasks : u # t => task'[u] = task[u]
      /\ starter'[t] = "inserted"
      /\ \A u \in Tasks : u # t => starter'[u] = starter[u]
      /\ UNCHANGED <<runner, result, grant, handle, cond, told, pc, undone, hook,
                     unwired, phase>>
  BY <1>0
  DEF Insert, TypeOK, world, maps, memory
<1> USE DEF TaskInv, PcMoves, RowSays, Status, IsTerminal, IsActive
<1>2. Elsewhere(t)
  BY <1>1 DEF Elsewhere
<1>3. LoopInv'
  BY <1>1, LoopStays
<1>4. StartInv(t)'
  BY <1>0, <1>1
  DEF StartInv, Terminal
<1>5. PhaseInv(t)'
  BY <1>0, <1>1
  DEF PhaseInv, Active
<1>6. UserInv(t)'
  BY <1>0, <1>1
  DEF UserInv, StartInv, Terminal, LiveRunner, Using
<1>7. PublishInv(t)'
  BY <1>0, <1>1
  DEF PublishInv, StartInv, Terminal, Using, Publishing
<1>8. SuccessInv(t)'
  BY <1>0, <1>1
  DEF SuccessInv, Terminal, Using
<1>9. SettleInv(t)'
  BY <1>0, <1>1
  DEF SettleInv, StartInv, Terminal, LiveRunner, Using, Settling
<1>10. GrantInv(t)'
  BY <1>0, <1>1
  DEF GrantInv
<1>11. ToldInv(t)'
  BY <1>0, <1>1, NotTold DEF StartInv, Terminal
<1> QED
  BY <1>2, <1>3, <1>4, <1>5, <1>6, <1>7, <1>8, <1>9, <1>10, <1>11, OneTask

\* The row is refused, and the runner removed.
LEMMA RefuseInsertStep ==
    ASSUME IInv, TypeOK', NEW t \in Tasks, RefuseInsert(t)
    PROVE  IInv'
<1>0. TypeOK /\ LoopInv /\ TaskInv(t)
  BY DEF IInv, TasksInvs
<1>1. /\ starter[t] = "spawned"
      /\ runner'[t] = "absent"
      /\ \A u \in Tasks : u # t => runner'[u] = runner[u]
      /\ starter'[t] = "done"
      /\ \A u \in Tasks : u # t => starter'[u] = starter[u]
      /\ UNCHANGED <<task, result, grant, handle, cond, told, pc, undone, hook, unwired,
                     phase>>
  BY <1>0
  DEF RefuseInsert, TypeOK, world, maps, memory
<1> USE DEF TaskInv, PcMoves, RowSays, Status, IsTerminal, IsActive
<1>2. Elsewhere(t)
  BY <1>1 DEF Elsewhere
<1>3. LoopInv'
  BY <1>1, LoopStays
<1>4. StartInv(t)'
  BY <1>0, <1>1
  DEF StartInv, Terminal
<1>5. PhaseInv(t)'
  BY <1>0, <1>1
  DEF PhaseInv, Active
<1>6. UserInv(t)'
  BY <1>0, <1>1
  DEF UserInv, LiveRunner, Using
<1>7. PublishInv(t)'
  BY <1>0, <1>1
  DEF PublishInv, StartInv, Terminal, Using, Publishing
<1>8. SuccessInv(t)'
  BY <1>0, <1>1
  DEF SuccessInv, Terminal, Using
<1>9. SettleInv(t)'
  BY <1>0, <1>1
  DEF SettleInv, Terminal, LiveRunner, Using, Settling
<1>10. GrantInv(t)'
  BY <1>0, <1>1
  DEF GrantInv
<1>11. ToldInv(t)'
  BY <1>0, <1>1
  DEF ToldInv, Terminal
<1> QED
  BY <1>2, <1>3, <1>4, <1>5, <1>6, <1>7, <1>8, <1>9, <1>10, <1>11, OneTask

\* The event loop did not take the coroutine: the runner is removed and the task fails,
\* unless it has its outcome.
LEMMA AbortHandOffStep ==
    ASSUME IInv, TypeOK', NEW t \in Tasks, AbortHandOff(t)
    PROVE  IInv'
<1>0. TypeOK /\ LoopInv /\ TaskInv(t)
  BY DEF IInv, TasksInvs
<1>1. /\ starter[t] = "inserted" /\ LockFree
      /\ \/ Status(t) \in Terminal /\ UNCHANGED task
         \/ Status(t) \notin Terminal /\ RowSays(t, "failed", "none")
      /\ runner'[t] = "absent"
      /\ \A u \in Tasks : u # t => runner'[u] = runner[u]
      /\ starter'[t] = "done"
      /\ \A u \in Tasks : u # t => starter'[u] = starter[u]
      /\ UNCHANGED <<result, grant, handle, cond, told, pc, undone, hook, unwired, phase>>
  BY <1>0, BecomesSays
  DEF AbortHandOff, TypeOK, IsTerminal, world, maps, memory
<1> USE DEF TaskInv, PcMoves, RowSays, Status, IsTerminal, IsActive
<1>2. Elsewhere(t)
  BY <1>1 DEF Elsewhere
<1>3. LoopInv'
  BY <1>1, LoopStays
<1>4. StartInv(t)'
  BY <1>0, <1>1
  DEF StartInv, Terminal
<1>5. PhaseInv(t)'
  BY <1>0, <1>1
  DEF PhaseInv, Active, Terminal
<1>6. UserInv(t)'
  BY <1>0, <1>1
  DEF UserInv, Terminal, LiveRunner, Using
<1>7. PublishInv(t)'
  BY <1>0, <1>1
  DEF PublishInv, StartInv, Terminal, Using, Publishing
<1>8. SuccessInv(t)'
  BY <1>0, <1>1
  DEF SuccessInv, StartInv, Terminal, Using
<1>9. SettleInv(t)'
  BY <1>0, <1>1
  DEF SettleInv, Terminal, LiveRunner, Using, Settling
<1>10. GrantInv(t)'
  BY <1>0, <1>1
  DEF GrantInv, Terminal
<1>11. ToldInv(t)'
  <2>1. CASE UNCHANGED task
    BY <1>0, <1>1, <2>1 DEF ToldInv
  <2>2. CASE ~UNCHANGED task
    BY <1>0, <1>1, <2>2, NotTold DEF Terminal
  <2> QED
    BY <2>1, <2>2
<1> QED
  BY <1>2, <1>3, <1>4, <1>5, <1>6, <1>7, <1>8, <1>9, <1>10, <1>11, OneTask

\* A coroutine takes its admission, or was cancelled before.
LEMMA BeginStep ==
    ASSUME IInv, TypeOK', NEW t \in Tasks, NEW r \in Runs, Begin(t, r)
    PROVE  IInv'
<1>0. TypeOK /\ LoopInv /\ TaskInv(t)
  BY DEF IInv, TasksInvs
<1>1. /\ pc[t][r] = "queued" /\ LoopFree
      /\ \/ PcMoves(t, r, "idle") /\ undone' \subseteq undone
         \/ phase = "open" /\ PcMoves(t, r, "begun") /\ undone' = undone
         \/ phase # "open" /\ PcMoves(t, r, "finish") /\ undone' = undone
      /\ UNCHANGED <<task, runner, result, grant, handle, cond, told, starter, hook,
                     unwired, phase>>
  BY <1>0, GoesMoves
  DEF Begin, TypeOK, rows, world, host
<1> USE DEF TaskInv, PcMoves, RowSays, Status, IsTerminal, IsActive
<1>2. Elsewhere(t)
  BY <1>1 DEF Elsewhere
<1>3. LoopInv'
  BY <1>1, LoopStep DEF OnLoop
<1>4. StartInv(t)'
  BY <1>0, <1>1
  DEF StartInv, Terminal
<1>5. PhaseInv(t)'
  BY <1>0, <1>1
  DEF PhaseInv, Active
<1>6. UserInv(t)'
  BY <1>0, <1>1
  DEF UserInv, LiveRunner, Using
<1>7. PublishInv(t)'
  BY <1>0, <1>1
  DEF PublishInv, Terminal, Using, Publishing
<1>8. SuccessInv(t)'
  BY <1>0, <1>1
  DEF SuccessInv, Terminal, Using
<1>9. SettleInv(t)'
  BY <1>0, <1>1
  DEF SettleInv, Terminal, LiveRunner, Using, Settling
<1>10. GrantInv(t)'
  BY <1>0, <1>1
  DEF GrantInv
<1>11. ToldInv(t)'
  BY <1>0, <1>1
  DEF ToldInv, Terminal
<1> QED
  BY <1>2, <1>3, <1>4, <1>5, <1>6, <1>7, <1>8, <1>9, <1>10, <1>11, OneTask

\* The row and the runner move together, or the start is an error.
LEMMA MarkRunningStep ==
    ASSUME IInv, TypeOK', NEW t \in Tasks, NEW r \in Runs, MarkRunning(t, r)
    PROVE  IInv'
<1>0. TypeOK /\ LoopInv /\ TaskInv(t)
  BY DEF IInv, TasksInvs
<1>1. /\ pc[t][r] = "begun" /\ LockFree
      /\ \/ Status(t) \in Terminal /\ PcMoves(t, r, "finish") /\ UNCHANGED <<task, runner>>
         \/ Status(t) \notin Terminal /\ PcMoves(t, r, "raised") /\ UNCHANGED <<task, runner>>
         \/ /\ Status(t) \notin Terminal /\ MayRun(t) /\ PcMoves(t, r, "calling")
            /\ RowSays(t, "running", task[t].notice)
            /\ runner[t] \in LiveRunner => runner'[t] = "running"
            /\ runner[t] \notin LiveRunner => runner'[t] = runner[t]
            /\ \A u \in Tasks : u # t => runner'[u] = runner[u]
      /\ UNCHANGED <<result, grant, handle, cond, told, starter, undone, hook, unwired,
                     phase>>
  BY <1>0, GoesMoves
  DEF MarkRunning, TypeOK, IsTerminal, RowSays, world, maps, host
<1> USE DEF TaskInv, PcMoves, RowSays, Status, IsTerminal, IsActive
<1>2. Elsewhere(t)
  BY <1>1 DEF Elsewhere
<1>3. LoopInv'
  BY <1>1, LoopStep DEF OnLoop
<1>4. StartInv(t)'
  BY <1>0, <1>1
  DEF StartInv, Terminal, LiveRunner
<1>5. PhaseInv(t)'
  BY <1>0, <1>1
  DEF PhaseInv, Active, Terminal, LiveRunner
<1>6. UserInv(t)'
  BY <1>0, <1>1
  DEF UserInv, MayRun, Terminal, LiveRunner, Using
<1>7. PublishInv(t)'
  BY <1>0, <1>1
  DEF PublishInv, UserInv, LoopInv, OnLoop, MayRun, Terminal, LiveRunner, Using, Publishing
<1>8. SuccessInv(t)'
  BY <1>0, <1>1
  DEF SuccessInv, Terminal, LiveRunner, Using
<1>9. SettleInv(t)'
  BY <1>0, <1>1
  DEF SettleInv, Terminal, LiveRunner, Using, Settling
<1>10. GrantInv(t)'
  BY <1>0, <1>1
  DEF GrantInv, Terminal, LiveRunner
<1>11. ToldInv(t)'
  <2>1. CASE UNCHANGED task
    BY <1>0, <1>1, <2>1 DEF ToldInv
  <2>2. CASE ~UNCHANGED task
    BY <1>0, <1>1, <2>2, NotTold DEF Terminal
  <2> QED
    BY <2>1, <2>2
<1> QED
  BY <1>2, <1>3, <1>4, <1>5, <1>6, <1>7, <1>8, <1>9, <1>10, <1>11, OneTask

\* The tool returned a result, which the runner owns.
LEMMA ToolReturnsStep ==
    ASSUME IInv, TypeOK', NEW t \in Tasks, NEW r \in Runs, ToolReturns(t, r)
    PROVE  IInv'
<1>0. TypeOK /\ LoopInv /\ TaskInv(t)
  BY DEF IInv, TasksInvs
<1>1. /\ pc[t][r] = "calling" /\ runner[t] = "running" /\ PcMoves(t, r, "tool_ok")
      /\ result'[t] = "runner"
      /\ \A u \in Tasks : u # t => result'[u] = result[u]
      /\ UNCHANGED <<task, runner, grant, handle, cond, told, starter, undone, hook,
                     unwired, phase>>
  BY <1>0, GoesMoves
  DEF ToolReturns, TypeOK, world, maps, host
<1> USE DEF TaskInv, PcMoves, RowSays, Status, IsTerminal, IsActive
<1>2. Elsewhere(t)
  BY <1>1 DEF Elsewhere
<1>3. LoopInv'
  BY <1>1, LoopStep DEF OnLoop
<1>4. StartInv(t)'
  BY <1>0, <1>1
  DEF StartInv, Terminal
<1>5. PhaseInv(t)'
  BY <1>0, <1>1
  DEF PhaseInv, Active
<1>6. UserInv(t)'
  BY <1>0, <1>1
  DEF UserInv, LiveRunner, Using
<1>7. PublishInv(t)'
  BY <1>0, <1>1
  DEF PublishInv, Terminal, Using, Publishing
<1>8. SuccessInv(t)'
  BY <1>0, <1>1
  DEF SuccessInv, Terminal, Using
<1>9. SettleInv(t)'
  BY <1>0, <1>1
  DEF SettleInv, Terminal, LiveRunner, Using, Settling
<1>10. GrantInv(t)'
  BY <1>0, <1>1
  DEF GrantInv
<1>11. ToldInv(t)'
  BY <1>0, <1>1
  DEF ToldInv, Terminal
<1> QED
  BY <1>2, <1>3, <1>4, <1>5, <1>6, <1>7, <1>8, <1>9, <1>10, <1>11, OneTask

\* The tool failed.
LEMMA ToolFailsStep ==
    ASSUME IInv, TypeOK', NEW t \in Tasks, NEW r \in Runs, ToolFails(t, r)
    PROVE  IInv'
<1>0. TypeOK /\ LoopInv /\ TaskInv(t)
  BY DEF IInv, TasksInvs
<1>1. /\ pc[t][r] = "calling" /\ PcMoves(t, r, "tool_err")
      /\ UNCHANGED <<task, runner, result, grant, handle, cond, told, starter, undone,
                     hook, unwired, phase>>
  BY <1>0, GoesMoves
  DEF ToolFails, TypeOK, rows, world, maps, host
<1> USE DEF TaskInv, PcMoves, RowSays, Status, IsTerminal, IsActive
<1>2. Elsewhere(t)
  BY <1>1 DEF Elsewhere
<1>3. LoopInv'
  BY <1>1, LoopStep DEF OnLoop
<1>4. StartInv(t)'
  BY <1>0, <1>1
  DEF StartInv, Terminal
<1>5. PhaseInv(t)'
  BY <1>0, <1>1
  DEF PhaseInv, Active
<1>6. UserInv(t)'
  BY <1>0, <1>1
  DEF UserInv, LiveRunner, Using
<1>7. PublishInv(t)'
  BY <1>0, <1>1
  DEF PublishInv, Terminal, Using, Publishing
<1>8. SuccessInv(t)'
  BY <1>0, <1>1
  DEF SuccessInv, Terminal, Using
<1>9. SettleInv(t)'
  BY <1>0, <1>1
  DEF SettleInv, Terminal, LiveRunner, Using, Settling
<1>10. GrantInv(t)'
  BY <1>0, <1>1
  DEF GrantInv
<1>11. ToldInv(t)'
  BY <1>0, <1>1
  DEF ToldInv, Terminal
<1> QED
  BY <1>2, <1>3, <1>4, <1>5, <1>6, <1>7, <1>8, <1>9, <1>10, <1>11, OneTask

\* The tool waits, and its runner is parked.
LEMMA ToolWaitsStep ==
    ASSUME IInv, TypeOK', NEW t \in Tasks, NEW r \in Runs, ToolWaits(t, r)
    PROVE  IInv'
<1>0. TypeOK /\ LoopInv /\ TaskInv(t)
  BY DEF IInv, TasksInvs
<1>1. /\ pc[t][r] = "calling" /\ runner[t] = "running" /\ cond[t] = "open"
      /\ PcMoves(t, r, "tool_wait")
      /\ runner'[t] = "parked"
      /\ \A u \in Tasks : u # t => runner'[u] = runner[u]
      /\ UNCHANGED <<task, result, grant, handle, cond, told, starter, undone, hook,
                     unwired, phase>>
  BY <1>0, GoesMoves
  DEF ToolWaits, TypeOK, world, maps, host
<1> USE DEF TaskInv, PcMoves, RowSays, Status, IsTerminal, IsActive
<1>2. Elsewhere(t)
  BY <1>1 DEF Elsewhere
<1>3. LoopInv'
  BY <1>1, LoopStep DEF OnLoop
<1>4. StartInv(t)'
  BY <1>0, <1>1
  DEF StartInv, Terminal
<1>5. PhaseInv(t)'
  BY <1>0, <1>1
  DEF PhaseInv, Active
<1>6. UserInv(t)'
  BY <1>0, <1>1
  DEF UserInv, LiveRunner, Using
<1>7. PublishInv(t)'
  BY <1>0, <1>1
  DEF PublishInv, UserInv, Terminal, LiveRunner, Using, Publishing
<1>8. SuccessInv(t)'
  BY <1>0, <1>1
  DEF SuccessInv, Terminal, Using
<1>9. SettleInv(t)'
  BY <1>0, <1>1
  DEF SettleInv, Terminal, LiveRunner, Using, Settling
<1>10. GrantInv(t)'
  BY <1>0, <1>1
  DEF GrantInv
<1>11. ToldInv(t)'
  BY <1>0, <1>1
  DEF ToldInv, Terminal
<1> QED
  BY <1>2, <1>3, <1>4, <1>5, <1>6, <1>7, <1>8, <1>9, <1>10, <1>11, OneTask

\* A coroutine whose task was cancelled leaves its await.
LEMMA CancelledStep ==
    ASSUME IInv, TypeOK', NEW t \in Tasks, NEW r \in Runs, Cancelled(t, r)
    PROVE  IInv'
<1>0. TypeOK /\ LoopInv /\ TaskInv(t)
  BY DEF IInv, TasksInvs
<1>1. /\ pc[t][r] \in {"calling", "tool_ok", "tool_err", "tool_wait"}
      /\ <<t, r>> \in undone /\ LoopFree
      /\ PcMoves(t, r, "finish")
      /\ UNCHANGED <<task, runner, result, grant, handle, cond, told, starter, undone,
                     hook, unwired, phase>>
  BY <1>0, GoesMoves
  DEF Cancelled, TypeOK, rows, world, maps, host
<1> USE DEF TaskInv, PcMoves, RowSays, Status, IsTerminal, IsActive
<1>2. Elsewhere(t)
  BY <1>1 DEF Elsewhere
<1>3. LoopInv'
  BY <1>1, LoopStep DEF OnLoop
<1>4. StartInv(t)'
  BY <1>0, <1>1
  DEF StartInv, Terminal
<1>5. PhaseInv(t)'
  BY <1>0, <1>1
  DEF PhaseInv, Active
<1>6. UserInv(t)'
  BY <1>0, <1>1
  DEF UserInv, LiveRunner, Using
<1>7. PublishInv(t)'
  BY <1>0, <1>1
  DEF PublishInv, UserInv, SettleInv, Terminal, LiveRunner, Using, Publishing, Settling
<1>8. SuccessInv(t)'
  BY <1>0, <1>1
  DEF SuccessInv, Terminal, Using
<1>9. SettleInv(t)'
  BY <1>0, <1>1
  DEF SettleInv, Terminal, LiveRunner, Using, Settling
<1>10. GrantInv(t)'
  BY <1>0, <1>1
  DEF GrantInv
<1>11. ToldInv(t)'
  BY <1>0, <1>1
  DEF ToldInv, Terminal
<1> QED
  BY <1>2, <1>3, <1>4, <1>5, <1>6, <1>7, <1>8, <1>9, <1>10, <1>11, OneTask

\* The row says that the tool waits, unless it has its outcome.
LEMMA MarkWaitingStep ==
    ASSUME IInv, TypeOK', NEW t \in Tasks, NEW r \in Runs, MarkWaiting(t, r)
    PROVE  IInv'
<1>0. TypeOK /\ LoopInv /\ TaskInv(t)
  BY DEF IInv, TasksInvs
<1>1. /\ pc[t][r] = "tool_wait" /\ LoopFree
      /\ \/ Status(t) \in Terminal /\ PcMoves(t, r, "finish") /\ UNCHANGED task
         \/ Status(t) \notin Terminal /\ PcMoves(t, r, "waitnote") /\ RowSays(t, "waiting", "none")
      /\ UNCHANGED <<runner, result, grant, handle, cond, told, starter, undone, hook,
                     unwired, phase>>
  BY <1>0, GoesMoves, BecomesSays
  DEF MarkWaiting, TypeOK, Resumed, IsTerminal, world, maps, host
<1> USE DEF TaskInv, PcMoves, RowSays, Status, IsTerminal, IsActive
<1>2. Elsewhere(t)
  BY <1>1 DEF Elsewhere
<1>3. LoopInv'
  BY <1>1, LoopStep DEF OnLoop
<1>4. StartInv(t)'
  BY <1>0, <1>1
  DEF StartInv, Terminal
<1>5. PhaseInv(t)'
  BY <1>0, <1>1
  DEF PhaseInv, Active, Terminal
<1>6. UserInv(t)'
  BY <1>0, <1>1
  DEF UserInv, Terminal, LiveRunner, Using
<1>7. PublishInv(t)'
  BY <1>0, <1>1
  DEF PublishInv, Terminal, Using, Publishing
<1>8. SuccessInv(t)'
  BY <1>0, <1>1
  DEF SuccessInv, Terminal, Using
<1>9. SettleInv(t)'
  BY <1>0, <1>1
  DEF SettleInv, Terminal, LiveRunner, Using, Settling
<1>10. GrantInv(t)'
  BY <1>0, <1>1
  DEF GrantInv, Terminal
<1>11. ToldInv(t)'
  <2>1. CASE UNCHANGED task
    BY <1>0, <1>1, <2>1 DEF ToldInv
  <2>2. CASE ~UNCHANGED task
    BY <1>0, <1>1, <2>2, NotTold DEF Terminal
  <2> QED
    BY <2>1, <2>2
<1> QED
  BY <1>2, <1>3, <1>4, <1>5, <1>6, <1>7, <1>8, <1>9, <1>10, <1>11, OneTask

\* The wait is announced, to a row that still says so.
LEMMA NotifyWaitingStep ==
    ASSUME IInv, TypeOK', NEW t \in Tasks, NEW r \in Runs, NotifyWaiting(t, r)
    PROVE  IInv'
<1>0. TypeOK /\ LoopInv /\ TaskInv(t)
  BY DEF IInv, TasksInvs
<1>1. /\ pc[t][r] = "waitnote" /\ PcMoves(t, r, "finish")
      /\ UNCHANGED task \/ (Status(t) = "waiting" /\ RowSays(t, "waiting", Outcome(t)))
      /\ UNCHANGED <<runner, result, grant, handle, cond, told, starter, undone, hook,
                     unwired, phase>>
  BY <1>0, GoesMoves
  DEF NotifyWaiting, TypeOK, NoticeIsWanted, RowSays, Status, world, maps, host
<1> USE DEF TaskInv, PcMoves, RowSays, Status, IsTerminal, IsActive
<1>2. Elsewhere(t)
  BY <1>1 DEF Elsewhere
<1>3. LoopInv'
  BY <1>1, LoopStep DEF OnLoop
<1>4. StartInv(t)'
  BY <1>0, <1>1
  DEF StartInv, Terminal
<1>5. PhaseInv(t)'
  BY <1>0, <1>1
  DEF PhaseInv, Active
<1>6. UserInv(t)'
  BY <1>0, <1>1
  DEF UserInv, LiveRunner, Using
<1>7. PublishInv(t)'
  BY <1>0, <1>1
  DEF PublishInv, Terminal, Using, Publishing
<1>8. SuccessInv(t)'
  BY <1>0, <1>1
  DEF SuccessInv, Terminal, Using
<1>9. SettleInv(t)'
  BY <1>0, <1>1
  DEF SettleInv, Terminal, LiveRunner, Using, Settling
<1>10. GrantInv(t)'
  BY <1>0, <1>1
  DEF GrantInv
<1>11. ToldInv(t)'
  <2>1. CASE UNCHANGED task
    BY <1>0, <1>1, <2>1 DEF ToldInv
  <2>2. CASE ~UNCHANGED task
    BY <1>0, <1>1, <2>2, NotTold DEF Terminal
  <2> QED
    BY <2>1, <2>2
<1> QED
  BY <1>2, <1>3, <1>4, <1>5, <1>6, <1>7, <1>8, <1>9, <1>10, <1>11, OneTask

\* A tool that failed fails its task, unless that has its outcome.
LEMMA SettleErrorStep ==
    ASSUME IInv, TypeOK', NEW t \in Tasks, NEW r \in Runs, SettleError(t, r)
    PROVE  IInv'
<1>0. TypeOK /\ LoopInv /\ TaskInv(t)
  BY DEF IInv, TasksInvs
<1>1. /\ pc[t][r] = "tool_err" /\ LoopFree
      /\ \/ Status(t) \in Terminal /\ PcMoves(t, r, "finish") /\ UNCHANGED runner
         \/ /\ Status(t) \notin Terminal /\ PcMoves(t, r, "failing")
            /\ runner[t] \in LiveRunner => runner'[t] = "failed"
            /\ runner[t] \notin LiveRunner => runner'[t] = runner[t]
            /\ \A u \in Tasks : u # t => runner'[u] = runner[u]
      /\ result'[t] = "none"
      /\ \A u \in Tasks : u # t => result'[u] = result[u]
      /\ UNCHANGED <<task, grant, handle, cond, told, starter, undone, hook, unwired,
                     phase>>
  BY <1>0, GoesMoves, EndedRow
  DEF SettleError, TypeOK, Resumed, IsTerminal, AlreadySettled, Discarded, world, maps, host
<1> USE DEF TaskInv, PcMoves, RowSays, Status, IsTerminal, IsActive
<1>2. Elsewhere(t)
  BY <1>1 DEF Elsewhere
<1>3. LoopInv'
  BY <1>1, LoopStep DEF OnLoop
<1>4. StartInv(t)'
  BY <1>0, <1>1
  DEF StartInv, Terminal, LiveRunner
<1>5. PhaseInv(t)'
  BY <1>0, <1>1
  DEF PhaseInv, Active, Terminal, LiveRunner
<1>6. UserInv(t)'
  BY <1>0, <1>1
  DEF UserInv, Terminal, LiveRunner, Using
<1>7. PublishInv(t)'
  BY <1>0, <1>1
  DEF PublishInv, Terminal, LiveRunner, Using, Publishing
<1>8. SuccessInv(t)'
  BY <1>0, <1>1
  DEF SuccessInv, Terminal, LiveRunner, Using
<1>9. SettleInv(t)'
  BY <1>0, <1>1
  DEF SettleInv, Terminal, LiveRunner, Using, Settling
<1>10. GrantInv(t)'
  BY <1>0, <1>1
  DEF GrantInv, Terminal, LiveRunner
<1>11. ToldInv(t)'
  BY <1>0, <1>1
  DEF ToldInv, Terminal, LiveRunner
<1> QED
  BY <1>2, <1>3, <1>4, <1>5, <1>6, <1>7, <1>8, <1>9, <1>10, <1>11, OneTask

\* The task becomes the owner of the result, unless it has its outcome.
LEMMA TransferResultStep ==
    ASSUME IInv, TypeOK', NEW t \in Tasks, NEW r \in Runs, TransferResult(t, r)
    PROVE  IInv'
<1>0. TypeOK /\ LoopInv /\ TaskInv(t)
  BY DEF IInv, TasksInvs
<1>1. /\ pc[t][r] = "tool_ok" /\ LoopFree
      /\ \/ Status(t) \in Terminal /\ PcMoves(t, r, "finish") /\ result'[t] = "none"
         \/ /\ Status(t) \notin Terminal /\ PcMoves(t, r, "raised")
            /\ result[t] = "none" /\ result'[t] = "none"
         \/ /\ Status(t) \notin Terminal /\ PcMoves(t, r, "wiring")
            /\ result[t] # "none" /\ result'[t] = "task"
      /\ \A u \in Tasks : u # t => result'[u] = result[u]
      /\ UNCHANGED <<task, runner, grant, handle, cond, told, starter, undone, hook,
                     unwired, phase>>
  BY <1>0, GoesMoves
  DEF TransferResult, TypeOK, Resumed, IsTerminal, AlreadySettled, Discarded, world, maps, host
<1> USE DEF TaskInv, PcMoves, RowSays, Status, IsTerminal, IsActive
<1>2. Elsewhere(t)
  BY <1>1 DEF Elsewhere
<1>3. LoopInv'
  BY <1>1, LoopStep DEF OnLoop
<1>4. StartInv(t)'
  BY <1>0, <1>1
  DEF StartInv, Terminal
<1>5. PhaseInv(t)'
  BY <1>0, <1>1
  DEF PhaseInv, Active, Terminal
<1>6. UserInv(t)'
  BY <1>0, <1>1
  DEF UserInv, Terminal, LiveRunner, Using
<1>7. PublishInv(t)'
  <2>1. CASE PcMoves(t, r, "finish") /\ result'[t] = "none"
    BY <1>0, <1>1, <2>1 DEF PublishInv, Using, Publishing
  <2>2. CASE PcMoves(t, r, "raised") /\ result[t] = "none" /\ result'[t] = "none"
    BY <1>0, <1>1, <2>2 DEF PublishInv, Using, Publishing
  <2>3. CASE /\ Status(t) \notin Terminal /\ PcMoves(t, r, "wiring")
             /\ result[t] # "none" /\ result'[t] = "task"
    <3>1. result[t] = "runner"
      BY <1>0, <1>1, <2>3 DEF TypeOK, PublishInv, Publishing, LoopFree, OnLoop
    <3>2. runner[t] \in LiveRunner
      BY <1>0, <3>1 DEF PublishInv, LiveRunner
    <3>3. \A x \in Runs : pc[t][x] \in Using \cup {"tool_wait", "exited"} => x = r
      BY <1>0, <1>1, <3>2 DEF UserInv, Using
    <3>4. \A x \in Runs : pc'[t][x] \in Using \cup {"tool_wait", "exited"} => x = r
      BY <2>3, <3>3
    <3> QED
      BY <1>1, <2>3, <3>4 DEF PublishInv, Using, Publishing
  <2> QED
    BY <1>1, <2>1, <2>2, <2>3
<1>8. SuccessInv(t)'
  BY <1>0, <1>1
  DEF SuccessInv, Terminal, Using
<1>9. SettleInv(t)'
  BY <1>0, <1>1
  DEF SettleInv, Terminal, LiveRunner, Using, Settling
<1>10. GrantInv(t)'
  BY <1>0, <1>1
  DEF GrantInv, Terminal
<1>11. ToldInv(t)'
  BY <1>0, <1>1
  DEF ToldInv, Terminal
<1> QED
  BY <1>2, <1>3, <1>4, <1>5, <1>6, <1>7, <1>8, <1>9, <1>10, <1>11, OneTask

\* The result is wired, and the use of a grant reserved.
LEMMA WireResultStep ==
    ASSUME IInv, TypeOK', NEW t \in Tasks, NEW r \in Runs, WireResult(t, r)
    PROVE  IInv'
<1>0. TypeOK /\ LoopInv /\ TaskInv(t)
  BY DEF IInv, TasksInvs
<1>1. /\ pc[t][r] = "wiring" /\ PcMoves(t, r, "published")
      /\ grant'[t] = IF grant[t] = "wanted" THEN "reserved" ELSE grant[t]
      /\ \A u \in Tasks : u # t => grant'[u] = grant[u]
      /\ UNCHANGED <<task, runner, result, handle, cond, told, starter, undone, hook,
                     unwired, phase>>
  BY <1>0, GoesMoves
  DEF WireResult, TypeOK, world, maps, host
<1> USE DEF TaskInv, PcMoves, RowSays, Status, IsTerminal, IsActive
<1>2. Elsewhere(t)
  BY <1>1 DEF Elsewhere
<1>3. LoopInv'
  BY <1>1, LoopStep DEF OnLoop
<1>4. StartInv(t)'
  BY <1>0, <1>1
  DEF StartInv, Terminal
<1>5. PhaseInv(t)'
  BY <1>0, <1>1
  DEF PhaseInv, Active
<1>6. UserInv(t)'
  BY <1>0, <1>1
  DEF UserInv, LiveRunner, Using
<1>7. PublishInv(t)'
  BY <1>0, <1>1
  DEF PublishInv, Terminal, Using, Publishing
<1>8. SuccessInv(t)'
  BY <1>0, <1>1
  DEF SuccessInv, Terminal, Using
<1>9. SettleInv(t)'
  BY <1>0, <1>1
  DEF SettleInv, Terminal, LiveRunner, Using, Settling
<1>10. GrantInv(t)'
  BY <1>0, <1>1
  DEF GrantInv
<1>11. ToldInv(t)'
  BY <1>0, <1>1
  DEF ToldInv, Terminal
<1> QED
  BY <1>2, <1>3, <1>4, <1>5, <1>6, <1>7, <1>8, <1>9, <1>10, <1>11, OneTask

\* The wiring raises: the result is left as it is.
LEMMA WiringRaisesStep ==
    ASSUME IInv, TypeOK', NEW t \in Tasks, NEW r \in Runs, WiringRaises(t, r)
    PROVE  IInv'
<1>0. TypeOK /\ LoopInv /\ TaskInv(t)
  BY DEF IInv, TasksInvs
<1>1. /\ pc[t][r] = "wiring" /\ PcMoves(t, r, "raised")
      /\ unwired' = unwired \cup {t}
      /\ UNCHANGED <<task, runner, result, grant, handle, cond, told, starter, undone,
                     hook, phase>>
  BY <1>0, GoesMoves
  DEF WiringRaises, TypeOK, rows, world, maps
<1> USE DEF TaskInv, PcMoves, RowSays, Status, IsTerminal, IsActive
<1>2. Elsewhere(t)
  BY <1>1 DEF Elsewhere
<1>3. LoopInv'
  BY <1>1, LoopStep DEF OnLoop
<1>4. StartInv(t)'
  BY <1>0, <1>1
  DEF StartInv, Terminal
<1>5. PhaseInv(t)'
  BY <1>0, <1>1
  DEF PhaseInv, Active
<1>6. UserInv(t)'
  BY <1>0, <1>1
  DEF UserInv, LiveRunner, Using
<1>7. PublishInv(t)'
  BY <1>0, <1>1
  DEF PublishInv, Terminal, Using, Publishing
<1>8. SuccessInv(t)'
  BY <1>0, <1>1
  DEF SuccessInv, Terminal, Using
<1>9. SettleInv(t)'
  BY <1>0, <1>1
  DEF SettleInv, Terminal, LiveRunner, Using, Settling
<1>10. GrantInv(t)'
  BY <1>0, <1>1
  DEF GrantInv
<1>11. ToldInv(t)'
  BY <1>0, <1>1
  DEF ToldInv, Terminal
<1> QED
  BY <1>2, <1>3, <1>4, <1>5, <1>6, <1>7, <1>8, <1>9, <1>10, <1>11, OneTask

\* The runner exits before the success is recorded; a cancellation that won discards the
\* result.
LEMMA ExitRunnerStep ==
    ASSUME IInv, TypeOK', NEW t \in Tasks, NEW r \in Runs, ExitRunner(t, r)
    PROVE  IInv'
<1>0. TypeOK /\ LoopInv /\ TaskInv(t)
  BY DEF IInv, TasksInvs
<1>1. /\ pc[t][r] = "published" /\ LockFree
      /\ \/ /\ Status(t) \notin Terminal /\ PcMoves(t, r, "exited") /\ UNCHANGED <<result, grant>>
            /\ runner[t] \in LiveRunner => runner'[t] = "exited"
            /\ runner[t] \notin LiveRunner => runner'[t] = runner[t]
            /\ \A u \in Tasks : u # t => runner'[u] = runner[u]
         \/ /\ Status(t) \in Terminal /\ PcMoves(t, r, "finish") /\ UNCHANGED runner
            /\ result'[t] = "none" /\ \A u \in Tasks : u # t => result'[u] = result[u]
            /\ grant[t] = "reserved" => grant'[t] = "restored"
            /\ grant[t] # "reserved" => grant'[t] = grant[t]
            /\ \A u \in Tasks : u # t => grant'[u] = grant[u]
      /\ UNCHANGED <<task, handle, cond, told, starter, undone, hook, unwired, phase>>
  BY <1>0, GoesMoves, EndedRow, RestoredRow
  DEF ExitRunner, TypeOK, IsTerminal, Discarded, world, maps, host
<1> USE DEF TaskInv, PcMoves, RowSays, Status, IsTerminal, IsActive
<1>2. Elsewhere(t)
  BY <1>1 DEF Elsewhere
<1>3. LoopInv'
  BY <1>1, LoopStep DEF OnLoop
<1>4. StartInv(t)'
  BY <1>0, <1>1
  DEF StartInv, Terminal, LiveRunner
<1>5. PhaseInv(t)'
  BY <1>0, <1>1
  DEF PhaseInv, Active, Terminal, LiveRunner
<1>6. UserInv(t)'
  BY <1>0, <1>1
  DEF UserInv, Terminal, LiveRunner, Using
<1>7. PublishInv(t)'
  BY <1>0, <1>1
  DEF PublishInv, Terminal, LiveRunner, Using, Publishing
<1>8. SuccessInv(t)'
  BY <1>0, <1>1
  DEF SuccessInv, Terminal, LiveRunner, Using
<1>9. SettleInv(t)'
  BY <1>0, <1>1
  DEF SettleInv, Terminal, LiveRunner, Using, Settling
<1>10. GrantInv(t)'
  BY <1>0, <1>1
  DEF GrantInv, Terminal, LiveRunner
<1>11. ToldInv(t)'
  BY <1>0, <1>1
  DEF ToldInv, Terminal, LiveRunner
<1> QED
  BY <1>2, <1>3, <1>4, <1>5, <1>6, <1>7, <1>8, <1>9, <1>10, <1>11, OneTask

\* The success is recorded.
LEMMA RecordSuccessStep ==
    ASSUME IInv, TypeOK', NEW t \in Tasks, NEW r \in Runs, RecordSuccess(t, r)
    PROVE  IInv'
<1>0. TypeOK /\ LoopInv /\ TaskInv(t)
  BY DEF IInv, TasksInvs
<1>1. /\ pc[t][r] = "exited" /\ grant[t] # "reserved"
      /\ PcMoves(t, r, "recorded") /\ RowSays(t, "succeeded", "none")
      /\ UNCHANGED <<runner, result, grant, handle, cond, told, starter, undone, hook,
                     unwired, phase>>
  BY <1>0, GoesMoves, BecomesSays
  DEF RecordSuccess, TypeOK, world, maps, host
<1> USE DEF TaskInv, PcMoves, RowSays, Status, IsTerminal, IsActive
<1>2. Elsewhere(t)
  BY <1>1 DEF Elsewhere
<1>3. LoopInv'
  BY <1>1, LoopStep DEF OnLoop
<1>4. StartInv(t)'
  BY <1>0, <1>1
  DEF StartInv, Terminal
<1>5. PhaseInv(t)'
  BY <1>0, <1>1
  DEF PhaseInv, Active
<1>6. UserInv(t)'
  BY <1>0, <1>1
  DEF UserInv, LiveRunner, Using
<1>7. PublishInv(t)'
  BY <1>0, <1>1
  DEF PublishInv, Terminal, Using, Publishing
<1>8. SuccessInv(t)'
  BY <1>0, <1>1
  DEF SuccessInv, PublishInv, Terminal, Using, Publishing
<1>9. SettleInv(t)'
  BY <1>0, <1>1
  DEF SettleInv, UserInv, Terminal, LiveRunner, Using, Settling
<1>10. GrantInv(t)'
  BY <1>0, <1>1
  DEF GrantInv
<1>11. ToldInv(t)'
  BY <1>0, <1>1, NotTold DEF SuccessInv
<1> QED
  BY <1>2, <1>3, <1>4, <1>5, <1>6, <1>7, <1>8, <1>9, <1>10, <1>11, OneTask

\* With a grant, success, handle, message and use are recorded together, or success alone.
LEMMA RecordGrantedSuccessStep ==
    ASSUME IInv, TypeOK', NEW t \in Tasks, NEW r \in Runs, RecordGrantedSuccess(t, r)
    PROVE  IInv'
<1>0. TypeOK /\ LoopInv /\ TaskInv(t)
  BY DEF IInv, TasksInvs
<1>1. /\ pc[t][r] = "exited" /\ grant[t] = "reserved"
      /\ \/ /\ PcMoves(t, r, "finish") /\ RowSays(t, "succeeded", "delivered")
            /\ told'[t] = Append(told[t], "succeeded")
            /\ \A u \in Tasks : u # t => told'[u] = told[u]
            /\ handle' = handle \cup {t}
            /\ grant'[t] = "committed" /\ \A u \in Tasks : u # t => grant'[u] = grant[u]
         \/ /\ PcMoves(t, r, "recorded") /\ RowSays(t, "succeeded", "none")
            /\ UNCHANGED <<told, handle>>
            /\ grant'[t] = "restored" /\ \A u \in Tasks : u # t => grant'[u] = grant[u]
      /\ UNCHANGED <<runner, result, cond, starter, undone, hook, unwired, phase>>
  <2>1. /\ pc[t][r] = "exited" /\ grant[t] = "reserved"
        /\ UNCHANGED <<runner, result, cond, starter, undone, hook, unwired, phase>>
    BY DEF RecordGrantedSuccess, world, maps, host
  <2>2. CASE GrantsOn(Outcome(t))
    <3>1. /\ task' = [task EXCEPT ![t].status = "succeeded", ![t].notice = "delivered"]
          /\ told' = Posted(t, "succeeded") /\ Outcome(t) = "delivered"
          /\ handle' = handle \cup {t} /\ Goes(t, r, "finish")
          /\ grant' = [grant EXCEPT ![t] = "committed"]
      BY <2>2 DEF RecordGrantedSuccess, GrantsOn
    <3>2. RowSays(t, "succeeded", "delivered")
      BY <1>0, <3>1 DEF TypeOK, RowSays
    <3>3. /\ told'[t] = Append(told[t], "succeeded")
          /\ \A u \in Tasks : u # t => told'[u] = told[u]
      BY <1>0, <3>1, PostedRow
    <3>4. grant'[t] = "committed" /\ \A u \in Tasks : u # t => grant'[u] = grant[u]
      BY <1>0, <3>1 DEF TypeOK
    <3>5. PcMoves(t, r, "finish")
      BY <1>0, <3>1, GoesMoves
    <3> QED
      BY <2>1, <3>1, <3>2, <3>3, <3>4, <3>5
  <2>3. CASE ~GrantsOn(Outcome(t))
    <3>1. /\ Becomes(t, "succeeded") /\ grant' = Restored(t) /\ Goes(t, r, "recorded")
          /\ UNCHANGED <<told, handle>>
      BY <2>3 DEF RecordGrantedSuccess
    <3>2. grant'[t] = "restored" /\ \A u \in Tasks : u # t => grant'[u] = grant[u]
      BY <1>0, <2>1, <3>1, RestoredRow
    <3> QED
      BY <1>0, <2>1, <3>1, <3>2, GoesMoves, BecomesSays
  <2> QED
    BY <2>2, <2>3
<1> USE DEF TaskInv, PcMoves, RowSays, Status, IsTerminal, IsActive
<1>2. Elsewhere(t)
  BY <1>1 DEF Elsewhere
<1>3. LoopInv'
  BY <1>1, LoopStep DEF OnLoop
<1>4. StartInv(t)'
  BY <1>0, <1>1
  DEF StartInv, Terminal
<1>5. PhaseInv(t)'
  BY <1>0, <1>1
  DEF PhaseInv, Active
<1>6. UserInv(t)'
  BY <1>0, <1>1
  DEF UserInv, LiveRunner, Using
<1>7. PublishInv(t)'
  BY <1>0, <1>1
  DEF PublishInv, Terminal, Using, Publishing
<1>8. SuccessInv(t)'
  BY <1>0, <1>1
  DEF SuccessInv, PublishInv, Terminal, Using, Publishing
<1>9. SettleInv(t)'
  BY <1>0, <1>1
  DEF SettleInv, UserInv, Terminal, LiveRunner, Using, Settling
<1>10. GrantInv(t)'
  BY <1>0, <1>1
  DEF GrantInv
<1>11. ToldInv(t)'
  <2>1. ~IsTerminal(t)
    BY <1>0, <1>1 DEF SuccessInv
  <2>2. CASE UNCHANGED told
    BY <1>0, <1>1, <2>1, <2>2, NotTold
  <2>3. CASE ~UNCHANGED told
    BY <1>0, <1>1, <2>1, <2>3, Tells DEF Terminal, Notices
  <2> QED
    BY <2>2, <2>3
<1> QED
  BY <1>2, <1>3, <1>4, <1>5, <1>6, <1>7, <1>8, <1>9, <1>10, <1>11, OneTask

\* The grant raises: the result is left as it is.
LEMMA GrantRaisesStep ==
    ASSUME IInv, TypeOK', NEW t \in Tasks, NEW r \in Runs, GrantRaises(t, r)
    PROVE  IInv'
<1>0. TypeOK /\ LoopInv /\ TaskInv(t)
  BY DEF IInv, TasksInvs
<1>1. /\ pc[t][r] = "exited" /\ grant[t] = "reserved" /\ PcMoves(t, r, "raised")
      /\ unwired' = unwired \cup {t}
      /\ UNCHANGED <<task, runner, result, grant, handle, cond, told, starter, undone,
                     hook, phase>>
  BY <1>0, GoesMoves
  DEF GrantRaises, TypeOK, rows, world, maps
<1> USE DEF TaskInv, PcMoves, RowSays, Status, IsTerminal, IsActive
<1>2. Elsewhere(t)
  BY <1>1 DEF Elsewhere
<1>3. LoopInv'
  BY <1>1, LoopStep DEF OnLoop
<1>4. StartInv(t)'
  BY <1>0, <1>1
  DEF StartInv, Terminal
<1>5. PhaseInv(t)'
  BY <1>0, <1>1
  DEF PhaseInv, Active
<1>6. UserInv(t)'
  BY <1>0, <1>1
  DEF UserInv, LiveRunner, Using
<1>7. PublishInv(t)'
  BY <1>0, <1>1
  DEF PublishInv, Terminal, Using, Publishing
<1>8. SuccessInv(t)'
  BY <1>0, <1>1
  DEF SuccessInv, Terminal, Using
<1>9. SettleInv(t)'
  BY <1>0, <1>1
  DEF SettleInv, Terminal, LiveRunner, Using, Settling
<1>10. GrantInv(t)'
  BY <1>0, <1>1
  DEF GrantInv
<1>11. ToldInv(t)'
  BY <1>0, <1>1
  DEF ToldInv, Terminal
<1> QED
  BY <1>2, <1>3, <1>4, <1>5, <1>6, <1>7, <1>8, <1>9, <1>10, <1>11, OneTask

\* The coroutine notifies of its outcome.
LEMMA NotifyEndStep ==
    ASSUME IInv, TypeOK', NEW t \in Tasks, NEW r \in Runs, NotifyEnd(t, r)
    PROVE  IInv'
<1>0. TypeOK /\ LoopInv /\ TaskInv(t)
  BY DEF IInv, TasksInvs
<1>1. /\ pc[t][r] \in {"recorded", "notify"} /\ PcMoves(t, r, "finish")
      /\ ToldInv(t)' /\ ToldStays(t) /\ task'[t].status = task[t].status
      /\ \A u \in Tasks : u # t => task'[u] = task[u] /\ told'[u] = told[u]
      /\ UNCHANGED <<runner, result, grant, handle, cond, starter, undone, hook,
                     unwired, phase>>
  BY <1>0, GoesMoves, NotifiedRow
  DEF NotifyEnd, TypeOK, TaskInv, world, maps, host
<1> USE DEF TaskInv, PcMoves, RowSays, Status, IsTerminal, IsActive
<1>2. Elsewhere(t)
  BY <1>1 DEF Elsewhere
<1>3. LoopInv'
  BY <1>1, LoopStep DEF OnLoop
<1>4. StartInv(t)'
  BY <1>0, <1>1
  DEF StartInv, Terminal
<1>5. PhaseInv(t)'
  BY <1>0, <1>1
  DEF PhaseInv, Active
<1>6. UserInv(t)'
  BY <1>0, <1>1
  DEF UserInv, LiveRunner, Using
<1>7. PublishInv(t)'
  BY <1>0, <1>1
  DEF PublishInv, Terminal, Using, Publishing
<1>8. SuccessInv(t)'
  BY <1>0, <1>1
  DEF SuccessInv, Terminal, Using
<1>9. SettleInv(t)'
  BY <1>0, <1>1
  DEF SettleInv, Terminal, LiveRunner, Using, Settling
<1>10. GrantInv(t)'
  BY <1>0, <1>1
  DEF GrantInv, ToldStays
<1>11. ToldInv(t)'
  BY <1>1
<1> QED
  BY <1>2, <1>3, <1>4, <1>5, <1>6, <1>7, <1>8, <1>9, <1>10, <1>11, OneTask

\* An error ends the runner and discards the result, unless the task has its outcome.
LEMMA HandleFailureStep ==
    ASSUME IInv, TypeOK', NEW t \in Tasks, NEW r \in Runs, HandleFailure(t, r)
    PROVE  IInv'
<1>0. TypeOK /\ LoopInv /\ TaskInv(t)
  BY DEF IInv, TasksInvs
<1>1. /\ pc[t][r] = "raised"
      /\ \/ Status(t) \in Terminal /\ PcMoves(t, r, "finish") /\ UNCHANGED <<runner, result>>
         \/ /\ Status(t) \notin Terminal /\ PcMoves(t, r, "failing")
            /\ runner[t] \in LiveRunner => runner'[t] = "killed"
            /\ runner[t] \notin LiveRunner => runner'[t] = runner[t]
            /\ result'[t] = "none"
            /\ \A u \in Tasks : u # t => runner'[u] = runner[u] /\ result'[u] = result[u]
      /\ grant[t] = "reserved" => grant'[t] = "restored"
      /\ grant[t] # "reserved" => grant'[t] = grant[t]
      /\ \A u \in Tasks : u # t => grant'[u] = grant[u]
      /\ UNCHANGED <<task, handle, cond, told, starter, undone, hook, unwired, phase>>
  BY <1>0, GoesMoves, EndedRow, RestoredRow
  DEF HandleFailure, TypeOK, IsTerminal, Discarded, world, maps, host
<1> USE DEF TaskInv, PcMoves, RowSays, Status, IsTerminal, IsActive
<1>2. Elsewhere(t)
  BY <1>1 DEF Elsewhere
<1>3. LoopInv'
  BY <1>1, LoopStep DEF OnLoop
<1>4. StartInv(t)'
  BY <1>0, <1>1
  DEF StartInv, Terminal, LiveRunner
<1>5. PhaseInv(t)'
  BY <1>0, <1>1
  DEF PhaseInv, Active, Terminal, LiveRunner
<1>6. UserInv(t)'
  BY <1>0, <1>1
  DEF UserInv, Terminal, LiveRunner, Using
<1>7. PublishInv(t)'
  BY <1>0, <1>1
  DEF PublishInv, LoopInv, OnLoop, Terminal, LiveRunner, Using, Publishing
<1>8. SuccessInv(t)'
  BY <1>0, <1>1
  DEF SuccessInv, Terminal, LiveRunner, Using
<1>9. SettleInv(t)'
  BY <1>0, <1>1
  DEF SettleInv, Terminal, LiveRunner, Using, Settling
<1>10. GrantInv(t)'
  BY <1>0, <1>1
  DEF GrantInv, Terminal, LiveRunner
<1>11. ToldInv(t)'
  BY <1>0, <1>1
  DEF ToldInv, Terminal, LiveRunner
<1> QED
  BY <1>2, <1>3, <1>4, <1>5, <1>6, <1>7, <1>8, <1>9, <1>10, <1>11, OneTask

\* The failure is recorded, unless the task has its outcome.
LEMMA MarkFailedStep ==
    ASSUME IInv, TypeOK', NEW t \in Tasks, NEW r \in Runs, MarkFailed(t, r)
    PROVE  IInv'
<1>0. TypeOK /\ LoopInv /\ TaskInv(t)
  BY DEF IInv, TasksInvs
<1>1. /\ pc[t][r] = "failing" /\ LockFree
      /\ \/ Status(t) \in Terminal /\ PcMoves(t, r, "finish") /\ UNCHANGED task
         \/ Status(t) \notin Terminal /\ PcMoves(t, r, "notify") /\ RowSays(t, "failed", "none")
      /\ UNCHANGED <<runner, result, grant, handle, cond, told, starter, undone, hook,
                     unwired, phase>>
  BY <1>0, GoesMoves, BecomesSays
  DEF MarkFailed, TypeOK, IsTerminal, Fails, world, maps, host
<1> USE DEF TaskInv, PcMoves, RowSays, Status, IsTerminal, IsActive
<1>2. Elsewhere(t)
  BY <1>1 DEF Elsewhere
<1>3. LoopInv'
  BY <1>1, LoopStep DEF OnLoop
<1>4. StartInv(t)'
  BY <1>0, <1>1
  DEF StartInv, Terminal
<1>5. PhaseInv(t)'
  BY <1>0, <1>1
  DEF PhaseInv, Active, Terminal
<1>6. UserInv(t)'
  BY <1>0, <1>1
  DEF UserInv, Terminal, LiveRunner, Using
<1>7. PublishInv(t)'
  BY <1>0, <1>1
  DEF PublishInv, Terminal, Using, Publishing
<1>8. SuccessInv(t)'
  BY <1>0, <1>1
  DEF SuccessInv, LockFree, Terminal, Using
<1>9. SettleInv(t)'
  BY <1>0, <1>1
  DEF SettleInv, UserInv, Terminal, LiveRunner, Using, Settling
<1>10. GrantInv(t)'
  BY <1>0, <1>1
  DEF GrantInv, Terminal
<1>11. ToldInv(t)'
  <2>1. CASE UNCHANGED task
    BY <1>0, <1>1, <2>1 DEF ToldInv
  <2>2. CASE ~UNCHANGED task
    BY <1>0, <1>1, <2>2, NotTold DEF Terminal
  <2> QED
    BY <2>1, <2>2
<1> QED
  BY <1>2, <1>3, <1>4, <1>5, <1>6, <1>7, <1>8, <1>9, <1>10, <1>11, OneTask

\* A coroutine is over.
LEMMA FinishStep ==
    ASSUME IInv, TypeOK', NEW t \in Tasks, NEW r \in Runs, Finish(t, r)
    PROVE  IInv'
<1>0. TypeOK /\ LoopInv /\ TaskInv(t)
  BY DEF IInv, TasksInvs
<1>1. /\ pc[t][r] = "finish"
      /\ PcMoves(t, r, "idle") \/ PcMoves(t, r, "callback")
      /\ undone' \subseteq undone
      /\ UNCHANGED <<task, runner, result, grant, handle, cond, told, starter, hook,
                     unwired, phase>>
  BY <1>0, GoesMoves
  DEF Finish, TypeOK, rows, world, host
<1> USE DEF TaskInv, PcMoves, RowSays, Status, IsTerminal, IsActive
<1>2. Elsewhere(t)
  BY <1>1 DEF Elsewhere
<1>3. LoopInv'
  BY <1>1, LoopStep DEF OnLoop
<1>4. StartInv(t)'
  BY <1>0, <1>1
  DEF StartInv, Terminal
<1>5. PhaseInv(t)'
  BY <1>0, <1>1
  DEF PhaseInv, Active
<1>6. UserInv(t)'
  BY <1>0, <1>1
  DEF UserInv, LiveRunner, Using
<1>7. PublishInv(t)'
  BY <1>0, <1>1
  DEF PublishInv, Terminal, Using, Publishing
<1>8. SuccessInv(t)'
  BY <1>0, <1>1
  DEF SuccessInv, Terminal, Using
<1>9. SettleInv(t)'
  BY <1>0, <1>1
  DEF SettleInv, Terminal, LiveRunner, Using, Settling
<1>10. GrantInv(t)'
  BY <1>0, <1>1
  DEF GrantInv
<1>11. ToldInv(t)'
  BY <1>0, <1>1
  DEF ToldInv, Terminal
<1> QED
  BY <1>2, <1>3, <1>4, <1>5, <1>6, <1>7, <1>8, <1>9, <1>10, <1>11, OneTask

\* Its callback forgets the future.
LEMMA ForgetStep ==
    ASSUME IInv, TypeOK', NEW t \in Tasks, NEW r \in Runs, Forget(t, r)
    PROVE  IInv'
<1>0. TypeOK /\ LoopInv /\ TaskInv(t)
  BY DEF IInv, TasksInvs
<1>1. /\ pc[t][r] = "callback" /\ PcMoves(t, r, "idle")
      /\ UNCHANGED <<task, runner, result, grant, handle, cond, told, starter, undone,
                     hook, unwired, phase>>
  BY <1>0, GoesMoves
  DEF Forget, TypeOK, rows, world, host
<1> USE DEF TaskInv, PcMoves, RowSays, Status, IsTerminal, IsActive
<1>2. Elsewhere(t)
  BY <1>1 DEF Elsewhere
<1>3. LoopInv'
  BY <1>1, LoopStep DEF OnLoop
<1>4. StartInv(t)'
  BY <1>0, <1>1
  DEF StartInv, Terminal
<1>5. PhaseInv(t)'
  BY <1>0, <1>1
  DEF PhaseInv, Active
<1>6. UserInv(t)'
  BY <1>0, <1>1
  DEF UserInv, LiveRunner, Using
<1>7. PublishInv(t)'
  BY <1>0, <1>1
  DEF PublishInv, Terminal, Using, Publishing
<1>8. SuccessInv(t)'
  BY <1>0, <1>1
  DEF SuccessInv, Terminal, Using
<1>9. SettleInv(t)'
  BY <1>0, <1>1
  DEF SettleInv, Terminal, LiveRunner, Using, Settling
<1>10. GrantInv(t)'
  BY <1>0, <1>1
  DEF GrantInv
<1>11. ToldInv(t)'
  BY <1>0, <1>1
  DEF ToldInv, Terminal
<1> QED
  BY <1>2, <1>3, <1>4, <1>5, <1>6, <1>7, <1>8, <1>9, <1>10, <1>11, OneTask

\* A message or the end of a child wakes the runner.
LEMMA ConditionMetStep ==
    ASSUME IInv, TypeOK', NEW t \in Tasks, ConditionMet(t)
    PROVE  IInv'
<1>0. TypeOK /\ LoopInv /\ TaskInv(t)
  BY DEF IInv, TasksInvs
<1>1. /\ phase = "open" /\ cond[t] = "open" /\ runner[t] \in LiveRunner
      /\ runner'[t] = IF runner[t] = "parked" THEN "runnable" ELSE runner[t]
      /\ \A u \in Tasks : u # t => runner'[u] = runner[u]
      /\ hook' = hook \cup {t}
      /\ cond'[t] = "met"
      /\ \A u \in Tasks : u # t => cond'[u] = cond[u]
      /\ UNCHANGED <<task, result, grant, handle, told, starter, pc, undone, unwired,
                     phase>>
  BY <1>0
  DEF ConditionMet, TypeOK, Woken, maps, memory
<1> USE DEF TaskInv, PcMoves, RowSays, Status, IsTerminal, IsActive
<1>2. Elsewhere(t)
  BY <1>1 DEF Elsewhere
<1>3. LoopInv'
  BY <1>1, LoopStays
<1>4. StartInv(t)'
  BY <1>0, <1>1
  DEF StartInv, Terminal, LiveRunner
<1>5. PhaseInv(t)'
  BY <1>0, <1>1
  DEF PhaseInv, Active, LiveRunner
<1>6. UserInv(t)'
  BY <1>0, <1>1
  DEF UserInv, LiveRunner, Using
<1>7. PublishInv(t)'
  BY <1>0, <1>1
  DEF PublishInv, Terminal, LiveRunner, Using, Publishing
<1>8. SuccessInv(t)'
  BY <1>0, <1>1
  DEF SuccessInv, Terminal, LiveRunner, Using
<1>9. SettleInv(t)'
  BY <1>0, <1>1
  DEF SettleInv, Terminal, LiveRunner, Using, Settling
<1>10. GrantInv(t)'
  BY <1>0, <1>1
  DEF GrantInv, LiveRunner
<1>11. ToldInv(t)'
  BY <1>0, <1>1
  DEF ToldInv, Terminal, LiveRunner
<1> QED
  BY <1>2, <1>3, <1>4, <1>5, <1>6, <1>7, <1>8, <1>9, <1>10, <1>11, OneTask

\* The decision of a Human wakes the runner.
LEMMA HumanDecidesStep ==
    ASSUME IInv, TypeOK', NEW t \in Tasks, NEW verdict \in {"met", "refused"},
           HumanDecides(t, verdict)
    PROVE  IInv'
<1>0. TypeOK /\ LoopInv /\ TaskInv(t)
  BY DEF IInv, TasksInvs
<1>1. /\ phase = "open" /\ cond[t] = "open" /\ runner[t] = "parked"
      /\ runner'[t] = "runnable"
      /\ \A u \in Tasks : u # t => runner'[u] = runner[u]
      /\ cond'[t] = verdict
      /\ \A u \in Tasks : u # t => cond'[u] = cond[u]
      /\ UNCHANGED <<task, result, grant, handle, told, starter, pc, undone, hook,
                     unwired, phase>>
  BY <1>0
  DEF HumanDecides, TypeOK, Woken, maps, memory, host
<1> USE DEF TaskInv, PcMoves, RowSays, Status, IsTerminal, IsActive
<1>2. Elsewhere(t)
  BY <1>1 DEF Elsewhere
<1>3. LoopInv'
  BY <1>1, LoopStays
<1>4. StartInv(t)'
  BY <1>0, <1>1
  DEF StartInv, Terminal
<1>5. PhaseInv(t)'
  BY <1>0, <1>1
  DEF PhaseInv, Active
<1>6. UserInv(t)'
  BY <1>0, <1>1
  DEF UserInv, LiveRunner, Using
<1>7. PublishInv(t)'
  BY <1>0, <1>1
  DEF PublishInv, Terminal, Using, Publishing
<1>8. SuccessInv(t)'
  BY <1>0, <1>1
  DEF SuccessInv, Terminal, Using
<1>9. SettleInv(t)'
  BY <1>0, <1>1
  DEF SettleInv, Terminal, LiveRunner, Using, Settling
<1>10. GrantInv(t)'
  BY <1>0, <1>1
  DEF GrantInv
<1>11. ToldInv(t)'
  BY <1>0, <1>1
  DEF ToldInv, Terminal
<1> QED
  BY <1>2, <1>3, <1>4, <1>5, <1>6, <1>7, <1>8, <1>9, <1>10, <1>11, OneTask

\* A rejection fails a task that waits.
LEMMA ResumeRefusedStep ==
    ASSUME IInv, TypeOK', NEW t \in Tasks, ResumeDecided(t),
           Status(t) = "waiting" /\ cond[t] = "refused"
    PROVE  IInv'
<1>0. TypeOK /\ LoopInv /\ TaskInv(t)
  BY DEF IInv, TasksInvs
<1>1. /\ phase = "open" /\ LockFree /\ Status(t) = "waiting" /\ cond[t] = "refused"
      /\ RowSays(t, "failed", "none")
      /\ UNCHANGED <<runner, result, grant, handle, cond, told, starter, pc, undone,
                     hook, unwired, phase>>
  BY <1>0, BecomesSays
  DEF ResumeDecided, TypeOK, Fails, IsTerminal, Terminal, Status, world
<1> USE DEF TaskInv, PcMoves, RowSays, Status, IsTerminal, IsActive
<1>2. Elsewhere(t)
  BY <1>1 DEF Elsewhere
<1>3. LoopInv'
  BY <1>1, LoopStays
<1>4. StartInv(t)'
  BY <1>0, <1>1
  DEF StartInv, Terminal
<1>5. PhaseInv(t)'
  BY <1>0, <1>1
  DEF PhaseInv, Active
<1>6. UserInv(t)'
  BY <1>0, <1>1
  DEF UserInv, LiveRunner, Using
<1>7. PublishInv(t)'
  BY <1>0, <1>1
  DEF PublishInv, Terminal, Using, Publishing
<1>8. SuccessInv(t)'
  BY <1>0, <1>1
  DEF SuccessInv, LockFree, Terminal, Using
<1>9. SettleInv(t)'
  BY <1>0, <1>1
  DEF SettleInv, Terminal, LiveRunner, Using, Settling
<1>10. GrantInv(t)'
  BY <1>0, <1>1
  DEF GrantInv
<1>11. ToldInv(t)'
  BY <1>0, <1>1, NotTold DEF Active, Terminal
<1> QED
  BY <1>2, <1>3, <1>4, <1>5, <1>6, <1>7, <1>8, <1>9, <1>10, <1>11, OneTask

\* A reader ends a task whose runner ended without a coroutine.
LEMMA RefreshStep ==
    ASSUME IInv, TypeOK', NEW t \in Tasks, Refresh(t)
    PROVE  IInv'
<1>0. TypeOK /\ LoopInv /\ TaskInv(t)
  BY DEF IInv, TasksInvs
<1>1. /\ phase = "open" /\ LockFree /\ Status(t) \in Active /\ runner[t] \in EndedRunner
      /\ \E s \in {"cancelled", "failed"} : RowSays(t, s, "none")
      /\ UNCHANGED <<runner, result, grant, handle, cond, told, starter, pc, undone,
                     hook, unwired, phase>>
  BY <1>0, BecomesSays
  DEF Refresh, TypeOK, IsActive, world
<1> USE DEF TaskInv, PcMoves, RowSays, Status, IsTerminal, IsActive
<1>2. Elsewhere(t)
  BY <1>1 DEF Elsewhere
<1>3. LoopInv'
  BY <1>1, LoopStays
<1>4. StartInv(t)'
  BY <1>0, <1>1
  DEF StartInv, Active, Terminal, EndedRunner
<1>5. PhaseInv(t)'
  BY <1>0, <1>1
  DEF PhaseInv, Active, EndedRunner
<1>6. UserInv(t)'
  BY <1>0, <1>1
  DEF UserInv, Active, LiveRunner, EndedRunner, Using
<1>7. PublishInv(t)'
  BY <1>0, <1>1
  DEF PublishInv, Active, Terminal, EndedRunner, Using, Publishing
<1>8. SuccessInv(t)'
  BY <1>0, <1>1
  DEF SuccessInv, LockFree, Active, Terminal, EndedRunner, Using
<1>9. SettleInv(t)'
  BY <1>0, <1>1
  DEF SettleInv, Active, Terminal, LiveRunner, EndedRunner, Using, Settling
<1>10. GrantInv(t)'
  BY <1>0, <1>1
  DEF GrantInv, Active, EndedRunner
<1>11. ToldInv(t)'
  BY <1>0, <1>1, NotTold DEF Active, Terminal
<1> QED
  BY <1>2, <1>3, <1>4, <1>5, <1>6, <1>7, <1>8, <1>9, <1>10, <1>11, OneTask

\* A cancellation: row, runner and notification commit together.
LEMMA CancelStep ==
    ASSUME IInv, TypeOK', NEW t \in Tasks, Cancel(t)
    PROVE  IInv'
<1>0. TypeOK /\ LoopInv /\ TaskInv(t)
  BY DEF IInv, TasksInvs
<1>1. /\ phase = "open" /\ LockFree /\ Status(t) \in Active
      /\ RowSays(t, "cancelled", Outcome(t))
      /\ told'[t] = IF Outcome(t) = "delivered" THEN Append(told[t], "cancelled") ELSE told[t]
      /\ \A u \in Tasks : u # t => told'[u] = told[u]
      /\ runner[t] \in LiveRunner => runner'[t] = "killed"
      /\ runner[t] \notin LiveRunner => runner'[t] = runner[t]
      /\ \A u \in Tasks : u # t => runner'[u] = runner[u]
      /\ runner[t] \in LiveRunner /\ result[t] = "runner" => result'[t] = "none"
      /\ ~(runner[t] \in LiveRunner /\ result[t] = "runner") => result'[t] = result[t]
      /\ \A u \in Tasks : u # t => result'[u] = result[u]
      /\ \A u \in Tasks, x \in Runs : u # t /\ <<u, x>> \in undone' => <<u, x>> \in undone
      /\ UNCHANGED <<grant, handle, cond, starter, pc, hook, unwired, phase>>
  <2>1. /\ phase = "open" /\ LockFree /\ Status(t) \in Active
        /\ task' = [task EXCEPT ![t].status = "cancelled", ![t].notice = Outcome(t)]
        /\ told' = Posted(t, "cancelled") /\ runner' = Ended(t, "killed") /\ result' = KeptBy(t)
        /\ UNCHANGED <<grant, handle, cond, starter, pc, hook, unwired, phase>>
    BY DEF Cancel, MayCancel, IsActive, world, host
  <2>2. RowSays(t, "cancelled", Outcome(t))
    BY <1>0, <2>1 DEF TypeOK, RowSays
  <2>3. \A u \in Tasks, x \in Runs : u # t /\ <<u, x>> \in undone' => <<u, x>> \in undone
    BY DEF Cancel
  <2>4. /\ told'[t] = IF Outcome(t) = "delivered" THEN Append(told[t], "cancelled") ELSE told[t]
        /\ \A u \in Tasks : u # t => told'[u] = told[u]
    BY <1>0, <2>1, PostedRow
  <2> QED
    BY <1>0, <2>1, <2>2, <2>3, <2>4, EndedRow, KeptRow
<1> USE DEF TaskInv, PcMoves, RowSays, Status, IsTerminal, IsActive
<1>2. Elsewhere(t)
  BY <1>1 DEF Elsewhere
<1>3. LoopInv'
  BY <1>1, LoopStays
<1>4. StartInv(t)'
  BY <1>0, <1>1
  DEF StartInv, Active, Terminal, LiveRunner
<1>5. PhaseInv(t)'
  BY <1>0, <1>1
  DEF PhaseInv, Active, LiveRunner
<1>6. UserInv(t)'
  BY <1>0, <1>1
  DEF UserInv, Active, LiveRunner, Using
<1>7. PublishInv(t)'
  BY <1>0, <1>1
  DEF PublishInv, Active, Terminal, LiveRunner, Using, Publishing
<1>8. SuccessInv(t)'
  BY <1>0, <1>1
  DEF SuccessInv, LockFree, Active, Terminal, LiveRunner, Using
<1>9. SettleInv(t)'
  BY <1>0, <1>1
  DEF SettleInv, Active, Terminal, LiveRunner, Using, Settling
<1>10. GrantInv(t)'
  BY <1>0, <1>1
  DEF GrantInv, Active, LiveRunner
<1>11. ToldInv(t)'
  BY <1>0, <1>1, Tells, Outcomes DEF Active, Terminal, Notices
<1> QED
  BY <1>2, <1>3, <1>4, <1>5, <1>6, <1>7, <1>8, <1>9, <1>10, <1>11, OneTask

\* The shutdown cancels a task.
LEMMA ShutdownCancelsStep ==
    ASSUME IInv, TypeOK', NEW t \in Tasks, ShutdownCancels(t)
    PROVE  IInv'
<1>0. TypeOK /\ LoopInv /\ TaskInv(t)
  BY DEF IInv, TasksInvs
<1>1. /\ phase = "closing" /\ Status(t) \in Active /\ RowSays(t, "cancelled", "none")
      /\ runner[t] \in LiveRunner => runner'[t] = "killed"
      /\ runner[t] \notin LiveRunner => runner'[t] = runner[t]
      /\ \A u \in Tasks : u # t => runner'[u] = runner[u]
      /\ runner[t] \in LiveRunner /\ result[t] = "runner" => result'[t] = "none"
      /\ ~(runner[t] \in LiveRunner /\ result[t] = "runner") => result'[t] = result[t]
      /\ \A u \in Tasks : u # t => result'[u] = result[u]
      /\ UNCHANGED <<grant, handle, cond, told, starter, pc, undone, hook, unwired, phase>>
  BY <1>0, BecomesSays, EndedRow, KeptRow
  DEF ShutdownCancels, TypeOK, IsActive, world
<1> USE DEF TaskInv, PcMoves, RowSays, Status, IsTerminal, IsActive
<1>2. Elsewhere(t)
  BY <1>1 DEF Elsewhere
<1>3. LoopInv'
  BY <1>1, LoopStays
<1>4. StartInv(t)'
  BY <1>0, <1>1
  DEF StartInv, Active, Terminal, LiveRunner
<1>5. PhaseInv(t)'
  BY <1>0, <1>1
  DEF PhaseInv, Active, LiveRunner
<1>6. UserInv(t)'
  BY <1>0, <1>1
  DEF UserInv, Active, LiveRunner, Using
<1>7. PublishInv(t)'
  BY <1>0, <1>1
  DEF PublishInv, Active, Terminal, LiveRunner, Using, Publishing
<1>8. SuccessInv(t)'
  BY <1>0, <1>1
  DEF SuccessInv, PhaseInv, Active, Terminal, LiveRunner, Using
<1>9. SettleInv(t)'
  BY <1>0, <1>1
  DEF SettleInv, Active, Terminal, LiveRunner, Using, Settling
<1>10. GrantInv(t)'
  BY <1>0, <1>1
  DEF GrantInv, Active, LiveRunner
<1>11. ToldInv(t)'
  BY <1>0, <1>1, NotTold DEF Active, Terminal
<1> QED
  BY <1>2, <1>3, <1>4, <1>5, <1>6, <1>7, <1>8, <1>9, <1>10, <1>11, OneTask

\* Startup abandons a task that a Runtime left behind.
LEMMA RecoverActiveStep ==
    ASSUME IInv, TypeOK', NEW t \in Tasks, RecoverActive(t)
    PROVE  IInv'
<1>0. TypeOK /\ LoopInv /\ TaskInv(t)
  BY DEF IInv, TasksInvs
<1>1. /\ phase = "active" /\ Status(t) \in Active /\ RowSays(t, "abandoned", "none")
      /\ runner[t] \in LiveRunner => runner'[t] = "killed"
      /\ runner[t] \notin LiveRunner => runner'[t] = runner[t]
      /\ \A u \in Tasks : u # t => runner'[u] = runner[u]
      /\ UNCHANGED <<result, grant, handle, cond, told, starter, pc, undone, hook,
                     unwired, phase>>
  BY <1>0, BecomesSays, EndedRow
  DEF RecoverActive, TypeOK, IsActive, AbandonedRunner, world, maps, memory
<1> USE DEF TaskInv, PcMoves, RowSays, Status, IsTerminal, IsActive
<1>2. Elsewhere(t)
  BY <1>1 DEF Elsewhere
<1>3. LoopInv'
  BY <1>1, LoopStays
<1>4. StartInv(t)'
  BY <1>0, <1>1
  DEF StartInv, Active, Terminal, LiveRunner
<1>5. PhaseInv(t)'
  BY <1>0, <1>1
  DEF PhaseInv, Active, LiveRunner
<1>6. UserInv(t)'
  BY <1>0, <1>1
  DEF UserInv, Active, LiveRunner, Using
<1>7. PublishInv(t)'
  BY <1>0, <1>1
  DEF PublishInv, PhaseInv, Active, Terminal, LiveRunner, Using, Publishing
<1>8. SuccessInv(t)'
  BY <1>0, <1>1
  DEF SuccessInv, PhaseInv, Active, Terminal, LiveRunner, Using
<1>9. SettleInv(t)'
  BY <1>0, <1>1
  DEF SettleInv, Active, Terminal, LiveRunner, Using, Settling
<1>10. GrantInv(t)'
  BY <1>0, <1>1
  DEF GrantInv, Active, LiveRunner
<1>11. ToldInv(t)'
  BY <1>0, <1>1, NotTold DEF Active, Terminal
<1> QED
  BY <1>2, <1>3, <1>4, <1>5, <1>6, <1>7, <1>8, <1>9, <1>10, <1>11, OneTask

\* Startup corrects a success whose result is gone.
LEMMA RecoverResultStep ==
    ASSUME IInv, TypeOK', NEW t \in Tasks, RecoverResult(t)
    PROVE  IInv'
<1>0. TypeOK /\ LoopInv /\ TaskInv(t)
  BY DEF IInv, TasksInvs
<1>1. /\ phase = "results" /\ Status(t) = "succeeded" /\ result[t] = "none"
      /\ RowSays(t, "unavailable", "none")
      /\ UNCHANGED <<runner, result, grant, handle, cond, told, starter, pc, undone,
                     hook, unwired, phase>>
  BY <1>0, BecomesSays
  DEF RecoverResult, TypeOK, world, maps, memory
<1> USE DEF TaskInv, PcMoves, RowSays, Status, IsTerminal, IsActive
<1>2. Elsewhere(t)
  BY <1>1 DEF Elsewhere
<1>3. LoopInv'
  BY <1>1, LoopStays
<1>4. StartInv(t)'
  BY <1>0, <1>1
  DEF StartInv, Terminal
<1>5. PhaseInv(t)'
  BY <1>0, <1>1
  DEF PhaseInv, Active
<1>6. UserInv(t)'
  BY <1>0, <1>1
  DEF UserInv, LiveRunner, Using
<1>7. PublishInv(t)'
  BY <1>0, <1>1
  DEF PublishInv, Terminal, Using, Publishing
<1>8. SuccessInv(t)'
  BY <1>0, <1>1
  DEF SuccessInv, Terminal, Using
<1>9. SettleInv(t)'
  BY <1>0, <1>1
  DEF SettleInv, Terminal, LiveRunner, Using, Settling
<1>10. GrantInv(t)'
  BY <1>0, <1>1
  DEF GrantInv
<1>11. ToldInv(t)'
  BY <1>0, <1>1, NotTold
<1> QED
  BY <1>2, <1>3, <1>4, <1>5, <1>6, <1>7, <1>8, <1>9, <1>10, <1>11, OneTask

\* A notification by a thread, a reader or a startup (NotifyOwed, RetryNotice, RecoverNotice).
LEMMA NotifiedStep ==
    ASSUME IInv, TypeOK', NEW t \in Tasks, Notified(t),
           UNCHANGED <<runner, result, grant, handle, cond, starter, pc, undone, hook, unwired,
                       phase>>
    PROVE  IInv'
<1>0. TypeOK /\ LoopInv /\ TaskInv(t)
  BY DEF IInv, TasksInvs
<1>1. /\ ToldInv(t)' /\ ToldStays(t) /\ task'[t].status = task[t].status
      /\ \A u \in Tasks : u # t => task'[u] = task[u] /\ told'[u] = told[u]
  BY <1>0, NotifiedRow DEF TaskInv
<1> USE DEF TaskInv, Status, IsTerminal, IsActive
<1>2. Elsewhere(t)
  BY <1>1 DEF Elsewhere
<1>3. LoopInv'
  BY LoopStays
<1>4. StartInv(t)' /\ PhaseInv(t)'
  BY <1>0, <1>1 DEF StartInv, PhaseInv
<1>5. UserInv(t)' /\ PublishInv(t)'
  BY <1>0, <1>1 DEF UserInv, PublishInv
<1>6. SuccessInv(t)' /\ SettleInv(t)'
  BY <1>0, <1>1 DEF SuccessInv, SettleInv
<1>7. GrantInv(t)'
  BY <1>0, <1>1 DEF GrantInv, ToldStays
<1> QED
  BY <1>1, <1>2, <1>3, <1>4, <1>5, <1>6, <1>7, OneTask

\* A new coroutine is queued, for a task that start has handed over (_schedule_task_locked).
LEMMA ScheduleStep ==
    ASSUME IInv, TypeOK', NEW t \in Tasks, Schedules(t), phase \in {"open", "closing"},
           starter'[t] = "done", \A u \in Tasks : u # t => starter'[u] = starter[u],
           hook' \subseteq hook,
           UNCHANGED <<task, runner, result, grant, handle, cond, told, undone, unwired, phase>>
    PROVE  IInv'
<1>0. TypeOK /\ LoopInv /\ TaskInv(t)
  BY DEF IInv, TasksInvs
<1>1. PICK r \in Runs : pc[t][r] = "idle" /\ PcMoves(t, r, "queued")
  BY <1>0, GoesMoves DEF Schedules
<1> USE DEF TaskInv, PcMoves, Status, IsTerminal, IsActive
<1>2. Elsewhere(t)
  BY <1>1 DEF Elsewhere
<1>3. LoopInv'
  BY <1>1, LoopStep DEF OnLoop
<1>4. StartInv(t)' /\ PhaseInv(t)'
  BY <1>0, <1>1 DEF StartInv, PhaseInv
<1>5. UserInv(t)'
  BY <1>0, <1>1 DEF UserInv, Using
<1>6. PublishInv(t)'
  BY <1>0, <1>1 DEF PublishInv, Using, Publishing
<1>7. SuccessInv(t)' /\ SettleInv(t)'
  BY <1>0, <1>1 DEF SuccessInv, SettleInv, Using, Settling
<1>8. GrantInv(t)' /\ ToldInv(t)'
  BY <1>0, <1>1 DEF GrantInv, ToldInv
<1> QED
  BY <1>2, <1>3, <1>4, <1>5, <1>6, <1>7, <1>8, OneTask

\* A task that waits has left start.
LEMMA WaitingIsStarted ==
    ASSUME IInv, NEW t \in Tasks, Status(t) = "waiting"
    PROVE  starter[t] = "done"
  BY DEF IInv, TasksInvs, TaskInv, StartInv, TypeOK, Terminal

\* start hands its task over.
LEMMA HandOffStep ==
    ASSUME IInv, TypeOK', NEW t \in Tasks, HandOff(t)
    PROVE  IInv'
<1>1. phase = "open"
  BY DEF HandOff, IInv, TasksInvs, TaskInv, PhaseInv
<1>2. /\ Schedules(t) /\ starter' = [starter EXCEPT ![t] = "done"]
      /\ UNCHANGED <<task, runner, result, grant, handle, cond, told, undone, hook, unwired,
                     phase>>
  BY DEF HandOff, rows, world
<1>3. starter'[t] = "done" /\ \A u \in Tasks : u # t => starter'[u] = starter[u]
  BY <1>2 DEF IInv, TypeOK
<1> QED
  BY <1>1, <1>2, <1>3, ScheduleStep

\* A hook, late or not, schedules a task that waits, or does nothing.
LEMMA RunHookStep ==
    ASSUME IInv, TypeOK', NEW t \in Tasks, RunHook(t)
    PROVE  IInv'
<1>1. phase \in {"open", "closing"} /\ hook' \subseteq hook
  BY DEF RunHook, IInv, TasksInvs, TaskInv, PhaseInv
<1>2. UNCHANGED <<task, runner, result, grant, handle, cond, told, starter, undone, unwired,
                  phase>>
  BY DEF RunHook, rows, world
<1>3. CASE MayResume(t)
  <2>1. starter[t] = "done" /\ Schedules(t)
    BY <1>3, WaitingIsStarted DEF RunHook, MayResume
  <2> QED
    BY <1>1, <1>2, <2>1, ScheduleStep
<1>4. CASE ~MayResume(t)
  <2>1. UNCHANGED pc
    BY <1>4 DEF RunHook
  <2>2. Elsewhere(t) /\ LoopInv'
    BY <1>1, <1>2, <2>1, LoopStays DEF Elsewhere
  <2>3. TaskInv(t)
    BY DEF IInv, TasksInvs
  <2>4. TaskInv(t)'
    BY <1>1, <1>2, <2>1, <2>3 DEF TaskInv, StartInv, PhaseInv, UserInv, PublishInv, SuccessInv,
       SettleInv, GrantInv, ToldInv, Status, IsTerminal, IsActive
  <2> QED
    BY <2>2, <2>4, OneTask
<1> QED
  BY <1>3, <1>4

\* A read finds the mail of a task that waits.
LEMMA ReconcileMailStep ==
    ASSUME IInv, TypeOK', NEW t \in Tasks, ReconcileMail(t)
    PROVE  IInv'
<1>1. starter[t] = "done" /\ Schedules(t) /\ phase = "open"
  BY WaitingIsStarted DEF ReconcileMail, MayResume
<1>2. UNCHANGED <<task, runner, result, grant, handle, cond, told, starter, undone, hook,
                  unwired, phase>>
  BY DEF ReconcileMail, rows, world, host
<1> QED
  BY <1>1, <1>2, ScheduleStep

\* A wait finds what the Human has decided.
LEMMA ResumeDecidedStep ==
    ASSUME IInv, TypeOK', NEW t \in Tasks, ResumeDecided(t)
    PROVE  IInv'
<1>1. CASE Status(t) = "waiting" /\ cond[t] = "met"
  <2>1. starter[t] = "done" /\ Schedules(t) /\ phase = "open"
    BY <1>1, WaitingIsStarted DEF ResumeDecided
  <2>2. UNCHANGED <<task, runner, result, grant, handle, cond, told, starter, undone, hook,
                    unwired, phase>>
    BY <1>1 DEF ResumeDecided, world
  <2> QED
    BY <2>1, <2>2, ScheduleStep
<1>2. CASE Status(t) = "waiting" /\ cond[t] = "refused"
  BY <1>2, ResumeRefusedStep
<1> QED
  BY <1>1, <1>2 DEF ResumeDecided

-------------------------------------------------------------------------------
(* The Runtime stops, crashes and starts *)

\* What only the phase, or nothing of this invariant, changes.
LEMMA PhaseStep ==
    ASSUME IInv, TypeOK', \A t \in Tasks : PhaseInv(t)' /\ SuccessInv(t)' /\ SettleInv(t)',
           UNCHANGED <<task, runner, result, grant, handle, cond, told, starter, pc, undone,
                       hook, unwired>>
    PROVE  IInv'
<1>1. ASSUME NEW t \in Tasks
      PROVE  TaskInv(t)'
  <2>0. TaskInv(t)
    BY DEF IInv, TasksInvs
  <2>1. StartInv(t)' /\ UserInv(t)'
    BY <2>0 DEF TaskInv, StartInv, UserInv, Status, IsTerminal
  <2>2. PublishInv(t)' /\ GrantInv(t)' /\ ToldInv(t)'
    BY <2>0 DEF TaskInv, PublishInv, GrantInv, ToldInv, Status, IsTerminal
  <2> QED
    BY <2>1, <2>2 DEF TaskInv
<1> QED
  BY <1>1, LoopStays DEF IInv, TasksInvs

\* The Runtime stops its manager.
LEMMA BeginShutdownStep ==
    ASSUME IInv, TypeOK', BeginShutdown
    PROVE  IInv'
<1>1. UNCHANGED <<task, runner, result, grant, handle, cond, told, starter, pc, undone, hook,
                  unwired>> /\ phase = "open" /\ phase' = "closing"
  BY DEF BeginShutdown, rows, world, memory, maps
<1>2. ASSUME NEW t \in Tasks
      PROVE  PhaseInv(t)' /\ SuccessInv(t)' /\ SettleInv(t)'
  <2>1. /\ TaskInv(t) /\ starter[t] \in {"new", "done"}
        /\ \A r \in Runs : pc[t][r] \in {"idle", "queued", "callback"}
    BY DEF IInv, TasksInvs, BeginShutdown, TypeOK
  <2> QED
    BY <1>1, <2>1 DEF TaskInv, PhaseInv, SuccessInv, SettleInv, Status, IsTerminal, IsActive
<1> QED
  BY <1>1, <1>2, PhaseStep

\* A start begins with its passes.
LEMMA ReopenStep ==
    ASSUME IInv, TypeOK', Reopen
    PROVE  IInv'
<1>1. UNCHANGED <<task, runner, result, grant, handle, cond, told, starter, pc, undone, hook,
                  unwired>> /\ phase = "down" /\ phase' = "active"
  BY DEF Reopen, rows, world, memory, maps
<1>2. ASSUME NEW t \in Tasks
      PROVE  PhaseInv(t)' /\ SuccessInv(t)' /\ SettleInv(t)'
  <2>1. TaskInv(t)
    BY DEF IInv, TasksInvs
  <2> QED
    BY <1>1, <2>1 DEF TaskInv, PhaseInv, SuccessInv, SettleInv, Status, IsTerminal, IsActive
<1> QED
  BY <1>1, <1>2, PhaseStep

\* A pass is over when it has nothing left to deal with, and the last one opens admission.
LEMMA NextPassStep ==
    ASSUME IInv, TypeOK', NextPass
    PROVE  IInv'
<1>1. UNCHANGED <<task, runner, result, grant, handle, cond, told, starter, pc, undone, hook,
                  unwired>>
  BY DEF NextPass, rows, world, memory, maps
<1>2. \/ /\ phase = "active" /\ phase' = "results"
         /\ \A t \in Tasks : ~IsActive(t)
      \/ /\ phase = "results" /\ phase' \in {"open", "notices"}
         /\ \A t \in Tasks : ~(Status(t) = "succeeded" /\ result[t] = "none")
      \/ phase = "notices" /\ phase' = "open"
  BY DEF NextPass
<1>3. ASSUME NEW t \in Tasks
      PROVE  PhaseInv(t)' /\ SuccessInv(t)' /\ SettleInv(t)'
  <2>0. TaskInv(t) /\ result[t] \in {"none", "runner", "task"}
    BY DEF IInv, TasksInvs, TypeOK
  <2>1. \A r \in Runs : pc[t][r] = "idle"
    BY <1>2, <2>0 DEF TaskInv, PhaseInv
  <2>2. result[t] # "runner"
    BY <2>0, <2>1 DEF TaskInv, PublishInv
  <2>3. PhaseInv(t)'
    BY <1>1, <1>2, <2>0, <2>1 DEF TaskInv, PhaseInv, Status, IsActive
  <2>4. SuccessInv(t)'
    BY <1>1, <1>2, <2>0, <2>1, <2>2 DEF TaskInv, SuccessInv, Status, IsTerminal
  <2>5. SettleInv(t)'
    BY <1>1, <1>2, <2>0 DEF TaskInv, PhaseInv, SettleInv, Status, IsTerminal, IsActive, Active
  <2> QED
    BY <2>3, <2>4, <2>5
<1> QED
  BY <1>1, <1>3, PhaseStep

\* What ends with the Runtime.
LEMMA ForgottenStep ==
    ASSUME IInv, TypeOK', Forgotten
    PROVE  IInv'
<1>1. /\ phase' = "down" /\ undone' = {} /\ hook' = {}
      /\ UNCHANGED <<task, runner, handle, cond, told, unwired>>
  BY DEF Forgotten, world
<1>2. \A t \in Tasks, r \in Runs : pc'[t][r] = "idle"
  BY DEF Forgotten
<1>3. ASSUME NEW t \in Tasks
      PROVE  TaskInv(t)'
  <2>0. TaskInv(t)
    BY DEF IInv, TasksInvs
  <2>1. /\ starter'[t] = IF starter[t] = "new" THEN "new" ELSE "done"
        /\ grant'[t] = IF grant[t] = "reserved" THEN "abandoned" ELSE grant[t]
    BY DEF Forgotten
  <2>2. result'[t] = "none" \/ (result'[t] = "task" /\ Status(t) = "succeeded")
    BY DEF Forgotten
  <2>3. StartInv(t)' /\ PhaseInv(t)'
    BY <1>1, <1>2, <2>0, <2>1, <2>2 DEF TaskInv, StartInv, PhaseInv, Status, IsActive
  <2>4. UserInv(t)' /\ PublishInv(t)'
    BY <1>1, <1>2, <2>0, <2>2 DEF TaskInv, UserInv, PublishInv, Using, Publishing, Status,
       IsTerminal, Terminal
  <2>5. SuccessInv(t)' /\ SettleInv(t)'
    BY <1>1, <1>2, <2>0 DEF TaskInv, SuccessInv, SettleInv, Using, Status, IsTerminal
  <2>6. GrantInv(t)' /\ ToldInv(t)'
    BY <1>1, <2>0, <2>1 DEF TaskInv, GrantInv, ToldInv, Status, IsTerminal
  <2> QED
    BY <2>3, <2>4, <2>5, <2>6 DEF TaskInv
<1>4. LoopInv'
  BY <1>2 DEF LoopInv, OnLoop
<1> QED
  BY <1>3, <1>4 DEF IInv, TasksInvs

\* Nothing of the invariant is about the recipient.
LEMMA RecipientStep ==
    ASSUME IInv, TypeOK',
           UNCHANGED <<task, runner, result, grant, handle, cond, told, starter, pc, undone,
                       hook, unwired, phase>>
    PROVE  IInv'
<1>1. ASSUME NEW t \in Tasks
      PROVE  PhaseInv(t)' /\ SuccessInv(t)' /\ SettleInv(t)'
  <2>1. TaskInv(t)
    BY DEF IInv, TasksInvs
  <2> QED
    BY <2>1 DEF TaskInv, PhaseInv, SuccessInv, SettleInv, Status, IsTerminal, IsActive
<1> QED
  BY <1>1, PhaseStep

-------------------------------------------------------------------------------
(* The theorems *)

\* Every step keeps the invariant.
LEMMA NextStep ==
    ASSUME IInv, [Next]_vars
    PROVE  IInv'
<1>0. TypeOK'
  BY TypeStep DEF IInv
<1>1. ASSUME NEW t \in Tasks, NotifyOwed(t)
      PROVE  IInv'
  BY <1>0, <1>1, NotifiedStep DEF NotifyOwed, world, memory, maps
<1>2. ASSUME NEW t \in Tasks, RetryNotice(t)
      PROVE  IInv'
  BY <1>0, <1>2, NotifiedStep DEF RetryNotice, world, memory, maps, host
<1>3. ASSUME NEW t \in Tasks, RecoverNotice(t)
      PROVE  IInv'
  BY <1>0, <1>3, NotifiedStep DEF RecoverNotice, world, memory, maps
<1>4. ASSUME NEW t \in Tasks, NEW how \in {"open", "refuses", "ended"}, RecipientChanges(t, how)
      PROVE  IInv'
  BY <1>0, <1>4, RecipientStep DEF RecipientChanges, rows, memory, maps
<1>5. ASSUME Close
      PROVE  IInv'
  BY <1>0, <1>5, ForgottenStep DEF Close
<1>6. ASSUME Crash
      PROVE  IInv'
  BY <1>0, <1>6, ForgottenStep DEF Crash
<1>7. CASE UNCHANGED vars
  BY <1>0, <1>7, RecipientStep DEF vars
<1> QED
  BY <1>0, <1>1, <1>2, <1>3, <1>4, <1>5, <1>6, <1>7, BeginStep, MarkRunningStep,
     CancelledStep, MarkWaitingStep, NotifyWaitingStep, SettleErrorStep, TransferResultStep,
     WireResultStep, WiringRaisesStep, ExitRunnerStep, RecordSuccessStep,
     RecordGrantedSuccessStep, GrantRaisesStep, NotifyEndStep, HandleFailureStep,
     MarkFailedStep, FinishStep, ForgetStep, ToolReturnsStep, ToolFailsStep, ToolWaitsStep,
     InsertStep, RefuseInsertStep, HandOffStep, AbortHandOffStep, RunHookStep,
     ReconcileMailStep, ResumeDecidedStep, RefreshStep, ShutdownCancelsStep,
     RecoverActiveStep, RecoverResultStep, ConditionMetStep, KillRunnerStep, CancelStep,
     SpawnStep, HumanDecidesStep, ReopenStep, NextPassStep, BeginShutdownStep DEF Next, Loop,
     Coroutine, Tool, Starting, Threads, Reads, Stopping, Startup, World, Rest

\* No task has been started, and nothing runs.
LEMMA InitStep ==
    ASSUME Init
    PROVE  IInv
<1>1. TypeOK
  BY ObjectTasksAssumption DEF Init, TypeOK, Tools, Active, Terminal, Notices, LiveRunner,
     EndedRunner, Points
<1>2. LoopInv
  BY DEF Init, LoopInv, OnLoop
<1>3. ASSUME NEW t \in Tasks
      PROVE  TaskInv(t)
  <2>1. /\ task[t].status = "none" /\ runner[t] = "absent" /\ result[t] = "none"
        /\ grant[t] = "none" /\ handle = {} /\ told[t] = <<>> /\ starter[t] = "new"
        /\ \A r \in Runs : pc[t][r] = "idle"
        /\ undone = {} /\ hook = {} /\ phase = "open"
    BY DEF Init
  <2> USE DEF Status, IsTerminal, IsActive, Terminal, LiveRunner, Using, Publishing
  <2>2. StartInv(t) /\ PhaseInv(t) /\ UserInv(t)
    BY <2>1 DEF StartInv, PhaseInv, UserInv
  <2>3. PublishInv(t) /\ SuccessInv(t) /\ SettleInv(t)
    BY <2>1 DEF PublishInv, SuccessInv, SettleInv
  <2>4. GrantInv(t) /\ ToldInv(t)
    BY <2>1 DEF GrantInv, ToldInv
  <2> QED
    BY <2>2, <2>3, <2>4 DEF TaskInv
<1> QED
  BY <1>1, <1>2, <1>3 DEF IInv, TasksInvs

\* The invariant holds in every state, whatever coroutines, callers, crashes and restarts do.
THEOREM Invariance == Spec => []IInv
  BY InitStep, NextStep, PTL DEF Spec

\* The row of a task agrees with its coroutines, its runner, its result and its grant in
\* every order of settlement, cancellation, kill, shutdown and restart (_settle_tool_result,
\* mark_cancelled, _recover_persisted_tasks).
THEOREM TasksConsistent == Spec => []TasksInv
<1>1. ASSUME IInv
      PROVE  TasksInv
  <2>0. TypeOK /\ \A t \in Tasks : TaskInv(t)
    BY <1>1 DEF IInv, TasksInvs
  <2>1. RunningHasRun
    BY <2>0 DEF RunningHasRun, TaskInv, SettleInv, Live, Settling, Using
  <2>2. NoLeakedResult
    <3> SUFFICES ASSUME NEW t \in Tasks, result[t] # "none"
                 PROVE  Status(t) = "succeeded" \/ Live(t) \/ t \in unwired
      BY DEF NoLeakedResult
    <3>1. CASE result[t] = "runner"
      BY <2>0, <3>1 DEF TaskInv, PublishInv, Live
    <3>2. CASE result[t] = "task"
      BY <2>0, <3>2 DEF TaskInv, PublishInv, Publishing, Live
    <3> QED
      BY <2>0, <3>1, <3>2 DEF TypeOK
  <2>3. SuccessHasResult
    BY <2>0 DEF SuccessHasResult, TaskInv, SuccessInv
  <2>4. RunnerEndsWithTask
    BY <2>0 DEF RunnerEndsWithTask, TaskInv, SettleInv
  <2>5. GrantIsAtomic
    BY <2>0 DEF GrantIsAtomic, TaskInv, GrantInv, Live
  <2> QED
    BY <2>0, <2>1, <2>2, <2>3, <2>4, <2>5 DEF TasksInv
<1> QED
  BY <1>1, Invariance, PTL

\* No outcome is told twice, and a slot that says "delivered" stands for the message of the
\* row's own outcome (begin_phase, notify, retry_terminal).
THEOREM OutcomeToldOnce == Spec => []ToldOnce
<1>1. ASSUME IInv
      PROVE  ToldOnce
  BY <1>1 DEF IInv, TasksInvs, TaskInv, ToldInv, ToldOnce
<1> QED
  BY <1>1, Invariance, PTL

\* What a step may do to a row that has its outcome.
OutcomeKept(t) ==
    IsTerminal(t) =>
        \/ Status(t)' = Status(t)
        \/ phase = "results" /\ Status(t) = "succeeded" /\ Status(t)' = "unavailable"

\* A row that is not written, or was not terminal, keeps its outcome.
LEMMA KeptElsewhere ==
    ASSUME NEW u \in Tasks, \A t \in Tasks : t # u => task'[t] = task[t],
           \/ task'[u].status = task[u].status
           \/ ~IsTerminal(u)
    PROVE  \A t \in Tasks : OutcomeKept(t)
  BY DEF OutcomeKept, Status

\* No step takes an outcome back: not a late coroutine, not a cancellation that lost, not a
\* reader, not a shutdown; a startup may, when the result is gone.
LEMMA OutcomeStep ==
    ASSUME IInv, [Next]_vars
    PROVE  \A t \in Tasks : OutcomeKept(t)
<1>0. TypeOK /\ \A t \in Tasks : TaskInv(t)
  BY DEF IInv, TasksInvs
<1>00. ASSUME UNCHANGED task
       PROVE  \A t \in Tasks : OutcomeKept(t)
  BY <1>00 DEF OutcomeKept, Status
<1>01. ASSUME NEW u \in Tasks, Notified(u)
       PROVE  \A t \in Tasks : OutcomeKept(t)
  BY <1>0, <1>01, NotifiedRow, KeptElsewhere DEF TaskInv
<1>02. ASSUME NEW u \in Tasks, NEW s, Becomes(u, s), ~IsTerminal(u)
       PROVE  \A t \in Tasks : OutcomeKept(t)
  BY <1>0, <1>02, BecomesSays, KeptElsewhere DEF RowSays
<1>1. ASSUME NEW u \in Tasks, NEW r \in Runs, MarkRunning(u, r)
      PROVE  \A t \in Tasks : OutcomeKept(t)
  <2>1. CASE UNCHANGED task
    BY <2>1, <1>00
  <2>2. CASE ~IsTerminal(u) /\ task' = [task EXCEPT ![u].status = "running"]
    <3>1. \A t \in Tasks : t # u => task'[t] = task[t]
      BY <1>0, <2>2 DEF TypeOK
    <3> QED
      BY <2>2, <3>1, KeptElsewhere
  <2> QED
    BY <1>1, <2>1, <2>2 DEF MarkRunning
<1>2. ASSUME NEW u \in Tasks, NEW r \in Runs, MarkWaiting(u, r)
      PROVE  \A t \in Tasks : OutcomeKept(t)
  BY <1>00, <1>02, <1>2 DEF MarkWaiting
<1>3. ASSUME NEW u \in Tasks, NEW r \in Runs, NotifyWaiting(u, r)
      PROVE  \A t \in Tasks : OutcomeKept(t)
  <2>1. CASE UNCHANGED task
    BY <2>1, <1>00
  <2>2. CASE task' = [task EXCEPT ![u].notice = Outcome(u)]
    <3>1. /\ \A t \in Tasks : t # u => task'[t] = task[t]
          /\ task'[u].status = task[u].status
      BY <1>0, <2>2 DEF TypeOK
    <3> QED
      BY <3>1, KeptElsewhere
  <2> QED
    BY <1>3, <2>1, <2>2 DEF NotifyWaiting
<1>4. ASSUME NEW u \in Tasks, NEW r \in Runs, RecordSuccess(u, r)
      PROVE  \A t \in Tasks : OutcomeKept(t)
  <2>1. ~IsTerminal(u)
    BY <1>0, <1>4 DEF RecordSuccess, TaskInv, SuccessInv
  <2> QED
    BY <1>02, <1>4, <2>1 DEF RecordSuccess
<1>5. ASSUME NEW u \in Tasks, NEW r \in Runs, RecordGrantedSuccess(u, r)
      PROVE  \A t \in Tasks : OutcomeKept(t)
  <2>1. ~IsTerminal(u)
    BY <1>0, <1>5 DEF RecordGrantedSuccess, TaskInv, SuccessInv
  <2>2. CASE Becomes(u, "succeeded")
    BY <1>02, <2>1, <2>2
  <2>3. CASE task' = [task EXCEPT ![u].status = "succeeded", ![u].notice = Outcome(u)]
    <3>1. \A t \in Tasks : t # u => task'[t] = task[t]
      BY <1>0, <2>3 DEF TypeOK
    <3> QED
      BY <2>1, <3>1, KeptElsewhere
  <2> QED
    BY <1>5, <2>2, <2>3 DEF RecordGrantedSuccess
<1>6. ASSUME NEW u \in Tasks, NEW r \in Runs, NotifyEnd(u, r)
      PROVE  \A t \in Tasks : OutcomeKept(t)
  BY <1>01, <1>6 DEF NotifyEnd
<1>7. ASSUME NEW u \in Tasks, NEW r \in Runs, MarkFailed(u, r)
      PROVE  \A t \in Tasks : OutcomeKept(t)
  BY <1>00, <1>02, <1>7 DEF MarkFailed, Fails
<1>8. ASSUME NEW u \in Tasks, Insert(u)
      PROVE  \A t \in Tasks : OutcomeKept(t)
  <2>1. ~IsTerminal(u)
    BY <1>0, <1>8 DEF Insert, TaskInv, StartInv, IsTerminal, Terminal
  <2>2. \A t \in Tasks : t # u => task'[t] = task[t]
    BY <1>0, <1>8 DEF Insert, TypeOK
  <2> QED
    BY <2>1, <2>2, KeptElsewhere
<1>9. ASSUME NEW u \in Tasks, AbortHandOff(u)
      PROVE  \A t \in Tasks : OutcomeKept(t)
  BY <1>00, <1>02, <1>9 DEF AbortHandOff
<1>10. ASSUME NEW u \in Tasks, NotifyOwed(u) \/ RetryNotice(u) \/ RecoverNotice(u)
       PROVE  \A t \in Tasks : OutcomeKept(t)
  BY <1>01, <1>10 DEF NotifyOwed, RetryNotice, RecoverNotice
<1>11. ASSUME NEW u \in Tasks, ResumeDecided(u)
       PROVE  \A t \in Tasks : OutcomeKept(t)
  BY <1>00, <1>02, <1>11 DEF ResumeDecided, Fails
<1>12. ASSUME NEW u \in Tasks, IsActive(u), NEW s, Becomes(u, s)
       PROVE  \A t \in Tasks : OutcomeKept(t)
  <2>1. ~IsTerminal(u)
    BY <1>12 DEF IsActive, IsTerminal, Active, Terminal
  <2> QED
    BY <1>02, <1>12, <2>1
<1>13. ASSUME NEW u \in Tasks, Refresh(u) \/ ShutdownCancels(u) \/ RecoverActive(u)
       PROVE  \A t \in Tasks : OutcomeKept(t)
  BY <1>12, <1>13 DEF Refresh, ShutdownCancels, RecoverActive
<1>14. ASSUME NEW u \in Tasks, Cancel(u)
       PROVE  \A t \in Tasks : OutcomeKept(t)
  <2>1. ~IsTerminal(u)
    BY <1>14 DEF Cancel, MayCancel, IsActive, IsTerminal, Active, Terminal
  <2>2. \A t \in Tasks : t # u => task'[t] = task[t]
    BY <1>0, <1>14 DEF Cancel, TypeOK
  <2> QED
    BY <2>1, <2>2, KeptElsewhere
<1>15. ASSUME NEW u \in Tasks, RecoverResult(u)
       PROVE  \A t \in Tasks : OutcomeKept(t)
  <2>1. RowSays(u, "unavailable", "none") /\ phase = "results" /\ Status(u) = "succeeded"
    BY <1>0, <1>15, BecomesSays DEF RecoverResult
  <2> QED
    BY <2>1 DEF OutcomeKept, RowSays, Status
<1>16. ASSUME NEW u \in Tasks, NEW tool \in Tools, NEW wanted \in {"none", "wanted"},
              Spawn(u, tool, wanted)
       PROVE  \A t \in Tasks : OutcomeKept(t)
  <2>1. /\ \A t \in Tasks : t # u => task'[t] = task[t]
        /\ task'[u].status = task[u].status
    BY <1>0, <1>16 DEF Spawn, TypeOK
  <2> QED
    BY <2>1, KeptElsewhere
<1>17. ASSUME NEW u \in Tasks, NEW r \in Runs,
              \/ Begin(u, r) \/ Cancelled(u, r) \/ SettleError(u, r) \/ TransferResult(u, r)
              \/ WireResult(u, r) \/ WiringRaises(u, r) \/ ExitRunner(u, r) \/ GrantRaises(u, r)
              \/ HandleFailure(u, r) \/ Finish(u, r) \/ Forget(u, r) \/ Tool(u, r)
       PROVE  \A t \in Tasks : OutcomeKept(t)
  <2>1. UNCHANGED task
    BY <1>17 DEF Begin, Cancelled, SettleError, TransferResult, WireResult, WiringRaises,
       ExitRunner, GrantRaises, HandleFailure, Finish, Forget, Tool, ToolReturns, ToolFails,
       ToolWaits, rows
  <2> QED
    BY <1>00, <2>1
<1>18. ASSUME NEW u \in Tasks,
              \/ RefuseInsert(u) \/ HandOff(u) \/ RunHook(u) \/ ReconcileMail(u)
              \/ ConditionMet(u) \/ KillRunner(u)
              \/ \E verdict \in {"met", "refused"} : HumanDecides(u, verdict)
              \/ \E how \in {"open", "refuses", "ended"} : RecipientChanges(u, how)
       PROVE  \A t \in Tasks : OutcomeKept(t)
  <2>1. UNCHANGED task
    BY <1>18 DEF RefuseInsert, HandOff, RunHook, ReconcileMail, ConditionMet, KillRunner,
       HumanDecides, RecipientChanges, rows
  <2> QED
    BY <1>00, <2>1
<1>19. ASSUME BeginShutdown \/ Close \/ Crash \/ Reopen \/ NextPass \/ Rest \/ UNCHANGED vars
       PROVE  \A t \in Tasks : OutcomeKept(t)
  <2>1. UNCHANGED task
    BY <1>19 DEF BeginShutdown, Close, Crash, Forgotten, Reopen, NextPass, Rest, rows, vars
  <2> QED
    BY <1>00, <2>1
<1> QED
  BY <1>1, <1>2, <1>3, <1>4, <1>5, <1>6, <1>7, <1>8, <1>9, <1>10, <1>11, <1>13, <1>14, <1>15,
     <1>16, <1>17, <1>18, <1>19
  DEF Next, Loop, Coroutine, Starting, Threads, Reads, Stopping, Startup, World

\* The first outcome of a task stands, against late results, cancellations and restarts; a
\* startup corrects a success whose result is gone (mark_failed, mark_cancelled,
\* _recover_missing_results).
THEOREM OutcomeStands == Spec => FirstOutcomeStands
<1>1. ASSUME IInv, [Next]_vars
      PROVE  [\A t \in Tasks :
                IsTerminal(t) =>
                    \/ Status(t)' = Status(t)
                    \/ phase = "results" /\ Status(t) = "succeeded"
                         /\ Status(t)' = "unavailable"]_vars
  BY <1>1, OutcomeStep DEF OutcomeKept
<1> QED
  BY <1>1, Invariance, PTL DEF Spec, FirstOutcomeStands

===============================================================================
