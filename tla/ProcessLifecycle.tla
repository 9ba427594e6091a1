--------------------------- MODULE ProcessLifecycle ---------------------------
(***************************************************************************)
(* The life of the processes of one Agent libOS store: launch, scheduling  *)
(* quanta under execution tokens, waiting for a child, signals, exit,      *)
(* resource kills, failures of scheduler tasks, and a crash of the Runtime *)
(* with the recovery that the next one runs before it opens.               *)
(*                                                                         *)
(* A store transaction is one step.  What a thread keeps in memory between *)
(* two transactions (its token, a launch in progress, a kill that is still *)
(* to be finalized) is state, and a crash loses it.  The durable cleanup   *)
(* that follows a terminal status changes no process row; TerminalCleanup  *)
(* models it.                                                              *)
(***************************************************************************)
EXTENDS Naturals

CONSTANTS
    Procs,        \* process ids
    Root,         \* the process that exists from the start
    NoProc,       \* "parent_pid IS NULL"
    Workers,      \* threads that run quanta
    NoWorker,
    MaxQuanta,    \* bound on execution claims
    MaxHost,      \* bound on operations the Host starts
    MaxSignals,   \* bound on signals sent by parents
    MaxCrashes,   \* bound on crashes of the Runtime
    MaxFaults     \* bound on quanta that raise

ASSUME LifecycleAssumption ==
    /\ Root \in Procs
    /\ NoProc \notin Procs
    /\ NoWorker \notin Workers
    /\ {MaxQuanta, MaxHost, MaxSignals, MaxCrashes, MaxFaults} \subseteq Nat

INSTANCE ProcessTable WITH Subjects <- Procs, Holders <- Workers, NoHolder <- NoWorker

VARIABLES
    row,          \* table processes
    parent,       \* column parent_pid
    launch,       \* table runtime_publications: the launch of each process
    reserved,     \* table process_resource_reservations: children with a row
    worker,       \* what each worker thread has in memory
    limitKilled,  \* processes killed by a limit, still to be finalized
    epoch,        \* the Runtime instance (owner id) that is running
    mode,         \* "open", or the startup recovery stage
    used          \* how much of each bound is used

stored  == <<row, parent, launch, reserved>>
threads == <<worker, limitKilled>>
runtime == <<epoch, mode>>
vars    == <<row, parent, launch, reserved, worker, limitKilled, epoch, mode, used>>

-------------------------------------------------------------------------------
(* Types *)

Launches ==
    [state : {"none", "planning", "applying", "committed", "rolled_back"},
     sgen : Nat, status : Statuses]
NoLaunch == [state |-> "none", sgen |-> 0, status |-> "absent"]

\* pc: idle, inside the quantum callable, inside a failed exit that terminates
\* descendants, in the finally that settles the quantum, or in _fail_process_task.
WorkerStates ==
    [pc : {"idle", "quantum", "exiting", "settle", "failing"}, pid : Procs \cup {NoProc},
     gen : Nat, owner : Nat, busy : Procs \cup {NoProc}, err : BOOLEAN]
IdleWorker == [pc |-> "idle", pid |-> NoProc, gen |-> 0, owner |-> NoOwner,
               busy |-> NoProc, err |-> FALSE]

Modes == {"open", "launches", "executions"}

Bounds == [quanta : Nat, host : Nat, signals : Nat, crashes : Nat, faults : Nat]

TypeOK ==
    /\ row \in [Procs -> Rows]
    /\ parent \in [Procs -> Procs \cup {NoProc}]
    /\ launch \in [Procs -> Launches]
    /\ reserved \subseteq Procs
    /\ worker \in [Workers -> WorkerStates]
    /\ limitKilled \subseteq Procs
    /\ epoch \in Nat \ {NoOwner}
    /\ mode \in Modes
    /\ used \in Bounds

Init ==
    /\ row = [p \in Procs |-> IF p = Root
                                THEN Transition(InsertProcess, "runnable", NoWait, "none")
                                ELSE AbsentRow]
    /\ parent = [p \in Procs |-> NoProc]
    /\ launch = [p \in Procs |-> NoLaunch]
    /\ reserved = {}
    /\ worker = [w \in Workers |-> IdleWorker]
    /\ limitKilled = {}
    /\ epoch = 1
    /\ mode = "open"
    /\ used = [quanta |-> 0, host |-> 0, signals |-> 0, crashes |-> 0, faults |-> 0]

-------------------------------------------------------------------------------
(* The process tree *)

\* A set that has the children of its members.
Closed(S) == \A c \in Procs : parent[c] \in S => c \in S

\* What the walk of _descendant_tree collects from p: p, its children, theirs, and so
\* on, which is the least such set with p in it.
Below(p) == {d \in Procs : \A S \in SUBSET Procs : p \in S /\ Closed(S) => d \in S}

\* _descendant_tree without its root.
Descendants(p) == {d \in Below(p) \ {p} : Exists(row[d])}

LiveDescendants(p) == {d \in Descendants(p) : Live(row[d])}

\* _wake_parent_waiting_on_child, on the rows rs, for child c.
WaitsForChild(rs, p, c) ==
    /\ rs[p].status = "waiting_event"
    /\ rs[p].wait = [kind |-> "child", on |-> {c}]

WakeParent(rs, c) ==
    [p \in Procs |-> IF parent[c] = p /\ WaitsForChild(rs, p, c)
                       THEN WakeRow(rs[p]) ELSE rs[p]]

-------------------------------------------------------------------------------
(* Quanta *)

Open == mode = "open"

Token(w) == [gen |-> worker[w].gen, owner |-> worker[w].owner, lease |-> w]

\* The token that worker w is bound to still owns its process.
Owns(w) == worker[w].pid # NoProc /\ TokenCurrent(row[worker[w].pid], Token(w))

InQuantum(w) == Open /\ worker[w].pc = "quantum" /\ worker[w].busy = NoProc

ClaimExecution(w, p) ==
    /\ Open
    /\ worker[w].pc = "idle"
    /\ row[p].status = "runnable"
    /\ used.quanta < MaxQuanta
    /\ row' = [row EXCEPT ![p] = ClaimRow(@, epoch, w)]
    /\ worker' = [worker EXCEPT ![w] =
                    [pc |-> "quantum", pid |-> p, gen |-> row[p].egen + 1,
                     owner |-> epoch, busy |-> NoProc, err |-> FALSE]]
    /\ used' = [used EXCEPT !.quanta = @ + 1]
    /\ UNCHANGED <<parent, launch, reserved, limitKilled, runtime>>

\* A worker leaves the quantum callable.
ToSettle(ws, err) ==
    [pc |-> "settle", pid |-> ws.pid, gen |-> ws.gen, owner |-> ws.owner,
     busy |-> ws.busy, err |-> err]

\* The quantum callable returns, or raises.
EndQuantum(w, raises) ==
    /\ InQuantum(w)
    /\ raises => used.faults < MaxFaults
    /\ worker' = [worker EXCEPT ![w] = ToSettle(@, raises)]
    /\ used' = IF raises THEN [used EXCEPT !.faults = @ + 1] ELSE used
    /\ UNCHANGED <<stored, limitKilled, runtime>>

\* The inner finally of _run_quantum: only the exact token restores RUNNABLE.
CompleteExecution(w) ==
    /\ Open
    /\ worker[w].pc = "settle"
    /\ row' = [row EXCEPT ![worker[w].pid] = CompleteRow(@, Token(w))]
    /\ worker' = [worker EXCEPT ![w] =
                    IF worker[w].err THEN [@ EXCEPT !.pc = "failing"] ELSE IdleWorker]
    /\ UNCHANGED <<parent, launch, reserved, limitKilled, runtime, used>>

\* Mutant: the failure path does not look whether the process is still live.
FailProcessTaskAlways(w) ==
    /\ Open
    /\ worker[w].pc = "failing"
    /\ worker' = [worker EXCEPT ![w] = IdleWorker]
    /\ row' = [row EXCEPT ![worker[w].pid] =
                 Transition(@, "failed", NoWait, "scheduler_task_failed")]
    /\ UNCHANGED <<parent, launch, reserved, limitKilled, runtime, used>>

\* _fail_process_task: a process that is still live becomes FAILED, whoever runs
\* it by now.
FailProcessTask(w) ==
    LET p == worker[w].pid IN
    /\ Open
    /\ worker[w].pc = "failing"
    /\ worker' = [worker EXCEPT ![w] = IdleWorker]
    /\ IF Live(row[p])
         THEN row' = [row EXCEPT ![p] =
                        Transition(@, "failed", NoWait, "scheduler_task_failed")]
         ELSE UNCHANGED row
    /\ UNCHANGED <<parent, launch, reserved, limitKilled, runtime, used>>

-------------------------------------------------------------------------------
(* Waiting for a child *)

\* Mutant: the child is checked before the lock is taken.
WaitChildUnchecked(w, c) ==
    LET p == worker[w].pid
        wait == [kind |-> "child", on |-> {c}] IN
    /\ InQuantum(w)
    /\ Owns(w)
    /\ parent[c] = p
    /\ MayRegisterWait(row[p], wait)
    /\ row' = [row EXCEPT ![p] = Transition(@, "waiting_event", wait, "none")]
    /\ UNCHANGED <<parent, launch, reserved, threads, runtime, used>>

\* ProcessManager.wait by the process's own worker: under the store lock it sees
\* a live child and registers the wait.  A terminal child is delivered at once,
\* which leaves the process running.
WaitChild(w, c) ==
    LET p == worker[w].pid
        wait == [kind |-> "child", on |-> {c}] IN
    /\ InQuantum(w)
    /\ Owns(w)
    /\ parent[c] = p
    /\ Live(row[c])
    /\ MayRegisterWait(row[p], wait)
    /\ row' = [row EXCEPT ![p] = Transition(@, "waiting_event", wait, "none")]
    /\ UNCHANGED <<parent, launch, reserved, threads, runtime, used>>

\* The same call made by the Host, which holds no token: it parks a live parent
\* that has no other wait, and wakes one that waits for a terminal child.
HostWait(p, c) ==
    LET wait == [kind |-> "child", on |-> {c}] IN
    /\ Open
    /\ used.host < MaxHost
    /\ Exists(row[c]) /\ parent[c] = p
    /\ Live(row[p])
    /\ IF Live(row[c])
         THEN /\ MayRegisterWait(row[p], wait)
              /\ row' = [row EXCEPT ![p] = Transition(@, "waiting_event", wait, "none")]
         ELSE /\ WaitsForChild(row, p, c)
              /\ row' = [row EXCEPT ![p] = WakeRow(@)]
    /\ used' = [used EXCEPT !.host = @ + 1]
    /\ UNCHANGED <<parent, launch, reserved, threads, runtime>>

-------------------------------------------------------------------------------
(* Launching a child: a publication of three transactions *)

\* spawn_child admits a parent that is not terminal and remembers its status and
\* state_generation; the call keeps its worker busy until the launch resolves.
LaunchBegin(w, c) ==
    LET p == worker[w].pid IN
    /\ InQuantum(w)
    /\ Live(row[p])
    /\ ~Exists(row[c]) /\ launch[c].state = "none"    \* a fresh pid
    /\ launch' = [launch EXCEPT ![c] = [state |-> "planning", sgen |-> row[p].sgen,
                                        status |-> row[p].status]]
    /\ parent' = [parent EXCEPT ![c] = p]
    /\ worker' = [worker EXCEPT ![w].busy = c]
    /\ UNCHANGED <<row, reserved, limitKilled, runtime, used>>

\* The budget reservation and the "created" row.
LaunchInsert(w) ==
    LET c == worker[w].busy IN
    /\ Open
    /\ c # NoProc
    /\ launch[c].state = "planning"
    /\ reserved' = reserved \cup {c}
    /\ row' = [row EXCEPT ![c] = InsertProcess]
    /\ launch' = [launch EXCEPT ![c].state = "applying"]
    /\ UNCHANGED <<parent, threads, runtime, used>>

\* Mutant: the commit does not look at the parent again.
ParentUnfenced(p, c) == TRUE

\* _require_parent_launch_fence: the parent is as it was when the launch began.
ParentFence(p, c) ==
    /\ Live(row[p])
    /\ row[p].status = launch[c].status
    /\ row[p].sgen = launch[c].sgen

LaunchCommit(w) ==
    LET c == worker[w].busy
        p == worker[w].pid IN
    /\ Open
    /\ c # NoProc
    /\ launch[c].state = "applying"
    /\ ParentFence(p, c)
    /\ row[c].status = "created"
    /\ row' = [row EXCEPT ![c] = Transition(@, "runnable", NoWait, "none")]
    /\ launch' = [launch EXCEPT ![c] = [NoLaunch EXCEPT !.state = "committed"]]
    /\ worker' = [worker EXCEPT ![w].busy = NoProc]
    /\ UNCHANGED <<parent, reserved, limitKilled, runtime, used>>

\* delete_process_scaffold: the row, whatever its status has become, and with it
\* the reservations it takes part in and, by cascade, its cleanup row.
DeleteScaffold(c) ==
    /\ row' = [row EXCEPT ![c] = AbsentRow]
    /\ reserved' = {d \in reserved : d # c /\ parent[d] # c}
    /\ launch' = [launch EXCEPT ![c] = [NoLaunch EXCEPT !.state = "rolled_back"]]
    /\ parent' = [parent EXCEPT ![c] = NoProc]

\* Any phase of a launch may raise; the launch is then compensated.
LaunchRollback(w) ==
    LET c == worker[w].busy IN
    /\ Open
    /\ c # NoProc
    /\ DeleteScaffold(c)
    /\ worker' = [worker EXCEPT ![w].busy = NoProc]
    /\ UNCHANGED <<limitKilled, runtime, used>>

-------------------------------------------------------------------------------
(* Signals *)

\* The transition and, for a terminal one, the release of the child's budget
\* and the wake of its parent, in one transaction.
ApplySignal(p, sig) ==
    LET rs == [row EXCEPT ![p] = SignalRow(@, sig)] IN
    IF sig = "terminate"
      THEN /\ row' = WakeParent(rs, p)
           /\ reserved' = {d \in reserved : d # p /\ parent[d] # p}
      ELSE /\ row' = rs
           /\ UNCHANGED reserved

HostSignal(p, sig) ==
    /\ Open
    /\ used.host < MaxHost
    /\ SignalApplicable(row[p], sig, TRUE)
    /\ ApplySignal(p, sig)
    /\ used' = [used EXCEPT !.host = @ + 1]
    /\ UNCHANGED <<parent, launch, threads, runtime>>

\* signal_child runs under the parent's token but writes the child as trusted
\* control, so the write does not depend on that token being current.
SignalChild(w, c, sig) ==
    /\ InQuantum(w)
    /\ parent[c] = worker[w].pid
    /\ SignalApplicable(row[c], sig, FALSE)
    /\ used.signals < MaxSignals
    /\ ApplySignal(c, sig)
    /\ used' = [used EXCEPT !.signals = @ + 1]
    /\ UNCHANGED <<parent, launch, threads, runtime>>

-------------------------------------------------------------------------------
(* Exit *)

\* Mutant: the exit forgets to release the budget.
ExitWithoutRelease(p, failed) ==
    LET status == IF failed THEN "failed" ELSE "exited"
        rs == [row EXCEPT ![p] = Transition(@, status, NoWait, status)] IN
    /\ Live(row[p])
    /\ LiveDescendants(p) = {}
    /\ row' = WakeParent(rs, p)
    /\ UNCHANGED reserved

\* The transaction of ProcessManager.exit: it re-reads the descendants.
ExitTransaction(p, failed) ==
    LET status == IF failed THEN "failed" ELSE "exited"
        rs == [row EXCEPT ![p] = Transition(@, status, NoWait, status)] IN
    /\ Live(row[p])
    /\ LiveDescendants(p) = {}
    /\ row' = WakeParent(rs, p)
    /\ reserved' = {d \in reserved : d # p /\ parent[d] # p}

\* The process exits; its worker goes on to settle the quantum.
Exit(w, failed) ==
    /\ InQuantum(w) \/ (Open /\ worker[w].pc = "exiting" /\ failed)
    /\ Owns(w)
    /\ ExitTransaction(worker[w].pid, failed)
    /\ worker' = [worker EXCEPT ![w] = ToSettle(@, FALSE)]
    /\ UNCHANGED <<parent, launch, limitKilled, runtime, used>>

\* A failed exit first terminates the live descendants, deepest first, each in a
\* transaction of its own.
FailedExitBegin(w) ==
    /\ InQuantum(w)
    /\ Live(row[worker[w].pid])
    /\ LiveDescendants(worker[w].pid) # {}
    /\ worker' = [worker EXCEPT ![w].pc = "exiting"]
    /\ UNCHANGED <<stored, limitKilled, runtime, used>>

FailedExitTerminate(w, d) ==
    /\ Open
    /\ worker[w].pc = "exiting"
    /\ d \in LiveDescendants(worker[w].pid)
    /\ LiveDescendants(d) = {}
    /\ ApplySignal(d, "terminate")
    /\ UNCHANGED <<parent, launch, threads, runtime, used>>

\* The exit raises: another thread took the process over, or a descendant was
\* launched meanwhile.
FailedExitRaise(w) ==
    /\ Open
    /\ worker[w].pc = "exiting"
    /\ ~Owns(w) \/ LiveDescendants(worker[w].pid) # {}
    /\ worker' = [worker EXCEPT ![w].pc = "quantum"]
    /\ UNCHANGED <<stored, limitKilled, runtime, used>>

\* A failed exit that the Host calls terminates the live descendants in the same way;
\* the Host counts it when the exit itself commits.
HostExitTerminate(p, d) ==
    /\ Open
    /\ used.host < MaxHost
    /\ Live(row[p])
    /\ d \in LiveDescendants(p)
    /\ LiveDescendants(d) = {}
    /\ ApplySignal(d, "terminate")
    /\ UNCHANGED <<parent, launch, threads, runtime, used>>

\* ProcessManager.exit called by the Host, without a token.
HostExit(p, failed) ==
    /\ Open
    /\ used.host < MaxHost
    /\ ExitTransaction(p, failed)
    /\ used' = [used EXCEPT !.host = @ + 1]
    /\ UNCHANGED <<parent, launch, threads, runtime>>

-------------------------------------------------------------------------------
(* Resource limits *)

\* A charge made by the quantum, or when it settles, exceeds the budget of an
\* ancestor (or of the process): _persist_resource_limit_kill kills that whole
\* subtree in one transaction; what follows it is FinalizeKill.
ResourceLimitKill(w, owner) ==
    LET p == worker[w].pid
        killed == {q \in {owner} \cup Descendants(owner) : Live(row[q])} IN
    /\ Open
    /\ worker[w].pc \in {"quantum", "settle"} /\ worker[w].busy = NoProc
    /\ p \in {owner} \cup Descendants(owner)
    /\ Live(row[p])
    /\ row' = [q \in Procs |-> IF q \in killed
                                 THEN Transition(row[q], "killed", NoWait,
                                                 "resource_limit_exceeded")
                                 ELSE row[q]]
    /\ reserved' = {d \in reserved : d \notin killed /\ parent[d] \notin killed}
    /\ limitKilled' = limitKilled \cup killed
    /\ worker' = [worker EXCEPT ![w] = ToSettle(@, TRUE)]
    /\ UNCHANGED <<parent, launch, runtime, used>>

\* Mutant: the finalization does not wake the parent.
FinalizeKillSilently(p) ==
    /\ Open
    /\ p \in limitKilled
    /\ limitKilled' = limitKilled \ {p}
    /\ UNCHANGED <<row, parent, launch, reserved, worker, runtime, used>>

\* _finalize_resource_limit for one killed process, after that commit: it wakes
\* the parent in a transaction of its own.
FinalizeKill(p) ==
    /\ Open
    /\ p \in limitKilled
    /\ row' = WakeParent(row, p)
    /\ limitKilled' = limitKilled \ {p}
    /\ UNCHANGED <<parent, launch, reserved, worker, runtime, used>>

-------------------------------------------------------------------------------
(* Crash of the Runtime, and the recovery of the next one *)

\* Whatever the threads had in memory is gone.  The next Runtime has a new owner
\* id and recovers before it opens.
Crash ==
    /\ used.crashes < MaxCrashes
    /\ used' = [used EXCEPT !.crashes = @ + 1]
    /\ worker' = [w \in Workers |-> IdleWorker]
    /\ limitKilled' = {}
    /\ epoch' = epoch + 1
    /\ mode' = "launches"
    /\ UNCHANGED stored

Incomplete(c) == launch[c].state \in {"planning", "applying"}

\* recover_incomplete_publications compensates a launch that did not commit.
RecoverLaunch(c) ==
    /\ mode = "launches"
    /\ Incomplete(c)
    /\ DeleteScaffold(c)
    /\ UNCHANGED <<threads, runtime, used>>

\* recover_stale_executions.
RecoverExecution(p) ==
    /\ mode = "executions"
    /\ IsStaleExecution(row[p], epoch)
    /\ row' = [row EXCEPT ![p] = RecoverStaleRow(@)]
    /\ UNCHANGED <<parent, launch, reserved, threads, runtime, used>>

\* Mutant: the Runtime opens without waiting for the recovery of executions.
OpensEarly ==
    /\ \/ /\ mode = "launches" /\ mode' = "executions"
          /\ \A c \in Procs : ~Incomplete(c)
       \/ mode = "executions" /\ mode' = "open"
    /\ UNCHANGED <<stored, threads, epoch, used>>

\* The stages follow one another; the last one opens the Runtime.
NextStage ==
    /\ \/ /\ mode = "launches" /\ mode' = "executions"
          /\ \A c \in Procs : ~Incomplete(c)
       \/ /\ mode = "executions" /\ mode' = "open"
          /\ \A p \in Procs : ~IsStaleExecution(row[p], epoch)
    /\ UNCHANGED <<stored, threads, epoch, used>>

-------------------------------------------------------------------------------
(* Specification *)

WorkerStep(w) ==
    \/ \E raises \in BOOLEAN : EndQuantum(w, raises)
    \/ CompleteExecution(w)
    \/ FailProcessTask(w)
    \/ LaunchInsert(w) \/ LaunchCommit(w) \/ LaunchRollback(w)
    \/ FailedExitBegin(w) \/ FailedExitRaise(w)
    \/ \E failed \in BOOLEAN : Exit(w, failed)
    \/ \E p \in Procs :
         \/ ClaimExecution(w, p)
         \/ WaitChild(w, p)
         \/ LaunchBegin(w, p)
         \/ FailedExitTerminate(w, p)
         \/ ResourceLimitKill(w, p)
         \/ \E sig \in Signals : SignalChild(w, p, sig)

HostStep(p) ==
    \/ \E sig \in Signals : HostSignal(p, sig)
    \/ \E c \in Procs : HostWait(p, c) \/ HostExitTerminate(p, c)
    \/ \E failed \in BOOLEAN : HostExit(p, failed)

Next ==
    \/ \E w \in Workers : WorkerStep(w)
    \/ \E p \in Procs : HostStep(p) \/ FinalizeKill(p)
    \/ \E p \in Procs : RecoverLaunch(p) \/ RecoverExecution(p)
    \/ NextStage
    \/ Crash

Spec == Init /\ [][Next]_vars

\* A thread that is running goes on running.  A quantum makes finitely many calls
\* and returns (strong fairness: calls it makes may disable the return for a
\* while); a launch, an exit, a finalization and a recovery stage are
\* straight-line code on a live thread.  Nothing makes the Host act, a process
\* be claimed, or the Runtime crash.
Fairness ==
    /\ \A w \in Workers :
         /\ SF_vars(EndQuantum(w, FALSE))
         /\ WF_vars(CompleteExecution(w))
         /\ WF_vars(FailProcessTask(w))
         /\ WF_vars(LaunchInsert(w) \/ LaunchCommit(w) \/ LaunchRollback(w))
         /\ WF_vars(FailedExitRaise(w) \/ Exit(w, TRUE))
    /\ \A p \in Procs :
         WF_vars(FinalizeKill(p)) /\ WF_vars(RecoverLaunch(p)) /\ WF_vars(RecoverExecution(p))
    /\ WF_vars(NextStage)

FairSpec == Spec /\ Fairness

-------------------------------------------------------------------------------
(* Properties *)

\* Every row is in a state the store accepts: no interleaving of operations makes
\* one of them write a status with another status's wait, a wait on a row that is
\* not waiting, or an outcome on a live row (validate_process_state_fields, which
\* would make that operation raise).
StatesConsistent ==
    \A p \in Procs : ValidState(row[p].status, row[p].wait, row[p].code)

\* While the Runtime is open, a running row belongs to a worker thread that still
\* holds its exact token, so some thread will settle it: no interleaving of
\* takeovers, kills, failed quanta, crashes and recovery leaves a process RUNNING
\* with nobody running it (scheduler._run_quantum, recover_stale_executions).
RunningHasItsWorker ==
    Open => \A p \in Procs : row[p].status = "running" =>
              \E w \in Workers : worker[w].pid = p /\ Owns(w)

\* The bookkeeping of launches: a launch in progress is carried by one worker, in
\* the quantum of a parent, of the Runtime that began it; no row exists before its
\* insertion; nothing of a crashed Runtime's threads survives into recovery
\* (_begin_controlled_launch, recover_incomplete_publications).
LaunchesOwned ==
    /\ \A w \in Workers : IF worker[w].pc = "idle" THEN worker[w].pid = NoProc
                         ELSE Open /\ worker[w].pid \in Procs
    /\ \A w \in Workers : worker[w].busy # NoProc =>
         worker[w].pc = "quantum" /\ Incomplete(worker[w].busy)
    /\ \A w, v \in Workers :
         worker[w].busy # NoProc /\ worker[w].busy = worker[v].busy => w = v
    /\ \A c \in Procs : launch[c].state = "planning" => ~Exists(row[c])

\* A running row was claimed by this Runtime or an earlier one, and while the
\* Runtime recovers by an earlier one only: recovery mistakes no row for its own
\* (claim_execution, recover_stale_executions).
OwnersPast ==
    \A p \in Procs : row[p].status = "running" =>
      row[p].owner <= epoch /\ (~Open => row[p].owner # epoch)

HoldsToken(w) == worker[w].pc \in {"quantum", "exiting", "settle"}

\* Once a token is fenced off it stays fenced off while its worker keeps it: no
\* later claim of the same process makes it valid again (the execution tuple
\* that _process_update_fence and complete_execution compare).
FencedTokenStaysFenced ==
    [][\A w \in Workers :
         HoldsToken(w) /\ ~Owns(w) /\ HoldsToken(w)' => ~Owns(w)']_vars

\* A terminal row is final: no late signal, failed task, kill, wake or recovery
\* rewrites it.  It only disappears when the launch that created it did not
\* commit and is compensated (_process_update_fence, _fail_process_task).
TerminalIsFinal ==
    [][\A p \in Procs : Terminal(row[p]) =>
         row'[p] = row[p] \/ (Incomplete(p) /\ ~Exists(row'[p]))]_vars

\* A process behind a Host-resume gate leaves it only by an operation of the
\* Host, or by dying: no sequence of signals from its parent opens the gate
\* (_apply_signal with allow_host_resume=False).
HostGateHeld ==
    [][\A p \in Procs :
         row[p].wait.kind = "host_resume" /\ row'[p].wait.kind # "host_resume" =>
           \/ ~Live(row'[p])
           \/ used'.host = used.host + 1]_vars

\* The children whose death wakes nobody in its own transaction: the scheduler's
\* failure path and the compensation of a launch never do, and a limit kill does
\* so only in a later transaction that a crash can lose.
WakeOwed(c) ==
    \/ c \in limitKilled
    \/ launch[c].state = "rolled_back"
    \/ row[c].code = "scheduler_task_failed"
    \/ row[c].code = "resource_limit_exceeded" /\ used.crashes > 0

\* No lost wakeup: whoever waits for a child waits for one that can still end,
\* except where the wake is still owed.  Registration and the child's death
\* are ordered by the store lock (ProcessManager.wait, exit, signal).
NoStrandedParent ==
    \A p, c \in Procs :
      WaitsForChild(row, p, c) => Live(row[c]) \/ WakeOwed(c)

\* A process that exited left nothing running below it: a live descendant of an
\* exited process stands at or below a launch that has not committed
\* (ProcessManager.exit re-reads the descendants, _require_parent_launch_fence).
ExitedHasNoLiveDescendants ==
    \A p \in Procs : row[p].code \in {"exited", "failed"} =>
      \A d \in LiveDescendants(p) :
        \E q \in Descendants(p) : Incomplete(q) /\ (q = d \/ d \in Descendants(q))

\* The reservation table is exact: a child of a live parent has a reservation as
\* long as it lives, and no reservation outlives its child, except that of a
\* child that the scheduler failed (reserve_child_budget, release_child_budget).
ReservationsExact ==
    \A c \in Procs :
      /\ Live(row[c]) /\ parent[c] \in Procs /\ Live(row[parent[c]]) => c \in reserved
      /\ c \in reserved => Live(row[c]) \/ row[c].code = "scheduler_task_failed"

\* Every claimed quantum gives its process back: a running row leaves RUNNING,
\* through its worker or, after a crash, through recovery.
RunningIsLeft ==
    \A p \in Procs : row[p].status = "running" ~> row[p].status # "running"

\* A parent that waits for a child killed by a resource limit is woken, unless
\* the Runtime crashes first (_finalize_resource_limit).
LimitKillWakesParent ==
    \A p, c \in Procs :
      WaitsForChild(row, p, c) /\ c \in limitKilled
        ~> ~WaitsForChild(row, p, c) \/ used.crashes > 0

\* What docs/runtime_model.md says of every child: a terminal child does not
\* leave a stranded parent behind.
TerminalChildWakesParent ==
    \A p, c \in Procs :
      WaitsForChild(row, p, c) /\ Terminal(row[c]) ~> ~WaitsForChild(row, p, c)

\* The inductive invariant: a running row has its worker, in rows the store accepts,
\* because launches have one carrier and owners are past Runtimes
\* (claim_execution, _begin_controlled_launch, recover_stale_executions).
IInv ==
    /\ TypeOK
    /\ LaunchesOwned
    /\ StatesConsistent
    /\ OwnersPast
    /\ RunningHasItsWorker

===============================================================================
