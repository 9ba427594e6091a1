---------------------------- MODULE TerminalCleanup ----------------------------
(***************************************************************************)
(* The durable cleanup that follows a terminal process status: a row of    *)
(* process_terminal_cleanups, inserted with the terminal status, claimed   *)
(* under a lease, worked off in phases and retried until completed.        *)
(*                                                                         *)
(* Threads of one Runtime contend for the striped in-memory locks and for  *)
(* the lock of the store, which a transaction holds from begin to commit.  *)
(* A thread that cancels an ObjectTask ends the runner process and cleans  *)
(* up after it inside its own transaction.  A crash loses the threads and  *)
(* the open transaction; the next Runtime sweeps the unfinished rows       *)
(* before it opens.                                                        *)
(***************************************************************************)
EXTENDS Naturals, FiniteSets

CONSTANTS
    Procs, Threads, NoThread, NoProc,
    Stripes, StripeOf,   \* the stripe that a pid hashes to
    MaxRetries,          \* bound on repeated terminal calls of the Host
    MaxCancels,          \* bound on ObjectTask cancellations
    MaxFaults,           \* bound on phases that raise and records that are lost
    MaxCrashes

ASSUME CleanupAssumption ==
    /\ NoThread \notin Threads /\ NoProc \notin Procs
    /\ StripeOf \in [Procs -> Stripes]
    /\ {MaxRetries, MaxCancels, MaxFaults, MaxCrashes} \subseteq Nat

VARIABLES
    cleanup,     \* table process_terminal_cleanups; "none" is no row: p is live
    effects,     \* phases whose effects have happened, per process
    thread,      \* what each thread has in memory
    stripe,      \* holder of each striped lock
    store,       \* holder of the store lock across an open transaction
    epoch,       \* the Runtime instance that is running
    mode,        \* "open", or "cleanups" during the startup sweep
    swept,       \* rows the startup sweep has attempted
    used

vars == <<cleanup, effects, thread, stripe, store, epoch, mode, swept, used>>

-------------------------------------------------------------------------------
(* Types *)

Phases == {"terminal_notify", "process_finalize"}

\* The phases are attempted in this order.
Before(ph) == IF ph = "process_finalize" THEN {"terminal_notify"} ELSE {}

\* The lease of a claim is the number of the attempt.
Cleanups == [state : {"none", "pending", "running", "failed", "completed"},
             done : SUBSET Phases, owner : Nat, attempts : Nat]
NoCleanup == [state |-> "none", done |-> {}, owner |-> 0, attempts |-> 0]
Pending == [NoCleanup EXCEPT !.state = "pending"]

\* todo: the phases still to attempt; failed: those that raised; txn: the thread
\* holds an open transaction around the cleanup.
ThreadStates ==
    [pc : {"idle", "call", "locked", "phases", "mark", "commit"}, pid : Procs \cup {NoProc},
     lease : Nat, todo : SUBSET Phases, failed : SUBSET Phases, txn : BOOLEAN]
IdleThread == [pc |-> "idle", pid |-> NoProc, lease |-> 0, todo |-> {}, failed |-> {},
               txn |-> FALSE]

TypeOK ==
    /\ cleanup \in [Procs -> Cleanups]
    /\ effects \in [Procs -> SUBSET Phases]
    /\ thread \in [Threads -> ThreadStates]
    /\ stripe \in [Stripes -> Threads \cup {NoThread}]
    /\ store \in Threads \cup {NoThread}
    /\ epoch \in Nat
    /\ mode \in {"open", "cleanups"}
    /\ swept \subseteq Procs
    /\ used \in [retries : Nat, cancels : Nat, faults : Nat, crashes : Nat]

Init ==
    /\ cleanup = [p \in Procs |-> NoCleanup]
    /\ effects = [p \in Procs |-> {}]
    /\ thread = [t \in Threads |-> IdleThread]
    /\ stripe = [s \in Stripes |-> NoThread]
    /\ store = NoThread
    /\ epoch = 1
    /\ mode = "open"
    /\ swept = {}
    /\ used = [retries |-> 0, cancels |-> 0, faults |-> 0, crashes |-> 0]

-------------------------------------------------------------------------------
(* Calls of retry_terminal_cleanup *)

Open == mode = "open"
Idle(t) == thread[t].pc = "idle"

\* A transaction of thread t can run now.
StoreFree(t) == store \in {NoThread, t}

Calls(t, p, txn) ==
    thread' = [thread EXCEPT ![t] = [IdleThread EXCEPT !.pc = "call", !.pid = p, !.txn = txn]]

\* A signal, an exit, a kill or a failed task: the terminal status and the pending
\* row commit together; the same thread then calls the cleanup.
EndProcess(t, p) ==
    /\ Open /\ Idle(t) /\ StoreFree(t)
    /\ cleanup[p].state = "none"
    /\ cleanup' = [cleanup EXCEPT ![p] = Pending]
    /\ Calls(t, p, FALSE)
    /\ UNCHANGED <<effects, stripe, store, epoch, mode, swept, used>>

\* A repeated cancel, terminate or exit of a terminal process retries.
RetryCall(t, p) ==
    /\ Open /\ Idle(t) /\ StoreFree(t)
    /\ cleanup[p].state \notin {"none", "completed"}
    /\ used.retries < MaxRetries
    /\ used' = [used EXCEPT !.retries = @ + 1]
    /\ Calls(t, p, FALSE)
    /\ UNCHANGED <<cleanup, effects, stripe, store, epoch, mode, swept>>

\* ObjectTask cancellation: the runner is ended, and cleaned up, inside the
\* transaction of mark_cancelled, which keeps the store lock.
CancelTask(t, p) ==
    /\ Open /\ Idle(t) /\ store = NoThread
    /\ cleanup[p].state = "none"
    /\ used.cancels < MaxCancels
    /\ used' = [used EXCEPT !.cancels = @ + 1]
    /\ store' = t
    /\ cleanup' = [cleanup EXCEPT ![p] = Pending]
    /\ Calls(t, p, TRUE)
    /\ UNCHANGED <<effects, stripe, epoch, mode, swept>>

-------------------------------------------------------------------------------
(* retry_terminal_cleanup *)

\* The call returns or raises: the lock of the stripe is released, and a thread
\* inside a cancellation goes on to commit.
Return(t) ==
    /\ stripe' = [stripe EXCEPT ![StripeOf[thread[t].pid]] = NoThread]
    /\ thread' = [thread EXCEPT ![t] =
                    IF @.txn THEN [IdleThread EXCEPT !.pc = "commit", !.pid = thread[t].pid,
                                                     !.txn = TRUE]
                    ELSE IdleThread]

\* _terminal_cleanup_lock.
Acquire(t) ==
    LET s == StripeOf[thread[t].pid] IN
    /\ thread[t].pc = "call"
    /\ stripe[s] = NoThread
    /\ stripe' = [stripe EXCEPT ![s] = t]
    /\ thread' = [thread EXCEPT ![t].pc = "locked"]
    /\ UNCHANGED <<cleanup, effects, store, epoch, mode, swept, used>>

\* A running row of another Runtime is refused, except by the startup sweep.
ClaimRefused(p) ==
    cleanup[p].state = "running" /\ Open /\ cleanup[p].owner # epoch

\* Mutant: every phase is attempted again.
RemainingAll(c) == Phases

\* claim_process_terminal_cleanup: a fresh lease replaces whatever lease the row
\* had; the phases already completed are not attempted again.
ClaimedRow(c) ==
    [state |-> "running", done |-> c.done, owner |-> epoch, attempts |-> c.attempts + 1]
Remaining(c) == Phases \ c.done

Claim(t) ==
    LET p == thread[t].pid IN
    /\ thread[t].pc = "locked" /\ StoreFree(t)
    /\ IF cleanup[p].state = "completed" \/ ClaimRefused(p)
         THEN Return(t) /\ UNCHANGED cleanup
         ELSE /\ cleanup' = [cleanup EXCEPT ![p] = ClaimedRow(@)]
              /\ thread' = [thread EXCEPT ![t] =
                              [@ EXCEPT !.pc = "phases", !.lease = cleanup[p].attempts + 1,
                                        !.todo = Remaining(cleanup[p])]]
              /\ UNCHANGED stripe
    /\ UNCHANGED <<effects, store, epoch, mode, swept, used>>

\* The next phase of thread t.
Current(t, ph) == ph \in thread[t].todo /\ Before(ph) \cap thread[t].todo = {}

\* Mutant: what a phase raises is swallowed, and the phase counts as run.
RunPhaseSwallowed(t, ph, raises) ==
    /\ thread[t].pc = "phases" /\ StoreFree(t)
    /\ Current(t, ph)
    /\ raises => used.faults < MaxFaults
    /\ used' = IF raises THEN [used EXCEPT !.faults = @ + 1] ELSE used
    /\ thread' = [thread EXCEPT ![t].pc = "mark"]
    /\ effects' = IF raises THEN effects
                  ELSE [effects EXCEPT ![thread[t].pid] = @ \cup {ph}]
    /\ UNCHANGED <<cleanup, stripe, store, epoch, mode, swept>>

\* The effects of a phase happen; it may also raise, before or after them.
RunPhase(t, ph, raises) ==
    LET p == thread[t].pid IN
    /\ thread[t].pc = "phases" /\ StoreFree(t)
    /\ Current(t, ph)
    /\ raises => used.faults < MaxFaults
    /\ IF raises
         THEN /\ used' = [used EXCEPT !.faults = @ + 1]
              /\ thread' = [thread EXCEPT ![t].todo = @ \ {ph}, ![t].failed = @ \cup {ph}]
              /\ effects' \in {effects, [effects EXCEPT ![p] = @ \cup {ph}]}
         ELSE /\ thread' = [thread EXCEPT ![t].pc = "mark"]
              /\ effects' = [effects EXCEPT ![p] = @ \cup {ph}]
              /\ UNCHANGED used
    /\ UNCHANGED <<cleanup, stripe, store, epoch, mode, swept>>

\* The row still carries the lease that thread t claimed.
HasLease(t) ==
    LET c == cleanup[thread[t].pid] IN c.state = "running" /\ c.attempts = thread[t].lease

\* complete_process_terminal_cleanup_phase: without the lease the phase failed.
MarkPhase(t, ph) ==
    /\ thread[t].pc = "mark" /\ StoreFree(t)
    /\ Current(t, ph)
    /\ IF HasLease(t)
         THEN /\ cleanup' = [cleanup EXCEPT ![thread[t].pid].done = @ \cup {ph}]
              /\ thread' = [thread EXCEPT ![t].pc = "phases", ![t].todo = @ \ {ph}]
         ELSE /\ UNCHANGED cleanup
              /\ thread' = [thread EXCEPT ![t].pc = "phases", ![t].todo = @ \ {ph},
                                          ![t].failed = @ \cup {ph}]
    /\ UNCHANGED <<effects, stripe, store, epoch, mode, swept, used>>

\* Mutant: the loop goes on until every phase is marked.
AttemptedUntilMarked(t) ==
    thread[t].pc = "phases" /\ StoreFree(t) /\ cleanup[thread[t].pid].done = Phases

\* All phases attempted: the row is completed, or records the failure.
Attempted(t) == thread[t].pc = "phases" /\ thread[t].todo = {} /\ StoreFree(t)

FinishCleanup(t) ==
    LET p == thread[t].pid IN
    /\ Attempted(t) /\ thread[t].failed = {}
    /\ cleanup' = IF HasLease(t) /\ cleanup[p].done = Phases
                    THEN [cleanup EXCEPT ![p].state = "completed", ![p].owner = 0]
                    ELSE cleanup
    /\ Return(t)
    /\ UNCHANGED <<effects, store, epoch, mode, swept, used>>

\* fail_process_terminal_cleanup; the record itself may be lost, which leaves the
\* row running under a lease that nobody holds.
FailCleanup(t, lost) ==
    LET p == thread[t].pid IN
    /\ Attempted(t) /\ thread[t].failed # {}
    /\ lost => used.faults < MaxFaults
    /\ used' = IF lost THEN [used EXCEPT !.faults = @ + 1] ELSE used
    /\ cleanup' = IF HasLease(t) /\ ~lost
                    THEN [cleanup EXCEPT ![p].state = "failed", ![p].owner = 0]
                    ELSE cleanup
    /\ Return(t)
    /\ UNCHANGED <<effects, store, epoch, mode, swept>>

\* The transaction of mark_cancelled commits.
CommitCancel(t) ==
    /\ thread[t].pc = "commit"
    /\ store' = NoThread
    /\ thread' = [thread EXCEPT ![t] = IdleThread]
    /\ UNCHANGED <<cleanup, effects, stripe, epoch, mode, swept, used>>

-------------------------------------------------------------------------------
(* Crash and the startup sweep *)

\* The open transaction, if any, is rolled back: its process is live again.
RolledBack(p) == \E t \in Threads : thread[t].txn /\ thread[t].pid = p

Crash ==
    /\ used.crashes < MaxCrashes
    /\ used' = [used EXCEPT !.crashes = @ + 1]
    /\ cleanup' = [p \in Procs |-> IF RolledBack(p) THEN NoCleanup ELSE cleanup[p]]
    /\ thread' = [t \in Threads |-> IdleThread]
    /\ stripe' = [s \in Stripes |-> NoThread]
    /\ store' = NoThread
    /\ epoch' = epoch + 1
    /\ mode' = "cleanups"
    /\ swept' = {}
    /\ effects' = [p \in Procs |-> IF RolledBack(p) THEN {} ELSE effects[p]]

\* Mutant: the page query skips rows nobody has claimed yet.
UnfinishedClaimed(p) == cleanup[p].state \in {"running", "failed"}

\* recover_terminal_cleanups: one attempt for every unfinished row, in turn.
Unfinished(p) == cleanup[p].state \notin {"none", "completed"}

Sweep(t, p) ==
    /\ mode = "cleanups"
    /\ \A u \in Threads : Idle(u)
    /\ p \notin swept /\ Unfinished(p)
    /\ swept' = swept \cup {p}
    /\ Calls(t, p, FALSE)
    /\ UNCHANGED <<cleanup, effects, stripe, store, epoch, mode, used>>

OpenRuntime ==
    /\ mode = "cleanups"
    /\ \A t \in Threads : Idle(t)
    /\ \A p \in Procs : Unfinished(p) => p \in swept
    /\ mode' = "open"
    /\ UNCHANGED <<cleanup, effects, thread, stripe, store, epoch, swept, used>>

-------------------------------------------------------------------------------
(* Specification *)

CleanupStep(t) ==
    \/ Acquire(t) \/ Claim(t)
    \/ \E ph \in Phases : MarkPhase(t, ph) \/ \E raises \in BOOLEAN : RunPhase(t, ph, raises)
    \/ FinishCleanup(t)
    \/ \E lost \in BOOLEAN : FailCleanup(t, lost)
    \/ CommitCancel(t)

Next ==
    \/ \E t \in Threads : CleanupStep(t)
    \/ \E t \in Threads, p \in Procs :
         EndProcess(t, p) \/ RetryCall(t, p) \/ CancelTask(t, p) \/ Sweep(t, p)
    \/ OpenRuntime
    \/ Crash

Spec == Init /\ [][Next]_vars

\* A thread inside the cleanup goes on when its locks let it (strong fairness: a
\* lock that is free again and again is acquired at last); the sweep goes on.
Fairness ==
    /\ \A t \in Threads : SF_vars(CleanupStep(t))
    /\ WF_vars(\E t \in Threads, p \in Procs : Sweep(t, p))
    /\ WF_vars(OpenRuntime)

FairSpec == Spec /\ Fairness

-------------------------------------------------------------------------------
(* Properties *)

\* A phase is marked only after its effects, and a completed row has both: no
\* crash, lost record or takeover of a lease lets a phase be skipped
\* (complete_process_terminal_cleanup_phase, finish_process_terminal_cleanup).
MarkedIsDone ==
    \A p \in Procs :
      /\ cleanup[p].done \subseteq effects[p]
      /\ cleanup[p].state = "completed" => cleanup[p].done = Phases

\* A thread that works on a row holds the lease that the row names, so two
\* threads never run the phases of one process at the same time, whatever
\* stripes they share (_terminal_cleanup_lock, claim_process_terminal_cleanup).
CleanerHasLease ==
    \A t \in Threads : thread[t].pc \in {"phases", "mark"} =>
      /\ HasLease(t)
      /\ stripe[StripeOf[thread[t].pid]] = t

\* An open Runtime never finds a running row of an earlier Runtime, which every
\* retry would refuse: the startup sweep has taken each of them over
\* (recover_terminal_cleanups with _recover_stale).
NoForeignLease ==
    Open => \A p \in Procs : cleanup[p].state = "running" => cleanup[p].owner = epoch

\* No intent is forgotten: in an open Runtime a pending row has a thread on its
\* way to it.  The thread may wait for a lock, but it is not gone.
PendingIsOwed ==
    Open => \A p \in Procs : cleanup[p].state = "pending" =>
              \E t \in Threads : thread[t].pid = p /\ thread[t].pc \in {"call", "locked"}

\* Progress is durable: a marked phase stays marked and is never run again, as the
\* docs promise its callees, and a completed row stays completed, across retries,
\* crashes, takeovers of the lease and the sweep.  Only the rollback of the
\* transaction that inserted the row takes anything back
\* (complete_process_terminal_cleanup_phase).
MarksStand ==
    [][/\ \A p \in Procs :
            \/ cleanup[p].done \subseteq cleanup'[p].done
               /\ (cleanup[p].state = "completed" => cleanup'[p] = cleanup[p])
            \/ RolledBack(p) /\ cleanup'[p] = NoCleanup
       /\ \A t \in Threads : \A ph \in Phases, raises \in BOOLEAN :
            RunPhase(t, ph, raises) => ph \notin cleanup[thread[t].pid].done]_vars

\* Every terminal process gets its cleanup attempted: a pending row is claimed,
\* by the thread that ended the process or by the next Runtime.
PendingIsAttempted ==
    \A p \in Procs : cleanup[p].state = "pending" ~> cleanup[p].state # "pending"

\* What docs/runtime_model.md says of a claimed cleanup: all its unfinished phases
\* are attempted, so the claim comes to an end.
PhasesAttempted ==
    \A t \in Threads : thread[t].pc \in {"phases", "mark"} ~> thread[t].pc \notin {"phases", "mark"}

\* The rows and their threads fit together: one leaseholder per process, of this
\* Runtime, and a thread for every pending row (claim_process_terminal_cleanup,
\* recover_terminal_cleanups).
RowsInv == TypeOK /\ CleanerHasLease /\ NoForeignLease /\ PendingIsOwed

\* Every restart gets through its sweep, whatever it takes over: a row claimed by the
\* dead Runtime, a row nobody claimed, phases that fail again
\* (recover_terminal_cleanups).
SweepEnds == mode = "cleanups" ~> Open

\* A cleanup can wait in vain for one thing only, the transaction of a cancellation
\* that never ends (CleanupDeadlock.cfg has one).  As long as transactions end, a
\* pending row is claimed and a claim ends, also when all pids share a stripe and
\* cleaners of different processes wait for one another (_run_terminal_cleanup).
OnlyCancelStalls == <>[](store # NoThread) \/ (PendingIsAttempted /\ PhasesAttempted)

\* The liveness of the cleanup: the sweep of a restart ends, and in between nothing
\* but the store lock stops a cleanup (recover_terminal_cleanups,
\* _run_terminal_cleanup).
CleanupEnds == SweepEnds /\ OnlyCancelStalls

===============================================================================
