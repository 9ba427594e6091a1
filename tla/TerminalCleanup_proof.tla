------------------------ MODULE TerminalCleanup_proof ------------------------
(***************************************************************************)
(* Proofs about TerminalCleanup, for every set of processes, threads and   *)
(* stripes, every hash of pids to stripes and every bound.                 *)
(*                                                                         *)
(* The lease that a row names and the striped lock protect one another: a  *)
(* thread past Acquire holds the stripe of its process (StripeHeld), so no *)
(* other thread can replace its lease while it works.  From that follows   *)
(* which phases it has left (LeftIsUnmarked), and that a phase it is about *)
(* to mark has run (MarkFollowsRun).                                       *)
(***************************************************************************)
EXTENDS TerminalCleanup, TLAPS

-------------------------------------------------------------------------------
(* The inductive invariant *)

Holding == {"locked", "phases", "mark"}
Working == {"phases", "mark"}

\* A thread inside a call has a process, and past Acquire its stripe.
StripeHeld ==
    \A t \in Threads :
      /\ thread[t].pc # "idle" => thread[t].pid \in Procs
      /\ thread[t].pc \in Holding => stripe[StripeOf[thread[t].pid]] = t

\* A thread that cleans up has the lease of the row.
LeaseHeld == \A t \in Threads : thread[t].pc \in Working => HasLease(t)

\* The phases that a thread has left are not marked yet.
LeftIsUnmarked ==
    \A t \in Threads : thread[t].pc \in Working =>
      thread[t].todo \cap cleanup[thread[t].pid].done = {}

\* The phase that a thread is about to mark has had its effects.
MarkFollowsRun ==
    \A t \in Threads : thread[t].pc = "mark" =>
      \A ph \in Phases : Current(t, ph) => ph \in effects[thread[t].pid]

\* A process without a row has no marks.
NoRowNoMarks == \A p \in Procs : cleanup[p].state = "none" => cleanup[p] = NoCleanup

\* A row that the startup sweep has reached is claimed by this Runtime, or a thread
\* is on its way to it.
SweptIsTaken ==
    \A p \in swept : mode = "cleanups" =>
      \/ cleanup[p].state \in {"none", "failed", "completed"}
      \/ cleanup[p].state = "running" /\ cleanup[p].owner = epoch
      \/ \E t \in Threads : thread[t].pid = p /\ thread[t].pc \in {"call", "locked"}

IInv ==
    /\ TypeOK
    /\ StripeHeld
    /\ LeaseHeld
    /\ LeftIsUnmarked
    /\ MarkFollowsRun
    /\ NoRowNoMarks
    /\ SweptIsTaken
    /\ MarkedIsDone
    /\ NoForeignLease
    /\ PendingIsOwed

-------------------------------------------------------------------------------
(* Types *)

\* The constants from which rows and threads are built have their types.
LEMMA ConstantTypes ==
    /\ NoCleanup \in Cleanups /\ Pending \in Cleanups
    /\ IdleThread \in ThreadStates
  BY DEF NoCleanup, Pending, Cleanups, IdleThread, ThreadStates

\* Every step keeps the types.
LEMMA TypeStep == ASSUME TypeOK, StripeHeld, [Next]_vars PROVE TypeOK'
<1> USE CleanupAssumption, ConstantTypes DEF TypeOK
<1> DEFINE Counters == [retries : Nat, cancels : Nat, faults : Nat, crashes : Nat]
<1>0. /\ used \in Counters
      /\ [used EXCEPT !.retries = @ + 1] \in Counters
      /\ [used EXCEPT !.cancels = @ + 1] \in Counters
      /\ [used EXCEPT !.faults = @ + 1] \in Counters
      /\ [used EXCEPT !.crashes = @ + 1] \in Counters
  OBVIOUS
<1> HIDE DEF Counters
<1>1. ASSUME NEW t \in Threads, NEW p \in Procs, NEW txn \in BOOLEAN, Calls(t, p, txn)
      PROVE  thread' \in [Threads -> ThreadStates]
  BY <1>1 DEF Calls, ThreadStates, IdleThread
<1>2. ASSUME NEW t \in Threads, Return(t), thread[t].pid \in Procs
      PROVE  /\ thread' \in [Threads -> ThreadStates]
             /\ stripe' \in [Stripes -> Threads \cup {NoThread}]
  BY <1>2 DEF Return, ThreadStates, IdleThread
<1>3. ASSUME NEW t \in Threads, NEW p \in Procs, EndProcess(t, p) PROVE TypeOK'
  BY <1>1, <1>3 DEF EndProcess
<1>4. ASSUME NEW t \in Threads, NEW p \in Procs, RetryCall(t, p) PROVE TypeOK'
  <2>1. used' \in Counters
    BY <1>4, <1>0 DEF RetryCall
  <2> QED
    BY <1>1, <1>4, <2>1 DEF RetryCall, Counters
<1>5. ASSUME NEW t \in Threads, NEW p \in Procs, CancelTask(t, p) PROVE TypeOK'
  <2>1. used' \in Counters
    BY <1>5, <1>0 DEF CancelTask
  <2> QED
    BY <1>1, <1>5, <2>1 DEF CancelTask, Counters
<1>6. ASSUME NEW t \in Threads, Acquire(t) PROVE TypeOK'
  BY <1>6 DEF Acquire, ThreadStates, StripeHeld
<1>7. ASSUME NEW t \in Threads, Claim(t) PROVE TypeOK'
  <2> DEFINE p == thread[t].pid
  <2>1. p \in Procs
    BY <1>7 DEF Claim, StripeHeld
  <2>2. ClaimedRow(cleanup[p]) \in Cleanups
    BY <2>1 DEF ClaimedRow, Cleanups
  <2>3. [thread[t] EXCEPT !.pc = "phases", !.lease = cleanup[p].attempts + 1,
                          !.todo = Remaining(cleanup[p])] \in ThreadStates
    <3>1. thread[t] \in ThreadStates /\ cleanup[p] \in Cleanups
      BY <2>1
    <3>2. Remaining(cleanup[p]) \in SUBSET Phases /\ cleanup[p].attempts + 1 \in Nat
      BY <3>1 DEF Remaining, Cleanups
    <3> QED
      BY <3>1, <3>2 DEF ThreadStates
  <2> QED
    BY <1>2, <1>7, <2>1, <2>2, <2>3 DEF Claim
<1>8. ASSUME NEW t \in Threads, NEW ph \in Phases, MarkPhase(t, ph) PROVE TypeOK'
  <2>1. thread[t].pid \in Procs
    BY <1>8 DEF MarkPhase, StripeHeld
  <2>2. cleanup' \in [Procs -> Cleanups]
    <3>1. cleanup[thread[t].pid].done \cup {ph} \in SUBSET Phases
      BY <2>1 DEF Cleanups
    <3>2. [cleanup[thread[t].pid] EXCEPT !.done = @ \cup {ph}] \in Cleanups
      BY <2>1, <3>1 DEF Cleanups
    <3> QED
      BY <1>8, <2>1, <3>2 DEF MarkPhase
  <2>3. thread' \in [Threads -> ThreadStates]
    BY <1>8 DEF MarkPhase, ThreadStates
  <2> QED
    BY <1>8, <2>2, <2>3 DEF MarkPhase
<1>9. ASSUME NEW t \in Threads, NEW ph \in Phases, NEW raises \in BOOLEAN, RunPhase(t, ph, raises)
      PROVE  TypeOK'
  <2>1. thread[t].pid \in Procs
    BY <1>9 DEF RunPhase, StripeHeld
  <2>2. used' \in Counters
    BY <1>9, <1>0 DEF RunPhase
  <2>3. thread' \in [Threads -> ThreadStates]
    BY <1>9 DEF RunPhase, ThreadStates
  <2>4. effects' \in [Procs -> SUBSET Phases]
    BY <1>9, <2>1 DEF RunPhase
  <2> QED
    BY <1>9, <2>2, <2>3, <2>4 DEF RunPhase, Counters
<1>10. ASSUME NEW t \in Threads, FinishCleanup(t) PROVE TypeOK'
  BY <1>2, <1>10 DEF FinishCleanup, Attempted, Cleanups, StripeHeld
<1>11. ASSUME NEW t \in Threads, NEW lost \in BOOLEAN, FailCleanup(t, lost) PROVE TypeOK'
  <2>1. thread[t].pid \in Procs
    BY <1>11 DEF FailCleanup, Attempted, StripeHeld
  <2>2. used' \in Counters
    BY <1>11, <1>0 DEF FailCleanup
  <2>3. cleanup' \in [Procs -> Cleanups]
    BY <1>11, <2>1 DEF FailCleanup, Cleanups
  <2> QED
    BY <1>2, <1>11, <2>1, <2>2, <2>3 DEF FailCleanup, Counters
<1>12. ASSUME NEW t \in Threads, CommitCancel(t) PROVE TypeOK'
  BY <1>12 DEF CommitCancel
<1>13. ASSUME NEW t \in Threads, NEW p \in Procs, Sweep(t, p) PROVE TypeOK'
  BY <1>1, <1>13 DEF Sweep
<1>14. CASE OpenRuntime
  BY <1>14 DEF OpenRuntime
<1>15. CASE Crash
  BY <1>15 DEF Crash
<1>16. CASE UNCHANGED vars
  BY <1>16 DEF vars
<1> QED
  BY <1>3, <1>4, <1>5, <1>6, <1>7, <1>8, <1>9, <1>10, <1>11, <1>12, <1>13, <1>14, <1>15, <1>16
  DEF Next, CleanupStep

-------------------------------------------------------------------------------
(* The steps *)

\* Two threads past Acquire work on different processes.
LEMMA Exclusive ==
    ASSUME TypeOK, StripeHeld, NEW t \in Threads, NEW u \in Threads, t # u,
           thread[t].pc \in Holding, thread[u].pc \in Holding
    PROVE  thread[t].pid # thread[u].pid
  BY DEF StripeHeld

\* A process ends: its pending row has the thread that ended it.
LEMMA EndProcessStep ==
    ASSUME IInv, TypeOK', NEW t \in Threads, NEW p \in Procs, EndProcess(t, p)
    PROVE  IInv'
<1> USE CleanupAssumption
    DEF IInv, TypeOK, Working, Holding, EndProcess, Calls, Idle, Pending, NoCleanup,
        IdleThread, Open, Cleanups, ThreadStates
<1>1. StripeHeld'
  BY DEF StripeHeld
<1>2. LeaseHeld'
  BY DEF LeaseHeld, HasLease
<1>3. LeftIsUnmarked'
  BY DEF LeftIsUnmarked
<1>4. MarkFollowsRun'
  BY DEF MarkFollowsRun, Current, Before, Phases
<1>5. NoRowNoMarks'
  BY DEF NoRowNoMarks
<1>6. SweptIsTaken'
  BY DEF SweptIsTaken
<1>7. MarkedIsDone'
  BY DEF MarkedIsDone
<1>8. NoForeignLease'
  BY DEF NoForeignLease
<1>9. PendingIsOwed'
  BY DEF PendingIsOwed
<1> QED
  BY <1>1, <1>2, <1>3, <1>4, <1>5, <1>6, <1>7, <1>8, <1>9

\* A repeated terminal call starts a thread and changes no row.
LEMMA RetryCallStep ==
    ASSUME IInv, TypeOK', NEW t \in Threads, NEW p \in Procs, RetryCall(t, p)
    PROVE  IInv'
<1> USE CleanupAssumption
    DEF IInv, TypeOK, Working, Holding, RetryCall, Calls, Idle, IdleThread, Open, Cleanups,
        ThreadStates
<1>1. StripeHeld'
  BY DEF StripeHeld
<1>2. LeaseHeld'
  BY DEF LeaseHeld, HasLease
<1>3. LeftIsUnmarked'
  BY DEF LeftIsUnmarked
<1>4. MarkFollowsRun'
  BY DEF MarkFollowsRun, Current, Before, Phases
<1>5. NoRowNoMarks'
  BY DEF NoRowNoMarks
<1>6. SweptIsTaken'
  BY DEF SweptIsTaken
<1>7. MarkedIsDone'
  BY DEF MarkedIsDone
<1>8. NoForeignLease'
  BY DEF NoForeignLease
<1>9. PendingIsOwed'
  BY DEF PendingIsOwed
<1> QED
  BY <1>1, <1>2, <1>3, <1>4, <1>5, <1>6, <1>7, <1>8, <1>9

\* A cancellation inserts the row inside its transaction.
LEMMA CancelTaskStep ==
    ASSUME IInv, TypeOK', NEW t \in Threads, NEW p \in Procs, CancelTask(t, p)
    PROVE  IInv'
<1> USE CleanupAssumption
    DEF IInv, TypeOK, Working, Holding, CancelTask, Calls, Idle, Pending, NoCleanup,
        IdleThread, Open, Cleanups, ThreadStates
<1>1. StripeHeld'
  BY DEF StripeHeld
<1>2. LeaseHeld'
  BY DEF LeaseHeld, HasLease
<1>3. LeftIsUnmarked'
  BY DEF LeftIsUnmarked
<1>4. MarkFollowsRun'
  BY DEF MarkFollowsRun, Current, Before, Phases
<1>5. NoRowNoMarks'
  BY DEF NoRowNoMarks
<1>6. SweptIsTaken'
  BY DEF SweptIsTaken
<1>7. MarkedIsDone'
  BY DEF MarkedIsDone
<1>8. NoForeignLease'
  BY DEF NoForeignLease
<1>9. PendingIsOwed'
  BY DEF PendingIsOwed
<1> QED
  BY <1>1, <1>2, <1>3, <1>4, <1>5, <1>6, <1>7, <1>8, <1>9

\* The startup sweep puts a thread on an unfinished row.
LEMMA SweepStep ==
    ASSUME IInv, TypeOK', NEW t \in Threads, NEW p \in Procs, Sweep(t, p)
    PROVE  IInv'
<1> USE CleanupAssumption
    DEF IInv, TypeOK, Working, Holding, Sweep, Calls, Idle, IdleThread, Unfinished, Cleanups,
        ThreadStates
<1>1. StripeHeld'
  BY DEF StripeHeld
<1>2. LeaseHeld'
  BY DEF LeaseHeld, HasLease
<1>3. LeftIsUnmarked'
  BY DEF LeftIsUnmarked
<1>4. MarkFollowsRun'
  BY DEF MarkFollowsRun, Current, Before, Phases
<1>5. NoRowNoMarks'
  BY DEF NoRowNoMarks
<1>6. SweptIsTaken'
  BY DEF SweptIsTaken
<1>7. MarkedIsDone'
  BY DEF MarkedIsDone
<1>8. NoForeignLease'
  BY DEF NoForeignLease, Open
<1>9. PendingIsOwed'
  BY DEF PendingIsOwed, Open
<1> QED
  BY <1>1, <1>2, <1>3, <1>4, <1>5, <1>6, <1>7, <1>8, <1>9

\* The stripe passes to the thread that waited for it.
LEMMA AcquireStep ==
    ASSUME IInv, TypeOK', NEW t \in Threads, Acquire(t)
    PROVE  IInv'
<1> USE CleanupAssumption DEF IInv, TypeOK, Working, Holding
<1>1. StripeHeld'
  BY DEF StripeHeld, Acquire, Cleanups, ThreadStates
<1>2. LeaseHeld'
  BY DEF LeaseHeld, Acquire, HasLease, Cleanups, ThreadStates
<1>3. LeftIsUnmarked'
  BY DEF LeftIsUnmarked, Acquire, Cleanups, ThreadStates
<1>4. MarkFollowsRun'
  BY DEF MarkFollowsRun, Acquire, Current, Before, Phases, Cleanups, ThreadStates
<1>5. NoRowNoMarks'
  BY DEF NoRowNoMarks, Acquire, Cleanups, ThreadStates
<1>6. SweptIsTaken'
  BY DEF SweptIsTaken, Acquire, Cleanups, ThreadStates
<1>7. MarkedIsDone'
  BY DEF MarkedIsDone, Acquire, Cleanups, ThreadStates
<1>8. NoForeignLease'
  BY DEF NoForeignLease, Acquire, Open, Cleanups, ThreadStates
<1>9. PendingIsOwed'
  BY DEF PendingIsOwed, Acquire, Open, Cleanups, ThreadStates
<1> QED
  BY <1>1, <1>2, <1>3, <1>4, <1>5, <1>6, <1>7, <1>8, <1>9

\* A claim either returns, and the row is completed or belongs to another Runtime,
\* or gives the row a fresh lease of the thread that holds the stripe.
LEMMA ClaimStep ==
    ASSUME IInv, TypeOK', NEW t \in Threads, Claim(t)
    PROVE  IInv'
<1> DEFINE p == thread[t].pid
<1> USE CleanupAssumption DEF IInv, Working, Holding
<1>0. swept \subseteq Procs
  BY DEF TypeOK
<1>1. /\ p \in Procs /\ thread[t].pc = "locked" /\ stripe[StripeOf[p]] = t
      /\ UNCHANGED <<effects, epoch, mode, swept>>
      /\ \A u \in Threads \ {t} : thread'[u] = thread[u]
  BY DEF Claim, StripeHeld, Return, TypeOK
<1>2. \A u \in Threads \ {t} : thread[u].pc \in Holding =>
        thread[u].pid \in Procs \ {p} /\ stripe[StripeOf[thread[u].pid]] = u
  BY <1>1, Exclusive DEF StripeHeld
<1>3. CASE cleanup[p].state = "completed" \/ ClaimRefused(p)
  <2>1. /\ UNCHANGED cleanup
        /\ stripe' = [stripe EXCEPT ![StripeOf[p]] = NoThread]
        /\ thread'[t].pc \in {"idle", "commit"}
        /\ thread'[t].pc = "commit" => thread'[t].pid = p
    <3>1. Return(t) /\ UNCHANGED cleanup
      BY <1>3 DEF Claim
    <3> QED
      BY <1>1, <3>1 DEF Return, TypeOK, IdleThread
  <2>2. \A s \in Stripes : s # StripeOf[p] => stripe'[s] = stripe[s]
    BY <2>1 DEF TypeOK
  <2>3. \A u \in Threads \ {t} : thread[u].pc \in Holding =>
          stripe'[StripeOf[thread[u].pid]] = u
    BY <1>1, <1>2, <2>2
  <2>4. StripeHeld'
    BY <1>0, <1>1, <1>2, <1>3, <2>1, <2>3 DEF StripeHeld
  <2>5. LeaseHeld'
    BY <1>0, <1>1, <1>2, <1>3, <2>1, <2>3 DEF LeaseHeld, HasLease
  <2>6. LeftIsUnmarked'
    BY <1>0, <1>1, <1>2, <1>3, <2>1, <2>3 DEF LeftIsUnmarked
  <2>7. MarkFollowsRun'
    BY <1>0, <1>1, <1>2, <1>3, <2>1, <2>3 DEF MarkFollowsRun, Current, Before
  <2>8. NoRowNoMarks'
    BY <1>0, <1>1, <1>2, <1>3, <2>1, <2>3 DEF NoRowNoMarks
  <2>9. SweptIsTaken'
    BY <1>0, <1>1, <1>2, <1>3, <2>1, <2>3 DEF SweptIsTaken, ClaimRefused, Open
  <2>10. MarkedIsDone'
    BY <1>0, <1>1, <1>2, <1>3, <2>1, <2>3 DEF MarkedIsDone
  <2>11. NoForeignLease'
    BY <1>0, <1>1, <1>2, <1>3, <2>1, <2>3 DEF NoForeignLease, ClaimRefused, Open
  <2>12. PendingIsOwed'
    BY <1>0, <1>1, <1>2, <1>3, <2>1, <2>3 DEF PendingIsOwed, ClaimRefused, Open
  <2> QED
    BY <2>4, <2>5, <2>6, <2>7, <2>8, <2>9, <2>10, <2>11, <2>12
<1>4. CASE ~(cleanup[p].state = "completed" \/ ClaimRefused(p))
  <2>1. /\ cleanup'[p] = ClaimedRow(cleanup[p])
        /\ \A q \in Procs \ {p} : cleanup'[q] = cleanup[q]
        /\ UNCHANGED stripe
        /\ thread'[t] = [thread[t] EXCEPT !.pc = "phases", !.lease = cleanup[p].attempts + 1,
                                          !.todo = Remaining(cleanup[p])]
    BY <1>1, <1>4 DEF Claim, TypeOK
  <2>0. /\ \A q \in Procs \ {p} : cleanup'[q] = cleanup[q]
        /\ UNCHANGED stripe
    BY <2>1
  <2>2. /\ thread'[t].pc = "phases" /\ thread'[t].pid = p
        /\ thread'[t].lease = cleanup[p].attempts + 1 /\ thread'[t].todo = Phases \ cleanup[p].done
    BY <2>1 DEF TypeOK, ThreadStates, Remaining
  <2>3. /\ cleanup'[p].state = "running" /\ cleanup'[p].done = cleanup[p].done
        /\ cleanup'[p].owner = epoch /\ cleanup'[p].attempts = cleanup[p].attempts + 1
    BY <2>1 DEF ClaimedRow
  <2>4. StripeHeld'
    BY <1>0, <1>1, <1>2, <2>0, <2>2, <2>3 DEF StripeHeld
  <2>5. LeaseHeld'
    BY <1>0, <1>1, <1>2, <2>0, <2>2, <2>3 DEF LeaseHeld, HasLease
  <2>6. LeftIsUnmarked'
    BY <1>0, <1>1, <1>2, <2>0, <2>2, <2>3 DEF LeftIsUnmarked
  <2>7. MarkFollowsRun'
    BY <1>0, <1>1, <1>2, <2>0, <2>2, <2>3 DEF MarkFollowsRun, Current, Before
  <2>8. NoRowNoMarks'
    BY <1>0, <1>1, <1>2, <2>0, <2>2, <2>3 DEF NoRowNoMarks
  <2>9. SweptIsTaken'
    BY <1>0, <1>1, <1>2, <2>0, <2>2, <2>3 DEF SweptIsTaken
  <2>10. MarkedIsDone'
    BY <1>0, <1>1, <1>2, <2>0, <2>2, <2>3 DEF MarkedIsDone
  <2>11. NoForeignLease'
    BY <1>0, <1>1, <1>2, <2>0, <2>2, <2>3 DEF NoForeignLease, Open
  <2>12. PendingIsOwed'
    BY <1>0, <1>1, <1>2, <2>0, <2>2, <2>3 DEF PendingIsOwed, Open
  <2> QED
    BY <2>4, <2>5, <2>6, <2>7, <2>8, <2>9, <2>10, <2>11, <2>12
<1> QED
  BY <1>3, <1>4

\* A phase that returns is the one the thread marks next.
LEMMA RunPhaseStep ==
    ASSUME IInv, TypeOK', NEW t \in Threads, NEW ph \in Phases, NEW raises \in BOOLEAN,
           RunPhase(t, ph, raises)
    PROVE  IInv'
<1> DEFINE p == thread[t].pid
<1> USE CleanupAssumption DEF IInv, Working, Holding
<1>1. /\ p \in Procs /\ thread[t].pc = "phases" /\ HasLease(t) /\ Current(t, ph)
      /\ stripe[StripeOf[p]] = t /\ UNCHANGED <<cleanup, stripe, epoch, mode, swept>>
  BY DEF RunPhase, StripeHeld, LeaseHeld
<1>2. \A u \in Threads \ {t} : thread'[u] = thread[u]
  BY <1>1 DEF RunPhase, TypeOK
<1>3. /\ thread'[t].pid = p /\ thread'[t].lease = thread[t].lease
      /\ thread'[t].pc \in Working /\ thread'[t].todo \subseteq thread[t].todo
      /\ thread'[t].pc = "mark" => thread'[t].todo = thread[t].todo /\ ph \in effects'[p]
  BY <1>1 DEF RunPhase, TypeOK, ThreadStates
<1>4. \A q \in Procs : effects[q] \subseteq effects'[q]
  BY <1>1 DEF RunPhase, TypeOK
<1>5. cleanup[p].state = "running"
  BY <1>1 DEF HasLease
<1>6. \A x \in Phases : Current(t, x) => x = ph
  BY <1>1 DEF Current, Before, Phases
<1>7. \A q \in Procs : thread'[t].pid = q /\ thread'[t].pc \in Working => q = p
  BY <1>3
<1>8. StripeHeld'
  BY <1>1, <1>2, <1>3, <1>4, <1>5, <1>6, <1>7 DEF StripeHeld
<1>9. LeaseHeld'
  BY <1>1, <1>2, <1>3, <1>4, <1>5, <1>6, <1>7 DEF LeaseHeld, HasLease
<1>10. LeftIsUnmarked'
  BY <1>1, <1>2, <1>3, <1>4, <1>5, <1>6, <1>7 DEF LeftIsUnmarked
<1>11. MarkFollowsRun'
  <2>1. ASSUME thread'[t].pc = "mark", NEW x \in Phases, Current(t, x)'
        PROVE  x \in effects'[thread'[t].pid]
    <3>1. Current(t, x)
      BY <1>3, <2>1 DEF Current
    <3> QED
      BY <1>3, <1>6, <2>1, <3>1
  <2>2. ASSUME NEW u \in Threads \ {t}, thread'[u].pc = "mark", NEW x \in Phases, Current(u, x)'
        PROVE  x \in effects'[thread'[u].pid]
    <3>1. thread'[u] = thread[u] /\ thread[u].pid \in Procs
      BY <1>2, <2>2 DEF StripeHeld
    <3>2. Current(u, x)
      BY <2>2, <3>1 DEF Current
    <3> QED
      BY <1>4, <2>2, <3>1, <3>2 DEF MarkFollowsRun
  <2> QED
    BY <2>1, <2>2 DEF MarkFollowsRun
<1>12. NoRowNoMarks'
  BY <1>1, <1>2, <1>3, <1>4, <1>5, <1>6, <1>7 DEF NoRowNoMarks
<1>13. SweptIsTaken'
  BY <1>1, <1>2, <1>3, <1>4, <1>5, <1>6, <1>7 DEF SweptIsTaken
<1>14. MarkedIsDone'
  BY <1>1, <1>2, <1>3, <1>4, <1>5, <1>6, <1>7 DEF MarkedIsDone
<1>15. NoForeignLease'
  BY <1>1, <1>2, <1>3, <1>4, <1>5, <1>6, <1>7 DEF NoForeignLease, Open
<1>16. PendingIsOwed'
  BY <1>1, <1>2, <1>3, <1>4, <1>5, <1>6, <1>7 DEF PendingIsOwed, Open
<1> QED
  BY <1>8, <1>9, <1>10, <1>11, <1>12, <1>13, <1>14, <1>15, <1>16 DEF IInv

\* A mark is written under the lease, so the row is the thread's own.
LEMMA MarkPhaseStep ==
    ASSUME IInv, TypeOK', NEW t \in Threads, NEW ph \in Phases, MarkPhase(t, ph)
    PROVE  IInv'
<1> DEFINE p == thread[t].pid
<1> USE CleanupAssumption DEF IInv, Working, Holding
<1>1. /\ p \in Procs /\ thread[t].pc = "mark" /\ HasLease(t) /\ Current(t, ph)
      /\ stripe[StripeOf[p]] = t /\ swept \subseteq Procs
      /\ UNCHANGED <<effects, stripe, epoch, mode, swept>>
  BY DEF MarkPhase, StripeHeld, LeaseHeld, TypeOK
<1>2. \A u \in Threads \ {t} : thread'[u] = thread[u]
  BY <1>1 DEF MarkPhase, TypeOK
<1>3. /\ thread'[t].pc = "phases" /\ thread'[t].pid = p /\ thread'[t].lease = thread[t].lease
      /\ thread'[t].todo = thread[t].todo \ {ph}
  BY <1>1 DEF MarkPhase, TypeOK, ThreadStates
<1>4. \A q \in Procs \ {p} : cleanup'[q] = cleanup[q]
  BY <1>1 DEF MarkPhase, TypeOK
<1>5. /\ cleanup'[p].done = cleanup[p].done \cup {ph} /\ cleanup'[p].state = "running"
      /\ cleanup'[p].owner = cleanup[p].owner /\ cleanup'[p].attempts = thread[t].lease
      /\ cleanup[p].state = "running" /\ cleanup[p].attempts = thread[t].lease
  BY <1>1 DEF MarkPhase, TypeOK, Cleanups, HasLease
<1>6. \A u \in Threads \ {t} : thread[u].pc \in Working => thread[u].pid \in Procs \ {p}
  BY <1>1, Exclusive DEF StripeHeld
<1>7. ph \in effects[p]
  BY <1>1 DEF MarkFollowsRun
<1>8. StripeHeld'
  BY <1>1, <1>2, <1>3, <1>4, <1>5, <1>6, <1>7 DEF StripeHeld
<1>9. LeaseHeld'
  BY <1>1, <1>2, <1>3, <1>4, <1>5, <1>6, <1>7 DEF LeaseHeld, HasLease
<1>10. LeftIsUnmarked'
  BY <1>1, <1>2, <1>3, <1>4, <1>5, <1>6, <1>7 DEF LeftIsUnmarked
<1>11. MarkFollowsRun'
  BY <1>1, <1>2, <1>3, <1>4, <1>5, <1>6, <1>7 DEF MarkFollowsRun, Current, Before
<1>12. NoRowNoMarks'
  BY <1>1, <1>2, <1>3, <1>4, <1>5, <1>6, <1>7 DEF NoRowNoMarks
<1>13. SweptIsTaken'
  BY <1>1, <1>2, <1>3, <1>4, <1>5, <1>6, <1>7 DEF SweptIsTaken
<1>14. MarkedIsDone'
  BY <1>1, <1>2, <1>3, <1>4, <1>5, <1>6, <1>7 DEF MarkedIsDone
<1>15. NoForeignLease'
  BY <1>1, <1>2, <1>3, <1>4, <1>5, <1>6, <1>7 DEF NoForeignLease, Open
<1>16. PendingIsOwed'
  BY <1>1, <1>2, <1>3, <1>4, <1>5, <1>6, <1>7 DEF PendingIsOwed, Open
<1> QED
  BY <1>8, <1>9, <1>10, <1>11, <1>12, <1>13, <1>14, <1>15, <1>16 DEF IInv

\* A row is completed with both marks.
LEMMA FinishCleanupStep ==
    ASSUME IInv, TypeOK', NEW t \in Threads, FinishCleanup(t)
    PROVE  IInv'
<1> DEFINE p == thread[t].pid
<1> USE CleanupAssumption DEF IInv, Working, Holding
<1>1. /\ p \in Procs /\ thread[t].pc = "phases" /\ HasLease(t) /\ stripe[StripeOf[p]] = t
      /\ UNCHANGED <<effects, epoch, mode, swept>> /\ swept \subseteq Procs
      /\ \A u \in Threads \ {t} : thread'[u] = thread[u]
  BY DEF FinishCleanup, Attempted, StripeHeld, LeaseHeld, Return, TypeOK
<1>2. \A u \in Threads \ {t} : thread[u].pc \in Holding =>
        thread[u].pid \in Procs \ {p} /\ stripe[StripeOf[thread[u].pid]] = u
  BY <1>1, Exclusive DEF StripeHeld
<1>3. /\ stripe' = [stripe EXCEPT ![StripeOf[p]] = NoThread]
      /\ thread'[t].pc \in {"idle", "commit"}
      /\ thread'[t].pc = "commit" => thread'[t].pid = p
  BY <1>1 DEF FinishCleanup, Return, TypeOK, IdleThread
<1>4. \A u \in Threads \ {t} : thread[u].pc \in Holding =>
        stripe'[StripeOf[thread[u].pid]] = u
  BY <1>1, <1>2, <1>3 DEF TypeOK
<1>5. /\ \A q \in Procs \ {p} : cleanup'[q] = cleanup[q]
      /\ cleanup'[p].done = cleanup[p].done /\ cleanup[p].state = "running"
      /\ \/ cleanup'[p] = cleanup[p]
         \/ cleanup'[p].state = "completed" /\ cleanup[p].done = Phases
  BY <1>1 DEF FinishCleanup, TypeOK, Cleanups, HasLease
<1>6. StripeHeld'
  BY <1>1, <1>2, <1>3, <1>4, <1>5 DEF StripeHeld
<1>7. LeaseHeld'
  BY <1>1, <1>2, <1>3, <1>4, <1>5 DEF LeaseHeld, HasLease
<1>8. LeftIsUnmarked'
  BY <1>1, <1>2, <1>3, <1>4, <1>5 DEF LeftIsUnmarked
<1>9. MarkFollowsRun'
  BY <1>1, <1>2, <1>3, <1>4, <1>5 DEF MarkFollowsRun, Current, Before
<1>10. NoRowNoMarks'
  BY <1>1, <1>2, <1>3, <1>4, <1>5 DEF NoRowNoMarks
<1>11. SweptIsTaken'
  BY <1>1, <1>2, <1>3, <1>4, <1>5 DEF SweptIsTaken
<1>12. MarkedIsDone'
  BY <1>1, <1>2, <1>3, <1>4, <1>5 DEF MarkedIsDone
<1>13. NoForeignLease'
  BY <1>1, <1>2, <1>3, <1>4, <1>5 DEF NoForeignLease, Open
<1>14. PendingIsOwed'
  BY <1>1, <1>2, <1>3, <1>4, <1>5 DEF PendingIsOwed, Open
<1> QED
  BY <1>6, <1>7, <1>8, <1>9, <1>10, <1>11, <1>12, <1>13, <1>14 DEF IInv

\* A failure gives the lease back, or is lost and leaves it.
LEMMA FailCleanupStep ==
    ASSUME IInv, TypeOK', NEW t \in Threads, NEW lost \in BOOLEAN, FailCleanup(t, lost)
    PROVE  IInv'
<1> DEFINE p == thread[t].pid
<1> USE CleanupAssumption DEF IInv, Working, Holding
<1>1. /\ p \in Procs /\ thread[t].pc = "phases" /\ HasLease(t) /\ stripe[StripeOf[p]] = t
      /\ UNCHANGED <<effects, epoch, mode, swept>> /\ swept \subseteq Procs
      /\ \A u \in Threads \ {t} : thread'[u] = thread[u]
  BY DEF FailCleanup, Attempted, StripeHeld, LeaseHeld, Return, TypeOK
<1>2. \A u \in Threads \ {t} : thread[u].pc \in Holding =>
        thread[u].pid \in Procs \ {p} /\ stripe[StripeOf[thread[u].pid]] = u
  BY <1>1, Exclusive DEF StripeHeld
<1>3. /\ stripe' = [stripe EXCEPT ![StripeOf[p]] = NoThread]
      /\ thread'[t].pc \in {"idle", "commit"}
      /\ thread'[t].pc = "commit" => thread'[t].pid = p
  BY <1>1 DEF FailCleanup, Return, TypeOK, IdleThread
<1>4. \A u \in Threads \ {t} : thread[u].pc \in Holding =>
        stripe'[StripeOf[thread[u].pid]] = u
  BY <1>1, <1>2, <1>3 DEF TypeOK
<1>5. /\ \A q \in Procs \ {p} : cleanup'[q] = cleanup[q]
      /\ cleanup'[p].done = cleanup[p].done /\ cleanup[p].state = "running"
      /\ \/ cleanup'[p] = cleanup[p]
         \/ cleanup'[p].state = "failed"
  BY <1>1 DEF FailCleanup, TypeOK, Cleanups, HasLease
<1>6. StripeHeld'
  BY <1>1, <1>2, <1>3, <1>4, <1>5 DEF StripeHeld
<1>7. LeaseHeld'
  BY <1>1, <1>2, <1>3, <1>4, <1>5 DEF LeaseHeld, HasLease
<1>8. LeftIsUnmarked'
  BY <1>1, <1>2, <1>3, <1>4, <1>5 DEF LeftIsUnmarked
<1>9. MarkFollowsRun'
  BY <1>1, <1>2, <1>3, <1>4, <1>5 DEF MarkFollowsRun, Current, Before
<1>10. NoRowNoMarks'
  BY <1>1, <1>2, <1>3, <1>4, <1>5 DEF NoRowNoMarks
<1>11. SweptIsTaken'
  BY <1>1, <1>2, <1>3, <1>4, <1>5 DEF SweptIsTaken
<1>12. MarkedIsDone'
  BY <1>1, <1>2, <1>3, <1>4, <1>5 DEF MarkedIsDone
<1>13. NoForeignLease'
  BY <1>1, <1>2, <1>3, <1>4, <1>5 DEF NoForeignLease, Open
<1>14. PendingIsOwed'
  BY <1>1, <1>2, <1>3, <1>4, <1>5 DEF PendingIsOwed, Open
<1> QED
  BY <1>6, <1>7, <1>8, <1>9, <1>10, <1>11, <1>12, <1>13, <1>14 DEF IInv

\* The commit of a cancellation ends its thread's call.
LEMMA CommitCancelStep ==
    ASSUME IInv, TypeOK', NEW t \in Threads, CommitCancel(t)
    PROVE  IInv'
<1> USE CleanupAssumption DEF IInv, TypeOK, Working, Holding
<1>1. StripeHeld'
  BY DEF StripeHeld, CommitCancel, IdleThread, Cleanups, ThreadStates
<1>2. LeaseHeld'
  BY DEF LeaseHeld, CommitCancel, IdleThread, HasLease, Cleanups, ThreadStates
<1>3. LeftIsUnmarked'
  BY DEF LeftIsUnmarked, CommitCancel, IdleThread, Cleanups, ThreadStates
<1>4. MarkFollowsRun'
  BY DEF MarkFollowsRun, CommitCancel, IdleThread, Current, Before, Phases, Cleanups, ThreadStates
<1>5. NoRowNoMarks'
  BY DEF NoRowNoMarks, CommitCancel, IdleThread, Cleanups, ThreadStates
<1>6. SweptIsTaken'
  BY DEF SweptIsTaken, CommitCancel, IdleThread, Cleanups, ThreadStates
<1>7. MarkedIsDone'
  BY DEF MarkedIsDone, CommitCancel, IdleThread, Cleanups, ThreadStates
<1>8. NoForeignLease'
  BY DEF NoForeignLease, CommitCancel, IdleThread, Open, Cleanups, ThreadStates
<1>9. PendingIsOwed'
  <2>1. \A u \in Threads : thread[u].pc \in {"call", "locked"} => thread'[u] = thread[u]
    BY DEF CommitCancel
  <2> QED
    BY <2>1 DEF CommitCancel, PendingIsOwed, Open
<1> QED
  BY <1>1, <1>2, <1>3, <1>4, <1>5, <1>6, <1>7, <1>8, <1>9

\* The Runtime opens when the sweep has reached every unfinished row.
LEMMA OpenRuntimeStep ==
    ASSUME IInv, TypeOK', OpenRuntime
    PROVE  IInv'
<1> USE CleanupAssumption
    DEF IInv, TypeOK, Working, Holding, OpenRuntime, Idle, Unfinished, Open, Cleanups,
        ThreadStates
<1>1. StripeHeld'
  BY DEF StripeHeld
<1>2. LeaseHeld'
  BY DEF LeaseHeld, HasLease
<1>3. LeftIsUnmarked'
  BY DEF LeftIsUnmarked
<1>4. MarkFollowsRun'
  BY DEF MarkFollowsRun, Current, Before, Phases
<1>5. NoRowNoMarks'
  BY DEF NoRowNoMarks
<1>6. SweptIsTaken'
  BY DEF SweptIsTaken
<1>7. MarkedIsDone'
  BY DEF MarkedIsDone
<1>8. NoForeignLease' /\ PendingIsOwed'
  <2>1. ASSUME NEW p \in Procs, cleanup[p].state \in {"running", "pending"}
        PROVE  cleanup[p].state = "running" /\ cleanup[p].owner = epoch
    <3>1. mode = "cleanups" /\ p \in swept
      BY <2>1 DEF OpenRuntime, Unfinished
    <3>2. \A t \in Threads : thread[t].pc = "idle"
      BY DEF OpenRuntime, Idle
    <3> QED
      BY <2>1, <3>1, <3>2 DEF SweptIsTaken
  <2>2. UNCHANGED <<cleanup, epoch>>
    BY DEF OpenRuntime
  <2> QED
    BY <2>1, <2>2 DEF NoForeignLease, PendingIsOwed
<1> QED
  BY <1>1, <1>2, <1>3, <1>4, <1>5, <1>6, <1>7, <1>8

\* A crash leaves no thread, and no row of the open transaction.
LEMMA CrashStep ==
    ASSUME IInv, TypeOK', Crash
    PROVE  IInv'
<1> USE CleanupAssumption
    DEF IInv, TypeOK, Working, Holding, Crash, IdleThread, NoCleanup, Open, Cleanups, ThreadStates
<1>1. StripeHeld'
  BY DEF StripeHeld
<1>2. LeaseHeld'
  BY DEF LeaseHeld, HasLease
<1>3. LeftIsUnmarked'
  BY DEF LeftIsUnmarked
<1>4. MarkFollowsRun'
  BY DEF MarkFollowsRun, Current, Before, Phases
<1>5. NoRowNoMarks'
  BY DEF NoRowNoMarks
<1>6. SweptIsTaken'
  BY DEF SweptIsTaken
<1>7. MarkedIsDone'
  BY DEF MarkedIsDone
<1>8. NoForeignLease'
  BY DEF NoForeignLease
<1>9. PendingIsOwed'
  BY DEF PendingIsOwed
<1> QED
  BY <1>1, <1>2, <1>3, <1>4, <1>5, <1>6, <1>7, <1>8, <1>9

-------------------------------------------------------------------------------
(* Theorems *)

\* The invariant that every part of the cleanup contributes to: it holds of every
\* reachable state, whatever is claimed, retried, lost or interrupted.
THEOREM Invariance == Spec => []IInv
<1>1. Init => IInv
  <2> SUFFICES ASSUME Init PROVE IInv
    OBVIOUS
  <2>1. TypeOK
    BY ConstantTypes DEF Init, TypeOK
  <2>2. StripeHeld /\ LeaseHeld /\ LeftIsUnmarked /\ MarkFollowsRun
    BY DEF Init, IdleThread, StripeHeld, LeaseHeld, LeftIsUnmarked, MarkFollowsRun, Holding, Working
  <2>3. NoRowNoMarks /\ SweptIsTaken /\ MarkedIsDone /\ NoForeignLease /\ PendingIsOwed
    BY DEF Init, NoCleanup, NoRowNoMarks, SweptIsTaken, MarkedIsDone, NoForeignLease, PendingIsOwed
  <2> QED
    BY <2>1, <2>2, <2>3 DEF IInv
<1>2. IInv /\ [Next]_vars => IInv'
  <2> SUFFICES ASSUME IInv, [Next]_vars PROVE IInv'
    OBVIOUS
  <2>1. TypeOK'
    BY TypeStep DEF IInv
  <2>2. ASSUME NEW t \in Threads, CleanupStep(t) PROVE IInv'
    BY <2>1, <2>2, AcquireStep, ClaimStep, RunPhaseStep, MarkPhaseStep, FinishCleanupStep,
       FailCleanupStep, CommitCancelStep DEF CleanupStep
  <2>3. ASSUME NEW t \in Threads, NEW p \in Procs,
               EndProcess(t, p) \/ RetryCall(t, p) \/ CancelTask(t, p) \/ Sweep(t, p)
        PROVE  IInv'
    BY <2>1, <2>3, EndProcessStep, RetryCallStep, CancelTaskStep, SweepStep
  <2>4. CASE UNCHANGED vars
    BY <2>1, <2>4 DEF vars, IInv, StripeHeld, LeaseHeld, HasLease, LeftIsUnmarked, MarkFollowsRun,
       Current, NoRowNoMarks, SweptIsTaken, MarkedIsDone, NoForeignLease, PendingIsOwed, Open
  <2> QED
    BY <2>1, <2>2, <2>3, <2>4, OpenRuntimeStep, CrashStep DEF Next
<1> QED
  BY <1>1, <1>2, PTL DEF Spec

\* No phase is skipped: a marked phase has had its effects and a completed row has
\* both marks, for any number of threads, retries, faults and crashes
\* (complete_process_terminal_cleanup_phase, finish_process_terminal_cleanup).
THEOREM NothingSkipped == Spec => []MarkedIsDone
  BY Invariance, PTL DEF IInv

\* Leases, locks and rows agree: a cleaner has the lease and the stripe of its process,
\* an open Runtime finds no row running under a dead one, and no pending row is
\* without its thread (claim_process_terminal_cleanup, recover_terminal_cleanups).
THEOREM RowsAgree == Spec => []RowsInv
<1>1. IInv => RowsInv
  BY DEF IInv, RowsInv, CleanerHasLease, StripeHeld, LeaseHeld, Holding, Working
<1> QED
  BY <1>1, Invariance, PTL

\* Progress is durable: marks stay, a marked phase is not run again, and a completed
\* row is left alone; only the rollback of a cancellation takes a row back
\* (complete_process_terminal_cleanup_phase, mark_cancelled).
THEOREM ProgressStands == Spec => MarksStand
<1> DEFINE Kept(p) ==
       \/ cleanup[p].done \subseteq cleanup'[p].done
          /\ (cleanup[p].state = "completed" => cleanup'[p] = cleanup[p])
       \/ RolledBack(p) /\ cleanup'[p] = NoCleanup
<1>1. ASSUME IInv, NEW t \in Threads, NEW ph \in Phases, NEW raises \in BOOLEAN,
             RunPhase(t, ph, raises)
      PROVE  ph \notin cleanup[thread[t].pid].done
  BY <1>1 DEF IInv, RunPhase, Current, LeftIsUnmarked, Working
<1>2. ASSUME IInv, Next, NEW p \in Procs PROVE Kept(p)
  <2> USE <1>2 DEF IInv, TypeOK
  <2>1. ASSUME NEW t \in Threads, NEW q \in Procs, cleanup[q].state = "none",
               cleanup' = [cleanup EXCEPT ![q] = Pending]
        PROVE  Kept(p)
    BY <2>1 DEF NoRowNoMarks, NoCleanup, Pending
  <2>2. ASSUME NEW t \in Threads, Claim(t) PROVE Kept(p)
    BY <2>2 DEF Claim, ClaimedRow, Cleanups
  <2>3. ASSUME NEW t \in Threads, NEW ph \in Phases, MarkPhase(t, ph) PROVE Kept(p)
    BY <2>3 DEF MarkPhase, HasLease, Cleanups
  <2>4. ASSUME NEW t \in Threads, NEW lost \in BOOLEAN, FinishCleanup(t) \/ FailCleanup(t, lost)
        PROVE  Kept(p)
    BY <2>4 DEF FinishCleanup, FailCleanup, HasLease, Cleanups
  <2>5. CASE Crash
    BY <2>5 DEF Crash
  <2>6. ASSUME UNCHANGED cleanup PROVE Kept(p)
    BY <2>6
  <2>7. ASSUME NEW t \in Threads, CleanupStep(t) PROVE Kept(p)
    <3>1. CASE Acquire(t) \/ CommitCancel(t)
                 \/ \E ph \in Phases, raises \in BOOLEAN : RunPhase(t, ph, raises)
      BY <2>6, <3>1 DEF Acquire, CommitCancel, RunPhase
    <3> QED
      BY <2>2, <2>3, <2>4, <2>7, <3>1 DEF CleanupStep
  <2>8. ASSUME NEW t \in Threads, NEW q \in Procs,
               EndProcess(t, q) \/ RetryCall(t, q) \/ CancelTask(t, q) \/ Sweep(t, q)
        PROVE  Kept(p)
    BY <2>1, <2>6, <2>8 DEF EndProcess, RetryCall, CancelTask, Sweep
  <2>9. CASE OpenRuntime
    BY <2>6, <2>9 DEF OpenRuntime
  <2> QED
    BY <2>5, <2>7, <2>8, <2>9 DEF Next
<1>3. IInv /\ [Next]_vars =>
        [/\ \A p \in Procs : Kept(p)
         /\ \A t \in Threads : \A ph \in Phases, raises \in BOOLEAN :
              RunPhase(t, ph, raises) => ph \notin cleanup[thread[t].pid].done]_vars
  BY <1>1, <1>2
<1> QED
  BY <1>3, Invariance, PTL DEF Spec, MarksStand

=============================================================================
