------------------------ MODULE ProcessLifecycle_proof ------------------------
(***************************************************************************)
(* Proofs about ProcessLifecycle, for every set of processes and workers   *)
(* and every bound.                                                        *)
(*                                                                         *)
(* The argument goes through one lemma: whatever the step, what it writes  *)
(* to a row is one of seven writes (Writes).  That needs the bookkeeping   *)
(* of launches (LaunchesOwned) beside the types.  What the seven writes    *)
(* preserve is then shown once, on one row.                                *)
(*                                                                         *)
(* Waits, parents and reservations relate several rows.  There a step is   *)
(* one of nine kinds (TreeKind), and each kind is shown to preserve the    *)
(* invariant TreeInv, and DownInv, on what stands below an exited process. *)
(* Host-resume gates need only that a gated row is paused.                 *)
(***************************************************************************)
EXTENDS ProcessLifecycle, TLAPS

USE DEF NoOwner

-------------------------------------------------------------------------------
(* Types of the row operators *)

\* The constants from which the operators build rows have their types.
LEMMA ConstantTypes ==
    /\ TerminalStatuses \cup ConditionStatuses
         \cup {"absent", "created", "runnable", "running", "paused"} \subseteq Statuses
    /\ NoWait \in Waits
    /\ \A kind \in {"host_resume", "paused", "stale_execution"} :
         [kind |-> kind, on |-> {}] \in Waits
    /\ \A c \in Procs : [kind |-> "child", on |-> {c}] \in Waits
    /\ {"none", "exited", "failed", "terminate", "scheduler_task_failed",
        "resource_limit_exceeded"} \subseteq Codes
    /\ AbsentRow \in Rows /\ InsertProcess \in Rows
<1>1. /\ TerminalStatuses \cup ConditionStatuses
           \cup {"absent", "created", "runnable", "running", "paused"} \subseteq Statuses
      /\ {"none", "exited", "failed", "terminate", "scheduler_task_failed",
          "resource_limit_exceeded"} \subseteq Codes
  BY DEF Statuses, Codes
<1>2. /\ NoWait \in Waits
      /\ \A kind \in {"host_resume", "paused", "stale_execution"} :
           [kind |-> kind, on |-> {}] \in Waits
      /\ \A c \in Procs : [kind |-> "child", on |-> {c}] \in Waits
  BY DEF NoWait, Waits, WaitKinds, ConditionWaits
<1>3. AbsentRow \in Rows /\ InsertProcess \in Rows
  BY <1>1, <1>2 DEF AbsentRow, InsertProcess, Rows
<1> QED
  BY <1>1, <1>2, <1>3

\* A transition to typed fields writes a typed row.
LEMMA TransitionType ==
    ASSUME NEW r \in Rows, NEW status \in Statuses, NEW wait \in Waits, NEW code \in Codes
    PROVE  Transition(r, status, wait, code) \in Rows
  BY DEF Transition, Rows, EndsExecution

\* Claim, completion and stale recovery write typed rows.
LEMMA ExecutionRowTypes ==
    ASSUME NEW r \in Rows
    PROVE  /\ \A w \in Workers, o \in Nat : ClaimRow(r, o, w) \in Rows
           /\ \A tok : CompleteRow(r, tok) \in Rows
           /\ RecoverStaleRow(r) \in Rows
  BY ConstantTypes DEF ClaimRow, CompleteRow, RecoverStaleRow, Rows

\* The fields that a transition sets.
LEMMA TransitionFields ==
    ASSUME NEW r, NEW status, NEW wait, NEW code
    PROVE  LET t == Transition(r, status, wait, code) IN
           /\ t.status = status /\ t.wait = wait /\ t.code = code
           /\ ~EndsExecution(r, status) =>
                t.egen = r.egen /\ t.owner = r.owner /\ t.lease = r.lease
  BY DEF Transition

-------------------------------------------------------------------------------
(* The writes of a row *)

\* A transition of a live row to a state the store accepts; none makes a row
\* running that was not.
Moves(r, s) ==
    /\ Live(r)
    /\ \E status \in Statuses \ {"absent"}, wait \in Waits, code \in Codes :
         /\ ValidState(status, wait, code)
         /\ status = "running" => r.status = "running"
         /\ s = Transition(r, status, wait, code)

\* The state of a worker that has just claimed p.
Claimed(p) == [pc |-> "quantum", pid |-> p, gen |-> row[p].egen + 1, owner |-> epoch,
               busy |-> NoProc, err |-> FALSE]

\* The seven ways in which a step may leave the row of p.
Writes(p) ==
    \/ row'[p] = row[p]
    \/ Moves(row[p], row'[p])
    \/ \E w \in Workers : /\ row[p].status = "runnable" /\ worker[w].pc = "idle" /\ Open
                          /\ row'[p] = ClaimRow(row[p], epoch, w)
                          /\ worker'[w] = Claimed(p)
    \/ /\ launch[p].state = "planning" /\ launch'[p].state = "applying"
       /\ row'[p] = InsertProcess
    \/ Incomplete(p) /\ row'[p] = AbsentRow
    \/ \E w \in Workers : row'[p] = CompleteRow(row[p], Token(w))
    \/ row[p].status = "running" /\ row[p].owner # epoch /\ row'[p] = RecoverStaleRow(row[p])

\* A signal that applies is a Moves of the row.
LEMMA SignalMoves ==
    ASSUME NEW r \in Rows, NEW sig \in Signals,
           NEW byHost, SignalApplicable(r, sig, byHost)
    PROVE  Moves(r, SignalRow(r, sig))
<1> DEFINE OK(status, wait, code) ==
        /\ status \in Statuses \ {"absent"} /\ wait \in Waits /\ code \in Codes
        /\ ValidState(status, wait, code)
        /\ status = "running" => r.status = "running"
<1>0. Live(r) /\ r.status \in Statuses /\ r.wait \in Waits
  BY DEF SignalApplicable, Rows
<1>1. CASE sig = "terminate"
  <2>1. OK("killed", NoWait, "terminate")
    BY ConstantTypes DEF ValidState, NoWait, TerminalStatuses
  <2> QED BY <1>0, <1>1, <2>1 DEF Moves, SignalRow
<1>2. CASE sig = "resume"
  <2> DEFINE status == IF r.status = "paused" THEN "runnable" ELSE r.status
  <2>1. OK(status, NoWait, "none")
    BY <1>0, <1>2, ConstantTypes
    DEF ValidState, NoWait, Live, Terminal, Exists, TerminalStatuses, ConditionStatuses,
        SignalApplicable
  <2>2. SignalRow(r, sig) = Transition(r, status, NoWait, "none")
    BY <1>2 DEF SignalRow
  <2> QED BY <1>0, <2>1, <2>2 DEF Moves
<1>3. CASE sig = "host_pause"
  <2>1. OK("paused", [kind |-> "host_resume", on |-> {}], "none")
    BY ConstantTypes DEF ValidState
  <2> QED BY <1>0, <1>3, <2>1 DEF Moves, SignalRow
<1>4. CASE sig = "pause"
  <2> DEFINE wait == IF r.wait.kind = "host_resume" THEN r.wait
                     ELSE [kind |-> "paused", on |-> {}]
  <2>1. OK("paused", wait, "none")
    BY <1>0, ConstantTypes DEF ValidState
  <2>2. SignalRow(r, sig) = Transition(r, "paused", wait, "none")
    BY <1>4 DEF SignalRow
  <2> QED BY <1>0, <2>1, <2>2 DEF Moves
<1> QED
  BY <1>1, <1>2, <1>3, <1>4 DEF Signals

\* Waking a row that waits for a child, ending a live row and parking a row in a
\* child wait are Moves.
LEMMA WakeMoves ==
    ASSUME NEW r, r.status = "waiting_event"
    PROVE  Moves(r, WakeRow(r))
<1>1. ValidState("runnable", NoWait, "none")
  BY DEF ValidState, NoWait
<1> QED
  BY <1>1, ConstantTypes
  DEF Moves, WakeRow, Live, Exists, Terminal, TerminalStatuses

\* Ending a live row with an outcome that fits the status is a Moves.
LEMMA EndMoves ==
    ASSUME NEW r, Live(r),
           NEW s, NEW c,
           <<s, c>> \in {<<"exited", "exited">>, <<"failed", "failed">>,
                        <<"failed", "scheduler_task_failed">>, <<"killed", "terminate">>,
                        <<"killed", "resource_limit_exceeded">>}
    PROVE  Moves(r, Transition(r, s, NoWait, c))
<1>1. ValidState(s, NoWait, c)
  BY DEF ValidState, NoWait
<1>2. s \in Statuses \ {"absent"} /\ c \in Codes /\ s # "running"
  BY ConstantTypes DEF TerminalStatuses
<1> QED
  BY <1>1, <1>2, ConstantTypes DEF Moves

\* Registering a wait for a child is a Moves.
LEMMA WaitMoves ==
    ASSUME NEW r, Live(r), NEW c \in Procs
    PROVE  Moves(r, Transition(r, "waiting_event", [kind |-> "child", on |-> {c}], "none"))
<1>1. ValidState("waiting_event", [kind |-> "child", on |-> {c}], "none")
  BY DEF ValidState
<1>2. "waiting_event" \in Statuses \ {"absent"} /\ "waiting_event" # "running"
  BY ConstantTypes DEF ConditionStatuses
<1> QED
  BY <1>1, <1>2, ConstantTypes DEF Moves

\* Publishing a created row as runnable is a Moves.
LEMMA PublishMoves ==
    ASSUME NEW r, r.status = "created"
    PROVE  Moves(r, Transition(r, "runnable", NoWait, "none"))
<1>1. ValidState("runnable", NoWait, "none")
  BY DEF ValidState, NoWait
<1> QED
  BY <1>1, ConstantTypes DEF Moves, Live, Exists, Terminal, TerminalStatuses

\* A step changes the table as a whole to another table, row by row.
Table == row' = [p \in Procs |-> row'[p]] /\ \A p \in Procs : Writes(p)

\* Writing one row by a Moves and waking the parent of its process.
LEMMA EndAndWake ==
    ASSUME TypeOK, NEW p \in Procs, NEW r, Moves(row[p], r), r.status \in TerminalStatuses,
           row' = WakeParent([row EXCEPT ![p] = r], p)
    PROVE  Table
<1> DEFINE rs == [row EXCEPT ![p] = r]
<1>1. row \in [Procs -> Rows]
  BY DEF TypeOK
<1>2. row' = [q \in Procs |-> row'[q]]
  BY DEF WakeParent
<1>3. ASSUME NEW q \in Procs PROVE Writes(q)
  <2>1. row'[q] = IF parent[p] = q /\ WaitsForChild(rs, q, p) THEN WakeRow(rs[q]) ELSE rs[q]
    BY DEF WakeParent
  <2>2. CASE q = p
    <3>1. rs[p] = r
      BY <1>1
    <3>2. ~WaitsForChild(rs, p, p)
      BY <3>1 DEF WaitsForChild, TerminalStatuses
    <3> QED BY <2>1, <2>2, <3>1, <3>2 DEF Writes
  <2>3. CASE q # p
    <3>1. rs[q] = row[q]
      BY <1>1, <2>3
    <3>2. WaitsForChild(rs, q, p) => Moves(row[q], WakeRow(row[q]))
      BY <3>1, WakeMoves DEF WaitsForChild
    <3> QED BY <2>1, <3>1, <3>2 DEF Writes
  <2> QED BY <2>2, <2>3
<1> QED BY <1>2, <1>3 DEF Table

\* Writing one row.
LEMMA WriteOne ==
    ASSUME TypeOK, NEW p \in Procs, NEW r, row' = [row EXCEPT ![p] = r],
           row'[p] = r => Writes(p)
    PROVE  Table
<1>1. row \in [Procs -> Rows]
  BY DEF TypeOK
<1>2. row' = [q \in Procs |-> row'[q]] /\ row'[p] = r
  BY <1>1
<1>3. \A q \in Procs : q # p => row'[q] = row[q]
  BY <1>1
<1> QED BY <1>2, <1>3 DEF Table, Writes

\* Writing nothing.
LEMMA WriteNone ==
    ASSUME TypeOK, UNCHANGED row
    PROVE  Table
<1>1. row \in [Procs -> Rows]
  BY DEF TypeOK
<1> QED BY <1>1 DEF Table, Writes

\* A signal writes the table as a whole.
LEMMA SignalTable ==
    ASSUME TypeOK, NEW p \in Procs, NEW sig \in Signals, NEW byHost,
           SignalApplicable(row[p], sig, byHost), ApplySignal(p, sig)
    PROVE  Table
<1>0. row[p] \in Rows
  BY DEF TypeOK
<1>1. Moves(row[p], SignalRow(row[p], sig))
  BY <1>0, SignalMoves
<1>2. CASE sig = "terminate"
  <2>1. SignalRow(row[p], sig) = Transition(row[p], "killed", NoWait, "terminate")
    BY <1>2 DEF SignalRow
  <2>2. SignalRow(row[p], sig).status \in TerminalStatuses
    BY <2>1, TransitionFields DEF TerminalStatuses
  <2>3. row' = WakeParent([row EXCEPT ![p] = SignalRow(row[p], sig)], p)
    BY <1>2 DEF ApplySignal
  <2> QED BY <1>1, <2>2, <2>3, EndAndWake
<1>3. CASE sig # "terminate"
  <2>1. row' = [row EXCEPT ![p] = SignalRow(row[p], sig)]
    BY <1>3 DEF ApplySignal
  <2>2. row'[p] = SignalRow(row[p], sig) => Writes(p)
    BY <1>1 DEF Writes
  <2> QED BY <2>1, <2>2, WriteOne
<1> QED BY <1>2, <1>3

\* An exit writes the table as a whole.
LEMMA ExitTable ==
    ASSUME TypeOK, NEW p \in Procs, NEW failed \in BOOLEAN, ExitTransaction(p, failed)
    PROVE  Table
<1> DEFINE status == IF failed THEN "failed" ELSE "exited"
           r == Transition(row[p], status, NoWait, status)
<1>1. Moves(row[p], r)
  BY EndMoves DEF ExitTransaction
<1>2. r.status \in TerminalStatuses
  BY TransitionFields DEF TerminalStatuses
<1>3. row' = WakeParent([row EXCEPT ![p] = r], p)
  BY DEF ExitTransaction
<1> QED BY <1>1, <1>2, <1>3, EndAndWake

\* Every action writes the table row by row, each row by one of the seven writes.
LEMMA StepTable ==
    ASSUME TypeOK, LaunchesOwned, [Next]_vars
    PROVE  Table
<1>0. row \in [Procs -> Rows] /\ epoch \in Nat
  BY DEF TypeOK
<1>pid. \A w \in Workers : worker[w].pc # "idle" => worker[w].pid \in Procs
  BY DEF LaunchesOwned
<1>busy. \A w \in Workers : worker[w].busy # NoProc =>
           worker[w].busy \in Procs /\ Incomplete(worker[w].busy)
  BY DEF TypeOK, LaunchesOwned, WorkerStates
<1>owns. \A w \in Workers : Owns(w) =>
           worker[w].pid \in Procs /\ row[worker[w].pid].status = "running"
                                   /\ Live(row[worker[w].pid])
  BY DEF TypeOK, WorkerStates, Owns, TokenCurrent, Live, Exists, Terminal, TerminalStatuses
<1>1. ASSUME NEW w \in Workers, NEW p \in Procs, ClaimExecution(w, p) PROVE Table
  <2>1. row' = [row EXCEPT ![p] = ClaimRow(row[p], epoch, w)]
    BY <1>1 DEF ClaimExecution
  <2>2. /\ row[p].status = "runnable" /\ worker[w].pc = "idle" /\ Open
        /\ worker'[w] = Claimed(p)
    BY <1>1 DEF ClaimExecution, Claimed, TypeOK
  <2> QED BY <2>1, <2>2, WriteOne DEF Writes
<1>2. ASSUME NEW w \in Workers, NEW raises \in BOOLEAN, EndQuantum(w, raises) PROVE Table
  BY <1>2, WriteNone DEF EndQuantum, stored
<1>3. ASSUME NEW w \in Workers, CompleteExecution(w) PROVE Table
  BY <1>3, <1>pid, <1>0, WriteOne DEF CompleteExecution, Writes
<1>4. ASSUME NEW w \in Workers, FailProcessTask(w) PROVE Table
  <2> DEFINE p == worker[w].pid
             r == Transition(row[p], "failed", NoWait, "scheduler_task_failed")
  <2>1. p \in Procs
    BY <1>4, <1>pid DEF FailProcessTask
  <2>2. CASE Live(row[p])
    <3>1. row' = [row EXCEPT ![p] = r]
      BY <1>4, <2>2 DEF FailProcessTask
    <3>2. Moves(row[p], r)
      BY <2>2, EndMoves
    <3> QED BY <2>1, <3>1, <3>2, WriteOne DEF Writes
  <2>3. CASE ~Live(row[p])
    BY <1>4, <2>3, WriteNone DEF FailProcessTask
  <2> QED BY <2>2, <2>3
<1>5. ASSUME NEW w \in Workers, NEW c \in Procs, WaitChild(w, c) PROVE Table
  <2> DEFINE p == worker[w].pid
             r == Transition(row[p], "waiting_event", [kind |-> "child", on |-> {c}], "none")
  <2>1. p \in Procs /\ Live(row[p])
    BY <1>5, <1>owns DEF WaitChild
  <2>2. row' = [row EXCEPT ![p] = r]
    BY <1>5 DEF WaitChild
  <2>3. Moves(row[p], r)
    BY <2>1, WaitMoves
  <2> QED BY <2>1, <2>2, <2>3, WriteOne DEF Writes
<1>6. ASSUME NEW p \in Procs, NEW c \in Procs, HostWait(p, c) PROVE Table
  <2> DEFINE r == Transition(row[p], "waiting_event", [kind |-> "child", on |-> {c}], "none")
  <2>1. CASE Live(row[c])
    <3>1. row' = [row EXCEPT ![p] = r] /\ Live(row[p])
      BY <1>6, <2>1 DEF HostWait
    <3>2. Moves(row[p], r)
      BY <3>1, WaitMoves
    <3> QED BY <3>1, <3>2, WriteOne DEF Writes
  <2>2. CASE ~Live(row[c])
    <3>1. row' = [row EXCEPT ![p] = WakeRow(row[p])] /\ row[p].status = "waiting_event"
      BY <1>6, <2>2 DEF HostWait, WaitsForChild
    <3>2. Moves(row[p], WakeRow(row[p]))
      BY <3>1, WakeMoves
    <3> QED BY <3>1, <3>2, WriteOne DEF Writes
  <2> QED BY <2>1, <2>2
<1>7. ASSUME NEW w \in Workers, NEW c \in Procs, LaunchBegin(w, c) PROVE Table
  BY <1>7, WriteNone DEF LaunchBegin
<1>8. ASSUME NEW w \in Workers, LaunchInsert(w) PROVE Table
  BY <1>8, <1>busy, WriteOne DEF LaunchInsert, Writes, TypeOK, Launches
<1>9. ASSUME NEW w \in Workers, LaunchCommit(w) PROVE Table
  <2> DEFINE c == worker[w].busy
             r == Transition(row[c], "runnable", NoWait, "none")
  <2>1. c \in Procs /\ row' = [row EXCEPT ![c] = r] /\ row[c].status = "created"
    BY <1>9, <1>busy DEF LaunchCommit
  <2>2. Moves(row[c], r)
    BY <2>1, PublishMoves
  <2> QED BY <2>1, <2>2, WriteOne DEF Writes
<1>10. ASSUME NEW w \in Workers, LaunchRollback(w) PROVE Table
  BY <1>10, <1>busy, WriteOne DEF LaunchRollback, DeleteScaffold, Writes
<1>11. ASSUME NEW p \in Procs, NEW sig \in Signals, HostSignal(p, sig) PROVE Table
  BY <1>11, SignalTable DEF HostSignal
<1>12. ASSUME NEW w \in Workers, NEW c \in Procs, NEW sig \in Signals, SignalChild(w, c, sig)
       PROVE Table
  BY <1>12, SignalTable DEF SignalChild
<1>13. ASSUME NEW w \in Workers, NEW failed \in BOOLEAN, Exit(w, failed) PROVE Table
  BY <1>13, <1>owns, ExitTable DEF Exit
<1>14. ASSUME NEW w \in Workers, FailedExitBegin(w) PROVE Table
  BY <1>14, WriteNone DEF FailedExitBegin, stored
<1>15. ASSUME NEW w \in Workers, NEW d \in Procs, FailedExitTerminate(w, d) PROVE Table
  <2>1. SignalApplicable(row[d], "terminate", TRUE)
    BY <1>15 DEF FailedExitTerminate, LiveDescendants, SignalApplicable
  <2> QED BY <1>15, <2>1, SignalTable DEF FailedExitTerminate, Signals
<1>25. ASSUME NEW p \in Procs, NEW d \in Procs, HostExitTerminate(p, d) PROVE Table
  <2>1. SignalApplicable(row[d], "terminate", TRUE)
    BY <1>25 DEF HostExitTerminate, LiveDescendants, SignalApplicable
  <2> QED BY <1>25, <2>1, SignalTable DEF HostExitTerminate, Signals
<1>16. ASSUME NEW w \in Workers, FailedExitRaise(w) PROVE Table
  BY <1>16, WriteNone DEF FailedExitRaise, stored
<1>17. ASSUME NEW p \in Procs, NEW failed \in BOOLEAN, HostExit(p, failed) PROVE Table
  BY <1>17, ExitTable DEF HostExit
<1>18. ASSUME NEW w \in Workers, NEW owner \in Procs, ResourceLimitKill(w, owner) PROVE Table
  <2> DEFINE killed == {q \in {owner} \cup Descendants(owner) : Live(row[q])}
             dead(q) == Transition(row[q], "killed", NoWait, "resource_limit_exceeded")
  <2>1. row' = [q \in Procs |-> IF q \in killed THEN dead(q) ELSE row[q]]
    BY <1>18 DEF ResourceLimitKill
  <2>2. \A q \in killed : Moves(row[q], dead(q))
    BY EndMoves
  <2> QED BY <2>1, <2>2 DEF Table, Writes
<1>19. ASSUME NEW p \in Procs, FinalizeKill(p) PROVE Table
  <2>1. row' = [q \in Procs |-> IF parent[p] = q /\ WaitsForChild(row, q, p)
                                  THEN WakeRow(row[q]) ELSE row[q]]
    BY <1>19 DEF FinalizeKill, WakeParent
  <2>2. \A q \in Procs : WaitsForChild(row, q, p) => Moves(row[q], WakeRow(row[q]))
    BY WakeMoves DEF WaitsForChild
  <2> QED BY <2>1, <2>2 DEF Table, Writes
<1>20. CASE Crash
  BY <1>20, WriteNone DEF Crash, stored
<1>21. ASSUME NEW c \in Procs, RecoverLaunch(c) PROVE Table
  BY <1>21, WriteOne DEF RecoverLaunch, DeleteScaffold, Writes
<1>22. ASSUME NEW p \in Procs, RecoverExecution(p) PROVE Table
  BY <1>22, WriteOne DEF RecoverExecution, IsStaleExecution, Writes
<1>23. CASE NextStage
  BY <1>23, WriteNone DEF NextStage, stored
<1>24. CASE UNCHANGED vars
  BY <1>24, WriteNone DEF vars
<1> QED
  BY <1>1, <1>2, <1>3, <1>4, <1>5, <1>6, <1>7, <1>8, <1>9, <1>10, <1>11, <1>12, <1>13,
     <1>14, <1>15, <1>16, <1>17, <1>18, <1>19, <1>20, <1>21, <1>22, <1>23, <1>24, <1>25
  DEF Next, WorkerStep, HostStep

-------------------------------------------------------------------------------
(* Types *)

\* The seven writes keep a row a row.
LEMMA WritesType ==
    ASSUME TypeOK, NEW p \in Procs, Writes(p)
    PROVE  row'[p] \in Rows
<1>1. row[p] \in Rows /\ epoch \in Nat
  BY DEF TypeOK
<1>2. ASSUME Moves(row[p], row'[p]) PROVE row'[p] \in Rows
  BY <1>1, <1>2, TransitionType DEF Moves
<1> QED
  BY <1>1, <1>2, ConstantTypes, ExecutionRowTypes DEF Writes

\* Everything but the table keeps its type.
LEMMA TypeStep ==
    ASSUME TypeOK, LaunchesOwned, [Next]_vars
    PROVE  TypeOK'
<1> DEFINE Rest ==
        /\ parent \in [Procs -> Procs \cup {NoProc}]
        /\ launch \in [Procs -> Launches]
        /\ reserved \subseteq Procs
        /\ worker \in [Workers -> WorkerStates]
        /\ limitKilled \subseteq Procs
        /\ epoch \in Nat \ {NoOwner}
        /\ mode \in Modes
        /\ used \in Bounds
<1>row. row' \in [Procs -> Rows]
  BY StepTable, WritesType DEF Table
<1>rest. Rest /\ row \in [Procs -> Rows]
  BY DEF TypeOK
<1>pid. \A w \in Workers : worker[w].pc # "idle" => worker[w].pid \in Procs
  BY DEF LaunchesOwned
<1>busy. \A w \in Workers : worker[w].busy # NoProc => worker[w].busy \in Procs
  BY <1>rest DEF WorkerStates
<1>idle. IdleWorker \in WorkerStates
  BY DEF IdleWorker, WorkerStates
<1>settle. ASSUME NEW w \in Workers, NEW err \in BOOLEAN
           PROVE ToSettle(worker[w], err) \in WorkerStates
  BY <1>rest DEF ToSettle, WorkerStates
<1> HIDE DEF Rest
<1>1. ASSUME NEW w \in Workers, NEW p \in Procs, ClaimExecution(w, p) PROVE Rest'
  <2> DEFINE new == [pc |-> "quantum", pid |-> p, gen |-> row[p].egen + 1, owner |-> epoch,
                     busy |-> NoProc, err |-> FALSE]
  <2>1. new \in WorkerStates
    BY <1>rest DEF Rest, WorkerStates, Rows
  <2>2. worker' = [worker EXCEPT ![w] = new]
    BY <1>1 DEF ClaimExecution
  <2>3. worker' \in [Workers -> WorkerStates]
    BY <1>rest, <2>1, <2>2 DEF Rest
  <2>4. used' \in Bounds
    BY <1>1, <1>rest DEF ClaimExecution, Rest, Bounds
  <2> QED BY <1>1, <1>rest, <2>3, <2>4 DEF ClaimExecution, Rest, runtime
<1>2. ASSUME NEW w \in Workers, NEW raises \in BOOLEAN, EndQuantum(w, raises) PROVE Rest'
  <2>1. worker' \in [Workers -> WorkerStates]
    BY <1>2, <1>rest, <1>settle DEF EndQuantum, Rest
  <2>2. used' \in Bounds
    BY <1>2, <1>rest DEF EndQuantum, Rest, Bounds
  <2> QED BY <1>2, <1>rest, <2>1, <2>2 DEF EndQuantum, Rest, stored, runtime
<1>3. ASSUME NEW w \in Workers, CompleteExecution(w) PROVE Rest'
  BY <1>3, <1>rest, <1>idle DEF CompleteExecution, Rest, runtime, WorkerStates
<1>4. ASSUME NEW w \in Workers, FailProcessTask(w) PROVE Rest'
  BY <1>4, <1>rest, <1>idle DEF FailProcessTask, Rest, runtime
<1>5. ASSUME NEW w \in Workers, NEW c \in Procs, WaitChild(w, c) PROVE Rest'
  BY <1>5, <1>rest DEF WaitChild, Rest, threads, runtime
<1>6. ASSUME NEW p \in Procs, NEW c \in Procs, HostWait(p, c) PROVE Rest'
  BY <1>6, <1>rest DEF HostWait, Rest, threads, runtime, Bounds
<1>7. ASSUME NEW w \in Workers, NEW c \in Procs, LaunchBegin(w, c) PROVE Rest'
  <2>1. worker[w].pid \in Procs
    BY <1>7, <1>pid DEF LaunchBegin, InQuantum
  <2>2. launch' \in [Procs -> Launches]
    BY <1>7, <1>rest, <2>1 DEF LaunchBegin, Rest, Launches, Rows
  <2>3. worker' \in [Workers -> WorkerStates]
    BY <1>7, <1>rest DEF LaunchBegin, Rest, WorkerStates
  <2> QED BY <1>7, <1>rest, <2>1, <2>2, <2>3 DEF LaunchBegin, Rest, runtime
<1>8. ASSUME NEW w \in Workers, LaunchInsert(w) PROVE Rest'
  BY <1>8, <1>rest, <1>busy DEF LaunchInsert, Rest, threads, runtime, Launches
<1>9. ASSUME NEW w \in Workers, LaunchCommit(w) PROVE Rest'
  <2>1. worker' \in [Workers -> WorkerStates]
    BY <1>9, <1>rest DEF LaunchCommit, Rest, WorkerStates
  <2>2. launch' \in [Procs -> Launches]
    BY <1>9, <1>rest, <1>busy, ConstantTypes DEF LaunchCommit, Rest, Launches, NoLaunch
  <2> QED BY <1>9, <1>rest, <2>1, <2>2 DEF LaunchCommit, Rest, runtime
<1>d. ASSUME NEW c \in Procs, DeleteScaffold(c)
      PROVE /\ parent' \in [Procs -> Procs \cup {NoProc}]
            /\ launch' \in [Procs -> Launches]
            /\ reserved' \subseteq Procs
  BY <1>d, <1>rest, ConstantTypes DEF DeleteScaffold, Rest, Launches, NoLaunch
<1>10. ASSUME NEW w \in Workers, LaunchRollback(w) PROVE Rest'
  BY <1>10, <1>rest, <1>busy, <1>d DEF LaunchRollback, Rest, runtime, WorkerStates
<1>s. ASSUME NEW p \in Procs, NEW sig, ApplySignal(p, sig) PROVE reserved' \subseteq Procs
  BY <1>s, <1>rest DEF ApplySignal, Rest
<1>11. ASSUME NEW p \in Procs, NEW sig \in Signals, HostSignal(p, sig) PROVE Rest'
  BY <1>11, <1>rest, <1>s DEF HostSignal, Rest, threads, runtime, Bounds
<1>12. ASSUME NEW w \in Workers, NEW c \in Procs, NEW sig \in Signals, SignalChild(w, c, sig)
       PROVE Rest'
  BY <1>12, <1>rest, <1>s DEF SignalChild, Rest, threads, runtime, Bounds
<1>13. ASSUME NEW w \in Workers, NEW failed \in BOOLEAN, Exit(w, failed) PROVE Rest'
  <2>1. worker' \in [Workers -> WorkerStates]
    BY <1>13, <1>rest, <1>settle DEF Exit, Rest
  <2> QED BY <1>13, <1>rest, <2>1 DEF Exit, ExitTransaction, Rest, runtime
<1>14. ASSUME NEW w \in Workers, FailedExitBegin(w) PROVE Rest'
  BY <1>14, <1>rest DEF FailedExitBegin, Rest, stored, runtime, WorkerStates
<1>15. ASSUME NEW w \in Workers, NEW d \in Procs, FailedExitTerminate(w, d) PROVE Rest'
  BY <1>15, <1>rest, <1>s DEF FailedExitTerminate, Rest, threads, runtime
<1>26. ASSUME NEW p \in Procs, NEW d \in Procs, HostExitTerminate(p, d) PROVE Rest'
  BY <1>26, <1>rest, <1>s DEF HostExitTerminate, Rest, threads, runtime
<1>16. ASSUME NEW w \in Workers, FailedExitRaise(w) PROVE Rest'
  BY <1>16, <1>rest DEF FailedExitRaise, Rest, stored, runtime, WorkerStates
<1>17. ASSUME NEW p \in Procs, NEW failed \in BOOLEAN, HostExit(p, failed) PROVE Rest'
  BY <1>17, <1>rest DEF HostExit, ExitTransaction, Rest, threads, runtime, Bounds
<1>18. ASSUME NEW w \in Workers, NEW owner \in Procs, ResourceLimitKill(w, owner) PROVE Rest'
  <2>1. worker' \in [Workers -> WorkerStates]
    BY <1>18, <1>rest, <1>settle DEF ResourceLimitKill, Rest
  <2>2. reserved' \subseteq Procs /\ limitKilled' \subseteq Procs
    BY <1>18, <1>rest DEF ResourceLimitKill, Rest, Descendants, Below
  <2> QED BY <1>18, <1>rest, <2>1, <2>2 DEF ResourceLimitKill, Rest, runtime
<1>19. ASSUME NEW p \in Procs, FinalizeKill(p) PROVE Rest'
  BY <1>19, <1>rest DEF FinalizeKill, Rest, runtime
<1>20. ASSUME Crash PROVE Rest'
  BY <1>20, <1>rest, <1>idle DEF Crash, Rest, stored, Modes, Bounds
<1>21. ASSUME NEW c \in Procs, RecoverLaunch(c) PROVE Rest'
  BY <1>21, <1>rest, <1>d DEF RecoverLaunch, Rest, threads, runtime
<1>22. ASSUME NEW p \in Procs, RecoverExecution(p) PROVE Rest'
  BY <1>22, <1>rest DEF RecoverExecution, Rest, threads, runtime
<1>23. ASSUME NextStage PROVE Rest'
  BY <1>23, <1>rest DEF NextStage, Rest, stored, threads, Modes
<1>24. ASSUME UNCHANGED vars PROVE Rest'
  BY <1>24, <1>rest DEF vars, Rest
<1>25. Rest'
  BY <1>1, <1>2, <1>3, <1>4, <1>5, <1>6, <1>7, <1>8, <1>9, <1>10, <1>11, <1>12, <1>13,
     <1>14, <1>15, <1>16, <1>17, <1>18, <1>19, <1>20, <1>21, <1>22, <1>23, <1>24, <1>26
  DEF Next, WorkerStep, HostStep
<1> QED
  BY <1>row, <1>25 DEF TypeOK, Rest

-------------------------------------------------------------------------------
(* Launches *)

\* A pid without a row gets one only when its launch becomes "applying".
LEMMA AbsentStays ==
    ASSUME NEW p \in Procs, Writes(p), ~Exists(row[p]), launch'[p].state # "applying"
    PROVE  ~Exists(row'[p])
  BY DEF Writes, Exists, Moves, Live, AbsentRow, CompleteRow, TokenCurrent

\* The bookkeeping of launches is inductive, given the types.
LEMMA LaunchesStep ==
    ASSUME TypeOK, LaunchesOwned, [Next]_vars
    PROVE  LaunchesOwned'
<1> USE DEF Open
<1>0. /\ launch \in [Procs -> Launches]
      /\ worker \in [Workers -> WorkerStates]
      /\ \A w \in Workers : worker[w].pid \in Procs \cup {NoProc}
                           /\ worker[w].busy \in Procs \cup {NoProc}
  BY DEF TypeOK, WorkerStates
<1>inv. /\ \A w \in Workers : worker[w].pc # "idle" => mode = "open" /\ worker[w].pid \in Procs
        /\ \A w \in Workers : worker[w].pc = "idle" => worker[w].pid = NoProc
        /\ \A w \in Workers : worker[w].busy # NoProc =>
             worker[w].pc = "quantum" /\ Incomplete(worker[w].busy)
        /\ \A w, v \in Workers :
             worker[w].busy # NoProc /\ worker[w].busy = worker[v].busy => w = v
        /\ \A c \in Procs : launch[c].state = "planning" => ~Exists(row[c])
  BY DEF LaunchesOwned
<1>tab. \A p \in Procs : Writes(p)
  BY StepTable DEF Table
<1>abs. ASSUME \A c \in Procs : launch'[c].state = "planning" => ~Exists(row[c])
        PROVE  \A c \in Procs : launch'[c].state = "planning" => ~Exists(row'[c])
  BY <1>abs, <1>tab, AbsentStays
<1>same. ASSUME UNCHANGED <<worker, launch, mode>> PROVE LaunchesOwned'
  BY <1>same, <1>inv, <1>abs DEF LaunchesOwned, Incomplete
\* Steps of one worker that leave launches alone and keep it free or busy as it was.
<1>one. ASSUME NEW w \in Workers, NEW ws, UNCHANGED <<launch, mode>>,
               worker' = [worker EXCEPT ![w] = ws],
               ws.busy = worker[w].busy, ws.busy # NoProc => ws.pc = "quantum",
               ws.pc # "idle" => mode = "open" /\ ws.pid \in Procs,
               ws.pc = "idle" => ws.pid = NoProc
        PROVE  LaunchesOwned'
  <2>1. \A v \in Workers : worker'[v] = IF v = w THEN ws ELSE worker[v]
    BY <1>0, <1>one
  <2> QED BY <2>1, <1>one, <1>inv, <1>abs DEF LaunchesOwned, Incomplete
<1>1. ASSUME NEW w \in Workers, NEW p \in Procs, ClaimExecution(w, p) PROVE LaunchesOwned'
  <2> DEFINE ws == [pc |-> "quantum", pid |-> p, gen |-> row[p].egen + 1, owner |-> epoch,
                     busy |-> NoProc, err |-> FALSE]
  <2>1. worker[w].busy = NoProc
    BY <1>1, <1>inv DEF ClaimExecution
  <2>2. worker' = [worker EXCEPT ![w] = ws] /\ UNCHANGED <<launch, mode>> /\ mode = "open"
    BY <1>1 DEF ClaimExecution, runtime
  <2>3. ws.busy = NoProc /\ ws.pid = p /\ ws.pc = "quantum"
    OBVIOUS
  <2> HIDE DEF ws
  <2> QED BY <2>1, <2>2, <2>3, <1>one
<1>st. ASSUME NEW w \in Workers, NEW err, worker[w].busy = NoProc, worker[w].pc # "idle",
              UNCHANGED <<launch, mode>>,
              worker' = [worker EXCEPT ![w] = ToSettle(worker[w], err)]
       PROVE  LaunchesOwned'
  <2> DEFINE ws == ToSettle(worker[w], err)
  <2>1. ws.busy = NoProc /\ ws.pid = worker[w].pid /\ ws.pc = "settle"
    BY <1>st DEF ToSettle
  <2> HIDE DEF ws
  <2> QED BY <2>1, <1>st, <1>inv, <1>one DEF ws
<1>2. ASSUME NEW w \in Workers, NEW raises \in BOOLEAN, EndQuantum(w, raises)
      PROVE LaunchesOwned'
  BY <1>2, <1>st DEF EndQuantum, InQuantum, stored, runtime
<1>idle. IdleWorker.busy = NoProc /\ IdleWorker.pc = "idle" /\ IdleWorker.pid = NoProc
  BY DEF IdleWorker
<1>3. ASSUME NEW w \in Workers, CompleteExecution(w) PROVE LaunchesOwned'
  <2>1. worker[w].busy = NoProc
    BY <1>3, <1>inv DEF CompleteExecution
  <2>2. CASE worker[w].err
    <3> DEFINE ws == [worker[w] EXCEPT !.pc = "failing"]
    <3>1. ws.busy = NoProc /\ ws.pid = worker[w].pid /\ ws.pc = "failing"
      BY <1>0, <2>1 DEF WorkerStates
    <3>2. worker' = [worker EXCEPT ![w] = ws] /\ UNCHANGED <<launch, mode>>
          /\ mode = "open" /\ worker[w].pid \in Procs
      BY <1>3, <2>2, <1>inv DEF CompleteExecution, runtime
    <3> HIDE DEF ws
    <3> QED BY <2>1, <3>1, <3>2, <1>one
  <2>3. CASE ~worker[w].err
    BY <1>3, <2>1, <2>3, <1>one, <1>idle DEF CompleteExecution, runtime
  <2> QED BY <2>2, <2>3
<1>4. ASSUME NEW w \in Workers, FailProcessTask(w) PROVE LaunchesOwned'
  <2>1. worker[w].busy = NoProc
    BY <1>4, <1>inv DEF FailProcessTask
  <2> QED BY <1>4, <2>1, <1>one, <1>idle DEF FailProcessTask, runtime
<1>7. ASSUME NEW w \in Workers, NEW c \in Procs, LaunchBegin(w, c) PROVE LaunchesOwned'
  <2> DEFINE l == [state |-> "planning", sgen |-> row[worker[w].pid].sgen,
                   status |-> row[worker[w].pid].status]
  <2>a. l.state = "planning" /\ launch' = [launch EXCEPT ![c] = l]
    BY <1>7 DEF LaunchBegin
  <2> HIDE DEF l
  <2>1. /\ \A v \in Workers : /\ worker'[v].pc = worker[v].pc /\ worker'[v].pid = worker[v].pid
                               /\ worker'[v].busy = IF v = w THEN c ELSE worker[v].busy
        /\ \A d \in Procs : launch'[d].state = IF d = c THEN "planning" ELSE launch[d].state
    BY <1>7, <1>0, <2>a DEF LaunchBegin, WorkerStates
  <2>2. launch[c].state = "none" /\ ~Exists(row[c]) /\ worker[w].pc = "quantum" /\ UNCHANGED mode
    BY <1>7 DEF LaunchBegin, InQuantum, runtime
  <2>3. \A v \in Workers : worker[v].busy # c
    BY <2>2, <1>inv, LifecycleAssumption DEF Incomplete
  <2> QED BY <2>1, <2>2, <2>3, <1>inv, <1>abs, <1>0 DEF LaunchesOwned, Incomplete
<1>8. ASSUME NEW w \in Workers, LaunchInsert(w) PROVE LaunchesOwned'
  <2>1. \A d \in Procs :
          launch'[d].state = IF d = worker[w].busy THEN "applying" ELSE launch[d].state
    BY <1>8, <1>0 DEF LaunchInsert, Launches
  <2> QED
    BY <1>8, <2>1, <1>inv, <1>0, <1>abs
    DEF LaunchInsert, LaunchesOwned, Incomplete, threads, runtime
\* A launch that resolves: it is no longer in progress and its worker is free.
<1>res. ASSUME NEW w \in Workers, worker[w].busy # NoProc, UNCHANGED mode,
               worker' = [worker EXCEPT ![w].busy = NoProc],
               NEW l, l.state \notin {"planning", "applying"},
               launch' = [launch EXCEPT ![worker[w].busy] = l]
        PROVE  LaunchesOwned'
  <2>1. /\ \A v \in Workers : /\ worker'[v].pc = worker[v].pc /\ worker'[v].pid = worker[v].pid
                               /\ worker'[v].busy = IF v = w THEN NoProc ELSE worker[v].busy
        /\ \A d \in Procs : launch'[d] = IF d = worker[w].busy THEN l ELSE launch[d]
    BY <1>res, <1>0 DEF WorkerStates
  <2> QED BY <2>1, <1>res, <1>inv, <1>abs, <1>0 DEF LaunchesOwned, Incomplete
<1>9. ASSUME NEW w \in Workers, LaunchCommit(w) PROVE LaunchesOwned'
  <2> DEFINE l == [NoLaunch EXCEPT !.state = "committed"]
  <2>1. l.state = "committed"
    BY DEF NoLaunch
  <2>2. /\ worker[w].busy # NoProc /\ UNCHANGED mode
        /\ worker' = [worker EXCEPT ![w].busy = NoProc]
        /\ launch' = [launch EXCEPT ![worker[w].busy] = l]
    BY <1>9 DEF LaunchCommit, runtime
  <2> HIDE DEF l
  <2> QED BY <2>1, <2>2, <1>res
<1>10. ASSUME NEW w \in Workers, LaunchRollback(w) PROVE LaunchesOwned'
  <2> DEFINE l == [NoLaunch EXCEPT !.state = "rolled_back"]
  <2>1. l.state = "rolled_back"
    BY DEF NoLaunch
  <2>2. /\ worker[w].busy # NoProc /\ UNCHANGED mode
        /\ worker' = [worker EXCEPT ![w].busy = NoProc]
        /\ launch' = [launch EXCEPT ![worker[w].busy] = l]
    BY <1>10 DEF LaunchRollback, DeleteScaffold, runtime
  <2> HIDE DEF l
  <2> QED BY <2>1, <2>2, <1>res
<1>pc. ASSUME NEW w \in Workers, NEW pc, pc # "idle", worker[w].busy = NoProc,
              worker[w].pc # "idle",
              UNCHANGED <<launch, mode>>, worker' = [worker EXCEPT ![w].pc = pc]
       PROVE  LaunchesOwned'
  <2>1. \A v \in Workers : /\ worker'[v].pc = IF v = w THEN pc ELSE worker[v].pc
                           /\ worker'[v].pid = worker[v].pid /\ worker'[v].busy = worker[v].busy
    BY <1>pc, <1>0 DEF WorkerStates
  <2> QED BY <2>1, <1>pc, <1>inv, <1>abs DEF LaunchesOwned, Incomplete
<1>13. ASSUME NEW w \in Workers, NEW failed \in BOOLEAN, Exit(w, failed) PROVE LaunchesOwned'
  <2>1. worker[w].busy = NoProc /\ worker[w].pc # "idle"
    BY <1>13, <1>inv DEF Exit, InQuantum
  <2> QED BY <1>13, <2>1, <1>st DEF Exit, runtime
<1>14. ASSUME NEW w \in Workers, FailedExitBegin(w) PROVE LaunchesOwned'
  BY <1>14, <1>pc DEF FailedExitBegin, InQuantum, stored, runtime
<1>16. ASSUME NEW w \in Workers, FailedExitRaise(w) PROVE LaunchesOwned'
  <2>1. worker[w].busy = NoProc
    BY <1>16, <1>inv DEF FailedExitRaise
  <2> QED BY <1>16, <2>1, <1>pc DEF FailedExitRaise, stored, runtime
<1>18. ASSUME NEW w \in Workers, NEW owner \in Procs, ResourceLimitKill(w, owner)
       PROVE LaunchesOwned'
  BY <1>18, <1>st DEF ResourceLimitKill, runtime
<1>20. ASSUME Crash PROVE LaunchesOwned'
  <2>1. \A w \in Workers : worker'[w] = IdleWorker
    BY <1>20 DEF Crash
  <2> QED BY <1>20, <2>1, <1>idle, <1>inv, <1>abs DEF Crash, LaunchesOwned, stored
<1>21. ASSUME NEW c \in Procs, RecoverLaunch(c) PROVE LaunchesOwned'
  <2>1. \A w \in Workers : worker[w].pc = "idle" /\ worker[w].busy = NoProc
    BY <1>21, <1>inv DEF RecoverLaunch
  <2>2. \A d \in Procs : launch'[d].state = IF d = c THEN "rolled_back" ELSE launch[d].state
    BY <1>21, <1>0 DEF RecoverLaunch, DeleteScaffold, NoLaunch
  <2> QED BY <1>21, <2>1, <2>2, <1>inv, <1>abs DEF RecoverLaunch, LaunchesOwned, threads, runtime
<1>23. ASSUME NextStage PROVE LaunchesOwned'
  <2>1. \A w \in Workers : worker[w].pc = "idle" /\ worker[w].busy = NoProc
    BY <1>23, <1>inv DEF NextStage
  <2> QED BY <1>23, <2>1, <1>inv, <1>abs DEF NextStage, LaunchesOwned, stored, threads
<1> QED
  <2>1. ASSUME NEW w \in Workers, WorkerStep(w) PROVE LaunchesOwned'
    BY <2>1, <1>1, <1>2, <1>3, <1>4, <1>7, <1>8, <1>9, <1>10, <1>13, <1>14, <1>16, <1>18, <1>same
    DEF WorkerStep, WaitChild, FailedExitTerminate, SignalChild, threads, runtime
  <2>2. ASSUME NEW p \in Procs, HostStep(p) \/ FinalizeKill(p) \/ RecoverExecution(p)
        PROVE LaunchesOwned'
    BY <2>2, <1>same
    DEF HostStep, HostSignal, HostWait, HostExitTerminate, HostExit, FinalizeKill,
        RecoverExecution, threads, runtime
  <2> QED BY <2>1, <2>2, <1>20, <1>21, <1>23, <1>same DEF Next, vars

-------------------------------------------------------------------------------
(* What the writes of a row preserve *)

\* A terminal row is only ever deleted, and only by compensating its launch.
LEMMA WritesTerminal ==
    ASSUME LaunchesOwned, NEW p \in Procs, Writes(p), Terminal(row[p])
    PROVE  row'[p] = row[p] \/ (Incomplete(p) /\ ~Exists(row'[p]))
<1>1. row[p].status \notin {"runnable", "running"} /\ ~Live(row[p]) /\ Exists(row[p])
  BY DEF Terminal, Live, Exists, TerminalStatuses
<1>2. launch[p].state # "planning"
  BY <1>1 DEF LaunchesOwned
<1>3. \A tok : CompleteRow(row[p], tok) = row[p]
  BY <1>1 DEF CompleteRow, TokenCurrent
<1>4. ~Exists(AbsentRow)
  BY DEF Exists, AbsentRow
<1> QED
  BY <1>1, <1>2, <1>3, <1>4 DEF Writes, Moves

\* The states of a row stay ones that the store accepts.
LEMMA WritesConsistent ==
    ASSUME NEW p \in Procs, Writes(p), ValidState(row[p].status, row[p].wait, row[p].code)
    PROVE  ValidState(row'[p].status, row'[p].wait, row'[p].code)
<1>1. CASE Moves(row[p], row'[p])
  <2>1. PICK status, wait, code : /\ ValidState(status, wait, code)
                                  /\ row'[p] = Transition(row[p], status, wait, code)
    BY <1>1 DEF Moves
  <2> QED BY <2>1, TransitionFields
<1>2. /\ ValidState("running", NoWait, "none") /\ ValidState("runnable", NoWait, "none")
      /\ ValidState("created", NoWait, "none") /\ ValidState("absent", NoWait, "none")
      /\ ValidState("paused", [kind |-> "stale_execution", on |-> {}], "none")
  BY DEF ValidState, NoWait
<1>3. ASSUME NEW w, row'[p] = ClaimRow(row[p], epoch, w)
      PROVE ValidState(row'[p].status, row'[p].wait, row'[p].code)
  BY <1>2, <1>3 DEF ClaimRow
<1>4. ASSUME NEW tok, row'[p] = CompleteRow(row[p], tok)
      PROVE ValidState(row'[p].status, row'[p].wait, row'[p].code)
  BY <1>2, <1>4 DEF CompleteRow
<1>5. ASSUME row'[p] \in {RecoverStaleRow(row[p]), InsertProcess, AbsentRow}
      PROVE ValidState(row'[p].status, row'[p].wait, row'[p].code)
  BY <1>2, <1>5 DEF RecoverStaleRow, InsertProcess, AbsentRow
<1> QED
  BY <1>1, <1>3, <1>4, <1>5 DEF Writes

\* A row that is running after a write was just claimed, or was running before
\* under the same execution tuple.
LEMMA WritesRunning ==
    ASSUME NEW p \in Procs, Writes(p), row'[p].status = "running"
    PROVE  \/ /\ row[p].status = "running" /\ row'[p].egen = row[p].egen
              /\ row'[p].owner = row[p].owner /\ row'[p].lease = row[p].lease
           \/ \E w \in Workers :
                /\ worker[w].pc = "idle" /\ worker'[w] = Claimed(p) /\ Open
                /\ row'[p] = ClaimRow(row[p], epoch, w)
<1>1. CASE Moves(row[p], row'[p])
  <2>1. PICK status, wait, code : /\ status = "running" => row[p].status = "running"
                                  /\ row'[p] = Transition(row[p], status, wait, code)
    BY <1>1 DEF Moves
  <2>2. row'[p].status = status
    BY <2>1, TransitionFields
  <2>3. status = "running" /\ row[p].status = "running"
    BY <2>1, <2>2
  <2>4. ~EndsExecution(row[p], status)
    BY <2>3 DEF EndsExecution, TerminalStatuses
  <2> QED BY <2>1, <2>3, <2>4, TransitionFields
<1>2. InsertProcess.status # "running" /\ AbsentRow.status # "running"
      /\ RecoverStaleRow(row[p]).status # "running"
  BY DEF InsertProcess, AbsentRow, RecoverStaleRow
<1>3. \A tok : CompleteRow(row[p], tok).status = "running" => CompleteRow(row[p], tok) = row[p]
  BY DEF CompleteRow
<1> QED
  BY <1>1, <1>2, <1>3 DEF Writes

-------------------------------------------------------------------------------
(* The inductive invariant *)

\* Only a crash changes the epoch; only a crash and a recovery stage the mode.
LEMMA EpochStep ==
    ASSUME [Next]_vars
    PROVE  UNCHANGED <<epoch, mode>> \/ Crash \/ NextStage
<1>1. ASSUME NEW w \in Workers, WorkerStep(w) PROVE UNCHANGED runtime
  <2>1. ASSUME NEW p \in Procs,
               \/ ClaimExecution(w, p) \/ WaitChild(w, p) \/ LaunchBegin(w, p)
               \/ FailedExitTerminate(w, p) \/ ResourceLimitKill(w, p)
               \/ \E sig \in Signals : SignalChild(w, p, sig)
        PROVE UNCHANGED runtime
    BY <2>1 DEF ClaimExecution, WaitChild, LaunchBegin, FailedExitTerminate, ResourceLimitKill,
                SignalChild
  <2>2. ASSUME \E x \in BOOLEAN : EndQuantum(w, x) \/ Exit(w, x) PROVE UNCHANGED runtime
    BY <2>2 DEF EndQuantum, Exit
  <2>3. ASSUME \/ CompleteExecution(w) \/ FailProcessTask(w)
               \/ LaunchInsert(w) \/ LaunchCommit(w) \/ LaunchRollback(w)
               \/ FailedExitBegin(w) \/ FailedExitRaise(w)
        PROVE UNCHANGED runtime
    BY <2>3 DEF CompleteExecution, FailProcessTask, LaunchInsert, LaunchCommit, LaunchRollback,
                FailedExitBegin, FailedExitRaise
  <2> QED BY <1>1, <2>1, <2>2, <2>3 DEF WorkerStep
<1>2. ASSUME NEW p \in Procs,
             HostStep(p) \/ FinalizeKill(p) \/ RecoverLaunch(p) \/ RecoverExecution(p)
      PROVE UNCHANGED runtime
  BY <1>2
  DEF HostStep, HostSignal, HostWait, HostExitTerminate, HostExit, FinalizeKill, RecoverLaunch,
      RecoverExecution
<1> QED
  BY <1>1, <1>2 DEF Next, vars, runtime

\* A worker that is not idle keeps its process and its token, unless its quantum
\* is settled or failed, or the Runtime crashes.
LEMMA TokenStep ==
    ASSUME TypeOK, [Next]_vars, NEW w \in Workers, worker[w].pc # "idle"
    PROVE  \/ worker'[w].pid = worker[w].pid /\ Token(w)' = Token(w)
           \/ CompleteExecution(w) \/ FailProcessTask(w) \/ Crash
<1> DEFINE Kept == worker'[w].pid = worker[w].pid /\ Token(w)' = Token(w)
<1>0. worker \in [Workers -> WorkerStates]
  BY DEF TypeOK
<1>same. ASSUME worker'[w] = worker[w] PROVE Kept
  BY <1>same DEF Token
<1>other. ASSUME NEW v \in Workers, v # w, NEW ws, worker' = [worker EXCEPT ![v] = ws] PROVE Kept
  BY <1>other, <1>0, <1>same
<1>one. ASSUME NEW v \in Workers, NEW ws, worker' = [worker EXCEPT ![v] = ws],
               ws.pid = worker[v].pid, ws.gen = worker[v].gen, ws.owner = worker[v].owner
        PROVE Kept
  BY <1>one, <1>0, <1>other DEF Token
<1>st. ASSUME NEW v \in Workers, NEW err, worker' = [worker EXCEPT ![v] = ToSettle(worker[v], err)]
       PROVE Kept
  <2> DEFINE ws == ToSettle(worker[v], err)
  <2>1. ws.pid = worker[v].pid /\ ws.gen = worker[v].gen /\ ws.owner = worker[v].owner
    BY DEF ToSettle
  <2> HIDE DEF ws
  <2> QED BY <1>st, <2>1, <1>one DEF ws
<1>f. ASSUME NEW v \in Workers, NEW x,
             \/ worker' = [worker EXCEPT ![v].pc = x]
             \/ worker' = [worker EXCEPT ![v].busy = x]
      PROVE Kept
  BY <1>f, <1>0 DEF Token, WorkerStates
<1>1. ASSUME NEW v \in Workers, WorkerStep(v), ~CompleteExecution(w), ~FailProcessTask(w)
      PROVE Kept
  <2>1. CASE UNCHANGED worker
    BY <2>1, <1>same
  <2>2. ASSUME NEW p \in Procs, ClaimExecution(v, p) PROVE Kept
    <3>1. v # w
      BY <2>2 DEF ClaimExecution
    <3> QED BY <2>2, <3>1, <1>other DEF ClaimExecution
  <2>3. ASSUME CompleteExecution(v) \/ FailProcessTask(v) PROVE Kept
    <3>1. v # w
      BY <1>1, <2>3
    <3> QED BY <2>3, <3>1, <1>other DEF CompleteExecution, FailProcessTask
  <2>4. ASSUME NEW x, EndQuantum(v, x) \/ Exit(v, x) \/ ResourceLimitKill(v, x) PROVE Kept
    BY <2>4, <1>st DEF EndQuantum, Exit, ResourceLimitKill
  <2>5. ASSUME \/ LaunchInsert(v) \/ LaunchCommit(v) \/ LaunchRollback(v)
               \/ FailedExitBegin(v) \/ FailedExitRaise(v)
        PROVE Kept
    BY <2>5, <2>1, <1>f
    DEF LaunchInsert, LaunchCommit, LaunchRollback, FailedExitBegin, FailedExitRaise, threads
  <2>6. ASSUME NEW p \in Procs,
               \/ WaitChild(v, p) \/ LaunchBegin(v, p) \/ FailedExitTerminate(v, p)
               \/ \E sig \in Signals : SignalChild(v, p, sig)
        PROVE Kept
    BY <2>6, <2>1, <1>f DEF WaitChild, LaunchBegin, FailedExitTerminate, SignalChild, threads
  <2> QED BY <1>1, <2>2, <2>3, <2>4, <2>5, <2>6 DEF WorkerStep
<1>2. ASSUME NEW p \in Procs,
             HostStep(p) \/ FinalizeKill(p) \/ RecoverLaunch(p) \/ RecoverExecution(p)
      PROVE Kept
  BY <1>2, <1>same
  DEF HostStep, HostSignal, HostWait, HostExitTerminate, HostExit, FinalizeKill, RecoverLaunch,
      RecoverExecution, threads
<1>3. ASSUME NextStage \/ UNCHANGED vars PROVE Kept
  BY <1>3, <1>same DEF NextStage, vars, threads
<1> QED
  BY <1>1, <1>2, <1>3 DEF Next

\* The invariant holds at the start.
LEMMA InitIInv ==
    ASSUME Init
    PROVE  IInv
<1>1. InsertProcess \in Rows
  BY ConstantTypes
<1> DEFINE first == Transition(InsertProcess, "runnable", NoWait, "none")
<1>2. first \in Rows
  BY <1>1, ConstantTypes, TransitionType
<1>3. first.status = "runnable" /\ first.wait = NoWait /\ first.code = "none"
  BY TransitionFields
<1> HIDE DEF first
<1>4. \A p \in Procs : row[p] = IF p = Root THEN first ELSE AbsentRow
  BY DEF Init, first
<1>5. row \in [Procs -> Rows]
  BY <1>2, ConstantTypes DEF Init, first
<1>6. TypeOK
  BY <1>5, ConstantTypes
  DEF Init, TypeOK, Launches, NoLaunch, WorkerStates, IdleWorker, Modes, Bounds
<1>7. \A w \in Workers : worker[w].pc = "idle" /\ worker[w].pid = NoProc /\ worker[w].busy = NoProc
  BY DEF Init, IdleWorker
<1>8. \A p \in Procs : launch[p].state = "none"
  BY DEF Init, NoLaunch
<1>9. LaunchesOwned
  BY <1>7, <1>8 DEF LaunchesOwned
<1>10. StatesConsistent
  <2>1. ValidState("runnable", NoWait, "none")
    BY DEF ValidState, NoWait
  <2>2. ValidState(AbsentRow.status, AbsentRow.wait, AbsentRow.code)
    BY DEF ValidState, NoWait, AbsentRow
  <2> QED BY <1>3, <1>4, <2>1, <2>2 DEF StatesConsistent
<1>11. \A p \in Procs : row[p].status # "running"
  <2>1. AbsentRow.status = "absent"
    BY DEF AbsentRow
  <2> QED BY <1>3, <1>4, <2>1
<1> QED
  BY <1>6, <1>9, <1>10, <1>11 DEF IInv, OwnersPast, RunningHasItsWorker

\* The invariant is preserved.
LEMMA StepIInv ==
    ASSUME IInv, [Next]_vars
    PROVE  IInv'
<1> USE DEF Open
<1>0. TypeOK /\ LaunchesOwned /\ StatesConsistent /\ OwnersPast /\ RunningHasItsWorker
  BY DEF IInv
<1>1. TypeOK' /\ LaunchesOwned'
  BY <1>0, TypeStep, LaunchesStep
<1>2. \A p \in Procs : Writes(p)
  BY <1>0, StepTable DEF Table
<1>3. StatesConsistent'
  BY <1>0, <1>2, WritesConsistent DEF StatesConsistent
<1>e. epoch \in Nat /\ \A p \in Procs : row[p].owner \in Nat
  BY <1>0 DEF TypeOK, Rows
<1>4. OwnersPast'
  <2> SUFFICES ASSUME NEW p \in Procs, row'[p].status = "running"
               PROVE  row'[p].owner <= epoch' /\ (mode' # "open" => row'[p].owner # epoch')
    BY DEF OwnersPast
  <2>1. CASE UNCHANGED <<epoch, mode>>
    <3>1. CASE row[p].status = "running" /\ row'[p].owner = row[p].owner
      BY <3>1, <2>1, <1>0 DEF OwnersPast
    <3>2. CASE \E w \in Workers : mode = "open" /\ row'[p] = ClaimRow(row[p], epoch, w)
      <4>1. row'[p].owner = epoch
        BY <3>2 DEF ClaimRow
      <4> QED BY <4>1, <3>2, <2>1, <1>e
    <3> QED BY <3>1, <3>2, <1>2, WritesRunning
  <2>2. CASE Crash
    <3>1. row'[p].owner <= epoch /\ epoch' = epoch + 1
      BY <2>2, <1>0 DEF Crash, stored, OwnersPast
    <3>2. row'[p].owner \in Nat
      BY <2>2, <1>e DEF Crash, stored
    <3> QED BY <3>1, <3>2, <1>e
  <2>3. CASE NextStage
    BY <2>3, <1>0 DEF NextStage, stored, OwnersPast
  <2> QED BY <2>1, <2>2, <2>3, EpochStep
<1>5. RunningHasItsWorker'
  <2> SUFFICES ASSUME mode' = "open", NEW p \in Procs, row'[p].status = "running"
               PROVE  \E w \in Workers : worker'[w].pid = p /\ Owns(w)'
    BY DEF RunningHasItsWorker
  <2>0. p # NoProc
    BY LifecycleAssumption
  <2>1. CASE mode = "open"
    <3>1. CASE /\ row[p].status = "running" /\ row'[p].egen = row[p].egen
               /\ row'[p].owner = row[p].owner /\ row'[p].lease = row[p].lease
      <4>1. PICK w \in Workers : worker[w].pid = p /\ Owns(w)
        BY <3>1, <2>1, <1>0 DEF RunningHasItsWorker
      <4>2. worker[w].pc # "idle"
        BY <4>1, <2>0, <1>0 DEF LaunchesOwned
      <4>3. TokenCurrent(row[p], Token(w))
        BY <4>1 DEF Owns
      <4>4. ~CompleteExecution(w)
        <5>1. SUFFICES ASSUME CompleteExecution(w) PROVE FALSE
          OBVIOUS
        <5>2. row'[p] = CompleteRow(row[p], Token(w))
          BY <5>1, <4>1, <1>0 DEF CompleteExecution, TypeOK
        <5>3. row'[p].status = "runnable"
          BY <5>2, <4>3 DEF CompleteRow
        <5> QED BY <5>3, <3>1
      <4>5. ~FailProcessTask(w)
        <5>1. SUFFICES ASSUME FailProcessTask(w) PROVE FALSE
          OBVIOUS
        <5>2. Live(row[p])
          BY <3>1 DEF Live, Exists, Terminal, TerminalStatuses
        <5>3. row'[p] = Transition(row[p], "failed", NoWait, "scheduler_task_failed")
          BY <5>1, <5>2, <4>1, <1>0 DEF FailProcessTask, TypeOK
        <5> QED BY <5>3, TransitionFields
      <4>6. ~Crash
        BY <2>1 DEF Crash
      <4>7. worker'[w].pid = worker[w].pid /\ Token(w)' = Token(w)
        BY <4>2, <4>4, <4>5, <4>6, <1>0, TokenStep
      <4>8. TokenCurrent(row'[p], Token(w))
        BY <4>3, <3>1 DEF TokenCurrent
      <4> QED BY <4>1, <4>7, <4>8, <2>0 DEF Owns
    <3>2. CASE \E w \in Workers : /\ worker'[w] = Claimed(p)
                                  /\ row'[p] = ClaimRow(row[p], epoch, w)
      <4>1. PICK w \in Workers : worker'[w] = Claimed(p) /\ row'[p] = ClaimRow(row[p], epoch, w)
        BY <3>2
      <4>2. worker'[w].pid = p
        BY <4>1 DEF Claimed
      <4>3. Token(w)' = [gen |-> row[p].egen + 1, owner |-> epoch, lease |-> w]
        BY <4>1 DEF Claimed, Token
      <4>4. TokenCurrent(row'[p], Token(w)')
        BY <4>1, <4>3 DEF TokenCurrent, ClaimRow
      <4> QED BY <4>2, <4>4, <2>0 DEF Owns
    <3> QED BY <3>1, <3>2, <1>2, WritesRunning
  <2>2. CASE mode # "open"
    <3>1. NextStage
      BY <2>2, EpochStep DEF Crash
    <3>2. row[p].status = "running" /\ row[p].owner = epoch
      BY <3>1, <2>2 DEF NextStage, IsStaleExecution, stored
    <3> QED BY <3>2, <2>2, <1>0 DEF OwnersPast
  <2> QED BY <2>1, <2>2
<1> QED
  BY <1>1, <1>3, <1>4, <1>5 DEF IInv

\* The inductive invariant holds in every reachable state.
THEOREM Invariance == Spec => []IInv
<1>1. Init => IInv
  BY InitIInv
<1>2. IInv /\ [Next]_vars => IInv'
  BY StepIInv
<1> QED
  BY <1>1, <1>2, PTL DEF Spec

-------------------------------------------------------------------------------
(* The theorems *)

\* The variables keep their types, however the operations of workers, the Host
\* and recovery interleave.
THEOREM TypeCorrect == Spec => []TypeOK
<1>1. IInv => TypeOK
  BY DEF IInv
<1> QED
  BY <1>1, Invariance, PTL

\* No operation writes a status/wait/outcome product that
\* validate_process_state_fields refuses.
THEOREM ConsistentStates == Spec => []StatesConsistent
<1>1. IInv => StatesConsistent
  BY DEF IInv
<1> QED
  BY <1>1, Invariance, PTL

\* In an open Runtime every running row belongs to a worker with its exact token:
\* claim_execution, the settling of quanta and recover_stale_executions leave none
\* behind.
THEOREM RunningIsOwned == Spec => []RunningHasItsWorker
<1>1. IInv => RunningHasItsWorker
  BY DEF IInv
<1> QED
  BY <1>1, Invariance, PTL

\* No step rewrites a terminal row; only the compensation of its uncommitted
\* launch removes it.
THEOREM TerminalFinality == Spec => TerminalIsFinal
<1>1. ASSUME IInv, [Next]_vars
      PROVE  [\A p \in Procs : Terminal(row[p]) =>
                row'[p] = row[p] \/ (Incomplete(p) /\ ~Exists(row'[p]))]_vars
  BY <1>1, StepTable, WritesTerminal DEF IInv, Table
<1> QED
  BY <1>1, Invariance, PTL DEF Spec, TerminalIsFinal

\* A token that was fenced off is never accepted again while its worker holds it,
\* whoever claims the process afterwards.
THEOREM FencedTokens == Spec => FencedTokenStaysFenced
<1>1. ASSUME IInv, [Next]_vars
      PROVE  [\A w \in Workers :
                HoldsToken(w) /\ ~Owns(w) /\ HoldsToken(w)' => ~Owns(w)']_vars
  <2> SUFFICES ASSUME NEW w \in Workers, HoldsToken(w), HoldsToken(w)', Owns(w)'
               PROVE  Owns(w)
    OBVIOUS
  <2>0. TypeOK /\ LaunchesOwned
    BY <1>1 DEF IInv
  <2> DEFINE p == worker[w].pid
  <2>1. worker[w].pc # "idle" /\ p \in Procs /\ p # NoProc
    BY <2>0, LifecycleAssumption DEF HoldsToken, LaunchesOwned
  <2>2. ~CompleteExecution(w) /\ ~FailProcessTask(w) /\ ~Crash
    <3>1. ~CompleteExecution(w)
      BY <2>0
      DEF CompleteExecution, HoldsToken, TypeOK, WorkerStates, IdleWorker
    <3>2. ~FailProcessTask(w)
      BY DEF FailProcessTask, HoldsToken
    <3>3. ~Crash
      BY DEF Crash, HoldsToken, IdleWorker
    <3> QED BY <3>1, <3>2, <3>3
  <2>3. worker'[w].pid = p /\ Token(w)' = Token(w)
    BY <1>1, <2>0, <2>1, <2>2, TokenStep
  <2>4. TokenCurrent(row'[p], Token(w))
    BY <2>3 DEF Owns
  <2>5. row'[p].status = "running" /\ row'[p].lease = w
    BY <2>4 DEF TokenCurrent, Token
  <2>6. Writes(p)
    BY <1>1, <2>0, <2>1, StepTable DEF Table
  <2>7. ASSUME NEW v \in Workers, worker[v].pc = "idle", row'[p] = ClaimRow(row[p], epoch, v)
        PROVE FALSE
    <3>1. row'[p].lease = v
      BY <2>7 DEF ClaimRow
    <3> QED BY <3>1, <2>1, <2>5, <2>7
  <2>8. /\ row[p].status = "running" /\ row'[p].egen = row[p].egen
        /\ row'[p].owner = row[p].owner /\ row'[p].lease = row[p].lease
    BY <2>1, <2>5, <2>6, <2>7, WritesRunning
  <2> QED BY <2>1, <2>4, <2>8 DEF Owns, TokenCurrent
<1> QED
  BY <1>1, Invariance, PTL DEF Spec, FencedTokenStaysFenced

-------------------------------------------------------------------------------
(* Waits and reservations along the tree *)

\* Who waits for a child waits for a child of its own, or for one whose launch was
\* compensated since.
WaitedIsChild ==
    \A p, c \in Procs :
      WaitsForChild(row, p, c) => parent[c] = p \/ launch[c].state = "rolled_back"

\* The worker that carries a launch runs the parent of the child.
LaunchesCarried ==
    \A w \in Workers : worker[w].busy # NoProc => parent[worker[w].busy] = worker[w].pid

\* A pid that was never launched has no parent, and one without a row has no children
\* before its own launch is over.
FreshIsAlone ==
    \A c \in Procs :
      /\ launch[c].state = "none" => parent[c] = NoProc
      /\ launch[c].state \in {"none", "planning"} /\ ~Exists(row[c]) =>
           \A d \in Procs : parent[d] # c

\* A kill that is still to be finalized stands in the row.
KillStands ==
    \A c \in limitKilled :
      row[c].code = "resource_limit_exceeded" \/ launch[c].state = "rolled_back"

TreeInv ==
    /\ WaitedIsChild
    /\ FreshIsAlone
    /\ KillStands
    /\ NoStrandedParent
    /\ ReservationsExact

\* What a step leaves of a row: the row, or a live process that is not parked for an event.
Same(q) == row'[q] = row[q]
Goes(q) == Live(row[q]) /\ Live(row'[q]) /\ row'[q].status # "waiting_event"

\* The launch of c stands as it did, or it alone commits, under a parent that lives.
LaunchKept(c) ==
    \/ launch'[c].state = launch[c].state
    \/ /\ launch[c].state = "applying" /\ launch'[c].state = "committed"
       /\ Live(row[parent[c]])
       /\ \A d \in Procs : d # c => launch'[d].state = launch[d].state

\* The kinds of step, as the tree sees them.
Quiet ==
    /\ \A q \in Procs : Same(q) \/ Goes(q)
    /\ \A c \in Procs : LaunchKept(c)
    /\ UNCHANGED <<parent, reserved, limitKilled>>
    /\ used'.crashes = used.crashes

Parks(p, c) ==
    /\ parent[c] = p /\ Live(row[c]) /\ Live(row[p])
    /\ row'[p].status = "waiting_event" /\ row'[p].wait = [kind |-> "child", on |-> {c}]
    /\ \A q \in Procs : q # p => Same(q)
    /\ UNCHANGED <<parent, launch, reserved, limitKilled>>
    /\ used'.crashes = used.crashes

\* Whoever is its parent and waits for p is woken; the other rows are as they were.
Wakes(p, q) ==
    \/ Same(q) /\ ~(parent[p] = q /\ WaitsForChild(row, q, p))
    \/ Goes(q)

\* A process ends by a signal, or by an exit that found nothing alive below it.
Ends(p) ==
    /\ Live(row[p]) /\ Terminal(row'[p])
    /\ row'[p].code = "terminate" \/ LiveDescendants(p) = {}
    /\ \A q \in Procs : q # p => Wakes(p, q)
    /\ reserved' = {d \in reserved : d # p /\ parent[d] # p}
    /\ UNCHANGED <<parent, launch, limitKilled>>
    /\ used'.crashes = used.crashes

Fails(p) ==
    /\ Live(row[p]) /\ Terminal(row'[p]) /\ row'[p].code = "scheduler_task_failed"
    /\ \A q \in Procs : q # p => Same(q)
    /\ UNCHANGED <<parent, launch, reserved, limitKilled>>
    /\ used'.crashes = used.crashes

Kills(S) ==
    /\ \A q \in S : /\ Live(row[q]) /\ Terminal(row'[q])
                    /\ row'[q].code = "resource_limit_exceeded"
    /\ \A q \in Procs : q \notin S => Same(q)
    /\ reserved' = {d \in reserved : d \notin S /\ parent[d] \notin S}
    /\ limitKilled' = limitKilled \cup S
    /\ UNCHANGED <<parent, launch>>
    /\ used'.crashes = used.crashes

Finalizes(p) ==
    /\ \A q \in Procs : Wakes(p, q)
    /\ limitKilled' = limitKilled \ {p}
    /\ UNCHANGED <<parent, launch, reserved>>
    /\ used'.crashes = used.crashes

Begins(p, c) ==
    /\ Live(row[p]) /\ ~Exists(row[c]) /\ launch[c].state = "none"
    /\ parent'[c] = p /\ launch'[c].state = "planning"
    /\ \A q \in Procs : Same(q)
    /\ \A d \in Procs : d # c => parent'[d] = parent[d] /\ launch'[d] = launch[d]
    /\ UNCHANGED <<reserved, limitKilled>>
    /\ used'.crashes = used.crashes

Inserts(c) ==
    /\ launch[c].state = "planning" /\ launch'[c].state = "applying"
    /\ row'[c].status = "created"
    /\ \A q \in Procs : q # c => Same(q) /\ launch'[q] = launch[q]
    /\ reserved' = reserved \cup {c}
    /\ UNCHANGED <<parent, limitKilled>>
    /\ used'.crashes = used.crashes

Deletes(c) ==
    /\ launch'[c].state = "rolled_back" /\ parent'[c] = NoProc
    /\ row'[c].status = "absent"
    /\ \A q \in Procs : q # c => Same(q) /\ launch'[q] = launch[q] /\ parent'[q] = parent[q]
    /\ reserved' = {d \in reserved : d # c /\ parent[d] # c}
    /\ UNCHANGED limitKilled
    /\ used'.crashes = used.crashes

\* A live row has no outcome yet, and a missing one none.
LEMMA LiveHasNoCode ==
    ASSUME StatesConsistent, NEW p \in Procs, Live(row[p]) \/ ~Exists(row[p])
    PROVE  row[p].code = "none"
  BY DEF StatesConsistent, ValidState, Live, Exists, Terminal, TerminalStatuses

\* A process goes on.
LEMMA QuietStep ==
    ASSUME TreeInv, StatesConsistent, limitKilled \subseteq Procs, Quiet
    PROVE  TreeInv'
<1>0. /\ \A q \in Procs : Same(q) \/ Goes(q)
      /\ \A c \in Procs : LaunchKept(c)
      /\ UNCHANGED <<parent, reserved, limitKilled>> /\ used'.crashes = used.crashes
  BY DEF Quiet
<1>1. \A p, c \in Procs : WaitsForChild(row, p, c)' => WaitsForChild(row, p, c)
  BY <1>0 DEF WaitsForChild, Same, Goes
<1>2. WaitedIsChild'
  BY <1>0, <1>1 DEF TreeInv, WaitedIsChild, LaunchKept
<1>3. FreshIsAlone'
  BY <1>0 DEF TreeInv, FreshIsAlone, LaunchKept, Same, Goes, Live
<1>4. KillStands'
  BY <1>0, LiveHasNoCode DEF TreeInv, KillStands, LaunchKept, Same, Goes
<1>5. NoStrandedParent'
  <2> SUFFICES ASSUME NEW p \in Procs, NEW c \in Procs, WaitsForChild(row, p, c)'
               PROVE  Live(row'[c]) \/ WakeOwed(c)'
    BY DEF NoStrandedParent
  <2>1. Live(row[c]) \/ WakeOwed(c)
    BY <1>1 DEF TreeInv, NoStrandedParent
  <2> QED
    BY <1>0, <2>1 DEF WakeOwed, LaunchKept, Same, Goes
<1>6. ReservationsExact'
  BY <1>0 DEF TreeInv, ReservationsExact, Same, Goes
<1> QED
  BY <1>2, <1>3, <1>4, <1>5, <1>6 DEF TreeInv

\* A parent registers its wait for a live child.
LEMMA ParksStep ==
    ASSUME TreeInv, StatesConsistent, limitKilled \subseteq Procs,
           NEW p \in Procs, NEW c \in Procs, Parks(p, c)
    PROVE  TreeInv'
<1>0. /\ parent[c] = p /\ Live(row[c]) /\ Live(row[p]) /\ Live(row'[p])
      /\ row'[p].wait = [kind |-> "child", on |-> {c}]
      /\ \A q \in Procs : q # p => Same(q)
      /\ UNCHANGED <<parent, launch, reserved, limitKilled>> /\ used'.crashes = used.crashes
  BY DEF Parks, Live, Exists, Terminal, TerminalStatuses
<1>1. \A q, d \in Procs : WaitsForChild(row, q, d)' =>
        WaitsForChild(row, q, d) \/ (q = p /\ d = c)
  BY <1>0 DEF WaitsForChild, Same
<1>2. WaitedIsChild'
  BY <1>0, <1>1 DEF TreeInv, WaitedIsChild
<1>3. FreshIsAlone'
  BY <1>0 DEF TreeInv, FreshIsAlone, Same, Live
<1>4. KillStands'
  BY <1>0, LiveHasNoCode DEF TreeInv, KillStands, Same
<1>5. NoStrandedParent'
  <2> SUFFICES ASSUME NEW q \in Procs, NEW d \in Procs, WaitsForChild(row, q, d)'
               PROVE  Live(row'[d]) \/ WakeOwed(d)'
    BY DEF NoStrandedParent
  <2>1. Live(row[d]) \/ WakeOwed(d)
    BY <1>0, <1>1 DEF TreeInv, NoStrandedParent
  <2> QED
    BY <1>0, <2>1 DEF WakeOwed, Same
<1>6. ReservationsExact'
  BY <1>0 DEF TreeInv, ReservationsExact, Same
<1> QED
  BY <1>2, <1>3, <1>4, <1>5, <1>6 DEF TreeInv

\* A process ends, and with it its budget and the wait for it.
LEMMA EndsStep ==
    ASSUME TreeInv, StatesConsistent, limitKilled \subseteq Procs, NEW p \in Procs, Ends(p)
    PROVE  TreeInv'
<1>0. /\ Live(row[p]) /\ Terminal(row'[p]) /\ Exists(row'[p])
      /\ \A q \in Procs : q # p => Wakes(p, q)
      /\ reserved' = {d \in reserved : d # p /\ parent[d] # p}
      /\ UNCHANGED <<parent, launch, limitKilled>> /\ used'.crashes = used.crashes
  BY DEF Ends, Exists, Terminal, TerminalStatuses
<1>1. ASSUME NEW q \in Procs, NEW c \in Procs, WaitsForChild(row, q, c)'
      PROVE  WaitsForChild(row, q, c) /\ ~(c = p /\ parent[p] = q)
  <2>1. q # p
    BY <1>0, <1>1 DEF WaitsForChild, Terminal, TerminalStatuses
  <2>2. Same(q) /\ ~(parent[p] = q /\ WaitsForChild(row, q, p))
    BY <1>0, <1>1, <2>1 DEF Wakes, Goes, WaitsForChild
  <2> QED
    BY <1>1, <2>2 DEF Same, WaitsForChild
<1>2. WaitedIsChild'
  BY <1>0, <1>1 DEF TreeInv, WaitedIsChild
<1>3. FreshIsAlone'
  BY <1>0 DEF TreeInv, FreshIsAlone, Wakes, Same, Goes, Live
<1>4. KillStands'
  BY <1>0, LiveHasNoCode DEF TreeInv, KillStands, Wakes, Same, Goes
<1>5. NoStrandedParent'
  <2> SUFFICES ASSUME NEW q \in Procs, NEW c \in Procs, WaitsForChild(row, q, c)'
               PROVE  Live(row'[c]) \/ WakeOwed(c)'
    BY DEF NoStrandedParent
  <2>1. /\ Live(row[c]) \/ WakeOwed(c)
        /\ c = p => launch[c].state = "rolled_back"
    BY <1>1 DEF TreeInv, NoStrandedParent, WaitedIsChild
  <2> QED
    BY <1>0, <2>1 DEF WakeOwed, Wakes, Same, Goes
<1>6. ReservationsExact'
  BY <1>0 DEF TreeInv, ReservationsExact, Wakes, Same, Goes, Live
<1> QED
  BY <1>2, <1>3, <1>4, <1>5, <1>6 DEF TreeInv

\* The scheduler fails a process: nobody is woken, and its reservation stays.
LEMMA FailsStep ==
    ASSUME TreeInv, StatesConsistent, limitKilled \subseteq Procs, NEW p \in Procs, Fails(p)
    PROVE  TreeInv'
<1>0. /\ Live(row[p]) /\ Terminal(row'[p]) /\ Exists(row'[p])
      /\ row'[p].code = "scheduler_task_failed"
      /\ \A q \in Procs : q # p => Same(q)
      /\ UNCHANGED <<parent, launch, reserved, limitKilled>> /\ used'.crashes = used.crashes
  BY DEF Fails, Exists, Terminal, TerminalStatuses
<1>1. \A q, c \in Procs : WaitsForChild(row, q, c)' => WaitsForChild(row, q, c)
  BY <1>0 DEF WaitsForChild, Same, Terminal, TerminalStatuses
<1>2. WaitedIsChild'
  BY <1>0, <1>1 DEF TreeInv, WaitedIsChild
<1>3. FreshIsAlone'
  BY <1>0 DEF TreeInv, FreshIsAlone, Same, Live
<1>4. KillStands'
  BY <1>0, LiveHasNoCode DEF TreeInv, KillStands, Same
<1>5. NoStrandedParent'
  <2> SUFFICES ASSUME NEW q \in Procs, NEW c \in Procs, WaitsForChild(row, q, c)'
               PROVE  Live(row'[c]) \/ WakeOwed(c)'
    BY DEF NoStrandedParent
  <2>1. Live(row[c]) \/ WakeOwed(c)
    BY <1>1 DEF TreeInv, NoStrandedParent
  <2> QED
    BY <1>0, <2>1 DEF WakeOwed, Same
<1>6. ReservationsExact'
  BY <1>0 DEF TreeInv, ReservationsExact, Same, Live
<1> QED
  BY <1>2, <1>3, <1>4, <1>5, <1>6 DEF TreeInv

\* A limit kills a set of processes at once; their parents are to be woken later.
LEMMA KillsStep ==
    ASSUME TreeInv, StatesConsistent, limitKilled \subseteq Procs, NEW S \in SUBSET Procs, Kills(S)
    PROVE  TreeInv'
<1>0. /\ \A q \in S : /\ Live(row[q]) /\ Terminal(row'[q]) /\ Exists(row'[q])
                      /\ row'[q].code = "resource_limit_exceeded"
      /\ \A q \in Procs : q \notin S => Same(q)
      /\ reserved' = {d \in reserved : d \notin S /\ parent[d] \notin S}
      /\ limitKilled' = limitKilled \cup S
      /\ UNCHANGED <<parent, launch>> /\ used'.crashes = used.crashes
  BY DEF Kills, Exists, Terminal, TerminalStatuses
<1>1. \A q, c \in Procs : WaitsForChild(row, q, c)' => WaitsForChild(row, q, c)
  BY <1>0 DEF WaitsForChild, Same, Terminal, TerminalStatuses
<1>2. WaitedIsChild'
  BY <1>0, <1>1 DEF TreeInv, WaitedIsChild
<1>3. FreshIsAlone'
  BY <1>0 DEF TreeInv, FreshIsAlone, Same, Live
<1>4. KillStands'
  BY <1>0 DEF TreeInv, KillStands, Same
<1>5. NoStrandedParent'
  <2> SUFFICES ASSUME NEW q \in Procs, NEW c \in Procs, WaitsForChild(row, q, c)'
               PROVE  Live(row'[c]) \/ WakeOwed(c)'
    BY DEF NoStrandedParent
  <2>1. Live(row[c]) \/ WakeOwed(c)
    BY <1>1 DEF TreeInv, NoStrandedParent
  <2> QED
    BY <1>0, <2>1 DEF WakeOwed, Same
<1>6. ReservationsExact'
  BY <1>0 DEF TreeInv, ReservationsExact, Same, Live
<1> QED
  BY <1>2, <1>3, <1>4, <1>5, <1>6 DEF TreeInv

\* The kill is finalized: the parent that waits is woken.
LEMMA FinalizesStep ==
    ASSUME TreeInv, StatesConsistent, limitKilled \subseteq Procs, NEW p \in Procs, Finalizes(p)
    PROVE  TreeInv'
<1>0. /\ \A q \in Procs : Wakes(p, q)
      /\ limitKilled' = limitKilled \ {p}
      /\ UNCHANGED <<parent, launch, reserved>> /\ used'.crashes = used.crashes
  BY DEF Finalizes
<1>1. ASSUME NEW q \in Procs, NEW c \in Procs, WaitsForChild(row, q, c)'
      PROVE  WaitsForChild(row, q, c) /\ ~(c = p /\ parent[p] = q)
  <2>1. Same(q) /\ ~(parent[p] = q /\ WaitsForChild(row, q, p))
    BY <1>0, <1>1 DEF Wakes, Goes, WaitsForChild
  <2> QED
    BY <1>1, <2>1 DEF Same, WaitsForChild
<1>2. WaitedIsChild'
  BY <1>0, <1>1 DEF TreeInv, WaitedIsChild
<1>3. FreshIsAlone'
  BY <1>0 DEF TreeInv, FreshIsAlone, Wakes, Same, Goes, Live
<1>4. KillStands'
  BY <1>0, LiveHasNoCode DEF TreeInv, KillStands, Wakes, Same, Goes
<1>5. NoStrandedParent'
  <2> SUFFICES ASSUME NEW q \in Procs, NEW c \in Procs, WaitsForChild(row, q, c)'
               PROVE  Live(row'[c]) \/ WakeOwed(c)'
    BY DEF NoStrandedParent
  <2>1. /\ Live(row[c]) \/ WakeOwed(c)
        /\ c = p => launch[c].state = "rolled_back"
    BY <1>1 DEF TreeInv, NoStrandedParent, WaitedIsChild
  <2> QED
    BY <1>0, <2>1 DEF WakeOwed, Wakes, Same, Goes
<1>6. ReservationsExact'
  BY <1>0 DEF TreeInv, ReservationsExact, Wakes, Same, Goes
<1> QED
  BY <1>2, <1>3, <1>4, <1>5, <1>6 DEF TreeInv

\* A crash forgets the kills that were to be finalized.
LEMMA CrashTree ==
    ASSUME TreeInv, TypeOK, Crash
    PROVE  TreeInv'
<1>0. /\ UNCHANGED <<row, parent, launch, reserved>> /\ limitKilled' = {}
      /\ used'.crashes > 0
  BY DEF Crash, stored, TypeOK, Bounds
<1>1. \A q, c \in Procs : WaitsForChild(row, q, c)' <=> WaitsForChild(row, q, c)
  BY <1>0 DEF WaitsForChild
<1>2. WaitedIsChild' /\ FreshIsAlone' /\ KillStands' /\ ReservationsExact'
  BY <1>0, <1>1 DEF TreeInv, WaitedIsChild, FreshIsAlone, KillStands, ReservationsExact
<1>3. NoStrandedParent'
  <2> SUFFICES ASSUME NEW q \in Procs, NEW c \in Procs, WaitsForChild(row, q, c)'
               PROVE  Live(row'[c]) \/ WakeOwed(c)'
    BY DEF NoStrandedParent
  <2>1. Live(row[c]) \/ WakeOwed(c)
    BY <1>1 DEF TreeInv, NoStrandedParent
  <2>2. c \in limitKilled =>
          row[c].code = "resource_limit_exceeded" \/ launch[c].state = "rolled_back"
    BY DEF TreeInv, KillStands
  <2> QED
    BY <1>0, <2>1, <2>2 DEF WakeOwed
<1> QED
  BY <1>2, <1>3 DEF TreeInv

\* A launch begins.
LEMMA BeginsStep ==
    ASSUME TreeInv, limitKilled \subseteq Procs,
           NEW p \in Procs, NEW c \in Procs, Begins(p, c)
    PROVE  TreeInv'
<1>0. /\ Live(row[p]) /\ ~Exists(row[c]) /\ launch[c].state = "none" /\ p # c
      /\ parent'[c] = p /\ launch'[c].state = "planning"
      /\ \A q \in Procs : Same(q)
      /\ \A d \in Procs : d # c => parent'[d] = parent[d] /\ launch'[d] = launch[d]
      /\ UNCHANGED <<reserved, limitKilled>> /\ used'.crashes = used.crashes
  BY DEF Begins, Live
<1>1. \A q, d \in Procs : WaitsForChild(row, q, d)' <=> WaitsForChild(row, q, d)
  BY <1>0 DEF WaitsForChild, Same
<1>2. parent[c] = NoProc /\ \A d \in Procs : parent[d] # c
  BY <1>0 DEF TreeInv, FreshIsAlone
<1>3. \A q \in Procs : ~WaitsForChild(row, q, c)
  BY <1>0, <1>2, LifecycleAssumption DEF TreeInv, WaitedIsChild
<1>4. WaitedIsChild'
  BY <1>0, <1>1, <1>3 DEF TreeInv, WaitedIsChild
<1>5. FreshIsAlone'
  BY <1>0, <1>2 DEF TreeInv, FreshIsAlone, Same, Live
<1>6. KillStands'
  BY <1>0 DEF TreeInv, KillStands, Same
<1>7. NoStrandedParent'
  <2> SUFFICES ASSUME NEW q \in Procs, NEW d \in Procs, WaitsForChild(row, q, d)'
               PROVE  Live(row'[d]) \/ WakeOwed(d)'
    BY DEF NoStrandedParent
  <2>1. d # c /\ (Live(row[d]) \/ WakeOwed(d))
    BY <1>1, <1>3 DEF TreeInv, NoStrandedParent
  <2> QED
    BY <1>0, <2>1 DEF WakeOwed, Same
<1>8. ReservationsExact'
  BY <1>0 DEF TreeInv, ReservationsExact, Same, Live
<1> QED
  BY <1>4, <1>5, <1>6, <1>7, <1>8 DEF TreeInv

\* The row of a child is inserted, with its reservation.
LEMMA InsertsStep ==
    ASSUME TreeInv, StatesConsistent, LaunchesOwned, limitKilled \subseteq Procs,
           NEW c \in Procs, Inserts(c)
    PROVE  TreeInv'
<1>0. /\ launch[c].state = "planning" /\ launch'[c].state = "applying" /\ ~Exists(row[c])
      /\ Live(row'[c]) /\ row'[c].status = "created"
      /\ \A q \in Procs : q # c => Same(q) /\ launch'[q] = launch[q]
      /\ reserved' = reserved \cup {c}
      /\ UNCHANGED <<parent, limitKilled>> /\ used'.crashes = used.crashes
  BY DEF Inserts, LaunchesOwned, Live, Exists, Terminal, TerminalStatuses
<1>1. \A q, d \in Procs : WaitsForChild(row, q, d)' => WaitsForChild(row, q, d)
  BY <1>0 DEF WaitsForChild, Same
<1>2. \A d \in Procs : parent[d] # c
  BY <1>0 DEF TreeInv, FreshIsAlone
<1>3. WaitedIsChild'
  BY <1>0, <1>1 DEF TreeInv, WaitedIsChild
<1>4. FreshIsAlone'
  BY <1>0 DEF TreeInv, FreshIsAlone, Same
<1>5. KillStands'
  BY <1>0, LiveHasNoCode DEF TreeInv, KillStands, Same
<1>6. NoStrandedParent'
  <2> SUFFICES ASSUME NEW q \in Procs, NEW d \in Procs, WaitsForChild(row, q, d)'
               PROVE  Live(row'[d]) \/ WakeOwed(d)'
    BY DEF NoStrandedParent
  <2>1. Live(row[d]) \/ WakeOwed(d)
    BY <1>1 DEF TreeInv, NoStrandedParent
  <2> QED
    BY <1>0, <2>1 DEF WakeOwed, Same
<1>7. ReservationsExact'
  BY <1>0, <1>2 DEF TreeInv, ReservationsExact, Same
<1> QED
  BY <1>3, <1>4, <1>5, <1>6, <1>7 DEF TreeInv

\* A launch is compensated: the row goes, with the reservations it takes part in.
LEMMA DeletesStep ==
    ASSUME TreeInv, limitKilled \subseteq Procs, NEW c \in Procs, Deletes(c)
    PROVE  TreeInv'
<1>0. /\ launch'[c].state = "rolled_back" /\ parent'[c] = NoProc /\ row'[c].status = "absent"
      /\ ~Live(row'[c])
      /\ \A q \in Procs : q # c => Same(q) /\ launch'[q] = launch[q] /\ parent'[q] = parent[q]
      /\ reserved' = {d \in reserved : d # c /\ parent[d] # c}
      /\ UNCHANGED limitKilled /\ used'.crashes = used.crashes
  BY DEF Deletes, Live, Exists
<1>1. \A q, d \in Procs : WaitsForChild(row, q, d)' => WaitsForChild(row, q, d)
  BY <1>0 DEF WaitsForChild, Same
<1>2. WaitedIsChild'
  BY <1>0, <1>1 DEF TreeInv, WaitedIsChild
<1>3. FreshIsAlone'
  BY <1>0, LifecycleAssumption DEF TreeInv, FreshIsAlone, Same
<1>4. KillStands'
  BY <1>0 DEF TreeInv, KillStands, Same
<1>5. NoStrandedParent'
  <2> SUFFICES ASSUME NEW q \in Procs, NEW d \in Procs, WaitsForChild(row, q, d)'
               PROVE  Live(row'[d]) \/ WakeOwed(d)'
    BY DEF NoStrandedParent
  <2>1. Live(row[d]) \/ WakeOwed(d)
    BY <1>1 DEF TreeInv, NoStrandedParent
  <2> QED
    BY <1>0, <2>1 DEF WakeOwed, Same
<1>6. ReservationsExact'
  BY <1>0, LifecycleAssumption DEF TreeInv, ReservationsExact, Same
<1> QED
  BY <1>2, <1>3, <1>4, <1>5, <1>6 DEF TreeInv

\* An end and the wake of the parent, as the tree sees them.
LEMMA EndsAndWakes ==
    ASSUME TypeOK, NEW p \in Procs, NEW r, Live(row[p]), r.status \in TerminalStatuses,
           r.code = "terminate" \/ LiveDescendants(p) = {},
           row' = WakeParent([row EXCEPT ![p] = r], p),
           reserved' = {d \in reserved : d # p /\ parent[d] # p},
           UNCHANGED <<parent, launch, limitKilled>>, used'.crashes = used.crashes
    PROVE  Ends(p)
<1> DEFINE rs == [row EXCEPT ![p] = r]
<1>1. row \in [Procs -> Rows]
  BY DEF TypeOK
<1>2. \A q \in Procs :
        row'[q] = IF parent[p] = q /\ WaitsForChild(rs, q, p) THEN WakeRow(rs[q]) ELSE rs[q]
  BY DEF WakeParent
<1>3. Terminal(row'[p]) /\ row'[p] = r
  <2>1. rs[p] = r
    BY <1>1
  <2>2. ~WaitsForChild(rs, p, p)
    BY <2>1 DEF WaitsForChild, TerminalStatuses
  <2> QED
    BY <1>2, <2>1, <2>2 DEF Terminal
<1>4. ASSUME NEW q \in Procs, q # p
      PROVE  Wakes(p, q)
  <2>1. rs[q] = row[q]
    BY <1>1, <1>4
  <2>2. WaitsForChild(rs, q, p) <=> WaitsForChild(row, q, p)
    BY <2>1 DEF WaitsForChild
  <2>3. WaitsForChild(row, q, p) => Live(row[q])
    BY DEF WaitsForChild, Live, Exists, Terminal, TerminalStatuses
  <2>4. WakeRow(row[q]).status = "runnable"
    BY TransitionFields DEF WakeRow
  <2> QED
    BY <1>2, <2>1, <2>2, <2>3, <2>4
    DEF Wakes, Same, Goes, Live, Exists, Terminal, TerminalStatuses
<1> QED
  BY <1>3, <1>4 DEF Ends

\* What a signal does to a row.
LEMMA SignalFields ==
    ASSUME NEW r, NEW sig \in Signals, NEW byHost, SignalApplicable(r, sig, byHost)
    PROVE  LET s == SignalRow(r, sig) IN
           /\ sig = "terminate" => s.status = "killed" /\ s.code = "terminate"
           /\ sig # "terminate" => /\ s.status \in {r.status, "paused", "runnable"}
                                   /\ r.status \notin ConditionStatuses
           /\ r.wait.kind = "host_resume" /\ sig # "terminate" /\ ~byHost =>
                s.wait.kind = "host_resume"
<1>1. CASE sig = "terminate"
  <2>1. SignalRow(r, sig) = Transition(r, "killed", NoWait, "terminate")
    BY <1>1 DEF SignalRow
  <2> QED
    BY <1>1, <2>1, TransitionFields
<1>2. CASE sig = "resume"
  <2>1. SignalRow(r, sig) =
          Transition(r, IF r.status = "paused" THEN "runnable" ELSE r.status, NoWait, "none")
    BY <1>2 DEF SignalRow
  <2> QED
    BY <1>2, <2>1, TransitionFields DEF SignalApplicable
<1>3. CASE sig = "host_pause"
  <2>1. SignalRow(r, sig) = Transition(r, "paused", [kind |-> "host_resume", on |-> {}], "none")
    BY <1>3 DEF SignalRow
  <2> QED
    BY <1>3, <2>1, TransitionFields DEF SignalApplicable
<1>4. CASE sig = "pause"
  <2>1. SignalRow(r, sig) =
          Transition(r, "paused", IF r.wait.kind = "host_resume" THEN r.wait
                                  ELSE [kind |-> "paused", on |-> {}], "none")
    BY <1>4 DEF SignalRow
  <2> QED
    BY <1>4, <2>1, TransitionFields DEF SignalApplicable
<1> QED
  BY <1>1, <1>2, <1>3, <1>4 DEF Signals

\* One row goes on and the rest is as it was.
LEMMA OneGoes ==
    ASSUME TypeOK, NEW p \in Procs, NEW r, row' = [row EXCEPT ![p] = r],
           r = row[p] \/ (Live(row[p]) /\ Live(r) /\ r.status # "waiting_event"),
           \A c \in Procs : LaunchKept(c),
           UNCHANGED <<parent, reserved, limitKilled>>, used'.crashes = used.crashes
    PROVE  Quiet
<1>1. row'[p] = r /\ \A q \in Procs : q # p => row'[q] = row[q]
  BY DEF TypeOK
<1> QED
  BY <1>1 DEF Quiet, Same, Goes

\* Nothing of the tree changes.
LEMMA NoneGoes ==
    ASSUME UNCHANGED <<row, parent, launch, reserved, limitKilled>>, used'.crashes = used.crashes
    PROVE  Quiet
  BY DEF Quiet, Same, LaunchKept

\* A signal, as the tree sees it.
LEMMA SignalTree ==
    ASSUME TypeOK, NEW p \in Procs, NEW sig \in Signals, NEW byHost,
           SignalApplicable(row[p], sig, byHost), ApplySignal(p, sig),
           UNCHANGED <<parent, launch, limitKilled>>, used'.crashes = used.crashes
    PROVE  Quiet \/ Ends(p)
<1>0. Live(row[p])
  BY DEF SignalApplicable
<1>1. CASE sig = "terminate"
  <2> DEFINE r == SignalRow(row[p], sig)
  <2>1. r.status \in TerminalStatuses /\ r.code = "terminate"
    BY <1>1, SignalFields DEF TerminalStatuses
  <2>2. /\ row' = WakeParent([row EXCEPT ![p] = r], p)
        /\ reserved' = {d \in reserved : d # p /\ parent[d] # p}
    BY <1>1 DEF ApplySignal
  <2> HIDE DEF r
  <2> QED
    BY <1>0, <2>1, <2>2, EndsAndWakes
<1>2. CASE sig # "terminate"
  <2> DEFINE r == SignalRow(row[p], sig)
  <2>1. r.status \in {row[p].status, "paused", "runnable"} /\ row[p].status \notin ConditionStatuses
    BY <1>2, SignalFields
  <2>2. Live(r) /\ r.status # "waiting_event"
    BY <1>0, <2>1 DEF Live, Exists, Terminal, TerminalStatuses, ConditionStatuses
  <2>3. row' = [row EXCEPT ![p] = r] /\ UNCHANGED reserved
    BY <1>2 DEF ApplySignal
  <2> HIDE DEF r
  <2> QED
    BY <1>0, <2>2, <2>3, OneGoes DEF LaunchKept
<1> QED
  BY <1>1, <1>2

\* An exit, as the tree sees it.
LEMMA ExitTree ==
    ASSUME TypeOK, NEW p \in Procs, NEW failed \in BOOLEAN, ExitTransaction(p, failed),
           UNCHANGED <<parent, launch, limitKilled>>, used'.crashes = used.crashes
    PROVE  Ends(p)
<1> DEFINE status == IF failed THEN "failed" ELSE "exited"
           r == Transition(row[p], status, NoWait, status)
<1>1. r.status \in TerminalStatuses
  BY TransitionFields DEF TerminalStatuses
<1>2. /\ row' = WakeParent([row EXCEPT ![p] = r], p) /\ Live(row[p])
      /\ reserved' = {d \in reserved : d # p /\ parent[d] # p}
      /\ LiveDescendants(p) = {}
  BY DEF ExitTransaction
<1> HIDE DEF r
<1> QED
  BY <1>1, <1>2, EndsAndWakes

\* A compensated launch, as the tree sees it.
LEMMA DeleteTree ==
    ASSUME TypeOK, NEW c \in Procs, DeleteScaffold(c), UNCHANGED <<limitKilled, used>>
    PROVE  Deletes(c)
<1>1. row'[c].status = "absent" /\ \A q \in Procs : q # c => Same(q)
  BY DEF DeleteScaffold, TypeOK, AbsentRow, Same
<1>2. launch'[c].state = "rolled_back" /\ \A q \in Procs : q # c => launch'[q] = launch[q]
  BY DEF DeleteScaffold, TypeOK, NoLaunch
<1>3. parent'[c] = NoProc /\ \A q \in Procs : q # c => parent'[q] = parent[q]
  BY DEF DeleteScaffold, TypeOK
<1> QED
  BY <1>1, <1>2, <1>3 DEF Deletes, DeleteScaffold

\* From its begin to its commit or its compensation a launch stays with the worker of the
\* parent.
LEMMA CarriedStep ==
    ASSUME TypeOK, LaunchesOwned, LaunchesCarried, [Next]_vars
    PROVE  LaunchesCarried'
<1>0. /\ worker \in [Workers -> WorkerStates] /\ parent \in [Procs -> Procs \cup {NoProc}]
      /\ \A w \in Workers : worker[w].busy \in Procs \cup {NoProc}
  BY DEF TypeOK, WorkerStates
<1>inv. /\ \A w \in Workers : worker[w].busy # NoProc =>
             /\ worker[w].pc = "quantum" /\ Incomplete(worker[w].busy) /\ Open
             /\ parent[worker[w].busy] = worker[w].pid
        /\ \A w, v \in Workers :
             worker[w].busy # NoProc /\ worker[w].busy = worker[v].busy => w = v
  BY DEF LaunchesOwned, LaunchesCarried
<1>same. ASSUME UNCHANGED <<worker, parent>> PROVE LaunchesCarried'
  BY <1>same, <1>inv DEF LaunchesCarried
<1>one. ASSUME NEW w \in Workers, NEW ws, worker' = [worker EXCEPT ![w] = ws], UNCHANGED parent,
               ws.busy = NoProc \/ (ws.busy = worker[w].busy /\ ws.pid = worker[w].pid)
        PROVE  LaunchesCarried'
  <2>1. \A v \in Workers : worker'[v] = IF v = w THEN ws ELSE worker[v]
    BY <1>0, <1>one
  <2> QED BY <2>1, <1>one, <1>inv DEF LaunchesCarried
<1>1. ASSUME NEW w \in Workers, NEW p \in Procs, ClaimExecution(w, p) PROVE LaunchesCarried'
  <2> DEFINE ws == [pc |-> "quantum", pid |-> p, gen |-> row[p].egen + 1, owner |-> epoch,
                     busy |-> NoProc, err |-> FALSE]
  <2>1. ws.busy = NoProc
    OBVIOUS
  <2>2. worker' = [worker EXCEPT ![w] = ws] /\ UNCHANGED parent
    BY <1>1 DEF ClaimExecution
  <2> HIDE DEF ws
  <2> QED BY <2>1, <2>2, <1>one
<1>2. ASSUME NEW w \in Workers, NEW x, EndQuantum(w, x) \/ Exit(w, x) \/ ResourceLimitKill(w, x)
      PROVE LaunchesCarried'
  <2> PICK err : worker' = [worker EXCEPT ![w] = ToSettle(worker[w], err)]
    BY <1>2 DEF EndQuantum, Exit, ResourceLimitKill
  <2> DEFINE ws == ToSettle(worker[w], err)
  <2>1. ws.busy = worker[w].busy /\ ws.pid = worker[w].pid
    BY DEF ToSettle
  <2>2. worker' = [worker EXCEPT ![w] = ws] /\ UNCHANGED parent
    BY <1>2 DEF EndQuantum, Exit, ResourceLimitKill, stored
  <2> HIDE DEF ws
  <2> QED BY <2>1, <2>2, <1>one
<1>3. ASSUME NEW w \in Workers, CompleteExecution(w) \/ FailProcessTask(w) PROVE LaunchesCarried'
  <2>1. worker[w].busy = NoProc /\ IdleWorker.busy = NoProc
    BY <1>3, <1>inv DEF CompleteExecution, FailProcessTask, IdleWorker
  <2>2. UNCHANGED parent
    BY <1>3 DEF CompleteExecution, FailProcessTask
  <2>3. \A v \in Workers : v # w => worker'[v] = worker[v]
    BY <1>0, <1>3 DEF CompleteExecution, FailProcessTask
  <2>4. worker'[w].busy = NoProc
    BY <1>0, <1>3, <2>1 DEF CompleteExecution, FailProcessTask, WorkerStates
  <2> QED BY <1>inv, <2>2, <2>3, <2>4 DEF LaunchesCarried
<1>4. ASSUME NEW w \in Workers, NEW x, UNCHANGED parent,
             \/ worker' = [worker EXCEPT ![w].pc = x]
             \/ worker' = [worker EXCEPT ![w].busy = NoProc]
      PROVE LaunchesCarried'
  BY <1>0, <1>4, <1>inv DEF LaunchesCarried, WorkerStates
<1>5. ASSUME NEW w \in Workers, LaunchCommit(w) \/ FailedExitBegin(w) \/ FailedExitRaise(w)
      PROVE LaunchesCarried'
  BY <1>4, <1>5 DEF LaunchCommit, FailedExitBegin, FailedExitRaise, stored
<1>6. ASSUME NEW w \in Workers, NEW c \in Procs, LaunchBegin(w, c) PROVE LaunchesCarried'
  <2>1. /\ parent' = [parent EXCEPT ![c] = worker[w].pid]
        /\ worker' = [worker EXCEPT ![w].busy = c] /\ launch[c].state = "none"
    BY <1>6 DEF LaunchBegin
  <2>2. \A v \in Workers : worker[v].busy # c
    BY <1>inv, <2>1, LifecycleAssumption DEF Incomplete
  <2> QED BY <1>0, <1>inv, <2>1, <2>2 DEF LaunchesCarried, WorkerStates
<1>7. ASSUME NEW w \in Workers, LaunchRollback(w) PROVE LaunchesCarried'
  <2>1. /\ worker[w].busy \in Procs
        /\ parent' = [parent EXCEPT ![worker[w].busy] = NoProc]
        /\ worker' = [worker EXCEPT ![w].busy = NoProc]
    BY <1>0, <1>7 DEF LaunchRollback, DeleteScaffold
  <2>2. \A v \in Workers : v # w => worker[v].busy # worker[w].busy
    BY <1>inv, <2>1, LifecycleAssumption
  <2> QED BY <1>0, <1>inv, <2>1, <2>2 DEF LaunchesCarried, WorkerStates
<1>8. ASSUME NEW w \in Workers, NEW p \in Procs,
             \/ WaitChild(w, p) \/ FailedExitTerminate(w, p) \/ LaunchInsert(w)
             \/ \E sig \in Signals : SignalChild(w, p, sig)
      PROVE LaunchesCarried'
  BY <1>8, <1>same DEF WaitChild, FailedExitTerminate, LaunchInsert, SignalChild, threads
<1>9. ASSUME NEW p \in Procs, HostStep(p) \/ FinalizeKill(p) \/ RecoverExecution(p)
      PROVE LaunchesCarried'
  BY <1>9, <1>same
  DEF HostStep, HostSignal, HostWait, HostExitTerminate, HostExit, FinalizeKill,
      RecoverExecution, threads
<1>10. ASSUME NEW c \in Procs, RecoverLaunch(c) PROVE LaunchesCarried'
  <2>1. \A w \in Workers : worker[w].busy = NoProc
    BY <1>10, <1>inv DEF RecoverLaunch, Open
  <2>2. UNCHANGED worker
    BY <1>10 DEF RecoverLaunch, threads
  <2> QED BY <2>1, <2>2 DEF LaunchesCarried
<1>11. ASSUME Crash PROVE LaunchesCarried'
  BY <1>11 DEF Crash, IdleWorker, LaunchesCarried
<1>12. ASSUME NextStage \/ UNCHANGED vars PROVE LaunchesCarried'
  BY <1>12, <1>same DEF NextStage, vars, stored, threads
<1> QED
  BY <1>1, <1>2, <1>3, <1>5, <1>6, <1>7, <1>8, <1>9, <1>10, <1>11, <1>12, LifecycleAssumption
  DEF Next, WorkerStep

\* The kinds of a step, by what it does to waits, parents and reservations.
TreeKind ==
    \/ Quiet \/ Crash
    \/ \E p \in Procs : Ends(p) \/ Fails(p) \/ Finalizes(p) \/ Inserts(p) \/ Deletes(p)
    \/ \E p, c \in Procs : Parks(p, c) \/ Begins(p, c)
    \/ \E S \in SUBSET Procs : Kills(S)

\* Every step of the Runtime, the Host and the recovery is one of these kinds.
LEMMA TreeStep ==
    ASSUME TypeOK, LaunchesOwned, LaunchesCarried, [Next]_vars
    PROVE  TreeKind
<1>0. row \in [Procs -> Rows] /\ launch \in [Procs -> Launches] /\ used \in Bounds
  BY DEF TypeOK
<1>pid. \A w \in Workers : worker[w].pc # "idle" => worker[w].pid \in Procs
  BY DEF LaunchesOwned
<1>busy. \A w \in Workers : worker[w].busy # NoProc => worker[w].busy \in Procs
  BY DEF TypeOK, WorkerStates
<1>owns. \A w \in Workers : Owns(w) => worker[w].pid \in Procs /\ Live(row[worker[w].pid])
  BY DEF TypeOK, WorkerStates, Owns, TokenCurrent, Live, Exists, Terminal, TerminalStatuses
<1> USE DEF TreeKind
<1>1. ASSUME NEW w \in Workers, NEW p \in Procs, ClaimExecution(w, p) PROVE TreeKind
  <2> DEFINE r == ClaimRow(row[p], epoch, w)
  <2>1. Live(row[p]) /\ Live(r) /\ r.status # "waiting_event"
    BY <1>1 DEF ClaimExecution, ClaimRow, Live, Exists, Terminal, TerminalStatuses
  <2>2. row' = [row EXCEPT ![p] = r] /\ UNCHANGED <<parent, launch, reserved, limitKilled>>
    BY <1>1 DEF ClaimExecution
  <2>3. used'.crashes = used.crashes
    BY <1>0, <1>1 DEF ClaimExecution, Bounds
  <2> HIDE DEF r
  <2> QED BY <2>1, <2>2, <2>3, OneGoes DEF LaunchKept
<1>2. ASSUME NEW w \in Workers, NEW raises \in BOOLEAN, EndQuantum(w, raises) PROVE TreeKind
  <2>1. UNCHANGED <<row, parent, launch, reserved, limitKilled>>
    BY <1>2 DEF EndQuantum, stored
  <2>2. used'.crashes = used.crashes
    BY <1>0, <1>2 DEF EndQuantum, Bounds
  <2> QED BY <2>1, <2>2, NoneGoes
<1>3. ASSUME NEW w \in Workers, CompleteExecution(w) PROVE TreeKind
  <2> DEFINE p == worker[w].pid
             r == CompleteRow(row[p], Token(w))
  <2>1. p \in Procs
    BY <1>3, <1>pid DEF CompleteExecution
  <2>2. r = row[p] \/ (Live(row[p]) /\ Live(r) /\ r.status # "waiting_event")
    BY DEF CompleteRow, TokenCurrent, Live, Exists, Terminal, TerminalStatuses
  <2>3. /\ row' = [row EXCEPT ![p] = r] /\ UNCHANGED <<parent, launch, reserved, limitKilled>>
        /\ used' = used
    BY <1>3 DEF CompleteExecution
  <2> HIDE DEF r
  <2> QED BY <2>1, <2>2, <2>3, OneGoes DEF LaunchKept
<1>4. ASSUME NEW w \in Workers, FailProcessTask(w) PROVE TreeKind
  <2> DEFINE p == worker[w].pid
             r == Transition(row[p], "failed", NoWait, "scheduler_task_failed")
  <2>0. p \in Procs /\ UNCHANGED <<parent, launch, reserved, limitKilled, used>>
    BY <1>4, <1>pid DEF FailProcessTask
  <2>1. CASE Live(row[p])
    <3>1. row' = [row EXCEPT ![p] = r]
      BY <1>4, <2>1 DEF FailProcessTask
    <3>2. r.status = "failed" /\ r.code = "scheduler_task_failed"
      BY TransitionFields
    <3> HIDE DEF r
    <3>3. row'[p] = r /\ \A q \in Procs : q # p => row'[q] = row[q]
      BY <1>0, <2>0, <3>1
    <3>4. Fails(p)
      BY <2>0, <2>1, <3>2, <3>3 DEF Fails, Same, Terminal, TerminalStatuses
    <3> QED BY <2>0, <3>4
  <2>2. CASE ~Live(row[p])
    <3>1. UNCHANGED row
      BY <1>4, <2>2 DEF FailProcessTask
    <3> QED BY <2>0, <3>1, NoneGoes
  <2> QED BY <2>1, <2>2
<1>park. ASSUME NEW p \in Procs, NEW c \in Procs, parent[c] = p, Live(row[c]), Live(row[p]),
                row' = [row EXCEPT ![p] =
                          Transition(@, "waiting_event", [kind |-> "child", on |-> {c}], "none")],
                UNCHANGED <<parent, launch, reserved, limitKilled>>, used'.crashes = used.crashes
         PROVE TreeKind
  <2> DEFINE r == Transition(row[p], "waiting_event", [kind |-> "child", on |-> {c}], "none")
  <2>1. r.status = "waiting_event" /\ r.wait = [kind |-> "child", on |-> {c}]
    BY TransitionFields
  <2>2. row'[p] = r /\ \A q \in Procs : q # p => row'[q] = row[q]
    BY <1>0, <1>park
  <2> HIDE DEF r
  <2>3. Parks(p, c)
    BY <1>park, <2>1, <2>2 DEF Parks, Same
  <2> QED BY <2>3
<1>5. ASSUME NEW w \in Workers, NEW c \in Procs, WaitChild(w, c) PROVE TreeKind
  <2>1. worker[w].pid \in Procs /\ Live(row[worker[w].pid])
    BY <1>5, <1>owns DEF WaitChild
  <2> QED BY <1>5, <1>park, <2>1 DEF WaitChild, threads
<1>6. ASSUME NEW p \in Procs, NEW c \in Procs, HostWait(p, c) PROVE TreeKind
  <2>0. /\ parent[c] = p /\ Live(row[p]) /\ UNCHANGED <<parent, launch, reserved, limitKilled>>
        /\ used'.crashes = used.crashes
    BY <1>0, <1>6 DEF HostWait, threads, Bounds
  <2>1. CASE Live(row[c])
    BY <1>6, <1>park, <2>0, <2>1 DEF HostWait
  <2>2. CASE ~Live(row[c])
    <3>1. row' = [row EXCEPT ![p] = WakeRow(row[p])]
      BY <1>6, <2>2 DEF HostWait
    <3>2. WakeRow(row[p]).status = "runnable"
      BY TransitionFields DEF WakeRow
    <3>3. Live(WakeRow(row[p]))
      BY <3>2 DEF Live, Exists, Terminal, TerminalStatuses
    <3> QED BY <2>0, <3>1, <3>2, <3>3, OneGoes DEF LaunchKept
  <2> QED BY <2>1, <2>2
<1>7. ASSUME NEW w \in Workers, NEW c \in Procs, LaunchBegin(w, c) PROVE TreeKind
  <2> DEFINE p == worker[w].pid
  <2>1. p \in Procs
    BY <1>7, <1>pid DEF LaunchBegin, InQuantum
  <2>2. /\ parent'[c] = p /\ launch'[c].state = "planning"
        /\ \A d \in Procs : d # c => parent'[d] = parent[d] /\ launch'[d] = launch[d]
    BY <1>7 DEF LaunchBegin, TypeOK
  <2>3. Begins(p, c)
    BY <1>7, <2>2 DEF LaunchBegin, Begins, Same
  <2> QED BY <2>1, <2>3
<1>8. ASSUME NEW w \in Workers, LaunchInsert(w) PROVE TreeKind
  <2> DEFINE c == worker[w].busy
  <2>1. c \in Procs
    BY <1>8, <1>busy DEF LaunchInsert
  <2>2. row'[c].status = "created" /\ \A q \in Procs : q # c => row'[q] = row[q]
    BY <1>0, <1>8, <2>1 DEF LaunchInsert, InsertProcess
  <2>3. launch'[c].state = "applying" /\ \A q \in Procs : q # c => launch'[q] = launch[q]
    BY <1>0, <1>8, <2>1 DEF LaunchInsert, Launches
  <2>4. Inserts(c)
    BY <1>8, <2>2, <2>3 DEF LaunchInsert, Inserts, Same, threads
  <2> QED BY <2>1, <2>4
<1>9. ASSUME NEW w \in Workers, LaunchCommit(w) PROVE TreeKind
  <2> DEFINE c == worker[w].busy
             r == Transition(row[c], "runnable", NoWait, "none")
  <2>1. c \in Procs
    BY <1>9, <1>busy DEF LaunchCommit
  <2>2. r.status = "runnable"
    BY TransitionFields
  <2>3. Live(row[c]) /\ Live(r) /\ r.status # "waiting_event"
    BY <1>9, <2>2 DEF LaunchCommit, Live, Exists, Terminal, TerminalStatuses
  <2>0. Live(row[parent[c]])
    BY <1>9 DEF LaunchCommit, LaunchesCarried, ParentFence
  <2>4. \A d \in Procs : LaunchKept(d)
    BY <1>0, <1>9, <2>0, <2>1 DEF LaunchCommit, LaunchKept, NoLaunch
  <2>5. row' = [row EXCEPT ![c] = r] /\ UNCHANGED <<parent, reserved, limitKilled, used>>
    BY <1>9 DEF LaunchCommit
  <2> HIDE DEF r
  <2> QED BY <2>1, <2>3, <2>4, <2>5, OneGoes
<1>10. ASSUME NEW w \in Workers, LaunchRollback(w) PROVE TreeKind
  BY <1>10, <1>busy, DeleteTree DEF LaunchRollback
<1>11. ASSUME NEW p \in Procs, NEW sig \in Signals, HostSignal(p, sig) PROVE TreeKind
  <2>1. used'.crashes = used.crashes
    BY <1>0, <1>11 DEF HostSignal, Bounds
  <2> QED BY <1>11, <2>1, SignalTree DEF HostSignal, threads
<1>12. ASSUME NEW w \in Workers, NEW c \in Procs, NEW sig \in Signals, SignalChild(w, c, sig)
       PROVE TreeKind
  <2>1. used'.crashes = used.crashes
    BY <1>0, <1>12 DEF SignalChild, Bounds
  <2> QED BY <1>12, <2>1, SignalTree DEF SignalChild, threads
<1>13. ASSUME NEW w \in Workers, NEW failed \in BOOLEAN, Exit(w, failed) PROVE TreeKind
  BY <1>13, <1>owns, ExitTree DEF Exit
<1>14. ASSUME NEW w \in Workers, FailedExitBegin(w) \/ FailedExitRaise(w) PROVE TreeKind
  BY <1>14, NoneGoes DEF FailedExitBegin, FailedExitRaise, stored
<1>15. ASSUME NEW w \in Workers, NEW d \in Procs, FailedExitTerminate(w, d) PROVE TreeKind
  <2>1. SignalApplicable(row[d], "terminate", TRUE)
    BY <1>15 DEF FailedExitTerminate, LiveDescendants, SignalApplicable
  <2> QED BY <1>15, <2>1, SignalTree DEF FailedExitTerminate, Signals, threads
<1>23. ASSUME NEW p \in Procs, NEW d \in Procs, HostExitTerminate(p, d) PROVE TreeKind
  <2>1. SignalApplicable(row[d], "terminate", TRUE)
    BY <1>23 DEF HostExitTerminate, LiveDescendants, SignalApplicable
  <2> QED BY <1>23, <2>1, SignalTree DEF HostExitTerminate, Signals, threads
<1>16. ASSUME NEW p \in Procs, NEW failed \in BOOLEAN, HostExit(p, failed) PROVE TreeKind
  <2>1. used'.crashes = used.crashes
    BY <1>0, <1>16 DEF HostExit, Bounds
  <2> QED BY <1>16, <2>1, ExitTree DEF HostExit, threads
<1>17. ASSUME NEW w \in Workers, NEW owner \in Procs, ResourceLimitKill(w, owner) PROVE TreeKind
  <2> DEFINE killed == {q \in {owner} \cup Descendants(owner) : Live(row[q])}
             dead(q) == Transition(row[q], "killed", NoWait, "resource_limit_exceeded")
  <2>1. killed \in SUBSET Procs
    BY DEF Descendants, Below
  <2>2. /\ row' = [q \in Procs |-> IF q \in killed THEN dead(q) ELSE row[q]]
        /\ reserved' = {d \in reserved : d \notin killed /\ parent[d] \notin killed}
        /\ limitKilled' = limitKilled \cup killed /\ UNCHANGED <<parent, launch, used>>
    BY <1>17 DEF ResourceLimitKill
  <2>3. \A q : dead(q).status = "killed" /\ dead(q).code = "resource_limit_exceeded"
    BY TransitionFields
  <2>4. \A q \in killed : Live(row[q])
    OBVIOUS
  <2> HIDE DEF killed, dead
  <2>5. Kills(killed)
    BY <2>1, <2>2, <2>3, <2>4 DEF Kills, Same, Terminal, TerminalStatuses
  <2> QED BY <2>1, <2>5
<1>18. ASSUME NEW p \in Procs, FinalizeKill(p) PROVE TreeKind
  <2>1. \A q \in Procs : row'[q] = IF parent[p] = q /\ WaitsForChild(row, q, p)
                                     THEN WakeRow(row[q]) ELSE row[q]
    BY <1>18 DEF FinalizeKill, WakeParent
  <2>2. \A q \in Procs : WakeRow(row[q]).status = "runnable"
    BY TransitionFields DEF WakeRow
  <2>3. \A q \in Procs : Wakes(p, q)
    BY <2>1, <2>2 DEF Wakes, Same, Goes, WaitsForChild, Live, Exists, Terminal, TerminalStatuses
  <2>4. Finalizes(p)
    BY <1>18, <2>3 DEF FinalizeKill, Finalizes
  <2> QED BY <2>4
<1>19. ASSUME NEW c \in Procs, RecoverLaunch(c) PROVE TreeKind
  BY <1>19, DeleteTree DEF RecoverLaunch, threads
<1>20. ASSUME NEW p \in Procs, RecoverExecution(p) PROVE TreeKind
  <2> DEFINE r == RecoverStaleRow(row[p])
  <2>1. Live(row[p]) /\ Live(r) /\ r.status # "waiting_event"
    BY <1>20
    DEF RecoverExecution, IsStaleExecution, RecoverStaleRow, Live, Exists, Terminal,
        TerminalStatuses
  <2>2. row' = [row EXCEPT ![p] = r] /\ UNCHANGED <<parent, launch, reserved, limitKilled, used>>
    BY <1>20 DEF RecoverExecution, threads
  <2> HIDE DEF r
  <2> QED BY <2>1, <2>2, OneGoes DEF LaunchKept
<1>21. CASE NextStage
  BY <1>21, NoneGoes DEF NextStage, stored, threads
<1>22. CASE UNCHANGED vars
  BY <1>22, NoneGoes DEF vars
<1> QED
  BY <1>1, <1>2, <1>3, <1>4, <1>5, <1>6, <1>7, <1>8, <1>9, <1>10, <1>11, <1>12, <1>13,
     <1>14, <1>15, <1>16, <1>17, <1>18, <1>19, <1>20, <1>21, <1>22, <1>23
  DEF Next, WorkerStep, HostStep

\* A gated process is paused, so that neither a claim, a completion, a wait, a wake nor the
\* recovery reaches its row.
LEMMA GatedIsPaused ==
    ASSUME StatesConsistent, NEW p \in Procs, row[p].wait.kind = "host_resume"
    PROVE  row[p].status = "paused"
  BY DEF StatesConsistent, ValidState

\* Nothing but the Host or its death takes a row out of the gate.
Gate(p) ==
    row[p].wait.kind = "host_resume" /\ row'[p].wait.kind # "host_resume" =>
      ~Live(row'[p]) \/ used'.host = used.host + 1

\* An end wakes nobody behind a gate.
LEMMA EndGate ==
    ASSUME TypeOK, StatesConsistent, NEW p \in Procs, NEW r, r.status \in TerminalStatuses,
           row' = WakeParent([row EXCEPT ![p] = r], p), NEW q \in Procs
    PROVE  Gate(q)
<1> DEFINE rs == [row EXCEPT ![p] = r]
<1>1. row \in [Procs -> Rows]
  BY DEF TypeOK
<1>2. row'[q] = IF parent[p] = q /\ WaitsForChild(rs, q, p) THEN WakeRow(rs[q]) ELSE rs[q]
  BY DEF WakeParent
<1>3. CASE q = p
  <2>1. rs[q] = r /\ ~WaitsForChild(rs, q, p)
    BY <1>1, <1>3 DEF WaitsForChild, TerminalStatuses
  <2> QED BY <1>2, <2>1 DEF Gate, Live, Terminal
<1>4. CASE q # p
  <2>1. rs[q] = row[q]
    BY <1>1, <1>4
  <2>2. row[q].wait.kind = "host_resume" => ~WaitsForChild(rs, q, p)
    BY <2>1, GatedIsPaused DEF WaitsForChild
  <2> QED BY <1>2, <2>1, <2>2 DEF Gate
<1> QED BY <1>3, <1>4

\* One row is written, and not one behind a gate unless it ends.
LEMMA OneGate ==
    ASSUME TypeOK, NEW p \in Procs, NEW r, row' = [row EXCEPT ![p] = r], NEW q \in Procs,
           row[p].wait.kind = "host_resume" => r.wait.kind = "host_resume" \/ ~Live(r)
    PROVE  Gate(q)
<1>1. row'[p] = r /\ (q # p => row'[q] = row[q])
  BY DEF TypeOK
<1> QED BY <1>1 DEF Gate

\* Every step leaves every gate closed, or is the Host's.
LEMMA GateStep ==
    ASSUME TypeOK, LaunchesOwned, StatesConsistent, [Next]_vars, NEW q \in Procs
    PROVE  Gate(q)
<1>0. row \in [Procs -> Rows] /\ used \in Bounds
  BY DEF TypeOK
<1>pid. \A w \in Workers : worker[w].pc # "idle" => worker[w].pid \in Procs
  BY DEF LaunchesOwned
<1>busy. \A w \in Workers : worker[w].busy # NoProc => worker[w].busy \in Procs
  BY DEF TypeOK, WorkerStates
<1>owns. \A w \in Workers : Owns(w) =>
           worker[w].pid \in Procs /\ row[worker[w].pid].status = "running"
  BY DEF TypeOK, WorkerStates, Owns, TokenCurrent
<1>none. ASSUME UNCHANGED row PROVE Gate(q)
  BY <1>none DEF Gate
<1>host. ASSUME used' = [used EXCEPT !.host = @ + 1] PROVE Gate(q)
  BY <1>0, <1>host DEF Gate, Bounds
<1>1. ASSUME NEW w \in Workers, NEW p \in Procs, ClaimExecution(w, p) PROVE Gate(q)
  BY <1>1, GatedIsPaused, OneGate DEF ClaimExecution
<1>2. ASSUME NEW w \in Workers, CompleteExecution(w) PROVE Gate(q)
  <2> DEFINE p == worker[w].pid
             r == CompleteRow(row[p], Token(w))
  <2>1. p \in Procs /\ row' = [row EXCEPT ![p] = r]
    BY <1>2, <1>pid DEF CompleteExecution
  <2>2. row[p].wait.kind = "host_resume" => r = row[p]
    BY <2>1, GatedIsPaused DEF CompleteRow, TokenCurrent
  <2> HIDE DEF r
  <2> QED BY <2>1, <2>2, OneGate
<1>3. ASSUME NEW w \in Workers, FailProcessTask(w) PROVE Gate(q)
  <2> DEFINE p == worker[w].pid
             r == Transition(row[p], "failed", NoWait, "scheduler_task_failed")
  <2>1. p \in Procs /\ (UNCHANGED row \/ row' = [row EXCEPT ![p] = r])
    BY <1>3, <1>pid DEF FailProcessTask
  <2>2. ~Live(r)
    BY TransitionFields DEF Live, Terminal, TerminalStatuses
  <2> HIDE DEF r
  <2> QED BY <1>none, <2>1, <2>2, OneGate
<1>4. ASSUME NEW w \in Workers, NEW c \in Procs, WaitChild(w, c) PROVE Gate(q)
  <2>1. worker[w].pid \in Procs /\ row[worker[w].pid].wait.kind # "host_resume"
    BY <1>4, <1>owns, GatedIsPaused DEF WaitChild
  <2> QED BY <1>4, <2>1, OneGate DEF WaitChild
<1>5. ASSUME NEW w \in Workers, LaunchInsert(w) PROVE Gate(q)
  <2> DEFINE c == worker[w].busy
  <2>1. c \in Procs /\ row' = [row EXCEPT ![c] = InsertProcess] /\ row[c].status = "absent"
    BY <1>5, <1>busy DEF LaunchInsert, LaunchesOwned, Exists
  <2>2. row[c].wait.kind # "host_resume"
    BY <2>1, GatedIsPaused
  <2> QED BY <2>1, <2>2, OneGate
<1>6. ASSUME NEW w \in Workers, LaunchCommit(w) PROVE Gate(q)
  <2>1. worker[w].busy \in Procs /\ row[worker[w].busy].wait.kind # "host_resume"
    BY <1>6, <1>busy, GatedIsPaused DEF LaunchCommit
  <2> QED BY <1>6, <2>1, OneGate DEF LaunchCommit
<1>7. ~Live(AbsentRow)
  BY DEF AbsentRow, Live, Exists
<1>8. ASSUME NEW w \in Workers, LaunchRollback(w) PROVE Gate(q)
  BY <1>7, <1>8, <1>busy, OneGate DEF LaunchRollback, DeleteScaffold
<1>9. ASSUME NEW c \in Procs, NEW sig \in Signals, SignalApplicable(row[c], sig, FALSE),
             ApplySignal(c, sig)
      PROVE Gate(q)
  <2> DEFINE r == SignalRow(row[c], sig)
  <2>1. CASE sig = "terminate"
    <3>1. r.status \in TerminalStatuses
      BY <2>1, TransitionFields DEF SignalRow, TerminalStatuses
    <3>2. row' = WakeParent([row EXCEPT ![c] = r], c)
      BY <1>9, <2>1 DEF ApplySignal
    <3> HIDE DEF r
    <3> QED BY <3>1, <3>2, EndGate
  <2>2. CASE sig # "terminate"
    <3>1. row' = [row EXCEPT ![c] = r]
      BY <1>9, <2>2 DEF ApplySignal
    <3>2. row[c].wait.kind = "host_resume" => r.wait.kind = "host_resume"
      BY <1>9, <2>2, SignalFields
    <3> HIDE DEF r
    <3> QED BY <3>1, <3>2, OneGate
  <2> QED BY <2>1, <2>2
<1>10. ASSUME NEW w \in Workers, NEW d \in Procs, FailedExitTerminate(w, d) PROVE Gate(q)
  <2>1. SignalApplicable(row[d], "terminate", FALSE) /\ ApplySignal(d, "terminate")
    BY <1>10 DEF FailedExitTerminate, LiveDescendants, SignalApplicable
  <2> QED BY <1>9, <2>1 DEF Signals
<1>11. ASSUME NEW w \in Workers, NEW failed \in BOOLEAN, Exit(w, failed) PROVE Gate(q)
  <2> DEFINE p == worker[w].pid
             status == IF failed THEN "failed" ELSE "exited"
             r == Transition(row[p], status, NoWait, status)
  <2>1. p \in Procs /\ row' = WakeParent([row EXCEPT ![p] = r], p)
    BY <1>11, <1>owns DEF Exit, ExitTransaction
  <2>2. r.status \in TerminalStatuses
    BY TransitionFields DEF TerminalStatuses
  <2> HIDE DEF r
  <2> QED BY <2>1, <2>2, EndGate
<1>12. ASSUME NEW w \in Workers, NEW owner \in Procs, ResourceLimitKill(w, owner) PROVE Gate(q)
  <2> DEFINE killed == {d \in {owner} \cup Descendants(owner) : Live(row[d])}
             dead == Transition(row[q], "killed", NoWait, "resource_limit_exceeded")
  <2>1. row'[q] = IF q \in killed THEN dead ELSE row[q]
    BY <1>12 DEF ResourceLimitKill
  <2>2. ~Live(dead)
    BY TransitionFields DEF Live, Terminal, TerminalStatuses
  <2> QED BY <2>1, <2>2 DEF Gate
<1>13. ASSUME NEW p \in Procs, FinalizeKill(p) PROVE Gate(q)
  <2>1. row'[q] = IF parent[p] = q /\ WaitsForChild(row, q, p) THEN WakeRow(row[q]) ELSE row[q]
    BY <1>13 DEF FinalizeKill, WakeParent
  <2>2. row[q].wait.kind = "host_resume" => ~WaitsForChild(row, q, p)
    BY GatedIsPaused DEF WaitsForChild
  <2> QED BY <2>1, <2>2 DEF Gate
<1>14. ASSUME NEW c \in Procs, RecoverLaunch(c) PROVE Gate(q)
  BY <1>7, <1>14, OneGate DEF RecoverLaunch, DeleteScaffold
<1>15. ASSUME NEW p \in Procs, RecoverExecution(p) PROVE Gate(q)
  <2>1. row[p].wait.kind # "host_resume"
    BY <1>15, GatedIsPaused DEF RecoverExecution, IsStaleExecution
  <2> QED BY <1>15, <2>1, OneGate DEF RecoverExecution
<1>16. ASSUME NEW w \in Workers, NEW p \in Procs, NEW sig \in Signals, SignalChild(w, p, sig)
       PROVE Gate(q)
  BY <1>9, <1>16 DEF SignalChild
<1>17. ASSUME NEW w \in Workers,
              \/ \E raises \in BOOLEAN : EndQuantum(w, raises)
              \/ FailedExitBegin(w) \/ FailedExitRaise(w)
              \/ \E c \in Procs : LaunchBegin(w, c)
       PROVE Gate(q)
  BY <1>17, <1>none DEF EndQuantum, FailedExitBegin, FailedExitRaise, LaunchBegin, stored
<1>18. ASSUME NEW p \in Procs, HostStep(p) PROVE Gate(q)
  <2>1. ASSUME NEW d \in Procs, HostExitTerminate(p, d) PROVE Gate(q)
    <3>1. SignalApplicable(row[d], "terminate", FALSE) /\ ApplySignal(d, "terminate")
      BY <2>1 DEF HostExitTerminate, LiveDescendants, SignalApplicable
    <3> QED BY <1>9, <3>1 DEF Signals
  <2> QED BY <1>18, <1>host, <2>1 DEF HostStep, HostSignal, HostWait, HostExit
<1>19. CASE Crash \/ NextStage \/ UNCHANGED vars
  BY <1>19, <1>none DEF Crash, NextStage, stored, vars
<1> QED
  BY <1>1, <1>2, <1>3, <1>4, <1>5, <1>6, <1>8, <1>10, <1>11, <1>12, <1>13, <1>14, <1>15,
     <1>16, <1>17, <1>18, <1>19
  DEF Next, WorkerStep

-------------------------------------------------------------------------------
(* Theorems about the tree *)

\* The invariant of waits and reservations holds at the start.
LEMMA InitTree ==
    ASSUME Init
    PROVE  TreeInv
<1> DEFINE first == Transition(InsertProcess, "runnable", NoWait, "none")
<1>1. /\ \A p \in Procs : row[p] = IF p = Root THEN first ELSE AbsentRow
      /\ \A p \in Procs : parent[p] = NoProc /\ launch[p] = NoLaunch
      /\ reserved = {} /\ limitKilled = {}
  BY DEF Init
<1>2. first.status = "runnable" /\ AbsentRow.status = "absent"
  BY TransitionFields DEF AbsentRow
<1> HIDE DEF first
<1>3. \A p, c \in Procs : ~WaitsForChild(row, p, c)
  BY <1>1, <1>2 DEF WaitsForChild
<1>4. FreshIsAlone /\ KillStands
  BY <1>1, LifecycleAssumption DEF FreshIsAlone, KillStands
<1>5. ReservationsExact
  BY <1>1, LifecycleAssumption DEF ReservationsExact
<1> QED
  BY <1>3, <1>4, <1>5 DEF TreeInv, WaitedIsChild, NoStrandedParent

\* A launch in progress is carried by a worker that runs the child's parent, from
\* spawn_child to the commit or the compensation, so the commit looks at that parent.
THEOREM Carriers == Spec => []LaunchesCarried
<1>1. Init => LaunchesCarried
  BY DEF Init, LaunchesCarried, IdleWorker
<1>2. ASSUME IInv, LaunchesCarried, [Next]_vars
      PROVE  LaunchesCarried'
  BY <1>2, CarriedStep DEF IInv
<1> QED
  BY <1>1, <1>2, Invariance, PTL DEF Spec

\* Every wait for a child is for a child of the waiting process, a pid has neither parent
\* nor children before its launch, an owed finalization stands in the row, and with them
\* the next two properties hold.
THEOREM TreeInvariance == Spec => []TreeInv
<1>1. Init => TreeInv
  BY InitTree
<1>2. ASSUME IInv, LaunchesCarried, TreeInv, [Next]_vars
      PROVE  TreeInv'
  <2>1. TypeOK /\ LaunchesOwned /\ StatesConsistent /\ limitKilled \subseteq Procs
    BY <1>2 DEF IInv, TypeOK
  <2>2. TreeKind
    BY <1>2, <2>1, TreeStep
  <2> QED
    BY <1>2, <2>1, <2>2, QuietStep, CrashTree, EndsStep, FailsStep, FinalizesStep, InsertsStep,
       DeletesStep, ParksStep, BeginsStep, KillsStep DEF TreeKind
<1> QED
  BY <1>1, <1>2, Invariance, Carriers, PTL DEF Spec

\* No lost wakeup: whoever waits for a child waits for one that is alive, or whose wake is
\* owed by one of the four paths that WakeOwed names.
THEOREM ParentsWoken == Spec => []NoStrandedParent
<1>1. TreeInv => NoStrandedParent
  BY DEF TreeInv
<1> QED
  BY <1>1, TreeInvariance, PTL

\* The reservation of a child lives as long as the child and its parent do, through
\* launches, compensations, exits, signals and limit kills.
THEOREM ReservationsKept == Spec => []ReservationsExact
<1>1. TreeInv => ReservationsExact
  BY DEF TreeInv
<1> QED
  BY <1>1, TreeInvariance, PTL

\* No sequence of signals from a parent, of claims, wakes and recoveries opens a
\* Host-resume gate: only the Host does, or the death of the process.
THEOREM GatesHeld == Spec => HostGateHeld
<1>1. ASSUME IInv, [Next]_vars
      PROVE  [\A p \in Procs :
                row[p].wait.kind = "host_resume" /\ row'[p].wait.kind # "host_resume" =>
                  \/ ~Live(row'[p])
                  \/ used'.host = used.host + 1]_vars
  BY <1>1, GateStep DEF IInv, Gate
<1> QED
  BY <1>1, Invariance, PTL DEF Spec, HostGateHeld
-------------------------------------------------------------------------------
(* What stands below an exited process *)

\* What stands at or below p when the parents are f: the least set with p in it that has
\* the children of its members.
ClosedIn(f, S) == \A c \in Procs : f[c] \in S => c \in S
Under(f, p) == {d \in Procs : \A S \in SUBSET Procs : p \in S /\ ClosedIn(f, S) => d \in S}

\* Nobody stands below a child of its own.
Acyclic(f) == \A c \in Procs : f[c] \in Procs => f[c] \notin Under(f, c)

\* g differs from f in the parent of c only.
DiffersAt(f, g, c) == \A d \in Procs : d # c => g[d] = f[d]

\* The walk of _descendant_tree stays among the processes, starts at its root and goes on
\* to the children of what it has.
LEMMA UnderBasics ==
    ASSUME NEW f, NEW p \in Procs
    PROVE  /\ Under(f, p) \subseteq Procs /\ p \in Under(f, p)
           /\ ClosedIn(f, Under(f, p))
  BY DEF Under, ClosedIn

\* It collects no more than any set that contains the root and has the children of its
\* members.
LEMMA UnderLeast ==
    ASSUME NEW f, NEW p \in Procs, NEW S \in SUBSET Procs, p \in S, ClosedIn(f, S)
    PROVE  Under(f, p) \subseteq S
  BY DEF Under

\* What is collected from a member is collected from the root.
LEMMA UnderTransitive ==
    ASSUME NEW f, NEW p \in Procs, NEW q \in Under(f, p)
    PROVE  q \in Procs /\ Under(f, q) \subseteq Under(f, p)
<1>1. Under(f, p) \in SUBSET Procs /\ ClosedIn(f, Under(f, p)) /\ q \in Procs
  BY UnderBasics
<1> QED
  BY <1>1, UnderLeast

\* Only the root is collected without its parent.
LEMMA UnderParent ==
    ASSUME NEW f, NEW p \in Procs, NEW d \in Under(f, p), d # p
    PROVE  f[d] \in Under(f, p)
<1> DEFINE S == {x \in Under(f, p) : x = p \/ f[x] \in Under(f, p)}
<1>1. Under(f, p) \subseteq Procs /\ p \in Under(f, p) /\ ClosedIn(f, Under(f, p))
  BY UnderBasics
<1>2. S \in SUBSET Procs /\ p \in S /\ ClosedIn(f, S)
  BY <1>1 DEF ClosedIn
<1>3. Under(f, p) \subseteq S
  BY <1>2, UnderLeast
<1> QED
  BY <1>3

\* Two processes that stand below each other are the same.
LEMMA UnderAntisymmetric ==
    ASSUME NEW f, Acyclic(f), NEW p \in Procs, NEW q \in Under(f, p), p \in Under(f, q)
    PROVE  p = q
<1> SUFFICES ASSUME p # q PROVE FALSE
  OBVIOUS
<1>1. q \in Procs /\ Under(f, q) \subseteq Under(f, p)
  BY UnderTransitive
<1>2. f[p] \in Under(f, q)
  BY <1>1, UnderParent
<1>3. f[p] \in Procs /\ f[p] \in Under(f, p)
  BY <1>1, <1>2, UnderBasics
<1> QED
  BY <1>3 DEF Acyclic

\* A new child without children of its own: the walk from anywhere finds what it found
\* before and at most the new child (_begin_controlled_launch).
LEMMA LeafAdded ==
    ASSUME NEW f, NEW g, NEW c \in Procs, NEW p \in Procs, p # c, DiffersAt(f, g, c),
           f[c] = NoProc, g[c] = p, \A d \in Procs : f[d] # c,
           NEW x \in Procs
    PROVE  Under(f, x) \subseteq Under(g, x) /\ Under(g, x) \subseteq Under(f, x) \cup {c}
<1>1. /\ Under(f, x) \subseteq Procs /\ x \in Under(f, x) /\ ClosedIn(f, Under(f, x))
      /\ Under(g, x) \subseteq Procs /\ x \in Under(g, x) /\ ClosedIn(g, Under(g, x))
  BY UnderBasics
<1>2. ClosedIn(f, Under(g, x))
  BY <1>1, LifecycleAssumption DEF ClosedIn, DiffersAt
<1>3. ClosedIn(g, Under(f, x) \cup {c})
  BY <1>1 DEF ClosedIn, DiffersAt
<1>4. Under(f, x) \subseteq Under(g, x)
  BY <1>1, <1>2, UnderLeast
<1>5. Under(f, x) \cup {c} \in SUBSET Procs /\ x \in Under(f, x) \cup {c}
  BY <1>1
<1>6. Under(g, x) \subseteq Under(f, x) \cup {c}
  BY <1>3, <1>5, UnderLeast
<1> QED
  BY <1>4, <1>6

\* A new child closes no cycle.
LEMMA LeafAcyclic ==
    ASSUME NEW f, NEW g, NEW c \in Procs, NEW p \in Procs, p # c, DiffersAt(f, g, c),
           f[c] = NoProc, g[c] = p, \A d \in Procs : f[d] # c, Acyclic(f)
    PROVE  Acyclic(g)
<1> SUFFICES ASSUME NEW d \in Procs, g[d] \in Procs, g[d] \in Under(g, d)
             PROVE  FALSE
  BY DEF Acyclic
<1>1. g[d] \in Under(f, d) \cup {c}
  BY LeafAdded
<1>2. CASE d = c
  <2>1. {c} \in SUBSET Procs /\ c \in {c} /\ ClosedIn(f, {c})
    BY DEF ClosedIn
  <2>2. Under(f, c) \subseteq {c}
    BY <2>1, UnderLeast
  <2> QED BY <1>1, <1>2, <2>2
<1>3. CASE d # c
  <2>1. g[d] = f[d] /\ f[d] # c
    BY <1>3 DEF DiffersAt
  <2> QED BY <1>1, <2>1 DEF Acyclic
<1> QED
  BY <1>2, <1>3

\* A process that loses its parent takes what is below it along, and the walk finds
\* nothing new (delete_process_scaffold).
LEMMA LinkCut ==
    ASSUME NEW f, NEW g, NEW c \in Procs, DiffersAt(f, g, c), g[c] = NoProc, NEW x \in Procs
    PROVE  Under(g, x) \subseteq Under(f, x)
<1>1. Under(f, x) \in SUBSET Procs /\ x \in Under(f, x) /\ ClosedIn(f, Under(f, x))
  BY UnderBasics
<1>2. ClosedIn(g, Under(f, x))
  BY <1>1, LifecycleAssumption DEF ClosedIn, DiffersAt
<1> QED
  BY <1>1, <1>2, UnderLeast

\* A cut closes no cycle.
LEMMA CutAcyclic ==
    ASSUME NEW f, NEW g, NEW c \in Procs, DiffersAt(f, g, c), g[c] = NoProc, Acyclic(f)
    PROVE  Acyclic(g)
<1> SUFFICES ASSUME NEW d \in Procs, g[d] \in Procs, g[d] \in Under(g, d)
             PROVE  FALSE
  BY DEF Acyclic
<1>1. g[d] = f[d]
  BY LifecycleAssumption DEF DiffersAt
<1>2. Under(g, d) \subseteq Under(f, d)
  BY LinkCut
<1> QED
  BY <1>1, <1>2 DEF Acyclic

\* Ancestors are in a line: if x is still below p after the cut, an ancestor q of x from
\* before the cut either stands between the two still, or stood at or above p.
LEMMA BetweenAfterCut ==
    ASSUME NEW f, NEW g, NEW c \in Procs, DiffersAt(f, g, c), g[c] = NoProc,
           NEW p \in Procs, NEW q \in Procs, NEW x \in Under(g, p), x \in Under(f, q),
           p \notin Under(f, q)
    PROVE  q \in Under(g, p) /\ x \in Under(g, q)
<1> DEFINE S == {y \in Under(g, p) :
                   y \in Under(f, q) => q \in Under(g, p) /\ y \in Under(g, q)}
<1>1. /\ Under(g, p) \subseteq Procs /\ p \in Under(g, p) /\ ClosedIn(g, Under(g, p))
      /\ q \in Under(g, q) /\ ClosedIn(g, Under(g, q))
  BY UnderBasics
<1>2. S \in SUBSET Procs /\ p \in S
  BY <1>1
<1>3. ASSUME NEW y \in Procs, g[y] \in S
      PROVE  y \in S
  <2>1. y \in Under(g, p) /\ f[y] = g[y]
    BY <1>1, <1>2, <1>3, LifecycleAssumption DEF ClosedIn, DiffersAt
  <2>2. ASSUME y \in Under(f, q)
        PROVE  q \in Under(g, p) /\ y \in Under(g, q)
    <3>1. CASE y = q
      BY <1>1, <2>1, <3>1
    <3>2. CASE y # q
      <4>1. g[y] \in Under(f, q)
        BY <2>1, <2>2, <3>2, UnderParent
      <4>2. q \in Under(g, p) /\ g[y] \in Under(g, q)
        BY <1>3, <4>1
      <4> QED BY <1>1, <4>2 DEF ClosedIn
    <3> QED BY <3>1, <3>2
  <2> QED BY <2>1, <2>2
<1>4. ClosedIn(g, S)
  BY <1>3 DEF ClosedIn
<1>5. Under(g, p) \subseteq S
  BY <1>2, <1>4, UnderLeast
<1> QED
  BY <1>5

Stopped(r) == r.code \in {"exited", "failed"}

\* A launch in progress that has its row.
Pending(q) == Incomplete(q) /\ Exists(row[q])

\* What ExitedHasNoLiveDescendants says, on the sets Under: below a process that exited,
\* whoever lives stands at or below a launch that has not committed.
Sheltered(f, p, d) == \E q \in Under(f, p) \ {p} : Pending(q) /\ d \in Under(f, q)
Quieted ==
    \A p \in Procs : Stopped(row[p]) =>
      \A d \in Under(parent, p) \ {p} : Live(row[d]) => Sheltered(parent, p, d)

DownInv == Acyclic(parent) /\ Quieted

\* The walk on the present parents is the one of the model.
LEMMA BelowIsUnder ==
    ASSUME NEW p
    PROVE  Below(p) = Under(parent, p)
  BY DEF Below, Closed, Under, ClosedIn

\* The invariant says what the property says.
LEMMA QuietedIsProperty ==
    ASSUME Quieted
    PROVE  ExitedHasNoLiveDescendants
<1> SUFFICES ASSUME NEW p \in Procs, row[p].code \in {"exited", "failed"},
                    NEW d \in LiveDescendants(p)
             PROVE  \E q \in Descendants(p) : Incomplete(q) /\ (q = d \/ d \in Descendants(q))
  BY DEF ExitedHasNoLiveDescendants
<1>1. d \in Under(parent, p) \ {p} /\ Live(row[d]) /\ Exists(row[d])
  BY BelowIsUnder DEF LiveDescendants, Descendants
<1>2. PICK q \in Under(parent, p) \ {p} : Pending(q) /\ d \in Under(parent, q)
  BY <1>1 DEF Quieted, Stopped, Sheltered
<1>3. q \in Descendants(p) /\ Incomplete(q) /\ (q = d \/ d \in Descendants(q))
  BY <1>1, <1>2, BelowIsUnder DEF Descendants, Pending
<1> QED
  BY <1>3

\* A process that stopped is not alive.
LEMMA StoppedIsDead ==
    ASSUME StatesConsistent, NEW p \in Procs, Stopped(row[p])
    PROVE  Terminal(row[p]) /\ ~Live(row[p])
  BY DEF StatesConsistent, ValidState, Stopped, Live, Exists, Terminal, TerminalStatuses

\* A row goes on as far as the tree is concerned: nobody comes to life or vanishes, and
\* whoever stops has nothing alive below it.
RowKept(q) ==
    /\ Live(row'[q]) => Live(row[q])
    /\ Exists(row[q]) => Exists(row'[q])
    /\ Stopped(row'[q]) => Stopped(row[q]) \/ LiveDescendants(q) = {}

\* No launch and no parent changes.
Keeps ==
    /\ \A q \in Procs : RowKept(q) /\ (Incomplete(q) => Incomplete(q)')
    /\ parent' = parent

\* The launch of c commits under a parent that lives.
Commits(c) ==
    /\ \A q \in Procs : RowKept(q) /\ (q # c /\ Incomplete(q) => Incomplete(q)')
    /\ parent' = parent /\ Live(row[parent[c]])

\* Who stands below an exited process stood there before, sheltered.
LEMMA OldShelter ==
    ASSUME Quieted, NEW p \in Procs, Stopped(row[p]) \/ LiveDescendants(p) = {},
           NEW d \in Under(parent, p) \ {p}, Live(row[d])
    PROVE  Stopped(row[p]) /\ Sheltered(parent, p, d)
<1>1. d \in LiveDescendants(p)
  BY BelowIsUnder DEF LiveDescendants, Descendants, Live
<1> QED
  BY <1>1 DEF Quieted

\* A step that leaves launches and parents alone.
LEMMA KeepsStep ==
    ASSUME DownInv, Keeps
    PROVE  DownInv'
<1>0. Acyclic(parent) /\ Quieted /\ parent' = parent /\ \A q \in Procs : RowKept(q)
  BY DEF DownInv, Keeps
<1> SUFFICES ASSUME NEW p \in Procs, Stopped(row'[p]), NEW d \in Under(parent, p) \ {p},
                    Live(row'[d])
             PROVE  \E q \in Under(parent, p) \ {p} :
                      Incomplete(q)' /\ Exists(row'[q]) /\ d \in Under(parent, q)
  BY <1>0 DEF DownInv, Quieted, Sheltered, Pending
<1>1. d \in Procs /\ Under(parent, p) \subseteq Procs
  BY UnderBasics
<1>2. Live(row[d]) /\ (Stopped(row[p]) \/ LiveDescendants(p) = {})
  BY <1>0, <1>1 DEF RowKept
<1>3. PICK q \in Under(parent, p) \ {p} : Pending(q) /\ d \in Under(parent, q)
  BY <1>0, <1>2, OldShelter DEF Sheltered
<1>4. Incomplete(q)' /\ Exists(row'[q])
  BY <1>0, <1>1, <1>3 DEF Pending, Keeps, RowKept
<1> QED
  BY <1>3, <1>4

\* A commit: the parent lives, so it stands below another launch that has not committed if
\* it stands below an exited process at all, and that launch shelters what the committed
\* one did (_require_parent_launch_fence).
LEMMA CommitsStep ==
    ASSUME DownInv, StatesConsistent, NEW c \in Procs, Commits(c)
    PROVE  DownInv'
<1>0. /\ Acyclic(parent) /\ Quieted /\ parent' = parent /\ \A q \in Procs : RowKept(q)
      /\ Live(row[parent[c]])
  BY DEF DownInv, Commits
<1> SUFFICES ASSUME NEW p \in Procs, Stopped(row'[p]), NEW d \in Under(parent, p) \ {p},
                    Live(row'[d])
             PROVE  \E q \in Under(parent, p) \ {p} :
                      Incomplete(q)' /\ Exists(row'[q]) /\ d \in Under(parent, q)
  BY <1>0 DEF DownInv, Quieted, Sheltered, Pending
<1>1. d \in Procs /\ Under(parent, p) \subseteq Procs
  BY UnderBasics
<1>2. Live(row[d]) /\ (Stopped(row[p]) \/ LiveDescendants(p) = {})
  BY <1>0, <1>1 DEF RowKept
<1>3. Stopped(row[p])
  BY <1>0, <1>2, OldShelter
<1>4. PICK q \in Under(parent, p) \ {p} : Pending(q) /\ d \in Under(parent, q)
  BY <1>0, <1>2, OldShelter DEF Sheltered
<1>5. \A z \in Under(parent, p) : z # c /\ Pending(z) => Incomplete(z)' /\ Exists(row'[z])
  BY <1>0, <1>1 DEF Pending, Commits, RowKept
<1>6. CASE q # c
  BY <1>4, <1>5, <1>6
<1>7. CASE q = c
  <2> DEFINE e == parent[c]
  <2>1. e \in Under(parent, p)
    BY <1>4, <1>7, UnderParent
  <2>2. e # p
    BY <1>0, <1>3, StoppedIsDead
  <2>3. PICK z \in Under(parent, p) \ {p} : Pending(z) /\ e \in Under(parent, z)
    BY <1>0, <1>3, <2>1, <2>2 DEF Quieted, Sheltered
  <2>4. z # c
    BY <1>0, <1>1, <2>1, <2>3 DEF Acyclic
  <2>5. z \in Procs /\ c \in Under(parent, z)
    BY <1>1, <2>3, UnderBasics DEF ClosedIn
  <2>6. d \in Under(parent, z)
    BY <1>4, <1>7, <2>5, UnderTransitive
  <2> QED BY <1>5, <2>3, <2>4, <2>6
<1> QED
  BY <1>6, <1>7

\* A launch begins: the new child has no row yet.
LEMMA BeginsDown ==
    ASSUME DownInv, TreeInv, NEW p \in Procs, NEW c \in Procs, Begins(p, c)
    PROVE  DownInv'
<1> DEFINE g == parent'
<1>0. /\ p # c /\ g[c] = p /\ DiffersAt(parent, g, c) /\ Acyclic(parent) /\ Quieted
      /\ ~Exists(row[c]) /\ \A q \in Procs : row'[q] = row[q]
      /\ \A q \in Procs : q # c => launch'[q] = launch[q]
  BY DEF Begins, DiffersAt, DownInv, Live, Same
<1>1. parent[c] = NoProc /\ \A d \in Procs : parent[d] # c
  BY DEF Begins, TreeInv, FreshIsAlone
<1>2. \A x \in Procs : Under(parent, x) \subseteq Under(g, x)
                       /\ Under(g, x) \subseteq Under(parent, x) \cup {c}
  BY <1>0, <1>1, LeafAdded
<1>3. Acyclic(g)
  BY <1>0, <1>1, LeafAcyclic
<1>4. ASSUME NEW x \in Procs, Stopped(row'[x]), NEW d \in Under(g, x) \ {x}, Live(row'[d])
      PROVE  \E q \in Under(g, x) \ {x} :
               Incomplete(q)' /\ Exists(row'[q]) /\ d \in Under(g, q)
  <2>1. d \in Procs /\ Under(parent, x) \subseteq Procs
    BY UnderBasics
  <2>2. d # c /\ Live(row[d]) /\ Stopped(row[x])
    BY <1>0, <1>4, <2>1 DEF Live
  <2>3. PICK q \in Under(parent, x) \ {x} : Pending(q) /\ d \in Under(parent, q)
    BY <1>0, <1>2, <1>4, <2>2 DEF Quieted, Sheltered
  <2>4. q \in Procs /\ q # c
    BY <1>0, <2>1, <2>3 DEF Pending
  <2>5. Incomplete(q)' /\ Exists(row'[q])
    BY <1>0, <2>3, <2>4 DEF Pending, Incomplete
  <2> QED BY <1>2, <2>3, <2>4, <2>5
<1> QED
  BY <1>3, <1>4 DEF DownInv, Quieted, Sheltered, Pending

\* The row of a child is inserted: its own launch shelters it.
LEMMA InsertsDown ==
    ASSUME DownInv, TreeInv, LaunchesOwned, StatesConsistent', NEW c \in Procs, Inserts(c)
    PROVE  DownInv'
<1>0. /\ Acyclic(parent) /\ Quieted /\ parent' = parent /\ row'[c].status = "created"
      /\ launch'[c].state = "applying"
      /\ \A q \in Procs : q # c => row'[q] = row[q] /\ launch'[q] = launch[q]
  BY DEF Inserts, DownInv, Same
<1>1. Incomplete(c)' /\ Exists(row'[c]) /\ ~Stopped(row'[c])
  BY <1>0 DEF Incomplete, Exists, StatesConsistent, ValidState, Stopped
<1> SUFFICES ASSUME NEW p \in Procs, Stopped(row'[p]), NEW d \in Under(parent, p) \ {p},
                    Live(row'[d])
             PROVE  \E q \in Under(parent, p) \ {p} :
                      Incomplete(q)' /\ Exists(row'[q]) /\ d \in Under(parent, q)
  BY <1>0 DEF DownInv, Quieted, Sheltered, Pending
<1>2. d \in Procs /\ Under(parent, p) \subseteq Procs
  BY UnderBasics
<1>3. CASE d = c
  BY <1>1, <1>3, UnderBasics
<1>4. CASE d # c
  <2>1. Live(row[d]) /\ Stopped(row[p])
    BY <1>0, <1>1, <1>2, <1>4
  <2>2. PICK q \in Under(parent, p) \ {p} : Pending(q) /\ d \in Under(parent, q)
    BY <1>0, <2>1 DEF Quieted, Sheltered
  <2>3. Incomplete(q)' /\ Exists(row'[q])
    BY <1>0, <1>1, <1>2, <2>2 DEF Pending, Incomplete
  <2> QED BY <2>2, <2>3
<1> QED
  BY <1>3, <1>4

\* A launch is compensated: what stood below it is cut off with it, and what is still
\* below an exited process has its shelter there still.
LEMMA DeletesDown ==
    ASSUME DownInv, StatesConsistent', NEW c \in Procs, Deletes(c)
    PROVE  DownInv'
<1> DEFINE g == parent'
<1>0. /\ g[c] = NoProc /\ DiffersAt(parent, g, c) /\ Acyclic(parent) /\ Quieted
      /\ row'[c].status = "absent"
      /\ \A q \in Procs : q # c => row'[q] = row[q] /\ launch'[q] = launch[q]
  BY DEF Deletes, DiffersAt, DownInv, Same
<1>1. ~Live(row'[c]) /\ ~Stopped(row'[c])
  BY <1>0 DEF Live, Exists, StatesConsistent, ValidState, Stopped
<1>2. \A x \in Procs : Under(g, x) \subseteq Under(parent, x)
  BY <1>0, LinkCut
<1>3. Acyclic(g)
  BY <1>0, CutAcyclic
<1>4. ASSUME NEW x \in Procs, Stopped(row'[x]), NEW d \in Under(g, x) \ {x}, Live(row'[d])
      PROVE  \E q \in Under(g, x) \ {x} :
               Incomplete(q)' /\ Exists(row'[q]) /\ d \in Under(g, q)
  <2>1. d \in Procs /\ Under(parent, x) \subseteq Procs
    BY UnderBasics
  <2>2. Live(row[d]) /\ Stopped(row[x])
    BY <1>0, <1>1, <1>4, <2>1
  <2>3. PICK q \in Under(parent, x) \ {x} : Pending(q) /\ d \in Under(parent, q)
    BY <1>0, <1>2, <1>4, <2>2 DEF Quieted, Sheltered
  <2>4. q \in Procs
    BY <2>1, <2>3
  <2>5. x \notin Under(parent, q)
    BY <1>0, <2>3, UnderAntisymmetric
  <2>6. q \in Under(g, x) /\ d \in Under(g, q)
    BY <1>0, <2>3, <2>4, <2>5, BetweenAfterCut
  <2>7. q # c
    <3>1. g[q] \in Under(g, x) /\ Under(g, x) \subseteq Procs
      BY <2>3, <2>6, UnderParent, UnderBasics
    <3> QED BY <1>0, <3>1, LifecycleAssumption
  <2>8. Incomplete(q)' /\ Exists(row'[q])
    BY <1>0, <2>3, <2>4, <2>7 DEF Pending, Incomplete
  <2> QED BY <2>3, <2>6, <2>8
<1> QED
  BY <1>3, <1>4 DEF DownInv, Quieted, Sheltered, Pending

\* A row that is the same or goes on is kept.
LEMMA GoingIsKept ==
    ASSUME StatesConsistent', NEW q \in Procs, Same(q) \/ Goes(q)
    PROVE  RowKept(q)
<1>1. Live(row'[q]) => ~Stopped(row'[q])
  BY DEF StatesConsistent, ValidState, Stopped, Live, Exists, Terminal, TerminalStatuses
<1> QED
  BY <1>1 DEF Same, Goes, RowKept, Live

\* A live row that ends by a code other than an exit's, or with nothing alive below, is
\* kept.
LEMMA EndingIsKept ==
    ASSUME NEW q \in Procs, Live(row[q]), Terminal(row'[q]),
           row'[q].code \in {"terminate", "scheduler_task_failed", "resource_limit_exceeded"}
             \/ LiveDescendants(q) = {}
    PROVE  RowKept(q)
  BY DEF RowKept, Live, Exists, Terminal, TerminalStatuses, Stopped

\* The kinds of step other than those of a launch keep launches and parents.
LEMMA KindKeeps ==
    ASSUME StatesConsistent', TreeKind
    PROVE  \/ Keeps
           \/ \E c \in Procs : Commits(c) \/ Inserts(c) \/ Deletes(c)
           \/ \E p, c \in Procs : Begins(p, c)
<1>1. CASE Quiet
  <2>1. parent' = parent /\ \A q \in Procs : RowKept(q)
    BY <1>1, GoingIsKept DEF Quiet
  <2>2. CASE \A c \in Procs : launch'[c].state = launch[c].state
    BY <2>1, <2>2 DEF Keeps, Incomplete
  <2>3. ASSUME NEW c \in Procs, launch'[c].state # launch[c].state
        PROVE  Commits(c)
    BY <1>1, <2>1, <2>3 DEF Quiet, LaunchKept, Commits, Incomplete
  <2> QED BY <2>2, <2>3
<1>2. CASE Crash
  BY <1>2, GoingIsKept DEF Crash, stored, Keeps, Same, Incomplete
<1>3. ASSUME NEW p \in Procs, Ends(p) PROVE Keeps
  <2>1. RowKept(p)
    BY <1>3, EndingIsKept DEF Ends
  <2>2. \A q \in Procs : q # p => RowKept(q)
    BY <1>3, GoingIsKept DEF Ends, Wakes
  <2> QED BY <1>3, <2>1, <2>2 DEF Ends, Keeps, Incomplete
<1>4. ASSUME NEW p \in Procs, Fails(p) PROVE Keeps
  <2>1. RowKept(p)
    BY <1>4, EndingIsKept DEF Fails
  <2>2. \A q \in Procs : q # p => RowKept(q)
    BY <1>4, GoingIsKept DEF Fails
  <2> QED BY <1>4, <2>1, <2>2 DEF Fails, Keeps, Incomplete
<1>5. ASSUME NEW p \in Procs, Finalizes(p) PROVE Keeps
  BY <1>5, GoingIsKept DEF Finalizes, Wakes, Keeps, Incomplete
<1>6. ASSUME NEW p \in Procs, NEW c \in Procs, Parks(p, c) PROVE Keeps
  <2>1. RowKept(p)
    <3>1. ~Stopped(row'[p])
      BY <1>6 DEF Parks, StatesConsistent, ValidState, Stopped
    <3> QED BY <1>6, <3>1 DEF Parks, RowKept, Exists
  <2>2. \A q \in Procs : q # p => RowKept(q)
    BY <1>6, GoingIsKept DEF Parks
  <2> QED BY <1>6, <2>1, <2>2 DEF Parks, Keeps, Incomplete
<1>7. ASSUME NEW S \in SUBSET Procs, Kills(S) PROVE Keeps
  <2>1. \A q \in S : RowKept(q)
    BY <1>7, EndingIsKept DEF Kills
  <2>2. \A q \in Procs : q \notin S => RowKept(q)
    BY <1>7, GoingIsKept DEF Kills
  <2> QED BY <1>7, <2>1, <2>2 DEF Kills, Keeps, Incomplete
<1> QED
  BY <1>1, <1>2, <1>3, <1>4, <1>5, <1>6, <1>7 DEF TreeKind

\* The tree has no cycle, and below a process that exited nobody lives except at or below
\* a launch that has not committed.
THEOREM DownInvariance == Spec => []DownInv
<1>1. ASSUME Init
      PROVE  DownInv
  <2> DEFINE first == Transition(InsertProcess, "runnable", NoWait, "none")
  <2>1. /\ \A p \in Procs : row[p] = IF p = Root THEN first ELSE AbsentRow
        /\ \A p \in Procs : parent[p] = NoProc
    BY <1>1 DEF Init
  <2>2. first.code = "none" /\ AbsentRow.code = "none"
    BY TransitionFields DEF AbsentRow
  <2> HIDE DEF first
  <2>3. \A p \in Procs : ~Stopped(row[p])
    BY <2>1, <2>2 DEF Stopped
  <2> QED BY <2>1, <2>3, LifecycleAssumption DEF DownInv, Acyclic, Quieted
<1>2. ASSUME IInv, IInv', LaunchesCarried, TreeInv, DownInv, [Next]_vars
      PROVE  DownInv'
  <2>1. TypeOK /\ LaunchesOwned /\ StatesConsistent /\ StatesConsistent'
    BY <1>2 DEF IInv
  <2>2. TreeKind
    BY <1>2, <2>1, TreeStep
  <2>3. \/ Keeps
        \/ \E c \in Procs : Commits(c) \/ Inserts(c) \/ Deletes(c)
        \/ \E p, c \in Procs : Begins(p, c)
    BY <2>1, <2>2, KindKeeps
  <2> QED
    BY <1>2, <2>1, <2>3, KeepsStep, CommitsStep, InsertsDown, DeletesDown, BeginsDown
<1> QED
  BY <1>1, <1>2, Invariance, Carriers, TreeInvariance, PTL DEF Spec

\* A process that exited left nothing running below it: whatever interleaving of launches,
\* exits, kills, compensations and crashes, a live descendant of an exited process stands
\* at or below a launch that has not committed (ProcessManager.exit re-reads the
\* descendants in its transaction, _require_parent_launch_fence looks again at the commit).
THEOREM ExitsAreClean == Spec => []ExitedHasNoLiveDescendants
<1>1. DownInv => ExitedHasNoLiveDescendants
  BY QuietedIsProperty DEF DownInv
<1> QED
  BY <1>1, DownInvariance, PTL
===============================================================================
