----------------------- MODULE RestorePublication_proof -----------------------
(***************************************************************************)
(* Proofs about RestorePublication, for every set of restores, operations  *)
(* and Objects, any number of finalizers and attempts, and any number of   *)
(* crashes; and that it implements RestoreContract.                        *)
(*                                                                         *)
(* Two arguments meet.  The fence: a lease admitted before it is of an     *)
(* older epoch, and after it only reads are admitted, so that a fenced     *)
(* Runtime commits nothing (FenceInv).  The restart: what is owed is at    *)
(* most one restore (OwedInv), which startup completes, hydrates and       *)
(* delivers before the stage that opens (DeliveryInv, HydratedInv).        *)
(***************************************************************************)
EXTENDS RestorePublication, TLAPS

-------------------------------------------------------------------------------
(* The inductive invariant *)

Unfinished == {"reconciliation_pending", "failed", "manual"}

\* The stages of startup and shutdown belong to their lifecycle states.
StageInv ==
    /\ life \in {"down", "open", "close_failed", "closed"} => stage = "none"
    /\ life = "recovering" => stage \in {"reopen", "scan"}
    /\ life = "starting" => stage \in {"hooks", "prepare", "ack", "acked", "compensate"}
    /\ life = "stopping" => stage \in {"none", "drained"}

\* A lease is of the present epoch until the fence, and of an older one, or
\* read-only, after it.
FenceInv ==
    /\ fence # NoPub => life = "close_failed"
    /\ \A o \in Ops : lease[o].held =>
         /\ Serving \/ life = "closed"
         /\ lease[o].epoch <= epoch
         /\ fence = NoPub => lease[o].epoch = epoch
         /\ fence # NoPub => lease[o].ro \/ lease[o].epoch < epoch
         /\ stage = "drained" \/ life = "closed" => lease[o].ro

\* A reconciliation works on a pending publication: under the lease of the operation
\* that restored, or in the scan of a startup.
JobInv ==
    /\ job.at = "idle" => job = NoJob
    /\ job.at # "idle" => job.pub \in Pubs /\ pub[job.pub].st = "reconciliation_pending"
    /\ job.op # NoOp => /\ job.at \in {"run", "fenced"}
                        /\ lease[job.op].held /\ ~lease[job.op].ro
    /\ job.op = NoOp /\ job.at # "idle" => stage = "scan" /\ job.at \in {"hydrate", "run"}
    /\ job.at = "fenced" => fence = job.pub

\* Every receipt has its effect.
EffectsInv ==
    /\ \A p \in Pubs : \A n \in 1..Steps : n <= pub[p].got => n \in pub[p].hit
    /\ job.did => /\ job.at = "run"
                  /\ pub[job.pub].got < Steps
                  /\ (pub[job.pub].got + 1) \in pub[job.pub].hit

\* What is in memory: nothing before startup, payloads of the rows during it, all
\* payloads of live rows after its sweep.
PayloadInv ==
    \A x \in Objects :
      /\ life = "down" => cache[x] = 0
      /\ life = "recovering" /\ row[x].live => cache[x] \in {0, row[x].ver}
      /\ (Serving \/ life = "starting") /\ ~Fenced /\ row[x].live => cache[x] = row[x].ver

\* Deliveries follow the commit of recovery, and the attempt that binds them is there
\* until it is acknowledged or all of them are pending again.
DeliveryInv ==
    /\ \A p \in Pubs :
         /\ pub[p].delivery # "none" \/ pub[p].bound => pub[p].st = "committed"
         /\ pub[p].delivery = "confirmed" => pub[p].bound
         /\ pub[p].bound => attempt = "preparing"
         /\ stage \in {"hooks", "prepare", "ack", "acked"} => pub[p].st \notin Unfinished
         /\ stage \in {"ack", "acked"} => pub[p].delivery \notin {"pending", "confirmed"}
    /\ attempt = "preparing" =>
         life = "down" \/ stage \in {"reopen", "prepare", "ack", "compensate"}

\* At most one restore is owed; a Runtime that may commit owes only the one that it is
\* reconciling itself, and a closed one nothing.
OwedInv ==
    /\ \A p, q \in Owed : p = q
    /\ (Serving \/ life = "closed") /\ ~Fenced => \A p \in Owed : job.op # NoOp /\ job.pub = p

\* The restores whose payloads startup has put back.
Hydrating(p) == (job.at = "run" /\ job.pub = p) \/ (p \in Undelivered /\ pub[p].mine)

\* Publications are taken over in the scan only, and with one that is taken over and
\* run or delivered the restored payloads are in memory.
HydratedInv ==
    /\ life = "down" \/ stage = "reopen" => \A p \in Pubs : ~pub[p].mine
    /\ life = "recovering" =>
         \A p \in Pubs : Hydrating(p) => \A x \in Objects : Exact(p, x) => cache[x] # 0

IInv ==
    /\ TypeOK
    /\ StageInv
    /\ FenceInv
    /\ JobInv
    /\ EffectsInv
    /\ CommittedIsComplete
    /\ PayloadInv
    /\ DeliveryInv
    /\ OwedInv
    /\ HydratedInv

-------------------------------------------------------------------------------
(* Types *)

PubRows ==
    [st : {"none", "reconciliation_pending", "failed", "manual", "committed"},
     got : 0..Steps, hit : SUBSET (1..Steps), claims : 0..MaxAttempts, mine : BOOLEAN,
     delivery : {"none", "pending", "confirmed", "completed"}, bound : BOOLEAN]

Jobs == [pub : Pubs \cup {NoPub}, op : Ops \cup {NoOp},
         at : {"idle", "hydrate", "run", "fenced"}, did : BOOLEAN]

\* The constants from which rows, jobs and leases are built have their types.
LEMMA ConstantTypes ==
    /\ Steps \in Nat /\ \A p \in Pubs : CapturedAt[p] \in 1..MaxVersion
    /\ Fresh \in PubRows
    /\ [Fresh EXCEPT !.st = "reconciliation_pending", !.mine = TRUE] \in PubRows
    /\ NoJob \in Jobs
    /\ NoLease \in [held : BOOLEAN, epoch : Nat, ro : BOOLEAN]
<1>1. Steps \in Nat /\ \A p \in Pubs : CapturedAt[p] \in 1..MaxVersion
  BY RestoreAssumption DEF Steps
<1>2. Fresh \in PubRows
  BY <1>1, RestoreAssumption DEF Fresh, PubRows
<1>3. [Fresh EXCEPT !.st = "reconciliation_pending", !.mine = TRUE] \in PubRows
  BY <1>2 DEF PubRows
<1> QED
  BY <1>1, <1>2, <1>3 DEF NoJob, Jobs, NoLease

\* What the actions write into a publication row is a publication row.
LEMMA RowUpdates ==
    ASSUME NEW r \in PubRows
    PROVE  /\ \A st \in {"reconciliation_pending", "failed", "manual", "committed"} :
                [r EXCEPT !.st = st] \in PubRows
           /\ [r EXCEPT !.st = "committed", !.delivery = "pending"] \in PubRows
           /\ \A d \in {"pending", "confirmed", "completed"} :
                [r EXCEPT !.delivery = d] \in PubRows
           /\ \A d \in {"pending", "confirmed"}, b \in BOOLEAN :
                [r EXCEPT !.delivery = d, !.bound = b] \in PubRows
           /\ \A b \in BOOLEAN : [r EXCEPT !.mine = b] \in PubRows
           /\ [r EXCEPT !.bound = FALSE] \in PubRows
           /\ r.got < Steps => [r EXCEPT !.got = @ + 1] \in PubRows
           /\ r.got < Steps => [r EXCEPT !.hit = @ \cup {r.got + 1}] \in PubRows
           /\ r.claims < MaxAttempts =>
                [r EXCEPT !.st = "reconciliation_pending", !.claims = @ + 1, !.mine = TRUE]
                  \in PubRows
<1>1. /\ Steps \in Nat /\ MaxAttempts \in Nat /\ r.got \in Nat /\ r.claims \in Nat
      /\ r.hit \in SUBSET (1..Steps)
  BY ConstantTypes, RestoreAssumption DEF PubRows
<1>2. r.got < Steps => [r EXCEPT !.got = @ + 1] \in PubRows
  BY <1>1 DEF PubRows
<1>3. r.got < Steps => [r EXCEPT !.hit = @ \cup {r.got + 1}] \in PubRows
  <2>1. r.got < Steps => r.hit \cup {r.got + 1} \in SUBSET (1..Steps)
    BY <1>1
  <2> QED
    BY <2>1 DEF PubRows
<1>4. r.claims < MaxAttempts =>
        [r EXCEPT !.st = "reconciliation_pending", !.claims = @ + 1, !.mine = TRUE] \in PubRows
  <2>1. r.claims < MaxAttempts => r.claims + 1 \in 0..MaxAttempts
    BY <1>1
  <2> QED
    BY <2>1 DEF PubRows
<1> QED
  BY <1>2, <1>3, <1>4 DEF PubRows

\* The end of a Runtime keeps the types.
LEMMA EndsTypes ==
    ASSUME TypeOK, Ends
    PROVE  /\ life' = "down" /\ stage' = "none" /\ fence' = NoPub /\ epoch' = 0
           /\ lease' \in [Ops -> [held : BOOLEAN, epoch : Nat, ro : BOOLEAN]]
           /\ job' \in Jobs
           /\ cache' \in [Objects -> 0..MaxVersion]
           /\ Disowned \in [Pubs -> PubRows]
<1>1. pub \in [Pubs -> PubRows] /\ MaxVersion \in Nat
  BY RestoreAssumption DEF TypeOK, PubRows
<1>2. Disowned \in [Pubs -> PubRows]
  BY <1>1, RowUpdates DEF Disowned
<1> QED
  BY <1>1, <1>2, ConstantTypes DEF Ends

\* Every step keeps the types.
LEMMA TypeStep == ASSUME IInv, [Next]_vars PROVE TypeOK'
<1>t. TypeOK <=> /\ life \in {"down", "recovering", "starting", "open", "stopping",
                              "close_failed", "closed"}
                 /\ stage \in {"none", "reopen", "scan", "hooks", "prepare", "ack",
                               "acked", "compensate", "drained"}
                 /\ fence \in Pubs \cup {Other, NoPub}
                 /\ epoch \in Nat
                 /\ lease \in [Ops -> [held : BOOLEAN, epoch : Nat, ro : BOOLEAN]]
                 /\ job \in Jobs
                 /\ pub \in [Pubs -> PubRows]
                 /\ attempt \in {"none", "preparing"}
                 /\ row \in [Objects -> [ver : 1..MaxVersion, live : BOOLEAN]]
                 /\ cache \in [Objects -> 0..MaxVersion]
                 /\ faults \in 0..MaxFaults
  BY DEF TypeOK, PubRows, Jobs
<1> DEFINE Rest == /\ life' \in {"down", "recovering", "starting", "open", "stopping",
                                 "close_failed", "closed"}
                   /\ stage' \in {"none", "reopen", "scan", "hooks", "prepare", "ack",
                                  "acked", "compensate", "drained"}
                   /\ fence' \in Pubs \cup {Other, NoPub}
                   /\ epoch' \in Nat
                   /\ lease' \in [Ops -> [held : BOOLEAN, epoch : Nat, ro : BOOLEAN]]
                   /\ attempt' \in {"none", "preparing"}
                   /\ faults' \in 0..MaxFaults
           Job == job' \in Jobs
           Pub == pub' \in [Pubs -> PubRows]
           Obj == /\ row' \in [Objects -> [ver : 1..MaxVersion, live : BOOLEAN]]
                  /\ cache' \in [Objects -> 0..MaxVersion]
<1>0. TypeOK /\ JobInv
  BY DEF IInv
<1>s. Rest /\ Job /\ Pub /\ Obj => TypeOK'
  BY DEF TypeOK, PubRows, Jobs
<1>j. job.at # "idle" => job.pub \in Pubs /\ pub[job.pub] \in PubRows
  BY <1>0, <1>t DEF JobInv
<1> HIDE DEF Rest, Job, Pub, Obj
<1>f. ASSUME Fault PROVE faults' \in 0..MaxFaults
  BY <1>f, <1>0, <1>t, RestoreAssumption DEF Fault
<1>u. /\ UNCHANGED <<life, stage, fence, epoch, lease, attempt, faults>> => Rest
      /\ UNCHANGED job => Job
      /\ UNCHANGED pub => Pub
      /\ UNCHANGED <<row, cache>> => Obj
  BY <1>0, <1>t DEF Rest, Job, Pub, Obj
<1>w. ASSUME NEW x \in Objects, Write(x) PROVE Obj
  <2>1. row[x] \in [ver : 1..MaxVersion, live : BOOLEAN] /\ MaxVersion \in Nat
    BY <1>0, <1>t, RestoreAssumption
  <2>2. CASE /\ row[x].ver < MaxVersion
             /\ row' = [row EXCEPT ![x].ver = @ + 1]
             /\ cache' = [cache EXCEPT ![x] = row[x].ver + 1]
    BY <1>0, <1>t, <2>1, <2>2 DEF Obj
  <2>3. CASE row' = [row EXCEPT ![x].live = FALSE] /\ cache' = [cache EXCEPT ![x] = 0]
    <3>1. [row[x] EXCEPT !.live = FALSE] \in [ver : 1..MaxVersion, live : BOOLEAN]
      BY <2>1
    <3>2. 0 \in 0..MaxVersion
      BY <2>1
    <3> QED
      BY <1>0, <1>t, <2>3, <3>1, <3>2 DEF Obj
  <2> QED
    BY <1>w, <2>2, <2>3 DEF Write
<1>e. ASSUME Ends, UNCHANGED <<attempt, row>>, faults' \in 0..MaxFaults, Pub PROVE TypeOK'
  BY <1>0, <1>t, <1>s, <1>e, EndsTypes DEF Rest, Job, Obj
<1>d. ASSUME Ends PROVE pub' = Disowned => Pub
  BY <1>0, <1>d, EndsTypes DEF Pub
<1>1. ASSUME NEW o \in Ops, NEW ro \in BOOLEAN, Admit(o, ro) PROVE TypeOK'
  BY <1>0, <1>1, <1>t, <1>u, <1>s DEF Admit, Rest, runtime
<1>2. ASSUME NEW o \in Ops, Release(o) PROVE TypeOK'
  BY <1>0, <1>2, <1>t, <1>u, <1>s, ConstantTypes DEF Release, Rest, runtime
<1>3. ASSUME NEW o \in Ops, OtherFences(o) PROVE TypeOK'
  BY <1>0, <1>3, <1>t, <1>u, <1>s DEF OtherFences, Fence, Rest
<1>4. ASSUME NEW o \in Ops, NEW x \in Objects, OperationWrites(o, x) PROVE TypeOK'
  BY <1>4, <1>w, <1>u, <1>s DEF OperationWrites, runtime
<1>5. ASSUME NEW x \in Objects, WorkerWrites(x) PROVE TypeOK'
  BY <1>5, <1>w, <1>u, <1>s DEF WorkerWrites, runtime
<1>6. CASE StartShutdown \/ Drain \/ ShutdownFails \/ CloseStore
  BY <1>0, <1>6, <1>t, <1>u, <1>s DEF StartShutdown, Drain, ShutdownFails, CloseStore, Rest
<1>7. CASE Crash \/ Discard
  <2>1. Ends /\ pub' = Disowned /\ UNCHANGED <<attempt, row>>
    BY <1>7 DEF Crash, Discard
  <2>2. faults' \in 0..MaxFaults
    BY <1>0, <1>t, <1>7, <1>f DEF Crash, Discard
  <2> QED
    BY <1>d, <1>e, <2>1, <2>2
<1>8. ASSUME NEW o \in Ops, NEW p \in Pubs, MainCommit(o, p) \/ MainCommitEscapes(o, p)
      PROVE  TypeOK'
  <2>1. pub' = Restored(p) /\ row' = RestoredRows(p)
    BY <1>8 DEF MainCommit, MainCommitEscapes
  <2>2. Pub
    BY <1>0, <1>t, <2>1, ConstantTypes DEF Restored, Pub
  <2>3. Obj
    BY <1>0, <1>t, <1>8, <2>1, ConstantTypes, RestoreAssumption
    DEF MainCommit, MainCommitEscapes, RestoredRows, Obj
  <2>4. Job
    <3>1. \E at \in {"run", "fenced"} : job' = [pub |-> p, op |-> o, at |-> at, did |-> FALSE]
      BY <1>8 DEF MainCommit, MainCommitEscapes
    <3> QED
      BY <3>1 DEF Jobs, Job
  <2>5. Rest
    BY <1>0, <1>t, <1>8 DEF MainCommit, MainCommitEscapes, Fence, Rest, runtime
  <2> QED
    BY <1>s, <2>2, <2>3, <2>4, <2>5
<1>9. CASE Effect
  <2>1. Pub
    BY <1>0, <1>t, <1>9, <1>j, RowUpdates DEF Effect, Pub
  <2>2. Job
    BY <1>0, <1>t, <1>9 DEF Effect, Job, Jobs
  <2> QED
    BY <1>9, <1>u, <1>s, <2>1, <2>2 DEF Effect, runtime
<1>10. CASE Receipt
  <2>0. pub[job.pub].got < Steps
    BY <1>10 DEF Receipt, IInv, EffectsInv
  <2>1. Pub
    BY <1>0, <1>t, <1>10, <1>j, <2>0, RowUpdates DEF Receipt, Pub
  <2>2. Job
    BY <1>0, <1>t, <1>10 DEF Receipt, Job, Jobs
  <2> QED
    BY <1>10, <1>u, <1>s, <2>1, <2>2 DEF Receipt, runtime
<1>11. CASE FinishOnline \/ FinishRecovery
  <2>1. Pub
    BY <1>0, <1>t, <1>11, <1>j, RowUpdates DEF FinishOnline, FinishRecovery, Online, Recovering, Pub
  <2>2. Job
    BY <1>11, ConstantTypes DEF FinishOnline, FinishRecovery, Job
  <2> QED
    BY <1>11, <1>u, <1>s, <2>1, <2>2 DEF FinishOnline, FinishRecovery, runtime
<1>12. CASE OnlineRefused
  BY <1>12, <1>u, <1>s, ConstantTypes DEF OnlineRefused, Job, runtime
<1>13. ASSUME NEW st \in {"reconciliation_pending", "failed", "manual"}, MarkOnlineFailure(st)
       PROVE  TypeOK'
  <2>1. Pub
    BY <1>0, <1>t, <1>13, <1>j, RowUpdates DEF MarkOnlineFailure, Pub
  <2>2. Job
    BY <1>13, ConstantTypes DEF MarkOnlineFailure, Job
  <2> QED
    BY <1>13, <1>u, <1>s, <2>1, <2>2 DEF MarkOnlineFailure, runtime
<1>14. CASE BeginRecovery \/ AbortAttempt \/ Scan \/ BeginDelivery \/ ReadyToAck \/ OpenInMemory
  BY <1>0, <1>14, <1>t, <1>u, <1>s
  DEF BeginRecovery, AbortAttempt, Scan, BeginDelivery, ReadyToAck, OpenInMemory, Opens, Rest,
      runtime
<1>15. CASE ManualStops \/ Compensated
  <2>1. Ends /\ pub' = Disowned /\ UNCHANGED <<attempt, row, faults>>
    BY <1>15 DEF ManualStops, Compensated
  <2> QED
    BY <1>0, <1>t, <1>d, <1>e, <2>1
<1>16. CASE Hydrate
  <2>1. Obj
    <3>1. job.pub \in Pubs
      BY <1>16, <1>j DEF Hydrate
    <3> QED
      BY <1>0, <1>t, <1>16, <3>1, ConstantTypes, RestoreAssumption DEF Hydrate, Hydrated, Obj
  <2>2. Job
    BY <1>0, <1>t, <1>16 DEF Hydrate, Job, Jobs
  <2> QED
    BY <1>16, <1>u, <1>s, <2>1, <2>2 DEF Hydrate, runtime
<1>17. CASE Sweep
  <2>1. Obj
    BY <1>0, <1>t, <1>17 DEF Sweep, Obj
  <2> QED
    BY <1>0, <1>t, <1>17, <1>u, <1>s, <2>1 DEF Sweep, Rest
<1>18. CASE AckAndOpen \/ AckAmbiguous
  <2>1. Pub
    <3>1. Acknowledged \in [Pubs -> PubRows]
      BY <1>0, <1>t, RowUpdates DEF Acknowledged
    <3>2. pub' = Acknowledged \/ pub' = pub
      BY <1>18 DEF AckAndOpen, AckAmbiguous
    <3> QED
      BY <1>u, <3>1, <3>2 DEF Pub
  <2>2. Rest
    BY <1>0, <1>t, <1>18, <1>f DEF AckAndOpen, AckAmbiguous, Opens, Rest
  <2> QED
    BY <1>18, <1>u, <1>s, <2>1, <2>2 DEF AckAndOpen, AckAmbiguous
<1>19. ASSUME NEW p \in Pubs, ReopenDelivery(p) \/ PrepareDelivery(p) \/ CompleteDelivery(p)
       PROVE  TypeOK'
  <2>1. Pub
    <3>0. pub[p] \in PubRows /\ pub \in [Pubs -> PubRows]
      BY <1>0, <1>t
    <3>1. PICK r : /\ pub' = [pub EXCEPT ![p] = r]
                   /\ \/ r = [pub[p] EXCEPT !.delivery = "pending", !.bound = FALSE]
                      \/ r = [pub[p] EXCEPT !.delivery = "confirmed", !.bound = TRUE]
                      \/ r = [pub[p] EXCEPT !.delivery = "completed"]
      BY <1>19 DEF ReopenDelivery, PrepareDelivery, CompleteDelivery
    <3>2. r \in PubRows
      BY <3>0, <3>1, RowUpdates
    <3> QED
      BY <3>0, <3>1, <3>2 DEF Pub
  <2> QED
    BY <1>19, <1>u, <1>s, <2>1 DEF ReopenDelivery, PrepareDelivery, CompleteDelivery, runtime
<1>20. ASSUME NEW p \in Pubs, Claim(p) PROVE TypeOK'
  <2>1. Pub
    <3> DEFINE r == [pub[p] EXCEPT !.st = "reconciliation_pending", !.claims = @ + 1,
                                   !.mine = TRUE]
    <3>1. r \in PubRows
      BY <1>0, <1>t, <1>20, RowUpdates DEF Claim
    <3>2. pub' = [pub EXCEPT ![p] = r]
      BY <1>0, <1>t, <1>20 DEF Claim
    <3> HIDE DEF r
    <3> QED
      BY <1>0, <1>t, <3>1, <3>2 DEF Pub
  <2>2. Job
    BY <1>20 DEF Claim, Job, Jobs
  <2> QED
    BY <1>20, <1>u, <1>s, <2>1, <2>2 DEF Claim, runtime
<1>21. ASSUME NEW p \in Pubs, Exhausted(p) PROVE TypeOK'
  <2>0. Ends /\ UNCHANGED <<attempt, row, faults>> /\ pub' = [Disowned EXCEPT ![p].st = "manual"]
    BY <1>21 DEF Exhausted
  <2>1. Disowned \in [Pubs -> PubRows]
    BY <1>0, <2>0, EndsTypes
  <2>2. Pub
    BY <2>0, <2>1, RowUpdates DEF Pub
  <2> QED
    BY <1>0, <1>t, <1>e, <2>0, <2>2
<1>22. ASSUME NEW p \in Pubs, TakeDelivery(p) PROVE TypeOK'
  <2>1. Pub
    BY <1>0, <1>t, <1>22, RowUpdates DEF TakeDelivery, Pub
  <2>2. Obj
    BY <1>0, <1>t, <1>22, ConstantTypes, RestoreAssumption DEF TakeDelivery, Hydrated, Obj
  <2> QED
    BY <1>22, <1>u, <1>s, <2>1, <2>2 DEF TakeDelivery, runtime
<1>23. CASE OnlineFails
  <2>1. Job
    BY <1>0, <1>t, <1>23 DEF OnlineFails, Job, Jobs
  <2>2. Rest
    BY <1>0, <1>t, <1>23, <1>j DEF OnlineFails, Online, Fence, Rest
  <2> QED
    BY <1>23, <1>u, <1>s, <2>1, <2>2 DEF OnlineFails
<1>24. ASSUME NEW st \in {"failed", "manual"}, RecoveryFails(st) PROVE TypeOK'
  <2>0. /\ Ends /\ UNCHANGED <<attempt, row, faults>> /\ job.pub \in Pubs
        /\ pub' = [Disowned EXCEPT ![job.pub].st = st]
    BY <1>24, <1>j DEF RecoveryFails
  <2>1. Disowned \in [Pubs -> PubRows]
    BY <1>0, <2>0, EndsTypes
  <2>2. Pub
    BY <2>0, <2>1, RowUpdates DEF Pub
  <2> QED
    BY <1>0, <1>t, <1>e, <2>0, <2>2
<1>25. CASE StartupFails
  <2>1. CASE attempt = "preparing"
    BY <1>0, <1>t, <1>25, <1>f, <1>u, <1>s, <2>1 DEF StartupFails, Rest
  <2>2. CASE attempt # "preparing"
    BY <1>25, <1>f, <1>d, <1>e, <2>2 DEF StartupFails
  <2> QED
    BY <2>1, <2>2
<1>26. CASE UNCHANGED vars
  BY <1>26, <1>u, <1>s DEF vars
<1> QED
  BY <1>1, <1>2, <1>3, <1>4, <1>5, <1>6, <1>7, <1>8, <1>9, <1>10, <1>11, <1>12, <1>13, <1>14,
     <1>15, <1>16, <1>17, <1>18, <1>19, <1>20, <1>21, <1>22, <1>23, <1>24, <1>25, <1>26
  DEF Next, Lifecycle, Begin, OnlineWork, Startup, Failures

-------------------------------------------------------------------------------
(* The steps *)

\* The acknowledgement only releases publications from their attempt.
LEMMA AcknowledgedEffects ==
    ASSUME IInv, AckAndOpen \/ AckAmbiguous
    PROVE  EffectsInv' /\ CommittedIsComplete'
<1>1. \A p \in Pubs : /\ Acknowledged[p].st = pub[p].st /\ Acknowledged[p].got = pub[p].got
                      /\ Acknowledged[p].hit = pub[p].hit
  BY DEF IInv, TypeOK, Acknowledged
<1>2. (pub' = Acknowledged \/ pub' = pub) /\ job' = job
  BY DEF AckAndOpen, AckAmbiguous
<1>3. \A p \in Pubs : /\ pub'[p].st = pub[p].st /\ pub'[p].got = pub[p].got
                      /\ pub'[p].hit = pub[p].hit
  BY <1>1, <1>2
<1> QED
  BY <1>2, <1>3 DEF IInv, JobInv, EffectsInv, CommittedIsComplete

\* A publication is committed with its last receipt, after all its effects.
LEMMA LastReceipt ==
    ASSUME IInv, FinishOnline \/ FinishRecovery
    PROVE  CommittedIsComplete'
<1>1. /\ job.pub \in Pubs /\ pub[job.pub].got = Steps /\ pub[job.pub].hit \in SUBSET (1..Steps)
      /\ Steps \in Nat
  BY ConstantTypes
  DEF IInv, JobInv, TypeOK, FinishOnline, FinishRecovery, Online, Recovering
<1>2. pub[job.pub].hit = 1..Steps
  <2>1. \A n \in 1..Steps : n <= Steps
    BY <1>1
  <2>2. 1..Steps \subseteq pub[job.pub].hit
    BY <1>1, <2>1 DEF IInv, EffectsInv
  <2> QED
    BY <1>1, <2>2
<1>3. \A p \in Pubs : /\ pub'[p].hit = pub[p].hit
                      /\ p # job.pub => pub'[p].st = pub[p].st
  BY <1>1 DEF IInv, TypeOK, FinishOnline, FinishRecovery
<1> QED
  BY <1>2, <1>3 DEF IInv, CommittedIsComplete

\* The end of a Runtime, when publications that are unfinished stay so and no other
\* changes.
LEMMA EndsStep ==
    ASSUME IInv, TypeOK', Ends, UNCHANGED <<attempt, row>>,
           \A p \in Pubs :
             /\ pub'[p].st = pub[p].st \/ {pub[p].st, pub'[p].st} \subseteq Unfinished
             /\ pub'[p].got = pub[p].got /\ pub'[p].hit = pub[p].hit
             /\ pub'[p].delivery = pub[p].delivery /\ pub'[p].bound = pub[p].bound
             /\ pub'[p].mine = FALSE
    PROVE  IInv'
<1> USE DEF IInv, Ends, Unfinished
<1>1. StageInv'
  BY DEF StageInv
<1>2. FenceInv'
  BY DEF FenceInv, NoLease
<1>3. JobInv'
  BY DEF JobInv, NoJob
<1>4. EffectsInv'
  BY DEF EffectsInv, NoJob
<1>5. CommittedIsComplete'
  BY DEF CommittedIsComplete
<1>6. PayloadInv'
  BY DEF PayloadInv, Serving
<1>7. DeliveryInv'
  BY DEF DeliveryInv
<1>8. OwedInv'
  BY DEF OwedInv, Owed, Serving
<1>9. HydratedInv'
  BY DEF HydratedInv, NoJob
<1> QED
  BY <1>1, <1>2, <1>3, <1>4, <1>5, <1>6, <1>7, <1>8, <1>9

\* Crashes, the Host and a failed startup end a Runtime in that way.
LEMMA EndingStep ==
    ASSUME IInv, TypeOK',
           \/ Crash \/ Discard \/ ManualStops \/ Compensated
           \/ StartupFails /\ attempt # "preparing"
           \/ \E p \in Pubs : Exhausted(p)
           \/ \E st \in {"failed", "manual"} : RecoveryFails(st)
    PROVE  IInv'
<1> DEFINE Kept(p) ==
       /\ pub'[p].st = pub[p].st \/ {pub[p].st, pub'[p].st} \subseteq Unfinished
       /\ pub'[p].got = pub[p].got /\ pub'[p].hit = pub[p].hit
       /\ pub'[p].delivery = pub[p].delivery /\ pub'[p].bound = pub[p].bound
       /\ pub'[p].mine = FALSE
<1>0. Ends /\ UNCHANGED <<attempt, row>>
  BY DEF Crash, Discard, ManualStops, Compensated, StartupFails, Exhausted, RecoveryFails
<1>1. \A p \in Pubs : /\ Disowned[p].st = pub[p].st /\ Disowned[p].got = pub[p].got
                      /\ Disowned[p].hit = pub[p].hit /\ Disowned[p].delivery = pub[p].delivery
                      /\ Disowned[p].bound = pub[p].bound /\ Disowned[p].mine = FALSE
  BY DEF Disowned, IInv, TypeOK
<1>2. ASSUME pub' = Disowned PROVE \A p \in Pubs : Kept(p)
  BY <1>1, <1>2
<1>3. ASSUME NEW q \in Pubs, NEW st \in {"failed", "manual"}, pub[q].st \in Unfinished,
             pub' = [Disowned EXCEPT ![q].st = st]
      PROVE  \A p \in Pubs : Kept(p)
  <2>1. Disowned \in [Pubs -> PubRows]
    BY <1>0, EndsTypes DEF IInv
  <2>2. \A p \in Pubs : p # q => pub'[p] = Disowned[p]
    BY <1>3, <2>1
  <2>3. /\ pub'[q].st = st /\ pub'[q].got = Disowned[q].got /\ pub'[q].hit = Disowned[q].hit
        /\ pub'[q].delivery = Disowned[q].delivery /\ pub'[q].bound = Disowned[q].bound
        /\ pub'[q].mine = Disowned[q].mine
    BY <1>3, <2>1 DEF PubRows
  <2> QED
    BY <1>1, <1>3, <2>2, <2>3 DEF Unfinished
<1>4. ASSUME \E p \in Pubs : Exhausted(p) PROVE \A p \in Pubs : Kept(p)
  BY <1>3, <1>4 DEF Exhausted, InState, Unfinished
<1>5. ASSUME \E st \in {"failed", "manual"} : RecoveryFails(st) PROVE \A p \in Pubs : Kept(p)
  BY <1>3, <1>5 DEF RecoveryFails, IInv, JobInv, Unfinished
<1>6. \A p \in Pubs : Kept(p)
  BY <1>2, <1>4, <1>5 DEF Crash, Discard, ManualStops, Compensated, StartupFails
<1> HIDE DEF Kept
<1> QED
  BY <1>0, <1>6, EndsStep DEF Kept

\* A startup that fails with an attempt compensates it first.
LEMMA CompensateStep ==
    ASSUME IInv, TypeOK', StartupFails, attempt = "preparing"
    PROVE  IInv'
<1> USE DEF IInv, StartupFails
<1>1. /\ FenceInv' /\ EffectsInv' /\ CommittedIsComplete' /\ PayloadInv' /\ OwedInv'
      /\ HydratedInv'
  BY DEF StageInv, FenceInv, EffectsInv, CommittedIsComplete, PayloadInv, OwedInv, HydratedInv,
      Serving, Fenced, Owed, Undelivered, Hydrating, Exact
<1>2. StageInv'
  BY DEF StageInv, TypeOK
<1>3. JobInv'
  BY DEF JobInv
<1>4. DeliveryInv'
  BY DEF DeliveryInv
<1> QED
  BY <1>1, <1>2, <1>3, <1>4

\* An admission takes the epoch of the Runtime; fenced, it is read-only.
LEMMA AdmitStep ==
    ASSUME IInv, TypeOK', NEW o \in Ops, NEW ro \in BOOLEAN, Admit(o, ro)
    PROVE  IInv'
<1> USE RestoreAssumption DEF IInv, TypeOK, runtime, Admit
<1>1. /\ StageInv' /\ EffectsInv' /\ CommittedIsComplete' /\ PayloadInv' /\ DeliveryInv'
      /\ OwedInv' /\ HydratedInv'
  BY DEF StageInv, EffectsInv, CommittedIsComplete, PayloadInv, DeliveryInv, OwedInv,
      HydratedInv, Serving, Fenced, Owed, Undelivered, Hydrating, Exact
<1>2. FenceInv'
  BY DEF FenceInv, StageInv, Serving
<1>3. JobInv'
  BY DEF JobInv
<1> QED
  BY <1>1, <1>2, <1>3

\* A lease ends, but not that of the restoring operation.
LEMMA ReleaseStep ==
    ASSUME IInv, TypeOK', NEW o \in Ops, Release(o)
    PROVE  IInv'
<1> USE RestoreAssumption DEF IInv, TypeOK, runtime, Release, NoLease
<1>1. /\ StageInv' /\ EffectsInv' /\ CommittedIsComplete' /\ PayloadInv' /\ DeliveryInv'
      /\ OwedInv' /\ HydratedInv'
  BY DEF StageInv, EffectsInv, CommittedIsComplete, PayloadInv, DeliveryInv, OwedInv,
      HydratedInv, Serving, Fenced, Owed, Undelivered, Hydrating, Exact
<1>2. FenceInv'
  BY DEF FenceInv, Serving
<1>3. JobInv'
  BY DEF JobInv
<1> QED
  BY <1>1, <1>2, <1>3

\* Another publication fences the Runtime: every lease is now of an older epoch.
LEMMA OtherFencesStep ==
    ASSUME IInv, TypeOK', NEW o \in Ops, OtherFences(o)
    PROVE  IInv'
<1> USE RestoreAssumption DEF IInv, TypeOK, runtime, OtherFences, Fence, MayCommit
<1>1. EffectsInv' /\ CommittedIsComplete'
  BY DEF EffectsInv, CommittedIsComplete
<1>2. StageInv'
  BY DEF StageInv
<1>3. FenceInv'
  BY DEF FenceInv, Serving
<1>4. JobInv'
  BY DEF JobInv, StageInv, FenceInv, Serving
<1>5. PayloadInv'
  BY DEF PayloadInv, Fenced
<1>6. DeliveryInv'
  BY DEF DeliveryInv, StageInv, Serving
<1>7. OwedInv'
  BY DEF OwedInv, Owed, Fenced
<1>8. HydratedInv'
  BY DEF HydratedInv
<1> QED
  BY <1>1, <1>2, <1>3, <1>4, <1>5, <1>6, <1>7, <1>8

\* A commit of an admitted operation writes row and payload together.
LEMMA OperationWritesStep ==
    ASSUME IInv, TypeOK', NEW o \in Ops, NEW y \in Objects, OperationWrites(o, y)
    PROVE  IInv'
<1> USE RestoreAssumption DEF IInv, TypeOK, runtime, OperationWrites, Write, MayCommit
<1>1. /\ StageInv' /\ FenceInv' /\ JobInv' /\ EffectsInv' /\ CommittedIsComplete'
      /\ DeliveryInv' /\ OwedInv'
  BY DEF StageInv, FenceInv, JobInv, EffectsInv, CommittedIsComplete, DeliveryInv, OwedInv,
      Serving, Owed, Fenced
<1>2. PayloadInv'
  BY DEF PayloadInv, FenceInv, Fenced
<1>3. HydratedInv'
  BY DEF HydratedInv, Undelivered, Hydrating, Exact
<1> QED
  BY <1>1, <1>2, <1>3

\* So does a commit of a worker, which an unfenced Runtime allows.
LEMMA WorkerWritesStep ==
    ASSUME IInv, TypeOK', NEW y \in Objects, WorkerWrites(y)
    PROVE  IInv'
<1> USE RestoreAssumption DEF IInv, TypeOK, runtime, WorkerWrites, Write, MayCommitUnadmitted
<1>1. /\ StageInv' /\ FenceInv' /\ JobInv' /\ EffectsInv' /\ CommittedIsComplete'
      /\ DeliveryInv' /\ OwedInv'
  BY DEF StageInv, FenceInv, JobInv, EffectsInv, CommittedIsComplete, DeliveryInv, OwedInv,
      Serving, Owed, Fenced
<1>2. PayloadInv'
  BY DEF PayloadInv
<1>3. HydratedInv'
  BY DEF HydratedInv, Serving
<1> QED
  BY <1>1, <1>2, <1>3

\* Shutdown starts only without a fence.
LEMMA StartShutdownStep ==
    ASSUME IInv, TypeOK', StartShutdown
    PROVE  IInv'
<1> USE RestoreAssumption DEF IInv, TypeOK, runtime, StartShutdown
<1>1. JobInv' /\ EffectsInv' /\ CommittedIsComplete'
  BY DEF JobInv, EffectsInv, CommittedIsComplete
<1>2. StageInv'
  BY DEF StageInv
<1>3. FenceInv'
  BY DEF FenceInv, Serving, Fenced
<1>4. PayloadInv'
  BY DEF PayloadInv, Serving
<1>5. DeliveryInv'
  BY DEF DeliveryInv
<1>6. OwedInv'
  BY DEF OwedInv, Owed, Serving
<1>7. HydratedInv'
  BY DEF HydratedInv
<1> QED
  BY <1>1, <1>2, <1>3, <1>4, <1>5, <1>6, <1>7

\* The drain leaves only reads, so that no restore is running.
LEMMA DrainStep ==
    ASSUME IInv, TypeOK', Drain
    PROVE  IInv'
<1> USE RestoreAssumption DEF IInv, TypeOK, runtime, Drain
<1>1. EffectsInv' /\ CommittedIsComplete' /\ PayloadInv' /\ OwedInv'
  BY DEF EffectsInv, CommittedIsComplete, PayloadInv, OwedInv, Serving, Fenced, Owed
<1>2. StageInv'
  BY DEF StageInv
<1>3. FenceInv'
  BY DEF FenceInv
<1>4. JobInv'
  BY DEF JobInv
<1>5. DeliveryInv'
  BY DEF DeliveryInv
<1>6. HydratedInv'
  BY DEF HydratedInv
<1> QED
  BY <1>1, <1>2, <1>3, <1>4, <1>5, <1>6

\* A failed shutdown may be retried: no fence is set.
LEMMA ShutdownFailsStep ==
    ASSUME IInv, TypeOK', ShutdownFails
    PROVE  IInv'
<1> USE RestoreAssumption DEF IInv, TypeOK, runtime, ShutdownFails
<1>1. EffectsInv' /\ CommittedIsComplete'
  BY DEF EffectsInv, CommittedIsComplete
<1>2. StageInv'
  BY DEF StageInv
<1>3. FenceInv'
  BY DEF FenceInv, Serving
<1>4. JobInv'
  BY DEF JobInv, StageInv
<1>5. PayloadInv'
  BY DEF PayloadInv, Serving, Fenced
<1>6. DeliveryInv'
  BY DEF DeliveryInv, StageInv
<1>7. OwedInv'
  BY DEF OwedInv, Owed, Serving, Fenced
<1>8. HydratedInv'
  BY DEF HydratedInv
<1> QED
  BY <1>1, <1>2, <1>3, <1>4, <1>5, <1>6, <1>7, <1>8

\* The store closes after the drain.
LEMMA CloseStoreStep ==
    ASSUME IInv, TypeOK', CloseStore
    PROVE  IInv'
<1> USE RestoreAssumption DEF IInv, TypeOK, runtime, CloseStore
<1>1. EffectsInv' /\ CommittedIsComplete'
  BY DEF EffectsInv, CommittedIsComplete
<1>2. StageInv'
  BY DEF StageInv
<1>3. FenceInv'
  BY DEF FenceInv
<1>4. JobInv'
  BY DEF JobInv
<1>5. PayloadInv'
  BY DEF PayloadInv, Serving
<1>6. DeliveryInv'
  BY DEF DeliveryInv
<1>7. OwedInv'
  BY DEF OwedInv, Owed, Serving, Fenced
<1>8. HydratedInv'
  BY DEF HydratedInv
<1> QED
  BY <1>1, <1>2, <1>3, <1>4, <1>5, <1>6, <1>7, <1>8

\* The main commit of a restore: the Runtime owed nothing before.
LEMMA MainCommitStep ==
    ASSUME IInv, TypeOK', NEW o \in Ops, NEW q \in Pubs, MainCommit(o, q)
    PROVE  IInv'
<1> USE RestoreAssumption DEF IInv, TypeOK, runtime, MainCommit, Restored, Fresh,
        RestoredRows, MayCommit, NoJob
<1>1. StageInv' /\ FenceInv'
  BY DEF StageInv, FenceInv, Serving
<1>2. JobInv'
  BY DEF JobInv
<1>3. EffectsInv'
  BY DEF EffectsInv
<1>4. CommittedIsComplete'
  BY DEF CommittedIsComplete
<1>5. PayloadInv'
  BY DEF PayloadInv, FenceInv, Serving
<1>6. DeliveryInv'
  BY DEF DeliveryInv, StageInv, FenceInv, Serving
<1>7. OwedInv'
  BY DEF OwedInv, FenceInv, Owed, Fenced
<1>8. HydratedInv'
  BY DEF HydratedInv, StageInv, FenceInv, Serving
<1> QED
  BY <1>1, <1>2, <1>3, <1>4, <1>5, <1>6, <1>7, <1>8

\* The main commit that raises: the fence is set with it.
LEMMA MainCommitEscapesStep ==
    ASSUME IInv, TypeOK', NEW o \in Ops, NEW q \in Pubs, MainCommitEscapes(o, q)
    PROVE  IInv'
<1> USE RestoreAssumption DEF IInv, TypeOK, runtime, MainCommitEscapes, Restored, Fresh,
        RestoredRows, MayCommit, NoJob, Fence
<1>1. StageInv'
  BY DEF StageInv
<1>2. FenceInv'
  BY DEF FenceInv, Serving
<1>3. JobInv'
  BY DEF JobInv
<1>4. EffectsInv'
  BY DEF EffectsInv
<1>5. CommittedIsComplete'
  BY DEF CommittedIsComplete
<1>6. PayloadInv'
  BY DEF PayloadInv, Fenced
<1>7. DeliveryInv'
  BY DEF DeliveryInv, StageInv, Serving
<1>8. OwedInv'
  BY DEF OwedInv, FenceInv, Owed, Fenced
<1>9. HydratedInv'
  BY DEF HydratedInv
<1> QED
  BY <1>1, <1>2, <1>3, <1>4, <1>5, <1>6, <1>7, <1>8, <1>9

\* An effect comes before its receipt.
LEMMA EffectStep ==
    ASSUME IInv, TypeOK', Effect
    PROVE  IInv'
<1> USE RestoreAssumption DEF IInv, TypeOK, runtime, Effect
<1>1. StageInv' /\ FenceInv' /\ PayloadInv'
  BY DEF StageInv, FenceInv, PayloadInv, Serving, Fenced
<1>2. JobInv'
  BY DEF JobInv
<1>3. EffectsInv'
  BY DEF EffectsInv
<1>4. CommittedIsComplete'
  BY DEF CommittedIsComplete, JobInv
<1>5. DeliveryInv'
  BY DEF DeliveryInv
<1>6. OwedInv'
  BY DEF OwedInv, Owed, Serving, Fenced
<1>7. HydratedInv'
  BY DEF HydratedInv, Hydrating, Undelivered, Exact
<1> QED
  BY <1>1, <1>2, <1>3, <1>4, <1>5, <1>6, <1>7

\* A receipt follows its effect.
LEMMA ReceiptStep ==
    ASSUME IInv, TypeOK', Receipt
    PROVE  IInv'
<1> USE RestoreAssumption DEF IInv, TypeOK, runtime, Receipt, MayCommit
<1>1. StageInv' /\ FenceInv' /\ PayloadInv'
  BY DEF StageInv, FenceInv, PayloadInv, Serving, Fenced
<1>2. JobInv'
  BY DEF JobInv
<1>3. EffectsInv'
  <2>1. job.pub \in Pubs
    BY DEF JobInv
  <2>2. /\ pub'[job.pub].got = pub[job.pub].got + 1 /\ pub'[job.pub].hit = pub[job.pub].hit
        /\ \A p \in Pubs : p # job.pub => pub'[p] = pub[p]
        /\ job'.did = FALSE
    BY <2>1
  <2>3. \A n \in 1..Steps : n <= pub'[job.pub].got => n \in pub'[job.pub].hit
    <3>1. pub[job.pub].got \in Nat /\ (pub[job.pub].got + 1) \in pub[job.pub].hit
      BY <2>1 DEF EffectsInv
    <3>2. \A n \in 1..Steps : n <= pub[job.pub].got + 1 =>
            n <= pub[job.pub].got \/ n = pub[job.pub].got + 1
      BY <3>1
    <3> QED
      BY <2>1, <2>2, <3>1, <3>2 DEF EffectsInv
  <2> QED
    BY <2>2, <2>3 DEF EffectsInv
<1>4. CommittedIsComplete'
  BY DEF CommittedIsComplete
<1>5. DeliveryInv'
  BY DEF DeliveryInv
<1>6. OwedInv'
  BY DEF OwedInv, Owed, Serving, Fenced
<1>7. HydratedInv'
  BY DEF HydratedInv, Hydrating, Undelivered, Exact
<1> QED
  BY <1>1, <1>2, <1>3, <1>4, <1>5, <1>6, <1>7

\* The last receipt of an online restore settles it.
LEMMA FinishOnlineStep ==
    ASSUME IInv, TypeOK', FinishOnline
    PROVE  IInv'
<1> USE RestoreAssumption DEF IInv, TypeOK, runtime, FinishOnline, Online, MayCommit, NoJob
<1>1. StageInv' /\ FenceInv' /\ PayloadInv'
  BY DEF StageInv, FenceInv, PayloadInv, Serving, Fenced
<1>2. JobInv'
  BY DEF JobInv
<1>3. EffectsInv'
  BY DEF EffectsInv
<1>4. CommittedIsComplete'
  BY LastReceipt
<1>5. DeliveryInv'
  BY DEF DeliveryInv, Unfinished
<1>6. OwedInv'
  BY DEF OwedInv, JobInv, DeliveryInv, Owed
<1>7. HydratedInv'
  BY DEF HydratedInv, Hydrating, Undelivered, Exact
<1> QED
  BY <1>1, <1>2, <1>3, <1>4, <1>5, <1>6, <1>7

\* A restore that is refused leaves its publication to a fenced Runtime.
LEMMA OnlineRefusedStep ==
    ASSUME IInv, TypeOK', OnlineRefused
    PROVE  IInv'
<1> USE RestoreAssumption DEF IInv, TypeOK, runtime, OnlineRefused, Online, MayCommit, NoJob
<1>1. StageInv' /\ FenceInv' /\ CommittedIsComplete' /\ PayloadInv' /\ DeliveryInv'
  BY DEF StageInv, FenceInv, CommittedIsComplete, PayloadInv, DeliveryInv, Serving, Fenced
<1>2. JobInv'
  BY DEF JobInv
<1>3. EffectsInv'
  BY DEF EffectsInv
<1>4. OwedInv'
  BY DEF OwedInv, FenceInv, JobInv, Owed, Fenced
<1>5. HydratedInv'
  BY DEF HydratedInv, Hydrating, Undelivered, Exact
<1> QED
  BY <1>1, <1>2, <1>3, <1>4, <1>5

\* The failure of an online restore is marked behind its own fence.
LEMMA MarkOnlineFailureStep ==
    ASSUME IInv, TypeOK', NEW st \in {"reconciliation_pending", "failed", "manual"},
           MarkOnlineFailure(st)
    PROVE  IInv'
<1> USE RestoreAssumption DEF IInv, TypeOK, runtime, MarkOnlineFailure, NoJob
<1>1. StageInv' /\ FenceInv' /\ PayloadInv'
  BY DEF StageInv, FenceInv, PayloadInv, Serving, Fenced
<1>2. JobInv'
  BY DEF JobInv
<1>3. EffectsInv'
  BY DEF EffectsInv
<1>4. CommittedIsComplete'
  BY DEF CommittedIsComplete
<1>5. DeliveryInv'
  BY DEF DeliveryInv, JobInv, Unfinished
<1>6. OwedInv'
  BY DEF OwedInv, FenceInv, JobInv, Owed, Fenced
<1>7. HydratedInv'
  BY DEF HydratedInv, Undelivered, Hydrating, Exact
<1> QED
  BY <1>1, <1>2, <1>3, <1>4, <1>5, <1>6, <1>7

\* Startup begins with an empty memory.
LEMMA BeginRecoveryStep ==
    ASSUME IInv, TypeOK', BeginRecovery
    PROVE  IInv'
<1> USE RestoreAssumption DEF IInv, TypeOK, runtime, BeginRecovery
<1>1. EffectsInv' /\ CommittedIsComplete'
  BY DEF EffectsInv, CommittedIsComplete
<1>2. StageInv'
  BY DEF StageInv
<1>3. FenceInv'
  BY DEF FenceInv, Serving
<1>4. JobInv'
  BY DEF JobInv, StageInv
<1>5. PayloadInv'
  BY DEF PayloadInv, Serving
<1>6. DeliveryInv'
  BY DEF DeliveryInv
<1>7. OwedInv'
  BY DEF OwedInv, Owed, Serving
<1>8. HydratedInv'
  BY DEF HydratedInv, Hydrating, StageInv, JobInv, FenceInv, Undelivered, Serving
<1> QED
  BY <1>1, <1>2, <1>3, <1>4, <1>5, <1>6, <1>7, <1>8

\* An attempt is aborted when no publication is bound to it.
LEMMA AbortAttemptStep ==
    ASSUME IInv, TypeOK', AbortAttempt
    PROVE  IInv'
<1> USE RestoreAssumption DEF IInv, TypeOK, runtime, AbortAttempt
<1>1. /\ StageInv' /\ FenceInv' /\ JobInv' /\ EffectsInv' /\ CommittedIsComplete'
      /\ PayloadInv' /\ OwedInv' /\ HydratedInv'
  BY DEF StageInv, FenceInv, JobInv, EffectsInv, CommittedIsComplete, PayloadInv, OwedInv,
      HydratedInv, Serving, Fenced, Owed, Undelivered, Hydrating, Exact
<1>2. DeliveryInv'
  BY DEF DeliveryInv
<1> QED
  BY <1>1, <1>2

\* The scan begins without an attempt.
LEMMA ScanStep ==
    ASSUME IInv, TypeOK', Scan
    PROVE  IInv'
<1> USE RestoreAssumption DEF IInv, TypeOK, runtime, Scan
<1>1. EffectsInv' /\ CommittedIsComplete' /\ PayloadInv' /\ OwedInv'
  BY DEF EffectsInv, CommittedIsComplete, PayloadInv, OwedInv, Serving, Fenced, Owed
<1>2. StageInv'
  BY DEF StageInv
<1>3. FenceInv'
  BY DEF FenceInv, Serving
<1>4. JobInv'
  BY DEF JobInv
<1>5. DeliveryInv'
  BY DEF DeliveryInv
<1>6. HydratedInv'
  BY DEF HydratedInv, Undelivered, Hydrating, Exact
<1> QED
  BY <1>1, <1>2, <1>3, <1>4, <1>5, <1>6

\* The payloads of the restored rows come back.
LEMMA HydrateStep ==
    ASSUME IInv, TypeOK', Hydrate
    PROVE  IInv'
<1> USE RestoreAssumption DEF IInv, TypeOK, runtime, Hydrate, Hydrated, Exact
<1>1. StageInv' /\ FenceInv' /\ CommittedIsComplete' /\ DeliveryInv'
  BY DEF StageInv, FenceInv, CommittedIsComplete, DeliveryInv, Serving
<1>2. JobInv'
  BY DEF JobInv
<1>3. EffectsInv'
  BY DEF EffectsInv
<1>4. PayloadInv'
  BY DEF PayloadInv, StageInv, JobInv, Serving
<1>5. OwedInv'
  BY DEF OwedInv, Owed, Serving, Fenced
<1>6. HydratedInv'
  <2>1. CapturedAt[job.pub] # 0
    BY ConstantTypes DEF JobInv
  <2>2. ASSUME NEW x \in Objects, NEW p \in Pubs, Hydrating(p)', Exact(p, x)
        PROVE  cache'[x] # 0
    <3>1. CASE Exact(job.pub, x)
      BY <2>1, <3>1
    <3>2. CASE p # job.pub
      BY <2>1, <2>2, <3>2 DEF HydratedInv, Hydrating, Undelivered, StageInv, JobInv
    <3> QED
      BY <2>2, <3>1, <3>2
  <2>3. life' = "recovering" /\ stage' # "reopen"
    BY DEF StageInv, JobInv
  <2> QED
    BY <2>2, <2>3 DEF HydratedInv, Exact
<1> QED
  BY <1>1, <1>2, <1>3, <1>4, <1>5, <1>6

\* Recovery completes a publication and owes its delivery.
LEMMA FinishRecoveryStep ==
    ASSUME IInv, TypeOK', FinishRecovery
    PROVE  IInv'
<1> USE RestoreAssumption DEF IInv, TypeOK, runtime, FinishRecovery, Recovering, NoJob
<1>1. StageInv' /\ FenceInv' /\ PayloadInv'
  BY DEF StageInv, FenceInv, PayloadInv, Serving, Fenced
<1>2. JobInv'
  BY DEF JobInv
<1>3. EffectsInv'
  BY DEF EffectsInv
<1>4. CommittedIsComplete'
  BY LastReceipt
<1>5. DeliveryInv'
  BY DEF DeliveryInv, JobInv
<1>6. OwedInv'
  BY DEF OwedInv, JobInv, Owed, Serving, Fenced
<1>7. HydratedInv'
  BY DEF HydratedInv, Hydrating, Undelivered, Exact
<1> QED
  BY <1>1, <1>2, <1>3, <1>4, <1>5, <1>6, <1>7

\* Rows without a payload are released, and startup begins.
LEMMA SweepStep ==
    ASSUME IInv, TypeOK', Sweep
    PROVE  IInv'
<1> USE RestoreAssumption DEF IInv, TypeOK, runtime, Sweep, Recovered, InState
<1>1. EffectsInv' /\ CommittedIsComplete'
  BY DEF EffectsInv, CommittedIsComplete
<1>2. StageInv'
  BY DEF StageInv
<1>3. FenceInv'
  BY DEF FenceInv, StageInv, Serving
<1>4. JobInv'
  BY DEF JobInv
<1>5. PayloadInv'
  BY DEF PayloadInv, StageInv
<1>6. DeliveryInv'
  BY DEF DeliveryInv, StageInv, Unfinished
<1>7. OwedInv'
  BY DEF OwedInv, Owed, Serving
<1>8. HydratedInv'
  BY DEF HydratedInv
<1> QED
  BY <1>1, <1>2, <1>3, <1>4, <1>5, <1>6, <1>7, <1>8

\* An attempt begins before anything is bound to it.
LEMMA BeginDeliveryStep ==
    ASSUME IInv, TypeOK', BeginDelivery
    PROVE  IInv'
<1> USE RestoreAssumption DEF IInv, TypeOK, runtime, BeginDelivery
<1>1. EffectsInv' /\ CommittedIsComplete' /\ PayloadInv' /\ OwedInv'
  BY DEF EffectsInv, CommittedIsComplete, PayloadInv, OwedInv, Serving, Fenced, Owed
<1>2. StageInv'
  BY DEF StageInv
<1>3. FenceInv'
  BY DEF FenceInv, Serving
<1>4. JobInv'
  BY DEF JobInv
<1>5. DeliveryInv'
  BY DEF DeliveryInv
<1>6. HydratedInv'
  BY DEF HydratedInv, Undelivered, Hydrating, Exact
<1> QED
  BY <1>1, <1>2, <1>3, <1>4, <1>5, <1>6

\* All deliveries are completed.
LEMMA ReadyToAckStep ==
    ASSUME IInv, TypeOK', ReadyToAck
    PROVE  IInv'
<1> USE RestoreAssumption DEF IInv, TypeOK, runtime, ReadyToAck
<1>1. EffectsInv' /\ CommittedIsComplete' /\ PayloadInv' /\ OwedInv'
  BY DEF EffectsInv, CommittedIsComplete, PayloadInv, OwedInv, Serving, Fenced, Owed
<1>2. StageInv'
  BY DEF StageInv
<1>3. FenceInv'
  BY DEF FenceInv, Serving
<1>4. JobInv'
  BY DEF JobInv
<1>5. DeliveryInv'
  BY DEF DeliveryInv
<1>6. HydratedInv'
  BY DEF HydratedInv, Undelivered, Hydrating, Exact
<1> QED
  BY <1>1, <1>2, <1>3, <1>4, <1>5, <1>6

\* The acknowledgement opens the Runtime, which owes nothing.
LEMMA AckAndOpenStep ==
    ASSUME IInv, TypeOK', AckAndOpen
    PROVE  IInv'
<1> USE RestoreAssumption DEF IInv, TypeOK, runtime, AckAndOpen, Acknowledged, Opens
<1>1. StageInv'
  BY DEF StageInv
<1>2. FenceInv'
  BY DEF FenceInv, StageInv, Serving
<1>3. JobInv'
  BY DEF JobInv
<1>4. EffectsInv'
  BY AcknowledgedEffects
<1>5. CommittedIsComplete'
  BY AcknowledgedEffects
<1>6. PayloadInv'
  BY DEF PayloadInv, StageInv, Fenced
<1>7. DeliveryInv'
  BY DEF DeliveryInv
<1>8. OwedInv'
  BY DEF OwedInv, DeliveryInv, Owed, Unfinished
<1>9. HydratedInv'
  BY DEF HydratedInv
<1> QED
  BY <1>1, <1>2, <1>3, <1>4, <1>5, <1>6, <1>7, <1>8, <1>9

\* The Runtime opens without a backlog, or after its acknowledgement.
LEMMA OpenInMemoryStep ==
    ASSUME IInv, TypeOK', OpenInMemory
    PROVE  IInv'
<1> USE RestoreAssumption DEF IInv, TypeOK, runtime, OpenInMemory, Opens
<1>1. EffectsInv' /\ CommittedIsComplete'
  BY DEF EffectsInv, CommittedIsComplete
<1>2. StageInv'
  BY DEF StageInv
<1>3. FenceInv'
  BY DEF FenceInv, StageInv, Serving
<1>4. JobInv'
  BY DEF JobInv
<1>5. PayloadInv'
  BY DEF PayloadInv, StageInv, Fenced
<1>6. DeliveryInv'
  BY DEF DeliveryInv, StageInv
<1>7. OwedInv'
  BY DEF OwedInv, StageInv, DeliveryInv, Owed, Unfinished, Undelivered
<1>8. HydratedInv'
  BY DEF HydratedInv
<1> QED
  BY <1>1, <1>2, <1>3, <1>4, <1>5, <1>6, <1>7, <1>8

\* A bound delivery is pending again.
LEMMA ReopenDeliveryStep ==
    ASSUME IInv, TypeOK', NEW q \in Pubs, ReopenDelivery(q)
    PROVE  IInv'
<1> USE RestoreAssumption DEF IInv, TypeOK, runtime, ReopenDelivery
<1>1. StageInv' /\ FenceInv' /\ PayloadInv'
  BY DEF StageInv, FenceInv, PayloadInv, Serving, Fenced
<1>2. JobInv'
  BY DEF JobInv
<1>3. EffectsInv'
  BY DEF EffectsInv
<1>4. CommittedIsComplete'
  BY DEF CommittedIsComplete
<1>5. DeliveryInv'
  BY DEF DeliveryInv
<1>6. OwedInv'
  BY DEF OwedInv
<1>7. HydratedInv'
  BY DEF HydratedInv
<1> QED
  BY <1>1, <1>2, <1>3, <1>4, <1>5, <1>6, <1>7

\* Recovery takes over a publication.
LEMMA ClaimStep ==
    ASSUME IInv, TypeOK', NEW q \in Pubs, Claim(q)
    PROVE  IInv'
<1> USE RestoreAssumption DEF IInv, TypeOK, runtime, Claim, InState, NoJob
<1>1. StageInv' /\ FenceInv' /\ PayloadInv'
  BY DEF StageInv, FenceInv, PayloadInv, Serving, Fenced
<1>2. JobInv'
  BY DEF JobInv
<1>3. EffectsInv'
  BY DEF EffectsInv
<1>4. CommittedIsComplete'
  BY DEF CommittedIsComplete
<1>5. DeliveryInv'
  BY DEF DeliveryInv
<1>6. OwedInv'
  BY DEF OwedInv
<1>7. HydratedInv'
  BY DEF HydratedInv
<1> QED
  BY <1>1, <1>2, <1>3, <1>4, <1>5, <1>6, <1>7

\* Recovery takes over a delivery, with the payloads.
LEMMA TakeDeliveryStep ==
    ASSUME IInv, TypeOK', NEW q \in Pubs, TakeDelivery(q)
    PROVE  IInv'
<1> USE RestoreAssumption DEF IInv, TypeOK, runtime, TakeDelivery, Recovered, Hydrated,
        InState, Exact
<1>1. StageInv' /\ FenceInv'
  BY DEF StageInv, FenceInv, Serving
<1>2. JobInv'
  BY DEF JobInv
<1>3. EffectsInv'
  BY DEF EffectsInv
<1>4. CommittedIsComplete'
  BY DEF CommittedIsComplete
<1>5. PayloadInv'
  BY DEF PayloadInv, StageInv, Serving
<1>6. DeliveryInv'
  BY DEF DeliveryInv
<1>7. OwedInv'
  BY DEF OwedInv, Owed, Serving, Fenced
<1>8. HydratedInv'
  <2>1. CapturedAt[q] # 0
    BY ConstantTypes
  <2>2. ASSUME NEW x \in Objects, NEW p \in Pubs, Hydrating(p)', Exact(p, x)
        PROVE  cache'[x] # 0
    <3>1. CASE Exact(q, x)
      BY <2>1, <3>1
    <3>2. CASE p # q
      BY <2>1, <2>2, <3>2 DEF HydratedInv, Hydrating, Undelivered, StageInv
    <3> QED
      BY <2>2, <3>1, <3>2
  <2>3. life' = "recovering" /\ stage' # "reopen"
    BY DEF StageInv
  <2> QED
    BY <2>2, <2>3 DEF HydratedInv, Exact
<1> QED
  BY <1>1, <1>2, <1>3, <1>4, <1>5, <1>6, <1>7, <1>8

\* A delivery is bound to the attempt.
LEMMA PrepareDeliveryStep ==
    ASSUME IInv, TypeOK', NEW q \in Pubs, PrepareDelivery(q)
    PROVE  IInv'
<1> USE RestoreAssumption DEF IInv, TypeOK, runtime, PrepareDelivery
<1>1. StageInv' /\ FenceInv' /\ PayloadInv'
  BY DEF StageInv, FenceInv, PayloadInv, Serving, Fenced
<1>2. JobInv'
  BY DEF JobInv
<1>3. EffectsInv'
  BY DEF EffectsInv, JobInv
<1>4. CommittedIsComplete'
  BY DEF CommittedIsComplete
<1>5. DeliveryInv'
  BY DEF DeliveryInv
<1>6. OwedInv'
  BY DEF OwedInv, Owed, Serving, Fenced
<1>7. HydratedInv'
  BY DEF HydratedInv, Hydrating, Undelivered, Exact
<1> QED
  BY <1>1, <1>2, <1>3, <1>4, <1>5, <1>6, <1>7

\* A bound delivery is completed.
LEMMA CompleteDeliveryStep ==
    ASSUME IInv, TypeOK', NEW q \in Pubs, CompleteDelivery(q)
    PROVE  IInv'
<1> USE RestoreAssumption DEF IInv, TypeOK, runtime, CompleteDelivery
<1>1. StageInv' /\ FenceInv' /\ PayloadInv'
  BY DEF StageInv, FenceInv, PayloadInv, Serving, Fenced
<1>2. JobInv'
  BY DEF JobInv
<1>3. EffectsInv'
  BY DEF EffectsInv
<1>4. CommittedIsComplete'
  BY DEF CommittedIsComplete
<1>5. DeliveryInv'
  BY DEF DeliveryInv
<1>6. OwedInv'
  BY DEF OwedInv, Owed, Serving, Fenced
<1>7. HydratedInv'
  BY DEF HydratedInv, Undelivered, Hydrating, Exact
<1> QED
  BY <1>1, <1>2, <1>3, <1>4, <1>5, <1>6, <1>7

\* A failure fences the Runtime with the restoring publication.
LEMMA OnlineFailsStep ==
    ASSUME IInv, TypeOK', OnlineFails
    PROVE  IInv'
<1> USE RestoreAssumption DEF IInv, TypeOK, runtime, OnlineFails, Online, MayCommit, Fence
<1>1. CommittedIsComplete'
  BY DEF CommittedIsComplete
<1>2. StageInv'
  BY DEF StageInv
<1>3. FenceInv'
  BY DEF FenceInv, JobInv, Serving
<1>4. JobInv'
  BY DEF JobInv
<1>5. EffectsInv'
  BY DEF EffectsInv
<1>6. PayloadInv'
  BY DEF PayloadInv, JobInv, Fenced
<1>7. DeliveryInv'
  BY DEF DeliveryInv, StageInv, FenceInv, Serving
<1>8. OwedInv'
  BY DEF OwedInv, JobInv, Owed
<1>9. HydratedInv'
  BY DEF HydratedInv
<1> QED
  BY <1>1, <1>2, <1>3, <1>4, <1>5, <1>6, <1>7, <1>8, <1>9

\* The acknowledgement is durable after all, or compensated.
LEMMA AckAmbiguousStep ==
    ASSUME IInv, TypeOK', AckAmbiguous
    PROVE  IInv'
<1> USE RestoreAssumption DEF IInv, TypeOK, runtime, AckAmbiguous, Acknowledged, Fault
<1>1. PayloadInv'
  BY DEF PayloadInv, Serving, Fenced
<1>2. StageInv'
  BY DEF StageInv
<1>3. FenceInv'
  BY DEF FenceInv, Serving
<1>4. JobInv'
  BY DEF JobInv
<1>5. EffectsInv'
  BY AcknowledgedEffects
<1>6. CommittedIsComplete'
  BY AcknowledgedEffects
<1>7. DeliveryInv'
  BY DEF DeliveryInv
<1>8. OwedInv'
  BY DEF OwedInv, Owed, Serving, Fenced
<1>9. HydratedInv'
  BY DEF HydratedInv, Undelivered, Hydrating, Exact
<1> QED
  BY <1>1, <1>2, <1>3, <1>4, <1>5, <1>6, <1>7, <1>8, <1>9

-------------------------------------------------------------------------------
(* Theorems *)

\* The invariant holds of every reachable state, whatever fails, crashes or is retried.
THEOREM Invariance == Spec => []IInv
<1>1. Init => IInv
  <2> SUFFICES ASSUME Init PROVE IInv
    OBVIOUS
  <2>0. \A p \in Pubs : pub[p] = Fresh
    BY DEF Init
  <2>1. TypeOK
    <3>1. pub \in [Pubs -> PubRows] /\ job \in Jobs
      BY ConstantTypes DEF Init
    <3>2. /\ row \in [Objects -> [ver : 1..MaxVersion, live : BOOLEAN]]
          /\ cache \in [Objects -> 0..MaxVersion]
      <4>1. row \in [Objects -> [ver : 1..MaxVersion, live : {TRUE}]]
        BY DEF Init
      <4>2. 1..MaxVersion \subseteq 0..MaxVersion
        BY RestoreAssumption
      <4>3. \A x \in Objects : row[x].ver \in 1..MaxVersion
        BY <4>1
      <4>4. cache = [x \in Objects |-> row[x].ver]
        BY DEF Init
      <4> QED
        BY <4>1, <4>2, <4>3, <4>4
    <3>3. /\ lease \in [Ops -> [held : BOOLEAN, epoch : Nat, ro : BOOLEAN]]
          /\ faults \in 0..MaxFaults
      BY ConstantTypes, RestoreAssumption DEF Init
    <3> QED
      BY <3>1, <3>2, <3>3 DEF Init, TypeOK, PubRows, Jobs
  <2>2. StageInv /\ FenceInv /\ JobInv /\ PayloadInv
    BY DEF Init, StageInv, FenceInv, JobInv, PayloadInv, NoLease, NoJob
  <2>3. EffectsInv /\ CommittedIsComplete /\ DeliveryInv /\ OwedInv
    BY <2>0, ConstantTypes
    DEF Init, EffectsInv, CommittedIsComplete, DeliveryInv, OwedInv, Owed, Fresh, NoJob
  <2>4. HydratedInv
    BY <2>0 DEF Init, HydratedInv
  <2> QED
    BY <2>1, <2>2, <2>3, <2>4 DEF IInv
<1>2. IInv /\ [Next]_vars => IInv'
  <2> SUFFICES ASSUME IInv, [Next]_vars PROVE IInv'
    OBVIOUS
  <2>1. TypeOK'
    BY TypeStep
  <2>2. CASE Lifecycle
    BY <2>1, <2>2, AdmitStep, ReleaseStep, OtherFencesStep, OperationWritesStep, WorkerWritesStep,
       StartShutdownStep, DrainStep, ShutdownFailsStep, CloseStoreStep, EndingStep DEF Lifecycle
  <2>3. CASE Begin \/ OnlineWork
    BY <2>1, <2>3, MainCommitStep, MainCommitEscapesStep, EffectStep, ReceiptStep, FinishOnlineStep,
       OnlineRefusedStep, MarkOnlineFailureStep DEF Begin, OnlineWork
  <2>4. CASE Startup
    BY <2>1, <2>4, BeginRecoveryStep, AbortAttemptStep, ScanStep, HydrateStep, FinishRecoveryStep,
       SweepStep, BeginDeliveryStep, ReadyToAckStep, AckAndOpenStep, OpenInMemoryStep,
       ReopenDeliveryStep, ClaimStep, TakeDeliveryStep, PrepareDeliveryStep, CompleteDeliveryStep,
       EndingStep
    DEF Startup
  <2>5. CASE Failures
    BY <2>1, <2>5, OnlineFailsStep, AckAmbiguousStep, EndingStep, CompensateStep DEF Failures
  <2>6. CASE UNCHANGED vars
    BY <2>6 DEF vars, IInv, TypeOK, StageInv, FenceInv, Serving, JobInv, EffectsInv,
       CommittedIsComplete, PayloadInv, Fenced, DeliveryInv, OwedInv, Owed, HydratedInv,
       Undelivered, Hydrating, Exact
  <2> QED
    BY <2>2, <2>3, <2>4, <2>5, <2>6 DEF Next
<1> QED
  BY <1>1, <1>2, PTL DEF Spec

\* A restore is all there wherever somebody may rely on it: committed means every effect
\* happened, a serving Runtime has the payloads of its rows, and a store is closed with
\* nothing owed (_require_completion_receipts, reconcile_checkpoint_object_payloads,
\* _close_store).
THEOREM RestoreComplete == Spec => []RestoreInv
<1>1. IInv => RestoreInv
  <2> SUFFICES ASSUME IInv PROVE RestoreInv
    OBVIOUS
  <2>1. LiveHasPayload
    BY DEF IInv, PayloadInv, LiveHasPayload
  <2>2. CloseOwesNothing
    <3>1. ASSUME life = "closed", job.op # NoOp PROVE FALSE
      BY <3>1 DEF IInv, JobInv, FenceInv, TypeOK
    <3> QED
      BY <3>1 DEF IInv, OwedInv, CloseOwesNothing, Fenced, Owed
  <2> QED
    BY <2>1, <2>2 DEF IInv, RestoreInv
<1> QED
  BY <1>1, Invariance, PTL

-------------------------------------------------------------------------------
(* After the fence *)

\* A fenced Runtime is in no stage, and none of its leases may commit.
LEMMA FencedQuiet ==
    ASSUME IInv, Fenced
    PROVE  /\ life = "close_failed" /\ stage = "none" /\ fence # NoPub
           /\ \A o \in Ops : ~MayCommit(o)
           /\ job.at # "idle" => job.op \in Ops /\ job.pub \in Pubs
           /\ job.at = "fenced" => fence = job.pub
<1>1. life = "close_failed" /\ stage = "none" /\ fence # NoPub
  BY DEF IInv, StageInv, Fenced
<1>2. \A o \in Ops : ~MayCommit(o)
  BY <1>1 DEF IInv, TypeOK, FenceInv, MayCommit
<1>3. job.at # "idle" => job.op \in Ops /\ job.pub \in Pubs
  BY <1>1 DEF IInv, TypeOK, JobInv
<1> QED
  BY <1>1, <1>2, <1>3 DEF IInv, JobInv

\* After a recovery fence nothing is committed but the terminalization of the
\* publication that set it, whatever was admitted before (mark_recovery_required,
\* MayCommit in runtime/lifecycle.py).
THEOREM FenceHolds == Spec => NothingAfterFence
<1> DEFINE Quiet ==
       /\ life' = life /\ fence' = fence
       /\ row' = row
       /\ \A p \in Pubs \ {fence} : [pub'[p] EXCEPT !.hit = {}] = [pub[p] EXCEPT !.hit = {}]
<1>1. ASSUME IInv, Next, Fenced, life' # "down" PROVE Quiet
  <2> USE <1>1, FencedQuiet
  <2>0. pub \in [Pubs -> PubRows]
    BY DEF IInv, TypeOK, PubRows
  <2>1. ASSUME NEW o \in Ops, (\E ro \in BOOLEAN : Admit(o, ro)) \/ Release(o) PROVE Quiet
    BY <2>1 DEF Admit, Release, runtime
  <2>2. CASE Effect
    <3>1. /\ job.pub \in Pubs /\ UNCHANGED <<life, fence, row>>
          /\ pub' = [pub EXCEPT ![job.pub].hit = @ \cup {pub[job.pub].got + 1}]
      BY <2>2 DEF Effect, runtime
    <3>2. ASSUME NEW p \in Pubs
          PROVE  [pub'[p] EXCEPT !.hit = {}] = [pub[p] EXCEPT !.hit = {}]
      <4>1. CASE p # job.pub
        BY <2>0, <3>1, <4>1
      <4>2. CASE p = job.pub
        <5>1. pub'[p] = [pub[p] EXCEPT !.hit = @ \cup {pub[p].got + 1}]
          BY <2>0, <3>1, <4>2
        <5> QED
          BY <2>0, <5>1 DEF PubRows
      <4> QED
        BY <4>1, <4>2
    <3> QED
      BY <3>1, <3>2
  <2>3. CASE OnlineRefused
    BY <2>3 DEF OnlineRefused, runtime
  <2>4. ASSUME NEW st, MarkOnlineFailure(st) PROVE Quiet
    <3>1. /\ fence = job.pub /\ UNCHANGED <<life, fence, row>>
          /\ pub' = [pub EXCEPT ![job.pub].st = st]
      BY <2>4 DEF MarkOnlineFailure, runtime
    <3>2. \A p \in Pubs : p # fence => pub'[p] = pub[p]
      BY <2>0, <3>1
    <3> QED
      BY <3>1, <3>2
  <2>5. ~Begin /\ ~Receipt /\ ~FinishOnline /\ ~OnlineFails
    <3>1. ~Begin
      BY DEF Begin, MainCommit, MainCommitEscapes
    <3>2. job.at = "run" => job.op # NoOp /\ ~MayCommit(job.op)
      BY RestoreAssumption
    <3> QED
      BY <3>1, <3>2 DEF Receipt, FinishOnline, OnlineFails, Online
  <2>6. /\ ~Startup /\ ~AckAmbiguous /\ ~StartupFails
        /\ \A st \in {"failed", "manual"} : ~RecoveryFails(st)
    BY RestoreAssumption
    DEF Startup, BeginRecovery, AbortAttempt, Scan, ManualStops, Hydrate, FinishRecovery,
        Recovering, Sweep, Recovered, BeginDelivery, ReadyToAck, AckAndOpen, OpenInMemory,
        Compensated, ReopenDelivery, Claim, Exhausted, TakeDelivery, PrepareDelivery,
        CompleteDelivery, AckAmbiguous, StartupFails, RecoveryFails, IInv, JobInv
  <2>7. /\ \A o \in Ops : ~OtherFences(o) /\ \A x \in Objects : ~OperationWrites(o, x)
        /\ \A x \in Objects : ~WorkerWrites(x)
        /\ ~StartShutdown /\ ~Drain /\ ~ShutdownFails /\ ~CloseStore /\ ~Crash /\ ~Discard
    BY DEF OtherFences, OperationWrites, WorkerWrites, MayCommitUnadmitted, StartShutdown, Drain,
           ShutdownFails, CloseStore, Crash, Discard, Ends
  <2> QED
    BY <2>1, <2>2, <2>3, <2>4, <2>5, <2>6, <2>7 DEF Next, Lifecycle, OnlineWork, Failures
<1>2. IInv /\ [Next]_vars => [Fenced /\ life' # "down" => Quiet]_vars
  BY <1>1
<1> QED
  BY <1>2, Invariance, PTL DEF Spec, NothingAfterFence

-------------------------------------------------------------------------------
(* The sweep of startup *)

\* Startup releases an Object that a restore brought back only when that restore does not
\* owe its payload any more (recover_missing_runtime_object_payloads after the deliveries).
THEOREM SweepWaits == Spec => NotSweptUndelivered
<1> DEFINE Waits == \A x \in Objects : \A p \in Pubs :
              (life = "recovering" /\ Exact(p, x) /\ ~row'[x].live) => p \notin Owed
<1>1. ASSUME IInv, Next PROVE Waits
  <2> SUFFICES ASSUME NEW x \in Objects, NEW q \in Pubs, life = "recovering", row[x].live,
                      ~row'[x].live, Exact(q, x)
               PROVE  q \notin Owed
    BY DEF Exact
  <2>1. Sweep
    <3>1. \A o \in Ops : ~lease[o].held
      BY <1>1 DEF IInv, FenceInv, Serving
    <3>2. ASSUME UNCHANGED row PROVE FALSE
      BY <3>2
    <3>3. ~Lifecycle /\ ~Begin
      BY <3>1, <3>2
      DEF Lifecycle, Admit, Release, OtherFences, OperationWrites, MayCommit, WorkerWrites,
          Serving, StartShutdown, Drain, ShutdownFails, CloseStore, Crash, Discard, Begin,
          MainCommit, MainCommitEscapes
    <3>4. ~OnlineWork /\ ~Failures
      BY <3>2
      DEF OnlineWork, Effect, Receipt, FinishOnline, OnlineRefused, MarkOnlineFailure, Failures,
          OnlineFails, RecoveryFails, AckAmbiguous, StartupFails
    <3>5. Startup
      BY <1>1, <3>3, <3>4 DEF Next
    <3> QED
      BY <3>2, <3>5
      DEF Startup, BeginRecovery, AbortAttempt, Scan, ManualStops, Hydrate, FinishRecovery,
          BeginDelivery, ReadyToAck, AckAndOpen, OpenInMemory, Compensated, ReopenDelivery, Claim,
          Exhausted, TakeDelivery, PrepareDelivery, CompleteDelivery
  <2>2. cache[x] = 0
    BY <2>1 DEF Sweep
  <2>3. ~(q \in Undelivered /\ pub[q].mine)
    BY <1>1, <2>2 DEF IInv, HydratedInv, Hydrating
  <2>4. q \notin Undelivered
    BY <2>1, <2>3 DEF Sweep
  <2>5. attempt = "none"
    BY <1>1, <2>1 DEF Sweep, Recovered, IInv, DeliveryInv, TypeOK
  <2>6. /\ pub[q].st \notin Unfinished
        /\ pub[q].delivery # "pending" /\ ~pub[q].bound
        /\ pub[q].delivery # "confirmed"
    BY <1>1, <2>1, <2>4, <2>5
    DEF Sweep, Recovered, InState, Unfinished, Undelivered, IInv, DeliveryInv
  <2> QED
    BY <2>6 DEF Owed, Unfinished
<1>2. IInv /\ [Next]_vars => [Waits]_vars
  BY <1>1
<1> QED
  BY <1>2, Invariance, PTL DEF Spec, NotSweptUndelivered

-------------------------------------------------------------------------------
(* The contract *)

Accepting == Serving /\ ~Fenced

\* A step that owes and settles what was owed and settled, and does not open a Runtime,
\* is a Stop of the contract or a stutter.
LEMMA StopOrStutter ==
    ASSUME Owed' = Owed, Settled' = Settled, Accepting' => Accepting
    PROVE  Contract!Next \/ UNCHANGED Contract!vars
<1>1. CASE Accepting' = Accepting
  BY <1>1 DEF Accepting, Contract!vars
<1>2. CASE Accepting /\ ~Accepting'
  <2>1. Contract!Stop
    BY <1>2 DEF Accepting, Contract!Stop
  <2> QED
    BY <2>1 DEF Contract!Next
<1> QED
  BY <1>1, <1>2 DEF Accepting

\* What is owed and settled depends on these columns of the publications.
LEMMA SameDebts ==
    ASSUME \A p \in Pubs :
             /\ pub'[p].st = pub[p].st \/ {pub[p].st, pub'[p].st} \subseteq Unfinished
             /\ (pub'[p].delivery \in {"pending", "confirmed"} \/ pub'[p].bound)
                  <=> (pub[p].delivery \in {"pending", "confirmed"} \/ pub[p].bound)
    PROVE  Owed' = Owed /\ Settled' = Settled
<1>1. \A p \in Pubs : (p \in Owed') <=> (p \in Owed)
  BY DEF Owed, Unfinished
<1>2. Owed' = Owed
  BY <1>1 DEF Owed
<1>3. \A p \in Pubs : pub'[p].st = "committed" <=> pub[p].st = "committed"
  BY DEF Unfinished
<1> QED
  BY <1>2, <1>3 DEF Settled


\* The steps that write no publication row.
LEMMA QuietSteps ==
    ASSUME UNCHANGED pub, Accepting' => Accepting
    PROVE  Contract!Next \/ UNCHANGED Contract!vars
<1>1. Owed' = Owed /\ Settled' = Settled
  BY DEF Owed, Settled
<1> QED
  BY <1>1, StopOrStutter

\* A Runtime that ends, or does not open, disowns its publications and stays down.
LEMMA EndingSteps ==
    ASSUME TypeOK, pub' = Disowned, Ends
    PROVE  Contract!Next \/ UNCHANGED Contract!vars
<1>1. \A p \in Pubs : /\ pub'[p].st = pub[p].st /\ pub'[p].delivery = pub[p].delivery
                      /\ pub'[p].bound = pub[p].bound
  BY DEF TypeOK, Disowned
<1>2. Owed' = Owed /\ Settled' = Settled
  BY <1>1, SameDebts
<1>3. ~Accepting'
  BY DEF Ends, Accepting, Serving
<1> QED
  BY <1>2, <1>3, StopOrStutter

\* Work on one publication that leaves it as owed as it was.
LEMMA OwingSteps ==
    ASSUME NEW p \in Pubs, Accepting' => Accepting,
           \A q \in Pubs : q # p => /\ pub'[q].st = pub[q].st
                                    /\ pub'[q].delivery = pub[q].delivery
                                    /\ pub'[q].bound = pub[q].bound,
           p \in Owed, p \in Owed'
    PROVE  Contract!Next \/ UNCHANGED Contract!vars
<1>1. \A q \in Pubs : q \in Owed' <=> q \in Owed
  BY DEF Owed
<1>2. Owed' = Owed
  BY <1>1 DEF Owed
<1>3. \A q \in Pubs : q # p => (pub'[q].st = "committed" <=> pub[q].st = "committed")
  OBVIOUS
<1>4. Settled' = Settled
  BY <1>2, <1>3 DEF Settled
<1> QED
  BY <1>2, <1>4, StopOrStutter

\* The main commit of a restore is the contract's Commit.
LEMMA CommitStep ==
    ASSUME IInv, NEW o \in Ops, NEW p \in Pubs, MainCommit(o, p) \/ MainCommitEscapes(o, p)
    PROVE  Contract!Next
<1>1. pub \in [Pubs -> PubRows]
  BY DEF IInv, TypeOK, PubRows
<1>2. /\ MayCommit(o) /\ job = NoJob /\ pub[p].st = "none" /\ pub' = Restored(p)
  BY DEF MainCommit, MainCommitEscapes
<1>3. Accepting
  <2>1. ~Fenced
    BY <1>2, FencedQuiet
  <2>2. Serving \/ life = "closed"
    BY <1>2 DEF IInv, FenceInv, MayCommit
  <2>3. life # "closed"
    BY <1>2 DEF IInv, FenceInv, MayCommit
  <2> QED
    BY <2>1, <2>2, <2>3 DEF Accepting
<1>4. Owed = {}
  <2>1. job.op = NoOp
    BY <1>2 DEF NoJob
  <2> QED
    BY <1>3, <2>1 DEF IInv, OwedInv, Accepting
<1>5. \A q \in Pubs : q # p => pub'[q] = pub[q]
  BY <1>1, <1>2 DEF Restored
<1>6. pub'[p].st = "reconciliation_pending"
  BY <1>1, <1>2 DEF Restored, Fresh
<1>7. Owed' = {p}
  <2>1. \A q \in Pubs : q # p => q \notin Owed'
    BY <1>4, <1>5 DEF Owed
  <2>2. p \in Owed'
    BY <1>6 DEF Owed
  <2> QED
    BY <2>1, <2>2 DEF Owed
<1>8. p \notin Settled /\ Settled' = Settled
  <2>1. \A q \in Pubs : q \in Settled' <=> q \in Settled
    BY <1>2, <1>4, <1>5, <1>6, <1>7 DEF Settled
  <2>2. Settled' = Settled
    BY <2>1 DEF Settled
  <2> QED
    BY <1>2, <2>2 DEF Settled
<1>9. Accepting' \in BOOLEAN
  BY DEF Accepting, Serving
<1>10. Contract!Commit(p)
  BY <1>3, <1>4, <1>7, <1>8, <1>9 DEF Contract!Commit, Accepting
<1> QED
  BY <1>10 DEF Contract!Next

\* The last commit of a restore that its own Runtime finishes is the contract's Settle.
LEMMA SettleStep ==
    ASSUME IInv, FinishOnline, NEW p, p = job.pub
    PROVE  Contract!Next
<1>1. pub \in [Pubs -> PubRows] /\ p \in Pubs
  BY DEF IInv, TypeOK, PubRows, JobInv, FinishOnline, Online
<1>2. pub[p].st = "reconciliation_pending" /\ pub' = [pub EXCEPT ![p].st = "committed"]
  BY DEF IInv, JobInv, FinishOnline, Online
<1>3. pub[p].delivery = "none" /\ ~pub[p].bound
  BY <1>1, <1>2 DEF IInv, TypeOK, DeliveryInv
<1>4. /\ pub'[p].st = "committed" /\ pub'[p].delivery = "none" /\ ~pub'[p].bound
      /\ \A q \in Pubs : q # p => pub'[q] = pub[q]
  BY <1>1, <1>2, <1>3 DEF PubRows
<1>5. p \in Owed /\ p \notin Owed'
  BY <1>1, <1>2, <1>4 DEF Owed
<1>6. \A q \in Pubs : q # p => (q \in Owed' <=> q \in Owed)
  BY <1>4 DEF Owed
<1>7. Owed' = Owed \ {p}
  BY <1>5, <1>6 DEF Owed
<1>8. Settled' = Settled \cup {p}
  <2>1. p \in Settled'
    BY <1>1, <1>4, <1>5 DEF Settled
  <2>2. \A q \in Pubs : q # p => (q \in Settled' <=> q \in Settled)
    BY <1>4, <1>6 DEF Settled
  <2> QED
    BY <1>1, <2>1, <2>2 DEF Settled
<1>9. Accepting' = Accepting
  BY DEF FinishOnline, runtime, Accepting, Serving, Fenced
<1>10. Contract!Settle(p)
  BY <1>5, <1>7, <1>8, <1>9 DEF Contract!Settle, Accepting
<1> QED
  BY <1>1, <1>10 DEF Contract!Next

\* What the acknowledgement of a delivery attempt does to the debts: what was owed was
\* bound to it, committed and delivered, and is settled.
LEMMA Acknowledges ==
    ASSUME IInv, stage = "ack", pub' = Acknowledged
    PROVE  Owed' = {} /\ Settled' = Settled \cup Owed
<1>1. \A p \in Pubs : /\ pub'[p].st = pub[p].st /\ pub'[p].delivery = pub[p].delivery
                      /\ ~pub'[p].bound
  BY DEF IInv, TypeOK, Acknowledged
<1>2. \A p \in Pubs : /\ pub[p].st \notin Unfinished
                      /\ pub[p].delivery \notin {"pending", "confirmed"}
                      /\ pub[p].bound => pub[p].st = "committed"
  BY DEF IInv, DeliveryInv
<1>3. Owed' = {}
  BY <1>1, <1>2 DEF Owed, Unfinished
<1>4. \A p \in Pubs : p \in Settled' <=> p \in Settled \/ p \in Owed
  BY <1>1, <1>2, <1>3 DEF Settled, Owed, Unfinished
<1>5. Settled' \subseteq Pubs /\ Settled \subseteq Pubs /\ Owed \subseteq Pubs
  BY DEF Settled, Owed
<1> QED
  BY <1>3, <1>4, <1>5

\* Opening, with or without a delivery to acknowledge, is the contract's Open.
LEMMA OpenStep ==
    ASSUME IInv, AckAndOpen \/ OpenInMemory
    PROVE  Contract!Next
<1>1. ~Accepting /\ Accepting'
  BY DEF IInv, StageInv, FenceInv, TypeOK, AckAndOpen, OpenInMemory, Opens, Accepting, Serving,
         Fenced
<1>2. Owed' = {} /\ Settled' = Settled \cup Owed
  <2>1. CASE AckAndOpen
    BY <2>1, Acknowledges DEF AckAndOpen
  <2>2. CASE OpenInMemory
    <3>1. pub' = pub /\ stage \in {"hooks", "acked"}
      BY <2>2 DEF OpenInMemory
    <3>2. \A p \in Pubs : pub[p].st \notin Unfinished /\ ~pub[p].bound
      BY <3>1 DEF IInv, StageInv, DeliveryInv, TypeOK
    <3>3. \A p \in Pubs : pub[p].delivery \notin {"pending", "confirmed"}
      BY <2>2, <3>2 DEF OpenInMemory, Undelivered, IInv, DeliveryInv
    <3>4. Owed = {}
      BY <3>2, <3>3 DEF Owed, Unfinished
    <3>5. Owed' = Owed /\ Settled' = Settled
      BY <3>1 DEF Owed, Settled
    <3> QED
      BY <3>4, <3>5
  <2> QED
    BY <2>1, <2>2
<1>3. Contract!Open
  BY <1>1, <1>2 DEF Contract!Open, Accepting
<1> QED
  BY <1>3 DEF Contract!Next

\* An acknowledgement that raised and is durable settles the one restore owed, before
\* the Runtime opens; one that is not durable changes nothing.
LEMMA AmbiguousStep ==
    ASSUME IInv, AckAmbiguous
    PROVE  Contract!Next \/ UNCHANGED Contract!vars
<1>1. Accepting' = Accepting
  BY DEF AckAmbiguous, Accepting, Serving, Fenced
<1>2. CASE pub' = pub
  BY <1>1, <1>2, QuietSteps
<1>3. CASE pub' = Acknowledged
  <2>1. Owed' = {} /\ Settled' = Settled \cup Owed
    BY <1>3, Acknowledges DEF AckAmbiguous
  <2>2. CASE Owed = {}
    BY <1>1, <2>1, <2>2, StopOrStutter
  <2>3. CASE Owed # {}
    <3>1. PICK p \in Owed : TRUE
      BY <2>3
    <3>2. Owed = {p} /\ p \in Pubs
      BY <3>1 DEF IInv, OwedInv, Owed
    <3>3. Contract!Settle(p)
      BY <1>1, <2>1, <3>2 DEF Contract!Settle, Accepting
    <3> QED
      BY <3>2, <3>3 DEF Contract!Next
  <2> QED
    BY <2>2, <2>3
<1> QED
  BY <1>2, <1>3 DEF AckAmbiguous

\* Every step of a restore is a step of the contract or a stutter.
LEMMA ContractStep ==
    ASSUME IInv, Next
    PROVE  Contract!Next \/ UNCHANGED Contract!vars
<1> DEFINE Goal == Contract!Next \/ UNCHANGED Contract!vars
<1>0. pub \in [Pubs -> PubRows] /\ TypeOK
  BY DEF IInv, TypeOK, PubRows
<1>1. ASSUME Lifecycle PROVE Goal
  <2>1. CASE Crash \/ Discard
    BY <1>0, <2>1, EndingSteps DEF Crash, Discard
  <2>2. ASSUME NEW o \in Ops,
               \/ \E ro \in BOOLEAN : Admit(o, ro)
               \/ Release(o) \/ OtherFences(o) \/ \E x \in Objects : OperationWrites(o, x)
        PROVE  Goal
    <3>1. UNCHANGED pub /\ (Accepting' => Accepting)
      BY <2>2, RestoreAssumption
      DEF Admit, Release, OtherFences, Fence, OperationWrites, runtime, Accepting, Serving, Fenced
    <3> QED
      BY <3>1, QuietSteps
  <2>3. ASSUME NEW x \in Objects, WorkerWrites(x) PROVE Goal
    BY <2>3, QuietSteps DEF WorkerWrites, runtime, Accepting, Serving, Fenced
  <2>4. CASE StartShutdown \/ Drain \/ ShutdownFails \/ CloseStore
    BY <2>4, QuietSteps
    DEF StartShutdown, Drain, ShutdownFails, CloseStore, Accepting, Serving, Fenced
  <2> QED
    BY <1>1, <2>1, <2>2, <2>3, <2>4 DEF Lifecycle
<1>2. ASSUME Begin PROVE Goal
  BY <1>2, CommitStep DEF Begin
<1>3. ASSUME OnlineWork PROVE Goal
  <2>1. CASE FinishOnline
    BY <2>1, SettleStep
  <2>2. CASE OnlineRefused
    BY <2>2, QuietSteps DEF OnlineRefused, runtime, Accepting, Serving, Fenced
  <2>3. ASSUME NEW st \in Unfinished, Effect \/ Receipt \/ MarkOnlineFailure(st) PROVE Goal
    <3>1. job.pub \in Pubs /\ job.pub \in Owed
      BY <2>3 DEF IInv, JobInv, Owed, Effect, Receipt, MarkOnlineFailure
    <3>2. \A q \in Pubs : q # job.pub => pub'[q] = pub[q]
      BY <1>0, <2>3 DEF Effect, Receipt, MarkOnlineFailure
    <3>3. pub'[job.pub].st \in Unfinished
      BY <1>0, <2>3, <3>1
      DEF Effect, Receipt, MarkOnlineFailure, IInv, JobInv, Unfinished, PubRows
    <3>4. job.pub \in Owed'
      BY <3>1, <3>3 DEF Owed, Unfinished
    <3>5. Accepting' = Accepting
      BY <2>3 DEF Effect, Receipt, MarkOnlineFailure, runtime, Accepting, Serving, Fenced
    <3> QED
      BY <3>1, <3>2, <3>4, <3>5, OwingSteps
  <2> QED
    BY <1>3, <2>1, <2>2, <2>3 DEF OnlineWork, Unfinished
<1>4. ASSUME Startup PROVE Goal
  <2>1. CASE AckAndOpen \/ OpenInMemory
    BY <2>1, OpenStep
  <2>2. CASE ManualStops \/ Compensated
    BY <1>0, <2>2, EndingSteps DEF ManualStops, Compensated
  <2>3. CASE \/ BeginRecovery \/ AbortAttempt \/ Scan \/ Hydrate \/ Sweep \/ BeginDelivery
             \/ ReadyToAck
    BY <2>3, QuietSteps
    DEF BeginRecovery, AbortAttempt, Scan, Hydrate, Sweep, BeginDelivery, ReadyToAck, runtime,
        Accepting, Serving, Fenced
  <2>4. CASE FinishRecovery
    <3>1. job.pub \in Pubs /\ job.pub \in Owed
      BY <2>4 DEF IInv, JobInv, Owed, FinishRecovery, Recovering
    <3>2. /\ \A q \in Pubs : q # job.pub => pub'[q] = pub[q]
          /\ pub'[job.pub].delivery = "pending"
      BY <1>0, <2>4, <3>1 DEF FinishRecovery, PubRows
    <3>3. Accepting' = Accepting /\ job.pub \in Owed'
      BY <2>4, <3>1, <3>2 DEF FinishRecovery, runtime, Accepting, Serving, Fenced, Owed
    <3> QED
      BY <3>1, <3>2, <3>3, OwingSteps
  <2>5. ASSUME NEW p \in Pubs, Exhausted(p) PROVE Goal
    <3>1. \A q \in Pubs : q # p => /\ pub'[q].st = pub[q].st
                                   /\ pub'[q].delivery = pub[q].delivery
                                   /\ pub'[q].bound = pub[q].bound
      BY <1>0, <2>5 DEF Exhausted, Disowned, PubRows
    <3>2. pub'[p].st = "manual"
      BY <1>0, <2>5 DEF Exhausted, Disowned, PubRows
    <3>3. p \in Owed /\ p \in Owed'
      BY <2>5, <3>2 DEF Exhausted, InState, Owed
    <3>4. ~Accepting'
      BY <2>5 DEF Exhausted, Ends, Accepting, Serving
    <3> QED
      BY <3>1, <3>3, <3>4, OwingSteps
  <2>6. ASSUME NEW p \in Pubs,
               \/ ReopenDelivery(p) \/ Claim(p) \/ TakeDelivery(p) \/ PrepareDelivery(p)
               \/ CompleteDelivery(p)
        PROVE  Goal
    <3>1. p \in Owed
      BY <2>6 DEF ReopenDelivery, Claim, TakeDelivery, PrepareDelivery, CompleteDelivery,
                  InState, Undelivered, Owed
    <3>2. \A q \in Pubs : q # p => pub'[q] = pub[q]
      BY <1>0, <2>6
      DEF ReopenDelivery, Claim, TakeDelivery, PrepareDelivery, CompleteDelivery
    <3>3. \/ pub'[p].st = "reconciliation_pending"
          \/ pub'[p].delivery = "pending"
          \/ pub'[p].bound
      <4>1. CASE ReopenDelivery(p)
        BY <1>0, <4>1 DEF ReopenDelivery, PubRows
      <4>2. CASE Claim(p)
        BY <1>0, <4>2 DEF Claim, PubRows
      <4>3. CASE TakeDelivery(p)
        BY <1>0, <4>3 DEF TakeDelivery, PubRows, Undelivered
      <4>4. CASE PrepareDelivery(p)
        BY <1>0, <4>4 DEF PrepareDelivery, PubRows
      <4>5. CASE CompleteDelivery(p)
        BY <1>0, <4>5 DEF CompleteDelivery, PubRows, IInv, DeliveryInv
      <4> QED
        BY <2>6, <4>1, <4>2, <4>3, <4>4, <4>5
    <3>4. p \in Owed'
      BY <3>3 DEF Owed
    <3>5. Accepting' = Accepting
      BY <2>6 DEF ReopenDelivery, Claim, TakeDelivery, PrepareDelivery, CompleteDelivery,
                  runtime, Accepting, Serving, Fenced
    <3> QED
      BY <3>1, <3>2, <3>4, <3>5, OwingSteps
  <2> QED
    BY <1>4, <2>1, <2>2, <2>3, <2>4, <2>5, <2>6 DEF Startup
<1>5. ASSUME Failures PROVE Goal
  <2>1. CASE OnlineFails
    <3>1. job.pub # NoPub /\ life' = "close_failed" /\ fence' = job.pub /\ UNCHANGED pub
      BY <2>1, RestoreAssumption DEF OnlineFails, Online, Fence, IInv, JobInv
    <3> QED
      BY <3>1, QuietSteps DEF Accepting, Fenced
  <2>2. ASSUME NEW st \in {"failed", "manual"}, RecoveryFails(st) PROVE Goal
    <3>1. job.pub \in Pubs /\ job.pub \in Owed
      BY <2>2 DEF IInv, JobInv, Owed, RecoveryFails
    <3>2. \A q \in Pubs : q # job.pub => /\ pub'[q].st = pub[q].st
                                         /\ pub'[q].delivery = pub[q].delivery
                                         /\ pub'[q].bound = pub[q].bound
      BY <1>0, <2>2 DEF RecoveryFails, Disowned, PubRows
    <3>3. pub'[job.pub].st = st
      BY <1>0, <2>2, <3>1 DEF RecoveryFails, Disowned, PubRows
    <3>4. job.pub \in Owed' /\ ~Accepting'
      BY <2>2, <3>1, <3>3 DEF RecoveryFails, Ends, Accepting, Serving, Owed
    <3> QED
      BY <3>1, <3>2, <3>4, OwingSteps
  <2>3. CASE AckAmbiguous
    BY <2>3, AmbiguousStep
  <2>4. CASE StartupFails
    <3>1. CASE attempt = "preparing"
      BY <2>4, <3>1, QuietSteps DEF StartupFails, Accepting, Serving, Fenced
    <3>2. CASE attempt # "preparing"
      BY <1>0, <2>4, <3>2, EndingSteps DEF StartupFails
    <3> QED
      BY <3>1, <3>2
  <2> QED
    BY <1>5, <2>1, <2>2, <2>3, <2>4 DEF Failures
<1> QED
  BY <1>1, <1>2, <1>3, <1>4, <1>5 DEF Next

\* The publication protocol implements the contract: a Runtime accepts mutations beside
\* an owed restore only if it committed that restore itself, and opening settles what was
\* owed (recover_incomplete and the acknowledgement in builder._finish_startup).
THEOREM KeepsContract == Spec => ImplementsContract
<1>1. Init => Contract!Init
  <2> SUFFICES ASSUME Init PROVE Contract!Init
    OBVIOUS
  <2>1. \A p \in Pubs : pub[p].st = "none" /\ pub[p].delivery = "none" /\ ~pub[p].bound
    BY DEF Init, Fresh
  <2>2. Owed = {} /\ Settled = {}
    BY <2>1 DEF Owed, Settled
  <2> QED
    BY <2>2 DEF Contract!Init, Serving
<1>2. IInv /\ [Next]_vars => [Contract!Next]_(Contract!vars)
  <2>1. ASSUME UNCHANGED vars PROVE UNCHANGED Contract!vars
    BY <2>1 DEF vars, Contract!vars, Owed, Settled, Serving, Fenced
  <2> QED
    BY <2>1, ContractStep
<1> QED
  BY <1>1, <1>2, Invariance, PTL DEF Spec, ImplementsContract, Contract!Spec

===============================================================================
