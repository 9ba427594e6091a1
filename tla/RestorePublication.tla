-------------------------- MODULE RestorePublication --------------------------
(***************************************************************************)
(* A checkpoint restore after its rows are committed: the durable          *)
(* publication that drives registries and release finalizers, the Runtime  *)
(* lifecycle that fences every mutation when that fails, and the startup   *)
(* that finishes the restore and delivers its volatile Object payloads     *)
(* before it opens.                                                        *)
(*                                                                         *)
(* Durable: publications, payload delivery attempts and Object rows.       *)
(* Volatile: the lifecycle, admission leases, the running reconciliation   *)
(* and the Object payload cache; a Runtime that ends loses them.  One      *)
(* Runtime at a time owns the store.                                       *)
(***************************************************************************)
EXTENDS Naturals

CONSTANTS
    Pubs,           \* restores (bound)
    Ops,            \* operations admitted at a time (bound)
    Objects,        \* Objects of the checkpoint, with volatile payloads
    Finalizers,     \* number of release finalizer work items of a restore
    MaxAttempts,    \* publication_recovery_max_attempts
    CapturedAt,     \* per restore: the version every Object has in its checkpoint
    MaxVersion,     \* last version an Object is given (bound)
    MaxFaults,      \* crashes and failed startups (bound)
    NoPub, NoOp, Other

ASSUME RestoreAssumption ==
    /\ Finalizers \in Nat
    /\ MaxAttempts \in Nat
    /\ MaxVersion \in Nat \ {0}
    /\ CapturedAt \in [Pubs -> 1..MaxVersion]
    /\ MaxFaults \in Nat
    /\ NoPub \notin Pubs \cup {Other}
    /\ Other \notin Pubs
    /\ NoOp \notin Ops

VARIABLES
    life,       \* lifecycle state, "down" between two Runtimes
    stage,      \* where startup, or shutdown, is
    fence,      \* publication named by the recovery fence, Other's, or NoPub
    epoch,      \* recovery_fence_epoch
    lease,      \* per operation: its admission [held, epoch, ro]
    job,        \* the reconciliation running: [pub, op, at, did]
    pub,        \* the publication rows
    attempt,    \* a payload delivery attempt is "preparing", or "none"
    row,        \* Object rows: version and whether the row is live
    cache,      \* version of the payload in memory, 0 for none
    faults      \* crashes and failed startups so far

vars == <<life, stage, fence, epoch, lease, job, pub, attempt, row, cache, faults>>

runtime == <<life, stage, fence, epoch>>

NoLease == [held |-> FALSE, epoch |-> 0, ro |-> FALSE]

NoJob == [pub |-> NoPub, op |-> NoOp, at |-> "idle", did |-> FALSE]

\* Receipts of a complete transcript after main_state_committed: the four
\* registry phases, one per finalizer work item, the finalizer phase.
Steps == 5 + Finalizers

Fresh ==
    [st |-> "none", got |-> 0, hit |-> {}, claims |-> 0, mine |-> FALSE,
     delivery |-> "none", bound |-> FALSE]

TypeOK ==
    /\ life \in {"down", "recovering", "starting", "open", "stopping",
                 "close_failed", "closed"}
    /\ stage \in {"none", "reopen", "scan", "hooks", "prepare", "ack",
                  "acked", "compensate", "drained"}
    /\ fence \in Pubs \cup {Other, NoPub}
    /\ epoch \in Nat
    /\ lease \in [Ops -> [held : BOOLEAN, epoch : Nat, ro : BOOLEAN]]
    /\ job \in [pub : Pubs \cup {NoPub}, op : Ops \cup {NoOp},
                at : {"idle", "hydrate", "run", "fenced"}, did : BOOLEAN]
    /\ pub \in [Pubs ->
         [st : {"none", "reconciliation_pending", "failed", "manual", "committed"},
          got : 0..Steps, hit : SUBSET (1..Steps), claims : 0..MaxAttempts, mine : BOOLEAN,
          delivery : {"none", "pending", "confirmed", "completed"}, bound : BOOLEAN]]
    /\ attempt \in {"none", "preparing"}
    /\ row \in [Objects -> [ver : 1..MaxVersion, live : BOOLEAN]]
    /\ cache \in [Objects -> 0..MaxVersion]
    /\ faults \in 0..MaxFaults

Init ==
    /\ life = "open"
    /\ stage = "none"
    /\ fence = NoPub
    /\ epoch = 0
    /\ lease = [o \in Ops |-> NoLease]
    /\ job = NoJob
    /\ pub = [p \in Pubs |-> Fresh]
    /\ attempt = "none"
    /\ row \in [Objects -> [ver : 1..MaxVersion, live : {TRUE}]]
    /\ cache = [o \in Objects |-> row[o].ver]
    /\ faults = 0

(***************************************************************************)
(* Admission and the commit guard (runtime/lifecycle.py).                  *)
(***************************************************************************)

Fenced == life = "close_failed" /\ fence # NoPub

Serving == life \in {"open", "stopping", "close_failed"}

\* Mutations are admitted while OPEN, reads until CLOSED; the lease keeps the
\* fence epoch of its admission.
Admit(o, ro) ==
    /\ ~lease[o].held
    /\ life = "open" \/ (ro /\ Serving)
    /\ lease' = [lease EXCEPT ![o] = [held |-> TRUE, epoch |-> epoch, ro |-> ro]]
    /\ UNCHANGED <<runtime, job, pub, attempt, row, cache, faults>>

Release(o) ==
    /\ lease[o].held
    /\ job.op # o
    /\ lease' = [lease EXCEPT ![o] = NoLease]
    /\ UNCHANGED <<runtime, job, pub, attempt, row, cache, faults>>

\* Mutant: a read-only admission may commit.
MayCommitReads(o) == lease[o].held /\ lease[o].epoch = epoch

\* May the operation's store transaction commit?
MayCommit(o) ==
    /\ lease[o].held
    /\ ~lease[o].ro
    /\ lease[o].epoch = epoch

\* A thread that was never admitted, such as the ObjectTask worker.
MayCommitUnadmitted == ~Fenced

\* An Object is changed or released by a commit.
Write(x) ==
    /\ row[x].live
    /\ \/ /\ row[x].ver < MaxVersion
          /\ row' = [row EXCEPT ![x].ver = @ + 1]
          /\ cache' = [cache EXCEPT ![x] = row[x].ver + 1]
       \/ /\ row' = [row EXCEPT ![x].live = FALSE]
          /\ cache' = [cache EXCEPT ![x] = 0]

OperationWrites(o, x) ==
    /\ MayCommit(o)
    /\ job.op # o
    /\ Write(x)
    /\ UNCHANGED <<runtime, lease, job, pub, attempt, faults>>

WorkerWrites(x) ==
    /\ Serving \/ life = "starting"
    /\ MayCommitUnadmitted
    /\ Write(x)
    /\ UNCHANGED <<runtime, lease, job, pub, attempt, faults>>

\* mark_recovery_required: the first fence of a Runtime wins.
Fence(q) ==
    /\ fence' = q
    /\ epoch' = epoch + 1
    /\ life' = "close_failed"
    /\ stage' = "none"

\* A launch or exec publication of another operation needs recovery.
OtherFences(o) ==
    /\ MayCommit(o)
    /\ Serving
    /\ job.op # o
    /\ Fence(Other)
    /\ UNCHANGED <<lease, job, pub, attempt, row, cache, faults>>

(***************************************************************************)
(* Shutdown, and the ends of a Runtime.                                    *)
(***************************************************************************)

StartShutdown ==
    /\ life \in {"open", "close_failed"}
    /\ ~Fenced
    /\ life' = "stopping"
    /\ UNCHANGED <<stage, fence, epoch, lease, job, pub, attempt, row, cache, faults>>

\* _drain_admission: every lease, read-only ones too, has ended.
Drain ==
    /\ life = "stopping"
    /\ stage = "none"
    /\ \A o \in Ops : ~lease[o].held
    /\ stage' = "drained"
    /\ UNCHANGED <<life, fence, epoch, lease, job, pub, attempt, row, cache, faults>>

\* The drain times out, or a component does not stop: a retry is allowed.
ShutdownFails ==
    /\ life = "stopping"
    /\ life' = "close_failed"
    /\ stage' = "none"
    /\ UNCHANGED <<fence, epoch, lease, job, pub, attempt, row, cache, faults>>

CloseStore ==
    /\ life = "stopping"
    /\ stage = "drained"
    /\ life' = "closed"
    /\ stage' = "none"
    /\ UNCHANGED <<fence, epoch, lease, job, pub, attempt, row, cache, faults>>

\* The Runtime is gone with what it kept in memory.
Ends ==
    /\ life' = "down"
    /\ stage' = "none"
    /\ fence' = NoPub
    /\ epoch' = 0
    /\ lease' = [o \in Ops |-> NoLease]
    /\ job' = NoJob
    /\ cache' = [x \in Objects |-> 0]

\* Nobody else's publication row is this Runtime's after it ends.
Disowned == [p \in Pubs |-> [pub[p] EXCEPT !.mine = FALSE]]

Fault ==
    /\ faults < MaxFaults
    /\ faults' = faults + 1

Crash ==
    /\ life # "down"
    /\ Fault
    /\ Ends
    /\ pub' = Disowned
    /\ UNCHANGED <<attempt, row>>

\* The Host ends a closed Runtime, or a fenced one: it exits, or releases the
\* store to a successor (release_recovery_diagnostics).
Discard ==
    /\ life = "closed" \/ Fenced
    /\ Ends
    /\ pub' = Disowned
    /\ UNCHANGED <<attempt, row, faults>>

(***************************************************************************)
(* The online restore (checkpoint_manager._restore_once).                  *)
(***************************************************************************)

Restored(p) == [pub EXCEPT ![p] = [Fresh EXCEPT !.st = "reconciliation_pending",
                                                !.mine = TRUE]]

RestoredRows(p) == [x \in Objects |-> [ver |-> CapturedAt[p], live |-> TRUE]]

\* The main commit: the publication and every row, in one transaction.
MainCommit(o, p) ==
    /\ MayCommit(o)
    /\ job = NoJob
    /\ pub[p].st = "none"
    /\ pub' = Restored(p)
    /\ row' = RestoredRows(p)
    /\ cache' = [x \in Objects |-> CapturedAt[p]]
    /\ job' = [pub |-> p, op |-> o, at |-> "run", did |-> FALSE]
    /\ UNCHANGED <<runtime, lease, attempt, faults>>

\* The commit is durable and raises all the same: the fence is set before the
\* store lock is released (handle_main_commit_scope_escape).
MainCommitEscapes(o, p) ==
    /\ MayCommit(o)
    /\ Serving
    /\ job = NoJob
    /\ pub[p].st = "none"
    /\ pub' = Restored(p)
    /\ row' = RestoredRows(p)
    /\ Fence(p)
    /\ job' = [pub |-> p, op |-> o, at |-> "fenced", did |-> FALSE]
    /\ UNCHANGED <<lease, attempt, cache, faults>>

Online == job.at = "run" /\ job.op # NoOp

Recovering == job.at = "run" /\ job.op = NoOp

\* The effect of the next step: a registry reconciliation or a finalizer.
Effect ==
    /\ job.at = "run"
    /\ ~job.did
    /\ pub[job.pub].got < Steps
    /\ job' = [job EXCEPT !.did = TRUE]
    /\ pub' = [pub EXCEPT ![job.pub].hit = @ \cup {pub[job.pub].got + 1}]
    /\ UNCHANGED <<runtime, lease, attempt, row, cache, faults>>

\* Mutant: the receipt is written before the effect.
ReceiptFirst ==
    /\ job.at = "run"
    /\ pub[job.pub].got < Steps
    /\ job.op # NoOp => MayCommit(job.op)
    /\ job' = [job EXCEPT !.did = FALSE]
    /\ pub' = [pub EXCEPT ![job.pub].got = @ + 1]
    /\ UNCHANGED <<runtime, lease, attempt, row, cache, faults>>

\* Its receipt, a commit of the operation or of startup recovery.
Receipt ==
    /\ job.at = "run"
    /\ job.did
    /\ job.op # NoOp => MayCommit(job.op)
    /\ job' = [job EXCEPT !.did = FALSE]
    /\ pub' = [pub EXCEPT ![job.pub].got = @ + 1]
    /\ UNCHANGED <<runtime, lease, attempt, row, cache, faults>>

FinishOnline ==
    /\ Online
    /\ pub[job.pub].got = Steps
    /\ MayCommit(job.op)
    /\ pub' = [pub EXCEPT ![job.pub].st = "committed"]
    /\ job' = NoJob
    /\ UNCHANGED <<runtime, lease, attempt, row, cache, faults>>

\* Mutant: a failed reconciliation does not fence the Runtime.
OnlineFailsUnfenced ==
    /\ Online
    /\ job' = NoJob
    /\ UNCHANGED <<runtime, lease, pub, attempt, row, cache, faults>>

\* A phase, a receipt or the terminal commit fails.  The fence comes first.
OnlineFails ==
    /\ Online
    /\ MayCommit(job.op)
    /\ Fence(job.pub)
    /\ job' = [job EXCEPT !.at = "fenced", !.did = FALSE]
    /\ UNCHANGED <<lease, pub, attempt, row, cache, faults>>

\* Another publication's fence is there already: the next commit is refused,
\* and so is a second fence.
OnlineRefused ==
    /\ Online
    /\ ~MayCommit(job.op)
    /\ job' = NoJob
    /\ UNCHANGED <<runtime, lease, pub, attempt, row, cache, faults>>

\* In the terminalization scope of that fence; manual when no handler of a
\* finalizer is installed.  The marking can fail and leave the row pending.
MarkOnlineFailure(st) ==
    /\ job.at = "fenced"
    /\ pub' = [pub EXCEPT ![job.pub].st = st]
    /\ job' = NoJob
    /\ UNCHANGED <<runtime, lease, attempt, row, cache, faults>>

(***************************************************************************)
(* Startup recovery (checkpoint_reconciliation.recover_incomplete).        *)
(***************************************************************************)

BeginRecovery ==
    /\ life = "down"
    /\ life' = "recovering"
    /\ stage' = "reopen"
    /\ UNCHANGED <<fence, epoch, lease, job, pub, attempt, row, cache, faults>>

\* reopen_payload_delivery: rows of an unacknowledged attempt are pending
\* again, a transaction per page; then the attempt is aborted.
ReopenDelivery(p) ==
    /\ stage \in {"reopen", "compensate"}
    /\ attempt = "preparing"
    /\ pub[p].bound
    /\ pub' = [pub EXCEPT ![p].delivery = "pending", ![p].bound = FALSE]
    /\ UNCHANGED <<runtime, lease, job, attempt, row, cache, faults>>

AbortAttempt ==
    /\ stage \in {"reopen", "compensate"}
    /\ attempt = "preparing"
    /\ \A p \in Pubs : ~pub[p].bound
    /\ attempt' = "none"
    /\ UNCHANGED <<runtime, lease, job, pub, row, cache, faults>>

Scan ==
    /\ stage = "reopen"
    /\ attempt = "none"
    /\ stage' = "scan"
    /\ UNCHANGED <<life, fence, epoch, lease, job, pub, attempt, row, cache, faults>>

InState(S) == {p \in Pubs : pub[p].st \in S}

\* claim_runtime_publication_recovery, and the publication's hydration.
Claim(p) ==
    /\ stage = "scan"
    /\ job = NoJob
    /\ p \in InState({"reconciliation_pending", "failed"})
    /\ pub[p].claims < MaxAttempts
    /\ pub' = [pub EXCEPT ![p].st = "reconciliation_pending",
                          ![p].claims = @ + 1,
                          ![p].mine = TRUE]
    /\ job' = [pub |-> p, op |-> NoOp, at |-> "hydrate", did |-> FALSE]
    /\ UNCHANGED <<runtime, lease, attempt, row, cache, faults>>

\* Mutant: a publication without attempts left is not handed to an operator.
ExhaustedUnmarked(p) ==
    /\ stage = "scan"
    /\ job = NoJob
    /\ p \in InState({"reconciliation_pending", "failed"})
    /\ pub[p].claims >= MaxAttempts
    /\ pub' = Disowned
    /\ Ends
    /\ UNCHANGED <<attempt, row, faults>>

\* An attempt too many: the publication is left to an operator, and the
\* Runtime does not open.
Exhausted(p) ==
    /\ stage = "scan"
    /\ job = NoJob
    /\ p \in InState({"reconciliation_pending", "failed"})
    /\ pub[p].claims >= MaxAttempts
    /\ pub' = [Disowned EXCEPT ![p].st = "manual"]
    /\ Ends
    /\ UNCHANGED <<attempt, row, faults>>

ManualStops ==
    /\ stage = "scan"
    /\ job = NoJob
    /\ InState({"reconciliation_pending", "failed"}) = {}
    /\ InState({"manual"}) # {}
    /\ Ends
    /\ pub' = Disowned
    /\ UNCHANGED <<attempt, row, faults>>

\* reconcile_checkpoint_object_payloads: the row the restore committed gets its
\* payload back; a newer or released one has consumed it.  Another row, such as
\* one that an older checkpoint brought back since, is refused.
Exact(p, x) == row[x].live /\ row[x].ver = CapturedAt[p]

Superseded(p, x) ==
    /\ row[x].ver >= CapturedAt[p]
    /\ row[x].live => row[x].ver > CapturedAt[p]

Reconcilable(p) == \A x \in Objects : Exact(p, x) \/ Superseded(p, x)

Hydrated(p) == [x \in Objects |-> IF Exact(p, x) THEN CapturedAt[p] ELSE cache[x]]

Hydrate ==
    /\ job.at = "hydrate"
    /\ Reconcilable(job.pub)
    /\ cache' = Hydrated(job.pub)
    /\ job' = [job EXCEPT !.at = "run"]
    /\ UNCHANGED <<runtime, lease, pub, attempt, row, faults>>

\* The terminal commit of recovery also owes a payload delivery.
FinishRecovery ==
    /\ Recovering
    /\ pub[job.pub].got = Steps
    /\ pub' = [pub EXCEPT ![job.pub].st = "committed", ![job.pub].delivery = "pending"]
    /\ job' = NoJob
    /\ UNCHANGED <<runtime, lease, attempt, row, cache, faults>>

\* A phase or the hydration fails: the failure is recorded, startup fails.
RecoveryFails(st) ==
    /\ job.op = NoOp
    /\ job.at \in {"hydrate", "run"}
    /\ pub' = [Disowned EXCEPT ![job.pub].st = st]
    /\ Ends
    /\ UNCHANGED <<attempt, row, faults>>

Undelivered == {p \in Pubs : pub[p].delivery = "pending"}

Recovered ==
    /\ stage = "scan"
    /\ job = NoJob
    /\ InState({"reconciliation_pending", "failed", "manual"}) = {}

\* _recover_pending_payload_deliveries: ownership and payloads, per row.
TakeDelivery(p) ==
    /\ Recovered
    /\ p \in Undelivered
    /\ ~pub[p].mine
    /\ Reconcilable(p)
    /\ pub' = [pub EXCEPT ![p].mine = TRUE]
    /\ cache' = Hydrated(p)
    /\ UNCHANGED <<runtime, lease, job, attempt, row, faults>>

\* Mutant: the sweep does not wait for the deliveries.
SweepFirst ==
    /\ stage = "scan"
    /\ job = NoJob
    /\ \A p \in Pubs : pub[p].st # "manual"
    /\ row' = [x \in Objects |-> IF cache[x] = 0 THEN [row[x] EXCEPT !.live = FALSE]
                                 ELSE row[x]]
    /\ life' = "starting"
    /\ stage' = "hooks"
    /\ UNCHANGED <<fence, epoch, lease, job, pub, attempt, cache, faults>>

\* After the checkpoint recovery rows whose payload was lost are released
\* (recover_missing_runtime_object_payloads), and startup begins.
Sweep ==
    /\ Recovered
    /\ \A p \in Undelivered : pub[p].mine
    /\ row' = [x \in Objects |-> IF cache[x] = 0 THEN [row[x] EXCEPT !.live = FALSE]
                                 ELSE row[x]]
    /\ life' = "starting"
    /\ stage' = "hooks"
    /\ UNCHANGED <<fence, epoch, lease, job, pub, attempt, cache, faults>>

(***************************************************************************)
(* Startup opens (builder._finish_startup).                                *)
(***************************************************************************)

BeginDelivery ==
    /\ stage = "hooks"
    /\ Undelivered # {}
    /\ attempt' = "preparing"
    /\ stage' = "prepare"
    /\ UNCHANGED <<life, fence, epoch, lease, job, pub, row, cache, faults>>

\* pending -> confirmed, then confirmed -> completed, a page at a time.
PrepareDelivery(p) ==
    /\ stage = "prepare"
    /\ p \in Undelivered
    /\ pub[p].mine
    /\ pub' = [pub EXCEPT ![p].delivery = "confirmed", ![p].bound = TRUE]
    /\ UNCHANGED <<runtime, lease, job, attempt, row, cache, faults>>

CompleteDelivery(p) ==
    /\ stage = "prepare"
    /\ Undelivered = {}
    /\ pub[p].delivery = "confirmed"
    /\ pub' = [pub EXCEPT ![p].delivery = "completed"]
    /\ UNCHANGED <<runtime, lease, job, attempt, row, cache, faults>>

ReadyToAck ==
    /\ stage = "prepare"
    /\ \A p \in Pubs : pub[p].delivery \notin {"pending", "confirmed"}
    /\ stage' = "ack"
    /\ UNCHANGED <<life, fence, epoch, lease, job, pub, attempt, row, cache, faults>>

Acknowledged == [p \in Pubs |-> [pub[p] EXCEPT !.bound = FALSE]]

Opens ==
    /\ life' = "open"
    /\ stage' = "none"
    /\ UNCHANGED <<fence, epoch>>

\* The acknowledgement and OPEN are one commit.
AckAndOpen ==
    /\ stage = "ack"
    /\ attempt' = "none"
    /\ pub' = Acknowledged
    /\ Opens
    /\ UNCHANGED <<lease, job, row, cache, faults>>

\* The commit raises: durable after all, or not.
AckAmbiguous ==
    /\ stage = "ack"
    /\ Fault
    /\ \/ /\ attempt' = "none"
          /\ pub' = Acknowledged
          /\ stage' = "acked"
       \/ /\ stage' = "compensate"
          /\ UNCHANGED <<attempt, pub>>
    /\ UNCHANGED <<life, fence, epoch, lease, job, row, cache>>

\* Without a backlog, or after reading the acknowledgement back.
OpenInMemory ==
    /\ \/ stage = "hooks" /\ Undelivered = {}
       \/ stage = "acked"
    /\ Opens
    /\ UNCHANGED <<lease, job, pub, attempt, row, cache, faults>>

\* A hook or a page fails; the attempt is compensated before startup ends.
StartupFails ==
    /\ stage \in {"hooks", "prepare", "ack", "acked"}
    /\ Fault
    /\ IF attempt = "preparing"
       THEN /\ stage' = "compensate"
            /\ UNCHANGED <<life, fence, epoch, lease, job, pub, cache>>
       ELSE Ends /\ pub' = Disowned
    /\ UNCHANGED <<attempt, row>>

Compensated ==
    /\ stage = "compensate"
    /\ attempt = "none"
    /\ Ends
    /\ pub' = Disowned
    /\ UNCHANGED <<attempt, row, faults>>

----------------------------------------------------------------------------

Lifecycle ==
    \/ \E o \in Ops :
          \/ \E ro \in BOOLEAN : Admit(o, ro)
          \/ Release(o)
          \/ OtherFences(o)
          \/ \E x \in Objects : OperationWrites(o, x)
    \/ \E x \in Objects : WorkerWrites(x)
    \/ StartShutdown \/ Drain \/ ShutdownFails \/ CloseStore
    \/ Crash \/ Discard

Begin == \E o \in Ops, p \in Pubs : MainCommit(o, p) \/ MainCommitEscapes(o, p)

OnlineWork ==
    \/ Effect \/ Receipt \/ FinishOnline \/ OnlineRefused
    \/ \E st \in {"reconciliation_pending", "failed", "manual"} : MarkOnlineFailure(st)

Startup ==
    \/ BeginRecovery \/ AbortAttempt \/ Scan \/ ManualStops
    \/ Hydrate \/ FinishRecovery \/ Sweep
    \/ BeginDelivery \/ ReadyToAck \/ AckAndOpen \/ OpenInMemory \/ Compensated
    \/ \E p \in Pubs :
          \/ ReopenDelivery(p) \/ Claim(p) \/ Exhausted(p)
          \/ TakeDelivery(p) \/ PrepareDelivery(p) \/ CompleteDelivery(p)

Failures ==
    \/ OnlineFails
    \/ \E st \in {"failed", "manual"} : RecoveryFails(st)
    \/ AckAmbiguous \/ StartupFails

Next == Lifecycle \/ Begin \/ OnlineWork \/ Startup \/ Failures

Spec == Init /\ [][Next]_vars

\* The reconciliation and the startup sequence keep running, admitted
\* operations end, and the Host ends a fenced or closed Runtime and starts
\* the next one.
FairSpec ==
    /\ Spec
    /\ WF_vars(OnlineWork)
    /\ WF_vars(Startup)
    /\ WF_vars(Discard)
    /\ \A o \in Ops : WF_vars(Release(o))

(***************************************************************************)
(* Properties.                                                             *)
(***************************************************************************)

\* A restore is owed from its main commit until its transcript is complete
\* and, when a restart completed it, until its payload delivery is
\* acknowledged by the commit that opens the Runtime.
Owed ==
    {p \in Pubs : \/ pub[p].st \in {"reconciliation_pending", "failed", "manual"}
                  \/ pub[p].delivery \in {"pending", "confirmed"}
                  \/ pub[p].bound}

Settled == {p \in Pubs : pub[p].st = "committed"} \ Owed

\* A committed restore has had every effect of its plan: registries
\* reconciled and each release finalizer run, whoever finished it
\* (_require_completion_receipts: effects come before receipts).
CommittedIsComplete ==
    \A p \in Pubs : pub[p].st = "committed" => pub[p].hit = 1..Steps

\* A Runtime that may commit serves every live Object with the payload of its
\* row: recovery neither revives an old payload under a newer row nor leaves
\* a restored row without one.
LiveHasPayload ==
    (Serving /\ ~Fenced) => \A x \in Objects : row[x].live => cache[x] = row[x].ver

\* A Runtime closes its store only with every restore it committed settled:
\* the drain waits for the restoring operation or loses to its fence.
CloseOwesNothing == life = "closed" => Owed = {}

\* After a recovery fence nothing is committed but the fencing publication's
\* own terminalization, whatever was admitted before, until the Runtime ends.
NothingAfterFence ==
    [][ (Fenced /\ life' # "down") =>
            /\ life' = life /\ fence' = fence
            /\ row' = row
            /\ \A p \in Pubs \ {fence} : [pub'[p] EXCEPT !.hit = {}] = [pub[p] EXCEPT !.hit = {}]
      ]_vars

\* Startup releases an Object the restore brought back, for want of a payload,
\* only when that restore does not owe its payload any more.
NotSweptUndelivered ==
    [][ \A x \in Objects : \A p \in Pubs :
          (life = "recovering" /\ Exact(p, x) /\ ~row'[x].live) => p \notin Owed ]_vars

\* Every restore that committed its rows is settled in the end, or handed to
\* an operator.  Its rows stay such that reconciliation accepts them: no other
\* restore takes them back to an older version in between.
RestoresSettle ==
    \A p \in Pubs : p \in Owed ~> (p \in Settled \/ pub[p].st = "manual")

\* What the Host may rely on: a Runtime accepts mutations beside an owed
\* restore only if it committed that restore itself.
Contract == INSTANCE RestoreContract WITH
    Restores <- Pubs,
    accepting <- Serving /\ ~Fenced,
    owed <- Owed,
    settled <- Settled

ImplementsContract == Contract!Spec

\* A restore is all there wherever somebody may rely on it: when it says committed,
\* when a Runtime serves its Objects, and when the store is closed over it
\* (_require_completion_receipts, reconcile_checkpoint_object_payloads, _close_store).
RestoreInv == TypeOK /\ CommittedIsComplete /\ LiveHasPayload /\ CloseOwesNothing

=============================================================================
