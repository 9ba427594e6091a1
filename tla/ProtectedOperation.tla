-------------------------- MODULE ProtectedOperation --------------------------
(***************************************************************************)
(* One protected operation is one call of an external provider, in one or  *)
(* more phases.  Four durable records stand for it: its external effect,   *)
(* the finite capability uses it has reserved, its usage reservation and   *)
(* the capabilities themselves.  They are written in separate transactions *)
(* around a provider that the store cannot roll back.  Capabilities are    *)
(* revoked meanwhile, a crash may fall between any two steps, and the next *)
(* Runtime recovers the records before it opens.                           *)
(***************************************************************************)
EXTENDS Naturals, FiniteSets

CONSTANTS
    Ops,                \* protected operations, each run at most once
    Caps,               \* finite-use capabilities
    CapsOf,             \* the capabilities whose use an operation reserves
    Metered,            \* operations that reserve resource usage
    Reconcilers,        \* operations whose provider answers for its past effects
    Uses,               \* uses each capability is granted with
    Phases, NoPhase,    \* kinds of provider phase
    MaxPhases,          \* bound on the phases of an operation
    MaxConsumes,        \* bound on uses consumed outside protected operations
    MaxRevokes,         \* bound on revocations and disablings of a capability
    MaxResourceRevokes, \* bound on revocations of a whole resource
    MaxFaults,          \* bound on settlement transactions that fail
    MaxCrashes

\* touches: the phase declares a state mutation or an information flow.
PhaseKinds == [touches : BOOLEAN, commits : BOOLEAN]

ASSUME OperationAssumption ==
    /\ IsFiniteSet(Ops) /\ CapsOf \in [Ops -> SUBSET Caps]
    /\ Metered \subseteq Ops /\ Reconcilers \subseteq Ops
    /\ Uses \in Nat \ {0}
    /\ Phases \subseteq PhaseKinds /\ NoPhase \notin PhaseKinds
    /\ {MaxPhases, MaxConsumes, MaxRevokes, MaxResourceRevokes, MaxFaults, MaxCrashes}
         \subseteq Nat

VARIABLES
    caps,        \* table capabilities
    hold,        \* table capability_use_reservations
    effect,      \* table external_effects
    usage,       \* table resource_usage_reservations
    op,          \* the ProtectedOperation objects in memory
    world,       \* what the provider did: touched by some phase, acted in the last
    withdrawn,   \* capabilities whose row a revocation or a disabling has written
    mode,        \* "open", "failed", or the stage of the startup recovery
    swept,       \* effects whose provider this startup has asked
    used

vars == <<caps, hold, effect, usage, op, world, withdrawn, mode, swept, used>>

-------------------------------------------------------------------------------
(* Types *)

CapRows == [uses : Nat, status : {"active", "revoked", "disabled"}]

SettledHolds == {"committed", "restored", "invalidated", "abandoned"}
Holds == {"none", "reserved"} \cup SettledHolds

\* marked: the row names a completed phase that rules out "not started".
Effects == [state : {"none", "prepared", "dispatched", "unknown", "committed", "failed",
                     "compensated"},
            final : BOOLEAN, marked : BOOLEAN]
NoEffect == [state |-> "none", final |-> FALSE, marked |-> FALSE]

SettledUsages == {"settled", "charged_maximum", "released"}
Usages == {"none", "active"} \cup SettledUsages

\* counted: a completed phase rules out "not started"; committed: the reservations
\* are committed; outcome: how a failed operation is recorded.
OpStates ==
    [pc : {"idle", "ready", "calling", "commit", "settle", "charge", "done", "lost"},
     phase : Phases \cup {NoPhase}, phases : Nat, dispatched : BOOLEAN, counted : BOOLEAN,
     committed : BOOLEAN, outcome : {"unknown", "committed"}, charges : SUBSET SettledUsages]
IdleOp == [pc |-> "idle", phase |-> NoPhase, phases |-> 0, dispatched |-> FALSE,
           counted |-> FALSE, committed |-> FALSE, outcome |-> "unknown", charges |-> {}]

Stages == {"prepared", "effects", "reservations", "usage"}

TypeOK ==
    /\ caps \in [Caps -> CapRows]
    /\ hold \in [Ops -> [Caps -> Holds]]
    /\ effect \in [Ops -> Effects]
    /\ usage \in [Ops -> Usages]
    /\ op \in [Ops -> OpStates]
    /\ world \in [Ops -> [touched : BOOLEAN, acted : BOOLEAN]]
    /\ withdrawn \subseteq Caps
    /\ mode \in {"open", "failed"} \cup Stages
    /\ swept \subseteq Ops
    /\ used \in [consumes : [Caps -> Nat], revokes : Nat, sweeps : Nat, faults : Nat,
                 crashes : Nat]

Init ==
    /\ caps = [c \in Caps |-> [uses |-> Uses, status |-> "active"]]
    /\ hold = [o \in Ops |-> [c \in Caps |-> "none"]]
    /\ effect = [o \in Ops |-> NoEffect]
    /\ usage = [o \in Ops |-> "none"]
    /\ op = [o \in Ops |-> IdleOp]
    /\ world = [o \in Ops |-> [touched |-> FALSE, acted |-> FALSE]]
    /\ withdrawn = {}
    /\ mode = "open"
    /\ swept = {}
    /\ used = [consumes |-> [c \in Caps |-> 0], revokes |-> 0, sweeps |-> 0, faults |-> 0,
               crashes |-> 0]

-------------------------------------------------------------------------------
(* Finite-use capabilities *)

Open == mode = "open"

CanSpend(row) == row.status = "active" /\ row.uses >= 1

\* The last use makes the capability revoked.
SpendUse(row) ==
    [uses |-> row.uses - 1, status |-> IF row.uses <= 1 THEN "revoked" ELSE row.status]

CanRestore(row) == row.status \in {"active", "revoked"}

\* A use given back makes an exhausted capability active again.
RestoreUse(row) == [uses |-> row.uses + 1, status |-> "active"]

\* restore_reserved_use for every reservation of o: settled ones are skipped.
Restored(o) == {c \in CapsOf[o] : hold[o][c] = "reserved" /\ CanRestore(caps[c])}
RestoreHolds(o) ==
    /\ caps' = [c \in Caps |-> IF c \in Restored(o) THEN RestoreUse(caps[c]) ELSE caps[c]]
    /\ hold' = [hold EXCEPT ![o] =
            [c \in Caps |-> IF hold[o][c] # "reserved" THEN hold[o][c]
                            ELSE IF c \in Restored(o) THEN "restored" ELSE "invalidated"]]

\* commit_reserved_use for every reservation of o: settled ones are skipped.
CommitHolds(o) ==
    hold' = [hold EXCEPT ![o] =
        [c \in Caps |-> IF hold[o][c] = "reserved" THEN "committed" ELSE hold[o][c]]]

\* A use consumed at once, outside a protected operation.
Consume(c) ==
    /\ Open
    /\ CanSpend(caps[c])
    /\ used.consumes[c] < MaxConsumes
    /\ caps' = [caps EXCEPT ![c] = SpendUse(@)]
    /\ used' = [used EXCEPT !.consumes[c] = @ + 1]
    /\ UNCHANGED <<hold, effect, usage, op, world, withdrawn, mode, swept>>

\* update_capability: a status other than active invalidates every reservation.
Withdraw(c, status) ==
    /\ caps' = [caps EXCEPT ![c].status = status]
    /\ hold' = [o \in Ops |-> [hold[o] EXCEPT ![c] = IF @ = "reserved" THEN "invalidated" ELSE @]]
    /\ withdrawn' = withdrawn \cup {c}

Revoke(c, status) ==
    /\ Open
    /\ used.revokes < MaxRevokes
    /\ used' = [used EXCEPT !.revokes = @ + 1]
    /\ Withdraw(c, status)
    /\ UNCHANGED <<effect, usage, op, world, mode, swept>>

\* revoke_resource goes over every capability of the resource, skips those that are
\* already revoked, as an exhausted one is, and returns those it has revoked.
RevokeResource ==
    /\ Open
    /\ used.sweeps < MaxResourceRevokes
    /\ used' = [used EXCEPT !.sweeps = @ + 1]
    /\ LET live == {c \in Caps : caps[c].status = "active"} IN
         /\ withdrawn' = withdrawn \cup live
         /\ caps' = [c \in Caps |-> IF c \in live THEN [caps[c] EXCEPT !.status = "revoked"]
                                    ELSE caps[c]]
         /\ hold' = [o \in Ops |-> [c \in Caps |->
                IF c \in live /\ hold[o][c] = "reserved" THEN "invalidated" ELSE hold[o][c]]]
    /\ UNCHANGED <<effect, usage, op, world, mode, swept>>

-------------------------------------------------------------------------------
(* The operation *)

At(o, pc) == Open /\ op[o].pc = pc
Goto(o, pc) == op' = [op EXCEPT ![o].pc = pc]

CanFail == used.faults < MaxFaults
Fault == CanFail /\ used' = [used EXCEPT !.faults = @ + 1]

\* __enter__: authority, effect intent and usage are reserved in one transaction.
Prepare(o) ==
    /\ At(o, "idle")
    /\ \A c \in CapsOf[o] : CanSpend(caps[c])
    /\ caps' = [c \in Caps |-> IF c \in CapsOf[o] THEN SpendUse(caps[c]) ELSE caps[c]]
    /\ hold' = [hold EXCEPT ![o] = [c \in Caps |-> IF c \in CapsOf[o] THEN "reserved" ELSE "none"]]
    /\ effect' = [effect EXCEPT ![o].state = "prepared"]
    /\ usage' = [usage EXCEPT ![o] = IF o \in Metered THEN "active" ELSE "none"]
    /\ Goto(o, "ready")
    /\ UNCHANGED <<world, withdrawn, mode, swept, used>>

\* _revalidate_dispatch_authority
Authorized(o) == op[o].committed \/ \A c \in CapsOf[o] : hold[o][c] = "reserved"

\* The effect is durably dispatched before the provider is called.
Dispatch(o, ph) ==
    /\ At(o, "ready")
    /\ op[o].phases < MaxPhases
    /\ Authorized(o)
    /\ effect[o].state \in {"prepared", "dispatched"}
    /\ effect' = [effect EXCEPT ![o].state = "dispatched"]
    /\ op' = [op EXCEPT ![o].pc = "calling", ![o].phase = ph, ![o].phases = @ + 1,
                        ![o].dispatched = TRUE]
    /\ world' = [world EXCEPT ![o].acted = FALSE]
    /\ UNCHANGED <<caps, hold, usage, withdrawn, mode, swept, used>>

\* _abort_not_started: authority and usage go back and the intent is deleted.
Abort(o) ==
    /\ RestoreHolds(o)
    /\ usage' = [usage EXCEPT ![o] = IF @ = "active" THEN "released" ELSE @]
    /\ effect' = [effect EXCEPT ![o] = NoEffect]
    /\ Goto(o, "done")
    /\ UNCHANGED <<world, withdrawn, mode, swept, used>>

\* The abort raises: __exit__ records a dispatched operation as unknown, and leaves
\* one that was never dispatched to the next startup.
AbortFails(o) ==
    /\ Fault
    /\ Goto(o, IF op[o].dispatched THEN "settle" ELSE "done")
    /\ UNCHANGED <<caps, hold, effect, usage, world, withdrawn, mode, swept>>

\* Mutant: only a phase that committed the authority counts.
NothingCommitted(o) == ~op[o].committed

\* No completed phase rules out that the operation was not started.
NothingDone(o) == ~op[o].counted

\* A revalidation at dispatch fails.  After a phase that counts, the exception
\* reaches __exit__, which records the outcome as unknown.
RejectDispatch(o) ==
    /\ At(o, "ready")
    /\ \/ NothingDone(o) /\ (Abort(o) \/ AbortFails(o))
       \/ /\ ~NothingDone(o)
          /\ Goto(o, "settle")
          /\ UNCHANGED <<caps, hold, effect, usage, world, withdrawn, mode, swept, used>>

\* The provider changes, or reads, the world.
ProviderActs(o) ==
    /\ At(o, "calling")
    /\ op[o].phase.touches
    /\ ~world[o].acted
    /\ world' = [world EXCEPT ![o] = [touched |-> TRUE, acted |-> TRUE]]
    /\ UNCHANGED <<caps, hold, effect, usage, op, withdrawn, mode, swept, used>>

Counts(ph) == ph.touches \/ ph.commits

\* The call returns; the phase is recorded in the row of the effect.
PhaseReturns(o) ==
    /\ At(o, "calling")
    /\ effect' = [effect EXCEPT ![o].marked = @ \/ Counts(op[o].phase)]
    /\ op' = [op EXCEPT ![o].pc = IF op[o].phase.commits THEN "commit" ELSE "ready",
                        ![o].counted = @ \/ Counts(op[o].phase)]
    /\ UNCHANGED <<caps, hold, usage, world, withdrawn, mode, swept, used>>

\* A second transaction commits the reserved uses.
CommitReservations(o) ==
    /\ At(o, "commit")
    /\ \/ /\ CommitHolds(o)
          /\ op' = [op EXCEPT ![o].pc = "ready", ![o].committed = TRUE]
          /\ UNCHANGED used
       \/ /\ Fault
          /\ Goto(o, "settle")
          /\ UNCHANGED hold
    /\ UNCHANGED <<caps, effect, usage, world, withdrawn, mode, swept>>

\* The commit of a failing operation is best effort.
CommitBestEffort(o) ==
    \/ CommitHolds(o) /\ UNCHANGED used
    \/ Fault /\ UNCHANGED hold

\* The call raises: the outcome is unknown.
PhaseRaises(o) ==
    /\ At(o, "calling")
    /\ CommitBestEffort(o)
    /\ Goto(o, "settle")
    /\ UNCHANGED <<caps, effect, usage, world, withdrawn, mode, swept>>

\* The provider certifies that this phase was not started.
NotStarted(o) ==
    /\ At(o, "calling")
    /\ ~world[o].acted
    /\ \/ NothingDone(o) /\ (Abort(o) \/ AbortFails(o))
       \/ /\ ~NothingDone(o)
          /\ CommitBestEffort(o)
          /\ op' = [op EXCEPT ![o].pc = "settle", ![o].outcome = "committed"]
          /\ UNCHANGED <<caps, effect, usage, world, withdrawn, mode, swept>>

\* Mutant: the operation counts as not started until its authority is committed.
ExitUncommitted(o) ==
    /\ At(o, "ready")
    /\ \/ ~op[o].committed /\ (Abort(o) \/ AbortFails(o))
       \/ /\ op[o].committed
          /\ Goto(o, "settle")
          /\ UNCHANGED <<caps, hold, effect, usage, world, withdrawn, mode, swept, used>>

\* The with-block ends without complete().
Exit(o) ==
    /\ At(o, "ready")
    /\ \/ ~op[o].dispatched /\ (Abort(o) \/ AbortFails(o))
       \/ /\ op[o].dispatched
          /\ Goto(o, "settle")
          /\ UNCHANGED <<caps, hold, effect, usage, world, withdrawn, mode, swept, used>>

Finalize(o, state) ==
    effect' = [effect EXCEPT ![o].state = state, ![o].final = TRUE]

\* Mutant: the failure is charged and not recorded.
SettleFailureUnrecorded(o) ==
    /\ At(o, "settle")
    /\ op' = [op EXCEPT ![o].pc = "charge", ![o].charges = {"charged_maximum"}]
    /\ UNCHANGED <<caps, hold, effect, usage, world, withdrawn, mode, swept, used>>

\* _settle_failure: when its transaction fails, the pending row is the evidence and
\* the usage stays reserved.
SettleFailure(o) ==
    /\ At(o, "settle")
    /\ \/ /\ Finalize(o, op[o].outcome)
          /\ op' = [op EXCEPT ![o].pc = "charge", ![o].charges = {"settled", "charged_maximum"}]
          /\ UNCHANGED used
       \/ /\ Fault
          /\ Goto(o, "done")
          /\ UNCHANGED effect
    /\ UNCHANGED <<caps, hold, usage, world, withdrawn, mode, swept>>

\* complete(): when its transaction fails, the usage is charged in full.
Complete(o, state) ==
    /\ At(o, "ready")
    /\ op[o].dispatched
    /\ \/ /\ Finalize(o, state)
          /\ op' = [op EXCEPT ![o].pc = "charge", ![o].charges = {"settled", "charged_maximum"}]
          /\ UNCHANGED used
       \/ /\ Fault
          /\ op' = [op EXCEPT ![o].pc = "charge", ![o].charges = {"charged_maximum"}]
          /\ UNCHANGED effect
    /\ UNCHANGED <<caps, hold, usage, world, withdrawn, mode, swept>>

\* The charge is a transaction of its own, after the outcome is final.
Charge(o) ==
    /\ At(o, "charge")
    /\ \/ /\ \E status \in op[o].charges :
               usage' = [usage EXCEPT ![o] = IF @ = "active" THEN status ELSE @]
          /\ UNCHANGED used
       \/ Fault /\ UNCHANGED usage
    /\ Goto(o, "done")
    /\ UNCHANGED <<caps, hold, effect, world, withdrawn, mode, swept>>

-------------------------------------------------------------------------------
(* Receipts *)

Answers == {"committed", "failed", "compensated", "not_started"}

\* The provider speaks the truth about the last phase it was called for.
Truthful(o, answer) == answer = "not_started" => ~world[o].acted

SettledState(answer) == IF answer = "not_started" THEN "failed" ELSE answer

Pending(o) == ~effect[o].final /\ effect[o].state \in {"dispatched", "unknown"}

\* _require_external_effect_globally_not_started
GloballyNotStarted(o) == ~effect[o].marked

\* What settle_external_effect_recovery requires; otherwise it raises.
CanSettle(o, answer) ==
    IF answer = "not_started"
    THEN /\ GloballyNotStarted(o)
         /\ \A c \in CapsOf[o] : hold[o][c] = "reserved" /\ CanRestore(caps[c])
         /\ usage[o] \in {"none", "active"}
    ELSE \A c \in CapsOf[o] : hold[o][c] \in {"reserved", "committed"}

\* settle_external_effect_recovery: the effect and its reservations converge.
SettleReceipt(o, answer) ==
    /\ Finalize(o, SettledState(answer))
    /\ IF answer = "not_started"
       THEN RestoreHolds(o) /\ usage' = [usage EXCEPT ![o] = IF @ = "active" THEN "released" ELSE @]
       ELSE CommitHolds(o) /\ UNCHANGED <<caps, usage>>

\* The Host records a verified receipt of an effect that no operation works on.
HostReceipt(o, answer) ==
    /\ Open /\ op[o].pc \in {"done", "lost"}
    /\ o \in Reconcilers /\ Pending(o)
    /\ Truthful(o, answer)
    /\ CanSettle(o, answer)
    /\ SettleReceipt(o, answer)
    /\ UNCHANGED <<op, world, withdrawn, mode, swept, used>>

-------------------------------------------------------------------------------
(* Crash and startup recovery *)

\* The objects in memory are lost; the records stay.
Crash ==
    /\ mode # "failed"
    /\ used.crashes < MaxCrashes
    /\ used' = [used EXCEPT !.crashes = @ + 1]
    /\ op' = [o \in Ops |-> IF op[o].pc = "idle" THEN op[o] ELSE [IdleOp EXCEPT !.pc = "lost"]]
    /\ mode' = "prepared"
    /\ swept' = {}
    /\ UNCHANGED <<caps, hold, effect, usage, world, withdrawn>>

\* Startup raised; the Host starts the Runtime again.
Restart ==
    /\ mode = "failed"
    /\ mode' = "prepared"
    /\ swept' = {}
    /\ UNCHANGED <<caps, hold, effect, usage, op, world, withdrawn, used>>

StartupFails ==
    /\ mode' = "failed"
    /\ UNCHANGED <<caps, hold, effect, usage, op, world, withdrawn, swept, used>>

\* recover_prepared: an effect that was never dispatched gives its authority back.
RecoverPrepared(o) ==
    /\ mode = "prepared"
    /\ effect[o].state = "prepared"
    /\ IF \A c \in CapsOf[o] : hold[o][c] = "reserved" /\ CanRestore(caps[c])
       THEN /\ RestoreHolds(o)
            /\ effect' = [effect EXCEPT ![o] = NoEffect]
            /\ UNCHANGED <<usage, op, world, withdrawn, mode, swept, used>>
       ELSE StartupFails

\* reconcile_pending_external_effects: no provider to ask, an exception, or no receipt.
ReconcileUnknown(o) ==
    /\ mode = "effects"
    /\ o \notin swept /\ Pending(o)
    /\ effect' = [effect EXCEPT ![o].state = "unknown"]
    /\ swept' = swept \cup {o}
    /\ UNCHANGED <<caps, hold, usage, op, world, withdrawn, mode, used>>

\* The provider answers with a receipt: it is settled, or startup fails.
Reconcile(o, answer) ==
    /\ mode = "effects"
    /\ o \in Reconcilers \ swept /\ Pending(o)
    /\ Truthful(o, answer)
    /\ IF CanSettle(o, answer)
       THEN /\ SettleReceipt(o, answer)
            /\ swept' = swept \cup {o}
            /\ UNCHANGED <<op, world, withdrawn, mode, used>>
       ELSE StartupFails

\* abandon_stale_capability_use_reservations
Stale(status) == status = "reserved"
AbandonStale(o) ==
    /\ mode = "reservations"
    /\ \E c \in Caps : Stale(hold[o][c])
    /\ hold' = [hold EXCEPT ![o] =
            [c \in Caps |-> IF Stale(hold[o][c]) THEN "abandoned" ELSE hold[o][c]]]
    /\ UNCHANGED <<caps, effect, usage, op, world, withdrawn, mode, swept, used>>

\* Mutant: an effect left unknown counts as not dispatched.
UndispatchedOrUnknown(o) == effect[o].state \in {"none", "prepared", "unknown"}

\* recover_usage_reservations: released only when nothing was dispatched.
Undispatched(o) == effect[o].state \in {"none", "prepared"}
RecoverUsage(o) ==
    /\ mode = "usage"
    /\ usage[o] = "active"
    /\ usage' = [usage EXCEPT ![o] = IF Undispatched(o) THEN "released" ELSE "charged_maximum"]
    /\ UNCHANGED <<caps, hold, effect, op, world, withdrawn, mode, swept, used>>

\* A stage ends when nothing is left for it.
StageDone ==
    CASE mode = "prepared"     -> \A o \in Ops : effect[o].state # "prepared"
      [] mode = "effects"      -> \A o \in Ops : Pending(o) => o \in swept
      [] mode = "reservations" -> \A o \in Ops, c \in Caps : ~Stale(hold[o][c])
      [] mode = "usage"        -> \A o \in Ops : usage[o] # "active"

\* Mutant: usage reservations are not recovered.
StageAfterWithoutUsage ==
    [prepared |-> "effects", effects |-> "reservations", reservations |-> "open",
     usage |-> "open"]

StageAfter ==
    [prepared |-> "effects", effects |-> "reservations", reservations |-> "usage",
     usage |-> "open"]

NextStage ==
    /\ mode \in Stages
    /\ StageDone
    /\ mode' = StageAfter[mode]
    /\ UNCHANGED <<caps, hold, effect, usage, op, world, withdrawn, swept, used>>

-------------------------------------------------------------------------------

OpStep(o) ==
    \/ Prepare(o)
    \/ \E ph \in Phases : Dispatch(o, ph)
    \/ RejectDispatch(o)
    \/ ProviderActs(o) \/ PhaseReturns(o) \/ PhaseRaises(o) \/ NotStarted(o)
    \/ CommitReservations(o)
    \/ \E state \in {"committed", "failed", "unknown"} : Complete(o, state)
    \/ Exit(o) \/ SettleFailure(o) \/ Charge(o)

RecoveryStep(o) ==
    \/ RecoverPrepared(o)
    \/ ReconcileUnknown(o)
    \/ \E answer \in Answers : Reconcile(o, answer)
    \/ AbandonStale(o) \/ RecoverUsage(o)

Next ==
    \/ \E o \in Ops : OpStep(o) \/ RecoveryStep(o)
    \/ \E o \in Ops, answer \in Answers : HostReceipt(o, answer)
    \/ \E c \in Caps : Consume(c)
    \/ \E c \in Caps, status \in {"revoked", "disabled"} : Revoke(c, status)
    \/ RevokeResource
    \/ Crash \/ Restart \/ NextStage

Spec == Init /\ [][Next]_vars

\* The startup thread runs on, the Host restarts a Runtime that did not open, and an
\* operation under way is left: a provider call is assumed to end.
Fairness ==
    /\ WF_vars(Restart) /\ WF_vars(NextStage)
    /\ \A o \in Ops :
         /\ WF_vars(RecoveryStep(o))
         /\ WF_vars(Exit(o) \/ PhaseReturns(o) \/ PhaseRaises(o) \/ CommitReservations(o)
                      \/ SettleFailure(o) \/ Charge(o))

LiveSpec == Spec /\ Fairness

-------------------------------------------------------------------------------
(* Properties *)

\* A finite-use capability never drives more effects than it was granted uses: the
\* uses left, those consumed and the operations that touched the world never
\* exceed the grant.  A use is given back only for a call that did nothing,
\* whichever of _abort_not_started, recover_prepared and a receipt gives it back.
UsesLimitEffects ==
    \A c \in Caps :
        caps[c].uses + used.consumes[c]
          + Cardinality({o \in Ops : c \in CapsOf[o] /\ world[o].touched}) <= Uses

\* The world is touched only behind a dispatched row, and the row survives every
\* abort, failed settlement, crash and recovery.
EffectsAreEvidenced ==
    \A o \in Ops : world[o].touched => effect[o].state \notin {"none", "prepared"}

\* The usage of an operation that touched the world is never released.
EffectsAreCharged ==
    \A o \in Metered : world[o].touched => usage[o] \in {"active", "settled", "charged_maximum"}

\* A capability that a revocation or a disabling has written, by itself or with its
\* whole resource, never becomes active again, although uses of it were reserved at the
\* time and are given back later (update_capability, revoke_resource,
\* restore_reserved_use).
WithdrawnStaysWithdrawn == \A c \in withdrawn : caps[c].status # "active"

\* What docs/capabilities.md says of an explicit revoke: no late cleanup reactivates
\* the authority.  All capabilities here are of one resource, so once that resource
\* has been revoked none of them is active (revoke_resource).
ResourceStaysRevoked == used.sweeps > 0 => \A c \in Caps : caps[c].status # "active"

\* What an earlier Runtime left reserved, active or in flight is settled, or named
\* unknown, before the Runtime opens.
RecoveryDischarges ==
    Open => \A o \in Ops : op[o].pc = "lost" =>
        /\ usage[o] # "active"
        /\ effect[o].state \notin {"prepared", "dispatched"}
        /\ \A c \in Caps : hold[o][c] # "reserved"

\* What tests/runtime/test_effect_transactions.py expects of a restart: whatever the
\* crash interrupted, the Runtime opens, unless it finds withdrawn authority under a
\* prepared effect, for which RecoverPrepared fails closed.
Reopens == mode # "open" /\ withdrawn = {} ~> mode = "open"

\* Startup recovery comes to an end, open or refused: no stage waits for a record that
\* no stage will settle (_recover_runtime_state).
StartupEnds == mode \in Stages ~> mode \in {"open", "failed"}

\* Operations that ended in this Runtime and left their record to the next startup.
LeftBehind == {o \in Ops : op[o].pc = "done" /\ effect[o].state \in {"prepared", "dispatched"}}

\* Every operation that reserved authority ends with an effect that is final, gone or
\* named unknown, across a crash too, unless startup refuses to open.  An operation may
\* leave its record to the next startup only if a settlement transaction of its own
\* failed: there are never more of those than failures (_settle_failure, complete).
OperationsSettle ==
    \A o \in Ops : op[o].pc = "ready" ~>
        \/ effect[o].final \/ effect[o].state \in {"none", "unknown"}
        \/ o \in LeftBehind /\ Cardinality(LeftBehind) <= used.faults
        \/ mode = "failed"

\* Recovery leaves every pending effect of live authority in a state that some
\* provider receipt can settle, as Host recovery offers.
ReceiptCanSettle ==
    \A o \in Ops : Pending(o) /\ CapsOf[o] \cap withdrawn = {} =>
        \E answer \in Answers : CanSettle(o, answer)

\* Authority is neither spent twice nor brought back: what is touched, consumed and
\* left fits the grant, and what was revoked stays revoked (lease.py, mutation.py).
AuthorityInv == TypeOK /\ UsesLimitEffects /\ WithdrawnStaysWithdrawn

\* Startup ends, and so does every operation (_recover_runtime_state,
\* _settle_failure).
Recovers == StartupEnds /\ OperationsSettle

===============================================================================
