---------------------------- MODULE ResourceBudget ----------------------------
(***************************************************************************)
(* The hierarchical resource accounting of ResourceManager: one discrete,  *)
(* reservable budget field (llm_calls, llm_total_tokens, tool_calls, ...)  *)
(* followed over a tree of processes.                                      *)
(*                                                                         *)
(* A child with a finite budget holds an allocation at its parent          *)
(* (process_resource_reservations); a provider call holds an envelope of   *)
(* its maximum usage (resource_usage_reservations) until it is settled.    *)
(* A charge is added to the whole parent chain and consumes the            *)
(* allocations on the way.  Charges are checked before (a preflight) or    *)
(* admitted as an overage, in which case the first process of the chain    *)
(* that is over its limit is killed with its subtree, in a transaction of  *)
(* its own.  Every other operation is one store transaction.               *)
(*                                                                         *)
(* Checkpoints (one is taken) rewind the usage and the allocations         *)
(* of a subtree and delete the rows of processes launched since; the       *)
(* envelopes are never rewound.                                            *)
(***************************************************************************)
EXTENDS Naturals, Sequences, FiniteSets, FiniteSetsExt, Functions

CONSTANTS
    Pids,           \* process identities
    Root,           \* the process launched by the Host
    RootLimit,      \* its budget
    Limits,         \* budgets a child may be launched with, or Unlimited
    Amounts,        \* amounts one charge or envelope is for
    Overages,       \* amounts one overage charge is for
    Calls,          \* provider calls in progress (bound)
    UsageCap,       \* overages stop when the root has used this much (bound)
    Unlimited, NoPid, NoCall, NoCheckpoint

Envelopes == [pid : Pids, max : Amounts, sent : BOOLEAN, open : BOOLEAN]

ASSUME BudgetAssumption ==
    /\ IsFiniteSet(Pids) /\ Root \in Pids /\ NoPid \notin Pids
    /\ IsFiniteSet(Calls)
    /\ NoCall \notin Envelopes
    /\ RootLimit \in Nat
    /\ Limits \subseteq Nat \cup {Unlimited}
    /\ Unlimited \notin Nat
    /\ Amounts \subseteq Nat \ {0}
    /\ Overages \subseteq Nat \ {0}
    /\ UsageCap \in Nat

VARIABLES
    st,         \* per process: "none", "live", "dead" (terminal), "gone" (row deleted)
    limit,      \* its budget
    used,       \* its accumulated usage
    line,       \* the process and its ancestors, nearest first (_process_chain)
    held,       \* what its allocation at its parent still reserves
    call,       \* envelopes: [pid, max, sent, open], or NoCall
    doomed,     \* processes found over their limit, kill not yet persisted
    saved,      \* the checkpoint: scope, captured rows and history, or NoCheckpoint
    phase,      \* "up", "recovering" or "refused" (the Runtime failed to open)
    overrun     \* history: processes with an overage charged at or below them, forked
                \* from the checkpoint of one, or restored next to an envelope whose
                \* settlement was refused

vars == <<st, limit, used, line, held, call, doomed, saved, phase, overrun>>

Chain(p) == Range(line[p])

Children(q) == {c \in Pids : Len(line[c]) > 1 /\ line[c][2] = q}

Subtree(q) == {d \in Pids : q \in Chain(d)}

Exists(p) == st[p] \in {"live", "dead"}

Less(n, m) == IF n > m THEN n - m ELSE 0

(***************************************************************************)
(* What is committed at a process.                                         *)
(***************************************************************************)

\* The sum of f over S, as the number of its units: unlike a fold it takes no
\* operator, which the proofs could not reason about.
Total(f, S) == Cardinality(UNION {{x} \X (1 .. f[x]) : x \in S})

\* Allocations of q's children; the one of child c counts less what an
\* admitted charge of n would consume of it.
Reserved(q, h, c, n) ==
    Total([d \in Pids |-> IF d = c THEN Less(h[d], n) ELSE h[d]], Children(q))

EnvelopesOf(S, k) ==
    Total([i \in Calls |-> IF k[i] # NoCall /\ k[i].pid \in S THEN k[i].max ELSE 0], Calls)

\* Envelopes at and below q, less what a child's allocation already covers.
\* One whose process row is gone counts for its recorded owner only.
Uncovered(q, h, k) ==
    EnvelopesOf({q}, k)
      + Total([c \in Pids |-> Less(EnvelopesOf({d \in Subtree(c) : Exists(d)}, k), h[c])],
              Children(q))

Over(q, u, h, k) ==
    /\ limit[q] # Unlimited
    /\ u + h + k > limit[q]

\* _preflight_locked: n more, at p and at every ancestor.
Preflight(p, n, k) ==
    \A x \in 1..Len(line[p]) :
        LET q     == line[p][x]
            below == IF x = 1 THEN NoPid ELSE line[p][x - 1]
        IN  ~ Over(q, used[q] + n, Reserved(q, held, below, n), Uncovered(q, held, k))

\* _remaining_budget_field_locked: a launch under p may ask for at most this.
FitsRemaining(p, b) ==
    \A q \in Chain(p) :
        limit[q] # Unlimited
            => b <= Less(limit[q], used[q] + Reserved(q, held, NoPid, 0) + Uncovered(q, held, call))

(***************************************************************************)
(* The effect of a charge.                                                 *)
(***************************************************************************)

Charged(p, n) == [q \in Pids |-> IF q \in Chain(p) THEN used[q] + n ELSE used[q]]

\* _consume_reservation_locked along the chain.
Consumed(p, n) == [c \in Pids |-> IF c \in Chain(p) THEN Less(held[c], n) ELSE held[c]]

\* The nearest process of p's chain that is over its limit after the charge.
FirstExceeded(p, u, h, k) ==
    LET exceeded == {x \in 1..Len(line[p]) :
                        LET q == line[p][x]
                        IN  Over(q, u[q], Reserved(q, h, NoPid, 0), Uncovered(q, h, k))}
    IN  IF exceeded = {} THEN {} ELSE {line[p][Min(exceeded)]}

\* _persist_resource_limit_kill of every process in S.
Killed(S) == {d \in Pids : st[d] = "live" /\ Chain(d) \cap S # {}}

StatusAfterKill(S) == [d \in Pids |-> IF d \in Killed(S) THEN "dead" ELSE st[d]]

\* delete_resource_reservations_for_process, as child and as parent.
WithoutAllocations(h, S) ==
    [c \in Pids |-> IF c \in S \/ (Len(line[c]) > 1 /\ line[c][2] \in S) THEN 0 ELSE h[c]]

-----------------------------------------------------------------------------
TypeOK ==
    /\ st \in [Pids -> {"none", "live", "dead", "gone"}]
    /\ limit \in [Pids -> Nat \cup {Unlimited}]
    /\ used \in [Pids -> Nat]
    /\ line \in [Pids -> Seq(Pids)]
    /\ held \in [Pids -> Nat]
    /\ call \in [Calls -> Envelopes \cup {NoCall}]
    /\ doomed \subseteq Pids
    /\ phase \in {"up", "recovering", "refused"}
    /\ overrun \subseteq Pids

Init ==
    /\ st = [p \in Pids |-> IF p = Root THEN "live" ELSE "none"]
    /\ limit = [p \in Pids |-> IF p = Root THEN RootLimit ELSE Unlimited]
    /\ used = [p \in Pids |-> 0]
    /\ line = [p \in Pids |-> IF p = Root THEN <<Root>> ELSE <<>>]
    /\ held = [p \in Pids |-> 0]
    /\ call = [i \in Calls |-> NoCall]
    /\ doomed = {}
    /\ saved = NoCheckpoint
    /\ phase = "up"
    /\ overrun = {}

(***************************************************************************)
(* Launch and end of a process.                                            *)
(***************************************************************************)

AllocationOf(b) == IF b = Unlimited THEN 0 ELSE b

\* Mutant: the launch does not ask whether the parent can afford the child.
UnvalidatedSpawn(p, c, b) ==
    /\ phase = "up"
    /\ st[p] = "live" /\ st[c] = "none"
    /\ st' = [st EXCEPT ![c] = "live"]
    /\ limit' = [limit EXCEPT ![c] = b]
    /\ line' = [line EXCEPT ![c] = <<c>> \o line[p]]
    /\ held' = [held EXCEPT ![c] = AllocationOf(b)]
    /\ UNCHANGED <<used, call, doomed, saved, phase, overrun>>

\* fork / spawn: validate_child_budget, reserve_child_budget, insert_process.
Spawn(p, c, b) ==
    /\ phase = "up"
    /\ st[p] = "live" /\ st[c] = "none"
    /\ b # Unlimited => FitsRemaining(p, b)
    /\ st' = [st EXCEPT ![c] = "live"]
    /\ limit' = [limit EXCEPT ![c] = b]
    /\ line' = [line EXCEPT ![c] = <<c>> \o line[p]]
    /\ held' = [held EXCEPT ![c] = AllocationOf(b)]
    /\ UNCHANGED <<used, call, doomed, saved, phase, overrun>>

\* Forking a checkpointed process under p: the fork keeps the captured
\* budget and usage, and its allocation is for the whole budget.
Fork(p, c) ==
    /\ phase = "up"
    /\ saved # NoCheckpoint
    /\ st[p] = "live" /\ st[c] = "none"
    /\ saved.st[saved.pid] = "live"
    /\ LET b == saved.limit[saved.pid]
       IN  /\ b # Unlimited => FitsRemaining(p, b)
           /\ limit' = [limit EXCEPT ![c] = b]
           /\ held' = [held EXCEPT ![c] = AllocationOf(b)]
    /\ used' = [used EXCEPT ![c] = saved.used[saved.pid]]
    /\ st' = [st EXCEPT ![c] = "live"]
    /\ line' = [line EXCEPT ![c] = <<c>> \o line[p]]
    /\ overrun' = overrun \cup (IF saved.over THEN {c} ELSE {})
    /\ UNCHANGED <<call, doomed, saved, phase>>

\* Exit of a process whose descendants have ended, with the release of its
\* allocations; its open envelopes stay.
Exit(p) ==
    /\ phase = "up"
    /\ p # Root
    /\ st[p] = "live"
    /\ \A d \in Subtree(p) \ {p} : st[d] # "live"
    /\ st' = [st EXCEPT ![p] = "dead"]
    /\ held' = WithoutAllocations(held, {p})
    /\ UNCHANGED <<limit, used, line, call, doomed, saved, phase, overrun>>

(***************************************************************************)
(* Provider calls.                                                         *)
(***************************************************************************)

\* reserve_usage, in the transaction that prepares the effect.
ReserveUsage(p, i, n) ==
    /\ phase = "up"
    /\ st[p] = "live"
    /\ call[i] = NoCall
    /\ Preflight(p, n, call)
    /\ call' = [call EXCEPT ![i] = [pid |-> p, max |-> n, sent |-> FALSE, open |-> TRUE]]
    /\ UNCHANGED <<st, limit, used, line, held, doomed, saved, phase, overrun>>

\* The provider is dispatched; from here the usage is ambiguous.
Dispatch(i) ==
    /\ phase = "up"
    /\ call[i] # NoCall
    /\ call[i].open /\ ~ call[i].sent
    /\ call' = [call EXCEPT ![i].sent = TRUE]
    /\ UNCHANGED <<st, limit, used, line, held, doomed, saved, phase, overrun>>

\* Mutant: the envelope still counts while its usage is charged.
StillActive(i) == call

\* The envelope is deactivated first, then its usage is charged.
Deactivated(i) == [call EXCEPT ![i] = NoCall]

CanSettle(i, n) ==
    LET p == call[i].pid
    IN  /\ Preflight(p, n, Deactivated(i))
        /\ FirstExceeded(p, Charged(p, n), Consumed(p, n), Deactivated(i)) = {}

\* settle_usage_reservation with a measured usage, at most the maximum, or
\* with the maximum when the outcome is unknown.
Settle(i, n) ==
    /\ phase = "up"
    /\ call[i] # NoCall
    /\ call[i].open /\ call[i].sent
    /\ n <= call[i].max
    /\ CanSettle(i, n)
    /\ used' = Charged(call[i].pid, n)
    /\ held' = Consumed(call[i].pid, n)
    /\ call' = Deactivated(i)
    /\ UNCHANGED <<st, limit, line, doomed, saved, phase, overrun>>

\* The charge is refused: the settlement rolls back, the operation ends with
\* the error and the envelope stays active until the Runtime is reopened.
SettleRefused(i) ==
    /\ phase = "up"
    /\ call[i] # NoCall
    /\ call[i].open /\ call[i].sent
    /\ ~ CanSettle(i, call[i].max)
    /\ call' = [call EXCEPT ![i].open = FALSE]
    /\ UNCHANGED <<st, limit, used, line, held, doomed, saved, phase, overrun>>

\* Certified not started.
Release(i) ==
    /\ phase = "up"
    /\ call[i] # NoCall
    /\ call[i].open /\ ~ call[i].sent
    /\ call' = Deactivated(i)
    /\ UNCHANGED <<st, limit, used, line, held, doomed, saved, phase, overrun>>

(***************************************************************************)
(* Charges without an envelope.                                            *)
(***************************************************************************)

\* Mutant: the check after the charge counts the allocations before it.
ChargeCheckedStale(p, n) ==
    /\ used' = Charged(p, n)
    /\ held' = Consumed(p, n)
    /\ doomed' = doomed \cup FirstExceeded(p, used', held, call)
    /\ UNCHANGED <<st, limit, line, call, saved, phase>>

ApplyCharge(p, n) ==
    /\ used' = Charged(p, n)
    /\ held' = Consumed(p, n)
    /\ doomed' = doomed \cup FirstExceeded(p, used', held', call)
    /\ UNCHANGED <<st, limit, line, call, saved, phase>>

\* charge(allow_overage = FALSE)
Charge(p, n) ==
    /\ phase = "up"
    /\ st[p] = "live"
    /\ Preflight(p, n, call)
    /\ ApplyCharge(p, n)
    /\ UNCHANGED overrun

\* charge(allow_overage = TRUE): what was consumed is accounted for, also on
\* a process that has ended meanwhile.
ChargeOverage(p, n) ==
    /\ phase = "up"
    /\ Exists(p)
    /\ used[Root] + n <= UsageCap
    /\ ApplyCharge(p, n)
    /\ overrun' = overrun \cup Chain(p)

\* The kill that follows a charge that went over a limit.
KillExceeded(q) ==
    /\ phase = "up"
    /\ q \in doomed
    /\ st' = StatusAfterKill({q})
    /\ held' = WithoutAllocations(held, Killed({q}))
    /\ doomed' = doomed \ {q}
    /\ UNCHANGED <<limit, used, line, call, saved, phase, overrun>>

(***************************************************************************)
(* Checkpoints.                                                            *)
(***************************************************************************)

Checkpoint(p) ==
    /\ phase = "up"
    /\ saved = NoCheckpoint   \* bound: one checkpoint
    /\ Exists(p)
    /\ saved' = [pid |-> p,
                 st |-> [d \in Subtree(p) |-> st[d]],
                 used |-> [d \in Subtree(p) |-> used[d]],
                 limit |-> [d \in Subtree(p) |-> limit[d]],
                 held |-> [d \in Subtree(p) |-> held[d]],
                 over |-> p \in overrun]
    /\ UNCHANGED <<st, limit, used, line, held, call, doomed, phase, overrun>>

\* Refused while the scheduler runs a quantum, so no operation is open and no
\* kill is owed.  Rows launched since the checkpoint are deleted; allocations
\* between two captured processes are put back, the one at the parent of the
\* scope is deleted.
Restore ==
    /\ phase = "up"
    /\ saved # NoCheckpoint
    /\ \A i \in Calls : call[i] # NoCall => ~ call[i].open
    /\ doomed = {}
    /\ LET scope == Subtree(saved.pid)
           kept  == DOMAIN saved.st
       IN  /\ st' = [d \in Pids |-> IF d \in kept THEN saved.st[d]
                                    ELSE IF d \in scope THEN "gone" ELSE st[d]]
           /\ used' = [d \in Pids |-> IF d \in kept THEN saved.used[d] ELSE used[d]]
           /\ held' = [d \in Pids |-> IF d \in kept \ {saved.pid} THEN saved.held[d]
                                      ELSE IF d \in scope THEN 0 ELSE held[d]]
           /\ overrun' = overrun \cup (IF \E i \in Calls : call[i] # NoCall /\ call[i].pid \in scope
                                      THEN scope ELSE {})
    /\ UNCHANGED <<limit, line, call, doomed, saved, phase>>

(***************************************************************************)
(* Crash and startup recovery.                                             *)
(***************************************************************************)

Crash ==
    /\ phase # "recovering"
    /\ phase' = "recovering"
    /\ doomed' = {}
    /\ call' = [i \in Calls |-> IF call[i] = NoCall THEN NoCall
                                ELSE [call[i] EXCEPT !.open = FALSE]]
    /\ UNCHANGED <<st, limit, used, line, held, saved, overrun>>

\* recover_usage_reservations, one envelope per transaction: not dispatched.
RecoverRelease(i) ==
    /\ phase = "recovering"
    /\ call[i] # NoCall
    /\ ~ call[i].sent
    /\ call' = Deactivated(i)
    /\ UNCHANGED <<st, limit, used, line, held, doomed, saved, phase, overrun>>

\* Dispatched: the maximum is charged whatever the limits say, and the kill
\* joins the transaction.  Active envelopes are left out of that check.
RecoverMaximum(i) ==
    /\ phase = "recovering"
    /\ call[i] # NoCall
    /\ call[i].sent
    /\ Exists(call[i].pid)
    /\ LET p    == call[i].pid
           h    == Consumed(p, call[i].max)
           dead == FirstExceeded(p, Charged(p, call[i].max), h, [j \in Calls |-> NoCall])
       IN  /\ used' = Charged(p, call[i].max)
           /\ st' = StatusAfterKill(dead)
           /\ held' = WithoutAllocations(h, Killed(dead))
    /\ call' = Deactivated(i)
    /\ UNCHANGED <<limit, line, doomed, saved, phase, overrun>>

\* The process row is gone: _process_chain raises NotFound and the Runtime
\* does not open.
RecoverVanished(i) ==
    /\ phase = "recovering"
    /\ call[i] # NoCall
    /\ call[i].sent
    /\ st[call[i].pid] = "gone"
    /\ phase' = "refused"
    /\ UNCHANGED <<st, limit, used, line, held, call, doomed, saved, overrun>>

Reopen ==
    /\ phase = "recovering"
    /\ \A i \in Calls : call[i] = NoCall
    /\ phase' = "up"
    /\ UNCHANGED <<st, limit, used, line, held, call, doomed, saved, overrun>>

Next ==
    \/ \E p, c \in Pids, b \in Limits : Spawn(p, c, b)
    \/ \E p, c \in Pids : Fork(p, c)
    \/ \E p \in Pids : Exit(p) \/ KillExceeded(p) \/ Checkpoint(p)
    \/ \E p \in Pids, n \in Amounts :
          \/ Charge(p, n)
          \/ \E i \in Calls : ReserveUsage(p, i, n)
    \/ \E p \in Pids, n \in Overages : ChargeOverage(p, n)
    \/ \E i \in Calls :
          \/ Dispatch(i) \/ SettleRefused(i) \/ Release(i)
          \/ \E n \in {0} \cup Amounts : Settle(i, n)
          \/ RecoverRelease(i) \/ RecoverMaximum(i) \/ RecoverVanished(i)
    \/ Restore \/ Crash \/ Reopen

Spec == Init /\ [][Next]_vars

-----------------------------------------------------------------------------
(***************************************************************************)
(* Properties.                                                             *)
(***************************************************************************)

Committed(q) == used[q] + Reserved(q, held, NoPid, 0) + Uncovered(q, held, call)

\* Unless an overage was charged at or below it (or it was forked from such a
\* process, or restored next to an envelope such an overage left unsettled), no
\* process is ever oversold:
\* its usage, the allocations of its children and the envelopes below it that
\* no allocation covers fit its limit, whatever the order of launches,
\* reservations, settlements, exits, restores and recoveries (the preflights
\* look at each of them separately).
NotOversold ==
    \A p \in Pids :
        (st[p] = "live" /\ limit[p] # Unlimited /\ p \notin overrun)
            => Committed(p) <= limit[p]

\* A provider call that was admitted can pay: as long as no overage was
\* charged along its chain, an envelope can be settled at its maximum, at
\* every ancestor, whatever siblings reserved or were launched meanwhile.
SettlementFits ==
    \A i \in Calls :
        (call[i] # NoCall /\ call[i].open /\ Chain(call[i].pid) \cap overrun = {})
            => CanSettle(i, call[i].max)

\* The allocation of a live child covers everything the child may still use:
\* a parent never keeps back less than it granted, and preflight at the parent
\* is only right because of this.  The one exception is the root of a restored
\* scope, whose allocation the restore deletes.
AllocationCoversChild ==
    \A c \in Pids \ {Root} :
        (st[c] = "live" /\ limit[c] # Unlimited /\ ~ (saved # NoCheckpoint /\ saved.pid = c))
            => held[c] >= Less(limit[c], used[c])

\* A charge that passed its preflight never ends in a kill: only an overage
\* finds a process over its limit afterwards, although the check after the
\* charge counts allocations already consumed and the preflight does not.
OnlyOveragesKill == doomed \subseteq overrun

\* docs/runtime_model.md: at startup every reservation linked to a dispatched
\* effect is charged maximally, so recovery settles every envelope and the
\* Runtime opens.
RecoverySettles == phase # "refused"

\* What was promised is covered: an allocation covers its child, and every ancestor
\* can pay an open envelope (reserve_usage, reserve_child_budget).
PromisesInv == TypeOK /\ AllocationCoversChild /\ SettlementFits

=============================================================================
