----------------------- MODULE ProtectedOperation_proof -----------------------
(***************************************************************************)
(* Proofs about ProtectedOperation, for every set of operations,           *)
(* capabilities and phases and every bound.                                *)
(*                                                                         *)
(* That a capability drives no more effects than it was granted uses is    *)
(* counted over the operations that have one of its uses and have not      *)
(* given it back (UsesAccounted); what has to be shown is that an          *)
(* operation that touched the world is one of them (HoldsKept).  For that  *)
(* each of the four ways to give a use back has its own evidence that      *)
(* nothing happened: the phases counted in memory, the mark in the row,    *)
(* the state "prepared" and the word of the provider (TouchIsKnown).       *)
(***************************************************************************)
EXTENDS ProtectedOperation, FiniteSetTheorems, TLAPS

-------------------------------------------------------------------------------
(* The inductive invariant *)

\* An operation that is under way, and one whose effect is not settled by it yet.
UnderWay == {"ready", "calling", "commit", "settle"}

\* An operation that was not entered has no records.
IdleHasNothing(o) ==
    op[o].pc = "idle" =>
      /\ effect[o] = NoEffect /\ usage[o] = "none"
      /\ ~world[o].touched /\ ~op[o].dispatched
      /\ \A c \in Caps : hold[o][c] = "none"

\* While it is under way, memory and the row agree on the dispatch.
DispatchRecorded(o) ==
    /\ op[o].pc \in UnderWay =>
         effect[o].state = IF op[o].dispatched THEN "dispatched" ELSE "prepared"
    /\ op[o].pc \in UnderWay \ {"ready"} => op[o].dispatched
    /\ op[o].counted => op[o].dispatched /\ effect[o].marked /\ op[o].pc # "lost"
    /\ effect[o].final => effect[o].state \notin {"none", "prepared", "dispatched"}

\* Whoever may give a use back can tell that the provider did something: memory between
\* the phases, memory or the provider within one, the row or the provider after a crash.
TouchIsKnown(o) ==
    /\ world[o].touched => effect[o].marked \/ world[o].acted
    /\ world[o].touched /\ op[o].pc \in {"ready", "commit"} => op[o].counted
    /\ world[o].touched /\ op[o].pc = "calling" => op[o].counted \/ world[o].acted
    /\ world[o].acted /\ op[o].pc = "calling" => op[o].phase.touches
    /\ world[o].touched => effect[o].state \notin {"none", "prepared"}

\* A metered operation has a usage record as long as it has an effect, and is charged if
\* it did something.
UsageKept(o) ==
    /\ op[o].charges \subseteq {"settled", "charged_maximum"}
    /\ o \in Metered /\ effect[o].state # "none" => usage[o] # "none"
    /\ world[o].touched \/ op[o].pc \in UnderWay => usage[o] # "released"

\* An operation under way has what it reserved, or lost it to a revocation; one that
\* touched the world has given nothing back.
HoldsKept(o) ==
    /\ \A c \in CapsOf[o] : op[o].pc \in UnderWay =>
         hold[o][c] \in {"reserved", "committed", "invalidated"}
    /\ \A c \in CapsOf[o] : world[o].touched => hold[o][c] \notin {"none", "restored"}
    /\ \A c \in Caps \ CapsOf[o] : hold[o][c] = "none"

\* A closed Runtime has no operations, and what its stages have dealt with stays so.
Discharged(o) ==
    /\ mode # "open" => op[o].pc \in {"idle", "lost"}
    /\ op[o].pc = "lost" =>
         /\ mode \in {"effects", "reservations", "usage", "open"} => effect[o].state # "prepared"
         /\ mode = "effects" /\ o \in swept => effect[o].state # "dispatched"
         /\ mode \in {"reservations", "usage", "open"} => effect[o].state # "dispatched"
         /\ mode \in {"usage", "open"} => \A c \in Caps : hold[o][c] # "reserved"
         /\ mode = "open" => usage[o] # "active"

OpInv(o) ==
    /\ IdleHasNothing(o)
    /\ DispatchRecorded(o)
    /\ TouchIsKnown(o)
    /\ UsageKept(o)
    /\ HoldsKept(o)
    /\ Discharged(o)

\* The operations that have a use of c and have not given it back.
Spent(c) == {o \in Ops : hold[o][c] \notin {"none", "restored"}}

\* Every use of a capability is left, consumed or with an operation.
UsesAccounted ==
    \A c \in Caps : caps[c].uses + used.consumes[c] + Cardinality(Spent(c)) = Uses

\* Nothing is reserved of a capability that was withdrawn, so no restore revives it: the
\* write that withdraws it invalidates what was reserved.
WithdrawnInv ==
    \A c \in withdrawn :
      caps[c].status # "active" /\ \A o \in Ops : hold[o][c] # "reserved"

\* A startup that has asked nobody yet.
SweepStarts == mode = "prepared" => swept = {}

IInv ==
    /\ TypeOK
    /\ \A o \in Ops : OpInv(o)
    /\ UsesAccounted
    /\ WithdrawnInv
    /\ SweepStarts

-------------------------------------------------------------------------------
(* What a step does to one operation *)

\* An operation that a step leaves alone; a revocation may take what it has reserved.
LeftAlone(u) ==
    /\ op'[u] = op[u] /\ effect'[u] = effect[u] /\ usage'[u] = usage[u] /\ world'[u] = world[u]
    /\ \A c \in Caps : \/ hold'[u][c] = hold[u][c]
                       \/ hold[u][c] = "reserved" /\ hold'[u][c] = "invalidated"
    /\ u \in swept' => u \in swept

Elsewhere(o) == mode' = mode /\ \A u \in Ops : u # o => LeftAlone(u)

\* The object in memory is at p, and the rest of it as it was.
OpGoes(o, p) ==
    /\ op'[o].pc = p /\ op'[o].phase = op[o].phase /\ op'[o].dispatched = op[o].dispatched
    /\ op'[o].counted = op[o].counted /\ op'[o].charges = op[o].charges
    /\ \A u \in Ops : u # o => op'[u] = op[u]

\* A move in memory, seen from the operation.
LEMMA GotoGoes ==
    ASSUME TypeOK, NEW o \in Ops, NEW p, Goto(o, p)
    PROVE  OpGoes(o, p)
  BY DEF TypeOK, OpStates, Goto, OpGoes

\* The invariant of an operation that is left alone.
LEMMA LeftAloneKeeps ==
    ASSUME NEW u \in Ops, LeftAlone(u), mode' = mode, OpInv(u), CapsOf[u] \subseteq Caps
    PROVE  OpInv(u)'
<1>0. /\ op'[u] = op[u] /\ effect'[u] = effect[u] /\ usage'[u] = usage[u] /\ world'[u] = world[u]
      /\ \A c \in Caps : \/ hold'[u][c] = hold[u][c]
                         \/ hold[u][c] = "reserved" /\ hold'[u][c] = "invalidated"
      /\ u \in swept' => u \in swept
  BY DEF LeftAlone
<1>1. IdleHasNothing(u)' /\ DispatchRecorded(u)'
  BY <1>0 DEF OpInv, IdleHasNothing, DispatchRecorded
<1>2. TouchIsKnown(u)' /\ UsageKept(u)'
  BY <1>0 DEF OpInv, TouchIsKnown, UsageKept
<1>3. HoldsKept(u)'
  BY <1>0 DEF OpInv, HoldsKept
<1>4. Discharged(u)'
  BY <1>0 DEF OpInv, Discharged
<1> QED
  BY <1>1, <1>2, <1>3, <1>4 DEF OpInv

\* A step of one operation keeps the invariant if it keeps that of the operation and of the
\* capabilities.
LEMMA OneOp ==
    ASSUME IInv, NEW o \in Ops, Elsewhere(o), TypeOK', OpInv(o)', UsesAccounted', WithdrawnInv',
           SweepStarts'
    PROVE  IInv'
  BY LeftAloneKeeps, OperationAssumption DEF IInv, Elsewhere

-------------------------------------------------------------------------------
(* What a step does to the capabilities *)

\* The operations with a use of c are finitely many.
LEMMA SpentFinite ==
    ASSUME NEW c
    PROVE  IsFiniteSet(Spent(c)) /\ Cardinality(Spent(c)) \in Nat
<1>1. Spent(c) \in SUBSET Ops
  BY DEF Spent
<1>2. IsFiniteSet(Spent(c))
  BY <1>1, FS_Subset, OperationAssumption
<1> QED
  BY <1>2, FS_CardinalityType

\* The accounts of a step that takes and gives back no use.
LEMMA NoUseMoves ==
    ASSUME IInv,
           \A c \in Caps : caps'[c].uses = caps[c].uses /\ used'.consumes[c] = used.consumes[c],
           \A o \in Ops, c \in Caps :
             hold'[o][c] \in {"none", "restored"} <=> hold[o][c] \in {"none", "restored"}
    PROVE  UsesAccounted'
<1>1. ASSUME NEW c \in Caps
      PROVE  {o \in Ops : hold'[o][c] \notin {"none", "restored"}} = Spent(c)
  BY DEF Spent
<1>2. ASSUME NEW c \in Caps
      PROVE  caps'[c].uses + used'.consumes[c]
               + Cardinality({o \in Ops : hold'[o][c] \notin {"none", "restored"}}) = Uses
  BY <1>1 DEF IInv, UsesAccounted
<1> QED
  BY <1>2 DEF UsesAccounted, Spent

\* A step that reserves nothing and revives nothing leaves withdrawn what was withdrawn.
LEMMA NothingRevived ==
    ASSUME IInv, withdrawn' = withdrawn,
           \A c \in Caps : caps'[c].status = "active" =>
             caps[c].status = "active" \/ \E o \in Ops : hold[o][c] = "reserved",
           \A o \in Ops, c \in Caps : hold'[o][c] = "reserved" =>
             hold[o][c] = "reserved" \/ caps[c].status = "active"
    PROVE  WithdrawnInv'
  BY DEF IInv, WithdrawnInv, TypeOK

\* A step that leaves capabilities and reservations alone.
LEMMA CapsStay ==
    ASSUME IInv, UNCHANGED <<caps, hold, withdrawn>>, used'.consumes = used.consumes
    PROVE  UsesAccounted' /\ WithdrawnInv'
<1>1. UsesAccounted'
  BY NoUseMoves
<1>2. WithdrawnInv'
  BY DEF IInv, WithdrawnInv
<1> QED
  BY <1>1, <1>2

\* commit_reserved_use, seen from the operation and from the capabilities.
LEMMA CommitRow ==
    ASSUME TypeOK, NEW o \in Ops, CommitHolds(o)
    PROVE  /\ \A c \in Caps :
                hold'[o][c] = IF hold[o][c] = "reserved" THEN "committed" ELSE hold[o][c]
           /\ \A u \in Ops : u # o => hold'[u] = hold[u]
  BY DEF TypeOK, CommitHolds

\* A commit moves no use, and revives nothing.
LEMMA CommitCaps ==
    ASSUME IInv, NEW o \in Ops, CommitHolds(o), UNCHANGED <<caps, withdrawn>>,
           used'.consumes = used.consumes
    PROVE  UsesAccounted' /\ WithdrawnInv'
<1>1. /\ \A c \in Caps :
           hold'[o][c] = IF hold[o][c] = "reserved" THEN "committed" ELSE hold[o][c]
      /\ \A u \in Ops : u # o => hold'[u] = hold[u]
  BY CommitRow DEF IInv
<1>2. UsesAccounted'
  BY <1>1, NoUseMoves
<1>3. WithdrawnInv'
  BY <1>1, NothingRevived
<1> QED
  BY <1>2, <1>3

\* restore_reserved_use, seen from the operation and from the capabilities.
LEMMA RestoreRow ==
    ASSUME TypeOK, NEW o \in Ops, RestoreHolds(o)
    PROVE  /\ \A c \in Caps : hold[o][c] # "reserved" => hold'[o][c] = hold[o][c]
           /\ \A c \in Caps : hold[o][c] = "reserved" =>
                hold'[o][c] = IF c \in Restored(o) THEN "restored" ELSE "invalidated"
           /\ \A u \in Ops : u # o => hold'[u] = hold[u]
           /\ \A c \in Caps : c \in Restored(o) => caps'[c].uses = caps[c].uses + 1
           /\ \A c \in Caps : c \notin Restored(o) => caps'[c] = caps[c]
  BY DEF TypeOK, RestoreHolds, RestoreUse

\* A restore gives back the uses that the operation had, and revives nothing withdrawn.
LEMMA RestoreCaps ==
    ASSUME IInv, NEW o \in Ops, RestoreHolds(o), withdrawn' = withdrawn,
           used'.consumes = used.consumes
    PROVE  UsesAccounted' /\ WithdrawnInv'
<1>1. /\ \A c \in Caps : hold[o][c] # "reserved" => hold'[o][c] = hold[o][c]
      /\ \A c \in Caps : hold[o][c] = "reserved" =>
           hold'[o][c] = IF c \in Restored(o) THEN "restored" ELSE "invalidated"
      /\ \A u \in Ops : u # o => hold'[u] = hold[u]
      /\ \A c \in Caps : c \in Restored(o) => caps'[c].uses = caps[c].uses + 1
      /\ \A c \in Caps : c \notin Restored(o) => caps'[c] = caps[c]
  BY RestoreRow DEF IInv
<1>2. ASSUME NEW c \in Caps
      PROVE  caps'[c].uses + used'.consumes[c]
               + Cardinality({u \in Ops : hold'[u][c] \notin {"none", "restored"}}) = Uses
  <2>0. /\ caps[c].uses \in Nat /\ used.consumes[c] \in Nat
        /\ caps[c].uses + used.consumes[c] + Cardinality(Spent(c)) = Uses
    BY DEF IInv, TypeOK, CapRows, UsesAccounted
  <2>1. CASE c \in Restored(o)
    <3>1. hold[o][c] = "reserved"
      BY <2>1 DEF Restored
    <3>2. /\ {u \in Ops : hold'[u][c] \notin {"none", "restored"}} = Spent(c) \ {o}
          /\ o \in Spent(c)
      BY <1>1, <2>1, <3>1 DEF Spent
    <3>3. Cardinality(Spent(c) \ {o}) = Cardinality(Spent(c)) - 1 /\ Cardinality(Spent(c)) \in Nat
      BY <3>2, SpentFinite, FS_RemoveElement
    <3>4. caps'[c].uses = caps[c].uses + 1
      BY <1>1, <2>1
    <3> QED
      <4>1. PICK k \in Nat : k = Cardinality(Spent(c))
        BY <3>3
      <4>2. PICK j \in Nat : j = used.consumes[c] /\ used'.consumes[c] = j
        BY <2>0
      <4>3. PICK n \in Nat : n = caps[c].uses
        BY <2>0
      <4>4. n + j + k = Uses
        BY <2>0, <4>1, <4>2, <4>3
      <4>5. n + 1 + j + (k - 1) = Uses
        BY <4>4, OperationAssumption
      <4> QED
        BY <3>2, <3>3, <3>4, <4>1, <4>2, <4>3, <4>5
  <2>2. CASE c \notin Restored(o)
    <3>1. {u \in Ops : hold'[u][c] \notin {"none", "restored"}} = Spent(c)
      BY <1>1, <2>2 DEF Spent
    <3> QED
      BY <1>1, <2>0, <2>2, <3>1
  <2> QED
    BY <2>1, <2>2
<1>3. UsesAccounted'
  BY <1>2 DEF UsesAccounted, Spent
<1>4. WithdrawnInv'
  BY <1>1, NothingRevived DEF Restored
<1> QED
  BY <1>3, <1>4

\* The transaction of __enter__ takes one use of each capability.
LEMMA PrepareCaps ==
    ASSUME IInv, NEW o \in Ops, Prepare(o)
    PROVE  UsesAccounted' /\ WithdrawnInv'
<1>0. /\ \A c \in Caps : hold[o][c] = "none"
      /\ \A c \in CapsOf[o] : c \in Caps /\ caps[c].status = "active" /\ caps[c].uses >= 1
      /\ \A c \in Caps : caps[c] \in CapRows
  BY OperationAssumption DEF IInv, OpInv, IdleHasNothing, Prepare, At, CanSpend, TypeOK
<1>1. /\ \A c \in Caps : hold'[o][c] = IF c \in CapsOf[o] THEN "reserved" ELSE "none"
      /\ \A u \in Ops : u # o => hold'[u] = hold[u]
      /\ \A c \in CapsOf[o] : caps'[c].uses = caps[c].uses - 1
      /\ \A c \in Caps \ CapsOf[o] : caps'[c] = caps[c]
      /\ withdrawn' = withdrawn /\ used' = used
  BY <1>0 DEF Prepare, IInv, TypeOK, SpendUse
<1>2. ASSUME NEW c \in Caps
      PROVE  caps'[c].uses + used'.consumes[c]
               + Cardinality({u \in Ops : hold'[u][c] \notin {"none", "restored"}}) = Uses
  <2>0. /\ caps[c].uses \in Nat /\ used.consumes[c] \in Nat
        /\ caps[c].uses + used.consumes[c] + Cardinality(Spent(c)) = Uses
    BY DEF IInv, TypeOK, CapRows, UsesAccounted
  <2>1. CASE c \in CapsOf[o]
    <3>1. /\ {u \in Ops : hold'[u][c] \notin {"none", "restored"}} = Spent(c) \cup {o}
          /\ o \notin Spent(c)
      BY <1>0, <1>1, <2>1 DEF Spent
    <3>2. /\ Cardinality(Spent(c) \cup {o}) = Cardinality(Spent(c)) + 1
          /\ Cardinality(Spent(c)) \in Nat
      BY <3>1, SpentFinite, FS_AddElement
    <3>3. caps'[c].uses = caps[c].uses - 1
      BY <1>1, <2>1
    <3> QED
      <4>1. PICK k \in Nat : k = Cardinality(Spent(c))
        BY <3>2
      <4>2. PICK j \in Nat : j = used.consumes[c] /\ used'.consumes[c] = j
        BY <1>1, <2>0
      <4>3. PICK n \in Nat : n = caps[c].uses
        BY <2>0
      <4>4. n + j + k = Uses
        BY <2>0, <4>1, <4>2, <4>3
      <4>5. (n - 1) + j + (k + 1) = Uses
        BY <4>4, OperationAssumption
      <4> QED
        BY <3>1, <3>2, <3>3, <4>1, <4>2, <4>3, <4>5
  <2>2. CASE c \notin CapsOf[o]
    <3>1. {u \in Ops : hold'[u][c] \notin {"none", "restored"}} = Spent(c)
      BY <1>0, <1>1, <2>2 DEF Spent
    <3> QED
      BY <1>1, <2>0, <2>2, <3>1
  <2> QED
    BY <2>1, <2>2
<1>3. UsesAccounted'
  BY <1>2 DEF UsesAccounted, Spent
<1>4. \A c \in Caps : caps'[c].status = "active" => caps[c].status = "active"
  BY <1>0, <1>1
<1>5. WithdrawnInv'
  BY <1>0, <1>1, <1>4, NothingRevived
<1> QED
  BY <1>3, <1>5

-------------------------------------------------------------------------------
(* Types *)

OpPoints == {"idle", "ready", "calling", "commit", "settle", "charge", "done", "lost"}
Counters ==
    [consumes : [Caps -> Nat], revokes : Nat, sweeps : Nat, faults : Nat, crashes : Nat]

\* The object of an operation, after a step, is one.
LEMMA OpTypes ==
    ASSUME NEW s \in OpStates, NEW p \in OpPoints
    PROVE  /\ [s EXCEPT !.pc = p] \in OpStates
           /\ \A ph \in Phases :
                [[[[s EXCEPT !.pc = p] EXCEPT !.phase = ph] EXCEPT !.phases = s.phases + 1]
                   EXCEPT !.dispatched = TRUE] \in OpStates
           /\ \A b \in BOOLEAN : [[s EXCEPT !.pc = p] EXCEPT !.counted = b] \in OpStates
           /\ [[s EXCEPT !.pc = p] EXCEPT !.committed = TRUE] \in OpStates
           /\ [[s EXCEPT !.pc = p] EXCEPT !.outcome = "committed"] \in OpStates
           /\ \A m \in SUBSET SettledUsages :
                [[s EXCEPT !.pc = p] EXCEPT !.charges = m] \in OpStates
<1>1. [s EXCEPT !.pc = p] \in OpStates
  BY DEF OpStates, OpPoints
<1>2. PICK q \in OpStates : q = [s EXCEPT !.pc = p] /\ q.phases = s.phases
  BY <1>1 DEF OpStates
<1>3. \A b \in BOOLEAN : [q EXCEPT !.counted = b] \in OpStates
  BY DEF OpStates
<1>4. [q EXCEPT !.committed = TRUE] \in OpStates /\ [q EXCEPT !.outcome = "committed"] \in OpStates
  BY DEF OpStates
<1>5. \A m \in SUBSET SettledUsages : [q EXCEPT !.charges = m] \in OpStates
  BY DEF OpStates
<1>6. ASSUME NEW ph \in Phases
      PROVE  [[[q EXCEPT !.phase = ph] EXCEPT !.phases = s.phases + 1] EXCEPT !.dispatched = TRUE]
               \in OpStates
  <2>1. PICK q1 \in OpStates : q1 = [q EXCEPT !.phase = ph]
    BY DEF OpStates
  <2>2. s.phases + 1 \in Nat
    BY DEF OpStates
  <2>3. PICK q2 \in OpStates : q2 = [q1 EXCEPT !.phases = s.phases + 1]
    BY <2>2 DEF OpStates
  <2>4. [q2 EXCEPT !.dispatched = TRUE] \in OpStates
    BY DEF OpStates
  <2> QED
    BY <2>1, <2>3, <2>4
<1> QED
  BY <1>1, <1>2, <1>3, <1>4, <1>5, <1>6

\* A move in memory keeps the types.
LEMMA GotoType ==
    ASSUME TypeOK, NEW o \in Ops, NEW p \in OpPoints, Goto(o, p)
    PROVE  op' \in [Ops -> OpStates]
<1>1. op[o] \in OpStates /\ op \in [Ops -> OpStates]
  BY DEF TypeOK
<1>2. [op[o] EXCEPT !.pc = p] \in OpStates
  BY <1>1, OpTypes
<1> QED
  BY <1>1, <1>2 DEF Goto

\* An object in memory that is replaced by another.
LEMMA OpSet ==
    ASSUME TypeOK, NEW o \in Ops, NEW s \in OpStates, op' = [op EXCEPT ![o] = s]
    PROVE  op' \in [Ops -> OpStates]
  BY DEF TypeOK

\* Counters stay counters.
LEMMA CounterTypes ==
    ASSUME TypeOK
    PROVE  /\ used \in Counters /\ [used EXCEPT !.faults = @ + 1] \in Counters
           /\ [used EXCEPT !.revokes = @ + 1] \in Counters
           /\ [used EXCEPT !.sweeps = @ + 1] \in Counters
           /\ [used EXCEPT !.crashes = @ + 1] \in Counters
           /\ \A c \in Caps : [used EXCEPT !.consumes[c] = @ + 1] \in Counters
<1>1. used \in Counters
  BY DEF TypeOK, Counters
<1>2. ASSUME NEW c \in Caps
      PROVE  [used EXCEPT !.consumes[c] = @ + 1] \in Counters
  <2>1. [used.consumes EXCEPT ![c] = used.consumes[c] + 1] \in [Caps -> Nat]
    BY <1>1 DEF Counters
  <2> QED
    BY <1>1, <2>1 DEF Counters
<1>3. /\ [used EXCEPT !.faults = @ + 1] \in Counters
      /\ [used EXCEPT !.revokes = @ + 1] \in Counters
  BY <1>1 DEF Counters
<1>4. /\ [used EXCEPT !.sweeps = @ + 1] \in Counters
      /\ [used EXCEPT !.crashes = @ + 1] \in Counters
  BY <1>1 DEF Counters
<1> QED
  BY <1>1, <1>2, <1>3, <1>4

\* The row of an effect, after a step, is one.
LEMMA EffectTypes ==
    ASSUME TypeOK, NEW o \in Ops,
           NEW s \in {"prepared", "dispatched", "unknown", "committed", "failed", "compensated"}
    PROVE  /\ [effect EXCEPT ![o].state = s] \in [Ops -> Effects]
           /\ [effect EXCEPT ![o].state = s, ![o].final = TRUE] \in [Ops -> Effects]
           /\ [effect EXCEPT ![o] = NoEffect] \in [Ops -> Effects]
           /\ \A b \in BOOLEAN : [effect EXCEPT ![o].marked = b] \in [Ops -> Effects]
<1>1. effect[o] \in Effects /\ effect \in [Ops -> Effects] /\ NoEffect \in Effects
  BY DEF TypeOK, Effects, NoEffect
<1>2. /\ [effect[o] EXCEPT !.state = s] \in Effects
      /\ [[effect[o] EXCEPT !.state = s] EXCEPT !.final = TRUE] \in Effects
      /\ \A b \in BOOLEAN : [effect[o] EXCEPT !.marked = b] \in Effects
  BY <1>1 DEF Effects
<1> QED
  BY <1>1, <1>2

\* The capabilities and reservations, after a commit, a restore and a spent use.
LEMMA HoldTypes ==
    ASSUME TypeOK, NEW o \in Ops
    PROVE  /\ CommitHolds(o) => hold' \in [Ops -> [Caps -> Holds]]
           /\ RestoreHolds(o) => hold' \in [Ops -> [Caps -> Holds]] /\ caps' \in [Caps -> CapRows]
<1>1. \A c \in Caps : hold[o][c] \in Holds
  BY DEF TypeOK
<1>2. [c \in Caps |-> IF hold[o][c] = "reserved" THEN "committed" ELSE hold[o][c]]
        \in [Caps -> Holds]
  BY <1>1 DEF Holds, SettledHolds
<1>3. [c \in Caps |-> IF hold[o][c] # "reserved" THEN hold[o][c]
                      ELSE IF c \in Restored(o) THEN "restored" ELSE "invalidated"]
        \in [Caps -> Holds]
  BY <1>1 DEF Holds, SettledHolds
<1>4. CommitHolds(o) => hold' \in [Ops -> [Caps -> Holds]]
  BY <1>2 DEF TypeOK, CommitHolds
<1>5. RestoreHolds(o) => hold' \in [Ops -> [Caps -> Holds]]
  BY <1>3 DEF TypeOK, RestoreHolds
<1>6. \A c \in Caps : RestoreUse(caps[c]) \in CapRows /\ caps[c] \in CapRows
  BY DEF TypeOK, CapRows, RestoreUse
<1>7. RestoreHolds(o) => caps' \in [Caps -> CapRows]
  BY <1>6 DEF RestoreHolds
<1> QED
  BY <1>4, <1>5, <1>7

\* A use can only be spent where there is one.
LEMMA SpendType ==
    ASSUME NEW row \in CapRows, CanSpend(row)
    PROVE  SpendUse(row) \in CapRows
  BY DEF CapRows, CanSpend, SpendUse

-------------------------------------------------------------------------------
(* The actions *)

\* An operation that was not started gives its authority and its usage back.
LEMMA AbortStep ==
    ASSUME IInv, TypeOK', NEW o \in Ops, mode = "open" /\ op[o].pc \in {"ready", "calling"},
           ~world[o].touched /\ ~op[o].counted, Abort(o)
    PROVE  IInv'
<1>0. TypeOK /\ OpInv(o) /\ CapsOf[o] \subseteq Caps
  BY OperationAssumption DEF IInv
<1>1. /\ OpGoes(o, "done") /\ effect'[o] = NoEffect
      /\ \A u \in Ops : u # o =>
           effect'[u] = effect[u] /\ usage'[u] = usage[u] /\ hold'[u] = hold[u]
      /\ \A c \in Caps : hold[o][c] = "none" => hold'[o][c] = "none"
      /\ UNCHANGED <<world, withdrawn, mode, swept>>
      /\ used' = used
  <2>1. OpGoes(o, "done")
    BY <1>0 DEF Abort, Goto, OpGoes, TypeOK, OpStates
  <2>2. /\ effect'[o] = NoEffect
        /\ \A u \in Ops : u # o => effect'[u] = effect[u] /\ usage'[u] = usage[u]
    BY <1>0 DEF Abort, TypeOK
  <2>3. /\ \A u \in Ops : u # o => hold'[u] = hold[u]
        /\ \A c \in Caps : hold[o][c] = "none" => hold'[o][c] = "none"
    BY <1>0, RestoreRow DEF Abort
  <2> QED
    BY <2>1, <2>2, <2>3 DEF Abort
<1>2. Elsewhere(o)
  BY <1>1 DEF Elsewhere, LeftAlone, OpGoes
<1>3. UsesAccounted' /\ WithdrawnInv'
  BY <1>0, <1>1, RestoreCaps DEF Abort
<1>4. SweepStarts'
  BY <1>1 DEF IInv, SweepStarts
<1> USE DEF OpInv, OpGoes, UnderWay
<1>5. IdleHasNothing(o)'
  BY <1>0, <1>1 DEF IdleHasNothing
<1>6. DispatchRecorded(o)'
  BY <1>0, <1>1 DEF DispatchRecorded, NoEffect
<1>7. TouchIsKnown(o)'
  BY <1>0, <1>1 DEF TouchIsKnown
<1>8. UsageKept(o)'
  BY <1>0, <1>1 DEF UsageKept, NoEffect
<1>9. HoldsKept(o)'
  BY <1>0, <1>1 DEF HoldsKept
<1>10. Discharged(o)'
  BY <1>0, <1>1 DEF Discharged
<1> QED
  BY <1>2, <1>3, <1>4, <1>5, <1>6, <1>7, <1>8, <1>9, <1>10, OneOp

\* The abort failed: the outcome of what was dispatched is unknown, the rest waits for a
\* startup.
LEMMA AbortFailsStep ==
    ASSUME IInv, TypeOK', NEW o \in Ops, mode = "open" /\ op[o].pc \in {"ready", "calling"},
           AbortFails(o)
    PROVE  IInv'
<1>0. TypeOK /\ OpInv(o) /\ CapsOf[o] \subseteq Caps
  BY OperationAssumption DEF IInv
<1>1. /\ OpGoes(o, IF op[o].dispatched THEN "settle" ELSE "done")
      /\ UNCHANGED <<caps, hold, effect, usage, world, withdrawn, mode, swept>>
      /\ used'.consumes = used.consumes
  BY <1>0 DEF AbortFails, Goto, Fault, OpGoes, TypeOK, OpStates
<1>2. Elsewhere(o)
  BY <1>1 DEF Elsewhere, LeftAlone, OpGoes
<1>3. UsesAccounted' /\ WithdrawnInv'
  BY <1>0, <1>1, CapsStay
<1>4. SweepStarts'
  BY <1>1 DEF IInv, SweepStarts
<1> USE DEF OpInv, OpGoes, UnderWay
<1>5. IdleHasNothing(o)'
  BY <1>0, <1>1 DEF IdleHasNothing
<1>6. DispatchRecorded(o)'
  BY <1>0, <1>1 DEF DispatchRecorded
<1>7. TouchIsKnown(o)'
  BY <1>0, <1>1 DEF TouchIsKnown
<1>8. UsageKept(o)'
  BY <1>0, <1>1 DEF UsageKept
<1>9. HoldsKept(o)'
  BY <1>0, <1>1 DEF HoldsKept
<1>10. Discharged(o)'
  BY <1>0, <1>1 DEF Discharged
<1> QED
  BY <1>2, <1>3, <1>4, <1>5, <1>6, <1>7, <1>8, <1>9, <1>10, OneOp

\* Authority, effect intent and usage are reserved together.
LEMMA PrepareStep ==
    ASSUME IInv, TypeOK', NEW o \in Ops, Prepare(o)
    PROVE  IInv'
<1>0. TypeOK /\ OpInv(o) /\ CapsOf[o] \subseteq Caps
  BY OperationAssumption DEF IInv
<1>1. /\ OpGoes(o, "ready") /\ op[o].pc = "idle" /\ mode = "open" /\ effect[o] = NoEffect
      /\ effect'[o].state = "prepared" /\ effect'[o].final = FALSE /\ effect'[o].marked = FALSE
      /\ usage'[o] = IF o \in Metered THEN "active" ELSE "none"
      /\ \A c \in Caps : hold'[o][c] = IF c \in CapsOf[o] THEN "reserved" ELSE "none"
      /\ \A u \in Ops : u # o =>
           effect'[u] = effect[u] /\ usage'[u] = usage[u] /\ hold'[u] = hold[u]
      /\ UNCHANGED <<world, withdrawn, mode, swept>>
  <2>1. op[o].pc = "idle" /\ mode = "open" /\ effect[o] = NoEffect
    BY <1>0 DEF Prepare, At, Open, OpInv, IdleHasNothing
  <2>2. OpGoes(o, "ready")
    BY <1>0 DEF Prepare, Goto, OpGoes, TypeOK, OpStates
  <2>3. /\ effect'[o].state = "prepared" /\ effect'[o].final = FALSE
        /\ effect'[o].marked = FALSE /\ \A u \in Ops : u # o => effect'[u] = effect[u]
    BY <1>0, <2>1 DEF Prepare, TypeOK, Effects, NoEffect
  <2>4. /\ usage'[o] = IF o \in Metered THEN "active" ELSE "none"
        /\ \A u \in Ops : u # o => usage'[u] = usage[u]
    BY <1>0 DEF Prepare, TypeOK
  <2>5. /\ \A c \in Caps : hold'[o][c] = IF c \in CapsOf[o] THEN "reserved" ELSE "none"
        /\ \A u \in Ops : u # o => hold'[u] = hold[u]
    BY <1>0 DEF Prepare, TypeOK
  <2> QED
    BY <2>1, <2>2, <2>3, <2>4, <2>5 DEF Prepare
<1>2. Elsewhere(o)
  BY <1>1 DEF Elsewhere, LeftAlone, OpGoes
<1>3. UsesAccounted' /\ WithdrawnInv'
  BY <1>0, <1>1, PrepareCaps
<1>4. SweepStarts'
  BY <1>1 DEF IInv, SweepStarts
<1> USE DEF OpInv, OpGoes, UnderWay
<1>5. IdleHasNothing(o)'
  BY <1>0, <1>1 DEF IdleHasNothing
<1>6. DispatchRecorded(o)'
  BY <1>0, <1>1 DEF DispatchRecorded, NoEffect, IdleHasNothing
<1>7. TouchIsKnown(o)'
  BY <1>0, <1>1 DEF TouchIsKnown, IdleHasNothing
<1>8. UsageKept(o)'
  BY <1>0, <1>1 DEF UsageKept, IdleHasNothing
<1>9. HoldsKept(o)'
  BY <1>0, <1>1 DEF HoldsKept, IdleHasNothing
<1>10. Discharged(o)'
  BY <1>0, <1>1 DEF Discharged
<1> QED
  BY <1>2, <1>3, <1>4, <1>5, <1>6, <1>7, <1>8, <1>9, <1>10, OneOp

\* The effect is dispatched, and the provider called.
LEMMA DispatchStep ==
    ASSUME IInv, TypeOK', NEW o \in Ops, NEW ph \in Phases, Dispatch(o, ph)
    PROVE  IInv'
<1>0. TypeOK /\ OpInv(o) /\ CapsOf[o] \subseteq Caps
  BY OperationAssumption DEF IInv
<1>1. /\ op[o].pc = "ready" /\ mode = "open"
      /\ op'[o].pc = "calling" /\ op'[o].phase = ph /\ op'[o].dispatched = TRUE
      /\ op'[o].counted = op[o].counted /\ op'[o].charges = op[o].charges
      /\ effect'[o].state = "dispatched" /\ effect'[o].final = effect[o].final
      /\ effect'[o].marked = effect[o].marked
      /\ world'[o].touched = world[o].touched /\ world'[o].acted = FALSE
      /\ effect[o].state \in {"prepared", "dispatched"}
      /\ \A u \in Ops : u # o => op'[u] = op[u] /\ effect'[u] = effect[u] /\ world'[u] = world[u]
      /\ UNCHANGED <<caps, hold, usage, withdrawn, mode, swept>>
      /\ used' = used
  BY <1>0 DEF Dispatch, At, Open, TypeOK, OpStates, Effects
<1>2. Elsewhere(o)
  BY <1>1 DEF Elsewhere, LeftAlone, OpGoes
<1>3. UsesAccounted' /\ WithdrawnInv'
  BY <1>0, <1>1, CapsStay
<1>4. SweepStarts'
  BY <1>1 DEF IInv, SweepStarts
<1> USE DEF OpInv, OpGoes, UnderWay
<1>5. IdleHasNothing(o)'
  BY <1>0, <1>1 DEF IdleHasNothing
<1>6. DispatchRecorded(o)'
  BY <1>0, <1>1 DEF DispatchRecorded
<1>7. TouchIsKnown(o)'
  BY <1>0, <1>1 DEF TouchIsKnown, DispatchRecorded
<1>8. UsageKept(o)'
  BY <1>0, <1>1 DEF UsageKept
<1>9. HoldsKept(o)'
  BY <1>0, <1>1 DEF HoldsKept
<1>10. Discharged(o)'
  BY <1>0, <1>1 DEF Discharged
<1> QED
  BY <1>2, <1>3, <1>4, <1>5, <1>6, <1>7, <1>8, <1>9, <1>10, OneOp

\* An operation that cannot go on is recorded as a failure.
LEMMA SettlesStep ==
    ASSUME IInv, TypeOK', NEW o \in Ops,
           mode = "open" /\ op[o].pc = "ready" /\ op[o].dispatched, Goto(o, "settle"),
           UNCHANGED <<caps, hold, effect, usage, world, withdrawn, mode, swept, used>>
    PROVE  IInv'
<1>0. TypeOK /\ OpInv(o) /\ CapsOf[o] \subseteq Caps
  BY OperationAssumption DEF IInv
<1>1. /\ OpGoes(o, "settle")
      /\ UNCHANGED <<caps, hold, effect, usage, world, withdrawn, mode, swept>>
      /\ used' = used
  <2>1. OpGoes(o, "settle")
    BY <1>0, GotoGoes
  <2> QED
    BY <2>1
<1>2. Elsewhere(o)
  BY <1>1 DEF Elsewhere, LeftAlone, OpGoes
<1>3. UsesAccounted' /\ WithdrawnInv'
  BY <1>0, <1>1, CapsStay
<1>4. SweepStarts'
  BY <1>1 DEF IInv, SweepStarts
<1> USE DEF OpInv, OpGoes, UnderWay
<1>5. IdleHasNothing(o)'
  BY <1>0, <1>1 DEF IdleHasNothing
<1>6. DispatchRecorded(o)'
  BY <1>0, <1>1 DEF DispatchRecorded
<1>7. TouchIsKnown(o)'
  BY <1>0, <1>1 DEF TouchIsKnown
<1>8. UsageKept(o)'
  BY <1>0, <1>1 DEF UsageKept
<1>9. HoldsKept(o)'
  BY <1>0, <1>1 DEF HoldsKept
<1>10. Discharged(o)'
  BY <1>0, <1>1 DEF Discharged
<1> QED
  BY <1>2, <1>3, <1>4, <1>5, <1>6, <1>7, <1>8, <1>9, <1>10, OneOp

\* The provider changes, or reads, the world.
LEMMA ProviderActsStep ==
    ASSUME IInv, TypeOK', NEW o \in Ops, ProviderActs(o)
    PROVE  IInv'
<1>0. TypeOK /\ OpInv(o) /\ CapsOf[o] \subseteq Caps
  BY OperationAssumption DEF IInv
<1>1. /\ op[o].pc = "calling" /\ mode = "open" /\ op[o].phase.touches
      /\ world'[o].touched = TRUE /\ world'[o].acted = TRUE
      /\ \A u \in Ops : u # o => world'[u] = world[u]
      /\ UNCHANGED <<caps, hold, effect, usage, op, withdrawn, mode, swept>>
      /\ used' = used
  BY <1>0 DEF ProviderActs, At, Open, TypeOK
<1>2. Elsewhere(o)
  BY <1>1 DEF Elsewhere, LeftAlone, OpGoes
<1>3. UsesAccounted' /\ WithdrawnInv'
  BY <1>0, <1>1, CapsStay
<1>4. SweepStarts'
  BY <1>1 DEF IInv, SweepStarts
<1> USE DEF OpInv, OpGoes, UnderWay
<1>5. IdleHasNothing(o)'
  BY <1>0, <1>1 DEF IdleHasNothing
<1>6. DispatchRecorded(o)'
  BY <1>0, <1>1 DEF DispatchRecorded
<1>7. TouchIsKnown(o)'
  BY <1>0, <1>1 DEF TouchIsKnown, DispatchRecorded
<1>8. UsageKept(o)'
  BY <1>0, <1>1 DEF UsageKept, DispatchRecorded
<1>9. HoldsKept(o)'
  BY <1>0, <1>1 DEF HoldsKept
<1>10. Discharged(o)'
  BY <1>0, <1>1 DEF Discharged
<1> QED
  BY <1>2, <1>3, <1>4, <1>5, <1>6, <1>7, <1>8, <1>9, <1>10, OneOp

\* The call returns, and the phase is recorded.
LEMMA PhaseReturnsStep ==
    ASSUME IInv, TypeOK', NEW o \in Ops, PhaseReturns(o)
    PROVE  IInv'
<1>0. TypeOK /\ OpInv(o) /\ CapsOf[o] \subseteq Caps
  BY OperationAssumption DEF IInv
<1>1. /\ op[o].pc = "calling" /\ mode = "open"
      /\ op'[o].pc \in {"commit", "ready"} /\ op'[o].phase = op[o].phase
      /\ op'[o].counted <=> (op[o].counted \/ op[o].phase.touches \/ op[o].phase.commits)
      /\ op'[o].dispatched = op[o].dispatched /\ op'[o].charges = op[o].charges
      /\ effect'[o].state = effect[o].state /\ effect'[o].final = effect[o].final
      /\ effect'[o].marked <=> (effect[o].marked \/ op[o].phase.touches \/ op[o].phase.commits)
      /\ \A u \in Ops : u # o => op'[u] = op[u] /\ effect'[u] = effect[u]
      /\ UNCHANGED <<caps, hold, usage, world, withdrawn, mode, swept>>
      /\ used' = used
  BY <1>0 DEF PhaseReturns, At, Open, Counts, TypeOK, OpStates, Effects
<1>2. Elsewhere(o)
  BY <1>1 DEF Elsewhere, LeftAlone, OpGoes
<1>3. UsesAccounted' /\ WithdrawnInv'
  BY <1>0, <1>1, CapsStay
<1>4. SweepStarts'
  BY <1>1 DEF IInv, SweepStarts
<1> USE DEF OpInv, OpGoes, UnderWay
<1>5. IdleHasNothing(o)'
  BY <1>0, <1>1 DEF IdleHasNothing
<1>6. DispatchRecorded(o)'
  BY <1>0, <1>1 DEF DispatchRecorded
<1>7. TouchIsKnown(o)'
  BY <1>0, <1>1 DEF TouchIsKnown
<1>8. UsageKept(o)'
  BY <1>0, <1>1 DEF UsageKept
<1>9. HoldsKept(o)'
  BY <1>0, <1>1 DEF HoldsKept
<1>10. Discharged(o)'
  BY <1>0, <1>1 DEF Discharged
<1> QED
  BY <1>2, <1>3, <1>4, <1>5, <1>6, <1>7, <1>8, <1>9, <1>10, OneOp

\* The reserved uses are committed, or their commit fails, and the operation goes on or
\* is settled.
LEMMA CommitsStep ==
    ASSUME IInv, TypeOK', NEW o \in Ops, mode = "open" /\ op[o].pc \in {"calling", "commit"},
           NEW p \in {"ready", "settle"}, p = "ready" => op[o].pc = "commit", OpGoes(o, p),
           \/ CommitHolds(o) /\ UNCHANGED used
           \/ UNCHANGED hold /\ Fault,
           UNCHANGED <<caps, effect, usage, world, withdrawn, mode, swept>>
    PROVE  IInv'
<1>0. TypeOK /\ OpInv(o) /\ CapsOf[o] \subseteq Caps
  BY OperationAssumption DEF IInv
<1>1. /\ OpGoes(o, p) /\ p \in UnderWay
      /\ \A c \in Caps : \/ hold'[o][c] = hold[o][c]
                         \/ hold[o][c] = "reserved" /\ hold'[o][c] = "committed"
      /\ \A u \in Ops : u # o => hold'[u] = hold[u]
      /\ UNCHANGED <<caps, effect, usage, world, withdrawn, mode, swept>>
      /\ used'.consumes = used.consumes
  <2>1. used'.consumes = used.consumes
    BY <1>0 DEF Fault, TypeOK
  <2>2. /\ \A c \in Caps : \/ hold'[o][c] = hold[o][c]
                           \/ hold[o][c] = "reserved" /\ hold'[o][c] = "committed"
        /\ \A u \in Ops : u # o => hold'[u] = hold[u]
    <3>1. CASE CommitHolds(o)
      BY <1>0, <3>1, CommitRow
    <3>2. CASE UNCHANGED hold
      BY <3>2
    <3> QED
      BY <3>1, <3>2
  <2> QED
    BY <2>1, <2>2 DEF UnderWay
<1>2. Elsewhere(o)
  BY <1>1 DEF Elsewhere, LeftAlone, OpGoes
<1>3. UsesAccounted' /\ WithdrawnInv'
  BY <1>0, <1>1, CommitCaps, CapsStay DEF Fault, TypeOK
<1>4. SweepStarts'
  BY <1>1 DEF IInv, SweepStarts
<1> USE DEF OpInv, OpGoes, UnderWay
<1>5. IdleHasNothing(o)'
  BY <1>0, <1>1 DEF IdleHasNothing
<1>6. DispatchRecorded(o)'
  BY <1>0, <1>1 DEF DispatchRecorded
<1>7. TouchIsKnown(o)'
  BY <1>0, <1>1 DEF TouchIsKnown
<1>8. UsageKept(o)'
  BY <1>0, <1>1 DEF UsageKept
<1>9. HoldsKept(o)'
  BY <1>0, <1>1 DEF HoldsKept
<1>10. Discharged(o)'
  BY <1>0, <1>1 DEF Discharged
<1> QED
  BY <1>2, <1>3, <1>4, <1>5, <1>6, <1>7, <1>8, <1>9, <1>10, OneOp

\* The failure is recorded, or its pending row is the evidence.
LEMMA SettleFailureStep ==
    ASSUME IInv, TypeOK', NEW o \in Ops, SettleFailure(o)
    PROVE  IInv'
<1>0. TypeOK /\ OpInv(o) /\ CapsOf[o] \subseteq Caps
  BY OperationAssumption DEF IInv
<1>1. /\ op[o].pc = "settle" /\ mode = "open"
      /\ op'[o].pc \in {"charge", "done"} /\ op'[o].counted = op[o].counted
      /\ op'[o].dispatched = op[o].dispatched
      /\ \/ op'[o].charges = op[o].charges
         \/ op'[o].charges = {"settled", "charged_maximum"}
      /\ effect'[o].marked = effect[o].marked
      /\ \/ effect'[o].state \in {"unknown", "committed"}
         \/ effect'[o].state = effect[o].state /\ effect'[o].final = effect[o].final
      /\ \A u \in Ops : u # o => op'[u] = op[u] /\ effect'[u] = effect[u]
      /\ UNCHANGED <<caps, hold, usage, world, withdrawn, mode, swept>>
      /\ used'.consumes = used.consumes
  BY <1>0 DEF SettleFailure, At, Open, Goto, Finalize, Fault, TypeOK, OpStates, Effects
<1>2. Elsewhere(o)
  BY <1>1 DEF Elsewhere, LeftAlone, OpGoes
<1>3. UsesAccounted' /\ WithdrawnInv'
  BY <1>0, <1>1, CapsStay
<1>4. SweepStarts'
  BY <1>1 DEF IInv, SweepStarts
<1> USE DEF OpInv, OpGoes, UnderWay
<1>5. IdleHasNothing(o)'
  BY <1>0, <1>1 DEF IdleHasNothing
<1>6. DispatchRecorded(o)'
  BY <1>0, <1>1 DEF DispatchRecorded
<1>7. TouchIsKnown(o)'
  BY <1>0, <1>1 DEF TouchIsKnown
<1>8. UsageKept(o)'
  BY <1>0, <1>1 DEF UsageKept, DispatchRecorded
<1>9. HoldsKept(o)'
  BY <1>0, <1>1 DEF HoldsKept
<1>10. Discharged(o)'
  BY <1>0, <1>1 DEF Discharged
<1> QED
  BY <1>2, <1>3, <1>4, <1>5, <1>6, <1>7, <1>8, <1>9, <1>10, OneOp

\* The outcome is recorded, or the pending row is the evidence.
LEMMA CompleteStep ==
    ASSUME IInv, TypeOK', NEW o \in Ops, NEW state \in {"committed", "failed", "unknown"},
           Complete(o, state)
    PROVE  IInv'
<1>0. TypeOK /\ OpInv(o) /\ CapsOf[o] \subseteq Caps
  BY OperationAssumption DEF IInv
<1>1. /\ op[o].pc = "ready" /\ mode = "open" /\ op[o].dispatched
      /\ op'[o].pc = "charge" /\ op'[o].counted = op[o].counted
      /\ op'[o].dispatched = op[o].dispatched
      /\ \/ op'[o].charges = {"charged_maximum"}
         \/ op'[o].charges = {"settled", "charged_maximum"}
      /\ effect'[o].marked = effect[o].marked
      /\ \/ effect'[o].state \in {"committed", "failed", "unknown"}
         \/ effect'[o].state = effect[o].state /\ effect'[o].final = effect[o].final
      /\ \A u \in Ops : u # o => op'[u] = op[u] /\ effect'[u] = effect[u]
      /\ UNCHANGED <<caps, hold, usage, world, withdrawn, mode, swept>>
      /\ used'.consumes = used.consumes
  <2>1. /\ op[o].pc = "ready" /\ mode = "open" /\ op[o].dispatched
        /\ UNCHANGED <<caps, hold, usage, world, withdrawn, mode, swept>>
    BY DEF Complete, At, Open
  <2>2. /\ op'[o].pc = "charge" /\ op'[o].counted = op[o].counted
        /\ op'[o].dispatched = op[o].dispatched
        /\ \/ op'[o].charges = {"charged_maximum"}
           \/ op'[o].charges = {"settled", "charged_maximum"}
        /\ \A u \in Ops : u # o => op'[u] = op[u]
    <3>1. CASE op' = [op EXCEPT ![o].pc = "charge", ![o].charges = {"charged_maximum"}]
      BY <1>0, <3>1 DEF TypeOK, OpStates
    <3>2. CASE op' = [op EXCEPT ![o].pc = "charge",
                                ![o].charges = {"settled", "charged_maximum"}]
      BY <1>0, <3>2 DEF TypeOK, OpStates
    <3> QED
      BY <3>1, <3>2 DEF Complete
  <2>3. /\ effect'[o].marked = effect[o].marked
        /\ \/ effect'[o].state \in {"committed", "failed", "unknown"}
           \/ effect'[o].state = effect[o].state /\ effect'[o].final = effect[o].final
        /\ \A u \in Ops : u # o => effect'[u] = effect[u]
    BY <1>0 DEF Complete, Finalize, TypeOK, Effects
  <2>4. used'.consumes = used.consumes
    BY <1>0 DEF Complete, Fault, TypeOK
  <2> QED
    BY <2>1, <2>2, <2>3, <2>4
<1>2. Elsewhere(o)
  BY <1>1 DEF Elsewhere, LeftAlone, OpGoes
<1>3. UsesAccounted' /\ WithdrawnInv'
  BY <1>0, <1>1, CapsStay
<1>4. SweepStarts'
  BY <1>1 DEF IInv, SweepStarts
<1> USE DEF OpInv, OpGoes, UnderWay
<1>5. IdleHasNothing(o)'
  BY <1>0, <1>1 DEF IdleHasNothing
<1>6. DispatchRecorded(o)'
  BY <1>0, <1>1 DEF DispatchRecorded
<1>7. TouchIsKnown(o)'
  BY <1>0, <1>1 DEF TouchIsKnown
<1>8. UsageKept(o)'
  BY <1>0, <1>1 DEF UsageKept, DispatchRecorded
<1>9. HoldsKept(o)'
  BY <1>0, <1>1 DEF HoldsKept
<1>10. Discharged(o)'
  BY <1>0, <1>1 DEF Discharged
<1> QED
  BY <1>2, <1>3, <1>4, <1>5, <1>6, <1>7, <1>8, <1>9, <1>10, OneOp

\* The usage is charged, or stays reserved.
LEMMA ChargeStep ==
    ASSUME IInv, TypeOK', NEW o \in Ops, Charge(o)
    PROVE  IInv'
<1>0. TypeOK /\ OpInv(o) /\ CapsOf[o] \subseteq Caps
  BY OperationAssumption DEF IInv
<1>1. /\ op[o].pc = "charge" /\ mode = "open" /\ OpGoes(o, "done")
      /\ usage'[o] = usage[o] \/ usage'[o] \in op[o].charges
      /\ \A u \in Ops : u # o => usage'[u] = usage[u]
      /\ UNCHANGED <<caps, hold, effect, world, withdrawn, mode, swept>>
      /\ used'.consumes = used.consumes
  BY <1>0 DEF Charge, At, Open, Goto, OpGoes, Fault, TypeOK, OpStates
<1>2. Elsewhere(o)
  BY <1>1 DEF Elsewhere, LeftAlone, OpGoes
<1>3. UsesAccounted' /\ WithdrawnInv'
  BY <1>0, <1>1, CapsStay
<1>4. SweepStarts'
  BY <1>1 DEF IInv, SweepStarts
<1> USE DEF OpInv, OpGoes, UnderWay
<1>5. IdleHasNothing(o)'
  BY <1>0, <1>1 DEF IdleHasNothing
<1>6. DispatchRecorded(o)'
  BY <1>0, <1>1 DEF DispatchRecorded
<1>7. TouchIsKnown(o)'
  BY <1>0, <1>1 DEF TouchIsKnown
<1>8. UsageKept(o)'
  BY <1>0, <1>1 DEF UsageKept
<1>9. HoldsKept(o)'
  BY <1>0, <1>1 DEF HoldsKept
<1>10. Discharged(o)'
  BY <1>0, <1>1 DEF Discharged
<1> QED
  BY <1>2, <1>3, <1>4, <1>5, <1>6, <1>7, <1>8, <1>9, <1>10, OneOp

\* Nobody can tell what became of the effect.
LEMMA ReconcileUnknownStep ==
    ASSUME IInv, TypeOK', NEW o \in Ops, ReconcileUnknown(o)
    PROVE  IInv'
<1>0. TypeOK /\ OpInv(o) /\ CapsOf[o] \subseteq Caps
  BY OperationAssumption DEF IInv
<1>1. /\ mode = "effects"
      /\ effect[o].state \in {"dispatched", "unknown"} /\ ~effect[o].final
      /\ effect'[o].state = "unknown" /\ effect'[o].final = effect[o].final
      /\ effect'[o].marked = effect[o].marked
      /\ swept' = swept \cup {o}
      /\ \A u \in Ops : u # o => effect'[u] = effect[u]
      /\ UNCHANGED <<caps, hold, usage, op, world, withdrawn, mode>>
      /\ used' = used
  BY <1>0 DEF ReconcileUnknown, Pending, TypeOK, Effects
<1>2. Elsewhere(o)
  BY <1>1 DEF Elsewhere, LeftAlone, OpGoes
<1>3. UsesAccounted' /\ WithdrawnInv'
  BY <1>0, <1>1, CapsStay
<1>4. SweepStarts'
  BY <1>1 DEF IInv, SweepStarts
<1> USE DEF OpInv, OpGoes, UnderWay
<1>5. IdleHasNothing(o)'
  BY <1>0, <1>1 DEF IdleHasNothing, NoEffect
<1>6. DispatchRecorded(o)'
  BY <1>0, <1>1 DEF DispatchRecorded, Discharged
<1>7. TouchIsKnown(o)'
  BY <1>0, <1>1 DEF TouchIsKnown
<1>8. UsageKept(o)'
  BY <1>0, <1>1 DEF UsageKept
<1>9. HoldsKept(o)'
  BY <1>0, <1>1 DEF HoldsKept
<1>10. Discharged(o)'
  BY <1>0, <1>1 DEF Discharged
<1> QED
  BY <1>2, <1>3, <1>4, <1>5, <1>6, <1>7, <1>8, <1>9, <1>10, OneOp

\* What a lost operation has reserved is abandoned.
LEMMA AbandonStaleStep ==
    ASSUME IInv, TypeOK', NEW o \in Ops, AbandonStale(o)
    PROVE  IInv'
<1>0. TypeOK /\ OpInv(o) /\ CapsOf[o] \subseteq Caps
  BY OperationAssumption DEF IInv
<1>1. /\ mode = "reservations"
      /\ \A c \in Caps : hold'[o][c] = IF hold[o][c] = "reserved" THEN "abandoned" ELSE hold[o][c]
      /\ \A u \in Ops : u # o => hold'[u] = hold[u]
      /\ UNCHANGED <<caps, effect, usage, op, world, withdrawn, mode, swept>>
      /\ used' = used
  BY <1>0 DEF AbandonStale, Stale, TypeOK
<1>2. Elsewhere(o)
  BY <1>1 DEF Elsewhere, LeftAlone, OpGoes
<1>3. UsesAccounted' /\ WithdrawnInv'
  <2>1. UsesAccounted'
    BY <1>1, NoUseMoves
  <2>2. WithdrawnInv'
    BY <1>1, NothingRevived
  <2> QED
    BY <2>1, <2>2
<1>4. SweepStarts'
  BY <1>1 DEF IInv, SweepStarts
<1> USE DEF OpInv, OpGoes, UnderWay
<1>5. IdleHasNothing(o)'
  BY <1>0, <1>1 DEF IdleHasNothing
<1>6. DispatchRecorded(o)'
  BY <1>0, <1>1 DEF DispatchRecorded
<1>7. TouchIsKnown(o)'
  BY <1>0, <1>1 DEF TouchIsKnown
<1>8. UsageKept(o)'
  BY <1>0, <1>1 DEF UsageKept
<1>9. HoldsKept(o)'
  BY <1>0, <1>1 DEF HoldsKept, Discharged
<1>10. Discharged(o)'
  BY <1>0, <1>1 DEF Discharged
<1> QED
  BY <1>2, <1>3, <1>4, <1>5, <1>6, <1>7, <1>8, <1>9, <1>10, OneOp

\* The usage of a lost operation is released only if nothing was dispatched.
LEMMA RecoverUsageStep ==
    ASSUME IInv, TypeOK', NEW o \in Ops, RecoverUsage(o)
    PROVE  IInv'
<1>0. TypeOK /\ OpInv(o) /\ CapsOf[o] \subseteq Caps
  BY OperationAssumption DEF IInv
<1>1. /\ mode = "usage" /\ usage[o] = "active"
      /\ usage'[o] = IF effect[o].state \in {"none", "prepared"} THEN "released"
                     ELSE "charged_maximum"
      /\ \A u \in Ops : u # o => usage'[u] = usage[u]
      /\ UNCHANGED <<caps, hold, effect, op, world, withdrawn, mode, swept>>
      /\ used' = used
  BY <1>0 DEF RecoverUsage, Undispatched, TypeOK
<1>2. Elsewhere(o)
  BY <1>1 DEF Elsewhere, LeftAlone, OpGoes
<1>3. UsesAccounted' /\ WithdrawnInv'
  BY <1>0, <1>1, CapsStay
<1>4. SweepStarts'
  BY <1>1 DEF IInv, SweepStarts
<1> USE DEF OpInv, OpGoes, UnderWay
<1>5. IdleHasNothing(o)'
  BY <1>0, <1>1 DEF IdleHasNothing
<1>6. DispatchRecorded(o)'
  BY <1>0, <1>1 DEF DispatchRecorded
<1>7. TouchIsKnown(o)'
  BY <1>0, <1>1 DEF TouchIsKnown
<1>8. UsageKept(o)'
  BY <1>0, <1>1 DEF UsageKept, TouchIsKnown, Discharged
<1>9. HoldsKept(o)'
  BY <1>0, <1>1 DEF HoldsKept
<1>10. Discharged(o)'
  BY <1>0, <1>1 DEF Discharged
<1> QED
  BY <1>2, <1>3, <1>4, <1>5, <1>6, <1>7, <1>8, <1>9, <1>10, OneOp

\* What was not started gives its authority back, at a startup or by a receipt.
LEMMA RestoresStep ==
    ASSUME IInv, TypeOK', NEW o \in Ops, op[o].pc \in {"done", "lost"} /\ ~world[o].touched,
           RestoreHolds(o),
           \/ effect'[o] = NoEffect
           \/ /\ effect'[o].state = "failed" /\ effect'[o].marked = effect[o].marked
              /\ effect[o].state # "none",
           usage'[o] = usage[o] \/ (usage[o] = "active" /\ usage'[o] = "released"),
           \A u \in Ops : u # o => effect'[u] = effect[u] /\ usage'[u] = usage[u],
           ~op[o].counted \/ effect'[o] # NoEffect, swept' \subseteq swept \cup {o},
           UNCHANGED <<op, world, withdrawn, mode, used>>,
           mode = "prepared" => UNCHANGED swept
    PROVE  IInv'
<1>0. TypeOK /\ OpInv(o) /\ CapsOf[o] \subseteq Caps
  BY OperationAssumption DEF IInv
<1>1. /\ \A c \in Caps : hold'[o][c] \in {hold[o][c], "restored", "invalidated"}
      /\ \A c \in Caps : hold[o][c] = "none" => hold'[o][c] = "none"
      /\ \A u \in Ops : u # o => hold'[u] = hold[u]
      /\ used'.consumes = used.consumes
  BY <1>0, RestoreRow
<1>2. Elsewhere(o)
  BY <1>1 DEF Elsewhere, LeftAlone, OpGoes
<1>3. UsesAccounted' /\ WithdrawnInv'
  BY <1>0, <1>1, RestoreCaps
<1>4. SweepStarts'
  BY <1>1 DEF IInv, SweepStarts
<1> USE DEF OpInv, OpGoes, UnderWay
<1>5. IdleHasNothing(o)'
  BY <1>0, <1>1 DEF IdleHasNothing
<1>6. DispatchRecorded(o)'
  BY <1>0, <1>1 DEF DispatchRecorded, NoEffect
<1>7. TouchIsKnown(o)'
  BY <1>0, <1>1 DEF TouchIsKnown
<1>8. UsageKept(o)'
  BY <1>0, <1>1 DEF UsageKept, NoEffect
<1>9. HoldsKept(o)'
  BY <1>0, <1>1 DEF HoldsKept
<1>10. Discharged(o)'
  BY <1>0, <1>1 DEF Discharged, NoEffect
<1> QED
  BY <1>2, <1>3, <1>4, <1>5, <1>6, <1>7, <1>8, <1>9, <1>10, OneOp

\* A receipt of what was started commits the authority.
LEMMA CommitsReceiptStep ==
    ASSUME IInv, TypeOK', NEW o \in Ops, op[o].pc \in {"done", "lost"}, CommitHolds(o),
           effect[o].state # "none",
           effect'[o].state \in {"committed", "failed", "compensated"},
           effect'[o].marked = effect[o].marked,
           \A u \in Ops : u # o => effect'[u] = effect[u], swept' \subseteq swept \cup {o},
           mode # "prepared" \/ UNCHANGED swept,
           UNCHANGED <<caps, usage, op, world, withdrawn, mode, used>>
    PROVE  IInv'
<1>0. TypeOK /\ OpInv(o) /\ CapsOf[o] \subseteq Caps
  BY OperationAssumption DEF IInv
<1>1. /\ \A c \in Caps : \/ hold'[o][c] = hold[o][c]
                         \/ hold[o][c] = "reserved" /\ hold'[o][c] = "committed"
      /\ \A u \in Ops : u # o => hold'[u] = hold[u]
      /\ used'.consumes = used.consumes
  <2>1. /\ \A c \in Caps :
             hold'[o][c] = IF hold[o][c] = "reserved" THEN "committed" ELSE hold[o][c]
        /\ \A u \in Ops : u # o => hold'[u] = hold[u]
    BY <1>0, CommitRow
  <2> QED
    BY <2>1
<1>2. Elsewhere(o)
  BY <1>1 DEF Elsewhere, LeftAlone, OpGoes
<1>3. UsesAccounted' /\ WithdrawnInv'
  BY <1>0, <1>1, CommitCaps
<1>4. SweepStarts'
  BY <1>1 DEF IInv, SweepStarts
<1> USE DEF OpInv, OpGoes, UnderWay
<1>5. IdleHasNothing(o)'
  BY <1>0, <1>1 DEF IdleHasNothing
<1>6. DispatchRecorded(o)'
  BY <1>0, <1>1 DEF DispatchRecorded
<1>7. TouchIsKnown(o)'
  BY <1>0, <1>1 DEF TouchIsKnown
<1>8. UsageKept(o)'
  BY <1>0, <1>1 DEF UsageKept
<1>9. HoldsKept(o)'
  BY <1>0, <1>1 DEF HoldsKept
<1>10. Discharged(o)'
  BY <1>0, <1>1 DEF Discharged
<1> QED
  BY <1>2, <1>3, <1>4, <1>5, <1>6, <1>7, <1>8, <1>9, <1>10, OneOp

\* Aborting an operation that may be aborted, whether or not that succeeds.
LEMMA MayAbort ==
    ASSUME IInv, TypeOK', NEW o \in Ops, mode = "open" /\ op[o].pc \in {"ready", "calling"},
           ~world[o].touched /\ ~op[o].counted, Abort(o) \/ AbortFails(o)
    PROVE  IInv'
  BY AbortStep, AbortFailsStep

\* Between two phases the operation knows from memory whether anything happened.
LEMMA RejectDispatchStep ==
    ASSUME IInv, TypeOK', NEW o \in Ops, RejectDispatch(o)
    PROVE  IInv'
<1>0. OpInv(o) /\ mode = "open" /\ op[o].pc = "ready"
  BY DEF IInv, RejectDispatch, At, Open
<1>1. CASE ~op[o].counted
  <2>1. ~world[o].touched
    BY <1>0, <1>1 DEF OpInv, TouchIsKnown
  <2>2. Abort(o) \/ AbortFails(o)
    BY <1>1 DEF RejectDispatch, NothingDone
  <2> QED
    BY <1>0, <1>1, <2>1, <2>2, MayAbort
<1>2. CASE op[o].counted
  <2>1. op[o].dispatched
    BY <1>0, <1>2 DEF OpInv, DispatchRecorded
  <2>2. /\ Goto(o, "settle")
        /\ UNCHANGED <<caps, hold, effect, usage, world, withdrawn, mode, swept, used>>
    BY <1>2 DEF RejectDispatch, NothingDone
  <2> QED
    BY <1>0, <2>1, <2>2, SettlesStep
<1> QED
  BY <1>1, <1>2

\* Nothing happens before the first dispatch.
LEMMA ExitStep ==
    ASSUME IInv, TypeOK', NEW o \in Ops, Exit(o)
    PROVE  IInv'
<1>0. OpInv(o) /\ mode = "open" /\ op[o].pc = "ready"
  BY DEF IInv, Exit, At, Open
<1>1. CASE ~op[o].dispatched
  <2>1. ~op[o].counted
    BY <1>0, <1>1 DEF OpInv, DispatchRecorded
  <2>2. ~world[o].touched
    BY <1>0, <2>1 DEF OpInv, TouchIsKnown
  <2>3. Abort(o) \/ AbortFails(o)
    BY <1>1 DEF Exit
  <2> QED
    BY <1>0, <2>1, <2>2, <2>3, MayAbort
<1>2. CASE op[o].dispatched
  <2>1. /\ Goto(o, "settle")
        /\ UNCHANGED <<caps, hold, effect, usage, world, withdrawn, mode, swept, used>>
    BY <1>2 DEF Exit
  <2> QED
    BY <1>0, <1>2, <2>1, SettlesStep
<1> QED
  BY <1>1, <1>2

\* Within a phase the provider vouches for that phase, and memory for those before it.
LEMMA NotStartedStep ==
    ASSUME IInv, TypeOK', NEW o \in Ops, NotStarted(o)
    PROVE  IInv'
<1>0. TypeOK /\ OpInv(o) /\ mode = "open" /\ op[o].pc = "calling" /\ ~world[o].acted
  BY DEF IInv, NotStarted, At, Open
<1>1. CASE ~op[o].counted
  <2>1. ~world[o].touched
    BY <1>0, <1>1 DEF OpInv, TouchIsKnown
  <2>2. Abort(o) \/ AbortFails(o)
    BY <1>1 DEF NotStarted, NothingDone
  <2> QED
    BY <1>0, <1>1, <2>1, <2>2, MayAbort
<1>2. CASE op[o].counted
  <2>1. /\ CommitBestEffort(o)
        /\ op' = [op EXCEPT ![o].pc = "settle", ![o].outcome = "committed"]
        /\ UNCHANGED <<caps, effect, usage, world, withdrawn, mode, swept>>
    BY <1>2 DEF NotStarted, NothingDone
  <2>2. OpGoes(o, "settle")
    BY <1>0, <2>1 DEF TypeOK, OpStates, OpGoes
  <2>3. \/ CommitHolds(o) /\ UNCHANGED used
        \/ UNCHANGED hold /\ Fault
    BY <2>1 DEF CommitBestEffort
  <2> QED
    BY <1>0, <2>1, <2>2, <2>3, CommitsStep
<1> QED
  BY <1>1, <1>2

\* A call that raises commits what it can, and is settled as unknown.
LEMMA PhaseRaisesStep ==
    ASSUME IInv, TypeOK', NEW o \in Ops, PhaseRaises(o)
    PROVE  IInv'
<1>0. TypeOK /\ mode = "open" /\ op[o].pc = "calling" /\ Goto(o, "settle")
  BY DEF IInv, PhaseRaises, At, Open
<1>1. OpGoes(o, "settle")
  BY <1>0, GotoGoes
<1>2. /\ \/ CommitHolds(o) /\ UNCHANGED used
         \/ UNCHANGED hold /\ Fault
      /\ UNCHANGED <<caps, effect, usage, world, withdrawn, mode, swept>>
  BY DEF PhaseRaises, CommitBestEffort
<1> QED
  BY <1>0, <1>1, <1>2, CommitsStep

\* After a phase that commits, the reserved uses are committed or the operation is settled.
LEMMA CommitReservationsStep ==
    ASSUME IInv, TypeOK', NEW o \in Ops, CommitReservations(o)
    PROVE  IInv'
<1>0. /\ TypeOK /\ mode = "open" /\ op[o].pc = "commit"
      /\ UNCHANGED <<caps, effect, usage, world, withdrawn, mode, swept>>
  BY DEF IInv, CommitReservations, At, Open
<1>1. CASE /\ CommitHolds(o) /\ UNCHANGED used
           /\ op' = [op EXCEPT ![o].pc = "ready", ![o].committed = TRUE]
  <2>1. OpGoes(o, "ready")
    BY <1>0, <1>1 DEF TypeOK, OpStates, OpGoes
  <2> QED
    BY <1>0, <1>1, <2>1, CommitsStep
<1>2. CASE Fault /\ Goto(o, "settle") /\ UNCHANGED hold
  <2>1. OpGoes(o, "settle")
    BY <1>0, <1>2, GotoGoes
  <2> QED
    BY <1>0, <1>2, <2>1, CommitsStep
<1> QED
  BY <1>1, <1>2 DEF CommitReservations

-------------------------------------------------------------------------------
(* Receipts and recovery *)

\* A receipt, of a Host or of a startup: what the provider and the row together rule out is
\* given back.
LEMMA ReceiptStep ==
    ASSUME IInv, TypeOK', NEW o \in Ops, NEW answer \in Answers, Pending(o),
           op[o].pc \in {"done", "lost"}, Truthful(o, answer), CanSettle(o, answer),
           SettleReceipt(o, answer), mode # "prepared", swept' \subseteq swept \cup {o},
           UNCHANGED <<op, world, withdrawn, mode, used>>
    PROVE  IInv'
<1>0. /\ TypeOK /\ OpInv(o) /\ effect[o].state \in {"dispatched", "unknown"}
      /\ Finalize(o, SettledState(answer))
  BY DEF IInv, Pending, SettleReceipt
<1>1. /\ effect'[o].state = SettledState(answer) /\ effect'[o].marked = effect[o].marked
      /\ \A u \in Ops : u # o => effect'[u] = effect[u]
  BY <1>0 DEF TypeOK, Effects, Finalize
<1>2. CASE answer = "not_started"
  <2>1. ~world[o].acted /\ ~effect[o].marked
    BY <1>2 DEF Truthful, CanSettle, GloballyNotStarted
  <2>2. ~world[o].touched
    BY <1>0, <2>1 DEF OpInv, TouchIsKnown
  <2>3. /\ RestoreHolds(o) /\ effect'[o].state = "failed"
        /\ usage' = [usage EXCEPT ![o] = IF @ = "active" THEN "released" ELSE @]
    BY <1>1, <1>2 DEF SettleReceipt, SettledState
  <2>4. /\ usage'[o] = usage[o] \/ (usage[o] = "active" /\ usage'[o] = "released")
        /\ \A u \in Ops : u # o => usage'[u] = usage[u]
    BY <1>0, <2>3 DEF TypeOK
  <2>5. effect'[o] # NoEffect
    BY <2>3 DEF NoEffect
  <2> QED
    BY <1>0, <1>1, <2>2, <2>3, <2>4, <2>5, RestoresStep
<1>3. CASE answer # "not_started"
  <2>1. /\ CommitHolds(o) /\ UNCHANGED <<caps, usage>>
        /\ effect'[o].state \in {"committed", "failed", "compensated"}
    BY <1>1, <1>3 DEF SettleReceipt, SettledState, Answers
  <2> QED
    BY <1>0, <1>1, <2>1, CommitsReceiptStep
<1> QED
  BY <1>2, <1>3

\* The receipt of a Host.
LEMMA HostReceiptStep ==
    ASSUME IInv, TypeOK', NEW o \in Ops, NEW answer \in Answers, HostReceipt(o, answer)
    PROVE  IInv'
<1>1. /\ Pending(o) /\ op[o].pc \in {"done", "lost"} /\ Truthful(o, answer)
      /\ CanSettle(o, answer) /\ SettleReceipt(o, answer) /\ mode # "prepared"
      /\ swept' \subseteq swept \cup {o} /\ UNCHANGED <<op, world, withdrawn, mode, used>>
  BY DEF HostReceipt, Open
<1> QED
  BY <1>1, ReceiptStep

\* An operation with an effect, in a Runtime that is not open, is one that was lost.
LEMMA ClosedIsLost ==
    ASSUME IInv, NEW o \in Ops, mode # "open", effect[o].state # "none"
    PROVE  op[o].pc = "lost"
  BY DEF IInv, OpInv, Discharged, IdleHasNothing, NoEffect

\* A startup that fails changes nothing but itself.
LEMMA StartupFailsStep ==
    ASSUME IInv, TypeOK', mode \in Stages, StartupFails
    PROVE  IInv'
<1>1. UsesAccounted' /\ WithdrawnInv'
  BY CapsStay DEF StartupFails
<1>2. SweepStarts'
  BY DEF StartupFails, SweepStarts
<1>3. ASSUME NEW o \in Ops
      PROVE  OpInv(o)'
  <2>0. OpInv(o) /\ mode # "open" /\ mode' = "failed"
        /\ UNCHANGED <<caps, hold, effect, usage, op, world, withdrawn, swept, used>>
    BY DEF IInv, StartupFails, Stages
  <2>1. IdleHasNothing(o)' /\ DispatchRecorded(o)' /\ TouchIsKnown(o)'
    BY <2>0 DEF OpInv, IdleHasNothing, DispatchRecorded, TouchIsKnown
  <2>2. UsageKept(o)' /\ HoldsKept(o)' /\ Discharged(o)'
    BY <2>0 DEF OpInv, UsageKept, HoldsKept, Discharged
  <2> QED
    BY <2>1, <2>2 DEF OpInv
<1> QED
  BY <1>1, <1>2, <1>3 DEF IInv

\* A startup asks the provider.
LEMMA ReconcileStep ==
    ASSUME IInv, TypeOK', NEW o \in Ops, NEW answer \in Answers, Reconcile(o, answer)
    PROVE  IInv'
<1>0. mode = "effects" /\ Pending(o) /\ Truthful(o, answer)
  BY DEF Reconcile
<1>1. op[o].pc = "lost"
  BY <1>0, ClosedIsLost DEF Pending
<1>2. CASE CanSettle(o, answer)
  <2>1. /\ SettleReceipt(o, answer) /\ swept' \subseteq swept \cup {o}
        /\ UNCHANGED <<op, world, withdrawn, mode, used>>
    BY <1>2 DEF Reconcile
  <2> QED
    BY <1>0, <1>1, <1>2, <2>1, ReceiptStep
<1>3. CASE ~CanSettle(o, answer)
  BY <1>0, <1>3, StartupFailsStep DEF Reconcile, Stages
<1> QED
  BY <1>2, <1>3

\* An effect that was never dispatched did nothing.
LEMMA RecoverPreparedStep ==
    ASSUME IInv, TypeOK', NEW o \in Ops, RecoverPrepared(o)
    PROVE  IInv'
<1>0. TypeOK /\ OpInv(o) /\ mode = "prepared" /\ effect[o].state = "prepared"
  BY DEF IInv, RecoverPrepared
<1>1. op[o].pc = "lost"
  BY <1>0, ClosedIsLost
<1>2. CASE \A c \in CapsOf[o] : hold[o][c] = "reserved" /\ CanRestore(caps[c])
  <2>1. /\ RestoreHolds(o) /\ effect' = [effect EXCEPT ![o] = NoEffect]
        /\ UNCHANGED <<usage, op, world, withdrawn, mode, swept, used>>
    BY <1>2 DEF RecoverPrepared
  <2>2. effect'[o] = NoEffect /\ \A u \in Ops : u # o => effect'[u] = effect[u]
    BY <1>0, <2>1 DEF TypeOK
  <2>3. ~world[o].touched /\ ~op[o].counted
    BY <1>0, <1>1 DEF OpInv, TouchIsKnown, DispatchRecorded
  <2> QED
    BY <1>1, <2>1, <2>2, <2>3, RestoresStep
<1>3. CASE ~(\A c \in CapsOf[o] : hold[o][c] = "reserved" /\ CanRestore(caps[c]))
  BY <1>0, <1>3, StartupFailsStep DEF RecoverPrepared, Stages
<1> QED
  BY <1>2, <1>3

-------------------------------------------------------------------------------
(* Steps that are about no single operation *)

\* A use that is consumed at once.
LEMMA ConsumeStep ==
    ASSUME IInv, TypeOK', NEW c \in Caps, Consume(c)
    PROVE  IInv'
<1>0. /\ TypeOK /\ caps[c].uses \in Nat /\ caps[c].uses >= 1 /\ caps[c].status = "active"
      /\ used.consumes \in [Caps -> Nat] /\ used.consumes[c] \in Nat
  BY DEF IInv, TypeOK, CapRows, Consume, CanSpend
<1>1. /\ caps'[c].uses = caps[c].uses - 1
      /\ \A d \in Caps : d # c => caps'[d] = caps[d]
      /\ UNCHANGED <<hold, effect, usage, op, world, withdrawn, mode, swept>>
  BY <1>0 DEF Consume, TypeOK, SpendUse
<1>2. /\ used'.consumes[c] = used.consumes[c] + 1
      /\ \A d \in Caps : d # c => used'.consumes[d] = used.consumes[d]
  BY <1>0 DEF Consume, TypeOK
<1>3. ASSUME NEW d \in Caps
      PROVE  caps'[d].uses + used'.consumes[d] + Cardinality(Spent(d)) = Uses
  <2>1. caps[d].uses + used.consumes[d] + Cardinality(Spent(d)) = Uses
    BY DEF IInv, UsesAccounted
  <2>2. CASE d = c
    <3>1. PICK k \in Nat : k = Cardinality(Spent(c))
      BY SpentFinite
    <3>2. PICK n \in Nat : n = caps[c].uses
      BY <1>0
    <3>3. PICK j \in Nat : j = used.consumes[c]
      BY <1>0
    <3>4. n + j + k = Uses
      BY <2>1, <2>2, <3>1, <3>2, <3>3
    <3>5. (n - 1) + (j + 1) + k = Uses
      BY <3>4, OperationAssumption
    <3> QED
      BY <1>1, <1>2, <2>2, <3>1, <3>2, <3>3, <3>5
  <2>3. CASE d # c
    BY <1>1, <1>2, <2>1, <2>3
  <2> QED
    BY <2>2, <2>3
<1>4. UsesAccounted'
  BY <1>1, <1>3 DEF UsesAccounted, Spent
<1>5. WithdrawnInv'
  BY <1>0, <1>1, NothingRevived
<1>6. SweepStarts'
  BY <1>1 DEF IInv, SweepStarts
<1>7. \A u \in Ops : LeftAlone(u)
  BY <1>1 DEF LeftAlone
<1> QED
  BY <1>1, <1>4, <1>5, <1>6, <1>7, LeftAloneKeeps, OperationAssumption DEF IInv

\* A revocation takes every reservation of the capability with it.
LEMMA RevokeStep ==
    ASSUME IInv, TypeOK', NEW c \in Caps, NEW status \in {"revoked", "disabled"},
           Revoke(c, status)
    PROVE  IInv'
<1>0. TypeOK
  BY DEF IInv
<1>1. /\ caps'[c].status = status /\ caps'[c].uses = caps[c].uses
      /\ \A d \in Caps : d # c => caps'[d] = caps[d]
  BY <1>0 DEF Revoke, Withdraw, TypeOK, CapRows
<1>2. \A o \in Ops, d \in Caps :
        hold'[o][d] = IF d = c /\ hold[o][d] = "reserved" THEN "invalidated" ELSE hold[o][d]
  BY <1>0 DEF Revoke, Withdraw, TypeOK
<1>3. /\ UNCHANGED <<effect, usage, op, world, mode, swept>>
      /\ used'.consumes = used.consumes /\ withdrawn' = withdrawn \cup {c}
  BY <1>0 DEF Revoke, Withdraw, TypeOK
<1>4. UsesAccounted'
  BY <1>1, <1>2, <1>3, NoUseMoves
<1>5. WithdrawnInv'
  <2>1. withdrawn \subseteq Caps
    BY <1>0 DEF TypeOK
  <2> QED
    BY <1>1, <1>2, <1>3, <2>1 DEF IInv, WithdrawnInv
<1>6. SweepStarts'
  BY <1>3 DEF IInv, SweepStarts
<1>7. \A u \in Ops : LeftAlone(u)
  BY <1>2, <1>3 DEF LeftAlone
<1> QED
  BY <1>3, <1>4, <1>5, <1>6, <1>7, LeftAloneKeeps, OperationAssumption DEF IInv

\* The revocation of a resource moves no use, and takes the reservations of what it has
\* revoked with it.
LEMMA RevokeResourceStep ==
    ASSUME IInv, TypeOK', RevokeResource
    PROVE  IInv'
<1>0. TypeOK
  BY DEF IInv
<1>1. \A c \in Caps : caps'[c].uses = caps[c].uses
  BY <1>0 DEF RevokeResource, TypeOK, CapRows
<1>2. \A o \in Ops, c \in Caps :
        \/ hold'[o][c] = hold[o][c]
        \/ hold[o][c] = "reserved" /\ hold'[o][c] = "invalidated"
  BY <1>0 DEF RevokeResource, TypeOK
<1>3. /\ UNCHANGED <<effect, usage, op, world, mode, swept>>
      /\ used'.consumes = used.consumes
  BY <1>0 DEF RevokeResource, TypeOK
<1>4. UsesAccounted'
  BY <1>1, <1>2, <1>3, NoUseMoves
<1>5. /\ withdrawn' \subseteq Caps
      /\ \A c \in withdrawn' : c \in withdrawn \/ caps[c].status = "active"
      /\ \A c \in Caps : caps[c].status = "active" =>
           caps'[c].status = "revoked" /\ \A o \in Ops : hold'[o][c] # "reserved"
      /\ \A c \in Caps : caps[c].status # "active" => caps'[c] = caps[c]
  BY <1>0 DEF RevokeResource, TypeOK, CapRows
<1>6. WithdrawnInv' /\ SweepStarts'
  <2>1. \A c \in withdrawn :
          caps[c].status # "active" /\ \A o \in Ops : hold[o][c] # "reserved"
    BY DEF IInv, WithdrawnInv
  <2>2. ASSUME NEW c \in withdrawn'
        PROVE  caps'[c].status # "active" /\ \A o \in Ops : hold'[o][c] # "reserved"
    <3>1. CASE caps[c].status = "active"
      BY <1>5, <3>1
    <3>2. CASE caps[c].status # "active"
      <4>1. c \in withdrawn /\ c \in Caps /\ caps'[c] = caps[c]
        BY <1>5, <3>2
      <4> QED
        BY <1>2, <2>1, <3>2, <4>1
    <3> QED
      BY <3>1, <3>2
  <2> QED
    BY <1>3, <2>2 DEF IInv, WithdrawnInv, SweepStarts
<1>7. \A u \in Ops : LeftAlone(u)
  BY <1>2, <1>3 DEF LeftAlone
<1> QED
  BY <1>3, <1>4, <1>6, <1>7, LeftAloneKeeps, OperationAssumption DEF IInv

\* A crash loses the objects in memory, and what they knew.
LEMMA CrashStep ==
    ASSUME IInv, TypeOK', Crash
    PROVE  IInv'
<1>0. /\ UNCHANGED <<caps, hold, effect, usage, world, withdrawn>>
      /\ mode' = "prepared" /\ swept' = {} /\ used'.consumes = used.consumes
  BY DEF IInv, TypeOK, Crash
<1>1. UsesAccounted' /\ WithdrawnInv'
  BY <1>0, CapsStay
<1>2. SweepStarts'
  BY <1>0 DEF SweepStarts
<1>3. ASSUME NEW o \in Ops
      PROVE  OpInv(o)'
  <2>0. OpInv(o) /\ op[o] \in OpStates
    BY DEF IInv, TypeOK
  <2>1. CASE op[o].pc = "idle"
    <3>1. op'[o] = op[o]
      BY <2>1 DEF Crash
    <3>2. IdleHasNothing(o)' /\ DispatchRecorded(o)' /\ TouchIsKnown(o)'
      BY <1>0, <2>0, <3>1 DEF OpInv, IdleHasNothing, DispatchRecorded, TouchIsKnown
    <3>3. UsageKept(o)' /\ HoldsKept(o)' /\ Discharged(o)'
      BY <1>0, <2>0, <2>1, <3>1 DEF OpInv, UsageKept, HoldsKept, Discharged
    <3> QED
      BY <3>2, <3>3 DEF OpInv
  <2>2. CASE op[o].pc # "idle"
    <3>1. op'[o].pc = "lost" /\ ~op'[o].counted /\ op'[o].charges = {}
      BY <2>2 DEF Crash, IdleOp
    <3>2. IdleHasNothing(o)' /\ DispatchRecorded(o)' /\ TouchIsKnown(o)'
      BY <1>0, <2>0, <3>1 DEF OpInv, IdleHasNothing, DispatchRecorded, TouchIsKnown, UnderWay
    <3>3. UsageKept(o)' /\ HoldsKept(o)' /\ Discharged(o)'
      BY <1>0, <2>0, <3>1 DEF OpInv, UsageKept, HoldsKept, Discharged, UnderWay
    <3> QED
      BY <3>2, <3>3 DEF OpInv
  <2> QED
    BY <2>1, <2>2
<1> QED
  BY <1>1, <1>2, <1>3 DEF IInv

\* What only the stage of the startup changes.
LEMMA ModeStep ==
    ASSUME IInv, TypeOK', SweepStarts', \A o \in Ops : Discharged(o)',
           UNCHANGED <<caps, hold, effect, usage, op, world, withdrawn, used>>
    PROVE  IInv'
<1>1. UsesAccounted' /\ WithdrawnInv'
  BY CapsStay
<1>2. ASSUME NEW o \in Ops
      PROVE  OpInv(o)'
  <2>0. OpInv(o)
    BY DEF IInv
  <2>1. IdleHasNothing(o)' /\ DispatchRecorded(o)' /\ TouchIsKnown(o)'
    BY <2>0 DEF OpInv, IdleHasNothing, DispatchRecorded, TouchIsKnown
  <2>2. UsageKept(o)' /\ HoldsKept(o)'
    BY <2>0 DEF OpInv, UsageKept, HoldsKept
  <2> QED
    BY <2>1, <2>2 DEF OpInv
<1> QED
  BY <1>1, <1>2 DEF IInv

\* The Host starts a Runtime again.
LEMMA RestartStep ==
    ASSUME IInv, TypeOK', Restart
    PROVE  IInv'
<1>1. /\ mode = "failed" /\ mode' = "prepared" /\ swept' = {}
      /\ UNCHANGED <<caps, hold, effect, usage, op, world, withdrawn, used>>
  BY DEF Restart
<1>2. \A o \in Ops : Discharged(o)'
  BY <1>1 DEF IInv, OpInv, Discharged
<1> QED
  BY <1>1, <1>2, ModeStep DEF SweepStarts

\* A stage of the startup is over when it has discharged every operation that was lost.
LEMMA NextStageStep ==
    ASSUME IInv, TypeOK', NextStage
    PROVE  IInv'
<1>1. /\ UNCHANGED <<caps, hold, effect, usage, op, world, withdrawn, swept, used>>
      /\ \/ /\ mode = "prepared" /\ mode' = "effects"
            /\ \A o \in Ops : effect[o].state # "prepared"
         \/ /\ mode = "effects" /\ mode' = "reservations"
            /\ \A o \in Ops : Pending(o) => o \in swept
         \/ /\ mode = "reservations" /\ mode' = "usage"
            /\ \A o \in Ops, c \in Caps : hold[o][c] # "reserved"
         \/ /\ mode = "usage" /\ mode' = "open"
            /\ \A o \in Ops : usage[o] # "active"
  <2>1. /\ StageAfter["prepared"] = "effects" /\ StageAfter["effects"] = "reservations"
        /\ StageAfter["reservations"] = "usage" /\ StageAfter["usage"] = "open"
    BY DEF StageAfter
  <2>2. mode \in Stages /\ mode' = StageAfter[mode] /\ StageDone
    BY DEF NextStage
  <2>3. /\ mode = "prepared" => \A o \in Ops : effect[o].state # "prepared"
        /\ mode = "effects" => \A o \in Ops : Pending(o) => o \in swept
        /\ mode = "reservations" => \A o \in Ops, c \in Caps : hold[o][c] # "reserved"
        /\ mode = "usage" => \A o \in Ops : usage[o] # "active"
    BY <2>2 DEF StageDone, Stale
  <2> QED
    BY <2>1, <2>2, <2>3 DEF NextStage, Stages
<1>2. SweepStarts /\ SweepStarts'
  BY <1>1 DEF IInv, SweepStarts
<1>3. ASSUME NEW o \in Ops
      PROVE  Discharged(o)'
  <2>0. OpInv(o)
    BY DEF IInv
  <2>1. mode = "prepared" => swept = {}
    BY <1>2 DEF SweepStarts
  <2>2. mode = "effects" => effect[o].state # "dispatched" \/ o \in swept
    BY <1>1, <2>0 DEF OpInv, DispatchRecorded, Pending
  <2> QED
    BY <1>1, <2>0, <2>1, <2>2 DEF OpInv, Discharged
<1> QED
  BY <1>1, <1>2, <1>3, ModeStep

-------------------------------------------------------------------------------
(* Every step keeps the types *)

\* The usage record of an operation, after a step.
LEMMA UsageType ==
    ASSUME TypeOK, NEW o \in Ops, NEW u \in Usages
    PROVE  /\ [usage EXCEPT ![o] = u] \in [Ops -> Usages]
           /\ usage' = [usage EXCEPT ![o] = IF @ = "active" THEN u ELSE @]
                => usage' \in [Ops -> Usages]
  BY DEF TypeOK

\* A transaction that fails is counted.
LEMMA FaultType ==
    ASSUME TypeOK, Fault \/ UNCHANGED used
    PROVE  used' \in Counters
  BY CounterTypes DEF Fault

\* _abort_not_started, whether or not its transaction is committed.
LEMMA AbortType ==
    ASSUME TypeOK, NEW o \in Ops, Abort(o) \/ AbortFails(o)
    PROVE  TypeOK'
<1>1. CASE Abort(o)
  <2>1. op' \in [Ops -> OpStates]
    BY <1>1, GotoType DEF Abort, OpPoints
  <2>2. hold' \in [Ops -> [Caps -> Holds]] /\ caps' \in [Caps -> CapRows]
    BY <1>1, HoldTypes DEF Abort
  <2>3. effect' \in [Ops -> Effects]
    BY <1>1, EffectTypes DEF Abort
  <2>4. usage' \in [Ops -> Usages]
    BY <1>1, UsageType DEF Abort, Usages, SettledUsages
  <2> QED
    BY <1>1, <2>1, <2>2, <2>3, <2>4 DEF Abort, TypeOK
<1>2. CASE AbortFails(o)
  <2>1. op' \in [Ops -> OpStates]
    <3>1. PICK p \in OpPoints : Goto(o, p)
      BY <1>2 DEF AbortFails, OpPoints
    <3> QED
      BY <3>1, GotoType
  <2>2. used' \in Counters
    BY <1>2, FaultType DEF AbortFails
  <2> QED
    BY <1>2, <2>1, <2>2 DEF AbortFails, TypeOK, Counters
<1> QED
  BY <1>1, <1>2

\* What goes to the settlement of a failure without writing anything.
LEMMA SettlesType ==
    ASSUME TypeOK, NEW o \in Ops, Goto(o, "settle"),
           UNCHANGED <<caps, hold, effect, usage, world, withdrawn, mode, swept, used>>
    PROVE  TypeOK'
<1>1. op' \in [Ops -> OpStates]
  BY GotoType DEF OpPoints
<1> QED
  BY <1>1 DEF TypeOK

\* The commit of the reservations, best effort.
LEMMA BestEffortType ==
    ASSUME TypeOK, NEW o \in Ops, CommitBestEffort(o)
    PROVE  hold' \in [Ops -> [Caps -> Holds]] /\ used' \in Counters
<1>1. used' \in Counters
  BY FaultType DEF CommitBestEffort
<1>2. hold' \in [Ops -> [Caps -> Holds]]
  BY HoldTypes DEF CommitBestEffort, TypeOK
<1> QED
  BY <1>1, <1>2

\* Authority, effect intent and usage are reserved.
LEMMA PrepareType ==
    ASSUME TypeOK, NEW o \in Ops, Prepare(o)
    PROVE  TypeOK'
<1>1. op' \in [Ops -> OpStates]
  BY GotoType DEF Prepare, OpPoints
<1>2. caps' \in [Caps -> CapRows]
  <2>1. \A c \in Caps : caps[c] \in CapRows
    BY DEF TypeOK
  <2>2. \A c \in Caps : c \in CapsOf[o] => SpendUse(caps[c]) \in CapRows
    BY <2>1, SpendType DEF Prepare
  <2> QED
    BY <2>1, <2>2 DEF Prepare
<1>3. hold' \in [Ops -> [Caps -> Holds]]
  <2>1. [c \in Caps |-> IF c \in CapsOf[o] THEN "reserved" ELSE "none"] \in [Caps -> Holds]
    BY DEF Holds
  <2> QED
    BY <2>1 DEF Prepare, TypeOK
<1>4. effect' \in [Ops -> Effects]
  BY EffectTypes DEF Prepare
<1>5. usage' \in [Ops -> Usages]
  BY DEF Prepare, TypeOK, Usages
<1> QED
  BY <1>1, <1>2, <1>3, <1>4, <1>5 DEF Prepare, TypeOK

\* The dispatch, and the acts of the provider.
LEMMA CallType ==
    ASSUME TypeOK, NEW o \in Ops,
           \/ \E ph \in Phases : Dispatch(o, ph)
           \/ ProviderActs(o) \/ PhaseReturns(o)
    PROVE  TypeOK'
<1>0. op[o] \in OpStates /\ op \in [Ops -> OpStates]
  BY DEF TypeOK
<1>1. ASSUME NEW ph \in Phases, Dispatch(o, ph)
      PROVE  TypeOK'
  <2>1. op' \in [Ops -> OpStates]
    <3>1. [[[[op[o] EXCEPT !.pc = "calling"] EXCEPT !.phase = ph]
             EXCEPT !.phases = op[o].phases + 1] EXCEPT !.dispatched = TRUE] \in OpStates
      BY <1>0, OpTypes DEF OpPoints
    <3>2. op' = [op EXCEPT ![o] = [[[[op[o] EXCEPT !.pc = "calling"] EXCEPT !.phase = ph]
             EXCEPT !.phases = op[o].phases + 1] EXCEPT !.dispatched = TRUE]]
      BY <1>0, <1>1 DEF Dispatch, OpStates
    <3> QED
      BY <3>1, <3>2, OpSet
  <2>2. effect' \in [Ops -> Effects]
    BY <1>1, EffectTypes DEF Dispatch
  <2>3. world' \in [Ops -> [touched : BOOLEAN, acted : BOOLEAN]]
    BY <1>1 DEF Dispatch, TypeOK
  <2> QED
    BY <1>1, <2>1, <2>2, <2>3 DEF Dispatch, TypeOK
<1>2. CASE ProviderActs(o)
  <2>1. world' \in [Ops -> [touched : BOOLEAN, acted : BOOLEAN]]
    BY <1>2 DEF ProviderActs, TypeOK
  <2> QED
    BY <1>2, <2>1 DEF ProviderActs, TypeOK
<1>3. CASE PhaseReturns(o)
  <2>1. op' \in [Ops -> OpStates]
    <3>1. PICK p \in OpPoints : p = IF op[o].phase.commits THEN "commit" ELSE "ready"
      BY DEF OpPoints
    <3>2. PICK b \in BOOLEAN : b = (op[o].counted \/ Counts(op[o].phase))
      OBVIOUS
    <3>3. [[op[o] EXCEPT !.pc = p] EXCEPT !.counted = b] \in OpStates
      BY <1>0, OpTypes
    <3>4. op' = [op EXCEPT ![o] = [[op[o] EXCEPT !.pc = p] EXCEPT !.counted = b]]
      BY <1>0, <1>3, <3>1, <3>2 DEF PhaseReturns, OpStates
    <3> QED
      BY <3>3, <3>4, OpSet
  <2>2. effect' \in [Ops -> Effects]
    <3>1. PICK b \in BOOLEAN : b = (effect[o].marked \/ Counts(op[o].phase))
      OBVIOUS
    <3>2. effect' = [effect EXCEPT ![o].marked = b]
      BY <1>3, <3>1 DEF PhaseReturns
    <3> QED
      BY <3>2, EffectTypes
  <2> QED
    BY <1>3, <2>1, <2>2 DEF PhaseReturns, TypeOK
<1> QED
  BY <1>1, <1>2, <1>3

\* An effect becomes final, unless the transaction fails.
LEMMA FinalizeType ==
    ASSUME TypeOK, NEW o \in Ops, NEW s \in {"unknown", "committed", "failed", "compensated"},
           Finalize(o, s) \/ UNCHANGED effect
    PROVE  effect' \in [Ops -> Effects]
<1>1. [effect EXCEPT ![o].state = s, ![o].final = TRUE] \in [Ops -> Effects]
  BY EffectTypes
<1>2. effect \in [Ops -> Effects]
  BY DEF TypeOK
<1> QED
  BY <1>1, <1>2 DEF Finalize

\* The other steps of an operation.
LEMMA OpStepType ==
    ASSUME TypeOK, NEW o \in Ops, OpStep(o)
    PROVE  TypeOK'
<1>0. op[o] \in OpStates /\ op \in [Ops -> OpStates]
  BY DEF TypeOK
<1>1. CASE RejectDispatch(o)
  BY <1>1, AbortType, SettlesType DEF RejectDispatch
<1>2. CASE Exit(o)
  BY <1>2, AbortType, SettlesType DEF Exit
<1>3. CASE PhaseRaises(o)
  <2>1. op' \in [Ops -> OpStates]
    BY <1>3, GotoType DEF PhaseRaises, OpPoints
  <2>2. hold' \in [Ops -> [Caps -> Holds]] /\ used' \in Counters
    BY <1>3, BestEffortType DEF PhaseRaises
  <2> QED
    BY <1>3, <2>1, <2>2 DEF PhaseRaises, TypeOK, Counters
<1>4. CASE NotStarted(o)
  <2>1. CASE Abort(o) \/ AbortFails(o)
    BY <2>1, AbortType
  <2>2. CASE /\ CommitBestEffort(o)
             /\ op' = [op EXCEPT ![o].pc = "settle", ![o].outcome = "committed"]
             /\ UNCHANGED <<caps, effect, usage, world, withdrawn, mode, swept>>
    <3>1. [[op[o] EXCEPT !.pc = "settle"] EXCEPT !.outcome = "committed"] \in OpStates
      BY <1>0, OpTypes DEF OpPoints
    <3>2. op' = [op EXCEPT ![o] = [[op[o] EXCEPT !.pc = "settle"] EXCEPT !.outcome = "committed"]]
      BY <1>0, <2>2 DEF OpStates
    <3>3. op' \in [Ops -> OpStates]
      BY <3>1, <3>2, OpSet
    <3>4. hold' \in [Ops -> [Caps -> Holds]] /\ used' \in Counters
      BY <2>2, BestEffortType
    <3> QED
      BY <2>2, <3>3, <3>4 DEF TypeOK, Counters
  <2> QED
    BY <1>4, <2>1, <2>2 DEF NotStarted
<1>5. CASE CommitReservations(o)
  <2>1. hold' \in [Ops -> [Caps -> Holds]] /\ used' \in Counters
    BY <1>5, BestEffortType DEF CommitReservations, CommitBestEffort
  <2>2. op' \in [Ops -> OpStates]
    <3>1. CASE Goto(o, "settle")
      BY <3>1, GotoType DEF OpPoints
    <3>2. CASE op' = [op EXCEPT ![o].pc = "ready", ![o].committed = TRUE]
      <4>1. [[op[o] EXCEPT !.pc = "ready"] EXCEPT !.committed = TRUE] \in OpStates
        BY <1>0, OpTypes DEF OpPoints
      <4>2. op' = [op EXCEPT ![o] = [[op[o] EXCEPT !.pc = "ready"] EXCEPT !.committed = TRUE]]
        BY <1>0, <3>2 DEF OpStates
      <4> QED
        BY <4>1, <4>2, OpSet
    <3> QED
      BY <1>5, <3>1, <3>2 DEF CommitReservations
  <2> QED
    BY <1>5, <2>1, <2>2 DEF CommitReservations, TypeOK, Counters
<1>6. ASSUME NEW m \in SUBSET SettledUsages,
             op' = [op EXCEPT ![o].pc = "charge", ![o].charges = m]
      PROVE  op' \in [Ops -> OpStates]
  <2>1. [[op[o] EXCEPT !.pc = "charge"] EXCEPT !.charges = m] \in OpStates
    BY <1>0, OpTypes DEF OpPoints
  <2>2. op' = [op EXCEPT ![o] = [[op[o] EXCEPT !.pc = "charge"] EXCEPT !.charges = m]]
    BY <1>0, <1>6 DEF OpStates
  <2> QED
    BY <2>1, <2>2, OpSet
<1>7. {"settled", "charged_maximum"} \in SUBSET SettledUsages
      /\ {"charged_maximum"} \in SUBSET SettledUsages
  BY DEF SettledUsages
<1>8. CASE SettleFailure(o)
  <2>1. used' \in Counters
    BY <1>8, FaultType DEF SettleFailure
  <2>2. op' \in [Ops -> OpStates]
    <3>1. CASE Goto(o, "done")
      BY <3>1, GotoType DEF OpPoints
    <3>2. CASE op' = [op EXCEPT ![o].pc = "charge", ![o].charges = {"settled", "charged_maximum"}]
      BY <1>6, <1>7, <3>2
    <3> QED
      BY <1>8, <3>1, <3>2 DEF SettleFailure
  <2>3. effect' \in [Ops -> Effects]
    <3>1. op[o].outcome \in {"unknown", "committed"}
      BY <1>0 DEF OpStates
    <3>2. Finalize(o, op[o].outcome) \/ UNCHANGED effect
      BY <1>8 DEF SettleFailure
    <3> QED
      BY <3>1, <3>2, FinalizeType
  <2> QED
    BY <1>8, <2>1, <2>2, <2>3 DEF SettleFailure, TypeOK, Counters
<1>9. ASSUME NEW state \in {"committed", "failed", "unknown"}, Complete(o, state)
      PROVE  TypeOK'
  <2>1. used' \in Counters
    BY <1>9, FaultType DEF Complete
  <2>2. op' \in [Ops -> OpStates]
    BY <1>6, <1>7, <1>9 DEF Complete
  <2>3. effect' \in [Ops -> Effects]
    <3>1. Finalize(o, state) \/ UNCHANGED effect
      BY <1>9 DEF Complete
    <3> QED
      BY <3>1, FinalizeType
  <2> QED
    BY <1>9, <2>1, <2>2, <2>3 DEF Complete, TypeOK, Counters
<1>10. CASE Charge(o)
  <2>1. used' \in Counters
    BY <1>10, FaultType DEF Charge
  <2>2. op' \in [Ops -> OpStates]
    BY <1>10, GotoType DEF Charge, OpPoints
  <2>3. op[o].charges \subseteq Usages
    BY <1>0 DEF OpStates, Usages
  <2>4. usage' \in [Ops -> Usages]
    <3>1. CASE UNCHANGED usage
      BY <3>1 DEF TypeOK
    <3>2. ASSUME NEW s \in op[o].charges,
                 usage' = [usage EXCEPT ![o] = IF @ = "active" THEN s ELSE @]
          PROVE  usage' \in [Ops -> Usages]
      BY <2>3, <3>2, UsageType
    <3> QED
      BY <1>10, <3>1, <3>2 DEF Charge
  <2> QED
    BY <1>10, <2>1, <2>2, <2>4 DEF Charge, TypeOK, Counters
<1> QED
  BY <1>1, <1>2, <1>3, <1>4, <1>5, <1>8, <1>9, <1>10, PrepareType, CallType DEF OpStep

\* A receipt, recorded by the Host or at startup.
LEMMA ReceiptType ==
    ASSUME TypeOK, NEW o \in Ops, NEW answer \in Answers, SettleReceipt(o, answer)
    PROVE  /\ effect' \in [Ops -> Effects] /\ usage' \in [Ops -> Usages]
           /\ hold' \in [Ops -> [Caps -> Holds]] /\ caps' \in [Caps -> CapRows]
<1>1. SettledState(answer) \in {"failed", "committed", "compensated"}
  BY DEF SettledState, Answers
<1>2. effect' \in [Ops -> Effects]
  BY <1>1, EffectTypes DEF SettleReceipt, Finalize
<1>3. usage' \in [Ops -> Usages]
  <2>1. "released" \in Usages
    BY DEF Usages, SettledUsages
  <2> QED
    BY <2>1, UsageType DEF SettleReceipt, TypeOK
<1>4. hold' \in [Ops -> [Caps -> Holds]] /\ caps' \in [Caps -> CapRows]
  BY HoldTypes DEF SettleReceipt, TypeOK
<1> QED
  BY <1>2, <1>3, <1>4

\* The startup recovery.
LEMMA RecoveryType ==
    ASSUME TypeOK, NEW o \in Ops, RecoveryStep(o)
    PROVE  TypeOK'
<1>0. ASSUME StartupFails
      PROVE  TypeOK'
  BY <1>0 DEF StartupFails, TypeOK
<1>1. CASE RecoverPrepared(o)
  <2>1. CASE StartupFails
    BY <1>0, <2>1
  <2>2. CASE /\ RestoreHolds(o) /\ effect' = [effect EXCEPT ![o] = NoEffect]
             /\ UNCHANGED <<usage, op, world, withdrawn, mode, swept, used>>
    <3>1. hold' \in [Ops -> [Caps -> Holds]] /\ caps' \in [Caps -> CapRows]
      BY <2>2, HoldTypes
    <3>2. effect' \in [Ops -> Effects]
      BY <2>2, EffectTypes
    <3> QED
      BY <2>2, <3>1, <3>2 DEF TypeOK
  <2> QED
    BY <1>1, <2>1, <2>2 DEF RecoverPrepared
<1>2. CASE ReconcileUnknown(o)
  <2>1. effect' \in [Ops -> Effects]
    BY <1>2, EffectTypes DEF ReconcileUnknown
  <2> QED
    BY <1>2, <2>1 DEF ReconcileUnknown, TypeOK
<1>3. ASSUME NEW answer \in Answers, Reconcile(o, answer)
      PROVE  TypeOK'
  <2>1. CASE StartupFails
    BY <1>0, <2>1
  <2>2. CASE /\ SettleReceipt(o, answer) /\ swept' = swept \cup {o}
             /\ UNCHANGED <<op, world, withdrawn, mode, used>>
    <3>1. /\ effect' \in [Ops -> Effects] /\ usage' \in [Ops -> Usages]
          /\ hold' \in [Ops -> [Caps -> Holds]] /\ caps' \in [Caps -> CapRows]
      BY <2>2, ReceiptType
    <3> QED
      BY <2>2, <3>1 DEF TypeOK
  <2> QED
    BY <1>3, <2>1, <2>2 DEF Reconcile
<1>4. CASE AbandonStale(o)
  <2>1. [c \in Caps |-> IF Stale(hold[o][c]) THEN "abandoned" ELSE hold[o][c]] \in [Caps -> Holds]
    <3>1. \A c \in Caps : hold[o][c] \in Holds
      BY DEF TypeOK
    <3> QED
      BY <3>1 DEF Holds, SettledHolds
  <2>2. hold' \in [Ops -> [Caps -> Holds]]
    BY <1>4, <2>1 DEF AbandonStale, TypeOK
  <2> QED
    BY <1>4, <2>2 DEF AbandonStale, TypeOK
<1>5. CASE RecoverUsage(o)
  <2>1. usage' \in [Ops -> Usages]
    BY <1>5 DEF RecoverUsage, TypeOK, Usages, SettledUsages
  <2> QED
    BY <1>5, <2>1 DEF RecoverUsage, TypeOK
<1> QED
  BY <1>1, <1>2, <1>3, <1>4, <1>5 DEF RecoveryStep

\* Every step keeps the types.
LEMMA TypeStep ==
    ASSUME TypeOK, [Next]_vars
    PROVE  TypeOK'
<1>1. ASSUME NEW o \in Ops, NEW answer \in Answers, HostReceipt(o, answer)
      PROVE  TypeOK'
  <2>1. SettleReceipt(o, answer) /\ UNCHANGED <<op, world, withdrawn, mode, swept, used>>
    BY <1>1 DEF HostReceipt
  <2>2. /\ effect' \in [Ops -> Effects] /\ usage' \in [Ops -> Usages]
        /\ hold' \in [Ops -> [Caps -> Holds]] /\ caps' \in [Caps -> CapRows]
    BY <2>1, ReceiptType
  <2> QED
    BY <2>1, <2>2 DEF TypeOK
<1>2. ASSUME NEW c \in Caps, Consume(c)
      PROVE  TypeOK'
  <2>1. caps[c] \in CapRows /\ caps \in [Caps -> CapRows]
    BY DEF TypeOK
  <2>2. SpendUse(caps[c]) \in CapRows
    BY <1>2, <2>1, SpendType DEF Consume
  <2>3. caps' \in [Caps -> CapRows]
    BY <1>2, <2>1, <2>2 DEF Consume
  <2>4. used' \in Counters
    BY <1>2, CounterTypes DEF Consume
  <2> QED
    BY <1>2, <2>3, <2>4 DEF Consume, TypeOK, Counters
<1>3. ASSUME NEW c \in Caps, NEW status \in {"revoked", "disabled"}, Revoke(c, status)
      PROVE  TypeOK'
  <2>1. caps[c] \in CapRows /\ caps \in [Caps -> CapRows]
    BY DEF TypeOK
  <2>2. [caps[c] EXCEPT !.status = status] \in CapRows
    BY <2>1 DEF CapRows
  <2>3. caps' \in [Caps -> CapRows]
    BY <1>3, <2>1, <2>2 DEF Revoke, Withdraw
  <2>4. hold' \in [Ops -> [Caps -> Holds]]
    <3>1. \A o \in Ops : hold[o] \in [Caps -> Holds] /\ hold[o][c] \in Holds
      BY DEF TypeOK
    <3>2. "invalidated" \in Holds
      BY DEF Holds, SettledHolds
    <3>3. \A o \in Ops :
            [hold[o] EXCEPT ![c] = IF hold[o][c] = "reserved" THEN "invalidated" ELSE hold[o][c]]
              \in [Caps -> Holds]
      BY <3>1, <3>2
    <3> QED
      BY <1>3, <3>3 DEF Revoke, Withdraw
  <2>5. used' \in Counters
    BY <1>3, CounterTypes DEF Revoke
  <2> QED
    BY <1>3, <2>3, <2>4, <2>5 DEF Revoke, Withdraw, TypeOK, Counters
<1>4. CASE RevokeResource
  <2>1. caps' \in [Caps -> CapRows]
    <3>1. \A c \in Caps : caps[c] \in CapRows
      BY DEF TypeOK
    <3>2. \A c \in Caps : [caps[c] EXCEPT !.status = "revoked"] \in CapRows
      BY <3>1 DEF CapRows
    <3> QED
      BY <1>4, <3>1, <3>2 DEF RevokeResource
  <2>2. hold' \in [Ops -> [Caps -> Holds]]
    <3>1. \A o \in Ops, c \in Caps : hold[o][c] \in Holds
      BY DEF TypeOK
    <3>2. "invalidated" \in Holds
      BY DEF Holds, SettledHolds
    <3> QED
      BY <1>4, <3>1, <3>2 DEF RevokeResource
  <2>3. used' \in Counters
    BY <1>4, CounterTypes DEF RevokeResource
  <2> QED
    BY <1>4, <2>1, <2>2, <2>3 DEF RevokeResource, TypeOK, Counters
<1>5. CASE Crash
  <2>1. op' \in [Ops -> OpStates]
    <3>1. [IdleOp EXCEPT !.pc = "lost"] \in OpStates
      BY DEF IdleOp, OpStates, SettledUsages
    <3>2. \A o \in Ops : op[o] \in OpStates
      BY DEF TypeOK
    <3> QED
      BY <1>5, <3>1, <3>2 DEF Crash
  <2>2. used' \in Counters
    BY <1>5, CounterTypes DEF Crash
  <2> QED
    BY <1>5, <2>1, <2>2 DEF Crash, TypeOK, Counters, Stages
<1>6. CASE Restart
  BY <1>6 DEF Restart, TypeOK, Stages
<1>7. CASE NextStage
  <2>1. mode' \in {"open", "failed"} \cup Stages
    <3>1. \A m \in Stages : StageAfter[m] \in {"open"} \cup Stages
      BY DEF StageAfter, Stages
    <3> QED
      BY <1>7, <3>1 DEF NextStage
  <2> QED
    BY <1>7, <2>1 DEF NextStage, TypeOK
<1>8. CASE UNCHANGED vars
  BY <1>8 DEF vars, TypeOK
<1> QED
  BY <1>1, <1>2, <1>3, <1>4, <1>5, <1>6, <1>7, <1>8, OpStepType, RecoveryType DEF Next

-------------------------------------------------------------------------------
(* The invariant *)

\* A Runtime opened on an empty store satisfies the invariant.
LEMMA InitStep ==
    ASSUME Init
    PROVE  IInv
<1>1. TypeOK
  <2>1. IdleOp \in OpStates /\ NoEffect \in Effects
    BY DEF IdleOp, OpStates, SettledUsages, NoEffect, Effects
  <2>2. caps \in [Caps -> CapRows] /\ hold \in [Ops -> [Caps -> Holds]]
    BY OperationAssumption DEF Init, CapRows, Holds
  <2>3. effect \in [Ops -> Effects] /\ usage \in [Ops -> Usages] /\ op \in [Ops -> OpStates]
    BY <2>1 DEF Init, Usages
  <2>4. /\ world \in [Ops -> [touched : BOOLEAN, acted : BOOLEAN]]
        /\ used \in [consumes : [Caps -> Nat], revokes : Nat, sweeps : Nat, faults : Nat,
                     crashes : Nat]
    BY DEF Init
  <2> QED
    BY <2>2, <2>3, <2>4 DEF Init, TypeOK
<1>2. ASSUME NEW o \in Ops
      PROVE  OpInv(o)
  <2>1. /\ op[o].pc = "idle" /\ ~op[o].dispatched /\ ~op[o].counted /\ op[o].charges = {}
        /\ effect[o] = NoEffect /\ usage[o] = "none" /\ ~world[o].touched /\ ~world[o].acted
        /\ mode = "open"
    BY DEF Init, IdleOp
  <2>2. \A c \in Caps : hold[o][c] = "none"
    BY DEF Init
  <2>3. IdleHasNothing(o) /\ DispatchRecorded(o) /\ TouchIsKnown(o)
    BY <2>1, <2>2 DEF IdleHasNothing, DispatchRecorded, TouchIsKnown, UnderWay, NoEffect
  <2>4. UsageKept(o) /\ HoldsKept(o) /\ Discharged(o)
    BY <2>1, <2>2 DEF UsageKept, HoldsKept, Discharged, UnderWay, NoEffect
  <2> QED
    BY <2>3, <2>4 DEF OpInv
<1>3. UsesAccounted
  <2>1. ASSUME NEW c \in Caps
        PROVE  caps[c].uses + used.consumes[c] + Cardinality(Spent(c)) = Uses
    <3>1. Spent(c) = {}
      BY DEF Spent, Init
    <3>2. Cardinality(Spent(c)) = 0
      BY <3>1, FS_EmptySet
    <3>3. caps[c].uses = Uses /\ used.consumes[c] = 0 /\ Uses \in Nat
      BY OperationAssumption DEF Init
    <3> QED
      BY <3>2, <3>3
  <2> QED
    BY <2>1 DEF UsesAccounted
<1>4. WithdrawnInv /\ SweepStarts
  BY DEF Init, WithdrawnInv, SweepStarts
<1> QED
  BY <1>1, <1>2, <1>3, <1>4 DEF IInv

\* Every step of an operation, of a revocation, of a crash and of the recovery keeps it.
LEMMA NextStep ==
    ASSUME IInv, [Next]_vars
    PROVE  IInv'
<1>0. TypeOK'
  BY TypeStep DEF IInv
<1>1. ASSUME NEW o \in Ops, OpStep(o)
      PROVE  IInv'
  BY <1>0, <1>1, PrepareStep, DispatchStep, RejectDispatchStep, ProviderActsStep,
     PhaseReturnsStep, PhaseRaisesStep, NotStartedStep, CommitReservationsStep, CompleteStep,
     ExitStep, SettleFailureStep, ChargeStep DEF OpStep
<1>2. ASSUME NEW o \in Ops, RecoveryStep(o)
      PROVE  IInv'
  BY <1>0, <1>2, RecoverPreparedStep, ReconcileUnknownStep, ReconcileStep, AbandonStaleStep,
     RecoverUsageStep DEF RecoveryStep
<1>3. CASE UNCHANGED vars
  <2>1. UNCHANGED <<caps, hold, effect, usage, op, world, withdrawn, mode, swept, used>>
    BY <1>3 DEF vars
  <2>2. \A o \in Ops : Discharged(o)'
    BY <2>1 DEF IInv, OpInv, Discharged
  <2>3. SweepStarts'
    BY <2>1 DEF IInv, SweepStarts
  <2> QED
    BY <1>0, <2>1, <2>2, <2>3, ModeStep
<1> QED
  BY <1>0, <1>1, <1>2, <1>3, HostReceiptStep, ConsumeStep, RevokeStep, RevokeResourceStep,
     CrashStep, RestartStep, NextStageStep DEF Next

-------------------------------------------------------------------------------
(* The theorems *)

\* The inductive invariant holds of every behaviour: the records of an operation, the
\* uses of a capability and what the startup has discharged fit together, with any number
\* of operations and capabilities, any phases, faults and crashes.
THEOREM Invariance == Spec => []IInv
<1>1. Init => IInv
  BY InitStep
<1>2. IInv /\ [Next]_vars => IInv'
  BY NextStep
<1> QED
  BY <1>1, <1>2, PTL DEF Spec

\* A provider touches the world only behind a dispatched row, and no abort, failed
\* settlement, crash, receipt or recovery removes that row (protected.py).
THEOREM EffectsEvidenced == Spec => []EffectsAreEvidenced
<1>1. IInv => EffectsAreEvidenced
  BY DEF IInv, OpInv, TouchIsKnown, EffectsAreEvidenced
<1> QED
  BY <1>1, Invariance, PTL

\* The usage of a metered operation that touched the world is never released, by its
\* abort, by a receipt or by recover_usage_reservations.
THEOREM EffectsCharged == Spec => []EffectsAreCharged
<1>1. ASSUME IInv, NEW o \in Metered, world[o].touched
      PROVE  usage[o] \in {"active", "settled", "charged_maximum"}
  <2>1. o \in Ops
    BY OperationAssumption
  <2>2. OpInv(o) /\ usage[o] \in Usages
    BY <1>1, <2>1 DEF IInv, TypeOK
  <2>3. usage[o] # "none" /\ usage[o] # "released"
    BY <1>1, <2>2 DEF OpInv, TouchIsKnown, UsageKept
  <2> QED
    BY <2>2, <2>3 DEF Usages, SettledUsages
<1>2. IInv => EffectsAreCharged
  BY <1>1 DEF EffectsAreCharged
<1> QED
  BY <1>2, Invariance, PTL

\* An open Runtime has nothing left of an operation that an earlier one lost: no active
\* usage, no reserved use and no effect that is neither settled nor named unknown.
THEOREM LossesDischarged == Spec => []RecoveryDischarges
<1>1. IInv => RecoveryDischarges
  BY DEF IInv, OpInv, Discharged, RecoveryDischarges, Open
<1> QED
  BY <1>1, Invariance, PTL

\* The uses left of a capability, those consumed and the operations that touched the
\* world with it never exceed the grant, whoever gives a use back and whatever is
\* revoked, retried or lost (lease.py, protected.py).
THEOREM UsesLimited == Spec => []UsesLimitEffects
<1>1. ASSUME IInv, NEW c \in Caps
      PROVE  caps[c].uses + used.consumes[c]
               + Cardinality({o \in Ops : c \in CapsOf[o] /\ world[o].touched}) <= Uses
  <2> DEFINE Touched == {o \in Ops : c \in CapsOf[o] /\ world[o].touched}
  <2>1. Touched \subseteq Spent(c)
    BY <1>1 DEF IInv, OpInv, HoldsKept, Spent
  <2>2. IsFiniteSet(Spent(c)) /\ Cardinality(Spent(c)) \in Nat
    BY SpentFinite
  <2>3. Cardinality(Touched) \in Nat /\ Cardinality(Touched) <= Cardinality(Spent(c))
    <3>1. IsFiniteSet(Touched) /\ Cardinality(Touched) <= Cardinality(Spent(c))
      BY <2>1, <2>2, FS_Subset
    <3> QED
      BY <3>1, FS_CardinalityType
  <2>4. caps[c].uses + used.consumes[c] + Cardinality(Spent(c)) = Uses
    BY <1>1 DEF IInv, UsesAccounted
  <2>5. caps[c].uses \in Nat /\ used.consumes[c] \in Nat
    BY <1>1 DEF IInv, TypeOK, CapRows
  <2>6. PICK k, n, t, s \in Nat : /\ k = caps[c].uses /\ n = used.consumes[c]
                                  /\ t = Cardinality(Touched) /\ s = Cardinality(Spent(c))
    BY <2>2, <2>3, <2>5
  <2>7. k + n + s = Uses /\ t <= s
    BY <2>3, <2>4, <2>6
  <2>8. k + n + t <= Uses
    BY <2>7
  <2> QED
    BY <2>6, <2>8
<1>2. IInv => UsesLimitEffects
  BY <1>1 DEF UsesLimitEffects
<1> QED
  BY <1>2, Invariance, PTL

\* A capability that a revocation or a disabling has written, by its name or with its
\* resource, is never active again, and the uses are limited: the write invalidates what
\* is reserved, so no restore finds anything to revive (update_capability,
\* revoke_resource, restore_reserved_use).
THEOREM AuthorityKept == Spec => []AuthorityInv
<1>1. IInv => TypeOK /\ WithdrawnStaysWithdrawn
  BY DEF IInv, WithdrawnInv, WithdrawnStaysWithdrawn
<1>2. IInv /\ UsesLimitEffects => AuthorityInv
  BY <1>1 DEF AuthorityInv
<1> QED
  BY <1>2, Invariance, UsesLimited, PTL

===============================================================================
