------------------------ MODULE ResourceBudget_proof ------------------------
(***************************************************************************)
(* Proofs about ResourceBudget, for every finite set of processes and of   *)
(* provider calls, every limit, amount and overage.                        *)
(*                                                                         *)
(* Need(q) is what a process has used and what is taken of it: its own     *)
(* envelopes and, for every child, the larger of the child's allocation    *)
(* and the envelopes below the child.  A preflight, a launch and a         *)
(* settlement are inequalities between the Need of a chain before and      *)
(* after, and differ at each process of the chain in one summand only      *)
(* (ChainSwap).  The invariant says that Need fits the limit of every      *)
(* process that no overage has reached, ended ones included, that an       *)
(* allocation is there with what it covers or not at all, and that a       *)
(* checkpoint holds rows of which the same is true.                        *)
(*                                                                         *)
(* Sums are counts of units, and induction goes by a minimal               *)
(* counterexample in a well-founded order of sets or numbers.              *)
(***************************************************************************)
EXTENDS ResourceBudget, FiniteSetTheorems, WellFoundedInduction, TLAPS

-----------------------------------------------------------------------------
(* Induction, on sets instead of predicates *)

\* What holds of the empty set and of a set with one more element holds of every
\* finite set: G is the set of subsets of which it holds.
LEMMA SubsetInduction ==
    ASSUME NEW S, IsFiniteSet(S), NEW G, {} \in G,
           \A T \in SUBSET S : \A x \in S \ T : T \in G => T \cup {x} \in G
    PROVE  S \in G
<1> DEFINE Bad == {T \in SUBSET S : T \notin G}
           R == StrictSubsetOrdering(S)
<1>1. SUFFICES ASSUME S \notin G PROVE FALSE
  OBVIOUS
<1>2. IsWellFoundedOn(R, FiniteSubsetsOf(S)) /\ FiniteSubsetsOf(S) = SUBSET S
  BY FS_StrictSubsetOrderingWellFounded, FS_FiniteSubsetsOfFinite
<1>3. Bad \subseteq FiniteSubsetsOf(S) /\ Bad # {}
  BY <1>1, <1>2
<1>4. \A T, U \in SUBSET S : T \subseteq U /\ T # U => <<T, U>> \in R
  BY DEF StrictSubsetOrdering
<1> HIDE DEF R
<1>5. PICK T \in Bad : \A U \in Bad : ~(<<U, T>> \in R)
  <2> HIDE DEF Bad
  <2> QED BY <1>2, <1>3, WFMin
<1>6. PICK x \in T : TRUE
  BY <1>5
<1>7. T \ {x} \in G
  <2>1. T \ {x} \in SUBSET S /\ T \ {x} # T
    BY <1>5, <1>6
  <2>2. <<T \ {x}, T>> \in R
    BY <1>4, <1>5, <2>1
  <2> QED BY <1>5, <2>1, <2>2
<1>8. (T \ {x}) \cup {x} \in G
  BY <1>5, <1>6, <1>7
<1>9. (T \ {x}) \cup {x} = T
  BY <1>6
<1> QED
  BY <1>5, <1>8, <1>9

\* The same along the numbers from 1 to m.
LEMMA IndexInduction ==
    ASSUME NEW m \in Nat, NEW G, 1 \in G,
           \A x \in 1 .. m : x \in G /\ x < m => x + 1 \in G
    PROVE  \A x \in 1 .. m : x \in G
<1> DEFINE Bad == {x \in 1 .. m : x \notin G}
           R == OpToRel(<, Nat)
<1>1. SUFFICES ASSUME Bad # {} PROVE FALSE
  OBVIOUS
<1>2. IsWellFoundedOn(R, Nat)
  BY NatLessThanWellFounded
<1>3. \A x, y \in Nat : y < x => <<y, x>> \in R
  BY DEF OpToRel
<1> HIDE DEF R
<1>4. PICK x \in Bad : \A y \in Bad : ~(<<y, x>> \in R)
  <2>1. Bad \subseteq Nat
    OBVIOUS
  <2> HIDE DEF Bad
  <2> QED BY <1>1, <1>2, <2>1, WFMin
<1>5. x \in 1 .. m /\ x \notin G /\ x # 1 /\ x - 1 \in 1 .. m
  BY <1>4
<1>6. x - 1 \notin Bad
  <2>1. x \in Nat /\ x - 1 \in Nat /\ x - 1 < x
    BY <1>5
  <2> QED BY <1>3, <1>4, <2>1
<1>7. (x - 1) + 1 \in G
  BY <1>5, <1>6
<1> QED
  BY <1>5, <1>7

-----------------------------------------------------------------------------
(* Sums *)

\* The units that Total counts.
Units(f, S) == UNION {{x} \X (1 .. f[x]) : x \in S}

\* The units of a sum are the pairs of a summand and one of its units.
LEMMA UnitsAre ==
    ASSUME NEW f, NEW S, NEW v
    PROVE  v \in Units(f, S) <=> \E x \in S : v \in {x} \X (1 .. f[x])
  BY DEF Units

\* A summand of n has n units.
LEMMA ColumnSize ==
    ASSUME NEW x, NEW n \in Nat
    PROVE  IsFiniteSet({x} \X (1 .. n)) /\ Cardinality({x} \X (1 .. n)) = n
<1>1. IsFiniteSet({x}) /\ Cardinality({x}) = 1
  BY FS_Singleton
<1>2. IsFiniteSet(1 .. n) /\ Cardinality(1 .. n) = n
  BY FS_Interval
<1>3. /\ IsFiniteSet({x} \X (1 .. n))
      /\ Cardinality({x} \X (1 .. n)) = Cardinality({x}) * Cardinality(1 .. n)
  BY <1>1, <1>2, FS_Product
<1> QED
  BY <1>1, <1>2, <1>3

\* One more summand adds its units.
LEMMA UnitsAdd ==
    ASSUME NEW f, NEW S, NEW x
    PROVE  Units(f, S \cup {x}) = Units(f, S) \cup ({x} \X (1 .. f[x]))
<1>1. ASSUME NEW v
      PROVE  v \in Units(f, S \cup {x}) <=> v \in Units(f, S) \/ v \in {x} \X (1 .. f[x])
  BY UnitsAre
<1> QED BY <1>1

\* Finitely many numbers have finitely many units.
LEMMA UnitsFinite ==
    ASSUME NEW S, IsFiniteSet(S), NEW f, \A x \in S : f[x] \in Nat
    PROVE  IsFiniteSet(Units(f, S))
<1> DEFINE G == {T \in SUBSET S : IsFiniteSet(Units(f, T))}
<1>1. {} \in G
  <2>1. Units(f, {}) = {}
    BY DEF Units
  <2> QED BY <2>1, FS_EmptySet
<1>2. ASSUME NEW T \in SUBSET S, NEW x \in S \ T, T \in G
      PROVE  T \cup {x} \in G
  <2>1. IsFiniteSet(Units(f, T)) /\ IsFiniteSet({x} \X (1 .. f[x]))
    BY <1>2, ColumnSize
  <2>2. IsFiniteSet(Units(f, T) \cup ({x} \X (1 .. f[x])))
    BY <2>1, FS_Union
  <2> QED BY <2>2, UnitsAdd
<1>3. S \in G
  <2> HIDE DEF G
  <2> QED BY <1>1, <1>2, SubsetInduction
<1> QED BY <1>3

\* A sum of numbers is a number.
LEMMA TotalType ==
    ASSUME NEW S, IsFiniteSet(S), NEW f, \A x \in S : f[x] \in Nat
    PROVE  Total(f, S) \in Nat
  BY UnitsFinite, FS_CardinalityType DEF Total, Units

\* One summand apart.
LEMMA TotalTake ==
    ASSUME NEW S, IsFiniteSet(S), NEW f, \A x \in S : f[x] \in Nat, NEW x \in S
    PROVE  Total(f, S) = f[x] + Total(f, S \ {x})
<1> DEFINE A == Units(f, S \ {x})
           B == {x} \X (1 .. f[x])
<1>1. IsFiniteSet(S \ {x})
  BY FS_RemoveElement
<1>2. IsFiniteSet(A) /\ IsFiniteSet(B) /\ Cardinality(B) = f[x]
  BY <1>1, UnitsFinite, ColumnSize
<1>3. Units(f, S) = A \cup B
  <2>1. (S \ {x}) \cup {x} = S
    OBVIOUS
  <2>2. Units(f, (S \ {x}) \cup {x}) = A \cup B
    BY UnitsAdd
  <2> QED BY <2>1, <2>2
<1>4. A \cap B = {}
  <2>1. ASSUME NEW v, v \in A, v \in B PROVE FALSE
    <3>1. PICK y \in S \ {x} : v \in {y} \X (1 .. f[y])
      BY <2>1, UnitsAre
    <3> QED BY <2>1, <3>1
  <2> QED BY <2>1
<1> HIDE DEF A, B
<1>5. Cardinality(A \cup B) = Cardinality(A) + Cardinality(B)
  <2>1. Cardinality(A \cup B) = Cardinality(A) + Cardinality(B) - Cardinality(A \cap B)
    BY <1>2, FS_Union
  <2>2. Cardinality(A \cap B) = 0
    BY <1>4, FS_EmptySet
  <2>3. Cardinality(A) \in Nat /\ Cardinality(B) \in Nat
    BY <1>2, FS_CardinalityType
  <2> QED BY <2>1, <2>2, <2>3
<1>6. Total(f, S) = Cardinality(A \cup B) /\ Total(f, S \ {x}) = Cardinality(A)
  BY <1>3 DEF Total, Units, A
<1> QED
  BY <1>2, <1>5, <1>6, FS_CardinalityType

\* The sum over nothing.
LEMMA TotalNone ==
    ASSUME NEW f
    PROVE  Total(f, {}) = 0
<1>1. Units(f, {}) = {}
  BY DEF Units
<1> QED BY <1>1, FS_EmptySet DEF Total, Units

\* Only the summands over S that are not 0 count.
LEMMA TotalSame ==
    ASSUME NEW S, NEW T, NEW f, NEW g,
           \A x \in S : f[x] # 0 => x \in T /\ g[x] = f[x],
           \A x \in T : g[x] # 0 => x \in S /\ g[x] = f[x],
           \A x \in S : f[x] \in Nat, \A x \in T : g[x] \in Nat
    PROVE  Total(f, S) = Total(g, T)
<1>1. ASSUME NEW v
      PROVE  v \in Units(f, S) <=> v \in Units(g, T)
  <2>1. ASSUME NEW x \in S, v \in {x} \X (1 .. f[x]) PROVE v \in Units(g, T)
    <3>1. f[x] # 0
      BY <2>1
    <3> QED BY <2>1, <3>1, UnitsAre
  <2>2. ASSUME NEW x \in T, v \in {x} \X (1 .. g[x]) PROVE v \in Units(f, S)
    <3>1. g[x] # 0
      BY <2>2
    <3> QED BY <2>2, <3>1, UnitsAre
  <2> QED BY <2>1, <2>2, UnitsAre
<1>2. Units(f, S) = Units(g, T)
  BY <1>1
<1> QED BY <1>2 DEF Total, Units

\* Smaller summands over a smaller set have a smaller sum.
LEMMA TotalMono ==
    ASSUME NEW T, IsFiniteSet(T), NEW S \in SUBSET T, NEW f, NEW g,
           \A x \in T : g[x] \in Nat, \A x \in S : f[x] \in Nat /\ f[x] <= g[x]
    PROVE  Total(f, S) <= Total(g, T)
<1>1. ASSUME NEW v \in Units(f, S) PROVE v \in Units(g, T)
  <2>1. PICK x \in S : v \in {x} \X (1 .. f[x])
    BY UnitsAre
  <2>2. 1 .. f[x] \subseteq 1 .. g[x]
    OBVIOUS
  <2> QED BY <2>1, <2>2, UnitsAre
<1>2. Units(f, S) \in SUBSET Units(g, T)
  BY <1>1
<1> QED BY <1>2, UnitsFinite, FS_Subset DEF Total, Units

\* A sum of sums.
LEMMA TotalPlus ==
    ASSUME NEW S, IsFiniteSet(S), NEW f, NEW g, NEW h,
           \A x \in S : f[x] \in Nat /\ g[x] \in Nat /\ h[x] = f[x] + g[x]
    PROVE  Total(h, S) = Total(f, S) + Total(g, S)
<1> DEFINE G == {T \in SUBSET S : Total(h, T) = Total(f, T) + Total(g, T)}
<1>1. {} \in G
  BY TotalNone
<1>2. ASSUME NEW T \in SUBSET S, NEW x \in S \ T, T \in G
      PROVE  T \cup {x} \in G
  <2> DEFINE U == T \cup {x}
  <2>1. IsFiniteSet(T) /\ IsFiniteSet(U) /\ U \ {x} = T /\ x \in U
    BY FS_Subset, FS_AddElement
  <2>2. \A y \in U : f[y] \in Nat /\ g[y] \in Nat /\ h[y] \in Nat
    OBVIOUS
  <2>3. /\ Total(f, U) = f[x] + Total(f, T)
        /\ Total(g, U) = g[x] + Total(g, T)
        /\ Total(h, U) = h[x] + Total(h, T)
    <3> HIDE DEF U
    <3> QED BY <2>1, <2>2, TotalTake
  <2>4. Total(f, T) \in Nat /\ Total(g, T) \in Nat
    BY <2>1, TotalType
  <2>5. Total(h, T) = Total(f, T) + Total(g, T)
    BY <1>2
  <2> QED BY <2>3, <2>4, <2>5
<1>3. S \in G
  <2> HIDE DEF G
  <2> QED BY <1>1, <1>2, SubsetInduction
<1> QED BY <1>3

\* Two sums that differ in one summand.
LEMMA TotalSwap ==
    ASSUME NEW S, IsFiniteSet(S), NEW x \in S, NEW f, NEW g,
           \A y \in S : f[y] \in Nat /\ g[y] \in Nat /\ (y # x => f[y] = g[y])
    PROVE  \E r \in Nat : Total(f, S) = f[x] + r /\ Total(g, S) = g[x] + r
<1>1. IsFiniteSet(S \ {x})
  BY FS_RemoveElement
<1>2. Total(f, S \ {x}) = Total(g, S \ {x}) /\ Total(f, S \ {x}) \in Nat
  BY <1>1, TotalSame, TotalType
<1>3. Total(f, S) = f[x] + Total(f, S \ {x}) /\ Total(g, S) = g[x] + Total(g, S \ {x})
  BY TotalTake
<1> QED BY <1>2, <1>3

-----------------------------------------------------------------------------
(* The tree: lines of ancestors *)

\* Every line is the process followed by the line of its parent.
Lines(l) ==
    \A p \in Pids :
      /\ Len(l[p]) > 0 => l[p][1] = p
      /\ \A x \in 1 .. Len(l[p]) :
           /\ Len(l[l[p][x]]) = Len(l[p]) - x + 1
           /\ \A y \in 1 .. Len(l[l[p][x]]) : l[l[p][x]][y] = l[p][x + y - 1]

\* Children, subtree and chain, of a table of lines.
Kids(l, q) == {c \in Pids : Len(l[c]) > 1 /\ l[c][2] = q}
Under(l, q) == {d \in Pids : q \in Range(l[d])}

\* Whoever is in a line is a process at one of its places.
LEMMA RangeOfLine ==
    ASSUME NEW s \in Seq(Pids)
    PROVE  /\ Range(s) \subseteq Pids
           /\ \A q : q \in Range(s) <=> \E x \in 1 .. Len(s) : s[x] = q
  BY DEF Range

\* A process occurs once in a line.
LEMMA LineOnce ==
    ASSUME NEW l \in [Pids -> Seq(Pids)], Lines(l), NEW p \in Pids,
           NEW x \in 1 .. Len(l[p]), NEW y \in 1 .. Len(l[p]), l[p][x] = l[p][y]
    PROVE  x = y
<1>1. Len(l[l[p][x]]) = Len(l[p]) - x + 1 /\ Len(l[l[p][y]]) = Len(l[p]) - y + 1
  BY DEF Lines
<1>2. Len(l[p]) \in Nat
  OBVIOUS
<1> QED BY <1>1, <1>2

Prior(s, x) == s[x - 1]

\* The process before q in a line of which q is part is a child of q, and no other
\* child of q is in the line.
LEMMA ChildInLine ==
    ASSUME NEW l \in [Pids -> Seq(Pids)], Lines(l), NEW p \in Pids,
           NEW x \in 1 .. Len(l[p]), NEW c \in Pids
    PROVE  c \in Kids(l, l[p][x]) /\ c \in Range(l[p]) <=> x # 1 /\ c = Prior(l[p], x)
<1>0. Len(l[p]) \in Nat /\ l[p] \in Seq(Pids) /\ l[p][x] \in Pids
  OBVIOUS
<1>1. ASSUME x > 1, c = Prior(l[p], x)
      PROVE  c \in Kids(l, l[p][x]) /\ c \in Range(l[p])
  <2>1. x - 1 \in 1 .. Len(l[p]) /\ c = l[p][x - 1]
    BY <1>0, <1>1 DEF Prior
  <2>2. /\ Len(l[c]) = Len(l[p]) - (x - 1) + 1
        /\ \A y \in 1 .. Len(l[c]) : l[c][y] = l[p][(x - 1) + y - 1]
    <3>1. /\ Len(l[l[p][x - 1]]) = Len(l[p]) - (x - 1) + 1
          /\ \A y \in 1 .. Len(l[l[p][x - 1]]) : l[l[p][x - 1]][y] = l[p][(x - 1) + y - 1]
      BY <2>1 DEF Lines
    <3> QED BY <2>1, <3>1
  <2>3. Len(l[c]) > 1 /\ l[c][2] = l[p][(x - 1) + 2 - 1] /\ (x - 1) + 2 - 1 = x
    BY <1>0, <2>2
  <2> QED BY <1>0, <1>1, <2>1, <2>3, RangeOfLine DEF Kids
<1>2. ASSUME c \in Kids(l, l[p][x]), c \in Range(l[p])
      PROVE  x > 1 /\ c = Prior(l[p], x)
  <2>1. PICK y \in 1 .. Len(l[p]) : l[p][y] = c
    BY <1>0, <1>2, RangeOfLine
  <2>2. Len(l[c]) > 1 /\ l[c][2] = l[p][x]
    BY <1>2 DEF Kids
  <2>3. Len(l[c]) = Len(l[p]) - y + 1 /\ \A z \in 1 .. Len(l[c]) : l[c][z] = l[p][y + z - 1]
    BY <2>1 DEF Lines
  <2>4. y + 1 \in 1 .. Len(l[p]) /\ l[c][2] = l[p][y + 2 - 1] /\ y + 2 - 1 = y + 1
    BY <1>0, <2>1, <2>2, <2>3
  <2>5. x = y + 1
    BY <2>2, <2>4, LineOnce
  <2> QED BY <1>0, <2>1, <2>5 DEF Prior
<1> QED BY <1>0, <1>1, <1>2

\* Whatever is below a child of q is below q.
LEMMA BelowChild ==
    ASSUME NEW l \in [Pids -> Seq(Pids)], Lines(l), NEW q \in Pids, NEW c \in Kids(l, q),
           NEW d \in Under(l, c)
    PROVE  d \in Under(l, q)
<1>0. d \in Pids /\ l[d] \in Seq(Pids) /\ c \in Pids /\ Len(l[d]) \in Nat /\ Len(l[c]) \in Nat
  BY DEF Under, Kids
<1>1. PICK x \in 1 .. Len(l[d]) : l[d][x] = c
  BY <1>0, RangeOfLine DEF Under
<1>2. Len(l[c]) = Len(l[d]) - x + 1 /\ \A y \in 1 .. Len(l[c]) : l[c][y] = l[d][x + y - 1]
  BY <1>0, <1>1 DEF Lines
<1>3. Len(l[c]) > 1 /\ l[c][2] = q
  BY DEF Kids
<1>4. l[d][x + 1] = q /\ x + 1 \in 1 .. Len(l[d])
  <2>1. 2 \in 1 .. Len(l[c]) /\ x + 2 - 1 = x + 1
    BY <1>0, <1>3
  <2>2. l[c][2] = l[d][x + 2 - 1]
    BY <1>2, <2>1
  <2>3. x + 1 \in 1 .. Len(l[d])
    BY <1>0, <1>1, <1>2, <1>3
  <2> QED BY <1>3, <2>1, <2>2, <2>3
<1> QED BY <1>0, <1>4, RangeOfLine DEF Under

\* Whatever is below q is q or below a child of q.
LEMMA BelowSplit ==
    ASSUME NEW l \in [Pids -> Seq(Pids)], Lines(l), NEW q \in Pids, NEW d \in Under(l, q), d # q
    PROVE  \E c \in Kids(l, q) : d \in Under(l, c)
<1>0. d \in Pids /\ l[d] \in Seq(Pids) /\ Len(l[d]) \in Nat
  BY DEF Under
<1>1. PICK x \in 1 .. Len(l[d]) : l[d][x] = q
  BY <1>0, RangeOfLine DEF Under
<1>2. x # 1 /\ x > 1
  BY <1>0, <1>1 DEF Lines
<1>3. Prior(l[d], x) \in Pids
  BY <1>0, <1>1, <1>2 DEF Prior
<1>4. Prior(l[d], x) \in Kids(l, q) /\ Prior(l[d], x) \in Range(l[d])
  <2>1. Prior(l[d], x) \in Kids(l, l[d][x]) /\ Prior(l[d], x) \in Range(l[d])
    BY <1>0, <1>2, <1>3, ChildInLine
  <2> QED BY <1>1, <2>1
<1> QED BY <1>0, <1>3, <1>4 DEF Under

\* What is below a process has everything above it in its line.
LEMMA ChainUp ==
    ASSUME NEW l \in [Pids -> Seq(Pids)], Lines(l), NEW p \in Pids, NEW q \in Range(l[p])
    PROVE  q \in Pids /\ Range(l[q]) \subseteq Range(l[p])
<1>0. l[p] \in Seq(Pids) /\ Len(l[p]) \in Nat /\ q \in Pids
  BY RangeOfLine
<1>1. PICK x \in 1 .. Len(l[p]) : l[p][x] = q
  BY <1>0, RangeOfLine
<1>2. Len(l[q]) = Len(l[p]) - x + 1 /\ \A y \in 1 .. Len(l[q]) : l[q][y] = l[p][x + y - 1]
  BY <1>1 DEF Lines
<1>3. ASSUME NEW r \in Range(l[q]) PROVE r \in Range(l[p])
  <2>1. PICK y \in 1 .. Len(l[q]) : l[q][y] = r
    BY <1>0, RangeOfLine
  <2>2. l[p][x + y - 1] = r
    BY <1>2, <2>1
  <2>3. x + y - 1 \in 1 .. Len(l[p])
    BY <1>0, <1>1, <1>2, <2>1
  <2> QED BY <1>0, <2>2, <2>3, RangeOfLine
<1> QED BY <1>0, <1>3

-----------------------------------------------------------------------------
(* Envelopes *)

\* What call i counts for at the processes S.
Share(S, k, i) == IF k[i] # NoCall /\ k[i].pid \in S THEN k[i].max ELSE 0

Tables == [Calls -> Envelopes \cup {NoCall}]

\* An envelope counts for a number.
LEMMA ShareType ==
    ASSUME NEW k \in Tables, NEW i \in Calls, NEW S
    PROVE  Share(S, k, i) \in Nat
<1>1. Amounts \subseteq Nat
  BY BudgetAssumption
<1> QED BY <1>1 DEF Share, Tables, Envelopes

\* The envelopes of S, as a sum of shares.
LEMMA EnvelopesAre ==
    ASSUME NEW k, NEW S
    PROVE  EnvelopesOf(S, k) = Total([i \in Calls |-> Share(S, k, i)], Calls)
  BY DEF EnvelopesOf, Share

\* The envelopes of S count for a number.
LEMMA EnvelopesType ==
    ASSUME NEW k \in Tables, NEW S
    PROVE  EnvelopesOf(S, k) \in Nat
<1> DEFINE f == [i \in Calls |-> Share(S, k, i)]
<1>1. \A i \in Calls : f[i] \in Nat
  BY ShareType
<1> HIDE DEF f
<1>2. Total(f, Calls) \in Nat
  BY <1>1, BudgetAssumption, TotalType
<1> QED BY <1>2, EnvelopesAre DEF f

\* More processes have more envelopes.
LEMMA EnvelopesMono ==
    ASSUME NEW k \in Tables, NEW S, NEW T,
           \A i \in Calls : k[i] # NoCall /\ k[i].pid \in S => k[i].pid \in T
    PROVE  EnvelopesOf(S, k) <= EnvelopesOf(T, k)
<1> DEFINE f == [i \in Calls |-> Share(S, k, i)]
           g == [i \in Calls |-> Share(T, k, i)]
<1>1. \A i \in Calls : f[i] \in Nat /\ g[i] \in Nat
  BY ShareType
<1>2. \A i \in Calls : f[i] <= g[i]
  <2>1. ASSUME NEW i \in Calls PROVE Share(S, k, i) <= Share(T, k, i)
    <3>1. Share(S, k, i) \in Nat /\ Share(T, k, i) \in Nat
      BY ShareType
    <3> QED BY <3>1 DEF Share
  <2> QED BY <2>1
<1> HIDE DEF f, g
<1>3. Total(f, Calls) <= Total(g, Calls)
  BY <1>1, <1>2, BudgetAssumption, TotalMono
<1> QED BY <1>3, EnvelopesAre DEF f, g

\* The envelopes of two sets of processes are at most those of both.
LEMMA EnvelopesUnion ==
    ASSUME NEW k \in Tables, NEW S, NEW T
    PROVE  EnvelopesOf(S \cup T, k) <= EnvelopesOf(S, k) + EnvelopesOf(T, k)
<1> DEFINE f == [i \in Calls |-> Share(S, k, i)]
           g == [i \in Calls |-> Share(T, k, i)]
           u == [i \in Calls |-> Share(S \cup T, k, i)]
           h == [i \in Calls |-> Share(S, k, i) + Share(T, k, i)]
<1>1. \A i \in Calls : f[i] \in Nat /\ g[i] \in Nat /\ u[i] \in Nat /\ h[i] \in Nat
  BY ShareType
<1>2. \A i \in Calls : h[i] = f[i] + g[i]
  OBVIOUS
<1>3. \A i \in Calls : u[i] <= h[i]
  <2>1. ASSUME NEW i \in Calls PROVE Share(S \cup T, k, i) <= Share(S, k, i) + Share(T, k, i)
    <3>1. Share(S, k, i) \in Nat /\ Share(T, k, i) \in Nat /\ Share(S \cup T, k, i) \in Nat
      BY ShareType
    <3> QED BY <3>1 DEF Share
  <2> QED BY <2>1
<1> HIDE DEF f, g, u, h
<1>4. Total(u, Calls) <= Total(h, Calls) /\ Total(h, Calls) = Total(f, Calls) + Total(g, Calls)
  BY <1>1, <1>2, <1>3, BudgetAssumption, TotalMono, TotalPlus
<1> QED BY <1>4, EnvelopesAre DEF f, g, u

\* One envelope apart.
LEMMA EnvelopesDrop ==
    ASSUME NEW k \in Tables, NEW i \in Calls, k[i] # NoCall, NEW j \in Tables,
           j[i] = NoCall, \A x \in Calls : x # i => j[x] = k[x], NEW S
    PROVE  /\ k[i].max \in Nat
           /\ EnvelopesOf(S, k) = EnvelopesOf(S, j) + (IF k[i].pid \in S THEN k[i].max ELSE 0)
<1> DEFINE f == [x \in Calls |-> Share(S, k, x)]
           g == [x \in Calls |-> Share(S, j, x)]
<1>1. k[i].max \in Nat
  BY BudgetAssumption DEF Tables, Envelopes
<1>2. \A x \in Calls : f[x] \in Nat /\ g[x] \in Nat /\ (x # i => f[x] = g[x])
  <2> QED BY ShareType DEF Share
<1>3. f[i] = (IF k[i].pid \in S THEN k[i].max ELSE 0) /\ g[i] = 0
  BY DEF Share, Tables
<1> HIDE DEF f, g
<1>4. PICK r \in Nat : Total(f, Calls) = f[i] + r /\ Total(g, Calls) = g[i] + r
  BY <1>2, BudgetAssumption, TotalSwap
<1>5. EnvelopesOf(S, k) = Total(f, Calls) /\ EnvelopesOf(S, j) = Total(g, Calls)
  BY EnvelopesAre DEF f, g
<1>6. Total(f, Calls) = f[i] + Total(g, Calls) /\ f[i] \in Nat /\ Total(g, Calls) \in Nat
  BY <1>2, <1>3, <1>4
<1> QED BY <1>1, <1>3, <1>5, <1>6

\* Where no envelope is, none is counted.
LEMMA EnvelopesNone ==
    ASSUME NEW k \in Tables, NEW S, \A i \in Calls : k[i] # NoCall => k[i].pid \notin S
    PROVE  EnvelopesOf(S, k) = 0
<1> DEFINE f == [i \in Calls |-> Share(S, k, i)]
<1>1. \A i \in Calls : f[i] = 0
  BY DEF Share
<1> HIDE DEF f
<1>2. Total(f, Calls) = Total(f, {})
  BY <1>1, TotalSame
<1> QED BY <1>2, TotalNone, EnvelopesAre DEF f

-----------------------------------------------------------------------------
(* What a process has committed *)

\* The envelopes at and below c, of a table of lines and statuses.
Env(l, s, k, c) == EnvelopesOf({d \in Under(l, c) : s[d] \in {"live", "dead"}}, k)

\* What child c takes of its parent: its allocation, of which a charge of n would consume a
\* part if it is the child b, and the envelopes that the allocation does not cover.
Part(h, e, b, n, c) == (IF c = b THEN Less(h[c], n) ELSE h[c]) + Less(e, h[c])

Parts(l, s, h, k, b, n) == [c \in Pids |-> Part(h, Env(l, s, k, c), b, n, c)]

Taken(l, s, h, k, q, b, n) == EnvelopesOf({q}, k) + Total(Parts(l, s, h, k, b, n), Kids(l, q))

Need(l, s, u, h, k, q) == u[q] + Taken(l, s, h, k, q, NoPid, 0)

Amount == [Pids -> Nat]

\* A difference cut off at 0 is a number.
LEMMA LessType ==
    ASSUME NEW n \in Nat, NEW m \in Nat
    PROVE  Less(n, m) \in Nat
  BY DEF Less

\* The children of a process are finitely many processes.
LEMMA KidsFinite ==
    ASSUME NEW l, NEW q
    PROVE  IsFiniteSet(Kids(l, q)) /\ Kids(l, q) \subseteq Pids
<1>1. Kids(l, q) \in SUBSET Pids
  BY DEF Kids
<1> QED BY <1>1, BudgetAssumption, FS_Subset

\* The envelopes below a process count for a number.
LEMMA EnvType ==
    ASSUME NEW l, NEW s, NEW k \in Tables, NEW c
    PROVE  Env(l, s, k, c) \in Nat
  BY EnvelopesType DEF Env

\* What a child takes is a number.
LEMMA PartsType ==
    ASSUME NEW l, NEW s, NEW h \in Amount, NEW k \in Tables, NEW b, NEW n \in Nat, NEW c \in Pids
    PROVE  /\ Parts(l, s, h, k, b, n)[c] \in Nat
           /\ Parts(l, s, h, k, b, n)[c] = Part(h, Env(l, s, k, c), b, n, c)
<1>1. h[c] \in Nat /\ Env(l, s, k, c) \in Nat
  BY EnvType DEF Amount
<1>2. Less(h[c], n) \in Nat /\ Less(Env(l, s, k, c), h[c]) \in Nat
  BY <1>1, LessType
<1>3. Part(h, Env(l, s, k, c), b, n, c) \in Nat
  BY <1>1, <1>2 DEF Part
<1> QED BY <1>3 DEF Parts

\* What is taken of a process is a number.
LEMMA TakenType ==
    ASSUME NEW l, NEW s, NEW h \in Amount, NEW k \in Tables, NEW b, NEW n \in Nat, NEW q
    PROVE  Taken(l, s, h, k, q, b, n) \in Nat
<1>1. Total(Parts(l, s, h, k, b, n), Kids(l, q)) \in Nat
  BY KidsFinite, PartsType, TotalType
<1> QED BY <1>1, EnvelopesType DEF Taken

\* The two sums that the code adds up separately.
LEMMA SumsAre ==
    ASSUME NEW l, NEW s, NEW h \in Amount, NEW k \in Tables, NEW b, NEW n \in Nat, NEW q \in Pids
    PROVE  LET f == [d \in Pids |-> IF d = b THEN Less(h[d], n) ELSE h[d]]
               g == [c \in Pids |-> Less(Env(l, s, k, c), h[c])]
           IN  /\ Total(f, Kids(l, q)) \in Nat
               /\ EnvelopesOf({q}, k) + Total(g, Kids(l, q)) \in Nat
               /\ Total(f, Kids(l, q)) + (EnvelopesOf({q}, k) + Total(g, Kids(l, q)))
                    = Taken(l, s, h, k, q, b, n)
<1> DEFINE f == [d \in Pids |-> IF d = b THEN Less(h[d], n) ELSE h[d]]
           g == [c \in Pids |-> Less(Env(l, s, k, c), h[c])]
           t == Parts(l, s, h, k, b, n)
<1>1. \A c \in Pids : f[c] \in Nat /\ g[c] \in Nat
  BY EnvType, LessType DEF Amount
<1>2. \A c \in Pids : t[c] = f[c] + g[c]
  BY DEF Parts, Part
<1> HIDE DEF f, g, t
<1>3. Total(t, Kids(l, q)) = Total(f, Kids(l, q)) + Total(g, Kids(l, q))
  BY <1>1, <1>2, KidsFinite, TotalPlus
<1>4. Total(f, Kids(l, q)) \in Nat /\ Total(g, Kids(l, q)) \in Nat
  BY <1>1, KidsFinite, TotalType
<1>5. EnvelopesOf({q}, k) \in Nat
  BY EnvelopesType
<1>6. Taken(l, s, h, k, q, b, n) = EnvelopesOf({q}, k) + Total(t, Kids(l, q))
  BY DEF Taken, t
<1>7. /\ Total(f, Kids(l, q)) \in Nat
      /\ EnvelopesOf({q}, k) + Total(g, Kids(l, q)) \in Nat
      /\ Total(f, Kids(l, q)) + (EnvelopesOf({q}, k) + Total(g, Kids(l, q)))
           = Taken(l, s, h, k, q, b, n)
  BY <1>3, <1>4, <1>5, <1>6
<1> QED BY <1>7 DEF f, g

\* The envelopes below q are those of q and those below its children.
LEMMA EnvSplit ==
    ASSUME NEW l \in [Pids -> Seq(Pids)], Lines(l), NEW s, NEW k \in Tables, NEW q \in Pids
    PROVE  Env(l, s, k, q) <=
             EnvelopesOf({q}, k) + Total([c \in Pids |-> Env(l, s, k, c)], Kids(l, q))
<1> DEFINE e == [c \in Pids |-> Env(l, s, k, c)]
           Of(c) == {d \in Under(l, c) : s[d] \in {"live", "dead"}}
           Both(T) == UNION {Of(c) : c \in T}
           K == Kids(l, q)
           G == {T \in SUBSET K : EnvelopesOf(Both(T), k) <= Total(e, T)}
<1>0. K \subseteq Pids /\ IsFiniteSet(K)
  BY KidsFinite
<1>1. \A c \in Pids : e[c] \in Nat /\ e[c] = EnvelopesOf(Of(c), k)
  BY EnvType DEF Env
<1>2. {} \in G
  <2>1. Both({}) = {}
    OBVIOUS
  <2>2. EnvelopesOf({}, k) = 0
    BY EnvelopesNone
  <2>3. Total(e, {}) = 0
    BY TotalNone
  <2>4. EnvelopesOf(Both({}), k) = 0
    BY <2>1, <2>2, Zenon
  <2>5. EnvelopesOf(Both({}), k) <= Total(e, {})
    <3> HIDE DEF Both, e
    <3> QED BY <2>3, <2>4
  <2> QED BY <2>5
<1>3. ASSUME NEW T \in SUBSET K, NEW x \in K \ T, T \in G
      PROVE  T \cup {x} \in G
  <2> DEFINE U == T \cup {x}
  <2>1. Both(U) = Both(T) \cup Of(x)
    OBVIOUS
  <2>2. IsFiniteSet(T) /\ IsFiniteSet(U) /\ U \ {x} = T /\ x \in U /\ x \in Pids
        /\ U \subseteq Pids /\ T \subseteq Pids /\ U \in SUBSET K
    BY <1>0, FS_Subset, FS_AddElement
  <2>3. EnvelopesOf(Both(U), k) <= EnvelopesOf(Both(T), k) + EnvelopesOf(Of(x), k)
    <3> HIDE DEF U, Both, Of
    <3> QED BY <2>1, EnvelopesUnion
  <2>4. Total(e, U) = e[x] + Total(e, T)
    <3> HIDE DEF U, e
    <3> QED BY <1>1, <2>2, TotalTake
  <2>5. /\ EnvelopesOf(Both(T), k) \in Nat /\ EnvelopesOf(Both(U), k) \in Nat
        /\ EnvelopesOf(Of(x), k) \in Nat
    BY EnvelopesType
  <2>6. Total(e, T) \in Nat
    <3> HIDE DEF e
    <3> QED BY <1>1, <2>2, TotalType
  <2>7. EnvelopesOf(Both(T), k) <= Total(e, T) /\ e[x] = EnvelopesOf(Of(x), k)
    BY <1>1, <1>3, <2>2
  <2>8. EnvelopesOf(Both(U), k) <= Total(e, U)
    <3> HIDE DEF U, Both, Of, e
    <3> QED BY <2>3, <2>4, <2>5, <2>6, <2>7
  <2> QED BY <2>2, <2>8
<1>4. K \in G
  <2> HIDE DEF G
  <2> QED BY <1>0, <1>2, <1>3, SubsetInduction
<1>5. ASSUME NEW d \in Of(q) PROVE d \in {q} \cup Both(K)
  <2>1. CASE d = q
    BY <2>1
  <2>2. CASE d # q
    <3>1. PICK c \in K : d \in Under(l, c)
      BY <2>2, BelowSplit
    <3> QED BY <3>1
  <2> QED BY <2>1, <2>2
<1>6. EnvelopesOf(Of(q), k) <= EnvelopesOf({q} \cup Both(K), k)
  <2> HIDE DEF Of, Both
  <2> QED BY <1>5, EnvelopesMono
<1>7. EnvelopesOf({q} \cup Both(K), k) <= EnvelopesOf({q}, k) + EnvelopesOf(Both(K), k)
  BY EnvelopesUnion
<1>8. EnvelopesOf(Both(K), k) <= Total(e, K)
  BY <1>4
<1>9. /\ EnvelopesOf(Of(q), k) \in Nat /\ EnvelopesOf({q} \cup Both(K), k) \in Nat
      /\ EnvelopesOf({q}, k) \in Nat /\ EnvelopesOf(Both(K), k) \in Nat
  BY EnvelopesType
<1>10. Total(e, K) \in Nat
  <2> HIDE DEF e
  <2> QED BY <1>0, <1>1, TotalType
<1>11. EnvelopesOf(Of(q), k) <= EnvelopesOf({q}, k) + Total(e, K)
  <2> HIDE DEF Of, Both, e, K
  <2> QED BY <1>6, <1>7, <1>8, <1>9, <1>10
<1> QED BY <1>11 DEF Env

\* If what every child takes covers the envelopes below it, what is taken of q covers those
\* below q.
LEMMA TakenCovers ==
    ASSUME NEW l \in [Pids -> Seq(Pids)], Lines(l), NEW s, NEW h \in Amount, NEW k \in Tables,
           NEW b, NEW n \in Nat, NEW q \in Pids,
           \A c \in Kids(l, q) : Env(l, s, k, c) <= Parts(l, s, h, k, b, n)[c]
    PROVE  Env(l, s, k, q) <= Taken(l, s, h, k, q, b, n)
<1> DEFINE e == [c \in Pids |-> Env(l, s, k, c)]
           t == Parts(l, s, h, k, b, n)
           K == Kids(l, q)
<1>1. K \subseteq Pids /\ IsFiniteSet(K)
  BY KidsFinite
<1>2. \A c \in K : e[c] \in Nat /\ t[c] \in Nat /\ e[c] <= t[c]
  BY <1>1, EnvType, PartsType
<1>3. Env(l, s, k, q) <= EnvelopesOf({q}, k) + Total(e, K)
  BY EnvSplit
<1>4. Taken(l, s, h, k, q, b, n) = EnvelopesOf({q}, k) + Total(t, K)
  BY DEF Taken
<1>5. EnvelopesOf({q}, k) \in Nat /\ Env(l, s, k, q) \in Nat
  BY EnvelopesType, EnvType
<1> HIDE DEF e, t, K
<1>6. Total(e, K) <= Total(t, K) /\ Total(e, K) \in Nat /\ Total(t, K) \in Nat
  BY <1>1, <1>2, TotalMono, TotalType
<1> QED BY <1>3, <1>4, <1>5, <1>6

\* Smaller parts need less.
LEMMA TakenMono ==
    ASSUME NEW l, NEW s, NEW h \in Amount, NEW k \in Tables, NEW b, NEW n \in Nat,
           NEW m, NEW s2, NEW h2 \in Amount, NEW k2 \in Tables, NEW b2, NEW n2 \in Nat,
           NEW q \in Pids,
           Kids(m, q) \subseteq Kids(l, q),
           EnvelopesOf({q}, k2) <= EnvelopesOf({q}, k),
           \A c \in Kids(m, q) : Parts(m, s2, h2, k2, b2, n2)[c] <= Parts(l, s, h, k, b, n)[c]
    PROVE  Taken(m, s2, h2, k2, q, b2, n2) <= Taken(l, s, h, k, q, b, n)
<1> DEFINE f == Parts(m, s2, h2, k2, b2, n2)
           g == Parts(l, s, h, k, b, n)
<1>1. \A c \in Pids : f[c] \in Nat /\ g[c] \in Nat
  BY PartsType
<1>2. IsFiniteSet(Kids(l, q)) /\ Kids(l, q) \subseteq Pids /\ Kids(m, q) \in SUBSET Kids(l, q)
      /\ IsFiniteSet(Kids(m, q))
  BY KidsFinite
<1>3. /\ Taken(m, s2, h2, k2, q, b2, n2) = EnvelopesOf({q}, k2) + Total(f, Kids(m, q))
      /\ Taken(l, s, h, k, q, b, n) = EnvelopesOf({q}, k) + Total(g, Kids(l, q))
  BY DEF Taken
<1>4. \A c \in Kids(m, q) : f[c] <= g[c]
  OBVIOUS
<1>5. EnvelopesOf({q}, k) \in Nat /\ EnvelopesOf({q}, k2) \in Nat
  BY EnvelopesType
<1> HIDE DEF f, g
<1>6. /\ Total(f, Kids(m, q)) <= Total(g, Kids(l, q))
      /\ Total(f, Kids(m, q)) \in Nat /\ Total(g, Kids(l, q)) \in Nat
  BY <1>1, <1>2, <1>4, TotalMono, TotalType
<1> QED BY <1>3, <1>5, <1>6

-----------------------------------------------------------------------------
(* The inductive invariant *)

\* A process has a line from its launch on, and no usage before.
LineInv ==
    /\ Lines(line)
    /\ \A p \in Pids : st[p] = "none" <=> line[p] = <<>>
    /\ \A p \in Pids : st[p] = "none" => used[p] = 0

\* Whatever a parent keeps back for a child is for a live child with a budget, and is at
\* least what is left of it: an allocation is never half there.
HeldCovers ==
    \A c \in Pids : held[c] > 0 =>
      st[c] = "live" /\ limit[c] # Unlimited /\ held[c] >= Less(limit[c], used[c])

\* NotOversold of every process that was ever launched, ended ones included: their
\* ancestors still count what their envelopes take.
NeedFits ==
    \A p \in Pids : limit[p] # Unlimited /\ p \notin overrun =>
      Need(line, st, used, held, call, p) <= limit[p]

\* An envelope is of a process that was launched, and has a row while its call is open.
CallsInv ==
    \A i \in Calls : call[i] # NoCall =>
      st[call[i].pid] # "none" /\ (call[i].open => Exists(call[i].pid))

\* What the checkpoint holds satisfies the same: putting it back breaks nothing.
SavedInv ==
    saved # NoCheckpoint =>
      LET kept == DOMAIN saved.st IN
      /\ saved.pid \in kept /\ kept \subseteq Under(line, saved.pid)
      /\ saved.st \in [kept -> {"live", "dead"}]
      /\ saved.used \in [kept -> Nat] /\ saved.held \in [kept -> Nat]
      /\ saved.over \in BOOLEAN
      /\ \A d \in kept : Exists(d) /\ saved.limit[d] = limit[d]
      /\ \A q \in Pids : \A c \in Kids(line, q) \cap kept : c # saved.pid => q \in kept
      /\ \A c \in kept : saved.held[c] > 0 =>
           /\ saved.st[c] = "live" /\ limit[c] # Unlimited
           /\ saved.held[c] >= Less(limit[c], saved.used[c])
      /\ \A c \in kept \ {Root} : c # saved.pid /\ saved.st[c] = "live" /\ limit[c] # Unlimited =>
           saved.held[c] >= Less(limit[c], saved.used[c])
      /\ \A q \in kept : limit[q] # Unlimited /\ q \notin overrun =>
           saved.used[q] + Total(saved.held, Kids(line, q) \cap kept) <= limit[q]
      /\ limit[saved.pid] # Unlimited /\ ~saved.over => saved.used[saved.pid] <= limit[saved.pid]

\* Rows are deleted by restores only.
GoneInv == saved = NoCheckpoint => \A d \in Pids : st[d] # "gone"

IInv ==
    /\ TypeOK
    /\ GoneInv
    /\ LineInv
    /\ HeldCovers
    /\ AllocationCoversChild
    /\ NeedFits
    /\ CallsInv
    /\ SavedInv
    /\ OnlyOveragesKill

-----------------------------------------------------------------------------
(* The code's checks, in these terms *)

\* The types of the tables, and of their entries.
LEMMA Types ==
    ASSUME TypeOK
    PROVE  /\ line \in [Pids -> Seq(Pids)] /\ used \in Amount /\ held \in Amount
           /\ call \in Tables /\ st \in [Pids -> {"none", "live", "dead", "gone"}]
           /\ limit \in [Pids -> Nat \cup {Unlimited}]
           /\ \A p \in Pids : /\ line[p] \in Seq(Pids) /\ Len(line[p]) \in Nat
                              /\ used[p] \in Nat /\ held[p] \in Nat
                              /\ limit[p] # Unlimited => limit[p] \in Nat
  BY DEF TypeOK, Amount, Tables

\* _reserved_budget_value_locked and the uncovered envelopes add up to Taken.
LEMMA TakenNow ==
    ASSUME NEW h \in Amount, NEW k \in Tables, NEW b, NEW n \in Nat, NEW q \in Pids
    PROVE  /\ Reserved(q, h, b, n) \in Nat /\ Uncovered(q, h, k) \in Nat
           /\ Reserved(q, h, b, n) + Uncovered(q, h, k) = Taken(line, st, h, k, q, b, n)
<1>1. Reserved(q, h, b, n) =
        Total([d \in Pids |-> IF d = b THEN Less(h[d], n) ELSE h[d]], Kids(line, q))
  BY DEF Reserved, Children, Kids
<1>2. Uncovered(q, h, k) =
        EnvelopesOf({q}, k) + Total([c \in Pids |-> Less(Env(line, st, k, c), h[c])], Kids(line, q))
  BY DEF Uncovered, Children, Kids, Env, Subtree, Under, Chain, Exists
<1> QED BY <1>1, <1>2, SumsAre

\* A process is over its limit if usage and what is taken of it exceed the limit.
LEMMA OverIs ==
    ASSUME TypeOK, NEW h \in Amount, NEW k \in Tables, NEW b, NEW n \in Nat, NEW q \in Pids,
           NEW u \in Nat
    PROVE  ~Over(q, u, Reserved(q, h, b, n), Uncovered(q, h, k)) <=>
             (limit[q] # Unlimited => u + Taken(line, st, h, k, q, b, n) <= limit[q])
<1>1. /\ Reserved(q, h, b, n) \in Nat /\ Uncovered(q, h, k) \in Nat
      /\ Reserved(q, h, b, n) + Uncovered(q, h, k) = Taken(line, st, h, k, q, b, n)
  BY TakenNow
<1>2. limit[q] # Unlimited => limit[q] \in Nat
  BY Types
<1> QED BY <1>1, <1>2 DEF Over

\* Committed(q), of the properties, is Need.
LEMMA CommittedIs ==
    ASSUME TypeOK, NEW q \in Pids
    PROVE  Committed(q) = Need(line, st, used, held, call, q) /\ Committed(q) \in Nat
<1>1. used[q] \in Nat /\ held \in Amount /\ call \in Tables
  BY Types
<1>2. /\ Reserved(q, held, NoPid, 0) \in Nat /\ Uncovered(q, held, call) \in Nat
      /\ Reserved(q, held, NoPid, 0) + Uncovered(q, held, call) =
           Taken(line, st, held, call, q, NoPid, 0)
  BY <1>1, TakenNow
<1> QED BY <1>1, <1>2 DEF Committed, Need

Before(p, x) == IF x = 1 THEN NoPid ELSE line[p][x - 1]

\* What a preflight has checked at each process of the chain.
LEMMA PreflightIs ==
    ASSUME TypeOK, NEW p \in Pids, NEW n \in Nat, NEW k \in Tables
    PROVE  Preflight(p, n, k) <=>
             \A x \in 1 .. Len(line[p]) : limit[line[p][x]] # Unlimited =>
               (used[line[p][x]] + n) + Taken(line, st, held, k, line[p][x], Before(p, x), n)
                 <= limit[line[p][x]]
<1>1. held \in Amount /\ \A x \in 1 .. Len(line[p]) :
        line[p][x] \in Pids /\ used[line[p][x]] + n \in Nat
  BY Types
<1>2. Preflight(p, n, k) <=> \A x \in 1 .. Len(line[p]) :
        ~Over(line[p][x], used[line[p][x]] + n, Reserved(line[p][x], held, Before(p, x), n),
              Uncovered(line[p][x], held, k))
  BY DEF Preflight, Before
<1> QED BY <1>1, <1>2, OverIs

\* Nobody of the chain is over its limit exactly if the check after a charge says so.
LEMMA FirstExceededIs ==
    ASSUME TypeOK, NEW p \in Pids, NEW u \in Amount, NEW h \in Amount, NEW k \in Tables
    PROVE  /\ FirstExceeded(p, u, h, k) \subseteq Chain(p)
           /\ FirstExceeded(p, u, h, k) = {} <=>
                \A q \in Chain(p) : limit[q] # Unlimited => Need(line, st, u, h, k, q) <= limit[q]
<1> DEFINE bad == {x \in 1 .. Len(line[p]) :
                     LET q == line[p][x]
                     IN  Over(q, u[q], Reserved(q, h, NoPid, 0), Uncovered(q, h, k))}
           R == OpToRel(<, Nat)
<1>0. /\ line[p] \in Seq(Pids) /\ Len(line[p]) \in Nat
      /\ \A x \in 1 .. Len(line[p]) : line[p][x] \in Pids /\ line[p][x] \in Chain(p)
      /\ \A q \in Chain(p) : q \in Pids /\ \E x \in 1 .. Len(line[p]) : line[p][x] = q
  BY Types, RangeOfLine DEF Chain
<1>1. FirstExceeded(p, u, h, k) = IF bad = {} THEN {} ELSE {line[p][Min(bad)]}
  BY DEF FirstExceeded
<1>2. bad \subseteq 1 .. Len(line[p])
  OBVIOUS
<1>3. bad = {} <=> \A x \in 1 .. Len(line[p]) : limit[line[p][x]] # Unlimited =>
                      Need(line, st, u, h, k, line[p][x]) <= limit[line[p][x]]
  <2>1. \A x \in 1 .. Len(line[p]) : x \notin bad <=>
          (limit[line[p][x]] # Unlimited =>
             Need(line, st, u, h, k, line[p][x]) <= limit[line[p][x]])
    BY <1>0, OverIs DEF Need, Amount
  <2> QED BY <1>2, <2>1
<1> HIDE DEF bad
<1>4. ASSUME bad # {} PROVE Min(bad) \in bad
  <2>1. IsWellFoundedOn(R, Nat)
    BY NatLessThanWellFounded
  <2>2. \A x, y \in Nat : y < x => <<y, x>> \in R
    BY DEF OpToRel
  <2> HIDE DEF R
  <2>3. bad \subseteq Nat
    BY <1>2
  <2>4. PICK x \in bad : \A y \in bad : ~(<<y, x>> \in R)
    BY <1>4, <2>1, <2>3, WFMin
  <2>5. ASSUME NEW y \in bad PROVE x <= y
    <3>1. x \in Nat /\ y \in Nat
      BY <2>3
    <3>2. ~(y < x)
      BY <2>2, <2>4, <3>1
    <3> QED BY <3>1, <3>2
  <2> QED BY <2>5 DEF Min
<1>5. FirstExceeded(p, u, h, k) \subseteq Chain(p)
  <2>1. CASE bad = {}
    BY <1>1, <2>1
  <2>2. CASE bad # {}
    <3>1. Min(bad) \in 1 .. Len(line[p])
      BY <1>2, <1>4, <2>2
    <3>2. line[p][Min(bad)] \in Chain(p)
      BY <1>0, <3>1
    <3> QED BY <1>1, <2>2, <3>2
  <2> QED BY <2>1, <2>2
<1>6. FirstExceeded(p, u, h, k) = {} <=> bad = {}
  BY <1>1
<1>7. (\A x \in 1 .. Len(line[p]) : limit[line[p][x]] # Unlimited =>
         Need(line, st, u, h, k, line[p][x]) <= limit[line[p][x]]) <=>
      \A q \in Chain(p) : limit[q] # Unlimited => Need(line, st, u, h, k, q) <= limit[q]
  BY <1>0
<1> QED BY <1>3, <1>5, <1>6, <1>7

\* A launch asks for no more than is left.
LEMMA FitsIs ==
    ASSUME TypeOK, NEW p \in Pids, NEW b \in Nat, FitsRemaining(p, b), NEW q \in Chain(p),
           q \in Pids, limit[q] # Unlimited, Need(line, st, used, held, call, q) <= limit[q]
    PROVE  Need(line, st, used, held, call, q) + b <= limit[q]
<1>1. Committed(q) = Need(line, st, used, held, call, q) /\ Committed(q) \in Nat
  BY CommittedIs
<1>2. b <= Less(limit[q], Committed(q))
  BY DEF FitsRemaining, Committed
<1>3. limit[q] \in Nat
  BY Types
<1> QED BY <1>1, <1>2, <1>3 DEF Less

-----------------------------------------------------------------------------
(* Along a chain *)

\* After a preflight of n at p the allocation of every process of the chain, where there is
\* one, has n to spare beyond the envelopes below it.
LEMMA Spare ==
    ASSUME IInv, NEW p \in Pids, NEW n \in Nat, Preflight(p, n, call),
           NEW x \in 1 .. Len(line[p])
    PROVE  LET q == line[p][x] IN
           held[q] = 0 \/ Env(line, st, call, q) + n <= held[q]
<1> DEFINE Fine(q) == held[q] = 0 \/ Env(line, st, call, q) + n <= held[q]
           G == {y \in 1 .. Len(line[p]) : Fine(line[p][y])}
<1>0. /\ TypeOK /\ Lines(line) /\ HeldCovers
      /\ line \in [Pids -> Seq(Pids)] /\ used \in Amount /\ held \in Amount /\ call \in Tables
      /\ Len(line[p]) \in Nat /\ NoPid \notin Pids
  BY Types, BudgetAssumption DEF IInv, LineInv
<1>1. \A y \in 1 .. Len(line[p]) : line[p][y] \in Pids
  BY Types, <1>0
<1>2. ASSUME NEW y \in 1 .. Len(line[p]), y = 1 \/ y - 1 \in G
      PROVE  y \in G
  <2> DEFINE q == line[p][y]
             b == Before(p, y)
             t == Parts(line, st, held, call, b, n)
  <2>1. q \in Pids
    BY <1>1
  <2>2. ASSUME NEW c \in Kids(line, q) PROVE Env(line, st, call, c) <= t[c]
    <3>1. c \in Pids
      BY KidsFinite
    <3>2. t[c] = Part(held, Env(line, st, call, c), b, n, c)
      BY <1>0, <3>1, PartsType
    <3>3. held[c] \in Nat /\ Env(line, st, call, c) \in Nat
      BY <1>0, <3>1, EnvType, Types
    <3>4. c = b => Fine(c)
      <4>1. ASSUME c = b PROVE y # 1 /\ y - 1 \in G /\ c = line[p][y - 1]
        BY <1>0, <1>2, <3>1, <4>1 DEF Before
      <4> QED BY <4>1
    <3> HIDE DEF b, t
    <3>5. CASE c = b
      <4>1. held[c] = 0 \/ Env(line, st, call, c) + n <= held[c]
        BY <3>4, <3>5
      <4> QED BY <3>2, <3>3, <3>5, <4>1 DEF Part, Less
    <3>6. CASE c # b
      BY <3>2, <3>3, <3>6 DEF Part, Less
    <3> QED BY <3>5, <3>6
  <2>3. Env(line, st, call, q) <= Taken(line, st, held, call, q, b, n)
    <3> HIDE DEF b, q
    <3> QED BY <1>0, <2>1, <2>2, TakenCovers
  <2>4. limit[q] # Unlimited =>
          (used[q] + n) + Taken(line, st, held, call, q, b, n) <= limit[q]
    BY <1>0, PreflightIs
  <2>5. held[q] > 0 => limit[q] # Unlimited /\ held[q] >= Less(limit[q], used[q])
    BY <1>0, <2>1 DEF HeldCovers
  <2>6. /\ Env(line, st, call, q) \in Nat /\ Taken(line, st, held, call, q, b, n) \in Nat
        /\ held[q] \in Nat /\ used[q] \in Nat /\ (limit[q] # Unlimited => limit[q] \in Nat)
    BY <1>0, <2>1, EnvType, TakenType, Types
  <2>7. Fine(q)
    <3> HIDE DEF b, q
    <3> QED BY <2>3, <2>4, <2>5, <2>6 DEF Less
  <2> QED BY <2>7
<1>3. x \in G
  <2>1. 1 \in G
    BY <1>0, <1>2
  <2>2. ASSUME NEW y \in 1 .. Len(line[p]), y \in G, y < Len(line[p]) PROVE y + 1 \in G
    <3>1. y + 1 \in 1 .. Len(line[p]) /\ (y + 1) - 1 = y
      BY <1>0, <2>2
    <3> HIDE DEF G
    <3> QED BY <1>2, <2>2, <3>1
  <2> HIDE DEF G
  <2> QED BY <1>0, <2>1, <2>2, IndexInduction
<1> QED BY <1>3

-----------------------------------------------------------------------------
(* What charges, envelopes and settlements do to a chain *)

\* A child of a process that is not in the chain is not in the chain.
LEMMA OffChain ==
    ASSUME TypeOK, Lines(line), NEW p \in Pids, NEW q \in Pids, q \notin Chain(p),
           NEW c \in Kids(line, q)
    PROVE  c \notin Chain(p)
<1>1. c \in Pids /\ line \in [Pids -> Seq(Pids)]
  BY KidsFinite, Types
<1>2. c \in Chain(p) => p \in Under(line, c)
  BY DEF Under, Chain
<1>3. p \in Under(line, c) => p \in Under(line, q)
  BY <1>1, BelowChild
<1> QED BY <1>2, <1>3 DEF Under, Chain

\* Of the children of a process in the chain, the one before it is in the chain.
LEMMA OnChain ==
    ASSUME TypeOK, Lines(line), NEW p \in Pids, NEW x \in 1 .. Len(line[p]),
           NEW c \in Kids(line, line[p][x])
    PROVE  c \in Chain(p) <=> x # 1 /\ c = Before(p, x)
<1>1. c \in Pids /\ line \in [Pids -> Seq(Pids)] /\ Len(line[p]) \in Nat
  BY KidsFinite, Types
<1>2. c \in Kids(line, line[p][x]) /\ c \in Range(line[p]) <=> x # 1 /\ c = Prior(line[p], x)
  BY <1>1, ChildInLine
<1>3. c \in Kids(line, line[p][x])
  OBVIOUS
<1>4. x # 1 => Before(p, x) = Prior(line[p], x)
  BY DEF Before, Prior
<1> QED BY <1>2, <1>3, <1>4 DEF Chain

\* The process before the x-th of a line is its child.
LEMMA BeforeIsChild ==
    ASSUME TypeOK, Lines(line), NEW p \in Pids, NEW x \in 1 .. Len(line[p]), x # 1
    PROVE  Before(p, x) \in Kids(line, line[p][x]) /\ Before(p, x) \in Pids
<1>1. line \in [Pids -> Seq(Pids)] /\ Len(line[p]) \in Nat /\ line[p] \in Seq(Pids)
  BY Types
<1>2. x > 1 /\ x - 1 \in 1 .. Len(line[p])
  BY <1>1
<1>3. Prior(line[p], x) \in Pids
  BY <1>1, <1>2 DEF Prior
<1>4. Before(p, x) = Prior(line[p], x)
  BY DEF Before, Prior
<1> QED BY <1>1, <1>3, <1>4, ChildInLine

\* Two tables agree at the x-th process of p's chain, off the chain.
AgreeOff(p, x, h, k, b, n, h2, k2, b2, n2) ==
    \A c \in Kids(line, line[p][x]) : c \notin Chain(p) =>
      Parts(line, st, h2, k2, b2, n2)[c] = Parts(line, st, h, k, b, n)[c]

\* What is taken of it then differs in its own envelopes and in the child before it only.
DifferOn(p, x, h, k, b, n, h2, k2, b2, n2) ==
    LET q == line[p][x]
        part == IF x = 1 THEN 0 ELSE Parts(line, st, h, k, b, n)[Before(p, x)]
        part2 == IF x = 1 THEN 0 ELSE Parts(line, st, h2, k2, b2, n2)[Before(p, x)]
    IN  \E r \in Nat :
          /\ Taken(line, st, h, k, q, b, n) = EnvelopesOf({q}, k) + (part + r)
          /\ Taken(line, st, h2, k2, q, b2, n2) = EnvelopesOf({q}, k2) + (part2 + r)

\* Two tables that differ along the chain only.
LEMMA ChainSwap ==
    ASSUME TypeOK, Lines(line), NEW p \in Pids, NEW x \in 1 .. Len(line[p]),
           NEW h \in Amount, NEW k \in Tables, NEW b, NEW n \in Nat,
           NEW h2 \in Amount, NEW k2 \in Tables, NEW b2, NEW n2 \in Nat,
           AgreeOff(p, x, h, k, b, n, h2, k2, b2, n2)
    PROVE  DifferOn(p, x, h, k, b, n, h2, k2, b2, n2)
<1> USE DEF AgreeOff, DifferOn
<1> DEFINE q == line[p][x]
           t == Parts(line, st, h, k, b, n)
           t2 == Parts(line, st, h2, k2, b2, n2)
<1>0. q \in Pids
  BY Types
<1>1. CASE x = 1
  <2>1. \A c \in Kids(line, q) : t[c] = t2[c] /\ t[c] \in Nat
    BY <1>1, OnChain, PartsType, KidsFinite
  <2>2. Total(t, Kids(line, q)) = Total(t2, Kids(line, q)) /\ Total(t, Kids(line, q)) \in Nat
    <3> HIDE DEF t, t2
    <3> QED BY <2>1, TotalSame, TotalType, KidsFinite
  <2>3. /\ Taken(line, st, h, k, q, b, n) = EnvelopesOf({q}, k) + Total(t, Kids(line, q))
        /\ Taken(line, st, h2, k2, q, b2, n2) = EnvelopesOf({q}, k2) + Total(t2, Kids(line, q))
    BY DEF Taken
  <2> DEFINE r == Total(t, Kids(line, q))
  <2>4. r \in Nat /\ 0 + r = r
    <3> HIDE DEF t
    <3> QED BY <2>2
  <2>5. /\ Taken(line, st, h, k, q, b, n) = EnvelopesOf({q}, k) + (0 + r)
        /\ Taken(line, st, h2, k2, q, b2, n2) = EnvelopesOf({q}, k2) + (0 + r)
    <3> HIDE DEF t, t2, q
    <3> QED BY <2>2, <2>3, <2>4
  <2> HIDE DEF r
  <2> QED BY <1>1, <2>4, <2>5
<1>2. CASE x # 1
  <2> DEFINE c == Before(p, x)
  <2>1. c \in Kids(line, q)
    BY <1>2, BeforeIsChild
  <2>2. \A d \in Kids(line, q) : d # c => t2[d] = t[d]
    BY <1>2, OnChain
  <2>3. \E r \in Nat :
          /\ Taken(line, st, h, k, q, b, n) = EnvelopesOf({q}, k) + (t[c] + r)
          /\ Taken(line, st, h2, k2, q, b2, n2) = EnvelopesOf({q}, k2) + (t2[c] + r)
    <3>1. /\ Taken(line, st, h, k, q, b, n) = EnvelopesOf({q}, k) + Total(t, Kids(line, q))
          /\ Taken(line, st, h2, k2, q, b2, n2) = EnvelopesOf({q}, k2) + Total(t2, Kids(line, q))
      BY DEF Taken
    <3>2. \A d \in Kids(line, q) : t[d] \in Nat /\ t2[d] \in Nat
      BY PartsType, KidsFinite
    <3> HIDE DEF c, q, t, t2
    <3>3. \E r \in Nat : /\ Total(t, Kids(line, q)) = t[c] + r
                         /\ Total(t2, Kids(line, q)) = t2[c] + r
      BY <2>1, <2>2, <3>2, KidsFinite, TotalSwap
    <3> QED BY <3>1, <3>3
  <2> QED BY <1>2, <2>3
<1> QED BY <1>1, <1>2

\* An envelope of p counts at and above p.
LEMMA EnvDrop ==
    ASSUME NEW k \in Tables, NEW i \in Calls, k[i] # NoCall, NEW j \in Tables,
           j[i] = NoCall, \A x \in Calls : x # i => j[x] = k[x],
           Exists(k[i].pid), NEW c \in Pids
    PROVE  /\ Env(line, st, k, c) =
                Env(line, st, j, c) + (IF c \in Chain(k[i].pid) THEN k[i].max ELSE 0)
           /\ EnvelopesOf({c}, k) =
                EnvelopesOf({c}, j) + (IF c = k[i].pid THEN k[i].max ELSE 0)
<1> DEFINE S == {d \in Under(line, c) : st[d] \in {"live", "dead"}}
<1>1. k[i].pid \in Pids
  BY DEF Tables, Envelopes
<1>2. k[i].pid \in S <=> c \in Chain(k[i].pid)
  BY <1>1 DEF Exists, Under, Chain
<1>3. \A T : EnvelopesOf(T, k) = EnvelopesOf(T, j) + (IF k[i].pid \in T THEN k[i].max ELSE 0)
  <2> TAKE T
  <2> QED BY EnvelopesDrop
<1>4. EnvelopesOf(S, k) = EnvelopesOf(S, j) + (IF k[i].pid \in S THEN k[i].max ELSE 0)
  BY <1>3, Zenon
<1>6. EnvelopesOf({c}, k) = EnvelopesOf({c}, j) + (IF k[i].pid \in {c} THEN k[i].max ELSE 0)
  BY <1>3, Zenon
<1>5. k[i].pid \in {c} <=> c = k[i].pid
  OBVIOUS
<1> HIDE DEF S
<1>7. /\ EnvelopesOf(S, k) = EnvelopesOf(S, j) + (IF c \in Chain(k[i].pid) THEN k[i].max ELSE 0)
      /\ EnvelopesOf({c}, k) = EnvelopesOf({c}, j) + (IF c = k[i].pid THEN k[i].max ELSE 0)
  BY <1>2, <1>4, <1>5, <1>6
<1> QED BY <1>7 DEF Env, S

\* The first of a line is its process, and no other is.
LEMMA FirstInLine ==
    ASSUME TypeOK, Lines(line), NEW p \in Pids, NEW x \in 1 .. Len(line[p])
    PROVE  line[p][x] = p <=> x = 1
<1>1. line \in [Pids -> Seq(Pids)] /\ Len(line[p]) \in Nat
  BY Types
<1>2. line[p][1] = p /\ 1 \in 1 .. Len(line[p])
  BY <1>1 DEF Lines
<1> QED BY <1>1, <1>2, LineOnce

\* The chain of p is what is in its line.
LEMMA InChain ==
    ASSUME TypeOK, NEW p \in Pids, NEW q
    PROVE  q \in Chain(p) <=> \E x \in 1 .. Len(line[p]) : line[p][x] = q
  BY Types, RangeOfLine DEF Chain

\* What a charge leaves, process by process.
LEMMA ChargeTypes ==
    ASSUME TypeOK, NEW p \in Pids, NEW n \in Nat
    PROVE  /\ Charged(p, n) \in Amount /\ Consumed(p, n) \in Amount
           /\ \A q \in Pids : /\ Charged(p, n)[q] = IF q \in Chain(p) THEN used[q] + n ELSE used[q]
                              /\ Consumed(p, n)[q] =
                                   IF q \in Chain(p) THEN Less(held[q], n) ELSE held[q]
<1>1. \A q \in Pids : used[q] \in Nat /\ held[q] \in Nat /\ Less(held[q], n) \in Nat
  BY Types, LessType
<1> QED BY <1>1 DEF Charged, Consumed, Amount

\* A charge that passed its preflight leaves nobody of the chain over its limit.
LEMMA ChargeFits ==
    ASSUME IInv, NEW p \in Pids, NEW n \in Nat, Preflight(p, n, call),
           NEW q \in Chain(p), limit[q] # Unlimited
    PROVE  q \in Pids /\ Need(line, st, Charged(p, n), Consumed(p, n), call, q) <= limit[q]
<1> DEFINE h2 == Consumed(p, n)
<1>0. /\ TypeOK /\ Lines(line) /\ held \in Amount /\ call \in Tables /\ h2 \in Amount
      /\ line \in [Pids -> Seq(Pids)] /\ NoPid \notin Pids
  BY Types, ChargeTypes, BudgetAssumption DEF IInv, LineInv
<1>1. PICK x \in 1 .. Len(line[p]) : line[p][x] = q
  BY <1>0, InChain
<1> DEFINE b == Before(p, x)
           t == Parts(line, st, held, call, b, n)
           t2 == Parts(line, st, h2, call, NoPid, 0)
<1>2. q \in Pids
  BY <1>0, <1>1
<1>3. (used[q] + n) + Taken(line, st, held, call, q, b, n) <= limit[q]
  BY <1>0, <1>1, PreflightIs
<1>4. ASSUME NEW c \in Kids(line, q) PROVE t2[c] <= t[c]
  <2> DEFINE e == Env(line, st, call, c)
  <2>1. c \in Pids /\ c # NoPid /\ held[c] \in Nat /\ h2[c] \in Nat /\ e \in Nat
    BY <1>0, KidsFinite, EnvType DEF Amount
  <2>2. t[c] = Part(held, e, b, n, c) /\ t2[c] = Part(h2, e, NoPid, 0, c)
    BY <1>0, <2>1, PartsType
  <2>3. CASE c \in Chain(p)
    <3>1. c = b /\ h2[c] = Less(held[c], n)
      BY <1>0, <1>1, <2>1, <2>3, OnChain, ChargeTypes
    <3>2. held[c] = 0 \/ e + n <= held[c]
      <4>1. PICK y \in 1 .. Len(line[p]) : line[p][y] = c
        BY <1>0, <2>3, InChain
      <4> QED BY <4>1, Spare
    <3> HIDE DEF b, e, t, t2, h2
    <3> QED BY <2>1, <2>2, <3>1, <3>2 DEF Part, Less
  <2>4. CASE c \notin Chain(p)
    <3>1. h2[c] = held[c]
      BY <1>0, <2>1, <2>4, ChargeTypes
    <3>2. c # b
      <4>1. CASE x = 1
        BY <2>1, <4>1 DEF Before
      <4>2. CASE x # 1
        BY <1>0, <1>1, <2>4, <4>2, OnChain
      <4> QED BY <4>1, <4>2
    <3> HIDE DEF b, e, t, t2, h2
    <3> QED BY <2>1, <2>2, <3>1, <3>2 DEF Part, Less
  <2> QED BY <2>3, <2>4
<1>5. Taken(line, st, h2, call, q, NoPid, 0) <= Taken(line, st, held, call, q, b, n)
  <2>1. EnvelopesOf({q}, call) <= EnvelopesOf({q}, call)
    BY <1>0, EnvelopesType
  <2> HIDE DEF b, h2
  <2> QED BY <1>0, <1>2, <1>4, <2>1, TakenMono
<1>6. /\ Taken(line, st, h2, call, q, NoPid, 0) \in Nat
      /\ Taken(line, st, held, call, q, b, n) \in Nat
  BY <1>0, TakenType
<1>7. used[q] \in Nat /\ limit[q] \in Nat /\ Charged(p, n)[q] = used[q] + n
  BY <1>0, <1>2, Types, ChargeTypes
<1>8. Need(line, st, Charged(p, n), h2, call, q) =
        Charged(p, n)[q] + Taken(line, st, h2, call, q, NoPid, 0)
  BY DEF Need
<1> HIDE DEF b, h2
<1>9. Need(line, st, Charged(p, n), h2, call, q) <= limit[q]
  BY <1>3, <1>5, <1>6, <1>7, <1>8
<1> QED BY <1>2, <1>9 DEF h2

-----------------------------------------------------------------------------
(* What may change and leaves a process no more committed *)

\* Fewer envelopes, of the same processes, take less.
LEMMA EnvelopesLess ==
    ASSUME NEW k \in Tables, NEW k2 \in Tables, NEW S, NEW T,
           \A i \in Calls : k2[i] # NoCall /\ k2[i].pid \in S =>
             k[i] # NoCall /\ k[i].pid \in T /\ k2[i].max = k[i].max
    PROVE  EnvelopesOf(S, k2) <= EnvelopesOf(T, k)
<1> DEFINE f == [i \in Calls |-> Share(S, k2, i)]
           g == [i \in Calls |-> Share(T, k, i)]
<1>1. \A i \in Calls : f[i] \in Nat /\ g[i] \in Nat
  BY ShareType
<1>2. \A i \in Calls : f[i] <= g[i]
  <2>1. ASSUME NEW i \in Calls PROVE Share(S, k2, i) <= Share(T, k, i)
    <3>1. Share(S, k2, i) \in Nat /\ Share(T, k, i) \in Nat
      BY ShareType
    <3> QED BY <3>1 DEF Share
  <2> QED BY <2>1
<1> HIDE DEF f, g
<1>3. Total(f, Calls) <= Total(g, Calls)
  BY <1>1, <1>2, BudgetAssumption, TotalMono
<1> QED BY <1>3, EnvelopesAre DEF f, g

\* A process and its children with less allocated and fewer envelopes is no more committed.
LEMMA NeedMono ==
    ASSUME NEW l, NEW s, NEW u \in Amount, NEW h \in Amount, NEW k \in Tables,
           NEW s2, NEW u2 \in Amount, NEW h2 \in Amount, NEW k2 \in Tables, NEW q \in Pids,
           u2[q] <= u[q],
           \A c \in Kids(l, q) : h2[c] <= h[c],
           \A d \in Pids : s2[d] \in {"live", "dead"} => s[d] \in {"live", "dead"},
           \A i \in Calls : k2[i] # NoCall =>
             k[i] # NoCall /\ k2[i].pid = k[i].pid /\ k2[i].max = k[i].max
    PROVE  Need(l, s2, u2, h2, k2, q) <= Need(l, s, u, h, k, q)
<1>1. EnvelopesOf({q}, k2) <= EnvelopesOf({q}, k)
  BY EnvelopesLess
<1>2. ASSUME NEW c \in Kids(l, q)
      PROVE  Parts(l, s2, h2, k2, NoPid, 0)[c] <= Parts(l, s, h, k, NoPid, 0)[c]
  <2> DEFINE S == {d \in Under(l, c) : s2[d] \in {"live", "dead"}}
             T == {d \in Under(l, c) : s[d] \in {"live", "dead"}}
  <2>1. S \subseteq T
    BY DEF Under
  <2>2. EnvelopesOf(S, k2) <= EnvelopesOf(T, k)
    <3> HIDE DEF S, T
    <3> QED BY <2>1, EnvelopesLess
  <2>3. Env(l, s2, k2, c) <= Env(l, s, k, c)
    BY <2>2 DEF Env
  <2>4. /\ c \in Pids /\ c # NoPid /\ h[c] \in Nat /\ h2[c] \in Nat
        /\ Env(l, s2, k2, c) \in Nat /\ Env(l, s, k, c) \in Nat
    BY KidsFinite, EnvType, BudgetAssumption DEF Amount
  <2>5. Part(h2, Env(l, s2, k2, c), NoPid, 0, c) <= Part(h, Env(l, s, k, c), NoPid, 0, c)
    BY <2>3, <2>4 DEF Part, Less
  <2> QED BY <2>4, <2>5, PartsType
<1>3. Taken(l, s2, h2, k2, q, NoPid, 0) <= Taken(l, s, h, k, q, NoPid, 0)
  BY <1>1, <1>2, TakenMono
<1>4. /\ Taken(l, s2, h2, k2, q, NoPid, 0) \in Nat /\ Taken(l, s, h, k, q, NoPid, 0) \in Nat
      /\ u[q] \in Nat /\ u2[q] \in Nat
  BY TakenType DEF Amount
<1> QED BY <1>3, <1>4 DEF Need

\* A process outside a chain sees nothing of what changes along the chain.
LEMMA OffChainNeed ==
    ASSUME TypeOK, Lines(line), NEW p \in Pids, NEW q \in Pids, q \notin Chain(p),
           NEW u2 \in Amount, NEW h2 \in Amount, NEW k2 \in Tables, u2[q] = used[q],
           \A c \in Pids : c \notin Chain(p) =>
             /\ h2[c] = held[c]
             /\ Env(line, st, k2, c) = Env(line, st, call, c)
             /\ EnvelopesOf({c}, k2) = EnvelopesOf({c}, call)
    PROVE  Need(line, st, u2, h2, k2, q) <= Need(line, st, used, held, call, q)
<1>0. held \in Amount /\ call \in Tables /\ used \in Amount
  BY Types
<1>1. ASSUME NEW c \in Kids(line, q)
      PROVE  Parts(line, st, h2, k2, NoPid, 0)[c] <= Parts(line, st, held, call, NoPid, 0)[c]
  <2>1. c \in Pids /\ c \notin Chain(p) /\ h2[c] = held[c]
        /\ Env(line, st, k2, c) = Env(line, st, call, c)
    BY KidsFinite, OffChain
  <2>2. Part(h2, Env(line, st, k2, c), NoPid, 0, c) =
          Part(held, Env(line, st, call, c), NoPid, 0, c)
    BY <2>1 DEF Part
  <2>3. Part(held, Env(line, st, call, c), NoPid, 0, c) \in Nat
    BY <1>0, <2>1, PartsType
  <2> QED BY <1>0, <2>1, <2>2, <2>3, PartsType
<1>2. EnvelopesOf({q}, k2) <= EnvelopesOf({q}, call)
  BY <1>0, EnvelopesType
<1>3. Taken(line, st, h2, k2, q, NoPid, 0) <= Taken(line, st, held, call, q, NoPid, 0)
  BY <1>0, <1>1, <1>2, TakenMono
<1>4. /\ Taken(line, st, h2, k2, q, NoPid, 0) \in Nat /\ used[q] \in Nat
      /\ Taken(line, st, held, call, q, NoPid, 0) \in Nat
  BY <1>0, TakenType DEF Amount
<1> QED BY <1>3, <1>4 DEF Need

\* Parts of the same allocation and the same envelopes, of a child that no charge consumes.
LEMMA PartSame ==
    ASSUME NEW h \in Amount, NEW k \in Tables, NEW b, NEW n \in Nat,
           NEW h2 \in Amount, NEW k2 \in Tables, NEW b2, NEW n2 \in Nat, NEW c \in Pids,
           c # b, c # b2, h2[c] = h[c], Env(line, st, k2, c) = Env(line, st, k, c)
    PROVE  Parts(line, st, h2, k2, b2, n2)[c] = Parts(line, st, h, k, b, n)[c]
<1>1. Part(h2, Env(line, st, k2, c), b2, n2, c) = Part(h, Env(line, st, k, c), b, n, c)
  BY DEF Part
<1> QED BY <1>1, PartsType

\* NoPid and the process before the x-th are outside of what is off the chain.
LEMMA OffBefore ==
    ASSUME TypeOK, Lines(line), NEW p \in Pids, NEW x \in 1 .. Len(line[p]),
           NEW c \in Kids(line, line[p][x]), c \notin Chain(p)
    PROVE  c \in Pids /\ c # NoPid /\ c # Before(p, x)
<1>1. c \in Pids /\ c # NoPid
  BY KidsFinite, BudgetAssumption
<1>2. CASE x = 1
  BY <1>1, <1>2 DEF Before
<1>3. CASE x # 1
  BY <1>1, <1>3, OnChain
<1> QED BY <1>2, <1>3

\* Arithmetic of a sum with one part exchanged.
LEMMA Exchange ==
    ASSUME NEW u \in Nat, NEW n \in Nat, NEW m \in Nat, NEW o \in Nat, NEW o2 \in Nat,
           NEW a \in Nat, NEW a2 \in Nat, NEW r \in Nat, o2 + a2 + n <= m + (o + a)
    PROVE  u + n + (o2 + (a2 + r)) <= u + m + (o + (a + r))
  OBVIOUS

\* An allocation with n to spare, and n more in envelopes.
LEMMA SpareNumbers ==
    ASSUME NEW h \in Nat, NEW e \in Nat, NEW n \in Nat, h = 0 \/ e + n <= h
    PROVE  h + Less(e + n, h) <= n + (Less(h, n) + Less(e, h))
  BY DEF Less

\* A settlement of n of the m reserved below an allocation, before and after.
LEMMA SettleNumbers ==
    ASSUME NEW h \in Nat, NEW e \in Nat, NEW m \in Nat, NEW n \in Nat, n <= m
    PROVE  /\ Less(h, n) + Less(e, Less(h, n)) + n <= h + Less(e + m, h)
           /\ Less(h, m) + Less(e, h) + m <= h + Less(e + m, h)
  BY DEF Less

\* What an envelope of p adds is what the preflight had asked for: whoever could afford n
\* more usage can afford the envelope.
LEMMA ReserveFits ==
    ASSUME IInv, NEW p \in Pids, NEW n \in Nat, Exists(p), Preflight(p, n, call),
           NEW i \in Calls, call[i] = NoCall, NEW k2 \in Tables, k2[i] # NoCall,
           k2[i].pid = p, k2[i].max = n, \A j \in Calls : j # i => k2[j] = call[j],
           NEW q \in Pids, limit[q] # Unlimited, q \notin overrun
    PROVE  Need(line, st, used, held, k2, q) <= limit[q]
<1>0. /\ TypeOK /\ Lines(line) /\ held \in Amount /\ used \in Amount /\ call \in Tables
      /\ NoPid \notin Pids /\ limit[q] \in Nat
  BY Types, BudgetAssumption DEF IInv, LineInv
<1>1. \A c \in Pids :
        /\ Env(line, st, k2, c) = Env(line, st, call, c) + (IF c \in Chain(p) THEN n ELSE 0)
        /\ EnvelopesOf({c}, k2) = EnvelopesOf({c}, call) + (IF c = p THEN n ELSE 0)
        /\ Env(line, st, call, c) \in Nat /\ EnvelopesOf({c}, call) \in Nat
  <2> TAKE c \in Pids
  <2>1. \A j \in Calls : j # i => call[j] = k2[j]
    OBVIOUS
  <2>2. /\ Env(line, st, k2, c) =
             Env(line, st, call, c) + (IF c \in Chain(k2[i].pid) THEN k2[i].max ELSE 0)
        /\ EnvelopesOf({c}, k2) =
             EnvelopesOf({c}, call) + (IF c = k2[i].pid THEN k2[i].max ELSE 0)
    BY <1>0, <2>1, EnvDrop
  <2> QED BY <1>0, <2>2, EnvType, EnvelopesType
<1>2. CASE q \notin Chain(p)
  <2>1. p \in Chain(p)
    <3>1. 1 \in 1 .. Len(line[p]) /\ line[p][1] = p
      <4>1. line[p] # <<>> /\ line[p] \in Seq(Pids)
        BY <1>0, Types DEF IInv, LineInv, Exists
      <4>2. Len(line[p]) > 0 /\ Len(line[p]) \in Nat
        BY <4>1
      <4> QED BY <1>0, <4>2 DEF Lines
    <3> QED BY <1>0, <3>1, InChain
  <2>2. \A c \in Pids : c \notin Chain(p) =>
          /\ held[c] = held[c]
          /\ Env(line, st, k2, c) = Env(line, st, call, c)
          /\ EnvelopesOf({c}, k2) = EnvelopesOf({c}, call)
    BY <1>1, <2>1
  <2>3. Need(line, st, used, held, k2, q) <= Need(line, st, used, held, call, q)
    BY <1>0, <1>2, <2>2, OffChainNeed
  <2>4. Need(line, st, used, held, call, q) <= limit[q]
    BY DEF IInv, NeedFits
  <2>5. /\ Need(line, st, used, held, call, q) \in Nat
        /\ Need(line, st, used, held, k2, q) \in Nat
    BY <1>0, TakenType DEF Need, Amount
  <2> QED BY <1>0, <2>3, <2>4, <2>5
<1>3. CASE q \in Chain(p)
  <2>1. PICK x \in 1 .. Len(line[p]) : line[p][x] = q
    BY <1>0, <1>3, InChain
  <2> DEFINE b == Before(p, x)
             part == IF x = 1 THEN 0 ELSE Parts(line, st, held, call, b, n)[b]
             part2 == IF x = 1 THEN 0 ELSE Parts(line, st, held, k2, NoPid, 0)[b]
  <2>2. \E r \in Nat :
          /\ Taken(line, st, held, call, q, b, n) = EnvelopesOf({q}, call) + (part + r)
          /\ Taken(line, st, held, k2, q, NoPid, 0) = EnvelopesOf({q}, k2) + (part2 + r)
    <3>1. AgreeOff(p, x, held, call, b, n, held, k2, NoPid, 0)
      <4>1. ASSUME NEW c \in Kids(line, line[p][x]), c \notin Chain(p)
            PROVE  Parts(line, st, held, k2, NoPid, 0)[c] = Parts(line, st, held, call, b, n)[c]
        <5>1. c \in Pids /\ c # NoPid /\ c # b
          BY <1>0, <4>1, OffBefore
        <5>2. Env(line, st, k2, c) = Env(line, st, call, c) + 0 /\ Env(line, st, call, c) \in Nat
          BY <1>1, <4>1, <5>1
        <5> HIDE DEF b
        <5> QED BY <1>0, <5>1, <5>2, PartSame
      <4> QED BY <4>1 DEF AgreeOff
    <3>2. DifferOn(p, x, held, call, b, n, held, k2, NoPid, 0)
      BY <1>0, <3>1, ChainSwap
    <3> QED BY <2>1, <3>2 DEF DifferOn
  <2>3. PICK r \in Nat :
          /\ Taken(line, st, held, call, q, b, n) = EnvelopesOf({q}, call) + (part + r)
          /\ Taken(line, st, held, k2, q, NoPid, 0) = EnvelopesOf({q}, k2) + (part2 + r)
    BY <2>2
  <2>4. (used[q] + n) + Taken(line, st, held, call, q, b, n) <= limit[q]
    BY <1>0, <2>1, PreflightIs
  <2>5. /\ EnvelopesOf({q}, k2) + part2 <= n + (EnvelopesOf({q}, call) + part)
        /\ part \in Nat /\ part2 \in Nat
    <3>1. CASE x = 1
      <4>1. q = p
        BY <1>0, <2>1, <3>1, FirstInLine
      <4>2. part = 0 /\ part2 = 0
        BY <3>1
      <4> HIDE DEF part, part2
      <4> QED BY <1>1, <4>1, <4>2
    <3>2. CASE x # 1
      <4>1. q # p
        BY <1>0, <2>1, <3>2, FirstInLine
      <4>2. b \in Kids(line, q) /\ b \in Pids /\ b \in Chain(p)
        BY <1>0, <2>1, <3>2, BeforeIsChild, OnChain
      <4>3. b # NoPid /\ held[b] \in Nat
        BY <1>0, <4>2, Types
      <4>4. held[b] = 0 \/ Env(line, st, call, b) + n <= held[b]
        <5>1. PICK y \in 1 .. Len(line[p]) : line[p][y] = b
          BY <1>0, <4>2, InChain
        <5> QED BY <5>1, Spare
      <4>5. /\ part = Part(held, Env(line, st, call, b), b, n, b)
            /\ part2 = Part(held, Env(line, st, k2, b), NoPid, 0, b)
            /\ part \in Nat /\ part2 \in Nat
        BY <1>0, <3>2, <4>2, PartsType
      <4>6. /\ Env(line, st, k2, b) = Env(line, st, call, b) + n
            /\ EnvelopesOf({q}, k2) = EnvelopesOf({q}, call) + 0
            /\ Env(line, st, call, b) \in Nat /\ EnvelopesOf({q}, call) \in Nat
        BY <1>1, <4>1, <4>2
      <4> HIDE DEF part, part2, b
      <4>7. part2 <= n + part
        <5> DEFINE e == Env(line, st, call, b)
        <5>1. part = Less(held[b], n) + Less(e, held[b]) /\ part2 = held[b] + Less(e + n, held[b])
          BY <4>3, <4>5, <4>6 DEF Part
        <5>2. e \in Nat /\ (held[b] = 0 \/ e + n <= held[b])
          BY <4>4, <4>6
        <5> HIDE DEF e
        <5> QED BY <4>3, <5>1, <5>2, SpareNumbers
      <4> QED BY <4>5, <4>6, <4>7
    <3> QED BY <3>1, <3>2
  <2>6. /\ EnvelopesOf({q}, k2) \in Nat /\ EnvelopesOf({q}, call) \in Nat /\ used[q] \in Nat
    BY <1>0, EnvelopesType, Types
  <2>7. Need(line, st, used, held, k2, q) = used[q] + Taken(line, st, held, k2, q, NoPid, 0)
    BY DEF Need
  <2>8. /\ Taken(line, st, held, call, q, b, n) \in Nat
        /\ Taken(line, st, held, k2, q, NoPid, 0) \in Nat
    BY <1>0, TakenType
  <2> HIDE DEF part, part2, b
  <2>9. /\ used[q] + 0 + (EnvelopesOf({q}, k2) + (part2 + r))
             <= used[q] + n + (EnvelopesOf({q}, call) + (part + r))
    <3>1. EnvelopesOf({q}, k2) + part2 + 0 <= n + (EnvelopesOf({q}, call) + part)
      BY <2>5, <2>6
    <3> QED BY <2>3, <2>5, <2>6, <3>1, Exchange
  <2>10. used[q] + 0 + Taken(line, st, held, k2, q, NoPid, 0)
           <= used[q] + n + Taken(line, st, held, call, q, b, n)
    BY <2>3, <2>9
  <2> QED BY <1>0, <2>4, <2>6, <2>7, <2>8, <2>10
<1> QED BY <1>2, <1>3

\* Without envelope i, of a process that has a row.
LEMMA Deactivation ==
    ASSUME TypeOK, Lines(line), NEW i \in Calls, call[i] # NoCall, Exists(call[i].pid)
    PROVE  /\ Deactivated(i) \in Tables /\ call[i].pid \in Pids /\ call[i].max \in Nat
           /\ \A c \in Pids :
                /\ Env(line, st, call, c) = Env(line, st, Deactivated(i), c)
                     + (IF c \in Chain(call[i].pid) THEN call[i].max ELSE 0)
                /\ EnvelopesOf({c}, call) = EnvelopesOf({c}, Deactivated(i))
                     + (IF c = call[i].pid THEN call[i].max ELSE 0)
                /\ Env(line, st, Deactivated(i), c) \in Nat
                /\ EnvelopesOf({c}, Deactivated(i)) \in Nat
<1> DEFINE j == Deactivated(i)
<1>1. call \in Tables
  BY Types
<1>2. /\ j \in Tables /\ j[i] = NoCall /\ \A x \in Calls : x # i => j[x] = call[x]
      /\ call[i].pid \in Pids /\ call[i].max \in Nat
  BY <1>1, BudgetAssumption DEF Tables, Envelopes, Deactivated
<1> HIDE DEF j
<1>3. ASSUME NEW c \in Pids
      PROVE  /\ Env(line, st, call, c) =
                  Env(line, st, j, c) + (IF c \in Chain(call[i].pid) THEN call[i].max ELSE 0)
             /\ EnvelopesOf({c}, call) =
                  EnvelopesOf({c}, j) + (IF c = call[i].pid THEN call[i].max ELSE 0)
  BY <1>1, <1>2, EnvDrop
<1>4. \A c \in Pids : Env(line, st, j, c) \in Nat /\ EnvelopesOf({c}, j) \in Nat
  BY <1>2, EnvType, EnvelopesType
<1> QED BY <1>2, <1>3, <1>4 DEF j

\* A launched process is the first of its chain.
LEMMA SelfInChain ==
    ASSUME TypeOK, LineInv, NEW p \in Pids, st[p] # "none"
    PROVE  p \in Chain(p) /\ 1 \in 1 .. Len(line[p]) /\ line[p][1] = p
<1>1. line[p] # <<>> /\ line[p] \in Seq(Pids)
  BY Types DEF LineInv
<1>2. Len(line[p]) > 0 /\ Len(line[p]) \in Nat
  BY <1>1
<1>3. 1 \in 1 .. Len(line[p]) /\ line[p][1] = p
  BY <1>2 DEF Lines, LineInv
<1> QED BY <1>3, InChain

\* An envelope turned into usage, up to its maximum, commits nobody to more than before.
LEMMA SettleNeed ==
    ASSUME TypeOK, LineInv, NEW i \in Calls, call[i] # NoCall, Exists(call[i].pid),
           NEW n \in Nat, n <= call[i].max, NEW q \in Pids
    PROVE  Need(line, st, Charged(call[i].pid, n), Consumed(call[i].pid, n), Deactivated(i), q)
             <= Need(line, st, used, held, call, q)
<1> DEFINE p == call[i].pid
           m == call[i].max
           k2 == Deactivated(i)
           u2 == Charged(p, n)
           h2 == Consumed(p, n)
<1>0. /\ TypeOK /\ Lines(line) /\ held \in Amount /\ used \in Amount /\ call \in Tables
      /\ NoPid \notin Pids
  BY Types, BudgetAssumption DEF LineInv
<1>1. /\ k2 \in Tables /\ p \in Pids /\ m \in Nat
      /\ \A c \in Pids :
           /\ Env(line, st, call, c) =
                Env(line, st, k2, c) + (IF c \in Chain(p) THEN m ELSE 0)
           /\ EnvelopesOf({c}, call) = EnvelopesOf({c}, k2) + (IF c = p THEN m ELSE 0)
           /\ Env(line, st, k2, c) \in Nat /\ EnvelopesOf({c}, k2) \in Nat
  BY <1>0, Deactivation
<1>2. /\ u2 \in Amount /\ h2 \in Amount
      /\ \A c \in Pids : /\ u2[c] = IF c \in Chain(p) THEN used[c] + n ELSE used[c]
                         /\ h2[c] = IF c \in Chain(p) THEN Less(held[c], n) ELSE held[c]
  BY <1>0, <1>1, ChargeTypes
<1>3. p \in Chain(p)
  BY <1>1, SelfInChain DEF Exists
<1>4. n <= m /\ used[q] \in Nat
  BY <1>0, Types
<1> HIDE DEF p, m, k2, u2, h2
<1>5. CASE q \notin Chain(p)
  <2>1. \A c \in Pids : c \notin Chain(p) =>
          /\ h2[c] = held[c]
          /\ Env(line, st, k2, c) = Env(line, st, call, c)
          /\ EnvelopesOf({c}, k2) = EnvelopesOf({c}, call)
    <3>1. ASSUME NEW c \in Pids, c \notin Chain(p)
          PROVE  /\ h2[c] = held[c]
                 /\ Env(line, st, call, c) = Env(line, st, k2, c) + 0
                 /\ EnvelopesOf({c}, call) = EnvelopesOf({c}, k2) + 0
                 /\ Env(line, st, k2, c) \in Nat /\ EnvelopesOf({c}, k2) \in Nat
      <4>1. c # p
        BY <1>3, <3>1
      <4>2. h2[c] = held[c]
        BY <1>2, <3>1
      <4> QED BY <1>1, <3>1, <4>1, <4>2
    <3> QED BY <3>1
  <2>2. u2[q] = used[q]
    BY <1>2, <1>5
  <2>3. Need(line, st, u2, h2, k2, q) <= Need(line, st, used, held, call, q)
    BY <1>0, <1>1, <1>2, <1>5, <2>1, <2>2, OffChainNeed
  <2> QED BY <2>3 DEF p, m, k2, u2, h2
<1>6. CASE q \in Chain(p)
  <2>1. PICK x \in 1 .. Len(line[p]) : line[p][x] = q
    BY <1>0, <1>1, <1>6, InChain
  <2> DEFINE b == Before(p, x)
             part == IF x = 1 THEN 0 ELSE Parts(line, st, held, call, NoPid, 0)[b]
             part2 == IF x = 1 THEN 0 ELSE Parts(line, st, h2, k2, NoPid, 0)[b]
  <2>2. AgreeOff(p, x, held, call, NoPid, 0, h2, k2, NoPid, 0)
    <3>1. ASSUME NEW c \in Kids(line, line[p][x]), c \notin Chain(p)
          PROVE  Parts(line, st, h2, k2, NoPid, 0)[c] = Parts(line, st, held, call, NoPid, 0)[c]
      <4>1. c \in Pids /\ c # NoPid /\ h2[c] = held[c]
        BY <1>0, <1>2, <3>1, KidsFinite
      <4>2. Env(line, st, call, c) = Env(line, st, k2, c) + 0 /\ Env(line, st, k2, c) \in Nat
        BY <1>1, <3>1, <4>1
      <4> QED BY <1>0, <1>1, <1>2, <4>1, <4>2, PartSame
    <3> QED BY <3>1 DEF AgreeOff
  <2>3. DifferOn(p, x, held, call, NoPid, 0, h2, k2, NoPid, 0)
    BY <1>0, <1>1, <1>2, <2>2, ChainSwap
  <2>4. PICK r \in Nat :
          /\ Taken(line, st, held, call, q, NoPid, 0) = EnvelopesOf({q}, call) + (part + r)
          /\ Taken(line, st, h2, k2, q, NoPid, 0) = EnvelopesOf({q}, k2) + (part2 + r)
    BY <2>1, <2>3 DEF DifferOn
  <2>5. /\ EnvelopesOf({q}, k2) + part2 + n <= 0 + (EnvelopesOf({q}, call) + part)
        /\ part \in Nat /\ part2 \in Nat
    <3>1. CASE x = 1
      <4>1. q = p
        BY <1>0, <1>1, <2>1, <3>1, FirstInLine
      <4>2. part = 0 /\ part2 = 0
        BY <3>1
      <4> HIDE DEF part, part2
      <4> QED BY <1>1, <1>4, <4>1, <4>2
    <3>2. CASE x # 1
      <4>1. q # p
        BY <1>0, <1>1, <2>1, <3>2, FirstInLine
      <4>2. b \in Kids(line, q) /\ b \in Pids /\ b \in Chain(p)
        BY <1>0, <1>1, <2>1, <3>2, BeforeIsChild, OnChain
      <4>3. b # NoPid /\ held[b] \in Nat /\ h2[b] = Less(held[b], n)
        BY <1>0, <1>2, <4>2, Types
      <4>4. /\ part = Part(held, Env(line, st, call, b), NoPid, 0, b)
            /\ part2 = Part(h2, Env(line, st, k2, b), NoPid, 0, b)
            /\ part \in Nat /\ part2 \in Nat
        BY <1>0, <1>1, <1>2, <3>2, <4>2, PartsType
      <4>5. /\ Env(line, st, call, b) = Env(line, st, k2, b) + m
            /\ EnvelopesOf({q}, call) = EnvelopesOf({q}, k2) + 0
            /\ Env(line, st, k2, b) \in Nat /\ EnvelopesOf({q}, k2) \in Nat
        BY <1>1, <4>1, <4>2
      <4> HIDE DEF part, part2, b
      <4>6. part2 + n <= part
        <5> DEFINE e == Env(line, st, k2, b)
        <5>1. /\ part = held[b] + Less(e + m, held[b])
              /\ part2 = Less(held[b], n) + Less(e, Less(held[b], n)) /\ e \in Nat
          BY <4>3, <4>4, <4>5 DEF Part
        <5> HIDE DEF e
        <5> QED BY <1>1, <1>4, <4>3, <5>1, SettleNumbers
      <4> QED BY <4>4, <4>5, <4>6
    <3> QED BY <3>1, <3>2
  <2>6. EnvelopesOf({q}, k2) \in Nat /\ EnvelopesOf({q}, call) \in Nat
    BY <1>0, <1>1, EnvelopesType
  <2> HIDE DEF part, part2, b
  <2>7. used[q] + n + (EnvelopesOf({q}, k2) + (part2 + r))
          <= used[q] + 0 + (EnvelopesOf({q}, call) + (part + r))
    BY <1>4, <2>4, <2>5, <2>6, Exchange
  <2>8. /\ Need(line, st, used, held, call, q) =
             used[q] + 0 + Taken(line, st, held, call, q, NoPid, 0)
        /\ Need(line, st, u2, h2, k2, q) = used[q] + n + Taken(line, st, h2, k2, q, NoPid, 0)
    BY <1>2, <1>4, <1>6 DEF Need
  <2>9. Need(line, st, u2, h2, k2, q) <= Need(line, st, used, held, call, q)
    BY <2>4, <2>7, <2>8
  <2> QED BY <2>9 DEF p, m, k2, u2, h2
<1> QED BY <1>5, <1>6

\* A sum of commitments is a number.
LEMMA NeedType ==
    ASSUME NEW l, NEW s, NEW u \in Amount, NEW h \in Amount, NEW k \in Tables, NEW q \in Pids
    PROVE  Need(l, s, u, h, k, q) \in Nat
<1>1. u[q] \in Nat /\ Taken(l, s, h, k, q, NoPid, 0) \in Nat
  BY TakenType DEF Amount
<1> QED BY <1>1 DEF Need

\* An open envelope, and no overage along its chain: the preflight of its maximum, with the
\* envelope deactivated, passes at every ancestor.
LEMMA SettlePreflight ==
    ASSUME IInv, NEW i \in Calls, call[i] # NoCall, Exists(call[i].pid),
           Chain(call[i].pid) \cap overrun = {}
    PROVE  Preflight(call[i].pid, call[i].max, Deactivated(i))
<1> DEFINE p == call[i].pid
           m == call[i].max
           k2 == Deactivated(i)
<1>0. /\ TypeOK /\ LineInv /\ Lines(line) /\ held \in Amount /\ used \in Amount /\ call \in Tables
      /\ NoPid \notin Pids
  BY Types, BudgetAssumption DEF IInv, LineInv
<1>1. /\ k2 \in Tables /\ p \in Pids /\ m \in Nat
      /\ \A c \in Pids :
           /\ Env(line, st, call, c) =
                Env(line, st, k2, c) + (IF c \in Chain(p) THEN m ELSE 0)
           /\ EnvelopesOf({c}, call) = EnvelopesOf({c}, k2) + (IF c = p THEN m ELSE 0)
           /\ Env(line, st, k2, c) \in Nat /\ EnvelopesOf({c}, k2) \in Nat
  BY <1>0, Deactivation
<1>2. Chain(p) \cap overrun = {}
  OBVIOUS
<1> HIDE DEF p, m, k2
<1>3. ASSUME NEW x \in 1 .. Len(line[p]), limit[line[p][x]] # Unlimited
      PROVE  (used[line[p][x]] + m) + Taken(line, st, held, k2, line[p][x], Before(p, x), m)
               <= limit[line[p][x]]
  <2> DEFINE q == line[p][x]
             b == Before(p, x)
             part == IF x = 1 THEN 0 ELSE Parts(line, st, held, call, NoPid, 0)[b]
             part2 == IF x = 1 THEN 0 ELSE Parts(line, st, held, k2, b, m)[b]
  <2>1. q \in Pids /\ q \in Chain(p) /\ limit[q] \in Nat /\ used[q] \in Nat
    BY <1>0, <1>1, <1>3, Types, InChain
  <2>2. AgreeOff(p, x, held, call, NoPid, 0, held, k2, b, m)
    <3>1. ASSUME NEW c \in Kids(line, line[p][x]), c \notin Chain(p)
          PROVE  Parts(line, st, held, k2, b, m)[c] = Parts(line, st, held, call, NoPid, 0)[c]
      <4>1. c \in Pids /\ c # NoPid /\ c # b
        BY <1>0, <1>1, <3>1, OffBefore
      <4>2. Env(line, st, call, c) = Env(line, st, k2, c) + 0 /\ Env(line, st, k2, c) \in Nat
        BY <1>1, <3>1, <4>1
      <4> HIDE DEF b
      <4> QED BY <1>0, <1>1, <4>1, <4>2, PartSame
    <3> QED BY <3>1 DEF AgreeOff
  <2>3. DifferOn(p, x, held, call, NoPid, 0, held, k2, b, m)
    BY <1>0, <1>1, <2>2, ChainSwap
  <2>4. PICK r \in Nat :
          /\ Taken(line, st, held, call, q, NoPid, 0) = EnvelopesOf({q}, call) + (part + r)
          /\ Taken(line, st, held, k2, q, b, m) = EnvelopesOf({q}, k2) + (part2 + r)
    BY <2>3 DEF DifferOn
  <2>5. /\ EnvelopesOf({q}, k2) + part2 + m <= 0 + (EnvelopesOf({q}, call) + part)
        /\ part \in Nat /\ part2 \in Nat
    <3>1. CASE x = 1
      <4>1. q = p
        BY <1>0, <1>1, <3>1, FirstInLine
      <4>2. part = 0 /\ part2 = 0
        BY <3>1
      <4> HIDE DEF part, part2, q
      <4> QED BY <1>1, <4>1, <4>2
    <3>2. CASE x # 1
      <4>1. q # p
        BY <1>0, <1>1, <3>2, FirstInLine
      <4>2. b \in Kids(line, q) /\ b \in Pids /\ b \in Chain(p)
        BY <1>0, <1>1, <3>2, BeforeIsChild, OnChain
      <4>3. b # NoPid /\ held[b] \in Nat
        BY <1>0, <4>2, Types
      <4>4. /\ part = Part(held, Env(line, st, call, b), NoPid, 0, b)
            /\ part2 = Part(held, Env(line, st, k2, b), b, m, b)
            /\ part \in Nat /\ part2 \in Nat
        BY <1>0, <1>1, <3>2, <4>2, PartsType
      <4> HIDE DEF part, part2, b, q
      <4>5. /\ Env(line, st, call, b) = Env(line, st, k2, b) + m
            /\ EnvelopesOf({q}, call) = EnvelopesOf({q}, k2) + 0
            /\ Env(line, st, k2, b) \in Nat /\ EnvelopesOf({q}, k2) \in Nat
        BY <1>1, <2>1, <4>1, <4>2
      <4>6. part2 + m <= part
        <5> DEFINE e == Env(line, st, k2, b)
        <5>1. /\ part = held[b] + Less(e + m, held[b])
              /\ part2 = Less(held[b], m) + Less(e, held[b]) /\ e \in Nat
          BY <4>3, <4>4, <4>5 DEF Part
        <5>2. m <= m
          BY <1>1
        <5> HIDE DEF e
        <5> QED BY <1>1, <4>3, <5>1, <5>2, SettleNumbers
      <4>7. part \in Nat /\ part2 \in Nat
        BY <4>4
      <4> QED BY <1>1, <4>5, <4>6, <4>7
    <3> QED BY <3>1, <3>2
  <2>6. EnvelopesOf({q}, k2) \in Nat /\ EnvelopesOf({q}, call) \in Nat
    BY <1>0, <1>1, EnvelopesType
  <2>7. Need(line, st, used, held, call, q) <= limit[q]
    BY <1>2, <1>3, <2>1 DEF IInv, NeedFits
  <2> HIDE DEF part, part2, b, q
  <2>8. used[q] + m + (EnvelopesOf({q}, k2) + (part2 + r))
          <= used[q] + 0 + (EnvelopesOf({q}, call) + (part + r))
    BY <1>1, <2>1, <2>4, <2>5, <2>6, Exchange
  <2>9. Need(line, st, used, held, call, q) = used[q] + 0 + Taken(line, st, held, call, q, NoPid, 0)
    BY <2>1 DEF Need
  <2>10. /\ Taken(line, st, held, k2, q, b, m) \in Nat
         /\ Need(line, st, used, held, call, q) \in Nat
    BY <1>0, <1>1, <2>1, TakenType, NeedType
  <2>11. used[q] + m + Taken(line, st, held, k2, q, b, m) <= limit[q]
    BY <1>1, <2>1, <2>4, <2>7, <2>8, <2>9, <2>10
  <2> QED BY <2>11 DEF q, b
<1>4. Preflight(p, m, k2)
  BY <1>0, <1>1, <1>3, PreflightIs
<1> QED BY <1>4 DEF p, m, k2

\* SettlementFits follows from the invariant.
LEMMA SettlementAlwaysFits ==
    ASSUME IInv
    PROVE  SettlementFits
<1>0. TypeOK /\ LineInv /\ call \in Tables /\ used \in Amount /\ held \in Amount
  BY Types DEF IInv
<1>1. ASSUME NEW i \in Calls, call[i] # NoCall, call[i].open,
             Chain(call[i].pid) \cap overrun = {}
      PROVE  CanSettle(i, call[i].max)
  <2> DEFINE p == call[i].pid
             m == call[i].max
             k2 == Deactivated(i)
  <2>1. Exists(p)
    BY <1>1 DEF IInv, CallsInv
  <2>2. Preflight(p, m, k2)
    BY <1>1, <2>1, SettlePreflight
  <2>3. k2 \in Tables /\ p \in Pids /\ m \in Nat /\ m <= m
    BY <1>0, <1>1, <2>1, Deactivation DEF LineInv
  <2>4. Charged(p, m) \in Amount /\ Consumed(p, m) \in Amount
    BY <1>0, <2>3, ChargeTypes
  <2>5. ASSUME NEW q \in Chain(p), limit[q] # Unlimited
        PROVE  Need(line, st, Charged(p, m), Consumed(p, m), k2, q) <= limit[q]
    <3>1. q \in Pids /\ q \notin overrun
      BY <1>0, <1>1, <2>3, Types, RangeOfLine DEF Chain
    <3>2. Need(line, st, used, held, call, q) <= limit[q] /\ limit[q] \in Nat
      BY <1>0, <2>5, <3>1, Types DEF IInv, NeedFits
    <3>3. Need(line, st, Charged(p, m), Consumed(p, m), k2, q)
            <= Need(line, st, used, held, call, q)
      BY <1>0, <1>1, <2>1, <2>3, <3>1, SettleNeed
    <3>4. /\ Need(line, st, used, held, call, q) \in Nat
          /\ Need(line, st, Charged(p, m), Consumed(p, m), k2, q) \in Nat
      BY <1>0, <2>3, <2>4, <3>1, NeedType
    <3> QED BY <3>2, <3>3, <3>4
  <2> HIDE DEF p, m, k2
  <2>6. FirstExceeded(p, Charged(p, m), Consumed(p, m), k2) = {}
    BY <1>0, <2>3, <2>4, <2>5, FirstExceededIs
  <2> QED BY <2>2, <2>6 DEF CanSettle, p, m, k2
<1> QED BY <1>1 DEF SettlementFits

-----------------------------------------------------------------------------
(* Launches *)

\* A process that was not launched is in no line.
LEMMA NotInLines ==
    ASSUME TypeOK, LineInv, NEW c \in Pids, st[c] = "none", NEW d \in Pids
    PROVE  c \notin Range(line[d]) /\ Len(line[c]) = 0
<1>0. line[d] \in Seq(Pids) /\ Len(line[d]) \in Nat /\ line[c] = <<>>
  BY Types DEF LineInv
<1>1. Len(line[c]) = 0
  BY <1>0
<1>2. ASSUME NEW x \in 1 .. Len(line[d]), line[d][x] = c PROVE FALSE
  <2>1. Len(line[c]) = Len(line[d]) - x + 1
    BY <1>2 DEF LineInv, Lines
  <2> QED BY <1>0, <1>1, <2>1
<1> QED BY <1>0, <1>1, <1>2, RangeOfLine

\* The lines after the launch of c under p.
LaunchedUnder(p, c, l2) ==
    /\ l2 \in [Pids -> Seq(Pids)]
    /\ l2[c] = <<c>> \o line[p]
    /\ \A d \in Pids : d # c => l2[d] = line[d]

\* The line of the new process.
LEMMA NewLine ==
    ASSUME TypeOK, LineInv, NEW p \in Pids, NEW c \in Pids, st[p] # "none", st[c] = "none",
           NEW l2, LaunchedUnder(p, c, l2)
    PROVE  /\ p # c /\ Len(l2[c]) = Len(line[p]) + 1 /\ Len(line[p]) \in Nat /\ Len(line[p]) > 0
           /\ l2[c][1] = c /\ l2[c][2] = p
           /\ \A x \in 2 .. Len(l2[c]) : l2[c][x] = line[p][x - 1] /\ l2[c][x] \in Pids \ {c}
           /\ \A q : q \in Range(l2[c]) <=> q = c \/ q \in Range(line[p])
<1>0. line[p] \in Seq(Pids) /\ Len(line[p]) \in Nat /\ l2[c] = <<c>> \o line[p] /\ p # c
      /\ l2[c] \in Seq(Pids)
  BY Types DEF LaunchedUnder
<1>1. line[p][1] = p /\ 1 \in 1 .. Len(line[p])
  BY SelfInChain
<1>2. Len(l2[c]) = Len(line[p]) + 1 /\ l2[c][1] = c
  BY <1>0
<1>3. \A x \in 2 .. Len(l2[c]) : l2[c][x] = line[p][x - 1] /\ x - 1 \in 1 .. Len(line[p])
  BY <1>0, <1>2
<1>4. \A y \in 1 .. Len(line[p]) : line[p][y] \in Pids /\ line[p][y] # c
  BY <1>0, NotInLines, RangeOfLine
<1>5. l2[c][2] = p
  <2>1. 2 \in 2 .. Len(l2[c]) /\ 2 - 1 = 1
    BY <1>0, <1>1, <1>2
  <2> QED BY <1>1, <1>3, <2>1
<1>6. ASSUME NEW q PROVE q \in Range(l2[c]) <=> q = c \/ q \in Range(line[p])
  <2>1. ASSUME NEW y \in 1 .. Len(line[p]), line[p][y] = q PROVE q \in Range(l2[c])
    <3>1. y + 1 \in 2 .. Len(l2[c]) /\ (y + 1) - 1 = y /\ y + 1 \in 1 .. Len(l2[c])
      BY <1>0, <1>2
    <3>2. l2[c][y + 1] = q
      BY <1>3, <2>1, <3>1
    <3> QED BY <1>0, <3>1, <3>2, RangeOfLine
  <2>2. c \in Range(l2[c])
    <3>1. 1 \in 1 .. Len(l2[c])
      BY <1>0, <1>2
    <3> QED BY <1>0, <1>2, <3>1, RangeOfLine
  <2>3. ASSUME NEW y \in 1 .. Len(l2[c]), l2[c][y] = q PROVE q = c \/ q \in Range(line[p])
    <3>1. CASE y = 1
      BY <1>2, <2>3, <3>1
    <3>2. CASE y # 1
      <4>1. y \in 2 .. Len(l2[c])
        BY <1>0, <1>2, <3>2
      <4> QED BY <1>0, <1>3, <2>3, <4>1, RangeOfLine
    <3> QED BY <3>1, <3>2
  <2>4. /\ q \in Range(l2[c]) <=> \E y \in 1 .. Len(l2[c]) : l2[c][y] = q
        /\ q \in Range(line[p]) <=> \E y \in 1 .. Len(line[p]) : line[p][y] = q
    BY <1>0, RangeOfLine
  <2>5. q \in Range(line[p]) => q \in Range(l2[c])
    BY <2>1, <2>4, Zenon
  <2>6. q \in Range(l2[c]) => q = c \/ q \in Range(line[p])
    BY <2>3, <2>4, Zenon
  <2> QED BY <2>2, <2>5, <2>6
<1>7. \A q : q \in Range(l2[c]) <=> q = c \/ q \in Range(line[p])
  BY <1>6
<1>8. \A x \in 2 .. Len(l2[c]) : l2[c][x] = line[p][x - 1] /\ l2[c][x] \in Pids \ {c}
  BY <1>3, <1>4
<1> QED BY <1>0, <1>1, <1>2, <1>5, <1>7, <1>8

\* Lines stay lines.
LEMMA NewLines ==
    ASSUME TypeOK, LineInv, NEW p \in Pids, NEW c \in Pids, st[p] # "none", st[c] = "none",
           NEW l2, LaunchedUnder(p, c, l2)
    PROVE  Lines(l2)
<1>0. /\ line \in [Pids -> Seq(Pids)] /\ l2 \in [Pids -> Seq(Pids)] /\ Lines(line)
      /\ \A d \in Pids : d # c => l2[d] = line[d]
  BY Types DEF LaunchedUnder, LineInv
<1>1. /\ p # c /\ Len(l2[c]) = Len(line[p]) + 1 /\ Len(line[p]) \in Nat
      /\ l2[c][1] = c
      /\ \A x \in 2 .. Len(l2[c]) : l2[c][x] = line[p][x - 1] /\ l2[c][x] \in Pids \ {c}
  BY NewLine
<1>2. ASSUME NEW d \in Pids, d # c, NEW x \in 1 .. Len(l2[d])
      PROVE  /\ Len(l2[l2[d][x]]) = Len(l2[d]) - x + 1
             /\ \A y \in 1 .. Len(l2[l2[d][x]]) : l2[l2[d][x]][y] = l2[d][x + y - 1]
  <2>1. l2[d] = line[d] /\ line[d] \in Seq(Pids) /\ line[d][x] \in Pids
    BY <1>0, <1>2
  <2>2. line[d][x] # c
    BY <1>2, <2>1, NotInLines, RangeOfLine
  <2>3. l2[line[d][x]] = line[line[d][x]]
    BY <1>0, <2>1, <2>2
  <2>4. /\ Len(line[line[d][x]]) = Len(line[d]) - x + 1
        /\ \A y \in 1 .. Len(line[line[d][x]]) : line[line[d][x]][y] = line[d][x + y - 1]
    BY <1>0, <1>2, <2>1 DEF Lines
  <2> QED BY <2>1, <2>3, <2>4
<1>3. ASSUME NEW x \in 1 .. Len(l2[c])
      PROVE  /\ Len(l2[l2[c][x]]) = Len(l2[c]) - x + 1
             /\ \A y \in 1 .. Len(l2[l2[c][x]]) : l2[l2[c][x]][y] = l2[c][x + y - 1]
  <2>1. CASE x = 1
    <3>1. l2[l2[c][x]] = l2[c]
      BY <1>1, <2>1
    <3>2. \A y \in 1 .. Len(l2[c]) : x + y - 1 = y
      BY <1>1, <2>1
    <3>3. Len(l2[c]) - x + 1 = Len(l2[c])
      BY <1>1, <2>1
    <3> QED BY <3>1, <3>2, <3>3
  <2>2. CASE x # 1
    <3> DEFINE z == x - 1
               q == line[p][z]
    <3>1. x \in 2 .. Len(l2[c]) /\ z \in 1 .. Len(line[p]) /\ z \in Nat
      BY <1>1, <2>2
    <3>2. l2[c][x] = q /\ q \in Pids /\ q # c
      BY <1>1, <3>1
    <3>3. /\ Len(line[q]) = Len(line[p]) - z + 1
          /\ \A y \in 1 .. Len(line[q]) : line[q][y] = line[p][z + y - 1]
      BY <1>0, <3>1 DEF Lines
    <3>4. l2[q] = line[q]
      BY <1>0, <3>2
    <3>5. ASSUME NEW y \in 1 .. Len(line[q]) PROVE line[q][y] = l2[c][x + y - 1]
      <4>1. x + y - 1 \in 2 .. Len(l2[c]) /\ (x + y - 1) - 1 = z + y - 1
        BY <1>1, <3>1, <3>3
      <4>2. l2[c][x + y - 1] = line[p][(x + y - 1) - 1]
        BY <1>1, <4>1
      <4>3. line[q][y] = line[p][z + y - 1]
        BY <3>3
      <4> QED BY <4>1, <4>2, <4>3
    <3>6. Len(line[q]) = Len(l2[c]) - x + 1
      BY <1>1, <3>1, <3>3
    <3> HIDE DEF q, z
    <3> QED BY <3>2, <3>4, <3>5, <3>6
  <2> QED BY <2>1, <2>2
<1>4. \A d \in Pids : Len(l2[d]) > 0 => l2[d][1] = d
  BY <1>0, <1>1 DEF Lines
<1>5. ASSUME NEW d \in Pids, NEW x \in 1 .. Len(l2[d])
      PROVE  /\ Len(l2[l2[d][x]]) = Len(l2[d]) - x + 1
             /\ \A y \in 1 .. Len(l2[l2[d][x]]) : l2[l2[d][x]][y] = l2[d][x + y - 1]
  BY <1>2, <1>3
<1> QED BY <1>4, <1>5 DEF Lines

\* A launch adds a child to its parent and a process to the subtrees of its ancestors.
LEMMA NewKin ==
    ASSUME TypeOK, LineInv, NEW p \in Pids, NEW c \in Pids, st[p] # "none", st[c] = "none",
           NEW l2, LaunchedUnder(p, c, l2), NEW q \in Pids
    PROVE  /\ Kids(l2, q) = Kids(line, q) \cup (IF q = p THEN {c} ELSE {})
           /\ c \notin Kids(line, q) /\ Kids(line, c) = {}
           /\ Under(line, q) \subseteq Under(l2, q)
           /\ q # c => Under(l2, q) \subseteq Under(line, q) \cup {c}
           /\ Under(l2, c) = {c}
<1>0. /\ \A d \in Pids : d # c => l2[d] = line[d]
      /\ \A d \in Pids : c \notin Range(line[d]) /\ line[d] \in Seq(Pids)
      /\ Len(line[c]) = 0
  BY Types, NotInLines DEF LaunchedUnder
<1>1. /\ p # c /\ Len(l2[c]) = Len(line[p]) + 1 /\ Len(line[p]) \in Nat /\ Len(line[p]) > 0
      /\ l2[c][2] = p /\ (\A y : y \in Range(l2[c]) <=> y = c \/ y \in Range(line[p]))
  <2>1. /\ p # c /\ Len(l2[c]) = Len(line[p]) + 1 /\ Len(line[p]) \in Nat /\ Len(line[p]) > 0
        /\ l2[c][2] = p
    BY NewLine
  <2>2. \A y : y \in Range(l2[c]) <=> y = c \/ y \in Range(line[p])
    BY NewLine, Zenon
  <2> QED BY <2>1, <2>2
<1>2. ASSUME NEW d \in Pids
      PROVE  d \in Kids(l2, q) <=> d \in Kids(line, q) \/ (q = p /\ d = c)
  <2>1. CASE d = c
    BY <1>0, <1>1, <2>1 DEF Kids
  <2>2. CASE d # c
    BY <1>0, <2>2 DEF Kids
  <2> QED BY <2>1, <2>2
<1>3. c \notin Kids(line, q)
  BY <1>0 DEF Kids
<1>4. ASSUME NEW d \in Kids(line, c) PROVE FALSE
  <2>1. d \in Pids /\ Len(line[d]) > 1 /\ line[d][2] = c /\ line[d] \in Seq(Pids)
    BY <1>0 DEF Kids
  <2>2. 2 \in 1 .. Len(line[d])
    BY <2>1
  <2> QED BY <1>0, <2>1, <2>2, RangeOfLine
<1>5. Range(line[c]) = {}
  <2>1. \A y : y \notin Range(line[c])
    BY <1>0, RangeOfLine
  <2> QED BY <2>1
<1>6. ASSUME NEW d \in Pids
      PROVE  /\ d # c => (d \in Under(l2, q) <=> d \in Under(line, q))
             /\ d \in Under(line, q) => d # c
             /\ d \in Under(l2, c) <=> d = c
  <2>1. CASE d = c
    BY <1>1, <1>5, <2>1 DEF Under
  <2>2. CASE d # c
    BY <1>0, <2>2 DEF Under
  <2> QED BY <2>1, <2>2
<1>7. Kids(l2, q) = Kids(line, q) \cup (IF q = p THEN {c} ELSE {})
  <2>1. Kids(l2, q) \subseteq Pids /\ Kids(line, q) \subseteq Pids
    BY KidsFinite
  <2> QED BY <1>2, <2>1
<1>8. Under(l2, q) \subseteq Pids /\ Under(line, q) \subseteq Pids /\ Under(l2, c) \subseteq Pids
  BY DEF Under
<1>9. Kids(line, c) = {}
  BY <1>4
<1> QED BY <1>3, <1>6, <1>7, <1>8, <1>9

\* A launch commits the parent to the allocation and nobody else to anything.
LEMMA LaunchNeed ==
    ASSUME TypeOK, LineInv, CallsInv, NEW p \in Pids, NEW c \in Pids,
           st[p] # "none", st[c] = "none",
           NEW l2, LaunchedUnder(p, c, l2), NEW s2, NEW u2 \in Amount, NEW h2 \in Amount,
           \A d \in Pids : d # c => s2[d] = st[d] /\ u2[d] = used[d] /\ h2[d] = held[d]
    PROVE  /\ Need(l2, s2, u2, h2, call, c) = u2[c]
           /\ \A q \in Pids : q # c => Need(l2, s2, u2, h2, call, q) =
                Need(line, st, used, held, call, q) + (IF q = p THEN h2[c] ELSE 0)
<1> DEFINE t == Parts(line, st, held, call, NoPid, 0)
           t2 == Parts(l2, s2, h2, call, NoPid, 0)
<1>0. /\ held \in Amount /\ used \in Amount /\ call \in Tables /\ NoPid \notin Pids /\ p # c
      /\ \A i \in Calls : call[i] # NoCall => call[i].pid # c /\ call[i].pid \in Pids
      /\ \A d \in Pids : h2[d] \in Nat /\ u2[d] \in Nat
  BY Types, BudgetAssumption DEF CallsInv, Tables, Envelopes, Amount
<1>1. Env(l2, s2, call, c) = 0 /\ EnvelopesOf({c}, call) = 0
  <2> DEFINE S == {d \in Under(l2, c) : s2[d] \in {"live", "dead"}}
  <2>1. S \subseteq {c}
    BY NewKin
  <2>2. \A i \in Calls : call[i] # NoCall => call[i].pid \notin S
    BY <1>0, <2>1
  <2> HIDE DEF S
  <2>3. EnvelopesOf(S, call) = 0
    BY <1>0, <2>2, EnvelopesNone
  <2>4. EnvelopesOf({c}, call) = 0
    BY <1>0, EnvelopesNone
  <2> QED BY <2>3, <2>4 DEF Env, S
<1>2. ASSUME NEW d \in Pids, d # c PROVE Env(l2, s2, call, d) = Env(line, st, call, d)
  <2> DEFINE S == {e \in Under(line, d) : st[e] \in {"live", "dead"}}
             T == {e \in Under(l2, d) : s2[e] \in {"live", "dead"}}
  <2>1. Under(line, d) \subseteq Under(l2, d) /\ Under(l2, d) \subseteq Under(line, d) \cup {c}
        /\ Under(l2, d) \subseteq Pids
    BY <1>2, NewKin DEF Under
  <2>2. \A e \in Pids : e # c => (e \in S <=> e \in T)
    BY <2>1
  <2> HIDE DEF S, T
  <2>3. EnvelopesOf(S, call) <= EnvelopesOf(T, call) /\ EnvelopesOf(T, call) <= EnvelopesOf(S, call)
    BY <1>0, <2>2, EnvelopesMono
  <2>4. EnvelopesOf(S, call) \in Nat /\ EnvelopesOf(T, call) \in Nat
    BY <1>0, EnvelopesType
  <2>5. EnvelopesOf(S, call) = EnvelopesOf(T, call)
    BY <2>3, <2>4
  <2> QED BY <2>5 DEF Env, S, T
<1>3. \A d \in Pids : t[d] \in Nat /\ t2[d] \in Nat
  BY <1>0, PartsType
<1>4. ASSUME NEW d \in Pids, d # c PROVE t2[d] = t[d]
  <2>1. Part(h2, Env(l2, s2, call, d), NoPid, 0, d) =
          Part(held, Env(line, st, call, d), NoPid, 0, d)
    BY <1>2, <1>4 DEF Part
  <2> QED BY <1>0, <2>1, PartsType
<1>5. t2[c] = h2[c]
  <2>1. t2[c] = Part(h2, 0, NoPid, 0, c)
    BY <1>0, <1>1, PartsType
  <2> HIDE DEF t2
  <2>2. c # NoPid /\ h2[c] \in Nat
    BY <1>0
  <2> QED BY <2>1, <2>2 DEF Part, Less
<1>6. \A q \in Pids : /\ Need(l2, s2, u2, h2, call, q) =
                           u2[q] + (EnvelopesOf({q}, call) + Total(t2, Kids(l2, q)))
                      /\ Need(line, st, used, held, call, q) =
                           used[q] + (EnvelopesOf({q}, call) + Total(t, Kids(line, q)))
  BY DEF Need, Taken
<1> HIDE DEF t, t2
<1>7. Need(l2, s2, u2, h2, call, c) = u2[c]
  <2>1. Kids(l2, c) = {}
    BY <1>0, NewKin
  <2>2. Total(t2, Kids(l2, c)) = 0
    BY <2>1, TotalNone
  <2> QED BY <1>0, <1>1, <1>6, <2>2
<1>8. ASSUME NEW q \in Pids, q # c
      PROVE  Need(l2, s2, u2, h2, call, q) =
               Need(line, st, used, held, call, q) + (IF q = p THEN h2[c] ELSE 0)
  <2> DEFINE K == Kids(line, q)
  <2>1. K \subseteq Pids /\ IsFiniteSet(K) /\ c \notin K
    BY KidsFinite, NewKin
  <2>2. Total(t2, K) = Total(t, K) /\ Total(t, K) \in Nat
    <3>1. \A d \in K : t2[d] = t[d] /\ t2[d] \in Nat /\ t[d] \in Nat
      BY <1>3, <1>4, <2>1
    <3> HIDE DEF K
    <3> QED BY <2>1, <3>1, TotalSame, TotalType
  <2>3. Total(t2, Kids(l2, q)) = Total(t, K) + (IF q = p THEN h2[c] ELSE 0)
    <3>1. CASE q = p
      <4> DEFINE M == K \cup {c}
      <4>1. Kids(l2, q) = M
        BY <3>1, NewKin
      <4>2. IsFiniteSet(M) /\ M \ {c} = K /\ c \in M /\ M \subseteq Pids
        BY <2>1, FS_AddElement
      <4> HIDE DEF M, K
      <4>3. Total(t2, M) = t2[c] + Total(t2, M \ {c})
        BY <1>3, <4>2, TotalTake
      <4> QED BY <1>0, <1>5, <2>2, <3>1, <4>1, <4>2, <4>3
    <3>2. CASE q # p
      <4>1. Kids(l2, q) = K
        BY <3>2, NewKin
      <4> HIDE DEF K
      <4> QED BY <2>2, <3>2, <4>1
    <3> QED BY <3>1, <3>2
  <2>4. EnvelopesOf({q}, call) \in Nat /\ u2[q] = used[q] /\ used[q] \in Nat /\ h2[c] \in Nat
    BY <1>0, <1>8, EnvelopesType DEF Amount
  <2> QED BY <1>6, <2>2, <2>3, <2>4
<1> QED BY <1>7, <1>8

-----------------------------------------------------------------------------
(* Steps that launch nothing and restore nothing *)

\* The checkpoint stays as good as it was while the rows it holds are there.
LEMMA SavedKept ==
    ASSUME SavedInv, saved' = saved, overrun \subseteq overrun',
           saved # NoCheckpoint => \A d \in DOMAIN saved.st :
             d \in Pids => line'[d] = line[d] /\ limit'[d] = limit[d] /\ Exists(d)'
    PROVE  SavedInv'
<1>1. SUFFICES ASSUME saved # NoCheckpoint PROVE SavedInv'
  BY DEF SavedInv
<1> DEFINE kept == DOMAIN saved.st
<1>2. /\ saved.pid \in kept /\ kept \subseteq Under(line, saved.pid)
      /\ saved.st \in [kept -> {"live", "dead"}]
      /\ saved.used \in [kept -> Nat] /\ saved.held \in [kept -> Nat]
      /\ saved.over \in BOOLEAN
      /\ \A d \in kept : Exists(d) /\ saved.limit[d] = limit[d]
      /\ \A q \in Pids : \A c \in Kids(line, q) \cap kept : c # saved.pid => q \in kept
      /\ \A c \in kept : saved.held[c] > 0 =>
           /\ saved.st[c] = "live" /\ limit[c] # Unlimited
           /\ saved.held[c] >= Less(limit[c], saved.used[c])
      /\ \A c \in kept \ {Root} : c # saved.pid /\ saved.st[c] = "live" /\ limit[c] # Unlimited =>
           saved.held[c] >= Less(limit[c], saved.used[c])
      /\ \A q \in kept : limit[q] # Unlimited /\ q \notin overrun =>
           saved.used[q] + Total(saved.held, Kids(line, q) \cap kept) <= limit[q]
      /\ limit[saved.pid] # Unlimited /\ ~saved.over => saved.used[saved.pid] <= limit[saved.pid]
  BY <1>1 DEF SavedInv
<1>3. \A d \in kept : d \in Pids /\ line'[d] = line[d] /\ limit'[d] = limit[d] /\ Exists(d)'
  BY <1>1, <1>2 DEF Under
<1>4. \A q : Kids(line', q) \cap kept = Kids(line, q) \cap kept
  BY <1>3 DEF Kids
<1>5. kept \subseteq Under(line', saved.pid)
  BY <1>2, <1>3 DEF Under
<1> HIDE DEF kept
<1>6. /\ \A d \in kept : Exists(d)' /\ saved.limit[d] = limit'[d]
      /\ \A q \in Pids : \A c \in Kids(line', q) \cap kept : c # saved.pid => q \in kept
      /\ limit'[saved.pid] # Unlimited /\ ~saved.over => saved.used[saved.pid] <= limit'[saved.pid]
  BY <1>2, <1>3, <1>4
<1>7. /\ \A c \in kept : saved.held[c] > 0 =>
           /\ saved.st[c] = "live" /\ limit'[c] # Unlimited
           /\ saved.held[c] >= Less(limit'[c], saved.used[c])
      /\ \A c \in kept \ {Root} : c # saved.pid /\ saved.st[c] = "live" /\ limit'[c] # Unlimited =>
           saved.held[c] >= Less(limit'[c], saved.used[c])
  BY <1>2, <1>3
<1>8. \A q \in kept : limit'[q] # Unlimited /\ q \notin overrun' =>
           saved.used[q] + Total(saved.held, Kids(line', q) \cap kept) <= limit'[q]
  BY <1>2, <1>3, <1>4
<1> QED BY <1>2, <1>5, <1>6, <1>7, <1>8 DEF SavedInv, kept

\* A table of calls, and of statuses, of which CallsInv holds.
CallsFit(k) ==
    \A i \in Calls : k[i] # NoCall => st[k[i].pid] # "none" /\ (k[i].open => Exists(k[i].pid))

\* The usage u and the allocations h that a step leaves, before it ends the processes D.
Settled(u, h) ==
    /\ u \in Amount /\ h \in Amount
    /\ \A d \in Pids : st[d] = "none" => u[d] = used[d]
    /\ \A c \in Pids : h[c] > 0 => held[c] > 0
    /\ \A c \in Pids : held[c] >= Less(limit[c], used[c]) /\ limit[c] # Unlimited =>
         h[c] >= Less(limit[c], u[c])

\* A set of live processes that has, with a process, everything alive below it.
Ends(D) ==
    /\ D \subseteq Pids
    /\ \A d \in D : st[d] = "live"
    /\ \A c \in Pids : st[c] = "live" /\ Chain(c) \cap D # {} => c \in D

\* A step that leaves (u, h, k), ends D with the release of its allocations, and commits
\* nobody beyond its limit.
LEMMA StepInv ==
    ASSUME IInv, NEW u, NEW h, NEW k, NEW D,
           Settled(u, h), k \in Tables, CallsFit(k), Ends(D),
           \A q \in Pids : limit[q] # Unlimited /\ q \notin overrun' =>
             Need(line, st, u, h, k, q) <= limit[q],
           st' = [d \in Pids |-> IF d \in D THEN "dead" ELSE st[d]],
           held' = WithoutAllocations(h, D),
           used' = u, call' = k, UNCHANGED <<limit, line, saved>>,
           phase' \in {"up", "recovering", "refused"},
           overrun \subseteq overrun', overrun' \subseteq Pids, doomed' \subseteq overrun'
    PROVE  IInv'
<1>0. /\ TypeOK /\ GoneInv /\ LineInv /\ HeldCovers /\ AllocationCoversChild /\ SavedInv
      /\ Lines(line) /\ u \in Amount /\ h \in Amount
  BY DEF IInv, Settled, LineInv
<1>1. \A d \in Pids : /\ st[d] \in {"none", "live", "dead", "gone"}
                      /\ st'[d] = IF d \in D THEN "dead" ELSE st[d]
                      /\ d \in D => st[d] = "live"
                      /\ st'[d] = "none" <=> st[d] = "none"
                      /\ st'[d] = "gone" <=> st[d] = "gone"
                      /\ Exists(d)' <=> Exists(d)
  BY <1>0, Types DEF Ends, Exists
<1>2. \A c \in Pids : /\ held'[c] \in Nat /\ h[c] \in Nat /\ held'[c] <= h[c] /\ u[c] \in Nat
                      /\ held'[c] = IF c \in D \/ (Len(line[c]) > 1 /\ line[c][2] \in D)
                                      THEN 0 ELSE h[c]
  BY <1>0 DEF WithoutAllocations, Amount
<1>3. held' \in Amount
  BY <1>2 DEF WithoutAllocations, Amount
<1>4. TypeOK'
  <2>1. st' \in [Pids -> {"none", "live", "dead", "gone"}]
    BY <1>1
  <2>2. /\ held' \in [Pids -> Nat] /\ used' \in [Pids -> Nat]
        /\ call' \in [Calls -> Envelopes \cup {NoCall}]
    BY <1>0, <1>3 DEF Amount, Tables
  <2> QED BY <1>0, <2>1, <2>2 DEF TypeOK
<1>5. LineInv'
  <2>1. \A d \in Pids : st'[d] = "none" => used'[d] = 0
    BY <1>0, <1>1 DEF LineInv, Settled
  <2> QED BY <1>0, <1>1, <2>1 DEF LineInv
<1>6. \A c \in Pids : st[c] = "live" /\ c \notin D => held'[c] = h[c]
  <2>1. ASSUME NEW c \in Pids, st[c] = "live", c \notin D, Len(line[c]) > 1
        PROVE  line[c][2] \notin D
    <3>1. line[c] \in Seq(Pids) /\ 2 \in 1 .. Len(line[c])
      BY <1>0, <2>1, Types
    <3>2. line[c][2] \in Chain(c)
      BY <1>0, <3>1, InChain
    <3> QED BY <2>1, <3>2 DEF Ends
  <2> QED BY <1>2, <2>1
<1>7. HeldCovers'
  <2>1. ASSUME NEW c \in Pids, held'[c] > 0
        PROVE  st'[c] = "live" /\ limit[c] # Unlimited /\ held'[c] >= Less(limit[c], u[c])
    <3>1. held'[c] = h[c] /\ c \notin D /\ h[c] > 0
      BY <1>2, <2>1
    <3>2. held[c] > 0
      BY <3>1 DEF Settled
    <3>3. st[c] = "live" /\ limit[c] # Unlimited /\ held[c] >= Less(limit[c], used[c])
      BY <1>0, <3>2 DEF HeldCovers
    <3> QED BY <1>1, <3>1, <3>3 DEF Settled
  <2> QED BY <2>1 DEF HeldCovers
<1>8. AllocationCoversChild'
  <2>1. ASSUME NEW c \in Pids \ {Root}, st'[c] = "live", limit[c] # Unlimited,
               ~(saved # NoCheckpoint /\ saved.pid = c)
        PROVE  held'[c] >= Less(limit[c], u[c])
    <3>1. st[c] = "live" /\ c \notin D
      BY <1>1, <2>1
    <3>2. held[c] >= Less(limit[c], used[c])
      BY <1>0, <2>1, <3>1 DEF AllocationCoversChild
    <3>3. h[c] >= Less(limit[c], u[c])
      BY <2>1, <3>2 DEF Settled
    <3> QED BY <1>6, <3>1, <3>3
  <2> QED BY <2>1 DEF AllocationCoversChild
<1>9. NeedFits'
  <2>1. ASSUME NEW q \in Pids, limit[q] # Unlimited, q \notin overrun'
        PROVE  Need(line, st', u, held', k, q) <= limit[q]
    <3>1. Need(line, st', u, held', k, q) <= Need(line, st, u, h, k, q)
      <4>1. u[q] <= u[q] /\ \A c \in Kids(line, q) : held'[c] <= h[c]
        BY <1>2, KidsFinite
      <4>2. \A d \in Pids : st'[d] \in {"live", "dead"} => st[d] \in {"live", "dead"}
        BY <1>1
      <4> QED BY <1>0, <1>3, <4>1, <4>2, NeedMono
    <3>2. /\ Need(line, st', u, held', k, q) \in Nat /\ Need(line, st, u, h, k, q) \in Nat
          /\ limit[q] \in Nat
      BY <1>0, <1>3, <2>1, NeedType, Types
    <3> QED BY <2>1, <3>1, <3>2
  <2> QED BY <2>1 DEF NeedFits
<1>10. CallsInv'
  <2>1. ASSUME NEW i \in Calls, k[i] # NoCall
        PROVE  st'[k[i].pid] # "none" /\ (k[i].open => Exists(k[i].pid)')
    <3>1. k[i].pid \in Pids
      BY <2>1 DEF Tables, Envelopes
    <3>2. st[k[i].pid] # "none" /\ (k[i].open => Exists(k[i].pid))
      BY <2>1 DEF CallsFit
    <3> QED BY <1>1, <3>1, <3>2
  <2> QED BY <2>1 DEF CallsInv, Exists
<1>11. SavedInv'
  <2>1. saved # NoCheckpoint => \A d \in DOMAIN saved.st :
          d \in Pids => line'[d] = line[d] /\ limit'[d] = limit[d] /\ Exists(d)'
    BY <1>0, <1>1 DEF SavedInv
  <2> QED BY <1>0, <2>1, SavedKept
<1>12. GoneInv' /\ OnlyOveragesKill'
  BY <1>0, <1>1 DEF GoneInv, OnlyOveragesKill
<1> QED BY <1>4, <1>5, <1>7, <1>8, <1>9, <1>10, <1>11, <1>12 DEF IInv

\* A step that ends nobody.
LEMMA NobodyEnds ==
    ASSUME TypeOK, NEW h \in Amount
    PROVE  /\ Ends({}) /\ WithoutAllocations(h, {}) = h
           /\ st = [d \in Pids |-> IF d \in {} THEN "dead" ELSE st[d]]
  BY Types DEF Ends, WithoutAllocations, Amount

\* The usage, allocations and calls of a state with the invariant.
LEMMA AsItIs ==
    ASSUME IInv
    PROVE  /\ TypeOK /\ LineInv /\ Lines(line) /\ Settled(used, held) /\ CallsFit(call)
           /\ used \in Amount /\ held \in Amount /\ call \in Tables
           /\ overrun \subseteq Pids /\ doomed \subseteq overrun
           /\ phase \in {"up", "recovering", "refused"}
           /\ \A q \in Pids : limit[q] # Unlimited /\ q \notin overrun =>
                Need(line, st, used, held, call, q) <= limit[q]
  BY Types DEF IInv, Settled, CallsFit, CallsInv, NeedFits, TypeOK, OnlyOveragesKill, LineInv

\* Whoever is in a chain was launched.
LEMMA ChainLaunched ==
    ASSUME TypeOK, LineInv, NEW p \in Pids, NEW q \in Chain(p)
    PROVE  q \in Pids /\ st[q] # "none"
<1>1. q \in Pids
  BY Types, RangeOfLine DEF Chain
<1> QED BY <1>1, NotInLines DEF Chain

\* What a charge leaves: an allocation that covered its child still does.
LEMMA ChargeSettled ==
    ASSUME TypeOK, LineInv, NEW p \in Pids, NEW n \in Nat
    PROVE  Settled(Charged(p, n), Consumed(p, n))
<1> DEFINE u == Charged(p, n)
           h == Consumed(p, n)
<1>1. /\ u \in Amount /\ h \in Amount
      /\ \A q \in Pids : /\ u[q] = IF q \in Chain(p) THEN used[q] + n ELSE used[q]
                         /\ h[q] = IF q \in Chain(p) THEN Less(held[q], n) ELSE held[q]
  BY ChargeTypes
<1> HIDE DEF u, h
<1>2. ASSUME NEW d \in Pids, st[d] = "none" PROVE u[d] = used[d]
  BY <1>1, <1>2, ChainLaunched
<1>3. ASSUME NEW c \in Pids PROVE h[c] > 0 => held[c] > 0
  <2>1. held[c] \in Nat
    BY Types
  <2> QED BY <1>1, <2>1 DEF Less
<1>4. ASSUME NEW c \in Pids, held[c] >= Less(limit[c], used[c]), limit[c] # Unlimited
      PROVE  h[c] >= Less(limit[c], u[c])
  <2>1. held[c] \in Nat /\ used[c] \in Nat /\ limit[c] \in Nat
    BY <1>4, Types
  <2>2. CASE c \in Chain(p)
    <3>1. u[c] = used[c] + n /\ h[c] = Less(held[c], n)
      BY <1>1, <2>2
    <3> QED BY <1>4, <2>1, <3>1 DEF Less
  <2>3. CASE c \notin Chain(p)
    <3>1. u[c] = used[c] /\ h[c] = held[c]
      BY <1>1, <2>3
    <3> QED BY <1>4, <3>1
  <2> QED BY <2>2, <2>3
<1> QED BY <1>1, <1>2, <1>3, <1>4 DEF Settled, u, h

\* Steps that change no more than the calls, which are no more and no more open than before:
\* Dispatch, SettleRefused, Release, Crash, RecoverRelease, RecoverVanished and Reopen.
LEMMA FewerCalls ==
    ASSUME IInv, UNCHANGED <<st, limit, used, line, held, saved, overrun>>,
           doomed' \subseteq doomed, phase' \in {"up", "recovering", "refused"},
           call' \in Tables,
           \A i \in Calls : call'[i] # NoCall =>
             /\ call[i] # NoCall
             /\ call'[i].pid = call[i].pid /\ call'[i].max = call[i].max
             /\ call'[i].open => call[i].open
    PROVE  IInv'
<1>0. /\ TypeOK /\ LineInv /\ Lines(line) /\ Settled(used, held) /\ CallsFit(call)
      /\ used \in Amount /\ held \in Amount /\ call \in Tables
      /\ overrun \subseteq Pids /\ doomed \subseteq overrun
      /\ \A q \in Pids : limit[q] # Unlimited /\ q \notin overrun =>
           Need(line, st, used, held, call, q) <= limit[q]
  BY AsItIs
<1>1. CallsFit(call')
  BY <1>0 DEF CallsFit
<1>2. ASSUME NEW q \in Pids, limit[q] # Unlimited, q \notin overrun'
      PROVE  Need(line, st, used, held, call', q) <= limit[q]
  <2>1. used[q] <= used[q] /\ \A c \in Kids(line, q) : held[c] <= held[c]
    BY <1>0, KidsFinite DEF Amount
  <2>2. Need(line, st, used, held, call', q) <= Need(line, st, used, held, call, q)
    BY <1>0, <2>1, NeedMono
  <2>3. Need(line, st, used, held, call, q) <= limit[q] /\ limit[q] \in Nat
    BY <1>0, <1>2, Types
  <2>4. /\ Need(line, st, used, held, call', q) \in Nat
        /\ Need(line, st, used, held, call, q) \in Nat
    BY <1>0, NeedType
  <2> QED BY <2>2, <2>3, <2>4
<1>3. /\ Ends({}) /\ held' = WithoutAllocations(held, {})
      /\ st' = [d \in Pids |-> IF d \in {} THEN "dead" ELSE st[d]]
  BY <1>0, NobodyEnds
<1> QED BY <1>0, <1>1, <1>2, <1>3, StepInv

\* The steps on a call's record.
LEMMA CallSteps ==
    ASSUME IInv, NEW i \in Calls,
           Dispatch(i) \/ SettleRefused(i) \/ Release(i) \/ RecoverRelease(i) \/ RecoverVanished(i)
    PROVE  IInv'
<1>0. call \in Tables /\ phase \in {"up", "recovering", "refused"}
  BY AsItIs
<1>1. call[i] # NoCall => call[i] \in Envelopes
  BY <1>0 DEF Tables
<1>2. CASE Dispatch(i)
  <2>1. call' \in Tables
    BY <1>0, <1>1, <1>2 DEF Dispatch, Tables, Envelopes
  <2>2. \A j \in Calls : call'[j] # NoCall =>
          /\ call[j] # NoCall
          /\ call'[j].pid = call[j].pid /\ call'[j].max = call[j].max
          /\ call'[j].open => call[j].open
    BY <1>0, <1>1, <1>2 DEF Dispatch, Tables, Envelopes
  <2> QED BY <1>0, <1>2, <2>1, <2>2, FewerCalls DEF Dispatch
<1>3. CASE SettleRefused(i)
  <2>1. call' \in Tables
    BY <1>0, <1>1, <1>3 DEF SettleRefused, Tables, Envelopes
  <2>2. \A j \in Calls : call'[j] # NoCall =>
          /\ call[j] # NoCall
          /\ call'[j].pid = call[j].pid /\ call'[j].max = call[j].max
          /\ call'[j].open => call[j].open
    BY <1>0, <1>1, <1>3 DEF SettleRefused, Tables, Envelopes
  <2> QED BY <1>0, <1>3, <2>1, <2>2, FewerCalls DEF SettleRefused
<1>4. CASE Release(i) \/ RecoverRelease(i)
  <2>0. call' = [call EXCEPT ![i] = NoCall]
    BY <1>4 DEF Release, RecoverRelease, Deactivated
  <2>1. call' \in Tables
    BY <1>0, <2>0 DEF Tables
  <2>2. \A j \in Calls : call'[j] # NoCall => call'[j] = call[j]
    BY <1>0, <2>0 DEF Tables
  <2> QED BY <1>0, <1>4, <2>1, <2>2, FewerCalls DEF Release, RecoverRelease
<1>5. CASE RecoverVanished(i)
  BY <1>0, <1>5, FewerCalls DEF RecoverVanished
<1> QED BY <1>2, <1>3, <1>4, <1>5

\* A crash closes the calls.
LEMMA CrashSteps ==
    ASSUME IInv, Crash \/ Reopen
    PROVE  IInv'
<1>0. call \in Tables
  BY AsItIs
<1>1. CASE Crash
  <2>1. \A j \in Calls : /\ call[j] \in Envelopes \cup {NoCall}
                         /\ call'[j] = IF call[j] = NoCall THEN NoCall
                                       ELSE [call[j] EXCEPT !.open = FALSE]
    BY <1>0, <1>1 DEF Crash, Tables
  <2>2. ASSUME NEW j \in Calls, call[j] # NoCall
        PROVE  /\ call'[j] \in Envelopes /\ call'[j].pid = call[j].pid
               /\ call'[j].max = call[j].max /\ ~call'[j].open
    BY <2>1, <2>2 DEF Envelopes
  <2>3. call' \in Tables
    BY <1>1, <2>1, <2>2 DEF Crash, Tables
  <2> QED BY <1>1, <2>1, <2>2, <2>3, FewerCalls DEF Crash
<1>2. CASE Reopen
  BY <1>0, <1>2, FewerCalls DEF Reopen
<1> QED BY <1>1, <1>2

\* A reservation commits its chain to no more than its preflight checked.
LEMMA ReserveStep ==
    ASSUME IInv, NEW p \in Pids, NEW i \in Calls, NEW n \in Amounts, ReserveUsage(p, i, n)
    PROVE  IInv'
<1> DEFINE new == [pid |-> p, max |-> n, sent |-> FALSE, open |-> TRUE]
<1>0. /\ TypeOK /\ LineInv /\ Lines(line) /\ Settled(used, held) /\ CallsFit(call)
      /\ used \in Amount /\ held \in Amount /\ call \in Tables
      /\ overrun \subseteq Pids /\ doomed \subseteq overrun /\ n \in Nat
      /\ phase \in {"up", "recovering", "refused"}
  BY AsItIs, BudgetAssumption
<1>1. new \in Envelopes /\ new # NoCall
  <2>1. new \in Envelopes
    BY DEF Envelopes
  <2> HIDE DEF new
  <2> QED BY <2>1, BudgetAssumption
<1>2. /\ call' \in Tables /\ call'[i] = new /\ \A j \in Calls : j # i => call'[j] = call[j]
  <2> HIDE DEF new
  <2> QED BY <1>0, <1>1 DEF ReserveUsage, Tables, new
<1>3. st[p] = "live" /\ call[i] = NoCall /\ Preflight(p, n, call) /\ Exists(p)
  BY DEF ReserveUsage, Exists
<1>4. CallsFit(call')
  <2>1. ASSUME NEW j \in Calls, call'[j] # NoCall
        PROVE  st[call'[j].pid] # "none" /\ (call'[j].open => Exists(call'[j].pid))
    <3>1. CASE j = i
      BY <1>2, <1>3, <3>1
    <3>2. CASE j # i
      BY <1>0, <1>2, <2>1, <3>2 DEF CallsFit
    <3> QED BY <3>1, <3>2
  <2> QED BY <2>1 DEF CallsFit
<1>5. ASSUME NEW q \in Pids, limit[q] # Unlimited, q \notin overrun'
      PROVE  Need(line, st, used, held, call', q) <= limit[q]
  <2>1. q \notin overrun
    BY <1>5 DEF ReserveUsage
  <2>2. call'[i] # NoCall /\ call'[i].pid = p /\ call'[i].max = n
    BY <1>1, <1>2
  <2> QED BY <1>0, <1>2, <1>3, <1>5, <2>1, <2>2, ReserveFits
<1>6. /\ Ends({}) /\ held' = WithoutAllocations(held, {})
      /\ st' = [d \in Pids |-> IF d \in {} THEN "dead" ELSE st[d]]
  BY <1>0, NobodyEnds DEF ReserveUsage
<1>7. /\ used' = used /\ UNCHANGED <<limit, line, saved>> /\ phase' = phase
      /\ overrun' = overrun /\ doomed' = doomed
  BY DEF ReserveUsage
<1> QED BY <1>0, <1>2, <1>4, <1>5, <1>6, <1>7, StepInv

\* What settles an envelope, up to its maximum, and may end processes.
LEMMA SettleStep ==
    ASSUME IInv, NEW i \in Calls, call[i] # NoCall, Exists(call[i].pid),
           NEW n \in Nat, n <= call[i].max, NEW D, Ends(D),
           used' = Charged(call[i].pid, n),
           held' = WithoutAllocations(Consumed(call[i].pid, n), D),
           st' = [d \in Pids |-> IF d \in D THEN "dead" ELSE st[d]],
           call' = Deactivated(i), UNCHANGED <<limit, line, doomed, saved, phase, overrun>>
    PROVE  IInv'
<1> DEFINE p == call[i].pid
<1>0. /\ TypeOK /\ LineInv /\ Lines(line) /\ CallsFit(call)
      /\ used \in Amount /\ held \in Amount /\ call \in Tables
      /\ overrun \subseteq Pids /\ doomed \subseteq overrun
      /\ phase \in {"up", "recovering", "refused"}
      /\ \A q \in Pids : limit[q] # Unlimited /\ q \notin overrun =>
           Need(line, st, used, held, call, q) <= limit[q]
  BY AsItIs
<1>1. p \in Pids /\ Deactivated(i) \in Tables
  BY <1>0, Deactivation
<1>2. Settled(Charged(p, n), Consumed(p, n))
  BY <1>0, <1>1, ChargeSettled
<1>3. CallsFit(Deactivated(i))
  BY <1>0 DEF CallsFit, Deactivated, Tables
<1>4. ASSUME NEW q \in Pids, limit[q] # Unlimited, q \notin overrun'
      PROVE  Need(line, st, Charged(p, n), Consumed(p, n), Deactivated(i), q) <= limit[q]
  <2>1. Need(line, st, Charged(p, n), Consumed(p, n), Deactivated(i), q)
          <= Need(line, st, used, held, call, q)
    BY <1>0, SettleNeed
  <2>2. Need(line, st, used, held, call, q) <= limit[q] /\ limit[q] \in Nat
    BY <1>0, <1>4, Types
  <2>3. /\ Need(line, st, Charged(p, n), Consumed(p, n), Deactivated(i), q) \in Nat
        /\ Need(line, st, used, held, call, q) \in Nat
    BY <1>0, <1>1, <1>2, NeedType DEF Settled
  <2> QED BY <2>1, <2>2, <2>3
<1> QED BY <1>0, <1>1, <1>2, <1>3, <1>4, StepInv

\* settle_usage_reservation.
LEMMA SettleKeeps ==
    ASSUME IInv, NEW i \in Calls, NEW n \in {0} \cup Amounts, Settle(i, n)
    PROVE  IInv'
<1>1. call[i] # NoCall /\ n <= call[i].max /\ call[i].open
  BY DEF Settle
<1>2. Exists(call[i].pid)
  BY <1>1 DEF IInv, CallsInv
<1>3. n \in Nat /\ TypeOK /\ Lines(line) /\ LineInv
  BY AsItIs, BudgetAssumption
<1>4. Consumed(call[i].pid, n) \in Amount
  <2>1. call[i].pid \in Pids
    BY <1>1, <1>2, <1>3, Deactivation
  <2> QED BY <1>3, <2>1, ChargeTypes
<1>5. /\ Ends({}) /\ held' = WithoutAllocations(Consumed(call[i].pid, n), {})
      /\ st' = [d \in Pids |-> IF d \in {} THEN "dead" ELSE st[d]]
  BY <1>3, <1>4, NobodyEnds DEF Settle
<1>6. /\ used' = Charged(call[i].pid, n) /\ call' = Deactivated(i)
      /\ UNCHANGED <<limit, line, doomed, saved, phase, overrun>>
  BY DEF Settle
<1> QED BY <1>1, <1>2, <1>3, <1>5, <1>6, SettleStep

\* A kill takes everything alive below.
LEMMA KillEnds ==
    ASSUME TypeOK, Lines(line), NEW S
    PROVE  /\ Ends(Killed(S))
           /\ StatusAfterKill(S) = [d \in Pids |-> IF d \in Killed(S) THEN "dead" ELSE st[d]]
<1>1. ASSUME NEW c \in Pids, st[c] = "live", NEW e \in Chain(c) \cap Killed(S)
      PROVE  c \in Killed(S)
  <2>1. Range(line[e]) \subseteq Range(line[c])
    BY <1>1, Types, ChainUp DEF Chain
  <2>2. Chain(e) \cap S # {}
    BY DEF Killed
  <2> QED BY <1>1, <2>1, <2>2 DEF Killed, Chain
<1>2. Killed(S) \subseteq Pids /\ \A d \in Killed(S) : st[d] = "live"
  BY DEF Killed
<1>3. Ends(Killed(S))
  <2> HIDE DEF Killed
  <2> QED BY <1>1, <1>2 DEF Ends
<1> QED BY <1>3 DEF StatusAfterKill

\* The maximum charged at startup.
LEMMA RecoverKeeps ==
    ASSUME IInv, NEW i \in Calls, RecoverMaximum(i)
    PROVE  IInv'
<1> DEFINE p == call[i].pid
           n == call[i].max
           S == FirstExceeded(p, Charged(p, n), Consumed(p, n), [j \in Calls |-> NoCall])
           D == Killed(S)
<1>1. call[i] # NoCall /\ Exists(p)
  BY DEF RecoverMaximum
<1>2. TypeOK /\ LineInv /\ Lines(line)
  BY AsItIs
<1>3. n \in Nat /\ n <= call[i].max
  BY <1>1, <1>2, Deactivation
<1>4. /\ used' = Charged(p, n) /\ st' = StatusAfterKill(S)
      /\ held' = WithoutAllocations(Consumed(p, n), D)
      /\ call' = Deactivated(i) /\ UNCHANGED <<limit, line, doomed, saved, phase, overrun>>
  BY DEF RecoverMaximum
<1> HIDE DEF S
<1>5. Ends(D) /\ st' = [d \in Pids |-> IF d \in D THEN "dead" ELSE st[d]]
  BY <1>2, <1>4, KillEnds
<1> HIDE DEF D
<1> QED BY <1>1, <1>3, <1>4, <1>5, SettleStep

\* A charge, with nobody committed beyond its limit that no overage has reached.
LEMMA ChargeStep ==
    ASSUME IInv, NEW p \in Pids, NEW n \in Nat, ApplyCharge(p, n),
           overrun \subseteq overrun', overrun' \subseteq Pids,
           FirstExceeded(p, Charged(p, n), Consumed(p, n), call) \subseteq overrun',
           \A q \in Chain(p) : limit[q] # Unlimited /\ q \notin overrun' =>
             Need(line, st, Charged(p, n), Consumed(p, n), call, q) <= limit[q]
    PROVE  IInv'
<1> DEFINE u == Charged(p, n)
           h == Consumed(p, n)
<1>0. /\ TypeOK /\ LineInv /\ Lines(line) /\ CallsFit(call)
      /\ used \in Amount /\ held \in Amount /\ call \in Tables
      /\ doomed \subseteq overrun
      /\ phase \in {"up", "recovering", "refused"}
      /\ \A q \in Pids : limit[q] # Unlimited /\ q \notin overrun =>
           Need(line, st, used, held, call, q) <= limit[q]
  BY AsItIs
<1>1. /\ used' = u /\ held' = h /\ UNCHANGED <<st, limit, line, call, saved, phase>>
      /\ doomed' = doomed \cup FirstExceeded(p, u, h, call)
  BY DEF ApplyCharge
<1>2. Settled(u, h)
  BY <1>0, ChargeSettled
<1>3. /\ u \in Amount /\ h \in Amount
      /\ \A q \in Pids : q \notin Chain(p) => u[q] = used[q] /\ h[q] = held[q]
  BY <1>0, ChargeTypes
<1>4. \A q \in Chain(p) : limit[q] # Unlimited /\ q \notin overrun' =>
        Need(line, st, u, h, call, q) <= limit[q]
  OBVIOUS
<1>5. FirstExceeded(p, u, h, call) \subseteq overrun'
  OBVIOUS
<1> HIDE DEF u, h
<1>6. ASSUME NEW q \in Pids, limit[q] # Unlimited, q \notin overrun'
      PROVE  Need(line, st, u, h, call, q) <= limit[q]
  <2>1. CASE q \in Chain(p)
    BY <1>4, <1>6, <2>1
  <2>2. CASE q \notin Chain(p)
    <3>1. Need(line, st, u, h, call, q) <= Need(line, st, used, held, call, q)
      BY <1>0, <1>3, <2>2, OffChainNeed
    <3>2. Need(line, st, used, held, call, q) <= limit[q] /\ limit[q] \in Nat
      BY <1>0, <1>6, Types
    <3>3. Need(line, st, u, h, call, q) \in Nat /\ Need(line, st, used, held, call, q) \in Nat
      BY <1>0, <1>3, NeedType
    <3> QED BY <3>1, <3>2, <3>3
  <2> QED BY <2>1, <2>2
<1>7. /\ Ends({}) /\ held' = WithoutAllocations(h, {})
      /\ st' = [d \in Pids |-> IF d \in {} THEN "dead" ELSE st[d]]
  BY <1>0, <1>1, <1>3, NobodyEnds
<1>8. doomed' \subseteq overrun' /\ phase' \in {"up", "recovering", "refused"}
  BY <1>0, <1>1, <1>5
<1> QED BY <1>0, <1>1, <1>2, <1>6, <1>7, <1>8, StepInv

\* A charge that passed its preflight finds nobody over the limit afterwards.
LEMMA ChargeKeeps ==
    ASSUME IInv, NEW p \in Pids, NEW n \in Amounts, Charge(p, n)
    PROVE  IInv'
<1>1. n \in Nat /\ Preflight(p, n, call) /\ ApplyCharge(p, n) /\ overrun' = overrun
  BY BudgetAssumption DEF Charge
<1>2. TypeOK /\ overrun \subseteq Pids /\ call \in Tables
  BY AsItIs
<1>3. \A q \in Chain(p) : limit[q] # Unlimited =>
        Need(line, st, Charged(p, n), Consumed(p, n), call, q) <= limit[q]
  BY <1>1, ChargeFits
<1>4. Charged(p, n) \in Amount /\ Consumed(p, n) \in Amount
  BY <1>1, <1>2, ChargeTypes
<1>5. FirstExceeded(p, Charged(p, n), Consumed(p, n), call) = {}
  BY <1>2, <1>3, <1>4, FirstExceededIs
<1> QED BY <1>1, <1>2, <1>3, <1>5, ChargeStep

\* An overage is recorded along its chain.
LEMMA OverageKeeps ==
    ASSUME IInv, NEW p \in Pids, NEW n \in Overages, ChargeOverage(p, n)
    PROVE  IInv'
<1>1. n \in Nat /\ ApplyCharge(p, n) /\ overrun' = overrun \cup Chain(p)
  BY BudgetAssumption DEF ChargeOverage
<1>2. TypeOK /\ overrun \subseteq Pids /\ call \in Tables
  BY AsItIs
<1>3. Chain(p) \subseteq Pids
  BY <1>2, Types, RangeOfLine DEF Chain
<1>4. Charged(p, n) \in Amount /\ Consumed(p, n) \in Amount
  BY <1>1, <1>2, ChargeTypes
<1>5. FirstExceeded(p, Charged(p, n), Consumed(p, n), call) \subseteq Chain(p)
  BY <1>2, <1>4, FirstExceededIs
<1> QED BY <1>1, <1>2, <1>3, <1>5, ChargeStep

\* The end of a process, by exit or by a kill.
LEMMA EndKeeps ==
    ASSUME IInv, NEW p \in Pids, Exit(p) \/ KillExceeded(p)
    PROVE  IInv'
<1>0. /\ TypeOK /\ LineInv /\ Lines(line) /\ Settled(used, held) /\ CallsFit(call)
      /\ used \in Amount /\ held \in Amount /\ call \in Tables
      /\ overrun \subseteq Pids /\ doomed \subseteq overrun
      /\ phase \in {"up", "recovering", "refused"}
      /\ \A q \in Pids : limit[q] # Unlimited /\ q \notin overrun =>
           Need(line, st, used, held, call, q) <= limit[q]
  BY AsItIs
<1>1. ASSUME NEW D, Ends(D), held' = WithoutAllocations(held, D),
             st' = [d \in Pids |-> IF d \in D THEN "dead" ELSE st[d]],
             UNCHANGED <<limit, used, line, call, saved, phase, overrun>>, doomed' \subseteq doomed
      PROVE  IInv'
  BY <1>0, <1>1, StepInv
<1>2. CASE Exit(p)
  <2>1. Ends({p})
    BY <1>2 DEF Ends, Exit, Subtree
  <2>2. st' = [d \in Pids |-> IF d \in {p} THEN "dead" ELSE st[d]]
    BY <1>0, <1>2, Types DEF Exit
  <2> QED BY <1>1, <1>2, <2>1, <2>2 DEF Exit
<1>3. CASE KillExceeded(p)
  <2>1. /\ Ends(Killed({p}))
        /\ StatusAfterKill({p}) = [d \in Pids |-> IF d \in Killed({p}) THEN "dead" ELSE st[d]]
    BY <1>0, KillEnds
  <2> QED BY <1>1, <1>3, <2>1 DEF KillExceeded
<1> QED BY <1>2, <1>3

-----------------------------------------------------------------------------
(* Launch, checkpoint, restore *)

\* A launch under p with budget b and usage v: what fits the remaining budget of p commits p
\* to no more than its limit.
LEMMA LaunchStep ==
    ASSUME IInv, NEW p \in Pids, NEW c \in Pids, NEW b \in Nat \cup {Unlimited}, NEW v \in Nat,
           st[p] = "live", st[c] = "none",
           b # Unlimited => FitsRemaining(p, b),
           b # Unlimited => v <= b \/ c \in overrun',
           st' = [st EXCEPT ![c] = "live"], limit' = [limit EXCEPT ![c] = b],
           line' = [line EXCEPT ![c] = <<c>> \o line[p]],
           held' = [held EXCEPT ![c] = AllocationOf(b)], used' = [used EXCEPT ![c] = v],
           UNCHANGED <<call, doomed, saved, phase>>,
           overrun \subseteq overrun', overrun' \subseteq Pids
    PROVE  IInv'
<1>0. /\ TypeOK /\ LineInv /\ Lines(line) /\ CallsInv /\ HeldCovers /\ AllocationCoversChild
      /\ GoneInv /\ SavedInv
      /\ used \in Amount /\ held \in Amount /\ call \in Tables /\ doomed \subseteq overrun
      /\ phase \in {"up", "recovering", "refused"} /\ Unlimited \notin Nat
      /\ \A q \in Pids : limit[q] # Unlimited /\ q \notin overrun =>
           Need(line, st, used, held, call, q) <= limit[q]
  BY AsItIs, BudgetAssumption DEF IInv
<1>1. AllocationOf(b) \in Nat /\ (b # Unlimited => b \in Nat /\ AllocationOf(b) = b)
      /\ (b = Unlimited => AllocationOf(b) = 0)
  BY DEF AllocationOf
<1>2. \A d \in Pids : /\ d # c => /\ st'[d] = st[d] /\ limit'[d] = limit[d]
                                  /\ line'[d] = line[d] /\ held'[d] = held[d] /\ used'[d] = used[d]
                      /\ d = c => /\ st'[d] = "live" /\ limit'[d] = b
                                  /\ held'[d] = AllocationOf(b) /\ used'[d] = v
                                  /\ line'[d] = <<c>> \o line[p]
  BY <1>0, Types DEF Amount
<1>3. /\ held' \in Amount /\ used' \in Amount
      /\ st' \in [Pids -> {"none", "live", "dead", "gone"}]
      /\ limit' \in [Pids -> Nat \cup {Unlimited}]
  BY <1>0, <1>1, Types DEF Amount
<1>4. line' \in [Pids -> Seq(Pids)]
  <2>1. <<c>> \o line[p] \in Seq(Pids)
    <3>1. <<c>> \in Seq(Pids) /\ line[p] \in Seq(Pids)
      BY <1>0, Types
    <3> QED BY <3>1
  <2> QED BY <1>0, <2>1, Types
<1>5. LaunchedUnder(p, c, line') /\ st[p] # "none"
  BY <1>2, <1>4 DEF LaunchedUnder
<1>6. TypeOK'
  BY <1>0, <1>3, <1>4 DEF TypeOK, Amount, Tables
<1>7. LineInv'
  <2>1. Lines(line')
    BY <1>0, <1>5, NewLines
  <2>2. line'[c] # <<>>
    <3>1. line'[c] = <<c>> \o line[p] /\ line[p] \in Seq(Pids)
      BY <1>0, <1>2, Types
    <3> QED BY <3>1
  <2>3. \A d \in Pids : st'[d] = "none" <=> line'[d] = <<>>
    BY <1>0, <1>2, <2>2 DEF LineInv
  <2>4. \A d \in Pids : st'[d] = "none" => used'[d] = 0
    BY <1>0, <1>2 DEF LineInv
  <2> QED BY <2>1, <2>3, <2>4 DEF LineInv
<1>8. b # Unlimited => AllocationOf(b) >= Less(b, v)
  BY <1>1 DEF Less
<1>9. HeldCovers'
  <2>1. ASSUME NEW d \in Pids, held'[d] > 0
        PROVE  st'[d] = "live" /\ limit'[d] # Unlimited /\ held'[d] >= Less(limit'[d], used'[d])
    <3>1. CASE d = c
      <4>1. /\ st'[d] = "live" /\ limit'[d] = b /\ held'[d] = AllocationOf(b) /\ used'[d] = v
        BY <1>2, <3>1
      <4>2. b # Unlimited
        BY <1>1, <2>1, <4>1
      <4> QED BY <1>8, <4>1, <4>2
    <3>2. CASE d # c
      BY <1>0, <1>2, <2>1, <3>2 DEF HeldCovers
    <3> QED BY <3>1, <3>2
  <2> QED BY <2>1 DEF HeldCovers
<1>10. AllocationCoversChild'
  <2>1. ASSUME NEW d \in Pids \ {Root}, st'[d] = "live", limit'[d] # Unlimited,
               ~(saved # NoCheckpoint /\ saved.pid = d)
        PROVE  held'[d] >= Less(limit'[d], used'[d])
    <3>1. CASE d = c
      <4>1. limit'[d] = b /\ held'[d] = AllocationOf(b) /\ used'[d] = v
        BY <1>2, <3>1
      <4> QED BY <1>8, <2>1, <4>1
    <3>2. CASE d # c
      BY <1>0, <1>2, <2>1, <3>2 DEF AllocationCoversChild
    <3> QED BY <3>1, <3>2
  <2> QED BY <2>1 DEF AllocationCoversChild
<1>11. /\ Need(line', st', used', held', call, c) = used'[c]
       /\ \A q \in Pids : q # c => Need(line', st', used', held', call, q) =
            Need(line, st, used, held, call, q) + (IF q = p THEN held'[c] ELSE 0)
  <2>1. \A d \in Pids : d # c => st'[d] = st[d] /\ used'[d] = used[d] /\ held'[d] = held[d]
    BY <1>2
  <2> DEFINE l2 == line'
             s2 == st'
             u2 == used'
             h2 == held'
  <2>2. /\ LaunchedUnder(p, c, l2) /\ u2 \in Amount /\ h2 \in Amount /\ st[p] # "none"
        /\ \A d \in Pids : d # c => s2[d] = st[d] /\ u2[d] = used[d] /\ h2[d] = held[d]
    BY <1>3, <1>5, <2>1
  <2> HIDE DEF l2, s2, u2, h2
  <2>3. /\ Need(l2, s2, u2, h2, call, c) = u2[c]
        /\ \A q \in Pids : q # c => Need(l2, s2, u2, h2, call, q) =
             Need(line, st, used, held, call, q) + (IF q = p THEN h2[c] ELSE 0)
    BY <1>0, <2>2, LaunchNeed
  <2> QED BY <2>3 DEF l2, s2, u2, h2
<1>12. NeedFits'
  <2>1. ASSUME NEW q \in Pids, limit'[q] # Unlimited, q \notin overrun'
        PROVE  Need(line', st', used', held', call, q) <= limit'[q]
    <3>1. CASE q = c
      <4>1. limit'[q] = b /\ used'[q] = v
        BY <1>2, <3>1
      <4> QED BY <1>11, <2>1, <3>1, <4>1
    <3>2. CASE q # c
      <4>1. limit'[q] = limit[q] /\ q \notin overrun /\ limit[q] # Unlimited
        BY <1>2, <2>1, <3>2
      <4>2. /\ Need(line, st, used, held, call, q) <= limit[q] /\ limit[q] \in Nat
            /\ Need(line, st, used, held, call, q) \in Nat
        BY <1>0, <4>1, NeedType, Types
      <4>3. q = p => Need(line, st, used, held, call, q) + held'[c] <= limit[q]
        <5>1. p \in Chain(p) /\ held'[c] = AllocationOf(b)
          BY <1>0, <1>2, <1>5, SelfInChain
        <5>2. CASE b = Unlimited
          BY <1>1, <4>2, <5>1, <5>2
        <5>3. CASE b # Unlimited
          <6>1. b \in Nat /\ FitsRemaining(p, b) /\ held'[c] = b
            BY <1>1, <5>1, <5>3
          <6>2. q = p => Need(line, st, used, held, call, p) + b <= limit[p]
            BY <1>0, <4>1, <4>2, <5>1, <6>1, FitsIs
          <6> QED BY <6>1, <6>2
        <5> QED BY <5>2, <5>3
      <4>4. Need(line', st', used', held', call, q) =
              Need(line, st, used, held, call, q) + (IF q = p THEN held'[c] ELSE 0)
        BY <1>11, <3>2
      <4> QED BY <4>1, <4>2, <4>3, <4>4
    <3> QED BY <3>1, <3>2
  <2> QED BY <2>1 DEF NeedFits
<1>13. CallsInv'
  <2>1. ASSUME NEW i \in Calls, call[i] # NoCall
        PROVE  st'[call[i].pid] # "none" /\ (call[i].open => st'[call[i].pid] \in {"live", "dead"})
    <3>1. call[i].pid \in Pids
      BY <1>0, <2>1 DEF Tables, Envelopes
    <3>2. st[call[i].pid] # "none" /\ (call[i].open => st[call[i].pid] \in {"live", "dead"})
      BY <1>0, <2>1 DEF CallsInv, Exists
    <3> QED BY <1>2, <3>1, <3>2
  <2> QED BY <2>1 DEF CallsInv, Exists
<1>14. SavedInv'
  <2>1. ASSUME saved # NoCheckpoint, NEW d \in DOMAIN saved.st, d \in Pids
        PROVE  line'[d] = line[d] /\ limit'[d] = limit[d] /\ Exists(d)'
    <3>1. Exists(d)
      BY <1>0, <2>1 DEF SavedInv
    <3>2. d # c
      BY <3>1 DEF Exists
    <3> QED BY <1>2, <2>1, <3>1, <3>2 DEF Exists
  <2> QED BY <1>0, <2>1, SavedKept
<1>15. GoneInv' /\ OnlyOveragesKill'
  BY <1>0, <1>2 DEF GoneInv, OnlyOveragesKill
<1> QED BY <1>6, <1>7, <1>9, <1>10, <1>12, <1>13, <1>14, <1>15 DEF IInv

\* Launches of a new process and of a fork of the checkpointed one.
LEMMA LaunchKeeps ==
    ASSUME IInv, NEW p \in Pids, NEW c \in Pids,
           (\E b \in Limits : Spawn(p, c, b)) \/ Fork(p, c)
    PROVE  IInv'
<1>0. TypeOK /\ LineInv /\ overrun \subseteq Pids /\ used \in Amount /\ SavedInv
  BY AsItIs DEF IInv
<1>1. ASSUME NEW b \in Limits, Spawn(p, c, b) PROVE IInv'
  <2>1. b \in Nat \cup {Unlimited}
    BY BudgetAssumption
  <2>2. st[p] = "live" /\ st[c] = "none" /\ used[c] = 0
    BY <1>0, <1>1 DEF Spawn, LineInv
  <2> DEFINE v == 0
  <2>3. used' = [used EXCEPT ![c] = v] /\ v \in Nat
    BY <1>0, <1>1, <2>2 DEF Spawn, Amount
  <2>4. b # Unlimited => v <= b
    BY <2>1
  <2>5. /\ b # Unlimited => FitsRemaining(p, b)
        /\ st' = [st EXCEPT ![c] = "live"] /\ limit' = [limit EXCEPT ![c] = b]
        /\ line' = [line EXCEPT ![c] = <<c>> \o line[p]]
        /\ held' = [held EXCEPT ![c] = AllocationOf(b)]
        /\ UNCHANGED <<call, doomed, saved, phase>> /\ overrun' = overrun
    BY <1>1 DEF Spawn
  <2> HIDE DEF v
  <2> QED BY <1>0, <2>1, <2>2, <2>3, <2>4, <2>5, LaunchStep
<1>2. CASE Fork(p, c)
  <2> DEFINE b == saved.limit[saved.pid]
             v == saved.used[saved.pid]
  <2>0. /\ saved # NoCheckpoint /\ st[p] = "live" /\ st[c] = "none"
        /\ b # Unlimited => FitsRemaining(p, b)
        /\ limit' = [limit EXCEPT ![c] = b] /\ held' = [held EXCEPT ![c] = AllocationOf(b)]
        /\ used' = [used EXCEPT ![c] = v] /\ st' = [st EXCEPT ![c] = "live"]
        /\ line' = [line EXCEPT ![c] = <<c>> \o line[p]]
        /\ overrun' = overrun \cup (IF saved.over THEN {c} ELSE {})
        /\ UNCHANGED <<call, doomed, saved, phase>>
    BY <1>2 DEF Fork
  <2>1. /\ saved.pid \in DOMAIN saved.st /\ DOMAIN saved.st \subseteq Pids
        /\ b = limit[saved.pid] /\ v \in Nat
        /\ b # Unlimited /\ ~saved.over => v <= b
    BY <1>0, <2>0 DEF SavedInv, Under
  <2>2. b \in Nat \cup {Unlimited}
    BY <1>0, <2>1, Types
  <2>3. b # Unlimited => v <= b \/ c \in overrun'
    BY <2>0, <2>1
  <2>4. overrun \subseteq overrun' /\ overrun' \subseteq Pids
    BY <1>0, <2>0
  <2> HIDE DEF b, v
  <2> QED BY <2>0, <2>1, <2>2, <2>3, <2>4, LaunchStep
<1> QED BY <1>1, <1>2

\* The parent of a process below q, other than q, is below q.
LEMMA ParentUnder ==
    ASSUME NEW l \in [Pids -> Seq(Pids)], Lines(l), NEW q \in Pids, NEW r \in Pids,
           NEW c \in Kids(l, r), c \in Under(l, q), c # q
    PROVE  r \in Under(l, q)
<1>0. c \in Pids /\ l[c] \in Seq(Pids) /\ Len(l[c]) \in Nat /\ Len(l[c]) > 1 /\ l[c][2] = r
  BY DEF Kids
<1>1. PICK x \in 1 .. Len(l[c]) : l[c][x] = q
  BY <1>0, RangeOfLine DEF Under
<1>2. l[c][1] = c
  BY <1>0 DEF Lines
<1>3. x # 1 /\ 2 \in 1 .. Len(l[c])
  BY <1>0, <1>1, <1>2
<1>4. Len(l[r]) = Len(l[c]) - 2 + 1 /\ \A y \in 1 .. Len(l[r]) : l[r][y] = l[c][2 + y - 1]
  BY <1>0, <1>3 DEF Lines
<1>5. x - 1 \in 1 .. Len(l[r]) /\ 2 + (x - 1) - 1 = x
  BY <1>0, <1>1, <1>3, <1>4
<1>6. l[r][x - 1] = q
  <2>1. l[r][x - 1] = l[c][2 + (x - 1) - 1]
    BY <1>4, <1>5
  <2> QED BY <1>1, <1>5, <2>1
<1>7. l[r] \in Seq(Pids)
  OBVIOUS
<1> QED BY <1>5, <1>6, <1>7, RangeOfLine DEF Under

\* A child, and its parent, is below itself.
LEMMA ChildUnder ==
    ASSUME NEW l \in [Pids -> Seq(Pids)], Lines(l), NEW q \in Pids, NEW c \in Kids(l, q)
    PROVE  c \in Under(l, c) /\ c \in Under(l, q)
<1>0. c \in Pids /\ l[c] \in Seq(Pids) /\ Len(l[c]) \in Nat /\ Len(l[c]) > 1 /\ l[c][2] = q
  BY DEF Kids
<1>1. l[c][1] = c /\ 1 \in 1 .. Len(l[c]) /\ 2 \in 1 .. Len(l[c])
  BY <1>0 DEF Lines
<1> QED BY <1>0, <1>1, RangeOfLine DEF Under

\* A checkpoint holds what fits now.
LEMMA CheckpointKeeps ==
    ASSUME IInv, NEW p \in Pids, Checkpoint(p)
    PROVE  IInv'
<1> DEFINE K == Under(line, p)
<1>0. /\ TypeOK /\ LineInv /\ Lines(line) /\ HeldCovers /\ AllocationCoversChild /\ GoneInv
      /\ used \in Amount /\ held \in Amount /\ call \in Tables /\ line \in [Pids -> Seq(Pids)]
      /\ \A q \in Pids : limit[q] # Unlimited /\ q \notin overrun =>
           Need(line, st, used, held, call, q) <= limit[q]
  BY AsItIs, Types DEF IInv
<1>1. /\ saved = NoCheckpoint /\ Exists(p)
      /\ UNCHANGED <<st, limit, used, line, held, call, doomed, phase, overrun>>
      /\ saved' = [pid |-> p, st |-> [d \in K |-> st[d]], used |-> [d \in K |-> used[d]],
                   limit |-> [d \in K |-> limit[d]], held |-> [d \in K |-> held[d]],
                   over |-> p \in overrun]
  BY DEF Checkpoint, Subtree, Under, Chain
<1>2. /\ K \subseteq Pids /\ p \in K /\ DOMAIN saved'.st = K /\ saved'.pid = p
      /\ saved'.over = (p \in overrun)
      /\ \A d \in K : /\ saved'.st[d] = st[d] /\ saved'.used[d] = used[d]
                      /\ saved'.limit[d] = limit[d] /\ saved'.held[d] = held[d]
  BY <1>0, <1>1, SelfInChain DEF Under, Exists, Chain
<1>3. \A d \in K : Exists(d) /\ st[d] \in {"live", "dead"}
  <2>1. ASSUME NEW d \in K PROVE st[d] \in {"live", "dead"}
    <3>1. d \in Pids /\ p \in Range(line[d])
      BY DEF Under
    <3>2. line[d] # <<>>
      BY <1>0, <3>1, RangeOfLine
    <3>3. st[d] # "none" /\ st[d] # "gone"
      BY <1>0, <1>1, <3>1, <3>2 DEF LineInv, GoneInv
    <3> QED BY <1>0, <3>1, <3>3, Types
  <2> QED BY <2>1 DEF Exists
<1>4. /\ saved'.st \in [K -> {"live", "dead"}]
      /\ saved'.used \in [K -> Nat] /\ saved'.held \in [K -> Nat]
  <2>1. \A d \in K : used[d] \in Nat /\ held[d] \in Nat
    BY <1>0, <1>2 DEF Amount
  <2> QED BY <1>1, <1>3, <2>1
<1> HIDE DEF K
<1>5. \A q \in Pids : \A c \in Kids(line, q) \cap K : c # p => q \in K
  BY <1>0, ParentUnder DEF K
<1>6. ASSUME NEW q \in K, limit[q] # Unlimited, q \notin overrun
      PROVE  saved'.used[q] + Total(saved'.held, Kids(line, q) \cap K) <= limit[q]
  <2> DEFINE t == Parts(line, st, held, call, NoPid, 0)
             f == saved'.held
             C == Kids(line, q)
  <2>0. q \in Pids
    BY <1>2
  <2>1. C \subseteq Pids /\ IsFiniteSet(C) /\ IsFiniteSet(C \cap K) /\ C \cap K \in SUBSET C
    BY KidsFinite, FS_Subset
  <2>2. \A c \in C : t[c] \in Nat
    BY <1>0, <2>1, PartsType
  <2>3. ASSUME NEW c \in C \cap K PROVE f[c] \in Nat /\ f[c] <= t[c]
    <3>1. c \in Pids /\ c # NoPid /\ f[c] = held[c] /\ held[c] \in Nat
      BY <1>0, <1>2, <2>1, BudgetAssumption DEF Amount
    <3>2. Less(Env(line, st, call, c), held[c]) \in Nat
      BY <1>0, <3>1, EnvType, LessType
    <3>3. t[c] = held[c] + Less(Env(line, st, call, c), held[c])
      BY <1>0, <3>1, PartsType DEF Part
    <3> HIDE DEF t, f
    <3> QED BY <3>1, <3>2, <3>3
  <2>4. Need(line, st, used, held, call, q) = used[q] + (EnvelopesOf({q}, call) + Total(t, C))
    BY DEF Need, Taken
  <2> HIDE DEF t, f, C
  <2>5. Total(f, C \cap K) <= Total(t, C) /\ Total(f, C \cap K) \in Nat /\ Total(t, C) \in Nat
    BY <2>1, <2>2, <2>3, TotalMono, TotalType
  <2>6. /\ EnvelopesOf({q}, call) \in Nat /\ used[q] \in Nat /\ limit[q] \in Nat
        /\ saved'.used[q] = used[q]
    BY <1>0, <1>2, <1>6, <2>0, EnvelopesType, Types
  <2>7. Need(line, st, used, held, call, q) <= limit[q]
    BY <1>0, <1>6, <2>0
  <2>8. saved'.used[q] + Total(f, C \cap K) <= limit[q]
    BY <2>4, <2>5, <2>6, <2>7
  <2> QED BY <2>8 DEF f, C
<1>7. ASSUME limit[p] # Unlimited, p \notin overrun PROVE saved'.used[p] <= limit[p]
  <2>1. Need(line, st, used, held, call, p) = used[p] + Taken(line, st, held, call, p, NoPid, 0)
    BY DEF Need
  <2>2. Taken(line, st, held, call, p, NoPid, 0) \in Nat /\ used[p] \in Nat /\ limit[p] \in Nat
    BY <1>0, <1>7, TakenType, Types
  <2> QED BY <1>0, <1>2, <1>7, <2>1, <2>2
<1>8. \A c \in K : saved'.held[c] > 0 =>
        /\ saved'.st[c] = "live" /\ limit[c] # Unlimited
        /\ saved'.held[c] >= Less(limit[c], saved'.used[c])
  BY <1>0, <1>2 DEF HeldCovers
<1>9. \A c \in K \ {Root} : c # p /\ saved'.st[c] = "live" /\ limit[c] # Unlimited =>
        saved'.held[c] >= Less(limit[c], saved'.used[c])
  BY <1>0, <1>1, <1>2 DEF AllocationCoversChild
<1>10. SavedInv'
  <2>1. \A d \in K : Exists(d)' /\ saved'.limit[d] = limit'[d]
    BY <1>1, <1>2, <1>3 DEF Exists
  <2>2. K \subseteq Under(line', p) /\ saved'.over \in BOOLEAN
    BY <1>1, <1>2 DEF K
  <2>3. \A q \in K : limit'[q] # Unlimited /\ q \notin overrun' =>
          saved'.used[q] + Total(saved'.held, Kids(line', q) \cap K) <= limit'[q]
    BY <1>1, <1>6
  <2>4. limit'[p] # Unlimited /\ ~saved'.over => saved'.used[p] <= limit'[p]
    BY <1>1, <1>2, <1>7
  <2>5. /\ \A q \in Pids : \A c \in Kids(line', q) \cap K : c # p => q \in K
        /\ \A c \in K : saved'.held[c] > 0 =>
             /\ saved'.st[c] = "live" /\ limit'[c] # Unlimited
             /\ saved'.held[c] >= Less(limit'[c], saved'.used[c])
        /\ \A c \in K \ {Root} : c # p /\ saved'.st[c] = "live" /\ limit'[c] # Unlimited =>
             saved'.held[c] >= Less(limit'[c], saved'.used[c])
    BY <1>1, <1>5, <1>8, <1>9
  <2> QED BY <1>2, <1>4, <2>1, <2>2, <2>3, <2>4, <2>5 DEF SavedInv
<1>11. AllocationCoversChild'
  BY <1>0, <1>1 DEF AllocationCoversChild
<1>12. GoneInv'
  BY <1>0, <1>1 DEF GoneInv
<1>13. /\ TypeOK' /\ LineInv' /\ HeldCovers' /\ NeedFits' /\ CallsInv' /\ OnlyOveragesKill'
  BY <1>1 DEF IInv, TypeOK, LineInv, HeldCovers, NeedFits, CallsInv, Exists, OnlyOveragesKill
<1> QED BY <1>10, <1>11, <1>12, <1>13 DEF IInv

\* A restored process has what was captured, and nothing is owed at it: its parent's share
\* and the envelopes of a scope without calls are 0.
LEMMA RestoreKeeps ==
    ASSUME IInv, Restore
    PROVE  IInv'
<1> DEFINE pid == saved.pid
           kept == DOMAIN saved.st
           scope == Under(line, pid)
<1>0. /\ TypeOK /\ LineInv /\ Lines(line) /\ HeldCovers /\ AllocationCoversChild /\ CallsInv
      /\ SavedInv /\ saved # NoCheckpoint
      /\ used \in Amount /\ held \in Amount /\ call \in Tables /\ line \in [Pids -> Seq(Pids)]
      /\ overrun \subseteq Pids /\ phase \in {"up", "recovering", "refused"}
      /\ \A q \in Pids : limit[q] # Unlimited /\ q \notin overrun =>
           Need(line, st, used, held, call, q) <= limit[q]
  BY AsItIs, Types DEF IInv, Restore
<1>1. /\ pid \in kept /\ kept \subseteq scope
      /\ saved.st \in [kept -> {"live", "dead"}]
      /\ saved.used \in [kept -> Nat] /\ saved.held \in [kept -> Nat]
      /\ \A d \in kept : Exists(d)
      /\ \A q \in Pids : \A c \in Kids(line, q) \cap kept : c # pid => q \in kept
      /\ \A c \in kept : saved.held[c] > 0 =>
           /\ saved.st[c] = "live" /\ limit[c] # Unlimited
           /\ saved.held[c] >= Less(limit[c], saved.used[c])
      /\ \A c \in kept \ {Root} : c # pid /\ saved.st[c] = "live" /\ limit[c] # Unlimited =>
           saved.held[c] >= Less(limit[c], saved.used[c])
      /\ \A q \in kept : limit[q] # Unlimited /\ q \notin overrun =>
           saved.used[q] + Total(saved.held, Kids(line, q) \cap kept) <= limit[q]
  BY <1>0 DEF SavedInv
<1>2. /\ st' = [d \in Pids |-> IF d \in kept THEN saved.st[d]
                               ELSE IF d \in scope THEN "gone" ELSE st[d]]
      /\ used' = [d \in Pids |-> IF d \in kept THEN saved.used[d] ELSE used[d]]
      /\ held' = [d \in Pids |-> IF d \in kept \ {pid} THEN saved.held[d]
                                 ELSE IF d \in scope THEN 0 ELSE held[d]]
      /\ overrun' = overrun \cup (IF \E i \in Calls : call[i] # NoCall /\ call[i].pid \in scope
                                  THEN scope ELSE {})
      /\ UNCHANGED <<limit, line, call, doomed, saved, phase>>
      /\ doomed = {} /\ \A i \in Calls : call[i] # NoCall => ~call[i].open
  BY DEF Restore, Subtree, Under, Chain
<1>3. scope \subseteq Pids /\ pid \in Pids /\ kept \subseteq Pids
  BY <1>1 DEF Under
<1>4. \A d \in Pids : /\ d \in kept => /\ st'[d] = saved.st[d] /\ st'[d] \in {"live", "dead"}
                                       /\ st[d] \in {"live", "dead"} /\ used'[d] = saved.used[d]
                      /\ d \in scope \ kept => /\ st'[d] = "gone" /\ used'[d] = used[d]
                                               /\ held'[d] = 0
                      /\ d \notin scope => /\ st'[d] = st[d] /\ used'[d] = used[d]
                                           /\ held'[d] = held[d]
                      /\ d \in kept \ {pid} => held'[d] = saved.held[d]
                      /\ d = pid => held'[d] = 0
                      /\ used'[d] \in Nat /\ held'[d] \in Nat
  <2>1. \A d \in kept : /\ saved.st[d] \in {"live", "dead"} /\ saved.used[d] \in Nat
                        /\ saved.held[d] \in Nat /\ st[d] \in {"live", "dead"}
    BY <1>1 DEF Exists
  <2>2. \A d \in Pids : used[d] \in Nat /\ held[d] \in Nat
    BY <1>0 DEF Amount
  <2> QED BY <1>1, <1>2, <1>3, <2>1, <2>2
<1>5. /\ used' \in Amount /\ held' \in Amount
      /\ st' \in [Pids -> {"none", "live", "dead", "gone"}]
  <2>1. \A d \in Pids : st'[d] \in {"none", "live", "dead", "gone"}
    BY <1>0, <1>4, Types
  <2> QED BY <1>2, <1>4, <2>1 DEF Amount
<1>6. \A d \in scope : st[d] # "none"
  BY <1>0, <1>3, NotInLines, RangeOfLine DEF Under
<1> HIDE DEF kept, scope, pid
<1>7. overrun \subseteq overrun' /\ overrun' \subseteq Pids
  BY <1>0, <1>2, <1>3
<1>8. TypeOK'
  BY <1>0, <1>2, <1>5, <1>7 DEF TypeOK, Amount, Tables
<1>9. \A d \in Pids : st'[d] = "none" <=> st[d] = "none"
  BY <1>4, <1>6
<1>10. LineInv'
  <2>1. \A d \in Pids : st'[d] = "none" => used'[d] = 0
    BY <1>0, <1>1, <1>4, <1>6, <1>9 DEF LineInv
  <2> QED BY <1>0, <1>2, <1>9, <2>1 DEF LineInv
<1>11. HeldCovers'
  <2>1. ASSUME NEW c \in Pids, held'[c] > 0
        PROVE  st'[c] = "live" /\ limit[c] # Unlimited /\ held'[c] >= Less(limit[c], used'[c])
    <3>1. CASE c \in kept
      BY <1>1, <1>4, <2>1, <3>1
    <3>2. CASE c \in scope \ kept
      BY <1>4, <2>1, <3>2
    <3>3. CASE c \notin scope
      BY <1>0, <1>4, <2>1, <3>3 DEF HeldCovers
    <3> QED BY <3>1, <3>2, <3>3
  <2> QED BY <1>2, <2>1 DEF HeldCovers
<1>12. AllocationCoversChild'
  <2>1. ASSUME NEW c \in Pids \ {Root}, st'[c] = "live", limit[c] # Unlimited, pid # c
        PROVE  held'[c] >= Less(limit[c], used'[c])
    <3>1. CASE c \in kept
      BY <1>1, <1>4, <2>1, <3>1
    <3>2. CASE c \in scope \ kept
      BY <1>4, <2>1, <3>2
    <3>3. CASE c \notin scope
      BY <1>0, <1>4, <2>1, <3>3 DEF AllocationCoversChild, pid
    <3> QED BY <3>1, <3>2, <3>3
  <2> QED BY <1>0, <1>2, <2>1 DEF AllocationCoversChild, pid
<1>13. CallsInv'
  <2>1. ASSUME NEW i \in Calls, call[i] # NoCall PROVE st'[call[i].pid] # "none" /\ ~call[i].open
    <3>1. call[i].pid \in Pids
      BY <1>0, <2>1 DEF Tables, Envelopes
    <3>2. st[call[i].pid] # "none"
      BY <1>0, <2>1 DEF CallsInv
    <3> QED BY <1>2, <1>9, <2>1, <3>1, <3>2
  <2> QED BY <1>2, <2>1 DEF CallsInv
<1>14. SavedInv'
  <2>1. \A d \in DOMAIN saved.st :
          d \in Pids => line'[d] = line[d] /\ limit'[d] = limit[d] /\ Exists(d)'
    BY <1>2, <1>4 DEF Exists, kept
  <2> QED BY <1>0, <1>2, <1>7, <2>1, SavedKept
<1>15. GoneInv' /\ OnlyOveragesKill'
  BY <1>0, <1>2 DEF GoneInv, OnlyOveragesKill
<1>16. ASSUME NEW q \in Pids, limit[q] # Unlimited, q \notin overrun'
       PROVE  Need(line, st', used', held', call, q) <= limit[q]
  <2>0. /\ q \notin overrun /\ limit[q] \in Nat
        /\ Need(line, st, used, held, call, q) <= limit[q]
        /\ Need(line, st, used, held, call, q) \in Nat
        /\ Need(line, st', used', held', call, q) \in Nat
    BY <1>0, <1>5, <1>7, <1>16, Types, NeedType
  <2>1. CASE q \notin scope
    <3>1. used'[q] <= used[q]
      BY <1>4, <2>1
    <3>2. ASSUME NEW c \in Kids(line, q) PROVE held'[c] <= held[c]
      <4>0. c \in Pids /\ held[c] \in Nat
        BY <1>0, KidsFinite DEF Amount
      <4>1. CASE c = pid
        BY <1>4, <4>0, <4>1
      <4>2. CASE c # pid
        <5>1. c \notin scope
          BY <1>0, <1>3, <2>1, <4>2, ParentUnder DEF scope
        <5> QED BY <1>4, <4>0, <5>1
      <4> QED BY <4>1, <4>2
    <3>3. \A d \in Pids : st'[d] \in {"live", "dead"} => st[d] \in {"live", "dead"}
      BY <1>4
    <3>4. Need(line, st', used', held', call, q) <= Need(line, st, used, held, call, q)
      <4> DEFINE s2 == st'
                 u2 == used'
                 h2 == held'
      <4>1. /\ u2 \in Amount /\ h2 \in Amount /\ u2[q] <= used[q]
            /\ \A c \in Kids(line, q) : h2[c] <= held[c]
            /\ \A d \in Pids : s2[d] \in {"live", "dead"} => st[d] \in {"live", "dead"}
        BY <1>5, <3>1, <3>2, <3>3
      <4> HIDE DEF s2, u2, h2
      <4>2. Need(line, s2, u2, h2, call, q) <= Need(line, st, used, held, call, q)
        BY <1>0, <4>1, NeedMono
      <4> QED BY <4>2 DEF s2, u2, h2
    <3> QED BY <2>0, <3>4
  <2>2. CASE q \in scope
    <3> DEFINE t == Parts(line, st', held', call, NoPid, 0)
               C == Kids(line, q)
    <3>1. \A i \in Calls : call[i] # NoCall => call[i].pid \notin scope
      BY <1>2, <1>16, <2>2
    <3>2. EnvelopesOf({q}, call) = 0
      BY <1>0, <2>2, <3>1, EnvelopesNone
    <3>3. C \subseteq Pids /\ IsFiniteSet(C)
      BY KidsFinite
    <3>4. ASSUME NEW c \in C PROVE c \in scope /\ t[c] = held'[c] /\ t[c] \in Nat
      <4> DEFINE S == {d \in Under(line, c) : st'[d] \in {"live", "dead"}}
      <4>1. \A d \in Under(line, q) : d \in scope
        <5>1. ASSUME NEW d \in Under(line, q) PROVE d \in scope
          <6>1. d \in Pids /\ q \in Range(line[d]) /\ pid \in Range(line[q])
            BY <2>2 DEF Under, scope
          <6>2. Range(line[q]) \subseteq Range(line[d])
            BY <1>0, <6>1, ChainUp
          <6> QED BY <6>1, <6>2 DEF Under, scope
        <5> QED BY <5>1
      <4>2. \A d \in S : d \in scope
        BY <1>0, <4>1, BelowChild
      <4>3. \A i \in Calls : call[i] # NoCall => call[i].pid \notin S
        BY <3>1, <4>2
      <4> HIDE DEF S
      <4>4. EnvelopesOf(S, call) = 0
        BY <1>0, <4>3, EnvelopesNone
      <4>5. Env(line, st', call, c) = 0
        BY <4>4 DEF Env, S
      <4>6. c \in Pids /\ c # NoPid /\ held'[c] \in Nat
        BY <1>4, <3>3, BudgetAssumption
      <4>7. t[c] = Part(held', 0, NoPid, 0, c)
        BY <1>0, <1>5, <4>5, <4>6, PartsType
      <4>8. Part(held', 0, NoPid, 0, c) = held'[c]
        BY <4>6 DEF Part, Less
      <4>9. c \in scope
        BY <1>0, <4>1, ChildUnder
      <4> QED BY <4>6, <4>7, <4>8, <4>9
    <3>5. Need(line, st', used', held', call, q) = used'[q] + (EnvelopesOf({q}, call) + Total(t, C))
      BY DEF Need, Taken
    <3> HIDE DEF t
    <3>6. used'[q] \in Nat /\ Total(t, C) \in Nat
      BY <1>4, <3>3, <3>4, TotalType
    <3>7. Need(line, st', used', held', call, q) = used'[q] + Total(t, C)
      BY <3>2, <3>5, <3>6
    <3>8. CASE q \in kept
      <4> DEFINE f == saved.held
                 B == C \cap kept
      <4>1. B \in SUBSET C /\ IsFiniteSet(B)
        BY <3>3, FS_Subset
      <4>2. \A c \in B : f[c] \in Nat /\ t[c] \in Nat /\ t[c] <= f[c]
        BY <1>1, <1>4, <3>3, <3>4
      <4>3. \A c \in C : t[c] # 0 => c \in B
        BY <1>4, <3>3, <3>4
      <4>4. saved.used[q] + Total(f, B) <= limit[q] /\ used'[q] = saved.used[q]
        BY <1>1, <1>4, <1>16, <2>0, <3>8
      <4> HIDE DEF f, B, C
      <4>5. Total(t, C) = Total(t, B)
        BY <3>4, <4>1, <4>3, TotalSame
      <4>6. Total(t, B) <= Total(f, B) /\ Total(f, B) \in Nat
        BY <4>1, <4>2, TotalMono, TotalType
      <4> QED BY <2>0, <3>6, <3>7, <4>4, <4>5, <4>6
    <3>9. CASE q \notin kept
      <4>1. \A c \in C : t[c] = 0
        <5>1. ASSUME NEW c \in C PROVE held'[c] = 0
          <6>1. c \in kept => c = pid
            BY <1>1, <3>9
          <6> QED BY <1>4, <3>3, <3>4, <6>1
        <5> QED BY <3>4, <5>1
      <4>2. Total(t, C) = 0
        <5> HIDE DEF C
        <5>1. Total(t, C) = Total(t, {})
          BY <3>4, <4>1, TotalSame
        <5> QED BY <5>1, TotalNone
      <4>3. used'[q] = used[q]
        BY <1>4, <2>2, <3>9
      <4>4. Need(line, st, used, held, call, q) = used[q] + Taken(line, st, held, call, q, NoPid, 0)
        BY DEF Need
      <4>5. Taken(line, st, held, call, q, NoPid, 0) \in Nat /\ used[q] \in Nat
        BY <1>0, TakenType DEF Amount
      <4> QED BY <2>0, <3>7, <4>2, <4>3, <4>4, <4>5
    <3> QED BY <3>8, <3>9
  <2> QED BY <2>1, <2>2
<1>17. NeedFits'
  BY <1>2, <1>16 DEF NeedFits
<1> QED BY <1>8, <1>10, <1>11, <1>12, <1>13, <1>14, <1>15, <1>17 DEF IInv

-----------------------------------------------------------------------------
(* The theorems *)

\* At first the root alone is there and nothing is committed.
LEMMA InitInv ==
    ASSUME Init
    PROVE  IInv
<1>0. /\ IsFiniteSet(Pids) /\ Root \in Pids /\ NoPid \notin Pids /\ RootLimit \in Nat
      /\ Unlimited \notin Nat
  BY BudgetAssumption
<1>1. TypeOK
  <2>1. line \in [Pids -> Seq(Pids)]
    BY <1>0 DEF Init
  <2> QED BY <1>0, <2>1 DEF Init, TypeOK
<1>2. /\ used \in Amount /\ held \in Amount /\ call \in Tables
      /\ \A p \in Pids : used[p] = 0 /\ held[p] = 0
      /\ \A i \in Calls : call[i] = NoCall
  BY <1>1, Types DEF Init
<1>3. \A p \in Pids : /\ p # Root => line[p] = <<>> /\ st[p] = "none" /\ limit[p] = Unlimited
                      /\ p = Root => line[p] = <<Root>> /\ st[p] = "live"
  BY DEF Init
<1>4. /\ Len(line[Root]) = 1 /\ line[Root][1] = Root
      /\ \A p \in Pids : p # Root => Len(line[p]) = 0
  <2>1. Len(<<>>) = 0 /\ Len(<<Root>>) = 1 /\ <<Root>>[1] = Root
    OBVIOUS
  <2>2. line[Root] = <<Root>> /\ \A p \in Pids : p # Root => line[p] = <<>>
    BY <1>0, <1>3
  <2>3. \A p \in Pids : p # Root => Len(line[p]) = 0
    BY <2>1, <2>2, Zenon
  <2> QED BY <2>1, <2>2, <2>3
<1>5. LineInv
  <2>1. ASSUME NEW p \in Pids, NEW x \in 1 .. Len(line[p])
        PROVE  /\ Len(line[line[p][x]]) = Len(line[p]) - x + 1
               /\ \A y \in 1 .. Len(line[line[p][x]]) : line[line[p][x]][y] = line[p][x + y - 1]
    <3>0. p = Root
      <4>1. CASE p # Root
        <5>1. Len(line[p]) = 0
          BY <1>4, <4>1
        <5>2. x \in 1 .. 0
          BY <5>1
        <5> QED BY <5>2
      <4> QED BY <4>1
    <3>1. p = Root /\ x = 1
      <4>1. x \in 1 .. 1
        BY <1>4, <3>0
      <4> QED BY <3>0, <4>1
    <3>2. line[line[p][x]] = line[p] /\ Len(line[p]) = 1
      BY <1>4, <3>1
    <3> QED BY <3>1, <3>2
  <2>2. \A p \in Pids : Len(line[p]) > 0 => line[p][1] = p
    BY <1>4
  <2>3. Lines(line)
    BY <2>1, <2>2 DEF Lines
  <2>4. <<Root>> # <<>>
    OBVIOUS
  <2> QED BY <1>2, <1>3, <2>3, <2>4 DEF LineInv
<1>6. NeedFits
  <2>1. ASSUME NEW q \in Pids PROVE Need(line, st, used, held, call, q) = 0
    <3>1. Kids(line, q) = {}
      BY <1>4 DEF Kids
    <3>2. Total(Parts(line, st, held, call, NoPid, 0), Kids(line, q)) = 0
      BY <3>1, TotalNone
    <3>3. EnvelopesOf({q}, call) = 0
      BY <1>2, EnvelopesNone
    <3> QED BY <1>2, <3>2, <3>3 DEF Need, Taken
  <2>2. \A q \in Pids : limit[q] # Unlimited => 0 <= limit[q]
    BY <1>1, Types
  <2> QED BY <2>1, <2>2 DEF NeedFits
<1>7. HeldCovers /\ CallsInv
  BY <1>2 DEF HeldCovers, CallsInv
<1>8. AllocationCoversChild
  BY <1>3 DEF AllocationCoversChild
<1>9. GoneInv /\ SavedInv /\ OnlyOveragesKill
  BY <1>3 DEF Init, GoneInv, SavedInv, OnlyOveragesKill
<1> QED BY <1>1, <1>5, <1>6, <1>7, <1>8, <1>9 DEF IInv

\* Every action keeps the invariant.
LEMMA NextInv ==
    ASSUME IInv, Next
    PROVE  IInv'
<1>1. ASSUME NEW p \in Pids, NEW c \in Pids, (\E b \in Limits : Spawn(p, c, b)) \/ Fork(p, c)
      PROVE  IInv'
  BY <1>1, LaunchKeeps
<1>2. ASSUME NEW p \in Pids, Exit(p) \/ KillExceeded(p) PROVE IInv'
  BY <1>2, EndKeeps
<1>3. ASSUME NEW p \in Pids, Checkpoint(p) PROVE IInv'
  BY <1>3, CheckpointKeeps
<1>4. ASSUME NEW p \in Pids, NEW n \in Amounts, Charge(p, n) PROVE IInv'
  BY <1>4, ChargeKeeps
<1>5. ASSUME NEW p \in Pids, NEW n \in Amounts, NEW i \in Calls, ReserveUsage(p, i, n) PROVE IInv'
  BY <1>5, ReserveStep
<1>6. ASSUME NEW p \in Pids, NEW n \in Overages, ChargeOverage(p, n) PROVE IInv'
  BY <1>6, OverageKeeps
<1>7. ASSUME NEW i \in Calls, \/ Dispatch(i) \/ SettleRefused(i) \/ Release(i)
                              \/ RecoverRelease(i) \/ RecoverVanished(i)
      PROVE  IInv'
  BY <1>7, CallSteps
<1>8. ASSUME NEW i \in Calls, NEW n \in {0} \cup Amounts, Settle(i, n) PROVE IInv'
  BY <1>8, SettleKeeps
<1>9. ASSUME NEW i \in Calls, RecoverMaximum(i) PROVE IInv'
  BY <1>9, RecoverKeeps
<1>10. ASSUME Restore PROVE IInv'
  BY <1>10, RestoreKeeps
<1>11. ASSUME Crash \/ Reopen PROVE IInv'
  BY <1>11, CrashSteps
<1> QED
  BY <1>1, <1>2, <1>3, <1>4, <1>5, <1>6, <1>7, <1>8, <1>9, <1>10, <1>11 DEF Next

\* A step that changes nothing.
LEMMA StutterInv ==
    ASSUME IInv, UNCHANGED vars
    PROVE  IInv'
<1> USE DEF vars
<1>1. TypeOK' /\ LineInv' /\ GoneInv' /\ HeldCovers' /\ AllocationCoversChild'
  BY DEF IInv, TypeOK, LineInv, GoneInv, HeldCovers, AllocationCoversChild
<1>2. NeedFits' /\ CallsInv' /\ OnlyOveragesKill'
  BY DEF IInv, NeedFits, CallsInv, OnlyOveragesKill, Exists
<1>3. SavedInv'
  BY DEF IInv, SavedInv, Exists
<1> QED BY <1>1, <1>2, <1>3 DEF IInv

\* The invariant of the accounting, whatever the tree, the limits and the calls.
THEOREM Accounting == Spec => []IInv
<1>1. Init => IInv
  BY InitInv
<1>2. IInv /\ [Next]_vars => IInv'
  BY NextInv, StutterInv
<1> QED BY <1>1, <1>2, PTL DEF Spec

\* NotOversold: whatever the order of launches, reservations, charges, settlements, ends,
\* restores and recoveries, what a live process has used and what is committed below it fits
\* its limit, unless an overage was charged along its chain.
THEOREM NeverOversold == Spec => []NotOversold
<1>1. IInv => NotOversold
  <2>1. ASSUME IInv, NEW p \in Pids, limit[p] # Unlimited, p \notin overrun
        PROVE  Committed(p) <= limit[p]
    BY <2>1, CommittedIs DEF IInv, NeedFits
  <2> QED BY <2>1 DEF NotOversold
<1> QED BY <1>1, Accounting, PTL

\* PromisesInv: the allocation of a live child covers what it may still use, and an open
\* envelope can be settled at its maximum at every ancestor.
THEOREM PromisesKept == Spec => []PromisesInv
<1>1. IInv => PromisesInv
  BY SettlementAlwaysFits DEF IInv, PromisesInv
<1> QED BY <1>1, Accounting, PTL

\* OnlyOveragesKill: a charge that passed its preflight never ends in a kill.
THEOREM OnlyOverageKills == Spec => []OnlyOveragesKill
<1>1. IInv => OnlyOveragesKill
  BY DEF IInv
<1> QED BY <1>1, Accounting, PTL

=============================================================================
