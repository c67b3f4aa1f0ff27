---------------------------- MODULE Basics_proofs -----------------------------
(***************************************************************************)
(* What the proofs of this project share, for all values: induction and    *)
(* folds, sums over finite sets, the parts of a text and its lines, texts  *)
(* one after the other, and the report operators, for every width of the   *)
(* counters.                                                               *)
(*                                                                         *)
(* The library's induction theorems take the predicate as a parameter.     *)
(* Here induction is over the set of cases that hold, and starts from one  *)
(* fact of the library: the finite subsets of a set, ordered by strict     *)
(* inclusion, have no infinite descent.                                    *)
(***************************************************************************)
EXTENDS ScanReport, Lines, SequencesExt, SequenceTheorems, FiniteSetTheorems,
        WellFoundedInduction, TLAPS

\* Of finite sets, one has none of the others as a proper subset.
LEMMA SmallestSet ==
    ASSUME NEW S, NEW T \in SUBSET FiniteSubsetsOf(S), T # {}
    PROVE  \E s \in T : \A r \in T : r \subseteq s => r = s
<1>1. IsWellFoundedOn(StrictSubsetOrdering(S), FiniteSubsetsOf(S))
  BY FS_StrictSubsetOrderingWellFounded
<1>2. PICK s \in T : \A r \in T : ~ (<<r, s>> \in StrictSubsetOrdering(S))
  BY <1>1, WFMin
<1>3. \A r \in T : r \in SUBSET S
  BY DEF FiniteSubsetsOf
<1>. QED  BY <1>2, <1>3 DEF StrictSubsetOrdering

\* Of natural numbers, one is the least: the intervals 1 .. n are such sets.
LEMMA LeastNat ==
    ASSUME NEW T \in SUBSET Nat, T # {}
    PROVE  \E n \in T : \A m \in T : n <= m
<1>. DEFINE Spans == {1 .. n : n \in T}
<1>1. Spans \in SUBSET FiniteSubsetsOf(Nat) /\ Spans # {}
  <2>1. \A n \in T : IsFiniteSet(1 .. n)
    BY FS_Interval
  <2>. QED  BY <2>1 DEF FiniteSubsetsOf
<1>2. PICK s \in Spans : \A r \in Spans : r \subseteq s => r = s
  <2>. HIDE DEF Spans
  <2>. QED  BY <1>1, SmallestSet
<1>3. PICK n \in T : s = 1 .. n
  OBVIOUS
<1>4. ASSUME NEW m \in T, m < n PROVE FALSE
  <2>1. 1 .. m \subseteq 1 .. n /\ n \in 1 .. n /\ n \notin 1 .. m
    BY <1>4
  <2>. QED  BY <1>2, <1>3, <2>1
<1>. QED  BY <1>4

\* A set that has 0, and with a number its successor, has them all: the least
\* number left out would follow one that is not.
LEMMA InductionOverNat ==
    ASSUME NEW T, 0 \in T, \A n \in Nat : n \in T => n + 1 \in T
    PROVE  Nat \subseteq T
<1>. DEFINE Out == {k \in Nat : k \notin T}
<1>. SUFFICES ASSUME Out # {} PROVE FALSE
  OBVIOUS
<1>1. PICK n \in Out : \A m \in Out : n <= m
  BY LeastNat
<1>2. n # 0 /\ n - 1 \in Nat
  OBVIOUS
<1>3. n - 1 \notin Out
  BY <1>1, <1>2
<1>. QED  BY <1>2, <1>3

\* Values may be given one after the other, each from the one before.
IsRun(f, n, base, step) ==
    f[0] = base /\ \A j \in 1 .. n : f[j] = step[<<j, f[j - 1]>>]

LEMMA RecursionOverNat ==
    ASSUME NEW n \in Nat, NEW V, NEW base \in V, NEW step \in [(1 .. n) \X V -> V]
    PROVE  \E f \in [0 .. n -> V] : IsRun(f, n, base, step)
<1>. DEFINE Solves(f, m) == /\ f[0] = base
                            /\ \A j \in 1 .. m : f[j] = step[<<j, f[j - 1]>>]
            T == {m \in Nat : m <= n => \E f \in [0 .. m -> V] : Solves(f, m)}
<1>1. 0 \in T
  <2>1. Solves([j \in 0 .. 0 |-> base], 0) /\ [j \in 0 .. 0 |-> base] \in [0 .. 0 -> V]
    OBVIOUS
  <2>. QED  BY <2>1
<1>2. ASSUME NEW m \in Nat, m \in T PROVE m + 1 \in T
  <2>. SUFFICES ASSUME m + 1 <= n PROVE \E f \in [0 .. m + 1 -> V] : Solves(f, m + 1)
    OBVIOUS
  <2>1. PICK f \in [0 .. m -> V] : Solves(f, m)
    BY <1>2
  <2>. DEFINE g == [j \in 0 .. m + 1 |-> IF j = m + 1 THEN step[<<m + 1, f[m]>>] ELSE f[j]]
  <2>2. f[m] \in V /\ step[<<m + 1, f[m]>>] \in V
    OBVIOUS
  <2>3. g \in [0 .. m + 1 -> V]
    BY <2>2
  <2>4. \A j \in 0 .. m : g[j] = f[j]
    OBVIOUS
  <2>5. g[m + 1] = step[<<m + 1, g[m]>>]
    <3>1. g[m] = f[m] /\ m + 1 \in 0 .. m + 1
      BY <2>4
    <3>2. g[m + 1] = step[<<m + 1, f[m]>>]
      BY <3>1
    <3>. HIDE DEF g
    <3>. QED  BY <3>1, <3>2
  <2>6. ASSUME NEW j \in 1 .. m + 1 PROVE g[j] = step[<<j, g[j - 1]>>]
    <3>1. CASE j = m + 1
      <4>1. j - 1 = m
        BY <3>1
      <4>. QED  BY <2>5, <3>1, <4>1
    <3>2. CASE j # m + 1
      <4>1. j \in 1 .. m /\ j \in 0 .. m /\ j - 1 \in 0 .. m
        BY <3>2
      <4>2. f[j] = step[<<j, f[j - 1]>>]
        BY <2>1, <4>1
      <4>. QED  BY <2>4, <4>1, <4>2
    <3>. QED  BY <3>1, <3>2
  <2>7. Solves(g, m + 1)
    <3>1. g[0] = base
      BY <2>1, <2>4
    <3>. HIDE DEF g
    <3>. QED  BY <2>6, <3>1
  <2>. QED  BY <2>3, <2>7
<1>3. n \in T
  <2>. HIDE DEF T
  <2>. QED  BY <1>1, <1>2, InductionOverNat
<1>. QED  BY <1>3 DEF IsRun

\* A choice of one member from each set, ...
Picks(pick, S) == \A s \in SUBSET S : s # {} => pick[s] \in s

\* ... and the values of a fold that takes the members in that order: how the
\* community modules define theirs.
IsFold(g, S, base, pick, step) ==
    \A s \in SUBSET S :
       g[s] = IF s = {} THEN base ELSE step[<<pick[s], g[s \ {pick[s]}]>>]

\* A fold over a finite set has its values, by induction on how many members
\* are left.
LEMMA FoldExists ==
    ASSUME NEW S, IsFiniteSet(S), NEW V, NEW base \in V,
           NEW pick, Picks(pick, S), NEW step \in [S \X V -> V]
    PROVE  \E g \in [SUBSET S -> V] : IsFold(g, S, base, pick, step)
<1>. DEFINE Small(m) == {s \in SUBSET S : Cardinality(s) <= m}
            Value(g, s) == IF s = {} THEN base ELSE step[<<pick[s], g[s \ {pick[s]}]>>]
            T == {m \in Nat : \E g \in [Small(m) -> V] : \A s \in Small(m) : g[s] = Value(g, s)}
<1>f. \A s \in SUBSET S : IsFiniteSet(s) /\ Cardinality(s) \in Nat
  BY FS_Subset, FS_CardinalityType
<1>1. 0 \in T
  <2>. DEFINE g == [s \in Small(0) |-> base]
  <2>1. \A s \in Small(0) : s = {}
    BY <1>f, FS_EmptySet
  <2>2. g \in [Small(0) -> V] /\ \A s \in Small(0) : g[s] = Value(g, s)
    BY <2>1
  <2>. QED  BY <2>2
<1>2. ASSUME NEW m \in Nat, m \in T PROVE m + 1 \in T
  <2>1. PICK f \in [Small(m) -> V] : \A s \in Small(m) : f[s] = Value(f, s)
    BY <1>2
  <2>2. ASSUME NEW s \in Small(m + 1), s # {}
        PROVE  s \ {pick[s]} \in Small(m) /\ pick[s] \in S
    <3>1. pick[s] \in s /\ IsFiniteSet(s) /\ Cardinality(s) \in Nat
      BY <1>f, <2>2 DEF Picks
    <3>2. Cardinality(s \ {pick[s]}) = Cardinality(s) - 1
      BY <3>1, FS_RemoveElement
    <3>. QED  BY <3>1, <3>2
  <2>. DEFINE g == [s \in Small(m + 1) |-> Value(f, s)]
  <2>3. \A s \in Small(m + 1) : Value(f, s) \in V
    BY <2>2
  <2>4. \A s \in Small(m) : s \in Small(m + 1) /\ g[s] = f[s]
    <3>1. \A s \in Small(m) : s \in Small(m + 1)
      BY <1>f
    <3>. HIDE DEF Small, Value
    <3>. QED  BY <2>1, <3>1
  <2>5. ASSUME NEW s \in Small(m + 1) PROVE g[s] = Value(g, s)
    <3>1. CASE s = {}
      BY <3>1
    <3>2. CASE s # {}
      <4>. DEFINE r == s \ {pick[s]}
      <4>1. r \in Small(m)
        BY <2>2, <3>2
      <4>2. g[r] = f[r]
        BY <2>4, <4>1
      <4>. HIDE DEF Small
      <4>3. g[s] = Value(f, s)
        OBVIOUS
      <4>. QED  BY <3>2, <4>2, <4>3
    <3>. QED  BY <3>1, <3>2
  <2>6. g \in [Small(m + 1) -> V]
    BY <2>3
  <2>. HIDE DEF g, Value, Small
  <2>. QED  BY <2>5, <2>6
<1>3. Cardinality(S) \in Nat /\ \A s \in SUBSET S : Cardinality(s) <= Cardinality(S)
  BY <1>f, FS_Subset
<1>4. Cardinality(S) \in T
  <2>. HIDE DEF T
  <2>. QED  BY <1>1, <1>2, <1>3, InductionOverNat
<1>5. Small(Cardinality(S)) = SUBSET S
  BY <1>3
<1>6. PICK g \in [SUBSET S -> V] : \A s \in SUBSET S : g[s] = Value(g, s)
  <2>. HIDE DEF Small, Value
  <2>. QED  BY <1>4, <1>5
<1>. QED  BY <1>6 DEF IsFold

\* Positions up to n have a last one.
LEMMA GreatestUpTo ==
    ASSUME NEW n \in Nat, NEW d \in SUBSET (1 .. n), d # {}
    PROVE  \E x \in d : \A y \in d : x >= y
<1>. DEFINE T == {m \in Nat : \A y \in d : y <= m}
<1>1. n \in T
  OBVIOUS
<1>2. PICK m \in T : \A k \in T : m <= k
  <2>. HIDE DEF T
  <2>1. T \in SUBSET Nat
    BY DEF T
  <2>. QED  BY <1>1, <2>1, LeastNat
<1>3. m \in d
  <2>. SUFFICES ASSUME m \notin d PROVE FALSE
    OBVIOUS
  <2>1. PICK y \in d : TRUE
    OBVIOUS
  <2>2. m # 0 /\ m - 1 \in Nat
    BY <2>1
  <2>3. \A z \in d : z \in Nat /\ z <= m /\ z # m
    OBVIOUS
  <2>4. \A z \in d : z <= m - 1
    BY <2>3
  <2>5. m - 1 \in T
    BY <2>2, <2>4
  <2>. QED  BY <1>2, <2>2, <2>5
<1>. QED  BY <1>3

\* A fold over the positions of a sequence takes the last one.
TakesLast(last, n) ==
    \A d \in SUBSET (1 .. n) : d # {} => last[d] \in d /\ \A y \in d : last[d] >= y

LEMMA LeftFoldExists ==
    ASSUME NEW n \in Nat, NEW V, NEW base \in V, NEW step \in [(1 .. n) \X V -> V],
           NEW last, TakesLast(last, n)
    PROVE  \E g \in [SUBSET (1 .. n) -> V] : IsFold(g, 1 .. n, base, last, step)
<1>1. IsFiniteSet(1 .. n)
  BY FS_Interval
<1>2. Picks(last, 1 .. n)
  BY DEF Picks, TakesLast
<1>. QED  BY <1>1, <1>2, FoldExists

\* A fold, and so far as its values are in V any function that satisfies the
\* fold's equations, is a running value: what the first j members come to.
Follows(g, S, V, base, pick, step) ==
    /\ g[{}] = base
    /\ \A s \in SUBSET S : s # {} /\ g[s \ {pick[s]}] \in V =>
          g[s] = step[<<pick[s], g[s \ {pick[s]}]>>]

RunsTo(f, n, base, step, result) == IsRun(f, n, base, step) /\ f[n] = result

LEMMA FoldRuns ==
    ASSUME NEW n \in Nat, NEW V, NEW base \in V, NEW step \in [(1 .. n) \X V -> V],
           NEW last, TakesLast(last, n), NEW g, Follows(g, 1 .. n, V, base, last, step)
    PROVE  \E f \in [0 .. n -> V] : RunsTo(f, n, base, step, g[1 .. n])
<1>1. PICK f \in [0 .. n -> V] : IsRun(f, n, base, step)
  BY RecursionOverNat
<1>. DEFINE T == {j \in Nat : j <= n => f[j] = g[1 .. j]}
<1>2. 0 \in T
  <2>1. 1 .. 0 = {}
    OBVIOUS
  <2>. QED  BY <1>1, <2>1 DEF Follows, IsRun
<1>3. ASSUME NEW j \in Nat, j \in T PROVE j + 1 \in T
  <2>. SUFFICES ASSUME j + 1 <= n PROVE f[j + 1] = g[1 .. j + 1]
    OBVIOUS
  <2>. DEFINE d == 1 .. j + 1
  <2>1. /\ d \in SUBSET (1 .. n) /\ j + 1 \in d /\ d \ {j + 1} = 1 .. j
        /\ j + 1 \in 1 .. n /\ (j + 1) - 1 = j /\ f[j] = g[1 .. j] /\ f[j] \in V
    BY <1>3
  <2>2. last[d] = j + 1 /\ d # {}
    <3>1. d # {}
      BY <2>1
    <3>2. last[d] \in d /\ last[d] >= j + 1
      BY <2>1, <3>1 DEF TakesLast
    <3>. QED  BY <3>1, <3>2
  <2>3. g[d] = step[<<j + 1, g[1 .. j]>>]
    <3>. HIDE DEF d
    <3>. QED  BY <2>1, <2>2 DEF Follows
  <2>4. f[j + 1] = step[<<j + 1, f[j]>>]
    BY <1>1, <2>1 DEF IsRun
  <2>. QED  BY <2>1, <2>3, <2>4
<1>4. n \in T
  <2>. HIDE DEF T
  <2>. QED  BY <1>2, <1>3, InductionOverNat
<1>. QED  BY <1>1, <1>4 DEF RunsTo

\* Two running values that start alike and go on alike are alike.
LEMMA RunsAgree ==
    ASSUME NEW m \in Nat, NEW f, NEW g, f[0] = g[0],
           \A j \in 1 .. m : f[j - 1] = g[j - 1] => f[j] = g[j]
    PROVE  f[m] = g[m]
<1>. DEFINE T == {j \in Nat : j <= m => f[j] = g[j]}
<1>1. 0 \in T
  OBVIOUS
<1>2. ASSUME NEW j \in Nat, j \in T PROVE j + 1 \in T
  <2>. SUFFICES ASSUME j + 1 <= m PROVE f[j + 1] = g[j + 1]
    OBVIOUS
  <2>1. j + 1 \in 1 .. m /\ (j + 1) - 1 = j /\ f[j] = g[j]
    BY <1>2
  <2>. QED  BY <2>1
<1>3. m \in T
  <2>. HIDE DEF T
  <2>. QED  BY <1>1, <1>2, InductionOverNat
<1>. QED  BY <1>3

\* FoldLeft takes the last position by Max.
LEMMA MaxFacts ==
    ASSUME NEW n \in Nat, NEW S \in SUBSET (1 .. n), S # {}
    PROVE  Max(S) \in S /\ \A y \in S : y <= Max(S)
<1>1. PICK x \in S : \A y \in S : x >= y
  BY GreatestUpTo
<1>2. Max(S) \in S /\ \A y \in S : Max(S) >= y
  BY <1>1 DEF Max
<1>3. \A y \in S : y \in Int
  OBVIOUS
<1>. QED  BY <1>2, <1>3

LEMMA MaxIsLast ==
    ASSUME NEW n \in Nat
    PROVE  TakesLast([d \in SUBSET (1 .. n) |-> Max(d)], n)
<1>1. ASSUME NEW d \in SUBSET (1 .. n), d # {} PROVE Max(d) \in d /\ \A y \in d : Max(d) >= y
  <2>1. Max(d) \in d /\ \A y \in d : y <= Max(d)
    BY <1>1, MaxFacts
  <2>2. \A y \in d : y \in Int
    OBVIOUS
  <2>. QED  BY <2>1, <2>2
<1>. QED  BY <1>1 DEF TakesLast

\* So a function can do what FoldLeft asks of its own, ...
IsMaxFold(g, n, base, step) ==
    \A d \in SUBSET (1 .. n) :
       /\ d = {} => g[d] = base
       /\ d # {} => Max(d) \in d /\ g[d] = step[<<Max(d), g[d \ {Max(d)}]>>]

LEMMA MaxFoldExists ==
    ASSUME NEW n \in Nat, NEW V, NEW base \in V, NEW step \in [(1 .. n) \X V -> V]
    PROVE  \E g \in [SUBSET (1 .. n) -> V] : IsMaxFold(g, n, base, step)
<1>. DEFINE last == [d \in SUBSET (1 .. n) |-> Max(d)]
<1>1. PICK g \in [SUBSET (1 .. n) -> V] : IsFold(g, 1 .. n, base, last, step)
  <2>. HIDE DEF last
  <2>. QED  BY LeftFoldExists, MaxIsLast DEF last
<1>2. ASSUME NEW d \in SUBSET (1 .. n)
      PROVE  /\ d = {} => g[d] = base
             /\ d # {} => Max(d) \in d /\ g[d] = step[<<Max(d), g[d \ {Max(d)}]>>]
  <2>1. d # {} => Max(d) \in d
    BY MaxFacts
  <2>2. last[d] = Max(d)
    OBVIOUS
  <2>. HIDE DEF last
  <2>. QED  BY <1>1, <2>1, <2>2 DEF IsFold
<1>. QED  BY <1>2 DEF IsMaxFold

\* ... and what does is a running value.
LEMMA MaxFoldRuns ==
    ASSUME NEW n \in Nat, NEW V, NEW base \in V, NEW step \in [(1 .. n) \X V -> V], NEW g,
           g[{}] = base,
           \A d \in SUBSET (1 .. n) : d # {} /\ g[d \ {Max(d)}] \in V =>
              g[d] = step[<<Max(d), g[d \ {Max(d)}]>>]
    PROVE  \E f \in [0 .. n -> V] : RunsTo(f, n, base, step, g[1 .. n])
<1>. DEFINE last == [d \in SUBSET (1 .. n) |-> Max(d)]
<1>1. \A d \in SUBSET (1 .. n) : last[d] = Max(d)
  OBVIOUS
<1>2. TakesLast(last, n)
  BY MaxIsLast
<1>. HIDE DEF last
<1>3. Follows(g, 1 .. n, V, base, last, step)
  BY <1>1 DEF Follows
<1>. QED  BY <1>2, <1>3, FoldRuns

-----------------------------------------------------------------------------
(* Sums over finite sets. *)
\* A sum over a finite set, whichever member is taken out first: induction on
\* the set, for every member at once.
LEMMA SumTakesOut ==
    ASSUME NEW S, IsFiniteSet(S), NEW f, \A x \in S : f[x] \in Nat
    PROVE  /\ SumFunctionOnSet(f, {}) = 0
           /\ SumFunctionOnSet(f, S) \in Nat
           /\ \A x \in S : SumFunctionOnSet(f, S) = f[x] + SumFunctionOnSet(f, S \ {x})
<1>. DEFINE Value(g, s) == IF s = {} THEN 0
                           ELSE LET x == CHOOSE x \in s : TRUE IN f[x] + g[s \ {x}]
            iter(D) == CHOOSE g : g = [s \in SUBSET D |-> Value(g, s)]
            pick == [s \in SUBSET S |-> CHOOSE x \in s : TRUE]
            step == [p \in S \X Nat |-> f[p[1]] + p[2]]
<1>1. \A D : SumFunctionOnSet(f, D) = iter(D)[D]
  BY DEF SumFunctionOnSet, FoldFunctionOnSet, MapThenFoldSet
<1>2. Picks(pick, S)
  BY DEF Picks
<1>3. PICK g \in [SUBSET S -> Nat] : IsFold(g, S, 0, pick, step)
  <2>1. step \in [S \X Nat -> Nat]
    OBVIOUS
  <2>. HIDE DEF step, pick
  <2>. QED  BY <1>2, <2>1, FoldExists
<1>4. ASSUME NEW s \in SUBSET S PROVE g[s] = Value(g, s)
  <2>1. s # {} => pick[s] \in s /\ s \ {pick[s]} \in SUBSET S
    OBVIOUS
  <2>. QED  BY <1>3, <2>1 DEF IsFold
<1>5. ASSUME NEW D \in SUBSET S PROVE iter(D)[D] = g[D]
  <2>. DEFINE own == [s \in SUBSET D |-> g[s]]
              mine == iter(D)
  <2>1. own = [s \in SUBSET D |-> Value(own, s)]
    <3>1. ASSUME NEW s \in SUBSET D PROVE own[s] = Value(own, s)
      <4>1. s # {} => (CHOOSE x \in s : TRUE) \in s
        OBVIOUS
      <4>2. s \in SUBSET S /\ \A x : s \ {x} \in SUBSET D
        OBVIOUS
      <4>. QED  BY <1>4, <4>1, <4>2
    <3>. HIDE DEF Value
    <3>. QED  BY <3>1
  <2>2. mine = [s \in SUBSET D |-> Value(mine, s)]
    <3>. HIDE DEF Value, own
    <3>. QED  BY <2>1
  <2>. DEFINE T == {s \in SUBSET D : mine[s] # own[s]}
  <2>. SUFFICES ASSUME T # {} PROVE FALSE
    OBVIOUS
  <2>3. T \in SUBSET FiniteSubsetsOf(S)
    BY FS_Subset DEF FiniteSubsetsOf
  <2>4. PICK s \in T : \A r \in T : r \subseteq s => r = s
    <3>. HIDE DEF T
    <3>. QED  BY <2>3, SmallestSet
  <2>5. mine[s] = Value(mine, s) /\ own[s] = Value(own, s)
    <3>1. s \in SUBSET D
      OBVIOUS
    <3>. HIDE DEF Value, own, mine
    <3>. QED  BY <2>1, <2>2, <3>1
  <2>6. s # {}
    <3>. HIDE DEF own, mine
    <3>. QED  BY <2>5
  <2>. DEFINE x == CHOOSE x \in s : TRUE
  <2>7. x \in s /\ s \ {x} \notin T /\ s \ {x} \in SUBSET D
    BY <2>4, <2>6
  <2>8. mine[s \ {x}] = own[s \ {x}]
    <3>. HIDE DEF own, mine, x
    <3>. QED  BY <2>7
  <2>. HIDE DEF own, mine
  <2>. QED  BY <2>5, <2>8
<1>6. \A D \in SUBSET S : SumFunctionOnSet(f, D) = g[D]
  <2>. HIDE DEF iter
  <2>. QED  BY <1>1, <1>5
<1>7. ASSUME NEW s \in SUBSET S, s # {}
      PROVE  \E y \in s : g[s] = f[y] + g[s \ {y}]
  BY <1>4, <1>7
<1>. DEFINE Holds(s) == \A x \in s : g[s] = f[x] + g[s \ {x}]
            T == {s \in SUBSET S : ~Holds(s)}
<1>8. T = {}
  <2>. SUFFICES ASSUME T # {} PROVE FALSE
    OBVIOUS
  <2>1. T \in SUBSET FiniteSubsetsOf(S)
    BY FS_Subset DEF FiniteSubsetsOf
  <2>2. PICK s \in T : \A r \in T : r \subseteq s => r = s
    <3>. HIDE DEF T
    <3>. QED  BY <2>1, SmallestSet
  <2>3. PICK x \in s : g[s] # f[x] + g[s \ {x}]
    OBVIOUS
  <2>4. PICK y \in s : g[s] = f[y] + g[s \ {y}]
    BY <1>7, <2>3
  <2>5. x # y
    BY <2>3, <2>4
  <2>6. s \ {y} \notin T /\ s \ {x} \notin T /\ s \ {x} \in SUBSET S /\ s \ {y} \in SUBSET S
    BY <2>2
  <2>7. Holds(s \ {y}) /\ Holds(s \ {x})
    <3>. HIDE DEF Holds
    <3>. QED  BY <2>6
  <2>. DEFINE rest == (s \ {y}) \ {x}
  <2>8. rest = (s \ {x}) \ {y} /\ rest \in SUBSET S
    OBVIOUS
  <2>9. g[s \ {y}] = f[x] + g[rest] /\ g[s \ {x}] = f[y] + g[rest]
    <3>1. x \in s \ {y} /\ y \in s \ {x}
      BY <2>5
    <3>. QED  BY <2>7, <2>8, <3>1
  <2>. HIDE DEF rest
  <2>10. f[x] \in Nat /\ f[y] \in Nat /\ g[rest] \in Nat
    BY <2>8
  <2>. QED  BY <2>3, <2>4, <2>9, <2>10
<1>9. g[{}] = 0
  BY <1>4
<1>10. ASSUME NEW x \in S PROVE g[S] = f[x] + g[S \ {x}]
  BY <1>8
<1>. QED  BY <1>6, <1>9, <1>10

\* So a member put in counts once.
LEMMA SumPutsIn ==
    ASSUME NEW S, IsFiniteSet(S), NEW x, x \notin S, NEW f,
           \A y \in S \cup {x} : f[y] \in Nat
    PROVE  SumFunctionOnSet(f, S \cup {x}) = f[x] + SumFunctionOnSet(f, S)
<1>1. IsFiniteSet(S \cup {x}) /\ x \in S \cup {x} /\ (S \cup {x}) \ {x} = S
  BY FS_AddElement
<1>. QED  BY <1>1, SumTakesOut

\* Less is summed over fewer members, with smaller values.
LEMMA SumMonotone ==
    ASSUME NEW T, IsFiniteSet(T), NEW S \in SUBSET T, NEW f, NEW g,
           \A x \in S : f[x] \in Nat /\ f[x] <= g[x], \A x \in T : g[x] \in Nat
    PROVE  /\ SumFunctionOnSet(f, S) \in Nat /\ SumFunctionOnSet(g, T) \in Nat
           /\ SumFunctionOnSet(f, S) <= SumFunctionOnSet(g, T)
<1>. DEFINE Less(t) == SumFunctionOnSet(f, t \cap S) <= SumFunctionOnSet(g, t)
            Out == {t \in SUBSET T : ~Less(t)}
<1>1. Out = {}
  <2>. SUFFICES ASSUME Out # {} PROVE FALSE
    OBVIOUS
  <2>1. Out \in SUBSET FiniteSubsetsOf(T)
    BY FS_Subset DEF FiniteSubsetsOf
  <2>2. PICK t \in Out : \A r \in Out : r \subseteq t => r = t
    <3>. HIDE DEF Out
    <3>. QED  BY <2>1, SmallestSet
  <2>3. IsFiniteSet(t) /\ IsFiniteSet(t \cap S) /\ t \in SUBSET T /\ ~Less(t)
    BY FS_Subset
  <2>4. CASE t = {}
    <3>1. SumFunctionOnSet(f, {}) = 0 /\ SumFunctionOnSet(g, {}) = 0
      <4>1. IsFiniteSet({})
        BY FS_EmptySet
      <4>2. SumFunctionOnSet(f, {}) = 0 /\ SumFunctionOnSet(g, {}) = 0
        BY <4>1, SumTakesOut
      <4>. QED  BY <4>2
    <3>2. t \cap S = {}
      BY <2>4
    <3>. QED  BY <2>3, <2>4, <3>1, <3>2
  <2>5. ASSUME NEW x \in t PROVE FALSE
    <3>1. t \ {x} \in SUBSET T /\ t \ {x} \notin Out
      BY <2>2, <2>5
    <3>2. Less(t \ {x})
      BY <3>1
    <3>3. /\ SumFunctionOnSet(g, t) = g[x] + SumFunctionOnSet(g, t \ {x})
          /\ SumFunctionOnSet(g, t \ {x}) \in Nat /\ g[x] \in Nat
      <4>1. t \ {x} \subseteq t /\ \A y \in t : g[y] \in Nat
        BY <2>3
      <4>2. IsFiniteSet(t \ {x})
        BY <2>3, <4>1, FS_Subset
      <4>3. SumFunctionOnSet(g, t) = g[x] + SumFunctionOnSet(g, t \ {x})
        BY <2>3, <4>1, SumTakesOut
      <4>4. SumFunctionOnSet(g, t \ {x}) \in Nat
        BY <4>1, <4>2, SumTakesOut
      <4>. QED  BY <4>1, <4>3, <4>4
    <3>4. /\ SumFunctionOnSet(f, t \cap S) \in Nat
          /\ SumFunctionOnSet(f, (t \ {x}) \cap S) \in Nat
      <4>0. (t \ {x}) \cap S \subseteq t \cap S
        OBVIOUS
      <4>1. /\ IsFiniteSet((t \ {x}) \cap S)
            /\ \A y \in t \cap S : f[y] \in Nat
            /\ \A y \in (t \ {x}) \cap S : f[y] \in Nat
        <5>1. IsFiniteSet((t \ {x}) \cap S)
          BY <2>3, <4>0, FS_Subset
        <5>. QED  BY <5>1
      <4>2. SumFunctionOnSet(f, t \cap S) \in Nat
        BY <2>3, <4>1, SumTakesOut
      <4>. QED  BY <4>1, <4>2, SumTakesOut
    <3>. DEFINE a == SumFunctionOnSet(f, t \cap S)
                b == SumFunctionOnSet(f, (t \ {x}) \cap S)
                c == SumFunctionOnSet(g, t)
                d == SumFunctionOnSet(g, t \ {x})
    <3>5. ~(a <= c) /\ b <= d
      BY <2>3, <3>2
    <3>6. CASE x \in S
      <4>1. SumFunctionOnSet(f, t \cap S) = f[x] + SumFunctionOnSet(f, (t \cap S) \ {x})
        <5>1. x \in t \cap S /\ \A y \in t \cap S : f[y] \in Nat
          BY <3>6
        <5>. QED  BY <2>3, <5>1, SumTakesOut
      <4>2. (t \cap S) \ {x} = (t \ {x}) \cap S /\ f[x] \in Nat /\ f[x] <= g[x]
        BY <3>6
      <4>3. a = f[x] + b
        BY <4>1, <4>2
      <4>. HIDE DEF a, b, c, d
      <4>4. c = g[x] + d /\ a \in Nat /\ b \in Nat /\ d \in Nat
        BY <3>3, <3>4 DEF a, b, c, d
      <4>. QED  BY <3>3, <3>5, <4>2, <4>3, <4>4
    <3>7. CASE x \notin S
      <4>1. t \cap S = (t \ {x}) \cap S
        BY <3>7
      <4>2. a = b
        BY <4>1
      <4>. HIDE DEF a, b, c, d
      <4>3. c = g[x] + d /\ b \in Nat /\ d \in Nat
        BY <3>3, <3>4 DEF a, b, c, d
      <4>. QED  BY <3>3, <3>5, <4>2, <4>3
    <3>. QED  BY <3>6, <3>7
  <2>. QED  BY <2>4, <2>5
<1>2. Less(T) /\ T \cap S = S
  BY <1>1
<1>3. IsFiniteSet(S)
  BY FS_Subset
<1>. QED  BY <1>2, <1>3, SumTakesOut

\* Equal values have equal sums.
LEMMA SumAgrees ==
    ASSUME NEW S, IsFiniteSet(S), NEW f, NEW g, \A x \in S : f[x] \in Nat /\ f[x] = g[x]
    PROVE  SumFunctionOnSet(f, S) = SumFunctionOnSet(g, S)
<1>1. /\ SumFunctionOnSet(f, S) <= SumFunctionOnSet(g, S)
      /\ SumFunctionOnSet(g, S) <= SumFunctionOnSet(f, S)
      /\ SumFunctionOnSet(f, S) \in Nat /\ SumFunctionOnSet(g, S) \in Nat
  <2>1. SumFunctionOnSet(f, S) <= SumFunctionOnSet(g, S)
    BY SumMonotone
  <2>2. SumFunctionOnSet(g, S) <= SumFunctionOnSet(f, S)
    <3>1. \A x \in S : g[x] \in Nat /\ g[x] <= f[x]
      OBVIOUS
    <3>. QED  BY <3>1, SumMonotone
  <2>. QED  BY <2>1, <2>2, SumTakesOut
<1>. QED  BY <1>1

\* One value that grows makes the sum grow as much.
LEMMA SumGrows ==
    ASSUME NEW S, IsFiniteSet(S), NEW x \in S, NEW n \in Nat, NEW f, NEW g,
           \A y \in S : f[y] \in Nat, g[x] = f[x] + n, \A y \in S \ {x} : g[y] = f[y]
    PROVE  SumFunctionOnSet(g, S) = SumFunctionOnSet(f, S) + n
<1>1. IsFiniteSet(S \ {x}) /\ \A y \in S : g[y] \in Nat
  BY FS_Subset
<1>2. SumFunctionOnSet(f, S \ {x}) = SumFunctionOnSet(g, S \ {x})
  BY <1>1, SumAgrees
<1>3. /\ SumFunctionOnSet(f, S) = f[x] + SumFunctionOnSet(f, S \ {x})
      /\ SumFunctionOnSet(f, S \ {x}) \in Nat
      /\ SumFunctionOnSet(g, S) = g[x] + SumFunctionOnSet(g, S \ {x})
  BY <1>1, SumTakesOut
<1>. QED  BY <1>2, <1>3

-----------------------------------------------------------------------------
(* Parts of a text, and its lines: the parts a text is cut into are texts,   *)
(* whatever their length and their bytes.                                    *)
LEMMA PartIsText ==
    ASSUME NEW S, NEW s \in Seq(S), NEW i \in 1 .. Len(s) + 1, NEW j \in i - 1 .. Len(s)
    PROVE  SubSeq(s, i, j) \in Seq(S)
<1>1. \A k \in i .. j : s[k] \in S
  BY ElementOfSeq
<1>2. i \in Int /\ j \in Int
  OBVIOUS
<1>. QED  BY <1>1, <1>2, SubSeqProperties

\* Its bytes are those of the text, from where it starts.
LEMMA PartBytes ==
    ASSUME NEW S, NEW s \in Seq(S), NEW i \in Nat, NEW n \in Nat, i + n <= Len(s)
    PROVE  /\ SubSeq(s, i + 1, i + n) \in Seq(S) /\ Len(SubSeq(s, i + 1, i + n)) = n
           /\ \A k \in 1 .. n : SubSeq(s, i + 1, i + n)[k] = s[i + k]
<1>. DEFINE from == i + 1  to == i + n
<1>1. from \in Int /\ to \in Int /\ Len(s) \in Nat
  BY LenProperties
<1>2. \A k \in from .. to : s[k] \in S
  BY <1>1, ElementOfSeq
<1>3. /\ (to - from) + 1 = n /\ (from <= to <=> n # 0)
      /\ \A k \in 1 .. n : (from + k) - 1 = i + k
  OBVIOUS
<1>. HIDE DEF from, to
<1>4. /\ SubSeq(s, from, to) \in Seq(S)
      /\ Len(SubSeq(s, from, to)) = IF from <= to THEN to - from + 1 ELSE 0
      /\ \A k \in 1 .. to - from + 1 : SubSeq(s, from, to)[k] = s[from + k - 1]
  BY <1>1, <1>2, SubSeqProperties
<1>5. Len(SubSeq(s, from, to)) = n
  BY <1>1, <1>3, <1>4
<1>6. ASSUME NEW k \in 1 .. n PROVE SubSeq(s, from, to)[k] = s[i + k]
  <2>1. k \in 1 .. to - from + 1 /\ from + k - 1 = i + k
    BY <1>1, <1>3
  <2>. QED  BY <1>4, <2>1
<1>. QED  BY <1>4, <1>5, <1>6 DEF from, to

LEMMA AfterIsText ==
    ASSUME NEW S, NEW s \in Seq(S), NEW n \in 0 .. Len(s)
    PROVE  After(s, n) \in Seq(S)
  BY PartIsText, LenProperties DEF After

LEMMA NothingAfterAll ==
    ASSUME NEW S, NEW s \in Seq(S)
    PROVE  After(s, Len(s)) = << >>
<1>1. Len(s) \in Nat
  BY LenProperties
<1>2. Len(s) + 1 \in Int /\ Len(s) \in Int /\ Len(s) < Len(s) + 1
  BY <1>1
<1>. QED  BY <1>2, SubSeqEmpty DEF After

\* What follows the bytes that follow.
LEMMA AfterAfter ==
    ASSUME NEW S, NEW s \in Seq(S), NEW c \in 0 .. Len(s), NEW n \in 0 .. Len(s) - c
    PROVE  Len(After(s, c)) = Len(s) - c /\ After(After(s, c), n) = After(s, c + n)
<1>. DEFINE m == Len(s) - c
            r == After(s, c)
            k == m - n
<1>1. /\ Len(s) \in Nat /\ c \in Nat /\ n \in Nat /\ m \in Nat /\ k \in Nat
      /\ c + m = Len(s) /\ n + k = m /\ (c + n) + k = Len(s) /\ c + n \in Nat
  BY LenProperties
<1>. HIDE DEF m, k
<1>2. r = SubSeq(s, c + 1, c + m)
  BY <1>1 DEF After
<1>3. /\ r \in Seq(S) /\ Len(r) = m /\ \A i \in 1 .. m : r[i] = s[c + i]
  BY <1>1, <1>2, PartBytes
<1>. HIDE DEF r
<1>4. /\ SubSeq(r, n + 1, n + k) \in Seq(S) /\ Len(SubSeq(r, n + 1, n + k)) = k
      /\ \A i \in 1 .. k : SubSeq(r, n + 1, n + k)[i] = r[n + i]
  BY <1>1, <1>3, PartBytes
<1>5. /\ SubSeq(s, (c + n) + 1, (c + n) + k) \in Seq(S)
      /\ Len(SubSeq(s, (c + n) + 1, (c + n) + k)) = k
      /\ \A i \in 1 .. k : SubSeq(s, (c + n) + 1, (c + n) + k)[i] = s[(c + n) + i]
  BY <1>1, PartBytes
<1>6. ASSUME NEW i \in 1 .. k PROVE r[n + i] = s[(c + n) + i]
  <2>1. n + i \in 1 .. m /\ c + (n + i) = (c + n) + i
    BY <1>1
  <2>. QED  BY <1>3, <2>1
<1>. DEFINE one == SubSeq(r, n + 1, n + k)
            two == SubSeq(s, (c + n) + 1, (c + n) + k)
<1>7. one = two
  <2>1. one \in Seq(S) /\ two \in Seq(S) /\ Len(one) = Len(two)
        /\ \A i \in 1 .. Len(one) : one[i] = two[i]
    BY <1>4, <1>5, <1>6
  <2>. HIDE DEF one, two
  <2>. QED  BY <2>1, SeqEqual
<1>8. After(r, n) = one /\ After(s, c + n) = two
  BY <1>1, <1>3 DEF After
<1>. QED  BY <1>3, <1>7, <1>8 DEF r, m

\* A line's content and its ending, whichever ending it has.
LEMMA LinePartsAreTexts ==
    ASSUME NEW S, NEW l \in Seq(S)
    PROVE  Content(l) \in Seq(S) /\ Ending(l) \in Seq(S)
<1>1. Len(l) \in Nat
  BY LenProperties
<1>2. EndingLength(l) \in 0 .. Len(l)
  BY <1>1 DEF EndingLength
<1>. DEFINE e == EndingLength(l)
<1>3. 1 \in 1 .. Len(l) + 1 /\ Len(l) - e \in 1 - 1 .. Len(l)
  BY <1>1, <1>2
<1>4. Len(l) - e + 1 \in 1 .. Len(l) + 1 /\ Len(l) \in (Len(l) - e + 1) - 1 .. Len(l)
  BY <1>1, <1>2
<1>. HIDE DEF e
<1>5. SubSeq(l, 1, Len(l) - e) \in Seq(S)
  BY <1>3, PartIsText
<1>6. SubSeq(l, Len(l) - e + 1, Len(l)) \in Seq(S)
  BY <1>4, PartIsText
<1>. QED  BY <1>5, <1>6 DEF Content, Ending, e

\* A text is its first bytes and what follows them, a line its content and its
\* ending; the ending is made of \n and \r.
LEMMA TextIsItsParts ==
    ASSUME NEW S, NEW s \in Seq(S), NEW n \in 0 .. Len(s)
    PROVE  SubSeq(s, 1, n) \o After(s, n) = s
<1>1. Len(s) \in Nat
  BY LenProperties
<1>2. 1 \in 1 .. Len(s) + 1 /\ n \in 1 - 1 .. Len(s) /\ Len(s) \in n .. Len(s)
  BY <1>1
<1>3. SubSeq(s, 1, n) \o SubSeq(s, n + 1, Len(s)) = SubSeq(s, 1, Len(s))
  BY <1>2, ConcatAdjacentSubSeq
<1>. QED  BY <1>3, SubSeqFull DEF After

LEMMA LineIsItsParts ==
    ASSUME NEW S, NEW l \in Seq(S)
    PROVE  /\ Content(l) \o Ending(l) = l
           /\ \A i \in DOMAIN Ending(l) : Ending(l)[i] \in {Newline, Carriage}
<1>1. Len(l) \in Nat
  BY LenProperties
<1>. DEFINE e == EndingLength(l)
            from == Len(l) - e + 1
<1>2. e \in 0 .. Len(l)
  BY <1>1 DEF EndingLength
<1>3. \A k \in from .. Len(l) : l[k] \in {Newline, Carriage}
  BY <1>1 DEF EndingLength
<1>. HIDE DEF e
<1>4. SubSeq(l, 1, Len(l) - e) \o SubSeq(l, Len(l) - e + 1, Len(l)) = SubSeq(l, 1, Len(l))
  <2>1. /\ 1 \in 1 .. Len(l) + 1 /\ Len(l) - e \in 1 - 1 .. Len(l)
        /\ Len(l) \in Len(l) - e .. Len(l)
    BY <1>1, <1>2
  <2>. QED  BY <2>1, ConcatAdjacentSubSeq
<1>5. \A i \in DOMAIN Ending(l) : Ending(l)[i] \in {Newline, Carriage}
  <2>1. from \in Int /\ Len(l) \in Int
    BY <1>1, <1>2
  <2>2. SubSeq(l, from, Len(l)) \in Seq({Newline, Carriage})
    BY <1>3, <2>1, SubSeqProperties
  <2>3. Ending(l) = SubSeq(l, from, Len(l))
    BY DEF Ending, e
  <2>. HIDE DEF from
  <2>. QED  BY <2>2, <2>3, ElementOfSeq, LenProperties
<1>. QED  BY <1>4, <1>5, SubSeqFull DEF Content, Ending, e

-----------------------------------------------------------------------------
\* The lines of a text are counted by their ends, the last of which is the
\* text's own.
LEMMA EndsFacts ==
    ASSUME NEW S, NEW t \in Seq(S)
    PROVE  /\ LineEnds(t) \subseteq 1 .. Len(t) /\ Len(t) \in {0} \cup LineEnds(t)
           /\ Cardinality(LineEnds(t)) \in 0 .. Len(t)
           /\ LinesTo(t, 0) = 0 /\ LinesTo(t, Len(t)) = Cardinality(LineEnds(t))
           /\ \A n \in Nat : /\ IsFiniteSet({i \in LineEnds(t) : i <= n})
                             /\ LinesTo(t, n) \in 0 .. Cardinality(LineEnds(t))
<1>1. Len(t) \in Nat /\ DOMAIN t = 1 .. Len(t)
  BY LenProperties
<1>2. LineEnds(t) \subseteq 1 .. Len(t) /\ Len(t) \in {0} \cup LineEnds(t)
  BY <1>1 DEF LineEnds
<1>3. IsFiniteSet(1 .. Len(t)) /\ Cardinality(1 .. Len(t)) = Len(t)
  BY <1>1, FS_Interval
<1>4. /\ IsFiniteSet(LineEnds(t)) /\ Cardinality(LineEnds(t)) \in Nat
      /\ Cardinality(LineEnds(t)) <= Len(t)
  BY <1>2, <1>3, FS_Subset, FS_CardinalityType
<1>5. ASSUME NEW n \in Nat
      PROVE  /\ IsFiniteSet({i \in LineEnds(t) : i <= n})
             /\ LinesTo(t, n) \in 0 .. Cardinality(LineEnds(t))
  <2>1. {i \in LineEnds(t) : i <= n} \subseteq LineEnds(t)
    OBVIOUS
  <2>2. /\ IsFiniteSet({i \in LineEnds(t) : i <= n})
        /\ Cardinality({i \in LineEnds(t) : i <= n}) \in Nat
        /\ Cardinality({i \in LineEnds(t) : i <= n}) <= Cardinality(LineEnds(t))
    BY <1>4, <2>1, FS_Subset, FS_CardinalityType
  <2>. QED  BY <1>4, <2>2 DEF LinesTo
<1>6. {i \in LineEnds(t) : i <= 0} = {} /\ {i \in LineEnds(t) : i <= Len(t)} = LineEnds(t)
  BY <1>1, <1>2
<1>7. LinesTo(t, 0) = 0 /\ LinesTo(t, Len(t)) = Cardinality(LineEnds(t))
  BY <1>6, FS_EmptySet DEF LinesTo
<1>. QED  BY <1>1, <1>2, <1>4, <1>5, <1>7

\* Further on, no fewer lines have ended, and more if a line ends in between.
LEMMA LinesToGrows ==
    ASSUME NEW S, NEW t \in Seq(S), NEW m \in Nat, NEW n \in Nat, m <= n
    PROVE  /\ LinesTo(t, m) <= LinesTo(t, n)
           /\ \A e \in LineEnds(t) : m < e /\ e <= n => LinesTo(t, m) < LinesTo(t, n)
<1>. DEFINE M == {i \in LineEnds(t) : i <= m}
            N == {i \in LineEnds(t) : i <= n}
<1>1. IsFiniteSet(N) /\ Cardinality(N) \in Nat /\ LineEnds(t) \subseteq Nat
  BY EndsFacts, FS_CardinalityType, LenProperties
<1>2. M \subseteq N
  BY <1>1
<1>3. ASSUME NEW e \in LineEnds(t), m < e, e <= n PROVE Cardinality(M) < Cardinality(N)
  <2>1. M \subseteq N \ {e} /\ e \in N
    BY <1>1, <1>2, <1>3
  <2>2. IsFiniteSet(N \ {e}) /\ Cardinality(N \ {e}) = Cardinality(N) - 1
    BY <1>1, <2>1, FS_RemoveElement
  <2>3. Cardinality(M) \in Nat /\ Cardinality(M) <= Cardinality(N \ {e})
    BY <2>1, <2>2, FS_Subset, FS_CardinalityType
  <2>. QED  BY <1>1, <2>2, <2>3
<1>4. Cardinality(M) <= Cardinality(N)
  BY <1>1, <1>2, FS_Subset
<1>. QED  BY <1>3, <1>4 DEF LinesTo

\* So that no two ends have the same number, ...
LEMMA EndOfLinesTo ==
    ASSUME NEW S, NEW t \in Seq(S), NEW e \in {0} \cup LineEnds(t)
    PROVE  EndOf(t, LinesTo(t, e)) = e
<1>1. Len(t) \in Nat /\ LineEnds(t) \subseteq 1 .. Len(t)
  BY EndsFacts, LenProperties
<1>2. \A n \in Nat : LinesTo(t, n) \in Nat
  <2>1. \A n \in Nat : LinesTo(t, n) \in 0 .. Cardinality(LineEnds(t))
    BY EndsFacts
  <2>. QED  BY <2>1
<1>3. ASSUME NEW a \in {0} \cup LineEnds(t), NEW b \in {0} \cup LineEnds(t), a < b
      PROVE  LinesTo(t, a) # LinesTo(t, b)
  <2>1. a \in Nat /\ b \in Nat /\ b \in LineEnds(t) /\ a <= b /\ b <= b
    BY <1>1, <1>3
  <2>2. LinesTo(t, a) < LinesTo(t, b)
    BY <1>3, <2>1, LinesToGrows
  <2>. QED  BY <1>2, <2>1, <2>2
<1>4. ASSUME NEW d \in {0} \cup LineEnds(t), LinesTo(t, d) = LinesTo(t, e) PROVE d = e
  <2>1. d \in Nat /\ e \in Nat
    BY <1>1
  <2>2. ~(d < e) /\ ~(e < d)
    BY <1>3, <1>4
  <2>. QED  BY <2>1, <2>2
<1>. QED  BY <1>4 DEF EndOf

\* ... and each number up to their count is that of one: the count goes up by
\* one at a time.
LEMMA EveryLineEnds ==
    ASSUME NEW S, NEW t \in Seq(S), NEW j \in 0 .. Cardinality(LineEnds(t))
    PROVE  EndOf(t, j) \in {0} \cup LineEnds(t) /\ LinesTo(t, EndOf(t, j)) = j
<1>. DEFINE HasEnd(i) == \E e \in {0} \cup LineEnds(t) : LinesTo(t, e) = i
            T == {n \in Nat : \A i \in 0 .. LinesTo(t, n) : HasEnd(i)}
<1>1. 0 \in T
  BY EndsFacts
<1>2. ASSUME NEW n \in Nat, n \in T PROVE n + 1 \in T
  <2>1. LinesTo(t, n) \in Nat /\ LineEnds(t) \subseteq Nat
    <3>1. Len(t) \in Nat /\ LineEnds(t) \subseteq 1 .. Len(t)
      BY EndsFacts, LenProperties
    <3>2. LinesTo(t, n) \in 0 .. Cardinality(LineEnds(t))
      BY EndsFacts
    <3>. QED  BY <3>1, <3>2
  <2>2. CASE n + 1 \notin LineEnds(t)
    <3>1. {i \in LineEnds(t) : i <= n + 1} = {i \in LineEnds(t) : i <= n}
      BY <2>1, <2>2
    <3>. QED  BY <1>2, <3>1 DEF LinesTo
  <2>3. CASE n + 1 \in LineEnds(t)
    <3>. DEFINE N == {i \in LineEnds(t) : i <= n}
    <3>1. /\ {i \in LineEnds(t) : i <= n + 1} = N \cup {n + 1}
          /\ IsFiniteSet(N) /\ n + 1 \notin N
      BY <2>1, <2>3, EndsFacts
    <3>. HIDE DEF N
    <3>2. Cardinality(N \cup {n + 1}) = Cardinality(N) + 1
      BY <3>1, FS_AddElement
    <3>3. LinesTo(t, n + 1) = LinesTo(t, n) + 1
      BY <3>1, <3>2 DEF LinesTo, N
    <3>4. HasEnd(LinesTo(t, n + 1))
      BY <2>3
    <3>5. ASSUME NEW i \in 0 .. LinesTo(t, n) + 1 PROVE HasEnd(i)
      <4>1. i \in 0 .. LinesTo(t, n) \/ i = LinesTo(t, n) + 1
        BY <2>1
      <4>. HIDE DEF HasEnd
      <4>. QED  BY <1>2, <3>3, <3>4, <4>1
    <3>. HIDE DEF HasEnd
    <3>. QED  BY <3>3, <3>5
  <2>. QED  BY <2>2, <2>3
<1>3. Len(t) \in T
  <2>. HIDE DEF T
  <2>. QED  BY <1>1, <1>2, InductionOverNat, LenProperties
<1>4. HasEnd(j)
  BY <1>3, EndsFacts
<1>. QED  BY <1>4 DEF EndOf

LEMMA LinesOfType ==
    ASSUME NEW S, NEW t \in Seq(S)
    PROVE  /\ LinesOf(t) \in Seq(Seq(S)) /\ Len(LinesOf(t)) = Cardinality(LineEnds(t))
           /\ DOMAIN LinesOf(t) = 1 .. Cardinality(LineEnds(t))
<1>1. Cardinality(LineEnds(t)) \in Nat /\ Len(t) \in Nat /\ LineEnds(t) \subseteq 1 .. Len(t)
  BY EndsFacts, LenProperties
<1>2. ASSUME NEW j \in 1 .. Cardinality(LineEnds(t))
      PROVE  SubSeq(t, EndOf(t, j - 1) + 1, EndOf(t, j)) \in Seq(S)
  <2>. DEFINE a == EndOf(t, j - 1)  b == EndOf(t, j)
  <2>1. j - 1 \in 0 .. Cardinality(LineEnds(t)) /\ j \in 0 .. Cardinality(LineEnds(t))
    BY <1>1
  <2>2. /\ a \in 0 .. Len(t) /\ b \in 0 .. Len(t)
        /\ LinesTo(t, a) = j - 1 /\ LinesTo(t, b) = j
    BY <1>1, <2>1, EveryLineEnds
  <2>. HIDE DEF a, b
  <2>3. a <= b
    BY <1>1, <2>1, <2>2, LinesToGrows
  <2>4. a + 1 \in 1 .. Len(t) + 1 /\ b \in (a + 1) - 1 .. Len(t)
    BY <1>1, <2>2, <2>3
  <2>. QED  BY <2>4, PartIsText DEF a, b
<1>3. /\ LinesOf(t) \in [1 .. Cardinality(LineEnds(t)) -> Seq(S)]
      /\ DOMAIN LinesOf(t) = 1 .. Cardinality(LineEnds(t))
  BY <1>2 DEF LinesOf
<1>. HIDE DEF LinesOf
<1>. QED  BY <1>1, <1>3

\* From where a line ends, the next is the next of the lines.
LEMMA NextLineIsNext ==
    ASSUME NEW S, NEW t \in Seq(S), NEW c \in {0} \cup LineEnds(t),
           NEW n \in Nat, IsFirstLine(After(t, c), n)
    PROVE  /\ c + n \in LineEnds(t)
           /\ LinesTo(t, c) + 1 = LinesTo(t, c + n)
           /\ LinesTo(t, c) + 1 \in 1 .. Cardinality(LineEnds(t))
           /\ LinesOf(t)[LinesTo(t, c) + 1] = SubSeq(After(t, c), 1, n)
<1>1. /\ Len(t) \in Nat /\ c \in 0 .. Len(t) /\ LineEnds(t) \subseteq 1 .. Len(t)
      /\ DOMAIN t = 1 .. Len(t) /\ Len(t) \in {0} \cup LineEnds(t)
  BY EndsFacts, LenProperties
<1>. DEFINE r == After(t, c)
<1>2. /\ r \in Seq(S) /\ Len(r) = Len(t) - c
      /\ \A k \in 1 .. Len(t) - c : r[k] = t[c + k]
  <2>. DEFINE m == Len(t) - c
  <2>1. m \in Nat /\ c + m = Len(t) /\ c \in Nat /\ c + m <= Len(t)
    BY <1>1
  <2>. HIDE DEF m
  <2>2. /\ SubSeq(t, c + 1, c + m) \in Seq(S) /\ Len(SubSeq(t, c + 1, c + m)) = m
        /\ \A k \in 1 .. m : SubSeq(t, c + 1, c + m)[k] = t[c + k]
    BY ONLY t \in Seq(S), <2>1, PartBytes
  <2>. QED  BY <2>1, <2>2 DEF After, m
<1>. HIDE DEF r
<1>3. /\ n \in 1 .. Len(r) /\ \A k \in 1 .. n - 1 : r[k] # Newline
      /\ r[n] = Newline \/ n = Len(r)
  BY DEF IsFirstLine, r
<1>4. c + n \in 1 .. Len(t) /\ r[n] = t[c + n] /\ (n = Len(r) => c + n = Len(t))
  <2>1. Len(t) \in Nat /\ c \in 0 .. Len(t) /\ Len(r) = Len(t) - c /\ n \in 1 .. Len(r)
    BY <1>1, <1>2, <1>3
  <2>2. n \in 1 .. Len(t) - c /\ c + n \in 1 .. Len(t) /\ (n = Len(r) => c + n = Len(t))
    BY <2>1
  <2>. QED  BY <1>2, <2>2
<1>5. c + n \in LineEnds(t)
  BY <1>1, <1>3, <1>4 DEF LineEnds
<1>6. \A e \in LineEnds(t) : c < e /\ e <= c + n => e = c + n
  <2>. SUFFICES ASSUME NEW e \in LineEnds(t), c < e, e <= c + n, e # c + n PROVE FALSE
    OBVIOUS
  <2>e. e \in Nat /\ c \in Nat /\ n \in Nat /\ Len(t) \in Nat /\ c + n <= Len(t)
    <3>1. e \in 1 .. Len(t) /\ c \in 0 .. Len(t) /\ c + n \in 1 .. Len(t) /\ Len(t) \in Nat
      BY <1>1, <1>4
    <3>. QED  BY <3>1
  <2>1. e - c \in 1 .. n - 1 /\ e - c \in 1 .. Len(t) - c /\ c + (e - c) = e /\ e # Len(t)
    BY <2>e
  <2>2. t[e] # Newline
    BY <1>2, <1>3, <2>1
  <2>. QED  BY <2>1, <2>2 DEF LineEnds
<1>7. LinesTo(t, c + n) = LinesTo(t, c) + 1
  <2>. DEFINE C == {i \in LineEnds(t) : i <= c}
  <2>1. {i \in LineEnds(t) : i <= c + n} = C \cup {c + n} /\ c + n \notin C /\ IsFiniteSet(C)
    <3>1. \A i \in LineEnds(t) : i <= c + n <=> i <= c \/ i = c + n
      BY <1>1, <1>3, <1>6
    <3>2. ~(c + n <= c)
      BY <1>1, <1>3
    <3>. QED  BY <1>1, <1>5, <3>1, <3>2, EndsFacts
  <2>. HIDE DEF C
  <2>2. Cardinality(C \cup {c + n}) = Cardinality(C) + 1
    BY <2>1, FS_AddElement
  <2>. QED  BY <2>1, <2>2 DEF LinesTo, C
<1>8. LinesTo(t, c) + 1 \in 1 .. Cardinality(LineEnds(t))
  <2>1. /\ LinesTo(t, c) \in 0 .. Cardinality(LineEnds(t))
        /\ LinesTo(t, c + n) \in 0 .. Cardinality(LineEnds(t))
        /\ Cardinality(LineEnds(t)) \in Nat
    <3>1. c \in Nat /\ c + n \in Nat /\ Cardinality(LineEnds(t)) \in Nat
      BY <1>1, EndsFacts
    <3>. QED  BY <3>1, EndsFacts
  <2>. QED  BY <1>7, <2>1
<1>9. LinesOf(t)[LinesTo(t, c) + 1] = SubSeq(t, c + 1, c + n)
  <2>1. (LinesTo(t, c) + 1) - 1 = LinesTo(t, c)
    <3>1. LinesTo(t, c) \in 0 .. Cardinality(LineEnds(t))
      <4>1. c \in Nat
        BY <1>1
      <4>. QED  BY <4>1, EndsFacts
    <3>. QED  BY <3>1
  <2>2. EndOf(t, LinesTo(t, c)) = c /\ EndOf(t, LinesTo(t, c) + 1) = c + n
    BY <1>5, <1>7, EndOfLinesTo
  <2>. QED  BY <1>8, <2>1, <2>2 DEF LinesOf
<1>10. SubSeq(t, c + 1, c + n) = SubSeq(r, 1, n)
  <2>1. /\ SubSeq(t, c + 1, c + n) \in Seq(S) /\ Len(SubSeq(t, c + 1, c + n)) = n
        /\ \A k \in 1 .. n : SubSeq(t, c + 1, c + n)[k] = t[c + k]
    <3>1. c \in Nat /\ c + n <= Len(t)
      <4>1. c \in 0 .. Len(t) /\ c + n \in 1 .. Len(t) /\ Len(t) \in Nat
        BY <1>1, <1>4
      <4>. QED  BY <4>1
    <3>. QED  BY <3>1, PartBytes
  <2>2. 0 + 1 = 1 /\ 0 + n = n /\ n <= Len(r) /\ \A k \in 1 .. n : 0 + k = k
    BY <1>3
  <2>3. /\ SubSeq(r, 1, n) \in Seq(S) /\ Len(SubSeq(r, 1, n)) = n
        /\ \A k \in 1 .. n : SubSeq(r, 1, n)[k] = r[k]
    <3>1. /\ SubSeq(r, 0 + 1, 0 + n) \in Seq(S) /\ Len(SubSeq(r, 0 + 1, 0 + n)) = n
          /\ \A k \in 1 .. n : SubSeq(r, 0 + 1, 0 + n)[k] = r[0 + k]
      BY <1>2, <2>2, PartBytes
    <3>. QED  BY <2>2, <3>1
  <2>4. \A k \in 1 .. n : k \in 1 .. Len(t) - c
    BY <1>2, <1>3
  <2>5. \A k \in 1 .. n : SubSeq(t, c + 1, c + n)[k] = SubSeq(r, 1, n)[k]
    BY <1>2, <2>1, <2>3, <2>4
  <2>. QED  BY <2>1, <2>3, <2>5, SeqEqual
<1>. QED  BY <1>5, <1>7, <1>8, <1>9, <1>10 DEF r

-----------------------------------------------------------------------------
(* Texts one after the other.                                                *)

\* What the first j of a sequence of texts come to, and all of them.
LEMMA FlatRuns ==
    ASSUME NEW S, NEW s \in Seq(Seq(S))
    PROVE  \E f \in [0 .. Len(s) -> Seq(S)] :
              /\ f[0] = << >> /\ \A j \in 1 .. Len(s) : f[j] = f[j - 1] \o s[j]
              /\ FlattenSeq(s) = f[Len(s)]
<1>. DEFINE n == Len(s)
            step == [p \in (1 .. n) \X Seq(S) |-> p[2] \o s[p[1]]]
            Value(g, i) == IF i = 1 THEN s[i] ELSE g[i - 1] \o s[i]
            flatten == CHOOSE g : g = [i \in 1 .. Len(s) |-> Value(g, i)]
<1>1. FlattenSeq(s) = IF Len(s) = 0 THEN s ELSE flatten[Len(s)]
  BY DEF FlattenSeq
<1>2. n \in Nat /\ << >> \in Seq(S) /\ \A i \in 1 .. n : s[i] \in Seq(S)
  BY LenProperties, ElementOfSeq, EmptySeq
<1>3. step \in [(1 .. n) \X Seq(S) -> Seq(S)]
  BY <1>2, ConcatProperties
<1>4. PICK f \in [0 .. n -> Seq(S)] : IsRun(f, n, << >>, step)
  <2>. HIDE DEF step, n
  <2>. QED  BY <1>2, <1>3, RecursionOverNat
<1>5. f[0] = << >> /\ \A j \in 1 .. n : f[j] = f[j - 1] \o s[j]
  <2>1. ASSUME NEW j \in 1 .. n PROVE f[j] = f[j - 1] \o s[j]
    <3>1. j - 1 \in 0 .. n
      BY <1>2
    <3>. QED  BY <1>4, <3>1 DEF IsRun
  <2>. QED  BY <1>4, <2>1 DEF IsRun
<1>6. flatten = [i \in 1 .. n |-> Value(flatten, i)]
  <2>. DEFINE g == [i \in 1 .. n |-> f[i]]
  <2>1. ASSUME NEW i \in 1 .. n PROVE g[i] = Value(g, i)
    <3>1. CASE i = 1
      <4>1. f[1] = << >> \o s[1]
        <5>1. 1 \in 1 .. n /\ 1 - 1 = 0
          BY <3>1
        <5>. QED  BY <1>5, <5>1
      <4>. QED  BY <1>2, <3>1, <4>1, ConcatEmptySeq
    <3>2. CASE i # 1
      <4>1. i - 1 \in 1 .. n
        BY <1>2, <3>2
      <4>. QED  BY <1>5, <3>2, <4>1
    <3>. QED  BY <3>1, <3>2
  <2>2. g = [i \in 1 .. n |-> Value(g, i)]
    <3>. HIDE DEF Value
    <3>1. g = [i \in 1 .. n |-> g[i]]
      OBVIOUS
    <3>. HIDE DEF g
    <3>. QED  BY <2>1, <3>1
  <2>. HIDE DEF g, Value
  <2>. QED  BY <2>2
<1>. HIDE DEF flatten
<1>7. n # 0 => flatten[n] = f[n]
  <2>. DEFINE h == [j \in 0 .. n |-> IF j = 0 THEN << >> ELSE flatten[j]]
  <2>1. ASSUME NEW j \in 1 .. n, f[j - 1] = h[j - 1] PROVE f[j] = h[j]
    <3>1. h[j] = flatten[j] /\ flatten[j] = Value(flatten, j)
      <4>1. j \in 0 .. n /\ j # 0
        BY <1>2
      <4>2. flatten[j] = Value(flatten, j)
        <5>. HIDE DEF Value, n
        <5>. QED  BY <1>6
      <4>. QED  BY <4>1, <4>2
    <3>2. CASE j = 1
      <4>1. f[j] = << >> \o s[j]
        <5>1. 1 \in 1 .. n /\ 1 - 1 = 0
          BY <3>2
        <5>. QED  BY <1>5, <3>2, <5>1
      <4>. QED  BY <1>2, <3>1, <3>2, <4>1, ConcatEmptySeq
    <3>3. CASE j # 1
      <4>1. j - 1 \in 1 .. n /\ h[j - 1] = flatten[j - 1]
        BY <1>2, <3>3
      <4>. QED  BY <1>5, <2>1, <3>1, <3>3, <4>1
    <3>. QED  BY <3>2, <3>3
  <2>2. h[0] = << >> /\ (n # 0 => h[n] = flatten[n])
    BY <1>2
  <2>. HIDE DEF h, n
  <2>3. f[0] = h[0] /\ \A j \in 1 .. n : f[j - 1] = h[j - 1] => f[j] = h[j]
    BY <1>5, <2>1, <2>2
  <2>4. f[n] = h[n]
    BY ONLY <1>2, <2>3, RunsAgree
  <2>. QED  BY <2>2, <2>4
<1>8. n = 0 => s = << >>
  BY EmptySeq
<1>9. FlattenSeq(s) = f[n]
  BY <1>1, <1>2, <1>5, <1>7, <1>8
<1>. QED  BY <1>5, <1>9

\* One text, or none, more.
LEMMA FlattenNext ==
    ASSUME NEW S, NEW s \in Seq(Seq(S)), NEW n \in Nat, n < Len(s)
    PROVE  /\ FlattenSeq(SubSeq(s, 1, n)) \in Seq(S)
           /\ FlattenSeq(SubSeq(s, 1, n + 1)) = FlattenSeq(SubSeq(s, 1, n)) \o s[n + 1]
<1>. DEFINE a == SubSeq(s, 1, n)
            b == SubSeq(s, 1, n + 1)
<1>1. ASSUME NEW m \in Nat, m <= Len(s)
      PROVE  /\ SubSeq(s, 1, m) \in Seq(Seq(S)) /\ Len(SubSeq(s, 1, m)) = m
             /\ \A i \in 1 .. m : SubSeq(s, 1, m)[i] = s[i]
  <2>1. 0 + m = m /\ 0 + 1 = 1 /\ \A i \in 1 .. m : 0 + i = i
    OBVIOUS
  <2>2. /\ SubSeq(s, 0 + 1, 0 + m) \in Seq(Seq(S)) /\ Len(SubSeq(s, 0 + 1, 0 + m)) = m
        /\ \A i \in 1 .. m : SubSeq(s, 0 + 1, 0 + m)[i] = s[0 + i]
    BY <1>1, <2>1, PartBytes
  <2>. QED  BY <2>1, <2>2
<1>2. n <= Len(s) /\ n + 1 \in Nat /\ n + 1 <= Len(s)
  BY LenProperties
<1>3. /\ a \in Seq(Seq(S)) /\ Len(a) = n /\ \A i \in 1 .. n : a[i] = s[i]
      /\ b \in Seq(Seq(S)) /\ Len(b) = n + 1 /\ \A i \in 1 .. n + 1 : b[i] = s[i]
  BY <1>1, <1>2
<1>. HIDE DEF a, b
<1>b. PICK g \in [0 .. Len(b) -> Seq(S)] :
        /\ g[0] = << >> /\ \A j \in 1 .. Len(b) : g[j] = g[j - 1] \o b[j]
        /\ FlattenSeq(b) = g[Len(b)]
  BY <1>3, FlatRuns
<1>4. PICK f \in [0 .. n -> Seq(S)] :
        /\ f[0] = << >> /\ \A j \in 1 .. n : f[j] = f[j - 1] \o a[j]
        /\ FlattenSeq(a) = f[n]
  BY <1>3, FlatRuns
<1>5. /\ g[0] = << >> /\ \A j \in 1 .. n + 1 : g[j] = g[j - 1] \o b[j]
      /\ FlattenSeq(b) = g[n + 1]
  BY <1>3, <1>b
<1>6. f[n] = g[n]
  <2>1. ASSUME NEW j \in 1 .. n, f[j - 1] = g[j - 1] PROVE f[j] = g[j]
    <3>1. j \in 1 .. n + 1
      OBVIOUS
    <3>. QED  BY <1>3, <1>4, <1>5, <2>1, <3>1
  <2>2. f[0] = g[0] /\ \A j \in 1 .. n : f[j - 1] = g[j - 1] => f[j] = g[j]
    BY <1>4, <1>5, <2>1
  <2>. QED  BY ONLY n \in Nat, <2>2, RunsAgree
<1>7. n + 1 \in 1 .. n + 1 /\ (n + 1) - 1 = n
  OBVIOUS
<1>8. FlattenSeq(b) = FlattenSeq(a) \o s[n + 1]
  <2>1. g[n + 1] = g[n] \o b[n + 1] /\ b[n + 1] = s[n + 1]
    BY <1>3, <1>5, <1>7
  <2>. QED  BY <1>4, <1>5, <1>6, <2>1
<1>9. FlattenSeq(a) \in Seq(S)
  BY <1>4
<1>. QED  BY <1>8, <1>9 DEF a, b

\* Texts one after the other may be bracketed as one likes.
LEMMA Associative ==
    ASSUME NEW S, NEW a \in Seq(S), NEW b \in Seq(S), NEW c \in Seq(S)
    PROVE  (a \o b) \o c = a \o (b \o c) /\ b \o c \in Seq(S) /\ a \o b \in Seq(S)
  BY ConcatAssociative, ConcatProperties

\* The first of them start the whole.
LEMMA FlattenStarts ==
    ASSUME NEW S, NEW s \in Seq(Seq(S)), NEW n \in Nat, n <= Len(s)
    PROVE  /\ FlattenSeq(SubSeq(s, 1, n)) \in Seq(S)
           /\ \E u \in Seq(S) : FlattenSeq(s) = FlattenSeq(SubSeq(s, 1, n)) \o u
<1>. DEFINE To(m) == FlattenSeq(SubSeq(s, 1, m))
            Starts(m) == \E u \in Seq(S) : To(m) = To(n) \o u
            T == {k \in Nat : n + k <= Len(s) => To(n + k) \in Seq(S) /\ Starts(n + k)}
<1>1. Len(s) \in Nat /\ << >> \in Seq(S)
  BY LenProperties, EmptySeq
<1>2. To(n) \in Seq(S)
  <2>1. CASE n < Len(s)
    BY <2>1, FlattenNext
  <2>2. CASE n = Len(s)
    <3>1. SubSeq(s, 1, n) = s /\ Len(s) \in 0 .. Len(s)
      BY <1>1, <2>2, SubSeqFull
    <3>2. PICK f \in [0 .. Len(s) -> Seq(S)] : FlattenSeq(s) = f[Len(s)]
      BY FlatRuns
    <3>. QED  BY <3>1, <3>2
  <2>. QED  BY <1>1, <2>1, <2>2
<1>3. 0 \in T
  <2>1. To(n) = To(n) \o << >>
    BY <1>2, ConcatEmptySeq
  <2>2. n + 0 = n
    OBVIOUS
  <2>. HIDE DEF To
  <2>. QED  BY <1>1, <1>2, <2>1, <2>2
<1>4. ASSUME NEW k \in Nat, k \in T PROVE k + 1 \in T
  <2>. SUFFICES ASSUME n + (k + 1) <= Len(s)
                PROVE  To(n + (k + 1)) \in Seq(S) /\ Starts(n + (k + 1))
    <3>. HIDE DEF To, Starts
    <3>. QED  OBVIOUS
  <2>1. n + k \in Nat /\ n + k < Len(s) /\ n + (k + 1) = (n + k) + 1
        /\ n + k + 1 \in 1 .. Len(s)
    BY <1>1
  <2>2. PICK u \in Seq(S) : To(n + k) = To(n) \o u
    <3>1. Starts(n + k)
      <4>. HIDE DEF To, Starts
      <4>. QED  BY <1>4, <2>1
    <3>. QED  BY <3>1
  <2>3. To((n + k) + 1) = To(n + k) \o s[(n + k) + 1] /\ To(n + k) \in Seq(S)
    BY <2>1, FlattenNext
  <2>4. s[(n + k) + 1] \in Seq(S)
    BY <2>1, ElementOfSeq
  <2>. DEFINE x == s[(n + k) + 1]
              p == To(n)
  <2>. HIDE DEF To, x, p
  <2>5. u \o x \in Seq(S) /\ To(n + k) \o x \in Seq(S)
    BY <2>3, <2>4, ConcatProperties DEF x
  <2>6. (p \o u) \o x = p \o (u \o x)
    <3>1. p \in Seq(S) /\ x \in Seq(S)
      BY <1>2, <2>4 DEF p, x
    <3>. QED  BY ONLY <3>1, u \in Seq(S), Associative
  <2>. QED  BY <2>1, <2>2, <2>3, <2>5, <2>6 DEF x, p
<1>5. Len(s) - n \in T
  <2>1. Len(s) - n \in Nat
    BY <1>1
  <2>. HIDE DEF T
  <2>. QED  BY <1>3, <1>4, <2>1, InductionOverNat
<1>6. Starts(Len(s))
  <2>1. n + (Len(s) - n) = Len(s) /\ Len(s) <= Len(s)
    BY <1>1
  <2>. HIDE DEF Starts
  <2>. QED  BY <1>5, <2>1
<1>7. SubSeq(s, 1, Len(s)) = s
  BY SubSeqFull
<1>. QED  BY <1>2, <1>6, <1>7

\* What the first n values of a function come to.
FlatTo(F, n) == FlattenSeq([i \in 1 .. n |-> F[i]])

LEMMA FlatFacts ==
    ASSUME NEW S, NEW N \in Nat, NEW F, \A i \in 1 .. N : F[i] \in Seq(S)
    PROVE  /\ FlatTo(F, 0) = << >>
           /\ \A n \in 0 .. N : FlatTo(F, n) \in Seq(S)
           /\ \A n \in 0 .. N - 1 : FlatTo(F, n + 1) = FlatTo(F, n) \o F[n + 1]
<1>. DEFINE Pieces(n) == [i \in 1 .. n |-> F[i]]
            all == Pieces(N)
<1>3. ASSUME NEW n \in 0 .. N
      PROVE  /\ Pieces(n) \in Seq(Seq(S)) /\ Len(Pieces(n)) = n
             /\ \A i \in 1 .. n : Pieces(n)[i] = F[i]
  <2>1. \A i \in 1 .. n : F[i] \in Seq(S)
    OBVIOUS
  <2>. QED  BY <2>1
<1>4. all \in Seq(Seq(S)) /\ Len(all) = N
  BY <1>3
<1>5. ASSUME NEW n \in 0 .. N PROVE SubSeq(all, 1, n) = Pieces(n)
  <2>1. 0 + 1 = 1 /\ 0 + n = n /\ n <= Len(all) /\ n \in Nat /\ \A k \in 1 .. n : 0 + k = k
    BY <1>4
  <2>2. /\ SubSeq(all, 0 + 1, 0 + n) \in Seq(Seq(S)) /\ Len(SubSeq(all, 0 + 1, 0 + n)) = n
        /\ \A k \in 1 .. n : SubSeq(all, 0 + 1, 0 + n)[k] = all[0 + k]
    <3>. HIDE DEF all
    <3>. QED  BY <1>4, <2>1, PartBytes
  <2>3. \A k \in 1 .. n : all[k] = Pieces(n)[k]
    BY <1>3
  <2>. DEFINE sub == SubSeq(all, 1, n)
              own == Pieces(n)
  <2>4. /\ sub \in Seq(Seq(S)) /\ own \in Seq(Seq(S)) /\ Len(sub) = Len(own)
        /\ \A k \in 1 .. Len(sub) : sub[k] = own[k]
    <3>. HIDE DEF all
    <3>. QED  BY <1>3, <2>1, <2>2, <2>3
  <2>. HIDE DEF sub, own
  <2>. QED  BY <2>4, SeqEqual DEF sub, own
<1>6. FlatTo(F, 0) = << >>
  <2>1. Len(Pieces(0)) = 0 /\ Pieces(0) \in Seq(Seq(S))
    BY <1>3
  <2>. QED  BY <2>1, EmptySeq DEF FlatTo, FlattenSeq
<1>7. ASSUME NEW n \in 0 .. N PROVE FlatTo(F, n) \in Seq(S)
  <2>1. n \in Nat /\ n <= Len(all)
    BY <1>4
  <2>2. FlattenSeq(SubSeq(all, 1, n)) \in Seq(S)
    <3>. HIDE DEF all
    <3>. QED  BY <1>4, <2>1, FlattenStarts
  <2>. QED  BY <1>5, <2>2 DEF FlatTo
<1>8. ASSUME NEW n \in 0 .. N - 1 PROVE FlatTo(F, n + 1) = FlatTo(F, n) \o F[n + 1]
  <2>1. n \in Nat /\ n < Len(all) /\ n \in 0 .. N /\ n + 1 \in 0 .. N /\ all[n + 1] = F[n + 1]
    BY <1>4
  <2>2. FlattenSeq(SubSeq(all, 1, n + 1)) = FlattenSeq(SubSeq(all, 1, n)) \o all[n + 1]
    <3>. HIDE DEF all
    <3>. QED  BY <1>4, <2>1, FlattenNext
  <2>. QED  BY <1>5, <2>1, <2>2 DEF FlatTo
<1>. QED  BY <1>6, <1>7, <1>8

-----------------------------------------------------------------------------
\* A saturating addition of two u64 values is a u64 value, at least as large
\* as each of them.
LEMMA SatAddFacts ==
    ASSUME NEW a \in U64, NEW b \in U64
    PROVE  /\ SatAdd(a, b) \in U64
           /\ SatAdd(a, b) >= a
           /\ SatAdd(a, b) >= b
  BY MaxU64Assumption DEF U64, SatAdd, Capped

\* The sum over the kinds of a map of counts is a natural number, and no
\* smaller than any one of the counts.
LEMMA SumOverFacts ==
    ASSUME NEW f \in [DetectorKind -> Nat]
    PROVE  /\ SumOver(f) \in Nat
           /\ \A k \in DetectorKind : SumOver(f) >= f[k]
  BY DEF SumOver, DetectorKind

\* Counts are in range, so that the sum above applies to a report.
LEMMA CountsAreNat ==
    ASSUME NEW rep \in Report
    PROVE  /\ rep.total \in U64
           /\ rep.by_type \in [DetectorKind -> U64]
           /\ rep.by_type \in [DetectorKind -> Nat]
           /\ SumOver(rep.by_type) \in Nat
  <1>1. rep.total \in U64 /\ rep.by_type \in [DetectorKind -> U64]
    BY DEF Report
  <1>2. U64 \subseteq Nat
    BY MaxU64Assumption DEF U64
  <1>3. rep.by_type \in [DetectorKind -> Nat]
    BY <1>1, <1>2
  <1> QED
    BY <1>1, <1>3, SumOverFacts

\* The empty report is a report and its total is its sum.
LEMMA EmptyReportFacts ==
    EmptyReport \in Report /\ TotalIsSaturatedSum(EmptyReport)
  <1>1. EmptyReport \in Report
    BY MaxU64Assumption DEF EmptyReport, Report, U64
  <1>2. SumOver([k \in DetectorKind |-> 0]) = 0
    BY DEF SumOver, DetectorKind
  <1> QED
    BY <1>1, <1>2, MaxU64Assumption
    DEF TotalIsSaturatedSum, EmptyReport, Capped

\* ScanReport::record keeps the total the sum of the counts: when the count
\* of the kind saturates, so has the total.
LEMMA RecordFacts ==
    ASSUME NEW rep \in Report, NEW kind \in DetectorKind
    PROVE  /\ Record(rep, kind) \in Report
           /\ TotalIsSaturatedSum(rep) => TotalIsSaturatedSum(Record(rep, kind))
  <1> DEFINE old == rep.by_type
             new == [old EXCEPT ![kind] = SatAdd(@, 1)]
  <1>1. old \in [DetectorKind -> U64] /\ rep.total \in U64 /\ 1 \in U64
    BY CountsAreNat, MaxU64Assumption DEF U64
  <1>2. SatAdd(old[kind], 1) \in U64 /\ SatAdd(rep.total, 1) \in U64
    BY <1>1, SatAddFacts
  <1>3. new \in [DetectorKind -> U64]
    BY <1>1, <1>2
  <1>4. Record(rep, kind) \in Report
    BY <1>2, <1>3 DEF Record, Report
  <1>5. \A k \in DetectorKind : old[k] \in Nat /\ old[k] <= MaxU64
    BY <1>1, MaxU64Assumption DEF U64
  <1>6. SumOver(old) \in Nat /\ SumOver(old) >= old[kind]
    BY CountsAreNat, SumOverFacts
  <1>7. SumOver(new) = SumOver(old) + (SatAdd(old[kind], 1) - old[kind])
    <2>1. SatAdd(old[kind], 1) \in Nat
      BY <1>2, MaxU64Assumption DEF U64
    <2> QED
      BY <1>1, <1>5, <2>1 DEF SumOver, DetectorKind
  <1>8. ASSUME rep.total = Capped(SumOver(old))
        PROVE  SatAdd(rep.total, 1) = Capped(SumOver(new))
    BY <1>5, <1>6, <1>7, <1>8, MaxU64Assumption DEF SatAdd, Capped
  <1> QED
    BY <1>4, <1>8 DEF TotalIsSaturatedSum, Record

\* Saturating addition of two maps of counts: its sum, capped, is the capped
\* sum of both.  Either no kind saturates and the sums add up, or one does
\* and both sides are at the cap.
LEMMA MergeTypesFacts ==
    ASSUME NEW f \in [DetectorKind -> U64], NEW g \in [DetectorKind -> U64]
    PROVE  /\ MergeTypes(f, g) \in [DetectorKind -> U64]
           /\ MergeTypes(f, g) \in [DetectorKind -> Nat]
           /\ SumOver(MergeTypes(f, g)) <= SumOver(f) + SumOver(g)
           /\ Capped(SumOver(MergeTypes(f, g))) = Capped(SumOver(f) + SumOver(g))
  <1> DEFINE h == MergeTypes(f, g)
  <1>1. \A k \in DetectorKind : /\ f[k] \in Nat /\ g[k] \in Nat
                                /\ h[k] = Capped(f[k] + g[k])
    BY MaxU64Assumption DEF U64, MergeTypes, SatAdd
  <1>2. h \in [DetectorKind -> U64]
    BY <1>1, MaxU64Assumption DEF U64, MergeTypes, SatAdd, Capped
  <1>3. f \in [DetectorKind -> Nat] /\ g \in [DetectorKind -> Nat]
        /\ h \in [DetectorKind -> Nat]
    BY <1>2, MaxU64Assumption DEF U64
  <1>4. /\ SumOver(f) \in Nat /\ SumOver(g) \in Nat /\ SumOver(h) \in Nat
        /\ \A k \in DetectorKind :
              SumOver(f) >= f[k] /\ SumOver(g) >= g[k] /\ SumOver(h) >= h[k]
    BY <1>3, SumOverFacts
  <1>5. \A k \in DetectorKind : h[k] <= f[k] + g[k]
    BY <1>1, MaxU64Assumption DEF Capped
  <1>6. SumOver(h) <= SumOver(f) + SumOver(g)
    <2> HIDE DEF h
    <2> QED
      BY <1>1, <1>3, <1>5 DEF SumOver, DetectorKind
  <1>7. Capped(SumOver(h)) = Capped(SumOver(f) + SumOver(g))
    <2> HIDE DEF h
    <2>1. CASE \E k \in DetectorKind : f[k] + g[k] > MaxU64
      <3>1. PICK k \in DetectorKind : f[k] + g[k] > MaxU64
        BY <2>1
      <3>2. h[k] = MaxU64
        BY <1>1, <3>1 DEF Capped
      <3>3. SumOver(h) >= MaxU64 /\ SumOver(f) + SumOver(g) >= MaxU64
        BY <1>1, <1>4, <3>1, <3>2, MaxU64Assumption
      <3> QED
        BY <1>4, <3>3, MaxU64Assumption DEF Capped
    <2>2. CASE \A k \in DetectorKind : f[k] + g[k] <= MaxU64
      <3>1. \A k \in DetectorKind : h[k] = f[k] + g[k]
        BY <1>1, <2>2, MaxU64Assumption DEF Capped
      <3>2. SumOver(h) = SumOver(f) + SumOver(g)
        BY <1>1, <3>1 DEF SumOver, DetectorKind
      <3> QED
        BY <3>2
    <2> QED
      BY <1>1, <2>1, <2>2, MaxU64Assumption
  <1> QED
    BY <1>2, <1>3, <1>6, <1>7

\* ScanReport::merge keeps the total the sum of the counts.
LEMMA MergeFacts ==
    ASSUME NEW rep \in Report, NEW other \in Report
    PROVE  /\ Merge(rep, other) \in Report
           /\ TotalIsSaturatedSum(rep) /\ TotalIsSaturatedSum(other)
                 => TotalIsSaturatedSum(Merge(rep, other))
  <1> DEFINE f == rep.by_type
             g == other.by_type
  <1>1. /\ f \in [DetectorKind -> U64] /\ g \in [DetectorKind -> U64]
        /\ rep.total \in U64 /\ other.total \in U64
        /\ SumOver(f) \in Nat /\ SumOver(g) \in Nat
    BY CountsAreNat
  <1>2. /\ MergeTypes(f, g) \in [DetectorKind -> U64]
        /\ Capped(SumOver(MergeTypes(f, g))) = Capped(SumOver(f) + SumOver(g))
    BY <1>1, MergeTypesFacts
  <1>3. SatAdd(rep.total, other.total) \in U64
    BY <1>1, SatAddFacts
  <1>4. Merge(rep, other) \in Report
    BY <1>2, <1>3 DEF Merge, Report
  <1>5. ASSUME rep.total = Capped(SumOver(f)), other.total = Capped(SumOver(g))
        PROVE  SatAdd(rep.total, other.total) = Capped(SumOver(f) + SumOver(g))
    BY <1>1, <1>5, MaxU64Assumption DEF SatAdd, Capped
  <1> QED
    BY <1>2, <1>4, <1>5 DEF TotalIsSaturatedSum, Merge

\* Saturating addition may be bracketed as one likes.
LEMMA SatAddAssociative ==
    ASSUME NEW a \in U64, NEW b \in U64, NEW c \in U64
    PROVE  SatAdd(SatAdd(a, b), c) = SatAdd(a, SatAdd(b, c)) /\ SatAdd(a, 0) = a
  BY MaxU64Assumption DEF U64, SatAdd, Capped

\* So may merging; an empty report adds nothing, and a detection recorded on
\* what is merged in is recorded on the whole.
LEMMA MergeAssociative ==
    ASSUME NEW p \in Report, NEW q \in Report, NEW r \in Report
    PROVE  /\ Merge(Merge(p, q), r) = Merge(p, Merge(q, r))
           /\ Merge(p, EmptyReport) = p
           /\ \A k \in DetectorKind : Merge(p, Record(q, k)) = Record(Merge(p, q), k)
<1>1. /\ p.total \in U64 /\ q.total \in U64 /\ r.total \in U64 /\ 1 \in U64
      /\ \A k \in DetectorKind :
            p.by_type[k] \in U64 /\ q.by_type[k] \in U64 /\ r.by_type[k] \in U64
  BY CountsAreNat, MaxU64Assumption DEF U64
<1>2. Merge(Merge(p, q), r) = Merge(p, Merge(q, r))
  BY <1>1, SatAddAssociative DEF Merge, MergeTypes
<1>3. Merge(p, EmptyReport) = p
  <2>1. p = [total |-> p.total, by_type |-> p.by_type]
        /\ p.by_type = [k \in DetectorKind |-> p.by_type[k]]
    BY DEF Report
  <2>2. SatAdd(p.total, 0) = p.total /\ \A k \in DetectorKind : SatAdd(p.by_type[k], 0) = p.by_type[k]
    BY <1>1, SatAddAssociative
  <2>3. MergeTypes(p.by_type, [k \in DetectorKind |-> 0]) = [k \in DetectorKind |-> p.by_type[k]]
    BY <2>2 DEF MergeTypes
  <2>. QED  BY <2>1, <2>2, <2>3 DEF Merge, EmptyReport
<1>4. ASSUME NEW k \in DetectorKind PROVE Merge(p, Record(q, k)) = Record(Merge(p, q), k)
  <2>1. SatAdd(p.total, SatAdd(q.total, 1)) = SatAdd(SatAdd(p.total, q.total), 1)
    BY <1>1, SatAddAssociative
  <2>2. SatAdd(p.by_type[k], SatAdd(q.by_type[k], 1)) = SatAdd(SatAdd(p.by_type[k], q.by_type[k]), 1)
    BY <1>1, SatAddAssociative
  <2>3. q.by_type \in [DetectorKind -> U64]
    BY CountsAreNat
  <2>. DEFINE one == [q.by_type EXCEPT ![k] = SatAdd(@, 1)]
              both == MergeTypes(p.by_type, q.by_type)
  <2>4. MergeTypes(p.by_type, one) = [both EXCEPT ![k] = SatAdd(@, 1)]
    <3>1. \A j \in DetectorKind : one[j] = IF j = k THEN SatAdd(q.by_type[k], 1) ELSE q.by_type[j]
      BY <2>3
    <3>2. \A j \in DetectorKind : both[j] = SatAdd(p.by_type[j], q.by_type[j])
      BY DEF MergeTypes
    <3>3. DOMAIN both = DetectorKind
      BY DEF MergeTypes
    <3>4. MergeTypes(p.by_type, one) = [j \in DetectorKind |-> SatAdd(p.by_type[j], one[j])]
      BY DEF MergeTypes
    <3>. HIDE DEF one
    <3>5. \A j \in DetectorKind : SatAdd(p.by_type[j], one[j]) = IF j = k THEN SatAdd(both[k], 1) ELSE both[j]
      BY <2>2, <3>1, <3>2
    <3>6. [both EXCEPT ![k] = SatAdd(@, 1)] = [j \in DetectorKind |-> IF j = k THEN SatAdd(both[k], 1) ELSE both[j]]
      BY <3>3
    <3>. HIDE DEF both
    <3>. QED  BY <3>4, <3>5, <3>6
  <2>. QED  BY <2>1, <2>4 DEF Merge, Record
<1>. QED  BY <1>2, <1>3, <1>4
=============================================================================
