------------------------ MODULE ScenarioProofs -------------------------
(***************************************************************************)
(* Proofs about datasets and their review, for any configuration, dataset,   *)
(* policy, options and edits: the exit code is the gate's word on the review  *)
(* that was written, tag rules do not decide, a session on the screen shows    *)
(* every candidate, only approved scenarios are merged, each in its place, and  *)
(* a generated dataset replaces nothing.  At the end, what a sync applies to a   *)
(* configuration, applied once more, changes nothing.                            *)
(***************************************************************************)
EXTENDS DatasetReview, ConfigPatches, FiniteSetTheorems, TLAPS

-----------------------------------------------------------------------------
(***************************************************************************)
(* Induction over the numbers up to n, for a set of them.                     *)
(***************************************************************************)
LEMMA UpTo ==
  ASSUME NEW n \in Nat, NEW good \in SUBSET (0 .. n), 0 \in good,
         \A k \in 0 .. n - 1 : k \in good => k + 1 \in good
  PROVE  good = 0 .. n
<1> DEFINE bad == (0 .. n) \ good
           family == {0 .. m : m \in bad}
<1>1. ASSUME bad # {} PROVE FALSE
  <2>0. IsFiniteSet(0 .. n)
    BY FS_Interval
  <2>1. IsFiniteSet(0 .. n) /\ family \subseteq SUBSET (0 .. n) /\ family # {}
    <3>1. \A m \in 0 .. n : 0 .. m \subseteq 0 .. n
      OBVIOUS
    <3> QED BY <1>1, <2>0, <3>1
  <2>2. IsWellFoundedOn(StrictSubsetOrdering(0 .. n), SUBSET (0 .. n))
    BY <2>1, FS_StrictSubsetOrderingWellFounded, FS_FiniteSubsetsOfFinite
  <2>3. PICK x \in family : \A y \in family : <<y, x>> \notin StrictSubsetOrdering(0 .. n)
    <3> HIDE DEF family
    <3> QED BY <2>1, <2>2, WFMin
  <2>4. PICK m \in bad : x = 0 .. m
    OBVIOUS
  <2>5. m # 0 /\ m - 1 \in 0 .. n - 1 /\ (m - 1) + 1 = m
    BY <2>4
  <2>6. m - 1 \in bad
    BY <2>4, <2>5
  <2>7. 0 .. (m - 1) \in family
    BY <2>6
  <2>8. 0 .. (m - 1) \subseteq 0 .. m /\ 0 .. (m - 1) # 0 .. m
    <3>1. m \in 0 .. m /\ m \notin 0 .. (m - 1)
      BY <2>5
    <3> QED BY <3>1, <2>5
  <2>9. <<0 .. (m - 1), x>> \in StrictSubsetOrdering(0 .. n)
    BY <2>1, <2>4, <2>7, <2>8 DEF StrictSubsetOrdering
  <2> QED BY <2>3, <2>7, <2>9
<1> QED BY <1>1

\* The prefixes of a domain, as the folds take them apart.
LEMMA LastOfPrefix ==
  ASSUME NEW k \in Nat \ {0}
  PROVE  /\ Max(1 .. k) = k
         /\ (1 .. k) \ {k} = 1 .. (k - 1)
         /\ 1 .. k # {}
<1>1. \A x \in 1 .. k : (\A y \in 1 .. k : x >= y) <=> x = k
  OBVIOUS
<1>2. k \in 1 .. k
  OBVIOUS
<1>3. \E x \in 1 .. k : \A y \in 1 .. k : x >= y
  BY <1>1, <1>2
<1>4. Max(1 .. k) \in 1 .. k /\ \A y \in 1 .. k : Max(1 .. k) >= y
  BY <1>3 DEF Max
<1>5. (1 .. k) \ {k} = 1 .. (k - 1)
  OBVIOUS
<1>6. Max(1 .. k) = k
  BY <1>1, <1>4
<1>7. 1 .. k # {}
  BY <1>2
<1> QED BY <1>5, <1>6, <1>7

\* The largest of some numbers up to k + 1.
LEMMA Largest ==
  ASSUME NEW k \in Nat, NEW s \in SUBSET (1 .. k + 1), k + 1 \in s
  PROVE  Max(s) = k + 1 /\ s \ {k + 1} \in SUBSET (1 .. k)
<1>1. \A x \in s : (\A y \in s : x >= y) <=> x = k + 1
  OBVIOUS
<1>2. \E x \in s : \A y \in s : x >= y
  BY <1>1
<1>3. Max(s) \in s /\ \A y \in s : Max(s) >= y
  BY <1>2 DEF Max
<1>4. s \ {k + 1} \in SUBSET (1 .. k)
  OBVIOUS
<1> QED BY <1>1, <1>3, <1>4

-----------------------------------------------------------------------------
(***************************************************************************)
(* Sequences, and the members of a set in their order.                        *)
(***************************************************************************)
IsList(l) == \E S : l \in Seq(S)

LEMMA ListDomain ==
  ASSUME NEW l, IsList(l)
  PROVE  /\ Len(l) \in Nat /\ DOMAIN l = 1 .. Len(l) /\ IsFiniteSet(DOMAIN l)
         /\ Cardinality(DOMAIN l) = Len(l) /\ l \in Seq(ToSet(l))
<1>1. PICK S : l \in Seq(S)
  BY DEF IsList
<1>2. Len(l) \in Nat /\ DOMAIN l = 1 .. Len(l)
  BY <1>1
<1>3. l \in Seq(ToSet(l))
  BY <1>1, <1>2 DEF ToSet
<1>4. IsFiniteSet(1 .. Len(l)) /\ Cardinality(1 .. Len(l)) = Len(l)
  <2>1. Len(l) \in Int /\ 1 \in Int /\ (1 > Len(l) => Len(l) = 0)
    BY <1>2
  <2> QED BY <2>1, FS_Interval
<1> QED BY <1>2, <1>3, <1>4

\* Different places up to the size of a set are all its places.
LEMMA EveryPlaceIsTaken ==
  ASSUME NEW S, IsFiniteSet(S), NEW place \in [S -> 1 .. Cardinality(S)],
         \A x, y \in S : place[x] = place[y] => x = y,
         NEW k \in 1 .. Cardinality(S)
  PROVE  \E x \in S : place[x] = k
<1> DEFINE rest == (1 .. Cardinality(S)) \ {k}
<1>1. SUFFICES ASSUME \A x \in S : place[x] # k PROVE FALSE
  OBVIOUS
<1>2. Cardinality(S) \in Nat
  BY FS_CardinalityType
<1>3. IsFiniteSet(1 .. Cardinality(S)) /\ Cardinality(1 .. Cardinality(S)) = Cardinality(S)
  BY <1>2, FS_Interval
<1>4. IsFiniteSet(rest) /\ Cardinality(rest) = Cardinality(S) - 1
  BY <1>3, FS_RemoveElement
<1>5. place \in [S -> rest]
  BY <1>1
<1>6. Cardinality(rest) < Cardinality(S)
  BY <1>2, <1>4
<1> HIDE DEF rest
<1>7. \E x, y \in S : x # y /\ place[x] = place[y]
  BY <1>4, <1>5, <1>6, FS_PigeonHole
<1> QED BY <1>7

\* How many there are up to x, and so every place of a set of integers.
LEMMA AscendingPlaces ==
  ASSUME NEW S \in SUBSET Int, IsFiniteSet(S)
  PROVE  /\ Ascending(S) \in [1 .. Cardinality(S) -> S]
         /\ \A x \in S : \E k \in 1 .. Cardinality(S) : Ascending(S)[k] = x
<1> DEFINE Below(x) == {y \in S : y <= x}
           place == [x \in S |-> Cardinality(Below(x))]
<1>1. ASSUME NEW x \in S PROVE /\ IsFiniteSet(Below(x)) /\ Cardinality(Below(x)) \in 1 .. Cardinality(S)
  <2>1. Below(x) \subseteq S /\ x \in Below(x)
    OBVIOUS
  <2>2. IsFiniteSet(Below(x)) /\ Cardinality(Below(x)) <= Cardinality(S)
    BY <2>1, FS_Subset
  <2>3. Cardinality(Below(x)) \in Nat /\ Cardinality(Below(x)) # 0 /\ Cardinality(S) \in Nat
    BY <2>1, <2>2, FS_CardinalityType, FS_EmptySet
  <2> QED BY <2>2, <2>3
<1>2. ASSUME NEW x \in S, NEW y \in S, x < y PROVE Cardinality(Below(x)) < Cardinality(Below(y))
  <2>1. Below(x) \subseteq Below(y) /\ y \in Below(y) /\ y \notin Below(x)
    <3>1. \A z \in S : z <= x => z <= y
      BY <1>2
    <3>2. y <= y /\ ~(y <= x)
      BY <1>2
    <3> QED BY <3>1, <3>2
  <2>2. Below(x) # Below(y)
    BY <2>1
  <2> QED BY <1>1, <2>1, <2>2, FS_Subset
<1>3. place \in [S -> 1 .. Cardinality(S)]
  BY <1>1
<1>4. \A x, y \in S : place[x] = place[y] => x = y
  <2> SUFFICES ASSUME NEW x \in S, NEW y \in S, place[x] = place[y], x # y PROVE FALSE
    OBVIOUS
  <2>1. x < y \/ y < x
    OBVIOUS
  <2>2. Cardinality(Below(x)) \in Nat /\ Cardinality(Below(y)) \in Nat
    BY <1>1
  <2> QED BY <1>2, <2>1, <2>2
<1>5. \A k \in 1 .. Cardinality(S) : \E x \in S : place[x] = k
  <2> HIDE DEF place
  <2> QED BY <1>3, <1>4, EveryPlaceIsTaken
<1>6. ASSUME NEW k \in 1 .. Cardinality(S)
      PROVE  Ascending(S)[k] \in S /\ place[Ascending(S)[k]] = k
  <2>1. \E x \in S : Cardinality(Below(x)) = k
    BY <1>5
  <2>2. Ascending(S)[k] = CHOOSE x \in S : Cardinality(Below(x)) = k
    BY DEF Ascending
  <2> HIDE DEF Below
  <2> QED BY <2>1, <2>2
<1>7. ASSUME NEW x \in S PROVE \E k \in 1 .. Cardinality(S) : Ascending(S)[k] = x
  <2>1. place[x] \in 1 .. Cardinality(S)
    BY <1>3
  <2> HIDE DEF place
  <2>2. Ascending(S)[place[x]] = x
    BY <1>4, <1>6, <2>1
  <2> QED BY <2>1, <2>2
<1>8. Ascending(S) = [k \in 1 .. Cardinality(S) |-> Ascending(S)[k]]
  <2> DEFINE val(k) == CHOOSE x \in S : Cardinality(Below(x)) = k
  <2>1. Ascending(S) = [k \in 1 .. Cardinality(S) |-> val(k)]
    BY DEF Ascending
  <2> HIDE DEF val
  <2> QED BY <2>1
<1> QED BY <1>6, <1>7, <1>8

-----------------------------------------------------------------------------
(***************************************************************************)
(* The folds of the model, taken apart step by step: such a function exists   *)
(* on the sets of the first numbers, and what it is on 1 .. k is one step      *)
(* from what it is on 1 .. k - 1.                                               *)
(***************************************************************************)
Merging(h, base, added) ==
  /\ h[0] = base /\ h[Len(added)] = MergeDatasetIntoConfig(base, added)
  /\ \A k \in 1 .. Len(added) : h[k] = Put(h[k - 1], added[k])

LEMMA MergeSteps ==
  ASSUME NEW base, NEW added, IsList(added), added # <<>>
  PROVE  \E h : Merging(h, base, added)
<1> DEFINE n == Len(added)
           Step(acc, i) == Put(acc, added[i])
           IsFold(g, m) == g = [s \in SUBSET (1 .. m) |-> IF s = {} THEN base ELSE Step(g[s \ {Max(s)}], Max(s))]
           fold == CHOOSE g : IsFold(g, n)
<1>1. n \in Nat /\ DOMAIN added = 1 .. n
  BY ListDomain
<1>2. MergeDatasetIntoConfig(base, added) = fold[1 .. n]
  BY <1>1 DEF MergeDatasetIntoConfig, FoldLeft, MapThenFoldSet
<1> HIDE DEF n, Step
<1>3. \E g : IsFold(g, 0)
  <2>1. SUBSET (1 .. 0) = {{}}
    OBVIOUS
  <2> DEFINE g == [s \in SUBSET (1 .. 0) |-> base]
  <2>2. g = [s \in SUBSET (1 .. 0) |-> IF s = {} THEN base ELSE Step(g[s \ {Max(s)}], Max(s))]
    <3>1. \A s \in SUBSET (1 .. 0) : s = {}
      BY <2>1
    <3> QED BY <3>1
  <2> QED BY <2>2
<1>4. ASSUME NEW m \in Nat, NEW g, IsFold(g, m)
      PROVE  \E e : IsFold(e, m + 1)
  <2> DEFINE e == [s \in SUBSET (1 .. m + 1) |->
                     IF m + 1 \in s THEN Step(g[s \ {m + 1}], m + 1) ELSE g[s]]
  <2>1. ASSUME NEW s \in SUBSET (1 .. m + 1)
        PROVE  e[s] = IF s = {} THEN base ELSE Step(e[s \ {Max(s)}], Max(s))
    <3>1. CASE m + 1 \in s
      <4>1. Max(s) = m + 1 /\ s \ {m + 1} \in SUBSET (1 .. m) /\ s # {}
        BY <3>1, Largest
      <4>2. e[s \ {m + 1}] = g[s \ {m + 1}]
        BY <4>1
      <4> QED BY <3>1, <4>1, <4>2
    <3>2. CASE m + 1 \notin s
      <4>1. s \in SUBSET (1 .. m) /\ e[s] = g[s]
        BY <3>2
      <4>2. g[s] = IF s = {} THEN base ELSE Step(g[s \ {Max(s)}], Max(s))
        BY <1>4, <4>1
      <4>3. s \ {Max(s)} \in SUBSET (1 .. m + 1) /\ m + 1 \notin s \ {Max(s)}
        BY <3>2
      <4>4. e[s \ {Max(s)}] = g[s \ {Max(s)}]
        BY <4>3
      <4> QED BY <4>1, <4>2, <4>4
    <3> QED BY <3>1, <3>2
  <2>2. e = [s \in SUBSET (1 .. m + 1) |-> e[s]]
    OBVIOUS
  <2>3. IsFold(e, m + 1)
    <3> HIDE DEF e
    <3> QED BY <2>1, <2>2
  <2> QED BY <2>3
<1>5. \E g : IsFold(g, n)
  <2> DEFINE good == {m \in 0 .. n : \E g : IsFold(g, m)}
  <2>1. 0 \in good /\ \A k \in 0 .. n - 1 : k \in good => k + 1 \in good
    <3>1. 0 \in 0 .. n /\ \A k \in 0 .. n - 1 : k \in Nat /\ k + 1 \in 0 .. n
      BY <1>1
    <3> HIDE DEF IsFold
    <3> QED BY <1>3, <1>4, <3>1
  <2>2. n \in good
    <3> HIDE DEF good
    <3>1. good \in SUBSET (0 .. n)
      BY DEF good
    <3> QED BY <1>1, <2>1, <3>1, UpTo
  <2> QED BY <2>2
<1>6. IsFold(fold, n)
  <2> HIDE DEF IsFold
  <2> QED BY <1>5
<1> DEFINE h == [k \in 0 .. n |-> fold[1 .. k]]
<1>7. fold[1 .. 0] = base
  <2>1. 1 .. 0 = {} /\ 1 .. 0 \in SUBSET (1 .. n)
    OBVIOUS
  <2> HIDE DEF fold
  <2> QED BY <1>6, <2>1
<1>8. ASSUME NEW k \in 1 .. n PROVE h[k] = Step(h[k - 1], k)
  <2>1. k \in Nat \ {0} /\ k - 1 \in 0 .. n /\ k \in 0 .. n /\ 1 .. k \in SUBSET (1 .. n)
    BY <1>1
  <2>2. Max(1 .. k) = k /\ (1 .. k) \ {k} = 1 .. k - 1 /\ 1 .. k # {}
    BY <2>1, LastOfPrefix
  <2> HIDE DEF fold
  <2>3. fold[1 .. k] = Step(fold[1 .. k - 1], k)
    BY <1>6, <2>1, <2>2
  <2> QED BY <2>1, <2>3
<1>9. h[0] = base /\ h[n] = fold[1 .. n]
  BY <1>1, <1>7
<1>10. /\ h[0] = base /\ h[n] = MergeDatasetIntoConfig(base, added)
       /\ \A k \in 1 .. n : h[k] = Put(h[k - 1], added[k])
  <2> HIDE DEF h, fold
  <2> QED BY <1>2, <1>8, <1>9 DEF Step
<1> QED
  <2> HIDE DEF h, fold
  <2> QED BY <1>10 DEF n, Merging

-----------------------------------------------------------------------------
(***************************************************************************)
(* Merging into a list in which no name comes twice.                          *)
(***************************************************************************)
Distinct(list) ==
  /\ IsList(list)
  /\ \A i, j \in DOMAIN list : list[i].name = list[j].name => i = j

LEMMA PositionOf ==
  ASSUME NEW list, Distinct(list), NEW i \in DOMAIN list
  PROVE  Position(list, list[i].name) = i
<1> DEFINE here == {j \in DOMAIN list : list[j].name = list[i].name}
<1>1. here = {i} /\ i \in Int
  BY ListDomain DEF Distinct
<1>2. Max(here) = i
  <2> HIDE DEF here
  <2> QED BY <1>1 DEF Max
<1> QED BY <1>2 DEF Position

\* A scenario is put in the place of the one with its name, or at the end.
LEMMA PutInPlace ==
  ASSUME NEW list, Distinct(list), NEW s
  PROVE  LET r == Put(list, s)
         IN  /\ Distinct(r) /\ Names(r) = Names(list) \cup {s.name}
             /\ DOMAIN list \subseteq DOMAIN r
             /\ \A i \in DOMAIN list : r[i] = IF list[i].name = s.name THEN s ELSE list[i]
             /\ \A i \in DOMAIN r \ DOMAIN list : r[i] = s
<1> DEFINE r == Put(list, s)
<1>1. /\ Len(list) \in Nat /\ DOMAIN list = 1 .. Len(list) /\ list \in Seq(ToSet(list))
  BY ListDomain DEF Distinct
<1>2. CASE s.name \in Names(list)
  <2>1. PICK p \in DOMAIN list : list[p].name = s.name
    BY <1>2 DEF Names
  <2>2. Position(list, s.name) = p
    BY <2>1, PositionOf
  <2>3. r = [list EXCEPT ![p] = s]
    BY <1>2, <2>2 DEF Put
  <2>4. DOMAIN r = DOMAIN list
    BY <2>3
  <2>5. \A i \in DOMAIN list : r[i] = IF list[i].name = s.name THEN s ELSE list[i]
    <3> SUFFICES ASSUME NEW i \in DOMAIN list PROVE r[i] = IF list[i].name = s.name THEN s ELSE list[i]
      OBVIOUS
    <3>1. i = p \/ list[i].name # s.name
      BY <2>1 DEF Distinct
    <3> QED BY <2>1, <2>3, <3>1
  <2>6. \A i \in DOMAIN list : r[i].name = list[i].name
    BY <2>5
  <2>7. r \in Seq(ToSet(list) \cup {s})
    <3>1. list \in Seq(ToSet(list) \cup {s})
      BY <1>1
    <3> QED BY <2>1, <2>3, <3>1
  <2>8. Distinct(r)
    BY <2>4, <2>6, <2>7 DEF Distinct, IsList
  <2>9. Names(r) = Names(list) \cup {s.name}
    BY <1>2, <2>4, <2>6 DEF Names
  <2> QED BY <2>4, <2>5, <2>8, <2>9
<1>3. CASE s.name \notin Names(list)
  <2>1. r = Append(list, s)
    BY <1>3 DEF Put
  <2>2. list \in Seq(ToSet(list) \cup {s})
    BY <1>1
  <2>3. /\ r \in Seq(ToSet(list) \cup {s}) /\ Len(r) = Len(list) + 1 /\ DOMAIN r = 1 .. Len(list) + 1
        /\ \A i \in 1 .. Len(list) : r[i] = list[i]
        /\ r[Len(list) + 1] = s
    BY <2>1, <2>2
  <2>4. \A i \in DOMAIN list : list[i].name # s.name
    BY <1>3 DEF Names
  <2>5. \A i \in DOMAIN r : i \in DOMAIN list \/ i = Len(list) + 1
    BY <1>1, <2>3
  <2>6. Distinct(r)
    <3>1. \A i, j \in DOMAIN r : r[i].name = r[j].name => i = j
      <4> SUFFICES ASSUME NEW i \in DOMAIN r, NEW j \in DOMAIN r, r[i].name = r[j].name PROVE i = j
        OBVIOUS
      <4>1. CASE i \in DOMAIN list /\ j \in DOMAIN list
        BY <4>1, <1>1, <2>3 DEF Distinct
      <4>2. CASE i = Len(list) + 1 \/ j = Len(list) + 1
        BY <4>2, <1>1, <2>3, <2>4, <2>5
      <4> QED BY <2>5, <4>1, <4>2
    <3>2. IsList(r)
      BY <2>3 DEF IsList
    <3> QED BY <3>1, <3>2 DEF Distinct
  <2>7. Names(r) = Names(list) \cup {s.name}
    <3>1. Len(list) + 1 \in DOMAIN r /\ DOMAIN list \subseteq DOMAIN r
      BY <1>1, <2>3
    <3>2. \A n \in Names(list) \cup {s.name} : n \in Names(r)
      BY <1>1, <2>3, <3>1 DEF Names
    <3>3. \A n \in Names(r) : n \in Names(list) \cup {s.name}
      BY <1>1, <2>3, <2>5 DEF Names
    <3> QED BY <3>2, <3>3
  <2>8. DOMAIN list \subseteq DOMAIN r
    BY <1>1, <2>3
  <2>9. \A i \in DOMAIN list : r[i] = IF list[i].name = s.name THEN s ELSE list[i]
    BY <1>1, <2>3, <2>4
  <2>10. \A i \in DOMAIN r \ DOMAIN list : r[i] = s
    BY <2>3, <2>5
  <2> QED BY <2>6, <2>7, <2>8, <2>9, <2>10
<1> QED BY <1>2, <1>3

\* What a merge leaves: every name once, the scenarios of others where they
\* were, and under each of the names the last of those that were merged.
LastNamed(list, j, n) == \A k \in 1 .. n : k > j => list[k].name # list[j].name

LEMMA MergeInPlace ==
  ASSUME NEW base, Distinct(base), NEW added, IsList(added), added # <<>>
  PROVE  LET merged == MergeDatasetIntoConfig(base, added)
         IN  /\ Distinct(merged) /\ Names(merged) = Names(base) \cup Names(added)
             /\ DOMAIN base \subseteq DOMAIN merged
             /\ \A i \in DOMAIN base : merged[i].name = base[i].name
             /\ \A i \in DOMAIN base : base[i].name \notin Names(added) => merged[i] = base[i]
             /\ \A i \in DOMAIN merged : merged[i].name \in Names(added) =>
                  \E j \in DOMAIN added : merged[i] = added[j] /\ LastNamed(added, j, Len(added))
<1> DEFINE n == Len(added)
           Upto(k) == {added[j].name : j \in 1 .. k}
<1>1. n \in Nat /\ DOMAIN added = 1 .. n
  BY ListDomain
<1>2. PICK h : /\ h[0] = base /\ h[n] = MergeDatasetIntoConfig(base, added)
               /\ \A k \in 1 .. n : h[k] = Put(h[k - 1], added[k])
  <2>1. PICK h : Merging(h, base, added)
    BY MergeSteps
  <2> QED BY <2>1 DEF Merging
<1> DEFINE Good(k) ==
      /\ Distinct(h[k]) /\ Names(h[k]) = Names(base) \cup Upto(k)
      /\ DOMAIN base \subseteq DOMAIN h[k]
      /\ \A i \in DOMAIN base : h[k][i].name = base[i].name
      /\ \A i \in DOMAIN base : base[i].name \notin Upto(k) => h[k][i] = base[i]
      /\ \A i \in DOMAIN h[k] : h[k][i].name \in Upto(k) => \E j \in 1 .. k : h[k][i] = added[j] /\ LastNamed(added, j, k)
<1>3. Good(0)
  <2>1. Upto(0) = {}
    OBVIOUS
  <2> QED BY <1>2, <2>1
<1>4. ASSUME NEW k \in 0 .. n - 1, Good(k) PROVE Good(k + 1)
  <2>1. k + 1 \in 1 .. n /\ (k + 1) - 1 = k /\ h[k + 1] = Put(h[k], added[k + 1])
    BY <1>1, <1>2
  <2> DEFINE s == added[k + 1]
             l == h[k]
             r == h[k + 1]
  <2>2. /\ Distinct(r) /\ Names(r) = Names(l) \cup {s.name}
        /\ DOMAIN l \subseteq DOMAIN r
        /\ \A i \in DOMAIN l : r[i] = IF l[i].name = s.name THEN s ELSE l[i]
        /\ \A i \in DOMAIN r \ DOMAIN l : r[i] = s
    <3>1. r = Put(l, s) /\ Distinct(l)
      BY <1>4, <2>1
    <3> HIDE DEF r, l, s
    <3> QED BY <3>1, PutInPlace
  <2>3. Upto(k + 1) = Upto(k) \cup {s.name}
    <3>1. 1 .. k + 1 = (1 .. k) \cup {k + 1}
      BY <1>1
    <3> QED BY <3>1
  <2>4. \A i \in DOMAIN base : base[i].name \notin Upto(k + 1) => r[i] = base[i]
    <3> SUFFICES ASSUME NEW i \in DOMAIN base, base[i].name \notin Upto(k + 1) PROVE r[i] = base[i]
      OBVIOUS
    <3>1. l[i] = base[i] /\ base[i].name # s.name /\ i \in DOMAIN l
      BY <1>4, <2>3
    <3> HIDE DEF s, l, r, Upto
    <3> QED BY <2>2, <3>1
  <2>5. \A i \in DOMAIN r :
          r[i].name \in Upto(k + 1) => \E j \in 1 .. k + 1 : r[i] = added[j] /\ LastNamed(added, j, k + 1)
    <3> SUFFICES ASSUME NEW i \in DOMAIN r, r[i].name \in Upto(k + 1)
                 PROVE  \E j \in 1 .. k + 1 : r[i] = added[j] /\ LastNamed(added, j, k + 1)
      OBVIOUS
    <3>1. k + 1 \in 1 .. k + 1 /\ 1 .. k \subseteq 1 .. k + 1
      BY <1>1
    <3>2. CASE r[i] = s
      <4>1. LastNamed(added, k + 1, k + 1)
        BY <1>1 DEF LastNamed
      <4> QED BY <3>1, <3>2, <4>1
    <3>3. CASE r[i] # s
      <4>1. i \in DOMAIN l /\ r[i] = l[i] /\ l[i].name # s.name
        <5> HIDE DEF s, l, r
        <5> QED BY <2>2, <3>3
      <4>2. l[i].name \in Upto(k)
        <5> HIDE DEF Upto, s, l, r
        <5> QED BY <2>3, <4>1
      <4>3. PICK j \in 1 .. k : l[i] = added[j] /\ LastNamed(added, j, k)
        BY <1>4, <4>1, <4>2
      <4>4. LastNamed(added, j, k + 1)
        <5>1. \A m \in 1 .. k + 1 : m \in 1 .. k \/ m = k + 1
          BY <1>1
        <5>2. added[k + 1].name # added[j].name
          BY <4>1, <4>3
        <5> QED BY <4>3, <5>1, <5>2 DEF LastNamed
      <4> QED BY <3>1, <4>1, <4>3, <4>4
    <3> QED BY <3>2, <3>3
  <2>6. Names(r) = Names(base) \cup Upto(k + 1) /\ DOMAIN base \subseteq DOMAIN r
    <3> HIDE DEF s, r, Upto
    <3> QED BY <1>4, <2>2, <2>3
  <2>7. \A i \in DOMAIN base : r[i].name = base[i].name
    <3> SUFFICES ASSUME NEW i \in DOMAIN base PROVE r[i].name = base[i].name
      OBVIOUS
    <3>1. l[i].name = base[i].name /\ i \in DOMAIN l
      BY <1>4
    <3> HIDE DEF s, l, r
    <3> QED BY <2>2, <3>1
  <2> HIDE DEF Upto
  <2> QED BY <2>2, <2>4, <2>5, <2>6, <2>7
<1>5. Good(n)
  <2> DEFINE good == {k \in 0 .. n : Good(k)}
  <2> HIDE DEF Good, n
  <2>1. 0 \in good /\ \A k \in 0 .. n - 1 : k \in good => k + 1 \in good
    <3>1. 0 \in 0 .. n /\ \A k \in 0 .. n - 1 : k + 1 \in 0 .. n
      BY <1>1
    <3> QED BY <1>3, <1>4, <3>1
  <2>2. good \in SUBSET (0 .. n)
    OBVIOUS
  <2>3. n \in good
    <3> HIDE DEF good
    <3> QED BY <1>1, <2>1, <2>2, UpTo
  <2> QED BY <2>3
<1>6. Upto(n) = Names(added)
  BY <1>1 DEF Names
<1> HIDE DEF Upto
<1> QED BY <1>1, <1>2, <1>5, <1>6

-----------------------------------------------------------------------------
(***************************************************************************)
(* Sorting a review: a permutation, stable, and nothing new once it is sorted. *)
(***************************************************************************)
Rankable(entries) ==
  /\ IsList(entries)
  /\ \A i \in DOMAIN entries :
       /\ entries[i].analysis.useful \in Int /\ entries[i].severity \in Int
       /\ entries[i].scenario.name \in Int

Sorted(entries) == \A i, j \in DOMAIN entries : i < j => ~RanksAbove(entries[j], entries[i])

Ahead(entries, i) == {j \in DOMAIN entries : Before(entries, j, i)}

\* Any two are in one order, and it is transitive.
LEMMA BeforeIsAnOrder ==
  ASSUME NEW entries, Rankable(entries),
         NEW i \in DOMAIN entries, NEW j \in DOMAIN entries, NEW k \in DOMAIN entries
  PROVE  /\ ~Before(entries, i, i)
         /\ i # j => (Before(entries, i, j) <=> ~Before(entries, j, i))
         /\ Before(entries, i, j) /\ Before(entries, j, k) => Before(entries, i, k)
<1>1. i \in Int /\ j \in Int /\ k \in Int
  BY ListDomain DEF Rankable
<1> DEFINE u(x) == entries[x].analysis.useful
           v(x) == entries[x].severity
           w(x) == entries[x].scenario.name
<1>2. \A x \in {i, j, k} : u(x) \in Int /\ v(x) \in Int /\ w(x) \in Int
  BY DEF Rankable
<1>3. \A x, y \in {i, j, k} :
        Before(entries, x, y) <=>
          \/ u(x) > u(y)
          \/ u(x) = u(y) /\ v(x) > v(y)
          \/ u(x) = u(y) /\ v(x) = v(y) /\ w(x) < w(y)
          \/ u(x) = u(y) /\ v(x) = v(y) /\ w(x) = w(y) /\ x < y
  BY <1>2 DEF Before, RanksAbove
<1> HIDE DEF u, v, w
<1> QED BY <1>1, <1>2, <1>3

LEMMA PlaceInRange ==
  ASSUME NEW entries, Rankable(entries), NEW i \in DOMAIN entries
  PROVE  /\ IsFiniteSet(Ahead(entries, i)) /\ Cardinality(Ahead(entries, i)) \in Nat
         /\ Place(entries, i) \in 1 .. Len(entries)
<1>1. /\ Len(entries) \in Nat /\ DOMAIN entries = 1 .. Len(entries) /\ IsFiniteSet(DOMAIN entries)
      /\ Cardinality(DOMAIN entries) = Len(entries)
  BY ListDomain DEF Rankable
<1>2. Ahead(entries, i) \subseteq DOMAIN entries \ {i}
  BY BeforeIsAnOrder DEF Ahead
<1>3. IsFiniteSet(DOMAIN entries \ {i}) /\ Cardinality(DOMAIN entries \ {i}) = Len(entries) - 1
  BY <1>1, FS_RemoveElement
<1>4. IsFiniteSet(Ahead(entries, i)) /\ Cardinality(Ahead(entries, i)) <= Len(entries) - 1
  BY <1>2, <1>3, FS_Subset
<1>5. Cardinality(Ahead(entries, i)) \in Nat
  BY <1>4, FS_CardinalityType
<1>6. Place(entries, i) = Cardinality(Ahead(entries, i)) + 1
  BY DEF Place, Ahead
<1> QED BY <1>1, <1>4, <1>5, <1>6

LEMMA PlaceFollowsOrder ==
  ASSUME NEW entries, Rankable(entries), NEW i \in DOMAIN entries, NEW j \in DOMAIN entries,
         Before(entries, i, j)
  PROVE  Place(entries, i) < Place(entries, j)
<1>1. Ahead(entries, i) \subseteq Ahead(entries, j) /\ i \in Ahead(entries, j) /\ i \notin Ahead(entries, i)
  BY BeforeIsAnOrder DEF Ahead
<1>2. Ahead(entries, i) # Ahead(entries, j)
  BY <1>1
<1>3. /\ IsFiniteSet(Ahead(entries, j)) /\ Cardinality(Ahead(entries, j)) \in Nat
      /\ Cardinality(Ahead(entries, i)) \in Nat
  BY PlaceInRange
<1>4. Cardinality(Ahead(entries, i)) < Cardinality(Ahead(entries, j))
  BY <1>1, <1>2, <1>3, FS_Subset
<1>5. /\ Place(entries, i) = Cardinality(Ahead(entries, i)) + 1
      /\ Place(entries, j) = Cardinality(Ahead(entries, j)) + 1
  BY DEF Place, Ahead
<1> QED BY <1>3, <1>4, <1>5

\* By which permutation it sorts.
Order(entries) == [k \in DOMAIN entries |-> CHOOSE i \in DOMAIN entries : Place(entries, i) = k]

LEMMA OrderIsPermutation ==
  ASSUME NEW entries, Rankable(entries)
  PROVE  LET order == Order(entries)
         IN  /\ order \in [DOMAIN entries -> DOMAIN entries]
             /\ \A k \in DOMAIN entries : Place(entries, order[k]) = k
             /\ \A i \in DOMAIN entries : \E k \in DOMAIN entries : order[k] = i
             /\ sortReviewedScenarios(entries) = [k \in DOMAIN entries |-> entries[order[k]]]
<1> DEFINE place == [i \in DOMAIN entries |-> Place(entries, i)]
           order == Order(entries)
<1>1. /\ Len(entries) \in Nat /\ DOMAIN entries = 1 .. Len(entries) /\ IsFiniteSet(DOMAIN entries)
      /\ Cardinality(DOMAIN entries) = Len(entries)
  BY ListDomain DEF Rankable
<1>2. place \in [DOMAIN entries -> 1 .. Cardinality(DOMAIN entries)]
  BY <1>1, PlaceInRange
<1>3. ASSUME NEW i \in DOMAIN entries, NEW j \in DOMAIN entries, Place(entries, i) = Place(entries, j)
      PROVE  i = j
  <2> SUFFICES ASSUME i # j PROVE FALSE
    OBVIOUS
  <2>1. Before(entries, i, j) \/ Before(entries, j, i)
    BY BeforeIsAnOrder
  <2>2. Place(entries, i) < Place(entries, j) \/ Place(entries, j) < Place(entries, i)
    BY <2>1, PlaceFollowsOrder
  <2>3. Place(entries, i) \in Int /\ Place(entries, j) \in Int
    BY PlaceInRange
  <2> QED BY <1>3, <2>2, <2>3
<1>4. \A i, j \in DOMAIN entries : place[i] = place[j] => i = j
  BY <1>3
<1>5. ASSUME NEW k \in DOMAIN entries PROVE \E i \in DOMAIN entries : Place(entries, i) = k
  <2>1. k \in 1 .. Cardinality(DOMAIN entries)
    BY <1>1
  <2> DEFINE S == DOMAIN entries
  <2>2. /\ IsFiniteSet(S) /\ place \in [S -> 1 .. Cardinality(S)] /\ k \in 1 .. Cardinality(S)
        /\ \A x, y \in S : place[x] = place[y] => x = y
    BY <1>1, <1>2, <1>4, <2>1
  <2> HIDE DEF place, S
  <2>3. \E i \in S : place[i] = k
    BY <2>2, EveryPlaceIsTaken
  <2> QED BY <2>3 DEF place, S
<1>6. ASSUME NEW k \in DOMAIN entries
      PROVE  order[k] \in DOMAIN entries /\ Place(entries, order[k]) = k
  <2>1. order[k] = CHOOSE i \in DOMAIN entries : Place(entries, i) = k
    BY DEF Order
  <2> QED BY <1>5, <2>1
<1>7. order = [k \in DOMAIN entries |-> order[k]]
  BY DEF Order
<1>8. ASSUME NEW i \in DOMAIN entries PROVE \E k \in DOMAIN entries : order[k] = i
  <2>1. Place(entries, i) \in DOMAIN entries
    BY <1>1, PlaceInRange
  <2>2. order[Place(entries, i)] = i
    BY <1>3, <1>6, <2>1
  <2> QED BY <2>1, <2>2
<1>9. sortReviewedScenarios(entries) = [k \in DOMAIN entries |-> entries[order[k]]]
  BY DEF sortReviewedScenarios, Order
<1>10. order \in [DOMAIN entries -> DOMAIN entries]
  BY <1>6, <1>7
<1> QED BY <1>6, <1>8, <1>9, <1>10

LEMMA SortIsSorted ==
  ASSUME NEW entries, Rankable(entries)
  PROVE  LET r == sortReviewedScenarios(entries)
         IN  /\ DOMAIN r = DOMAIN entries /\ Rankable(r) /\ Sorted(r) /\ Len(r) = Len(entries)
             /\ ToSet(r) = ToSet(entries)
<1> DEFINE r == sortReviewedScenarios(entries)
           order == Order(entries)
<1>1. /\ order \in [DOMAIN entries -> DOMAIN entries]
      /\ \A k \in DOMAIN entries : Place(entries, order[k]) = k
      /\ \A i \in DOMAIN entries : \E k \in DOMAIN entries : order[k] = i
      /\ r = [k \in DOMAIN entries |-> entries[order[k]]]
  BY OrderIsPermutation
<1>2. Len(entries) \in Nat /\ DOMAIN entries = 1 .. Len(entries) /\ entries \in Seq(ToSet(entries))
  BY ListDomain DEF Rankable
<1> HIDE DEF r, order
<1>3. r \in Seq(ToSet(entries)) /\ Len(r) = Len(entries) /\ DOMAIN r = DOMAIN entries
  <2>1. \A k \in 1 .. Len(entries) : entries[order[k]] \in ToSet(entries)
    BY <1>1, <1>2 DEF ToSet
  <2>2. r = [k \in 1 .. Len(entries) |-> entries[order[k]]]
    BY <1>1, <1>2
  <2> QED BY <1>2, <2>1, <2>2
<1>4. Rankable(r)
  BY <1>1, <1>3 DEF Rankable, IsList
<1>5. Sorted(r)
  <2> SUFFICES ASSUME NEW i \in DOMAIN entries, NEW j \in DOMAIN entries, i < j,
                      RanksAbove(entries[order[j]], entries[order[i]])
               PROVE  FALSE
    BY <1>1, <1>3 DEF Sorted
  <2>1. Before(entries, order[j], order[i])
    BY DEF Before
  <2>2. Place(entries, order[j]) < Place(entries, order[i])
    BY <1>1, <2>1, PlaceFollowsOrder
  <2> QED BY <1>1, <1>2, <2>2
<1>6. ToSet(r) = ToSet(entries)
  <2>1. \A k \in DOMAIN entries : r[k] \in ToSet(entries)
    BY <1>1 DEF ToSet
  <2>2. \A i \in DOMAIN entries : \E k \in DOMAIN entries : entries[i] = r[k]
    BY <1>1
  <2> QED BY <1>3, <2>1, <2>2 DEF ToSet
<1> QED BY <1>3, <1>4, <1>5, <1>6 DEF r

\* The order in a review that is sorted is the one of its places.
LEMMA SortOfSorted ==
  ASSUME NEW entries, Rankable(entries), Sorted(entries)
  PROVE  sortReviewedScenarios(entries) = entries
<1>1. Len(entries) \in Nat /\ DOMAIN entries = 1 .. Len(entries) /\ entries \in Seq(ToSet(entries))
  BY ListDomain DEF Rankable
<1>2. ASSUME NEW i \in DOMAIN entries PROVE Place(entries, i) = i
  <2>1. ASSUME NEW j \in DOMAIN entries PROVE Before(entries, j, i) <=> j < i
    <3>1. i \in Int /\ j \in Int
      BY <1>1
    <3>2. j < i => Before(entries, j, i)
      BY DEF Sorted, Before
    <3>3. i < j => Before(entries, i, j)
      BY DEF Sorted, Before
    <3> QED BY <3>1, <3>2, <3>3, BeforeIsAnOrder
  <2>2. {j \in DOMAIN entries : Before(entries, j, i)} = 1 .. i - 1
    BY <1>1, <2>1
  <2>3. Cardinality(1 .. i - 1) = i - 1
    <3>1. i \in Int /\ i - 1 \in Int /\ (1 > i - 1 => i - 1 = 0) /\ 1 \in Int
      BY <1>1
    <3>2. Cardinality(1 .. i - 1) = IF 1 > i - 1 THEN 0 ELSE (i - 1) - 1 + 1
      BY <3>1, FS_Interval
    <3> QED BY <3>1, <3>2
  <2>4. i \in Int
    BY <1>1
  <2>5. Place(entries, i) = Cardinality(1 .. i - 1) + 1
    BY <2>2 DEF Place
  <2> QED BY <2>3, <2>4, <2>5
<1> DEFINE order == Order(entries)
<1>3. /\ order \in [DOMAIN entries -> DOMAIN entries]
      /\ \A k \in DOMAIN entries : Place(entries, order[k]) = k
      /\ sortReviewedScenarios(entries) = [k \in DOMAIN entries |-> entries[order[k]]]
  BY OrderIsPermutation
<1>4. \A k \in DOMAIN entries : order[k] = k
  BY <1>2, <1>3
<1>5. entries = [k \in DOMAIN entries |-> entries[k]]
  BY <1>1
<1> HIDE DEF order
<1> QED BY <1>3, <1>4, <1>5

\* Sorting does not change how many there are of a kind.
LEMMA SortKeepsCounts ==
  ASSUME NEW entries, Rankable(entries), NEW field, NEW value
  PROVE  Count(sortReviewedScenarios(entries), field, value) = Count(entries, field, value)
<1> DEFINE r == sortReviewedScenarios(entries)
           order == Order(entries)
           from == {k \in DOMAIN entries : r[k][field] = value}
           to == {i \in DOMAIN entries : entries[i][field] = value}
           map == [k \in from |-> order[k]]
<1>1. /\ order \in [DOMAIN entries -> DOMAIN entries]
      /\ \A k \in DOMAIN entries : Place(entries, order[k]) = k
      /\ \A i \in DOMAIN entries : \E k \in DOMAIN entries : order[k] = i
      /\ r = [k \in DOMAIN entries |-> entries[order[k]]]
  BY OrderIsPermutation
<1>2. IsFiniteSet(DOMAIN entries) /\ DOMAIN r = DOMAIN entries
  BY <1>1, ListDomain DEF Rankable
<1> HIDE DEF r, order
<1>3. map \in [from -> to]
  BY <1>1
<1>4. \A i \in to : \E k \in from : map[k] = i
  BY <1>1
<1>5. \A k, l \in from : map[k] = map[l] => k = l
  BY <1>1
<1>6. IsFiniteSet(from)
  BY <1>2, FS_Subset
<1> HIDE DEF map, from, to
<1>7. map \in Bijection(from, to)
  BY <1>3, <1>4, <1>5 DEF Bijection, Injection, IsInjective, Surjection
<1>8. Cardinality(to) = Cardinality(from)
  BY <1>6, <1>7, FS_Bijection DEF ExistsBijection
<1> QED BY <1>2, <1>8 DEF Count, from, to, r

Ruling(h, item, e, rules, source) ==
  /\ h[0] = [scenario |-> item.scenario, decision |-> "pending"]
  /\ h[Len(rules)] = applyPolicyRules(item, e, rules, source)
  /\ \A k \in 1 .. Len(rules) :
       h[k] = IF reviewPolicyRuleMatches(rules[k], e, source) THEN ApplyRule(rules[k], h[k - 1]) ELSE h[k - 1]

LEMMA RuleSteps ==
  ASSUME NEW item, NEW e, NEW rules, NEW source, IsList(rules)
  PROVE  \E h : Ruling(h, item, e, rules, source)
<1> DEFINE n == Len(rules)
           base == [scenario |-> item.scenario, decision |-> "pending"]
           Rules(acc, i) == IF reviewPolicyRuleMatches(rules[i], e, source) THEN ApplyRule(rules[i], acc) ELSE acc
           Step(acc, i) == Rules(acc, [j \in DOMAIN rules |-> j][i])
           IsFold(g, m) == g = [s \in SUBSET (1 .. m) |-> IF s = {} THEN base ELSE Step(g[s \ {Max(s)}], Max(s))]
           fold == CHOOSE g : IsFold(g, n)
<1>1. n \in Nat /\ DOMAIN rules = 1 .. n
  BY ListDomain
<1>2. applyPolicyRules(item, e, rules, source) = fold[1 .. n]
  BY <1>1 DEF applyPolicyRules, FoldLeftDomain, FoldLeft, MapThenFoldSet
<1> HIDE DEF n, base, Rules, Step
<1>3. \E g : IsFold(g, 0)
  <2>1. SUBSET (1 .. 0) = {{}}
    OBVIOUS
  <2> DEFINE g == [s \in SUBSET (1 .. 0) |-> base]
  <2>2. g = [s \in SUBSET (1 .. 0) |-> IF s = {} THEN base ELSE Step(g[s \ {Max(s)}], Max(s))]
    <3>1. \A s \in SUBSET (1 .. 0) : s = {}
      BY <2>1
    <3> QED BY <3>1
  <2> QED BY <2>2
<1>4. ASSUME NEW m \in Nat, NEW g, IsFold(g, m)
      PROVE  \E x : IsFold(x, m + 1)
  <2> DEFINE x == [s \in SUBSET (1 .. m + 1) |->
                     IF m + 1 \in s THEN Step(g[s \ {m + 1}], m + 1) ELSE g[s]]
  <2>1. ASSUME NEW s \in SUBSET (1 .. m + 1)
        PROVE  x[s] = IF s = {} THEN base ELSE Step(x[s \ {Max(s)}], Max(s))
    <3>1. CASE m + 1 \in s
      <4>1. Max(s) = m + 1 /\ s \ {m + 1} \in SUBSET (1 .. m) /\ s # {}
        BY <3>1, Largest
      <4>2. x[s \ {m + 1}] = g[s \ {m + 1}]
        BY <4>1
      <4> QED BY <3>1, <4>1, <4>2
    <3>2. CASE m + 1 \notin s
      <4>1. s \in SUBSET (1 .. m) /\ x[s] = g[s]
        BY <3>2
      <4>2. g[s] = IF s = {} THEN base ELSE Step(g[s \ {Max(s)}], Max(s))
        BY <1>4, <4>1
      <4>3. s \ {Max(s)} \in SUBSET (1 .. m + 1) /\ m + 1 \notin s \ {Max(s)}
        BY <3>2
      <4>4. x[s \ {Max(s)}] = g[s \ {Max(s)}]
        BY <4>3
      <4> QED BY <4>1, <4>2, <4>4
    <3> QED BY <3>1, <3>2
  <2>2. x = [s \in SUBSET (1 .. m + 1) |-> x[s]]
    OBVIOUS
  <2>3. IsFold(x, m + 1)
    <3> HIDE DEF x
    <3> QED BY <2>1, <2>2
  <2> QED BY <2>3
<1>5. \E g : IsFold(g, n)
  <2> DEFINE good == {m \in 0 .. n : \E g : IsFold(g, m)}
  <2>1. 0 \in good /\ \A k \in 0 .. n - 1 : k \in good => k + 1 \in good
    <3>1. 0 \in 0 .. n /\ \A k \in 0 .. n - 1 : k \in Nat /\ k + 1 \in 0 .. n
      BY <1>1
    <3> HIDE DEF IsFold
    <3> QED BY <1>3, <1>4, <3>1
  <2>2. n \in good
    <3> HIDE DEF good
    <3>1. good \in SUBSET (0 .. n)
      BY DEF good
    <3> QED BY <1>1, <2>1, <3>1, UpTo
  <2> QED BY <2>2
<1>6. IsFold(fold, n)
  <2> HIDE DEF IsFold
  <2> QED BY <1>5
<1> DEFINE h == [k \in 0 .. n |-> fold[1 .. k]]
<1>7. fold[1 .. 0] = base
  <2>1. 1 .. 0 = {} /\ 1 .. 0 \in SUBSET (1 .. n)
    OBVIOUS
  <2> HIDE DEF fold
  <2> QED BY <1>6, <2>1
<1>8. ASSUME NEW k \in 1 .. n PROVE h[k] = Step(h[k - 1], k)
  <2>1. k \in Nat \ {0} /\ k - 1 \in 0 .. n /\ k \in 0 .. n /\ 1 .. k \in SUBSET (1 .. n)
    BY <1>1
  <2>2. Max(1 .. k) = k /\ (1 .. k) \ {k} = 1 .. k - 1 /\ 1 .. k # {}
    BY <2>1, LastOfPrefix
  <2> HIDE DEF fold
  <2>3. fold[1 .. k] = Step(fold[1 .. k - 1], k)
    BY <1>6, <2>1, <2>2
  <2> QED BY <2>1, <2>3
<1>9. h[0] = base /\ h[n] = fold[1 .. n]
  BY <1>1, <1>7
<1>10. /\ h[0] = base /\ h[n] = applyPolicyRules(item, e, rules, source)
       /\ \A k \in 1 .. n : h[k] = Rules(h[k - 1], k)
  <2> HIDE DEF h, fold
  <2> QED BY <1>1, <1>2, <1>8, <1>9 DEF Step
<1> QED
  <2> HIDE DEF h, fold
  <2> QED BY <1>10 DEF n, base, Rules, Ruling

\* Of a list of rules in which those that add add nothing, the same decision.
Deciding(rules) ==
  [k \in DOMAIN rules |->
     IF rules[k].action \in {"approve", "reject"} THEN rules[k]
     ELSE [rules[k] EXCEPT !.action = "add-tags", !.add = {}]]

RuleFields == {"action", "sources", "statuses", "tags", "severity", "suitable", "checked", "add"}

LEMMA AddingDecidesNothing ==
  ASSUME NEW item, NEW e, NEW rules, NEW source, IsList(rules),
         \A k \in DOMAIN rules : DOMAIN rules[k] = RuleFields
  PROVE  applyPolicyRules(item, e, rules, source).decision
           = applyPolicyRules(item, e, Deciding(rules), source).decision
<1> DEFINE n == Len(rules)
           bare == Deciding(rules)
<1>1. n \in Nat /\ DOMAIN rules = 1 .. n /\ bare = [k \in 1 .. n |-> bare[k]]
  BY ListDomain DEF Deciding
<1>2. IsList(bare) /\ Len(bare) = n
  <2>1. bare \in [1 .. n -> {bare[k] : k \in 1 .. n}]
    BY <1>1
  <2> HIDE DEF bare
  <2>2. bare \in Seq({bare[k] : k \in 1 .. n}) /\ Len(bare) = n
    BY <1>1, <2>1
  <2> QED BY <2>2 DEF IsList
<1>3. PICK h : Ruling(h, item, e, rules, source)
  BY RuleSteps
<1>4. PICK g : Ruling(g, item, e, bare, source)
  <2> HIDE DEF bare
  <2> QED BY <1>2, RuleSteps
<1>5. ASSUME NEW k \in 1 .. n
      PROVE  /\ reviewPolicyRuleMatches(bare[k], e, source) <=> reviewPolicyRuleMatches(rules[k], e, source)
             /\ bare[k].action \in {"approve", "reject"} \/ rules[k].action \in {"approve", "reject"} => bare[k].action = rules[k].action
  <2>1. CASE rules[k].action \in {"approve", "reject"}
    <3>1. bare[k] = rules[k]
      BY <1>1, <2>1 DEF Deciding
    <3> QED BY <3>1
  <2>2. CASE rules[k].action \notin {"approve", "reject"}
    <3>1. bare[k] = [rules[k] EXCEPT !.action = "add-tags", !.add = {}]
      BY <1>1, <2>2 DEF Deciding
    <3>2. DOMAIN rules[k] = RuleFields
      BY <1>1
    <3>3. /\ bare[k].sources = rules[k].sources /\ bare[k].statuses = rules[k].statuses
          /\ bare[k].tags = rules[k].tags /\ bare[k].severity = rules[k].severity
          /\ bare[k].suitable = rules[k].suitable /\ bare[k].checked = rules[k].checked
          /\ bare[k].action = "add-tags"
      BY <3>1, <3>2 DEF RuleFields
    <3> HIDE DEF bare
    <3> QED BY <2>2, <3>3 DEF reviewPolicyRuleMatches
  <2> QED BY <2>1, <2>2
<1> DEFINE same == {k \in 0 .. n : h[k].decision = g[k].decision}
<1>6. 0 \in same
  BY <1>1, <1>3, <1>4 DEF Ruling
<1>7. ASSUME NEW k \in 0 .. n - 1, k \in same PROVE k + 1 \in same
  <2>1. k + 1 \in 1 .. n /\ (k + 1) - 1 = k /\ k + 1 \in 0 .. n
    BY <1>1
  <2> HIDE DEF bare
  <2>2. h[k + 1] = IF reviewPolicyRuleMatches(rules[k + 1], e, source) THEN ApplyRule(rules[k + 1], h[k]) ELSE h[k]
    BY <1>3, <2>1 DEF Ruling
  <2>3. g[k + 1] = IF reviewPolicyRuleMatches(bare[k + 1], e, source) THEN ApplyRule(bare[k + 1], g[k]) ELSE g[k]
    BY <1>2, <1>4, <2>1 DEF Ruling
  <2>4. ApplyRule(rules[k + 1], h[k]).decision = ApplyRule(bare[k + 1], g[k]).decision
    BY <1>5, <1>7, <2>1 DEF ApplyRule
  <2>5. h[k + 1].decision = g[k + 1].decision
    BY <1>5, <1>7, <2>1, <2>2, <2>3, <2>4
  <2> QED BY <2>1, <2>5
<1>8. n \in same
  <2>1. same \in SUBSET (0 .. n)
    OBVIOUS
  <2> HIDE DEF same, n
  <2> QED BY <1>1, <1>6, <1>7, <2>1, UpTo
<1> HIDE DEF bare
<1> QED BY <1>2, <1>3, <1>4, <1>8 DEF Ruling, bare

-----------------------------------------------------------------------------
(***************************************************************************)
(* What is chosen from a review, and how datasets are made.                   *)
(***************************************************************************)
LEMMA SelectIsOfTheChosen ==
  ASSUME NEW entries, IsList(entries), NEW chosen \in SUBSET (DOMAIN entries)
  PROVE  LET r == Select(entries, chosen)
         IN  /\ IsList(r) /\ DOMAIN r = 1 .. Cardinality(chosen)
             /\ \A k \in DOMAIN r : \E i \in chosen : r[k] = entries[i]
             /\ \A i \in chosen : \E k \in DOMAIN r : r[k] = entries[i]
<1> DEFINE place == Ascending(chosen)
           n == Cardinality(chosen)
           r == [k \in DOMAIN place |-> entries[place[k]]]
<1>1. /\ DOMAIN entries = 1 .. Len(entries) /\ Len(entries) \in Nat /\ IsFiniteSet(DOMAIN entries)
  BY ListDomain
<1>2. IsFiniteSet(chosen) /\ n \in Nat /\ chosen \in SUBSET Int
  BY <1>1, FS_Subset, FS_CardinalityType
<1>3. place \in [1 .. n -> chosen] /\ \A i \in chosen : \E k \in 1 .. n : place[k] = i
  BY <1>2, AscendingPlaces
<1> HIDE DEF place, n
<1>4. DOMAIN r = 1 .. n /\ \A k \in 1 .. n : r[k] = entries[place[k]] /\ place[k] \in chosen
  BY <1>3
<1>5. r \in [1 .. n -> ToSet(entries)]
  BY <1>3 DEF ToSet
<1>6. IsList(r)
  <2> HIDE DEF r
  <2>1. r \in Seq(ToSet(entries))
    BY <1>2, <1>5
  <2> QED BY <2>1 DEF IsList
<1>7. Select(entries, chosen) = r
  BY DEF Select, place
<1> HIDE DEF r
<1>8. \A i \in chosen : \E k \in 1 .. n : r[k] = entries[i]
  BY <1>3, <1>4
<1> QED BY <1>4, <1>6, <1>7, <1>8 DEF n

LEMMA NamesAreFinite ==
  ASSUME NEW list, IsList(list)
  PROVE  IsFiniteSet(Names(list))
<1> DEFINE name == [i \in DOMAIN list |-> list[i].name]
<1>1. name \in Surjection(DOMAIN list, Names(list))
  BY DEF Surjection, Names
<1>2. IsFiniteSet(DOMAIN list)
  BY ListDomain
<1> HIDE DEF name
<1> QED BY <1>1, <1>2, FS_Surjection

\* Some of the first numbers have a largest one.
LEMMA LargestOfSome ==
  ASSUME NEW n \in Nat, NEW s \in SUBSET (1 .. n), s # {}
  PROVE  Max(s) \in s
<1> DEFINE HasMax(t) == \E x \in t : \A y \in t : x >= y
           good == {m \in 0 .. n : \A t \in SUBSET (1 .. m) : t # {} => HasMax(t)}
<1>1. 0 \in good
  <2>1. \A t \in SUBSET (1 .. 0) : t = {}
    OBVIOUS
  <2>2. 0 \in 0 .. n
    OBVIOUS
  <2> QED BY <2>1, <2>2
<1>2. ASSUME NEW m \in 0 .. n - 1, m \in good PROVE m + 1 \in good
  <2>1. m + 1 \in 0 .. n
    OBVIOUS
  <2>2. ASSUME NEW t \in SUBSET (1 .. m + 1), t # {} PROVE HasMax(t)
    <3>1. CASE m + 1 \in t
      <4>1. \A y \in t : m + 1 >= y
        OBVIOUS
      <4> QED BY <3>1, <4>1
    <3>2. CASE m + 1 \notin t
      <4>1. t \in SUBSET (1 .. m)
        BY <3>2
      <4> QED BY <1>2, <2>2, <4>1
    <3> QED BY <3>1, <3>2
  <2> QED BY <2>1, <2>2
<1>3. n \in good
  <2>1. good \in SUBSET (0 .. n)
    OBVIOUS
  <2> HIDE DEF good
  <2> QED BY <1>1, <1>2, <2>1, UpTo
<1>4. HasMax(s)
  BY <1>3
<1> QED BY <1>4 DEF Max

\* Other tags or metadata leave a scenario one, of the same name.
LEMMA OtherTags ==
  ASSUME NEW s, IsScenario(s), NEW x
  PROVE  /\ IsScenario([s EXCEPT !.tags = x]) /\ [s EXCEPT !.tags = x].name = s.name
         /\ IsScenario([s EXCEPT !.meta = x]) /\ [s EXCEPT !.meta = x].name = s.name
         /\ [[s EXCEPT !.meta = x] EXCEPT !.meta = s.meta] = s
<1>1. /\ s.name \in Int
      /\ s = [name |-> s.name, body |-> s.body, rest |-> s.rest, checks |-> s.checks, marks |-> s.marks,
              tags |-> s.tags, meta |-> s.meta]
  BY DEF IsScenario
<1>2. PICK a, b, c, d, e, t, m :
        /\ a \in Int
        /\ s = [name |-> a, body |-> b, rest |-> c, checks |-> d, marks |-> e, tags |-> t, meta |-> m]
  BY <1>1
<1>3. [s EXCEPT !.tags = x] = [name |-> a, body |-> b, rest |-> c, checks |-> d, marks |-> e, tags |-> x, meta |-> m]
  BY <1>2
<1>4. [s EXCEPT !.meta = x] = [name |-> a, body |-> b, rest |-> c, checks |-> d, marks |-> e, tags |-> t, meta |-> x]
  BY <1>2
<1>5. [[s EXCEPT !.meta = x] EXCEPT !.meta = s.meta] = s
  BY <1>2, <1>4
<1>6. IsScenario([s EXCEPT !.tags = x]) /\ [s EXCEPT !.tags = x].name = s.name
  BY <1>2, <1>3 DEF IsScenario
<1>7. IsScenario([s EXCEPT !.meta = x]) /\ [s EXCEPT !.meta = x].name = s.name
  BY <1>2, <1>4 DEF IsScenario
<1> QED BY <1>5, <1>6, <1>7

EntryOK(d) ==
  d = [scenario |-> d.scenario, severity |-> d.severity] /\ IsScenario(d.scenario) /\ d.severity \in Int

LEMMA ExportIsDataset ==
  ASSUME NEW base, Distinct(base), \A i \in DOMAIN base : IsScenario(base[i]),
         NEW failures, IsList(failures), \A i \in DOMAIN failures : failures[i].severity \in Int,
         NEW includeAll
  PROVE  LET entries == ExportScenarioDataset(base, failures, includeAll)
         IN  IsList(entries) /\ \A i \in DOMAIN entries : EntryOK(entries[i])
<1> DEFINE failed == {i \in DOMAIN failures : FailedName(failures[i]) \in Names(base)}
           names == IF includeAll THEN Names(base) ELSE {FailedName(failures[i]) : i \in failed}
           own(n) == {i \in failed : FailedName(failures[i]) = n}
           E(n) == LET s == base[Position(base, n)]
                   IN  IF own(n) = {} THEN [scenario |-> s, severity |-> 0]
                       ELSE [scenario |-> [s EXCEPT !.tags = @ \cup {"regression"}],
                             severity |-> failures[Max(own(n))].severity]
           sorted == Ascending(names)
           entries == [i \in DOMAIN sorted |-> E(sorted[i])]
<1>1. ExportScenarioDataset(base, failures, includeAll) = entries
  BY DEF ExportScenarioDataset
<1>2. names \subseteq Names(base)
  OBVIOUS
<1>3. names \in SUBSET Int /\ IsFiniteSet(names) /\ Cardinality(names) \in Nat
  <2>1. Names(base) \subseteq Int
    BY DEF Names, IsScenario
  <2>2. IsFiniteSet(Names(base))
    BY NamesAreFinite DEF Distinct
  <2> HIDE DEF names
  <2> QED BY <1>2, <2>1, <2>2, FS_Subset, FS_CardinalityType
<1>4. ASSUME NEW n \in names PROVE EntryOK(E(n))
  <2>1. PICK i \in DOMAIN base : base[i].name = n
    BY <1>2 DEF Names
  <2>2. Position(base, n) = i
    BY <2>1, PositionOf
  <2> DEFINE s == base[i]
  <2>3. IsScenario(s)
    BY <2>1
  <2>4. IsScenario([s EXCEPT !.tags = @ \cup {"regression"}])
    <3> HIDE DEF s
    <3> QED BY <2>3, OtherTags
  <2>5. own(n) # {} => failures[Max(own(n))].severity \in Int
    <3>1. DOMAIN failures = 1 .. Len(failures) /\ Len(failures) \in Nat
      BY ListDomain
    <3>2. own(n) \in SUBSET (1 .. Len(failures))
      BY <3>1
    <3>3. own(n) \subseteq DOMAIN failures
      OBVIOUS
    <3> HIDE DEF own
    <3>4. own(n) # {} => Max(own(n)) \in own(n)
      BY <3>1, <3>2, LargestOfSome
    <3> QED BY <3>3, <3>4
  <2> HIDE DEF own
  <2>6. PICK t, v : E(n) = [scenario |-> t, severity |-> v] /\ IsScenario(t) /\ v \in Int
    <3> HIDE DEF s
    <3>1. E(n) = IF own(n) = {} THEN [scenario |-> s, severity |-> 0]
                 ELSE [scenario |-> [s EXCEPT !.tags = @ \cup {"regression"}],
                       severity |-> failures[Max(own(n))].severity]
      BY <2>2 DEF s
    <3>2. CASE own(n) = {}
      <4>1. E(n) = [scenario |-> s, severity |-> 0]
        BY <3>1, <3>2
      <4> QED BY <2>3, <4>1
    <3>3. CASE own(n) # {}
      <4> DEFINE v == failures[Max(own(n))].severity
      <4>1. E(n) = [scenario |-> [s EXCEPT !.tags = @ \cup {"regression"}], severity |-> v]
        BY <3>1, <3>3
      <4>2. v \in Int
        BY <2>5, <3>3
      <4> HIDE DEF v, E
      <4> QED BY <2>4, <4>1, <4>2
    <3> QED BY <3>2, <3>3
  <2> HIDE DEF E
  <2> QED BY <2>6 DEF EntryOK
<1> HIDE DEF names
<1>5. sorted \in [1 .. Cardinality(names) -> names]
  BY <1>3, AscendingPlaces
<1> HIDE DEF sorted, E
<1>6. \A i \in DOMAIN entries : EntryOK(entries[i])
  BY <1>4, <1>5
<1>7. entries \in [1 .. Cardinality(names) -> {E(n) : n \in names}]
  BY <1>5
<1>8. IsList(entries)
  <2> HIDE DEF entries
  <2>1. entries \in Seq({E(n) : n \in names})
    BY <1>3, <1>7
  <2> QED BY <2>1 DEF IsList
<1> QED BY <1>1, <1>6, <1>8

\* The scenarios a reply is made into, one by one.
Cut(reply, count) == SubSeq(reply, 1, Min({count, Len(reply)}))

\* What a scenario of the reply adds, and to what.
Decode(acc, s, i, adversarial) ==
  IF s.body = 0 THEN acc
  ELSE LET t == normalizeScenario(s, i, acc.used, adversarial)
       IN  [used |-> acc.used \cup {t.name}, out |-> Append(acc.out, t)]

Decoding(h, cut, reply, base, count, adversarial) ==
  /\ h[0] = [used |-> NamesTaken(base), out |-> <<>>]
  /\ h[Len(cut)].out = decodeGeneratedScenarios(reply, base, count, adversarial)
  /\ \A k \in 1 .. Len(cut) : h[k] = Decode(h[k - 1], cut[k], k, adversarial)

LEMMA DecodeSteps ==
  ASSUME NEW reply, NEW given, NEW count, NEW adversarial, IsList(Cut(reply, count))
  PROVE  \E h : Decoding(h, Cut(reply, count), reply, given, count, adversarial)
<1> DEFINE cut == Cut(reply, count)
<1> DEFINE n == Len(cut)
           base == [used |-> NamesTaken(given), out |-> <<>>]
           Take(acc, i) == Decode(acc, cut[i], i, adversarial)
           Step(acc, i) == Take(acc, [j \in DOMAIN cut |-> j][i])
           IsFold(g, m) == g = [s \in SUBSET (1 .. m) |-> IF s = {} THEN base ELSE Step(g[s \ {Max(s)}], Max(s))]
           fold == CHOOSE g : IsFold(g, n)
<1>1. n \in Nat /\ DOMAIN cut = 1 .. n
  BY ListDomain
<1>2. decodeGeneratedScenarios(reply, given, count, adversarial) = fold[1 .. n].out
  BY <1>1 DEF decodeGeneratedScenarios, FoldLeftDomain, FoldLeft, MapThenFoldSet, Decode, Cut
<1> HIDE DEF n, base, Take, Step
<1>3. \E g : IsFold(g, 0)
  <2>1. SUBSET (1 .. 0) = {{}}
    OBVIOUS
  <2> DEFINE g == [s \in SUBSET (1 .. 0) |-> base]
  <2>2. g = [s \in SUBSET (1 .. 0) |-> IF s = {} THEN base ELSE Step(g[s \ {Max(s)}], Max(s))]
    <3>1. \A s \in SUBSET (1 .. 0) : s = {}
      BY <2>1
    <3> QED BY <3>1
  <2> QED BY <2>2
<1>4. ASSUME NEW m \in Nat, NEW g, IsFold(g, m)
      PROVE  \E x : IsFold(x, m + 1)
  <2> DEFINE x == [s \in SUBSET (1 .. m + 1) |->
                     IF m + 1 \in s THEN Step(g[s \ {m + 1}], m + 1) ELSE g[s]]
  <2>1. ASSUME NEW s \in SUBSET (1 .. m + 1)
        PROVE  x[s] = IF s = {} THEN base ELSE Step(x[s \ {Max(s)}], Max(s))
    <3>1. CASE m + 1 \in s
      <4>1. Max(s) = m + 1 /\ s \ {m + 1} \in SUBSET (1 .. m) /\ s # {}
        BY <3>1, Largest
      <4>2. x[s \ {m + 1}] = g[s \ {m + 1}]
        BY <4>1
      <4> QED BY <3>1, <4>1, <4>2
    <3>2. CASE m + 1 \notin s
      <4>1. s \in SUBSET (1 .. m) /\ x[s] = g[s]
        BY <3>2
      <4>2. g[s] = IF s = {} THEN base ELSE Step(g[s \ {Max(s)}], Max(s))
        BY <1>4, <4>1
      <4>3. s \ {Max(s)} \in SUBSET (1 .. m + 1) /\ m + 1 \notin s \ {Max(s)}
        BY <3>2
      <4>4. x[s \ {Max(s)}] = g[s \ {Max(s)}]
        BY <4>3
      <4> QED BY <4>1, <4>2, <4>4
    <3> QED BY <3>1, <3>2
  <2>2. x = [s \in SUBSET (1 .. m + 1) |-> x[s]]
    OBVIOUS
  <2>3. IsFold(x, m + 1)
    <3> HIDE DEF x
    <3> QED BY <2>1, <2>2
  <2> QED BY <2>3
<1>5. \E g : IsFold(g, n)
  <2> DEFINE good == {m \in 0 .. n : \E g : IsFold(g, m)}
  <2>1. 0 \in good /\ \A k \in 0 .. n - 1 : k \in good => k + 1 \in good
    <3>1. 0 \in 0 .. n /\ \A k \in 0 .. n - 1 : k \in Nat /\ k + 1 \in 0 .. n
      BY <1>1
    <3> HIDE DEF IsFold
    <3> QED BY <1>3, <1>4, <3>1
  <2>2. n \in good
    <3> HIDE DEF good
    <3>1. good \in SUBSET (0 .. n)
      BY DEF good
    <3> QED BY <1>1, <2>1, <3>1, UpTo
  <2> QED BY <2>2
<1>6. IsFold(fold, n)
  <2> HIDE DEF IsFold
  <2> QED BY <1>5
<1> DEFINE h == [k \in 0 .. n |-> fold[1 .. k]]
<1>7. fold[1 .. 0] = base
  <2>1. 1 .. 0 = {} /\ 1 .. 0 \in SUBSET (1 .. n)
    OBVIOUS
  <2> HIDE DEF fold
  <2> QED BY <1>6, <2>1
<1>8. ASSUME NEW k \in 1 .. n PROVE h[k] = Step(h[k - 1], k)
  <2>1. k \in Nat \ {0} /\ k - 1 \in 0 .. n /\ k \in 0 .. n /\ 1 .. k \in SUBSET (1 .. n)
    BY <1>1
  <2>2. Max(1 .. k) = k /\ (1 .. k) \ {k} = 1 .. k - 1 /\ 1 .. k # {}
    BY <2>1, LastOfPrefix
  <2> HIDE DEF fold
  <2>3. fold[1 .. k] = Step(fold[1 .. k - 1], k)
    BY <1>6, <2>1, <2>2
  <2> QED BY <2>1, <2>3
<1>9. h[0] = base /\ h[n] = fold[1 .. n]
  BY <1>1, <1>7
<1>10. /\ h[0] = base /\ h[n].out = decodeGeneratedScenarios(reply, given, count, adversarial)
       /\ \A k \in 1 .. n : h[k] = Take(h[k - 1], k)
  <2> HIDE DEF h, fold
  <2> QED BY <1>1, <1>2, <1>8, <1>9 DEF Step
<1> QED
  <2> HIDE DEF h, fold
  <2> QED BY <1>10 DEF n, base, Take, Decoding

\* The suffixes -2, -3, ... are enough to find a name that is not taken.
LEMMA FreshName ==
  ASSUME NEW used, IsFiniteSet(used), NEW b \in Nat \ {0}
  PROVE  ensureUniqueName(b, used) \in Nat \ {0} /\ ensureUniqueName(b, used) \notin used
<1> DEFINE c == Cardinality(used)
           Free(i) == Suffixed(b, i) \notin used /\ \A j \in 2 .. i - 1 : Suffixed(b, j) \in used
<1>1. c \in Nat
  BY FS_CardinalityType
<1>2. /\ \A i \in Nat : Suffixed(b, i) \in Nat \ {0}
      /\ \A i, j \in Nat : Suffixed(b, i) = Suffixed(b, j) => i = j
  <2>1. CASE b % 100 = 0
    <3>1. \A i \in Nat : Suffixed(b, i) = b + i * 10
      BY <2>1 DEF Suffixed
    <3> QED BY <3>1
  <2>2. CASE b % 100 # 0
    <3>1. \A i \in Nat : Suffixed(b, i) = b + i
      BY <2>2 DEF Suffixed
    <3> QED BY <3>1
  <2> QED BY <2>1, <2>2
<1>3. \E i \in 2 .. c + 2 : Free(i)
  <2> SUFFICES ASSUME \A i \in 2 .. c + 2 : ~Free(i) PROVE FALSE
    OBVIOUS
  <2> DEFINE good == {k \in 0 .. c + 1 : \A j \in 2 .. k + 1 : Suffixed(b, j) \in used}
  <2>1. 0 \in good
    BY <1>1
  <2>2. ASSUME NEW k \in 0 .. (c + 1) - 1, k \in good PROVE k + 1 \in good
    <3>1. k + 2 \in 2 .. c + 2 /\ (k + 2) - 1 = k + 1 /\ k + 1 \in 0 .. c + 1 /\ (k + 1) + 1 = k + 2
      BY <1>1
    <3>2. Suffixed(b, k + 2) \in used
      BY <2>2, <3>1
    <3>3. \A j \in 2 .. k + 2 : j \in 2 .. k + 1 \/ j = k + 2
      BY <1>1
    <3>4. \A j \in 2 .. k + 2 : Suffixed(b, j) \in used
      BY <2>2, <3>2, <3>3
    <3> QED BY <3>1, <3>4
  <2>3. c + 1 \in good
    <3>1. good \in SUBSET (0 .. c + 1) /\ c + 1 \in Nat
      BY <1>1
    <3> HIDE DEF good, c
    <3> QED BY <2>1, <2>2, <3>1, UpTo
  <2> DEFINE S == 2 .. c + 2
             suffix == [j \in S |-> Suffixed(b, j)]
  <2>4. IsFiniteSet(S) /\ Cardinality(S) = c + 1
    <3>1. Cardinality(2 .. c + 2) = IF 2 > c + 2 THEN 0 ELSE (c + 2) - 2 + 1
      BY <1>1, FS_Interval
    <3>2. IsFiniteSet(2 .. c + 2)
      BY <1>1, FS_Interval
    <3> QED BY <1>1, <3>1, <3>2
  <2>5. suffix \in [S -> used]
    <3>1. (c + 1) + 1 = c + 2
      BY <1>1
    <3> QED BY <2>3, <3>1
  <2>6. c < Cardinality(S)
    BY <1>1, <2>4
  <2>7. \A x, y \in S : suffix[x] = suffix[y] => x = y
    BY <1>1, <1>2
  <2> HIDE DEF S, suffix
  <2>8. \E x, y \in S : x # y /\ suffix[x] = suffix[y]
    BY <2>4, <2>5, <2>6, FS_PigeonHole
  <2> QED BY <2>7, <2>8
<1> DEFINE pick == CHOOSE i \in 2 .. c + 2 : Free(i)
<1>4. pick \in 2 .. c + 2 /\ Free(pick)
  <2> HIDE DEF Free
  <2> QED BY <1>3
<1>5. ensureUniqueName(b, used) = IF b \notin used THEN b ELSE Suffixed(b, pick)
  BY DEF ensureUniqueName
<1>6. pick \in Nat
  BY <1>1, <1>4
<1> HIDE DEF pick
<1> QED BY <1>2, <1>4, <1>5, <1>6

LEMMA NormalizedScenario ==
  ASSUME NEW s, IsScenario(s), NEW ordinal \in Nat, NEW used, IsFiniteSet(used), NEW adversarial
  PROVE  LET t == normalizeScenario(s, ordinal, used, adversarial)
         IN  IsScenario(t) /\ t.name \in Nat \ {0} /\ t.name \notin used
<1> DEFINE name == sanitizeScenarioName(s.name)
           b == IF name = 0 THEN NamedAfter(ordinal) ELSE name
           u == ensureUniqueName(b, used)
           t == normalizeScenario(s, ordinal, used, adversarial)
<1>1. b \in Nat \ {0}
  BY DEF IsScenario, sanitizeScenarioName, NamedAfter
<1>2. u \in Nat \ {0} /\ u \notin used
  <2> HIDE DEF b
  <2> QED BY <1>1, FreshName
<1> HIDE DEF u
<1>3. t = [s EXCEPT !.name = u,
                    !.tags = @ \cup {"generated"} \cup (IF adversarial THEN {"adversarial"} ELSE {}),
                    !.meta = IF adversarial THEN @ \cup {"mode"} ELSE @]
  BY DEF normalizeScenario, u
<1>4. PICK x, y : t = [s EXCEPT !.name = u, !.tags = x, !.meta = y]
  BY <1>3
<1>5. PICK n, bo, r, c, m, ta, me :
        s = [name |-> n, body |-> bo, rest |-> r, checks |-> c, marks |-> m, tags |-> ta, meta |-> me]
  BY DEF IsScenario
<1>6. t = [name |-> u, body |-> bo, rest |-> r, checks |-> c, marks |-> m, tags |-> x, meta |-> y]
  BY <1>4, <1>5
<1> HIDE DEF t
<1>7. IsScenario(t) /\ t.name = u
  BY <1>2, <1>6 DEF IsScenario
<1> QED BY <1>2, <1>7 DEF t

\* What a reply is made into: scenarios under names the configuration has not.
LEMMA DecodedIsNew ==
  ASSUME NEW reply, IsList(reply), \A i \in DOMAIN reply : IsScenario(reply[i]),
         NEW base, IsList(base), Names(base) \subseteq Int, NEW count \in Int, NEW adversarial
  PROVE  LET made == decodeGeneratedScenarios(reply, base, count, adversarial)
         IN  IsList(made) /\ \A i \in DOMAIN made : IsScenario(made[i]) /\ made[i].name \notin Names(base)
<1> DEFINE cut == Cut(reply, count)
           n == Len(cut)
<1>1. IsList(cut) /\ n \in Nat /\ DOMAIN cut = 1 .. n /\ \A i \in 1 .. n : IsScenario(cut[i])
  <2>1. reply \in Seq(ToSet(reply)) /\ Len(reply) \in Nat /\ DOMAIN reply = 1 .. Len(reply)
    BY ListDomain
  <2>2. Min({count, Len(reply)}) \in Int /\ Min({count, Len(reply)}) <= Len(reply)
    <3>1. \E x \in {count, Len(reply)} : \A y \in {count, Len(reply)} : x <= y
      BY <2>1
    <3>2. Min({count, Len(reply)}) \in {count, Len(reply)} /\ \A y \in {count, Len(reply)} : Min({count, Len(reply)}) <= y
      BY <3>1 DEF Min
    <3> QED BY <2>1, <3>2
  <2>3. PICK m \in Int : m <= Len(reply) /\ cut = SubSeq(reply, 1, m)
    BY <2>2 DEF Cut
  <2>4. cut \in Seq(ToSet(reply))
    BY <2>1, <2>3
  <2>5. \A s \in ToSet(reply) : IsScenario(s)
    BY DEF ToSet
  <2> HIDE DEF cut
  <2> QED BY <2>4, <2>5 DEF IsList
<1> HIDE DEF cut
<1>2. PICK h : Decoding(h, cut, reply, base, count, adversarial)
  BY <1>1, DecodeSteps DEF cut
<1> DEFINE Good(k) ==
      /\ IsFiniteSet(h[k].used) /\ NamesTaken(base) \subseteq h[k].used
      /\ IsList(h[k].out)
      /\ \A i \in DOMAIN h[k].out :
           /\ IsScenario(h[k].out[i]) /\ h[k].out[i].name \in Nat \ {0}
           /\ h[k].out[i].name \notin NamesTaken(base)
<1>3. Good(0)
  <2>1. h[0] = [used |-> NamesTaken(base), out |-> <<>>]
    BY <1>2 DEF Decoding
  <2>2. IsFiniteSet(NamesTaken(base))
    <3> DEFINE clean == [x \in Names(base) |-> sanitizeScenarioName(x)]
               all == {sanitizeScenarioName(x) : x \in Names(base)}
    <3>1. clean \in Surjection(Names(base), all)
      BY DEF Surjection
    <3>2. IsFiniteSet(Names(base))
      BY NamesAreFinite
    <3> HIDE DEF clean
    <3>3. IsFiniteSet(all)
      <4> HIDE DEF all
      <4> QED BY <3>1, <3>2, FS_Surjection
    <3>4. NamesTaken(base) \subseteq all
      BY DEF NamesTaken
    <3> HIDE DEF all
    <3> QED BY <3>3, <3>4, FS_Subset
  <2>3. IsList(<<>>) /\ DOMAIN <<>> = {}
    <3>1. <<>> \in Seq({})
      OBVIOUS
    <3> QED BY <3>1 DEF IsList
  <2> QED BY <2>1, <2>2, <2>3
<1>4. ASSUME NEW k \in 0 .. n - 1, Good(k) PROVE Good(k + 1)
  <2>1. k + 1 \in 1 .. n /\ (k + 1) - 1 = k /\ k + 1 \in Nat
    BY <1>1
  <2>2. h[k + 1] = Decode(h[k], cut[k + 1], k + 1, adversarial)
    BY <1>2, <2>1 DEF Decoding
  <2>3. CASE cut[k + 1].body = 0
    BY <1>4, <2>2, <2>3 DEF Decode
  <2>4. CASE cut[k + 1].body # 0
    <3> DEFINE t == normalizeScenario(cut[k + 1], k + 1, h[k].used, adversarial)
               o == h[k].out
    <3>1. h[k + 1] = [used |-> h[k].used \cup {t.name}, out |-> Append(o, t)]
      BY <2>2, <2>4 DEF Decode
    <3>2. IsScenario(t) /\ t.name \in Nat \ {0} /\ t.name \notin h[k].used
      BY <1>1, <1>4, <2>1, NormalizedScenario
    <3>3. IsList(o) /\ o \in Seq(ToSet(o)) /\ DOMAIN o = 1 .. Len(o) /\ Len(o) \in Nat
      BY <1>4, ListDomain
    <3> HIDE DEF t, o
    <3>4. /\ Append(o, t) \in Seq(ToSet(o) \cup {t}) /\ DOMAIN Append(o, t) = 1 .. Len(o) + 1
          /\ \A i \in 1 .. Len(o) : Append(o, t)[i] = o[i]
          /\ Append(o, t)[Len(o) + 1] = t
      <4>1. o \in Seq(ToSet(o) \cup {t})
        BY <3>3
      <4> QED BY <3>3, <4>1
    <3>5. IsList(Append(o, t))
      BY <3>4 DEF IsList
    <3>6. \A i \in DOMAIN Append(o, t) : i \in DOMAIN o \/ Append(o, t)[i] = t
      BY <3>3, <3>4
    <3>7. t.name \notin NamesTaken(base)
      BY <1>4, <3>2
    <3>8. IsFiniteSet(h[k].used \cup {t.name})
      BY <1>4, FS_AddElement
    <3>9. \A i \in DOMAIN Append(o, t) :
            /\ IsScenario(Append(o, t)[i]) /\ Append(o, t)[i].name \in Nat \ {0}
            /\ Append(o, t)[i].name \notin NamesTaken(base)
      BY <1>4, <3>2, <3>3, <3>4, <3>6, <3>7 DEF o
    <3> QED BY <1>4, <3>1, <3>5, <3>8, <3>9
  <2> QED BY <2>3, <2>4
<1>5. Good(n)
  <2> DEFINE good == {k \in 0 .. n : Good(k)}
  <2> HIDE DEF Good, n
  <2>1. 0 \in good /\ \A k \in 0 .. n - 1 : k \in good => k + 1 \in good
    <3>1. 0 \in 0 .. n /\ \A k \in 0 .. n - 1 : k + 1 \in 0 .. n
      BY <1>1
    <3> QED BY <1>3, <1>4, <3>1
  <2>2. good \in SUBSET (0 .. n)
    OBVIOUS
  <2>3. n \in good
    <3> HIDE DEF good
    <3> QED BY <1>1, <2>1, <2>2, UpTo
  <2> QED BY <2>3
<1>6. \A x \in Nat \ {0} : x \in Names(base) => x \in NamesTaken(base)
  BY DEF NamesTaken, sanitizeScenarioName
<1>7. h[n].out = decodeGeneratedScenarios(reply, base, count, adversarial)
  BY <1>2 DEF Decoding
<1> HIDE DEF n
<1> QED BY <1>5, <1>6, <1>7

-----------------------------------------------------------------------------
(***************************************************************************)
(* The entries of a review: what policy, options and the reader change of     *)
(* them is never what they are ranked by.                                       *)
(***************************************************************************)
EntryShape(e) ==
  /\ e = [id |-> e.id, scenario |-> e.scenario, severity |-> e.severity, status |-> e.status,
          analysis |-> e.analysis, decision |-> e.decision]
  /\ IsScenario(e.scenario)

SameRank(e, d) ==
  /\ d.id = e.id /\ d.analysis = e.analysis /\ d.severity = e.severity /\ d.status = e.status
  /\ d.scenario.name = e.scenario.name

Reviewed(entries, data) ==
  /\ Rankable(entries) /\ Sorted(entries)
  /\ \A i \in DOMAIN entries :
       EntryShape(entries[i]) /\ entries[i].scenario.name \in Names(Scenarios(data))

LEMMA ChangedEntry ==
  ASSUME NEW e, EntryShape(e), NEW word
  PROVE  /\ EntryShape(Decided(e, word)) /\ SameRank(e, Decided(e, word))
         /\ EntryShape(Edited(e, word)) /\ SameRank(e, Edited(e, word))
<1>1. PICK i, s, v, st, a, d :
        /\ IsScenario(s)
        /\ e = [id |-> i, scenario |-> s, severity |-> v, status |-> st, analysis |-> a, decision |-> d]
  BY DEF EntryShape
<1>2. ASSUME NEW t, IsScenario(t), t.name = s.name, NEW dd,
             NEW x, x = [id |-> i, scenario |-> t, severity |-> v, status |-> st, analysis |-> a, decision |-> dd]
      PROVE  EntryShape(x) /\ SameRank(e, x)
  BY <1>1, <1>2 DEF EntryShape, SameRank
<1>3. EntryShape(Decided(e, word)) /\ SameRank(e, Decided(e, word))
  <2>1. \/ \E dd : Decided(e, word) = [e EXCEPT !.decision = dd]
        \/ \E tag : Decided(e, word) = [e EXCEPT !.decision = "approved", !.scenario.tags = @ \cup {tag}]
    BY DEF Decided
  <2>2. CASE \E dd : Decided(e, word) = [e EXCEPT !.decision = dd]
    <3>1. PICK dd : Decided(e, word) = [e EXCEPT !.decision = dd]
      BY <2>2
    <3>2. Decided(e, word) = [id |-> i, scenario |-> s, severity |-> v, status |-> st, analysis |-> a, decision |-> dd]
      BY <1>1, <3>1
    <3> QED BY <1>1, <1>2, <3>2
  <2>3. CASE \E tag : Decided(e, word) = [e EXCEPT !.decision = "approved", !.scenario.tags = @ \cup {tag}]
    <3>1. PICK tag : Decided(e, word) = [e EXCEPT !.decision = "approved", !.scenario.tags = @ \cup {tag}]
      BY <2>3
    <3>2. Decided(e, word) = [id |-> i, scenario |-> [s EXCEPT !.tags = @ \cup {tag}], severity |-> v, status |-> st,
                              analysis |-> a, decision |-> "approved"]
      BY <1>1, <3>1
    <3>3. IsScenario([s EXCEPT !.tags = @ \cup {tag}]) /\ [s EXCEPT !.tags = @ \cup {tag}].name = s.name
      BY <1>1, OtherTags
    <3> QED BY <1>2, <3>2, <3>3
  <2> QED BY <2>1, <2>2, <2>3
<1>4. EntryShape(Edited(e, word)) /\ SameRank(e, Edited(e, word))
  <2>1. \/ \E tags : Edited(e, word) = [e EXCEPT !.scenario.tags = tags]
        \/ \E meta : Edited(e, word) = [e EXCEPT !.scenario.meta = meta]
    BY DEF Edited
  <2>2. CASE \E tags : Edited(e, word) = [e EXCEPT !.scenario.tags = tags]
    <3>1. PICK tags : Edited(e, word) = [e EXCEPT !.scenario.tags = tags]
      BY <2>2
    <3>2. Edited(e, word) = [id |-> i, scenario |-> [s EXCEPT !.tags = tags], severity |-> v, status |-> st,
                             analysis |-> a, decision |-> d]
      BY <1>1, <3>1
    <3>3. IsScenario([s EXCEPT !.tags = tags]) /\ [s EXCEPT !.tags = tags].name = s.name
      BY <1>1, OtherTags
    <3> QED BY <1>2, <3>2, <3>3
  <2>3. CASE \E meta : Edited(e, word) = [e EXCEPT !.scenario.meta = meta]
    <3>1. PICK meta : Edited(e, word) = [e EXCEPT !.scenario.meta = meta]
      BY <2>3
    <3>2. Edited(e, word) = [id |-> i, scenario |-> [s EXCEPT !.meta = meta], severity |-> v, status |-> st,
                             analysis |-> a, decision |-> d]
      BY <1>1, <3>1
    <3>3. IsScenario([s EXCEPT !.meta = meta]) /\ [s EXCEPT !.meta = meta].name = s.name
      BY <1>1, OtherTags
    <3> QED BY <1>2, <3>2, <3>3
  <2> QED BY <2>1, <2>2, <2>3
<1> QED BY <1>3, <1>4

Ids(entries, m) == {entries[i].id : i \in 1 .. m}

LEMMA ReplacedEntry ==
  ASSUME NEW entries, NEW data, Reviewed(entries, data), NEW at0 \in DOMAIN entries,
         NEW d, EntryShape(d), SameRank(entries[at0], d)
  PROVE  LET r == [entries EXCEPT ![at0] = d]
         IN  /\ Reviewed(r, data) /\ DOMAIN r = DOMAIN entries /\ Len(r) = Len(entries)
             /\ \A m \in 0 .. Len(entries) : Ids(r, m) = Ids(entries, m)
<1> DEFINE r == [entries EXCEPT ![at0] = d]
<1>1. /\ Len(entries) \in Nat /\ DOMAIN entries = 1 .. Len(entries) /\ entries \in Seq(ToSet(entries))
  BY ListDomain DEF Reviewed, Rankable
<1>2. DOMAIN r = DOMAIN entries /\ \A i \in DOMAIN entries : r[i] = IF i = at0 THEN d ELSE entries[i]
  OBVIOUS
<1>3. r \in Seq(ToSet(entries) \cup {d}) /\ Len(r) = Len(entries)
  <2>1. entries \in Seq(ToSet(entries) \cup {d})
    BY <1>1
  <2> QED BY <1>1, <2>1
<1> HIDE DEF r
<1>4. \A i \in DOMAIN entries : SameRank(entries[i], r[i])
  BY <1>2 DEF SameRank
<1>5. \A i \in DOMAIN entries : EntryShape(r[i])
  BY <1>2 DEF Reviewed
<1>6. Rankable(r)
  BY <1>2, <1>3, <1>4 DEF Reviewed, Rankable, SameRank, IsList
<1>7. \A i, j \in DOMAIN entries : RanksAbove(r[i], r[j]) <=> RanksAbove(entries[i], entries[j])
  BY <1>4 DEF SameRank, RanksAbove
<1>8. Sorted(r)
  BY <1>2, <1>7 DEF Sorted, Reviewed
<1>9. \A i \in DOMAIN entries : r[i].scenario.name \in Names(Scenarios(data))
  BY <1>4 DEF Reviewed, SameRank
<1>10. Reviewed(r, data)
  BY <1>2, <1>5, <1>6, <1>8, <1>9 DEF Reviewed
<1>11. ASSUME NEW m \in 0 .. Len(entries) PROVE Ids(r, m) = Ids(entries, m)
  <2>1. \A i \in 1 .. m : r[i].id = entries[i].id
    BY <1>1, <1>4 DEF SameRank
  <2> QED BY <2>1 DEF Ids
<1> QED BY <1>2, <1>3, <1>10, <1>11 DEF r

-----------------------------------------------------------------------------
(***************************************************************************)
(* The review as it is made.                                                  *)
(***************************************************************************)
LEMMA RulesKeepTheName ==
  ASSUME NEW item, IsScenario(item.scenario), NEW e, NEW rules, IsList(rules), NEW source
  PROVE  LET s == applyPolicyRules(item, e, rules, source).scenario
         IN  IsScenario(s) /\ s.name = item.scenario.name
<1> DEFINE n == Len(rules)
<1>1. n \in Nat
  BY ListDomain
<1>2. PICK h : Ruling(h, item, e, rules, source)
  BY RuleSteps
<1> DEFINE Good(k) == IsScenario(h[k].scenario) /\ h[k].scenario.name = item.scenario.name
<1>3. Good(0)
  BY <1>2 DEF Ruling
<1>4. ASSUME NEW k \in 0 .. n - 1, Good(k) PROVE Good(k + 1)
  <2>1. k + 1 \in 1 .. n /\ (k + 1) - 1 = k
    BY <1>1
  <2>2. h[k + 1] = IF reviewPolicyRuleMatches(rules[k + 1], e, source) THEN ApplyRule(rules[k + 1], h[k]) ELSE h[k]
    BY <1>2, <2>1 DEF Ruling
  <2> DEFINE s == h[k].scenario
  <2>3. PICK tags, meta : ApplyRule(rules[k + 1], h[k]).scenario = [s EXCEPT !.tags = tags, !.meta = meta]
    BY DEF ApplyRule
  <2>4. IsScenario([s EXCEPT !.tags = tags]) /\ [s EXCEPT !.tags = tags].name = s.name
    BY <1>4, OtherTags
  <2>5. [s EXCEPT !.tags = tags, !.meta = meta] = [[s EXCEPT !.tags = tags] EXCEPT !.meta = meta]
    OBVIOUS
  <2> DEFINE t == [s EXCEPT !.tags = tags]
  <2>6. IsScenario([t EXCEPT !.meta = meta]) /\ [t EXCEPT !.meta = meta].name = t.name
    <3> HIDE DEF t
    <3> QED BY <2>4, OtherTags DEF t
  <2> HIDE DEF s
  <2> QED BY <1>4, <2>2, <2>3, <2>4, <2>5, <2>6 DEF s
<1>5. Good(n)
  <2> DEFINE good == {k \in 0 .. n : Good(k)}
  <2> HIDE DEF Good, n
  <2>1. 0 \in good /\ \A k \in 0 .. n - 1 : k \in good => k + 1 \in good
    <3>1. 0 \in 0 .. n /\ \A k \in 0 .. n - 1 : k + 1 \in 0 .. n
      BY <1>1
    <3> QED BY <1>3, <1>4, <3>1
  <2>2. good \in SUBSET (0 .. n)
    OBVIOUS
  <2>3. n \in good
    <3> HIDE DEF good
    <3> QED BY <1>1, <2>1, <2>2, UpTo
  <2> QED BY <2>3
<1> QED BY <1>2, <1>5 DEF Ruling

LEMMA UsefulIsNumber ==
  ASSUME NEW item, item.severity \in Int, NEW status
  PROVE  buildReviewAnalysis(item, status).useful \in Int
<1>1. stableSuitability(item, status) \in Int
  <2>1. PICK a \in {8, 0}, b \in {6, 0}, c \in {6, 0}, d \in {4, 0}, f \in {4, 0} :
          stableSuitability(item, status) = a + b - c + d - f
    BY DEF stableSuitability
  <2> QED BY <2>1
<1>2. reviewNoveltyScore(status) \in Int /\ reviewDuplicatePenalty(status) \in Int
  BY DEF reviewNoveltyScore, reviewDuplicatePenalty
<1>3. buildReviewAnalysis(item, status).useful =
        item.severity + reviewNoveltyScore(status) + stableSuitability(item, status) - reviewDuplicatePenalty(status)
  BY DEF buildReviewAnalysis
<1> QED BY <1>1, <1>2, <1>3

LEMMA ReviewedScenario ==
  ASSUME NEW id, NEW item, EntryOK(item), NEW base, NEW rules, IsList(rules), NEW hand, NEW source
  PROVE  LET r == reviewScenario(id, item, base, rules, hand, source)
         IN  /\ EntryShape(r) /\ r.analysis.useful \in Int /\ r.severity \in Int
             /\ r.scenario.name = item.scenario.name
<1> DEFINE e0 == buildReviewedEntry(item, base)
           ruled == applyPolicyRules(item, e0, rules, source)
           applied == applyReviewOptions(item, e0, rules, hand, source)
           t == [item EXCEPT !.scenario = applied.scenario]
           r == reviewScenario(id, item, base, rules, hand, source)
<1>1. IsScenario(ruled.scenario) /\ ruled.scenario.name = item.scenario.name
  <2> HIDE DEF e0
  <2> QED BY RulesKeepTheName DEF EntryOK
<1>2. PICK tags : applied.scenario = [ruled.scenario EXCEPT !.tags = tags]
  BY DEF applyReviewOptions
<1>3. IsScenario(applied.scenario) /\ applied.scenario.name = item.scenario.name
  <2> DEFINE s == ruled.scenario
  <2>1. IsScenario([s EXCEPT !.tags = tags]) /\ [s EXCEPT !.tags = tags].name = s.name
    <3> HIDE DEF s
    <3> QED BY <1>1, OtherTags DEF s
  <2> QED BY <1>1, <1>2, <2>1
<1>4. r = [id |-> id, scenario |-> t.scenario, severity |-> t.severity,
           status |-> Status(t.scenario, base),
           analysis |-> buildReviewAnalysis(t, Status(t.scenario, base)),
           decision |-> applied.decision]
  BY DEF reviewScenario, buildReviewedEntry
<1> HIDE DEF applied, r
<1>5. t.severity \in Int /\ t.scenario = applied.scenario
  <2>1. PICK x, y : item = [scenario |-> x, severity |-> y] /\ y \in Int
    BY DEF EntryOK
  <2> QED BY <2>1
<1> HIDE DEF t
<1>6. buildReviewAnalysis(t, Status(t.scenario, base)).useful \in Int
  BY <1>5, UsefulIsNumber
<1>7. EntryShape(r)
  BY <1>3, <1>4, <1>5 DEF EntryShape
<1> QED BY <1>3, <1>4, <1>5, <1>6, <1>7 DEF r

LEMMA CountsAreNumbers ==
  ASSUME NEW entries, IsList(entries), NEW field, NEW value
  PROVE  /\ Count(entries, field, value) \in Nat
         /\ IsFiniteSet({i \in DOMAIN entries : entries[i][field] = value})
<1>1. IsFiniteSet(DOMAIN entries)
  BY ListDomain
<1> DEFINE s == {i \in DOMAIN entries : entries[i][field] = value}
<1>2. s \in SUBSET DOMAIN entries
  OBVIOUS
<1>3. Count(entries, field, value) = Cardinality(s)
  BY DEF Count
<1> HIDE DEF s
<1>4. IsFiniteSet(s) /\ Cardinality(s) \in Nat
  BY <1>1, <1>2, FS_Subset, FS_CardinalityType
<1> QED BY <1>3, <1>4 DEF s

\* Sorting leaves the summary as it is.
LEMMA SortKeepsSummary ==
  ASSUME NEW entries, Rankable(entries)
  PROVE  accumulateReviewSummary(NoCounts, sortReviewedScenarios(entries)) = accumulateReviewSummary(NoCounts, entries)
<1> DEFINE r == sortReviewedScenarios(entries)
<1>1. \A field, value : Count(r, field, value) = Count(entries, field, value)
  BY SortKeepsCounts
<1> HIDE DEF r
<1>2. accumulateReviewSummary(NoCounts, r) = accumulateReviewSummary(NoCounts, entries)
  BY <1>1 DEF accumulateReviewSummary
<1> QED BY <1>2 DEF r

\* The review of a dataset: ranked, and its summary counts its entries.
LEMMA FirstReview ==
  ASSUME NEW base, NEW data, IsList(data.entries), \A i \in DOMAIN data.entries : EntryOK(data.entries[i]),
         NEW rules, IsList(rules), NEW hand
  PROVE  LET r == ReviewDatasetAgainstConfig(base, data, rules, hand)
         IN  /\ Reviewed(r.entries, data.entries) /\ r = [entries |-> r.entries, counts |-> r.counts]
             /\ r.counts = accumulateReviewSummary(NoCounts, r.entries)
             /\ Len(r.entries) = Len(data.entries)
<1> DEFINE given == data.entries
           Made(i) == reviewScenario(i, given[i], base, rules, hand, data.source)
           made == [i \in DOMAIN given |-> Made(i)]
           sorted == sortReviewedScenarios(made)
           names == Names(Scenarios(given))
           r == ReviewDatasetAgainstConfig(base, data, rules, hand)
<1>1. r = [entries |-> sorted, counts |-> accumulateReviewSummary(NoCounts, made)]
  BY DEF ReviewDatasetAgainstConfig
<1>2. ASSUME NEW i \in DOMAIN given
      PROVE  /\ EntryShape(Made(i)) /\ Made(i).analysis.useful \in Int /\ Made(i).severity \in Int
             /\ Made(i).scenario.name = given[i].scenario.name
  <2>1. EntryOK(given[i])
    OBVIOUS
  <2> QED BY <2>1, ReviewedScenario
<1>3. DOMAIN given = 1 .. Len(given) /\ Len(given) \in Nat
  BY ListDomain
<1> HIDE DEF Made
<1>4. IsList(made) /\ DOMAIN made = DOMAIN given /\ Len(made) = Len(given)
  <2>1. made \in Seq({Made(i) : i \in DOMAIN given})
    BY <1>3
  <2>2. DOMAIN made = DOMAIN given
    OBVIOUS
  <2> HIDE DEF made, given
  <2>3. Len(made) = Len(given)
    BY <1>3, <2>1, <2>2
  <2> QED BY <2>1, <2>2, <2>3 DEF IsList
<1>5. \A i \in DOMAIN made : EntryShape(made[i]) /\ made[i].scenario.name \in names
  <2>1. \A i \in DOMAIN given : given[i].scenario.name \in names
    BY DEF Names, Scenarios
  <2> HIDE DEF names
  <2> QED BY <1>2, <2>1
<1>6. Rankable(made)
  BY <1>2, <1>4 DEF Rankable, EntryShape, IsScenario
<1> HIDE DEF made, names
<1>7. /\ DOMAIN sorted = DOMAIN made /\ Rankable(sorted) /\ Sorted(sorted) /\ Len(sorted) = Len(made)
      /\ ToSet(sorted) = ToSet(made)
  BY <1>6, SortIsSorted
<1>8. accumulateReviewSummary(NoCounts, sorted) = accumulateReviewSummary(NoCounts, made)
  BY <1>6, SortKeepsSummary
<1> HIDE DEF sorted
<1>9. \A k \in DOMAIN sorted : \E i \in DOMAIN made : sorted[k] = made[i]
  BY <1>7 DEF ToSet
<1>10. Reviewed(sorted, given)
  BY <1>5, <1>7, <1>9 DEF Reviewed, names
<1> HIDE DEF r
<1> QED BY <1>1, <1>4, <1>7, <1>8, <1>10 DEF r

\* What is edited keeps its rank: finalizing only counts again.
LEMMA FinalizeOnlyCounts ==
  ASSUME NEW r, NEW data, Reviewed(r.entries, data)
  PROVE  FinalizeReviewedScenarioDataset(r)
           = [entries |-> r.entries, counts |-> accumulateReviewSummary(NoCounts, r.entries)]
<1>1. sortReviewedScenarios(r.entries) = r.entries
  BY SortOfSorted DEF Reviewed
<1> QED BY <1>1 DEF FinalizeReviewedScenarioDataset

-----------------------------------------------------------------------------
(***************************************************************************)
(* What the merged configuration is.                                          *)
(***************************************************************************)
LEMMA DistinctLength ==
  ASSUME NEW list, Distinct(list)
  PROVE  Len(list) = Cardinality(Names(list))
<1>1. IsFiniteSet(DOMAIN list) /\ Cardinality(DOMAIN list) = Len(list)
  BY ListDomain DEF Distinct
<1> DEFINE name == [i \in DOMAIN list |-> list[i].name]
           names == Names(list)
<1>2. name \in [DOMAIN list -> names]
  BY DEF Names
<1>3. \A n \in names : \E i \in DOMAIN list : name[i] = n
  BY DEF Names
<1>4. \A i, j \in DOMAIN list : name[i] = name[j] => i = j
  BY DEF Distinct
<1> HIDE DEF name, names
<1>5. name \in Bijection(DOMAIN list, names)
  BY <1>2, <1>3, <1>4 DEF Bijection, Injection, IsInjective, Surjection
<1>6. Cardinality(names) = Cardinality(DOMAIN list)
  BY <1>1, <1>5, FS_Bijection DEF ExistsBijection
<1> QED BY <1>1, <1>6 DEF names

LEMMA PrefixKept ==
  ASSUME NEW base, Distinct(base), NEW merged, Distinct(merged), DOMAIN base \subseteq DOMAIN merged,
         \A i \in DOMAIN base : merged[i] = base[i]
  PROVE  SubSeq(merged, 1, Len(base)) = base
<1>1. /\ DOMAIN base = 1 .. Len(base) /\ Len(base) \in Nat /\ base \in Seq(ToSet(base))
      /\ DOMAIN merged = 1 .. Len(merged) /\ Len(merged) \in Nat /\ merged \in Seq(ToSet(merged))
  BY ListDomain DEF Distinct
<1>2. Len(base) <= Len(merged)
  <2>1. Len(base) = 0 \/ Len(base) \in DOMAIN base
    BY <1>1
  <2> QED BY <1>1, <2>1
<1> DEFINE r == SubSeq(merged, 1, Len(base))
<1>3. Len(r) = Len(base) /\ \A i \in 1 .. Len(base) : r[i] = merged[i]
  BY <1>1, <1>2
<1>4. r \in Seq(ToSet(merged))
  BY <1>1, <1>2
<1> HIDE DEF r
<1>5. DOMAIN r = DOMAIN base /\ \A i \in DOMAIN base : r[i] = base[i]
  BY <1>1, <1>3, <1>4
<1>6. r = base
  BY <1>1, <1>4, <1>5
<1> QED BY <1>6 DEF r

\* The merged list is the base with the approved scenarios in their places.
MergedFrom(base, entries, merged) ==
  LET approved == {i \in DOMAIN entries : entries[i].decision = "approved"}
      names == {entries[i].scenario.name : i \in approved}
  IN  approved # {} =>
        /\ Len(merged) = Cardinality(Names(base) \cup names)
        /\ \A i \in DOMAIN base : base[i].name \notin names => merged[i] = base[i]
        /\ \A n \in names : \E i \in approved :
             LET s == entries[i].scenario
             IN  s.name = n /\ [merged[Position(merged, n)] EXCEPT !.meta = s.meta] = s

LEMMA ApprovedIsMerged ==
  ASSUME NEW base, Distinct(base), NEW entries, IsList(entries),
         \A i \in DOMAIN entries : IsScenario(entries[i].scenario)
  PROVE  LET merged == MergeReviewedDatasetIntoConfig(base, entries)
         IN  /\ Distinct(merged) /\ MergedFrom(base, entries, merged)
             /\ merged # <<>> /\ (\A i \in DOMAIN entries : entries[i].scenario.name \notin Names(base))
                  => SubSeq(merged, 1, Len(base)) = base
<1> DEFINE approved == {i \in DOMAIN entries : entries[i].decision = "approved"}
           names == {entries[i].scenario.name : i \in approved}
           chosen == ApprovedDatasetFromReview(entries)
           added == WithProvenance(chosen)
           merged == MergeReviewedDatasetIntoConfig(base, entries)
           Marked(s) == [s EXCEPT !.meta = s.meta \cup {"provenance"}]
<1>1. merged = MergeDatasetIntoConfig(base, added)
  BY DEF MergeReviewedDatasetIntoConfig
<1>2. chosen = Select(entries, approved)
  BY DEF ApprovedDatasetFromReview
<1>3. /\ IsList(chosen) /\ DOMAIN chosen = 1 .. Cardinality(approved)
      /\ \A k \in DOMAIN chosen : \E i \in approved : chosen[k] = entries[i]
      /\ \A i \in approved : \E k \in DOMAIN chosen : chosen[k] = entries[i]
  <2> HIDE DEF chosen
  <2>1. approved \in SUBSET (DOMAIN entries)
    OBVIOUS
  <2> HIDE DEF approved
  <2> QED BY <1>2, <2>1, SelectIsOfTheChosen
<1>4. added = [k \in DOMAIN chosen |-> Marked(chosen[k].scenario)]
  BY DEF WithProvenance
<1> HIDE DEF chosen, merged
<1>5. IsList(added)
  <2>1. DOMAIN chosen = 1 .. Len(chosen) /\ Len(chosen) \in Nat
    BY <1>3, ListDomain
  <2> HIDE DEF added, Marked
  <2>2. added \in Seq({Marked(chosen[k].scenario) : k \in DOMAIN chosen})
    BY <1>4, <2>1
  <2> QED BY <2>2 DEF IsList
<1>6. DOMAIN added = DOMAIN chosen
  BY <1>4
<1>7. \A i \in approved : IsScenario(entries[i].scenario)
  OBVIOUS
<1>8. ASSUME NEW k \in DOMAIN added
      PROVE  \E i \in approved : added[k] = Marked(entries[i].scenario)
  <2> HIDE DEF added, Marked, approved
  <2> QED BY <1>3, <1>4, <1>6
<1>9. ASSUME NEW i \in approved PROVE \E k \in DOMAIN added : added[k] = Marked(entries[i].scenario)
  <2> HIDE DEF added, Marked, approved
  <2> QED BY <1>3, <1>4, <1>6
<1>10. \A i \in approved : LET s == entries[i].scenario
                           IN  Marked(s).name = s.name /\ [Marked(s) EXCEPT !.meta = s.meta] = s
  BY <1>7, OtherTags
<1> HIDE DEF added, Marked
<1>11. Names(added) = names
  <2>1. \A i \in approved : Marked(entries[i].scenario).name = entries[i].scenario.name
    BY <1>10
  <2>2. \A k \in DOMAIN added : added[k].name \in names
    <3> HIDE DEF approved
    <3> QED BY <1>8, <2>1
  <2>3. \A i \in approved : \E k \in DOMAIN added : added[k].name = entries[i].scenario.name
    <3> HIDE DEF approved, names
    <3> QED BY <1>9, <2>1
  <2>4. Names(added) \subseteq names
    <3> HIDE DEF names
    <3> QED BY <2>2 DEF Names
  <2>5. names \subseteq Names(added)
    <3> HIDE DEF approved
    <3> QED BY <2>3 DEF Names
  <2> QED BY <2>4, <2>5
<1>12. CASE approved = {}
  <2>1. DOMAIN added = {}
    <3> HIDE DEF approved
    <3> QED BY <1>12, <1>8
  <2>2. added = <<>>
    BY <1>5, <2>1, ListDomain DEF IsList
  <2>3. merged = <<>>
    BY <1>1, <2>2 DEF MergeDatasetIntoConfig
  <2>4. Distinct(<<>>)
    BY DEF Distinct, IsList
  <2> QED BY <1>12, <2>3, <2>4 DEF merged, MergedFrom
<1>13. CASE approved # {}
  <2>1. added # <<>>
    <3> HIDE DEF approved
    <3>1. DOMAIN added # {}
      BY <1>9, <1>13
    <3> QED BY <3>1
  <2>2. /\ Distinct(merged) /\ Names(merged) = Names(base) \cup names
        /\ DOMAIN base \subseteq DOMAIN merged
        /\ \A i \in DOMAIN base : base[i].name \notin names => merged[i] = base[i]
        /\ \A i \in DOMAIN merged : merged[i].name \in names => \E j \in DOMAIN added : merged[i] = added[j]
    <3> HIDE DEF names
    <3> QED BY <1>1, <1>5, <1>11, <2>1, MergeInPlace
  <2>3. Len(merged) = Cardinality(Names(base) \cup names)
    <3> HIDE DEF names
    <3> QED BY <2>2, DistinctLength
  <2>4. ASSUME NEW n \in names
        PROVE  \E i \in approved : LET s == entries[i].scenario
                 IN  s.name = n /\ [merged[Position(merged, n)] EXCEPT !.meta = s.meta] = s
    <3> HIDE DEF names
    <3>1. PICK k \in DOMAIN merged : merged[k].name = n
      BY <2>2 DEF Names
    <3>2. Position(merged, n) = k
      BY <2>2, <3>1, PositionOf
    <3>3. PICK j \in DOMAIN added : merged[k] = added[j]
      BY <2>2, <3>1
    <3>4. PICK i \in approved : added[j] = Marked(entries[i].scenario)
      BY <1>8
    <3> HIDE DEF approved
    <3> QED BY <1>10, <3>1, <3>2, <3>3, <3>4
  <2>5. MergedFrom(base, entries, merged)
    <3> HIDE DEF merged
    <3> QED BY <1>13, <2>2, <2>3, <2>4 DEF MergedFrom
  <2>6. ASSUME \A i \in DOMAIN entries : entries[i].scenario.name \notin Names(base)
        PROVE  SubSeq(merged, 1, Len(base)) = base
    <3>1. \A i \in DOMAIN base : base[i].name \notin names
      BY <2>6 DEF Names
    <3> HIDE DEF names, merged
    <3> QED BY <2>2, <3>1, PrefixKept
  <2> HIDE DEF names, approved
  <2> QED BY <2>2, <2>5, <2>6 DEF merged
<1> QED BY <1>12, <1>13

LEMMA ScenariosAreListed ==
  ASSUME NEW entries, IsList(entries)
  PROVE  IsList(Scenarios(entries)) /\ DOMAIN Scenarios(entries) = DOMAIN entries
<1> DEFINE r == Scenarios(entries)
<1>1. DOMAIN entries = 1 .. Len(entries) /\ Len(entries) \in Nat
  BY ListDomain
<1>2. r = [i \in DOMAIN entries |-> entries[i].scenario]
  BY DEF Scenarios
<1>3. r \in Seq({entries[i].scenario : i \in DOMAIN entries}) /\ DOMAIN r = DOMAIN entries
  BY <1>1, <1>2
<1> HIDE DEF r
<1> QED BY <1>3 DEF IsList, r

-----------------------------------------------------------------------------
(***************************************************************************)
(* The invariant.  Where the command is, and what it knows by then: the       *)
(* entries of the dataset, the ranked review with its counts, how far the       *)
(* screen has come, and what the review file holds.                              *)
(***************************************************************************)
StageInv ==
  /\ case \in Cases
  /\ stage \in {"start", "made", "line", "screen", "save", "merge", "gate", "done"}
  /\ stage # "done" => exit = -1
  /\ stage \in {"line", "screen"} => stage = case.how

DataInv ==
  /\ Distinct(config)
  /\ stage = "start" => config = case.config
  /\ IsList(dataset.entries) /\ \A i \in DOMAIN dataset.entries : EntryOK(dataset.entries[i])
  /\ dataset.source = "generation" => Names(Scenarios(dataset.entries)) \cap Names(case.config) = {}

Reviewing == stage \in {"line", "screen", "save", "merge", "gate"}

ReviewInv ==
  /\ Reviewing => Reviewed(review.entries, dataset.entries) /\ review = [entries |-> review.entries, counts |-> review.counts]
  /\ stage \in {"save", "merge", "gate"} => review.counts = accumulateReviewSummary(NoCounts, review.entries)
  /\ stage \in {"line", "screen"} => at \in DOMAIN review.entries
  /\ stage = "screen" => \E m \in at .. Len(review.entries) : shown = Ids(review.entries, m)
  /\ stage = "save" /\ case.how = "screen" => shown = Ids(review.entries, Len(review.entries))

FilesInv ==
  /\ files = [review |-> files.review, merged |-> files.merged]
  /\ stage \in {"merge", "gate"} => files.review = <<review>>
  /\ stage = "gate" => case.merge = "none" \/ files.merged # <<>>
  /\ GateIsOfTheWrittenReview

IInv == StageInv /\ DataInv /\ ReviewInv /\ FilesInv

\* Nothing but the stage and the exit code of a command that fails.
LEMMA Failing ==
  ASSUME StageInv, DataInv, ReviewInv, FilesInv, End(2), UNCHANGED <<case, config, dataset, files>>
  PROVE  IInv'
<1>1. stage' = "done" /\ exit' = 2
  BY DEF End
<1>2. StageInv' /\ DataInv' /\ ReviewInv'
  BY <1>1 DEF StageInv, DataInv, ReviewInv, Reviewing
<1>3. GateIsOfTheWrittenReview'
  BY <1>1 DEF GateIsOfTheWrittenReview
<1> QED BY <1>1, <1>2, <1>3 DEF IInv, FilesInv

LEMMA GivenCase ==
  ASSUME ReviewAssumption, NEW c \in Cases
  PROVE  /\ Distinct(c.config) /\ \A i \in DOMAIN c.config : IsScenario(c.config[i])
         /\ IsList(c.rules) /\ \A k \in DOMAIN c.rules : DOMAIN c.rules[k] = RuleFields
         /\ DOMAIN c.hand = {"approve", "reject", "stable", "regression", "retag"}
         /\ c.how \in {"batch", "line", "screen"} /\ IsList(c.given) /\ c.count \in Int
         /\ c.gate.minApproved \in Int /\ c.gate.maxDuplicates \in Int
<1>1. \A l : \A i \in DOMAIN l : l[i] \in ToSet(l)
  BY DEF ToSet
<1> QED BY <1>1 DEF ReviewAssumption, Distinct, IsList, RuleFields

\* What the dataset is made of, whatever it is made from.
LEMMA MadeDataset ==
  ASSUME ReviewAssumption, IInv, MakeDataset
  PROVE  /\ IsList(dataset'.entries) /\ \A i \in DOMAIN dataset'.entries : EntryOK(dataset'.entries[i])
         /\ dataset'.source = "generation" => Names(Scenarios(dataset'.entries)) \cap Names(case.config) = {}
<1>1. case \in Cases /\ config = case.config
  BY DEF IInv, StageInv, DataInv, MakeDataset
<1>2. /\ Distinct(config) /\ \A i \in DOMAIN config : IsScenario(config[i])
      /\ IsList(case.given) /\ case.count \in Int
  BY <1>1, GivenCase
<1>3. ASSUME NEW i \in DOMAIN case.given
      PROVE  /\ case.from # "generation" => case.given[i].severity \in Int
             /\ case.from = "generation" => IsScenario(case.given[i])
             /\ case.from \notin {"replay", "generation"} => EntryOK(case.given[i])
  <2>1. case.given[i] \in ToSet(case.given)
    BY DEF ToSet
  <2> QED BY <1>1, <2>1 DEF ReviewAssumption, EntryOK
<1>4. CASE case.from = "replay"
  <2> DEFINE made == ExportScenarioDataset(config, case.given, case.all)
  <2>1. dataset' = [NoData EXCEPT !.source = "replay", !.entries = made]
    BY <1>4 DEF MakeDataset
  <2>2. IsList(made) /\ \A i \in DOMAIN made : EntryOK(made[i])
    BY <1>2, <1>3, <1>4, ExportIsDataset
  <2> HIDE DEF made
  <2>3. dataset'.source = "replay" /\ dataset'.entries = made
    BY <2>1 DEF NoData
  <2> QED BY <2>2, <2>3
<1>5. CASE case.from = "generation"
  <2> DEFINE made == decodeGeneratedScenarios(case.given, config, case.count, case.all)
             entries == [i \in DOMAIN made |-> [scenario |-> made[i], severity |-> 0]]
  <2>1. dataset' = [source |-> "generation", reviewRequired |-> TRUE, entries |-> entries]
    BY <1>5 DEF MakeDataset
  <2>2. Names(config) \subseteq Int /\ IsList(config)
    BY <1>2 DEF Names, IsScenario, Distinct
  <2>3. IsList(made) /\ \A i \in DOMAIN made : IsScenario(made[i]) /\ made[i].name \notin Names(config)
    BY <1>2, <1>3, <1>5, <2>2, DecodedIsNew
  <2> HIDE DEF made
  <2>4. DOMAIN made = 1 .. Len(made) /\ Len(made) \in Nat
    BY <2>3, ListDomain
  <2>5. IsList(entries)
    <3> DEFINE E(i) == [scenario |-> made[i], severity |-> 0]
    <3>1. entries = [i \in DOMAIN made |-> E(i)]
      OBVIOUS
    <3> HIDE DEF E
    <3>2. entries \in Seq({E(i) : i \in DOMAIN made})
      BY <2>4, <3>1
    <3> QED BY <3>2 DEF IsList
  <2>6. \A i \in DOMAIN entries : EntryOK(entries[i])
    BY <2>3 DEF EntryOK
  <2>7. Names(Scenarios(entries)) \cap Names(config) = {}
    <3>1. \A i \in DOMAIN Scenarios(entries) : i \in DOMAIN made /\ Scenarios(entries)[i] = made[i]
      BY DEF Scenarios
    <3> QED BY <2>3, <3>1 DEF Names
  <2> HIDE DEF entries
  <2>8. dataset'.entries = entries
    BY <2>1
  <2> QED BY <1>1, <2>5, <2>6, <2>7, <2>8
<1>6. CASE case.from \notin {"replay", "generation"}
  <2>1. dataset'.source = "file" /\ dataset'.entries = case.given
    BY <1>6 DEF MakeDataset, NoData
  <2> QED BY <1>2, <1>3, <1>6, <2>1
<1> QED BY <1>4, <1>5, <1>6

-----------------------------------------------------------------------------
(***************************************************************************)
(* The steps, one lemma for each.                                             *)
(***************************************************************************)
LEMMA Initially ==
  ASSUME ReviewAssumption, Init
  PROVE  IInv
<1>1. StageInv
  BY DEF Init, StageInv
<1>2. DataInv
  <2>1. Distinct(config)
    BY GivenCase DEF Init
  <2>2. dataset.entries = <<>> /\ dataset.source = "none" /\ IsList(<<>>)
    BY DEF Init, NoData, IsList
  <2> QED BY <2>1, <2>2 DEF Init, DataInv
<1>3. ReviewInv
  BY DEF Init, ReviewInv, Reviewing
<1>4. FilesInv
  BY DEF Init, FilesInv, Nothing, GateIsOfTheWrittenReview
<1> QED BY <1>1, <1>2, <1>3, <1>4 DEF IInv

LEMMA MakeDatasetStep ==
  ASSUME ReviewAssumption, IInv, MakeDataset
  PROVE  IInv'
<1>1. /\ stage = "start" /\ UNCHANGED <<case, config, review, files>>
      /\ (stage' = "done" /\ exit' = 2) \/ (stage' = "made" /\ exit' = exit)
  BY DEF MakeDataset, End
<1>2. StageInv'
  BY <1>1 DEF IInv, StageInv
<1>3. DataInv'
  BY <1>1, MadeDataset DEF IInv, DataInv
<1>4. ReviewInv'
  BY <1>1 DEF ReviewInv, Reviewing
<1>5. exit' \notin {0, 1}
  BY <1>1 DEF IInv, StageInv
<1>6. FilesInv'
  BY <1>1, <1>5 DEF IInv, FilesInv, GateIsOfTheWrittenReview
<1> QED BY <1>2, <1>3, <1>4, <1>6 DEF IInv

LEMMA GenerateAuthoringStep ==
  ASSUME ReviewAssumption, IInv, GenerateAuthoring
  PROVE  IInv'
<1>1. stage = "made" /\ UNCHANGED <<case, stage, dataset, review, files, exit>>
  BY DEF GenerateAuthoring
<1>2. Distinct(config')
  <2>1. PICK s \in case.authored : config' = Put(config, authoredScenario(s.name, s.body))
    BY DEF GenerateAuthoring, appendOrReplaceScenario
  <2>2. Distinct(config)
    BY DEF IInv, DataInv
  <2> DEFINE new == authoredScenario(s.name, s.body)
  <2> HIDE DEF new
  <2> QED BY <2>1, <2>2, PutInPlace DEF new
<1>3. exit' = -1
  BY <1>1 DEF IInv, StageInv
<1>4. FilesInv'
  BY <1>1, <1>3 DEF IInv, FilesInv, GateIsOfTheWrittenReview
<1> QED BY <1>1, <1>2, <1>4 DEF IInv, StageInv, DataInv, ReviewInv, Reviewing

LEMMA DatasetImportStep ==
  ASSUME ReviewAssumption, IInv, DatasetImport
  PROVE  IInv'
<1>1. /\ stage = "made" /\ case.command = "import" /\ stage' = "done" /\ UNCHANGED <<case, dataset, review>>
  BY DEF DatasetImport, End
<1>2. Distinct(config') /\ files' = [review |-> files'.review, merged |-> files'.merged]
  <2>1. CASE UNCHANGED <<config, files>>
    BY <2>1 DEF IInv, DataInv, FilesInv
  <2> DEFINE merged == MergeDatasetIntoConfig(config, Scenarios(dataset.entries))
  <2>2. CASE /\ files' = [files EXCEPT !.merged = <<merged>>]
             /\ config' = IF case.merge = "in-place" THEN files'.merged[1] ELSE config
    <3>1. Distinct(merged)
      <4>1. Distinct(config) /\ IsList(Scenarios(dataset.entries))
        BY ScenariosAreListed DEF IInv, DataInv
      <4>2. Distinct(<<>>)
        BY DEF Distinct, IsList
      <4>3. CASE Scenarios(dataset.entries) = <<>>
        BY <4>2, <4>3 DEF MergeDatasetIntoConfig
      <4>4. CASE Scenarios(dataset.entries) # <<>>
        BY <4>1, <4>4, MergeInPlace
      <4> QED BY <4>3, <4>4
    <3> HIDE DEF merged
    <3>2. files = [review |-> files.review, merged |-> files.merged]
      BY DEF IInv, FilesInv
    <3>3. files' = [review |-> files.review, merged |-> <<merged>>]
      BY <2>2, <3>2
    <3>4. files'.merged[1] = merged
      BY <3>3
    <3> QED BY <2>2, <3>1, <3>3, <3>4 DEF IInv, DataInv
  <2> QED BY <2>1, <2>2 DEF DatasetImport
<1>3. StageInv' /\ DataInv' /\ ReviewInv'
  BY <1>1, <1>2 DEF IInv, StageInv, DataInv, ReviewInv, Reviewing
<1>4. FilesInv'
  BY <1>1, <1>2 DEF FilesInv, GateIsOfTheWrittenReview
<1> QED BY <1>3, <1>4 DEF IInv

LEMMA LoadReviewContextStep ==
  ASSUME ReviewAssumption, IInv, LoadReviewContext
  PROVE  IInv'
<1>1. stage = "made" /\ UNCHANGED <<case, config, dataset, files>>
  BY DEF LoadReviewContext
<1>2. CASE End(2)
  BY <1>1, <1>2, Failing DEF IInv
<1> DEFINE r == ReviewDatasetAgainstConfig(config, dataset, case.rules, case.hand)
<1>3. CASE /\ dataset.entries # <<>> /\ review' = r
           /\ stage' = IF case.how = "batch" THEN "save" ELSE case.how
           /\ at' = 1 /\ shown' = {review'.entries[1].id} /\ exit' = exit
  <2>1. case \in Cases /\ exit = -1
    BY <1>1 DEF IInv, StageInv
  <2>2. case.how \in {"batch", "line", "screen"} /\ IsList(case.rules)
    BY <2>1, GivenCase
  <2>3. IsList(dataset.entries) /\ \A i \in DOMAIN dataset.entries : EntryOK(dataset.entries[i])
    BY DEF IInv, DataInv
  <2>4. /\ Reviewed(r.entries, dataset.entries) /\ r = [entries |-> r.entries, counts |-> r.counts]
        /\ r.counts = accumulateReviewSummary(NoCounts, r.entries)
        /\ Len(r.entries) = Len(dataset.entries)
    BY <2>2, <2>3, FirstReview
  <2> HIDE DEF r
  <2>5. IsList(r.entries) /\ DOMAIN r.entries = 1 .. Len(r.entries) /\ Len(r.entries) \in Nat
    BY <2>4, ListDomain DEF Reviewed, Rankable
  <2>6. Len(r.entries) >= 1
    <3>1. Len(dataset.entries) \in Nat /\ Len(dataset.entries) # 0
      BY <1>3, <2>3, ListDomain DEF IsList
    <3> QED BY <2>4, <3>1
  <2>7. stage' \in {"line", "screen", "save"} /\ exit' = -1 /\ (stage' \in {"line", "screen"} => stage' = case.how)
    BY <1>3, <2>1, <2>2
  <2>8. StageInv'
    BY <1>1, <2>1, <2>7 DEF StageInv
  <2>9. DataInv'
    BY <1>1, <2>7 DEF IInv, DataInv
  <2>10. ReviewInv'
    <3>1. shown' = Ids(r.entries, 1)
      BY <1>3 DEF Ids
    <3>2. 1 \in 1 .. Len(r.entries) /\ 1 \in DOMAIN r.entries
      BY <2>5, <2>6
    <3>3. \E m \in at' .. Len(review'.entries) : shown' = Ids(review'.entries, m)
      BY <1>3, <3>1, <3>2
    <3>4. stage' = "save" => case.how # "screen"
      BY <1>3, <2>2
    <3>5. at' \in DOMAIN review'.entries
      BY <1>3, <3>2
    <3>6. /\ Reviewed(review'.entries, dataset'.entries)
          /\ review' = [entries |-> review'.entries, counts |-> review'.counts]
          /\ review'.counts = accumulateReviewSummary(NoCounts, review'.entries)
      BY <1>1, <1>3, <2>4
    <3> QED BY <1>1, <2>7, <3>3, <3>4, <3>5, <3>6 DEF ReviewInv, Reviewing
  <2>11. FilesInv'
    BY <1>1, <2>7 DEF IInv, FilesInv, GateIsOfTheWrittenReview
  <2> QED BY <2>8, <2>9, <2>10, <2>11 DEF IInv
<1> QED BY <1>2, <1>3 DEF LoadReviewContext

-----------------------------------------------------------------------------
(***************************************************************************)
(* The reader.  One lemma for a reader that goes on and one for the end of    *)
(* the session; edits and moves of the line and the screen are cases of them.  *)
(***************************************************************************)
LEMMA GoingOn ==
  ASSUME IInv, stage \in {"line", "screen"}, UNCHANGED <<case, stage, config, dataset, files, exit>>,
         Reviewed(review'.entries, dataset.entries),
         review' = [entries |-> review'.entries, counts |-> review'.counts],
         at' \in DOMAIN review'.entries,
         stage = "screen" => \E m \in at' .. Len(review'.entries) : shown' = Ids(review'.entries, m)
  PROVE  IInv'
<1>1. StageInv' /\ DataInv'
  BY DEF IInv, StageInv, DataInv
<1>2. ReviewInv'
  BY DEF ReviewInv, Reviewing
<1>3. exit' = -1
  BY DEF IInv, StageInv
<1>4. FilesInv'
  BY <1>3 DEF IInv, FilesInv, GateIsOfTheWrittenReview
<1> QED BY <1>1, <1>2, <1>4 DEF IInv

LEMMA Leaving ==
  ASSUME IInv, stage \in {"line", "screen"}, NEW r, Reviewed(r.entries, dataset.entries), Leave(r),
         UNCHANGED <<case, config, dataset, files, exit>>,
         stage = "screen" => shown = Ids(r.entries, Len(r.entries))
  PROVE  IInv'
<1>1. /\ review' = [entries |-> r.entries, counts |-> accumulateReviewSummary(NoCounts, r.entries)]
      /\ stage' = "save" /\ UNCHANGED <<at, shown, edits>>
  BY FinalizeOnlyCounts DEF Leave
<1>2. review'.entries = r.entries /\ review'.counts = accumulateReviewSummary(NoCounts, review'.entries)
  BY <1>1
<1>3. exit' = -1 /\ stage = case.how
  BY DEF IInv, StageInv
<1>4. StageInv' /\ DataInv'
  BY <1>1, <1>3 DEF IInv, StageInv, DataInv
<1>5. ReviewInv'
  <2>1. case'.how = "screen" => shown' = Ids(review'.entries, Len(review'.entries))
    BY <1>1, <1>2, <1>3
  <2>2. review' = [entries |-> review'.entries, counts |-> review'.counts]
    BY <1>1
  <2> QED BY <1>1, <1>2, <2>1, <2>2 DEF ReviewInv, Reviewing
<1>6. FilesInv'
  BY <1>1, <1>3 DEF IInv, FilesInv, GateIsOfTheWrittenReview
<1> QED BY <1>4, <1>5, <1>6 DEF IInv

\* What is known while the reader is at an entry.
LEMMA AtAnEntry ==
  ASSUME IInv, stage \in {"line", "screen"}
  PROVE  /\ Reviewed(review.entries, dataset.entries)
         /\ review = [entries |-> review.entries, counts |-> review.counts]
         /\ at \in DOMAIN review.entries /\ EntryShape(review.entries[at])
         /\ Len(review.entries) \in Nat /\ DOMAIN review.entries = 1 .. Len(review.entries)
<1>1. Reviewing
  BY DEF Reviewing
<1>2. /\ Reviewed(review.entries, dataset.entries)
      /\ review = [entries |-> review.entries, counts |-> review.counts] /\ at \in DOMAIN review.entries
  BY <1>1 DEF IInv, ReviewInv
<1> QED BY <1>2, ListDomain DEF Reviewed, Rankable

\* An entry that is decided or edited: the review stays ranked, and those seen.
LEMMA Changing ==
  ASSUME IInv, stage \in {"line", "screen"}, NEW d, EntryShape(d), SameRank(review.entries[at], d)
  PROVE  LET r == [review EXCEPT !.entries[at] = d]
         IN  /\ Reviewed(r.entries, dataset.entries) /\ r = [entries |-> r.entries, counts |-> r.counts]
             /\ DOMAIN r.entries = DOMAIN review.entries /\ Len(r.entries) = Len(review.entries)
             /\ \A m \in 0 .. Len(review.entries) : Ids(r.entries, m) = Ids(review.entries, m)
<1> DEFINE r == [review EXCEPT !.entries[at] = d]
           changed == [review.entries EXCEPT ![at] = d]
<1>1. r = [entries |-> changed, counts |-> review.counts]
  BY AtAnEntry
<1>2. /\ Reviewed(changed, dataset.entries) /\ DOMAIN changed = DOMAIN review.entries
      /\ Len(changed) = Len(review.entries)
      /\ \A m \in 0 .. Len(review.entries) : Ids(changed, m) = Ids(review.entries, m)
  BY AtAnEntry, ReplacedEntry
<1> HIDE DEF changed, r
<1> QED BY <1>1, <1>2 DEF r

\* Another entry is shown: the ones seen are still the first ones.
LEMMA SeenAgain ==
  ASSUME NEW entries, NEW m \in Nat, NEW i \in 1 .. m
  PROVE  Ids(entries, m) \cup {entries[i].id} = Ids(entries, m)
<1>1. entries[i].id \in Ids(entries, m)
  BY DEF Ids
<1> QED BY <1>1

LEMMA SeenNext ==
  ASSUME NEW entries, NEW m \in Nat
  PROVE  Ids(entries, m) \cup {entries[m + 1].id} = Ids(entries, m + 1)
<1>1. 1 .. m + 1 = (1 .. m) \cup {m + 1}
  OBVIOUS
<1> QED BY <1>1 DEF Ids

LEMMA EditEntryStep ==
  ASSUME IInv, EditEntry
  PROVE  IInv'
<1>1. stage \in {"line", "screen"} /\ UNCHANGED <<case, stage, config, dataset, files, exit, at, shown>>
  BY DEF EditEntry, Reading
<1>2. PICK word : review' = [review EXCEPT !.entries[at] = Edited(review.entries[at], word)]
  BY DEF EditEntry
<1> DEFINE d == Edited(review.entries[at], word)
<1>3. EntryShape(d) /\ SameRank(review.entries[at], d)
  BY <1>1, AtAnEntry, ChangedEntry
<1> HIDE DEF d
<1>4. /\ Reviewed(review'.entries, dataset.entries)
      /\ review' = [entries |-> review'.entries, counts |-> review'.counts]
      /\ DOMAIN review'.entries = DOMAIN review.entries /\ Len(review'.entries) = Len(review.entries)
      /\ \A m \in 0 .. Len(review.entries) : Ids(review'.entries, m) = Ids(review.entries, m)
  BY <1>1, <1>2, <1>3, Changing DEF d
<1>5. at' \in DOMAIN review'.entries
  BY <1>1, <1>4, AtAnEntry
<1>6. stage = "screen" => \E m \in at' .. Len(review'.entries) : shown' = Ids(review'.entries, m)
  <2>1. stage = "screen" => \E m \in at .. Len(review.entries) : shown = Ids(review.entries, m)
    BY DEF IInv, ReviewInv
  <2>2. at \in 1 .. Len(review.entries) /\ Len(review.entries) \in Nat
    BY <1>1, AtAnEntry
  <2>3. at .. Len(review.entries) \subseteq 0 .. Len(review.entries)
    BY <2>2
  <2> QED BY <1>1, <1>4, <2>1, <2>3
<1> QED BY <1>1, <1>4, <1>5, <1>6, GoingOn

LEMMA LineDecidesStep ==
  ASSUME IInv, LineDecides
  PROVE  IInv'
<1>1. stage = "line" /\ UNCHANGED <<case, config, dataset, files, exit>>
  BY DEF LineDecides, Reading
<1> DEFINE R(word) == IF word = "skip" THEN review
                      ELSE [review EXCEPT !.entries[at] = Decided(review.entries[at], word)]
<1>2. PICK word : IF at = Len(R(word).entries) THEN Leave(R(word))
                  ELSE review' = R(word) /\ Show(R(word), at + 1) /\ UNCHANGED stage
  BY DEF LineDecides
<1> DEFINE r == R(word)
<1>3. /\ Reviewed(r.entries, dataset.entries) /\ r = [entries |-> r.entries, counts |-> r.counts]
      /\ Len(r.entries) = Len(review.entries) /\ DOMAIN r.entries = DOMAIN review.entries
  <2>1. CASE word = "skip"
    BY <1>1, <2>1, AtAnEntry
  <2>2. CASE word # "skip"
    <3> DEFINE d == Decided(review.entries[at], word)
    <3>1. EntryShape(d) /\ SameRank(review.entries[at], d)
      BY <1>1, AtAnEntry, ChangedEntry
    <3>2. r = [review EXCEPT !.entries[at] = d]
      BY <2>2
    <3> HIDE DEF d, r
    <3> QED BY <1>1, <3>1, <3>2, Changing
  <2> QED BY <2>1, <2>2
<1> HIDE DEF R
<1>4. CASE at = Len(r.entries)
  <2>1. Leave(r)
    BY <1>2, <1>4
  <2> HIDE DEF r
  <2> QED BY <1>1, <1>3, <2>1, Leaving
<1>5. CASE at # Len(r.entries)
  <2>1. review' = r /\ at' = at + 1 /\ UNCHANGED stage
    BY <1>2, <1>5 DEF Show
  <2>2. at' \in DOMAIN r.entries
    BY <1>1, <1>3, <1>5, <2>1, AtAnEntry
  <2> HIDE DEF r
  <2>3. /\ Reviewed(review'.entries, dataset.entries) /\ at' \in DOMAIN review'.entries
        /\ review' = [entries |-> review'.entries, counts |-> review'.counts]
    BY <1>3, <2>1, <2>2
  <2> QED BY <1>1, <2>1, <2>3, GoingOn
<1> QED BY <1>4, <1>5

LEMMA LineEndsStep ==
  ASSUME IInv, LineEnds
  PROVE  IInv'
<1>1. stage = "line" /\ Leave(review) /\ UNCHANGED <<case, config, dataset, files, exit>>
  BY DEF LineEnds, Reading
<1> QED BY <1>1, AtAnEntry, Leaving

LEMMA ScreenDecidesStep ==
  ASSUME IInv, ScreenDecides
  PROVE  IInv'
<1>1. stage = "screen" /\ UNCHANGED <<case, config, dataset, files, exit>>
  BY DEF ScreenDecides, Reading
<1> DEFINE Changed(word) == [review EXCEPT !.entries[at] = Decided(review.entries[at], word)]
           R(word) == FinalizeReviewedScenarioDataset(Changed(word))
<1>2. PICK word : IF at = Len(R(word).entries) THEN Leave(R(word))
                  ELSE review' = R(word) /\ Show(R(word), at + 1) /\ UNCHANGED stage
  BY DEF ScreenDecides
<1> DEFINE c == Changed(word)
           r == R(word)
           n == Len(review.entries)
<1>3. /\ Reviewed(c.entries, dataset.entries) /\ Len(c.entries) = n
      /\ DOMAIN c.entries = DOMAIN review.entries
      /\ \A m \in 0 .. n : Ids(c.entries, m) = Ids(review.entries, m)
  <2> DEFINE d == Decided(review.entries[at], word)
  <2>1. EntryShape(d) /\ SameRank(review.entries[at], d)
    BY <1>1, AtAnEntry, ChangedEntry
  <2>2. c = [review EXCEPT !.entries[at] = d]
    OBVIOUS
  <2> HIDE DEF d, c
  <2> QED BY <1>1, <2>1, <2>2, Changing
<1>4. r = FinalizeReviewedScenarioDataset(c)
  OBVIOUS
<1> HIDE DEF c, R
<1>5. r = [entries |-> c.entries, counts |-> accumulateReviewSummary(NoCounts, c.entries)]
  BY <1>3, <1>4, FinalizeOnlyCounts
<1>6. r.entries = c.entries /\ r = [entries |-> r.entries, counts |-> r.counts]
  BY <1>5
<1>7. PICK m \in at .. n : shown = Ids(review.entries, m)
  BY <1>1 DEF IInv, ReviewInv
<1>8. n \in Nat /\ at \in 1 .. n /\ DOMAIN review.entries = 1 .. n
  BY <1>1, AtAnEntry
<1> HIDE DEF n
<1>9. m \in 0 .. n /\ shown = Ids(r.entries, m) /\ Len(r.entries) = n /\ DOMAIN r.entries = 1 .. n
  BY <1>3, <1>6, <1>7, <1>8
<1>10. CASE at = Len(r.entries)
  <2>1. Leave(r) /\ m = n
    BY <1>2, <1>7, <1>8, <1>9, <1>10
  <2> HIDE DEF r
  <2>2. Reviewed(r.entries, dataset.entries) /\ shown = Ids(r.entries, Len(r.entries))
    BY <1>3, <1>6, <1>9, <2>1
  <2> QED BY <1>1, <2>1, <2>2, Leaving
<1>11. CASE at # Len(r.entries)
  <2>1. review' = r /\ at' = at + 1 /\ shown' = shown \cup {r.entries[at + 1].id} /\ UNCHANGED stage
    BY <1>2, <1>11 DEF Show
  <2> HIDE DEF r
  <2>2. at + 1 \in 1 .. n
    BY <1>8, <1>9, <1>11
  <2>3. \E l \in at + 1 .. n : shown' = Ids(r.entries, l)
    <3>1. CASE m = at
      <4>1. shown' = Ids(r.entries, at + 1)
        BY <1>8, <1>9, <2>1, <3>1, SeenNext
      <4> QED BY <2>2, <4>1
    <3>2. CASE m # at
      <4>1. at + 1 \in 1 .. m /\ m \in at + 1 .. n
        BY <1>7, <1>8, <3>2
      <4>2. shown' = Ids(r.entries, m)
        BY <1>9, <2>1, <4>1, SeenAgain
      <4> QED BY <4>1, <4>2
    <3> QED BY <3>1, <3>2
  <2>4. \E l \in at' .. Len(review'.entries) : shown' = Ids(review'.entries, l)
    BY <1>9, <2>1, <2>3
  <2>5. /\ Reviewed(review'.entries, dataset.entries) /\ at' \in DOMAIN review'.entries
        /\ review' = [entries |-> review'.entries, counts |-> review'.counts]
    BY <1>3, <1>6, <1>9, <2>1, <2>2
  <2> QED BY <1>1, <2>1, <2>4, <2>5, GoingOn
<1> QED BY <1>10, <1>11

LEMMA ScreenMovesStep ==
  ASSUME IInv, ScreenMoves
  PROVE  IInv'
<1>1. stage = "screen" /\ UNCHANGED <<case, stage, review, config, dataset, files, exit>>
  BY DEF ScreenMoves, Reading
<1> DEFINE n == Len(review.entries)
<1>2. PICK i \in {at - 1, at + 1} \cap DOMAIN review.entries :
        at' = i /\ shown' = shown \cup {review.entries[i].id}
  BY DEF ScreenMoves, Show
<1>3. PICK m \in at .. n : shown = Ids(review.entries, m)
  BY <1>1 DEF IInv, ReviewInv
<1>4. n \in Nat /\ at \in 1 .. n /\ DOMAIN review.entries = 1 .. n
  BY <1>1, AtAnEntry
<1>5. \E l \in i .. n : shown' = Ids(review.entries, l)
  <2>1. i \in 1 .. n /\ i \in {at - 1, at + 1}
    BY <1>2, <1>4
  <2> HIDE DEF n
  <2>2. CASE i = m + 1
    <3>1. m \in Nat /\ shown' = Ids(review.entries, m) \cup {review.entries[m + 1].id}
      BY <1>2, <1>3, <1>4, <2>2
    <3>2. shown' = Ids(review.entries, i)
      BY <2>2, <3>1, SeenNext
    <3> QED BY <2>1, <3>2
  <2>3. CASE i # m + 1
    <3>1. i \in 1 .. m /\ m \in i .. n /\ m \in Nat
      BY <1>3, <1>4, <2>1, <2>3
    <3>2. shown' = Ids(review.entries, m)
      BY <1>2, <1>3, <3>1, SeenAgain
    <3> QED BY <3>1, <3>2
  <2> QED BY <2>2, <2>3
<1>6. \E l \in at' .. Len(review'.entries) : shown' = Ids(review'.entries, l)
  BY <1>1, <1>2, <1>3, <1>5
<1>7. /\ Reviewed(review'.entries, dataset.entries) /\ at' \in DOMAIN review'.entries
      /\ review' = [entries |-> review'.entries, counts |-> review'.counts]
  <2>1. /\ Reviewed(review.entries, dataset.entries)
        /\ review = [entries |-> review.entries, counts |-> review.counts]
    BY <1>1, AtAnEntry
  <2> QED BY <1>1, <1>2, <2>1
<1> QED BY <1>1, <1>6, <1>7, GoingOn

LEMMA QuitStep ==
  ASSUME IInv, Quit
  PROVE  IInv'
<1>1. End(2) /\ UNCHANGED <<case, config, dataset, files>>
  BY DEF Quit, Reading
<1> QED BY <1>1, Failing DEF IInv

LEMMA WriteReviewStep ==
  ASSUME IInv, WriteReview
  PROVE  IInv'
<1>1. stage = "save" /\ UNCHANGED <<case, config, dataset, review>> /\ UNCHANGED <<at, shown, edits>>
  BY DEF WriteReview, Unread
<1>2. CASE End(2) /\ UNCHANGED files
  BY <1>1, <1>2, Failing DEF IInv
<1>3. CASE /\ files' = [files EXCEPT !.review = <<review>>]
           /\ stage' = (IF case.merge = "none" THEN "gate" ELSE "merge") /\ UNCHANGED exit
  <2>1. files' = [review |-> <<review>>, merged |-> files.merged]
    BY <1>3 DEF IInv, FilesInv
  <2>2. exit' = -1 /\ stage' \in {"gate", "merge"}
    BY <1>1, <1>3 DEF IInv, StageInv
  <2>3. StageInv' /\ DataInv' /\ ReviewInv'
    BY <1>1, <2>2 DEF IInv, StageInv, DataInv, ReviewInv, Reviewing
  <2>4. GateIsOfTheWrittenReview'
    BY <2>2 DEF GateIsOfTheWrittenReview
  <2>5. files' = [review |-> files'.review, merged |-> files'.merged] /\ files'.review = <<review'>>
    BY <1>1, <2>1
  <2>6. stage' = "gate" => case'.merge = "none"
    BY <1>1, <1>3
  <2>7. FilesInv'
    BY <2>4, <2>5, <2>6 DEF FilesInv
  <2> QED BY <2>3, <2>7 DEF IInv
<1> QED BY <1>2, <1>3 DEF WriteReview

\* What is known when the merged configuration is written.
LEMMA AtMerging ==
  ASSUME IInv, stage = "merge"
  PROVE  /\ Distinct(config) /\ IsList(review.entries)
         /\ \A i \in DOMAIN review.entries : IsScenario(review.entries[i].scenario)
         /\ files.review = <<review>>
         /\ \A i \in DOMAIN review.entries : review.entries[i].scenario.name \in Names(Scenarios(dataset.entries))
<1>1. Reviewed(review.entries, dataset.entries)
  BY DEF IInv, ReviewInv, Reviewing
<1> QED BY <1>1 DEF IInv, DataInv, FilesInv, Reviewed, Rankable, EntryShape

LEMMA WriteMergedStep ==
  ASSUME IInv, WriteMerged
  PROVE  IInv'
<1>1. stage = "merge" /\ UNCHANGED <<case, dataset, review>> /\ UNCHANGED <<at, shown, edits>>
  BY DEF WriteMerged, Unread
<1>2. CASE End(2) /\ UNCHANGED <<config, files>>
  BY <1>1, <1>2, Failing DEF IInv
<1> DEFINE merged == MergeReviewedDatasetIntoConfig(config, review.entries)
<1>3. CASE /\ files' = [files EXCEPT !.merged = <<merged>>]
           /\ config' = IF case.merge = "in-place" THEN files'.merged[1] ELSE config
           /\ stage' = "gate" /\ UNCHANGED exit
  <2>1. Distinct(merged) /\ Distinct(config)
    BY <1>1, AtMerging, ApprovedIsMerged
  <2> HIDE DEF merged
  <2>2. files' = [review |-> files.review, merged |-> <<merged>>]
    BY <1>3 DEF IInv, FilesInv
  <2>3. exit' = -1 /\ files'.review = <<review>> /\ files'.merged = <<merged>> /\ files'.merged[1] = merged
    BY <1>1, <1>3, <2>2 DEF IInv, StageInv, FilesInv
  <2>4. Distinct(config')
    BY <1>3, <2>1, <2>3
  <2>5. StageInv' /\ DataInv' /\ ReviewInv'
    BY <1>1, <1>3, <2>3, <2>4 DEF IInv, StageInv, DataInv, ReviewInv, Reviewing
  <2>6. FilesInv'
    <3>1. files'.merged # <<>>
      BY <2>3
    <3>2. files' = [review |-> files'.review, merged |-> files'.merged]
      BY <2>2
    <3> QED BY <1>1, <1>3, <2>3, <3>1, <3>2 DEF FilesInv, GateIsOfTheWrittenReview
  <2> QED BY <2>5, <2>6 DEF IInv
<1> QED BY <1>2, <1>3 DEF WriteMerged

\* What the gate demands of the entries of a review.
Passes(gate, entries) ==
  LET With(field, value) == {i \in DOMAIN entries : entries[i][field] = value}
  IN  /\ gate.failOnPending => With("decision", "pending") = {}
      /\ gate.failOnRejected => With("decision", "rejected") = {}
      /\ Cardinality(With("decision", "approved")) >= gate.minApproved
      /\ gate.maxDuplicates < 0 \/ Cardinality(With("status", "duplicate")) <= gate.maxDuplicates

Judged ==
  exit \in {0, 1} /\ case.command = "review" =>
    (exit = 0) = Passes(case.gate, files.review[1].entries) /\ (case.merge = "none" \/ files.merged # <<>>)

LEMMA GateIsJudged ==
  /\ GateIsOfTheWrittenReview <=> Judged
  /\ GateIsOfTheWrittenReview' <=> Judged'
<1>1. GateIsOfTheWrittenReview <=> Judged
  BY DEF GateIsOfTheWrittenReview, Judged, Passes
<1>2. GateIsOfTheWrittenReview' <=> Judged'
  BY DEF GateIsOfTheWrittenReview, Judged, Passes
<1> QED BY <1>1, <1>2

LEMMA JudgeGateStep ==
  ASSUME ReviewAssumption, IInv, JudgeGate
  PROVE  IInv'
<1> DEFINE gate == case.gate
           entries == review.entries
           With(field, value) == {i \in DOMAIN entries : entries[i][field] = value}
           passed == /\ gate.failOnPending => With("decision", "pending") = {}
                     /\ gate.failOnRejected => With("decision", "rejected") = {}
                     /\ Cardinality(With("decision", "approved")) >= gate.minApproved
                     /\ gate.maxDuplicates < 0 \/ Cardinality(With("status", "duplicate")) <= gate.maxDuplicates
<1>1. /\ stage = "gate" /\ UNCHANGED <<case, config, dataset, review, files, at, shown, edits>>
      /\ stage' = "done" /\ exit' = IF evaluateDatasetReviewGate(review.counts, case.gate) THEN 0 ELSE 1
  BY DEF JudgeGate, End, Unread
<1>2. files.review = <<review>> /\ (case.merge = "none" \/ files.merged # <<>>)
  BY <1>1 DEF IInv, FilesInv
<1>3. review.counts = accumulateReviewSummary(NoCounts, entries) /\ IsList(entries)
  BY <1>1 DEF IInv, ReviewInv, Reviewing, Reviewed, Rankable
<1>4. \A field, value : /\ Count(entries, field, value) = Cardinality(With(field, value))
                        /\ Count(entries, field, value) \in Nat /\ IsFiniteSet(With(field, value))
  <2> SUFFICES ASSUME NEW field, NEW value
               PROVE  /\ Count(entries, field, value) = Cardinality(With(field, value))
                      /\ Count(entries, field, value) \in Nat /\ IsFiniteSet(With(field, value))
    OBVIOUS
  <2>1. Count(entries, field, value) = Cardinality(With(field, value))
    BY DEF Count
  <2> HIDE DEF entries
  <2>2. Count(entries, field, value) \in Nat /\ IsFiniteSet(With(field, value))
    BY <1>3, CountsAreNumbers
  <2> QED BY <2>1, <2>2
<1>5. gate.minApproved \in Int /\ gate.maxDuplicates \in Int
  BY GivenCase DEF IInv, StageInv
<1>6. \A field, value : Count(entries, field, value) = 0 <=> With(field, value) = {}
  <2> SUFFICES ASSUME NEW field, NEW value
               PROVE  Count(entries, field, value) = 0 <=> With(field, value) = {}
    OBVIOUS
  <2> DEFINE w == With(field, value)
  <2>1. Count(entries, field, value) = Cardinality(w) /\ IsFiniteSet(w)
    BY <1>4
  <2> HIDE DEF w
  <2>2. Count(entries, field, value) = 0 <=> w = {}
    BY <2>1, FS_EmptySet
  <2> QED BY <2>2 DEF w
<1>7. evaluateDatasetReviewGate(review.counts, gate) <=> passed
  <2>1. /\ review.counts.approved = Count(entries, "decision", "approved")
        /\ review.counts.rejected = Count(entries, "decision", "rejected")
        /\ review.counts.pending = Count(entries, "decision", "pending")
        /\ review.counts.duplicate = Count(entries, "status", "duplicate")
    <3>0. \A field, value : Count(entries, field, value) \in Nat
      BY <1>4
    <3> HIDE DEF entries, With
    <3>1. \A field, value : 0 + Count(entries, field, value) = Count(entries, field, value)
      BY <3>0
    <3> QED BY <1>3, <3>1 DEF accumulateReviewSummary, NoCounts
  <2> DEFINE a == Count(entries, "decision", "approved")
             d == Count(entries, "status", "duplicate")
  <2>2. a \in Nat /\ d \in Nat /\ a = Cardinality(With("decision", "approved")) /\ d = Cardinality(With("status", "duplicate"))
    BY <1>4
  <2>3. gate.maxDuplicates >= 0 <=> ~(gate.maxDuplicates < 0)
    BY <1>5
  <2> HIDE DEF entries, gate, With
  <2> QED BY <1>6, <2>1, <2>2, <2>3 DEF evaluateDatasetReviewGate
<1>8. exit' \in {0, 1} /\ (exit' = 0) = passed
  <2>1. passed \in BOOLEAN
    OBVIOUS
  <2> HIDE DEF passed
  <2>2. exit' \in {0, 1} /\ (exit' = 0 <=> passed)
    BY <1>1, <1>7
  <2> QED BY <2>1, <2>2
<1>9. GateIsOfTheWrittenReview'
  <2>1. files'.review[1].entries = entries /\ case' = case /\ files' = files
    BY <1>1, <1>2
  <2>2. passed = Passes(gate, entries)
    BY DEF Passes
  <2> HIDE DEF passed
  <2>3. Judged'
    BY <1>2, <1>8, <2>1, <2>2 DEF Judged
  <2> QED BY <2>3, GateIsJudged
<1>10. StageInv' /\ DataInv' /\ ReviewInv'
  BY <1>1 DEF IInv, StageInv, DataInv, ReviewInv, Reviewing
<1>11. FilesInv'
  BY <1>1, <1>9 DEF IInv, FilesInv
<1> QED BY <1>10, <1>11 DEF IInv

LEMMA Stuttering ==
  ASSUME IInv, UNCHANGED vars
  PROVE  IInv'
<1>1. UNCHANGED <<case, stage, config, dataset, review, at, shown, files, exit>>
  BY DEF vars
<1>2. StageInv' /\ DataInv'
  BY <1>1 DEF IInv, StageInv, DataInv
<1>3. ReviewInv'
  BY <1>1 DEF IInv, ReviewInv, Reviewing
<1>4. Judged'
  BY <1>1, GateIsJudged DEF IInv, FilesInv, Judged
<1>5. FilesInv'
  BY <1>1, <1>4, GateIsJudged DEF IInv, FilesInv
<1> QED BY <1>2, <1>3, <1>5 DEF IInv

LEMMA Steps ==
  ASSUME ReviewAssumption, IInv, [Next]_vars
  PROVE  IInv'
BY MakeDatasetStep, GenerateAuthoringStep, DatasetImportStep, LoadReviewContextStep, EditEntryStep, LineDecidesStep,
   LineEndsStep, ScreenDecidesStep, ScreenMovesStep, QuitStep, WriteReviewStep, WriteMergedStep, JudgeGateStep,
   Stuttering DEF Next, Stop

-----------------------------------------------------------------------------
(***************************************************************************)
(* The results.                                                               *)
(***************************************************************************)
\* What every reachable state of a command on datasets satisfies: it is where
\* its stage says, and review, files and configuration are as its steps need.
THEOREM ReviewInvariant ==
  ASSUME ReviewAssumption
  PROVE  Spec => []IInv
<1>1. Init => IInv
  BY Initially
<1>2. IInv /\ [Next]_vars => IInv'
  BY Steps
<1> QED BY <1>1, <1>2, PTL DEF Spec

LEMMA TagRules ==
  ASSUME ReviewAssumption, IInv
  PROVE  TagRulesDoNotDecide
<1> SUFFICES ASSUME NEW i \in DOMAIN dataset.entries
             PROVE  LET deciding == [k \in DOMAIN case.rules |->
                          IF case.rules[k].action \in {"approve", "reject"} THEN case.rules[k]
                          ELSE [case.rules[k] EXCEPT !.action = "add-tags", !.add = {}]]
                        bare == [case.hand EXCEPT !.stable = {}, !.regression = {}, !.retag = {}]
                        Decision(rules, hand) ==
                          reviewScenario(i, dataset.entries[i], config, rules, hand, dataset.source).decision
                    IN  Decision(case.rules, case.hand) = Decision(deciding, bare)
  BY DEF TagRulesDoNotDecide
<1> DEFINE item == dataset.entries[i]
           e == buildReviewedEntry(item, config)
           bare == [case.hand EXCEPT !.stable = {}, !.regression = {}, !.retag = {}]
           Decision(rules, hand) == reviewScenario(i, item, config, rules, hand, dataset.source).decision
           Ruled(rules) == applyPolicyRules(item, e, rules, dataset.source).decision
           n == item.scenario.name
<1>1. /\ IsList(case.rules) /\ \A k \in DOMAIN case.rules : DOMAIN case.rules[k] = RuleFields
      /\ DOMAIN case.hand = {"approve", "reject", "stable", "regression", "retag"}
  BY GivenCase DEF IInv, StageInv
<1>2. Ruled(case.rules) = Ruled(Deciding(case.rules))
  <2> HIDE DEF item, e
  <2> QED BY <1>1, AddingDecidesNothing
<1>3. ASSUME NEW rules, NEW hand
      PROVE  Decision(rules, hand) = IF n \in hand.reject THEN "rejected"
                                     ELSE IF n \in hand.approve THEN "approved" ELSE Ruled(rules)
  <2>1. Decision(rules, hand) = applyReviewOptions(item, e, rules, hand, dataset.source).decision
    BY DEF reviewScenario
  <2> HIDE DEF item, e, Decision
  <2> QED BY <2>1 DEF applyReviewOptions
<1>4. bare.reject = case.hand.reject /\ bare.approve = case.hand.approve
  BY <1>1
<1> HIDE DEF item, e, Ruled, bare, n
<1>5. Decision(case.rules, case.hand) = Decision(Deciding(case.rules), bare)
  <2> HIDE DEF Decision
  <2> QED BY <1>2, <1>3, <1>4
<1> QED BY <1>5 DEF Deciding, item, bare

LEMMA CandidatesShown ==
  ASSUME ReviewAssumption, IInv
  PROVE  EveryCandidateIsShown
<1> SUFFICES ASSUME stage = "save", case.how = "screen"
             PROVE  shown = {review.entries[i].id : i \in DOMAIN review.entries}
  BY DEF EveryCandidateIsShown
<1>1. shown = Ids(review.entries, Len(review.entries)) /\ Reviewed(review.entries, dataset.entries)
  BY DEF IInv, ReviewInv, Reviewing
<1>2. DOMAIN review.entries = 1 .. Len(review.entries)
  BY <1>1, ListDomain DEF Reviewed, Rankable
<1> QED BY <1>1, <1>2 DEF Ids

\* What the command exits with is what the gate says of the review in its file,
\* whatever the reader edited and in whichever order (datasetReviewCmd); rules
\* and options that only add tags decide nothing (applyPolicyRules); and a
\* session on the screen ends with every candidate shown (afterScenarioAction).
THEOREM ReviewIsSafe ==
  ASSUME ReviewAssumption
  PROVE  Spec => [](GateIsOfTheWrittenReview /\ TagRulesDoNotDecide /\ EveryCandidateIsShown)
<1>1. Spec => []IInv
  BY ReviewInvariant
<1>2. IInv => GateIsOfTheWrittenReview /\ TagRulesDoNotDecide /\ EveryCandidateIsShown
  BY TagRules, CandidatesShown DEF IInv, FilesInv
<1> QED BY <1>1, <1>2, PTL

\* Which steps write a merged file, and what they write.
LEMMA MergedChanges ==
  ASSUME [Next]_vars, files'.merged # files.merged, IInv
  PROVE  \/ /\ stage = "merge"
            /\ files'.merged = <<MergeReviewedDatasetIntoConfig(config, review.entries)>>
         \/ /\ case.command = "import"
            /\ files'.merged = <<MergeDatasetIntoConfig(config, Scenarios(dataset.entries))>>
<1>1. files = [review |-> files.review, merged |-> files.merged]
  BY DEF IInv, FilesInv
<1>2. CASE DatasetImport
  BY <1>1, <1>2 DEF DatasetImport
<1>3. CASE WriteMerged
  BY <1>1, <1>3 DEF WriteMerged
<1>4. CASE WriteReview
  BY <1>1, <1>4 DEF WriteReview
<1>5. CASE \/ MakeDataset \/ GenerateAuthoring \/ LoadReviewContext \/ JudgeGate \/ Stop \/ UNCHANGED vars
  BY <1>5 DEF MakeDataset, GenerateAuthoring, LoadReviewContext, JudgeGate, Stop, vars
<1>6. CASE EditEntry \/ LineDecides \/ LineEnds \/ ScreenDecides \/ ScreenMoves \/ Quit
  BY <1>6 DEF EditEntry, LineDecides, LineEnds, ScreenDecides, ScreenMoves, Quit, Reading
<1> QED BY <1>2, <1>3, <1>4, <1>5, <1>6 DEF Next

LEMMA MergedStep ==
  ASSUME [Next]_vars, IInv, files'.merged # files.merged, case.command = "review"
  PROVE  MergedFrom(config, files.review[1].entries, files'.merged[1])
<1>1. stage = "merge" /\ files'.merged = <<MergeReviewedDatasetIntoConfig(config, review.entries)>>
  BY MergedChanges
<1>2. files.review[1].entries = review.entries
  BY <1>1, AtMerging
<1>3. files'.merged[1] = MergeReviewedDatasetIntoConfig(config, review.entries)
  BY <1>1
<1>4. Distinct(config) /\ IsList(review.entries) /\ \A i \in DOMAIN review.entries : IsScenario(review.entries[i].scenario)
  BY <1>1, AtMerging
<1> QED BY <1>2, <1>3, <1>4, ApprovedIsMerged

\* With something approved, what a review merges is the base configuration with
\* the approved scenarios in the places of those with their names, or at the
\* end, and nothing else (MergeReviewedDatasetIntoConfig, MergeDatasetIntoConfig).
THEOREM MergeIsReviewed ==
  ASSUME ReviewAssumption
  PROVE  Spec => MergedIsReviewed
<1>1. Spec => []IInv
  BY ReviewInvariant
<1>2. IInv /\ [Next]_vars =>
        [(files'.merged # files.merged /\ case.command = "review") =>
           LET entries == files.review[1].entries
               merged == files'.merged[1]
               approved == {i \in DOMAIN entries : entries[i].decision = "approved"}
               names == {entries[i].scenario.name : i \in approved}
           IN  approved # {} =>
                 /\ Len(merged) = Cardinality(Names(config) \cup names)
                 /\ \A i \in DOMAIN config : config[i].name \notin names => merged[i] = config[i]
                 /\ \A n \in names : \E i \in approved :
                      LET s == entries[i].scenario
                      IN  s.name = n /\ [merged[Position(merged, n)] EXCEPT !.meta = s.meta] = s]_vars
  BY MergedStep DEF MergedFrom
<1> QED BY <1>1, <1>2, PTL DEF Spec, MergedIsReviewed

LEMMA GeneratedStep ==
  ASSUME [Next]_vars, IInv, files'.merged # files.merged, dataset.source = "generation", config = case.config,
         files'.merged[1] # <<>>
  PROVE  SubSeq(files'.merged[1], 1, Len(config)) = config
<1>1. /\ Distinct(config) /\ Names(Scenarios(dataset.entries)) \cap Names(config) = {}
      /\ IsList(dataset.entries)
  BY DEF IInv, DataInv
<1>2. CASE stage = "merge" /\ files'.merged = <<MergeReviewedDatasetIntoConfig(config, review.entries)>>
  <2>1. files'.merged[1] = MergeReviewedDatasetIntoConfig(config, review.entries)
    BY <1>2
  <2>2. /\ IsList(review.entries) /\ \A i \in DOMAIN review.entries : IsScenario(review.entries[i].scenario)
        /\ \A i \in DOMAIN review.entries : review.entries[i].scenario.name \notin Names(config)
    BY <1>1, <1>2, AtMerging
  <2> QED BY <1>1, <2>1, <2>2, ApprovedIsMerged
<1>3. CASE files'.merged = <<MergeDatasetIntoConfig(config, Scenarios(dataset.entries))>>
  <2> DEFINE added == Scenarios(dataset.entries)
             merged == MergeDatasetIntoConfig(config, added)
  <2>1. files'.merged[1] = merged
    BY <1>3
  <2>2. IsList(added) /\ Names(added) \cap Names(config) = {}
    BY <1>1, ScenariosAreListed
  <2> HIDE DEF added
  <2>3. added # <<>>
    BY <2>1 DEF MergeDatasetIntoConfig
  <2>4. /\ Distinct(merged) /\ DOMAIN config \subseteq DOMAIN merged
        /\ \A i \in DOMAIN config : config[i].name \notin Names(added) => merged[i] = config[i]
    BY <1>1, <2>2, <2>3, MergeInPlace
  <2>5. \A i \in DOMAIN config : config[i].name \notin Names(added)
    BY <2>2 DEF Names
  <2> HIDE DEF merged
  <2> QED BY <1>1, <2>1, <2>4, <2>5, PrefixKept
<1> QED BY <1>2, <1>3, MergedChanges

\* A generated dataset that is merged into the configuration it was generated
\* for, whole or reviewed, leaves every scenario of it where it was
\* (decodeGeneratedScenarios, ensureUniqueName, MergeDatasetIntoConfig).
THEOREM GeneratedReplacesNothing ==
  ASSUME ReviewAssumption
  PROVE  Spec => GeneratedNeverReplaces
<1>1. Spec => []IInv
  BY ReviewInvariant
<1>2. IInv /\ [Next]_vars =>
        [(files'.merged # files.merged /\ dataset.source = "generation" /\ config = case.config
           /\ files'.merged[1] # <<>>)
           => SubSeq(files'.merged[1], 1, Len(config)) = config]_vars
  BY GeneratedStep
<1> QED BY <1>1, <1>2, PTL DEF Spec, GeneratedNeverReplaces

-----------------------------------------------------------------------------
(***************************************************************************)
(* Patches.  First, two general facts: what every step keeps is there at the  *)
(* end, and two runs of the same steps that meet end alike.                    *)
(***************************************************************************)
LEMMA Collects ==
  ASSUME NEW n \in Nat, NEW has, NEW more,
         \A k \in 1 .. n : has[k - 1] \cup more[k] \subseteq has[k]
  PROVE  \A k \in 1 .. n : more[k] \subseteq has[n]
<1> DEFINE good == {k \in 0 .. n : \A j \in 1 .. k : more[j] \subseteq has[k]}
<1>1. 0 \in good
  OBVIOUS
<1>2. \A k \in 0 .. n - 1 : k \in good => k + 1 \in good
  <2> SUFFICES ASSUME NEW k \in 0 .. n - 1, k \in good PROVE k + 1 \in good
    OBVIOUS
  <2>1. k + 1 \in 1 .. n /\ k + 1 \in 0 .. n /\ (k + 1) - 1 = k /\ \A j \in 1 .. k + 1 : j \in 1 .. k \/ j = k + 1
    OBVIOUS
  <2>2. has[k] \cup more[k + 1] \subseteq has[k + 1]
    BY <2>1
  <2> QED BY <2>1, <2>2
<1>3. good \in SUBSET (0 .. n)
  OBVIOUS
<1>4. n \in good
  <2> HIDE DEF good
  <2> QED BY <1>1, <1>2, <1>3, UpTo
<1> QED BY <1>4

LEMMA Meets ==
  ASSUME NEW n \in Nat, NEW g, NEW h,
         \A k \in 1 .. n : g[k - 1] = h[k - 1] => g[k] = h[k],
         \/ \E k \in 0 .. n : g[k] = h[k]
         \/ g[0] = h[n] /\ \A k \in 1 .. n : g[k - 1] = h[n] => g[k] = h[n]
  PROVE  g[n] = h[n]
<1>1. CASE \E k \in 0 .. n : g[k] = h[k]
  <2>1. PICK m \in 0 .. n : g[m] = h[m]
    BY <1>1
  <2> DEFINE good == {k \in 0 .. n : k >= m => g[k] = h[k]}
  <2>2. 0 \in good
    BY <2>1
  <2>3. \A k \in 0 .. n - 1 : k \in good => k + 1 \in good
    <3> SUFFICES ASSUME NEW k \in 0 .. n - 1, k \in good PROVE k + 1 \in good
      OBVIOUS
    <3>1. k + 1 \in 1 .. n /\ k + 1 \in 0 .. n /\ (k + 1) - 1 = k /\ (k + 1 >= m => k >= m \/ k + 1 = m)
      OBVIOUS
    <3> QED BY <2>1, <3>1
  <2>4. good \in SUBSET (0 .. n)
    OBVIOUS
  <2>5. n \in good
    <3> HIDE DEF good
    <3> QED BY <2>2, <2>3, <2>4, UpTo
  <2> QED BY <2>5
<1>2. CASE g[0] = h[n] /\ \A k \in 1 .. n : g[k - 1] = h[n] => g[k] = h[n]
  <2> DEFINE good == {k \in 0 .. n : g[k] = h[n]}
  <2>1. 0 \in good
    BY <1>2
  <2>2. \A k \in 0 .. n - 1 : k \in good => k + 1 \in good
    <3> SUFFICES ASSUME NEW k \in 0 .. n - 1, k \in good PROVE k + 1 \in good
      OBVIOUS
    <3>1. k + 1 \in 1 .. n /\ k + 1 \in 0 .. n /\ (k + 1) - 1 = k
      OBVIOUS
    <3> QED BY <1>2, <3>1
  <2>3. good \in SUBSET (0 .. n)
    OBVIOUS
  <2>4. n \in good
    <3> HIDE DEF good
    <3> QED BY <2>1, <2>2, <2>3, UpTo
  <2> QED BY <2>4
<1> QED BY <1>1, <1>2

-----------------------------------------------------------------------------
(* Appending what is not there.                                              *)
AddNew(list, v) == IF v \in ToSet(list) THEN list ELSE Append(list, v)

Adding(h, list, value) ==
  /\ h[0] = list /\ h[Len(value)] = AppendUnique(list, value)
  /\ \A k \in 1 .. Len(value) : h[k] = AddNew(h[k - 1], value[k])

LEMMA AddSteps ==
  ASSUME NEW list, NEW value, IsList(value)
  PROVE  \E h : Adding(h, list, value)
<1> DEFINE n == Len(value)
           Step(acc, i) == IF value[i] \in ToSet(acc) THEN acc ELSE Append(acc, value[i])
           IsFold(g, m) == g = [s \in SUBSET (1 .. m) |-> IF s = {} THEN list ELSE Step(g[s \ {Max(s)}], Max(s))]
           fold == CHOOSE g : IsFold(g, n)
<1>1. n \in Nat /\ DOMAIN value = 1 .. n
  BY ListDomain
<1>2. AppendUnique(list, value) = fold[1 .. n]
  BY <1>1 DEF AppendUnique, FoldLeft, MapThenFoldSet
<1> HIDE DEF n, Step
<1>3. \E g : IsFold(g, 0)
  <2>1. SUBSET (1 .. 0) = {{}}
    OBVIOUS
  <2> DEFINE g == [s \in SUBSET (1 .. 0) |-> list]
  <2>2. g = [s \in SUBSET (1 .. 0) |-> IF s = {} THEN list ELSE Step(g[s \ {Max(s)}], Max(s))]
    <3>1. \A s \in SUBSET (1 .. 0) : s = {}
      BY <2>1
    <3> QED BY <3>1
  <2> QED BY <2>2
<1>4. ASSUME NEW m \in Nat, NEW g, IsFold(g, m)
      PROVE  \E e : IsFold(e, m + 1)
  <2> DEFINE e == [s \in SUBSET (1 .. m + 1) |->
                     IF m + 1 \in s THEN Step(g[s \ {m + 1}], m + 1) ELSE g[s]]
  <2>1. ASSUME NEW s \in SUBSET (1 .. m + 1)
        PROVE  e[s] = IF s = {} THEN list ELSE Step(e[s \ {Max(s)}], Max(s))
    <3>1. CASE m + 1 \in s
      <4>1. Max(s) = m + 1 /\ s \ {m + 1} \in SUBSET (1 .. m) /\ s # {}
        BY <3>1, Largest
      <4>2. e[s \ {m + 1}] = g[s \ {m + 1}]
        BY <4>1
      <4> QED BY <3>1, <4>1, <4>2
    <3>2. CASE m + 1 \notin s
      <4>1. s \in SUBSET (1 .. m) /\ e[s] = g[s]
        BY <3>2
      <4>2. g[s] = IF s = {} THEN list ELSE Step(g[s \ {Max(s)}], Max(s))
        BY <1>4, <4>1
      <4>3. s \ {Max(s)} \in SUBSET (1 .. m + 1) /\ m + 1 \notin s \ {Max(s)}
        BY <3>2
      <4>4. e[s \ {Max(s)}] = g[s \ {Max(s)}]
        BY <4>3
      <4> QED BY <4>1, <4>2, <4>4
    <3> QED BY <3>1, <3>2
  <2>2. e = [s \in SUBSET (1 .. m + 1) |-> e[s]]
    OBVIOUS
  <2>3. IsFold(e, m + 1)
    <3> HIDE DEF e
    <3> QED BY <2>1, <2>2
  <2> QED BY <2>3
<1>5. \E g : IsFold(g, n)
  <2> DEFINE good == {m \in 0 .. n : \E g : IsFold(g, m)}
  <2>1. 0 \in good /\ \A k \in 0 .. n - 1 : k \in good => k + 1 \in good
    <3>1. 0 \in 0 .. n /\ \A k \in 0 .. n - 1 : k \in Nat /\ k + 1 \in 0 .. n
      BY <1>1
    <3> HIDE DEF IsFold
    <3> QED BY <1>3, <1>4, <3>1
  <2>2. n \in good
    <3> HIDE DEF good
    <3>1. good \in SUBSET (0 .. n)
      BY DEF good
    <3> QED BY <1>1, <2>1, <3>1, UpTo
  <2> QED BY <2>2
<1>6. IsFold(fold, n)
  <2> HIDE DEF IsFold
  <2> QED BY <1>5
<1> DEFINE h == [k \in 0 .. n |-> fold[1 .. k]]
<1>7. fold[1 .. 0] = list
  <2>1. 1 .. 0 = {} /\ 1 .. 0 \in SUBSET (1 .. n)
    OBVIOUS
  <2> HIDE DEF fold
  <2> QED BY <1>6, <2>1
<1>8. ASSUME NEW k \in 1 .. n PROVE h[k] = Step(h[k - 1], k)
  <2>1. k \in Nat \ {0} /\ k - 1 \in 0 .. n /\ k \in 0 .. n /\ 1 .. k \in SUBSET (1 .. n)
    BY <1>1
  <2>2. Max(1 .. k) = k /\ (1 .. k) \ {k} = 1 .. k - 1 /\ 1 .. k # {}
    BY <2>1, LastOfPrefix
  <2> HIDE DEF fold
  <2>3. fold[1 .. k] = Step(fold[1 .. k - 1], k)
    BY <1>6, <2>1, <2>2
  <2> QED BY <2>1, <2>3
<1>9. h[0] = list /\ h[n] = fold[1 .. n]
  BY <1>1, <1>7
<1>10. /\ h[0] = list /\ h[n] = AppendUnique(list, value)
       /\ \A k \in 1 .. n : h[k] = AddNew(h[k - 1], value[k])
  <2> HIDE DEF h, fold
  <2> QED BY <1>2, <1>8, <1>9 DEF Step, AddNew
<1> QED
  <2> HIDE DEF h, fold
  <2> QED BY <1>10 DEF n, Adding

LEMMA AddedNew ==
  ASSUME NEW list, IsList(list), NEW v
  PROVE  LET r == AddNew(list, v)
         IN  IsList(r) /\ ToSet(r) = ToSet(list) \cup {v} /\ (v \in ToSet(list) => r = list)
<1>1. CASE v \in ToSet(list)
  BY <1>1 DEF AddNew
<1>2. CASE v \notin ToSet(list)
  <2> DEFINE r == Append(list, v)
  <2>1. AddNew(list, v) = r
    BY <1>2 DEF AddNew
  <2>2. list \in Seq(ToSet(list) \cup {v}) /\ Len(list) \in Nat /\ DOMAIN list = 1 .. Len(list)
    <3>1. list \in Seq(ToSet(list)) /\ Len(list) \in Nat /\ DOMAIN list = 1 .. Len(list)
      BY ListDomain
    <3> QED BY <3>1
  <2>3. /\ r \in Seq(ToSet(list) \cup {v}) /\ DOMAIN r = 1 .. Len(list) + 1
        /\ \A i \in 1 .. Len(list) : r[i] = list[i]
        /\ r[Len(list) + 1] = v
    BY <2>2
  <2>4. ToSet(r) = ToSet(list) \cup {v}
    <3>1. \A i \in DOMAIN r : i \in DOMAIN list \/ i = Len(list) + 1
      BY <2>2, <2>3
    <3>2. Len(list) + 1 \in DOMAIN r /\ DOMAIN list \subseteq DOMAIN r
      BY <2>2, <2>3
    <3> HIDE DEF r
    <3> QED BY <2>2, <2>3, <3>1, <3>2 DEF ToSet
  <2> HIDE DEF r
  <2> QED BY <1>2, <2>1, <2>3, <2>4 DEF IsList
<1> QED BY <1>1, <1>2

\* The values are there once they are appended, and nothing changes when they
\* were there before.
LEMMA UniqueAppended ==
  ASSUME NEW list, IsList(list), NEW value, IsList(value)
  PROVE  LET r == AppendUnique(list, value)
         IN  /\ IsList(r) /\ ToSet(list) \cup ToSet(value) \subseteq ToSet(r)
             /\ ToSet(value) \subseteq ToSet(list) => r = list
<1> DEFINE n == Len(value)
<1>1. n \in Nat /\ DOMAIN value = 1 .. n
  BY ListDomain
<1>2. PICK h : /\ h[0] = list /\ h[n] = AppendUnique(list, value)
               /\ \A k \in 1 .. n : h[k] = AddNew(h[k - 1], value[k])
  BY AddSteps DEF Adding
<1> DEFINE Good(k) ==
      /\ IsList(h[k]) /\ ToSet(list) \subseteq ToSet(h[k]) /\ \A j \in 1 .. k : value[j] \in ToSet(h[k])
      /\ ToSet(value) \subseteq ToSet(list) => h[k] = list
<1>3. Good(0)
  BY <1>2
<1>4. ASSUME NEW k \in 0 .. n - 1, Good(k) PROVE Good(k + 1)
  <2>1. k + 1 \in 1 .. n /\ (k + 1) - 1 = k /\ \A j \in 1 .. k + 1 : j \in 1 .. k \/ j = k + 1
    BY <1>1
  <2>2. h[k + 1] = AddNew(h[k], value[k + 1]) /\ value[k + 1] \in ToSet(value)
    <3>1. h[k + 1] = AddNew(h[(k + 1) - 1], value[k + 1])
      BY <1>2, <2>1
    <3> QED BY <1>1, <2>1, <3>1 DEF ToSet
  <2>3. /\ IsList(h[k + 1]) /\ ToSet(h[k + 1]) = ToSet(h[k]) \cup {value[k + 1]}
        /\ value[k + 1] \in ToSet(h[k]) => h[k + 1] = h[k]
    BY <1>4, <2>2, AddedNew
  <2> QED BY <1>4, <2>1, <2>2, <2>3
<1>5. Good(n)
  <2> DEFINE good == {k \in 0 .. n : Good(k)}
  <2> HIDE DEF Good, n
  <2>1. 0 \in good /\ \A k \in 0 .. n - 1 : k \in good => k + 1 \in good
    <3>1. 0 \in 0 .. n /\ \A k \in 0 .. n - 1 : k + 1 \in 0 .. n
      BY <1>1
    <3> QED BY <1>3, <1>4, <3>1
  <2>2. good \in SUBSET (0 .. n)
    OBVIOUS
  <2>3. n \in good
    <3> HIDE DEF good
    <3> QED BY <1>1, <2>1, <2>2, UpTo
  <2> QED BY <2>3
<1>6. ToSet(value) \subseteq ToSet(h[n])
  BY <1>1, <1>5 DEF ToSet
<1> QED BY <1>2, <1>5, <1>6

-----------------------------------------------------------------------------
(* One patch.  The tags of a scenario and each list are set or grow.          *)
Tags(c, i) == c.scenarios[i].tags
OnTags(op, name) == Len(op.path) = 2 /\ op.path[2] = name
OnList(op, field) == Len(op.path) # 2 /\ op.path[1] = field

\* The same scenarios but for their tags, and the same fields.
Alike(c, d) ==
  /\ DOMAIN c.scenarios = DOMAIN d.scenarios /\ DOMAIN c.lists = DOMAIN d.lists
  /\ \A i \in DOMAIN c.scenarios : d.scenarios[i] = [c.scenarios[i] EXCEPT !.tags = Tags(d, i)]

Refused(c, op) ==
  \/ op.op \notin {"set", "append_unique"} \/ ~resolvePatchParent(c, op.path)
  \/ Len(op.path) # 2 /\ op.path[1] \in DOMAIN c.lists /\ op.value = <<>> /\ op.op = "set"

TagsAfter(c, op, i) ==
  IF ~OnTags(op, c.scenarios[i].name) THEN Tags(c, i)
  ELSE IF op.op = "set" THEN ToSet(op.value) ELSE Tags(c, i) \cup ToSet(op.value)

ListAfter(c, op, field) ==
  IF ~OnList(op, field) THEN c.lists[field]
  ELSE IF op.op = "set" THEN op.value ELSE AppendUnique(c.lists[field], op.value)

LEMMA ConfigShape ==
  ASSUME NEW c, IsConfig(c)
  PROVE  /\ Distinct(c.scenarios) /\ Len(c.scenarios) \in Nat /\ DOMAIN c.scenarios = 1 .. Len(c.scenarios)
         /\ c.scenarios \in Seq(ToSet(c.scenarios))
         /\ c = [scenarios |-> c.scenarios, lists |-> c.lists]
         /\ c.lists = [field \in DOMAIN c.lists |-> c.lists[field]]
         /\ \A i \in DOMAIN c.scenarios : IsScenario(c.scenarios[i])
         /\ \A field \in DOMAIN c.lists : IsList(c.lists[field])
<1>1. \A i \in DOMAIN c.scenarios : c.scenarios[i] \in ToSet(c.scenarios)
  BY DEF ToSet
<1>2. c.lists = [field \in DOMAIN c.lists |-> c.lists[field]]
  BY DEF IsConfig
<1>3. Distinct(c.scenarios)
  BY DEF IsConfig, Distinct, IsList
<1>4. \A field \in DOMAIN c.lists : IsList(c.lists[field])
  BY DEF IsConfig, IsList
<1>5. c = [scenarios |-> c.scenarios, lists |-> c.lists]
  BY <1>2 DEF IsConfig
<1>6. \A i \in DOMAIN c.scenarios : IsScenario(c.scenarios[i])
  BY <1>1 DEF IsConfig
<1>7. Len(c.scenarios) \in Nat /\ DOMAIN c.scenarios = 1 .. Len(c.scenarios) /\ c.scenarios \in Seq(ToSet(c.scenarios))
  BY <1>3, ListDomain DEF Distinct
<1> QED BY <1>2, <1>3, <1>4, <1>5, <1>6, <1>7

LEMMA ShapeIsConfig ==
  ASSUME NEW s, Distinct(s), \A i \in DOMAIN s : IsScenario(s[i]),
         NEW l, l = [field \in DOMAIN l |-> l[field]], \A field \in DOMAIN l : IsList(l[field])
  PROVE  IsConfig([scenarios |-> s, lists |-> l])
<1> DEFINE c == [scenarios |-> s, lists |-> l]
<1>1. c.scenarios = s /\ c.lists = l
  OBVIOUS
<1>2. s \in Seq(ToSet(s)) /\ \A x \in ToSet(s) : IsScenario(x)
  BY ListDomain DEF Distinct, ToSet
<1>3. \A field \in DOMAIN l : l[field] \in Seq(ToSet(l[field]))
  BY ListDomain
<1>4. c = [scenarios |-> c.scenarios, lists |-> [field \in DOMAIN c.lists |-> c.lists[field]]]
  OBVIOUS
<1> HIDE DEF c
<1> QED BY <1>1, <1>2, <1>3, <1>4 DEF IsConfig, Distinct, c

LEMMA TagsChanged ==
  ASSUME NEW s, Distinct(s), \A i \in DOMAIN s : IsScenario(s[i]), NEW p \in DOMAIN s, NEW t
  PROVE  LET r == [s EXCEPT ![p].tags = t]
         IN  /\ Distinct(r) /\ DOMAIN r = DOMAIN s
             /\ \A i \in DOMAIN s : IsScenario(r[i]) /\ r[i] = [s[i] EXCEPT !.tags = IF i = p THEN t ELSE s[i].tags]
<1> DEFINE r == [s EXCEPT ![p].tags = t]
<1>1. Len(s) \in Nat /\ DOMAIN s = 1 .. Len(s) /\ s \in Seq(ToSet(s))
  BY ListDomain DEF Distinct
<1>2. \A x, y : IsScenario(x) => /\ IsScenario([x EXCEPT !.tags = y]) /\ [x EXCEPT !.tags = y].name = x.name
                                 /\ [x EXCEPT !.tags = x.tags] = x /\ [x EXCEPT !.tags = y].tags = y
  BY DEF IsScenario
<1>3. r = [i \in DOMAIN s |-> [s[i] EXCEPT !.tags = IF i = p THEN t ELSE s[i].tags]]
  <2>1. r = [s EXCEPT ![p] = [s[p] EXCEPT !.tags = t]]
    OBVIOUS
  <2>2. \A i \in DOMAIN s : r[i] = [s[i] EXCEPT !.tags = IF i = p THEN t ELSE s[i].tags]
    BY <1>2, <2>1
  <2>3. r = [i \in DOMAIN s |-> r[i]]
    OBVIOUS
  <2> HIDE DEF r
  <2> QED BY <2>2, <2>3
<1> HIDE DEF r
<1>4. \A i \in DOMAIN s : IsScenario(r[i]) /\ r[i].name = s[i].name /\ r[i] = [s[i] EXCEPT !.tags = IF i = p THEN t ELSE s[i].tags]
  <2> SUFFICES ASSUME NEW i \in DOMAIN s
               PROVE  /\ IsScenario(r[i]) /\ r[i].name = s[i].name
                      /\ r[i] = [s[i] EXCEPT !.tags = IF i = p THEN t ELSE s[i].tags]
    OBVIOUS
  <2> DEFINE y == IF i = p THEN t ELSE s[i].tags
  <2>1. r[i] = [s[i] EXCEPT !.tags = y]
    BY <1>3
  <2> HIDE DEF y
  <2>2. IsScenario(r[i]) /\ r[i].name = s[i].name
    BY <1>2, <2>1
  <2> QED BY <2>1, <2>2 DEF y
<1>5. DOMAIN r = DOMAIN s
  BY <1>3
<1>6. IsList(r)
  <2>1. r \in [1 .. Len(s) -> ToSet(r)]
    <3>1. DOMAIN r = 1 .. Len(s) /\ r = [i \in DOMAIN r |-> r[i]]
      BY <1>1, <1>3
    <3> QED BY <3>1 DEF ToSet
  <2>2. \A S, n : n \in Nat => [1 .. n -> S] \subseteq Seq(S)
    OBVIOUS
  <2>3. r \in Seq(ToSet(r))
    BY <1>1, <2>1, <2>2
  <2> QED BY <2>3 DEF IsList
<1> QED BY <1>4, <1>5, <1>6 DEF Distinct, r

\* Whether an operation is refused depends on names and fields alone, and what
\* it does to the tags of a scenario or to a list depends on these.
LEMMA PatchEffect ==
  ASSUME NEW c, IsConfig(c), c # Invalid, NEW op, IsList(op.value), ~Refused(c, op)
  PROVE  LET r == applyConfigPatchOperation(c, op)
         IN  /\ IsConfig(r) /\ r # Invalid /\ Alike(c, r)
             /\ \A i \in DOMAIN c.scenarios : Tags(r, i) = TagsAfter(c, op, i)
             /\ \A field \in DOMAIN c.lists : r.lists[field] = ListAfter(c, op, field)
<1> DEFINE r == applyConfigPatchOperation(c, op)
           s == c.scenarios
           l == c.lists
<1>1. /\ Distinct(s) /\ Len(s) \in Nat /\ DOMAIN s = 1 .. Len(s) /\ s \in Seq(ToSet(s)) /\ c = [scenarios |-> s, lists |-> l]
      /\ l = [field \in DOMAIN l |-> l[field]] /\ \A i \in DOMAIN s : IsScenario(s[i])
      /\ \A field \in DOMAIN l : IsList(l[field])
  BY ConfigShape
<1>2. \A x : IsScenario(x) => [x EXCEPT !.tags = x.tags] = x
  BY DEF IsScenario
<1>3. CASE Len(op.path) = 2
  <2>1. op.path[2] \in Names(s)
    BY <1>3 DEF Refused, resolvePatchParent
  <2>2. PICK p \in DOMAIN s : s[p].name = op.path[2]
    BY <2>1 DEF Names
  <2>3. Position(s, op.path[2]) = p
    BY <1>1, <2>2, PositionOf
  <2> DEFINE t == IF op.op = "set" THEN ToSet(op.value) ELSE s[p].tags \cup ToSet(op.value)
             q == [s EXCEPT ![p].tags = t]
  <2>4. r = [c EXCEPT !.scenarios = q]
    <3>1. r = [c EXCEPT !.scenarios[Position(c.scenarios, op.path[2])].tags =
                        IF op.op = "set" THEN ToSet(op.value) ELSE @ \cup ToSet(op.value)]
      BY <1>3 DEF applyConfigPatchOperation, Refused
    <3> QED BY <2>3, <3>1
  <2>5. r = [scenarios |-> q, lists |-> l]
    BY <1>1, <2>4
  <2>6. /\ Distinct(q) /\ DOMAIN q = DOMAIN s
        /\ \A i \in DOMAIN s : IsScenario(q[i]) /\ q[i] = [s[i] EXCEPT !.tags = IF i = p THEN t ELSE s[i].tags]
    <3> HIDE DEF t, s
    <3> QED BY <1>1, <2>2, TagsChanged
  <2>7. \A x, y : IsScenario(x) => [x EXCEPT !.tags = y].tags = y
    BY DEF IsScenario
  <2>8. \A i \in DOMAIN s : q[i].tags = IF i = p THEN t ELSE s[i].tags
    <3> SUFFICES ASSUME NEW i \in DOMAIN s PROVE q[i].tags = IF i = p THEN t ELSE s[i].tags
      OBVIOUS
    <3> DEFINE y == IF i = p THEN t ELSE s[i].tags
    <3>1. q[i] = [s[i] EXCEPT !.tags = y] /\ IsScenario(s[i])
      <4> HIDE DEF q, t
      <4> QED BY <1>1, <2>6
    <3>2. q[i].tags = y
      <4> HIDE DEF q, y
      <4> QED BY <2>7, <3>1
    <3> QED BY <3>2
  <2>9. \A i \in DOMAIN s : i = p <=> OnTags(op, s[i].name)
    BY <1>1, <1>3, <2>2 DEF OnTags, Distinct
  <2>10. r.scenarios = q /\ r.lists = l
    BY <2>5
  <2>11. IsConfig(r)
    <3> HIDE DEF q, l
    <3> QED BY <1>1, <2>5, <2>6, ShapeIsConfig
  <2>12. \A i \in DOMAIN s : Tags(r, i) = TagsAfter(c, op, i)
    <3> HIDE DEF q
    <3> QED BY <2>8, <2>9, <2>10 DEF Tags, TagsAfter
  <2>13. \A field \in DOMAIN l : r.lists[field] = ListAfter(c, op, field)
    BY <1>3, <2>10 DEF ListAfter, OnList
  <2>14. Alike(c, r)
    <3> HIDE DEF q, t
    <3> QED BY <2>6, <2>8, <2>10 DEF Alike, Tags
  <2>15. r # Invalid
    <3>1. r.scenarios # <<>>
      BY <2>2, <2>6, <2>10
    <3> QED BY <3>1 DEF Invalid
  <2> QED BY <2>11, <2>12, <2>13, <2>14, <2>15
<1>4. CASE Len(op.path) # 2
  <2>1. \A i \in DOMAIN s : Tags(c, i) = TagsAfter(c, op, i)
    BY <1>4 DEF TagsAfter, OnTags
  <2>2. CASE op.path[1] \notin DOMAIN l
    <3>1. r = c
      BY <1>4, <2>2 DEF applyConfigPatchOperation, Refused
    <3>2. \A field \in DOMAIN l : r.lists[field] = ListAfter(c, op, field)
      BY <2>2, <3>1 DEF ListAfter, OnList
    <3>3. Alike(c, c)
      BY <1>1, <1>2 DEF Alike, Tags
    <3> HIDE DEF r
    <3> QED BY <2>1, <3>1, <3>2, <3>3 DEF r
  <2>3. CASE op.path[1] \in DOMAIN l
    <3> DEFINE f0 == op.path[1]
               v == IF op.op = "set" THEN op.value ELSE AppendUnique(l[f0], op.value)
               m == [l EXCEPT ![f0] = v]
    <3>1. r = [c EXCEPT !.lists = m]
      <4>1. r = [c EXCEPT !.lists[op.path[1]] = IF op.op = "set" THEN op.value ELSE AppendUnique(@, op.value)]
        BY <1>4, <2>3 DEF applyConfigPatchOperation, Refused
      <4> QED BY <4>1
    <3>2. r = [scenarios |-> s, lists |-> m]
      BY <1>1, <3>1
    <3>3. r.scenarios = s /\ r.lists = m
      BY <3>2
    <3>4. IsList(v)
      BY <1>1, <2>3, UniqueAppended
    <3>5. DOMAIN m = DOMAIN l /\ m = [field \in DOMAIN m |-> m[field]]
      BY <1>1
    <3>6. \A field \in DOMAIN l : m[field] = ListAfter(c, op, field)
      BY <1>1, <1>4, <2>3 DEF ListAfter, OnList
    <3>7. \A field \in DOMAIN m : IsList(m[field])
      BY <1>1, <2>3, <3>4
    <3>8. IsConfig(r)
      <4> HIDE DEF m, s
      <4> QED BY <1>1, <3>2, <3>5, <3>7, ShapeIsConfig
    <3>9. Alike(c, r)
      <4> HIDE DEF m
      <4> QED BY <1>1, <1>2, <3>3, <3>5 DEF Alike, Tags
    <3>10. r # Invalid
      <4>1. f0 \in DOMAIN r.lists
        BY <2>3, <3>3, <3>5
      <4>2. DOMAIN Invalid.lists = {}
        BY DEF Invalid
      <4> HIDE DEF r
      <4> QED BY <4>1, <4>2
    <3>11. \A i \in DOMAIN s : Tags(r, i) = TagsAfter(c, op, i)
      BY <2>1, <3>3 DEF Tags
    <3>12. \A field \in DOMAIN l : r.lists[field] = ListAfter(c, op, field)
      <4> HIDE DEF m
      <4> QED BY <3>3, <3>6
    <3> HIDE DEF r
    <3> QED BY <3>8, <3>9, <3>10, <3>11, <3>12 DEF r
  <2> QED BY <2>2, <2>3
<1> QED BY <1>3, <1>4

-----------------------------------------------------------------------------
(* What a second run of the same steps leaves of one set, and of one list.   *)
Grow(k, on, set, v, old) == IF k \notin on THEN old ELSE IF k \in set THEN v[k] ELSE old \cup v[k]
Extend(k, on, set, v, old) == IF k \notin on THEN old ELSE IF k \in set THEN v[k] ELSE AppendUnique(old, v[k])

BothGrow(n, on, set, v, g, h) ==
  \A k \in 1 .. n : g[k] = Grow(k, on, set, v, g[k - 1]) /\ h[k] = Grow(k, on, set, v, h[k - 1])

LEMMA SetsMeet ==
  ASSUME NEW n \in Nat, NEW on, NEW set, NEW v, NEW g, NEW h, BothGrow(n, on, set, v, g, h),
         g[0] = h[0] \/ g[0] = h[n]
  PROVE  g[n] = h[n]
<1> USE DEF BothGrow
<1>1. \A k \in 1 .. n : g[k - 1] = h[k - 1] => g[k] = h[k]
  OBVIOUS
<1>2. CASE \E k \in 1 .. n : k \in on /\ k \in set
  <2>1. \E k \in 0 .. n : g[k] = h[k]
    <3>1. PICK k \in 1 .. n : k \in on /\ k \in set
      BY <1>2
    <3>2. g[k] = Grow(k, on, set, v, g[k - 1]) /\ h[k] = Grow(k, on, set, v, h[k - 1])
      OBVIOUS
    <3>3. \A old : Grow(k, on, set, v, old) = v[k]
      BY <3>1, Zenon DEF Grow
    <3>4. k \in 0 .. n
      OBVIOUS
    <3> QED BY <3>2, <3>3, <3>4
  <2> QED BY <1>1, <2>1, Meets
<1>3. CASE g[0] = h[0]
  <2>1. \E k \in 0 .. n : g[k] = h[k]
    BY <1>3
  <2> QED BY <1>1, <2>1, Meets
<1>4. CASE g[0] = h[n] /\ \A k \in 1 .. n : k \in on => k \notin set
  <2> DEFINE more == [k \in 1 .. n |-> IF k \in on THEN v[k] ELSE {}]
  <2>1. \A k \in 1 .. n : h[k - 1] \cup more[k] \subseteq h[k]
    BY <1>4 DEF Grow
  <2>2. \A k \in 1 .. n : more[k] \subseteq h[n]
    <3> HIDE DEF more
    <3> QED BY <2>1, Collects
  <2>3. \A k \in 1 .. n : g[k - 1] = h[n] => g[k] = h[n]
    <3> SUFFICES ASSUME NEW k \in 1 .. n, g[k - 1] = h[n] PROVE g[k] = h[n]
      OBVIOUS
    <3>1. CASE k \notin on
      BY <3>1 DEF Grow
    <3>2. CASE k \in on
      <4>1. g[k] = h[n] \cup v[k]
        BY <1>4, <3>2 DEF Grow
      <4>2. v[k] \subseteq h[n]
        BY <2>2, <3>2
      <4> QED BY <4>1, <4>2
    <3> QED BY <3>1, <3>2
  <2> QED BY <1>1, <1>4, <2>3, Meets
<1> QED BY <1>2, <1>3, <1>4

BothExtend(n, on, set, v, g, h) ==
  /\ \A k \in 1 .. n : g[k] = Extend(k, on, set, v, g[k - 1]) /\ h[k] = Extend(k, on, set, v, h[k - 1])
  /\ \A k \in 0 .. n : IsList(h[k])
  /\ \A k \in 1 .. n : IsList(v[k])

LEMMA ListsMeet ==
  ASSUME NEW n \in Nat, NEW on, NEW set, NEW v, NEW g, NEW h, BothExtend(n, on, set, v, g, h), g[0] = h[n]
  PROVE  g[n] = h[n]
<1> USE DEF BothExtend
<1>1. \A k \in 1 .. n : g[k - 1] = h[k - 1] => g[k] = h[k]
  OBVIOUS
<1>2. CASE \E k \in 1 .. n : k \in on /\ k \in set
  <2>1. \E k \in 0 .. n : g[k] = h[k]
    BY <1>2 DEF Extend
  <2> QED BY <1>1, <2>1, Meets
<1>3. CASE \A k \in 1 .. n : k \in on => k \notin set
  <2> DEFINE more == [k \in 1 .. n |-> IF k \in on THEN ToSet(v[k]) ELSE {}]
             has == [k \in 0 .. n |-> ToSet(h[k])]
  <2>1. ASSUME NEW k \in 1 .. n PROVE has[k - 1] \cup more[k] \subseteq has[k]
    <3>1. k - 1 \in 0 .. n /\ k \in 0 .. n
      OBVIOUS
    <3>2. CASE k \notin on
      <4>1. h[k] = h[k - 1]
        BY <3>2 DEF Extend
      <4> QED BY <3>1, <3>2, <4>1
    <3>3. CASE k \in on
      <4>1. h[k] = AppendUnique(h[k - 1], v[k])
        BY <1>3, <3>3 DEF Extend
      <4>2. ToSet(h[k - 1]) \cup ToSet(v[k]) \subseteq ToSet(h[k])
        BY <3>1, <4>1, UniqueAppended
      <4> QED BY <3>1, <3>3, <4>2
    <3> QED BY <3>2, <3>3
  <2>2. \A k \in 1 .. n : more[k] \subseteq has[n]
    <3> HIDE DEF more, has
    <3> QED BY <2>1, Collects
  <2>3. \A k \in 1 .. n : g[k - 1] = h[n] => g[k] = h[n]
    <3> SUFFICES ASSUME NEW k \in 1 .. n, g[k - 1] = h[n] PROVE g[k] = h[n]
      OBVIOUS
    <3>1. CASE k \notin on
      BY <3>1 DEF Extend
    <3>2. CASE k \in on
      <4>1. g[k] = AppendUnique(h[n], v[k])
        BY <1>3, <3>2 DEF Extend
      <4>2. ToSet(v[k]) \subseteq ToSet(h[n])
        BY <2>2, <3>2
      <4>3. IsList(h[n])
        OBVIOUS
      <4> QED BY <4>1, <4>2, <4>3, UniqueAppended
    <3> QED BY <3>1, <3>2
  <2> QED BY <1>1, <2>3, Meets
<1> QED BY <1>2, <1>3

-----------------------------------------------------------------------------
(* The patches of an insight, one after the other.                           *)
Patching(h, c, ops) ==
  /\ h[0] = c /\ h[Len(ops)] = ApplyBraintrustConfigPatchSet(c, ops)
  /\ \A k \in 1 .. Len(ops) : h[k] = applyConfigPatchOperation(h[k - 1], ops[k])

LEMMA PatchSteps ==
  ASSUME NEW c, NEW ops, IsList(ops)
  PROVE  \E h : Patching(h, c, ops)
<1> DEFINE n == Len(ops)
           Step(acc, i) == applyConfigPatchOperation(acc, ops[i])
           IsFold(g, m) == g = [s \in SUBSET (1 .. m) |-> IF s = {} THEN c ELSE Step(g[s \ {Max(s)}], Max(s))]
           fold == CHOOSE g : IsFold(g, n)
<1>1. n \in Nat /\ DOMAIN ops = 1 .. n
  BY ListDomain
<1>2. ApplyBraintrustConfigPatchSet(c, ops) = fold[1 .. n]
  BY <1>1 DEF ApplyBraintrustConfigPatchSet, FoldLeft, MapThenFoldSet
<1> HIDE DEF n, Step
<1>3. \E g : IsFold(g, 0)
  <2>1. SUBSET (1 .. 0) = {{}}
    OBVIOUS
  <2> DEFINE g == [s \in SUBSET (1 .. 0) |-> c]
  <2>2. g = [s \in SUBSET (1 .. 0) |-> IF s = {} THEN c ELSE Step(g[s \ {Max(s)}], Max(s))]
    <3>1. \A s \in SUBSET (1 .. 0) : s = {}
      BY <2>1
    <3> QED BY <3>1
  <2> QED BY <2>2
<1>4. ASSUME NEW m \in Nat, NEW g, IsFold(g, m)
      PROVE  \E e : IsFold(e, m + 1)
  <2> DEFINE e == [s \in SUBSET (1 .. m + 1) |->
                     IF m + 1 \in s THEN Step(g[s \ {m + 1}], m + 1) ELSE g[s]]
  <2>1. ASSUME NEW s \in SUBSET (1 .. m + 1)
        PROVE  e[s] = IF s = {} THEN c ELSE Step(e[s \ {Max(s)}], Max(s))
    <3>1. CASE m + 1 \in s
      <4>1. Max(s) = m + 1 /\ s \ {m + 1} \in SUBSET (1 .. m) /\ s # {}
        BY <3>1, Largest
      <4>2. e[s \ {m + 1}] = g[s \ {m + 1}]
        BY <4>1
      <4> QED BY <3>1, <4>1, <4>2
    <3>2. CASE m + 1 \notin s
      <4>1. s \in SUBSET (1 .. m) /\ e[s] = g[s]
        BY <3>2
      <4>2. g[s] = IF s = {} THEN c ELSE Step(g[s \ {Max(s)}], Max(s))
        BY <1>4, <4>1
      <4>3. s \ {Max(s)} \in SUBSET (1 .. m + 1) /\ m + 1 \notin s \ {Max(s)}
        BY <3>2
      <4>4. e[s \ {Max(s)}] = g[s \ {Max(s)}]
        BY <4>3
      <4> QED BY <4>1, <4>2, <4>4
    <3> QED BY <3>1, <3>2
  <2>2. e = [s \in SUBSET (1 .. m + 1) |-> e[s]]
    OBVIOUS
  <2>3. IsFold(e, m + 1)
    <3> HIDE DEF e
    <3> QED BY <2>1, <2>2
  <2> QED BY <2>3
<1>5. \E g : IsFold(g, n)
  <2> DEFINE good == {m \in 0 .. n : \E g : IsFold(g, m)}
  <2>1. 0 \in good /\ \A k \in 0 .. n - 1 : k \in good => k + 1 \in good
    <3>1. 0 \in 0 .. n /\ \A k \in 0 .. n - 1 : k \in Nat /\ k + 1 \in 0 .. n
      BY <1>1
    <3> HIDE DEF IsFold
    <3> QED BY <1>3, <1>4, <3>1
  <2>2. n \in good
    <3> HIDE DEF good
    <3>1. good \in SUBSET (0 .. n)
      BY DEF good
    <3> QED BY <1>1, <2>1, <3>1, UpTo
  <2> QED BY <2>2
<1>6. IsFold(fold, n)
  <2> HIDE DEF IsFold
  <2> QED BY <1>5
<1> DEFINE h == [k \in 0 .. n |-> fold[1 .. k]]
<1>7. fold[1 .. 0] = c
  <2>1. 1 .. 0 = {} /\ 1 .. 0 \in SUBSET (1 .. n)
    OBVIOUS
  <2> HIDE DEF fold
  <2> QED BY <1>6, <2>1
<1>8. ASSUME NEW k \in 1 .. n PROVE h[k] = Step(h[k - 1], k)
  <2>1. k \in Nat \ {0} /\ k - 1 \in 0 .. n /\ k \in 0 .. n /\ 1 .. k \in SUBSET (1 .. n)
    BY <1>1
  <2>2. Max(1 .. k) = k /\ (1 .. k) \ {k} = 1 .. k - 1 /\ 1 .. k # {}
    BY <2>1, LastOfPrefix
  <2> HIDE DEF fold
  <2>3. fold[1 .. k] = Step(fold[1 .. k - 1], k)
    BY <1>6, <2>1, <2>2
  <2> QED BY <2>1, <2>3
<1>9. h[0] = c /\ h[n] = fold[1 .. n]
  BY <1>1, <1>7
<1>10. /\ h[0] = c /\ h[n] = ApplyBraintrustConfigPatchSet(c, ops)
       /\ \A k \in 1 .. n : h[k] = applyConfigPatchOperation(h[k - 1], ops[k])
  <2> HIDE DEF h, fold
  <2> QED BY <1>2, <1>8, <1>9 DEF Step
<1> QED
  <2> HIDE DEF h, fold
  <2> QED BY <1>10 DEF n, Patching

IsOps(ops) == IsList(ops) /\ \A k \in DOMAIN ops : IsList(ops[k].value)

LEMMA RefusedIsInvalid ==
  ASSUME NEW c, NEW op, c = Invalid \/ Refused(c, op)
  PROVE  applyConfigPatchOperation(c, op) = Invalid
BY DEF applyConfigPatchOperation, Refused

LEMMA AlikeItself ==
  ASSUME NEW c, IsConfig(c)
  PROVE  Alike(c, c)
<1>1. \A x : IsScenario(x) => [x EXCEPT !.tags = x.tags] = x
  BY DEF IsScenario
<1>2. \A i \in DOMAIN c.scenarios : IsScenario(c.scenarios[i])
  BY ConfigShape
<1>3. \A i \in DOMAIN c.scenarios : c.scenarios[i] = [c.scenarios[i] EXCEPT !.tags = Tags(c, i)]
  BY <1>1, <1>2, Zenon DEF Tags
<1> QED BY <1>3 DEF Alike

LEMMA AlikeAgain ==
  ASSUME NEW c, IsConfig(c), NEW d, IsConfig(d), NEW e, Alike(c, d), Alike(d, e)
  PROVE  Alike(c, e)
<1>1. \A i \in DOMAIN c.scenarios : IsScenario(c.scenarios[i])
  BY ConfigShape
<1>2. \A x, y, z : IsScenario(x) => [[x EXCEPT !.tags = y] EXCEPT !.tags = z] = [x EXCEPT !.tags = z]
  BY DEF IsScenario
<1>3. \A i \in DOMAIN c.scenarios : e.scenarios[i] = [c.scenarios[i] EXCEPT !.tags = Tags(e, i)]
  <2> SUFFICES ASSUME NEW i \in DOMAIN c.scenarios PROVE e.scenarios[i] = [c.scenarios[i] EXCEPT !.tags = Tags(e, i)]
    OBVIOUS
  <2>1. d.scenarios[i] = [c.scenarios[i] EXCEPT !.tags = Tags(d, i)]
    BY DEF Alike
  <2>2. e.scenarios[i] = [d.scenarios[i] EXCEPT !.tags = Tags(e, i)]
    BY DEF Alike
  <2> QED BY <1>1, <1>2, <2>1, <2>2
<1> QED BY <1>3 DEF Alike

LEMMA AlikeNames ==
  ASSUME NEW c, IsConfig(c), NEW d, Alike(c, d)
  PROVE  /\ \A i \in DOMAIN c.scenarios : d.scenarios[i].name = c.scenarios[i].name
         /\ Names(c.scenarios) = Names(d.scenarios)
         /\ \A op : Refused(c, op) <=> Refused(d, op)
<1>1. \A i \in DOMAIN c.scenarios : IsScenario(c.scenarios[i])
  BY ConfigShape
<1>2. \A x, y : IsScenario(x) => [x EXCEPT !.tags = y].name = x.name
  BY DEF IsScenario
<1>3. \A i \in DOMAIN c.scenarios : d.scenarios[i].name = c.scenarios[i].name
  <2> SUFFICES ASSUME NEW i \in DOMAIN c.scenarios PROVE d.scenarios[i].name = c.scenarios[i].name
    OBVIOUS
  <2>1. d.scenarios[i] = [c.scenarios[i] EXCEPT !.tags = Tags(d, i)] /\ IsScenario(c.scenarios[i])
    BY <1>1 DEF Alike
  <2> HIDE DEF Tags
  <2> QED BY <1>2, <2>1
<1>4. Names(c.scenarios) = Names(d.scenarios)
  BY <1>3 DEF Names, Alike
<1>5. \A op : Refused(c, op) <=> Refused(d, op)
  BY <1>4 DEF Refused, resolvePatchParent, Alike
<1> QED BY <1>3, <1>4, <1>5

\* A run in which nothing is refused.
LEMMA PatchRun ==
  ASSUME NEW c, IsConfig(c), c # Invalid, NEW ops, IsOps(ops), NEW h, Patching(h, c, ops),
         (\A k \in 1 .. Len(ops) : ~Refused(c, ops[k])) \/ (\A k \in 0 .. Len(ops) : h[k] # Invalid)
  PROVE  /\ \A k \in 0 .. Len(ops) : IsConfig(h[k]) /\ h[k] # Invalid /\ Alike(c, h[k])
         /\ \A k \in 1 .. Len(ops) : ~Refused(c, ops[k])
<1> DEFINE n == Len(ops)
           Good(k) == IsConfig(h[k]) /\ h[k] # Invalid /\ Alike(c, h[k])
<1>1. n \in Nat /\ DOMAIN ops = 1 .. n
  BY ListDomain DEF IsOps
<1>2. Good(0)
  <2>1. Alike(c, c)
    BY AlikeItself
  <2> QED BY <2>1 DEF Patching
<1>3. ASSUME NEW k \in 0 .. n - 1, Good(k) PROVE Good(k + 1) /\ ~Refused(c, ops[k + 1])
  <2>1. k + 1 \in 1 .. n /\ k + 1 \in 0 .. n /\ (k + 1) - 1 = k /\ k + 1 \in DOMAIN ops
    BY <1>1
  <2>2. h[k + 1] = applyConfigPatchOperation(h[k], ops[k + 1]) /\ IsList(ops[k + 1].value)
    <3>1. h[k + 1] = applyConfigPatchOperation(h[(k + 1) - 1], ops[k + 1])
      BY <2>1 DEF Patching
    <3> QED BY <2>1, <3>1 DEF IsOps
  <2>3. ~Refused(h[k], ops[k + 1])
    <3>1. CASE \A j \in 1 .. n : ~Refused(c, ops[j])
      BY <1>3, <2>1, <3>1, AlikeNames
    <3>2. CASE \A j \in 0 .. n : h[j] # Invalid
      BY <2>1, <2>2, <3>2, RefusedIsInvalid
    <3> QED BY <3>1, <3>2
  <2>4. IsConfig(h[k + 1]) /\ h[k + 1] # Invalid /\ Alike(h[k], h[k + 1])
    BY <1>3, <2>2, <2>3, PatchEffect
  <2>5. Alike(c, h[k + 1])
    BY <1>3, <2>4, AlikeAgain
  <2>6. ~Refused(c, ops[k + 1])
    BY <1>3, <2>3, AlikeNames
  <2> QED BY <2>4, <2>5, <2>6
<1>4. \A k \in 0 .. n : Good(k)
  <2> DEFINE good == {k \in 0 .. n : Good(k)}
  <2> HIDE DEF Good, n
  <2>1. 0 \in good /\ \A k \in 0 .. n - 1 : k \in good => k + 1 \in good
    <3>1. 0 \in 0 .. n /\ \A k \in 0 .. n - 1 : k + 1 \in 0 .. n
      BY <1>1
    <3> QED BY <1>2, <1>3, <3>1
  <2>2. good \in SUBSET (0 .. n)
    OBVIOUS
  <2>3. good = 0 .. n
    <3> HIDE DEF good
    <3> QED BY <1>1, <2>1, <2>2, UpTo
  <2> QED BY <2>3
<1>5. \A k \in 1 .. n : ~Refused(c, ops[k])
  <2> SUFFICES ASSUME NEW k \in 1 .. n PROVE ~Refused(c, ops[k])
    OBVIOUS
  <2>1. k - 1 \in 0 .. n - 1 /\ k - 1 \in 0 .. n /\ (k - 1) + 1 = k
    BY <1>1
  <2>2. Good(k - 1)
    BY <1>4, <2>1
  <2> HIDE DEF Good
  <2>3. ~Refused(c, ops[(k - 1) + 1])
    BY <1>3, <2>1, <2>2
  <2> QED BY <2>1, <2>3
<1> QED BY <1>4, <1>5

\* What ends in a configuration was one all the way.
LEMMA NeverInvalid ==
  ASSUME NEW c, NEW ops, IsOps(ops), NEW h, Patching(h, c, ops), h[Len(ops)] # Invalid
  PROVE  \A k \in 0 .. Len(ops) : h[k] # Invalid
<1> DEFINE n == Len(ops)
           good == {j \in 0 .. n : h[n - j] # Invalid}
<1>1. n \in Nat
  BY ListDomain DEF IsOps
<1> HIDE DEF n
<1>2. 0 \in good
  BY <1>1 DEF n
<1>3. \A j \in 0 .. n - 1 : j \in good => j + 1 \in good
  <2> SUFFICES ASSUME NEW j \in 0 .. n - 1, j \in good PROVE j + 1 \in good
    OBVIOUS
  <2> DEFINE k == n - j
  <2>1. k \in 1 .. n /\ k - 1 = n - (j + 1) /\ j + 1 \in 0 .. n
    BY <1>1
  <2>2. h[k] = applyConfigPatchOperation(h[k - 1], ops[k]) /\ h[k] # Invalid
    <3> HIDE DEF k
    <3>1. h[k] = applyConfigPatchOperation(h[k - 1], ops[k])
      BY <2>1 DEF Patching, n
    <3>2. h[n - j] # Invalid
      OBVIOUS
    <3> QED BY <3>1, <3>2 DEF k
  <2>3. h[k - 1] # Invalid
    <3> HIDE DEF k
    <3> QED BY <2>2, RefusedIsInvalid
  <2> QED BY <2>1, <2>3
<1>4. good \in SUBSET (0 .. n)
  OBVIOUS
<1>5. good = 0 .. n
  <2> HIDE DEF good
  <2> QED BY <1>1, <1>2, <1>3, <1>4, UpTo
<1>6. \A k \in 0 .. n : n - k \in 0 .. n /\ n - (n - k) = k
  BY <1>1
<1>7. \A k \in 0 .. n : h[k] # Invalid
  <2> SUFFICES ASSUME NEW k \in 0 .. n PROVE h[k] # Invalid
    OBVIOUS
  <2>1. n - k \in good
    BY <1>5, <1>6
  <2> QED BY <1>6, <2>1
<1> QED BY <1>7 DEF n

\* One step of a run, for the tags of a scenario and for a list.
StepOf(g, k, ops, c) ==
  /\ \A i \in DOMAIN c.scenarios :
       Tags(g[k], i) = IF ~OnTags(ops[k], c.scenarios[i].name) THEN Tags(g[k - 1], i)
                       ELSE IF ops[k].op = "set" THEN ToSet(ops[k].value)
                       ELSE Tags(g[k - 1], i) \cup ToSet(ops[k].value)
  /\ \A field \in DOMAIN c.lists :
       g[k].lists[field] = IF ~OnList(ops[k], field) THEN g[k - 1].lists[field]
                           ELSE IF ops[k].op = "set" THEN ops[k].value
                           ELSE AppendUnique(g[k - 1].lists[field], ops[k].value)

LEMMA RunSteps ==
  ASSUME NEW c, IsConfig(c), NEW d, IsConfig(d), d # Invalid, Alike(c, d), NEW ops, IsOps(ops),
         NEW g, Patching(g, d, ops), \A k \in 1 .. Len(ops) : ~Refused(c, ops[k])
  PROVE  /\ \A k \in 0 .. Len(ops) : IsConfig(g[k]) /\ Alike(c, g[k])
         /\ \A k \in 1 .. Len(ops) : StepOf(g, k, ops, c)
<1> DEFINE n == Len(ops)
<1>1. n \in Nat /\ DOMAIN ops = 1 .. n
  BY ListDomain DEF IsOps
<1>2. \A k \in 1 .. n : ~Refused(d, ops[k])
  BY AlikeNames
<1>3. \A k \in 0 .. n : IsConfig(g[k]) /\ g[k] # Invalid /\ Alike(d, g[k])
  BY <1>2, PatchRun
<1>4. \A k \in 0 .. n : Alike(c, g[k])
  BY <1>3, AlikeAgain
<1>5. ASSUME NEW k \in 1 .. n PROVE StepOf(g, k, ops, c)
  <2> DEFINE e == g[k - 1]
  <2>1. k - 1 \in 0 .. n /\ k \in DOMAIN ops
    BY <1>1
  <2>2. IsConfig(e) /\ e # Invalid /\ Alike(c, e) /\ IsList(ops[k].value)
    BY <1>3, <1>4, <2>1 DEF IsOps
  <2>3. g[k] = applyConfigPatchOperation(e, ops[k])
    BY DEF Patching
  <2> HIDE DEF e
  <2>4. ~Refused(e, ops[k])
    BY <2>2, AlikeNames
  <2>5. /\ \A i \in DOMAIN e.scenarios : Tags(g[k], i) = TagsAfter(e, ops[k], i)
        /\ \A field \in DOMAIN e.lists : g[k].lists[field] = ListAfter(e, ops[k], field)
    BY <2>2, <2>3, <2>4, PatchEffect
  <2>6. DOMAIN e.scenarios = DOMAIN c.scenarios /\ DOMAIN e.lists = DOMAIN c.lists
    BY <2>2 DEF Alike
  <2>7. \A i \in DOMAIN c.scenarios : e.scenarios[i].name = c.scenarios[i].name
    BY <2>2, AlikeNames
  <2>8. \A i \in DOMAIN c.scenarios :
          Tags(g[k], i) = IF ~OnTags(ops[k], c.scenarios[i].name) THEN Tags(e, i)
                          ELSE IF ops[k].op = "set" THEN ToSet(ops[k].value) ELSE Tags(e, i) \cup ToSet(ops[k].value)
    BY <2>5, <2>6, <2>7 DEF TagsAfter
  <2>9. \A field \in DOMAIN c.lists :
          g[k].lists[field] = IF ~OnList(ops[k], field) THEN e.lists[field]
                              ELSE IF ops[k].op = "set" THEN ops[k].value
                              ELSE AppendUnique(e.lists[field], ops[k].value)
    BY <2>5, <2>6 DEF ListAfter
  <2> QED BY <2>8, <2>9 DEF StepOf, e
<1> QED BY <1>3, <1>4, <1>5

BothRun(g, h, ops, c) ==
  /\ Len(ops) \in Nat
  /\ \A k \in 1 .. Len(ops) : StepOf(g, k, ops, c) /\ StepOf(h, k, ops, c) /\ IsList(ops[k].value)
  /\ \A k \in 0 .. Len(ops) : \A field \in DOMAIN c.lists : IsList(h[k].lists[field])

LEMMA TagsMeet ==
  ASSUME NEW c, NEW ops, NEW g, NEW h, BothRun(g, h, ops, c)
  PROVE  \A i \in DOMAIN c.scenarios :
           Tags(g[0], i) = Tags(h[0], i) \/ Tags(g[0], i) = Tags(h[Len(ops)], i)
             => Tags(g[Len(ops)], i) = Tags(h[Len(ops)], i)
<1> SUFFICES ASSUME NEW i \in DOMAIN c.scenarios,
                    Tags(g[0], i) = Tags(h[0], i) \/ Tags(g[0], i) = Tags(h[Len(ops)], i)
             PROVE  Tags(g[Len(ops)], i) = Tags(h[Len(ops)], i)
  OBVIOUS
<1> DEFINE n == Len(ops)
<1>0. n \in Nat /\ \A k \in 1 .. n : StepOf(g, k, ops, c) /\ StepOf(h, k, ops, c)
  BY DEF BothRun
<1> DEFINE on == {k \in 1 .. n : OnTags(ops[k], c.scenarios[i].name)}
           set == {k \in 1 .. n : ops[k].op = "set"}
           v == [k \in 1 .. n |-> ToSet(ops[k].value)]
           gt == [k \in 0 .. n |-> Tags(g[k], i)]
           ht == [k \in 0 .. n |-> Tags(h[k], i)]
<1>1. ASSUME NEW k \in 1 .. n
      PROVE  gt[k] = Grow(k, on, set, v, gt[k - 1]) /\ ht[k] = Grow(k, on, set, v, ht[k - 1])
  <2>1. k \in 0 .. n /\ k - 1 \in 0 .. n
    BY <1>0
  <2>2. /\ gt[k] = Tags(g[k], i) /\ gt[k - 1] = Tags(g[k - 1], i)
        /\ ht[k] = Tags(h[k], i) /\ ht[k - 1] = Tags(h[k - 1], i)
        /\ v[k] = ToSet(ops[k].value)
        /\ k \in on <=> OnTags(ops[k], c.scenarios[i].name)
        /\ k \in set <=> ops[k].op = "set"
    BY <2>1
  <2> HIDE DEF gt, ht, v, on, set
  <2> QED BY <1>0, <2>2 DEF StepOf, Grow
<1>2. gt[0] = ht[0] \/ gt[0] = ht[n]
  BY <1>0
<1>3. gt[n] = ht[n]
  <2> HIDE DEF gt, ht, v, on, set
  <2>1. BothGrow(n, on, set, v, gt, ht)
    BY <1>1 DEF BothGrow
  <2> QED BY <1>0, <1>2, <2>1, SetsMeet
<1> QED BY <1>0, <1>3

LEMMA FieldsMeet ==
  ASSUME NEW c, NEW ops, NEW g, NEW h, NEW field \in DOMAIN c.lists, BothRun(g, h, ops, c),
         g[0].lists[field] = h[Len(ops)].lists[field]
  PROVE  g[Len(ops)].lists[field] = h[Len(ops)].lists[field]
<1> DEFINE n == Len(ops)
<1>0. /\ n \in Nat /\ \A k \in 1 .. n : StepOf(g, k, ops, c) /\ StepOf(h, k, ops, c) /\ IsList(ops[k].value)
      /\ \A k \in 0 .. n : IsList(h[k].lists[field])
  BY DEF BothRun
<1> DEFINE on == {k \in 1 .. n : OnList(ops[k], field)}
           set == {k \in 1 .. n : ops[k].op = "set"}
           v == [k \in 1 .. n |-> ops[k].value]
           gl == [k \in 0 .. n |-> g[k].lists[field]]
           hl == [k \in 0 .. n |-> h[k].lists[field]]
<1>1. ASSUME NEW k \in 1 .. n
      PROVE  gl[k] = Extend(k, on, set, v, gl[k - 1]) /\ hl[k] = Extend(k, on, set, v, hl[k - 1])
  <2>1. k \in 0 .. n /\ k - 1 \in 0 .. n
    BY <1>0
  <2>2. /\ gl[k] = g[k].lists[field] /\ gl[k - 1] = g[k - 1].lists[field]
        /\ hl[k] = h[k].lists[field] /\ hl[k - 1] = h[k - 1].lists[field]
        /\ v[k] = ops[k].value
        /\ k \in on <=> OnList(ops[k], field)
        /\ k \in set <=> ops[k].op = "set"
    BY <2>1
  <2> HIDE DEF gl, hl, v, on, set
  <2> QED BY <1>0, <2>2 DEF StepOf, Extend
<1>2. gl[0] = hl[n]
  BY <1>0
<1>3. \A k \in 0 .. n : IsList(hl[k])
  BY <1>0
<1>4. \A k \in 1 .. n : IsList(v[k])
  BY <1>0
<1>5. gl[n] = hl[n]
  <2> HIDE DEF gl, hl, v, on, set
  <2>1. \A k \in 1 .. n : gl[k] = Extend(k, on, set, v, gl[k - 1]) /\ hl[k] = Extend(k, on, set, v, hl[k - 1])
    BY <1>1
  <2>2. BothExtend(n, on, set, v, gl, hl)
    BY <1>3, <1>4, <2>1 DEF BothExtend
  <2> QED BY <1>0, <1>2, <2>2, ListsMeet
<1> QED BY <1>0, <1>5

\* Configurations that are alike are one when tags and lists are.
LEMMA AlikeIsEqual ==
  ASSUME NEW c, IsConfig(c), NEW d, IsConfig(d), NEW e, IsConfig(e), Alike(c, d), Alike(c, e),
         \A i \in DOMAIN c.scenarios : Tags(d, i) = Tags(e, i),
         \A field \in DOMAIN c.lists : d.lists[field] = e.lists[field]
  PROVE  d = e
<1>1. d.lists = e.lists
  <2>1. d.lists = [field \in DOMAIN c.lists |-> d.lists[field]] /\ e.lists = [field \in DOMAIN c.lists |-> e.lists[field]]
    BY ConfigShape DEF Alike
  <2> QED BY <2>1
<1>2. \A i \in DOMAIN c.scenarios : d.scenarios[i] = e.scenarios[i]
  <2> SUFFICES ASSUME NEW i \in DOMAIN c.scenarios PROVE d.scenarios[i] = e.scenarios[i]
    OBVIOUS
  <2>1. /\ d.scenarios[i] = [c.scenarios[i] EXCEPT !.tags = Tags(d, i)]
        /\ e.scenarios[i] = [c.scenarios[i] EXCEPT !.tags = Tags(e, i)]
    BY DEF Alike
  <2>2. Tags(d, i) = Tags(e, i)
    OBVIOUS
  <2> QED BY <2>1, <2>2
<1>3. d.scenarios = e.scenarios
  <2>1. \A l : IsList(l) => l = [i \in DOMAIN l |-> l[i]]
    BY DEF IsList
  <2>2. IsList(d.scenarios) /\ IsList(e.scenarios)
    BY ConfigShape DEF Distinct
  <2>3. DOMAIN d.scenarios = DOMAIN c.scenarios /\ DOMAIN e.scenarios = DOMAIN c.scenarios
    BY DEF Alike
  <2>4. d.scenarios = [i \in DOMAIN c.scenarios |-> d.scenarios[i]] /\ e.scenarios = [i \in DOMAIN c.scenarios |-> e.scenarios[i]]
    BY <2>1, <2>2, <2>3
  <2> QED BY <1>2, <2>4
<1>4. d = [scenarios |-> d.scenarios, lists |-> d.lists] /\ e = [scenarios |-> e.scenarios, lists |-> e.lists]
  BY ConfigShape
<1> QED BY <1>1, <1>3, <1>4

LEMMA AlikeIsValid ==
  ASSUME NEW c, IsConfig(c), c # Invalid, NEW d, Alike(c, d)
  PROVE  d # Invalid
<1> SUFFICES ASSUME d = Invalid PROVE FALSE
  OBVIOUS
<1>1. DOMAIN d.scenarios = {} /\ DOMAIN d.lists = {}
  BY DEF Invalid
<1>2. DOMAIN c.scenarios = {} /\ DOMAIN c.lists = {}
  BY <1>1 DEF Alike
<1>3. \A l : IsList(l) => l = [i \in DOMAIN l |-> l[i]]
  BY DEF IsList
<1>4. c.scenarios = [i \in DOMAIN c.scenarios |-> c.scenarios[i]] /\ c.lists = [field \in DOMAIN c.lists |-> c.lists[field]]
  BY <1>3, ConfigShape DEF Distinct
<1>5. \A f, h : f = [x \in DOMAIN f |-> f[x]] /\ h = [x \in DOMAIN h |-> h[x]] /\ DOMAIN f = {} /\ DOMAIN h = {} => f = h
  OBVIOUS
<1>6. <<>> = [x \in DOMAIN <<>> |-> <<>>[x]] /\ DOMAIN <<>> = {}
  OBVIOUS
<1>7. c.scenarios = <<>> /\ c.lists = <<>>
  BY <1>2, <1>4, <1>5, <1>6
<1> QED BY <1>7, ConfigShape DEF Invalid

\* The operations of an insight, applied again to what came out, whatever the
\* scenarios they had set are set to before that.
LEMMA PatchedTwice ==
  ASSUME NEW c, IsConfig(c), NEW d, IsConfig(d), Alike(c, d), NEW ops, IsOps(ops),
         NEW once, once = ApplyBraintrustConfigPatchSet(c, ops), once # Invalid,
         \A i \in DOMAIN c.scenarios : Tags(d, i) = Tags(c, i) \/ Tags(d, i) = Tags(once, i),
         d.lists = once.lists
  PROVE  ApplyBraintrustConfigPatchSet(d, ops) = once
<1> DEFINE n == Len(ops)
<1>1. n \in Nat /\ DOMAIN ops = 1 .. n
  BY ListDomain DEF IsOps
<1>2. PICK h : Patching(h, c, ops)
  BY PatchSteps DEF IsOps
<1>3. PICK g : Patching(g, d, ops)
  BY PatchSteps DEF IsOps
<1>4. h[0] = c /\ h[n] = once /\ g[0] = d /\ g[n] = ApplyBraintrustConfigPatchSet(d, ops)
  BY <1>2, <1>3 DEF Patching
<1>5. \A k \in 0 .. n : h[k] # Invalid
  BY <1>2, <1>4, NeverInvalid
<1>6. c # Invalid
  BY <1>1, <1>4, <1>5
<1>7. \A k \in 1 .. n : ~Refused(c, ops[k])
  BY <1>2, <1>5, <1>6, PatchRun
<1>8. /\ \A k \in 0 .. n : IsConfig(h[k]) /\ Alike(c, h[k])
      /\ \A k \in 1 .. n : StepOf(h, k, ops, c)
  <2>1. h[0] = c /\ 0 \in 0 .. n
    BY <1>1, <1>4
  <2>2. \A k \in 0 .. n : IsConfig(h[k]) /\ h[k] # Invalid /\ Alike(c, h[k])
    BY <1>2, <1>5, <1>6, PatchRun
  <2>3. Alike(c, c)
    BY <2>1, <2>2
  <2> QED BY <1>2, <1>6, <1>7, <2>3, RunSteps
<1>9. d # Invalid
  BY <1>6, AlikeIsValid
<1>10. /\ \A k \in 0 .. n : IsConfig(g[k]) /\ Alike(c, g[k])
       /\ \A k \in 1 .. n : StepOf(g, k, ops, c)
  BY <1>3, <1>7, <1>9, RunSteps
<1>11. BothRun(g, h, ops, c)
  <2>1. \A k \in 0 .. n : \A field \in DOMAIN c.lists : IsList(h[k].lists[field])
    BY <1>8, ConfigShape DEF Alike
  <2>2. \A k \in 1 .. n : IsList(ops[k].value)
    BY <1>1 DEF IsOps
  <2> QED BY <1>1, <1>8, <1>10, <2>1, <2>2 DEF BothRun
<1>12. /\ \A i \in DOMAIN c.scenarios : Tags(g[n], i) = Tags(h[n], i)
       /\ \A field \in DOMAIN c.lists : g[n].lists[field] = h[n].lists[field]
  <2>1. ASSUME NEW i \in DOMAIN c.scenarios PROVE Tags(g[n], i) = Tags(h[n], i)
    <3>1. Tags(g[0], i) = Tags(h[0], i) \/ Tags(g[0], i) = Tags(h[n], i)
      BY <1>4
    <3> QED BY <1>11, <3>1, TagsMeet
  <2>2. ASSUME NEW field \in DOMAIN c.lists PROVE g[n].lists[field] = h[n].lists[field]
    <3>1. g[0].lists[field] = h[n].lists[field]
      BY <1>4
    <3> QED BY <1>11, <3>1, FieldsMeet
  <2> QED BY <2>1, <2>2
<1>13. IsConfig(g[n]) /\ Alike(c, g[n]) /\ IsConfig(h[n]) /\ Alike(c, h[n])
  BY <1>1, <1>8, <1>10
<1>14. g[n] = h[n]
  BY <1>12, <1>13, AlikeIsEqual
<1> QED BY <1>4, <1>14

LEMMA PatchedIsAlike ==
  ASSUME NEW c, IsConfig(c), NEW ops, IsOps(ops),
         NEW once, once = ApplyBraintrustConfigPatchSet(c, ops), once # Invalid
  PROVE  IsConfig(once) /\ Alike(c, once)
<1>1. PICK h : Patching(h, c, ops)
  BY PatchSteps DEF IsOps
<1>2. Len(ops) \in Nat /\ h[0] = c /\ h[Len(ops)] = once
  BY <1>1, ListDomain DEF Patching, IsOps
<1>3. \A k \in 0 .. Len(ops) : h[k] # Invalid
  BY <1>1, <1>2, NeverInvalid
<1>4. c # Invalid /\ Len(ops) \in 0 .. Len(ops)
  BY <1>2, <1>3
<1>5. IsConfig(h[Len(ops)]) /\ Alike(c, h[Len(ops)])
  BY <1>1, <1>3, <1>4, PatchRun
<1> QED BY <1>2, <1>5

-----------------------------------------------------------------------------
(* The scenarios of an insight, merged and merged again.                     *)
LEMMA MergeAgain ==
  ASSUME NEW base, Distinct(base), NEW added, IsList(added), added # <<>>,
         NEW merged, merged = MergeDatasetIntoConfig(base, added),
         NEW now, Distinct(now), DOMAIN now = DOMAIN merged,
         \A i \in DOMAIN merged : now[i].name = merged[i].name
  PROVE  LET again == MergeDatasetIntoConfig(now, added)
         IN  /\ Distinct(again) /\ DOMAIN again = DOMAIN merged
             /\ \A i \in DOMAIN merged : again[i] = merged[i] \/ again[i] = now[i]
<1> DEFINE again == MergeDatasetIntoConfig(now, added)
<1>1. /\ Distinct(merged) /\ Names(merged) = Names(base) \cup Names(added)
      /\ \A i \in DOMAIN merged : merged[i].name \in Names(added) =>
           \E j \in DOMAIN added : merged[i] = added[j] /\ LastNamed(added, j, Len(added))
  BY MergeInPlace
<1>2. /\ Distinct(again) /\ Names(again) = Names(now) \cup Names(added)
      /\ DOMAIN now \subseteq DOMAIN again
      /\ \A i \in DOMAIN now : again[i].name = now[i].name
      /\ \A i \in DOMAIN now : now[i].name \notin Names(added) => again[i] = now[i]
      /\ \A i \in DOMAIN again : again[i].name \in Names(added) =>
           \E j \in DOMAIN added : again[i] = added[j] /\ LastNamed(added, j, Len(added))
  BY MergeInPlace
<1> HIDE DEF again
<1>3. Names(now) = Names(merged)
  BY DEF Names
<1>4. Names(again) = Names(now)
  BY <1>1, <1>2, <1>3
<1>5. DOMAIN added = 1 .. Len(added) /\ Len(added) \in Nat
  BY ListDomain
<1>6. \A i \in DOMAIN now : again[i].name = now[i].name
  BY <1>2
<1>7. DOMAIN again = DOMAIN now
  <2> SUFFICES ASSUME NEW i \in DOMAIN again PROVE i \in DOMAIN now
    BY <1>2
  <2>1. PICK k \in DOMAIN now : now[k].name = again[i].name
    BY <1>4 DEF Names
  <2>2. k \in DOMAIN again /\ again[k].name = again[i].name
    BY <1>2, <1>6, <2>1
  <2>3. k = i
    BY <1>2, <2>2 DEF Distinct
  <2> QED BY <2>3
<1>8. ASSUME NEW i \in DOMAIN merged PROVE again[i] = merged[i] \/ again[i] = now[i]
  <2>1. CASE now[i].name \notin Names(added)
    BY <1>2, <2>1
  <2>2. CASE now[i].name \in Names(added)
    <3>1. PICK j \in DOMAIN added : merged[i] = added[j] /\ LastNamed(added, j, Len(added))
      BY <1>1, <2>2
    <3>2. again[i].name \in Names(added) /\ i \in DOMAIN again
      BY <1>6, <1>7, <2>2
    <3>3. PICK k \in DOMAIN added : again[i] = added[k] /\ LastNamed(added, k, Len(added))
      BY <1>2, <3>2
    <3>4. added[j].name = added[k].name
      BY <1>6, <3>1, <3>3
    <3>5. j = k
      BY <1>5, <3>1, <3>3, <3>4 DEF LastNamed
    <3> QED BY <3>1, <3>3, <3>5
  <2> QED BY <2>1, <2>2
<1> QED BY <1>2, <1>7, <1>8 DEF again

LEMMA MergedIsScenarios ==
  ASSUME NEW base, IsList(base), \A i \in DOMAIN base : IsScenario(base[i]),
         NEW added, IsList(added), \A i \in DOMAIN added : IsScenario(added[i])
  PROVE  LET merged == MergeDatasetIntoConfig(base, added)
         IN  IsList(merged) /\ \A i \in DOMAIN merged : IsScenario(merged[i])
<1>1. CASE added = <<>>
  <2>1. MergeDatasetIntoConfig(base, added) = <<>>
    BY <1>1 DEF MergeDatasetIntoConfig
  <2>2. IsList(<<>>) /\ DOMAIN <<>> = {}
    BY DEF IsList
  <2> QED BY <2>1, <2>2
<1>2. CASE added # <<>>
  <2> DEFINE n == Len(added)
  <2>1. n \in Nat /\ DOMAIN added = 1 .. n
    BY ListDomain
  <2>2. PICK h : Merging(h, base, added)
    BY <1>2, MergeSteps
  <2> DEFINE Good(l) == IsList(l) /\ \A i \in DOMAIN l : IsScenario(l[i])
             good == {k \in 0 .. n : Good(h[k])}
  <2>3. \A l, s : Good(l) /\ IsScenario(s) => Good(Put(l, s))
    <3> SUFFICES ASSUME NEW l, Good(l), NEW s, IsScenario(s) PROVE Good(Put(l, s))
      OBVIOUS
    <3>1. Len(l) \in Nat /\ DOMAIN l = 1 .. Len(l) /\ l \in Seq(ToSet(l))
      BY ListDomain
    <3>2. l \in Seq(ToSet(l) \cup {s})
      BY <3>1
    <3>3. CASE s.name \in Names(l)
      <4> DEFINE p == Position(l, s.name)
                 r == [l EXCEPT ![p] = s]
      <4>1. Put(l, s) = r
        BY <3>3 DEF Put
      <4> DEFINE S == ToSet(l) \cup {s}
      <4> HIDE DEF p
      <4>2. r \in Seq(S) /\ DOMAIN r = DOMAIN l
        <5>1. \A i \in 1 .. Len(l) : l[i] \in S
          BY <3>1, <3>2
        <5>2. s \in S
          OBVIOUS
        <5> HIDE DEF S
        <5>3. r \in [1 .. Len(l) -> S] /\ DOMAIN r = DOMAIN l
          BY <3>1, <5>1, <5>2
        <5>4. [1 .. Len(l) -> S] \subseteq Seq(S)
          BY <3>1
        <5> QED BY <5>3, <5>4
      <4>3. \A i \in DOMAIN r : IsScenario(r[i])
        BY <4>2
      <4> HIDE DEF r
      <4>4. Good(r)
        BY <4>2, <4>3 DEF IsList
      <4> QED BY <4>1, <4>4
    <3>4. CASE s.name \notin Names(l)
      <4> DEFINE r == Append(l, s)
      <4>1. Put(l, s) = r
        BY <3>4 DEF Put
      <4>2. r \in Seq(ToSet(l) \cup {s}) /\ DOMAIN r = 1 .. Len(l) + 1
        BY <3>2
      <4>3. \A i \in DOMAIN r : r[i] = IF i \in DOMAIN l THEN l[i] ELSE s
        BY <3>1, <3>2
      <4> HIDE DEF r
      <4>4. \A i \in DOMAIN r : IsScenario(r[i])
        BY <4>3
      <4>5. Good(r)
        BY <4>2, <4>4 DEF IsList
      <4> QED BY <4>1, <4>5
    <3> QED BY <3>3, <3>4
  <2>4. 0 \in good
    BY <2>1, <2>2 DEF Merging
  <2>5. \A k \in 0 .. n - 1 : k \in good => k + 1 \in good
    <3> SUFFICES ASSUME NEW k \in 0 .. n - 1, k \in good PROVE k + 1 \in good
      OBVIOUS
    <3>1. k + 1 \in 1 .. n /\ k + 1 \in 0 .. n /\ (k + 1) - 1 = k
      BY <2>1
    <3>2. h[k + 1] = Put(h[(k + 1) - 1], added[k + 1]) /\ IsScenario(added[k + 1])
      BY <2>1, <2>2, <3>1 DEF Merging
    <3>3. Good(h[k])
      OBVIOUS
    <3> HIDE DEF Good
    <3>4. Good(h[k + 1])
      BY <2>3, <3>1, <3>2, <3>3
    <3> QED BY <3>1, <3>4
  <2>6. good \in SUBSET (0 .. n)
    OBVIOUS
  <2>7. n \in good
    <3> HIDE DEF good
    <3> QED BY <2>1, <2>4, <2>5, <2>6, UpTo
  <2>8. h[n] = MergeDatasetIntoConfig(base, added)
    BY <2>2 DEF Merging
  <2> QED BY <2>7, <2>8
<1> QED BY <1>1, <1>2

\* A configuration with the scenarios of an insight in it.
LEMMA MergedConfig ==
  ASSUME NEW c, IsConfig(c), NEW added, IsList(added), added # <<>>, \A i \in DOMAIN added : IsScenario(added[i])
  PROVE  LET m == [c EXCEPT !.scenarios = MergeDatasetIntoConfig(@, added)]
         IN  /\ IsConfig(m) /\ m.lists = c.lists
             /\ m.scenarios = MergeDatasetIntoConfig(c.scenarios, added)
<1> DEFINE s == MergeDatasetIntoConfig(c.scenarios, added)
           m == [c EXCEPT !.scenarios = s]
<1>1. /\ Distinct(c.scenarios) /\ IsList(c.scenarios) /\ \A i \in DOMAIN c.scenarios : IsScenario(c.scenarios[i])
      /\ c = [scenarios |-> c.scenarios, lists |-> c.lists]
      /\ c.lists = [field \in DOMAIN c.lists |-> c.lists[field]]
      /\ \A field \in DOMAIN c.lists : IsList(c.lists[field])
  BY ConfigShape DEF Distinct
<1>2. Distinct(s)
  BY <1>1, MergeInPlace
<1>3. \A i \in DOMAIN s : IsScenario(s[i])
  BY <1>1, MergedIsScenarios
<1> HIDE DEF s
<1>4. m = [scenarios |-> s, lists |-> c.lists]
  BY <1>1
<1>5. IsConfig(m)
  <2> HIDE DEF m
  <2> QED BY <1>1, <1>2, <1>3, <1>4, ShapeIsConfig
<1>6. m.scenarios = s /\ m.lists = c.lists
  BY <1>4
<1>7. [c EXCEPT !.scenarios = MergeDatasetIntoConfig(@, added)] = m
  BY DEF s
<1> HIDE DEF m
<1> QED BY <1>5, <1>6, <1>7 DEF s

\* What an insight makes of a configuration, without the question of approval.
Apply(c, added, ops, merges, patches) ==
  LET merged == IF merges /\ added # <<>> THEN [c EXCEPT !.scenarios = MergeDatasetIntoConfig(@, added)] ELSE c
  IN  IF patches THEN ApplyBraintrustConfigPatchSet(merged, ops) ELSE merged

LEMMA AppliedTwice ==
  ASSUME NEW c, IsConfig(c), NEW added, IsList(added), \A i \in DOMAIN added : IsScenario(added[i]),
         NEW ops, IsOps(ops), NEW merges, NEW patches,
         NEW once, once = Apply(c, added, ops, merges, patches), once # Invalid
  PROVE  Apply(once, added, ops, merges, patches) = once
<1> DEFINE merging == merges /\ added # <<>>
           Merged(b) == IF merging THEN [b EXCEPT !.scenarios = MergeDatasetIntoConfig(@, added)] ELSE b
           m == Merged(c)
           d == Merged(once)
<1>1. /\ once = IF patches THEN ApplyBraintrustConfigPatchSet(m, ops) ELSE m
      /\ Apply(once, added, ops, merges, patches) = IF patches THEN ApplyBraintrustConfigPatchSet(d, ops) ELSE d
  BY DEF Apply
<1>2. IsConfig(m) /\ (merging => m.scenarios = MergeDatasetIntoConfig(c.scenarios, added))
  BY MergedConfig
<1> HIDE DEF m
<1>3. IsConfig(once) /\ Alike(m, once)
  <2>1. CASE patches
    BY <1>1, <1>2, <2>1, PatchedIsAlike
  <2>2. CASE ~patches
    BY <1>1, <1>2, <2>2, AlikeItself
  <2> QED BY <2>1, <2>2
<1>4. IsConfig(d) /\ d.lists = once.lists /\ (merging => d.scenarios = MergeDatasetIntoConfig(once.scenarios, added))
      /\ (~merging => d = once)
  BY <1>3, MergedConfig
<1> HIDE DEF d
<1>5. Alike(m, d) /\ \A i \in DOMAIN m.scenarios : Tags(d, i) = Tags(m, i) \/ Tags(d, i) = Tags(once, i)
  <2>1. CASE ~merging
    BY <1>3, <1>4, <2>1
  <2>2. CASE merging
    <3>1. /\ DOMAIN once.scenarios = DOMAIN m.scenarios /\ Distinct(once.scenarios) /\ Distinct(c.scenarios)
          /\ \A i \in DOMAIN m.scenarios : once.scenarios[i].name = m.scenarios[i].name
      <4>1. Distinct(once.scenarios) /\ Distinct(c.scenarios)
        BY <1>3, ConfigShape
      <4>2. DOMAIN once.scenarios = DOMAIN m.scenarios
        BY <1>3 DEF Alike
      <4>3. \A i \in DOMAIN m.scenarios : once.scenarios[i].name = m.scenarios[i].name
        BY <1>2, <1>3, AlikeNames
      <4> QED BY <4>1, <4>2, <4>3
    <3>2. m.scenarios = MergeDatasetIntoConfig(c.scenarios, added)
      BY <1>2, <2>2
    <3>3. d.scenarios = MergeDatasetIntoConfig(once.scenarios, added)
      BY <1>4, <2>2
    <3>4. /\ DOMAIN d.scenarios = DOMAIN m.scenarios
          /\ \A i \in DOMAIN m.scenarios : d.scenarios[i] = m.scenarios[i] \/ d.scenarios[i] = once.scenarios[i]
      <4> DEFINE ms == m.scenarios
                 os == once.scenarios
                 ds == d.scenarios
                 base == c.scenarios
      <4>1. /\ Distinct(base) /\ Distinct(os) /\ DOMAIN os = DOMAIN ms
            /\ \A i \in DOMAIN ms : os[i].name = ms[i].name
            /\ ms = MergeDatasetIntoConfig(base, added) /\ ds = MergeDatasetIntoConfig(os, added)
        BY <3>1, <3>2, <3>3
      <4>2. added # <<>>
        BY <2>2
      <4> HIDE DEF ms, os, ds, base
      <4>3. /\ DOMAIN ds = DOMAIN ms
            /\ \A i \in DOMAIN ms : ds[i] = ms[i] \/ ds[i] = os[i]
        BY <4>1, <4>2, MergeAgain
      <4> QED BY <4>3 DEF ms, os, ds
    <3>5. \A i \in DOMAIN m.scenarios : m.scenarios[i] = [m.scenarios[i] EXCEPT !.tags = Tags(m, i)]
      <4>1. Alike(m, m)
        BY <1>2, AlikeItself
      <4> QED BY <4>1 DEF Alike
    <3>6. \A i \in DOMAIN m.scenarios : once.scenarios[i] = [m.scenarios[i] EXCEPT !.tags = Tags(once, i)]
      BY <1>3 DEF Alike
    <3>7. ASSUME NEW i \in DOMAIN m.scenarios
          PROVE  /\ Tags(d, i) = Tags(m, i) \/ Tags(d, i) = Tags(once, i)
                 /\ d.scenarios[i] = [m.scenarios[i] EXCEPT !.tags = Tags(d, i)]
      <4>1. CASE d.scenarios[i] = m.scenarios[i]
        <5>1. Tags(d, i) = Tags(m, i)
          BY <4>1 DEF Tags
        <5> QED BY <3>5, <4>1, <5>1
      <4>2. CASE d.scenarios[i] = once.scenarios[i]
        <5>1. Tags(d, i) = Tags(once, i)
          BY <4>2 DEF Tags
        <5> QED BY <3>6, <4>2, <5>1
      <4> QED BY <3>4, <4>1, <4>2
    <3>8. DOMAIN d.lists = DOMAIN m.lists
      BY <1>3, <1>4 DEF Alike
    <3> QED BY <3>4, <3>7, <3>8 DEF Alike
  <2> QED BY <2>1, <2>2
<1>6. CASE patches
  <2>1. once = ApplyBraintrustConfigPatchSet(m, ops)
    BY <1>1, <1>6
  <2>2. ApplyBraintrustConfigPatchSet(d, ops) = once
    BY <1>2, <1>4, <1>5, <2>1, PatchedTwice
  <2> QED BY <1>1, <1>6, <2>2
<1>7. CASE ~patches
  <2>1. once = m /\ Apply(once, added, ops, merges, patches) = d
    BY <1>1, <1>7
  <2>2. \A i \in DOMAIN m.scenarios : Tags(d, i) = Tags(m, i)
    BY <1>5, <2>1
  <2>3. \A field \in DOMAIN m.lists : d.lists[field] = m.lists[field]
    BY <1>4, <2>1
  <2>4. d = m
    BY <1>2, <1>3, <1>4, <1>5, <2>1, <2>2, <2>3, AlikeIsEqual
  <2> QED BY <2>1, <2>4
<1> QED BY <1>6, <1>7

=============================================================================
