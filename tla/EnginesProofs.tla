--------------------------- MODULE EnginesProofs ---------------------------
(***************************************************************************)
(* Proofs about the engines whose verdict takes more than a look at one     *)
(* response, for any values of their constants: the load suite (every       *)
(* request is sampled once although the users share one channel, and the    *)
(* verdict computed from rounded percentages and a percentile is that of    *)
(* the budgets), the shadow-state suite (a pass is earned whenever the      *)
(* agent writes), the memory replay (the findings are what the whole        *)
(* history tells), the suites about traces (what the agent does more hides  *)
(* no finding, and a trace without findings is exact), the judge (a pass is *)
(* earned in both orders, or by half of the samples) and the assertions     *)
(* (their verdicts on one answer do not contradict each other).             *)
(***************************************************************************)
EXTENDS MCEngines, FiniteSetTheorems, TLAPS

-----------------------------------------------------------------------------
(***************************************************************************)
(* The inductive invariant.                                                 *)
(***************************************************************************)
Requests == 0 .. RequestsPerUser - 1

Samples == [user : Users, i : Requests, scenario : 0 .. ScenarioCount - 1,
            err : BOOLEAN, status : Nat, latency : Latencies, usage : Usages]

LoadTypeOK ==
  /\ user \in [Users -> {"invoke", "send", "done"}]
  /\ i \in [Users -> 0 .. RequestsPerUser]
  /\ held \in [Users -> Samples \cup {NoSample}]
  /\ ch \in Seq(Samples)
  /\ phase \in {"wait", "drain", "done"}
  /\ samples \in SUBSET Samples

\* The samples that were sent, wherever they are now.
Sent == samples \cup {ch[k] : k \in DOMAIN ch}

\* A user is through when its loop variable is, and what it is about to send is
\* the sample of its current request.
UserInv ==
  \A u \in Users :
    /\ user[u] = "done" <=> i[u] = RequestsPerUser
    /\ user[u] = "send" => held[u] \in Samples /\ held[u].user = u /\ held[u].i = i[u]

\* Exactly the requests below the loop variables are sent, each once.
SentInv ==
  /\ \A s \in Sent : s.i < i[s.user]
  /\ \A u \in Users : \A k \in 0 .. i[u] - 1 : \E s \in Sent : s.user = u /\ s.i = k
  /\ \A s, t \in Sent : s.user = t.user /\ s.i = t.i => s = t

\* The drain begins behind the last user and the verdict behind the drain.
PhaseInv ==
  /\ phase # "wait" => \A u \in Users : user[u] = "done"
  /\ phase = "done" =>
       /\ ch = <<>>
       /\ verdict.elapsed \in Elapsed
       /\ \E rateTie, flowTie \in Ties :
            verdict.passed =
              EvaluateLoadSummary(SummarizeLoadSamples(samples, verdict.elapsed, rateTie, flowTie))

LoadInv == LoadTypeOK /\ UserInv /\ SentInv /\ PhaseInv

-----------------------------------------------------------------------------
(***************************************************************************)
(* Rounding.                                                                *)
(***************************************************************************)
\* A rounded down quotient reaches a number exactly when the dividend does.
LEMMA QuotientReaches ==
  ASSUME NEW x \in Int, NEW y \in Nat \ {0}, NEW m \in Int
  PROVE  x \div y \in Int /\ (x \div y >= m <=> x >= m * y)
<1> DEFINE q == x \div y
           r == x % y
<1>1. q \in Int /\ r \in 0 .. y - 1 /\ x = y * q + r
  OBVIOUS
<1> HIDE DEF q, r
<1>2. m * y \in Int /\ q * y \in Int /\ q * y = y * q
  BY <1>1
<1>3. CASE q >= m
  <2>1. (q - m) * y >= 0
    BY <1>1, <1>3
  <2>2. (q - m) * y = q * y - m * y
    BY <1>1
  <2> QED BY <1>1, <1>2, <1>3, <2>1, <2>2
<1>4. CASE q < m
  <2>1. (m - q - 1) * y >= 0
    BY <1>1, <1>4
  <2>2. (m - q - 1) * y = m * y - q * y - y
    BY <1>1
  <2> QED BY <1>1, <1>2, <1>4, <2>1, <2>2
<1>5. q \in Int /\ (q >= m <=> x >= m * y)
  BY <1>1, <1>3, <1>4
<1> QED BY <1>5 DEF q

\* The error rate is within its budget when the errors are less than half a
\* percent over it, and not when they are more.
LEMMA RateWithinBudget ==
  ASSUME NEW count \in Nat, NEW total \in Nat \ {0}, NEW tie \in Ties,
         NEW budget \in Nat
  PROVE  /\ PercentOf(count, total, tie) <= budget => 200 * count <= (2 * budget + 1) * total
         /\ ~(PercentOf(count, total, tie) <= budget) => 200 * count >= (2 * budget + 1) * total
<1> DEFINE x == 200 * count + total - tie
           y == 2 * total
<1>1. x \in Int /\ y \in Nat \ {0} /\ PercentOf(count, total, tie) = x \div y
  BY DEF PercentOf, Ties
<1>2. (x \div y >= budget + 1 <=> x >= (budget + 1) * y) /\ x \div y \in Int
  BY <1>1, QuotientReaches
<1>3. (budget + 1) * y = (2 * budget + 1) * total + total /\ (2 * budget + 1) * total \in Int
  OBVIOUS
<1>4. x = 200 * count + total - tie /\ tie \in {0, 1} /\ 200 * count \in Int
  BY DEF Ties
<1> HIDE DEF x, y
<1> QED BY <1>1, <1>2, <1>3, <1>4

\* The throughput reaches its floor when the tokens do, less half a thousandth,
\* and not when they are fewer.
LEMMA ThroughputReachesFloor ==
  ASSUME NEW tokens \in Nat, NEW elapsed \in Nat \ {0}, NEW tie \in Ties, NEW floor \in Nat
  PROVE  /\ TokenThroughput(tokens, elapsed, tie) >= 1000 * floor =>
              2000 * tokens + elapsed >= 2000 * floor * elapsed
         /\ ~(TokenThroughput(tokens, elapsed, tie) >= 1000 * floor) =>
              2000 * tokens + elapsed <= 2000 * floor * elapsed
<1> DEFINE x == 2000 * tokens + elapsed - tie
           y == 2 * elapsed
<1>1. x \in Int /\ y \in Nat \ {0} /\ TokenThroughput(tokens, elapsed, tie) = x \div y
  BY DEF TokenThroughput, Ties
<1> DEFINE z == 1000 * floor
<1>2. x \div y >= z <=> x >= z * y
  <2>1. z \in Int
    OBVIOUS
  <2> HIDE DEF x, y, z
  <2> QED BY <1>1, <2>1, QuotientReaches
<1>3. (1000 * floor) * y = 2000 * floor * elapsed /\ 2000 * floor * elapsed \in Int
  OBVIOUS
<1>4. x = 2000 * tokens + elapsed - tie /\ tie \in {0, 1} /\ 2000 * tokens \in Int
  BY DEF Ties
<1> HIDE DEF x, y
<1> QED BY <1>1, <1>2, <1>3, <1>4

-----------------------------------------------------------------------------
(***************************************************************************)
(* The percentile of a finite set of samples.                               *)
(***************************************************************************)
UpTo(set, l) == {s \in set : s.latency <= l}

\* In a family of subsets of a finite set one contains no other.
LEMMA SmallestOfFamily ==
  ASSUME NEW set, IsFiniteSet(set), NEW family, family \subseteq SUBSET set, family # {}
  PROVE  \E x \in family : \A y \in family : y \subseteq x => y = x
<1>1. IsWellFoundedOn(StrictSubsetOrdering(set), SUBSET set)
  BY FS_StrictSubsetOrderingWellFounded, FS_FiniteSubsetsOfFinite
<1>2. PICK x \in family : \A y \in family : <<y, x>> \notin StrictSubsetOrdering(set)
  BY <1>1, WFMin
<1>3. ASSUME NEW y \in family, y \subseteq x PROVE y = x
  <2>1. <<y, x>> \in (SUBSET set) \X (SUBSET set) /\ <<y, x>> \notin StrictSubsetOrdering(set)
    BY <1>2, <1>3
  <2> QED BY <1>3, <2>1 DEF StrictSubsetOrdering
<1> QED BY <1>3

\* A set of natural numbers has a least one.
LEMMA LeastNumber ==
  ASSUME NEW numbers \in SUBSET Nat, numbers # {}
  PROVE  \E l \in numbers : \A m \in numbers : l <= m
<1>1. PICK top \in numbers : TRUE
  OBVIOUS
<1> DEFINE range == 0 .. top
           family == {0 .. m : m \in {k \in numbers : k <= top}}
<1>2. IsFiniteSet(range)
  BY FS_Interval
<1>3. family \subseteq SUBSET range /\ family # {}
  <2>1. 0 .. top \in family
    OBVIOUS
  <2>2. \A m \in numbers : m <= top => 0 .. m \subseteq 0 .. top
    OBVIOUS
  <2> QED BY <2>1, <2>2
<1>4. \E x \in family : \A y \in family : y \subseteq x => y = x
  <2> HIDE DEF family, range
  <2> QED BY <1>2, <1>3, SmallestOfFamily
<1>5. PICK l \in numbers : l <= top /\ \A m \in numbers : m <= top /\ 0 .. m \subseteq 0 .. l => 0 .. m = 0 .. l
  <2>1. PICK x \in family : \A y \in family : y \subseteq x => y = x
    BY <1>4
  <2>2. PICK l \in numbers : l <= top /\ x = 0 .. l
    OBVIOUS
  <2>3. \A m \in numbers : m <= top => 0 .. m \in family
    OBVIOUS
  <2> HIDE DEF family
  <2> QED BY <2>1, <2>2, <2>3
<1>6. ASSUME NEW m \in numbers, m < l PROVE FALSE
  <2>1. m <= top /\ 0 .. m \subseteq 0 .. l
    BY <1>5, <1>6
  <2>2. 0 .. m = 0 .. l
    BY <1>5, <2>1
  <2>3. l \in 0 .. l /\ l \notin 0 .. m
    BY <1>6
  <2> QED BY <2>2, <2>3
<1> QED BY <1>6

\* A function is defined by its first value and the way from each to the next.
Follows(f, lo, hi, D, base, way) ==
  f \in [lo .. hi -> D] /\ f[lo] = base /\ \A k \in lo + 1 .. hi : f[k] = way[<<k, f[k - 1]>>]

LEMMA Recursion ==
  ASSUME NEW lo \in Nat, NEW hi \in Nat, lo <= hi, NEW D, NEW base \in D,
         NEW way \in [(lo + 1 .. hi) \X D -> D]
  PROVE  \E f : Follows(f, lo, hi, D, base, way)
<1> USE DEF Follows
<1> DEFINE Defines(f, m) == /\ f \in [lo .. m -> D] /\ f[lo] = base
                            /\ \A k \in lo + 1 .. m : f[k] = way[<<k, f[k - 1]>>]
           bad == {m \in lo .. hi : ~ \E f : Defines(f, m)}
<1>1. ASSUME bad # {} PROVE FALSE
  <2>1. PICK l \in bad : \A m \in bad : l <= m
    <3>1. bad \in SUBSET Nat
      OBVIOUS
    <3> HIDE DEF bad
    <3> QED BY <1>1, <3>1, LeastNumber
  <2>2. CASE l = lo
    <3>1. Defines([k \in lo .. lo |-> base], lo)
      OBVIOUS
    <3> QED BY <2>1, <2>2, <3>1
  <2>3. CASE l # lo
    <3>1. l - 1 \in lo .. hi /\ l \in lo + 1 .. hi /\ l \in Nat
      BY <2>1, <2>3
    <3>2. l - 1 \notin bad
      BY <2>1, <3>1
    <3>3. PICK g : Defines(g, l - 1)
      BY <3>1, <3>2
    <3> DEFINE f == [k \in lo .. l |-> IF k = l THEN way[<<l, g[l - 1]>>] ELSE g[k]]
    <3>4. g[l - 1] \in D /\ way[<<l, g[l - 1]>>] \in D
      BY <3>1, <3>3
    <3>5. f \in [lo .. l -> D] /\ f[lo] = base
      BY <2>3, <3>1, <3>3, <3>4
    <3>6. ASSUME NEW k \in lo + 1 .. l PROVE f[k] = way[<<k, f[k - 1]>>]
      <4>1. k - 1 \in lo .. l - 1 /\ f[k - 1] = g[k - 1]
        <5>1. k - 1 \in lo .. l /\ k - 1 # l /\ k - 1 \in lo .. l - 1
          BY <3>1
        <5> QED BY <5>1
      <4>2. CASE k = l
        <5>1. f[l] = way[<<l, g[l - 1]>>]
          BY <3>1
        <5> HIDE DEF f
        <5> QED BY <4>1, <4>2, <5>1
      <4>3. CASE k # l
        <5>1. k \in lo + 1 .. l - 1 /\ f[k] = g[k]
          BY <3>1, <4>3
        <5> HIDE DEF f
        <5> QED BY <3>3, <4>1, <5>1
      <4> QED BY <4>2, <4>3
    <3>7. Defines(f, l)
      BY <3>5, <3>6
    <3> QED BY <2>1, <3>7
  <2> QED BY <2>2, <2>3
<1>2. hi \in lo .. hi
  OBVIOUS
<1> QED BY <1>1, <1>2

\* A set of latencies of the samples has a smallest.
LEMMA SmallestLatency ==
  ASSUME NEW set, IsFiniteSet(set), \A s \in set : s.latency \in Nat,
         NEW ls, ls \subseteq {s.latency : s \in set}, ls # {}
  PROVE  \E l \in ls : \A m \in ls : l <= m
<1> DEFINE family == {UpTo(set, l) : l \in ls}
<1>1. \A l \in ls : UpTo(set, l) \in SUBSET set
  BY DEF UpTo
<1>2. PICK l \in ls : \A m \in ls : UpTo(set, m) \subseteq UpTo(set, l) => UpTo(set, m) = UpTo(set, l)
  <2>1. family \subseteq SUBSET set /\ family # {}
    BY <1>1
  <2>2. \E x \in family : \A y \in family : y \subseteq x => y = x
    <3> HIDE DEF family
    <3> QED BY <2>1, SmallestOfFamily
  <2> QED BY SMTT(30), <2>2
<1>3. ASSUME NEW m \in ls PROVE l <= m
  <2>1. l \in Nat /\ m \in Nat
    OBVIOUS
  <2>2. PICK s \in set : s.latency = l
    OBVIOUS
  <2>3. CASE m < l
    <3>1. UpTo(set, m) \subseteq UpTo(set, l)
      BY <2>1, <2>3 DEF UpTo
    <3>2. s \in UpTo(set, l) /\ s \notin UpTo(set, m)
      BY <2>1, <2>2, <2>3 DEF UpTo
    <3> QED BY <1>2, <3>1, <3>2
  <2> QED BY <2>1, <2>3
<1> QED BY <1>3

\* The samples have a largest latency.
LEMMA LargestLatency ==
  ASSUME NEW set, IsFiniteSet(set), set # {}, \A s \in set : s.latency \in Nat
  PROVE  \E l \in {s.latency : s \in set} : UpTo(set, l) = set
<1> DEFINE Above(l) == {s \in set : s.latency > l}
           ls == {s.latency : s \in set}
           family == {Above(l) : l \in ls}
<1>1. \A l \in ls : Above(l) \in SUBSET set
  OBVIOUS
<1>2. PICK l \in ls : \A m \in ls : Above(m) \subseteq Above(l) => Above(m) = Above(l)
  <2>1. ls # {}
    OBVIOUS
  <2> HIDE DEF Above, ls
  <2>2. family \subseteq SUBSET set /\ family # {}
    BY <1>1, <2>1
  <2>3. \E x \in family : \A y \in family : y \subseteq x => y = x
    <3> HIDE DEF family
    <3> QED BY <2>2, SmallestOfFamily
  <2> QED BY <2>3
<1>3. ASSUME NEW s \in set PROVE s.latency <= l
  <2>1. l \in Nat /\ s.latency \in Nat /\ s.latency \in ls
    OBVIOUS
  <2>2. CASE s.latency > l
    <3>1. Above(s.latency) \subseteq Above(l)
      BY <2>1, <2>2
    <3>2. s \in Above(l) /\ s \notin Above(s.latency)
      BY <2>1, <2>2
    <3> QED BY <1>2, <2>1, <3>1, <3>2
  <2> QED BY <2>1, <2>2
<1> QED BY <1>3 DEF UpTo

\* The 95th percentile is within a budget exactly when no more than 5 % of the
\* samples are slower.
LEMMA PercentileWithinBudget ==
  ASSUME NEW set, IsFiniteSet(set), set # {}, \A s \in set : s.latency \in Nat,
         NEW budget \in Nat
  PROVE  Percentile(95, set) <= budget <=>
           100 * Cardinality({s \in set : s.latency > budget}) <= 5 * Cardinality(set)
<1> DEFINE size == Cardinality(set)
           rank == (95 * size + 99) \div 100
           ls == {l \in {s.latency : s \in set} : Cardinality(UpTo(set, l)) >= rank}
           p == Percentile(95, set)
<1>1. size \in Nat /\ size > 0
  BY FS_CardinalityType, FS_EmptySet
<1>2. rank \in 1 .. size
  BY <1>1
<1>3. \A l : IsFiniteSet(UpTo(set, l)) /\ Cardinality(UpTo(set, l)) \in Nat
  BY FS_Subset, FS_CardinalityType DEF UpTo
<1>4. ls # {}
  BY <1>1, <1>2, LargestLatency
<1>5. \E l \in ls : \A m \in ls : l <= m
  BY <1>4, SmallestLatency
<1>6. p = Min(ls)
  <2>1. ~(size = 0) /\ ~(rank < 1)
    BY <1>1, <1>2
  <2> QED BY <2>1 DEF Percentile, UpTo
<1>7. p \in ls /\ \A m \in ls : p <= m
  BY <1>5, <1>6 DEF Min
<1>8. p \in Nat /\ Cardinality(UpTo(set, p)) >= rank
  BY <1>7
<1>9. Cardinality({s \in set : s.latency > budget}) = size - Cardinality(UpTo(set, budget))
  <2>1. {s \in set : s.latency > budget} = set \ UpTo(set, budget)
    BY DEF UpTo
  <2>2. set \cap UpTo(set, budget) = UpTo(set, budget)
    BY DEF UpTo
  <2> QED BY <2>1, <2>2, FS_Difference
<1>10. p <= budget <=> Cardinality(UpTo(set, budget)) >= rank
  <2>1. CASE p <= budget
    <3>1. UpTo(set, p) \subseteq UpTo(set, budget)
      BY <1>8, <2>1 DEF UpTo
    <3>2. Cardinality(UpTo(set, p)) <= Cardinality(UpTo(set, budget))
      BY <1>3, <3>1, FS_Subset
    <3> QED BY <1>2, <1>3, <1>8, <2>1, <3>2
  <2>2. ASSUME Cardinality(UpTo(set, budget)) >= rank PROVE p <= budget
    <3>1. UpTo(set, budget) # {}
      <4>1. Cardinality(UpTo(set, budget)) # 0
        BY <1>2, <1>3, <2>2
      <4> QED BY <4>1, FS_EmptySet
    <3>2. IsFiniteSet(UpTo(set, budget)) /\ \A s \in UpTo(set, budget) : s.latency \in Nat
      BY <1>3 DEF UpTo
    <3>3. PICK l \in {s.latency : s \in UpTo(set, budget)} : UpTo(UpTo(set, budget), l) = UpTo(set, budget)
      BY <3>1, <3>2, LargestLatency
    <3>4. l \in {s.latency : s \in set} /\ l \in Nat /\ l <= budget
      BY <3>3 DEF UpTo
    <3>5. UpTo(set, budget) \subseteq UpTo(set, l)
      BY <3>3 DEF UpTo
    <3>6. Cardinality(UpTo(set, budget)) <= Cardinality(UpTo(set, l))
      BY <1>3, <3>5, FS_Subset
    <3>7. l \in ls
      BY <1>2, <1>3, <2>2, <3>4, <3>6
    <3> QED BY <1>7, <1>8, <3>4, <3>7
  <2> QED BY <2>1, <2>2
<1> HIDE DEF size, rank, ls, p
<1>11. rank <= Cardinality(UpTo(set, budget)) <=> 100 * (size - Cardinality(UpTo(set, budget))) <= 5 * size
  BY <1>1, <1>3 DEF rank
<1> QED BY <1>2, <1>3, <1>9, <1>10, <1>11 DEF size, p

-----------------------------------------------------------------------------
(***************************************************************************)
(* The tokens of a finite set of samples.                                   *)
(***************************************************************************)
\* Samples without usage have no tokens, and those with usage have some.
LEMMA TokensOfUsed ==
  ASSUME NEW set, IsFiniteSet(set), \A s \in set : s.usage \in Nat
  PROVE  /\ Tokens(set) \in Nat
         /\ Tokens({s \in set : s.usage > 0}) = Tokens(set)
         /\ Tokens(set) > 0 <=> {s \in set : s.usage > 0} # {}
<1> DEFINE of == [s \in set |-> {s} \X (1 .. s.usage)]
           parts == {{s} \X (1 .. s.usage) : s \in set}
           used == {s \in set : s.usage > 0}
           units == UNION parts
<1>1. IsFiniteSet(parts)
  <2>1. of \in Surjection(set, parts)
    BY DEF Surjection
  <2> HIDE DEF of, parts
  <2> QED BY <2>1, FS_Surjection
<1>2. \A t \in parts : IsFiniteSet(t)
  <2> SUFFICES ASSUME NEW s \in set PROVE IsFiniteSet({s} \X (1 .. s.usage))
    OBVIOUS
  <2>1. 1 \in Int /\ s.usage \in Int
    OBVIOUS
  <2>2. IsFiniteSet({s}) /\ IsFiniteSet(1 .. s.usage)
    BY <2>1, FS_Singleton, FS_Interval
  <2> QED BY <2>2, FS_Product
<1>3. IsFiniteSet(units) /\ Cardinality(units) \in Nat
  <2> HIDE DEF parts
  <2> QED BY <1>1, <1>2, FS_UNION, FS_CardinalityType
<1>4. UNION {{s} \X (1 .. s.usage) : s \in used} = units
  <2>1. ASSUME NEW s \in set, NEW x \in {s} \X (1 .. s.usage) PROVE s \in used
    BY <2>1
  <2> QED BY <2>1
<1>5. units # {} <=> used # {}
  <2>1. ASSUME NEW x \in units PROVE used # {}
    <3>1. PICK s \in set : x \in {s} \X (1 .. s.usage)
      OBVIOUS
    <3> QED BY <3>1
  <2>2. ASSUME NEW s \in used PROVE units # {}
    <3>1. <<s, 1>> \in {s} \X (1 .. s.usage)
      OBVIOUS
    <3> QED BY <3>1
  <2> QED BY <2>1, <2>2
<1>6. Cardinality(units) > 0 <=> units # {}
  <2> HIDE DEF units
  <2> QED BY <1>3, FS_EmptySet
<1>7. Tokens(set) = Cardinality(units) /\ Tokens(used) = Cardinality(units)
  BY <1>4 DEF Tokens
<1> HIDE DEF units, used
<1>8. used = {s \in set : s.usage > 0}
  BY DEF used
<1> QED BY <1>3, <1>5, <1>6, <1>7, <1>8

-----------------------------------------------------------------------------
(***************************************************************************)
(* The virtual users and their channel.                                     *)
(***************************************************************************)
LEMMA LoadInit == Init => LoadInv
<1> SUFFICES ASSUME Init PROVE LoadInv
  OBVIOUS
<1> USE LoadAssumption DEF Init
<1>1. LoadTypeOK
  BY DEF LoadTypeOK
<1>2. UserInv
  BY DEF UserInv
<1>3. Sent = {}
  BY DEF Sent
<1>4. SentInv
  BY <1>3 DEF SentInv
<1>5. PhaseInv
  BY DEF PhaseInv
<1> QED BY <1>1, <1>2, <1>4, <1>5 DEF LoadInv

LEMMA InvokeKeeps ==
  ASSUME LoadInv, NEW u \in Users, Invoke(u)
  PROVE  LoadInv'
<1>1. /\ user[u] = "invoke" /\ user' = [user EXCEPT ![u] = "send"]
      /\ UNCHANGED <<i, ch, phase, samples, verdict>>
  BY DEF Invoke
<1>2. PICK o \in Outcomes, l \in Latencies, t \in Usages :
        held' = [held EXCEPT ![u] =
                  [user |-> u, i |-> i[u], scenario |-> (u + i[u]) % ScenarioCount,
                   err |-> o.err, status |-> o.status, latency |-> l, usage |-> t]]
  BY DEF Invoke
<1>3. /\ user \in [Users -> {"invoke", "send", "done"}] /\ i \in [Users -> 0 .. RequestsPerUser]
      /\ held \in [Users -> Samples \cup {NoSample}]
  BY DEF LoadInv, LoadTypeOK
<1>4. i[u] \in Requests
  BY <1>1, <1>3, LoadAssumption DEF LoadInv, UserInv, Requests
<1> DEFINE record == [user |-> u, i |-> i[u], scenario |-> (u + i[u]) % ScenarioCount,
                      err |-> o.err, status |-> o.status, latency |-> l, usage |-> t]
<1>5. record \in Samples /\ record.user = u /\ record.i = i[u]
  <2>1. o.err \in BOOLEAN /\ o.status \in Nat
    <3>1. CASE o = [err |-> TRUE, status |-> 0]
      BY <3>1
    <3>2. CASE o \in [err : {FALSE}, status : Statuses]
      BY <3>2, LoadAssumption
    <3> QED BY <3>1, <3>2 DEF Outcomes
  <2>2. (u + i[u]) % ScenarioCount \in 0 .. ScenarioCount - 1
    BY <1>4, LoadAssumption DEF Users, Requests
  <2> QED BY <1>4, <2>1, <2>2 DEF Samples
<1>6. held' = [held EXCEPT ![u] = record]
  BY <1>2
<1> HIDE DEF record
<1>7. LoadTypeOK'
  BY <1>1, <1>3, <1>5, <1>6 DEF LoadInv, LoadTypeOK
<1>8. UserInv'
  <2> SUFFICES ASSUME NEW v \in Users
               PROVE  /\ user'[v] = "done" <=> i[v] = RequestsPerUser
                      /\ user'[v] = "send" => /\ held'[v] \in Samples
                                              /\ held'[v].user = v /\ held'[v].i = i[v]
    BY <1>1 DEF UserInv
  <2>1. CASE v = u
    BY <1>1, <1>3, <1>4, <1>5, <1>6, <2>1, LoadAssumption DEF Requests
  <2>2. CASE v # u
    BY <1>1, <1>3, <1>6, <2>2 DEF LoadInv, UserInv
  <2> QED BY <2>1, <2>2
<1>9. SentInv'
  <2>1. Sent' = Sent
    BY <1>1 DEF Sent
  <2> QED BY <1>1, <2>1 DEF LoadInv, SentInv
<1>10. PhaseInv'
  BY <1>1 DEF LoadInv, PhaseInv
<1> QED BY <1>7, <1>8, <1>9, <1>10 DEF LoadInv

LEMMA SendSampleKeeps ==
  ASSUME LoadInv, NEW u \in Users, SendSample(u)
  PROVE  LoadInv'
<1> DEFINE s == held[u]
<1>1. /\ user[u] = "send"
      /\ ch' = Append(ch, s)
      /\ held' = [held EXCEPT ![u] = NoSample]
      /\ i' = [i EXCEPT ![u] = i[u] + 1]
      /\ user' = [user EXCEPT ![u] = IF i[u] + 1 < RequestsPerUser THEN "invoke" ELSE "done"]
      /\ UNCHANGED <<phase, samples, verdict>>
  BY DEF SendSample
<1>2. /\ user \in [Users -> {"invoke", "send", "done"}] /\ i \in [Users -> 0 .. RequestsPerUser]
      /\ held \in [Users -> Samples \cup {NoSample}] /\ ch \in Seq(Samples)
      /\ samples \in SUBSET Samples
  BY DEF LoadInv, LoadTypeOK
<1>3. /\ s \in Samples /\ s.user = u /\ s.i = i[u]
      /\ i[u] \in Nat /\ i[u] < RequestsPerUser
  BY <1>1, <1>2, LoadAssumption DEF LoadInv, UserInv
<1> HIDE DEF s
<1>4. i'[u] = i[u] + 1 /\ \A v \in Users \ {u} : i'[v] = i[v]
  BY <1>1, <1>2
<1>5. LoadTypeOK'
  <2>1. ch' \in Seq(Samples)
    BY <1>1, <1>2, <1>3
  <2>2. i' \in [Users -> 0 .. RequestsPerUser]
    BY <1>1, <1>2, <1>3, LoadAssumption
  <2> QED BY <1>1, <1>2, <2>1, <2>2 DEF LoadInv, LoadTypeOK
<1>6. UserInv'
  <2> SUFFICES ASSUME NEW v \in Users
               PROVE  /\ user'[v] = "done" <=> i'[v] = RequestsPerUser
                      /\ user'[v] = "send" => /\ held'[v] \in Samples
                                              /\ held'[v].user = v /\ held'[v].i = i'[v]
    BY DEF UserInv
  <2>1. CASE v = u
    BY <1>1, <1>2, <1>3, <1>4, <2>1, LoadAssumption
  <2>2. CASE v # u
    BY <1>1, <1>2, <1>4, <2>2 DEF LoadInv, UserInv
  <2> QED BY <2>1, <2>2
<1>7. Sent' = Sent \cup {s}
  <2>1. {ch'[k] : k \in DOMAIN ch'} = {ch[k] : k \in DOMAIN ch} \cup {s}
    <3>1. /\ DOMAIN ch' = DOMAIN ch \cup {Len(ch) + 1}
          /\ \A k \in DOMAIN ch : ch'[k] = ch[k]
          /\ ch'[Len(ch) + 1] = s
      BY <1>1, <1>2, <1>3
    <3> QED BY <3>1
  <2> QED BY <1>1, <2>1 DEF Sent
<1>8. Sent \subseteq Samples
  BY <1>2 DEF Sent
<1>9. SentInv'
  <2>1. /\ \A t \in Sent : t.i < i[t.user]
        /\ \A v \in Users : \A k \in 0 .. i[v] - 1 : \E t \in Sent : t.user = v /\ t.i = k
        /\ \A t, r \in Sent : t.user = r.user /\ t.i = r.i => t = r
    BY DEF LoadInv, SentInv
  <2>2. \A t \in Samples : t.user \in Users /\ t.i \in Nat
    BY DEF Samples, Requests
  <2>3. \A v \in Users : i[v] \in Nat
    BY <1>2
  <2>4. \A t \in Sent' : t.i < i'[t.user]
    <3> SUFFICES ASSUME NEW t \in Sent' PROVE t.i < i'[t.user]
      OBVIOUS
    <3>1. CASE t = s
      BY <1>3, <1>4, <3>1
    <3>2. CASE t \in Sent
      <4>1. t.i < i[t.user] /\ t.user \in Users /\ t.i \in Nat /\ i[t.user] \in Nat
        BY <1>8, <2>1, <2>2, <2>3, <3>2
      <4> QED BY <1>3, <1>4, <4>1
    <3> QED BY <1>7, <3>1, <3>2
  <2>5. ASSUME NEW v \in Users, NEW k \in 0 .. i'[v] - 1
        PROVE  \E t \in Sent' : t.user = v /\ t.i = k
    <3>1. CASE v = u /\ k = i[u]
      BY <1>3, <1>7, <3>1
    <3>2. CASE ~(v = u /\ k = i[u])
      <4>1. k \in 0 .. i[v] - 1
        BY <1>3, <1>4, <2>3, <2>5, <3>2
      <4> QED BY <1>7, <2>1, <4>1
    <3> QED BY <3>1, <3>2
  <2>6. ASSUME NEW t \in Sent', NEW r \in Sent', t.user = r.user, t.i = r.i
        PROVE  t = r
    <3>1. \A x \in Sent : ~(x.user = s.user /\ x.i = s.i)
      BY <1>3, <2>1
    <3> QED BY <1>7, <2>1, <2>6, <3>1
  <2> QED BY <2>4, <2>5, <2>6 DEF SentInv
<1>10. PhaseInv'
  <2>1. phase = "wait"
    BY <1>1 DEF LoadInv, PhaseInv, LoadTypeOK
  <2> QED BY <1>1, <2>1 DEF PhaseInv
<1> QED BY <1>5, <1>6, <1>9, <1>10 DEF LoadInv

LEMMA WaitUsersKeeps ==
  ASSUME LoadInv, WaitUsers
  PROVE  LoadInv'
<1> USE DEF WaitUsers
<1>1. LoadTypeOK' /\ UserInv'
  BY DEF LoadInv, LoadTypeOK, UserInv
<1>2. Sent' = Sent
  BY DEF Sent
<1>3. SentInv' /\ PhaseInv'
  BY <1>2 DEF LoadInv, SentInv, PhaseInv
<1> QED BY <1>1, <1>3 DEF LoadInv

\* The record that is received is still one of those that were sent.
LEMMA DrainKeeps ==
  ASSUME LoadInv, Drain
  PROVE  LoadInv'
<1>1. /\ phase = "drain" /\ ch # <<>> /\ samples' = samples \cup {Head(ch)} /\ ch' = Tail(ch)
      /\ UNCHANGED <<user, i, held, phase, verdict>>
  BY DEF Drain
<1>2. ch \in Seq(Samples) /\ samples \in SUBSET Samples
  BY DEF LoadInv, LoadTypeOK
<1>3. LoadTypeOK' /\ UserInv'
  <2>1. ch' \in Seq(Samples) /\ Head(ch) \in Samples
    BY <1>1, <1>2
  <2> QED BY <1>1, <2>1 DEF LoadInv, LoadTypeOK, UserInv
<1>4. Sent' = Sent
  <2>1. /\ Head(ch) = ch[1] /\ 1 \in DOMAIN ch
        /\ DOMAIN ch = 1 .. Len(ch) /\ DOMAIN ch' = 1 .. Len(ch) - 1 /\ Len(ch) \in Nat
        /\ \A k \in DOMAIN ch' : ch'[k] = ch[k + 1]
    BY <1>1, <1>2
  <2>2. ASSUME NEW k \in DOMAIN ch PROVE ch[k] = Head(ch) \/ \E j \in DOMAIN ch' : ch[k] = ch'[j]
    <3>1. CASE k = 1
      BY <2>1, <3>1
    <3>2. CASE k # 1
      <4>1. k - 1 \in DOMAIN ch' /\ (k - 1) + 1 = k
        BY <2>1, <3>2
      <4>2. ch'[k - 1] = ch[k]
        BY <2>1, <4>1
      <4> QED BY <4>1, <4>2
    <3> QED BY <3>1, <3>2
  <2>3. ASSUME NEW k \in DOMAIN ch' PROVE k + 1 \in DOMAIN ch /\ ch'[k] = ch[k + 1]
    BY <2>1
  <2>4. {ch[k] : k \in DOMAIN ch} = {Head(ch)} \cup {ch'[k] : k \in DOMAIN ch'}
    BY <2>1, <2>2, <2>3
  <2> QED BY <1>1, <2>4 DEF Sent
<1>5. SentInv' /\ PhaseInv'
  BY <1>1, <1>4 DEF LoadInv, SentInv, PhaseInv
<1> QED BY <1>3, <1>5 DEF LoadInv

LEMMA EvaluateKeeps ==
  ASSUME LoadInv, Evaluate
  PROVE  LoadInv'
<1>1. /\ phase = "drain" /\ ch = <<>> /\ phase' = "done"
      /\ UNCHANGED <<user, i, held, ch, samples>>
  BY DEF Evaluate
<1>2. LoadTypeOK' /\ UserInv'
  BY <1>1 DEF LoadInv, LoadTypeOK, UserInv
<1>3. Sent' = Sent
  BY <1>1 DEF Sent
<1>4. SentInv'
  BY <1>1, <1>3 DEF LoadInv, SentInv
<1>5. PhaseInv'
  <2>1. PICK elapsed \in Elapsed, rateTie \in Ties, flowTie \in Ties :
          verdict' = [passed  |-> EvaluateLoadSummary(SummarizeLoadSamples(samples, elapsed, rateTie, flowTie)),
                      summary |-> SummarizeLoadSamples(samples, elapsed, rateTie, flowTie),
                      elapsed |-> elapsed]
    BY DEF Evaluate
  <2>2. verdict'.elapsed = elapsed
    BY <2>1
  <2>3. verdict'.passed = EvaluateLoadSummary(SummarizeLoadSamples(samples, elapsed, rateTie, flowTie))
    BY <2>1
  <2> QED BY <1>1, <2>2, <2>3 DEF LoadInv, PhaseInv
<1> QED BY <1>2, <1>4, <1>5 DEF LoadInv

LEMMA LoadNext == LoadInv /\ [Next]_vars => LoadInv'
<1> SUFFICES ASSUME LoadInv, [Next]_vars PROVE LoadInv'
  OBVIOUS
<1>1. CASE UNCHANGED vars
  <2>1. Sent' = Sent
    BY <1>1 DEF vars, Sent
  <2> QED BY <1>1, <2>1 DEF vars, LoadInv, LoadTypeOK, UserInv, SentInv, PhaseInv
<1> QED BY <1>1, InvokeKeeps, SendSampleKeeps, WaitUsersKeeps, DrainKeeps, EvaluateKeeps DEF Next

-----------------------------------------------------------------------------
(***************************************************************************)
(* What the invariant says of the end.                                      *)
(***************************************************************************)
\* When all users are through and the channel is empty, the samples are those
\* of all requests.
LEMMA AllSampled ==
  ASSUME LoadInv, phase = "done"
  PROVE  /\ samples \subseteq Samples /\ IsFiniteSet(samples)
         /\ {<<s.user, s.i>> : s \in samples} = Users \X Requests
         /\ Cardinality(samples) = TotalRequests
         /\ samples # {}
<1> DEFINE keys == Users \X Requests
           of == [s \in samples |-> <<s.user, s.i>>]
<1>1. Sent = samples /\ samples \subseteq Samples
  BY DEF LoadInv, PhaseInv, LoadTypeOK, Sent
<1>2. \A u \in Users : i[u] = RequestsPerUser
  BY DEF LoadInv, PhaseInv, UserInv
<1>3. \A s \in samples : s.user \in Users /\ s.i \in Requests
  BY <1>1 DEF Samples
<1>4. \A u \in Users, k \in Requests : \E s \in samples : s.user = u /\ s.i = k
  BY <1>1, <1>2 DEF LoadInv, SentInv, Requests
<1>5. \A s, t \in samples : s.user = t.user /\ s.i = t.i => s = t
  BY <1>1 DEF LoadInv, SentInv
<1>6. {<<s.user, s.i>> : s \in samples} = keys
  <2>1. \A s \in samples : <<s.user, s.i>> \in keys
    BY <1>3
  <2>2. ASSUME NEW x \in keys PROVE \E s \in samples : x = <<s.user, s.i>>
    <3>1. PICK u \in Users, k \in Requests : x = <<u, k>>
      OBVIOUS
    <3> QED BY <1>4, <3>1
  <2> QED BY <2>1, <2>2
<1>7. of \in Injection(samples, keys) /\ of \in Surjection(samples, keys)
  <2>1. of \in [samples -> keys]
    BY <1>3
  <2>2. \A s, t \in samples : of[s] = of[t] => s = t
    BY <1>5
  <2>3. \A x \in keys : \E s \in samples : of[s] = x
    BY <1>6
  <2> QED BY <2>1, <2>2, <2>3 DEF Injection, Surjection, IsInjective
<1>8. /\ IsFiniteSet(Users) /\ Cardinality(Users) = VirtualUsers
      /\ IsFiniteSet(Requests) /\ Cardinality(Requests) = RequestsPerUser
  <2>1. 0 \in Int /\ VirtualUsers - 1 \in Int /\ RequestsPerUser - 1 \in Int
    BY LoadAssumption
  <2> QED BY SMTT(30), <2>1, FS_Interval, LoadAssumption DEF Users, Requests
<1>9. IsFiniteSet(keys) /\ Cardinality(keys) = TotalRequests
  BY <1>8, FS_Product DEF TotalRequests
<1> HIDE DEF keys, of
<1>10. IsFiniteSet(samples) /\ Cardinality(samples) = TotalRequests
  BY <1>7, <1>9, FS_Injection
<1>11. samples # {}
  BY <1>4, LoadAssumption DEF Users, Requests
<1> QED BY <1>1, <1>6, <1>10, <1>11 DEF keys

LEMMA LoadInvImplies ==
  ASSUME LoadInv
  PROVE  VerdictIsOfAllSamples
<1>1. EveryRequestIsSampled
  BY AllSampled DEF EveryRequestIsSampled, Requests
<1>2. VerdictIsOfTheBudgets
  <2> SUFFICES ASSUME phase = "done" PROVE VerdictIsOfTheBudgets
    BY DEF VerdictIsOfTheBudgets
  <2> DEFINE size == Cardinality(samples)
             wrong == {s \in samples : IsError(s)}
             used == {s \in samples : s.usage > 0}
             elapsed == verdict.elapsed
  <2>1. /\ samples \subseteq Samples /\ IsFiniteSet(samples) /\ samples # {}
        /\ elapsed \in Nat \ {0} /\ MaxErrorRatePct \in Nat
        /\ P95Latency \in Nat /\ MinTokensPerSecond \in Nat
    <3>1. samples \subseteq Samples /\ IsFiniteSet(samples) /\ samples # {}
      BY AllSampled
    <3>2. elapsed \in Elapsed
      BY DEF LoadInv, PhaseInv
    <3>3. Elapsed \subseteq Nat \ {0}
      BY LoadAssumption
    <3>4. MaxErrorRatePct \in Nat /\ P95Latency \in Nat /\ MinTokensPerSecond \in Nat
      BY LoadAssumption
    <3> QED BY <3>1, <3>2, <3>3, <3>4
  <2>2. PICK rateTie \in Ties, flowTie \in Ties :
          verdict.passed = EvaluateLoadSummary(SummarizeLoadSamples(samples, elapsed, rateTie, flowTie))
    BY DEF LoadInv, PhaseInv
  <2> DEFINE rate == PercentOf(Cardinality(wrong), size, rateTie)
             p95 == Percentile(95, samples)
             flow == TokenThroughput(Tokens(used), elapsed, flowTie)
  <2>3. verdict.passed <=>
          /\ rate <= MaxErrorRatePct
          /\ p95 <= P95Latency
          /\ MinTokensPerSecond > 0 => Cardinality(used) > 0 /\ flow >= 1000 * MinTokensPerSecond
    BY <2>2 DEF EvaluateLoadSummary, SummarizeLoadSamples
  <2>4. \A s \in samples : s.latency \in Nat /\ s.usage \in Nat /\ s.status \in Nat
    BY <2>1, LoadAssumption DEF Samples
  <2>5. wrong = {s \in samples : s.err \/ s.status \notin 1 .. 499}
    BY <2>4 DEF IsError
  <2>6. size \in Nat \ {0} /\ Cardinality(wrong) \in Nat
    <3>1. wrong \subseteq samples
      OBVIOUS
    <3> HIDE DEF wrong
    <3> QED BY <2>1, <3>1, FS_CardinalityType, FS_EmptySet, FS_Subset
  <2>7. /\ rate <= MaxErrorRatePct => 200 * Cardinality(wrong) <= (2 * MaxErrorRatePct + 1) * size
        /\ ~(rate <= MaxErrorRatePct) => 200 * Cardinality(wrong) >= (2 * MaxErrorRatePct + 1) * size
    <3> HIDE DEF wrong, size
    <3> QED BY <2>1, <2>6, RateWithinBudget
  <2>8. p95 <= P95Latency <=>
          100 * Cardinality({s \in samples : s.latency > P95Latency}) <= 5 * size
    BY <2>1, <2>4, PercentileWithinBudget
  <2>9. /\ Tokens(samples) \in Nat /\ Tokens(used) = Tokens(samples)
        /\ Tokens(samples) > 0 <=> used # {}
    BY <2>1, <2>4, TokensOfUsed
  <2>10. Cardinality(used) > 0 <=> Tokens(samples) > 0
    <3>1. used \subseteq samples
      OBVIOUS
    <3> HIDE DEF used
    <3>2. IsFiniteSet(used) /\ Cardinality(used) \in Nat
      BY <2>1, <3>1, FS_Subset, FS_CardinalityType
    <3> QED BY <2>9, <3>2, FS_EmptySet
  <2>11. /\ flow >= 1000 * MinTokensPerSecond =>
              2000 * Tokens(samples) + elapsed >= 2000 * MinTokensPerSecond * elapsed
         /\ ~(flow >= 1000 * MinTokensPerSecond) =>
              2000 * Tokens(samples) + elapsed <= 2000 * MinTokensPerSecond * elapsed
    <3> HIDE DEF used, elapsed
    <3> QED BY <2>1, <2>9, ThroughputReachesFloor
  <2> DEFINE errors == {s \in samples : s.err \/ s.status \notin 1 .. 499}
             slow == {s \in samples : s.latency > P95Latency}
             budget == (2 * MaxErrorRatePct + 1) * size
             floor == 2000 * MinTokensPerSecond * elapsed
  <2>12. /\ Cardinality(errors) \in Nat /\ size \in Nat /\ budget \in Int /\ floor \in Int
         /\ elapsed \in Nat /\ Tokens(samples) \in Nat
    <3>1. Cardinality(errors) \in Nat
      BY <2>5, <2>6
    <3> HIDE DEF errors, size, elapsed
    <3>2. size \in Nat /\ elapsed \in Nat
      BY <2>1, <2>6
    <3>3. budget \in Int
      BY <2>1, <3>2
    <3>4. floor \in Int
      BY <2>1, <3>2
    <3> QED BY <2>9, <3>1, <3>2, <3>3, <3>4
  <2>13. /\ rate <= MaxErrorRatePct => 200 * Cardinality(errors) - budget <= 0
         /\ ~(rate <= MaxErrorRatePct) => 200 * Cardinality(errors) - budget >= 0
    <3> HIDE DEF rate, errors, wrong, budget, size
    <3>1. wrong = errors
      BY <2>5 DEF wrong, errors
    <3> QED BY <2>7, <2>12, <3>1 DEF budget
  <2>14. /\ flow >= 1000 * MinTokensPerSecond => 2000 * Tokens(samples) + elapsed - floor >= 0
         /\ ~(flow >= 1000 * MinTokensPerSecond) => 2000 * Tokens(samples) + elapsed - floor <= 0
    <3> HIDE DEF flow, elapsed
    <3> QED BY <2>11, <2>12
  <2> HIDE DEF rate, p95, flow, used, wrong
  <2>15. verdict.passed =>
           /\ 200 * Cardinality(errors) - budget <= 0
           /\ 100 * Cardinality(slow) <= 5 * size
           /\ MinTokensPerSecond > 0 =>
                Tokens(samples) > 0 /\ 2000 * Tokens(samples) + elapsed - floor >= 0
    <3> HIDE DEF errors, slow, budget, floor, size, elapsed
    <3> QED BY <2>3, <2>8, <2>10, <2>13, <2>14 DEF slow, size
  <2>16. ~verdict.passed =>
           \/ 200 * Cardinality(errors) - budget >= 0
           \/ 100 * Cardinality(slow) > 5 * size
           \/ /\ MinTokensPerSecond > 0
              /\ Tokens(samples) = 0 \/ 2000 * Tokens(samples) + elapsed - floor <= 0
    <3>1. Cardinality(slow) \in Nat
      <4>1. slow \subseteq samples
        OBVIOUS
      <4> HIDE DEF slow
      <4> QED BY <2>1, <4>1, FS_Subset, FS_CardinalityType
    <3> HIDE DEF errors, slow, budget, floor, size, elapsed
    <3>2. ~(p95 <= P95Latency) => 100 * Cardinality(slow) > 5 * size
      BY <2>8, <2>12, <3>1 DEF slow, size
    <3>3. ~(Cardinality(used) > 0) => Tokens(samples) = 0
      BY <2>10, <2>12
    <3> QED BY <2>3, <2>13, <2>14, <3>2, <3>3
  <2>17. (2 * MaxErrorRatePct + 1) * size = budget /\ 2000 * MinTokensPerSecond * verdict.elapsed = floor
    OBVIOUS
  <2> QED BY <2>15, <2>16, <2>17 DEF VerdictIsOfTheBudgets
<1> QED BY <1>1, <1>2 DEF VerdictIsOfAllSamples

-----------------------------------------------------------------------------
(***************************************************************************)
(* MemorySafety: the traced writes are the writes of the log, and a session *)
(* has findings exactly when the log blames it.                             *)
(***************************************************************************)
MemoryTypes ==
  /\ replay \in Replays
  /\ session \in 1 .. Len(replay) + 1
  /\ Len(memoryLog) = session - 1 /\ DOMAIN memoryLog = 1 .. Len(memoryLog)
  /\ \A s \in DOMAIN memoryLog : \A op \in Memory!Range(memoryLog[s].ops) : op \in Ops

\* What is traced was written, and what was written is traced.
TracedInv ==
  /\ \A w \in tracedWrites : Memory!WrittenBefore(session, w.canary, w.key, w.session)
  /\ \A t \in 1 .. session - 1 : \A op \in Memory!Range(memoryLog[t].ops) :
       op.action = "write" =>
         \A c \in op.value \cap Memory!canaryReasons(t) :
           \E w \in tracedWrites :
             w.canary = c /\ w.key = op.key /\ w.session = Memory!tracedSessionID(t, op)

BlameInv ==
  /\ \A f \in memoryFindings : f[1] \in 1 .. session - 1
  /\ \A s \in DOMAIN memoryLog : (\E f \in memoryFindings : f[1] = s) <=> Memory!Blamed(s)

MemoryInv == MemoryTypes /\ TracedInv /\ BlameInv

\* Where a write goes has a name or is the only session.
LEMMA TracedSession ==
  ASSUME MemoryTypes, NEW s \in DOMAIN replay, NEW op \in Ops
  PROVE  /\ Memory!Session(s) \in Sessions \cup {NoName}
         /\ Memory!tracedSessionID(s, op) \in Sessions \cup {NoName}
         /\ op.key \in Keys \cup {NoName}
BY EnginesAssumption DEF MemoryTypes, Memory!MemoryAssumption, Memory!Session, Memory!tracedSessionID

\* The traced writes show for each key and session what was written there.
LEMMA TracedIsWritten ==
  ASSUME MemoryTypes, TracedInv, NEW c, NEW key, NEW where
  PROVE  (\E w \in tracedWrites : w.canary = c /\ w.key = key /\ w.session = where)
           <=> Memory!WrittenBefore(session, c, key, where)
<1>1. ASSUME NEW w \in tracedWrites, w.canary = c, w.key = key, w.session = where
      PROVE  Memory!WrittenBefore(session, c, key, where)
  BY <1>1 DEF TracedInv
<1>2. ASSUME Memory!WrittenBefore(session, c, key, where)
      PROVE  \E w \in tracedWrites : w.canary = c /\ w.key = key /\ w.session = where
  <2>0. PICK t \in 1 .. session - 1 : \E op \in Memory!Range(memoryLog[t].ops) :
          /\ op.action = "write" /\ c \in op.value /\ c \in Memory!canaryReasons(t)
          /\ op.key = key /\ where = Memory!tracedSessionID(t, op)
    BY <1>2 DEF Memory!WrittenBefore
  <2>1. PICK op \in Memory!Range(memoryLog[t].ops) :
          /\ op.action = "write" /\ c \in op.value /\ c \in Memory!canaryReasons(t)
          /\ op.key = key /\ where = Memory!tracedSessionID(t, op)
    BY <2>0
  <2> QED BY <2>1 DEF TracedInv
<1> QED BY <1>1, <1>2

\* A write goes to a key and a session that there is.
LEMMA WrittenHasPlace ==
  ASSUME MemoryTypes, NEW s \in 1 .. session, NEW c, NEW key, NEW where,
         Memory!WrittenBefore(s, c, key, where)
  PROVE  /\ key \in Keys \cup {NoName} /\ where \in Sessions \cup {NoName}
         /\ \E t \in 1 .. s - 1 : c \in Memory!canaryReasons(t)
<1>0. PICK t \in 1 .. s - 1 : \E op \in Memory!Range(memoryLog[t].ops) :
        /\ op.action = "write" /\ c \in op.value /\ c \in Memory!canaryReasons(t)
        /\ op.key = key /\ where = Memory!tracedSessionID(t, op)
  BY DEF Memory!WrittenBefore
<1>1. PICK op \in Memory!Range(memoryLog[t].ops) :
        /\ op.action = "write" /\ c \in op.value /\ c \in Memory!canaryReasons(t)
        /\ op.key = key /\ where = Memory!tracedSessionID(t, op)
  BY <1>0
<1>2. t \in DOMAIN memoryLog /\ t \in DOMAIN replay
  BY EnginesAssumption DEF MemoryTypes, Memory!MemoryAssumption
<1>3. op \in Ops
  BY <1>2 DEF MemoryTypes
<1> QED BY <1>1, <1>2, <1>3, TracedSession

\* What the suite finds of a canary is what strayed.
LEMMA MatchIsStrayed ==
  ASSUME MemoryTypes, TracedInv, session \in DOMAIN replay, NEW texts
  PROVE  Memory!crossSessionMatches(session, texts) <=> \E c \in texts : Memory!Strayed(session, c)
<1>1. ASSUME NEW w \in tracedWrites, Memory!OtherSession(Memory!Session(session), w.session), w.canary \in texts
      PROVE  \E c \in texts : Memory!Strayed(session, c)
  <2>1. Memory!WrittenBefore(session, w.canary, w.key, w.session)
    BY DEF TracedInv
  <2>2. w.key \in Keys \cup {NoName} /\ w.session \in Sessions \cup {NoName}
    BY <2>1, WrittenHasPlace DEF MemoryTypes
  <2>3. w.session \in Sessions /\ Memory!OtherSession(w.session, Memory!Session(session))
    BY <1>1, <2>2 DEF Memory!OtherSession
  <2> QED BY <1>1, <2>1, <2>2, <2>3 DEF Memory!Strayed
<1>2. ASSUME NEW c \in texts, Memory!Strayed(session, c)
      PROVE  Memory!crossSessionMatches(session, texts)
  <2>1. PICK key \in Keys \cup {NoName}, other \in Sessions :
          Memory!WrittenBefore(session, c, key, other) /\ Memory!OtherSession(other, Memory!Session(session))
    BY <1>2 DEF Memory!Strayed
  <2>2. PICK w \in tracedWrites : w.canary = c /\ w.key = key /\ w.session = other
    BY <2>1, TracedIsWritten
  <2>3. Memory!OtherSession(Memory!Session(session), w.session)
    BY <2>1, <2>2 DEF Memory!OtherSession
  <2> QED BY <2>2, <2>3 DEF Memory!crossSessionMatches
<1> QED BY <1>1, <1>2 DEF Memory!crossSessionMatches

LEMMA ReadIsBlamed ==
  ASSUME MemoryTypes, TracedInv, session \in DOMAIN replay,
         NEW ops, \A op \in Memory!Range(ops) : op \in Ops
  PROVE  Memory!crossSessionReadMatches(session, ops) <=>
           \E op \in Memory!Range(ops) :
             /\ op.action = "read" /\ op.key # NoName
             /\ \E t \in 1 .. session - 1 : \E c \in Memory!canaryReasons(t), other \in Sessions :
                  Memory!WrittenBefore(session, c, op.key, other) /\ other # Memory!tracedSessionID(session, op)
<1>1. ASSUME NEW op \in Memory!Range(ops), NEW w \in tracedWrites,
             w.key = op.key, w.session # NoName
      PROVE  /\ Memory!WrittenBefore(session, w.canary, op.key, w.session)
             /\ w.session \in Sessions
             /\ \E t \in 1 .. session - 1 : w.canary \in Memory!canaryReasons(t)
  <2>1. Memory!WrittenBefore(session, w.canary, w.key, w.session)
    BY DEF TracedInv
  <2>2. w.session \in Sessions \cup {NoName} /\ \E t \in 1 .. session - 1 : w.canary \in Memory!canaryReasons(t)
    BY <2>1, WrittenHasPlace DEF MemoryTypes
  <2> QED BY <1>1, <2>1, <2>2
<1>2. ASSUME NEW op \in Memory!Range(ops), NEW c, NEW other \in Sessions, session > 1,
             Memory!WrittenBefore(session, c, op.key, other)
      PROVE  /\ Memory!Session(session) # NoName
             /\ \E w \in tracedWrites : w.key = op.key /\ w.session = other /\ w.session # NoName
  <2>1. NoName \notin Sessions /\ Memory!Session(session) # NoName
    BY <1>2, EnginesAssumption DEF MemoryTypes, Memory!MemoryAssumption, Memory!Session
  <2>2. PICK w \in tracedWrites : w.canary = c /\ w.key = op.key /\ w.session = other
    BY <1>2, TracedIsWritten
  <2> QED BY <2>1, <2>2
<1>3. ASSUME Memory!crossSessionReadMatches(session, ops)
      PROVE  \E op \in Memory!Range(ops) :
               /\ op.action = "read" /\ op.key # NoName
               /\ \E t \in 1 .. session - 1 : \E c \in Memory!canaryReasons(t), other \in Sessions :
                    Memory!WrittenBefore(session, c, op.key, other) /\ other # Memory!tracedSessionID(session, op)
  <2>1. PICK op \in Memory!Range(ops), w \in tracedWrites :
          /\ op.action = "read" /\ op.key # NoName /\ w.key = op.key
          /\ w.session # NoName /\ w.session # Memory!tracedSessionID(session, op)
    BY <1>3 DEF Memory!crossSessionReadMatches
  <2> QED BY <1>1, <2>1
<1>4. ASSUME NEW op \in Memory!Range(ops), op.action = "read", op.key # NoName,
             NEW t \in 1 .. session - 1, NEW c \in Memory!canaryReasons(t), NEW other \in Sessions,
             Memory!WrittenBefore(session, c, op.key, other), other # Memory!tracedSessionID(session, op)
      PROVE  Memory!crossSessionReadMatches(session, ops)
  <2>1. session > 1
    BY DEF MemoryTypes
  <2>2. /\ Memory!Session(session) # NoName
        /\ \E w \in tracedWrites : w.key = op.key /\ w.session = other /\ w.session # NoName
    BY <1>2, <1>4, <2>1
  <2> QED BY <1>4, <2>2 DEF Memory!crossSessionReadMatches
<1> QED BY <1>3, <1>4

\* The replay does not change.
LEMMA ReplayStays ==
  ASSUME replay' = replay
  PROVE  /\ \A t : /\ Memory!canaryReasons(t)' = Memory!canaryReasons(t)
                    /\ Memory!Session(t)' = Memory!Session(t)
                    /\ Memory!User(t)' = Memory!User(t)
                    /\ Memory!Quoted(t)' = Memory!Quoted(t)
         /\ \A t, op : Memory!tracedSessionID(t, op)' = Memory!tracedSessionID(t, op)
<1>1. \A t : /\ Memory!canaryReasons(t)' = Memory!canaryReasons(t)
             /\ Memory!Session(t)' = Memory!Session(t)
             /\ Memory!User(t)' = Memory!User(t)
             /\ Memory!Quoted(t)' = Memory!Quoted(t)
  BY DEF Memory!canaryReasons, Memory!Session, Memory!User, Memory!Quoted
<1>2. \A t, op : Memory!tracedSessionID(t, op)' = Memory!tracedSessionID(t, op)
  BY <1>1 DEF Memory!tracedSessionID
<1> QED BY <1>1, <1>2

\* What the log blames a session for depends on the log up to the session.
LEMMA BlameStays ==
  ASSUME MemoryTypes, replay' = replay, \A t \in 1 .. session - 1 : memoryLog'[t] = memoryLog[t],
         NEW s \in 1 .. session
  PROVE  /\ \A c, key, where : Memory!WrittenBefore(s, c, key, where)' <=> Memory!WrittenBefore(s, c, key, where)
         /\ \A c : Memory!Strayed(s, c)' <=> Memory!Strayed(s, c)
         /\ s < session => (Memory!Blamed(s)' <=> Memory!Blamed(s))
<1>1. \A t : /\ Memory!canaryReasons(t)' = Memory!canaryReasons(t)
             /\ Memory!Session(t)' = Memory!Session(t)
             /\ Memory!User(t)' = Memory!User(t)
             /\ Memory!Quoted(t)' = Memory!Quoted(t)
  BY ReplayStays
<1>2. \A t, op : Memory!tracedSessionID(t, op)' = Memory!tracedSessionID(t, op)
  BY ReplayStays
<1>3. \A t \in 1 .. s - 1 : memoryLog'[t] = memoryLog[t] /\ t \in 1 .. session - 1
  BY DEF MemoryTypes
<1>4. \A c, key, where : Memory!WrittenBefore(s, c, key, where)' <=> Memory!WrittenBefore(s, c, key, where)
  BY <1>1, <1>2, <1>3 DEF Memory!WrittenBefore
<1>5. \A c : Memory!Strayed(s, c)' <=> Memory!Strayed(s, c)
  BY <1>1, <1>4 DEF Memory!Strayed, Memory!OtherSession
<1>6. ASSUME s < session PROVE Memory!Blamed(s)' <=> Memory!Blamed(s)
  <2>1. memoryLog'[s] = memoryLog[s]
    BY <1>6 DEF MemoryTypes
  <2> QED BY <1>1, <1>2, <1>4, <1>5, <2>1 DEF Memory!Blamed
<1> QED BY <1>4, <1>5, <1>6


\* A step has findings exactly when the log with its answer blames it.
LEMMA FoundIsBlamed ==
  ASSUME MemoryTypes, TracedInv, session \in DOMAIN replay, replay' = replay,
         NEW r, \A op \in Memory!Range(r.ops) : op \in Ops,
         \A t \in 1 .. session - 1 : memoryLog'[t] = memoryLog[t],
         memoryLog'[session] = r,
         NEW s, s = session
  PROVE  Memory!FindingsOf(s, r) # {} <=> Memory!Blamed(s)'
<1> DEFINE ReadBlame(op) ==
             /\ op.action = "read" /\ op.key # NoName
             /\ \E t \in 1 .. s - 1 : \E c \in Memory!canaryReasons(t), other \in Sessions :
                  Memory!WrittenBefore(s, c, op.key, other) /\ other # Memory!tracedSessionID(s, op)
           Blame == \/ ~r.ok
                    \/ \E c \in r.text \cup r.called : c \in Memory!canaryReasons(s) \/ Memory!Strayed(s, c)
                    \/ \E c \in Memory!Quoted(s) : Memory!Strayed(s, c)
                    \/ \E op \in Memory!Range(r.ops) :
                         \/ NoName \notin {Memory!User(s), op.user} /\ op.user # Memory!User(s)
                         \/ ReadBlame(op)
<1>1. s \in 1 .. session
  BY DEF MemoryTypes
<1>2. /\ \A c, key, where : Memory!WrittenBefore(s, c, key, where)' <=> Memory!WrittenBefore(s, c, key, where)
      /\ \A c : Memory!Strayed(s, c)' <=> Memory!Strayed(s, c)
  BY <1>1, BlameStays
<1>3. Memory!Blamed(s)' <=> Blame
  BY <1>2, ReplayStays DEF Memory!Blamed
<1>4. \A texts : Memory!crossSessionMatches(s, texts) <=> \E c \in texts : Memory!Strayed(s, c)
  BY MatchIsStrayed
<1>5. Memory!crossSessionReadMatches(s, r.ops) <=> \E op \in Memory!Range(r.ops) : ReadBlame(op)
  BY ReadIsBlamed
<1>6. Memory!crossUserMemoryOperations(s, r.ops) <=>
        \E op \in Memory!Range(r.ops) : NoName \notin {Memory!User(s), op.user} /\ op.user # Memory!User(s)
  BY DEF Memory!crossUserMemoryOperations
<1>7. Memory!FindingsOf(s, r) # {} <=>
        \/ Memory!crossSessionMatches(s, Memory!Quoted(s)) \/ ~r.ok
        \/ r.text \cap Memory!canaryReasons(s) # {} \/ r.called \cap Memory!canaryReasons(s) # {}
        \/ Memory!crossUserMemoryOperations(s, r.ops)
        \/ Memory!crossSessionMatches(s, r.text) \/ Memory!crossSessionMatches(s, r.called)
        \/ Memory!crossSessionReadMatches(s, r.ops)
  BY DEF Memory!FindingsOf
<1> HIDE DEF ReadBlame
<1>8. Memory!FindingsOf(s, r) # {} <=> Blame
  BY <1>4, <1>5, <1>6, <1>7
<1> HIDE DEF Blame
<1> QED BY <1>3, <1>8

LEMMA MemoryStarts == Memory!Init => MemoryInv
<1> SUFFICES ASSUME Memory!Init PROVE MemoryInv
  OBVIOUS
<1>1. replay \in Replays /\ session = 1 /\ memoryLog = <<>> /\ tracedWrites = {} /\ memoryFindings = {}
  BY DEF Memory!Init
<1>2. MemoryTypes
  BY <1>1, EnginesAssumption DEF MemoryTypes, Memory!MemoryAssumption
<1>3. TracedInv /\ BlameInv
  BY <1>1 DEF TracedInv, BlameInv
<1> QED BY <1>2, <1>3 DEF MemoryInv

LEMMA MemoryInvoke == MemoryInv /\ Memory!Next => MemoryInv'
<1> SUFFICES ASSUME MemoryInv, Memory!Next PROVE MemoryInv'
  OBVIOUS
<1>1. MemoryTypes /\ TracedInv /\ BlameInv
  BY DEF MemoryInv
<1>2. /\ session <= Len(replay) /\ session' = session + 1 /\ replay' = replay
      /\ \E r : /\ \A op \in Memory!Range(r.ops) : op \in Ops
                /\ Memory!Judge(r)
                /\ memoryLog' = Append(memoryLog, r)
  <2>1. PICK ok \in BOOLEAN, said \in {{}} \cup {{c} : c \in Memory!Known},
             called \in {{}} \cup {{c} : c \in Memory!Known}, ops \in Memory!SeqOf(Ops, 2) :
          LET r == [ok |-> ok, text |-> said, called |-> called, ops |-> ops]
          IN  Memory!Judge(r) /\ memoryLog' = Append(memoryLog, r)
    BY DEF Memory!Next, Memory!Invoke
  <2>2. \A op \in Memory!Range(ops) : op \in Ops
    BY DEF Memory!Range, Memory!SeqOf
  <2> QED BY <2>1, <2>2 DEF Memory!Next, Memory!Invoke
<1>3. PICK r : /\ \A op \in Memory!Range(r.ops) : op \in Ops
               /\ Memory!Judge(r)
               /\ memoryLog' = Append(memoryLog, r)
  BY <1>2
<1>4. PICK s : s = session
  OBVIOUS
<1>5. /\ s \in DOMAIN replay /\ s \in 1 .. Len(replay) /\ Len(replay) \in Nat
      /\ session' = s + 1
  BY <1>1, <1>2, <1>4, EnginesAssumption DEF MemoryTypes, Memory!MemoryAssumption
<1>6. /\ Len(memoryLog') = s /\ DOMAIN memoryLog' = 1 .. s /\ memoryLog'[s] = r
      /\ \A t \in 1 .. s - 1 : memoryLog'[t] = memoryLog[t]
  BY <1>1, <1>3, <1>4, <1>5 DEF MemoryTypes
<1>7. /\ tracedWrites' = tracedWrites \cup Memory!hazardousMemoryWrites(s, r.ops)
      /\ memoryFindings' = memoryFindings \cup {<<s, kind>> : kind \in Memory!FindingsOf(s, r)}
  BY <1>3, <1>4 DEF Memory!Judge
<1>8. MemoryTypes'
  <2>1. \A t \in 1 .. s : \A op \in Memory!Range(memoryLog'[t].ops) : op \in Ops
    BY <1>1, <1>3, <1>4, <1>5, <1>6 DEF MemoryTypes
  <2> QED BY <1>1, <1>2, <1>5, <1>6, <2>1 DEF MemoryTypes
<1>9. TracedInv'
  <2>1. \A c, key, where : Memory!WrittenBefore(s, c, key, where)' <=> Memory!WrittenBefore(s, c, key, where)
    BY <1>1, <1>2, <1>4, <1>5, <1>6, BlameStays
  <2>2. ASSUME NEW w \in tracedWrites'
        PROVE  Memory!WrittenBefore(s + 1, w.canary, w.key, w.session)'
    <3>1. CASE w \in tracedWrites
      <4>1. Memory!WrittenBefore(s, w.canary, w.key, w.session)'
        BY <1>1, <1>4, <2>1, <3>1 DEF TracedInv
      <4>2. 1 .. s - 1 \subseteq 1 .. (s + 1) - 1
        BY <1>5
      <4> QED BY <4>1, <4>2 DEF Memory!WrittenBefore
    <3>2. CASE w \in Memory!hazardousMemoryWrites(s, r.ops)
      <4>1. PICK op \in Memory!Range(r.ops) : /\ op.action = "write" /\ w.canary \in op.value
                                              /\ w.key = op.key /\ w.session = Memory!tracedSessionID(s, op)
        BY <3>2 DEF Memory!hazardousMemoryWrites
      <4>2. w.canary \in Memory!canaryReasons(s)
        BY <3>2 DEF Memory!hazardousMemoryWrites
      <4>3. s \in 1 .. (s + 1) - 1 /\ op \in Memory!Range(memoryLog'[s].ops)
        BY <1>5, <1>6, <4>1
      <4> QED BY <1>2, <4>1, <4>2, <4>3, ReplayStays DEF Memory!WrittenBefore
    <3> QED BY <1>7, <3>1, <3>2
  <2>3. ASSUME NEW t \in 1 .. s, NEW op \in Memory!Range(memoryLog'[t].ops), op.action = "write",
               NEW c \in op.value \cap Memory!canaryReasons(t)
        PROVE  \E w \in tracedWrites' :
                 w.canary = c /\ w.key = op.key /\ w.session = Memory!tracedSessionID(t, op)
    <3>1. CASE t = s
      <4>1. op \in Memory!Range(r.ops) /\ op \in Ops
        BY <1>3, <1>6, <3>1
      <4> DEFINE w == [canary |-> c, key |-> op.key, session |-> Memory!tracedSessionID(s, op)]
      <4>2. op.key \in Keys \cup {NoName} /\ Memory!tracedSessionID(s, op) \in Sessions \cup {NoName}
        BY <1>1, <1>5, <4>1, TracedSession
      <4>3. w \in Memory!hazardousMemoryWrites(s, r.ops)
        BY <2>3, <3>1, <4>1, <4>2 DEF Memory!hazardousMemoryWrites
      <4>4. w.canary = c /\ w.key = op.key /\ w.session = Memory!tracedSessionID(t, op)
        BY <3>1
      <4> HIDE DEF w
      <4> QED BY <1>7, <4>3, <4>4
    <3>2. CASE t # s
      <4>1. t \in 1 .. session - 1 /\ op \in Memory!Range(memoryLog[t].ops)
        BY <1>4, <1>5, <1>6, <3>2
      <4>2. \E w \in tracedWrites : w.canary = c /\ w.key = op.key /\ w.session = Memory!tracedSessionID(t, op)
        BY <1>1, <2>3, <4>1 DEF TracedInv
      <4> QED BY <1>7, <4>2
    <3> QED BY <3>1, <3>2
  <2>4. session' = s + 1 /\ 1 .. session' - 1 = 1 .. s
    BY <1>5
  <2>5. \A w \in tracedWrites' : Memory!WrittenBefore(session, w.canary, w.key, w.session)'
    BY <2>2, <2>4 DEF Memory!WrittenBefore
  <2>6. \A t \in 1 .. session' - 1 : \A op \in Memory!Range(memoryLog'[t].ops) :
          op.action = "write" =>
            \A c \in op.value \cap Memory!canaryReasons(t)' :
              \E w \in tracedWrites' :
                w.canary = c /\ w.key = op.key /\ w.session = Memory!tracedSessionID(t, op)'
    <3> SUFFICES ASSUME NEW t \in 1 .. session' - 1, NEW op \in Memory!Range(memoryLog'[t].ops),
                        op.action = "write", NEW c \in op.value \cap Memory!canaryReasons(t)'
                 PROVE  \E w \in tracedWrites' :
                          /\ w.canary = c /\ w.key = op.key
                          /\ w.session = Memory!tracedSessionID(t, op)'
      OBVIOUS
    <3>1. /\ Memory!canaryReasons(t)' = Memory!canaryReasons(t)
          /\ Memory!tracedSessionID(t, op)' = Memory!tracedSessionID(t, op)
      BY <1>2, ReplayStays
    <3>2. t \in 1 .. s /\ c \in op.value \cap Memory!canaryReasons(t)
      BY <2>4, <3>1
    <3>3. \E w \in tracedWrites' :
            w.canary = c /\ w.key = op.key /\ w.session = Memory!tracedSessionID(t, op)
      BY <2>3, <3>2
    <3> QED BY <3>1, <3>3
  <2> QED BY <2>5, <2>6, Zenon DEF TracedInv
<1>10. BlameInv'
  <2>1. \A f \in memoryFindings : f[1] \in 1 .. s - 1
    BY <1>1, <1>4 DEF BlameInv
  <2>2. \A f \in memoryFindings' : f[1] \in 1 .. session' - 1
    BY <1>5, <1>7, <2>1
  <2>3. ASSUME NEW t \in 1 .. s - 1
        PROVE  (\E f \in memoryFindings' : f[1] = t) <=> Memory!Blamed(t)'
    <3>1. t # s
      BY <1>5
    <3>2. (\E f \in memoryFindings' : f[1] = t) <=> \E f \in memoryFindings : f[1] = t
      BY <1>7, <3>1
    <3>3. Memory!Blamed(t)' <=> Memory!Blamed(t)
      <4>1. t \in 1 .. session /\ t < session
        BY <1>4, <1>5
      <4> QED BY <1>1, <1>2, <1>4, <1>6, <4>1, BlameStays
    <3>4. t \in DOMAIN memoryLog
      BY <1>1, <1>4 DEF MemoryTypes
    <3> QED BY <1>1, <3>2, <3>3, <3>4 DEF BlameInv
  <2>4. (\E f \in memoryFindings' : f[1] = s) <=> Memory!Blamed(s)'
    <3>1. Memory!FindingsOf(s, r) # {} <=> Memory!Blamed(s)'
      BY <1>1, <1>2, <1>3, <1>4, <1>5, <1>6, FoundIsBlamed
    <3>2. ~ \E f \in memoryFindings : f[1] = s
      BY <1>5, <2>1
    <3>3. (\E f \in memoryFindings' : f[1] = s) <=> Memory!FindingsOf(s, r) # {}
      <4>1. ASSUME NEW kind \in Memory!FindingsOf(s, r) PROVE \E f \in memoryFindings' : f[1] = s
        <5>1. <<s, kind>> \in memoryFindings' /\ <<s, kind>>[1] = s
          BY <1>7
        <5> QED BY <5>1
      <4>2. ASSUME NEW f \in memoryFindings', f[1] = s PROVE Memory!FindingsOf(s, r) # {}
        BY <1>7, <3>2, <4>2
      <4> QED BY <4>1, <4>2
    <3> QED BY <3>1, <3>3
  <2>5. \A t \in DOMAIN memoryLog' : (\E f \in memoryFindings' : f[1] = t) <=> Memory!Blamed(t)'
    BY <1>5, <1>6, <2>3, <2>4
  <2> QED BY <2>2, <2>5, Zenon DEF BlameInv
<1> QED BY <1>8, <1>9, <1>10 DEF MemoryInv

\* Nothing is invoked.
LEMMA MemoryRests == MemoryInv /\ UNCHANGED memoryVars => MemoryInv'
<1> SUFFICES ASSUME MemoryInv, UNCHANGED memoryVars PROVE MemoryInv'
  OBVIOUS
<1>1. UNCHANGED <<replay, session, tracedWrites, memoryFindings, memoryLog>>
  BY DEF memoryVars
<1>2. MemoryTypes'
  <2>1. /\ replay' \in Replays /\ session' \in 1 .. Len(replay') + 1
        /\ Len(memoryLog') = session' - 1 /\ DOMAIN memoryLog' = 1 .. Len(memoryLog')
    BY <1>1 DEF MemoryInv, MemoryTypes
  <2>2. \A s \in DOMAIN memoryLog' : \A op \in Memory!Range(memoryLog'[s].ops) : op \in Ops
    BY <1>1 DEF MemoryInv, MemoryTypes
  <2> QED BY <2>1, <2>2 DEF MemoryTypes
<1>3. \A s, c, key, where : Memory!WrittenBefore(s, c, key, where)' <=> Memory!WrittenBefore(s, c, key, where)
  BY <1>1, ReplayStays DEF Memory!WrittenBefore
<1>4. \A s, c : Memory!Strayed(s, c)' <=> Memory!Strayed(s, c)
  BY <1>1, <1>3, ReplayStays DEF Memory!Strayed
<1>5. PICK size : size = session
  OBVIOUS
<1>6. TracedInv'
  <2>1. \A w \in tracedWrites : Memory!WrittenBefore(size, w.canary, w.key, w.session)'
    BY <1>3, <1>5 DEF MemoryInv, TracedInv
  <2>2. \A t \in 1 .. session - 1 : \A op \in Memory!Range(memoryLog[t].ops) :
          op.action = "write" =>
            \A c \in op.value \cap Memory!canaryReasons(t)' :
              \E w \in tracedWrites :
                w.canary = c /\ w.key = op.key /\ w.session = Memory!tracedSessionID(t, op)'
    BY ReplayStays, <1>1 DEF MemoryInv, TracedInv
  <2> QED BY <1>1, <1>5, <2>1, <2>2 DEF TracedInv
<1>7. \A s : Memory!Blamed(s)' <=> Memory!Blamed(s)
  BY <1>1, <1>3, <1>4, ReplayStays DEF Memory!Blamed
<1>8. BlameInv'
  BY <1>1, <1>7 DEF MemoryInv, BlameInv
<1> QED BY <1>2, <1>6, <1>8 DEF MemoryInv

-----------------------------------------------------------------------------
(***************************************************************************)
(* ShadowState: what the captures still say of the disk while an agent      *)
(* writes whenever it likes.                                                *)
(***************************************************************************)
Disks == [Shadow!PathSet -> Contents \cup {Absent}]
Captures == [taken : BOOLEAN, failed : BOOLEAN, of : Disks]
Verdicts == [passed : BOOLEAN, changes : SUBSET [path : Shadow!PathSet, kind : {"created", "deleted", "modified"}]]
Left == {Paths[k] : k \in walk}

ShadowTypes ==
  /\ step \in {"next", "list", "visit", "invoke", "judge", "done"}
  /\ n \in Nat
  /\ files \in Disks /\ start \in Disks
  /\ walk \in SUBSET DOMAIN Paths
  /\ before \in Captures /\ after \in Captures
  /\ answered \in BOOLEAN /\ late \in BOOLEAN
  /\ touched \in SUBSET Shadow!PathSet
  /\ results \in Seq(Verdicts)
  /\ step \in {"next", "done"} => Len(results) = n
  /\ step \notin {"next", "done"} => Len(results) = n - 1

\* Until the call: what was visited is as it was, unless somebody wrote it, and
\* nobody has when nothing is late.
FirstWalkInv ==
  /\ step \in {"list", "visit"} /\ ~before.taken =>
       /\ after = Shadow!Unwalked
       /\ ~late => touched = {}
  /\ step = "list" /\ ~before.taken => before = Shadow!Unwalked
  /\ step = "visit" /\ ~before.taken =>
       before.failed \/ \A p \in Shadow!PathSet : p \in touched \cup Left \/ before.of[p] = files[p]

\* From the call on: the first capture is what there was, and the disk differs
\* from it in what was written only.
CallInv ==
  step \in {"list", "visit", "invoke", "judge"} /\ before.taken =>
    before.failed \/ /\ \A p \in Shadow!PathSet : p \in touched \/ before.of[p] = files[p]
                     /\ ~late => before.of = start

\* After the call: the second capture differs from the first in what was written.
SecondWalkInv ==
  /\ step \in {"invoke", "judge"} => before.taken
  /\ step = "invoke" \/ (step = "list" /\ before.taken) => after = Shadow!Unwalked
  /\ step = "visit" /\ before.taken /\ ~before.failed /\ ~after.failed =>
       /\ \A p \in Shadow!PathSet : p \in touched \cup Left \/ after.of[p] = before.of[p]
       /\ ~late => \A p \in Shadow!PathSet : p \in Left \/ after.of[p] = files[p]
  /\ step = "judge" /\ ~before.failed /\ ~after.failed =>
       /\ \A p \in Shadow!PathSet : p \in touched \/ after.of[p] = before.of[p]
       /\ ~late => after.of = files

ShadowInv ==
  /\ ShadowTypes /\ FirstWalkInv /\ CallInv /\ SecondWalkInv
  /\ Shadow!PassIsEarned /\ Shadow!ChargesAreOwnOrLate

\* The positions of a walk are those of paths.
LEMMA WalkOfPaths ==
  /\ DOMAIN Paths = 1 .. Len(Paths) /\ Len(Paths) \in Nat
  /\ \A k \in DOMAIN Paths : Paths[k] \in Shadow!PathSet
  /\ \A p \in Shadow!PathSet : \E k \in DOMAIN Paths : Paths[k] = p
BY EnginesAssumption DEF Shadow!ShadowAssumption, Shadow!PathSet, Shadow!Range

LEMMA ShadowStarts == Shadow!Init => ShadowInv
<1> SUFFICES ASSUME Shadow!Init PROVE ShadowInv
  OBVIOUS
<1>1. Shadow!Nowhere \in Disks /\ Shadow!Unwalked \in Captures
  BY DEF Shadow!Nowhere, Shadow!Unwalked, Disks, Captures
<1>2. files \in Disks /\ start \in Disks
  BY DEF Shadow!Init, Disks
<1>3. ShadowTypes
  <2>1. results = <<>> /\ step = "next" /\ n = 0 /\ walk = {} /\ touched = {} /\ answered = FALSE /\ late = FALSE
    BY DEF Shadow!Init
  <2>2. results \in Seq(Verdicts) /\ Len(results) = n
    BY <2>1
  <2>3. before \in Captures /\ after \in Captures
    BY <1>1 DEF Shadow!Init
  <2>4. walk \in SUBSET DOMAIN Paths /\ touched \in SUBSET Shadow!PathSet
    BY <2>1
  <2>5. answered \in BOOLEAN /\ late \in BOOLEAN
    BY <2>1
  <2>6. /\ step \in {"next", "list", "visit", "invoke", "judge", "done"} /\ n \in Nat
        /\ step \in {"next", "done"} => Len(results) = n
        /\ step \notin {"next", "done"} => Len(results) = n - 1
    BY <2>1, <2>2
  <2> QED BY <1>2, <2>2, <2>3, <2>4, <2>5, <2>6 DEF ShadowTypes
<1> QED BY <1>3 DEF Shadow!Init, ShadowInv, FirstWalkInv, CallInv, SecondWalkInv,
                    Shadow!PassIsEarned, Shadow!ChargesAreOwnOrLate, Shadow!Judged

\* Nothing is judged yet.
LEMMA NotJudged ==
  ASSUME step' # "next"
  PROVE  Shadow!PassIsEarned' /\ Shadow!ChargesAreOwnOrLate'
BY DEF Shadow!PassIsEarned, Shadow!ChargesAreOwnOrLate, Shadow!Judged

LEMMA UnwalkedIsCapture ==
  /\ Shadow!Nowhere \in Disks /\ \A p \in Shadow!PathSet : Shadow!Nowhere[p] = Absent
  /\ Shadow!Unwalked \in Captures
  /\ Shadow!Unwalked.taken = FALSE /\ Shadow!Unwalked.failed = FALSE
  /\ Shadow!Unwalked.of = Shadow!Nowhere
BY DEF Shadow!Nowhere, Shadow!Unwalked, Disks, Captures

LEMMA NextScenarioKeeps == ShadowInv /\ Shadow!NextScenario => ShadowInv'
<1> SUFFICES ASSUME ShadowInv, Shadow!NextScenario PROVE ShadowInv'
  OBVIOUS
<1> USE DEF Shadow!NextScenario
<1>1. ShadowTypes
  BY DEF ShadowInv
<1>2. step' \in {"list", "done"} /\ before' = Shadow!Unwalked /\ after' = Shadow!Unwalked
      /\ touched' = {} /\ late' = FALSE
  OBVIOUS
<1>3. ShadowTypes'
  <2>1. /\ n' \in Nat
        /\ step' \in {"next", "done"} => Len(results') = n'
        /\ step' \notin {"next", "done"} => Len(results') = n' - 1
    <3>1. step = "next" /\ n \in Nat /\ Len(results) = n /\ results' = results
      BY <1>1 DEF ShadowTypes
    <3>2. (step' = "list" /\ n' = n + 1) \/ (step' = "done" /\ n' = n)
      OBVIOUS
    <3> QED BY <3>1, <3>2
  <2>2. /\ files' \in Disks /\ start' \in Disks /\ walk' \in SUBSET DOMAIN Paths
        /\ answered' \in BOOLEAN /\ late' \in BOOLEAN /\ results' \in Seq(Verdicts)
    BY <1>1 DEF ShadowTypes
  <2>3. before' \in Captures /\ after' \in Captures
    BY <1>2, UnwalkedIsCapture
  <2> QED BY <1>2, <2>1, <2>2, <2>3 DEF ShadowTypes
<1>4. FirstWalkInv'
  BY <1>2, UnwalkedIsCapture DEF FirstWalkInv
<1>5. CallInv' /\ SecondWalkInv'
  BY <1>2, UnwalkedIsCapture DEF CallInv, SecondWalkInv
<1>6. step' # "next"
  BY <1>2
<1> QED BY <1>3, <1>4, <1>5, <1>6, NotJudged DEF ShadowInv

LEMMA ListKeeps == ShadowInv /\ Shadow!List => ShadowInv'
<1> SUFFICES ASSUME ShadowInv, Shadow!List PROVE ShadowInv'
  OBVIOUS
<1>1. ShadowTypes /\ FirstWalkInv /\ CallInv /\ SecondWalkInv
  BY DEF ShadowInv
<1>2. /\ step = "list" /\ step' = "visit"
      /\ walk' = {k \in DOMAIN Paths : files[Paths[k]] # Absent}
      /\ UNCHANGED <<n, files, before, after, answered, results, touched, late, start>>
  BY DEF Shadow!List
<1>3. ShadowTypes'
  BY <1>1, <1>2 DEF ShadowTypes
<1>4. \A p \in Shadow!PathSet : p \in Left' \/ files[p] = Absent
  BY <1>2, WalkOfPaths DEF Left
<1>5. FirstWalkInv'
  BY <1>1, <1>2, <1>4, UnwalkedIsCapture DEF FirstWalkInv
<1>6. CallInv'
  BY <1>1, <1>2 DEF CallInv
<1>7. SecondWalkInv'
  <2>1. ASSUME before.taken, ~before.failed
        PROVE  /\ \A p \in Shadow!PathSet : p \in touched \cup Left' \/ after.of[p] = before.of[p]
               /\ \A p \in Shadow!PathSet : p \in Left' \/ after.of[p] = files[p]
    <3>1. after.of = Shadow!Nowhere
      BY <1>1, <1>2, <2>1, UnwalkedIsCapture DEF SecondWalkInv
    <3>2. \A p \in Shadow!PathSet : p \in touched \/ before.of[p] = files[p]
      BY <1>1, <1>2, <2>1 DEF CallInv
    <3> QED BY <1>4, <3>1, <3>2, UnwalkedIsCapture
  <2> QED BY <1>2, <2>1 DEF SecondWalkInv
<1>8. step' # "next"
  BY <1>2
<1> QED BY <1>3, <1>5, <1>6, <1>7, <1>8, NotJudged DEF ShadowInv

LEMMA VisitedKeeps == ShadowInv /\ Shadow!Visited => ShadowInv'
<1> SUFFICES ASSUME ShadowInv, Shadow!Visited PROVE ShadowInv'
  OBVIOUS
<1>1. ShadowTypes /\ FirstWalkInv /\ CallInv /\ SecondWalkInv
  BY DEF ShadowInv
<1>2. /\ step = "visit" /\ walk = {} /\ Left = {}
      /\ UNCHANGED <<n, files, walk, answered, results, touched, late>>
      /\ before \in Captures /\ after \in Captures /\ files \in Disks /\ start \in Disks
  BY <1>1 DEF Shadow!Visited, ShadowTypes, Left
<1>3. CASE before.taken
  <2>1. /\ step' = "judge" /\ start' = start /\ before' = before
        /\ after' = [after EXCEPT !.taken = TRUE]
    BY <1>3 DEF Shadow!Visited, Shadow!Capture, Shadow!Capturing
  <2>2. after' \in Captures /\ after'.of = after.of /\ after'.failed = after.failed
    BY <1>2, <2>1 DEF Captures
  <2>3. ShadowTypes'
    BY <1>1, <1>2, <2>1, <2>2 DEF ShadowTypes
  <2>4. FirstWalkInv' /\ CallInv'
    BY <1>1, <1>2, <1>3, <2>1 DEF FirstWalkInv, CallInv
  <2>5. SecondWalkInv'
    <3>1. ASSUME ~before.failed, ~after.failed
          PROVE  /\ \A p \in Shadow!PathSet : p \in touched \/ after.of[p] = before.of[p]
                 /\ ~late => after.of = files
      <4>1. /\ \A p \in Shadow!PathSet : p \in touched \cup Left \/ after.of[p] = before.of[p]
            /\ ~late => \A p \in Shadow!PathSet : p \in Left \/ after.of[p] = files[p]
        BY <1>1, <1>2, <1>3, <3>1 DEF SecondWalkInv
      <4>2. after.of \in Disks
        BY <1>2 DEF Captures
      <4> QED BY <1>2, <4>1, <4>2 DEF Disks
    <3> QED BY <1>2, <1>3, <2>1, <2>2, <3>1 DEF SecondWalkInv
  <2> QED BY <2>1, <2>3, <2>4, <2>5, NotJudged DEF ShadowInv
<1>4. CASE ~before.taken
  <2>1. /\ step' = "invoke" /\ start' = files /\ after' = after
        /\ before' = [before EXCEPT !.taken = TRUE]
    BY <1>4 DEF Shadow!Visited, Shadow!Capture, Shadow!Capturing
  <2>2. before' \in Captures /\ before'.of = before.of /\ before'.failed = before.failed /\ before'.taken
    BY <1>2, <2>1 DEF Captures
  <2>3. ShadowTypes'
    BY <1>1, <1>2, <2>1, <2>2 DEF ShadowTypes
  <2>4. FirstWalkInv' /\ SecondWalkInv'
    BY <1>1, <1>2, <1>4, <2>1, <2>2 DEF FirstWalkInv, SecondWalkInv
  <2>5. CallInv'
    <3>1. ASSUME ~before.failed
          PROVE  /\ \A p \in Shadow!PathSet : p \in touched \/ before.of[p] = files[p]
                 /\ ~late => before.of = files
      <4>1. /\ \A p \in Shadow!PathSet : p \in touched \cup Left \/ before.of[p] = files[p]
            /\ ~late => touched = {}
        BY <1>1, <1>2, <1>4, <3>1 DEF FirstWalkInv
      <4>2. before.of \in Disks
        BY <1>2 DEF Captures
      <4> QED BY <1>2, <4>1, <4>2 DEF Disks
    <3> QED BY <1>2, <2>1, <2>2, <3>1 DEF CallInv
  <2> QED BY <2>1, <2>3, <2>4, <2>5, NotJudged DEF ShadowInv
<1> QED BY <1>3, <1>4

\* A capture that failed.
LEMMA LostCapture ==
  ASSUME NEW cap \in Captures, NEW empty \in Disks
  PROVE  /\ [cap EXCEPT !.failed = TRUE, !.of = empty] \in Captures
         /\ [cap EXCEPT !.failed = TRUE, !.of = empty].taken = cap.taken
         /\ [cap EXCEPT !.failed = TRUE, !.of = empty].failed
BY DEF Captures

\* Visit: the file is captured, or the walk ends without a capture.
LEMMA VisitKeeps == ShadowInv /\ Shadow!Visit => ShadowInv'
<1> SUFFICES ASSUME ShadowInv, Shadow!Visit PROVE ShadowInv'
  OBVIOUS
<1>1. ShadowTypes /\ FirstWalkInv /\ CallInv /\ SecondWalkInv
  BY DEF ShadowInv
<1>2. /\ step = "visit" /\ step' = "visit" /\ ~Shadow!Capturing.failed
      /\ UNCHANGED <<n, files, answered, results, late, start>>
      /\ before \in Captures /\ after \in Captures /\ files \in Disks /\ walk \subseteq DOMAIN Paths
  BY <1>1 DEF Shadow!Visit, ShadowTypes
<1>3. PICK k \in walk, readable \in BOOLEAN :
        IF files[Paths[k]] # Absent /\ readable
          THEN /\ Shadow!Capture([Shadow!Capturing EXCEPT !.of[Paths[k]] = files[Paths[k]]])
               /\ touched' = IF before.taken THEN touched ELSE touched \ {Paths[k]}
               /\ walk' = walk \ {k}
          ELSE /\ Shadow!Capture([Shadow!Capturing EXCEPT !.failed = TRUE, !.of = Shadow!Nowhere])
               /\ walk' = {} /\ UNCHANGED touched
  BY DEF Shadow!Visit
<1>4. PICK p : p = Paths[k]
  OBVIOUS
<1>5. p \in Shadow!PathSet /\ files[p] \in Contents \cup {Absent} /\ k \in DOMAIN Paths
  BY <1>2, <1>4, WalkOfPaths DEF Disks
<1> DEFINE Seen(cap) == [cap EXCEPT !.of[p] = files[p]]
           Lost(cap) == [cap EXCEPT !.failed = TRUE, !.of = Shadow!Nowhere]
<1>6. ASSUME NEW cap \in Captures
      PROVE  /\ Seen(cap) \in Captures /\ Seen(cap).taken = cap.taken /\ Seen(cap).failed = cap.failed
             /\ Seen(cap).of = [cap.of EXCEPT ![p] = files[p]]
             /\ Lost(cap) \in Captures /\ Lost(cap).taken = cap.taken /\ Lost(cap).failed
  <2>1. cap = [taken |-> cap.taken, failed |-> cap.failed, of |-> cap.of] /\ cap.of \in Disks
    BY DEF Captures
  <2>2. Seen(cap) = [taken |-> cap.taken, failed |-> cap.failed, of |-> [cap.of EXCEPT ![p] = files[p]]]
    BY <2>1
  <2>3. [cap.of EXCEPT ![p] = files[p]] \in Disks
    BY <1>5, <2>1 DEF Disks
  <2>4. Lost(cap) \in Captures /\ Lost(cap).taken = cap.taken /\ Lost(cap).failed
    BY LostCapture, UnwalkedIsCapture
  <2> HIDE DEF Seen, Lost
  <2> QED BY <2>1, <2>2, <2>3, <2>4, UnwalkedIsCapture DEF Captures
<1>7. walk' \subseteq walk /\ touched' \subseteq touched
  BY <1>3
<1>8. CASE before.taken
  <2>1. before' = before /\ touched' = touched
    BY <1>3, <1>8 DEF Shadow!Capture
  <2>2. (after' = Seen(after) /\ walk' = walk \ {k}) \/ after' = Lost(after)
    BY <1>3, <1>4, <1>8 DEF Shadow!Capture, Shadow!Capturing
  <2> HIDE DEF Seen, Lost
  <2>3. after' \in Captures
    BY <1>2, <1>6, <2>2
  <2>4. ShadowTypes'
    BY <1>1, <1>2, <1>7, <2>1, <2>3 DEF ShadowTypes
  <2>5. FirstWalkInv' /\ CallInv'
    BY <1>1, <1>2, <1>8, <2>1 DEF FirstWalkInv, CallInv
  <2>6. ASSUME ~before.failed, ~after'.failed
        PROVE  /\ \A q \in Shadow!PathSet : q \in touched \cup Left' \/ after'.of[q] = before.of[q]
               /\ ~late => \A q \in Shadow!PathSet : q \in Left' \/ after'.of[q] = files[q]
    <3>1. /\ after'.of = [after.of EXCEPT ![p] = files[p]] /\ walk' = walk \ {k}
          /\ ~after.failed
      BY <1>2, <1>6, <2>2, <2>6
    <3>2. after.of \in Disks
      BY <1>2 DEF Captures
    <3>3. \A q \in Shadow!PathSet : q \in Left => q = p \/ q \in Left'
      BY <1>4, <3>1 DEF Left
    <3>4. /\ \A q \in Shadow!PathSet : q \in touched \cup Left \/ after.of[q] = before.of[q]
          /\ ~late => \A q \in Shadow!PathSet : q \in Left \/ after.of[q] = files[q]
          /\ p \in touched \/ before.of[p] = files[p]
      BY <1>1, <1>2, <1>5, <1>8, <2>6, <3>1 DEF SecondWalkInv, CallInv
    <3>5. \A q \in Shadow!PathSet : after'.of[q] = IF q = p THEN files[p] ELSE after.of[q]
      BY <3>1, <3>2 DEF Disks
    <3> QED BY <3>3, <3>4, <3>5
  <2>7. SecondWalkInv'
    BY <1>2, <1>8, <2>1, <2>6 DEF SecondWalkInv
  <2> QED BY <1>2, <2>4, <2>5, <2>7, NotJudged DEF ShadowInv
<1>9. CASE ~before.taken
  <2>1. after' = after
    BY <1>3, <1>9 DEF Shadow!Capture
  <2>2. \/ before' = Seen(before) /\ walk' = walk \ {k} /\ touched' = touched \ {p}
        \/ before' = Lost(before)
    BY <1>3, <1>4, <1>9 DEF Shadow!Capture, Shadow!Capturing
  <2> HIDE DEF Seen, Lost
  <2>3. before' \in Captures /\ ~before'.taken
    BY <1>2, <1>6, <1>9, <2>2
  <2>4. ShadowTypes'
    BY <1>1, <1>2, <1>7, <2>1, <2>3 DEF ShadowTypes
  <2>5. CallInv' /\ SecondWalkInv'
    BY <1>2, <2>3 DEF CallInv, SecondWalkInv
  <2>6. ASSUME ~before'.failed
        PROVE  \A q \in Shadow!PathSet : q \in touched' \cup Left' \/ before'.of[q] = files[q]
    <3>1. /\ before'.of = [before.of EXCEPT ![p] = files[p]] /\ walk' = walk \ {k}
          /\ touched' = touched \ {p} /\ ~before.failed
      BY <1>2, <1>6, <2>2, <2>6
    <3>2. before.of \in Disks
      BY <1>2 DEF Captures
    <3>3. \A q \in Shadow!PathSet : q \in Left => q = p \/ q \in Left'
      BY <1>4, <3>1 DEF Left
    <3>4. \A q \in Shadow!PathSet : q \in touched \cup Left \/ before.of[q] = files[q]
      BY <1>1, <1>2, <1>9, <3>1 DEF FirstWalkInv
    <3>5. \A q \in Shadow!PathSet : before'.of[q] = IF q = p THEN files[p] ELSE before.of[q]
      BY <3>1, <3>2 DEF Disks
    <3> QED BY <3>1, <3>3, <3>4, <3>5
  <2>7. FirstWalkInv'
    <3>1. after' = Shadow!Unwalked /\ (~late => touched' = {})
      BY <1>1, <1>2, <1>7, <1>9, <2>1 DEF FirstWalkInv
    <3> QED BY <1>2, <2>6, <3>1 DEF FirstWalkInv
  <2> QED BY <1>2, <2>4, <2>5, <2>7, NotJudged DEF ShadowInv
<1> QED BY <1>8, <1>9

LEMMA AnswerKeeps == ShadowInv /\ Shadow!Answer => ShadowInv'
<1> SUFFICES ASSUME ShadowInv, Shadow!Answer PROVE ShadowInv'
  OBVIOUS
<1>1. ShadowTypes /\ FirstWalkInv /\ CallInv /\ SecondWalkInv
  BY DEF ShadowInv
<1>2. /\ step = "invoke" /\ step' = "list" /\ answered' \in BOOLEAN
      /\ UNCHANGED <<n, files, walk, before, after, results, touched, late, start>>
  BY DEF Shadow!Answer
<1>3. ShadowTypes'
  BY <1>1, <1>2 DEF ShadowTypes
<1>4. FirstWalkInv' /\ CallInv' /\ SecondWalkInv'
  BY <1>1, <1>2 DEF FirstWalkInv, CallInv, SecondWalkInv
<1> QED BY <1>2, <1>3, <1>4, NotJudged DEF ShadowInv

\* The last of a sequence that has grown.
LEMMA LastAppended ==
  ASSUME NEW verdicts \in Seq(Verdicts), NEW item \in Verdicts
  PROVE  /\ Append(verdicts, item) \in Seq(Verdicts)
         /\ Len(Append(verdicts, item)) = Len(verdicts) + 1
         /\ Append(verdicts, item)[Len(verdicts) + 1] = item
OBVIOUS

\* What diffObservedFiles returns: a change for each path that differs.
LEMMA DiffIsOfPaths ==
  ASSUME NEW old, NEW new
  PROVE  /\ Shadow!diffObservedFiles(old, new)
              \in SUBSET [path : Shadow!PathSet, kind : {"created", "deleted", "modified"}]
         /\ \A c \in Shadow!diffObservedFiles(old, new) :
              c.path \in Shadow!PathSet /\ old[c.path] # new[c.path]
BY DEF Shadow!diffObservedFiles, Shadow!Change

\* Judge: a case that passes has both captures, and they are exact unless
\* something was written outside the call.
LEMMA JudgeKeeps == ShadowInv /\ Shadow!Judge => ShadowInv'
<1> SUFFICES ASSUME ShadowInv, Shadow!Judge PROVE ShadowInv'
  OBVIOUS
<1>1. ShadowTypes /\ FirstWalkInv /\ CallInv /\ SecondWalkInv
  BY DEF ShadowInv
<1> DEFINE diff == Shadow!diffObservedFiles(before.of, after.of)
           approved == {c \in diff : c.path \in Allowed}
           earned == /\ answered /\ ~before.failed /\ ~after.failed
                     /\ diff = approved
                     /\ ~Shadow!Mismatch(Expected[n], approved)
                     /\ ~Shadow!ContentIsWrong(Expected[n], approved, files)
           ruling == [passed |-> earned, changes |-> diff]
<1>2. /\ step = "judge" /\ step' = "next" /\ results' = Append(results, ruling)
      /\ UNCHANGED <<n, files, walk, before, after, answered, touched, late, start>>
  BY DEF Shadow!Judge
<1>3. earned \in BOOLEAN
  OBVIOUS
<1>4. diff \in SUBSET [path : Shadow!PathSet, kind : {"created", "deleted", "modified"}]
  BY DiffIsOfPaths
<1>5. ruling \in Verdicts /\ ruling.changes = diff /\ ruling.passed = earned
  <2> HIDE DEF earned, diff
  <2> QED BY <1>3, <1>4 DEF Verdicts
<1>6. n \in Nat /\ Len(results) = n - 1 /\ results \in Seq(Verdicts)
  BY <1>1, <1>2 DEF ShadowTypes
<1>7. results' \in Seq(Verdicts) /\ Len(results') = n' /\ results'[n'] = ruling
  <2> HIDE DEF ruling
  <2> QED BY <1>2, <1>5, <1>6, LastAppended
<1>8. ShadowTypes'
  BY <1>1, <1>2, <1>7 DEF ShadowTypes
<1>9. FirstWalkInv' /\ CallInv' /\ SecondWalkInv'
  BY <1>2 DEF FirstWalkInv, CallInv, SecondWalkInv
<1>10. Shadow!PassIsEarned'
  <2> SUFFICES ASSUME earned, ~late
               PROVE  /\ \A c \in diff : c.path \in Allowed
                      /\ Expected[n] # {} => \A c \in diff : \E m \in Expected[n] : Shadow!Declares(m, c)
                      /\ \A m \in Expected[n] :
                           /\ \E c \in diff : Shadow!Declares(m, c)
                           /\ m.kind # "deleted" /\ m.contains # Anything => files[m.path] = m.contains
                      /\ diff = Shadow!diffObservedFiles(start, files)
    <3> HIDE DEF earned, diff, ruling
    <3>1. Shadow!Verdict' = ruling
      BY <1>7 DEF Shadow!Verdict
    <3> QED BY <1>2, <1>5, <3>1 DEF Shadow!PassIsEarned
  <2>1. before.taken /\ before.of = start /\ after.of = files
    BY <1>1, <1>2 DEF CallInv, SecondWalkInv
  <2>2. diff = approved
    OBVIOUS
  <2>3. \A c \in diff : c.path \in Allowed
    BY <2>2
  <2>4. /\ Expected[n] # {} => \A c \in diff : \E m \in Expected[n] : Shadow!Declares(m, c)
        /\ \A m \in Expected[n] : \E c \in diff : Shadow!Declares(m, c)
    <3>1. ~Shadow!Mismatch(Expected[n], diff)
      BY <2>2
    <3> HIDE DEF diff
    <3> QED BY <3>1 DEF Shadow!Mismatch
  <2>5. \A m \in Expected[n] : m.kind # "deleted" /\ m.contains # Anything => files[m.path] = m.contains
    <3>1. ~Shadow!ContentIsWrong(Expected[n], diff, files)
      BY <2>2
    <3> HIDE DEF diff
    <3> QED BY <2>4, <3>1 DEF Shadow!ContentIsWrong
  <2> HIDE DEF earned
  <2> QED BY <2>1, <2>3, <2>4, <2>5
<1>11. Shadow!ChargesAreOwnOrLate'
  <2>1. CASE before.failed \/ after.failed
    <3>1. ~earned
      BY <2>1
    <3> HIDE DEF earned, diff, ruling
    <3>2. Shadow!Verdict' = ruling
      BY <1>7 DEF Shadow!Verdict
    <3> QED BY <1>2, <1>5, <2>1, <3>1, <3>2 DEF Shadow!ChargesAreOwnOrLate
  <2>2. CASE ~(before.failed \/ after.failed)
    <3>1. \A p \in Shadow!PathSet : p \in touched \/ after.of[p] = before.of[p]
      BY <1>1, <1>2, <2>2 DEF SecondWalkInv
    <3>2. \A c \in diff : c.path \in touched
      BY <3>1, DiffIsOfPaths
    <3> HIDE DEF earned, diff, ruling
    <3>3. Shadow!Verdict' = ruling
      BY <1>7 DEF Shadow!Verdict
    <3> QED BY <1>2, <1>5, <3>2, <3>3 DEF Shadow!ChargesAreOwnOrLate
  <2> QED BY <2>1, <2>2
<1> HIDE DEF earned, diff, ruling
<1> QED BY <1>8, <1>9, <1>10, <1>11 DEF ShadowInv

\* Write: what is written is touched, and late outside the call.
LEMMA WriteKeeps == ShadowInv /\ Shadow!Write => ShadowInv'
<1> SUFFICES ASSUME ShadowInv, Shadow!Write PROVE ShadowInv'
  OBVIOUS
<1>1. ShadowTypes /\ FirstWalkInv /\ CallInv /\ SecondWalkInv
  BY DEF ShadowInv
<1>2. PICK p \in Shadow!PathSet : \E content \in (Contents \cup {Absent}) \ {files[p]} :
         /\ files' = [files EXCEPT ![p] = content]
         /\ touched' = touched \cup {p}
  BY DEF Shadow!Write
<1>3. PICK content \in Contents \cup {Absent} : files' = [files EXCEPT ![p] = content]
  BY <1>2
<1>4. /\ UNCHANGED <<step, n, walk, before, after, answered, results, start>>
      /\ late' = (late \/ step # "invoke") /\ touched' = touched \cup {p}
      /\ n > 1 \/ step = "invoke" \/ before.taken
      /\ late \in BOOLEAN /\ files \in Disks
  BY <1>1, <1>2 DEF Shadow!Write, ShadowTypes
<1>5. files' \in Disks /\ \A q \in Shadow!PathSet : q # p => files'[q] = files[q]
  BY <1>3, <1>4 DEF Disks
<1>6. late' \in BOOLEAN /\ touched' \in SUBSET Shadow!PathSet
      /\ (step # "invoke" => late') /\ Left' = Left
  BY <1>1, <1>4 DEF ShadowTypes, Left
<1>7. ShadowTypes'
  BY <1>1, <1>4, <1>5, <1>6 DEF ShadowTypes
<1>8. FirstWalkInv'
  BY <1>1, <1>4, <1>5, <1>6 DEF FirstWalkInv
<1>9. CallInv'
  BY <1>1, <1>4, <1>5, <1>6 DEF CallInv
<1>10. SecondWalkInv'
  BY <1>1, <1>4, <1>6 DEF SecondWalkInv
<1>11. Shadow!PassIsEarned'
  BY <1>4, <1>6 DEF Shadow!PassIsEarned, Shadow!Judged
<1>12. Shadow!ChargesAreOwnOrLate'
  BY <1>4 DEF ShadowInv, Shadow!ChargesAreOwnOrLate, Shadow!Judged, Shadow!Verdict
<1> QED BY <1>7, <1>8, <1>9, <1>10, <1>11, <1>12 DEF ShadowInv

\* What the invariant reads.
LEMMA ShadowStays ==
  ShadowInv /\ UNCHANGED <<step, n, files, walk, before, after, answered, results, touched, late, start>>
    => ShadowInv'
<1> SUFFICES ASSUME ShadowInv,
                    UNCHANGED <<step, n, files, walk, before, after, answered, results, touched, late, start>>
             PROVE  ShadowInv'
  OBVIOUS
<1>1. ShadowTypes'
  BY DEF ShadowInv, ShadowTypes
<1>2. FirstWalkInv' /\ CallInv' /\ SecondWalkInv'
  BY DEF ShadowInv, FirstWalkInv, CallInv, SecondWalkInv, Left
<1>3. Shadow!PassIsEarned' /\ Shadow!ChargesAreOwnOrLate'
  BY DEF ShadowInv, Shadow!PassIsEarned, Shadow!ChargesAreOwnOrLate, Shadow!Judged, Shadow!Verdict
<1> QED BY <1>1, <1>2, <1>3 DEF ShadowInv

LEMMA ShadowNext == ShadowInv /\ [Shadow!Next]_(Shadow!vars) => ShadowInv'
<1> SUFFICES ASSUME ShadowInv, [Shadow!Next]_(Shadow!vars) PROVE ShadowInv'
  OBVIOUS
<1>1. CASE Shadow!Cancel
  BY <1>1, ShadowStays DEF Shadow!Cancel
<1>2. CASE UNCHANGED Shadow!vars
  BY <1>2, ShadowStays DEF Shadow!vars
<1> QED BY <1>1, <1>2, NextScenarioKeeps, ListKeeps, VisitKeeps, VisitedKeeps, AnswerKeeps,
           JudgeKeeps, WriteKeeps DEF Shadow!Next

-----------------------------------------------------------------------------
(***************************************************************************)
(* TraceEvidence: the trace only grows.                                     *)
(***************************************************************************)
TraceInv == policy \in Policies /\ calls \in Seq(Calls) /\ changes \in Seq(Changes) /\ approvals \in Seq(Approvals)

LEMMA RangeGrows ==
  ASSUME NEW S, NEW items \in Seq(S), NEW item
  PROVE  Trace!Range(items) \subseteq Trace!Range(Append(items, item))
<1>1. \A k \in DOMAIN items : k \in DOMAIN Append(items, item) /\ Append(items, item)[k] = items[k]
  OBVIOUS
<1> QED BY <1>1 DEF Trace!Range

LEMMA TraceStarts == Trace!Init => TraceInv
BY DEF Trace!Init, TraceInv

LEMMA TraceKeeps == TraceInv /\ [Trace!Next]_(Trace!vars) => TraceInv'
<1> SUFFICES ASSUME TraceInv, [Trace!Next]_(Trace!vars) PROVE TraceInv'
  OBVIOUS
<1> USE DEF TraceInv
<1>1. CASE Trace!CallTool
  BY <1>1 DEF Trace!CallTool
<1>2. CASE Trace!ChangeState
  BY <1>2 DEF Trace!ChangeState
<1>3. CASE Trace!GetApproval
  BY <1>3 DEF Trace!GetApproval
<1>4. CASE Trace!UseSource \/ Trace!TouchFile \/ Trace!Say \/ UNCHANGED Trace!vars
  BY <1>4 DEF Trace!UseSource, Trace!TouchFile, Trace!Say, Trace!vars
<1> QED BY <1>1, <1>2, <1>3, <1>4 DEF Trace!Next

\* What a step adds: an act adds a call or a change and nothing else.
LEMMA TraceGrows ==
  ASSUME TraceInv, [Trace!Next]_(Trace!vars)
  PROVE  /\ policy' = policy /\ uses \subseteq uses'
         /\ Trace!Range(calls) \subseteq Trace!Range(calls)'
         /\ Trace!Range(changes) \subseteq Trace!Range(changes)'
         /\ Trace!Range(approvals) \subseteq Trace!Range(approvals)'
         /\ calls' # calls \/ changes' # changes => UNCHANGED <<approvals, text>>
         /\ approvals' # approvals => UNCHANGED <<calls, changes, text>>
<1>1. CASE Trace!CallTool
  <2>1. PICK c \in Calls : calls' = Append(calls, c)
    BY <1>1 DEF Trace!CallTool
  <2> QED BY <1>1, <2>1, RangeGrows DEF TraceInv, Trace!CallTool
<1>2. CASE Trace!ChangeState
  <2>1. PICK c \in Changes : changes' = Append(changes, c)
    BY <1>2 DEF Trace!ChangeState
  <2> QED BY <1>2, <2>1, RangeGrows DEF TraceInv, Trace!ChangeState
<1>3. CASE Trace!GetApproval
  <2>1. PICK given \in Approvals : approvals' = Append(approvals, given)
    BY <1>3 DEF Trace!GetApproval
  <2> QED BY <1>3, <2>1, RangeGrows DEF TraceInv, Trace!GetApproval
<1>4. CASE Trace!UseSource \/ Trace!TouchFile \/ Trace!Say \/ UNCHANGED Trace!vars
  BY <1>4 DEF Trace!UseSource, Trace!TouchFile, Trace!Say, Trace!vars
<1> QED BY <1>1, <1>2, <1>3, <1>4 DEF Trace!Next

\* What is held against the rules of the policy and the sources alone.
LEMMA PolicyStays ==
  ASSUME policy' = policy
  PROVE  /\ \A rule, call : Trace!policyRuleMatchesTool(rule, call)' <=> Trace!policyRuleMatchesTool(rule, call)
         /\ \A type, mode : Trace!Rules(type, mode)' = Trace!Rules(type, mode)
         /\ \A trusts : Trace!HasTrust(trusts)' <=> Trace!HasTrust(trusts)
         /\ \A call : Trace!toolCallContainsSensitivePayload(call)' <=> Trace!toolCallContainsSensitivePayload(call)
<1>1. \A trusts : Trace!HasTrust(trusts)' <=> Trace!HasTrust(trusts)
  BY DEF Trace!HasTrust
<1>2. \A call : Trace!toolCallContainsSensitivePayload(call)' <=> Trace!toolCallContainsSensitivePayload(call)
  BY <1>1 DEF Trace!toolCallContainsSensitivePayload, Trace!HasCanaries
<1> QED BY <1>1, <1>2 DEF Trace!policyRuleMatchesTool, Trace!Rules

\* With the same approvals the findings grow with the calls and changes.
LEMMA PolicyFindingsGrow ==
  ASSUME policy' = policy, approvals' = approvals,
         Trace!Range(calls) \subseteq Trace!Range(calls)', Trace!Range(changes) \subseteq Trace!Range(changes)'
  PROVE  Trace!evaluateReleasePolicyRules \subseteq Trace!evaluateReleasePolicyRules'
<1>1. Trace!NotAllowedCalls(Trace!Range(calls)) \subseteq Trace!NotAllowedCalls(Trace!Range(calls))'
  BY PolicyStays DEF Trace!NotAllowedCalls, Trace!NotAllowed, Trace!policyRuleMatchesTool
<1>2. Trace!BrokenByCalls(Trace!Range(calls)) \subseteq Trace!BrokenByCalls(Trace!Range(calls))'
  BY PolicyStays DEF Trace!BrokenByCalls, Trace!ToolRuleBroken, Trace!Finding, Trace!hasApprovedApprovalArtifact
<1>3. Trace!BrokenByChanges \subseteq Trace!BrokenByChanges'
  <2>1. \A rule, change : Trace!StateRuleBroken(rule, change)' <=> Trace!StateRuleBroken(rule, change)
    BY DEF Trace!StateRuleBroken, Trace!hasApprovedApprovalArtifact, Trace!policyRuleMatchesStateChange
  <2>2. \A change : Trace!NotAllowed(Trace!Rules("state_change", "allow"), Trace!policyRuleMatchesStateChange, change)'
                     <=> Trace!NotAllowed(Trace!Rules("state_change", "allow"), Trace!policyRuleMatchesStateChange, change)
    BY PolicyStays DEF Trace!NotAllowed, Trace!policyRuleMatchesStateChange
  <2>3. {<<"state_change", "allow", {c}>> :
           c \in {k \in Trace!Range(changes) :
                  Trace!NotAllowed(Trace!Rules("state_change", "allow"), Trace!policyRuleMatchesStateChange, k)}}
        \subseteq
        {<<"state_change", "allow", {c}>> :
           c \in {k \in Trace!Range(changes) :
                  Trace!NotAllowed(Trace!Rules("state_change", "allow"), Trace!policyRuleMatchesStateChange, k)}}'
    BY <2>2
  <2>4. {Trace!Finding(p[1], {p[2]}) :
           p \in {rc \in policy.rules \X Trace!Range(changes) : Trace!StateRuleBroken(rc[1], rc[2])}}
        \subseteq
        {Trace!Finding(p[1], {p[2]}) :
           p \in {rc \in policy.rules \X Trace!Range(changes) : Trace!StateRuleBroken(rc[1], rc[2])}}'
    BY <2>1 DEF Trace!Finding
  <2> QED BY <2>3, <2>4 DEF Trace!BrokenByChanges
<1>4. Trace!BrokenByScenario \subseteq Trace!BrokenByScenario'
  BY PolicyStays DEF Trace!BrokenByScenario, Trace!ScenarioRuleBroken, Trace!trustRuleTriggered, Trace!Finding,
     Trace!hasApprovedApprovalArtifact
<1> QED BY <1>1, <1>2, <1>3, <1>4 DEF Trace!evaluateReleasePolicyRules

\* The findings of provenance grow with the calls.
LEMMA ProvenanceFindingsGrow ==
  ASSUME policy' = policy, text' = text, Trace!Range(calls) \subseteq Trace!Range(calls)'
  PROVE  Trace!provenanceContextFindings \subseteq Trace!provenanceContextFindings'
<1>1. \A tools : Trace!CallsTo(tools) \subseteq Trace!CallsTo(tools)'
  BY DEF Trace!CallsTo
<1>2. \A word : Trace!Said(word)' <=> Trace!Said(word)
  BY DEF Trace!Said
<1>3. /\ Trace!HasCanaries' <=> Trace!HasCanaries
      /\ Trace!hasApprovedApprovalSource' <=> Trace!hasApprovedApprovalSource
  BY PolicyStays DEF Trace!HasCanaries, Trace!HasTrust, Trace!hasApprovedApprovalSource
<1>4. PICK one : one = policy
  OBVIOUS
<1>5. {<<"privileged", {c}>> : c \in Trace!CallsTo(one.privileged)}
        \subseteq {<<"privileged", {c}>> : c \in Trace!CallsTo(one.privileged)'}
  BY <1>1
<1>6. {<<"bypass", {c}>> : c \in {k \in Trace!CallsTo(one.approvalRequired) : ~Trace!hasApprovedApprovalSource}}
        \subseteq {<<"bypass", {c}>> : c \in {k \in Trace!CallsTo(one.approvalRequired)' : ~Trace!hasApprovedApprovalSource'}}
  BY <1>1, <1>3
<1>7. {<<"sink", {c}>> : c \in {k \in Trace!Range(calls) \ Trace!CallsTo(one.sinks) :
                                 Trace!toolCallContainsSensitivePayload(k)}}
        \subseteq {<<"sink", {c}>> : c \in {k \in Trace!Range(calls)' \ Trace!CallsTo(one.sinks)' :
                                 Trace!toolCallContainsSensitivePayload(k)'}}
  BY PolicyStays DEF Trace!CallsTo
<1>8. {<<"canary", {c}>> : c \in {k \in Trace!Range(calls) : Trace!HasCanaries /\ "canary" \in k.says}}
        \subseteq {<<"canary", {c}>> : c \in {k \in Trace!Range(calls)' : Trace!HasCanaries' /\ "canary" \in k.says}}
  BY <1>3
<1>9. {<<f, {}>> : f \in {w \in {"leaked", "echoed", "open"} :
           \/ w = "leaked" /\ Trace!Said("secret")
           \/ w = "echoed" /\ Trace!HasCanaries /\ Trace!Said("canary")
           \/ w = "open" /\ ~Trace!Said("refuses")}}
      \subseteq {<<f, {}>> : f \in {w \in {"leaked", "echoed", "open"} :
           \/ w = "leaked" /\ Trace!Said("secret")'
           \/ w = "echoed" /\ Trace!HasCanaries' /\ Trace!Said("canary")'
           \/ w = "open" /\ ~Trace!Said("refuses")'}}
  BY <1>2, <1>3
<1> QED BY <1>4, <1>5, <1>6, <1>7, <1>8, <1>9 DEF Trace!provenanceContextFindings

\* With more approvals and nothing else the findings of release-policy shrink.
LEMMA ApprovalsOnlyHelp ==
  ASSUME policy' = policy, UNCHANGED <<calls, changes>>,
         Trace!Range(approvals) \subseteq Trace!Range(approvals)'
  PROVE  Trace!evaluateReleasePolicyRules' \subseteq Trace!evaluateReleasePolicyRules
<1>1. Trace!hasApprovedApprovalArtifact(approvals) => Trace!hasApprovedApprovalArtifact(approvals)'
  BY DEF Trace!hasApprovedApprovalArtifact
<1>2. /\ Trace!Range(calls)' = Trace!Range(calls)
      /\ Trace!Range(changes)' = Trace!Range(changes)
  BY DEF Trace!Range
<1>3. Trace!NotAllowedCalls(Trace!Range(calls))' \subseteq Trace!NotAllowedCalls(Trace!Range(calls))
  BY <1>2, PolicyStays DEF Trace!NotAllowedCalls, Trace!NotAllowed, Trace!policyRuleMatchesTool
<1>4. Trace!BrokenByCalls(Trace!Range(calls))' \subseteq Trace!BrokenByCalls(Trace!Range(calls))
  <2>1. \A rule, call : Trace!ToolRuleBroken(rule, call)' => Trace!ToolRuleBroken(rule, call)
    BY <1>1 DEF Trace!ToolRuleBroken, Trace!policyRuleMatchesTool
  <2> QED BY <1>2, <2>1 DEF Trace!BrokenByCalls, Trace!Finding
<1>5. Trace!BrokenByChanges' \subseteq Trace!BrokenByChanges
  <2>1. \A rule, change : Trace!StateRuleBroken(rule, change)' => Trace!StateRuleBroken(rule, change)
    BY <1>1 DEF Trace!StateRuleBroken, Trace!policyRuleMatchesStateChange
  <2>2. \A change : Trace!NotAllowed(Trace!Rules("state_change", "allow"), Trace!policyRuleMatchesStateChange, change)'
                     <=> Trace!NotAllowed(Trace!Rules("state_change", "allow"), Trace!policyRuleMatchesStateChange, change)
    BY PolicyStays DEF Trace!NotAllowed, Trace!policyRuleMatchesStateChange
  <2>3. {<<"state_change", "allow", {c}>> :
           c \in {k \in Trace!Range(changes) :
                  Trace!NotAllowed(Trace!Rules("state_change", "allow"), Trace!policyRuleMatchesStateChange, k)}}'
        \subseteq
        {<<"state_change", "allow", {c}>> :
           c \in {k \in Trace!Range(changes) :
                  Trace!NotAllowed(Trace!Rules("state_change", "allow"), Trace!policyRuleMatchesStateChange, k)}}
    BY <1>2, <2>2
  <2>4. {Trace!Finding(p[1], {p[2]}) :
           p \in {rc \in policy.rules \X Trace!Range(changes) : Trace!StateRuleBroken(rc[1], rc[2])}}'
        \subseteq
        {Trace!Finding(p[1], {p[2]}) :
           p \in {rc \in policy.rules \X Trace!Range(changes) : Trace!StateRuleBroken(rc[1], rc[2])}}
    BY <1>2, <2>1 DEF Trace!Finding
  <2> QED BY <2>3, <2>4 DEF Trace!BrokenByChanges
<1>6. Trace!BrokenByScenario' \subseteq Trace!BrokenByScenario
  <2>1. \A rule : Trace!trustRuleTriggered(rule)' <=> Trace!trustRuleTriggered(rule)
    BY <1>2, PolicyStays DEF Trace!trustRuleTriggered, Trace!policyRuleMatchesTool, Trace!policyRuleMatchesStateChange
  <2>2. \A rule : Trace!ScenarioRuleBroken(rule)' => Trace!ScenarioRuleBroken(rule)
    BY <1>1, <1>2, <2>1, PolicyStays DEF Trace!ScenarioRuleBroken
  <2> QED BY <2>2 DEF Trace!BrokenByScenario, Trace!Finding
<1> QED BY <1>3, <1>4, <1>5, <1>6 DEF Trace!evaluateReleasePolicyRules

\* What a text claims is supported by whatever the trace has more.
LEMMA EvidenceSupports ==
  ASSUME policy' = policy, text' = text, uses \subseteq uses', traceFiles \subseteq traceFiles',
         Trace!Range(calls) \subseteq Trace!Range(calls)', Trace!Range(changes) \subseteq Trace!Range(changes)',
         Trace!Range(approvals) \subseteq Trace!Range(approvals)'
  PROVE  Trace!ClaimFindings' \subseteq Trace!ClaimFindings
<1>1. /\ Trace!detectCitationClaims' = Trace!detectCitationClaims
      /\ Trace!detectToolClaims' = Trace!detectToolClaims
      /\ Trace!detectStateClaims' = Trace!detectStateClaims
      /\ Trace!detectApprovalClaim' <=> Trace!detectApprovalClaim
  BY DEF Trace!detectCitationClaims, Trace!detectToolClaims, Trace!detectStateClaims, Trace!detectApprovalClaim,
         Trace!Said
<1>2. Trace!hasApprovalArtifact(approvals) => Trace!hasApprovalArtifact(approvals)'
  BY DEF Trace!hasApprovalArtifact
<1>3. Trace!unsupportedStateClaims' \subseteq Trace!unsupportedStateClaims
  <2>1. traceFiles \cup {c.action : c \in Trace!Range(changes)}
          \subseteq traceFiles' \cup {c.action : c \in Trace!Range(changes)'}
    OBVIOUS
  <2>2. ASSUME NEW some, NEW more, some \subseteq more
        PROVE  {Trace!normalizeStateAction(w) : w \in some} \subseteq {Trace!normalizeStateAction(w) : w \in more}
    BY <2>2
  <2> QED BY <1>1, <2>1, <2>2 DEF Trace!unsupportedStateClaims
<1>4. {<<"citation", name>> : name \in Trace!detectCitationClaims' \ uses'}
        \subseteq {<<"citation", name>> : name \in Trace!detectCitationClaims \ uses}
  BY <1>1
<1>5. {<<"tool", t>> : t \in Trace!detectToolClaims' \ {c.tool : c \in Trace!Range(calls)'}}
        \subseteq {<<"tool", t>> : t \in Trace!detectToolClaims \ {c.tool : c \in Trace!Range(calls)}}
  BY <1>1
<1>6. {<<"state", w>> : w \in Trace!unsupportedStateClaims'} \subseteq {<<"state", w>> : w \in Trace!unsupportedStateClaims}
  BY <1>3
<1>7. {<<f, "step">> : f \in {w \in {"approval"} : Trace!detectApprovalClaim' /\ ~Trace!hasApprovalArtifact(approvals)'}}
        \subseteq {<<f, "step">> : f \in {w \in {"approval"} : Trace!detectApprovalClaim /\ ~Trace!hasApprovalArtifact(approvals)}}
  BY <1>1, <1>2
<1> QED BY <1>4, <1>5, <1>6, <1>7 DEF Trace!ClaimFindings

-----------------------------------------------------------------------------
\* What is matched after k expected changes.
MayMatch(k, taken) ==
  {at \in DOMAIN changes \ taken : Trace!expectedStateChangeMatches(policy.expected[k], changes[at])}
FirstOf(fits) == {at \in fits : \A j \in fits : at <= j}

LEMMA MatchedStepByStep ==
  ASSUME TraceInv
  PROVE  /\ Len(policy.expected) \in Nat
         /\ \E used : /\ used[0] = {} /\ Trace!Matched = used[Len(policy.expected)]
                      /\ \A k \in 1 .. Len(policy.expected) :
                           used[k] = used[k - 1] \cup FirstOf(MayMatch(k, used[k - 1]))
<1> DEFINE size == Len(policy.expected)
           D == SUBSET DOMAIN changes
           more == [kt \in (1 .. size) \X D |-> kt[2] \cup FirstOf(MayMatch(kt[1], kt[2]))]
           Is(used) == used = [k \in 0 .. size |->
                                 IF k = 0 THEN {}
                                 ELSE LET fits == {at \in DOMAIN changes \ used[k - 1] :
                                            Trace!expectedStateChangeMatches(policy.expected[k], changes[at])}
                                      IN  used[k - 1] \cup {at \in fits : \A j \in fits : at <= j}]
<1>1. size \in Nat
  BY EnginesAssumption DEF TraceInv, Trace!TraceAssumption
<1>2. more \in [(1 .. size) \X D -> D]
  BY DEF FirstOf, MayMatch
<1>3. PICK f \in [0 .. size -> D] : f[0] = {} /\ \A k \in 1 .. size : f[k] = more[<<k, f[k - 1]>>]
  <2>1. {} \in D
    OBVIOUS
  <2>2. 0 <= size /\ 0 \in Nat /\ 0 + 1 = 1
    BY <1>1
  <2> HIDE DEF more, D, size
  <2>3. more \in [(0 + 1 .. size) \X D -> D]
    BY <1>2, <2>2
  <2>4. \E f : Follows(f, 0, size, D, {}, more)
    BY <1>1, <2>1, <2>2, <2>3, Recursion
  <2> QED BY <2>2, <2>4 DEF Follows
<1>4. \A k \in 1 .. size : f[k] = f[k - 1] \cup FirstOf(MayMatch(k, f[k - 1]))
  <2> TAKE k \in 1 .. size
  <2>1. k - 1 \in 0 .. size /\ f[k - 1] \in D
    BY <1>1, <1>3
  <2> QED BY <1>3, <2>1
<1>5. Is(f)
  BY <1>1, <1>3, <1>4 DEF FirstOf, MayMatch
<1>6. PICK used : used = CHOOSE g : Is(g)
  OBVIOUS
<1>7. Is(used)
  <2> HIDE DEF Is
  <2> QED BY <1>5, <1>6
<1>8. Trace!Matched = used[size]
  BY <1>6 DEF Trace!Matched
<1>9. used[0] = {}
  BY <1>1, <1>7
<1>10. ASSUME NEW k \in 1 .. size PROVE used[k] = used[k - 1] \cup FirstOf(MayMatch(k, used[k - 1]))
  <2>1. k \in 0 .. size /\ k # 0
    BY <1>1
  <2> QED BY <1>7, <2>1 DEF FirstOf, MayMatch
<1> HIDE DEF size
<1>11. Len(policy.expected) = size
  BY DEF size
<1> QED BY <1>1, <1>8, <1>9, <1>10, <1>11

LEMMA FirstIsOne ==
  ASSUME NEW fits \in SUBSET Nat
  PROVE  FirstOf(fits) = {} \/ \E head \in fits : FirstOf(fits) = {head}
<1>1. CASE fits = {}
  BY <1>1 DEF FirstOf
<1>2. CASE fits # {}
  <2>1. PICK l \in fits : \A m \in fits : l <= m
    BY <1>2, LeastNumber
  <2>2. l \in FirstOf(fits)
    BY <2>1 DEF FirstOf
  <2>3. ASSUME NEW m \in FirstOf(fits) PROVE m = l
    <3>1. m \in fits /\ m <= l /\ l <= m
      BY <2>1 DEF FirstOf
    <3> QED BY <3>1
  <2> QED BY <2>2, <2>3
<1> QED BY <1>1, <1>2

\* What k expected changes have matched: at most k observed ones, and exactly k
\* only when each has one of its own.
Answered(taken, k) ==
  /\ taken \in SUBSET DOMAIN changes /\ Cardinality(taken) <= k
  /\ Cardinality(taken) = k =>
       \E f \in [1 .. k -> DOMAIN changes] :
         /\ taken = {f[j] : j \in 1 .. k}
         /\ \A j \in 1 .. k : Trace!expectedStateChangeMatches(policy.expected[j], changes[f[j]])

LEMMA AnsweredGrows ==
  ASSUME TraceInv, NEW k \in Nat, k > 0, NEW taken, Answered(taken, k - 1)
  PROVE  Answered(taken \cup FirstOf(MayMatch(k, taken)), k)
<1>1. DOMAIN changes \in SUBSET Nat /\ IsFiniteSet(DOMAIN changes)
  <2>1. Len(changes) \in Nat /\ DOMAIN changes = 1 .. Len(changes)
    BY DEF TraceInv
  <2> QED BY <2>1, FS_Interval
<1>2. taken \in SUBSET DOMAIN changes /\ IsFiniteSet(taken) /\ Cardinality(taken) \in Nat
      /\ Cardinality(taken) <= k - 1
  BY <1>1, FS_Subset, FS_CardinalityType DEF Answered
<1>3. MayMatch(k, taken) \in SUBSET Nat
  BY <1>1 DEF MayMatch
<1>4. CASE FirstOf(MayMatch(k, taken)) = {}
  BY <1>2, <1>4 DEF Answered
<1>5. ASSUME NEW one \in MayMatch(k, taken), FirstOf(MayMatch(k, taken)) = {one}
      PROVE  Answered(taken \cup {one}, k)
  <2>1. /\ one \in DOMAIN changes /\ one \notin taken
        /\ Trace!expectedStateChangeMatches(policy.expected[k], changes[one])
    BY <1>5 DEF MayMatch
  <2>2. Cardinality(taken \cup {one}) = Cardinality(taken) + 1
    BY <1>2, <2>1, FS_AddElement
  <2>3. ASSUME Cardinality(taken \cup {one}) = k
        PROVE  \E f \in [1 .. k -> DOMAIN changes] :
                 /\ taken \cup {one} = {f[j] : j \in 1 .. k}
                 /\ \A j \in 1 .. k : Trace!expectedStateChangeMatches(policy.expected[j], changes[f[j]])
    <3>1. Cardinality(taken) = k - 1
      BY <1>2, <2>2, <2>3
    <3>2. PICK g \in [1 .. k - 1 -> DOMAIN changes] :
            /\ taken = {g[j] : j \in 1 .. k - 1}
            /\ \A j \in 1 .. k - 1 : Trace!expectedStateChangeMatches(policy.expected[j], changes[g[j]])
      BY <3>1 DEF Answered
    <3> DEFINE f == [j \in 1 .. k |-> IF j = k THEN one ELSE g[j]]
    <3>3. f[k] = one /\ \A j \in 1 .. k - 1 : f[j] = g[j]
      OBVIOUS
    <3>4. f \in [1 .. k -> DOMAIN changes]
      BY <2>1, <3>2
    <3> HIDE DEF f
    <3>5. 1 .. k = (1 .. k - 1) \cup {k}
      OBVIOUS
    <3>6. taken \cup {one} = {f[j] : j \in 1 .. k}
      BY <3>2, <3>3, <3>5
    <3>7. \A j \in 1 .. k : Trace!expectedStateChangeMatches(policy.expected[j], changes[f[j]])
      BY <2>1, <3>2, <3>3, <3>5
    <3> QED BY <3>4, <3>6, <3>7
  <2> QED BY <1>2, <2>1, <2>2, <2>3 DEF Answered
<1> QED BY <1>3, <1>4, <1>5, FirstIsOne

LEMMA MatchedIsAnswered ==
  ASSUME TraceInv
  PROVE  Len(policy.expected) \in Nat /\ Answered(Trace!Matched, Len(policy.expected))
<1>1. PICK used : /\ used[0] = {} /\ Trace!Matched = used[Len(policy.expected)]
                  /\ \A k \in 1 .. Len(policy.expected) :
                       used[k] = used[k - 1] \cup FirstOf(MayMatch(k, used[k - 1]))
  BY MatchedStepByStep
<1>2. Len(policy.expected) \in Nat
  BY MatchedStepByStep
<1> DEFINE bad == {k \in 0 .. Len(policy.expected) : ~Answered(used[k], k)}
<1>3. ASSUME bad # {} PROVE FALSE
  <2>1. PICK l \in bad : \A m \in bad : l <= m
    <3>1. bad \in SUBSET Nat
      OBVIOUS
    <3> HIDE DEF bad
    <3> QED BY <1>3, <3>1, LeastNumber
  <2>2. CASE l = 0
    <3>1. Cardinality({}) = 0
      BY FS_EmptySet
    <3>2. \E f \in [1 .. 0 -> DOMAIN changes] :
            /\ {} = {f[j] : j \in 1 .. 0}
            /\ \A j \in 1 .. 0 : Trace!expectedStateChangeMatches(policy.expected[j], changes[f[j]])
      <4>1. 1 .. 0 = {}
        OBVIOUS
      <4>2. [j \in 1 .. 0 |-> 1] \in [1 .. 0 -> DOMAIN changes]
        BY <4>1
      <4> QED BY <4>1, <4>2
    <3>3. Answered({}, 0)
      <4>1. {} \in SUBSET DOMAIN changes /\ Cardinality({}) <= 0
        BY <3>1
      <4> QED BY <3>2, <4>1 DEF Answered
    <3> QED BY <1>1, <2>1, <2>2, <3>3
  <2>3. CASE l # 0
    <3>1. l \in 1 .. Len(policy.expected) /\ l - 1 \in 0 .. Len(policy.expected) /\ l \in Nat /\ l > 0
      BY <1>2, <2>1, <2>3
    <3>2. l - 1 \notin bad
      BY <2>1, <3>1
    <3>3. Answered(used[l - 1], l - 1)
      BY <3>1, <3>2
    <3>4. Answered(used[l - 1] \cup FirstOf(MayMatch(l, used[l - 1])), l)
      BY <3>1, <3>3, AnsweredGrows
    <3> QED BY <1>1, <2>1, <3>1, <3>4
  <2> QED BY <2>2, <2>3
<1>4. Len(policy.expected) \in 0 .. Len(policy.expected)
  BY <1>2
<1> QED BY <1>1, <1>2, <1>3, <1>4

LEMMA ExactWithoutFinding == TraceInv => Trace!NoFindingMeansExact
<1> SUFFICES ASSUME TraceInv, policy.expected # <<>>, Trace!ExpectedChangesHold
             PROVE  Trace!ExactlyAsExpected
  BY DEF Trace!NoFindingMeansExact
<1>1. /\ Len(policy.expected) \in Nat /\ Answered(Trace!Matched, Len(policy.expected))
      /\ Cardinality(Trace!Matched) >= Len(policy.expected) /\ Trace!Matched = DOMAIN changes
  <2>1. Len(policy.expected) \in Nat /\ Answered(Trace!Matched, Len(policy.expected))
    BY MatchedIsAnswered
  <2>2. Cardinality(Trace!Matched) >= Len(policy.expected) /\ Trace!Matched = DOMAIN changes
    BY DEF Trace!ExpectedChangesHold, Trace!Cardinality, Cardinality
  <2> QED BY <2>1, <2>2
<1>2. Len(changes) \in Nat /\ DOMAIN changes = 1 .. Len(changes)
  BY DEF TraceInv
<1>3. Cardinality(DOMAIN changes) = Len(changes)
  BY <1>2, FS_Interval
<1>4. Len(policy.expected) = Len(changes)
  BY <1>1, <1>2, <1>3 DEF Answered
<1>5. PICK f \in [1 .. Len(changes) -> DOMAIN changes] :
        /\ DOMAIN changes = {f[j] : j \in 1 .. Len(changes)}
        /\ \A j \in 1 .. Len(changes) : Trace!expectedStateChangeMatches(policy.expected[j], changes[f[j]])
  BY <1>1, <1>3, <1>4 DEF Answered
<1>6. Trace!Range(f) = DOMAIN changes
  BY <1>5 DEF Trace!Range
<1> QED BY <1>2, <1>4, <1>5, <1>6 DEF Trace!ExactlyAsExpected

-----------------------------------------------------------------------------
(***************************************************************************)
(* JudgeVerdict: a pass is earned.  First what a median says about the       *)
(* scores on either side of it.                                              *)
(***************************************************************************)
Upto(scores, x) == {j \in DOMAIN scores : scores[j] <= x}
Under(scores, x) == {j \in DOMAIN scores : scores[j] < x}

LEMMA UptoIsFinite ==
  ASSUME NEW m \in Nat PROVE IsFiniteSet(1 .. m) /\ Cardinality(1 .. m) = m
<1>1. IsFiniteSet(1 .. m) /\ Cardinality(1 .. m) = IF 1 > m THEN 0 ELSE m - 1 + 1
  BY FS_Interval
<1> QED BY <1>1

LEMMA Positions ==
  ASSUME NEW scores \in Seq(Nat), NEW S \in SUBSET DOMAIN scores
  PROVE  /\ IsFiniteSet(S) /\ Cardinality(S) \in 0 .. Len(scores)
         /\ Cardinality(DOMAIN scores) = Len(scores)
<1>1. IsFiniteSet(DOMAIN scores) /\ Cardinality(DOMAIN scores) = Len(scores)
  <2>1. DOMAIN scores = 1 .. Len(scores) /\ Len(scores) \in Nat
    OBVIOUS
  <2> QED BY <2>1, UptoIsFinite
<1> QED BY <1>1, FS_Subset, FS_CardinalityType

LEMMA RankedScore ==
  ASSUME NEW top \in Nat, NEW scores \in Seq(0 .. top), NEW k \in 1 .. Len(scores)
  PROVE  LET x == Judge!Ranked(scores, k)
         IN  /\ x \in 0 .. top
             /\ Cardinality(Under(scores, x)) < k
             /\ k <= Cardinality(Upto(scores, x))
<1> DEFINE numbers == {m \in Nat : k <= Cardinality(Upto(scores, m))}
           Fits_(x) == Cardinality(Under(scores, x)) < k /\ k <= Cardinality(Upto(scores, x))
<1>1. scores \in Seq(Nat) /\ Len(scores) \in Nat /\ DOMAIN scores = 1 .. Len(scores)
      /\ \A j \in DOMAIN scores : scores[j] \in 0 .. top
  OBVIOUS
<1>2. top \in numbers
  <2>1. Upto(scores, top) = DOMAIN scores
    BY <1>1 DEF Upto
  <2>2. Cardinality(DOMAIN scores) = Len(scores)
    BY <1>1, Positions
  <2> QED BY <1>1, <2>1, <2>2
<1>3. PICK l \in numbers : \A m \in numbers : l <= m
  <2>1. numbers \in SUBSET Nat
    OBVIOUS
  <2> HIDE DEF numbers
  <2> QED BY <1>2, <2>1, LeastNumber
<1>4. Fits_(l)
  <2>1. CASE l = 0
    <3>1. Under(scores, l) = {}
      BY <1>1, <2>1 DEF Under
    <3>2. Cardinality(Under(scores, l)) = 0
      BY <3>1, FS_EmptySet
    <3> QED BY <1>3, <3>2
  <2>2. CASE l # 0
    <3>1. l - 1 \in Nat /\ l - 1 \notin numbers
      BY <1>3, <2>2
    <3>2. Under(scores, l) = Upto(scores, l - 1)
      BY <1>1, <1>3 DEF Under, Upto
    <3>3. Cardinality(Upto(scores, l - 1)) \in Nat
      <4>1. Upto(scores, l - 1) \in SUBSET DOMAIN scores
        BY DEF Upto
      <4> QED BY <1>1, <4>1, Positions
    <3> QED BY <1>3, <3>1, <3>2, <3>3
  <2> QED BY <2>1, <2>2
<1>5. l \in Judge!Range(scores)
  <2>1. ASSUME \A j \in DOMAIN scores : scores[j] # l PROVE FALSE
    <3>1. Under(scores, l) = Upto(scores, l)
      BY <1>1, <1>3, <2>1 DEF Under, Upto
    <3>2. Cardinality(Upto(scores, l)) \in Nat
      <4>1. Upto(scores, l) \in SUBSET DOMAIN scores
        BY DEF Upto
      <4> QED BY <1>1, <4>1, Positions
    <3> QED BY <1>4, <3>1, <3>2
  <2> QED BY <2>1 DEF Judge!Range
<1>6. Judge!Ranked(scores, k) = CHOOSE x \in Judge!Range(scores) : Fits_(x)
  BY DEF Judge!Ranked, Judge!Cardinality, Cardinality, Under, Upto
<1>7. Judge!Ranked(scores, k) \in Judge!Range(scores) /\ Fits_(Judge!Ranked(scores, k))
  <2> HIDE DEF Fits_
  <2> QED BY <1>4, <1>5, <1>6
<1>8. Judge!Range(scores) \subseteq 0 .. top
  BY <1>1 DEF Judge!Range
<1> QED BY <1>7, <1>8


AtLeast(scores, x) == {j \in DOMAIN scores : x <= scores[j]}

LEMMA OthersAreAtLeast ==
  ASSUME NEW scores \in Seq(Nat), NEW x \in Nat
  PROVE  Cardinality(AtLeast(scores, x)) = Len(scores) - Cardinality(Under(scores, x))
<1>1. DOMAIN scores \in SUBSET DOMAIN scores /\ Under(scores, x) \in SUBSET DOMAIN scores
  BY DEF Under
<1>2. IsFiniteSet(DOMAIN scores) /\ IsFiniteSet(Under(scores, x)) /\ Cardinality(DOMAIN scores) = Len(scores)
  BY <1>1, Positions
<1>3. AtLeast(scores, x) = DOMAIN scores \ Under(scores, x)
      /\ DOMAIN scores \cap Under(scores, x) = Under(scores, x)
  <2>1. \A j \in DOMAIN scores : scores[j] \in Nat
    OBVIOUS
  <2> QED BY <2>1 DEF AtLeast, Under
<1> QED BY ZenonT(60), <1>2, <1>3, FS_Difference

\* At least half of the scores reach something that the median does not exceed.
LEMMA MedianHasAHalf ==
  ASSUME NEW top \in Nat, NEW scores \in Seq(0 .. top), scores # <<>>
  PROVE  /\ Judge!MedianScore(scores) \in 0 .. top
         /\ \E x \in 0 .. top : /\ Judge!MedianScore(scores) <= x
                                /\ 2 * Cardinality(AtLeast(scores, x)) >= Len(scores)
<1> DEFINE mid == Len(scores) \div 2
           low == Judge!Ranked(scores, mid)
           high == Judge!Ranked(scores, mid + 1)
<1>1. scores \in Seq(Nat) /\ Len(scores) \in Nat \ {0}
  OBVIOUS
<1>2. mid \in Nat /\ mid + 1 \in 1 .. Len(scores)
      /\ Len(scores) = IF Len(scores) % 2 = 1 THEN 2 * mid + 1 ELSE 2 * mid
  BY <1>1
<1>3. Judge!MedianScore(scores) = IF Len(scores) % 2 = 1 THEN high ELSE (low + high) \div 2
  BY DEF Judge!MedianScore
<1> HIDE DEF mid
<1>4. high \in 0 .. top /\ Cardinality(Under(scores, high)) < mid + 1 /\ mid + 1 <= Cardinality(Upto(scores, high))
  BY <1>2, RankedScore
<1> HIDE DEF high
<1>5. Cardinality(Under(scores, high)) \in Nat
  <2>1. Under(scores, high) \in SUBSET DOMAIN scores
    BY DEF Under
  <2> QED BY <1>1, <2>1, Positions
<1>6. 2 * Cardinality(AtLeast(scores, high)) >= Len(scores)
  <2>1. Cardinality(AtLeast(scores, high)) = Len(scores) - Cardinality(Under(scores, high))
    BY <1>1, <1>4, OthersAreAtLeast
  <2> QED BY SMTT(30), <1>1, <1>2, <1>4, <1>5, <2>1
<1>7. CASE Len(scores) % 2 = 1
  BY <1>3, <1>4, <1>6, <1>7
<1>8. CASE Len(scores) % 2 # 1
  <2>1. mid \in 1 .. Len(scores)
    BY <1>1, <1>2, <1>8
  <2>2. low \in 0 .. top /\ Cardinality(Under(scores, low)) < mid
    BY <2>1, RankedScore
  <2> HIDE DEF low
  <2>3. low <= high
    <3> SUFFICES ASSUME high < low PROVE FALSE
      BY <1>4, <2>2
    <3>1. Upto(scores, high) \subseteq Under(scores, low)
      BY <1>1, <1>4, <2>2 DEF Upto, Under
    <3>2. Under(scores, low) \in SUBSET DOMAIN scores /\ Upto(scores, high) \in SUBSET DOMAIN scores
      BY DEF Under, Upto
    <3>3. IsFiniteSet(Under(scores, low)) /\ Cardinality(Under(scores, low)) \in Nat
          /\ Cardinality(Upto(scores, high)) \in Nat
      BY <1>1, <3>2, Positions
    <3>4. Cardinality(Upto(scores, high)) <= Cardinality(Under(scores, low))
      BY <3>1, <3>3, FS_Subset
    <3> QED BY <1>2, <1>4, <2>2, <3>3, <3>4
  <2>4. (low + high) \div 2 \in 0 .. top /\ (low + high) \div 2 <= high
    BY <1>4, <2>2, <2>3
  <2> QED BY <1>3, <1>4, <1>6, <1>8, <2>4
<1> QED BY <1>7, <1>8

\* The winner of the majority is one that somebody named.
LEMMA MajorityIsAWinner ==
  ASSUME NEW said \in Seq(Judge!Winners), said # <<>>
  PROVE  Judge!majorityWinner(said) \in Judge!Winners
<1> DEFINE size == Len(said)
           D == Judge!Winners
           Count(w, k) == Judge!Cardinality({j \in 1 .. k : said[j] = w})
           Better(k, w) == IF Count(said[k], k) > Count(w, k) THEN said[k] ELSE w
           more == [kw \in (2 .. size) \X D |-> Better(kw[1], kw[2])]
           Is(best) == best = [k \in 1 .. size |-> IF k = 1 THEN said[1] ELSE Better(k, best[k - 1])]
<1>1. size \in Nat /\ size >= 1 /\ \A k \in 1 .. size : said[k] \in D
  OBVIOUS
<1> HIDE DEF size, D, Count
<1>2. more \in [(2 .. size) \X D -> D]
  <2>1. ASSUME NEW k \in 2 .. size, NEW w \in D PROVE Better(k, w) \in D
    BY <1>1
  <2> HIDE DEF Better
  <2> QED BY <2>1
<1>3. PICK f \in [1 .. size -> D] : f[1] = said[1] /\ \A k \in 2 .. size : f[k] = more[<<k, f[k - 1]>>]
  <2>1. said[1] \in D /\ 1 <= size /\ 1 \in Nat /\ 1 + 1 = 2
    BY <1>1
  <2> HIDE DEF more
  <2>2. more \in [(1 + 1 .. size) \X D -> D]
    BY <1>2, <2>1
  <2>3. \E f : Follows(f, 1, size, D, said[1], more)
    BY <1>1, <2>1, <2>2, Recursion
  <2> QED BY <2>1, <2>3 DEF Follows
<1>4. \A k \in 2 .. size : f[k] = Better(k, f[k - 1])
  <2> TAKE k \in 2 .. size
  <2>1. k - 1 \in 1 .. size /\ f[k - 1] \in D
    BY <1>1, <1>3
  <2> HIDE DEF Better
  <2> QED BY <1>3, <2>1
<1>5. Is(f)
  <2> HIDE DEF Better
  <2> QED BY <1>1, <1>3, <1>4
<1>6. PICK best : best = CHOOSE g : Is(g)
  OBVIOUS
<1>7. Is(best)
  <2> HIDE DEF Is
  <2> QED BY <1>5, <1>6
<1>8. Judge!majorityWinner(said) = best[size]
  BY <1>6 DEF Judge!majorityWinner, size, Count
<1> DEFINE bad == {k \in 1 .. size : best[k] \notin D}
<1>9. ASSUME bad # {} PROVE FALSE
  <2>1. PICK l \in bad : \A m \in bad : l <= m
    <3>1. bad \in SUBSET Nat
      BY <1>1
    <3> HIDE DEF bad
    <3> QED BY <1>9, <3>1, LeastNumber
  <2>2. best[1] = said[1]
    BY <1>1, <1>7
  <2>3. l \in 2 .. size /\ l - 1 \in 1 .. size /\ l - 1 \notin bad
    BY <1>1, <2>1, <2>2
  <2>4. best[l] \in {said[l], best[l - 1]}
    BY <1>7, <2>3
  <2> QED BY <1>1, <2>1, <2>3, <2>4
<1> QED BY <1>1, <1>8, <1>9 DEF D

-----------------------------------------------------------------------------
\* What a judge may have said, and what may be in the log.
Marks == 0 .. 4 * cfg.scale
Said == IF cfg.mode = "score" THEN Marks ELSE Judge!Winners
Decisions == [sample : Nat, swapped : BOOLEAN, heard : Seq(Said), ok : BOOLEAN]

Records(marks, errs) ==
  [scores : Seq(marks), wins : Nat, losses : Nat, ties : Nat, unparseable : Nat, err : errs]

JudgeTypes ==
  /\ cfg \in Settings
  /\ judgePhase \in {"target", "judge", "done"}
  /\ sample \in Nat \ {0}
  /\ swapped \in BOOLEAN
  /\ heard \in Seq(Said)
  /\ first \in Judge!Winners \cup {None}
  /\ judgeSamples \in Records(Marks, BOOLEAN)
  /\ passed \in BOOLEAN
  /\ judgeLog \in Seq(Decisions)

\* The log and the samples tell of the same scores.
Read == {k \in DOMAIN judgeLog : judgeLog[k].ok}
Good == {k \in Read : Judge!Share(Judge!MedianScore(judgeLog[k].heard)) >= cfg.minScore}
Fine == {k \in DOMAIN judgeSamples.scores : Judge!Share(judgeSamples.scores[k]) >= cfg.minScore}
ScoresInv ==
  cfg.mode = "score" =>
    /\ Cardinality(Read) = Len(judgeSamples.scores)
    /\ Cardinality(Good) = Cardinality(Fine)

\* The log is of the samples so far, and of the first order when the second is
\* being judged; what was counted is what has the same winner in both.
OrdersInv ==
  cfg.mode = "pairwise" /\ ~judgeSamples.err =>
    /\ \A w \in Judge!Winners : Judge!Won(sample, FALSE, w) <=> swapped /\ first = w
    /\ \A s \in Nat, order \in BOOLEAN, w \in Judge!Winners :
         Judge!Won(s, order, w) => s < sample \/ (s = sample /\ ~order)
    /\ judgeSamples.wins = Cardinality(Judge!Settled("1", "2"))
    /\ judgeSamples.losses = Cardinality(Judge!Settled("2", "1"))

PassedInv ==
  passed => /\ judgePhase = "done"
            /\ IF cfg.mode = "score" THEN Judge!ScoreVerdict ELSE Judge!PairwiseVerdict

JudgeInv == JudgeTypes /\ ScoresInv /\ OrdersInv /\ PassedInv

LEMMA SettingFacts ==
  ASSUME JudgeTypes
  PROVE  /\ cfg.samples \in Nat /\ cfg.scale \in Nat \ {0} /\ cfg.minScore \in Int
         /\ cfg.minWinRate \in Nat \ {0} /\ cfg.says \subseteq Int
         /\ None \notin Int /\ None \notin Judge!Winners
  BY EnginesAssumption DEF JudgeTypes, Judge!JudgeAssumption

LEMMA JudgeStarts == Judge!Init => JudgeInv
<1> SUFFICES ASSUME Judge!Init PROVE JudgeInv
  OBVIOUS
<1>1. judgeLog = <<>> /\ judgeSamples.scores = <<>> /\ judgeSamples.wins = 0 /\ judgeSamples.losses = 0
      /\ passed = FALSE /\ swapped = FALSE /\ heard = <<>> /\ sample = 1 /\ first = None
      /\ judgePhase = "target" /\ cfg \in Settings
  BY DEF Judge!Init, Judge!NoSamples
<1>2. judgeSamples \in Records(Marks, BOOLEAN)
  BY DEF Judge!Init, Judge!NoSamples, Records
<1>3. JudgeTypes
  <2>1. sample \in Nat \ {0} /\ heard \in Seq(Said) /\ judgeLog \in Seq(Decisions)
    BY <1>1
  <2>2. swapped \in BOOLEAN /\ passed \in BOOLEAN
    BY <1>1
  <2> QED BY <1>1, <1>2, <2>1, <2>2 DEF JudgeTypes
<1>4. Cardinality({}) = 0
  BY FS_EmptySet
<1>5. ScoresInv
  <2>1. Read = {} /\ Good = {} /\ Fine = {} /\ Len(judgeSamples.scores) = 0
    BY <1>1 DEF Read, Good, Fine
  <2> QED BY <1>4, <2>1 DEF ScoresInv
<1>6. \A s, order, w : ~Judge!Won(s, order, w)
  BY <1>1 DEF Judge!Won
<1>7. Judge!Settled("1", "2") = {} /\ Judge!Settled("2", "1") = {}
  BY <1>6 DEF Judge!Settled
<1>8. OrdersInv
  BY <1>1, <1>4, <1>6, <1>7 DEF OrdersInv
<1> QED BY <1>1, <1>3, <1>5, <1>8 DEF JudgeInv, PassedInv

\* An entry tells that an answer won.
Tells(entry, s, order, w) ==
  /\ entry.sample = s /\ entry.swapped = order /\ entry.ok
  /\ Judge!majorityWinner(entry.heard) = w

LEMMA LogGrows ==
  ASSUME JudgeTypes, NEW entry \in Decisions, judgeLog' = Append(judgeLog, entry)
  PROVE  /\ judgeLog' \in Seq(Decisions)
         /\ DOMAIN judgeLog' = DOMAIN judgeLog \cup {Len(judgeLog) + 1}
         /\ Len(judgeLog) + 1 \notin DOMAIN judgeLog
         /\ judgeLog'[Len(judgeLog) + 1] = entry
         /\ \A k \in DOMAIN judgeLog : judgeLog'[k] = judgeLog[k]
  BY DEF JudgeTypes

LEMMA WonMore ==
  ASSUME JudgeTypes, NEW entry \in Decisions, judgeLog' = Append(judgeLog, entry), NEW s, NEW order, NEW w
  PROVE  Judge!Won(s, order, w)' <=> Judge!Won(s, order, w) \/ Tells(entry, s, order, w)
<1> DEFINE Has(d) == d.sample = s /\ d.swapped = order /\ d.ok /\ Judge!majorityWinner(d.heard) = w
<1>1. Judge!Won(s, order, w) <=> \E k \in DOMAIN judgeLog : Has(judgeLog[k])
  BY DEF Judge!Won
<1>2. Judge!Won(s, order, w)' <=> \E k \in DOMAIN judgeLog' : Has(judgeLog'[k])
  BY DEF Judge!Won, Judge!majorityWinner
<1>3. Tells(entry, s, order, w) <=> Has(entry)
  BY DEF Tells
<1> HIDE DEF Has
<1> QED BY <1>1, <1>2, <1>3, LogGrows

LEMMA NothingJudged ==
  ASSUME JudgeInv, judgeLog' = judgeLog, cfg' = cfg, judgeSamples' = judgeSamples, sample' = sample,
         swapped' = swapped, first' = first
  PROVE  ScoresInv' /\ OrdersInv'
<1>1. ScoresInv' <=> ScoresInv
  <2>1. Read' = Read
    BY DEF Read
  <2>2. Good' = Good
    BY <2>1 DEF Good, Judge!Share, Judge!MedianScore, Judge!Ranked
  <2>3. Fine' = Fine
    BY DEF Fine, Judge!Share
  <2> QED BY <2>1, <2>2, <2>3 DEF ScoresInv
<1>2. \A s, order, w : Judge!Won(s, order, w)' <=> Judge!Won(s, order, w)
  BY DEF Judge!Won, Judge!majorityWinner
<1>3. Judge!Settled("1", "2")' = Judge!Settled("1", "2") /\ Judge!Settled("2", "1")' = Judge!Settled("2", "1")
  BY <1>2 DEF Judge!Settled
<1>4. OrdersInv' <=> OrdersInv
  BY <1>2, <1>3 DEF OrdersInv
<1> QED BY <1>1, <1>4 DEF JudgeInv

\* A score is recorded once, in the log and among the samples.
LEMMA ScoreDecides ==
  ASSUME JudgeInv, cfg.mode = "score", cfg' = cfg,
         NEW entry \in Decisions, judgeLog' = Append(judgeLog, entry),
         NEW score \in Marks, entry.ok, Judge!MedianScore(entry.heard) = score,
         judgeSamples' = [judgeSamples EXCEPT !.scores = Append(@, score)]
  PROVE  ScoresInv'
<1> DEFINE last == Len(judgeLog) + 1
           scores == judgeSamples.scores
           top == Len(scores) + 1
           isGood == Judge!Share(score) >= cfg.minScore
<1>1. JudgeTypes /\ Cardinality(Read) = Len(scores) /\ Cardinality(Good) = Cardinality(Fine)
  BY DEF JudgeInv, ScoresInv
<1>2. scores \in Seq(Marks) /\ judgeSamples'.scores = Append(scores, score)
  BY <1>1 DEF JudgeTypes, Records
<1>3. \A x : Judge!Share(x)' = Judge!Share(x)
  BY DEF Judge!Share
<1>4. Read' = Read \cup {last} /\ last \notin Read
  BY <1>1, LogGrows DEF Read
<1>6. Good' = {k \in Read' : Judge!Share(Judge!MedianScore(judgeLog'[k].heard)) >= cfg.minScore}
  BY <1>3 DEF Good, Judge!MedianScore, Judge!Ranked
<1>7. Good' = (IF isGood THEN Good \cup {last} ELSE Good) /\ last \notin Good
  <2>1. \A k \in Read : judgeLog'[k] = judgeLog[k]
    BY <1>1, LogGrows DEF Read
  <2>2. judgeLog'[last] = entry
    BY <1>1, LogGrows
  <2> HIDE DEF last
  <2> QED BY <1>4, <1>6, <2>1, <2>2 DEF Good
<1>8. /\ DOMAIN Append(scores, score) = DOMAIN scores \cup {top} /\ top \notin DOMAIN scores
      /\ Append(scores, score)[top] = score /\ \A k \in DOMAIN scores : Append(scores, score)[k] = scores[k]
  BY <1>2
<1>9. Fine' = {k \in DOMAIN scores \cup {top} : Judge!Share(Append(scores, score)[k]) >= cfg.minScore}
  BY <1>2, <1>3, <1>8 DEF Fine
<1>10. Fine' = (IF isGood THEN Fine \cup {top} ELSE Fine) /\ top \notin Fine
  <2> HIDE DEF top
  <2> QED BY <1>8, <1>9 DEF Fine
<1>11. IsFiniteSet(Read) /\ IsFiniteSet(Good) /\ IsFiniteSet(Fine)
  <2>1. IsFiniteSet(1 .. Len(judgeLog)) /\ IsFiniteSet(1 .. Len(scores))
    <3>1. Len(judgeLog) \in Nat /\ Len(scores) \in Nat
      BY <1>1, <1>2 DEF JudgeTypes
    <3> QED BY <3>1, UptoIsFinite
  <2>2. Read \subseteq 1 .. Len(judgeLog) /\ Good \subseteq Read /\ Fine \subseteq 1 .. Len(scores)
    BY <1>1, <1>2 DEF Read, Good, Fine, JudgeTypes
  <2> QED BY <2>1, <2>2, FS_Subset
<1>12. Len(judgeSamples'.scores) = Len(scores) + 1
  BY <1>2
<1> HIDE DEF last, top, scores, isGood
<1>13. Cardinality(Read') = Cardinality(Read) + 1
  BY <1>4, <1>11, FS_AddElement
<1>14. Cardinality(Good') = Cardinality(Good) + (IF isGood THEN 1 ELSE 0)
  <2>1. Cardinality(Good \cup {last}) = Cardinality(Good) + 1
    BY <1>7, <1>11, FS_AddElement
  <2>2. Cardinality(Good) \in Nat
    BY <1>11, FS_CardinalityType
  <2> QED BY <1>7, <2>1, <2>2
<1>15. Cardinality(Fine') = Cardinality(Fine) + (IF isGood THEN 1 ELSE 0)
  <2>1. Cardinality(Fine \cup {top}) = Cardinality(Fine) + 1
    BY <1>10, <1>11, FS_AddElement
  <2>2. Cardinality(Fine) \in Nat
    BY <1>11, FS_CardinalityType
  <2> QED BY <1>10, <2>1, <2>2
<1>16. Cardinality(Read') = Len(judgeSamples'.scores) /\ Cardinality(Good') = Cardinality(Fine')
  BY <1>1, <1>12, <1>13, <1>14, <1>15
<1> QED BY <1>16 DEF ScoresInv

\* What could not be read adds nothing to either.
LEMMA ScoreLost ==
  ASSUME JudgeInv, cfg' = cfg, NEW entry \in Decisions, judgeLog' = Append(judgeLog, entry), ~entry.ok,
         judgeSamples'.scores = judgeSamples.scores
  PROVE  ScoresInv'
<1>1. JudgeTypes
  BY DEF JudgeInv
<1>2. Read' = Read
  BY <1>1, LogGrows DEF Read
<1>3. \A k \in Read : judgeLog'[k] = judgeLog[k]
  BY <1>1, LogGrows DEF Read
<1>4. Good' = Good
  <2>1. Good' = {k \in Read' : Judge!Share(Judge!MedianScore(judgeLog'[k].heard)) >= cfg.minScore}
    BY DEF Good, Judge!Share, Judge!MedianScore, Judge!Ranked
  <2> QED BY <1>2, <1>3, <2>1 DEF Good
<1>5. Fine' = Fine
  BY DEF Fine, Judge!Share
<1> QED BY <1>2, <1>4, <1>5 DEF ScoresInv, JudgeInv

\* The first order of a sample settles nothing.
LEMMA FirstOrderDecides ==
  ASSUME JudgeInv, cfg.mode = "pairwise", ~judgeSamples.err, ~swapped, cfg' = cfg,
         NEW decision \in Judge!Winners \cup {None},
         NEW entry \in Decisions, judgeLog' = Append(judgeLog, entry),
         entry.sample = sample, entry.swapped = FALSE, entry.ok <=> decision # None,
         decision # None => Judge!majorityWinner(entry.heard) = decision,
         first' = decision, swapped' = TRUE, sample' = sample, judgeSamples' = judgeSamples
  PROVE  OrdersInv'
<1>1. JudgeTypes /\ sample \in Nat
  BY DEF JudgeInv, JudgeTypes
<1>2. /\ \A w \in Judge!Winners : ~Judge!Won(sample, FALSE, w)
      /\ \A s \in Nat, order \in BOOLEAN, w \in Judge!Winners :
           Judge!Won(s, order, w) => s < sample \/ (s = sample /\ ~order)
      /\ judgeSamples.wins = Cardinality(Judge!Settled("1", "2"))
      /\ judgeSamples.losses = Cardinality(Judge!Settled("2", "1"))
  BY DEF JudgeInv, OrdersInv
<1>3. None \notin Judge!Winners
  BY <1>1, SettingFacts
<1>4. ASSUME NEW s, NEW order \in BOOLEAN, NEW w \in Judge!Winners
      PROVE  Judge!Won(s, order, w)' <=> Judge!Won(s, order, w) \/ (s = sample /\ ~order /\ decision = w)
  <2>1. Judge!Won(s, order, w)' <=> Judge!Won(s, order, w) \/ Tells(entry, s, order, w)
    BY <1>1, WonMore
  <2>2. Tells(entry, s, order, w) <=> s = sample /\ ~order /\ decision = w
    BY <1>3 DEF Tells
  <2> QED BY <2>1, <2>2
<1>5. \A w \in Judge!Winners : Judge!Won(sample, FALSE, w)' <=> decision = w
  BY <1>2, <1>4
<1>6. \A s \in Nat, order \in BOOLEAN, w \in Judge!Winners :
        Judge!Won(s, order, w)' => s < sample \/ (s = sample /\ ~order)
  BY <1>2, <1>4
<1>7. ASSUME NEW p \in Judge!Winners, NEW q \in Judge!Winners
      PROVE  Judge!Settled(p, q)' = Judge!Settled(p, q)
  <2>1. cfg.samples \in Nat
    BY <1>1, SettingFacts
  <2>2. Judge!Settled(p, q)' = {s \in 1 .. cfg.samples : Judge!Won(s, FALSE, p)' /\ Judge!Won(s, TRUE, q)'}
    BY DEF Judge!Settled
  <2>3. ASSUME NEW s \in 1 .. cfg.samples
        PROVE  Judge!Won(s, FALSE, p)' /\ Judge!Won(s, TRUE, q)' <=> Judge!Won(s, FALSE, p) /\ Judge!Won(s, TRUE, q)
    <3>1. s \in Nat
      BY <2>1
    <3>2. Judge!Won(s, TRUE, q)' <=> Judge!Won(s, TRUE, q)
      BY <1>4
    <3>3. Judge!Won(s, TRUE, q) => s # sample
      <4>1. Judge!Won(s, TRUE, q) => s < sample \/ (s = sample /\ ~TRUE)
        BY <1>2, <3>1
      <4> QED BY <1>1, <4>1
    <3> QED BY <1>4, <3>2, <3>3
  <2> QED BY <2>2, <2>3 DEF Judge!Settled
<1>8. "1" \in Judge!Winners /\ "2" \in Judge!Winners
  BY DEF Judge!Winners
<1>9. Judge!Settled("1", "2")' = Judge!Settled("1", "2") /\ Judge!Settled("2", "1")' = Judge!Settled("2", "1")
  BY <1>7, <1>8
<1>10. \A w \in Judge!Winners : Judge!Won(sample, FALSE, w)' <=> swapped' /\ first' = w
  BY <1>5
<1>11. judgeSamples'.wins = Cardinality(Judge!Settled("1", "2")')
       /\ judgeSamples'.losses = Cardinality(Judge!Settled("2", "1")')
  BY <1>2, <1>9
<1> QED BY <1>6, <1>10, <1>11 DEF OrdersInv

\* The second order settles the sample when the same answer won in both.
LEMMA SecondOrderDecides ==
  ASSUME JudgeInv, cfg.mode = "pairwise", ~judgeSamples.err, swapped, sample <= cfg.samples, cfg' = cfg,
         NEW decision \in Judge!Winners \cup {None},
         NEW entry \in Decisions, judgeLog' = Append(judgeLog, entry),
         entry.sample = sample, entry.swapped = TRUE, entry.ok <=> decision # None,
         decision # None => Judge!majorityWinner(entry.heard) = decision,
         swapped' = FALSE, sample' = sample + 1,
         judgeSamples'.wins = judgeSamples.wins + (IF first = "1" /\ decision = "2" THEN 1 ELSE 0),
         judgeSamples'.losses = judgeSamples.losses + (IF first = "2" /\ decision = "1" THEN 1 ELSE 0)
  PROVE  OrdersInv'
<1>1. JudgeTypes /\ sample \in Nat \ {0}
  BY DEF JudgeInv, JudgeTypes
<1>2. /\ \A w \in Judge!Winners : Judge!Won(sample, FALSE, w) <=> first = w
      /\ \A s \in Nat, order \in BOOLEAN, w \in Judge!Winners :
           Judge!Won(s, order, w) => s < sample \/ (s = sample /\ ~order)
      /\ judgeSamples.wins = Cardinality(Judge!Settled("1", "2"))
      /\ judgeSamples.losses = Cardinality(Judge!Settled("2", "1"))
  BY DEF JudgeInv, OrdersInv
<1>3. None \notin Judge!Winners /\ cfg.samples \in Nat
  BY <1>1, SettingFacts
<1>4. ASSUME NEW s, NEW order \in BOOLEAN, NEW w \in Judge!Winners
      PROVE  Judge!Won(s, order, w)' <=> Judge!Won(s, order, w) \/ (s = sample /\ order /\ decision = w)
  <2>1. Judge!Won(s, order, w)' <=> Judge!Won(s, order, w) \/ Tells(entry, s, order, w)
    BY <1>1, WonMore
  <2>2. Tells(entry, s, order, w) <=> s = sample /\ order /\ decision = w
    BY <1>3 DEF Tells
  <2> QED BY <2>1, <2>2
<1>5. PICK later : later = sample + 1
  OBVIOUS
<1>6. \A s \in Nat, order \in BOOLEAN, w \in Judge!Winners : Judge!Won(s, order, w)' => s < sample + 1
  <2>1. \A s \in Nat : s < sample \/ s = sample => s < sample + 1
    BY <1>1
  <2> QED BY <1>2, <1>4, <2>1
<1>7. ASSUME NEW p \in Judge!Winners, NEW q \in Judge!Winners
      PROVE  Cardinality(Judge!Settled(p, q)') =
               Cardinality(Judge!Settled(p, q)) + (IF first = p /\ decision = q THEN 1 ELSE 0)
  <2>1. Judge!Settled(p, q)' = {s \in 1 .. cfg.samples : Judge!Won(s, FALSE, p)' /\ Judge!Won(s, TRUE, q)'}
    BY DEF Judge!Settled
  <2>2. ASSUME NEW s \in 1 .. cfg.samples
        PROVE  Judge!Won(s, FALSE, p)' /\ Judge!Won(s, TRUE, q)' <=>
                 (Judge!Won(s, FALSE, p) /\ Judge!Won(s, TRUE, q)) \/ (s = sample /\ first = p /\ decision = q)
    <3>1. Judge!Won(s, FALSE, p)' <=> Judge!Won(s, FALSE, p)
      BY <1>4
    <3>2. Judge!Won(s, TRUE, q)' <=> Judge!Won(s, TRUE, q) \/ (s = sample /\ decision = q)
      BY <1>4
    <3> QED BY <1>2, <3>1, <3>2
  <2>3. sample \in 1 .. cfg.samples /\ sample \notin Judge!Settled(p, q)
    <3>1. sample \in 1 .. cfg.samples /\ ~(sample < sample)
      BY <1>1, <1>3
    <3> QED BY <1>1, <1>2, <3>1 DEF Judge!Settled
  <2>4. Judge!Settled(p, q)' = IF first = p /\ decision = q THEN Judge!Settled(p, q) \cup {sample}
                               ELSE Judge!Settled(p, q)
    BY <2>1, <2>2, <2>3 DEF Judge!Settled
  <2>5. IsFiniteSet(Judge!Settled(p, q))
    <3>1. IsFiniteSet(1 .. cfg.samples) /\ Judge!Settled(p, q) \subseteq 1 .. cfg.samples
      BY <1>3, UptoIsFinite DEF Judge!Settled
    <3> QED BY <3>1, FS_Subset
  <2>6. Cardinality(Judge!Settled(p, q) \cup {sample}) = Cardinality(Judge!Settled(p, q)) + 1
    BY <2>3, <2>5, FS_AddElement
  <2>7. Cardinality(Judge!Settled(p, q)) \in Nat
    BY <2>5, FS_CardinalityType
  <2> QED BY <2>4, <2>6, <2>7
<1>8. "1" \in Judge!Winners /\ "2" \in Judge!Winners
  BY DEF Judge!Winners
<1>9. judgeSamples'.wins = Cardinality(Judge!Settled("1", "2")')
      /\ judgeSamples'.losses = Cardinality(Judge!Settled("2", "1")')
  BY <1>2, <1>7, <1>8
<1>10. \A w \in Judge!Winners : ~Judge!Won(later, FALSE, w)'
  <2> TAKE w \in Judge!Winners
  <2>1. later \in Nat /\ ~(later < sample + 1)
    BY <1>1, <1>5
  <2> QED BY <1>6, <2>1
<1>11. \A w \in Judge!Winners : Judge!Won(sample, FALSE, w)' <=> swapped' /\ first' = w
  BY <1>5, <1>10
<1>12. \A s \in Nat, order \in BOOLEAN, w \in Judge!Winners :
         Judge!Won(s, order, w)' => s < sample' \/ (s = sample' /\ ~order)
  BY <1>6
<1> QED BY <1>9, <1>11, <1>12 DEF OrdersInv

\* What the judges of one decision make of their answers.
LEMMA DecisionTypes ==
  ASSUME JudgeTypes, NEW answers \in Seq(Said)
  PROVE  /\ cfg.mode = "score" /\ answers # <<>> => Judge!MedianScore(answers) \in Marks
         /\ cfg.mode # "score" /\ answers # <<>> => Judge!majorityWinner(answers) \in Judge!Winners
<1>1. 4 * cfg.scale \in Nat
  BY SettingFacts
<1>4. ASSUME cfg.mode = "score", answers # <<>> PROVE Judge!MedianScore(answers) \in Marks
  <2> DEFINE top == 4 * cfg.scale
  <2>1. answers \in Seq(0 .. top)
    BY <1>4 DEF Said, Marks
  <2>2. top \in Nat
    BY <1>1
  <2> HIDE DEF top
  <2>3. Judge!MedianScore(answers) \in 0 .. top
    BY <1>4, <2>1, <2>2, MedianHasAHalf
  <2> QED BY <2>3 DEF top, Marks
<1>5. ASSUME cfg.mode # "score", answers # <<>> PROVE Judge!majorityWinner(answers) \in Judge!Winners
  BY <1>5, MajorityIsAWinner DEF Said
<1> QED BY <1>4, <1>5

LEMMA ScoredSample ==
  ASSUME NEW marks, NEW errs, NEW score \in marks,
         NEW taken \in Records(marks, errs)
  PROVE  [taken EXCEPT !.scores = Append(@, score)] \in
           Records(marks, errs)
<1>1. Append(taken.scores, score) \in Seq(marks)
  <2>1. taken.scores \in Seq(marks)
    BY DEF Records
  <2> QED BY <2>1
<1> QED BY <1>1 DEF Records

LEMMA LostSample ==
  ASSUME NEW marks, NEW errs,
         NEW taken \in Records(marks, errs)
  PROVE  LET lost == [taken EXCEPT !.unparseable = @ + 1]
         IN  /\ lost \in Records(marks, errs)
             /\ lost.scores = taken.scores /\ lost.wins = taken.wins /\ lost.losses = taken.losses
             /\ lost.err = taken.err
  BY DEF Records

\* recordPairwiseOutcome counts a sample when the same answer won it twice.
LEMMA OutcomeCounts ==
  ASSUME NEW errs, NEW marks, NEW x \in Judge!Winners, NEW y \in Judge!Winners,
         judgeSamples \in Records(marks, errs)
  PROVE  /\ Judge!Outcome(x, y) \in Records(marks, errs)
         /\ Judge!Outcome(x, y).err = judgeSamples.err
         /\ Judge!Outcome(x, y).wins = judgeSamples.wins + (IF x = "1" /\ y = "2" THEN 1 ELSE 0)
         /\ Judge!Outcome(x, y).losses = judgeSamples.losses + (IF x = "2" /\ y = "1" THEN 1 ELSE 0)
<1>1. CASE x = "1" /\ y = "2"
  <2>1. Judge!Outcome(x, y) = [judgeSamples EXCEPT !.wins = @ + 1]
    BY <1>1 DEF Judge!Outcome, Judge!preferenceFor
  <2> QED BY <1>1, <2>1 DEF Records
<1>2. CASE x = "2" /\ y = "1"
  <2>1. Judge!Outcome(x, y) = [judgeSamples EXCEPT !.losses = @ + 1]
    BY <1>2 DEF Judge!Outcome, Judge!preferenceFor
  <2> QED BY <1>2, <2>1 DEF Records
<1>3. CASE ~(x = "1" /\ y = "2") /\ ~(x = "2" /\ y = "1")
  <2>1. Judge!Outcome(x, y) = [judgeSamples EXCEPT !.ties = @ + 1]
    BY <1>3 DEF Judge!Outcome, Judge!preferenceFor, Judge!Winners
  <2> QED BY <1>3, <2>1 DEF Records
<1> QED BY <1>1, <1>2, <1>3

LEMMA DecideKeeps ==
  ASSUME JudgeInv, Judge!Judging, NEW decision, NEW answers \in Seq(Said),
         decision # None =>
           answers # <<>> /\ decision = IF cfg.mode = "score" THEN Judge!MedianScore(answers)
                                        ELSE Judge!majorityWinner(answers),
         Judge!Decide(decision, answers), cfg' = cfg, judgePhase' = judgePhase, passed' = passed
  PROVE  JudgeInv'
<1> DEFINE entry == [sample |-> sample, swapped |-> swapped, heard |-> answers, ok |-> decision # None]
<1>1. JudgeTypes /\ sample \in Nat \ {0} /\ sample <= cfg.samples /\ judgePhase = "judge" /\ None \notin Judge!Winners
  BY SettingFacts DEF JudgeInv, JudgeTypes, Judge!Judging
<1>2. passed = FALSE
  BY <1>1 DEF JudgeInv, PassedInv, JudgeTypes
<1>3. decision # None => IF cfg.mode = "score" THEN decision \in Marks ELSE decision \in Judge!Winners
  BY <1>1, DecisionTypes
<1>4. entry \in Decisions
  <2>1. swapped \in BOOLEAN /\ (decision # None) \in BOOLEAN
    BY <1>1 DEF JudgeTypes
  <2>2. sample \in Nat
    BY <1>1
  <2> QED BY <2>1, <2>2 DEF Decisions
<1>5. /\ entry.sample = sample /\ entry.swapped = swapped /\ entry.heard = answers
      /\ entry.ok <=> decision # None
  OBVIOUS
<1>6. judgeLog' = Append(judgeLog, entry) /\ heard' = <<>>
  BY DEF Judge!Decide
<1> HIDE DEF entry
<1>7. judgeLog' \in Seq(Decisions)
  BY <1>1, <1>4, <1>6, LogGrows
<1>8. PassedInv'
  BY <1>2 DEF PassedInv
<1>9. judgeSamples \in Records(Marks, BOOLEAN)
  BY <1>1 DEF JudgeTypes
<1>10. Marks' = Marks /\ Said' = Said /\ Decisions' = Decisions
  BY DEF Marks, Said, Decisions
<1>11. ASSUME sample' \in Nat \ {0}, swapped' \in BOOLEAN, first' \in Judge!Winners \cup {None},
              judgeSamples' \in Records(Marks, BOOLEAN)
       PROVE  JudgeTypes'
  <2>1. cfg' \in Settings /\ judgePhase' \in {"target", "judge", "done"} /\ passed' \in BOOLEAN
    BY <1>1 DEF JudgeTypes
  <2>2. heard' \in Seq(Said') /\ judgeLog' \in Seq(Decisions')
    BY <1>6, <1>7, <1>10
  <2>3. (judgeSamples \in Records(Marks, BOOLEAN))'
    BY <1>10, <1>11
  <2> QED BY <1>11, <2>1, <2>2, <2>3 DEF JudgeTypes
<1>12. CASE cfg.mode = "score"
  <2>1. sample' = sample + 1 /\ swapped' = FALSE /\ first' = None
        /\ judgeSamples' = IF decision = None THEN Judge!Unparseable
                           ELSE [judgeSamples EXCEPT !.scores = Append(@, decision)]
    BY <1>12 DEF Judge!Decide, Judge!NextSample
  <2>2. /\ judgeSamples' \in Records(Marks, BOOLEAN)
        /\ decision = None => judgeSamples'.scores = judgeSamples.scores
    <3>1. CASE decision = None
      <4>1. judgeSamples' = [judgeSamples EXCEPT !.unparseable = @ + 1]
        BY <2>1, <3>1 DEF Judge!Unparseable
      <4> QED BY <1>9, <4>1, LostSample
    <3>2. CASE decision # None
      <4>1. judgeSamples' = [judgeSamples EXCEPT !.scores = Append(@, decision)] /\ decision \in Marks
        BY <1>3, <1>12, <2>1, <3>2
      <4> QED BY <1>9, <3>2, <4>1, ScoredSample
    <3> QED BY <3>1, <3>2
  <2>3. ScoresInv'
    <3>1. CASE decision = None
      BY <1>4, <1>5, <1>6, <2>2, <3>1, ScoreLost
    <3>2. CASE decision # None
      <4>1. decision \in Marks /\ Judge!MedianScore(answers) = decision
        BY <1>3, <1>12, <3>2
      <4>2. judgeSamples' = [judgeSamples EXCEPT !.scores = Append(@, decision)]
        BY <2>1, <3>2
      <4>3. entry.ok /\ Judge!MedianScore(entry.heard) = decision
        BY <1>5, <3>2, <4>1
      <4> QED BY <1>4, <1>6, <1>12, <4>1, <4>2, <4>3, ScoreDecides
    <3> QED BY <3>1, <3>2
  <2>4. OrdersInv'
    BY <1>12 DEF OrdersInv
  <2>5. JudgeTypes'
    <3>1. sample' \in Nat \ {0} /\ first' \in Judge!Winners \cup {None}
      BY <1>1, <2>1
    <3>2. swapped' \in BOOLEAN
      BY <2>1
    <3> QED BY <1>11, <2>2, <3>1, <3>2
  <2> QED BY <1>8, <2>3, <2>4, <2>5 DEF JudgeInv
<1>13. CASE cfg.mode # "score" /\ ~swapped
  <2>1. first' = decision /\ swapped' = TRUE /\ sample' = sample /\ judgeSamples' = judgeSamples
    BY <1>13 DEF Judge!Decide
  <2>2. decision \in Judge!Winners \cup {None}
    BY <1>3, <1>13
  <2>3. decision # None => Judge!majorityWinner(entry.heard) = decision
    BY <1>5, <1>13
  <2>4. entry.sample = sample /\ entry.swapped = FALSE
    BY <1>1, <1>5, <1>13 DEF JudgeTypes
  <2>5. OrdersInv'
    <3>1. CASE cfg.mode = "pairwise" /\ ~judgeSamples.err
      BY <1>4, <1>5, <1>6, <1>13, <2>1, <2>2, <2>3, <2>4, <3>1, FirstOrderDecides
    <3>2. CASE ~(cfg.mode = "pairwise" /\ ~judgeSamples.err)
      BY <2>1, <3>2 DEF OrdersInv
    <3> QED BY <3>1, <3>2
  <2>6. ScoresInv'
    BY <1>13 DEF ScoresInv
  <2>7. JudgeTypes'
    BY <1>1, <1>9, <1>11, <2>1, <2>2
  <2> QED BY <1>8, <2>5, <2>6, <2>7 DEF JudgeInv
<1>14. CASE cfg.mode # "score" /\ swapped
  <2>1. sample' = sample + 1 /\ swapped' = FALSE /\ first' = None
        /\ judgeSamples' = IF None \in {first, decision} THEN Judge!Unparseable ELSE Judge!Outcome(first, decision)
    BY <1>14 DEF Judge!Decide, Judge!NextSample
  <2>2. decision \in Judge!Winners \cup {None} /\ first \in Judge!Winners \cup {None}
    BY <1>1, <1>3, <1>14 DEF JudgeTypes
  <2>3. decision # None => Judge!majorityWinner(entry.heard) = decision
    BY <1>5, <1>14
  <2>4. entry.sample = sample /\ entry.swapped = TRUE
    BY <1>1, <1>5, <1>14 DEF JudgeTypes
  <2>5. /\ judgeSamples' \in Records(Marks, BOOLEAN)
        /\ judgeSamples'.err = judgeSamples.err
        /\ judgeSamples'.wins = judgeSamples.wins + (IF first = "1" /\ decision = "2" THEN 1 ELSE 0)
        /\ judgeSamples'.losses = judgeSamples.losses + (IF first = "2" /\ decision = "1" THEN 1 ELSE 0)
    <3>1. CASE None \in {first, decision}
      <4>1. judgeSamples' = [judgeSamples EXCEPT !.unparseable = @ + 1]
        BY <2>1, <3>1 DEF Judge!Unparseable
      <4>2. ~(first = "1" /\ decision = "2") /\ ~(first = "2" /\ decision = "1")
        BY <1>1, <3>1 DEF Judge!Winners
      <4>3. judgeSamples.wins \in Nat /\ judgeSamples.losses \in Nat
        BY <1>9 DEF Records
      <4>4. /\ judgeSamples' \in Records(Marks, BOOLEAN)
            /\ judgeSamples'.wins = judgeSamples.wins /\ judgeSamples'.losses = judgeSamples.losses
            /\ judgeSamples'.err = judgeSamples.err
        BY <1>9, <4>1, LostSample
      <4> QED BY <4>2, <4>3, <4>4
    <3>2. CASE None \notin {first, decision}
      <4>1. first \in Judge!Winners /\ decision \in Judge!Winners /\ judgeSamples' = Judge!Outcome(first, decision)
        BY <2>1, <2>2, <3>2
      <4>2. /\ Judge!Outcome(first, decision) \in Records(Marks, BOOLEAN)
            /\ Judge!Outcome(first, decision).err = judgeSamples.err
            /\ Judge!Outcome(first, decision).wins =
                 judgeSamples.wins + (IF first = "1" /\ decision = "2" THEN 1 ELSE 0)
            /\ Judge!Outcome(first, decision).losses =
                 judgeSamples.losses + (IF first = "2" /\ decision = "1" THEN 1 ELSE 0)
        BY <1>9, <4>1, OutcomeCounts
      <4> HIDE DEF Judge!Outcome
      <4> QED BY <4>1, <4>2
    <3> QED BY <3>1, <3>2
  <2>6. OrdersInv'
    <3>1. CASE cfg.mode = "pairwise" /\ ~judgeSamples.err
      BY <1>1, <1>4, <1>5, <1>6, <1>14, <2>1, <2>2, <2>3, <2>4, <2>5, <3>1, SecondOrderDecides
    <3>2. CASE ~(cfg.mode = "pairwise" /\ ~judgeSamples.err)
      BY <2>5, <3>2 DEF OrdersInv
    <3> QED BY <3>1, <3>2
  <2>7. ScoresInv'
    BY <1>14 DEF ScoresInv
  <2>8. JudgeTypes'
    <3>1. sample' \in Nat \ {0} /\ first' \in Judge!Winners \cup {None}
      BY <1>1, <2>1
    <3>2. swapped' \in BOOLEAN
      BY <2>1
    <3> QED BY <1>11, <2>5, <3>1, <3>2
  <2> QED BY <1>8, <2>6, <2>7, <2>8 DEF JudgeInv
<1> QED BY <1>12, <1>13, <1>14

LEMMA InvokeTargetKeeps ==
  ASSUME JudgeInv, Judge!InvokeTarget PROVE JudgeInv'
<1>1. cfg' = cfg /\ sample' = sample /\ swapped' = swapped /\ heard' = heard /\ first' = first
      /\ judgeSamples' = judgeSamples /\ passed' = passed /\ judgeLog' = judgeLog
      /\ judgePhase' \in {"judge", "done"} /\ judgePhase = "target"
  BY DEF Judge!InvokeTarget
<1>2. ScoresInv' /\ OrdersInv'
  BY <1>1, NothingJudged
<1>3. Marks' = Marks /\ Said' = Said /\ Decisions' = Decisions
  BY <1>1 DEF Marks, Said, Decisions
<1>4. JudgeTypes'
  BY <1>1, <1>3 DEF JudgeInv, JudgeTypes
<1>5. ~passed'
  BY <1>1 DEF JudgeInv, PassedInv
<1> QED BY <1>2, <1>4, <1>5 DEF JudgeInv, PassedInv

LEMMA ClampedScore ==
  ASSUME JudgeTypes, NEW said \in Int
  PROVE  4 * Judge!clampScore(said) \in Marks
<1>1. cfg.scale \in Nat \ {0}
  BY SettingFacts
<1>2. Judge!clampScore(said) \in 1 .. cfg.scale
  BY <1>1 DEF Judge!clampScore
<1> QED BY <1>1, <1>2 DEF Marks

LEMMA JudgeAnswersKeeps ==
  ASSUME JudgeInv, Judge!JudgeAnswers PROVE JudgeInv'
<1>1. JudgeTypes /\ cfg' = cfg /\ judgePhase' = judgePhase /\ passed' = passed
  BY DEF JudgeInv, Judge!JudgeAnswers
<1>2. PICK said \in IF cfg.mode = "score" THEN cfg.says ELSE Judge!Winners :
        LET answers == Append(heard, IF cfg.mode = "score" THEN 4 * Judge!clampScore(said) ELSE said)
        IN  IF Judge!AsksNext(answers)
              THEN heard' = answers /\ UNCHANGED <<judgeLog, judgeSamples, sample, swapped, first>>
              ELSE Judge!Decide(IF cfg.mode = "score" THEN Judge!MedianScore(answers)
                                ELSE Judge!majorityWinner(answers), answers)
  BY DEF Judge!JudgeAnswers
<1> DEFINE mark == IF cfg.mode = "score" THEN 4 * Judge!clampScore(said) ELSE said
           answers == Append(heard, mark)
<1>3. mark \in Said
  <2>1. CASE cfg.mode = "score"
    <3>1. said \in Int
      BY <1>1, <1>2, <2>1, SettingFacts
    <3> QED BY <1>1, <2>1, <3>1, ClampedScore DEF Said
  <2>2. CASE cfg.mode # "score"
    BY <1>2, <2>2 DEF Said
  <2> QED BY <2>1, <2>2
<1> HIDE DEF mark
<1>4. answers \in Seq(Said) /\ answers # <<>>
  <2>1. heard \in Seq(Said)
    BY <1>1 DEF JudgeTypes
  <2>2. answers \in Seq(Said)
    BY <1>3, <2>1
  <2>3. Len(answers) = Len(heard) + 1 /\ Len(heard) \in Nat
    BY <1>3, <2>1
  <2>4. answers # <<>>
    <3>1. Len(answers) # 0
      BY <2>3
    <3> HIDE DEF answers
    <3> QED BY <2>2, <3>1
  <2> QED BY <2>2, <2>4
<1>5. CASE Judge!AsksNext(answers)
  <2>1. heard' = answers /\ UNCHANGED <<judgeLog, judgeSamples, sample, swapped, first>>
    BY <1>2, <1>5 DEF mark
  <2>2. ScoresInv' /\ OrdersInv'
    BY <1>1, <2>1, NothingJudged
  <2>3. Marks' = Marks /\ Said' = Said /\ Decisions' = Decisions
    BY <1>1 DEF Marks, Said, Decisions
  <2> HIDE DEF answers
  <2>4. heard' \in Seq(Said')
    BY <1>4, <2>1, <2>3
  <2>5. JudgeTypes'
    BY <1>1, <2>1, <2>3, <2>4 DEF JudgeTypes
  <2>6. ~passed'
    BY <1>1 DEF JudgeInv, PassedInv, Judge!JudgeAnswers, Judge!Judging
  <2> QED BY <2>2, <2>5, <2>6 DEF JudgeInv, PassedInv
<1>6. CASE ~Judge!AsksNext(answers)
  <2> DEFINE decision == IF cfg.mode = "score" THEN Judge!MedianScore(answers) ELSE Judge!majorityWinner(answers)
  <2>1. Judge!Decide(decision, answers)
    BY <1>2, <1>6 DEF mark
  <2>2. Judge!Judging
    BY DEF Judge!JudgeAnswers
  <2> HIDE DEF answers
  <2>3. decision # None => answers # <<>> /\ decision = IF cfg.mode = "score" THEN Judge!MedianScore(answers)
                                                       ELSE Judge!majorityWinner(answers)
    BY <1>4
  <2> HIDE DEF decision
  <2> QED BY <1>1, <1>4, <2>1, <2>2, <2>3, DecideKeeps
<1> QED BY <1>5, <1>6

LEMMA JudgeIsUnparseableKeeps ==
  ASSUME JudgeInv, Judge!JudgeIsUnparseable PROVE JudgeInv'
<1>1. heard \in Seq(Said)
  BY DEF JudgeInv, JudgeTypes
<1> QED BY <1>1, DecideKeeps DEF Judge!JudgeIsUnparseable

LEMMA JudgeFailsKeeps ==
  ASSUME JudgeInv, Judge!JudgeFails PROVE JudgeInv'
<1>1. cfg' = cfg /\ swapped' = swapped /\ heard' = heard /\ first' = first /\ passed' = passed
      /\ judgeLog' = judgeLog /\ judgePhase' = judgePhase /\ sample' = cfg.samples + 1
      /\ judgeSamples' = [judgeSamples EXCEPT !.err = TRUE] /\ judgePhase = "judge"
  BY DEF Judge!JudgeFails, Judge!Judging
<1>2. JudgeTypes /\ cfg.samples \in Nat
  BY SettingFacts DEF JudgeInv
<1>3. Marks' = Marks /\ Said' = Said /\ Decisions' = Decisions
  BY <1>1 DEF Marks, Said, Decisions
<1>4. judgeSamples' \in Records(Marks, BOOLEAN) /\ judgeSamples'.scores = judgeSamples.scores /\ judgeSamples'.err
  BY <1>1, <1>2 DEF JudgeTypes, Records
<1>5. ScoresInv'
  <2>1. Read' = Read
    BY <1>1 DEF Read
  <2>2. Good' = Good
    BY <1>1, <2>1 DEF Good, Judge!Share, Judge!MedianScore, Judge!Ranked
  <2>3. Fine' = Fine
    BY <1>1, <1>4 DEF Fine, Judge!Share
  <2> QED BY <1>1, <1>4, <2>1, <2>2, <2>3 DEF ScoresInv, JudgeInv
<1>6. OrdersInv'
  BY <1>4 DEF OrdersInv
<1>7. JudgeTypes'
  <2>1. sample' \in Nat \ {0}
    BY <1>1, <1>2
  <2> QED BY <1>1, <1>2, <1>3, <1>4, <2>1 DEF JudgeTypes
<1>8. ~passed'
  BY <1>1 DEF JudgeInv, PassedInv
<1> QED BY <1>5, <1>6, <1>7, <1>8 DEF JudgeInv, PassedInv

LEMMA FinalizeKeeps ==
  ASSUME JudgeInv, Judge!Finalize PROVE JudgeInv'
<1>1. cfg' = cfg /\ sample' = sample /\ swapped' = swapped /\ heard' = heard /\ first' = first
      /\ judgeSamples' = judgeSamples /\ judgeLog' = judgeLog /\ judgePhase' = "done"
      /\ passed' = IF cfg.mode = "score" THEN Judge!ScoreVerdict ELSE Judge!PairwiseVerdict
  BY DEF Judge!Finalize
<1>2. ScoresInv' /\ OrdersInv'
  BY <1>1, NothingJudged
<1>3. Marks' = Marks /\ Said' = Said /\ Decisions' = Decisions
  BY <1>1 DEF Marks, Said, Decisions
<1>4. Judge!ScoreVerdict \in BOOLEAN /\ Judge!PairwiseVerdict \in BOOLEAN
  BY DEF Judge!ScoreVerdict, Judge!PairwiseVerdict
<1>5. passed' \in BOOLEAN
  BY <1>1, <1>4
<1>6. JudgeTypes'
  BY <1>1, <1>3, <1>5 DEF JudgeInv, JudgeTypes
<1>7. passed' => IF cfg.mode = "score" THEN Judge!ScoreVerdict ELSE Judge!PairwiseVerdict
  BY <1>1, <1>4
<1>8. (Judge!ScoreVerdict' <=> Judge!ScoreVerdict) /\ (Judge!PairwiseVerdict' <=> Judge!PairwiseVerdict)
  BY <1>1 DEF Judge!ScoreVerdict, Judge!PairwiseVerdict, Judge!Share, Judge!SamplePasses, Judge!MedianScore, Judge!Ranked,
              Judge!RatesAreFine, Judge!scoreSpread
<1>9. PassedInv'
  BY <1>1, <1>7, <1>8 DEF PassedInv
<1> QED BY <1>2, <1>6, <1>9 DEF JudgeInv

LEMMA JudgeNext == JudgeInv /\ [Judge!Next]_(Judge!vars) => JudgeInv'
<1> SUFFICES ASSUME JudgeInv, [Judge!Next]_(Judge!vars) PROVE JudgeInv'
  OBVIOUS
<1>1. CASE Judge!Next
  BY <1>1, InvokeTargetKeeps, JudgeAnswersKeeps, JudgeIsUnparseableKeeps, JudgeFailsKeeps, FinalizeKeeps
     DEF Judge!Next
<1>2. CASE UNCHANGED Judge!vars
  <2>1. cfg' = cfg /\ sample' = sample /\ swapped' = swapped /\ heard' = heard /\ first' = first
        /\ judgeSamples' = judgeSamples /\ judgeLog' = judgeLog /\ judgePhase' = judgePhase /\ passed' = passed
    BY <1>2 DEF Judge!vars
  <2>2. ScoresInv' /\ OrdersInv'
    BY <2>1, NothingJudged
  <2>3. Marks' = Marks /\ Said' = Said /\ Decisions' = Decisions
    BY <2>1 DEF Marks, Said, Decisions
  <2>4. JudgeTypes'
    BY <2>1, <2>3 DEF JudgeInv, JudgeTypes
  <2>5. (Judge!ScoreVerdict' <=> Judge!ScoreVerdict) /\ (Judge!PairwiseVerdict' <=> Judge!PairwiseVerdict)
    BY <2>1 DEF Judge!ScoreVerdict, Judge!PairwiseVerdict, Judge!Share, Judge!SamplePasses, Judge!MedianScore, Judge!Ranked,
                Judge!RatesAreFine, Judge!scoreSpread
  <2>6. PassedInv'
    BY <2>1, <2>5 DEF JudgeInv, PassedInv
  <2> QED BY <2>2, <2>4, <2>6 DEF JudgeInv
<1> QED BY <1>1, <1>2

\* round3 keeps the order of the scores.
LEMMA SharesGrow ==
  ASSUME JudgeTypes, NEW x \in Nat, NEW y \in Nat, x <= y, Judge!Share(x) >= cfg.minScore
  PROVE  Judge!Share(y) >= cfg.minScore
<1> DEFINE whole == 4 * cfg.scale
<1>1. cfg.scale \in Nat \ {0} /\ cfg.minScore \in Int /\ whole \in Nat \ {0}
  BY SettingFacts
<1> DEFINE low == 1000 * x + 2 * cfg.scale
           high == 1000 * y + 2 * cfg.scale
<1>2. low \in Int /\ high \in Int /\ low <= high
  BY <1>1
<1>3. Judge!Share(x) = low \div whole /\ Judge!Share(y) = high \div whole
  BY DEF Judge!Share
<1> HIDE DEF low, high, whole
<1>4. low >= cfg.minScore * whole
  BY <1>1, <1>2, <1>3, QuotientReaches
<1>5. cfg.minScore * whole \in Int
  BY <1>1
<1>6. high >= cfg.minScore * whole
  BY <1>2, <1>4, <1>5
<1> QED BY <1>1, <1>2, <1>3, <1>6, QuotientReaches

LEMMA MajorityOfScores ==
  ASSUME JudgeInv, cfg.mode = "score", passed
  PROVE  Read # {} /\ 2 * Cardinality(Good) >= Cardinality(Read)
<1> DEFINE scores == judgeSamples.scores
           top == 4 * cfg.scale
<1>1. JudgeTypes /\ Cardinality(Read) = Len(scores) /\ Cardinality(Good) = Cardinality(Fine)
  BY DEF JudgeInv, ScoresInv
<1>2. scores # <<>> /\ Judge!Share(Judge!MedianScore(scores)) >= cfg.minScore
  BY DEF JudgeInv, PassedInv, Judge!ScoreVerdict
<1>3. top \in Nat /\ scores \in Seq(0 .. top)
  BY <1>1, SettingFacts DEF JudgeTypes, Records, Marks
<1>4. Fine = {k \in DOMAIN scores : Judge!Share(scores[k]) >= cfg.minScore}
  BY DEF Fine
<1> HIDE DEF scores, top
<1>5. PICK x \in 0 .. top : /\ Judge!MedianScore(scores) <= x
                            /\ 2 * Cardinality(AtLeast(scores, x)) >= Len(scores)
  BY <1>2, <1>3, MedianHasAHalf
<1>6. Judge!MedianScore(scores) \in 0 .. top
  BY <1>2, <1>3, MedianHasAHalf
<1>7. scores \in Seq(Nat) /\ Len(scores) \in Nat \ {0} /\ \A k \in DOMAIN scores : scores[k] \in Nat
  BY <1>2, <1>3
<1>8. Judge!Share(x) >= cfg.minScore
  BY <1>1, <1>2, <1>3, <1>5, <1>6, SharesGrow
<1>9. AtLeast(scores, x) \subseteq Fine
  <2>1. ASSUME NEW k \in DOMAIN scores, x <= scores[k] PROVE Judge!Share(scores[k]) >= cfg.minScore
    <3>1. x \in Nat /\ scores[k] \in Nat
      BY <1>3, <1>5, <1>7
    <3> QED BY <1>1, <1>8, <2>1, <3>1, SharesGrow
  <2> QED BY <1>4, <2>1 DEF AtLeast
<1>10. Cardinality(AtLeast(scores, x)) <= Cardinality(Fine) /\ Cardinality(Fine) \in Nat
       /\ Cardinality(AtLeast(scores, x)) \in Nat
  <2>1. Fine \in SUBSET DOMAIN scores /\ AtLeast(scores, x) \in SUBSET DOMAIN scores
    BY <1>4 DEF AtLeast
  <2>2. IsFiniteSet(Fine) /\ Cardinality(Fine) \in Nat /\ Cardinality(AtLeast(scores, x)) \in Nat
    BY <1>7, <2>1, Positions
  <2> QED BY <1>9, <2>2, FS_Subset
<1>11. 2 * Cardinality(Good) >= Cardinality(Read)
  BY <1>1, <1>5, <1>7, <1>10
<1>12. Read # {}
  BY <1>1, <1>7, FS_EmptySet
<1> QED BY <1>11, <1>12

LEMMA BlindWins ==
  ASSUME JudgeInv, cfg.mode = "pairwise", passed
  PROVE  LET won == Cardinality(Judge!Settled("1", "2"))
             lost == Cardinality(Judge!Settled("2", "1"))
         IN  /\ ~judgeSamples.err /\ won > 0
             /\ 2000 * won + won + lost >= 2 * cfg.minWinRate * (won + lost)
<1> DEFINE won == judgeSamples.wins
           decisive == judgeSamples.wins + judgeSamples.losses
           rate == cfg.minWinRate
           twice == 2 * decisive
           share == 2000 * won + decisive
<1>1. JudgeTypes /\ judgeSamples.wins \in Nat /\ judgeSamples.losses \in Nat
  BY DEF JudgeInv, JudgeTypes, Records
<1>2. rate \in Nat \ {0}
  BY <1>1, SettingFacts
<1>3. ~judgeSamples.err /\ decisive > 0 /\ share \div twice >= rate
  BY DEF JudgeInv, PassedInv, Judge!PairwiseVerdict
<1>4. judgeSamples.wins = Cardinality(Judge!Settled("1", "2")) /\ judgeSamples.losses = Cardinality(Judge!Settled("2", "1"))
  <2>1. ~judgeSamples.err
    BY <1>3
  <2> QED BY <2>1 DEF JudgeInv, OrdersInv
<1>5. won \in Nat /\ decisive \in Nat \ {0} /\ twice \in Nat \ {0} /\ share \in Int
  BY <1>1, <1>3
<1>6. share >= rate * twice
  <2> HIDE DEF share, twice, rate
  <2> QED BY <1>2, <1>3, <1>5, QuotientReaches
<1>7. rate * twice >= twice /\ rate * twice = 2 * rate * decisive
  <2> HIDE DEF rate, decisive
  <2> QED BY <1>2, <1>5
<1>8. won > 0
  <2>1. twice > decisive
    BY <1>5
  <2>2. share > decisive
    <3>1. rate * twice \in Int
      BY <1>2, <1>5
    <3> HIDE DEF rate, twice, share, decisive
    <3> QED BY <1>5, <1>6, <1>7, <2>1, <3>1
  <2> QED BY <1>5, <2>2
<1>9. 2000 * won + won + judgeSamples.losses >= 2 * cfg.minWinRate * (won + judgeSamples.losses)
  BY <1>1, <1>6, <1>7
<1> QED BY <1>3, <1>4, <1>8, <1>9

LEMMA JudgedPass == JudgeInv => JudgedPassIsEarned
<1> SUFFICES ASSUME JudgeInv, passed
             PROVE  /\ cfg.mode = "pairwise" => Judge!PassIsPositionBlind
                    /\ cfg.mode = "score" => Judge!PassHasAMajority
  BY DEF JudgedPassIsEarned, Judge!PassIsPositionBlind, Judge!PassHasAMajority
<1>1. ASSUME cfg.mode = "pairwise" PROVE Judge!PassIsPositionBlind
  BY <1>1, BlindWins DEF Judge!PassIsPositionBlind, Judge!Cardinality, Cardinality
<1>2. ASSUME cfg.mode = "score" PROVE Judge!PassHasAMajority
  BY <1>2, MajorityOfScores DEF Judge!PassHasAMajority, Judge!Cardinality, Cardinality, Read, Good
<1> QED BY <1>1, <1>2

-----------------------------------------------------------------------------
(***************************************************************************)
(* Assertions: the verdicts on one answer do not contradict each other.      *)
(* First the recursive definitions: what a path leads to and what is inside  *)
(* a value.                                                                  *)
(***************************************************************************)
Leads(at, root, path) ==
  /\ at[0] = root
  /\ \A k \in 1 .. Len(path) :
       at[k] = IF path[k] \in Asserted!Members(at[k - 1]) THEN at[k - 1].of[path[k]] ELSE Asserted!Missing

LEMMA PathStepByStep ==
  ASSUME NEW root, NEW path, Len(path) \in Nat
  PROVE  \E at : Leads(at, root, path) /\ Asserted!resolveAssertionPath(root, path) = at[Len(path)]
<1> DEFINE size == Len(path)
           Further(v, k) == IF path[k] \in Asserted!Members(v) THEN v.of[path[k]] ELSE Asserted!Missing
           Up(f, m) == f = [k \in 0 .. m |-> IF k = 0 THEN root ELSE Further(f[k - 1], k)]
           bad == {m \in 0 .. size : ~ \E f : Up(f, m)}
<1>1. ASSUME bad # {} PROVE FALSE
  <2>1. PICK l \in bad : \A m \in bad : l <= m
    <3>1. bad \in SUBSET Nat
      OBVIOUS
    <3> HIDE DEF bad
    <3> QED BY <1>1, <3>1, LeastNumber
  <2> HIDE DEF Further
  <2>2. CASE l = 0
    <3>1. Up([k \in 0 .. 0 |-> root], 0)
      OBVIOUS
    <3> QED BY <2>1, <2>2, <3>1
  <2>3. CASE l # 0
    <3>1. l \in Nat /\ l - 1 \in 0 .. size
      BY <2>1, <2>3
    <3>2. l - 1 \notin bad
      BY <2>1, <3>1
    <3>3. PICK g : Up(g, l - 1)
      BY <3>1, <3>2
    <3> DEFINE f == [k \in 0 .. l |-> IF k = l THEN Further(g[l - 1], l) ELSE g[k]]
    <3>4. ASSUME NEW k \in 0 .. l PROVE f[k] = IF k = 0 THEN root ELSE Further(f[k - 1], k)
      <4>1. CASE k = l
        <5>1. l - 1 \in 0 .. l /\ f[l - 1] = g[l - 1] /\ f[l] = Further(g[l - 1], l)
          BY <2>3, <3>1
        <5> HIDE DEF f
        <5> QED BY <2>3, <4>1, <5>1
      <4>2. CASE k # l
        <5>1. k \in 0 .. l - 1 /\ f[k] = g[k] /\ (k # 0 => f[k - 1] = g[k - 1])
          BY <3>1, <4>2
        <5>2. g[k] = IF k = 0 THEN root ELSE Further(g[k - 1], k)
          BY <3>3, <5>1
        <5> HIDE DEF f
        <5> QED BY <5>1, <5>2
      <4> QED BY <4>1, <4>2
    <3>5. Up(f, l)
      <4>1. f = [k \in 0 .. l |-> f[k]]
        OBVIOUS
      <4> HIDE DEF f
      <4> QED BY <3>4, <4>1
    <3> QED BY <2>1, <3>5
  <2> QED BY <2>2, <2>3
<1>2. PICK f : Up(f, size)
  <2>1. size \in 0 .. size /\ size \notin bad
    BY <1>1
  <2> QED BY <2>1
<1>3. PICK at : at = CHOOSE g : Up(g, size)
  OBVIOUS
<1>4. Up(at, size)
  <2> HIDE DEF Up
  <2> QED BY <1>2, <1>3
<1>5. Asserted!resolveAssertionPath(root, path) = at[size]
  BY <1>3 DEF Asserted!resolveAssertionPath
<1>6. Leads(at, root, path)
  <2> HIDE DEF Further
  <2>1. at[0] = root /\ \A k \in 1 .. size : at[k] = Further(at[k - 1], k)
    BY <1>4
  <2> QED BY <2>1 DEF Further, Leads
<1> QED BY <1>5, <1>6

\* A path into the tool calls of an answer without any leads nowhere.
LEMMA NoCallNoPath ==
  ASSUME NEW resp, resp.calls = <<>>, NEW path, Len(path) \in Nat, Asserted!ToACall(path)
  PROVE  Asserted!resolveAssertionPath(Asserted!buildAssertionView(resp), path) = Asserted!Missing
<1> DEFINE root == Asserted!buildAssertionView(resp)
<1>1. PICK at : Leads(at, root, path) /\ Asserted!resolveAssertionPath(root, path) = at[Len(path)]
  BY PathStepByStep
<1>2. 1 \in 1 .. Len(path) /\ 2 \in 1 .. Len(path) /\ 3 \in 1 .. Len(path) /\ Len(path) >= 3
      /\ path[1] = "response" /\ path[2] = "tool_calls"
  BY DEF Asserted!ToACall
<1>3. at[0] = root
  BY <1>1 DEF Leads
<1>4. at[1].t = "object" /\ "tool_calls" \in DOMAIN at[1].of /\ at[1].of["tool_calls"] = Asserted!Null
  <2>1. "response" \in Asserted!Members(root) /\ root.of["response"].t = "object"
        /\ "tool_calls" \in DOMAIN root.of["response"].of /\ root.of["response"].of["tool_calls"] = Asserted!Null
    BY DEF Asserted!buildAssertionView, Asserted!Object, Asserted!Value, Asserted!Members
  <2>2. at[1] = root.of["response"]
    BY <1>1, <1>2, <1>3, <2>1 DEF Leads
  <2> QED BY <2>1, <2>2
<1>5. at[2] = Asserted!Null
  BY <1>1, <1>2, <1>4 DEF Leads, Asserted!Members
<1>6. at[3] = Asserted!Missing
  BY <1>1, <1>2, <1>5 DEF Leads, Asserted!Members, Asserted!Null, Asserted!Value
<1> DEFINE bad == {k \in 3 .. Len(path) : at[k] # Asserted!Missing}
<1>7. ASSUME bad # {} PROVE FALSE
  <2>1. PICK l \in bad : \A m \in bad : l <= m
    <3>1. bad \in SUBSET Nat
      OBVIOUS
    <3> HIDE DEF bad
    <3> QED BY <1>7, <3>1, LeastNumber
  <2>2. l \in 4 .. Len(path) /\ l \in 1 .. Len(path) /\ l - 1 \in 3 .. Len(path) /\ l - 1 \notin bad
    BY <1>6, <2>1
  <2>3. at[l - 1] = Asserted!Missing
    BY <2>2
  <2>4. Asserted!Members(at[l - 1]) = {}
    BY <2>3 DEF Asserted!Members, Asserted!Missing, Asserted!Value
  <2>5. at[l] = Asserted!Missing
    BY <1>1, <2>2, <2>4 DEF Leads
  <2> QED BY <2>1, <2>5
<1> QED BY <1>1, <1>2, <1>7


LEMMA PartsLevelByLevel ==
  ASSUME NEW values
  PROVE  \E reached : /\ reached[0] = values
                      /\ \A k \in 1 .. 6 : reached[k] = reached[k - 1] \cup UNION {Asserted!Parts(v) : v \in reached[k - 1]}
                      /\ Asserted!Within(values, Asserted!Parts) = reached[6]
<1> DEFINE More(level) == level \cup UNION {Asserted!Parts(v) : v \in level}
           Up(f) == f = [k \in 0 .. 6 |-> IF k = 0 THEN values ELSE More(f[k - 1])]
           l1 == More(values)
           l2 == More(l1)
           l3 == More(l2)
           l4 == More(l3)
           l5 == More(l4)
           l6 == More(l5)
           f == [k \in 0 .. 6 |-> IF k = 0 THEN values ELSE IF k = 1 THEN l1 ELSE IF k = 2 THEN l2
                                  ELSE IF k = 3 THEN l3 ELSE IF k = 4 THEN l4 ELSE IF k = 5 THEN l5 ELSE l6]
<1>1. Up(f)
  <2> HIDE DEF More
  <2>1. ASSUME NEW k \in 0 .. 6 PROVE f[k] = IF k = 0 THEN values ELSE More(f[k - 1])
    <3>1. k = 0 \/ k = 1 \/ k = 2 \/ k = 3 \/ k = 4 \/ k = 5 \/ k = 6
      OBVIOUS
    <3> QED BY <3>1
  <2>2. f = [k \in 0 .. 6 |-> f[k]]
    OBVIOUS
  <2> HIDE DEF f
  <2> QED BY <2>1, <2>2
<1> HIDE DEF f, l1, l2, l3, l4, l5, l6
<1>2. PICK reached : reached = CHOOSE g : Up(g)
  OBVIOUS
<1>3. Up(reached)
  <2> HIDE DEF Up
  <2> QED BY <1>1, <1>2
<1>4. Asserted!Within(values, Asserted!Parts) = reached[6]
  BY <1>2 DEF Asserted!Within, Asserted!MaxDepth
<1>5. reached[0] = values /\ \A k \in 1 .. 6 : reached[k] = More(reached[k - 1])
  <2> HIDE DEF More
  <2> QED BY <1>3
<1> QED BY <1>4, <1>5

LEMMA ChecksLevelByLevel ==
  ASSUME NEW checks
  PROVE  \E reached :
           /\ reached[0] = checks
           /\ \A k \in 1 .. 6 :
                reached[k] = reached[k - 1] \cup UNION {Asserted!FurtherChecks(c) : c \in reached[k - 1]}
           /\ Asserted!Within(checks, Asserted!FurtherChecks) = reached[6]
<1> DEFINE More(level) == level \cup UNION {Asserted!FurtherChecks(c) : c \in level}
           Up(f) == f = [k \in 0 .. 6 |-> IF k = 0 THEN checks ELSE More(f[k - 1])]
           l1 == More(checks)
           l2 == More(l1)
           l3 == More(l2)
           l4 == More(l3)
           l5 == More(l4)
           l6 == More(l5)
           f == [k \in 0 .. 6 |-> IF k = 0 THEN checks ELSE IF k = 1 THEN l1 ELSE IF k = 2 THEN l2
                                  ELSE IF k = 3 THEN l3 ELSE IF k = 4 THEN l4 ELSE IF k = 5 THEN l5 ELSE l6]
<1>1. Up(f)
  <2> HIDE DEF More
  <2>1. ASSUME NEW k \in 0 .. 6 PROVE f[k] = IF k = 0 THEN checks ELSE More(f[k - 1])
    <3>1. k = 0 \/ k = 1 \/ k = 2 \/ k = 3 \/ k = 4 \/ k = 5 \/ k = 6
      OBVIOUS
    <3> QED BY <3>1
  <2>2. f = [k \in 0 .. 6 |-> f[k]]
    OBVIOUS
  <2> HIDE DEF f
  <2> QED BY <2>1, <2>2
<1> HIDE DEF f, l1, l2, l3, l4, l5, l6
<1>2. PICK reached : reached = CHOOSE g : Up(g)
  OBVIOUS
<1>3. Up(reached)
  <2> HIDE DEF Up
  <2> QED BY <1>1, <1>2
<1>4. Asserted!Within(checks, Asserted!FurtherChecks) = reached[6]
  BY <1>2 DEF Asserted!Within, Asserted!MaxDepth
<1>5. reached[0] = checks /\ \A k \in 1 .. 6 : reached[k] = More(reached[k - 1])
  <2> HIDE DEF More
  <2> QED BY <1>3
<1> QED BY <1>4, <1>5

\* A value shows its own words.
LEMMA OwnWords ==
  ASSUME NEW v PROVE v.has \subseteq Asserted!Words(v)
<1>1. PICK reached : /\ reached[0] = {v}
                     /\ \A k \in 1 .. 6 : reached[k] = reached[k - 1] \cup UNION {Asserted!Parts(u) : u \in reached[k - 1]}
                     /\ Asserted!Within({v}, Asserted!Parts) = reached[6]
  BY PartsLevelByLevel
<1>2. \A k \in 1 .. 6 : reached[k - 1] \subseteq reached[k]
  BY <1>1
<1>3. reached[0] \subseteq reached[6]
  <2>1. /\ reached[0] \subseteq reached[1] /\ reached[1] \subseteq reached[2] /\ reached[2] \subseteq reached[3]
        /\ reached[3] \subseteq reached[4] /\ reached[4] \subseteq reached[5] /\ reached[5] \subseteq reached[6]
    BY <1>2
  <2> QED BY <2>1
<1>4. v \in Asserted!Within({v}, Asserted!Parts)
  BY <1>1, <1>3
<1> QED BY <1>4 DEF Asserted!Words

\* A schema accepts what every schema accepts that only adds keywords to it.
LEMMA NarrowerAcceptsLess ==
  ASSUME NEW v, NEW schema, NEW other, Asserted!Narrows(schema, other), Asserted!validateJSONSchema(v, schema)
  PROVE  Asserted!validateJSONSchema(v, other)
<1>1. PICK strict :
        /\ strict[0] = {<<v, schema>>}
        /\ \A k \in 1 .. 6 :
             strict[k] = strict[k - 1] \cup UNION {Asserted!FurtherChecks(c) : c \in strict[k - 1]}
        /\ Asserted!Within({<<v, schema>>}, Asserted!FurtherChecks) = strict[6]
  BY ChecksLevelByLevel
<1>2. PICK loose :
        /\ loose[0] = {<<v, other>>}
        /\ \A k \in 1 .. 6 :
             loose[k] = loose[k - 1] \cup UNION {Asserted!FurtherChecks(c) : c \in loose[k - 1]}
        /\ Asserted!Within({<<v, other>>}, Asserted!FurtherChecks) = loose[6]
  BY ChecksLevelByLevel
<1>3. /\ \A keyword : Asserted!Given(other, keyword) =>
                        Asserted!Given(schema, keyword) /\ schema[keyword] = other[keyword]
      /\ ~Asserted!Given(other, "closed")
  BY DEF Asserted!Narrows, Asserted!Given
<1>4. Asserted!FurtherChecks(<<v, other>>) \subseteq Asserted!FurtherChecks(<<v, schema>>)
  BY <1>3 DEF Asserted!FurtherChecks
<1> DEFINE Covered(k) == loose[k] \subseteq strict[k] \cup {<<v, other>>}
<1>5. ASSUME NEW k \in 1 .. 6, Covered(k - 1), <<v, schema>> \in strict[k - 1]
      PROVE  Covered(k) /\ <<v, schema>> \in strict[k]
  <2>1. loose[k] = loose[k - 1] \cup UNION {Asserted!FurtherChecks(c) : c \in loose[k - 1]}
    BY <1>2
  <2>2. strict[k] = strict[k - 1] \cup UNION {Asserted!FurtherChecks(c) : c \in strict[k - 1]}
    BY <1>1
  <2>3. ASSUME NEW c \in loose[k - 1] PROVE Asserted!FurtherChecks(c) \subseteq strict[k]
    <3>1. CASE c \in strict[k - 1]
      BY <2>2, <3>1
    <3>2. CASE c = <<v, other>>
      <4>1. Asserted!FurtherChecks(<<v, schema>>) \subseteq strict[k]
        BY <1>5, <2>2
      <4> QED BY <1>4, <3>2, <4>1
    <3> QED BY <1>5, <2>3, <3>1, <3>2
  <2> QED BY <1>5, <2>1, <2>2, <2>3
<1>6. Covered(0) /\ <<v, schema>> \in strict[0]
  BY <1>1, <1>2
<1> HIDE DEF Covered
<1>7. Covered(1) /\ <<v, schema>> \in strict[1]
  BY <1>5, <1>6
<1>8. Covered(2) /\ <<v, schema>> \in strict[2]
  BY <1>5, <1>7
<1>9. Covered(3) /\ <<v, schema>> \in strict[3]
  BY <1>5, <1>8
<1>10. Covered(4) /\ <<v, schema>> \in strict[4]
  BY <1>5, <1>9
<1>11. Covered(5) /\ <<v, schema>> \in strict[5]
  BY <1>5, <1>10
<1>12. Covered(6) /\ <<v, schema>> \in strict[6]
  BY <1>5, <1>11
<1>13. \A c \in strict[6] : Asserted!ValueFits(c[1], c[2])
  BY <1>1 DEF Asserted!validateJSONSchema
<1>14. Asserted!ValueFits(v, schema)
  BY <1>12, <1>13
<1>15. Asserted!ValueFits(v, other)
  <2>1. Asserted!BoundsFit(v, other)
    BY <1>3, <1>14 DEF Asserted!ValueFits, Asserted!BoundsFit, Asserted!Given
  <2>2. v.t = "object" => Asserted!MembersFit(v, other)
    BY <1>3, <1>14 DEF Asserted!ValueFits, Asserted!MembersFit, Asserted!Given
  <2> QED BY <1>3, <1>14, <2>1, <2>2 DEF Asserted!ValueFits, Asserted!Given
<1>16. \A c \in loose[6] : Asserted!ValueFits(c[1], c[2])
  BY <1>12, <1>13, <1>15 DEF Covered
<1> QED BY <1>2, <1>16 DEF Asserted!validateJSONSchema

-----------------------------------------------------------------------------
\* An answer and the assertions about it, of the types of the Go structs.
AnAnswer(resp) == resp.calls \in Seq(Asserted!Range(resp.calls)) /\ resp.ttft \in Int /\ resp.duration \in Int
Typed(x) ==
  /\ x.type \in {"stream_ttft_ms", "stream_duration_ms"} => x.int \in Int
  /\ x.type = "tool_call_arguments_schema" => Len(x.path) \in Nat

\* What the verdict on an assertion of each type is.
LEMMA HoldsOfType ==
  ASSUME NEW x, NEW resp
  PROVE  LET at == Asserted!At(x, resp)
         IN  /\ x.type = "contains" => (Asserted!Holds(x, resp) <=> Asserted!HasWord(x, resp))
             /\ x.type = "not_contains" => (Asserted!Holds(x, resp) <=> ~Asserted!HasWord(x, resp))
             /\ x.type = "regex" => (Asserted!Holds(x, resp) <=> Asserted!HasWord(x, resp))
             /\ x.type = "json_path" =>
                  (Asserted!Holds(x, resp) <=>
                     at # Asserted!Missing /\ (x.word = "" \/ Asserted!IsWord(at, x.word)))
             /\ x.type = "json_schema" =>
                  (Asserted!Holds(x, resp) <=> at # Asserted!Missing /\ Asserted!validateJSONSchema(at, x.schema))
             /\ x.type = "stream_ttft_ms" => (Asserted!Holds(x, resp) <=> Asserted!StreamWithin(resp.ttft, x.int))
             /\ x.type = "stream_duration_ms" =>
                  (Asserted!Holds(x, resp) <=> Asserted!StreamWithin(resp.duration, x.int))
             /\ x.type = "tool_call_count" => (Asserted!Holds(x, resp) <=> Len(resp.calls) = x.int)
             /\ x.type = "tool_call_name" => (Asserted!Holds(x, resp) <=> Asserted!Called(x.word, resp))
             /\ x.type = "stream_tool_call_name" =>
                  (Asserted!Holds(x, resp) <=> resp.chunks # 0 /\ Asserted!Called(x.word, resp))
             /\ x.type = "tool_call_order" => (Asserted!Holds(x, resp) <=> Asserted!OrderMatches(x, resp))
             /\ x.type = "tool_call_arguments_schema" =>
                  (Asserted!Holds(x, resp) <=> Asserted!ArgumentsFit(x, resp))
  BY DEF Asserted!Holds, Asserted!HasWord

\* The order of the calls is their names and their number.
LEMMA OrderFacts ==
  ASSUME NEW x, NEW resp, AnAnswer(resp), Asserted!OrderMatches(x, resp)
  PROVE  /\ Len(x.names) = Len(resp.calls)
         /\ \A name \in Asserted!Range(x.names) : Asserted!Called(name, resp)
<1>1. x.names = [j \in DOMAIN resp.calls |-> resp.calls[j].name]
  BY DEF Asserted!OrderMatches
<1>2. DOMAIN resp.calls = 1 .. Len(resp.calls) /\ Len(resp.calls) \in Nat
  BY DEF AnAnswer
<1>3. Len(x.names) = Len(resp.calls)
  BY <1>1, <1>2
<1>4. \A j \in DOMAIN x.names : j \in DOMAIN resp.calls /\ x.names[j] = resp.calls[j].name
  BY <1>1
<1>5. \A name \in Asserted!Range(x.names) : \E j \in DOMAIN x.names : name = x.names[j]
  BY DEF Asserted!Range
<1> QED BY <1>3, <1>4, <1>5 DEF Asserted!Called

LEMMA ImpliedHolds ==
  ASSUME NEW x, NEW y, NEW resp, AnAnswer(resp), Typed(x), Typed(y),
         Asserted!Implies(x, y), Asserted!Holds(x, resp)
  PROVE  Asserted!Holds(y, resp)
<1>1. CASE x.type = "stream_tool_call_name" /\ y.type = "tool_call_name" /\ x.word = y.word
  BY <1>1, HoldsOfType
<1>2. CASE x.type = "tool_call_order" /\ y.type = "tool_call_name" /\ y.word \in Asserted!Range(x.names)
  BY <1>2, HoldsOfType, OrderFacts
<1>3. CASE x.type = "tool_call_order" /\ y.type = "tool_call_count" /\ y.int = Len(x.names)
  BY <1>3, HoldsOfType, OrderFacts
<1>4. CASE x.type = "json_path" /\ y.type \in {"contains", "regex"} /\ x.path = y.path /\ x.word = y.word /\ x.word # ""
  <2>1. Asserted!At(x, resp) = Asserted!At(y, resp)
    BY <1>4 DEF Asserted!At
  <2>2. Asserted!At(x, resp) # Asserted!Missing /\ Asserted!IsWord(Asserted!At(x, resp), x.word)
    BY <1>4, HoldsOfType
  <2>3. y.word \in Asserted!Words(Asserted!At(y, resp))
    BY <1>4, <2>1, <2>2, OwnWords DEF Asserted!IsWord
  <2>4. Asserted!HasWord(y, resp)
    BY <2>1, <2>2, <2>3 DEF Asserted!HasWord
  <2> QED BY <1>4, <2>4, HoldsOfType
<1>5. CASE x.type = "json_schema" /\ y.type = "json_schema" /\ x.path = y.path /\ Asserted!Narrows(x.schema, y.schema)
  <2>1. Asserted!At(x, resp) = Asserted!At(y, resp)
    BY <1>5 DEF Asserted!At
  <2>2. Asserted!At(x, resp) # Asserted!Missing /\ Asserted!validateJSONSchema(Asserted!At(x, resp), x.schema)
    BY <1>5, HoldsOfType
  <2>3. Asserted!validateJSONSchema(Asserted!At(x, resp), y.schema)
    BY <1>5, <2>2, NarrowerAcceptsLess
  <2> QED BY <1>5, <2>1, <2>2, <2>3, HoldsOfType
<1>6. CASE x.type \in {"stream_ttft_ms", "stream_duration_ms"} /\ y.type = x.type /\ x.int <= y.int
  <2>1. x.int \in Int /\ y.int \in Int /\ resp.ttft \in Int /\ resp.duration \in Int
    BY <1>6 DEF Typed, AnAnswer
  <2>2. \A measured \in Int : Asserted!StreamWithin(measured, x.int) => Asserted!StreamWithin(measured, y.int)
    BY <1>6, <2>1 DEF Asserted!StreamWithin
  <2> QED BY <1>6, <2>1, <2>2, HoldsOfType
<1> QED BY <1>1, <1>2, <1>3, <1>4, <1>5, <1>6 DEF Asserted!Implies

LEMMA ExcludedFails ==
  ASSUME NEW x, NEW y, NEW resp, AnAnswer(resp), Typed(x), Typed(y),
         Asserted!Excludes(x, y), Asserted!Holds(x, resp)
  PROVE  ~Asserted!Holds(y, resp)
<1>1. CASE x.type = "contains" /\ y.type = "not_contains" /\ x.path = y.path /\ x.word = y.word
  <2>1. Asserted!HasWord(x, resp) <=> Asserted!HasWord(y, resp)
    BY <1>1 DEF Asserted!HasWord, Asserted!At
  <2> QED BY <1>1, <2>1, HoldsOfType
<1>2. CASE x.type = "tool_call_order" /\ y.type = "tool_call_count" /\ y.int # Len(x.names)
  BY <1>2, HoldsOfType, OrderFacts
<1>3. CASE x.type = "tool_call_arguments_schema" /\ y.type = "tool_call_count" /\ y.int = 0 /\ Asserted!ToACall(x.path)
  <2> SUFFICES ASSUME Asserted!Holds(y, resp) PROVE FALSE
    OBVIOUS
  <2>1. Len(resp.calls) = 0
    BY <1>3, HoldsOfType
  <2>2. resp.calls = <<>>
    BY <2>1 DEF AnAnswer
  <2>3. Asserted!At(x, resp) # Asserted!Missing
    <3>1. Asserted!ArgumentsFit(x, resp)
      BY <1>3, HoldsOfType
    <3> QED BY <3>1 DEF Asserted!ArgumentsFit
  <2>4. Len(x.path) \in Nat
    BY <1>3 DEF Typed
  <2> QED BY <1>3, <2>2, <2>3, <2>4, NoCallNoPath DEF Asserted!At
<1> QED BY <1>1, <1>2, <1>3 DEF Asserted!Excludes

-----------------------------------------------------------------------------
\* The findings are those of the assertions so far.
Asked == Asserted!scenarioAssertions(scenario)
AssertInv ==
  /\ scenario \in Scenarios /\ answer \in Answers
  /\ next \in Nat \ {0}
  /\ unmet = {k \in 1 .. next - 1 : ~Asserted!Holds(Asked[k], answer)}

LEMMA PhrasesAreAssertions ==
  ASSUME NEW words, words \in Seq(Asserted!Range(words)), NEW type
  PROVE  Asserted!Phrase(type, words) \in
           Seq([type : {type}, path : {<<"response", "text">>}, word : Asserted!Range(words)])
<1>1. DOMAIN words = 1 .. Len(words) /\ Len(words) \in Nat
  OBVIOUS
<1>2. \A j \in DOMAIN words : words[j] \in Asserted!Range(words)
  BY DEF Asserted!Range
<1> QED BY <1>1, <1>2 DEF Asserted!Phrase

LEMMA LargerList ==
  ASSUME NEW S, NEW T, S \subseteq T, NEW list \in Seq(S) PROVE list \in Seq(T)
<1>1. Len(list) \in Nat /\ \A j \in 1 .. Len(list) : list[j] \in T
  OBVIOUS
<1>2. list = [j \in 1 .. Len(list) |-> list[j]]
  OBVIOUS
<1> QED BY <1>1, <1>2

LEMMA AskedIsAList ==
  ASSUME scenario \in Scenarios
  PROVE  /\ Len(Asked) \in Nat /\ DOMAIN Asked = 1 .. Len(Asked)
         /\ \A k \in DOMAIN Asked : Typed(Asked[k])
<1> DEFINE Own == Asserted!Range(scenario.assertions)
           first_ == Asserted!Phrase("contains", scenario.expected)
           last_ == Asserted!Phrase("not_contains", scenario.forbidden)
           Good_ == {x \in Own : Typed(x)}
                      \cup [type : {"contains"}, path : {<<"response", "text">>}, word : Asserted!Range(scenario.expected)]
                      \cup [type : {"not_contains"}, path : {<<"response", "text">>}, word : Asserted!Range(scenario.forbidden)]
<1>1. /\ scenario.assertions \in Seq(Own)
      /\ scenario.expected \in Seq(Asserted!Range(scenario.expected))
      /\ scenario.forbidden \in Seq(Asserted!Range(scenario.forbidden))
      /\ \A x \in Own : Typed(x)
  <2>1. \A x : x.path \in Seq(Asserted!Range(x.path)) => Len(x.path) \in Nat
    OBVIOUS
  <2> QED BY <2>1, EnginesAssumption DEF Asserted!AssertionsAssumption, Typed
<1>2. first_ \in Seq([type : {"contains"}, path : {<<"response", "text">>}, word : Asserted!Range(scenario.expected)])
  BY <1>1, PhrasesAreAssertions
<1>3. last_ \in Seq([type : {"not_contains"}, path : {<<"response", "text">>}, word : Asserted!Range(scenario.forbidden)])
  BY <1>1, PhrasesAreAssertions
<1>4. Asked = scenario.assertions \o first_ \o last_
  BY DEF Asked, Asserted!scenarioAssertions
<1> HIDE DEF first_, last_
<1>5. \A x \in Good_ : Typed(x)
  BY DEF Typed
<1>6. scenario.assertions \in Seq(Good_) /\ first_ \in Seq(Good_) /\ last_ \in Seq(Good_)
  <2>1. Own \subseteq Good_
    BY <1>1
  <2>2. /\ [type : {"contains"}, path : {<<"response", "text">>}, word : Asserted!Range(scenario.expected)] \subseteq Good_
        /\ [type : {"not_contains"}, path : {<<"response", "text">>}, word : Asserted!Range(scenario.forbidden)] \subseteq Good_
    OBVIOUS
  <2> HIDE DEF Good_, Own
  <2> QED BY <1>1, <1>2, <1>3, <2>1, <2>2, LargerList
<1> HIDE DEF Good_
<1>7. Asked \in Seq(Good_)
  BY <1>4, <1>6
<1> QED BY <1>5, <1>7

LEMMA AssertStarts == Asserted!Init => AssertInv
  BY DEF Asserted!Init, AssertInv

LEMMA AssertNext == AssertInv /\ [Asserted!Next]_(Asserted!vars) => AssertInv'
<1> SUFFICES ASSUME AssertInv, [Asserted!Next]_(Asserted!vars) PROVE AssertInv'
  OBVIOUS
<1>1. CASE Asserted!Evaluate
  <2>1. /\ next' = next + 1 /\ scenario' = scenario /\ answer' = answer
        /\ unmet' = IF Asserted!Holds(Asked[next], answer) THEN unmet ELSE unmet \cup {next}
    BY <1>1 DEF Asserted!Evaluate, Asked
  <2>2. Asked' = Asked
    BY <2>1 DEF Asked, Asserted!scenarioAssertions, Asserted!Phrase
  <2>3. 1 .. next' - 1 = (1 .. next - 1) \cup {next} /\ next' \in Nat \ {0}
    BY <2>1 DEF AssertInv
  <2>4. \A k : Asserted!Holds(Asked'[k], answer') <=> Asserted!Holds(Asked[k], answer)
    BY <2>1, <2>2
  <2>5. unmet' = {k \in 1 .. next' - 1 : ~Asserted!Holds(Asked[k], answer)}
    BY <2>1, <2>3 DEF AssertInv
  <2> QED BY <2>1, <2>2, <2>3, <2>5 DEF AssertInv
<1>2. CASE UNCHANGED Asserted!vars
  <2>1. next' = next /\ scenario' = scenario /\ answer' = answer /\ unmet' = unmet
    BY <1>2 DEF Asserted!vars
  <2>2. Asked' = Asked
    BY <2>1 DEF Asked, Asserted!scenarioAssertions, Asserted!Phrase
  <2> QED BY <2>1, <2>2 DEF AssertInv
<1> QED BY <1>1, <1>2 DEF Asserted!Next

LEMMA AgreementOfVerdicts == AssertInv => AssertionsAgree
<1> SUFFICES ASSUME AssertInv, next > Len(Asked)
             PROVE  \A j, k \in DOMAIN Asked :
                      /\ Asserted!Implies(Asked[j], Asked[k]) => (j \in unmet \/ k \notin unmet)
                      /\ Asserted!Excludes(Asked[j], Asked[k]) => j \in unmet \/ k \in unmet
                      /\ Asked[j].type = "contains" /\ Asked[k].type = "not_contains"
                           /\ Asked[j].path = Asked[k].path /\ Asked[j].word = Asked[k].word
                           => (j \in unmet) # (k \in unmet)
  BY DEF AssertionsAgree, Asserted!AssertionsAgree, Asked
<1>1. AnAnswer(answer) /\ \A k \in DOMAIN Asked : Typed(Asked[k])
  BY AskedIsAList, EnginesAssumption DEF AssertInv, Asserted!AssertionsAssumption, AnAnswer
<1>2. \A k \in DOMAIN Asked : k \in unmet <=> ~Asserted!Holds(Asked[k], answer)
  BY AskedIsAList DEF AssertInv
<1> TAKE j, k \in DOMAIN Asked
<1>3. Asserted!Implies(Asked[j], Asked[k]) => (j \in unmet \/ k \notin unmet)
  BY <1>1, <1>2, ImpliedHolds
<1>4. Asserted!Excludes(Asked[j], Asked[k]) => j \in unmet \/ k \in unmet
  BY <1>1, <1>2, ExcludedFails
<1>5. ASSUME Asked[j].type = "contains", Asked[k].type = "not_contains",
             Asked[j].path = Asked[k].path, Asked[j].word = Asked[k].word
      PROVE  (j \in unmet) # (k \in unmet)
  <2>1. Asserted!HasWord(Asked[j], answer) <=> Asserted!HasWord(Asked[k], answer)
    BY <1>5 DEF Asserted!HasWord, Asserted!At
  <2>2. (Asserted!Holds(Asked[j], answer) <=> Asserted!HasWord(Asked[j], answer))
        /\ (Asserted!Holds(Asked[k], answer) <=> ~Asserted!HasWord(Asked[k], answer))
    BY <1>5, HoldsOfType
  <2>3. (j \in unmet) <=> ~(k \in unmet)
    BY <1>2, <2>1, <2>2
  <2> QED BY <2>3
<1> QED BY <1>3, <1>4, <1>5

-----------------------------------------------------------------------------
(***************************************************************************)
(* The engines together: a behaviour is about one of them.                  *)
(***************************************************************************)
LEMMA EnginesStart ==
  EnginesInit => Init /\ Shadow!Init /\ Memory!Init
BY DEF EnginesInit

LEMMA EnginesStep ==
  [EnginesNext]_all =>
    /\ [Next]_vars /\ [Shadow!Next]_(Shadow!vars)
    /\ Memory!Next \/ UNCHANGED memoryVars
<1> SUFFICES ASSUME [EnginesNext]_all
             PROVE  /\ [Next]_vars /\ [Shadow!Next]_(Shadow!vars)
                    /\ Memory!Next \/ UNCHANGED memoryVars
  OBVIOUS
<1>1. UNCHANGED shadowVars => UNCHANGED Shadow!vars
  BY DEF shadowVars, Shadow!vars
<1>2. CASE UNCHANGED all
  BY <1>1, <1>2 DEF all, otherVars
<1>3. CASE EnginesNext
  BY <1>1, <1>3 DEF EnginesNext, otherVars
<1> QED BY <1>2, <1>3

\* For any users, requests, answers, latencies and budgets: every request of
\* every user is sampled once, and the verdict is that of the three budgets.
THEOREM EnginesVerdictIsOfAllSamples == EnginesSpec => []VerdictIsOfAllSamples
<1>1. EnginesInit => LoadInv
  BY EnginesStart, LoadInit
<1>2. LoadInv /\ [EnginesNext]_all => LoadInv'
  BY EnginesStep, LoadNext
<1>3. LoadInv => VerdictIsOfAllSamples
  BY LoadInvImplies
<1> QED BY <1>1, <1>2, <1>3, PTL DEF EnginesSpec

\* For any files, scenarios and expectations, and an agent that writes as often
\* as it likes: a scenario passes only when what its agent changed is allowed
\* and expected, and is charged only with what was written since it began.
THEOREM EnginesMutationsAreEarned == EnginesSpec => []MutationsAreEarned
<1>1. EnginesInit => ShadowInv
  BY EnginesStart, ShadowStarts
<1>2. ShadowInv /\ [EnginesNext]_all => ShadowInv'
  BY EnginesStep, ShadowNext
<1>3. ShadowInv => MutationsAreEarned
  BY DEF ShadowInv, MutationsAreEarned
<1> QED BY <1>1, <1>2, <1>3, PTL DEF EnginesSpec

\* For any replay, any operations and answers of the agent: a session has a
\* finding exactly when the whole history blames it.
THEOREM EnginesReplaysAreReported == EnginesSpec => []ReplaysAreReported
<1>1. EnginesInit => MemoryInv
  BY EnginesStart, MemoryStarts
<1>2. MemoryInv /\ [EnginesNext]_all => MemoryInv'
  BY EnginesStep, MemoryInvoke, MemoryRests
<1>3. MemoryInv => ReplaysAreReported
  BY DEF MemoryInv, BlameInv, ReplaysAreReported, Memory!ReplaysAreReported
<1> QED BY <1>1, <1>2, <1>3, PTL DEF EnginesSpec

LEMMA EnginesTrace ==
  /\ EnginesInit => Trace!Init
  /\ [EnginesNext]_all => [Trace!Next]_(Trace!vars)
<1>1. UNCHANGED traceVars => UNCHANGED Trace!vars
  BY DEF traceVars, Trace!vars
<1>2. UNCHANGED all => UNCHANGED Trace!vars
  BY <1>1 DEF all, otherVars
<1> QED BY <1>1, <1>2 DEF EnginesInit, EnginesNext, otherVars

\* For any policy, calls, changes, approvals and phrases and traces of any
\* length: no act outweighs another one, and evidence only supports claims.
THEOREM EnginesMoreTraceMoreEvidence == EnginesSpec => MoreTraceMoreEvidence
<1>1. EnginesInit => TraceInv
  BY EnginesTrace, TraceStarts
<1>2. TraceInv /\ [EnginesNext]_all => TraceInv'
  BY EnginesTrace, TraceKeeps
<1>3. TraceInv /\ [EnginesNext]_all =>
        [ /\ Trace!Act => /\ Trace!evaluateReleasePolicyRules \subseteq Trace!evaluateReleasePolicyRules'
                          /\ Trace!provenanceContextFindings \subseteq Trace!provenanceContextFindings'
          /\ approvals' # approvals => Trace!evaluateReleasePolicyRules' \subseteq Trace!evaluateReleasePolicyRules
        ]_(Trace!vars)
  <2> SUFFICES ASSUME TraceInv, [EnginesNext]_all
               PROVE  /\ Trace!Act => /\ Trace!evaluateReleasePolicyRules \subseteq Trace!evaluateReleasePolicyRules'
                                      /\ Trace!provenanceContextFindings \subseteq Trace!provenanceContextFindings'
                      /\ approvals' # approvals =>
                           Trace!evaluateReleasePolicyRules' \subseteq Trace!evaluateReleasePolicyRules
    OBVIOUS
  <2>1. [Trace!Next]_(Trace!vars)
    BY EnginesTrace
  <2>2. ASSUME Trace!Act
        PROVE  /\ Trace!evaluateReleasePolicyRules \subseteq Trace!evaluateReleasePolicyRules'
               /\ Trace!provenanceContextFindings \subseteq Trace!provenanceContextFindings'
    BY <2>1, <2>2, TraceGrows, PolicyFindingsGrow, ProvenanceFindingsGrow DEF Trace!Act
  <2>3. ASSUME approvals' # approvals
        PROVE  Trace!evaluateReleasePolicyRules' \subseteq Trace!evaluateReleasePolicyRules
    BY <2>1, <2>3, TraceGrows, ApprovalsOnlyHelp
  <2> QED BY <2>2, <2>3
<1>4. TraceInv /\ [EnginesNext]_all =>
        [text' = text /\ traceFiles \subseteq traceFiles' => Trace!ClaimFindings' \subseteq Trace!ClaimFindings]_(Trace!vars)
  <2> SUFFICES ASSUME TraceInv, [EnginesNext]_all, text' = text, traceFiles \subseteq traceFiles'
               PROVE  Trace!ClaimFindings' \subseteq Trace!ClaimFindings
    OBVIOUS
  <2> QED BY EnginesTrace, TraceGrows, EvidenceSupports
<1> QED BY <1>1, <1>2, <1>3, <1>4, PTL DEF EnginesSpec, MoreTraceMoreEvidence, Trace!ActsAreNotOutweighed,
                                           Trace!EvidenceOnlySupports

\* For any expected and observed changes: without a finding each expected
\* change has an observed one of its own, and there are no others.
THEOREM EnginesNoFindingMeansExact == EnginesSpec => []NoFindingMeansExact
<1>1. EnginesInit => TraceInv
  BY EnginesTrace, TraceStarts
<1>2. TraceInv /\ [EnginesNext]_all => TraceInv'
  BY EnginesTrace, TraceKeeps
<1>3. TraceInv => NoFindingMeansExact
  BY ExactWithoutFinding DEF NoFindingMeansExact
<1> QED BY <1>1, <1>2, <1>3, PTL DEF EnginesSpec

LEMMA EnginesJudge ==
  /\ EnginesInit => Judge!Init
  /\ [EnginesNext]_all => [Judge!Next]_(Judge!vars)
<1>1. UNCHANGED judgeVars => UNCHANGED Judge!vars
  BY DEF judgeVars, Judge!vars
<1>2. UNCHANGED all => UNCHANGED Judge!vars
  BY <1>1 DEF all, otherVars
<1> QED BY <1>1, <1>2 DEF EnginesInit, EnginesNext, otherVars

\* For any settings, answers and orders of failure: a pairwise pass does not
\* depend on where the answers stood, and a scored one has at least half of
\* the samples that could be read behind it.
THEOREM EnginesJudgedPassIsEarned == EnginesSpec => []JudgedPassIsEarned
<1>1. EnginesInit => JudgeInv
  BY EnginesJudge, JudgeStarts
<1>2. JudgeInv /\ [EnginesNext]_all => JudgeInv'
  BY EnginesJudge, JudgeNext
<1>3. JudgeInv => JudgedPassIsEarned
  BY JudgedPass
<1> QED BY <1>1, <1>2, <1>3, PTL DEF EnginesSpec

LEMMA EnginesAssert ==
  /\ EnginesInit => Asserted!Init
  /\ [EnginesNext]_all => [Asserted!Next]_(Asserted!vars)
<1>1. UNCHANGED assertVars => UNCHANGED Asserted!vars
  BY DEF assertVars, Asserted!vars
<1>2. UNCHANGED all => UNCHANGED Asserted!vars
  BY <1>1 DEF all, otherVars
<1> QED BY <1>1, <1>2 DEF EnginesInit, EnginesNext, otherVars

\* For any scenarios and answers: assertions that demand the same agree, and
\* those that demand opposite things never both pass.
THEOREM EnginesAssertionsAgree == EnginesSpec => []AssertionsAgree
<1>1. EnginesInit => AssertInv
  BY EnginesAssert, AssertStarts
<1>2. AssertInv /\ [EnginesNext]_all => AssertInv'
  BY EnginesAssert, AssertNext
<1>3. AssertInv => AssertionsAgree
  BY AgreementOfVerdicts
<1> QED BY <1>1, <1>2, <1>3, PTL DEF EnginesSpec

=============================================================================
