------------------------- MODULE ReleaseGateProofs -------------------------
(***************************************************************************)
(* The gate lets a release through only on complete evidence, whatever the *)
(* registry and the results.  The argument is a count: results that are    *)
(* all expected, all different, and as many as there are expected tests    *)
(* are an injection into a finite set of the same size, so every expected  *)
(* test is among them.  And whatever a planner selects, what is run        *)
(* contains the mandatory tests and nothing but registered ones.           *)
(***************************************************************************)
EXTENDS ReleaseGate, FiniteSetTheorems, WellFoundedInduction, TLAPS

-----------------------------------------------------------------------------
\* Induction, with a set in the place of the predicate.
LEMMA LeastElement ==
  ASSUME NEW T \in SUBSET Nat, T # {}
  PROVE  \E n \in T : \A m \in T : n <= m
<1> DEFINE Less == {pair \in Nat \X Nat : pair[1] < pair[2]}
<1>1. IsWellFoundedOn(Less, Nat)
  BY NatLessThanWellFounded DEF OpToRel
<1>2. PICK n \in T : \A m \in T : <<m, n>> \notin Less
  BY <1>1, WFMin
<1>3. \A m \in T : ~ (m < n)
  BY <1>2
<1> QED
  BY <1>3

LEMMA NaturalInduction ==
  ASSUME NEW T \in SUBSET Nat, 0 \in T, \A n \in T : n + 1 \in T
  PROVE  T = Nat
<1>1. SUFFICES ASSUME Nat \ T # {} PROVE FALSE
  OBVIOUS
<1>2. PICK n \in Nat \ T : \A m \in Nat \ T : n <= m
  BY <1>1, LeastElement
<1>3. n - 1 \in Nat /\ ~ (n <= n - 1)
  BY <1>2
<1>4. n - 1 \in T
  BY <1>2, <1>3
<1>5. (n - 1) + 1 \in T
  BY <1>4
<1> QED
  BY <1>2, <1>5

\* A function that meets every element of a set exactly once.
LEMMA IsABijection ==
  ASSUME NEW D, NEW R, NEW f \in [D -> R],
         \A i, j \in D : f[i] = f[j] => i = j,
         \A y \in R : \E i \in D : f[i] = y
  PROVE  f \in Bijection(D, R)
<1>1. DOMAIN f = D
  OBVIOUS
<1>2. IsInjective(f)
  BY <1>1 DEF IsInjective
<1> QED
  BY <1>2 DEF Bijection, Injection, Surjection

LEMMA FirstNumbers ==
  ASSUME NEW n \in Nat
  PROVE  IsFiniteSet(1 .. n) /\ Cardinality(1 .. n) = n
<1>1. IsFiniteSet(1 .. n) /\ Cardinality(1 .. n) = IF 1 > n THEN 0 ELSE n - 1 + 1
  BY FS_Interval
<1> QED
  BY <1>1

-----------------------------------------------------------------------------
\* Among is what its definition says: the function it is defined by exists.
Keeps(kept, list, chosen, n) ==
  IF n = 0 THEN <<>>
  ELSE IF list[n] \in chosen THEN Append(kept[n - 1], list[n]) ELSE kept[n - 1]

IsKept(kept, list, chosen, last) ==
  kept = [n \in 0 .. last |-> Keeps(kept, list, chosen, n)]

LEMMA KeptAt ==
  ASSUME NEW kept, NEW list, NEW chosen, NEW last, IsKept(kept, list, chosen, last),
         NEW n \in 0 .. last
  PROVE  kept[n] = Keeps(kept, list, chosen, n)
<1> DEFINE same == [m \in 0 .. last |-> Keeps(kept, list, chosen, m)]
<1>1. kept = same
  BY DEF IsKept
<1>2. same[n] = Keeps(kept, list, chosen, n)
  OBVIOUS
<1> QED
  BY ONLY <1>1, <1>2

LEMMA KeptExists ==
  ASSUME NEW list, NEW chosen
  PROVE  \A last \in Nat : \E kept : IsKept(kept, list, chosen, last)
<1> DEFINE T == {n \in Nat : \E kept : IsKept(kept, list, chosen, n)}
<1>1. 0 \in T
  <2> DEFINE kept == [n \in 0 .. 0 |-> <<>>]
  <2>1. kept = [n \in 0 .. 0 |-> Keeps(kept, list, chosen, n)]
    BY DEF Keeps
  <2>2. IsKept(kept, list, chosen, 0)
    BY <2>1 DEF IsKept
  <2> QED
    BY <2>2
<1>2. ASSUME NEW m \in T PROVE m + 1 \in T
  <2>1. PICK kept : IsKept(kept, list, chosen, m)
    BY <1>2
  <2> DEFINE more == [n \in 0 .. m + 1 |-> Keeps(kept, list, chosen, n)]
  <2>2. \A n \in 0 .. m : more[n] = kept[n]
    BY <2>1, KeptAt
  <2>3. \A n \in 0 .. m + 1 : Keeps(more, list, chosen, n) = Keeps(kept, list, chosen, n)
    <3> SUFFICES ASSUME NEW n \in 0 .. m + 1
                 PROVE  Keeps(more, list, chosen, n) = Keeps(kept, list, chosen, n)
      OBVIOUS
    <3>1. n = 0 \/ n - 1 \in 0 .. m
      OBVIOUS
    <3>2. n = 0 \/ more[n - 1] = kept[n - 1]
      BY <2>2, <3>1
    <3> HIDE DEF more
    <3> QED
      BY <3>2 DEF Keeps
  <2>4. IsKept(more, list, chosen, m + 1)
    BY <2>3 DEF IsKept
  <2> QED
    BY <2>4
<1>3. T = Nat
  <2> HIDE DEF T
  <2>1. T \in SUBSET Nat
    BY DEF T
  <2> QED
    BY <1>1, <1>2, <2>1, NaturalInduction
<1> QED
  BY <1>3

LEMMA AmongIsKept ==
  ASSUME NEW S, NEW list \in Seq(S), NEW chosen
  PROVE  \E kept :
           /\ IsKept(kept, list, chosen, Len(list))
           /\ Among(list, chosen) = kept[Len(list)]
<1> DEFINE kept == CHOOSE f : IsKept(f, list, chosen, Len(list))
<1>1. \E f : IsKept(f, list, chosen, Len(list))
  <2>1. Len(list) \in Nat
    OBVIOUS
  <2> QED
    BY <2>1, KeptExists
<1>2. IsKept(kept, list, chosen, Len(list))
  BY <1>1
<1>3. Among(list, chosen) = kept[Len(list)]
  BY DEF Among, IsKept, Keeps
<1> QED
  BY <1>2, <1>3

\* The places the elements of Among(list, chosen) have in the list.
IsPlacing(place, short, list, chosen, last) ==
  /\ place \in Bijection(1 .. Len(short), {i \in 1 .. last : list[i] \in chosen})
  /\ \A j \in 1 .. Len(short) : short[j] = list[place[j]]

LEMMA PlacingGrows ==
  ASSUME NEW S, NEW list \in Seq(S), NEW chosen, NEW n \in Nat, n + 1 <= Len(list),
         NEW short \in Seq(S), NEW place, IsPlacing(place, short, list, chosen, n),
         list[n + 1] \in chosen
  PROVE  /\ Append(short, list[n + 1]) \in Seq(S)
         /\ \E more : IsPlacing(more, Append(short, list[n + 1]), list, chosen, n + 1)
<1> DEFINE longer == Append(short, list[n + 1])
           more == [j \in 1 .. Len(short) + 1 |-> IF j = Len(short) + 1 THEN n + 1 ELSE place[j]]
           Here == {i \in 1 .. n : list[i] \in chosen}
           There == {i \in 1 .. n + 1 : list[i] \in chosen}
<1>0. list[n + 1] \in S
  OBVIOUS
<1>1. longer \in Seq(S) /\ Len(longer) = Len(short) + 1
  BY <1>0
<1>2. \A j \in 1 .. Len(longer) :
        longer[j] = IF j = Len(short) + 1 THEN list[n + 1] ELSE short[j]
  BY <1>0, <1>1
<1>3. /\ place \in [1 .. Len(short) -> Here]
      /\ \A i, j \in 1 .. Len(short) : place[i] = place[j] => i = j
      /\ \A i \in Here : \E j \in 1 .. Len(short) : place[j] = i
  BY DEF IsPlacing, Bijection, Injection, Surjection, IsInjective
<1>4. There = Here \cup {n + 1} /\ n + 1 \notin Here
  OBVIOUS
<1>5. Len(short) \in Nat
  OBVIOUS
<1> HIDE DEF Here, There, longer
<1>6. more \in [1 .. Len(short) + 1 -> There]
  BY <1>3, <1>4, <1>5
<1>7. \A i, j \in 1 .. Len(short) + 1 : more[i] = more[j] => i = j
  <2> SUFFICES ASSUME NEW i \in 1 .. Len(short) + 1, NEW j \in 1 .. Len(short) + 1,
                      more[i] = more[j]
               PROVE  i = j
    OBVIOUS
  <2>1. \A k \in 1 .. Len(short) : place[k] # n + 1
    BY <1>3, <1>4
  <2>2. \A k \in 1 .. Len(short) + 1 :
          \/ k = Len(short) + 1 /\ more[k] = n + 1
          \/ k \in 1 .. Len(short) /\ more[k] = place[k]
    BY <1>5
  <2> HIDE DEF more
  <2> QED
    BY <1>3, <2>1, <2>2
<1>8. \A i \in There : \E j \in 1 .. Len(short) + 1 : more[j] = i
  <2> SUFFICES ASSUME NEW i \in There
               PROVE  \E j \in 1 .. Len(short) + 1 : more[j] = i
    OBVIOUS
  <2>1. CASE i = n + 1
    <3>1. Len(short) + 1 \in 1 .. Len(short) + 1 /\ more[Len(short) + 1] = n + 1
      BY <1>5
    <3> QED
      BY <2>1, <3>1
  <2>2. CASE i \in Here
    <3>1. PICK j \in 1 .. Len(short) : place[j] = i
      BY <1>3, <2>2
    <3>2. j \in 1 .. Len(short) + 1 /\ more[j] = i
      BY <1>5, <3>1
    <3> QED
      BY <3>2
  <2> QED
    BY <1>4, <2>1, <2>2
<1>9. more \in Bijection(1 .. Len(longer), There)
  BY <1>1, <1>6, <1>7, <1>8 DEF Bijection, Injection, Surjection, IsInjective
<1>10. \A j \in 1 .. Len(longer) : longer[j] = list[more[j]]
  <2> SUFFICES ASSUME NEW j \in 1 .. Len(longer)
               PROVE  longer[j] = list[more[j]]
    OBVIOUS
  <2>1. CASE j = Len(short) + 1
    BY <1>1, <1>2, <1>5, <2>1
  <2>2. CASE j # Len(short) + 1
    <3>1. j \in 1 .. Len(short)
      BY <1>1, <1>5, <2>2
    <3>2. short[j] = list[place[j]] /\ longer[j] = short[j] /\ more[j] = place[j]
      BY <1>1, <1>2, <1>5, <2>2, <3>1 DEF IsPlacing
    <3> QED
      BY <3>2
  <2> QED
    BY <2>1, <2>2
<1> QED
  BY <1>1, <1>9, <1>10 DEF IsPlacing, longer, There

\* Among keeps the chosen elements, each at its place, and nothing else.
LEMMA AmongPlaces ==
  ASSUME NEW S, NEW list \in Seq(S), NEW chosen
  PROVE  /\ Among(list, chosen) \in Seq(S)
         /\ \E place : IsPlacing(place, Among(list, chosen), list, chosen, Len(list))
<1>1. PICK kept : /\ IsKept(kept, list, chosen, Len(list))
                  /\ Among(list, chosen) = kept[Len(list)]
  BY AmongIsKept
<1> DEFINE Good(n) == kept[n] \in Seq(S) /\ \E place : IsPlacing(place, kept[n], list, chosen, n)
           T == {n \in Nat : n <= Len(list) => Good(n)}
<1>2. Len(list) \in Nat
  OBVIOUS
<1>3. 0 \in T
  <2>1. kept[0] = <<>>
    BY <1>1, <1>2, KeptAt DEF Keeps
  <2> DEFINE place == [j \in 1 .. 0 |-> 0]
  <2>2. place \in Bijection(1 .. 0, {i \in 1 .. 0 : list[i] \in chosen})
    BY DEF Bijection, Injection, Surjection, IsInjective
  <2>3. IsPlacing(place, <<>>, list, chosen, 0)
    BY <2>2 DEF IsPlacing
  <2>4. Good(0)
    <3> HIDE DEF place
    <3> QED
      BY <2>1, <2>3
  <2> QED
    BY <2>4
<1>4. ASSUME NEW n \in T PROVE n + 1 \in T
  <2> SUFFICES ASSUME n + 1 <= Len(list) PROVE Good(n + 1)
    OBVIOUS
  <2>1. Good(n) /\ n \in Nat
    BY <1>2, <1>4
  <2>2. kept[n + 1] = IF list[n + 1] \in chosen THEN Append(kept[n], list[n + 1]) ELSE kept[n]
    <3>1. kept[n + 1] = Keeps(kept, list, chosen, n + 1)
      BY <1>1, <1>2, <2>1, KeptAt
    <3>2. (n + 1) - 1 = n /\ n + 1 # 0
      BY <2>1
    <3> QED
      BY <3>1, <3>2 DEF Keeps
  <2>3. CASE list[n + 1] \in chosen
    BY <2>1, <2>2, <2>3, PlacingGrows
  <2>4. CASE list[n + 1] \notin chosen
    <3>1. {i \in 1 .. n + 1 : list[i] \in chosen} = {i \in 1 .. n : list[i] \in chosen}
      BY <2>1, <2>4
    <3> QED
      BY <2>1, <2>2, <2>4, <3>1 DEF IsPlacing
  <2> QED
    BY <2>3, <2>4
<1>5. Len(list) \in T
  <2> HIDE DEF T
  <2>1. T \in SUBSET Nat
    BY DEF T
  <2> QED
    BY <1>2, <1>3, <1>4, <2>1, NaturalInduction
<1> QED
  BY <1>1, <1>2, <1>5

\* What follows for its elements.
LEMMA AmongElements ==
  ASSUME NEW S, NEW list \in Seq(S), NEW chosen
  PROVE  /\ Range(Among(list, chosen)) = Range(list) \cap chosen
         /\ IsInjective(list) => IsInjective(Among(list, chosen))
<1> DEFINE short == Among(list, chosen)
           Places == {i \in 1 .. Len(list) : list[i] \in chosen}
<1>1. PICK place : IsPlacing(place, short, list, chosen, Len(list))
  BY AmongPlaces
<1>2. /\ DOMAIN list = 1 .. Len(list)
      /\ DOMAIN short = 1 .. Len(short)
  BY AmongPlaces
<1>3. /\ place \in [1 .. Len(short) -> Places]
      /\ \A i, j \in 1 .. Len(short) : place[i] = place[j] => i = j
      /\ \A i \in Places : \E j \in 1 .. Len(short) : place[j] = i
      /\ \A j \in 1 .. Len(short) : short[j] = list[place[j]]
  BY <1>1 DEF IsPlacing, Bijection, Injection, Surjection, IsInjective
<1> HIDE DEF short
<1>4. Range(short) = Range(list) \cap chosen
  <2>1. ASSUME NEW x \in Range(short) PROVE x \in Range(list) \cap chosen
    BY <1>2, <1>3, <2>1 DEF Range
  <2>2. ASSUME NEW x \in Range(list) \cap chosen PROVE x \in Range(short)
    <3>1. PICK i \in 1 .. Len(list) : list[i] = x
      BY <1>2 DEF Range
    <3>2. PICK j \in 1 .. Len(short) : place[j] = i
      BY <1>3, <3>1
    <3> QED
      BY <1>2, <1>3, <3>1, <3>2 DEF Range
  <2> QED
    BY <2>1, <2>2
<1>5. ASSUME IsInjective(list) PROVE IsInjective(short)
  BY <1>2, <1>3, <1>5 DEF IsInjective
<1> QED
  BY <1>4, <1>5 DEF short

-----------------------------------------------------------------------------
\* The ids of a complete list of results, as a function of the position.
ReceivedIds(results) == [i \in 1 .. Len(results) |-> results[i].id]

LEMMA CompleteIsInjection ==
  ASSUME NEW S, NEW T, NEW expected \in Seq(T), NEW results \in Seq(S),
         IsComplete(expected, results)
  PROVE  ReceivedIds(results) \in Injection(1 .. Len(results), Range(expected))
<1> DEFINE f == ReceivedIds(results)
<1>1. DOMAIN results = 1 .. Len(results) /\ Len(results) \in Nat
  OBVIOUS
<1>2. \A i \in 1 .. Len(results) : results[i].id \in Range(expected)
  BY <1>1 DEF IsComplete, Unexpected
<1>3. f \in [1 .. Len(results) -> Range(expected)]
  BY <1>2 DEF ReceivedIds
<1>4. ASSUME NEW i \in 1 .. Len(results), NEW j \in 1 .. Len(results), f[i] = f[j], i # j
      PROVE  FALSE
  <2>1. results[i].id = results[j].id
    BY <1>4 DEF ReceivedIds
  <2>2. CASE j < i
    <3>1. j \in 1 .. i - 1
      BY <2>2
    <3> QED
      BY <1>1, <2>1, <3>1 DEF IsComplete, Unexpected
  <2>3. CASE i < j
    <3>1. i \in 1 .. j - 1
      BY <2>3
    <3> QED
      BY <1>1, <2>1, <3>1 DEF IsComplete, Unexpected
  <2> QED
    BY <1>4, <2>2, <2>3
<1>5. IsInjective(f)
  <2>1. DOMAIN f = 1 .. Len(results)
    BY DEF ReceivedIds
  <2> QED
    BY <1>4, <2>1 DEF IsInjective
<1> QED
  BY <1>3, <1>5 DEF Injection

\* The range of a list is finite.
LEMMA RangeIsFinite ==
  ASSUME NEW T, NEW list \in Seq(T)
  PROVE  IsFiniteSet(Range(list))
<1>1. list \in [1 .. Len(list) -> Range(list)] /\ Len(list) \in Nat
  BY DEF Range
<1>2. list \in Surjection(1 .. Len(list), Range(list))
  BY <1>1 DEF Surjection, Range
<1>3. IsFiniteSet(1 .. Len(list))
  BY <1>1, FS_Interval
<1> QED
  BY <1>2, <1>3, FS_Surjection

\* A verdict other than ERROR rests on exactly one result for every expected
\* test: none is missing, repeated or foreign (release-gate.ts:21-37).
THEOREM GateNeedsEveryTest ==
  ASSUME NEW S, NEW T, NEW input, input.expected \in Seq(T), input.results \in Seq(S),
         DecideReleaseGate(input) # "ERROR"
  PROVE  /\ input.requiredChecksCompleted /\ input.evidenceComplete
         /\ \A id \in Range(input.expected) :
              \E i \in DOMAIN input.results :
                /\ input.results[i].id = id
                /\ \A j \in DOMAIN input.results : input.results[j].id = id => j = i
<1> DEFINE expected == input.expected
           results == input.results
           f == ReceivedIds(results)
<1>1. /\ input.requiredChecksCompleted /\ input.evidenceComplete
      /\ IsComplete(expected, results)
  BY DEF DecideReleaseGate
<1>2. f \in Injection(1 .. Len(results), Range(expected))
  BY <1>1, CompleteIsInjection
<1>3. /\ IsFiniteSet(Range(expected))
      /\ Len(results) \in Nat
      /\ DOMAIN results = 1 .. Len(results)
  BY RangeIsFinite
<1>4. Cardinality(1 .. Len(results)) = Cardinality(Range(expected))
  <2>1. Cardinality(1 .. Len(results)) = Len(results)
    BY <1>3, FS_Interval
  <2> QED
    BY <1>1, <2>1 DEF IsComplete
<1>5. f \in Surjection(1 .. Len(results), Range(expected))
  BY <1>2, <1>3, <1>4, FS_Injection
<1>6. ASSUME NEW id \in Range(expected)
      PROVE  \E i \in DOMAIN results :
               /\ results[i].id = id
               /\ \A j \in DOMAIN results : results[j].id = id => j = i
  <2>1. PICK i \in 1 .. Len(results) : f[i] = id
    BY <1>5 DEF Surjection
  <2>2. \A j \in 1 .. Len(results) : f[j] = results[j].id
    BY DEF ReceivedIds
  <2>3. \A j \in 1 .. Len(results) : f[j] = f[i] => j = i
    BY <1>2, <2>1 DEF Injection, IsInjective
  <2>4. i \in DOMAIN results /\ results[i].id = id
    BY <1>3, <2>1, <2>2
  <2>5. \A j \in DOMAIN results : results[j].id = id => j = i
    BY <1>3, <2>1, <2>2, <2>3
  <2> QED
    BY <2>4, <2>5
<1> QED
  BY <1>1, <1>6

\* What the elements of a list of results have in common.
LEMMA ElementsOf ==
  ASSUME NEW S, NEW list \in Seq(S), NEW i \in DOMAIN list
  PROVE  list[i] \in S
OBVIOUS

\* SAFE: the checks were completed and their evidence is complete, every expected
\* test has one result and no more, that result is PASSED, and no registered
\* dependency is incompatible (release-gate.ts:17-46).
THEOREM SafeNeedsEveryPass ==
  ASSUME NEW S, NEW T, NEW input, input.expected \in Seq(T), input.results \in Seq(S),
         \A result \in S : result.status \in TestStatuses,
         DecideReleaseGate(input) = "SAFE"
  PROVE  /\ input.requiredChecksCompleted /\ input.evidenceComplete
         /\ ~input.hasIncompatibleDependency
         /\ \A id \in Range(input.expected) :
              \E i \in DOMAIN input.results :
                /\ input.results[i].id = id /\ input.results[i].status = "PASSED"
                /\ \A j \in DOMAIN input.results : input.results[j].id = id => j = i
<1>1. /\ input.requiredChecksCompleted /\ input.evidenceComplete
      /\ ~input.hasIncompatibleDependency
      /\ \A i \in DOMAIN input.results : input.results[i].status # "FAILED"
  BY DEF DecideReleaseGate
<1>2. ASSUME NEW i \in DOMAIN input.results
      PROVE  input.results[i].status = "PASSED"
  <2>1. input.results[i].status \in TestStatuses
    BY ElementsOf
  <2> QED
    BY <1>1, <2>1 DEF TestStatuses
<1>3. \A id \in Range(input.expected) :
        \E i \in DOMAIN input.results :
          /\ input.results[i].id = id
          /\ \A j \in DOMAIN input.results : input.results[j].id = id => j = i
  <2>1. DecideReleaseGate(input) # "ERROR"
    BY SMT
  <2> QED
    BY <2>1, GateNeedsEveryTest
<1> QED
  BY <1>1, <1>2, <1>3

-----------------------------------------------------------------------------
\* Whatever the planner answers, the selection has every mandatory test, no
\* test outside the registry, and none twice (test-registry.ts:27-44).
THEOREM SelectionIsSound ==
  ASSUME NEW answer
  PROVE  LET selection == SelectTrustedTests(answer) IN
         /\ selection \in Seq(TestIds)
         /\ Mandatory \subseteq Range(selection) /\ Range(selection) \subseteq TestIds
         /\ IsInjective(selection)
<1> USE RegistryAssumption
<1>1. \A chosen : /\ Among(Registry, chosen) \in Seq(TestIds)
                  /\ Range(Among(Registry, chosen)) = TestIds \cap chosen
                  /\ IsInjective(Among(Registry, chosen))
  <2> SUFFICES ASSUME NEW chosen
               PROVE  /\ Among(Registry, chosen) \in Seq(TestIds)
                      /\ Range(Among(Registry, chosen)) = TestIds \cap chosen
                      /\ IsInjective(Among(Registry, chosen))
    OBVIOUS
  <2>1. IsInjective(Registry)
    BY DEF IsInjective
  <2> QED
    BY <2>1, AmongPlaces, AmongElements
<1>2. \E selection : SelectTrustedTests(answer) = Among(Registry, Mandatory \cup selection)
  BY DEF SelectTrustedTests, ResolveTrustedTests
<1> QED
  BY <1>1, <1>2

\* The tests the gate expects.
LEMMA ExpectedTests ==
  /\ Among(Registry, Mandatory) \in Seq(TestIds)
  /\ Range(Among(Registry, Mandatory)) = Mandatory
  /\ IsFiniteSet(Mandatory)
  /\ Len(Among(Registry, Mandatory)) = Cardinality(Mandatory)
<1> USE RegistryAssumption
<1> DEFINE expected == Among(Registry, Mandatory)
<1>1. expected \in Seq(TestIds)
  BY AmongPlaces
<1>2. Range(expected) = Mandatory /\ IsInjective(expected)
  <2>1. IsInjective(Registry) /\ Registry \in Seq(TestIds)
    BY DEF IsInjective
  <2>2. /\ Range(expected) = Range(Registry) \cap Mandatory
        /\ IsInjective(Registry) => IsInjective(expected)
    BY <2>1, AmongElements
  <2> QED
    BY <2>1, <2>2
<1> HIDE DEF expected
<1>3. DOMAIN expected = 1 .. Len(expected) /\ Len(expected) \in Nat
  BY <1>1
<1>4. expected \in Bijection(1 .. Len(expected), Mandatory)
  <2>1. expected \in [1 .. Len(expected) -> Mandatory]
    BY <1>1, <1>2, <1>3 DEF Range
  <2>2. \A i, j \in 1 .. Len(expected) : expected[i] = expected[j] => i = j
    BY <1>2, <1>3 DEF IsInjective
  <2>3. \A y \in Mandatory : \E i \in 1 .. Len(expected) : expected[i] = y
    BY <1>2, <1>3 DEF Range
  <2> QED
    BY <2>1, <2>2, <2>3, IsABijection
<1>5. IsFiniteSet(1 .. Len(expected)) /\ Cardinality(1 .. Len(expected)) = Len(expected)
  BY <1>3, FirstNumbers
<1>6. IsFiniteSet(Mandatory) /\ Cardinality(Mandatory) = Len(expected)
  BY <1>4, <1>5, FS_Bijection DEF ExistsBijection
<1> QED
  BY <1>1, <1>2, <1>6 DEF expected

-----------------------------------------------------------------------------
\* Positions of the results of one test.
ResultsOf(results, id) == {i \in DOMAIN results : results[i].id = id}

ProvenBy(results, id) ==
  /\ Cardinality(ResultsOf(results, id)) = 1
  /\ \A i \in ResultsOf(results, id) : results[i].hasArtifact

CleanBy(results) ==
  \A i \in DOMAIN results :
    results[i].id \in Mandatory => results[i].status = "PASSED" /\ ~results[i].incompatible

MandatoryOf(results) == Among(results, {result \in Range(results) : result.id \in Mandatory})

\* Where the mandatory results stand among all.
LEMMA MandatoryPlaces ==
  ASSUME NEW S, NEW results \in Seq(S)
  PROVE  /\ MandatoryOf(results) \in Seq(S)
         /\ DOMAIN MandatoryOf(results) = 1 .. Len(MandatoryOf(results))
         /\ Len(MandatoryOf(results)) \in Nat
         /\ \E place \in [1 .. Len(MandatoryOf(results)) -> DOMAIN results] :
              /\ \A i, j \in 1 .. Len(MandatoryOf(results)) : place[i] = place[j] => i = j
              /\ \A j \in 1 .. Len(MandatoryOf(results)) :
                   /\ MandatoryOf(results)[j] = results[place[j]]
                   /\ results[place[j]].id \in Mandatory
              /\ \A i \in DOMAIN results :
                   results[i].id \in Mandatory =>
                     \E j \in 1 .. Len(MandatoryOf(results)) : place[j] = i
<1> DEFINE short == MandatoryOf(results)
           chosen == {result \in Range(results) : result.id \in Mandatory}
           Places == {i \in 1 .. Len(results) : results[i] \in chosen}
<1>1. short \in Seq(S)
  BY AmongPlaces DEF MandatoryOf
<1>2. PICK place : IsPlacing(place, short, results, chosen, Len(results))
  BY AmongPlaces DEF MandatoryOf
<1>3. /\ place \in [1 .. Len(short) -> Places]
      /\ \A i, j \in 1 .. Len(short) : place[i] = place[j] => i = j
      /\ \A i \in Places : \E j \in 1 .. Len(short) : place[j] = i
      /\ \A j \in 1 .. Len(short) : short[j] = results[place[j]]
  BY <1>2 DEF IsPlacing, Bijection, Injection, Surjection, IsInjective
<1>4. DOMAIN results = 1 .. Len(results)
  OBVIOUS
<1>5. \A i \in DOMAIN results : i \in Places <=> results[i].id \in Mandatory
  BY <1>4 DEF Range
<1>6. Places \subseteq DOMAIN results
  BY <1>4
<1>7. DOMAIN short = 1 .. Len(short) /\ Len(short) \in Nat
  BY <1>1
<1> HIDE DEF short, Places
<1>8. place \in [1 .. Len(short) -> DOMAIN results]
  BY <1>3, <1>6
<1>9. \A j \in 1 .. Len(short) : results[place[j]].id \in Mandatory
  BY <1>3, <1>5, <1>6
<1>10. \A i \in DOMAIN results :
         results[i].id \in Mandatory => \E j \in 1 .. Len(short) : place[j] = i
  BY <1>3, <1>5
<1> QED
  BY <1>1, <1>3, <1>7, <1>8, <1>9, <1>10 DEF short

\* Results that prove every mandatory test are complete.
LEMMA ProvenIsComplete ==
  ASSUME NEW S, NEW results \in Seq(S), \A id \in Mandatory : ProvenBy(results, id)
  PROVE  /\ IsComplete(Among(Registry, Mandatory), MandatoryOf(results))
         /\ \A i \in DOMAIN MandatoryOf(results) : MandatoryOf(results)[i].hasArtifact
<1> DEFINE short == MandatoryOf(results)
           expected == Among(Registry, Mandatory)
           ids == ReceivedIds(short)
<1>1. PICK place \in [1 .. Len(short) -> DOMAIN results] :
        /\ \A i, j \in 1 .. Len(short) : place[i] = place[j] => i = j
        /\ \A j \in 1 .. Len(short) :
             short[j] = results[place[j]] /\ results[place[j]].id \in Mandatory
        /\ \A i \in DOMAIN results :
             results[i].id \in Mandatory => \E j \in 1 .. Len(short) : place[j] = i
  BY MandatoryPlaces
<1>2. DOMAIN short = 1 .. Len(short) /\ Len(short) \in Nat /\ short \in Seq(S)
  BY MandatoryPlaces
<1>3. \A id \in Mandatory : \E i : ResultsOf(results, id) = {i} /\ results[i].hasArtifact
  <2> SUFFICES ASSUME NEW id \in Mandatory
               PROVE  \E i : ResultsOf(results, id) = {i} /\ results[i].hasArtifact
    OBVIOUS
  <2>1. IsFiniteSet(DOMAIN results)
    BY FS_Interval
  <2>2. IsFiniteSet(ResultsOf(results, id))
    BY <2>1, FS_Subset DEF ResultsOf
  <2>3. \E i : ResultsOf(results, id) = {i}
    BY <2>2, FS_Singleton DEF ProvenBy
  <2> QED
    BY <2>3 DEF ProvenBy
<1>4. \A j \in 1 .. Len(short) : ids[j] = results[place[j]].id /\ ids[j] \in Mandatory
  BY <1>1 DEF ReceivedIds
<1> HIDE DEF short, ids
<1>5. \A i, j \in 1 .. Len(short) : ids[i] = ids[j] => i = j
  <2> SUFFICES ASSUME NEW i \in 1 .. Len(short), NEW j \in 1 .. Len(short), ids[i] = ids[j]
               PROVE  i = j
    OBVIOUS
  <2>1. PICK k : ResultsOf(results, ids[i]) = {k}
    BY <1>3, <1>4
  <2>2. place[i] = k /\ place[j] = k
    BY <1>1, <1>4, <2>1 DEF ResultsOf
  <2> QED
    BY <1>1, <2>2
<1>6. \A id \in Mandatory : \E j \in 1 .. Len(short) : ids[j] = id
  <2> SUFFICES ASSUME NEW id \in Mandatory PROVE \E j \in 1 .. Len(short) : ids[j] = id
    OBVIOUS
  <2>1. PICK i : ResultsOf(results, id) = {i}
    BY <1>3
  <2>2. i \in DOMAIN results /\ results[i].id = id
    BY <2>1 DEF ResultsOf
  <2>3. PICK j \in 1 .. Len(short) : place[j] = i
    BY <1>1, <2>2
  <2> QED
    BY <1>4, <2>2, <2>3
<1>7. Len(short) = Cardinality(Mandatory)
  <2>1. ids \in [1 .. Len(short) -> Mandatory]
    BY <1>4 DEF ids, ReceivedIds
  <2>2. ids \in Bijection(1 .. Len(short), Mandatory)
    BY <1>5, <1>6, <2>1, IsABijection
  <2>3. Cardinality(1 .. Len(short)) = Len(short) /\ IsFiniteSet(1 .. Len(short))
    BY <1>2, FirstNumbers
  <2> QED
    BY <2>2, <2>3, FS_Bijection DEF ExistsBijection
<1>8. \A i \in DOMAIN short : short[i].id = ids[i] /\ short[i].id \in Mandatory
  BY <1>1, <1>2, <1>4
<1>9. \A i \in DOMAIN short : ~Unexpected(expected, short, i)
  <2> SUFFICES ASSUME NEW i \in DOMAIN short PROVE ~Unexpected(expected, short, i)
    OBVIOUS
  <2>1. short[i].id \in Range(expected)
    BY <1>8, ExpectedTests
  <2>2. ASSUME NEW j \in 1 .. i - 1 PROVE short[j].id # short[i].id
    <3>1. j \in DOMAIN short /\ j # i
      BY <1>2
    <3> QED
      BY <1>2, <1>5, <1>8, <3>1
  <2> QED
    BY <2>1, <2>2 DEF Unexpected
<1>10. \A i \in DOMAIN short : short[i].hasArtifact
  <2> SUFFICES ASSUME NEW i \in DOMAIN short PROVE short[i].hasArtifact
    OBVIOUS
  <2>1. PICK k : ResultsOf(results, ids[i]) = {k} /\ results[k].hasArtifact
    BY <1>2, <1>3, <1>4
  <2>2. place[i] = k
    BY <1>1, <1>2, <1>4, <2>1 DEF ResultsOf
  <2> QED
    BY <1>1, <1>2, <2>1, <2>2
<1>11. /\ Range(expected) # {}
       /\ Cardinality(Range(expected)) = Len(expected)
       /\ Len(short) = Cardinality(Range(expected))
  BY <1>7, ExpectedTests, RegistryAssumption
<1> QED
  BY <1>9, <1>10, <1>11 DEF IsComplete, short

\* Complete results with evidence prove every mandatory test.
LEMMA CompleteIsProven ==
  ASSUME NEW S, NEW results \in Seq(S),
         IsComplete(Among(Registry, Mandatory), MandatoryOf(results)),
         \A i \in DOMAIN MandatoryOf(results) : MandatoryOf(results)[i].hasArtifact
  PROVE  \A id \in Mandatory : ProvenBy(results, id)
<1> DEFINE short == MandatoryOf(results)
           expected == Among(Registry, Mandatory)
           ids == ReceivedIds(short)
<1>1. PICK place \in [1 .. Len(short) -> DOMAIN results] :
        /\ \A i, j \in 1 .. Len(short) : place[i] = place[j] => i = j
        /\ \A j \in 1 .. Len(short) :
             short[j] = results[place[j]] /\ results[place[j]].id \in Mandatory
        /\ \A i \in DOMAIN results :
             results[i].id \in Mandatory => \E j \in 1 .. Len(short) : place[j] = i
  BY MandatoryPlaces
<1>2. DOMAIN short = 1 .. Len(short) /\ Len(short) \in Nat /\ short \in Seq(S)
  BY MandatoryPlaces
<1>3. ids \in Injection(1 .. Len(short), Mandatory)
  BY <1>2, CompleteIsInjection, ExpectedTests
<1>4. ids \in Surjection(1 .. Len(short), Mandatory)
  <2>1. Len(short) = Cardinality(Mandatory)
    BY ExpectedTests DEF IsComplete
  <2>2. IsFiniteSet(1 .. Len(short)) /\ Cardinality(1 .. Len(short)) = Len(short)
    BY <1>2, FirstNumbers
  <2> QED
    BY <1>3, <2>1, <2>2, ExpectedTests, FS_Injection
<1>5. \A j \in 1 .. Len(short) : ids[j] = results[place[j]].id
  BY <1>1 DEF ReceivedIds
<1> HIDE DEF ids, short
<1>6. ASSUME NEW id \in Mandatory
      PROVE  \E i \in DOMAIN results : ResultsOf(results, id) = {i} /\ results[i].hasArtifact
  <2>1. PICK j \in 1 .. Len(short) : ids[j] = id
    BY <1>4 DEF Surjection
  <2>2. \A k \in 1 .. Len(short) : ids[k] = id => k = j
    BY <1>3, <2>1 DEF Injection, IsInjective
  <2>3. place[j] \in DOMAIN results /\ results[place[j]].id = id
    BY <1>1, <1>5, <2>1
  <2>4. ASSUME NEW i \in DOMAIN results, results[i].id = id PROVE i = place[j]
    <3>1. PICK k \in 1 .. Len(short) : place[k] = i
      BY <1>1, <1>6, <2>4
    <3>2. ids[k] = id
      BY <1>5, <2>4, <3>1
    <3> QED
      BY <2>2, <3>1, <3>2
  <2>5. results[place[j]].hasArtifact
    BY <1>1, <1>2 DEF short
  <2> QED
    BY <2>3, <2>4, <2>5 DEF ResultsOf
<1> QED
  BY <1>6, FS_Singleton DEF ProvenBy

\* Whatever results a worker has, its verdict is SAFE exactly when every
\* mandatory test has one result, with evidence, that result is PASSED and
\* free of incompatibility; BLOCKED when the evidence is complete but a result
\* is not clean; ERROR when a mandatory result is missing, repeated or
\* without evidence (release-gate.ts:16-47, release-processor.ts:189-204).
THEOREM GateIsJustified ==
  ASSUME NEW S, NEW results \in Seq(S), \A result \in S : result.status \in TestStatuses
  PROVE  GateOf(results) =
           IF ~(\A id \in Mandatory : ProvenBy(results, id)) THEN "ERROR"
           ELSE IF CleanBy(results) THEN "SAFE"
           ELSE "BLOCKED"
<1> DEFINE short == MandatoryOf(results)
           expected == Among(Registry, Mandatory)
           evidence == \A i \in DOMAIN short : short[i].hasArtifact
           breaking == \E i \in DOMAIN short : short[i].incompatible
           failed == \E i \in DOMAIN short : short[i].status = "FAILED"
<1>1. GateOf(results) = IF ~evidence \/ ~IsComplete(expected, short) THEN "ERROR"
                        ELSE IF breaking \/ failed THEN "BLOCKED" ELSE "SAFE"
  BY DEF GateOf, DecideReleaseGate, MandatoryOf
<1>2. evidence /\ IsComplete(expected, short) <=> \A id \in Mandatory : ProvenBy(results, id)
  BY ProvenIsComplete, CompleteIsProven
<1>3. CleanBy(results) <=> ~breaking /\ ~failed
  <2>1. PICK place \in [1 .. Len(short) -> DOMAIN results] :
          /\ \A j \in 1 .. Len(short) :
               short[j] = results[place[j]] /\ results[place[j]].id \in Mandatory
          /\ \A i \in DOMAIN results :
               results[i].id \in Mandatory => \E j \in 1 .. Len(short) : place[j] = i
    BY MandatoryPlaces
  <2>2. DOMAIN short = 1 .. Len(short)
    BY MandatoryPlaces
  <2>3. \A i \in DOMAIN results : results[i].status \in {"PASSED", "FAILED"}
    BY ElementsOf DEF TestStatuses
  <2> HIDE DEF short
  <2>4. ASSUME CleanBy(results), NEW j \in 1 .. Len(short)
        PROVE  ~short[j].incompatible /\ short[j].status # "FAILED"
    BY <2>1, <2>4 DEF CleanBy
  <2>5. ASSUME ~breaking, ~failed, NEW i \in DOMAIN results, results[i].id \in Mandatory
        PROVE  results[i].status = "PASSED" /\ ~results[i].incompatible
    <3>1. PICK j \in 1 .. Len(short) : place[j] = i
      BY <2>1, <2>5
    <3>2. short[j] = results[i] /\ j \in DOMAIN short
      BY <2>1, <2>2, <3>1
    <3>3. short[j].status # "FAILED" /\ ~short[j].incompatible
      BY <2>5, <3>2
    <3>4. results[i].status \in {"PASSED", "FAILED"}
      BY <2>3, <2>5
    <3> QED
      BY <3>2, <3>3, <3>4
  <2> QED
    BY <2>2, <2>4, <2>5 DEF CleanBy
<1> HIDE DEF evidence, breaking, failed, short, expected
<1> QED
  BY <1>1, <1>2, <1>3

=============================================================================
