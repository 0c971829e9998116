--------------------------- MODULE ClmEngineProofs ---------------------------
(***************************************************************************)
(* Proofs about the CLM engine, for any threads, payloads, texts, capacity *)
(* and lifetime of the cache, logits and temperatures: a text has one fill *)
(* at a time, the cache keeps its bound, drops what was used least         *)
(* recently and never serves what has expired, and every question is       *)
(* answered from its own vectors with the likeliest of its texts.          *)
(*                                                                         *)
(* An induction over data is a search for the least counterexample         *)
(* (LeastExists) here.                                                     *)
(***************************************************************************)
EXTENDS ClmEngineProperties, FiniteSetTheorems, SequenceTheorems, TLAPS

-----------------------------------------------------------------------------
(* Temperature and choice *)

\* Of finitely many numbers one is the greatest: in the smallest set without a
\* greatest, one member of what is left without x, or x itself, is.
LEMMA GreatestExists ==
    ASSUME NEW S, IsFiniteSet(S), S # {}, NEW f \in [S -> Int]
    PROVE  \E x \in S : \A y \in S : f[y] <= f[x]
<1> DEFINE HasGreatest(T) == \E x \in T : \A y \in T : f[y] <= f[x]
           Bad == {T \in SUBSET S : T # {} /\ ~HasGreatest(T)}
<1>1. SUFFICES ASSUME Bad # {} PROVE FALSE
  OBVIOUS
<1>2. PICK T \in Bad : \A U \in Bad : <<U, T>> \notin StrictSubsetOrdering(S)
  <2>1. Bad \subseteq FiniteSubsetsOf(S)
    BY FS_Subset DEF FiniteSubsetsOf
  <2>2. IsWellFoundedOn(StrictSubsetOrdering(S), FiniteSubsetsOf(S))
    BY FS_StrictSubsetOrderingWellFounded
  <2> HIDE DEF Bad
  <2>3. QED
    BY ONLY <1>1, <2>1, <2>2, WFMin
<1>3. T \subseteq S /\ T # {} /\ ~HasGreatest(T)
  OBVIOUS
<1>4. PICK x \in T : TRUE
  BY <1>3
<1>5. T \ {x} \notin Bad
  BY <1>2, <1>4 DEF StrictSubsetOrdering
<1>6. CASE T \ {x} = {}
  <2>1. T = {x} /\ f[x] \in Int
    BY <1>3, <1>4, <1>6
  <2>2. QED
    BY <1>3, <2>1
<1>7. CASE T \ {x} # {}
  <2>1. PICK g \in T \ {x} : \A y \in T \ {x} : f[y] <= f[g]
    BY <1>3, <1>5, <1>7
  <2>2. \A y \in T : f[y] \in Int
    BY <1>3
  <2>3. CASE f[x] <= f[g]
    BY <1>3, <2>1, <2>2, <2>3
  <2>4. CASE f[g] <= f[x]
    <3>1. \A y \in T : f[y] <= f[x]
      BY <2>1, <2>2, <2>4
    <3>2. QED
      BY <1>3, <1>4, <3>1
  <2>5. QED
    BY <2>1, <2>2, <2>3, <2>4
<1>8. QED
  BY <1>6, <1>7

\* Greatest() of a sequence of integers is one of them and none is greater.
LEMMA GreatestIs ==
    ASSUME NEW n \in Nat \ {0}, NEW numbers \in [1..n -> Int]
    PROVE  /\ \E i \in 1..n : numbers[i] = Greatest(numbers)
           /\ \A i \in 1..n : numbers[i] <= Greatest(numbers)
<1>1. ToSet(numbers) = {numbers[i] : i \in 1..n}
  BY DEF ToSet
<1>2. IsFiniteSet(1..n) /\ 1 \in 1..n
  BY FS_Interval
<1>3. PICK i \in 1..n : \A j \in 1..n : numbers[j] <= numbers[i]
  BY <1>2, GreatestExists
<1>4. \E x \in ToSet(numbers) : \A y \in ToSet(numbers) : y <= x
  BY <1>1, <1>3
<1>5. Greatest(numbers) \in ToSet(numbers) /\ \A y \in ToSet(numbers) : y <= Greatest(numbers)
  BY <1>4 DEF Greatest
<1>6. QED
  BY <1>1, <1>5

\* A set of numbers up to m that is not empty has a least one: what the proofs
\* below use in the place of induction.
LEMMA LeastExists ==
    ASSUME NEW m \in Nat, NEW S \in SUBSET (0..m), S # {}
    PROVE  \E k \in S : \A i \in S : k <= i
<1> DEFINE minus == [k \in S |-> -k]
<1>1. IsFiniteSet(0..m)
  BY FS_Interval
<1>2. IsFiniteSet(S)
  BY <1>1, FS_Subset
<1>3. minus \in [S -> Int]
  OBVIOUS
<1>4. PICK k \in S : \A i \in S : minus[i] <= minus[k]
  <2> HIDE DEF minus
  <2>1. QED
    BY <1>2, <1>3, GreatestExists
<1>5. ASSUME NEW i \in S PROVE k <= i
  <2>1. -i <= -k /\ i \in Int /\ k \in Int
    BY <1>4
  <2>2. QED
    BY <2>1
<1>6. QED
  BY <1>5

\* Selected() is the first number that is at most `blur' below zero.
LEMMA SelectedIs ==
    ASSUME NEW n \in Nat \ {0}, NEW numbers \in [1..n -> Int], NEW blur \in Nat,
           \E i \in 1..n : numbers[i] >= -blur
    PROVE  /\ Selected(numbers, blur) \in 1..n
           /\ numbers[Selected(numbers, blur)] >= -blur
           /\ \A j \in 1..n : j < Selected(numbers, blur) => numbers[j] < -blur
<1> DEFINE likely == {i \in 1..n : numbers[i] >= -blur}
<1>1. likely # {} /\ likely \subseteq 0..n
  OBVIOUS
<1>2. PICK i \in likely : \A j \in likely : i <= j
  <2> HIDE DEF likely
  <2>1. QED
    BY <1>1, LeastExists
<1>3. i \in 1..n /\ numbers[i] >= -blur
  OBVIOUS
<1>4. ASSUME NEW j \in 1 .. i - 1 PROVE numbers[j] < -blur
  <2>1. j \in 1..n /\ ~(i <= j)
    BY <1>3
  <2>2. j \notin likely
    BY <1>2, <2>1
  <2>3. QED
    BY <2>1, <2>2
<1>5. DOMAIN numbers = 1..n
  OBVIOUS
<1>6. /\ Selected(numbers, blur) \in 1..n
      /\ numbers[Selected(numbers, blur)] >= -blur
      /\ \A j \in 1 .. Selected(numbers, blur) - 1 : numbers[j] < -blur
  <2> HIDE DEF likely
  <2>1. QED
    BY <1>3, <1>4, <1>5 DEF Selected
<1>7. QED
  BY <1>6

\* A quotient is rounded down.
LEMMA QuotientBounds ==
    ASSUME NEW x \in Int, NEW d \in Nat \ {0}
    PROVE  x \div d \in Int /\ (x \div d) * d <= x /\ x < ((x \div d) + 1) * d
BY Z3

LEMMA QuotientKeepsOrder ==
    ASSUME NEW x \in Int, NEW y \in Int, NEW d \in Nat \ {0}, x <= y
    PROVE  x \div d <= y \div d
BY QuotientBounds

\* What Tempered() makes of a number depends on its distance to the greatest:
\* it keeps the order, the greatest becomes zero, and what is less than
\* Resolution below zero was less than Resolution temperatures below.
LEMMA TemperedIs ==
    ASSUME NEW n \in Nat \ {0}, NEW logits \in [1..n -> Int],
           NEW temperature \in [num : Nat \ {0}, den : Nat \ {0}]
    PROVE  /\ Tempered(logits, temperature) \in [1..n -> Int]
           /\ \A i, j \in 1..n : logits[i] <= logits[j] =>
                 Tempered(logits, temperature)[i] <= Tempered(logits, temperature)[j]
           /\ \A i \in 1..n : logits[i] = Greatest(logits) => Tempered(logits, temperature)[i] = 0
           /\ \A i \in 1..n : Tempered(logits, temperature)[i] > -Resolution =>
                 (Greatest(logits) - logits[i]) * temperature.den < Resolution * temperature.num
<1> DEFINE best == Greatest(logits)
           den == temperature.den
           num == temperature.num
           apart(i) == (logits[i] - best) * den
           low(x) == AtLeast(-Floor, Clamp(x))
<1>1. best \in Int /\ \A i \in 1..n : logits[i] <= best
  BY GreatestIs
<1>2. /\ Floor \in Nat \ {0} /\ MaxFloat \in Nat \ {0} /\ Resolution \in Nat \ {0}
      /\ Resolution <= Floor /\ Resolution <= MaxFloat
  BY ClmAssumption
<1>3. num \in Nat \ {0} /\ den \in Nat \ {0}
  OBVIOUS
<1>4. \A x \in Int : low(x) \in Int
  BY <1>2 DEF AtLeast, Clamp
<1>5. \A x, y \in Int : x <= y => low(x) <= low(y)
  BY <1>2 DEF AtLeast, Clamp
<1>6. low(0) = 0 /\ \A x \in Int : low(x) > -Resolution => x > -Resolution
  BY <1>2 DEF AtLeast, Clamp
<1> HIDE DEF best, den, num
<1>7. /\ \A i \in 1..n : apart(i) \in Int
      /\ \A i \in 1..n : logits[i] = best => apart(i) = 0
  BY <1>1, <1>3
<1>8. ASSUME NEW d \in Int, NEW e \in Int, d <= e PROVE d * den <= e * den
  BY <1>3, <1>8
<1>9. \A i, j \in 1..n : logits[i] <= logits[j] => apart(i) <= apart(j)
  BY <1>1, <1>8
<1>10. \A i \in 1..n : (best - logits[i]) * den = -apart(i)
  BY <1>1, <1>3
<1> HIDE DEF apart
<1>11. \A i \in 1..n : apart(i) \div num \in Int
  BY <1>3, <1>7, QuotientBounds
<1>12. 0 \div num = 0
  BY <1>3, Z3
<1>13. \A i, j \in 1..n : logits[i] <= logits[j] => apart(i) \div num <= apart(j) \div num
  BY <1>3, <1>7, <1>9, QuotientKeepsOrder
<1>14. ASSUME NEW i \in 1..n, apart(i) \div num > -Resolution
       PROVE  -apart(i) < Resolution * num
  <2>1. (apart(i) \div num) * num <= apart(i)
    BY <1>3, <1>7, QuotientBounds
  <2>2. ASSUME NEW e \in Int, e > -Resolution PROVE e * num > -(Resolution * num)
    BY <1>2, <1>3, <2>2
  <2>3. (apart(i) \div num) * num > -(Resolution * num)
    BY <1>11, <1>14, <2>2
  <2>4. Resolution * num \in Int /\ (apart(i) \div num) * num \in Int
    BY <1>2, <1>3, <1>11
  <2>5. QED
    BY <1>7, <2>1, <2>3, <2>4
<1>15. Tempered(logits, temperature) = [i \in 1..n |-> low(apart(i) \div num)]
  BY DEF Tempered, DividedBy, best, den, num, apart
<1> HIDE DEF low
<1>16. ASSUME NEW i \in 1..n, low(apart(i) \div num) > -Resolution
       PROVE  (best - logits[i]) * den < Resolution * num
  <2>1. apart(i) \div num > -Resolution
    BY <1>6, <1>11, <1>16
  <2>2. -apart(i) < Resolution * num
    BY <1>14, <2>1
  <2>3. QED
    BY <1>10, <2>2
<1>17. /\ \A i \in 1..n : low(apart(i) \div num) \in Int
       /\ \A i, j \in 1..n :
             logits[i] <= logits[j] => low(apart(i) \div num) <= low(apart(j) \div num)
       /\ \A i \in 1..n : logits[i] = best => low(apart(i) \div num) = 0
  BY <1>4, <1>5, <1>6, <1>7, <1>11, <1>12, <1>13
<1>18. QED
  BY <1>15, <1>16, <1>17 DEF best, den, num

\* "Probability scaling without changing the highest-scoring choice": for any
\* logits, floor, overflow and temperature, whatever numbers less than
\* Resolution apart softmax gives one probability, none gets more than one with
\* a greater logit, the choice is less than Resolution temperatures from the
\* greatest logit, and those before it have smaller logits.
THEOREM TemperatureKeepsChoice ==
    ASSUME NEW n \in Nat \ {0}, NEW logits \in [1..n -> Int],
           NEW temperature \in [num : Nat \ {0}, den : Nat \ {0}],
           NEW blur \in 0 .. Resolution - 1
    PROVE  LET tempered == Tempered(logits, temperature)
               choice == Selected(tempered, blur)
           IN  /\ choice \in 1..n
               /\ \A i \in 1..n :
                     /\ (logits[i] - logits[choice]) * temperature.den < Resolution * temperature.num
                     /\ i < choice => logits[i] < logits[choice]
               /\ \A i, j \in 1..n : logits[i] <= logits[j] => tempered[i] <= tempered[j]
<1> DEFINE tempered == Tempered(logits, temperature)
           choice == Selected(tempered, blur)
           best == Greatest(logits)
<1>1. /\ tempered \in [1..n -> Int]
      /\ \A i, j \in 1..n : logits[i] <= logits[j] => tempered[i] <= tempered[j]
      /\ \A i \in 1..n : logits[i] = best => tempered[i] = 0
      /\ \A i \in 1..n : tempered[i] > -Resolution =>
            (best - logits[i]) * temperature.den < Resolution * temperature.num
  BY TemperedIs
<1>2. PICK g \in 1..n : logits[g] = best
  BY GreatestIs
<1>3. best \in Int /\ \A i \in 1..n : logits[i] <= best /\ logits[i] \in Int
  BY <1>2, GreatestIs
<1> HIDE DEF tempered, best
<1>4. /\ Resolution \in Nat /\ blur \in Nat /\ blur < Resolution
      /\ temperature.den \in Nat \ {0} /\ temperature.num \in Nat \ {0}
  BY ClmAssumption
<1>5. /\ choice \in 1..n /\ tempered[choice] >= -blur
      /\ \A j \in 1..n : j < choice => tempered[j] < -blur
  <2>1. tempered[g] >= -blur
    BY <1>1, <1>2, <1>4
  <2>2. QED
    BY <1>1, <1>4, <2>1, SelectedIs
<1> HIDE DEF choice
<1>6. (best - logits[choice]) * temperature.den < Resolution * temperature.num
  <2>1. tempered[choice] > -Resolution
    BY <1>1, <1>4, <1>5
  <2>2. QED
    BY <1>1, <1>5, <2>1
<1>7. ASSUME NEW i \in 1..n
      PROVE  (logits[i] - logits[choice]) * temperature.den < Resolution * temperature.num
  <2>1. ASSUME NEW d \in Int, NEW e \in Int, d <= e
        PROVE  d * temperature.den <= e * temperature.den
    BY <1>4, <2>1
  <2>2. (logits[i] - logits[choice]) * temperature.den <= (best - logits[choice]) * temperature.den
    BY <1>3, <1>5, <2>1
  <2>3. /\ (logits[i] - logits[choice]) * temperature.den \in Int
        /\ (best - logits[choice]) * temperature.den \in Int
        /\ Resolution * temperature.num \in Int
    BY <1>3, <1>4, <1>5
  <2>4. QED
    BY <1>6, <2>2, <2>3
<1>8. ASSUME NEW i \in 1..n, i < choice PROVE logits[i] < logits[choice]
  <2>1. tempered[i] < -blur
    BY <1>5, <1>8
  <2>2. ~(logits[choice] <= logits[i])
    BY <1>1, <1>4, <1>5, <2>1
  <2>3. QED
    BY <1>3, <1>5, <2>2
<1>9. QED
  BY <1>1, <1>5, <1>7, <1>8 DEF choice, tempered

-----------------------------------------------------------------------------
(* Sequences *)

\* Ascending() lists the numbers of a set, each once and in ascending order:
\* how many are not greater than a number says where it goes.
LEMMA AscendingIs ==
    ASSUME NEW n \in Nat, NEW S \in SUBSET (1..n)
    PROVE  /\ Cardinality(S) \in 0..n
           /\ Ascending(S) \in [1..Cardinality(S) -> S]
           /\ \A k, l \in 1..Cardinality(S) : k < l => Ascending(S)[k] < Ascending(S)[l]
           /\ \A i \in S : \E k \in 1..Cardinality(S) : Ascending(S)[k] = i
<1> DEFINE c == Cardinality(S)
           upTo(i) == {j \in S : j <= i}
           rank == [i \in S |-> Cardinality(upTo(i))]
<1>1. IsFiniteSet(S) /\ c \in Nat /\ c <= n
  <2>1. IsFiniteSet(1..n) /\ Cardinality(1..n) = n
    BY FS_Interval
  <2>2. IsFiniteSet(S) /\ c <= n
    BY <2>1, FS_Subset
  <2>3. QED
    BY <2>2, FS_CardinalityType
<1>2. \A i \in S : upTo(i) \subseteq S /\ i \in upTo(i) /\ IsFiniteSet(upTo(i))
  BY <1>1, FS_Subset
<1>3. \A i \in S : Cardinality(upTo(i)) \in 1..c
  <2> TAKE i \in S
  <2>1. Cardinality(upTo(i)) \in Nat /\ Cardinality(upTo(i)) <= c
    BY <1>1, <1>2, FS_Subset, FS_CardinalityType
  <2>2. Cardinality(upTo(i)) # 0
    BY <1>2, FS_EmptySet
  <2>3. QED
    BY <1>1, <2>1, <2>2
<1>4. ASSUME NEW i \in S, NEW j \in S, i < j PROVE rank[i] < rank[j]
  <2>1. upTo(i) \subseteq upTo(j) /\ j \notin upTo(i)
    <3>1. i \in Int /\ j \in Int /\ \A k \in S : k \in Int
      OBVIOUS
    <3>2. \A k \in S : k <= i => k <= j
      BY <1>4, <3>1
    <3>3. ~(j <= i)
      BY <1>4, <3>1
    <3>4. QED
      BY <3>2, <3>3
  <2>2. upTo(i) # upTo(j)
    BY <1>2, <2>1
  <2>3. /\ Cardinality(upTo(i)) <= Cardinality(upTo(j))
        /\ Cardinality(upTo(i)) # Cardinality(upTo(j))
    BY <1>2, <2>1, <2>2, FS_Subset
  <2>4. QED
    BY <1>3, <2>3
<1>5. rank \in Injection(S, 1..c)
  <2>1. rank \in [S -> 1..c]
    BY <1>3
  <2>2. \A i, j \in S : rank[i] = rank[j] => i = j
    <3> SUFFICES ASSUME NEW i \in S, NEW j \in S, rank[i] = rank[j], i # j PROVE FALSE
      OBVIOUS
    <3>1. i < j \/ j < i
      OBVIOUS
    <3>2. rank[i] \in Int
      BY <2>1
    <3> HIDE DEF rank
    <3>3. QED
      BY <1>4, <3>1, <3>2
  <2> HIDE DEF rank
  <2>3. QED
    BY <2>1, <2>2 DEF Injection, IsInjective
<1>6. rank \in Surjection(S, 1..c)
  <2>1. IsFiniteSet(1..c) /\ Cardinality(1..c) = c
    BY <1>1, FS_Interval
  <2> HIDE DEF rank, c
  <2>2. QED
    BY <1>5, <2>1, FS_Injection DEF c
<1>7. \A k \in 1..c : \E i \in S : rank[i] = k
  BY <1>6 DEF Surjection
<1>8. \A k \in 1..c : Ascending(S)[k] \in S /\ rank[Ascending(S)[k]] = k
  <2> TAKE k \in 1..c
  <2>1. Ascending(S)[k] = CHOOSE i \in S : Cardinality(upTo(i)) = k
    BY DEF Ascending
  <2>2. \E i \in S : Cardinality(upTo(i)) = k
    BY <1>7
  <2>3. QED
    BY <2>1, <2>2
<1>9. ASSUME NEW k \in 1..c, NEW l \in 1..c, k < l PROVE Ascending(S)[k] < Ascending(S)[l]
  <2> DEFINE a == Ascending(S)[k]
             b == Ascending(S)[l]
  <2>1. a \in S /\ b \in S /\ rank[a] = k /\ rank[b] = l
    BY <1>8
  <2>2. a \in Int /\ b \in Int /\ k \in Int /\ l \in Int
    <3>1. \A i \in S : i \in Int
      OBVIOUS
    <3>2. k \in Int /\ l \in Int
      BY <1>1
    <3> HIDE DEF a, b, rank
    <3>3. QED
      BY <2>1, <3>1, <3>2
  <2> HIDE DEF a, b, rank
  <2>3. ~(b < a) /\ b # a
    BY <1>4, <1>9, <2>1, <2>2
  <2>4. QED
    BY <2>2, <2>3 DEF a, b
<1>10. ASSUME NEW i \in S PROVE \E k \in 1..c : Ascending(S)[k] = i
  <2>1. rank[i] \in 1..c
    BY <1>3
  <2>2. Ascending(S)[rank[i]] \in S /\ rank[Ascending(S)[rank[i]]] = rank[i]
    BY <1>8, <2>1
  <2> HIDE DEF rank
  <2>3. Ascending(S)[rank[i]] = i
    BY <1>5, <2>2 DEF Injection, IsInjective
  <2>4. QED
    BY <2>1, <2>3
<1>11. Ascending(S) = [k \in 1..c |-> Ascending(S)[k]]
  BY DEF Ascending
<1>12. Ascending(S) \in [1..c -> S]
  BY <1>8, <1>11
<1>13. QED
  BY <1>1, <1>9, <1>10, <1>12

\* Those() of a sequence has the chosen members, each once and in their order.
LEMMA ThoseIs ==
    ASSUME NEW E, NEW s \in Seq(E), NEW S \in SUBSET (1..Len(s))
    PROVE  /\ Those(s, S) \in Seq(E)
           /\ Len(Those(s, S)) = Cardinality(S) /\ Len(Those(s, S)) \in 0..Len(s)
           /\ DOMAIN Those(s, S) = 1..Cardinality(S)
           /\ Ascending(S) \in [1..Cardinality(S) -> S]
           /\ \A k \in 1..Cardinality(S) : Those(s, S)[k] = s[Ascending(S)[k]]
           /\ \A k, l \in 1..Cardinality(S) : k < l => Ascending(S)[k] < Ascending(S)[l]
           /\ \A i \in S : \E k \in 1..Cardinality(S) : Ascending(S)[k] = i
<1>1. Len(s) \in Nat
  OBVIOUS
<1>2. /\ Cardinality(S) \in 0..Len(s)
      /\ Ascending(S) \in [1..Cardinality(S) -> S]
      /\ \A k, l \in 1..Cardinality(S) : k < l => Ascending(S)[k] < Ascending(S)[l]
      /\ \A i \in S : \E k \in 1..Cardinality(S) : Ascending(S)[k] = i
  BY <1>1, AscendingIs
<1>3. Those(s, S) = [k \in 1..Cardinality(S) |-> s[Ascending(S)[k]]]
  BY DEF Those
<1>4. \A k \in 1..Cardinality(S) : s[Ascending(S)[k]] \in E
  <2>1. \A i \in 1..Len(s) : s[i] \in E
    OBVIOUS
  <2>2. \A k \in 1..Cardinality(S) : Ascending(S)[k] \in 1..Len(s)
    BY <1>2
  <2>3. QED
    BY <2>1, <2>2
<1>5. Those(s, S) \in [1..Cardinality(S) -> E] /\ Cardinality(S) \in Nat
  BY <1>2, <1>3, <1>4
<1>6. Those(s, S) \in Seq(E) /\ Len(Those(s, S)) = Cardinality(S)
  <2> HIDE DEF Those
  <2>1. QED
    BY <1>5
<1>7. QED
  BY <1>2, <1>3, <1>6

\* What s has at the numbers of S.
At(s, S) == {s[i] : i \in S}

\* Those() has the chosen members, and no others.
LEMMA ThoseHas ==
    ASSUME NEW E, NEW s \in Seq(E), NEW S \in SUBSET (1..Len(s))
    PROVE  ToSet(Those(s, S)) = At(s, S)
<1> DEFINE T == Those(s, S)
           A == Ascending(S)
           c == Cardinality(S)
<1>1. /\ DOMAIN T = 1..c /\ A \in [1..c -> S]
      /\ \A k \in 1..c : T[k] = s[A[k]]
      /\ \A i \in S : \E k \in 1..c : A[k] = i
  BY ThoseIs
<1> HIDE DEF T, A, c
<1>2. ToSet(T) = {T[k] : k \in 1..c}
  BY <1>1 DEF ToSet
<1>3. \A k \in 1..c : T[k] \in At(s, S)
  BY <1>1 DEF At
<1>4. ASSUME NEW x \in At(s, S) PROVE x \in ToSet(T)
  <2>1. PICK i \in S : x = s[i]
    BY DEF At
  <2>2. QED
    BY <1>1, <1>2, <2>1
<1>5. QED
  BY <1>2, <1>3, <1>4 DEF T

\* f tells what s[1], ..., s[i] are one after the other, for each i up to m.
Joins(f, s, m, E) ==
    /\ f \in [1..m -> Seq(E)]
    /\ \A i \in 1..m : f[i] = IF i = 1 THEN s[i] ELSE f[i - 1] \o s[i]

\* There is such an f: the least number of sequences without one has one.
LEMMA JoinExists ==
    ASSUME NEW E, NEW n \in Nat, NEW s \in [1..n -> Seq(E)], NEW m \in 1..n
    PROVE  \E f : Joins(f, s, m, E)
<1> DEFINE Bad == {k \in 1..n : ~\E f : Joins(f, s, k, E)}
<1>1. SUFFICES ASSUME Bad # {} PROVE FALSE
  OBVIOUS
<1>2. PICK k \in Bad : \A i \in Bad : k <= i
  <2>1. Bad \in SUBSET (0..n)
    OBVIOUS
  <2> HIDE DEF Bad
  <2>2. QED
    BY <1>1, <2>1, LeastExists
<1>3. k \in 1..n /\ ~\E f : Joins(f, s, k, E)
  OBVIOUS
<1>4. CASE k = 1
  <2>1. Joins([i \in 1..1 |-> s[1]], s, 1, E)
    BY <1>3, <1>4 DEF Joins
  <2>2. QED
    BY <1>3, <1>4, <2>1
<1>5. CASE k # 1
  <2>1. k - 1 \in 1..n /\ ~(k <= k - 1)
    BY <1>3, <1>5
  <2>2. PICK g : Joins(g, s, k - 1, E)
    BY <1>2, <2>1
  <2> DEFINE f == [i \in 1..k |-> IF i = k THEN g[k - 1] \o s[k] ELSE g[i]]
  <2>3. g[k - 1] \in Seq(E) /\ s[k] \in Seq(E)
    BY <1>3, <2>1, <2>2 DEF Joins
  <2>4. g[k - 1] \o s[k] \in Seq(E)
    BY <2>3
  <2>5. f \in [1..k -> Seq(E)]
    BY <1>3, <2>2, <2>4 DEF Joins
  <2>6. ASSUME NEW i \in 1..k PROVE f[i] = IF i = 1 THEN s[i] ELSE f[i - 1] \o s[i]
    <3>1. CASE i = k
      <4>1. f[k - 1] = g[k - 1]
        BY <1>3, <2>1
      <4>2. QED
        BY <1>5, <3>1, <4>1
    <3>2. CASE i # k
      <4>1. i \in 1..(k - 1) /\ (i # 1 => i - 1 \in 1..(k - 1))
        BY <1>3, <3>2
      <4>2. g[i] = IF i = 1 THEN s[i] ELSE g[i - 1] \o s[i]
        BY <2>2, <4>1 DEF Joins
      <4>3. f[i] = g[i] /\ (i # 1 => f[i - 1] = g[i - 1])
        BY <1>3, <3>2, <4>1
      <4>4. QED
        BY <4>2, <4>3
    <3>3. QED
      BY <3>1, <3>2
  <2>7. Joins(f, s, k, E)
    BY <2>5, <2>6 DEF Joins
  <2>8. QED
    BY <1>3, <2>7
<1>6. QED
  BY <1>4, <1>5

\* Two functions are the same up to m.
Agree(f, g, m) == \A i \in 1..m : f[i] = g[i]

\* There is only one such f, which takes no more than s[1], ..., s[m] to tell.
LEMMA JoinUnique ==
    ASSUME NEW E, NEW m \in Nat, NEW s, NEW r, Agree(s, r, m),
           NEW f, NEW g, Joins(f, s, m, E), Joins(g, r, m, E)
    PROVE  Agree(f, g, m)
<1> DEFINE Bad == {i \in 1..m : f[i] # g[i]}
<1>1. SUFFICES ASSUME Bad # {} PROVE FALSE
  BY DEF Agree
<1>2. PICK k \in Bad : \A i \in Bad : k <= i
  <2>1. Bad \in SUBSET (0..m)
    OBVIOUS
  <2> HIDE DEF Bad
  <2>2. QED
    BY <1>1, <2>1, LeastExists
<1>3. k \in 1..m /\ f[k] # g[k]
  OBVIOUS
<1>4. k # 1 => k - 1 \in 1..m /\ ~(k <= k - 1)
  BY <1>3
<1>5. k # 1 => f[k - 1] = g[k - 1]
  BY <1>2, <1>4
<1>6. /\ f[k] = IF k = 1 THEN s[k] ELSE f[k - 1] \o s[k]
      /\ g[k] = IF k = 1 THEN r[k] ELSE g[k - 1] \o r[k]
      /\ s[k] = r[k]
  BY <1>3 DEF Joins, Agree
<1>7. QED
  BY <1>3, <1>5, <1>6

\* FlattenSeq() of one sequence or more ends with the last.
LEMMA FlattenJoins ==
    ASSUME NEW E, NEW n \in Nat \ {0}, NEW s \in [1..n -> Seq(E)]
    PROVE  \E f : Joins(f, s, n, E) /\ FlattenSeq(s) = f[n]
<1> DEFINE Body(g) == [i \in 1..n |-> IF i = 1 THEN s[i] ELSE g[i - 1] \o s[i]]
           h == CHOOSE g : g = Body(g)
<1>1. PICK f : Joins(f, s, n, E)
  BY JoinExists
<1>2. f = Body(f)
  BY <1>1 DEF Joins
<1>3. h = Body(h)
  BY <1>2
<1>4. Len(s) = n /\ n # 0
  OBVIOUS
<1>5. FlattenSeq(s) = h[n]
  BY <1>4 DEF FlattenSeq
<1>6. \A i \in 1..n : h[i] = IF i = 1 THEN s[i] ELSE h[i - 1] \o s[i]
  BY <1>3
<1> HIDE DEF h
<1> DEFINE Bad == {i \in 1..n : h[i] # f[i]}
<1>7. Bad = {}
  <2> SUFFICES ASSUME Bad # {} PROVE FALSE
    OBVIOUS
  <2>1. PICK k \in Bad : \A i \in Bad : k <= i
    <3>1. Bad \in SUBSET (0..n)
      OBVIOUS
    <3> HIDE DEF Bad
    <3>2. QED
      BY <3>1, LeastExists
  <2>2. k \in 1..n /\ h[k] # f[k]
    OBVIOUS
  <2>3. k # 1 => k - 1 \in 1..n /\ ~(k <= k - 1)
    BY <2>2
  <2>4. k # 1 => h[k - 1] = f[k - 1]
    BY <2>1, <2>3
  <2>5. QED
    BY <1>1, <1>6, <2>2, <2>4 DEF Joins
<1>8. h[n] = f[n]
  BY <1>7
<1>9. QED
  BY <1>1, <1>5, <1>8

\* So the sequences flatten to what all but the last flatten to, and the last.
LEMMA FlattenStep ==
    ASSUME NEW E, NEW n \in Nat \ {0}, NEW s \in [1..n -> Seq(E)]
    PROVE  /\ FlattenSeq(s) \in Seq(E)
           /\ FlattenSeq(s) = FlattenSeq([i \in 1..(n - 1) |-> s[i]]) \o s[n]
<1> DEFINE r == [i \in 1..(n - 1) |-> s[i]]
<1>1. PICK f : Joins(f, s, n, E) /\ FlattenSeq(s) = f[n]
  BY FlattenJoins
<1>2. FlattenSeq(s) \in Seq(E)
  BY <1>1 DEF Joins
<1>3. CASE n = 1
  <2>1. r = <<>>
    BY <1>3
  <2>2. Len(r) = 0
    BY <2>1
  <2>3. FlattenSeq(r) = <<>>
    BY <2>1, <2>2 DEF FlattenSeq
  <2>4. f[n] = s[n] /\ s[n] \in Seq(E)
    BY <1>1, <1>3 DEF Joins
  <2> HIDE DEF r
  <2>5. <<>> \o s[n] = s[n]
    BY <2>4
  <2>6. QED
    BY <1>1, <1>2, <2>3, <2>4, <2>5 DEF r
<1>4. CASE n # 1
  <2>1. n - 1 \in Nat \ {0} /\ n - 1 \in 1..n /\ r \in [1..(n - 1) -> Seq(E)]
    BY <1>4
  <2>2. PICK g : Joins(g, r, n - 1, E) /\ FlattenSeq(r) = g[n - 1]
    <3> HIDE DEF r
    <3>1. QED
      BY <2>1, FlattenJoins
  <2> DEFINE e == [i \in 1..(n - 1) |-> f[i]]
  <2>3. Joins(e, s, n - 1, E)
    <3>1. /\ f \in [1..n -> Seq(E)]
          /\ \A i \in 1..n : f[i] = IF i = 1 THEN s[i] ELSE f[i - 1] \o s[i]
      BY <1>1 DEF Joins
    <3>2. e \in [1..(n - 1) -> Seq(E)]
      BY <2>1, <3>1
    <3>3. ASSUME NEW i \in 1..(n - 1) PROVE e[i] = IF i = 1 THEN s[i] ELSE e[i - 1] \o s[i]
      <4>1. i \in 1..n /\ (i # 1 => i - 1 \in 1..(n - 1))
        BY <2>1
      <4>2. e[i] = f[i] /\ (i # 1 => e[i - 1] = f[i - 1])
        BY <4>1
      <4>3. QED
        BY <3>1, <4>1, <4>2
    <3> HIDE DEF e
    <3>4. QED
      BY <3>2, <3>3 DEF Joins
  <2>4. \A i \in 1..(n - 1) : e[i] = g[i]
    <3>1. PICK m \in Nat : m = n - 1
      BY <2>1
    <3>2. Agree(s, r, m)
      BY <3>1 DEF Agree
    <3> HIDE DEF r, e
    <3>3. Joins(e, s, m, E) /\ Joins(g, r, m, E)
      BY <2>2, <2>3, <3>1
    <3>4. Agree(e, g, m)
      BY <3>2, <3>3, JoinUnique
    <3>5. QED
      BY <3>1, <3>4 DEF Agree
  <2>5. f[n - 1] = g[n - 1]
    <3>1. n - 1 \in 1..(n - 1)
      BY <2>1
    <3>2. QED
      BY <2>4, <3>1
  <2>6. f[n] = f[n - 1] \o s[n]
    <3>1. n \in 1..n
      OBVIOUS
    <3>2. QED
      BY <1>1, <1>4, <3>1 DEF Joins
  <2> HIDE DEF r
  <2>7. QED
    BY <1>1, <1>2, <2>2, <2>5, <2>6 DEF r
<1>5. QED
  BY <1>3, <1>4

\* The candidates of the first q questions.
Upto(questions, q) == Flat(SubSeq(questions, 1, q))

\* They are those of the first q - 1 and then those of question q.
LEMMA UptoStep ==
    ASSUME NEW questions \in Seq(Question), NEW q \in 1..Len(questions)
    PROVE  /\ Upto(questions, q) \in Seq(Texts)
           /\ Upto(questions, q) = Upto(questions, q - 1) \o questions[q].texts
<1> DEFINE s(k) == [i \in 1..k |-> questions[i].texts]
<1>1. \A i \in 1..Len(questions) : questions[i].texts \in Seq(Texts)
  <2>1. \A i \in 1..Len(questions) : questions[i] \in Question
    BY ElementOfSeq
  <2>2. QED
    BY <2>1 DEF Question
<1>2. q \in Nat \ {0} /\ q <= Len(questions)
  OBVIOUS
<1>3. ASSUME NEW k \in 0..q PROVE Upto(questions, k) = FlattenSeq(s(k))
  <2>1. SubSeq(questions, 1, k) = [i \in 1..k |-> questions[i]]
    BY <1>2
  <2>2. [i \in DOMAIN SubSeq(questions, 1, k) |-> SubSeq(questions, 1, k)[i].texts] = s(k)
    BY <2>1
  <2>3. QED
    BY <2>2 DEF Upto, Flat
<1>4. s(q) \in [1..q -> Seq(Texts)]
  BY <1>1, <1>2
<1>5. [i \in 1..(q - 1) |-> s(q)[i]] = s(q - 1)
  BY <1>2
<1>6. s(q)[q] = questions[q].texts /\ q - 1 \in 0..q /\ q \in 0..q
  BY <1>2
<1> HIDE DEF s
<1>7. /\ FlattenSeq(s(q)) \in Seq(Texts)
      /\ FlattenSeq(s(q)) = FlattenSeq(s(q - 1)) \o questions[q].texts
  BY <1>2, <1>4, <1>5, <1>6, FlattenStep
<1>8. QED
  BY <1>3, <1>6, <1>7

\* None come before the first question, all up to the last.
LEMMA UptoIs ==
    ASSUME NEW questions \in Seq(Question)
    PROVE  /\ Upto(questions, 0) = <<>>
           /\ Upto(questions, Len(questions)) = Flat(questions)
           /\ \A k \in 0..Len(questions) : Upto(questions, k) \in Seq(Texts)
<1>1. Upto(questions, 0) = <<>>
  <2>1. SubSeq(questions, 1, 0) = <<>>
    BY SubSeqEmpty
  <2> DEFINE none == [q \in DOMAIN <<>> |-> <<>>[q].texts]
  <2>2. none = <<>> /\ Len(none) = 0
    OBVIOUS
  <2>3. Upto(questions, 0) = FlattenSeq(none)
    BY <2>1 DEF Upto, Flat
  <2> HIDE DEF none
  <2>4. QED
    BY <2>2, <2>3 DEF FlattenSeq
<1>2. Upto(questions, Len(questions)) = Flat(questions)
  BY SubSeqFull DEF Upto
<1>3. ASSUME NEW k \in 0..Len(questions) PROVE Upto(questions, k) \in Seq(Texts)
  <2>1. CASE k = 0
    BY <1>1, <2>1, EmptySeq
  <2>2. CASE k # 0
    <3>1. k \in 1..Len(questions)
      BY <2>2
    <3>2. QED
      BY <3>1, UptoStep
  <2>3. QED
    BY <2>1, <2>2
<1>4. QED
  BY <1>1, <1>2, <1>3

\* A sequence begins with another.
Begins(long, short) ==
    Len(short) <= Len(long) /\ \A i \in 1..Len(short) : long[i] = short[i]

LEMMA ConcatBegins ==
    ASSUME NEW E, NEW u \in Seq(E), NEW v \in Seq(E), NEW w \in Seq(E), Begins(v, u)
    PROVE  Begins(v \o w, u)
<1>1. /\ Len(v \o w) = Len(v) + Len(w) /\ Len(u) <= Len(v)
      /\ \A i \in 1..Len(v) : (v \o w)[i] = v[i]
      /\ \A i \in 1..Len(u) : v[i] = u[i]
      /\ Len(u) \in Nat /\ Len(v) \in Nat /\ Len(w) \in Nat
  BY ConcatProperties DEF Begins
<1>2. QED
  BY <1>1 DEF Begins

\* All candidates begin with those of the first q questions.
LEMMA UptoBegins ==
    ASSUME NEW questions \in Seq(Question), NEW q \in 0..Len(questions)
    PROVE  Begins(Flat(questions), Upto(questions, q))
<1> DEFINE n == Len(questions)
           Bad == {m \in q..n : ~Begins(Upto(questions, m), Upto(questions, q))}
<1>1. \A k \in 0..n : Upto(questions, k) \in Seq(Texts)
  BY UptoIs
<1>2. Bad = {}
  <2> SUFFICES ASSUME Bad # {} PROVE FALSE
    OBVIOUS
  <2>1. PICK m \in Bad : \A i \in Bad : m <= i
    <3>1. Bad \in SUBSET (0..n) /\ n \in Nat
      OBVIOUS
    <3> HIDE DEF Bad, n
    <3>2. QED
      BY <3>1, LeastExists
  <2>2. m \in q..n /\ ~Begins(Upto(questions, m), Upto(questions, q))
    OBVIOUS
  <2>3. m # q
    BY <1>1, <2>2 DEF Begins
  <2>4. m \in 1..n /\ m - 1 \in q..n /\ m - 1 \in 0..n /\ ~(m <= m - 1)
    BY <2>2, <2>3
  <2>5. Begins(Upto(questions, m - 1), Upto(questions, q))
    BY <2>1, <2>4
  <2>6. Upto(questions, m) = Upto(questions, m - 1) \o questions[m].texts
    BY <2>4, UptoStep
  <2>7. questions[m].texts \in Seq(Texts)
    <3>1. questions[m] \in Question
      BY <2>4, ElementOfSeq
    <3>2. QED
      BY <3>1 DEF Question
  <2>8. Upto(questions, m - 1) \in Seq(Texts) /\ Upto(questions, q) \in Seq(Texts)
    BY <1>1, <2>4
  <2>9. QED
    BY <2>2, <2>5, <2>6, <2>7, <2>8, ConcatBegins
<1>3. n \in q..n
  OBVIOUS
<1>4. Begins(Upto(questions, n), Upto(questions, q))
  BY <1>2, <1>3
<1>5. QED
  BY <1>4, UptoIs

\* So the candidates of question q come right after those of the questions
\* before it.
LEMMA FlatIs ==
    ASSUME NEW questions \in Seq(Question), NEW q \in 1..Len(questions)
    PROVE  LET before == Len(Upto(questions, q - 1))
               texts == questions[q].texts
               all == Flat(questions)
           IN  /\ all \in Seq(Texts) /\ texts \in Seq(Texts)
               /\ before \in Nat /\ before + Len(texts) <= Len(all)
               /\ \A i \in 1..Len(texts) : all[before + i] = texts[i]
<1> DEFINE u == Upto(questions, q - 1)
           v == Upto(questions, q)
           texts == questions[q].texts
           all == Flat(questions)
<1>1. q \in 0..Len(questions) /\ q - 1 \in 0..Len(questions) /\ Len(questions) \in 0..Len(questions)
  OBVIOUS
<1>2. u \in Seq(Texts) /\ v \in Seq(Texts) /\ all \in Seq(Texts)
  BY <1>1, UptoIs
<1>3. texts \in Seq(Texts)
  <2>1. questions[q] \in Question
    BY ElementOfSeq
  <2>2. QED
    BY <2>1 DEF Question
<1>4. v = u \o texts
  BY UptoStep
<1>5. Begins(all, v)
  BY <1>1, UptoBegins
<1> HIDE DEF u, v, texts, all
<1>6. /\ Len(v) = Len(u) + Len(texts) /\ Len(u) \in Nat /\ Len(texts) \in Nat /\ Len(all) \in Nat
      /\ \A i \in 1..Len(texts) : v[Len(u) + i] = texts[i]
  <2>1. /\ Len(v) = Len(u) + Len(texts) /\ Len(u) \in Nat /\ Len(texts) \in Nat
        /\ \A i \in 1 .. Len(u) + Len(texts) :
              v[i] = IF i <= Len(u) THEN u[i] ELSE texts[i - Len(u)]
    BY <1>2, <1>3, <1>4, ConcatProperties
  <2>2. ASSUME NEW i \in 1..Len(texts) PROVE v[Len(u) + i] = texts[i]
    <3>1. /\ Len(u) + i \in 1 .. Len(u) + Len(texts) /\ ~(Len(u) + i <= Len(u))
          /\ Len(u) + i - Len(u) = i
      BY <2>1
    <3>2. QED
      BY <2>1, <3>1
  <2>3. QED
    BY <1>2, <2>1, <2>2
<1>7. /\ Len(v) <= Len(all)
      /\ \A i \in 1..Len(v) : all[i] = v[i]
  BY <1>5 DEF Begins
<1>8. ASSUME NEW i \in 1..Len(texts) PROVE all[Len(u) + i] = texts[i]
  <2>1. Len(u) + i \in 1..Len(v)
    BY <1>6
  <2>2. QED
    BY <1>6, <1>7, <2>1
<1>9. QED
  BY <1>2, <1>3, <1>6, <1>7, <1>8 DEF u, texts, all

-----------------------------------------------------------------------------
(* The operators of the engine *)

\* What a payload is: one question or more.
LEMMA PayloadIs ==
    ASSUME NEW f \in Payloads
    PROVE  /\ f.questions \in Seq(Question) /\ Len(f.questions) \in Nat \ {0}
           /\ f.temperature \in [num : Int, den : Nat \ {0}]
<1>1. /\ f.questions \in Seq(Question) /\ f.questions # <<>>
      /\ f.temperature \in [num : Int, den : Nat \ {0}]
  BY ClmAssumption DEF Temperature
<1>2. QED
  BY <1>1, EmptySeq

\* The candidates of a payload that is accepted are texts that are not too
\* long, no question has none, and its temperature is greater than zero.
LEMMA AcceptedIs ==
    ASSUME NEW f \in Payloads, Accepts(f)
    PROVE  /\ Flat(f.questions) \in Seq(Texts \ TooLong) /\ Flat(f.questions) \in Seq(Texts)
           /\ \A q \in 1..Len(f.questions) : Len(f.questions[q].texts) \in Nat \ {0}
           /\ f.temperature \in [num : Nat \ {0}, den : Nat \ {0}]
<1>1. f.questions \in Seq(Question) /\ Len(f.questions) \in Nat \ {0}
  BY PayloadIs
<1>2. Flat(f.questions) \in Seq(Texts)
  BY <1>1, UptoIs
<1>3. \A i \in 1..Len(Flat(f.questions)) : Flat(f.questions)[i] \in Texts \ TooLong
  BY <1>2 DEF Accepts, ToSet
<1>4. Flat(f.questions) \in Seq(Texts \ TooLong)
  <2> DEFINE all == Flat(f.questions)
  <2>1. Len(all) \in Nat /\ DOMAIN all = 1..Len(all) /\ all = [i \in 1..Len(all) |-> all[i]]
    BY <1>2
  <2> HIDE DEF all
  <2>2. all \in [1..Len(all) -> Texts \ TooLong]
    BY <1>3, <2>1 DEF all
  <2>3. QED
    BY <2>1, <2>2 DEF all
<1>5. ASSUME NEW q \in 1..Len(f.questions) PROVE Len(f.questions[q].texts) \in Nat \ {0}
  <2>1. f.questions[q] \in Question
    BY <1>1, ElementOfSeq
  <2>2. f.questions[q].texts \in Seq(Texts)
    BY <2>1 DEF Question
  <2>3. f.questions[q].texts # <<>>
    BY <1>1 DEF Accepts
  <2>4. QED
    BY <2>2, <2>3, EmptySeq
<1>6. f.temperature \in [num : Nat \ {0}, den : Nat \ {0}]
  <2>1. f.temperature \in [num : Int, den : Nat \ {0}] /\ 0 < f.temperature.num
    BY PayloadIs DEF Accepts
  <2>2. QED
    BY <2>1
<1>7. QED
  BY <1>2, <1>4, <1>5, <1>6

\* What is sent to be encoded is each candidate that is not known, once.
LEMMA MissingIs ==
    ASSUME NEW t \in Threads, NEW known, payload[t] \in Payloads, Accepts(payload[t])
    PROVE  /\ Missing(t, known) \in Seq(Texts \ TooLong)
           /\ ToSet(Missing(t, known)) = ToSet(Candidates(t)) \ known
           /\ \A i, j \in DOMAIN Missing(t, known) :
                 Missing(t, known)[i] = Missing(t, known)[j] => i = j
<1> DEFINE texts == Candidates(t)
           E == Texts \ TooLong
           firsts == {i \in DOMAIN texts :
                         texts[i] \notin known /\ \A j \in 1 .. i - 1 : texts[j] # texts[i]}
           A == Ascending(firsts)
           c == Cardinality(firsts)
           sent == Missing(t, known)
<1>1. texts \in Seq(E)
  BY AcceptedIs DEF Candidates
<1>2. sent = Those(texts, firsts)
  BY DEF Missing
<1>3. firsts \in SUBSET (1..Len(texts)) /\ DOMAIN texts = 1..Len(texts) /\ Len(texts) \in Nat
  <2> HIDE DEF texts, E
  <2>1. DOMAIN texts = 1..Len(texts) /\ Len(texts) \in Nat
    BY <1>1
  <2>2. QED
    BY <2>1
<1>4. \A i \in firsts : texts[i] \notin known /\ \A j \in 1 .. i - 1 : texts[j] # texts[i]
  OBVIOUS
<1>5. \A i \in DOMAIN texts :
        texts[i] \notin known /\ (\A j \in 1 .. i - 1 : texts[j] # texts[i]) => i \in firsts
  OBVIOUS
<1> HIDE DEF texts, E, firsts, sent, A, c
<1>6. /\ sent \in Seq(E) /\ DOMAIN sent = 1..c /\ A \in [1..c -> firsts]
      /\ \A k \in 1..c : sent[k] = texts[A[k]]
      /\ \A k, l \in 1..c : k < l => A[k] < A[l]
      /\ c \in Nat
  BY <1>1, <1>2, <1>3, ThoseIs DEF A, c
<1>7. ToSet(sent) = {texts[i] : i \in firsts}
  BY <1>1, <1>2, <1>3, ThoseHas DEF At
<1>8. ToSet(sent) \subseteq ToSet(texts) \ known
  BY <1>3, <1>4, <1>7 DEF ToSet
<1>9. ASSUME NEW x \in ToSet(texts) \ known PROVE x \in ToSet(sent)
  <2> DEFINE places == {i \in 1..Len(texts) : texts[i] = x}
  <2>1. places # {} /\ places \in SUBSET (0..Len(texts))
    BY <1>3 DEF ToSet
  <2>2. PICK i \in places : \A j \in places : i <= j
    <3> HIDE DEF places
    <3>1. QED
      BY <1>3, <2>1, LeastExists
  <2>3. i \in 1..Len(texts) /\ texts[i] = x
    OBVIOUS
  <2>4. ASSUME NEW j \in 1 .. i - 1 PROVE texts[j] # x
    <3>1. j \in 1..Len(texts) /\ ~(i <= j)
      BY <1>3, <2>3
    <3>2. QED
      BY <2>2, <3>1
  <2>5. i \in firsts
    BY <1>3, <1>5, <2>3, <2>4
  <2>6. QED
    BY <1>7, <2>3, <2>5
<1>10. ASSUME NEW i \in 1..c, NEW j \in 1..c, sent[i] = sent[j], i < j PROVE FALSE
  <2>1. A[i] < A[j] /\ A[j] \in firsts /\ A[i] \in firsts /\ texts[A[i]] = texts[A[j]]
    BY <1>6, <1>10
  <2>2. A[i] \in 1 .. A[j] - 1
    <3>1. \A k \in firsts : k \in Int /\ 1 <= k
      BY <1>3
    <3> HIDE DEF A
    <3>2. A[i] \in Int /\ A[j] \in Int /\ 1 <= A[i]
      BY <2>1, <3>1
    <3>3. QED
      BY <2>1, <3>2
  <2>3. QED
    BY <1>4, <2>1, <2>2
<1>11. ASSUME NEW i \in 1..c, NEW j \in 1..c, sent[i] = sent[j] PROVE i = j
  <2>1. i < j \/ j < i \/ i = j
    BY <1>6
  <2>2. QED
    BY <1>10, <1>11, <2>1
<1>12. QED
  BY <1>6, <1>8, <1>9, <1>11 DEF sent, texts, E

\* Any reply with one entry per text is put into the order of the texts.
LEMMA DecodedIs ==
    ASSUME NEW E, NEW sent \in Seq(E), NEW reply, Usable(reply, Len(sent))
    PROVE  Decoded(sent, reply) = sent
<1>1. DOMAIN sent = 1..Len(sent) /\ sent = [i \in 1..Len(sent) |-> sent[i]]
  OBVIOUS
<1>2. ASSUME NEW i \in 1..Len(sent)
      PROVE  reply[CHOOSE k \in DOMAIN reply : reply[k] = i] = i
  <2>1. i \in {reply[k] : k \in DOMAIN reply}
    BY DEF Usable, ToSet
  <2>2. QED
    BY <2>1
<1>3. Decoded(sent, reply) = [i \in 1..Len(sent) |-> sent[reply[CHOOSE k \in DOMAIN reply : reply[k] = i]]]
  BY <1>1 DEF Decoded
<1>4. QED
  BY <1>1, <1>2, <1>3

\* Trim() drops the first entries, if there are too many.
LEMMA TrimIs ==
    ASSUME NEW E, NEW entries \in Seq(E)
    PROVE  /\ Trim(entries) \in Seq(E) /\ Len(Trim(entries)) <= Entries
           /\ Len(Trim(entries)) = Entries \/ Trim(entries) = entries
           /\ \E d \in Nat : /\ Len(entries) = d + Len(Trim(entries))
                             /\ \A i \in 1..Len(Trim(entries)) : Trim(entries)[i] = entries[d + i]
<1>1. Entries \in Nat /\ Len(entries) \in Nat
  BY ClmAssumption
<1>2. CASE Len(entries) > Entries
  <2> DEFINE d == Len(entries) - Entries
             kept == SubSeq(entries, d + 1, Len(entries))
  <2>1. d \in Nat /\ d + 1 \in Int /\ \A i \in (d + 1) .. Len(entries) : entries[i] \in E
    BY <1>1, <1>2
  <2>2. Trim(entries) = kept
    BY <1>1, <1>2 DEF Trim
  <2>3. /\ kept \in Seq(E)
        /\ Len(kept) = IF d + 1 <= Len(entries) THEN Len(entries) - (d + 1) + 1 ELSE 0
        /\ \A i \in 1 .. Len(entries) - (d + 1) + 1 : kept[i] = entries[d + 1 + i - 1]
    <3> HIDE DEF d
    <3>1. QED
      BY <1>1, <2>1, SubSeqProperties
  <2>4. Len(kept) = Entries /\ Len(entries) = d + Len(kept)
    BY <1>1, <1>2, <2>1, <2>3
  <2>5. \A i \in 1..Len(kept) : kept[i] = entries[d + i]
    <3> HIDE DEF kept
    <3> TAKE i \in 1..Len(kept)
    <3>1. i \in 1 .. Len(entries) - (d + 1) + 1 /\ d + 1 + i - 1 = d + i
      BY <1>1, <2>1, <2>4
    <3>2. QED
      BY <2>3, <3>1
  <2> HIDE DEF kept, d
  <2>6. kept \in Seq(E) /\ Len(kept) <= Entries /\ Len(kept) = Entries
    BY <1>1, <2>3, <2>4
  <2>7. d \in Nat /\ Len(entries) = d + Len(kept) /\ \A i \in 1..Len(kept) : kept[i] = entries[d + i]
    BY <2>1, <2>4, <2>5
  <2>8. QED
    BY <2>2, <2>6, <2>7
<1>3. CASE ~(Len(entries) > Entries)
  <2>1. Trim(entries) = entries
    BY <1>3, SubSeqFull DEF Trim
  <2>2. \E d \in Nat : /\ Len(entries) = d + Len(entries)
                       /\ \A i \in 1..Len(entries) : entries[i] = entries[d + i]
    <3>1. Len(entries) = 0 + Len(entries) /\ \A i \in 1..Len(entries) : entries[i] = entries[0 + i]
      BY <1>1
    <3>2. QED
      BY <3>1
  <2>3. Len(entries) <= Entries
    BY <1>1, <1>3
  <2>4. QED
    BY <2>1, <2>2, <2>3
<1>4. QED
  BY <1>2, <1>3

\* Sound entries are sound when some are taken away.
LEMMA SoundThose ==
    ASSUME NEW entries \in Seq(Entry), NEW S \in SUBSET (1..Len(entries)), NEW filled, NEW used,
           Sound(entries, filled, used)
    PROVE  Sound(Those(entries, S), filled, used)
<1> DEFINE T == Those(entries, S)
           A == Ascending(S)
           c == Cardinality(S)
<1>1. /\ DOMAIN T = 1..c /\ A \in [1..c -> S]
      /\ \A k \in 1..c : T[k] = entries[A[k]]
      /\ \A k, l \in 1..c : k < l => A[k] < A[l]
  BY ThoseIs
<1>. c \in Nat
  BY ThoseIs
<1>2. DOMAIN entries = 1..Len(entries) /\ \A i \in 1..Len(entries) : i \in Int
  OBVIOUS
<1> HIDE DEF T, A, c
<1>3. \A k \in 1..c : A[k] \in DOMAIN entries /\ A[k] \in Int
  BY <1>1, <1>2
<1>4. \A k, l \in 1..c : k <= l => A[k] <= A[l]
  <2> TAKE k, l \in 1..c
  <2>1. k < l \/ k = l \/ l < k
    BY <1>1
  <2>2. QED
    BY <1>1, <1>3, <2>1
<1>5. ASSUME NEW k \in 1..c, NEW l \in 1..c, A[k] = A[l] PROVE k = l
  <2>1. k < l \/ k = l \/ l < k
    BY <1>1
  <2>2. QED
    BY <1>1, <1>3, <1>5, <2>1
<1>6. ASSUME NEW k \in 1..c, NEW l \in 1..c, T[k].text = T[l].text PROVE k = l
  <2>1. entries[A[k]].text = entries[A[l]].text
    BY <1>1, <1>6
  <2>2. A[k] = A[l]
    BY <1>3, <2>1 DEF Sound
  <2>3. QED
    BY <1>5, <2>2
<1>7. \A k \in 1..c : /\ T[k].vector = T[k].text
                      /\ filled[T[k].text] # 0
                      /\ T[k].expiry = filled[T[k].text] + TTL
  BY <1>1, <1>3 DEF Sound
<1>8. \A k, l \in 1..c : k <= l => used[T[k].text] <= used[T[l].text]
  BY <1>1, <1>3, <1>4 DEF Sound
<1>9. QED
  BY <1>1, <1>6, <1>7, <1>8 DEF Sound, T

\* ... or when the first ones are.
LEMMA SoundTrim ==
    ASSUME NEW entries \in Seq(Entry), NEW filled, NEW used, Sound(entries, filled, used)
    PROVE  Sound(Trim(entries), filled, used)
<1> DEFINE T == Trim(entries)
<1>1. T \in Seq(Entry)
  BY TrimIs
<1>2. PICK d \in Nat : /\ Len(entries) = d + Len(T)
                       /\ \A i \in 1..Len(T) : T[i] = entries[d + i]
  BY TrimIs
<1> HIDE DEF T
<1>3. DOMAIN T = 1..Len(T) /\ Len(T) \in Nat /\ DOMAIN entries = 1..Len(entries)
  BY <1>1
<1>4. \A i \in 1..Len(T) : d + i \in DOMAIN entries
  BY <1>2, <1>3
<1>5. \A i, j \in 1..Len(T) : i <= j => d + i <= d + j
  BY <1>2, <1>3
<1>6. \A i, j \in 1..Len(T) : d + i = d + j => i = j
  BY <1>2, <1>3
<1>7. ASSUME NEW i \in 1..Len(T), NEW j \in 1..Len(T), T[i].text = T[j].text PROVE i = j
  <2>1. entries[d + i].text = entries[d + j].text
    BY <1>2, <1>7
  <2>2. d + i = d + j
    BY <1>4, <2>1 DEF Sound
  <2>3. QED
    BY <1>6, <2>2
<1>8. \A i \in 1..Len(T) : /\ T[i].vector = T[i].text
                           /\ filled[T[i].text] # 0
                           /\ T[i].expiry = filled[T[i].text] + TTL
  BY <1>2, <1>4 DEF Sound
<1>9. \A i, j \in 1..Len(T) : i <= j => used[T[i].text] <= used[T[j].text]
  BY <1>2, <1>4, <1>5 DEF Sound
<1>10. QED
  BY <1>3, <1>7, <1>8, <1>9 DEF Sound, T

\* The members of two sequences, one after the other.
LEMMA ConcatHas ==
    ASSUME NEW E, NEW a \in Seq(E), NEW b \in Seq(E)
    PROVE  ToSet(a \o b) = ToSet(a) \cup ToSet(b)
<1>1. /\ a \o b \in Seq(E) /\ Len(a \o b) = Len(a) + Len(b)
      /\ \A i \in 1 .. Len(a) + Len(b) : (a \o b)[i] = IF i <= Len(a) THEN a[i] ELSE b[i - Len(a)]
      /\ Len(a) \in Nat /\ Len(b) \in Nat
      /\ DOMAIN a = 1..Len(a) /\ DOMAIN b = 1..Len(b)
  BY ConcatProperties
<1> DEFINE ab == a \o b
<1>2. DOMAIN ab = 1 .. Len(a) + Len(b)
  BY <1>1
<1>3. \A i \in 1 .. Len(a) + Len(b) : ab[i] = IF i <= Len(a) THEN a[i] ELSE b[i - Len(a)]
  BY <1>1
<1> HIDE DEF ab
<1>4. ASSUME NEW x \in ToSet(ab) PROVE x \in ToSet(a) \cup ToSet(b)
  <2>1. PICK i \in 1 .. Len(a) + Len(b) : x = ab[i]
    BY <1>2 DEF ToSet
  <2>2. CASE i <= Len(a)
    <3>1. i \in 1..Len(a) /\ x = a[i]
      BY <1>1, <1>3, <2>1, <2>2
    <3>2. QED
      BY <1>1, <3>1 DEF ToSet
  <2>3. CASE ~(i <= Len(a))
    <3>1. i - Len(a) \in 1..Len(b) /\ x = b[i - Len(a)]
      BY <1>1, <1>3, <2>1, <2>3
    <3>2. QED
      BY <1>1, <3>1 DEF ToSet
  <2>4. QED
    BY <2>2, <2>3
<1>5. ASSUME NEW x \in ToSet(a) PROVE x \in ToSet(ab)
  <2>1. PICK i \in 1..Len(a) : x = a[i]
    BY <1>1 DEF ToSet
  <2>2. i \in 1 .. Len(a) + Len(b) /\ i <= Len(a)
    BY <1>1
  <2>3. x = ab[i]
    BY <1>3, <2>1, <2>2
  <2>4. QED
    BY <1>2, <2>2, <2>3 DEF ToSet
<1>6. ASSUME NEW x \in ToSet(b) PROVE x \in ToSet(ab)
  <2>1. PICK i \in 1..Len(b) : x = b[i]
    BY <1>1 DEF ToSet
  <2>2. /\ Len(a) + i \in 1 .. Len(a) + Len(b) /\ ~(Len(a) + i <= Len(a))
        /\ Len(a) + i - Len(a) = i
    BY <1>1
  <2>3. ab[Len(a) + i] = b[i]
    BY <1>3, <2>2
  <2>4. QED
    BY <1>2, <2>1, <2>2, <2>3 DEF ToSet
<1>7. QED
  BY <1>4, <1>5, <1>6 DEF ab

\* Sound entries are sound one after the other if they share no text and the
\* later ones were used no earlier.
LEMMA SoundConcat ==
    ASSUME NEW a \in Seq(Entry), NEW b \in Seq(Entry), NEW filled, NEW used,
           Sound(a, filled, used), Sound(b, filled, used),
           \A e \in ToSet(a), f \in ToSet(b) :
              e.text # f.text /\ used[e.text] <= used[f.text]
    PROVE  Sound(a \o b, filled, used)
<1> DEFINE ab == a \o b
           m == Len(a)
           n == Len(b)
<1>1. m \in Nat /\ n \in Nat /\ DOMAIN a = 1..m /\ DOMAIN b = 1..n
  OBVIOUS
<1>2. DOMAIN ab = 1 .. m + n
  <2>1. ab \in Seq(Entry) /\ Len(ab) = m + n
    BY ConcatProperties
  <2> HIDE DEF ab
  <2>2. QED
    BY <2>1
<1>3. \A i \in 1 .. m + n : ab[i] = IF i <= m THEN a[i] ELSE b[i - m]
  BY ConcatProperties
<1> HIDE DEF ab, m, n
<1>4. \A i \in 1 .. m + n : \/ i <= m /\ i \in DOMAIN a /\ ab[i] = a[i]
                            \/ i > m /\ i - m \in DOMAIN b /\ ab[i] = b[i - m]
  BY <1>1, <1>3
<1>5. \A i \in DOMAIN a, j \in DOMAIN b :
         a[i].text # b[j].text /\ used[a[i].text] <= used[b[j].text]
  BY DEF ToSet
<1>6. ASSUME NEW i \in 1 .. m + n, NEW j \in 1 .. m + n, ab[i].text = ab[j].text PROVE i = j
  <2>1. CASE i <= m /\ j <= m
    BY <1>1, <1>4, <1>6, <2>1 DEF Sound
  <2>2. CASE i > m /\ j > m
    <3>1. i - m = j - m
      BY <1>1, <1>4, <1>6, <2>2 DEF Sound
    <3>2. QED
      BY <1>1, <3>1
  <2>3. CASE i <= m /\ j > m
    BY <1>1, <1>4, <1>5, <1>6, <2>3
  <2>4. CASE i > m /\ j <= m
    BY <1>1, <1>4, <1>5, <1>6, <2>4
  <2>5. QED
    BY <1>1, <2>1, <2>2, <2>3, <2>4
<1>7. \A i \in 1 .. m + n : /\ ab[i].vector = ab[i].text
                            /\ filled[ab[i].text] # 0
                            /\ ab[i].expiry = filled[ab[i].text] + TTL
  BY <1>4 DEF Sound
<1>8. ASSUME NEW i \in 1 .. m + n, NEW j \in 1 .. m + n, i <= j
      PROVE  used[ab[i].text] <= used[ab[j].text]
  <2>1. CASE j <= m
    <3>1. i <= m
      BY <1>1, <1>8, <2>1
    <3>2. QED
      BY <1>1, <1>4, <1>8, <2>1, <3>1 DEF Sound
  <2>2. CASE i > m
    <3>1. j > m /\ i - m <= j - m
      BY <1>1, <1>8, <2>2
    <3>2. QED
      BY <1>1, <1>4, <2>2, <3>1 DEF Sound
  <2>3. CASE i <= m /\ j > m
    BY <1>1, <1>4, <1>5, <2>3
  <2>4. QED
    BY <1>1, <2>1, <2>2, <2>3
<1>9. QED
  BY <1>2, <1>6, <1>7, <1>8 DEF Sound, ab

\* What a fill puts into the cache is sound at the new times of filling and of
\* use, and has all that was in it.
LEMMA TouchIs ==
    ASSUME TypeOK, CacheInv, NEW t \in Threads,
           ToSet(missing[t]) = ToSet(Candidates(t)) \ Cached,
           \A i, j \in DOMAIN missing[t] : missing[t][i] = missing[t][j] => i = j,
           NEW fill \in Seq(Entry), DOMAIN fill = DOMAIN missing[t],
           \A k \in DOMAIN fill : /\ fill[k].text = missing[t][k] /\ fill[k].vector = fill[k].text
                                  /\ fill[k].expiry = clock + TTL,
           NEW filled \in [Texts -> Nat], NEW used \in [Texts -> Nat],
           \A x \in Texts : filled[x] = IF x \in ToSet(missing[t]) THEN clock ELSE filledAt[x],
           \A x \in Texts : used[x] = IF x \in ToSet(Candidates(t)) THEN uses + 1 ELSE lastUse[x]
    PROVE  /\ Touch(t, fill) \in Seq(Entry)
           /\ ToSet(Touch(t, fill)) = ToSet(cache) \cup ToSet(fill)
           /\ Sound(Touch(t, fill), filled, used)
<1> DEFINE asked == ToSet(Candidates(t))
           hits == {i \in DOMAIN cache : cache[i].text \in asked}
           rest == DOMAIN cache \ hits
           old == Those(cache, rest)
           hit == Those(cache, hits)
<1>0. /\ \A k \in DOMAIN fill : /\ fill[k].text = missing[t][k]
                                /\ fill[k].text \in ToSet(missing[t])
                                /\ fill[k].vector = fill[k].text
                                /\ fill[k].expiry = clock + TTL
      /\ \A i, j \in DOMAIN fill : missing[t][i] = missing[t][j] => i = j
  <2>1. \A k \in DOMAIN fill : missing[t][k] \in ToSet(missing[t])
    BY DEF ToSet
  <2>2. \A k \in DOMAIN fill : fill[k].text \in ToSet(missing[t])
    BY <2>1
  <2>3. \A i, j \in DOMAIN fill : missing[t][i] = missing[t][j] => i = j
    OBVIOUS
  <2>4. QED
    BY <2>2, <2>3
<1>1. /\ cache \in Seq(Entry) /\ DOMAIN cache = 1..Len(cache)
      /\ \A i \in DOMAIN cache : cache[i].text \in Texts
      /\ uses \in Nat /\ lastUse \in [Texts -> Nat] /\ clock \in Nat \ {0}
  <2>1. cache \in Seq(Entry) /\ uses \in Nat /\ lastUse \in [Texts -> Nat] /\ clock \in Nat \ {0}
    BY ClmAssumption DEF TypeOK
  <2>2. DOMAIN cache = 1..Len(cache) /\ \A i \in 1..Len(cache) : cache[i] \in Entry
    BY <2>1
  <2>3. QED
    BY <2>1, <2>2 DEF Entry
<1>2. hits \in SUBSET (1..Len(cache)) /\ rest \in SUBSET (1..Len(cache))
  BY <1>1
<1>3. old \in Seq(Entry) /\ hit \in Seq(Entry)
  BY <1>1, <1>2, ThoseIs
<1>4. ToSet(old) = {cache[i] : i \in rest} /\ ToSet(hit) = {cache[i] : i \in hits}
  <2> HIDE DEF hits, rest
  <2>1. ToSet(old) = At(cache, rest) /\ ToSet(hit) = At(cache, hits)
    BY <1>1, <1>2, ThoseHas
  <2>2. QED
    BY <2>1 DEF At
<1>5. /\ \A e \in ToSet(old) : e.text \in Texts \cap Cached /\ e.text \notin asked
      /\ \A e \in ToSet(hit) : e.text \in Texts \cap Cached /\ e.text \in asked
      /\ ToSet(old) \cup ToSet(hit) = ToSet(cache)
  <2>1. \A i \in DOMAIN cache : cache[i].text \in Texts \cap Cached
    BY <1>1 DEF Cached
  <2>2. /\ \A e \in ToSet(old) : \E i \in rest : e = cache[i]
        /\ \A e \in ToSet(hit) : \E i \in hits : e = cache[i]
    BY <1>4
  <2>3. /\ \A i \in rest : i \in DOMAIN cache /\ cache[i].text \notin asked
        /\ \A i \in hits : i \in DOMAIN cache /\ cache[i].text \in asked
        /\ rest \cup hits = DOMAIN cache
    OBVIOUS
  <2>4. ToSet(cache) = {cache[i] : i \in DOMAIN cache}
    BY DEF ToSet
  <2> HIDE DEF old, hit, hits, rest, asked
  <2>5. {cache[i] : i \in rest} \cup {cache[i] : i \in hits} = {cache[i] : i \in DOMAIN cache}
    BY <2>3
  <2>6. QED
    BY <1>4, <2>1, <2>2, <2>3, <2>4, <2>5
<1>6. \A e \in ToSet(fill) : e.text \in Texts /\ e.text \notin Cached /\ e.text \in asked
  <2>1. \A k \in DOMAIN fill : fill[k].text \notin Cached /\ fill[k].text \in asked
    BY <1>0
  <2>2. \A k \in DOMAIN fill : fill[k].text \in Texts
    <3>1. \A k \in DOMAIN fill : fill[k] \in Entry
      OBVIOUS
    <3>2. QED
      BY <3>1 DEF Entry
  <2>3. QED
    BY <2>1, <2>2 DEF ToSet
<1>7. /\ \A x \in Texts \cap Cached : filled[x] = filledAt[x]
      /\ \A x \in Texts \ asked : used[x] = lastUse[x] /\ used[x] <= uses
      /\ \A x \in Texts \cap asked : used[x] = uses + 1
  BY DEF CacheInv
<1>8. Sound(cache, filledAt, lastUse)
  BY DEF CacheInv
<1>9. Sound(cache, filled, lastUse)
  <2>1. \A i \in DOMAIN cache : filled[cache[i].text] = filledAt[cache[i].text]
    BY <1>1, <1>7 DEF Cached
  <2>2. QED
    BY <1>8, <2>1 DEF Sound
<1>10. Sound(old, filled, lastUse) /\ Sound(hit, filled, lastUse)
  BY <1>1, <1>2, <1>9, SoundThose
<1>11. Touch(t, fill) = old \o hit \o fill
  BY DEF Touch
<1> HIDE DEF old, hit, hits, rest, asked
<1>12. Sound(old, filled, used)
  <2>1. \A i \in DOMAIN old : used[old[i].text] = lastUse[old[i].text]
    BY <1>5, <1>7 DEF ToSet
  <2>2. QED
    BY <1>10, <2>1 DEF Sound
<1>13. Sound(hit, filled, used)
  <2>1. \A i \in DOMAIN hit : used[hit[i].text] = uses + 1
    BY <1>5, <1>7 DEF ToSet
  <2>2. uses + 1 <= uses + 1
    BY <1>1
  <2>3. QED
    BY <1>10, <2>1, <2>2 DEF Sound
<1>14. Sound(fill, filled, used)
  <2>1. \A i \in DOMAIN fill : used[fill[i].text] = uses + 1
    BY <1>6, <1>7 DEF ToSet
  <2>2. uses + 1 <= uses + 1
    BY <1>1
  <2>3. \A i \in DOMAIN fill : fill[i].text \in Texts
    BY <1>6 DEF ToSet
  <2>4. \A i \in DOMAIN fill : /\ fill[i].vector = fill[i].text
                               /\ filled[fill[i].text] # 0
                               /\ fill[i].expiry = filled[fill[i].text] + TTL
    BY <1>0, <1>1, <2>3
  <2>5. \A i, j \in DOMAIN fill : fill[i].text = fill[j].text => i = j
    BY <1>0
  <2>6. QED
    BY <2>1, <2>2, <2>4, <2>5 DEF Sound
<1>15. \A e \in ToSet(old), f \in ToSet(hit) : e.text # f.text /\ used[e.text] <= used[f.text]
  <2>1. \A e \in ToSet(old) : used[e.text] <= uses /\ used[e.text] \in Nat
    BY <1>5, <1>7
  <2>2. \A f \in ToSet(hit) : used[f.text] = uses + 1
    BY <1>5, <1>7
  <2>3. QED
    BY <1>1, <1>5, <2>1, <2>2
<1>16. Sound(old \o hit, filled, used)
  BY <1>3, <1>12, <1>13, <1>15, SoundConcat
<1>17. old \o hit \in Seq(Entry) /\ ToSet(old \o hit) = ToSet(cache)
  <2>1. ToSet(old \o hit) = ToSet(old) \cup ToSet(hit)
    BY <1>3, ConcatHas
  <2>2. QED
    BY <1>3, <1>5, <2>1
<1>18. \A e \in ToSet(old \o hit), f \in ToSet(fill) :
          e.text # f.text /\ used[e.text] <= used[f.text]
  <2>1. ToSet(old \o hit) = ToSet(old) \cup ToSet(hit)
    BY <1>5, <1>17
  <2>2. \A e \in ToSet(old) \cup ToSet(hit) : /\ e.text \in Cached /\ used[e.text] \in Nat
                                              /\ used[e.text] <= uses \/ used[e.text] = uses + 1
    BY <1>5, <1>7
  <2>3. \A f \in ToSet(fill) : f.text \notin Cached /\ used[f.text] = uses + 1
    BY <1>6, <1>7
  <2>4. ASSUME NEW e \in ToSet(old) \cup ToSet(hit), NEW f \in ToSet(fill)
        PROVE  e.text # f.text /\ used[e.text] <= used[f.text]
    <3>1. /\ e.text \in Cached /\ used[e.text] \in Nat
          /\ used[e.text] <= uses \/ used[e.text] = uses + 1
      BY <2>2
    <3>2. f.text \notin Cached /\ used[f.text] = uses + 1
      BY <2>3
    <3>3. QED
      BY <1>1, <3>1, <3>2
  <2>5. QED
    BY <2>1, <2>4
<1>19. Sound(old \o hit \o fill, filled, used)
  BY <1>14, <1>16, <1>17, <1>18, SoundConcat
<1>20. /\ old \o hit \o fill \in Seq(Entry)
       /\ ToSet(old \o hit \o fill) = ToSet(cache) \cup ToSet(fill)
  <2> DEFINE both == old \o hit
  <2>1. both \in Seq(Entry) /\ ToSet(both) = ToSet(cache)
    BY <1>17
  <2> HIDE DEF both
  <2>2. both \o fill \in Seq(Entry) /\ ToSet(both \o fill) = ToSet(both) \cup ToSet(fill)
    <3>1. both \o fill \in Seq(Entry)
      BY <2>1
    <3>2. QED
      BY <2>1, <3>1, ConcatHas
  <2>3. QED
    BY <2>1, <2>2 DEF both
<1>21. QED
  BY <1>11, <1>19, <1>20

\* Whatever a thread was asked, or nothing yet.
LEMMA PayloadTyped ==
    ASSUME TypeOK, NEW t \in Threads
    PROVE  /\ payload[t].questions \in Seq(Question)
           /\ Candidates(t) \in Seq(Texts) /\ States(t) \in Seq(Vector)
           /\ Len(States(t)) = Len(payload[t].questions)
           /\ Len(payload[t].questions) \in Nat
           /\ \A q \in 1..Len(payload[t].questions) : States(t)[q] = State(t, q)
<1>1. payload[t].questions \in Seq(Question)
  <2>1. payload[t] \in Payloads \/ payload[t] = NoPayload
    BY DEF TypeOK
  <2>2. CASE payload[t] \in Payloads
    BY <2>2, PayloadIs
  <2>3. CASE payload[t] = NoPayload
    BY <2>3 DEF NoPayload
  <2>4. QED
    BY <2>1, <2>2, <2>3
<1>2. Candidates(t) \in Seq(Texts)
  <2>1. Len(payload[t].questions) \in 0..Len(payload[t].questions)
    BY <1>1
  <2>2. QED
    BY <1>1, <2>1, UptoIs DEF Candidates
<1> DEFINE n == Len(payload[t].questions)
<1>3. n \in Nat /\ States(t) = [q \in 1..n |-> State(t, q)]
  BY <1>1 DEF States
<1>4. \A q \in 1..n : State(t, q) \in Vector
  <2> TAKE q \in 1..n
  <2>1. q \in Nat /\ t \in Threads /\ "state" \in {"state"}
    BY <1>3
  <2>2. QED
    BY <2>1 DEF State, Vector
<1> HIDE DEF n
<1>5. States(t) \in [1..n -> Vector] /\ n \in Nat /\ \A q \in 1..n : States(t)[q] = State(t, q)
  BY <1>3, <1>4
<1>6. States(t) \in Seq(Vector) /\ Len(States(t)) = n
  BY <1>5
<1>7. QED
  BY <1>1, <1>2, <1>5, <1>6 DEF n

\* A request that gets its encoding gets the vectors of its states and then of
\* its candidates, and what it fills into the cache are the missing ones.
LEMMA EncodesIs ==
    ASSUME TypeOK, CacheInv, RequestInv, NEW t \in Threads, EncodeSucceeds(t)
    PROVE  /\ vectors' = [vectors EXCEPT ![t] = States(t) \o Candidates(t)]
           /\ \E fill \in Seq(Entry) :
                 /\ DOMAIN fill = DOMAIN missing[t]
                 /\ \A k \in DOMAIN fill : /\ fill[k].text = missing[t][k]
                                           /\ fill[k].vector = fill[k].text
                                           /\ fill[k].expiry = clock + TTL
                 /\ cache' = IF Entries = 0 THEN cache ELSE Trim(Touch(t, fill))
<1> DEFINE n == Len(payload[t].questions)
           m == Len(missing[t])
<1>0. at[t] = "encoding"
  BY DEF EncodeSucceeds
<1>1. /\ States(t) \in Seq(Vector) /\ Len(States(t)) = n /\ n \in Nat
      /\ Candidates(t) \in Seq(Texts)
  BY PayloadTyped
<1>2. ToSet(missing[t]) = ToSet(Candidates(t)) \ Cached
  BY <1>0 DEF RequestInv, RequestRight
<1>3. /\ missing[t] \in Seq(Texts \ TooLong) /\ missing[t] \in Seq(Vector)
      /\ m \in Nat /\ DOMAIN missing[t] = 1..m
      /\ \A k \in 1..m : missing[t][k] \in Texts \ TooLong
  <2>1. missing[t] \in Seq(Texts \ TooLong)
    BY DEF TypeOK
  <2>2. Texts \ TooLong \subseteq Vector
    BY DEF Vector
  <2>3. missing[t] \in Seq(Vector)
    BY <2>1, <2>2, SeqMonotonic
  <2>4. QED
    BY <2>1, <2>3
<1>4. /\ Sent(t) \in Seq(Vector) /\ Len(Sent(t)) = n + m
      /\ \A q \in 1..n : Sent(t)[q] = States(t)[q]
      /\ \A k \in 1..m : Sent(t)[n + k] = missing[t][k]
  <2> HIDE DEF n
  <2>1. /\ Sent(t) \in Seq(Vector) /\ Len(Sent(t)) = n + m
        /\ \A i \in 1 .. n + m : Sent(t)[i] = IF i <= n THEN States(t)[i] ELSE missing[t][i - n]
    BY <1>1, <1>3, ConcatProperties DEF Sent
  <2> HIDE DEF m
  <2>2. ASSUME NEW k \in 1..m PROVE Sent(t)[n + k] = missing[t][k]
    <3>1. PICK i \in 1 .. n + m : i = n + k /\ ~(i <= n) /\ i - n = k
      BY <1>1, <1>3
    <3>2. Sent(t)[i] = missing[t][i - n]
      BY <2>1, <3>1
    <3>3. QED
      BY <3>1, <3>2
  <2>3. ASSUME NEW q \in 1..n PROVE Sent(t)[q] = States(t)[q]
    <3>1. q \in 1 .. n + m /\ q <= n
      BY <1>1, <1>3
    <3>2. QED
      BY <2>1, <3>1
  <2>4. QED
    BY <2>1, <2>2, <2>3
<1> DEFINE fillOf(encoded) == [k \in DOMAIN missing[t] |->
                                [text |-> missing[t][k], vector |-> encoded[n + k],
                                 expiry |-> clock + TTL]]
           knownOf(encoded) == ToSet(cache \o fillOf(encoded))
           vectorOf(encoded, x) == (CHOOSE e \in knownOf(encoded) : e.text = x).vector
           effect(encoded) ==
              /\ vectors' = [vectors EXCEPT ![t] = SubSeq(encoded, 1, n) \o
                    [i \in DOMAIN Candidates(t) |-> vectorOf(encoded, Candidates(t)[i])]]
              /\ cache' = IF Entries = 0 THEN cache ELSE Trim(Touch(t, fillOf(encoded)))
<1>5. PICK encoded \in {Decoded(Sent(t), reply) : reply \in Replies(Len(Sent(t)))} : effect(encoded)
  BY DEF EncodeSucceeds
<1>6. encoded = Sent(t)
  <2> HIDE DEF effect
  <2>1. PICK reply \in Replies(Len(Sent(t))) : encoded = Decoded(Sent(t), reply)
    BY <1>5
  <2>2. QED
    BY <1>4, <2>1, DecodedIs DEF Replies
<1>7. effect(Sent(t))
  <2> HIDE DEF effect
  <2>1. QED
    BY <1>5, <1>6
<1> DEFINE fill == [k \in 1..m |-> [text |-> missing[t][k], vector |-> missing[t][k],
                                    expiry |-> clock + TTL]]
           known == ToSet(cache \o fill)
           vector(x) == (CHOOSE e \in known : e.text = x).vector
           asked == [i \in DOMAIN Candidates(t) |-> vector(Candidates(t)[i])]
<1>8. /\ vectors' = [vectors EXCEPT ![t] = SubSeq(Sent(t), 1, n) \o asked]
      /\ cache' = IF Entries = 0 THEN cache ELSE Trim(Touch(t, fill))
  <2>1. fillOf(Sent(t)) = fill
    BY <1>3, <1>4
  <2> HIDE DEF fillOf, fill
  <2>2. QED
    BY <1>7, <2>1
<1>9. fill \in Seq(Entry) /\ DOMAIN fill = 1..m
  <2>1. clock + TTL \in Nat
    <3>1. clock \in Nat
      BY DEF TypeOK
    <3>2. TTL \in Nat
      BY ClmAssumption
    <3>3. QED
      BY <3>1, <3>2
  <2>2. fill \in [1..m -> Entry]
    BY <1>3, <2>1 DEF Entry
  <2> HIDE DEF fill
  <2>3. QED
    BY <1>3, <2>2
<1>10. \A k \in 1..m : /\ fill[k].text = missing[t][k] /\ fill[k].vector = missing[t][k]
                       /\ fill[k].expiry = clock + TTL
  OBVIOUS
<1>11. cache \in Seq(Entry)
  BY DEF TypeOK
<1>12. known = ToSet(cache) \cup ToSet(fill)
  <2> HIDE DEF fill
  <2>1. QED
    BY <1>9, <1>11, ConcatHas
<1>13. \A e \in known : e.vector = e.text
  <2>1. \A e \in ToSet(cache) : e.vector = e.text
    BY DEF CacheInv, Sound, ToSet
  <2> HIDE DEF fill, known
  <2>2. \A e \in ToSet(fill) : e.vector = e.text
    BY <1>9, <1>10 DEF ToSet
  <2>3. QED
    BY <1>12, <2>1, <2>2
<1>14. ASSUME NEW x \in ToSet(Candidates(t)) PROVE \E e \in known : e.text = x
  <2> HIDE DEF fill, known
  <2>1. CASE x \in Cached
    <3>1. PICK i \in DOMAIN cache : x = cache[i].text
      BY <2>1 DEF Cached
    <3>2. cache[i] \in known
      BY <1>12 DEF ToSet
    <3>3. QED
      BY <3>1, <3>2
  <2>2. CASE x \notin Cached
    <3>1. x \in ToSet(missing[t])
      BY <1>2, <2>2
    <3>2. PICK k \in 1..m : x = missing[t][k]
      BY <1>3, <3>1 DEF ToSet
    <3>3. fill[k] \in known
      BY <1>9, <1>12 DEF ToSet
    <3>4. QED
      BY <1>10, <3>2, <3>3
  <2>3. QED
    BY <2>1, <2>2
<1>15. \A x \in ToSet(Candidates(t)) : vector(x) = x
  <2> HIDE DEF known
  <2>1. QED
    BY <1>13, <1>14
<1>16. asked = Candidates(t)
  <2> HIDE DEF vector
  <2>1. \A i \in DOMAIN Candidates(t) : vector(Candidates(t)[i]) = Candidates(t)[i]
    BY <1>15 DEF ToSet
  <2>2. asked = [i \in DOMAIN Candidates(t) |-> Candidates(t)[i]]
    BY <2>1
  <2>3. QED
    BY <1>1, <2>2
<1>17. SubSeq(Sent(t), 1, n) = States(t)
  <2> DEFINE s == SubSeq(Sent(t), 1, n)
  <2>1. s = [q \in 1..n |-> Sent(t)[q]]
    <3> HIDE DEF n, m
    <3>1. \A q \in 1..n : Sent(t)[q] \in Vector
      BY <1>1, <1>4
    <3>2. /\ s \in Seq(Vector) /\ Len(s) = IF 1 <= n THEN n - 1 + 1 ELSE 0
          /\ \A q \in 1 .. n - 1 + 1 : s[q] = Sent(t)[1 + q - 1]
      BY <1>1, <3>1, SubSeqProperties
    <3>3. Len(s) = n /\ \A q \in 1..n : q \in 1 .. n - 1 + 1 /\ 1 + q - 1 = q
      BY <1>1, <3>2
    <3> HIDE DEF s
    <3>4. s = [q \in 1..n |-> s[q]]
      BY <3>2, <3>3
    <3>5. QED
      BY <3>2, <3>3, <3>4
  <2>2. States(t) = [q \in 1..n |-> States(t)[q]]
    BY <1>1
  <2>3. QED
    BY <1>4, <2>1, <2>2
<1> HIDE DEF asked, fill, known, vector
<1>18. QED
  BY <1>3, <1>8, <1>9, <1>10, <1>16, <1>17

\* Reading the cache drops what has expired, and nothing else.
LEMMA KeptIs ==
    ASSUME TypeOK, CacheInv
    PROVE  /\ Kept \in Seq(Entry) /\ Len(Kept) <= Entries
           /\ Sound(Kept, filledAt, lastUse)
           /\ ToSet(Kept) \subseteq ToSet(cache)
           /\ \A e \in ToSet(Kept) : e.expiry > clock
<1> DEFINE S == {i \in DOMAIN cache : cache[i].expiry > clock}
<1>1. cache \in Seq(Entry) /\ DOMAIN cache = 1..Len(cache) /\ Len(cache) \in Nat
  BY DEF TypeOK
<1>2. S \in SUBSET (1..Len(cache)) /\ Kept = Those(cache, S)
  BY <1>1 DEF Kept
<1>3. At(cache, S) \subseteq ToSet(cache) /\ \A e \in At(cache, S) : e.expiry > clock
  BY DEF At, ToSet
<1> HIDE DEF S
<1>4. ToSet(Kept) = At(cache, S)
  BY <1>1, <1>2, ThoseHas
<1>5. Kept \in Seq(Entry) /\ Len(Kept) \in 0..Len(cache)
  BY <1>1, <1>2, ThoseIs
<1>6. Sound(Kept, filledAt, lastUse)
  BY <1>1, <1>2, SoundThose DEF CacheInv
<1>7. Len(Kept) <= Entries
  BY <1>1, <1>5, ClmAssumption DEF CacheInv
<1>8. QED
  BY <1>3, <1>4, <1>5, <1>6, <1>7

-----------------------------------------------------------------------------
(* The locks *)

\* Nobody holds a lock at first.
THEOREM InitEngineInv == Init => EngineInv
  BY ClmAssumption DEF Init, EngineInv, LoadingPlaces

\* A thread takes a lock only while it is free and frees it when it goes on or fails.
THEOREM EngineInductive == EngineInv /\ [Next]_vars => EngineInv'
<1> SUFFICES ASSUME EngineInv, [Next]_vars PROVE EngineInv'
  OBVIOUS
<1> USE DEF EngineInv, LoadingPlaces, Goes, headVars, cacheVars
<1>1. ASSUME NEW t \in Threads, NEW f \in Payloads, Receive(t, f) PROVE EngineInv'
  <2>1. PICK place \in {"cache", "rejected"} : at' = [at EXCEPT ![t] = place]
    BY <1>1 DEF Receive
  <2>2. QED
    BY <1>1, <2>1 DEF Receive
<1>2. ASSUME NEW t \in Threads, LockCache(t) PROVE EngineInv'
  BY <1>2, ClmAssumption DEF LockCache
<1>3. ASSUME NEW t \in Threads, Encoding(t) PROVE EngineInv'
  <2>1. /\ at[t] = "encoding" /\ cacheLock' = NoThread /\ UNCHANGED headVars
        /\ at' = [at EXCEPT ![t] = "failed"] \/ at' = [at EXCEPT ![t] = "heads"]
    BY <1>3 DEF Encoding, EncodeFails, EncodeSucceeds
  <2>2. QED
    BY <2>1, ClmAssumption
<1>4. ASSUME NEW t \in Threads, EnsureHeads(t) PROVE EngineInv'
  <2>1. PICK place \in {"projecting", "load"} : /\ at' = [at EXCEPT ![t] = place]
                                                /\ place = "projecting" => HeadsReady
    BY <1>4 DEF EnsureHeads
  <2>2. QED
    BY <1>4, <2>1 DEF EnsureHeads, HeadsReady
<1>5. ASSUME NEW t \in Threads, LockLoad(t) PROVE EngineInv'
  BY <1>5, ClmAssumption DEF LockLoad, HeadsReady
<1>6. ASSUME NEW t \in Threads, LoadFails(t) PROVE EngineInv'
  BY <1>6, ClmAssumption DEF LoadFails
<1>7. ASSUME NEW t \in Threads, SetStateHead(t) PROVE EngineInv'
  BY <1>7 DEF SetStateHead
<1>8. ASSUME NEW t \in Threads, SetActionHead(t) PROVE EngineInv'
  BY <1>8 DEF SetActionHead
<1>9. ASSUME NEW t \in Threads, SetScale(t) PROVE EngineInv'
  BY <1>9, ClmAssumption DEF SetScale
<1>10. ASSUME NEW t \in Threads, Project(t) \/ ProjectFails(t) PROVE EngineInv'
  <2>1. /\ at[t] = "projecting" /\ UNCHANGED <<cacheVars, headVars>>
        /\ \E place \in {"done", "projecting", "failed"} : at' = [at EXCEPT ![t] = place]
    BY <1>10 DEF Project, ProjectFails
  <2>2. QED
    BY <2>1
<1>11. CASE Tick
  BY <1>11 DEF Tick
<1>12. CASE UNCHANGED vars
  BY <1>12 DEF vars
<1>13. QED
  BY <1>1, <1>2, <1>3, <1>4, <1>5, <1>6, <1>7, <1>8, <1>9, <1>10, <1>11, <1>12
     DEF Next, Step, Loading

\* Concurrent misses of a text have one fill: the lock is held across the call.
THEOREM OneFillHolds == Spec => []OneFill
<1>1. EngineInv => OneFill
  BY DEF EngineInv, OneFill
<1>2. QED
  BY <1>1, InitEngineInv, EngineInductive, PTL DEF Spec

\* No request is projected before both heads are there, although they are read
\* without the lock that is held while they are assigned.
THEOREM HeadsBeforeProjecting ==
    Spec => [](\A t \in Threads : at[t] = "projecting" => HeadsReady)
<1>1. EngineInv => \A t \in Threads : at[t] = "projecting" => HeadsReady
  BY DEF EngineInv, HeadsReady
<1>2. QED
  BY <1>1, InitEngineInv, EngineInductive, PTL DEF Spec
-----------------------------------------------------------------------------
(* The cache and the answers *)

IInv == TypeOK /\ EngineInv /\ CacheInv /\ RequestInv /\ AnswerInv

\* Nothing is cached and nobody has asked at first.
THEOREM InitIInv == Init => IInv
<1> SUFFICES ASSUME Init PROVE IInv
  OBVIOUS
<1> USE DEF Init
<1>1. TypeOK
  BY ClmAssumption DEF TypeOK
<1>2. EngineInv
  BY InitEngineInv
<1>3. CacheInv
  BY ClmAssumption DEF CacheInv, Sound
<1>4. RequestInv
  BY DEF RequestInv, RequestRight, Embedded, LoadingPlaces
<1>5. AnswerInv
  BY DEF AnswerInv, AnswersRight
<1>6. QED
  BY <1>1, <1>2, <1>3, <1>4, <1>5 DEF IInv

\* After a fill the cache is the newest of a sound list that has all that was
\* in it and all that was encoded.
LEMMA FillIs ==
    ASSUME IInv, NEW t \in Threads, EncodeSucceeds(t)
    PROVE  /\ filledAt' \in [Texts -> Nat] /\ lastUse' \in [Texts -> Nat] /\ uses' = uses + 1
           /\ \A x \in Texts : lastUse'[x] <= uses'
           /\ \E entries \in Seq(Entry) :
                 /\ Cached \cup ToSet(missing[t]) \subseteq {e.text : e \in ToSet(entries)}
                 /\ Sound(entries, filledAt', lastUse')
                 /\ cache' = IF Entries = 0 THEN cache ELSE Trim(entries)
<1>1. TypeOK /\ CacheInv /\ RequestInv
  BY DEF IInv
<1>2. /\ ToSet(missing[t]) = ToSet(Candidates(t)) \ Cached
      /\ \A i, j \in DOMAIN missing[t] : missing[t][i] = missing[t][j] => i = j
  BY <1>1 DEF EncodeSucceeds, RequestInv, RequestRight
<1>3. PICK fill \in Seq(Entry) :
         /\ DOMAIN fill = DOMAIN missing[t]
         /\ \A k \in DOMAIN fill : /\ fill[k].text = missing[t][k]
                                   /\ fill[k].vector = fill[k].text
                                   /\ fill[k].expiry = clock + TTL
         /\ cache' = IF Entries = 0 THEN cache ELSE Trim(Touch(t, fill))
  BY <1>1, EncodesIs
<1>4. /\ filledAt' = [x \in Texts |-> IF x \in ToSet(missing[t]) THEN clock ELSE filledAt[x]]
      /\ lastUse' = [x \in Texts |-> IF x \in ToSet(Candidates(t)) THEN uses' ELSE lastUse[x]]
      /\ uses' = uses + 1
  BY DEF EncodeSucceeds
<1>5. /\ filledAt \in [Texts -> Nat] /\ lastUse \in [Texts -> Nat] /\ uses \in Nat /\ clock \in Nat
      /\ \A x \in Texts : lastUse[x] <= uses
  BY <1>1 DEF TypeOK, CacheInv
<1>6. filledAt' \in [Texts -> Nat] /\ lastUse' \in [Texts -> Nat]
  BY <1>4, <1>5
<1>7. /\ \A x \in Texts : filledAt'[x] = IF x \in ToSet(missing[t]) THEN clock ELSE filledAt[x]
      /\ \A x \in Texts : lastUse'[x] = IF x \in ToSet(Candidates(t)) THEN uses + 1 ELSE lastUse[x]
  BY <1>4
<1>8. /\ Touch(t, fill) \in Seq(Entry)
      /\ ToSet(Touch(t, fill)) = ToSet(cache) \cup ToSet(fill)
      /\ Sound(Touch(t, fill), filledAt', lastUse')
  <2>1. PICK filled \in [Texts -> Nat], used \in [Texts -> Nat] :
           filled = filledAt' /\ used = lastUse'
    BY <1>6
  <2>2. /\ \A x \in Texts : filled[x] = IF x \in ToSet(missing[t]) THEN clock ELSE filledAt[x]
        /\ \A x \in Texts : used[x] = IF x \in ToSet(Candidates(t)) THEN uses + 1 ELSE lastUse[x]
    BY <1>7, <2>1
  <2>3. /\ Touch(t, fill) \in Seq(Entry)
        /\ ToSet(Touch(t, fill)) = ToSet(cache) \cup ToSet(fill)
        /\ Sound(Touch(t, fill), filled, used)
    BY <1>1, <1>2, <1>3, <2>2, TouchIs
  <2>4. QED
    BY <2>1, <2>3
<1>9. \A x \in Texts : lastUse'[x] <= uses'
  BY <1>4, <1>5, <1>7
<1>10. Cached \cup ToSet(missing[t]) \subseteq {e.text : e \in ToSet(Touch(t, fill))}
  <2>1. Cached = {e.text : e \in ToSet(cache)}
    BY DEF Cached, ToSet
  <2>2. ToSet(missing[t]) = {e.text : e \in ToSet(fill)}
    BY <1>3 DEF ToSet
  <2>3. QED
    BY <1>8, <2>1, <2>2
<1>11. QED
  BY <1>3, <1>4, <1>6, <1>8, <1>9, <1>10

\* An answer is computed from the vectors of its own question.
LEMMA ProjectIs ==
    ASSUME IInv, NEW t \in Threads, Project(t)
    PROVE  /\ Len(answers[t]) + 1 \in 1..Len(payload[t].questions)
           /\ \E answer \in Answer :
                 /\ answers' = [answers EXCEPT ![t] = Append(@, answer)]
                 /\ AnswerRight(t, Len(answers[t]) + 1, answer)
<1> DEFINE q == Len(answers[t]) + 1
           n == Len(payload[t].questions)
           own == payload[t].questions[q].texts
           before == Len(Upto(payload[t].questions, q - 1))
           all == Candidates(t)
           texts == SubSeq(vectors[t], n + before + 1, n + before + Len(own))
           temperature == payload[t].temperature
           logits(s) == [i \in DOMAIN s |-> Factor(scale) * Similarity[s[i]]]
           answer(v, s, blur) ==
              [state |-> v, candidates |-> s, heads |-> heads, scale |-> scale,
               tempered |-> Tempered(logits(s), temperature),
               choice |-> Selected(Tempered(logits(s), temperature), blur)]
<1>1. at[t] = "projecting" /\ TypeOK
  BY DEF Project, IInv
<1>2. /\ payload[t] \in Payloads /\ Accepts(payload[t])
      /\ vectors[t] = States(t) \o all
      /\ heads = {"state", "action"}
      /\ q <= n
  <2>1. RequestRight(t) /\ AnswersRight(t) /\ EngineInv
    BY DEF IInv, RequestInv, AnswerInv
  <2>2. Len(answers[t]) \in Nat /\ Len(payload[t].questions) \in Nat
    BY <1>1, PayloadTyped DEF TypeOK
  <2>3. QED
    BY <1>1, <2>1, <2>2 DEF RequestRight, AnswersRight, EngineInv, Embedded
<1>3. q \in Nat \ {0} /\ n \in Nat /\ q \in 1..n
  <2>1. Len(answers[t]) \in Nat
    BY <1>1 DEF TypeOK
  <2>2. n \in Nat
    BY <1>1, PayloadTyped
  <2> HIDE DEF n
  <2>3. QED
    BY <1>2, <2>1, <2>2
<1>4. /\ all \in Seq(Texts) /\ own \in Seq(Texts)
      /\ before \in Nat /\ before + Len(own) <= Len(all)
      /\ \A i \in 1..Len(own) : all[before + i] = own[i]
  <2>1. payload[t].questions \in Seq(Question) /\ q \in 1..Len(payload[t].questions)
    BY <1>2, <1>3, PayloadIs
  <2> HIDE DEF q
  <2>2. QED
    BY <2>1, FlatIs DEF Candidates
<1>5. /\ States(t) \in Seq(Vector) /\ Len(States(t)) = n
      /\ \A k \in 1..n : States(t)[k] = State(t, k)
  BY <1>1, PayloadTyped
<1>6. PICK blur \in 0 .. Resolution - 1 :
         answers' = [answers EXCEPT ![t] = Append(@, answer(vectors[t][q], texts, blur))]
  BY DEF Project, Start, Upto
<1> HIDE DEF n, before, all, own, q, temperature
<1>7. /\ DOMAIN vectors[t] = 1 .. n + Len(all)
      /\ \A i \in 1 .. n + Len(all) : vectors[t][i] = IF i <= n THEN States(t)[i] ELSE all[i - n]
      /\ Len(all) \in Nat /\ Len(own) \in Nat
  <2>1. all \in Seq(Vector)
    <3>1. Texts \subseteq Vector
      BY DEF Vector
    <3>2. QED
      BY <1>4, <3>1, SeqMonotonic
  <2>2. /\ States(t) \o all \in Seq(Vector) /\ Len(States(t) \o all) = n + Len(all)
        /\ \A i \in 1 .. n + Len(all) :
              (States(t) \o all)[i] = IF i <= n THEN States(t)[i] ELSE all[i - n]
    BY <1>5, <2>1, ConcatProperties
  <2>3. vectors[t] \in Seq(Vector) /\ Len(vectors[t]) = n + Len(all)
    BY <1>2, <2>2
  <2>4. DOMAIN vectors[t] = 1 .. n + Len(all)
    BY <2>3
  <2>5. \A i \in 1 .. n + Len(all) : vectors[t][i] = IF i <= n THEN States(t)[i] ELSE all[i - n]
    <3>1. vectors[t] = States(t) \o all
      BY <1>2
    <3>2. QED
      BY ONLY <2>2, <3>1
  <2>6. Len(all) \in Nat /\ Len(own) \in Nat
    BY <1>4
  <2>7. QED
    BY <2>4, <2>5, <2>6
<1>8. vectors[t][q] = State(t, q)
  <2>1. q \in 1 .. n + Len(all) /\ q <= n
    BY <1>3, <1>7
  <2>2. QED
    BY <1>3, <1>5, <1>7, <2>1
<1>9. \A i \in 1..Len(own) : vectors[t][n + before + i] = own[i]
  <2> TAKE i \in 1..Len(own)
  <2>1. PICK k \in 1 .. n + Len(all) : k = n + before + i /\ ~(k <= n) /\ k - n = before + i
    BY <1>3, <1>4, <1>7
  <2>2. vectors[t][k] = all[k - n]
    BY <1>7, <2>1
  <2>3. QED
    BY <1>4, <2>1, <2>2
<1>10. texts = own
  <2>1. PICK d \in Nat : d = n + before
    BY <1>3, <1>4
  <2>2. texts = SubSeq(vectors[t], d + 1, d + Len(own))
    BY <2>1
  <2> HIDE DEF texts
  <2>3. \A i \in 1..Len(own) : vectors[t][d + i] = own[i]
    BY <1>9, <2>1
  <2>4. ASSUME NEW k \in (d + 1) .. (d + Len(own)) PROVE vectors[t][k] \in Texts
    <3>1. PICK i \in 1..Len(own) : k = d + i
      <4>1. k - d \in 1..Len(own) /\ k = d + (k - d)
        BY <1>7, <2>1
      <4>2. QED
        BY <4>1
    <3>2. own[i] \in Texts
      BY <1>4
    <3>3. QED
      BY <2>3, <3>1, <3>2
  <2>5. /\ texts \in Seq(Texts)
        /\ Len(texts) = IF d + 1 <= d + Len(own) THEN d + Len(own) - (d + 1) + 1 ELSE 0
        /\ \A i \in 1 .. d + Len(own) - (d + 1) + 1 : texts[i] = vectors[t][d + 1 + i - 1]
    <3>1. d + 1 \in Int /\ d + Len(own) \in Int
      BY <1>7, <2>1
    <3>2. QED
      BY <2>2, <2>4, <3>1, SubSeqProperties
  <2>6. Len(texts) = Len(own)
    BY <1>7, <2>1, <2>5
  <2>7. ASSUME NEW i \in 1..Len(own) PROVE texts[i] = own[i]
    <3>1. i \in 1 .. d + Len(own) - (d + 1) + 1 /\ d + 1 + i - 1 = d + i
      BY <1>7, <2>1
    <3>2. QED
      BY <2>3, <2>5, <3>1
  <2>8. QED
    BY <1>4, <2>5, <2>6, <2>7, SeqEqual
<1> HIDE DEF texts
<1>11. Factor(scale) \in Nat \ {0}
  BY ClmAssumption DEF Factor
<1>12. /\ Len(own) \in Nat \ {0}
       /\ temperature \in [num : Nat \ {0}, den : Nat \ {0}]
  BY <1>2, <1>3, AcceptedIs DEF own, n, temperature
<1>13. logits(own) \in [1..Len(own) -> Int]
  <2>1. ASSUME NEW i \in 1..Len(own) PROVE Similarity[own[i]] \in Int
    <3>1. own[i] \in Texts
      BY <1>4, <2>1
    <3>2. Similarity \in [Texts -> Int]
      BY ClmAssumption
    <3>3. QED
      BY ONLY <3>1, <3>2
  <2>2. \A i \in 1..Len(own) : Factor(scale) * Similarity[own[i]] \in Int
    BY <1>11, <2>1
  <2>3. QED
    BY <1>4, <2>2
<1> HIDE DEF logits
<1>14. /\ Tempered(logits(own), temperature) \in Seq(Int)
       /\ Selected(Tempered(logits(own), temperature), blur) \in Nat
  <2>1. Tempered(logits(own), temperature) \in [1..Len(own) -> Int]
    BY <1>12, <1>13, TemperedIs
  <2>2. Selected(Tempered(logits(own), temperature), blur) \in 1..Len(own)
    BY <1>12, <1>13, TemperatureKeepsChoice
  <2>3. QED
    BY <1>12, <2>1, <2>2
<1> DEFINE a == answer(State(t, q), own, blur)
<1>15. a \in Answer
  <2>1. State(t, q) \in Vector
    <3>1. q \in Nat /\ t \in Threads /\ "state" \in {"state"}
      BY <1>3
    <3>2. QED
      BY <3>1 DEF State, Vector
  <2>2. heads \in SUBSET {"state", "action"} /\ scale \in {"initial", "loaded"}
    BY <1>1 DEF TypeOK
  <2>3. QED
    BY <1>4, <1>14, <2>1, <2>2 DEF Answer
<1>16. AnswerRight(t, q, a)
  <2>1. /\ a.state = State(t, q) /\ a.candidates = own /\ a.heads = {"state", "action"}
        /\ a.scale = scale /\ a.tempered = Tempered(logits(own), temperature)
        /\ a.choice = Selected(a.tempered, blur)
    BY <1>2
  <2> HIDE DEF a
  <2>2. a.tempered = Tempered([i \in DOMAIN a.candidates |->
                                  Factor(a.scale) * Similarity[a.candidates[i]]], temperature)
    BY <2>1 DEF logits
  <2>3. QED
    BY <2>1, <2>2 DEF AnswerRight, own, temperature
<1>17. answers' = [answers EXCEPT ![t] = Append(@, a)]
  BY <1>6, <1>8, <1>10
<1> HIDE DEF a
<1>18. QED
  BY <1>3, <1>15, <1>16, <1>17 DEF q, n

\* Every step keeps the types.
LEMMA TypeStep == IInv /\ [Next]_vars => TypeOK'
<1> SUFFICES ASSUME IInv, [Next]_vars PROVE TypeOK'
  OBVIOUS
<1>0. TypeOK /\ CacheInv /\ RequestInv
  BY DEF IInv
<1> USE DEF Goes, headVars, cacheVars, historyVars
<1>1. ASSUME NEW t \in Threads, NEW f \in Payloads, Receive(t, f) PROVE TypeOK'
  BY <1>0, <1>1 DEF Receive, TypeOK
<1>2. ASSUME NEW t \in Threads, LockCache(t) PROVE TypeOK'
  <2>1. payload[t] \in Payloads /\ Accepts(payload[t])
    BY <1>0, <1>2 DEF LockCache, RequestInv, RequestRight
  <2>2. Missing(t, {e.text : e \in ToSet(Kept)}) \in Seq(Texts \ TooLong)
    BY <2>1, MissingIs
  <2>3. Kept \in Seq(Entry)
    BY <1>0, KeptIs
  <2>4. QED
    BY <1>0, <1>2, <2>2, <2>3 DEF LockCache, TypeOK
<1>3. ASSUME NEW t \in Threads, EncodeSucceeds(t) PROVE TypeOK'
  <2>1. vectors' \in [Threads -> Seq(Vector)]
    <3>1. Texts \subseteq Vector
      BY DEF Vector
    <3>2. States(t) \in Seq(Vector) /\ Candidates(t) \in Seq(Texts)
      BY <1>0, PayloadTyped
    <3>3. Candidates(t) \in Seq(Vector)
      BY <3>1, <3>2, SeqMonotonic
    <3>4. States(t) \o Candidates(t) \in Seq(Vector)
      BY <3>2, <3>3
    <3>5. vectors' = [vectors EXCEPT ![t] = States(t) \o Candidates(t)]
      BY <1>0, <1>3, EncodesIs
    <3>6. QED
      BY <1>0, <3>4, <3>5 DEF TypeOK
  <2>2. cache' \in Seq(Entry)
    <3>1. PICK entries \in Seq(Entry) : cache' = IF Entries = 0 THEN cache ELSE Trim(entries)
      BY <1>3, FillIs
    <3>2. Trim(entries) \in Seq(Entry)
      BY TrimIs
    <3>3. QED
      BY <1>0, <3>1, <3>2 DEF TypeOK
  <2>3. filledAt' \in [Texts -> Nat] /\ lastUse' \in [Texts -> Nat] /\ uses' \in Nat
    BY <1>0, <1>3, FillIs DEF TypeOK
  <2>4. /\ at' = [at EXCEPT ![t] = "heads"] /\ missing' = [missing EXCEPT ![t] = <<>>]
        /\ cacheLock' = NoThread
        /\ UNCHANGED <<payload, answers, headVars, clock, received>>
    BY <1>3 DEF EncodeSucceeds
  <2>5. /\ at' \in [Threads -> {"new", "cache", "encoding", "heads", "load", "loading",
                                "stateSet", "actionSet", "projecting", "done", "rejected", "failed"}]
        /\ missing' \in [Threads -> Seq(Texts \ TooLong)]
        /\ payload' \in [Threads -> Payloads \cup {NoPayload}]
        /\ answers' \in [Threads -> Seq(Answer)]
    BY <1>0, <2>4 DEF TypeOK
  <2>6. /\ cacheLock' \in Threads \cup {NoThread} /\ loadLock' \in Threads \cup {NoThread}
        /\ heads' \subseteq {"state", "action"} /\ scale' \in {"initial", "loaded"}
        /\ clock' \in 1..MaxClock /\ received' \in Nat
    BY <1>0, <2>4 DEF TypeOK
  <2>7. QED
    BY <2>1, <2>2, <2>3, <2>5, <2>6 DEF TypeOK
<1>4. ASSUME NEW t \in Threads, EncodeFails(t) PROVE TypeOK'
  BY <1>0, <1>4 DEF EncodeFails, TypeOK
<1>5. ASSUME NEW t \in Threads, EnsureHeads(t) PROVE TypeOK'
  BY <1>0, <1>5 DEF EnsureHeads, TypeOK
<1>6. ASSUME NEW t \in Threads, LockLoad(t) PROVE TypeOK'
  BY <1>0, <1>6 DEF LockLoad, TypeOK
<1>7. ASSUME NEW t \in Threads, Loading(t) PROVE TypeOK'
  BY <1>0, <1>7 DEF Loading, LoadFails, SetStateHead, SetActionHead, SetScale, TypeOK
<1>8. ASSUME NEW t \in Threads, Project(t) PROVE TypeOK'
  <2>1. PICK answer \in Answer : answers' = [answers EXCEPT ![t] = Append(@, answer)]
    BY <1>8, ProjectIs
  <2>2. answers' \in [Threads -> Seq(Answer)]
    BY <1>0, <2>1 DEF TypeOK
  <2>3. /\ \E place \in {"done", "projecting"} : at' = [at EXCEPT ![t] = place]
        /\ UNCHANGED <<payload, missing, vectors, cacheVars, headVars, clock, received, historyVars>>
    BY <1>8 DEF Project
  <2>4. QED
    BY <1>0, <2>2, <2>3 DEF TypeOK
<1>9. ASSUME NEW t \in Threads, ProjectFails(t) PROVE TypeOK'
  BY <1>0, <1>9 DEF ProjectFails, TypeOK
<1>10. CASE Tick
  BY <1>0, <1>10, ClmAssumption DEF Tick, TypeOK
<1>11. CASE UNCHANGED vars
  BY <1>0, <1>11 DEF vars, TypeOK
<1>12. QED
  BY <1>1, <1>2, <1>3, <1>4, <1>5, <1>6, <1>7, <1>8, <1>9, <1>10, <1>11 DEF Next, Step, Encoding

\* Only a look into the cache and a fill change it or its history.
LEMMA CacheMoves ==
    ASSUME [Next]_vars, ~\E t \in Threads : LockCache(t) \/ EncodeSucceeds(t)
    PROVE  UNCHANGED <<cache, filledAt, lastUse, uses>>
<1> USE DEF cacheVars, historyVars
<1>1. ASSUME NEW t \in Threads, NEW f \in Payloads, Receive(t, f)
      PROVE  UNCHANGED <<cache, filledAt, lastUse, uses>>
  BY <1>1 DEF Receive
<1>2. ASSUME NEW t \in Threads, Step(t) PROVE UNCHANGED <<cache, filledAt, lastUse, uses>>
  BY <1>2 DEF Step, Encoding, EncodeFails, EnsureHeads, LockLoad, Loading, LoadFails, SetStateHead,
              SetActionHead, SetScale, Project, ProjectFails
<1>3. QED
  BY <1>1, <1>2 DEF Next, Tick, vars

\* Every step keeps the cache sound.
LEMMA CacheStep == IInv /\ [Next]_vars => CacheInv'
<1> SUFFICES ASSUME IInv, [Next]_vars PROVE CacheInv'
  OBVIOUS
<1>0. TypeOK /\ CacheInv
  BY DEF IInv
<1>1. ASSUME NEW t \in Threads, LockCache(t) PROVE CacheInv'
  <2>1. cache' = Kept /\ UNCHANGED <<filledAt, lastUse, uses>>
    BY <1>1 DEF LockCache, historyVars
  <2>2. Len(Kept) <= Entries /\ Sound(Kept, filledAt, lastUse)
    BY <1>0, KeptIs
  <2>3. QED
    BY <1>0, <2>1, <2>2 DEF CacheInv
<1>2. ASSUME NEW t \in Threads, EncodeSucceeds(t) PROVE CacheInv'
  <2>1. PICK entries \in Seq(Entry) :
           /\ Sound(entries, filledAt', lastUse')
           /\ cache' = IF Entries = 0 THEN cache ELSE Trim(entries)
    BY <1>2, FillIs
  <2>2. \A x \in Texts : lastUse'[x] <= uses'
    BY <1>2, FillIs
  <2>3. CASE Entries = 0
    <3>1. cache' = cache /\ DOMAIN cache = {}
      BY <1>0, <2>1, <2>3 DEF TypeOK, CacheInv
    <3>2. QED
      BY <1>0, <2>2, <3>1 DEF CacheInv, Sound
  <2>4. CASE Entries # 0
    <3>1. Len(Trim(entries)) <= Entries /\ Sound(Trim(entries), filledAt', lastUse')
      BY <2>1, TrimIs, SoundTrim
    <3>2. cache' = Trim(entries)
      BY <2>1, <2>4
    <3>3. QED
      BY <2>2, <3>1, <3>2 DEF CacheInv
  <2>5. QED
    BY <2>3, <2>4
<1>3. CASE UNCHANGED <<cache, filledAt, lastUse, uses>>
  BY <1>0, <1>3 DEF CacheInv, Sound
<1>4. QED
  BY <1>1, <1>2, <1>3, CacheMoves

\* What a request is about is no business of the others; while one waits for
\* its encoding, nobody else changes the cache.
LEMMA OthersKeep ==
    ASSUME IInv, NEW t \in Threads, NEW u \in Threads, u # t,
           Step(t) \/ \E f \in Payloads : Receive(t, f)
    PROVE  /\ at'[u] = at[u] /\ payload'[u] = payload[u] /\ missing'[u] = missing[u]
           /\ vectors'[u] = vectors[u] /\ answers'[u] = answers[u]
           /\ at[u] = "encoding" => cache' = cache
<1>1. TypeOK /\ EngineInv
  BY DEF IInv
<1> USE DEF Goes, cacheVars
<1>2. ASSUME NEW f \in Payloads, Receive(t, f)
      PROVE  /\ at'[u] = at[u] /\ payload'[u] = payload[u] /\ missing'[u] = missing[u]
             /\ vectors'[u] = vectors[u] /\ answers'[u] = answers[u] /\ cache' = cache
  BY <1>1, <1>2 DEF Receive, TypeOK
<1>3. ASSUME LockCache(t)
      PROVE  /\ at'[u] = at[u] /\ payload'[u] = payload[u] /\ missing'[u] = missing[u]
             /\ vectors'[u] = vectors[u] /\ answers'[u] = answers[u] /\ at[u] # "encoding"
  <2>1. cacheLock # u
    BY <1>3, ClmAssumption DEF LockCache
  <2>2. at[u] # "encoding"
    BY <1>1, <2>1 DEF EngineInv
  <2>3. QED
    BY <1>1, <1>3, <2>2 DEF LockCache, TypeOK
<1>4. ASSUME EncodeSucceeds(t)
      PROVE  /\ at'[u] = at[u] /\ payload'[u] = payload[u] /\ missing'[u] = missing[u]
             /\ vectors'[u] = vectors[u] /\ answers'[u] = answers[u] /\ at[u] # "encoding"
  <2>1. at[t] = "encoding"
    BY <1>4 DEF EncodeSucceeds
  <2>2. at[u] # "encoding"
    BY <1>1, <2>1 DEF EngineInv
  <2>3. vectors' = [vectors EXCEPT ![t] = States(t) \o Candidates(t)]
    BY <1>4, EncodesIs DEF IInv
  <2>4. /\ at' = [at EXCEPT ![t] = "heads"] /\ missing' = [missing EXCEPT ![t] = <<>>]
        /\ UNCHANGED <<payload, answers>>
    BY <1>4 DEF EncodeSucceeds
  <2>5. QED
    BY <1>1, <2>2, <2>3, <2>4 DEF TypeOK
<1>5. ASSUME \/ EncodeFails(t) \/ EnsureHeads(t) \/ LockLoad(t) \/ Loading(t) \/ ProjectFails(t)
      PROVE  /\ at'[u] = at[u] /\ payload'[u] = payload[u] /\ missing'[u] = missing[u]
             /\ vectors'[u] = vectors[u] /\ answers'[u] = answers[u] /\ cache' = cache
  BY <1>1, <1>5 DEF EncodeFails, EnsureHeads, LockLoad, Loading, LoadFails, SetStateHead,
                    SetActionHead, SetScale, ProjectFails, TypeOK
<1>6. ASSUME Project(t)
      PROVE  /\ at'[u] = at[u] /\ payload'[u] = payload[u] /\ missing'[u] = missing[u]
             /\ vectors'[u] = vectors[u] /\ answers'[u] = answers[u] /\ cache' = cache
  <2>1. PICK answer \in Answer : answers' = [answers EXCEPT ![t] = Append(@, answer)]
    BY <1>6, ProjectIs
  <2>2. /\ \E place \in {"done", "projecting"} : at' = [at EXCEPT ![t] = place]
        /\ UNCHANGED <<payload, missing, vectors, cache>>
    BY <1>6 DEF Project
  <2>3. QED
    BY <1>1, <2>1, <2>2 DEF TypeOK
<1>7. QED
  BY <1>2, <1>3, <1>4, <1>5, <1>6 DEF Step, Encoding

\* Every step keeps what is known of the requests.
LEMMA RequestStep == IInv /\ [Next]_vars => RequestInv'
<1> SUFFICES ASSUME IInv, [Next]_vars, NEW u \in Threads PROVE RequestRight(u)'
  BY DEF RequestInv
<1>0. TypeOK /\ CacheInv /\ EngineInv /\ RequestInv /\ RequestRight(u)
  BY DEF IInv, RequestInv
<1> USE DEF Goes, cacheVars
<1>1. ASSUME UNCHANGED <<payload[u], vectors[u], missing[u], at[u]>>,
             at[u] = "encoding" => cache' = cache
      PROVE  RequestRight(u)'
  BY <1>0, <1>1 DEF RequestRight, Candidates, States, Cached
<1>2. ASSUME NEW t \in Threads, t # u, Step(t) \/ \E f \in Payloads : Receive(t, f)
      PROVE  RequestRight(u)'
  BY <1>1, <1>2, OthersKeep
<1>3. ASSUME NEW f \in Payloads, Receive(u, f) PROVE RequestRight(u)'
  <2>1. /\ at'[u] = IF Accepts(f) THEN "cache" ELSE "rejected"
        /\ payload'[u] = f
    BY <1>0, <1>3 DEF Receive, TypeOK
  <2>2. QED
    BY <2>1 DEF RequestRight, Embedded, LoadingPlaces
<1>4. ASSUME LockCache(u) PROVE RequestRight(u)'
  <2>1. payload[u] \in Payloads /\ Accepts(payload[u])
    BY <1>0, <1>4 DEF LockCache, RequestRight
  <2>2. /\ at'[u] = "encoding" /\ payload' = payload /\ cache' = Kept
        /\ missing'[u] = Missing(u, {e.text : e \in ToSet(Kept)})
    BY <1>0, <1>4 DEF LockCache, TypeOK
  <2>3. {e.text : e \in ToSet(Kept)} = Cached'
    <3>1. Kept \in Seq(Entry)
      BY <1>0, KeptIs
    <3>2. QED
      BY <2>2 DEF Cached, ToSet
  <2>4. /\ ToSet(missing'[u]) = ToSet(Candidates(u)) \ Cached'
        /\ \A i, j \in DOMAIN missing'[u] : missing'[u][i] = missing'[u][j] => i = j
    BY <2>1, <2>2, <2>3, MissingIs
  <2>5. Candidates(u)' = Candidates(u)
    BY <2>2 DEF Candidates
  <2>6. QED
    BY <2>1, <2>2, <2>4, <2>5 DEF RequestRight, Embedded, LoadingPlaces
<1>5. ASSUME EncodeSucceeds(u) PROVE RequestRight(u)'
  <2>1. payload[u] \in Payloads /\ Accepts(payload[u])
    BY <1>0, <1>5 DEF EncodeSucceeds, RequestRight
  <2>2. vectors' = [vectors EXCEPT ![u] = States(u) \o Candidates(u)]
    BY <1>0, <1>5, EncodesIs
  <2>3. at' = [at EXCEPT ![u] = "heads"] /\ payload' = payload
    BY <1>5 DEF EncodeSucceeds
  <2>4. vectors'[u] = States(u) \o Candidates(u) /\ at'[u] = "heads"
    BY <1>0, <2>2, <2>3 DEF TypeOK
  <2>5. States(u)' = States(u) /\ Candidates(u)' = Candidates(u)
    BY <2>3 DEF States, Candidates
  <2>6. QED
    BY <2>1, <2>3, <2>4, <2>5 DEF RequestRight
<1>6. ASSUME EncodeFails(u) PROVE RequestRight(u)'
  BY <1>0, <1>6 DEF EncodeFails, TypeOK, RequestRight, Embedded, LoadingPlaces
<1>7. ASSUME UNCHANGED <<payload[u], vectors[u]>>, at[u] \in Embedded,
             at'[u] \in Embedded \cup {"failed", "done"}
      PROVE  RequestRight(u)'
  <2>1. States(u)' = States(u) /\ Candidates(u)' = Candidates(u)
    BY <1>7 DEF States, Candidates
  <2>2. QED
    BY <1>0, <1>7, <2>1 DEF RequestRight, Embedded, LoadingPlaces
<1>8. ASSUME EnsureHeads(u) \/ LockLoad(u) \/ Loading(u) \/ ProjectFails(u)
      PROVE  RequestRight(u)'
  <2>1. /\ UNCHANGED <<payload, vectors>> /\ at[u] \in Embedded
        /\ at'[u] \in Embedded \cup {"failed", "done"}
    BY <1>0, <1>8 DEF EnsureHeads, LockLoad, Loading, LoadFails, SetStateHead, SetActionHead,
                      SetScale, ProjectFails, TypeOK, Embedded, LoadingPlaces
  <2>2. QED
    BY <1>7, <2>1
<1>9. ASSUME Project(u) PROVE RequestRight(u)'
  <2>1. /\ UNCHANGED <<payload, vectors>> /\ at[u] = "projecting"
        /\ \E place \in {"done", "projecting"} : at' = [at EXCEPT ![u] = place]
    BY <1>9 DEF Project
  <2>2. at[u] \in Embedded /\ at'[u] \in Embedded \cup {"failed", "done"}
    BY <1>0, <2>1 DEF TypeOK, Embedded
  <2>3. QED
    BY <1>7, <2>1, <2>2
<1>10. CASE Tick \/ UNCHANGED vars
  BY <1>1, <1>10 DEF Tick, vars
<1>11. QED
  BY <1>2, <1>3, <1>4, <1>5, <1>6, <1>8, <1>9, <1>10 DEF Next, Step, Encoding

\* Every step keeps what is known of the answers.
LEMMA AnswerStep == IInv /\ [Next]_vars => AnswerInv'
<1> SUFFICES ASSUME IInv, [Next]_vars, NEW u \in Threads PROVE AnswersRight(u)'
  BY DEF AnswerInv
<1>0. /\ TypeOK /\ CacheInv /\ EngineInv /\ AnswersRight(u)
      /\ answers[u] \in Seq(Answer) /\ Len(payload[u].questions) \in Nat
      /\ at[u] # "new" /\ at[u] # "rejected" => payload[u] \in Payloads
  <2>1. TypeOK /\ CacheInv /\ EngineInv /\ AnswersRight(u) /\ RequestRight(u)
    BY DEF IInv, AnswerInv, RequestInv
  <2>2. Len(payload[u].questions) \in Nat
    BY <2>1, PayloadTyped
  <2>3. QED
    BY <2>1, <2>2 DEF TypeOK, RequestRight
<1> USE DEF Goes
<1>1. ASSUME UNCHANGED <<payload[u], answers[u], at[u]>> PROVE AnswersRight(u)'
  BY <1>0, <1>1 DEF AnswersRight, AnswerRight, State
<1>2. ASSUME NEW t \in Threads, t # u, Step(t) \/ \E f \in Payloads : Receive(t, f)
      PROVE  AnswersRight(u)'
  BY <1>1, <1>2, OthersKeep
<1>3. ASSUME NEW f \in Payloads, Receive(u, f) PROVE AnswersRight(u)'
  <2>1. /\ at'[u] \in {"cache", "rejected"} /\ answers'[u] = <<>> /\ payload'[u] = f
    BY <1>0, <1>3 DEF Receive, TypeOK
  <2>2. Len(f.questions) \in Nat
    BY PayloadIs
  <2>3. QED
    BY <2>1, <2>2 DEF AnswersRight
<1>4. ASSUME UNCHANGED <<payload[u], answers[u]>>, answers[u] = <<>>,
             at'[u] = "projecting" => payload[u] \in Payloads
      PROVE  AnswersRight(u)'
  <2>1. at'[u] = "projecting" => Len(payload[u].questions) > 0
    BY <1>4, PayloadIs
  <2>2. QED
    BY <1>0, <1>4, <2>1 DEF AnswersRight
<1>5. ASSUME LockCache(u) \/ Encoding(u) \/ EnsureHeads(u) \/ LockLoad(u) \/ Loading(u)
      PROVE  AnswersRight(u)'
  <2>1. /\ UNCHANGED <<payload, answers>>
        /\ at[u] \in {"cache", "encoding", "heads", "load"} \cup LoadingPlaces
    BY <1>5 DEF LockCache, Encoding, EncodeSucceeds, EncodeFails, EnsureHeads, LockLoad, Loading,
                LoadFails, SetStateHead, SetActionHead, SetScale, LoadingPlaces
  <2>2. answers[u] = <<>> /\ payload[u] \in Payloads
    BY <1>0, <2>1 DEF AnswersRight, LoadingPlaces
  <2>3. QED
    BY <1>4, <2>1, <2>2
<1>6. ASSUME ProjectFails(u) PROVE AnswersRight(u)'
  <2>1. UNCHANGED <<payload, answers>> /\ at'[u] = "failed"
    BY <1>0, <1>6 DEF ProjectFails, TypeOK
  <2>2. \A q \in DOMAIN answers[u] : AnswerRight(u, q, answers[u][q])
    BY <1>0 DEF AnswersRight
  <2>3. \A q \in DOMAIN answers[u] : AnswerRight(u, q, answers[u][q])'
    BY <2>1, <2>2 DEF AnswerRight, State
  <2>4. Len(answers[u]) <= Len(payload[u].questions)
    BY <1>0 DEF AnswersRight
  <2>5. QED
    BY <2>1, <2>3, <2>4 DEF AnswersRight
<1>7. ASSUME Project(u) PROVE AnswersRight(u)'
  <2> DEFINE n == Len(payload[u].questions)
             q == Len(answers[u]) + 1
  <2>1. PICK answer \in Answer : /\ answers' = [answers EXCEPT ![u] = Append(@, answer)]
                                 /\ AnswerRight(u, q, answer)
    BY <1>7, ProjectIs
  <2>2. q \in 1..n
    BY <1>7, ProjectIs
  <2>3. payload' = payload /\ at'[u] = IF q = n THEN "done" ELSE "projecting"
    BY <1>0, <1>7 DEF Project, TypeOK
  <2>4. answers'[u] = Append(answers[u], answer)
    BY <1>0, <2>1 DEF TypeOK
  <2>5. /\ Len(answers'[u]) = q /\ DOMAIN answers'[u] = 1..q
        /\ answers'[u][q] = answer
        /\ \A k \in 1..Len(answers[u]) : answers'[u][k] = answers[u][k]
    BY <1>0, <2>4
  <2>6. ASSUME NEW k \in 1..q PROVE AnswerRight(u, k, answers'[u][k])
    <3>1. CASE k = q
      BY <2>1, <2>5, <3>1
    <3>2. CASE k # q
      <4>1. k \in 1..Len(answers[u]) /\ k \in DOMAIN answers[u]
        BY <1>0, <3>2
      <4>2. QED
        BY <1>0, <2>5, <4>1 DEF AnswersRight
    <3>3. QED
      BY <3>1, <3>2
  <2>7. \A k \in 1..q : AnswerRight(u, k, answers[u][k])'
    BY <2>3, <2>6 DEF AnswerRight, State
  <2>8. Len(payload[u].questions)' = n /\ q <= n /\ (q # n => q < n)
    BY <1>0, <2>2, <2>3
  <2> HIDE DEF q, n
  <2>9. QED
    BY <2>3, <2>5, <2>7, <2>8 DEF AnswersRight
<1>8. CASE Tick \/ UNCHANGED vars
  BY <1>1, <1>8 DEF Tick, vars
<1>9. QED
  BY <1>2, <1>3, <1>5, <1>6, <1>7, <1>8 DEF Next, Step

\* Together they are inductive.
THEOREM IInvHolds == Spec => []IInv
<1>1. IInv /\ [Next]_vars => IInv'
  <2>1. IInv /\ [Next]_vars => EngineInv'
    BY EngineInductive DEF IInv
  <2>2. QED
    BY <2>1, TypeStep, CacheStep, RequestStep, AnswerStep DEF IInv
<1>2. QED
  BY <1>1, InitIInv, PTL DEF Spec

\* The variables have their types, whatever the requests, the cache and the clock.
THEOREM TypeOKHolds == Spec => []TypeOK
<1>1. IInv => TypeOK
  BY DEF IInv
<1>2. QED
  BY <1>1, IInvHolds, PTL

\* The cache never grows over its capacity, whatever that is, and holds a text once.
THEOREM CacheBoundedHolds == Spec => []CacheBounded
<1>1. IInv => CacheBounded
  BY DEF IInv, CacheInv, Sound, CacheBounded
<1>2. QED
  BY <1>1, IInvHolds, PTL

\* A request gets its own vectors and answers every question from its own state
\* and its own candidates and with both heads, for any number of threads, any
\* payloads and any cache, in whatever order the endpoint answers.
THEOREM RightVectorsHolds == Spec => []RightVectors
<1>1. IInv => RightVectors
  <2> SUFFICES ASSUME IInv, NEW t \in Threads
               PROVE  /\ at[t] \in Embedded => vectors[t] = States(t) \o Candidates(t)
                      /\ \A q \in DOMAIN answers[t] :
                            /\ answers[t][q].state = State(t, q)
                            /\ answers[t][q].candidates = payload[t].questions[q].texts
                            /\ answers[t][q].heads = {"state", "action"}
    BY DEF RightVectors
  <2>1. RequestRight(t) /\ AnswersRight(t)
    BY DEF IInv, RequestInv, AnswerInv
  <2>2. QED
    BY <2>1 DEF RequestRight, AnswersRight, AnswerRight
<1>2. QED
  BY <1>1, IInvHolds, PTL

\* No candidate leads the chosen one by what the floats tell apart, and none
\* before it is as great, for any products, scale, floor and overflow and any
\* temperature greater than zero.
THEOREM LikeliestAnswerHolds == Spec => []LikeliestAnswer
<1>1. IInv => LikeliestAnswer
  <2> SUFFICES ASSUME IInv, NEW t \in Threads, NEW q \in DOMAIN answers[t]
               PROVE  LET answer == answers[t][q]
                          temperature == payload[t].temperature
                          product(i) == Similarity[answer.candidates[i]]
                          lead(i) == Factor(answer.scale) * (product(i) - product(answer.choice)) IN
                      /\ answer.choice \in DOMAIN answer.candidates
                      /\ \A i \in DOMAIN answer.candidates :
                            /\ lead(i) * temperature.den < Resolution * temperature.num
                            /\ i < answer.choice => product(i) < product(answer.choice)
                      /\ \A i, j \in DOMAIN answer.candidates :
                            product(i) <= product(j) => answer.tempered[i] <= answer.tempered[j]
    BY DEF LikeliestAnswer
  <2> DEFINE answer == answers[t][q]
             texts == answer.candidates
             choice == answer.choice
             n == Len(texts)
             temperature == payload[t].temperature
             factor == Factor(answer.scale)
             product(i) == Similarity[texts[i]]
  <2>1. TypeOK /\ AnswersRight(t) /\ RequestRight(t) /\ answers[t] \in Seq(Answer)
    BY DEF IInv, AnswerInv, RequestInv, TypeOK
  <2>2. AnswerRight(t, q, answer) /\ q \in 1..Len(answers[t]) /\ answers[t] # <<>>
    BY <2>1 DEF AnswersRight
  <2>3. payload[t] \in Payloads /\ Accepts(payload[t]) /\ q \in 1..Len(payload[t].questions)
    <3>1. /\ Len(answers[t]) <= Len(payload[t].questions)
          /\ Len(payload[t].questions) \in Nat /\ Len(answers[t]) \in Nat
      BY <2>1, PayloadTyped DEF AnswersRight
    <3>2. at[t] \notin {"new", "rejected"}
      BY <2>1, <2>2 DEF AnswersRight
    <3>3. QED
      BY <2>1, <2>2, <3>1, <3>2 DEF RequestRight
  <2>4. /\ texts \in Seq(Texts) /\ n \in Nat \ {0}
        /\ temperature \in [num : Nat \ {0}, den : Nat \ {0}]
    <3>1. texts = payload[t].questions[q].texts
      BY <2>2 DEF AnswerRight
    <3>2. payload[t].questions \in Seq(Question)
      BY <2>3, PayloadIs
    <3>3. payload[t].questions[q] \in Question
      BY <2>3, <3>2, ElementOfSeq
    <3>4. payload[t].questions[q].texts \in Seq(Texts)
      BY <3>3 DEF Question
    <3>5. /\ Len(payload[t].questions[q].texts) \in Nat \ {0}
          /\ temperature \in [num : Nat \ {0}, den : Nat \ {0}]
      BY <2>3, AcceptedIs
    <3>6. QED
      BY <3>1, <3>4, <3>5
  <2>5. PICK blur \in 0 .. Resolution - 1 :
           /\ answer.tempered = Tempered([i \in DOMAIN texts |-> factor * Similarity[texts[i]]],
                                         temperature)
           /\ choice = Selected(answer.tempered, blur)
    BY <2>2 DEF AnswerRight
  <2>6. factor \in Nat \ {0}
    BY ClmAssumption DEF Factor
  <2> HIDE DEF texts, n, temperature, factor, choice
  <2>7. DOMAIN texts = 1..n /\ \A i \in 1..n : texts[i] \in Texts
    BY <2>4 DEF n
  <2>8. \A i \in 1..n : product(i) \in Int
    BY <2>7, ClmAssumption
  <2> DEFINE logits == [i \in 1..n |-> factor * product(i)]
  <2>9. answer.tempered = Tempered(logits, temperature)
    BY <2>5, <2>7
  <2> HIDE DEF answer, product
  <2>10. ASSUME NEW x \in Int, NEW y \in Int
         PROVE  /\ factor * x \in Int /\ (x <= y <=> factor * x <= factor * y)
                /\ factor * (x - y) = factor * x - factor * y
    BY <2>6
  <2>11. logits \in [1..n -> Int]
    BY <2>8, <2>10
  <2>12. \A i, j \in 1..n : /\ product(i) <= product(j) <=> logits[i] <= logits[j]
                            /\ factor * (product(i) - product(j)) = logits[i] - logits[j]
    BY <2>8, <2>10
  <2> HIDE DEF logits
  <2>13. /\ choice \in 1..n
         /\ \A i \in 1..n :
               /\ (logits[i] - logits[choice]) * temperature.den < Resolution * temperature.num
               /\ i < choice => logits[i] < logits[choice]
         /\ \A i, j \in 1..n : logits[i] <= logits[j] => answer.tempered[i] <= answer.tempered[j]
    BY <2>4, <2>5, <2>9, <2>11, TemperatureKeepsChoice
  <2>14. ASSUME NEW i \in 1..n
         PROVE  /\ factor * (product(i) - product(choice)) * temperature.den
                      < Resolution * temperature.num
                /\ i < choice => product(i) < product(choice)
    <3>1. factor * (product(i) - product(choice)) = logits[i] - logits[choice]
      BY <2>12, <2>13
    <3>2. ASSUME i < choice PROVE product(i) < product(choice)
      <4>1. logits[i] < logits[choice] /\ logits[i] \in Int /\ logits[choice] \in Int
        BY <2>11, <2>13, <3>2
      <4>2. ~(logits[choice] <= logits[i])
        BY <4>1
      <4>3. ~(product(choice) <= product(i))
        BY <2>12, <2>13, <4>2
      <4>4. QED
        BY <2>8, <2>13, <4>3
    <3>3. QED
      BY <2>13, <3>1, <3>2
  <2>15. \A i, j \in 1..n : product(i) <= product(j) => answer.tempered[i] <= answer.tempered[j]
    BY <2>12, <2>13
  <2>16. QED
    BY <2>7, <2>13, <2>14, <2>15 DEF product, texts, answer, choice, temperature, factor
<1>2. QED
  BY <1>1, IInvHolds, PTL

\* Who gets from the cache into the encoding has looked into it, and who gets
\* from there to the heads has filled it.
LEMMA WhoMoves ==
    ASSUME IInv, [Next]_vars, NEW t \in Threads
    PROVE  /\ at[t] = "cache" /\ at'[t] = "encoding" => LockCache(t)
           /\ at[t] = "encoding" /\ at'[t] = "heads" => EncodeSucceeds(t)
<1>0. TypeOK /\ at \in [Threads -> {"new", "cache", "encoding", "heads", "load", "loading",
                         "stateSet", "actionSet", "projecting", "done", "rejected", "failed"}]
  BY DEF IInv, TypeOK
<1> DEFINE still == /\ at[t] = "cache" => at'[t] # "encoding"
                    /\ at[t] = "encoding" => at'[t] # "heads"
<1>1. ASSUME NEW f \in Payloads, Receive(t, f) PROVE still
  BY <1>0, <1>1 DEF Receive, Goes
<1>2. CASE LockCache(t) \/ EncodeSucceeds(t)
  BY <1>2 DEF LockCache, EncodeSucceeds
<1>3. ASSUME \/ EncodeFails(t) \/ EnsureHeads(t) \/ LockLoad(t) \/ Loading(t) \/ ProjectFails(t)
             \/ Project(t)
      PROVE  still
  <2>1. CASE EncodeFails(t)
    BY <1>0, <2>1 DEF EncodeFails, Goes
  <2>2. CASE ~EncodeFails(t)
    BY <1>3, <2>2 DEF EnsureHeads, LockLoad, Loading, LoadFails, SetStateHead, SetActionHead,
                      SetScale, ProjectFails, Project
  <2>3. QED
    BY <2>1, <2>2
<1>4. ASSUME NEW u \in Threads, u # t, Step(u) \/ \E f \in Payloads : Receive(u, f) PROVE still
  <2>1. at'[t] = at[t]
    BY <1>4, OthersKeep
  <2>2. QED
    BY <2>1
<1>5. CASE Tick \/ UNCHANGED vars
  BY <1>5 DEF Tick, vars
<1>6. QED
  BY <1>1, <1>2, <1>3, <1>4, <1>5 DEF Next, Step, Encoding

\* A text a request does not encode again was encoded less than the TTL before
\* the request looked for it, whatever the TTL, the capacity and the clock.
THEOREM NoExpiredHitHolds == Spec => NoExpiredHit
<1>1. IInv /\ [Next]_vars =>
         [\A t \in Threads : at[t] = "cache" /\ at'[t] = "encoding" =>
            \A x \in ToSet(Candidates(t)) \ ToSet(missing'[t]) :
               filledAt[x] # 0 /\ clock < filledAt[x] + TTL]_vars
  <2> SUFFICES ASSUME IInv, [Next]_vars, NEW t \in Threads, at[t] = "cache", at'[t] = "encoding",
                      NEW x \in ToSet(Candidates(t)) \ ToSet(missing'[t])
               PROVE  filledAt[x] # 0 /\ clock < filledAt[x] + TTL
    OBVIOUS
  <2>1. LockCache(t) /\ TypeOK /\ CacheInv /\ RequestRight(t)
    BY WhoMoves DEF IInv, RequestInv
  <2>2. payload[t] \in Payloads /\ Accepts(payload[t])
    BY <2>1 DEF RequestRight
  <2>3. missing'[t] = Missing(t, {e.text : e \in ToSet(Kept)})
    BY <2>1 DEF LockCache, TypeOK
  <2>4. x \in {e.text : e \in ToSet(Kept)}
    BY <2>2, <2>3, MissingIs
  <2>5. PICK e \in ToSet(Kept) : e.text = x
    BY <2>4
  <2>6. PICK i \in DOMAIN cache : e = cache[i]
    BY <2>1, <2>5, KeptIs DEF ToSet
  <2>7. e.expiry > clock
    BY <2>1, <2>5, KeptIs
  <2>8. filledAt[x] # 0 /\ e.expiry = filledAt[x] + TTL
    BY <2>1, <2>5, <2>6 DEF CacheInv, Sound
  <2>9. filledAt[x] + TTL \in Int /\ clock \in Int
    <3>1. cache[i] \in Entry
      BY <2>1, <2>6 DEF TypeOK
    <3>2. e.expiry \in Nat
      BY <2>6, <3>1 DEF Entry
    <3>3. QED
      BY <2>1, <2>8, <3>2 DEF TypeOK
  <2>10. QED
    BY <2>7, <2>8, <2>9
<1>2. QED
  BY <1>1, IInvHolds, PTL DEF Spec, NoExpiredHit

\* A fill drops nothing unless the cache stays full, and what it drops was last
\* used no later than anything it keeps, whatever the capacity and however many
\* texts the request has.
THEOREM EvictsLeastRecentHolds == Spec => EvictsLeastRecent
<1>1. IInv /\ [Next]_vars =>
         [\A t \in Threads : at[t] = "encoding" /\ at'[t] = "heads" =>
            \A x \in (Cached \cup ToSet(missing[t])) \ Cached' :
               /\ Len(cache') = Entries
               /\ \A y \in Cached' : lastUse'[x] <= lastUse'[y]]_vars
  <2> SUFFICES ASSUME IInv, [Next]_vars, NEW t \in Threads, at[t] = "encoding", at'[t] = "heads",
                      NEW x \in (Cached \cup ToSet(missing[t])) \ Cached'
               PROVE  /\ Len(cache') = Entries
                      /\ \A y \in Cached' : lastUse'[x] <= lastUse'[y]
    OBVIOUS
  <2>1. EncodeSucceeds(t) /\ TypeOK /\ CacheInv
    BY WhoMoves DEF IInv
  <2>2. PICK entries \in Seq(Entry) :
           /\ Cached \cup ToSet(missing[t]) \subseteq {e.text : e \in ToSet(entries)}
           /\ Sound(entries, filledAt', lastUse')
           /\ cache' = IF Entries = 0 THEN cache ELSE Trim(entries)
    BY <2>1, FillIs
  <2>3. CASE Entries = 0
    <3>1. cache' = cache /\ Len(cache) \in Nat /\ Len(cache) <= 0 /\ cache \in Seq(Entry)
      BY <2>1, <2>2, <2>3 DEF TypeOK, CacheInv
    <3>2. Len(cache') = 0 /\ DOMAIN cache' = {}
      BY <3>1
    <3>3. Cached' = {}
      BY <3>2 DEF Cached
    <3>4. QED
      BY <2>3, <3>2, <3>3
  <2>4. CASE Entries # 0
    <3>1. cache' = Trim(entries)
      BY <2>2, <2>4
    <3>2. PICK d \in Nat : /\ Len(entries) = d + Len(Trim(entries))
                           /\ \A i \in 1..Len(Trim(entries)) : Trim(entries)[i] = entries[d + i]
      BY TrimIs
    <3>3. Len(entries) \in Nat /\ Len(Trim(entries)) \in Nat
      BY TrimIs
    <3>4. DOMAIN Trim(entries) = 1..Len(Trim(entries)) /\ DOMAIN entries = 1..Len(entries)
      <4>1. Trim(entries) \in Seq(Entry)
        BY TrimIs
      <4>2. QED
        BY <4>1
    <3>5. PICK i \in 1..Len(entries) : entries[i].text = x
      <4>1. PICK e \in ToSet(entries) : e.text = x
        BY <2>2
      <4>2. QED
        BY <3>4, <4>1 DEF ToSet
    <3>6. Len(cache') = Entries
      <4>1. CASE Trim(entries) = entries
        <5>1. x \in Cached'
          BY <3>1, <3>4, <3>5, <4>1 DEF Cached
        <5>2. QED
          BY <5>1
      <4>2. QED
        BY <3>1, <4>1, TrimIs
    <3>7. ASSUME NEW y \in Cached' PROVE lastUse'[x] <= lastUse'[y]
      <4>1. PICK j \in 1..Len(Trim(entries)) : Trim(entries)[j].text = y
        BY <3>1, <3>4 DEF Cached
      <4>2. entries[d + j].text = y /\ d + j \in 1..Len(entries)
        BY <3>2, <3>3, <4>1
      <4>3. i <= d + j
        <5> SUFFICES ASSUME ~(i <= d + j) PROVE FALSE
          OBVIOUS
        <5>1. PICK k \in 1..Len(Trim(entries)) : d + k = i
          <6>1. i - d \in 1..Len(Trim(entries)) /\ d + (i - d) = i
            BY <3>2, <3>3
          <6>2. QED
            BY <6>1
        <5>2. Trim(entries)[k].text = x
          BY <3>2, <3>5, <5>1
        <5>3. x \in Cached'
          BY <3>1, <3>4, <5>2 DEF Cached
        <5>4. QED
          BY <5>3
      <4>4. QED
        BY <2>2, <3>4, <3>5, <4>2, <4>3 DEF Sound
    <3>8. QED
      BY <3>6, <3>7
  <2>5. QED
    BY <2>3, <2>4
<1>2. QED
  BY <1>1, IInvHolds, PTL DEF Spec, EvictsLeastRecent
=============================================================================
