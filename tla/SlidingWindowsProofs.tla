------------------------- MODULE SlidingWindowsProofs -------------------------
(***************************************************************************)
(* Proofs about SlidingWindows for any number of workers, any policy, any  *)
(* lengths of the windows and any batch size.                              *)
(*                                                                         *)
(* The properties speak of the last window only.  What makes them          *)
(* inductive is to compare, for EVERY age k, what is counted and what was  *)
(* granted within the last k ticks: a tick then carries the statement for  *)
(* k to the one for k + 1.                                                 *)
(***************************************************************************)
EXTENDS SlidingWindows, TotalsProofs

-----------------------------------------------------------------------------
(* Constants *)

LEMMA ConstantTypes ==
    /\ IsFiniteSet(Workers)
    /\ Cardinality(Workers) \in Nat \ {0}
    /\ TTL["5h"] \in Nat \ {0} /\ Oldest \in Nat \ {0} /\ TTL["5h"] <= Oldest
    /\ \A i \in Windows : /\ TTL[i] \in Nat \ {0} /\ TTL["5h"] <= TTL[i] /\ TTL[i] <= Oldest
                          /\ Limit[i] \in Nat \ {0}
    /\ "5h" \in Windows
    /\ QuotaBatchSize \in Nat /\ LimitDivisor \in Nat /\ MaxTroubles \in Nat
<1>1. Cardinality(Workers) \in Nat \ {0}
  BY WindowsAssumption, FS_CardinalityType, FS_EmptySet DEF WindowsAssumption
<1>2. QED  BY <1>1, WindowsAssumption DEF WindowsAssumption, Windows, Oldest

LEMMA AgesTypes ==
    /\ IsFiniteSet(Ages) /\ IsFiniteSet(DequeAges)
    /\ Ages \subseteq DequeAges /\ DequeAges \subseteq Nat
    /\ 0 \in Ages /\ 0 \in DequeAges /\ Oldest \in DequeAges
    /\ \A i \in Windows : /\ IsFiniteSet(WindowAges(i)) /\ 0 \in WindowAges(i)
                          /\ WindowAges("5h") \subseteq WindowAges(i)
                          /\ WindowAges(i) \subseteq Ages
<1>1. \A n \in Int : IsFiniteSet(0 .. n)  BY FS_Interval
<1>2. IsFiniteSet(Ages) /\ IsFiniteSet(DequeAges)
  BY <1>1, ConstantTypes DEF Ages, DequeAges, Oldest
<1>3. /\ Ages \subseteq DequeAges /\ DequeAges \subseteq Nat
      /\ 0 \in Ages /\ 0 \in DequeAges /\ Oldest \in DequeAges
  BY ConstantTypes DEF Ages, DequeAges, Oldest
<1>4. ASSUME NEW i \in Windows
      PROVE  /\ IsFiniteSet(WindowAges(i)) /\ 0 \in WindowAges(i)
             /\ WindowAges("5h") \subseteq WindowAges(i)
             /\ WindowAges(i) \subseteq Ages
  <2>1. TTL[i] \in Nat \ {0} /\ TTL["5h"] \in Nat /\ TTL["5h"] <= TTL[i] /\ TTL[i] <= TTL["30d"]
        /\ TTL["30d"] \in Nat
    BY ConstantTypes DEF Oldest
  <2>2. IsFiniteSet(WindowAges(i))  BY <1>1, <2>1 DEF WindowAges
  <2>3. QED  BY <2>1, <2>2 DEF WindowAges, Ages
<1>5. QED  BY <1>2, <1>3, <1>4

LEMMA BatchType == Batch \in Nat \ {0}
BY ConstantTypes DEF Batch, Max

LEMMA FallbackLimitType == FallbackLimit \in Nat \ {0}
<1> DEFINE divisor == IF LimitDivisor = 0 THEN Cardinality(Workers) ELSE LimitDivisor
           share == Limit["5h"] \div divisor
<1>1. divisor \in Nat \ {0} /\ Limit["5h"] \in Nat  BY ConstantTypes
<1> HIDE DEF divisor
<1>2. share \in Nat  BY <1>1
<1> HIDE DEF share
<1>3. Max({1, share}) \in Nat \ {0}  BY <1>2 DEF Max
<1>4. QED  BY <1>3 DEF FallbackLimit, share, divisor

-----------------------------------------------------------------------------
(* Bags of ages *)

\* Members of at most k ticks.
Young(bag, k) == Total(bag, 0 .. k)

\* Ages form an interval that begins with 0.
LEMMA AgesUpTo ==
    ASSUME NEW n \in Nat, NEW k \in Int, k <= n
    PROVE  IsFiniteSet(0 .. k) /\ 0 .. k \subseteq 0 .. n
<1>1. IsFiniteSet(0 .. k)  BY FS_Interval
<1>2. 0 .. k \subseteq 0 .. n  OBVIOUS
<1>3. QED  BY <1>1, <1>2

\* The number of young members is a number, 0 below age 0.
LEMMA YoungType ==
    ASSUME NEW n \in Nat, NEW f \in Bags(0 .. n), NEW k \in Int, k <= n
    PROVE  /\ Young(f, k) \in Nat /\ IsFiniteSet(0 .. k)
           /\ k < 0 => Young(f, k) = 0
<1>1. IsFiniteSet(0 .. k) /\ 0 .. k \subseteq 0 .. n  BY AgesUpTo
<1>2. k < 0 => 0 .. k = {}  OBVIOUS
<1>3. \A a \in 0 .. k : f[a] \in Nat  BY <1>1 DEF Bags
<1>4. Total(f, 0 .. k) \in Nat  BY <1>1, <1>3, TotalType
<1>5. k < 0 => Total(f, 0 .. k) = 0
  <2>1. k < 0 => \A a \in 0 .. k : f[a] = 0  BY <1>2
  <2>2. QED  BY <2>1, TotalZero
<1>6. QED  BY <1>1, <1>4, <1>5 DEF Young

LEMMA YoungOfEmpty ==
    ASSUME NEW n \in Nat, NEW k \in Int, k <= n
    PROVE  Empty(0 .. n) \in Bags(0 .. n) /\ Young(Empty(0 .. n), k) = 0
<1>1. Empty(0 .. n) \in Bags(0 .. n) /\ \A a \in 0 .. k : Empty(0 .. n)[a] = 0
  BY DEF Empty, Bags
<1>2. QED  BY <1>1, TotalZero DEF Young

\* Members of one age are added or removed.
LEMMA YoungOfChange ==
    ASSUME NEW n \in Nat, NEW f \in Bags(0 .. n), NEW g \in Bags(0 .. n),
           NEW b, b \in 0 .. n, \A a \in 0 .. n : a # b => g[a] = f[a],
           NEW k \in b .. n
    PROVE  Young(g, k) = Young(f, k) - f[b] + g[b]
<1>1. PICK ages : ages = 0 .. k  OBVIOUS
<1>2. IsFiniteSet(ages) /\ b \in ages  BY <1>1, AgesUpTo
<1>3. \A a \in ages : f[a] \in Nat  BY <1>1 DEF Bags
<1>4. \A a \in ages : g[a] \in Nat  BY <1>1 DEF Bags
<1>5. \A a \in ages \ {b} : g[a] = f[a]  BY <1>1
<1>6. Total(g, ages) = Total(f, ages) - f[b] + g[b]
  BY ONLY <1>2, <1>3, <1>4, <1>5, TotalChange
<1>7. QED  BY <1>1, <1>6 DEF Young

\* A new member is the youngest.
LEMMA YoungOfNew ==
    ASSUME NEW n \in Nat, NEW f \in Bags(0 .. n), NEW k \in 0 .. n
    PROVE  OneNew(f) \in Bags(0 .. n) /\ Young(OneNew(f), k) = Young(f, k) + 1
<1> DEFINE g == OneNew(f)
<1>1. /\ g \in Bags(0 .. n) /\ g[0] = f[0] + 1
      /\ \A a \in 0 .. n : a # 0 => g[a] = f[a]
  BY DEF OneNew, Bags
<1>2. IsFiniteSet(0 .. k) /\ 0 .. k \subseteq 0 .. n  BY AgesUpTo
<1> HIDE DEF g
<1>3. Young(g, k) = Young(f, k) - f[0] + g[0]
  <2>1. 0 \in 0 .. n /\ k \in 0 .. n  OBVIOUS
  <2>2. QED  BY <1>1, <2>1, YoungOfChange
<1>4. Young(f, k) \in Nat  BY YoungType
<1>5. f[0] \in Nat  BY DEF Bags
<1>6. QED  BY <1>1, <1>3, <1>4, <1>5 DEF g

\* Only the young members matter, not what set the ages come from.
LEMMA YoungOfSame ==
    ASSUME NEW f, NEW g, NEW k, \A a \in 0 .. k : g[a] = f[a]
    PROVE  Young(g, k) = Young(f, k)
BY TotalSame DEF Young

\* A new member of age b.
LEMMA YoungOfMore ==
    ASSUME NEW n \in Nat, NEW f, f \in Bags(0 .. n), NEW b \in 0 .. n, NEW k \in 0 .. n
    PROVE  Young([f EXCEPT ![b] = @ + 1], k) = Young(f, k) + (IF b <= k THEN 1 ELSE 0)
<1>1. PICK g : g = [f EXCEPT ![b] = @ + 1]  OBVIOUS
<1>2. /\ g \in Bags(0 .. n) /\ g[b] = f[b] + 1
      /\ \A a \in 0 .. n : a # b => g[a] = f[a]
      /\ f[b] \in Nat
  BY <1>1 DEF Bags
<1>3. Young(f, k) \in Nat  BY YoungType
<1>4. CASE b <= k
  <2>1. k \in b .. n  BY <1>4
  <2>2. Young(g, k) = Young(f, k) - f[b] + g[b]  BY <1>2, <2>1, YoungOfChange
  <2>3. QED  BY <1>1, <1>2, <1>3, <1>4, <2>2
<1>5. CASE ~(b <= k)
  <2>1. \A a \in 0 .. k : g[a] = f[a]  BY <1>2, <1>5
  <2>2. Young(g, k) = Young(f, k)  BY <2>1, YoungOfSame
  <2>3. QED  BY <1>1, <1>3, <1>5, <2>2
<1>6. QED  BY <1>4, <1>5

LEMMA YoungOfLess ==
    ASSUME NEW n \in Nat, NEW f \in Bags(0 .. n), NEW g \in Bags(0 .. n),
           NEW k \in Int, k <= n, \A a \in 0 .. k : f[a] <= g[a]
    PROVE  Young(f, k) <= Young(g, k)
<1>1. IsFiniteSet(0 .. k) /\ 0 .. k \subseteq 0 .. n  BY AgesUpTo
<1>2. \A a \in 0 .. k : f[a] \in Nat /\ g[a] \in Nat  BY <1>1 DEF Bags
<1>3. QED  BY <1>1, <1>2, TotalSmaller DEF Young

\* A set of ages has a youngest one.
LEMMA NewestExists ==
    ASSUME NEW S, S \subseteq Nat, S # {}
    PROVE  Min(S) \in S /\ \A a \in S : Min(S) <= a
<1> DEFINE R == {p \in Nat \X Nat : p[1] < p[2]}
<1>1. IsWellFoundedOn(R, Nat)  BY NatLessThanWellFounded DEF OpToRel
<1>2. PICK m \in S : \A a \in S : <<a, m>> \notin R
  <2> HIDE DEF R
  <2> QED  BY <1>1, WFMin
<1>3. m \in Nat /\ \A a \in S : a \in Nat /\ ~(a < m)  BY <1>2
<1>4. \A a \in S : m <= a  BY <1>3
<1>5. QED  BY <1>4 DEF Min

\* The newest member is gone: one less among the young, if there was any.
LEMMA YoungOfRemoved ==
    ASSUME NEW n \in Nat, NEW f \in Bags(0 .. n), NEW k \in 0 .. n
    PROVE  /\ NewestRemoved(f) \in Bags(0 .. n)
           /\ \A a \in 0 .. n : NewestRemoved(f)[a] <= f[a]
           /\ Young(NewestRemoved(f), k) = IF Young(f, k) = 0 THEN 0 ELSE Young(f, k) - 1
<1> DEFINE held == {a \in 0 .. n : f[a] > 0}
           g == NewestRemoved(f)
           b == Min(held)
<1>1. IsFiniteSet(0 .. k) /\ 0 .. k \subseteq 0 .. n  BY AgesUpTo
<1>2. Young(f, k) \in Nat /\ DOMAIN f = 0 .. n /\ \A a \in 0 .. n : f[a] \in Nat
  BY YoungType DEF Bags
<1>3. CASE held = {}
  <2>1. g = f  BY <1>2, <1>3 DEF NewestRemoved
  <2>2. \A a \in 0 .. k : f[a] = 0  BY <1>1, <1>2, <1>3
  <2>3. Young(f, k) = 0  BY <2>2, TotalZero DEF Young
  <2>4. QED  BY <1>2, <2>1, <2>3
<1>4. CASE held # {}
  <2>1. b \in held /\ \A a \in held : b <= a
    <3>1. held \subseteq Nat  OBVIOUS
    <3> HIDE DEF held
    <3>2. QED  BY <3>1, <1>4, NewestExists
  <2> HIDE DEF b
  <2>2. g = [f EXCEPT ![b] = @ - 1]  BY <1>2, <1>4, <2>1 DEF NewestRemoved, b
  <2>3. /\ g \in Bags(0 .. n) /\ g[b] = f[b] - 1
        /\ \A a \in 0 .. n : a # b => g[a] = f[a]
    BY <2>1, <2>2 DEF Bags
  <2> HIDE DEF g
  <2>4. CASE b <= k
    <3>1. b \in 0 .. k  BY <2>1, <2>4
    <3>2. Young(g, k) = Young(f, k) - f[b] + g[b]
      <4>1. k \in b .. n /\ b \in 0 .. n  BY <2>1, <3>1
      <4>2. QED  BY <2>3, <4>1, YoungOfChange
    <3>3. f[b] <= Total(f, 0 .. k)
      <4>1. \A a \in 0 .. k : f[a] \in Nat  BY <1>1, <1>2
      <4>2. QED  BY <1>1, <3>1, <4>1, TotalPositive
    <3>4. f[b] \in Nat /\ f[b] > 0 /\ g[b] = f[b] - 1  BY <1>2, <2>1, <2>3
    <3>5. Young(g, k) = Young(f, k) - 1 /\ Young(f, k) # 0
      BY <1>2, <3>2, <3>3, <3>4 DEF Young
    <3>6. \A a \in 0 .. n : g[a] <= f[a]  BY <1>2, <2>1, <2>3
    <3>7. QED  BY <2>3, <3>5, <3>6 DEF g
  <2>5. CASE b > k
    <3>1. \A a \in 0 .. k : f[a] = 0 /\ g[a] = 0
      <4>1. SUFFICES ASSUME NEW a \in 0 .. k  PROVE f[a] = 0 /\ g[a] = 0
        OBVIOUS
      <4>2. a \in 0 .. n /\ a # b /\ f[a] \in Nat  BY <1>1, <1>2, <2>1, <2>5
      <4>3. a \notin held  BY <2>1, <2>5
      <4>4. QED  BY <2>3, <4>2, <4>3
    <3>2. Young(f, k) = 0 /\ Young(g, k) = 0  BY <3>1, TotalZero DEF Young
    <3>3. \A a \in 0 .. n : g[a] <= f[a]  BY <1>2, <2>1, <2>3
    <3>4. QED  BY <2>3, <3>2, <3>3 DEF g
  <2>6. QED  BY <2>1, <2>4, <2>5
<1>5. QED  BY <1>3, <1>4

\* The members of two bags are put together.
LEMMA YoungOfSum ==
    ASSUME NEW n \in Nat, NEW f, f \in Bags(0 .. n), NEW g, g \in Bags(0 .. n),
           NEW h, \A a \in 0 .. n : h[a] = f[a] + g[a],
           NEW k, k \in 0 .. n
    PROVE  Young(h, k) = Young(f, k) + Young(g, k)
<1>1. PICK ages : ages = 0 .. k  OBVIOUS
<1>2. IsFiniteSet(ages) /\ ages \subseteq 0 .. n  BY <1>1, AgesUpTo
<1>3. \A a \in ages : f[a] \in Nat  BY <1>2 DEF Bags
<1>4. \A a \in ages : g[a] \in Nat  BY <1>2 DEF Bags
<1>5. \A a \in ages : h[a] = f[a] + g[a]  BY <1>2
<1>6. Total(h, ages) = Total(f, ages) + Total(g, ages)
  BY ONLY <1>2, <1>3, <1>4, <1>5, TotalSum
<1>7. QED  BY <1>1, <1>6 DEF Young

\* More ages have more members.
LEMMA YoungMonotone ==
    ASSUME NEW n \in Nat, NEW f \in Bags(0 .. n), NEW k \in Int, NEW j \in Int,
           k <= j, j <= n
    PROVE  Young(f, k) <= Young(f, j)
<1>1. IsFiniteSet(0 .. j) /\ 0 .. k \subseteq 0 .. j  BY AgesUpTo
<1>2. \A a \in 0 .. j : f[a] \in Nat  BY DEF Bags
<1>3. QED  BY <1>1, <1>2, TotalMonotone DEF Young

\* Where no member is older, the young are all there are.
LEMMA YoungOfAll ==
    ASSUME NEW f, NEW j \in Int, NEW k \in Int, k <= j, \A a \in k + 1 .. j : f[a] = 0
    PROVE  Young(f, j) = Young(f, k)
<1>1. 0 .. k \subseteq 0 .. j /\ \A a \in (0 .. j) \ (0 .. k) : f[a] = 0  OBVIOUS
<1>2. QED  BY <1>1, TotalSupport DEF Young

\* No more than the young there are has any one age.
LEMMA YoungPositive ==
    ASSUME NEW n \in Nat, NEW f \in Bags(0 .. n), NEW k \in 0 .. n, NEW a \in 0 .. k
    PROVE  f[a] <= Young(f, k)
<1>1. IsFiniteSet(0 .. k) /\ 0 .. k \subseteq 0 .. n  BY AgesUpTo
<1>2. \A b \in 0 .. k : f[b] \in Nat  BY <1>1 DEF Bags
<1>3. QED  BY <1>1, <1>2, TotalPositive DEF Young

\* After a tick the members of at most k ticks are those that were of at most k - 1.
LEMMA YoungOfOlder ==
    ASSUME NEW n \in Nat, NEW f, f \in Bags(0 .. n), NEW g, g \in Bags(0 .. n),
           NEW k \in 0 .. n,
           g[0] = 0, \A a \in 1 .. k : g[a] = f[a - 1]
    PROVE  Young(g, k) = Young(f, k - 1)
<1>1. PICK S, T : S = 0 .. k /\ T = 0 .. k - 1  OBVIOUS
<1>2. /\ IsFiniteSet(S) /\ IsFiniteSet(T) /\ S \subseteq Nat /\ T \subseteq Nat
      /\ S \subseteq 0 .. n /\ T \subseteq 0 .. n
  BY <1>1, AgesUpTo
<1>3. \A x \in T : f[x] \in Nat  BY <1>2 DEF Bags
<1>4. \A x \in S : g[x] \in Nat  BY <1>2 DEF Bags
<1>5. \A x \in S : g[x] = 0 \/ (x - 1 \in T /\ g[x] = f[x - 1])
  <2>1. SUFFICES ASSUME NEW x \in S, x # 0  PROVE x - 1 \in T /\ g[x] = f[x - 1]
    OBVIOUS
  <2>2. x \in 1 .. k /\ x - 1 \in T  BY <1>1, <2>1
  <2>3. QED  BY <2>2
<1>6. \A x \in T : x + 1 \in S /\ f[x] <= g[x + 1]
  <2>1. SUFFICES ASSUME NEW x \in T  PROVE x + 1 \in S /\ f[x] <= g[x + 1]
    OBVIOUS
  <2>2. x \in Nat /\ x + 1 \in S /\ x + 1 \in 1 .. k /\ (x + 1) - 1 = x  BY <1>1, <2>1
  <2>3. g[x + 1] = f[x]  BY <2>2
  <2>4. f[x] \in Nat  BY <1>3
  <2>5. QED  BY <2>2, <2>3, <2>4
<1>7. Total(g, S) <= Total(f, T)  BY ONLY <1>2, <1>3, <1>5, TotalShifted
<1>8. Total(f, T) <= Total(g, S)  BY ONLY <1>2, <1>3, <1>4, <1>6, TotalShiftedUp
<1>9. Total(f, T) \in Nat /\ Total(g, S) \in Nat
  BY ONLY <1>2, <1>3, <1>4, TotalType
<1>10. QED  BY <1>1, <1>7, <1>8, <1>9 DEF Young

-----------------------------------------------------------------------------
(* What is counted and what was granted within k ticks *)

InRedis(i, k) == Young(zset[i], k)
InDeque(k) == [w \in Workers |-> Young(deque[w], k)]
Given(k) == [w \in Workers |-> Young(granted[w], k)]
LeftOver(i, k) == Young(abandoned[i], k)

LEMMA BagTypes ==
    ASSUME TypeOK
    PROVE  /\ Ages = 0 .. Oldest - 1 /\ DequeAges = 0 .. Oldest /\ Oldest - 1 \in Nat
           /\ \A w \in Workers : /\ deque[w] \in Bags(0 .. Oldest)
                                 /\ granted[w] \in Bags(0 .. Oldest - 1)
                                 /\ fallback[w] \in Bags(0 .. TTL["5h"] - 1)
                                 /\ reserved[w] \in Nat
           /\ \A i \in Windows : /\ zset[i] \in Bags(0 .. Oldest - 1)
                                 /\ abandoned[i] \in Bags(0 .. Oldest - 1)
<1>1. Ages = 0 .. Oldest - 1 /\ DequeAges = 0 .. Oldest /\ Oldest - 1 \in Nat
  BY ConstantTypes DEF Ages, DequeAges, Oldest
<1>2. QED  BY <1>1 DEF TypeOK, WindowAges

LEMMA CountTypes ==
    ASSUME TypeOK, NEW k \in Int, k < Oldest
    PROVE  /\ \A w \in Workers : /\ Young(deque[w], k) \in Nat
                                 /\ Young(granted[w], k) \in Nat
                                 /\ InDeque(k)[w] = Young(deque[w], k)
                                 /\ Given(k)[w] = Young(granted[w], k)
           /\ InDeque(k) \in [Workers -> Nat] /\ Given(k) \in [Workers -> Nat]
           /\ \A i \in Windows : InRedis(i, k) \in Nat /\ LeftOver(i, k) \in Nat
           /\ k < 0 => /\ \A i \in Windows : InRedis(i, k) = 0 /\ LeftOver(i, k) = 0
                       /\ \A w \in Workers : InDeque(k)[w] = 0 /\ Given(k)[w] = 0
<1>1. Oldest \in Nat /\ Oldest - 1 \in Nat /\ k <= Oldest - 1 /\ k <= Oldest
  BY BagTypes, ConstantTypes
<1>2. \A w \in Workers : /\ Young(deque[w], k) \in Nat /\ Young(granted[w], k) \in Nat
                         /\ k < 0 => Young(deque[w], k) = 0 /\ Young(granted[w], k) = 0
  BY <1>1, BagTypes, YoungType
<1>3. \A i \in Windows : InRedis(i, k) \in Nat /\ (k < 0 => InRedis(i, k) = 0)
  BY <1>1, BagTypes, YoungType DEF InRedis
<1>4. \A i \in Windows : LeftOver(i, k) \in Nat /\ (k < 0 => LeftOver(i, k) = 0)
  BY <1>1, BagTypes, YoungType DEF LeftOver
<1>5. QED  BY <1>2, <1>3, <1>4 DEF InDeque, Given

\* trim() drops old timestamps only.
LEMMA TrimmedFacts ==
    ASSUME TypeOK, NEW w \in Workers
    PROVE  /\ Trimmed(w) \in Bags(0 .. Oldest)
           /\ \A a \in DequeAges : /\ Trimmed(w)[a] <= deque[w][a]
                                   /\ a >= TTL["5h"] => Trimmed(w)[a] = 0
           /\ \A k \in DequeAges : Young(Trimmed(w), k) <= Young(deque[w], k)
           /\ \A k \in WindowAges("5h") : Young(Trimmed(w), k) = Young(deque[w], k)
           /\ Young(Trimmed(w), Oldest) = Young(deque[w], TTL["5h"] - 1)
<1>1. /\ DequeAges = 0 .. Oldest /\ Oldest \in Nat /\ deque[w] \in Bags(0 .. Oldest)
      /\ TTL["5h"] \in Nat \ {0} /\ TTL["5h"] <= Oldest
  BY BagTypes, ConstantTypes
<1>2. \A a \in 0 .. Oldest : deque[w][a] \in Nat  BY <1>1 DEF Bags
<1>3. /\ Trimmed(w) \in Bags(0 .. Oldest)
      /\ \A a \in 0 .. Oldest : /\ Trimmed(w)[a] <= deque[w][a]
                                /\ a < TTL["5h"] => Trimmed(w)[a] = deque[w][a]
                                /\ a >= TTL["5h"] => Trimmed(w)[a] = 0
  BY <1>1, <1>2 DEF Trimmed, Bags
<1>4. ASSUME NEW k \in 0 .. Oldest  PROVE Young(Trimmed(w), k) <= Young(deque[w], k)
  <2>1. \A a \in 0 .. k : Trimmed(w)[a] <= deque[w][a]  BY <1>1, <1>3
  <2>2. k \in Int /\ k <= Oldest  BY <1>1
  <2>3. QED  BY <1>1, <1>3, <2>1, <2>2, YoungOfLess
<1>5. ASSUME NEW k \in WindowAges("5h")  PROVE Young(Trimmed(w), k) = Young(deque[w], k)
  <2>1. \A a \in 0 .. k : Trimmed(w)[a] = deque[w][a]  BY <1>1, <1>3 DEF WindowAges
  <2>2. QED  BY <2>1, YoungOfSame
<1>6. Young(Trimmed(w), Oldest) = Young(deque[w], TTL["5h"] - 1)
  <2>1. TTL["5h"] - 1 \in Int /\ TTL["5h"] - 1 <= Oldest /\ Oldest \in Int  BY <1>1
  <2>2. \A a \in (TTL["5h"] - 1) + 1 .. Oldest : Trimmed(w)[a] = 0  BY <1>1, <1>3
  <2>3. Young(Trimmed(w), Oldest) = Young(Trimmed(w), TTL["5h"] - 1)
    BY <2>1, <2>2, YoungOfAll
  <2>4. TTL["5h"] - 1 \in WindowAges("5h")  BY <1>1 DEF WindowAges
  <2>5. QED  BY <1>5, <2>3, <2>4
<1>7. QED  BY <1>1, <1>3, <1>4, <1>5, <1>6

\* Nothing in a ZSET is as old as its window.
PurgedInv == \A i \in Windows, a \in Ages : a >= TTL[i] => zset[i][a] = 0

\* A flush adds the deque's timestamps to every window.
LEMMA FlushedFacts ==
    ASSUME TypeOK, NEW w \in Workers, NEW i \in Windows
    PROVE  /\ Flushed(w)[i] \in Bags(0 .. Oldest - 1)
           /\ Flushed(w) \in [Windows -> Bags(Ages)]
           /\ \A k \in Ages : Young(Flushed(w)[i], k) = InRedis(i, k) + Young(Trimmed(w), k)
           /\ PurgedInv => \A a \in Ages : a >= TTL[i] => Flushed(w)[i][a] = 0
<1>1. /\ Ages = 0 .. Oldest - 1 /\ DequeAges = 0 .. Oldest /\ Oldest - 1 \in Nat
      /\ Oldest \in Nat /\ zset[i] \in Bags(0 .. Oldest - 1) /\ TTL["5h"] <= TTL[i]
      /\ TTL["5h"] \in Nat /\ TTL[i] \in Nat
  BY BagTypes, ConstantTypes
<1>2. Trimmed(w) \in Bags(0 .. Oldest)  BY TrimmedFacts
<1>3. \A j \in Windows, a \in Ages : zset[j][a] \in Nat /\ Trimmed(w)[a] \in Nat
  BY <1>1, <1>2, BagTypes DEF Bags
<1>4. Flushed(w) \in [Windows -> Bags(Ages)]  BY <1>3 DEF Flushed, Bags
<1>5. Flushed(w)[i] \in Bags(0 .. Oldest - 1)  BY <1>1, <1>4
<1>6. \A a \in 0 .. Oldest - 1 : Flushed(w)[i][a] = zset[i][a] + Trimmed(w)[a]
  BY <1>1 DEF Flushed
<1>7. ASSUME NEW k \in Ages
      PROVE  Young(Flushed(w)[i], k) = InRedis(i, k) + Young(Trimmed(w), k)
  <2> DEFINE part == [a \in 0 .. Oldest - 1 |-> Trimmed(w)[a]]
  <2>1. part \in Bags(0 .. Oldest - 1)  BY <1>1, <1>3 DEF Bags
  <2>2. \A a \in 0 .. Oldest - 1 : Flushed(w)[i][a] = zset[i][a] + part[a]  BY <1>6
  <2>3. \A a \in 0 .. k : part[a] = Trimmed(w)[a]  BY <1>1
  <2> HIDE DEF part
  <2>4. Young(part, k) = Young(Trimmed(w), k)  BY <2>3, YoungOfSame
  <2>5. k \in 0 .. Oldest - 1 /\ Oldest - 1 \in Nat /\ zset[i] \in Bags(0 .. Oldest - 1)
    BY <1>1
  <2>6. PICK n, both, held : n = Oldest - 1 /\ both = Flushed(w)[i] /\ held = zset[i]
    OBVIOUS
  <2>7. /\ n \in Nat /\ k \in 0 .. n /\ held \in Bags(0 .. n) /\ part \in Bags(0 .. n)
        /\ \A a \in 0 .. n : both[a] = held[a] + part[a]
    BY <2>1, <2>2, <2>5, <2>6
  <2>8. Young(both, k) = Young(held, k) + Young(part, k)
    BY ONLY <2>7, YoungOfSum
  <2>9. QED  BY <2>4, <2>6, <2>8 DEF InRedis
<1>8. ASSUME PurgedInv, NEW a \in Ages, a >= TTL[i]  PROVE Flushed(w)[i][a] = 0
  <2>1. zset[i][a] = 0  BY <1>8 DEF PurgedInv
  <2>2. a \in DequeAges /\ a >= TTL["5h"]  BY <1>1, <1>8
  <2>3. Trimmed(w)[a] = 0  BY <2>2, TrimmedFacts
  <2>4. QED  BY <1>1, <1>6, <2>1, <2>3
<1>9. QED  BY <1>4, <1>5, <1>7, <1>8

\* What the script counts in a window: the ZSET and what it has just been sent.
LEMMA CountsFacts ==
    ASSUME TypeOK, NEW w \in Workers, NEW i \in Windows
    PROVE  /\ Counts(w)[i] \in Nat
           /\ PurgedInv => Counts(w)[i] = InRedis(i, TTL[i] - 1) + InDeque(TTL["5h"] - 1)[w]
<1>1. /\ Ages = 0 .. Oldest - 1 /\ Oldest - 1 \in Nat /\ Oldest \in Nat
      /\ TTL[i] \in Nat \ {0} /\ TTL[i] <= Oldest /\ TTL["5h"] \in Nat \ {0}
      /\ TTL["5h"] <= TTL[i]
  BY BagTypes, ConstantTypes
<1>2. Oldest - 1 \in Ages /\ Oldest - 1 \in Int /\ Oldest - 1 < Oldest  BY <1>1
<1>3. Counts(w)[i] = Young(Flushed(w)[i], Oldest - 1)
  BY <1>1 DEF Counts, Count, Young
<1>4. Counts(w)[i] = InRedis(i, Oldest - 1) + Young(Trimmed(w), Oldest - 1)
  BY <1>2, <1>3, FlushedFacts
<1>5. InRedis(i, Oldest - 1) \in Nat  BY <1>2, CountTypes
<1>6. Young(Trimmed(w), Oldest - 1) \in Nat
  BY <1>1, <1>2, TrimmedFacts, YoungType
<1>7. ASSUME PurgedInv
      PROVE  Counts(w)[i] = InRedis(i, TTL[i] - 1) + InDeque(TTL["5h"] - 1)[w]
  <2>1. \A a \in (TTL[i] - 1) + 1 .. Oldest - 1 : zset[i][a] = 0
    BY <1>1, <1>7 DEF PurgedInv
  <2>2. TTL[i] - 1 \in Int /\ TTL[i] - 1 <= Oldest - 1 /\ TTL["5h"] - 1 \in Int
        /\ TTL["5h"] - 1 <= Oldest - 1
    BY <1>1
  <2>3. InRedis(i, Oldest - 1) = InRedis(i, TTL[i] - 1)
    BY <1>2, <2>1, <2>2, YoungOfAll DEF InRedis
  <2>4. \A a \in (TTL["5h"] - 1) + 1 .. Oldest - 1 : Trimmed(w)[a] = 0
    BY <1>1, BagTypes, TrimmedFacts
  <2>5. Young(Trimmed(w), Oldest - 1) = Young(Trimmed(w), TTL["5h"] - 1)
    BY <1>2, <2>2, <2>4, YoungOfAll
  <2>6. TTL["5h"] - 1 \in WindowAges("5h")  BY <1>1 DEF WindowAges
  <2>7. Young(Trimmed(w), TTL["5h"] - 1) = InDeque(TTL["5h"] - 1)[w]
    BY <2>6, TrimmedFacts DEF InDeque
  <2>8. QED  BY <1>4, <2>3, <2>5, <2>7
<1>8. QED  BY <1>4, <1>5, <1>6, <1>7

\* The quota that a script grants.
Quota(w) == Min({Batch, Avail(w)})

\* There is some, and no more than a batch or than the 5h window has room for.
LEMMA QuotaFacts ==
    ASSUME TypeOK, NEW w \in Workers, Exceeded(w) = {}
    PROVE  /\ Quota(w) \in Nat \ {0}
           /\ Quota(w) <= Batch
           /\ Quota(w) <= Limit["5h"] - Counts(w)["5h"]
           /\ Counts(w)["5h"] <= Limit["5h"]
<1> DEFINE room == {Limit[i] - Counts(w)[i] : i \in Windows}
<1>1. \A i \in Windows : /\ Counts(w)[i] \in Nat /\ Limit[i] \in Nat
                         /\ Counts(w)[i] < Limit[i]
  BY CountsFacts, ConstantTypes DEF Exceeded
<1>2. room \subseteq Nat /\ Limit["5h"] - Counts(w)["5h"] \in room /\ 0 \notin room
  BY <1>1, ConstantTypes
<1>3. Avail(w) = Min(room)  BY DEF Avail
<1> HIDE DEF room
<1>4. Avail(w) \in room /\ \A r \in room : Avail(w) <= r
  BY <1>2, <1>3, NewestExists
<1>5. Avail(w) \in Nat \ {0} /\ Avail(w) <= Limit["5h"] - Counts(w)["5h"]
  BY <1>2, <1>4
<1>6. Batch \in Nat \ {0}  BY BatchType
<1>7. /\ {Batch, Avail(w)} \subseteq Nat /\ {Batch, Avail(w)} # {}
  BY <1>5, <1>6
<1>8. Quota(w) \in {Batch, Avail(w)} /\ \A r \in {Batch, Avail(w)} : Quota(w) <= r
  BY <1>7, NewestExists DEF Quota
<1>9. QED  BY <1>1, <1>5, <1>6, <1>8, ConstantTypes

-----------------------------------------------------------------------------
(* Types *)

\* What the operations on bags return.
LEMMA BagOperations ==
    ASSUME NEW n \in Nat, NEW f \in Bags(0 .. n)
    PROVE  /\ OneNew(f) \in Bags(0 .. n)
           /\ NewestRemoved(f) \in Bags(0 .. n)
           /\ Older(f, 0 .. n) \in Bags(0 .. n)
           /\ Empty(0 .. n) \in Bags(0 .. n)
<1>1. 0 \in 0 .. n /\ n \in Int /\ n <= n  OBVIOUS
<1>2. OneNew(f) \in Bags(0 .. n)  BY <1>1, YoungOfNew
<1>3. NewestRemoved(f) \in Bags(0 .. n)  BY <1>1, YoungOfRemoved
<1>4. Empty(0 .. n) \in Bags(0 .. n)  BY <1>1, YoungOfEmpty
<1>5. \A a \in 0 .. n : a # 0 => f[a - 1] \in Nat
  <2>1. \A a \in 0 .. n : a # 0 => a - 1 \in 0 .. n  OBVIOUS
  <2>2. QED  BY <2>1 DEF Bags
<1>6. Older(f, 0 .. n) \in Bags(0 .. n)  BY <1>5 DEF Older, Bags
<1>7. QED  BY <1>2, <1>3, <1>4, <1>6

\* The same for the bags of a state.
LEMMA StateBags ==
    ASSUME TypeOK
    PROVE  /\ \A w \in Workers :
                  /\ {OneNew(deque[w]), NewestRemoved(deque[w]), Trimmed(w),
                      OneNew(Trimmed(w)), OneNew(Empty(DequeAges)), Empty(DequeAges)}
                         \subseteq Bags(DequeAges)
                  /\ {OneNew(granted[w]), Older(granted[w], Ages)} \subseteq Bags(Ages)
                  /\ {OneNew(fallback[w]), Older(fallback[w], WindowAges("5h"))}
                         \subseteq Bags(WindowAges("5h"))
                  /\ Flushed(w) \in [Windows -> Bags(Ages)]
           /\ \A i \in Windows :
                  {NewestRemoved(zset[i]), Purged(i), Older(abandoned[i], Ages)}
                      \subseteq Bags(Ages)
<1>1. /\ Ages = 0 .. Oldest - 1 /\ DequeAges = 0 .. Oldest /\ Oldest - 1 \in Nat
      /\ Oldest \in Nat /\ WindowAges("5h") = 0 .. TTL["5h"] - 1 /\ TTL["5h"] - 1 \in Nat
  BY BagTypes, ConstantTypes DEF WindowAges
<1>2. ASSUME NEW w \in Workers
      PROVE  /\ {OneNew(deque[w]), NewestRemoved(deque[w]), Trimmed(w),
                 OneNew(Trimmed(w)), OneNew(Empty(DequeAges)), Empty(DequeAges)}
                    \subseteq Bags(DequeAges)
             /\ {OneNew(granted[w]), Older(granted[w], Ages)} \subseteq Bags(Ages)
             /\ {OneNew(fallback[w]), Older(fallback[w], WindowAges("5h"))}
                    \subseteq Bags(WindowAges("5h"))
             /\ Flushed(w) \in [Windows -> Bags(Ages)]
  <2>1. /\ deque[w] \in Bags(0 .. Oldest) /\ granted[w] \in Bags(0 .. Oldest - 1)
        /\ fallback[w] \in Bags(0 .. TTL["5h"] - 1) /\ Trimmed(w) \in Bags(0 .. Oldest)
    BY BagTypes, TrimmedFacts
  <2>2. Empty(DequeAges) \in Bags(DequeAges)  BY <1>1, <2>1, BagOperations
  <2>3. OneNew(Empty(DequeAges)) \in Bags(DequeAges)  BY <1>1, <2>2, BagOperations
  <2>4. {OneNew(deque[w]), NewestRemoved(deque[w]), Trimmed(w), OneNew(Trimmed(w))}
            \subseteq Bags(DequeAges)
    BY <1>1, <2>1, BagOperations
  <2>5. {OneNew(granted[w]), Older(granted[w], Ages)} \subseteq Bags(Ages)
    BY <1>1, <2>1, BagOperations
  <2>6. {OneNew(fallback[w]), Older(fallback[w], WindowAges("5h"))}
            \subseteq Bags(WindowAges("5h"))
    BY <1>1, <2>1, BagOperations
  <2>7. Flushed(w) \in [Windows -> Bags(Ages)]  BY ConstantTypes, FlushedFacts
  <2>8. QED  BY <2>2, <2>3, <2>4, <2>5, <2>6, <2>7
<1>3. ASSUME NEW i \in Windows
      PROVE  {NewestRemoved(zset[i]), Purged(i), Older(abandoned[i], Ages)} \subseteq Bags(Ages)
  <2>1. zset[i] \in Bags(0 .. Oldest - 1) /\ abandoned[i] \in Bags(0 .. Oldest - 1)
    BY BagTypes
  <2>2. NewestRemoved(zset[i]) \in Bags(Ages)  BY <1>1, <2>1, BagOperations
  <2>3. \A a \in Ages : a > 0 => a - 1 \in Ages  BY <1>1
  <2>4. \A a \in Ages : a > 0 => zset[i][a - 1] \in Nat  BY <1>1, <2>1, <2>3 DEF Bags
  <2>5. Purged(i) \in Bags(Ages)  BY <2>4 DEF Purged, Bags
  <2>6. Older(abandoned[i], Ages) \in Bags(Ages)  BY <1>1, <2>1, BagOperations
  <2>7. QED  BY <2>2, <2>5, <2>6
<1>4. QED  BY <1>2, <1>3

LEMMA InitTypes == Init => TypeOK
<1>1. /\ Ages = 0 .. Oldest - 1 /\ DequeAges = 0 .. Oldest /\ Oldest - 1 \in Nat
      /\ WindowAges("5h") = 0 .. TTL["5h"] - 1 /\ TTL["5h"] - 1 \in Nat /\ Oldest \in Nat
      /\ Limit["5h"] \in Nat
  BY ConstantTypes DEF Ages, DequeAges, WindowAges, Oldest
<1>2. \A n \in Nat : Empty(0 .. n) \in Bags(0 .. n)  BY DEF Empty, Bags
<1>3. /\ Empty(Ages) \in Bags(Ages) /\ Empty(DequeAges) \in Bags(DequeAges)
      /\ Empty(WindowAges("5h")) \in Bags(WindowAges("5h"))
  BY <1>1, <1>2
<1>4. QED  BY <1>1, <1>3 DEF Init, TypeOK

LEMMA NextTypes == TypeOK /\ [Next]_vars => TypeOK'
<1>1. SUFFICES ASSUME TypeOK, [Next]_vars  PROVE TypeOK'
  OBVIOUS
<1>2. Limit["5h"] \in Nat \ {0}  BY ConstantTypes
<1>3. ASSUME NEW w \in Workers, FallbackDecides(w)
      PROVE  fallback' \in [Workers -> Bags(WindowAges("5h"))]
  BY <1>1, <1>3, StateBags DEF FallbackDecides, TypeOK
<1>4. ASSUME NEW w \in Workers, DenyLocal(w)  PROVE TypeOK'
  BY <1>1, <1>4, StateBags DEF DenyLocal, TypeOK, boundVars, historyVars
<1>5. ASSUME NEW w \in Workers, Consume(w)  PROVE TypeOK'
  BY <1>1, <1>5, StateBags DEF Consume, TypeOK, boundVars, historyVars
<1>6. ASSUME NEW w \in Workers, PrefetchDenied(w)  PROVE TypeOK'
  BY <1>1, <1>2, <1>6, StateBags DEF PrefetchDenied, TypeOK, boundVars, historyVars
<1>7. ASSUME NEW w \in Workers, PrefetchGranted(w)  PROVE TypeOK'
  <2>1. Quota(w) - 1 \in Nat  BY <1>1, <1>7, QuotaFacts DEF PrefetchGranted
  <2>2. Limit["5h"] - Counts(w)["5h"] \in 0 .. Limit["5h"]
    BY <1>1, <1>2, <1>7, QuotaFacts, CountsFacts, ConstantTypes DEF PrefetchGranted
  <2>3. QED
    BY <1>1, <1>7, <2>1, <2>2, StateBags DEF PrefetchGranted, Quota, TypeOK, boundVars, historyVars
<1>8. ASSUME NEW w \in Workers, Degrade(w)  PROVE TypeOK'
  BY <1>1, <1>3, <1>8, StateBags DEF Degrade, TypeOK, boundVars, historyVars
<1>9. ASSUME NEW w \in Workers, AnswerLost(w)  PROVE TypeOK'
  BY <1>1, <1>3, <1>9, StateBags DEF AnswerLost, TypeOK, boundVars, historyVars
<1>10. ASSUME NEW w \in Workers, SnapshotExpires(w)  PROVE TypeOK'
  BY <1>1, <1>10 DEF SnapshotExpires, TypeOK, boundVars, historyVars
<1>11. ASSUME NEW w \in Workers, NEW a \in Ages, Refund(w, a)  PROVE TypeOK'
  <2>1. [granted[w] EXCEPT ![a] = @ - 1] \in Bags(Ages)
    BY <1>1, <1>11 DEF Refund, TypeOK, Bags
  <2>2. granted' \in [Workers -> Bags(Ages)]
    BY <1>1, <1>11, <2>1 DEF Refund, TypeOK
  <2>3. /\ zset' \in [Windows -> Bags(Ages)] /\ deque' \in [Workers -> Bags(DequeAges)]
        /\ reserved' \in [Workers -> Nat] /\ abandoned' \in [Windows -> Bags(Ages)]
    <3>1. CASE Count(deque[w], DequeAges) > 0
      <4>1. /\ deque' = [deque EXCEPT ![w] = NewestRemoved(@)]
            /\ reserved' = [reserved EXCEPT ![w] = @ + 1] /\ zset' = zset
            /\ abandoned' = abandoned
        BY <1>11, <3>1 DEF Refund
      <4>2. deque' \in [Workers -> Bags(DequeAges)]  BY <1>1, <4>1, StateBags DEF TypeOK
      <4>3. reserved' \in [Workers -> Nat]  BY <1>1, <4>1 DEF TypeOK
      <4>4. QED  BY <1>1, <4>1, <4>2, <4>3 DEF TypeOK
    <3>2. CASE ~(Count(deque[w], DequeAges) > 0)
      <4>1. PICK done \in Reached :
                /\ zset' = [i \in Windows |-> IF i \in done THEN NewestRemoved(zset[i])
                                                            ELSE zset[i]]
                /\ abandoned' = [i \in Windows |->
                                    IF i \in done THEN abandoned[i]
                                    ELSE [abandoned[i] EXCEPT ![a] = @ + 1]]
        BY <1>11, <3>2 DEF Refund
      <4>2. zset' \in [Windows -> Bags(Ages)]  BY <1>1, <4>1, StateBags DEF TypeOK
      <4>3. \A i \in Windows : [abandoned[i] EXCEPT ![a] = @ + 1] \in Bags(Ages)
        BY <1>1 DEF TypeOK, Bags
      <4>4. abandoned' \in [Windows -> Bags(Ages)]  BY <1>1, <4>1, <4>3 DEF TypeOK
      <4>5. deque' = deque /\ reserved' = reserved  BY <1>11, <3>2 DEF Refund
      <4>6. QED  BY <1>1, <4>2, <4>4, <4>5 DEF TypeOK
    <3>3. QED  BY <3>1, <3>2
  <2>4. QED  BY <1>1, <1>11, <2>2, <2>3 DEF Refund, TypeOK
<1>12. CASE Tick
  <2>1. ASSUME NEW w \in Workers
        PROVE  [Older(deque[w], DequeAges) EXCEPT ![Oldest] = @ + deque[w][Oldest]]
                   \in Bags(DequeAges)
    <3>1. Older(deque[w], DequeAges) \in Bags(DequeAges) /\ deque[w] \in Bags(DequeAges)
      BY <1>1, BagTypes, BagOperations, ConstantTypes
    <3>2. Oldest \in DequeAges  BY AgesTypes
    <3>3. QED  BY <3>1, <3>2 DEF Bags
  <2>2. QED  BY <1>1, <1>12, <2>1, StateBags DEF Tick, TypeOK, boundVars
<1>13. CASE Outage
  <2>1. outages' \in Nat  BY <1>1, <1>13 DEF Outage, TypeOK
  <2>2. up' \in BOOLEAN  BY <1>13 DEF Outage
  <2>3. QED  BY <1>1, <1>13, <2>1, <2>2 DEF Outage, TypeOK, stateVars, historyVars
<1>14. CASE Recovery
  BY <1>1, <1>14 DEF Recovery, TypeOK, stateVars, boundVars, historyVars
<1>15. CASE UNCHANGED vars
  BY <1>1, <1>15 DEF vars, stateVars, boundVars, historyVars, TypeOK
<1>16. QED
  BY <1>1, <1>4, <1>5, <1>6, <1>7, <1>8, <1>9, <1>10, <1>11, <1>12, <1>13, <1>14, <1>15
     DEF Next, Check

\* Every count and every reservation stays a natural number, and a worker's snapshot of
\* the 5h window stays between 0 and its limit, whatever is refunded or expires.
THEOREM TypesHold == Spec => []TypeOK
<1>1. Init => TypeOK  BY InitTypes
<1>2. TypeOK /\ [Next]_vars => TypeOK'  BY NextTypes
<1>3. QED  BY <1>1, <1>2, PTL DEF Spec

-----------------------------------------------------------------------------
(* What each step does to the counts *)

\* trim()
LEMMA TrimCounts ==
    ASSUME TypeOK, NEW w \in Workers, deque' = [deque EXCEPT ![w] = Trimmed(w)], NEW k \in Ages
    PROVE  /\ InDeque(k)' = [InDeque(k) EXCEPT ![w] = Young(Trimmed(w), k)]
           /\ Young(Trimmed(w), k) \in Nat /\ Young(Trimmed(w), k) <= InDeque(k)[w]
           /\ k < TTL["5h"] => Young(Trimmed(w), k) = InDeque(k)[w]
<1>1. InDeque(k)' = [InDeque(k) EXCEPT ![w] = Young(Trimmed(w), k)]
  BY DEF InDeque, TypeOK
<1>2. k \in Int /\ k <= Oldest /\ Oldest \in Nat /\ k \in DequeAges
      /\ (k < TTL["5h"] => k \in WindowAges("5h"))
  BY BagTypes, ConstantTypes DEF WindowAges
<1>3. Young(Trimmed(w), k) \in Nat  BY <1>2, TrimmedFacts, YoungType
<1>4. QED  BY <1>1, <1>2, <1>3, TrimmedFacts DEF InDeque

LEMMA GrantCounts ==
    ASSUME TypeOK, NEW w \in Workers, granted' = [granted EXCEPT ![w] = OneNew(@)], NEW k \in Ages
    PROVE  Given(k)' = [Given(k) EXCEPT ![w] = @ + 1]
<1>1. /\ granted[w] \in Bags(0 .. Oldest - 1) /\ k \in 0 .. Oldest - 1 /\ Oldest - 1 \in Nat
  BY BagTypes
<1>2. Young(OneNew(granted[w]), k) = Young(granted[w], k) + 1  BY <1>1, YoungOfNew
<1>3. QED  BY <1>2 DEF Given, TypeOK

LEMMA ConsumeCounts ==
    ASSUME TypeOK, NEW w \in Workers, Consume(w), NEW k \in Ages
    PROVE  /\ InDeque(k)' = [InDeque(k) EXCEPT ![w] = Young(Trimmed(w), k) + 1]
           /\ Young(Trimmed(w), k) \in Nat /\ Young(Trimmed(w), k) <= InDeque(k)[w]
           /\ k < TTL["5h"] => Young(Trimmed(w), k) = InDeque(k)[w]
           /\ Given(k)' = [Given(k) EXCEPT ![w] = @ + 1]
           /\ \A i \in Windows : InRedis(i, k)' = InRedis(i, k)
<1>1. k \in 0 .. Oldest /\ Oldest \in Nat /\ k \in DequeAges /\ k \in Int /\ k <= Oldest
      /\ (k < TTL["5h"] => k \in WindowAges("5h"))
  BY BagTypes, ConstantTypes DEF WindowAges
<1>2. Young(OneNew(Trimmed(w)), k) = Young(Trimmed(w), k) + 1
  BY <1>1, TrimmedFacts, YoungOfNew
<1>3. InDeque(k)' = [InDeque(k) EXCEPT ![w] = Young(Trimmed(w), k) + 1]
  BY <1>2 DEF InDeque, TypeOK, Consume
<1>4. Given(k)' = [Given(k) EXCEPT ![w] = @ + 1]  BY GrantCounts DEF Consume
<1>5. Young(Trimmed(w), k) \in Nat  BY <1>1, TrimmedFacts, YoungType
<1>6. \A i \in Windows : InRedis(i, k)' = InRedis(i, k)  BY DEF Consume, InRedis
<1>7. QED  BY <1>1, <1>3, <1>4, <1>5, <1>6, TrimmedFacts DEF InDeque

\* A script counts the deque's timestamps in every window.
LEMMA FlushCounts ==
    ASSUME TypeOK, NEW w \in Workers, zset' = Flushed(w), NEW k \in Ages
    PROVE  /\ \A i \in Windows : InRedis(i, k)' = InRedis(i, k) + Young(Trimmed(w), k)
           /\ Young(Trimmed(w), k) \in Nat /\ Young(Trimmed(w), k) <= InDeque(k)[w]
           /\ k < TTL["5h"] => Young(Trimmed(w), k) = InDeque(k)[w]
<1>1. k \in Int /\ k <= Oldest /\ Oldest \in Nat /\ k \in DequeAges
      /\ (k < TTL["5h"] => k \in WindowAges("5h"))
  BY BagTypes, ConstantTypes DEF WindowAges
<1>2. Young(Trimmed(w), k) \in Nat  BY <1>1, TrimmedFacts, YoungType
<1>3. \A i \in Windows : InRedis(i, k)' = InRedis(i, k) + Young(Trimmed(w), k)
  BY FlushedFacts DEF InRedis
<1>4. QED  BY <1>1, <1>2, <1>3, TrimmedFacts DEF InDeque

LEMMA EmptiedCounts ==
    ASSUME TypeOK, NEW w \in Workers, NEW k \in Ages
    PROVE  /\ deque' = [deque EXCEPT ![w] = Empty(DequeAges)]
                  => InDeque(k)' = [InDeque(k) EXCEPT ![w] = 0]
           /\ deque' = [deque EXCEPT ![w] = OneNew(Empty(DequeAges))]
                  => InDeque(k)' = [InDeque(k) EXCEPT ![w] = 1]
<1>1. k \in 0 .. Oldest /\ Oldest \in Nat /\ k \in Int /\ k <= Oldest
      /\ DequeAges = 0 .. Oldest
  BY BagTypes, ConstantTypes
<1>2. Empty(DequeAges) \in Bags(0 .. Oldest) /\ Young(Empty(DequeAges), k) = 0
  BY <1>1, YoungOfEmpty
<1>3. Young(OneNew(Empty(DequeAges)), k) = 1
  BY <1>1, <1>2, YoungOfNew
<1>4. QED  BY <1>2, <1>3 DEF InDeque, TypeOK

\* refund()
LEMMA RefundCounts ==
    ASSUME TypeOK, NEW w \in Workers, NEW a \in Ages, Refund(w, a), NEW k \in Ages
    PROVE  /\ granted[w][a] > 0
           /\ Given(k)' = [Given(k) EXCEPT ![w] = @ - (IF a <= k THEN 1 ELSE 0)]
           /\ a <= k => Given(k)[w] > 0
<1>1. /\ granted[w] \in Bags(0 .. Oldest - 1) /\ k \in 0 .. Oldest - 1 /\ Oldest - 1 \in Nat
      /\ a \in 0 .. Oldest - 1 /\ granted[w][a] > 0
  BY BagTypes DEF Refund
<1> DEFINE after == [granted[w] EXCEPT ![a] = @ - 1]
<1>2. /\ after \in Bags(0 .. Oldest - 1) /\ after[a] = granted[w][a] - 1
      /\ \A b \in 0 .. Oldest - 1 : b # a => after[b] = granted[w][b]
      /\ granted[w][a] \in Nat
  BY <1>1 DEF Bags
<1>3. granted' = [granted EXCEPT ![w] = after]  BY DEF Refund, TypeOK
<1> HIDE DEF after
<1>4. Given(k)' = [Given(k) EXCEPT ![w] = Young(after, k)]  BY <1>3 DEF Given, TypeOK
<1>5. Young(granted[w], k) \in Nat /\ Given(k)[w] = Young(granted[w], k)
  <2>1. k \in Int /\ k < Oldest  BY <1>1, ConstantTypes
  <2>2. QED  BY <2>1, CountTypes
<1>6. CASE a <= k
  <2>1. k \in a .. Oldest - 1 /\ a \in 0 .. k  BY <1>1, <1>6
  <2>2. Young(after, k) = Young(granted[w], k) - granted[w][a] + after[a]
    BY <1>1, <1>2, <2>1, YoungOfChange
  <2>3. granted[w][a] <= Young(granted[w], k)  BY <1>1, <2>1, YoungPositive
  <2>4. Young(after, k) = Young(granted[w], k) - 1 /\ Young(granted[w], k) > 0
    BY <1>1, <1>2, <1>5, <2>2, <2>3
  <2>5. Young(after, k) = Given(k)[w] - (IF a <= k THEN 1 ELSE 0)  BY <1>5, <1>6, <2>4
  <2>6. QED  BY <1>1, <1>4, <1>5, <1>6, <2>4, <2>5
<1>7. CASE ~(a <= k)
  <2>1. \A b \in 0 .. k : after[b] = granted[w][b]  BY <1>1, <1>2, <1>7
  <2>2. Young(after, k) = Young(granted[w], k)  BY <2>1, YoungOfSame
  <2>3. Young(after, k) = Given(k)[w] - (IF a <= k THEN 1 ELSE 0)  BY <1>5, <1>7, <2>2
  <2>4. QED  BY <1>1, <1>4, <1>7, <2>3
<1>8. QED  BY <1>6, <1>7

\* One less among the young, if there is any.
Less(n) == IF n = 0 THEN 0 ELSE n - 1

LEMMA RefundedCounts ==
    ASSUME TypeOK, NEW w \in Workers, NEW a \in Ages, Refund(w, a), NEW k \in Ages
    PROVE  \/ /\ Count(deque[w], DequeAges) > 0
              /\ InDeque(k)' = [InDeque(k) EXCEPT ![w] = Less(@)]
              /\ zset' = zset /\ abandoned' = abandoned
              /\ deque' = [deque EXCEPT ![w] = NewestRemoved(@)]
              /\ reserved' = [reserved EXCEPT ![w] = @ + 1]
           \/ /\ Count(deque[w], DequeAges) = 0
              /\ deque' = deque /\ reserved' = reserved
              /\ InDeque(k)' = InDeque(k) /\ InDeque(k)[w] = 0
              /\ \A i \in Windows :
                    \/ /\ zset'[i] = NewestRemoved(zset[i])
                       /\ InRedis(i, k)' = Less(InRedis(i, k))
                       /\ LeftOver(i, k)' = LeftOver(i, k)
                    \/ /\ zset'[i] = zset[i]
                       /\ InRedis(i, k)' = InRedis(i, k)
                       /\ LeftOver(i, k)' = LeftOver(i, k) + (IF a <= k THEN 1 ELSE 0)
<1>1. /\ deque[w] \in Bags(0 .. Oldest) /\ Oldest \in Nat /\ k \in 0 .. Oldest
      /\ k \in 0 .. Oldest - 1 /\ Oldest - 1 \in Nat /\ DequeAges = 0 .. Oldest
      /\ k \in Int /\ k <= Oldest /\ Oldest \in Int /\ a \in 0 .. Oldest - 1
  BY BagTypes, ConstantTypes
<1>2. CASE Count(deque[w], DequeAges) > 0
  <2>1. /\ deque' = [deque EXCEPT ![w] = NewestRemoved(@)]
        /\ reserved' = [reserved EXCEPT ![w] = @ + 1]
        /\ zset' = zset /\ abandoned' = abandoned
    BY <1>2 DEF Refund
  <2>2. Young(NewestRemoved(deque[w]), k) = Less(Young(deque[w], k))
    BY <1>1, YoungOfRemoved DEF Less
  <2>3. InDeque(k)' = [InDeque(k) EXCEPT ![w] = Less(@)]
    BY <2>1, <2>2 DEF InDeque, TypeOK
  <2>4. QED  BY <1>2, <2>1, <2>3
<1>3. CASE ~(Count(deque[w], DequeAges) > 0)
  <2>1. Count(deque[w], DequeAges) = Young(deque[w], Oldest)  BY <1>1 DEF Count, Young
  <2>2. Young(deque[w], Oldest) \in Nat /\ Young(deque[w], k) \in Nat
        /\ Young(deque[w], k) <= Young(deque[w], Oldest)
    BY <1>1, YoungType, YoungMonotone
  <2>3. Count(deque[w], DequeAges) = 0 /\ Young(deque[w], k) = 0
    BY <1>3, <2>1, <2>2
  <2>4. deque' = deque /\ reserved' = reserved  BY <1>3 DEF Refund
  <2>5. PICK done \in Reached :
            /\ zset' = [i \in Windows |-> IF i \in done THEN NewestRemoved(zset[i])
                                                        ELSE zset[i]]
            /\ abandoned' = [i \in Windows |->
                                IF i \in done THEN abandoned[i]
                                ELSE [abandoned[i] EXCEPT ![a] = @ + 1]]
    BY <1>3 DEF Refund
  <2>6. ASSUME NEW i \in Windows, i \in done
        PROVE  /\ zset'[i] = NewestRemoved(zset[i])
               /\ InRedis(i, k)' = Less(InRedis(i, k))
               /\ LeftOver(i, k)' = LeftOver(i, k)
    <3>1. zset[i] \in Bags(0 .. Oldest - 1)  BY BagTypes
    <3>2. Young(NewestRemoved(zset[i]), k) = Less(Young(zset[i], k))
      BY <1>1, <3>1, YoungOfRemoved DEF Less
    <3>3. zset'[i] = NewestRemoved(zset[i]) /\ abandoned'[i] = abandoned[i]
      BY <2>5, <2>6
    <3>4. QED  BY <3>2, <3>3 DEF InRedis, LeftOver
  <2>7. ASSUME NEW i \in Windows, i \notin done
        PROVE  /\ zset'[i] = zset[i]
               /\ InRedis(i, k)' = InRedis(i, k)
               /\ LeftOver(i, k)' = LeftOver(i, k) + (IF a <= k THEN 1 ELSE 0)
    <3>1. abandoned[i] \in Bags(0 .. Oldest - 1)  BY BagTypes
    <3>2. Young([abandoned[i] EXCEPT ![a] = @ + 1], k)
              = Young(abandoned[i], k) + (IF a <= k THEN 1 ELSE 0)
      BY <1>1, <3>1, YoungOfMore
    <3>3. zset'[i] = zset[i] /\ abandoned'[i] = [abandoned[i] EXCEPT ![a] = @ + 1]
      BY <2>5, <2>7
    <3>4. QED  BY <3>2, <3>3 DEF InRedis, LeftOver
  <2>8. InDeque(k)' = InDeque(k) /\ InDeque(k)[w] = 0  BY <2>3, <2>4 DEF InDeque
  <2>9. QED  BY <2>3, <2>4, <2>6, <2>7, <2>8
<1>4. QED  BY <1>2, <1>3

\* The clock: what is of at most k ticks was of at most k - 1.
LEMMA TickCounts ==
    ASSUME TypeOK, TypeOK', Tick, NEW k \in Ages
    PROVE  /\ InDeque(k)' = InDeque(k - 1)
           /\ Given(k)' = Given(k - 1)
           /\ \A i \in Windows : /\ LeftOver(i, k)' = LeftOver(i, k - 1)
                                 /\ k < TTL[i] => InRedis(i, k)' = InRedis(i, k - 1)
<1>1. /\ Oldest \in Nat /\ Oldest - 1 \in Nat /\ k \in 0 .. Oldest /\ k \in 0 .. Oldest - 1
      /\ DequeAges = 0 .. Oldest /\ Ages = 0 .. Oldest - 1
  BY BagTypes, ConstantTypes
<1>1a. \A f, g \in Bags(0 .. Oldest - 1) :
          g[0] = 0 /\ (\A a \in 1 .. k : g[a] = f[a - 1]) => Young(g, k) = Young(f, k - 1)
  BY <1>1, YoungOfOlder
<1>2. ASSUME NEW w \in Workers  PROVE Young(deque'[w], k) = Young(deque[w], k - 1)
  <2>1. deque[w] \in Bags(0 .. Oldest) /\ deque'[w] \in Bags(0 .. Oldest)
    BY <1>1 DEF TypeOK
  <2>2. \A b \in 0 .. Oldest - 1 :
            deque'[w][b] = IF b = 0 THEN 0 ELSE deque[w][b - 1]
    BY <1>1 DEF Tick, Older
  <2>3. deque'[w][0] = 0 /\ \A b \in 1 .. k : deque'[w][b] = deque[w][b - 1]
    BY <1>1, <2>2
  <2>4. QED  BY <1>1, <2>1, <2>3, YoungOfOlder
<1>3. ASSUME NEW w \in Workers  PROVE Young(granted'[w], k) = Young(granted[w], k - 1)
  <2>1. granted[w] \in Bags(0 .. Oldest - 1) /\ granted'[w] \in Bags(0 .. Oldest - 1)
    BY <1>1 DEF TypeOK
  <2>2. \A b \in 0 .. Oldest - 1 :
            granted'[w][b] = IF b = 0 THEN 0 ELSE granted[w][b - 1]
    BY <1>1 DEF Tick, Older
  <2>3. granted'[w][0] = 0 /\ \A b \in 1 .. k : granted'[w][b] = granted[w][b - 1]
    BY <1>1, <2>2
  <2>4. QED  BY <1>1a, <2>1, <2>3
<1>4. ASSUME NEW i \in Windows, k < TTL[i]
      PROVE  Young(zset'[i], k) = Young(zset[i], k - 1)
  <2>1. zset[i] \in Bags(0 .. Oldest - 1) /\ zset'[i] \in Bags(0 .. Oldest - 1)
    BY <1>1 DEF TypeOK
  <2>2. TTL[i] \in Nat  BY ConstantTypes
  <2>3. \A b \in 0 .. Oldest - 1 :
            b < TTL[i] => zset'[i][b] = IF b > 0 THEN zset[i][b - 1] ELSE 0
    BY <1>1, <2>2 DEF Tick, Purged, WindowAges
  <2>4. zset'[i][0] = 0 /\ \A b \in 1 .. k : zset'[i][b] = zset[i][b - 1]
    BY <1>1, <1>4, <2>2, <2>3
  <2>5. QED  BY <1>1a, <2>1, <2>4
<1>5. ASSUME NEW i \in Windows  PROVE Young(abandoned'[i], k) = Young(abandoned[i], k - 1)
  <2>1. abandoned[i] \in Bags(0 .. Oldest - 1) /\ abandoned'[i] \in Bags(0 .. Oldest - 1)
    BY <1>1 DEF TypeOK
  <2>2. \A b \in 0 .. Oldest - 1 :
            abandoned'[i][b] = IF b = 0 THEN 0 ELSE abandoned[i][b - 1]
    BY <1>1 DEF Tick, Older
  <2>3. abandoned'[i][0] = 0 /\ \A b \in 1 .. k : abandoned'[i][b] = abandoned[i][b - 1]
    BY <1>1, <2>2
  <2>4. QED  BY <1>1a, <2>1, <2>3
<1>6. QED  BY <1>2, <1>3, <1>4, <1>5 DEF InDeque, Given, InRedis, LeftOver

-----------------------------------------------------------------------------
(* The inductive invariant *)

\* Workers whose deque holds a member of more than k ticks.
Behind(k) == {w \in Workers : \E a \in DequeAges : a > k /\ deque[w][a] > 0}

\* A worker remembers no more young requests than it was granted.
Dominance == \A w \in Workers, k \in Ages : InDeque(k)[w] <= Given(k)[w]

\* Without a lost answer, nothing is counted that was not granted, but for the refunds that
\* were given up.  A refund takes the newest member, younger than its own request's or older;
\* it is older when no young one is left, and then the account of the remaining workers has
\* to balance without this one.
Covered ==
    lost_answers = 0 =>
        \A i \in Windows : \A k \in WindowAges(i) : \A B \in SUBSET Behind(k) :
            InRedis(i, k) + Total(InDeque(k), Workers \ B)
                <= Total(Given(k), Workers \ B) + LeftOver(i, k)

\* No more refunds were given up than there were.
LeftOverInv == \A i \in Windows, k \in Ages : LeftOver(i, k) <= refunds

\* What was granted in the last ticks is counted in Redis or remembered by its worker,
\* but for the refunds that took a younger member than their request's.
NothingForgotten ==
    \A k \in WindowAges("5h") :
        Total(Given(k), Workers) <= InRedis("5h", k) + Total(InDeque(k), Workers) + refunds

\* What a worker has spent since its last flush and what it may spend come from one batch.
QuotaInv == \A w \in Workers : Young(deque[w], Oldest) + reserved[w] <= Batch

\* Spending all that is reserved would not exceed the limit by more.
OvershootInv ==
    Total(Given(TTL["5h"] - 1), Workers) + Total(reserved, Workers)
        <= Limit["5h"] + (Cardinality(Workers) - 1) * Batch + refunds

\* A fresh snapshot promises no less than Redis has left, but for the refunds that have
\* removed something there since.
SnapshotInv ==
    \A w \in Workers :
        fresh[w] => Limit["5h"] + LeftOver("5h", TTL["5h"] - 1)
                        <= rem5h[w] + InRedis("5h", TTL["5h"] - 1) + refunds

FallbackInv == \A w \in Workers : Young(fallback[w], TTL["5h"] - 1) <= FallbackLimit

Inv ==
    /\ TypeOK /\ PurgedInv /\ Dominance /\ Covered /\ LeftOverInv
    /\ NothingForgotten /\ QuotaInv /\ OvershootInv
    /\ SnapshotInv /\ FallbackInv

\* The steps that count nothing.
Quiet ==
    /\ UNCHANGED <<zset, deque, reserved, rem5h, fallback, historyVars, refunds, lost_answers>>
    /\ \A w \in Workers : fresh'[w] => fresh[w]

\* Every step counts nothing, or is one of these.
LEMMA StepKinds ==
    ASSUME TypeOK, [Next]_vars
    PROVE  \/ Quiet
           \/ Tick
           \/ \E w \in Workers :
                  \/ DenyLocal(w) \/ Consume(w) \/ PrefetchDenied(w) \/ PrefetchGranted(w)
                  \/ Degrade(w) \/ AnswerLost(w)
                  \/ \E a \in Ages : Refund(w, a)
<1>1. ASSUME NEW w \in Workers, SnapshotExpires(w)  PROVE Quiet
  BY <1>1 DEF SnapshotExpires, Quiet, boundVars, historyVars, TypeOK
<1>2. Outage => Quiet  BY DEF Outage, Quiet, stateVars
<1>3. Recovery => Quiet  BY DEF Recovery, Quiet, stateVars, boundVars
<1>4. UNCHANGED vars => Quiet  BY DEF vars, stateVars, boundVars, historyVars, Quiet
<1>5. QED  BY <1>1, <1>2, <1>3, <1>4 DEF Next, Check

LEMMA QuietPreserves ==
    ASSUME Inv, TypeOK', Quiet
    PROVE  Inv'
<1>1. /\ zset' = zset /\ deque' = deque /\ reserved' = reserved /\ rem5h' = rem5h
      /\ fallback' = fallback /\ granted' = granted /\ abandoned' = abandoned
      /\ refunds' = refunds /\ lost_answers' = lost_answers
      /\ \A w \in Workers : fresh'[w] => fresh[w]
  BY DEF Quiet, historyVars
<1>2. PurgedInv' /\ QuotaInv' /\ FallbackInv' /\ Dominance'
  BY <1>1 DEF Inv, PurgedInv, QuotaInv, FallbackInv, Dominance, InDeque, Given
<1>3. Covered' /\ LeftOverInv'
  BY <1>1 DEF Inv, Covered, LeftOverInv, InRedis, InDeque, Given, LeftOver, Behind
<1>4. NothingForgotten' /\ OvershootInv' /\ SnapshotInv'
  BY <1>1 DEF Inv, NothingForgotten, OvershootInv, SnapshotInv, InRedis, InDeque, Given, LeftOver
<1>5. QED  BY <1>2, <1>3, <1>4 DEF Inv

\* Redis drops what has left its window.
LEMMA PurgedStep == ASSUME Inv, [Next]_vars  PROVE PurgedInv'
<1>1. TypeOK /\ PurgedInv  BY DEF Inv
<1>2. ASSUME NEW w \in Workers, zset' = Flushed(w)  PROVE PurgedInv'
  BY <1>1, <1>2, FlushedFacts DEF PurgedInv
<1>3. ASSUME NEW w \in Workers, NEW a \in Ages, Refund(w, a)  PROVE PurgedInv'
  <2>1. SUFFICES ASSUME NEW i \in Windows, NEW b \in Ages, b >= TTL[i]
                 PROVE  zset'[i][b] = 0
    BY DEF PurgedInv
  <2>2. zset[i][b] = 0  BY <1>1, <2>1 DEF PurgedInv
  <2>3. /\ zset[i] \in Bags(0 .. Oldest - 1) /\ b \in 0 .. Oldest - 1
        /\ Oldest - 1 \in Nat
    BY <1>1, BagTypes
  <2>4. NewestRemoved(zset[i])[b] <= zset[i][b] /\ NewestRemoved(zset[i])[b] \in Nat
    BY <2>3, YoungOfRemoved DEF Bags
  <2>5. zset'[i] = zset[i] \/ zset'[i] = NewestRemoved(zset[i])
    BY <1>1, <1>3, <2>1, RefundedCounts
  <2>6. QED  BY <2>2, <2>4, <2>5
<1>4. ASSUME Tick  PROVE PurgedInv'
  <2>1. \A i \in Windows, b \in Ages : b >= TTL[i] => b \notin WindowAges(i)
    BY ConstantTypes DEF WindowAges, Ages
  <2>2. QED  BY <1>4, <2>1 DEF Tick, Purged, PurgedInv
<1>5. zset' = zset => PurgedInv'  BY <1>1 DEF PurgedInv
<1>6. QED
  BY <1>1, <1>2, <1>3, <1>4, <1>5, StepKinds
     DEF Quiet, DenyLocal, Consume, PrefetchDenied, PrefetchGranted, Degrade, AnswerLost

\* _local_window_allow() lets no more through than its limit in 5 hours.
LEMMA FallbackStep == ASSUME Inv, [Next]_vars  PROVE FallbackInv'
<1>1. TypeOK /\ FallbackInv /\ TypeOK'  BY NextTypes DEF Inv
<1>2. /\ TTL["5h"] - 1 \in Nat /\ FallbackLimit \in Nat \ {0}
      /\ WindowAges("5h") = 0 .. TTL["5h"] - 1
      /\ \A w \in Workers : fallback[w] \in Bags(0 .. TTL["5h"] - 1)
  BY <1>1, ConstantTypes, FallbackLimitType, BagTypes DEF WindowAges
<1>3. FallbackLimit' = FallbackLimit  BY DEF FallbackLimit
<1>4. ASSUME NEW w \in Workers, FallbackDecides(w)  PROVE FallbackInv'
  <2>1. ASSUME Count(fallback[w], WindowAges("5h")) < FallbackLimit,
               fallback' = [fallback EXCEPT ![w] = OneNew(@)]
        PROVE  FallbackInv'
    <3>1. TTL["5h"] - 1 \in 0 .. TTL["5h"] - 1  BY <1>2
    <3>2. Young(OneNew(fallback[w]), TTL["5h"] - 1) = Young(fallback[w], TTL["5h"] - 1) + 1
      BY <1>2, <3>1, YoungOfNew
    <3>3. Young(fallback[w], TTL["5h"] - 1) < FallbackLimit
      BY <1>2, <2>1 DEF Count, Young
    <3>4. Young(fallback[w], TTL["5h"] - 1) \in Nat  BY <1>2, YoungType
    <3>5. Young(fallback'[w], TTL["5h"] - 1) <= FallbackLimit
      BY <1>1, <1>2, <2>1, <3>2, <3>3, <3>4 DEF TypeOK
    <3>6. \A v \in Workers \ {w} : fallback'[v] = fallback[v]  BY <1>1, <2>1 DEF TypeOK
    <3>7. QED  BY <1>1, <1>3, <3>5, <3>6 DEF FallbackInv
  <2>2. QED  BY <1>1, <1>3, <1>4, <2>1 DEF FallbackDecides, FallbackInv
<1>5. ASSUME Tick  PROVE FallbackInv'
  <2>1. SUFFICES ASSUME NEW w \in Workers
                 PROVE  Young(fallback'[w], TTL["5h"] - 1) <= FallbackLimit
    BY <1>3 DEF FallbackInv
  <2>2. /\ fallback[w] \in Bags(0 .. TTL["5h"] - 1) /\ fallback'[w] \in Bags(0 .. TTL["5h"] - 1)
        /\ TTL["5h"] - 1 \in 0 .. TTL["5h"] - 1
        /\ (TTL["5h"] - 1) - 1 \in Int /\ TTL["5h"] - 1 \in Int
        /\ (TTL["5h"] - 1) - 1 <= TTL["5h"] - 1
    BY <1>1, <1>2 DEF TypeOK
  <2>3. \A b \in 0 .. TTL["5h"] - 1 :
            fallback'[w][b] = IF b = 0 THEN 0 ELSE fallback[w][b - 1]
    BY <1>2, <1>5 DEF Tick, Older
  <2>4. fallback'[w][0] = 0
        /\ \A b \in 1 .. TTL["5h"] - 1 : fallback'[w][b] = fallback[w][b - 1]
    BY <1>2, <2>3
  <2>5. Young(fallback'[w], TTL["5h"] - 1) = Young(fallback[w], (TTL["5h"] - 1) - 1)
    BY <1>2, <2>2, <2>4, YoungOfOlder
  <2>6. Young(fallback[w], (TTL["5h"] - 1) - 1) <= Young(fallback[w], TTL["5h"] - 1)
    BY <1>2, <2>2, YoungMonotone
  <2>7. /\ Young(fallback[w], (TTL["5h"] - 1) - 1) \in Nat
        /\ Young(fallback[w], TTL["5h"] - 1) \in Nat
    BY <1>2, <2>2, YoungType
  <2>8. Young(fallback[w], TTL["5h"] - 1) <= FallbackLimit  BY <1>1 DEF FallbackInv
  <2>9. QED  BY <1>2, <2>5, <2>6, <2>7, <2>8
<1>6. fallback' = fallback => FallbackInv'  BY <1>1, <1>3 DEF FallbackInv
<1>7. QED
  BY <1>1, <1>4, <1>5, <1>6, StepKinds
     DEF Quiet, DenyLocal, Consume, PrefetchDenied, PrefetchGranted, Degrade, AnswerLost, Refund

\* A batch is spent before the next one is fetched, and a refund returns what was spent.
LEMMA QuotaStep == ASSUME Inv, [Next]_vars  PROVE QuotaInv'
<1>1. TypeOK /\ QuotaInv /\ TypeOK'  BY NextTypes DEF Inv
<1>2. /\ Oldest \in Nat /\ Oldest \in 0 .. Oldest /\ DequeAges = 0 .. Oldest
      /\ Batch \in Nat \ {0} /\ Oldest \in Int /\ TTL["5h"] - 1 \in Int
      /\ TTL["5h"] - 1 <= Oldest
  BY <1>1, BagTypes, BatchType, ConstantTypes
<1>3. Batch' = Batch  BY DEF Batch
<1>4. \A w \in Workers : /\ Young(deque[w], Oldest) \in Nat /\ reserved[w] \in Nat
                         /\ deque[w] \in Bags(0 .. Oldest)
  BY <1>1, <1>2, BagTypes, YoungType
<1>5. \A w \in Workers : /\ Young(Trimmed(w), Oldest) \in Nat
                         /\ Young(Trimmed(w), Oldest) <= Young(deque[w], Oldest)
  BY <1>1, <1>2, TrimmedFacts, YoungType
<1>6. ASSUME NEW w \in Workers,
             \A v \in Workers \ {w} : deque'[v] = deque[v] /\ reserved'[v] = reserved[v],
             Young(deque'[w], Oldest) + reserved'[w] <= Batch
      PROVE  QuotaInv'
  BY <1>1, <1>3, <1>6 DEF QuotaInv
<1>7. ASSUME NEW w \in Workers, deque' = [deque EXCEPT ![w] = Trimmed(w)], reserved' = reserved
      PROVE  QuotaInv'
  <2>1. Young(deque'[w], Oldest) + reserved'[w] <= Batch
    BY <1>1, <1>2, <1>4, <1>5, <1>7 DEF QuotaInv, TypeOK
  <2>2. QED  BY <1>1, <1>6, <1>7, <2>1 DEF TypeOK
<1>8. ASSUME NEW w \in Workers, Consume(w)  PROVE QuotaInv'
  <2>1. Young(OneNew(Trimmed(w)), Oldest) = Young(Trimmed(w), Oldest) + 1
    BY <1>1, <1>2, TrimmedFacts, YoungOfNew
  <2>2. reserved'[w] = reserved[w] - 1 /\ deque'[w] = OneNew(Trimmed(w))
    BY <1>1, <1>8 DEF Consume, TypeOK
  <2>3. Young(deque'[w], Oldest) + reserved'[w] <= Batch
    BY <1>1, <1>2, <1>4, <1>5, <2>1, <2>2 DEF QuotaInv
  <2>4. QED  BY <1>1, <1>6, <1>8, <2>3 DEF Consume, TypeOK
<1>9. Empty(DequeAges) \in Bags(0 .. Oldest) /\ Young(Empty(DequeAges), Oldest) = 0
  BY <1>2, YoungOfEmpty
<1>10. ASSUME NEW w \in Workers, PrefetchDenied(w)  PROVE QuotaInv'
  <2>1. reserved'[w] = reserved[w] /\ deque'[w] = Empty(DequeAges)
    BY <1>1, <1>10 DEF PrefetchDenied, TypeOK
  <2>2. Young(deque'[w], Oldest) + reserved'[w] <= Batch
    BY <1>1, <1>2, <1>4, <1>9, <2>1 DEF QuotaInv
  <2>3. QED  BY <1>1, <1>6, <1>10, <2>2 DEF PrefetchDenied, TypeOK
<1>11. ASSUME NEW w \in Workers, PrefetchGranted(w)  PROVE QuotaInv'
  <2>1. Young(OneNew(Empty(DequeAges)), Oldest) = 1
    BY <1>2, <1>9, YoungOfNew
  <2>2. reserved'[w] = Quota(w) - 1 /\ deque'[w] = OneNew(Empty(DequeAges))
    BY <1>1, <1>11 DEF PrefetchGranted, Quota, TypeOK
  <2>3. Quota(w) \in Nat /\ Quota(w) <= Batch
    BY <1>1, <1>11, QuotaFacts DEF PrefetchGranted
  <2>4. Young(deque'[w], Oldest) + reserved'[w] <= Batch
    BY <1>2, <2>1, <2>2, <2>3
  <2>5. QED  BY <1>1, <1>6, <1>11, <2>4 DEF PrefetchGranted, TypeOK
<1>12. ASSUME NEW w \in Workers, NEW a \in Ages, Refund(w, a)  PROVE QuotaInv'
  <2>1. CASE Count(deque[w], DequeAges) > 0
    <3>1. /\ deque' = [deque EXCEPT ![w] = NewestRemoved(@)]
          /\ reserved' = [reserved EXCEPT ![w] = @ + 1]
      BY <1>12, <2>1 DEF Refund
    <3>2. Young(deque[w], Oldest) > 0  BY <1>2, <2>1 DEF Count, Young
    <3>3. Young(NewestRemoved(deque[w]), Oldest) = Young(deque[w], Oldest) - 1
      BY <1>2, <1>4, <3>2, YoungOfRemoved
    <3>4. reserved'[w] = reserved[w] + 1 /\ deque'[w] = NewestRemoved(deque[w])
      BY <1>1, <3>1 DEF TypeOK
    <3>5. Young(deque'[w], Oldest) + reserved'[w] <= Batch
      BY <1>1, <1>2, <1>4, <3>3, <3>4 DEF QuotaInv
    <3>6. QED  BY <1>1, <1>6, <3>1, <3>5 DEF TypeOK
  <2>2. CASE ~(Count(deque[w], DequeAges) > 0)
    BY <1>1, <1>3, <1>12, <2>2 DEF Refund, QuotaInv
  <2>3. QED  BY <2>1, <2>2
<1>13. ASSUME Tick  PROVE QuotaInv'
  <2>1. SUFFICES ASSUME NEW w \in Workers
                 PROVE  Young(deque'[w], Oldest) + reserved'[w] <= Batch
    BY <1>3 DEF QuotaInv
  <2> DEFINE older == Older(deque[w], 0 .. Oldest)
  <2>2. deque'[w] = [older EXCEPT ![Oldest] = @ + deque[w][Oldest]]
    BY <1>2, <1>13 DEF Tick
  <2>3. older \in Bags(0 .. Oldest)  BY <1>2, <1>4, BagOperations
  <2>4. older[0] = 0 /\ \A b \in 1 .. Oldest : older[b] = deque[w][b - 1]
    BY <1>2 DEF Older
  <2> HIDE DEF older
  <2>5. Young(older, Oldest) = Young(deque[w], Oldest - 1)
    BY <1>2, <1>4, <2>3, <2>4, YoungOfOlder
  <2>6. deque'[w] \in Bags(0 .. Oldest)  BY <1>1, <1>2 DEF TypeOK
  <2>7. deque'[w][Oldest] = older[Oldest] + deque[w][Oldest]
        /\ \A b \in 0 .. Oldest : b # Oldest => deque'[w][b] = older[b]
    BY <1>2, <2>2, <2>3 DEF Bags
  <2>8. Young(deque'[w], Oldest) = Young(older, Oldest) - older[Oldest] + deque'[w][Oldest]
    <3>1. Oldest \in Oldest .. Oldest  BY <1>2
    <3>2. QED  BY <1>2, <2>3, <2>6, <2>7, <3>1, YoungOfChange
  <2>9. Young(deque[w], Oldest) = Young(deque[w], Oldest - 1) + deque[w][Oldest]
    <3> DEFINE without == [deque[w] EXCEPT ![Oldest] = 0]
    <3>1. /\ without \in Bags(0 .. Oldest) /\ without[Oldest] = 0
          /\ \A b \in 0 .. Oldest : b # Oldest => without[b] = deque[w][b]
      BY <1>2, <1>4 DEF Bags
    <3> HIDE DEF without
    <3>2. Oldest \in Oldest .. Oldest  BY <1>2
    <3>3. Young(without, Oldest) = Young(deque[w], Oldest) - deque[w][Oldest] + without[Oldest]
      BY <1>2, <1>4, <3>1, <3>2, YoungOfChange
    <3>4. \A b \in (Oldest - 1) + 1 .. Oldest : without[b] = 0  BY <1>2, <3>1
    <3>5. Young(without, Oldest) = Young(without, Oldest - 1)
      BY <1>2, <3>4, YoungOfAll
    <3>6. \A b \in 0 .. Oldest - 1 : without[b] = deque[w][b]  BY <1>2, <3>1
    <3>7. Young(without, Oldest - 1) = Young(deque[w], Oldest - 1)
      BY <3>6, YoungOfSame
    <3>8. deque[w][Oldest] \in Nat  BY <1>2, <1>4 DEF Bags
    <3>9. QED  BY <1>4, <3>1, <3>3, <3>5, <3>7, <3>8
  <2>10. older[Oldest] \in Nat /\ deque[w][Oldest] \in Nat
    BY <1>2, <1>4, <2>3 DEF Bags
  <2>11. Young(deque[w], Oldest - 1) \in Nat  BY <1>1, <1>2, CountTypes, YoungType, <1>4
  <2>12. Young(deque'[w], Oldest) = Young(deque[w], Oldest)
    BY <2>5, <2>7, <2>8, <2>9, <2>10, <2>11
  <2>13. QED  BY <1>1, <1>13, <2>12 DEF Tick, QuotaInv
<1>14. QED
  BY <1>1, <1>7, <1>8, <1>10, <1>11, <1>12, <1>13, <1>3, StepKinds
     DEF Quiet, DenyLocal, Degrade, AnswerLost, QuotaInv

\* A step that changes the deque and the grants of one worker only.
LEMMA DominanceOfOne ==
    ASSUME Inv, NEW w \in Workers,
           \A v \in Workers \ {w} : deque'[v] = deque[v] /\ granted'[v] = granted[v],
           \A k \in Ages : InDeque(k)'[w] <= Given(k)'[w]
    PROVE  Dominance'
<1>1. ASSUME NEW v \in Workers \ {w}, NEW k \in Ages
      PROVE  InDeque(k)'[v] <= Given(k)'[v]
  <2>1. InDeque(k)'[v] = InDeque(k)[v] /\ Given(k)'[v] = Given(k)[v]
    BY DEF InDeque, Given
  <2>2. QED  BY <2>1 DEF Inv, Dominance
<1>2. QED  BY <1>1 DEF Dominance

LEMMA DominanceStep == ASSUME Inv, [Next]_vars  PROVE Dominance'
<1>1. TypeOK /\ Dominance /\ TypeOK'  BY NextTypes DEF Inv
<1>2. \A k \in Ages : /\ k \in Int /\ k < Oldest /\ k - 1 \in Int /\ k - 1 < Oldest
                      /\ k - 1 \in Ages \/ k - 1 < 0
  BY <1>1, BagTypes, ConstantTypes
<1>3. ASSUME NEW k \in Ages
      PROVE  /\ InDeque(k) \in [Workers -> Nat] /\ Given(k) \in [Workers -> Nat]
             /\ InDeque(k)' \in [Workers -> Nat] /\ Given(k)' \in [Workers -> Nat]
             /\ \A w \in Workers : InDeque(k)[w] <= Given(k)[w]
  <2>1. k \in Int /\ k < Oldest  BY <1>2
  <2>2. /\ \A w \in Workers : Young(deque'[w], k) \in Nat /\ Young(granted'[w], k) \in Nat
    <3>1. \A w \in Workers : deque'[w] \in Bags(0 .. Oldest) /\ granted'[w] \in Bags(0 .. Oldest - 1)
      BY <1>1, BagTypes DEF TypeOK
    <3>2. k <= Oldest /\ k <= Oldest - 1 /\ Oldest \in Nat /\ Oldest - 1 \in Nat
      BY <1>1, <2>1, BagTypes, ConstantTypes
    <3>3. QED  BY <2>1, <3>1, <3>2, YoungType
  <2>3. QED  BY <1>1, <2>1, <2>2, CountTypes DEF Dominance, InDeque, Given
<1>4. ASSUME NEW w \in Workers, deque' = [deque EXCEPT ![w] = Trimmed(w)], granted' = granted
      PROVE  Dominance'
  <2>1. ASSUME NEW k \in Ages  PROVE InDeque(k)'[w] <= Given(k)'[w]
    <3>1. /\ InDeque(k)' = [InDeque(k) EXCEPT ![w] = Young(Trimmed(w), k)]
          /\ Young(Trimmed(w), k) <= InDeque(k)[w] /\ Young(Trimmed(w), k) \in Nat
      BY <1>1, <1>4, TrimCounts
    <3>2. InDeque(k)'[w] = Young(Trimmed(w), k)  BY <1>3, <3>1
    <3>3. Given(k)'[w] = Given(k)[w]  BY <1>4 DEF Given
    <3>4. InDeque(k)[w] \in Nat /\ Given(k)[w] \in Nat /\ InDeque(k)[w] <= Given(k)[w]
      BY <1>3
    <3>5. QED  BY <3>1, <3>2, <3>3, <3>4
  <2>2. QED  BY <1>1, <1>4, <2>1, DominanceOfOne DEF TypeOK
<1>5. ASSUME NEW w \in Workers, Consume(w)  PROVE Dominance'
  <2>1. ASSUME NEW k \in Ages  PROVE InDeque(k)'[w] <= Given(k)'[w]
    <3>1. /\ InDeque(k)'[w] = Young(Trimmed(w), k) + 1
          /\ Young(Trimmed(w), k) <= InDeque(k)[w] /\ Young(Trimmed(w), k) \in Nat
          /\ Given(k)'[w] = Given(k)[w] + 1
      BY <1>1, <1>3, <1>5, ConsumeCounts
    <3>2. QED  BY <1>3, <3>1
  <2>2. QED  BY <1>1, <1>5, <2>1, DominanceOfOne DEF TypeOK, Consume
<1>6. ASSUME NEW w \in Workers, PrefetchDenied(w)  PROVE Dominance'
  <2>1. ASSUME NEW k \in Ages  PROVE InDeque(k)'[w] <= Given(k)'[w]
    <3>1. deque' = [deque EXCEPT ![w] = Empty(DequeAges)]  BY <1>6 DEF PrefetchDenied
    <3>2. InDeque(k)' = [InDeque(k) EXCEPT ![w] = 0]  BY <1>1, <3>1, EmptiedCounts
    <3>3. InDeque(k)'[w] = 0  BY <1>3, <3>2
    <3>4. Given(k)'[w] \in Nat  BY <1>3
    <3>5. QED  BY <3>3, <3>4
  <2>2. QED  BY <1>1, <1>6, <2>1, DominanceOfOne DEF TypeOK, PrefetchDenied, historyVars
<1>7. ASSUME NEW w \in Workers, PrefetchGranted(w)  PROVE Dominance'
  <2>1. ASSUME NEW k \in Ages  PROVE InDeque(k)'[w] <= Given(k)'[w]
    <3>1. deque' = [deque EXCEPT ![w] = OneNew(Empty(DequeAges))]
      BY <1>7 DEF PrefetchGranted
    <3>2. InDeque(k)' = [InDeque(k) EXCEPT ![w] = 1]  BY <1>1, <3>1, EmptiedCounts
    <3>3. InDeque(k)'[w] = 1  BY <1>3, <3>2
    <3>4. granted' = [granted EXCEPT ![w] = OneNew(@)]  BY <1>7 DEF PrefetchGranted
    <3>5. Given(k)' = [Given(k) EXCEPT ![w] = @ + 1]  BY <1>1, <3>4, GrantCounts
    <3>6. Given(k)[w] \in Nat /\ Given(k)'[w] = Given(k)[w] + 1  BY <1>3, <3>5
    <3>7. QED  BY <3>3, <3>6
  <2>2. QED  BY <1>1, <1>7, <2>1, DominanceOfOne DEF TypeOK, PrefetchGranted
<1>8. ASSUME NEW w \in Workers, NEW a \in Ages, Refund(w, a)  PROVE Dominance'
  <2>1. ASSUME NEW k \in Ages  PROVE InDeque(k)'[w] <= Given(k)'[w]
    <3>1. /\ Given(k)'[w] = Given(k)[w] - (IF a <= k THEN 1 ELSE 0)
          /\ a <= k => Given(k)[w] > 0
      BY <1>1, <1>3, <1>8, RefundCounts
    <3>2. InDeque(k)'[w] = Less(InDeque(k)[w])
      BY <1>1, <1>3, <1>8, RefundedCounts DEF Less
    <3>3. InDeque(k)[w] \in Nat /\ Given(k)[w] \in Nat /\ InDeque(k)[w] <= Given(k)[w]
      BY <1>3
    <3>4. Given(k)'[w] \in Nat  BY <1>3
    <3>5. QED  BY <3>1, <3>2, <3>3, <3>4 DEF Less
  <2>2. \A v \in Workers \ {w} : deque'[v] = deque[v] /\ granted'[v] = granted[v]
    BY <1>1, <1>8 DEF Refund, TypeOK
  <2>3. QED  BY <2>1, <2>2, DominanceOfOne
<1>9. ASSUME Tick  PROVE Dominance'
  <2>1. ASSUME NEW w \in Workers, NEW k \in Ages  PROVE InDeque(k)'[w] <= Given(k)'[w]
    <3>1. InDeque(k)'[w] = InDeque(k - 1)[w] /\ Given(k)'[w] = Given(k - 1)[w]
      BY <1>1, <1>9, TickCounts
    <3>2. CASE k - 1 \in Ages  BY <1>1, <3>1, <3>2 DEF Dominance
    <3>3. CASE k - 1 < 0
      <4>1. InDeque(k - 1)[w] = 0 /\ Given(k - 1)[w] = 0
        BY <1>1, <1>2, <3>3, CountTypes
      <4>2. QED  BY <3>1, <4>1
    <3>4. QED  BY <1>2, <3>2, <3>3
  <2>2. QED  BY <2>1 DEF Dominance
<1>10. QED
  BY <1>1, <1>4, <1>5, <1>6, <1>7, <1>8, <1>9, StepKinds, QuietPreserves
     DEF Inv, DenyLocal, Degrade, AnswerLost, historyVars

\* No more refunds were given up than there were.
LEMMA LeftOverStep == ASSUME Inv, [Next]_vars  PROVE LeftOverInv'
<1>1. TypeOK /\ LeftOverInv /\ TypeOK' /\ refunds \in Nat  BY NextTypes DEF Inv, TypeOK
<1>2. ASSUME abandoned' = abandoned, refunds' = refunds  PROVE LeftOverInv'
  BY <1>1, <1>2 DEF LeftOverInv, LeftOver
<1>3. ASSUME NEW w \in Workers, NEW a \in Ages, Refund(w, a)  PROVE LeftOverInv'
  <2>1. SUFFICES ASSUME NEW i \in Windows, NEW k \in Ages
                 PROVE  LeftOver(i, k)' <= refunds'
    BY DEF LeftOverInv
  <2>2. k \in Int /\ k < Oldest  BY <1>1, BagTypes, ConstantTypes
  <2>3. LeftOver(i, k) \in Nat /\ LeftOver(i, k) <= refunds
    BY <1>1, <2>2, CountTypes DEF LeftOverInv
  <2>4. refunds' = refunds + 1  BY <1>3 DEF Refund
  <2>5. LeftOver(i, k)' \in {LeftOver(i, k), LeftOver(i, k) + 1}
    <3>1. abandoned' = abandoned => LeftOver(i, k)' = LeftOver(i, k)  BY DEF LeftOver
    <3>2. LeftOver(i, k) + 0 = LeftOver(i, k)  BY <2>3
    <3>3. QED  BY <1>1, <1>3, <3>1, <3>2, RefundedCounts
  <2>6. QED  BY <1>1, <2>3, <2>4, <2>5
<1>4. ASSUME Tick  PROVE LeftOverInv'
  <2>1. SUFFICES ASSUME NEW i \in Windows, NEW k \in Ages
                 PROVE  LeftOver(i, k)' <= refunds'
    BY DEF LeftOverInv
  <2>2. LeftOver(i, k)' = LeftOver(i, k - 1) /\ refunds' = refunds
    BY <1>1, <1>4, TickCounts DEF Tick, boundVars
  <2>3. k - 1 \in Int /\ k - 1 < Oldest /\ (k - 1 \in Ages \/ k - 1 < 0)
    BY <1>1, BagTypes, ConstantTypes
  <2>4. k - 1 < 0 => LeftOver(i, k - 1) = 0  BY <1>1, <2>3, CountTypes
  <2>5. QED  BY <1>1, <2>2, <2>3, <2>4 DEF LeftOverInv
<1>5. QED
  BY <1>1, <1>2, <1>3, <1>4, StepKinds
     DEF Quiet, DenyLocal, Consume, PrefetchDenied, PrefetchGranted, Degrade, AnswerLost,
         boundVars, historyVars

\* What a snapshot says is left was left in Redis when it was taken, and only a refund
\* or the clock takes anything out of Redis.
LEMMA SnapshotStep == ASSUME Inv, [Next]_vars  PROVE SnapshotInv'
<1> DEFINE last == TTL["5h"] - 1
<1>1. TypeOK /\ SnapshotInv /\ PurgedInv /\ LeftOverInv /\ TypeOK'  BY NextTypes DEF Inv
<1>2. /\ last \in Ages /\ last \in Int /\ last < Oldest /\ "5h" \in Windows
      /\ Limit["5h"] \in Nat
  BY ConstantTypes DEF Ages, Oldest
<1>3. \A w \in Workers : rem5h[w] \in Nat /\ rem5h[w] <= Limit["5h"]
  BY <1>1, <1>2 DEF TypeOK
<1>4. /\ InRedis("5h", last) \in Nat /\ refunds \in Nat /\ LeftOver("5h", last) \in Nat
      /\ LeftOver("5h", last) <= refunds
      /\ SnapshotInv <=> \A w \in Workers :
             fresh[w] => Limit["5h"] + LeftOver("5h", last)
                             <= rem5h[w] + InRedis("5h", last) + refunds
      /\ SnapshotInv' <=> \A w \in Workers :
             fresh'[w] => Limit["5h"] + LeftOver("5h", last)'
                              <= rem5h'[w] + InRedis("5h", last)' + refunds'
  BY <1>1, <1>2, CountTypes DEF SnapshotInv, LeftOverInv, TypeOK
<1> HIDE DEF last
<1>5. ASSUME InRedis("5h", last)' >= InRedis("5h", last), rem5h' = rem5h, fresh' = fresh,
             refunds' = refunds, abandoned' = abandoned, InRedis("5h", last)' \in Nat
      PROVE  SnapshotInv'
  <2>1. LeftOver("5h", last)' = LeftOver("5h", last)  BY <1>5 DEF LeftOver
  <2>2. QED  BY <1>1, <1>2, <1>3, <1>4, <1>5, <2>1
<1>6. ASSUME zset' = zset  PROVE InRedis("5h", last)' = InRedis("5h", last)
  BY <1>6 DEF InRedis
<1>7. ASSUME NEW w \in Workers, DenyLocal(w) \/ Consume(w) \/ Degrade(w)
      PROVE  SnapshotInv'
  <2>1. /\ zset' = zset /\ rem5h' = rem5h /\ fresh' = fresh /\ refunds' = refunds
        /\ abandoned' = abandoned
    BY <1>7 DEF DenyLocal, Consume, Degrade, boundVars, historyVars
  <2>2. QED  BY <1>4, <1>5, <1>6, <2>1
<1>8. ASSUME NEW w \in Workers, zset' = Flushed(w)
      PROVE  /\ InRedis("5h", last)' = Counts(w)["5h"]
             /\ InRedis("5h", last)' >= InRedis("5h", last) /\ InRedis("5h", last)' \in Nat
  <2>1. /\ InRedis("5h", last)' = InRedis("5h", last) + Young(Trimmed(w), last)
        /\ Young(Trimmed(w), last) \in Nat
        /\ last < TTL["5h"] => Young(Trimmed(w), last) = InDeque(last)[w]
    BY <1>1, <1>2, <1>8, FlushCounts
  <2>2. last < TTL["5h"]  BY ConstantTypes DEF last
  <2>3. Counts(w)["5h"] = InRedis("5h", last) + InDeque(last)[w]
    BY <1>1, <1>2, CountsFacts DEF last
  <2>4. QED  BY <1>4, <2>1, <2>2, <2>3
<1>9. ASSUME NEW w \in Workers, PrefetchDenied(w)  PROVE SnapshotInv'
  <2>1. /\ InRedis("5h", last)' = Counts(w)["5h"] /\ InRedis("5h", last)' \in Nat
        /\ InRedis("5h", last)' >= InRedis("5h", last)
    BY <1>8, <1>9 DEF PrefetchDenied
  <2>2. /\ rem5h' = [rem5h EXCEPT ![w] = IF "5h" \in Exceeded(w) THEN 0 ELSE Limit["5h"]]
        /\ fresh' = [fresh EXCEPT ![w] = TRUE] /\ refunds' = refunds
        /\ LeftOver("5h", last)' = LeftOver("5h", last)
    BY <1>9 DEF PrefetchDenied, boundVars, historyVars, LeftOver
  <2>3. Limit["5h"] + LeftOver("5h", last)' <= rem5h'[w] + InRedis("5h", last)' + refunds'
    <3>1. CASE "5h" \in Exceeded(w)
      <4>1. rem5h'[w] = 0 /\ Counts(w)["5h"] >= Limit["5h"]
        BY <1>1, <2>2, <3>1 DEF TypeOK, Exceeded
      <4>2. QED  BY <1>2, <1>4, <2>1, <2>2, <4>1
    <3>2. CASE "5h" \notin Exceeded(w)
      <4>1. rem5h'[w] = Limit["5h"]  BY <1>1, <2>2, <3>2 DEF TypeOK
      <4>2. QED  BY <1>2, <1>4, <2>1, <2>2, <4>1
    <3>3. QED  BY <3>1, <3>2
  <2>4. ASSUME NEW v \in Workers \ {w}, fresh'[v]
        PROVE  Limit["5h"] + LeftOver("5h", last)'
                   <= rem5h'[v] + InRedis("5h", last)' + refunds'
    <3>1. fresh[v] /\ rem5h'[v] = rem5h[v]  BY <1>1, <2>2, <2>4 DEF TypeOK
    <3>2. QED  BY <1>1, <1>2, <1>3, <1>4, <2>1, <2>2, <3>1
  <2>5. QED  BY <1>4, <2>3, <2>4
<1>10. ASSUME NEW w \in Workers, PrefetchGranted(w)  PROVE SnapshotInv'
  <2>1. /\ InRedis("5h", last)' = Counts(w)["5h"] /\ InRedis("5h", last)' \in Nat
        /\ InRedis("5h", last)' >= InRedis("5h", last)
    BY <1>8, <1>10 DEF PrefetchGranted
  <2>2. /\ rem5h' = [rem5h EXCEPT ![w] = Limit["5h"] - Counts(w)["5h"]]
        /\ fresh' = [fresh EXCEPT ![w] = TRUE] /\ refunds' = refunds
        /\ LeftOver("5h", last)' = LeftOver("5h", last)
    BY <1>10 DEF PrefetchGranted, boundVars, historyVars, LeftOver
  <2>3. Limit["5h"] + LeftOver("5h", last)' <= rem5h'[w] + InRedis("5h", last)' + refunds'
    <3>1. rem5h'[w] = Limit["5h"] - Counts(w)["5h"]  BY <1>1, <2>2 DEF TypeOK
    <3>2. QED  BY <1>2, <1>4, <2>1, <2>2, <3>1
  <2>4. ASSUME NEW v \in Workers \ {w}, fresh'[v]
        PROVE  Limit["5h"] + LeftOver("5h", last)'
                   <= rem5h'[v] + InRedis("5h", last)' + refunds'
    <3>1. fresh[v] /\ rem5h'[v] = rem5h[v]  BY <1>1, <2>2, <2>4 DEF TypeOK
    <3>2. QED  BY <1>1, <1>2, <1>3, <1>4, <2>1, <2>2, <3>1
  <2>5. QED  BY <1>4, <2>3, <2>4
<1>11. ASSUME NEW w \in Workers, AnswerLost(w)  PROVE SnapshotInv'
  BY <1>5, <1>8, <1>11 DEF AnswerLost, historyVars
<1>12. ASSUME NEW w \in Workers, NEW a \in Ages, Refund(w, a)  PROVE SnapshotInv'
  <2>1. rem5h' = rem5h /\ fresh' = fresh /\ refunds' = refunds + 1  BY <1>12 DEF Refund
  <2>2. \/ /\ InRedis("5h", last)' \in {InRedis("5h", last), Less(InRedis("5h", last))}
           /\ LeftOver("5h", last)' = LeftOver("5h", last)
        \/ /\ InRedis("5h", last)' = InRedis("5h", last)
           /\ LeftOver("5h", last)' \in {LeftOver("5h", last), LeftOver("5h", last) + 1}
    <3>1. abandoned' = abandoned => LeftOver("5h", last)' = LeftOver("5h", last)
      BY DEF LeftOver
    <3>2. LeftOver("5h", last) + 0 = LeftOver("5h", last)  BY <1>4
    <3>3. QED  BY <1>1, <1>2, <1>6, <1>12, <3>1, <3>2, RefundedCounts
  <2>3. LeftOver("5h", last)' - InRedis("5h", last)' <= LeftOver("5h", last) - InRedis("5h", last) + 1
        /\ LeftOver("5h", last)' \in Nat /\ InRedis("5h", last)' \in Nat
    BY <1>4, <2>2 DEF Less
  <2>4. QED  BY <1>1, <1>2, <1>3, <1>4, <2>1, <2>3
<1>13. ASSUME Tick  PROVE SnapshotInv'
  BY <1>1, <1>13 DEF Tick, SnapshotInv
<1>14. QED
  BY <1>1, <1>7, <1>9, <1>10, <1>11, <1>12, <1>13, StepKinds, QuietPreserves DEF Inv

-----------------------------------------------------------------------------
(* The accounts of all workers *)

\* One counter for each worker.
Counters == [Workers -> Nat]

LEMMA CountersTotal ==
    ASSUME NEW S, S \in SUBSET Workers, NEW f, f \in Counters
    PROVE  Total(f, S) \in Nat
<1>1. IsFiniteSet(S)  BY WindowsAssumption, FS_Subset DEF WindowsAssumption
<1>2. \A x \in S : f[x] \in Nat  BY DEF Counters
<1>3. QED  BY <1>1, <1>2, TotalType

\* A step that changes one worker's counter, in the total of some of the workers: with
\* that worker ...
LEMMA TotalWith ==
    ASSUME NEW S, S \in SUBSET Workers, NEW w, w \in S,
           NEW f, f \in Counters, NEW g, g \in Counters,
           \A v \in Workers \ {w} : g[v] = f[v]
    PROVE  Total(g, S) = Total(f, S) - f[w] + g[w]
<1>1. IsFiniteSet(S)  BY WindowsAssumption, FS_Subset DEF WindowsAssumption
<1>2. \A x \in S : f[x] \in Nat  BY DEF Counters
<1>3. \A x \in S : g[x] \in Nat  BY DEF Counters
<1>4. \A x \in S \ {w} : g[x] = f[x]  OBVIOUS
<1>5. QED  BY <1>1, <1>2, <1>3, <1>4, TotalChange

\* ... or without.
LEMMA TotalWithout ==
    ASSUME NEW S, S \in SUBSET Workers, NEW w, w \notin S, NEW f, NEW g,
           \A v \in Workers \ {w} : g[v] = f[v]
    PROVE  Total(g, S) = Total(f, S)
<1>1. \A x \in S : g[x] = f[x]  OBVIOUS
<1>2. QED  BY <1>1, TotalSame

\* One worker's counter taken out of the total of some of the workers.
LEMMA TotalApart ==
    ASSUME NEW S, S \in SUBSET Workers, NEW w, w \in S, NEW f, f \in Counters
    PROVE  Total(f, S) = f[w] + Total(f, S \ {w})
<1>1. IsFiniteSet(S)  BY WindowsAssumption, FS_Subset DEF WindowsAssumption
<1>2. \A x \in S : f[x] \in Nat  BY DEF Counters
<1>3. QED  BY <1>1, <1>2, TotalSplit

\* The counts before and after a step.
LEMMA StepTypes ==
    ASSUME TypeOK, TypeOK', NEW k \in Ages
    PROVE  /\ InDeque(k) \in Counters /\ Given(k) \in Counters
           /\ InDeque(k)' \in Counters /\ Given(k)' \in Counters
           /\ \A w \in Workers : InDeque(k)[w] \in Nat /\ Given(k)[w] \in Nat
           /\ \A i \in Windows : /\ InRedis(i, k) \in Nat /\ InRedis(i, k)' \in Nat
                                 /\ LeftOver(i, k) \in Nat /\ LeftOver(i, k)' \in Nat
<1>1. k \in Int /\ k < Oldest /\ k <= Oldest /\ k <= Oldest - 1
      /\ Oldest \in Nat /\ Oldest - 1 \in Nat
  BY BagTypes, ConstantTypes
<1>2. /\ \A w \in Workers : deque'[w] \in Bags(0 .. Oldest) /\ granted'[w] \in Bags(0 .. Oldest - 1)
      /\ \A i \in Windows : /\ zset'[i] \in Bags(0 .. Oldest - 1)
                            /\ abandoned'[i] \in Bags(0 .. Oldest - 1)
  BY BagTypes DEF TypeOK
<1>3. /\ \A w \in Workers : Young(deque'[w], k) \in Nat /\ Young(granted'[w], k) \in Nat
      /\ \A i \in Windows : Young(zset'[i], k) \in Nat /\ Young(abandoned'[i], k) \in Nat
  BY <1>1, <1>2, YoungType
<1>4. QED  BY <1>1, <1>3, CountTypes DEF InDeque, Given, InRedis, LeftOver, Counters

\* Only the worker whose deque changes can fall behind.
LEMMA BehindOfOne ==
    ASSUME NEW w \in Workers, NEW k \in Nat,
           \A v \in Workers \ {w} : deque'[v] = deque[v],
           \A a \in DequeAges : a > k /\ deque'[w][a] > 0 => deque[w][a] > 0
    PROVE  Behind(k)' \subseteq Behind(k)
<1>1. SUFFICES ASSUME NEW v \in Behind(k)'  PROVE v \in Behind(k)
  OBVIOUS
<1>2. PICK a \in DequeAges : v \in Workers /\ a > k /\ deque'[v][a] > 0
  BY <1>1 DEF Behind, DequeAges, Oldest
<1>3. deque[v][a] > 0  BY <1>2
<1>4. QED  BY <1>2, <1>3 DEF Behind

\* Nothing is counted that was not granted.
LEMMA CoveredStep == ASSUME Inv, [Next]_vars  PROVE Covered'
<1>1. TypeOK /\ TypeOK' /\ Covered /\ Dominance'  BY NextTypes, DominanceStep DEF Inv
<1>2. SUFFICES ASSUME lost_answers' = 0, NEW i \in Windows, NEW k \in WindowAges(i),
                      NEW B \in SUBSET (Behind(k)')
               PROVE  InRedis(i, k)' + Total(InDeque(k)', Workers \ B)
                          <= Total(Given(k)', Workers \ B) + LeftOver(i, k)'
  BY DEF Covered, WindowAges
<1>3. k \in Ages /\ k \in Nat /\ k < TTL[i]
  BY <1>2, AgesTypes, ConstantTypes DEF WindowAges
<1>4. ASSUME lost_answers = 0, NEW C \in SUBSET Behind(k)
      PROVE  InRedis(i, k) + Total(InDeque(k), Workers \ C)
                 <= Total(Given(k), Workers \ C) + LeftOver(i, k)
  BY <1>1, <1>2, <1>4 DEF Covered
<1> DEFINE S == Workers \ B
<1>5. S \in SUBSET Workers /\ \A w \in Workers : w \in S <=> w \notin B  OBVIOUS
<1>C. /\ InDeque(k) \in Counters /\ Given(k) \in Counters
      /\ InDeque(k)' \in Counters /\ Given(k)' \in Counters
  BY <1>1, <1>3, StepTypes
<1>6. /\ InDeque(k) \in Counters /\ Given(k) \in Counters
      /\ InDeque(k)' \in Counters /\ Given(k)' \in Counters
      /\ InRedis(i, k) \in Nat /\ InRedis(i, k)' \in Nat
      /\ LeftOver(i, k) \in Nat /\ LeftOver(i, k)' \in Nat
  BY <1>1, <1>3, StepTypes
<1>7. B \subseteq Behind(k) /\ lost_answers = 0
          => InRedis(i, k) + Total(InDeque(k), S) <= Total(Given(k), S) + LeftOver(i, k)
  BY <1>4
<1> HIDE DEF S
<1>8. /\ Total(InDeque(k), S) \in Nat /\ Total(InDeque(k)', S) \in Nat
      /\ Total(Given(k), S) \in Nat /\ Total(Given(k)', S) \in Nat
      /\ \A w \in Workers : /\ InDeque(k)[w] \in Nat /\ InDeque(k)'[w] \in Nat
                            /\ Given(k)[w] \in Nat /\ Given(k)'[w] \in Nat
  <2>1. /\ Total(InDeque(k), S) \in Nat /\ Total(InDeque(k)', S) \in Nat
        /\ Total(Given(k), S) \in Nat /\ Total(Given(k)', S) \in Nat
    BY <1>5, <1>6, CountersTotal
  <2>2. QED  BY <1>6, <2>1 DEF Counters
\* a step that changes one worker's counter
<1>D1. ASSUME NEW w \in S, \A v \in Workers \ {w} : InDeque(k)'[v] = InDeque(k)[v]
       PROVE  Total(InDeque(k)', S) = Total(InDeque(k), S) - InDeque(k)[w] + InDeque(k)'[w]
  BY <1>5, <1>C, <1>D1, TotalWith
<1>D2. ASSUME NEW w \in Workers, w \notin S, \A v \in Workers \ {w} : InDeque(k)'[v] = InDeque(k)[v]
       PROVE  Total(InDeque(k)', S) = Total(InDeque(k), S)
  BY <1>5, <1>D2, TotalWithout
<1>G1. ASSUME NEW w \in S, \A v \in Workers \ {w} : Given(k)'[v] = Given(k)[v]
       PROVE  Total(Given(k)', S) = Total(Given(k), S) - Given(k)[w] + Given(k)'[w]
  BY <1>5, <1>C, <1>G1, TotalWith
<1>G2. ASSUME NEW w \in Workers, w \notin S, \A v \in Workers \ {w} : Given(k)'[v] = Given(k)[v]
       PROVE  Total(Given(k)', S) = Total(Given(k), S)
  BY <1>5, <1>G2, TotalWithout
<1>9. ASSUME NEW w \in Workers, deque' = [deque EXCEPT ![w] = Trimmed(w)],
             zset' = zset, historyVars' = historyVars, lost_answers' = lost_answers
      PROVE  InRedis(i, k)' + Total(InDeque(k)', S) <= Total(Given(k)', S) + LeftOver(i, k)'
  <2>1. /\ InDeque(k)' = [InDeque(k) EXCEPT ![w] = Young(Trimmed(w), k)]
        /\ Young(Trimmed(w), k) \in Nat /\ Young(Trimmed(w), k) <= InDeque(k)[w]
    BY <1>1, <1>3, <1>9, TrimCounts
  <2>2. /\ Given(k)' = Given(k) /\ InRedis(i, k)' = InRedis(i, k)
        /\ LeftOver(i, k)' = LeftOver(i, k)
    BY <1>9 DEF Given, InRedis, LeftOver, historyVars
  <2>3. B \subseteq Behind(k)
    <3>1. \A a \in DequeAges : deque'[w][a] > 0 => deque[w][a] > 0
      <4>1. deque'[w] = Trimmed(w)  BY <1>1, <1>9 DEF TypeOK
      <4>2. \A a \in DequeAges : Trimmed(w)[a] \in Nat /\ deque[w][a] \in Nat
        BY <1>1, BagTypes, TrimmedFacts DEF Bags
      <4>3. QED  BY <1>1, <4>1, <4>2, TrimmedFacts
    <3>2. \A v \in Workers \ {w} : deque'[v] = deque[v]  BY <1>1, <1>9 DEF TypeOK
    <3>3. QED  BY <1>3, <3>1, <3>2, BehindOfOne
  <2>4. /\ \A v \in Workers \ {w} : InDeque(k)'[v] = InDeque(k)[v]
        /\ \A v \in Workers \ {w} : Given(k)'[v] = Given(k)[v]
        /\ InDeque(k)'[w] = Young(Trimmed(w), k)
    BY <1>6, <2>1, <2>2 DEF Counters
  <2>5. InRedis(i, k) + Total(InDeque(k), S) <= Total(Given(k), S) + LeftOver(i, k)
    BY <1>2, <1>7, <1>9, <2>3
  <2>6. Total(InDeque(k)', S) <= Total(InDeque(k), S)
        /\ Total(InDeque(k)', S) \in Nat /\ Total(InDeque(k), S) \in Nat
        /\ Total(Given(k), S) \in Nat
    <3>1. CASE w \in S
      <4>1. Total(InDeque(k)', S) = Total(InDeque(k), S) - InDeque(k)[w] + InDeque(k)'[w]
        BY <1>D1, <2>4, <3>1
      <4>2. QED  BY <1>8, <2>1, <2>4, <4>1
    <3>2. CASE w \notin S
      <4>1. Total(InDeque(k)', S) = Total(InDeque(k), S)  BY <1>D2, <2>4, <3>2
      <4>2. QED  BY <1>8, <4>1
    <3>3. QED  BY <3>1, <3>2
  <2>7. QED  BY <1>6, <2>2, <2>5, <2>6
<1>10. ASSUME NEW w \in Workers, Consume(w)
       PROVE  InRedis(i, k)' + Total(InDeque(k)', S) <= Total(Given(k)', S) + LeftOver(i, k)'
  <2>1. /\ InDeque(k)' = [InDeque(k) EXCEPT ![w] = Young(Trimmed(w), k) + 1]
        /\ Young(Trimmed(w), k) \in Nat /\ Young(Trimmed(w), k) <= InDeque(k)[w]
        /\ Given(k)' = [Given(k) EXCEPT ![w] = @ + 1]
        /\ InRedis(i, k)' = InRedis(i, k) /\ LeftOver(i, k)' = LeftOver(i, k)
    BY <1>1, <1>3, <1>10, ConsumeCounts DEF Consume, LeftOver
  <2>2. B \subseteq Behind(k)
    <3>1. \A a \in DequeAges : a > k /\ deque'[w][a] > 0 => deque[w][a] > 0
      <4>1. deque'[w] = OneNew(Trimmed(w))  BY <1>1, <1>10 DEF TypeOK, Consume
      <4>2. \A a \in DequeAges : Trimmed(w)[a] \in Nat /\ deque[w][a] \in Nat
        BY <1>1, BagTypes, TrimmedFacts DEF Bags
      <4>3. \A a \in DequeAges : a > k => OneNew(Trimmed(w))[a] = Trimmed(w)[a]
        BY <1>1, <1>3, BagTypes, TrimmedFacts DEF OneNew, Bags
      <4>4. QED  BY <1>1, <4>1, <4>2, <4>3, TrimmedFacts
    <3>2. \A v \in Workers \ {w} : deque'[v] = deque[v]  BY <1>1, <1>10 DEF TypeOK, Consume
    <3>3. QED  BY <1>3, <3>1, <3>2, BehindOfOne
  <2>3. /\ \A v \in Workers \ {w} : InDeque(k)'[v] = InDeque(k)[v]
        /\ \A v \in Workers \ {w} : Given(k)'[v] = Given(k)[v]
        /\ InDeque(k)'[w] = Young(Trimmed(w), k) + 1 /\ Given(k)'[w] = Given(k)[w] + 1
    BY <1>6, <2>1 DEF Counters
  <2>4. InRedis(i, k) + Total(InDeque(k), S) <= Total(Given(k), S) + LeftOver(i, k)
    BY <1>2, <1>7, <1>10, <2>2 DEF Consume, boundVars
  <2>5. CASE w \in S
    <3>1. /\ Total(InDeque(k)', S) = Total(InDeque(k), S) - InDeque(k)[w] + InDeque(k)'[w]
          /\ Total(Given(k)', S) = Total(Given(k), S) - Given(k)[w] + Given(k)'[w]
      BY <1>D1, <1>G1, <2>3, <2>5
    <3>2. QED  BY <1>6, <1>8, <2>1, <2>3, <2>4, <3>1
  <2>6. CASE w \notin S
    <3>1. /\ Total(InDeque(k)', S) = Total(InDeque(k), S)
          /\ Total(Given(k)', S) = Total(Given(k), S)
      BY <1>D2, <1>G2, <2>3, <2>6
    <3>2. QED  BY <1>6, <2>1, <2>4, <3>1
  <2>7. QED  BY <2>5, <2>6
\* a flush empties the deque, but for the request that has fetched quota
<1>11. ASSUME NEW w \in Workers, PrefetchDenied(w) \/ PrefetchGranted(w)
       PROVE  InRedis(i, k)' + Total(InDeque(k)', S) <= Total(Given(k)', S) + LeftOver(i, k)'
  <2>1. /\ InRedis(i, k)' = InRedis(i, k) + Young(Trimmed(w), k)
        /\ Young(Trimmed(w), k) \in Nat /\ Young(Trimmed(w), k) <= InDeque(k)[w]
        /\ LeftOver(i, k)' = LeftOver(i, k)
    BY <1>1, <1>3, <1>11, FlushCounts DEF PrefetchDenied, PrefetchGranted, LeftOver, historyVars
  <2>2. PICK new \in {0, 1} : /\ InDeque(k)' = [InDeque(k) EXCEPT ![w] = new]
                              /\ Given(k)' = [Given(k) EXCEPT ![w] = @ + new]
    <3>1. CASE PrefetchDenied(w)
      <4>1. InDeque(k)' = [InDeque(k) EXCEPT ![w] = 0]
        BY <1>1, <1>3, <3>1, EmptiedCounts DEF PrefetchDenied
      <4>2. Given(k)' = Given(k)  BY <3>1 DEF PrefetchDenied, Given, historyVars
      <4>3. Given(k)' = [Given(k) EXCEPT ![w] = @ + 0]  BY <1>6, <4>2 DEF Counters
      <4>4. QED  BY <4>1, <4>3
    <3>2. CASE PrefetchGranted(w)
      <4>1. InDeque(k)' = [InDeque(k) EXCEPT ![w] = 1]
        BY <1>1, <1>3, <3>2, EmptiedCounts DEF PrefetchGranted
      <4>2. Given(k)' = [Given(k) EXCEPT ![w] = @ + 1]
        BY <1>1, <1>3, <3>2, GrantCounts DEF PrefetchGranted
      <4>3. QED  BY <4>1, <4>2
    <3>3. QED  BY <1>11, <3>1, <3>2
  <2>3. \A a \in DequeAges : a > k => ~(deque'[w][a] > 0)
    <3>1. deque'[w] = Empty(DequeAges) \/ deque'[w] = OneNew(Empty(DequeAges))
      BY <1>1, <1>11 DEF PrefetchDenied, PrefetchGranted, TypeOK
    <3>2. \A a \in DequeAges : a > k => a # 0  BY <1>3, AgesTypes
    <3>3. QED  BY <3>1, <3>2 DEF Empty, OneNew
  <2>4. \A v \in Workers \ {w} : deque'[v] = deque[v]
    BY <1>1, <1>11 DEF PrefetchDenied, PrefetchGranted, TypeOK
  <2>5. B \subseteq Behind(k)  BY <1>3, <2>3, <2>4, BehindOfOne
  <2>6. w \in S  BY <1>5, <2>3 DEF Behind, DequeAges, Oldest
  <2>7. /\ \A v \in Workers \ {w} : InDeque(k)'[v] = InDeque(k)[v]
        /\ \A v \in Workers \ {w} : Given(k)'[v] = Given(k)[v]
        /\ InDeque(k)'[w] = new /\ Given(k)'[w] = Given(k)[w] + new
    BY <1>6, <2>2 DEF Counters
  <2>8. InRedis(i, k) + Total(InDeque(k), S) <= Total(Given(k), S) + LeftOver(i, k)
    BY <1>2, <1>7, <1>11, <2>5 DEF PrefetchDenied, PrefetchGranted, boundVars
  <2>9. /\ Total(InDeque(k)', S) = Total(InDeque(k), S) - InDeque(k)[w] + InDeque(k)'[w]
        /\ Total(Given(k)', S) = Total(Given(k), S) - Given(k)[w] + Given(k)'[w]
    BY <1>D1, <1>G1, <2>6, <2>7
  <2>10. QED  BY <1>6, <1>8, <2>1, <2>7, <2>8, <2>9
<1>12. ASSUME NEW w \in Workers, AnswerLost(w)  PROVE FALSE
  BY <1>1, <1>2, <1>12 DEF AnswerLost, TypeOK
\* a refund that finds nothing young to remove leaves the worker behind
<1>13. ASSUME NEW w \in Workers, NEW a \in Ages, Refund(w, a)
       PROVE  InRedis(i, k)' + Total(InDeque(k)', S) <= Total(Given(k)', S) + LeftOver(i, k)'
  <2>1. /\ Given(k)' = [Given(k) EXCEPT ![w] = @ - (IF a <= k THEN 1 ELSE 0)]
        /\ a <= k => Given(k)[w] > 0
    BY <1>1, <1>3, <1>13, RefundCounts
  <2>2. /\ Given(k)'[w] \in Nat /\ Given(k)'[w] >= Given(k)[w] - 1
        /\ Given(k)'[w] <= Given(k)[w] /\ Given(k)[w] \in Nat /\ InDeque(k)[w] \in Nat
    BY <1>3, <1>6, <2>1, AgesTypes DEF Counters
  <2>3. \A v \in Workers \ {w} : Given(k)'[v] = Given(k)[v]  BY <1>6, <2>1 DEF Counters
  <2>4. lost_answers = 0  BY <1>2, <1>13 DEF Refund
  <2>5. CASE Count(deque[w], DequeAges) > 0
    <3>1. /\ InDeque(k)' = [InDeque(k) EXCEPT ![w] = Less(@)]
          /\ deque' = [deque EXCEPT ![w] = NewestRemoved(@)]
          /\ zset' = zset /\ abandoned' = abandoned
      BY <1>1, <1>3, <1>13, <2>5, RefundedCounts
    <3>2. InRedis(i, k)' = InRedis(i, k) /\ LeftOver(i, k)' = LeftOver(i, k)
      BY <3>1 DEF InRedis, LeftOver
    <3>3. /\ \A v \in Workers \ {w} : InDeque(k)'[v] = InDeque(k)[v]
          /\ InDeque(k)'[w] = Less(InDeque(k)[w])
      BY <1>6, <3>1 DEF Counters
    <3>4. B \subseteq Behind(k)
      <4>1. deque'[w] = NewestRemoved(deque[w])  BY <1>1, <3>1 DEF TypeOK
      <4>2. /\ deque[w] \in Bags(0 .. Oldest) /\ Oldest \in Nat /\ DequeAges = 0 .. Oldest
            /\ Oldest \in 0 .. Oldest
        BY <1>1, BagTypes, ConstantTypes
      <4>3. \A b \in DequeAges : /\ deque'[w][b] <= deque[w][b] /\ deque[w][b] \in Nat
                                 /\ deque'[w][b] \in Nat
        BY <4>1, <4>2, YoungOfRemoved DEF Bags
      <4>4. \A b \in DequeAges : b > k /\ deque'[w][b] > 0 => deque[w][b] > 0
        BY <4>3
      <4>5. \A v \in Workers \ {w} : deque'[v] = deque[v]  BY <1>1, <3>1 DEF TypeOK
      <4>6. QED  BY <1>3, <4>4, <4>5, BehindOfOne
    <3>5. CASE InDeque(k)[w] > 0 \/ w \notin S
      <4>1. InRedis(i, k) + Total(InDeque(k), S) <= Total(Given(k), S) + LeftOver(i, k)
        BY <1>7, <2>4, <3>4
      <4>2. CASE w \in S
        <5>1. InDeque(k)'[w] = InDeque(k)[w] - 1
          BY <2>2, <3>3, <3>5, <4>2 DEF Less
        <5>2. /\ Total(InDeque(k)', S) = Total(InDeque(k), S) - InDeque(k)[w] + InDeque(k)'[w]
              /\ Total(Given(k)', S) = Total(Given(k), S) - Given(k)[w] + Given(k)'[w]
          BY <1>D1, <1>G1, <2>3, <3>3, <4>2
        <5>3. QED  BY <1>6, <1>8, <2>2, <3>2, <4>1, <5>1, <5>2
      <4>3. CASE w \notin S
        <5>1. /\ Total(InDeque(k)', S) = Total(InDeque(k), S)
              /\ Total(Given(k)', S) = Total(Given(k), S)
          BY <1>D2, <1>G2, <2>3, <3>3, <4>3
        <5>2. QED  BY <3>2, <4>1, <5>1
      <4>4. QED  BY <4>2, <4>3
    <3>6. CASE InDeque(k)[w] = 0 /\ w \in S
      <4>1. w \in Behind(k)
        <5>1. /\ deque[w] \in Bags(0 .. Oldest) /\ DequeAges = 0 .. Oldest /\ Oldest \in Nat
              /\ k \in Int /\ Oldest \in Int /\ k <= Oldest
          BY <1>1, <1>3, BagTypes, ConstantTypes
        <5>2. Young(deque[w], k) = 0 /\ Young(deque[w], Oldest) > 0
          BY <2>5, <3>6, <5>1 DEF InDeque, Count, Young
        <5>3. ~ \A b \in k + 1 .. Oldest : deque[w][b] = 0
          BY <5>1, <5>2, YoungOfAll
        <5>4. PICK b \in k + 1 .. Oldest : deque[w][b] # 0  BY <5>3
        <5>5. b \in DequeAges /\ b > k /\ deque[w][b] \in Nat
          BY <1>3, <5>1, <5>4 DEF Bags
        <5>6. QED  BY <5>4, <5>5 DEF Behind
      <4>2. B \cup {w} \in SUBSET Behind(k) /\ Workers \ (B \cup {w}) = S \ {w}
        BY <3>4, <4>1 DEF S
      <4>3. InRedis(i, k) + Total(InDeque(k), S \ {w})
                <= Total(Given(k), S \ {w}) + LeftOver(i, k)
        BY <1>4, <2>4, <4>2
      <4>4. InDeque(k)'[w] = 0  BY <3>3, <3>6 DEF Less
      <4>5. /\ Total(InDeque(k), S) = InDeque(k)[w] + Total(InDeque(k), S \ {w})
            /\ Total(Given(k), S) = Given(k)[w] + Total(Given(k), S \ {w})
        BY <1>5, <1>6, <3>6, TotalApart
      <4>6. S \ {w} \in SUBSET Workers  BY <1>5
      <4>7. Total(InDeque(k), S \ {w}) \in Nat /\ Total(Given(k), S \ {w}) \in Nat
        BY <1>6, <4>6, CountersTotal
      <4>8. /\ Total(InDeque(k)', S) = Total(InDeque(k), S) - InDeque(k)[w] + InDeque(k)'[w]
            /\ Total(Given(k)', S) = Total(Given(k), S) - Given(k)[w] + Given(k)'[w]
        BY <1>D1, <1>G1, <2>3, <3>3, <3>6
      <4>9. QED  BY <1>6, <1>8, <2>2, <3>2, <3>6, <4>3, <4>4, <4>5, <4>7, <4>8
    <3>7. QED  BY <2>2, <3>5, <3>6
  <2>6. CASE ~(Count(deque[w], DequeAges) > 0)
    <3>1. /\ deque' = deque /\ InDeque(k)' = InDeque(k)
          /\ \/ /\ InRedis(i, k)' = Less(InRedis(i, k))
                /\ LeftOver(i, k)' = LeftOver(i, k)
             \/ /\ InRedis(i, k)' = InRedis(i, k)
                /\ LeftOver(i, k)' = LeftOver(i, k) + (IF a <= k THEN 1 ELSE 0)
      BY <1>1, <1>3, <1>13, <2>6, RefundedCounts
    <3>2. B \subseteq Behind(k)  BY <3>1 DEF Behind, DequeAges, Oldest
    <3>3. InRedis(i, k) + Total(InDeque(k), S) <= Total(Given(k), S) + LeftOver(i, k)
      BY <1>7, <2>4, <3>2
    <3>4. /\ Total(Given(k)', S) >= Total(Given(k), S) - (IF a <= k THEN 1 ELSE 0)
          /\ Total(Given(k)', S) \in Nat /\ Total(Given(k), S) \in Nat
          /\ Total(InDeque(k), S) \in Nat
      <4>1. CASE w \in S
        <5>1. Total(Given(k)', S) = Total(Given(k), S) - Given(k)[w] + Given(k)'[w]
          BY <1>G1, <2>3, <4>1
        <5>2. Given(k)'[w] = Given(k)[w] - (IF a <= k THEN 1 ELSE 0)
          BY <1>6, <2>1 DEF Counters
        <5>3. QED  BY <1>8, <2>2, <5>1, <5>2
      <4>2. CASE w \notin S
        <5>1. Total(Given(k)', S) = Total(Given(k), S)  BY <1>G2, <2>3, <4>2
        <5>2. QED  BY <1>8, <5>1
      <4>3. QED  BY <4>1, <4>2
    <3>5. CASE LeftOver(i, k)' = LeftOver(i, k) + (IF a <= k THEN 1 ELSE 0)
               /\ InRedis(i, k)' = InRedis(i, k)
      BY <1>6, <3>1, <3>3, <3>4, <3>5
    <3>6. CASE InRedis(i, k) > 0 /\ InRedis(i, k)' = Less(InRedis(i, k))
               /\ LeftOver(i, k)' = LeftOver(i, k)
      <4>1. InRedis(i, k)' = InRedis(i, k) - 1  BY <3>6 DEF Less
      <4>2. QED  BY <1>6, <3>1, <3>3, <3>4, <3>6, <4>1
    <3>7. CASE InRedis(i, k) = 0 /\ InRedis(i, k)' = Less(InRedis(i, k))
      <4>1. InRedis(i, k)' = 0  BY <3>7 DEF Less
      <4>2. \A v \in S : InDeque(k)'[v] <= Given(k)'[v]
        BY <1>1, <1>3, <1>5 DEF Dominance
      <4>3. IsFiniteSet(S)
        BY <1>5, WindowsAssumption, FS_Subset DEF WindowsAssumption
      <4>4. \A v \in S : InDeque(k)'[v] \in Nat  BY <1>5, <1>6 DEF Counters
      <4>5. \A v \in S : Given(k)'[v] \in Nat  BY <1>5, <1>6 DEF Counters
      <4>6. Total(InDeque(k)', S) <= Total(Given(k)', S)
        BY <4>2, <4>3, <4>4, <4>5, TotalSmaller
      <4>7. QED  BY <1>6, <1>8, <4>1, <4>6
    <3>8. QED  BY <1>6, <3>1, <3>5, <3>6, <3>7
  <2>7. QED  BY <2>5, <2>6
<1>14. ASSUME Tick
       PROVE  InRedis(i, k)' + Total(InDeque(k)', S) <= Total(Given(k)', S) + LeftOver(i, k)'
  <2>1. /\ InDeque(k)' = InDeque(k - 1) /\ Given(k)' = Given(k - 1)
        /\ InRedis(i, k)' = InRedis(i, k - 1) /\ LeftOver(i, k)' = LeftOver(i, k - 1)
    BY <1>1, <1>3, <1>14, TickCounts
  <2>2. CASE k = 0
    <3>1. k - 1 \in Int /\ k - 1 < Oldest /\ k - 1 < 0  BY <2>2, ConstantTypes
    <3>2. InRedis(i, k)' = 0 /\ \A v \in Workers : InDeque(k)'[v] = 0
      BY <1>1, <2>1, <3>1, CountTypes
    <3>3. \A v \in S : InDeque(k)'[v] = 0  BY <1>5, <3>2
    <3>4. Total(InDeque(k)', S) = 0  BY <3>3, TotalZero
    <3>5. IsFiniteSet(S)
      BY <1>5, WindowsAssumption, FS_Subset DEF WindowsAssumption
    <3>6. \A v \in S : Given(k)'[v] \in Nat  BY <1>5, <1>6 DEF Counters
    <3>7. Total(Given(k)', S) \in Nat  BY <3>5, <3>6, TotalType
    <3>8. QED  BY <1>6, <3>2, <3>4, <3>7
  <2>3. CASE k # 0
    <3>1. k - 1 \in WindowAges(i) /\ k - 1 \in Nat /\ k \in Nat
      BY <1>2, <1>3, <2>3, ConstantTypes DEF WindowAges
    <3>2. B \subseteq Behind(k - 1)
      <4>1. SUFFICES ASSUME NEW v \in Behind(k)'  PROVE v \in Behind(k - 1)
        OBVIOUS
      <4>2. PICK b \in DequeAges : v \in Workers /\ b > k /\ deque'[v][b] > 0
        BY <4>1 DEF Behind, DequeAges, Oldest
      <4>3. /\ DequeAges = 0 .. Oldest /\ Oldest \in Nat /\ k < Oldest
            /\ deque[v] \in Bags(0 .. Oldest)
        BY <1>1, <1>3, <4>2, BagTypes, ConstantTypes
      <4>4. /\ b - 1 \in DequeAges /\ b - 1 > k - 1 /\ Oldest > k - 1 /\ Oldest \in DequeAges
            /\ b # 0
        BY <3>1, <4>2, <4>3
      <4>5. deque[v][b - 1] \in Nat /\ deque[v][Oldest] \in Nat
        BY <4>3, <4>4 DEF Bags
      <4>6. deque'[v][b] = IF b = Oldest THEN deque[v][b - 1] + deque[v][Oldest]
                                         ELSE deque[v][b - 1]
        BY <1>14, <4>2, <4>4 DEF Tick, Older
      <4>7. deque[v][b - 1] > 0 \/ deque[v][Oldest] > 0
        BY <4>2, <4>5, <4>6
      <4>8. QED  BY <4>2, <4>4, <4>7 DEF Behind
    <3>3. lost_answers = 0  BY <1>2, <1>14 DEF Tick, boundVars
    <3>4. InRedis(i, k - 1) + Total(InDeque(k - 1), Workers \ B)
              <= Total(Given(k - 1), Workers \ B) + LeftOver(i, k - 1)
      BY <1>1, <3>1, <3>2, <3>3 DEF Covered
    <3>5. QED  BY <2>1, <3>4 DEF S
  <2>4. QED  BY <2>2, <2>3
<1>15. ASSUME Quiet
       PROVE  InRedis(i, k)' + Total(InDeque(k)', S) <= Total(Given(k)', S) + LeftOver(i, k)'
  <2>1. Covered'  BY <1>1, <1>15, QuietPreserves DEF Inv
  <2>2. QED  BY <1>2, <2>1 DEF Covered, S, WindowAges
<1>16. InRedis(i, k)' + Total(InDeque(k)', S) <= Total(Given(k)', S) + LeftOver(i, k)'
  BY <1>1, <1>9, <1>10, <1>11, <1>12, <1>13, <1>14, <1>15, StepKinds
     DEF DenyLocal, Degrade, boundVars
<1>17. QED  BY <1>16 DEF S

\* What has been granted is counted or remembered.
LEMMA NothingForgottenStep == ASSUME Inv, [Next]_vars  PROVE NothingForgotten'
<1>1. TypeOK /\ TypeOK' /\ NothingForgotten  BY NextTypes DEF Inv
<1>2. SUFFICES ASSUME NEW k \in WindowAges("5h")
               PROVE  Total(Given(k)', Workers)
                          <= InRedis("5h", k)' + Total(InDeque(k)', Workers) + refunds'
  BY DEF NothingForgotten, WindowAges
<1>3. k \in Ages /\ k \in Nat /\ k < TTL["5h"] /\ "5h" \in Windows
  BY <1>2, AgesTypes, ConstantTypes DEF WindowAges
<1>4. Total(Given(k), Workers) <= InRedis("5h", k) + Total(InDeque(k), Workers) + refunds
  BY <1>1 DEF NothingForgotten
<1>5. /\ InDeque(k) \in Counters /\ Given(k) \in Counters
      /\ InDeque(k)' \in Counters /\ Given(k)' \in Counters
      /\ InRedis("5h", k) \in Nat /\ InRedis("5h", k)' \in Nat
      /\ refunds \in Nat
  BY <1>1, <1>3, StepTypes DEF TypeOK
<1>6. /\ Total(InDeque(k), Workers) \in Nat /\ Total(InDeque(k)', Workers) \in Nat
      /\ Total(Given(k), Workers) \in Nat /\ Total(Given(k)', Workers) \in Nat
  BY <1>5, CountersTotal
<1>7. \A w \in Workers : /\ InDeque(k)[w] \in Nat /\ InDeque(k)'[w] \in Nat
                         /\ Given(k)[w] \in Nat /\ Given(k)'[w] \in Nat
  BY <1>5 DEF Counters
<1>8. ASSUME NEW w \in Workers, \A v \in Workers \ {w} : InDeque(k)'[v] = InDeque(k)[v]
      PROVE  Total(InDeque(k)', Workers)
                 = Total(InDeque(k), Workers) - InDeque(k)[w] + InDeque(k)'[w]
  BY <1>5, <1>8, TotalWith
<1>9. ASSUME NEW w \in Workers, \A v \in Workers \ {w} : Given(k)'[v] = Given(k)[v]
      PROVE  Total(Given(k)', Workers)
                 = Total(Given(k), Workers) - Given(k)[w] + Given(k)'[w]
  BY <1>5, <1>9, TotalWith
\* trimming: what leaves the deque has left the window
<1>10. ASSUME NEW w \in Workers, deque' = [deque EXCEPT ![w] = Trimmed(w)]
       PROVE  InDeque(k)' = InDeque(k)
  <2>1. /\ InDeque(k)' = [InDeque(k) EXCEPT ![w] = Young(Trimmed(w), k)]
        /\ Young(Trimmed(w), k) = InDeque(k)[w]
    BY <1>1, <1>3, <1>10, TrimCounts
  <2>2. QED  BY <1>5, <2>1 DEF Counters
<1>11. ASSUME NEW w \in Workers, DenyLocal(w) \/ Degrade(w)
       PROVE  Total(Given(k)', Workers)
                  <= InRedis("5h", k)' + Total(InDeque(k)', Workers) + refunds'
  <2>1. InDeque(k)' = InDeque(k)  BY <1>10, <1>11 DEF DenyLocal, Degrade
  <2>2. Given(k)' = Given(k) /\ InRedis("5h", k)' = InRedis("5h", k) /\ refunds' = refunds
    BY <1>11 DEF DenyLocal, Degrade, Given, InRedis, boundVars, historyVars
  <2>3. QED  BY <1>4, <2>1, <2>2
<1>12. ASSUME NEW w \in Workers, AnswerLost(w)
       PROVE  Total(Given(k)', Workers)
                  <= InRedis("5h", k)' + Total(InDeque(k)', Workers) + refunds'
  <2>1. InDeque(k)' = InDeque(k)  BY <1>10, <1>12 DEF AnswerLost
  <2>2. Given(k)' = Given(k) /\ refunds' = refunds  BY <1>12 DEF AnswerLost, Given, historyVars
  <2>3. InRedis("5h", k)' >= InRedis("5h", k)
    BY <1>1, <1>3, <1>5, <1>12, FlushCounts DEF AnswerLost
  <2>4. QED  BY <1>4, <1>5, <1>6, <2>1, <2>2, <2>3
<1>13. ASSUME NEW w \in Workers, Consume(w)
       PROVE  Total(Given(k)', Workers)
                  <= InRedis("5h", k)' + Total(InDeque(k)', Workers) + refunds'
  <2>1. /\ InDeque(k)' = [InDeque(k) EXCEPT ![w] = Young(Trimmed(w), k) + 1]
        /\ Young(Trimmed(w), k) = InDeque(k)[w]
        /\ Given(k)' = [Given(k) EXCEPT ![w] = @ + 1]
        /\ InRedis("5h", k)' = InRedis("5h", k)
    BY <1>1, <1>3, <1>13, ConsumeCounts
  <2>2. /\ \A v \in Workers \ {w} : InDeque(k)'[v] = InDeque(k)[v]
        /\ \A v \in Workers \ {w} : Given(k)'[v] = Given(k)[v]
        /\ InDeque(k)'[w] = InDeque(k)[w] + 1 /\ Given(k)'[w] = Given(k)[w] + 1
    BY <1>5, <2>1 DEF Counters
  <2>3. refunds' = refunds  BY <1>13 DEF Consume, boundVars
  <2>4. /\ Total(InDeque(k)', Workers)
               = Total(InDeque(k), Workers) - InDeque(k)[w] + InDeque(k)'[w]
        /\ Total(Given(k)', Workers)
               = Total(Given(k), Workers) - Given(k)[w] + Given(k)'[w]
    BY <1>8, <1>9, <2>2
  <2>5. QED  BY <1>4, <1>5, <1>6, <1>7, <2>1, <2>2, <2>3, <2>4
<1>14. ASSUME NEW w \in Workers, PrefetchDenied(w) \/ PrefetchGranted(w)
       PROVE  Total(Given(k)', Workers)
                  <= InRedis("5h", k)' + Total(InDeque(k)', Workers) + refunds'
  <2>1. InRedis("5h", k)' = InRedis("5h", k) + InDeque(k)[w]
    BY <1>1, <1>3, <1>14, FlushCounts DEF PrefetchDenied, PrefetchGranted
  <2>2. PICK new \in {0, 1} : /\ InDeque(k)' = [InDeque(k) EXCEPT ![w] = new]
                              /\ Given(k)' = [Given(k) EXCEPT ![w] = @ + new]
    <3>1. CASE PrefetchDenied(w)
      <4>1. InDeque(k)' = [InDeque(k) EXCEPT ![w] = 0]
        BY <1>1, <1>3, <3>1, EmptiedCounts DEF PrefetchDenied
      <4>2. Given(k)' = Given(k)  BY <3>1 DEF PrefetchDenied, Given, historyVars
      <4>3. Given(k)' = [Given(k) EXCEPT ![w] = @ + 0]  BY <1>5, <4>2 DEF Counters
      <4>4. QED  BY <4>1, <4>3
    <3>2. CASE PrefetchGranted(w)
      <4>1. InDeque(k)' = [InDeque(k) EXCEPT ![w] = 1]
        BY <1>1, <1>3, <3>2, EmptiedCounts DEF PrefetchGranted
      <4>2. Given(k)' = [Given(k) EXCEPT ![w] = @ + 1]
        BY <1>1, <1>3, <3>2, GrantCounts DEF PrefetchGranted
      <4>3. QED  BY <4>1, <4>2
    <3>3. QED  BY <1>14, <3>1, <3>2
  <2>3. /\ \A v \in Workers \ {w} : InDeque(k)'[v] = InDeque(k)[v]
        /\ \A v \in Workers \ {w} : Given(k)'[v] = Given(k)[v]
        /\ InDeque(k)'[w] = new /\ Given(k)'[w] = Given(k)[w] + new
    BY <1>5, <2>2 DEF Counters
  <2>4. refunds' = refunds  BY <1>14 DEF PrefetchDenied, PrefetchGranted, boundVars
  <2>5. /\ Total(InDeque(k)', Workers)
               = Total(InDeque(k), Workers) - InDeque(k)[w] + InDeque(k)'[w]
        /\ Total(Given(k)', Workers)
               = Total(Given(k), Workers) - Given(k)[w] + Given(k)'[w]
    BY <1>8, <1>9, <2>3
  <2>6. QED  BY <1>4, <1>5, <1>6, <1>7, <2>1, <2>3, <2>4, <2>5
<1>15. ASSUME NEW w \in Workers, NEW a \in Ages, Refund(w, a)
       PROVE  Total(Given(k)', Workers)
                  <= InRedis("5h", k)' + Total(InDeque(k)', Workers) + refunds'
  <2>1. Given(k)' = [Given(k) EXCEPT ![w] = @ - (IF a <= k THEN 1 ELSE 0)]
    BY <1>1, <1>3, <1>15, RefundCounts
  <2>2. /\ \A v \in Workers \ {w} : Given(k)'[v] = Given(k)[v]
        /\ Given(k)'[w] = Given(k)[w] - (IF a <= k THEN 1 ELSE 0)
    BY <1>5, <2>1 DEF Counters
  <2>3. Total(Given(k)', Workers) <= Total(Given(k), Workers)
    <3>1. Total(Given(k)', Workers)
              = Total(Given(k), Workers) - Given(k)[w] + Given(k)'[w]
      BY <1>9, <2>2
    <3>2. Given(k)'[w] <= Given(k)[w]  BY <1>7, <2>2
    <3>3. QED  BY <1>6, <1>7, <3>1, <3>2
  <2>4. refunds' = refunds + 1  BY <1>15 DEF Refund
  <2>5. InRedis("5h", k)' + Total(InDeque(k)', Workers) + 1
            >= InRedis("5h", k) + Total(InDeque(k), Workers)
    <3>1. CASE Count(deque[w], DequeAges) > 0
      <4>1. InDeque(k)' = [InDeque(k) EXCEPT ![w] = Less(@)] /\ zset' = zset
        BY <1>1, <1>3, <1>15, <3>1, RefundedCounts
      <4>2. /\ \A v \in Workers \ {w} : InDeque(k)'[v] = InDeque(k)[v]
            /\ InDeque(k)'[w] = Less(InDeque(k)[w])
        BY <1>5, <4>1 DEF Counters
      <4>3. InDeque(k)'[w] >= InDeque(k)[w] - 1  BY <1>7, <4>2 DEF Less
      <4>4. Total(InDeque(k)', Workers)
                = Total(InDeque(k), Workers) - InDeque(k)[w] + InDeque(k)'[w]
        BY <1>8, <4>2
      <4>5. InRedis("5h", k)' = InRedis("5h", k)  BY <4>1 DEF InRedis
      <4>6. QED  BY <1>5, <1>6, <1>7, <4>3, <4>4, <4>5
    <3>2. CASE ~(Count(deque[w], DequeAges) > 0)
      <4>1. /\ InDeque(k)' = InDeque(k)
            /\ InRedis("5h", k)' \in {InRedis("5h", k), Less(InRedis("5h", k))}
        BY <1>1, <1>3, <1>15, <3>2, RefundedCounts
      <4>2. QED  BY <1>5, <1>6, <4>1 DEF Less
    <3>3. QED  BY <3>1, <3>2
  <2>6. QED  BY <1>4, <1>5, <1>6, <2>3, <2>4, <2>5
<1>16. ASSUME Tick
       PROVE  Total(Given(k)', Workers)
                  <= InRedis("5h", k)' + Total(InDeque(k)', Workers) + refunds'
  <2>1. /\ InDeque(k)' = InDeque(k - 1) /\ Given(k)' = Given(k - 1)
        /\ InRedis("5h", k)' = InRedis("5h", k - 1) /\ refunds' = refunds
    BY <1>1, <1>3, <1>16, TickCounts DEF Tick, boundVars
  <2>2. CASE k = 0
    <3>1. k - 1 \in Int /\ k - 1 < Oldest /\ k - 1 < 0  BY <2>2, ConstantTypes
    <3>2. \A v \in Workers : Given(k)'[v] = 0
      BY <1>1, <2>1, <3>1, CountTypes
    <3>3. Total(Given(k)', Workers) = 0  BY <3>2, TotalZero
    <3>4. QED  BY <1>5, <1>6, <2>1, <3>3
  <2>3. CASE k # 0
    <3>1. k - 1 \in WindowAges("5h")
      BY <1>2, <1>3, <2>3, ConstantTypes DEF WindowAges
    <3>2. QED  BY <1>1, <2>1, <3>1 DEF NothingForgotten
  <2>4. QED  BY <2>2, <2>3
<1>17. ASSUME Quiet
       PROVE  Total(Given(k)', Workers)
                  <= InRedis("5h", k)' + Total(InDeque(k)', Workers) + refunds'
  <2>1. NothingForgotten'  BY <1>1, <1>17, QuietPreserves DEF Inv
  <2>2. QED  BY <1>2, <2>1 DEF NothingForgotten, WindowAges
<1>18. QED
  BY <1>1, <1>11, <1>12, <1>13, <1>14, <1>15, <1>16, <1>17, StepKinds

\* What the other workers may have spent or may spend without asking Redis.
Others == (Cardinality(Workers) - 1) * Batch

\* Of what one worker sees neither in Redis nor in its own deque, there is no more.
LEMMA OthersBound ==
    ASSUME TypeOK, QuotaInv, NEW w \in Workers, reserved[w] = 0, NEW k \in Ages
    PROVE  /\ Others \in Int
           /\ Total(InDeque(k), Workers) + Total(reserved, Workers) <= InDeque(k)[w] + Others
<1>1. Batch \in Nat \ {0} /\ Cardinality(Workers) \in Nat \ {0} /\ IsFiniteSet(Workers)
  BY BatchType, ConstantTypes
<1>2. /\ k \in Int /\ k <= Oldest /\ Oldest \in Int /\ Oldest \in Nat
      /\ k < Oldest
  BY BagTypes, ConstantTypes
<1> DEFINE both == [v \in Workers |-> InDeque(k)[v] + reserved[v]]
<1>3. \A v \in Workers : /\ InDeque(k)[v] \in Nat /\ reserved[v] \in Nat
                         /\ InDeque(k)[v] = Young(deque[v], k)
  BY <1>2, CountTypes DEF TypeOK
<1>4. \A v \in Workers : /\ Young(deque[v], k) <= Young(deque[v], Oldest)
                         /\ Young(deque[v], Oldest) \in Nat
  <2>1. SUFFICES ASSUME NEW v \in Workers
                 PROVE  /\ Young(deque[v], k) <= Young(deque[v], Oldest)
                        /\ Young(deque[v], Oldest) \in Nat
    OBVIOUS
  <2>2. deque[v] \in Bags(0 .. Oldest)  BY BagTypes
  <2>3. Oldest <= Oldest  BY <1>2
  <2>4. Young(deque[v], Oldest) \in Nat  BY <1>2, <2>2, <2>3, YoungType
  <2>5. Young(deque[v], k) <= Young(deque[v], Oldest)
    BY <1>2, <2>2, <2>3, YoungMonotone
  <2>6. QED  BY <2>4, <2>5
<1>5. \A v \in Workers : both[v] \in Nat /\ both[v] <= Batch
  BY <1>1, <1>3, <1>4 DEF QuotaInv
<1>6. \A v \in Workers : both[v] = InDeque(k)[v] + reserved[v]  OBVIOUS
<1> HIDE DEF both
<1>7. Total(both, Workers) = Total(InDeque(k), Workers) + Total(reserved, Workers)
  <2>1. \A v \in Workers : InDeque(k)[v] \in Nat  BY <1>3
  <2>2. \A v \in Workers : reserved[v] \in Nat  BY <1>3
  <2>3. QED  BY <1>1, <1>6, <2>1, <2>2, TotalSum
<1>8. Total(both, Workers) <= both[w] + (Cardinality(Workers) - 1) * Batch
  <2>1. \A v \in Workers : both[v] \in Nat  BY <1>5
  <2>2. \A v \in Workers \ {w} : both[v] <= Batch  BY <1>5
  <2>3. Batch \in Nat  BY <1>1
  <2>4. QED  BY <1>1, <2>1, <2>2, <2>3, TotalBoundExcept
<1>9. both[w] = InDeque(k)[w]  BY <1>3, <1>6
<1>10. Others \in Int  BY <1>1 DEF Others
<1>11. QED  BY <1>7, <1>8, <1>9, <1>10 DEF Others

\* What is granted and what is reserved in the last 5 hours.
LEMMA OvershootStep == ASSUME Inv, [Next]_vars  PROVE OvershootInv'
<1> DEFINE k == TTL["5h"] - 1
<1>1. TypeOK /\ TypeOK' /\ OvershootInv /\ NothingForgotten /\ QuotaInv /\ PurgedInv
  BY NextTypes DEF Inv
<1>2. /\ k \in Ages /\ k \in WindowAges("5h") /\ "5h" \in Windows /\ Limit["5h"] \in Nat
      /\ k \in Int /\ k < Oldest /\ Others \in Int
  BY ConstantTypes, BatchType DEF Ages, WindowAges, Oldest, Others
<1>3. /\ OvershootInv <=> Total(Given(k), Workers) + Total(reserved, Workers)
                              <= Limit["5h"] + Others + refunds
      /\ OvershootInv' <=> Total(Given(k)', Workers) + Total(reserved', Workers)
                              <= Limit["5h"] + Others + refunds'
  BY DEF OvershootInv, Others, Batch
<1>4. k = TTL["5h"] - 1  OBVIOUS
<1> HIDE DEF k
<1>5. /\ Given(k) \in Counters /\ Given(k)' \in Counters
      /\ reserved \in Counters /\ reserved' \in Counters /\ refunds \in Nat
  BY <1>1, <1>2, StepTypes DEF TypeOK, Counters
<1>6. /\ Total(Given(k), Workers) \in Nat /\ Total(Given(k)', Workers) \in Nat
      /\ Total(reserved, Workers) \in Nat /\ Total(reserved', Workers) \in Nat
  BY <1>5, CountersTotal
<1>7. \A w \in Workers : /\ Given(k)[w] \in Nat /\ Given(k)'[w] \in Nat
                         /\ reserved[w] \in Nat /\ reserved'[w] \in Nat
  BY <1>5 DEF Counters
<1>8. ASSUME NEW w \in Workers, \A v \in Workers \ {w} : reserved'[v] = reserved[v]
      PROVE  Total(reserved', Workers) = Total(reserved, Workers) - reserved[w] + reserved'[w]
  BY <1>5, <1>8, TotalWith
<1>9. ASSUME NEW w \in Workers, \A v \in Workers \ {w} : Given(k)'[v] = Given(k)[v]
      PROVE  Total(Given(k)', Workers)
                 = Total(Given(k), Workers) - Given(k)[w] + Given(k)'[w]
  BY <1>5, <1>9, TotalWith
<1>10. ASSUME NEW w \in Workers,
              DenyLocal(w) \/ Degrade(w) \/ AnswerLost(w) \/ PrefetchDenied(w)
       PROVE  OvershootInv'
  <2>1. granted' = granted /\ reserved' = reserved /\ refunds' = refunds
    BY <1>10 DEF DenyLocal, Degrade, AnswerLost, PrefetchDenied, boundVars, historyVars
  <2>2. Given(k)' = Given(k)  BY <2>1 DEF Given
  <2>3. QED  BY <1>1, <1>3, <2>1, <2>2
<1>11. ASSUME NEW w \in Workers, Consume(w)  PROVE OvershootInv'
  <2>1. /\ Given(k)' = [Given(k) EXCEPT ![w] = @ + 1]
        /\ reserved' = [reserved EXCEPT ![w] = @ - 1] /\ refunds' = refunds
    BY <1>1, <1>2, <1>11, GrantCounts DEF Consume, boundVars
  <2>2. /\ \A v \in Workers \ {w} : Given(k)'[v] = Given(k)[v]
        /\ \A v \in Workers \ {w} : reserved'[v] = reserved[v]
        /\ Given(k)'[w] = Given(k)[w] + 1 /\ reserved'[w] = reserved[w] - 1
    BY <1>5, <2>1 DEF Counters
  <2>3. /\ Total(reserved', Workers) = Total(reserved, Workers) - reserved[w] + reserved'[w]
        /\ Total(Given(k)', Workers)
               = Total(Given(k), Workers) - Given(k)[w] + Given(k)'[w]
    BY <1>8, <1>9, <2>2
  <2>4. QED  BY <1>1, <1>2, <1>3, <1>5, <1>6, <1>7, <2>1, <2>2, <2>3
<1>12. ASSUME NEW w \in Workers, PrefetchGranted(w)  PROVE OvershootInv'
  <2>1. /\ Given(k)' = [Given(k) EXCEPT ![w] = @ + 1]
        /\ reserved' = [reserved EXCEPT ![w] = Quota(w) - 1] /\ refunds' = refunds
        /\ reserved[w] = 0
    BY <1>1, <1>2, <1>12, GrantCounts DEF PrefetchGranted, NeedsRedis, Quota, boundVars
  <2>2. /\ \A v \in Workers \ {w} : Given(k)'[v] = Given(k)[v]
        /\ \A v \in Workers \ {w} : reserved'[v] = reserved[v]
        /\ Given(k)'[w] = Given(k)[w] + 1 /\ reserved'[w] = Quota(w) - 1
    BY <1>5, <2>1 DEF Counters
  <2>3. /\ Total(reserved', Workers) = Total(reserved, Workers) - reserved[w] + reserved'[w]
        /\ Total(Given(k)', Workers)
               = Total(Given(k), Workers) - Given(k)[w] + Given(k)'[w]
    BY <1>8, <1>9, <2>2
  <2>4. Total(Given(k), Workers)
            <= InRedis("5h", k) + Total(InDeque(k), Workers) + refunds
    BY <1>1, <1>2 DEF NothingForgotten
  <2>5. Total(InDeque(k), Workers) + Total(reserved, Workers) <= InDeque(k)[w] + Others
    BY <1>1, <1>2, <2>1, OthersBound
  <2>6. /\ Quota(w) \in Nat /\ Quota(w) <= Limit["5h"] - Counts(w)["5h"]
        /\ Counts(w)["5h"] = InRedis("5h", k) + InDeque(k)[w]
    BY <1>1, <1>2, <1>4, <1>12, QuotaFacts, CountsFacts DEF PrefetchGranted
  <2>7. /\ InRedis("5h", k) \in Nat /\ InDeque(k)[w] \in Nat
        /\ InDeque(k) \in Counters
    BY <1>1, <1>2, StepTypes
  <2>8. Total(InDeque(k), Workers) \in Nat  BY <2>7, CountersTotal
  <2>9. Total(Given(k)', Workers) + Total(reserved', Workers)
            <= Limit["5h"] + Others + refunds
    BY <1>2, <1>5, <1>6, <1>7, <2>1, <2>2, <2>3, <2>4, <2>5, <2>6, <2>7, <2>8
  <2>10. QED  BY <1>3, <2>1, <2>9
<1>13. ASSUME NEW w \in Workers, NEW a \in Ages, Refund(w, a)  PROVE OvershootInv'
  <2>1. Given(k)' = [Given(k) EXCEPT ![w] = @ - (IF a <= k THEN 1 ELSE 0)]
    BY <1>1, <1>2, <1>13, RefundCounts
  <2>2. /\ \A v \in Workers \ {w} : Given(k)'[v] = Given(k)[v]
        /\ Given(k)'[w] = Given(k)[w] - (IF a <= k THEN 1 ELSE 0)
    BY <1>5, <2>1 DEF Counters
  <2>3. Total(Given(k)', Workers) <= Total(Given(k), Workers)
    <3>1. Total(Given(k)', Workers)
              = Total(Given(k), Workers) - Given(k)[w] + Given(k)'[w]
      BY <1>9, <2>2
    <3>2. Given(k)'[w] <= Given(k)[w]  BY <1>7, <2>2
    <3>3. QED  BY <1>6, <1>7, <3>1, <3>2
  <2>4. refunds' = refunds + 1  BY <1>13 DEF Refund
  <2>5. Total(reserved', Workers) <= Total(reserved, Workers) + 1
    <3>1. CASE reserved' = reserved  BY <1>6, <3>1
    <3>2. CASE reserved' = [reserved EXCEPT ![w] = @ + 1]
      <4>1. /\ \A v \in Workers \ {w} : reserved'[v] = reserved[v]
            /\ reserved'[w] = reserved[w] + 1
        BY <1>5, <3>2 DEF Counters
      <4>2. Total(reserved', Workers) = Total(reserved, Workers) - reserved[w] + reserved'[w]
        BY <1>8, <4>1
      <4>3. QED  BY <1>6, <1>7, <4>1, <4>2
    <3>3. QED  BY <1>1, <1>2, <1>13, <3>1, <3>2, RefundedCounts
  <2>6. QED  BY <1>1, <1>2, <1>3, <1>5, <1>6, <2>3, <2>4, <2>5
<1>14. ASSUME Tick  PROVE OvershootInv'
  <2>1. Given(k)' = Given(k - 1) /\ reserved' = reserved /\ refunds' = refunds
    BY <1>1, <1>2, <1>14, TickCounts DEF Tick, boundVars
  <2>2. \A w \in Workers : Given(k)'[w] <= Given(k)[w]
    <3>1. SUFFICES ASSUME NEW w \in Workers
                   PROVE  Young(granted[w], k - 1) <= Young(granted[w], k)
      BY <2>1 DEF Given
    <3>2. /\ granted[w] \in Bags(0 .. Oldest - 1) /\ Oldest - 1 \in Nat /\ k <= Oldest - 1
          /\ k - 1 \in Int /\ k - 1 <= k
      BY <1>1, <1>2, BagTypes, ConstantTypes
    <3>3. QED  BY <1>2, <3>2, YoungMonotone
  <2>3. Total(Given(k)', Workers) <= Total(Given(k), Workers)
    <3>1. \A w \in Workers : Given(k)'[w] \in Nat  BY <1>7
    <3>2. \A w \in Workers : Given(k)[w] \in Nat  BY <1>7
    <3>3. IsFiniteSet(Workers)  BY ConstantTypes
    <3>4. QED  BY <2>2, <3>1, <3>2, <3>3, TotalSmaller
  <2>4. QED  BY <1>1, <1>2, <1>3, <1>5, <1>6, <2>1, <2>3
<1>15. QED
  BY <1>1, <1>10, <1>11, <1>12, <1>13, <1>14, StepKinds, QuietPreserves DEF Inv

-----------------------------------------------------------------------------
(* Theorems *)

LEMMA InitInv == Init => Inv
<1>1. SUFFICES ASSUME Init  PROVE Inv
  OBVIOUS
<1>2. TypeOK  BY <1>1, InitTypes
<1>3. /\ Ages = 0 .. Oldest - 1 /\ DequeAges = 0 .. Oldest /\ Oldest - 1 \in Nat
      /\ Oldest \in Nat /\ WindowAges("5h") = 0 .. TTL["5h"] - 1 /\ TTL["5h"] - 1 \in Nat
      /\ TTL["5h"] - 1 \in Int /\ TTL["5h"] - 1 \in Ages /\ Oldest \in Int
      /\ "5h" \in Windows /\ Batch \in Nat \ {0} /\ FallbackLimit \in Nat \ {0}
      /\ Limit["5h"] \in Nat /\ Cardinality(Workers) \in Nat \ {0}
      /\ \A i \in Windows : WindowAges(i) \subseteq Ages
  BY <1>2, BagTypes, ConstantTypes, BatchType, FallbackLimitType, AgesTypes DEF WindowAges
<1>4. \A n \in Nat, m \in Int : m <= n => Young(Empty(0 .. n), m) = 0
  BY YoungOfEmpty
<1>5. ASSUME NEW k \in Ages
      PROVE  /\ \A w \in Workers : InDeque(k)[w] = 0 /\ Given(k)[w] = 0
             /\ \A i \in Windows : InRedis(i, k) = 0 /\ LeftOver(i, k) = 0
  <2>1. k \in Int /\ k <= Oldest - 1 /\ k <= Oldest  BY <1>3
  <2>2. Young(Empty(Ages), k) = 0 /\ Young(Empty(DequeAges), k) = 0
    BY <1>3, <1>4, <2>1
  <2>3. QED  BY <1>1, <2>2 DEF Init, InDeque, Given, InRedis, LeftOver
<1>6. \A S \in SUBSET Workers, k \in Ages :
          Total(InDeque(k), S) = 0 /\ Total(Given(k), S) = 0
  <2>1. SUFFICES ASSUME NEW S \in SUBSET Workers, NEW k \in Ages
                 PROVE  Total(InDeque(k), S) = 0 /\ Total(Given(k), S) = 0
    OBVIOUS
  <2>2. \A w \in S : InDeque(k)[w] = 0  BY <1>5
  <2>3. \A w \in S : Given(k)[w] = 0  BY <1>5
  <2>4. QED  BY <2>2, <2>3, TotalZero
<1>7. PurgedInv  BY <1>1 DEF Init, PurgedInv, Empty
<1>8. Dominance  BY <1>5 DEF Dominance
<1>9. Covered  BY <1>3, <1>5, <1>6 DEF Covered
<1>10. refunds = 0 /\ Workers \in SUBSET Workers  BY <1>1 DEF Init
<1>11. NothingForgotten
  BY <1>3, <1>5, <1>6, <1>10 DEF NothingForgotten
<1>12. \A w \in Workers : Young(deque[w], Oldest) = 0 /\ reserved[w] = 0
  BY <1>1, <1>3, <1>4 DEF Init
<1>13. QuotaInv  BY <1>3, <1>12 DEF QuotaInv
<1>14. Total(reserved, Workers) = 0  BY <1>12, TotalZero
<1>15. OvershootInv
  <2>1. Total(Given(TTL["5h"] - 1), Workers) = 0  BY <1>3, <1>6, <1>10
  <2>2. (Cardinality(Workers) - 1) * Batch >= 0  BY <1>3
  <2>3. QED  BY <1>3, <1>10, <1>14, <2>1, <2>2 DEF OvershootInv
<1>16. SnapshotInv  BY <1>1 DEF Init, SnapshotInv
<1>17. FallbackInv
  <2>1. \A w \in Workers : Young(fallback[w], TTL["5h"] - 1) = 0
    BY <1>1, <1>3, <1>4 DEF Init
  <2>2. QED  BY <1>3, <2>1 DEF FallbackInv
<1>18. LeftOverInv  BY <1>3, <1>5, <1>10 DEF LeftOverInv
<1>19. QED
  BY <1>2, <1>7, <1>8, <1>9, <1>11, <1>13, <1>15, <1>16, <1>17, <1>18 DEF Inv

LEMMA InvHolds == Spec => []Inv
<1>1. Inv /\ [Next]_vars => Inv'
  <2>1. SUFFICES ASSUME Inv, [Next]_vars  PROVE Inv'
    OBVIOUS
  <2>2. TypeOK'  BY <2>1, NextTypes DEF Inv
  <2>3. QED
    BY <2>1, <2>2, PurgedStep, DominanceStep, CoveredStep, LeftOverStep, NothingForgottenStep, QuotaStep,
       OvershootStep, SnapshotStep, FallbackStep
       DEF Inv
<1>2. QED  BY <1>1, InitInv, PTL DEF Spec

-----------------------------------------------------------------------------
(* What the invariant says of a whole window *)

\* All that a window counts, and the accounts of Covered for it.
LEMMA WindowFacts ==
    ASSUME Inv, NEW i \in Windows, NEW k, k = TTL[i] - 1
    PROVE  /\ k \in Ages /\ k \in WindowAges(i) /\ k \in Int /\ k < Oldest
           /\ Recent(i) = Total(Given(k), Workers)
           /\ Recent(i) \in Nat
           /\ InRedis(i, k) \in Nat
           /\ InDeque(k) \in Counters
           /\ Total(InDeque(k), Workers) \in Nat
           /\ GivenUp(i) \in Nat /\ GivenUp(i) = LeftOver(i, k) /\ GivenUp(i) <= refunds
           /\ lost_answers = 0
                  => InRedis(i, k) + Total(InDeque(k), Workers) <= Recent(i) + GivenUp(i)
<1>1. TypeOK /\ Covered /\ LeftOverInv  BY DEF Inv
<1>2. k \in Ages /\ k \in WindowAges(i) /\ k \in Int /\ k < Oldest
  BY ConstantTypes DEF Ages, WindowAges, Oldest
<1>3. Recent(i) = Total(Given(k), Workers)
  <2> DEFINE recent == [w \in Workers |-> Count(granted[w], WindowAges(i))]
  <2>1. \A w \in Workers : recent[w] = Given(k)[w]  BY DEF Given, Count, Young, WindowAges
  <2>2. Recent(i) = Total(recent, Workers)  BY DEF Recent
  <2> HIDE DEF recent
  <2>3. QED  BY <2>1, <2>2, TotalSame
<1>4. /\ InDeque(k) \in [Workers -> Nat] /\ Given(k) \in [Workers -> Nat]
      /\ InRedis(i, k) \in Nat /\ LeftOver(i, k) \in Nat
  BY <1>1, <1>2, CountTypes
<1>5. InDeque(k) \in Counters /\ Given(k) \in Counters  BY <1>4 DEF Counters
<1>6. Workers \in SUBSET Workers  OBVIOUS
<1>7. Total(InDeque(k), Workers) \in Nat /\ Total(Given(k), Workers) \in Nat
  BY <1>5, <1>6, CountersTotal
<1>8. GivenUp(i) = LeftOver(i, k) /\ LeftOver(i, k) <= refunds
  BY <1>1, <1>2 DEF GivenUp, Count, LeftOver, Young, WindowAges, LeftOverInv
<1>9. ASSUME lost_answers = 0
      PROVE  InRedis(i, k) + Total(InDeque(k), Workers) <= Recent(i) + GivenUp(i)
  <2>1. {} \in SUBSET Behind(k) /\ Workers \ {} = Workers  OBVIOUS
  <2>2. InRedis(i, k) + Total(InDeque(k), Workers \ {})
            <= Total(Given(k), Workers \ {}) + LeftOver(i, k)
    BY <1>1, <1>2, <1>9, <2>1 DEF Covered
  <2>3. QED  BY <1>3, <1>8, <2>1, <2>2
<1>10. QED  BY <1>2, <1>3, <1>4, <1>5, <1>7, <1>8, <1>9

\* One worker's deque is part of that account.
LEMMA DequeInTotal ==
    ASSUME NEW w \in Workers, NEW f, f \in Counters
    PROVE  f[w] \in Nat /\ f[w] <= Total(f, Workers)
<1>1. \A v \in Workers : f[v] \in Nat  BY DEF Counters
<1>2. IsFiniteSet(Workers)  BY ConstantTypes
<1>3. QED  BY <1>1, <1>2, TotalPositive

\* In any 5 hours the workers admit at most (workers - 1) * batch_size requests beyond the
\* limit (README, line 184), and one more for each refund, for any number of workers, any
\* lengths of the windows and however long prefetched quota is kept.
THEOREM ShortWindowOvershootHolds == Spec => []ShortWindowOvershoot
<1>1. ASSUME Inv  PROVE ShortWindowOvershoot
  <2> DEFINE k == TTL["5h"] - 1
  <2>1. "5h" \in Windows /\ TypeOK /\ OvershootInv  BY <1>1, ConstantTypes DEF Inv
  <2>2. Recent("5h") = Total(Given(k), Workers) /\ Recent("5h") \in Nat
    BY <1>1, <2>1, WindowFacts
  <2>3. reserved \in Counters /\ Workers \in SUBSET Workers  BY <2>1 DEF TypeOK, Counters
  <2>4. Total(reserved, Workers) \in Nat  BY <2>3, CountersTotal
  <2>5. Total(Given(k), Workers) + Total(reserved, Workers)
            <= Limit["5h"] + Others + refunds
    BY <2>1 DEF OvershootInv, Others
  <2>6. Limit["5h"] \in Nat /\ Others \in Int /\ refunds \in Nat
    BY <2>1, ConstantTypes, BatchType DEF Others, TypeOK
  <2> HIDE DEF k
  <2>7. Recent("5h") <= Limit["5h"] + Others + refunds
    BY <2>2, <2>4, <2>5, <2>6
  <2>8. QED  BY <2>7 DEF ShortWindowOvershoot, OvershootOf, Others
<1>2. QED  BY <1>1, InvHolds, PTL

\* A refund takes whatever timestamp is the newest, and gives up when Redis fails; even so, a
\* window holds no more than the requests admitted within it and one for each refund given
\* up, and that one only until its request leaves the window, for any number of workers and
\* any lengths of the windows.
THEOREM RefundErrorHealsHolds == Spec => []RefundErrorHeals
<1>1. ASSUME Inv, NEW i \in Windows, lost_answers = 0
      PROVE  Held(i) <= Recent(i) + GivenUp(i)
  <2> DEFINE k == TTL[i] - 1
             held == [w \in Workers |-> Count(Trimmed(w), DequeAges)]
  <2>1. TypeOK /\ PurgedInv  BY <1>1 DEF Inv
  <2>2. k = TTL[i] - 1  OBVIOUS
  <2>3. /\ Ages = 0 .. Oldest - 1 /\ DequeAges = 0 .. Oldest
        /\ k \in Int /\ k <= Oldest - 1 /\ k <= Oldest
        /\ TTL["5h"] - 1 \in Int /\ TTL["5h"] - 1 <= k
        /\ Oldest - 1 \in Int /\ Oldest \in Nat
        /\ \A a \in k + 1 .. Oldest - 1 : a \in Ages /\ a >= TTL[i]
    <3>1. /\ TTL[i] \in Nat \ {0} /\ TTL["5h"] \in Nat \ {0} /\ Oldest \in Nat \ {0}
          /\ TTL["5h"] <= TTL[i] /\ TTL[i] <= Oldest
      BY ConstantTypes
    <3>2. Ages = 0 .. Oldest - 1 /\ DequeAges = 0 .. Oldest  BY DEF Ages, DequeAges, Oldest
    <3>3. \A a \in k + 1 .. Oldest - 1 : a \in Ages /\ a >= TTL[i]  BY <3>1, <3>2
    <3>4. QED  BY <3>1, <3>2, <3>3
  <2> HIDE DEF k
  <2>4. /\ Recent(i) \in Nat /\ InRedis(i, k) \in Nat /\ InDeque(k) \in Counters
        /\ Total(InDeque(k), Workers) \in Nat /\ GivenUp(i) \in Nat
        /\ InRedis(i, k) + Total(InDeque(k), Workers) <= Recent(i) + GivenUp(i)
    BY <1>1, <2>2, WindowFacts
  <2>5. Count(zset[i], Ages) = InRedis(i, k)
    <3>1. \A a \in k + 1 .. Oldest - 1 : zset[i][a] = 0  BY <2>1, <2>3 DEF PurgedInv
    <3>2. Young(zset[i], Oldest - 1) = Young(zset[i], k)  BY <2>3, <3>1, YoungOfAll
    <3>3. QED  BY <2>3, <3>2 DEF Count, Young, InRedis
  <2>6. Held(i) = InRedis(i, k) + Total(held, Workers)  BY <2>5 DEF Held
  <2>7. ASSUME NEW w \in Workers
        PROVE  held[w] \in Nat /\ held[w] <= InDeque(k)[w] /\ InDeque(k)[w] \in Nat
    <3>1. held[w] = Young(Trimmed(w), Oldest)  BY <2>3 DEF Count, Young
    <3>2. Young(Trimmed(w), Oldest) = Young(deque[w], TTL["5h"] - 1)
      BY <2>1, TrimmedFacts
    <3>3. deque[w] \in Bags(0 .. Oldest) /\ TTL["5h"] - 1 <= Oldest  BY <2>1, <2>3, BagTypes
    <3>4. Young(deque[w], TTL["5h"] - 1) <= Young(deque[w], k)
      BY <2>3, <3>3, YoungMonotone
    <3>5. Young(deque[w], TTL["5h"] - 1) \in Nat  BY <2>3, <3>3, YoungType
    <3>6. QED  BY <2>4, <3>1, <3>2, <3>4, <3>5 DEF InDeque, Counters
  <2> HIDE DEF held
  <2>8. Total(held, Workers) <= Total(InDeque(k), Workers)
    <3>1. IsFiniteSet(Workers)  BY ConstantTypes
    <3>2. QED  BY <2>7, <3>1, TotalSmaller
  <2>9. Total(held, Workers) \in Nat
    <3>1. IsFiniteSet(Workers)  BY ConstantTypes
    <3>2. \A w \in Workers : held[w] \in Nat  BY <2>7
    <3>3. QED  BY <3>1, <3>2, TotalType
  <2>10. QED  BY <2>4, <2>6, <2>8, <2>9
<1>2. Inv => RefundErrorHeals  BY <1>1 DEF RefundErrorHeals
<1>3. QED  BY <1>2, InvHolds, PTL

\* A request is refused only when a window has really been used up, by what all workers
\* admitted within it, as long as no answer was lost: neither expired timestamps nor an
\* outdated snapshot refuses one.
THEOREM RefusedOnlyWhenUsedUpHolds == Spec => []RefusedOnlyWhenUsedUp
<1>1. ASSUME Inv, lost_answers = 0, NEW w \in Workers, NEW i \in Exceeded(w)
      PROVE  Recent(i) + refunds >= Limit[i]
  <2> DEFINE k == TTL[i] - 1
             h == TTL["5h"] - 1
  <2>1. TypeOK /\ PurgedInv /\ i \in Windows /\ "5h" \in Windows
    BY <1>1, ConstantTypes DEF Inv, Exceeded
  <2>2. k = TTL[i] - 1 /\ h = TTL["5h"] - 1  OBVIOUS
  <2>3. Counts(w)[i] >= Limit[i] /\ Counts(w)[i] \in Nat /\ Limit[i] \in Nat
    BY <1>1, <2>1, CountsFacts, ConstantTypes DEF Exceeded
  <2>4. Counts(w)[i] = InRedis(i, k) + InDeque(h)[w]  BY <2>1, CountsFacts
  <2>5. h \in Int /\ k \in Int /\ h <= k /\ k <= Oldest /\ Oldest \in Nat
    BY <2>1, ConstantTypes
  <2> HIDE DEF k, h
  <2>6. /\ Recent(i) \in Nat /\ InRedis(i, k) \in Nat /\ InDeque(k) \in Counters
        /\ Total(InDeque(k), Workers) \in Nat
        /\ GivenUp(i) \in Nat /\ GivenUp(i) <= refunds
        /\ InRedis(i, k) + Total(InDeque(k), Workers) <= Recent(i) + GivenUp(i)
    BY <1>1, <2>1, <2>2, WindowFacts
  <2>7. InDeque(h)[w] <= InDeque(k)[w]
    <3>1. deque[w] \in Bags(0 .. Oldest)  BY <2>1, BagTypes
    <3>2. Young(deque[w], h) <= Young(deque[w], k)  BY <2>5, <3>1, YoungMonotone
    <3>3. QED  BY <3>2 DEF InDeque
  <2>8. InDeque(k)[w] \in Nat /\ InDeque(k)[w] <= Total(InDeque(k), Workers)
    BY <2>6, DequeInTotal
  <2>9. InDeque(h) \in Counters  BY <1>1, <2>1, <2>2, WindowFacts
  <2>10. InDeque(h)[w] \in Nat  BY <2>9, DequeInTotal
  <2>11. refunds \in Nat  BY <2>1 DEF TypeOK
  <2>12. QED  BY <2>3, <2>4, <2>6, <2>7, <2>8, <2>10, <2>11
<1>2. ASSUME Inv, lost_answers = 0, NEW w \in Workers, LocallyExceeded(w)
      PROVE  Recent("5h") + refunds >= Limit["5h"]
  <2> DEFINE h == TTL["5h"] - 1
  <2>1. TypeOK /\ SnapshotInv /\ "5h" \in Windows
    BY <1>2, ConstantTypes DEF Inv
  <2>2. h = TTL["5h"] - 1  OBVIOUS
  <2>3. Limit["5h"] + LeftOver("5h", h) <= rem5h[w] + InRedis("5h", h) + refunds
    BY <1>2, <2>1 DEF SnapshotInv, LocallyExceeded
  <2>4. Count(Trimmed(w), DequeAges) = InDeque(h)[w]
    BY <2>1, BagTypes, TrimmedFacts DEF Count, Young, InDeque
  <2>5. rem5h[w] <= InDeque(h)[w]  BY <1>2, <2>4 DEF LocallyExceeded
  <2> HIDE DEF h
  <2>6. /\ Recent("5h") \in Nat /\ InRedis("5h", h) \in Nat /\ InDeque(h) \in Counters
        /\ Total(InDeque(h), Workers) \in Nat
        /\ GivenUp("5h") \in Nat /\ GivenUp("5h") = LeftOver("5h", h)
        /\ InRedis("5h", h) + Total(InDeque(h), Workers) <= Recent("5h") + GivenUp("5h")
    BY <1>2, <2>1, <2>2, WindowFacts
  <2>7. InDeque(h)[w] \in Nat /\ InDeque(h)[w] <= Total(InDeque(h), Workers)
    BY <2>6, DequeInTotal
  <2>8. refunds \in Nat /\ rem5h[w] \in Int /\ Limit["5h"] \in Nat
    BY <2>1, ConstantTypes DEF TypeOK
  <2>9. QED  BY <2>3, <2>5, <2>6, <2>7, <2>8
<1>3. Inv => RefusedOnlyWhenUsedUp
  <2>1. SUFFICES ASSUME Inv, NEW w \in Workers, WouldRefuse(w), lost_answers = 0
                 PROVE  \E i \in Windows : Recent(i) + refunds >= Limit[i]
    BY DEF RefusedOnlyWhenUsedUp
  <2>2. CASE LocallyExceeded(w)  BY <1>2, <2>1, <2>2, ConstantTypes
  <2>3. CASE Exceeded(w) # {}
    <3>1. PICK i \in Exceeded(w) : TRUE  BY <2>3
    <3>2. i \in Windows  BY <3>1 DEF Exceeded
    <3>3. QED  BY <1>1, <2>1, <3>1, <3>2
  <2>4. QED  BY <2>1, <2>2, <2>3 DEF WouldRefuse
<1>4. QED  BY <1>3, InvHolds, PTL

\* Each worker divides the limit by the number of workers, as the default does, or by more.
DividedEnough == LimitDivisor = 0 \/ LimitDivisor >= Cardinality(Workers)

\* Together the fallback windows of all workers then let through no more than the limit, or
\* one request each where the limit is smaller than that.
LEMMA FallbackLimitsTogether ==
    ASSUME DividedEnough
    PROVE  Cardinality(Workers) * FallbackLimit <= Max({Cardinality(Workers), Limit["5h"]})
<1> DEFINE n == Cardinality(Workers)
           l == Limit["5h"]
           d == IF LimitDivisor = 0 THEN Cardinality(Workers) ELSE LimitDivisor
           share == l \div d
<1>1. n \in Nat \ {0} /\ l \in Nat \ {0} /\ d \in Nat \ {0} /\ n <= d
  BY ConstantTypes DEF DividedEnough
<1>2. FallbackLimit = Max({1, share})  BY DEF FallbackLimit
<1> HIDE DEF n, l, d
<1>3. share \in Nat /\ n * share <= l  BY <1>1
<1> HIDE DEF share
<1>4. FallbackLimit = IF share >= 1 THEN share ELSE 1  BY <1>2, <1>3 DEF Max
<1>5. Max({n, l}) = IF n >= l THEN n ELSE l  BY <1>1 DEF Max
<1>6. n * FallbackLimit <= Max({n, l})
  <2>1. CASE share >= 1  BY <1>1, <1>3, <1>4, <1>5, <2>1
  <2>2. CASE ~(share >= 1)
    <3>1. n * FallbackLimit = n  BY <1>1, <1>4, <2>2
    <3>2. QED  BY <1>1, <1>5, <3>1
  <2>3. QED  BY <2>1, <2>2
<1>7. QED  BY <1>6 DEF n, l

\* When Redis is away, the fallback windows add to the overshoot of the quota no more than
\* the limit once more (README, line 185), provided that no worker is configured to take
\* more than its share.
THEOREM OutageOvershootHolds ==
    ASSUME DividedEnough
    PROVE  Spec => []OutageOvershoot
<1>1. ASSUME Inv  PROVE OutageOvershoot
  <2> DEFINE inFallback == [w \in Workers |-> Count(fallback[w], WindowAges("5h"))]
             k == TTL["5h"] - 1
  <2>1. "5h" \in Windows /\ TypeOK /\ OvershootInv /\ FallbackInv
    BY <1>1, ConstantTypes DEF Inv
  <2>2. Recent("5h") = Total(Given(k), Workers) /\ Recent("5h") \in Nat
    BY <1>1, <2>1, WindowFacts
  <2>3. reserved \in Counters /\ Workers \in SUBSET Workers  BY <2>1 DEF TypeOK, Counters
  <2>4. Total(reserved, Workers) \in Nat  BY <2>3, CountersTotal
  <2>5. Total(Given(k), Workers) + Total(reserved, Workers)
            <= Limit["5h"] + Others + refunds
    BY <2>1 DEF OvershootInv, Others
  <2>6. Limit["5h"] \in Nat /\ Others \in Int /\ refunds \in Nat
        /\ FallbackLimit \in Nat \ {0} /\ IsFiniteSet(Workers)
        /\ Cardinality(Workers) \in Nat
    BY <2>1, ConstantTypes, BatchType, FallbackLimitType DEF Others, TypeOK
  <2>7. \A w \in Workers : inFallback[w] \in Nat /\ inFallback[w] <= FallbackLimit
    <3>1. SUFFICES ASSUME NEW w \in Workers
                   PROVE  inFallback[w] \in Nat /\ inFallback[w] <= FallbackLimit
      OBVIOUS
    <3>2. inFallback[w] = Young(fallback[w], k)  BY DEF Count, Young, WindowAges
    <3>3. fallback[w] \in Bags(0 .. k) /\ k \in Nat /\ k \in Int /\ k <= k
      BY <2>1, BagTypes, ConstantTypes
    <3>4. Young(fallback[w], k) \in Nat  BY <3>3, YoungType
    <3>5. QED  BY <2>1, <3>2, <3>4 DEF FallbackInv
  <2> HIDE DEF inFallback, k
  <2>8. Total(inFallback, Workers) <= Cardinality(Workers) * FallbackLimit
    <3>1. FallbackLimit \in Nat  BY <2>6
    <3>2. QED  BY <2>6, <2>7, <3>1, TotalBound
  <2>9. Total(inFallback, Workers) \in Nat
    <3>1. \A w \in Workers : inFallback[w] \in Nat  BY <2>7
    <3>2. QED  BY <2>6, <3>1, TotalType
  <2>10. /\ Cardinality(Workers) * FallbackLimit \in Nat
         /\ Max({Cardinality(Workers), Limit["5h"]}) \in Int
    BY <2>6 DEF Max
  <2>11. Recent("5h") + Total(inFallback, Workers)
             <= Limit["5h"] + Others + refunds + Max({Cardinality(Workers), Limit["5h"]})
    BY <2>2, <2>4, <2>5, <2>6, <2>8, <2>9, <2>10, FallbackLimitsTogether
  <2>12. QED  BY <2>11 DEF OutageOvershoot, Others, inFallback
<1>2. QED  BY <1>1, InvHolds, PTL
=============================================================================
