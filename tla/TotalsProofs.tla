----------------------------- MODULE TotalsProofs -----------------------------
(* Facts about Total that the proofs of the limiter's invariants use. *)
EXTENDS Totals, FiniteSetTheorems, FunctionTheorems, TLAPS

\* The units of a function on a finite set are finitely many, so their number is a
\* natural number: the counters of all worker processes have a total.
LEMMA TotalType ==
    ASSUME NEW S, IsFiniteSet(S), NEW f, \A x \in S : f[x] \in Nat
    PROVE  /\ IsFiniteSet(Units(f, S))
           /\ Total(f, S) \in Nat
<1> DEFINE Column(x) == {x} \X (1 .. f[x])
           columns == {Column(x) : x \in S}
           column == [x \in S |-> Column(x)]
<1>1. IsFiniteSet(columns)
  <2>1. column \in Surjection(S, columns)
    BY DEF Surjection
  <2>2. QED  BY <2>1, FS_Surjection
<1>2. \A C \in columns : IsFiniteSet(C)
  <2>1. SUFFICES ASSUME NEW x \in S  PROVE IsFiniteSet(Column(x))
    OBVIOUS
  <2>2. IsFiniteSet({x})  BY FS_Singleton
  <2>3. IsFiniteSet(1 .. f[x])  BY FS_Interval
  <2>4. QED  BY <2>2, <2>3, FS_Product
<1>3. IsFiniteSet(UNION columns)
  <2> HIDE DEF columns
  <2> QED  BY <1>1, <1>2, FS_UNION
<1>4. QED  BY <1>3, FS_CardinalityType DEF Units, Total

\* One worker's counter can be taken out of the total.
LEMMA TotalSplit ==
    ASSUME NEW S, IsFiniteSet(S), NEW f, \A x \in S : f[x] \in Nat, NEW w \in S
    PROVE  Total(f, S) = f[w] + Total(f, S \ {w})
<1> DEFINE A == {w} \X (1 .. f[w])
           B == Units(f, S \ {w})
<1>1. Units(f, S) = A \cup B  BY DEF Units
<1>2. A \cap B = {}  BY DEF Units
<1>3. IsFiniteSet(A) /\ Cardinality(A) = f[w]
  <2>1. IsFiniteSet({w}) /\ Cardinality({w}) = 1  BY FS_Singleton
  <2>2. IsFiniteSet(1 .. f[w]) /\ Cardinality(1 .. f[w]) = f[w]
    BY FS_Interval
  <2>3. QED  BY <2>1, <2>2, FS_Product
<1>4. IsFiniteSet(B) /\ Cardinality(B) \in Nat
  <2>1. IsFiniteSet(S \ {w})  BY FS_RemoveElement
  <2>2. QED  BY <2>1, TotalType DEF Total
<1>5. Cardinality(A \cap B) = 0  BY <1>2, FS_EmptySet
<1> HIDE DEF A, B
<1>6. Cardinality(A \cup B) = Cardinality(A) + Cardinality(B)
  BY <1>3, <1>4, <1>5, FS_Union
<1>7. QED  BY <1>1, <1>3, <1>4, <1>6 DEF Total, B

\* Only the values on S count.
LEMMA TotalSame ==
    ASSUME NEW S, NEW f, NEW g, \A x \in S : g[x] = f[x]
    PROVE  Total(g, S) = Total(f, S)
BY DEF Total, Units

\* A step of one worker changes the total by what it changes that worker's counter.
LEMMA TotalChange ==
    ASSUME NEW S, IsFiniteSet(S), NEW w \in S,
           NEW f, \A x \in S : f[x] \in Nat,
           NEW g, \A x \in S : g[x] \in Nat,
           \A x \in S \ {w} : g[x] = f[x]
    PROVE  Total(g, S) = Total(f, S) - f[w] + g[w]
<1>1. Total(f, S) = f[w] + Total(f, S \ {w})  BY TotalSplit
<1>2. Total(g, S) = g[w] + Total(g, S \ {w})  BY TotalSplit
<1>3. Total(g, S \ {w}) = Total(f, S \ {w})  BY TotalSame
<1>4. IsFiniteSet(S \ {w})  BY FS_RemoveElement
<1>5. Total(f, S \ {w}) \in Nat  BY <1>4, TotalType
<1>6. QED  BY <1>1, <1>2, <1>3, <1>5

\* A counter that no worker has above M totals at most M for each worker.
LEMMA TotalBound ==
    ASSUME NEW S, IsFiniteSet(S), NEW M \in Nat,
           NEW f, \A x \in S : f[x] \in Nat /\ f[x] <= M
    PROVE  Total(f, S) <= Cardinality(S) * M
<1>1. IsFiniteSet(1 .. M) /\ Cardinality(1 .. M) = M  BY FS_Interval
<1>2. IsFiniteSet(S \X (1 .. M)) /\ Cardinality(S \X (1 .. M)) = Cardinality(S) * M
  BY <1>1, FS_Product
<1>3. Units(f, S) \in SUBSET (S \X (1 .. M))
  BY DEF Units
<1>4. QED  BY <1>2, <1>3, FS_Subset DEF Total

\* The other workers' share of a total: M for each of them.
LEMMA TotalBoundExcept ==
    ASSUME NEW S, IsFiniteSet(S), NEW M \in Nat, NEW w \in S,
           NEW f, \A x \in S : f[x] \in Nat, \A x \in S \ {w} : f[x] <= M
    PROVE  Total(f, S) <= f[w] + (Cardinality(S) - 1) * M
<1>1. IsFiniteSet(S \ {w}) /\ Cardinality(S \ {w}) = Cardinality(S) - 1
  BY FS_RemoveElement
<1>2. Total(f, S \ {w}) <= Cardinality(S \ {w}) * M
  BY <1>1, TotalBound
<1>3. Total(f, S) = f[w] + Total(f, S \ {w})  BY TotalSplit
<1>4. Total(f, S \ {w}) \in Nat  BY <1>1, TotalType
<1>5. Cardinality(S) \in Nat  BY FS_CardinalityType
<1>6. (Cardinality(S) - 1) * M \in Int  BY <1>5
<1>7. QED  BY <1>1, <1>2, <1>3, <1>4, <1>6

\* Totals add up.
LEMMA TotalSum ==
    ASSUME NEW S, IsFiniteSet(S),
           NEW f, \A x \in S : f[x] \in Nat,
           NEW g, \A x \in S : g[x] \in Nat,
           NEW h, \A x \in S : h[x] = f[x] + g[x]
    PROVE  Total(h, S) = Total(f, S) + Total(g, S)
<1> DEFINE A == Units(f, S)
           B == UNION {{x} \X (f[x] + 1 .. h[x]) : x \in S}
           C == Units(g, S)
           shift == [u \in C |-> <<u[1], f[u[1]] + u[2]>>]
<1>1. Units(h, S) = A \cup B /\ A \cap B = {}  BY DEF Units
<1>2. IsFiniteSet(A) /\ Cardinality(A) \in Nat  BY TotalType DEF Total
<1>3. IsFiniteSet(C) /\ Cardinality(C) \in Nat  BY TotalType DEF Total
<1>4. shift \in Bijection(C, B)
  <2>1. \A u \in C : /\ u[1] \in S /\ u[2] \in 1 .. g[u[1]]
                      /\ u = <<u[1], u[2]>>
    BY DEF Units
  <2>2. \A u \in C : shift[u] \in B
    <3>1. SUFFICES ASSUME NEW u \in C  PROVE <<u[1], f[u[1]] + u[2]>> \in B
      OBVIOUS
    <3>2. u[1] \in S /\ u[2] \in 1 .. g[u[1]]  BY <2>1
    <3>3. f[u[1]] + u[2] \in f[u[1]] + 1 .. h[u[1]]  BY <3>2
    <3>4. QED  BY <3>2, <3>3
  <2>3. \A u, v \in C : shift[u] = shift[v] => u = v
    <3>1. SUFFICES ASSUME NEW u \in C, NEW v \in C, shift[u] = shift[v]
                   PROVE  u = v
      OBVIOUS
    <3>2. u[1] = v[1] /\ f[u[1]] + u[2] = f[v[1]] + v[2]  BY <3>1
    <3>3. u[2] = v[2]  BY <2>1, <3>2
    <3>4. QED  BY <2>1, <3>2, <3>3
  <2>4. \A b \in B : \E u \in C : shift[u] = b
    <3>1. SUFFICES ASSUME NEW b \in B  PROVE \E u \in C : shift[u] = b
      OBVIOUS
    <3>2. PICK x \in S : b \in {x} \X (f[x] + 1 .. h[x])  OBVIOUS
    <3>3. PICK n \in f[x] + 1 .. h[x] : b = <<x, n>>  BY <3>2
    <3>4. n - f[x] \in 1 .. g[x] /\ f[x] + (n - f[x]) = n  BY <3>3
    <3>5. <<x, n - f[x]>> \in C  BY <3>4 DEF Units
    <3>6. shift[<<x, n - f[x]>>] = b  BY <3>3, <3>4, <3>5
    <3>7. QED  BY <3>5, <3>6
  <2>5. shift \in [C -> B]  BY <2>2
  <2> HIDE DEF shift, B, C
  <2>6. QED  BY <2>3, <2>4, <2>5, Fun_IsBij
<1> HIDE DEF A, B, C, shift
<1>5. IsFiniteSet(B) /\ Cardinality(B) = Cardinality(C)
  <2>1. ExistsBijection(C, B)  BY <1>4 DEF ExistsBijection
  <2>2. QED  BY <2>1, <1>3, FS_Bijection
<1>6. Cardinality(A \cap B) = 0  BY <1>1, FS_EmptySet
<1>7. Cardinality(A \cup B) = Cardinality(A) + Cardinality(B)
  <2>1. Cardinality(A \cup B) = Cardinality(A) + Cardinality(B) - Cardinality(A \cap B)
    BY <1>2, <1>5, FS_Union
  <2>2. Cardinality(B) \in Nat  BY <1>3, <1>5
  <2>3. QED  BY <2>1, <2>2, <1>2, <1>6
<1>8. QED  BY <1>1, <1>5, <1>7 DEF Total, A, C

\* Fewer counters have a smaller total.
LEMMA TotalMonotone ==
    ASSUME NEW T, IsFiniteSet(T), NEW S, S \subseteq T, NEW f, \A x \in T : f[x] \in Nat
    PROVE  Total(f, S) <= Total(f, T)
<1>1. Units(f, S) \in SUBSET Units(f, T)  BY DEF Units
<1>2. IsFiniteSet(Units(f, T))  BY TotalType
<1>3. QED  BY <1>1, <1>2, FS_Subset DEF Total

\* Counters that have moved up by one place, nothing being added.
LEMMA TotalShifted ==
    ASSUME NEW S, NEW T, IsFiniteSet(T), S \subseteq Nat, T \subseteq Nat,
           NEW f, \A x \in T : f[x] \in Nat,
           NEW g, \A x \in S : g[x] = 0 \/ (x - 1 \in T /\ g[x] = f[x - 1])
    PROVE  Total(g, S) <= Total(f, T)
<1> DEFINE moved == [p \in Units(g, S) |-> <<p[1] - 1, p[2]>>]
<1>1. ASSUME NEW p \in Units(g, S)
      PROVE  moved[p] \in Units(f, T) /\ p[1] \in Nat /\ p = <<p[1], p[2]>>
  <2>1. PICK x \in S : p \in {x} \X (1 .. g[x])  BY <1>1 DEF Units
  <2>2. PICK n \in 1 .. g[x] : p = <<x, n>>  BY <2>1
  <2>3. x - 1 \in T /\ n \in 1 .. f[x - 1]  BY <2>1, <2>2
  <2>4. <<x - 1, n>> \in Units(f, T)  BY <2>3 DEF Units
  <2>5. QED  BY <1>1, <2>1, <2>2, <2>4
<1>2. moved \in [Units(g, S) -> Units(f, T)]  BY <1>1
<1>3. ASSUME NEW p \in Units(g, S), NEW q \in Units(g, S), moved[p] = moved[q]
      PROVE  p = q
  <2>1. p[1] - 1 = q[1] - 1 /\ p[2] = q[2]  BY <1>3
  <2>2. p[1] = q[1]  BY <1>1, <1>3, <2>1
  <2>3. QED  BY <1>1, <1>3, <2>1, <2>2
<1>4. moved \in Injection(Units(g, S), Units(f, T))
  BY <1>2, <1>3, Zenon DEF Injection, IsInjective
<1>5. IsFiniteSet(Units(f, T))  BY TotalType
<1>6. QED  BY <1>4, <1>5, FS_Injection DEF Total

\* The same for counters that move to the next place and may grow on the way.
LEMMA TotalShiftedUp ==
    ASSUME NEW S, NEW T, IsFiniteSet(T), S \subseteq Nat, T \subseteq Nat,
           NEW f, \A x \in S : f[x] \in Nat,
           NEW g, \A x \in T : g[x] \in Nat,
           \A x \in S : x + 1 \in T /\ f[x] <= g[x + 1]
    PROVE  Total(f, S) <= Total(g, T)
<1> DEFINE moved == [p \in Units(f, S) |-> <<p[1] + 1, p[2]>>]
<1>1. ASSUME NEW p \in Units(f, S)
      PROVE  moved[p] \in Units(g, T) /\ p[1] \in Nat /\ p = <<p[1], p[2]>>
  <2>1. PICK x \in S : p \in {x} \X (1 .. f[x])  BY <1>1 DEF Units
  <2>2. PICK n \in 1 .. f[x] : p = <<x, n>>  BY <2>1
  <2>3. x + 1 \in T /\ n \in 1 .. g[x + 1]  BY <2>1, <2>2
  <2>4. <<x + 1, n>> \in Units(g, T)  BY <2>3 DEF Units
  <2>5. QED  BY <1>1, <2>1, <2>2, <2>4
<1>2. moved \in [Units(f, S) -> Units(g, T)]  BY <1>1
<1>3. ASSUME NEW p \in Units(f, S), NEW q \in Units(f, S), moved[p] = moved[q]
      PROVE  p = q
  <2>1. p[1] + 1 = q[1] + 1 /\ p[2] = q[2]  BY <1>3
  <2>2. p[1] = q[1]  BY <1>1, <1>3, <2>1
  <2>3. QED  BY <1>1, <1>3, <2>1, <2>2
<1>4. moved \in Injection(Units(f, S), Units(g, T))
  BY <1>2, <1>3, Zenon DEF Injection, IsInjective
<1>5. IsFiniteSet(Units(g, T))  BY TotalType
<1>6. QED  BY <1>4, <1>5, FS_Injection DEF Total

\* Smaller counters have a smaller total.
LEMMA TotalSmaller ==
    ASSUME NEW S, IsFiniteSet(S),
           NEW f, \A x \in S : f[x] \in Nat,
           NEW g, \A x \in S : g[x] \in Nat,
           \A x \in S : f[x] <= g[x]
    PROVE  Total(f, S) <= Total(g, S)
<1>1. Units(f, S) \in SUBSET Units(g, S)  BY DEF Units
<1>2. IsFiniteSet(Units(g, S))  BY TotalType
<1>3. QED  BY <1>1, <1>2, FS_Subset DEF Total

\* Counters that are 0 may be left out.
LEMMA TotalSupport ==
    ASSUME NEW T, NEW S, S \subseteq T, NEW f, \A x \in T \ S : f[x] = 0
    PROVE  Total(f, T) = Total(f, S)
<1>1. \A x \in T \ S : 1 .. f[x] = {}  OBVIOUS
<1>2. Units(f, T) = Units(f, S)  BY <1>1 DEF Units
<1>3. QED  BY <1>2 DEF Total

\* Where no counter counts, there is nothing.
LEMMA TotalZero ==
    ASSUME NEW S, NEW f, \A x \in S : f[x] = 0
    PROVE  Total(f, S) = 0
<1>1. Total(f, S) = Total(f, {})  BY TotalSupport
<1>2. Units(f, {}) = {}  BY DEF Units
<1>3. QED  BY <1>1, <1>2, FS_EmptySet DEF Total

\* A total is 0 only if every counter is.
LEMMA TotalPositive ==
    ASSUME NEW S, IsFiniteSet(S), NEW f, \A x \in S : f[x] \in Nat, NEW x \in S
    PROVE  f[x] <= Total(f, S)
<1>1. Total(f, S) = f[x] + Total(f, S \ {x})  BY TotalSplit
<1>2. IsFiniteSet(S \ {x})  BY FS_RemoveElement
<1>3. Total(f, S \ {x}) \in Nat  BY <1>2, TotalType
<1>4. QED  BY <1>1, <1>3
=============================================================================
