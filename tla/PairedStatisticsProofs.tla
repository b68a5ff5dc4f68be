------------------------ MODULE PairedStatisticsProofs ------------------------
(***************************************************************************)
(* What TLAPS proves of PairedStatistics, for every panel, protocol and    *)
(* draw: a report passes the checks that a loaded one must, swapping the   *)
(* arms of C2 mirrors its conclusion, and alpha bounds the family-wise     *)
(* error of C1.                                                            *)
(***************************************************************************)
EXTENDS PairedStatistics, FiniteSetTheorems, SequenceTheorems, WellFoundedInduction, TLAPS

-----------------------------------------------------------------------------

\* Numbers are well founded.
LEMMA LeastNumber ==
    ASSUME NEW T \in SUBSET Nat, NEW x \in T
    PROVE  \E n \in T : \A m \in T : n <= m
  <1> DEFINE R == OpToRel(<, Nat)
  <1>1. IsWellFoundedOn(R, Nat)
    BY NatLessThanWellFounded
  <1>2. \A m, n \in Nat : m < n => <<m, n>> \in R
    BY DEF OpToRel
  <1> HIDE DEF R
  <1>3. PICK n \in T : \A m \in T : ~ (<<m, n>> \in R)
    BY <1>1, WFMin
  <1>4. \A m \in T : ~ (m < n)
    BY <1>2, <1>3
  <1>5. n \in Nat /\ T \subseteq Nat
    OBVIOUS
  <1> QED BY <1>4, <1>5

LEMMA Induction ==
    ASSUME NEW S, 0 \in S, \A n \in Nat : n \in S => n + 1 \in S
    PROVE  Nat \subseteq S
  <1> SUFFICES ASSUME NEW x \in Nat \ S PROVE FALSE
    OBVIOUS
  <1>1. PICK n \in Nat \ S : \A m \in Nat \ S : n <= m
    BY LeastNumber
  <1>2. n # 0
    OBVIOUS
  <1>3. n - 1 \in Nat /\ (n - 1) + 1 = n
    BY <1>2
  <1>4. n - 1 \in S
    BY <1>1, <1>3
  <1> QED BY <1>3, <1>4

\* The data of a definition by recursion on D, with values in V: either a base,
\* or a step from the value at a smaller argument.
Recursive(D, V, m, stop, prev, base, step) ==
    /\ m \in [D -> Nat] /\ stop \in SUBSET D /\ prev \in [D -> D]
    /\ base \in [D -> V] /\ step \in [D \X V -> V]
    /\ \A x \in D \ stop : m[prev[x]] < m[x]

\* It defines a function.
LEMMA Recursion ==
    ASSUME NEW D, NEW V, NEW m, NEW stop, NEW prev, NEW base, NEW step,
           Recursive(D, V, m, stop, prev, base, step)
    PROVE  \E h \in [D -> V] :
               \A x \in D : h[x] = IF x \in stop THEN base[x] ELSE step[<<x, h[prev[x]]>>]
  <1> USE DEF Recursive
  <1> DEFINE B(n) == {x \in D : m[x] < n}
             F(x, h) == IF x \in stop THEN base[x] ELSE step[<<x, h[prev[x]]>>]
             G(n) == {h \in [D -> V] : \A x \in B(n) : h[x] = F(x, h)}
             S == {n \in Nat : G(n) # {} /\ \A g, h \in G(n) : \A x \in B(n) : g[x] = h[x]}
  <1>0. \A x \in D : m[x] \in Nat
    OBVIOUS
  <1>1. 0 \in S
    <2>1. B(0) = {}
      BY <1>0
    <2>2. base \in G(0)
      BY <2>1
    <2> QED BY <2>1, <2>2
  <1>2. ASSUME NEW n \in Nat, n \in S PROVE n + 1 \in S
    <2>1. PICK h \in [D -> V] : \A x \in B(n) : h[x] = F(x, h)
      BY <1>2
    <2>2. \A x \in D : x \in B(n + 1) /\ x \notin stop => prev[x] \in B(n)
      BY <1>0
    <2>3. B(n) \subseteq B(n + 1)
      BY <1>0
    <2> DEFINE k == [x \in D |-> IF x \in B(n + 1) THEN F(x, h) ELSE h[x]]
    <2>4. \A x \in D : F(x, h) \in V
      OBVIOUS
    <2>5. k \in [D -> V]
      BY <2>4
    <2>6. \A x \in B(n) : k[x] = h[x]
      BY <2>1, <2>3
    <2>7. \A x \in B(n + 1) : k[x] = F(x, k)
      BY <2>2, <2>6
    <2>8. G(n + 1) # {}
      BY <2>5, <2>7
    <2>9. ASSUME NEW f \in G(n + 1), NEW g \in G(n + 1), NEW x \in B(n + 1) PROVE f[x] = g[x]
      <3>1. f \in G(n) /\ g \in G(n)
        BY <2>3
      <3>2. \A y \in B(n) : f[y] = g[y]
        BY <1>2, <3>1
      <3>3. F(x, f) = F(x, g)
        BY <2>2, <3>2
      <3> QED BY <3>3
    <2> QED BY <2>8, <2>9
  <1>3. Nat \subseteq S
    <2> HIDE DEF S
    <2> QED BY <1>1, <1>2, Induction
  <1> DEFINE pick(n) == CHOOSE h \in [D -> V] : h \in G(n)
             all == [x \in D |-> pick(m[x] + 1)[x]]
  <1>4. \A n \in Nat : pick(n) \in G(n)
    BY <1>3
  <1> HIDE DEF pick
  <1>5. ASSUME NEW n \in Nat, NEW x \in B(n) PROVE all[x] = pick(n)[x]
    <2>1. m[x] + 1 \in Nat /\ x \in B(m[x] + 1) /\ m[x] + 1 <= n
      BY <1>0
    <2>2. B(m[x] + 1) \subseteq B(n)
      BY <2>1, <1>0
    <2>3. pick(n) \in G(m[x] + 1)
      BY <2>2, <1>4
    <2>4. pick(m[x] + 1)[x] = pick(n)[x]
      <3>1. m[x] + 1 \in S
        BY <2>1, <1>3
      <3>2. \A g, h \in G(m[x] + 1) : \A y \in B(m[x] + 1) : g[y] = h[y]
        BY <3>1
      <3>3. pick(m[x] + 1) \in G(m[x] + 1)
        BY <2>1, <1>4
      <3> HIDE DEF G, B
      <3> QED BY <2>1, <2>3, <3>2, <3>3
    <2> QED BY <2>4
  <1>6. all \in [D -> V]
    BY <1>0, <1>4
  <1>7. ASSUME NEW x \in D PROVE all[x] = F(x, all)
    <2>1. m[x] + 1 \in Nat /\ x \in B(m[x] + 1)
      BY <1>0
    <2>2. all[x] = pick(m[x] + 1)[x] /\ pick(m[x] + 1)[x] = F(x, pick(m[x] + 1))
      BY <2>1, <1>4
    <2>3. x \notin stop => prev[x] \in B(m[x] + 1)
      BY <1>0
    <2>4. x \notin stop => all[prev[x]] = pick(m[x] + 1)[prev[x]]
      BY <2>1, <2>3, <1>5
    <2> HIDE DEF all
    <2> QED BY <2>2, <2>4
  <1> HIDE DEF all
  <1> QED BY <1>6, <1>7

\* The greatest of the first numbers.
LEMMA MaxOfFirst ==
    ASSUME NEW k \in Nat \ {0}
    PROVE  Max(1..k) = k /\ (1..k) \ {Max(1..k)} = 1..(k - 1)
  <1>1. k \in 1..k /\ \A y \in 1..k : k >= y
    OBVIOUS
  <1>2. \A x \in 1..k : (\A y \in 1..k : x >= y) => x = k
    BY <1>1
  <1>3. Max(1..k) = k
    BY <1>1, <1>2 DEF Max
  <1> QED BY <1>3

\* Some of the first numbers have a greatest.
LEMMA MaxOfSome ==
    ASSUME NEW n \in Nat, NEW t \in SUBSET (1..n), t # {}
    PROVE  Max(t) \in t
  <1> DEFINE T == {i \in Nat : \E x \in t : i = n - x}
  <1>1. PICK z \in t : TRUE
    OBVIOUS
  <1>2. n - z \in T
    OBVIOUS
  <1>3. PICK a \in T : \A b \in T : a <= b
    BY <1>2, LeastNumber
  <1>4. PICK x \in t : a = n - x
    OBVIOUS
  <1>5. \A y \in t : n - y \in T /\ y \in 1..n
    OBVIOUS
  <1> HIDE DEF T
  <1>6. ASSUME NEW y \in t PROVE x >= y
    <2>1. a <= n - y /\ y \in Int /\ x \in Int
      BY <1>3, <1>5
    <2> QED BY <1>4, <2>1
  <1> QED BY <1>6 DEF Max

\* The data of a fold with values in V over the places of n members.
Foldable(n, V, base, step) == n \in Nat /\ base \in V /\ step \in [V \X (1..n) -> V]

\* The table that it fills, for every set of the places.
Folds(h, n, V, base, step) ==
    /\ h \in [SUBSET (1..n) -> V]
    /\ \A t \in SUBSET (1..n) :
          h[t] = IF t = {} THEN base ELSE step[<<h[t \ {Max(t)}], Max(t)>>]

\* There is such a table.
LEMMA Folding ==
    ASSUME NEW n, NEW V, NEW base, NEW step, Foldable(n, V, base, step)
    PROVE  \E h : Folds(h, n, V, base, step)
  <1> USE DEF Foldable, Folds
  <1> DEFINE D == SUBSET (1..n)
             m == [t \in D |-> Cardinality(t)]
             prev == [t \in D |-> IF t = {} THEN {} ELSE t \ {Max(t)}]
             stop == {{}}
             down == [x \in D \X V |-> IF x[1] = {} THEN base ELSE step[<<x[2], Max(x[1])>>]]
  <1>1. ASSUME NEW t \in D PROVE IsFiniteSet(t) /\ Cardinality(t) \in Nat
    <2>1. IsFiniteSet(1..n)
      BY FS_Interval
    <2> QED BY <2>1, FS_Subset, FS_CardinalityType
  <1>2. ASSUME NEW t \in D, t # {} PROVE Max(t) \in t
    BY <1>2, MaxOfSome
  <1>3. m \in [D -> Nat] /\ prev \in [D -> D] /\ stop \in SUBSET D
    BY <1>1
  <1>4. ASSUME NEW t \in D \ stop PROVE m[prev[t]] < m[t]
    <2>1. Cardinality(t \ {Max(t)}) = Cardinality(t) - 1
      BY <1>1, <1>2, FS_RemoveElement
    <2>2. prev[t] = t \ {Max(t)} /\ prev[t] \in D
      OBVIOUS
    <2>3. m[prev[t]] = Cardinality(t) - 1 /\ m[t] = Cardinality(t)
      BY <2>1, <2>2
    <2> QED BY <1>1, <2>3
  <1>5. down \in [D \X V -> V]
    <2> SUFFICES ASSUME NEW t \in D, NEW v \in V, t # {} PROVE step[<<v, Max(t)>>] \in V
      OBVIOUS
    <2>1. Max(t) \in 1..n
      BY <1>2
    <2> HIDE DEF D
    <2> QED BY <2>1
  <1>6. [t \in D |-> base] \in [D -> V]
    OBVIOUS
  <1> DEFINE first == [t \in D |-> base]
  <1>7. first \in [D -> V]
    BY <1>6
  <1> HIDE DEF D, m, prev, down, first, stop
  <1>8. PICK h \in [D -> V] :
           \A t \in D : h[t] = IF t \in stop THEN first[t] ELSE down[<<t, h[prev[t]]>>]
    <2>1. Recursive(D, V, m, stop, prev, first, down)
      BY <1>3, <1>4, <1>5, <1>7 DEF Recursive
    <2> QED BY <2>1, Recursion
  <1>9. \A t \in D : h[t] = IF t = {} THEN base ELSE step[<<h[t \ {Max(t)}], Max(t)>>]
    <2> TAKE t \in D
    <2>1. CASE t = {}
      BY <2>1, <1>8 DEF first, stop
    <2>2. CASE t # {}
      <3>1. prev[t] = t \ {Max(t)} /\ prev[t] \in D
        BY <2>2, <1>3 DEF prev
      <3>2. h[t] = down[<<t, h[prev[t]]>>] /\ h[prev[t]] \in V
        BY <2>2, <1>8, <3>1 DEF stop
      <3> QED BY <2>2, <3>1, <3>2 DEF down
    <2> QED BY <2>1, <2>2
  <1> QED BY <1>9 DEF D

-----------------------------------------------------------------------------

\* A sum is the last of the partial sums.
LEMMA PartialSums ==
    ASSUME NEW n \in Nat, NEW s \in [1..n -> Int]
    PROVE  \E h \in [0..n -> Int] :
               h[0] = 0 /\ h[n] = SumOf(s) /\ \A k \in 1..n : h[k] = h[k - 1] + s[k]
  <1> DEFINE Table(it) == it = [t \in SUBSET DOMAIN s |->
                                   IF t = {} THEN 0 ELSE it[t \ {Max(t)}] + s[Max(t)]]
             table == CHOOSE it : Table(it)
             h == [k \in 0..n |-> table[1..k]]
  <1>1. SumOf(s) = table[DOMAIN s]
    BY DEF SumOf, FoldLeft, MapThenFoldSet
  <1>2. DOMAIN s = 1..n
    OBVIOUS
  <1> HIDE DEF table
  <1>3. PICK it : Folds(it, n, Int, 0, [q \in Int \X (1..n) |-> q[1] + s[q[2]]])
    <2> DEFINE step == [q \in Int \X (1..n) |-> q[1] + s[q[2]]]
    <2>1. Foldable(n, Int, 0, step)
      BY DEF Foldable
    <2> HIDE DEF step
    <2>2. \E it : Folds(it, n, Int, 0, step)
      BY <2>1, Folding
    <2> QED BY <2>2 DEF step
  <1>4. Table(it)
    <2>1. \A t \in SUBSET (1..n) : t # {} => Max(t) \in 1..n
      BY MaxOfSome
    <2> QED BY <1>2, <1>3, <2>1 DEF Folds
  <1>5. Table(table)
    <2> HIDE DEF Table
    <2> QED BY <1>4 DEF table
  <1>6. h[0] = 0
    BY <1>2, <1>5
  <1>7. ASSUME NEW k \in 1..n PROVE h[k] = h[k - 1] + s[k]
    <2>1. Max(1..k) = k /\ (1..k) \ {Max(1..k)} = 1..(k - 1)
      BY MaxOfFirst
    <2>2. 1..k \in SUBSET DOMAIN s /\ 1..k # {} /\ k \in 0..n /\ k - 1 \in 0..n
      <3>1. k \in 1..k /\ (\A j \in 1..k : j \in 1..n) /\ k \in 0..n /\ k - 1 \in 0..n
        OBVIOUS
      <3>2. 1..k \in SUBSET (1..n) /\ 1..k # {}
        BY <3>1
      <3> QED BY <1>2, <3>1, <3>2
    <2>3. table[1..k] = table[(1..k) \ {Max(1..k)}] + s[Max(1..k)]
      BY <1>5, <2>2
    <2> QED BY <2>1, <2>2, <2>3
  <1> DEFINE S == {k \in Nat : k <= n => h[k] \in Int}
  <1> HIDE DEF h, Table
  <1>8. 0 \in S
    BY <1>6
  <1>9. ASSUME NEW k \in Nat, k \in S PROVE k + 1 \in S
    <2> SUFFICES ASSUME k + 1 <= n PROVE h[k + 1] \in Int
      OBVIOUS
    <2>1. k + 1 \in 1..n /\ (k + 1) - 1 = k /\ h[k] \in Int /\ s[k + 1] \in Int
      BY <1>9
    <2> QED BY <2>1, <1>7
  <1>10. Nat \subseteq S
    <2> HIDE DEF S
    <2> QED BY <1>8, <1>9, Induction
  <1>11. h \in [0..n -> Int]
    <2>1. \A k \in 0..n : h[k] \in Int
      BY <1>10
    <2>2. h = [k \in 0..n |-> h[k]]
      BY DEF h
    <2> QED BY <2>1, <2>2
  <1>12. h[n] = SumOf(s)
    BY <1>1, <1>2 DEF h
  <1> QED BY <1>6, <1>7, <1>11, <1>12

\* A sum of integers, taken one by one.
LEMMA SumOfNone == ASSUME NEW s \in [1..0 -> Int] PROVE SumOf(s) = 0
  BY PartialSums

LEMMA SumOfMore ==
    ASSUME NEW n \in Nat, NEW s \in [1..(n + 1) -> Int]
    PROVE  /\ [i \in 1..n |-> s[i]] \in [1..n -> Int]
           /\ SumOf(s) = SumOf([i \in 1..n |-> s[i]]) + s[n + 1]
  <1> DEFINE t == [i \in 1..n |-> s[i]]
  <1>1. t \in [1..n -> Int]
    OBVIOUS
  <1>2. PICK h \in [0..(n + 1) -> Int] :
           h[0] = 0 /\ h[n + 1] = SumOf(s) /\ \A k \in 1..(n + 1) : h[k] = h[k - 1] + s[k]
    BY PartialSums, n + 1 \in Nat
  <1>3. PICK g \in [0..n -> Int] :
           g[0] = 0 /\ g[n] = SumOf(t) /\ \A k \in 1..n : g[k] = g[k - 1] + t[k]
    BY <1>1, PartialSums
  <1> DEFINE S == {k \in Nat : k <= n => g[k] = h[k]}
  <1>4. 0 \in S
    BY <1>2, <1>3
  <1>5. ASSUME NEW k \in Nat, k \in S PROVE k + 1 \in S
    <2> SUFFICES ASSUME k + 1 <= n PROVE g[k + 1] = h[k + 1]
      OBVIOUS
    <2>1. k + 1 \in 1..n /\ k + 1 \in 1..(n + 1) /\ (k + 1) - 1 = k /\ g[k] = h[k]
      BY <1>5
    <2>2. t[k + 1] = s[k + 1]
      BY <2>1
    <2>3. g[k + 1] = g[k] + t[k + 1]
      BY <1>3, <2>1
    <2>4. h[k + 1] = h[k] + s[k + 1]
      BY <1>2, <2>1
    <2> QED BY <2>1, <2>2, <2>3, <2>4
  <1>6. Nat \subseteq S
    <2> HIDE DEF S
    <2> QED BY <1>4, <1>5, Induction
  <1>7. g[n] = h[n]
    BY <1>6
  <1>8. h[n + 1] = h[n] + s[n + 1]
    <2>1. n + 1 \in 1..(n + 1) /\ (n + 1) - 1 = n
      OBVIOUS
    <2> QED BY <1>2, <2>1
  <1> QED BY <1>1, <1>2, <1>3, <1>7, <1>8

LEMMA SumIsInteger == ASSUME NEW n \in Nat, NEW s \in [1..n -> Int] PROVE SumOf(s) \in Int
  BY PartialSums

\* Adding members adds sums.
LEMMA SumAdds ==
    ASSUME NEW n \in Nat, NEW s \in [1..n -> Int], NEW t \in [1..n -> Int],
           NEW u \in [1..n -> Int], \A i \in 1..n : u[i] = s[i] + t[i]
    PROVE  SumOf(u) = SumOf(s) + SumOf(t)
  <1> DEFINE both(m, x, y) == [i \in 1..m |-> x[i] + y[i]]
             S == {m \in Nat : \A x, y \in [1..m -> Int] :
                                  SumOf(both(m, x, y)) = SumOf(x) + SumOf(y)}
  <1>1. 0 \in S
    <2> SUFFICES ASSUME NEW x \in [1..0 -> Int], NEW y \in [1..0 -> Int]
                 PROVE  SumOf(both(0, x, y)) = SumOf(x) + SumOf(y)
      OBVIOUS
    <2>1. both(0, x, y) \in [1..0 -> Int]
      OBVIOUS
    <2> HIDE DEF both
    <2>2. SumOf(x) = 0 /\ SumOf(y) = 0 /\ SumOf(both(0, x, y)) = 0
      BY <2>1, SumOfNone
    <2> QED BY <2>2
  <1>2. ASSUME NEW m \in Nat, m \in S PROVE m + 1 \in S
    <2> SUFFICES ASSUME NEW x \in [1..(m + 1) -> Int], NEW y \in [1..(m + 1) -> Int]
                 PROVE  SumOf(both(m + 1, x, y)) = SumOf(x) + SumOf(y)
      BY m + 1 \in Nat
    <2> DEFINE a == [i \in 1..m |-> x[i]]
               b == [i \in 1..m |-> y[i]]
               c == [i \in 1..m |-> both(m + 1, x, y)[i]]
    <2>1. both(m + 1, x, y) \in [1..(m + 1) -> Int]
      OBVIOUS
    <2>2. c = both(m, a, b)
      OBVIOUS
    <2>3. both(m + 1, x, y)[m + 1] = x[m + 1] + y[m + 1]
      OBVIOUS
    <2>4. a \in [1..m -> Int] /\ SumOf(x) = SumOf(a) + x[m + 1]
      BY SumOfMore
    <2>5. b \in [1..m -> Int] /\ SumOf(y) = SumOf(b) + y[m + 1]
      BY SumOfMore
    <2>6. SumOf(both(m + 1, x, y)) = SumOf(c) + both(m + 1, x, y)[m + 1]
      <3> HIDE DEF both
      <3> QED BY <2>1, SumOfMore
    <2>7. SumOf(c) = SumOf(a) + SumOf(b)
      <3> HIDE DEF a, b, c, both
      <3> QED BY <1>2, <2>2, <2>4, <2>5
    <2>8. SumOf(a) \in Int /\ SumOf(b) \in Int /\ x[m + 1] \in Int /\ y[m + 1] \in Int
      BY <2>4, <2>5, SumIsInteger
    <2> HIDE DEF a, b, c, both
    <2> QED BY <2>3, <2>4, <2>5, <2>6, <2>7, <2>8
  <1>3. Nat \subseteq S
    <2> HIDE DEF S
    <2> QED BY <1>1, <1>2, Induction
  <1>4. u = both(n, s, t)
    OBVIOUS
  <1> HIDE DEF both
  <1> QED BY <1>3, <1>4

\* Negating the members negates the sum.
LEMMA SumNegates ==
    ASSUME NEW n \in Nat, NEW s \in [1..n -> Int]
    PROVE  SumOf([i \in 1..n |-> -s[i]]) = -SumOf(s)
  <1> DEFINE minus == [i \in 1..n |-> -s[i]]
             zero == [i \in 1..n |-> 0]
  <1>1. minus \in [1..n -> Int] /\ zero \in [1..n -> Int]
    OBVIOUS
  <1>2. \A i \in 1..n : zero[i] = s[i] + minus[i] /\ zero[i] = zero[i] + zero[i]
    OBVIOUS
  <1> HIDE DEF minus, zero
  <1>3. SumOf(zero) = SumOf(s) + SumOf(minus)
    BY <1>1, <1>2, SumAdds
  <1>4. SumOf(zero) = SumOf(zero) + SumOf(zero)
    BY <1>1, <1>2, SumAdds
  <1>5. SumOf(s) \in Int /\ SumOf(minus) \in Int /\ SumOf(zero) \in Int
    BY <1>1, SumIsInteger
  <1>6. SumOf(zero) = 0
    BY <1>4, <1>5
  <1>7. SumOf(minus) = -SumOf(s)
    BY <1>3, <1>5, <1>6
  <1> QED BY <1>7 DEF minus

\* Bounds of the members bound the sum.
LEMMA SumBounded ==
    ASSUME NEW n \in Nat, NEW b \in Nat, NEW s \in [1..n -> (-b)..b]
    PROVE  SumOf(s) \in (-(n * b))..(n * b)
  <1> DEFINE S == {m \in Nat : \A x \in [1..m -> (-b)..b] : SumOf(x) \in (-(m * b))..(m * b)}
  <1>1. 0 \in S
    <2> SUFFICES ASSUME NEW x \in [1..0 -> (-b)..b] PROVE SumOf(x) \in (-(0 * b))..(0 * b)
      OBVIOUS
    <2>1. x \in [1..0 -> Int] /\ 0 * b = 0
      OBVIOUS
    <2>2. SumOf(x) = 0
      BY <2>1, SumOfNone
    <2> QED BY <2>1, <2>2
  <1>2. ASSUME NEW m \in Nat, m \in S PROVE m + 1 \in S
    <2> SUFFICES ASSUME NEW x \in [1..(m + 1) -> (-b)..b]
                 PROVE  SumOf(x) \in (-((m + 1) * b))..((m + 1) * b)
      BY m + 1 \in Nat
    <2> DEFINE a == [i \in 1..m |-> x[i]]
               c == m * b
    <2>1. x \in [1..(m + 1) -> Int] /\ a \in [1..m -> (-b)..b] /\ x[m + 1] \in (-b)..b
      OBVIOUS
    <2>2. SumOf(x) = SumOf(a) + x[m + 1]
      BY <2>1, SumOfMore
    <2>3. SumOf(a) \in (-c)..c
      <3> HIDE DEF a
      <3> QED BY <1>2, <2>1
    <2>4. c \in Nat /\ (m + 1) * b = c + b
      OBVIOUS
    <2> HIDE DEF a, c
    <2> QED BY <2>1, <2>2, <2>3, <2>4
  <1>3. Nat \subseteq S
    <2> HIDE DEF S
    <2> QED BY <1>1, <1>2, Induction
  <1> QED BY <1>3

\* Summing rows first or columns first is the same.
LEMMA SumSwaps ==
    ASSUME NEW n \in Nat, NEW m \in Nat, NEW d \in [1..n -> [1..m -> Int]]
    PROVE  /\ [j \in 1..m |-> SumOf([i \in 1..n |-> d[i][j]])] \in [1..m -> Int]
           /\ SumOf([i \in 1..n |-> SumOf(d[i])])
                 = SumOf([j \in 1..m |-> SumOf([i \in 1..n |-> d[i][j]])])
  <1> DEFINE columns(k, x) == [j \in 1..m |-> SumOf([i \in 1..k |-> x[i][j]])]
             rows(k, x) == [i \in 1..k |-> SumOf(x[i])]
             S == {k \in Nat : \A x \in [1..k -> [1..m -> Int]] :
                                  SumOf(rows(k, x)) = SumOf(columns(k, x))}
  <1>1. ASSUME NEW k \in Nat, NEW x \in [1..k -> [1..m -> Int]]
        PROVE  columns(k, x) \in [1..m -> Int] /\ rows(k, x) \in [1..k -> Int]
    <2>1. ASSUME NEW j \in 1..m PROVE SumOf([i \in 1..k |-> x[i][j]]) \in Int
      <3>1. [i \in 1..k |-> x[i][j]] \in [1..k -> Int]
        OBVIOUS
      <3> QED BY <3>1, SumIsInteger
    <2>2. \A i \in 1..k : SumOf(x[i]) \in Int
      BY SumIsInteger
    <2> QED BY <2>1, <2>2
  <1>2. 0 \in S
    <2> SUFFICES ASSUME NEW x \in [1..0 -> [1..m -> Int]]
                 PROVE  SumOf(rows(0, x)) = SumOf(columns(0, x))
      OBVIOUS
    <2> DEFINE zero == [j \in 1..m |-> 0]
    <2>1. ASSUME NEW j \in 1..m PROVE SumOf([i \in 1..0 |-> x[i][j]]) = 0
      <3>1. [i \in 1..0 |-> x[i][j]] \in [1..0 -> Int]
        OBVIOUS
      <3> QED BY <3>1, SumOfNone
    <2>2. columns(0, x) = zero
      BY <2>1
    <2>3. zero \in [1..m -> Int] /\ \A j \in 1..m : zero[j] = zero[j] + zero[j]
      OBVIOUS
    <2> HIDE DEF zero
    <2>4. SumOf(zero) = SumOf(zero) + SumOf(zero) /\ SumOf(zero) \in Int
      BY <2>3, SumAdds, SumIsInteger
    <2>5. SumOf(rows(0, x)) = 0
      <3>1. rows(0, x) \in [1..0 -> Int]
        BY <1>1
      <3> QED BY <3>1, SumOfNone
    <2> HIDE DEF rows, columns
    <2> QED BY <2>2, <2>4, <2>5
  <1>3. ASSUME NEW k \in Nat, k \in S PROVE k + 1 \in S
    <2> SUFFICES ASSUME NEW x \in [1..(k + 1) -> [1..m -> Int]]
                 PROVE  SumOf(rows(k + 1, x)) = SumOf(columns(k + 1, x))
      BY k + 1 \in Nat
    <2> DEFINE y == [i \in 1..k |-> x[i]]
               last == x[k + 1]
    <2>1. y \in [1..k -> [1..m -> Int]] /\ last \in [1..m -> Int]
      OBVIOUS
    <2>2. [i \in 1..k |-> rows(k + 1, x)[i]] = rows(k, y) /\ rows(k + 1, x)[k + 1] = SumOf(last)
      OBVIOUS
    <2>3. SumOf(rows(k + 1, x)) = SumOf(rows(k, y)) + SumOf(last)
      <3>1. rows(k + 1, x) \in [1..(k + 1) -> Int]
        BY <1>1, k + 1 \in Nat
      <3> HIDE DEF rows
      <3> QED BY <2>2, <3>1, SumOfMore
    <2>4. columns(k + 1, x) = [j \in 1..m |-> columns(k, y)[j] + last[j]]
      <3> SUFFICES ASSUME NEW j \in 1..m
                   PROVE  SumOf([i \in 1..(k + 1) |-> x[i][j]])
                             = SumOf([i \in 1..k |-> y[i][j]]) + last[j]
        OBVIOUS
      <3> DEFINE c == [i \in 1..(k + 1) |-> x[i][j]]
      <3>1. c \in [1..(k + 1) -> Int] /\ c[k + 1] = last[j]
        OBVIOUS
      <3>2. [i \in 1..k |-> c[i]] = [i \in 1..k |-> y[i][j]]
        OBVIOUS
      <3> HIDE DEF c
      <3>3. SumOf(c) = SumOf([i \in 1..k |-> c[i]]) + c[k + 1]
        BY <3>1, SumOfMore
      <3>4. SumOf(c) = SumOf([i \in 1..k |-> y[i][j]]) + last[j]
        BY <3>1, <3>2, <3>3
      <3> QED BY <3>4 DEF c
    <2>5. columns(k, y) \in [1..m -> Int] /\ columns(k + 1, x) \in [1..m -> Int]
      BY <1>1, <2>1, k + 1 \in Nat
    <2>6. SumOf(rows(k, y)) = SumOf(columns(k, y))
      <3> HIDE DEF rows, columns, y
      <3> QED BY <1>3, <2>1
    <2> HIDE DEF rows, columns, y, last
    <2>7. SumOf(columns(k + 1, x)) = SumOf(columns(k, y)) + SumOf(last)
      <3>1. \A j \in 1..m : columns(k + 1, x)[j] = columns(k, y)[j] + last[j]
        BY <2>4
      <3> QED BY <2>1, <2>5, <3>1, SumAdds
    <2> QED BY <2>3, <2>6, <2>7
  <1>4. Nat \subseteq S
    <2> HIDE DEF S
    <2> QED BY <1>2, <1>3, Induction
  <1> QED BY <1>1, <1>4

-----------------------------------------------------------------------------

\* Among some members of a sequence of integers there is a greatest.
LEMMA Highest ==
    ASSUME NEW n \in Nat, NEW f \in [1..n -> Int], NEW t \in SUBSET (1..n), t # {}
    PROVE  \E i \in t : \A j \in t : f[j] <= f[i]
  <1> DEFINE over(i) == {j \in t : f[i] < f[j]}
             counts == {c \in Nat : \E i \in t : c = Cardinality(over(i))}
  <1>1. IsFiniteSet(t)
    <2>1. IsFiniteSet(1..n)
      BY FS_Interval
    <2> QED BY <2>1, FS_Subset
  <1>2. \A i \in t : IsFiniteSet(over(i)) /\ Cardinality(over(i)) \in Nat
    BY <1>1, FS_Subset, FS_CardinalityType
  <1>3. PICK z \in t : TRUE
    OBVIOUS
  <1>4. Cardinality(over(z)) \in counts
    BY <1>2
  <1>5. PICK c \in counts : \A b \in counts : c <= b
    <2> HIDE DEF counts
    <2>1. counts \in SUBSET Nat
      BY DEF counts
    <2> QED BY <1>4, <2>1, LeastNumber
  <1>6. PICK i \in t : c = Cardinality(over(i))
    OBVIOUS
  <1>7. ASSUME NEW j \in t, ~ f[j] <= f[i] PROVE FALSE
    <2>1. f[i] < f[j] /\ f[i] \in Int /\ f[j] \in Int
      BY <1>7
    <2>2. \A k \in t : f[j] < f[k] => f[i] < f[k]
      <3> TAKE k \in t
      <3>1. f[k] \in Int
        OBVIOUS
      <3> QED BY <2>1, <3>1
    <2>3. over(j) \in SUBSET over(i) /\ j \in over(i) /\ j \notin over(j)
      <3>1. j \in over(i) /\ j \notin over(j)
        BY <2>1
      <3>2. \A k \in over(j) : k \in over(i)
        BY <2>2
      <3> QED BY <3>1, <3>2
    <2>4. Cardinality(over(j)) \in counts
      BY <1>2
    <2> HIDE DEF over, counts
    <2>5. /\ Cardinality(over(j)) <= Cardinality(over(i))
          /\ Cardinality(over(i)) = Cardinality(over(j)) => over(i) = over(j)
      BY <1>2, <2>3, FS_Subset
    <2>6. Cardinality(over(j)) < Cardinality(over(i))
      BY <1>2, <2>3, <2>5
    <2> QED BY <1>2, <1>5, <1>6, <2>4, <2>6
  <1> QED BY <1>6, <1>7

\* And a least.
LEMMA Lowest ==
    ASSUME NEW n \in Nat, NEW f \in [1..n -> Int], NEW t \in SUBSET (1..n), t # {}
    PROVE  \E i \in t : \A j \in t : f[i] <= f[j]
  <1> DEFINE g == [i \in 1..n |-> -f[i]]
  <1>1. g \in [1..n -> Int]
    OBVIOUS
  <1>2. PICK i \in t : \A j \in t : g[j] <= g[i]
    <2> HIDE DEF g
    <2> QED BY <1>1, Highest
  <1>3. \A j \in t : g[j] = -f[j] /\ f[j] \in Int
    OBVIOUS
  <1> HIDE DEF g
  <1>4. \A j \in t : f[i] <= f[j]
    BY <1>2, <1>3
  <1> QED BY <1>4

\* How many of the values are below x, and how many do not exceed it.
Below(f, x) == {i \in DOMAIN f : f[i] < x}
UpTo(f, x) == {i \in DOMAIN f : f[i] <= x}

\* In the order of the values, x has place k.
Has(f, k, x) == Cardinality(Below(f, x)) < k /\ k <= Cardinality(UpTo(f, x))

\* Counts are finite.
LEMMA Counts ==
    ASSUME NEW n \in Nat, NEW f \in [1..n -> Int], NEW x \in Int
    PROVE  /\ Below(f, x) \in SUBSET (1..n) /\ UpTo(f, x) \in SUBSET (1..n)
           /\ IsFiniteSet(1..n) /\ Cardinality(1..n) = n
           /\ IsFiniteSet(Below(f, x)) /\ IsFiniteSet(UpTo(f, x))
           /\ Cardinality(Below(f, x)) \in Nat /\ Cardinality(UpTo(f, x)) \in Nat
  <1>1. Below(f, x) \in SUBSET (1..n) /\ UpTo(f, x) \in SUBSET (1..n)
    BY DEF Below, UpTo
  <1>2. IsFiniteSet(1..n) /\ Cardinality(1..n) = n
    BY FS_Interval
  <1> QED BY <1>1, <1>2, FS_Subset, FS_CardinalityType

\* Later places have greater values.
LEMMA PlacesAreOrdered ==
    ASSUME NEW n \in Nat, NEW f \in [1..n -> Int], NEW x \in Int, NEW y \in Int,
           NEW k \in Nat, NEW l \in Nat, k <= l, Has(f, k, x), Has(f, l, y)
    PROVE  x <= y
  <1> SUFFICES ASSUME y < x PROVE FALSE
    OBVIOUS
  <1>1. \A i \in 1..n : f[i] \in Int
    OBVIOUS
  <1>2. UpTo(f, y) \in SUBSET Below(f, x)
    BY <1>1 DEF UpTo, Below
  <1>3. Cardinality(UpTo(f, y)) <= Cardinality(Below(f, x))
    BY <1>2, Counts, FS_Subset
  <1>4. Cardinality(UpTo(f, y)) \in Nat /\ Cardinality(Below(f, x)) \in Nat
    BY Counts
  <1> QED BY <1>3, <1>4 DEF Has

\* Every place has a value.
LEMMA PlacesAreFilled ==
    ASSUME NEW n \in Nat, NEW f \in [1..n -> Int], NEW k \in 1..n
    PROVE  \E x \in ToSet(f) : Has(f, k, x)
  <1> DEFINE T == {i \in 1..n : k <= Cardinality(UpTo(f, f[i]))}
  <1>0. \A i \in 1..n : f[i] \in Int /\ f[i] \in ToSet(f)
    BY DEF ToSet
  <1>1. T # {}
    <2>1. PICK i \in 1..n : \A j \in 1..n : f[j] <= f[i]
      <3>1. 1..n # {} /\ 1..n \in SUBSET (1..n)
        OBVIOUS
      <3> QED BY <3>1, Highest
    <2>2. UpTo(f, f[i]) = 1..n
      BY <2>1 DEF UpTo
    <2>3. Cardinality(UpTo(f, f[i])) = n
      BY <1>0, <2>2, Counts
    <2>4. i \in T
      BY <2>3
    <2> QED BY <2>4
  <1>2. PICK i \in T : \A j \in T : f[i] <= f[j]
    <2>1. T \in SUBSET (1..n)
      OBVIOUS
    <2> HIDE DEF T
    <2> QED BY <1>1, <2>1, Lowest
  <1> DEFINE U == Below(f, f[i])
  <1>3. Cardinality(U) < k
    <2>1. CASE U = {}
      BY <2>1, FS_EmptySet
    <2>2. CASE U # {}
      <3>1. U \in SUBSET (1..n)
        BY DEF Below
      <3>2. PICK j \in U : \A h \in U : f[h] <= f[j]
        <4> HIDE DEF U
        <4> QED BY <2>2, <3>1, Highest
      <3>3. j \in 1..n /\ f[j] < f[i]
        BY <3>2 DEF Below
      <3>4. j \notin T
        <4> HIDE DEF T
        <4>1. i \in 1..n
          BY DEF T
        <4> QED BY <1>0, <1>2, <3>3, <4>1
      <3>5. Cardinality(UpTo(f, f[j])) < k
        <4>1. f[j] \in Int
          BY <1>0, <3>3
        <4>2. Cardinality(UpTo(f, f[j])) \in Nat
          BY <4>1, Counts
        <4>3. ~ k <= Cardinality(UpTo(f, f[j]))
          BY <3>3, <3>4
        <4> QED BY <4>2, <4>3
      <3>6. U \in SUBSET UpTo(f, f[j])
        BY <3>1, <3>2 DEF UpTo
      <3>7. Cardinality(U) <= Cardinality(UpTo(f, f[j]))
        BY <1>0, <3>3, <3>6, Counts, FS_Subset
      <3>8. Cardinality(UpTo(f, f[j])) \in Nat /\ Cardinality(U) \in Nat
        BY <1>0, <3>3, Counts
      <3> QED BY <3>5, <3>7, <3>8
    <2> QED BY <2>1, <2>2
  <1>4. k <= Cardinality(UpTo(f, f[i])) /\ f[i] \in ToSet(f)
    BY <1>0
  <1> QED BY <1>3, <1>4 DEF Has

\* Sorted fills every place, once.
LEMMA SortedFacts ==
    ASSUME NEW n \in Nat, NEW f \in [1..n -> Int]
    PROVE  /\ Sorted(f) \in [1..n -> ToSet(f)]
           /\ \A k \in 1..n : Has(f, k, Sorted(f)[k])
           /\ \A k \in 1..n : \A x \in Int : Has(f, k, x) => x = Sorted(f)[k]
           /\ \A k, l \in 1..n : k <= l => Sorted(f)[k] <= Sorted(f)[l]
  <1> DEFINE v == Sorted(f)
  <1>1. ToSet(f) \in SUBSET Int
    BY DEF ToSet
  <1>2. ASSUME NEW k \in 1..n PROVE v[k] \in ToSet(f) /\ Has(f, k, v[k])
    <2>1. v[k] = CHOOSE x \in ToSet(f) : Has(f, k, x)
      BY DEF Sorted, Has, Below, UpTo
    <2> HIDE DEF v
    <2> QED BY <2>1, PlacesAreFilled
  <1>3. v \in [1..n -> ToSet(f)]
    <2> DEFINE pick(k) == CHOOSE x \in ToSet(f) : Has(f, k, x)
    <2>1. v = [k \in 1..n |-> pick(k)]
      BY DEF Sorted, Has, Below, UpTo
    <2>2. \A k \in 1..n : v[k] = pick(k)
      <3> HIDE DEF v, pick
      <3> QED BY <2>1
    <2> HIDE DEF v, pick
    <2> QED BY <1>2, <2>1, <2>2
  <1> HIDE DEF v
  <1>4. ASSUME NEW k \in 1..n, NEW l \in 1..n, k <= l PROVE v[k] <= v[l]
    <2>1. v[k] \in Int /\ v[l] \in Int /\ k \in Nat /\ l \in Nat
      BY <1>1, <1>2
    <2> QED BY <1>2, <1>4, <2>1, PlacesAreOrdered
  <1>5. ASSUME NEW k \in 1..n, NEW x \in Int, Has(f, k, x) PROVE x = v[k]
    <2>1. v[k] \in Int /\ k \in Nat /\ Has(f, k, v[k])
      BY <1>1, <1>2
    <2>2. x <= v[k] /\ v[k] <= x
      BY <1>5, <2>1, PlacesAreOrdered
    <2> QED BY <2>1, <2>2
  <1> QED BY <1>2, <1>3, <1>4, <1>5 DEF v

\* The negated values are in the opposite order.
LEMMA SortedMirrors ==
    ASSUME NEW n \in Nat, NEW f \in [1..n -> Int], NEW g \in [1..n -> Int],
           \A i \in 1..n : g[i] = -f[i], NEW k \in 1..n
    PROVE  Sorted(g)[k] = -Sorted(f)[n + 1 - k]
  <1> DEFINE l == n + 1 - k
             x == Sorted(f)[l]
  <1>1. l \in 1..n
    OBVIOUS
  <1>2. x \in Int /\ Has(f, l, x)
    <2>1. Sorted(f)[l] \in ToSet(f) /\ Has(f, l, Sorted(f)[l])
      <3> HIDE DEF l
      <3> QED BY <1>1, SortedFacts
    <2> QED BY <2>1 DEF ToSet
  <1> HIDE DEF x
  <1>3. \A i \in 1..n : f[i] \in Int /\ g[i] \in Int
    OBVIOUS
  <1>4. Below(g, -x) = (1..n) \ UpTo(f, x) /\ UpTo(g, -x) = (1..n) \ Below(f, x)
    BY <1>2, <1>3 DEF Below, UpTo
  <1>5. ASSUME NEW t \in SUBSET (1..n) PROVE Cardinality((1..n) \ t) = n - Cardinality(t)
    <2>1. IsFiniteSet(1..n) /\ Cardinality(1..n) = n
      BY Counts
    <2>2. (1..n) \cap t = t
      OBVIOUS
    <2>3. Cardinality((1..n) \ t) = Cardinality(1..n) - Cardinality((1..n) \cap t)
      BY <2>1, FS_Difference
    <2> QED BY <2>1, <2>2, <2>3
  <1>6. /\ Cardinality(Below(g, -x)) = n - Cardinality(UpTo(f, x))
        /\ Cardinality(UpTo(g, -x)) = n - Cardinality(Below(f, x))
    BY <1>2, <1>4, <1>5, Counts
  <1>7. Cardinality(UpTo(f, x)) \in Nat /\ Cardinality(Below(f, x)) \in Nat
    BY <1>2, Counts
  <1>8. Has(g, k, -x)
    BY <1>2, <1>6, <1>7 DEF Has
  <1>9. -x \in Int
    BY <1>2
  <1>10. -x = Sorted(g)[k]
    BY <1>8, <1>9, SortedFacts
  <1> QED BY <1>10 DEF x

-----------------------------------------------------------------------------

\* Quotient and remainder.
LEMMA Division ==
    ASSUME NEW x \in Nat, NEW b \in Nat \ {0}
    PROVE  /\ x \div b \in Nat /\ x % b \in 0..(b - 1)
           /\ x = (x \div b) * b + (x % b)
  OBVIOUS

\* Products keep the order.
LEMMA Scaling ==
    ASSUME NEW x \in Int, NEW y \in Int, NEW b \in Nat, x <= y
    PROVE  x * b <= y * b
  OBVIOUS

LEMMA Unscaling ==
    ASSUME NEW x \in Int, NEW y \in Int, NEW b \in Nat \ {0}, x * b < y * b
    PROVE  x < y
  BY Scaling

\* A value interpolated between two is between them.
LEMMA Interpolation ==
    ASSUME NEW low \in Int, NEW high \in Int, low <= high, NEW b \in Nat \ {0},
           NEW r \in 0..(b - 1), NEW x, x = low * b + r * (high - low)
    PROVE  x \in Int /\ low * b <= x /\ x <= high * b
  <1> DEFINE e == high - low
  <1>1. e \in Nat /\ r \in Int /\ b \in Int /\ high = low + e /\ 0 <= r /\ r <= b
    OBVIOUS
  <1>2. x = low * b + r * e
    OBVIOUS
  <1> HIDE DEF e
  <1>3. high * b = low * b + b * e
    BY <1>1
  <1>4. 0 * e <= r * e /\ r * e <= b * e
    BY <1>1, Scaling
  <1>5. r * e \in Int /\ b * e \in Int /\ low * b \in Int /\ 0 * e = 0
    BY <1>1
  <1> QED BY <1>2, <1>3, <1>4, <1>5

\* A quantile a/b of n values, in terms of the quotient i and the remainder r of
\* its position.
Interpolated(f, b, i, r) ==
    LET low == Sorted(f)[i + 1]
        high == Sorted(f)[Smaller(i + 2, Len(f))]
    IN  low * b + r * (high - low)

\* The quantile a/b of the n integers f is interpolated at i, by r.
Splits(f, n, a, b, i, r) ==
    /\ i \in 0..(n - 1) /\ r \in 0..(b - 1)
    /\ (n - 1) * a = i * b + r
    /\ r # 0 => i + 2 <= n
    /\ Quantile(f, Q(a, b)) = Q(Interpolated(f, b, i, r), b)
    /\ Sorted(f)[i + 1] \in ToSet(f) /\ Sorted(f)[Smaller(i + 2, n)] \in ToSet(f)
    /\ Sorted(f)[i + 1] <= Sorted(f)[Smaller(i + 2, n)]

LEMMA QuantileSplits ==
    ASSUME NEW n \in Nat \ {0}, NEW f \in [1..n -> Int], NEW b \in Nat \ {0}, NEW a \in 0..b
    PROVE  \E i, r : Splits(f, n, a, b, i, r)
  <1> DEFINE pos == (n - 1) * a
             i == pos \div b
             r == pos % b
             v == Sorted(f)
  <1>0. n - 1 \in Nat /\ a \in Nat /\ n \in Nat
    OBVIOUS
  <1>1. pos \in Nat
    BY <1>0
  <1>2. v \in [1..n -> ToSet(f)] /\ \A k, l \in 1..n : k <= l => v[k] <= v[l]
    BY <1>0, SortedFacts
  <1>3. i \in Nat /\ r \in 0..(b - 1) /\ pos = i * b + r
    <2> HIDE DEF pos
    <2> QED BY <1>1, Division
  <1> HIDE DEF i, r
  <1>4. pos <= (n - 1) * b
    <2>1. a * (n - 1) <= b * (n - 1)
      BY <1>0, Scaling
    <2> QED BY <1>0, <2>1
  <1>5. i <= n - 1 /\ (r # 0 => i < n - 1)
    <2>1. i * b <= pos /\ (r # 0 => i * b < pos)
      <3> HIDE DEF pos
      <3>1. i * b \in Int
        BY <1>3
      <3> QED BY <1>3, <3>1
    <2>2. ~ (n - 1) * b < i * b /\ (r # 0 => i * b < (n - 1) * b)
      <3> HIDE DEF pos
      <3>1. i * b \in Int /\ (n - 1) * b \in Int
        BY <1>0, <1>3
      <3> QED BY <1>1, <1>4, <2>1, <3>1
    <2>3. ~ n - 1 < i
      <3>1. n - 1 < i => n <= i
        BY <1>0, <1>3
      <3>2. n <= i => n * b <= i * b
        BY <1>0, <1>3, Scaling
      <3>3. n * b = (n - 1) * b + b /\ (n - 1) * b \in Int /\ n * b \in Int /\ i * b \in Int
        BY <1>0, <1>3
      <3>4. n * b <= i * b => (n - 1) * b < i * b
        BY <3>3
      <3> QED BY <2>2, <3>1, <3>2, <3>4
    <2>4. ASSUME NEW k \in Int, k = n - 1, i * b < k * b PROVE i < k
      BY <1>3, <2>4, Unscaling
    <2> QED BY <1>0, <1>3, <2>2, <2>3, <2>4
  <1>6. Quantile(f, Q(a, b)) = Q(Interpolated(f, b, i, r), b)
    <2>1. Len(Sorted(f)) = n /\ Len(f) = n
      <3> HIDE DEF v
      <3>1. Len(v) = n
        BY <1>0, <1>2
      <3> QED BY <1>0, <3>1 DEF v
    <2> QED BY <2>1 DEF Quantile, Interpolated, Q, i, r
  <1>7. i + 1 \in 1..n /\ Smaller(i + 2, n) \in 1..n /\ i + 1 <= Smaller(i + 2, n)
    BY <1>0, <1>3, <1>5 DEF Smaller
  <1>8. v[i + 1] \in ToSet(f) /\ v[Smaller(i + 2, n)] \in ToSet(f)
        /\ v[i + 1] <= v[Smaller(i + 2, n)]
    <2> HIDE DEF v
    <2> QED BY <1>2, <1>7
  <1>9. r # 0 => i + 2 <= n
    BY <1>0, <1>3, <1>5
  <1>10. i \in 0..(n - 1)
    BY <1>0, <1>3, <1>5
  <1> HIDE DEF pos
  <1> QED BY <1>3, <1>6, <1>8, <1>9, <1>10 DEF pos, Splits

\* A quantile is within the bounds of the values.
LEMMA QuantileInRange ==
    ASSUME NEW n \in Nat \ {0}, NEW w \in Nat, NEW f \in [1..n -> (-w)..w],
           NEW b \in Nat \ {0}, NEW a \in 0..b
    PROVE  /\ Quantile(f, Q(a, b)).num \in (-(w * b))..(w * b)
           /\ Quantile(f, Q(a, b)).den = b
  <1>0. f \in [1..n -> Int] /\ ToSet(f) \in SUBSET ((-w)..w) /\ Len(f) = n
    BY DEF ToSet
  <1>1. PICK i, r : Splits(f, n, a, b, i, r)
    BY <1>0, QuantileSplits
  <1> DEFINE low == Sorted(f)[i + 1]
             high == Sorted(f)[Smaller(i + 2, n)]
             x == low * b + r * (high - low)
  <1>2. Interpolated(f, b, i, r) = x
    BY <1>0 DEF Interpolated
  <1>3. low \in (-w)..w /\ high \in (-w)..w /\ low <= high /\ r \in 0..(b - 1)
    BY <1>0, <1>1 DEF Splits
  <1> HIDE DEF low, high
  <1>4. low * b <= x /\ x <= high * b /\ x \in Int
    BY <1>3, Interpolation
  <1>5. (-w) * b <= low * b /\ high * b <= w * b
    BY <1>3, Scaling
  <1>6. (-w) * b = -(w * b) /\ w * b \in Int /\ low * b \in Int /\ high * b \in Int
    BY <1>3
  <1> HIDE DEF x
  <1>7. x \in (-(w * b))..(w * b)
    BY <1>4, <1>5, <1>6
  <1>8. Quantile(f, Q(a, b)) = Q(x, b)
    BY <1>1, <1>2 DEF Splits
  <1> QED BY <1>7, <1>8 DEF Q

\* A quantile further up is no less.
LEMMA QuantilesAreOrdered ==
    ASSUME NEW n \in Nat \ {0}, NEW f \in [1..n -> Int], NEW b \in Nat \ {0},
           NEW a \in 0..b, NEW c \in 0..b, a <= c
    PROVE  /\ Quantile(f, Q(a, b)).num \in Int /\ Quantile(f, Q(c, b)).num \in Int
           /\ Quantile(f, Q(a, b)).num <= Quantile(f, Q(c, b)).num
  <1>1. PICK i, r : Splits(f, n, a, b, i, r)
    BY QuantileSplits
  <1>2. PICK j, q : Splits(f, n, c, b, j, q)
    BY QuantileSplits
  <1> DEFINE v == Sorted(f)
             low == v[i + 1]
             high == v[Smaller(i + 2, n)]
             low2 == v[j + 1]
             high2 == v[Smaller(j + 2, n)]
             x == low * b + r * (high - low)
             y == low2 * b + q * (high2 - low2)
  <1>3. Quantile(f, Q(a, b)).num = x /\ Quantile(f, Q(c, b)).num = y
    <2>1. Len(f) = n
      OBVIOUS
    <2> QED BY <1>1, <1>2, <2>1 DEF Splits, Interpolated, Q
  <1>4. /\ i \in 0..(n - 1) /\ r \in 0..(b - 1) /\ j \in 0..(n - 1) /\ q \in 0..(b - 1)
        /\ (n - 1) * a = i * b + r /\ (n - 1) * c = j * b + q
        /\ low <= high /\ low2 <= high2
    BY <1>1, <1>2 DEF Splits
  <1>5. low \in Int /\ high \in Int /\ low2 \in Int /\ high2 \in Int
    <2>1. ToSet(f) \in SUBSET Int
      BY DEF ToSet
    <2> QED BY <1>1, <1>2, <2>1 DEF Splits
  <1>6. i <= j /\ (i = j => r <= q)
    <2>1. a * (n - 1) <= c * (n - 1)
      BY Scaling
    <2>2. i * b + r <= j * b + q /\ i * b \in Int /\ j * b \in Int
      BY <1>4, <2>1
    <2>3. j + 1 <= i => (j + 1) * b <= i * b
      BY <1>4, Scaling
    <2>4. (j + 1) * b = j * b + b
      BY <1>4
    <2>5. ~ j + 1 <= i
      BY <1>4, <2>2, <2>3, <2>4
    <2> QED BY <1>4, <2>2, <2>5
  <1>7. x \in Int /\ x <= high * b /\ y \in Int /\ low2 * b <= y
    <2> HIDE DEF low, high, low2, high2
    <2> QED BY <1>4, <1>5, Interpolation
  <1>8. CASE i = j
    <2> DEFINE e == high - low
    <2>1. e \in Nat /\ x = low * b + r * e /\ y = low * b + q * e
      BY <1>4, <1>5, <1>8
    <2>2. r * e <= q * e
      <3> HIDE DEF e
      <3> QED BY <1>4, <1>6, <1>8, <2>1, Scaling
    <2>3. r * e \in Int /\ q * e \in Int /\ low * b \in Int
      <3> HIDE DEF e, low
      <3> QED BY <1>4, <1>5, <2>1
    <2>4. x <= y
      <3> HIDE DEF e, x, y, low
      <3> QED BY <2>1, <2>2, <2>3
    <2> HIDE DEF x, y
    <2> QED BY <1>3, <1>7, <2>4
  <1>9. CASE i # j
    <2>1. /\ Smaller(i + 2, n) \in 1..n /\ j + 1 \in 1..n
          /\ Smaller(i + 2, n) <= j + 1
      BY <1>4, <1>6, <1>9 DEF Smaller
    <2>2. high <= low2
      BY <2>1, SortedFacts
    <2> HIDE DEF low, high, low2, high2
    <2>3. high * b <= low2 * b /\ high * b \in Int /\ low2 * b \in Int
      BY <1>5, <2>2, Scaling
    <2> HIDE DEF x, y
    <2>4. x <= y
      BY <1>7, <2>3
    <2> QED BY <1>3, <1>7, <2>4
  <1> QED BY <1>8, <1>9

\* Two samples that mirror one another, and two probabilities that do.
Mirrors(n, f, g) ==
    f \in [1..n -> Int] /\ g \in [1..n -> Int] /\ \A k \in 1..n : g[k] = -f[k]
Ends(a, c, b) == b \in Nat \ {0} /\ a \in 0..b /\ c \in 0..b /\ a + c = b

\* The opposite quantile of the negated values is the negated quantile.
LEMMA QuantilesMirror ==
    ASSUME NEW n \in Nat \ {0}, NEW f, NEW g, Mirrors(n, f, g),
           NEW a, NEW c, NEW b, Ends(a, c, b)
    PROVE  Quantile(g, Q(c, b)).num = -Quantile(f, Q(a, b)).num
  <1>0. /\ f \in [1..n -> Int] /\ g \in [1..n -> Int] /\ \A k \in 1..n : g[k] = -f[k]
        /\ b \in Nat \ {0} /\ a \in 0..b /\ c \in 0..b /\ a + c = b
    BY DEF Mirrors, Ends
  <1> USE <1>0
  <1>1. PICK i, r : Splits(f, n, a, b, i, r)
    BY QuantileSplits
  <1>2. PICK j, q : Splits(g, n, c, b, j, q)
    BY QuantileSplits
  <1> DEFINE v == Sorted(f)
             w == Sorted(g)
             low == v[i + 1]
             high == v[Smaller(i + 2, n)]
             low2 == w[j + 1]
             high2 == w[Smaller(j + 2, n)]
             x == low * b + r * (high - low)
             y == low2 * b + q * (high2 - low2)
             k == n - 1 - i - j
  <1>3. Quantile(f, Q(a, b)).num = x /\ Quantile(g, Q(c, b)).num = y
    <2>1. Len(f) = n /\ Len(g) = n
      OBVIOUS
    <2>2. Interpolated(f, b, i, r) = x
      BY <2>1 DEF Interpolated
    <2>3. Interpolated(g, b, j, q) = y
      BY <2>1 DEF Interpolated
    <2> HIDE DEF x, y
    <2>4. Quantile(f, Q(a, b)) = Q(x, b) /\ Quantile(g, Q(c, b)) = Q(y, b)
      BY <1>1, <1>2, <2>2, <2>3 DEF Splits
    <2> QED BY <2>4 DEF Q
  <1>4. /\ i \in 0..(n - 1) /\ r \in 0..(b - 1) /\ j \in 0..(n - 1) /\ q \in 0..(b - 1)
        /\ (n - 1) * a = i * b + r /\ (n - 1) * c = j * b + q
        /\ (r # 0 => i + 2 <= n) /\ (q # 0 => j + 2 <= n)
    BY <1>1, <1>2 DEF Splits
  <1>5. low \in Int /\ high \in Int
    <2>1. ToSet(f) \in SUBSET Int
      BY DEF ToSet
    <2> QED BY <1>1, <2>1 DEF Splits
  <1>6. k \in Int /\ k * b = r + q
    <2>1. (n - 1) * (a + c) = (n - 1) * a + (n - 1) * c
      OBVIOUS
    <2>2. (n - 1) * b = i * b + r + j * b + q
      <3>1. (n - 1) * b = (n - 1) * (a + c)
        OBVIOUS
      <3>2. i * b \in Int /\ j * b \in Int /\ r \in Int /\ q \in Int
        BY <1>4
      <3>3. (n - 1) * b = (i * b + r) + (j * b + q)
        BY <1>4, <2>1, <3>1
      <3> QED BY <3>2, <3>3
    <2>3. k * b = (n - 1) * b - i * b - j * b
      BY <1>4
    <2>4. i * b \in Int /\ j * b \in Int /\ (n - 1) * b \in Int
      BY <1>4
    <2> QED BY <1>4, <2>2, <2>3, <2>4
  <1>7. k = 0 \/ k = 1
    <2> HIDE DEF k
    <2>1. k <= -1 => k * b <= (-1) * b
      BY <1>6, Scaling
    <2>2. 2 <= k => 2 * b <= k * b
      BY <1>6, Scaling
    <2>3. (-1) * b = -b /\ 2 * b = b + b /\ r + q \in 0..((b + b) - 2)
      BY <1>4
    <2>4. k * b = r + q
      BY <1>6
    <2>5. ~ k <= -1 /\ ~ 2 <= k
      BY <2>1, <2>2, <2>3, <2>4
    <2> QED BY <1>6, <2>5
  <1>8. \A h \in 1..n : w[h] = -v[n + 1 - h]
    BY SortedMirrors
  <1>9. CASE k = 0
    <2>1. r = 0 /\ q = 0
      BY <1>4, <1>6, <1>9
    <2>2. j + 1 \in 1..n /\ n + 1 - (j + 1) = i + 1
      BY <1>4, <1>9
    <2>3. low2 = -low
      BY <1>8, <2>2
    <2>4. x = low * b /\ y = low2 * b
      <3>1. high2 \in Int /\ low2 \in Int
        <4>1. ToSet(g) \in SUBSET Int
          BY DEF ToSet
        <4> QED BY <1>2, <4>1 DEF Splits
      <3> HIDE DEF low, high, low2, high2
      <3> QED BY <1>5, <2>1, <3>1
    <2> HIDE DEF low, low2, x, y
    <2>5. y = -x
      BY <1>5, <2>3, <2>4
    <2> QED BY <1>3, <2>5
  <1>10. CASE k = 1
    <2>1. r # 0 /\ q = b - r
      BY <1>4, <1>6, <1>10
    <2>2. /\ j + 1 \in 1..n /\ n + 1 - (j + 1) = i + 2
          /\ j + 2 \in 1..n /\ n + 1 - (j + 2) = i + 1
          /\ Smaller(i + 2, n) = i + 2 /\ Smaller(j + 2, n) = j + 2
      BY <1>4, <1>10, <2>1 DEF Smaller
    <2>3. low2 = -high /\ high2 = -low
      BY <1>8, <2>2
    <2> HIDE DEF low, high, low2, high2
    <2>4. y = (-high) * b + (b - r) * ((-low) - (-high))
      BY <2>1, <2>3
    <2>5. (-high) * b + (b - r) * ((-low) - (-high)) = -(low * b + r * (high - low))
      BY <1>4, <1>5
    <2> HIDE DEF x, y
    <2>6. y = -x
      BY <2>4, <2>5 DEF x
    <2> QED BY <1>3, <2>6
  <1> QED BY <1>7, <1>9, <1>10

-----------------------------------------------------------------------------

\* The number of training seeds, and the differences of n items by seed.
M == Len(Seeds)
Measures(d, n) == d \in [1..n -> [1..M -> (-1)..1]]

LEMMA BoundFacts ==
    /\ Scale \in Nat \ {0} /\ BootstrapBatch \in Nat \ {0}
    /\ RandomizationBatch \in Nat \ {0} /\ MaxCells \in Nat \ {0}
  BY BoundsAssumption

LEMMA SeedFacts == M \in Nat \ {0} /\ DOMAIN Seeds = 1..M
  BY BoundsAssumption DEF M

LEMMA DifferencesMeasure ==
    ASSUME NEW p, NEW c, NEW n \in Nat \ {0}, DOMAIN p.levels = 1..n
    PROVE  Measures(Differences(p, c), n)
  <1> DEFINE unit(b) == IF b THEN 1 ELSE 0
             of(i, s) == unit(p.correct[c.treatment][i][s]) - unit(p.correct[c.control][i][s])
  <1>1. Differences(p, c) = [i \in 1..n |-> [s \in 1..M |-> of(i, s)]]
    BY SeedFacts DEF Differences
  <1>2. ASSUME NEW i, NEW s PROVE of(i, s) \in (-1)..1
    <2>1. \A x, y \in {0, 1} : x - y \in (-1)..1
      OBVIOUS
    <2>2. unit(p.correct[c.treatment][i][s]) \in {0, 1}
      OBVIOUS
    <2>3. unit(p.correct[c.control][i][s]) \in {0, 1}
      OBVIOUS
    <2> HIDE DEF unit
    <2> QED BY <2>1, <2>2, <2>3
  <1> HIDE DEF of
  <1>3. [i \in 1..n |-> [s \in 1..M |-> of(i, s)]] \in [1..n -> [1..M -> (-1)..1]]
    BY <1>2
  <1> QED BY <1>1, <1>3 DEF Measures

\* The sums over the seeds of an item, over the items of a seed, and over all.
LEMMA UnitFacts ==
    ASSUME NEW n \in Nat \ {0}, NEW d, Measures(d, n)
    PROVE  /\ Len(d) = n /\ DOMAIN d = 1..n
           /\ Units(d) \in [1..n -> (-M)..M]
           /\ Size(d) = n * M /\ n * M \in Nat \ {0}
           /\ SumOf(Units(d)) \in (-(n * M))..(n * M)
  <1>1. Len(d) = n /\ DOMAIN d = 1..n
    BY DEF Measures
  <1>2. Units(d) \in [1..n -> (-M)..M]
    <2>1. ASSUME NEW i \in 1..n PROVE SumOf(d[i]) \in (-M)..M
      <3>1. d[i] \in [1..M -> (-1)..1] /\ M \in Nat /\ 1 \in Nat /\ M * 1 = M
        BY SeedFacts DEF Measures
      <3>2. SumOf(d[i]) \in (-(M * 1))..(M * 1)
        BY <3>1, SumBounded
      <3> QED BY <3>1, <3>2
    <2> QED BY <1>1, <2>1 DEF Units
  <1>3. Size(d) = n * M /\ n * M \in Nat \ {0}
    BY <1>1, SeedFacts DEF Size, M
  <1>4. SumOf(Units(d)) \in (-(n * M))..(n * M)
    BY <1>2, SeedFacts, SumBounded
  <1> QED BY <1>1, <1>2, <1>3, <1>4

\* A fraction from -1 to 1.
LEMMA InRange ==
    ASSUME NEW e \in Nat \ {0}, NEW x \in (-e)..e
    PROVE  RationalHolds(Q(x, e))
  BY DEF RationalHolds, Less, Q

\* The estimate is the mean of the seeds', and all are in range.
LEMMA EffectFacts ==
    ASSUME NEW n \in Nat \ {0}, NEW d, Measures(d, n)
    PROVE  /\ RationalHolds(Effect(d))
           /\ \A s \in DOMAIN SeedEffects(d) : RationalHolds(SeedEffects(d)[s])
           /\ LET e == SeedEffects(d)
                  sum == SumOf([s \in DOMAIN e |-> e[s].num])
              IN  Same(Effect(d), Q(sum, e[1].den * Len(e)))
  <1> DEFINE e == SeedEffects(d)
             column(s) == [i \in 1..n |-> d[i][s]]
             sums == [s \in 1..M |-> SumOf(column(s))]
  <1>1. RationalHolds(Effect(d))
    BY UnitFacts, InRange DEF Effect
  <1>2. e = [s \in 1..M |-> Q(sums[s], n)]
    BY UnitFacts, SeedFacts DEF SeedEffects
  <1>3. ASSUME NEW s \in 1..M PROVE sums[s] \in (-n)..n
    <2>1. column(s) \in [1..n -> (-1)..1] /\ 1 \in Nat /\ n * 1 = n /\ n \in Nat
      <3>1. \A i \in 1..n : d[i] \in [1..M -> (-1)..1]
        BY DEF Measures
      <3>2. \A i \in 1..n : d[i][s] \in (-1)..1
        BY <3>1
      <3> QED BY <3>2
    <2> HIDE DEF column
    <2>2. SumOf(column(s)) \in (-(n * 1))..(n * 1)
      BY <2>1, SumBounded
    <2> QED BY <2>1, <2>2
  <1>4. \A s \in DOMAIN e : RationalHolds(e[s])
    <2> HIDE DEF sums, e
    <2> QED BY <1>2, <1>3, InRange
  <1>5. SumOf(Units(d)) = SumOf(sums)
    <2>1. n \in Nat /\ M \in Nat /\ d \in [1..n -> [1..M -> Int]]
      BY SeedFacts DEF Measures
    <2>2. SumOf([i \in 1..n |-> SumOf(d[i])]) = SumOf(sums)
      BY <2>1, SumSwaps
    <2> QED BY <2>2, UnitFacts DEF Units
  <1>6. DOMAIN e = 1..M /\ Len(e) = M /\ e[1].den = n
    <2> HIDE DEF sums, e
    <2>1. 1 \in 1..M /\ M \in Nat
      BY SeedFacts
    <2>2. e[1] = Q(sums[1], n) /\ DOMAIN e = 1..M
      BY <1>2, <2>1
    <2>3. Len(e) = M
      BY <1>2, <2>1
    <2> QED BY <2>2, <2>3 DEF Q
  <1>7. [s \in DOMAIN e |-> e[s].num] = sums
    <2>1. \A s \in 1..M : e[s].num = sums[s]
      BY <1>2 DEF Q
    <2>2. sums = [s \in 1..M |-> sums[s]]
      OBVIOUS
    <2> HIDE DEF sums, e
    <2> QED BY <1>6, <2>1, <2>2
  <1>8. Same(Effect(d), Q(SumOf(sums), n * M))
    <2> HIDE DEF sums
    <2> QED BY <1>5, UnitFacts DEF Same, Effect, Q
  <1> HIDE DEF e, sums
  <1>9. Same(Effect(d), Q(SumOf([s \in DOMAIN e |-> e[s].num]), e[1].den * Len(e)))
    BY <1>6, <1>7, <1>8
  <1> QED BY <1>1, <1>4, <1>9 DEF e

\* An interval is in range, and its ends are in order.
LEMMA IntervalFacts ==
    ASSUME NEW w \in Nat \ {0}, NEW r \in Nat \ {0}, NEW f \in [1..r -> (-w)..w],
           NEW c \in 1..(Scale - 1)
    PROVE  LET i == Interval(f, w, c) IN
           RationalHolds(i.lower) /\ RationalHolds(i.upper) /\ ~ Less(i.upper, i.lower)
  <1> DEFINE b == 2 * Scale
             a == Scale - c
             z == Scale + c
             x == Quantile(f, Q(a, b)).num
             y == Quantile(f, Q(z, b)).num
             i == Interval(f, w, c)
  <1>1. b \in Nat \ {0} /\ a \in 0..b /\ z \in 0..b /\ a <= z /\ w \in Nat
    BY BoundFacts
  <1>2. f \in [1..r -> Int]
    OBVIOUS
  <1> HIDE DEF b, a, z
  <1>3. ASSUME NEW k \in 0..b
        PROVE  /\ Quantile(f, Q(k, b)).num \in (-(w * b))..(w * b)
               /\ Quantile(f, Q(k, b)).den = b
    <2> HIDE DEF x, y, i
    <2>1. b \in Nat \ {0} /\ w \in Nat
      BY <1>1
    <2> QED BY <2>1, QuantileInRange
  <1>4. /\ x \in (-(w * b))..(w * b) /\ Quantile(f, Q(a, b)).den = b
        /\ y \in (-(w * b))..(w * b) /\ Quantile(f, Q(z, b)).den = b
    BY <1>1, <1>3
  <1>5. x <= y
    BY <1>1, <1>2, QuantilesAreOrdered
  <1>6. i.lower = Q(x, b * w) /\ i.upper = Q(y, b * w)
    <2>1. /\ i.lower = LET q == Quantile(f, Q(a, b)) IN Q(q.num, q.den * w)
          /\ i.upper = LET q == Quantile(f, Q(z, b)) IN Q(q.num, q.den * w)
      BY DEF Interval, a, b, z
    <2> QED BY <1>4, <2>1
  <1> HIDE DEF x, y
  <1>7. b * w \in Nat \ {0} /\ b * w = w * b
    BY <1>1
  <1>8. RationalHolds(Q(x, b * w)) /\ RationalHolds(Q(y, b * w))
    BY <1>4, <1>7, InRange
  <1>9. ~ Less(Q(y, b * w), Q(x, b * w))
    <2> DEFINE u == b * w
    <2>1. u \in Nat /\ x \in Int /\ y \in Int
      BY <1>4, <1>7
    <2> HIDE DEF u
    <2>2. x * u <= y * u /\ x * u \in Int /\ y * u \in Int
      BY <1>5, <2>1, Scaling
    <2>3. ~ y * u < x * u
      BY <2>2
    <2>4. ~ Less(Q(y, u), Q(x, u))
      BY <2>3 DEF Less, Q
    <2> QED BY <2>4 DEF u
  <1> HIDE DEF i
  <1> QED BY <1>6, <1>8, <1>9 DEF i

\* What an analysis may rely on in its protocol.
ProtocolIsTyped(p) ==
    /\ p.bootstraps \in Nat \ {0} /\ p.randomizations \in Nat \ {0}
    /\ p.confidence \in 1..(Scale - 1) /\ p.equivalence \in 1..(Scale - 1)
    /\ p.practical \in 1..(Scale - 1) /\ p.margin \in 1..(Scale - 1)

LEMMA ProtocolsAreTyped == ASSUME NEW p, ProtocolHolds(p) PROVE ProtocolIsTyped(p)
  BY DEF ProtocolHolds, ProtocolIsTyped

\* The fraction of a p-value: between 0 and 1, not 0.
Positive(q) == q.num \in Nat \ {0} /\ q.den \in Nat \ {0} /\ q.num <= q.den

\* Evidence from bounded totals and a count within the repetitions passes the
\* checks of a result.
LEMMA EvidencePasses ==
    ASSUME NEW n \in Nat \ {0}, NEW d, Measures(d, n), NEW p, ProtocolIsTyped(p),
           NEW r \in Nat \ {0}, NEW f \in [1..r -> (-(n * M))..(n * M)],
           NEW x \in 0..p.randomizations
    PROVE  LET e == Evidence(d, f, x, p) IN EvidenceHolds(e) /\ Positive(e.p)
  <1> DEFINE e == Evidence(d, f, x, p)
             k == p.randomizations
  <1>1. k \in Nat \ {0} /\ x \in 0..k
    BY DEF ProtocolIsTyped
  <1> HIDE DEF k
  <1>2. /\ e.point = Effect(d) /\ e.seeds = SeedEffects(d)
        /\ e.interval = Interval(f, n * M, p.confidence)
        /\ e.equivalence = Interval(f, n * M, p.equivalence)
        /\ e.extremes = x /\ e.repetitions = k /\ e.p = Q(x + 1, k + 1)
    BY UnitFacts DEF Evidence, PValue, k
  <1> HIDE DEF e
  <1>3. n * M \in Nat \ {0}
    BY UnitFacts
  <1>4. /\ RationalHolds(e.interval.lower) /\ RationalHolds(e.interval.upper)
        /\ ~ Less(e.interval.upper, e.interval.lower)
    <2> DEFINE w == n * M
               c == p.confidence
    <2>1. w \in Nat \ {0} /\ c \in 1..(Scale - 1) /\ f \in [1..r -> (-w)..w]
      BY <1>3 DEF ProtocolIsTyped
    <2>2. e.interval = Interval(f, w, c)
      BY <1>2
    <2> HIDE DEF w, c
    <2> QED BY <2>1, <2>2, IntervalFacts
  <1>5. /\ RationalHolds(e.equivalence.lower) /\ RationalHolds(e.equivalence.upper)
        /\ ~ Less(e.equivalence.upper, e.equivalence.lower)
    <2> DEFINE w == n * M
               c == p.equivalence
    <2>1. w \in Nat \ {0} /\ c \in 1..(Scale - 1) /\ f \in [1..r -> (-w)..w]
      BY <1>3 DEF ProtocolIsTyped
    <2>2. e.equivalence = Interval(f, w, c)
      BY <1>2
    <2> HIDE DEF w, c
    <2> QED BY <2>1, <2>2, IntervalFacts
  <1>6. e.p = Q(x + 1, k + 1) /\ Positive(e.p) /\ RationalHolds(e.p)
    <2>1. k + 1 \in Nat \ {0} /\ x + 1 \in (-(k + 1))..(k + 1) /\ x + 1 \in Nat \ {0}
          /\ x + 1 <= k + 1
      BY <1>1
    <2>2. RationalHolds(Q(x + 1, k + 1))
      BY <2>1, InRange
    <2> QED BY <1>2, <2>1, <2>2 DEF Positive, Q
  <1>7. \A a \in ToSet(e.seeds) : RationalHolds(a)
    BY <1>2, EffectFacts DEF ToSet
  <1>8. RationalHolds(e.point)
    BY <1>2, EffectFacts
  <1>9. Same(e.point, Q(SumOf([s \in DOMAIN e.seeds |-> e.seeds[s].num]),
                        e.seeds[1].den * Len(e.seeds)))
    BY <1>2, EffectFacts
  <1>10. e.extremes \in 0..e.repetitions /\ Same(e.p, Q(e.extremes + 1, e.repetitions + 1))
    BY <1>1, <1>2 DEF Same, Q
  <1>11. EvidenceHolds(e)
    BY <1>4, <1>5, <1>6, <1>7, <1>8, <1>9, <1>10 DEF EvidenceHolds
  <1> QED BY <1>6, <1>11 DEF e

-----------------------------------------------------------------------------

\* A batch is not empty and not larger than what is left.
LEMMA BatchFacts ==
    ASSUME NEW limit \in Nat \ {0}, NEW width \in Nat \ {0},
           NEW repetitions \in Nat, NEW done \in Nat, done < repetitions
    PROVE  BatchSize(limit, width, done, repetitions) \in 1..(repetitions - done)
  <1>1. MaxCells \div width \in Nat
    BY BoundFacts, Division
  <1>2. Larger(1, MaxCells \div width) \in Nat \ {0}
    BY <1>1 DEF Larger
  <1> QED BY <1>2 DEF BatchSize, Smaller

\* Some of n places.
LEMMA SomePlaces ==
    ASSUME NEW n \in Nat, NEW t \in SUBSET (1..n)
    PROVE  IsFiniteSet(t) /\ Cardinality(t) \in 0..n /\ (t # {} => Cardinality(t) \in 1..n)
  <1>1. IsFiniteSet(1..n) /\ Cardinality(1..n) = n
    BY FS_Interval
  <1>2. IsFiniteSet(t) /\ Cardinality(t) <= Cardinality(1..n)
    BY <1>1, FS_Subset
  <1>3. Cardinality(t) \in Nat /\ (Cardinality(t) = 0 <=> t = {})
    BY <1>2, FS_CardinalityType, FS_EmptySet
  <1>4. Cardinality(t) <= n
    BY <1>1, <1>2
  <1> DEFINE c == Cardinality(t)
  <1>5. c \in 0..n /\ (c # 0 => c \in 1..n)
    <2>1. c \in Nat /\ c <= n
      BY <1>3, <1>4
    <2> HIDE DEF c
    <2> QED BY <2>1
  <1> QED BY <1>2, <1>3, <1>5

\* The widest stratum has items.
LEMMA WidestIsSome ==
    ASSUME NEW n \in Nat \ {0}, NEW levels, DOMAIN levels = 1..n
    PROVE  Max({Cardinality(s) : s \in Strata(levels)}) \in Nat \ {0}
  <1> DEFINE widths == {Cardinality(s) : s \in Strata(levels)}
  <1>1. ASSUME NEW s \in Strata(levels) PROVE Cardinality(s) \in 1..n
    <2>1. s \in SUBSET (1..n) /\ s # {}
      BY DEF Strata
    <2> QED BY <2>1, SomePlaces
  <1>2. widths \in SUBSET (1..n)
    BY <1>1
  <1>3. widths # {}
    <2>1. {i \in 1..n : levels[i] = levels[1]} \in Strata(levels)
      <3>1. 1 \in DOMAIN levels /\ DOMAIN levels = 1..n
        OBVIOUS
      <3> QED BY <3>1 DEF Strata
    <2> QED BY <2>1
  <1> HIDE DEF widths
  <1>4. Max(widths) \in widths
    BY <1>2, <1>3, MaxOfSome
  <1>5. Max(widths) \in 1..n
    BY <1>2, <1>4
  <1> QED BY <1>5 DEF widths

\* A resampled total is within the bounds of the totals.
LEMMA ResampledInRange ==
    ASSUME NEW n \in Nat, NEW w \in Nat, NEW units \in [1..n -> (-w)..w], NEW levels,
           NEW total \in Resampled(units, levels)
    PROVE  total \in (-(n * w))..(n * w)
  <1>1. PICK draw \in [1..n -> 1..n] : total = SumOf([i \in 1..n |-> units[draw[i]]])
    BY DEF Resampled
  <1> DEFINE drawn == [i \in 1..n |-> units[draw[i]]]
  <1>2. drawn \in [1..n -> (-w)..w]
    OBVIOUS
  <1>3. total = SumOf(drawn)
    BY <1>1
  <1> HIDE DEF drawn
  <1> QED BY <1>2, <1>3, SumBounded

\* A fraction from 0 to 1.
Probability(q) == q.num \in Nat /\ q.den \in Nat \ {0} /\ q.num <= q.den

\* Holm's order and its candidates.
Before(p, h, k) == Less(p[h], p[k]) \/ (Same(p[h], p[k]) /\ h <= k)
Remaining(p, h) == (Len(p) - Cardinality({k \in DOMAIN p : Before(p, k, h)})) + 1
Candidate(p, h) ==
    LET scaled == Q(Remaining(p, h) * p[h].num, p[h].den)
    IN  IF Less(Q(1, 1), scaled) THEN Q(1, 1) ELSE scaled

\* The adjusted p-value is the highest of the candidates up to it.
Steps(p, h, k) ==
    /\ k \in 1..2 /\ Before(p, k, h) /\ Holm(p)[h] = Candidate(p, k)
    /\ \A j \in 1..2 : Before(p, j, h) => ~ Less(Candidate(p, k), Candidate(p, j))

LEMMA HolmSteps ==
    ASSUME NEW p, DOMAIN p = 1..2, Len(p) = 2, \A k \in 1..2 : Positive(p[k]), NEW h \in 1..2
    PROVE  /\ \A i \in 1..2 : Probability(Candidate(p, i))
           /\ \E k \in 1..2 : Steps(p, h, k)
  <1> DEFINE before(i, k) == Before(p, i, k)
             candidate(i) == Candidate(p, i)
             scaled(i) == Q(Remaining(p, i) * p[i].num, p[i].den)
             Highest1(k) == /\ before(k, h)
                            /\ \A j \in DOMAIN p : before(j, h) => ~ Less(candidate(k), candidate(j))
             chosen == CHOOSE k \in DOMAIN p : Highest1(k)
  <1>1. Holm(p)[h] = candidate(chosen)
    BY DEF Holm, Before, Candidate, Remaining
  <1>2. ASSUME NEW i \in 1..2 PROVE Remaining(p, i) \in 1..3
    <2> DEFINE t == {k \in DOMAIN p : Before(p, k, i)}
    <2>1. t \in SUBSET (1..2)
      OBVIOUS
    <2> HIDE DEF t
    <2>2. Cardinality(t) \in 0..2
      BY <2>1, SomePlaces
    <2> QED BY <2>2 DEF t, Remaining
  <1>3. ASSUME NEW i \in 1..2 PROVE Probability(candidate(i))
    <2> DEFINE times == Remaining(p, i)
               a == p[i].num
               b == p[i].den
    <2>1. times \in 1..3 /\ a \in Nat \ {0} /\ b \in Nat \ {0}
      BY <1>2 DEF Positive
    <2>2. scaled(i) = Q(times * a, b)
      OBVIOUS
    <2>3. times * a \in Nat
      <3> HIDE DEF times, a, b
      <3> QED BY <2>1
    <2>4. ~ Less(Q(1, 1), scaled(i)) => times * a <= b
      <3> HIDE DEF times, a, b, scaled
      <3> QED BY <2>1, <2>2, <2>3 DEF Less, Q
    <2>5. candidate(i) = IF Less(Q(1, 1), scaled(i)) THEN Q(1, 1) ELSE scaled(i)
      BY DEF Candidate
    <2> HIDE DEF times, a, b, scaled, candidate
    <2> QED BY <2>1, <2>2, <2>3, <2>4, <2>5 DEF Probability, Q
  <1> HIDE DEF candidate
  <1>4. before(h, h)
    BY DEF Same, Before
  <1> HIDE DEF before
  <1>5. \A i, j \in 1..2 : ~ Less(candidate(i), candidate(j)) \/ ~ Less(candidate(j), candidate(i))
    <2> TAKE i, j \in 1..2
    <2>1. \A x, y \in Int : ~ x < y \/ ~ y < x
      OBVIOUS
    <2>2. /\ candidate(i).num \in Int /\ candidate(i).den \in Int
          /\ candidate(j).num \in Int /\ candidate(j).den \in Int
      BY <1>3 DEF Probability
    <2>3. /\ candidate(i).num * candidate(j).den \in Int
          /\ candidate(j).num * candidate(i).den \in Int
      BY <2>2
    <2> QED BY <2>1, <2>3 DEF Less
  <1>6. \E k \in 1..2 : Highest1(k)
    <2>1. \A j : j \in DOMAIN p <=> j = 1 \/ j = 2
      OBVIOUS
    <2>2. \A k \in 1..2 : ~ Less(candidate(k), candidate(k))
      BY <1>5
    <2>3. h = 1 \/ h = 2
      OBVIOUS
    <2>4. before(1, h) \/ before(2, h)
      BY <1>4, <2>3
    <2>5. ~ Less(candidate(1), candidate(2)) \/ ~ Less(candidate(2), candidate(1))
      BY <1>5
    <2>6. ~ Less(candidate(1), candidate(1)) /\ ~ Less(candidate(2), candidate(2))
      BY <2>2
    <2>7. CASE before(1, h) /\ before(2, h)
      BY <2>1, <2>5, <2>6, <2>7
    <2>8. CASE ~ before(2, h)
      BY <2>1, <2>4, <2>6, <2>8
    <2>9. CASE ~ before(1, h)
      BY <2>1, <2>4, <2>6, <2>9
    <2> QED BY <2>7, <2>8, <2>9
  <1>7. chosen \in 1..2 /\ Highest1(chosen)
    <2> HIDE DEF Highest1
    <2> QED BY <1>6
  <1> HIDE DEF chosen
  <1>8. Steps(p, h, chosen)
    BY <1>1, <1>7 DEF Steps, before, candidate
  <1> QED BY <1>3, <1>7, <1>8 DEF candidate

\* Holm's adjustment of two p-values yields probabilities.
LEMMA HolmIsProbability ==
    ASSUME NEW p, DOMAIN p = 1..2, Len(p) = 2, \A k \in 1..2 : Positive(p[k]), NEW h \in 1..2
    PROVE  Probability(Holm(p)[h])
  <1>1. PICK k \in 1..2 : Steps(p, h, k)
    BY HolmSteps
  <1> QED BY <1>1, HolmSteps DEF Steps

\* The counts of a report.
Tallied(levels) ==
    SetToSeq({[level |-> levels[i],
               count |-> Cardinality({j \in DOMAIN levels : levels[j] = levels[i]})] :
              i \in DOMAIN levels})

\* They add up to the items.
LEMMA CountsAddUp ==
    ASSUME NEW n \in Nat, NEW levels, DOMAIN levels = 1..n
    PROVE  SumOf([k \in DOMAIN Tallied(levels) |-> Tallied(levels)[k].count]) = n
  <1> DEFINE alike(i) == {j \in 1..n : levels[j] = levels[i]}
             entry == [i \in 1..n |-> [level |-> levels[i], count |-> Cardinality(alike(i))]]
             T == {entry[i] : i \in 1..n}
             c == Cardinality(T)
             counts == SetToSeq(T)
  <1>1. IsFiniteSet(T) /\ c \in Nat
    <2>1. entry \in Surjection(1..n, T)
      BY DEF Surjection
    <2>2. IsFiniteSet(1..n)
      BY FS_Interval
    <2> HIDE DEF entry, T
    <2>3. IsFiniteSet(T)
      BY <2>1, <2>2, FS_Surjection
    <2> QED BY <2>3, FS_CardinalityType
  <1>2. \A i \in 1..n : Cardinality(alike(i)) \in Nat
    BY SomePlaces
  <1> HIDE DEF T, c
  <1>3. counts \in [1..c -> T] /\ IsInjective(counts)
    <2>1. \E f : f \in Bijection(1..c, T)
      BY <1>1, FS_CardinalityType DEF c, ExistsBijection
    <2>2. \E f \in [1..Cardinality(T) -> T] : IsInjective(f)
      BY <2>1 DEF Bijection, Injection, IsInjective, c
    <2> QED BY <2>2 DEF SetToSeq, c
  <1> HIDE DEF counts
  <1>4. \A x \in T : \E k \in 1..c : counts[k] = x
    <2>1. counts \in Injection(1..c, T)
      BY <1>3 DEF Injection, IsInjective
    <2>2. Cardinality(1..c) = c /\ IsFiniteSet(1..c)
      BY <1>1, FS_Interval
    <2>3. counts \in Surjection(1..c, T)
      BY <1>1, <2>1, <2>2, FS_Injection DEF c
    <2> QED BY <2>3 DEF Surjection
  <1>5. \A k \in 1..c : \E i \in 1..n : counts[k] = entry[i]
    BY <1>3 DEF T
  <1> DEFINE covered(k) == {j \in 1..n : \E l \in 1..k : levels[j] = counts[l].level}
             number == [k \in 1..c |-> counts[k].count]
             first(k) == [l \in 1..k |-> number[l]]
             S == {k \in Nat : k <= c => SumOf(first(k)) = Cardinality(covered(k))}
  <1>6. ASSUME NEW k \in 1..c
        PROVE  /\ number[k] = Cardinality({j \in 1..n : levels[j] = counts[k].level})
               /\ number[k] \in Int
    <2>1. PICK i \in 1..n : counts[k] = entry[i]
      BY <1>5
    <2>2. counts[k].level = levels[i] /\ counts[k].count = Cardinality(alike(i))
      BY <2>1
    <2> QED BY <1>2, <2>2
  <1>7. \A k, l \in 1..c : counts[k].level = counts[l].level => k = l
    <2> SUFFICES ASSUME NEW k \in 1..c, NEW l \in 1..c, counts[k].level = counts[l].level
                 PROVE  k = l
      OBVIOUS
    <2>1. PICK i \in 1..n : counts[k] = entry[i]
      BY <1>5
    <2>2. PICK j \in 1..n : counts[l] = entry[j]
      BY <1>5
    <2>3. levels[i] = levels[j]
      BY <2>1, <2>2
    <2>4. entry[i] = entry[j]
      BY <2>3
    <2> HIDE DEF entry
    <2> QED BY <1>3, <2>1, <2>2, <2>4 DEF IsInjective
  <1> HIDE DEF entry, number
  <1>8. 0 \in S
    <2>1. first(0) \in [1..0 -> Int] /\ covered(0) = {}
      OBVIOUS
    <2> HIDE DEF first, covered
    <2> QED BY <2>1, SumOfNone, FS_EmptySet
  <1>9. ASSUME NEW k \in Nat, k \in S PROVE k + 1 \in S
    <2> SUFFICES ASSUME k + 1 <= c
                 PROVE  SumOf(first(k + 1)) = Cardinality(covered(k + 1))
      <3> HIDE DEF first, covered
      <3> QED BY k + 1 \in Nat
    <2> DEFINE new == {j \in 1..n : levels[j] = counts[k + 1].level}
    <2>1. k + 1 \in 1..c /\ k <= c /\ SumOf(first(k)) = Cardinality(covered(k))
      BY <1>1, <1>9
    <2>2. covered(k + 1) = covered(k) \cup new
      <3>1. \A l : l \in 1..(k + 1) <=> l \in 1..k \/ l = k + 1
        OBVIOUS
      <3> QED BY <3>1
    <2>3. covered(k) \cap new = {}
      <3> SUFFICES ASSUME NEW j \in 1..n, NEW l \in 1..k, levels[j] = counts[l].level,
                          levels[j] = counts[k + 1].level
                   PROVE  FALSE
        OBVIOUS
      <3>1. l \in 1..c /\ l # k + 1
        BY <1>1, <2>1
      <3> QED BY <1>7, <2>1, <3>1
    <2>4. SumOf(first(k + 1)) = SumOf(first(k)) + number[k + 1]
      <3>1. first(k + 1) \in [1..(k + 1) -> Int]
        <4>1. \A l \in 1..(k + 1) : l \in 1..c
          BY <1>1, <2>1
        <4> QED BY <1>6, <4>1
      <3>2. [l \in 1..k |-> first(k + 1)[l]] = first(k) /\ first(k + 1)[k + 1] = number[k + 1]
        OBVIOUS
      <3> HIDE DEF first
      <3> QED BY <3>1, <3>2, SumOfMore
    <2>5. number[k + 1] = Cardinality(new)
      BY <1>6, <2>1
    <2>6. /\ IsFiniteSet(covered(k)) /\ Cardinality(covered(k)) \in Nat
          /\ IsFiniteSet(new) /\ Cardinality(new) \in Nat
      <3>1. covered(k) \in SUBSET (1..n) /\ new \in SUBSET (1..n)
        OBVIOUS
      <3> HIDE DEF covered, new
      <3> QED BY <3>1, SomePlaces
    <2> HIDE DEF covered, new, first
    <2>7. Cardinality(covered(k) \cup new)
             = Cardinality(covered(k)) + Cardinality(new) - Cardinality({})
      BY <2>3, <2>6, FS_Union
    <2>8. Cardinality(covered(k) \cup new) = Cardinality(covered(k)) + Cardinality(new)
      BY <2>6, <2>7, FS_EmptySet
    <2>9. Cardinality(covered(k + 1)) = SumOf(first(k)) + number[k + 1]
      BY <2>1, <2>2, <2>5, <2>8
    <2> QED BY <2>4, <2>9
  <1>10. Nat \subseteq S
    <2> HIDE DEF S
    <2> QED BY <1>8, <1>9, Induction
  <1>11. SumOf(first(c)) = Cardinality(covered(c))
    <2>1. c \in Nat /\ c <= c
      BY <1>1
    <2> HIDE DEF first, covered
    <2> QED BY <1>10, <2>1
  <1>12. covered(c) = 1..n
    <2> SUFFICES ASSUME NEW j \in 1..n PROVE \E l \in 1..c : levels[j] = counts[l].level
      OBVIOUS
    <2>1. entry[j] \in T /\ entry[j].level = levels[j]
      BY DEF T, entry
    <2> QED BY <1>4, <2>1
  <1>13. first(c) = number /\ DOMAIN counts = 1..c
    BY <1>3 DEF number
  <1>14. SumOf([k \in DOMAIN counts |-> counts[k].count]) = n
    <2>1. Cardinality(1..n) = n
      BY FS_Interval
    <2> HIDE DEF first, covered
    <2> QED BY <1>11, <1>12, <1>13, <2>1 DEF number
  <1>15. Tallied(levels) = counts
    BY DEF T, entry, Tallied, counts
  <1> QED BY <1>14, <1>15

-----------------------------------------------------------------------------

\* The decision about C2 is of one of two shapes.
LEMMA ClassifyFacts ==
    ASSUME NEW e, NEW p
    PROVE  LET d == Classify(e, p) IN
           /\ DOMAIN d = {"assessed", "above", "below", "classification"}
           /\ \/ /\ d.assessed = TRUE /\ d.above \in BOOLEAN /\ d.below \in BOOLEAN
                 /\ d.classification \in {"practical_equivalence", "inconclusive"}
                 /\ d.classification = "practical_equivalence" => d.above = TRUE /\ d.below = TRUE
              \/ /\ d.assessed = FALSE /\ d.above = "null" /\ d.below = "null"
                 /\ d.classification \in {"superior_A3", "superior_A4"}
  <1> DEFINE d == Classify(e, p)
             above == Less(PPM(-p.margin), e.equivalence.lower)
             below == Less(e.equivalence.upper, PPM(p.margin))
             A3 == Less(Zero, e.interval.lower) /\ ~ Less(e.point, PPM(p.practical))
             A4 == Less(e.interval.upper, Zero) /\ ~ Less(PPM(-p.practical), e.point)
             superior(classification) ==
                [assessed |-> FALSE, above |-> "null", below |-> "null",
                 classification |-> classification]
             otherwise ==
                [assessed |-> TRUE, above |-> above, below |-> below,
                 classification |-> IF above /\ below THEN "practical_equivalence"
                                                      ELSE "inconclusive"]
  <1>1. d = CASE A3 -> superior("superior_A3") [] A4 -> superior("superior_A4")
              [] OTHER -> otherwise
    BY DEF Classify
  <1>2. above \in BOOLEAN /\ below \in BOOLEAN
    BY DEF Less
  <1> HIDE DEF d, A3, A4, above, below
  <1>3. d \in {superior("superior_A3"), superior("superior_A4"), otherwise}
    BY <1>1
  <1>4. CASE d = superior("superior_A3")
    BY <1>4 DEF d
  <1>5. CASE d = superior("superior_A4")
    BY <1>5 DEF d
  <1>6. CASE d = otherwise
    <2>1. /\ d.assessed = TRUE /\ d.above = above /\ d.below = below
          /\ d.classification = IF above /\ below THEN "practical_equivalence" ELSE "inconclusive"
          /\ DOMAIN d = {"assessed", "above", "below", "classification"}
      BY <1>6
    <2>2. above = TRUE \/ above = FALSE
      BY <1>2
    <2>3. below = TRUE \/ below = FALSE
      BY <1>2
    <2> QED BY <1>2, <2>1, <2>2, <2>3 DEF d
  <1> QED BY <1>3, <1>4, <1>5, <1>6

\* A report from evidence that passes its checks passes all of them.
LEMMA ReportPasses ==
    ASSUME NEW e, NEW p, NEW levels, Len(levels) \in Nat, DOMAIN levels = 1..Len(levels),
           \A k \in 1..3 : EvidenceHolds(e[k]) /\ Positive(e[k].p)
    PROVE  ReportHolds(Report(e, p, levels), p)
  <1> DEFINE r == Report(e, p, levels)
             pv == <<e[1].p, e[2].p>>
             adjusted == Holm(pv)
  <1>1. /\ \A h \in 1..2 : r.c1[h] = C1Result(e[h], adjusted[h], p)
        /\ r.c2 = C2Result(e[3], p)
        /\ r.items = Len(levels)
        /\ r.counts = Tallied(levels)
    BY DEF Report, Tallied
  <1>2. ASSUME NEW h \in 1..2 PROVE Probability(adjusted[h])
    <2>1. DOMAIN pv = 1..2 /\ Len(pv) = 2 /\ \A k \in 1..2 : Positive(pv[k])
      OBVIOUS
    <2> HIDE DEF pv
    <2> QED BY <2>1, HolmIsProbability
  <1> HIDE DEF r
  <1>3. ASSUME NEW h \in 1..2
        PROVE  /\ r.c1[h].evidence = e[h] /\ r.c1[h].adjusted = adjusted[h]
               /\ r.c1[h].unstable = Unstable(e[h].seeds)
               /\ r.c1[h].success => r.c1[h].superior
    <2> HIDE DEF adjusted
    <2> DEFINE superior == /\ Significant(adjusted[h], p)
                           /\ Less(Zero, e[h].interval.lower)
               success == superior /\ ~ Less(e[h].point, PPM(p.practical))
    <2>1. r.c1[h] = [evidence |-> e[h], unstable |-> Unstable(e[h].seeds),
                     adjusted |-> adjusted[h], superior |-> superior, success |-> success]
      BY <1>1 DEF C1Result
    <2>2. success => superior
      OBVIOUS
    <2> HIDE DEF superior, success
    <2>3. /\ r.c1[h].evidence = e[h] /\ r.c1[h].adjusted = adjusted[h]
          /\ r.c1[h].unstable = Unstable(e[h].seeds)
          /\ r.c1[h].superior = superior /\ r.c1[h].success = success
      BY <2>1
    <2> QED BY <2>2, <2>3
  <1>4. [h \in 1..2 |-> r.c1[h].evidence.p] = pv
    BY <1>3
  <1> HIDE DEF adjusted
  <1>5. ASSUME NEW h \in 1..2
        PROVE  /\ C1Holds(r.c1[h])
               /\ Same(r.c1[h].adjusted, adjusted[h])
               /\ r.c1[h] = C1Result(r.c1[h].evidence, r.c1[h].adjusted, p)
    <2>1. EvidenceHolds(r.c1[h].evidence)
      BY <1>3
    <2>2. ~ Less(adjusted[h], Zero) /\ ~ Less(Q(1, 1), adjusted[h])
      BY <1>2 DEF Probability, Less, Zero, Q
    <2>3. C1Holds(r.c1[h])
      BY <1>3, <2>1, <2>2 DEF C1Holds
    <2>4. Same(r.c1[h].adjusted, adjusted[h])
      BY <1>3 DEF Same
    <2>5. r.c1[h] = C1Result(r.c1[h].evidence, r.c1[h].adjusted, p)
      BY <1>1, <1>3
    <2> QED BY <2>3, <2>4, <2>5
  <1> DEFINE d == Classify(e[3], p)
  <1>6. /\ r.c2.evidence = e[3] /\ r.c2.unstable = Unstable(e[3].seeds)
        /\ r.c2.assessed = d.assessed /\ r.c2.above = d.above /\ r.c2.below = d.below
        /\ r.c2.classification = d.classification
    <2> HIDE DEF d
    <2> QED BY <1>1 DEF C2Result, d
  <1>7. /\ DOMAIN d = {"assessed", "above", "below", "classification"}
        /\ \/ /\ d.assessed = TRUE /\ d.above \in BOOLEAN /\ d.below \in BOOLEAN
              /\ d.classification \in {"practical_equivalence", "inconclusive"}
              /\ d.classification = "practical_equivalence" => d.above = TRUE /\ d.below = TRUE
           \/ /\ d.assessed = FALSE /\ d.above = "null" /\ d.below = "null"
              /\ d.classification \in {"superior_A3", "superior_A4"}
    BY ClassifyFacts
  <1> HIDE DEF d
  <1>8. C2Holds(r.c2)
    <2>1. EvidenceHolds(r.c2.evidence)
      BY <1>6
    <2>2. CASE d.assessed = TRUE
      BY <1>6, <1>7, <2>1, <2>2 DEF C2Holds
    <2>3. CASE d.assessed = FALSE
      <3>1. /\ d.above = "null" /\ d.below = "null"
            /\ d.classification = "superior_A3" \/ d.classification = "superior_A4"
        BY <1>7, <2>3
      <3>2. (d.classification \in {"practical_equivalence", "inconclusive"}) = FALSE
        BY <3>1
      <3>3. d.classification # "practical_equivalence"
        BY <3>1
      <3> QED BY <1>6, <2>1, <2>3, <3>1, <3>2, <3>3 DEF C2Holds
    <2> QED BY <1>7, <2>2, <2>3
  <1>9. \A key \in DOMAIN d : r.c2[key] = d[key]
    BY <1>6, <1>7
  <1>10. SumOf([k \in DOMAIN r.counts |-> r.counts[k].count]) = r.items
    <2> DEFINE n == Len(levels)
    <2>1. n \in Nat /\ DOMAIN levels = 1..n /\ r.items = n
      BY <1>1
    <2> HIDE DEF n
    <2> QED BY <1>1, <2>1, CountsAddUp
  <1>11. d = Classify(r.c2.evidence, p)
    BY <1>6 DEF d
  <1>12. adjusted = Holm([h \in 1..2 |-> r.c1[h].evidence.p])
    BY <1>4 DEF adjusted
  <1>13. ReportHolds(r, p)
    BY <1>5, <1>8, <1>9, <1>10, <1>11, <1>12 DEF ReportHolds
  <1> QED BY <1>13 DEF r

-----------------------------------------------------------------------------

Items == Len(panel.levels)
Bound == Items * M

\* A panel has items.
PanelInv ==
    phase \notin {"reports", "refused"} =>
        Items \in Nat \ {0} /\ DOMAIN panel.levels = 1..Items

\* The resamples and the flips so far, phase by phase.
SamplesInv ==
    /\ phase \in {"reports", "panel"} =>
          contrast = 1 /\ totals = <<>> /\ flips = 0 /\ extreme = 0 /\ evidence = <<>>
    /\ phase \in {"bootstrap", "randomize", "concluded"} =>
          /\ totals \in Seq((-Bound)..Bound)
          /\ flips \in Nat /\ extreme \in 0..flips
    /\ phase = "bootstrap" => Len(totals) < protocol.bootstraps /\ flips = 0
    /\ phase = "randomize" => Len(totals) = protocol.bootstraps /\ flips < protocol.randomizations
    /\ phase = "concluded" => Len(totals) = protocol.bootstraps /\ flips = protocol.randomizations

\* The evidence of the contrasts before this one.
EvidenceInv ==
    /\ contrast \in 1..3
    /\ evidence \in Seq(ToSet(evidence))
    /\ Len(evidence) = IF phase \in {"decide", "reported"} THEN 3 ELSE contrast - 1
    /\ \A k \in 1..Len(evidence) : EvidenceHolds(evidence[k]) /\ Positive(evidence[k].p)

IInv ==
    /\ campaign \in Campaigns
    /\ ProtocolHolds(protocol)
    /\ phase \in {"reports", "panel", "bootstrap", "randomize", "concluded", "decide",
                  "reported", "refused"}
    /\ PanelInv
    /\ SamplesInv
    /\ EvidenceInv
    /\ phase = "reported" => report = Report(evidence, protocol, panel.levels)

\* Nothing that the invariant reads changes when nothing changes.
LEMMA StutterKeeps == ASSUME IInv, UNCHANGED vars PROVE IInv'
  BY DEF IInv, PanelInv, SamplesInv, EvidenceInv, vars, Items, Bound, M

LEMMA InitHolds == ASSUME Init PROVE IInv
  <1>1. <<>> \in Seq(ToSet(<<>>)) /\ Len(<<>>) = 0
    OBVIOUS
  <1> QED BY <1>1 DEF Init, IInv, PanelInv, SamplesInv, EvidenceInv

LEMMA RefuseKeeps == ASSUME IInv, Refuse, phase \in {"reports", "panel"} PROVE IInv'
  BY DEF IInv, PanelInv, SamplesInv, EvidenceInv, Refuse, given

LEMMA BuildPanelKeeps == ASSUME IInv, BuildPanel PROVE IInv'
  <1> DEFINE ids == campaign.public.ids
  <1>1. ids \in Seq(ToSet(ids)) /\ ids # <<>>
    BY CampaignsAssumption DEF IInv, BuildPanel, PanelBuilds, PanelHolds
  <1>2. DOMAIN ids = 1..Len(ids) /\ Len(ids) \in Nat \ {0}
    <2> HIDE DEF ids
    <2> QED BY <1>1
  <1>3. panel'.levels = [i \in 1..Len(ids) |-> campaign.public.strata[i][campaign.stratum]]
    BY <1>2 DEF BuildPanel, Panel
  <1>4. Len(panel'.levels) = Len(ids) /\ DOMAIN panel'.levels = 1..Len(ids)
    <2> HIDE DEF ids
    <2> QED BY <1>2, <1>3
  <1>5. PanelInv'
    BY <1>2, <1>4 DEF PanelInv, Items
  <1> QED BY <1>5 DEF IInv, SamplesInv, EvidenceInv, BuildPanel, given

LEMMA AnalyzeKeeps == ASSUME IInv, Analyze PROVE IInv'
  <1>1. /\ phase = "panel" /\ phase' = "bootstrap" /\ protocol.bootstraps \in Nat \ {0}
        /\ UNCHANGED <<campaign, protocol, panel, contrast, totals, flips, extreme, evidence>>
    BY DEF IInv, Analyze, given, ProtocolHolds
  <1>2. totals = <<>> /\ flips = 0 /\ extreme = 0 /\ contrast = 1 /\ evidence = <<>>
    BY <1>1 DEF IInv, SamplesInv
  <1>3. <<>> \in Seq((-Bound)..Bound) /\ Len(<<>>) = 0 /\ 0 < protocol.bootstraps
    BY <1>1
  <1>4. SamplesInv'
    BY <1>1, <1>2, <1>3 DEF SamplesInv, Bound, Items, M
  <1>5. PanelInv' /\ EvidenceInv'
    BY <1>1, <1>2 DEF IInv, PanelInv, EvidenceInv, Items
  <1> QED BY <1>1, <1>4, <1>5 DEF IInv

\* The differences of the contrast being analysed.
LEMMA DifferenceFacts ==
    ASSUME IInv, phase \in {"bootstrap", "randomize", "concluded"}
    PROVE  /\ Items \in Nat \ {0} /\ DOMAIN panel.levels = 1..Items
           /\ Measures(Difference, Items)
           /\ Units(Difference) \in [1..Items -> (-M)..M]
           /\ DOMAIN Units(Difference) = 1..Items /\ Len(Units(Difference)) = Items
           /\ Bound \in Nat \ {0}
           /\ ProtocolIsTyped(protocol)
  <1>1. Items \in Nat \ {0} /\ DOMAIN panel.levels = 1..Items
    BY DEF IInv, PanelInv
  <1>2. Measures(Difference, Items)
    BY <1>1, DifferencesMeasure DEF Difference
  <1>3. Units(Difference) \in [1..Items -> (-M)..M] /\ Bound \in Nat \ {0}
    BY <1>1, <1>2, UnitFacts DEF Bound
  <1>4. DOMAIN Units(Difference) = 1..Items /\ Len(Units(Difference)) = Items
    BY <1>1, <1>3
  <1>5. ProtocolIsTyped(protocol)
    BY ProtocolsAreTyped DEF IInv
  <1> QED BY <1>1, <1>2, <1>3, <1>4, <1>5

LEMMA Joining ==
    ASSUME NEW V, NEW s \in Seq(V), NEW t \in Seq(V)
    PROVE  s \o t \in Seq(V) /\ Len(s \o t) = Len(s) + Len(t)
  OBVIOUS

LEMMA BootstrapKeeps == ASSUME IInv, Bootstrap PROVE IInv'
  <1> DEFINE widest == Max({Cardinality(s) : s \in Strata(panel.levels)})
             size == BatchSize(BootstrapBatch, widest, Len(totals), protocol.bootstraps)
             goal == protocol.bootstraps
  <1>1. /\ phase = "bootstrap" /\ phase' = IF Len(totals') >= goal THEN "randomize" ELSE "bootstrap"
        /\ UNCHANGED <<campaign, protocol, panel, contrast, flips, extreme, evidence>>
    BY DEF Bootstrap, given
  <1>2. PICK batch \in [1..size -> Resampled(Units(Difference), panel.levels)] :
           totals' = totals \o batch
    BY DEF Bootstrap
  <1>3. /\ totals \in Seq((-Bound)..Bound) /\ Len(totals) < goal /\ flips = 0 /\ extreme = 0
        /\ Len(totals) \in Nat
    BY <1>1 DEF IInv, SamplesInv
  <1>4. goal \in Nat \ {0} /\ protocol.randomizations \in Nat \ {0}
    BY <1>1, DifferenceFacts DEF ProtocolIsTyped
  <1>5. widest \in Nat \ {0}
    BY <1>1, DifferenceFacts, WidestIsSome
  <1> HIDE DEF widest, goal
  <1>6. size \in 1..(goal - Len(totals))
    BY <1>3, <1>4, <1>5, BatchFacts, BoundFacts DEF goal
  <1>7. \A x \in Resampled(Units(Difference), panel.levels) : x \in (-Bound)..Bound
    BY <1>1, DifferenceFacts, SeedFacts, ResampledInRange DEF Bound
  <1> HIDE DEF size
  <1> DEFINE V == (-Bound)..Bound
  <1>8. batch \in Seq(V) /\ Len(batch) = size
    <2>1. size \in Nat
      BY <1>6, <1>3, <1>4
    <2>2. batch \in [1..size -> V]
      BY <1>7
    <2> HIDE DEF V
    <2> QED BY <2>1, <2>2
  <1>9. totals' \in Seq((-Bound)..Bound) /\ Len(totals') = Len(totals) + size
    <2>1. totals \in Seq(V)
      BY <1>3
    <2>2. totals' \in Seq(V) /\ Len(totals') = Len(totals) + size
      <3> HIDE DEF V, size
      <3>1. totals' = totals \o batch
        BY <1>2
      <3>2. totals \o batch \in Seq(V) /\ Len(totals \o batch) = Len(totals) + Len(batch)
        BY <1>8, <2>1, Joining
      <3> QED BY <1>8, <3>1, <3>2
    <2> QED BY <2>2
  <1>10. Len(totals') \in Nat /\ Len(totals') <= goal
    BY <1>3, <1>4, <1>6, <1>9
  <1>11. goal' = goal /\ Bound' = Bound /\ Items' = Items
    BY <1>1 DEF goal, Bound, Items, M
  <1>12. SamplesInv'
    BY <1>1, <1>3, <1>4, <1>9, <1>10, <1>11 DEF SamplesInv, goal
  <1>13. PanelInv' /\ EvidenceInv'
    BY <1>1, <1>11 DEF IInv, PanelInv, EvidenceInv
  <1> QED BY <1>1, <1>12, <1>13 DEF IInv

LEMMA RandomizeKeeps == ASSUME IInv, Randomize PROVE IInv'
  <1> DEFINE units == Units(Difference)
             size == BatchSize(RandomizationBatch, Len(units), flips, protocol.randomizations)
             goal == protocol.randomizations
             hits(batch) == {k \in 1..size :
                                IsExtreme(units, batch[k], CONTRASTS[contrast].alternative)}
  <1>1. /\ phase = "randomize" /\ phase' = IF flips' >= goal THEN "concluded" ELSE "randomize"
        /\ flips' = flips + size
        /\ UNCHANGED <<campaign, protocol, panel, contrast, totals, evidence>>
    BY DEF Randomize, given
  <1>2. PICK batch : extreme' = extreme + Cardinality(hits(batch))
    BY DEF Randomize
  <1>3. /\ totals \in Seq((-Bound)..Bound) /\ Len(totals) = protocol.bootstraps
        /\ flips \in Nat /\ extreme \in 0..flips /\ flips < goal
    BY <1>1 DEF IInv, SamplesInv
  <1>4. goal \in Nat \ {0} /\ Len(units) \in Nat \ {0}
    BY <1>1, DifferenceFacts DEF ProtocolIsTyped
  <1> HIDE DEF units, goal
  <1>5. size \in 1..(goal - flips)
    BY <1>3, <1>4, BatchFacts, BoundFacts DEF goal
  <1> HIDE DEF size
  <1>6. Cardinality(hits(batch)) \in 0..size
    <2>1. size \in Nat
      BY <1>3, <1>4, <1>5
    <2>2. hits(batch) \in SUBSET (1..size)
      OBVIOUS
    <2> HIDE DEF hits
    <2> QED BY <2>1, <2>2, SomePlaces
  <1> HIDE DEF hits
  <1>7. flips' \in Nat /\ flips' <= goal /\ extreme' \in 0..(flips')
    BY <1>1, <1>2, <1>3, <1>4, <1>5, <1>6
  <1>8. goal' = goal /\ Bound' = Bound /\ Items' = Items
    BY <1>1 DEF goal, Bound, Items, M
  <1>9. SamplesInv'
    BY <1>1, <1>3, <1>4, <1>7, <1>8 DEF SamplesInv, goal
  <1>10. PanelInv' /\ EvidenceInv'
    BY <1>1, <1>8 DEF IInv, PanelInv, EvidenceInv
  <1> QED BY <1>1, <1>9, <1>10 DEF IInv

LEMMA ConcludeKeeps == ASSUME IInv, Conclude PROVE IInv'
  <1> DEFINE new == Evidence(Difference, totals, extreme, protocol)
  <1>1. /\ phase = "concluded" /\ phase' = IF contrast = 3 THEN "decide" ELSE "bootstrap"
        /\ evidence' = Append(evidence, new)
        /\ contrast' = Smaller(contrast + 1, 3)
        /\ totals' = <<>> /\ flips' = 0 /\ extreme' = 0
        /\ UNCHANGED <<campaign, protocol, panel>>
    BY DEF Conclude, given, CONTRASTS
  <1>2. /\ totals \in Seq((-Bound)..Bound) /\ Len(totals) = protocol.bootstraps
        /\ extreme \in 0..protocol.randomizations
    BY <1>1 DEF IInv, SamplesInv
  <1>3. protocol.bootstraps \in Nat \ {0} /\ protocol.randomizations \in Nat \ {0}
    BY <1>1, DifferenceFacts DEF ProtocolIsTyped
  <1>4. EvidenceHolds(new) /\ Positive(new.p)
    <2> DEFINE r == protocol.bootstraps
               n == Items
    <2> DEFINE V == (-Bound)..Bound
    <2>1. totals \in [1..r -> (-Bound)..Bound]
      <3>1. totals \in Seq(V) /\ Len(totals) = r
        BY <1>2
      <3>2. totals \in [1..r -> V]
        <4> HIDE DEF V, r
        <4> QED BY <3>1
      <3> QED BY <3>2
    <2>2. totals \in [1..r -> (-(n * M))..(n * M)]
      BY <2>1 DEF Bound
    <2>3. n \in Nat \ {0} /\ Measures(Difference, n) /\ ProtocolIsTyped(protocol)
      BY <1>1, DifferenceFacts
    <2>4. r \in Nat \ {0}
      BY <1>3
    <2> HIDE DEF r, n
    <2> QED BY <1>2, <2>2, <2>3, <2>4, EvidencePasses
  <1> HIDE DEF new
  <1>5. /\ contrast \in 1..3 /\ evidence \in Seq(ToSet(evidence)) /\ Len(evidence) = contrast - 1
        /\ \A k \in 1..Len(evidence) : EvidenceHolds(evidence[k]) /\ Positive(evidence[k].p)
    BY <1>1 DEF IInv, EvidenceInv
  <1>6. /\ Len(evidence') = contrast /\ DOMAIN evidence' = 1..contrast
        /\ \A k \in 1..contrast : evidence'[k] = IF k < contrast THEN evidence[k] ELSE new
        /\ \E V : evidence' \in Seq(V)
    <2> DEFINE V == ToSet(evidence) \cup {new}
    <2>1. evidence \in Seq(V) /\ new \in V
      <3>1. ToSet(evidence) \subseteq V
        OBVIOUS
      <3> HIDE DEF V
      <3> QED BY <1>5, <3>1 DEF V
    <2> HIDE DEF V
    <2> QED BY <1>1, <1>5, <2>1
  <1>7. evidence' \in Seq(ToSet(evidence'))
    <2>1. PICK V : evidence' \in Seq(V)
      BY <1>6
    <2>2. \A k \in 1..contrast : evidence'[k] \in ToSet(evidence')
      BY <1>6 DEF ToSet
    <2>3. evidence' \in [1..contrast -> ToSet(evidence')]
      BY <1>5, <1>6, <2>1, <2>2
    <2> QED BY <1>5, <2>3
  <1>8. EvidenceInv'
    <2>1. \A k \in 1..Len(evidence') : EvidenceHolds(evidence'[k]) /\ Positive(evidence'[k].p)
      BY <1>4, <1>5, <1>6
    <2>2. contrast' \in 1..3 /\ Len(evidence') = IF phase' = "decide" THEN 3 ELSE contrast' - 1
      BY <1>1, <1>5, <1>6 DEF Smaller
    <2> QED BY <1>1, <1>7, <2>1, <2>2 DEF EvidenceInv
  <1>9. SamplesInv' /\ PanelInv'
    <2>1. <<>> \in Seq((-Bound)..Bound) /\ Len(<<>>) = 0
      OBVIOUS
    <2>2. Bound' = Bound /\ Items' = Items
      BY <1>1 DEF Bound, Items, M
    <2> QED BY <1>1, <1>3, <2>1, <2>2 DEF IInv, SamplesInv, PanelInv
  <1> QED BY <1>1, <1>8, <1>9 DEF IInv

LEMMA DecideKeeps == ASSUME IInv, Decide PROVE IInv'
  BY DEF IInv, PanelInv, SamplesInv, EvidenceInv, Decide, given, Items, Bound, M

\* Every step keeps what the analysis relies on: resamples in the range of the
\* items' totals, never more of them or of the flips than the protocol asks,
\* and evidence that passes its own checks for each contrast concluded.
THEOREM StatisticsInvariant == Spec => []IInv
  <1>1. Init => IInv
    BY InitHolds
  <1>2. IInv /\ [Next]_vars => IInv'
    <2> SUFFICES ASSUME IInv, [Next]_vars PROVE IInv'
      OBVIOUS
    <2>1. CASE BuildPanel
      BY <2>1, BuildPanelKeeps
    <2>2. CASE RefusePanel
      BY <2>2, RefuseKeeps DEF RefusePanel
    <2>3. CASE Analyze
      BY <2>3, AnalyzeKeeps
    <2>4. CASE RefuseProtocol
      BY <2>4, RefuseKeeps DEF RefuseProtocol
    <2>5. CASE Bootstrap
      BY <2>5, BootstrapKeeps
    <2>6. CASE Randomize
      BY <2>6, RandomizeKeeps
    <2>7. CASE Conclude
      BY <2>7, ConcludeKeeps
    <2>8. CASE Decide
      BY <2>8, DecideKeeps
    <2>9. CASE UNCHANGED vars
      BY <2>9, StutterKeeps
    <2> QED BY <2>1, <2>2, <2>3, <2>4, <2>5, <2>6, <2>7, <2>8, <2>9 DEF Next
  <1> QED BY <1>1, <1>2, PTL DEF Spec

\* Whatever the generators draw, in however many batches, no repetition is left
\* out or drawn too often, and the report passes every check that a loaded one
\* must (ConfirmatoryAnalysisReport.__post_init__ and _validate_decisions).
THEOREM ReportsPass == Spec => []OwnReportsHold
  <1>1. IInv => OwnReportsHold
    <2>3. IInv /\ phase = "concluded" =>
              Len(totals) = protocol.bootstraps /\ flips = protocol.randomizations
      BY DEF IInv, SamplesInv
    <2> SUFFICES ASSUME IInv, phase = "reported" PROVE ReportHolds(report, protocol)
      BY <2>3 DEF OwnReportsHold
    <2>1. /\ Items \in Nat \ {0} /\ DOMAIN panel.levels = 1..Items
          /\ Len(evidence) = 3
          /\ \A k \in 1..3 : EvidenceHolds(evidence[k]) /\ Positive(evidence[k].p)
      BY DEF IInv, PanelInv, EvidenceInv
    <2>2. report = Report(evidence, protocol, panel.levels)
      BY DEF IInv
    <2> QED BY <2>1, <2>2, ReportPasses DEF Items, IInv
  <1> QED BY <1>1, StatisticsInvariant, PTL

-----------------------------------------------------------------------------

\* The opposite fraction.
Opposite(x, y) ==
    /\ x.num \in Int /\ y.num \in Int /\ x.num + y.num = 0
    /\ x.den \in Nat \ {0} /\ y.den = x.den

LEMMA OppositesAreMutual ==
    ASSUME NEW x, NEW y, Opposite(x, y)
    PROVE  Opposite(y, x) /\ Same(x, Minus(y))
  <1>1. Opposite(y, x)
    BY DEF Opposite
  <1>2. Minus(y).num = x.num /\ Minus(y).den = x.den
    BY DEF Opposite, Minus, Q
  <1> QED BY <1>1, <1>2 DEF Same

\* The opposites of two fractions are in the opposite order.
LEMMA OrderMirrors ==
    ASSUME NEW x, NEW y, Opposite(x, y), NEW u, NEW v, Opposite(u, v)
    PROVE  Less(x, u) = Less(v, y)
  <1> DEFINE a == x.num * u.den
             b == u.num * x.den
             h == v.num * x.den
             l == y.num * u.den
  <1>1. a \in Int /\ b \in Int /\ h \in Int /\ l \in Int
    BY DEF Opposite
  <1>2. b + h = 0 /\ a + l = 0
    <2>1. \A m1, m2, e \in Int : m1 + m2 = 0 => m1 * e + m2 * e = 0
      <3> SUFFICES ASSUME NEW m1 \in Int, NEW m2 \in Int, NEW e \in Int, m1 + m2 = 0
                   PROVE  m1 * e + m2 * e = 0
        OBVIOUS
      <3>1. m1 * e + m2 * e = (m1 + m2) * e
        OBVIOUS
      <3>2. 0 * e = 0
        OBVIOUS
      <3> QED BY <3>1, <3>2
    <2>2. /\ x.num \in Int /\ y.num \in Int /\ u.num \in Int /\ v.num \in Int
          /\ x.num + y.num = 0 /\ u.num + v.num = 0 /\ x.den \in Int /\ u.den \in Int
      BY DEF Opposite
    <2> QED BY <2>1, <2>2
  <1>3. Less(x, u) = (a < b)
    BY DEF Less
  <1>4. Less(v, y) = (h < l)
    BY DEF Less, Opposite
  <1> HIDE DEF a, b, h, l
  <1> QED BY <1>1, <1>2, <1>3, <1>4

LEMMA BoundsMirror ==
    /\ Opposite(Zero, Zero)
    /\ \A m \in Nat : Opposite(PPM(m), PPM(-m)) /\ Opposite(PPM(-m), PPM(m))
  <1>1. Opposite(Zero, Zero)
    <2>1. Zero.num = 0 /\ Zero.den = 1
      BY DEF Zero, Q
    <2> QED BY <2>1 DEF Opposite
  <1>2. ASSUME NEW m \in Nat PROVE Opposite(PPM(m), PPM(-m)) /\ Opposite(PPM(-m), PPM(m))
    <2>1. /\ PPM(m).num = m /\ PPM(m).den = Scale
          /\ PPM(-m).num = -m /\ PPM(-m).den = Scale
      BY DEF PPM, Q
    <2> QED BY <2>1, BoundFacts DEF Opposite
  <1> QED BY <1>1, <1>2

\* The ends of an interval are quantiles over the same denominator.
LEMMA IntervalEnds ==
    ASSUME NEW w \in Nat \ {0}, NEW r \in Nat \ {0}, NEW f \in [1..r -> (-w)..w],
           NEW c \in 1..(Scale - 1)
    PROVE  LET b == 2 * Scale
               x == Quantile(f, Q(Scale - c, b)).num
               y == Quantile(f, Q(Scale + c, b)).num
           IN  /\ x \in Int /\ y \in Int
               /\ Interval(f, w, c).lower = Q(x, b * w)
               /\ Interval(f, w, c).upper = Q(y, b * w)
  <1> DEFINE b == 2 * Scale
             a == Scale - c
             z == Scale + c
             x == Quantile(f, Q(a, b)).num
             y == Quantile(f, Q(z, b)).num
  <1>1. b \in Nat \ {0} /\ a \in 0..b /\ z \in 0..b /\ w \in Nat
    BY BoundFacts
  <1> HIDE DEF b, a, z
  <1>2. ASSUME NEW k \in 0..b
        PROVE  /\ Quantile(f, Q(k, b)).num \in (-(w * b))..(w * b)
               /\ Quantile(f, Q(k, b)).den = b
    <2> HIDE DEF x, y
    <2>1. b \in Nat \ {0} /\ w \in Nat
      BY <1>1
    <2> QED BY <2>1, QuantileInRange
  <1>3. /\ x \in Int /\ Quantile(f, Q(a, b)).den = b
        /\ y \in Int /\ Quantile(f, Q(z, b)).den = b
    BY <1>1, <1>2
  <1>4. /\ Interval(f, w, c).lower = LET q == Quantile(f, Q(a, b)) IN Q(q.num, q.den * w)
        /\ Interval(f, w, c).upper = LET q == Quantile(f, Q(z, b)) IN Q(q.num, q.den * w)
    BY DEF Interval, a, b, z
  <1> QED BY <1>3, <1>4 DEF a, b, z

\* The same draws, each with the opposite sign, give the mirrored interval.
LEMMA IntervalsMirror ==
    ASSUME NEW w \in Nat \ {0}, NEW r \in Nat \ {0},
           NEW f \in [1..r -> (-w)..w], NEW g \in [1..r -> (-w)..w],
           \A k \in 1..r : g[k] = -f[k],
           NEW c \in 1..(Scale - 1)
    PROVE  /\ Opposite(Interval(f, w, c).lower, Interval(g, w, c).upper)
           /\ Opposite(Interval(f, w, c).upper, Interval(g, w, c).lower)
  <1> DEFINE b == 2 * Scale
             a == Scale - c
             z == Scale + c
             fa == Quantile(f, Q(a, b)).num
             fz == Quantile(f, Q(z, b)).num
             ga == Quantile(g, Q(a, b)).num
             gz == Quantile(g, Q(z, b)).num
             u == b * w
  <1>1. b \in Nat \ {0} /\ Ends(a, z, b) /\ Ends(z, a, b)
    BY BoundFacts DEF Ends
  <1>2. Mirrors(r, f, g)
    BY DEF Mirrors
  <1>3. /\ fa \in Int /\ fz \in Int
        /\ Interval(f, w, c).lower = Q(fa, u) /\ Interval(f, w, c).upper = Q(fz, u)
    BY IntervalEnds
  <1>4. Interval(g, w, c).lower = Q(ga, u) /\ Interval(g, w, c).upper = Q(gz, u)
    BY IntervalEnds
  <1>5. gz = -fa /\ ga = -fz
    <2> HIDE DEF a, z, b
    <2>1. gz = -fa
      BY <1>1, <1>2, QuantilesMirror
    <2>2. ga = -fz
      BY <1>1, <1>2, QuantilesMirror
    <2> QED BY <2>1, <2>2
  <1>6. u \in Nat \ {0}
    <2> HIDE DEF b
    <2> QED BY <1>1
  <1> HIDE DEF fa, fz, ga, gz, u
  <1>7. Opposite(Q(fa, u), Q(gz, u)) /\ Opposite(Q(fz, u), Q(ga, u))
    BY <1>3, <1>5, <1>6 DEF Opposite, Q
  <1> QED BY <1>3, <1>4, <1>7

\* The opposite differences have the opposite estimate.
LEMMA EffectsMirror ==
    ASSUME NEW n \in Nat \ {0}, NEW d, Measures(d, n), NEW back, Measures(back, n),
           \A i \in 1..n : \A s \in 1..M : back[i][s] = -d[i][s]
    PROVE  Opposite(Effect(d), Effect(back)) /\ Size(d) = n * M /\ Size(back) = n * M
  <1>1. /\ Size(d) = n * M /\ Size(back) = n * M /\ n * M \in Nat \ {0}
        /\ Units(d) \in [1..n -> (-M)..M] /\ SumOf(Units(d)) \in (-(n * M))..(n * M)
        /\ DOMAIN d = 1..n /\ DOMAIN back = 1..n
    BY UnitFacts
  <1>2. M \in Nat
    BY SeedFacts
  <1>3. ASSUME NEW i \in 1..n PROVE Units(back)[i] = -Units(d)[i]
    <2> DEFINE x == d[i]
    <2>1. x \in [1..M -> Int] /\ back[i] \in [1..M -> Int]
      BY DEF Measures
    <2>2. \A s \in 1..M : back[i][s] = -x[s]
      OBVIOUS
    <2>3. Units(back)[i] = SumOf(back[i]) /\ Units(d)[i] = SumOf(x)
      BY <1>1 DEF Units
    <2> HIDE DEF x
    <2>4. back[i] = [s \in 1..M |-> -x[s]]
      BY <2>1, <2>2
    <2>5. SumOf(back[i]) = -SumOf(x)
      BY <1>2, <2>1, <2>4, SumNegates
    <2> QED BY <2>3, <2>5
  <1>4. SumOf(Units(back)) = -SumOf(Units(d))
    <2> DEFINE f == Units(d)
               g == Units(back)
    <2>1. f \in [1..n -> Int] /\ DOMAIN g = 1..n /\ g = [i \in 1..n |-> g[i]]
      BY <1>1, <1>2 DEF Units
    <2>2. \A i \in 1..n : g[i] = -f[i]
      BY <1>3
    <2> HIDE DEF f, g
    <2>3. g = [i \in 1..n |-> -f[i]]
      BY <2>1, <2>2
    <2>4. SumOf(g) = -SumOf(f)
      BY <2>1, <2>3, SumNegates
    <2> QED BY <2>4 DEF f, g
  <1>5. SumOf(Units(d)) \in Int
    BY <1>1
  <1> QED BY <1>1, <1>4, <1>5 DEF Effect, Opposite, Q

\* The values of n items, the opposite ones, and a flip.
Flipping(n, units, back, signs) ==
    /\ n \in Nat /\ units \in [1..n -> Int] /\ back \in [1..n -> Int]
    /\ \A i \in 1..n : back[i] = -units[i]
    /\ signs \in [1..n -> {-1, 1}]

\* A flip is as extreme for the opposite differences.
LEMMA ExtremesMirror ==
    ASSUME NEW n, NEW units, NEW back, NEW signs, Flipping(n, units, back, signs)
    PROVE  IsExtreme(units, signs, "two-sided") = IsExtreme(back, signs, "two-sided")
  <1> USE DEF Flipping
  <1> DEFINE flipped == [i \in 1..n |-> signs[i] * units[i]]
             other == [i \in 1..n |-> signs[i] * back[i]]
             a == SumOf(units)
             b == SumOf(flipped)
             size(m) == IF m < 0 THEN -m ELSE m
  <1>1. SumOf(back) = -a
    <2>1. back = [i \in 1..n |-> -units[i]]
      OBVIOUS
    <2> QED BY <2>1, SumNegates
  <1>2. flipped \in [1..n -> Int]
    OBVIOUS
  <1>3. SumOf(other) = -b
    <2>1. \A i \in 1..n : signs[i] * back[i] = -(signs[i] * units[i])
      <3> TAKE i \in 1..n
      <3>1. signs[i] \in {-1, 1} /\ back[i] = -units[i] /\ units[i] \in Int
        OBVIOUS
      <3> QED BY <3>1
    <2>2. other = [i \in 1..n |-> -flipped[i]]
      BY <2>1
    <2> HIDE DEF other, flipped
    <2> QED BY <1>2, <2>2, SumNegates
  <1>4. a \in Int /\ b \in Int
    <2> HIDE DEF flipped
    <2> QED BY <1>2, SumIsInteger
  <1>5. DOMAIN units = 1..n /\ DOMAIN back = 1..n
    OBVIOUS
  <1>6. /\ IsExtreme(units, signs, "two-sided") = (size(b) >= size(a))
        /\ IsExtreme(back, signs, "two-sided") = (size(-b) >= size(-a))
    <2>1. Signed(units, signs) = b /\ Signed(back, signs) = -b
      BY <1>3, <1>5 DEF Signed
    <2> HIDE DEF a, b
    <2> QED BY <1>1, <2>1 DEF IsExtreme, a
  <1> HIDE DEF a, b
  <1> QED BY <1>4, <1>6

\* Which of the three ways a classification takes: the two superiorities
\* exclude one another, because the practical effect is not 0.
FavoursA3(e, p) == Less(Zero, e.interval.lower) /\ ~ Less(e.point, PPM(p.practical))
FavoursA4(e, p) == Less(e.interval.upper, Zero) /\ ~ Less(PPM(-p.practical), e.point)
AboveMargin(e, p) == Less(PPM(-p.margin), e.equivalence.lower)
BelowMargin(e, p) == Less(e.equivalence.upper, PPM(p.margin))

LEMMA FavoursOne ==
    ASSUME NEW e, e.point.num \in Int, e.point.den \in Nat \ {0}, NEW p, ProtocolIsTyped(p),
           FavoursA3(e, p)
    PROVE  ~ FavoursA4(e, p)
  <1> DEFINE m == p.practical
             x == e.point.num
             u == e.point.den
  <1>1. m \in Nat \ {0} /\ x \in Int /\ u \in Nat \ {0} /\ Scale \in Nat \ {0}
    BY BoundFacts DEF ProtocolIsTyped
  <1>2. ~ (x * Scale < m * u)
    BY DEF FavoursA3, Less, PPM, Q
  <1>3. SUFFICES ASSUME ~ ((-m) * u < x * Scale) PROVE FALSE
    BY DEF FavoursA4, Less, PPM, Q
  <1> HIDE DEF m, x, u
  <1>4. m * u \in Nat \ {0} /\ x * Scale \in Int /\ (-m) * u = -(m * u)
    BY <1>1
  <1> DEFINE c == m * u
             y == x * Scale
  <1>5. c \in Nat \ {0} /\ y \in Int /\ ~ (y < c) /\ ~ (-c < y)
    BY <1>2, <1>3, <1>4
  <1> HIDE DEF c, y
  <1> QED BY <1>5

LEMMA ClassifyCases ==
    ASSUME NEW e, e.point.num \in Int, e.point.den \in Nat \ {0}, NEW p, ProtocolIsTyped(p)
    PROVE  LET d == Classify(e, p) IN
           /\ d.assessed = ~ (FavoursA3(e, p) \/ FavoursA4(e, p))
           /\ FavoursA3(e, p) =>
                 d.classification = "superior_A3" /\ d.above = "null" /\ d.below = "null"
           /\ FavoursA4(e, p) =>
                 d.classification = "superior_A4" /\ d.above = "null" /\ d.below = "null"
           /\ ~ FavoursA3(e, p) /\ ~ FavoursA4(e, p) =>
                 /\ d.above = AboveMargin(e, p) /\ d.below = BelowMargin(e, p)
                 /\ d.classification = IF AboveMargin(e, p) /\ BelowMargin(e, p)
                                       THEN "practical_equivalence" ELSE "inconclusive"
  <1> DEFINE d == Classify(e, p)
             A3 == FavoursA3(e, p)
             A4 == FavoursA4(e, p)
             above == AboveMargin(e, p)
             below == BelowMargin(e, p)
             superior(classification) ==
                [assessed |-> FALSE, above |-> "null", below |-> "null",
                 classification |-> classification]
             otherwise ==
                [assessed |-> TRUE, above |-> above, below |-> below,
                 classification |-> IF above /\ below THEN "practical_equivalence"
                                                      ELSE "inconclusive"]
  <1>1. d = CASE A3 -> superior("superior_A3") [] A4 -> superior("superior_A4")
              [] OTHER -> otherwise
    BY DEF Classify, FavoursA3, FavoursA4, AboveMargin, BelowMargin
  <1>2. A3 => ~ A4
    BY FavoursOne
  <1>3. A3 \in BOOLEAN /\ A4 \in BOOLEAN
    BY DEF FavoursA3, FavoursA4
  <1> HIDE DEF d, A3, A4, above, below
  <1>4. CASE A3
    <2>1. d = superior("superior_A3")
      BY <1>1, <1>2, <1>4
    <2>2. d.assessed = FALSE /\ d.classification = "superior_A3"
          /\ d.above = "null" /\ d.below = "null"
      BY <2>1
    <2> QED BY <1>2, <1>3, <1>4, <2>2 DEF d, A3, A4
  <1>5. CASE A4
    <2>1. d = superior("superior_A4")
      BY <1>1, <1>2, <1>5
    <2>2. d.assessed = FALSE /\ d.classification = "superior_A4"
          /\ d.above = "null" /\ d.below = "null"
      BY <2>1
    <2> QED BY <1>2, <1>3, <1>5, <2>2 DEF d, A3, A4
  <1>6. CASE ~ A3 /\ ~ A4
    <2>1. d = otherwise
      BY <1>1, <1>6
    <2>2. /\ d.assessed = TRUE /\ d.above = above /\ d.below = below
          /\ d.classification = IF above /\ below THEN "practical_equivalence" ELSE "inconclusive"
      BY <2>1
    <2> QED BY <1>6, <2>2 DEF d, A3, A4, above, below
  <1> QED BY <1>3, <1>4, <1>5, <1>6

\* Opposite evidence is decided the other way round.
LEMMA ClassificationsMirror ==
    ASSUME NEW p, ProtocolIsTyped(p), NEW e, NEW g,
           Opposite(e.point, g.point),
           Opposite(e.interval.lower, g.interval.upper),
           Opposite(e.interval.upper, g.interval.lower),
           Opposite(e.equivalence.lower, g.equivalence.upper),
           Opposite(e.equivalence.upper, g.equivalence.lower)
    PROVE  LET one == Classify(e, p)
               other == Classify(g, p)
           IN  /\ one.above = other.below /\ one.below = other.above
               /\ one.assessed = other.assessed
               /\ one.assessed => other.classification = one.classification
               /\ ~ one.assessed =>
                     \/ /\ one.classification = "superior_A3"
                        /\ other.classification = "superior_A4"
                     \/ /\ one.classification = "superior_A4"
                        /\ other.classification = "superior_A3"
  <1>1. p.practical \in Nat /\ p.margin \in Nat
    BY DEF ProtocolIsTyped
  <1>2. /\ Opposite(Zero, Zero)
        /\ Opposite(PPM(p.practical), PPM(-p.practical))
        /\ Opposite(PPM(-p.practical), PPM(p.practical))
        /\ Opposite(PPM(p.margin), PPM(-p.margin))
        /\ Opposite(PPM(-p.margin), PPM(p.margin))
    BY <1>1, BoundsMirror
  <1>3. /\ Less(Zero, e.interval.lower) = Less(g.interval.upper, Zero)
        /\ Less(e.interval.upper, Zero) = Less(Zero, g.interval.lower)
        /\ Less(e.point, PPM(p.practical)) = Less(PPM(-p.practical), g.point)
        /\ Less(PPM(-p.practical), e.point) = Less(g.point, PPM(p.practical))
        /\ Less(PPM(-p.margin), e.equivalence.lower) = Less(g.equivalence.upper, PPM(p.margin))
        /\ Less(e.equivalence.upper, PPM(p.margin)) = Less(PPM(-p.margin), g.equivalence.lower)
    BY <1>2, OrderMirrors
  <1>4. FavoursA3(e, p) = FavoursA4(g, p) /\ FavoursA4(e, p) = FavoursA3(g, p)
    BY <1>3 DEF FavoursA3, FavoursA4
  <1>5. AboveMargin(e, p) = BelowMargin(g, p) /\ BelowMargin(e, p) = AboveMargin(g, p)
    BY <1>3 DEF AboveMargin, BelowMargin
  <1>6. /\ e.point.num \in Int /\ e.point.den \in Nat \ {0}
        /\ g.point.num \in Int /\ g.point.den \in Nat \ {0}
    BY DEF Opposite
  <1> DEFINE one == Classify(e, p)
             other == Classify(g, p)
             A3 == FavoursA3(e, p)
             A4 == FavoursA4(e, p)
             a == AboveMargin(e, p)
             b == BelowMargin(e, p)
  <1>7. /\ one.assessed = ~ (A3 \/ A4)
        /\ A3 => one.classification = "superior_A3" /\ one.above = "null" /\ one.below = "null"
        /\ A4 => one.classification = "superior_A4" /\ one.above = "null" /\ one.below = "null"
        /\ ~ A3 /\ ~ A4 =>
              /\ one.above = a /\ one.below = b
              /\ one.classification = IF a /\ b THEN "practical_equivalence" ELSE "inconclusive"
    BY <1>6, ClassifyCases
  <1>8. /\ other.assessed = ~ (A4 \/ A3)
        /\ A4 => other.classification = "superior_A3" /\ other.above = "null" /\ other.below = "null"
        /\ A3 => other.classification = "superior_A4" /\ other.above = "null" /\ other.below = "null"
        /\ ~ A3 /\ ~ A4 =>
              /\ other.above = b /\ other.below = a
              /\ other.classification = IF b /\ a THEN "practical_equivalence" ELSE "inconclusive"
    <2>1. /\ other.assessed = ~ (FavoursA3(g, p) \/ FavoursA4(g, p))
          /\ FavoursA3(g, p) =>
                other.classification = "superior_A3" /\ other.above = "null" /\ other.below = "null"
          /\ FavoursA4(g, p) =>
                other.classification = "superior_A4" /\ other.above = "null" /\ other.below = "null"
          /\ ~ FavoursA3(g, p) /\ ~ FavoursA4(g, p) =>
                /\ other.above = AboveMargin(g, p) /\ other.below = BelowMargin(g, p)
                /\ other.classification = IF AboveMargin(g, p) /\ BelowMargin(g, p)
                                          THEN "practical_equivalence" ELSE "inconclusive"
      BY <1>6, ClassifyCases
    <2> HIDE DEF other
    <2> QED BY <1>4, <1>5, <2>1
  <1> HIDE DEF one, other, A3, A4, a, b
  <1>9. /\ one.above = other.below /\ one.below = other.above
        /\ one.assessed = other.assessed
        /\ one.assessed => other.classification = one.classification
        /\ ~ one.assessed =>
              \/ one.classification = "superior_A3" /\ other.classification = "superior_A4"
              \/ one.classification = "superior_A4" /\ other.classification = "superior_A3"
    BY <1>7, <1>8
  <1> QED BY <1>9 DEF one, other

\* The order of the arms does not matter to the verdict (inference.py,
\* percentile_interval, paired_sign_flip_randomization and _classify_c2): were
\* A4 the treatment and A3 the control, the same draws would give the mirrored intervals, count the same
\* flips as extreme and give the mirrored classification, at every end, margin
\* and threshold.
THEOREM VerdictsMirror == Spec => []DecisionsMirror
  <1>1. IInv => DecisionsMirror
    <2> SUFFICES ASSUME IInv, phase = "concluded"
                 PROVE  DecisionsMirror
      BY DEF DecisionsMirror
    <2> DEFINE minus(s) == [i \in DOMAIN s |-> -s[i]]
               d == Difference
               nd == [i \in DOMAIN d |-> minus(d[i])]
               nt == minus(totals)
               p == protocol
               r == p.bootstraps
               w == Items * M
               there == Evidence(d, totals, extreme, p)
               back == Evidence(nd, nt, extreme, p)
    <2>1. /\ Items \in Nat \ {0} /\ Measures(d, Items) /\ ProtocolIsTyped(p)
          /\ w \in Nat \ {0} /\ r \in Nat \ {0}
      BY DifferenceFacts DEF ProtocolIsTyped, Bound
    <2>2. M \in Nat \ {0}
      BY SeedFacts
    <2>3. /\ Measures(nd, Items)
          /\ \A i \in 1..Items : \A s \in 1..M : nd[i][s] = -d[i][s]
      BY <2>1, <2>2 DEF Measures
    <2>4. totals \in [1..r -> (-w)..w]
      <3> DEFINE V == (-w)..w
      <3>1. totals \in Seq(V) /\ Len(totals) = r
        BY DEF IInv, SamplesInv, Bound
      <3>2. totals \in [1..r -> V]
        <4> HIDE DEF V, r
        <4> QED BY <3>1
      <3> QED BY <3>2
    <2> HIDE DEF d, r
    <2>5. nt \in [1..r -> (-w)..w] /\ \A k \in 1..r : nt[k] = -totals[k]
      <3> HIDE DEF w
      <3> QED BY <2>1, <2>4
    <2> HIDE DEF nd, nt
    <2>6. Opposite(Effect(d), Effect(nd)) /\ Size(d) = w /\ Size(nd) = w
      BY <2>1, <2>3, EffectsMirror
    <2> HIDE DEF w
    <2>7. /\ there.point = Effect(d) /\ back.point = Effect(nd)
          /\ there.interval = Interval(totals, w, p.confidence)
          /\ back.interval = Interval(nt, w, p.confidence)
          /\ there.equivalence = Interval(totals, w, p.equivalence)
          /\ back.equivalence = Interval(nt, w, p.equivalence)
      BY <2>6 DEF Evidence
    <2> HIDE DEF there, back
    <2>8. /\ Opposite(there.interval.lower, back.interval.upper)
          /\ Opposite(there.interval.upper, back.interval.lower)
      <3> DEFINE c == p.confidence
      <3>1. c \in 1..(Scale - 1)
        BY <2>1 DEF ProtocolIsTyped
      <3> HIDE DEF c
      <3>2. /\ Opposite(Interval(totals, w, c).lower, Interval(nt, w, c).upper)
            /\ Opposite(Interval(totals, w, c).upper, Interval(nt, w, c).lower)
        BY <2>1, <2>4, <2>5, <3>1, IntervalsMirror
      <3> QED BY <2>7, <3>2 DEF c
    <2>9. /\ Opposite(there.equivalence.lower, back.equivalence.upper)
          /\ Opposite(there.equivalence.upper, back.equivalence.lower)
      <3> DEFINE c == p.equivalence
      <3>1. c \in 1..(Scale - 1)
        BY <2>1 DEF ProtocolIsTyped
      <3> HIDE DEF c
      <3>2. /\ Opposite(Interval(totals, w, c).lower, Interval(nt, w, c).upper)
            /\ Opposite(Interval(totals, w, c).upper, Interval(nt, w, c).lower)
        BY <2>1, <2>4, <2>5, <3>1, IntervalsMirror
      <3> QED BY <2>7, <3>2 DEF c
    <2>10. Opposite(there.point, back.point)
      BY <2>6, <2>7
    <2> DEFINE one == Classify(there, p)
               other == Classify(back, p)
               swap == [superior_A3 |-> "superior_A4", superior_A4 |-> "superior_A3"]
    <2>11. /\ one.above = other.below /\ one.below = other.above
           /\ one.assessed = other.assessed
           /\ one.assessed => other.classification = one.classification
           /\ ~ one.assessed =>
                 \/ one.classification = "superior_A3" /\ other.classification = "superior_A4"
                 \/ one.classification = "superior_A4" /\ other.classification = "superior_A3"
      BY <2>1, <2>8, <2>9, <2>10, ClassificationsMirror
    <2> HIDE DEF one, other
    <2>12. other.classification =
              IF one.assessed THEN one.classification ELSE swap[one.classification]
      <3>1. swap["superior_A3"] = "superior_A4" /\ swap["superior_A4"] = "superior_A3"
        OBVIOUS
      <3> HIDE DEF swap
      <3> QED BY <2>11, <3>1
    <2>13. /\ Same(there.interval.lower, Minus(back.interval.upper))
           /\ Same(there.interval.upper, Minus(back.interval.lower))
           /\ Same(there.equivalence.lower, Minus(back.equivalence.upper))
           /\ Same(there.equivalence.upper, Minus(back.equivalence.lower))
      BY <2>8, <2>9, OppositesAreMutual
    <2>14. ASSUME contrast = 3, NEW signs \in Signs(Units(d))
           PROVE  IsExtreme(Units(d), signs, CONTRASTS[contrast].alternative)
                     = IsExtreme(minus(Units(d)), signs, CONTRASTS[contrast].alternative)
      <3> DEFINE f == Units(d)
                 g == minus(f)
                 n == Items
      <3>1. f \in [1..n -> (-M)..M] /\ n \in Nat
        BY <2>1, DifferenceFacts DEF d
      <3>2. f \in [1..n -> Int] /\ DOMAIN f = 1..n
        BY <2>2, <3>1
      <3>3. signs \in [1..n -> {-1, 1}]
        BY <3>2 DEF Signs
      <3> HIDE DEF f, n
      <3>4. g \in [1..n -> Int] /\ \A i \in 1..n : g[i] = -f[i]
        BY <3>2
      <3> HIDE DEF g, minus
      <3>5. n \in Nat /\ f \in [1..n -> Int]
        BY <3>1, <3>2
      <3>6. IsExtreme(f, signs, "two-sided") = IsExtreme(g, signs, "two-sided")
        <4>1. Flipping(n, f, g, signs)
          BY <3>3, <3>4, <3>5 DEF Flipping
        <4> QED BY <4>1, ExtremesMirror
      <3>7. CONTRASTS[contrast].alternative = "two-sided"
        BY <2>14 DEF CONTRASTS, Contrast
      <3> QED BY <3>6, <3>7 DEF f, g, minus
    <2> QED BY <2>11, <2>12, <2>13, <2>14
            DEF DecisionsMirror, one, other, there, back, nd, nt, d, CONTRASTS
  <1> QED BY <1>1, StatisticsInvariant, PTL

-----------------------------------------------------------------------------

\* Of several values, the places of those that are no smaller than the i-th,
\* and the i at which there are no more than m.
AtLeast(V, w, i) == {j \in DOMAIN w : V[w[j]] >= V[w[i]]}
Leading(V, w, m) == {i \in DOMAIN w : Cardinality(AtLeast(V, w, i)) <= m}

\* A run of n + 1 draws from S, and its values.
Runs(S, n) == [0..n -> S]
Valued(S, V, n) == IsFiniteSet(S) /\ V \in [S -> Int] /\ n \in Nat

LEMMA PlacesAreFinite ==
    ASSUME NEW n \in Nat, NEW T \in SUBSET (0..n)
    PROVE  IsFiniteSet(T) /\ Cardinality(T) \in Nat
  <1>1. IsFiniteSet(0..n)
    <2>1. 0 \in Int /\ n \in Int
      OBVIOUS
    <2> QED BY <2>1, FS_Interval
  <1> QED BY <1>1, FS_Subset, FS_CardinalityType

\* No more than m values are among the m highest.
LEMMA LeadingAreFew ==
    ASSUME NEW S, NEW V, NEW n, Valued(S, V, n), NEW w \in Runs(S, n), NEW m \in Nat
    PROVE  IsFiniteSet(Leading(V, w, m)) /\ Cardinality(Leading(V, w, m)) \in 0..m
  <1> DEFINE D == 0..n
             top == Leading(V, w, m)
             size(i) == Cardinality(AtLeast(V, w, i))
  <1>1. n \in Nat /\ DOMAIN w = D /\ \A i \in D : V[w[i]] \in Int
    BY DEF Valued, Runs
  <1>2. \A i \in D : AtLeast(V, w, i) \in SUBSET D
    BY <1>1 DEF AtLeast
  <1>3. \A i \in D : IsFiniteSet(AtLeast(V, w, i)) /\ size(i) \in Nat
    BY <1>1, <1>2, PlacesAreFinite
  <1>4. top \in SUBSET D /\ \A i \in top : size(i) <= m
    BY <1>1 DEF Leading
  <1>5. IsFiniteSet(top) /\ Cardinality(top) \in Nat
    BY <1>1, <1>4, PlacesAreFinite
  <1>6. CASE top = {}
    BY <1>5, <1>6, FS_EmptySet
  <1>7. CASE top # {}
    <2> DEFINE short == {m - size(i) : i \in top}
    <2>1. short \in SUBSET Nat /\ short # {}
      <3>1. \A i \in top : m - size(i) \in Nat
        BY <1>3, <1>4
      <3> HIDE DEF size, top
      <3> QED BY <1>7, <3>1
    <2>2. PICK x \in short : \A y \in short : x <= y
      <3> HIDE DEF short
      <3> QED BY <2>1, LeastNumber
    <2>3. PICK i \in top : x = m - size(i)
      BY <2>2
    <2>4. ASSUME NEW j \in top PROVE V[w[j]] >= V[w[i]]
      <3> SUFFICES ASSUME V[w[j]] < V[w[i]] PROVE FALSE
        BY <1>1, <1>4
      <3> DEFINE a == AtLeast(V, w, i)
                 b == AtLeast(V, w, j)
      <3>1. a \subseteq b /\ j \in b /\ j \notin a
        BY <1>1, <1>4 DEF AtLeast
      <3>2. IsFiniteSet(b) /\ Cardinality(a) \in Nat /\ Cardinality(b) \in Nat
        BY <1>3, <1>4
      <3> HIDE DEF a, b
      <3>3. Cardinality(a) <= Cardinality(b) /\ Cardinality(a) # Cardinality(b)
        BY <3>1, <3>2, FS_Subset
      <3>4. m - Cardinality(b) < m - Cardinality(a)
        BY <3>2, <3>3
      <3>5. m - size(j) \in short
        OBVIOUS
      <3>6. m - size(i) <= m - size(j)
        BY <2>2, <2>3, <3>5
      <3> HIDE DEF short
      <3>7. m - Cardinality(a) <= m - Cardinality(b)
        BY <3>6 DEF a, b
      <3> QED BY <3>2, <3>4, <3>7
    <2>5. top \subseteq AtLeast(V, w, i)
      BY <1>1, <1>4, <2>4 DEF AtLeast
    <2>6. Cardinality(top) <= size(i)
      <3> HIDE DEF top
      <3> QED BY <1>3, <1>4, <2>5, FS_Subset
    <2>7. size(i) <= m /\ size(i) \in Nat
      BY <1>3, <1>4
    <2> HIDE DEF top, size
    <2>8. Cardinality(top) \in 0..m
      BY <1>5, <2>6, <2>7
    <2> QED BY <1>5, <2>8 DEF top
  <1> QED BY <1>6, <1>7

\* Functions between finite sets are finitely many: a function is its pairs.
LEMMA FunctionsAreFinite ==
    ASSUME NEW D, IsFiniteSet(D), NEW S, IsFiniteSet(S)
    PROVE  IsFiniteSet([D -> S])
  <1> DEFINE pairs(f) == {<<x, f[x]>> : x \in D}
             g == [f \in [D -> S] |-> pairs(f)]
  <1>1. IsFiniteSet(SUBSET (D \X S))
    BY FS_Product, FS_SUBSET
  <1>2. g \in [[D -> S] -> SUBSET (D \X S)]
    OBVIOUS
  <1>3. ASSUME NEW e \in [D -> S], NEW f \in [D -> S], g[e] = g[f] PROVE e = f
    <2>1. ASSUME NEW x \in D PROVE e[x] = f[x]
      <3>1. <<x, e[x]>> \in pairs(f)
        BY <1>3
      <3>2. PICK y \in D : <<x, e[x]>> = <<y, f[y]>>
        BY <3>1
      <3> QED BY <3>2
    <2> QED BY <2>1
  <1>4. g \in Injection([D -> S], SUBSET (D \X S))
    <2> HIDE DEF g
    <2> QED BY <1>2, <1>3 DEF Injection, IsInjective
  <1> QED BY <1>1, <1>4, FS_Injection

LEMMA RunsAreFinite ==
    ASSUME NEW S, NEW V, NEW n, Valued(S, V, n)
    PROVE  IsFiniteSet(Runs(S, n)) /\ IsFiniteSet(0..n) /\ Cardinality(0..n) = n + 1
  <1>1. IsFiniteSet(0..n) /\ Cardinality(0..n) = n + 1
    <2>1. 0 \in Int /\ n \in Int /\ n >= 0
      BY DEF Valued
    <2>2. IsFiniteSet(0..n) /\ Cardinality(0..n) = IF 0 > n THEN 0 ELSE n - 0 + 1
      BY <2>1, FS_Interval, Zenon
    <2> QED BY <2>1, <2>2
  <1>2. IsFiniteSet(Runs(S, n))
    <2> DEFINE D == 0..n
    <2>1. IsFiniteSet(D) /\ IsFiniteSet(S)
      BY <1>1 DEF Valued
    <2> HIDE DEF D
    <2>2. IsFiniteSet([D -> S])
      BY <2>1, FunctionsAreFinite
    <2> QED BY <2>2 DEF Runs, D
  <1> QED BY <1>1, <1>2

\* The place of a number in a set of numbers is one of as many as the set has.
LEMMA PlacesInSet ==
    ASSUME NEW n \in Nat, NEW T \in SUBSET (0..n)
    PROVE  /\ \A i \in T : Cardinality({j \in T : j <= i}) \in 1..Cardinality(T)
           /\ \A i, k \in T : i # k =>
                  Cardinality({j \in T : j <= i}) # Cardinality({j \in T : j <= k})
  <1> DEFINE upto(i) == {j \in T : j <= i}
  <1>1. \A U \in SUBSET T : IsFiniteSet(U) /\ Cardinality(U) \in Nat
    BY PlacesAreFinite
  <1>2. \A i \in T : i \in Nat
    OBVIOUS
  <1>3. ASSUME NEW i \in T PROVE Cardinality(upto(i)) \in 1..Cardinality(T)
    <2>1. upto(i) \in SUBSET T /\ i \in upto(i)
      BY <1>2
    <2> HIDE DEF upto
    <2>2. IsFiniteSet(T) /\ Cardinality(T) \in Nat /\ IsFiniteSet(upto(i))
          /\ Cardinality(upto(i)) \in Nat
      BY <1>1, <2>1
    <2>3. Cardinality(upto(i)) <= Cardinality(T) /\ Cardinality(upto(i)) # 0
      BY <2>1, <2>2, FS_Subset, FS_EmptySet
    <2> QED BY <2>2, <2>3
  <1>4. ASSUME NEW i \in T, NEW k \in T, i < k
        PROVE  Cardinality(upto(i)) # Cardinality(upto(k))
    <2>1. upto(i) \subseteq upto(k) /\ k \in upto(k) /\ k \notin upto(i)
      <3>1. i \in Nat /\ k \in Nat /\ \A j \in T : j \in Nat
        BY <1>2
      <3>2. \A j \in T : j <= i => j <= k
        BY <1>4, <3>1
      <3>3. k <= k /\ ~ k <= i
        BY <1>4, <3>1
      <3>4. upto(i) \subseteq upto(k)
        BY <3>2
      <3> QED BY <3>3, <3>4
    <2>2. IsFiniteSet(upto(k))
      BY <1>1
    <2> HIDE DEF upto
    <2> QED BY <2>1, <2>2, FS_Subset
  <1>5. \A i, k \in T : i # k => Cardinality(upto(i)) # Cardinality(upto(k))
    <2> TAKE i, k \in T
    <2>1. CASE i < k
      BY <1>4, <2>1
    <2>2. CASE k < i
      BY <1>4, <2>2
    <2> QED BY <1>2, <2>1, <2>2
  <1> QED BY <1>3, <1>5

\* The pairs of a place and a run that is leading at it.
LeadingPlaces(S, V, n, m) == {q \in (0..n) \X Runs(S, n) : q[1] \in Leading(V, q[2], m)}

\* They are at most m for every run.
LEMMA LeadingAreBounded ==
    ASSUME NEW S, NEW V, NEW n, Valued(S, V, n), NEW m \in Nat
    PROVE  /\ IsFiniteSet(LeadingPlaces(S, V, n, m))
           /\ Cardinality(LeadingPlaces(S, V, n, m)) <= Cardinality(Runs(S, n)) * m
  <1> DEFINE P == LeadingPlaces(S, V, n, m)
             R == Runs(S, n)
             at(q) == Cardinality({j \in Leading(V, q[2], m) : j <= q[1]})
             f == [q \in P |-> <<q[2], at(q)>>]
  <1>1. n \in Nat
    BY DEF Valued
  <1>2. ASSUME NEW w \in R
        PROVE  Leading(V, w, m) \in SUBSET (0..n) /\ Cardinality(Leading(V, w, m)) \in 0..m
    <2>1. Leading(V, w, m) \in SUBSET (0..n)
      BY DEF Leading, Runs
    <2> HIDE DEF R
    <2> QED BY <2>1, LeadingAreFew DEF R
  <1>3. \A q \in P : /\ q = <<q[1], q[2]>> /\ q[2] \in R /\ q[1] \in Leading(V, q[2], m)
    BY DEF LeadingPlaces
  <1>4. ASSUME NEW q \in P PROVE at(q) \in 1..m
    <2> DEFINE T == Leading(V, q[2], m)
    <2>1. T \in SUBSET (0..n) /\ Cardinality(T) \in 0..m /\ q[1] \in T
      BY <1>2, <1>3
    <2> HIDE DEF T
    <2>2. Cardinality({j \in T : j <= q[1]}) \in 1..Cardinality(T)
      BY <1>1, <2>1, PlacesInSet
    <2>3. Cardinality({j \in T : j <= q[1]}) \in 1..m
      BY <2>1, <2>2
    <2> QED BY <2>3 DEF T
  <1>5. f \in [P -> R \X (1..m)]
    BY <1>3, <1>4
  <1>6. ASSUME NEW p \in P, NEW q \in P, f[p] = f[q] PROVE p = q
    <2>1. p[2] = q[2] /\ at(p) = at(q)
      BY <1>6
    <2> DEFINE T == Leading(V, q[2], m)
    <2>2. T \in SUBSET (0..n) /\ p[1] \in T /\ q[1] \in T
      BY <1>2, <1>3, <2>1
    <2>3. Cardinality({j \in T : j <= p[1]}) = Cardinality({j \in T : j <= q[1]})
      BY <2>1
    <2> HIDE DEF T
    <2>4. p[1] = q[1]
      BY <1>1, <2>2, <2>3, PlacesInSet
    <2> QED BY <1>3, <2>1, <2>4
  <1>7. IsFiniteSet(R) /\ IsFiniteSet(1..m) /\ Cardinality(1..m) = m
    <2>1. 1 \in Int /\ m \in Int
      OBVIOUS
    <2>2. IsFiniteSet(1..m) /\ Cardinality(1..m) = IF 1 > m THEN 0 ELSE m - 1 + 1
      BY <2>1, FS_Interval, Zenon
    <2> QED BY <2>2, RunsAreFinite
  <1> DEFINE B == R \X (1..m)
  <1>8. IsFiniteSet(B) /\ Cardinality(B) = Cardinality(R) * m
    <2> DEFINE I == 1..m
    <2>1. IsFiniteSet(I) /\ Cardinality(I) = m
      BY <1>7
    <2> HIDE DEF I, R
    <2>2. IsFiniteSet(R \X I) /\ Cardinality(R \X I) = Cardinality(R) * Cardinality(I)
      BY <1>7, <2>1, FS_Product
    <2> QED BY <2>1, <2>2 DEF I
  <1>9. f \in Injection(P, B)
    <2> HIDE DEF f, P, R
    <2> QED BY <1>5, <1>6 DEF Injection, IsInjective
  <1> HIDE DEF f, B, P
  <1>10. IsFiniteSet(P) /\ Cardinality(P) <= Cardinality(B)
    BY <1>8, <1>9, FS_Injection
  <1> QED BY <1>8, <1>10 DEF P

\* Exchanging the first draw of a run and the i-th.
Other(i, j) == IF j = 0 THEN i ELSE IF j = i THEN 0 ELSE j
Exchanged(w, i) == [j \in DOMAIN w |-> w[Other(i, j)]]

\* What leads at the first place leads at the i-th once they are exchanged.
LEMMA ExchangedLeads ==
    ASSUME NEW S, NEW V, NEW n, Valued(S, V, n), NEW m \in Nat,
           NEW w \in Runs(S, n), 0 \in Leading(V, w, m), NEW i \in 0..n
    PROVE  Exchanged(w, i) \in Runs(S, n) /\ i \in Leading(V, Exchanged(w, i), m)
  <1> DEFINE x == Exchanged(w, i)
             a == AtLeast(V, w, 0)
             b == AtLeast(V, x, i)
             f == [j \in b |-> Other(i, j)]
  <1>1. n \in Nat /\ DOMAIN w = 0..n /\ \A j \in 0..n : w[j] \in S
    BY DEF Valued, Runs
  <1>2. \A j \in 0..n : Other(i, j) \in 0..n /\ Other(i, Other(i, j)) = j
    BY <1>1 DEF Other
  <1>3. DOMAIN x = 0..n /\ \A j \in 0..n : x[j] = w[Other(i, j)]
    BY <1>1 DEF Exchanged
  <1>4. x \in Runs(S, n)
    <2>1. x = [j \in 0..n |-> w[Other(i, j)]]
      BY <1>1 DEF Exchanged
    <2> QED BY <1>1, <1>2, <2>1 DEF Runs
  <1>5. Other(i, i) = 0
    BY <1>1 DEF Other
  <1> HIDE DEF x
  <1>6. \A j \in b : j \in 0..n /\ Other(i, j) \in a
    BY <1>1, <1>2, <1>3, <1>5 DEF AtLeast
  <1>7. f \in [b -> a] /\ \A j, k \in b : f[j] = f[k] => j = k
    <2>1. f \in [b -> a]
      BY <1>6
    <2>2. \A j, k \in b : f[j] = f[k] => j = k
      BY <1>2, <1>6
    <2> QED BY <2>1, <2>2
  <1>8. IsFiniteSet(a) /\ Cardinality(a) <= m /\ Cardinality(a) \in Nat
    <2>1. a \in SUBSET (0..n)
      BY <1>1 DEF AtLeast
    <2>2. Cardinality(a) <= m
      BY DEF Leading
    <2> HIDE DEF a
    <2> QED BY <1>1, <2>1, <2>2, PlacesAreFinite
  <1> HIDE DEF a, b, f
  <1>9. f \in Injection(b, a)
    BY <1>7 DEF Injection, IsInjective
  <1>10. IsFiniteSet(b) /\ Cardinality(b) <= Cardinality(a)
    BY <1>8, <1>9, FS_Injection
  <1>11. Cardinality(b) <= m
    <2>1. Cardinality(b) \in Nat
      BY <1>10, FS_CardinalityType
    <2> QED BY <1>8, <1>10, <2>1
  <1>12. i \in Leading(V, x, m)
    BY <1>3, <1>11 DEF Leading, b
  <1> QED BY <1>4, <1>12 DEF x

LEMMA ExchangeIsReversible ==
    ASSUME NEW S, NEW n \in Nat, NEW v \in Runs(S, n), NEW w \in Runs(S, n), NEW i \in 0..n,
           Exchanged(v, i) = Exchanged(w, i)
    PROVE  v = w
  <1>1. DOMAIN v = 0..n /\ DOMAIN w = 0..n
    BY DEF Runs
  <1>2. \A j \in 0..n : Other(i, j) \in 0..n /\ Other(i, Other(i, j)) = j
    BY DEF Other
  <1>3. ASSUME NEW j \in 0..n PROVE v[j] = w[j]
    <2>1. /\ Exchanged(v, i)[Other(i, j)] = v[Other(i, Other(i, j))]
          /\ Exchanged(w, i)[Other(i, j)] = w[Other(i, Other(i, j))]
      BY <1>1, <1>2 DEF Exchanged
    <2> QED BY <1>2, <2>1
  <1>4. v \in [0..n -> S] /\ w \in [0..n -> S]
    BY DEF Runs
  <1> QED BY <1>3, <1>4

\* Since no place is special, the first draw is among the m highest of n + 1 in
\* at most m of n + 1 runs.
First(S, V, n, m) == {w \in Runs(S, n) : 0 \in Leading(V, w, m)}

LEMMA FirstIsSeldomHigh ==
    ASSUME NEW S, NEW V, NEW n, Valued(S, V, n), NEW m \in Nat
    PROVE  /\ IsFiniteSet(First(S, V, n, m))
           /\ (n + 1) * Cardinality(First(S, V, n, m)) <= m * Cardinality(Runs(S, n))
  <1> DEFINE A == First(S, V, n, m)
             D == 0..n
             P == LeadingPlaces(S, V, n, m)
             B == D \X A
             f == [q \in B |-> <<q[1], Exchanged(q[2], q[1])>>]
  <1>1. n \in Nat /\ IsFiniteSet(D) /\ Cardinality(D) = n + 1 /\ IsFiniteSet(Runs(S, n))
    BY RunsAreFinite DEF Valued
  <1>2. IsFiniteSet(A)
    BY <1>1, FS_Subset DEF First
  <1>3. Cardinality(B) = (n + 1) * Cardinality(A)
    <2> HIDE DEF A, D
    <2> QED BY <1>1, <1>2, FS_Product
  <1>4. ASSUME NEW q \in B
        PROVE  /\ q = <<q[1], q[2]>> /\ q[1] \in 0..n /\ q[2] \in Runs(S, n)
               /\ 0 \in Leading(V, q[2], m)
    BY DEF First
  <1>5. f \in [B -> P]
    <2>1. ASSUME NEW q \in B PROVE <<q[1], Exchanged(q[2], q[1])>> \in P
      <3>1. Exchanged(q[2], q[1]) \in Runs(S, n) /\ q[1] \in Leading(V, Exchanged(q[2], q[1]), m)
        BY <1>4, ExchangedLeads
      <3> QED BY <1>4, <3>1 DEF LeadingPlaces
    <2> HIDE DEF B, P
    <2> QED BY <2>1
  <1>6. ASSUME NEW p \in B, NEW q \in B, f[p] = f[q] PROVE p = q
    <2>1. p[1] = q[1] /\ Exchanged(p[2], p[1]) = Exchanged(q[2], q[1])
      BY <1>6
    <2>2. p[2] = q[2]
      <3> DEFINE i == q[1]
                 v == p[2]
                 w == q[2]
      <3>1. v \in Runs(S, n) /\ w \in Runs(S, n) /\ i \in 0..n /\ Exchanged(v, i) = Exchanged(w, i)
        BY <1>4, <2>1
      <3> HIDE DEF i, v, w
      <3>2. v = w
        BY <1>1, <3>1, ExchangeIsReversible
      <3> QED BY <3>2 DEF v, w
    <2> QED BY <1>4, <2>1, <2>2
  <1>7. f \in Injection(B, P)
    <2> HIDE DEF f, B, P
    <2> QED BY <1>5, <1>6 DEF Injection, IsInjective
  <1>8. IsFiniteSet(P) /\ Cardinality(P) <= Cardinality(Runs(S, n)) * m
    BY LeadingAreBounded
  <1> HIDE DEF A, B, P, f
  <1>9. IsFiniteSet(B) /\ Cardinality(B) <= Cardinality(P)
    BY <1>7, <1>8, FS_Injection
  <1> DEFINE r == Cardinality(Runs(S, n))
             a == Cardinality(A)
             b == Cardinality(B)
             p == Cardinality(P)
  <1>10. r \in Nat /\ a \in Nat /\ b \in Nat /\ p \in Nat
    BY <1>1, <1>2, <1>8, <1>9, FS_CardinalityType
  <1>11. b = (n + 1) * a /\ b <= p /\ p <= r * m
    BY <1>3, <1>8, <1>9
  <1> HIDE DEF r, a, b, p
  <1>12. (n + 1) * a <= m * r
    <2>1. r * m = m * r /\ r * m \in Nat
      BY <1>10
    <2> QED BY <1>10, <1>11, <2>1
  <1> QED BY <1>2, <1>12 DEF A, a, r

-----------------------------------------------------------------------------

\* The items' values under some signs, and under some more.
Under(u, s) == [i \in DOMAIN u |-> s[i] * u[i]]
Times(s, t) == [i \in DOMAIN s |-> t[i] * s[i]]

LEMMA SignFacts ==
    ASSUME NEW n \in Nat, NEW u \in [1..n -> Int], NEW s \in Signs(u), NEW t \in Signs(u)
    PROVE  /\ Times(s, t) \in Signs(u)
           /\ Signed(u, s) \in Int /\ SumOf(Under(u, s)) = Signed(u, s)
           /\ Signed(Under(u, s), t) = Signed(u, Times(s, t))
           /\ \A x \in Signs(u) : Times(s, t) = Times(s, x) => t = x
  <1>1. DOMAIN u = 1..n /\ s \in [1..n -> {-1, 1}] /\ t \in [1..n -> {-1, 1}]
    BY DEF Signs
  <1>2. \A a, b \in {-1, 1} : b * a \in {-1, 1}
    OBVIOUS
  <1>3. Times(s, t) \in Signs(u)
    BY <1>1, <1>2 DEF Times, Signs
  <1>4. SumOf(Under(u, s)) = Signed(u, s)
    BY DEF Under, Signed
  <1>5. Signed(u, s) \in Int
    <2>1. Under(u, s) \in [1..n -> Int]
      <3>1. \A a \in {-1, 1} : \A b \in Int : a * b \in Int
        OBVIOUS
      <3> QED BY <1>1, <3>1 DEF Under
    <2> QED BY <1>4, <2>1, SumIsInteger
  <1>6. Signed(Under(u, s), t) = Signed(u, Times(s, t))
    <2>1. \A a, b \in {-1, 1} : \A c \in Int : b * (a * c) = (b * a) * c
      OBVIOUS
    <2>2. [i \in DOMAIN Under(u, s) |-> t[i] * Under(u, s)[i]]
              = [i \in DOMAIN u |-> Times(s, t)[i] * u[i]]
      BY <1>1, <2>1 DEF Under, Times
    <2> QED BY <2>2 DEF Signed
  <1>7. ASSUME NEW x \in Signs(u), Times(s, t) = Times(s, x) PROVE t = x
    <2>1. x \in [1..n -> {-1, 1}]
      BY <1>1 DEF Signs
    <2>2. ASSUME NEW i \in 1..n PROVE t[i] = x[i]
      <3>1. Times(s, t)[i] = t[i] * s[i] /\ Times(s, x)[i] = x[i] * s[i]
        BY <1>1 DEF Times
      <3>2. \A a, b, c \in {-1, 1} : b * a = c * a => b = c
        OBVIOUS
      <3> QED BY <1>1, <1>7, <2>1, <3>1, <3>2
    <2> QED BY <1>1, <2>1, <2>2
  <1> QED BY <1>3, <1>4, <1>5, <1>6, <1>7

\* The flips of a run that are as extreme as what it observes, and the place of
\* what it observes among all of the run.
Extremes(u, n, run) == {j \in 1..n : IsExtreme(Under(u, run[0]), run[j], "greater")}
Place(u, n) == [run \in Runs(Signs(u), n) |-> Cardinality(Extremes(u, n, run)) + 1]

\* The values of the signs, and the signs of a run taken one upon the other.
Value(u) == [s \in Signs(u) |-> Signed(u, s)]
Composed(run) == [j \in DOMAIN run |-> IF j = 0 THEN run[0] ELSE Times(run[0], run[j])]

LEMMA ComposedFacts ==
    ASSUME NEW k \in Nat, NEW u \in [1..k -> Int], NEW n \in Nat, NEW run \in Runs(Signs(u), n)
    PROVE  /\ Composed(run) \in Runs(Signs(u), n)
           /\ Cardinality(AtLeast(Value(u), Composed(run), 0))
                  = Cardinality(Extremes(u, n, run)) + 1
           /\ Cardinality(Extremes(u, n, run)) \in 0..n
           /\ \A other \in Runs(Signs(u), n) : Composed(run) = Composed(other) => run = other
  <1> DEFINE w == Composed(run)
             V == Value(u)
             x == Extremes(u, n, run)
  <1>1. DOMAIN run = 0..n /\ \A j \in 0..n : run[j] \in Signs(u)
    BY DEF Runs
  <1>2. 0 \in 0..n /\ \A j \in 1..n : j \in 0..n /\ j # 0
    OBVIOUS
  <1>3. /\ w[0] = run[0] /\ \A j \in 1..n : w[j] = Times(run[0], run[j])
        /\ DOMAIN w = 0..n
    BY <1>1, <1>2 DEF Composed
  <1>4. \A j \in 0..n : w[j] \in Signs(u)
    <2> TAKE j \in 0..n
    <2>1. CASE j = 0
      BY <1>1, <1>3, <2>1
    <2>2. CASE j # 0
      <3>1. j \in 1..n
        BY <2>2
      <3>2. Times(run[0], run[j]) \in Signs(u)
        BY <1>1, <1>2, SignFacts
      <3> QED BY <1>3, <3>1, <3>2
    <2> QED BY <2>1, <2>2
  <1>5. w \in Runs(Signs(u), n)
    <2>1. w = [j \in 0..n |-> w[j]]
      BY <1>1 DEF Composed
    <2> HIDE DEF w
    <2> QED BY <1>4, <2>1 DEF Runs
  <1>6. \A j \in 0..n : V[w[j]] = Signed(u, w[j]) /\ V[w[j]] \in Int
    BY <1>4, SignFacts DEF Value
  <1>7. ASSUME NEW j \in 1..n PROVE j \in x <=> V[w[j]] >= V[w[0]]
    <2>1. /\ Signed(Under(u, run[0]), run[j]) = Signed(u, w[j])
          /\ SumOf(Under(u, run[0])) = Signed(u, w[0])
      BY <1>1, <1>2, <1>3, SignFacts
    <2>2. j \in x <=> Signed(Under(u, run[0]), run[j]) >= SumOf(Under(u, run[0]))
      BY DEF Extremes, IsExtreme
    <2> QED BY <1>2, <1>6, <2>1, <2>2
  <1>8. AtLeast(V, w, 0) = x \cup {0} /\ 0 \notin x /\ x \in SUBSET (0..n)
    <2>1. \A j : j \in 0..n <=> j = 0 \/ j \in 1..n
      OBVIOUS
    <2>2. V[w[0]] >= V[w[0]]
      BY <1>2, <1>6
    <2>3. x \subseteq 1..n
      BY DEF Extremes
    <2> HIDE DEF x, w, V
    <2> QED BY <1>2, <1>3, <1>7, <2>1, <2>2, <2>3 DEF AtLeast
  <1>9. IsFiniteSet(x) /\ Cardinality(x) \in 0..n
    <2>1. x \in SUBSET (1..n)
      BY DEF Extremes
    <2>2. 1 \in Int /\ n \in Int
      OBVIOUS
    <2>3. IsFiniteSet(1..n) /\ Cardinality(1..n) = IF 1 > n THEN 0 ELSE n - 1 + 1
      BY <2>2, FS_Interval, Zenon
    <2>4. Cardinality(1..n) = n
      BY <2>3
    <2> HIDE DEF x
    <2>5. IsFiniteSet(x) /\ Cardinality(x) <= n
      BY <2>1, <2>3, <2>4, FS_Subset
    <2>6. Cardinality(x) \in Nat
      BY <2>5, FS_CardinalityType
    <2> QED BY <2>5, <2>6
  <1>10. Cardinality(AtLeast(V, w, 0)) = Cardinality(x) + 1
    <2> HIDE DEF x, w, V
    <2> QED BY <1>8, <1>9, FS_AddElement
  <1>11. ASSUME NEW other \in Runs(Signs(u), n), w = Composed(other) PROVE run = other
    <2>1. DOMAIN other = 0..n /\ \A j \in 0..n : other[j] \in Signs(u)
      BY DEF Runs
    <2>2. run[0] = other[0]
      BY <1>2, <1>3, <1>11, <2>1 DEF Composed
    <2>3. ASSUME NEW j \in 1..n PROVE run[j] = other[j]
      <3>1. w[j] = Times(other[0], other[j])
        BY <1>2, <1>11, <2>1 DEF Composed
      <3>2. Times(run[0], run[j]) = Times(run[0], other[j])
        BY <1>3, <2>2, <3>1
      <3> QED BY <1>1, <1>2, <2>1, <3>2, SignFacts
    <2>4. \A j \in 0..n : run[j] = other[j]
      BY <2>2, <2>3
    <2> QED BY <2>4 DEF Runs
  <1> QED BY <1>5, <1>9, <1>10, <1>11

\* Members of a set with a key from 1 to d, of which the m lowest keys are those
\* of no more than m in d members.
Keyed(R, e, d) ==
    /\ IsFiniteSet(R) /\ d \in Nat \ {0} /\ e \in [R -> 1..d]
    /\ \A m \in Nat : d * Cardinality({r \in R : e[r] <= m}) <= m * Cardinality(R)

\* What was observed takes each place in no more than its share of the runs.
LEMMA PlacesAreKeyed ==
    ASSUME NEW k \in Nat, NEW u \in [1..k -> Int], NEW n \in Nat
    PROVE  Keyed(Runs(Signs(u), n), Place(u, n), n + 1)
  <1> DEFINE S == Signs(u)
             V == Value(u)
             R == Runs(S, n)
             e == Place(u, n)
  <1>1. Valued(S, V, n)
    <2>1. IsFiniteSet(S)
      <3> DEFINE D == 1..k
      <3>1. IsFiniteSet(D) /\ IsFiniteSet({-1, 1})
        <4>1. 1 \in Int /\ k \in Int
          OBVIOUS
        <4>2. IsFiniteSet(1..k)
          BY <4>1, FS_Interval
        <4>3. IsFiniteSet({-1} \cup {1})
          BY FS_Singleton, FS_Union
        <4>4. {-1, 1} = {-1} \cup {1}
          OBVIOUS
        <4> QED BY <4>2, <4>3, <4>4
      <3>2. S = [D -> {-1, 1}]
        BY DEF Signs
      <3> HIDE DEF D, S
      <3> QED BY <3>1, <3>2, FunctionsAreFinite
    <2>2. V \in [S -> Int]
      BY SignFacts DEF Value
    <2> QED BY <2>1, <2>2 DEF Valued
  <1>2. IsFiniteSet(R)
    <2> HIDE DEF S, V
    <2> QED BY <1>1, RunsAreFinite
  <1>3. ASSUME NEW r \in R
        PROVE  /\ e[r] = Cardinality(Extremes(u, n, r)) + 1
               /\ e[r] \in 1..(n + 1)
               /\ Composed(r) \in R
               /\ e[r] = Cardinality(AtLeast(V, Composed(r), 0))
    <2>1. e[r] = Cardinality(Extremes(u, n, r)) + 1
      BY DEF Place
    <2> QED BY <2>1, ComposedFacts
  <1>4. e \in [R -> 1..(n + 1)]
    <2>1. DOMAIN e = R /\ e = [r \in R |-> e[r]]
      BY DEF Place
    <2> HIDE DEF e, R
    <2> QED BY <1>3, <2>1
  <1>5. ASSUME NEW m \in Nat
        PROVE  (n + 1) * Cardinality({r \in R : e[r] <= m}) <= m * Cardinality(R)
    <2> DEFINE A == {r \in R : e[r] <= m}
               B == First(S, V, n, m)
               f == [r \in A |-> Composed(r)]
    <2>1. IsFiniteSet(B) /\ (n + 1) * Cardinality(B) <= m * Cardinality(R)
      <3> HIDE DEF S, V
      <3> QED BY <1>1, FirstIsSeldomHigh
    <2>2. ASSUME NEW r \in A PROVE Composed(r) \in B
      <3>1. Composed(r) \in R /\ Cardinality(AtLeast(V, Composed(r), 0)) <= m
        BY <1>3
      <3>2. 0 \in DOMAIN Composed(r)
        BY <3>1 DEF Runs
      <3> QED BY <3>1, <3>2 DEF First, Leading
    <2>3. f \in [A -> B]
      <3> HIDE DEF A, B
      <3> QED BY <2>2
    <2>4. \A r, s \in A : f[r] = f[s] => r = s
      BY ComposedFacts
    <2>5. f \in Injection(A, B)
      <3> HIDE DEF f, A, B
      <3> QED BY <2>3, <2>4 DEF Injection, IsInjective
    <2> HIDE DEF f, A, B
    <2>6. IsFiniteSet(A) /\ Cardinality(A) <= Cardinality(B)
      BY <2>1, <2>5, FS_Injection
    <2> DEFINE a == Cardinality(A)
               b == Cardinality(B)
               c == Cardinality(R)
    <2>7. a \in Nat /\ b \in Nat /\ c \in Nat
      BY <1>2, <2>1, <2>6, FS_CardinalityType
    <2>8. a <= b /\ (n + 1) * b <= m * c
      BY <2>1, <2>6
    <2> HIDE DEF a, b, c
    <2>9. (n + 1) * a <= m * c
      <3>1. (n + 1) * a <= (n + 1) * b
        BY <2>7, <2>8
      <3>2. (n + 1) * a \in Nat /\ (n + 1) * b \in Nat /\ m * c \in Nat
        BY <2>7
      <3> QED BY <2>8, <3>1, <3>2
    <2> QED BY <2>9 DEF a, c, A
  <1> HIDE DEF R, e, S, V
  <1>6. Keyed(R, e, n + 1)
    BY <1>2, <1>4, <1>5 DEF Keyed
  <1> QED BY <1>6 DEF R, e, S

\* How many members have each key.
Tally(c, R, e, d) == c \in [1..d -> Nat] /\ \A x \in 1..d : c[x] = Cardinality({r \in R : e[r] = x})

LEMMA OutcomesTally ==
    ASSUME NEW k \in Nat, NEW u \in [1..k -> Int], NEW n \in Nat
    PROVE  Tally(Outcomes(u, n), Runs(Signs(u), n), Place(u, n), n + 1)
  <1> DEFINE S == Signs(u)
             R == Runs(S, n)
             e == Place(u, n)
             under(signs) == [i \in DOMAIN u |-> signs[i] * u[i]]
             hits == {s \in S \X S : IsExtreme(under(s[1]), s[2], "greater")}
             extremes(run) == Cardinality({j \in 1..n : <<run[0], run[j]>> \in hits})
             pairs == {<<run, extremes(run)>> : run \in R}
             c == Outcomes(u, n)
  <1>1. c = [x \in 1..(n + 1) |-> Cardinality({q \in pairs : q[2] = x - 1})]
    BY DEF Outcomes, Runs
  <1>2. ASSUME NEW r \in R
        PROVE  extremes(r) = e[r] - 1 /\ extremes(r) \in 0..n /\ e[r] \in 1..(n + 1)
    <2>1. r[0] \in S /\ \A j \in 1..n : r[j] \in S
      BY DEF Runs
    <2>2. under(r[0]) = Under(u, r[0])
      BY DEF Under
    <2>3. {j \in 1..n : <<r[0], r[j]>> \in hits} = Extremes(u, n, r)
      <3>1. ASSUME NEW j \in 1..n
            PROVE  <<r[0], r[j]>> \in hits <=> IsExtreme(Under(u, r[0]), r[j], "greater")
        BY <2>1, <2>2
      <3> HIDE DEF hits
      <3> QED BY <3>1 DEF Extremes
    <2>4. e[r] = Cardinality(Extremes(u, n, r)) + 1
      BY DEF Place
    <2>5. Cardinality(Extremes(u, n, r)) \in 0..n
      BY ComposedFacts
    <2>6. extremes(r) = Cardinality(Extremes(u, n, r))
      BY <2>3
    <2> HIDE DEF extremes, e, R
    <2> QED BY <2>4, <2>5, <2>6
  <1>3. IsFiniteSet(R)
    BY PlacesAreKeyed DEF Keyed
  <1> HIDE DEF S, R, e, extremes
  <1>4. ASSUME NEW x \in 1..(n + 1)
        PROVE  c[x] = Cardinality({r \in R : e[r] = x}) /\ c[x] \in Nat
    <2> DEFINE A == {r \in R : e[r] = x}
               B == {q \in pairs : q[2] = x - 1}
               f == [r \in A |-> <<r, extremes(r)>>]
    <2>1. IsFiniteSet(A)
      <3>1. A \subseteq R
        OBVIOUS
      <3> QED BY <1>3, <3>1, FS_Subset
    <2>2. ASSUME NEW r \in A PROVE <<r, extremes(r)>> \in B
      BY <1>2
    <2>3. f \in [A -> B]
      <3> HIDE DEF A, B
      <3> QED BY <2>2
    <2>4. \A r, s \in A : f[r] = f[s] => r = s
      OBVIOUS
    <2>5. ASSUME NEW q \in B PROVE \E r \in A : f[r] = q
      <3>1. PICK r \in R : q = <<r, extremes(r)>>
        OBVIOUS
      <3>2. extremes(r) = x - 1
        BY <3>1
      <3>3. e[r] = x
        BY <1>2, <3>2
      <3> QED BY <3>1, <3>3
    <2>6. ExistsBijection(A, B)
      <3> HIDE DEF f, A, B
      <3>1. f \in Bijection(A, B)
        BY <2>3, <2>4, <2>5 DEF Bijection, Injection, IsInjective, Surjection
      <3> QED BY <3>1 DEF ExistsBijection
    <2>7. c[x] = Cardinality(B)
      BY <1>1
    <2> HIDE DEF A, B, f, c
    <2>8. Cardinality(B) = Cardinality(A) /\ Cardinality(A) \in Nat
      BY <2>1, <2>6, FS_Bijection, FS_CardinalityType
    <2> QED BY <2>7, <2>8 DEF A
  <1>5. c \in [1..(n + 1) -> Nat]
    <2>1. c = [x \in 1..(n + 1) |-> c[x]]
      <3> HIDE DEF pairs, c
      <3> QED BY <1>1
    <2> HIDE DEF c
    <2> QED BY <1>4, <2>1
  <1> QED BY <1>4, <1>5 DEF Tally, R, S, e

\* Members whose key is below a share of d are no more than that share of all.
LEMMA LowKeysAreFew ==
    ASSUME NEW R, NEW e, NEW d, Keyed(R, e, d), NEW b \in Nat \ {0}, NEW alpha \in Nat,
           NEW T \in SUBSET R, \A r \in T : e[r] * b < alpha * d
    PROVE  IsFiniteSet(T) /\ b * Cardinality(T) <= alpha * Cardinality(R)
  <1> DEFINE t == Cardinality(T)
             c == Cardinality(R)
  <1>1. IsFiniteSet(T) /\ t \in Nat /\ c \in Nat
    BY FS_Subset, FS_CardinalityType DEF Keyed
  <1>2. CASE T = {}
    <2>1. t = 0
      BY <1>2, FS_EmptySet
    <2>2. b * 0 <= alpha * c
      <3> HIDE DEF t, c
      <3> QED BY <1>1
    <2> QED BY <1>1, <2>1, <2>2
  <1>3. CASE T # {}
    <2> DEFINE gaps == {d - e[r] : r \in T}
    <2>1. d \in Nat \ {0} /\ \A r \in T : e[r] \in 1..d
      BY DEF Keyed
    <2>2. gaps \in SUBSET Nat /\ gaps # {}
      <3>1. \A r \in T : d - e[r] \in Nat
        BY <2>1
      <3> QED BY <1>3, <3>1
    <2>3. PICK x \in gaps : \A y \in gaps : x <= y
      <3> HIDE DEF gaps
      <3> QED BY <2>2, LeastNumber
    <2>4. PICK r \in T : x = d - e[r]
      BY <2>3
    <2> DEFINE m == e[r]
               A == {s \in R : e[s] <= m}
               a == Cardinality(A)
    <2>5. m \in Nat /\ m * b < alpha * d
      BY <2>1
    <2>6. \A s \in T : e[s] <= m
      <3> TAKE s \in T
      <3>1. d - e[s] \in gaps
        OBVIOUS
      <3>2. d - m <= d - e[s]
        BY <2>3, <2>4, <3>1
      <3>3. e[s] \in Int /\ m \in Int /\ d \in Int
        BY <2>1
      <3> HIDE DEF m
      <3> QED BY <3>2, <3>3
    <2>7. T \subseteq A
      BY <2>6
    <2>8. IsFiniteSet(A) /\ A \subseteq R
      BY FS_Subset DEF Keyed
    <2>9. t <= a /\ a \in Nat
      <3> HIDE DEF A
      <3> QED BY <2>7, <2>8, FS_Subset, FS_CardinalityType
    <2>10. d * a <= m * c
      BY <2>5 DEF Keyed
    <2> HIDE DEF a, A, m, t, c
    <2>11. b * t <= alpha * c
      <3> SUFFICES ASSUME alpha * c < b * t PROVE FALSE
        <4>1. b * t \in Int /\ alpha * c \in Int
          BY <1>1
        <4> QED BY <4>1
      <3>1. d * t <= d * a
        BY <1>1, <2>1, <2>9
      <3>2. d * t \in Nat /\ d * a \in Nat /\ m * c \in Nat
        BY <1>1, <2>1, <2>5, <2>9
      <3>3. d * t <= m * c
        BY <2>10, <3>1, <3>2
      <3>4. b * (d * t) <= b * (m * c)
        BY <3>2, <3>3
      <3>5. b * (d * t) = d * (b * t) /\ b * (m * c) = (m * b) * c
        BY <1>1, <2>1, <2>5
      <3>6. (m * b) * c <= (alpha * d) * c
        <4> DEFINE y == m * b
                   z == alpha * d
        <4>1. y \in Nat /\ z \in Nat /\ y <= z
          BY <2>1, <2>5
        <4> HIDE DEF y, z
        <4>2. y * c <= z * c
          BY <1>1, <4>1
        <4> QED BY <4>2 DEF y, z
      <3>7. (alpha * d) * c = d * (alpha * c)
        BY <1>1, <2>1
      <3>8. d * (alpha * c) < d * (b * t)
        <4> DEFINE y == alpha * c
                   z == b * t
        <4>1. y \in Nat /\ z \in Nat /\ y < z
          BY <1>1
        <4> HIDE DEF y, z
        <4>2. d * y < d * z
          BY <2>1, <4>1
        <4> QED BY <4>2 DEF y, z
      <3>9. d * (b * t) <= d * (alpha * c)
        <4>1. /\ d * (b * t) \in Int /\ (m * b) * c \in Int /\ d * (alpha * c) \in Int
          BY <1>1, <2>1, <2>5
        <4> QED BY <3>4, <3>5, <3>6, <3>7, <4>1
      <3>10. d * (b * t) \in Int /\ d * (alpha * c) \in Int
        BY <1>1, <2>1
      <3> QED BY <3>8, <3>9, <3>10
    <2> QED BY <1>1, <2>11 DEF t, c
  <1> QED BY <1>2, <1>3

\* A table of the sums of v over the sets of keys, as MapThenSumSet makes it.
Added(it, X, v) ==
    it = [t \in SUBSET X |->
             IF t = {} THEN 0
             ELSE v[CHOOSE x \in t : TRUE] + it[t \ {CHOOSE x \in t : TRUE}]]

LEMMA AddedAreUnique ==
    ASSUME NEW X, IsFiniteSet(X), NEW v, NEW g, Added(g, X, v), NEW h, Added(h, X, v)
    PROVE  g[X] = h[X]
  <1> DEFINE pick(t) == CHOOSE x \in t : TRUE
             bad == {t \in SUBSET X : g[t] # h[t]}
             sizes == {Cardinality(t) : t \in bad}
  <1>1. \A t \in SUBSET X : /\ t = {} => g[t] = 0 /\ h[t] = 0
                            /\ t # {} => /\ g[t] = v[pick(t)] + g[t \ {pick(t)}]
                                         /\ h[t] = v[pick(t)] + h[t \ {pick(t)}]
    BY DEF Added
  <1>2. \A t \in SUBSET X : IsFiniteSet(t) /\ Cardinality(t) \in Nat
    BY FS_Subset, FS_CardinalityType
  <1>3. ASSUME NEW u \in bad PROVE FALSE
    <2>1. sizes \in SUBSET Nat /\ Cardinality(u) \in sizes
      BY <1>2
    <2>2. PICK n \in sizes : \A m \in sizes : n <= m
      <3> HIDE DEF sizes
      <3> QED BY <2>1, LeastNumber
    <2>3. PICK t \in bad : n = Cardinality(t)
      BY <2>2
    <2>4. t # {}
      BY <1>1
    <2> DEFINE x == pick(t)
    <2>5. x \in t
      BY <2>4
    <2> HIDE DEF pick
    <2>6. g[t] = v[x] + g[t \ {x}] /\ h[t] = v[x] + h[t \ {x}]
      BY <1>1, <2>4
    <2> HIDE DEF x
    <2>7. t \ {x} \in SUBSET X /\ Cardinality(t \ {x}) = Cardinality(t) - 1
      BY <1>2, <2>5, FS_RemoveElement
    <2>8. t \ {x} \notin bad
      <3> SUFFICES ASSUME t \ {x} \in bad PROVE FALSE
        OBVIOUS
      <3>1. Cardinality(t \ {x}) \in sizes
        OBVIOUS
      <3>2. n <= Cardinality(t \ {x}) /\ n \in Nat
        BY <1>2, <2>2, <2>3, <3>1
      <3> QED BY <2>3, <2>7, <3>2
    <2>9. g[t \ {x}] = h[t \ {x}]
      BY <2>7, <2>8
    <2> QED BY <2>9, <2>6
  <1> QED BY <1>3

\* Sets without a common member have as many members as both together.
LEMMA ApartSizes ==
    ASSUME NEW A, NEW B, IsFiniteSet(A), IsFiniteSet(B), A \cap B = {}
    PROVE  Cardinality(A \cup B) = Cardinality(A) + Cardinality(B)
  <1> DEFINE a == Cardinality(A)
             b == Cardinality(B)
             c == Cardinality(A \cup B)
  <1>1. a \in Nat /\ b \in Nat
    BY FS_CardinalityType
  <1>2. c = a + b - Cardinality({})
    BY FS_Union
  <1>3. Cardinality({}) = 0
    BY FS_EmptySet
  <1> HIDE DEF a, b, c
  <1>4. c = a + b
    BY <1>1, <1>2, <1>3
  <1> QED BY <1>4 DEF a, b, c

\* The members whose key is in a set, and a table of how many they are.
Holding(W, e, t) == {w \in W : e[w] \in t}
Held(W, e, X) == [t \in SUBSET X |-> Cardinality(Holding(W, e, t))]

LEMMA HeldAreAdded ==
    ASSUME NEW W, IsFiniteSet(W), NEW e, NEW X, NEW v,
           \A x \in X : v[x] = Cardinality(Holding(W, e, {x}))
    PROVE  Added(Held(W, e, X), X, v)
  <1> DEFINE g == Held(W, e, X)
  <1>1. ASSUME NEW t \in SUBSET X
        PROVE  g[t] = IF t = {} THEN 0
                      ELSE v[CHOOSE x \in t : TRUE] + g[t \ {CHOOSE x \in t : TRUE}]
    <2>1. g[t] = Cardinality(Holding(W, e, t))
      BY DEF Held
    <2>2. CASE t = {}
      <3>1. Holding(W, e, t) = {}
        BY <2>2 DEF Holding
      <3> QED BY <2>1, <2>2, <3>1, FS_EmptySet
    <2>3. CASE t # {}
      <3> DEFINE x == CHOOSE x \in t : TRUE
                 A == Holding(W, e, {x})
                 B == Holding(W, e, t \ {x})
      <3>1. x \in t
        BY <2>3
      <3> HIDE DEF x
      <3>2. IsFiniteSet(A) /\ IsFiniteSet(B)
        BY FS_Subset DEF Holding
      <3>3. A \cup B = Holding(W, e, t) /\ A \cap B = {}
        BY <3>1 DEF Holding
      <3>4. g[t \ {x}] = Cardinality(B) /\ v[x] = Cardinality(A)
        BY <3>1 DEF Held
      <3> HIDE DEF A, B, g
      <3>5. Cardinality(A \cup B) = Cardinality(A) + Cardinality(B)
        BY <3>2, <3>3, ApartSizes
      <3> QED BY <2>1, <2>3, <3>3, <3>4, <3>5 DEF x
    <2> QED BY <2>2, <2>3
  <1>2. g = [t \in SUBSET X |-> g[t]]
    BY DEF Held
  <1> HIDE DEF g
  <1>3. Added(g, X, v)
    BY <1>1, <1>2 DEF Added
  <1> QED BY <1>3 DEF g

\* The sum of what a table holds of some keys.
SumOfKeys(c, X) == MapThenSumSet(LAMBDA a : c[a], X)

\* A sum of tallies is the number of members with those keys.
LEMMA SumOfTallies ==
    ASSUME NEW R, NEW e, NEW d, Keyed(R, e, d), NEW c, Tally(c, R, e, d),
           NEW X \in SUBSET (1..d)
    PROVE  /\ IsFiniteSet(X)
           /\ SumOfKeys(c, X) = Cardinality(Holding(R, e, X))
  <1> DEFINE table == CHOOSE it : Added(it, X, c)
             g == Held(R, e, X)
  <1>1. IsFiniteSet(X)
    <2>1. 1 \in Int /\ d \in Int
      BY DEF Keyed
    <2>2. IsFiniteSet(1..d)
      BY <2>1, FS_Interval
    <2> QED BY <2>2, FS_Subset
  <1>2. SumOfKeys(c, X) = table[X]
    BY DEF SumOfKeys, MapThenSumSet, MapThenFoldSet, Added
  <1>3. Added(g, X, c)
    <2>1. IsFiniteSet(R)
      BY DEF Keyed
    <2>2. \A x \in X : c[x] = Cardinality(Holding(R, e, {x}))
      <3> TAKE x \in X
      <3>1. {r \in R : e[r] = x} = Holding(R, e, {x})
        BY DEF Holding
      <3>2. c[x] = Cardinality({r \in R : e[r] = x})
        BY DEF Tally
      <3> QED BY <3>1, <3>2
    <2> QED BY <2>1, <2>2, HeldAreAdded
  <1>4. Added(table, X, c)
    <2> HIDE DEF g
    <2> QED BY <1>3
  <1>5. table[X] = g[X]
    <2> HIDE DEF g, table
    <2> QED BY <1>1, <1>3, <1>4, AddedAreUnique
  <1>6. g[X] = Cardinality(Holding(R, e, X))
    BY DEF Held
  <1> QED BY <1>1, <1>2, <1>5, <1>6

\* All the tallies sum to the number of members.
LEMMA TalliesAddUp ==
    ASSUME NEW R, NEW e, NEW d, Keyed(R, e, d), NEW c, Tally(c, R, e, d)
    PROVE  SumOf(c) = Cardinality(R)
  <1> DEFINE upto(k) == Cardinality({r \in R : e[r] <= k})
  <1>1. d \in Nat \ {0} /\ IsFiniteSet(R) /\ e \in [R -> 1..d] /\ c \in [1..d -> Nat]
    BY DEF Keyed, Tally
  <1>2. PICK h \in [0..d -> Int] : h[0] = 0 /\ h[d] = SumOf(c)
                                    /\ \A k \in 1..d : h[k] = h[k - 1] + c[k]
    <2>1. d \in Nat /\ c \in [1..d -> Int]
      BY <1>1
    <2> QED BY <2>1, PartialSums
  <1> DEFINE S == {k \in Nat : k <= d => h[k] = upto(k)}
  <1>3. 0 \in S
    <2>1. {r \in R : e[r] <= 0} = {}
      BY <1>1
    <2>2. upto(0) = 0
      BY <2>1, FS_EmptySet
    <2> QED BY <1>2, <2>2
  <1>4. ASSUME NEW k \in Nat, k \in S PROVE k + 1 \in S
    <2> SUFFICES ASSUME k + 1 <= d PROVE h[k + 1] = upto(k + 1)
      <3> HIDE DEF upto
      <3> QED BY k + 1 \in Nat
    <2> DEFINE A == {r \in R : e[r] <= k}
               B == {r \in R : e[r] = k + 1}
               C == {r \in R : e[r] <= k + 1}
    <2>1. k + 1 \in 1..d /\ (k + 1) - 1 = k /\ k <= d
      BY <1>1
    <2>2. h[k + 1] = h[k] + c[k + 1]
      BY <1>2, <2>1
    <2>3. h[k] = Cardinality(A)
      BY <1>4, <2>1
    <2>4. c[k + 1] = Cardinality(B)
      BY <2>1 DEF Tally
    <2>5. IsFiniteSet(A) /\ IsFiniteSet(B)
      BY <1>1, FS_Subset
    <2>6. A \cup B = C /\ A \cap B = {}
      <3>1. \A r \in R : e[r] \in Int
        BY <1>1
      <3>2. \A r \in R : e[r] <= k + 1 <=> e[r] <= k \/ e[r] = k + 1
        BY <3>1
      <3>3. \A r \in R : ~ (e[r] <= k /\ e[r] = k + 1)
        BY <3>1
      <3> QED BY <3>2, <3>3
    <2>7. Cardinality(C) = Cardinality(A) + Cardinality(B)
      <3> HIDE DEF A, B, C
      <3>1. Cardinality(A \cup B) = Cardinality(A) + Cardinality(B)
        BY <2>5, <2>6, ApartSizes
      <3> QED BY <2>6, <3>1
    <2> QED BY <2>2, <2>3, <2>4, <2>7
  <1>5. Nat \subseteq S
    <2> HIDE DEF S
    <2> QED BY <1>3, <1>4, Induction
  <1>6. h[d] = upto(d)
    BY <1>1, <1>5
  <1>7. {r \in R : e[r] <= d} = R
    BY <1>1
  <1> QED BY <1>2, <1>6, <1>7

\* The keys of a pair.
Paired(R, e, W, f) == [q \in R \X W |-> <<e[q[1]], f[q[2]]>>]

\* The sum of products of what two tables hold of some keys.
SumOfPairs(c, b, X) == MapThenSumSet(LAMBDA k : c[k[1]] * b[k[2]], X)

\* A sum of products of tallies is the number of pairs with those keys.
LEMMA SumOfProducts ==
    ASSUME NEW d, NEW R, NEW e, Keyed(R, e, d), NEW W, NEW f, Keyed(W, f, d),
           NEW c, Tally(c, R, e, d), NEW b, Tally(b, W, f, d),
           NEW X \in SUBSET ((1..d) \X (1..d))
    PROVE  SumOfPairs(c, b, X)
               = Cardinality(Holding(R \X W, Paired(R, e, W, f), X))
  <1> DEFINE K == (1..d) \X (1..d)
             P == R \X W
             key == Paired(R, e, W, f)
             v == [k \in K |-> c[k[1]] * b[k[2]]]
             Made(it) == it = [t \in SUBSET X |->
                 IF t = {} THEN 0
                 ELSE c[(CHOOSE x \in t : TRUE)[1]] * b[(CHOOSE x \in t : TRUE)[2]]
                          + it[t \ {CHOOSE x \in t : TRUE}]]
             table == CHOOSE it : Made(it)
             g == Held(P, key, X)
  <1>1. IsFiniteSet(R) /\ IsFiniteSet(W) /\ d \in Nat
    BY DEF Keyed
  <1>2. IsFiniteSet(P) /\ \A A \in SUBSET R, B \in SUBSET W :
                              Cardinality(A \X B) = Cardinality(A) * Cardinality(B)
    <2>1. IsFiniteSet(P)
      BY <1>1, FS_Product
    <2>2. ASSUME NEW A \in SUBSET R, NEW B \in SUBSET W
          PROVE  Cardinality(A \X B) = Cardinality(A) * Cardinality(B)
      <3>1. IsFiniteSet(A) /\ IsFiniteSet(B)
        BY <1>1, FS_Subset
      <3> QED BY <3>1, FS_Product
    <2> QED BY <2>1, <2>2
  <1>3. IsFiniteSet(X)
    <2> DEFINE D == 1..d
    <2>1. 1 \in Int /\ d \in Int
      BY <1>1
    <2>2. IsFiniteSet(D)
      BY <2>1, FS_Interval
    <2>3. X \in SUBSET (D \X D)
      OBVIOUS
    <2> HIDE DEF D
    <2>4. IsFiniteSet(D \X D)
      BY <2>2, FS_Product
    <2> QED BY <2>3, <2>4, FS_Subset
  <1>4. SumOfPairs(c, b, X) = table[X]
    BY DEF SumOfPairs, MapThenSumSet, MapThenFoldSet
  <1>5. ASSUME NEW it PROVE Made(it) <=> Added(it, X, v)
    <2>1. ASSUME NEW t \in SUBSET X, t # {}
          PROVE  v[CHOOSE x \in t : TRUE]
                     = c[(CHOOSE x \in t : TRUE)[1]] * b[(CHOOSE x \in t : TRUE)[2]]
      <3> DEFINE x == CHOOSE x \in t : TRUE
      <3>1. x \in K
        BY <2>1
      <3> HIDE DEF x, K
      <3>2. v[x] = c[x[1]] * b[x[2]]
        BY <3>1
      <3> QED BY <3>2 DEF x
    <2> DEFINE one(t) == IF t = {} THEN 0
                         ELSE c[(CHOOSE x \in t : TRUE)[1]] * b[(CHOOSE x \in t : TRUE)[2]]
                                  + it[t \ {CHOOSE x \in t : TRUE}]
               other(t) == IF t = {} THEN 0
                           ELSE v[CHOOSE x \in t : TRUE] + it[t \ {CHOOSE x \in t : TRUE}]
    <2>2. ASSUME NEW t \in SUBSET X PROVE one(t) = other(t)
      <3> HIDE DEF v
      <3>1. CASE t = {}
        BY <3>1
      <3>2. CASE t # {}
        BY <2>1, <3>2
      <3> QED BY <3>1, <3>2
    <2>3. /\ Made(it) <=> it = [t \in SUBSET X |-> one(t)]
          /\ Added(it, X, v) <=> it = [t \in SUBSET X |-> other(t)]
      BY DEF Added
    <2> HIDE DEF one, other, Made, v
    <2>4. [t \in SUBSET X |-> one(t)] = [t \in SUBSET X |-> other(t)]
      BY <2>2
    <2> QED BY <2>3, <2>4
  <1>6. ASSUME NEW x \in X PROVE v[x] = Cardinality(Holding(P, key, {x}))
    <2> DEFINE A == {r \in R : e[r] = x[1]}
               B == {w \in W : f[w] = x[2]}
    <2>1. x = <<x[1], x[2]>> /\ x[1] \in 1..d /\ x[2] \in 1..d
      OBVIOUS
    <2>2. v[x] = c[x[1]] * b[x[2]]
      OBVIOUS
    <2>3. c[x[1]] = Cardinality(A) /\ b[x[2]] = Cardinality(B)
      BY <2>1 DEF Tally
    <2>4. Holding(P, key, {x}) = A \X B
      <3>1. \A q \in P : key[q] = x <=> e[q[1]] = x[1] /\ f[q[2]] = x[2]
        BY <2>1 DEF Paired
      <3> HIDE DEF key
      <3>2. \A q : q \in Holding(P, key, {x}) <=> q \in P /\ e[q[1]] = x[1] /\ f[q[2]] = x[2]
        BY <3>1 DEF Holding
      <3>3. \A q : q \in A \X B <=> q \in P /\ e[q[1]] = x[1] /\ f[q[2]] = x[2]
        OBVIOUS
      <3> QED BY <3>2, <3>3
    <2>5. Cardinality(A \X B) = Cardinality(A) * Cardinality(B)
      <3>1. A \in SUBSET R /\ B \in SUBSET W
        OBVIOUS
      <3> HIDE DEF A, B
      <3> QED BY <1>2, <3>1
    <2> HIDE DEF A, B, v, key, P
    <2> QED BY <2>2, <2>3, <2>4, <2>5
  <1>7. Added(g, X, v)
    <2> HIDE DEF P, key, v
    <2> QED BY <1>2, <1>6, HeldAreAdded
  <1>8. Added(table, X, v)
    <2>1. Made(g)
      <3> HIDE DEF Made, v, g
      <3> QED BY <1>5, <1>7
    <2>2. Made(table)
      <3> HIDE DEF Made, g
      <3> QED BY <2>1
    <2> HIDE DEF Made, v, table
    <2> QED BY <1>5, <2>2
  <1>9. table[X] = g[X]
    <2> HIDE DEF g, table, v
    <2> QED BY <1>3, <1>7, <1>8, AddedAreUnique
  <1>10. g[X] = Cardinality(Holding(P, key, X))
    BY DEF Held
  <1> QED BY <1>4, <1>9, <1>10

-----------------------------------------------------------------------------

\* What is no larger than a fraction below another is below it.
LEMMA FractionsChain ==
    ASSUME NEW x \in Nat, NEW y \in Nat \ {0}, NEW z \in Nat, NEW w \in Nat \ {0},
           NEW a \in Nat, NEW s \in Nat \ {0}, x * s < a * y, z * y <= x * w
    PROVE  z * s < a * w
  <1> SUFFICES ASSUME a * w <= z * s PROVE FALSE
    <2>1. a * w \in Int /\ z * s \in Int
      OBVIOUS
    <2> QED BY <2>1
  <1>1. (z * y) * s <= (x * w) * s
    <2> DEFINE i == z * y
               j == x * w
    <2>1. i \in Nat /\ j \in Nat /\ i <= j
      OBVIOUS
    <2> HIDE DEF i, j
    <2>2. i * s <= j * s
      BY <2>1
    <2> QED BY <2>2 DEF i, j
  <1>2. (x * s) * w < (a * y) * w
    <2> DEFINE i == x * s
               j == a * y
    <2>1. i \in Nat /\ j \in Nat /\ i < j
      OBVIOUS
    <2> HIDE DEF i, j
    <2>2. i * w < j * w
      BY <2>1
    <2> QED BY <2>2 DEF i, j
  <1>3. (a * w) * y <= (z * s) * y
    <2> DEFINE i == a * w
               j == z * s
    <2>1. i \in Nat /\ j \in Nat /\ i <= j
      OBVIOUS
    <2> HIDE DEF i, j
    <2>2. i * y <= j * y
      BY <2>1
    <2> QED BY <2>2 DEF i, j
  <1>4. (x * w) * s = (x * s) * w /\ (a * y) * w = (a * w) * y /\ (z * s) * y = (z * y) * s
    OBVIOUS
  <1>5. /\ (x * s) * w \in Int /\ (a * w) * y \in Int /\ (z * y) * s \in Int
    OBVIOUS
  <1> QED BY <1>1, <1>2, <1>3, <1>4, <1>5

\* An adjusted p-value below a level keeps every candidate up to it below.
LEMMA HolmKeepsBelow ==
    ASSUME NEW p, DOMAIN p = 1..2, Len(p) = 2, \A k \in 1..2 : Positive(p[k]), NEW h \in 1..2,
           NEW alpha \in 1..(Scale - 1), Less(Holm(p)[h], PPM(alpha)),
           NEW j \in 1..2, Before(p, j, h)
    PROVE  (Remaining(p, j) * p[j].num) * Scale < alpha * p[j].den
  <1>1. PICK k \in 1..2 : Steps(p, h, k)
    BY HolmSteps
  <1> DEFINE x == Candidate(p, k).num
             y == Candidate(p, k).den
             z == Candidate(p, j).num
             w == Candidate(p, j).den
             scaled == Q(Remaining(p, j) * p[j].num, p[j].den)
  <1>2. x \in Nat /\ y \in Nat \ {0} /\ z \in Nat /\ w \in Nat \ {0}
    BY HolmSteps DEF Probability
  <1>3. x * Scale < alpha * y
    BY <1>1 DEF Steps, Less, PPM, Q
  <1>4. ~ (x * w < z * y)
    BY <1>1 DEF Steps, Less
  <1>5. Candidate(p, j) = IF Less(Q(1, 1), scaled) THEN Q(1, 1) ELSE scaled
    BY DEF Candidate
  <1>6. Scale \in Nat \ {0} /\ alpha \in Nat /\ alpha < Scale
    BY BoundFacts
  <1> HIDE DEF x, y, z, w
  <1>7. z * y <= x * w
    <2>1. z * y \in Int /\ x * w \in Int
      BY <1>2
    <2> QED BY <1>4, <2>1
  <1>8. z * Scale < alpha * w
    BY <1>2, <1>3, <1>6, <1>7, FractionsChain
  <1>9. Candidate(p, j) # Q(1, 1)
    <2> SUFFICES ASSUME Candidate(p, j) = Q(1, 1) PROVE FALSE
      OBVIOUS
    <2>1. z = 1 /\ w = 1
      BY DEF z, w, Q
    <2> QED BY <1>6, <1>8, <2>1
  <1>10. z = Remaining(p, j) * p[j].num /\ w = p[j].den
    <2>1. Candidate(p, j) = scaled
      BY <1>5, <1>9
    <2> QED BY <2>1 DEF z, w, Q
  <1> QED BY <1>8, <1>10

\* A contrast is found significant only if its p-value is below alpha, and only
\* if one of the two is below half of it.
LEMMA FoundMeansBelow ==
    ASSUME NEW d \in Nat \ {0}, NEW a \in 1..d, NEW b \in 1..d, NEW alpha \in 1..(Scale - 1),
           NEW h \in 1..2, Less(Holm(<<Q(a, d), Q(b, d)>>)[h], PPM(alpha))
    PROVE  /\ h = 1 => a * Scale < alpha * d
           /\ h = 2 => b * Scale < alpha * d
           /\ a * (2 * Scale) < alpha * d \/ b * (2 * Scale) < alpha * d
  <1> DEFINE p == <<Q(a, d), Q(b, d)>>
             before(j, k) == Before(p, j, k)
             t(j) == {k \in DOMAIN p : before(k, j)}
  <1>1. /\ DOMAIN p = 1..2 /\ Len(p) = 2 /\ \A k \in 1..2 : Positive(p[k])
        /\ p[1].num = a /\ p[2].num = b /\ p[1].den = d /\ p[2].den = d
    BY DEF Positive, Q
  <1>2. /\ before(1, 1) /\ before(2, 2)
        /\ before(1, 2) <=> a <= b
        /\ before(2, 1) <=> b < a
    <2>1. /\ Same(p[1], p[1]) /\ Same(p[2], p[2])
      BY DEF Same
    <2>2. /\ Less(p[1], p[2]) <=> a * d < b * d
          /\ Less(p[2], p[1]) <=> b * d < a * d
          /\ Same(p[1], p[2]) <=> a * d = b * d
          /\ Same(p[2], p[1]) <=> b * d = a * d
      BY <1>1 DEF Less, Same
    <2>3. \A x, y \in 1..d : (x * d < y * d <=> x < y) /\ (x * d = y * d <=> x = y)
      OBVIOUS
    <2>4. /\ a * d < b * d <=> a < b
          /\ b * d < a * d <=> b < a
          /\ a * d = b * d <=> a = b
      BY <2>3
    <2> HIDE DEF p
    <2>5. before(1, 2) <=> a <= b
      BY <2>2, <2>4 DEF Before
    <2>6. before(2, 1) <=> b < a
      BY <2>2, <2>4 DEF Before
    <2>7. before(1, 1) /\ before(2, 2)
      BY <2>1 DEF Before
    <2> QED BY <2>5, <2>6, <2>7
  <1> HIDE DEF p, before
  <1>3. ASSUME NEW j \in 1..2
        PROVE  /\ Remaining(p, j) \in 1..2
               /\ \A k \in 1..2 : k # j /\ ~ before(k, j) => Remaining(p, j) = 2
    <2>1. t(j) \in SUBSET (1..2) /\ j \in t(j)
      BY <1>1, <1>2
    <2>2. Remaining(p, j) = (2 - Cardinality(t(j))) + 1
      BY <1>1 DEF Remaining, before
    <2>3. Cardinality(t(j)) \in 1..2
      <3> HIDE DEF t
      <3>1. Cardinality(t(j)) \in 0..2
        BY <2>1, SomePlaces
      <3>2. IsFiniteSet(1..2)
        <4>1. 1 \in Int /\ 2 \in Int
          OBVIOUS
        <4> QED BY <4>1, FS_Interval
      <3>3. IsFiniteSet(t(j))
        BY <2>1, <3>2, FS_Subset
      <3>4. Cardinality(t(j)) # 0
        BY <2>1, <3>3, FS_EmptySet
      <3> QED BY <3>1, <3>4
    <2>4. ASSUME NEW k \in 1..2, k # j, ~ before(k, j) PROVE Cardinality(t(j)) = 1
      <3>1. t(j) = {j}
        BY <1>1, <2>1, <2>4
      <3> QED BY <3>1, FS_Singleton
    <2> HIDE DEF t
    <2> QED BY <2>2, <2>3, <2>4
  <1>4. Scale \in Nat \ {0} /\ a \in Nat /\ b \in Nat /\ alpha \in Nat /\ alpha * d \in Nat
    BY BoundFacts
  <1>5. ASSUME NEW j \in 1..2, before(j, h)
        PROVE  (Remaining(p, j) * p[j].num) * Scale < alpha * d
    <2>1. Less(Holm(p)[h], PPM(alpha))
      BY DEF p
    <2>2. (Remaining(p, j) * p[j].num) * Scale < alpha * p[j].den
      BY <1>1, <1>5, <2>1, HolmKeepsBelow DEF before
    <2>3. p[j].den = d
      BY <1>1
    <2> QED BY <2>2, <2>3
  <1>6. ASSUME NEW x \in Nat, NEW m \in 1..2, (m * x) * Scale < alpha * d
        PROVE  /\ x * Scale < alpha * d
               /\ m = 2 => x * (2 * Scale) < alpha * d
    <2>1. CASE m = 1
      <3>1. m * x = x
        BY <2>1
      <3> QED BY <1>6, <2>1, <3>1
    <2>2. CASE m = 2
      <3>1. (m * x) * Scale = x * (2 * Scale) /\ x * (2 * Scale) = x * Scale + x * Scale
        BY <1>4, <2>2
      <3>2. x * Scale \in Nat
        BY <1>4
      <3> QED BY <1>4, <1>6, <3>1, <3>2
    <2> QED BY <2>1, <2>2
  <1>7. /\ h = 1 => a * Scale < alpha * d
        /\ h = 2 => b * Scale < alpha * d
    <2>1. CASE h = 1
      <3>1. (Remaining(p, 1) * a) * Scale < alpha * d
        BY <1>1, <1>2, <1>5, <2>1
      <3> QED BY <1>3, <1>4, <1>6, <2>1, <3>1
    <2>2. CASE h = 2
      <3>1. (Remaining(p, 2) * b) * Scale < alpha * d
        BY <1>1, <1>2, <1>5, <2>2
      <3> QED BY <1>3, <1>4, <1>6, <2>2, <3>1
    <2> QED BY <2>1, <2>2
  <1>8. a * (2 * Scale) < alpha * d \/ b * (2 * Scale) < alpha * d
    <2>0. h = 1 \/ h = 2
      OBVIOUS
    <2>1. CASE a <= b
      <3>1. before(1, h) /\ ~ before(2, 1)
        BY <1>2, <1>4, <2>0, <2>1
      <3>2. Remaining(p, 1) = 2
        BY <1>3, <3>1
      <3>3. (Remaining(p, 1) * a) * Scale < alpha * d
        BY <1>1, <1>5, <3>1
      <3> QED BY <1>3, <1>4, <1>6, <3>2, <3>3
    <2>2. CASE b < a
      <3>1. before(2, h) /\ ~ before(1, 2)
        BY <1>2, <1>4, <2>0, <2>2
      <3>2. Remaining(p, 2) = 2
        BY <1>3, <3>1
      <3>3. (Remaining(p, 2) * b) * Scale < alpha * d
        BY <1>1, <1>5, <3>1
      <3> QED BY <1>3, <1>4, <1>6, <3>2, <3>3
    <2> QED BY <1>4, <2>1, <2>2
  <1> QED BY <1>7, <1>8

\* Pairs one of whose keys is below half a share are no more than that share.
LEMMA LowPairsAreFew ==
    ASSUME NEW d, NEW R, NEW e, Keyed(R, e, d), NEW W, NEW f, Keyed(W, f, d),
           NEW s \in Nat \ {0}, NEW alpha \in Nat, NEW T \in SUBSET (R \X W),
           \A q \in T : e[q[1]] * (2 * s) < alpha * d \/ f[q[2]] * (2 * s) < alpha * d
    PROVE  /\ Cardinality(T) \in Nat /\ Cardinality(R) \in Nat /\ Cardinality(W) \in Nat
           /\ s * Cardinality(T) <= alpha * (Cardinality(R) * Cardinality(W))
  <1> DEFINE A == {r \in R : e[r] * (2 * s) < alpha * d}
             B == {w \in W : f[w] * (2 * s) < alpha * d}
             a == Cardinality(A)
             b == Cardinality(B)
             r == Cardinality(R)
             w == Cardinality(W)
             t == Cardinality(T)
  <1>1. IsFiniteSet(R) /\ IsFiniteSet(W) /\ r \in Nat /\ w \in Nat /\ 2 * s \in Nat \ {0}
    BY FS_CardinalityType DEF Keyed
  <1>2. IsFiniteSet(A) /\ a \in Nat /\ (2 * s) * a <= alpha * r
    <2>1. A \in SUBSET R /\ \A x \in A : e[x] * (2 * s) < alpha * d
      OBVIOUS
    <2> HIDE DEF A
    <2> QED BY <1>1, <2>1, LowKeysAreFew, FS_CardinalityType
  <1>3. IsFiniteSet(B) /\ b \in Nat /\ (2 * s) * b <= alpha * w
    <2>1. B \in SUBSET W /\ \A x \in B : f[x] * (2 * s) < alpha * d
      OBVIOUS
    <2> HIDE DEF B
    <2> QED BY <1>1, <2>1, LowKeysAreFew, FS_CardinalityType
  <1>4. T \subseteq (A \X W) \cup (R \X B)
    OBVIOUS
  <1> HIDE DEF A, B
  <1> DEFINE C == A \X W
             D == R \X B
  <1>5. IsFiniteSet(C) /\ Cardinality(C) = a * w
    BY <1>1, <1>2, FS_Product
  <1>6. IsFiniteSet(D) /\ Cardinality(D) = r * b
    BY <1>1, <1>3, FS_Product
  <1>7. T \subseteq C \cup D
    BY <1>4
  <1> HIDE DEF C, D
  <1>8. t \in Nat /\ t <= a * w + r * b
    <2> DEFINE c == Cardinality(C)
               g == Cardinality(D)
               i == Cardinality(C \cap D)
               u == Cardinality(C \cup D)
    <2>1. IsFiniteSet(C \cup D) /\ u = c + g - i /\ IsFiniteSet(C \cap D)
      BY <1>5, <1>6, FS_Union, FS_Intersection
    <2>2. c \in Nat /\ g \in Nat /\ i \in Nat /\ u \in Nat
      BY <1>5, <1>6, <2>1, FS_CardinalityType
    <2>3. IsFiniteSet(T) /\ t <= u /\ t \in Nat
      BY <1>7, <2>1, FS_Subset, FS_CardinalityType
    <2>4. c = a * w /\ g = r * b
      BY <1>5, <1>6
    <2>5. u = c + g - i
      BY <2>1
    <2> HIDE DEF c, g, i, u, t
    <2>6. t <= c + g
      BY <2>2, <2>3, <2>5
    <2> QED BY <2>3, <2>4, <2>6
  <1> HIDE DEF a, b, r, w, t
  <1>9. s * t <= alpha * (r * w)
    <2> DEFINE x == s * t
               y == alpha * (r * w)
               m == a * w
               n == r * b
    <2>1. m \in Nat /\ n \in Nat /\ x \in Nat /\ y \in Nat
      BY <1>1, <1>2, <1>3, <1>8
    <2>2. (2 * s) * m <= y
      <3> DEFINE i == (2 * s) * a
                 j == alpha * r
      <3>1. i \in Nat /\ j \in Nat /\ i <= j
        BY <1>1, <1>2
      <3>2. (2 * s) * m = i * w /\ y = j * w
        BY <1>1, <1>2
      <3> HIDE DEF i, j, m, y
      <3>3. i * w <= j * w
        BY <1>1, <3>1
      <3> QED BY <3>2, <3>3
    <2>3. (2 * s) * n <= y
      <3> DEFINE i == (2 * s) * b
                 j == alpha * w
      <3>1. i \in Nat /\ j \in Nat /\ i <= j
        BY <1>1, <1>3
      <3>2. (2 * s) * n = i * r /\ y = j * r
        BY <1>1, <1>3
      <3> HIDE DEF i, j, n, y
      <3>3. i * r <= j * r
        BY <1>1, <3>1
      <3> QED BY <3>2, <3>3
    <2>4. t <= m + n
      BY <1>8
    <2> HIDE DEF m, n
    <2>5. (2 * s) * t <= (2 * s) * (m + n)
      BY <1>1, <1>8, <2>1, <2>4
    <2>6. (2 * s) * (m + n) = (2 * s) * m + (2 * s) * n /\ (2 * s) * t = x + x
      BY <1>1, <1>8, <2>1
    <2>7. (2 * s) * m \in Nat /\ (2 * s) * n \in Nat
      BY <1>1, <2>1
    <2> HIDE DEF x, y
    <2>8. x <= y
      BY <2>1, <2>2, <2>3, <2>5, <2>6, <2>7
    <2> QED BY <2>8 DEF x, y
  <1> QED BY <1>1, <1>8, <1>9 DEF a, b, r, w, t

\* What is found of the two p-values at some places.
Found(d, a, b, h) == Significant(Holm(<<Q(a, d), Q(b, d)>>)[h], protocol)

LEMMA FamilyErrors ==
    ASSUME IInv, phase = "bootstrap"
    PROVE  FamilyErrorIsBounded
  <1> DEFINE n == protocol.randomizations
             d == n + 1
             alpha == protocol.alpha
             unit(h) == Units(Differences(panel, CONTRASTS[h]))
             R == Runs(Signs(unit(1)), n)
             W == Runs(Signs(unit(2)), n)
             e == Place(unit(1), n)
             f == Place(unit(2), n)
             first == Outcomes(unit(1), n)
             second == Outcomes(unit(2), n)
             K == 1..d
  <1>1. /\ n \in Nat /\ d \in Nat \ {0} /\ Scale \in Nat \ {0}
        /\ alpha \in 1..(Scale - 1) /\ alpha \in Nat
    <2>1. n \in Nat \ {0} /\ alpha \in 1..(Scale - 1)
      BY DEF IInv, ProtocolHolds
    <2> HIDE DEF n, alpha
    <2> QED BY <2>1, BoundFacts DEF d
  <1>2. ASSUME NEW h \in 1..2 PROVE unit(h) \in [1..Items -> Int] /\ Items \in Nat
    <2>1. Items \in Nat \ {0} /\ DOMAIN panel.levels = 1..Items
      BY DEF IInv, PanelInv
    <2> DEFINE diff == Differences(panel, CONTRASTS[h])
    <2>2. Measures(diff, Items)
      BY <2>1, DifferencesMeasure
    <2> HIDE DEF diff
    <2>3. Units(diff) \in [1..Items -> (-M)..M]
      BY <2>1, <2>2, UnitFacts
    <2>4. Units(diff) \in [1..Items -> Int]
      BY <2>3, SeedFacts
    <2> QED BY <2>1, <2>4 DEF diff
  <1>3. Keyed(R, e, d) /\ Tally(first, R, e, d)
    <2> DEFINE u == unit(1)
    <2>1. u \in [1..Items -> Int] /\ Items \in Nat
      BY <1>2
    <2> HIDE DEF u, n
    <2>2. Keyed(Runs(Signs(u), n), Place(u, n), n + 1)
      BY <1>1, <2>1, PlacesAreKeyed
    <2>3. Tally(Outcomes(u, n), Runs(Signs(u), n), Place(u, n), n + 1)
      BY <1>1, <2>1, OutcomesTally
    <2> QED BY <2>2, <2>3 DEF u
  <1>4. Keyed(W, f, d) /\ Tally(second, W, f, d)
    <2> DEFINE u == unit(2)
    <2>1. u \in [1..Items -> Int] /\ Items \in Nat
      BY <1>2
    <2> HIDE DEF u, n
    <2>2. Keyed(Runs(Signs(u), n), Place(u, n), n + 1)
      BY <1>1, <2>1, PlacesAreKeyed
    <2>3. Tally(Outcomes(u, n), Runs(Signs(u), n), Place(u, n), n + 1)
      BY <1>1, <2>1, OutcomesTally
    <2> QED BY <2>2, <2>3 DEF u
  <1> DEFINE p(k) == PValue(k - 1, n)
             found(a, b) == [h \in 1..2 |-> Significant(Holm(<<p(a), p(b)>>)[h], protocol)]
             Error(null, a, b) == \E h \in null : found(a, b)[h]
             bounded(errors, total) == ~ Less(PPM(alpha), Q(errors, total))
             both == {k \in K \X K : Error({1, 2}, k[1], k[2])}
             some(b) == {a \in K : Error({1}, a, b)}
             other(b) == {a \in K : Error({2}, b, a)}
  <1>5. SumOf(first) = Cardinality(R) /\ SumOf(second) = Cardinality(W)
    <2> HIDE DEF R, W, e, f, d, first, second
    <2> QED BY <1>3, <1>4, TalliesAddUp
  <1>6. ASSUME NEW a \in K, NEW b \in K, NEW h \in 1..2, found(a, b)[h]
        PROVE  /\ h = 1 => a * Scale < alpha * d
               /\ h = 2 => b * Scale < alpha * d
               /\ a * (2 * Scale) < alpha * d \/ b * (2 * Scale) < alpha * d
    <2>1. p(a) = Q(a, d) /\ p(b) = Q(b, d)
      <3>1. (a - 1) + 1 = a /\ (b - 1) + 1 = b
        BY <1>1
      <3> QED BY <3>1 DEF PValue
    <2>2. Less(Holm(<<p(a), p(b)>>)[h], PPM(alpha))
      BY <1>6 DEF Significant
    <2>3. Less(Holm(<<Q(a, d), Q(b, d)>>)[h], PPM(alpha))
      BY <2>1, <2>2
    <2> HIDE DEF d, alpha
    <2> QED BY <1>1, <2>3, FoundMeansBelow
  <1> HIDE DEF found
  <1>7. bounded(SumOfPairs(first, second, both),
                SumOf(first) * SumOf(second))
    <2> DEFINE T == Holding(R \X W, Paired(R, e, W, f), both)
    <2>1. SumOfPairs(first, second, both) = Cardinality(T)
      <3>1. both \in SUBSET (K \X K)
        OBVIOUS
      <3> HIDE DEF both, R, W, e, f, d, first, second
      <3> QED BY <1>3, <1>4, <3>1, SumOfProducts
    <2>2. \A q \in T : e[q[1]] * (2 * Scale) < alpha * d \/ f[q[2]] * (2 * Scale) < alpha * d
      <3> TAKE q \in T
      <3>1. q \in R \X W /\ <<e[q[1]], f[q[2]]>> \in both
        BY DEF Holding, Paired
      <3>2. PICK h \in 1..2 : found(e[q[1]], f[q[2]])[h]
        BY <3>1
      <3>3. e[q[1]] \in K /\ f[q[2]] \in K
        BY <3>1
      <3> QED BY <1>6, <3>2, <3>3
    <2>3. T \in SUBSET (R \X W)
      BY DEF Holding
    <2> HIDE DEF T, R, W, e, f, d, alpha, both
    <2>4. /\ Cardinality(T) \in Nat /\ Cardinality(R) \in Nat /\ Cardinality(W) \in Nat
          /\ Scale * Cardinality(T) <= alpha * (Cardinality(R) * Cardinality(W))
      BY <1>1, <1>3, <1>4, <2>2, <2>3, LowPairsAreFew
    <2> DEFINE t == Cardinality(T)
               r == Cardinality(R)
               w == Cardinality(W)
    <2> HIDE DEF t, r, w
    <2>5. ~ (alpha * (r * w) < t * Scale)
      <3>1. t \in Nat /\ r \in Nat /\ w \in Nat /\ Scale * t <= alpha * (r * w)
        BY <2>4 DEF t, r, w
      <3>2. Scale * t = t * Scale /\ Scale * t \in Nat /\ alpha * (r * w) \in Nat
        BY <1>1, <3>1
      <3> QED BY <3>1, <3>2
    <2>6. ~ Less(PPM(alpha), Q(t, r * w))
      BY <2>5 DEF Less, PPM, Q
    <2> QED BY <1>5, <2>1, <2>6 DEF t, r, w
  <1>8. ASSUME NEW b \in K
        PROVE  bounded(SumOfKeys(first, some(b)), SumOf(first))
    <2> DEFINE X == some(b)
               T == Holding(R, e, X)
    <2>1. SumOfKeys(first, X) = Cardinality(T)
      <3>1. X \in SUBSET (1..d)
        OBVIOUS
      <3> HIDE DEF X, R, e, d, first
      <3> QED BY <1>3, <3>1, SumOfTallies
    <2>2. T \in SUBSET R /\ \A r \in T : e[r] * Scale < alpha * d
      <3>1. T \in SUBSET R
        BY DEF Holding
      <3>2. ASSUME NEW r \in T PROVE e[r] * Scale < alpha * d
        <4>1. e[r] \in K /\ found(e[r], b)[1]
          BY DEF Holding
        <4> QED BY <1>6, <4>1
      <3> QED BY <3>1, <3>2
    <2> HIDE DEF T, R, e, d, alpha, X
    <2>3. IsFiniteSet(T) /\ Scale * Cardinality(T) <= alpha * Cardinality(R) /\ IsFiniteSet(R)
      BY <1>1, <1>3, <2>2, LowKeysAreFew DEF Keyed
    <2> DEFINE t == Cardinality(T)
               c == Cardinality(R)
    <2>4. t \in Nat /\ c \in Nat /\ Scale * t <= alpha * c
      BY <2>3, FS_CardinalityType
    <2> HIDE DEF t, c
    <2>5. ~ (alpha * c < t * Scale)
      <3>1. Scale * t = t * Scale /\ Scale * t \in Nat /\ alpha * c \in Nat
        BY <1>1, <2>4
      <3> QED BY <2>4, <3>1
    <2>6. ~ Less(PPM(alpha), Q(t, c))
      BY <2>5 DEF Less, PPM, Q
    <2> QED BY <1>5, <2>1, <2>6 DEF t, c, X
  <1>9. ASSUME NEW b \in K
        PROVE  bounded(SumOfKeys(second, other(b)), SumOf(second))
    <2> DEFINE X == other(b)
               T == Holding(W, f, X)
    <2>1. SumOfKeys(second, X) = Cardinality(T)
      <3>1. X \in SUBSET (1..d)
        OBVIOUS
      <3> HIDE DEF X, W, f, d, second
      <3> QED BY <1>4, <3>1, SumOfTallies
    <2>2. T \in SUBSET W /\ \A r \in T : f[r] * Scale < alpha * d
      <3>1. T \in SUBSET W
        BY DEF Holding
      <3>2. ASSUME NEW r \in T PROVE f[r] * Scale < alpha * d
        <4>1. f[r] \in K /\ found(b, f[r])[2]
          BY DEF Holding
        <4> QED BY <1>6, <4>1
      <3> QED BY <3>1, <3>2
    <2> HIDE DEF T, W, f, d, alpha, X
    <2>3. IsFiniteSet(T) /\ Scale * Cardinality(T) <= alpha * Cardinality(W) /\ IsFiniteSet(W)
      BY <1>1, <1>4, <2>2, LowKeysAreFew DEF Keyed
    <2> DEFINE t == Cardinality(T)
               c == Cardinality(W)
    <2>4. t \in Nat /\ c \in Nat /\ Scale * t <= alpha * c
      BY <2>3, FS_CardinalityType
    <2> HIDE DEF t, c
    <2>5. ~ (alpha * c < t * Scale)
      <3>1. Scale * t = t * Scale /\ Scale * t \in Nat /\ alpha * c \in Nat
        BY <1>1, <2>4
      <3> QED BY <2>4, <3>1
    <2>6. ~ Less(PPM(alpha), Q(t, c))
      BY <2>5 DEF Less, PPM, Q
    <2> QED BY <1>5, <2>1, <2>6 DEF t, c, X
  <1> HIDE DEF Error
  <1>10. FamilyErrorIsBounded
    BY <1>7, <1>8, <1>9 DEF FamilyErrorIsBounded, Error, found, SumOfKeys, SumOfPairs
  <1> QED BY <1>10

\* paired_sign_flip_randomization with holm_adjust, whatever the panel, its items
\* and the number of flips: if the treatment makes no difference in one of the C1
\* contrasts, or in both, one of those is found significant in no more than a
\* share alpha of all the ways the items may be observed and flipped.
THEOREM FamilyErrorsBounded == Spec => []FamilyErrorIsBounded
  <1>1. IInv => FamilyErrorIsBounded
    <2>1. phase # "bootstrap" => FamilyErrorIsBounded
      BY DEF FamilyErrorIsBounded
    <2> QED BY <2>1, FamilyErrors
  <1> QED BY <1>1, StatisticsInvariant, PTL

=============================================================================
