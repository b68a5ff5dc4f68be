---------------------------- MODULE TrainerProofs ----------------------------
(***************************************************************************)
(* Proofs about Trainer for every dataset, configuration, set of stage     *)
(* budgets and bound.  IInv says, phase by phase, what the thread may rely *)
(* on: the batch is finite and has unique row keys, the selection is the   *)
(* plan of the present counter, the gradient holds exactly the selected    *)
(* positions of the microbatches so far, and whatever a checkpoint holds   *)
(* satisfies the same accounting as the running Trainer.                   *)
(*                                                                         *)
(* First, that the canonical prefix of torch_loss_budget.py has exactly    *)
(* the length the budget asked for: Precedes is a strict total order of    *)
(* the candidates when row keys are unique, so the number of candidates    *)
(* before a position (its rank) is an injection into 0..|candidate|-1,     *)
(* hence a bijection, and the prefix is the inverse image of 0..n-1.       *)
(***************************************************************************)
EXTENDS Trainer, FiniteSetTheorems, FunctionTheorems, SequenceTheorems, TLAPS

RowKeys == Nat \X Nat

\* _row_keys refuses a batch with two equal keys.
UniqueKeys(keys) == \A r, s \in DOMAIN keys : keys[r] = keys[s] => r = s

Before(candidate, keys, p) == {q \in candidate : Precedes(keys, q, p)}

Rank(candidate, keys, p) == Cardinality(Before(candidate, keys, p))

(* Of two positions, one comes first.                                      *)
LEMMA PrecedesIsTotal ==
    ASSUME NEW keys, UniqueKeys(keys), \A r \in DOMAIN keys : keys[r] \in RowKeys,
           NEW p \in (DOMAIN keys) \X Nat, NEW q \in (DOMAIN keys) \X Nat, p # q
    PROVE  Precedes(keys, p, q) \/ Precedes(keys, q, p)
  <1>1. p = <<p[1], p[2]>> /\ q = <<q[1], q[2]>>
    OBVIOUS
  <1>2. p[1] \in DOMAIN keys /\ q[1] \in DOMAIN keys /\ p[2] \in Nat /\ q[2] \in Nat
    OBVIOUS
  <1>3. CASE p[1] = q[1]
    <2>1. p[2] < q[2] \/ q[2] < p[2]
      BY <1>1, <1>2, <1>3
    <2> QED
      BY <1>3, <2>1 DEF Precedes
  <1>4. CASE p[1] # q[1]
    <2> DEFINE k == keys[p[1]]
               l == keys[q[1]]
    <2>1. k \in RowKeys /\ l \in RowKeys /\ k # l
      BY <1>2, <1>4 DEF UniqueKeys
    <2> HIDE DEF k, l
    <2>2. KeyBefore(k, l) \/ KeyBefore(l, k)
      BY <2>1 DEF KeyBefore, RowKeys
    <2> QED
      BY <2>2 DEF Precedes, k, l
  <1> QED
    BY <1>3, <1>4

(* No position comes before itself, and coming before is transitive.       *)
LEMMA PrecedesIsStrict ==
    ASSUME NEW keys, \A r \in DOMAIN keys : keys[r] \in RowKeys,
           NEW p \in (DOMAIN keys) \X Nat, NEW q \in (DOMAIN keys) \X Nat,
           NEW u \in (DOMAIN keys) \X Nat
    PROVE  /\ ~ Precedes(keys, p, p)
           /\ Precedes(keys, p, q) /\ Precedes(keys, q, u) => Precedes(keys, p, u)
  <1> DEFINE k == keys[p[1]]
             l == keys[q[1]]
             m == keys[u[1]]
  <1>1. /\ p[1] \in DOMAIN keys /\ q[1] \in DOMAIN keys /\ u[1] \in DOMAIN keys
        /\ p[2] \in Nat /\ q[2] \in Nat /\ u[2] \in Nat
    OBVIOUS
  <1>2. k \in RowKeys /\ l \in RowKeys /\ m \in RowKeys
    BY <1>1
  <1>3. /\ k[1] \in Nat /\ k[2] \in Nat /\ l[1] \in Nat /\ l[2] \in Nat
        /\ m[1] \in Nat /\ m[2] \in Nat
    BY <1>2 DEF RowKeys
  <1>4. ~ KeyBefore(k, k)
    BY <1>3 DEF KeyBefore
  <1>5. KeyBefore(k, l) /\ KeyBefore(l, m) => KeyBefore(k, m)
    BY <1>3 DEF KeyBefore
  <1>6. p[1] = q[1] => k = l
    OBVIOUS
  <1>7. q[1] = u[1] => l = m
    OBVIOUS
  <1>8. /\ Precedes(keys, p, q) <=> KeyBefore(k, l) \/ (p[1] = q[1] /\ p[2] < q[2])
        /\ Precedes(keys, q, u) <=> KeyBefore(l, m) \/ (q[1] = u[1] /\ q[2] < u[2])
        /\ Precedes(keys, p, u) <=> KeyBefore(k, m) \/ (p[1] = u[1] /\ p[2] < u[2])
        /\ Precedes(keys, p, p) <=> KeyBefore(k, k) \/ (p[1] = p[1] /\ p[2] < p[2])
    BY DEF Precedes
  <1> HIDE DEF k, l, m
  <1> QED
    BY <1>1, <1>4, <1>5, <1>6, <1>7, <1>8

(* The ranks of a batch's candidates are pairwise distinct and below their *)
(* number.                                                                 *)
LEMMA RankIsInjective ==
    ASSUME NEW keys, UniqueKeys(keys), \A r \in DOMAIN keys : keys[r] \in RowKeys,
           NEW candidate, IsFiniteSet(candidate),
           candidate \subseteq (DOMAIN keys) \X Nat,
           NEW p \in candidate
    PROVE  /\ Rank(candidate, keys, p) \in 0..(Cardinality(candidate) - 1)
           /\ \A q \in candidate : Precedes(keys, p, q) =>
                 Rank(candidate, keys, p) < Rank(candidate, keys, q)
           /\ \A q \in candidate : q # p =>
                 Rank(candidate, keys, p) # Rank(candidate, keys, q)
  <1>1. \A x \in candidate :
           /\ IsFiniteSet(Before(candidate, keys, x))
           /\ Rank(candidate, keys, x) \in Nat
    <2> SUFFICES ASSUME NEW x \in candidate
                 PROVE  /\ IsFiniteSet(Before(candidate, keys, x))
                        /\ Rank(candidate, keys, x) \in Nat
      OBVIOUS
    <2>1. Before(candidate, keys, x) \in SUBSET candidate
      BY DEF Before
    <2>2. IsFiniteSet(Before(candidate, keys, x))
      BY <2>1, FS_Subset
    <2> QED
      BY <2>2, FS_CardinalityType DEF Rank
  <1>2. Cardinality(candidate) \in Nat
    BY FS_CardinalityType
  <1>3. p \in (DOMAIN keys) \X Nat
    OBVIOUS
  <1>4. Rank(candidate, keys, p) < Cardinality(candidate)
    <2>1. p \notin Before(candidate, keys, p)
      BY <1>3, PrecedesIsStrict DEF Before
    <2>2. Before(candidate, keys, p) \in SUBSET candidate
      BY DEF Before
    <2>3. /\ Cardinality(Before(candidate, keys, p)) <= Cardinality(candidate)
          /\ Cardinality(candidate) = Cardinality(Before(candidate, keys, p))
                => candidate = Before(candidate, keys, p)
      BY <2>2, FS_Subset
    <2> QED
      BY <1>1, <1>2, <2>1, <2>3 DEF Rank
  <1>5. \A x, y \in candidate : Precedes(keys, x, y) =>
           Rank(candidate, keys, x) < Rank(candidate, keys, y)
    <2> SUFFICES ASSUME NEW x \in candidate, NEW y \in candidate, Precedes(keys, x, y)
                 PROVE  Rank(candidate, keys, x) < Rank(candidate, keys, y)
      OBVIOUS
    <2>1. x \in (DOMAIN keys) \X Nat /\ y \in (DOMAIN keys) \X Nat
      OBVIOUS
    <2>2. x \in Before(candidate, keys, y) /\ x \notin Before(candidate, keys, x)
      BY <2>1, PrecedesIsStrict DEF Before
    <2>3. Before(candidate, keys, x) \in SUBSET Before(candidate, keys, y)
      <3> SUFFICES ASSUME NEW z \in candidate, Precedes(keys, z, x)
                   PROVE  Precedes(keys, z, y)
        BY DEF Before
      <3>1. z \in (DOMAIN keys) \X Nat
        OBVIOUS
      <3> QED
        BY <2>1, <3>1, PrecedesIsStrict
    <2>4. IsFiniteSet(Before(candidate, keys, y))
      BY <1>1
    <2>5. /\ Cardinality(Before(candidate, keys, x)) <= Cardinality(Before(candidate, keys, y))
          /\ Cardinality(Before(candidate, keys, y)) = Cardinality(Before(candidate, keys, x))
                => Before(candidate, keys, y) = Before(candidate, keys, x)
      BY <2>3, <2>4, FS_Subset
    <2> QED
      BY <1>1, <2>2, <2>5 DEF Rank
  <1>6. ASSUME NEW q \in candidate, q # p
        PROVE  Rank(candidate, keys, p) # Rank(candidate, keys, q)
    <2>1. q \in (DOMAIN keys) \X Nat
      OBVIOUS
    <2>2. Precedes(keys, p, q) \/ Precedes(keys, q, p)
      BY <1>3, <1>6, <2>1, PrecedesIsTotal
    <2> QED
      BY <1>1, <1>5, <2>2
  <1> QED
    BY <1>1, <1>2, <1>4, <1>5, <1>6

(* The canonical prefix of n candidates has n positions, for every batch   *)
(* with unique row keys (_select_canonical_prefix, and the check at the    *)
(* end of plan_torch_loss_budget).                                         *)
THEOREM PrefixIsExact ==
    ASSUME NEW keys, UniqueKeys(keys), \A r \in DOMAIN keys : keys[r] \in RowKeys,
           NEW candidate, IsFiniteSet(candidate),
           candidate \subseteq (DOMAIN keys) \X Nat,
           NEW n \in 0..Cardinality(candidate)
    PROVE  Cardinality(CanonicalPrefix(candidate, keys, n)) = n
  <1> DEFINE c == Cardinality(candidate)
             rank == [p \in candidate |-> Rank(candidate, keys, p)]
             prefix == CanonicalPrefix(candidate, keys, n)
             cut == [p \in prefix |-> rank[p]]
  <1>1. c \in Nat
    BY FS_CardinalityType
  <1>2. /\ IsFiniteSet(0..(c - 1)) /\ Cardinality(0..(c - 1)) = c
        /\ IsFiniteSet(0..(n - 1)) /\ Cardinality(0..(n - 1)) = n
    <2>1. ASSUME NEW b \in Nat
          PROVE  IsFiniteSet(0..(b - 1)) /\ Cardinality(0..(b - 1)) = b
      <3>1. 0 \in Int /\ b - 1 \in Int
        OBVIOUS
      <3>2. /\ IsFiniteSet(0..(b - 1))
            /\ Cardinality(0..(b - 1)) = IF 0 > b - 1 THEN 0 ELSE (b - 1) - 0 + 1
        BY <3>1, FS_Interval
      <3> QED
        BY <3>2
    <2> QED
      BY <1>1, <2>1
  <1>3. rank \in Injection(candidate, 0..(c - 1))
    <2>1. ASSUME NEW p \in candidate
          PROVE  /\ rank[p] \in 0..(c - 1)
                 /\ \A q \in candidate : rank[p] = rank[q] => p = q
      BY RankIsInjective
    <2>2. rank \in [candidate -> 0..(c - 1)]
      BY <2>1
    <2> QED
      BY <2>1, <2>2 DEF Injection, IsInjective
  <1>4. rank \in Surjection(candidate, 0..(c - 1))
    BY <1>2, <1>3, FS_Injection
  <1>5. prefix = {p \in candidate : rank[p] < n}
    BY DEF CanonicalPrefix, Rank, Before
  <1>6. cut \in Injection(prefix, 0..(n - 1))
    <2>1. cut \in [prefix -> 0..(n - 1)]
      <3> SUFFICES ASSUME NEW p \in prefix
                   PROVE  rank[p] \in 0..(n - 1)
        OBVIOUS
      <3>1. p \in candidate /\ rank[p] < n
        BY <1>5
      <3>2. rank[p] \in 0..(c - 1)
        BY <1>3, <3>1 DEF Injection
      <3> QED
        BY <1>1, <3>1, <3>2
    <2>2. \A p, q \in prefix : cut[p] = cut[q] => p = q
      BY <1>3, <1>5 DEF Injection, IsInjective
    <2> QED
      BY <2>1, <2>2 DEF Injection, IsInjective
  <1>7. cut \in Surjection(prefix, 0..(n - 1))
    <2>1. ASSUME NEW i \in 0..(n - 1)
          PROVE  \E p \in prefix : cut[p] = i
      <3>1. i \in 0..(c - 1)
        BY <1>1
      <3>2. PICK p \in candidate : rank[p] = i
        BY <1>4, <3>1 DEF Surjection
      <3>3. p \in prefix
        BY <1>5, <3>2
      <3> QED
        BY <3>2, <3>3
    <2> QED
      BY <1>6, <2>1 DEF Injection, Surjection
  <1>8. IsFiniteSet(prefix)
    BY <1>5, FS_Subset
  <1> QED
    BY <1>2, <1>6, <1>7, FS_Injection

\* What plan_torch_loss_budget reserves for the candidates of a batch.
Planned(b, candidate, keys) ==
    LET n == Lesser(Cardinality(candidate), Remaining(b)) IN
    Reserve(b, Cardinality(candidate),
            ContentDigest(candidate, CanonicalPrefix(candidate, keys, n), keys))

LEMMA PlanIsPlanned ==
    ASSUME NEW candidate
    PROVE  PlanSelection(candidate).reservation = Planned(budget, candidate, batch.keys)
  BY DEF PlanSelection, Planned

(* Two batches whose candidates come in the same order have the same       *)
(* prefixes: only the order counts, not where in the tensors they lie.     *)
LEMMA PrefixFollowsOrder ==
    ASSUME NEW A, NEW B, IsFiniteSet(A), NEW f \in Bijection(A, B), NEW keys, NEW others,
           \A p, q \in A : Precedes(keys, p, q) <=> Precedes(others, f[p], f[q]), NEW n
    PROVE  /\ IsFiniteSet(B) /\ Cardinality(B) = Cardinality(A)
           /\ CanonicalPrefix(B, others, n) = {f[p] : p \in CanonicalPrefix(A, keys, n)}
  <1>1. /\ f \in [A -> B] /\ \A p, q \in A : f[p] = f[q] => p = q
        /\ \A y \in B : \E p \in A : f[p] = y
    BY DEF Bijection, Injection, Surjection, IsInjective
  <1>2. ASSUME NEW p \in A PROVE Rank(B, others, f[p]) = Rank(A, keys, p)
    <2> DEFINE S == Before(A, keys, p)
               T == Before(B, others, f[p])
               g == [q \in S |-> f[q]]
    <2>1. IsFiniteSet(S)
      BY FS_Subset DEF Before
    <2>2. g \in [S -> T]
      BY <1>1 DEF Before
    <2>3. \A q, r \in S : g[q] = g[r] => q = r
      BY <1>1 DEF Before
    <2>4. \A y \in T : \E q \in S : g[q] = y
      <3> TAKE y \in T
      <3>1. y \in B /\ Precedes(others, y, f[p])
        BY DEF Before
      <3>2. PICK q \in A : f[q] = y
        BY <1>1, <3>1
      <3>3. q \in S
        BY <3>1, <3>2 DEF Before
      <3> QED BY <3>2, <3>3
    <2> HIDE DEF S, T, g
    <2>5. ExistsBijection(S, T)
      BY <2>2, <2>3, <2>4 DEF ExistsBijection, Bijection, Injection, Surjection, IsInjective
    <2> QED BY <2>1, <2>5, FS_Bijection DEF Rank, S, T
  <1>3. IsFiniteSet(B) /\ Cardinality(B) = Cardinality(A)
    <2>1. ExistsBijection(A, B)
      BY DEF ExistsBijection
    <2> QED BY <2>1, FS_Bijection
  <1>4. /\ CanonicalPrefix(A, keys, n) = {p \in A : Rank(A, keys, p) < n}
        /\ CanonicalPrefix(B, others, n) = {y \in B : Rank(B, others, y) < n}
    BY DEF CanonicalPrefix, Rank, Before
  <1>5. ASSUME NEW y \in B, Rank(B, others, y) < n
        PROVE  \E p \in CanonicalPrefix(A, keys, n) : y = f[p]
    <2>1. PICK p \in A : f[p] = y
      BY <1>1
    <2>2. Rank(A, keys, p) < n
      BY <1>2, <1>5, <2>1
    <2> QED BY <1>4, <2>1, <2>2
  <1>6. ASSUME NEW p \in CanonicalPrefix(A, keys, n)
        PROVE  f[p] \in B /\ Rank(B, others, f[p]) < n
    <2>1. p \in A /\ Rank(A, keys, p) < n
      BY <1>4
    <2>2. Rank(B, others, f[p]) < n
      BY <1>2, <2>1
    <2> QED BY <1>1, <2>1, <2>2
  <1> QED BY <1>3, <1>4, <1>5, <1>6

\* The rows of a mask in another order: row r of the new batch is move[r].
Reordered(mask, move) == {p \in (DOMAIN move) \X Nat : <<move[p[1]], p[2]>> \in mask}

(* The order of a batch's rows changes neither which tokens are selected   *)
(* nor the selection id of the reservation, whether keys are unique or not *)
(* (docs/algorithms/LOSS_TOKEN_BUDGET.md:60).                              *)
THEOREM SelectionIgnoresRowOrder ==
    ASSUME NEW keys, NEW move \in Bijection(DOMAIN keys, DOMAIN keys),
           NEW candidate \in SUBSET ((DOMAIN keys) \X Nat), IsFiniteSet(candidate), NEW b
    PROVE  LET others == [r \in DOMAIN keys |-> keys[move[r]]] IN
           /\ \A n : CanonicalPrefix(Reordered(candidate, move), others, n)
                        = Reordered(CanonicalPrefix(candidate, keys, n), move)
           /\ Planned(b, Reordered(candidate, move), others) = Planned(b, candidate, keys)
  <1> DEFINE D == DOMAIN keys
             others == [r \in D |-> keys[move[r]]]
             A == Reordered(candidate, move)
             f == [p \in A |-> <<move[p[1]], p[2]>>]
  <1>1. /\ move \in [D -> D] /\ \A r, s \in D : move[r] = move[s] => r = s
        /\ \A s \in D : \E r \in D : move[r] = s
    BY DEF Bijection, Injection, Surjection, IsInjective
  <1>2. ASSUME NEW m \in SUBSET (D \X Nat)
        PROVE  /\ Reordered(m, move) \in SUBSET (D \X Nat)
               /\ \A p \in Reordered(m, move) : <<move[p[1]], p[2]>> \in m
               /\ \A q \in m : \E p \in Reordered(m, move) : <<move[p[1]], p[2]>> = q
    <2>1. DOMAIN move = D
      BY <1>1
    <2>2. ASSUME NEW q \in m PROVE \E p \in Reordered(m, move) : <<move[p[1]], p[2]>> = q
      <3>1. q[1] \in D /\ q[2] \in Nat /\ q = <<q[1], q[2]>>
        OBVIOUS
      <3>2. PICK r \in D : move[r] = q[1]
        BY <1>1, <3>1
      <3>3. <<r, q[2]>> \in Reordered(m, move)
        BY <2>1, <3>1, <3>2 DEF Reordered
      <3> QED BY <3>1, <3>2, <3>3
    <2> QED BY <2>1, <2>2 DEF Reordered
  <1>3. f \in Bijection(A, candidate)
    <2>1. A \in SUBSET (D \X Nat) /\ \A p \in A : <<move[p[1]], p[2]>> \in candidate
      BY <1>2
    <2>2. \A q \in candidate : \E p \in A : <<move[p[1]], p[2]>> = q
      BY <1>2
    <2>3. \A p, q \in A : f[p] = f[q] => p = q
      BY <1>1, <2>1
    <2>4. f \in [A -> candidate] /\ \A q \in candidate : \E p \in A : f[p] = q
      BY <2>1, <2>2
    <2> HIDE DEF f, A
    <2> QED BY <2>3, <2>4 DEF Bijection, Injection, Surjection, IsInjective
  <1>4. \A p, q \in A : Precedes(others, p, q) <=> Precedes(keys, f[p], f[q])
    <2> TAKE p, q \in A
    <2>1. p[1] \in D /\ q[1] \in D
      BY <1>2
    <2>2. others[p[1]] = keys[move[p[1]]] /\ others[q[1]] = keys[move[q[1]]]
      BY <2>1
    <2>3. p[1] = q[1] <=> move[p[1]] = move[q[1]]
      BY <1>1, <2>1
    <2>4. f[p][1] = move[p[1]] /\ f[p][2] = p[2] /\ f[q][1] = move[q[1]] /\ f[q][2] = q[2]
      OBVIOUS
    <2> HIDE DEF f, others, A
    <2> QED BY <2>2, <2>3, <2>4 DEF Precedes
  <1>5. IsFiniteSet(A) /\ Cardinality(A) = Cardinality(candidate)
    <2>1. ExistsBijection(A, candidate)
      BY <1>3 DEF ExistsBijection
    <2>2. ExistsBijection(candidate, A)
      BY <2>1, Fun_ExistsBijSymmetric
    <2> QED BY <2>2, FS_Bijection
  <1>6. \A n : CanonicalPrefix(candidate, keys, n) = {f[p] : p \in CanonicalPrefix(A, others, n)}
    <2> HIDE DEF f, A, others
    <2> QED BY <1>3, <1>4, <1>5, PrefixFollowsOrder
  <1>7. ASSUME NEW n
        PROVE  CanonicalPrefix(A, others, n) = Reordered(CanonicalPrefix(candidate, keys, n), move)
    <2> DEFINE P == CanonicalPrefix(A, others, n)
               Q == CanonicalPrefix(candidate, keys, n)
    <2>1. P \subseteq A /\ Q = {f[p] : p \in P}
      BY <1>6 DEF CanonicalPrefix
    <2>2. \A p, q \in A : f[p] = f[q] => p = q
      <3> HIDE DEF f, A
      <3> QED BY <1>3 DEF Bijection, Injection, IsInjective
    <2>3. A \subseteq (DOMAIN move) \X Nat /\ Q \subseteq candidate
      BY DEF Reordered, CanonicalPrefix
    <2> HIDE DEF P, Q
    <2>4. ASSUME NEW p \in Reordered(Q, move) PROVE p \in P
      <3>1. <<move[p[1]], p[2]>> \in Q /\ p \in A
        BY <2>3 DEF Reordered
      <3>2. PICK q \in P : <<move[p[1]], p[2]>> = f[q]
        BY <2>1, <3>1
      <3>3. f[p] = f[q] /\ q \in A
        BY <2>1, <3>1, <3>2
      <3> QED BY <2>2, <3>1, <3>2, <3>3
    <2>5. ASSUME NEW p \in P PROVE p \in Reordered(Q, move)
      <3>1. p \in A /\ f[p] \in Q
        BY <2>1
      <3> QED BY <2>3, <3>1 DEF Reordered
    <2>6. P = Reordered(Q, move)
      BY <2>4, <2>5
    <2> QED BY <2>6 DEF P, Q
  <1>8. {others[r] : r \in DOMAIN others} = {keys[r] : r \in D}
    BY <1>1
  <1>9. ASSUME NEW m \in SUBSET (D \X Nat)
        PROVE  Keyed(Reordered(m, move), others) = Keyed(m, keys)
    <2>1. ASSUME NEW p \in Reordered(m, move)
          PROVE  <<others[p[1]], p[2]>> = <<keys[<<move[p[1]], p[2]>>[1]], <<move[p[1]], p[2]>>[2]>>
      <3>1. p[1] \in D
        BY <1>2
      <3> QED BY <3>1
    <2> DEFINE R == Reordered(m, move)
               key(p) == <<keys[p[1]], p[2]>>
               to(p) == <<move[p[1]], p[2]>>
    <2>2. Keyed(R, others) = {key(to(p)) : p \in R}
      <3> DEFINE new(p) == <<others[p[1]], p[2]>>
      <3>1. Keyed(R, others) = {new(p) : p \in R}
        BY DEF Keyed
      <3>2. \A p \in R : new(p) = key(to(p))
        BY <2>1
      <3> HIDE DEF R, new, key, to
      <3> QED BY <3>1, <3>2
    <2>3. /\ \A p \in R : to(p) \in m
          /\ \A q \in m : \E p \in R : to(p) = q
      BY <1>2
    <2>4. Keyed(m, keys) = {key(q) : q \in m}
      BY DEF Keyed
    <2> HIDE DEF R, key, to
    <2>5. {key(to(p)) : p \in R} = {key(q) : q \in m}
      BY <2>3
    <2> QED BY <2>2, <2>4, <2>5 DEF R
  <1>10. Planned(b, A, others) = Planned(b, candidate, keys)
    <2> DEFINE n == Lesser(Cardinality(candidate), Remaining(b))
               Q == CanonicalPrefix(candidate, keys, n)
    <2>1. Q \in SUBSET (D \X Nat)
      BY DEF CanonicalPrefix
    <2>2. CanonicalPrefix(A, others, n) = Reordered(Q, move)
      BY <1>7
    <2>3. Planned(b, A, others) = Reserve(b, Cardinality(candidate),
                                          ContentDigest(A, Reordered(Q, move), others))
      BY <1>5, <2>2 DEF Planned
    <2>4. /\ Keyed(A, others) = Keyed(candidate, keys)
          /\ Keyed(Reordered(Q, move), others) = Keyed(Q, keys)
      BY <1>9, <2>1
    <2>5. ContentDigest(A, Reordered(Q, move), others) = ContentDigest(candidate, Q, keys)
      <3> HIDE DEF A, Q
      <3> QED BY <1>8, <2>4 DEF ContentDigest
    <2> HIDE DEF A, others
    <2> QED BY <2>3, <2>5 DEF Planned
  <1> QED BY <1>7, <1>10

\* Each row's positions moved to behind its prompt.
Shifted(mask, starts) == {<<p[1], p[2] + starts[p[1]]>> : p \in mask}

(* Neither does it matter where in its row a completion starts: what       *)
(* Trainer selects, counting tokens from each row's first, is what         *)
(* _select_canonical_prefix selects in padded tensors.                     *)
THEOREM SelectionIgnoresPadding ==
    ASSUME NEW keys, NEW starts \in [DOMAIN keys -> Nat],
           NEW candidate \in SUBSET ((DOMAIN keys) \X Nat), IsFiniteSet(candidate), NEW n
    PROVE  CanonicalPrefix(Shifted(candidate, starts), keys, n)
               = Shifted(CanonicalPrefix(candidate, keys, n), starts)
  <1> DEFINE f == [p \in candidate |-> <<p[1], p[2] + starts[p[1]]>>]
             B == Shifted(candidate, starts)
  <1>1. \A p \in candidate : /\ p[1] \in DOMAIN keys /\ p[2] \in Nat /\ starts[p[1]] \in Nat
                             /\ p = <<p[1], p[2]>>
    OBVIOUS
  <1>2. \A p \in candidate : f[p][1] = p[1] /\ f[p][2] = p[2] + starts[p[1]]
    OBVIOUS
  <1>3. f \in Bijection(candidate, B)
    <2>1. f \in [candidate -> B] /\ \A y \in B : \E p \in candidate : f[p] = y
      BY DEF Shifted
    <2> HIDE DEF f, B
    <2>2. ASSUME NEW p \in candidate, NEW q \in candidate, f[p] = f[q] PROVE p = q
      <3>1. p[1] = q[1] /\ p[2] + starts[p[1]] = q[2] + starts[q[1]]
        BY <1>2, <2>2
      <3>2. p[2] = q[2]
        BY <1>1, <3>1
      <3> QED BY <1>1, <3>1, <3>2
    <2> QED BY <2>1, <2>2 DEF Bijection, Injection, Surjection, IsInjective
  <1> HIDE DEF f
  <1>4. ASSUME NEW p \in candidate, NEW q \in candidate
        PROVE  Precedes(keys, p, q) <=> Precedes(keys, f[p], f[q])
    <2>1. p[1] = q[1] => (p[2] < q[2] <=> p[2] + starts[p[1]] < q[2] + starts[q[1]])
      BY <1>1
    <2> QED BY <1>2, <2>1 DEF Precedes
  <1>5. CanonicalPrefix(B, keys, n) = {f[p] : p \in CanonicalPrefix(candidate, keys, n)}
    <2> HIDE DEF B
    <2> QED BY <1>3, <1>4, PrefixFollowsOrder
  <1>6. CanonicalPrefix(candidate, keys, n) \subseteq candidate
    BY DEF CanonicalPrefix
  <1> QED BY <1>5, <1>6 DEF Shifted, f

-----------------------------------------------------------------------------

PhaseInv ==
    /\ executed => pc \in {"commit", "fatal"}
    /\ pc \in {"idle", "loop", "sample"} => batch = None
    /\ pc = "idle" => left = 0
    /\ pc # "idle" => budget # None
    /\ budget # None => stage > 0
    /\ budget = None => stage = 0 /\ theta = FreshTheta /\ base = 0

ScheduleInv ==
    /\ ScheduleFollowsBudget
    /\ pc = "commit" /\ executed => optimizer.steps = budget.version + 1

CursorInv ==
    /\ FreshRollouts
    /\ records.stage <= stage
    /\ records.stage = stage => records.drawn <= generator.drawn

WellFormedBatch(b) ==
    /\ Len(b.keys) \in Nat
    /\ DOMAIN b.keys = 1..Len(b.keys)
    /\ \A r \in DOMAIN b.keys : b.keys[r] \in RowKeys
    /\ UniqueKeys(b.keys)
    /\ IsFiniteSet(b.mask)
    /\ b.mask \subseteq (DOMAIN b.keys) \X Nat

BatchInv ==
    /\ pc \in {"score", "micro", "gradients", "commit"} => WellFormedBatch(batch)
    /\ OnPolicy

SelectionInv ==
    pc \in {"micro", "gradients", "commit"} =>
        /\ selection.candidate \subseteq batch.mask
        /\ selection = PlanSelection(selection.candidate)
        /\ Cardinality(selection.mask) = selection.reservation.selected
        /\ pc # "commit" \/ executed => selection.reservation.selected > 0

GradInv ==
    /\ pc = "micro" =>
          /\ mb > 0
          /\ grad.positions = {p \in selection.mask : p[1] <= (mb - 1) * Width}
          /\ grad.attempts \subseteq {<<stage, attempt>>}
          /\ grad.positions # {} => grad.attempts # {}
    /\ GradientIsThisAttempts

DiskInv ==
    disk # None =>
        /\ disk.policyVersion = disk.student.updates
        /\ disk.records.tokens = disk.student.tokens
        /\ disk.student.tokens - disk.base = disk.budget.consumed
        /\ disk.optimizer.lrAt = disk.budget.consumed
        /\ disk.optimizer.steps = disk.budget.version
        /\ disk.generator.seed = disk.stage
        /\ disk.records.stage <= disk.stage
        /\ disk.records.stage = disk.stage => disk.records.drawn <= disk.generator.drawn

IInv ==
    /\ TypeOK
    /\ PhaseInv
    /\ ExactAccounting
    /\ ScheduleInv
    /\ CursorInv
    /\ BatchInv
    /\ SelectionInv
    /\ GradInv
    /\ DiskInv

-----------------------------------------------------------------------------
(* The counter.                                                            *)

(* The budget a stage starts with is a budget, and not None.               *)
LEMMA NewBudgetType ==
    ASSUME NEW t \in Targets
    PROVE  /\ NewBudget(t) \in Budgets
           /\ NewBudget(t) # None
           /\ NewBudget(t).consumed = 0 /\ NewBudget(t).version = 0
           /\ NewBudget(t).target = t /\ t \in Nat /\ t > 0
  BY ConfigAssumption, NoneAssumption DEF NewBudget, Budgets

(* A plan made for a finite candidate set reserves what fits, and charging *)
(* it keeps the counter within its target.                                 *)
LEMMA PlanFacts ==
    ASSUME NEW b \in Budgets, NEW c \in Nat, NEW d
    PROVE  LET r == Reserve(b, c, d) IN
               /\ r.selected \in Nat
               /\ r.selected <= c
               /\ r.selected <= b.target - b.consumed
               /\ r.selected = Lesser(c, Remaining(b))
               /\ r.digest = d
               /\ Valid(b, r)
               /\ Charge(b, r) \in Budgets
               /\ Charge(b, r) # None
               /\ Charge(b, r).target = b.target
               /\ Charge(b, r).consumed = b.consumed + r.selected
               /\ Charge(b, r).version = b.version + 1
  <1> DEFINE r == Reserve(b, c, d)
  <1>1. /\ b.target \in Nat /\ b.consumed \in Nat /\ b.version \in Nat
        /\ b.consumed <= b.target /\ b.target > 0
    BY DEF Budgets
  <1>2. /\ r.selected \in Nat
        /\ r.selected <= c
        /\ r.selected <= b.target - b.consumed
        /\ r.selected = Lesser(c, Remaining(b))
        /\ r.digest = d
    BY <1>1 DEF Reserve, Lesser, Remaining
  <1>3. Valid(b, r)
    BY DEF Valid, Reserve
  <1>4. /\ Charge(b, r).target = b.target
        /\ Charge(b, r).consumed = b.consumed + r.selected
        /\ Charge(b, r).version = b.version + 1
    BY DEF Charge
  <1> HIDE DEF r
  <1>5. Charge(b, r) \in Budgets
    BY <1>1, <1>2 DEF Charge, Budgets
  <1>6. Charge(b, r) # None
    BY <1>5, NoneAssumption
  <1> QED
    BY <1>2, <1>3, <1>4, <1>5, <1>6 DEF r

(* Every selection of a well-formed batch is planned exactly.              *)
LEMMA PlanIsExact ==
    ASSUME budget \in Budgets, WellFormedBatch(batch),
           NEW candidate, candidate \subseteq batch.mask
    PROVE  /\ Cardinality(candidate) \in Nat
           /\ PlanSelection(candidate).candidate = candidate
           /\ PlanSelection(candidate).mask \subseteq candidate
           /\ PlanSelection(candidate).reservation =
                 Reserve(budget, Cardinality(candidate),
                         ContentDigest(candidate, PlanSelection(candidate).mask, batch.keys))
           /\ PlanSelection(candidate).mask =
                 CanonicalPrefix(candidate, batch.keys,
                                 PlanSelection(candidate).reservation.selected)
           /\ Cardinality(PlanSelection(candidate).mask)
                  = PlanSelection(candidate).reservation.selected
  <1> DEFINE n == Lesser(Cardinality(candidate), Remaining(budget))
             mask == CanonicalPrefix(candidate, batch.keys, n)
             d == ContentDigest(candidate, mask, batch.keys)
             r == Reserve(budget, Cardinality(candidate), d)
  <1>1. IsFiniteSet(candidate)
    BY FS_Subset DEF WellFormedBatch
  <1>2. Cardinality(candidate) \in Nat
    BY <1>1, FS_CardinalityType
  <1>3. /\ PlanSelection(candidate).candidate = candidate
        /\ PlanSelection(candidate).mask = mask
        /\ PlanSelection(candidate).reservation = r
    BY DEF PlanSelection
  <1>4. /\ r.selected = n /\ n \in Nat /\ n <= Cardinality(candidate)
    BY <1>2, PlanFacts
  <1>5. Cardinality(mask) = n
    <2>1. n \in 0..Cardinality(candidate)
      BY <1>2, <1>4
    <2>2. /\ UniqueKeys(batch.keys)
          /\ \A s \in DOMAIN batch.keys : batch.keys[s] \in RowKeys
          /\ candidate \subseteq (DOMAIN batch.keys) \X Nat
      BY DEF WellFormedBatch
    <2> HIDE DEF n
    <2> QED
      BY <1>1, <2>1, <2>2, PrefixIsExact
  <1>6. mask \subseteq candidate
    BY DEF CanonicalPrefix
  <1> HIDE DEF n, mask, r
  <1> QED
    BY <1>2, <1>3, <1>4, <1>5, <1>6 DEF mask, r

(* What the invariant says of the selection of the attempt in progress.    *)
LEMMA SelectionFacts ==
    ASSUME IInv, pc \in {"micro", "gradients", "commit"}
    PROVE  /\ budget \in Budgets
           /\ selection.reservation.selected \in Nat
           /\ selection.reservation.selected <= budget.target - budget.consumed
           /\ selection.mask \subseteq batch.mask
           /\ Acceptable
           /\ Charge(budget, selection.reservation) \in Budgets
           /\ Charge(budget, selection.reservation) # None
           /\ Charge(budget, selection.reservation).target = budget.target
           /\ Charge(budget, selection.reservation).consumed
                 = budget.consumed + selection.reservation.selected
           /\ Charge(budget, selection.reservation).version = budget.version + 1
  <1> DEFINE candidate == selection.candidate
             r == selection.reservation
             d == ContentDigest(candidate, selection.mask, batch.keys)
  <1>1. budget \in Budgets
    BY DEF IInv, TypeOK, PhaseInv
  <1>2. WellFormedBatch(batch)
    BY DEF IInv, BatchInv
  <1>3. /\ candidate \subseteq batch.mask
        /\ selection = PlanSelection(candidate)
        /\ pc # "commit" \/ executed => r.selected > 0
    BY DEF IInv, SelectionInv
  <1> HIDE DEF candidate
  <1>4. /\ Cardinality(candidate) \in Nat
        /\ selection.mask \subseteq candidate
        /\ r = Reserve(budget, Cardinality(candidate), d)
        /\ selection.mask = CanonicalPrefix(candidate, batch.keys, r.selected)
    BY <1>1, <1>2, <1>3, PlanIsExact
  <1> HIDE DEF r
  <1>5. /\ r.selected \in Nat
        /\ r.selected <= budget.target - budget.consumed
        /\ r.digest = d
        /\ Valid(budget, r)
        /\ Charge(budget, r) \in Budgets
        /\ Charge(budget, r) # None
        /\ Charge(budget, r).target = budget.target
        /\ Charge(budget, r).consumed = budget.consumed + r.selected
        /\ Charge(budget, r).version = budget.version + 1
    BY <1>1, <1>4, PlanFacts
  <1>6. Acceptable
    BY <1>3, <1>4, <1>5 DEF Acceptable, candidate, r
  <1> QED
    BY <1>1, <1>3, <1>4, <1>5, <1>6 DEF r

-----------------------------------------------------------------------------
(* What is sampled.                                                        *)

(* The mask of finitely many rows is finite.                               *)
LEMMA CompletionMaskFinite ==
    ASSUME NEW n \in Nat, NEW lengths \in [1..n -> Nat]
    PROVE  /\ IsFiniteSet(CompletionMask(lengths))
           /\ CompletionMask(lengths) \subseteq (1..n) \X Nat
  <1> DEFINE row == [r \in 1..n |-> {r} \X (1..lengths[r])]
             rows == {row[r] : r \in 1..n}
  <1>1. CompletionMask(lengths) = UNION rows
    BY DEF CompletionMask
  <1>2. row \in Surjection(1..n, rows)
    BY DEF Surjection
  <1>3. IsFiniteSet(1..n)
    <2>1. 1 \in Int /\ n \in Int
      OBVIOUS
    <2> QED
      BY <2>1, FS_Interval
  <1>4. IsFiniteSet(rows)
    <2> HIDE DEF row, rows
    <2> QED
      BY <1>2, <1>3, FS_Surjection
  <1>5. ASSUME NEW r \in 1..n
        PROVE  IsFiniteSet(row[r])
    <2>1. 1 \in Int /\ lengths[r] \in Int
      OBVIOUS
    <2>2. IsFiniteSet(1..lengths[r])
      BY <2>1, FS_Interval
    <2>3. IsFiniteSet({r})
      BY FS_Singleton
    <2>4. IsFiniteSet({r} \X (1..lengths[r]))
      BY <2>2, <2>3, FS_Product
    <2> QED
      BY <2>4
  <1>6. \A S \in rows : IsFiniteSet(S)
    BY <1>5
  <1>7. IsFiniteSet(UNION rows)
    <2> HIDE DEF rows
    <2> QED
      BY <1>4, <1>6, FS_UNION
  <1> QED
    BY <1>1, <1>7

(* Two integers closer than n with the same remainder are equal.           *)
LEMMA EqualRemainders ==
    ASSUME NEW n \in Nat, n > 0, NEW x \in Int, NEW y \in Int,
           x % n = y % n, x - y < n, y - x < n
    PROVE  x = y
  <1>1. x = n * (x \div n) + (x % n) /\ y = n * (y \div n) + (y % n)
    OBVIOUS
  <1>2. x - y = n * ((x \div n) - (y \div n))
    BY <1>1
  <1>3. (x \div n) - (y \div n) = 0
    <2> DEFINE q == (x \div n) - (y \div n)
    <2>1. q \in Int /\ n * q < n /\ n * q > -n
      BY <1>2
    <2> HIDE DEF q
    <2>2. q >= 1 => n * q >= n
      BY <2>1
    <2>3. q <= -1 => n * q <= -n
      BY <2>1
    <2> QED
      BY <2>1, <2>2, <2>3 DEF q
  <1> QED
    BY <1>2, <1>3

(* The batch of an attempt has BatchSize examples of the dataset or all of *)
(* them, each once.                                                        *)
LEMMA ExamplesType ==
    ASSUME attempt \in Nat
    PROVE  /\ Len(Examples) \in Nat \ {0}
           /\ \A i \in 1..Len(Examples) :
                 /\ Examples[i] \in Nat
                 /\ RefLength[Examples[i]] \in Nat
           /\ \A i, j \in 1..Len(Examples) : Examples[i] = Examples[j] => i = j
  <1> DEFINE n == Len(SampleIds)
             size == Lesser(BatchSize, n)
             offset == (attempt - 1) * size
             at(i) == ((offset + i - 1) % n) + 1
  <1>1. n \in Nat /\ n > 0
    BY DatasetAssumption
  <1>2. size \in Nat /\ size > 0 /\ size <= n
    BY <1>1, ConfigAssumption DEF Lesser
  <1>3. offset \in Int
    BY <1>2
  <1>4. Examples = [i \in 1..size |-> SampleIds[at(i)]]
    BY DEF Examples
  <1>5. \A i \in 1..size : at(i) \in 1..n
    BY <1>1, <1>3
  <1>6. \A i, j \in 1..size : at(i) = at(j) => i = j
    <2> SUFFICES ASSUME NEW i \in 1..size, NEW j \in 1..size, at(i) = at(j)
                 PROVE  i = j
      OBVIOUS
    <2> DEFINE x == offset + i - 1
               y == offset + j - 1
    <2>1. x \in Int /\ y \in Int /\ x - y = i - j
      BY <1>3
    <2>2. x % n = y % n
      BY <1>1, <2>1
    <2>3. x - y < n /\ y - x < n
      <3> HIDE DEF n, size, x, y
      <3> QED
        BY <1>1, <1>2, <2>1
    <2> HIDE DEF x, y
    <2>4. x = y
      BY <1>1, <2>1, <2>2, <2>3, EqualRemainders
    <2> QED
      BY <2>1, <2>4
  <1> HIDE DEF size, at
  <1>7. \A i \in 1..size : SampleIds[at(i)] \in Nat
    BY <1>5, DatasetAssumption
  <1>8. Examples \in Seq(Nat)
    BY <1>2, <1>4, <1>7
  <1>9. Len(Examples) = size
    BY <1>2, <1>4, <1>8
  <1> QED
    BY <1>2, <1>4, <1>5, <1>6, <1>7, <1>9, DatasetAssumption

(* The rows of a batch: the generations of each example, with unique keys. *)
LEMMA KeysType ==
    ASSUME attempt \in Nat
    PROVE  /\ RowCount \in Nat
           /\ Keys \in Seq(RowKeys)
           /\ Len(Keys) = RowCount
           /\ DOMAIN Keys = 1..RowCount
           /\ UniqueKeys(Keys)
           /\ \A r \in 1..RowCount : RefLength[Keys[r][1]] \in Nat
  <1> DEFINE m == Len(Examples)
             g == Generations
             example(r) == ((r - 1) \div g) + 1
             generation(r) == (r - 1) % g
  <1>1. m \in Nat /\ m > 0
    BY ExamplesType
  <1>2. g \in Nat /\ g > 0
    BY ConfigAssumption DEF Generations
  <1>3. RowCount = m * g
    BY DEF RowCount
  <1>4. RowCount \in Nat
    BY <1>1, <1>2, <1>3
  <1>5. Keys = [r \in 1..RowCount |-> <<Examples[example(r)], generation(r)>>]
    BY DEF Keys
  <1>6. ASSUME NEW r \in 1..RowCount
        PROVE  example(r) \in 1..m /\ generation(r) \in Nat
    <2> DEFINE q == (r - 1) \div g
    <2> HIDE DEF m, g
    <2>1. r - 1 \in Nat /\ r - 1 < m * g
      BY <1>3, <1>4
    <2>2. q \in Nat /\ g * q <= r - 1 /\ generation(r) \in Nat
      BY <1>2, <2>1
    <2>3. q < m
      <3> HIDE DEF q
      <3>1. q >= m => g * q >= g * m
        BY <1>1, <1>2, <2>2
      <3>2. g * m = m * g
        BY <1>1, <1>2
      <3> QED
        BY <1>1, <1>2, <2>1, <2>2, <3>1, <3>2
    <2> QED
      BY <1>1, <2>2, <2>3
  <1>7. ASSUME NEW r \in 1..RowCount, NEW s \in 1..RowCount,
               example(r) = example(s), generation(r) = generation(s)
        PROVE  r = s
    <2> HIDE DEF m, g
    <2> DEFINE x == r - 1
               y == s - 1
    <2>1. x \in Nat /\ y \in Nat
      BY <1>4
    <2>2. x \div g = y \div g /\ x % g = y % g
      BY <1>2, <1>7, <2>1
    <2>3. /\ x = g * (x \div g) + (x % g)
          /\ y = g * (y \div g) + (y % g)
      <3> HIDE DEF x, y
      <3> QED
        BY <1>2, <2>1
    <2>4. x = y
      BY <2>2, <2>3
    <2> QED
      BY <1>4, <2>4
  <1> HIDE DEF m, g, example, generation
  <1>8. \A r \in 1..RowCount : Examples[example(r)] \in Nat
    BY <1>6, ExamplesType DEF m
  <1>9. \A r \in 1..RowCount : <<Examples[example(r)], generation(r)>> \in RowKeys
    BY <1>6, <1>8 DEF RowKeys
  <1>10. Keys \in Seq(RowKeys)
    BY <1>4, <1>5, <1>9
  <1>11. Len(Keys) = RowCount /\ DOMAIN Keys = 1..RowCount
    BY <1>4, <1>5, <1>10
  <1>12. UniqueKeys(Keys)
    <2> SUFFICES ASSUME NEW r \in 1..RowCount, NEW s \in 1..RowCount, Keys[r] = Keys[s]
                 PROVE  r = s
      BY <1>11 DEF UniqueKeys
    <2>1. /\ Examples[example(r)] = Examples[example(s)]
          /\ generation(r) = generation(s)
      BY <1>5
    <2>2. example(r) = example(s)
      BY <1>6, <2>1, ExamplesType DEF m
    <2> QED
      BY <1>7, <2>1, <2>2
  <1>13. \A r \in 1..RowCount : RefLength[Keys[r][1]] \in Nat
    BY <1>5, <1>6, ExamplesType DEF m
  <1> QED
    BY <1>4, <1>10, <1>11, <1>12, <1>13

(* Sampling yields a well-formed batch.                                    *)
LEMMA SampleFacts ==
    ASSUME attempt \in Nat, NEW lengths \in Lengths, NEW b,
           b.keys = Keys, b.mask = CompletionMask(lengths)
    PROVE  WellFormedBatch(b)
  <1>1. /\ RowCount \in Nat
        /\ Len(Keys) = RowCount
        /\ DOMAIN Keys = 1..RowCount
        /\ \A r \in DOMAIN Keys : Keys[r] \in RowKeys
        /\ UniqueKeys(Keys)
        /\ \A r \in 1..RowCount : RefLength[Keys[r][1]] \in Nat
    BY KeysType
  <1>2. lengths \in [1..RowCount -> Nat]
    <2>1. CASE objective = "sft"
      BY <1>1, <2>1 DEF Lengths
    <2>2. CASE objective # "sft"
      BY <2>2, ConfigAssumption DEF Lengths
    <2> QED
      BY <2>1, <2>2
  <1>3. /\ IsFiniteSet(CompletionMask(lengths))
        /\ CompletionMask(lengths) \subseteq (1..RowCount) \X Nat
    BY <1>1, <1>2, CompletionMaskFinite
  <1> QED
    BY <1>1, <1>3 DEF WellFormedBatch

-----------------------------------------------------------------------------
(* One step of each kind preserves the invariant.                          *)

(* Excluding zero-variance groups only removes positions.                  *)
LEMMA CandidatesAreSubsets ==
    ASSUME NEW candidate \in Candidates
    PROVE  candidate \subseteq batch.mask
  <1>1. CASE objective = "grpo"
    BY <1>1 DEF Candidates, OfRows
  <1>2. CASE objective # "grpo"
    BY <1>2 DEF Candidates
  <1> QED
    BY <1>1, <1>2

(* A Trainer that has just been constructed satisfies the invariant.       *)
LEMMA InitInv == Init => IInv
  <1> SUFFICES ASSUME Init PROVE IInv
    OBVIOUS
  <1>1. TypeOK
    <2>1. /\ theta \in Thetas /\ generator \in Generators
          /\ optimizer \in Optimizers /\ records \in RecordCounts
      BY DEF Init, Thetas, FreshTheta, Generators, SeededGenerator, Optimizers,
         FreshOptimizer, RecordCounts, NoRecords
    <2>2. /\ left = 0 /\ stage = 0 /\ attempt = 0 /\ policyVersion = 0
          /\ mb = 0 /\ base = 0
          /\ MaxStage \in Nat /\ MaxAttempt \in Nat
      BY ConfigAssumption DEF Init
    <2>3. /\ pc \in Phases /\ objective \in ObjectiveNames
          /\ outcome \in {"none", "closed", "incomplete", "raised"}
          /\ budget = None /\ disk = None /\ executed \in BOOLEAN
      BY DEF Init, Phases, ObjectiveNames
    <2> QED
      BY <2>1, <2>2, <2>3 DEF TypeOK
  <1>2. PhaseInv
    BY DEF Init, PhaseInv
  <1>3. ExactAccounting
    BY DEF Init, ExactAccounting, Uncharged, FreshTheta, NoRecords
  <1>4. ScheduleInv
    BY DEF Init, ScheduleInv, ScheduleFollowsBudget
  <1>5. CursorInv
    BY DEF Init, CursorInv, FreshRollouts, NoRecords, SeededGenerator
  <1>6. BatchInv /\ SelectionInv /\ GradInv /\ DiskInv
    BY DEF Init, BatchInv, OnPolicy, SelectionInv, GradInv, GradientIsThisAttempts,
       DiskInv
  <1> QED
    BY <1>1, <1>2, <1>3, <1>4, <1>5, <1>6 DEF IInv

(* run_stage is entered.                                                   *)
LEMMA RunStageInv ==
    ASSUME IInv, NEW limit \in AttemptLimits, RunStage(limit)
    PROVE  IInv'
  <1>1. TypeOK'
    BY ConfigAssumption DEF IInv, TypeOK, Phases, RunStage, stageVars, stepVars
  <1>2. PhaseInv'
    BY DEF IInv, PhaseInv, RunStage, stageVars, stepVars
  <1>3. ExactAccounting'
    BY DEF IInv, ExactAccounting, Trained, Uncharged, RunStage, stageVars
  <1>4. ScheduleInv'
    BY DEF IInv, PhaseInv, ScheduleInv, ScheduleFollowsBudget, RunStage
  <1>5. CursorInv'
    BY DEF IInv, CursorInv, FreshRollouts, RunStage, stageVars, stepVars
  <1>6. BatchInv'
    BY DEF IInv, BatchInv, OnPolicy, RunStage
  <1>7. SelectionInv'
    BY DEF IInv, SelectionInv, PlanSelection, RunStage
  <1>8. GradInv'
    BY DEF IInv, GradInv, GradientIsThisAttempts, RunStage
  <1>9. DiskInv'
    BY DEF IInv, DiskInv, RunStage
  <1> QED
    BY <1>1, <1>2, <1>3, <1>4, <1>5, <1>6, <1>7, <1>8, <1>9 DEF IInv

(* An attempt is counted: one fewer is left, so the sum stays bounded.     *)
LEMMA BeginAttemptInv ==
    ASSUME IInv, BeginAttempt
    PROVE  IInv'
  <1>1. TypeOK'
    BY DEF IInv, TypeOK, Phases, BeginAttempt, stageVars, stepVars
  <1>2. PhaseInv'
    BY DEF IInv, PhaseInv, BeginAttempt, stageVars, stepVars
  <1>3. ExactAccounting'
    BY DEF IInv, ExactAccounting, Trained, Uncharged, BeginAttempt, stageVars
  <1>4. ScheduleInv'
    BY DEF IInv, PhaseInv, ScheduleInv, ScheduleFollowsBudget, BeginAttempt
  <1>5. CursorInv'
    BY DEF IInv, CursorInv, FreshRollouts, BeginAttempt, stageVars, stepVars
  <1>6. BatchInv'
    BY DEF IInv, BatchInv, OnPolicy, BeginAttempt
  <1>7. SelectionInv'
    BY DEF IInv, SelectionInv, PlanSelection, BeginAttempt
  <1>8. GradInv'
    BY DEF IInv, GradInv, GradientIsThisAttempts, BeginAttempt
  <1>9. DiskInv'
    BY DEF IInv, DiskInv, BeginAttempt
  <1> QED
    BY <1>1, <1>2, <1>3, <1>4, <1>5, <1>6, <1>7, <1>8, <1>9 DEF IInv

(* run_stage returns or raises StageBudgetIncomplete.                      *)
LEMMA EndLoopInv ==
    ASSUME IInv, EndLoop
    PROVE  IInv'
  <1>1. TypeOK'
    <2>1. /\ left' \in Nat /\ attempt' \in Nat /\ attempt' + left' <= MaxAttempt
      <3>1. left' = 0 /\ attempt' = attempt
        BY DEF EndLoop
      <3>2. /\ attempt \in Nat /\ left \in Nat /\ MaxAttempt \in Nat
            /\ attempt + left <= MaxAttempt
        BY ConfigAssumption DEF IInv, TypeOK
      <3> QED
        BY <3>1, <3>2
    <2>2. outcome' \in {"none", "closed", "incomplete", "raised"}
      BY DEF EndLoop
    <2> QED
      BY <2>1, <2>2 DEF IInv, TypeOK, Phases, EndLoop, stageVars, stepVars
  <1>2. PhaseInv'
    BY DEF IInv, PhaseInv, EndLoop, stageVars, stepVars
  <1>3. ExactAccounting'
    BY DEF IInv, ExactAccounting, Trained, Uncharged, EndLoop, stageVars
  <1>4. ScheduleInv'
    BY DEF IInv, PhaseInv, ScheduleInv, ScheduleFollowsBudget, EndLoop
  <1>5. CursorInv'
    BY DEF IInv, CursorInv, FreshRollouts, EndLoop, stageVars, stepVars
  <1>6. BatchInv'
    BY DEF IInv, BatchInv, OnPolicy, EndLoop
  <1>7. SelectionInv'
    BY DEF IInv, SelectionInv, PlanSelection, EndLoop
  <1>8. GradInv'
    BY DEF IInv, GradInv, GradientIsThisAttempts, EndLoop
  <1>9. DiskInv'
    BY DEF IInv, DiskInv, EndLoop
  <1> QED
    BY <1>1, <1>2, <1>3, <1>4, <1>5, <1>6, <1>7, <1>8, <1>9 DEF IInv

(* A stage starts: what belongs to it is new, the parameters stay, and     *)
(* base moves to what has been trained so far.                             *)
LEMMA StartStageInv ==
    ASSUME IInv, NEW o \in Objectives, NEW t \in Targets, StartStage(o, t)
    PROVE  IInv'
  <1>1. TypeOK'
    BY NewBudgetType, ConfigAssumption
       DEF IInv, TypeOK, ObjectiveNames, SeededGenerator, FreshOptimizer, Generators,
           Optimizers, Thetas, StartStage, stepVars
  <1>2. PhaseInv'
    BY NewBudgetType DEF IInv, PhaseInv, TypeOK, StartStage, stepVars
  <1>3. ExactAccounting'
    BY NewBudgetType
       DEF IInv, ExactAccounting, Trained, Uncharged, TypeOK, Thetas, StartStage
  <1>4. ScheduleInv'
    BY NewBudgetType
       DEF IInv, ScheduleInv, ScheduleFollowsBudget, FreshOptimizer, StartStage
  <1>5. CursorInv'
    BY DEF IInv, CursorInv, FreshRollouts, SeededGenerator, TypeOK, RecordCounts,
       StartStage
  <1>6. BatchInv'
    BY DEF IInv, BatchInv, OnPolicy, StartStage
  <1>7. SelectionInv'
    BY DEF IInv, SelectionInv, PlanSelection, StartStage
  <1>8. GradInv'
    BY DEF IInv, GradInv, GradientIsThisAttempts, StartStage
  <1>9. DiskInv'
    BY DEF IInv, DiskInv, StartStage
  <1> QED
    BY <1>1, <1>2, <1>3, <1>4, <1>5, <1>6, <1>7, <1>8, <1>9 DEF IInv

(* A batch is sampled from the present parameters; the generator moves on. *)
LEMMA SampleInv ==
    ASSUME IInv, Sample
    PROVE  IInv'
  <1>1. TypeOK'
    BY DEF IInv, TypeOK, Phases, AfterDraw, Generators, Sample, stageVars
  <1>2. PhaseInv'
    BY DEF IInv, PhaseInv, Sample, stageVars
  <1>3. ExactAccounting'
    BY DEF IInv, ExactAccounting, Trained, Uncharged, Sample, stageVars
  <1>4. ScheduleInv'
    BY DEF IInv, ScheduleInv, ScheduleFollowsBudget, Sample
  <1>5. CursorInv'
    <2>1. /\ generator'.seed = generator.seed
          /\ generator.drawn \in Nat /\ generator'.drawn \in Nat
          /\ generator'.drawn >= generator.drawn
      BY DEF IInv, TypeOK, Generators, Sample, AfterDraw
    <2>2. batch'.drawn = generator.drawn
      BY DEF Sample
    <2>3. records.drawn \in Nat
      BY DEF IInv, TypeOK, RecordCounts
    <2>4. UNCHANGED <<budget, stage, records>>
      BY DEF Sample, stageVars
    <2> QED
      BY <2>1, <2>2, <2>3, <2>4 DEF IInv, CursorInv, FreshRollouts
  <1>6. BatchInv'
    <2>1. PICK lengths \in Lengths :
             batch' = [keys |-> Keys,
                       mask |-> CompletionMask(lengths),
                       version |-> IF objective = "sft" THEN -1 ELSE policyVersion,
                       updates |-> theta.updates,
                       drawn |-> generator.drawn]
      BY DEF Sample
    <2>2. batch'.keys = Keys /\ batch'.mask = CompletionMask(lengths)
      BY <2>1
    <2>3. WellFormedBatch(batch')
      BY <2>2, SampleFacts DEF IInv, TypeOK
    <2>4. OnPolicy'
      BY <2>1 DEF OnPolicy, Sample, stageVars
    <2> QED
      BY <2>3, <2>4 DEF BatchInv
  <1>7. SelectionInv'
    BY DEF IInv, SelectionInv, PlanSelection, Sample
  <1>8. GradInv'
    BY DEF IInv, GradInv, GradientIsThisAttempts, Sample
  <1>9. DiskInv'
    BY DEF IInv, DiskInv, Sample
  <1> QED
    BY <1>1, <1>2, <1>3, <1>4, <1>5, <1>6, <1>7, <1>8, <1>9 DEF IInv

(* The selection is planned from the present counter, and the gradient is  *)
(* cleared.                                                                *)
LEMMA ScoreInv ==
    ASSUME IInv, Score
    PROVE  IInv'
  <1>1. TypeOK'
    BY DEF IInv, TypeOK, Phases, Score, stageVars
  <1>2. PhaseInv'
    BY DEF IInv, PhaseInv, Phases, Score, stageVars
  <1>3. ExactAccounting'
    BY DEF IInv, ExactAccounting, Trained, Uncharged, Score, stageVars
  <1>4. ScheduleInv'
    BY DEF IInv, PhaseInv, ScheduleInv, ScheduleFollowsBudget, Score
  <1>5. CursorInv'
    BY DEF IInv, CursorInv, FreshRollouts, Score, stageVars
  <1>6. BatchInv'
    BY DEF IInv, BatchInv, OnPolicy, Score, stageVars
  <1>7. SelectionInv'
    <2>1. PICK candidate \in Candidates :
             /\ Cardinality(PlanSelection(candidate).mask)
                   = PlanSelection(candidate).reservation.selected
             /\ selection' = PlanSelection(candidate)
             /\ pc' = IF PlanSelection(candidate).reservation.selected > 0
                      THEN "micro" ELSE "commit"
      BY DEF Score
    <2>2. candidate \subseteq batch.mask
      BY CandidatesAreSubsets
    <2>3. batch' = batch /\ budget' = budget /\ executed' = FALSE
      BY DEF Score
    <2>4. selection'.candidate = candidate
      BY <2>1 DEF PlanSelection
    <2>5. (selection = PlanSelection(selection.candidate))'
      BY <2>1, <2>3, <2>4 DEF PlanSelection
    <2>6. /\ (selection.candidate \subseteq batch.mask)'
          /\ (Cardinality(selection.mask) = selection.reservation.selected)'
          /\ (pc # "commit" \/ executed => selection.reservation.selected > 0)'
      BY <2>1, <2>2, <2>3, <2>4
    <2> QED
      BY <2>5, <2>6 DEF SelectionInv
  <1>8. GradInv'
    <2>1. mb' = 1 /\ grad' = NoGrad /\ pc' \in {"micro", "commit"} /\ batch' = batch
      BY DEF Score
    <2>2. (mb' - 1) * Width = 0
      BY <2>1, ConfigAssumption
    <2>3. \A p \in selection'.mask : p[1] \in Nat /\ p[1] > 0
      <3>1. PICK candidate \in Candidates : selection' = PlanSelection(candidate)
        BY DEF Score
      <3>2. selection'.mask \subseteq batch.mask
        BY <3>1, CandidatesAreSubsets DEF PlanSelection, CanonicalPrefix
      <3> QED
        BY <3>2 DEF IInv, BatchInv, WellFormedBatch, Score
    <2>4. {p \in selection'.mask : p[1] <= 0} = {}
      BY <2>3
    <2> QED
      BY <2>1, <2>2, <2>4 DEF GradInv, GradientIsThisAttempts, NoGrad
  <1>9. DiskInv'
    BY DEF IInv, DiskInv, Score
  <1> QED
    BY <1>1, <1>2, <1>3, <1>4, <1>5, <1>6, <1>7, <1>8, <1>9 DEF IInv

(* A non-finite loss leaves the microbatches; nothing has been executed.   *)
LEMMA NonfiniteLossInv ==
    ASSUME IInv, NonfiniteLoss
    PROVE  IInv'
  <1>1. TypeOK'
    BY DEF IInv, TypeOK, Phases, NonfiniteLoss, stageVars, stepVars
  <1>2. PhaseInv'
    BY DEF IInv, PhaseInv, NonfiniteLoss, stageVars
  <1>3. ExactAccounting'
    BY DEF IInv, PhaseInv, ExactAccounting, Trained, Uncharged, NonfiniteLoss,
       stageVars, stepVars
  <1>4. ScheduleInv'
    BY DEF IInv, PhaseInv, ScheduleInv, ScheduleFollowsBudget, NonfiniteLoss, stepVars
  <1>5. CursorInv'
    BY DEF IInv, CursorInv, FreshRollouts, NonfiniteLoss, stageVars, stepVars
  <1>6. BatchInv'
    BY DEF IInv, BatchInv, OnPolicy, NonfiniteLoss, stepVars
  <1>7. SelectionInv'
    BY DEF IInv, SelectionInv, PlanSelection, NonfiniteLoss, stepVars
  <1>8. GradInv'
    BY DEF IInv, GradInv, GradientIsThisAttempts, NonfiniteLoss
  <1>9. DiskInv'
    BY DEF IInv, DiskInv, NonfiniteLoss
  <1> QED
    BY <1>1, <1>2, <1>3, <1>4, <1>5, <1>6, <1>7, <1>8, <1>9 DEF IInv

(* All microbatches are done: their rows are all rows, so the gradient     *)
(* holds the whole selection.                                              *)
LEMMA MicrobatchesEndInv ==
    ASSUME IInv, MicrobatchesEnd
    PROVE  IInv'
  <1>1. TypeOK'
    BY DEF IInv, TypeOK, Phases, MicrobatchesEnd, stageVars, stepVars
  <1>2. PhaseInv'
    BY DEF IInv, PhaseInv, MicrobatchesEnd, stageVars, stepVars
  <1>3. ExactAccounting'
    BY DEF IInv, ExactAccounting, Trained, Uncharged, MicrobatchesEnd, stageVars
  <1>4. ScheduleInv'
    BY DEF IInv, PhaseInv, ScheduleInv, ScheduleFollowsBudget, MicrobatchesEnd
  <1>5. CursorInv'
    BY DEF IInv, CursorInv, FreshRollouts, MicrobatchesEnd, stageVars, stepVars
  <1>6. BatchInv'
    BY DEF IInv, BatchInv, OnPolicy, MicrobatchesEnd, stageVars, stepVars
  <1>7. SelectionInv'
    BY DEF IInv, SelectionInv, PlanSelection, MicrobatchesEnd, stepVars
  <1>8. GradInv'
    <2>1. pc = "micro" /\ pc' = "gradients" /\ (mb - 1) * Width >= Len(batch.keys)
      BY DEF MicrobatchesEnd, MicrobatchesDone
    <2>2. UNCHANGED <<grad, selection, stage, attempt>>
      BY DEF MicrobatchesEnd, stageVars, stepVars
    <2>3. /\ grad.positions = {p \in selection.mask : p[1] <= (mb - 1) * Width}
          /\ grad.attempts \subseteq {<<stage, attempt>>}
          /\ grad.positions # {} => grad.attempts # {}
      BY <2>1 DEF IInv, GradInv
    <2>4. ASSUME NEW p \in selection.mask
          PROVE  p[1] <= (mb - 1) * Width
      <3>1. p \in batch.mask
        BY <2>1, SelectionFacts
      <3>2. /\ Len(batch.keys) \in Nat
            /\ p \in (1..Len(batch.keys)) \X Nat
        BY <2>1, <3>1 DEF IInv, BatchInv, WellFormedBatch
      <3>3. (mb - 1) * Width \in Int
        BY ConfigAssumption DEF IInv, TypeOK
      <3> QED
        BY <2>1, <3>2, <3>3
    <2>5. grad.positions = selection.mask
      BY <2>3, <2>4
    <2>6. /\ Cardinality(selection.mask) = selection.reservation.selected
          /\ selection.reservation.selected > 0
      BY <2>1 DEF IInv, SelectionInv
    <2>7. grad.positions # {}
      <3>1. Cardinality({}) = 0
        BY FS_EmptySet
      <3> QED
        BY <2>5, <2>6, <3>1
    <2>8. grad.attempts = {<<stage, attempt>>}
      BY <2>3, <2>7
    <2> QED
      BY <2>1, <2>2, <2>5, <2>6, <2>8 DEF GradInv, GradientIsThisAttempts
  <1>9. DiskInv'
    BY DEF IInv, DiskInv, MicrobatchesEnd
  <1> QED
    BY <1>1, <1>2, <1>3, <1>4, <1>5, <1>6, <1>7, <1>8, <1>9 DEF IInv

(* A non-finite gradient leaves without executing the optimizer.           *)
LEMMA NonfiniteGradientInv ==
    ASSUME IInv, NonfiniteGradient
    PROVE  IInv'
  <1>1. TypeOK'
    BY DEF IInv, TypeOK, Phases, NonfiniteGradient, stageVars, stepVars
  <1>2. PhaseInv'
    BY DEF IInv, PhaseInv, NonfiniteGradient, stageVars
  <1>3. ExactAccounting'
    BY DEF IInv, PhaseInv, ExactAccounting, Trained, Uncharged, NonfiniteGradient,
       stageVars, stepVars
  <1>4. ScheduleInv'
    BY DEF IInv, PhaseInv, ScheduleInv, ScheduleFollowsBudget, NonfiniteGradient,
       stepVars
  <1>5. CursorInv'
    BY DEF IInv, CursorInv, FreshRollouts, NonfiniteGradient, stageVars, stepVars
  <1>6. BatchInv'
    BY DEF IInv, BatchInv, OnPolicy, NonfiniteGradient, stepVars
  <1>7. SelectionInv'
    BY DEF IInv, SelectionInv, PlanSelection, NonfiniteGradient, stepVars
  <1>8. GradInv'
    BY DEF IInv, GradInv, GradientIsThisAttempts, NonfiniteGradient
  <1>9. DiskInv'
    BY DEF IInv, DiskInv, NonfiniteGradient
  <1> QED
    BY <1>1, <1>2, <1>3, <1>4, <1>5, <1>6, <1>7, <1>8, <1>9 DEF IInv

(* One more microbatch: the rows up to mb - 1 become the rows up to mb.    *)
LEMMA MicrobatchInv ==
    ASSUME IInv, Microbatch
    PROVE  IInv'
  <1>1. TypeOK'
    BY DEF IInv, TypeOK, Microbatch, stageVars
  <1>2. PhaseInv'
    BY DEF IInv, PhaseInv, Microbatch, stageVars
  <1>3. ExactAccounting'
    BY DEF IInv, ExactAccounting, Trained, Uncharged, Microbatch, stageVars
  <1>4. ScheduleInv'
    BY DEF IInv, ScheduleInv, ScheduleFollowsBudget, Microbatch
  <1>5. CursorInv'
    BY DEF IInv, CursorInv, FreshRollouts, Microbatch, stageVars
  <1>6. BatchInv'
    BY DEF IInv, BatchInv, OnPolicy, Microbatch, stageVars
  <1>7. SelectionInv'
    BY DEF IInv, SelectionInv, PlanSelection, Microbatch
  <1>8. GradInv'
    <2> DEFINE done == (mb - 1) * Width
               next == mb * Width
               rows == Len(batch.keys)
    <2>1. /\ pc = "micro" /\ pc' = "micro" /\ mb' = mb + 1
          /\ UNCHANGED <<selection, stage, attempt>>
      BY DEF Microbatch, stageVars
    <2>2. /\ mb \in Nat /\ mb > 0
          /\ grad.positions = {p \in selection.mask : p[1] <= done}
          /\ grad.attempts \subseteq {<<stage, attempt>>}
          /\ grad.positions # {} => grad.attempts # {}
      BY <2>1 DEF IInv, TypeOK, GradInv
    <2>3. /\ done \in Int /\ next \in Int /\ done <= next
          /\ (mb' - 1) * Width = next
      BY <2>1, <2>2, ConfigAssumption
    <2>4. MicrobatchMask(mb) = {p \in selection.mask : done < p[1] /\ p[1] <= next}
      <3>1. \A p \in selection.mask : p[1] \in 1..rows
        BY <2>1, SelectionFacts DEF IInv, BatchInv, WellFormedBatch
      <3> QED
        BY <3>1 DEF MicrobatchMask, OfRows, Slice
    <2>5. \A p \in selection.mask : p[1] \in Int
      BY <2>1, SelectionFacts DEF IInv, BatchInv, WellFormedBatch
    <2>6. grad'.positions = grad.positions \cup MicrobatchMask(mb)
      <3>1. CASE MicrobatchMask(mb) = {}
        BY <3>1 DEF Microbatch
      <3>2. CASE MicrobatchMask(mb) # {}
        BY <3>2 DEF Microbatch
      <3> QED
        BY <3>1, <3>2
    <2>7. /\ grad'.attempts \subseteq {<<stage, attempt>>}
          /\ grad'.positions # {} => grad'.attempts # {}
      <3>1. CASE MicrobatchMask(mb) = {}
        BY <2>2, <3>1 DEF Microbatch
      <3>2. CASE MicrobatchMask(mb) # {}
        BY <2>2, <3>2 DEF Microbatch
      <3> QED
        BY <3>1, <3>2
    <2> HIDE DEF done, next
    <2>8. grad'.positions = {p \in selection.mask : p[1] <= next}
      BY <2>2, <2>3, <2>4, <2>5, <2>6
    <2> QED
      BY <2>1, <2>2, <2>3, <2>7, <2>8 DEF GradInv, GradientIsThisAttempts
  <1>9. DiskInv'
    BY DEF IInv, DiskInv, Microbatch
  <1> QED
    BY <1>1, <1>2, <1>3, <1>4, <1>5, <1>6, <1>7, <1>8, <1>9 DEF IInv

(* The optimizer runs: the parameters get the selected positions, which    *)
(* from now on are trained but uncharged.                                  *)
LEMMA OptimizerStepInv ==
    ASSUME IInv, OptimizerStep
    PROVE  IInv'
  <1>1. TypeOK'
    BY SelectionFacts
       DEF IInv, TypeOK, Phases, Thetas, Optimizers, GradInv, GradientIsThisAttempts,
           OptimizerStep, stageVars
  <1>2. PhaseInv'
    BY DEF IInv, PhaseInv, OptimizerStep, stageVars
  <1>3. ExactAccounting'
    <2> DEFINE n == selection.reservation.selected
    <2>1. /\ pc = "gradients" /\ pc' = "commit" /\ executed'
          /\ theta' = [updates |-> theta.updates + 1,
                       tokens  |-> theta.tokens + Cardinality(grad.positions)]
          /\ policyVersion' = policyVersion + 1
          /\ UNCHANGED <<budget, base, selection, records>>
      BY DEF OptimizerStep, stageVars
    <2>2. n \in Nat /\ Cardinality(grad.positions) = n
      BY <2>1, SelectionFacts DEF IInv, GradInv, GradientIsThisAttempts
    <2>3. Uncharged = 0 /\ Uncharged' = n
      BY <2>1 DEF Uncharged
    <2>4. /\ records.tokens \in Nat /\ theta.tokens \in Nat /\ base \in Nat
          /\ theta.updates \in Nat
      BY DEF IInv, TypeOK, RecordCounts, Thetas
    <2>5. /\ budget # None => budget.consumed \in Nat
          /\ policyVersion = theta.updates
          /\ records.tokens = theta.tokens
          /\ budget # None => theta.tokens - base = budget.consumed
      BY <2>3, <2>4 DEF IInv, TypeOK, Budgets, ExactAccounting, Trained
    <2> HIDE DEF n
    <2> QED
      BY <2>1, <2>2, <2>3, <2>4, <2>5 DEF ExactAccounting, Trained
  <1>4. ScheduleInv'
    BY DEF IInv, PhaseInv, ScheduleInv, ScheduleFollowsBudget, Optimizers, OptimizerStep
  <1>5. CursorInv'
    BY DEF IInv, CursorInv, FreshRollouts, OptimizerStep, stageVars
  <1>6. BatchInv'
    BY DEF IInv, BatchInv, OnPolicy, OptimizerStep
  <1>7. SelectionInv'
    BY DEF IInv, SelectionInv, PlanSelection, OptimizerStep
  <1>8. GradInv'
    BY DEF IInv, GradInv, GradientIsThisAttempts, OptimizerStep
  <1>9. DiskInv'
    BY DEF IInv, DiskInv, OptimizerStep
  <1> QED
    BY <1>1, <1>2, <1>3, <1>4, <1>5, <1>6, <1>7, <1>8, <1>9 DEF IInv

(* The commit charges what was executed, or nothing, and records it.       *)
LEMMA CommitInv ==
    ASSUME IInv, Commit
    PROVE  IInv'
  <1>1. TypeOK'
    <2>1. /\ budget \in Budgets /\ budget' \in Budgets
          /\ selection.reservation.selected \in Nat
      BY SelectionFacts DEF Commit
    <2>2. budget'.consumed \in Nat
      BY <2>1 DEF Budgets
    <2>3. optimizer' \in Optimizers
      BY <2>2 DEF IInv, TypeOK, Optimizers, Commit
    <2>4. records' \in RecordCounts
      BY <2>1 DEF IInv, TypeOK, RecordCounts, Generators, Commit
    <2>5. pc' \in Phases /\ mb' \in Nat /\ executed' \in BOOLEAN
      BY DEF Commit, Phases
    <2>6. UNCHANGED <<left, outcome, theta, policyVersion, objective, stage, base,
                      attempt, generator, disk>>
      BY DEF Commit, stageVars
    <2> QED
      BY <2>1, <2>3, <2>4, <2>5, <2>6 DEF IInv, TypeOK
  <1>2. PhaseInv'
    BY SelectionFacts DEF IInv, PhaseInv, Commit, stageVars
  <1>3. ExactAccounting'
    BY SelectionFacts
       DEF IInv, PhaseInv, ExactAccounting, Trained, Uncharged, TypeOK, RecordCounts,
           Budgets, Thetas, Commit, stageVars
  <1>4. ScheduleInv'
    BY SelectionFacts DEF IInv, ScheduleInv, ScheduleFollowsBudget, Commit
  <1>5. CursorInv'
    BY DEF IInv, PhaseInv, CursorInv, FreshRollouts, TypeOK, Generators, Commit,
       stageVars
  <1>6. BatchInv'
    BY DEF IInv, BatchInv, OnPolicy, Commit
  <1>7. SelectionInv'
    BY DEF IInv, SelectionInv, PlanSelection, Commit
  <1>8. GradInv'
    BY DEF IInv, GradInv, GradientIsThisAttempts, Commit
  <1>9. DiskInv'
    BY DEF IInv, DiskInv, Commit
  <1> QED
    BY <1>1, <1>2, <1>3, <1>4, <1>5, <1>6, <1>7, <1>8, <1>9 DEF IInv

(* An exception before the optimizer has run changes no account.           *)
LEMMA RaiseInv ==
    ASSUME IInv, Raise
    PROVE  IInv'
  <1>1. TypeOK'
    <2>1. generator' \in Generators
      BY DEF IInv, TypeOK, Raise, AfterDraw, Generators
    <2>2. /\ left' \in Nat /\ attempt' \in Nat /\ attempt' + left' <= MaxAttempt
          /\ mb' \in Nat
      <3>1. left' = 0 /\ mb' = 0 /\ attempt' = attempt
        BY DEF Raise
      <3>2. /\ attempt \in Nat /\ left \in Nat /\ MaxAttempt \in Nat
            /\ attempt + left <= MaxAttempt
        BY ConfigAssumption DEF IInv, TypeOK
      <3> QED
        BY <3>1, <3>2
    <2>3. pc' \in Phases /\ outcome' \in {"none", "closed", "incomplete", "raised"}
      BY DEF Raise, Phases
    <2> QED
      BY <2>1, <2>2, <2>3 DEF IInv, TypeOK, Raise, stageVars
  <1>2. PhaseInv'
    BY DEF IInv, PhaseInv, Raise, stageVars
  <1>3. ExactAccounting'
    BY DEF IInv, ExactAccounting, Trained, Uncharged, Raise, stageVars
  <1>4. ScheduleInv'
    BY DEF IInv, ScheduleInv, ScheduleFollowsBudget, Raise
  <1>5. CursorInv'
    BY DEF IInv, CursorInv, FreshRollouts, AfterDraw, TypeOK, Generators, RecordCounts,
       Raise, stageVars
  <1>6. BatchInv'
    BY DEF IInv, BatchInv, OnPolicy, Raise
  <1>7. SelectionInv'
    BY DEF IInv, SelectionInv, PlanSelection, Raise
  <1>8. GradInv'
    BY DEF IInv, GradInv, GradientIsThisAttempts, Raise
  <1>9. DiskInv'
    BY DEF IInv, DiskInv, Raise
  <1> QED
    BY <1>1, <1>2, <1>3, <1>4, <1>5, <1>6, <1>7, <1>8, <1>9 DEF IInv

(* An exception after it leaves the update uncharged for good.             *)
LEMMA RaiseFatallyInv ==
    ASSUME IInv, RaiseFatally
    PROVE  IInv'
  <1>1. TypeOK'
    BY DEF IInv, TypeOK, Phases, RaiseFatally, stageVars, stepVars
  <1>2. PhaseInv'
    BY DEF IInv, PhaseInv, RaiseFatally, stageVars
  <1>3. ExactAccounting'
    BY DEF IInv, PhaseInv, ExactAccounting, Trained, Uncharged, RaiseFatally, stageVars,
       stepVars
  <1>4. ScheduleInv'
    BY DEF IInv, ScheduleInv, ScheduleFollowsBudget, RaiseFatally, stepVars
  <1>5. CursorInv'
    BY DEF IInv, CursorInv, FreshRollouts, RaiseFatally, stageVars, stepVars
  <1>6. BatchInv'
    BY DEF IInv, BatchInv, OnPolicy, RaiseFatally
  <1>7. SelectionInv'
    BY DEF IInv, SelectionInv, PlanSelection, RaiseFatally
  <1>8. GradInv'
    BY DEF IInv, GradInv, GradientIsThisAttempts, RaiseFatally
  <1>9. DiskInv'
    BY DEF IInv, DiskInv, RaiseFatally
  <1> QED
    BY <1>1, <1>2, <1>3, <1>4, <1>5, <1>6, <1>7, <1>8, <1>9 DEF IInv

(* The process dies: a new Trainer, and the same file.                     *)
LEMMA CrashInv ==
    ASSUME IInv, Crash
    PROVE  IInv'
  <1>1. TypeOK'
    <2>1. /\ theta' \in Thetas /\ generator' \in Generators
          /\ optimizer' \in Optimizers /\ records' \in RecordCounts
      BY DEF Crash, Thetas, FreshTheta, Generators, SeededGenerator, Optimizers,
         FreshOptimizer, RecordCounts, NoRecords
    <2>2. /\ pc' \in Phases /\ left' \in Nat /\ stage' \in 0..MaxStage
          /\ attempt' \in Nat /\ attempt' + left' <= MaxAttempt
          /\ policyVersion' \in Nat /\ mb' \in Nat /\ base' \in Nat
      <3>1. /\ left' = 0 /\ stage' = 0 /\ attempt' = 0
            /\ policyVersion' = 0 /\ mb' = 0 /\ base' = 0
        BY DEF Crash
      <3>2. MaxStage \in Nat /\ MaxAttempt \in Nat
        BY ConfigAssumption
      <3>3. pc' \in Phases
        BY DEF Crash, Phases
      <3> QED
        BY <3>1, <3>2, <3>3
    <2>3. /\ outcome' \in {"none", "closed", "incomplete", "raised"}
          /\ objective' \in ObjectiveNames
          /\ budget' = None /\ disk' = disk /\ executed' \in BOOLEAN
      BY DEF Crash, ObjectiveNames
    <2> QED
      BY <2>1, <2>2, <2>3 DEF IInv, TypeOK
  <1>2. PhaseInv'
    BY DEF IInv, PhaseInv, Crash
  <1>3. ExactAccounting'
    BY DEF IInv, ExactAccounting, Trained, Uncharged, FreshTheta, NoRecords, Crash
  <1>4. ScheduleInv'
    BY DEF IInv, ScheduleInv, ScheduleFollowsBudget, Crash
  <1>5. CursorInv'
    BY DEF IInv, CursorInv, FreshRollouts, NoRecords, SeededGenerator, Crash
  <1>6. BatchInv'
    BY DEF IInv, BatchInv, OnPolicy, Crash
  <1>7. SelectionInv'
    BY DEF IInv, SelectionInv, PlanSelection, Crash
  <1>8. GradInv'
    BY DEF IInv, GradInv, GradientIsThisAttempts, Crash
  <1>9. DiskInv'
    BY DEF IInv, DiskInv, Crash
  <1> QED
    BY <1>1, <1>2, <1>3, <1>4, <1>5, <1>6, <1>7, <1>8, <1>9 DEF IInv

(* What is saved satisfies the accounting of the running Trainer.          *)
LEMMA SaveCheckpointInv ==
    ASSUME IInv, SaveCheckpoint
    PROVE  IInv'
  <1>1. TypeOK'
    BY ConfigAssumption
       DEF IInv, TypeOK, PhaseInv, Checkpoints, SaveCheckpoint, stageVars, stepVars
  <1>2. PhaseInv'
    BY DEF IInv, PhaseInv, SaveCheckpoint, stageVars, stepVars
  <1>3. ExactAccounting'
    BY DEF IInv, ExactAccounting, Trained, Uncharged, SaveCheckpoint, stageVars
  <1>4. ScheduleInv'
    BY DEF IInv, PhaseInv, ScheduleInv, ScheduleFollowsBudget, SaveCheckpoint
  <1>5. CursorInv'
    BY DEF IInv, CursorInv, FreshRollouts, SaveCheckpoint, stageVars, stepVars
  <1>6. BatchInv'
    BY DEF IInv, BatchInv, OnPolicy, SaveCheckpoint
  <1>7. SelectionInv'
    BY DEF IInv, SelectionInv, PlanSelection, SaveCheckpoint
  <1>8. GradInv'
    BY DEF IInv, GradInv, GradientIsThisAttempts, SaveCheckpoint
  <1>9. DiskInv'
    <2>1. pc = "idle" /\ budget # None /\ ~ executed /\ Uncharged = 0
      BY DEF IInv, PhaseInv, SaveCheckpoint, Uncharged
    <2>2. /\ records.tokens \in Nat /\ theta.tokens \in Nat /\ base \in Nat
          /\ budget.consumed \in Nat
      BY <2>1 DEF IInv, TypeOK, RecordCounts, Thetas, Budgets
    <2>3. /\ policyVersion = theta.updates
          /\ records.tokens = theta.tokens
          /\ theta.tokens - base = budget.consumed
      BY <2>1, <2>2 DEF IInv, ExactAccounting, Trained
    <2>4. /\ optimizer.lrAt = budget.consumed /\ optimizer.steps = budget.version
          /\ generator.seed = stage /\ records.stage <= stage
          /\ records.stage = stage => records.drawn <= generator.drawn
      BY <2>1 DEF IInv, ScheduleInv, ScheduleFollowsBudget, CursorInv, FreshRollouts
    <2> QED
      BY <2>3, <2>4 DEF DiskInv, SaveCheckpoint
  <1> QED
    BY <1>1, <1>2, <1>3, <1>4, <1>5, <1>6, <1>7, <1>8, <1>9 DEF IInv

(* What is loaded becomes the accounting of the running Trainer.           *)
LEMMA LoadCheckpointInv ==
    ASSUME IInv, LoadCheckpoint
    PROVE  IInv'
  <1>1. TypeOK'
    BY ConfigAssumption
       DEF IInv, TypeOK, PhaseInv, Checkpoints, ObjectiveNames, LoadCheckpoint, stepVars
  <1>2. PhaseInv'
    BY NoneAssumption DEF IInv, PhaseInv, TypeOK, Checkpoints, LoadCheckpoint, stepVars
  <1>3. ExactAccounting'
    BY DEF IInv, ExactAccounting, Trained, Uncharged, DiskInv, TypeOK, Checkpoints,
       RecordCounts, Budgets, Thetas, LoadCheckpoint
  <1>4. ScheduleInv'
    BY DEF IInv, ScheduleInv, ScheduleFollowsBudget, DiskInv, LoadCheckpoint
  <1>5. CursorInv'
    BY DEF IInv, PhaseInv, CursorInv, FreshRollouts, DiskInv, LoadCheckpoint, stepVars
  <1>6. BatchInv'
    BY DEF IInv, BatchInv, OnPolicy, LoadCheckpoint
  <1>7. SelectionInv'
    BY DEF IInv, SelectionInv, PlanSelection, LoadCheckpoint
  <1>8. GradInv'
    BY DEF IInv, GradInv, GradientIsThisAttempts, LoadCheckpoint
  <1>9. DiskInv'
    BY DEF IInv, DiskInv, LoadCheckpoint
  <1> QED
    BY <1>1, <1>2, <1>3, <1>4, <1>5, <1>6, <1>7, <1>8, <1>9 DEF IInv

(* Every step preserves the invariant.                                     *)
LEMMA NextInv == IInv /\ [Next]_vars => IInv'
  <1> SUFFICES ASSUME IInv, [Next]_vars PROVE IInv'
    OBVIOUS
  <1>1. ASSUME NEW o \in Objectives, NEW t \in Targets, StartStage(o, t) PROVE IInv'
    BY <1>1, StartStageInv
  <1>2. ASSUME NEW limit \in AttemptLimits, RunStage(limit) PROVE IInv'
    BY <1>2, RunStageInv
  <1>3. CASE UNCHANGED vars
    <2>1. TypeOK' /\ PhaseInv' /\ ExactAccounting' /\ ScheduleInv' /\ CursorInv'
      BY <1>3
         DEF IInv, vars, TypeOK, PhaseInv, ExactAccounting, Trained, Uncharged,
             ScheduleInv, ScheduleFollowsBudget, CursorInv, FreshRollouts
    <2>2. BatchInv' /\ SelectionInv' /\ GradInv' /\ DiskInv'
      BY <1>3
         DEF IInv, vars, BatchInv, OnPolicy, SelectionInv, PlanSelection, GradInv,
             GradientIsThisAttempts, DiskInv
    <2> QED
      BY <2>1, <2>2 DEF IInv
  <1> QED
    BY <1>1, <1>2, <1>3, BeginAttemptInv, EndLoopInv, SampleInv, ScoreInv,
       MicrobatchInv, NonfiniteLossInv, MicrobatchesEndInv, NonfiniteGradientInv,
       OptimizerStepInv, CommitInv, RaiseInv, RaiseFatallyInv, CrashInv,
       SaveCheckpointInv, LoadCheckpointInv
       DEF Next

(* The invariant of the loop, phase by phase (loop.py, Trainer.step): what *)
(* each statement relies on is established by those before it, through     *)
(* every exit, checkpoint and death of the process.                        *)
THEOREM Invariance == Spec => []IInv
  <1>1. Init => IInv
    BY InitInv
  <1>2. IInv /\ [Next]_vars => IInv'
    BY NextInv
  <1> QED
    BY <1>1, <1>2, PTL DEF Spec

(* The Trainer and its file stay well formed, and no stage makes more      *)
(* attempts than its run_stage calls allowed.                              *)
THEOREM TypeCorrect == Spec => []TypeOK
  <1>1. IInv => TypeOK
    BY DEF IInv
  <1> QED
    BY <1>1, Invariance, PTL

(* Parameters, counter, records and policy version agree at every moment,  *)
(* through skips, exceptions, crashes and resumes.                         *)
THEOREM AccountingIsExact == Spec => []ExactAccounting
  <1>1. IInv => ExactAccounting
    BY DEF IInv
  <1> QED
    BY <1>1, Invariance, PTL

(* plan_torch_loss_budget never refuses what was sampled.                  *)
THEOREM PlansAreAccepted == Spec => []PlanAccepted
  <1>1. IInv => PlanAccepted
    <2> SUFFICES ASSUME IInv, pc = "score", NEW candidate \in Candidates
                 PROVE  Cardinality(PlanSelection(candidate).mask)
                            = PlanSelection(candidate).reservation.selected
      BY DEF PlanAccepted
    <2>1. budget \in Budgets /\ WellFormedBatch(batch)
      BY DEF IInv, TypeOK, PhaseInv, BatchInv
    <2> QED
      BY <2>1, CandidatesAreSubsets, PlanIsExact
  <1> QED
    BY <1>1, Invariance, PTL

(* No update the optimizer has executed is refused by the counter.         *)
THEOREM CommitsAreAccepted == Spec => []CommitAccepted
  <1>1. IInv => CommitAccepted
    BY SelectionFacts DEF CommitAccepted
  <1> QED
    BY <1>1, Invariance, PTL

(* Learning rate and moments are those of the stage's committed tokens.    *)
THEOREM ScheduleIsTheStages == Spec => []ScheduleFollowsBudget
  <1>1. IInv => ScheduleFollowsBudget
    BY DEF IInv, ScheduleInv
  <1> QED
    BY <1>1, Invariance, PTL

(* The optimizer is given the gradient of exactly the selected positions.  *)
THEOREM GradientsAreExact == Spec => []GradientIsThisAttempts
  <1>1. IInv => GradientIsThisAttempts
    BY DEF IInv, GradInv
  <1> QED
    BY <1>1, Invariance, PTL

(* Every update learns from rollouts of the parameters it updates.         *)
THEOREM UpdatesAreOnPolicy == Spec => []OnPolicy
  <1>1. IInv => OnPolicy
    BY DEF IInv, BatchInv
  <1> QED
    BY <1>1, Invariance, PTL

(* No recorded rollout is drawn again, after a resume neither.             *)
THEOREM RolloutsAreFresh == Spec => []FreshRollouts
  <1>1. IInv => FreshRollouts
    BY DEF IInv, CursorInv
  <1> QED
    BY <1>1, Invariance, PTL

(* A stage is left for the next one only at exactly its target.            *)
THEOREM StagesAreExact == Spec => StagesCloseExactly
  <1>1. ASSUME IInv, [Next]_vars, stage' > stage, budget # None
        PROVE  Trained = budget.target
    <2>1. stage \in Nat /\ stage' # stage
      BY <1>1 DEF IInv, TypeOK
    <2>2. ~ UNCHANGED stage
      BY <2>1
    <2>3. \E o \in Objectives, t \in Targets : StartStage(o, t)
      <3>1. ~ LoadCheckpoint
        BY <1>1 DEF LoadCheckpoint
      <3>2. ~ Crash
        <4>1. Crash => stage' = 0
          BY DEF Crash
        <4> QED
          BY <1>1, <2>1, <4>1
      <3>3. \A n \in AttemptLimits : RunStage(n) => UNCHANGED stage
        BY DEF RunStage, stageVars
      <3>4. BeginAttempt \/ EndLoop \/ Sample \/ Score \/ Microbatch \/ NonfiniteLoss
               \/ MicrobatchesEnd \/ NonfiniteGradient => UNCHANGED stage
        BY DEF BeginAttempt, EndLoop, Sample, Score, Microbatch, NonfiniteLoss,
           MicrobatchesEnd, NonfiniteGradient, stageVars
      <3>5. OptimizerStep \/ Commit \/ Raise \/ RaiseFatally \/ SaveCheckpoint
               => UNCHANGED stage
        BY DEF OptimizerStep, Commit, Raise, RaiseFatally, SaveCheckpoint, stageVars
      <3>6. UNCHANGED vars => UNCHANGED stage
        BY DEF vars, stageVars
      <3> QED
        BY <1>1, <2>2, <3>1, <3>2, <3>3, <3>4, <3>5, <3>6 DEF Next
    <2>4. pc = "idle" /\ Complete(budget)
      BY <1>1, <2>3 DEF StartStage
    <2>5. budget.target \in Nat /\ budget.consumed \in Nat
      BY <1>1 DEF IInv, TypeOK, Budgets
    <2>6. Uncharged = 0
      BY <2>4 DEF Uncharged
    <2> QED
      BY <1>1, <2>4, <2>5, <2>6 DEF IInv, ExactAccounting, Complete, Remaining
  <1>2. IInv /\ [Next]_vars
            => [stage' > stage /\ budget # None => Trained = budget.target]_vars
    BY <1>1
  <1> QED
    BY <1>2, Invariance, PTL DEF Spec, StagesCloseExactly

-----------------------------------------------------------------------------
(* Every step of the loop is a step of TrainingRun.                        *)

(* A saved run is never mistaken for the absence of one.                   *)
LEMMA SavedRunExists ==
    ASSUME IInv, disk # None
    PROVE  SavedRun # None
  <1>1. disk \in Checkpoints
    BY DEF IInv, TypeOK
  <1>2. /\ disk.stage \in Nat /\ disk.budget \in Budgets /\ disk.student \in Thetas
        /\ disk.base \in Nat /\ disk.attempt \in Nat /\ disk.policyVersion \in Nat
        /\ disk.generator \in Generators /\ disk.optimizer \in Optimizers
        /\ disk.records \in RecordCounts
    BY <1>1, ConfigAssumption DEF Checkpoints
  <1>3. /\ disk.budget.target \in Nat
        /\ disk.student.tokens - disk.base \in Int
        /\ disk.student.updates \in Nat
    BY <1>2 DEF Budgets, Thetas
  <1>4. CursorOf(disk.attempt, disk.policyVersion, disk.generator, disk.optimizer,
                 disk.records) \in Cursors
    BY <1>2 DEF CursorOf, Cursors
  <1>5. SavedRun \in Runs
    BY <1>2, <1>3, <1>4 DEF SavedRun, Runs
  <1> QED
    BY <1>5, NoneAssumption

(* A step that leaves stage, target, parameters and file alone is Work.    *)
LEMMA WorkStep ==
    ASSUME UNCHANGED <<stage, base, theta, disk>>,
           budget = None => budget' = None,
           budget # None => budget' # None /\ budget'.target = budget.target
    PROVE  Abstract!Work
  <1>1. /\ Run'.stage = Run.stage /\ Run'.target = Run.target
        /\ Run'.done = Run.done /\ Run'.updates = Run.updates
    BY DEF Run, Trained
  <1>2. Run' = [stage |-> Run'.stage, target |-> Run'.target, done |-> Run'.done,
                updates |-> Run'.updates, cursor |-> Run'.cursor]
    BY DEF Run
  <1>3. UNCHANGED SavedRun
    BY DEF SavedRun
  <1> QED
    BY <1>1, <1>2, <1>3 DEF Abstract!Work, Abstract!SameStage

(* start_stage switches stages exactly when the abstract run may.          *)
LEMMA StartStageRefines ==
    ASSUME IInv, NEW o \in Objectives, NEW t \in Targets, StartStage(o, t)
    PROVE  Abstract!StartStage
  <1>1. /\ pc = "idle" /\ (budget # None => Complete(budget))
        /\ budget' = NewBudget(t) /\ stage' = stage + 1
        /\ base' = theta.tokens /\ theta' = theta /\ disk' = disk
    BY DEF StartStage
  <1>2. /\ budget' # None /\ budget'.target = t /\ t \in Nat /\ t > 0
    BY <1>1, NewBudgetType
  <1>3. theta.tokens \in Nat /\ base \in Nat
    BY DEF IInv, TypeOK, Thetas
  <1>4. Run.done = Run.target
    <2>1. CASE budget = None
      BY <2>1 DEF IInv, PhaseInv, FreshTheta, Run, Trained
    <2>2. CASE budget # None
      <3>1. budget.target \in Nat /\ budget.consumed \in Nat
        BY <2>2 DEF IInv, TypeOK, Budgets
      <3>2. Uncharged = 0
        BY <1>1 DEF Uncharged
      <3>3. Trained = budget.consumed
        BY <2>2, <3>1, <3>2 DEF IInv, ExactAccounting
      <3> QED
        BY <1>1, <2>2, <3>1, <3>3 DEF Run, Complete, Remaining
    <2> QED
      BY <2>1, <2>2
  <1>5. /\ Run'.stage = Run.stage + 1 /\ Run'.target = t /\ Run'.done = 0
        /\ Run'.updates = Run.updates
    BY <1>1, <1>2, <1>3 DEF Run, Trained
  <1>6. Run' = [stage |-> Run'.stage, target |-> Run'.target, done |-> Run'.done,
                updates |-> Run'.updates, cursor |-> Run'.cursor]
    BY DEF Run
  <1>7. UNCHANGED SavedRun
    BY <1>1 DEF SavedRun
  <1> QED
    BY <1>2, <1>4, <1>5, <1>6, <1>7 DEF Abstract!StartStage

(* The optimizer trains at most what the stage still lacks.                *)
LEMMA OptimizerStepRefines ==
    ASSUME IInv, OptimizerStep
    PROVE  Abstract!Train
  <1> DEFINE n == selection.reservation.selected
  <1>1. /\ pc = "gradients"
        /\ theta' = [updates |-> theta.updates + 1,
                     tokens  |-> theta.tokens + Cardinality(grad.positions)]
        /\ UNCHANGED <<budget, base, stage, disk>>
    BY DEF OptimizerStep, stageVars
  <1>2. /\ budget # None /\ budget \in Budgets
        /\ n \in Nat /\ n <= budget.target - budget.consumed
    BY <1>1, SelectionFacts DEF IInv, PhaseInv
  <1>3. n > 0 /\ Cardinality(grad.positions) = n
    BY <1>1 DEF IInv, SelectionInv, GradInv, GradientIsThisAttempts
  <1>4. /\ theta.tokens \in Nat /\ theta.updates \in Nat /\ base \in Nat
        /\ budget.target \in Nat /\ budget.consumed \in Nat
    BY <1>2 DEF IInv, TypeOK, Thetas, Budgets
  <1>5. theta.tokens - base = budget.consumed
    <2>1. Uncharged = 0
      BY <1>1 DEF Uncharged
    <2> QED
      BY <1>2, <1>4, <2>1 DEF IInv, ExactAccounting, Trained
  <1>6. /\ Run.stage = stage /\ Run'.stage = stage
        /\ Run.target = budget.target /\ Run'.target = budget.target
        /\ Run.done = theta.tokens - base /\ Run'.done = (theta.tokens + n) - base
        /\ Run.updates = theta.updates /\ Run'.updates = theta.updates + 1
    <2>1. theta'.tokens = theta.tokens + n /\ theta'.updates = theta.updates + 1
      BY <1>1, <1>3
    <2>2. /\ Run.done = theta.tokens - base /\ Run'.done = theta'.tokens - base'
          /\ Run.updates = theta.updates /\ Run'.updates = theta'.updates
          /\ Run.stage = stage /\ Run'.stage = stage'
      BY DEF Run, Trained
    <2>3. Run.target = budget.target /\ Run'.target = budget'.target
      BY <1>1, <1>2 DEF Run
    <2> QED
      BY <1>1, <2>1, <2>2, <2>3
  <1>7. Run' = [stage |-> Run'.stage, target |-> Run'.target, done |-> Run'.done,
                updates |-> Run'.updates, cursor |-> Run'.cursor]
    BY DEF Run
  <1>8. UNCHANGED SavedRun
    BY <1>1 DEF SavedRun
  <1> HIDE DEF n
  <1>9. Run.done < Run'.done /\ Run'.done <= Run.target
    BY <1>2, <1>3, <1>4, <1>5, <1>6
  <1> QED
    BY <1>6, <1>7, <1>8, <1>9 DEF Abstract!Train, Abstract!SameStage

(* A crash loses everything but the file.                                  *)
LEMMA CrashRefines ==
    ASSUME Crash
    PROVE  Abstract!Die
  <1>1. /\ budget' = None /\ stage' = 0 /\ base' = 0 /\ theta' = FreshTheta /\ disk' = disk
    BY DEF Crash
  <1>2. /\ Run'.stage = 0 /\ Run'.target = 0 /\ Run'.done = 0 /\ Run'.updates = 0
    BY <1>1 DEF Run, Trained, FreshTheta
  <1>3. Run' = [stage |-> Run'.stage, target |-> Run'.target, done |-> Run'.done,
                updates |-> Run'.updates, cursor |-> Run'.cursor]
    BY DEF Run
  <1>4. UNCHANGED SavedRun
    BY <1>1 DEF SavedRun
  <1> QED
    BY <1>2, <1>3, <1>4 DEF Abstract!Die, Abstract!NewRun

(* save_checkpoint saves exactly the run.                                  *)
LEMMA SaveCheckpointRefines ==
    ASSUME IInv, SaveCheckpoint
    PROVE  Abstract!Save
  <1>1. disk' = [student |-> theta, optimizer |-> optimizer, budget |-> budget,
                 objective |-> objective, stage |-> stage, attempt |-> attempt,
                 policyVersion |-> policyVersion, generator |-> generator,
                 records |-> records, base |-> base]
    BY DEF SaveCheckpoint
  <1>2. disk' # None
    <2>1. disk' \in Checkpoints
      BY <1>1, ConfigAssumption DEF IInv, TypeOK, PhaseInv, Checkpoints, SaveCheckpoint
    <2> QED
      BY <2>1, NoneAssumption
  <1>3. budget # None
    BY DEF SaveCheckpoint
  <1>4. SavedRun' = Run
    BY <1>1, <1>2, <1>3 DEF SavedRun, Run, Trained
  <1>5. UNCHANGED Run
    BY DEF SaveCheckpoint, Run, Trained, stageVars, CursorOf
  <1> QED
    BY <1>4, <1>5 DEF Abstract!Save

(* load_checkpoint restores exactly the saved run.                         *)
LEMMA LoadCheckpointRefines ==
    ASSUME IInv, LoadCheckpoint
    PROVE  Abstract!Recover
  <1>1. /\ budget = None /\ disk # None /\ disk' = disk
        /\ theta' = disk.student /\ budget' = disk.budget /\ optimizer' = disk.optimizer
        /\ stage' = disk.stage /\ attempt' = disk.attempt
        /\ policyVersion' = disk.policyVersion /\ generator' = disk.generator
        /\ records' = disk.records /\ base' = disk.base
    BY DEF LoadCheckpoint
  <1>2. Run.stage = 0
    BY <1>1 DEF IInv, PhaseInv, Run
  <1>3. SavedRun # None
    BY <1>1, SavedRunExists
  <1>4. budget' # None
    <2>1. disk.budget \in Budgets
      BY <1>1 DEF IInv, TypeOK, Checkpoints
    <2> QED
      BY <1>1, <2>1, NoneAssumption
  <1>5. Run' = SavedRun
    BY <1>1, <1>4 DEF Run, SavedRun, Trained, CursorOf
  <1>6. UNCHANGED SavedRun
    BY <1>1 DEF SavedRun
  <1> QED
    BY <1>2, <1>3, <1>5, <1>6 DEF Abstract!Recover

(* Charging an update is invisible to the abstract run, whose parameters   *)
(* have already been trained.                                              *)
LEMMA CommitRefines ==
    ASSUME IInv, Commit
    PROVE  Abstract!Work
  <1>1. pc = "commit" /\ UNCHANGED <<stage, base, theta, disk>>
    BY DEF Commit, stageVars
  <1>2. budget # None
    BY <1>1 DEF IInv, PhaseInv
  <1>3. budget' # None /\ budget'.target = budget.target
    BY <1>1, <1>2, SelectionFacts DEF Commit
  <1> QED
    BY <1>1, <1>2, <1>3, WorkStep

(* Whatever else happens, stages are exact and resumes are exact: the loop *)
(* implements the resumable run of TrainingRun.                            *)
THEOREM Refinement == Spec => ImplementsTrainingRun
  <1>1. Init => Abstract!Init
    <2> SUFFICES ASSUME Init PROVE Abstract!Init
      OBVIOUS
    <2>1. /\ Run.stage = 0 /\ Run.target = 0 /\ Run.done = 0 /\ Run.updates = 0
          /\ SavedRun = None
      BY DEF Init, Run, Trained, FreshTheta, SavedRun
    <2>2. Run = [stage |-> Run.stage, target |-> Run.target, done |-> Run.done,
                 updates |-> Run.updates, cursor |-> Run.cursor]
      BY DEF Run
    <2> QED
      BY <2>1, <2>2 DEF Abstract!Init, Abstract!NewRun
  <1>2. IInv /\ [Next]_vars => [Abstract!Next]_<<Run, SavedRun>>
    <2> SUFFICES ASSUME IInv, [Next]_vars
                 PROVE  Abstract!Next \/ UNCHANGED <<Run, SavedRun>>
      OBVIOUS
    <2>1. ASSUME NEW o \in Objectives, NEW t \in Targets, StartStage(o, t)
          PROVE  Abstract!Next
      BY <2>1, StartStageRefines DEF Abstract!Next
    <2>2. ASSUME NEW n \in AttemptLimits, RunStage(n) PROVE Abstract!Next
      BY <2>2, WorkStep DEF RunStage, stageVars, Abstract!Next
    <2>3. CASE BeginAttempt \/ EndLoop \/ Sample \/ Score \/ Microbatch
      BY <2>3, WorkStep
         DEF BeginAttempt, EndLoop, Sample, Score, Microbatch, stageVars, Abstract!Next
    <2>4. CASE NonfiniteLoss \/ MicrobatchesEnd \/ NonfiniteGradient \/ Raise \/ RaiseFatally
      BY <2>4, WorkStep
         DEF NonfiniteLoss, MicrobatchesEnd, NonfiniteGradient, Raise, RaiseFatally,
             stageVars, Abstract!Next
    <2>5. CASE OptimizerStep
      BY <2>5, OptimizerStepRefines DEF Abstract!Next
    <2>6. CASE Commit
      BY <2>6, CommitRefines DEF Abstract!Next
    <2>7. CASE Crash
      BY <2>7, CrashRefines DEF Abstract!Next
    <2>8. CASE SaveCheckpoint
      BY <2>8, SaveCheckpointRefines DEF Abstract!Next
    <2>9. CASE LoadCheckpoint
      BY <2>9, LoadCheckpointRefines DEF Abstract!Next
    <2>10. CASE UNCHANGED vars
      <3>1. UNCHANGED Run
        BY <2>10 DEF vars, stageVars, Run, Trained, CursorOf
      <3>2. UNCHANGED SavedRun
        BY <2>10 DEF vars, SavedRun, CursorOf
      <3> QED
        BY <3>1, <3>2
    <2> QED
      BY <2>1, <2>2, <2>3, <2>4, <2>5, <2>6, <2>7, <2>8, <2>9, <2>10 DEF Next
  <1> QED
    BY <1>1, <1>2, Invariance, PTL DEF Spec, ImplementsTrainingRun, Abstract!Spec

=============================================================================
