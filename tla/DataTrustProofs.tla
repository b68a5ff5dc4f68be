--------------------------- MODULE DataTrustProofs ---------------------------
(***************************************************************************)
(* What TLAPS proves of DataTrust and Contamination: the quarantine is the *)
(* closure of the matched records under shared families, what is left      *)
(* descends from nothing in it, a manifest keeps kin on one side, and the  *)
(* scan's indices lose no pair of texts that would match.                  *)
(***************************************************************************)
EXTENDS DataTrust, FiniteSetTheorems, FunctionTheorems, SequenceTheorems,
        WellFoundedInduction, TLAPS

-----------------------------------------------------------------------------

\* Numbers are well founded.
LEMMA LeastNumber ==
    ASSUME NEW T \in SUBSET Nat, NEW x \in T
    PROVE  \E n \in T : \A m \in T : n <= m
  <1> DEFINE R == OpToRel(<, Nat)
  <1>1. IsWellFoundedOn(R, Nat)
    BY NatLessThanWellFounded
  <1>2. \A m, n \in Nat : m < n => <<m, n>> \in R
    BY DEF OpToRel
  <1> HIDE DEF R
  <1>3. PICK n \in T : \A m \in T : ~ (<<m, n>> \in R)
    BY <1>1, WFMin
  <1>4. \A m \in T : ~ (m < n)
    BY <1>2, <1>3
  <1>5. n \in Nat /\ T \subseteq Nat
    OBVIOUS
  <1> QED BY <1>4, <1>5

LEMMA Induction ==
    ASSUME NEW S, 0 \in S, \A n \in Nat : n \in S => n + 1 \in S
    PROVE  Nat \subseteq S
  <1> SUFFICES ASSUME NEW x \in Nat \ S PROVE FALSE
    OBVIOUS
  <1>1. PICK n \in Nat \ S : \A m \in Nat \ S : n <= m
    BY LeastNumber
  <1>2. n # 0
    OBVIOUS
  <1>3. n - 1 \in Nat /\ (n - 1) + 1 = n
    BY <1>2
  <1>4. n - 1 \in S
    BY <1>1, <1>3
  <1> QED BY <1>3, <1>4

\* The data of a definition by recursion on D, with values in V: either a base,
\* or a step from the value at a smaller argument.
Recursive(D, V, m, stop, prev, base, step) ==
    /\ m \in [D -> Nat] /\ stop \in SUBSET D /\ prev \in [D -> D]
    /\ base \in [D -> V] /\ step \in [D \X V -> V]
    /\ \A x \in D \ stop : m[prev[x]] < m[x]

\* It defines a function.
LEMMA Recursion ==
    ASSUME NEW D, NEW V, NEW m, NEW stop, NEW prev, NEW base, NEW step,
           Recursive(D, V, m, stop, prev, base, step)
    PROVE  \E h \in [D -> V] :
               \A x \in D : h[x] = IF x \in stop THEN base[x] ELSE step[<<x, h[prev[x]]>>]
  <1> USE DEF Recursive
  <1> DEFINE B(n) == {x \in D : m[x] < n}
             F(x, h) == IF x \in stop THEN base[x] ELSE step[<<x, h[prev[x]]>>]
             G(n) == {h \in [D -> V] : \A x \in B(n) : h[x] = F(x, h)}
             S == {n \in Nat : G(n) # {} /\ \A g, h \in G(n) : \A x \in B(n) : g[x] = h[x]}
  <1>0. \A x \in D : m[x] \in Nat
    OBVIOUS
  <1>1. 0 \in S
    <2>1. B(0) = {}
      BY <1>0
    <2>2. base \in G(0)
      BY <2>1
    <2> QED BY <2>1, <2>2
  <1>2. ASSUME NEW n \in Nat, n \in S PROVE n + 1 \in S
    <2>1. PICK h \in [D -> V] : \A x \in B(n) : h[x] = F(x, h)
      BY <1>2
    <2>2. \A x \in D : x \in B(n + 1) /\ x \notin stop => prev[x] \in B(n)
      BY <1>0
    <2>3. B(n) \subseteq B(n + 1)
      BY <1>0
    <2> DEFINE k == [x \in D |-> IF x \in B(n + 1) THEN F(x, h) ELSE h[x]]
    <2>4. \A x \in D : F(x, h) \in V
      OBVIOUS
    <2>5. k \in [D -> V]
      BY <2>4
    <2>6. \A x \in B(n) : k[x] = h[x]
      BY <2>1, <2>3
    <2>7. \A x \in B(n + 1) : k[x] = F(x, k)
      BY <2>2, <2>6
    <2>8. G(n + 1) # {}
      BY <2>5, <2>7
    <2>9. ASSUME NEW f \in G(n + 1), NEW g \in G(n + 1), NEW x \in B(n + 1) PROVE f[x] = g[x]
      <3>1. f \in G(n) /\ g \in G(n)
        BY <2>3
      <3>2. \A y \in B(n) : f[y] = g[y]
        BY <1>2, <3>1
      <3>3. F(x, f) = F(x, g)
        BY <2>2, <3>2
      <3> QED BY <3>3
    <2> QED BY <2>8, <2>9
  <1>3. Nat \subseteq S
    <2> HIDE DEF S
    <2> QED BY <1>1, <1>2, Induction
  <1> DEFINE pick(n) == CHOOSE h \in [D -> V] : h \in G(n)
             all == [x \in D |-> pick(m[x] + 1)[x]]
  <1>4. \A n \in Nat : pick(n) \in G(n)
    BY <1>3
  <1> HIDE DEF pick
  <1>5. ASSUME NEW n \in Nat, NEW x \in B(n) PROVE all[x] = pick(n)[x]
    <2>1. m[x] + 1 \in Nat /\ x \in B(m[x] + 1) /\ m[x] + 1 <= n
      BY <1>0
    <2>2. B(m[x] + 1) \subseteq B(n)
      BY <2>1, <1>0
    <2>3. pick(n) \in G(m[x] + 1)
      BY <2>2, <1>4
    <2>4. pick(m[x] + 1)[x] = pick(n)[x]
      <3>1. m[x] + 1 \in S
        BY <2>1, <1>3
      <3>2. \A g, h \in G(m[x] + 1) : \A y \in B(m[x] + 1) : g[y] = h[y]
        BY <3>1
      <3>3. pick(m[x] + 1) \in G(m[x] + 1)
        BY <2>1, <1>4
      <3> HIDE DEF G, B
      <3> QED BY <2>1, <2>3, <3>2, <3>3
    <2> QED BY <2>4
  <1>6. all \in [D -> V]
    BY <1>0, <1>4
  <1>7. ASSUME NEW x \in D PROVE all[x] = F(x, all)
    <2>1. m[x] + 1 \in Nat /\ x \in B(m[x] + 1)
      BY <1>0
    <2>2. all[x] = pick(m[x] + 1)[x] /\ pick(m[x] + 1)[x] = F(x, pick(m[x] + 1))
      BY <2>1, <1>4
    <2>3. x \notin stop => prev[x] \in B(m[x] + 1)
      BY <1>0
    <2>4. x \notin stop => all[prev[x]] = pick(m[x] + 1)[prev[x]]
      BY <2>1, <2>3, <1>5
    <2> HIDE DEF all
    <2> QED BY <2>2, <2>4
  <1> HIDE DEF all
  <1> QED BY <1>6, <1>7

\* The greatest of the first numbers.
LEMMA MaxOfFirst ==
    ASSUME NEW k \in Nat \ {0}
    PROVE  Max(1..k) = k /\ (1..k) \ {Max(1..k)} = 1..(k - 1)
  <1>1. k \in 1..k /\ \A y \in 1..k : k >= y
    OBVIOUS
  <1>2. \A x \in 1..k : (\A y \in 1..k : x >= y) => x = k
    BY <1>1
  <1>3. Max(1..k) = k
    BY <1>1, <1>2 DEF Max
  <1> QED BY <1>3

\* Some of the first numbers have a greatest.
LEMMA MaxOfSome ==
    ASSUME NEW n \in Nat, NEW t \in SUBSET (1..n), t # {}
    PROVE  Max(t) \in t
  <1> DEFINE T == {i \in Nat : \E x \in t : i = n - x}
  <1>1. PICK z \in t : TRUE
    OBVIOUS
  <1>2. n - z \in T
    OBVIOUS
  <1>3. PICK a \in T : \A b \in T : a <= b
    BY <1>2, LeastNumber
  <1>4. PICK x \in t : a = n - x
    OBVIOUS
  <1>5. \A y \in t : n - y \in T /\ y \in 1..n
    OBVIOUS
  <1> HIDE DEF T
  <1>6. ASSUME NEW y \in t PROVE x >= y
    <2>1. a <= n - y /\ y \in Int /\ x \in Int
      BY <1>3, <1>5
    <2> QED BY <1>4, <2>1
  <1> QED BY <1>6 DEF Max

\* The data of a fold with values in V over the places of n members.
Foldable(n, V, base, step) == n \in Nat /\ base \in V /\ step \in [V \X (1..n) -> V]

\* The table that it fills, for every set of the places.
Folds(h, n, V, base, step) ==
    /\ h \in [SUBSET (1..n) -> V]
    /\ \A t \in SUBSET (1..n) :
          h[t] = IF t = {} THEN base ELSE step[<<h[t \ {Max(t)}], Max(t)>>]

\* There is such a table.
LEMMA Folding ==
    ASSUME NEW n, NEW V, NEW base, NEW step, Foldable(n, V, base, step)
    PROVE  \E h : Folds(h, n, V, base, step)
  <1> USE DEF Foldable, Folds
  <1> DEFINE D == SUBSET (1..n)
             m == [t \in D |-> Cardinality(t)]
             prev == [t \in D |-> IF t = {} THEN {} ELSE t \ {Max(t)}]
             stop == {{}}
             down == [x \in D \X V |-> IF x[1] = {} THEN base ELSE step[<<x[2], Max(x[1])>>]]
  <1>1. ASSUME NEW t \in D PROVE IsFiniteSet(t) /\ Cardinality(t) \in Nat
    <2>1. IsFiniteSet(1..n)
      BY FS_Interval
    <2> QED BY <2>1, FS_Subset, FS_CardinalityType
  <1>2. ASSUME NEW t \in D, t # {} PROVE Max(t) \in t
    BY <1>2, MaxOfSome
  <1>3. m \in [D -> Nat] /\ prev \in [D -> D] /\ stop \in SUBSET D
    BY <1>1
  <1>4. ASSUME NEW t \in D \ stop PROVE m[prev[t]] < m[t]
    <2>1. Cardinality(t \ {Max(t)}) = Cardinality(t) - 1
      BY <1>1, <1>2, FS_RemoveElement
    <2>2. prev[t] = t \ {Max(t)} /\ prev[t] \in D
      OBVIOUS
    <2>3. m[prev[t]] = Cardinality(t) - 1 /\ m[t] = Cardinality(t)
      BY <2>1, <2>2
    <2> QED BY <1>1, <2>3
  <1>5. down \in [D \X V -> V]
    <2> SUFFICES ASSUME NEW t \in D, NEW v \in V, t # {} PROVE step[<<v, Max(t)>>] \in V
      OBVIOUS
    <2>1. Max(t) \in 1..n
      BY <1>2
    <2> HIDE DEF D
    <2> QED BY <2>1
  <1>6. [t \in D |-> base] \in [D -> V]
    OBVIOUS
  <1> DEFINE first == [t \in D |-> base]
  <1>7. first \in [D -> V]
    BY <1>6
  <1> HIDE DEF D, m, prev, down, first, stop
  <1>8. PICK h \in [D -> V] :
           \A t \in D : h[t] = IF t \in stop THEN first[t] ELSE down[<<t, h[prev[t]]>>]
    <2>1. Recursive(D, V, m, stop, prev, first, down)
      BY <1>3, <1>4, <1>5, <1>7 DEF Recursive
    <2> QED BY <2>1, Recursion
  <1>9. \A t \in D : h[t] = IF t = {} THEN base ELSE step[<<h[t \ {Max(t)}], Max(t)>>]
    <2> TAKE t \in D
    <2>1. CASE t = {}
      BY <2>1, <1>8 DEF first, stop
    <2>2. CASE t # {}
      <3>1. prev[t] = t \ {Max(t)} /\ prev[t] \in D
        BY <2>2, <1>3 DEF prev
      <3>2. h[t] = down[<<t, h[prev[t]]>>] /\ h[prev[t]] \in V
        BY <2>2, <1>8, <3>1 DEF stop
      <3> QED BY <2>2, <3>1, <3>2 DEF down
    <2> QED BY <2>1, <2>2
  <1> QED BY <1>9 DEF D

-----------------------------------------------------------------------------

\* Two sequences joined have the members of both.
LEMMA Joined ==
    ASSUME NEW V, NEW s \in Seq(V), NEW t \in Seq(V)
    PROVE  s \o t \in Seq(V) /\ ToSet(s \o t) = ToSet(s) \cup ToSet(t)
  <1>1. /\ s \o t \in Seq(V) /\ DOMAIN (s \o t) = 1..(Len(s) + Len(t))
        /\ \A i \in 1..(Len(s) + Len(t)) :
              (s \o t)[i] = IF i <= Len(s) THEN s[i] ELSE t[i - Len(s)]
    OBVIOUS
  <1>2. Len(s) \in Nat /\ DOMAIN s = 1..Len(s) /\ Len(t) \in Nat /\ DOMAIN t = 1..Len(t)
    OBVIOUS
  <1>3. ASSUME NEW i \in 1..(Len(s) + Len(t)) PROVE (s \o t)[i] \in ToSet(s) \cup ToSet(t)
    <2>1. CASE i <= Len(s)
      BY <2>1, <1>1, <1>2 DEF ToSet
    <2>2. CASE ~ i <= Len(s)
      <3>1. i - Len(s) \in 1..Len(t)
        BY <2>2, <1>2
      <3> QED BY <2>2, <3>1, <1>1, <1>2 DEF ToSet
    <2> QED BY <2>1, <2>2
  <1>4. ASSUME NEW i \in 1..Len(s) PROVE s[i] \in ToSet(s \o t)
    <2>1. i \in 1..(Len(s) + Len(t)) /\ i <= Len(s)
      BY <1>2
    <2>2. (s \o t)[i] = s[i]
      BY <2>1, <1>1
    <2> QED BY <2>1, <2>2, <1>1 DEF ToSet
  <1>5. ASSUME NEW i \in 1..Len(t) PROVE t[i] \in ToSet(s \o t)
    <2>1. i + Len(s) \in 1..(Len(s) + Len(t)) /\ ~ i + Len(s) <= Len(s)
          /\ (i + Len(s)) - Len(s) = i
      BY <1>2
    <2>2. (s \o t)[i + Len(s)] = t[i]
      BY <2>1, <1>1
    <2> QED BY <2>1, <2>2, <1>1 DEF ToSet
  <1> QED BY <1>1, <1>2, <1>3, <1>4, <1>5 DEF ToSet

\* Flattening keeps the members of the members.
LEMMA Flattening ==
    ASSUME NEW V, NEW s \in Seq(Seq(V))
    PROVE  /\ FlattenSeq(s) \in Seq(V)
           /\ ToSet(FlattenSeq(s)) = UNION {ToSet(s[i]) : i \in DOMAIN s}
  <1> DEFINE n == Len(s)
             W == Seq(V)
             D == 1..n
             Fills(f) == f = [i \in D |-> IF i = 1 THEN s[i] ELSE f[i - 1] \o s[i]]
             flatten == CHOOSE f : Fills(f)
  <1>0. n \in Nat /\ DOMAIN s = D /\ s \in [D -> W]
    OBVIOUS
  <1>1. CASE n = 0
    BY <1>0, <1>1 DEF FlattenSeq, ToSet
  <1>2. CASE n # 0
    <2>1. \E f \in [D -> W] : Fills(f)
      <3> DEFINE m == [i \in D |-> i]
                 stop == {1}
                 prev == [i \in D |-> IF i = 1 THEN 1 ELSE i - 1]
                 step == [x \in D \X W |-> x[2] \o s[x[1]]]
      <3>1. Recursive(D, W, m, stop, prev, s, step)
        BY <1>0, <1>2 DEF Recursive
      <3>2. \A i \in D \ {1} : prev[i] = i - 1 /\ prev[i] \in D
        OBVIOUS
      <3> HIDE DEF D, W, m, prev, stop, step
      <3>3. PICK h \in [D -> W] :
               \A i \in D : h[i] = IF i \in stop THEN s[i] ELSE step[<<i, h[prev[i]]>>]
        BY <3>1, Recursion
      <3>4. \A i \in D : h[i] = IF i = 1 THEN s[i] ELSE h[i - 1] \o s[i]
        BY <3>2, <3>3 DEF stop, step
      <3> QED BY <3>4
    <2>2. Fills(flatten)
      BY <2>1
    <2> HIDE DEF flatten
    <2>3. FlattenSeq(s) = flatten[n]
      BY <1>2 DEF FlattenSeq, flatten
    <2>4. \A i \in D : flatten[i] = IF i = 1 THEN s[i] ELSE flatten[i - 1] \o s[i]
      BY <2>2
    <2> DEFINE S == {k \in Nat : k \in D =>
                        /\ flatten[k] \in W
                        /\ \A v : v \in ToSet(flatten[k]) <=> \E i \in 1..k : v \in ToSet(s[i])}
    <2>5. 0 \in S
      BY <1>0
    <2>6. ASSUME NEW k \in Nat, k \in S PROVE k + 1 \in S
      <3> SUFFICES ASSUME k + 1 \in D
                   PROVE  /\ flatten[k + 1] \in W
                          /\ \A v : v \in ToSet(flatten[k + 1])
                                 <=> \E i \in 1..(k + 1) : v \in ToSet(s[i])
        OBVIOUS
      <3>1. s[k + 1] \in W /\ \A i : i \in 1..(k + 1) <=> i \in 1..k \/ i = k + 1
        BY <1>0
      <3>2. CASE k = 0
        BY <2>4, <3>1, <3>2
      <3>3. CASE k # 0
        <4>1. k \in D /\ k + 1 # 1 /\ (k + 1) - 1 = k
          BY <1>0, <3>3
        <4>2. flatten[k + 1] = flatten[k] \o s[k + 1]
          BY <2>4, <4>1
        <4>3. /\ flatten[k] \in W
              /\ \A v : v \in ToSet(flatten[k]) <=> \E i \in 1..k : v \in ToSet(s[i])
          BY <2>6, <4>1
        <4>4. /\ flatten[k] \o s[k + 1] \in W
              /\ ToSet(flatten[k] \o s[k + 1]) = ToSet(flatten[k]) \cup ToSet(s[k + 1])
          BY <3>1, <4>3, Joined
        <4> HIDE DEF S, W, D
        <4> QED BY <3>1, <4>2, <4>3, <4>4
      <3> QED BY <3>2, <3>3
    <2>7. n \in S
      <3> HIDE DEF S
      <3> QED BY <1>0, <2>5, <2>6, Induction
    <2>8. /\ flatten[n] \in W
          /\ \A v : v \in ToSet(flatten[n]) <=> \E i \in 1..n : v \in ToSet(s[i])
      BY <1>0, <1>2, <2>7
    <2> HIDE DEF S
    <2> QED BY <1>0, <2>3, <2>8
  <1> QED BY <1>1, <1>2

-----------------------------------------------------------------------------

Matched == {r \in training : \E m \in matches : m.train = r.id}

\* The quarantine holds every match and only what reaches one; of its records
\* only those in the queue may have relatives outside.
Followed ==
    /\ matches = Scan(training, evaluation, policy)
    /\ queue \subseteq quarantined
    /\ quarantined \subseteq training
    /\ Matched \subseteq quarantined
    /\ quarantined \subseteq Reach(Matched, training, Linked)
    /\ \A r \in quarantined \ queue : \A s \in training : Linked(r, s) => s \in quarantined

\* What holds of the quarantine in each phase.
Quarantining ==
    /\ phase \in {"candidates", "assigned"} => quarantined = {}
    /\ phase \in {"quarantining", "kept"} => InputsHold /\ Followed

\* What holds of a manifest.
Frozen ==
    /\ phase # "frozen" => manifest = {}
    /\ phase = "frozen" => ManifestHolds(manifest)

IInv == Quarantining /\ Frozen /\ NothingDerivedFromQuarantined

-----------------------------------------------------------------------------

\* The quarantine begins with the records that match.
LEMMA ScanStarts == ASSUME IInv, ScanDirty PROVE Quarantining'
  <1> USE DEF ScanDirty
  <1>1. phase' = "quarantining" /\ InputsHold'
    BY DEF InputsHold, loaded
  <1>2. queue' = Matched' /\ quarantined' = Matched'
    BY DEF Matched
  <1>3. Matched' \subseteq training'
    BY DEF Matched
  <1>4. Matched' \subseteq Reach(Matched', training', Linked)
    BY <1>3 DEF Reach
  <1>5. matches' = Scan(training', evaluation', policy')
    BY DEF loaded
  <1>6. Followed'
    BY <1>2, <1>3, <1>4, <1>5 DEF Followed
  <1> QED BY <1>1, <1>6 DEF Quarantining

\* Following one record's families keeps the quarantine within reach of a match.
LEMMA FollowKeeps == ASSUME IInv, Follow PROVE Quarantining'
  <1> USE DEF Follow
  <1>1. phase = "quarantining" /\ InputsHold /\ Followed
    BY DEF IInv, Quarantining
  <1>2. PICK r \in queue :
           LET relatives == {s \in training : Linked(r, s)} \ quarantined IN
           /\ queue' = (queue \ {r}) \cup relatives
           /\ quarantined' = quarantined \cup relatives
    OBVIOUS
  <1> DEFINE relatives == {s \in training : Linked(r, s)} \ quarantined
  <1>3. queue' = (queue \ {r}) \cup relatives /\ quarantined' = quarantined \cup relatives
    BY <1>2
  <1>4. UNCHANGED <<phase, evaluation, ledger, policy, training, matches>>
    BY DEF loaded
  <1>5. r \in Reach(Matched, training, Linked)
    BY <1>1 DEF Followed
  <1>6. relatives \subseteq Reach(Matched, training, Linked)
    BY <1>5 DEF Reach
  <1>7. quarantined' \subseteq Reach(Matched', training', Linked)
    BY <1>1, <1>3, <1>4, <1>6 DEF Followed, Matched
  <1>8. ASSUME NEW t \in quarantined' \ queue', NEW s \in training, Linked(t, s)
        PROVE  s \in quarantined'
    <2>1. CASE t = r
      BY <2>1, <1>3, <1>8
    <2>2. CASE t # r
      <3>1. t \in quarantined \ queue
        BY <2>2, <1>3, <1>8
      <3> QED BY <3>1, <1>1, <1>3, <1>8 DEF Followed
    <2> QED BY <2>1, <2>2
  <1>9. Followed'
    <2>1. queue' \subseteq quarantined' /\ quarantined' \subseteq training'
      BY <1>1, <1>3, <1>4 DEF Followed
    <2>2. Matched' \subseteq quarantined'
      BY <1>1, <1>3, <1>4 DEF Followed, Matched
    <2>3. matches' = Scan(training', evaluation', policy')
      BY <1>1, <1>4 DEF Followed
    <2> QED BY <2>1, <2>2, <2>3, <1>4, <1>7, <1>8 DEF Followed
  <1> QED BY <1>1, <1>4, <1>9 DEF Quarantining, InputsHold

\* A parent of a record of a manifest is in no quarantine of its training side:
\* its id is in no ledger, and it belongs to one record only.
LEMMA KeptHasNoLostParents ==
    ASSUME InputsHold, Followed, ManifestHolds(Kept \cup evaluation),
           NEW r \in Kept \cup evaluation, NEW p \in r.parents, NEW q \in quarantined
    PROVE  p.id # q.id
  <1> SUFFICES ASSUME p.id = q.id PROVE FALSE
    OBVIOUS
  <1>1. q \in training
    BY DEF Followed
  <1>2. LineageHolds(training, ledger) /\ UniqueIds(training)
    BY DEF InputsHold, RecordSetHolds
  <1>3. \A t \in training : t.split \in TRAINING_SPLITS
    BY DEF InputsHold, ScanHolds
  <1>4. \A e \in evaluation : e.split = "evaluation"
    BY DEF InputsHold, ScanHolds
  <1>5. \A s, t \in training \cup evaluation : s.id = t.id => s = t
    BY DEF InputsHold, ScanHolds
  <1>6. LineageHolds(Kept \cup evaluation, ledger)
    BY DEF ManifestHolds, RecordSetHolds
  <1> DEFINE entry == [id |-> p.id, split |-> r.split, digest |-> p.digest]
  <1>7. entry \in ledger \cup {Entry(s) : s \in Kept \cup evaluation}
    BY <1>6 DEF LineageHolds
  <1>8. CASE entry \in ledger
    BY <1>1, <1>2, <1>8 DEF LineageHolds
  <1>9. CASE entry \in {Entry(s) : s \in Kept \cup evaluation}
    <2>1. PICK s \in Kept \cup evaluation : entry = Entry(s)
      BY <1>9
    <2>2. s.id = q.id
      BY <2>1 DEF Entry
    <2>3. s = q
      BY <1>1, <1>5, <2>2 DEF Kept
    <2>4. s \in evaluation
      BY <2>3 DEF Kept
    <2> QED BY <1>1, <1>3, <1>4, <2>3, <2>4 DEF TRAINING_SPLITS
  <1> QED BY <1>7, <1>8, <1>9

\* The audit's own manifest descends from nothing in quarantine.
LEMMA FreezeKeptKeeps == ASSUME IInv, FreezeKept PROVE IInv'
  <1> USE DEF FreezeKept, Freeze
  <1>1. InputsHold /\ Followed
    BY DEF IInv, Quarantining
  <1>2. manifest' = Kept \cup evaluation /\ ManifestHolds(Kept \cup evaluation)
    OBVIOUS
  <1>3. phase' = "frozen" /\ UNCHANGED <<loaded, quarantined>>
    BY DEF scanned
  <1>4. NothingDerivedFromQuarantined'
    BY <1>1, <1>2, <1>3, KeptHasNoLostParents DEF NothingDerivedFromQuarantined
  <1>5. ManifestHolds(manifest)'
    BY <1>2, <1>3 DEF ManifestHolds, loaded
  <1> QED BY <1>3, <1>4, <1>5 DEF IInv, Quarantining, Frozen

\* A caller's manifest passed the same checks.
LEMMA FreezeDirectlyKeeps == ASSUME IInv, FreezeDirectly PROVE IInv'
  <1> USE DEF FreezeDirectly, Freeze
  <1>1. phase' = "frozen" /\ UNCHANGED <<loaded, quarantined>>
    BY DEF scanned
  <1>2. quarantined' = {}
    BY <1>1 DEF IInv, Quarantining
  <1>3. ManifestHolds(manifest)'
    BY <1>1 DEF ManifestHolds, loaded
  <1> QED BY <1>1, <1>2, <1>3 DEF IInv, Quarantining, Frozen, NothingDerivedFromQuarantined

\* The invariant: what the quarantine and the manifest hold in each phase.
THEOREM TrustInvariant == Spec => []IInv
  <1>1. Init => IInv
    BY DEF Init, IInv, Quarantining, Frozen, NothingDerivedFromQuarantined
  <1>2. IInv /\ [Next]_vars => IInv'
    <2> SUFFICES ASSUME IInv, [Next]_vars PROVE IInv'
      OBVIOUS
    <2> USE DEF IInv, Frozen, NothingDerivedFromQuarantined
    <2>1. CASE Assign \/ RefuseCandidates
      BY <2>1 DEF Assign, RefuseCandidates, Refuse, scanned, Quarantining
    <2>2. CASE Derive
      BY <2>2 DEF Derive, scanned, Quarantining
    <2>3. CASE ScanDirty
      <3>1. Quarantining'
        BY <2>3, ScanStarts
      <3> QED BY <2>3, <3>1 DEF ScanDirty
    <2>4. CASE RefuseInputs \/ RefuseKept \/ RefuseManifest
      BY <2>4 DEF RefuseInputs, RefuseKept, RefuseManifest, Refuse, Quarantining
    <2>5. CASE Follow
      <3>1. Quarantining'
        BY <2>5, FollowKeeps
      <3> QED BY <2>5, <3>1 DEF Follow
    <2>6. CASE Keep
      <3>1. InputsHold' /\ Followed'
        BY <2>6 DEF Keep, Quarantining, loaded, scanned, InputsHold, Followed, Matched
      <3> QED BY <2>6, <3>1 DEF Keep, Quarantining
    <2>7. CASE UNCHANGED vars
      <3>1. InputsHold <=> InputsHold'
        BY <2>7 DEF vars, loaded, InputsHold
      <3>2. Followed <=> Followed'
        BY <2>7 DEF vars, loaded, scanned, Followed, Matched
      <3>3. ManifestHolds(manifest) <=> ManifestHolds(manifest)'
        BY <2>7 DEF vars, loaded, ManifestHolds
      <3> QED BY <2>7, <3>1, <3>2, <3>3 DEF vars, Quarantining
    <2> QED BY <2>1, <2>2, <2>3, <2>4, <2>5, <2>6, <2>7,
               FreezeKeptKeeps, FreezeDirectlyKeeps DEF Next
  <1> QED BY <1>1, <1>2, PTL DEF Spec

-----------------------------------------------------------------------------

\* Once the queue is empty, the quarantine is the matched records and all that
\* shared families connect with them, and the rest matches nothing.
THEOREM QuarantinesAreWhole == Spec => []QuarantineIsWhole
  <1>1. IInv => QuarantineIsWhole
    <2> SUFFICES ASSUME Followed, queue = {}
                 PROVE  /\ quarantined = Reach(Matched, training, Linked)
                        /\ Scan(Kept, evaluation, policy) = {}
      BY DEF IInv, Quarantining, QuarantineIsWhole, Matched
    <2>1. Reach(Matched, training, Linked) \subseteq quarantined
      <3>1. \A x \in quarantined, y \in training : Linked(x, y) => y \in quarantined
        BY DEF Followed
      <3>2. Matched \subseteq quarantined /\ quarantined \in SUBSET training
        BY DEF Followed
      <3> QED BY <3>1, <3>2 DEF Reach
    <2>2. ASSUME NEW t \in Kept, NEW e \in evaluation, Kinds(t, e, policy) # {} PROVE FALSE
      <3>1. t \in training
        BY DEF Kept
      <3>2. PICK q \in {q \in training \X evaluation : Kinds(q[1], q[2], policy) # {}} :
                 q[1] = t
        <4>1. <<t, e>> \in {q \in training \X evaluation : Kinds(q[1], q[2], policy) # {}}
          BY <2>2, <3>1
        <4> QED BY <4>1
      <3> DEFINE match == [train |-> q[1].id, eval |-> q[2].id,
                           kind |-> Best(Kinds(q[1], q[2], policy))]
      <3>3. match \in matches
        BY <3>2 DEF Followed, Scan
      <3>4. match.train = t.id
        BY <3>2
      <3>5. t \in Matched
        BY <3>1, <3>3, <3>4 DEF Matched
      <3> QED BY <3>5 DEF Followed, Kept
    <2>3. Scan(Kept, evaluation, policy) = {}
      BY <2>2 DEF Scan
    <2> QED BY <2>1, <2>3 DEF Followed
  <1> QED BY <1>1, TrustInvariant, PTL

\* Nothing in a manifest descends from what was quarantined.
THEOREM QuarantineHasNoHeirs == Spec => []NothingDerivedFromQuarantined
  <1>1. IInv => NothingDerivedFromQuarantined
    BY DEF IInv
  <1> QED BY <1>1, TrustInvariant, PTL

\* Kin of any degree are in one split of a manifest, whoever built it.
THEOREM ManifestsKeepKin == Spec => []KinStayTogether
  <1>1. IInv => KinStayTogether
    <2> SUFFICES ASSUME IInv, NEW r \in manifest, NEW s \in Reach({r}, manifest, Kin)
                 PROVE  s.split = r.split
      BY DEF KinStayTogether
    <2>1. ManifestHolds(manifest)
      BY DEF IInv, Frozen
    <2>2. LineageHolds(manifest, ledger) /\ UniqueIds(manifest) /\ FamilyDisjoint(manifest)
      BY <2>1 DEF ManifestHolds, RecordSetHolds
    <2>3. ASSUME NEW x \in manifest, NEW y \in manifest, NEW p \in x.parents, p.id = y.id
          PROVE  y.split = x.split
      <3> DEFINE entry == [id |-> p.id, split |-> x.split, digest |-> p.digest]
      <3>1. entry \in ledger \cup {Entry(z) : z \in manifest}
        BY <2>2 DEF LineageHolds
      <3>2. entry \notin ledger
        BY <2>2, <2>3 DEF LineageHolds
      <3>3. PICK z \in manifest : entry = Entry(z)
        BY <3>1, <3>2
      <3>4. z.id = y.id /\ z.split = x.split
        BY <3>3, <2>3 DEF Entry
      <3> QED BY <3>4, <2>2 DEF UniqueIds
    <2>4. ASSUME NEW x \in manifest, NEW y \in manifest, Kin(x, y) PROVE x.split = y.split
      BY <2>2, <2>3, <2>4 DEF Kin, FamilyDisjoint
    <2> DEFINE C == {x \in manifest : x.split = r.split}
    <2>5. Reach({r}, manifest, Kin) \subseteq C
      <3>1. C \in SUBSET manifest /\ {r} \subseteq C
        OBVIOUS
      <3>2. \A x \in C, y \in manifest : Kin(x, y) => y \in C
        BY <2>4
      <3> QED BY <3>1, <3>2 DEF Reach
    <2> QED BY <2>5
  <1> QED BY <1>1, TrustInvariant, PTL

-----------------------------------------------------------------------------

\* A text has finitely many n-grams, and at least one.
LEMMA NgramsAreSome ==
    ASSUME NEW L, NEW f \in Seq(L), NEW size \in Nat \ {0}
    PROVE  IsFiniteSet(Ngrams(f, size)) /\ Ngrams(f, size) # {}
  <1>1. CASE Len(f) < size
    BY <1>1, FS_Singleton DEF Ngrams
  <1>2. CASE ~ Len(f) < size
    <2> DEFINE I == 1..(Len(f) - size + 1)
               gram(i) == SubSeq(f, i, i + size - 1)
    <2>1. Ngrams(f, size) = {gram(i) : i \in I}
      BY <1>2 DEF Ngrams
    <2>2. 1 \in I
      BY <1>2
    <2>3. IsFiniteSet(I)
      BY FS_Interval
    <2>4. IsFiniteSet({gram(i) : i \in I})
      <3> DEFINE G == [i \in I |-> gram(i)]
      <3> HIDE DEF gram
      <3>1. G \in Surjection(I, {gram(i) : i \in I})
        BY Fun_IsSurj
      <3> QED BY <2>3, <3>1, FS_Surjection
    <2> QED BY <2>1, <2>2, <2>4
  <1> QED BY <1>1, <1>2

\* Scores of fragments with nothing in common are zero.
LEMMA NothingSharedScoresZero ==
    ASSUME NEW left, NEW right, IsFiniteSet(left), IsFiniteSet(right),
           left # {}, right # {}, left \cap right = {}
    PROVE  Jaccard(left, right) = 0 /\ Containment(left, right) = 0
  <1>1. Cardinality(left) \in Nat \ {0} /\ Cardinality(right) \in Nat \ {0}
    BY FS_CardinalityType, FS_EmptySet
  <1>2. Cardinality(left \cap right) = 0
    BY FS_EmptySet
  <1>3. ASSUME NEW b \in Nat \ {0} PROVE Round(0, b) = 0
    <2>1. 0 \div b = 0 /\ 0 % b = 0
      OBVIOUS
    <2> QED BY <2>1 DEF Round
  <1>4. (Cardinality(left) + Cardinality(right)) - 0 \in Nat \ {0}
    BY <1>1
  <1>5. Smaller(Cardinality(left), Cardinality(right)) \in Nat \ {0}
    BY <1>1 DEF Smaller
  <1>6. 0 * PPM = 0
    BY SMT DEF PPM
  <1> QED BY <1>2, <1>3, <1>4, <1>5, <1>6 DEF Jaccard, Containment

\* Whatever the policy, two texts that would be reported if they were compared
\* are compared: they have a hash or an n-gram in common.
THEOREM RetrievalIsComplete ==
    ASSUME NEW L, NEW f \in Seq(L), NEW g \in Seq(L), NEW p, PolicyHolds(p),
           Classify(f, g, p) # "none"
    PROVE  Retrieved(f, g, p)
  <1> SUFFICES ASSUME f # g PROVE Retrieved(f, g, p)
    BY SMT DEF Retrieved
  <1>1. Chars(f) \in Int /\ Chars(g) \in Int /\ p.fuzzy \in Nat
    BY SMT DEF Chars, PolicyHolds
  <1>2. ~ Smaller(Chars(f), Chars(g)) < p.fuzzy
    BY DEF Classify
  <1>3. Chars(f) >= p.fuzzy /\ Chars(g) >= p.fuzzy
    BY <1>1, <1>2 DEF Smaller
  <1>4. PICK margin \in {0, p.margin} : Reaches(f, g, p, margin)
    BY DEF Classify
  <1>5. p.jaccard - margin > 0 /\ p.containment - margin > 0
    BY SMT DEF PolicyHolds
  <1>6. PICK size \in {p.character, p.token} :
           \/ Jaccard(Ngrams(f, size), Ngrams(g, size)) >= p.jaccard - margin
           \/ Containment(Ngrams(f, size), Ngrams(g, size)) >= p.containment - margin
    BY <1>4 DEF Reaches
  <1>7. size \in Nat \ {0}
    <2>1. p.character \in 2..16 /\ p.token \in 1..8
      BY Zenon DEF PolicyHolds
    <2>2. \A n \in 2..16 : n \in Nat \ {0}
      OBVIOUS
    <2>3. \A n \in 1..8 : n \in Nat \ {0}
      OBVIOUS
    <2> HIDE DEF PolicyHolds
    <2>4. p.character \in Nat \ {0} /\ p.token \in Nat \ {0}
      BY Zenon, <2>1, <2>2, <2>3
    <2> QED BY Zenon, <1>6, <2>4
  <1>8. Share(f, g, size)
    <2> SUFFICES ASSUME Ngrams(f, size) \cap Ngrams(g, size) = {} PROVE FALSE
      BY DEF Share
    <2>1. /\ Jaccard(Ngrams(f, size), Ngrams(g, size)) = 0
          /\ Containment(Ngrams(f, size), Ngrams(g, size)) = 0
      BY <1>7, NgramsAreSome, NothingSharedScoresZero
    <2>2. p.jaccard - margin \in Int /\ p.containment - margin \in Int
      BY SMT DEF PolicyHolds
    <2> QED BY <1>5, <1>6, <2>1, <2>2
  <1> QED BY <1>3, <1>8 DEF Retrieved

-----------------------------------------------------------------------------

\* A member for each of a sequence's is a sequence.
LEMMA Mapped ==
    ASSUME NEW U, NEW V, NEW s \in Seq(U), NEW f \in [DOMAIN s -> V]
    PROVE  f \in Seq(V)
  <1>1. Len(s) \in Nat /\ DOMAIN s = 1..Len(s)
    OBVIOUS
  <1>2. f \in [1..Len(s) -> V]
    BY <1>1
  <1> QED BY <1>1, <1>2

Lexemes == {LexemeOf[x] : x \in DOMAIN LexemeOf}
Fielded == [field : {"problem"} \cup MESSAGES \cup SOLUTION, text : Seq(Lexemes)]

\* Normalizing a text gives a sequence of lexemes.
LEMMA NormalizedIsText ==
    ASSUME NEW text \in Seq(DOMAIN LexemeOf)
    PROVE  Normalized(text) \in Seq(Lexemes)
  <1> DEFINE s == [i \in DOMAIN text |-> LexemeOf[text[i]]]
             parts == [i \in DOMAIN s |-> IF s[i] # NoLexeme THEN <<s[i]>> ELSE <<>>]
  <1>1. s \in Seq(Lexemes)
    BY DEF Lexemes
  <1>2. \A i \in DOMAIN s : parts[i] \in Seq(Lexemes)
    BY <1>1
  <1>3. parts \in Seq(Seq(Lexemes))
    <2>1. parts \in [DOMAIN s -> Seq(Lexemes)]
      BY <1>2
    <2> QED BY <1>1, <2>1, Mapped
  <1>4. Normalized(text) = FlattenSeq(parts)
    BY DEF Normalized, Those
  <1> HIDE DEF parts, s
  <1> QED BY <1>3, <1>4, Flattening

\* The fields that a scan reads.
LEMMA FieldsAreFielded ==
    ASSUME NEW content, ContentHolds(content), NEW p
    PROVE  Fields(content, p) \in Seq(Fielded)
  <1> DEFINE s == [i \in DOMAIN content |->
                      [field |-> content[i].field, text |-> Normalized(content[i].text)]]
             parts == [i \in DOMAIN s |->
                          IF s[i].text # <<>> /\ ~ (s[i].field \in CONTEXT /\ s[i].text \in p.exempt)
                          THEN <<s[i]>> ELSE <<>>]
  <1>1. ASSUME NEW i \in DOMAIN content PROVE s[i] \in Fielded
    <2>1. /\ content[i].field \in {"problem"} \cup MESSAGES \cup SOLUTION
          /\ content[i].text \in Seq(DOMAIN LexemeOf)
      <3> DEFINE Said == [field : {"problem"} \cup MESSAGES \cup SOLUTION,
                          text : Seq(DOMAIN LexemeOf)]
      <3>1. content \in Seq(Said)
        BY DEF ContentHolds
      <3>2. content[i] \in Said
        <4> HIDE DEF Said, s
        <4> QED BY <3>1
      <3> QED BY <3>2
    <2>2. Normalized(content[i].text) \in Seq(Lexemes)
      BY <2>1, NormalizedIsText
    <2> QED BY <2>1, <2>2 DEF Fielded
  <1>2. s \in Seq(Fielded)
    BY <1>1 DEF ContentHolds
  <1> HIDE DEF s
  <1>3. \A i \in DOMAIN s : parts[i] \in Seq(Fielded)
    BY <1>2
  <1>4. parts \in Seq(Seq(Fielded))
    <2>1. parts \in [DOMAIN s -> Seq(Fielded)]
      BY <1>3
    <2> QED BY <1>2, <2>1, Mapped
  <1>5. Fields(content, p) = FlattenSeq(parts)
    BY DEF Fields, Those, s
  <1> HIDE DEF parts
  <1> QED BY <1>4, <1>5, Flattening

\* Fields of some kinds joined are a text.
LEMMA AggregateIsText ==
    ASSUME NEW fields \in Seq(Fielded), NEW kinds, NEW f \in Aggregate(fields, kinds)
    PROVE  f \in Seq(Lexemes)
  <1> DEFINE parts == [i \in DOMAIN fields |->
                          IF fields[i].field \in kinds THEN <<fields[i]>> ELSE <<>>]
             those == FlattenSeq(parts)
             texts == [i \in DOMAIN those |-> those[i].text]
  <1>1. \A i \in DOMAIN fields : parts[i] \in Seq(Fielded)
    OBVIOUS
  <1>2. parts \in Seq(Seq(Fielded))
    <2>1. parts \in [DOMAIN fields -> Seq(Fielded)]
      BY <1>1
    <2> QED BY <2>1, Mapped
  <1> HIDE DEF parts
  <1>3. those \in Seq(Fielded)
    BY <1>2, Flattening
  <1>4. f = FlattenSeq(texts)
    BY DEF Aggregate, Those, parts
  <1> HIDE DEF those
  <1>5. texts \in Seq(Seq(Lexemes))
    <2>1. \A i \in DOMAIN those : those[i] \in Fielded
      BY <1>3
    <2>2. texts \in [DOMAIN those -> Seq(Lexemes)]
      BY <2>1 DEF Fielded
    <2> QED BY <1>3, <2>2, Mapped
  <1> HIDE DEF texts
  <1> QED BY <1>4, <1>5, Flattening

\* What a record is compared by.
LEMMA FragmentsAreTexts ==
    ASSUME NEW content, ContentHolds(content), NEW p, NEW f \in Fragments(content, p)
    PROVE  f \in Seq(Lexemes)
  <1>1. Fields(content, p) \in Seq(Fielded)
    BY FieldsAreFielded
  <1>2. ASSUME NEW fields \in Seq(Fielded), NEW i \in DOMAIN fields
        PROVE  fields[i].text \in Seq(Lexemes)
    <2>1. fields[i] \in Fielded
      OBVIOUS
    <2> QED BY <2>1 DEF Fielded
  <1> QED BY <1>1, <1>2, AggregateIsText DEF Fragments

\* A pair of records is reported when some of their texts match.
LEMMA KindsAreWhole ==
    ASSUME NEW t, NEW e, NEW p, RecordHolds(t), RecordHolds(e), PolicyHolds(p)
    PROVE  Kinds(t, e, p) # {} <=>
             \E f \in Fragments(t.content, p), g \in Fragments(e.content, p) :
                 Classify(f, g, p) # "none"
  <1> DEFINE pairs == {q \in Fragments(t.content, p) \X Fragments(e.content, p) :
                         Retrieved(q[1], q[2], p)}
  <1>1. Kinds(t, e, p) = {Classify(q[1], q[2], p) : q \in pairs} \ {"none"}
    BY DEF Kinds
  <1>2. ASSUME NEW f \in Fragments(t.content, p), NEW g \in Fragments(e.content, p),
               Classify(f, g, p) # "none"
        PROVE  Kinds(t, e, p) # {}
    <2>1. f \in Seq(Lexemes) /\ g \in Seq(Lexemes)
      BY FragmentsAreTexts DEF RecordHolds
    <2>2. Retrieved(f, g, p)
      BY <2>1, <1>2, RetrievalIsComplete
    <2>3. <<f, g>> \in pairs
      BY <2>2
    <2>4. Classify(f, g, p) \in Kinds(t, e, p)
      BY <1>1, <1>2, <2>3
    <2> QED BY <2>4
  <1>3. ASSUME NEW k \in Kinds(t, e, p)
        PROVE  \E f \in Fragments(t.content, p), g \in Fragments(e.content, p) :
                 Classify(f, g, p) # "none"
    <2>1. PICK q \in pairs : k = Classify(q[1], q[2], p)
      BY <1>1
    <2>2. k # "none"
      BY <1>1
    <2>3. q[1] \in Fragments(t.content, p) /\ q[2] \in Fragments(e.content, p)
      OBVIOUS
    <2> QED BY <2>1, <2>2, <2>3
  <1> QED BY <1>2, <1>3

-----------------------------------------------------------------------------

\* What is loaded and what is made of it are records.
WellFormed ==
    /\ PolicyHolds(policy)
    /\ evaluation \in Evaluations
    /\ phase = "candidates" => training \in Candidates
    /\ \A r \in training \cup manifest : RecordHolds(r)

\* A split assigned to a record leaves it a record.
LEMMA SplitKeepsRecord ==
    ASSUME NEW r, RecordHolds(r), NEW split
    PROVE  RecordHolds([r EXCEPT !.split = split])
  <1> DEFINE q == [r EXCEPT !.split = split]
  <1>1. DOMAIN q = DOMAIN r /\ \A k \in DOMAIN r : k # "split" => q[k] = r[k]
    OBVIOUS
  <1>2. q.id = r.id /\ q.families = r.families /\ q.content = r.content
    BY <1>1 DEF RecordHolds
  <1> HIDE DEF q
  <1>3. RecordHolds(q)
    BY <1>1, <1>2 DEF RecordHolds
  <1> QED BY <1>3 DEF q

\* Every step keeps them so.
THEOREM RecordsStayWellFormed == Spec => []WellFormed
  <1>1. Init => WellFormed
    BY InputsAssumption DEF Init, WellFormed
  <1>2. WellFormed /\ [Next]_vars => WellFormed'
    <2> SUFFICES ASSUME WellFormed, [Next]_vars PROVE WellFormed'
      OBVIOUS
    <2>0. \A r \in evaluation : RecordHolds(r)
      BY InputsAssumption DEF WellFormed
    <2> USE DEF loaded
    <2>1. CASE Assign
      <3>1. \A r \in training' : RecordHolds(r)
        <4> SUFFICES ASSUME NEW q \in training' PROVE RecordHolds(q)
          OBVIOUS
        <4>1. PICK bucket \in [components' -> Allocated] : training' = Assigned(components', bucket)
          BY <2>1 DEF Assign
        <4>2. components' = Components(training)
          BY <2>1 DEF Assign
        <4>3. PICK c \in components' : \E r \in c : q = [r EXCEPT !.split = bucket[c]]
          BY <4>1 DEF Assigned
        <4>4. PICK r \in c : q = [r EXCEPT !.split = bucket[c]]
          BY <4>3
        <4>5. r \in training
          BY <4>2 DEF Components
        <4> QED BY <4>4, <4>5, SplitKeepsRecord DEF WellFormed
      <3> QED BY <2>1, <3>1 DEF Assign, WellFormed
    <2>2. CASE Derive
      BY <2>2 DEF Derive, WellFormed
    <2>3. CASE ScanDirty \/ Follow \/ Keep
      BY <2>3 DEF ScanDirty, Follow, Keep, WellFormed, scanned
    <2>4. CASE RefuseCandidates \/ RefuseInputs \/ RefuseKept \/ RefuseManifest
      BY <2>4 DEF RefuseCandidates, RefuseInputs, RefuseKept, RefuseManifest, Refuse, WellFormed
    <2>5. CASE FreezeKept \/ FreezeDirectly
      BY <2>0, <2>5 DEF FreezeKept, FreezeDirectly, Freeze, Kept, WellFormed
    <2>6. CASE UNCHANGED vars
      BY <2>6 DEF vars, WellFormed
    <2> QED BY <2>1, <2>2, <2>3, <2>4, <2>5, <2>6 DEF Next
  <1> QED BY <1>1, <1>2, PTL DEF Spec

\* The report has exactly the pairs of records with matching texts: the
\* indices lose none, whatever the records and the policy.
THEOREM ScansAreComplete == Spec => []ScanIsComplete
  <1>1. IInv /\ WellFormed => ScanIsComplete
    <2> SUFFICES ASSUME InputsHold, Followed, WellFormed, NEW t \in training, NEW e \in evaluation
                 PROVE  (\E m \in matches : m.train = t.id /\ m.eval = e.id)
                          <=> \E f \in Fragments(t.content, policy),
                                 g \in Fragments(e.content, policy) :
                                 Classify(f, g, policy) # "none"
      BY DEF IInv, Quarantining, ScanIsComplete
    <2>1. RecordHolds(t) /\ RecordHolds(e) /\ PolicyHolds(policy)
      BY InputsAssumption DEF WellFormed
    <2> DEFINE pairs == {q \in training \X evaluation : Kinds(q[1], q[2], policy) # {}}
               match(q) == [train |-> q[1].id, eval |-> q[2].id,
                            kind |-> Best(Kinds(q[1], q[2], policy))]
    <2>2. matches = {match(q) : q \in pairs}
      BY DEF Followed, Scan
    <2>3. ASSUME Kinds(t, e, policy) # {}
          PROVE  \E m \in matches : m.train = t.id /\ m.eval = e.id
      <3>1. <<t, e>> \in pairs
        BY <2>3
      <3>2. PICK q \in pairs : q[1] = t /\ q[2] = e
        BY <3>1
      <3>3. match(q) \in matches
        BY <2>2
      <3> QED BY <3>2, <3>3
    <2>4. ASSUME NEW m \in matches, m.train = t.id, m.eval = e.id
          PROVE  Kinds(t, e, policy) # {}
      <3>1. PICK q \in pairs : m = match(q)
        BY <2>2
      <3>2. q[1] \in training /\ q[2] \in evaluation /\ q[1].id = t.id /\ q[2].id = e.id
        BY <2>4, <3>1
      <3>3. q[1] = t /\ q[2] = e
        BY <3>2 DEF InputsHold, RecordSetHolds, UniqueIds
      <3>4. Kinds(q[1], q[2], policy) # {}
        OBVIOUS
      <3> QED BY <3>3, <3>4
    <2> HIDE DEF pairs, match
    <2> QED BY <2>1, <2>3, <2>4, KindsAreWhole
  <1> QED BY <1>1, TrustInvariant, RecordsStayWellFormed, PTL

\* In a manifest nothing connects two splits, neither families nor descent nor
\* texts, whoever built it.
THEOREM ManifestsAreSeparated == Spec => []ManifestIsSeparated
  <1>1. IInv /\ WellFormed => TextsStayApart
    <2> SUFFICES ASSUME ManifestHolds(manifest), WellFormed, NEW r \in manifest, NEW s \in manifest,
                        r.split # "evaluation", s.split = "evaluation",
                        NEW f \in Fragments(r.content, policy),
                        NEW g \in Fragments(s.content, policy),
                        Classify(f, g, policy) # "none"
                 PROVE  FALSE
      BY DEF IInv, Frozen, TextsStayApart
    <2> DEFINE sideOf(splits) == {x \in manifest : x.split \in splits}
               train == sideOf(TRAINING_SPLITS)
               eval == sideOf({"evaluation"})
    <2>1. r \in train /\ s \in eval
      BY DEF ManifestHolds
    <2>2. Scan(train, eval, policy) = {}
      BY DEF ManifestHolds
    <2>3. Kinds(r, s, policy) # {}
      BY KindsAreWhole DEF WellFormed
    <2> HIDE DEF train, eval
    <2>4. <<r, s>> \in {q \in train \X eval : Kinds(q[1], q[2], policy) # {}}
      BY <2>1, <2>3
    <2> QED BY <2>2, <2>4 DEF Scan
  <1> QED BY <1>1, TrustInvariant, RecordsStayWellFormed, ManifestsKeepKin, PTL
          DEF ManifestIsSeparated

-----------------------------------------------------------------------------

\* Forests in which nothing hangs below a larger id.
Hung(Ids) == {p \in [Ids -> Ids] : \A x \in Ids : p[x] <= x}

\* A property of the roots that ids inherit from their parents is every id's.
LEMMA Descent ==
    ASSUME NEW Ids \in SUBSET Nat, NEW p \in Hung(Ids), NEW S,
           \A x \in Ids : p[x] = x \/ p[x] \in S => x \in S
    PROVE  \A x \in Ids : x \in S
  <1> SUFFICES ASSUME NEW z \in Ids \ S PROVE FALSE
    OBVIOUS
  <1>1. PICK x \in Ids \ S : \A y \in Ids \ S : x <= y
    BY LeastNumber
  <1>2. p[x] \in Ids /\ p[x] # x /\ p[x] \notin S /\ p[x] <= x
    BY DEF Hung
  <1>3. x <= p[x] /\ x \in Nat /\ p[x] \in Nat
    BY <1>1, <1>2
  <1> QED BY <1>2, <1>3

\* The root of an id is found by following parents, and is its own parent.
LEMMA RootFacts ==
    ASSUME NEW Ids \in SUBSET Nat, NEW p \in Hung(Ids)
    PROVE  \A x \in Ids : /\ Root(p, x) \in Ids
                          /\ Root(p, x) = IF p[x] = x THEN x ELSE Root(p, p[x])
                          /\ p[Root(p, x)] = Root(p, x)
  <1> DEFINE Climbs(u) == u = [x \in Ids |-> IF p[x] = x THEN x ELSE u[p[x]]]
             up == CHOOSE u : Climbs(u)
  <1>0. p \in [Ids -> Ids] /\ DOMAIN p = Ids
    BY DEF Hung
  <1>1. PICK u \in [Ids -> Ids] : Climbs(u)
    <2> DEFINE m == [x \in Ids |-> x]
               stop == {x \in Ids : p[x] = x}
               step == [q \in Ids \X Ids |-> q[2]]
    <2>1. \A x \in Ids \ stop : m[p[x]] < m[x]
      <3> TAKE x \in Ids \ stop
      <3>1. p[x] \in Nat /\ x \in Nat /\ p[x] \in Ids /\ p[x] <= x /\ p[x] # x
        BY <1>0 DEF Hung
      <3>2. p[x] < x
        BY <3>1
      <3> QED BY <3>1, <3>2
    <2>2. m \in [Ids -> Nat] /\ m \in [Ids -> Ids] /\ stop \in SUBSET Ids
          /\ step \in [Ids \X Ids -> Ids]
      OBVIOUS
    <2> HIDE DEF m, stop, step
    <2>3. Recursive(Ids, Ids, m, stop, p, m, step)
      BY <1>0, <2>1, <2>2 DEF Recursive
    <2>4. PICK u \in [Ids -> Ids] :
             \A x \in Ids : u[x] = IF x \in stop THEN m[x] ELSE step[<<x, u[p[x]]>>]
      BY <2>3, Recursion
    <2>5. \A x \in Ids : u[x] = IF p[x] = x THEN x ELSE u[p[x]]
      BY <1>0, <2>4 DEF m, stop, step
    <2> QED BY <2>5
  <1>2. Climbs(up)
    BY <1>1
  <1> HIDE DEF up
  <1>3. \A x \in Ids : Root(p, x) = up[x]
    BY <1>0 DEF Root, up
  <1>4. \A x \in Ids : up[x] = IF p[x] = x THEN x ELSE up[p[x]]
    BY <1>2
  <1> HIDE DEF Climbs
  <1> DEFINE S == {x \in Ids : up[x] \in Ids /\ p[up[x]] = up[x]}
  <1>5. \A x \in Ids : p[x] = x \/ p[x] \in S => x \in S
    BY <1>2, <1>4
  <1>6. \A x \in Ids : x \in S
    <2> HIDE DEF S
    <2> QED BY <1>5, Descent
  <1> TAKE x \in Ids
  <1>7. p[x] \in Ids /\ Root(p, x) = up[x] /\ Root(p, p[x]) = up[p[x]]
    BY <1>0, <1>3
  <1>8. up[x] \in Ids /\ p[up[x]] = up[x]
    BY <1>6
  <1> HIDE DEF S
  <1> QED BY <1>4, <1>7, <1>8

\* What find does to the parents on its way, hanging some ids directly below
\* their roots, changes no root.
THEOREM ShorteningKeepsRoots ==
    ASSUME NEW Ids \in SUBSET Nat, NEW p \in Hung(Ids), NEW S \in SUBSET Ids,
           NEW q, q = [x \in Ids |-> IF x \in S THEN Root(p, x) ELSE p[x]]
    PROVE  q \in Hung(Ids) /\ \A x \in Ids : Root(q, x) = Root(p, x)
  <1>0. \A x \in Ids : x \in Nat /\ p[x] \in Ids /\ p[x] <= x
    BY DEF Hung
  <1>1. \A x \in Ids : /\ Root(p, x) \in Ids
                       /\ Root(p, x) = IF p[x] = x THEN x ELSE Root(p, p[x])
                       /\ p[Root(p, x)] = Root(p, x)
    BY RootFacts
  <1> DEFINE Lower == {x \in Ids : Root(p, x) <= x}
             Kept1 == {x \in Ids : Root(q, x) = Root(p, x)}
  <1>2. \A x \in Ids : x \in Lower
    <2>1. ASSUME NEW x \in Ids, p[x] = x \/ p[x] \in Lower PROVE x \in Lower
      <3>1. x \in Nat /\ p[x] \in Nat /\ Root(p, x) \in Nat /\ Root(p, p[x]) \in Nat
        BY <1>0, <1>1
      <3> QED BY <1>0, <1>1, <2>1, <3>1
    <2> HIDE DEF Lower
    <2> QED BY <2>1, Descent
  <1>3. q \in Hung(Ids)
    BY <1>0, <1>1, <1>2 DEF Hung
  <1>4. \A x \in Ids : Root(q, x) = IF q[x] = x THEN x ELSE Root(q, q[x])
    BY <1>3, RootFacts
  <1>5. \A x \in Ids : q[x] = IF x \in S THEN Root(p, x) ELSE p[x]
    OBVIOUS
  <1>6. ASSUME NEW x \in Ids, p[x] = x PROVE Root(q, x) = x
    BY <1>1, <1>4, <1>5, <1>6
  <1>7. \A x \in Ids : x \in Kept1
    <2>1. ASSUME NEW x \in Ids, p[x] = x \/ p[x] \in Kept1 PROVE x \in Kept1
      <3>1. CASE p[x] = x
        BY <1>1, <1>6, <3>1
      <3>2. CASE p[x] # x /\ x \in S
        BY <1>1, <1>4, <1>5, <1>6, <3>2
      <3>3. CASE p[x] # x /\ x \notin S
        BY <1>0, <1>1, <1>4, <1>5, <2>1, <3>3
      <3> QED BY <3>1, <3>2, <3>3
    <2> HIDE DEF Kept1
    <2> QED BY <2>1, Descent
  <1> QED BY <1>3, <1>7

\* A union gives the ids of its two trees one root, and the others theirs.
LEMMA UnionFacts ==
    ASSUME NEW Ids \in SUBSET Nat, NEW p \in Hung(Ids), NEW l \in Ids, NEW r \in Ids
    PROVE  /\ Union(p, l, r) \in Hung(Ids)
           /\ \E low \in {Root(p, l), Root(p, r)} : \A x \in Ids :
                 Root(Union(p, l, r), x) =
                     IF Root(p, x) \in {Root(p, l), Root(p, r)} THEN low ELSE Root(p, x)
  <1> DEFINE a == Root(p, l)
             b == Root(p, r)
             high == IF a < b THEN b ELSE a
             low == IF a < b THEN a ELSE b
             q == [p EXCEPT ![high] = low]
  <1>0. p \in [Ids -> Ids] /\ \A x \in Ids : x \in Nat /\ p[x] \in Ids /\ p[x] <= x
    BY DEF Hung
  <1>1. \A x \in Ids : /\ Root(p, x) \in Ids
                       /\ Root(p, x) = IF p[x] = x THEN x ELSE Root(p, p[x])
                       /\ p[Root(p, x)] = Root(p, x)
    BY RootFacts
  <1>2. /\ low \in Ids /\ high \in Ids /\ low <= high
        /\ {a, b} = {low, high} /\ p[low] = low /\ p[high] = high
    <2>1. a \in Ids /\ b \in Ids /\ p[a] = a /\ p[b] = b
      BY <1>1
    <2>2. a \in Nat /\ b \in Nat
      BY <2>1
    <2> HIDE DEF a, b
    <2> QED BY <2>1, <2>2
  <1>3. Union(p, l, r) = q
    BY DEF Union
  <1> HIDE DEF high, low, a, b
  <1>4. q \in [Ids -> Ids] /\ \A x \in Ids : q[x] = IF x = high THEN low ELSE p[x]
    BY <1>0, <1>2
  <1> HIDE DEF q
  <1>5. q \in Hung(Ids)
    BY <1>0, <1>2, <1>4 DEF Hung
  <1>6. \A x \in Ids : Root(q, x) = IF q[x] = x THEN x ELSE Root(q, q[x])
    BY <1>5, RootFacts
  <1>7. q[low] = low /\ Root(q, low) = low
    BY <1>2, <1>4, <1>6
  <1> DEFINE new(x) == IF Root(p, x) \in {low, high} THEN low ELSE Root(p, x)
             S == {x \in Ids : Root(q, x) = new(x)}
  <1>8. \A x \in Ids : x \in S
    <2>1. ASSUME NEW x \in Ids, p[x] = x \/ p[x] \in S PROVE x \in S
      <3>1. CASE x = high
        BY <1>1, <1>2, <1>4, <1>6, <1>7, <3>1
      <3>2. CASE x # high /\ p[x] = x
        BY <1>1, <1>4, <1>6, <3>2
      <3>3. CASE x # high /\ p[x] # x
        BY <1>0, <1>1, <1>4, <1>6, <2>1, <3>3
      <3> QED BY <3>1, <3>2, <3>3
    <2> HIDE DEF S
    <2> QED BY <2>1, Descent
  <1>9. low \in {a, b} /\ \A x \in Ids : Root(q, x) = IF Root(p, x) \in {a, b} THEN low ELSE Root(p, x)
    BY <1>2, <1>8
  <1> QED BY <1>3, <1>5, <1>9 DEF a, b

-----------------------------------------------------------------------------

\* Candidates as assign_family_disjoint_splits takes them.
Roots(records) ==
    IsFiniteSet(records) /\ UniqueIds(records) /\ \A r \in records : RecordHolds(r)

\* Every record has one place in the order of the ids.
LEMMA RankedIsOrder ==
    ASSUME NEW records, Roots(records)
    PROVE  /\ \A i \in 1..Cardinality(records) : Ranked(records, i) \in records
           /\ \A r \in records : \E i \in 1..Cardinality(records) : Ranked(records, i) = r
  <1> DEFINE n == Cardinality(records)
             below(r) == {s \in records : s.id <= r.id}
             rank == [r \in records |-> Cardinality(below(r))]
  <1>0. n \in Nat /\ \A r \in records : r.id \in Nat
    BY FS_CardinalityType DEF Roots, RecordHolds
  <1>1. ASSUME NEW r \in records
        PROVE  IsFiniteSet(below(r)) /\ rank[r] = Cardinality(below(r)) /\ rank[r] \in 1..n
    <2>1. IsFiniteSet(below(r)) /\ Cardinality(below(r)) <= n /\ Cardinality(below(r)) \in Nat
      BY FS_Subset, FS_CardinalityType DEF Roots
    <2>2. r \in below(r)
      BY <1>0
    <2>3. Cardinality(below(r)) # 0
      BY <2>1, <2>2, FS_EmptySet
    <2> QED BY <1>0, <2>1, <2>3
  <1>2. ASSUME NEW r \in records, NEW s \in records, r.id < s.id PROVE rank[r] # rank[s]
    <2>1. below(r) \in SUBSET below(s)
      BY <1>0, <1>2
    <2>2. s \in below(s) /\ s \notin below(r)
      BY <1>0, <1>2
    <2> QED BY <1>1, <2>1, <2>2, FS_Subset
  <1>3. ASSUME NEW r \in records, NEW s \in records, rank[r] = rank[s] PROVE r = s
    <2>1. r.id = s.id
      BY <1>0, <1>2, <1>3
    <2> QED BY <2>1 DEF Roots, UniqueIds
  <1> HIDE DEF rank
  <1>4. rank \in Injection(records, 1..n)
    BY <1>1, <1>3, Fun_IsInj DEF rank
  <1>5. IsFiniteSet(1..n) /\ Cardinality(1..n) = n
    BY <1>0, FS_Interval
  <1>6. rank \in Surjection(records, 1..n)
    BY <1>4, <1>5, FS_Injection
  <1>7. \A i \in 1..n : \E r \in records : rank[r] = i
    BY <1>6 DEF Surjection
  <1>8. ASSUME NEW i \in 1..n PROVE Ranked(records, i) \in records /\ rank[Ranked(records, i)] = i
    <2>1. PICK r \in records : Cardinality(below(r)) = i
      BY <1>1, <1>7
    <2>2. Ranked(records, i) \in records /\ Cardinality(below(Ranked(records, i))) = i
      BY <2>1 DEF Ranked
    <2> QED BY <1>1, <2>2
  <1> QED BY <1>1, <1>3, <1>8

\* The claims of families that records make.
Claimed(records) ==
    {[id |-> r.id, dimension |-> d, family |-> r.families[d]] :
        r \in records, d \in ToSet(DIMENSIONS)}

\* Every record claims each of its families, and nothing else is claimed.
LEMMA ClaimsAreFamilies ==
    ASSUME NEW records, Roots(records)
    PROVE  /\ Claims(records) \in Seq(Claimed(records))
           /\ ToSet(Claims(records)) = Claimed(records)
  <1> DEFINE n == Cardinality(records)
             V == Claimed(records)
             claim(r, d) == [id |-> r.id, dimension |-> d, family |-> r.families[d]]
             row(r) == [k \in DOMAIN DIMENSIONS |-> claim(r, DIMENSIONS[k])]
             rows == [i \in 1..n |-> row(Ranked(records, i))]
  <1>1. n \in Nat
    BY FS_CardinalityType DEF Roots
  <1>2. DIMENSIONS \in Seq(ToSet(DIMENSIONS))
    BY DEF DIMENSIONS, ToSet
  <1>3. ASSUME NEW r \in records
        PROVE  row(r) \in Seq(V) /\ ToSet(row(r)) = {claim(r, d) : d \in ToSet(DIMENSIONS)}
    <2>1. row(r) \in [DOMAIN DIMENSIONS -> V]
      BY DEF Claimed, ToSet
    <2>2. row(r) \in Seq(V)
      BY <1>2, <2>1, Mapped
    <2>3. ToSet(row(r)) = {claim(r, d) : d \in ToSet(DIMENSIONS)}
      BY DEF ToSet
    <2> QED BY <2>2, <2>3
  <1> HIDE DEF row, V
  <1>4. rows \in Seq(Seq(V)) /\ DOMAIN rows = 1..n /\ \A i \in 1..n : rows[i] = row(Ranked(records, i))
    BY <1>1, <1>3, RankedIsOrder
  <1>5. Claims(records) = FlattenSeq(rows)
    BY DEF Claims, row
  <1> HIDE DEF rows
  <1>6. /\ Claims(records) \in Seq(V)
        /\ ToSet(Claims(records)) = UNION {ToSet(rows[i]) : i \in 1..n}
    BY <1>4, <1>5, Flattening
  <1>7. \A i \in 1..n : ToSet(rows[i]) = {claim(Ranked(records, i), d) : d \in ToSet(DIMENSIONS)}
    BY <1>3, <1>4, RankedIsOrder
  <1>8. V \subseteq UNION {ToSet(rows[i]) : i \in 1..n}
    <2> SUFFICES ASSUME NEW r \in records, NEW d \in ToSet(DIMENSIONS)
                 PROVE  \E i \in 1..n : claim(r, d) \in ToSet(rows[i])
      BY DEF V, Claimed
    <2> QED BY <1>7, RankedIsOrder
  <1>9. UNION {ToSet(rows[i]) : i \in 1..n} \subseteq V
    BY <1>7, RankedIsOrder DEF V, Claimed
  <1> QED BY <1>6, <1>8, <1>9 DEF V

\* The owner of a family is the first to claim it, for every claim of it.
LEMMA OwnerFacts ==
    ASSUME NEW n \in Nat, NEW cs, NEW k \in 1..n, NEW l \in 1..n,
           cs[k].dimension = cs[l].dimension, cs[k].family = cs[l].family
    PROVE  /\ \E j \in 1..k : /\ Owner(cs, k) = cs[j].id
                             /\ cs[j].dimension = cs[k].dimension
                             /\ cs[j].family = cs[k].family
           /\ Owner(cs, k) = Owner(cs, l)
  <1> DEFINE same(j, i) == cs[j].dimension = cs[i].dimension /\ cs[j].family = cs[i].family
             First(j, i) == same(j, i) /\ \A h \in 1..(j - 1) : ~ same(h, i)
             first(i) == CHOOSE j \in 1..i : First(j, i)
  <1>1. ASSUME NEW i \in 1..n PROVE \E j \in 1..i : First(j, i)
    <2> DEFINE T == {j \in 1..i : same(j, i)}
    <2>1. i \in T /\ T \in SUBSET Nat
      OBVIOUS
    <2>2. PICK j \in T : \A h \in T : j <= h
      BY <2>1, LeastNumber
    <2>3. ASSUME NEW h \in 1..(j - 1) PROVE ~ same(h, i)
      <3>1. h \in 1..i /\ ~ j <= h
        OBVIOUS
      <3> QED BY <2>2, <3>1
    <2> QED BY <2>3
  <1>2. \A i \in 1..n : first(i) \in 1..i /\ First(first(i), i)
    BY <1>1
  <1>3. \A i \in 1..n : Owner(cs, i) = cs[first(i)].id
    BY DEF Owner
  <1> HIDE DEF first
  <1>4. first(k) \in Nat \ {0} /\ first(l) \in Nat \ {0}
    BY <1>2
  <1>5. ~ first(k) < first(l)
    <2> SUFFICES ASSUME first(k) < first(l) PROVE FALSE
      OBVIOUS
    <2>1. first(k) \in 1..(first(l) - 1)
      BY <1>4
    <2>2. same(first(k), l)
      BY <1>2
    <2> QED BY <1>2, <2>1, <2>2
  <1>6. ~ first(l) < first(k)
    <2> SUFFICES ASSUME first(l) < first(k) PROVE FALSE
      OBVIOUS
    <2>1. first(l) \in 1..(first(k) - 1)
      BY <1>4
    <2>2. same(first(l), k)
      BY <1>2
    <2> QED BY <1>2, <2>1, <2>2
  <1>7. first(k) = first(l)
    BY <1>4, <1>5, <1>6
  <1> QED BY <1>2, <1>3, <1>7

\* Reaching through shared families is an equivalence, and one link reaches.
LEMMA ReachIsEquivalence ==
    ASSUME NEW records, Roots(records), NEW r \in records, NEW s \in records
    PROVE  /\ r \in Reach({r}, records, Linked)
           /\ Linked(r, s) => s \in Reach({r}, records, Linked)
           /\ s \in Reach({r}, records, Linked) => r \in Reach({s}, records, Linked)
           /\ s \in Reach({r}, records, Linked) =>
                 Reach({s}, records, Linked) \subseteq Reach({r}, records, Linked)
  <1> DEFINE reach(x) == Reach({x}, records, Linked)
             Closed(C) == \A x \in C, y \in records : Linked(x, y) => y \in C
  <1>1. \A x : reach(x) = {y \in records : \A C \in SUBSET records : x \in C /\ Closed(C) => y \in C}
    BY DEF Reach
  <1> HIDE DEF reach
  <1>2. \A x \in records : x \in reach(x) /\ reach(x) \in SUBSET records
    BY <1>1
  <1>3. \A x \in records : Closed(reach(x))
    BY <1>1
  <1>4. \A x, y \in records : y \in reach(x) => reach(y) \subseteq reach(x)
    BY <1>1, <1>2, <1>3
  <1>5. \A x, y \in records : Linked(x, y) => y \in reach(x)
    BY <1>2, <1>3
  <1>6. \A x, y \in records : Linked(x, y) => Linked(y, x)
    BY DEF Linked, Roots, RecordHolds
  <1>7. \A x, y \in records : y \in reach(x) => x \in reach(y)
    <2> TAKE x \in records
    <2> DEFINE C == {y \in records : x \in reach(y)}
    <2>1. x \in C
      BY <1>2
    <2>2. Closed(C)
      <3> SUFFICES ASSUME NEW y \in C, NEW z \in records, Linked(y, z) PROVE x \in reach(z)
        OBVIOUS
      <3>1. y \in reach(z)
        BY <1>5, <1>6
      <3> QED BY <1>4, <3>1
    <2>3. C \in SUBSET records
      OBVIOUS
    <2> HIDE DEF Closed
    <2> QED BY <1>1, <2>1, <2>2, <2>3
  <1> QED BY <1>2, <1>4, <1>5, <1>7 DEF reach

\* The union-find forest: records that share a family have one root, and those
\* with one root are connected by shared families.
LEMMA ForestFacts ==
    ASSUME NEW records, Roots(records)
    PROVE  \A r, s \in records :
              /\ Linked(r, s) => Root(Forest(records), r.id) = Root(Forest(records), s.id)
              /\ Root(Forest(records), r.id) = Root(Forest(records), s.id)
                    => s \in Reach({r}, records, Linked)
  <1> DEFINE cs == Claims(records)
             n == Len(cs)
             seq == [k \in DOMAIN cs |-> k]
             Ids == {r.id : r \in records}
             V == Hung(Ids)
             alone == [id \in Ids |-> id]
             join(p, k) == Union(p, Owner(cs, k), cs[k].id)
             Table(it) == it = [t \in SUBSET DOMAIN seq |->
                                   IF t = {} THEN alone
                                   ELSE join(it[t \ {Max(t)}], seq[Max(t)])]
             table == CHOOSE it : Table(it)
             at(k) == table[1..k]
             reach(r) == Reach({r}, records, Linked)
  <1>1. /\ cs \in Seq(Claimed(records)) /\ n \in Nat /\ DOMAIN cs = 1..n
        /\ \A k \in 1..n : cs[k] \in Claimed(records)
        /\ ToSet(cs) = Claimed(records)
    <2>1. cs \in Seq(Claimed(records)) /\ ToSet(cs) = Claimed(records)
      BY ClaimsAreFamilies
    <2> HIDE DEF cs
    <2> QED BY <2>1
  <1>2. Forest(records) = table[DOMAIN seq]
    BY DEF Forest, FoldLeft, MapThenFoldSet
  <1> HIDE DEF cs, n, table
  <1>3. Ids \in SUBSET Nat
    BY DEF Roots, RecordHolds
  <1>4. \A k \in 1..n : cs[k].id \in Ids
    BY <1>1 DEF Claimed
  <1>5. ASSUME NEW k \in 1..n
        PROVE  \E j \in 1..k : /\ Owner(cs, k) = cs[j].id
                               /\ cs[j].dimension = cs[k].dimension
                               /\ cs[j].family = cs[k].family
    BY <1>1, OwnerFacts
  <1>6. \A k \in 1..n : Owner(cs, k) \in Ids
    BY <1>1, <1>4, <1>5
  <1> HIDE DEF Ids
  <1>7. alone \in V
    BY <1>3 DEF Hung
  <1>8. \A p \in V, k \in 1..n : join(p, k) \in V
    BY <1>3, <1>4, <1>6, UnionFacts
  <1>9. Table(table)
    <2> DEFINE step == [q \in V \X (1..n) |-> join(q[1], q[2])]
    <2>1. Foldable(n, V, alone, step)
      BY <1>1, <1>7, <1>8 DEF Foldable
    <2> HIDE DEF step, V, alone, seq, join, Table, at, reach
    <2>2. PICK h : Folds(h, n, V, alone, step)
      BY <2>1, Folding
    <2>3. \A t \in SUBSET (1..n) : t # {} => Max(t) \in 1..n
      BY <1>1, MaxOfSome
    <2>4. \A t \in SUBSET (1..n) : t # {} =>
             step[<<h[t \ {Max(t)}], Max(t)>>] = join(h[t \ {Max(t)}], seq[Max(t)])
      BY <1>1, <2>2, <2>3 DEF step, seq, Folds
    <2>5. Table(h)
      <3>1. DOMAIN seq = 1..n
        BY <1>1 DEF seq
      <3> QED BY <2>2, <2>4, <3>1 DEF Table, Folds
    <2> HIDE DEF Table
    <2> QED BY <2>5 DEF table
  <1>10. at(0) = alone
    BY <1>1, <1>9
  <1>11. ASSUME NEW k \in 1..n PROVE at(k) = join(at(k - 1), k)
    <2>1. Max(1..k) = k /\ (1..k) \ {Max(1..k)} = 1..(k - 1)
      BY MaxOfFirst
    <2>2. 1..k \in SUBSET DOMAIN seq /\ 1..k # {}
      <3>1. k \in 1..k /\ \A j \in 1..k : j \in 1..n
        BY <1>1
      <3>2. DOMAIN seq = 1..n
        BY <1>1
      <3> QED BY <3>1, <3>2
    <2>3. seq[k] = k
      BY <1>1
    <2>4. table[1..k] = join(table[(1..k) \ {Max(1..k)}], seq[Max(1..k)])
      BY <1>9, <2>2
    <2> QED BY <2>1, <2>3, <2>4
  <1>12. Forest(records) = at(n)
    BY <1>1, <1>2
  <1> HIDE DEF Table, at, V
  <1> DEFINE Joins(k) == \A j \in 1..k : Root(at(k), cs[j].id) = Root(at(k), Owner(cs, j))
             Connects(k) == \A r, s \in records :
                               Root(at(k), r.id) = Root(at(k), s.id) => s \in reach(r)
             S == {k \in Nat : k <= n => at(k) \in V /\ Joins(k) /\ Connects(k)}
  <1>13. 0 \in S
    <2>1. at(0) \in V /\ Joins(0)
      BY <1>7, <1>10
    <2>2. \A x \in Ids : Root(alone, x) = x
      BY <1>3, <1>7, RootFacts DEF V
    <2>3. Connects(0)
      <3> SUFFICES ASSUME NEW r \in records, NEW s \in records,
                          Root(alone, r.id) = Root(alone, s.id)
                   PROVE  s \in reach(r)
        BY <1>10
      <3>1. r.id = s.id
        BY <2>2 DEF Ids
      <3>2. r = s
        BY <3>1 DEF Roots, UniqueIds
      <3> QED BY <3>2, ReachIsEquivalence
    <2> QED BY <2>1, <2>3
  <1>14. ASSUME NEW k \in Nat, k \in S PROVE k + 1 \in S
    <2> SUFFICES ASSUME k + 1 <= n
                 PROVE  at(k + 1) \in V /\ Joins(k + 1) /\ Connects(k + 1)
      OBVIOUS
    <2> DEFINE i == k + 1
               p == at(k)
               q == at(i)
               a == Root(p, Owner(cs, i))
               b == Root(p, cs[i].id)
    <2>1. i \in 1..n /\ i - 1 = k /\ k <= n
      BY <1>1
    <2>2. p \in V /\ Joins(k) /\ Connects(k)
      BY <1>14, <2>1
    <2>3. q = join(p, i)
      BY <1>11, <2>1
    <2>4. Owner(cs, i) \in Ids /\ cs[i].id \in Ids
      BY <1>4, <1>6, <2>1
    <2>5. /\ q \in V
          /\ \E low \in {a, b} : \A x \in Ids :
                Root(q, x) = IF Root(p, x) \in {a, b} THEN low ELSE Root(p, x)
      <3> DEFINE x == Owner(cs, i)
                 y == cs[i].id
      <3>1. p \in Hung(Ids) /\ q = Union(p, x, y) /\ x \in Ids /\ y \in Ids
        BY <2>2, <2>3, <2>4 DEF V
      <3> HIDE DEF p, q, x, y
      <3>2. /\ q \in Hung(Ids)
            /\ \E low \in {Root(p, x), Root(p, y)} : \A z \in Ids :
                  Root(q, z) = IF Root(p, z) \in {Root(p, x), Root(p, y)} THEN low ELSE Root(p, z)
        BY <1>3, <3>1, UnionFacts
      <3> QED BY <3>2 DEF V, x, y
    <2> HIDE DEF p, q
    <2>6. PICK low \in {a, b} : \A x \in Ids :
             Root(q, x) = IF Root(p, x) \in {a, b} THEN low ELSE Root(p, x)
      BY <2>5
    <2>7. Joins(i)
      <3> SUFFICES ASSUME NEW j \in 1..i
                   PROVE  Root(q, cs[j].id) = Root(q, Owner(cs, j))
        BY DEF q
      <3>1. j \in 1..n /\ cs[j].id \in Ids /\ Owner(cs, j) \in Ids
        BY <1>1, <1>4, <1>6, <2>1
      <3>2. CASE j = i
        BY <2>4, <2>6, <3>2
      <3>3. CASE j # i
        <4>1. j \in 1..k
          BY <3>3
        <4>2. Root(p, cs[j].id) = Root(p, Owner(cs, j))
          BY <2>2, <4>1 DEF p
        <4> QED BY <2>6, <3>1, <4>2
      <3> QED BY <3>2, <3>3
    <2>8. Connects(i)
      <3>1. PICK j \in 1..i : /\ Owner(cs, i) = cs[j].id
                             /\ cs[j].dimension = cs[i].dimension
                             /\ cs[j].family = cs[i].family
        BY <1>5, <2>1
      <3>2. cs[i] \in Claimed(records) /\ cs[j] \in Claimed(records)
        BY <1>1, <2>1
      <3>3. PICK u \in records : \E d \in ToSet(DIMENSIONS) :
               cs[i] = [id |-> u.id, dimension |-> d, family |-> u.families[d]]
        BY <3>2 DEF Claimed
      <3>4. PICK v \in records : \E d \in ToSet(DIMENSIONS) :
               cs[j] = [id |-> v.id, dimension |-> d, family |-> v.families[d]]
        BY <3>2 DEF Claimed
      <3>5. Linked(u, v) /\ Linked(v, u) /\ cs[i].id = u.id /\ Owner(cs, i) = v.id
        BY <3>1, <3>3, <3>4 DEF Linked, Roots, RecordHolds
      <3>6. v \in reach(u) /\ u \in reach(v)
        BY <3>5, ReachIsEquivalence
      <3> SUFFICES ASSUME NEW r \in records, NEW s \in records, Root(q, r.id) = Root(q, s.id)
                   PROVE  s \in reach(r)
        BY DEF q
      <3>7. \A x, y \in records : Root(p, x.id) = Root(p, y.id) => y \in reach(x)
        BY <2>2 DEF p
      <3>8. \A x, y, z \in records : y \in reach(x) /\ z \in reach(y) => z \in reach(x)
        BY ReachIsEquivalence
      <3> HIDE DEF reach
      <3>9. a = Root(p, v.id) /\ b = Root(p, u.id)
        BY <3>5
      <3>10. \A x \in records : Root(p, x.id) \in {a, b} =>
                u \in reach(x) /\ x \in reach(u)
        BY <3>6, <3>7, <3>8, <3>9
      <3>11. r.id \in Ids /\ s.id \in Ids
        BY DEF Ids
      <3>12. \/ Root(p, r.id) = Root(p, s.id)
             \/ Root(p, r.id) \in {a, b} /\ Root(p, s.id) \in {a, b}
        BY <2>6, <3>11
      <3> QED BY <3>7, <3>8, <3>10, <3>12
    <2> QED BY <2>5, <2>7, <2>8 DEF q
  <1>15. at(n) \in V /\ Joins(n) /\ Connects(n)
    <2>1. n \in S
      <3> HIDE DEF S
      <3> QED BY <1>1, <1>13, <1>14, Induction
    <2> QED BY <1>1, <2>1
  <1>16. ASSUME NEW r \in records, NEW s \in records, Linked(r, s)
         PROVE  Root(at(n), r.id) = Root(at(n), s.id)
    <2>1. PICK d \in ToSet(DIMENSIONS) : r.families[d] = s.families[d]
      BY <1>16 DEF Linked, Roots, RecordHolds
    <2>2. PICK k \in 1..n : cs[k] = [id |-> r.id, dimension |-> d, family |-> r.families[d]]
      BY <1>1 DEF Claimed, ToSet
    <2>3. PICK l \in 1..n : cs[l] = [id |-> s.id, dimension |-> d, family |-> s.families[d]]
      BY <1>1 DEF Claimed, ToSet
    <2>4. Owner(cs, k) = Owner(cs, l)
      <3>1. cs[k].dimension = cs[l].dimension /\ cs[k].family = cs[l].family
        BY <2>1, <2>2, <2>3
      <3> QED BY <1>1, <3>1, OwnerFacts
    <2> QED BY <1>15, <2>2, <2>3, <2>4
  <1> QED BY <1>12, <1>15, <1>16

\* The components are what the families connect.
LEMMA ComponentsAreReached ==
    ASSUME NEW records, Roots(records), NEW c \in Components(records), NEW r \in c
    PROVE  c = Reach({r}, UNION Components(records), Linked)
  <1> DEFINE root(x) == Root(Forest(records), x.id)
             class(x) == {y \in records : root(y) = root(x)}
  <1>1. Components(records) = {class(x) : x \in records}
    BY DEF Components
  <1>0. \A x, y \in records : Linked(x, y) => root(x) = root(y)
    BY ForestFacts
  <1>2. \A x, y \in records : root(x) = root(y) => y \in Reach({x}, records, Linked)
    BY ForestFacts
  <1> HIDE DEF root
  <1>3. UNION Components(records) = records
    <2>1. \A x \in records : x \in class(x) /\ class(x) \in Components(records)
      BY <1>1
    <2>2. \A x \in UNION Components(records) : x \in records
      BY <1>1
    <2> QED BY <2>1, <2>2
  <1>4. r \in records /\ c = class(r)
    BY <1>1
  <1>5. class(r) \subseteq Reach({r}, records, Linked)
    BY <1>2, <1>4
  <1>6. Reach({r}, records, Linked) \subseteq class(r)
    <2>1. class(r) \in SUBSET records /\ r \in class(r)
      BY <1>4
    <2>2. ASSUME NEW x \in class(r), NEW y \in records, Linked(x, y) PROVE y \in class(r)
      <3>1. x \in records /\ root(x) = root(r)
        OBVIOUS
      <3>2. root(x) = root(y)
        BY <1>0, <2>2, <3>1
      <3> QED BY <3>1, <3>2
    <2> HIDE DEF class
    <2> QED BY <2>1, <2>2 DEF Reach
  <1> QED BY <1>3, <1>4, <1>5, <1>6

\* Family components are exactly what shared families connect, whatever the
\* records, and each is given one split.
THEOREM FamiliesStayTogether == Spec => []ComponentsAreWhole
  <1>1. Init => ComponentsAreWhole
    BY DEF Init, ComponentsAreWhole
  <1>2. WellFormed /\ ComponentsAreWhole /\ [Next]_vars => ComponentsAreWhole'
    <2> SUFFICES ASSUME WellFormed, ComponentsAreWhole, [Next]_vars PROVE ComponentsAreWhole'
      OBVIOUS
    <2>1. CASE Assign
      <3>1. components' = Components(training) /\ CandidatesHold(training) /\ phase = "candidates"
        BY <2>1 DEF Assign
      <3>2. Roots(training)
        BY <3>1, InputsAssumption DEF WellFormed, CandidatesHold, Roots
      <3>3. \A c \in components' : \A r \in c : c = Reach({r}, UNION components', Linked)
        BY <3>1, <3>2, ComponentsAreReached
      <3>4. PICK bucket \in [components' -> Allocated] : training' = Assigned(components', bucket)
        BY <2>1 DEF Assign
      <3>5. ASSUME NEW c \in components'
            PROVE  \E split \in Allocated : \A r \in c : [r EXCEPT !.split = split] \in training'
        <4>1. bucket[c] \in Allocated
          OBVIOUS
        <4>2. \A r \in c : [r EXCEPT !.split = bucket[c]] \in training'
          <5> DEFINE moved(b) == {[r EXCEPT !.split = bucket[b]] : r \in b}
          <5>1. training' = UNION {moved(b) : b \in components'}
            BY <3>4 DEF Assigned
          <5>2. \A r \in c : [r EXCEPT !.split = bucket[c]] \in moved(c)
            OBVIOUS
          <5> HIDE DEF moved
          <5> QED BY <5>1, <5>2
        <4> QED BY <4>1, <4>2
      <3> QED BY <3>3, <3>5 DEF ComponentsAreWhole
    <2>2. CASE Derive
      <3>1. components' = components /\ phase' = phase /\ training \subseteq training'
        BY <2>2 DEF Derive
      <3> QED BY <3>1 DEF ComponentsAreWhole
    <2>3. CASE ScanDirty \/ Follow \/ Keep \/ FreezeKept \/ FreezeDirectly
      <3>1. components' = components /\ phase' # "assigned"
        BY <2>3 DEF ScanDirty, Follow, Keep, FreezeKept, FreezeDirectly, Freeze
      <3> QED BY <3>1 DEF ComponentsAreWhole
    <2>4. CASE RefuseCandidates \/ RefuseInputs \/ RefuseKept \/ RefuseManifest
      <3>1. components' = components /\ phase' # "assigned"
        BY <2>4 DEF RefuseCandidates, RefuseInputs, RefuseKept, RefuseManifest, Refuse
      <3> QED BY <3>1 DEF ComponentsAreWhole
    <2>5. CASE UNCHANGED vars
      <3>1. UNCHANGED <<components, phase, training>>
        BY <2>5 DEF vars
      <3> QED BY <3>1 DEF ComponentsAreWhole
    <2> QED BY <2>1, <2>2, <2>3, <2>4, <2>5 DEF Next
  <1> QED BY <1>1, <1>2, RecordsStayWellFormed, PTL DEF Spec

===============================================================================
