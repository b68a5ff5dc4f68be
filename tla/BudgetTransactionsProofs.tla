---------------------- MODULE BudgetTransactionsProofs ----------------------
(***************************************************************************)
(* Proofs about BudgetTransactions for every set of targets, candidates    *)
(* and digests and every bound.  The argument: a ledger that balances with *)
(* its counter has versions that never decrease and that strictly increase *)
(* at every executed record, and the id of an executed record carries the  *)
(* version just before its own; so two executed records differ in their id.*)
(***************************************************************************)
EXTENDS BudgetTransactions, SequenceTheorems, TLAPS

\* What an executed record says of its id.
IdsAgree(b, l) ==
    \A i \in 1..Len(l) :
        l[i].executed =>
            /\ l[i].counted = l[i].selectionId.selected
            /\ l[i].selectionId.selected =
                  Lesser(l[i].selectionId.candidate,
                         l[i].selectionId.target - l[i].selectionId.consumed)
            /\ l[i].selectionId.consumed = l[i].consumedBefore
            /\ l[i].selectionId.target = b.target
            /\ l[i].versionAfter = l[i].selectionId.version + 1

\* Versions never decrease along a ledger and increase at executed records.
VersionsIncrease(l) ==
    \A i, j \in 1..Len(l) :
        i < j => /\ l[i].versionAfter <= l[j].versionAfter
                 /\ l[j].executed => l[i].versionAfter < l[j].versionAfter

Sound(b, l) == Balanced(b, l) /\ IdsAgree(b, l) /\ VersionsIncrease(l)

IInv ==
    /\ TypeOK
    /\ Sound(budget, ledger)
    /\ saved # NoState => /\ Sound(saved.budget, saved.ledger)
                          /\ saved.budget.target = budget.target
                          /\ Len(saved.ledger) <= Len(ledger)

-----------------------------------------------------------------------------
(* A reservation a counter makes is well formed and valid for it.          *)
LEMMA ReserveType ==
    ASSUME NEW b \in Budgets, NEW c \in Nat, NEW d \in Digests
    PROVE  Reserve(b, c, d) \in Reservations
  <1>1. Lesser(c, Remaining(b)) \in Nat
    BY DEF Lesser, Remaining, Budgets
  <1>2. ReservationDigest(b, c, Lesser(c, Remaining(b)), d) \in SelectionIds
    BY <1>1 DEF ReservationDigest, SelectionIds, Budgets
  <1> QED
    BY <1>1, <1>2 DEF Reserve, Reservations, Budgets

(* Charging a valid reservation keeps the counter within its target.       *)
LEMMA ChargeType ==
    ASSUME NEW b \in Budgets, NEW r \in Reservations, Valid(b, r)
    PROVE  /\ Charge(b, r) \in Budgets
           /\ Charge(b, r).target = b.target
           /\ Charge(b, r).consumed = b.consumed + r.selected
           /\ Charge(b, r).version = b.version + 1
  <1>1. /\ b \in [target : Nat, consumed : Nat, version : Nat]
        /\ b.target > 0 /\ b.consumed <= b.target
    BY DEF Budgets
  <1>2. r.selected \in Nat /\ r.candidate \in Nat
    BY DEF Reservations
  <1>3. b.consumed + r.selected <= b.target
    BY <1>1, <1>2 DEF Valid, Lesser, Remaining
  <1>4. Charge(b, r) \in [target : Nat, consumed : Nat, version : Nat]
    BY <1>1, <1>2 DEF Charge
  <1> QED
    BY <1>1, <1>3, <1>4 DEF Budgets, Charge

(* What commit appends to a ledger is a record.                            *)
LEMMA RecordType ==
    ASSUME NEW r \in Reservations, NEW e \in BOOLEAN, NEW b \in Budgets
    PROVE  StepRecord(r, e, b) \in StepRecords
  <1>1. (IF e THEN r.selected ELSE 0) \in Nat
    BY DEF Reservations
  <1> QED
    BY <1>1 DEF StepRecord, StepRecords, Reservations, Budgets

(* Appending the record of a commit to a sound ledger leaves it sound with *)
(* the counter the commit leaves.                                          *)
LEMMA AppendSound ==
    ASSUME NEW b \in Budgets, NEW l \in Seq(StepRecords), Sound(b, l),
           NEW r \in Reservations, Valid(b, r),
           NEW e \in BOOLEAN, e => r.selected > 0,
           NEW after \in Budgets,
           after.target = b.target,
           after.consumed = IF e THEN b.consumed + r.selected ELSE b.consumed,
           after.version = IF e THEN b.version + 1 ELSE b.version
    PROVE  Sound(after, Append(l, StepRecord(r, e, after)))
  <1> DEFINE rec == StepRecord(r, e, after)
             m   == Append(l, rec)
             n   == Len(l)
  <1>1. rec \in StepRecords
    BY RecordType
  <1>2. /\ m \in Seq(StepRecords)
        /\ Len(m) = n + 1
        /\ n \in Nat
        /\ m[n + 1] = rec
        /\ \A i \in 1..n : m[i] = l[i]
    BY <1>1
  <1>3. /\ rec.executed = e
        /\ rec.selectionId = ReservationDigest(b, r.candidate, r.selected, r.digest)
        /\ rec.counted = IF e THEN r.selected ELSE 0
        /\ rec.consumedBefore = b.consumed
        /\ rec.consumedAfter = after.consumed
        /\ rec.versionAfter = after.version
    BY DEF StepRecord, Valid
  <1>4. /\ b.consumed \in Nat /\ b.version \in Nat /\ b.target \in Nat
        /\ r.selected \in Nat /\ r.candidate \in Nat
    BY DEF Budgets, Reservations
  <1>5. \A i \in 1..n : /\ l[i].versionAfter \in Nat
                        /\ l[i].consumedAfter \in Nat
    <2>1. \A i \in 1..Len(l) : l[i] \in StepRecords
      OBVIOUS
    <2> QED
      BY <2>1 DEF StepRecords
  <1> HIDE DEF rec, m
  <1>6. \A i \in 1..n : l[i].versionAfter <= b.version
    <2> SUFFICES ASSUME NEW i \in 1..n
                 PROVE  l[i].versionAfter <= b.version
      OBVIOUS
    <2>1. l # <<>> /\ b.version = l[n].versionAfter
      BY DEF Sound, Balanced
    <2>2. i = n \/ i < n
      OBVIOUS
    <2> QED
      BY <2>1, <2>2, <1>5 DEF Sound, VersionsIncrease
  <1>7. Balanced(after, m)
    <2>1. after.consumed = m[Len(m)].consumedAfter /\ after.version = m[Len(m)].versionAfter
      BY <1>2, <1>3
    <2>2. m # <<>>
      BY <1>2
    <2>3. ASSUME NEW i \in 1..Len(m)
          PROVE  LET before == IF i = 1 THEN 0 ELSE m[i - 1].consumedAfter
                     version == IF i = 1 THEN 0 ELSE m[i - 1].versionAfter
                 IN  /\ m[i].consumedBefore = before
                     /\ m[i].consumedAfter = before + m[i].counted
                     /\ m[i].versionAfter = IF m[i].executed THEN version + 1 ELSE version
                     /\ m[i].executed <=> m[i].counted > 0
      <3>1. CASE i \in 1..n
        <4>1. i = 1 \/ i - 1 \in 1..n
          BY <1>2, <3>1
        <4>2. m[i] = l[i] /\ (i # 1 => m[i - 1] = l[i - 1])
          BY <1>2, <3>1, <4>1
        <4> QED
          BY <4>2, <3>1 DEF Sound, Balanced
      <3>2. CASE i = n + 1
        <4>1. b.consumed = (IF i = 1 THEN 0 ELSE m[i - 1].consumedAfter)
          BY <1>2, <3>2 DEF Sound, Balanced
        <4>2. b.version = (IF i = 1 THEN 0 ELSE m[i - 1].versionAfter)
          BY <1>2, <3>2 DEF Sound, Balanced
        <4>3. m[i] = rec
          BY <1>2, <3>2
        <4> QED
          BY <4>1, <4>2, <4>3, <1>3, <1>4
      <3> QED
        BY <3>1, <3>2, <1>2
    <2> QED
      BY <2>1, <2>2, <2>3 DEF Balanced
  <1>8. IdsAgree(after, m)
    <2> SUFFICES ASSUME NEW i \in 1..Len(m), m[i].executed
                 PROVE  /\ m[i].counted = m[i].selectionId.selected
                        /\ m[i].selectionId.selected =
                              Lesser(m[i].selectionId.candidate,
                                     m[i].selectionId.target - m[i].selectionId.consumed)
                        /\ m[i].selectionId.consumed = m[i].consumedBefore
                        /\ m[i].selectionId.target = after.target
                        /\ m[i].versionAfter = m[i].selectionId.version + 1
      BY DEF IdsAgree
    <2>1. CASE i \in 1..n
      BY <2>1, <1>2 DEF Sound, IdsAgree
    <2>2. CASE i = n + 1
      <3>1. m[i] = rec /\ e
        BY <1>2, <1>3, <2>2
      <3>2. r.selected = Lesser(r.candidate, b.target - b.consumed)
        BY DEF Valid, Remaining
      <3> QED
        BY <3>1, <3>2, <1>3 DEF ReservationDigest
    <2> QED
      BY <2>1, <2>2, <1>2
  <1>9. VersionsIncrease(m)
    <2> SUFFICES ASSUME NEW i \in 1..Len(m), NEW j \in 1..Len(m), i < j
                 PROVE  /\ m[i].versionAfter <= m[j].versionAfter
                        /\ m[j].executed => m[i].versionAfter < m[j].versionAfter
      BY DEF VersionsIncrease
    <2>1. CASE j \in 1..n
      BY <2>1, <1>2 DEF Sound, VersionsIncrease
    <2>2. CASE j = n + 1
      <3>1. i \in 1..n /\ m[i] = l[i] /\ m[j] = rec
        BY <2>2, <1>2
      <3>2. l[i].versionAfter <= b.version /\ l[i].versionAfter \in Nat
        BY <3>1, <1>5, <1>6
      <3> QED
        BY <3>1, <3>2, <1>3, <1>4
    <2> QED
      BY <2>1, <2>2, <1>2
  <1> QED
    BY <1>7, <1>8, <1>9 DEF Sound, m, rec

-----------------------------------------------------------------------------
(* A new counter has an empty, sound ledger.                               *)
LEMMA InitInv == Init => IInv
  <1> SUFFICES ASSUME Init PROVE IInv
    OBVIOUS
  <1>1. budget \in Budgets /\ budget.consumed = 0 /\ budget.version = 0
    BY TargetsAssumption DEF Init, NewBudget, Budgets
  <1>2. TypeOK
    BY <1>1 DEF Init, TypeOK
  <1>3. Sound(budget, ledger)
    BY <1>1 DEF Init, Sound, Balanced, IdsAgree, VersionsIncrease
  <1> QED
    BY <1>2, <1>3 DEF IInv, Init

(* Every call keeps the running and the saved ledger sound.                *)
LEMMA NextInv == IInv /\ [Next]_vars => IInv'
  <1> SUFFICES ASSUME IInv, [Next]_vars PROVE IInv'
    OBVIOUS
  <1> USE DEF IInv
  <1>1. ASSUME NEW c \in Candidates, NEW d \in Digests, Plan(c, d) PROVE IInv'
    <2>1. Reserve(budget, c, d) \in Reservations
      BY ReserveType, CandidatesAssumption DEF TypeOK
    <2> QED
      BY <1>1, <2>1 DEF Plan, TypeOK
  <1>2. ASSUME NEW r \in held, NEW c \in Candidates, NEW d \in Digests, Alter(r, c, d)
        PROVE  IInv'
    <2>1. r \in Reservations
      BY DEF TypeOK
    <2>2. [r EXCEPT !.selected = c, !.digest = d] \in Reservations
      BY <2>1, CandidatesAssumption DEF Reservations
    <2> QED
      BY <1>2, <2>2 DEF Alter, TypeOK
  <1>3. ASSUME NEW r \in held, CommitExecuted(r) PROVE IInv'
    <2>1. r \in Reservations /\ budget \in Budgets /\ Valid(budget, r)
      BY <1>3 DEF TypeOK, CommitExecuted
    <2>2. /\ budget' \in Budgets
          /\ budget'.target = budget.target
          /\ budget'.consumed = budget.consumed + r.selected
          /\ budget'.version = budget.version + 1
      BY <1>3, <2>1, ChargeType DEF CommitExecuted
    <2>3. StepRecord(r, TRUE, budget') \in StepRecords
      BY <2>1, <2>2, RecordType
    <2>4. /\ ledger' = Append(ledger, StepRecord(r, TRUE, budget'))
          /\ ledger' \in Seq(StepRecords)
          /\ Len(ledger') = Len(ledger) + 1
      <3>1. ledger' = Append(ledger, StepRecord(r, TRUE, budget'))
        BY <1>3 DEF CommitExecuted
      <3>2. ledger \in Seq(StepRecords)
        BY DEF TypeOK
      <3> QED
        BY <2>3, <3>1, <3>2, AppendProperties
    <2>5. Sound(budget', ledger')
      <3>1. r.selected > 0
        BY <1>3 DEF CommitExecuted
      <3>2. ledger \in Seq(StepRecords) /\ Sound(budget, ledger)
        BY DEF TypeOK
      <3>3. Sound(budget', Append(ledger, StepRecord(r, TRUE, budget')))
        BY <2>1, <2>2, <3>1, <3>2, AppendSound
      <3> QED
        BY <2>4, <3>3
    <2>6. held' = held /\ saved' = saved
      BY <1>3 DEF CommitExecuted
    <2>7. TypeOK'
      BY <2>2, <2>4, <2>6 DEF TypeOK
    <2>8. saved # NoState => Len(saved.ledger) <= Len(ledger')
      BY <2>4 DEF TypeOK
    <2> QED
      BY <2>2, <2>5, <2>6, <2>7, <2>8
  <1>4. ASSUME NEW r \in held, CommitSkipped(r) PROVE IInv'
    <2>1. r \in Reservations /\ budget \in Budgets /\ Valid(budget, r)
      BY <1>4 DEF TypeOK, CommitSkipped
    <2>2. /\ ledger' = Append(ledger, StepRecord(r, FALSE, budget))
          /\ ledger' \in Seq(StepRecords)
          /\ Len(ledger') = Len(ledger) + 1
      <3>1. StepRecord(r, FALSE, budget) \in StepRecords
        BY <2>1, RecordType
      <3>2. ledger' = Append(ledger, StepRecord(r, FALSE, budget))
        BY <1>4 DEF CommitSkipped
      <3>3. ledger \in Seq(StepRecords)
        BY DEF TypeOK
      <3> QED
        BY <3>1, <3>2, <3>3, AppendProperties
    <2>3. Sound(budget, Append(ledger, StepRecord(r, FALSE, budget)))
      BY <2>1, AppendSound DEF TypeOK
    <2>4. budget' = budget /\ held' = held /\ saved' = saved
      BY <1>4 DEF CommitSkipped
    <2>5. TypeOK'
      BY <2>2, <2>4 DEF TypeOK
    <2>6. saved # NoState => Len(saved.ledger) <= Len(ledger')
      BY <2>2 DEF TypeOK
    <2>7. Sound(budget', ledger')
      BY <2>2, <2>3, <2>4
    <2> QED
      BY <2>4, <2>5, <2>6, <2>7
  <1>5. ASSUME NEW r \in held, CommitRefused(r) PROVE IInv'
    BY <1>5 DEF CommitRefused, vars, TypeOK
  <1>6. ASSUME NEW r \in held, Drop(r) PROVE IInv'
    BY <1>6 DEF Drop, TypeOK
  <1>7. CASE SaveState
    BY <1>7 DEF SaveState, TypeOK
  <1>8. CASE RestoreState
    BY <1>8 DEF RestoreState, TypeOK
  <1>9. CASE UNCHANGED vars
    BY <1>9 DEF vars, TypeOK
  <1>10. ASSUME NEW t \in Targets, NEW c \in Candidates, NEW d \in Digests,
                PlanElsewhere(t, c, d)
         PROVE  IInv'
    <2>1. NewBudget(t) \in Budgets
      BY TargetsAssumption DEF NewBudget, Budgets
    <2>2. Reserve(NewBudget(t), c, d) \in Reservations
      BY <2>1, CandidatesAssumption, ReserveType
    <2> QED
      BY <1>10, <2>2 DEF PlanElsewhere, TypeOK
  <1> QED
    BY <1>1, <1>2, <1>3, <1>4, <1>5, <1>6, <1>7, <1>8, <1>9, <1>10 DEF Next

\* The ledgers, running and saved, are sound at every moment.
THEOREM Invariance == Spec => []IInv
  <1> QED
    BY InitInv, NextInv, PTL DEF Spec

(* No sequence of plans, altered reservations, retries and restores makes  *)
(* the counter or its ledger ill formed, or consumes beyond the target.    *)
THEOREM TypeCorrect == Spec => []TypeOK
  <1>1. IInv => TypeOK
    BY DEF IInv
  <1> QED
    BY <1>1, Invariance, PTL

(* Exact accounting: the ledger of the counter always balances with it.    *)
THEOREM LedgerBalances == Spec => []BooksBalance
  <1>1. IInv => BooksBalance
    BY DEF IInv, Sound, BooksBalance
  <1> QED
    BY <1>1, Invariance, PTL

(* No selection id is charged twice on one counter, restores included.     *)
THEOREM NeverChargedTwice == Spec => []ChargedOnce
  <1>1. ASSUME IInv PROVE ChargedOnce
    <2> SUFFICES ASSUME NEW i \in 1..Len(ledger), NEW j \in 1..Len(ledger),
                        ledger[i].executed, ledger[j].executed, i < j,
                        ledger[i].selectionId = ledger[j].selectionId
                 PROVE  FALSE
      BY DEF ChargedOnce, IInv, TypeOK
    <2>1. ledger[i].versionAfter < ledger[j].versionAfter
      BY <1>1 DEF IInv, Sound, VersionsIncrease
    <2>2. ledger[i].versionAfter = ledger[j].versionAfter
      BY <1>1 DEF IInv, Sound, IdsAgree
    <2>3. ledger[i].versionAfter \in Nat
      <3>1. ledger[i] \in StepRecords
        BY <1>1 DEF IInv, TypeOK
      <3> QED
        BY <3>1 DEF StepRecords
    <2> QED
      BY <2>1, <2>2, <2>3
  <1> QED
    BY <1>1, Invariance, PTL

(* No altered reservation is ever charged, nor one of another target.      *)
THEOREM NothingForgedIsCharged == Spec => []ChargedAsReserved
  <1>1. IInv => ChargedAsReserved
    BY DEF IInv, Sound, IdsAgree, ChargedAsReserved
  <1> QED
    BY <1>1, Invariance, PTL

(* An executed update makes every plan made before it stale; a skipped one *)
(* leaves every valid plan valid.                                          *)
THEOREM StalenessIsExact == Spec => OnlyUpdatesInvalidate
  <1>1. ASSUME IInv, [Next]_vars
        PROVE  [/\ budget'.version > budget.version /\ budget'.target = budget.target
                      => \A r \in held : Valid(budget, r) => ~ Valid(budget', r)
                /\ Len(ledger') = Len(ledger) + 1 /\ ~ ledger'[Len(ledger')].executed
                      => \A r \in held : Valid(budget, r) => Valid(budget', r)]_vars
    <2>1. budget.version \in Nat /\ budget'.version \in Nat
      <3>1. IInv'
        BY <1>1, NextInv
      <3> QED
        BY <1>1, <3>1 DEF IInv, TypeOK, Budgets
    <2>2. budget'.version > budget.version
              => \A r \in held : Valid(budget, r) => ~ Valid(budget', r)
      BY <2>1 DEF Valid
    <2>3. Len(ledger') = Len(ledger) + 1 /\ ~ ledger'[Len(ledger')].executed
              => budget' = budget
      <3> SUFFICES ASSUME Len(ledger') = Len(ledger) + 1,
                          ~ ledger'[Len(ledger')].executed
                   PROVE  budget' = budget
        OBVIOUS
      <3>0. ledger \in Seq(StepRecords) /\ Len(ledger) \in Nat
        BY <1>1 DEF IInv, TypeOK
      <3>1. ASSUME NEW r \in held, CommitExecuted(r) PROVE FALSE
        <4>1. r \in Reservations /\ budget \in Budgets /\ Valid(budget, r)
          BY <1>1, <3>1 DEF IInv, TypeOK, CommitExecuted
        <4>2. StepRecord(r, TRUE, budget') \in StepRecords
          <5>1. budget' \in Budgets
            BY <3>1, <4>1, ChargeType DEF CommitExecuted
          <5> QED
            BY <4>1, <5>1, RecordType
        <4>3. ledger' = Append(ledger, StepRecord(r, TRUE, budget'))
          BY <3>1 DEF CommitExecuted
        <4>4. Append(ledger, StepRecord(r, TRUE, budget'))[Len(ledger) + 1]
                  = StepRecord(r, TRUE, budget')
          BY <3>0, <4>2, AppendProperties
        <4>5. ledger'[Len(ledger')] = StepRecord(r, TRUE, budget')
          BY <4>3, <4>4
        <4> QED
          BY <4>5 DEF StepRecord
      <3>2. CASE RestoreState
        BY <3>0, <3>2, <1>1 DEF RestoreState, IInv, TypeOK
      <3> QED
        BY <1>1, <3>0, <3>1, <3>2
        DEF Next, Plan, PlanElsewhere, Alter, CommitSkipped, CommitRefused, Drop, SaveState, vars
    <2> QED
      BY <2>2, <2>3
  <1> QED
    BY <1>1, Invariance, PTL DEF Spec, OnlyUpdatesInvalidate

=============================================================================
