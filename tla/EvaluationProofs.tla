-------------------------- MODULE EvaluationProofs --------------------------
(***************************************************************************)
(* Proofs about Evaluation, for every benchmark, protocol and contract,    *)
(* every outcome a response may report and every order of arrival; and     *)
(* about the extraction of an answer from a response, for every text.      *)
(***************************************************************************)
EXTENDS Evaluation, ExactMath, FiniteSetTheorems, SequenceTheorems, WellFoundedInduction, TLAPS

\* The inputs are what they were, and nothing exists before its phase.
FrozenInv ==
    /\ descriptor \in Descriptors
    /\ protocol \in Protocols
    /\ ProtocolHolds(protocol)
    /\ DescriptorHolds(descriptor)
    /\ ContractHolds(contract)
    /\ phase = "start" => public = Nothing
    /\ phase \in {"start", "public", "answered"} => batch = Nothing
    /\ phase # "reported" => report = Nothing

\* What comes back are responses.
ReplyInv == \A k \in DOMAIN replies : ResponseHolds(replies[k].outcome)

\* A batch is what run_generation makes of the responses it accepts.
BatchInv ==
    batch # Nothing =>
        /\ AnswersEachOnce(Grid, replies)
        /\ BatchHolds(NewBatch)
        /\ batch = NewBatch
        /\ LoadsPublic(descriptor, public)

\* After the vault is loaded it holds the sealed file's answers.
VaultInv ==
    phase \in {"vault", "reported"} =>
        /\ batch = NewBatch
        /\ AnswersEachOnce(Grid, replies)
        /\ LoadsPublic(descriptor, public)
        /\ LoadsVault(descriptor, public, descriptor.sealed)
        /\ vault = Vault(descriptor, public, descriptor.sealed)

\* A report is of records that completed and could be scored, under a contract
\* that fits the protocol.
ReportInv ==
    report # Nothing =>
        /\ phase = "reported"
        /\ Compatible
        /\ FailedCount(batch) = 0
        /\ \A n \in DOMAIN batch.records : VerdictOn(batch.records[n]) # "gold"
        /\ report = Report(batch, contract.ks, Scores(batch))

\* What is loaded after "start" passed load_public_benchmark.
PublicInv ==
    phase \in {"public", "answered", "batch", "vault", "reported"} =>
        LoadsPublic(descriptor, public)

\* A batch follows the responses.
PhaseInv == phase \in {"batch", "vault", "reported"} =>
    batch = NewBatch /\ AnswersEachOnce(Grid, replies) /\ BatchHolds(NewBatch)

IInv == FrozenInv /\ PublicInv /\ ReplyInv /\ PhaseInv /\ BatchInv /\ VaultInv /\ ReportInv

\* Every place of a grid of c items with s samples each is a sample of an item.
LEMMA GridPlaces ==
    ASSUME NEW c \in Nat, NEW s \in Nat, s >= 1, NEW n \in 1..(c * s)
    PROVE  ((n - 1) \div s) + 1 \in 1..c
  <1> DEFINE q == (n - 1) \div s
  <1>1. /\ q \in Int /\ s * q <= n - 1 /\ n - 1 < s * q + s
        OBVIOUS
  <1>2. q >= 0
    <2>1. ASSUME q <= -1 PROVE FALSE
      <3>1. s * q + s = s * (q + 1)
            BY <1>1
      <3>2. s * (q + 1) <= 0
            BY <1>1, <2>1
      <3> QED  BY <1>1, <3>1, <3>2
    <2> QED  BY <1>1, <2>1
  <1>3. q < c
    <2>1. ASSUME q >= c PROVE FALSE
      <3>1. s * q >= s * c
            BY <1>1, <2>1
      <3> QED  BY <1>1, <3>1
    <2> QED  BY <1>1, <2>1
  <1> HIDE DEF q
  <1>4. q + 1 \in 1..c
        BY <1>1, <1>2, <1>3
  <1> QED  BY <1>4 DEF q

\* The places of the grid once the items are loaded.
LEMMA PlacesOfGrid ==
    ASSUME FrozenInv, LoadsPublic(descriptor, public)
    PROVE  /\ descriptor.count \in Nat /\ protocol.samples \in Nat /\ protocol.samples >= 1
           /\ DOMAIN Grid = 1..(descriptor.count * protocol.samples)
           /\ IsFiniteSet(DOMAIN Grid)
           /\ \A n \in DOMAIN Grid : ItemAt(protocol, n) \in DOMAIN public
  <1>a. descriptor \in Descriptors /\ ProtocolHolds(protocol)
        BY DEF FrozenInv
  <1>b. protocol.samples \in 1..MAX_SAMPLES_PER_ITEM
        BY Zenon, <1>a DEF ProtocolHolds
  <1>c. descriptor.count \in Nat
        BY Zenon, <1>a, DescriptorAssumption
  <1>d. MAX_SAMPLES_PER_ITEM \in Nat
        BY DEF MAX_SAMPLES_PER_ITEM
  <1>1. /\ descriptor.count \in Nat /\ protocol.samples \in Nat /\ protocol.samples >= 1
        BY <1>b, <1>c, <1>d
  <1>2. Len(public) = descriptor.count /\ DOMAIN public = 1..descriptor.count
        BY DescriptorAssumption DEF LoadsPublic, FrozenInv
  <1>3. DOMAIN Grid = 1..(descriptor.count * protocol.samples)
        BY <1>2 DEF Grid, Requests, Places
  <1>4. descriptor.count * protocol.samples \in Nat
        BY <1>1
  <1>5. IsFiniteSet(DOMAIN Grid)
        BY <1>3, <1>4, FS_Interval
  <1>6. \A n \in DOMAIN Grid : ItemAt(protocol, n) \in DOMAIN public
        BY <1>1, <1>2, <1>3, GridPlaces DEF ItemAt
  <1> QED  BY <1>1, <1>3, <1>5, <1>6

\* Every response the backend returns is one.
LEMMA RepliesHold ==
    ASSUME FrozenInv, LoadsPublic(descriptor, public), Backend
    PROVE  ReplyInv'
  <1> DEFINE total == descriptor.count * protocol.samples
             fit == {o \in Outcomes[protocol.mode] : ResponseHolds(o)}
  <1>1. DOMAIN Grid = 1..total
        BY PlacesOfGrid
  <1>2. total \in Nat /\ total >= 1
    <2>1. descriptor.count \in Nat /\ protocol.samples \in Nat /\ protocol.samples >= 1
          BY PlacesOfGrid
    <2>2. MAX_ITEMS \in Nat
          BY DEF MAX_ITEMS
    <2>3. descriptor.count >= 1
          BY <2>1, <2>2 DEF FrozenInv, DescriptorHolds
    <2> QED  BY <2>1, <2>3
  <1>3. PICK outcomes \in [DOMAIN Grid -> fit], order \in Arrivals(total) :
            replies' = [k \in DOMAIN order |->
                IF order[k] = 0
                THEN [id |-> Stranger, outcome |-> outcomes[1]]
                ELSE [id |-> Grid[order[k]], outcome |-> outcomes[order[k]]]]
        BY DEF Backend
  <1>4. \A k \in DOMAIN order : order[k] \in 0..total
        BY ArrivalAssumption DEF FrozenInv
  <1> HIDE DEF total
  <1>5. \A n \in 1..total : ResponseHolds(outcomes[n])
        BY <1>1
  <1>6. ASSUME NEW k \in DOMAIN order PROVE ResponseHolds(replies'[k].outcome)
    <2>1. CASE order[k] = 0
          BY <1>2, <1>3, <1>5, <2>1
    <2>2. CASE order[k] # 0
      <3>1. order[k] \in 1..total
            BY <1>2, <1>4, <2>2
      <3> QED  BY <1>3, <1>5, <2>2, <3>1
    <2> QED  BY <2>1, <2>2
  <1>7. DOMAIN replies' = DOMAIN order
        BY <1>3
  <1> QED  BY <1>6, <1>7 DEF ReplyInv

\* The invariant holds at first.
LEMMA Start == Init => IInv
  BY DEF Init, IInv, FrozenInv, PublicInv, ReplyInv, PhaseInv, BatchInv, VaultInv, ReportInv

\* Refusals leave everything as it was.
LEMMA RefuseStep ==
    ASSUME IInv, RefusePublic \/ RefuseResponses \/ RefuseVault \/ RefuseScoring
    PROVE  IInv'
  <1>1. /\ phase' = "refused"
        /\ phase \in {"start", "answered", "batch", "vault"}
        /\ UNCHANGED <<descriptor, protocol, contract, public, replies, batch, vault, report>>
        BY DEF RefusePublic, RefuseResponses, RefuseVault, RefuseScoring, Refuse, frozen
  <1>2. report' = Nothing
        BY <1>1 DEF IInv, FrozenInv
  <1>3. FrozenInv' /\ PublicInv' /\ PhaseInv' /\ VaultInv' /\ ReportInv'
        BY <1>1, <1>2 DEF IInv, FrozenInv, PublicInv, PhaseInv, VaultInv, ReportInv
  <1>4. BatchInv'
        BY <1>1 DEF IInv, BatchInv, NewBatch, Grid
  <1>5. ReplyInv'
        BY <1>1 DEF IInv, ReplyInv
  <1> QED  BY <1>3, <1>4, <1>5 DEF IInv

\* Loading the items and asking the backend: there is no batch yet.
LEMMA EarlyStep ==
    ASSUME IInv, LoadPublic \/ Backend
    PROVE  IInv'
  <1>1. /\ phase' \in {"public", "answered"}
        /\ batch' = Nothing /\ report' = Nothing
        /\ UNCHANGED <<descriptor, protocol, contract>>
        BY DEF LoadPublic, Backend, frozen, IInv, FrozenInv
  <1>2. LoadsPublic(descriptor, public)'
        BY DEF LoadPublic, Backend, frozen, IInv, PublicInv
  <1>3. ReplyInv'
    <2>1. CASE LoadPublic
          BY <2>1 DEF LoadPublic, IInv, ReplyInv
    <2>2. CASE Backend
      <3>1. LoadsPublic(descriptor, public)
            BY <2>2 DEF Backend, IInv, PublicInv
      <3> QED  BY <2>2, <3>1, RepliesHold DEF IInv
    <2> QED  BY <2>1, <2>2
  <1> QED  BY <1>1, <1>2, <1>3
           DEF IInv, FrozenInv, PublicInv, PhaseInv, BatchInv, VaultInv, ReportInv

\* A batch is made.
LEMMA BatchStep ==
    ASSUME IInv, MakeBatch
    PROVE  IInv'
  <1>1. /\ phase = "answered" /\ phase' = "batch"
        /\ UNCHANGED <<descriptor, protocol, contract, public, replies, vault, report>>
        /\ batch' = NewBatch
        /\ AnswersEachOnce(Grid, replies)
        /\ BatchHolds(NewBatch)
        /\ report = Nothing
        BY DEF MakeBatch, Generates, frozen, IInv, FrozenInv
  <1>2. NewBatch' = NewBatch /\ Grid' = Grid
        BY <1>1 DEF NewBatch, Grid
  <1>3. AnswersEachOnce(Grid, replies)' /\ BatchHolds(NewBatch)'
        BY <1>1, <1>2
  <1>4. LoadsPublic(descriptor, public)'
        BY <1>1 DEF IInv, PublicInv
  <1> QED  BY <1>1, <1>2, <1>3, <1>4
           DEF IInv, FrozenInv, PublicInv, ReplyInv, PhaseInv, BatchInv, VaultInv, ReportInv

\* The vault is loaded, or the batch is scored.
LEMMA LateStep ==
    ASSUME IInv, LoadVault \/ Evaluate
    PROVE  IInv'
  <1>1. /\ phase \in {"batch", "vault"} /\ phase' \in {"vault", "reported"}
        /\ UNCHANGED <<descriptor, protocol, contract, public, replies, batch>>
        BY DEF LoadVault, Evaluate, frozen
  <1>2. NewBatch' = NewBatch /\ Grid' = Grid
        BY <1>1 DEF NewBatch, Grid
  <1>3. FrozenInv'
        BY <1>1 DEF LoadVault, Evaluate, IInv, FrozenInv
  <1>4. PublicInv'
        BY <1>1 DEF IInv, PublicInv
  <1>5. AnswersEachOnce(Grid, replies)' /\ BatchHolds(NewBatch)' /\ batch' = NewBatch'
        BY <1>1, <1>2 DEF IInv, PhaseInv
  <1>6. PhaseInv' /\ BatchInv'
        BY <1>1, <1>4, <1>5 DEF PhaseInv, BatchInv, PublicInv
  <1>7. VaultInv'
    <2>1. CASE LoadVault
          BY <2>1, <1>1, <1>4, <1>5 DEF LoadVault, VaultInv, PublicInv
    <2>2. CASE Evaluate
          BY <2>2, <1>1, <1>4, <1>5 DEF Evaluate, IInv, VaultInv, PublicInv
    <2> QED  BY <2>1, <2>2
  <1>8. ReportInv'
    <2>1. CASE LoadVault
          BY <2>1, <1>1 DEF LoadVault, IInv, FrozenInv, ReportInv
    <2>2. CASE Evaluate
      <3>0. Compatible'
            BY <1>1, <2>2 DEF Evaluate, Evaluates, Compatible
      <3>1. /\ FailedCount(batch) = 0
            /\ \A n \in DOMAIN batch.records : VerdictOn(batch.records[n]) # "gold"
            /\ report' = Report(batch, contract.ks, Scores(batch))
            /\ phase' = "reported" /\ vault' = vault
            BY <2>2 DEF Evaluate, Evaluates
      <3>2. \A n \in DOMAIN batch.records :
               VerdictOn(batch.records[n])' = VerdictOn(batch.records[n])
            BY <1>1, <3>1 DEF VerdictOn
      <3>3. Scores(batch)' = Scores(batch)
            BY <1>1, <3>1, <3>2 DEF Scores, VerdictOn
      <3> QED  BY <1>1, <3>0, <3>1, <3>2, <3>3 DEF ReportInv
    <2> QED  BY <2>1, <2>2
  <1>9. ReplyInv'
        BY <1>1 DEF IInv, ReplyInv
  <1> QED  BY <1>3, <1>4, <1>6, <1>7, <1>8, <1>9 DEF IInv

\* The invariant is inductive.
LEMMA Invariance == Spec => []IInv
  <1>1. IInv /\ [Next]_vars => IInv'
    <2> SUFFICES ASSUME IInv, [Next]_vars PROVE IInv'
        OBVIOUS
    <2>1. CASE UNCHANGED vars
      <3>1. UNCHANGED <<phase, descriptor, protocol, contract, public, replies, batch, vault,
                        report>>
            BY <2>1 DEF vars
      <3>2. NewBatch' = NewBatch /\ Grid' = Grid /\ Scores(batch)' = Scores(batch)
            BY <3>1 DEF NewBatch, Grid, Scores, VerdictOn
      <3>3. Compatible' = Compatible
            BY <3>1 DEF Compatible
      <3> QED  BY <3>1, <3>2, <3>3 DEF IInv, FrozenInv, PublicInv, ReplyInv, PhaseInv,
                                       BatchInv, VaultInv, ReportInv, VerdictOn
    <2>2. CASE Next
          BY <2>2, RefuseStep, EarlyStep, BatchStep, LateStep DEF Next
    <2> QED  BY <2>1, <2>2
  <1> QED  BY <1>1, Start, PTL DEF Spec

-----------------------------------------------------------------------------

\* The response that Records takes for a request is the one with its id.
LEMMA RecordOfReply ==
    ASSUME AnswersEachOnce(Grid, replies), batch = NewBatch, NEW n \in DOMAIN Grid
    PROVE  \E k \in DOMAIN replies :
              /\ replies[k].id = Grid[n]
              /\ batch.records[n] = [request |-> Grid[n], outcome |-> replies[k].outcome]
              /\ \A j \in DOMAIN replies \ {k} : replies[j].id # Grid[n]
  <1>1. Grid[n] \in {replies[k].id : k \in DOMAIN replies}
        BY DEF AnswersEachOnce
  <1> DEFINE k == CHOOSE k \in DOMAIN replies : replies[k].id = Grid[n]
  <1>2. k \in DOMAIN replies /\ replies[k].id = Grid[n]
        BY <1>1
  <1>3. batch.records[n] = [request |-> Grid[n], outcome |-> replies[k].outcome]
        BY DEF NewBatch, Records
  <1>4. \A j \in DOMAIN replies \ {k} : replies[j].id # Grid[n]
        BY <1>2 DEF AnswersEachOnce
  <1> QED  BY <1>2, <1>3, <1>4

\* However the backend answers, a record holds the outcome of the only response
\* with its id.
THEOREM OneOutcome == Spec => []OneOutcomePerRequest
  <1>1. IInv => OneOutcomePerRequest
        BY RecordOfReply DEF IInv, BatchInv, OneOutcomePerRequest
  <1> QED  BY <1>1, Invariance, PTL

\* Loading accepts whatever generating produced.
THEOREM BatchesLoad == Spec => []PublishedBatchesLoad
  <1>1. ASSUME IInv, batch # Nothing PROVE Reloads
    <2>1. /\ AnswersEachOnce(Grid, replies) /\ BatchHolds(NewBatch) /\ batch = NewBatch
          /\ ReplyInv
          BY <1>1 DEF IInv, BatchInv
    <2>2. BatchOf(Manifest(batch), batch.records) = batch
          BY <2>1 DEF BatchOf, Manifest, NewBatch
    <2>3. DOMAIN batch.records = DOMAIN Grid
          BY <2>1 DEF NewBatch, Records
    <2>4. ASSUME NEW n \in DOMAIN Grid
          PROVE  ResponseHolds(batch.records[n].outcome) /\ batch.records[n].request = Grid[n]
      <3>1. PICK k \in DOMAIN replies :
                batch.records[n] = [request |-> Grid[n], outcome |-> replies[k].outcome]
            BY <2>1, RecordOfReply
      <3> QED  BY <2>1, <3>1 DEF ReplyInv
    <2>5. Requests(public, Manifest(batch).checkpoint, Manifest(batch).protocol) = Grid
          BY <2>1 DEF Manifest, NewBatch, Grid
    <2>6. /\ Manifest(batch).descriptor = descriptor /\ Manifest(batch).public = public
          /\ Manifest(batch).records = batch.records
          /\ Manifest(batch).count = Len(batch.records)
          /\ Manifest(batch).failed = FailedCount(batch)
          BY <2>1 DEF Manifest, NewBatch
    <2> QED  BY <2>1, <2>2, <2>3, <2>4, <2>5, <2>6 DEF Reloads, BundleLoads
  <1>2. IInv => PublishedBatchesLoad
        BY <1>1 DEF PublishedBatchesLoad
  <1> QED  BY <1>2, Invariance, PTL

\* A record that is scored completed, and so did its response.
LEMMA ScoredCompleted ==
    ASSUME IInv, report # Nothing, NEW n \in DOMAIN Grid
    PROVE  Completed(batch.records[n].outcome)
  <1>1. /\ FrozenInv /\ LoadsPublic(descriptor, public) /\ batch = NewBatch
        /\ FailedCount(batch) = 0
        BY DEF IInv, ReportInv, VaultInv
  <1>2. DOMAIN batch.records = DOMAIN Grid
        BY <1>1 DEF NewBatch, Records
  <1> DEFINE failed == {m \in DOMAIN batch.records : ~ Completed(batch.records[m].outcome)}
  <1>3. IsFiniteSet(failed)
        BY <1>1, <1>2, PlacesOfGrid, FS_Subset
  <1>4. failed = {}
        BY <1>1, <1>3, FS_EmptySet DEF FailedCount
  <1> QED  BY <1>2, <1>4

\* Every score is the verdict on its own response against its own answer.
THEOREM ScoresAreOwn == Spec => []ScoredAgainstOwnAnswer
  <1>1. ASSUME IInv, report # Nothing, NEW n \in DOMAIN Grid
        PROVE  \E k \in DOMAIN replies, i \in DOMAIN descriptor.sealed :
                  /\ replies[k].id = Grid[n]
                  /\ descriptor.sealed[i].id = public[ItemAt(protocol, n)].id
                  /\ Completed(replies[k].outcome)
                  /\ report.scores[n].verdict =
                         Verdict[<<descriptor.sealed[i].reference, replies[k].outcome.text>>]
    <2>1. /\ FrozenInv /\ LoadsPublic(descriptor, public) /\ batch = NewBatch
          /\ AnswersEachOnce(Grid, replies)
          /\ LoadsVault(descriptor, public, descriptor.sealed)
          /\ vault = Vault(descriptor, public, descriptor.sealed)
          /\ report = Report(batch, contract.ks, Scores(batch))
          BY <1>1 DEF IInv, ReportInv, VaultInv
    <2>2. PICK k \in DOMAIN replies :
              /\ replies[k].id = Grid[n]
              /\ batch.records[n] = [request |-> Grid[n], outcome |-> replies[k].outcome]
          BY <1>1, <2>1, RecordOfReply
    <2>3. Completed(replies[k].outcome)
          BY <1>1, <2>2, ScoredCompleted
    <2> DEFINE id == public[ItemAt(protocol, n)].id
               sealed == descriptor.sealed
               i == CHOOSE i \in DOMAIN sealed : sealed[i].id = id
    <2>4. id \in Ids(sealed)
          BY <1>1, <2>1, PlacesOfGrid DEF LoadsVault, Ids
    <2>5. i \in DOMAIN sealed /\ sealed[i].id = id
          BY <2>4 DEF Ids
    <2>6. vault.references[id] = sealed[i].reference
          BY <2>1, <2>4 DEF Vault
    <2>7. Grid[n].item = id
          BY <1>1 DEF Grid, Requests, Request
    <2>8. VerdictOn(batch.records[n]) = Verdict[<<sealed[i].reference, replies[k].outcome.text>>]
          BY <2>2, <2>6, <2>7 DEF VerdictOn
    <2>9. report.scores[n].verdict = VerdictOn(batch.records[n])
          BY <1>1, <2>1 DEF Report, Scores, SampleScore, NewBatch, Records
    <2> QED  BY <2>2, <2>3, <2>5, <2>8, <2>9
  <1>2. IInv => ScoredAgainstOwnAnswer
        BY <1>1 DEF ScoredAgainstOwnAnswer
  <1> QED  BY <1>2, Invariance, PTL

\* A failed generation or an unusable reference is never scored.
THEOREM InfrastructureBlocks == Spec => []InfrastructureIsNotScored
  <1>1. ASSUME IInv, report # Nothing
        PROVE  /\ \A k \in DOMAIN replies : Completed(replies[k].outcome)
               /\ \A n \in DOMAIN report.scores : report.scores[n].verdict # "gold"
    <2>1. /\ batch = NewBatch /\ AnswersEachOnce(Grid, replies)
          /\ report = Report(batch, contract.ks, Scores(batch))
          /\ \A n \in DOMAIN batch.records : VerdictOn(batch.records[n]) # "gold"
          BY <1>1 DEF IInv, ReportInv, VaultInv
    <2>2. ASSUME NEW k \in DOMAIN replies PROVE Completed(replies[k].outcome)
      <3>0. replies[k].id \in {replies[j].id : j \in DOMAIN replies}
            OBVIOUS
      <3>1a. replies[k].id \in {Grid[n] : n \in DOMAIN Grid}
            BY Zenon, <2>1, <3>0 DEF AnswersEachOnce
      <3>1. PICK n \in DOMAIN Grid : Grid[n] = replies[k].id
            BY Zenon, <3>1a
      <3>2. PICK m \in DOMAIN replies :
               /\ replies[m].id = Grid[n]
               /\ batch.records[n] = [request |-> Grid[n], outcome |-> replies[m].outcome]
            BY <2>1, RecordOfReply
      <3>3. m = k
            BY <2>1, <3>1, <3>2 DEF AnswersEachOnce
      <3> QED  BY <1>1, <3>2, <3>3, ScoredCompleted
    <2>3. report.scores = Scores(batch)
          BY <2>1 DEF Report
    <2>4. ASSUME NEW n \in DOMAIN report.scores PROVE report.scores[n].verdict # "gold"
      <3>1. n \in DOMAIN batch.records
            BY <2>3 DEF Scores
      <3>2. report.scores[n] = SampleScore(batch.records[n], VerdictOn(batch.records[n]))
            BY <2>3, <3>1 DEF Scores
      <3> QED  BY <2>1, <3>1, <3>2 DEF SampleScore
    <2> QED  BY <2>2, <2>4
  <1>2. IInv => InfrastructureIsNotScored
        BY <1>1 DEF InfrastructureIsNotScored
  <1> QED  BY <1>2, Invariance, PTL

-----------------------------------------------------------------------------

\* Numbers are well founded.
LEMMA LeastNumber ==
    ASSUME NEW T \in SUBSET Nat, NEW x \in T
    PROVE  \E n \in T : \A m \in T : n <= m
  <1> DEFINE R == OpToRel(<, Nat)
  <1>1. IsWellFoundedOn(R, Nat)
    BY NatLessThanWellFounded
  <1>2. \A m, n \in Nat : m < n => <<m, n>> \in R
    BY DEF OpToRel
  <1> HIDE DEF R
  <1>3. PICK n \in T : \A m \in T : ~ (<<m, n>> \in R)
    BY <1>1, WFMin
  <1>4. \A m \in T : ~ (m < n)
    BY <1>2, <1>3
  <1>5. n \in Nat /\ T \subseteq Nat
    OBVIOUS
  <1> QED BY <1>4, <1>5

LEMMA Induction ==
    ASSUME NEW S, 0 \in S, \A n \in Nat : n \in S => n + 1 \in S
    PROVE  Nat \subseteq S
  <1> SUFFICES ASSUME NEW x \in Nat \ S PROVE FALSE
    OBVIOUS
  <1>1. PICK n \in Nat \ S : \A m \in Nat \ S : n <= m
    BY LeastNumber
  <1>2. n # 0
    OBVIOUS
  <1>3. n - 1 \in Nat /\ (n - 1) + 1 = n
    BY <1>2
  <1>4. n - 1 \in S
    BY <1>1, <1>3
  <1> QED BY <1>3, <1>4

\* The data of a definition by recursion on D, with values in V: either a base,
\* or a step from the value at a smaller argument.
Recursive(D, V, m, stop, prev, base, step) ==
    /\ m \in [D -> Nat] /\ stop \in SUBSET D /\ prev \in [D -> D]
    /\ base \in [D -> V] /\ step \in [D \X V -> V]
    /\ \A x \in D \ stop : m[prev[x]] < m[x]

\* It defines a function.
LEMMA Recursion ==
    ASSUME NEW D, NEW V, NEW m, NEW stop, NEW prev, NEW base, NEW step,
           Recursive(D, V, m, stop, prev, base, step)
    PROVE  \E h \in [D -> V] :
               \A x \in D : h[x] = IF x \in stop THEN base[x] ELSE step[<<x, h[prev[x]]>>]
  <1> USE DEF Recursive
  <1> DEFINE B(n) == {x \in D : m[x] < n}
             F(x, h) == IF x \in stop THEN base[x] ELSE step[<<x, h[prev[x]]>>]
             G(n) == {h \in [D -> V] : \A x \in B(n) : h[x] = F(x, h)}
             S == {n \in Nat : G(n) # {} /\ \A g, h \in G(n) : \A x \in B(n) : g[x] = h[x]}
  <1>0. \A x \in D : m[x] \in Nat
    OBVIOUS
  <1>1. 0 \in S
    <2>1. B(0) = {}
      BY <1>0
    <2>2. base \in G(0)
      BY <2>1
    <2> QED BY <2>1, <2>2
  <1>2. ASSUME NEW n \in Nat, n \in S PROVE n + 1 \in S
    <2>1. PICK h \in [D -> V] : \A x \in B(n) : h[x] = F(x, h)
      BY <1>2
    <2>2. \A x \in D : x \in B(n + 1) /\ x \notin stop => prev[x] \in B(n)
      BY <1>0
    <2>3. B(n) \subseteq B(n + 1)
      BY <1>0
    <2> DEFINE k == [x \in D |-> IF x \in B(n + 1) THEN F(x, h) ELSE h[x]]
    <2>4. \A x \in D : F(x, h) \in V
      OBVIOUS
    <2>5. k \in [D -> V]
      BY <2>4
    <2>6. \A x \in B(n) : k[x] = h[x]
      BY <2>1, <2>3
    <2>7. \A x \in B(n + 1) : k[x] = F(x, k)
      BY <2>2, <2>6
    <2>8. G(n + 1) # {}
      BY <2>5, <2>7
    <2>9. ASSUME NEW f \in G(n + 1), NEW g \in G(n + 1), NEW x \in B(n + 1) PROVE f[x] = g[x]
      <3>1. f \in G(n) /\ g \in G(n)
        BY <2>3
      <3>2. \A y \in B(n) : f[y] = g[y]
        BY <1>2, <3>1
      <3>3. F(x, f) = F(x, g)
        BY <2>2, <3>2
      <3> QED BY <3>3
    <2> QED BY <2>8, <2>9
  <1>3. Nat \subseteq S
    <2> HIDE DEF S
    <2> QED BY <1>1, <1>2, Induction
  <1> DEFINE pick(n) == CHOOSE h \in [D -> V] : h \in G(n)
             all == [x \in D |-> pick(m[x] + 1)[x]]
  <1>4. \A n \in Nat : pick(n) \in G(n)
    BY <1>3
  <1> HIDE DEF pick
  <1>5. ASSUME NEW n \in Nat, NEW x \in B(n) PROVE all[x] = pick(n)[x]
    <2>1. m[x] + 1 \in Nat /\ x \in B(m[x] + 1) /\ m[x] + 1 <= n
      BY <1>0
    <2>2. B(m[x] + 1) \subseteq B(n)
      BY <2>1, <1>0
    <2>3. pick(n) \in G(m[x] + 1)
      BY <2>2, <1>4
    <2>4. pick(m[x] + 1)[x] = pick(n)[x]
      <3>1. m[x] + 1 \in S
        BY <2>1, <1>3
      <3>2. \A g, h \in G(m[x] + 1) : \A y \in B(m[x] + 1) : g[y] = h[y]
        BY <3>1
      <3>3. pick(m[x] + 1) \in G(m[x] + 1)
        BY <2>1, <1>4
      <3> HIDE DEF G, B
      <3> QED BY <2>1, <2>3, <3>2, <3>3
    <2> QED BY <2>4
  <1>6. all \in [D -> V]
    BY <1>0, <1>4
  <1>7. ASSUME NEW x \in D PROVE all[x] = F(x, all)
    <2>1. m[x] + 1 \in Nat /\ x \in B(m[x] + 1)
      BY <1>0
    <2>2. all[x] = pick(m[x] + 1)[x] /\ pick(m[x] + 1)[x] = F(x, pick(m[x] + 1))
      BY <2>1, <1>4
    <2>3. x \notin stop => prev[x] \in B(m[x] + 1)
      BY <1>0
    <2>4. x \notin stop => all[prev[x]] = pick(m[x] + 1)[prev[x]]
      BY <2>1, <2>3, <1>5
    <2> HIDE DEF all
    <2> QED BY <2>2, <2>4
  <1> HIDE DEF all
  <1> QED BY <1>6, <1>7

-----------------------------------------------------------------------------

LEMMA FactorialIsDefined ==
    /\ factorial \in [Nat -> Nat]
    /\ \A n \in Nat : factorial[n] = IF n = 0 THEN 1 ELSE n * factorial[n - 1]
  <1> DEFINE m == [n \in Nat |-> n]
             prev == [n \in Nat |-> IF n = 0 THEN 0 ELSE n - 1]
             base == [n \in Nat |-> 1]
             step == [x \in Nat \X Nat |-> x[1] * x[2]]
  <1>1. Recursive(Nat, Nat, m, {0}, prev, base, step)
    BY DEF Recursive
  <1>2. PICK h \in [Nat -> Nat] :
           \A n \in Nat : h[n] = IF n \in {0} THEN base[n] ELSE step[<<n, h[prev[n]]>>]
    <2> HIDE DEF m, prev, base, step
    <2> QED BY <1>1, Recursion
  <1>3. \A n \in Nat : h[n] = IF n = 0 THEN 1 ELSE n * h[n - 1]
    <2> TAKE n \in Nat
    <2>1. CASE n = 0
      BY <1>2, <2>1
    <2>2. CASE n # 0
      <3>1. prev[n] = n - 1 /\ n - 1 \in Nat
        BY <2>2
      <3>2. step[<<n, h[n - 1]>>] = n * h[n - 1]
        BY <3>1
      <3>3. h[n] = step[<<n, h[prev[n]]>>]
        BY <1>2, <2>2
      <3> QED BY <2>2, <3>1, <3>2, <3>3
    <2> QED BY <2>1, <2>2
  <1> HIDE DEF m, prev, base, step
  <1>4. h = [n \in Nat |-> IF n = 0 THEN 1 ELSE n * h[n - 1]]
    BY <1>2, <1>3
  <1>5. factorial = CHOOSE f : f = [n \in Nat |-> IF n = 0 THEN 1 ELSE n * f[n - 1]]
    BY DEF factorial
  <1>6. factorial = [n \in Nat |-> IF n = 0 THEN 1 ELSE n * factorial[n - 1]]
    BY <1>4, <1>5
  <1>7. \A n \in Nat : factorial[n] = IF n = 0 THEN 1 ELSE n * factorial[n - 1]
    BY <1>6
  <1>8. DOMAIN factorial = Nat /\ factorial = [n \in Nat |-> factorial[n]]
    BY <1>6
  <1>9. \A n \in Nat : factorial[n] \in Nat
    <2> DEFINE S == {n \in Nat : factorial[n] \in Nat}
    <2>1. 0 \in S
      BY <1>7
    <2>2. \A n \in Nat : n \in S => n + 1 \in S
      <3> SUFFICES ASSUME NEW n \in Nat, factorial[n] \in Nat PROVE factorial[n + 1] \in Nat
        OBVIOUS
      <3>1. n + 1 \in Nat /\ n + 1 # 0 /\ (n + 1) - 1 = n
        OBVIOUS
      <3>2. factorial[n + 1] = (n + 1) * factorial[n]
        BY <1>7, <3>1
      <3> QED BY <3>2
    <2>3. Nat \subseteq S
      <3> HIDE DEF S
      <3> QED BY <2>1, <2>2, Induction
    <2> QED BY <2>3
  <1> QED BY <1>7, <1>8, <1>9

LEMMA FactorialFacts ==
    /\ factorial[0] = 1
    /\ \A n \in Nat : /\ factorial[n] \in Nat \ {0}
                      /\ factorial[n + 1] = (n + 1) * factorial[n]
  <1>1. factorial[0] = 1
    BY FactorialIsDefined
  <1>2. ASSUME NEW n \in Nat PROVE factorial[n + 1] = (n + 1) * factorial[n]
    <2>1. n + 1 \in Nat /\ n + 1 # 0 /\ (n + 1) - 1 = n
      OBVIOUS
    <2> QED BY <2>1, FactorialIsDefined
  <1>3. \A n \in Nat : factorial[n] \in Nat \ {0}
    <2> DEFINE S == {n \in Nat : factorial[n] \in Nat \ {0}}
    <2>1. 0 \in S
      BY <1>1
    <2>2. \A n \in Nat : n \in S => n + 1 \in S
      <3> SUFFICES ASSUME NEW n \in Nat, factorial[n] \in Nat \ {0}
                   PROVE  factorial[n + 1] \in Nat \ {0}
        OBVIOUS
      <3> DEFINE f == factorial[n]
      <3>1. f \in Nat \ {0} /\ factorial[n + 1] = (n + 1) * f
        BY <1>2
      <3> HIDE DEF f
      <3> QED BY <3>1
    <2>3. Nat \subseteq S
      <3> HIDE DEF S
      <3> QED BY <2>1, <2>2, Induction
    <2> QED BY <2>3
  <1> QED BY <1>1, <1>2, <1>3

-----------------------------------------------------------------------------

\* The choices of k members of S.
Selections(S, k) == {T \in SUBSET S : Cardinality(T) = k}

LEMMA ChoicesAreFinite ==
    ASSUME NEW S, IsFiniteSet(S), NEW k
    PROVE  /\ IsFiniteSet(Selections(S, k)) /\ Cardinality(Selections(S, k)) \in Nat
           /\ \A T \in Selections(S, k) : IsFiniteSet(T)
  <1>1. Selections(S, k) \in SUBSET SUBSET S
    BY DEF Selections
  <1>2. IsFiniteSet(SUBSET S)
    BY FS_SUBSET
  <1>3. IsFiniteSet(Selections(S, k))
    BY <1>1, <1>2, FS_Subset
  <1>4. \A T \in SUBSET S : IsFiniteSet(T)
    BY FS_Subset
  <1> QED BY <1>1, <1>3, <1>4, FS_CardinalityType

\* One member more: the choices without it, and those of one less with it.
LEMMA ChoicesOfMore ==
    ASSUME NEW S, IsFiniteSet(S), NEW x, x \notin S, NEW k \in Nat
    PROVE  Cardinality(Selections(S \cup {x}, k + 1))
               = Cardinality(Selections(S, k + 1)) + Cardinality(Selections(S, k))
  <1> DEFINE A == Selections(S, k + 1)
             B == {T \cup {x} : T \in Selections(S, k)}
             C == Selections(S, k)
  <1>0. IsFiniteSet(A) /\ IsFiniteSet(C)
    BY ChoicesAreFinite
  <1>1. \A T \in SUBSET S : IsFiniteSet(T) /\ Cardinality(T) \in Nat
    BY FS_Subset, FS_CardinalityType
  <1>2. \A T \in SUBSET S : Cardinality(T \cup {x}) = Cardinality(T) + 1
    <2> TAKE T \in SUBSET S
    <2>1. IsFiniteSet(T) /\ x \notin T
      BY <1>1
    <2> QED BY <2>1, FS_AddElement
  <1>3. Selections(S \cup {x}, k + 1) \subseteq A \cup B
    <2> SUFFICES ASSUME NEW U \in SUBSET (S \cup {x}), Cardinality(U) = k + 1
                 PROVE  U \in A \cup B
      BY DEF Selections
    <2>1. CASE x \notin U
      BY <2>1 DEF Selections
    <2>2. CASE x \in U
      <3> DEFINE T == U \ {x}
      <3>1. T \in SUBSET S /\ U = T \cup {x}
        BY <2>2
      <3>2. Cardinality(T) = k
        <4> HIDE DEF T
        <4> QED BY <1>1, <1>2, <3>1
      <3>3. T \in Selections(S, k)
        BY <3>1, <3>2 DEF Selections
      <3> HIDE DEF T
      <3> QED BY <3>1, <3>3
    <2> QED BY <2>1, <2>2
  <1>4. A \cup B \subseteq Selections(S \cup {x}, k + 1)
    <2>1. A \subseteq Selections(S \cup {x}, k + 1)
      BY DEF Selections
    <2>2. ASSUME NEW T \in Selections(S, k) PROVE T \cup {x} \in Selections(S \cup {x}, k + 1)
      <3>1. T \in SUBSET S /\ Cardinality(T) = k
        BY DEF Selections
      <3> QED BY <1>2, <3>1 DEF Selections
    <2> QED BY <2>1, <2>2
  <1>5. A \cap B = {}
    BY DEF Selections
  <1>6. IsFiniteSet(B) /\ Cardinality(B) = Cardinality(C)
    <2> DEFINE f == [T \in C |-> T \cup {x}]
    <2>1. f \in [C -> B]
      OBVIOUS
    <2>2. \A T, U \in C : f[T] = f[U] => T = U
      <3> SUFFICES ASSUME NEW T \in C, NEW U \in C, T \cup {x} = U \cup {x} PROVE T = U
        OBVIOUS
      <3>1. x \notin T /\ x \notin U
        BY DEF Selections
      <3> QED BY <3>1
    <2>3. \A b \in B : \E T \in C : f[T] = b
      OBVIOUS
    <2>4. ExistsBijection(C, B)
      <3> HIDE DEF f, B, C
      <3> QED BY <2>1, <2>2, <2>3 DEF ExistsBijection, Bijection, Injection, IsInjective, Surjection
    <2> QED BY <1>0, <2>4, FS_Bijection
  <1>7. Cardinality(A \cup B) = Cardinality(A) + Cardinality(B) - Cardinality(A \cap B)
    <2> HIDE DEF A, B
    <2> QED BY <1>0, <1>6, FS_Union
  <1>8. Selections(S \cup {x}, k + 1) = A \cup B /\ Cardinality(A \cap B) = 0
    BY <1>3, <1>4, <1>5, FS_EmptySet
  <1>9. Cardinality(A) \in Nat /\ Cardinality(C) \in Nat
    BY <1>0, FS_CardinalityType
  <1> HIDE DEF A, B, C
  <1>10. Cardinality(A \cup B) = Cardinality(A) + Cardinality(C)
    <2> DEFINE d == Cardinality(A \cap B)
    <2>1. d = 0 /\ Cardinality(A \cup B) = Cardinality(A) + Cardinality(C) - d
      BY <1>6, <1>7, <1>8
    <2> HIDE DEF d
    <2> QED BY <1>9, <2>1
  <1> QED BY <1>8, <1>10 DEF A, C

LEMMA ChoicesAtEnds ==
    ASSUME NEW S, IsFiniteSet(S)
    PROVE  /\ Cardinality(Selections(S, 0)) = 1
           /\ \A k \in Nat : k > Cardinality(S) => Selections(S, k) = {}
  <1>1. Selections(S, 0) = {{}}
    <2>1. {} \in Selections(S, 0)
      BY FS_EmptySet DEF Selections
    <2>2. \A T \in Selections(S, 0) : T = {}
      BY FS_Subset, FS_EmptySet DEF Selections
    <2> QED BY <2>1, <2>2
  <1>2. ASSUME NEW k \in Nat, k > Cardinality(S), NEW T \in Selections(S, k) PROVE FALSE
    <2>1. T \in SUBSET S /\ Cardinality(T) = k
      BY DEF Selections
    <2>2. Cardinality(T) <= Cardinality(S) /\ Cardinality(S) \in Nat
      BY <2>1, FS_Subset, FS_CardinalityType
    <2> QED BY <1>2, <2>1, <2>2
  <1>3. Cardinality({{}}) = 1
    BY FS_Singleton
  <1> QED BY <1>1, <1>2, <1>3

\* The step of Pascal's triangle, multiplied out.
LEMMA PascalStep ==
    ASSUME NEW a \in Nat, NEW b \in Nat, NEW c \in Nat, NEW m \in Nat,
           NEW u \in Nat, NEW w \in Nat, NEW p \in Nat,
           a * ((c * u) * w) = p, b * (u * (m * w)) = p
    PROVE  (a + b) * ((c * u) * (m * w)) = (c + m) * p
  <1>1. a * ((c * u) * (m * w)) = m * (a * ((c * u) * w))
    OBVIOUS
  <1>2. b * ((c * u) * (m * w)) = c * (b * (u * (m * w)))
    OBVIOUS
  <1> DEFINE x == (c * u) * (m * w)
  <1>3. a * x = m * p /\ b * x = c * p /\ x \in Nat
    BY <1>1, <1>2
  <1>4. (a + b) * x = a * x + b * x
    <2> HIDE DEF x
    <2> QED BY <1>3
  <1>5. (c + m) * p = c * p + m * p
    OBVIOUS
  <1>6. a * x + b * x = c * p + m * p
    <2>1. m * p \in Nat /\ c * p \in Nat
      OBVIOUS
    <2> HIDE DEF x
    <2> QED BY <1>3, <2>1
  <1> HIDE DEF x
  <1>7. (a + b) * x = (c + m) * p
    BY <1>4, <1>5, <1>6
  <1> QED BY <1>7 DEF x

\* How many choices of k there are, multiplied out.
Counted(S, n, k) ==
    Cardinality(Selections(S, k)) * (factorial[k] * factorial[n - k]) = factorial[n]

LEMMA ChoicesAreCounted ==
    \A n \in Nat : \A S : IsFiniteSet(S) /\ Cardinality(S) = n =>
        \A k \in 0..n : Counted(S, n, k)
  <1> DEFINE All == {n \in Nat : \A S : IsFiniteSet(S) /\ Cardinality(S) = n =>
                                     \A k \in 0..n : Counted(S, n, k)}
  <1>0. ASSUME NEW n \in Nat, NEW S, IsFiniteSet(S), Cardinality(S) = n PROVE Counted(S, n, 0)
    <2>1. Cardinality(Selections(S, 0)) = 1 /\ factorial[0] = 1 /\ factorial[n] \in Nat
      BY <1>0, ChoicesAtEnds, FactorialFacts
    <2>2. n - 0 = n
      OBVIOUS
    <2> QED BY <2>1, <2>2 DEF Counted
  <1>1. 0 \in All
    <2>1. \A S : IsFiniteSet(S) /\ Cardinality(S) = 0 => Counted(S, 0, 0)
      BY <1>0
    <2>2. \A k \in 0..0 : k = 0
      OBVIOUS
    <2> QED BY <2>1, <2>2
  <1>2. ASSUME NEW n \in Nat, n \in All PROVE n + 1 \in All
    <2> SUFFICES ASSUME NEW S, IsFiniteSet(S), Cardinality(S) = n + 1, NEW k \in 0..(n + 1)
                 PROVE  Counted(S, n + 1, k)
      OBVIOUS
    <2>1. CASE k = 0
      BY <1>0, <2>1
    <2>2. CASE k # 0
      <3>1. PICK x : x \in S
        <4>1. S # {}
          BY FS_EmptySet
        <4> QED BY <4>1
      <3> DEFINE R == S \ {x}
                 j == k - 1
                 a == Cardinality(Selections(R, j + 1))
                 b == Cardinality(Selections(R, j))
      <3>2. IsFiniteSet(R) /\ Cardinality(R) = n /\ x \notin R /\ S = R \cup {x}
        BY <3>1, FS_RemoveElement
      <3>3. j \in 0..n /\ j \in Nat /\ k = j + 1
        BY <2>2
      <3> HIDE DEF R, j
      <3>4. Cardinality(Selections(S, k)) = a + b /\ a \in Nat /\ b \in Nat
        BY <3>2, <3>3, ChoicesOfMore, ChoicesAreFinite
      <3>5. Counted(R, n, j)
        BY <1>2, <3>2, <3>3
      <3> HIDE DEF a, b
      <3> DEFINE u == factorial[j]
                 p == factorial[n]
      <3>6. /\ u \in Nat /\ p \in Nat /\ factorial[n + 1] = (n + 1) * p
            /\ factorial[j + 1] = (j + 1) * u
        BY <3>3, FactorialFacts
      <3>7. b * (u * factorial[n - j]) = p
        BY <3>5 DEF Counted, b
      <3>8. CASE j = n
        <4>1. a = 0
          <5>1. j + 1 \in Nat /\ j + 1 > Cardinality(R)
            BY <3>2, <3>3, <3>8
          <5>2. Selections(R, j + 1) = {}
            BY <3>2, <5>1, ChoicesAtEnds
          <5> QED BY <5>2, FS_EmptySet DEF a
        <4>2. n - j = 0 /\ (n + 1) - k = 0 /\ factorial[0] = 1
          BY <3>3, <3>8, FactorialFacts
        <4>3. b * (u * 1) = p
          BY <3>7, <4>2
        <4>4. (a + b) * (((n + 1) * u) * 1) = (n + 1) * p
          <5> HIDE DEF u, p
          <5> QED BY <3>4, <3>6, <4>1, <4>3
        <4> HIDE DEF u, p
        <4> QED BY <3>3, <3>4, <3>6, <3>8, <4>2, <4>4 DEF Counted
      <3>9. CASE j # n
        <4> DEFINE i == n - j - 1
                   w == factorial[i]
                   m == n - j
                   c == j + 1
        <4>1. i \in Nat /\ m \in Nat /\ m = i + 1 /\ c \in Nat /\ c + m = n + 1 /\ j + 1 \in 0..n
              /\ (n + 1) - k = m /\ n - (j + 1) = i
          BY <3>3, <3>9
        <4>2. w \in Nat /\ factorial[m] = m * w
          <5> HIDE DEF m, i
          <5> QED BY <4>1, FactorialFacts
        <4>3. Counted(R, n, j + 1)
          BY <1>2, <3>2, <4>1
        <4>4. a * ((c * u) * w) = p
          BY <3>6, <4>1, <4>3 DEF Counted, a
        <4>5. b * (u * (m * w)) = p
          BY <3>7, <4>2
        <4> HIDE DEF u, p, i, w, m, c
        <4>6. (a + b) * ((c * u) * (m * w)) = (c + m) * p
          BY <3>4, <3>6, <4>1, <4>2, <4>4, <4>5, PascalStep
        <4>7. factorial[k] = c * u /\ factorial[(n + 1) - k] = m * w
          BY <3>3, <3>6, <4>1, <4>2 DEF c
        <4>8. factorial[n + 1] = (c + m) * p
          BY <3>6, <4>1
        <4> QED BY <3>4, <4>6, <4>7, <4>8 DEF Counted
      <3> QED BY <3>8, <3>9
    <2> QED BY <2>1, <2>2
  <1>3. Nat \subseteq All
    <2> HIDE DEF All
    <2> QED BY <1>1, <1>2, Induction
  <1> QED BY <1>3

\* math.comb counts the choices.
THEOREM CombCounts ==
    ASSUME NEW S, IsFiniteSet(S), NEW k \in Nat
    PROVE  Comb(Cardinality(S), k) = Cardinality(Selections(S, k))
  <1> DEFINE n == Cardinality(S)
             c == Cardinality(Selections(S, k))
  <1>1. n \in Nat /\ c \in Nat
    BY ChoicesAreFinite, FS_CardinalityType
  <1>2. CASE k > n
    BY <1>2, ChoicesAtEnds, FS_EmptySet DEF Comb
  <1>3. CASE ~ (k > n)
    <2> DEFINE d == factorial[k] * factorial[n - k]
    <2>1. k \in 0..n /\ n - k \in Nat
      BY <1>1, <1>3
    <2>2. c * d = factorial[n]
      BY <1>1, <2>1, ChoicesAreCounted DEF Counted
    <2>3. d \in Nat \ {0}
      <3>1. factorial[k] \in Nat \ {0} /\ factorial[n - k] \in Nat \ {0}
        BY <2>1, FactorialFacts
      <3> DEFINE a == factorial[k]
                 b == factorial[n - k]
      <3>2. a \in Nat \ {0} /\ b \in Nat \ {0}
        BY <3>1
      <3> HIDE DEF a, b
      <3>3. a * b \in Nat \ {0}
        BY <3>2
      <3> QED BY <3>3 DEF a, b
    <2>4. Comb(n, k) = factorial[n] \div d
      BY <1>3 DEF Comb, choose
    <2> HIDE DEF n, c, d
    <2>5. (c * d) \div d = c
      BY <1>1, <2>3
    <2> QED BY <2>2, <2>4, <2>5 DEF n, c
  <1> QED BY <1>2, <1>3

\* The choices of k members of S that hold a member of R.
Meeting(S, R, k) == {T \in Selections(S, k) : T \cap R # {}}

\* pass_at_k_fraction counts the choices that hold a correct sample: all of
\* them but those of the wrong samples alone.
LEMMA PassesCount ==
    ASSUME NEW S, IsFiniteSet(S), NEW R \in SUBSET S, NEW k \in Nat
    PROVE  /\ IsFiniteSet(Meeting(S, R, k))
           /\ Cardinality(Meeting(S, R, k)) = Passes(Cardinality(S), Cardinality(R), k)
  <1> DEFINE A == Selections(S, k)
             B == Selections(S \ R, k)
             D == Meeting(S, R, k)
  <1>1. IsFiniteSet(R) /\ IsFiniteSet(S \ R)
    BY FS_Subset
  <1>2. IsFiniteSet(A) /\ IsFiniteSet(B) /\ Cardinality(A) \in Nat /\ Cardinality(B) \in Nat
    BY <1>1, ChoicesAreFinite
  <1>3. B \subseteq A /\ D = A \ B
    BY DEF Selections, Meeting
  <1>4. Cardinality(S \ R) = Cardinality(S) - Cardinality(R)
    <2>1. Cardinality(S \ R) = Cardinality(S) - Cardinality(S \cap R) /\ S \cap R = R
      BY FS_Difference
    <2> QED BY <2>1
  <1>5. /\ Comb(Cardinality(S), k) = Cardinality(A)
        /\ Comb(Cardinality(S) - Cardinality(R), k) = Cardinality(B)
    BY <1>1, <1>4, CombCounts
  <1> HIDE DEF A, B, D
  <1>6. IsFiniteSet(D) /\ Cardinality(D) = Cardinality(A) - Cardinality(B)
    <2>1. IsFiniteSet(A \ B) /\ Cardinality(A \ B) = Cardinality(A) - Cardinality(A \cap B)
      BY <1>2, FS_Difference
    <2>2. A \cap B = B
      BY <1>3
    <2> QED BY <1>3, <2>1, <2>2
  <1> QED BY <1>5, <1>6 DEF Passes, D

\* The pairs of a member of T and a member of its set.
Draws(F, W, T) == {c \in T \X W : c[2] \in F[c[1]]}

LEMMA PairsOfMore ==
    ASSUME NEW D, IsFiniteSet(D), NEW W, IsFiniteSet(W), NEW F \in [D -> SUBSET W],
           NEW T \in SUBSET D, NEW x \in T
    PROVE  Cardinality(Draws(F, W, T)) = Cardinality(F[x]) + Cardinality(Draws(F, W, T \ {x}))
  <1> DEFINE A == {c \in T \X W : c[1] = x /\ c[2] \in F[x]}
             B == Draws(F, W, T \ {x})
             C == F[x]
  <1>1. IsFiniteSet(C) /\ C \subseteq W
    BY FS_Subset
  <1>2. IsFiniteSet(Draws(F, W, T))
    <2>1. IsFiniteSet(T)
      BY FS_Subset
    <2>2. IsFiniteSet(T \X W)
      BY <2>1, FS_Product
    <2> QED BY <2>2, FS_Subset DEF Draws
  <1>3. Draws(F, W, T) = A \cup B /\ A \cap B = {}
    BY DEF Draws
  <1>4. IsFiniteSet(A) /\ IsFiniteSet(B)
    BY <1>2, <1>3, FS_Subset
  <1>5. Cardinality(A) = Cardinality(C)
    <2> DEFINE f == [w \in C |-> <<x, w>>]
    <2>1. f \in [C -> A]
      BY <1>1
    <2>2. \A v, w \in C : f[v] = f[w] => v = w
      OBVIOUS
    <2>3. \A c \in A : \E w \in C : f[w] = c
      OBVIOUS
    <2>4. ExistsBijection(C, A)
      <3> HIDE DEF f, A, C
      <3> QED BY <2>1, <2>2, <2>3 DEF ExistsBijection, Bijection, Injection, IsInjective, Surjection
    <2> QED BY <1>1, <2>4, FS_Bijection
  <1> HIDE DEF A, B, C
  <1>6. Cardinality(A \cup B) = Cardinality(A) + Cardinality(B) - Cardinality(A \cap B)
    BY <1>4, FS_Union
  <1>7. Cardinality(A \cup B) = Cardinality(C) + Cardinality(B)
    <2> DEFINE d == Cardinality(A \cap B)
    <2>1. d = 0 /\ Cardinality(A \cup B) = Cardinality(C) + Cardinality(B) - d
      BY <1>3, <1>5, <1>6, FS_EmptySet
    <2>2. Cardinality(C) \in Nat /\ Cardinality(B) \in Nat
      BY <1>1, <1>4, FS_CardinalityType
    <2> HIDE DEF d
    <2> QED BY <2>1, <2>2
  <1> QED BY <1>3, <1>7 DEF B, C

\* A table of the sums of v over the sets of indices, as SumFunction makes it.
Sums(it, D, v) ==
    it = [t \in SUBSET D |->
             IF t = {} THEN 0
             ELSE v[CHOOSE x \in t : TRUE] + it[t \ {CHOOSE x \in t : TRUE}]]

\* There is one such table.
LEMMA SumsAreUnique ==
    ASSUME NEW D, IsFiniteSet(D), NEW v, NEW g, Sums(g, D, v), NEW h, Sums(h, D, v)
    PROVE  g[D] = h[D]
  <1> DEFINE pick(t) == CHOOSE x \in t : TRUE
             bad == {t \in SUBSET D : g[t] # h[t]}
             sizes == {Cardinality(t) : t \in bad}
  <1>1. \A t \in SUBSET D : /\ t = {} => g[t] = 0 /\ h[t] = 0
                            /\ t # {} => /\ g[t] = v[pick(t)] + g[t \ {pick(t)}]
                                         /\ h[t] = v[pick(t)] + h[t \ {pick(t)}]
    BY DEF Sums
  <1>2. \A t \in SUBSET D : IsFiniteSet(t) /\ Cardinality(t) \in Nat
    BY FS_Subset, FS_CardinalityType
  <1>3. ASSUME NEW u \in bad PROVE FALSE
    <2>1. sizes \in SUBSET Nat /\ Cardinality(u) \in sizes
      BY <1>2
    <2>2. PICK n \in sizes : \A m \in sizes : n <= m
      <3> HIDE DEF sizes
      <3> QED BY <2>1, LeastNumber
    <2>3. PICK t \in bad : n = Cardinality(t)
      BY <2>2
    <2>4. t # {}
      BY <1>1
    <2> DEFINE x == pick(t)
    <2>5. x \in t
      BY <2>4
    <2> HIDE DEF pick
    <2>6. g[t] = v[x] + g[t \ {x}] /\ h[t] = v[x] + h[t \ {x}]
      BY <1>1, <2>4
    <2> HIDE DEF x
    <2>7. t \ {x} \in SUBSET D /\ Cardinality(t \ {x}) = Cardinality(t) - 1
      BY <1>2, <2>5, FS_RemoveElement
    <2>8. t \ {x} \notin bad
      <3> SUFFICES ASSUME t \ {x} \in bad PROVE FALSE
        OBVIOUS
      <3>1. Cardinality(t \ {x}) \in sizes
        OBVIOUS
      <3>2. n <= Cardinality(t \ {x}) /\ n \in Nat
        BY <1>2, <2>2, <2>3, <3>1
      <3> QED BY <2>3, <2>7, <3>2
    <2>9. g[t \ {x}] = h[t \ {x}]
      BY <2>7, <2>8
    <2> QED BY <2>9, <2>6
  <1> QED BY <1>3

\* A sum of sizes is the number of pairs.
LEMMA SumsCount ==
    ASSUME NEW D, IsFiniteSet(D), NEW W, IsFiniteSet(W), NEW F \in [D -> SUBSET W],
           NEW v, DOMAIN v = D, \A x \in D : v[x] = Cardinality(F[x])
    PROVE  /\ SumFunction(v) = Cardinality(Draws(F, W, D))
           /\ Cardinality(Draws(F, W, D)) \in Nat
  <1> DEFINE table == CHOOSE it : Sums(it, D, v)
             g == [t \in SUBSET D |-> Cardinality(Draws(F, W, t))]
  <1>1. SumFunction(v) = table[D]
    BY DEF SumFunction, SumFunctionOnSet, FoldFunctionOnSet, MapThenFoldSet, Sums
  <1>2. ASSUME NEW t \in SUBSET D
        PROVE  g[t] = IF t = {} THEN 0
                      ELSE v[CHOOSE x \in t : TRUE] + g[t \ {CHOOSE x \in t : TRUE}]
    <2>1. CASE t = {}
      <3>1. Draws(F, W, t) = {}
        BY <2>1 DEF Draws
      <3> QED BY <2>1, <3>1, FS_EmptySet
    <2>2. CASE t # {}
      <3> DEFINE x == CHOOSE x \in t : TRUE
      <3>1. x \in t
        BY <2>2
      <3> HIDE DEF x
      <3>2. Cardinality(Draws(F, W, t)) = Cardinality(F[x]) + Cardinality(Draws(F, W, t \ {x}))
        BY <3>1, PairsOfMore
      <3>3. g[t] = v[x] + g[t \ {x}]
        BY <3>1, <3>2
      <3> HIDE DEF g
      <3> QED BY <2>2, <3>3 DEF x
    <2> QED BY <2>1, <2>2
  <1>3. Sums(g, D, v)
    BY <1>2 DEF Sums
  <1>4. Sums(table, D, v)
    <2> HIDE DEF g
    <2> QED BY <1>3
  <1>5. table[D] = g[D]
    <2> HIDE DEF g, table
    <2> QED BY <1>3, <1>4, SumsAreUnique
  <1>6. Cardinality(Draws(F, W, D)) \in Nat
    <2>1. IsFiniteSet(D \X W)
      BY FS_Product
    <2>2. IsFiniteSet(Draws(F, W, D))
      BY <2>1, FS_Subset DEF Draws
    <2> QED BY <2>2, FS_CardinalityType
  <1> QED BY <1>1, <1>5, <1>6

-----------------------------------------------------------------------------

\* fraction_to_ppm rounds to the nearest.
LEMMA PpmIsNearest ==
    ASSUME NEW num \in Nat, NEW den \in Nat \ {0}
    PROVE  IsNearest(FractionToPpm(num, den), num, den)
  <1> DEFINE s == num * SCORE_SCALE
             b == 2 * den
             a == 2 * num * SCORE_SCALE + den
             p == a \div b
             r == a % b
             y == p * den
  <1>1. s \in Nat /\ b \in Nat \ {0} /\ a = (s + s) + den /\ a \in Nat /\ b = den + den
    BY DEF SCORE_SCALE
  <1>2. FractionToPpm(num, den) = p
    BY DEF FractionToPpm
  <1>3. p \in Nat /\ r \in 0..(b - 1) /\ a = p * b + r
    <2> HIDE DEF a, b
    <2> QED BY <1>1
  <1> HIDE DEF a, b, p, r, s
  <1>4. p * b = y + y /\ y \in Nat
    BY <1>1, <1>3
  <1> HIDE DEF y
  <1>5. -den < 2 * (y - s) /\ 2 * (y - s) <= den
    BY <1>1, <1>3, <1>4
  <1>6. -den < 2 * (p * den - num * SCORE_SCALE) /\ 2 * (p * den - num * SCORE_SCALE) <= den
    BY <1>5 DEF y, s
  <1> QED BY <1>2, <1>6 DEF IsNearest

\* A run of samples for every item: each place of the grid is one of them.
LEMMA PlacesPair ==
    ASSUME NEW c \in Nat, NEW s \in Nat \ {0}, NEW i \in 1..c, NEW a \in 1..s
    PROVE  (i - 1) * s + a \in 1..(c * s)
  <1>1. (i - 1) * s \in Nat /\ (i - 1) * s <= (c - 1) * s
    OBVIOUS
  <1>2. (c - 1) * s + s = c * s /\ (c - 1) * s \in Int /\ c * s \in Int
    OBVIOUS
  <1> QED BY <1>1, <1>2

LEMMA PlacesAreDistinct ==
    ASSUME NEW s \in Nat \ {0}, NEW i \in Nat, NEW j \in Nat, NEW a \in 1..s, NEW b \in 1..s,
           (i - 1) * s + a = (j - 1) * s + b
    PROVE  i = j /\ a = b
  <1> DEFINE x == (i - 1) * s
             y == (j - 1) * s
  <1>1. x \in Int /\ y \in Int
    OBVIOUS
  <1>2. i < j => x + s <= y
    <2>1. (i - 1) * s + s = i * s /\ (i <= j - 1 => i * s <= (j - 1) * s)
      OBVIOUS
    <2> QED BY <2>1
  <1>3. j < i => y + s <= x
    <2>1. (j - 1) * s + s = j * s /\ (j <= i - 1 => j * s <= (i - 1) * s)
      OBVIOUS
    <2> QED BY <2>1
  <1>4. x + a = y + b
    OBVIOUS
  <1> HIDE DEF x, y
  <1>5. ~ i < j /\ ~ j < i
    BY <1>1, <1>2, <1>3, <1>4
  <1>6. i = j
    BY <1>5
  <1> QED BY <1>6, <1>1, <1>4 DEF x, y

\* A set of places of the grid has as many members as pairs of an item and one
\* of its samples lie in it.
LEMMA GridCounts ==
    ASSUME NEW c \in Nat, NEW s \in Nat \ {0}, NEW R \in SUBSET (1..(c * s))
    PROVE  /\ Cardinality({p \in (1..c) \X (1..s) : (p[1] - 1) * s + p[2] \in R})
                  = Cardinality(R)
           /\ Cardinality(R) \in Nat
  <1> DEFINE P == {p \in (1..c) \X (1..s) : (p[1] - 1) * s + p[2] \in R}
             at(i, a) == (i - 1) * s + a
             f == [p \in P |-> at(p[1], p[2])]
  <1>1. f \in [P -> R]
    OBVIOUS
  <1>2. ASSUME NEW p \in P, NEW q \in P, f[p] = f[q] PROVE p = q
    <2>1. /\ p = <<p[1], p[2]>> /\ p[1] \in Nat /\ p[2] \in 1..s
          /\ q = <<q[1], q[2]>> /\ q[1] \in Nat /\ q[2] \in 1..s
      OBVIOUS
    <2>2. (p[1] - 1) * s + p[2] = (q[1] - 1) * s + q[2]
      BY <1>2
    <2>3. p[1] = q[1] /\ p[2] = q[2]
      BY <2>1, <2>2, PlacesAreDistinct
    <2> QED BY <2>1, <2>3
  <1>3. ASSUME NEW n \in R PROVE \E p \in P : f[p] = n
    <2> DEFINE i == ((n - 1) \div s) + 1
               a == ((n - 1) % s) + 1
    <2>1. n \in 1..(c * s) /\ n - 1 \in Nat
      <3>1. n \in 1..(c * s) /\ c * s \in Int
        OBVIOUS
      <3> QED BY <3>1
    <2>2. i \in 1..c
      BY <2>1, GridPlaces
    <2>3. a \in 1..s /\ (i - 1) * s + a = n
      BY <2>1
    <2> HIDE DEF i, a
    <2>4. <<i, a>> \in P
      BY <2>2, <2>3
    <2> QED BY <2>3, <2>4
  <1>4. ExistsBijection(P, R)
    <2> HIDE DEF f, P
    <2> QED BY <1>1, <1>2, <1>3
            DEF ExistsBijection, Bijection, Injection, IsInjective, Surjection
  <1>5. IsFiniteSet(P)
    <2>1. IsFiniteSet(1..c) /\ IsFiniteSet(1..s)
      BY FS_Interval
    <2>2. IsFiniteSet((1..c) \X (1..s))
      BY <2>1, FS_Product
    <2> QED BY <2>2, FS_Subset
  <1> HIDE DEF P
  <1>6. IsFiniteSet(R) /\ Cardinality(P) = Cardinality(R)
    BY <1>4, <1>5, FS_Bijection
  <1> QED BY <1>6, FS_CardinalityType DEF P

LEMMA FirstNumbers == ASSUME NEW m \in Nat PROVE IsFiniteSet(1..m) /\ Cardinality(1..m) = m
  <1>1. 1 \in Int /\ m \in Int
    OBVIOUS
  <1>2. IsFiniteSet(1..m) /\ Cardinality(1..m) = IF 1 > m THEN 0 ELSE m - 1 + 1
    BY <1>1, FS_Interval, Zenon
  <1> QED BY <1>2

\* The mean of the exact pass@k of the items is the share of all choices.
LEMMA AggregateIsExact ==
    ASSUME NEW count \in Nat \ {0}, NEW samples \in Nat \ {0}, NEW k \in 1..samples,
           NEW items, items = [i \in 1..count |-> items[i]],
           NEW R \in [1..count -> SUBSET (1..samples)],
           \A i \in 1..count : items[i].correct = Cardinality(R[i])
    PROVE  LET choices == Selections(1..samples, k) IN
           IsNearest(AggregatePass(items, samples, k),
                     Cardinality({c \in (1..count) \X choices : c[2] \cap R[c[1]] # {}}),
                     Cardinality((1..count) \X choices))
  <1> DEFINE S == 1..samples
             W == Selections(S, k)
             F == [i \in 1..count |-> Meeting(S, R[i], k)]
             v == [i \in DOMAIN items |-> Passes(samples, items[i].correct, k)]
             num == Cardinality(Draws(F, W, 1..count))
             den == Comb(samples, k) * Len(items)
  <1>1. IsFiniteSet(S) /\ Cardinality(S) = samples /\ IsFiniteSet(1..count)
        /\ Cardinality(1..count) = count
    BY FS_Interval
  <1>2. IsFiniteSet(W) /\ Comb(samples, k) = Cardinality(W) /\ Cardinality(W) \in Nat \ {0}
    <2>1. 1..k \in W
      <3>1. k \in Nat /\ 1..k \subseteq S
        OBVIOUS
      <3>2. Cardinality(1..k) = k
        BY <3>1, FirstNumbers
      <3> QED BY <3>1, <3>2 DEF Selections
    <2>2. IsFiniteSet(W) /\ Cardinality(W) \in Nat
      BY <1>1, ChoicesAreFinite
    <2>3. Cardinality(W) # 0
      <3> HIDE DEF W
      <3> QED BY <2>1, <2>2, FS_EmptySet
    <2>4. k \in Nat
      OBVIOUS
    <2>5. Comb(Cardinality(S), k) = Cardinality(W)
      <3> HIDE DEF S
      <3> QED BY <1>1, <2>4, CombCounts
    <2> QED BY <1>1, <2>2, <2>3, <2>5
  <1>3. DOMAIN items = 1..count /\ Len(items) = count
    OBVIOUS
  <1>4. F \in [1..count -> SUBSET W]
    BY DEF Meeting
  <1>5. ASSUME NEW i \in 1..count PROVE v[i] = Cardinality(F[i])
    <2>1. R[i] \in SUBSET S /\ k \in Nat
      OBVIOUS
    <2>2. Cardinality(Meeting(S, R[i], k)) = Passes(Cardinality(S), Cardinality(R[i]), k)
      <3> HIDE DEF S
      <3> QED BY <1>1, <2>1, PassesCount
    <2> QED BY <1>1, <1>3, <2>2
  <1>6. SumFunction(v) = num /\ num \in Nat
    <2>1. DOMAIN v = 1..count
      BY <1>3
    <2> HIDE DEF F, W, v
    <2> QED BY <1>1, <1>2, <1>4, <1>5, <2>1, SumsCount
  <1>7. den = Cardinality((1..count) \X W) /\ den \in Nat \ {0}
    <2> DEFINE w == Cardinality(W)
    <2>1. w \in Nat \ {0} /\ den = w * count
      BY <1>2, <1>3
    <2>2. Cardinality((1..count) \X W) = count * w
      <3> DEFINE D == 1..count
      <3>1. IsFiniteSet(D) /\ Cardinality(D) = count /\ IsFiniteSet(W)
        BY <1>1, <1>2
      <3> HIDE DEF D, W
      <3>2. Cardinality(D \X W) = Cardinality(D) * Cardinality(W)
        BY <3>1, FS_Product
      <3> QED BY <3>1, <3>2 DEF D
    <2> HIDE DEF w, den
    <2>3. w * count = count * w /\ w * count \in Nat \ {0}
      BY <2>1
    <2> QED BY <2>1, <2>2, <2>3
  <1>8. AggregatePass(items, samples, k) = FractionToPpm(num, den)
    BY <1>6 DEF AggregatePass
  <1>9. Draws(F, W, 1..count) = {c \in (1..count) \X W : c[2] \cap R[c[1]] # {}}
    BY DEF Draws, Meeting
  <1>10. IsNearest(FractionToPpm(num, den), num, den)
    <2> HIDE DEF num, den
    <2> QED BY <1>6, <1>7, PpmIsNearest
  <1> QED BY <1>7, <1>8, <1>9, <1>10

\* Accuracy and pass@k are what they are called.
THEOREM MetricsExact == Spec => []MetricsAreExact
  <1>1. ASSUME IInv, report # Nothing
        PROVE  LET samples == protocol.samples
                   choices(k) == {S \in SUBSET (1..samples) : Cardinality(S) = k}
                   items == 1..descriptor.count
                   right(i, s) == report.scores[(i - 1) * samples + s].correct
                   passing(k) == {c \in items \X choices(k) : \E s \in c[2] : right(c[1], s)}
               IN  /\ IsNearest(report.accuracy,
                                Cardinality({c \in items \X (1..samples) : right(c[1], c[2])}),
                                descriptor.count * samples)
                   /\ \A k \in contract.ks :
                         IsNearest(report.pass[k], Cardinality(passing(k)),
                                   Cardinality(items \X choices(k)))
    <2> DEFINE samples == protocol.samples
               count == descriptor.count
               scores == Scores(batch)
               right(i, s) == scores[(i - 1) * samples + s].correct
               R == [i \in 1..count |-> {s \in 1..samples : right(i, s)}]
               items == [i \in 1..count |-> ItemScore(SamplesOf(scores, samples, i), contract.ks)]
               total == count * samples
               hits == {n \in 1..total : scores[n].correct}
    <2>1. /\ FrozenInv /\ LoadsPublic(descriptor, public) /\ batch = NewBatch
          /\ Compatible /\ ContractHolds(contract)
          /\ report = Report(batch, contract.ks, scores)
      BY <1>1 DEF IInv, ReportInv, VaultInv, FrozenInv
    <2>2. count \in Nat \ {0} /\ samples \in Nat \ {0} /\ DOMAIN Grid = 1..total
      <3>1. count \in Nat /\ samples \in Nat /\ samples >= 1 /\ DOMAIN Grid = 1..total
        BY <2>1, PlacesOfGrid
      <3>2. count # 0
        <4>1. MAX_ITEMS \in Nat
          BY DEF MAX_ITEMS
        <4> QED BY <2>1, <4>1 DEF FrozenInv, DescriptorHolds
      <3> QED BY <3>1, <3>2
    <2>3. /\ batch.protocol = protocol /\ batch.descriptor = descriptor
          /\ DOMAIN batch.records = 1..total
      BY <2>1, <2>2 DEF NewBatch, Records
    <2>4. /\ scores = [n \in 1..total |-> scores[n]] /\ total \in Nat \ {0}
          /\ Len(scores) = total
      <3>1. scores = [n \in 1..total |-> scores[n]]
        BY <2>3 DEF Scores
      <3>2. total \in Nat \ {0}
        <4> HIDE DEF count, samples
        <4> QED BY <2>2
      <3> HIDE DEF scores, total
      <3> QED BY <3>1, <3>2
    <2>5. /\ report.scores = scores
          /\ report.accuracy = FractionToPpm(CountWhere(scores, Correct), Len(scores))
          /\ report.pass = [k \in contract.ks |-> AggregatePass(items, samples, k)]
      BY <2>1, <2>3 DEF Report
    <2>6. IsNearest(report.accuracy,
                    Cardinality({c \in (1..count) \X (1..samples) : right(c[1], c[2])}), total)
      <3>1. CountWhere(scores, Correct) = Cardinality(hits)
        BY <2>4 DEF CountWhere, Correct
      <3>2. /\ Cardinality({p \in (1..count) \X (1..samples) : (p[1] - 1) * samples + p[2] \in hits})
                   = Cardinality(hits)
            /\ Cardinality(hits) \in Nat
        <4>1. hits \in SUBSET (1..(count * samples))
          OBVIOUS
        <4> HIDE DEF hits, count, samples
        <4> QED BY <2>2, <4>1, GridCounts
      <3>3. ASSUME NEW i \in 1..count, NEW s \in 1..samples
            PROVE  (i - 1) * samples + s \in hits <=> right(i, s)
        <4>1. (i - 1) * samples + s \in 1..total
          <5> HIDE DEF count, samples
          <5> QED BY <2>2, PlacesPair
        <4> QED BY <4>1
      <3>4. {p \in (1..count) \X (1..samples) : (p[1] - 1) * samples + p[2] \in hits}
                = {c \in (1..count) \X (1..samples) : right(c[1], c[2])}
        <4> HIDE DEF hits, count, samples, scores
        <4> QED BY <3>3
      <3>5. IsNearest(FractionToPpm(Cardinality(hits), total), Cardinality(hits), total)
        <4> HIDE DEF hits, total
        <4> QED BY <2>4, <3>2, PpmIsNearest
      <3> QED BY <2>4, <2>5, <3>1, <3>2, <3>4, <3>5
    <2>7. ASSUME NEW k \in contract.ks
          PROVE  IsNearest(report.pass[k],
                           Cardinality({c \in (1..count) \X Selections(1..samples, k) :
                                           \E s \in c[2] : right(c[1], s)}),
                           Cardinality((1..count) \X Selections(1..samples, k)))
      <3>1. k \in 1..samples
        <4>1. k \in 1..1024 /\ k <= samples
          BY <2>1 DEF Compatible, ContractHolds
        <4> HIDE DEF samples
        <4> QED BY <2>2, <4>1
      <3>2. R \in [1..count -> SUBSET (1..samples)] /\ items = [i \in 1..count |-> items[i]]
        OBVIOUS
      <3>3. ASSUME NEW i \in 1..count PROVE items[i].correct = Cardinality(R[i])
        <4>1. items[i].correct = CountWhere(SamplesOf(scores, samples, i), Correct)
          BY DEF ItemScore
        <4>2. {n \in DOMAIN SamplesOf(scores, samples, i) :
                   Correct(SamplesOf(scores, samples, i)[n])} = R[i]
          BY DEF SamplesOf, Correct
        <4> QED BY <4>1, <4>2 DEF CountWhere
      <3>4. IsNearest(AggregatePass(items, samples, k),
                      Cardinality({c \in (1..count) \X Selections(1..samples, k) :
                                      c[2] \cap R[c[1]] # {}}),
                      Cardinality((1..count) \X Selections(1..samples, k)))
        <4> HIDE DEF items, R, count, samples
        <4> QED BY <2>2, <3>1, <3>2, <3>3, AggregateIsExact
      <3>5. {c \in (1..count) \X Selections(1..samples, k) : c[2] \cap R[c[1]] # {}}
                = {c \in (1..count) \X Selections(1..samples, k) : \E s \in c[2] : right(c[1], s)}
        <4>1. ASSUME NEW i \in 1..count, NEW T \in Selections(1..samples, k)
              PROVE  T \cap R[i] # {} <=> \E s \in T : right(i, s)
          <5>1. T \subseteq 1..samples
            BY DEF Selections
          <5> QED BY <5>1
        <4> HIDE DEF R, count, samples, scores
        <4> QED BY <4>1
      <3> QED BY <2>5, <3>4, <3>5
    <2> QED BY <2>5, <2>6, <2>7 DEF Selections
  <1>2. IInv => MetricsAreExact
    BY <1>1 DEF MetricsAreExact
  <1> QED BY <1>2, Invariance, PTL

-----------------------------------------------------------------------------

\* The rest is about ExactMath: how an answer is found in a response.

\* The least of some numbers.
LEMMA LeastOf ==
    ASSUME NEW T \in SUBSET Nat, NEW y \in T
    PROVE  Min(T) \in T /\ \A x \in T : Min(T) <= x
  <1>1. \E x \in T : \A z \in T : x <= z
    BY LeastNumber
  <1> QED BY <1>1 DEF Min

\* Where the two kinds of container open.
Opens == {"box", "<answer>"}

\* A surface starts where it is found, and ends after that and within the text.
Ends(text, i, c) == c.start = i /\ c.end \in (i + 1)..(Len(text) + 1)

LEMMA NextIsThere ==
    ASSUME NEW V, NEW text \in Seq(V), NEW i \in 1..(Len(text) + 1), NEW tokens
    PROVE  NextOf(text, i, tokens) \in i..(Len(text) + 1)
  <1> DEFINE n == Len(text)
             places == {k \in i..(n + 1) : k = n + 1 \/ text[k] \in tokens}
  <1>1. n \in Nat
    OBVIOUS
  <1>2. NextOf(text, i, tokens) = Min(places)
    BY DEF NextOf
  <1> HIDE DEF n
  <1>3. places \in SUBSET Nat /\ places \in SUBSET (i..(n + 1)) /\ n + 1 \in places
    BY <1>1 DEF n
  <1> HIDE DEF places
  <1>4. Min(places) \in places
    BY <1>3, LeastOf
  <1> QED BY <1>2, <1>3, <1>4 DEF n

\* What is skipped over are the tokens that are no breaks.
LEMMA PastBreaksIsNext ==
    ASSUME NEW V, NEW text \in Seq(V), NEW i \in 1..(Len(text) + 1)
    PROVE  PastBreaks(text, i) = NextOf(text, i, V \ {"\n"})
  <1> DEFINE n == Len(text)
             T == V \ {"\n"}
             A == {k \in i..(n + 1) : k = n + 1 \/ text[k] # "\n"}
             B == {k \in i..(n + 1) : k = n + 1 \/ text[k] \in T}
  <1>1. n \in Nat /\ i \in 1..(n + 1) /\ \A k \in 1..n : text[k] \in V
    OBVIOUS
  <1>2. PastBreaks(text, i) = Min(A) /\ NextOf(text, i, T) = Min(B)
    BY DEF PastBreaks, NextOf
  <1> HIDE DEF n
  <1>3. \A k \in i..(n + 1) : k = n + 1 \/ k \in 1..n
    BY <1>1
  <1>4. A = B
    BY <1>1, <1>3
  <1> QED BY <1>2, <1>4

LEMMA PastBreaksIsThere ==
    ASSUME NEW V, NEW text \in Seq(V), NEW i \in 1..(Len(text) + 1)
    PROVE  PastBreaks(text, i) \in i..(Len(text) + 1)
  <1> DEFINE T == V \ {"\n"}
  <1>1. PastBreaks(text, i) = NextOf(text, i, T)
    BY PastBreaksIsNext
  <1> HIDE DEF T
  <1> QED BY <1>1, NextIsThere

LEMMA LineIsThere ==
    ASSUME NEW V, NEW text \in Seq(V), NEW i \in 1..(Len(text) + 1)
    PROVE  LineEnd(text, i) \in i..(Len(text) + 1)
  <1>1. NextOf(text, i, Breaks) \in i..(Len(text) + 1)
    BY NextIsThere
  <1>2. Len(text) \in Nat
    OBVIOUS
  <1>3. i <= Len(text) => i + 1 \in i..(Len(text) + 1)
    BY <1>2
  <1> QED BY <1>1, <1>3 DEF LineEnd

LEMMA BoxEnds ==
    ASSUME NEW V, NEW text \in Seq(V), NEW i \in DOMAIN text
    PROVE  Ends(text, i, BoxSurface(text, i))
  <1> DEFINE n == Len(text)
             rest == n + 1
             brace == PastBreaks(text, i + 1)
             closings == {k \in brace..Len(text) :
                             Times(text, brace, k, "{") = Times(text, brace, k, "}")}
             none == InCode(text, i) \/ brace = rest \/ text[brace] # "{"
             found == Surface(i, Min(closings) + 1,
                              Strip(SubSeq(text, brace + 1, Min(closings) - 1)))
  <1>1. n \in Nat /\ i \in 1..n
    OBVIOUS
  <1> HIDE DEF n
  <1>2. brace \in (i + 1)..rest
    <2>1. i + 1 \in 1..(n + 1)
      BY <1>1
    <2> QED BY <2>1, PastBreaksIsThere DEF n
  <1>3. closings # {} => Min(closings) \in brace..n
    <2> HIDE DEF brace
    <2>1. closings \in SUBSET (brace..n) /\ closings \in SUBSET Nat
      <3>1. closings \in SUBSET (brace..n)
        BY DEF n
      <3>2. brace \in Nat
        BY <1>1, <1>2
      <3> HIDE DEF closings
      <3> QED BY <3>1, <3>2
    <2> HIDE DEF closings
    <2> SUFFICES ASSUME closings # {} PROVE Min(closings) \in brace..n
      OBVIOUS
    <2>2. PICK y \in closings : TRUE
      OBVIOUS
    <2>3. Min(closings) \in closings
      BY <2>1, <2>2, LeastOf
    <2> QED BY <2>1, <2>3
  <1>4. \/ BoxSurface(text, i) = Surface(i, i + 1, <<>>)
        \/ BoxSurface(text, i) = Surface(i, rest, <<>>)
        \/ closings # {} /\ BoxSurface(text, i) = found
    <2>1. BoxSurface(text, i) = IF none THEN Surface(i, i + 1, <<>>)
                                ELSE IF closings = {} THEN Surface(i, rest, <<>>)
                                ELSE found
      BY DEF BoxSurface, n
    <2> HIDE DEF none, closings, found
    <2> QED BY <2>1
  <1> HIDE DEF brace, closings, none
  <1>5. CASE BoxSurface(text, i) = Surface(i, i + 1, <<>>)
    BY <1>1, <1>5 DEF Ends, Surface, n
  <1>6. CASE BoxSurface(text, i) = Surface(i, rest, <<>>)
    BY <1>1, <1>6 DEF Ends, Surface, n
  <1>7. CASE closings # {} /\ BoxSurface(text, i) = found
    <2>1. Min(closings) \in brace..n
      BY <1>3, <1>7
    <2> DEFINE e == Min(closings)
    <2> HIDE DEF e
    <2>2. e + 1 \in (i + 1)..(n + 1)
      BY <1>1, <1>2, <2>1 DEF e
    <2>3. BoxSurface(text, i).start = i /\ BoxSurface(text, i).end = e + 1
      BY <1>7 DEF Surface, e
    <2> QED BY <2>2, <2>3 DEF Ends, n
  <1> QED BY <1>4, <1>5, <1>6, <1>7

LEMMA TagEnds ==
    ASSUME NEW V, NEW text \in Seq(V), NEW i \in DOMAIN text
    PROVE  Ends(text, i, TagSurface(text, i))
  <1> DEFINE n == Len(text)
             rest == n + 1
             closing == NextOf(text, i + 1, {"</answer>"})
             found == Surface(i, closing + 1, Strip(SubSeq(text, i + 1, closing - 1)))
  <1>1. n \in Nat /\ i \in 1..n /\ i + 1 \in 1..(n + 1)
    OBVIOUS
  <1>2. closing \in (i + 1)..(n + 1)
    BY <1>1, NextIsThere
  <1>3. \/ TagSurface(text, i) = Surface(i, i + 1, <<>>)
        \/ TagSurface(text, i) = Surface(i, rest, <<>>)
        \/ closing # rest /\ TagSurface(text, i) = found
    BY DEF TagSurface
  <1> DEFINE start == TagSurface(text, i).start
             end == TagSurface(text, i).end
  <1>4. start = i /\ (end = i + 1 \/ end = rest \/ (closing # rest /\ end = closing + 1))
    BY <1>3 DEF Surface
  <1> HIDE DEF closing, start, end, n
  <1>5. end \in (i + 1)..(n + 1)
    BY <1>1, <1>2, <1>4
  <1> QED BY <1>4, <1>5 DEF Ends, start, end, n

LEMMA ContainerEnds ==
    ASSUME NEW V, NEW text \in Seq(V), NEW i \in DOMAIN text
    PROVE  Ends(text, i, Container(text, i))
  BY BoxEnds, TagEnds DEF Container
\* The surfaces of a set start from i on, each is what opens where it starts,
\* none overlaps another, and none that opens from i on is left out.
Apart(text, i, C) ==
    /\ \A c \in C : /\ c.start \in i..Len(text) /\ text[c.start] \in Opens
                    /\ c = Container(text, c.start) /\ c.end \in (c.start + 1)..(Len(text) + 1)
    /\ \A c, d \in C : c = d \/ c.end <= d.start \/ d.end <= c.start
    /\ \A k \in i..Len(text) : text[k] \in Opens => \E c \in C : c.start <= k /\ k < c.end

\* One that opens at i and those from its end on.
LEMMA OneMore ==
    ASSUME NEW V, NEW text \in Seq(V), NEW i \in DOMAIN text, text[i] \in Opens,
           NEW C, Apart(text, Container(text, i).end, C)
    PROVE  Apart(text, i, {Container(text, i)} \cup C)
  <1> DEFINE n == Len(text)
             c0 == Container(text, i)
             D == {c0} \cup C
  <1>1. n \in Nat /\ i \in 1..n
    OBVIOUS
  <1>2. c0.start = i /\ c0.end \in (i + 1)..(n + 1)
    BY ContainerEnds DEF Ends
  <1>3. \A c \in C : /\ c.start \in c0.end..n /\ text[c.start] \in Opens
                     /\ c = Container(text, c.start) /\ c.end \in (c.start + 1)..(n + 1)
    BY DEF Apart
  <1>4. \A c, d \in C : c = d \/ c.end <= d.start \/ d.end <= c.start
    BY DEF Apart
  <1>5. \A k \in c0.end..n : text[k] \in Opens => \E c \in C : c.start <= k /\ k < c.end
    BY DEF Apart
  <1>6. c0 = Container(text, c0.start)
    BY <1>2
  <1> HIDE DEF n, c0
  <1>7. \A c \in D : /\ c.start \in i..n /\ text[c.start] \in Opens
                     /\ c = Container(text, c.start) /\ c.end \in (c.start + 1)..(n + 1)
    BY <1>1, <1>2, <1>3, <1>6
  <1>8. \A c, d \in D : c = d \/ c.end <= d.start \/ d.end <= c.start
    <2>1. \A c \in C : c0.end <= c.start
      BY <1>1, <1>2, <1>3
    <2> QED BY <1>4, <2>1
  <1>9. \A k \in i..n : text[k] \in Opens => \E c \in D : c.start <= k /\ k < c.end
    <2> SUFFICES ASSUME NEW k \in i..n, text[k] \in Opens
                 PROVE  \E c \in D : c.start <= k /\ k < c.end
      OBVIOUS
    <2>1. CASE k < c0.end
      <3>1. c0.start <= k
        BY <1>1, <1>2
      <3> QED BY <2>1, <3>1
    <2>2. CASE ~ k < c0.end
      <3>1. k \in c0.end..n
        BY <1>1, <1>2, <2>2
      <3> QED BY <1>5, <3>1
    <2> QED BY <2>1, <2>2
  <1> QED BY <1>7, <1>8, <1>9 DEF Apart, n, c0

\* No container opens at i.
LEMMA NoneMore ==
    ASSUME NEW V, NEW text \in Seq(V), NEW i \in DOMAIN text, text[i] \notin Opens,
           NEW C, Apart(text, i + 1, C)
    PROVE  Apart(text, i, C)
  <1> DEFINE n == Len(text)
  <1>1. n \in Nat /\ i \in 1..n
    OBVIOUS
  <1>2. \A k \in i..n : k = i \/ k \in (i + 1)..n
    BY <1>1
  <1>3. \A k \in (i + 1)..n : k \in i..n
    BY <1>1
  <1> QED BY <1>2, <1>3 DEF Apart

\* What Containers collects.
LEMMA ContainersAreApart ==
    ASSUME NEW V, NEW text \in Seq(V)
    PROVE  Apart(text, 1, Containers(text))
  <1> DEFINE n == Len(text)
             D == 1..(n + 1)
             opened(i) == i <= n /\ text[i] \in Opens
             Surfaces == {Container(text, i) : i \in 1..n}
             Collects(it) == it = [i \in D |->
                CASE i > n -> {}
                  [] i <= n /\ text[i] \in {"box", "<answer>"} ->
                        {Container(text, i)} \cup it[Container(text, i).end]
                  [] OTHER -> it[i + 1]]
             it == CHOOSE it : Collects(it)
  <1>1. n \in Nat /\ DOMAIN text = 1..n
    OBVIOUS
  <1>2. \A i \in 1..n : Container(text, i).end \in (i + 1)..(n + 1)
    BY ContainerEnds DEF Ends
  <1>3. Containers(text) = it[1]
    BY DEF Containers
  <1> HIDE DEF n
  <1>4. \E h : Collects(h)
    <2> DEFINE W == SUBSET Surfaces
               m == [i \in D |-> (n + 1) - i]
               stop == {n + 1}
               prev == [i \in D |-> IF opened(i) THEN Container(text, i).end
                                    ELSE IF i <= n THEN i + 1 ELSE i]
               base == [i \in D |-> {}]
               step == [q \in D \X W |->
                          IF opened(q[1]) THEN {Container(text, q[1])} \cup q[2] ELSE q[2]]
    <2>1. m \in [D -> Nat] /\ stop \in SUBSET D /\ base \in [D -> W]
      BY <1>1
    <2>2. prev \in [D -> D]
      <3>1. ASSUME NEW i \in D
            PROVE  (IF opened(i) THEN Container(text, i).end ELSE IF i <= n THEN i + 1 ELSE i) \in D
        <4>1. CASE opened(i)
          <5>1. Container(text, i).end \in (i + 1)..(n + 1)
            BY <1>1, <1>2, <4>1
          <5> QED BY <1>1, <4>1, <5>1
        <4>2. CASE ~ opened(i)
          <5> HIDE DEF opened
          <5> QED BY <1>1, <4>2
        <4> QED BY <4>1, <4>2
      <3> HIDE DEF D, opened
      <3> QED BY <3>1
    <2>3. step \in [D \X W -> W]
      <3>1. ASSUME NEW i \in D, opened(i) PROVE Container(text, i) \in Surfaces
        BY <1>1, <3>1
      <3> HIDE DEF D, opened, Surfaces
      <3> QED BY <3>1
    <2>4. ASSUME NEW i \in D \ stop PROVE m[prev[i]] < m[i]
      <3>1. i \in 1..n
        BY <1>1
      <3>2. prev[i] = (IF opened(i) THEN Container(text, i).end ELSE i + 1)
        BY <1>1, <3>1
      <3>3. prev[i] \in (i + 1)..(n + 1)
        <4>1. CASE opened(i)
          BY <1>2, <3>1, <3>2, <4>1
        <4>2. CASE ~ opened(i)
          <5> HIDE DEF opened, prev
          <5> QED BY <1>1, <3>1, <3>2, <4>2
        <4> QED BY <4>1, <4>2
      <3> HIDE DEF prev
      <3>4. prev[i] \in D
        BY <1>1, <3>1, <3>3
      <3>5. m[prev[i]] = (n + 1) - prev[i] /\ m[i] = (n + 1) - i
        BY <3>4
      <3> QED BY <1>1, <3>1, <3>3, <3>5
    <2>5. Recursive(D, W, m, stop, prev, base, step)
      <3> HIDE DEF D, W, m, stop, prev, base, step
      <3> QED BY <2>1, <2>2, <2>3, <2>4 DEF Recursive
    <2>6. PICK h \in [D -> W] :
             \A i \in D : h[i] = IF i \in stop THEN base[i] ELSE step[<<i, h[prev[i]]>>]
      <3> HIDE DEF D, W, m, stop, prev, base, step
      <3> QED BY <2>5, Recursion
    <2> DEFINE value(i) ==
                 CASE i > n -> {}
                   [] i <= n /\ text[i] \in {"box", "<answer>"} ->
                         {Container(text, i)} \cup h[Container(text, i).end]
                   [] OTHER -> h[i + 1]
    <2>7. ASSUME NEW i \in D PROVE h[i] = value(i)
      <3>1. CASE i = n + 1
        <4>1. h[i] = {}
          BY <2>6, <3>1
        <4>2. i > n /\ ~ i <= n
          BY <1>1, <3>1
        <4>3. value(i) = {}
          <5> HIDE DEF D, W, m, stop, prev, base, step
          <5> QED BY <4>2
        <4> QED BY <4>1, <4>3
      <3>2. CASE i # n + 1
        <4>1. i \in 1..n /\ i \notin stop /\ i <= n /\ ~ i > n
          BY <1>1, <3>2
        <4>2. h[i] = step[<<i, h[prev[i]]>>] /\ prev[i] \in D /\ h[prev[i]] \in W
          <5> HIDE DEF step, prev, D, W, stop
          <5> QED BY <2>2, <2>6, <4>1
        <4>3. prev[i] = IF opened(i) THEN Container(text, i).end ELSE i + 1
          BY <4>1
        <4>4. h[i] = IF opened(i) THEN {Container(text, i)} \cup h[prev[i]] ELSE h[prev[i]]
          <5> HIDE DEF prev, D, W, opened
          <5> QED BY <4>2
        <4>5. CASE text[i] \in Opens
          <5>1. h[i] = {Container(text, i)} \cup h[Container(text, i).end]
            BY <4>1, <4>3, <4>4, <4>5
          <5> QED BY <4>1, <4>5, <5>1 DEF Opens
        <4>6. CASE text[i] \notin Opens
          <5>1. h[i] = h[i + 1]
            BY <4>1, <4>3, <4>4, <4>6
          <5> QED BY <4>1, <4>6, <5>1 DEF Opens
        <4> QED BY <4>5, <4>6
      <3> QED BY <3>1, <3>2
    <2>8. h = [i \in D |-> value(i)]
      <3> HIDE DEF value
      <3> QED BY <2>6, <2>7
    <2>9. Collects(h)
      BY <2>8
    <2> QED BY <2>9
  <1>5. Collects(it)
    <2> HIDE DEF Collects
    <2> QED BY <1>4
  <1>6. /\ it[n + 1] = {}
        /\ \A i \in 1..n : it[i] = IF text[i] \in Opens
                                   THEN {Container(text, i)} \cup it[Container(text, i).end]
                                   ELSE it[i + 1]
    <2> HIDE DEF it
    <2> DEFINE value(i) ==
                 CASE i > n -> {}
                   [] i <= n /\ text[i] \in {"box", "<answer>"} ->
                         {Container(text, i)} \cup it[Container(text, i).end]
                   [] OTHER -> it[i + 1]
    <2>1. \A i \in D : it[i] = value(i)
      BY <1>5
    <2> HIDE DEF Collects
    <2>2. n + 1 \in D /\ n + 1 > n /\ ~ n + 1 <= n
      BY <1>1
    <2>3. value(n + 1) = {}
      BY <2>2
    <2>4. ASSUME NEW i \in 1..n
          PROVE  i \in D /\ value(i) = IF text[i] \in Opens
                                       THEN {Container(text, i)} \cup it[Container(text, i).end]
                                       ELSE it[i + 1]
      <3>1. i \in D /\ ~ i > n /\ i <= n
        BY <1>1
      <3>2. CASE text[i] \in Opens
        BY <3>1, <3>2 DEF Opens
      <3>3. CASE text[i] \notin Opens
        BY <3>1, <3>3 DEF Opens
      <3> QED BY <3>1, <3>2, <3>3
    <2> HIDE DEF value, D
    <2> QED BY <2>1, <2>2, <2>3, <2>4
  <1> HIDE DEF it, Collects
  <1> DEFINE S == {j \in Nat : \A i \in D : (n + 1) - i <= j => Apart(text, i, it[i])}
  <1>7. 0 \in S
    <2> SUFFICES ASSUME NEW i \in D, (n + 1) - i <= 0 PROVE Apart(text, i, it[i])
      OBVIOUS
    <2>1. i = n + 1 /\ it[i] = {} /\ i..n = {}
      BY <1>1, <1>6
    <2> QED BY <2>1 DEF Apart, n
  <1>8. ASSUME NEW j \in Nat, j \in S PROVE j + 1 \in S
    <2> SUFFICES ASSUME NEW i \in D, (n + 1) - i <= j + 1 PROVE Apart(text, i, it[i])
      OBVIOUS
    <2>1. CASE i = n + 1
      <3>1. it[i] = {} /\ i..n = {}
        BY <1>1, <1>6, <2>1
      <3> QED BY <3>1 DEF Apart, n
    <2>2. CASE i # n + 1
      <3>1. i \in 1..n
        BY <1>1, <2>2
      <3>2. CASE text[i] \in Opens
        <4> DEFINE e == Container(text, i).end
        <4>1. e \in (i + 1)..(n + 1)
          BY <1>2, <3>1
        <4> HIDE DEF e
        <4>2. e \in D /\ (n + 1) - e <= j
          BY <1>1, <3>1, <4>1
        <4>3. Apart(text, e, it[e])
          BY <1>8, <4>2
        <4>4. it[i] = {Container(text, i)} \cup it[e]
          BY <1>6, <3>1, <3>2 DEF e
        <4> QED BY <1>1, <3>1, <3>2, <4>3, <4>4, OneMore DEF e
      <3>3. CASE text[i] \notin Opens
        <4>1. i + 1 \in D /\ (n + 1) - (i + 1) <= j
          BY <1>1, <3>1
        <4>2. Apart(text, i + 1, it[i + 1])
          BY <1>8, <4>1
        <4>3. it[i] = it[i + 1]
          BY <1>6, <3>1, <3>3
        <4> QED BY <1>1, <3>1, <3>3, <4>2, <4>3, NoneMore
      <3> QED BY <3>2, <3>3
    <2> QED BY <2>1, <2>2
  <1>9. Nat \subseteq S
    <2> HIDE DEF S
    <2> QED BY <1>7, <1>8, Induction
  <1>10. Apart(text, 1, it[1])
    <2>1. n \in S
      <3> HIDE DEF S
      <3> QED BY <1>1, <1>9
    <2>2. 1 \in D /\ (n + 1) - 1 <= n
      BY <1>1
    <2> HIDE DEF D
    <2> QED BY <2>1, <2>2
  <1> QED BY <1>3, <1>10

\* A place that claims to be the answer: a box or a tag opens there, or a text
\* marker that is not negated stands there; one in code is malformed, and claims.
MakesClaim(text, k) ==
    \/ text[k] \in Opens
    \/ text[k] = "answer:" /\ (InCode(text, k) \/ ~ Negated(text, k))

LEMMA MarkerEnds ==
    ASSUME NEW V, NEW text \in Seq(V), NEW i \in DOMAIN text
    PROVE  Ends(text, i, MarkerSurface(text, i))
  <1> DEFINE n == Len(text)
             value == PastBreaks(text, i + 1)
             line == LineEnd(text, value)
             start == MarkerSurface(text, i).start
             end == MarkerSurface(text, i).end
  <1>1. n \in Nat /\ i \in 1..n /\ i + 1 \in 1..(n + 1)
    OBVIOUS
  <1>2. value \in (i + 1)..(n + 1)
    BY <1>1, PastBreaksIsThere
  <1>3. start = i /\ (end = value \/ end = line)
    BY DEF MarkerSurface, Surface
  <1> HIDE DEF value, start, end
  <1>4. line \in value..(n + 1)
    <2>1. value \in 1..(n + 1)
      BY <1>1, <1>2
    <2> QED BY <2>1, LineIsThere
  <1> HIDE DEF line, n
  <1>5. end \in (i + 1)..(n + 1)
    BY <1>1, <1>2, <1>3, <1>4
  <1> QED BY <1>3, <1>5 DEF Ends, start, end, n

\* The surface that decides: it starts with a claim, and none is made after it.
Decides(text, t) ==
    /\ t.start \in DOMAIN text /\ MakesClaim(text, t.start)
    /\ \A k \in DOMAIN text : MakesClaim(text, k) => k < t.end

\* The terminal surface is the only one, and it decides: what starts inside a
\* container starts before its end, and containers do not overlap.
LEMMA TerminalDecides ==
    ASSUME NEW V, NEW text \in Seq(V), NEW t \in Terminal(Containers(text), Markers(text))
    PROVE  Decides(text, t) /\ Terminal(Containers(text), Markers(text)) = {t}
  <1> DEFINE n == Len(text)
             C == Containers(text)
             K == Markers(text)
             inside(s, c) == s.start \in c.start..(c.end - 1)
             outside == {s \in K : \A c \in C : ~ inside(s, c)}
             all == C \cup outside
  <1>1. n \in Nat /\ DOMAIN text = 1..n
    OBVIOUS
  <1>2. /\ \A c \in C : /\ c.start \in 1..n /\ text[c.start] \in Opens
                        /\ c = Container(text, c.start) /\ c.end \in (c.start + 1)..(n + 1)
        /\ \A c, d \in C : c = d \/ c.end <= d.start \/ d.end <= c.start
        /\ \A k \in 1..n : text[k] \in Opens => \E c \in C : c.start <= k /\ k < c.end
    BY ContainersAreApart DEF Apart
  <1>3. \A s \in K : /\ s.start \in 1..n /\ MakesClaim(text, s.start)
                     /\ s = MarkerSurface(text, s.start) /\ s.end \in (s.start + 1)..(n + 1)
    <2> TAKE s \in K
    <2>1. PICK i \in DOMAIN text : /\ text[i] = "answer:" /\ (InCode(text, i) \/ ~ Negated(text, i))
                                   /\ s = MarkerSurface(text, i)
      BY DEF Markers
    <2>2. Ends(text, i, s)
      BY <2>1, MarkerEnds
    <2> QED BY <1>1, <2>1, <2>2 DEF Ends, MakesClaim
  <1>4. \A k \in 1..n : text[k] = "answer:" /\ (InCode(text, k) \/ ~ Negated(text, k)) =>
                            \E s \in K : s.start = k
    <2> SUFFICES ASSUME NEW k \in 1..n, text[k] = "answer:", InCode(text, k) \/ ~ Negated(text, k)
                 PROVE  \E s \in K : s.start = k
      OBVIOUS
    <2>1. MarkerSurface(text, k) \in K
      BY <1>1 DEF Markers
    <2>2. MarkerSurface(text, k).start = k
      BY <1>1, MarkerEnds DEF Ends
    <2> QED BY <2>1, <2>2
  <1>5. Terminal(C, K) = {s \in all : \A r \in all : r.start <= s.start}
    BY DEF Terminal
  <1> HIDE DEF C, K, n
  <1>6. t \in all /\ \A r \in all : r.start <= t.start
    BY <1>5 DEF C, K
  <1>7. t.start \in 1..n /\ MakesClaim(text, t.start) /\ t.end \in (t.start + 1)..(n + 1)
    BY <1>2, <1>3, <1>6 DEF MakesClaim
  <1>8. ASSUME NEW c \in C PROVE c.end <= t.end
    <2>1. c.start <= t.start /\ c.start \in 1..n /\ c.end \in (c.start + 1)..(n + 1)
      BY <1>2, <1>6
    <2>2. CASE t \in C
      <3>1. c = t \/ c.end <= t.start \/ t.end <= c.start
        BY <1>2, <2>2
      <3> QED BY <1>1, <1>7, <2>1, <3>1
    <2>3. CASE t \in outside
      <3>1. ~ (t.start \in c.start..(c.end - 1))
        BY <2>3
      <3>2. c.end <= t.start
        BY <1>1, <1>7, <2>1, <3>1
      <3> QED BY <1>1, <1>7, <2>1, <3>2
    <2> QED BY <1>6, <2>2, <2>3
  <1>9. ASSUME NEW k \in 1..n, MakesClaim(text, k) PROVE k < t.end
    <2>1. ASSUME NEW c \in C, c.start <= k, k < c.end PROVE k < t.end
      <3>1. c.end <= t.end /\ c.end \in Int
        BY <1>2, <1>8
      <3> QED BY <1>1, <1>7, <2>1, <3>1
    <2>2. CASE text[k] \in Opens
      BY <1>2, <2>1, <2>2
    <2>3. CASE text[k] \notin Opens
      <3>1. PICK s \in K : s.start = k
        BY <1>4, <1>9, <2>3 DEF MakesClaim
      <3>2. CASE s \in outside
        <4>1. k <= t.start
          BY <1>6, <3>1, <3>2
        <4> QED BY <1>1, <1>7, <4>1
      <3>3. CASE s \notin outside
        <4>1. PICK c \in C : k \in c.start..(c.end - 1)
          BY <3>1, <3>3
        <4>2. c.start <= k /\ k < c.end
          BY <1>1, <1>2, <4>1
        <4> QED BY <2>1, <4>2
      <3> QED BY <3>2, <3>3
    <2> QED BY <2>2, <2>3
  <1>10. ASSUME NEW s \in all, \A r \in all : r.start <= s.start PROVE s = t
    <2>1. s.start = t.start
      <3>1. s.start <= t.start /\ t.start <= s.start
        BY <1>6, <1>10
      <3>2. s.start \in 1..n
        BY <1>2, <1>3
      <3> QED BY <1>1, <1>7, <3>1, <3>2
    <2>2. \A c \in C, r \in outside : c.start # r.start
      <3> TAKE c \in C, r \in outside
      <3>1. ~ (r.start \in c.start..(c.end - 1))
        OBVIOUS
      <3>2. c.start \in 1..n /\ c.end \in (c.start + 1)..(n + 1)
        BY <1>2
      <3>3. c.start \in c.start..(c.end - 1)
        BY <1>1, <3>2
      <3> QED BY <3>1, <3>3
    <2>3. CASE s \in C /\ t \in C
      BY <1>2, <2>1, <2>3
    <2>4. CASE s \in outside /\ t \in outside
      BY <1>3, <2>1, <2>4
    <2> QED BY <1>6, <2>1, <2>2, <2>3, <2>4
  <1>11. Terminal(C, K) = {t}
    <2> HIDE DEF all
    <2> QED BY <1>5, <1>6, <1>10
  <1>12. Decides(text, t)
    BY <1>1, <1>7, <1>9 DEF Decides
  <1> QED BY <1>11, <1>12 DEF C, K

\* If there is any claim, some surface starts last.
LEMMA TerminalIsThere ==
    ASSUME NEW V, NEW text \in Seq(V), NEW k \in DOMAIN text, MakesClaim(text, k)
    PROVE  Terminal(Containers(text), Markers(text)) # {}
  <1> DEFINE n == Len(text)
             C == Containers(text)
             K == Markers(text)
             outside == {s \in K : \A c \in C : s.start \notin c.start..(c.end - 1)}
             all == C \cup outside
             gaps == {n - s.start : s \in all}
  <1>1. n \in Nat /\ DOMAIN text = 1..n
    OBVIOUS
  <1>2. /\ \A c \in C : c.start \in 1..n
        /\ \A i \in 1..n : text[i] \in Opens => \E c \in C : TRUE
    BY ContainersAreApart DEF Apart
  <1>3. \A s \in K : s.start \in 1..n
    <2> TAKE s \in K
    <2>1. PICK i \in DOMAIN text : s = MarkerSurface(text, i)
      BY DEF Markers
    <2> QED BY <1>1, <2>1, MarkerEnds DEF Ends
  <1>4. text[k] \notin Opens => MarkerSurface(text, k) \in K
    BY DEF Markers, MakesClaim
  <1>5. Terminal(C, K) = {s \in all : \A r \in all : r.start <= s.start}
    BY DEF Terminal
  <1> HIDE DEF C, K, n
  <1>6. all # {}
    <2>1. CASE C # {}
      BY <2>1
    <2>2. CASE C = {}
      <3>1. MarkerSurface(text, k) \in outside
        BY <1>1, <1>2, <1>4, <2>2
      <3> QED BY <3>1
    <2> QED BY <2>1, <2>2
  <1>7. \A s \in all : s.start \in 1..n
    BY <1>2, <1>3
  <1> HIDE DEF all
  <1>8. PICK g \in gaps : \A h \in gaps : g <= h
    <2>1. gaps \in SUBSET Nat /\ gaps # {}
      BY <1>1, <1>6, <1>7
    <2> HIDE DEF gaps
    <2> QED BY <2>1, LeastNumber
  <1>9. PICK s \in all : g = n - s.start
    BY <1>8
  <1>10. ASSUME NEW r \in all PROVE r.start <= s.start
    <2>1. n - r.start \in gaps
      OBVIOUS
    <2>2. n - s.start <= n - r.start
      BY <1>8, <1>9, <2>1
    <2>3. r.start \in Int /\ s.start \in Int /\ n \in Int
      BY <1>1, <1>7
    <2> QED BY <2>2, <2>3
  <1>11. s \in Terminal(C, K)
    BY <1>5, <1>10
  <1> QED BY <1>11 DEF C, K

\* extract_prediction_answer, for every text that is neither empty nor too long:
\* if it makes a claim, exactly one surface is the terminal one, what that
\* encloses is extracted, and no claim, well formed or not, is made after it; if
\* it makes none, the whole text is the answer or there is none.
THEOREM LastClaimIsExtracted ==
    ASSUME NEW V, NEW text \in Seq(V), Bounded(text) = "extracted"
    PROVE  /\ (\E k \in DOMAIN text : MakesClaim(text, k)) =>
                  \E t \in Containers(text) \cup Markers(text) :
                     /\ Terminal(Containers(text), Markers(text)) = {t} /\ Decides(text, t)
                     /\ ExtractPrediction(text) = Enclosed(t.candidate)
           /\ (\A k \in DOMAIN text : ~ MakesClaim(text, k)) =>
                  ExtractPrediction(text) = Direct(Strip(text))
  <1> DEFINE last == Terminal(Containers(text), Markers(text))
  <1>1. ExtractPrediction(text) = Selected(text, last)
    BY DEF ExtractPrediction
  <1>2. \A t \in last : Decides(text, t) /\ last = {t} /\ t \in Containers(text) \cup Markers(text)
    <2> TAKE t \in last
    <2>1. Decides(text, t) /\ last = {t}
      BY TerminalDecides
    <2>2. t \in Containers(text) \cup Markers(text)
      BY DEF Terminal
    <2> QED BY <2>1, <2>2
  <1>3. (\E k \in DOMAIN text : MakesClaim(text, k)) => last # {}
    BY TerminalIsThere
  <1>8. Terminal(Containers(text), Markers(text)) = last
    OBVIOUS
  <1> HIDE DEF last
  <1>4. ASSUME NEW t \in last PROVE Selected(text, last) = Enclosed(t.candidate)
    <2>1. last = {t}
      BY <1>2
    <2>2. (CHOOSE s \in last : TRUE) = t /\ last # {}
      BY <2>1
    <2> QED BY <2>2 DEF Selected
  <1>5. last = {} => Selected(text, last) = Direct(Strip(text))
    BY DEF Selected
  <1>6. (\A k \in DOMAIN text : ~ MakesClaim(text, k)) => last = {}
    BY <1>2 DEF Decides
  <1> QED BY <1>1, <1>2, <1>3, <1>4, <1>5, <1>6, <1>8

-----------------------------------------------------------------------------

\* part stands in text behind its first d tokens.
Within(V, text, d, part) ==
    /\ text \in Seq(V) /\ part \in Seq(V) /\ d \in Nat
    /\ Len(part) + d <= Len(text) /\ \A i \in DOMAIN part : part[i] = text[i + d]

\* And that is all that follows them.
Ending(V, text, d, rest) == Within(V, text, d, rest) /\ Len(text) = Len(rest) + d

LEMMA EndingPlaces ==
    ASSUME NEW V, NEW text, NEW d, NEW rest, Ending(V, text, d, rest)
    PROVE  /\ d \in Nat /\ Len(rest) \in Nat /\ Len(text) = Len(rest) + d
           /\ DOMAIN rest = 1..Len(rest) /\ DOMAIN text = 1..(Len(rest) + d)
           /\ \A i \in 1..Len(rest) : rest[i] = text[i + d] /\ i + d \in DOMAIN text
  <1> DEFINE r == Len(rest)
  <1>1. /\ d \in Nat /\ r \in Nat /\ Len(text) = r + d
        /\ DOMAIN rest = 1..r /\ DOMAIN text = 1..(r + d)
    BY DEF Ending, Within
  <1>2. \A i \in 1..r : rest[i] = text[i + d]
    BY <1>1 DEF Ending, Within
  <1> HIDE DEF r
  <1>3. \A i \in 1..r : i + d \in 1..(r + d)
    BY <1>1
  <1> QED BY <1>1, <1>2, <1>3 DEF r

SlicesMeet(text, d, rest, i, j) == SubSeq(text, i + d, j + d) = SubSeq(rest, i, j)

LEMMA SameSlice ==
    ASSUME NEW V, NEW text, NEW d, NEW rest, Within(V, text, d, rest),
           NEW i \in Nat \ {0}, NEW j \in 0..Len(rest), i <= j + 1
    PROVE  SlicesMeet(text, d, rest, i, j)
  <1> DEFINE r == Len(rest)
             m == (j - i) + 1
             a == i + d
             b == j + d
             new == SubSeq(text, a, b)
             old == SubSeq(rest, i, j)
  <1>1. /\ r \in Nat /\ Len(text) \in Nat /\ r + d <= Len(text)
        /\ DOMAIN rest = 1..r /\ DOMAIN text = 1..Len(text)
        /\ d \in Nat /\ text \in Seq(V) /\ rest \in Seq(V)
    BY DEF Within
  <1>2. \A x \in 1..r : rest[x] = text[x + d]
    BY <1>1 DEF Within
  <1> HIDE DEF r
  <1>3. i \in 1..(r + 1) /\ j \in (i - 1)..r /\ i \in Nat /\ j \in Nat /\ m \in Nat
    BY <1>1 DEF r
  <1>4. old \in Seq(V) /\ Len(old) = m /\ \A x \in 1..m : old[x] = rest[(i + x) - 1]
    <2>1. \A x \in i..j : rest[x] \in V
      BY <1>1, <1>3
    <2>2. m = (IF i <= j THEN (j - i) + 1 ELSE 0)
      BY <1>3
    <2> HIDE DEF old
    <2>3. old \in Seq(V) /\ Len(old) = m
      BY <1>3, <2>1, <2>2, SubSeqProperties DEF old
    <2>4. \A x \in 1..((j - i) + 1) : old[x] = rest[(i + x) - 1]
      BY <1>3, <2>1, SubSeqProperties DEF old
    <2> QED BY <2>3, <2>4
  <1>5. new \in Seq(V) /\ Len(new) = m /\ \A x \in 1..m : new[x] = text[((i + d) + x) - 1]
    <2>1. \A x \in a..b : text[x] \in V
      BY <1>1, <1>3
    <2>2. m = (IF a <= b THEN (b - a) + 1 ELSE 0) /\ m = (b - a) + 1
      BY <1>1, <1>3
    <2>3. a \in Int /\ b \in Int
      BY <1>1, <1>3
    <2> HIDE DEF new, a, b, m
    <2>4. new \in Seq(V) /\ Len(new) = m
      BY <2>1, <2>2, <2>3, SubSeqProperties DEF new
    <2>5. \A x \in 1..((b - a) + 1) : new[x] = text[(a + x) - 1]
      BY <2>1, <2>3, SubSeqProperties DEF new
    <2> QED BY <2>2, <2>4, <2>5 DEF a
  <1>6. ASSUME NEW x \in 1..m PROVE new[x] = old[x]
    <2>1. (i + x) - 1 \in 1..r /\ ((i + x) - 1) + d = ((i + d) + x) - 1
      BY <1>1, <1>3
    <2>2. rest[(i + x) - 1] = text[((i + d) + x) - 1]
      BY <1>2, <2>1
    <2> QED BY <1>4, <1>5, <2>2
  <1> HIDE DEF new, old, m
  <1>7. new = old
    BY <1>4, <1>5, <1>6, SeqEqual
  <1> QED BY <1>7 DEF new, old, a, b, SlicesMeet

\* The same places, d further on: as many, and the least of them d further on.
LEMMA MovedCount ==
    ASSUME NEW A, NEW B, NEW d \in Nat, IsFiniteSet(A), A \subseteq Int, B \subseteq Int,
           \A x \in A : x + d \in B, \A y \in B : y - d \in A
    PROVE  IsFiniteSet(B) /\ Cardinality(B) = Cardinality(A)
  <1> DEFINE f == [x \in A |-> x + d]
  <1>1. f \in [A -> B]
    OBVIOUS
  <1>2. \A x, y \in A : f[x] = f[y] => x = y
    OBVIOUS
  <1>3. \A y \in B : \E x \in A : f[x] = y
    <2> TAKE y \in B
    <2>1. y - d \in A /\ f[y - d] = y
      OBVIOUS
    <2> QED BY <2>1
  <1>4. f \in Bijection(A, B)
    BY <1>1, <1>2, <1>3 DEF Bijection, Injection, Surjection, IsInjective
  <1> QED BY <1>4, FS_Bijection DEF ExistsBijection

LEMMA MovedLeast ==
    ASSUME NEW A \in SUBSET Nat, NEW B \in SUBSET Nat, NEW d \in Nat, NEW a \in A,
           \A x \in A : x + d \in B, \A y \in B : y - d \in A
    PROVE  Min(A) \in A /\ Min(B) = Min(A) + d
  <1> DEFINE p == Min(A)
             q == Min(B)
  <1>1. p \in A /\ \A x \in A : p <= x
    BY LeastOf
  <1>2. q \in B /\ \A y \in B : q <= y
    <2>1. a + d \in B
      OBVIOUS
    <2> QED BY <2>1, LeastOf
  <1> HIDE DEF p, q
  <1>3. q <= p + d
    BY <1>1, <1>2
  <1>4. p <= q - d
    BY <1>1, <1>2
  <1>5. p \in Nat /\ q \in Nat
    BY <1>1, <1>2
  <1>6. q = p + d
    BY <1>3, <1>4, <1>5
  <1> QED BY <1>1, <1>6 DEF p, q

\* P has, of the places up to n + d, an even number E up to d, and then those of Q.
EvenThen(d, n, E, P, Q) ==
    /\ d \in Nat /\ n \in Nat /\ P \subseteq 1..(n + d) /\ Q \subseteq 1..n
    /\ \A x \in 1..n : x \in Q <=> x + d \in P
    /\ E = P \cap (1..d) /\ Cardinality(E) % 2 = 0

LEMMA MovedParity ==
    ASSUME NEW d, NEW n, NEW E, NEW P, NEW Q, EvenThen(d, n, E, P, Q)
    PROVE  Cardinality(P) % 2 = Cardinality(Q) % 2
  <1> USE DEF EvenThen
  <1> DEFINE R == P \ E
  <1>1. IsFiniteSet(1..(n + d)) /\ IsFiniteSet(1..n)
    BY FS_Interval
  <1>2. IsFiniteSet(P) /\ IsFiniteSet(Q)
    BY <1>1, FS_Subset
  <1>3. IsFiniteSet(E) /\ IsFiniteSet(R)
    <2>1. E \in SUBSET P /\ R \in SUBSET P
      OBVIOUS
    <2> QED BY <1>2, <2>1, FS_Subset
  <1>4. Cardinality(R) = Cardinality(Q)
    <2>1. \A x \in Q : x + d \in R
      OBVIOUS
    <2>2. \A y \in R : y - d \in Q
      <3> TAKE y \in R
      <3>1. y \in 1..(n + d) /\ y \notin 1..d
        OBVIOUS
      <3>2. y - d \in 1..n /\ (y - d) + d = y
        BY <3>1
      <3> QED BY <3>2
    <2>3. Q \subseteq Int /\ R \subseteq Int
      OBVIOUS
    <2>4. IsFiniteSet(Q)
      BY <1>2
    <2> HIDE DEF R
    <2> QED BY <2>1, <2>2, <2>3, <2>4, MovedCount
  <1>5. Cardinality(P) = Cardinality(E) + Cardinality(R)
    <2>1. P = E \cup R /\ E \cap R = {}
      OBVIOUS
    <2>2. Cardinality({}) = 0
      BY FS_EmptySet
    <2>3. Cardinality(E) \in Nat /\ Cardinality(R) \in Nat
      BY <1>3, FS_CardinalityType
    <2> HIDE DEF R
    <2> QED BY <1>3, <2>1, <2>2, <2>3, FS_Union
  <1>6. Cardinality(E) \in Nat /\ Cardinality(Q) \in Nat
    BY <1>2, <1>3, FS_CardinalityType
  <1> DEFINE e == Cardinality(E)
             q == Cardinality(Q)
  <1> HIDE DEF e, q
  <1>7. e \in Nat /\ q \in Nat /\ e % 2 = 0 /\ Cardinality(P) = e + q
    BY <1>4, <1>5, <1>6 DEF e, q
  <1>8. (e + q) % 2 = q % 2
    BY <1>7
  <1> QED BY <1>7, <1>8 DEF q

LEMMA TimesMoved ==
    ASSUME NEW V, NEW text, NEW d, NEW rest, Ending(V, text, d, rest),
           NEW i \in Nat \ {0}, NEW j \in 0..Len(rest), NEW token
    PROVE  Times(text, i + d, j + d, token) = Times(rest, i, j, token)
  <1> DEFINE r == Len(rest)
             A == {k \in i..j : rest[k] = token}
             B == {k \in (i + d)..(j + d) : text[k] = token}
  <1>1. d \in Nat /\ r \in Nat /\ \A k \in 1..r : rest[k] = text[k + d]
    BY EndingPlaces
  <1> HIDE DEF r
  <1>2. j \in 0..r /\ i \in Nat /\ j \in Nat /\ i # 0
    BY <1>1 DEF r
  <1>3. IsFiniteSet(A) /\ A \subseteq Int
    <2>1. IsFiniteSet(i..j) /\ A \in SUBSET (i..j)
      BY <1>2, FS_Interval
    <2> QED BY <2>1, FS_Subset
  <1>4. B \subseteq Int
    BY <1>1, <1>2
  <1>5. \A x \in A : x + d \in B
    <2> TAKE x \in A
    <2>1. x \in 1..r /\ x + d \in (i + d)..(j + d) /\ rest[x] = token
      BY <1>1, <1>2
    <2> QED BY <1>1, <2>1
  <1>6. \A y \in B : y - d \in A
    <2> TAKE y \in B
    <2>1. y - d \in 1..r /\ y - d \in i..j /\ (y - d) + d = y /\ text[y] = token
      BY <1>1, <1>2
    <2> QED BY <1>1, <2>1
  <1> HIDE DEF A, B
  <1>7. Cardinality(B) = Cardinality(A)
    BY <1>1, <1>3, <1>4, <1>5, <1>6, MovedCount
  <1> QED BY <1>7 DEF A, B, Times

LEMMA CodeMoved ==
    ASSUME NEW V, NEW text, NEW d, NEW rest, Ending(V, text, d, rest),
           ~ InCode(text, d + 1), NEW i \in 1..Len(rest)
    PROVE  InCode(text, i + d) = InCode(rest, i)
  <1> DEFINE r == Len(rest)
  <1>1. d \in Nat /\ r \in Nat /\ \A k \in 1..r : rest[k] = text[k + d]
    BY EndingPlaces
  <1> HIDE DEF r
  <1>2. ~ Fenced(text, d + 1)
    BY DEF InCode
  <1>3. ASSUME NEW k \in 1..r PROVE Fenced(text, k + d) = Fenced(rest, k)
    <2> DEFINE n == k - 1
               P == {x \in 1..(n + d) : text[x] = "fence"}
               Q == {x \in 1..n : rest[x] = "fence"}
               E == {x \in 1..d : text[x] = "fence"}
    <2>1. n \in Nat /\ n + d = (k + d) - 1 /\ (d + 1) - 1 = d /\ k \in 1..r /\ k = n + 1
      BY <1>1
    <2> HIDE DEF n
    <2>2. P \in SUBSET (1..(n + d)) /\ Q \in SUBSET (1..n)
      OBVIOUS
    <2>3. E = P \cap (1..d)
      <3>1. \A x \in 1..d : x \in 1..(n + d)
        BY <1>1, <2>1
      <3> QED BY <3>1
    <2>4. \A x \in 1..n : x \in Q <=> x + d \in P
      <3> TAKE x \in 1..n
      <3>1. x \in 1..r /\ x + d \in 1..(n + d)
        BY <1>1, <2>1
      <3> QED BY <1>1, <3>1
    <2>5. Cardinality(E) \in Nat
      <3>1. IsFiniteSet(1..d) /\ E \in SUBSET (1..d)
        BY <1>1, FS_Interval
      <3>2. IsFiniteSet(E)
        BY <3>1, FS_Subset
      <3> QED BY <3>2, FS_CardinalityType
    <2>6. Cardinality(E) % 2 # 1
      BY <1>2, <2>1 DEF Fenced, Times
    <2> HIDE DEF P, Q, E
    <2>7. Cardinality(E) % 2 = 0
      <3> DEFINE e == Cardinality(E)
      <3>1. e \in Nat /\ e % 2 # 1
        BY <2>5, <2>6
      <3> HIDE DEF e
      <3>2. e % 2 = 0
        BY <3>1
      <3> QED BY <3>2 DEF e
    <2>8. Cardinality(P) % 2 = Cardinality(Q) % 2
      <3>1. EvenThen(d, n, E, P, Q)
        BY <1>1, <2>1, <2>2, <2>3, <2>4, <2>7 DEF EvenThen
      <3> QED BY <3>1, MovedParity
    <2>9. /\ Fenced(text, k + d) = (Cardinality(P) % 2 = 1)
          /\ Fenced(rest, k) = (Cardinality(Q) % 2 = 1)
      BY <2>1 DEF Fenced, Times, P, Q, n
    <2> QED BY <2>8, <2>9
  <1> DEFINE n == i - 1
             P == {x \in 1..(n + d) : text[x] = "code" /\ ~ Fenced(text, x)}
             Q == {x \in 1..n : rest[x] = "code" /\ ~ Fenced(rest, x)}
             E == {x \in 1..d : text[x] = "code" /\ ~ Fenced(text, x)}
  <1>4. n \in Nat /\ n + d = (i + d) - 1 /\ (d + 1) - 1 = d /\ i \in 1..r /\ i = n + 1
    BY <1>1 DEF r
  <1> HIDE DEF n
  <1>5. P \in SUBSET (1..(n + d)) /\ Q \in SUBSET (1..n)
    OBVIOUS
  <1>6. E = P \cap (1..d)
    <2>1. \A x \in 1..d : x \in 1..(n + d)
      BY <1>1, <1>4
    <2> QED BY <2>1
  <1>7. \A x \in 1..n : x \in Q <=> x + d \in P
    <2> TAKE x \in 1..n
    <2>1. x \in 1..r /\ x + d \in 1..(n + d)
      BY <1>1, <1>4
    <2>2. Fenced(text, x + d) = Fenced(rest, x) /\ rest[x] = text[x + d]
      BY <1>1, <1>3, <2>1
    <2> QED BY <2>1, <2>2
  <1>8. Cardinality(E) \in Nat
    <2>1. IsFiniteSet(1..d) /\ E \in SUBSET (1..d)
      BY <1>1, FS_Interval
    <2>2. IsFiniteSet(E)
      BY <2>1, FS_Subset
    <2> QED BY <2>2, FS_CardinalityType
  <1>9. Cardinality(E) % 2 # 1
    BY <1>4 DEF InCode
  <1>10. /\ InCode(text, i + d) = (Fenced(text, i + d) \/ Cardinality(P) % 2 = 1)
         /\ InCode(rest, i) = (Fenced(rest, i) \/ Cardinality(Q) % 2 = 1)
    BY <1>4 DEF InCode, n
  <1> HIDE DEF P, Q, E
  <1>11. Cardinality(E) % 2 = 0
    <2> DEFINE e == Cardinality(E)
    <2>1. e \in Nat /\ e % 2 # 1
      BY <1>8, <1>9
    <2> HIDE DEF e
    <2>2. e % 2 = 0
      BY <2>1
    <2> QED BY <2>2 DEF e
  <1>12. Cardinality(P) % 2 = Cardinality(Q) % 2
    <2>1. EvenThen(d, n, E, P, Q)
      BY <1>1, <1>4, <1>5, <1>6, <1>7, <1>11 DEF EvenThen
    <2> QED BY <2>1, MovedParity
  <1>13. Fenced(text, i + d) = Fenced(rest, i)
    BY <1>3, <1>4
  <1> QED BY <1>10, <1>12, <1>13

LEMMA NextMoved ==
    ASSUME NEW V, NEW text, NEW d, NEW rest, Ending(V, text, d, rest),
           NEW i \in 1..(Len(rest) + 1), NEW tokens
    PROVE  NextOf(text, i + d, tokens) = NextOf(rest, i, tokens) + d
  <1> DEFINE r == Len(rest)
             A == {k \in i..(r + 1) : k = r + 1 \/ rest[k] \in tokens}
             B == {k \in (i + d)..((r + d) + 1) : k = (r + d) + 1 \/ text[k] \in tokens}
  <1>1. d \in Nat /\ r \in Nat /\ Len(text) = r + d /\ \A k \in 1..r : rest[k] = text[k + d]
    BY EndingPlaces
  <1>2. NextOf(text, i + d, tokens) = Min(B) /\ NextOf(rest, i, tokens) = Min(A)
    BY <1>1 DEF NextOf
  <1> HIDE DEF r
  <1>3. i \in 1..(r + 1)
    BY <1>1 DEF r
  <1>4. A \in SUBSET Nat /\ B \in SUBSET Nat /\ r + 1 \in A
    BY <1>1, <1>3
  <1>5. \A x \in A : x + d \in B
    <2> TAKE x \in A
    <2>1. x \in i..(r + 1) /\ x + d \in (i + d)..((r + d) + 1)
      BY <1>1, <1>3
    <2>2. CASE x = r + 1
      BY <1>1, <2>1, <2>2
    <2>3. CASE x # r + 1
      <3>1. x \in 1..r /\ rest[x] \in tokens
        BY <1>1, <1>3, <2>3
      <3> QED BY <1>1, <2>1, <3>1
    <2> QED BY <2>2, <2>3
  <1>6. \A y \in B : y - d \in A
    <2> TAKE y \in B
    <2>1. y \in (i + d)..((r + d) + 1) /\ y - d \in i..(r + 1) /\ (y - d) + d = y
      BY <1>1, <1>3
    <2>2. CASE y = (r + d) + 1
      <3>1. y - d = r + 1
        BY <1>1, <2>2
      <3> QED BY <2>1, <3>1
    <2>3. CASE y # (r + d) + 1
      <3>1. y - d \in 1..r /\ text[y] \in tokens
        BY <1>1, <1>3, <2>1, <2>3
      <3> QED BY <1>1, <2>1, <3>1
    <2> QED BY <2>2, <2>3
  <1> HIDE DEF A, B
  <1>7. Min(B) = Min(A) + d
    BY <1>1, <1>4, <1>5, <1>6, MovedLeast
  <1> QED BY <1>2, <1>7

LEMMA PastBreaksMoved ==
    ASSUME NEW V, NEW text, NEW d, NEW rest, Ending(V, text, d, rest),
           NEW i \in 1..(Len(rest) + 1)
    PROVE  PastBreaks(text, i + d) = PastBreaks(rest, i) + d
  <1> DEFINE T == V \ {"\n"}
  <1>1. /\ d \in Nat /\ Len(rest) \in Nat /\ Len(text) = Len(rest) + d
        /\ text \in Seq(V) /\ rest \in Seq(V)
    BY EndingPlaces DEF Ending, Within
  <1>2. i + d \in 1..(Len(text) + 1)
    BY <1>1
  <1>3. PastBreaks(text, i + d) = NextOf(text, i + d, T) /\ PastBreaks(rest, i) = NextOf(rest, i, T)
    BY <1>1, <1>2, PastBreaksIsNext
  <1> HIDE DEF T
  <1> QED BY <1>3, NextMoved

LEMMA LineMoved ==
    ASSUME NEW V, NEW text, NEW d, NEW rest, Ending(V, text, d, rest),
           NEW i \in 1..(Len(rest) + 1)
    PROVE  LineEnd(text, i + d) = LineEnd(rest, i) + d
  <1> DEFINE r == Len(rest)
             near == NextOf(rest, i, Breaks)
             far == NextOf(text, i + d, Breaks)
  <1>1. d \in Nat /\ r \in Nat /\ Len(text) = r + d /\ \A k \in 1..r : rest[k] = text[k + d]
    BY EndingPlaces
  <1>2. far = near + d
    BY NextMoved
  <1>3. /\ LineEnd(rest, i) = IF i <= r /\ rest[i] = "fence" THEN i + 1 ELSE near
        /\ LineEnd(text, i + d) =
                IF i + d <= r + d /\ text[i + d] = "fence" THEN (i + d) + 1 ELSE far
    BY <1>1 DEF LineEnd
  <1> HIDE DEF near, far, r
  <1>4. i \in 1..(r + 1)
    BY DEF r
  <1>5. CASE i <= r
    <2>1. i + d <= r + d /\ rest[i] = text[i + d] /\ (i + d) + 1 = (i + 1) + d
      BY <1>1, <1>4, <1>5
    <2> QED BY <1>2, <1>3, <1>5, <2>1
  <1>6. CASE ~ (i <= r)
    <2>1. ~ (i + d <= r + d)
      BY <1>1, <1>4, <1>6
    <2> QED BY <1>2, <1>3, <1>6, <2>1
  <1> QED BY <1>5, <1>6

\* A surface d places further on.
Moved(c, d) == Surface(c.start + d, c.end + d, c.candidate)

LEMMA BoxMoved ==
    ASSUME NEW V, NEW text, NEW d, NEW rest, Ending(V, text, d, rest),
           ~ InCode(text, d + 1), NEW i \in 1..Len(rest)
    PROVE  BoxSurface(text, i + d) = Moved(BoxSurface(rest, i), d)
  <1> DEFINE r == Len(rest)
             a == PastBreaks(rest, i + 1)
             b == PastBreaks(text, (i + d) + 1)
             C == {k \in a..r : Times(rest, a, k, "{") = Times(rest, a, k, "}")}
             D == {k \in b..(r + d) : Times(text, b, k, "{") = Times(text, b, k, "}")}
             none == InCode(rest, i) \/ a = r + 1 \/ rest[a] # "{"
             many == InCode(text, i + d) \/ b = (r + d) + 1 \/ text[b] # "{"
             inner == Strip(SubSeq(rest, a + 1, Min(C) - 1))
             outer == Strip(SubSeq(text, b + 1, Min(D) - 1))
  <1>1. d \in Nat /\ r \in Nat /\ Len(text) = r + d /\ \A k \in 1..r : rest[k] = text[k + d]
    BY EndingPlaces
  <1>2. InCode(text, i + d) = InCode(rest, i)
    BY CodeMoved
  <1>3. BoxSurface(rest, i) =
            IF none THEN Surface(i, i + 1, <<>>)
            ELSE IF C = {} THEN Surface(i, r + 1, <<>>)
            ELSE Surface(i, Min(C) + 1, inner)
    BY DEF BoxSurface
  <1>4. BoxSurface(text, i + d) =
            IF many THEN Surface(i + d, (i + d) + 1, <<>>)
            ELSE IF D = {} THEN Surface(i + d, (r + d) + 1, <<>>)
            ELSE Surface(i + d, Min(D) + 1, outer)
    BY <1>1 DEF BoxSurface
  <1> HIDE DEF r
  <1>5. i \in 1..r
    BY DEF r
  <1>6. a \in (i + 1)..(r + 1) /\ b = a + d
    <2>1. i + 1 \in 1..(Len(rest) + 1) /\ (i + 1) + d = (i + d) + 1
      BY <1>1, <1>5 DEF r
    <2>2. rest \in Seq(V)
      BY DEF Ending, Within
    <2>3. a \in (i + 1)..(r + 1)
      BY <2>1, <2>2, PastBreaksIsThere DEF r
    <2>4. PastBreaks(text, (i + 1) + d) = PastBreaks(rest, i + 1) + d
      BY <2>1, PastBreaksMoved
    <2> QED BY <2>1, <2>3, <2>4
  <1>7. a \in (i + 1)..(r + 1)
    BY <1>6
  <1> HIDE DEF a, b
  <1>8. a \in Nat \ {0} /\ (b = (r + d) + 1) = (a = r + 1)
    BY <1>1, <1>5, <1>6, <1>7
  <1>9. a < r + 1 => rest[a] = text[b]
    <2> SUFFICES ASSUME a < r + 1 PROVE rest[a] = text[b]
      OBVIOUS
    <2>1. a \in 1..r
      BY <1>1, <1>5, <1>7
    <2> QED BY <1>1, <1>6, <2>1
  <1>10. ASSUME NEW k \in a..r, NEW token
         PROVE  Times(text, b, k + d, token) = Times(rest, a, k, token)
    <2>1. k \in 0..r
      BY <1>1, <1>7, <1>8
    <2> QED BY <1>6, <1>8, <2>1, TimesMoved DEF r
  <1>11. \A x \in C : x + d \in D
    <2> TAKE x \in C
    <2>1. x \in a..r /\ x + d \in b..(r + d)
      <3>1. x \in a..r
        OBVIOUS
      <3> HIDE DEF C, D, inner, outer, none, many
      <3> QED BY <1>1, <1>6, <1>8, <3>1
    <2> QED BY <1>10, <2>1
  <1>12. \A y \in D : y - d \in C
    <2> TAKE y \in D
    <2>1. y - d \in a..r /\ (y - d) + d = y
      <3>1. y \in b..(r + d)
        OBVIOUS
      <3> HIDE DEF C, D, inner, outer, none, many
      <3> QED BY <1>1, <1>6, <1>8, <3>1
    <2>2. /\ Times(text, b, y, "{") = Times(rest, a, y - d, "{")
          /\ Times(text, b, y, "}") = Times(rest, a, y - d, "}")
      BY <1>10, <2>1
    <2> QED BY <2>1, <2>2
  <1>13. (C = {}) = (D = {})
    BY <1>11, <1>12
  <1>14. ASSUME C # {} PROVE Min(C) \in a..r /\ Min(D) = Min(C) + d
    <2>1. C \in SUBSET Nat /\ D \in SUBSET Nat /\ C \in SUBSET (a..r)
      <3>1. C \in SUBSET (a..r) /\ D \in SUBSET (b..(r + d))
        OBVIOUS
      <3> HIDE DEF C, D, inner, outer, none, many
      <3>2. \A x \in a..r : x \in Nat
        BY <1>8
      <3>3. b \in Nat /\ \A x \in b..(r + d) : x \in Nat
        BY <1>1, <1>6, <1>8
      <3> QED BY <3>1, <3>2, <3>3
    <2>2. PICK x \in C : TRUE
      BY <1>14
    <2> HIDE DEF C, D
    <2>3. Min(C) \in C /\ Min(D) = Min(C) + d
      BY <1>1, <1>11, <1>12, <2>1, <2>2, MovedLeast
    <2> QED BY <2>1, <2>3
  <1>15. ASSUME C # {} PROVE outer = inner
    <2> DEFINE m == Min(C)
               M == Min(D)
    <2>1. m \in a..r /\ M = m + d
      BY <1>14, <1>15
    <2> HIDE DEF m, M
    <2>2. /\ a + 1 \in 1..(r + 1) /\ (m - 1 \in ((a + 1) - 1)..r \/ m = a)
          /\ b + 1 = (a + 1) + d /\ M - 1 = (m - 1) + d
      <3> HIDE DEF C, D, inner, outer, none, many
      <3>1. a \in Nat \ {0} /\ r \in Nat /\ d \in Nat /\ a <= r + 1 /\ b = a + d
        BY <1>1, <1>6, <1>8
      <3>2. m \in Nat /\ a <= m /\ m <= r
        BY <2>1, <3>1
      <3>3. a + 1 \in 1..(r + 1) /\ (m - 1 \in ((a + 1) - 1)..r \/ m = a)
        BY <2>1, <3>1, <3>2
      <3> QED BY <2>1, <3>1, <3>2, <3>3
    <2> DEFINE from == a + 1
               upto == m - 1
    <2>3. SubSeq(text, b + 1, M - 1) = SubSeq(rest, from, upto)
      <3>1. CASE m = a
        <4>1. a + 1 \in Int /\ b + 1 \in Int /\ M - 1 \in Int /\ m - 1 \in Int
          BY <1>1, <1>6, <1>8, <2>1
        <4>2. m - 1 < a + 1 /\ M - 1 < b + 1
          BY <1>1, <1>6, <1>8, <2>1, <3>1
        <4> QED BY <4>1, <4>2, SubSeqEmpty
      <3>2. CASE m # a
        <4>1. from \in Nat \ {0} /\ upto \in 0..r /\ from <= upto + 1
          BY <1>1, <1>7, <1>8, <2>1, <3>2
        <4> HIDE DEF from, upto
        <4>2. SubSeq(text, from + d, upto + d) = SubSeq(rest, from, upto)
          <5> HIDE DEF C, D, inner, outer, none, many
          <5>1. SlicesMeet(text, d, rest, from, upto)
            BY <4>1, SameSlice DEF r, Ending
          <5> QED BY <5>1 DEF SlicesMeet
        <4> QED BY <2>2, <4>2 DEF from, upto
      <3> QED BY <3>1, <3>2
    <2> QED BY <2>3 DEF m, M
  <1>16. none = many
    <2>1. CASE a = r + 1
      BY <1>8, <2>1
    <2>2. CASE a # r + 1
      <3>1. a < r + 1
        BY <1>1, <1>5, <1>7, <2>2
      <3> QED BY <1>2, <1>8, <1>9, <2>2, <3>1
    <2> QED BY <2>1, <2>2
  <1> HIDE DEF none, many, C, D, inner, outer
  <1>17. i \in Int /\ r \in Int /\ d \in Int
    BY <1>1, <1>5
  <1>18. CASE none
    <2>1. BoxSurface(rest, i) = Surface(i, i + 1, <<>>)
      BY <1>3, <1>18
    <2>2. BoxSurface(text, i + d) = Surface(i + d, (i + d) + 1, <<>>)
      BY <1>4, <1>16, <1>18
    <2>3. (i + d) + 1 = (i + 1) + d
      BY <1>17
    <2> QED BY <2>1, <2>2, <2>3 DEF Moved, Surface
  <1>19. CASE ~ none /\ C = {}
    <2>1. BoxSurface(rest, i) = Surface(i, r + 1, <<>>)
      BY <1>3, <1>19
    <2>2. BoxSurface(text, i + d) = Surface(i + d, (r + d) + 1, <<>>)
      BY <1>4, <1>13, <1>16, <1>19
    <2>3. (r + d) + 1 = (r + 1) + d
      BY <1>17
    <2> QED BY <2>1, <2>2, <2>3 DEF Moved, Surface
  <1>20. CASE ~ none /\ C # {}
    <2>1. BoxSurface(rest, i) = Surface(i, Min(C) + 1, inner)
      BY <1>3, <1>20
    <2>2. BoxSurface(text, i + d) = Surface(i + d, Min(D) + 1, outer)
      BY <1>4, <1>13, <1>16, <1>20
    <2>3. Min(D) + 1 = (Min(C) + 1) + d
      <3> DEFINE m == Min(C)
      <3>1. m \in a..r /\ Min(D) = m + d
        BY <1>14, <1>20
      <3> HIDE DEF m
      <3>2. (m + d) + 1 = (m + 1) + d
        BY <1>8, <1>17, <3>1
      <3> QED BY <3>1, <3>2 DEF m
    <2> QED BY <1>15, <1>20, <2>1, <2>2, <2>3 DEF Moved, Surface
  <1> QED BY <1>18, <1>19, <1>20

\* Every "not" among the first d tokens ends its clause there.
NoNegationPast(text, d) ==
    \A k \in 1..d : text[k] = "not" => NextOf(text, k, Breaks \cup {"."}) <= d + 1

LEMMA NegatedMoved ==
    ASSUME NEW V, NEW text, NEW d, NEW rest, Ending(V, text, d, rest),
           NoNegationPast(text, d), NEW i \in 1..Len(rest)
    PROVE  Negated(text, i + d) = Negated(rest, i)
  <1> DEFINE r == Len(rest)
             tokens == Breaks \cup {"."}
  <1>1. d \in Nat /\ r \in Nat /\ \A k \in 1..r : rest[k] = text[k + d]
    BY EndingPlaces
  <1>2. text \in Seq(V) /\ Len(text) = r + d /\ rest \in Seq(V)
    BY EndingPlaces DEF Ending, Within
  <1>3. ASSUME NEW k \in 1..r PROVE NextOf(text, k + d, tokens) = NextOf(rest, k, tokens) + d
    <2>1. k \in 1..(r + 1)
      BY <1>1
    <2> HIDE DEF tokens
    <2> QED BY <2>1, NextMoved
  <1>4. ASSUME NEW k \in 1..r PROVE NextOf(rest, k, tokens) \in Int
    <2> HIDE DEF tokens
    <2>1. k \in 1..(Len(rest) + 1) /\ r + 1 \in Int
      BY <1>1
    <2>2. NextOf(rest, k, tokens) \in k..(Len(rest) + 1)
      BY <1>2, <2>1, NextIsThere
    <2> QED BY <2>2
  <1> HIDE DEF r
  <1>5. i \in 1..r
    BY DEF r
  <1>6. ASSUME NEW k \in 1..d, text[k] = "not" PROVE NextOf(text, k, tokens) <= d + 1
    BY <1>6 DEF NoNegationPast
  <1>7. ASSUME NEW k \in 1..d PROVE NextOf(text, k, tokens) \in Int
    <2> HIDE DEF tokens
    <2>1. k \in 1..(Len(text) + 1)
      BY <1>1, <1>2
    <2>2. NextOf(text, k, tokens) \in k..(Len(text) + 1)
      BY <1>2, <2>1, NextIsThere
    <2>3. k \in Int /\ Len(text) + 1 \in Int
      BY <1>1, <1>2
    <2> QED BY <2>2, <2>3
  <1> HIDE DEF tokens
  <1>8. ASSUME NEW k \in 1..(i - 1), rest[k] = "not", NextOf(rest, k, tokens) > i
        PROVE  /\ k + d \in 1..((i + d) - 1) /\ text[k + d] = "not"
               /\ NextOf(text, k + d, tokens) > i + d
    <2>1. k \in 1..r
      BY <1>1, <1>5
    <2>2. NextOf(rest, k, tokens) + d > i + d
      BY <1>1, <1>4, <1>5, <1>8, <2>1
    <2> QED BY <1>1, <1>3, <1>5, <1>8, <2>1, <2>2
  <1>9. ASSUME NEW k \in 1..((i + d) - 1), text[k] = "not", NextOf(text, k, tokens) > i + d
        PROVE  k - d \in 1..(i - 1) /\ rest[k - d] = "not" /\ NextOf(rest, k - d, tokens) > i
    <2>1. k > d
      <3> SUFFICES ASSUME ~ (k > d) PROVE FALSE
        OBVIOUS
      <3>1. k \in 1..d
        BY <1>1, <1>5
      <3>2. NextOf(text, k, tokens) <= d + 1 /\ NextOf(text, k, tokens) \in Int
        BY <1>6, <1>7, <1>9, <3>1
      <3> QED BY <1>1, <1>5, <1>9, <3>2
    <2> DEFINE j == k - d
    <2>2. j \in 1..(i - 1) /\ j \in 1..r /\ j + d = k
      BY <1>1, <1>5, <2>1
    <2> HIDE DEF j
    <2>3. NextOf(rest, j, tokens) > i
      <3> DEFINE u == NextOf(rest, j, tokens)
                 v == NextOf(text, k, tokens)
      <3>1. NextOf(text, j + d, tokens) = u + d /\ u \in Int
        BY <1>3, <1>4, <2>2
      <3>2. v = u + d /\ v > i + d
        BY <1>9, <2>2, <3>1
      <3>3. u \in Int
        BY <3>1
      <3> HIDE DEF u, v
      <3>4. u > i
        BY <1>1, <1>5, <3>2, <3>3
      <3> QED BY <3>4 DEF u
    <2> QED BY <1>1, <1>9, <2>2, <2>3 DEF j
  <1>10. /\ Negated(text, i + d) = \E k \in 1..((i + d) - 1) :
                                       text[k] = "not" /\ NextOf(text, k, tokens) > i + d
         /\ Negated(rest, i) = \E k \in 1..(i - 1) :
                                       rest[k] = "not" /\ NextOf(rest, k, tokens) > i
    BY DEF Negated, tokens
  <1>11. Negated(rest, i) => Negated(text, i + d)
    <2> SUFFICES ASSUME Negated(rest, i) PROVE Negated(text, i + d)
      OBVIOUS
    <2>1. PICK k \in 1..(i - 1) : rest[k] = "not" /\ NextOf(rest, k, tokens) > i
      BY <1>10
    <2> QED BY <1>8, <1>10, <2>1
  <1>12. Negated(text, i + d) => Negated(rest, i)
    <2> SUFFICES ASSUME Negated(text, i + d) PROVE Negated(rest, i)
      OBVIOUS
    <2>1. PICK k \in 1..((i + d) - 1) : text[k] = "not" /\ NextOf(text, k, tokens) > i + d
      BY <1>10
    <2> QED BY <1>9, <1>10, <2>1
  <1>13. Negated(text, i + d) \in BOOLEAN /\ Negated(rest, i) \in BOOLEAN
    BY <1>10
  <1> QED BY <1>11, <1>12, <1>13

LEMMA MarkerMoved ==
    ASSUME NEW V, NEW text, NEW d, NEW rest, Ending(V, text, d, rest),
           ~ InCode(text, d + 1), NEW i \in 1..Len(rest)
    PROVE  MarkerSurface(text, i + d) = Moved(MarkerSurface(rest, i), d)
  <1> DEFINE r == Len(rest)
             from == PastBreaks(rest, i + 1)
             begin == PastBreaks(text, (i + d) + 1)
             near == LineEnd(rest, from)
             far == LineEnd(text, begin)
             upto == near - 1
  <1>1. d \in Nat /\ r \in Nat /\ rest \in Seq(V) /\ i \in 1..r
    BY EndingPlaces DEF Ending, Within
  <1>2. InCode(text, i + d) = InCode(rest, i)
    BY CodeMoved
  <1>3. from \in (i + 1)..(r + 1) /\ begin = from + d
    <2>1. i + 1 \in 1..(Len(rest) + 1) /\ (i + 1) + d = (i + d) + 1
      BY <1>1
    <2>2. PastBreaks(text, (i + 1) + d) = PastBreaks(rest, i + 1) + d
      BY <2>1, PastBreaksMoved
    <2>3. from \in (i + 1)..(r + 1)
      BY <1>1, <2>1, PastBreaksIsThere
    <2> QED BY <2>1, <2>2, <2>3
  <1>5. /\ MarkerSurface(text, i + d) =
                IF InCode(text, i + d) THEN Surface(i + d, begin, <<>>)
                ELSE Surface(i + d, far, Clean(SubSeq(text, begin, far - 1)))
        /\ MarkerSurface(rest, i) =
                IF InCode(rest, i) THEN Surface(i, from, <<>>)
                ELSE Surface(i, near, Clean(SubSeq(rest, from, upto)))
    BY DEF MarkerSurface
  <1> HIDE DEF from, begin
  <1>4. near \in from..(r + 1) /\ far = near + d
    <2>1. from \in 1..(Len(rest) + 1)
      BY <1>1, <1>3
    <2>2. LineEnd(text, from + d) = LineEnd(rest, from) + d
      BY <2>1, LineMoved
    <2>3. LineEnd(rest, from) \in from..(r + 1)
      BY <1>1, <2>1, LineIsThere
    <2> QED BY <1>3, <2>2, <2>3
  <1> HIDE DEF near, far
  <1>6. /\ from \in Nat \ {0} /\ upto \in 0..r /\ from <= upto + 1
        /\ begin = from + d /\ far - 1 = upto + d
    BY <1>1, <1>3, <1>4
  <1> HIDE DEF upto
  <1>7. SubSeq(text, begin, far - 1) = SubSeq(rest, from, upto)
    <2>1. SlicesMeet(text, d, rest, from, upto)
      BY <1>6, SameSlice DEF r, Ending
    <2> QED BY <1>6, <2>1 DEF SlicesMeet
  <1>9. CASE InCode(rest, i)
    <2>1. /\ MarkerSurface(text, i + d) = Surface(i + d, begin, <<>>)
          /\ MarkerSurface(rest, i) = Surface(i, from, <<>>)
      BY <1>2, <1>5, <1>9
    <2> QED BY <1>3, <2>1 DEF Moved, Surface
  <1>10. CASE ~ InCode(rest, i)
    <2> DEFINE inner == Clean(SubSeq(rest, from, upto))
    <2>1. /\ MarkerSurface(text, i + d) = Surface(i + d, far, inner)
          /\ MarkerSurface(rest, i) = Surface(i, near, inner)
      BY <1>2, <1>5, <1>7, <1>10
    <2> HIDE DEF inner
    <2> QED BY <1>4, <2>1 DEF Moved, Surface
  <1> QED BY <1>9, <1>10

\* Opening tags among the first k tokens, and among the first n.
TagsUpTo(tags, k) ==
    tags = [open |-> tags.open, nested |-> tags.nested]
    /\ tags.open \in Seq(1..k) /\ tags.nested \subseteq 1..k

LEMMA TagsStay ==
    ASSUME NEW text, NEW n \in Nat, NEW k \in 1..n, NEW tags, TagsUpTo(tags, n)
    PROVE  TagsUpTo(TagsAfter(tags, text, k), n)
  <1> DEFINE more == [open |-> Append(tags.open, k),
                      nested |-> IF tags.open = <<>> THEN tags.nested
                                 ELSE tags.nested \cup ToSet(tags.open) \cup {k}]
             less == [tags EXCEPT !.open = Front(@)]
  <1>1. \/ TagsAfter(tags, text, k) = more
        \/ tags.open # <<>> /\ TagsAfter(tags, text, k) = less
        \/ TagsAfter(tags, text, k) = tags
    BY DEF TagsAfter
  <1>2. tags.open \in Seq(1..n) /\ tags.nested \subseteq 1..n
    BY DEF TagsUpTo
  <1>3. CASE TagsAfter(tags, text, k) = more
    <2>1. Append(tags.open, k) \in Seq(1..n)
      BY <1>2
    <2>2. ToSet(tags.open) \subseteq 1..n
      BY <1>2 DEF ToSet
    <2> QED BY <1>2, <1>3, <2>1, <2>2 DEF TagsUpTo
  <1>4. CASE tags.open # <<>> /\ TagsAfter(tags, text, k) = less
    <2>1. less = [open |-> Front(tags.open), nested |-> tags.nested]
      BY DEF TagsUpTo
    <2>2. Front(tags.open) \in Seq(1..n)
      BY <1>2 DEF Front
    <2> HIDE DEF less
    <2> QED BY <1>2, <1>4, <2>1, <2>2 DEF TagsUpTo
  <1> QED BY <1>1, <1>3, <1>4

LEMMA TagsFollow ==
    ASSUME NEW V, NEW text \in Seq(V)
    PROVE  /\ Tags(text, 0) = [open |-> <<>>, nested |-> {}]
           /\ \A k \in 1..Len(text) : Tags(text, k) = TagsAfter(Tags(text, k - 1), text, k)
           /\ \A k \in 0..Len(text) : TagsUpTo(Tags(text, k), k)
  <1> DEFINE n == Len(text)
             D == 0..n
             none == [open |-> <<>>, nested |-> {}]
             value(k, after) == IF k = 0 THEN none ELSE TagsAfter(after[k - 1], text, k)
             Holds(after) == after = [k \in D |-> value(k, after)]
             after == CHOOSE after : Holds(after)
  <1>1. n \in Nat
    OBVIOUS
  <1>2. \A k \in D : Tags(text, k) = after[k]
    BY DEF Tags
  <1> HIDE DEF n
  <1>3. \E h : Holds(h)
    <2> DEFINE W == {tags \in [open : Seq(1..n), nested : SUBSET (1..n)] : TRUE}
               m == [k \in D |-> k]
               stop == {0}
               prev == [k \in D |-> IF k = 0 THEN 0 ELSE k - 1]
               base == [k \in D |-> none]
               step == [q \in D \X W |-> IF q[1] = 0 THEN none ELSE TagsAfter(q[2], text, q[1])]
    <2>1. none \in W
      OBVIOUS
    <2>2. ASSUME NEW k \in D, k # 0, NEW tags \in W PROVE TagsAfter(tags, text, k) \in W
      <3>1. TagsUpTo(tags, n) /\ k \in 1..n
        BY <1>1, <2>2 DEF TagsUpTo
      <3>2. TagsUpTo(TagsAfter(tags, text, k), n)
        BY <1>1, <3>1, TagsStay
      <3> QED BY <3>2 DEF TagsUpTo
    <2>3. m \in [D -> Nat] /\ stop \in SUBSET D /\ prev \in [D -> D]
      BY <1>1
    <2>4. ASSUME NEW k \in D \ stop PROVE m[prev[k]] < m[k]
      BY <1>1
    <2> HIDE DEF W, none
    <2>5. base \in [D -> W] /\ step \in [D \X W -> W]
      <3>1. \A q \in D \X W : q[1] \in D /\ q[2] \in W
        OBVIOUS
      <3> HIDE DEF D
      <3> QED BY <2>1, <2>2, <3>1
    <2>6. Recursive(D, W, m, stop, prev, base, step)
      <3> HIDE DEF D, m, stop, prev, base, step
      <3> QED BY <2>3, <2>4, <2>5 DEF Recursive
    <2>7. PICK h \in [D -> W] :
             \A k \in D : h[k] = IF k \in stop THEN base[k] ELSE step[<<k, h[prev[k]]>>]
      <3> HIDE DEF D, m, stop, prev, base, step
      <3> QED BY <2>6, Recursion
    <2>8. ASSUME NEW k \in D PROVE h[k] = value(k, h)
      <3>1. CASE k = 0
        BY <2>7, <3>1
      <3>2. CASE k # 0
        <4>1. prev[k] = k - 1 /\ k - 1 \in D /\ k \notin stop
          BY <1>1, <3>2
        <4>2. h[k] = step[<<k, h[k - 1]>>] /\ h[k - 1] \in W
          <5> HIDE DEF step, prev, D, stop
          <5> QED BY <2>7, <4>1
        <4>3. step[<<k, h[k - 1]>>] = TagsAfter(h[k - 1], text, k)
          <5> HIDE DEF D, value
          <5> QED BY <3>2, <4>2
        <4> QED BY <3>2, <4>2, <4>3
      <3> QED BY <3>1, <3>2
    <2>9. h = [k \in D |-> value(k, h)]
      <3> HIDE DEF value, D, W
      <3> QED BY <2>7, <2>8
    <2> QED BY <2>9
  <1>4. Holds(after)
    <2> HIDE DEF Holds
    <2> QED BY <1>3
  <1>5. \A k \in D : after[k] = value(k, after)
    <2> HIDE DEF after, value
    <2> QED BY <1>4
  <1> HIDE DEF after, Holds
  <1>6. 0 \in D /\ \A k \in 1..n : k \in D /\ k - 1 \in D /\ k # 0
    BY <1>1
  <1>7. Tags(text, 0) = none
    BY <1>2, <1>5, <1>6
  <1>8. \A k \in 1..n : Tags(text, k) = TagsAfter(Tags(text, k - 1), text, k)
    <2> TAKE k \in 1..n
    <2> HIDE DEF D
    <2> QED BY <1>2, <1>5, <1>6
  <1> DEFINE S == {k \in Nat : k <= n => TagsUpTo(Tags(text, k), k)}
  <1>9. 0 \in S
    <2>1. TagsUpTo(none, 0)
      BY DEF TagsUpTo
    <2> QED BY <1>7, <2>1
  <1>10. ASSUME NEW k \in Nat, k \in S PROVE k + 1 \in S
    <2> SUFFICES ASSUME k + 1 <= n PROVE TagsUpTo(Tags(text, k + 1), k + 1)
      OBVIOUS
    <2> DEFINE tags == Tags(text, k)
    <2>1. TagsUpTo(tags, k) /\ k + 1 \in 1..n /\ (k + 1) - 1 = k
      BY <1>1, <1>10
    <2>2. Tags(text, k + 1) = TagsAfter(tags, text, k + 1)
      BY <1>8, <2>1
    <2> HIDE DEF tags
    <2>3. TagsUpTo(tags, k + 1)
      <3>1. 1..k \subseteq 1..(k + 1)
        OBVIOUS
      <3>2. tags.open \in Seq(1..(k + 1))
        <4>1. tags.open \in Seq(1..k)
          BY <2>1 DEF TagsUpTo
        <4> QED BY <3>1, <4>1
      <3> QED BY <2>1, <3>1, <3>2 DEF TagsUpTo
    <2>4. k + 1 \in Nat /\ k + 1 \in 1..(k + 1)
      OBVIOUS
    <2> QED BY <2>2, <2>3, <2>4, TagsStay
  <1>11. \A k \in 0..n : TagsUpTo(Tags(text, k), k)
    <2>1. Nat \subseteq S
      <3> HIDE DEF S
      <3> QED BY <1>9, <1>10, Induction
    <2> QED BY <1>1, <2>1
  <1> QED BY <1>7, <1>8, <1>11 DEF n

\* The same tags, d further on, behind those of the first d tokens that are nested.
TagsMoved(old, new, r, d) ==
    /\ Len(new.open) = Len(old.open)
    /\ \A x \in 1..Len(old.open) : new.open[x] = old.open[x] + d
    /\ \A x \in 1..r : x + d \in new.nested <=> x \in old.nested

LEMMA TagsAfterMoved ==
    ASSUME NEW r \in Nat, NEW d \in Nat, NEW k \in 1..r, NEW rest, NEW text,
           rest[k] = text[k + d], NEW old, NEW new,
           TagsUpTo(old, r), TagsUpTo(new, r + d), TagsMoved(old, new, r, d)
    PROVE  TagsMoved(TagsAfter(old, rest, k), TagsAfter(new, text, k + d), r, d)
  <1> DEFINE s == old.open
             t == new.open
             p == TagsAfter(old, rest, k)
             q == TagsAfter(new, text, k + d)
  <1>1. /\ s \in Seq(1..r) /\ t \in Seq(1..(r + d)) /\ k + d \in 1..(r + d)
        /\ old.nested \subseteq 1..r /\ new.nested \subseteq 1..(r + d)
    BY DEF TagsUpTo
  <1>2. /\ Len(t) = Len(s) /\ \A x \in 1..Len(s) : t[x] = s[x] + d
        /\ \A x \in 1..r : x + d \in new.nested <=> x \in old.nested
    BY DEF TagsMoved
  <1>3. (s = <<>>) = (t = <<>>)
    BY <1>1, <1>2
  <1>4. CASE rest[k] = "<answer>"
    <2>1. /\ p.open = Append(s, k)
          /\ p.nested = IF s = <<>> THEN old.nested ELSE old.nested \cup ToSet(s) \cup {k}
          /\ q.open = Append(t, k + d)
          /\ q.nested = IF t = <<>> THEN new.nested ELSE new.nested \cup ToSet(t) \cup {k + d}
      BY <1>4 DEF TagsAfter
    <2>2. Len(q.open) = Len(p.open) /\ \A x \in 1..Len(p.open) : q.open[x] = p.open[x] + d
      <3> HIDE DEF p, q, s, t
      <3> QED BY <1>1, <1>2, <2>1
    <2>3. ASSUME NEW x \in 1..r PROVE x + d \in ToSet(t) <=> x \in ToSet(s)
      <3>1. ASSUME NEW y \in 1..Len(s) PROVE s[y] \in Int /\ (t[y] = x + d <=> s[y] = x)
        <4> HIDE DEF s, t, p, q
        <4>1. s[y] \in 1..r /\ t[y] = s[y] + d
          BY <1>1, <1>2
        <4> QED BY <4>1
      <3>2. DOMAIN s = 1..Len(s) /\ DOMAIN t = 1..Len(s)
        BY <1>1, <1>2
      <3> HIDE DEF s, t
      <3> QED BY <3>1, <3>2 DEF ToSet
    <2>4. \A x \in 1..r : x + d \in q.nested <=> x \in p.nested
      <3> TAKE x \in 1..r
      <3>1. x + d = k + d <=> x = k
        OBVIOUS
      <3> HIDE DEF p, q, s, t
      <3> QED BY <1>2, <1>3, <2>1, <2>3, <3>1
    <2> QED BY <2>2, <2>4 DEF TagsMoved
  <1>5. CASE rest[k] = "</answer>" /\ s # <<>>
    <2>1. /\ p.open = Front(s) /\ p.nested = old.nested
          /\ q.open = Front(t) /\ q.nested = new.nested
      <3>1. p = [old EXCEPT !.open = Front(@)] /\ q = [new EXCEPT !.open = Front(@)]
        BY <1>3, <1>5 DEF TagsAfter
      <3>2. /\ old = [open |-> old.open, nested |-> old.nested]
            /\ new = [open |-> new.open, nested |-> new.nested]
        BY DEF TagsUpTo
      <3> HIDE DEF p, q
      <3> QED BY <3>1, <3>2
    <2>2. /\ Len(Front(s)) = Len(s) - 1 /\ Len(Front(t)) = Len(s) - 1
          /\ \A x \in 1..(Len(s) - 1) : Front(s)[x] = s[x] /\ Front(t)[x] = t[x] /\ x \in 1..Len(s)
      <3> HIDE DEF s, t
      <3>1. Len(s) \in Nat \ {0} /\ Len(t) = Len(s)
        BY <1>1, <1>2, <1>5
      <3> QED BY <1>1, <3>1 DEF Front
    <2>3. TagsMoved(p, q, r, d)
      <3>1. \A x \in 1..(Len(s) - 1) : t[x] = s[x] + d
        BY <1>2, <2>2
      <3> HIDE DEF p, q, s, t
      <3> QED BY <1>2, <2>1, <2>2, <3>1 DEF TagsMoved
    <2> QED BY <2>3
  <1>6. CASE ~ (rest[k] = "<answer>") /\ ~ (rest[k] = "</answer>" /\ s # <<>>)
    <2>1. p = old /\ q = new
      BY <1>3, <1>6 DEF TagsAfter
    <2> QED BY <2>1
  <1> QED BY <1>4, <1>5, <1>6

LEMMA NestedMoved ==
    ASSUME NEW V, NEW text, NEW d, NEW rest, Ending(V, text, d, rest),
           Tags(text, d).open = <<>>, NEW i \in 1..Len(rest)
    PROVE  i + d \in NestedTags(text) <=> i \in NestedTags(rest)
  <1> DEFINE r == Len(rest)
             S == {k \in Nat : k <= r => TagsMoved(Tags(rest, k), Tags(text, k + d), r, d)}
  <1>1. /\ d \in Nat /\ r \in Nat /\ Len(text) = r + d /\ text \in Seq(V) /\ rest \in Seq(V)
        /\ \A k \in 1..r : rest[k] = text[k + d]
    BY EndingPlaces DEF Ending, Within
  <1>2. /\ Tags(rest, 0) = [open |-> <<>>, nested |-> {}]
        /\ \A k \in 1..r : Tags(rest, k) = TagsAfter(Tags(rest, k - 1), rest, k)
        /\ \A k \in 0..r : TagsUpTo(Tags(rest, k), k)
    BY <1>1, TagsFollow
  <1>3. /\ \A k \in 1..(r + d) : Tags(text, k) = TagsAfter(Tags(text, k - 1), text, k)
        /\ \A k \in 0..(r + d) : TagsUpTo(Tags(text, k), k)
    BY <1>1, TagsFollow
  <1> HIDE DEF r
  <1>4. ASSUME NEW m \in Nat, NEW k \in 0..m, NEW tags, TagsUpTo(tags, k) PROVE TagsUpTo(tags, m)
    <2>1. 1..k \subseteq 1..m
      OBVIOUS
    <2>2. tags.open \in Seq(1..m)
      <3>1. tags.open \in Seq(1..k)
        BY <1>4 DEF TagsUpTo
      <3> QED BY <2>1, <3>1
    <2> QED BY <1>4, <2>1, <2>2 DEF TagsUpTo
  <1>5. 0 \in S
    <2>1. d \in 0..(r + d) /\ 0 + d = d
      BY <1>1
    <2>2. Tags(text, d).nested \subseteq 1..d
      BY <1>3, <2>1 DEF TagsUpTo
    <2>3. \A x \in 1..r : x + d \notin 1..d
      BY <1>1
    <2> DEFINE old == Tags(rest, 0)
               new == Tags(text, 0 + d)
    <2>4. old.open = <<>> /\ old.nested = {} /\ new.open = <<>> /\ new.nested \subseteq 1..d
      BY <1>2, <2>1, <2>2
    <2>5. Len(old.open) = 0 /\ Len(new.open) = 0
      BY <2>4
    <2> HIDE DEF old, new
    <2>6. TagsMoved(old, new, r, d)
      BY <2>3, <2>4, <2>5 DEF TagsMoved
    <2> QED BY <2>6 DEF old, new
  <1>6. ASSUME NEW k \in Nat, k \in S PROVE k + 1 \in S
    <2> SUFFICES ASSUME k + 1 <= r
                 PROVE  TagsMoved(Tags(rest, k + 1), Tags(text, (k + 1) + d), r, d)
      OBVIOUS
    <2> DEFINE old == Tags(rest, k)
               new == Tags(text, k + d)
    <2>1. TagsMoved(old, new, r, d)
      BY <1>1, <1>6
    <2>2. /\ k + 1 \in 1..r /\ (k + 1) - 1 = k /\ k \in 0..r
          /\ (k + 1) + d \in 1..(r + d) /\ ((k + 1) + d) - 1 = k + d /\ k + d \in 0..(r + d)
      BY <1>1
    <2>3. Tags(rest, k + 1) = TagsAfter(old, rest, k + 1)
      BY <1>2, <2>2
    <2>4. Tags(text, (k + 1) + d) = TagsAfter(new, text, (k + 1) + d)
      <3> DEFINE j == (k + 1) + d
      <3>1. j \in 1..(r + d) /\ j - 1 = k + d
        BY <2>2
      <3> HIDE DEF j
      <3>2. Tags(text, j) = TagsAfter(Tags(text, j - 1), text, j)
        BY <1>3, <3>1
      <3> QED BY <3>1, <3>2 DEF j
    <2>5. TagsUpTo(old, r) /\ TagsUpTo(new, r + d)
      <3>1. TagsUpTo(old, k) /\ TagsUpTo(new, k + d) /\ r + d \in Nat
        BY <1>1, <1>2, <1>3, <2>2
      <3> HIDE DEF old, new
      <3> QED BY <1>1, <1>4, <2>2, <3>1
    <2>6. rest[k + 1] = text[(k + 1) + d]
      BY <1>1, <2>2
    <2> HIDE DEF old, new
    <2> DEFINE l == k + 1
    <2>7. l \in 1..r /\ rest[l] = text[l + d]
      BY <2>2, <2>6
    <2> HIDE DEF l
    <2>8. TagsMoved(TagsAfter(old, rest, l), TagsAfter(new, text, l + d), r, d)
      BY <1>1, <2>1, <2>5, <2>7, TagsAfterMoved
    <2> QED BY <2>3, <2>4, <2>8 DEF l
  <1>7. Nat \subseteq S
    <2> HIDE DEF S
    <2> QED BY <1>5, <1>6, Induction
  <1>8. TagsMoved(Tags(rest, r), Tags(text, r + d), r, d)
    BY <1>1, <1>7
  <1>9. NestedTags(rest) = Tags(rest, r).nested /\ NestedTags(text) = Tags(text, r + d).nested
    BY <1>1 DEF NestedTags, r
  <1>10. i \in 1..r
    BY DEF r
  <1> QED BY <1>8, <1>9, <1>10 DEF TagsMoved

LEMMA TagMoved ==
    ASSUME NEW V, NEW text, NEW d, NEW rest, Ending(V, text, d, rest),
           ~ InCode(text, d + 1), Tags(text, d).open = <<>>, NEW i \in 1..Len(rest)
    PROVE  TagSurface(text, i + d) = Moved(TagSurface(rest, i), d)
  <1> DEFINE r == Len(rest)
             near == NextOf(rest, i + 1, {"</answer>"})
             far == NextOf(text, (i + d) + 1, {"</answer>"})
             another == NextOf(rest, i + 1, {"<answer>"})
             further == NextOf(text, (i + d) + 1, {"<answer>"})
             from == i + 1
             upto == near - 1
             bad == i \in NestedTags(rest) \/ near = r + 1 \/ another < near
             worse == i + d \in NestedTags(text) \/ far = (r + d) + 1 \/ further < far
  <1>1. d \in Nat /\ r \in Nat /\ rest \in Seq(V) /\ i \in 1..r /\ Len(text) = r + d
    BY EndingPlaces DEF Ending, Within
  <1>2. InCode(text, i + d) = InCode(rest, i)
    BY CodeMoved
  <1>3. near \in (i + 1)..(r + 1) /\ another \in (i + 1)..(r + 1)
    <2>1. i + 1 \in 1..(Len(rest) + 1)
      BY <1>1
    <2> QED BY <1>1, <2>1, NextIsThere
  <1>4. far = near + d /\ further = another + d
    <2>1. i + 1 \in 1..(Len(rest) + 1) /\ (i + 1) + d = (i + d) + 1
      BY <1>1
    <2>2. \A tokens : NextOf(text, (i + 1) + d, tokens) = NextOf(rest, i + 1, tokens) + d
      BY <2>1, NextMoved
    <2> QED BY <2>1, <2>2
  <1>5. /\ TagSurface(text, i + d) =
                IF InCode(text, i + d) THEN Surface(i + d, (i + d) + 1, <<>>)
                ELSE IF worse THEN Surface(i + d, (r + d) + 1, <<>>)
                ELSE Surface(i + d, far + 1, Strip(SubSeq(text, (i + d) + 1, far - 1)))
        /\ TagSurface(rest, i) =
                IF InCode(rest, i) THEN Surface(i, i + 1, <<>>)
                ELSE IF bad THEN Surface(i, r + 1, <<>>)
                ELSE Surface(i, near + 1, Strip(SubSeq(rest, from, upto)))
    BY <1>1 DEF TagSurface
  <1>6. i + d \in NestedTags(text) <=> i \in NestedTags(rest)
    BY NestedMoved
  <1> HIDE DEF near, far, another, further
  <1>7. /\ from \in Nat \ {0} /\ upto \in 0..r /\ from <= upto + 1
        /\ (i + d) + 1 = from + d /\ far - 1 = upto + d
    BY <1>1, <1>3, <1>4
  <1>8. worse <=> bad
    <2>1. far = (r + d) + 1 <=> near = r + 1
      BY <1>1, <1>3, <1>4
    <2>2. further < far <=> another < near
      BY <1>1, <1>3, <1>4
    <2> QED BY <1>6, <2>1, <2>2
  <1> HIDE DEF from, upto, bad, worse
  <1>9. SubSeq(text, (i + d) + 1, far - 1) = SubSeq(rest, from, upto)
    <2>1. SlicesMeet(text, d, rest, from, upto)
      BY <1>7, SameSlice DEF r, Ending
    <2> QED BY <1>7, <2>1 DEF SlicesMeet
  <1>10. (i + d) + 1 = (i + 1) + d /\ (r + d) + 1 = (r + 1) + d /\ far + 1 = (near + 1) + d
    <2> HIDE DEF r
    <2> QED BY <1>1, <1>3, <1>4
  <1>11. CASE InCode(rest, i)
    <2>1. /\ TagSurface(text, i + d) = Surface(i + d, (i + d) + 1, <<>>)
          /\ TagSurface(rest, i) = Surface(i, i + 1, <<>>)
      BY <1>2, <1>5, <1>11
    <2> QED BY <1>10, <2>1 DEF Moved, Surface
  <1>12. CASE ~ InCode(rest, i) /\ bad
    <2>1. /\ TagSurface(text, i + d) = Surface(i + d, (r + d) + 1, <<>>)
          /\ TagSurface(rest, i) = Surface(i, r + 1, <<>>)
      BY <1>2, <1>5, <1>8, <1>12
    <2> QED BY <1>10, <2>1 DEF Moved, Surface
  <1>13. CASE ~ InCode(rest, i) /\ ~ bad
    <2> DEFINE inner == Strip(SubSeq(rest, from, upto))
    <2>1. /\ TagSurface(text, i + d) = Surface(i + d, far + 1, inner)
          /\ TagSurface(rest, i) = Surface(i, near + 1, inner)
      BY <1>2, <1>5, <1>8, <1>9, <1>13
    <2> HIDE DEF inner
    <2> QED BY <1>10, <2>1 DEF Moved, Surface
  <1> QED BY <1>11, <1>12, <1>13

\* Two sets of surfaces of the same text cannot both be apart and differ: the
\* first surface that only one of them has opens inside one of the other.
LEMMA ApartIsUnique ==
    ASSUME NEW text, NEW i \in Nat, Len(text) \in Nat,
           NEW C, NEW D, Apart(text, i, C), Apart(text, i, D)
    PROVE  C = D
  <1> DEFINE n == Len(text)
             Odd == (C \ D) \cup (D \ C)
             starts == {c.start : c \in Odd}
  <1> SUFFICES ASSUME Odd # {} PROVE FALSE
    OBVIOUS
  <1> HIDE DEF n
  <1>1. n \in Nat
    BY DEF n
  <1>2. /\ \A c \in C \cup D : /\ c.start \in i..n /\ text[c.start] \in Opens
                               /\ c = Container(text, c.start) /\ c.end \in (c.start + 1)..(n + 1)
        /\ \A c, e \in C : c = e \/ c.end <= e.start \/ e.end <= c.start
        /\ \A c, e \in D : c = e \/ c.end <= e.start \/ e.end <= c.start
        /\ \A k \in i..n : text[k] \in Opens =>
               /\ \E c \in C : c.start <= k /\ k < c.end
               /\ \E c \in D : c.start <= k /\ k < c.end
    BY DEF Apart, n
  <1>3. PICK m \in starts : \A l \in starts : m <= l
    <2>1. \A c \in Odd : c.start \in Nat
      BY <1>1, <1>2
    <2>2. starts \in SUBSET Nat /\ \E l \in starts : TRUE
      BY <2>1
    <2> HIDE DEF starts
    <2> QED BY <2>2, LeastNumber
  <1>4. PICK c \in Odd : c.start = m
    BY <1>3
  <1>5. \A e \in Odd : m <= e.start
    <2> TAKE e \in Odd
    <2>1. e.start \in starts
      OBVIOUS
    <2> QED BY <1>3, <2>1
  <1>6. m \in i..n /\ text[m] \in Opens /\ c = Container(text, m) /\ m \in Int
    BY <1>1, <1>2, <1>4
  <1> HIDE DEF starts
  <1>7. ASSUME NEW A, NEW B, {A, B} = {C, D}, c \in A, c \notin B,
               \A e \in B : e.start <= m /\ m < e.end => e.start = m \/ e \in A
        PROVE  FALSE
    <2>1. A \in {C, D} /\ B \in {C, D}
      BY <1>7
    <2>2. PICK e \in B : e.start <= m /\ m < e.end
      BY <1>2, <1>6, <2>1
    <2>3. e \in C \cup D
      BY <2>1
    <2>4. CASE e.start = m
      BY <1>2, <1>6, <1>7, <2>3, <2>4
    <2>5. CASE e.start # m /\ e \in A
      <3>1. c = e \/ c.end <= e.start \/ e.end <= c.start
        BY <1>2, <1>7, <2>1, <2>5
      <3>2. /\ e.start \in Int /\ e.end \in Int /\ c.end \in Int /\ c.end > m /\ c.start = m
            /\ e.start < m /\ m < e.end
        <4>1. e.start \in i..n /\ e.end \in (e.start + 1)..(n + 1)
          BY <1>2, <2>3
        <4>2. c.end \in (m + 1)..(n + 1)
          BY <1>2, <1>4
        <4>3. e.start \in Int /\ c.start = m
          BY <1>1, <1>4, <4>1
        <4> QED BY <1>1, <1>6, <2>2, <2>5, <4>1, <4>2, <4>3
      <3> QED BY <1>6, <3>1, <3>2
    <2> QED BY <1>7, <2>2, <2>4, <2>5
  <1>8. \A e \in C \cup D : e.start <= m => e.start = m \/ e \in C \cap D
    <2> TAKE e \in C \cup D
    <2>1. e \in Odd => m <= e.start
      BY <1>5
    <2>2. e.start \in Int
      BY <1>1, <1>2
    <2> QED BY <1>6, <2>1, <2>2
  <1>9. CASE c \in C \ D
    BY <1>7, <1>8, <1>9
  <1>10. CASE c \in D \ C
    BY <1>7, <1>8, <1>10
  <1> QED BY <1>4, <1>9, <1>10

\* What follows the first d tokens is not in code, not within an open tag nor a
\* container of those tokens, and no negation of theirs reaches it.
StartsAfresh(text, d) ==
    /\ ~ InCode(text, d + 1)
    /\ Tags(text, d).open = <<>>
    /\ \A c \in Containers(text) : c.start <= d => c.end <= d + 1
    /\ NoNegationPast(text, d)

LEMMA ContainerMoved ==
    ASSUME NEW V, NEW text, NEW d, NEW rest, Ending(V, text, d, rest),
           StartsAfresh(text, d), NEW i \in 1..Len(rest)
    PROVE  Container(text, i + d) = Moved(Container(rest, i), d)
  <1>1. rest[i] = text[i + d]
    BY EndingPlaces
  <1>2. ~ InCode(text, d + 1) /\ Tags(text, d).open = <<>>
    BY DEF StartsAfresh
  <1>3. BoxSurface(text, i + d) = Moved(BoxSurface(rest, i), d)
    BY <1>2, BoxMoved
  <1>4. TagSurface(text, i + d) = Moved(TagSurface(rest, i), d)
    BY <1>2, TagMoved
  <1> QED BY <1>1, <1>3, <1>4 DEF Container

\* The surfaces of rest are those of text that start behind its first d tokens.
SurfacesMoved(old, new, d) ==
    /\ \A c \in old : Moved(c, d) \in new
    /\ \A e \in new : e.start > d => \E c \in old : e = Moved(c, d)

LEMMA ContainersMoved ==
    ASSUME NEW V, NEW text, NEW d, NEW rest, Ending(V, text, d, rest), StartsAfresh(text, d)
    PROVE  SurfacesMoved(Containers(rest), Containers(text), d)
  <1> DEFINE r == Len(rest)
             N == Containers(text)
             back(e) == Container(rest, e.start - d)
             late == {e \in N : e.start > d}
             C == {back(e) : e \in late}
  <1>1. /\ d \in Nat /\ r \in Nat /\ Len(text) = r + d /\ text \in Seq(V) /\ rest \in Seq(V)
        /\ DOMAIN rest = 1..r /\ \A k \in 1..r : rest[k] = text[k + d]
    BY EndingPlaces DEF Ending, Within
  <1>2. Apart(text, 1, N) /\ Apart(rest, 1, Containers(rest))
    BY <1>1, ContainersAreApart
  <1>3. /\ \A e \in N : /\ e.start \in 1..(r + d) /\ text[e.start] \in Opens
                        /\ e = Container(text, e.start)
                        /\ e.end \in (e.start + 1)..((r + d) + 1)
        /\ \A e, f \in N : e = f \/ e.end <= f.start \/ f.end <= e.start
        /\ \A k \in 1..(r + d) : text[k] \in Opens => \E e \in N : e.start <= k /\ k < e.end
    BY <1>1, <1>2 DEF Apart
  <1>4. \A e \in N : e.start <= d => e.end <= d + 1
    BY DEF StartsAfresh
  <1>5. \A k \in 1..r : Container(text, k + d) = Moved(Container(rest, k), d)
    BY ContainerMoved
  <1>6. \A k \in 1..r : Container(rest, k).start = k /\ Container(rest, k).end \in (k + 1)..(r + 1)
    BY <1>1, ContainerEnds DEF Ends
  <1> HIDE DEF r, N
  <1>7. ASSUME NEW e \in late
        PROVE  /\ e.start - d \in 1..r /\ back(e).start = e.start - d /\ back(e).end = e.end - d
               /\ e = Moved(back(e), d) /\ back(e).end \in (back(e).start + 1)..(r + 1)
               /\ rest[back(e).start] \in Opens
    <2> DEFINE k == e.start - d
    <2>1. k \in 1..r /\ k + d = e.start
      BY <1>1, <1>3
    <2> HIDE DEF k
    <2>2. Container(text, e.start) = e
      BY <1>3
    <2>3. e = Moved(Container(rest, k), d)
      BY <1>5, <2>1, <2>2
    <2>4. e.end = Container(rest, k).end + d
      BY <2>3 DEF Moved, Surface
    <2>5. Container(rest, k).start = k /\ Container(rest, k).end \in (k + 1)..(r + 1)
      BY <1>6, <2>1
    <2>6. Container(rest, k).end = e.end - d
      BY <1>1, <2>1, <2>4, <2>5
    <2>7. rest[k] \in Opens
      BY <1>1, <1>3, <2>1
    <2> QED BY <2>1, <2>3, <2>5, <2>6, <2>7 DEF k
  <1>8. Apart(rest, 1, C)
    <2>1. \A c \in C : /\ c.start \in 1..r /\ rest[c.start] \in Opens
                       /\ c = Container(rest, c.start) /\ c.end \in (c.start + 1)..(r + 1)
      <3> TAKE c \in C
      <3>1. PICK e \in late : c = back(e)
        OBVIOUS
      <3>2. c = Container(rest, c.start)
        BY <1>7, <3>1
      <3> HIDE DEF back
      <3> QED BY <1>7, <3>1, <3>2
    <2>2. \A c, b \in C : c = b \/ c.end <= b.start \/ b.end <= c.start
      <3> TAKE c, b \in C
      <3>1. PICK e \in late : c = back(e)
        OBVIOUS
      <3>2. PICK f \in late : b = back(f)
        OBVIOUS
      <3>3. e = f \/ e.end <= f.start \/ f.end <= e.start
        BY <1>3
      <3>4. /\ c.start = e.start - d /\ c.end = e.end - d
            /\ b.start = f.start - d /\ b.end = f.end - d
        <4> HIDE DEF back
        <4> QED BY <1>7, <3>1, <3>2
      <3>5. e.start \in Int /\ e.end \in Int /\ f.start \in Int /\ f.end \in Int
        <4>1. \A g \in N : g.start \in Int /\ g.end \in Int
          BY <1>1, <1>3
        <4> QED BY <4>1
      <3> HIDE DEF back, C, late
      <3> QED BY <1>1, <3>1, <3>2, <3>3, <3>4, <3>5
    <2>3. \A k \in 1..r : rest[k] \in Opens => \E c \in C : c.start <= k /\ k < c.end
      <3> SUFFICES ASSUME NEW k \in 1..r, rest[k] \in Opens
                   PROVE  \E c \in C : c.start <= k /\ k < c.end
        OBVIOUS
      <3>1. k + d \in 1..(r + d) /\ text[k + d] \in Opens
        BY <1>1
      <3>2. PICK e \in N : e.start <= k + d /\ k + d < e.end
        BY <1>3, <3>1
      <3>3. e.start \in Int /\ e.end \in Int
        BY <1>1, <1>3
      <3>4. e.start > d
        BY <1>1, <1>4, <3>2, <3>3
      <3>5. back(e) \in C /\ back(e).start = e.start - d /\ back(e).end = e.end - d
        BY <1>7, <3>4
      <3> HIDE DEF C, back
      <3>6. back(e).start <= k /\ k < back(e).end
        BY <1>1, <3>2, <3>3, <3>5
      <3> QED BY <3>5, <3>6
    <2> HIDE DEF C
    <2> QED BY <2>1, <2>2, <2>3 DEF Apart, r
  <1>9. C = Containers(rest)
    <2> HIDE DEF C
    <2> QED BY <1>1, <1>2, <1>8, ApartIsUnique DEF r
  <1>10. \A c \in C : Moved(c, d) \in N
    <2> TAKE c \in C
    <2>1. PICK e \in late : c = back(e)
      OBVIOUS
    <2>2. Moved(c, d) = e
      BY <1>7, <2>1
    <2> QED BY <2>2
  <1>11. \A e \in N : e.start > d => \E c \in C : e = Moved(c, d)
    <2> SUFFICES ASSUME NEW e \in N, e.start > d PROVE \E c \in C : e = Moved(c, d)
      OBVIOUS
    <2>1. back(e) \in C /\ e = Moved(back(e), d)
      BY <1>7
    <2> QED BY <2>1
  <1> HIDE DEF C
  <1> QED BY <1>9, <1>10, <1>11 DEF SurfacesMoved, N

LEMMA MarkersMoved ==
    ASSUME NEW V, NEW text, NEW d, NEW rest, Ending(V, text, d, rest), StartsAfresh(text, d)
    PROVE  SurfacesMoved(Markers(rest), Markers(text), d)
  <1> DEFINE r == Len(rest)
             Marks(t, k) == t[k] = "answer:" /\ (InCode(t, k) \/ ~ Negated(t, k))
  <1>1. /\ d \in Nat /\ r \in Nat /\ Len(text) = r + d /\ text \in Seq(V) /\ rest \in Seq(V)
        /\ DOMAIN rest = 1..r /\ DOMAIN text = 1..(r + d) /\ \A k \in 1..r : rest[k] = text[k + d]
    BY EndingPlaces DEF Ending, Within
  <1>2. ~ InCode(text, d + 1) /\ NoNegationPast(text, d)
    BY DEF StartsAfresh
  <1>3. \A k \in 1..r : MarkerSurface(text, k + d) = Moved(MarkerSurface(rest, k), d)
    BY <1>2, MarkerMoved
  <1>4. \A k \in 1..r : Marks(text, k + d) <=> Marks(rest, k)
    <2> TAKE k \in 1..r
    <2>1. InCode(text, k + d) = InCode(rest, k)
      BY <1>2, CodeMoved
    <2>2. Negated(text, k + d) = Negated(rest, k)
      BY <1>2, NegatedMoved
    <2> QED BY <1>1, <2>1, <2>2
  <1>5. /\ \A s : s \in Markers(rest) <=>
                     \E k \in 1..r : Marks(rest, k) /\ s = MarkerSurface(rest, k)
        /\ \A s : s \in Markers(text) <=>
                     \E k \in 1..(r + d) : Marks(text, k) /\ s = MarkerSurface(text, k)
    BY <1>1 DEF Markers
  <1>6. \A k \in 1..(r + d) : MarkerSurface(text, k).start = k
    BY <1>1, MarkerEnds DEF Ends
  <1> HIDE DEF Marks, r
  <1>7. ASSUME NEW c \in Markers(rest) PROVE Moved(c, d) \in Markers(text)
    <2>1. PICK k \in 1..r : Marks(rest, k) /\ c = MarkerSurface(rest, k)
      BY <1>5
    <2>2. k + d \in 1..(r + d)
      BY <1>1
    <2> QED BY <1>3, <1>4, <1>5, <2>1, <2>2
  <1>8. ASSUME NEW e \in Markers(text), e.start > d
        PROVE  \E c \in Markers(rest) : e = Moved(c, d)
    <2>1. PICK l \in 1..(r + d) : Marks(text, l) /\ e = MarkerSurface(text, l)
      BY <1>5
    <2> DEFINE k == l - d
    <2>2. k \in 1..r /\ k + d = l
      BY <1>1, <1>6, <1>8, <2>1
    <2> HIDE DEF k
    <2>3. MarkerSurface(rest, k) \in Markers(rest)
      BY <1>4, <1>5, <2>1, <2>2
    <2> QED BY <1>3, <2>1, <2>2, <2>3
  <1> QED BY <1>7, <1>8 DEF SurfacesMoved

LEMMA GreatestOf ==
    ASSUME NEW n \in Nat, NEW T \in SUBSET (0..n), NEW y \in T
    PROVE  Max(T) \in T /\ \A x \in T : x <= Max(T)
  <1> DEFINE gaps == {n - x : x \in T}
  <1>1. gaps \in SUBSET Nat /\ n - y \in gaps
    OBVIOUS
  <1> HIDE DEF gaps
  <1>2. PICK g \in gaps : \A h \in gaps : g <= h
    BY <1>1, LeastNumber
  <1>3. PICK m \in T : g = n - m
    BY <1>2 DEF gaps
  <1>4. \A x \in T : m >= x
    <2> TAKE x \in T
    <2>1. n - m <= n - x
      BY <1>2, <1>3 DEF gaps
    <2>2. m \in Int /\ x \in Int
      OBVIOUS
    <2> QED BY <2>1, <2>2
  <1>5. Max(T) \in T /\ \A x \in T : Max(T) >= x
    BY <1>3, <1>4 DEF Max
  <1>6. \A x \in T : x \in Int
    OBVIOUS
  <1> QED BY <1>5, <1>6

LEMMA StripLeaves ==
    ASSUME NEW V, NEW text \in Seq(V), NEW i \in DOMAIN text, text[i] # "\n"
    PROVE  Strip(text) # <<>>
  <1> DEFINE n == Len(text)
             kept == {k \in DOMAIN text : text[k] # "\n"}
             low == Min(kept)
             high == Max(kept)
             slice == SubSeq(text, low, high)
  <1>1. n \in Nat /\ DOMAIN text = 1..n /\ \A k \in 1..n : text[k] \in V
    OBVIOUS
  <1>2. Strip(text) = slice
    BY DEF Strip
  <1>3. kept \in SUBSET (1..n) /\ i \in kept
    BY <1>1
  <1> HIDE DEF n, kept
  <1>4. low \in 1..n /\ high \in 1..n /\ low <= high
    <2>1. kept \in SUBSET Nat /\ kept \in SUBSET (0..n)
      BY <1>1, <1>3
    <2>2. low \in kept /\ \A x \in kept : low <= x
      BY <1>3, <2>1, LeastOf
    <2>3. high \in kept
      BY <1>1, <1>3, <2>1, GreatestOf
    <2> HIDE DEF low, high
    <2> QED BY <1>3, <2>2, <2>3
  <1> HIDE DEF low, high
  <1>5. Len(slice) = (high - low) + 1
    <2>1. \A k \in low..high : text[k] \in V
      BY <1>1, <1>4
    <2>2. low \in Int /\ high \in Int
      BY <1>4
    <2>3. Len(slice) = IF low <= high THEN (high - low) + 1 ELSE 0
      BY <2>1, <2>2, SubSeqProperties
    <2> QED BY <1>4, <2>3
  <1>6. Len(slice) # 0
    <2> DEFINE l == Len(slice)
    <2>1. l = (high - low) + 1
      BY <1>5
    <2> HIDE DEF l
    <2>2. l # 0
      BY <1>4, <2>1
    <2> QED BY <2>2 DEF l
  <1>7. slice # <<>>
    <2>1. Len(<<>>) = 0
      OBVIOUS
    <2> HIDE DEF slice
    <2> QED BY <1>6, <2>1
  <1> QED BY <1>2, <1>7

\* The terminal surface is the same, d further on.
LEMMA TerminalMoved ==
    ASSUME NEW V, NEW text, NEW d, NEW rest, Ending(V, text, d, rest), StartsAfresh(text, d),
           NEW k \in 1..Len(rest), MakesClaim(text, k + d)
    PROVE  \E t \in Terminal(Containers(rest), Markers(rest)) :
               Moved(t, d) \in Terminal(Containers(text), Markers(text))
  <1> DEFINE r == Len(rest)
             C == Containers(rest)
             K == Markers(rest)
             N == Containers(text)
             M == Markers(text)
             free(s, containers) == \A c \in containers : s.start \notin c.start..(c.end - 1)
             old == C \cup {s \in K : free(s, C)}
             new == N \cup {s \in M : free(s, N)}
             places(containers, markers, n) ==
                 \A s \in containers \cup markers :
                     s.start \in 1..n /\ s.end \in (s.start + 1)..(n + 1)
  <1>1. /\ d \in Nat /\ r \in Nat /\ Len(text) = r + d /\ text \in Seq(V) /\ rest \in Seq(V)
        /\ DOMAIN text = 1..(r + d) /\ DOMAIN rest = 1..r
    BY EndingPlaces DEF Ending, Within
  <1>2. /\ \A c \in C : Moved(c, d) \in N
        /\ \A e \in N : e.start > d => \E c \in C : e = Moved(c, d)
    BY ContainersMoved DEF SurfacesMoved
  <1>3. /\ \A s \in K : Moved(s, d) \in M
        /\ \A e \in M : e.start > d => \E s \in K : e = Moved(s, d)
    BY MarkersMoved DEF SurfacesMoved
  <1>4. \A t \in Seq(V) : \A s \in Markers(t) :
            s.start \in 1..Len(t) /\ s.end \in (s.start + 1)..(Len(t) + 1)
    <2> TAKE t \in Seq(V)
    <2> TAKE s \in Markers(t)
    <2>1. PICK i \in DOMAIN t : s = MarkerSurface(t, i)
      BY DEF Markers
    <2> QED BY <2>1, MarkerEnds DEF Ends
  <1>5. \A t \in Seq(V) : \A s \in Containers(t) :
            s.start \in 1..Len(t) /\ s.end \in (s.start + 1)..(Len(t) + 1)
    BY ContainersAreApart DEF Apart
  <1>6. places(C, K, r) /\ places(N, M, r + d)
    BY <1>1, <1>4, <1>5
  <1>7. \A e \in N : e.start <= d => e.end <= d + 1
    BY DEF StartsAfresh
  <1>8. \E s \in new : s.start > d
    <2>1. k + d \in 1..(r + d) /\ k + d > d
      BY <1>1
    <2> DEFINE p == k + d
    <2>2. p \in DOMAIN text /\ p > d /\ p \in Int
      BY <1>1, <2>1
    <2>3. MakesClaim(text, p)
      OBVIOUS
    <2> HIDE DEF p
    <2>4. ASSUME NEW c \in N, c.start <= p, p < c.end PROVE c \in new /\ c.start > d
      <3>1. c.start \in 1..(r + d) /\ c.end \in (c.start + 1)..((r + d) + 1)
        BY <1>6
      <3>2. c.start \in Int /\ c.end \in Int
        BY <1>1, <3>1
      <3>3. c.start > d
        BY <1>1, <1>7, <2>2, <2>4, <3>2
      <3> QED BY <3>3
    <2>5. CASE text[p] \in Opens
      <3>1. p \in 1..Len(text)
        BY <1>1, <2>2
      <3>2. \E c \in N : c.start <= p /\ p < c.end
        BY <1>1, <2>5, <3>1, ContainersAreApart DEF Apart
      <3> QED BY <2>4, <3>2
    <2>6. CASE text[p] \notin Opens
      <3>1. MarkerSurface(text, p) \in M
        BY <2>2, <2>3, <2>6 DEF MakesClaim, Markers
      <3>2. MarkerSurface(text, p).start = p
        BY <1>1, <2>2, MarkerEnds DEF Ends
      <3>3. CASE free(MarkerSurface(text, p), N)
        <4>1. MarkerSurface(text, p) \in new
          BY <3>1, <3>3
        <4> QED BY <2>2, <3>2, <4>1
      <3>4. CASE ~ free(MarkerSurface(text, p), N)
        <4>1. PICK c \in N : p \in c.start..(c.end - 1)
          BY <3>2, <3>4
        <4>2. c.start \in Int /\ c.end \in Int
          <5>1. c.start \in 1..(r + d) /\ c.end \in (c.start + 1)..((r + d) + 1)
            BY <1>6
          <5> QED BY <1>1, <5>1
        <4>3. c.start <= p /\ p < c.end
          BY <2>2, <4>1, <4>2
        <4> QED BY <2>4, <4>3
      <3> QED BY <3>3, <3>4
    <2> QED BY <2>5, <2>6
  <1> HIDE DEF r, C, K, N, M
  <1>9. ASSUME NEW s \in C \cup K
        PROVE  Moved(s, d).start = s.start + d /\ Moved(s, d).end = s.end + d
    BY DEF Moved, Surface
  <1>10. ASSUME NEW s \in K PROVE free(s, C) <=> free(Moved(s, d), N)
    <2> DEFINE e == Moved(s, d)
    <2>1. e.start = s.start + d /\ s.start \in 1..r
      BY <1>6, <1>9
    <2> HIDE DEF e
    <2>2. ASSUME NEW c \in C, s.start \in c.start..(c.end - 1) PROVE ~ free(e, N)
      <3>1. Moved(c, d) \in N /\ Moved(c, d).start = c.start + d /\ Moved(c, d).end = c.end + d
        BY <1>2, <1>9
      <3>2. c.start \in 1..r /\ c.end \in (c.start + 1)..(r + 1)
        BY <1>6
      <3>3. e.start \in Moved(c, d).start..(Moved(c, d).end - 1)
        BY <1>1, <2>1, <2>2, <3>1, <3>2
      <3> QED BY <3>1, <3>3
    <2>3. ASSUME NEW c \in N, e.start \in c.start..(c.end - 1) PROVE ~ free(s, C)
      <3>1. c.start \in 1..(r + d) /\ c.end \in (c.start + 1)..((r + d) + 1)
        BY <1>6
      <3>2. c.start \in Int /\ c.end \in Int /\ e.start \in Int /\ e.start > d
        BY <1>1, <2>1, <3>1
      <3>3. c.start <= e.start /\ e.start < c.end
        BY <2>3, <3>2
      <3>4. c.start > d
        <4>1. c.start <= d => c.end <= d + 1
          BY <1>7
        <4> QED BY <1>1, <3>2, <3>3, <4>1
      <3>5. PICK b \in C : c = Moved(b, d)
        BY <1>2, <3>4
      <3>6. c.start = b.start + d /\ c.end = b.end + d /\ b.start \in 1..r
            /\ b.end \in (b.start + 1)..(r + 1)
        BY <1>6, <1>9, <3>5
      <3>7. s.start \in b.start..(b.end - 1)
        <4>1. b.start \in Int /\ b.end \in Int /\ s.start \in Int
          BY <1>1, <2>1, <3>6
        <4>2. b.start <= s.start /\ s.start < b.end
          BY <1>1, <2>1, <3>6, <3>3, <4>1
        <4> QED BY <4>1, <4>2
      <3> QED BY <3>7
    <2> QED BY <2>2, <2>3 DEF e
  <1>11. ASSUME NEW s \in old PROVE Moved(s, d) \in new
    BY <1>2, <1>3, <1>10
  <1>12. ASSUME NEW e \in new, e.start > d PROVE \E s \in old : e = Moved(s, d)
    <2>1. CASE e \in N
      BY <1>2, <1>12, <2>1
    <2>2. CASE e \in M /\ free(e, N)
      <3>1. PICK s \in K : e = Moved(s, d)
        BY <1>3, <1>12, <2>2
      <3> QED BY <1>10, <2>2, <3>1
    <2> QED BY <2>1, <2>2
  <1>13. /\ Terminal(N, M) = {s \in new : \A f \in new : f.start <= s.start}
         /\ Terminal(C, K) = {s \in old : \A f \in old : f.start <= s.start}
    BY DEF Terminal
  <1>14. \A s \in new : s.start \in Nat
    <2> TAKE s \in new
    <2>1. s.start \in 1..(r + d)
      BY <1>6
    <2> QED BY <1>1, <2>1
  <1>15. \A s \in old : s.start \in Int /\ Moved(s, d).start = s.start + d
    <2> TAKE s \in old
    <2>1. s.start \in 1..r /\ s \in C \cup K
      BY <1>6
    <2> QED BY <1>1, <1>9, <2>1
  <1>16. Terminal(N, M) # {}
    <2>1. k + d \in DOMAIN text
      <3>1. k \in 1..r
        BY DEF r
      <3> QED BY <1>1, <3>1
    <2> QED BY <1>1, <2>1, TerminalIsThere DEF N, M
  <1> HIDE DEF old, new
  <1>17. PICK t \in new : \A f \in new : f.start <= t.start
    BY <1>13, <1>16
  <1>18. t.start > d
    <2>1. PICK f \in new : f.start > d
      BY <1>8
    <2>2. f.start <= t.start /\ f.start \in Nat /\ t.start \in Nat
      BY <1>14, <1>17
    <2> QED BY <1>1, <2>1, <2>2
  <1>19. PICK s \in old : t = Moved(s, d)
    BY <1>12, <1>18
  <1>20. ASSUME NEW f \in old PROVE f.start <= s.start
    <2>1. f.start + d <= s.start + d
      BY <1>11, <1>15, <1>17, <1>19
    <2> QED BY <1>1, <1>15, <2>1
  <1>21. s \in Terminal(C, K) /\ t \in Terminal(N, M)
    BY <1>13, <1>17, <1>19, <1>20
  <1> QED BY <1>19, <1>21 DEF C, K, N, M

LEMMA PredictionMoved ==
    ASSUME NEW V, NEW text, NEW d, NEW rest, Ending(V, text, d, rest), StartsAfresh(text, d),
           Bounded(text) = "extracted", NEW k \in 1..Len(rest), MakesClaim(text, k + d)
    PROVE  ExtractPrediction(text) = ExtractPrediction(rest)
  <1> DEFINE here == Terminal(Containers(text), Markers(text))
             there == Terminal(Containers(rest), Markers(rest))
  <1>1. /\ text \in Seq(V) /\ rest \in Seq(V) /\ k \in DOMAIN rest
        /\ rest[k] = text[k + d] /\ d \in Nat /\ Len(rest) \in Nat /\ Len(text) = Len(rest) + d
    BY EndingPlaces DEF Ending, Within
  <1>2. Bounded(rest) = "extracted"
    <2>1. rest[k] # "\n"
      BY <1>1 DEF MakesClaim, Opens
    <2>2. Strip(rest) # <<>>
      BY <1>1, <2>1, StripLeaves
    <2>3. Limits.input \in Nat
      BY LimitsAssumption DEF PolicyHolds
    <2>4. ~ (Len(text) > Limits.input)
      BY DEF Bounded
    <2> DEFINE m == Len(rest)
               n == Len(text)
               l == Limits.input
    <2>5. m \in Nat /\ n = m + d /\ ~ (n > l) /\ l \in Nat
      BY <1>1, <2>3, <2>4
    <2> HIDE DEF m, n, l
    <2>6. ~ (m > l)
      BY <1>1, <2>5
    <2> QED BY <2>2, <2>6 DEF Bounded, m, l
  <1>3. PICK t \in there : Moved(t, d) \in here
    BY TerminalMoved
  <1>4. here = {Moved(t, d)} /\ there = {t}
    BY <1>1, <1>3, TerminalDecides
  <1>5. Moved(t, d).candidate = t.candidate
    BY DEF Moved, Surface
  <1>6. /\ ExtractPrediction(text) = Selected(text, here)
        /\ ExtractPrediction(rest) = Selected(rest, there)
    BY <1>2 DEF ExtractPrediction
  <1> HIDE DEF here, there
  <1>7. \A s : (CHOOSE e \in {s} : TRUE) = s /\ {s} # {}
    OBVIOUS
  <1>8. /\ Selected(text, here) = Enclosed(Moved(t, d).candidate)
        /\ Selected(rest, there) = Enclosed(t.candidate)
    BY <1>4, <1>7 DEF Selected
  <1> QED BY <1>5, <1>6, <1>8

\* What a response says before a place that starts afresh makes no difference if
\* an answer is claimed after it: what is extracted and how it is judged is what
\* it would be had the response begun there.
THEOREM EarlierTextIsIrrelevant ==
    ASSUME NEW V, NEW text \in Seq(V), NEW d \in 0..(Len(text) - 1), StartsAfresh(text, d),
           Bounded(text) = "extracted", \E k \in (d + 1)..Len(text) : MakesClaim(text, k)
    PROVE  LET rest == SubSeq(text, d + 1, Len(text)) IN
           /\ ExtractPrediction(text) = ExtractPrediction(rest)
           /\ \A reference : Verify(reference, text) = Verify(reference, rest)
  <1> DEFINE n == Len(text)
             first == d + 1
             rest == SubSeq(text, first, n)
  <1>1. n \in Nat /\ d \in Nat /\ d < n /\ DOMAIN text = 1..n
    OBVIOUS
  <1> HIDE DEF n
  <1>2. rest \in Seq(V) /\ Len(rest) = n - d /\ \A i \in 1..(n - d) : rest[i] = text[i + d]
    <2>1. \A i \in first..n : text[i] \in V
      BY <1>1 DEF n
    <2>2. first \in Int /\ n \in Int /\ first <= n /\ (n - first) + 1 = n - d
      BY <1>1
    <2>3. \A i \in 1..((n - first) + 1) : (first + i) - 1 = i + d
      BY <1>1
    <2> HIDE DEF first
    <2>4. /\ rest \in Seq(V) /\ Len(rest) = (IF first <= n THEN (n - first) + 1 ELSE 0)
          /\ \A i \in 1..((n - first) + 1) : rest[i] = text[(first + i) - 1]
      BY <2>1, <2>2, SubSeqProperties
    <2> HIDE DEF rest
    <2> QED BY <2>2, <2>3, <2>4
  <1> HIDE DEF rest
  <1>3. Ending(V, text, d, rest)
    <2>1. DOMAIN rest = 1..(n - d)
      BY <1>2
    <2>2. n = (n - d) + d
      BY <1>1
    <2> QED BY <1>1, <1>2, <2>1, <2>2 DEF Ending, Within, n
  <1>4. PICK k \in first..n : MakesClaim(text, k)
    BY DEF n
  <1>5. k - d \in 1..Len(rest) /\ (k - d) + d = k
    BY <1>1, <1>2
  <1>6. ExtractPrediction(text) = ExtractPrediction(rest)
    <2> DEFINE j == k - d
    <2>1. j \in 1..Len(rest) /\ MakesClaim(text, j + d)
      BY <1>4, <1>5
    <2> HIDE DEF j
    <2> QED BY <1>3, <2>1, PredictionMoved
  <1>7. \A reference : Verify(reference, text) = Verify(reference, rest)
    BY <1>6 DEF Verify, VerifyParsed, ParsePrediction
  <1> QED BY <1>6, <1>7 DEF rest, n

\* The verifier fails closed: whatever the reference, a response is no match if
\* nothing can be extracted from it, which is so if it is empty or too long, or
\* if its last claim encloses nothing or too much, whatever it claims before.
THEOREM MalformedAnswersFail ==
    ASSUME NEW V, NEW text \in Seq(V), NEW reference,
           \/ Bounded(text) # "extracted"
           \/ \E t \in Terminal(Containers(text), Markers(text)) :
                 t.candidate = <<>> \/ Len(t.candidate) > Limits.candidate
    PROVE  Verify(reference, text) # "match"
  <1> DEFINE last == Terminal(Containers(text), Markers(text))
             found == ExtractPrediction(text)
  <1>1. found.status # "extracted"
    <2>1. CASE Bounded(text) # "extracted"
      BY <2>1 DEF ExtractPrediction, Extraction
    <2>2. CASE Bounded(text) = "extracted"
      <3>1. PICK t \in last : t.candidate = <<>> \/ Len(t.candidate) > Limits.candidate
        BY <2>2
      <3>2. last = {t}
        BY TerminalDecides
      <3>3. found = Selected(text, last)
        BY <2>2 DEF ExtractPrediction
      <3> HIDE DEF last, found
      <3>4. (CHOOSE s \in last : TRUE) = t /\ last # {}
        BY <3>2
      <3>5. found = Enclosed(t.candidate)
        BY <3>3, <3>4 DEF Selected
      <3>6. CASE t.candidate = <<>>
        <4>1. Limits.candidate \in Nat
          BY LimitsAssumption DEF PolicyHolds
        <4>2. ~ (Len(t.candidate) > Limits.candidate)
          BY <3>6, <4>1
        <4> QED BY <3>5, <3>6, <4>2 DEF Enclosed, Extraction
      <3>7. CASE t.candidate # <<>>
        BY <3>1, <3>5, <3>7 DEF Enclosed, Extraction
      <3> QED BY <3>6, <3>7
    <2> QED BY <2>1, <2>2
  <1>2. ParsePrediction(text) = NoValue("not_extracted")
    BY <1>1 DEF ParsePrediction, ParseExtraction
  <1> DEFINE gold == ParseReference(reference)
  <1>3. Decided(gold, ParsePrediction(text)) = "prediction_not_extracted"
    BY <1>2 DEF Decided, NoValue
  <1>4. Verify(reference, text) \in
            {"prediction_not_extracted", "backend_error", "reference_invalid"}
    <2>1. Verify(reference, text) =
            CASE gold.status = "parsed" -> Decided(gold, ParsePrediction(text))
              [] gold.status \in {"timeout", "backend_error"} -> "backend_error"
              [] OTHER -> "reference_invalid"
      BY DEF Verify, VerifyParsed
    <2> HIDE DEF gold
    <2>2. CASE gold.status = "parsed"
      BY <1>3, <2>1, <2>2
    <2>3. CASE gold.status \in {"timeout", "backend_error"}
      BY <2>1, <2>3
    <2>4. CASE gold.status \notin {"parsed", "timeout", "backend_error"}
      BY <2>1, <2>4
    <2> QED BY <2>2, <2>3, <2>4
  <1> QED BY <1>4

-----------------------------------------------------------------------------

\* A text, and its first n tokens, which are not all of it.
Beginning(V, text, n, before) ==
    Within(V, text, 0, before) /\ n = Len(before) /\ n < Len(text)

LEMMA BeginningPlaces ==
    ASSUME NEW V, NEW text, NEW n, NEW before, Beginning(V, text, n, before)
    PROVE  /\ text \in Seq(V) /\ before \in Seq(V) /\ n \in Nat /\ Len(before) = n
           /\ Len(text) \in Nat /\ n < Len(text)
           /\ DOMAIN before = 1..n /\ DOMAIN text = 1..Len(text)
           /\ \A i \in 1..n : before[i] = text[i]
  <1>1. /\ text \in Seq(V) /\ before \in Seq(V) /\ n \in Nat /\ Len(before) = n
        /\ Len(text) \in Nat /\ n < Len(text)
        /\ DOMAIN before = 1..n /\ DOMAIN text = 1..Len(text)
    BY DEF Beginning, Within
  <1>2. \A i \in 1..n : before[i] = text[i + 0]
    BY <1>1 DEF Beginning, Within
  <1>3. \A i \in 1..n : i + 0 = i
    BY <1>1
  <1> QED BY <1>1, <1>2, <1>3

LEMMA SliceBefore ==
    ASSUME NEW V, NEW text, NEW n, NEW before, Beginning(V, text, n, before),
           NEW i \in Nat \ {0}, NEW j \in 0..n, i <= j + 1
    PROVE  SlicesMeet(text, 0, before, i, j)
  <1>1. Within(V, text, 0, before) /\ j \in 0..Len(before)
    BY DEF Beginning
  <1> QED BY <1>1, SameSlice

\* Whether a place is in code, and what is counted, depends on what is before it.
LEMMA TimesBefore ==
    ASSUME NEW V, NEW text, NEW n, NEW before, Beginning(V, text, n, before),
           NEW i \in Nat \ {0}, NEW j \in 0..n, NEW token
    PROVE  Times(text, i, j, token) = Times(before, i, j, token)
  <1>1. n \in Nat /\ \A k \in 1..n : before[k] = text[k]
    BY BeginningPlaces
  <1>2. \A k \in i..j : k \in 1..n
    BY <1>1
  <1>3. {k \in i..j : text[k] = token} = {k \in i..j : before[k] = token}
    BY <1>1, <1>2
  <1> QED BY <1>3 DEF Times

LEMMA CodeBefore ==
    ASSUME NEW V, NEW text, NEW n, NEW before, Beginning(V, text, n, before), NEW i \in 1..n
    PROVE  InCode(text, i) = InCode(before, i)
  <1>1. n \in Nat /\ \A k \in 1..n : before[k] = text[k]
    BY BeginningPlaces
  <1>2. \A k \in 1..n : Fenced(text, k) = Fenced(before, k)
    <2> TAKE k \in 1..n
    <2>1. 1 \in Nat \ {0} /\ k - 1 \in 0..n
      BY <1>1
    <2>2. Times(text, 1, k - 1, "fence") = Times(before, 1, k - 1, "fence")
      BY <2>1, TimesBefore
    <2> QED BY <2>2 DEF Fenced
  <1>3. \A k \in 1..(i - 1) : k \in 1..n
    BY <1>1
  <1>4. {k \in 1..(i - 1) : text[k] = "code" /\ ~ Fenced(text, k)}
            = {k \in 1..(i - 1) : before[k] = "code" /\ ~ Fenced(before, k)}
    BY <1>1, <1>2, <1>3
  <1> QED BY <1>2, <1>4 DEF InCode

\* What is found before the end of the beginning is what is found in the text;
\* what is not is found later, if at all.
LEMMA NextBefore ==
    ASSUME NEW V, NEW text, NEW n, NEW before, Beginning(V, text, n, before),
           NEW i \in 1..(n + 1), NEW tokens
    PROVE  /\ NextOf(before, i, tokens) \in i..(n + 1)
           /\ NextOf(text, i, tokens) \in i..(Len(text) + 1)
           /\ NextOf(before, i, tokens) <= n => NextOf(text, i, tokens) = NextOf(before, i, tokens)
           /\ NextOf(before, i, tokens) = n + 1 => NextOf(text, i, tokens) >= n + 1
           /\ text[n + 1] \in tokens => NextOf(text, i, tokens) = NextOf(before, i, tokens)
  <1> DEFINE m == Len(text)
             A == {k \in i..(n + 1) : k = n + 1 \/ before[k] \in tokens}
             B == {k \in i..(m + 1) : k = m + 1 \/ text[k] \in tokens}
             p == Min(A)
             q == Min(B)
  <1>1. n \in Nat /\ m \in Nat /\ n < m /\ Len(before) = n /\ \A k \in 1..n : before[k] = text[k]
    BY BeginningPlaces
  <1>2. NextOf(before, i, tokens) = p /\ NextOf(text, i, tokens) = q
    <2>1. NextOf(text, i, tokens) = q
      BY DEF NextOf
    <2>2. NextOf(before, i, tokens) = p
      BY <1>1 DEF NextOf
    <2> QED BY <2>1, <2>2
  <1> HIDE DEF m
  <1>3. A \in SUBSET Nat /\ B \in SUBSET Nat /\ n + 1 \in A /\ m + 1 \in B
    BY <1>1
  <1>4. p \in A /\ (\A x \in A : p <= x) /\ q \in B /\ (\A x \in B : q <= x)
    <2> HIDE DEF A, B
    <2> QED BY <1>3, LeastOf
  <1> HIDE DEF p, q
  <1>5. ASSUME NEW k \in A, k <= n PROVE k \in B
    BY <1>1, <1>5
  <1>6. ASSUME NEW k \in B, k <= n PROVE k \in A
    BY <1>1, <1>6
  <1>7. text[n + 1] \in tokens => n + 1 \in B
    BY <1>1
  <1>8. p \in i..(n + 1) /\ q \in i..(m + 1) /\ p \in Int /\ q \in Int
    <2>1. p \in i..(n + 1) /\ q \in i..(m + 1)
      BY <1>4
    <2> QED BY <1>1, <2>1
  <1> HIDE DEF A, B
  <1>9. p <= n => q = p
    <2> SUFFICES ASSUME p <= n PROVE q = p
      OBVIOUS
    <2>1. q <= p
      BY <1>4, <1>5
    <2>2. q \in A
      BY <1>1, <1>4, <1>6, <1>8, <2>1
    <2>3. p <= q
      BY <1>4, <2>2
    <2> QED BY <1>8, <2>1, <2>3
  <1>10. p = n + 1 => q >= n + 1
    <2> SUFFICES ASSUME p = n + 1, ~ (q >= n + 1) PROVE FALSE
      OBVIOUS
    <2>1. q <= n
      BY <1>1, <1>8
    <2>2. p <= q
      BY <1>4, <1>6, <2>1
    <2> QED BY <1>1, <1>8, <2>1, <2>2
  <1>11. text[n + 1] \in tokens => q = p
    <2> SUFFICES ASSUME text[n + 1] \in tokens PROVE q = p
      OBVIOUS
    <2>1. q <= n + 1
      BY <1>4, <1>7
    <2>2. CASE p <= n
      BY <1>9, <2>2
    <2>3. CASE ~ (p <= n)
      <3>1. p = n + 1
        BY <1>1, <1>8, <2>3
      <3> QED BY <1>1, <1>8, <1>10, <2>1, <3>1
    <2> QED BY <2>2, <2>3
  <1> QED BY <1>2, <1>8, <1>9, <1>10, <1>11 DEF m

LEMMA NegatedBefore ==
    ASSUME NEW V, NEW text, NEW n, NEW before, Beginning(V, text, n, before), NEW i \in 1..n
    PROVE  Negated(text, i) = Negated(before, i)
  <1> DEFINE tokens == Breaks \cup {"."}
  <1>1. n \in Nat /\ Len(text) \in Nat /\ \A k \in 1..n : before[k] = text[k]
    BY BeginningPlaces
  <1>2. ASSUME NEW k \in 1..(i - 1)
        PROVE  NextOf(text, k, tokens) > i <=> NextOf(before, k, tokens) > i
    <2> DEFINE p == NextOf(before, k, tokens)
               q == NextOf(text, k, tokens)
    <2>1. k \in 1..(n + 1)
      BY <1>1
    <2>2. /\ p \in k..(n + 1) /\ q \in k..(Len(text) + 1)
          /\ p <= n => q = p
          /\ p = n + 1 => q >= n + 1
      <3> HIDE DEF tokens
      <3> QED BY <2>1, NextBefore
    <2> HIDE DEF p, q
    <2>3. p \in Int /\ q \in Int /\ (p <= n \/ p = n + 1)
      BY <1>1, <2>1, <2>2
    <2>4. q > i <=> p > i
      BY <1>1, <2>2, <2>3
    <2> QED BY <2>4 DEF p, q
  <1>3. \A k \in 1..(i - 1) : text[k] = before[k]
    BY <1>1
  <1> QED BY <1>2, <1>3 DEF Negated

LEMMA PastBreaksBefore ==
    ASSUME NEW V, NEW text, NEW n, NEW before, Beginning(V, text, n, before),
           NEW i \in 1..(n + 1)
    PROVE  /\ PastBreaks(before, i) \in i..(n + 1)
           /\ PastBreaks(before, i) <= n => PastBreaks(text, i) = PastBreaks(before, i)
           /\ (\E j \in i..n : before[j] # "\n") => PastBreaks(before, i) <= n
  <1> DEFINE T == V \ {"\n"}
             A == {k \in i..(n + 1) : k = n + 1 \/ before[k] # "\n"}
  <1>1. /\ n \in Nat /\ Len(before) = n /\ before \in Seq(V) /\ text \in Seq(V)
        /\ Len(text) \in Nat /\ n < Len(text)
    BY BeginningPlaces
  <1>2. PastBreaks(before, i) = NextOf(before, i, T) /\ PastBreaks(text, i) = NextOf(text, i, T)
    <2>1. i \in 1..(Len(before) + 1) /\ i \in 1..(Len(text) + 1)
      BY <1>1
    <2> QED BY <1>1, <2>1, PastBreaksIsNext
  <1>3. /\ NextOf(before, i, T) \in i..(n + 1)
        /\ NextOf(before, i, T) <= n => NextOf(text, i, T) = NextOf(before, i, T)
    <2> HIDE DEF T
    <2> QED BY NextBefore
  <1>4. ASSUME NEW j \in i..n, before[j] # "\n" PROVE PastBreaks(before, i) <= n
    <2>1. A \in SUBSET Nat /\ j \in A
      BY <1>1, <1>4
    <2>2. PastBreaks(before, i) = Min(A)
      BY <1>1 DEF PastBreaks
    <2> DEFINE p == Min(A)
    <2>3. p \in A /\ p <= j
      <3> HIDE DEF A
      <3> QED BY <2>1, LeastOf
    <2> HIDE DEF p
    <2>4. p <= n
      BY <1>1, <2>1, <2>3
    <2> QED BY <2>2, <2>4 DEF p
  <1> QED BY <1>2, <1>3, <1>4

LEMMA NothingToClean == Clean(<<>>) = <<>>
  <1> DEFINE kept == {k \in DOMAIN <<>> : <<>>[k] # "\n"}
  <1>1. kept = {}
    OBVIOUS
  <1>2. Strip(<<>>) = <<>>
    BY <1>1 DEF Strip
  <1>3. ~ IsSuffix(<<".">>, <<>>)
    BY DEF IsSuffix, IsPrefix, Reverse
  <1> QED BY <1>2, <1>3 DEF Clean

\* A marker that has a value has it whatever follows the end of its line.
LEMMA MarkerBefore ==
    ASSUME NEW V, NEW text, NEW n, NEW before, Beginning(V, text, n, before), NEW i \in 1..n,
           text[n + 1] \in Breaks, MarkerSurface(before, i).candidate # <<>>
    PROVE  MarkerSurface(text, i) = MarkerSurface(before, i)
  <1> DEFINE from == PastBreaks(before, i + 1)
             line == LineEnd(before, from)
             upto == line - 1
             found == Clean(SubSeq(before, from, upto))
  <1>1. /\ n \in Nat /\ i + 1 \in 1..(n + 1) /\ Len(before) = n /\ before \in Seq(V)
        /\ Len(text) \in Nat /\ n < Len(text) /\ \A k \in 1..n : before[k] = text[k]
    BY BeginningPlaces
  <1>2. InCode(text, i) = InCode(before, i)
    BY CodeBefore
  <1>3. MarkerSurface(before, i) = IF InCode(before, i) THEN Surface(i, from, <<>>)
                                   ELSE Surface(i, line, found)
    BY DEF MarkerSurface
  <1>4. from \in (i + 1)..(n + 1) /\ (from <= n => PastBreaks(text, i + 1) = from)
    BY <1>1, PastBreaksBefore
  <1> HIDE DEF from
  <1>5. ~ InCode(before, i) /\ found # <<>>
    <2> HIDE DEF found
    <2> QED BY <1>3 DEF Surface
  <1>6. from <= n
    <2> SUFFICES ASSUME ~ (from <= n) PROVE FALSE
      OBVIOUS
    <2>1. from = n + 1
      BY <1>1, <1>4
    <2>2. line \in (n + 1)..(n + 1)
      <3>1. from \in 1..(n + 1)
        BY <1>1, <2>1
      <3> QED BY <1>1, <2>1, <3>1, LineIsThere
    <2> HIDE DEF line
    <2>3. from \in Int /\ upto \in Int /\ upto < from
      BY <1>1, <2>1, <2>2
    <2>4. SubSeq(before, from, upto) = <<>>
      BY <2>3, SubSeqEmpty
    <2> QED BY <1>5, <2>4, NothingToClean
  <1>7. from \in 1..n
    BY <1>1, <1>4, <1>6
  <1>8. line \in from..(n + 1) /\ LineEnd(text, from) = line
    <2>1. from \in 1..(n + 1) /\ from <= Len(text) /\ text[from] = before[from]
      BY <1>1, <1>7
    <2>2. NextOf(text, from, Breaks) = NextOf(before, from, Breaks)
      BY <2>1, NextBefore
    <2>3. line \in from..(n + 1)
      BY <1>1, <2>1, LineIsThere
    <2> QED BY <1>1, <1>6, <2>1, <2>2, <2>3 DEF LineEnd
  <1>9. MarkerSurface(text, i) = Surface(i, line, Clean(SubSeq(text, from, upto)))
    BY <1>2, <1>4, <1>5, <1>6, <1>8 DEF MarkerSurface
  <1> HIDE DEF line
  <1>10. /\ from \in Nat \ {0} /\ upto \in 0..n /\ from <= upto + 1
         /\ from + 0 = from /\ upto + 0 = upto
    BY <1>1, <1>7, <1>8
  <1> HIDE DEF upto
  <1>11. SubSeq(text, from, upto) = SubSeq(before, from, upto)
    <2>1. SlicesMeet(text, 0, before, from, upto)
      BY <1>10, SliceBefore
    <2> QED BY <1>10, <2>1 DEF SlicesMeet
  <1> QED BY <1>3, <1>5, <1>9, <1>11

\* No tag opens behind the beginning: the same ones are nested.
LEMMA NestedBefore ==
    ASSUME NEW V, NEW text, NEW n, NEW before, Beginning(V, text, n, before),
           \A k \in (n + 1)..Len(text) : text[k] # "<answer>"
    PROVE  NestedTags(text) = NestedTags(before)
  <1> DEFINE m == Len(text)
             S == {k \in Nat : k <= n => Tags(text, k) = Tags(before, k)}
             R == {k \in Nat : n + k <= m => Tags(text, n + k).nested = Tags(before, n).nested}
  <1>1. /\ n \in Nat /\ m \in Nat /\ n < m /\ text \in Seq(V) /\ before \in Seq(V)
        /\ Len(before) = n /\ \A k \in 1..n : before[k] = text[k]
    BY BeginningPlaces
  <1>2. /\ Tags(before, 0) = [open |-> <<>>, nested |-> {}]
        /\ \A k \in 1..n : Tags(before, k) = TagsAfter(Tags(before, k - 1), before, k)
    BY <1>1, TagsFollow
  <1>3. /\ Tags(text, 0) = [open |-> <<>>, nested |-> {}]
        /\ \A k \in 1..m : Tags(text, k) = TagsAfter(Tags(text, k - 1), text, k)
        /\ \A k \in 0..m : TagsUpTo(Tags(text, k), k)
    BY <1>1, TagsFollow
  <1> HIDE DEF m
  <1>4. 0 \in S
    BY <1>2, <1>3
  <1>5. ASSUME NEW k \in Nat, k \in S PROVE k + 1 \in S
    <2> SUFFICES ASSUME k + 1 <= n PROVE Tags(text, k + 1) = Tags(before, k + 1)
      OBVIOUS
    <2> DEFINE l == k + 1
               tags == Tags(before, k)
    <2>1. l \in 1..n /\ l \in 1..m /\ l - 1 = k /\ Tags(text, k) = tags
      BY <1>1, <1>5
    <2> HIDE DEF l, tags
    <2>2. Tags(text, l) = TagsAfter(tags, text, l) /\ Tags(before, l) = TagsAfter(tags, before, l)
      BY <1>2, <1>3, <2>1 DEF tags
    <2>3. text[l] = before[l]
      BY <1>1, <2>1
    <2>4. TagsAfter(tags, text, l) = TagsAfter(tags, before, l)
      BY <2>3 DEF TagsAfter
    <2> QED BY <2>2, <2>4 DEF l
  <1>6. Tags(text, n) = Tags(before, n)
    <2>1. Nat \subseteq S
      <3> HIDE DEF S
      <3> QED BY <1>4, <1>5, Induction
    <2> QED BY <1>1, <2>1
  <1>7. 0 \in R
    BY <1>1, <1>6
  <1>8. ASSUME NEW k \in Nat, k \in R PROVE k + 1 \in R
    <2> SUFFICES ASSUME n + (k + 1) <= m
                 PROVE  Tags(text, n + (k + 1)).nested = Tags(before, n).nested
      OBVIOUS
    <2> DEFINE l == n + (k + 1)
               j == n + k
               tags == Tags(text, j)
    <2>1. /\ l \in 1..m /\ l \in (n + 1)..m /\ l - 1 = j /\ j \in 0..m
          /\ tags.nested = Tags(before, n).nested
      BY <1>1, <1>8
    <2> HIDE DEF l, j, tags
    <2>2. Tags(text, l) = TagsAfter(tags, text, l) /\ TagsUpTo(tags, j)
      BY <1>3, <2>1 DEF tags
    <2>3. text[l] # "<answer>"
      BY <2>1 DEF m
    <2>4. TagsAfter(tags, text, l).nested = tags.nested
      <3>1. CASE text[l] = "</answer>" /\ tags.open # <<>>
        <4>1. TagsAfter(tags, text, l) = [tags EXCEPT !.open = Front(@)]
          BY <3>1 DEF TagsAfter
        <4>2. tags = [open |-> tags.open, nested |-> tags.nested]
          BY <2>2 DEF TagsUpTo
        <4> QED BY <4>1, <4>2
      <3>2. CASE ~ (text[l] = "</answer>" /\ tags.open # <<>>)
        BY <2>3, <3>2 DEF TagsAfter
      <3> QED BY <3>1, <3>2
    <2> QED BY <2>1, <2>2, <2>4 DEF l
  <1>9. Tags(text, m).nested = Tags(before, n).nested
    <2>1. Nat \subseteq R
      <3> HIDE DEF R
      <3> QED BY <1>7, <1>8, Induction
    <2>2. m - n \in Nat /\ n + (m - n) = m
      BY <1>1
    <2>3. m - n \in R
      <3> HIDE DEF R
      <3> QED BY <2>1, <2>2
    <2> QED BY <1>1, <2>2, <2>3
  <1> QED BY <1>1, <1>9 DEF NestedTags, m

\* Two sets of numbers that are the same up to one that they have.
LEMMA SameLeast ==
    ASSUME NEW A \in SUBSET Nat, NEW B \in SUBSET Nat, NEW x \in A,
           \A y \in 0..x : y \in A <=> y \in B
    PROVE  Min(A) \in A /\ Min(A) <= x /\ Min(B) = Min(A)
  <1> DEFINE p == Min(A)
             q == Min(B)
  <1>1. x \in B
    <2>1. x \in 0..x
      OBVIOUS
    <2> QED BY <2>1
  <1>2. p \in A /\ (\A y \in A : p <= y) /\ q \in B /\ (\A y \in B : q <= y)
    BY <1>1, LeastOf
  <1> HIDE DEF p, q
  <1>3. p \in 0..x /\ q \in 0..x
    <2>1. p <= x /\ q <= x /\ p \in Nat /\ q \in Nat
      BY <1>1, <1>2
    <2> QED BY <2>1
  <1>4. p \in B /\ q \in A
    BY <1>2, <1>3
  <1>5. p <= q /\ q <= p /\ p \in Nat /\ q \in Nat
    BY <1>2, <1>4
  <1> QED BY <1>2, <1>5 DEF p, q

\* A surface of the beginning that what follows cannot change: it encloses
\* something, or something stands behind it that is not a line break.
Settled(before, i, c) ==
    \/ c.candidate # <<>>
    \/ \E j \in (i + 1)..Len(before) : before[j] # "\n" /\ c.end <= j

LEMMA BoxBefore ==
    ASSUME NEW V, NEW text, NEW n, NEW before, Beginning(V, text, n, before), NEW i \in 1..n,
           Settled(before, i, BoxSurface(before, i))
    PROVE  BoxSurface(text, i) = BoxSurface(before, i)
  <1> DEFINE m == Len(text)
             a == PastBreaks(before, i + 1)
             b == PastBreaks(text, i + 1)
             C == {k \in a..n : Times(before, a, k, "{") = Times(before, a, k, "}")}
             D == {k \in b..m : Times(text, b, k, "{") = Times(text, b, k, "}")}
             none == InCode(before, i) \/ a = n + 1 \/ before[a] # "{"
             many == InCode(text, i) \/ b = m + 1 \/ text[b] # "{"
             inner == Strip(SubSeq(before, a + 1, Min(C) - 1))
             outer == Strip(SubSeq(text, b + 1, Min(D) - 1))
             old == BoxSurface(before, i)
  <1>1. /\ n \in Nat /\ m \in Nat /\ n < m /\ Len(before) = n
        /\ \A k \in 1..n : before[k] = text[k]
    BY BeginningPlaces
  <1>2. InCode(text, i) = InCode(before, i)
    BY CodeBefore
  <1>3. old = IF none THEN Surface(i, i + 1, <<>>)
              ELSE IF C = {} THEN Surface(i, n + 1, <<>>)
              ELSE Surface(i, Min(C) + 1, inner)
    BY <1>1 DEF BoxSurface
  <1>4. BoxSurface(text, i) = IF many THEN Surface(i, i + 1, <<>>)
                              ELSE IF D = {} THEN Surface(i, m + 1, <<>>)
                              ELSE Surface(i, Min(D) + 1, outer)
    BY DEF BoxSurface
  <1>5. old.candidate # <<>> \/ \E j \in (i + 1)..n : before[j] # "\n" /\ old.end <= j
    BY <1>1 DEF Settled
  <1> HIDE DEF m, old
  <1>6. CASE InCode(before, i)
    BY <1>2, <1>3, <1>4, <1>6 DEF old
  <1>7. CASE ~ InCode(before, i)
    <2>1. i + 1 \in 1..(n + 1)
      BY <1>1
    <2>2. /\ a \in (i + 1)..(n + 1)
          /\ a <= n => b = a
          /\ (\E j \in (i + 1)..n : before[j] # "\n") => a <= n
      BY <2>1, PastBreaksBefore
    <2>3. a <= n /\ b = a
      <3>1. CASE old.candidate # <<>>
        <4>1. ~ none
          BY <1>3, <3>1 DEF Surface
        <4>2. a # n + 1
          BY <4>1
        <4> HIDE DEF a, b, C, D, none, many, inner, outer
        <4> QED BY <1>1, <2>2, <4>2
      <3>2. CASE \E j \in (i + 1)..n : before[j] # "\n" /\ old.end <= j
        BY <2>2, <3>2
      <3> QED BY <1>5, <3>1, <3>2
    <2>4. a \in (i + 1)..n
      <3> HIDE DEF a
      <3> QED BY <1>1, <2>2, <2>3
    <2> HIDE DEF a, b
    <2>5. a \in 1..n /\ a \in Nat \ {0} /\ a # n + 1 /\ a # m + 1 /\ text[a] = before[a]
      BY <1>1, <2>4
    <2>6. none <=> before[a] # "{"
      BY <1>7, <2>5
    <2>7. many <=> before[a] # "{"
      BY <1>2, <1>7, <2>3, <2>5
    <2>8. CASE before[a] # "{"
      BY <1>3, <1>4, <2>6, <2>7, <2>8 DEF old
    <2>9. CASE before[a] = "{"
      <3>1. C # {}
        <4> SUFFICES ASSUME C = {} PROVE FALSE
          OBVIOUS
        <4> HIDE DEF C, none, inner
        <4>1. old = Surface(i, n + 1, <<>>)
          BY <1>3, <2>6, <2>9
        <4>2. PICK j \in (i + 1)..n : n + 1 <= j
          BY <1>5, <4>1 DEF Surface
        <4> QED BY <1>1, <4>2
      <3>2. C \in SUBSET Nat /\ D \in SUBSET Nat /\ C \in SUBSET (a..n)
        <4>1. C \in SUBSET (a..n) /\ D \in SUBSET (a..m)
          BY <2>3
        <4> HIDE DEF C, D, none, many, inner, outer
        <4>2. (\A y \in a..n : y \in Nat) /\ \A y \in a..m : y \in Nat
          BY <1>1, <2>5
        <4> QED BY <4>1, <4>2
      <3>3. \A k \in 0..n : k \in C <=> k \in D
        <4> TAKE k \in 0..n
        <4>1. \A token : Times(text, a, k, token) = Times(before, a, k, token)
          BY <2>5, TimesBefore
        <4>2. k \in a..n <=> k \in a..m
          BY <1>1, <2>5
        <4> QED BY <2>3, <4>1, <4>2
      <3>4. PICK y \in C : TRUE
        BY <3>1
      <3> DEFINE e == Min(C)
                 from == a + 1
                 upto == e - 1
      <3>5. e \in C /\ Min(D) = e
        <4>1. \A k \in 0..y : k \in C <=> k \in D
          <5>1. y \in a..n
            BY <3>2, <3>4
          <5> HIDE DEF e, C, D, none, many, inner, outer, from, upto
          <5>2. \A k \in 0..y : k \in 0..n
            BY <1>1, <2>5, <5>1
          <5> QED BY <3>3, <5>2
        <4> HIDE DEF C, D
        <4> QED BY <3>2, <3>4, <4>1, SameLeast
      <3>6. e \in a..n /\ D # {}
        <4>1. e \in a..n
          BY <3>2, <3>5
        <4>2. e \in 0..n
          <5> HIDE DEF e, C, D, none, many, inner, outer, from, upto
          <5> QED BY <1>1, <2>5, <4>1
        <4>3. e \in D
          <5> HIDE DEF C, D, e
          <5> QED BY <3>3, <3>5, <4>2
        <4> QED BY <4>1, <4>3
      <3>7. SubSeq(text, a + 1, e - 1) = SubSeq(before, a + 1, e - 1)
        <4> HIDE DEF C, D, e, none, many, inner, outer
        <4>1. CASE e = a
          <5>1. from \in Int /\ upto \in Int /\ upto < from
            BY <1>1, <2>5, <4>1
          <5> QED BY <5>1, SubSeqEmpty
        <4>2. CASE e # a
          <5>1. /\ from \in Nat \ {0} /\ upto \in 0..n /\ from <= upto + 1
                /\ from + 0 = from /\ upto + 0 = upto
            BY <1>1, <2>5, <3>6, <4>2
          <5> HIDE DEF from, upto
          <5>2. SlicesMeet(text, 0, before, from, upto)
            BY <5>1, SliceBefore
          <5>3. SubSeq(text, from, upto) = SubSeq(before, from, upto)
            BY <5>1, <5>2 DEF SlicesMeet
          <5> QED BY <5>3 DEF from, upto
        <4> QED BY <4>1, <4>2
      <3>8. outer = inner /\ Min(D) = Min(C)
        BY <2>3, <3>5, <3>7
      <3> HIDE DEF C, D, none, many, inner, outer
      <3>9. old = Surface(i, Min(C) + 1, inner)
        BY <1>3, <2>6, <2>9, <3>1
      <3>10. BoxSurface(text, i) = Surface(i, Min(D) + 1, outer)
        BY <1>4, <2>7, <2>9, <3>6
      <3> QED BY <3>8, <3>9, <3>10 DEF old
    <2> QED BY <2>8, <2>9
  <1> QED BY <1>6, <1>7

LEMMA TagBefore ==
    ASSUME NEW V, NEW text, NEW n, NEW before, Beginning(V, text, n, before), NEW i \in 1..n,
           \A k \in (n + 1)..Len(text) : text[k] # "<answer>",
           Settled(before, i, TagSurface(before, i))
    PROVE  TagSurface(text, i) = TagSurface(before, i)
  <1> DEFINE m == Len(text)
             near == NextOf(before, i + 1, {"</answer>"})
             far == NextOf(text, i + 1, {"</answer>"})
             another == NextOf(before, i + 1, {"<answer>"})
             further == NextOf(text, i + 1, {"<answer>"})
             from == i + 1
             upto == near - 1
             bad == i \in NestedTags(before) \/ near = n + 1 \/ another < near
             worse == i \in NestedTags(text) \/ far = m + 1 \/ further < far
             old == TagSurface(before, i)
             inner == Strip(SubSeq(before, from, upto))
  <1>1. n \in Nat /\ m \in Nat /\ n < m /\ Len(before) = n /\ i + 1 \in 1..(n + 1)
    BY BeginningPlaces
  <1>2. InCode(text, i) = InCode(before, i)
    BY CodeBefore
  <1>3. /\ near \in (i + 1)..(n + 1) /\ far \in (i + 1)..(m + 1) /\ (near <= n => far = near)
        /\ another \in (i + 1)..(n + 1) /\ further \in (i + 1)..(m + 1)
        /\ (another <= n => further = another) /\ (another = n + 1 => further >= n + 1)
    <2>1. \A tokens : /\ NextOf(before, i + 1, tokens) \in (i + 1)..(n + 1)
                      /\ NextOf(text, i + 1, tokens) \in (i + 1)..(Len(text) + 1)
                      /\ NextOf(before, i + 1, tokens) <= n =>
                             NextOf(text, i + 1, tokens) = NextOf(before, i + 1, tokens)
                      /\ NextOf(before, i + 1, tokens) = n + 1 =>
                             NextOf(text, i + 1, tokens) >= n + 1
      BY <1>1, NextBefore
    <2> QED BY <2>1
  <1>4. NestedTags(text) = NestedTags(before)
    BY NestedBefore
  <1>5. /\ TagSurface(text, i) =
                IF InCode(text, i) THEN Surface(i, i + 1, <<>>)
                ELSE IF worse THEN Surface(i, m + 1, <<>>)
                ELSE Surface(i, far + 1, Strip(SubSeq(text, from, far - 1)))
        /\ old = IF InCode(before, i) THEN Surface(i, i + 1, <<>>)
                 ELSE IF bad THEN Surface(i, n + 1, <<>>)
                 ELSE Surface(i, near + 1, inner)
    BY <1>1 DEF TagSurface
  <1>6. old.candidate # <<>> \/ \E j \in (i + 1)..n : before[j] # "\n" /\ old.end <= j
    BY <1>1 DEF Settled
  <1> HIDE DEF near, far, another, further, m, old
  <1>7. CASE InCode(before, i)
    BY <1>2, <1>5, <1>7 DEF old
  <1>8. CASE ~ InCode(before, i)
    <2>1. ~ bad
      <3> SUFFICES ASSUME bad PROVE FALSE
        OBVIOUS
      <3> HIDE DEF bad, inner
      <3>1. old = Surface(i, n + 1, <<>>)
        BY <1>5, <1>8
      <3>2. PICK j \in (i + 1)..n : n + 1 <= j
        BY <1>6, <3>1 DEF Surface
      <3> QED BY <1>1, <3>2
    <2>2. near \in (i + 1)..n /\ far = near /\ ~ (far = m + 1)
      BY <1>1, <1>3, <2>1
    <2>3. ~ (further < far)
      BY <1>1, <1>3, <2>1, <2>2
    <2>4. ~ worse
      BY <1>4, <2>1, <2>2, <2>3
    <2>5. SubSeq(text, from, upto) = SubSeq(before, from, upto)
      <3>1. /\ from \in Nat \ {0} /\ upto \in 0..n /\ from <= upto + 1
            /\ from + 0 = from /\ upto + 0 = upto
        BY <1>1, <2>2
      <3> HIDE DEF from, upto
      <3>2. SlicesMeet(text, 0, before, from, upto)
        BY <3>1, SliceBefore
      <3> QED BY <3>1, <3>2 DEF SlicesMeet
    <2>6. Strip(SubSeq(text, from, far - 1)) = inner
      BY <2>2, <2>5
    <2> HIDE DEF bad, worse, inner
    <2>7. TagSurface(text, i) = Surface(i, far + 1, inner)
      BY <1>2, <1>5, <1>8, <2>4, <2>6
    <2> QED BY <1>5, <1>8, <2>1, <2>2, <2>7 DEF old
  <1> QED BY <1>7, <1>8

LEMMA ContainerBefore ==
    ASSUME NEW V, NEW text, NEW n, NEW before, Beginning(V, text, n, before), NEW i \in 1..n,
           \A k \in (n + 1)..Len(text) : text[k] # "<answer>",
           Settled(before, i, Container(before, i))
    PROVE  Container(text, i) = Container(before, i)
  <1>1. text[i] = before[i]
    BY BeginningPlaces
  <1>2. CASE before[i] = "box"
    <2>1. Settled(before, i, BoxSurface(before, i))
      BY <1>2 DEF Container
    <2>2. BoxSurface(text, i) = BoxSurface(before, i)
      BY <2>1, BoxBefore
    <2> QED BY <1>1, <1>2, <2>2 DEF Container
  <1>3. CASE before[i] # "box"
    <2>1. Settled(before, i, TagSurface(before, i))
      BY <1>3 DEF Container
    <2>2. TagSurface(text, i) = TagSurface(before, i)
      BY <2>1, TagBefore
    <2> QED BY <1>1, <1>3, <2>2 DEF Container
  <1> QED BY <1>2, <1>3

\* A break that no claim follows, behind a beginning whose last claim encloses
\* something.
EndsClaiming(text, n, before) ==
    /\ text[n + 1] \in Breaks
    /\ \A k \in (n + 1)..Len(text) : ~ MakesClaim(text, k)
    /\ \E t \in Terminal(Containers(before), Markers(before)) : t.candidate # <<>>

LEMMA ContainersSettled ==
    ASSUME NEW V, NEW before \in Seq(V), NEW c \in Containers(before),
           NEW t \in Terminal(Containers(before), Markers(before)), t.candidate # <<>>
    PROVE  Settled(before, c.start, c)
  <1> DEFINE n == Len(before)
             C == Containers(before)
  <1>1. n \in Nat /\ DOMAIN before = 1..n
    OBVIOUS
  <1>2. /\ \A b \in C : b.start \in 1..n /\ b.end \in (b.start + 1)..(n + 1)
        /\ \A b, d \in C : b = d \/ b.end <= d.start \/ d.end <= b.start
    BY ContainersAreApart DEF Apart
  <1>3. /\ c.start <= t.start
        /\ t \in C \/ ~ (t.start \in c.start..(c.end - 1))
    BY DEF Terminal
  <1>4. t.start \in 1..n /\ MakesClaim(before, t.start)
    BY <1>1, TerminalDecides DEF Decides
  <1>5. before[t.start] # "\n"
    BY <1>4 DEF MakesClaim, Opens
  <1> HIDE DEF C, n
  <1>6. c \in C /\ c.start \in Int /\ c.end \in Int /\ c.start < c.end /\ t.start \in Int
    <2>1. c \in C
      BY DEF C
    <2>2. c.start \in 1..n /\ c.end \in (c.start + 1)..(n + 1)
      BY <1>2, <2>1
    <2> QED BY <1>1, <1>4, <2>1, <2>2
  <1>7. c = t \/ c.end <= t.start
    <2>1. CASE t \in C
      <3>1. t.end \in Int /\ t.start < t.end
        <4>1. t.end \in (t.start + 1)..(n + 1)
          BY <1>2, <2>1
        <4> QED BY <1>1, <1>6, <4>1
      <3>2. c = t \/ c.end <= t.start \/ t.end <= c.start
        BY <1>2, <1>6, <2>1
      <3> QED BY <1>3, <1>6, <3>1, <3>2
    <2>2. CASE t \notin C
      <3>1. ~ (t.start \in c.start..(c.end - 1))
        BY <1>3, <2>2
      <3> QED BY <1>3, <1>6, <3>1
    <2> QED BY <2>1, <2>2
  <1>8. CASE c = t
    BY <1>8 DEF Settled
  <1>9. CASE c.end <= t.start
    <2>1. t.start \in (c.start + 1)..n
      BY <1>1, <1>4, <1>6, <1>9
    <2> QED BY <1>5, <1>9, <2>1 DEF Settled, n
  <1> QED BY <1>7, <1>8, <1>9

LEMMA ContainersBefore ==
    ASSUME NEW V, NEW text, NEW n, NEW before, Beginning(V, text, n, before),
           EndsClaiming(text, n, before)
    PROVE  Containers(text) = Containers(before)
  <1> DEFINE m == Len(text)
             C == Containers(before)
  <1>1. /\ n \in Nat /\ m \in Nat /\ n < m /\ text \in Seq(V) /\ before \in Seq(V)
        /\ Len(before) = n /\ \A k \in 1..n : before[k] = text[k]
    BY BeginningPlaces
  <1>2. Apart(text, 1, Containers(text)) /\ Apart(before, 1, C)
    BY <1>1, ContainersAreApart
  <1>3. \A k \in (n + 1)..m : text[k] \notin Opens
    BY DEF EndsClaiming, MakesClaim
  <1>4. \A k \in (n + 1)..Len(text) : text[k] # "<answer>"
    BY <1>3 DEF Opens
  <1>5. PICK t \in Terminal(Containers(before), Markers(before)) : t.candidate # <<>>
    BY DEF EndsClaiming
  <1>6. /\ \A c \in C : /\ c.start \in 1..n /\ before[c.start] \in Opens
                        /\ c = Container(before, c.start) /\ c.end \in (c.start + 1)..(n + 1)
        /\ \A c, d \in C : c = d \/ c.end <= d.start \/ d.end <= c.start
        /\ \A k \in 1..n : before[k] \in Opens => \E c \in C : c.start <= k /\ k < c.end
    BY <1>1, <1>2 DEF Apart
  <1>7. ASSUME NEW c \in C PROVE c = Container(text, c.start)
    <2> DEFINE i == c.start
    <2>1. i \in 1..n /\ c = Container(before, i)
      BY <1>6
    <2>2. Settled(before, i, c)
      BY <1>1, <1>5, ContainersSettled
    <2>3. Settled(before, i, Container(before, i))
      BY <2>1, <2>2
    <2> HIDE DEF i
    <2>4. Container(text, i) = Container(before, i)
      BY <1>4, <2>1, <2>3, ContainerBefore
    <2> QED BY <2>1, <2>4 DEF i
  <1> HIDE DEF C, m
  <1>8. Apart(text, 1, C)
    <2>1. \A c \in C : /\ c.start \in 1..m /\ text[c.start] \in Opens
                       /\ c = Container(text, c.start) /\ c.end \in (c.start + 1)..(m + 1)
      <3> TAKE c \in C
      <3>1. c.start \in 1..n /\ before[c.start] \in Opens /\ c.end \in (c.start + 1)..(n + 1)
        BY <1>6
      <3>2. c.start \in 1..m /\ c.end \in (c.start + 1)..(m + 1)
        BY <1>1, <3>1
      <3> QED BY <1>1, <1>7, <3>1, <3>2
    <2>2. \A k \in 1..m : text[k] \in Opens => \E c \in C : c.start <= k /\ k < c.end
      <3> SUFFICES ASSUME NEW k \in 1..m, text[k] \in Opens
                   PROVE  \E c \in C : c.start <= k /\ k < c.end
        OBVIOUS
      <3>1. k \in 1..n
        BY <1>1, <1>3
      <3> QED BY <1>1, <1>6, <3>1
    <2> QED BY <1>6, <2>1, <2>2 DEF Apart, m
  <1> QED BY <1>1, <1>2, <1>8, ApartIsUnique DEF m, C

\* A marker of the beginning may find a value only in what follows, but one that
\* decides has its value.
LEMMA TerminalBefore ==
    ASSUME NEW V, NEW text, NEW n, NEW before, Beginning(V, text, n, before),
           EndsClaiming(text, n, before)
    PROVE  Terminal(Containers(text), Markers(text))
               = Terminal(Containers(before), Markers(before))
  <1> DEFINE m == Len(text)
             C == Containers(before)
             K == Markers(before)
             L == Markers(text)
             Marks(t, k) == t[k] = "answer:" /\ (InCode(t, k) \/ ~ Negated(t, k))
             outside(S) == {s \in S : \A c \in C : s.start \notin c.start..(c.end - 1)}
             all(S) == C \cup outside(S)
  <1>1. /\ n \in Nat /\ m \in Nat /\ n < m /\ DOMAIN before = 1..n /\ DOMAIN text = 1..m
        /\ text \in Seq(V) /\ before \in Seq(V) /\ \A k \in 1..n : before[k] = text[k]
    BY BeginningPlaces
  <1>2. text[n + 1] \in Breaks /\ Containers(text) = C
    BY ContainersBefore DEF EndsClaiming
  <1>3. \A k \in 1..n : Marks(text, k) <=> Marks(before, k)
    <2> TAKE k \in 1..n
    <2>1. InCode(text, k) = InCode(before, k)
      BY CodeBefore
    <2>2. Negated(text, k) = Negated(before, k)
      BY NegatedBefore
    <2> QED BY <1>1, <2>1, <2>2
  <1>4. \A k \in (n + 1)..m : ~ Marks(text, k)
    BY DEF EndsClaiming, MakesClaim
  <1>5. /\ \A s : s \in K <=> \E k \in 1..n : Marks(before, k) /\ s = MarkerSurface(before, k)
        /\ \A s : s \in L <=> \E k \in 1..m : Marks(text, k) /\ s = MarkerSurface(text, k)
    BY <1>1 DEF Markers
  <1>6. /\ \A k \in 1..n : MarkerSurface(before, k).start = k
        /\ \A k \in 1..m : MarkerSurface(text, k).start = k
    BY <1>1, MarkerEnds DEF Ends
  <1>7. /\ \A k \in 1..n : k \in 1..m
        /\ \A k \in 1..m : k \in 1..n \/ k \in (n + 1)..m
    <2> HIDE DEF m
    <2> QED BY <1>1
  <1>8. \A S : Terminal(C, S) = {s \in all(S) : \A r \in all(S) : r.start <= s.start}
    BY DEF Terminal
  <1>9. PICK t \in Terminal(C, K) : t.candidate # <<>>
    BY DEF EndsClaiming
  <1>10. Terminal(C, K) = {t}
    BY <1>1, TerminalDecides
  <1> HIDE DEF Marks, m, K, L
  <1>11. t \in all(K) /\ \A r \in all(K) : r.start <= t.start
    BY <1>8, <1>9
  <1>12. t \in K => t \in L
    <2> SUFFICES ASSUME t \in K PROVE t \in L
      OBVIOUS
    <2>1. PICK k \in 1..n : Marks(before, k) /\ t = MarkerSurface(before, k)
      BY <1>5
    <2>2. MarkerSurface(text, k) = t
      BY <1>2, <1>9, <2>1, MarkerBefore
    <2> QED BY <1>3, <1>5, <1>7, <2>1, <2>2
  <1>13. \A s \in outside(L) : \E r \in outside(K) : r.start = s.start
    <2> TAKE s \in outside(L)
    <2>1. PICK k \in 1..m : Marks(text, k) /\ s = MarkerSurface(text, k)
      BY <1>5
    <2>2. k \in 1..n /\ Marks(before, k)
      BY <1>3, <1>4, <1>7, <2>1
    <2>3. MarkerSurface(before, k) \in K /\ MarkerSurface(before, k).start = s.start
      BY <1>5, <1>6, <2>1, <2>2
    <2> QED BY <2>3
  <1>14. t \in Terminal(C, L)
    <2>1. t \in all(L)
      BY <1>11, <1>12
    <2>2. \A r \in all(L) : r.start <= t.start
      BY <1>11, <1>13
    <2> QED BY <1>8, <2>1, <2>2
  <1>15. Terminal(C, L) = {t}
    BY <1>1, <1>2, <1>14, TerminalDecides DEF L
  <1> QED BY <1>2, <1>10, <1>15 DEF K, L

\* What a response says after a break makes no difference if it claims nothing
\* there and its last claim before, in what stands before, encloses something:
\* what is extracted and how it is judged is what it would be had the response
\* ended there.
THEOREM LaterTextIsIrrelevant ==
    ASSUME NEW V, NEW text \in Seq(V), NEW n \in 1..(Len(text) - 1),
           Bounded(text) = "extracted", EndsClaiming(text, n, SubSeq(text, 1, n))
    PROVE  LET before == SubSeq(text, 1, n) IN
           /\ ExtractPrediction(text) = ExtractPrediction(before)
           /\ \A reference : Verify(reference, text) = Verify(reference, before)
  <1> DEFINE m == Len(text)
             before == SubSeq(text, 1, n)
  <1>1. m \in Nat /\ n \in Nat \ {0} /\ n < m /\ DOMAIN text = 1..m
    OBVIOUS
  <1> HIDE DEF m
  <1>2. before \in Seq(V) /\ Len(before) = n /\ \A i \in 1..n : before[i] = text[i]
    <2>1. \A i \in 1..n : text[i] \in V
      BY <1>1 DEF m
    <2>2. 1 \in Int /\ n \in Int /\ 1 <= n /\ (n - 1) + 1 = n
      BY <1>1
    <2>3. \A i \in 1..((n - 1) + 1) : (1 + i) - 1 = i
      BY <1>1
    <2>4. /\ before \in Seq(V) /\ Len(before) = (IF 1 <= n THEN (n - 1) + 1 ELSE 0)
          /\ \A i \in 1..((n - 1) + 1) : before[i] = text[(1 + i) - 1]
      BY <2>1, <2>2, SubSeqProperties
    <2> HIDE DEF before
    <2> QED BY <2>2, <2>3, <2>4
  <1>3. EndsClaiming(text, n, before)
    OBVIOUS
  <1> HIDE DEF before
  <1>4. Beginning(V, text, n, before)
    <2>1. DOMAIN before = 1..n /\ Len(before) + 0 <= m /\ n < Len(text) /\ 0 \in Nat
      BY <1>1, <1>2 DEF m
    <2>2. \A i \in 1..n : before[i] = text[i + 0]
      <3>1. \A i \in 1..n : i + 0 = i
        BY <1>1
      <3> QED BY <1>2, <3>1
    <2> QED BY <1>2, <2>1, <2>2 DEF Beginning, Within, m
  <1> DEFINE last == Terminal(Containers(before), Markers(before))
  <1>5. Terminal(Containers(text), Markers(text)) = last
    BY <1>3, <1>4, TerminalBefore
  <1>6. PICK t \in last : Decides(before, t) /\ last = {t}
    <2>1. PICK t \in last : TRUE
      BY <1>3 DEF EndsClaiming
    <2> QED BY <1>2, <2>1, TerminalDecides
  <1>7. Bounded(before) = "extracted"
    <2>1. t.start \in DOMAIN before /\ before[t.start] # "\n"
      BY <1>6 DEF Decides, MakesClaim, Opens
    <2>2. Strip(before) # <<>>
      BY <1>2, <2>1, StripLeaves
    <2> DEFINE l == Limits.input
    <2>3. l \in Nat /\ ~ (m > l)
      BY LimitsAssumption DEF PolicyHolds, Bounded, m
    <2> HIDE DEF l
    <2>4. ~ (Len(before) > l)
      BY <1>1, <1>2, <2>3
    <2> QED BY <2>2, <2>4 DEF Bounded, l
  <1>8. /\ ExtractPrediction(text) = Selected(text, last)
        /\ ExtractPrediction(before) = Selected(before, last)
    BY <1>5, <1>7 DEF ExtractPrediction
  <1> HIDE DEF last
  <1>9. Selected(text, last) = Selected(before, last)
    BY <1>6 DEF Selected
  <1>10. ExtractPrediction(text) = ExtractPrediction(before)
    BY <1>8, <1>9
  <1>11. \A reference : Verify(reference, text) = Verify(reference, before)
    BY <1>10 DEF Verify, VerifyParsed, ParsePrediction
  <1> QED BY <1>10, <1>11 DEF before

==============================================================================
