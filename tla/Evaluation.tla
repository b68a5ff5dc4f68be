------------------------------ MODULE Evaluation ------------------------------
(***************************************************************************)
(* One evaluation (evaluation/runner.py): the public items are loaded, a   *)
(* backend that may do anything answers the grid of requests, the batch is *)
(* scored against the sealed answers, and a report results; or one of the  *)
(* many checks between refuses to go on, and nothing does.  That what the  *)
(* evaluator loads is what the generator published is BundleStore's part.  *)
(***************************************************************************)
EXTENDS GenerationContracts, Metrics

CONSTANTS
    Descriptors,  \* benchmarks somebody froze, the ill-formed ones included
    Protocols,    \* decoding protocols
    Contracts,    \* evaluator contracts: [task, ks, policy]
    Policy,       \* policy_digest of the verifier at hand
    Outcomes,     \* by mode, what a response to a request may say
    Arrivals(_),  \* in what order, of n responses, they may come back: sequences
                  \* of the numbers of requests; 0 is a request nobody made
    Checkpoint,   \* the checkpoint under evaluation
    Stranger,     \* the id of a request nobody made
    Verdict,      \* the verifier: by reference and text, "match", "mismatch",
                  \* "unparseable", "not_extracted", or "gold" when it is the
                  \* reference that cannot be parsed
    Nothing

\* The files are sequences, and a count is a number.
ASSUME DescriptorAssumption ==
    \A d \in Descriptors : d.count \in Nat /\ DOMAIN d.public = 1..Len(d.public)

\* A response is to one of the requests, or to 0.
ASSUME ArrivalAssumption ==
    \A d \in Descriptors, p \in Protocols :
        \A order \in Arrivals(d.count * p.samples) :
            \A k \in DOMAIN order : order[k] \in 0..(d.count * p.samples)

VARIABLES
    phase,       \* "start", "public", "answered", "batch", "vault", "reported" or "refused"
    descriptor, protocol, contract,
    public,      \* the loaded items
    replies,     \* the responses of the backend, in the order they came
    batch,       \* the generation batch
    vault,       \* the sealed answer vault
    report

vars == <<phase, descriptor, protocol, contract, public, replies, batch, vault, report>>
frozen == <<descriptor, protocol, contract>>

Init ==
    /\ phase = "start"
    /\ descriptor \in {d \in Descriptors : DescriptorHolds(d)}
    /\ protocol \in {p \in Protocols : ProtocolHolds(p)}
    /\ contract \in {c \in Contracts : ContractHolds(c)}
    /\ public = Nothing
    /\ replies = <<>>
    /\ batch = Nothing
    /\ vault = Nothing
    /\ report = Nothing

\* A contract error, an infrastructure error: nothing comes of the evaluation.
Refuse ==
    /\ phase' = "refused"
    /\ UNCHANGED <<frozen, public, replies, batch, vault, report>>

LoadPublic ==
    /\ phase = "start"
    /\ LoadsPublic(descriptor, descriptor.public)
    /\ public' = descriptor.public
    /\ phase' = "public"
    /\ UNCHANGED <<frozen, replies, batch, vault, report>>

RefusePublic ==
    /\ phase = "start"
    /\ ~ LoadsPublic(descriptor, descriptor.public)
    /\ Refuse

Grid == Requests(public, Checkpoint, protocol)

\* The backend is handed the requests and returns responses: some, all or more,
\* in any order, completed or failed.
Backend ==
    /\ phase = "public"
    /\ \E outcomes \in [DOMAIN Grid -> {o \in Outcomes[protocol.mode] : ResponseHolds(o)}],
          order \in Arrivals(descriptor.count * protocol.samples) :
          replies' = [k \in DOMAIN order |->
              IF order[k] = 0
              THEN [id |-> Stranger, outcome |-> outcomes[1]]
              ELSE [id |-> Grid[order[k]], outcome |-> outcomes[order[k]]]]
    /\ phase' = "answered"
    /\ UNCHANGED <<frozen, public, batch, vault, report>>

NewBatch ==
    [run |-> Checkpoint, descriptor |-> descriptor, public |-> public, checkpoint |-> Checkpoint,
     protocol |-> protocol, records |-> Records(Grid, replies)]

\* run_generation, once the responses are there.
Generates ==
    /\ AnswersEachOnce(Grid, replies)
    /\ BatchHolds(NewBatch)

MakeBatch ==
    /\ phase = "answered"
    /\ Generates
    /\ batch' = NewBatch
    /\ phase' = "batch"
    /\ UNCHANGED <<frozen, public, replies, vault, report>>

RefuseResponses ==
    /\ phase = "answered"
    /\ ~ Generates
    /\ Refuse

LoadVault ==
    /\ phase = "batch"
    /\ LoadsVault(descriptor, public, descriptor.sealed)
    /\ vault' = Vault(descriptor, public, descriptor.sealed)
    /\ phase' = "vault"
    /\ UNCHANGED <<frozen, public, replies, batch, report>>

RefuseVault ==
    /\ phase = "batch"
    /\ ~ LoadsVault(descriptor, public, descriptor.sealed)
    /\ Refuse

\* The batch that was published is the one that is loaded.
Reloads == BundleLoads(Manifest(batch), batch.records, descriptor, public)

\* EvaluatorContract.assert_compatible, and the policy check of the scorer.
Compatible ==
    /\ contract.task = descriptor.task
    /\ contract.policy = Policy
    /\ \A k \in contract.ks : k <= protocol.samples
    /\ protocol.samples = 1 => contract.ks = {1}

\* The verdict on a record: SealedAnswerVault._score_with.
VerdictOn(record) == Verdict[<<vault.references[record.request.item], record.outcome.text>>]

Scores(b) == [n \in DOMAIN b.records |-> SampleScore(b.records[n], VerdictOn(b.records[n]))]

\* Slip: a failed generation is an answer that could not be extracted.
EvaluatesFailures ==
    LET completedOf(record) ==
            IF Completed(record.outcome)
            THEN SampleScore(record, VerdictOn(record))
            ELSE [request |-> record.request, correct |-> FALSE,
                  verdict |-> "not_extracted", tokens |-> 0, reason |-> "length"]
    IN  /\ Compatible
        /\ \A n \in DOMAIN batch.records :
              Completed(batch.records[n].outcome) => VerdictOn(batch.records[n]) # "gold"
        /\ report' = Report(batch, contract.ks,
                            [n \in DOMAIN batch.records |-> completedOf(batch.records[n])])

\* evaluate_generation_batch: every record completed, bound to its public item,
\* and scored against a reference that can be parsed.
Evaluates ==
    /\ Reloads
    /\ Compatible
    /\ FailedCount(batch) = 0
    /\ \A n \in DOMAIN batch.records :
          LET record == batch.records[n]
              item == public[ItemAt(protocol, n)]
          IN  /\ record.request.item = item.id
              /\ record.request.index = item.index
              /\ record.request.prompt = item.prompt
              /\ VerdictOn(record) # "gold"
    /\ report' = Report(batch, contract.ks, Scores(batch))

Evaluate ==
    /\ phase = "vault"
    /\ Evaluates
    /\ ReportHolds(report', contract.ks)
    /\ phase' = "reported"
    /\ UNCHANGED <<frozen, public, replies, batch, vault>>

\* What evaluate_generation_batch refuses.
Blocked ==
    \/ ~ Reloads
    \/ ~ Compatible
    \/ FailedCount(batch) # 0
    \/ \E n \in DOMAIN batch.records :
          Completed(batch.records[n].outcome) /\ VerdictOn(batch.records[n]) = "gold"

RefuseScoring ==
    /\ phase = "vault"
    /\ Blocked
    /\ Refuse

Next ==
    \/ LoadPublic \/ RefusePublic
    \/ Backend
    \/ MakeBatch \/ RefuseResponses
    \/ LoadVault \/ RefuseVault
    \/ Evaluate \/ RefuseScoring

Spec == Init /\ [][Next]_vars

-----------------------------------------------------------------------------

\* However the backend answers, a batch holds for every request, at its place
\* in the grid, the outcome of the only response that carried its id.
OneOutcomePerRequest ==
    batch # Nothing =>
        \A n \in DOMAIN Grid :
            \E k \in DOMAIN replies :
                /\ replies[k].id = Grid[n]
                /\ batch.records[n] = [request |-> Grid[n], outcome |-> replies[k].outcome]
                /\ \A j \in DOMAIN replies \ {k} : replies[j].id # Grid[n]

\* What run_generation accepts and write_generation_bundle publishes, failures
\* included, load_generation_bundle accepts: neither side is stricter.
PublishedBatchesLoad == batch # Nothing => Reloads

\* A report's n-th score is the verifier's judgement of what the backend
\* answered to the n-th request, against the one sealed answer of its item,
\* wherever the two files keep the item and in whatever order answers came.
ScoredAgainstOwnAnswer ==
    report # Nothing =>
        \A n \in DOMAIN Grid :
            \E k \in DOMAIN replies, i \in DOMAIN descriptor.sealed :
                /\ replies[k].id = Grid[n]
                /\ descriptor.sealed[i].id = public[ItemAt(protocol, n)].id
                /\ Completed(replies[k].outcome)
                /\ report.scores[n].verdict =
                       Verdict[<<descriptor.sealed[i].reference, replies[k].outcome.text>>]

\* A generation that failed, or a reference that cannot be parsed, never counts
\* as a wrong answer: there is no report at all
\* (docs/evaluation/SEALED_EVALUATOR.md, Failure semantics).
InfrastructureIsNotScored ==
    report # Nothing =>
        /\ \A k \in DOMAIN replies : Completed(replies[k].outcome)
        /\ \A n \in DOMAIN report.scores : report.scores[n].verdict # "gold"

\* The nearest ppm to a fraction, the larger of two.
IsNearest(ppm, numerator, denominator) ==
    LET error == ppm * denominator - numerator * SCORE_SCALE IN
    -denominator < 2 * error /\ 2 * error <= denominator

\* The metrics are what they are called: accuracy is the share of correct
\* samples, and pass@k the share, over all items and all choices of k of an
\* item's samples, of the choices that hold a correct one, both rounded once.
MetricsAreExact ==
    report # Nothing =>
        LET samples == protocol.samples
            choices(k) == {S \in SUBSET (1..samples) : Cardinality(S) = k}
            items == 1..descriptor.count
            right(i, s) == report.scores[(i - 1) * samples + s].correct
            passing(k) == {c \in items \X choices(k) : \E s \in c[2] : right(c[1], s)}
        IN  /\ IsNearest(report.accuracy,
                         Cardinality({c \in items \X (1..samples) : right(c[1], c[2])}),
                         descriptor.count * samples)
            /\ \A k \in contract.ks :
                  IsNearest(report.pass[k], Cardinality(passing(k)),
                            Cardinality(items \X choices(k)))

===============================================================================
