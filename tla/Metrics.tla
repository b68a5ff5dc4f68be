------------------------------- MODULE Metrics -------------------------------
(***************************************************************************)
(* evaluation/metrics.py: exact pass@k, rounding to integer ppm, and the   *)
(* item scores and summary of an evaluation report.  Fractions are kept as *)
(* numerator and denominator.                                              *)
(***************************************************************************)
EXTENDS Integers, Sequences, FiniteSets, Combinatorics, Functions

SCORE_SCALE == 1000000

\* fraction_to_ppm: to the nearest ppm, halves up.
FractionToPpm(numerator, denominator) ==
    (2 * numerator * SCORE_SCALE + denominator) \div (2 * denominator)

\* math.comb.
Comb(n, k) == IF k > n THEN 0 ELSE choose(n, k)

\* pass_at_k_fraction: the numerator; the denominator is Comb(total, k).
Passes(total, correct, k) == Comb(total, k) - Comb(total - correct, k)

\* EvaluatorContract.__post_init__: the ks of pass@k.
ContractHolds(contract) == contract.ks # {} /\ contract.ks \subseteq 1..1024

\* A sample score, of a completed record and the verdict on its text.
SampleScore(record, verdict) ==
    [request |-> record.request, correct |-> (verdict = "match"), verdict |-> verdict,
     tokens |-> Len(record.outcome.tokens), reason |-> record.outcome.reason]

CountWhere(scores, Test(_)) == Cardinality({n \in DOMAIN scores : Test(scores[n])})

Correct(score) == score.correct
Extracted(score) == score.verdict # "not_extracted"
Parsed(score) == score.verdict \notin {"not_extracted", "unparseable"}
Truncated(score) == score.reason = "length"

\* The samples of an item: the i-th run of `samples` scores.
SamplesOf(scores, samples, i) ==
    [s \in 1..samples |-> scores[(i - 1) * samples + s]]

\* ItemScore.build.
ItemScore(scores, ks) ==
    LET correct == CountWhere(scores, Correct) IN
    [id |-> scores[1].request.item,
     correctness |-> [s \in DOMAIN scores |-> scores[s].correct],
     correct |-> correct,
     pass |-> [k \in ks |-> FractionToPpm(Passes(Len(scores), correct, k),
                                          Comb(Len(scores), k))]]

\* Slip: the rounded pass@k of the items are averaged.
AggregateOfRounded(items, samples, k) ==
    (2 * SumFunction([i \in DOMAIN items |-> items[i].pass[k]]) + Len(items))
        \div (2 * Len(items))

\* The mean over the items of their exact pass@k, rounded once.
AggregatePass(items, samples, k) ==
    FractionToPpm(SumFunction([i \in DOMAIN items |-> Passes(samples, items[i].correct, k)]),
                  Comb(samples, k) * Len(items))

\* EvaluationReport.build.
Report(batch, ks, scores) ==
    LET samples == batch.protocol.samples
        items == [i \in 1..batch.descriptor.count |->
                     ItemScore(SamplesOf(scores, samples, i), ks)]
        rate(Test(_)) == FractionToPpm(CountWhere(scores, Test), Len(scores))
    IN  [descriptor |-> batch.descriptor, run |-> batch.run,
         checkpoint |-> batch.checkpoint, protocol |-> batch.protocol,
         scores |-> scores, items |-> items,
         correct |-> CountWhere(scores, Correct),
         accuracy |-> rate(Correct),
         extraction |-> rate(Extracted),
         parse |-> rate(Parsed),
         truncations |-> CountWhere(scores, Truncated),
         tokens |-> SumFunction([n \in DOMAIN scores |-> scores[n].tokens]),
         pass |-> [k \in ks |-> AggregatePass(items, samples, k)]]

\* SampleScore.__post_init__.
SampleScoreHolds(score) == score.correct = (score.verdict = "match")

\* ItemScore.__post_init__.
ItemScoreHolds(item) ==
    LET correct == CountWhere(item.correctness, LAMBDA right : right)
        total == Len(item.correctness)
    IN  /\ total > 0
        /\ item.correct = correct
        /\ item.pass = [k \in DOMAIN item.pass |->
                            FractionToPpm(Passes(total, correct, k), Comb(total, k))]

\* The scores of a report are the complete grid of its items, which bind them.
GridHolds(report, ks) ==
    LET samples == report.protocol.samples
        count == Len(report.items)
    IN  /\ DOMAIN report.scores = 1..(count * samples)
        /\ \A n \in DOMAIN report.scores :
              LET score == report.scores[n]
                  item == report.items[((n - 1) \div samples) + 1]
                  s == ((n - 1) % samples) + 1
              IN  /\ score.request.index = ((n - 1) \div samples) + 1
                  /\ score.request.sample = s
                  /\ score.request.item = item.id
                  /\ item.correctness[s] = score.correct
        /\ \A i, j \in DOMAIN report.items : report.items[i].id = report.items[j].id => i = j
        /\ \A i \in DOMAIN report.items : DOMAIN report.items[i].pass = ks

\* Its summary is that of its scores.
SummaryHolds(report, ks) ==
    LET scores == report.scores
        rate(Test(_)) == FractionToPpm(CountWhere(scores, Test), Len(scores))
    IN  /\ report.correct = CountWhere(scores, Correct)
        /\ report.accuracy = rate(Correct)
        /\ report.extraction = rate(Extracted)
        /\ report.parse = rate(Parsed)
        /\ report.truncations = CountWhere(scores, Truncated)
        /\ report.tokens = SumFunction([n \in DOMAIN scores |-> scores[n].tokens])
        /\ report.pass = [k \in ks |-> AggregatePass(report.items, report.protocol.samples, k)]

\* EvaluationReport.__post_init__, when it is built and when it is loaded.
ReportHolds(report, ks) ==
    /\ \A n \in DOMAIN report.scores : SampleScoreHolds(report.scores[n])
    /\ \A i \in DOMAIN report.items : ItemScoreHolds(report.items[i])
    /\ GridHolds(report, ks)
    /\ SummaryHolds(report, ks)

==============================================================================
