--------------------------- MODULE PairedStatistics ---------------------------
(***************************************************************************)
(* statistics/contracts.py and statistics/inference.py: fifteen evaluation *)
(* reports become a paired panel, and a panel and a protocol a report, by  *)
(* bootstrapping items within strata, flipping signs of items, Holm's      *)
(* adjustment and the rules for superiority and equivalence.               *)
(*                                                                         *)
(* The random generators may draw anything.  A fraction is [num, den], not *)
(* reduced, with a positive den; Scale is SCORE_SCALE.  A digest is        *)
(* represented by what it hashes.                                          *)
(***************************************************************************)
EXTENDS Integers, Sequences, FiniteSets, SequencesExt, FiniteSetsExt

CONSTANTS
    Campaigns,        \* what build_paired_panel is given: [public, protocol, stratum, evaluations]
    Protocols,        \* statistics protocols
    Preregistered,    \* the one a formal analysis accepts
    Seeds,            \* PREREGISTERED_TRAINING_SEEDS, a sequence
    Scale,
    BootstrapBatch, RandomizationBatch, MaxCells    \* bounds of a batch

\* The items of a public benchmark are a tuple.
ASSUME CampaignsAssumption ==
    \A c \in Campaigns : c.public.ids \in Seq(ToSet(c.public.ids))

ASSUME BoundsAssumption ==
    /\ Seeds \in Seq(Nat) /\ Seeds # <<>>
    /\ {Scale, BootstrapBatch, RandomizationBatch, MaxCells} \subseteq Nat \ {0}

VARIABLES
    campaign,
    protocol,   \* the statistics protocol of the analysis
    formal,     \* require_preregistered
    panel,      \* [stratum, levels, correct], or Nothing
    phase,      \* "reports", "panel", "bootstrap", "randomize", "concluded",
                \* "decide", "reported" or "refused"
    contrast,   \* the contrast being analysed: an index of CONTRASTS
    totals,     \* its bootstrap totals so far
    flips,      \* its sign flips so far
    extreme,    \* those as extreme as what was observed
    evidence,   \* of the contrasts before it
    report

vars == <<campaign, protocol, formal, panel, phase, contrast, totals, flips, extreme,
          evidence, report>>
given == <<campaign, protocol, formal>>

Nothing == "nothing"

ARMS == <<"A0", "A1", "A2", "A3", "A4">>

Contrast(id, treatment, control, alternative) ==
    [id |-> id, treatment |-> treatment, control |-> control, alternative |-> alternative]

CONTRASTS == <<Contrast("C1a", "A1", "A0", "greater"),
               Contrast("C1b", "A2", "A0", "greater"),
               Contrast("C2", "A3", "A4", "two-sided")>>

-----------------------------------------------------------------------------

Q(n, d) == [num |-> n, den |-> d]
Less(a, b) == a.num * b.den < b.num * a.den
Same(a, b) == a.num * b.den = b.num * a.den
Minus(a) == Q(-a.num, a.den)
PPM(n) == Q(n, Scale)
Zero == Q(0, 1)

\* RationalValue: only values from -1 to 1 are stored.
RationalHolds(a) == ~ Less(a, Q(-1, 1)) /\ ~ Less(Q(1, 1), a)

SumOf(s) == FoldLeft(+, 0, s)

Smaller(a, b) == IF a < b THEN a ELSE b
Larger(a, b) == IF a < b THEN b ELSE a

-----------------------------------------------------------------------------

\* StatisticsProtocol.__post_init__.
ProtocolHolds(p) ==
    /\ p.seeds # <<>>
    /\ \A i, j \in DOMAIN p.seeds : i < j => p.seeds[i] < p.seeds[j]
    /\ p.bootstraps \in Nat \ {0} /\ p.randomizations \in Nat \ {0}
    /\ \A ppm \in {p.confidence, p.equivalence, p.alpha, p.practical, p.margin} :
          ppm \in 1..(Scale - 1)
    /\ p.equivalence < p.confidence

\* The grid of arms and seeds in its order.
Grid ==
    [k \in 1..(Len(ARMS) * Len(Seeds)) |->
        <<ARMS[1 + ((k - 1) \div Len(Seeds))], Seeds[1 + ((k - 1) % Len(Seeds))]>>]

\* A report evaluates the public items under the protocol, one greedy sample
\* each, by the contract of the first report.
ReportFits(r, c) ==
    LET first == c.evaluations[1].report IN
    /\ r.descriptor = c.public.descriptor
    /\ r.items = c.public.items
    /\ r.protocol = c.protocol
    /\ r.passAtK = {1}
    /\ r.ids = [i \in DOMAIN c.public.ids |-> c.public.ids[i]]
    /\ DOMAIN r.correct = DOMAIN r.ids
    /\ r.contract = first.contract
    /\ r.version = first.version

\* PairedPanel.__post_init__: there are items, and no report, and no run, counts
\* twice.
PanelHolds(ids, reports) ==
    /\ ids # <<>>
    /\ \A i, j \in DOMAIN reports : i # j =>
           reports[i] # reports[j] /\ reports[i].run # reports[j].run

\* build_paired_panel.
PanelBuilds(c) ==
    LET entries == c.evaluations IN
    /\ c.protocol.mode = "greedy"
    /\ [k \in DOMAIN entries |-> <<entries[k].arm, entries[k].seed>>] = Grid
    /\ \A k \in DOMAIN entries : ReportFits(entries[k].report, c)
    /\ \A i \in DOMAIN c.public.strata : c.stratum \in DOMAIN c.public.strata[i]
    /\ PanelHolds(c.public.ids, [k \in DOMAIN entries |-> entries[k].report])

\* The correctness of each item in each arm, by training seed.
Panel(c) ==
    LET by(arm, seed) ==
            CHOOSE k \in DOMAIN c.evaluations :
                c.evaluations[k].arm = arm /\ c.evaluations[k].seed = seed
    IN  [stratum |-> c.stratum,
         levels |-> [i \in DOMAIN c.public.ids |-> c.public.strata[i][c.stratum]],
         correct |-> [arm \in ToSet(ARMS) |->
             [i \in DOMAIN c.public.ids |->
                 [s \in DOMAIN Seeds |-> c.evaluations[by(arm, Seeds[s])].report.correct[i]]]]]

-----------------------------------------------------------------------------

\* paired_difference_matrix: item by seed, in {-1, 0, 1}.
Differences(p, c) ==
    LET unit(b) == IF b THEN 1 ELSE 0 IN
    [i \in DOMAIN p.levels |-> [s \in DOMAIN Seeds |->
        unit(p.correct[c.treatment][i][s]) - unit(p.correct[c.control][i][s])]]

\* An item with its complete seed vector is what is resampled and flipped.
Units(d) == [i \in DOMAIN d |-> SumOf(d[i])]
Size(d) == Len(d) * Len(Seeds)

Effect(d) == Q(SumOf(Units(d)), Size(d))

SeedEffects(d) ==
    [s \in DOMAIN Seeds |-> Q(SumOf([i \in DOMAIN d |-> d[i][s]]), Len(d))]

Unstable(effects) ==
    /\ \E s \in DOMAIN effects : Less(effects[s], Zero)
    /\ \E s \in DOMAIN effects : Less(Zero, effects[s])

Strata(levels) == {{i \in DOMAIN levels : levels[i] = levels[j]} : j \in DOMAIN levels}

\* The totals of one bootstrap replicate: as many draws from each stratum as it
\* has items, with replacement.
Resampled(units, levels) ==
    LET places == DOMAIN units IN
    {SumOf([i \in places |-> units[draw[i]]]) :
        draw \in {d \in [places -> places] : \A i \in places : levels[d[i]] = levels[i]}}

\* The resamples of a batch, of rows as wide as a stratum or the item set.
BatchSize(limit, width, done, repetitions) ==
    Smaller(Smaller(limit, Larger(1, MaxCells \div width)), repetitions - done)

\* The integers in their order: the k-th is the one that k or more of them do
\* not exceed, and fewer than k are below.
Sorted(values) ==
    [k \in DOMAIN values |-> CHOOSE x \in ToSet(values) :
        /\ Cardinality({i \in DOMAIN values : values[i] < x}) < k
        /\ k <= Cardinality({i \in DOMAIN values : values[i] <= x})]

\* Slip: the quantile is a sample, the one below.
QuantileBelow(values, p) ==
    Q(Sorted(values)[((Len(values) - 1) * p.num) \div p.den + 1], 1)

\* exact_linear_quantile: type 7, interpolated exactly.
Quantile(values, p) ==
    LET v == Sorted(values)
        position == (Len(v) - 1) * p.num
        i == position \div p.den
        low == v[i + 1]
        high == v[Smaller(i + 2, Len(v))]
    IN  Q(low * p.den + (position % p.den) * (high - low), p.den)

\* percentile_interval.
Interval(values, denominator, confidence) ==
    LET at(p) == LET q == Quantile(values, p) IN Q(q.num, q.den * denominator) IN
    [confidence |-> confidence,
     lower |-> at(Q(Scale - confidence, 2 * Scale)),
     upper |-> at(Q(Scale + confidence, 2 * Scale))]

Signs(units) == [DOMAIN units -> {-1, 1}]

Signed(units, signs) == SumOf([i \in DOMAIN units |-> signs[i] * units[i]])

\* A flip is as extreme as what was observed.
IsExtreme(units, signs, alternative) ==
    LET observed == SumOf(units)
        flipped == Signed(units, signs)
        size(n) == IF n < 0 THEN -n ELSE n
    IN  IF alternative = "greater" THEN flipped >= observed ELSE size(flipped) >= size(observed)

\* Slip: what was observed is not counted among the flips.
PValueUncorrected(extremes, repetitions) == Q(extremes, repetitions)

\* The conservative p-value, with what was observed as one flip more.
PValue(extremes, repetitions) == Q(extremes + 1, repetitions + 1)

\* holm_adjust: step down from the smallest p-value, ties in the family's order.
Holm(p) ==
    LET before(h, k) == Less(p[h], p[k]) \/ (Same(p[h], p[k]) /\ h <= k)
        rank(h) == Cardinality({k \in DOMAIN p : before(k, h)})
        candidate(h) ==
            LET scaled == Q(((Len(p) - rank(h)) + 1) * p[h].num, p[h].den)
            IN  IF Less(Q(1, 1), scaled) THEN Q(1, 1) ELSE scaled
    IN  [h \in DOMAIN p |->
            candidate(CHOOSE k \in DOMAIN p :
                /\ before(k, h)
                /\ \A j \in DOMAIN p : before(j, h) => ~ Less(candidate(k), candidate(j)))]

\* _analyze_contrast, from its resamples.
Evidence(d, values, extremes, p) ==
    [point |-> Effect(d),
     seeds |-> SeedEffects(d),
     interval |-> Interval(values, Size(d), p.confidence),
     equivalence |-> Interval(values, Size(d), p.equivalence),
     extremes |-> extremes,
     repetitions |-> p.randomizations,
     p |-> PValue(extremes, p.randomizations)]

Significant(adjusted, p) == Less(adjusted, PPM(p.alpha))

C1Result(e, adjusted, p) ==
    LET superior == Significant(adjusted, p) /\ Less(Zero, e.interval.lower) IN
    [evidence |-> e, unstable |-> Unstable(e.seeds), adjusted |-> adjusted,
     superior |-> superior, success |-> superior /\ ~ Less(e.point, PPM(p.practical))]

\* _classify_c2: superiority first; equivalence, by both margins, only without.
Classify(e, p) ==
    LET above == Less(PPM(-p.margin), e.equivalence.lower)
        below == Less(e.equivalence.upper, PPM(p.margin))
        superior(classification) ==
            [assessed |-> FALSE, above |-> "null", below |-> "null",
             classification |-> classification]
    IN  CASE Less(Zero, e.interval.lower) /\ ~ Less(e.point, PPM(p.practical)) ->
                superior("superior_A3")
          [] Less(e.interval.upper, Zero) /\ ~ Less(PPM(-p.practical), e.point) ->
                superior("superior_A4")
          [] OTHER ->
                [assessed |-> TRUE, above |-> above, below |-> below,
                 classification |-> IF above /\ below THEN "practical_equivalence"
                                                      ELSE "inconclusive"]

C2Result(e, p) ==
    LET decided == Classify(e, p) IN
    [evidence |-> e, unstable |-> Unstable(e.seeds), assessed |-> decided.assessed,
     above |-> decided.above, below |-> decided.below,
     classification |-> decided.classification]

-----------------------------------------------------------------------------

\* What every result checks of itself when it is made and when it is loaded.
EvidenceHolds(e) ==
    LET sum == SumOf([s \in DOMAIN e.seeds |-> e.seeds[s].num]) IN
    /\ \A a \in {e.point, e.interval.lower, e.interval.upper, e.equivalence.lower,
               e.equivalence.upper, e.p} \cup ToSet(e.seeds) : RationalHolds(a)
    /\ ~ Less(e.interval.upper, e.interval.lower)
    /\ ~ Less(e.equivalence.upper, e.equivalence.lower)
    /\ Same(e.point, Q(sum, e.seeds[1].den * Len(e.seeds)))
    /\ e.extremes \in 0..e.repetitions
    /\ Same(e.p, Q(e.extremes + 1, e.repetitions + 1))

\* C1Result.__post_init__.
C1Holds(r) ==
    /\ EvidenceHolds(r.evidence)
    /\ r.unstable = Unstable(r.evidence.seeds)
    /\ ~ Less(r.adjusted, Zero) /\ ~ Less(Q(1, 1), r.adjusted)
    /\ r.success => r.superior

\* C2Result.__post_init__.
C2Holds(r) ==
    /\ EvidenceHolds(r.evidence)
    /\ r.unstable = Unstable(r.evidence.seeds)
    /\ {r.above, r.below} \subseteq (IF r.assessed THEN BOOLEAN ELSE {"null"})
    /\ r.assessed = (r.classification \in {"practical_equivalence", "inconclusive"})
    /\ r.classification = "practical_equivalence" => r.above /\ r.below

\* ConfirmatoryAnalysisReport.__post_init__ and _validate_decisions, which
\* decides once more from the results.
ReportHolds(r, p) ==
    LET adjusted == Holm([h \in 1..2 |-> r.c1[h].evidence.p])
        decided == Classify(r.c2.evidence, p)
    IN  /\ \A h \in 1..2 :
              /\ C1Holds(r.c1[h])
              /\ Same(r.c1[h].adjusted, adjusted[h])
              /\ r.c1[h] = C1Result(r.c1[h].evidence, r.c1[h].adjusted, p)
        /\ C2Holds(r.c2)
        /\ \A key \in DOMAIN decided : r.c2[key] = decided[key]
        /\ SumOf([k \in DOMAIN r.counts |-> r.counts[k].count]) = r.items

\* The report of an analysis from the evidence of its contrasts.
Report(e, p, levels) ==
    LET adjusted == Holm(<<e[1].p, e[2].p>>) IN
    [items |-> Len(levels),
     counts |-> SetToSeq({[level |-> levels[i],
                           count |-> Cardinality({j \in DOMAIN levels : levels[j] = levels[i]})] :
                          i \in DOMAIN levels}),
     c1 |-> [h \in 1..2 |-> C1Result(e[h], adjusted[h], p)],
     c2 |-> C2Result(e[3], p)]

-----------------------------------------------------------------------------

Init ==
    /\ campaign \in Campaigns
    /\ protocol \in {p \in Protocols : ProtocolHolds(p)}
    /\ formal \in BOOLEAN
    /\ panel = Nothing
    /\ phase = "reports"
    /\ contrast = 1
    /\ totals = <<>>
    /\ flips = 0
    /\ extreme = 0
    /\ evidence = <<>>
    /\ report = Nothing

Refuse ==
    /\ phase' = "refused"
    /\ UNCHANGED <<given, panel, contrast, totals, flips, extreme, evidence, report>>

\* build_paired_panel.
BuildPanel ==
    /\ phase = "reports"
    /\ PanelBuilds(campaign)
    /\ panel' = Panel(campaign)
    /\ phase' = "panel"
    /\ UNCHANGED <<given, contrast, totals, flips, extreme, evidence, report>>

RefusePanel ==
    /\ phase = "reports"
    /\ ~ PanelBuilds(campaign)
    /\ Refuse

\* run_confirmatory_analysis accepts the panel with the protocol.
Accepts ==
    /\ protocol.seeds = Seeds
    /\ protocol.stratum = panel.stratum
    /\ formal => protocol = Preregistered

Analyze ==
    /\ phase = "panel"
    /\ Accepts
    /\ phase' = "bootstrap"
    /\ UNCHANGED <<given, panel, contrast, totals, flips, extreme, evidence, report>>

RefuseProtocol ==
    /\ phase = "panel"
    /\ ~ Accepts
    /\ Refuse

Difference == Differences(panel, CONTRASTS[contrast])

\* A batch of stratified_item_bootstrap_totals.
Bootstrap ==
    /\ phase = "bootstrap"
    /\ LET widest == Max({Cardinality(s) : s \in Strata(panel.levels)})
           size == BatchSize(BootstrapBatch, widest, Len(totals), protocol.bootstraps)
       IN  \E batch \in [1..size -> Resampled(Units(Difference), panel.levels)] :
               totals' = totals \o batch
    /\ phase' = IF Len(totals') >= protocol.bootstraps THEN "randomize" ELSE "bootstrap"
    /\ UNCHANGED <<given, panel, contrast, flips, extreme, evidence, report>>

\* Slip: a last batch that is shorter than the others is left out.
RandomizeWholeBatches ==
    /\ phase = "randomize"
    /\ LET units == Units(Difference)
           size == BatchSize(RandomizationBatch, Len(units), flips, protocol.randomizations)
       IN  /\ \E batch \in [1..size -> Signs(units)] :
                  extreme' = extreme + Cardinality({k \in 1..size :
                      IsExtreme(units, batch[k], CONTRASTS[contrast].alternative)})
           /\ flips' = flips + size
           /\ phase' = IF flips' + size > protocol.randomizations THEN "concluded"
                       ELSE "randomize"
    /\ UNCHANGED <<given, panel, contrast, totals, evidence, report>>

\* A batch of paired_sign_flip_randomization.
Randomize ==
    /\ phase = "randomize"
    /\ LET units == Units(Difference)
           size == BatchSize(RandomizationBatch, Len(units), flips, protocol.randomizations)
       IN  /\ \E batch \in [1..size -> Signs(units)] :
                  extreme' = extreme + Cardinality({k \in 1..size :
                      IsExtreme(units, batch[k], CONTRASTS[contrast].alternative)})
           /\ flips' = flips + size
    /\ phase' = IF flips' >= protocol.randomizations THEN "concluded" ELSE "randomize"
    /\ UNCHANGED <<given, panel, contrast, totals, evidence, report>>

\* The contrast's evidence is complete; the next one starts anew.
Conclude ==
    /\ phase = "concluded"
    /\ evidence' = Append(evidence, Evidence(Difference, totals, extreme, protocol))
    /\ phase' = IF contrast = Len(CONTRASTS) THEN "decide" ELSE "bootstrap"
    /\ contrast' = Smaller(contrast + 1, Len(CONTRASTS))
    /\ totals' = <<>>
    /\ flips' = 0
    /\ extreme' = 0
    /\ UNCHANGED <<given, panel, report>>

\* Holm's adjustment and the decisions.
Decide ==
    /\ phase = "decide"
    /\ report' = Report(evidence, protocol, panel.levels)
    /\ phase' = "reported"
    /\ UNCHANGED <<given, panel, contrast, totals, flips, extreme, evidence>>

Next ==
    \/ BuildPanel \/ RefusePanel
    \/ Analyze \/ RefuseProtocol
    \/ Bootstrap \/ Randomize \/ Conclude
    \/ Decide

Spec == Init /\ [][Next]_vars

-----------------------------------------------------------------------------

\* In how many ways the items may be observed and then flipped with k - 1 flips
\* that are as extreme: the items exchangeable, every sign as likely.
Outcomes(units, repetitions) ==
    LET under(signs) == [i \in DOMAIN units |-> signs[i] * units[i]]
        hits == {s \in Signs(units) \X Signs(units) : IsExtreme(under(s[1]), s[2], "greater")}
        extremes(run) == Cardinality({j \in 1..repetitions : <<run[0], run[j]>> \in hits})
        pairs == {<<run, extremes(run)>> : run \in [0..repetitions -> Signs(units)]}
    IN  [k \in 1..(repetitions + 1) |->
            Cardinality({x \in pairs : x[2] = k - 1})]

\* The family-wise error is bounded by alpha, whatever items there are: if the
\* treatment makes no difference in one of the C1 contrasts, or in both, that
\* one of those is found significant happens in no more than that share of all
\* the ways the items may be observed and flipped.  Both contrasts share the
\* scores of A0; the pairs counted take them as independent, which Holm's
\* adjustment does not need.
FamilyErrorIsBounded ==
    phase = "bootstrap" /\ contrast = 1 /\ totals = <<>> =>
        LET repetitions == protocol.randomizations
            units(h) == Units(Differences(panel, CONTRASTS[h]))
            all(w) == SumOf(w)
            first == Outcomes(units(1), repetitions)
            second == Outcomes(units(2), repetitions)
            p(k) == PValue(k - 1, repetitions)
            found(a, b) == [h \in 1..2 |-> Significant(Holm(<<p(a), p(b)>>)[h], protocol)]
            Error(null, a, b) == \E h \in null : found(a, b)[h]
            bounded(errors, total) == ~ Less(PPM(protocol.alpha), Q(errors, total))
            K == 1..(repetitions + 1)
        IN  /\ bounded(MapThenSumSet(LAMBDA k : first[k[1]] * second[k[2]],
                                     {k \in K \X K : Error({1, 2}, k[1], k[2])}),
                       all(first) * all(second))
            /\ \A b \in K :
                  /\ bounded(MapThenSumSet(LAMBDA a : first[a], {a \in K : Error({1}, a, b)}),
                             all(first))
                  /\ bounded(MapThenSumSet(LAMBDA a : second[a], {a \in K : Error({2}, b, a)}),
                             all(second))

\* Naming A4 the treatment and A3 the control would mirror the conclusion: the
\* same draws give the mirrored intervals and count the same flips as extreme,
\* and the classification is the mirrored one, ends, margins and thresholds
\* included.
DecisionsMirror ==
    phase = "concluded" /\ contrast = Len(CONTRASTS) =>
        LET minus(s) == [i \in DOMAIN s |-> -s[i]]
            d == Difference
            there == Evidence(d, totals, extreme, protocol)
            back == Evidence([i \in DOMAIN d |-> minus(d[i])], minus(totals), extreme, protocol)
            one == Classify(there, protocol)
            other == Classify(back, protocol)
            swap == [superior_A3 |-> "superior_A4", superior_A4 |-> "superior_A3"]
            mirrored(a, b) == Same(a.lower, Minus(b.upper)) /\ Same(a.upper, Minus(b.lower))
            counts(units, signs) == IsExtreme(units, signs, CONTRASTS[contrast].alternative)
        IN  /\ \A signs \in Signs(Units(d)) :
                  counts(Units(d), signs) = counts(minus(Units(d)), signs)
            /\ mirrored(there.interval, back.interval)
            /\ mirrored(there.equivalence, back.equivalence)
            /\ one.above = other.below /\ one.below = other.above
            /\ one.assessed = other.assessed
            /\ other.classification =
                  IF one.assessed THEN one.classification ELSE swap[one.classification]

\* Whatever is drawn, in however many batches, no repetition is left out or drawn
\* too often, and the report passes every check that a loaded one must: values in
\* range, the estimate the mean of the seeds', the count within the repetitions,
\* and each decision decided once more.
OwnReportsHold ==
    /\ phase = "concluded" =>
          Len(totals) = protocol.bootstraps /\ flips = protocol.randomizations
    /\ phase = "reported" => ReportHolds(report, protocol)

==============================================================================
