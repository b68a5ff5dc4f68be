# A TLA+ development for llm-post-training-lab

This directory specifies, model-checks and proves parts of the program in `src/`: a
laboratory for post-training language models (SFT, GRPO and OPD under one exact budget
of loss tokens), with the data registry, the sealed evaluator, the exact math verifier
and the paired statistics around it. Line numbers below are of the files named; paths
are relative to `src/posttrain_lab/` unless they start with `docs/`.

## 1. The system

| Component | State it keeps | Operations | Talks to |
|---|---|---|---|
| `train/loss_budget.py` counter | target, consumed tokens, version | reserve, commit, state_dict, from_state_dict | called by the tensor layer and by checkpoints |
| `train/torch_loss_budget.py` masks | none (immutable selections) | mask constructors, zero-variance exclusion, plan, commit | counter; loop |
| `train/rollout.py` | the generator it is given | supervised_batch, sample_completions | model adapter; loop |
| `train/grpo_surrogate.py`, `masked_ce.py`, `opd_reverse_kl.py`, `model_losses.py`, `logits.py` | none | advantages, losses | loop |
| `train/loop.py` Trainer | budget, objective, stage, attempt, generator, optimizer, scheduler, policy version, records, the checkpoint file | start_stage, run_stage, step, save_checkpoint, load_checkpoint | everything above |
| `data/registry.py`, `data/contamination.py` | JSON artifacts on disk | lineage validation, family-disjoint split, scan, quarantine, manifest, atomic write | experiments, evaluation |
| `evaluation/contracts.py`, `runner.py`, `metrics.py` | sealed artifacts | prepare, generate, evaluate | untrusted backends, verifier |
| `rewards/verifier.py` | a cache of parsed references | parse and compare answers | evaluation, reward functions |
| `statistics/contracts.py`, `inference.py` | none | paired estimates, sign-flip, Holm, confirmatory gate | evaluation |
| `data/audit.py`, `evaluation/audit.py`, `statistics/audit.py`, `rewards/audit.py` | provenance: revision and digests | fingerprint, load, recheck, report | Git, the working tree, the components they audit |
| `models/`, `experiments/`, `performance/`, `scripts/` | models, reports | adapters, measurements, self-tests | the loop |

What is hard. Nothing here is multi-threaded; what makes the program hard is *sequence*,
and what other processes do meanwhile. A logical update is a transaction whose steps lie
far apart (sample, plan, several backward passes, optimizer, commit), which can be left
in the middle by a skip, an exception or the death of the process, and which is followed
by anything the caller likes: another attempt, another stage, a checkpoint, a resume.
Around the loop, files are replaced while others read them, a backend answers what it
likes, the working tree is edited during an audit, and derived records arrive after the
split that was to keep them apart. `PROJECT.json` lists these hazards one by one, at the
line where each bites.

What must hold, by component. The *counter*: each planned update is counted at most
once, as planned, and never beyond the target. The *masks*: exactly the remaining number
of positions in one order that planning and commit agree on. The *loop*: parameters,
counter, schedule, policy version, records and sampling position always tell the same
story; a stage is left only when exactly its budget has been trained; a resume continues
exactly from what was saved; run_stage ends. *Rollouts*: the mask is what was sampled,
and the kept log probabilities are those of the batch. *Data*: no family on two sides of
a split, quarantine closed under lineage, and no text on both sides. *Evaluation*: a
published bundle is loaded whole or refused; one outcome per request, scored against its
own answer; exact metrics. *Verifier*: the last thing a response claims decides, and
nothing malformed is right. *Statistics*: the error rate of the family is bounded and
the verdicts do not favour an arm. *Audits*: what is reported was computed from the
revision it names.

## 2. Modules

### Counter

`LossTokenBudget` holds the values and pure operations of `loss_budget.py`: `NewBudget`,
`Reserve`, `Valid` (`_validate_reservation`), `Charge` and `StepRecord` (the two halves
of `commit`). The SHA-256 selection id is the payload it hashes: that distinct payloads
have distinct digests is the only assumption made of it.

`BudgetTransactions` is one counter with everybody who may call it in any order. `held` are
reservations in callers' hands, planned from the present or from older states, possibly
altered by `dataclasses.replace` (`Alter`), or another target's counter's (`PlanElsewhere`);
each may be committed as executed, as skipped, repeatedly, or never. `SaveState` and
`RestoreState` are the state_dict round trip with the ledger saved next to it, as a
checkpoint saves `records`; they happen at any time. `CommitRefused` is the exception, which
changes nothing.

`BudgetRestore` adds a history variable: which ids were ever charged, over all lineages.

### Loop

`MaskSelection` has the tensor operations as set operations: a batched Boolean mask is
the set of its true positions `<<row, token>>`; `CanonicalPrefix` is
`_select_canonical_prefix`, `ActiveRows` the zero-variance exclusion, `ContentDigest`
the canonical-order digest.

`Trainer` is the Trainer object, the process it lives in and its checkpoint file. `pc`
says where the single thread stands; the phases are the places of `step` from which
control can leave it:

| Action | Code (`train/loop.py`) |
|---|---|
| `StartStage` | start_stage 166-195 |
| `RunStage`, `BeginAttempt`, `EndLoop` | run_stage 422-443, and `attempt += 1` of step |
| `Sample` | 205-217 and `supervised_batch` / `sample_completions` |
| `Score` | 219-277: rewards, groups, plan, zero_grad |
| `Microbatch`, `NonfiniteLoss`, `MicrobatchesEnd` | 280-366 and the for-else 367 |
| `NonfiniteGradient`, `OptimizerStep` | 375-392 |
| `Commit` | 393-420 |
| `Raise` | an exception reaching the caller before the optimizer ran |
| `RaiseFatally` | the optimizer raises, or anything does before the commit |
| `Crash` | the process dies; a new one constructs a Trainer |
| `SaveCheckpoint`, `LoadCheckpoint` | 470-509, 511-537 |

The Student's parameters are represented by what was trained into them (`theta`: updates
and loss positions), the gradient by the attempts and positions accumulated in it
(`grad`), the optimizer by its number of steps and the tokens its learning rate
reflects, the generator by its seed and how many rollouts were drawn. Rewards and
completion lengths are chosen nondeterministically, so every mask that sampling and the
zero-variance filter can produce is explored. Callers may start, run, save, load, crash
and carry on after an exception in any order. `base` is a history variable: the tokens
in the parameters when the stage began.

`MCTrainer` gives `Trainer` its small dataset. `TrainingRun` is the abstract
specification of a resumable run: a run that knows its stage, target, tokens done and
updates; training never passes the target; a stage starts only when the one before is
exactly full; death loses everything since the save, and recovery restores exactly what
was saved. `Trainer!ImplementsTrainingRun` is the refinement: an update happens at
`OptimizerStep`, before it is charged, so it is the trained parameters, not the counter,
that are shown to meet the budget.

### Rollouts

`Rollout` is one batch: `Supervise` is `supervised_batch`; `BeginSampling`, one
`SampleStep` for each step of the token loop and `ModelRaises` (the `finally` clause)
are `sample_completions`; `BuildMask` is `torch_completion_loss_mask`, which knows only
ids and attention. A tensor is a function on the positions `<<row, index>>`. At every
step a token is drawn for *every* row, finished ones included, as `torch.multinomial`
does, and written only where the row is active. `logged` is `old_log_probs`: the number
is represented by what it is a probability of, the token and the attended tokens before
it, so that `LikelihoodsReproduce` can say that the forward pass of the loop (through
`selected_token_statistics`) computes the same number from the finished batch. `Trainer`
uses the result as `CompletionMask(lengths)` with any length from one to the cap for
each row, which is what `RowsEndOnce` checks
and `RolloutProofs!MasksAreCompletions` proves.

### Data

`DataRecords` translates the record sets of `data/registry.py`: `RecordSetHolds` is
`validate_record_set`, `LineageHolds` `_validate_lineage` with its external-parent
ledger, and `Forest` the union-find forest of `assign_family_disjoint_splits`, claim by
claim in the order of the code. `Contamination` is `data/contamination.py`: the
fragments of a record (`Fragments`, aggregates of several fields and exempt context
included), the inverted n-gram indices (`Retrieved`), the scores in ppm with Python's
rounding (`Jaccard`, `Containment`) and the classification of a pair. `DataTrust`
composes them as `data/audit.py` does:

| Action | Code |
|---|---|
| `Assign`, `RefuseCandidates` | assign_family_disjoint_splits (`data/registry.py` 1400-1467) |
| `Derive` | callers, who derive children of assigned records |
| `ScanDirty`, `RefuseInputs` | both sides validated and scanned (`data/audit.py` 678-704) |
| `Follow` | one turn of the queue of quarantined_family_ids (`data/contamination.py` 626-655) |
| `Keep`, `RefuseKept` | quarantine_contaminated_families and the clean rescan |
| `FreezeKept`, `RefuseManifest`, `FreezeDirectly` | build_data_manifest, of what the audit kept or of a caller's own records |

### Evaluation

`GenerationContracts` has the frozen objects of `evaluation/contracts.py` and the checks
each makes of the others; `Metrics` the exact pass@k, its rounding and the report with
its loader's checks. `Evaluation` is one run of `evaluation/runner.py` over them: load
the public items, lay out the grid, `Backend` (any responses, in any order),
`MakeBatch`, `LoadVault`, `Evaluate`, each with the action that refuses. `ExactMath` is
`rewards/verifier.py`: a response is a sequence of tokens, `Containers` and `Markers`
are the surfaces an answer can have, `ExtractPrediction` chooses among them,
`ParseExtraction` applies the checks before and after the parser, `Judgement` compares.
The parser and the comparison are the library's (`Reads`, `Equates`). `MCEvaluation`
composes the two: the verdicts with which `Evaluation` scores are `ExactMath`'s
judgements of the same texts.

`BundleStore` is the bundle on disk, with the generator in one process and the evaluator
in another: `WriteTemporary`, `Replace`, `WriteRaises` and `WriterDies` are the places
of `write_generation_bundle` where control can leave it, `ReadManifest`, `ReadRecords`
and `RefuseRecords` those of `load_generation_bundle`. Files are flushed before they are
moved, the directory never is, so `PowerLoss` picks for either name any file it referred
to since the directory was last written back.

### Statistics

`PairedStatistics` follows an analysis from the fifteen evaluation reports to the
confirmatory report: `BuildPanel`, then for each contrast `Bootstrap` and `Randomize`,
one batch each time, and `Conclude`, then `Decide`. What the random generators draw is
arbitrary. `Quantile`, `PValue`, `Holm`, `Classify` and the checks of a loaded report
(`EvidenceHolds`, `C1Holds`, `C2Holds`, `ReportHolds`) are translated with exact
fractions.

### Audits

`AuditProvenance` is what the four audits have in common: HEAD and files are read, one
after the other, while `Edit` and `MoveHead` happen between any two reads. `After` is
the order of the steps of each audit and `Reads` what each step reads; `Fingerprint`,
`Load`, `Recheck`, `ConfirmHead`, `Diff` and `Compare` are the reads and what they are
compared with.

### Proofs

The `*Proofs` modules hold the theorems of section 4; the `MC*` modules and `.cfg` files
the small instances of section 3.

## 3. Runs

| Run | Question | Bounds |
|---|---|---|
| `budget` | does the ledger balance and is each reservation charged once, as planned, under every order of calls? | targets 1 and 3, candidates 1 and 3 (fits, and overshoots), two digests (symmetric), two reservations held at once, three commits per counter |
| `budget_restore` | is an old reservation dead after a restore? **No** | target 2, one candidate, one digest, one reservation held, two commits |
| `trainer` | the safety properties of the loop and the refinement | two examples stored in the opposite of id order, groups of two, microbatches of one row, target 3, two stages, two attempts per stage, every objective |
| `rollout` | is the mask what was sampled, and do the kept log probabilities belong to the finished batch? | three rows with prompts of lengths 1, 2 and 1, one containing EOS; vocabulary of a token, EOS and pad; cap 3; references with EOS inside, at the end and missing |
| `trainer_live` | does run_stage come back? | one stage |
| `data_trust` | does anything connect the sides of a manifest, or what is kept with what was quarantined? | three records sharing families in each dimension in five ways, two children, three ledgers, six evaluation items, two policies; records split by hand, and ill-formed ones |
| `bundle` | is what is loaded one publication, whatever happens to writer and disk? | three batches, two of them with equal records; two exceptions, deaths or power losses |
| `bundle_atomic` | is the pair on disk always a publication? **No** | the same |
| `evaluation` | is every request scored once, against its own answer, by what it claims last, and are the numbers exact? | two items, greedy and three samples each; twelve benchmarks, sound and ill formed; 1300 texts for the verifier |
| `statistics` | is the error of the family bounded, are verdicts symmetric, does a report pass its own checks? | two items in one level or two, two seeds, five arms, three bootstraps and three flips in batches of two |
| `provenance` | is what is reported of the revision named, and does only a change make an audit refuse? | two inputs and a source file in two versions, three commits, four changes |
| `provenance_verifier` | is that true of the verifier's audit? **No** | the same |

Why these bounds are enough. Target 3 against batches of 2 (OPD), 3 (SFT) and 0, 2 or 4
(GRPO) positions makes a stage close exactly, be cut in the middle of a batch and of a group,
and stay open. In `budget`, a second target is what a reservation of another counter needs,
whose ids and token counts may otherwise be those of this one's; two held reservations are
what a race between two plans needs, and three commits what charge, restore, charge again
needs. Two attempts let a failed one precede a successful one, two stages let every pair of
objectives follow each other, and checkpoints of either stage be loaded. Dataset order
differs from id order so that batch order and canonical order disagree. In `rollout`, three
rows of two prompt lengths let a row finish first, in the middle, last and not at all while
the others go on, and three tokens are the least that tell an ordinary token from EOS and
from a sampled pad.

In `data_trust`, three records are what a chain of families needs to join two of them through
the third, in the same or in two dimensions; a first child may keep its parent's family or
have one of its own, and be derived of the parent as it is, as it was before the split, or of
a record kept elsewhere; a second may be derived of the first. Texts match exactly, by
character windows only, only when two messages are joined, within the review margin, or not
at all; a policy with a wide margin makes every near match one to review. In `bundle`, two
faults are what tears a pair and hits its repair; equal records under different manifests are
what a repeated greedy run produces. In `evaluation`, three samples with right and wrong ones
are the least for which pass@2 differs from accuracy and its mean must be rounded; the texts
put every surface inside every other, closed and unclosed, before and after every kind of
claim. In `statistics`, batches of two make the last of three shorter, and a hundred ppm
stand for a million, so that ties with the thresholds happen. `FamilyErrorIsBounded` counts,
for each panel, all observations and flips rather than the ones drawn, and those of the two
contrasts as independent. They are not, since both compare with arm A0; section 4 says why
nothing depends on that. `OwnReportsHold` also says that each contrast is concluded with as
many repetitions as the protocol asks for, which the loader of a report cannot see. In
`provenance`, four changes are an edit and its undoing around each of two reads, or the same
of HEAD; `OnlyChangesRefuse` is about comparisons of provenance, not about the other checks
of an audit (section 5).

Each property has a mutant: a definition marked `Slip` replaced into the module, a
plausible bug that the property detects.

Findings.

- `docs/algorithms/LOSS_TOKEN_BUDGET.md:60` says an old reservation cannot be committed
  again after a checkpoint restore. It can, if the counter is restored to the state it was
  planned from: plan, save, commit (charged), restore, commit again (charged again).
  Within the restored ledger it is counted once, which is what `ChargedOnce` says and what
  the loop needs; the sentence in the document is too strong (`budget_restore`).
- `docs/evaluation/SEALED_EVALUATOR.md:109` says records and manifest are written
  atomically. Each file is; the pair is not: between the two moves the directory holds new
  records under the old manifest, and the old bundle is gone (`bundle_atomic`). The loader
  refuses such a pair (`LoadedIsOnePublication`), and publishing again repairs it
  (`OnlyInterruptionTears`).
- `docs/algorithms/EXACT_MATH_VERIFIER.md:104` says the formal audit requires the corpus of
  this run to be that of the recorded revision. The corpus is loaded first and compared
  later, as the file is by then; edited before and put back between, it is reported under
  a revision that does not hold it (`provenance_verifier`). The other three audits compare
  what they loaded (`ReportIsOfRevision`).

Fairness. `FairSpec` is weak fairness of `Progress`, the thread's own next statement, as
any running process provides; nothing is assumed of callers, of non-finite values, of
exceptions or of crashes. No other module states fairness: an evaluation, an audit or an
analysis is a straight line of steps, and a quarantine follows each record once.
Deadlock is checked in the trainer and bundle runs; `budget` turns it off because a
counter whose bounds are used up has nothing left to do, and `rollout`, `data_trust`,
`evaluation`, `statistics` and `provenance` because a batch that is built, a manifest
that is frozen and a report, or a refusal, are the end.

## 4. Proofs

TLAPS checks the following for *every* value of the constants that meets the assumptions
named in the modules; the runs of section 3 check the same formulas on small instances.

| Theorem | Property | Holds for |
|---|---|---|
| `BudgetTransactionsProofs!LedgerBalances`, `NeverChargedTwice`, `NothingForgedIsCharged`, `StalenessIsExact`, `TypeCorrect` | the properties of `budget` | every set of targets, candidate counts and digests, and every bound |
| `TrainerProofs!PrefixIsExact` | the canonical prefix of n has n positions | every finite candidate mask, every batch with unique keys, every n that fits |
| `TrainerProofs!SelectionIgnoresRowOrder` | reordering a batch's rows changes neither the selected tokens nor the selection id | every mask, unique keys or not, every order and n |
| `TrainerProofs!SelectionIgnoresPadding` | moving each row's positions behind its prompt moves the selection with them | every mask, prompts of any lengths, every n |
| `RolloutProofs!MasksAreExact`, `RatiosStartAtOne`, `RowsAreWhole`, `ModeIsRestored`, `TypeCorrect` | the properties of `rollout` | every vocabulary, batch of nonempty prompts and references, and cap |
| `RolloutProofs!MasksAreCompletions` | the mask of a finished batch is `CompletionMask` of lengths from 1 to the cap, behind the prompts | the same |
| `TrainerProofs!AccountingIsExact`, `PlansAreAccepted`, `CommitsAreAccepted`, `ScheduleIsTheStages`, `GradientsAreExact`, `UpdatesAreOnPolicy`, `RolloutsAreFresh`, `StagesAreExact`, `TypeCorrect` | the safety properties of `trainer` | every dataset, batch, group and microbatch size, set of targets and objectives, and bound |
| `TrainerProofs!Refinement` | `ImplementsTrainingRun` | the same |
| `BundleStoreProofs!LoadsOnePublication`, `CompletionRepairs`, `TemporariesAreRemoved`, `TypeCorrect` | the properties of `bundle` | every set of batches, equal records included, and any number of faults |
| `EvaluationProofs!MetricsExact`, `CombCounts` | `MetricsAreExact`, and that `Comb` counts the subsets of k members | every benchmark, protocol, contract, verifier and behaviour of the backend; every finite set and k |
| `EvaluationProofs!LastClaimIsExtracted` | which answer `ExtractPrediction` takes from a response: what the last claim encloses, whether or not that claim is well formed | every text of any tokens |
| `EvaluationProofs!EarlierTextIsIrrelevant` | text before a place that starts afresh changes neither the extraction nor the decision, if an answer is claimed from there on | every text, every such place, every reference, parser and comparison |
| `EvaluationProofs!LaterTextIsIrrelevant` | text behind a break after which nothing is claimed changes neither, if the last claim before it encloses something in what stands before it | every text, every such break, every reference, parser and comparison |
| `EvaluationProofs!MalformedAnswersFail` | a response whose last claim is malformed or too long, or that is empty or too long itself, is no match | every text, reference, parser and comparison |
| `EvaluationProofs!OneOutcome`, `BatchesLoad`, `ScoresAreOwn`, `InfrastructureBlocks` | `OneOutcomePerRequest`, `PublishedBatchesLoad`, `ScoredAgainstOwnAnswer`, `InfrastructureIsNotScored` | every benchmark, protocol, contract, verifier and behaviour of the backend |
| `DataTrustProofs!QuarantinesAreWhole`, `QuarantineHasNoHeirs` | `QuarantineIsWhole`, `NothingDerivedFromQuarantined` | every set of candidates and derived records, ledger and policy |
| `DataTrustProofs!ManifestsKeepKin` | the first part of `ManifestIsSeparated` | the same, whoever built the manifest |
| `DataTrustProofs!ScansAreComplete`, `RetrievalIsComplete` | `ScanIsComplete`, and what it rests on: retrieval loses no match | every policy, every set of records, every two texts |
| `DataTrustProofs!ManifestsAreSeparated` | `ManifestIsSeparated` | every set of candidates and derived records, ledger and policy |
| `DataTrustProofs!FamiliesStayTogether` | `ComponentsAreWhole` | every set of candidates, whatever their families |
| `DataTrustProofs!ShorteningKeepsRoots` | hanging ids below their roots changes no root | every forest whose parents come no later |
| `PairedStatisticsProofs!ReportsPass`, `VerdictsMirror` | `OwnReportsHold`, `DecisionsMirror` | every campaign, protocol, list of seeds, scale and size of a batch, and every draw |
| `PairedStatisticsProofs!FamilyErrorsBounded` | `FamilyErrorIsBounded` | every panel, protocol, list of seeds and scale, hence every number of items and flips and every alpha |
| `AuditProvenanceProofs!ReportsAreOfRevision`, `RefusalsHaveCauses` | the properties of `provenance` | every set of files, inputs, revisions and audits, and any number of changes |

Assumptions. `DatasetAssumption`, `ConfigAssumption` and `BatchAssumption` are the
checks the code makes of its configuration and examples (distinct sample ids, nonempty
prompts, positive sizes, groups of at least two). `NoneAssumption` says that the value
that stands for Python's None is not a budget, checkpoint or run. `BundleAssumption` and
`ProvenanceAssumption` give the constants their types; `DescriptorAssumption` and
`ArrivalAssumption` say that files are sequences and that a response answers some
request or none. `InputsAssumption` says that a file of records is a finite set of records
that passed `DataRecord.__post_init__`; `CampaignsAssumption` that the public items are a
sequence; `BoundsAssumption` that there are training seeds and that the scale and the sizes
of the batches are positive. TLC evaluates each of them in the runs of its module.

*Counter.* A ledger is sound when it balances, when the id of every executed record
carries the counter state just before it (`IdsAgree`), and when versions never decrease
along it and strictly increase at executed records (`VersionsIncrease`). The invariant
asks this of the running ledger and of the saved one, which a restore makes the running
one. Two executed records then differ in the version their ids carry, hence in their ids.

*Prefix.* `Precedes` is a strict total order on the positions of a batch whose row keys
are unique (`PrecedesIsTotal`, `PrecedesIsStrict`). Then the rank of a position, how many
candidates precede it, is injective (`RankIsInjective`: of two positions the later one is
preceded by all that precede the earlier one, and by the earlier one itself), so ranks are
a bijection from the candidates to `0..Cardinality - 1`, and the positions of rank below n
are n. This is where unique keys matter: with two rows of one key the prefix may be short,
and planning would refuse the batch. The order of two positions depends on their keys and
places alone, so a renaming of the positions that keeps that order renames the prefix
(`PrefixFollowsOrder`). Two renamings matter: rows in another order, with their keys, and
positions counted from the start of the tensors instead of the start of the completion. The
first gives the same selection id, which names rows by their keys; the second is why
`Trainer` can do without prompts.

*Rollout.* `SampledSoFar` describes the tensors after any number of steps: attention is
the prompts and what has been drawn; every drawn token's context is what it was when it
was drawn, since later steps write only after it; everything drawn before it in its row
is attended and not EOS; an unfinished row has a token for every step so far; a finished
row has an EOS. From this, right-padding, the exact mask and the ends of the rows follow
without looking at the loop again (`MaskOfSampled`, `SampledRowsEnd`), and with a row's
length the place of its first EOS or the cap, the mask is what `Trainer` assumes of a rollout
(`MaskEnds`, `MasksAreCompletions`): the two modules fit together.

*Loop.* `IInv` says for each phase what the statements of `step` rely on: the batch is
finite, with unique keys (`BatchInv`; `KeysType` derives it from the round-robin of
`run_stage`, whose window of consecutive indices never meets an index twice); the
selection is the plan of the *present* counter (`SelectionInv`), which is why the commit
after the optimizer cannot be refused; the gradient holds the selected positions of the
rows before the next microbatch (`GradInv`), so that after the last it holds the whole
selection; the optimizer is one step ahead of the counter exactly while an update is
uncharged (`ScheduleInv`, `ExactAccounting`); and whatever a checkpoint holds satisfies
the accounting of a running Trainer (`DiskInv`), which is what a resume needs. There is
one lemma per action, with one step per conjunct.

*Refinement.* Each action maps to one step of `TrainingRun`: `OptimizerStep` to `Train`,
because the selected positions fit the remaining budget; `StartStage`, `Crash`,
`SaveCheckpoint` and `LoadCheckpoint` to their namesakes; everything else, commits
included, to `Work`, which leaves stage, target and parameters alone.

*Bundle.* What a manifest name refers to, or may refer to after a power loss, is a batch
whose manifest was once moved into place (`ManifestsOffered`); since its bytes name the
digest of its records, the comparison in `ReadRecords` makes a loaded pair one publication
although the two reads may straddle anything. `PairInv` says when the pair on disk is
whole: at rest and not cut short.

*Evaluation.* One conjunct for each object that has been built (`PublicInv`, `ReplyInv`,
`BatchInv`, `VaultInv`, `ReportInv`) says which of the others it was checked against.
Requests at different places of the grid differ (`GridPlaces`), so that a batch whose
responses answer each once is a bijection between the two, and the seal's ids, equal as a
set to the items' and not repeated, give each item one reference.

*Metrics.* That a quotient of factorials counts subsets is an induction over the set, by
Pascal's triangle multiplied out so that nothing is divided (`ChoicesAreCounted`); the
choices with a correct sample are all but those of the wrong samples (`PassesCount`). The
sum over the items is a fold that takes an arbitrary item at a time: the number of pairs of
an item and one of its choices satisfies the same equations (`PairsOfMore`), and they have
one solution (`SumsAreUnique`). The places of the grid are the pairs of an item and a
sample (`GridCounts`), and `fraction_to_ppm` is within half a ppm of what it is given
(`PpmIsNearest`). The contract must fit the protocol for this: with k above the number of
samples there would be no choices, and the mean would be of nothing.

*Data.* `Followed` says of the quarantine under way that it holds every match, lies
within what shared families connect with a match, and is closed except at the records
still in the queue; when the queue is empty it is the closure. That nothing kept descends
from it needs no search: the parent's id is not in the ledger, since the first validation
refuses a ledger with the id of a loaded record, so it would have to be a record that was
kept, and ids are unique over both sides. Kin of any degree are on one side because each
link preserves the split and `Reach` is the least closed set. `RetrievalIsComplete` shows
that thresholds are positive even after the margin, and that two texts without a common
n-gram score zero; since joining and filtering texts gives texts, every fragment and
every aggregate of a record is in the indices, so the scan finds every match.

*Union-find.* In the forest of `assign_family_disjoint_splits` a parent never has a larger id
than its child, so the way up from an id ends, and it ends at a root (`RootFacts`). A union
hangs the larger of two roots below the smaller one and joins exactly their two trees
(`UnionFacts`). After all candidates two are under one root if and only if a chain of shared
families connects them (`ForestFacts`): a family's members are each joined with the first
that claimed it. `find` also shortens paths on its way, which the model leaves out because
roots stay what they were (`ShorteningKeepsRoots`).

*Provenance.* `Bound` says for each step of an audit's course which of the three readings
agree: the digests are the recorded revision's as far as they were collected, and what was
loaded is the digests as far as it was compared. For the other direction, `Undisturbed`
says that while nobody has changed anything every reading is the same.

*Statistics.* The invariant bounds what has been drawn by the panel: each resample lies
between minus and plus the number of items times seeds, there are never more resamples or
flips than the protocol asks for although they come in batches, and the evidence of the
contrasts that are finished passes its own checks. A quantile is an interpolation between
two neighbouring order statistics; so it lies in range, grows with its probability, and of
the negated sample it is the opposite of the opposite quantile, because the order
statistics are (a count of the smaller values on one side is a count of the larger ones on
the other). Holm's adjustment stays a probability. The practical effect is positive, so
the two superior classes of C2 exclude one another, and the mirrored evidence falls into
the mirrored case.

*Family-wise error.* Let a run be the signs of what is observed and the n flips upon them.
Taking each flip upon the observed signs (`Composed`) is one-to-one, and the p-value of a run
is then the place of its first member among all n + 1 values, ties counted against it
(`ComposedFacts`). No place of a run is special: exchanging the first member with the i-th is
reversible and carries along whether it is among the m highest, and at most m members of a
run are; counting the pairs of a place and a run twice gives that the first is among the m
highest in at most m of n + 1 runs (`FirstIsSeldomHigh`). This is where the observed value
must count as a flip of its own: with `PValueUncorrected` the places would be counted from 0.
So a p-value below a level happens in no more than that share of the runs (`LowKeysAreFew`).
An adjusted p-value is at least each candidate up to it (`HolmSteps`), the first of which is
twice the smaller p-value; hence a contrast is found only if its own p-value is below alpha
and only if one of both is below half of it (`FoundMeansBelow`), and the two halves add up to
alpha (`LowPairsAreFew`). The sum of the two is a bound however the contrasts depend on each
other, and with one of them true the other's p-value may be any: that both share arm A0 makes
no difference to the argument, although the formula counts pairs of independent runs.

*Extraction.* The scan of `ExactMath` steps from one box, tag or marker to the next and
reports the containers it passes. By strong induction from the end of the text
(`ContainersAreApart`), the containers reported from a position on begin there or later, none
begins inside another, and each token that opens one begins one of them or lies within one. A
marker takes the breaks behind it along, as the trailing `\s*` of its pattern does: its value
stands on the next line that is not empty, whatever that line says, and its surface ends
there. Since it begins outside every container, two surfaces that begin together are the
same, so the terminal surface is unique (`TerminalDecides`), and one that is terminal leaves
no claim after it, not even a claim that never closes: such a claim is a surface too, and the
later one. So a malformed last claim is extracted as malformed, and no earlier one rescues it
(`MalformedAnswersFail`).

What comes before matters only through what it leaves open: code, tags, a container, a
negation. `StartsAfresh` says that it leaves nothing open at a place. Then everything the
extraction asks of a position behind it has the same answer in the text that begins there:
delimiters of code come in pairs before it (`MovedParity`), the next line, tag or brace is as
far away (`NextMoved`, `PastBreaksMoved`, `LineMoved`, `TimesMoved`), the stack of tags is
the one of the shorter text, and the nested tags behind it are its nested tags
(`TagsAfterMoved`, by induction over the tokens). So each box, tag and marker is the same
surface, d places further on. That the *scan* then takes the same containers needs no look at
it: only one set of surfaces of a text is `Apart` (`ApartIsUnique`: of two, the first surface
that only one has opens inside one of the other), and the moved containers are. If a claim is
made behind the place, the terminal surface is there, hence the same in both texts
(`TerminalMoved`).

What comes after a break that no claim follows matters only through what it closes: a box, a
tag or a line that is open there. Code, tags and negations at a position depend on what
stands before it (`CodeBefore`, `NestedBefore`, `NegatedBefore`). A marker that has a value
before the break keeps it, because the line of the value ends there at the latest
(`MarkerBefore`). One without may find a value behind the break; it is not the terminal
surface then, since what is claimed last before the break encloses something and begins later
(`TerminalBefore`). A container is the same surface in both texts if it is `Settled`: it
encloses something, so it was closed before the break, or a token behind its end shows that
it did not run on to the break. Every container is, if the last claim encloses something
(`ContainersSettled`): either it is that claim or that claim lies behind its end. Without
this, which the theorem assumes, it fails: an unclosed box is malformed, and text behind the
break may close it; and a bare marker takes the next line for its value. The containers of
the shorter text are then apart in the longer one, hence its own (`ApartIsUnique` again), and
so is the terminal surface.

Induction over data. No installed prover can apply an induction theorem that takes an
operator. Where a proof needs one, it takes a least counterexample instead: numbers are
well founded (`NatLessThanWellFounded`, `WFMin`), so a set that holds 0 and with each
number the next holds all of them (`Induction`, a lemma about sets). That a recursive
function or a fold is defined at all is proved in the same way, for data that are given as
functions (`Recursion`, `Folding`).

Only model-checked: `RunStageEnds` (liveness and fairness are beyond the prover) and
`LastClaimDecides`, which is about the texts, the parser and the comparison the run
supplies (what `Reads` and `Equates` say of each candidate) and holds of those, not of
every value of the constants; what holds of every text, parser and comparison is
`LastClaimIsExtracted`, `EarlierTextIsIrrelevant`, `LaterTextIsIrrelevant` and
`MalformedAnswersFail`. `OldReservationStaysDead`, `BundleIsAtomic` and
`VerifierReportIsOfRevision` do not hold.

## 5. Assumptions and what is left out

- SHA-256 is collision free (see above).
- Once the optimizer has run or raised, an exception before the commit means the Trainer
  is given up, as `docs/architecture/CPU_TRAINING_LOOP.md:38` demands of callers: after
  `RaiseFatally` only a crash follows. The code does not enforce it.
- The statements of `Commit` after the budget has been charged (scheduler, record) do
  not fail.
- A checkpoint is loaded into a Trainer with the same configuration, topology and
  examples; other files are refused before anything changes.
- `save_checkpoint` is atomic in `Trainer`: `os.replace` is; what a power loss does to a
  checkpoint, which unlike the evaluation files is never fsynced, is left out.
- `start_stage` and `load_checkpoint` are given values they accept; a Trainer that one of
  them left half changed is given up.
- Callers pass a new seed to each stage; `step` is called through `run_stage`.
- Numerical kernels, devices, timings, mixed precision and logging are not modelled: of
  a loss or gradient the loop only sees whether it is finite.

- A backend is handed all requests before it answers; the parser and the comparison of
  the verifier are functions, so its cache of references is transparent.
- In a text of `ExactMath` white space within a line is no token, and a line break is one
  (`"\n"`). `"fence"` is a line of backticks together with the breaks around it; fences of
  tildes, which differ only when they are the answer themselves, emphasis (`**`, `__`)
  around a marker's value and the ideographic full stop behind it are left out.
- The audits' paths are tracked in every revision they may meet.

Not modelled, and why:

- The chunked cross entropy and reverse KL kernels, advantages and the clipped
  objective: floating point, compared with dense references by the repository's tests;
  the loop sees of them whether they are finite.
- `models/`: wrappers around torch modules, which the loop knows through their forward
  pass, parameters and state_dict.
- `experiments/`, `performance/`, `scripts/`: clients that call the above in sequence,
  measurements and command lines.
- Of the verifier: its grammar by character (escapes, delimiters, lists of words), the
  pinned parser, its refusal to run outside the main thread. Of the data registry: JSON
  schemas, Unicode tables, split proportions. Of the audits: comparisons with frozen
  expectations, such as the declared hash of a transform (`data/audit.py:858`), which are
  equalities of digests and may refuse a tree that nobody touched. Of the statistics: the derivation of
  generator streams and `exact_sign_flip_p_value`, an oracle of the tests.

## 6. What could follow

1. The CPU learning experiment as a client of `TrainingRun`, with its five arms.
2. A partly changed Trainer, and a checkpoint lost to a power loss, in `Trainer`.
