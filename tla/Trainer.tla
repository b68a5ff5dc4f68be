------------------------------- MODULE Trainer -------------------------------
(***************************************************************************)
(* The single-process training loop of train/loop.py: stages with an exact *)
(* loss-token budget, run_stage's bounded attempts, one attempt of step in *)
(* its phases with every way it can leave them (zero variance, non-finite  *)
(* loss or gradient, an exception before or after the optimizer ran), and  *)
(* save_checkpoint / load_checkpoint around a process that may die at any  *)
(* point.                                                                  *)
(*                                                                         *)
(* The Student's parameters are represented by what has been trained into  *)
(* them: how many updates and how many loss positions.                     *)
(***************************************************************************)
EXTENDS LossTokenBudget, MaskSelection

CONSTANTS
    SampleIds,     \* the dataset: a sequence of distinct sample ids
    RefLength,     \* SFT completion length (through its first EOS) of an id
    MaxNewTokens,  \* rollout.max_new_tokens
    GroupSize,     \* rollout.group_size
    BatchSize,     \* run_stage's batch_size
    Width,         \* config.microbatch_size
    Objectives,    \* those the Trainer was given a Teacher / reward_fn for
    Targets,       \* the stage budgets callers ask for
    AttemptLimits, \* the max_attempts callers pass to run_stage
    MaxStage,      \* bound: stages started
    MaxAttempt,    \* bound: attempts per stage
    None           \* no budget, batch, selection or checkpoint

ASSUME DatasetAssumption ==
    /\ Len(SampleIds) \in Nat \ {0}
    /\ \A i \in 1..Len(SampleIds) : SampleIds[i] \in Nat
    /\ \A i, j \in 1..Len(SampleIds) : SampleIds[i] = SampleIds[j] => i = j
    /\ \A i \in 1..Len(SampleIds) : RefLength[SampleIds[i]] \in Nat \ {0}
ASSUME ConfigAssumption ==
    /\ MaxNewTokens \in Nat \ {0}
    /\ GroupSize \in Nat \ {0, 1}
    /\ BatchSize \in Nat \ {0}
    /\ Width \in Nat \ {0}
    /\ Objectives \subseteq {"sft", "grpo", "opd"}
    /\ Targets \subseteq Nat \ {0}
    /\ AttemptLimits \subseteq Nat \ {0}
    /\ MaxStage \in Nat /\ MaxAttempt \in Nat

VARIABLES
    pc,            \* where the process stands (see Phases)
    left,          \* attempts run_stage may still make
    outcome,       \* how the last run_stage ended
    theta,         \* the Student's parameters
    policyVersion, \* self.policy_version
    budget,        \* self.budget
    objective,     \* self.objective
    stage,         \* self.stage
    attempt,       \* self.attempt
    generator,     \* self.generator: its seed and the rollouts drawn from it
    optimizer,     \* AdamW steps in its moments, and the tokens its LR reflects
    grad,          \* accumulated gradient: the attempts and positions in it
    batch,         \* the rollout or supervised batch of the attempt
    selection,     \* plan_torch_loss_budget's result
    mb,            \* the next microbatch
    executed,      \* optimizer.step returned
    records,       \* self.records: how many, their tokens, the last rollout drawn
    base,          \* history: tokens in the parameters when the stage started
    disk           \* the checkpoint file

stageVars == <<objective, stage, base>>
stepVars == <<batch, selection, mb, executed>>
vars == <<pc, left, outcome, theta, policyVersion, budget, objective, stage, attempt,
          generator, optimizer, grad, batch, selection, mb, executed, records, base, disk>>

Phases == {"idle", "loop", "sample", "score", "micro", "gradients", "commit", "fatal"}
ObjectiveNames == {"none", "sft", "grpo", "opd"}
Thetas == [updates : Nat, tokens : Nat]
Generators == [seed : Nat, drawn : Nat]
Optimizers == [steps : Nat, lrAt : Nat]
RecordCounts == [count : Nat, tokens : Nat, stage : Nat, drawn : Nat]
Checkpoints ==
    [student : Thetas, optimizer : Optimizers, budget : Budgets,
     objective : ObjectiveNames, stage : 1..MaxStage, attempt : 0..MaxAttempt,
     policyVersion : Nat, generator : Generators, records : RecordCounts, base : Nat]

\* Where a run stands apart from its stage, and the runs of TrainingRun.
Cursors ==
    [attempt : Nat, policyVersion : Nat, generator : Generators,
     optimizer : Optimizers, records : RecordCounts]
Runs == [stage : Nat, target : Nat, done : Int, updates : Nat, cursor : Cursors]

ASSUME NoneAssumption == None \notin Budgets /\ None \notin Checkpoints /\ None \notin Runs

FreshTheta == [updates |-> 0, tokens |-> 0]
FreshOptimizer == [steps |-> 0, lrAt |-> 0]
SeededGenerator(seed) == [seed |-> seed, drawn |-> 0]
NoGrad == [attempts |-> {}, positions |-> {}]
NoRecords == [count |-> 0, tokens |-> 0, stage |-> 0, drawn |-> 0]

\* Trainer.__init__ of a process that has just started.
Init ==
    /\ pc = "idle"
    /\ left = 0
    /\ outcome = "none"
    /\ theta = FreshTheta
    /\ policyVersion = 0
    /\ budget = None
    /\ objective = "none"
    /\ stage = 0
    /\ attempt = 0
    /\ generator = SeededGenerator(0)
    /\ optimizer = FreshOptimizer
    /\ grad = NoGrad
    /\ batch = None
    /\ selection = None
    /\ mb = 0
    /\ executed = FALSE
    /\ records = NoRecords
    /\ base = 0
    /\ disk = None

-----------------------------------------------------------------------------
(* Stages and run_stage.                                                   *)

\* Slip: the stage is switched without looking at its budget.
StartStageEarly(o, target) ==
    /\ pc = "idle"
    /\ stage < MaxStage
    /\ budget' = NewBudget(target)
    /\ objective' = o
    /\ stage' = stage + 1
    /\ attempt' = 0
    /\ generator' = SeededGenerator(stage')
    /\ grad' = NoGrad
    /\ optimizer' = FreshOptimizer
    /\ base' = theta.tokens
    /\ outcome' = "none"
    /\ UNCHANGED <<pc, left, theta, policyVersion, stepVars, records, disk>>

\* Slip: the AdamW moments and the scheduler survive the stage switch.
StartStageKeepingOptimizer(o, target) ==
    /\ pc = "idle"
    /\ budget # None => Complete(budget)
    /\ stage < MaxStage
    /\ budget' = NewBudget(target)
    /\ objective' = o
    /\ stage' = stage + 1
    /\ attempt' = 0
    /\ generator' = SeededGenerator(stage')
    /\ grad' = NoGrad
    /\ base' = theta.tokens
    /\ outcome' = "none"
    /\ UNCHANGED <<pc, left, theta, policyVersion, optimizer, stepVars, records, disk>>

\* start_stage; the caller's seed differs from stage to stage.
StartStage(o, target) ==
    /\ pc = "idle"
    /\ budget # None => Complete(budget)
    /\ stage < MaxStage
    /\ budget' = NewBudget(target)
    /\ objective' = o
    /\ stage' = stage + 1
    /\ attempt' = 0
    /\ generator' = SeededGenerator(stage')
    /\ grad' = NoGrad
    /\ optimizer' = FreshOptimizer
    /\ base' = theta.tokens
    /\ outcome' = "none"
    /\ UNCHANGED <<pc, left, theta, policyVersion, stepVars, records, disk>>

RunStage(limit) ==
    /\ pc = "idle"
    /\ budget # None
    /\ attempt + limit <= MaxAttempt
    /\ pc' = "loop"
    /\ left' = limit
    /\ UNCHANGED <<outcome, theta, policyVersion, budget, stageVars, attempt, generator,
                   optimizer, grad, stepVars, records, disk>>

\* Slip: only recorded attempts count against run_stage's limit.
BeginAttemptUncounted ==
    /\ pc = "loop"
    /\ left > 0 /\ ~ Complete(budget)
    /\ pc' = "sample"
    /\ attempt' = attempt + 1
    /\ UNCHANGED <<left, outcome, theta, policyVersion, budget, stageVars, generator,
                   optimizer, grad, stepVars, records, disk>>

\* The loop's next iteration enters step, which counts the attempt first.
BeginAttempt ==
    /\ pc = "loop"
    /\ left > 0 /\ ~ Complete(budget)
    /\ pc' = "sample"
    /\ left' = left - 1
    /\ attempt' = attempt + 1
    /\ UNCHANGED <<outcome, theta, policyVersion, budget, stageVars, generator,
                   optimizer, grad, stepVars, records, disk>>

\* The loop ends; an open budget raises StageBudgetIncomplete.
EndLoop ==
    /\ pc = "loop"
    /\ left = 0 \/ Complete(budget)
    /\ pc' = "idle"
    /\ left' = 0
    /\ outcome' = IF Complete(budget) THEN "closed" ELSE "incomplete"
    /\ UNCHANGED <<theta, policyVersion, budget, stageVars, attempt, generator,
                   optimizer, grad, stepVars, records, disk>>

-----------------------------------------------------------------------------
(* One attempt.                                                            *)

Examples == LET n == Len(SampleIds)
                size == Lesser(BatchSize, n)
                offset == (attempt - 1) * size
            IN  [i \in 1..size |-> SampleIds[((offset + i - 1) % n) + 1]]

Generations == IF objective = "grpo" THEN GroupSize ELSE 1

RowCount == Len(Examples) * Generations

Keys == [r \in 1..RowCount |->
            <<Examples[((r - 1) \div Generations) + 1], (r - 1) % Generations>>]

\* The completion lengths a batch can have: the reference's for SFT, otherwise
\* one to the cap for each row.
Lengths ==
    IF objective = "sft"
    THEN {[r \in 1..RowCount |-> RefLength[Keys[r][1]]]}
    ELSE [1..RowCount -> 1..MaxNewTokens]

AfterDraw == IF objective = "sft" THEN generator
             ELSE [seed |-> generator.seed, drawn |-> generator.drawn + 1]

\* supervised_batch or sample_completions.
Sample ==
    /\ pc = "sample"
    /\ \E lengths \in Lengths :
          batch' = [keys |-> Keys,
                    mask |-> CompletionMask(lengths),
                    version |-> IF objective = "sft" THEN -1 ELSE policyVersion,
                    updates |-> theta.updates,
                    drawn |-> generator.drawn]
    /\ generator' = AfterDraw
    /\ pc' = "score"
    /\ UNCHANGED <<left, outcome, theta, policyVersion, budget, stageVars, attempt,
                   optimizer, grad, selection, mb, executed, records, disk>>

\* The masks GRPO can be left with once zero-variance groups are excluded.
Candidates ==
    IF objective = "grpo"
    THEN {OfRows(batch.mask, ActiveRows([r \in DOMAIN batch.keys |-> batch.keys[r][1]], rewards)) :
              rewards \in [DOMAIN batch.keys -> {0, 1}]}
    ELSE {batch.mask}

\* Slip: the budget cuts the batch in its own row order.
PlanInBatchOrder(candidate) ==
    LET n == Lesser(Cardinality(candidate), Remaining(budget))
        mask == BatchOrderPrefix(candidate, batch.keys, n)
    IN  [candidate |-> candidate, mask |-> mask,
         reservation |-> Reserve(budget, Cardinality(candidate),
                                 ContentDigest(candidate, mask, batch.keys))]

\* plan_torch_loss_budget: the canonical prefix and the reservation made for it.
PlanSelection(candidate) ==
    LET n == Lesser(Cardinality(candidate), Remaining(budget))
        mask == CanonicalPrefix(candidate, batch.keys, n)
    IN  [candidate |-> candidate, mask |-> mask,
         reservation |-> Reserve(budget, Cardinality(candidate),
                                 ContentDigest(candidate, mask, batch.keys))]

\* Slip: gradients are only cleared after a failed attempt.
ScoreKeepingGrad ==
    /\ pc = "score"
    /\ \E candidate \in Candidates :
          LET plan == PlanSelection(candidate) IN
              /\ Cardinality(plan.mask) = plan.reservation.selected
              /\ selection' = plan
              /\ pc' = IF plan.reservation.selected > 0 THEN "micro" ELSE "commit"
    /\ mb' = 1
    /\ executed' = FALSE
    /\ UNCHANGED <<left, outcome, theta, policyVersion, budget, stageVars, attempt,
                   generator, optimizer, grad, batch, records, disk>>

\* Rewards, advantages, the plan, and zero_grad before the microbatches.
Score ==
    /\ pc = "score"
    /\ \E candidate \in Candidates :
          LET plan == PlanSelection(candidate) IN
              /\ Cardinality(plan.mask) = plan.reservation.selected
              /\ selection' = plan
              /\ pc' = IF plan.reservation.selected > 0 THEN "micro" ELSE "commit"
    /\ grad' = NoGrad
    /\ mb' = 1
    /\ executed' = FALSE
    /\ UNCHANGED <<left, outcome, theta, policyVersion, budget, stageVars, attempt,
                   generator, optimizer, batch, records, disk>>

\* Slip: the loss covers the candidates the budget cut off.
UntrimmedMask(k) == OfRows(selection.candidate, Slice(k, Width, Len(batch.keys)))

MicrobatchMask(k) == OfRows(selection.mask, Slice(k, Width, Len(batch.keys)))

MicrobatchesDone == (mb - 1) * Width >= Len(batch.keys)

\* Slip: a microbatch with nothing selected is tried again.
MicrobatchStuck ==
    /\ pc = "micro"
    /\ ~ MicrobatchesDone
    /\ grad' = [attempts  |-> grad.attempts \cup {<<stage, attempt>>},
                positions |-> grad.positions \cup MicrobatchMask(mb)]
    /\ mb' = IF MicrobatchMask(mb) = {} THEN mb ELSE mb + 1
    /\ UNCHANGED <<pc, left, outcome, theta, policyVersion, budget, stageVars, attempt,
                   generator, optimizer, batch, selection, executed, records, disk>>

\* Forward, loss and backward of one microbatch; one with nothing selected is
\* passed over.  GRPO refuses a batch of another policy version.
Microbatch ==
    /\ pc = "micro"
    /\ ~ MicrobatchesDone
    /\ MicrobatchMask(mb) # {} /\ objective = "grpo" => batch.version = policyVersion
    /\ grad' = IF MicrobatchMask(mb) = {} THEN grad
               ELSE [attempts  |-> grad.attempts \cup {<<stage, attempt>>},
                     positions |-> grad.positions \cup MicrobatchMask(mb)]
    /\ mb' = mb + 1
    /\ UNCHANGED <<pc, left, outcome, theta, policyVersion, budget, stageVars, attempt,
                   generator, optimizer, batch, selection, executed, records, disk>>

\* A FloatingPointError or a non-finite loss: break, whatever was accumulated.
NonfiniteLoss ==
    /\ pc = "micro"
    /\ ~ MicrobatchesDone
    /\ MicrobatchMask(mb) # {}
    /\ pc' = "commit"
    /\ UNCHANGED <<left, outcome, theta, policyVersion, budget, stageVars, attempt,
                   generator, optimizer, grad, stepVars, records, disk>>

\* for ... else: every microbatch contributed.
MicrobatchesEnd ==
    /\ pc = "micro"
    /\ MicrobatchesDone
    /\ pc' = "gradients"
    /\ UNCHANGED <<left, outcome, theta, policyVersion, budget, stageVars, attempt,
                   generator, optimizer, grad, stepVars, records, disk>>

NonfiniteGradient ==
    /\ pc = "gradients"
    /\ pc' = "commit"
    /\ UNCHANGED <<left, outcome, theta, policyVersion, budget, stageVars, attempt,
                   generator, optimizer, grad, stepVars, records, disk>>

\* Slip: the rollout is used for another epoch of the microbatches.
OptimizerStepAgain ==
    /\ pc = "gradients"
    /\ theta' = [updates |-> theta.updates + 1,
                 tokens  |-> theta.tokens + Cardinality(grad.positions)]
    /\ optimizer' = [steps |-> optimizer.steps + 1, lrAt |-> optimizer.lrAt]
    /\ policyVersion' = policyVersion + 1
    /\ mb' = 1
    /\ pc' = "micro"
    /\ UNCHANGED <<left, outcome, budget, stageVars, attempt, generator, grad, batch,
                   selection, executed, records, disk>>

OptimizerStep ==
    /\ pc = "gradients"
    /\ theta' = [updates |-> theta.updates + 1,
                 tokens  |-> theta.tokens + Cardinality(grad.positions)]
    /\ optimizer' = [steps |-> optimizer.steps + 1, lrAt |-> optimizer.lrAt]
    /\ policyVersion' = policyVersion + 1
    /\ executed' = TRUE
    /\ pc' = "commit"
    /\ UNCHANGED <<left, outcome, budget, stageVars, attempt, generator, grad, batch,
                   selection, mb, records, disk>>

\* commit_torch_loss_budget and LossTokenBudget.commit accept the selection.
Acceptable ==
    LET r == selection.reservation IN
        /\ selection.mask = CanonicalPrefix(selection.candidate, batch.keys, r.selected)
        /\ r.digest = ContentDigest(selection.candidate, selection.mask, batch.keys)
        /\ Valid(budget, r)
        /\ executed => r.selected > 0

\* Slip: a skipped attempt is charged like an executed one.
CommitAlways ==
    /\ pc = "commit"
    /\ Acceptable
    /\ budget' = Charge(budget, selection.reservation)
    /\ optimizer' = [steps |-> optimizer.steps, lrAt |-> budget'.consumed]
    /\ grad' = NoGrad
    /\ records' = [count  |-> records.count + 1,
                   tokens |-> records.tokens + selection.reservation.selected,
                   stage  |-> stage,
                   drawn  |-> generator.drawn]
    /\ pc' = "loop"
    /\ batch' = None /\ selection' = None /\ mb' = 0 /\ executed' = FALSE
    /\ UNCHANGED <<left, outcome, theta, policyVersion, stageVars, attempt, generator, disk>>

\* commit_torch_loss_budget, then the scheduler or zero_grad, then the record.
Commit ==
    /\ pc = "commit"
    /\ Acceptable
    /\ budget' = IF executed THEN Charge(budget, selection.reservation) ELSE budget
    /\ optimizer' = IF executed THEN [steps |-> optimizer.steps, lrAt |-> budget'.consumed]
                                ELSE optimizer
    /\ grad' = IF executed THEN grad ELSE NoGrad
    /\ records' = [count  |-> records.count + 1,
                   tokens |-> records.tokens
                                + IF executed THEN selection.reservation.selected ELSE 0,
                   stage  |-> stage,
                   drawn  |-> generator.drawn]
    /\ pc' = "loop"
    /\ batch' = None /\ selection' = None /\ mb' = 0 /\ executed' = FALSE
    /\ UNCHANGED <<left, outcome, theta, policyVersion, stageVars, attempt, generator, disk>>

-----------------------------------------------------------------------------
(* Exceptions, crashes and checkpoints.                                    *)

\* An exception that reaches the caller before the optimizer has run: out of
\* memory, a reward_fn or Teacher that raises, a schema error, an interrupt.
\* Sampling may have consumed random numbers by then.
Raise ==
    /\ pc \in {"sample", "score", "micro", "gradients", "commit"}
    /\ ~ executed
    /\ pc' = "idle"
    /\ left' = 0
    /\ outcome' = "raised"
    /\ generator' \in IF pc = "sample" THEN {generator, AfterDraw} ELSE {generator}
    /\ batch' = None /\ selection' = None /\ mb' = 0
    /\ UNCHANGED <<theta, policyVersion, budget, stageVars, attempt, optimizer, grad,
                   executed, records, disk>>

\* The optimizer raises, or anything does between it and the commit: the
\* Trainer is given up (docs/architecture/CPU_TRAINING_LOOP.md:38).
RaiseFatally ==
    /\ pc = "gradients" \/ (pc = "commit" /\ executed)
    /\ pc' = "fatal"
    /\ outcome' = "raised"
    /\ UNCHANGED <<left, theta, policyVersion, budget, stageVars, attempt, generator,
                   optimizer, grad, stepVars, records, disk>>

\* The process dies; another one constructs a Trainer.
Crash ==
    /\ budget # None
    /\ pc' = "idle"
    /\ left' = 0
    /\ outcome' = "none"
    /\ theta' = FreshTheta
    /\ policyVersion' = 0
    /\ budget' = None
    /\ objective' = "none"
    /\ stage' = 0
    /\ attempt' = 0
    /\ generator' = SeededGenerator(0)
    /\ optimizer' = FreshOptimizer
    /\ grad' = NoGrad
    /\ batch' = None
    /\ selection' = None
    /\ mb' = 0
    /\ executed' = FALSE
    /\ records' = NoRecords
    /\ base' = 0
    /\ UNCHANGED disk

SaveCheckpoint ==
    /\ pc = "idle"
    /\ budget # None
    /\ disk' = [student |-> theta, optimizer |-> optimizer, budget |-> budget,
                objective |-> objective, stage |-> stage, attempt |-> attempt,
                policyVersion |-> policyVersion, generator |-> generator,
                records |-> records, base |-> base]
    /\ UNCHANGED <<pc, left, outcome, theta, policyVersion, budget, stageVars, attempt,
                   generator, optimizer, grad, stepVars, records>>

\* Slip: the generator start_stage(seed=0) made is kept.
LoadReseeding ==
    /\ pc = "idle"
    /\ budget = None
    /\ disk # None
    /\ disk.objective \in Objectives
    /\ theta' = disk.student
    /\ budget' = disk.budget
    /\ optimizer' = disk.optimizer
    /\ objective' = disk.objective
    /\ stage' = disk.stage
    /\ attempt' = disk.attempt
    /\ policyVersion' = disk.policyVersion
    /\ generator' = SeededGenerator(0)
    /\ records' = disk.records
    /\ base' = disk.base
    /\ grad' = NoGrad
    /\ UNCHANGED <<pc, left, outcome, stepVars, disk>>

\* load_checkpoint: start_stage(objective, target, seed=0), then every field
\* of the file over what that set up.
LoadCheckpoint ==
    /\ pc = "idle"
    /\ budget = None
    /\ disk # None
    /\ disk.objective \in Objectives
    /\ theta' = disk.student
    /\ budget' = disk.budget
    /\ optimizer' = disk.optimizer
    /\ objective' = disk.objective
    /\ stage' = disk.stage
    /\ attempt' = disk.attempt
    /\ policyVersion' = disk.policyVersion
    /\ generator' = disk.generator
    /\ records' = disk.records
    /\ base' = disk.base
    /\ grad' = NoGrad
    /\ UNCHANGED <<pc, left, outcome, stepVars, disk>>

Next ==
    \/ \E o \in Objectives, t \in Targets : StartStage(o, t)
    \/ \E n \in AttemptLimits : RunStage(n)
    \/ BeginAttempt \/ EndLoop
    \/ Sample \/ Score \/ Microbatch \/ NonfiniteLoss \/ MicrobatchesEnd
    \/ NonfiniteGradient \/ OptimizerStep \/ Commit
    \/ Raise \/ RaiseFatally \/ Crash
    \/ SaveCheckpoint \/ LoadCheckpoint

Spec == Init /\ [][Next]_vars

\* The process keeps executing its own code: every phase goes on to its next
\* statement.  Nothing is assumed of callers, failures or crashes.
Progress ==
    \/ BeginAttempt \/ EndLoop
    \/ Sample \/ Score \/ Microbatch \/ MicrobatchesEnd \/ OptimizerStep \/ Commit

FairSpec == Spec /\ WF_vars(Progress)

-----------------------------------------------------------------------------
\* The state of a Trainer and of its file are well formed; in particular the
\* attempts of a stage stay within what its run_stage calls allowed.
TypeOK ==
    /\ pc \in Phases
    /\ left \in Nat
    /\ outcome \in {"none", "closed", "incomplete", "raised"}
    /\ theta \in Thetas
    /\ policyVersion \in Nat
    /\ budget = None \/ budget \in Budgets
    /\ objective \in ObjectiveNames
    /\ stage \in 0..MaxStage
    /\ attempt \in Nat /\ attempt + left <= MaxAttempt
    /\ generator \in Generators
    /\ optimizer \in Optimizers
    /\ mb \in Nat
    /\ executed \in BOOLEAN
    /\ records \in RecordCounts
    /\ base \in Nat
    /\ disk = None \/ disk \in Checkpoints

\* What has been trained in the current stage.
Trained == theta.tokens - base

\* The selection between optimizer.step and its commit is not charged yet.
Uncharged == IF pc \in {"commit", "fatal"} /\ executed THEN selection.reservation.selected ELSE 0

\* Exact accounting (step, commit, load_checkpoint): the positions trained into
\* the parameters, the counter, the records and the policy version tell the
\* same story at every moment, apart from the one update being committed.
ExactAccounting ==
    /\ policyVersion = theta.updates
    /\ records.tokens + Uncharged = theta.tokens
    /\ budget # None => Trained = budget.consumed + Uncharged

\* plan_torch_loss_budget never refuses what was sampled: the canonical prefix
\* has as many positions as the counter reserves, whatever the rewards leave.
PlanAccepted ==
    pc = "score" =>
        \A candidate \in Candidates :
            LET plan == PlanSelection(candidate)
            IN  Cardinality(plan.mask) = plan.reservation.selected

\* Whatever the phases of an attempt did, the commit at its end is accepted: no
\* update the optimizer has executed is refused by the counter.
CommitAccepted == pc = "commit" => Acceptable

\* The learning rate and the AdamW moments are those of this stage and of
\* exactly its committed tokens (start_stage, scheduler.step, load_checkpoint).
ScheduleFollowsBudget ==
    budget # None /\ ~ executed =>
        /\ optimizer.lrAt = budget.consumed
        /\ optimizer.steps = budget.version

\* The gradient an optimizer step applies is the sum over exactly the selected
\* positions of its own attempt: no microbatch is missing, and nothing is left
\* over from an attempt that was skipped, raised or succeeded before it.
GradientIsThisAttempts ==
    pc = "gradients" =>
        /\ grad.attempts = {<<stage, attempt>>}
        /\ grad.positions = selection.mask
        /\ Cardinality(grad.positions) = selection.reservation.selected

\* An update learns from rollouts of the very parameters it updates.
OnPolicy ==
    pc \in {"score", "micro", "gradients"} /\ objective # "sft" =>
        /\ batch.updates = theta.updates
        /\ batch.version = policyVersion

\* No recorded rollout is drawn again, in particular not after a resume: the
\* sampling position only moves forward through the stage's own seed.
FreshRollouts ==
    /\ budget # None => generator.seed = stage
    /\ batch # None /\ records.stage = stage => batch.drawn >= records.drawn

\* start_stage switches stages only when the parameters have been trained on
\* exactly the target of the stage that ends.
StagesCloseExactly ==
    [][stage' > stage /\ budget # None => Trained = budget.target]_vars

\* run_stage returns or raises: it never samples for ever (its attempts are
\* bounded, and every attempt ends).
RunStageEnds == pc = "loop" ~> pc \in {"idle", "fatal"}

-----------------------------------------------------------------------------
(* The loop implements TrainingRun: an update happens when the optimizer   *)
(* runs, before it is charged.                                             *)
CursorOf(a, p, g, o, r) ==
    [attempt |-> a, policyVersion |-> p, generator |-> g, optimizer |-> o, records |-> r]

Run == [stage   |-> stage,
        target  |-> IF budget = None THEN 0 ELSE budget.target,
        done    |-> Trained,
        updates |-> theta.updates,
        cursor  |-> CursorOf(attempt, policyVersion, generator, optimizer, records)]

SavedRun ==
    IF disk = None THEN None
    ELSE [stage   |-> disk.stage,
          target  |-> disk.budget.target,
          done    |-> disk.student.tokens - disk.base,
          updates |-> disk.student.updates,
          cursor  |-> CursorOf(disk.attempt, disk.policyVersion, disk.generator,
                               disk.optimizer, disk.records)]

Abstract == INSTANCE TrainingRun WITH run <- Run, saved <- SavedRun, NoRun <- None

\* Stages are exact and resumes are exact: docs/architecture/
\* ACCELERATOR_RUNTIME.md:19 and LOSS_TOKEN_BUDGET.md:17 of the parameters.
ImplementsTrainingRun == Abstract!Spec

=============================================================================
