CONSTANTS
    SampleIds <- MCSampleIds
    RefLength <- MCRefLength
    MaxNewTokens = 1
    GroupSize = 2
    BatchSize = 2
    Width = 1
    Objectives = {"sft", "grpo", "opd"}
    Targets = {3}
    AttemptLimits = {1, 2}
    MaxStage = 2
    MaxAttempt = 2
    None = None
SPECIFICATION Spec
INVARIANTS
    TypeOK ExactAccounting PlanAccepted CommitAccepted ScheduleFollowsBudget
    GradientIsThisAttempts OnPolicy FreshRollouts
PROPERTIES
    StagesCloseExactly ImplementsTrainingRun
