CONSTANTS
    SampleIds <- MCSampleIds
    RefLength <- MCRefLength
    MaxNewTokens = 1
    GroupSize = 2
    BatchSize = 2
    Width = 1
    Objectives = {"sft", "grpo", "opd"}
    Targets = {3}
    AttemptLimits = {2}
    MaxStage = 1
    MaxAttempt = 2
    None = None
SPECIFICATION FairSpec
PROPERTIES
    RunStageEnds
