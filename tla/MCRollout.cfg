CONSTANTS
    Tokens = {"a", "eos", "pad"}
    Eos = "eos"
    Pad = "pad"
    Prompts <- MCPrompts
    References <- MCReferences
    MaxNewTokens = 3
SPECIFICATION Spec
INVARIANTS
    TypeOK MaskIsWhatWasSampled LikelihoodsReproduce RowsEndOnce ModeRestored
CHECK_DEADLOCK FALSE
