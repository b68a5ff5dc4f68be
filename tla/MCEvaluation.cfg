SPECIFICATION Spec
CONSTANTS
    a = a
    b = b
    p = p
    q = q
    v1 = v1
    v2 = v2
    eos = eos
    word = word
    sampler = sampler
    exact = exact
    label = label
    elsewhere = elsewhere
    StopTexts <- SmallStops
    NoSeed = NoSeed
    Nothing = Nothing
    Stranger = Stranger
    Policy = Policy
    Checkpoint = Checkpoint
    Descriptors <- SmallDescriptors
    Protocols <- SmallProtocols
    Contracts <- SmallContracts
    Outcomes <- SmallOutcomes
    Arrivals <- SmallArrivals
    Verdict <- SmallVerdict
    Numbers = {"4", "5"}
    Symbols = {"x", "y"}
    Groups = {"(1)", "(x)"}
    Prose = {"so", "but"}
    Connectives = {"but"}
    Units = {"cm"}
    Payloads = {"no"}
    Limits <- SmallLimits
    Reads <- SmallReads
    Equates <- SmallEquates
    Breakdown = Breakdown
    Openings <- SmallOpenings
    Claims <- SmallClaims
    Remarks <- SmallRemarks
INVARIANTS OneOutcomePerRequest
    PublishedBatchesLoad ScoredAgainstOwnAnswer InfrastructureIsNotScored MetricsAreExact LastClaimDecides
CHECK_DEADLOCK FALSE
