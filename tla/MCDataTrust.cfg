CONSTANTS
    Permits <- MCPermits
    Revision <- MCRevision
    Transforms = {"ingest", "rewrite"}
    LexemeOf <- MCLexemeOf
    NoLexeme = "none"
    Candidates <- MCCandidates
    Evaluations <- MCEvaluations
    Ledgers <- MCLedgers
    Policies <- MCPolicies
    Allocated = {"anchor", "dev"}
    Derivable <- MCDerivable
    MaxDerived = 2
SPECIFICATION Spec
INVARIANTS
    ComponentsAreWhole
    ScanIsComplete
    QuarantineIsWhole
    ManifestIsSeparated
    NothingDerivedFromQuarantined
CHECK_DEADLOCK FALSE
