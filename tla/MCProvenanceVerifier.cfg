CONSTANTS
    Files = {"source", "registry", "cases"}
    Inputs = {"registry", "cases"}
    Early = {"registry"}
    Bytes = {1, 2}
    Revisions <- MCRevisions
    Kinds = {"verifier"}
    Nothing = Nothing
    MaxChanges = 4
SPECIFICATION Spec
INVARIANT VerifierReportIsOfRevision
CHECK_DEADLOCK FALSE
