CONSTANTS
    Files = {"source", "registry", "cases"}
    Inputs = {"registry", "cases"}
    Early = {"registry"}
    Bytes = {1, 2}
    Revisions <- MCRevisions
    Kinds = {"data", "evaluation", "statistics", "verifier"}
    Nothing = Nothing
    MaxChanges = 4
SPECIFICATION Spec
INVARIANTS
    ReportIsOfRevision
    OnlyChangesRefuse
CHECK_DEADLOCK FALSE
