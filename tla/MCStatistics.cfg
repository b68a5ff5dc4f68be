CONSTANTS
    Campaigns <- MCCampaigns
    Protocols <- MCProtocols
    Preregistered <- MCPreregistered
    Seeds <- MCSeeds
    Scale = 100
    BootstrapBatch = 2
    RandomizationBatch = 2
    MaxCells = 8
SPECIFICATION Spec
INVARIANTS
    FamilyErrorIsBounded
    DecisionsMirror
    OwnReportsHold
CHECK_DEADLOCK FALSE
