\* The linearizability checker on histories of up to three operations.
SPECIFICATION FairSpec
CONSTANTS
    Checks <- AllChecks
    ChunkBits = 2
INVARIANT VerdictIsRight
INVARIANT ListIsIntact
INVARIANT VisualizationIsRight
PROPERTY CheckReturns
CHECK_DEADLOCK FALSE
