\* Batches of two requests of five clients.
CONSTANTS
    c1 = c1
    c2 = c2
    c3 = c3
    c4 = c4
    c5 = c5
    Clients = {c1, c2, c3, c4, c5}
    Phase <- MCPhase
    Priority <- MCPriority
    MaxBatchSize = 2
SPECIFICATION FairSpec
INVARIANTS
    KeptInOrder
PROPERTIES
    NoneOvertaken
    HandedOut
