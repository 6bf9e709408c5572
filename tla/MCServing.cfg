\* Safety, action property and refinement.
CONSTANTS
    mA = mA
    mB = mB
    a1 = a1
    b1 = b1
    Requests = {r1, r2, r3}
    Streams = {s1}
    QueueSize = 2
    MaxBatchSize = 2
    Models = {mA, mB}
    DefaultModel = mA
    DefaultName = dflt
    NoName = none
    Names = {mB, dflt, none}
    Instances = {a1, b1}
    InstModel <- MCInstModel
    InitialPool <- MCInitialPool
    NoInstance = nil
    Unlocked = free
SYMMETRY Symmetry
SPECIFICATION Spec
INVARIANTS
    TypeOK
    SendNeverBlocks
    OnePlace
    ExclusiveLease
    MutexInsideLease
    LeasedFromRightPool
PROPERTIES
    NothingAcceptedIsLost
    ImplementsService
