\* Liveness: two requests and one stream, without symmetry.
CONSTANTS
    mA = mA
    mB = mB
    a1 = a1
    b1 = b1
    Requests = {r1, r2}
    Streams = {s1}
    QueueSize = 2
    MaxBatchSize = 2
    Models = {mA, mB}
    DefaultModel = mA
    DefaultName = dflt
    NoName = none
    Names = {mB, dflt, none}
    Instances = {a1, b1}
    InstModel <- MCInstModel
    InitialPool <- MCInitialPool
    NoInstance = nil
    Unlocked = free
SPECIFICATION FairSpec
PROPERTIES
    AcceptedIsAnswered
    InstanceComesBack
    StopCompletes
