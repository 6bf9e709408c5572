\* README.md:109 says max_batch_size is the largest batch.
CONSTANTS
    mA = mA
    mB = mB
    a1 = a1
    b1 = b1
    Requests = {r1, r2, r3}
    Streams = {s1}
    QueueSize = 2
    MaxBatchSize = 1
    Models = {mA, mB}
    DefaultModel = mA
    DefaultName = dflt
    NoName = none
    Names = {mB, dflt, none}
    Instances = {a1, b1}
    InstModel <- MCInstModel
    InitialPool <- MCInitialPool
    NoInstance = nil
    Unlocked = free
SYMMETRY Symmetry
SPECIFICATION Spec
INVARIANT BatchWithinLimit
