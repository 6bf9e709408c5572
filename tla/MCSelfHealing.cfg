\* One restart, one request and one stream.
CONSTANTS
    mA = mA
    a0 = a0
    a1 = a1
    Requests = {r1}
    Streams = {s1}
    QueueSize = 1
    MaxBatchSize = 1
    Models = {mA}
    DefaultModel = mA
    DefaultName = dflt
    NoName = dflt
    Names = {dflt}
    Instances = {a0, a1}
    InstModel <- MCInstModel
    InitialPool <- MCInitialPool
    Port <- MCPort
    NoInstance = nil
    Unlocked = free
SPECIFICATION HealingSpec
INVARIANTS
    LeaseUntilRestart
PROPERTIES
    AnsweredUnlessStalled
