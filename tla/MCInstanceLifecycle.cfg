\* Instances that start, die, are started again and are stopped, one model or two.
CONSTANTS
    p1 = p1
    p2 = p2
    p3 = p3
    Slots = {p1, p2, p3}
    Fleets <- MCFleets
    MaxRestarts <- MCRestarts
    MaxPending = 1
SPECIFICATION FairSpec
INVARIANTS
    EachInItsPool
    OneProcessPerPort
    FirstMembersReady
    CleanFailedStart
PROPERTIES
    ImplementsSupervision
    DeathIsNoticed
    StartCompletes
    StopCompletes
