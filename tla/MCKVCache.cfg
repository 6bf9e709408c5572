\* Two calls beside the cleanup.
CONSTANTS
    k1 = k1
    k2 = k2
    Callers = {c1, c2}
    Keys = {k1, k2}
    SizeOf <- MCSizeOf
    MaxSize = 1
    MaxAge = 1
    NoEntry = nil
    NoKey = NoKey
SPECIFICATION FairSpec
INVARIANT
    TypeOK
PROPERTIES
    SizeConverges
    GhostsVanish
