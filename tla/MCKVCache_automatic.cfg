\* README.md:12 says that prompts are cached automatically.
CONSTANTS
    k1 = k1
    k2 = k2
    Callers = {c1, c2}
    Keys = {k1, k2}
    SizeOf <- MCSizeOf
    MaxSize = 1
    MaxAge = 1
    NoEntry = nil
    NoKey = NoKey
SPECIFICATION Spec
PROPERTY
    AnsweredIsCached
