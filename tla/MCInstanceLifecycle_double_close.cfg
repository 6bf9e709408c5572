\* FIXES_SUMMARY.md:305: channels are no longer closed twice.
CONSTANTS
    p1 = p1
    p2 = p2
    p3 = p3
    Slots = {p3}
    Fleets <- MCOneSlot
    MaxRestarts <- MCTwice
    MaxPending = 2
SPECIFICATION Spec
INVARIANT
    NoDoubleClose
