\* Blocks of two bytes.
SPECIFICATION BaSpec
CONSTANTS
    BaBase = 2
    BaByte = 4
    BaWide = 2
    BaBits = 8
    BaItems <- SomeItems
    BaJunk = {3}
    BaMaxPos = 5
    BaMaxOps = 2
CHECK_DEADLOCK FALSE
INVARIANT BaSeekSafe
