SPECIFICATION ConsumerFairSpec
CONSTANTS
    Packets = 2
    BufSize = 1
    Starters = {s1, s2}
    Closers = {c1, c2}
CHECK_DEADLOCK FALSE
INVARIANTS HandlesAll NothingLost
PROPERTIES ImplementsLossy NeverBlocks RequestReturns
