SPECIFICATION Spec
CONSTANTS
    p1 = p1
    p2 = p2
    u1 = u1
    u2 = u2
    Producers = {p1}
    Configured <- One
    Consumers = {u1, u2}
    Conns = {c1, c2}
    NoConn = NoConn
    Codecs = {k1}
    Back = Back
    OfferSets <- MCOffers
    Wants <- MCWants
    Loops <- NoLoops
    MaxRetry = 0
CHECK_DEADLOCK FALSE
PROPERTY StopsOnlyIdle
