SPECIFICATION FairSpec
CONSTANTS
    p1 = p1
    p2 = p2
    u1 = u1
    u2 = u2
    Producers = {p1, p2}
    Configured <- Two
    Consumers = {u1, u2}
    Conns = {c1, c2}
    NoConn = NoConn
    Codecs = {k1}
    Back = Back
    OfferSets <- MCOffersBack
    Wants <- MCWantsMixed
    Loops <- NoLoops
    MaxRetry = 0
CHECK_DEADLOCK FALSE
INVARIANT IdleProducersStop
PROPERTY EveryCallReturns
