SPECIFICATION ProducerFairSpec
CONSTANTS
    Producers = {p1}
    Consumers = {u1}
    Conns = {c1, c2}
    NoConn = NoConn
    Codecs = {k1}
    Back = Back
    OfferSets <- MCOffersAll
    MaxRetry = 1
CHECK_DEADLOCK FALSE
INVARIANT OneAgent
PROPERTIES ReadersMove ImplementsOwnership StaleAgentsEnd Reconnects
