SPECIFICATION ClientFairSpec
CONSTANTS
    Remote = {c1, c2}
    Local = 1
    Config = 1
    Faults = {"offer", "consumer", "answer"}
    Kinds = {"server", "go2rtc", "kinesis", "openipc", "ring"}
    Messages = 1
CHECK_DEADLOCK FALSE
INVARIANTS CandidatesInPlace OkIsConnected
PROPERTIES EveryCandidate NobodyBlocks DialReturns
