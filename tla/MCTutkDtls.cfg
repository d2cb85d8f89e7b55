SPECIFICATION FairSpec
CONSTANTS
    Kinds <- MCKinds
    Asked = 2
    Flying = 2
    BufSize = 1
    CmdSize = 1
CHECK_DEADLOCK FALSE
INVARIANTS CloseIsClean AnsweredHasArrived
PROPERTY EveryCallReturns
