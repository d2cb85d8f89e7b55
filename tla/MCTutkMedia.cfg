SPECIFICATION Spec
CONSTANTS
    Chunks <- MCChunks
    First <- MCFirst
    Late = 2
    Gap = 2
    Span = 7
    Repeats = 1
    FrameSpace = 3
    Queue = 2
    SeqSpace = 7
    Room = 3
    Channel <- MCChannel
    Time <- MCTime
    WrapPeriod = 4
    Capacity = 2
CHECK_DEADLOCK FALSE
INVARIANTS FramesWhole FrameArrives WaitsForLate TimeRuns
