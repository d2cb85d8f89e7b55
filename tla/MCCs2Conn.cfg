SPECIFICATION ConnSpec
CONSTANTS
    Half = 3
    Packets = 3
    Window = 2
    PushSize = 1
    Header = 2
    Sizes <- MCSizes
    Start <- MCStart
    PopSize = 1
    Commands = 3
    Tries = 5
CHECK_DEADLOCK FALSE
INVARIANTS Framed SentHasArrived
