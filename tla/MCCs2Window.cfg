SPECIFICATION WindowFairSpec
CONSTANTS
    Half = 3
    Packets = 7
    Window = 3
    PushSize = 1
CHECK_DEADLOCK FALSE
PROPERTIES AcksAreRight ImplementsDelivery AllArrive
