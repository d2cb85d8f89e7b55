SPECIFICATION RoleFairSpec
CONSTANTS
    Recv = {"video"}
    Talk = {"talk"}
    MaxCalls = 3
    Flying = 1
    Others = {"viewer"}
    Calls = {"x", "y"}
CHECK_DEADLOCK FALSE
INVARIANTS PlaysWhole NothingStays
PROPERTIES TracksPlay ProgramsEnd
