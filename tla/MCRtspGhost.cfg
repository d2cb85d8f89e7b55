SPECIFICATION RoleSpec
CONSTANTS
    Recv = {"video"}
    Talk = {"talk"}
    MaxCalls = 3
    Flying = 1
    Others = {"viewer"}
    Calls = {"x", "y"}
CHECK_DEADLOCK FALSE
INVARIANT NoGhostExec
