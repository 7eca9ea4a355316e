SPECIFICATION LiveSpec
CONSTANTS
    NTASKS = 4
    NTICKS = 1
    Nodes = {n1}
    Dummy = dummy
    NULL = null
    Sigs = {5}
    SIGSEGV = 5
    MaxSleep = 1
    Delays = {0, 1}
    Codes = {0}
    Calls = {"fs", "pexec", "badexec", "fault", "signal", "sleep", "pwait"}
PROPERTIES
    ReadyRuns
    LoadEnds
    FaultEnds
    WaitEnds
    GrantEnds
