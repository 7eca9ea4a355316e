SPECIFICATION Spec
CONSTANTS
    NTASKS = 3
    NTICKS = 1
    Nodes = {n1}
    Dummy = dummy
    NULL = null
    Sigs = {5}
    SIGSEGV = 5
    MaxSleep = 2
    Delays = {2}
    Codes = {0}
    Calls = {"sleep", "pexec", "pwait", "kill", "raise", "fs", "badexec"}
INVARIANTS
    TypeOK
    ListsMatchStates
    ActiveRuns
    LockHandedOver
    MutualExclusion
    WaitHasStatus
    SleepsLongEnough
CONSTRAINT OneKind
