SPECIFICATION LeakSpec
CONSTANTS
    NTASKS = 3
    NTICKS = 1
    Nodes = {n1}
    Dummy = dummy
    NULL = null
    Sigs = {5}
    SIGSEGV = 5
    MaxSleep = 0
    Delays = {1}
    Codes = {0}
    Calls = {"fs", "kill"}
INVARIANTS
    HeldHasHolder
