SPECIFICATION Spec
CONSTANTS
    Machines <- MCMachines
    MENU_HEIGHT = 3
    TENTHS = 2
    LINES = 8
    NONE = NONE
    NULL = NULL
    DIRECT = 2
    PTRS = 4
    LIMIT = 3
    BLOCK = 4
    BGD = 2
    WORD = 256
    CYLINDERS = 16
    PAGE = 8
    TPAGES = 4
    NTABLES = 5
    FRAMES = 40
    LOWMEM = {1, 2, 3}
    RESERVE = 2
    KBASE = 8
    SEG = 8
    HDR = 2
    TAR = 2
    MAX_ARGS = 6
    ARG_VLEN = 8
    Environ <- MCEnviron
    MAX_USERS = 4
    MAX_GROUPS = 4
    Codes = {0, 1}
    Offsets = {0, 3, 8, 17}
    Counts = {1, 2, 5}
INVARIANTS
    MarkerOnChoice
    BootsAsShown
    MemoryKept
    VolumeReads
    ScriptRuns
