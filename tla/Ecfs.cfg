SPECIFICATION Spec
CONSTANTS
    Blksz = 32
    Nblk = 16
    Hdr = 6
    HeadBlk = 1
    Trackext = 1
    Units = 2
    Length = 3
    MaxWrites = 3
    Counts = {1, 3}
    Dirs = {1}
    Junk = 7
    Paths <- MCPaths
    DataPaths <- MCDataPaths
INVARIANTS
    Accounted
    ReadersAgree
PROPERTIES
    ImplementsStore
