SPECIFICATION Spec
CONSTANTS
    Tasks = {1, 2}
    Users = {0, 1}
    GidOf <- MCGidOf
    Names = {"f"}
    Flags <- MCFlags
    Masks <- MCMasks
    MAXFILES = 1
    BLOCK = 2
    MAXBLOCKS = 2
    Counts = {3}
    Cut = FALSE
    None = None
INVARIANTS
    DescriptorsServed
    PositionsInFile
    BlocksMatch
    OwnersPermit
PROPERTIES
    ImplementsStore
