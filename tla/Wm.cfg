SPECIFICATION Spec
CONSTANTS
    Clients = {p}
    MAX_RESOURCES = 4
    RING = 2
    Width = 1
    Size = 1
    Places = {0, 1}
    None = None
INVARIANTS
    StackSorted
    ImagesKept
    OnTop
