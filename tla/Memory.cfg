SPECIFICATION Spec
CONSTANTS
    HDR = 3
    PAGE = 8
    HPages = 4
    Frames = {0, 1, 2, 3, 4, 5, 6, 7, 8, 9}
    Reserved = {0, 1, 2}
    DevStart = 2
    DevCount = 1
    Sizes = {3, 12}
    Aligns = {1, 4}
    Tasks = {t1, t2}
    TABLE = 3
    Stack = {1}
    PROG = 2
    UPages = 5
    Images = {6}
    Incs = {6}
    Shrink = FALSE
    None = none
SYMMETRY TaskSymmetry
INVARIANTS
    HeapSound
    FramesCounted
