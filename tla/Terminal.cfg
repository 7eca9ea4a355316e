SPECIFICATION Spec
CONSTANTS
    INTBITS = 4
    LONGBITS = 6
    NULL = NULL
    WIDTH = 4
    HEIGHT = 2
    ESCBUFSZ = 8
    ESC = "esc"
    NL = "nl"
    BUFSIZ = 3
    EOF = "eof"
    Texts <- MCTexts
    Modes <- MCModes
    Sizes = {1, 3}
    Offsets = {0, 1, 3}
    MAXLEN = 4
    Programs = {p, q}
    Consoles <- MCConsoles
    Outputs <- MCOutputs
    Messages <- MCMessages
    Jobs <- MCJobs
    Keys = {"x"}
    MAXPRINTS = 1
    MAXKEYS = 2
    MAXMSGS = 1
    NONE = NONE
SYMMETRY Symmetry
INVARIANTS
    FormatsDenote
    TurnsWhole
    OutputInOrder
    ScreenShowsText
PROPERTIES
    ImplementsStream
CHECK_DEADLOCK FALSE
