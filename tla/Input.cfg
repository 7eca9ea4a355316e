SPECIFICATION Spec
CONSTANTS
    DEVICE_KEYBOARD_MAX_KEYS = 3
    DEVICE_MOUSE_MAX_EVENTS = 3
    LINEBUFSZ = 4
    Devices = {"keyboard", "mouse"}
    Users = {{"ioctl"}, {"console"}}
    Codes = {"1c", "5a", "12", "66"}
    Others = {"1c", "5a"}
    UpCodes = {"12"}
    Moves = {0, 1}
    Sizes = {1, 2}
    MaxLine = 2
INVARIANTS
    LineDelivered
PROPERTIES
    ImplementsQueue
