SPECIFICATION FairSpec
CONSTANTS
    Clients = {c1, c2, c3}
    Server = wm
    Requests = {1, 2}
    None = none
PROPERTIES
    ImplementsRpc
    RequestServed
