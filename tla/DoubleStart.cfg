CONSTANTS
    Clients = {c1}
    NoClient = NoClient
    MaxOrphans = 1
SPECIFICATION Spec
INVARIANTS
    OneThreadPerUnit
CHECK_DEADLOCK FALSE
