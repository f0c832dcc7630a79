\* Three clients: one being served, one in the backlog when the server is
\* stopped, one that connects meanwhile.
CONSTANTS
    Clients = {c1, c2, c3}
    NoClient = NoClient
    MaxOrphans = 1
SPECIFICATION Spec
INVARIANTS
    TypeOK
    TeardownIsAlone
    
    CleanExit

    
    
CHECK_DEADLOCK FALSE
