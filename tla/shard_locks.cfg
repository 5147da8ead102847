\* Two clients, the supervisor and an executor over two shards.
CONSTANTS
    c1 = c1
    c2 = c2
    x1 = x1
    Clients = {c1, c2}
    Executors = {x1}
    Supervisor = Supervisor
    Nobody = Nobody
    HASH_NUMBER = 2
    Lengths = {1, 2}
    MaxCalls = 3
SPECIFICATION LockFairSpec
INVARIANTS LockTypeOK ScansAreSnapshots PoisonStartsInAShard
PROPERTIES OperationsEnd
CHECK_DEADLOCK FALSE
