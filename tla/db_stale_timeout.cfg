\* One thread: EXPIRE, DEL, and APPEND that creates the key again.
CONSTANTS
    k1 = k1
    k2 = k2
    k3 = k3
    s1 = s1
    s2 = s2
    Keys = {k1}
    Shards = {s1}
    hash_funcion <- OneShard
    Absent = Absent
    Persistent = Persistent
    MaxInt = 127
    MaxLong = 127
    Clients = {c1}
    Requesters = {c1}
    MaxTime = 1
    MaxMailbox = 8
    ExpireTimes = {0, 1}
    Loaded <- StringLoad
    Requests <- DeleteAndAppend
    MaxRequests = 3
SPECIFICATION HistoryFairSpec
PROPERTIES LiveKeysKept
CHECK_DEADLOCK FALSE
