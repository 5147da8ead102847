\* GET, DEL, TOUCH, EXPIRE and RENAME of one key, increments of another.
CONSTANTS
    k1 = k1
    k2 = k2
    k3 = k3
    s1 = s1
    s2 = s2
    Keys = {k1, k2, k3}
    Shards = {s1, s2}
    hash_funcion <- TwoShards
    Absent = Absent
    Persistent = Persistent
    MaxInt = 127
    MaxLong = 127
    Clients = {c1, c2}
    Requesters = {c1, c2}
    MaxTime = 1
    MaxMailbox = 8
    ExpireTimes = {0, 1}
    Loaded <- StringAndNumber
    Requests <- ReadersAndUpdaters
    MaxRequests = 2
SPECIFICATION HistorySpec
INVARIANTS UpdatesKept
PROPERTIES ReadsJustified
CHECK_DEADLOCK FALSE
