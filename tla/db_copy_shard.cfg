\* COPY from a key of one shard to a key of the other.
CONSTANTS
    k1 = k1
    k2 = k2
    k3 = k3
    s1 = s1
    s2 = s2
    Keys = {k1, k2}
    Shards = {s1, s2}
    hash_funcion <- TwoShards
    Absent = Absent
    Persistent = Persistent
    MaxInt = 127
    MaxLong = 127
    Clients = {c1}
    Requesters = {c1}
    MaxTime = 0
    MaxMailbox = 8
    ExpireTimes = {0, 1}
    Loaded <- StringLoad
    Requests <- CopyOnly
    MaxRequests = 1
SPECIFICATION DbFairSpec
INVARIANTS EntriesInOwnShard
CHECK_DEADLOCK FALSE
