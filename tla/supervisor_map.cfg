\* Messages that leave the times of other keys alone: the vector is a map.
CONSTANTS
    Keys = {k1, k2}
    MaxInt = 7
    MaxLong = 127
    Absent = Absent
    Shards = {s1}
    hash_funcion <- MCHash
    Loaded <- MCLoaded
    Requesters = {c1}
    Persistent = Persistent
    MaxTime = 3
    MaxMailbox = 2
    ExpireTimes = {0, 1, 2}
    MaxPosts = 4
    Unlimited = Unlimited
    MaxEntries = 4
    MaxExecutors = 4
    MaxWrites = 0
    Discipline = "apart"
SPECIFICATION MCSpec
PROPERTIES ImplementsTtlMap
CHECK_DEADLOCK FALSE
