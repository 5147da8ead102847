\* Two keys may ask for the same expiry time.
CONSTANTS
    Keys = {k1, k2}
    MaxInt = 7
    MaxLong = 127
    Absent = Absent
    Shards = {s1}
    hash_funcion <- MCHash
    Loaded <- MCLoaded
    Requesters = {c1}
    Persistent = Persistent
    MaxTime = 2
    MaxMailbox = 2
    ExpireTimes = {0, 1}
    MaxPosts = 3
    Unlimited = Unlimited
    MaxEntries = 3
    MaxExecutors = 3
    MaxWrites = 0
    Discipline = "any"
SPECIFICATION MCFairSpec
PROPERTIES TimeoutClearedByOwnKey
CHECK_DEADLOCK FALSE
