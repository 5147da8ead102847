\* Messages without end, in every order, with fairness; one of the times never passes,
\* as that of an entry that is refreshed again and again.
CONSTANTS
    Keys = {k1, k2}
    MaxInt = 7
    MaxLong = 127
    Absent = Absent
    Shards = {s1}
    hash_funcion <- MCHash
    Loaded <- MCLoaded
    Requesters = {c1}
    Persistent = Persistent
    MaxTime = 2
    MaxMailbox = 1
    ExpireTimes = {0, 2}
    MaxPosts = Unlimited
    Unlimited = Unlimited
    MaxEntries = 3
    MaxExecutors = 2
    MaxWrites = 1
    Discipline = "any"
SPECIFICATION MCFairSpec
INVARIANTS TypeOK ExecutorCoverage
PROPERTIES ExpiredEntriesSwept ExecutorsRetire
CHECK_DEADLOCK FALSE
