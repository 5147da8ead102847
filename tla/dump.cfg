\* Two dumps, one change by a client, crashes at any moment.
CONSTANTS
    Absent = Absent
    Persistent = Persistent
    MaxInt = 15
    MaxLong = 127
    Keys <- MCKeys
    Found <- MCFound
    FoundTimeouts <- MCFoundTimeouts
    Values <- MCValues
    TicksPerSecond = 2
    MaxTime = 2
    MaxChanges = 1
    MaxDumps = 2
SPECIFICATION DumpSpec
INVARIANTS DumpTypeOK
PROPERTIES WholeDumpRestores RestoredWasHeld
CHECK_DEADLOCK FALSE
