\* Two clients with different habits.
CONSTANTS
    c1 = c1
    c2 = c2
    Clients = {c1, c2}
    Nobody = Nobody
    Names = {"Monitor", "Logger", "n"}
    Receivers <- ClientReceivers
    ConfigFile <- MCConfigFile
    Sends <- MCSends
    LogFails = TRUE
    MaxRequests <- MCMaxRequests
    Absent = Absent
    MaxInt = 127
    MaxLong = 127
SPECIFICATION SessionsFairSpec
INVARIANTS SessionTypeOK SubscriptionsRegistered PoisonedByTheGone ClientsCounted VerboseFollowsConfig
PROPERTIES ImplementsPubSub HungUpEnds
CHECK_DEADLOCK FALSE
