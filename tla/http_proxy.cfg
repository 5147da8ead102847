\* Three browsers, one post each; the server may time out.
CONSTANTS
    Browsers = {b1, b2, b3}
    COMMANDS_ALOWED = {"get", "set"}
    Posts <- MCPosts
    TimesOut = TRUE
    MaxPosts = 1
SPECIFICATION ProxyFairSpec
INVARIANTS ProxyTypeOK QuietExchangeMatched NothingOnTheStream
PROPERTIES QuietBrowserAnswered
CHECK_DEADLOCK FALSE
