CONSTANTS
    get = get
    put = put
    home = home
    port = port
    clear = clear
    Calls <- MCCalls
    Writes <- MCWrites
    Origins <- MCOrigins
    Home = home
    Plain <- MCPlain
    SameHost <- MCOrigins
    MaxAttempts = 3
    MaxRedirects = 1
    PoolSize = 1
    Limit = 1
SPECIFICATION Spec
CHECK_DEADLOCK FALSE
INVARIANTS
    WritesAppliedOnce
    KeyStaysHome
    NeverInTheClear
    ParsedWhole
    NoConnectionLeaks
PROPERTIES
    ImplementsRemoteCall
    CallsEnd
