SPECIFICATION SupportSpec
CONSTANTS
    MaxAddresses = 2
    Fds = {3, 4}
    MaxCloseErrors = 2
    W = 8
    Values <- MCNumbers
    Size = 10
    Ks = {1, 3}
    Limits = {2, 4}
    Samples <- MCSamples
    EpsNum = 1
    EpsDen = 2
    CacheSizes = {8, 16}
    Blocks = {8}
    PORT_MAX = 3
    MAX_PORT_TRIES = 2
    BasicList <- MCBasic
    Binaries = {"godzilla.jpg"}
    CacheList <- MCCache
    FETCH_FILE = "home.html"
    Proxies <- MCTested
    MaxMishaps = 1
    Crashes = TRUE
INVARIANTS
    NothingLeaks
    WrapperSound
    PutsItsNumber
    BestSound
    HarnessSound
PROPERTIES
    FcycReturns
    Ends
CHECK_DEADLOCK FALSE
