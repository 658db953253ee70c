SPECIFICATION ServersSpec
CONSTANTS
    c1 = c1
    c2 = c2
    Nobody = Nobody
    Clients = {c1, c2}
    Requests <- AllFetches
    Origins <- AllOrigins
    Chunks = 2
    HangUps = TRUE
    Kills = TRUE
    Bytes = {"a", "nul", "nl"}
    LF = "nl"
    NUL = "nul"
    RIO_BUFSIZE = 2
    EchoMax = 3
    MAXLINE = 30
    AUTHORITY = 8
    WordBytes <- MCWordBytes
    Typed <- MCTyped
    ServerCanBeStopped = TRUE
    Worlds <- MCWorlds
    PAGE = 2
INVARIANTS
    EchoSound
    TinySound
    ProxySound
PROPERTY
    EveryClientEnds
CHECK_DEADLOCK FALSE
