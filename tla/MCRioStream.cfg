SPECIFICATION FairSpec
CONSTANTS
    Bytes = {"a", "b", "nl"}
    LF = "nl"
    RIO_BUFSIZE = 2
    SocketSize = 2
    MaxLines = {3}
    Counts = {1, 3}
    Messages <- MCMessages
    MaxSent = 5
INVARIANTS
    TypeOK
    Stream
PROPERTIES
    Results
    CallReturns
