SPECIFICATION DriverSpec
CONSTANTS
    MAX_HEAP = 120
    CHUNKSIZE = 32
    Ids = {0, 1}
    Sizes = {8, 24}
    MaxEvals = 2
    Traces <- MCTraces
    Repeats = 2
    Times = {0, 3}
    LibcRate = 2
    B = 4
    Readings <- MCReadings
    Platforms = {"i386", "alpha", "other"}
    NEVENT = 1
    THRESHOLD = 2
    RECORDTHRESH = 3
    STEP = 1
    SPACING = 7
    COST = 3
    MaxElapsed = 13
    MaxTicks = 3
    MaxId = 1
    MaxLines = 3
    Letter <- MCLetter
    Number <- MCNumber
INVARIANTS
    PhasesSound
    TracesSound
    Elapsed
    TimesSound
CHECK_DEADLOCK FALSE
