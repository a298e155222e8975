\* Boot, changing data, Board A falling silent and coming back, a frame lost to
\* full mailboxes.  The tick wraps within the horizon.
CONSTANTS
    TICK_MOD = 12
    TIMEOUT = 6
    DELAY = 1
    MaxLag = 1
    ALIVE_MOD = 2
    MaxBusy = 1
    MaxUptime = 15
    Inputs <- AllInputs
    PERIODS <- ShortPeriods
SPECIFICATION Spec
INVARIANTS
    TypeOK
    NoStaleValue
    GaugeErrorHeals
