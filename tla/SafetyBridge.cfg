\* Boot, danger with latched faults, Board E falling silent and coming back, a
\* frame lost to full mailboxes, and the wrap of the tick inside the horizon.
CONSTANTS
    TICK_MOD = 12
    PERIOD = 2
    TIMEOUT = 9
    DELAY = 1
    MaxLag = 1
    ALIVE_MOD = 1
    MaxBusy = 1
    MaxUptime = 17
    Statuses <- AllStatuses
SPECIFICATION Spec
INVARIANTS
    TypeOK
    FaultsStayLatched
    NoStaleWarning
    WarningWithinPeriod
    LampErrorHeals
