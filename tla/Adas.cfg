\* A vehicle that moves, stands or is not heard, obstacles that come and go, a queue
\* that is full, a failure, and the wrap of the tick inside the horizon.
CONSTANTS
    TICK_MOD = 10
    QUEUE = 2
    INPUT_PERIOD = 1
    STATUS_PERIOD = 2
    ENGINE_TIMEOUT = 4
    DELAY = 1
    GAP = 2
    MaxLag = 0
    MaxFaults = 1
    MaxUptime = 12
    Worlds <- TwoWorlds
    Speeds <- OneSpeed
SPECIFICATION Adas_Spec
INVARIANTS
    AdasTypeOK
    SpeedNotStale
    RulesShown
