\* A command stopped by a key and a late answer to it.
CONSTANTS
    MAX_LEN = 3
    FF_DATA = 1
    CF_DATA = 1
    SN_MOD = 4
    VIN_LEN = 3
    Setups <- StoppedSetup
SPECIFICATION Spec
INVARIANTS
    ClearDoneMeansCleared
CHECK_DEADLOCK FALSE
