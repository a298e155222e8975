\* One server on the bus: the gateway, the cluster, or the gateway with its signals.
CONSTANTS
    MAX_LEN = 3
    FF_DATA = 1
    CF_DATA = 1
    SN_MOD = 4
    VIN_LEN = 3
    Setups <- AnsweringSetups
SPECIFICATION FairSpec
INVARIANTS
    ClearDoneMeansCleared
    VinShown
PROPERTY
    CommandCompletes
CHECK_DEADLOCK FALSE
