\* Gateway and cluster on the bus, nothing lost.
CONSTANTS
    MAX_LEN = 3
    FF_DATA = 1
    CF_DATA = 1
    SN_MOD = 4
    VIN_LEN = 3
    Setups <- BothSetup
SPECIFICATION Spec
PROPERTY
    MultiFrameCompletes
CHECK_DEADLOCK FALSE
