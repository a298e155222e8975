CONSTANTS
    SPEED_MAX = 10
    ADC_MAX_VALUE = 34
    FILTER = 2
    COOLANT_INIT = 0
    COOLANT_TARGETS <- SmallTargets
    COOLANT_HOT = 1
    COOLANT_MAX = 1
    MODEL_LOOPS = 1
    COOLANT_LOOPS = 1
    RoomWatched = 4
    Readings = {0, 34}
    PedalsAtStart <- PedalsByPeer
    Percents <- PercentsByPeer
    MaxEvents <- EventsByPeer
    PressEvents <- PressByPeer
    MaxLines = 1
SPECIFICATION FairSpec
INVARIANTS
    SimTypeOK
    PedalHolds
    RpmErrorHeals
    ResetHolds
PROPERTIES
    SpeedSettles
    PedalEndsReached
    WishReached
    ViewFollows
