\* A short queue and two mailboxes, filled by few frames.
CONSTANTS
    RX_Q_SIZE = 2
    FIFO_DEPTH = 1
    MAILBOXES = 2
    Rpms <- BoundaryRpms
    MaxFrames = 3
    MaxSends = 1
SPECIFICATION FairSpec
INVARIANTS
    ClashCostsOneFrame
PROPERTIES
    StatusSurvivesStart
    WarningFollows
    BusesInOrder
CHECK_DEADLOCK FALSE
