\* A door switch, a turn signal button, and commands that interrupt the polls.
CONSTANTS
    SAMPLES = 2
    Doors <- OneDoor
    Lamps <- NoLamps
    Buttons <- OneButton
    Commands <- FewCommands
SPECIFICATION Bcm_FairSpec
INVARIANTS
    BcmTypeOK
    UartValueHolds
PROPERTIES
    OneTogglePerPress
    DoorsShown
