\* Lost frames, abandoned responses and new requests, in every order; and every
\* response received in the end while nothing is lost.
CONSTANTS
    MAX_LEN = 8
    FF_DATA = 2
    CF_DATA = 2
    SN_MOD = 4
    MaxMsgs = 3
    MaxLost = 3
    MaxResets = 2
    MaxQueue = 4
    Lengths <- AllLengths
SPECIFICATION FairSpec
INVARIANTS
    ContextConsistent
    BytesInPlace
    NoMixtureWithoutLoss
PROPERTY
    LastResponseDecoded
CHECK_DEADLOCK FALSE
