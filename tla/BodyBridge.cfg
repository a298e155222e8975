\* Boot, changing body states, Board D falling silent and coming back, a frame
\* lost to full mailboxes.  The tick wraps within the horizon.
CONSTANTS
    TICK_MOD = 12
    PERIOD = 2
    TIMEOUT = 9
    DELAY = 1
    MaxLag = 1
    MaxBusy = 1
    MaxUptime = 17
    Payloads <- TwoPayloads
SPECIFICATION Spec
INVARIANTS
    NoStaleStatus
    StatusErrorHeals
