----------------------------- MODULE LossyFifo -----------------------------
(***************************************************************************)
(* What the receive side of a CAN driver promises for the frames of one    *)
(* bus.  The frames are numbered as they come; the driver may lose any of  *)
(* them, but what it hands over comes in the order of the bus and once.    *)
(***************************************************************************)
EXTENDS Naturals, FiniteSets

CONSTANT CAPACITY    \* how many frames may be under way in the driver

VARIABLES
    sent,       \* how many frames the bus has carried
    chan,       \* the numbers of the frames under way
    received    \* the number of the last frame handed over, or 0

vars == <<sent, chan, received>>

Init == sent = 0 /\ chan = {} /\ received = 0

Oldest(n) == n \in chan /\ \A k \in chan : n <= k
Newest(n) == n \in chan /\ \A k \in chan : k <= n

Put ==
    /\ Cardinality(chan) < CAPACITY
    /\ sent' = sent + 1 /\ chan' = chan \cup {sent'}
    /\ UNCHANGED received

\* The new frame takes the place of the newest one under way.
Overrun ==
    /\ sent' = sent + 1
    /\ \E n \in chan : Newest(n) /\ chan' = (chan \ {n}) \cup {sent'}
    /\ UNCHANGED received

Lose ==
    /\ \E n \in chan : chan' = chan \ {n}
    /\ UNCHANGED <<sent, received>>

Receive ==
    /\ \E n \in chan : Oldest(n) /\ received' = n /\ chan' = chan \ {n}
    /\ UNCHANGED sent

Next == Put \/ Overrun \/ Lose \/ Receive

Spec == Init /\ [][Next]_vars

=============================================================================
