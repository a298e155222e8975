------------------------------- MODULE MCBcm -------------------------------
(* Instance of Bcm for TLC: a door and a turn signal button.                  *)
EXTENDS Bcm

OneDoor   == {"door_fl"}
NoLamps   == {}
OneButton == {"turn_left"}

\* A single door and a single turn signal, everything off, and back
\* to the pins.
FewCommands ==
    handle_door
    \cup {Does("uart", <<Set(OneButton, TRUE)>>, "keep"), Does("uart", <<AllOff>>, "keep"),
          Does("gpio", <<>>, "keep")}
    \cup handle_reset

=============================================================================
