------------------------------- MODULE MCAdas -------------------------------
(* Instance of Adas for TLC.                                                  *)
EXTENDS Adas

World(front_adc, rear_adc, pressed) ==
    [front_adc |-> front_adc, rear_adc |-> rear_adc, pressed |-> pressed]

\* Nothing; 30 cm in front and 25 cm behind, with a button.
TwoWorlds == {World(0, 0, {}), World(3678, 3761, {"fault"})}

\* The slowest speed of the highest rule.
OneSpeed == {40}

=============================================================================
