--------------------------- MODULE MCEngineBench ---------------------------
(* Instance of EngineBench for TLC: a short scale of the ADC and of the speed, *)
(* which the terminal's pedals use to the full.  The pedals that the desktop   *)
(* program sets stay so small that the car stands: its lines are the matter.   *)
EXTENDS EngineBench

SmallTargets == <<0, 0, 0, 1>>

PedalsByPeer ==
    [terminal |-> Readings \X Readings, gui |-> {<<0, 0>>}]

PercentsByPeer == [terminal |-> {0, 70, 100}, gui |-> {0, 1}]

EventsByPeer == [terminal |-> 3, gui |-> 2]
PressByPeer  == [terminal |-> 2, gui |-> 3]

=============================================================================
