--------------------------- MODULE MCEngineBridge ---------------------------
(* Instance of EngineBridge for TLC.  Board A always sets the IGN bit         *)
(* (engine_sim.c:401), so ign_on is FALSE before its first frame only.        *)
EXTENDS EngineBridge

Standing == [motor |-> 1, bremse |-> 0, ign_on |-> TRUE]
Driving  == [motor |-> 2, bremse |-> 3, ign_on |-> TRUE]

AllInputs == {Standing, Driving}

\* 50 ms and 500 ms against a timeout of 1000 ms.
ShortPeriods == [motor |-> 1, bremse |-> 3]

=============================================================================
