---------------------------- MODULE MCUdsSystem ----------------------------
(* Instances of UdsSystem for TLC.  A frame carries one byte, so the VIN of   *)
(* 20 bytes (a first frame and two consecutive frames) has three.             *)
EXTENDS UdsSystem

\* The gateway alone on the bus, frames lost, no key pressed.
GatewayOnly ==
    [servers |-> {"gateway"}, commands |-> {"clear", "adas"}, signals |-> {},
     max_commands |-> 3, max_stops |-> 0, max_cl_reads |-> 0, max_lost |-> 3, max_faults |-> 3]

\* The cluster alone, frames of its multi-frame response lost, a command stopped.
ClusterOnly ==
    [servers |-> {"cluster"}, commands |-> {"vin"}, signals |-> {},
     max_commands |-> 3, max_stops |-> 1, max_cl_reads |-> 1, max_lost |-> 4, max_faults |-> 0]

\* Passive reads among requests to the gateway, and its signal frames.
Signals ==
    [servers |-> {"gateway"}, commands |-> {"adas", "rpm", "speed", "temp"},
     signals |-> {"rpm", "speed"},
     max_commands |-> 3, max_stops |-> 2, max_cl_reads |-> 1, max_lost |-> 1, max_faults |-> 0]

\* A clear command stopped by a key, and a late answer to it.
Stopped ==
    [servers |-> {"gateway"}, commands |-> {"clear", "adas"}, signals |-> {},
     max_commands |-> 2, max_stops |-> 1, max_cl_reads |-> 0, max_lost |-> 1, max_faults |-> 2]

\* Gateway and cluster on one bus, nothing lost.
Both ==
    [servers |-> {"gateway", "cluster"}, commands |-> {"vin"}, signals |-> {},
     max_commands |-> 1, max_stops |-> 0, max_cl_reads |-> 0, max_lost |-> 0, max_faults |-> 0]

AnsweringSetups == {GatewayOnly, ClusterOnly, Signals}
StoppedSetup == {Stopped}
BothSetup == {Both}

=============================================================================
