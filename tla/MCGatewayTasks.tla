--------------------------- MODULE MCGatewayTasks ---------------------------
(* Instance of GatewayTasks for TLC: the rpm at both ends of the hysteresis.  *)
EXTENDS GatewayTasks

BoundaryRpms == {4499, 4500, 5000}

=============================================================================
