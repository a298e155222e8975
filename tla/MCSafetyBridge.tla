--------------------------- MODULE MCSafetyBridge ---------------------------
(* Instance of SafetyBridge for TLC: the statuses evaluate_status of Board E  *)
(* (adas_main.c) can produce, one per class the bridge tells apart.           *)
EXTENDS SafetyBridge

St(risk, fault) ==
    [risk_level |-> risk, SENSOR_FAULT |-> fault,
     active_fault_bitmap |-> IF fault THEN {"FRONT_SENSOR", "REAR_SENSOR"} ELSE {}]

Calm   == St(0, FALSE)
Danger == St(3, FALSE)
Faults == St(2, TRUE)

AllStatuses == {Calm, Danger, Faults}

=============================================================================
