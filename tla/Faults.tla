-------------------------------- MODULE Faults --------------------------------
(***************************************************************************)
(* How the agent tells a fault from a state of the host                    *)
(* (LocalAgent._detect_fault).  A state is a record of the four values the *)
(* host reports: cpu, memory, service and latency.                         *)
(***************************************************************************)
EXTENDS Naturals

CONSTANT None       \* Python's None

FaultType == {"CPU_SPIKE", "SERVICE_DOWN", "LATENCY_HIGH"}

LatencyHighThreshold == 200

\* _detect_fault: the first of the three that applies.
DetectFault(s) ==
    IF s.cpu >= 90 THEN "CPU_SPIKE"
    ELSE IF s.service # "UP" THEN "SERVICE_DOWN"
    ELSE IF s.latency >= LatencyHighThreshold THEN "LATENCY_HIGH"
    ELSE None

=============================================================================
