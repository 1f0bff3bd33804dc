--------------------------- MODULE MCProbeWorker ---------------------------
(* Processes and faults for ProbeWorker.                                   *)
EXTENDS ProbeWorker

AllFaults == Steps
=============================================================================
