--------------------------- MODULE MCFaultRecorder --------------------------
(* A small instance of FaultRecorder: windows of three snapshots up to the *)
(* fault and two after it, two wall clock readings, two starts of the      *)
(* process.                                                                *)
EXTENDS FaultRecorder

MCClock == 1..2

=============================================================================
