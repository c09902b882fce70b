-------------------------- MODULE MCEventTransport --------------------------
(* EventTransport on small instances: symmetric monitor threads.           *)
EXTENDS EventTransport, TLC

MonitorSymmetry == Permutations(Monitors)
=============================================================================
