---------------------------- MODULE MCAuditChain ----------------------------
(* AuditChain on small instances: events of one host are interchangeable.  *)
EXTENDS AuditChain, TLC

AuditSymmetry == Permutations(Hosts) \cup Permutations(Event) \cup Permutations(Processes)
=============================================================================
