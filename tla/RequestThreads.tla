--------------------------- MODULE RequestThreads ---------------------------
(* The threads of the web server (Flask), one for each request under way.  *)
EXTENDS Integers, FiniteSets

CONSTANT Threads

ASSUME ThreadsAssumption == IsFiniteSet(Threads)
=============================================================================
