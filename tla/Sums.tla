-------------------------------- MODULE Sums ---------------------------------
(* Sums over finite sets, in a form that proofs can refer to.              *)
EXTENDS Integers, FiniteSetsExt

(* The sum of f[x] over the elements x of S.                               *)
SumOver(f, S) == MapThenSumSet(LAMBDA x : f[x], S)
=============================================================================
