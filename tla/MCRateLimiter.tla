--------------------------- MODULE MCRateLimiter ----------------------------
(***************************************************************************)
(* RateLimiter on a small instance: one address, a window of two ticks,    *)
(* and the ways keys may be configured.                                    *)
(***************************************************************************)
EXTENDS RateLimiter, TLC

ThreadSymmetry == Permutations(Threads)

CONSTANTS k1, k2

MCTokens == {None, k1, k2}
MCSettings ==
    {[apiKeys |-> k1 :> "auditor", apiKey |-> k2],
     [apiKeys |-> (k1 :> "analyst") @@ (k2 :> "admin"), apiKey |-> None],
     [apiKeys |-> Unusable, apiKey |-> k1]}
=============================================================================
