-------------------------- MODULE MCRuleEvaluation --------------------------
(* RuleEvaluation on small instances: two of the thresholds, two bodies of *)
(* PATCH, one of them partly refused.                                      *)
EXTENDS RuleEvaluation, TLC

Start == "after_hours_start"
Cycle == "rapid_cycle_count"
MCDefaults == (Start :> 22) @@ (Cycle :> 5)
MCPatches ==
    {(Start :> 20) @@ (Cycle :> 3),
     (Start :> 24) @@ (Cycle :> 7) @@ ("hostname" :> 1),
     (Start :> 0) @@ (Cycle :> NotAnInt)}
=============================================================================
