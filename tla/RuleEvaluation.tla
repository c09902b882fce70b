--------------------------- MODULE RuleEvaluation ---------------------------
(***************************************************************************)
(* What the rules of one event are evaluated with, while the thresholds    *)
(* and the threat feed change: request threads that call rules.evaluate,   *)
(* PATCH /api/v1/config and GET /api/v1/threat_feed or POST .../reload     *)
(* over the state of RuleConfig and ThreatFeed.  Of the rules only those   *)
(* are here that look at that state, in the order of _RULES.               *)
(***************************************************************************)
EXTENDS ThreatFeed, RuleConfig

CONSTANT MaxRequests   \* bound of the model: requests

ASSUME RequestsAssumption == MaxRequests \in Nat

VARIABLES
    eval,      \* per thread: the event it evaluates
    requests   \* requests so far

evalVars == <<eval, requests>>
vars == <<feedVars, configVars, evalVars>>

Looking == <<"after_hours_device", "high_volume_transfer", "rapid_cycle",
             "known_malicious_device">>

(* rule is the place in Looking, read what get_config returned to the      *)
(* rules so far, since the version in force when the event came in.        *)
NoEvent == [rule |-> 0, read |-> <<>>, since |-> 0]

Init == FeedInit /\ ConfigInit /\ eval = [t \in Threads |-> NoEvent] /\ requests = 0

Free(t) == In(t, "idle") /\ t \notin Updating /\ eval[t] = NoEvent

Evaluate(t) ==
    /\ eval' = [eval EXCEPT ![t] = [rule |-> 1, read |-> <<>>, since |-> Len(versions)]]
    /\ UNCHANGED <<feedVars, configVars>>

AfterRead(e) ==
    [rule |-> e.rule + 1, read |-> Append(e.read, runtime), since |-> e.since]

(* Mutant, part of no specification: get_config copies without the lock.   *)
ReadUnlocked(t) ==
    /\ eval[t].rule \in 1..3
    /\ eval' = [eval EXCEPT ![t] = AfterRead(@)]
    /\ UNCHANGED <<feedVars, configVars, requests>>

(* The rule takes one copy of the thresholds.                              *)
ReadThresholds(t) ==
    /\ eval[t].rule \in 1..3 /\ holder = {}
    /\ eval' = [eval EXCEPT ![t] = AfterRead(@)]
    /\ UNCHANGED <<feedVars, configVars, requests>>

LookUp(t) ==
    /\ eval[t].rule = 4 /\ Ask(t)
    /\ eval' = [eval EXCEPT ![t].rule = 5]
    /\ UNCHANGED <<configVars, requests>>

(* is_known_malicious has returned or raised; evaluate swallows the latter.*)
Evaluated(t) ==
    /\ eval[t].rule = 5 /\ In(t, "idle")
    /\ eval' = [eval EXCEPT ![t] = NoEvent]
    /\ UNCHANGED <<feedVars, configVars, requests>>

Step(t) ==
    \/ ReadThresholds(t) \/ LookUp(t) \/ Evaluated(t)
    \/ FeedStep(t) /\ UNCHANGED <<configVars, evalVars>>
    \/ ConfigStep(t) /\ UNCHANGED <<feedVars, evalVars>>

Request(t) ==
    /\ Free(t) /\ requests < MaxRequests
    /\ requests' = requests + 1
    /\ \/ Evaluate(t)
       \/ (Ask(t) \/ Reload(t)) /\ UNCHANGED <<configVars, eval>>
       \/ (Reset(t) \/ \E p \in Patches : Patch(t, p)) /\ UNCHANGED <<feedVars, eval>>

Next ==
    \/ \E t \in Threads : Request(t) \/ Step(t)
    \/ \E s \in Sources : Publish(s) /\ UNCHANGED <<configVars, evalVars>>

(* A thread that can go on does; a fetch ends, having a timeout.           *)
Spec == Init /\ [][Next]_vars /\ \A t \in Threads : WF_vars(Step(t))

-----------------------------------------------------------------------------
(* Properties.                                                             *)

(* Every variable has its type; whatever is sent, every threshold stays    *)
(* within its limits.                                                      *)
TypeOK ==
    /\ FeedTypeOK
    /\ runtime \in Configs /\ holder \subseteq Threads
    /\ \A t \in Threads :
        /\ update[t].pc \in {"idle", "patch", "reset", "answer"}
        /\ DOMAIN update[t].todo \subseteq Keys
        /\ eval[t].rule \in 0..5 /\ Len(eval[t].read) <= 3
    /\ versions \in Seq(Configs)
    /\ requests \in 0..MaxRequests

(* The rules of one event may be evaluated with different thresholds, but  *)
(* each with a configuration that some update had left whole, none with an *)
(* older one than a rule before it, and none with one that was replaced    *)
(* before the event came in.                                               *)
RulesSeeVersions ==
    /\ UpdatesAreWhole
    /\ \A t \in Threads :
        LET n == Len(eval[t].read) IN
        n > 0 =>
            \E f \in [1..n -> eval[t].since..Len(versions)] :
                /\ \A i \in 1..n : eval[t].read[i] = versions[f[i]]
                /\ \A i \in 2..n : f[i - 1] <= f[i]

(* Every call ends: neither of the two locks of the feed nor that of the   *)
(* thresholds is waited for in vain, even when loads raise.                *)
EveryCallEnds == \A t \in Threads : ~Free(t) ~> Free(t)

=============================================================================
