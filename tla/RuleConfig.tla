----------------------------- MODULE RuleConfig -----------------------------
(***************************************************************************)
(* The thresholds of the rules, changed while the server runs              *)
(* (server/detection/rule_config.py, PATCH /api/v1/config).  An update     *)
(* writes one key after another, under the lock that get_config takes for  *)
(* its copy.  A value is an integer or NotAnInt; Keys are those of         *)
(* _runtime, and what a PATCH carries may have others.                     *)
(***************************************************************************)
EXTENDS RequestThreads, Sequences

CONSTANTS
    NotAnInt,     \* any JSON value that is no integer, a Boolean included
    Keys,         \* keys of _runtime
    HourKeys,     \* those of _RANGE_CONSTRAINTS
    Defaults,     \* the values from the environment
    Patches       \* bodies that PATCH may carry, functions from keys to values

ASSUME ConfigAssumption ==
    /\ HourKeys \subseteq Keys
    /\ Defaults \in [Keys -> Int]
    /\ NotAnInt \notin Int

VARIABLES
    runtime,   \* _runtime
    holder,    \* threads that hold _lock
    update,    \* per thread: the update under way
    versions   \* history: every configuration an update has left, oldest first

Nothing == [k \in {} |-> 0]
NoUpdate == [pc |-> "idle", todo |-> Nothing]
configVars == <<runtime, holder, update, versions>>

Largest == 2147483647
Limits(key) == IF key \in HourKeys THEN 0..23 ELSE 1..Largest

(* Mutant, part of no specification: the kind of a value is looked at, its *)
(* range is not.                                                           *)
AcceptedUnbounded(patch) == {k \in DOMAIN patch \cap Keys : patch[k] # NotAnInt}

(* What update_config accepts of a body; the rest is reported as errors.   *)
Accepted(patch) == {k \in DOMAIN patch \cap Keys : patch[k] # NotAnInt /\ patch[k] \in Limits(k)}
Validated(patch) == [k \in Accepted(patch) |-> patch[k]]

ConfigInit ==
    /\ runtime = Defaults
    /\ holder = {}
    /\ update = [t \in Threads |-> NoUpdate]
    /\ versions = <<Defaults>>

Updating == {t \in Threads : update[t].pc # "idle"}
Begin(t, pc, values) ==
    /\ t \notin Updating
    /\ update' = [update EXCEPT ![t] = [pc |-> pc, todo |-> values]]
    /\ UNCHANGED <<runtime, holder, versions>>

(* update_config has checked all values before it takes the lock.          *)
Patch(t, patch) == Begin(t, "patch", Validated(patch))

(* reset_to_defaults, which only tests call.                               *)
Reset(t) == Begin(t, "reset", Defaults)

Waits(t) == update[t].pc \in {"patch", "reset"} /\ t \notin holder

TakeLock(t) ==
    /\ Waits(t) /\ holder = {}
    /\ holder' = {t}
    /\ UNCHANGED <<runtime, update, versions>>

Rest(todo, key) == [k \in DOMAIN todo \ {key} |-> todo[k]]

WriteKey(t, key) ==
    /\ t \in holder /\ key \in DOMAIN update[t].todo
    /\ runtime' = [runtime EXCEPT ![key] = update[t].todo[key]]
    /\ update' = [update EXCEPT ![t].todo = Rest(@, key)]
    /\ UNCHANGED <<holder, versions>>

(* The update is complete.  A PATCH goes on to the configuration it        *)
(* answers with, which it reads in a second acquisition of the lock.       *)
ReleaseLock(t) ==
    /\ t \in holder /\ update[t].todo = Nothing
    /\ holder' = holder \ {t}
    /\ versions' = Append(versions, runtime)
    /\ update' = [update EXCEPT ![t] =
            IF @.pc = "reset" THEN NoUpdate ELSE [@ EXCEPT !.pc = "answer"]]
    /\ UNCHANGED runtime

Answer(t) ==
    /\ update[t].pc = "answer" /\ holder = {}
    /\ update' = [update EXCEPT ![t] = NoUpdate]
    /\ UNCHANGED <<runtime, holder, versions>>

ConfigStep(t) ==
    \/ TakeLock(t) \/ ReleaseLock(t) \/ Answer(t)
    \/ \E key \in Keys : WriteKey(t, key)

-----------------------------------------------------------------------------
(* Properties.                                                             *)

Configs == {c \in [Keys -> Int] : \A k \in Keys : c[k] \in Limits(k)}

(* No PATCH undoes another: each configuration is the one before it with   *)
(* the accepted values of one body, or the defaults, and nothing else.     *)
Overridden(config, values) ==
    [k \in Keys |-> IF k \in DOMAIN values THEN values[k] ELSE config[k]]
UpdatesAreWhole ==
    \A i \in 2..Len(versions) :
        \/ versions[i] = Defaults
        \/ \E p \in Patches : versions[i] = Overridden(versions[i - 1], Validated(p))

=============================================================================
