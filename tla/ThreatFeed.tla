----------------------------- MODULE ThreatFeed -----------------------------
(***************************************************************************)
(* The threat feed of server/detection/threat_feed.py: a set in memory,    *)
(* loaded from a file and a URL on first use under _load_lock, and by      *)
(* POST /api/v1/threat_feed/reload at any time without it; _feed_lock      *)
(* guards the set only while it is replaced or read, which is one step.    *)
(*                                                                         *)
(* What a source offers is a number, its version; 0 is the empty set that  *)
(* a failed read leaves.  The set in memory is what was read of each       *)
(* source.  add_entry, which no code of the server calls, is left out.     *)
(***************************************************************************)
EXTENDS RequestThreads

CONSTANT MaxVersion   \* bound of the model: versions of a source

ASSUME FeedAssumption == MaxVersion \in Nat \ {0}

VARIABLES
    offer,     \* per source: the version it offers now
    known,     \* _known_malicious, per source the version it came from
    loaded,    \* _loaded
    loadLock,  \* threads that hold _load_lock
    call,      \* per thread: where it is in a call, and what it has read
    fetched,   \* history: first-use loads begun, less those that raised
    alone      \* history: threads in a reload during which no other one has swapped

Sources == {"file", "url"}
Empty == [s \in Sources |-> 0]
NoCall == [pc |-> "idle", first |-> FALSE, read |-> Empty]

feedHistory == <<fetched, alone>>
feedVars == <<offer, known, loaded, loadLock, call, feedHistory>>

FeedInit ==
    /\ offer = [s \in Sources |-> 1]
    /\ known = Empty /\ loaded = FALSE
    /\ loadLock = {}
    /\ call = [t \in Threads |-> NoCall]
    /\ fetched = 0 /\ alone = {}

In(t, place) == call[t].pc = place
FeedGoto(t, place) == call' = [call EXCEPT ![t].pc = place]
FeedRead(t, s, v, place) ==
    call' = [call EXCEPT ![t] = [pc |-> place, first |-> @.first,
                                 read |-> [@.read EXCEPT ![s] = v]]]
Done(t) == call' = [call EXCEPT ![t] = NoCall]

(* The file is edited, the provider publishes.                             *)
Publish(s) ==
    /\ offer[s] < MaxVersion
    /\ offer' = [offer EXCEPT ![s] = @ + 1]
    /\ UNCHANGED <<known, loaded, loadLock, call, feedHistory>>

-----------------------------------------------------------------------------
(* _ensure_loaded, called first by is_known_malicious and get_feed.        *)

Ask(t) ==
    /\ In(t, "idle")
    /\ FeedGoto(t, IF loaded THEN "match" ELSE "wait")
    /\ UNCHANGED <<offer, known, loaded, loadLock, feedHistory>>

(* Mutant, part of no specification: who finds the lock taken goes on.     *)
GoOnUnloaded(t) ==
    /\ In(t, "wait")
    /\ IF loaded \/ loadLock # {}
       THEN FeedGoto(t, "match") /\ UNCHANGED <<loadLock, feedHistory>>
       ELSE /\ loadLock' = {t}
            /\ call' = [call EXCEPT ![t] = [pc |-> "file", first |-> TRUE, read |-> Empty]]
            /\ fetched' = fetched + 1 /\ alone' = alone \cup {t}
    /\ UNCHANGED <<offer, known, loaded>>

(* The lock is free: look again, and if need be keep it for a reload.      *)
TakeLoadLock(t) ==
    /\ In(t, "wait") /\ loadLock = {}
    /\ IF loaded
       THEN FeedGoto(t, "match") /\ UNCHANGED <<loadLock, feedHistory>>
       ELSE /\ loadLock' = {t}
            /\ call' = [call EXCEPT ![t] = [pc |-> "file", first |-> TRUE, read |-> Empty]]
            /\ fetched' = fetched + 1 /\ alone' = alone \cup {t}
    /\ UNCHANGED <<offer, known, loaded>>

(* is_known_malicious and get_feed, on the loaded set.                     *)
Match(t) ==
    /\ In(t, "match")
    /\ Done(t)
    /\ UNCHANGED <<offer, known, loaded, loadLock, feedHistory>>

-----------------------------------------------------------------------------
(* reload(): two reads, each of a source that may fail, then the swap.     *)

Reload(t) ==
    /\ In(t, "idle")
    /\ FeedGoto(t, "file")
    /\ alone' = alone \cup {t}
    /\ UNCHANGED <<offer, known, loaded, loadLock, fetched>>

(* _load_local: what the file holds, or nothing after an OSError.          *)
LoadLocal(t) ==
    /\ In(t, "file")
    /\ \E v \in {offer["file"], 0} : FeedRead(t, "file", v, "url")
    /\ UNCHANGED <<offer, known, loaded, loadLock, feedHistory>>

(* Mutant, part of no specification: the first response is kept for ever.  *)
CachedRemote(t) ==
    /\ In(t, "url")
    /\ \E v \in {offer["url"], 1} : FeedRead(t, "url", v, "swap")
    /\ UNCHANGED <<offer, known, loaded, loadLock, feedHistory>>

(* _load_remote: the same of the URL.                                      *)
LoadRemote(t) ==
    /\ In(t, "url")
    /\ \E v \in {offer["url"], 0} : FeedRead(t, "url", v, "swap")
    /\ UNCHANGED <<offer, known, loaded, loadLock, feedHistory>>

(* Mutant, part of no specification: one lock for both, as the comment on  *)
(* _load_lock warns.                                                       *)
SwapUnderOneLock(t) ==
    /\ In(t, "swap") /\ loadLock = {}
    /\ known' = call[t].read /\ loaded' = TRUE
    /\ alone' = {}
    /\ IF call[t].first THEN FeedGoto(t, "match") ELSE Done(t)
    /\ UNCHANGED <<offer, loadLock, fetched>>

(* The set is replaced; a first-use load then gives _load_lock back.       *)
Swap(t) ==
    /\ In(t, "swap")
    /\ known' = call[t].read /\ loaded' = TRUE
    /\ loadLock' = loadLock \ {t}
    /\ alone' = {}
    /\ IF call[t].first THEN FeedGoto(t, "match") ELSE Done(t)
    /\ UNCHANGED <<offer, fetched>>

(* A read raises what its handler does not name (a file that is not UTF-8, *)
(* a response cut short): nothing is replaced, and the call ends.          *)
ReloadRaises(t) ==
    /\ call[t].pc \in {"file", "url"}
    /\ loadLock' = loadLock \ {t}
    /\ fetched' = IF call[t].first THEN fetched - 1 ELSE fetched
    /\ alone' = alone \ {t}
    /\ Done(t)
    /\ UNCHANGED <<offer, known, loaded>>

FeedStep(t) ==
    \/ TakeLoadLock(t) \/ Match(t)
    \/ LoadLocal(t) \/ LoadRemote(t) \/ Swap(t) \/ ReloadRaises(t)

-----------------------------------------------------------------------------
(* Properties.                                                             *)

Calls == [pc : {"idle", "wait", "file", "url", "swap", "match"}, first : BOOLEAN,
          read : [Sources -> 0..MaxVersion]]

FeedTypeOK ==
    /\ offer \in [Sources -> 1..MaxVersion] /\ known \in [Sources -> 0..MaxVersion]
    /\ loaded \in BOOLEAN /\ loadLock \subseteq Threads
    /\ call \in [Threads -> Calls]
    /\ fetched \in Nat /\ alone \subseteq Threads

(* "Fetching at most once": however many requests meet a cold feed, one at *)
(* a time loads it, a second only after the first has raised, and none of  *)
(* them looks its device up in the empty set from before the load.         *)
FetchedOnce ==
    /\ fetched <= 1
    /\ \A t, u \in Threads : call[t].first /\ call[u].first /\ call[t].pc # "match"
                             /\ call[u].pc # "match" => t = u
    /\ \A t \in Threads : In(t, "match") => loaded

(* Reloads that overlap may swap in either order, the older result last.   *)
(* But a reload during which no other one has swapped never brings back    *)
(* what was withdrawn before it began: of each source it puts a version in *)
(* place no older than the one that was there, or nothing.                 *)
ReloadsGoForward ==
    [][\A t \in Threads :
        Swap(t) /\ t \in alone
            => \A s \in Sources : known'[s] = 0 \/ known'[s] >= known[s]]_feedVars

=============================================================================
