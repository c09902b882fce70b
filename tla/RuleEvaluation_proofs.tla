------------------------ MODULE RuleEvaluation_proofs -----------------------
(***************************************************************************)
(* Proofs about RuleEvaluation, for any threads, keys, bodies of PATCH and *)
(* bounds: the feed is fetched once and never goes back, an update is      *)
(* whole and no rule sees half of one.                                     *)
(***************************************************************************)
EXTENDS RuleEvaluation, SequenceTheorems, TLAPS

-----------------------------------------------------------------------------
(* The feed.                                                               *)

Loading(t) == call[t].first /\ call[t].pc \in {"file", "url", "swap"}
NotBack(t, s) == call[t].read[s] = 0 \/ call[t].read[s] >= known[s]

(* The lock is held by the one thread in a first-use load, which is what   *)
(* fetched counts until the feed is loaded; and what a reload that is      *)
(* still alone has read so far is not older than what it will replace.     *)
FeedInv ==
    /\ FeedTypeOK
    /\ \A t \in Threads : call[t].pc \in {"idle", "wait"} => ~call[t].first
    /\ \A t \in Threads : t \in loadLock <=> Loading(t)
    /\ \A t, u \in loadLock : t = u
    /\ fetched \in {0, 1}
    /\ loadLock # {} => fetched = 1
    /\ loadLock = {} /\ ~loaded => fetched = 0
    /\ \A t \in Threads : In(t, "match") => loaded
    /\ \A s \in Sources : known[s] <= offer[s]
    /\ \A t \in Threads, s \in Sources : call[t].read[s] <= offer[s]
    /\ \A t \in alone :
        /\ call[t].pc \in {"url", "swap"} => NotBack(t, "file")
        /\ call[t].pc = "swap" => NotBack(t, "url")

(* What a step makes of its own thread's call, and of the others'.         *)
LEMMA CallsChange ==
    ASSUME FeedTypeOK, NEW t \in Threads, NEW c \in Calls, call' = [call EXCEPT ![t] = c]
    PROVE  /\ call' \in [Threads -> Calls]
           /\ \A u \in Threads : call'[u] = IF u = t THEN c ELSE call[u]
BY DEF FeedTypeOK

LEMMA PublishKeeps ==
    ASSUME FeedInv, NEW s \in Sources, Publish(s)
    PROVE  FeedInv'
<1>1. /\ offer[s] < MaxVersion /\ offer' = [offer EXCEPT ![s] = @ + 1]
      /\ UNCHANGED <<known, loaded, loadLock, call, fetched, alone>>
  BY DEF Publish, feedHistory
<1>2. offer \in [Sources -> 1..MaxVersion]
  BY DEF FeedInv, FeedTypeOK
<1>3. offer' \in [Sources -> 1..MaxVersion] /\ \A r \in Sources : offer'[r] >= offer[r]
  BY <1>1, <1>2, FeedAssumption
<1>4. FeedTypeOK'
  BY <1>1, <1>3 DEF FeedInv, FeedTypeOK
<1>5. \A r \in Sources : known'[r] <= offer'[r]
  BY <1>1, <1>2, <1>3, FeedAssumption DEF FeedInv, FeedTypeOK
<1>6. \A t \in Threads, r \in Sources : call'[t].read[r] <= offer'[r]
  <2> SUFFICES ASSUME NEW t \in Threads, NEW r \in Sources PROVE call[t].read[r] <= offer'[r]
    BY <1>1
  <2>1. call[t].read[r] \in 0..MaxVersion /\ call[t].read[r] <= offer[r]
    BY DEF FeedInv, FeedTypeOK, Calls
  <2> QED
    BY <2>1, <1>2, <1>3, FeedAssumption
<1> QED
  BY <1>1, <1>4, <1>5, <1>6 DEF FeedInv, Loading, NotBack, In

(* Steps that change no set and read nothing: where the thread goes.       *)
LEMMA GotoKeeps ==
    ASSUME FeedInv, NEW t \in Threads, Ask(t) \/ TakeLoadLock(t) \/ Match(t) \/ Reload(t)
    PROVE  FeedInv'
<1> USE DEF In
<1>1. call[t] \in Calls /\ UNCHANGED <<offer, known, loaded>>
  BY DEF FeedInv, FeedTypeOK, Ask, TakeLoadLock, Match, Reload
<1>2. \A v \in 0..MaxVersion, s \in Sources : NoCall.read[s] <= offer[s]
  BY FeedAssumption DEF FeedInv, FeedTypeOK, NoCall, Empty
<1>3. NoCall \in Calls /\ NoCall.pc = "idle" /\ NoCall.first = FALSE
  BY FeedAssumption DEF NoCall, Calls, Empty
<1>4. \A place \in {"idle", "wait", "file", "url", "swap", "match"} :
        [call[t] EXCEPT !.pc = place] \in Calls
  BY <1>1 DEF Calls
<1>5. CASE Ask(t)
  <2> DEFINE place == IF loaded THEN "match" ELSE "wait"
             c == [call[t] EXCEPT !.pc = place]
  <2>1. /\ call[t].pc = "idle" /\ call' = [call EXCEPT ![t] = c]
        /\ UNCHANGED <<loadLock, fetched, alone>>
    BY <1>5 DEF Ask, FeedGoto, feedHistory
  <2>2. c \in Calls /\ c.pc = place /\ c.first = call[t].first /\ c.read = call[t].read
    BY <1>1, <1>4 DEF Calls
  <2> HIDE DEF c
  <2>3. /\ call' \in [Threads -> Calls]
        /\ \A u \in Threads : call'[u] = IF u = t THEN c ELSE call[u]
    BY <2>1, <2>2, CallsChange DEF FeedInv
  <2> QED
    BY <1>1, <2>1, <2>2, <2>3 DEF FeedInv, FeedTypeOK, Loading, NotBack
<1>6. CASE TakeLoadLock(t) /\ loaded
  <2> DEFINE c == [call[t] EXCEPT !.pc = "match"]
  <2>1. /\ call[t].pc = "wait" /\ call' = [call EXCEPT ![t] = c]
        /\ UNCHANGED <<loadLock, fetched, alone>>
    BY <1>6 DEF TakeLoadLock, FeedGoto, feedHistory
  <2>2. c \in Calls /\ c.pc = "match" /\ c.first = call[t].first /\ c.read = call[t].read
    BY <1>1, <1>4 DEF Calls
  <2> HIDE DEF c
  <2>3. /\ call' \in [Threads -> Calls]
        /\ \A u \in Threads : call'[u] = IF u = t THEN c ELSE call[u]
    BY <2>1, <2>2, CallsChange DEF FeedInv
  <2> QED
    BY <1>1, <1>6, <2>1, <2>2, <2>3 DEF FeedInv, FeedTypeOK, Loading, NotBack
<1>7. CASE TakeLoadLock(t) /\ ~loaded
  <2> DEFINE c == [pc |-> "file", first |-> TRUE, read |-> Empty]
  <2>1. /\ call[t].pc = "wait" /\ call' = [call EXCEPT ![t] = c]
        /\ loadLock = {} /\ loadLock' = {t}
        /\ fetched' = fetched + 1 /\ alone' = alone \cup {t}
    BY <1>7 DEF TakeLoadLock
  <2>2. c \in Calls /\ c.pc = "file" /\ c.first = TRUE /\ \A s \in Sources : c.read[s] <= offer[s]
    BY FeedAssumption DEF Calls, Empty, FeedInv, FeedTypeOK
  <2> HIDE DEF c
  <2>3. /\ call' \in [Threads -> Calls]
        /\ \A u \in Threads : call'[u] = IF u = t THEN c ELSE call[u]
    BY <2>1, <2>2, CallsChange DEF FeedInv
  <2>4. fetched = 0
    BY <1>7, <2>1 DEF FeedInv
  <2> QED
    BY <1>1, <1>7, <2>1, <2>2, <2>3, <2>4 DEF FeedInv, FeedTypeOK, Loading, NotBack
<1>8. CASE Match(t)
  <2>1. /\ call[t].pc = "match" /\ call' = [call EXCEPT ![t] = NoCall]
        /\ UNCHANGED <<loadLock, fetched, alone>>
    BY <1>8 DEF Match, Done, feedHistory
  <2>2. /\ call' \in [Threads -> Calls]
        /\ \A u \in Threads : call'[u] = IF u = t THEN NoCall ELSE call[u]
    BY <2>1, <1>3, CallsChange DEF FeedInv
  <2>3. \A s \in Sources : NoCall.read[s] <= offer[s]
    BY <1>2, FeedAssumption
  <2> QED
    BY <1>1, <1>3, <2>1, <2>2, <2>3 DEF FeedInv, FeedTypeOK, Loading, NotBack
<1>9. CASE Reload(t)
  <2> DEFINE c == [call[t] EXCEPT !.pc = "file"]
  <2>1. /\ call[t].pc = "idle" /\ call' = [call EXCEPT ![t] = c]
        /\ alone' = alone \cup {t} /\ UNCHANGED <<loadLock, fetched>>
    BY <1>9 DEF Reload, FeedGoto
  <2>2. c \in Calls /\ c.pc = "file" /\ c.first = call[t].first /\ c.read = call[t].read
    BY <1>1, <1>4 DEF Calls
  <2> HIDE DEF c
  <2>3. /\ call' \in [Threads -> Calls]
        /\ \A u \in Threads : call'[u] = IF u = t THEN c ELSE call[u]
    BY <2>1, <2>2, CallsChange DEF FeedInv
  <2> QED
    BY <1>1, <2>1, <2>2, <2>3 DEF FeedInv, FeedTypeOK, Loading, NotBack
<1> QED
  BY <1>5, <1>6, <1>7, <1>8, <1>9

(* What a source offers is not older than what was read of it before.      *)
LEMMA ReadKeeps ==
    ASSUME FeedInv, NEW t \in Threads, LoadLocal(t) \/ LoadRemote(t)
    PROVE  FeedInv'
<1> USE DEF In
<1>1. PICK s \in Sources, place \in {"url", "swap"}, v \in 0..MaxVersion :
        /\ v \in {offer[s], 0}
        /\ s = "file" => call[t].pc = "file" /\ place = "url"
        /\ s = "url" => call[t].pc = "url" /\ place = "swap"
        /\ FeedRead(t, s, v, place)
        /\ UNCHANGED <<offer, known, loaded, loadLock, fetched, alone>>
  <2>1. \A s \in Sources : offer[s] \in 0..MaxVersion /\ 0 \in 0..MaxVersion
    BY FeedAssumption DEF FeedInv, FeedTypeOK
  <2>2. "file" \in Sources /\ "url" \in Sources
    BY DEF Sources
  <2>3. CASE LoadLocal(t)
    <3>1. PICK v \in {offer["file"], 0} : FeedRead(t, "file", v, "url")
      BY <2>3 DEF LoadLocal
    <3> QED
      BY <3>1, <2>1, <2>2, <2>3 DEF LoadLocal, feedHistory
  <2>4. CASE LoadRemote(t)
    <3>1. PICK v \in {offer["url"], 0} : FeedRead(t, "url", v, "swap")
      BY <2>4 DEF LoadRemote
    <3> QED
      BY <3>1, <2>1, <2>2, <2>4 DEF LoadRemote, feedHistory
  <2> QED
    BY <2>3, <2>4
<1> DEFINE c == [pc |-> place, first |-> call[t].first,
                 read |-> [call[t].read EXCEPT ![s] = v]]
<1>2. call[t] \in Calls /\ call \in [Threads -> Calls]
  BY DEF FeedInv, FeedTypeOK
<1>3. v \in 0..MaxVersion /\ v <= offer[s] /\ offer[s] \in 1..MaxVersion /\ known[s] <= offer[s]
  <2>1. offer[s] \in 1..MaxVersion /\ known[s] <= offer[s]
    BY DEF FeedInv, FeedTypeOK
  <2> QED
    BY <1>1, <2>1, FeedAssumption
<1>4. c \in Calls /\ c.pc = place /\ c.first = call[t].first
      /\ \A r \in Sources : c.read[r] = IF r = s THEN v ELSE call[t].read[r]
  BY <1>2, <1>3 DEF Calls
<1>5. call' = [call EXCEPT ![t] = c]
  BY <1>1 DEF FeedRead
<1> HIDE DEF c
<1>6. /\ call' \in [Threads -> Calls]
      /\ \A u \in Threads : call'[u] = IF u = t THEN c ELSE call[u]
  BY <1>4, <1>5, CallsChange DEF FeedInv
<1>7. FeedTypeOK'
  BY <1>1, <1>6 DEF FeedInv, FeedTypeOK
<1>8. \A u \in Threads, r \in Sources : call'[u].read[r] <= offer'[r]
  BY <1>1, <1>3, <1>4, <1>6 DEF FeedInv
<1>9. v = 0 \/ v >= known[s]
  BY <1>1, <1>3
<1>10. s \in {"file", "url"}
  BY DEF Sources
<1>11. ASSUME NEW u \in alone'
       PROVE  /\ call'[u].pc \in {"url", "swap"} => NotBack(u, "file")'
              /\ call'[u].pc = "swap" => NotBack(u, "url")'
  <2>1. CASE u = t
    BY <2>1, <1>1, <1>4, <1>6, <1>9, <1>10, <1>11 DEF FeedInv, NotBack, Sources
  <2>2. CASE u # t
    <3>1. u \in Threads /\ call'[u] = call[u]
      BY <2>2, <1>1, <1>6, <1>11 DEF FeedInv, FeedTypeOK
    <3> QED
      BY <3>1, <1>1, <1>11 DEF FeedInv, NotBack
  <2> QED
    BY <2>1, <2>2
<1>12. \A u \in Threads : Loading(u)' <=> Loading(u)
  BY <1>1, <1>4, <1>6, <1>10 DEF Loading
<1> QED
  BY <1>1, <1>4, <1>6, <1>7, <1>8, <1>10, <1>11, <1>12 DEF FeedInv

LEMMA EndKeeps ==
    ASSUME FeedInv, NEW t \in Threads, Swap(t) \/ ReloadRaises(t)
    PROVE  FeedInv'
<1> USE DEF In
<1>1. call[t] \in Calls /\ UNCHANGED offer
  BY DEF FeedInv, FeedTypeOK, Swap, ReloadRaises
<1>2. NoCall \in Calls /\ NoCall.pc = "idle" /\ NoCall.first = FALSE
      /\ \A s \in Sources : NoCall.read[s] <= offer[s]
  BY FeedAssumption DEF NoCall, Calls, Empty, FeedInv, FeedTypeOK
<1>3. t \in loadLock => loadLock = {t} /\ fetched = 1
  BY DEF FeedInv, FeedTypeOK
<1>4. (call[t].first <=> t \in loadLock) /\ call[t].pc \in {"file", "url", "swap"}
  BY <1>1 DEF FeedInv, Loading, Swap, ReloadRaises, Calls
<1>5. CASE Swap(t)
  <2> DEFINE m == [pc |-> "match", first |-> call[t].first, read |-> call[t].read]
             c == IF call[t].first THEN m ELSE NoCall
  <2>0. m \in Calls /\ m = [call[t] EXCEPT !.pc = "match"]
    BY <1>1 DEF Calls
  <2>1. /\ known' = call[t].read /\ loaded' = TRUE
        /\ loadLock' = loadLock \ {t} /\ alone' = {} /\ UNCHANGED fetched
        /\ call' = [call EXCEPT ![t] = c]
    BY <1>5, <2>0 DEF Swap, FeedGoto, Done
  <2>2. c \in Calls /\ (c.pc = "match" \/ (c.pc = "idle" /\ ~c.first))
        /\ \A s \in Sources : c.read[s] <= offer[s]
    <3>1. CASE call[t].first
      <4>1. c = m /\ m.pc = "match" /\ m.read = call[t].read
        BY <3>1
      <4>2. m \in Calls
        BY <2>0
      <4> HIDE DEF m, c
      <4>3. \A s \in Sources : call[t].read[s] <= offer[s]
        BY DEF FeedInv
      <4>4. \A s \in Sources : c.read[s] <= offer[s]
        BY <4>1, <4>3
      <4> QED
        BY <4>1, <4>2, <4>4
    <3>2. CASE ~call[t].first
      <4>1. c = NoCall
        BY <3>2
      <4> HIDE DEF c
      <4> QED
        BY <1>2, <4>1
    <3> QED
      BY <3>1, <3>2
  <2> HIDE DEF c
  <2>3. /\ call' \in [Threads -> Calls]
        /\ \A u \in Threads : call'[u] = IF u = t THEN c ELSE call[u]
    BY <2>1, <2>2, CallsChange DEF FeedInv
  <2>4. FeedTypeOK'
    BY <1>1, <2>1, <2>3 DEF FeedInv, FeedTypeOK, Calls
  <2>5. /\ \A s \in Sources : known'[s] <= offer'[s]
        /\ \A u \in Threads, s \in Sources : call'[u].read[s] <= offer'[s]
    BY <1>1, <2>1, <2>2, <2>3 DEF FeedInv
  <2>6. \A u \in Threads : u \in loadLock' <=> Loading(u)'
    BY <2>1, <2>2, <2>3 DEF FeedInv, Loading
  <2> QED
    BY <1>3, <2>1, <2>2, <2>3, <2>4, <2>5, <2>6 DEF FeedInv
<1>6. CASE ReloadRaises(t)
  <2>1. /\ loadLock' = loadLock \ {t} /\ alone' = alone \ {t} /\ UNCHANGED <<known, loaded>>
        /\ fetched' = IF call[t].first THEN fetched - 1 ELSE fetched
        /\ call' = [call EXCEPT ![t] = NoCall]
    BY <1>6 DEF ReloadRaises, Done
  <2>2. /\ call' \in [Threads -> Calls]
        /\ \A u \in Threads : call'[u] = IF u = t THEN NoCall ELSE call[u]
    BY <2>1, <1>2, CallsChange DEF FeedInv
  <2>3. /\ fetched' \in {0, 1}
        /\ loadLock' # {} => fetched' = 1
        /\ loadLock' = {} /\ ~loaded' => fetched' = 0
    BY <1>3, <1>4, <2>1 DEF FeedInv
  <2>4. FeedTypeOK'
    BY <1>1, <2>1, <2>2, <2>3 DEF FeedInv, FeedTypeOK
  <2>5. \A u \in Threads, s \in Sources : call'[u].read[s] <= offer'[s]
    BY <1>1, <1>2, <2>1, <2>2 DEF FeedInv
  <2>6. \A u \in Threads : u \in loadLock' <=> Loading(u)'
    BY <1>2, <2>1, <2>2 DEF FeedInv, Loading
  <2>7. ASSUME NEW u \in alone'
        PROVE  /\ call'[u].pc \in {"url", "swap"} => NotBack(u, "file")'
               /\ call'[u].pc = "swap" => NotBack(u, "url")'
    <3>1. u \in Threads /\ u # t /\ call'[u] = call[u]
      BY <2>1, <2>2, <2>7 DEF FeedInv, FeedTypeOK
    <3> QED
      BY <3>1, <2>1, <2>7 DEF FeedInv, NotBack
  <2> QED
    BY <1>1, <1>2, <1>3, <2>1, <2>2, <2>3, <2>4, <2>5, <2>6, <2>7 DEF FeedInv
<1> QED
  BY <1>5, <1>6

(* A reload that is still alone when it swaps.                             *)
LEMMA SwapGoesForward ==
    ASSUME FeedInv, NEW t \in Threads, Swap(t), t \in alone
    PROVE  \A s \in Sources : known'[s] = 0 \/ known'[s] >= known[s]
BY DEF FeedInv, Swap, In, NotBack, Sources

LEMMA FeedKeeps ==
    ASSUME FeedInv,
           \/ \E s \in Sources : Publish(s)
           \/ \E t \in Threads : Ask(t) \/ Reload(t) \/ FeedStep(t)
           \/ UNCHANGED feedVars
    PROVE  FeedInv'
<1>1. CASE UNCHANGED feedVars
  BY <1>1 DEF feedVars, feedHistory, FeedInv, FeedTypeOK, Loading, NotBack, In
<1> QED
  BY <1>1, PublishKeeps, GotoKeeps, ReadKeeps, EndKeeps DEF FeedStep

-----------------------------------------------------------------------------
(* The thresholds.                                                         *)

Config == [Keys -> Int]
Values == UNION {[D -> Int] : D \in SUBSET Keys}
Update == [pc : {"idle", "patch", "reset", "answer"}, todo : Values]
Latest == versions[Len(versions)]
Whole(old, new) ==
    new = Defaults \/ \E p \in Patches : new = Overridden(old, Validated(p))

(* An update waits for the lock with all it will write, and while it holds *)
(* the lock what it has left to write makes its work whole.                *)
ConfigInv ==
    /\ runtime \in Config /\ holder \subseteq Threads
    /\ versions \in Seq(Config) /\ Len(versions) >= 1
    /\ update \in [Threads -> Update]
    /\ \A t, u \in holder : t = u
    /\ holder = {} => runtime = Latest
    /\ \A t \in holder :
        /\ update[t].pc \in {"patch", "reset"}
        /\ Whole(Latest, Overridden(runtime, update[t].todo))
    /\ \A t \in Threads :
        Waits(t) => update[t].todo = Defaults
                    \/ \E p \in Patches : update[t].todo = Validated(p)
    /\ \A i \in 2..Len(versions) : Whole(versions[i - 1], versions[i])

LEMMA ValuesOf == Defaults \in Values /\ \A p : Validated(p) \in Values
<1>1. Defaults \in Values
  BY ConfigAssumption DEF Values
<1>2. ASSUME NEW p PROVE Validated(p) \in Values
  <2>1. Accepted(p) \in SUBSET Keys /\ Validated(p) \in [Accepted(p) -> Int]
    <3>1. \A k \in Accepted(p) : k \in Keys /\ p[k] \in Limits(k)
      BY DEF Accepted
    <3>2. ASSUME NEW k PROVE Limits(k) \subseteq Int
      <4>1. Largest \in Int
        BY DEF Largest
      <4> QED
        BY <4>1 DEF Limits
    <3>4. ASSUME NEW k \in Accepted(p) PROVE p[k] \in Int
      <4>1. p[k] \in Limits(k)
        BY <3>1
      <4>2. Limits(k) \subseteq Int
        BY <3>2
      <4> QED
        BY <4>1, <4>2
    <3> QED
      BY <3>1, <3>4 DEF Validated
  <2> QED
    BY <2>1 DEF Values
<1> QED
  BY <1>1, <1>2

LEMMA UpdatesChange ==
    ASSUME update \in [Threads -> Update], NEW t \in Threads, NEW u \in Update,
           update' = [update EXCEPT ![t] = u]
    PROVE  /\ update' \in [Threads -> Update]
           /\ \A v \in Threads : update'[v] = IF v = t THEN u ELSE update[v]
OBVIOUS

LEMMA BeginKeeps ==
    ASSUME ConfigInv, NEW t \in Threads, Reset(t) \/ \E p \in Patches : Patch(t, p)
    PROVE  ConfigInv'
<1>1. PICK pc \in {"patch", "reset"}, values \in Values :
        /\ Begin(t, pc, values)
        /\ values = Defaults \/ \E p \in Patches : values = Validated(p)
  BY ValuesOf DEF Reset, Patch
<1> DEFINE new == [pc |-> pc, todo |-> values]
<1>2. new \in Update /\ new.pc = pc /\ new.todo = values
  BY DEF Update
<1>3. /\ update[t].pc = "idle"
      /\ update' = [update EXCEPT ![t] = new]
      /\ UNCHANGED <<runtime, holder, versions>>
  BY <1>1 DEF Begin, Updating
<1> HIDE DEF new
<1>4. t \notin holder
  BY <1>3 DEF ConfigInv
<1>5. /\ update' \in [Threads -> Update]
      /\ \A u \in Threads : update'[u] = IF u = t THEN new ELSE update[u]
  BY <1>2, <1>3, UpdatesChange DEF ConfigInv
<1> QED
  BY <1>1, <1>2, <1>3, <1>4, <1>5 DEF ConfigInv, Waits, Latest, Whole, Overridden

LEMMA LockKeeps ==
    ASSUME ConfigInv, NEW t \in Threads, TakeLock(t)
    PROVE  ConfigInv'
<1>1. /\ Waits(t) /\ holder = {} /\ holder' = {t}
      /\ UNCHANGED <<runtime, update, versions>>
  BY DEF TakeLock
<1>2. runtime = Latest /\ update[t].pc \in {"patch", "reset"}
  BY <1>1 DEF ConfigInv, Waits
<1>3. Whole(Latest, Overridden(runtime, update[t].todo))
  <2>1. CASE update[t].todo = Defaults
    <3>1. Overridden(runtime, Defaults) = Defaults
      BY ConfigAssumption DEF Overridden
    <3> QED
      BY <2>1, <3>1 DEF Whole
  <2>2. CASE \E p \in Patches : update[t].todo = Validated(p)
    BY <2>2, <1>2 DEF Whole
  <2> QED
    BY <1>1, <2>1, <2>2 DEF ConfigInv
<1>4. \A u \in Threads : Waits(u)' => Waits(u)
  BY <1>1 DEF Waits
<1>5. Latest' = Latest
  BY <1>1 DEF Latest
<1> QED
  BY <1>1, <1>2, <1>3, <1>4, <1>5 DEF ConfigInv, Whole, Overridden

(* A value moves from what is left to write to what is written.            *)
LEMMA WriteKeeps ==
    ASSUME ConfigInv, NEW t \in Threads, NEW key \in Keys, WriteKey(t, key)
    PROVE  ConfigInv'
<1> DEFINE todo == update[t].todo
           rest == Rest(todo, key)
           new == [update[t] EXCEPT !.todo = rest]
<1>1. /\ t \in holder /\ key \in DOMAIN todo
      /\ runtime' = [runtime EXCEPT ![key] = todo[key]]
      /\ update' = [update EXCEPT ![t] = new]
      /\ UNCHANGED <<holder, versions>>
  BY DEF WriteKey
<1>2. PICK D \in SUBSET Keys : todo \in [D -> Int]
  <2>1. todo \in Values
    BY DEF ConfigInv, Update
  <2> QED
    BY <2>1 DEF Values
<1>3. rest \in [D \ {key} -> Int] /\ \A k \in D \ {key} : rest[k] = todo[k]
  BY <1>2 DEF Rest
<1>4. new \in Update /\ new.pc = update[t].pc /\ new.todo = rest
  <2>1. rest \in Values
    BY <1>3 DEF Values
  <2> QED
    BY <2>1 DEF ConfigInv, Update
<1> HIDE DEF new
<1>5. /\ update' \in [Threads -> Update]
      /\ \A u \in Threads : update'[u] = IF u = t THEN new ELSE update[u]
  BY <1>1, <1>4, UpdatesChange DEF ConfigInv
<1>6. /\ runtime' \in Config
      /\ \A k \in Keys : runtime'[k] = IF k = key THEN todo[k] ELSE runtime[k]
  BY <1>1, <1>2 DEF ConfigInv, Config
<1>7. Overridden(runtime', rest) = Overridden(runtime, todo)
  BY <1>1, <1>2, <1>3, <1>6 DEF Overridden
<1>8. Latest' = Latest
  BY <1>1 DEF Latest
<1>9. Whole(Latest, Overridden(runtime, todo)) /\ holder = {t}
  BY <1>1 DEF ConfigInv
<1>10. \A u \in holder' : /\ update'[u].pc \in {"patch", "reset"}
                          /\ Whole(Latest, Overridden(runtime, update[u].todo))'
  <2>1. update'[t].pc \in {"patch", "reset"} /\ update'[t].todo = rest
    BY <1>1, <1>4, <1>5 DEF ConfigInv
  <2>2. Whole(Latest', Overridden(runtime', rest))
    BY <1>7, <1>8, <1>9
  <2>3. Whole(Latest', Overridden(runtime', update'[t].todo))
    BY <2>1, <2>2
  <2>4. Whole(Latest, Overridden(runtime, update[t].todo))'
    BY <2>3 DEF Whole, Overridden
  <2> QED
    BY <1>1, <1>9, <2>1, <2>4
<1>11. \A u \in Threads : Waits(u)' => Waits(u) /\ update'[u] = update[u]
  BY <1>1, <1>4, <1>5 DEF Waits
<1> QED
  BY <1>1, <1>5, <1>6, <1>8, <1>9, <1>10, <1>11 DEF ConfigInv, Whole, Overridden

(* A version more: what the update has made whole.                         *)
LEMMA ReleaseKeeps ==
    ASSUME ConfigInv, NEW t \in Threads, ReleaseLock(t)
    PROVE  /\ ConfigInv'
           /\ Len(versions') = Len(versions) + 1
           /\ \A i \in 1..Len(versions) : versions'[i] = versions[i]
<1> DEFINE new == IF update[t].pc = "reset" THEN NoUpdate ELSE [update[t] EXCEPT !.pc = "answer"]
<1>1. /\ t \in holder /\ update[t].todo = Nothing
      /\ holder' = holder \ {t}
      /\ versions' = Append(versions, runtime)
      /\ update' = [update EXCEPT ![t] = new]
      /\ UNCHANGED runtime
  BY DEF ReleaseLock
<1>2. holder = {t} /\ holder' = {}
  BY <1>1 DEF ConfigInv
<1>3. new \in Update /\ new.pc \in {"idle", "answer"}
  <2>1. NoUpdate \in Update /\ NoUpdate.pc = "idle"
    <3>1. {} \in SUBSET Keys /\ Nothing \in [{} -> Int]
      BY DEF Nothing
    <3>2. Nothing \in Values
      BY <3>1 DEF Values
    <3> QED
      BY <3>2 DEF NoUpdate, Update
  <2>2. [update[t] EXCEPT !.pc = "answer"] \in Update
        /\ [update[t] EXCEPT !.pc = "answer"].pc = "answer"
    BY DEF ConfigInv, Update
  <2>3. CASE update[t].pc = "reset"
    BY <2>1, <2>3
  <2>4. CASE update[t].pc # "reset"
    BY <2>2, <2>4
  <2> QED
    BY <2>3, <2>4
<1> HIDE DEF new
<1>4. /\ update' \in [Threads -> Update]
      /\ \A u \in Threads : update'[u] = IF u = t THEN new ELSE update[u]
  BY <1>1, <1>3, UpdatesChange DEF ConfigInv
<1>5. /\ versions \in Seq(Config) /\ Len(versions) \in Nat /\ Len(versions) >= 1
      /\ runtime \in Config
  BY LenProperties DEF ConfigInv
<1>6. /\ versions' \in Seq(Config) /\ Len(versions') = Len(versions) + 1
      /\ \A i \in 1..Len(versions) : versions'[i] = versions[i]
      /\ versions'[Len(versions) + 1] = runtime
  <2> HIDE DEF Config
  <2> QED
    BY <1>1, <1>5, AppendProperties
<1>7. Latest' = runtime
  BY <1>6 DEF Latest
<1>8. Overridden(runtime, update[t].todo) = runtime
  <2>1. DOMAIN Nothing = {}
    BY DEF Nothing
  <2>2. Overridden(runtime, Nothing) = runtime
    BY <1>5, <2>1 DEF Overridden, Config
  <2> QED
    BY <1>1, <2>2
<1>9. Whole(versions[Len(versions)], runtime)
  BY <1>1, <1>8 DEF ConfigInv, Latest
<1>10. \A i \in 2..Len(versions') : Whole(versions'[i - 1], versions'[i])
  <2> SUFFICES ASSUME NEW i \in 2..Len(versions) + 1
               PROVE  Whole(versions'[i - 1], versions'[i])
    BY <1>6
  <2>1. CASE i \in 2..Len(versions)
    <3>1. versions'[i] = versions[i] /\ versions'[i - 1] = versions[i - 1]
      BY <1>5, <1>6, <2>1
    <3> QED
      BY <2>1, <3>1 DEF ConfigInv
  <2>2. CASE i = Len(versions) + 1
    <3>1. versions'[i] = runtime /\ versions'[i - 1] = versions[Len(versions)]
      BY <1>5, <1>6, <2>2
    <3> QED
      BY <1>9, <3>1
  <2> QED
    BY <1>5, <2>1, <2>2
<1>11. \A u \in Threads : Waits(u)' => Waits(u) /\ update'[u] = update[u]
  BY <1>2, <1>3, <1>4 DEF Waits
<1>12. /\ runtime' \in Config /\ runtime' = Latest' /\ Len(versions') >= 1
  BY <1>1, <1>5, <1>6, <1>7
<1>13. \A u \in Threads :
          Waits(u)' => \/ update'[u].todo = Defaults
                       \/ \E p \in Patches : update'[u].todo = Validated(p)
  BY <1>11 DEF ConfigInv
<1>14. (\A i \in 2..Len(versions) : Whole(versions[i - 1], versions[i]))'
  BY <1>10 DEF Whole, Overridden
<1>15. ConfigInv'
  BY <1>2, <1>4, <1>6, <1>12, <1>13, <1>14 DEF ConfigInv
<1> QED
  BY <1>6, <1>15

LEMMA AnswerKeeps ==
    ASSUME ConfigInv, NEW t \in Threads, Answer(t)
    PROVE  ConfigInv'
<1>1. /\ update[t].pc = "answer" /\ holder = {}
      /\ update' = [update EXCEPT ![t] = NoUpdate]
      /\ UNCHANGED <<runtime, holder, versions>>
  BY DEF Answer
<1>2. NoUpdate \in Update /\ NoUpdate.pc = "idle"
  <2>1. {} \in SUBSET Keys /\ Nothing \in [{} -> Int]
    BY DEF Nothing
  <2>2. Nothing \in Values
    BY <2>1 DEF Values
  <2> QED
    BY <2>2 DEF NoUpdate, Update
<1>3. /\ update' \in [Threads -> Update]
      /\ \A u \in Threads : update'[u] = IF u = t THEN NoUpdate ELSE update[u]
  BY <1>1, <1>2, UpdatesChange DEF ConfigInv
<1>4. \A u \in Threads : Waits(u)' => Waits(u) /\ update'[u] = update[u]
  BY <1>1, <1>2, <1>3 DEF Waits
<1> QED
  BY <1>1, <1>3, <1>4 DEF ConfigInv, Latest, Whole, Overridden

(* Versions are only added, by one step.                                   *)
Grows ==
    /\ Len(versions') >= Len(versions)
    /\ \A i \in 1..Len(versions) : versions'[i] = versions[i]

LEMMA ConfigKeeps ==
    ASSUME ConfigInv,
           \/ \E t \in Threads : \/ Reset(t) \/ \E p \in Patches : Patch(t, p)
                                 \/ ConfigStep(t)
           \/ UNCHANGED configVars
    PROVE  ConfigInv' /\ Grows
<1>1. Len(versions) \in Nat
  BY LenProperties DEF ConfigInv
<1>2. UNCHANGED versions => Grows
  BY <1>1 DEF Grows
<1>3. CASE UNCHANGED configVars
  <2>1. ConfigInv'
    BY <1>3 DEF configVars, ConfigInv, Latest, Waits, Whole, Overridden
  <2> QED
    BY <1>2, <1>3, <2>1 DEF configVars
<1>4. ASSUME NEW t \in Threads, Reset(t) \/ \E p \in Patches : Patch(t, p)
      PROVE  ConfigInv' /\ Grows
  <2>1. UNCHANGED versions
    BY <1>4 DEF Reset, Patch, Begin
  <2> QED
    BY <1>2, <1>4, <2>1, BeginKeeps
<1>5. ASSUME NEW t \in Threads, TakeLock(t) \/ Answer(t) \/ \E key \in Keys : WriteKey(t, key)
      PROVE  ConfigInv' /\ Grows
  <2>1. UNCHANGED versions
    BY <1>5 DEF TakeLock, Answer, WriteKey
  <2> QED
    BY <1>2, <1>5, <2>1, LockKeeps, AnswerKeeps, WriteKeeps
<1>6. ASSUME NEW t \in Threads, ReleaseLock(t) PROVE ConfigInv' /\ Grows
  <2>1. /\ ConfigInv' /\ Len(versions') = Len(versions) + 1
        /\ \A i \in 1..Len(versions) : versions'[i] = versions[i]
    BY <1>6, ReleaseKeeps
  <2> QED
    BY <1>1, <2>1 DEF Grows
<1> QED
  BY <1>3, <1>4, <1>5, <1>6 DEF ConfigStep

-----------------------------------------------------------------------------
(* The events.                                                             *)

Event == [rule : 0..5, read : Seq(Config), since : Nat]

(* The configurations read are versions, none before another.              *)
Seen(read, since) ==
    \E f \in [1..Len(read) -> since..Len(versions)] :
        /\ \A i \in 1..Len(read) : read[i] = versions[f[i]]
        /\ \A i \in 2..Len(read) : f[i - 1] <= f[i]

EventOK(e) ==
    IF e.rule = 0 THEN e = NoEvent
    ELSE /\ Len(e.read) = IF e.rule = 5 THEN 3 ELSE e.rule - 1
         /\ e.since \in 1..Len(versions)
         /\ Seen(e.read, e.since)

EventsInv ==
    /\ eval \in [Threads -> Event]
    /\ requests \in 0..MaxRequests
    /\ \A t \in Threads : EventOK(eval[t])

LEMMA SeenGrows ==
    ASSUME versions \in Seq(Config), versions' \in Seq(Config), Grows,
           NEW read \in Seq(Config), NEW since \in 1..Len(versions), Seen(read, since)
    PROVE  Seen(read, since)' /\ since \in 1..Len(versions')
<1>1. /\ Len(versions) \in Nat /\ Len(versions') \in Nat /\ Len(versions) <= Len(versions')
      /\ \A i \in 1..Len(versions) : versions'[i] = versions[i]
  BY LenProperties DEF Grows
<1>2. PICK f \in [1..Len(read) -> since..Len(versions)] :
        /\ \A i \in 1..Len(read) : read[i] = versions[f[i]]
        /\ \A i \in 2..Len(read) : f[i - 1] <= f[i]
  BY DEF Seen
<1>3. f \in [1..Len(read) -> since..Len(versions')]
  BY <1>1
<1>4. \A i \in 1..Len(read) : read[i] = versions'[f[i]]
  <2> SUFFICES ASSUME NEW i \in 1..Len(read) PROVE read[i] = versions'[f[i]]
    OBVIOUS
  <2>1. f[i] \in 1..Len(versions)
    <3>1. f[i] \in since..Len(versions)
      BY <1>2
    <3> QED
      BY <1>1, <3>1
  <2> QED
    BY <1>1, <1>2, <2>1
<1>5. Seen(read, since)'
  BY <1>2, <1>3, <1>4 DEF Seen
<1> QED
  BY <1>1, <1>5

(* The configuration in force is the latest version.                       *)
LEMMA SeenAppends ==
    ASSUME versions \in Seq(Config), NEW read \in Seq(Config), NEW since \in 1..Len(versions),
           Seen(read, since), runtime \in Config, runtime = Latest
    PROVE  /\ Append(read, runtime) \in Seq(Config)
           /\ Len(Append(read, runtime)) = Len(read) + 1
           /\ Seen(Append(read, runtime), since)
<1> DEFINE n == Len(read)
           m == Len(versions)
           more == Append(read, runtime)
<1> HIDE DEF Config
<1>1. /\ n \in Nat /\ m \in Nat /\ more \in Seq(Config) /\ Len(more) = n + 1
      /\ \A i \in 1..n : more[i] = read[i]
      /\ more[n + 1] = runtime
  BY AppendProperties, LenProperties
<1>2. PICK f \in [1..n -> since..m] :
        /\ \A i \in 1..n : read[i] = versions[f[i]]
        /\ \A i \in 2..n : f[i - 1] <= f[i]
  BY DEF Seen
<1> DEFINE g == [i \in 1..n + 1 |-> IF i = n + 1 THEN m ELSE f[i]]
<1>3. runtime = versions[m]
  BY DEF Latest
<1> HIDE DEF n, m, more
<1>4. g \in [1..n + 1 -> since..m] /\ g[n + 1] = m /\ \A i \in 1..n : g[i] = f[i]
  <2>1. ASSUME NEW i \in 1..n + 1 PROVE (IF i = n + 1 THEN m ELSE f[i]) \in since..m
    <3>1. CASE i = n + 1
      <4>1. m \in since..m
        BY <1>1 DEF m
      <4> QED
        BY <3>1, <4>1
    <3>2. CASE i # n + 1
      <4>1. i \in 1..n
        BY <1>1, <3>2
      <4> QED
        BY <1>2, <3>2, <4>1
    <3> QED
      BY <3>1, <3>2
  <2>2. g \in [1..n + 1 -> since..m]
    BY <2>1
  <2>3. n + 1 \in 1..n + 1 /\ \A i \in 1..n : i \in 1..n + 1 /\ i # n + 1
    BY <1>1
  <2> QED
    BY <2>2, <2>3
<1> HIDE DEF g
<1>5. ASSUME NEW i \in 1..n + 1 PROVE more[i] = versions[g[i]]
  <2>1. CASE i = n + 1
    BY <1>1, <1>3, <1>4, <2>1
  <2>2. CASE i # n + 1
    <3>1. i \in 1..n
      BY <1>1, <2>2
    <3> QED
      BY <1>1, <1>2, <1>4, <3>1
  <2> QED
    BY <2>1, <2>2
<1>6. ASSUME NEW i \in 2..n + 1 PROVE g[i - 1] <= g[i]
  <2>1. CASE i = n + 1
    <3>1. i - 1 \in 1..n /\ g[i - 1] = f[i - 1] /\ g[i] = m
      BY <1>1, <1>4, <2>1
    <3>2. f[i - 1] \in since..m
      BY <1>2, <3>1
    <3> QED
      BY <3>1, <3>2
  <2>2. CASE i # n + 1
    <3>1. i \in 2..n /\ i - 1 \in 1..n /\ i \in 1..n
      BY <1>1, <2>2
    <3> QED
      BY <1>2, <1>4, <3>1
  <2> QED
    BY <2>1, <2>2
<1>7. Seen(more, since)
  BY <1>1, <1>4, <1>5, <1>6 DEF Seen, m
<1> QED
  BY <1>1, <1>7 DEF n, more

(* A step that changes one event, or none, whatever the versions do.       *)
LEMMA OtherEvents ==
    ASSUME ConfigInv, ConfigInv', Grows, EventsInv, NEW u \in Threads
    PROVE  EventOK(eval[u])'  \/ eval'[u] # eval[u]
<1> SUFFICES ASSUME eval'[u] = eval[u] PROVE EventOK(eval[u])'
  OBVIOUS
<1> DEFINE e == eval[u]
<1>1. EventOK(e) /\ e \in Event
  BY DEF EventsInv
<1>2. CASE e.rule = 0
  BY <1>1, <1>2 DEF EventOK
<1>3. CASE e.rule # 0
  <2>1. e.read \in Seq(Config)
    BY <1>1 DEF Event
  <2>2. versions \in Seq(Config) /\ versions' \in Seq(Config)
    BY DEF ConfigInv
  <2>3. e.since \in 1..Len(versions) /\ Seen(e.read, e.since)
    BY <1>1, <1>3 DEF EventOK
  <2>4. Seen(e.read, e.since)' /\ e.since \in 1..Len(versions')
    <3> DEFINE r == e.read
               s == e.since
    <3>1. r \in Seq(Config) /\ s \in 1..Len(versions) /\ Seen(r, s)
      BY <2>1, <2>3
    <3>2. eval'[u].read = r /\ eval'[u].since = s
      OBVIOUS
    <3> HIDE DEF r, s
    <3>3. (\E f \in [1..Len(r) -> s..Len(versions')] :
              /\ \A i \in 1..Len(r) : r[i] = versions'[f[i]]
              /\ \A i \in 2..Len(r) : f[i - 1] <= f[i]) /\ s \in 1..Len(versions')
      BY <2>2, <3>1, SeenGrows DEF Seen
    <3> QED
      BY <3>2, <3>3 DEF Seen, r, s
  <2> QED
    BY <1>1, <1>3, <2>4 DEF EventOK
<1> QED
  BY <1>2, <1>3

LEMMA EventsKeep ==
    ASSUME ConfigInv, ConfigInv', Grows, EventsInv, NEW t \in Threads, NEW next \in Event,
           eval' = [eval EXCEPT ![t] = next], EventOK(eval[t])', requests' \in 0..MaxRequests
    PROVE  EventsInv'
<1>1. /\ eval' \in [Threads -> Event]
      /\ \A u \in Threads : u # t => eval'[u] = eval[u]
  BY DEF EventsInv
<1>2. \A u \in Threads : EventOK(eval[u])'
  BY <1>1, OtherEvents
<1> QED
  BY <1>1, <1>2 DEF EventsInv

LEMMA SomeReadKeeps ==
    ASSUME ConfigInv, EventsInv, NEW t \in Threads, ReadThresholds(t)
    PROVE  EventsInv'
<1> DEFINE e == eval[t]
           next == AfterRead(e)
<1>1. /\ e.rule \in 1..3 /\ holder = {}
      /\ eval' = [eval EXCEPT ![t] = next]
      /\ UNCHANGED <<runtime, versions, requests>>
  BY DEF ReadThresholds, configVars
<1>2. e \in Event /\ Len(e.read) = e.rule - 1 /\ e.since \in 1..Len(versions)
      /\ Seen(e.read, e.since)
  BY <1>1 DEF EventsInv, EventOK
<1>3. e.read \in Seq(Config) /\ e.since \in Nat
  BY <1>2 DEF Event
<1>4. versions \in Seq(Config) /\ runtime \in Config /\ runtime = Latest
  BY <1>1 DEF ConfigInv
<1>5. /\ Append(e.read, runtime) \in Seq(Config)
      /\ Len(Append(e.read, runtime)) = Len(e.read) + 1
      /\ Seen(Append(e.read, runtime), e.since)
  BY <1>2, <1>3, <1>4, SeenAppends
<1>6. /\ next.rule = e.rule + 1 /\ next.read = Append(e.read, runtime) /\ next.since = e.since
      /\ next = [rule |-> e.rule + 1, read |-> Append(e.read, runtime), since |-> e.since]
  BY DEF AfterRead
<1> HIDE DEF next
<1>7. eval'[t] = next
  <2>1. eval \in [Threads -> Event]
    BY DEF EventsInv
  <2> QED
    BY <1>1, <2>1
<1> HIDE DEF e
<1>8. next.rule \in 2..4 /\ Len(next.read) = next.rule - 1
  BY <1>1, <1>2, <1>5, <1>6
<1>9. next \in Event
  <2>1. e.rule + 1 \in 0..5
    BY <1>1
  <2> QED
    BY <1>3, <1>5, <1>6, <2>1 DEF Event
<1>10. Seen(next.read, next.since)
  BY <1>5, <1>6
<1>11. EventOK(eval[t])'
  <2>1. Seen(eval[t].read, eval[t].since)'
    BY <1>1, <1>7, <1>10 DEF Seen
  <2>2. eval'[t].since \in 1..Len(versions')
    BY <1>1, <1>2, <1>6, <1>7
  <2>3. eval'[t].rule \in 2..4 /\ Len(eval'[t].read) = eval'[t].rule - 1
    BY <1>7, <1>8
  <2>4. eval'[t].rule # 0 /\ eval'[t].rule # 5
    BY <2>3
  <2> QED
    BY <2>1, <2>2, <2>3, <2>4 DEF EventOK
<1>12. ConfigInv' /\ Grows
  BY ConfigKeeps DEF ReadThresholds
<1>13. requests' \in 0..MaxRequests
  BY <1>1 DEF EventsInv
<1> QED
  BY <1>1, <1>9, <1>11, <1>12, <1>13, EventsKeep

LEMMA RuleKeeps ==
    ASSUME ConfigInv, ConfigInv', Grows, EventsInv, NEW t \in Threads,
           \/ Evaluate(t) /\ requests' \in 0..MaxRequests
           \/ LookUp(t) \/ Evaluated(t)
    PROVE  EventsInv'
<1>1. Len(versions) \in Nat /\ Len(versions) >= 1 /\ eval \in [Threads -> Event]
      /\ requests \in 0..MaxRequests
  BY LenProperties DEF ConfigInv, EventsInv
<1>2. <<>> \in Seq(Config) /\ Len(<<>>) = 0
  BY EmptySeq
<1>3. CASE Evaluate(t) /\ requests' \in 0..MaxRequests
  <2> DEFINE next == [rule |-> 1, read |-> <<>>, since |-> Len(versions)]
  <2>1. eval' = [eval EXCEPT ![t] = next] /\ UNCHANGED versions
    BY <1>3 DEF Evaluate, configVars
  <2>2. next \in Event /\ next.rule = 1 /\ next.read = <<>> /\ next.since = Len(versions)
    BY <1>1, <1>2 DEF Event
  <2> HIDE DEF next
  <2>3. eval'[t] = next
    BY <1>1, <2>1
  <2>4. Seen(eval[t].read, eval[t].since)'
    <3>1. eval'[t].read = <<>>
      BY <2>2, <2>3
    <3>2. Len(eval'[t].read) = 0
      BY <1>2, <3>1
    <3>3. \A S : [i \in 1..0 |-> 0] \in [1..0 -> S]
      OBVIOUS
    <3>4. PICK f \in [1..Len(eval'[t].read) -> eval'[t].since..Len(versions')] : TRUE
      BY <3>2, <3>3
    <3>5. 1..Len(eval'[t].read) = {} /\ 2..Len(eval'[t].read) = {}
      BY <3>2
    <3> QED
      BY <3>4, <3>5 DEF Seen
  <2>5. eval'[t].rule = 1 /\ Len(eval'[t].read) = 0 /\ eval'[t].since \in 1..Len(versions')
    BY <1>1, <1>2, <2>1, <2>2, <2>3
  <2>6. EventOK(eval[t])'
    BY <2>4, <2>5 DEF EventOK
  <2> QED
    BY <1>3, <2>1, <2>2, <2>6, EventsKeep
<1>4. CASE LookUp(t)
  <2> DEFINE next == [eval[t] EXCEPT !.rule = 5]
  <2>1. /\ eval[t].rule = 4 /\ eval' = [eval EXCEPT ![t] = next]
        /\ UNCHANGED <<versions, requests>>
    BY <1>4 DEF LookUp, configVars
  <2>2. next \in Event /\ next.rule = 5 /\ next.read = eval[t].read /\ next.since = eval[t].since
    BY <1>1 DEF Event
  <2> HIDE DEF next
  <2>3. eval'[t] = next
    BY <1>1, <2>1
  <2>4. Len(eval[t].read) = 3 /\ eval[t].since \in 1..Len(versions)
        /\ Seen(eval[t].read, eval[t].since)
    <3>1. EventOK(eval[t])
      BY DEF EventsInv
    <3> QED
      BY <2>1, <3>1 DEF EventOK
  <2>5. Seen(eval[t].read, eval[t].since)'
    <3>1. eval'[t].read = eval[t].read /\ eval'[t].since = eval[t].since
      BY <2>2, <2>3
    <3> QED
      BY <2>1, <2>4, <3>1 DEF Seen
  <2>6. EventOK(eval[t])'
    <3>1. eval'[t].rule = 5 /\ Len(eval'[t].read) = 3 /\ eval'[t].since \in 1..Len(versions')
      BY <2>1, <2>2, <2>3, <2>4
    <3> QED
      BY <2>5, <3>1 DEF EventOK
  <2> QED
    BY <1>1, <2>1, <2>2, <2>6, EventsKeep
<1>5. CASE Evaluated(t)
  <2>1. eval' = [eval EXCEPT ![t] = NoEvent] /\ UNCHANGED requests
    BY <1>5 DEF Evaluated
  <2>2. NoEvent \in Event /\ NoEvent.rule = 0
    BY <1>2 DEF NoEvent, Event
  <2>3. eval'[t] = NoEvent
    BY <1>1, <2>1
  <2>4. EventOK(eval[t])'
    BY <2>2, <2>3 DEF EventOK, NoEvent
  <2> QED
    BY <1>1, <2>1, <2>2, <2>4, EventsKeep
<1> QED
  BY <1>3, <1>4, <1>5

LEMMA NoEventKeeps ==
    ASSUME ConfigInv, ConfigInv', Grows, EventsInv, UNCHANGED eval, requests' \in 0..MaxRequests
    PROVE  EventsInv'
<1>1. \A u \in Threads : EventOK(eval[u])'
  BY OtherEvents
<1> QED
  BY <1>1 DEF EventsInv

-----------------------------------------------------------------------------
(* The invariant, and what follows from it.                                *)

IInv == FeedInv /\ ConfigInv /\ EventsInv

LEMMA InitInv == Init => IInv
<1> SUFFICES ASSUME Init PROVE IInv
  OBVIOUS
<1>1. NoCall \in Calls /\ NoCall.pc = "idle" /\ ~NoCall.first /\ \A s \in Sources : NoCall.read[s] = 0
  BY FeedAssumption DEF NoCall, Calls, Empty
<1>2. call = [t \in Threads |-> NoCall]
  BY DEF Init, FeedInit
<1> HIDE DEF NoCall
<1>3. FeedTypeOK
  <2>1. offer \in [Sources -> 1..MaxVersion] /\ known \in [Sources -> 0..MaxVersion]
    BY FeedAssumption DEF Init, FeedInit, Empty
  <2>2. call \in [Threads -> Calls]
    BY <1>1, <1>2
  <2> QED
    BY <2>1, <2>2 DEF Init, FeedInit, FeedTypeOK
<1>4. FeedInv
  BY <1>1, <1>2, <1>3, FeedAssumption
     DEF Init, FeedInit, FeedInv, Loading, In, Empty
<1>5. ConfigInv
  <2>1. <<Defaults>> \in Seq(Config) /\ Len(<<Defaults>>) = 1 /\ <<Defaults>>[1] = Defaults
    BY ConfigAssumption DEF Config
  <2>2. NoUpdate \in Update /\ NoUpdate.pc = "idle"
    <3>1. {} \in SUBSET Keys /\ Nothing \in [{} -> Int]
      BY DEF Nothing
    <3>2. Nothing \in Values
      BY <3>1 DEF Values
    <3> QED
      BY <3>2 DEF NoUpdate, Update
  <2>3. update = [t \in Threads |-> NoUpdate] /\ runtime = Defaults /\ holder = {}
        /\ versions = <<Defaults>>
    BY DEF Init, ConfigInit
  <2>4. update \in [Threads -> Update] /\ \A t \in Threads : ~Waits(t)
    BY <2>2, <2>3 DEF Waits
  <2>5. runtime \in Config /\ runtime = Latest
    BY <2>1, <2>3, ConfigAssumption DEF Config, Latest
  <2> QED
    BY <2>1, <2>3, <2>4, <2>5 DEF ConfigInv
<1>6. EventsInv
  <2>1. NoEvent \in Event /\ NoEvent.rule = 0
    <3>1. <<>> \in Seq(Config)
      BY EmptySeq
    <3> QED
      BY <3>1 DEF NoEvent, Event
  <2> QED
    BY <2>1, RequestsAssumption DEF Init, EventsInv, EventOK
<1> QED
  BY <1>4, <1>5, <1>6 DEF IInv

(* What a step is to each of the three.                                    *)
LEMMA NextInv == IInv /\ [Next]_vars => IInv'
<1> SUFFICES ASSUME IInv, [Next]_vars PROVE IInv'
  OBVIOUS
<1> USE DEF IInv
<1>1. requests \in 0..MaxRequests
  BY DEF EventsInv
<1>2. ASSUME NEW t \in Threads, Request(t) PROVE IInv'
  <2>1. requests' \in 0..MaxRequests
    BY <1>1, <1>2, RequestsAssumption DEF Request
  <2>2. CASE Evaluate(t)
    <3>1. FeedInv' /\ ConfigInv' /\ Grows
      BY <2>2, FeedKeeps, ConfigKeeps DEF Evaluate
    <3> QED
      BY <2>1, <2>2, <3>1, RuleKeeps
  <2>3. CASE (Ask(t) \/ Reload(t)) /\ UNCHANGED <<configVars, eval>>
    <3>1. FeedInv' /\ ConfigInv' /\ Grows
      BY <2>3, FeedKeeps, ConfigKeeps
    <3> QED
      BY <2>1, <2>3, <3>1, NoEventKeeps
  <2>4. CASE (Reset(t) \/ \E p \in Patches : Patch(t, p)) /\ UNCHANGED <<feedVars, eval>>
    <3>1. FeedInv' /\ ConfigInv' /\ Grows
      BY <2>4, FeedKeeps, ConfigKeeps
    <3> QED
      BY <2>1, <2>4, <3>1, NoEventKeeps
  <2> QED
    BY <1>2, <2>2, <2>3, <2>4 DEF Request
<1>3. ASSUME NEW t \in Threads, Step(t) PROVE IInv'
  <2>1. CASE ReadThresholds(t)
    <3>1. FeedInv' /\ ConfigInv'
      BY <2>1, FeedKeeps, ConfigKeeps DEF ReadThresholds
    <3> QED
      BY <2>1, <3>1, SomeReadKeeps
  <2>2. CASE LookUp(t)
    <3>1. FeedInv' /\ ConfigInv' /\ Grows
      BY <2>2, FeedKeeps, ConfigKeeps DEF LookUp
    <3> QED
      BY <2>2, <3>1, RuleKeeps
  <2>3. CASE Evaluated(t)
    <3>1. FeedInv' /\ ConfigInv' /\ Grows
      BY <2>3, FeedKeeps, ConfigKeeps DEF Evaluated
    <3> QED
      BY <2>3, <3>1, RuleKeeps
  <2>4. CASE FeedStep(t) /\ UNCHANGED <<configVars, evalVars>>
    <3>1. FeedInv' /\ ConfigInv' /\ Grows
      BY <2>4, FeedKeeps, ConfigKeeps
    <3> QED
      BY <1>1, <2>4, <3>1, NoEventKeeps DEF evalVars
  <2>5. CASE ConfigStep(t) /\ UNCHANGED <<feedVars, evalVars>>
    <3>1. FeedInv' /\ ConfigInv' /\ Grows
      BY <2>5, FeedKeeps, ConfigKeeps
    <3> QED
      BY <1>1, <2>5, <3>1, NoEventKeeps DEF evalVars
  <2> QED
    BY <1>3, <2>1, <2>2, <2>3, <2>4, <2>5 DEF Step
<1>4. ASSUME NEW s \in Sources, Publish(s), UNCHANGED <<configVars, evalVars>> PROVE IInv'
  <2>1. FeedInv' /\ ConfigInv' /\ Grows
    BY <1>4, FeedKeeps, ConfigKeeps
  <2> QED
    BY <1>1, <1>4, <2>1, NoEventKeeps DEF evalVars
<1>5. ASSUME UNCHANGED vars PROVE IInv'
  <2>1. UNCHANGED feedVars /\ UNCHANGED configVars /\ UNCHANGED evalVars
    BY <1>5 DEF vars
  <2>2. FeedInv' /\ ConfigInv' /\ Grows
    BY <2>1, FeedKeeps, ConfigKeeps
  <2> QED
    BY <1>1, <2>1, <2>2, NoEventKeeps DEF evalVars
<1> QED
  BY <1>2, <1>3, <1>4, <1>5 DEF Next

(* The invariant holds in every state.                                     *)
THEOREM Invariance == Spec => []IInv
<1>1. Init => IInv
  BY InitInv
<1>2. IInv /\ [Next]_vars => IInv'
  BY NextInv
<1> QED
  BY <1>1, <1>2, PTL DEF Spec

(* _ensure_loaded: one load at a time, none after one has succeeded, and   *)
(* no look-up in a feed that is not loaded.                                *)
THEOREM FetchesOnce == Spec => []FetchedOnce
<1>1. ASSUME FeedInv, NEW t \in Threads, call[t].first, call[t].pc # "match"
      PROVE  t \in loadLock
  BY <1>1 DEF FeedInv, FeedTypeOK, Calls, Loading
<1>2. IInv => FetchedOnce
  <2> SUFFICES ASSUME IInv PROVE FetchedOnce
    OBVIOUS
  <2>1. fetched <= 1
    BY DEF IInv, FeedInv
  <2>2. ASSUME NEW t \in Threads, NEW u \in Threads, call[t].first, call[u].first,
               call[t].pc # "match", call[u].pc # "match"
        PROVE  t = u
    <3>1. t \in loadLock /\ u \in loadLock
      BY <1>1, <2>2 DEF IInv
    <3> QED
      BY <3>1 DEF IInv, FeedInv
  <2>3. \A t \in Threads : In(t, "match") => loaded
    BY DEF IInv, FeedInv
  <2> QED
    BY <2>1, <2>2, <2>3 DEF FetchedOnce
<1> QED
  BY <1>2, Invariance, PTL

(* What rules.evaluate's rules are given are configurations that updates   *)
(* left whole, in their order, none replaced before the event came in.     *)
THEOREM RulesRead == Spec => []RulesSeeVersions
<1>1. IInv => RulesSeeVersions
  <2> SUFFICES ASSUME IInv PROVE RulesSeeVersions
    OBVIOUS
  <2>1. UpdatesAreWhole
    BY DEF IInv, ConfigInv, Whole, UpdatesAreWhole
  <2>2. ASSUME NEW t \in Threads, Len(eval[t].read) > 0
        PROVE  Seen(eval[t].read, eval[t].since)
    <3>1. eval[t].rule # 0
      BY <2>2, EmptySeq DEF IInv, EventsInv, EventOK, NoEvent
    <3> QED
      BY <3>1 DEF IInv, EventsInv, EventOK
  <2> QED
    BY <2>1, <2>2 DEF RulesSeeVersions, Seen
<1> QED
  BY <1>1, Invariance, PTL

(* reload() that no other one interrupts never brings back older entries.  *)
THEOREM GoForward == Spec => ReloadsGoForward
<1> DEFINE Forward == \A t \in Threads :
            Swap(t) /\ t \in alone => \A s \in Sources : known'[s] = 0 \/ known'[s] >= known[s]
<1>1. IInv /\ [Next]_vars => [Forward]_feedVars
  BY SwapGoesForward DEF IInv
<1> QED
  BY <1>1, Invariance, PTL DEF Spec, ReloadsGoForward

-----------------------------------------------------------------------------
(* The limits, which nothing checks of the values from the environment.    *)

InRange ==
    /\ \A k \in Keys : runtime[k] \in Limits(k)
    /\ \A t \in Threads : \A k \in DOMAIN update[t].todo : update[t].todo[k] \in Limits(k)
    /\ \A i \in 1..Len(versions), k \in Keys : versions[i][k] \in Limits(k)

LEMMA RangeKeeps ==
    ASSUME ConfigInv, InRange, Defaults \in Configs, NEW t \in Threads,
           \/ Reset(t) \/ \E p \in Patches : Patch(t, p)
           \/ ConfigStep(t)
    PROVE  InRange'
<1>1. update \in [Threads -> Update] /\ runtime \in Config
  BY DEF ConfigInv
<1>2. ASSUME NEW pc, NEW values, Begin(t, pc, values),
             \A k \in DOMAIN values : values[k] \in Limits(k)
      PROVE  InRange'
  <2> DEFINE new == [pc |-> pc, todo |-> values]
  <2>1. update' = [update EXCEPT ![t] = new] /\ UNCHANGED <<runtime, versions>>
    BY <1>2 DEF Begin
  <2>2. new.todo = values
    OBVIOUS
  <2> HIDE DEF new
  <2>3. \A u \in Threads : update'[u] = IF u = t THEN new ELSE update[u]
    BY <1>1, <2>1
  <2> QED
    BY <1>2, <2>1, <2>2, <2>3 DEF InRange
<1>3. CASE Reset(t)
  <2>1. \A k \in DOMAIN Defaults : Defaults[k] \in Limits(k)
    BY DEF Configs
  <2> QED
    BY <1>2, <1>3, <2>1 DEF Reset
<1>4. ASSUME NEW p \in Patches, Patch(t, p) PROVE InRange'
  <2>1. \A k \in DOMAIN Validated(p) : Validated(p)[k] \in Limits(k)
    BY DEF Validated, Accepted
  <2> QED
    BY <1>2, <1>4, <2>1 DEF Patch
<1>5. CASE TakeLock(t)
  BY <1>5 DEF TakeLock, InRange
<1>6. ASSUME NEW u \in Update, update' = [update EXCEPT ![t] = u], UNCHANGED runtime,
             DOMAIN u.todo = {}
      PROVE  /\ \A k \in Keys : runtime'[k] \in Limits(k)
             /\ \A v \in Threads : \A k \in DOMAIN update'[v].todo : update'[v].todo[k] \in Limits(k)
  <2>1. \A v \in Threads : update'[v] = IF v = t THEN u ELSE update[v]
    BY <1>1, <1>6
  <2> QED
    BY <1>6, <2>1 DEF InRange
<1>7. Nothing \in Values /\ DOMAIN Nothing = {} /\ NoUpdate \in Update /\ NoUpdate.todo = Nothing
  <2>1. {} \in SUBSET Keys /\ Nothing \in [{} -> Int] /\ DOMAIN Nothing = {}
    BY DEF Nothing
  <2>2. Nothing \in Values
    BY <2>1 DEF Values
  <2> QED
    BY <2>1, <2>2 DEF NoUpdate, Update
<1>8. CASE Answer(t)
  <2>1. UNCHANGED versions /\ update' = [update EXCEPT ![t] = NoUpdate] /\ UNCHANGED runtime
    BY <1>8 DEF Answer
  <2> QED
    BY <1>6, <1>7, <2>1 DEF InRange
<1>9. CASE ReleaseLock(t)
  <2> DEFINE answers == [update[t] EXCEPT !.pc = "answer"]
             u == IF update[t].pc = "reset" THEN NoUpdate ELSE answers
  <2>1. answers \in Update /\ answers.todo = update[t].todo
    BY <1>1 DEF Update
  <2>2. /\ update[t].todo = Nothing /\ UNCHANGED runtime
        /\ update' = [update EXCEPT ![t] = u] /\ versions' = Append(versions, runtime)
    BY <1>9 DEF ReleaseLock
  <2> HIDE DEF answers
  <2>3. u \in Update /\ DOMAIN u.todo = {}
    BY <1>7, <2>1, <2>2
  <2> HIDE DEF u
  <2>4. versions \in Seq(Config) /\ Len(versions) \in Nat
    BY LenProperties DEF ConfigInv
  <2> HIDE DEF Config
  <2>5. /\ Len(versions') = Len(versions) + 1
        /\ \A i \in 1..Len(versions) : versions'[i] = versions[i]
        /\ versions'[Len(versions) + 1] = runtime
    BY <1>1, <2>2, <2>4, AppendProperties
  <2>6. ASSUME NEW i \in 1..Len(versions'), NEW k \in Keys PROVE versions'[i][k] \in Limits(k)
    <3>1. i \in 1..Len(versions) \/ i = Len(versions) + 1
      BY <2>4, <2>5, <2>6
    <3> QED
      BY <2>5, <3>1 DEF InRange
  <2> QED
    BY <1>6, <2>2, <2>3, <2>6 DEF InRange
<1>10. ASSUME NEW key \in Keys, WriteKey(t, key) PROVE InRange'
  <2> DEFINE todo == update[t].todo
             rest == Rest(todo, key)
             u == [update[t] EXCEPT !.todo = rest]
  <2>1. /\ key \in DOMAIN todo /\ runtime' = [runtime EXCEPT ![key] = todo[key]]
        /\ update' = [update EXCEPT ![t] = u] /\ UNCHANGED versions
    BY <1>10 DEF WriteKey
  <2>2. DOMAIN rest \subseteq DOMAIN todo /\ \A k \in DOMAIN rest : rest[k] = todo[k]
    BY DEF Rest
  <2>3. u.todo = rest
    BY <1>1 DEF Update
  <2> HIDE DEF u
  <2>4. \A v \in Threads : update'[v] = IF v = t THEN u ELSE update[v]
    BY <1>1, <2>1
  <2>5. \A k \in Keys : runtime'[k] = IF k = key THEN todo[k] ELSE runtime[k]
    BY <1>1, <2>1 DEF Config
  <2>6. \A v \in Threads : \A k \in DOMAIN update'[v].todo : update'[v].todo[k] \in Limits(k)
    BY <2>2, <2>3, <2>4 DEF InRange
  <2>7. \A k \in Keys : runtime'[k] \in Limits(k)
    BY <2>1, <2>5 DEF InRange
  <2> QED
    BY <2>1, <2>6, <2>7 DEF InRange
<1> QED
  BY <1>3, <1>4, <1>5, <1>8, <1>9, <1>10 DEF ConfigStep

LEMMA RangeNext == IInv /\ InRange /\ Defaults \in Configs /\ [Next]_vars => InRange'
<1> SUFFICES ASSUME IInv, InRange, Defaults \in Configs, [Next]_vars PROVE InRange'
  OBVIOUS
<1>1. CASE UNCHANGED configVars
  BY <1>1 DEF configVars, InRange
<1>2. \/ UNCHANGED configVars
      \/ \E t \in Threads : \/ Reset(t) \/ \E p \in Patches : Patch(t, p)
                            \/ ConfigStep(t)
  BY DEF Next, vars, Request, Step, Evaluate, ReadThresholds, LookUp, Evaluated
<1> QED
  BY <1>1, <1>2, RangeKeeps DEF IInv

(* Every variable keeps its type, and no PATCH puts a threshold out of its *)
(* limits, if the values from the environment are within them.             *)
THEOREM Typed == ASSUME Defaults \in Configs PROVE Spec => []TypeOK
<1>1. Init => InRange
  <2> SUFFICES ASSUME Init PROVE InRange
    OBVIOUS
  <2>1. /\ runtime = Defaults /\ versions = <<Defaults>>
        /\ update = [t \in Threads |-> NoUpdate]
    BY DEF Init, ConfigInit
  <2>2. \A k \in Keys : Defaults[k] \in Limits(k)
    BY DEF Configs
  <2>3. DOMAIN NoUpdate.todo = {}
    BY DEF NoUpdate, Nothing
  <2>4. Len(versions) = 1 /\ versions[1] = Defaults
    BY <2>1
  <2> QED
    BY <2>1, <2>2, <2>3, <2>4 DEF InRange
<1>2. IInv /\ InRange /\ [Next]_vars => InRange'
  BY RangeNext
<1>3. ASSUME IInv, InRange PROVE TypeOK
  <2>1. FeedTypeOK /\ holder \subseteq Threads /\ requests \in 0..MaxRequests
    BY <1>3 DEF IInv, FeedInv, ConfigInv, EventsInv
  <2>2. runtime \in Configs
    BY <1>3 DEF IInv, ConfigInv, Config, InRange, Configs
  <2>3. ASSUME NEW t \in Threads
        PROVE  /\ update[t].pc \in {"idle", "patch", "reset", "answer"}
               /\ DOMAIN update[t].todo \subseteq Keys
               /\ eval[t].rule \in 0..5 /\ Len(eval[t].read) <= 3
    <3>1. update[t] \in Update /\ eval[t] \in Event /\ EventOK(eval[t])
      BY <1>3 DEF IInv, ConfigInv, EventsInv
    <3>2. Len(eval[t].read) <= 3
      <4>1. eval[t].rule \in 0..5
        BY <3>1 DEF Event
      <4>2. CASE eval[t].rule = 0
        BY <3>1, <4>2, EmptySeq DEF EventOK, NoEvent
      <4>3. CASE eval[t].rule # 0
        BY <3>1, <4>1, <4>3 DEF EventOK
      <4> QED
        BY <4>2, <4>3
    <3> QED
      BY <3>1, <3>2 DEF Update, Values, Event
  <2>4. versions \in Seq(Configs)
    <3>1. versions \in Seq(Config) /\ Len(versions) \in Nat
      BY <1>3, LenProperties DEF IInv, ConfigInv
    <3>2. \A i \in 1..Len(versions) : versions[i] \in Config
      BY <3>1, ElementOfSeq
    <3>3. \A i \in 1..Len(versions) : versions[i] \in Configs
      BY <1>3, <3>2 DEF InRange, Config, Configs
    <3>4. versions = [i \in 1..Len(versions) |-> versions[i]]
      BY <3>1, LenProperties
    <3> QED
      BY <3>1, <3>3, <3>4, IsASeq
  <2> QED
    BY <2>1, <2>2, <2>3, <2>4 DEF TypeOK
<1> QED
  BY <1>1, <1>2, <1>3, Invariance, PTL DEF Spec
=============================================================================
