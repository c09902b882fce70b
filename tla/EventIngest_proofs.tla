------------------------- MODULE EventIngest_proofs -------------------------
(***************************************************************************)
(* Proofs about EventIngest, for any request threads, events, windows and  *)
(* faults: what the unknown_device rule, whose read of the events table    *)
(* and whose alert are steps apart, says in the end; that the tables, the  *)
(* scores and the counters agree when no request is under way; how often   *)
(* an alert is stored in a dedup window; what a purge deletes.             *)
(***************************************************************************)
EXTENDS EventIngest, DataLemmas, FiniteSetTheorems

Unknown == "unknown_device"

(* A column holds what an event may hold; Event itself has no type.        *)
EventRow ==
    [hostname : Hosts, device_id : Devices, received_at : Nat,
     event_type : {e.event_type : e \in Event},
     transfer_bytes : {e.transfer_bytes : e \in Event}]

Job == [pc : Places, event : Event, rule : 1..8, fired : SUBSET Range(Rules)]

Typed ==
    /\ events \in Seq(EventRow) /\ alerts \in Seq(Alert) /\ now \in Nat
    /\ job \in [Threads -> {Idle} \cup Job]

(* What a thread holds fits the place it is at: a rule that is still to be *)
(* evaluated has not fired, and one whose alert it is at has.              *)
Ready(j) ==
    /\ j.pc = "evaluate" => \A i \in j.rule..8 : Rules[i] \notin j.fired
    /\ j.pc \in {"insert", "audit", "device", "user", "timezone"} => j.rule = 1
    /\ j.pc = "check" => \E i \in j.rule..8 : Rules[i] \in j.fired
    /\ j.pc \in {"fire", "notify"} => Rules[j.rule] \in j.fired
Readied == \A t \in Threads : Ready(job[t])

IsNew(h, d) == DeviceIsNew(events, h, d)
About(j, h, d) == j # Idle /\ j.event.hostname = h /\ j.event.device_id = d

Known ==
    \A t \in Threads :
        job[t] # Idle /\ job[t].pc \notin {"evaluate", "insert"}
            => ~IsNew(Host(t), Device(t))

(* The rule has fired and its alert is still to come, unless a recent one  *)
(* suppresses it.  The rule is the second.                                 *)
Owes(j, h, d) ==
    /\ About(j, h, d) /\ Unknown \in j.fired
    /\ \/ j.pc \in {"evaluate", "insert", "audit", "device", "user", "timezone"}
       \/ (j.pc \in {"check", "fire"} /\ j.rule <= 2)
       \/ (j.pc = "notify" /\ j.rule < 2)
Pending(h, d) == {t \in Threads : Owes(job[t], h, d)}
Reported(h, d) == Alerts(h, d, Unknown)

(* While a device has no row there is no alert, and it is new to each      *)
(* thread that looks; after that no thread joins those that owe an alert.  *)
NoneEarly(h, d) == IsNew(h, d) => Reported(h, d) = {}
Counted(h, d) ==
    ~IsNew(h, d) => Cardinality(Reported(h, d)) + Cardinality(Pending(h, d)) <= Cardinality(Threads)

Judged(j) == j.pc = "insert" \/ (j.pc = "evaluate" /\ j.rule > 2)
NewIsFired(h, d) ==
    IsNew(h, d) /\ h \notin failed =>
        \A t \in Threads :
            About(job[t], h, d) /\ Ev(t).event_type = "connected" /\ Judged(job[t])
                => Unknown \in Fired(t)

First(i, h, d) ==
    /\ events[i].hostname = h /\ events[i].device_id = d
    /\ \A n \in 1..i - 1 : ~(events[n].hostname = h /\ events[n].device_id = d)
FirstHandled(h, d) ==
    \A i \in DOMAIN events :
        First(i, h, d) /\ events[i].event_type = "connected" /\ h \notin failed
            => Reported(h, d) # {} \/ Pending(h, d) # {}

PerDevice(h, d) == NoneEarly(h, d) /\ Counted(h, d) /\ NewIsFired(h, d) /\ FirstHandled(h, d)

IngestInv ==
    /\ Typed /\ Readied
    /\ ~purged => Known /\ \A h \in Hosts, d \in Devices : PerDevice(h, d)

-----------------------------------------------------------------------------
(* The rules by their places: unknown_device is the second of eight.       *)
LEMMA RulesFacts ==
    /\ Len(Rules) = 8 /\ DOMAIN Rules = 1..8
    /\ Rules[1] = "after_hours_device" /\ Rules[2] = Unknown
    /\ \A i \in 1..8 : Rules[i] = Unknown => i = 2
    /\ \A i \in 1..8 : Rules[i] \in Range(Rules)
    /\ \A i, n \in 1..8 : Rules[i] = Rules[n] => i = n
<1>1. Len(Rules) = 8 /\ DOMAIN Rules = 1..8
  BY DEF Rules
<1>2. Rules[1] = "after_hours_device" /\ Rules[2] = Unknown
  BY DEF Rules, Unknown
<1>3. ASSUME NEW i \in 1..8, i # 2 PROVE Rules[i] # Unknown
  <2>1. i = 1 \/ i = 3 \/ i = 4 \/ i = 5 \/ i = 6 \/ i = 7 \/ i = 8
    BY <1>3
  <2> QED
    BY <2>1 DEF Rules, Unknown
<1>4. \A i \in 1..8 : Rules[i] \in Range(Rules)
  BY <1>1 DEF Range
<1>5. ASSUME NEW i \in 1..8, NEW n \in 1..8, Rules[i] = Rules[n] PROVE i = n
  <2>1. i = 1 \/ i = 2 \/ i = 3 \/ i = 4 \/ i = 5 \/ i = 6 \/ i = 7 \/ i = 8
    OBVIOUS
  <2>2. n = 1 \/ n = 2 \/ n = 3 \/ n = 4 \/ n = 5 \/ n = 6 \/ n = 7 \/ n = 8
    OBVIOUS
  <2> QED
    BY <1>5, <2>1, <2>2 DEF Rules
<1> QED
  BY <1>1, <1>2, <1>3, <1>4, <1>5

(* The least of the rules that are left, if there is one.                  *)
LEMMA LeastLeft ==
    ASSUME NEW t, NEW n \in Nat, NEW i \in n..8, n > 0, Rules[i] \in Fired(t)
    PROVE  LET m == Min(Left(t, n)) IN
           /\ Left(t, n) # {}
           /\ m \in n..8 /\ m <= i /\ Rules[m] \in Fired(t)
<1> DEFINE S == Left(t, n)  m == Min(S)
<1>1. \A k : k \in S <=> k \in n..8 /\ Rules[k] \in Fired(t)
  BY RulesFacts DEF Left
<1>2. i \in S /\ \A k \in S : k \in 1..8
  BY <1>1
<1> HIDE DEF S
<1>3. \E x \in S : \A y \in S : x <= y
  <2>1. CASE 1 \in S
    BY <2>1, <1>2
  <2>2. CASE 1 \notin S /\ 2 \in S
    BY <2>2, <1>2
  <2>3. CASE 1 \notin S /\ 2 \notin S /\ 3 \in S
    BY <2>3, <1>2
  <2>4. CASE 1 \notin S /\ 2 \notin S /\ 3 \notin S /\ 4 \in S
    BY <2>4, <1>2
  <2>5. CASE S \cap 1..4 = {} /\ 5 \in S
    BY <2>5, <1>2
  <2>6. CASE S \cap 1..5 = {} /\ 6 \in S
    BY <2>6, <1>2
  <2>7. CASE S \cap 1..6 = {} /\ 7 \in S
    BY <2>7, <1>2
  <2>8. CASE S \cap 1..7 = {}
    BY <2>8, <1>2
  <2> QED
    BY <2>1, <2>2, <2>3, <2>4, <2>5, <2>6, <2>7, <2>8
<1>4. m \in S /\ \A y \in S : m <= y
  BY <1>3 DEF Min
<1> QED
  BY <1>1, <1>2, <1>4 DEF S

-----------------------------------------------------------------------------
(* A step of a request thread, as its job shows it: k is what it holds     *)
(* after the step.                                                         *)
Moves(t, k) ==
    /\ job' = [job EXCEPT ![t] = k]
    /\ k \in {Idle} \cup Job /\ Ready(k)
    /\ k # Idle => k.event = job[t].event
    /\ \A h, d : Owes(k, h, d) => Owes(job[t], h, d) \/ IsNew(h, d)
    /\ \A h, d : Owes(job[t], h, d) => Owes(k, h, d) \/ Reported(h, d)' # {} \/ h \in failed'

(* A turn of the loop over the rules, if its read raises or not.           *)
Turns(t, k) ==
    /\ k.pc \in {"evaluate", "insert"}
    /\ \E new \in SUBSET {Rules[job[t].rule]} :
            k.fired = job[t].fired \cup new /\ CountFires(new)
    /\ Judged(k) => Judged(job[t]) \/ job[t].rule = 2
    /\ job[t].rule = 2 /\ Ev(t).event_type = "connected" /\ IsNew(Host(t), Device(t))
          /\ Host(t) \notin failed' => Unknown \in k.fired

(* A thread that is not idle holds an event.                               *)
LEMMA HasJob ==
    ASSUME Typed, NEW t \in Threads, job[t].pc # "idle"
    PROVE  job[t] \in Job /\ job[t] # Idle /\ Host(t) \in Hosts /\ Device(t) \in Devices
<1>1. job[t] \in Job
  BY DEF Typed, Idle
<1>2. job[t] # Idle
  BY DEF Idle
<1>3. Ev(t) \in Event
  BY <1>1 DEF Job, Ev
<1> QED
  BY <1>1, <1>2, <1>3 DEF Hosts, Devices, Host, Device, Ev

(* A rule fires on what it reads at its turn, or its read raises.          *)
LEMMA EvaluateMoves ==
    ASSUME Typed, Readied, NEW t \in Threads, Evaluate(t) \/ RuleRaises(t)
    PROVE  \E k : Moves(t, k) /\ Turns(t, k)
<1> DEFINE j == job[t]
<1>1. At(t, "evaluate")
  BY DEF Evaluate, RuleRaises
<1>2. j \in Job /\ j # Idle /\ j.pc = "evaluate"
  BY <1>1, HasJob DEF At
<1>3. \A o : Firing(t, o) \subseteq {Rules[j.rule]}
  BY DEF Firing
<1>4. \A o : Unknown \in Firing(t, o) <=>
                /\ Rules[j.rule] = Unknown
                /\ Ev(t).event_type = "connected" /\ IsNew(Host(t), Device(t))
  <2>1. ASSUME NEW o
        PROVE  Fires(Unknown, Ev(t), events, o, users, now)
                  = (Ev(t).event_type = "connected" /\ IsNew(Host(t), Device(t)))
    BY DEF Fires, Unknown, IsNew, Host, Device, Ev
  <2> QED
    BY <2>1 DEF Firing
<1>5. \E new : /\ NextRule(t, new) /\ CountFires(new) /\ new \subseteq {Rules[j.rule]}
               /\ Unknown \in new => IsNew(Host(t), Device(t))
               /\ Rules[j.rule] = Unknown /\ Ev(t).event_type = "connected"
                    /\ IsNew(Host(t), Device(t)) /\ Host(t) \notin failed' => Unknown \in new
  <2>1. CASE Evaluate(t)
    BY <2>1, <1>3, <1>4 DEF Evaluate
  <2>2. CASE RuleRaises(t)
    <3>1. PICK new \in {{}, Firing(t, 0)} : NextRule(t, new) /\ CountFires(new)
      BY <2>2 DEF RuleRaises
    <3>2. Host(t) \in failed'
      BY <2>2 DEF RuleRaises
    <3> QED
      BY <3>1, <3>2, <1>3, <1>4
  <2> QED
    BY <2>1, <2>2
<1>6. PICK new : /\ NextRule(t, new) /\ CountFires(new) /\ new \subseteq {Rules[j.rule]}
                 /\ Unknown \in new => IsNew(Host(t), Device(t))
                 /\ Rules[j.rule] = Unknown /\ Ev(t).event_type = "connected"
                      /\ IsNew(Host(t), Device(t)) /\ Host(t) \notin failed' => Unknown \in new
  BY <1>5
<1> DEFINE k == [j EXCEPT
        !.fired = @ \cup new,
        !.rule = IF @ = Len(Rules) THEN 1 ELSE @ + 1,
        !.pc = IF j.rule = Len(Rules) THEN "insert" ELSE "evaluate"]
<1>7. job' = [job EXCEPT ![t] = k]
  BY <1>6 DEF NextRule, Become
<1>8. j.rule \in 1..8 /\ new \subseteq Range(Rules)
  BY <1>2, <1>6, RulesFacts DEF Job
<1>9. /\ k \in Job /\ k.event = j.event /\ k.fired = j.fired \cup new
      /\ k.rule = (IF j.rule = 8 THEN 1 ELSE j.rule + 1)
      /\ k.pc = (IF j.rule = 8 THEN "insert" ELSE "evaluate")
  <2> DEFINE r == IF j.rule = 8 THEN 1 ELSE j.rule + 1
             p == IF j.rule = 8 THEN "insert" ELSE "evaluate"
             F == j.fired \cup new
  <2>1. k = [j EXCEPT !.fired = F, !.rule = r, !.pc = p]
    BY RulesFacts
  <2>2. j.event \in Event /\ F \subseteq Range(Rules)
    BY <1>2, <1>8 DEF Job
  <2>3. r \in 1..8 /\ p \in Places
    BY <1>8 DEF Places
  <2> HIDE DEF r, p, F, k
  <2>4. k \in Job /\ k.event = j.event /\ k.fired = F /\ k.rule = r /\ k.pc = p
    BY <1>2, <2>1, <2>2, <2>3 DEF Job
  <2> QED
    BY <2>4 DEF r, p, F
<1> HIDE DEF k
<1>10. k # Idle /\ Ready(k)
  <2>1. ASSUME k.pc = "evaluate", NEW i \in k.rule..8 PROVE Rules[i] \notin k.fired
    <3>1. i \in j.rule..8 /\ i # j.rule /\ i \in 1..8
      BY <2>1, <1>8, <1>9
    <3>2. Rules[i] \notin j.fired
      BY <3>1, <1>2 DEF Readied, Ready
    <3>3. Rules[i] # Rules[j.rule]
      BY <3>1, <1>8, RulesFacts
    <3> QED
      BY <3>2, <3>3, <1>6, <1>9
  <2>2. k.pc = "insert" => k.rule = 1
    BY <1>8, <1>9
  <2> QED
    BY <2>1, <2>2, <1>9 DEF Idle, Ready
<1>11. \A h, d : Owes(k, h, d) => Owes(j, h, d) \/ IsNew(h, d)
  BY <1>2, <1>6, <1>9 DEF Owes, About, Host, Device
<1>12. \A h, d : Owes(j, h, d) => Owes(k, h, d)
  BY <1>2, <1>9, <1>10 DEF Owes, About
<1>13. Turns(t, k)
  <2>1. Judged(k) => Judged(j) \/ j.rule = 2
    BY <1>2, <1>8, <1>9 DEF Judged
  <2>2. j.rule = 2 => Rules[j.rule] = Unknown
    BY RulesFacts
  <2> QED
    BY <2>1, <2>2, <1>6, <1>9 DEF Turns
<1> QED
  BY <1>7, <1>9, <1>10, <1>11, <1>12, <1>13 DEF Moves

(* Straight on to a place before the alerts.                               *)
LEMMA GotoMoves ==
    ASSUME Typed, Readied, NEW t \in Threads,
           job[t].pc \in {"insert", "audit", "device", "user", "timezone"},
           NEW place \in {"audit", "device", "user", "timezone", "check", "idle"},
           Goto(t, place),
           place = "check" => Fired(t) # {}, place = "idle" => Fired(t) = {}
    PROVE  \E k : /\ Moves(t, k)
                  /\ IF place = "idle" THEN k = Idle
                     ELSE k # Idle /\ k.pc = place /\ k.fired = job[t].fired
<1> DEFINE j == job[t]
           k == IF place = "idle" THEN Idle ELSE [j EXCEPT !.pc = place]
<1>1. job' = [job EXCEPT ![t] = k]
  BY DEF Goto, Become
<1>2. j \in Job /\ j # Idle /\ j.rule = 1
  BY HasJob DEF Readied, Ready
<1>3. CASE place = "idle"
  <2>1. k = Idle /\ Ready(Idle)
    BY <1>3 DEF Idle, Ready
  <2>2. \A h, d : ~Owes(Idle, h, d) /\ ~Owes(j, h, d)
    BY <1>3 DEF Owes, About, Fired
  <2> QED
    BY <1>1, <1>3, <2>1, <2>2 DEF Moves
<1>4. CASE place # "idle"
  <2>1. /\ k \in Job /\ k.event = j.event /\ k.fired = j.fired
        /\ k.rule = 1 /\ k.pc = place
    BY <1>2, <1>4 DEF Job, Places
  <2> HIDE DEF k
  <2>2. k # Idle
    BY <2>1, <1>4 DEF Idle
  <2>3. Ready(k)
    <3>1. ASSUME place = "check" PROVE \E i \in 1..8 : Rules[i] \in j.fired
      <4>1. PICK r : r \in j.fired
        BY <3>1 DEF Fired
      <4>2. r \in Range(Rules)
        BY <4>1, <1>2 DEF Job
      <4> QED
        BY <4>1, <4>2, RulesFacts DEF Range
    <3> QED
      BY <2>1, <3>1, <1>4 DEF Ready
  <2>4. \A h, d : Owes(k, h, d) <=> Owes(j, h, d)
    BY <1>2, <1>4, <2>1, <2>2 DEF Owes, About
  <2> QED
    BY <1>1, <1>4, <2>1, <2>2, <2>3, <2>4 DEF Moves
<1> QED
  BY <1>3, <1>4

(* On to the next alert: none of the rules left is passed over.            *)
LEMMA NextAlertMoves ==
    ASSUME Typed, NEW t \in Threads, job[t] \in Job, NEW n \in 1..9, NextAlert(t, n)
    PROVE  \E k : /\ job' = [job EXCEPT ![t] = k]
                  /\ k \in Job /\ Ready(k) /\ k.event = job[t].event /\ k.fired = job[t].fired
                  /\ k.pc \in {"check", "score"}
                  /\ k.pc = "check" => k.rule >= n
                  /\ n <= 2 /\ Unknown \in job[t].fired => k.pc = "check" /\ k.rule <= 2
<1> DEFINE j == job[t]
<1>1. CASE Left(t, n) = {}
  <2> DEFINE k == [j EXCEPT !.pc = "score"]
  <2>1. job' = [job EXCEPT ![t] = k]
    BY <1>1 DEF NextAlert, Goto, Become
  <2>2. k \in Job /\ k.event = j.event /\ k.fired = j.fired /\ k.pc = "score"
    BY DEF Job, Places
  <2>3. ~(n <= 2 /\ Unknown \in j.fired)
    BY <1>1, RulesFacts DEF Left, Fired
  <2> QED
    BY <2>1, <2>2, <2>3 DEF Ready
<1>2. CASE Left(t, n) # {}
  <2> DEFINE m == Min(Left(t, n))  k == [j EXCEPT !.pc = "check", !.rule = m]
  <2>1. job' = [job EXCEPT ![t] = k]
    BY <1>2 DEF NextAlert, Become
  <2>2. PICK i \in n..8 : Rules[i] \in Fired(t)
    BY <1>2, RulesFacts DEF Left
  <2>3. m \in n..8 /\ Rules[m] \in Fired(t)
    BY <2>2, LeastLeft
  <2>4. n <= 2 /\ Unknown \in j.fired => m <= 2
    <3> SUFFICES ASSUME n <= 2, Unknown \in j.fired PROVE m <= 2
      OBVIOUS
    <3>1. 2 \in n..8 /\ Rules[2] \in Fired(t)
      BY RulesFacts DEF Fired
    <3> QED
      BY <3>1, LeastLeft
  <2> HIDE DEF m
  <2>5. m \in 1..8 /\ m >= n /\ m \in m..8
    BY <2>3
  <2>6. k \in Job /\ k.event = j.event /\ k.fired = j.fired /\ k.pc = "check" /\ k.rule = m
    BY <2>5 DEF Job, Places
  <2> HIDE DEF k
  <2>7. Ready(k)
    BY <2>3, <2>5, <2>6 DEF Ready, Fired
  <2> QED
    BY <2>1, <2>4, <2>5, <2>6, <2>7
<1> QED
  BY <1>1, <1>2

(* An alert is passed over only for one that is stored.                    *)
LEMMA CheckMoves ==
    ASSUME Typed, Readied, NEW t \in Threads, CheckRecent(t)
    PROVE  \E k : /\ Moves(t, k) /\ k # Idle /\ k.pc \in {"check", "fire", "score"}
                  /\ k.fired = job[t].fired /\ (k.pc # "score" => k.rule >= job[t].rule)
<1> DEFINE j == job[t]  n == Min(Left(t, j.rule))
<1>1. j \in Job /\ j # Idle /\ j.pc = "check" /\ j.rule \in 1..8
  BY HasJob DEF CheckRecent, At, Job
<1>2. PICK i \in j.rule..8 : Rules[i] \in Fired(t)
  BY <1>1 DEF Readied, Ready, Fired
<1>3. n \in j.rule..8 /\ Rules[n] \in Fired(t)
  BY <1>1, <1>2, LeastLeft
<1>4. j.rule <= 2 /\ Unknown \in j.fired => n <= 2
  <2> SUFFICES ASSUME j.rule <= 2, Unknown \in j.fired PROVE n <= 2
    OBVIOUS
  <2>1. 2 \in j.rule..8 /\ Rules[2] \in Fired(t)
    BY <1>1, RulesFacts DEF Fired
  <2> QED
    BY <1>1, <2>1, LeastLeft
<1>5. /\ RecentAlert(t, Rules[n]) => NextAlert(t, n + 1)
      /\ ~RecentAlert(t, Rules[n]) => Become(t, [job[t] EXCEPT !.pc = "fire", !.rule = n])
      /\ alerts' = alerts
  BY DEF CheckRecent
<1>6. RecentAlert(t, Unknown) => Reported(Host(t), Device(t)) # {}
  BY DEF RecentAlert, Reported, Alerts
<1> HIDE DEF n
<1>7. n \in 1..8 /\ n + 1 \in 1..9 /\ n >= j.rule
  BY <1>1, <1>3
<1>8. CASE RecentAlert(t, Rules[n])
  <2>1. PICK k :
            /\ job' = [job EXCEPT ![t] = k]
            /\ k \in Job /\ Ready(k) /\ k.event = j.event /\ k.fired = j.fired
            /\ k.pc \in {"check", "score"}
            /\ k.pc = "check" => k.rule >= n + 1
            /\ n + 1 <= 2 /\ Unknown \in j.fired => k.pc = "check" /\ k.rule <= 2
    BY <1>1, <1>5, <1>7, <1>8, NextAlertMoves
  <2>2. k # Idle /\ k.rule \in 1..8
    BY <2>1 DEF Idle, Job
  <2>3. \A h, d : Owes(k, h, d) => Owes(j, h, d)
    BY <1>1, <1>7, <2>1, <2>2 DEF Owes, About
  <2>4. ASSUME NEW h, NEW d, Owes(j, h, d) PROVE Owes(k, h, d) \/ Reported(h, d)' # {}
    <3>1. n <= 2 /\ Unknown \in j.fired /\ Host(t) = h /\ Device(t) = d
      BY <2>4, <1>1, <1>4 DEF Owes, About, Host, Device
    <3>2. CASE n = 2
      <4>1. Reported(h, d) # {}
        BY <3>1, <3>2, <1>6, <1>8, RulesFacts
      <4> QED
        BY <4>1, <1>5 DEF Reported, Alerts
    <3>3. CASE n # 2
      <4>1. k.pc = "check" /\ k.rule <= 2
        BY <3>1, <3>3, <1>7, <2>1
      <4> QED
        BY <4>1, <2>1, <2>2, <2>4 DEF Owes, About
    <3> QED
      BY <3>2, <3>3
  <2>5. k.pc = "check" => k.rule >= j.rule
    BY <1>1, <1>7, <2>1, <2>2
  <2> QED
    BY <2>1, <2>2, <2>3, <2>4, <2>5 DEF Moves
<1>9. CASE ~RecentAlert(t, Rules[n])
  <2> DEFINE k == [j EXCEPT !.pc = "fire", !.rule = n]
  <2>1. job' = [job EXCEPT ![t] = k]
    BY <1>5, <1>9 DEF Become
  <2>2. k \in Job /\ k.event = j.event /\ k.fired = j.fired /\ k.pc = "fire" /\ k.rule = n
    BY <1>1, <1>7 DEF Job, Places
  <2> HIDE DEF k
  <2>3. k # Idle /\ Ready(k)
    BY <1>3, <2>2 DEF Idle, Ready, Fired
  <2>4. \A h, d : Owes(k, h, d) <=> Owes(j, h, d)
    BY <1>1, <1>4, <1>7, <2>2, <2>3 DEF Owes, About
  <2> QED
    BY <1>7, <2>1, <2>2, <2>3, <2>4 DEF Moves
<1> QED
  BY <1>8, <1>9

(* The alerts that are stored, and that were, after the append of one.     *)
LEMMA AlertAppended ==
    ASSUME Typed, NEW t \in Threads, InsertAlert(t)
    PROVE  /\ alerts' \in Seq(Alert)
           /\ \A h, d : Reported(h, d)' =
                  IF Host(t) = h /\ Device(t) = d /\ job[t].rule = 2
                  THEN Reported(h, d) \cup {Len(alerts) + 1} ELSE Reported(h, d)
           /\ \A h, d : Len(alerts) + 1 \notin Reported(h, d)
<1> DEFINE a == [hostname |-> Host(t), device_id |-> Device(t),
                 rule_name |-> Rules[job[t].rule], created_at |-> now, acknowledged |-> FALSE]
<1>1. job[t] \in Job /\ Host(t) \in Hosts /\ Device(t) \in Devices
  BY HasJob DEF InsertAlert, At
<1>2. job[t].rule \in 1..8 /\ Rules[job[t].rule] \in Range(Rules)
  BY <1>1, RulesFacts DEF Job
<1>3. a \in Alert
  BY <1>1, <1>2 DEF Alert, Typed
<1>4. alerts' = Append(alerts, a) /\ alerts \in Seq(Alert)
  BY DEF InsertAlert, Typed
<1>5. Rules[job[t].rule] = Unknown <=> job[t].rule = 2
  BY <1>2, RulesFacts
<1>6. a.hostname = Host(t) /\ a.device_id = Device(t) /\ (a.rule_name = Unknown <=> job[t].rule = 2)
  BY <1>5
<1> HIDE DEF a
<1>7. /\ alerts' \in Seq(Alert) /\ Len(alerts) \in Nat
      /\ DOMAIN alerts = 1..Len(alerts) /\ DOMAIN alerts' = 1..Len(alerts) + 1
      /\ \A i \in 1..Len(alerts) : alerts'[i] = alerts[i]
      /\ alerts'[Len(alerts) + 1] = a
  <2>1. Len(alerts') = Len(alerts) + 1 /\ alerts' \in Seq(Alert)
    BY <1>3, <1>4, AppendProperties
  <2> QED
    BY <1>3, <1>4, <2>1, AppendProperties, LenProperties
<1>8. \A i : i \in DOMAIN alerts' <=> i \in DOMAIN alerts \/ i = Len(alerts) + 1
  BY <1>7
<1>9. Len(alerts) + 1 \notin DOMAIN alerts
  BY <1>7
<1>10. ASSUME NEW h, NEW d, NEW i
       PROVE  i \in Reported(h, d)' <=>
                  \/ i \in Reported(h, d)
                  \/ i = Len(alerts) + 1 /\ Host(t) = h /\ Device(t) = d /\ job[t].rule = 2
  <2>1. CASE i \in DOMAIN alerts
    <3>1. alerts'[i] = alerts[i] /\ i # Len(alerts) + 1 /\ i \in DOMAIN alerts'
      BY <2>1, <1>7, <1>8, <1>9
    <3> QED
      BY <2>1, <3>1 DEF Reported, Alerts, Same
  <2>2. CASE i = Len(alerts) + 1
    <3>1. alerts'[i] = a /\ i \in DOMAIN alerts' /\ i \notin DOMAIN alerts
      BY <2>2, <1>7, <1>8, <1>9
    <3> QED
      BY <2>2, <3>1, <1>6 DEF Reported, Alerts, Same
  <2>3. CASE i \notin DOMAIN alerts /\ i # Len(alerts) + 1
    BY <2>3, <1>8 DEF Reported, Alerts
  <2> QED
    BY <2>1, <2>2, <2>3
<1>11. \A h, d : Len(alerts) + 1 \notin Reported(h, d)
  BY <1>9 DEF Reported, Alerts
<1>12. ASSUME NEW h, NEW d
       PROVE  Reported(h, d)' =
                  IF Host(t) = h /\ Device(t) = d /\ job[t].rule = 2
                  THEN Reported(h, d) \cup {Len(alerts) + 1} ELSE Reported(h, d)
  <2>1. CASE Host(t) = h /\ Device(t) = d /\ job[t].rule = 2
    BY <2>1, <1>10
  <2>2. CASE ~(Host(t) = h /\ Device(t) = d /\ job[t].rule = 2)
    <3>1. \A i : i \in Reported(h, d)' <=> i \in Reported(h, d)
      BY <2>2, <1>10
    <3>2. Reported(h, d)' = Reported(h, d)
      BY <3>1, Zenon
    <3> QED
      BY <2>2, <3>2
  <2> QED
    BY <2>1, <2>2
<1> QED
  BY <1>7, <1>11, <1>12

(* The alert that was owed is stored, or another one before it.            *)
LEMMA FireMoves ==
    ASSUME Typed, Readied, NEW t \in Threads, InsertAlert(t)
    PROVE  \E k : /\ Moves(t, k) /\ k # Idle /\ k.pc = "notify"
                  /\ k.rule = job[t].rule /\ k.fired = job[t].fired
<1> DEFINE j == job[t]  k == [j EXCEPT !.pc = "notify"]
<1>1. j \in Job /\ j # Idle /\ j.pc = "fire" /\ j.rule \in 1..8
  BY HasJob DEF InsertAlert, At, Job
<1>2. job' = [job EXCEPT ![t] = k]
  BY DEF InsertAlert, Goto, Become
<1>3. k \in Job /\ k.event = j.event /\ k.fired = j.fired /\ k.pc = "notify" /\ k.rule = j.rule
  BY <1>1 DEF Job, Places
<1> HIDE DEF k
<1>4. k # Idle /\ Ready(k)
  BY <1>1, <1>3 DEF Idle, Ready, Readied
<1>5. \A h, d : Owes(k, h, d) => Owes(j, h, d)
  BY <1>1, <1>3, <1>4 DEF Owes, About
<1>6. ASSUME NEW h, NEW d, Owes(j, h, d) PROVE Owes(k, h, d) \/ Reported(h, d)' # {}
  <2>1. Host(t) = h /\ Device(t) = d /\ j.rule <= 2
    BY <1>6, <1>1 DEF Owes, About, Host, Device
  <2>2. CASE j.rule = 2
    BY <2>1, <2>2, AlertAppended
  <2>3. CASE j.rule < 2
    BY <2>3, <1>3, <1>4, <1>6 DEF Owes, About
  <2> QED
    BY <2>1, <2>2, <2>3, <1>1
<1> QED
  BY <1>2, <1>3, <1>4, <1>5, <1>6 DEF Moves

(* After one alert the next, and none twice.                               *)
LEMMA NotifyMoves ==
    ASSUME Typed, NEW t \in Threads, Notify(t)
    PROVE  \E k : /\ Moves(t, k) /\ k # Idle /\ k.pc \in {"check", "score"}
                  /\ k.fired = job[t].fired /\ (k.pc = "check" => k.rule > job[t].rule)
<1> DEFINE j == job[t]
<1>1. j \in Job /\ j # Idle /\ j.pc = "notify" /\ j.rule \in 1..8
  BY HasJob DEF Notify, At, Job
<1>2. j.rule + 1 \in 1..9 /\ NextAlert(t, j.rule + 1)
  BY <1>1 DEF Notify
<1>3. PICK k :
          /\ job' = [job EXCEPT ![t] = k]
          /\ k \in Job /\ Ready(k) /\ k.event = j.event /\ k.fired = j.fired
          /\ k.pc \in {"check", "score"}
          /\ k.pc = "check" => k.rule >= j.rule + 1
          /\ j.rule + 1 <= 2 /\ Unknown \in j.fired => k.pc = "check" /\ k.rule <= 2
  BY <1>1, <1>2, NextAlertMoves
<1>4. k # Idle /\ k.rule \in 1..8
  BY <1>3 DEF Idle, Job
<1>5. \A h, d : Owes(k, h, d) <=> Owes(j, h, d)
  BY <1>1, <1>3, <1>4 DEF Owes, About
<1>6. k.pc = "check" => k.rule > j.rule
  BY <1>1, <1>3, <1>4
<1> QED
  BY <1>3, <1>4, <1>5, <1>6 DEF Moves

(* The event is done with, or an exception has ended it.                   *)
LEMMA EndMoves ==
    ASSUME Typed, NEW t \in Threads,
           UpsertRisk(t) \/ SlackRaises(t) \/ Raises(t)
    PROVE  Moves(t, Idle)
<1> DEFINE j == job[t]
<1>1. job' = [job EXCEPT ![t] = Idle]
  BY DEF UpsertRisk, SlackRaises, Raises, Goto, Become
<1>2. Ready(Idle) /\ \A h, d : ~Owes(Idle, h, d)
  BY DEF Idle, Ready, Owes, About
<1>3. \A h, d : Owes(j, h, d) => h \in failed'
  <2>1. CASE UpsertRisk(t)
    BY <2>1 DEF UpsertRisk, At, Owes
  <2>2. CASE SlackRaises(t) \/ Raises(t)
    BY <2>2 DEF SlackRaises, Raises, Owes, About, Host
  <2> QED
    BY <2>1, <2>2
<1> QED
  BY <1>1, <1>2, <1>3 DEF Moves

(* The steps between the insert and the alerts, and the insert itself.     *)
LEMMA BodyMoves ==
    ASSUME Typed, Readied, NEW t \in Threads,
           \/ InsertEvent(t) \/ AppendAudit(t) \/ UpdateDeviceBaseline(t)
           \/ UpdateUserBaseline(t) \/ UpdateHostTimezone(t) \/ TimezoneRaises(t)
    PROVE  \E k : /\ Moves(t, k)
                  /\ k = Idle => Fired(t) = {}
                  /\ k # Idle => /\ k.pc \in {"audit", "device", "user", "timezone", "check"}
                                 /\ k.fired = job[t].fired
                  /\ k.pc = "audit" <=> InsertEvent(t)
                  /\ k.pc = "device" <=> AppendAudit(t)
<1>1. CASE InsertEvent(t)
  <2>1. ~AppendAudit(t)
    BY <1>1 DEF InsertEvent, AppendAudit, At
  <2> QED
    BY <1>1, <2>1, GotoMoves DEF InsertEvent, At, Idle
<1>2. CASE AppendAudit(t)
  <2>1. ~InsertEvent(t)
    BY <1>2 DEF InsertEvent, AppendAudit, At
  <2> QED
    BY <1>2, <2>1, GotoMoves DEF AppendAudit, At, Idle
<1>3. CASE \/ UpdateDeviceBaseline(t) \/ UpdateUserBaseline(t)
           \/ UpdateHostTimezone(t) \/ TimezoneRaises(t)
  <2>1. ~InsertEvent(t) /\ ~AppendAudit(t)
    BY <1>3 DEF InsertEvent, AppendAudit, UpdateDeviceBaseline, UpdateUserBaseline,
                UpdateHostTimezone, TimezoneRaises, At
  <2>2. \E place \in {"user", "timezone", "check", "idle"} :
          /\ Goto(t, place)
          /\ place = "check" => Fired(t) # {}
          /\ place = "idle" => Fired(t) = {}
          /\ job[t].pc \in {"device", "user", "timezone"}
    BY <1>3 DEF UpdateDeviceBaseline, UpdateUserBaseline, UpdateHostTimezone, TimezoneRaises,
                At, ToAlerts, ToTimezone
  <2> QED
    BY <2>1, <2>2, GotoMoves DEF Idle
<1> QED
  BY <1>1, <1>2, <1>3

(* What a step of a thread does, whichever it is.                          *)
LEMMA StepMoves ==
    ASSUME Typed, Readied, NEW t \in Threads, Step(t)
    PROVE  /\ job[t] \in Job /\ job[t] # Idle
           /\ \E k : /\ Moves(t, k)
                     /\ \/ job[t].pc = "evaluate" /\ Turns(t, k)
                        \/ job[t].pc # "evaluate" /\ (k = Idle \/ k.pc \notin {"evaluate", "insert"})
           /\ InsertEvent(t) => job'[t].pc = "audit"
           /\ job[t].pc = "insert" => InsertEvent(t) \/ job'[t] = Idle
<1>1. job[t].pc # "idle"
  BY DEF Step, Evaluate, RuleRaises, InsertEvent, AppendAudit, UpdateDeviceBaseline,
         UpdateUserBaseline, UpdateHostTimezone, TimezoneRaises, CheckRecent, InsertAlert,
         Notify, SlackRaises, UpsertRisk, Raises, At
<1>2. job[t] \in Job /\ job[t] # Idle
  BY <1>1, HasJob
<1>3. CASE Evaluate(t) \/ RuleRaises(t)
  <2>1. job[t].pc = "evaluate" /\ ~InsertEvent(t)
    BY <1>3 DEF Evaluate, RuleRaises, InsertEvent, At
  <2> QED
    BY <1>2, <1>3, <2>1, EvaluateMoves
<1>4. CASE \/ InsertEvent(t) \/ AppendAudit(t) \/ UpdateDeviceBaseline(t)
           \/ UpdateUserBaseline(t) \/ UpdateHostTimezone(t) \/ TimezoneRaises(t)
  <2>1. job[t].pc # "evaluate" /\ (job[t].pc = "insert" => InsertEvent(t))
    BY <1>4 DEF InsertEvent, AppendAudit, UpdateDeviceBaseline, UpdateUserBaseline,
                UpdateHostTimezone, TimezoneRaises, At
  <2>2. PICK k : /\ Moves(t, k)
                 /\ k # Idle => k.pc \in {"audit", "device", "user", "timezone", "check"}
                 /\ k.pc = "audit" <=> InsertEvent(t)
    BY <1>4, BodyMoves
  <2>3. job'[t] = k
    BY <2>2 DEF Moves, Typed
  <2> QED
    BY <1>2, <2>1, <2>2, <2>3
<1>5. CASE CheckRecent(t) \/ InsertAlert(t) \/ Notify(t)
  <2>1. job[t].pc \notin {"evaluate", "insert"} /\ ~InsertEvent(t)
    BY <1>5 DEF CheckRecent, InsertAlert, Notify, InsertEvent, At
  <2>2. \E k : Moves(t, k) /\ k.pc \notin {"evaluate", "insert"}
    BY <1>5, CheckMoves, FireMoves, NotifyMoves
  <2> QED
    BY <1>2, <2>1, <2>2
<1>6. CASE UpsertRisk(t) \/ SlackRaises(t) \/ Raises(t)
  <2>1. job[t].pc # "evaluate" /\ Moves(t, Idle)
    BY <1>6, EndMoves DEF UpsertRisk, SlackRaises, Raises, At
  <2>2. job'[t] = Idle
    BY <2>1 DEF Moves, Typed
  <2>3. ~InsertEvent(t)
    <3> SUFFICES ASSUME InsertEvent(t) PROVE FALSE
      OBVIOUS
    <3>1. PICK k : Moves(t, k) /\ k.pc = "audit"
      BY BodyMoves
    <3>2. job'[t] = k
      BY <3>1 DEF Moves, Typed
    <3> QED
      BY <3>1, <3>2, <2>2 DEF Idle
  <2> QED
    BY <1>2, <2>1, <2>2, <2>3
<1> QED
  BY <1>3, <1>4, <1>5, <1>6 DEF Step

(* What a step of a thread leaves alone.                                   *)
LEMMA StepFrame ==
    ASSUME NEW t \in Threads, Step(t)
    PROVE  /\ now' = now /\ failed \subseteq failed' /\ purged' = purged
           /\ InsertEvent(t) \/ events' = events
           /\ InsertAlert(t) \/ alerts' = alerts
           /\ InsertEvent(t) => alerts' = alerts
           /\ InsertAlert(t) => events' = events
<1> USE DEF history, baselines
<1>1. CASE Evaluate(t) \/ RuleRaises(t)
  BY <1>1 DEF Evaluate, RuleRaises
<1>2. CASE InsertEvent(t) \/ AppendAudit(t) \/ UpdateDeviceBaseline(t)
  BY <1>2 DEF InsertEvent, AppendAudit, UpdateDeviceBaseline, InsertAlert, At
<1>3. CASE UpdateUserBaseline(t) \/ UpdateHostTimezone(t) \/ TimezoneRaises(t)
  BY <1>3 DEF UpdateUserBaseline, UpdateHostTimezone, TimezoneRaises
<1>4. CASE CheckRecent(t) \/ InsertAlert(t) \/ Notify(t)
  BY <1>4 DEF CheckRecent, InsertAlert, Notify, InsertEvent, At
<1>5. CASE UpsertRisk(t) \/ SlackRaises(t) \/ Raises(t)
  BY <1>5 DEF UpsertRisk, SlackRaises, Raises
<1> QED
  BY <1>1, <1>2, <1>3, <1>4, <1>5 DEF Step

-----------------------------------------------------------------------------
(* The row of an event comes last.                                         *)
LEMMA EventAppended ==
    ASSUME Typed, NEW t \in Threads, InsertEvent(t)
    PROVE  /\ events' \in Seq(EventRow) /\ Len(events) \in Nat
           /\ DOMAIN events = 1..Len(events) /\ DOMAIN events' = 1..Len(events) + 1
           /\ \A i \in 1..Len(events) : events'[i] = events[i]
           /\ LET row == events'[Len(events) + 1] IN
              /\ row.hostname = Host(t) /\ row.device_id = Device(t)
              /\ row.event_type = Ev(t).event_type
<1> DEFINE row == [hostname |-> Host(t), device_id |-> Device(t),
                   event_type |-> Ev(t).event_type, transfer_bytes |-> Ev(t).transfer_bytes,
                   received_at |-> now]
<1>1. job[t] \in Job /\ Host(t) \in Hosts /\ Device(t) \in Devices
  BY HasJob DEF InsertEvent, At
<1>2. Ev(t) \in Event
  BY <1>1 DEF Job, Ev
<1>3. row \in EventRow
  BY <1>1, <1>2 DEF EventRow, Typed
<1>4. events' = Append(events, row) /\ events \in Seq(EventRow)
  BY DEF InsertEvent, Typed
<1>5. row.hostname = Host(t) /\ row.device_id = Device(t) /\ row.event_type = Ev(t).event_type
  OBVIOUS
<1> HIDE DEF row
<1>6. Len(events') = Len(events) + 1 /\ events' \in Seq(EventRow)
  BY <1>3, <1>4, AppendProperties
<1>7. /\ Len(events) \in Nat /\ DOMAIN events = 1..Len(events)
      /\ DOMAIN events' = 1..Len(events) + 1
  BY <1>4, <1>6, LenProperties
<1>8. /\ \A i \in 1..Len(events) : events'[i] = events[i]
      /\ events'[Len(events) + 1] = row
  BY <1>3, <1>4, AppendProperties
<1> QED
  BY <1>5, <1>6, <1>7, <1>8

(* Rows are added, and the row of an event makes its device known.         *)
LEMMA StillKnown ==
    ASSUME Typed, NEW t \in Threads, Step(t)
    PROVE  /\ \A h, d : IsNew(h, d)' => IsNew(h, d)
           /\ \A h, d : IsNew(h, d) => IsNew(h, d)' \/ (InsertEvent(t) /\ Host(t) = h /\ Device(t) = d)
           /\ InsertEvent(t) => ~DeviceIsNew(events', Host(t), Device(t))
<1>1. CASE InsertEvent(t)
  <2>1. /\ DOMAIN events = 1..Len(events) /\ DOMAIN events' = 1..Len(events) + 1
        /\ Len(events) \in Nat
        /\ \A i \in 1..Len(events) : events'[i] = events[i]
        /\ events'[Len(events) + 1].hostname = Host(t)
        /\ events'[Len(events) + 1].device_id = Device(t)
    BY <1>1, EventAppended
  <2>2. /\ \A i \in 1..Len(events) : i \in DOMAIN events'
        /\ \A i \in DOMAIN events' : i \in 1..Len(events) \/ i = Len(events) + 1
        /\ Len(events) + 1 \in DOMAIN events'
    BY <2>1
  <2>3. \A h, d : IsNew(h, d)' <=> IsNew(h, d) /\ ~(Host(t) = h /\ Device(t) = d)
    BY <2>1, <2>2 DEF IsNew, DeviceIsNew
  <2>4. ~DeviceIsNew(events', Host(t), Device(t))
    BY <2>1, <2>2 DEF DeviceIsNew
  <2> QED
    BY <1>1, <2>3, <2>4
<1>2. CASE ~InsertEvent(t)
  <2>1. events' = events
    BY <1>2, StepFrame
  <2> QED
    BY <1>2, <2>1 DEF IsNew
<1> QED
  BY <1>1, <1>2

(* A thread's step keeps types, and what its job holds fits.               *)
LEMMA StepTyped ==
    ASSUME Typed, Readied, NEW t \in Threads, Step(t)
    PROVE  Typed' /\ Readied'
<1>1. PICK k : Moves(t, k)
  BY StepMoves
<1>2. /\ job \in [Threads -> {Idle} \cup Job] /\ k \in {Idle} \cup Job
      /\ job' = [job EXCEPT ![t] = k] /\ Ready(k)
  BY <1>1 DEF Typed, Moves
<1>3. job'[t] = k /\ \A s \in Threads : s # t => job'[s] = job[s]
  BY <1>2
<1>4. Typed'
  <2>1. job' \in [Threads -> {Idle} \cup Job]
    BY <1>2
  <2>2. events' \in Seq(EventRow)
    BY EventAppended, StepFrame DEF Typed
  <2>3. alerts' \in Seq(Alert)
    BY AlertAppended, StepFrame DEF Typed
  <2> QED
    BY <2>1, <2>2, <2>3, StepFrame DEF Typed
<1>5. ASSUME NEW s \in Threads PROVE Ready(job'[s])
  BY <1>2, <1>3 DEF Readied
<1> QED
  BY <1>4, <1>5 DEF Readied

(* A request's next event: nothing has fired for it yet.                   *)
LEMMA ReceiveTyped ==
    ASSUME Typed, Readied, NEW t \in Threads, NEW e \in Event, Receive(t, e)
    PROVE  Typed' /\ Readied'
<1> DEFINE k == [pc |-> "evaluate", event |-> e, rule |-> 1, fired |-> {}]
<1>1. /\ job' = [job EXCEPT ![t] = k]
      /\ events' = events /\ alerts' = alerts /\ now' = now
  BY DEF Receive, Become
<1>2. k \in Job /\ Ready(k)
  BY DEF Job, Places, Ready
<1> HIDE DEF k
<1>3. job'[t] = k /\ \A s \in Threads : s # t => job'[s] = job[s]
  BY <1>1 DEF Typed
<1>4. Typed'
  BY <1>1, <1>2 DEF Typed
<1>5. ASSUME NEW s \in Threads PROVE Ready(job'[s])
  BY <1>2, <1>3 DEF Readied
<1> QED
  BY <1>4, <1>5 DEF Readied

(* A purge takes the first rows of the tables.                             *)
LEMMA PurgeTakes ==
    ASSUME Typed, NEW cutoff, Purge(cutoff)
    PROVE  /\ \E n \in 0..Len(events) : events' = SubSeq(events, n + 1, Len(events))
           /\ \E n \in 0..Len(alerts) : alerts' = SubSeq(alerts, n + 1, Len(alerts))
<1> DEFINE oldEvents == {i \in DOMAIN events : events[i].received_at < cutoff}
           oldAlerts == {i \in DOMAIN alerts : alerts[i].created_at < cutoff}
<1>1. /\ Len(events) \in Nat /\ DOMAIN events = 1..Len(events)
      /\ Len(alerts) \in Nat /\ DOMAIN alerts = 1..Len(alerts)
  BY LenProperties DEF Typed
<1>2. Cardinality(oldEvents) \in 0..Len(events)
  <2>1. oldEvents \subseteq 1..Len(events)
    BY <1>1
  <2> QED
    BY <1>1, <2>1, FrontBound
<1>3. Cardinality(oldAlerts) \in 0..Len(alerts)
  <2>1. oldAlerts \subseteq 1..Len(alerts)
    BY <1>1
  <2> QED
    BY <1>1, <2>1, FrontBound
<1>4. /\ events' = SubSeq(events, Cardinality(oldEvents) + 1, Len(events))
      /\ alerts' = SubSeq(alerts, Cardinality(oldAlerts) + 1, Len(alerts))
  BY DEF Purge
<1> HIDE DEF oldEvents, oldAlerts
<1> QED
  BY <1>2, <1>3, <1>4

(* A purge keeps the types, ...                                            *)
LEMMA PurgeTyped ==
    ASSUME Typed, Readied, NEW cutoff, Purge(cutoff)
    PROVE  Typed' /\ Readied'
<1>1. events' \in Seq(EventRow) /\ alerts' \in Seq(Alert)
  <2>1. PICK n \in 0..Len(events) : events' = SubSeq(events, n + 1, Len(events))
    BY PurgeTakes
  <2>2. PICK m \in 0..Len(alerts) : alerts' = SubSeq(alerts, m + 1, Len(alerts))
    BY PurgeTakes
  <2>3. events' \in Seq(EventRow)
    BY <2>1, TailFacts DEF Typed
  <2>4. alerts' \in Seq(Alert)
    BY <2>2, TailFacts DEF Typed
  <2> QED
    BY <2>3, <2>4
<1>2. job' = job /\ now' = now
  BY DEF Purge
<1> QED
  BY <1>1, <1>2 DEF Typed, Readied

(* An acknowledgement marks one alert.                                     *)
LEMMA AlertMarked ==
    ASSUME Typed, NEW i \in DOMAIN alerts, Acknowledge(i)
    PROVE  /\ alerts' \in Seq(Alert) /\ DOMAIN alerts' = DOMAIN alerts
           /\ \A n \in DOMAIN alerts :
                /\ alerts'[n].hostname = alerts[n].hostname
                /\ alerts'[n].device_id = alerts[n].device_id
                /\ alerts'[n].rule_name = alerts[n].rule_name
                /\ alerts'[n].created_at = alerts[n].created_at
<1> DEFINE a == [alerts[i] EXCEPT !.acknowledged = TRUE]
<1>1. alerts \in Seq(Alert) /\ Len(alerts) \in Nat /\ DOMAIN alerts = 1..Len(alerts)
  BY LenProperties DEF Typed
<1>2. alerts[i] \in Alert
  BY <1>1, ElementOfSeq
<1>3. /\ a \in Alert /\ a.hostname = alerts[i].hostname /\ a.device_id = alerts[i].device_id
      /\ a.rule_name = alerts[i].rule_name /\ a.created_at = alerts[i].created_at
  BY <1>2 DEF Alert
<1>4. alerts' = [alerts EXCEPT ![i] = a]
  BY DEF Acknowledge
<1> HIDE DEF a
<1>5. /\ alerts' \in Seq(Alert)
      /\ Len(alerts') = Len(alerts)
      /\ \A n \in 1..Len(alerts) : alerts'[n] = IF n = i THEN a ELSE alerts[n]
  <2>1. /\ [alerts EXCEPT ![i] = a] \in Seq(Alert)
        /\ Len([alerts EXCEPT ![i] = a]) = Len(alerts)
        /\ \A n \in 1..Len(alerts) :
                [alerts EXCEPT ![i] = a][n] = IF n = i THEN a ELSE alerts[n]
    BY <1>1, <1>3, ExceptSeq
  <2> QED
    BY <1>4, <2>1
<1>6. DOMAIN alerts' = DOMAIN alerts
  BY <1>1, <1>5, LenProperties
<1> QED
  BY <1>1, <1>3, <1>5, <1>6

(* ... and so does every step.                                             *)
LEMMA NextTyped ==
    ASSUME Typed, Readied, [Next]_vars
    PROVE  Typed' /\ Readied'
<1>1. ASSUME NEW t \in Threads, Step(t) PROVE Typed' /\ Readied'
  BY <1>1, StepTyped
<1>2. ASSUME NEW t \in Threads, NEW e \in Event, Receive(t, e) PROVE Typed' /\ Readied'
  BY <1>2, ReceiveTyped
<1>3. ASSUME NEW cutoff \in 1..MaxTime, Purge(cutoff) PROVE Typed' /\ Readied'
  BY <1>3, PurgeTyped
<1>4. ASSUME NEW i \in DOMAIN alerts, Acknowledge(i) PROVE Typed' /\ Readied'
  <2>1. alerts' \in Seq(Alert)
    BY <1>4, AlertMarked
  <2> QED
    BY <1>4, <2>1 DEF Acknowledge, Typed, Readied
<1>5. CASE Tick
  BY <1>5 DEF Tick, Typed, Readied
<1>6. CASE UNCHANGED vars
  BY <1>6 DEF vars, Typed, Readied
<1> QED
  BY <1>1, <1>2, <1>3, <1>4, <1>5, <1>6 DEF Next

(* The empty tables have their types.                                      *)
LEMMA InitTyped == Init => Typed /\ Readied
<1> SUFFICES ASSUME Init PROVE Typed /\ Readied
  OBVIOUS
<1>1. events = <<>> /\ alerts = <<>> /\ now = 0 /\ job = [t \in Threads |-> Idle]
  BY DEF Init
<1>2. <<>> \in Seq(EventRow) /\ <<>> \in Seq(Alert)
  BY EmptySeq
<1>3. Typed
  BY <1>1, <1>2 DEF Typed
<1>4. Readied
  BY <1>1 DEF Readied, Ready, Idle
<1> QED
  BY <1>3, <1>4

(* Whatever is purged or raises, the tables hold rows and every job fits.  *)
THEOREM JobsFit == Spec => [](Typed /\ Readied)
<1>1. Typed /\ Readied /\ [Next]_vars => Typed' /\ Readied'
  BY NextTyped
<1> QED
  BY <1>1, InitTyped, PTL DEF Spec

-----------------------------------------------------------------------------
(* The unknown_device rule.  A thread past its insert has a row.           *)
LEMMA StepKnown ==
    ASSUME Typed, Readied, Known, NEW t \in Threads, Step(t)
    PROVE  Known'
<1>1. PICK k : /\ Moves(t, k)
               /\ \/ job[t].pc = "evaluate" /\ Turns(t, k)
                  \/ job[t].pc # "evaluate" /\ (k = Idle \/ k.pc \notin {"evaluate", "insert"})
  BY StepMoves
<1>2. /\ job \in [Threads -> {Idle} \cup Job] /\ k \in {Idle} \cup Job
      /\ job' = [job EXCEPT ![t] = k] /\ (k # Idle => k.event = job[t].event)
  BY <1>1 DEF Typed, Moves
<1>3. job'[t] = k /\ \A s \in Threads : s # t => job'[s] = job[s]
  BY <1>2
<1>4. Known'
  <2> SUFFICES ASSUME NEW s \in Threads
               PROVE  job'[s] # Idle /\ job'[s].pc \notin {"evaluate", "insert"}
                            => ~DeviceIsNew(events', job'[s].event.hostname,
                                            job'[s].event.device_id)
    BY DEF Known, IsNew, Host, Device
  <2>1. CASE s # t
    <3>1. job'[s] = job[s]
      BY <2>1, <1>3
    <3>2. job[s] # Idle /\ job[s].pc \notin {"evaluate", "insert"}
            => ~IsNew(Host(s), Device(s))
      BY DEF Known
    <3>3. \A h, d : ~IsNew(h, d) => ~DeviceIsNew(events', h, d)
      BY StillKnown DEF IsNew
    <3> QED
      BY <3>1, <3>2, <3>3 DEF Host, Device
  <2>2. CASE s = t
    <3>2. ASSUME k # Idle, k.pc \notin {"evaluate", "insert"}
          PROVE  ~DeviceIsNew(events', k.event.hostname, k.event.device_id)
      <4>1. job[t].pc # "evaluate" /\ job[t] # Idle
        BY <1>1, <3>2, StepMoves DEF Turns
      <4>2. k.event.hostname = Host(t) /\ k.event.device_id = Device(t)
        BY <1>2, <3>2 DEF Host, Device
      <4>3. CASE job[t].pc = "insert"
        <5>1. InsertEvent(t)
          BY <4>3, <1>3, <3>2, StepMoves
        <5> QED
          BY <5>1, <4>2, StillKnown
      <4>4. CASE job[t].pc # "insert"
        BY <4>1, <4>2, <4>4, <3>2, StillKnown, StepMoves DEF Known, IsNew
      <4> QED
        BY <4>3, <4>4
    <3> QED
      BY <2>2, <1>3, <3>2
  <2> QED
    BY <2>1, <2>2
<1> QED
  BY <1>4

(* Threads and alerts can be counted.                                      *)
LEMMA FiniteParts ==
    ASSUME Typed
    PROVE  /\ IsFiniteSet(Threads) /\ Cardinality(Threads) \in Nat
           /\ \A h, d : /\ IsFiniteSet(Reported(h, d)) /\ Cardinality(Reported(h, d)) \in Nat
                        /\ IsFiniteSet(Pending(h, d)) /\ Cardinality(Pending(h, d)) \in Nat
                        /\ Cardinality(Pending(h, d)) <= Cardinality(Threads)
<1>1. IsFiniteSet(Threads)
  BY IngestAssumption
<1>2. IsFiniteSet(DOMAIN alerts)
  <2>1. Len(alerts) \in Nat /\ DOMAIN alerts = 1..Len(alerts)
    BY LenProperties DEF Typed
  <2> QED
    BY <2>1, FS_Interval
<1>3. \A h, d : Reported(h, d) \subseteq DOMAIN alerts /\ Pending(h, d) \subseteq Threads
  BY DEF Reported, Alerts, Pending
<1> QED
  BY <1>1, <1>2, <1>3, FS_Subset, FS_CardinalityType

(* Once a device has its row, each alert stored is one no longer owed.     *)
LEMMA StepCounted ==
    ASSUME Typed, Readied, Known, NEW t \in Threads, Step(t),
           NEW h \in Hosts, NEW d \in Devices, NoneEarly(h, d), Counted(h, d)
    PROVE  NoneEarly(h, d)' /\ Counted(h, d)'
<1>1. PICK k : Moves(t, k)
  BY StepMoves
<1>2. job'[t] = k /\ \A s \in Threads : s # t => job'[s] = job[s]
  BY <1>1 DEF Moves, Typed
<1>3. Typed'
  BY StepTyped
<1>4. CASE IsNew(h, d)
  <2>1. ~(InsertAlert(t) /\ Host(t) = h /\ Device(t) = d)
    BY <1>4, StepMoves DEF InsertAlert, At, Known
  <2>2. Reported(h, d)' = {}
    <3>1. CASE InsertAlert(t)
      BY <3>1, <2>1, <1>4, AlertAppended DEF NoneEarly
    <3>2. CASE ~InsertAlert(t)
      BY <3>2, <1>4, StepFrame DEF NoneEarly, Reported, Alerts
    <3> QED
      BY <3>1, <3>2
  <2>3. Cardinality(Reported(h, d)') = 0
    BY <2>2, FS_EmptySet
  <2>4. /\ Cardinality(Pending(h, d)') <= Cardinality(Threads)
        /\ Cardinality(Pending(h, d)') \in Nat /\ Cardinality(Threads) \in Nat
    <3>1. Pending(h, d)' \subseteq Threads
      BY DEF Pending
    <3> QED
      BY <3>1, FiniteParts, FS_Subset, FS_CardinalityType
  <2> QED
    BY <2>2, <2>3, <2>4 DEF NoneEarly, Counted
<1>5. CASE ~IsNew(h, d)
  <2>1. ~IsNew(h, d)'
    BY <1>5, StillKnown
  <2>2. Pending(h, d)' \subseteq Pending(h, d)
    BY <1>1, <1>2, <1>5 DEF Moves, Pending
  <2>3. /\ IsFiniteSet(Pending(h, d)) /\ IsFiniteSet(Reported(h, d))
        /\ Cardinality(Reported(h, d)) + Cardinality(Pending(h, d)) <= Cardinality(Threads)
        /\ Cardinality(Reported(h, d)) \in Nat /\ Cardinality(Pending(h, d)) \in Nat
        /\ Cardinality(Threads) \in Nat
    BY <1>5, FiniteParts DEF Counted
  <2>4. CASE InsertAlert(t) /\ Host(t) = h /\ Device(t) = d /\ job[t].rule = 2
    <3>1. Cardinality(Reported(h, d)') = Cardinality(Reported(h, d)) + 1
      BY <2>3, <2>4, AlertAppended, FS_AddElement
    <3>2. t \in Pending(h, d)
      <4>1. job[t].pc = "fire" /\ job[t] # Idle /\ Rules[job[t].rule] \in job[t].fired
        BY <2>4, StepMoves DEF InsertAlert, At, Readied, Ready
      <4> QED
        BY <4>1, <2>4, RulesFacts DEF Pending, Owes, About, Host, Device
    <3>3. t \notin Pending(h, d)'
      <4>1. PICK l : Moves(t, l) /\ l.pc = "notify" /\ l.rule = job[t].rule
        BY <2>4, FireMoves
      <4>2. job'[t] = l
        BY <4>1 DEF Moves, Typed
      <4> QED
        BY <4>1, <4>2, <2>4 DEF Pending, Owes
    <3>4. Pending(h, d)' \subseteq Pending(h, d) \ {t}
      BY <2>2, <3>3
    <3>5. /\ Cardinality(Pending(h, d) \ {t}) = Cardinality(Pending(h, d)) - 1
          /\ IsFiniteSet(Pending(h, d) \ {t})
      BY <2>3, <3>2, FS_RemoveElement
    <3>6. /\ Cardinality(Pending(h, d)') <= Cardinality(Pending(h, d)) - 1
          /\ Cardinality(Pending(h, d)') \in Nat
      BY <3>4, <3>5, FS_Subset, FS_CardinalityType
    <3>7. Cardinality(Reported(h, d)') + Cardinality(Pending(h, d)') <= Cardinality(Threads)
      BY <2>3, <3>1, <3>6
    <3> QED
      BY <2>1, <3>7 DEF NoneEarly, Counted
  <2>5. CASE ~(InsertAlert(t) /\ Host(t) = h /\ Device(t) = d /\ job[t].rule = 2)
    <3>1. Reported(h, d)' = Reported(h, d)
      <4>1. CASE InsertAlert(t)
        BY <4>1, <2>5, AlertAppended
      <4>2. CASE ~InsertAlert(t)
        BY <4>2, StepFrame DEF Reported, Alerts
      <4> QED
        BY <4>1, <4>2
    <3>2. /\ Cardinality(Pending(h, d)') <= Cardinality(Pending(h, d))
          /\ Cardinality(Pending(h, d)') \in Nat
      BY <2>2, <2>3, FS_Subset, FS_CardinalityType
    <3>3. Cardinality(Reported(h, d)') + Cardinality(Pending(h, d)') <= Cardinality(Threads)
      BY <2>3, <3>1, <3>2
    <3> QED
      BY <2>1, <3>3 DEF NoneEarly, Counted
  <2> QED
    BY <2>4, <2>5
<1> QED
  BY <1>4, <1>5

(* The thread that stores the first row has fired, and owes the alert.     *)
LEMMA StepFirst ==
    ASSUME Typed, Readied, Known, NEW t \in Threads, Step(t),
           NEW h \in Hosts, NEW d \in Devices, NewIsFired(h, d), FirstHandled(h, d)
    PROVE  NewIsFired(h, d)' /\ FirstHandled(h, d)'
<1>1. PICK k : /\ Moves(t, k)
               /\ \/ job[t].pc = "evaluate" /\ Turns(t, k)
                  \/ job[t].pc # "evaluate" /\ (k = Idle \/ k.pc \notin {"evaluate", "insert"})
  BY StepMoves
<1>2. job'[t] = k /\ \A s \in Threads : s # t => job'[s] = job[s]
  BY <1>1 DEF Moves, Typed
<1>3. job[t] \in Job /\ job[t] # Idle
  BY StepMoves
<1>4. NewIsFired(h, d)'
  <2> SUFFICES ASSUME IsNew(h, d)', h \notin failed', NEW s \in Threads,
                      About(job'[s], h, d), job'[s].event.event_type = "connected",
                      Judged(job'[s])
               PROVE  Unknown \in job'[s].fired
    BY DEF NewIsFired, Ev, Fired
  <2>1. IsNew(h, d) /\ h \notin failed
    BY StillKnown, StepFrame
  <2>2. CASE s # t
    BY <2>1, <2>2, <1>2 DEF NewIsFired, Ev, Fired
  <2>3. CASE s = t
    <3>1. About(k, h, d) /\ k.event.event_type = "connected" /\ Judged(k)
      BY <2>3, <1>2
    <3>2. k # Idle /\ k.pc \in {"evaluate", "insert"} /\ k.event = job[t].event
      BY <3>1, <1>1 DEF About, Judged, Moves
    <3>3. job[t].pc = "evaluate" /\ Turns(t, k)
      BY <3>2, <1>1
    <3>4. About(job[t], h, d) /\ Host(t) = h /\ Device(t) = d /\ Ev(t).event_type = "connected"
      BY <3>1, <3>2, <1>3 DEF About, Host, Device, Ev
    <3>5. CASE Judged(job[t])
      <4>1. Unknown \in job[t].fired
        BY <2>1, <3>4, <3>5 DEF NewIsFired, Fired
      <4> QED
        BY <4>1, <3>3, <2>3, <1>2 DEF Turns
    <3>6. CASE ~Judged(job[t])
      BY <3>6, <3>1, <3>3, <3>4, <2>1, <2>3, <1>2 DEF Turns
    <3> QED
      BY <3>5, <3>6
  <2> QED
    BY <2>2, <2>3
<1>5. FirstHandled(h, d)'
  <2> SUFFICES ASSUME NEW i \in DOMAIN events', First(i, h, d)',
                      events'[i].event_type = "connected", h \notin failed',
                      Reported(h, d)' = {}
               PROVE  Pending(h, d)' # {}
    BY DEF FirstHandled
  <2>1. Reported(h, d) = {}
    <3>1. CASE InsertAlert(t)
      BY <3>1, AlertAppended
    <3>2. CASE ~InsertAlert(t)
      BY <3>2, StepFrame DEF Reported, Alerts
    <3> QED
      BY <3>1, <3>2
  <2>2. h \notin failed
    BY StepFrame
  <2>3. ASSUME i \in DOMAIN events, First(i, h, d), events[i].event_type = "connected"
        PROVE  Pending(h, d)' # {}
    <3>1. PICK s \in Threads : Owes(job[s], h, d)
      BY <2>1, <2>2, <2>3 DEF FirstHandled, Pending
    <3>2. Owes(job'[s], h, d)
      BY <3>1, <1>1, <1>2 DEF Moves
    <3> QED
      BY <3>2 DEF Pending
  <2>4. CASE ~InsertEvent(t)
    <3>1. events' = events
      BY <2>4, StepFrame
    <3> QED
      BY <3>1, <2>3 DEF First
  <2>5. CASE InsertEvent(t)
    <3>1. /\ Len(events) \in Nat
          /\ DOMAIN events = 1..Len(events) /\ DOMAIN events' = 1..Len(events) + 1
          /\ \A n \in 1..Len(events) : events'[n] = events[n]
          /\ events'[Len(events) + 1].hostname = Host(t)
          /\ events'[Len(events) + 1].device_id = Device(t)
          /\ events'[Len(events) + 1].event_type = Ev(t).event_type
      BY <2>5, EventAppended
    <3>2. /\ events'[i].hostname = h /\ events'[i].device_id = d
          /\ \A n \in 1..i - 1 : ~(events'[n].hostname = h /\ events'[n].device_id = d)
      BY DEF First
    <3>3. CASE i \in 1..Len(events)
      <4>1. \A n \in 1..i - 1 : n \in 1..Len(events)
        BY <3>1, <3>3
      <4>2. First(i, h, d) /\ events[i].event_type = "connected" /\ i \in DOMAIN events
        BY <4>1, <3>1, <3>2, <3>3 DEF First
      <4> QED
        BY <4>2, <2>3
    <3>4. CASE i = Len(events) + 1
      <4>1. Host(t) = h /\ Device(t) = d /\ Ev(t).event_type = "connected"
        BY <3>1, <3>2, <3>4
      <4>2. IsNew(h, d)
        <5>1. \A n \in DOMAIN events : n \in 1..i - 1 /\ events'[n] = events[n]
          BY <3>1, <3>4
        <5> QED
          BY <5>1, <3>2 DEF IsNew, DeviceIsNew
      <4>3. job[t].pc = "insert" /\ About(job[t], h, d)
        BY <2>5, <4>1, <1>3 DEF InsertEvent, At, About, Host, Device
      <4>4. Unknown \in job[t].fired
        BY <4>1, <4>2, <4>3, <2>2 DEF NewIsFired, Judged, Fired
      <4>5. Owes(job[t], h, d)
        BY <4>3, <4>4 DEF Owes
      <4>6. Owes(job'[t], h, d)
        BY <4>5, <1>1, <1>2 DEF Moves
      <4> QED
        BY <4>6 DEF Pending
    <3> QED
      BY <3>1, <3>3, <3>4
  <2> QED
    BY <2>4, <2>5
<1> QED
  BY <1>4, <1>5

(* A request's next event: nobody has looked at anything for it yet.       *)
LEMMA ReceiveKeeps ==
    ASSUME Typed, Known, \A h \in Hosts, d \in Devices : PerDevice(h, d),
           NEW t \in Threads, NEW e \in Event, Receive(t, e)
    PROVE  Known' /\ \A h \in Hosts, d \in Devices : PerDevice(h, d)'
<1> DEFINE k == [pc |-> "evaluate", event |-> e, rule |-> 1, fired |-> {}]
<1>1. /\ job' = [job EXCEPT ![t] = k]
      /\ events' = events /\ alerts' = alerts /\ now' = now /\ failed' = failed
  BY DEF Receive, Become
<1>2. k # Idle /\ ~Judged(k) /\ k.pc = "evaluate" /\ k.fired = {}
  BY DEF Idle, Judged
<1> HIDE DEF k
<1>3. job'[t] = k /\ \A s \in Threads : s # t => job'[s] = job[s]
  BY <1>1 DEF Typed
<1>5. \A h, d : IsNew(h, d)' = IsNew(h, d) /\ Reported(h, d)' = Reported(h, d)
  BY <1>1 DEF IsNew, Reported, Alerts
<1>6. Known'
  <2> SUFFICES ASSUME NEW s \in Threads
               PROVE  job'[s] # Idle /\ job'[s].pc \notin {"evaluate", "insert"}
                            => ~DeviceIsNew(events, job'[s].event.hostname,
                                            job'[s].event.device_id)
    BY <1>1 DEF Known, IsNew, Host, Device
  <2> QED
    BY <1>2, <1>3 DEF Known, IsNew, Host, Device
<1>7. ASSUME NEW h \in Hosts, NEW d \in Devices PROVE PerDevice(h, d)'
  <2>1. Pending(h, d)' = Pending(h, d)
    <3>1. job[t].pc = "idle" /\ ~Owes(job[t], h, d) /\ ~Owes(k, h, d)
      BY <1>2 DEF Receive, At, Owes
    <3>2. \A s \in Threads : Owes(job'[s], h, d) <=> Owes(job[s], h, d)
      BY <3>1, <1>3
    <3> QED
      BY <3>2 DEF Pending
  <2>2. NewIsFired(h, d)'
    <3> SUFFICES ASSUME IsNew(h, d), h \notin failed, NEW s \in Threads,
                        About(job'[s], h, d), job'[s].event.event_type = "connected",
                        Judged(job'[s])
                 PROVE  Unknown \in job'[s].fired
      BY <1>1, <1>5 DEF NewIsFired, Ev, Fired
    <3>1. s # t
      BY <1>2, <1>3
    <3> QED
      BY <3>1, <1>3 DEF PerDevice, NewIsFired, Ev, Fired
  <2>3. FirstHandled(h, d)'
    BY <2>1, <1>1, <1>5 DEF PerDevice, FirstHandled, First
  <2> QED
    BY <2>1, <2>2, <2>3, <1>5 DEF PerDevice, NoneEarly, Counted
<1> QED
  BY <1>6, <1>7

(* The clock and the analysts do not touch what the alerts are of.         *)
LEMMA OthersKeep ==
    ASSUME Typed, Known, \A h \in Hosts, d \in Devices : PerDevice(h, d),
           Tick \/ (\E i \in DOMAIN alerts : Acknowledge(i)) \/ UNCHANGED vars
    PROVE  Known' /\ \A h \in Hosts, d \in Devices : PerDevice(h, d)'
<1>1. job' = job /\ events' = events /\ failed' = failed
  BY DEF Tick, Acknowledge, vars, history, baselines
<1>3. /\ DOMAIN alerts' = DOMAIN alerts
      /\ \A i \in DOMAIN alerts : \A h, d, r : Same(alerts'[i], h, d, r) <=> Same(alerts[i], h, d, r)
  <2>1. CASE alerts' = alerts
    BY <2>1
  <2>2. CASE \E i \in DOMAIN alerts : Acknowledge(i)
    BY <2>2, AlertMarked DEF Same
  <2> QED
    BY <2>1, <2>2 DEF Tick, vars
<1>4. \A h, d : /\ IsNew(h, d)' = IsNew(h, d) /\ Reported(h, d)' = Reported(h, d)
                /\ Pending(h, d)' = Pending(h, d)
  BY <1>1, <1>3 DEF IsNew, Reported, Alerts, Pending
<1>6. Known'
  BY <1>1, <1>4 DEF Known, IsNew, Host, Device
<1>7. \A h \in Hosts, d \in Devices : PerDevice(h, d)'
  BY <1>1, <1>4
     DEF PerDevice, NoneEarly, Counted, NewIsFired, FirstHandled, First, Ev, Fired
<1> QED
  BY <1>6, <1>7

-----------------------------------------------------------------------------
(* Nothing is stored, and nobody owes an alert.                            *)
LEMMA InitIngest == Init => IngestInv
<1> SUFFICES ASSUME Init PROVE IngestInv
  OBVIOUS
<1>1. events = <<>> /\ alerts = <<>> /\ job = [t \in Threads |-> Idle] /\ DOMAIN <<>> = {}
  BY EmptySeq, LenProperties DEF Init
<1>2. Known
  BY <1>1 DEF Known
<1>3. \A h, d : /\ Reported(h, d) = {} /\ IsNew(h, d)
                /\ \A t \in Threads : ~Judged(job[t])
  BY <1>1 DEF Reported, Alerts, IsNew, DeviceIsNew, Judged, Idle
<1>4. \A h, d : PerDevice(h, d)
  BY <1>1, <1>3 DEF PerDevice, NoneEarly, Counted, NewIsFired, FirstHandled
<1> QED
  BY <1>2, <1>4, InitTyped DEF IngestInv

(* Every step of every thread, tick, purge or acknowledgement keeps it.    *)
LEMMA IngestStep ==
    ASSUME IngestInv, [Next]_vars
    PROVE  IngestInv'
<1>1. Typed' /\ Readied'
  BY NextTyped DEF IngestInv
<1> SUFFICES ASSUME ~purged'
             PROVE  Known' /\ \A h \in Hosts, d \in Devices : PerDevice(h, d)'
  BY <1>1 DEF IngestInv
<1>2. ~purged
  BY StepFrame DEF Next, Receive, Purge, Acknowledge, Tick, vars, history
<1>3. Typed /\ Readied /\ Known /\ \A h \in Hosts, d \in Devices : PerDevice(h, d)
  BY <1>2 DEF IngestInv
<1>4. ASSUME NEW t \in Threads, Step(t)
      PROVE  Known' /\ \A h \in Hosts, d \in Devices : PerDevice(h, d)'
  BY <1>3, <1>4, StepKnown, StepCounted, StepFirst DEF PerDevice
<1>5. ASSUME NEW t \in Threads, NEW e \in Event, Receive(t, e)
      PROVE  Known' /\ \A h \in Hosts, d \in Devices : PerDevice(h, d)'
  BY <1>3, <1>5, ReceiveKeeps
<1>6. CASE Tick \/ (\E i \in DOMAIN alerts : Acknowledge(i)) \/ UNCHANGED vars
  BY <1>3, <1>6, OthersKeep
<1>7. ASSUME NEW cutoff \in 1..MaxTime, Purge(cutoff) PROVE FALSE
  BY <1>7 DEF Purge
<1> QED
  BY <1>4, <1>5, <1>6, <1>7 DEF Next

(* The inductive invariant of the unknown_device rule, until a purge.      *)
THEOREM Invariance == Spec => []IngestInv
<1>1. IngestInv /\ [Next]_vars => IngestInv'
  BY IngestStep
<1> QED
  BY <1>1, InitIngest, PTL DEF Spec

(* However long the server runs, with any number of request threads and    *)
(* any exceptions, each thread reports a device as unknown on a host at    *)
(* most once (src/server/detection/rules.py, rule_unknown_device).         *)
THEOREM ReportedOnce == Spec => []UnknownOnce
<1>1. IngestInv => UnknownOnce
  <2> SUFFICES ASSUME IngestInv, ~purged, NEW h \in Hosts, NEW d \in Devices
               PROVE  Cardinality(Alerts(h, d, "unknown_device")) <= Cardinality(Threads)
    BY DEF UnknownOnce
  <2>1. Typed /\ NoneEarly(h, d) /\ Counted(h, d)
    BY DEF IngestInv, PerDevice
  <2>2. Cardinality({}) = 0
    BY FS_EmptySet
  <2>3. Cardinality(Reported(h, d)) <= Cardinality(Threads)
    BY <2>1, <2>2, FiniteParts DEF NoneEarly, Counted
  <2> QED
    BY <2>3 DEF Reported, Unknown
<1> QED
  BY <1>1, Invariance, PTL

(* A device whose first event on a host is a connection has its alert when *)
(* the event's handling is over without an exception, however many         *)
(* requests about it are handled at once.                                  *)
THEOREM FirstIsAlerted == Spec => []FirstConnectAlerted
<1>1. IngestInv => FirstConnectAlerted
  <2> SUFFICES ASSUME IngestInv, ~purged, NEW i \in DOMAIN events,
                      events[i].event_type = "connected",
                      \A j \in 1..i - 1 : \/ events[j].hostname # events[i].hostname
                                          \/ events[j].device_id # events[i].device_id,
                      events[i].hostname \notin failed,
                      ~Busy(events[i].hostname, events[i].device_id)
               PROVE  Alerts(events[i].hostname, events[i].device_id, "unknown_device") # {}
    BY DEF FirstConnectAlerted
  <2> DEFINE h == events[i].hostname  d == events[i].device_id
  <2>1. Typed
    BY DEF IngestInv
  <2>2. events[i] \in EventRow
    BY <2>1, LenProperties, ElementOfSeq DEF Typed
  <2>3. h \in Hosts /\ d \in Devices
    BY <2>2 DEF EventRow
  <2>4. FirstHandled(h, d)
    BY <2>3 DEF IngestInv, PerDevice
  <2>5. First(i, h, d)
    BY DEF First
  <2>6. Pending(h, d) = {}
    BY DEF Pending, Owes, About, Busy, Host, Device
  <2>7. Reported(h, d) # {}
    BY <2>4, <2>5, <2>6 DEF FirstHandled
  <2> QED
    BY <2>7 DEF Reported, Unknown
<1> QED
  BY <1>1, Invariance, PTL

-----------------------------------------------------------------------------
(* The counters and tables.  What threads are at, and what the rows are of. *)
Early == {"evaluate", "insert", "audit", "device", "user", "timezone"}
Telling(r) == {k \in Job : k.pc = "notify" /\ Rules[k.rule] = r}
Told(h) == {k \in Job : k.pc = "notify" /\ k.event.hostname = h /\ SeverityPasses(Rules[k.rule])}
Coming(r) ==
    {k \in Job :
        /\ r \in k.fired
        /\ \/ k.pc \in Early
           \/ k.pc \in {"check", "fire", "notify"} /\ \E i \in k.rule..8 : Rules[i] = r}
Auditing(h) == {k \in Job : k.pc = "audit" /\ k.event.hostname = h}
Sighting(h, d) ==
    {k \in Job :
        k.pc \in {"audit", "device"} /\ k.event.hostname = h /\ k.event.device_id = d}
AlertsOf(r) == {a \in Alert : a.rule_name = r}
LoudAlerts(h) == {a \in Alert : a.hostname = h /\ SeverityPasses(a.rule_name)}
RowsOf(h) == {row \in EventRow : row.hostname = h}
RowsOfDevice(h, d) == {row \in EventRow : row.hostname = h /\ row.device_id = d}

(* The steps of a thread, by where they lead and what they count.          *)
LEMMA PlaceFacts ==
    ASSUME Typed, Readied, NEW t \in Threads, Step(t)
    PROVE  LET j == job[t]  k == job'[t] IN
           /\ j \in Job /\ j # Idle /\ k \in {Idle} \cup Job
           /\ job' = [job EXCEPT ![t] = k]
           /\ k # Idle => k.event = j.event
           /\ k # Idle /\ j.pc # "evaluate" => k.fired = j.fired
           /\ k.pc = "audit" <=> InsertEvent(t)
           /\ k.pc = "device" <=> AppendAudit(t)
           /\ k.pc = "notify" <=> InsertAlert(t)
           /\ InsertAlert(t) => k.rule = j.rule
           /\ j.pc # "evaluate" /\ k.pc \in Early => j.pc \in Early
           /\ k.pc \in {"check", "fire"} => j.pc \in Early \/ k.rule >= j.rule
           /\ j.pc = "notify" /\ k.pc \in {"check", "fire"} => k.rule > j.rule
           /\ k.pc \in {"check", "fire"} => j.pc \in Early \cup {"check", "notify"}
           /\ k = Idle => UpsertRisk(t) \/ Host(t) \in failed' \/ Fired(t) = {}
<1> DEFINE j == job[t]  k == job'[t]
<1>1. /\ j \in Job /\ j # Idle /\ k \in {Idle} \cup Job
      /\ job' = [job EXCEPT ![t] = k]
      /\ k # Idle => k.event = j.event
  <2>1. PICK l : Moves(t, l)
    BY StepMoves
  <2>2. l = k
    BY <2>1 DEF Moves, Typed
  <2> QED
    BY <2>1, <2>2, StepMoves DEF Moves
<1>2. \A l : Moves(t, l) => k = l
  BY DEF Moves, Typed
<1>3. Idle.pc = "idle"
  BY DEF Idle
<1>4. CASE Evaluate(t) \/ RuleRaises(t)
  <2>1. k.pc \in {"evaluate", "insert"}
    BY <1>2, <1>4, EvaluateMoves DEF Turns
  <2>2. j.pc = "evaluate" /\ ~InsertEvent(t) /\ ~AppendAudit(t) /\ ~InsertAlert(t)
    BY <1>4 DEF Evaluate, RuleRaises, InsertEvent, AppendAudit, InsertAlert, At
  <2> QED
    BY <1>1, <1>3, <2>1, <2>2 DEF Early
<1>5. CASE \/ InsertEvent(t) \/ AppendAudit(t) \/ UpdateDeviceBaseline(t)
           \/ UpdateUserBaseline(t) \/ UpdateHostTimezone(t) \/ TimezoneRaises(t)
  <2>1. /\ k = Idle => Fired(t) = {}
        /\ k # Idle => /\ k.pc \in {"audit", "device", "user", "timezone", "check"}
                       /\ k.fired = j.fired
        /\ k.pc = "audit" <=> InsertEvent(t)
        /\ k.pc = "device" <=> AppendAudit(t)
    BY <1>2, <1>5, BodyMoves
  <2>2. j.pc \in {"insert", "audit", "device", "user", "timezone"} /\ ~InsertAlert(t)
    BY <1>5 DEF InsertEvent, AppendAudit, UpdateDeviceBaseline, UpdateUserBaseline,
                UpdateHostTimezone, TimezoneRaises, InsertAlert, At
  <2> QED
    BY <1>1, <1>3, <2>1, <2>2 DEF Early
<1>6. CASE CheckRecent(t)
  <2>1. /\ k # Idle /\ k.pc \in {"check", "fire", "score"}
        /\ k.fired = j.fired /\ (k.pc # "score" => k.rule >= j.rule)
    BY <1>2, <1>6, CheckMoves
  <2>2. j.pc = "check" /\ ~InsertEvent(t) /\ ~AppendAudit(t) /\ ~InsertAlert(t)
    BY <1>6 DEF CheckRecent, InsertEvent, AppendAudit, InsertAlert, At
  <2> QED
    BY <1>1, <1>3, <2>1, <2>2 DEF Early
<1>7. CASE InsertAlert(t)
  <2>1. k # Idle /\ k.pc = "notify" /\ k.rule = j.rule /\ k.fired = j.fired
    BY <1>2, <1>7, FireMoves
  <2>2. j.pc = "fire" /\ ~InsertEvent(t) /\ ~AppendAudit(t)
    BY <1>7 DEF InsertEvent, AppendAudit, InsertAlert, At
  <2> QED
    BY <1>1, <1>3, <1>7, <2>1, <2>2 DEF Early
<1>8. CASE Notify(t)
  <2>1. /\ k # Idle /\ k.pc \in {"check", "score"}
        /\ k.fired = j.fired /\ (k.pc = "check" => k.rule > j.rule)
    BY <1>2, <1>8, NotifyMoves
  <2>2. j.pc = "notify" /\ ~InsertEvent(t) /\ ~AppendAudit(t) /\ ~InsertAlert(t)
    BY <1>8 DEF Notify, InsertEvent, AppendAudit, InsertAlert, At
  <2>3. k.pc = "check" => k.rule >= j.rule
    <3> SUFFICES ASSUME k.pc = "check" PROVE k.rule >= j.rule
      OBVIOUS
    <3>1. k \in Job
      BY <1>1, <2>1
    <3>2. k.rule \in 1..8 /\ j.rule \in 1..8
      BY <1>1, <3>1 DEF Job
    <3> QED
      BY <2>1, <3>2
  <2> QED
    BY <1>1, <1>3, <2>1, <2>2, <2>3 DEF Early
<1>9. CASE UpsertRisk(t) \/ SlackRaises(t) \/ Raises(t)
  <2>1. k = Idle
    BY <1>2, <1>9, EndMoves
  <2>2. /\ j.pc # "evaluate" /\ ~InsertEvent(t) /\ ~AppendAudit(t) /\ ~InsertAlert(t)
        /\ UpsertRisk(t) \/ Host(t) \in failed'
    <3>1. UpsertRisk(t) \/ Host(t) \in failed'
      BY <1>9 DEF SlackRaises, Raises
    <3>2. j.pc # "evaluate"
      BY <1>9 DEF UpsertRisk, SlackRaises, Raises, At
    <3>3. ~InsertEvent(t) /\ ~AppendAudit(t) /\ ~InsertAlert(t)
      <4>1. ASSUME InsertEvent(t) \/ AppendAudit(t) PROVE FALSE
        <5>1. \E l : Moves(t, l) /\ l.pc \in {"audit", "device"}
          BY <4>1, BodyMoves
        <5> QED
          BY <5>1, <1>2, <1>3, <2>1
      <4>2. ASSUME InsertAlert(t) PROVE FALSE
        BY <4>2, <1>2, <2>1, FireMoves
      <4> QED
        BY <4>1, <4>2
    <3> QED
      BY <3>1, <3>2, <3>3
  <2> QED
    BY <1>1, <1>3, <2>1, <2>2 DEF Early
<1> QED
  BY <1>4, <1>5, <1>6, <1>7, <1>8, <1>9 DEF Step

(* The tables after a step: what it appends counts where it belongs.       *)
LEMMA RowsStep ==
    ASSUME Typed, NEW t \in Threads, Step(t), NEW R
    PROVE  /\ CountIn(events, R) \in Nat
           /\ InsertEvent(t) =>
                \E row \in EventRow :
                    /\ row.hostname = Host(t) /\ row.device_id = Device(t)
                    /\ CountIn(events', R) = CountIn(events, R) + (IF row \in R THEN 1 ELSE 0)
                    /\ Len(events') = Len(events) + 1
           /\ ~InsertEvent(t) => events' = events
<1>1. events \in Seq(EventRow)
  BY DEF Typed
<1>2. CountIn(events, R) \in Nat
  <2>1. IsFiniteSet(DOMAIN events)
    BY <1>1, LenProperties, FS_Interval
  <2> QED
    BY <2>1, CountFacts
<1>3. ASSUME InsertEvent(t)
      PROVE  \E row \in EventRow :
                    /\ row.hostname = Host(t) /\ row.device_id = Device(t)
                    /\ CountIn(events', R) = CountIn(events, R) + (IF row \in R THEN 1 ELSE 0)
                    /\ Len(events') = Len(events) + 1
  <2> DEFINE row == [hostname |-> Host(t), device_id |-> Device(t),
                   event_type |-> Ev(t).event_type, transfer_bytes |-> Ev(t).transfer_bytes,
                   received_at |-> now]
  <2>1. Host(t) \in Hosts /\ Device(t) \in Devices /\ job[t] \in Job
    BY <1>3, HasJob DEF InsertEvent, At
  <2>2. row \in EventRow /\ row.hostname = Host(t) /\ row.device_id = Device(t)
    BY <2>1 DEF EventRow, Typed, Job, Ev
  <2>3. events' = Append(events, row)
    BY <1>3 DEF InsertEvent
  <2> HIDE DEF row
  <2>4. /\ CountIn(events', R) = CountIn(events, R) + (IF row \in R THEN 1 ELSE 0)
        /\ Len(events') = Len(events) + 1
    BY <1>1, <2>2, <2>3, CountAppend, AppendProperties
  <2> QED
    BY <2>2, <2>4
<1> QED
  BY <1>2, <1>3, StepFrame

(* Only InsertAlert adds an alert, and only one.                           *)
LEMMA AlertsStep ==
    ASSUME Typed, NEW t \in Threads, Step(t), NEW R
    PROVE  /\ CountIn(alerts, R) \in Nat
           /\ InsertAlert(t) =>
                \E a \in Alert :
                    /\ Same(a, Host(t), Device(t), Rules[job[t].rule]) /\ a.created_at = now
                    /\ alerts' = Append(alerts, a)
                    /\ CountIn(alerts', R) = CountIn(alerts, R) + (IF a \in R THEN 1 ELSE 0)
           /\ ~InsertAlert(t) => alerts' = alerts
<1>1. alerts \in Seq(Alert)
  BY DEF Typed
<1>2. CountIn(alerts, R) \in Nat
  <2>1. IsFiniteSet(DOMAIN alerts)
    BY <1>1, LenProperties, FS_Interval
  <2> QED
    BY <2>1, CountFacts
<1>3. ASSUME InsertAlert(t)
      PROVE  \E a \in Alert :
                    /\ Same(a, Host(t), Device(t), Rules[job[t].rule]) /\ a.created_at = now
                    /\ alerts' = Append(alerts, a)
                    /\ CountIn(alerts', R) = CountIn(alerts, R) + (IF a \in R THEN 1 ELSE 0)
  <2> DEFINE a == [hostname |-> Host(t), device_id |-> Device(t),
             rule_name |-> Rules[job[t].rule], created_at |-> now, acknowledged |-> FALSE]
  <2>1. Host(t) \in Hosts /\ Device(t) \in Devices /\ job[t] \in Job
    BY <1>3, HasJob DEF InsertAlert, At
  <2>2. job[t].rule \in 1..8 /\ Rules[job[t].rule] \in Range(Rules)
    BY <2>1, RulesFacts DEF Job
  <2>3. a \in Alert /\ Same(a, Host(t), Device(t), Rules[job[t].rule]) /\ a.created_at = now
    BY <2>1, <2>2 DEF Alert, Typed, Same
  <2>4. alerts' = Append(alerts, a)
    BY <1>3 DEF InsertAlert
  <2> HIDE DEF a
  <2>5. CountIn(alerts', R) = CountIn(alerts, R) + (IF a \in R THEN 1 ELSE 0)
    BY <1>1, <2>3, <2>4, CountAppend
  <2> QED
    BY <2>3, <2>4, <2>5
<1> QED
  BY <1>2, <1>3, StepFrame

(* The threads at a place after a step.                                    *)
LEMMA ThreadsStep ==
    ASSUME Typed, Readied, NEW t \in Threads, Step(t), NEW R
    PROVE  /\ CountIn(job, R) \in Nat /\ CountIn(job', R) \in Nat
           /\ CountIn(job', R) = CountIn(job, R) - (IF job[t] \in R THEN 1 ELSE 0)
                                                 + (IF job'[t] \in R THEN 1 ELSE 0)
<1>1. /\ DOMAIN job = Threads /\ DOMAIN job' = Threads /\ IsFiniteSet(Threads)
      /\ job' = [job EXCEPT ![t] = job'[t]]
  BY PlaceFacts, StepTyped, IngestAssumption DEF Typed
<1>2. CountIn(job, R) \in Nat /\ CountIn(job', R) \in Nat
  BY <1>1, CountFacts
<1>3. ASSUME NEW k
      PROVE  CountIn([job EXCEPT ![t] = k], R)
                = CountIn(job, R) - (IF job[t] \in R THEN 1 ELSE 0) + (IF k \in R THEN 1 ELSE 0)
  <2>1. t \in DOMAIN job /\ IsFiniteSet(DOMAIN job)
    BY <1>1
  <2> QED
    BY <2>1, CountChange
<1> QED
  BY <1>1, <1>2, <1>3

(* The counters are what they count.                                       *)
Counters ==
    /\ audited \in [Hosts -> Nat] /\ seen \in [Hosts \X Devices -> Nat]
    /\ risk \in [Hosts -> Nat] /\ notices \in [Hosts -> Nat]
    /\ metrics \in [events : Nat, fires : [Range(Rules) -> Nat], alerts : [Range(Rules) -> Nat]]

One(condition) == IF condition THEN 1 ELSE 0

(* What a step adds to the counters of /metrics, and to the notices.       *)
LEMMA MetricsStep ==
    ASSUME Typed, Readied, Counters, NEW t \in Threads, Step(t)
    PROVE  LET j == job[t]  k == job'[t] IN
           /\ metrics' \in [events : Nat, fires : [Range(Rules) -> Nat],
                            alerts : [Range(Rules) -> Nat]]
           /\ notices' \in [Hosts -> Nat]
           /\ metrics'.events = metrics.events + One(InsertEvent(t))
           /\ \A r \in Range(Rules) :
                /\ metrics'.alerts[r] = metrics.alerts[r] + One(j.pc = "notify" /\ Rules[j.rule] = r)
                /\ metrics'.fires[r] = metrics.fires[r]
                                        + One(j.pc = "evaluate" /\ r \in k.fired \ j.fired)
           /\ \A h \in Hosts :
                notices'[h] = notices[h] + One(/\ j.pc = "notify" /\ Host(t) = h
                                               /\ SeverityPasses(Rules[j.rule]))
<1> DEFINE j == job[t]  k == job'[t]
           M == [events : Nat, fires : [Range(Rules) -> Nat], alerts : [Range(Rules) -> Nat]]
<1>1. metrics \in M /\ notices \in [Hosts -> Nat]
  BY DEF Counters
<1>2. j \in Job /\ j # Idle /\ j.rule \in 1..8 /\ Host(t) \in Hosts
  BY PlaceFacts, HasJob DEF Job, Idle, Places
<1>3. ~InsertEvent(t) \/ j.pc = "insert"
  BY DEF InsertEvent, At
<1>4. CASE Evaluate(t) \/ RuleRaises(t)
  <2>1. j.pc = "evaluate"
    BY <1>4 DEF Evaluate, RuleRaises, At
  <2>2. PICK new \in SUBSET {Rules[j.rule]} : k.fired = j.fired \cup new /\ CountFires(new)
    <3>1. PICK l : Moves(t, l) /\ Turns(t, l)
      BY <1>4, EvaluateMoves
    <3>2. l = k
      BY <3>1 DEF Moves, Typed
    <3> QED
      BY <3>1, <3>2 DEF Turns
  <2>3. \A r : r \in k.fired \ j.fired <=> r \in new
    <3>1. Rules[j.rule] \notin j.fired
      BY <1>2, <2>1 DEF Readied, Ready
    <3> QED
      BY <2>2, <3>1
  <2> DEFINE F == [r \in Range(Rules) |-> IF r \in new THEN metrics.fires[r] + 1 ELSE metrics.fires[r]]
  <2>4. metrics' = [metrics EXCEPT !.fires = F]
    BY <2>2 DEF CountFires
  <2>5. F \in [Range(Rules) -> Nat]
    BY <1>1
  <2>6. \A r \in Range(Rules) : F[r] = metrics.fires[r] + One(r \in k.fired \ j.fired)
    BY <1>1, <2>3 DEF One
  <2> HIDE DEF F
  <2>7. metrics' \in M /\ metrics'.fires = F /\ metrics'.events = metrics.events
        /\ metrics'.alerts = metrics.alerts
    BY <1>1, <2>4, <2>5
  <2>8. notices' = notices
    BY <1>4 DEF Evaluate, RuleRaises, history
  <2> QED
    BY <1>1, <1>3, <2>1, <2>6, <2>7, <2>8 DEF One
<1>5. CASE InsertEvent(t)
  <2>1. metrics' = [metrics EXCEPT !.events = @ + 1] /\ notices' = notices /\ j.pc = "insert"
    BY <1>5 DEF InsertEvent, history, At
  <2>2. metrics' \in M /\ metrics'.fires = metrics.fires /\ metrics'.alerts = metrics.alerts
        /\ metrics'.events = metrics.events + 1
    BY <1>1, <2>1
  <2> QED
    BY <1>1, <1>5, <2>1, <2>2 DEF One
<1>6. CASE Notify(t) \/ SlackRaises(t)
  <2> DEFINE rule == Rules[j.rule]
  <2>1. /\ j.pc = "notify"
        /\ metrics' = [metrics EXCEPT !.alerts[rule] = @ + 1]
        /\ notices' = IF SeverityPasses(rule) THEN [notices EXCEPT ![Host(t)] = @ + 1] ELSE notices
    BY <1>6 DEF Notify, SlackRaises, At, CountAlert
  <2> DEFINE A == [metrics.alerts EXCEPT ![rule] = @ + 1]
  <2>2. metrics' = [metrics EXCEPT !.alerts = A]
    BY <2>1
  <2>3. A \in [Range(Rules) -> Nat]
    <3>1. rule \in Range(Rules) /\ metrics.alerts \in [Range(Rules) -> Nat]
      BY <1>1, <1>2, RulesFacts
    <3> HIDE DEF rule
    <3> QED
      BY <3>1
  <2>4. \A r \in Range(Rules) : A[r] = metrics.alerts[r] + One(rule = r)
    BY <1>1 DEF One
  <2> HIDE DEF A
  <2>5. metrics' \in M /\ metrics'.alerts = A /\ metrics'.events = metrics.events
        /\ metrics'.fires = metrics.fires
    BY <1>1, <2>2, <2>3
  <2>6. /\ notices' \in [Hosts -> Nat]
        /\ \A h \in Hosts : notices'[h] = notices[h] + One(Host(t) = h /\ SeverityPasses(rule))
    BY <1>1, <1>2, <2>1 DEF One
  <2>7. ~InsertEvent(t) /\ j.pc # "evaluate"
    BY <1>3, <2>1
  <2>8. metrics'.events = metrics.events + One(InsertEvent(t))
    BY <1>1, <2>5, <2>7 DEF One
  <2>9. \A r \in Range(Rules) :
            metrics'.alerts[r] = metrics.alerts[r] + One(j.pc = "notify" /\ Rules[j.rule] = r)
    BY <2>1, <2>4, <2>5 DEF One
  <2>10. \A r \in Range(Rules) :
            metrics'.fires[r] = metrics.fires[r] + One(j.pc = "evaluate" /\ r \in k.fired \ j.fired)
    BY <1>1, <2>5, <2>7 DEF One
  <2>11. \A h \in Hosts :
            notices'[h] = notices[h] + One(/\ j.pc = "notify" /\ Host(t) = h
                                           /\ SeverityPasses(Rules[j.rule]))
    BY <2>1, <2>6 DEF One
  <2> QED
    BY <2>5, <2>6, <2>8, <2>9, <2>10, <2>11
<1>7. CASE \/ AppendAudit(t) \/ UpdateDeviceBaseline(t) \/ UpdateUserBaseline(t)
           \/ UpdateHostTimezone(t) \/ TimezoneRaises(t) \/ CheckRecent(t) \/ InsertAlert(t)
           \/ UpsertRisk(t) \/ Raises(t)
  <2>1. metrics' = metrics /\ notices' = notices
    BY <1>7 DEF AppendAudit, UpdateDeviceBaseline, UpdateUserBaseline, UpdateHostTimezone,
                TimezoneRaises, CheckRecent, InsertAlert, UpsertRisk, Raises, history
  <2>2. j.pc # "evaluate" /\ j.pc # "notify"
    BY <1>7 DEF AppendAudit, UpdateDeviceBaseline, UpdateUserBaseline, UpdateHostTimezone,
                TimezoneRaises, CheckRecent, InsertAlert, UpsertRisk, Raises, At
  <2>3. ~InsertEvent(t)
    <3> SUFFICES ASSUME InsertEvent(t) PROVE FALSE
      OBVIOUS
    <3>1. metrics' = [metrics EXCEPT !.events = @ + 1]
      BY DEF InsertEvent
    <3>2. metrics'.events = metrics.events + 1 /\ metrics.events \in Nat
      BY <1>1, <3>1
    <3> QED
      BY <2>1, <3>2
  <2> QED
    BY <1>1, <2>1, <2>2, <2>3 DEF One
<1> QED
  BY <1>4, <1>5, <1>6, <1>7 DEF Step

(* There are eight rules, and a weight is a natural number.                *)
LEMMA WeightFacts ==
    /\ IsFiniteSet(Range(Rules))
    /\ \A r : Weight(r) \in Nat
    /\ \A F \in SUBSET Range(Rules) : IsFiniteSet(F) /\ Delta(F) \in Nat
<1>1. IsFiniteSet(Range(Rules))
  <2> DEFINE place == [i \in 1..8 |-> Rules[i]]
  <2>1. place \in Surjection(1..8, Range(Rules))
    BY RulesFacts DEF Surjection, Range
  <2> HIDE DEF place
  <2>2. IsFiniteSet(1..8)
    <3>1. \A n \in Nat : IsFiniteSet(1..n)
      BY FS_Interval
    <3> QED
      BY <3>1
  <2> QED
    BY <2>1, <2>2, FS_Surjection, Zenon
<1>2. \A r : Weight(r) \in Nat
  BY DEF Weight
<1>3. ASSUME NEW F \in SUBSET Range(Rules) PROVE IsFiniteSet(F) /\ Delta(F) \in Nat
  <2>1. IsFiniteSet(F)
    BY <1>1, FS_Subset
  <2> DEFINE w == [r \in F |-> Weight(r)]
  <2>2. \A r \in F : w[r] \in Nat
    BY <1>2
  <2> HIDE DEF w
  <2>3. SumOver(w, F) \in Nat
    BY <2>1, <2>2, SumType
  <2> QED
    BY <2>1, <2>3 DEF Delta, w
<1> QED
  BY <1>1, <1>2, <1>3

(* What a step adds to the chains' lengths, the sightings and the scores.  *)
LEMMA TablesStep ==
    ASSUME Typed, Readied, Counters, NEW t \in Threads, Step(t)
    PROVE  LET j == job[t] IN
           /\ audited' \in [Hosts -> Nat] /\ seen' \in [Hosts \X Devices -> Nat]
           /\ risk' \in [Hosts -> Nat]
           /\ \A h \in Hosts : audited'[h] = audited[h] + One(AppendAudit(t) /\ Host(t) = h)
           /\ \A h \in Hosts, d \in Devices :
                seen'[<<h, d>>] = seen[<<h, d>>]
                        + One(UpdateDeviceBaseline(t) /\ Host(t) = h /\ Device(t) = d)
           /\ UpsertRisk(t) => /\ risk' = [risk EXCEPT ![Host(t)] = @ + Delta(Fired(t))]
                               /\ job'[t] = Idle
           /\ ~UpsertRisk(t) => risk' = risk
<1>1. /\ audited \in [Hosts -> Nat] /\ seen \in [Hosts \X Devices -> Nat]
      /\ risk \in [Hosts -> Nat]
  BY DEF Counters
<1>2. job[t] \in Job /\ Host(t) \in Hosts /\ Device(t) \in Devices
  BY PlaceFacts, HasJob DEF Job, Idle, Places
<1>3. CASE AppendAudit(t)
  <2>1. /\ audited' = [audited EXCEPT ![Host(t)] = @ + 1] /\ seen' = seen /\ risk' = risk
        /\ ~UpdateDeviceBaseline(t) /\ ~UpsertRisk(t)
    BY <1>3 DEF AppendAudit, UpdateDeviceBaseline, UpsertRisk, At
  <2> QED
    BY <1>1, <1>2, <1>3, <2>1 DEF One
<1>4. CASE UpdateDeviceBaseline(t)
  <2>1. /\ audited' = audited /\ risk' = risk /\ ~AppendAudit(t) /\ ~UpsertRisk(t)
        /\ seen' = [seen EXCEPT ![<<Host(t), Device(t)>>] = @ + 1]
    BY <1>4 DEF AppendAudit, UpdateDeviceBaseline, UpsertRisk, At
  <2>2. /\ seen' \in [Hosts \X Devices -> Nat]
        /\ \A h \in Hosts, d \in Devices :
                seen'[<<h, d>>] = seen[<<h, d>>] + One(Host(t) = h /\ Device(t) = d)
    BY <1>1, <1>2, <2>1 DEF One
  <2> QED
    BY <1>1, <1>4, <2>1, <2>2 DEF One
<1>5. CASE UpsertRisk(t)
  <2>1. /\ audited' = audited /\ seen' = seen /\ ~AppendAudit(t) /\ ~UpdateDeviceBaseline(t)
        /\ risk' = [risk EXCEPT ![Host(t)] = @ + Delta(Fired(t))]
    BY <1>5 DEF AppendAudit, UpdateDeviceBaseline, UpsertRisk, At, baselines
  <2>2. Delta(Fired(t)) \in Nat
    BY <1>2, WeightFacts DEF Job, Fired
  <2>3. risk' \in [Hosts -> Nat]
    BY <1>1, <1>2, <2>1, <2>2
  <2>4. job'[t] = Idle
    BY <1>5, EndMoves DEF Moves, Typed
  <2> QED
    BY <1>1, <1>5, <2>1, <2>3, <2>4 DEF One
<1>6. CASE ~AppendAudit(t) /\ ~UpdateDeviceBaseline(t) /\ ~UpsertRisk(t)
  <2>1. audited' = audited /\ seen' = seen /\ risk' = risk
    BY <1>6 DEF Step, Evaluate, RuleRaises, InsertEvent, UpdateUserBaseline,
                UpdateHostTimezone, TimezoneRaises, CheckRecent, InsertAlert, Notify,
                SlackRaises, Raises, baselines
  <2> QED
    BY <1>1, <1>6, <2>1 DEF One
<1> QED
  BY <1>3, <1>4, <1>5, <1>6

(* Every step leaves the counters with what the tables say.                *)
LEMMA NextCounters ==
    ASSUME Typed, Readied, Counters, [Next]_vars
    PROVE  Counters'
<1>1. ASSUME NEW t \in Threads, Step(t) PROVE Counters'
  BY <1>1, MetricsStep, TablesStep DEF Counters
<1>2. CASE ~\E t \in Threads : Step(t)
  <2>1. UNCHANGED <<audited, seen, risk, notices, metrics>>
    BY <1>2 DEF Next, Receive, Purge, Acknowledge, Tick, vars, baselines, history
  <2> QED
    BY <2>1 DEF Counters
<1> QED
  BY <1>1, <1>2
-----------------------------------------------------------------------------
(* What /metrics and the channels have told, while threads are under way.  *)
Tallied(r) ==
    /\ metrics.alerts[r] + CountIn(job, Telling(r)) = CountIn(alerts, AlertsOf(r))
    /\ metrics.alerts[r] + CountIn(job, Coming(r)) <= metrics.fires[r]
Notified(h) == notices[h] + CountIn(job, Told(h)) = CountIn(alerts, LoudAlerts(h))

Accounts ==
    /\ metrics.events = Len(events)
    /\ \A r \in Range(Rules) : Tallied(r)
    /\ \A h \in Hosts : Notified(h)

(* An alert that is stored is then counted, once, and its rule had fired.  *)
LEMMA StepTallied ==
    ASSUME Typed, Readied, Counters, NEW t \in Threads, Step(t), NEW r \in Range(Rules), Tallied(r)
    PROVE  Tallied(r)'
<1> DEFINE j == job[t]  k == job'[t]
<1>1. /\ j \in Job /\ j # Idle /\ k \in {Idle} \cup Job /\ j.rule \in 1..8
      /\ k # Idle /\ j.pc # "evaluate" => k.fired = j.fired
      /\ k.pc = "notify" <=> InsertAlert(t)
      /\ InsertAlert(t) => k.rule = j.rule /\ j.pc = "fire" /\ k # Idle
  BY PlaceFacts DEF Job, InsertAlert, At, Idle
<1>2. /\ metrics'.alerts[r] = metrics.alerts[r] + One(j.pc = "notify" /\ Rules[j.rule] = r)
      /\ metrics'.fires[r] = metrics.fires[r] + One(j.pc = "evaluate" /\ r \in k.fired \ j.fired)
      /\ metrics.alerts[r] \in Nat /\ metrics.fires[r] \in Nat
  BY MetricsStep DEF Counters
<1>3. /\ CountIn(job', Telling(r)) = CountIn(job, Telling(r))
                - (IF j \in Telling(r) THEN 1 ELSE 0) + (IF k \in Telling(r) THEN 1 ELSE 0)
      /\ CountIn(job, Telling(r)) \in Nat /\ CountIn(job', Telling(r)) \in Nat
      /\ CountIn(job', Coming(r)) = CountIn(job, Coming(r))
                - (IF j \in Coming(r) THEN 1 ELSE 0) + (IF k \in Coming(r) THEN 1 ELSE 0)
      /\ CountIn(job, Coming(r)) \in Nat /\ CountIn(job', Coming(r)) \in Nat
  BY ThreadsStep
<1>4. CountIn(alerts', AlertsOf(r))
        = CountIn(alerts, AlertsOf(r)) + One(InsertAlert(t) /\ Rules[j.rule] = r)
  <2>1. CASE InsertAlert(t)
    <3>1. PICK a \in Alert :
                /\ Same(a, Host(t), Device(t), Rules[job[t].rule])
                /\ CountIn(alerts', AlertsOf(r))
                     = CountIn(alerts, AlertsOf(r)) + (IF a \in AlertsOf(r) THEN 1 ELSE 0)
      BY <2>1, AlertsStep
    <3>2. a \in AlertsOf(r) <=> Rules[j.rule] = r
      BY <3>1 DEF AlertsOf, Same
    <3> QED
      BY <2>1, <3>1, <3>2 DEF One
  <2>2. CASE ~InsertAlert(t)
    BY <2>2, AlertsStep DEF One
  <2> QED
    BY <2>1, <2>2
<1>5. j \in Telling(r) <=> j.pc = "notify" /\ Rules[j.rule] = r
  BY <1>1 DEF Telling
<1>6. k \in Telling(r) <=> InsertAlert(t) /\ Rules[j.rule] = r
  BY <1>1 DEF Telling
<1>7. metrics'.alerts[r] + CountIn(job', Telling(r)) = CountIn(alerts', AlertsOf(r))
  <2>1. CountIn(alerts, AlertsOf(r)) \in Nat
    BY AlertsStep
  <2>2. metrics.alerts[r] + CountIn(job, Telling(r)) = CountIn(alerts, AlertsOf(r))
    BY DEF Tallied
  <2> QED
    BY <2>1, <2>2, <1>2, <1>3, <1>4, <1>5, <1>6 DEF One
<1>8. k \in Coming(r) => j \in Coming(r) \/ (j.pc = "evaluate" /\ r \in k.fired \ j.fired)
  <2> SUFFICES ASSUME k \in Coming(r), j.pc # "evaluate" \/ r \in j.fired
               PROVE  j \in Coming(r)
    BY DEF Coming
  <2>1. k \in Job /\ k # Idle /\ r \in k.fired /\ k.rule \in 1..8
    BY DEF Coming, Idle, Job, Places
  <2>2. r \in j.fired
    BY <1>1, <2>1
  <2>3. CASE j.pc \in Early
    BY <1>1, <2>2, <2>3 DEF Coming
  <2>4. CASE j.pc \notin Early
    <3>1. /\ k.pc \in {"check", "fire", "notify"} /\ j.pc \in {"check", "fire", "notify"}
          /\ k.rule >= j.rule
      <4>1. k.pc \in {"check", "fire", "notify"}
        BY <2>4, PlaceFacts DEF Coming, Early
      <4>2. CASE k.pc \in {"check", "fire"}
        BY <2>4, <4>2, PlaceFacts
      <4>3. CASE k.pc = "notify"
        BY <1>1, <4>3
      <4> QED
        BY <4>1, <4>2, <4>3
    <3>2. PICK i \in k.rule..8 : Rules[i] = r
      BY <3>1 DEF Coming, Early
    <3>3. i \in j.rule..8
      BY <1>1, <2>1, <3>1
    <3> QED
      BY <1>1, <2>2, <3>1, <3>2, <3>3 DEF Coming
  <2> QED
    BY <2>3, <2>4
<1>9. j.pc = "notify" /\ Rules[j.rule] = r => j \in Coming(r) /\ k \notin Coming(r)
  <2> SUFFICES ASSUME j.pc = "notify", Rules[j.rule] = r PROVE j \in Coming(r) /\ k \notin Coming(r)
    OBVIOUS
  <2>1. r \in j.fired /\ j.rule \in j.rule..8
    BY <1>1 DEF Readied, Ready
  <2>2. j \in Coming(r)
    BY <1>1, <2>1 DEF Coming
  <2>3. ASSUME k \in Coming(r) PROVE FALSE
    <3>1. k \in Job /\ k.rule \in 1..8
      BY <2>3 DEF Coming, Job
    <3>2. k.pc \in {"check", "fire"}
      BY <1>1, <2>3, PlaceFacts DEF Coming, Early, InsertAlert, At
    <3>3. k.rule > j.rule
      BY <3>2, PlaceFacts
    <3>4. PICK i \in k.rule..8 : Rules[i] = r
      BY <2>3, <3>2 DEF Coming, Early
    <3>5. i \in 1..8 /\ i # j.rule
      BY <1>1, <3>1, <3>3
    <3> QED
      BY <1>1, <3>4, <3>5, RulesFacts
  <2> QED
    BY <2>2, <2>3
<1>10. metrics'.alerts[r] + CountIn(job', Coming(r)) <= metrics'.fires[r]
  <2>1. metrics.alerts[r] + CountIn(job, Coming(r)) <= metrics.fires[r]
    BY DEF Tallied
  <2>2. j.pc = "evaluate" => ~(j.pc = "notify" /\ Rules[j.rule] = r)
    OBVIOUS
  <2> QED
    BY <2>1, <2>2, <1>2, <1>3, <1>8, <1>9 DEF One
<1> QED
  BY <1>7, <1>10 DEF Tallied

(* An alert of the configured severity is sent on after it is stored.      *)
LEMMA StepNotified ==
    ASSUME Typed, Readied, Counters, NEW t \in Threads, Step(t), NEW h \in Hosts, Notified(h)
    PROVE  Notified(h)'
<1> DEFINE j == job[t]  k == job'[t]
<1>1. /\ j \in Job /\ j # Idle /\ k \in {Idle} \cup Job
      /\ k.pc = "notify" <=> InsertAlert(t)
      /\ k # Idle => k.event = j.event
      /\ InsertAlert(t) => k.rule = j.rule
  BY PlaceFacts
<1>2. /\ notices'[h] = notices[h] + One(/\ j.pc = "notify" /\ Host(t) = h
                                        /\ SeverityPasses(Rules[j.rule]))
      /\ notices[h] \in Nat
  BY MetricsStep DEF Counters
<1>3. /\ CountIn(job', Told(h)) = CountIn(job, Told(h))
                - (IF j \in Told(h) THEN 1 ELSE 0) + (IF k \in Told(h) THEN 1 ELSE 0)
      /\ CountIn(job, Told(h)) \in Nat /\ CountIn(job', Told(h)) \in Nat
  BY ThreadsStep
<1>4. CountIn(alerts', LoudAlerts(h)) = CountIn(alerts, LoudAlerts(h))
            + One(InsertAlert(t) /\ Host(t) = h /\ SeverityPasses(Rules[j.rule]))
  <2>1. CASE InsertAlert(t)
    <3>1. PICK a \in Alert :
                /\ Same(a, Host(t), Device(t), Rules[job[t].rule])
                /\ CountIn(alerts', LoudAlerts(h))
                     = CountIn(alerts, LoudAlerts(h)) + (IF a \in LoudAlerts(h) THEN 1 ELSE 0)
      BY <2>1, AlertsStep
    <3>2. a \in LoudAlerts(h) <=> Host(t) = h /\ SeverityPasses(Rules[j.rule])
      BY <3>1 DEF LoudAlerts, Same
    <3> QED
      BY <2>1, <3>1, <3>2 DEF One
  <2>2. CASE ~InsertAlert(t)
    BY <2>2, AlertsStep DEF One
  <2> QED
    BY <2>1, <2>2
<1>5. j \in Told(h) <=> j.pc = "notify" /\ Host(t) = h /\ SeverityPasses(Rules[j.rule])
  BY <1>1 DEF Told, Host
<1>6. k \in Told(h) <=> InsertAlert(t) /\ Host(t) = h /\ SeverityPasses(Rules[j.rule])
  BY <1>1 DEF Told, Host, Idle
<1>7. CountIn(alerts, LoudAlerts(h)) \in Nat
  BY AlertsStep
<1> QED
  BY <1>2, <1>3, <1>4, <1>5, <1>6, <1>7 DEF Notified, One

-----------------------------------------------------------------------------
(* The rows of a host, their audit records and sightings of their devices, *)
(* and what the threads that are under way will add to the scores.         *)
Recorded(h) == audited[h] + CountIn(job, Auditing(h)) = CountIn(events, RowsOf(h))
Sighted(h, d) == seen[<<h, d>>] + CountIn(job, Sighting(h, d)) = CountIn(events, RowsOfDevice(h, d))

Debt(j) == IF j = Idle THEN 0 ELSE Delta(j.fired)
Debts == [t \in Threads |-> Debt(job[t])]
Earned == [r \in Range(Rules) |-> Weight(r) * metrics.fires[r]]
Scored == SumOver(risk, Hosts) + SumOver(Debts, Threads) = SumOver(Earned, Range(Rules))

Tables ==
    /\ \A h \in Hosts \ failed : Recorded(h) /\ \A d \in Devices : Sighted(h, d)
    /\ failed = {} => Scored

(* An event's calls come one after another, unless one of them raises.     *)
LEMMA CallsFollow ==
    ASSUME NEW t \in Threads, Step(t), Host(t) \notin failed'
    PROVE  /\ job[t].pc = "audit" <=> AppendAudit(t)
           /\ job[t].pc = "device" <=> UpdateDeviceBaseline(t)
<1>1. ~Raises(t) /\ ~SlackRaises(t) /\ ~RuleRaises(t)
  BY DEF Raises, SlackRaises, RuleRaises
<1> QED
  BY <1>1 DEF Step, Evaluate, InsertEvent, AppendAudit, UpdateDeviceBaseline, UpdateUserBaseline,
              UpdateHostTimezone, TimezoneRaises, CheckRecent, InsertAlert, Notify, UpsertRisk, At

(* A row is followed by its audit record and by its sighting.              *)
LEMMA StepRecorded ==
    ASSUME Typed, Readied, Counters, NEW t \in Threads, Step(t), NEW h \in Hosts, h \notin failed',
           Recorded(h)
    PROVE  Recorded(h)'
<1> DEFINE j == job[t]  k == job'[t]
<1>1. /\ j \in Job /\ j # Idle /\ k \in {Idle} \cup Job
      /\ k.pc = "audit" <=> InsertEvent(t)
      /\ k # Idle => k.event = j.event
  BY PlaceFacts
<1>2. /\ audited'[h] = audited[h] + One(AppendAudit(t) /\ Host(t) = h)
      /\ audited[h] \in Nat
  BY TablesStep DEF Counters
<1>3. /\ CountIn(job', Auditing(h)) = CountIn(job, Auditing(h))
                - (IF j \in Auditing(h) THEN 1 ELSE 0) + (IF k \in Auditing(h) THEN 1 ELSE 0)
      /\ CountIn(job, Auditing(h)) \in Nat
  BY ThreadsStep
<1>4. /\ CountIn(events', RowsOf(h)) = CountIn(events, RowsOf(h)) + One(InsertEvent(t) /\ Host(t) = h)
      /\ CountIn(events, RowsOf(h)) \in Nat
  <2>1. CASE InsertEvent(t)
    <3>1. PICK row \in EventRow :
                /\ row.hostname = Host(t)
                /\ CountIn(events', RowsOf(h))
                     = CountIn(events, RowsOf(h)) + (IF row \in RowsOf(h) THEN 1 ELSE 0)
      BY <2>1, RowsStep
    <3>2. row \in RowsOf(h) <=> Host(t) = h
      BY <3>1 DEF RowsOf
    <3> QED
      BY <2>1, <3>1, <3>2, RowsStep DEF One
  <2>2. CASE ~InsertEvent(t)
    BY <2>2, RowsStep DEF One
  <2> QED
    BY <2>1, <2>2
<1>5. j \in Auditing(h) <=> AppendAudit(t) /\ Host(t) = h
  <2>1. j \in Auditing(h) <=> j.pc = "audit" /\ Host(t) = h
    BY <1>1 DEF Auditing, Host
  <2> QED
    BY <2>1, CallsFollow
<1>6. k \in Auditing(h) <=> InsertEvent(t) /\ Host(t) = h
  BY <1>1 DEF Auditing, Host, Idle
<1> QED
  BY <1>2, <1>3, <1>4, <1>5, <1>6 DEF Recorded, One

(* A step of a job leaves a sighted device sighted.                        *)
LEMMA StepSighted ==
    ASSUME Typed, Readied, Counters, NEW t \in Threads, Step(t), NEW h \in Hosts, h \notin failed',
           NEW d \in Devices, Sighted(h, d)
    PROVE  Sighted(h, d)'
<1> DEFINE j == job[t]  k == job'[t]  here == Host(t) = h /\ Device(t) = d
<1>1. /\ j \in Job /\ j # Idle /\ k \in {Idle} \cup Job
      /\ k.pc = "audit" <=> InsertEvent(t)
      /\ k.pc = "device" <=> AppendAudit(t)
      /\ k # Idle => k.event = j.event
  BY PlaceFacts
<1>2. /\ seen'[<<h, d>>] = seen[<<h, d>>] + One(UpdateDeviceBaseline(t) /\ Host(t) = h /\ Device(t) = d)
      /\ seen[<<h, d>>] \in Nat
  BY TablesStep DEF Counters
<1>3. /\ CountIn(job', Sighting(h, d)) = CountIn(job, Sighting(h, d))
                - (IF j \in Sighting(h, d) THEN 1 ELSE 0) + (IF k \in Sighting(h, d) THEN 1 ELSE 0)
      /\ CountIn(job, Sighting(h, d)) \in Nat
  BY ThreadsStep
<1>4. /\ CountIn(events', RowsOfDevice(h, d))
            = CountIn(events, RowsOfDevice(h, d)) + One(InsertEvent(t) /\ here)
      /\ CountIn(events, RowsOfDevice(h, d)) \in Nat
  <2>1. CASE InsertEvent(t)
    <3>1. PICK row \in EventRow :
                /\ row.hostname = Host(t) /\ row.device_id = Device(t)
                /\ CountIn(events', RowsOfDevice(h, d)) = CountIn(events, RowsOfDevice(h, d))
                                            + (IF row \in RowsOfDevice(h, d) THEN 1 ELSE 0)
      BY <2>1, RowsStep
    <3>2. row \in RowsOfDevice(h, d) <=> here
      BY <3>1 DEF RowsOfDevice
    <3> QED
      BY <2>1, <3>1, <3>2, RowsStep DEF One
  <2>2. CASE ~InsertEvent(t)
    BY <2>2, RowsStep DEF One
  <2> QED
    BY <2>1, <2>2
<1>5. j \in Sighting(h, d) <=> here /\ (AppendAudit(t) \/ UpdateDeviceBaseline(t))
  <2>1. j \in Sighting(h, d) <=> here /\ j.pc \in {"audit", "device"}
    BY <1>1 DEF Sighting, Host, Device
  <2> QED
    BY <2>1, CallsFollow
<1>6. k \in Sighting(h, d) <=> here /\ (InsertEvent(t) \/ AppendAudit(t))
  BY <1>1 DEF Sighting, Host, Device, Idle
<1>7. /\ ~(InsertEvent(t) /\ AppendAudit(t)) /\ ~(AppendAudit(t) /\ UpdateDeviceBaseline(t))
      /\ ~(InsertEvent(t) /\ UpdateDeviceBaseline(t))
  BY DEF InsertEvent, AppendAudit, UpdateDeviceBaseline, At
<1> HIDE DEF here
<1>8. One(UpdateDeviceBaseline(t) /\ Host(t) = h /\ Device(t) = d) = One(UpdateDeviceBaseline(t) /\ here)
  BY DEF here, One
<1> QED
  BY <1>2, <1>3, <1>4, <1>5, <1>6, <1>7, <1>8 DEF Sighted, One

(* The sum of the debts, when the job of a thread changes.                 *)
LEMMA DebtsChange ==
    ASSUME Typed, NEW t \in Threads, NEW k \in {Idle} \cup Job, job' = [job EXCEPT ![t] = k]
    PROVE  /\ SumOver(Debts', Threads) = SumOver(Debts, Threads) - Debt(job[t]) + Debt(k)
           /\ SumOver(Debts, Threads) \in Nat /\ Debt(job[t]) \in Nat /\ Debt(k) \in Nat
<1> DEFINE E == [s \in Threads |-> Debt(job'[s])]
<1>1. IsFiniteSet(Threads) /\ Debts' = E
  BY IngestAssumption DEF Debts
<1>2. \A j \in {Idle} \cup Job : Debt(j) \in Nat
  BY WeightFacts DEF Debt, Job
<1>3. job'[t] = k /\ \A s \in Threads \ {t} : job'[s] = job[s]
  BY DEF Typed
<1>4. \A s \in Threads : Debts[s] \in Nat /\ Debts[s] = Debt(job[s])
  BY <1>2 DEF Typed, Debts
<1>5. E[t] = Debt(k) /\ \A s \in Threads \ {t} : E[s] = Debts[s]
  BY <1>3, <1>4
<1> HIDE DEF E
<1>6. SumOver(E, Threads) = SumOver(Debts, Threads) - Debts[t] + E[t]
  <2>1. E[t] \in Int /\ \A s \in Threads : Debts[s] \in Int
    BY <1>2, <1>4, <1>5
  <2> QED
    BY <1>1, <1>5, <2>1, SumChange
<1>7. SumOver(Debts, Threads) \in Nat
  BY <1>1, <1>4, SumType
<1>8. Debt(job[t]) \in Nat /\ Debt(k) \in Nat
  BY <1>2, <1>4
<1> QED
  BY <1>1, <1>4, <1>5, <1>6, <1>7, <1>8

(* What fires is first owed by the thread and then in its host's score.    *)
LEMMA StepScored ==
    ASSUME Typed, Readied, Counters, NEW t \in Threads, Step(t), failed' = {}, Scored
    PROVE  Scored'
<1> DEFINE j == job[t]  k == job'[t]
<1>1. /\ j \in Job /\ j # Idle /\ k \in {Idle} \cup Job
      /\ job' = [job EXCEPT ![t] = k]
      /\ k # Idle /\ j.pc # "evaluate" => k.fired = j.fired
      /\ k = Idle => UpsertRisk(t) \/ Fired(t) = {}
  BY PlaceFacts
<1>2. /\ SumOver(Debts', Threads) = SumOver(Debts, Threads) - Debt(j) + Debt(k)
      /\ SumOver(Debts, Threads) \in Nat /\ Debt(j) \in Nat /\ Debt(k) \in Nat
  BY <1>1, DebtsChange
<1>3. Debt(j) = Delta(j.fired) /\ Delta({}) = 0
  <2>1. Delta({}) = 0
    BY SumEmpty DEF Delta
  <2> QED
    BY <1>1, <2>1 DEF Debt
<1>4. /\ IsFiniteSet(Hosts) /\ risk \in [Hosts -> Nat]
      /\ SumOver(risk, Hosts) \in Nat
  <2>1. IsFiniteSet(Hosts) /\ risk \in [Hosts -> Nat] /\ \A h \in Hosts : risk[h] \in Nat
    BY HostsAssumption DEF Counters
  <2> QED
    BY <2>1, SumType
<1>5. /\ IsFiniteSet(Range(Rules))
      /\ \A r \in Range(Rules) : Earned[r] \in Nat
      /\ SumOver(Earned, Range(Rules)) \in Nat
  <2>1. \A r \in Range(Rules) : Weight(r) \in Nat /\ metrics.fires[r] \in Nat
    BY WeightFacts DEF Counters
  <2>2. \A a, b \in Nat : a * b \in Nat
    OBVIOUS
  <2>3. \A r \in Range(Rules) : Earned[r] \in Nat
    BY <2>1, <2>2 DEF Earned
  <2> QED
    BY <2>3, WeightFacts, SumType
<1>6. CASE j.pc = "evaluate"
  <2>1. Evaluate(t) /\ ~UpsertRisk(t)
    BY <1>6 DEF Step, Evaluate, RuleRaises, InsertEvent, AppendAudit, UpdateDeviceBaseline,
                UpdateUserBaseline, UpdateHostTimezone, TimezoneRaises, CheckRecent, InsertAlert,
                Notify, SlackRaises, UpsertRisk, Raises, At
  <2>2. PICK new \in SUBSET {Rules[j.rule]} : k.fired = j.fired \cup new /\ k # Idle
    <3>1. PICK l : Moves(t, l) /\ Turns(t, l)
      BY <2>1, EvaluateMoves
    <3>2. l = k
      BY <3>1 DEF Moves, Typed
    <3> QED
      BY <3>1, <3>2 DEF Turns, Idle
  <2>3. risk' = risk
    BY <2>1, TablesStep
  <2>4. j.rule \in 1..8 /\ Rules[j.rule] \notin j.fired /\ j.fired \in SUBSET Range(Rules)
    BY <1>1, <1>6 DEF Readied, Ready, Job
  <2>5. \A r \in Range(Rules) : metrics'.fires[r] = metrics.fires[r] + One(r \in new)
    <3>1. \A r : r \in k.fired \ j.fired <=> r \in new
      BY <2>2, <2>4
    <3>2. \A r \in Range(Rules) :
            metrics'.fires[r] = metrics.fires[r] + One(j.pc = "evaluate" /\ r \in k.fired \ j.fired)
      BY MetricsStep
    <3> QED
      BY <1>6, <3>1, <3>2 DEF One
  <2>6. CASE new = {}
    <3>1. \A r \in Range(Rules) : metrics'.fires[r] = metrics.fires[r]
      BY <2>5, <2>6 DEF One, Counters
    <3>2. Earned' = Earned
      BY <3>1 DEF Earned
    <3>3. Debt(k) = Debt(j)
      BY <1>3, <2>2, <2>6 DEF Debt
    <3> QED
      BY <1>2, <2>3, <3>2, <3>3 DEF Scored
  <2>7. CASE new = {Rules[j.rule]}
    <3> DEFINE r == Rules[j.rule]  w == [x \in j.fired \cup {r} |-> Weight(x)]
               G == [x \in Range(Rules) |-> Weight(x) * metrics'.fires[x]]
    <3>1. r \in Range(Rules) /\ r \notin j.fired /\ IsFiniteSet(j.fired) /\ Weight(r) \in Nat
      BY <2>4, RulesFacts, WeightFacts
    <3>2. Delta(j.fired \cup {r}) = Delta(j.fired) + Weight(r)
      <4>1. \A x \in j.fired \cup {r} : w[x] = Weight(x) /\ w[x] \in Int
        BY WeightFacts
      <4> DEFINE v == [x \in j.fired |-> Weight(x)]
      <4>2. \A x \in j.fired : v[x] = w[x]
        BY <4>1
      <4> HIDE DEF w, v
      <4>3. SumOver(w, j.fired \cup {r}) = SumOver(w, j.fired) + w[r]
        BY <3>1, <4>1, SumAdd
      <4>4. SumOver(v, j.fired) = SumOver(w, j.fired)
        BY <3>1, <4>2, SumSame
      <4> QED
        BY <4>1, <4>3, <4>4 DEF Delta, w, v
    <3>3. Debt(k) = Debt(j) + Weight(r)
      BY <1>3, <2>2, <2>7, <3>2 DEF Debt
    <3>4. Earned' = G
      BY DEF Earned
    <3>5. G[r] = Earned[r] + Weight(r)
      <4>1. metrics'.fires[r] = metrics.fires[r] + 1 /\ metrics.fires[r] \in Nat
        BY <2>5, <2>7, <3>1 DEF One, Counters
      <4>2. \A a, b \in Nat : a * (b + 1) = a * b + a
        OBVIOUS
      <4>3. G[r] = Weight(r) * metrics'.fires[r] /\ Earned[r] = Weight(r) * metrics.fires[r]
        BY <3>1 DEF Earned
      <4> QED
        BY <3>1, <4>1, <4>2, <4>3
    <3>6. \A x \in Range(Rules) \ {r} : G[x] = Earned[x]
      <4>1. \A x \in Range(Rules) \ {r} : metrics'.fires[x] = metrics.fires[x]
        BY <2>5, <2>7 DEF One, Counters
      <4> QED
        BY <4>1 DEF Earned
    <3> HIDE DEF G, r, w
    <3>7. SumOver(G, Range(Rules)) = SumOver(Earned, Range(Rules)) - Earned[r] + G[r]
      <4>1. G[r] \in Int /\ \A x \in Range(Rules) : Earned[x] \in Int
        BY <1>5, <3>1, <3>5
      <4> QED
        BY <1>5, <3>1, <3>6, <4>1, SumChange
    <3>8. Earned[r] \in Nat
      BY <1>5, <3>1
    <3> QED
      BY <1>2, <1>4, <1>5, <2>3, <3>1, <3>3, <3>4, <3>5, <3>7, <3>8 DEF Scored
  <2> QED
    BY <2>6, <2>7
<1>7. CASE j.pc # "evaluate"
  <2>1. Earned' = Earned
    <3>1. \A r \in Range(Rules) : metrics'.fires[r] = metrics.fires[r]
      BY <1>7, MetricsStep DEF One, Counters
    <3> QED
      BY <3>1 DEF Earned
  <2>2. CASE UpsertRisk(t)
    <3>1. risk' = [risk EXCEPT ![Host(t)] = @ + Delta(Fired(t))] /\ k = Idle
      BY <2>2, TablesStep
    <3>2. Host(t) \in Hosts /\ Delta(Fired(t)) \in Nat
      BY <1>1, HasJob, WeightFacts DEF Fired, Job, Idle, Places
    <3>3. Debt(k) = 0 /\ Debt(j) = Delta(Fired(t))
      BY <1>3, <3>1 DEF Debt, Fired
    <3> DEFINE g == [risk EXCEPT ![Host(t)] = @ + Delta(Fired(t))]
    <3>4. /\ g[Host(t)] = risk[Host(t)] + Delta(Fired(t))
          /\ \A h \in Hosts \ {Host(t)} : g[h] = risk[h]
          /\ risk[Host(t)] \in Nat
      BY <1>4, <3>2
    <3> HIDE DEF g
    <3>5. SumOver(g, Hosts) = SumOver(risk, Hosts) - risk[Host(t)] + g[Host(t)]
      <4>1. g[Host(t)] \in Int /\ \A h \in Hosts : risk[h] \in Int
        BY <1>4, <3>2, <3>4
      <4> QED
        BY <1>4, <3>2, <3>4, <4>1, SumChange
    <3>6. SumOver(risk', Hosts) = SumOver(risk, Hosts) + Debt(j)
      BY <1>4, <3>1, <3>2, <3>3, <3>4, <3>5 DEF g
    <3> QED
      BY <1>2, <1>4, <2>1, <3>3, <3>6 DEF Scored
  <2>3. CASE ~UpsertRisk(t)
    <3>1. risk' = risk
      BY <2>3, TablesStep
    <3>2. Debt(k) = Debt(j)
      <4>1. CASE k = Idle
        BY <1>1, <1>3, <2>3, <4>1 DEF Debt, Fired
      <4>2. CASE k # Idle
        BY <1>1, <1>3, <1>7, <4>2 DEF Debt
      <4> QED
        BY <4>1, <4>2
    <3> QED
      BY <1>2, <2>1, <3>1, <3>2 DEF Scored
  <2> QED
    BY <2>2, <2>3
<1> QED
  BY <1>6, <1>7

-----------------------------------------------------------------------------
(* Before a purge the counters and the tables keep in step.                *)
AccountsInv ==
    /\ Typed /\ Readied /\ Counters
    /\ ~purged => Accounts /\ Tables

(* A thread that takes up an event has nothing fired, and is at no call.   *)
LEMMA ReceiveAccounts ==
    ASSUME Typed, Counters, NEW t \in Threads, NEW e \in Event, Receive(t, e), Accounts, Tables
    PROVE  Accounts' /\ Tables'
<1> DEFINE k == [pc |-> "evaluate", event |-> e, rule |-> 1, fired |-> {}]
<1>1. /\ job' = [job EXCEPT ![t] = k] /\ job[t].pc = "idle"
      /\ UNCHANGED <<events, alerts, audited, seen, risk, metrics, failed, notices>>
  BY DEF Receive, Become, At, baselines
<1>2. k \in Job /\ k.fired = {} /\ k.pc = "evaluate" /\ k # Idle /\ job[t] = Idle
  BY <1>1 DEF Job, Places, Idle, Typed
<1> HIDE DEF k
<1>3. ASSUME NEW R, job[t] \notin R, k \notin R PROVE CountIn(job', R) = CountIn(job, R)
  <2>1. IsFiniteSet(DOMAIN job) /\ t \in DOMAIN job /\ CountIn(job, R) \in Nat
    BY IngestAssumption, CountFacts DEF Typed
  <2>2. CountIn([job EXCEPT ![t] = k], R) = CountIn(job, R)
    BY <1>3, <2>1, CountChange
  <2> QED
    BY <1>1, <2>2
<1>4. ASSUME NEW r, NEW h, NEW d
      PROVE  /\ CountIn(job', Telling(r)) = CountIn(job, Telling(r))
             /\ CountIn(job', Coming(r)) = CountIn(job, Coming(r))
             /\ CountIn(job', Told(h)) = CountIn(job, Told(h))
             /\ CountIn(job', Auditing(h)) = CountIn(job, Auditing(h))
             /\ CountIn(job', Sighting(h, d)) = CountIn(job, Sighting(h, d))
  <2>1. \A j \in {job[t], k} : /\ j \notin Telling(r) /\ j \notin Coming(r) /\ j \notin Told(h)
                               /\ j \notin Auditing(h) /\ j \notin Sighting(h, d)
    BY <1>1, <1>2 DEF Telling, Coming, Told, Auditing, Sighting, Early
  <2> QED
    BY <2>1, <1>3
<1>5. SumOver(Debts', Threads) = SumOver(Debts, Threads)
  <2>1. Debt(k) = 0 /\ Debt(job[t]) = 0
    BY <1>2, SumEmpty DEF Debt, Delta
  <2>2. /\ SumOver(Debts', Threads) = SumOver(Debts, Threads) - Debt(job[t]) + Debt(k)
        /\ SumOver(Debts, Threads) \in Nat
    BY <1>1, <1>2, DebtsChange
  <2> QED
    BY <2>1, <2>2
<1>6. Earned' = Earned
  BY <1>1 DEF Earned
<1>7. Accounts'
  BY <1>1, <1>4 DEF Accounts, Tallied, Notified
<1>8. Tables'
  <2>1. Scored => Scored'
    BY <1>1, <1>5, <1>6 DEF Scored
  <2>2. ASSUME NEW h PROVE Recorded(h) => Recorded(h)'
    BY <1>1, <1>4 DEF Recorded
  <2>3. ASSUME NEW h, NEW d PROVE Sighted(h, d) => Sighted(h, d)'
    BY <1>1, <1>4 DEF Sighted
  <2> QED
    BY <2>1, <2>2, <2>3, <1>1 DEF Tables
<1> QED
  BY <1>7, <1>8

(* The clock changes nothing, an analyst nothing that is counted.          *)
LEMMA OthersAccounts ==
    ASSUME Typed, Counters, Tick \/ (\E i \in DOMAIN alerts : Acknowledge(i)) \/ UNCHANGED vars,
           Accounts, Tables
    PROVE  Accounts' /\ Tables'
<1>1. UNCHANGED <<events, audited, seen, risk, metrics, job, failed, notices>>
  BY DEF Tick, Acknowledge, vars, baselines, history
<1>2. ASSUME NEW r, NEW h
      PROVE  /\ CountIn(alerts', AlertsOf(r)) = CountIn(alerts, AlertsOf(r))
             /\ CountIn(alerts', LoudAlerts(h)) = CountIn(alerts, LoudAlerts(h))
  <2>1. CASE alerts' = alerts
    BY <2>1
  <2>2. CASE \E i \in DOMAIN alerts : Acknowledge(i)
    <3>1. PICK i \in DOMAIN alerts : Acknowledge(i)
      BY <2>2
    <3>2. /\ alerts' \in Seq(Alert) /\ DOMAIN alerts' = DOMAIN alerts
          /\ \A n \in DOMAIN alerts :
                /\ alerts'[n].hostname = alerts[n].hostname
                /\ alerts'[n].rule_name = alerts[n].rule_name
      BY <3>1, AlertMarked
    <3>3. /\ \A n \in DOMAIN alerts : alerts[n] \in Alert /\ alerts'[n] \in Alert
      BY <3>2, ElementOfSeq, LenProperties DEF Typed
    <3>4. \A n : n \in {x \in DOMAIN alerts' : alerts'[x] \in AlertsOf(r)}
                    <=> n \in {x \in DOMAIN alerts : alerts[x] \in AlertsOf(r)}
      BY <3>2, <3>3 DEF AlertsOf
    <3>5. \A n : n \in {x \in DOMAIN alerts' : alerts'[x] \in LoudAlerts(h)}
                    <=> n \in {x \in DOMAIN alerts : alerts[x] \in LoudAlerts(h)}
      BY <3>2, <3>3 DEF LoudAlerts
    <3>6. {x \in DOMAIN alerts' : alerts'[x] \in AlertsOf(r)}
            = {x \in DOMAIN alerts : alerts[x] \in AlertsOf(r)}
      BY <3>4, Zenon
    <3>7. {x \in DOMAIN alerts' : alerts'[x] \in LoudAlerts(h)}
            = {x \in DOMAIN alerts : alerts[x] \in LoudAlerts(h)}
      BY <3>5, Zenon
    <3> QED
      BY <3>6, <3>7 DEF CountIn
  <2> QED
    BY <2>1, <2>2 DEF Tick, vars
<1>3. Debts' = Debts /\ Earned' = Earned
  BY <1>1 DEF Debts, Earned
<1>4. Accounts'
  BY <1>1, <1>2 DEF Accounts, Tallied, Notified
<1>5. Tables'
  BY <1>1, <1>3 DEF Tables, Recorded, Sighted, Scored
<1> QED
  BY <1>4, <1>5

(* Nothing is stored, nothing counted and nobody under way.                *)
LEMMA InitAccounts == Init => AccountsInv
<1> SUFFICES ASSUME Init PROVE AccountsInv
  OBVIOUS
<1>1. /\ events = <<>> /\ alerts = <<>> /\ job = [t \in Threads |-> Idle] /\ failed = {}
      /\ audited = [h \in Hosts |-> 0] /\ seen = [p \in Hosts \X Devices |-> 0]
      /\ risk = [h \in Hosts |-> 0] /\ notices = [h \in Hosts |-> 0]
      /\ metrics = [events |-> 0, fires |-> NoneYet, alerts |-> NoneYet]
      /\ DOMAIN <<>> = {} /\ Len(<<>>) = 0
  BY EmptySeq, LenProperties DEF Init
<1>2. Counters
  BY <1>1 DEF Counters, NoneYet
<1>3. \A R : CountIn(events, R) = 0 /\ CountIn(alerts, R) = 0
  <2>1. \A R : {x \in DOMAIN <<>> : <<>>[x] \in R} = {}
    BY <1>1
  <2> QED
    BY <1>1, <2>1, FS_EmptySet DEF CountIn
<1>4. Idle \notin Job
  BY DEF Idle, Job, Places
<1>5. ASSUME NEW R \in SUBSET Job PROVE CountIn(job, R) = 0
  <2>1. IsFiniteSet(DOMAIN job) /\ \A x \in DOMAIN job : job[x] \notin R
    BY <1>1, <1>4, IngestAssumption
  <2> QED
    BY <2>1, CountFacts
<1>6. Accounts
  <2>1. \A r : Telling(r) \in SUBSET Job /\ Coming(r) \in SUBSET Job
    BY DEF Telling, Coming
  <2>2. \A h : Told(h) \in SUBSET Job
    BY DEF Told
  <2>3. \A r \in Range(Rules) : metrics.alerts[r] = 0 /\ metrics.fires[r] = 0
    BY <1>1 DEF NoneYet
  <2> QED
    BY <1>1, <1>3, <1>5, <2>1, <2>2, <2>3 DEF Accounts, Tallied, Notified
<1>7. Tables
  <2>1. /\ \A h : Auditing(h) \in SUBSET Job
        /\ \A h, d : Sighting(h, d) \in SUBSET Job
    BY DEF Auditing, Sighting
  <2>2. ASSUME NEW S, IsFiniteSet(S), NEW f, \A x \in S : f[x] = 0 PROVE SumOver(f, S) = 0
    BY <2>2, SumZero
  <2>3. \A h \in Hosts : risk[h] = 0
    BY <1>1
  <2>4. \A t \in Threads : Debts[t] = 0
    BY <1>1 DEF Debts, Debt
  <2>5. \A r \in Range(Rules) : Earned[r] = 0
    <3>1. \A r \in Range(Rules) : metrics.fires[r] = 0 /\ Weight(r) \in Nat
      BY <1>1, WeightFacts DEF NoneYet
    <3>2. \A a \in Nat : a * 0 = 0
      OBVIOUS
    <3> QED
      BY <3>1, <3>2 DEF Earned
  <2>6. Scored
    BY <2>2, <2>3, <2>4, <2>5, IngestAssumption, HostsAssumption, WeightFacts DEF Scored
  <2>7. ASSUME NEW h \in Hosts PROVE Recorded(h)
    BY <1>1, <1>3, <1>5, <2>1 DEF Recorded
  <2>8. ASSUME NEW h \in Hosts, NEW d \in Devices PROVE Sighted(h, d)
    BY <1>1, <1>3, <1>5, <2>1 DEF Sighted
  <2> QED
    BY <2>6, <2>7, <2>8 DEF Tables
<1> QED
  BY <1>2, <1>6, <1>7, InitTyped DEF AccountsInv

(* The invariant of the accounts is inductive.                             *)
LEMMA AccountsStep ==
    ASSUME AccountsInv, [Next]_vars
    PROVE  AccountsInv'
<1>1. Typed /\ Readied /\ Counters
  BY DEF AccountsInv
<1>2. Typed' /\ Readied' /\ Counters'
  BY <1>1, NextTyped, NextCounters
<1> SUFFICES ASSUME ~purged' PROVE Accounts' /\ Tables'
  BY <1>2 DEF AccountsInv
<1>3. ~purged
  BY StepFrame DEF Next, Receive, Purge, Acknowledge, Tick, vars, history
<1>4. Accounts /\ Tables
  BY <1>3 DEF AccountsInv
<1>5. ASSUME NEW t \in Threads, Step(t) PROVE Accounts' /\ Tables'
  <2>1. metrics'.events = Len(events')
    <3>1. metrics'.events = metrics.events + One(InsertEvent(t)) /\ metrics.events \in Nat
      BY <1>1, <1>5, MetricsStep DEF Counters
    <3>2. Len(events') = Len(events) + One(InsertEvent(t))
      BY <1>1, <1>4, <1>5, <3>1, RowsStep DEF One, Accounts
    <3> QED
      BY <1>4, <3>1, <3>2 DEF Accounts
  <2>2. Accounts'
    BY <1>1, <1>4, <1>5, <2>1, StepTallied, StepNotified DEF Accounts
  <2>3. failed \subseteq failed'
    BY <1>5, StepFrame
  <2>4. ASSUME NEW h \in Hosts, h \notin failed'
        PROVE  Recorded(h)' /\ \A d \in Devices : Sighted(h, d)'
    <3>1. Recorded(h) /\ \A d \in Devices : Sighted(h, d)
      BY <1>4, <2>3, <2>4 DEF Tables
    <3> QED
      BY <1>1, <1>5, <2>4, <3>1, StepRecorded, StepSighted
  <2>5. failed' = {} => Scored'
    BY <1>1, <1>4, <1>5, <2>3, StepScored DEF Tables
  <2>6. Tables'
    BY <2>4, <2>5 DEF Tables
  <2> QED
    BY <2>2, <2>6
<1>6. ASSUME NEW t \in Threads, NEW e \in Event, Receive(t, e) PROVE Accounts' /\ Tables'
  BY <1>1, <1>4, <1>6, ReceiveAccounts
<1>7. CASE Tick \/ (\E i \in DOMAIN alerts : Acknowledge(i)) \/ UNCHANGED vars
  BY <1>1, <1>4, <1>7, OthersAccounts
<1>8. ASSUME NEW cutoff \in 1..MaxTime, Purge(cutoff) PROVE FALSE
  BY <1>8 DEF Purge
<1> QED
  BY <1>5, <1>6, <1>7, <1>8 DEF Next

(* The inductive invariant of the counters, the channels and the tables.   *)
THEOREM AccountsKept == Spec => []AccountsInv
<1>1. AccountsInv /\ [Next]_vars => AccountsInv'
  BY AccountsStep
<1> QED
  BY <1>1, InitAccounts, PTL DEF Spec

(* Nobody is at any call when all threads are idle.                        *)
LEMMA NobodyAtRest ==
    ASSUME AtRest, Typed, NEW R \in SUBSET Job
    PROVE  CountIn(job, R) = 0
<1>1. \A t \in Threads : job[t] \notin R
  BY DEF AtRest, Idle, Job, Places
<1> QED
  BY <1>1, IngestAssumption, CountFacts DEF Typed

(* At rest, whatever has raised, /metrics tells what is in the tables and  *)
(* the channels were tried once for each alert of the severity that is     *)
(* configured (src/server/metrics.py, src/server/alert_manager.py).        *)
THEOREM MetricsTellTheTables == Spec => []MetricsAgree
<1>1. AccountsInv => MetricsAgree
  <2> SUFFICES ASSUME AccountsInv, AtRest, ~purged
               PROVE  /\ metrics.events = Len(events)
                      /\ \A r \in Range(Rules) :
                         /\ metrics.alerts[r]
                                = Cardinality({i \in DOMAIN alerts : alerts[i].rule_name = r})
                         /\ metrics.alerts[r] <= metrics.fires[r]
                      /\ \A h \in Hosts :
                            notices[h] = Cardinality({i \in DOMAIN alerts :
                                alerts[i].hostname = h /\ SeverityPasses(alerts[i].rule_name)})
    BY DEF MetricsAgree
  <2>1. Typed /\ Counters /\ Accounts
    BY DEF AccountsInv
  <2>2. \A i \in DOMAIN alerts : alerts[i] \in Alert
    BY <2>1, ElementOfSeq, LenProperties DEF Typed
  <2>3. ASSUME NEW r \in Range(Rules)
        PROVE  /\ metrics.alerts[r]
                      = Cardinality({i \in DOMAIN alerts : alerts[i].rule_name = r})
               /\ metrics.alerts[r] <= metrics.fires[r]
    <3>1. Tallied(r) /\ metrics.alerts[r] \in Nat
      BY <2>1 DEF Accounts, Counters
    <3>2. CountIn(job, Telling(r)) = 0 /\ CountIn(job, Coming(r)) = 0
      <4>1. Telling(r) \in SUBSET Job /\ Coming(r) \in SUBSET Job
        BY DEF Telling, Coming
      <4> QED
        BY <4>1, <2>1, NobodyAtRest
    <3>3. {i \in DOMAIN alerts : alerts[i] \in AlertsOf(r)}
            = {i \in DOMAIN alerts : alerts[i].rule_name = r}
      BY <2>2 DEF AlertsOf
    <3>4. CountIn(alerts, AlertsOf(r)) = Cardinality({i \in DOMAIN alerts : alerts[i].rule_name = r})
      BY <3>3 DEF CountIn
    <3>5. metrics.alerts[r] = CountIn(alerts, AlertsOf(r)) /\ metrics.alerts[r] <= metrics.fires[r]
      BY <3>1, <3>2 DEF Tallied
    <3> QED
      BY <3>4, <3>5
  <2>4. ASSUME NEW h \in Hosts
        PROVE  notices[h] = Cardinality({i \in DOMAIN alerts :
                                alerts[i].hostname = h /\ SeverityPasses(alerts[i].rule_name)})
    <3>1. Notified(h) /\ notices[h] \in Nat
      BY <2>1 DEF Accounts, Counters
    <3>2. CountIn(job, Told(h)) = 0
      <4>1. Told(h) \in SUBSET Job
        BY DEF Told
      <4> QED
        BY <4>1, <2>1, NobodyAtRest
    <3>3. {i \in DOMAIN alerts : alerts[i] \in LoudAlerts(h)}
            = {i \in DOMAIN alerts : alerts[i].hostname = h /\ SeverityPasses(alerts[i].rule_name)}
      BY <2>2 DEF LoudAlerts
    <3>4. notices[h] = CountIn(alerts, LoudAlerts(h))
      BY <3>1, <3>2 DEF Notified
    <3> QED
      BY <3>3, <3>4 DEF CountIn
  <2> QED
    BY <2>1, <2>3, <2>4 DEF Accounts
<1> QED
  BY <1>1, AccountsKept, PTL

(* At rest, and without exceptions, each event is one row, one audit       *)
(* record and one sighting, and the scores add up to the weights of all    *)
(* that has fired: concurrent requests lose none of each other's additions *)
(* (src/server/routers/events.py, src/server/scoring/risk_scoring.py).     *)
THEOREM NothingIsLost == Spec => []TablesAgree
<1>1. AccountsInv => TablesAgree
  <2> SUFFICES ASSUME AccountsInv, ~purged, AtRest
               PROVE  /\ \A h \in Hosts \ failed :
                            /\ audited[h]
                                = Cardinality({i \in DOMAIN events : events[i].hostname = h})
                            /\ \A d \in Devices :
                                seen[<<h, d>>] = Cardinality(
                                    {i \in {n \in DOMAIN events : events[n].hostname = h} :
                                        events[i].device_id = d})
                      /\ failed = {} => SumOver(risk, Hosts) = SumOver(Earned, Range(Rules))
    BY DEF TablesAgree, Earned
  <2>1. Typed /\ Counters /\ Tables
    BY DEF AccountsInv
  <2>2. \A i \in DOMAIN events : events[i] \in EventRow
    BY <2>1, ElementOfSeq, LenProperties DEF Typed
  <2>3. ASSUME NEW h \in Hosts \ failed
        PROVE  audited[h] = Cardinality({i \in DOMAIN events : events[i].hostname = h})
    <3>1. Recorded(h) /\ audited[h] \in Nat
      BY <2>1 DEF Tables, Counters
    <3>2. CountIn(job, Auditing(h)) = 0
      <4>1. Auditing(h) \in SUBSET Job
        BY DEF Auditing
      <4> QED
        BY <4>1, <2>1, NobodyAtRest
    <3>3. {i \in DOMAIN events : events[i] \in RowsOf(h)}
            = {i \in DOMAIN events : events[i].hostname = h}
      BY <2>2 DEF RowsOf
    <3>4. audited[h] = CountIn(events, RowsOf(h))
      BY <3>1, <3>2 DEF Recorded
    <3> QED
      BY <3>3, <3>4 DEF CountIn
  <2>4. ASSUME NEW h \in Hosts \ failed, NEW d \in Devices
        PROVE  seen[<<h, d>>] = Cardinality({i \in {n \in DOMAIN events : events[n].hostname = h} :
                                                events[i].device_id = d})
    <3>1. Sighted(h, d) /\ seen[<<h, d>>] \in Nat
      BY <2>1 DEF Tables, Counters
    <3>2. CountIn(job, Sighting(h, d)) = 0
      <4>1. Sighting(h, d) \in SUBSET Job
        BY DEF Sighting
      <4> QED
        BY <4>1, <2>1, NobodyAtRest
    <3>3. {i \in DOMAIN events : events[i] \in RowsOfDevice(h, d)}
            = {i \in {n \in DOMAIN events : events[n].hostname = h} : events[i].device_id = d}
      BY <2>2 DEF RowsOfDevice
    <3>4. seen[<<h, d>>] = CountIn(events, RowsOfDevice(h, d))
      BY <3>1, <3>2 DEF Sighted
    <3> QED
      BY <3>3, <3>4 DEF CountIn
  <2>5. ASSUME failed = {} PROVE SumOver(risk, Hosts) = SumOver(Earned, Range(Rules))
    <3>1. Scored
      BY <2>1, <2>5 DEF Tables
    <3>2. SumOver(Debts, Threads) = 0
      <4>1. \A t \in Threads : Debts[t] = 0
        BY DEF Debts, Debt, AtRest
      <4> QED
        BY <4>1, IngestAssumption, SumZero
    <3>3. SumOver(risk, Hosts) \in Nat
      <4>1. \A h \in Hosts : risk[h] \in Nat
        BY <2>1 DEF Counters
      <4> QED
        BY <4>1, HostsAssumption, SumType
    <3> QED
      BY <3>1, <3>2, <3>3 DEF Scored
  <2> QED
    BY <2>3, <2>4, <2>5
<1> QED
  BY <1>1, AccountsKept, PTL

-----------------------------------------------------------------------------
(* The alerts about h, d and r from time c on, for one window, and the     *)
(* threads that are about to store one.                                    *)
Within(h, d, r, c) == {a \in Alert : Same(a, h, d, r) /\ a.created_at \in c..c + DedupWindow}
Storing(h, d, r) ==
    {k \in Job : /\ k.pc = "fire" /\ Rules[k.rule] = r
                 /\ k.event.hostname = h /\ k.event.device_id = d}

StoredAt(h, d, r, c) == \E i \in DOMAIN alerts : Same(alerts[i], h, d, r) /\ alerts[i].created_at = c

(* From the first alert of a window on no thread joins those that are      *)
(* about to store one, as long as the window lasts.                        *)
Windowed(h, d, r, c) ==
    StoredAt(h, d, r, c) =>
        /\ CountIn(alerts, Within(h, d, r, c)) <= Cardinality(Threads)
        /\ now <= c + DedupWindow =>
            CountIn(alerts, Within(h, d, r, c)) + CountIn(job, Storing(h, d, r))
                <= Cardinality(Threads)

NotLater == \A i \in DOMAIN alerts : alerts[i].created_at <= now

WindowInv ==
    /\ Typed /\ Readied /\ NotLater
    /\ \A h \in Hosts, d \in Devices, r \in Range(Rules), c \in Nat : Windowed(h, d, r, c)

(* A thread goes on to store an alert only if it has seen none in the      *)
(* window, so it does not join while one is there.                         *)
LEMMA NobodyJoins ==
    ASSUME Typed, Readied, NEW t \in Threads, Step(t), NEW h, NEW d, NEW r, NEW c \in Nat,
           StoredAt(h, d, r, c), now <= c + DedupWindow, job'[t] \in Storing(h, d, r)
    PROVE  FALSE
<1> DEFINE k == job'[t]
<1>1. k.pc = "fire" /\ k # Idle /\ k.event = job[t].event /\ k \in Job
  BY PlaceFacts DEF Storing, Idle
<1>2. CheckRecent(t)
  <2>1. ~InsertAlert(t) /\ ~InsertEvent(t) /\ ~AppendAudit(t)
    BY <1>1, PlaceFacts
  <2>2. ~(Evaluate(t) \/ RuleRaises(t))
    <3> SUFFICES ASSUME Evaluate(t) \/ RuleRaises(t) PROVE FALSE
      OBVIOUS
    <3>1. PICK l : Moves(t, l) /\ Turns(t, l)
      BY EvaluateMoves
    <3>2. l = k
      BY <3>1 DEF Moves, Typed
    <3> QED
      BY <1>1, <3>1, <3>2 DEF Turns
  <2>3. ~(\/ UpdateDeviceBaseline(t) \/ UpdateUserBaseline(t)
          \/ UpdateHostTimezone(t) \/ TimezoneRaises(t))
    <3> SUFFICES ASSUME \/ UpdateDeviceBaseline(t) \/ UpdateUserBaseline(t)
                        \/ UpdateHostTimezone(t) \/ TimezoneRaises(t)
                 PROVE  FALSE
      OBVIOUS
    <3>1. PICK l : /\ Moves(t, l)
                   /\ l # Idle => l.pc \in {"audit", "device", "user", "timezone", "check"}
      BY BodyMoves
    <3>2. l = k
      BY <3>1 DEF Moves, Typed
    <3> QED
      BY <1>1, <3>1, <3>2
  <2>4. ~Notify(t)
    <3> SUFFICES ASSUME Notify(t) PROVE FALSE
      OBVIOUS
    <3>1. PICK l : Moves(t, l) /\ l.pc \in {"check", "score"}
      BY NotifyMoves
    <3>2. l = k
      BY <3>1 DEF Moves, Typed
    <3> QED
      BY <1>1, <3>1, <3>2
  <2>5. ~(UpsertRisk(t) \/ SlackRaises(t) \/ Raises(t))
    <3> SUFFICES ASSUME UpsertRisk(t) \/ SlackRaises(t) \/ Raises(t) PROVE FALSE
      OBVIOUS
    <3>1. Moves(t, Idle)
      BY EndMoves
    <3> QED
      BY <1>1, <3>1 DEF Moves, Typed
  <2> QED
    BY <2>1, <2>2, <2>3, <2>4, <2>5 DEF Step
<1> DEFINE n == Min(Left(t, job[t].rule))
<1>3. ~RecentAlert(t, r)
  <2>1. CASE RecentAlert(t, Rules[n])
    <3>1. NextAlert(t, n + 1)
      BY <1>2, <2>1 DEF CheckRecent
    <3>2. job' = [job EXCEPT ![t] = [job[t] EXCEPT !.pc = "score"]]
            \/ job' = [job EXCEPT ![t] =
                        [job[t] EXCEPT !.pc = "check", !.rule = Min(Left(t, n + 1))]]
      BY <3>1 DEF NextAlert, Goto, Become
    <3>3. job[t] \in Job
      BY PlaceFacts
    <3>4. k.pc \in {"score", "check"}
      BY <3>2, <3>3 DEF Typed, Job
    <3> QED
      BY <1>1, <3>4
  <2>2. CASE ~RecentAlert(t, Rules[n])
    <3>1. job' = [job EXCEPT ![t] = [job[t] EXCEPT !.pc = "fire", !.rule = n]]
      BY <1>2, <2>2 DEF CheckRecent, Become
    <3>2. job[t] \in Job
      BY PlaceFacts
    <3>3. k.rule = n
      BY <3>1, <3>2 DEF Typed, Job
    <3>4. Rules[k.rule] = r
      BY DEF Storing
    <3> QED
      BY <2>2, <3>3, <3>4
  <2> QED
    BY <2>1, <2>2
<1>4. Host(t) = h /\ Device(t) = d
  BY <1>1 DEF Storing, Host, Device
<1>5. PICK i \in DOMAIN alerts : Same(alerts[i], h, d, r) /\ alerts[i].created_at = c
  BY DEF StoredAt
<1>6. c >= now - DedupWindow
  BY IngestAssumption DEF Typed
<1> QED
  BY <1>3, <1>4, <1>5, <1>6 DEF RecentAlert

(* A step of a job keeps within the window's count of alerts.              *)
LEMMA StepWindowed ==
    ASSUME Typed, Readied, NotLater, NEW t \in Threads, Step(t),
           NEW h, NEW d, NEW r, NEW c \in Nat, Windowed(h, d, r, c)
    PROVE  Windowed(h, d, r, c)'
<1> DEFINE j == job[t]  k == job'[t]  W == Within(h, d, r, c)  S == Storing(h, d, r)
           N == Cardinality(Threads)
<1>1. /\ now' = now /\ now \in Nat /\ N \in Nat /\ DedupWindow \in Nat
  BY StepFrame, IngestAssumption, FS_CardinalityType DEF Typed
<1>2. /\ CountIn(job', S) = CountIn(job, S) - (IF j \in S THEN 1 ELSE 0) + (IF k \in S THEN 1 ELSE 0)
      /\ CountIn(job, S) \in Nat /\ CountIn(job', S) \in Nat
      /\ CountIn(job, S) <= N
  <2>1. CountIn(job, S) <= N
    BY IngestAssumption, CountFacts DEF Typed
  <2> QED
    BY <2>1, ThreadsStep
<1>3. CountIn(alerts, W) \in Nat
  BY AlertsStep
<1>4. CASE ~InsertAlert(t)
  <2>1. alerts' = alerts
    BY <1>4, StepFrame
  <2>2. StoredAt(h, d, r, c)' = StoredAt(h, d, r, c) /\ CountIn(alerts', W) = CountIn(alerts, W)
    BY <2>1 DEF StoredAt
  <2>3. StoredAt(h, d, r, c) /\ now <= c + DedupWindow => CountIn(job', S) <= CountIn(job, S)
    BY <1>2, NobodyJoins
  <2> HIDE DEF W, S, N
  <2> QED
    BY <1>1, <1>2, <1>3, <2>2, <2>3 DEF Windowed, W, S, N
<1>5. CASE InsertAlert(t)
  <2>1. PICK a \in Alert :
            /\ Same(a, Host(t), Device(t), Rules[j.rule]) /\ a.created_at = now
            /\ alerts' = Append(alerts, a)
            /\ CountIn(alerts', W) = CountIn(alerts, W) + (IF a \in W THEN 1 ELSE 0)
    BY <1>5, AlertsStep
  <2> DEFINE mine == Host(t) = h /\ Device(t) = d /\ Rules[j.rule] = r
  <2>2. j \in S <=> mine
    BY <1>5, PlaceFacts DEF Storing, InsertAlert, At, Host, Device
  <2>3. k \notin S
    BY <1>5, PlaceFacts DEF Storing
  <2>4. a \in W <=> mine /\ c <= now /\ now <= c + DedupWindow
    BY <1>1, <2>1 DEF Within, Same
  <2>5. /\ alerts \in Seq(Alert) /\ Len(alerts) \in Nat /\ DOMAIN alerts = 1..Len(alerts)
        /\ DOMAIN alerts' = 1..Len(alerts) + 1 /\ alerts'[Len(alerts) + 1] = a
        /\ \A i \in 1..Len(alerts) : alerts'[i] = alerts[i]
    <3>1. alerts \in Seq(Alert)
      BY DEF Typed
    <3>2. Len(alerts') = Len(alerts) + 1 /\ alerts' \in Seq(Alert)
      BY <2>1, <3>1, AppendProperties
    <3> QED
      BY <2>1, <3>1, <3>2, AppendProperties, LenProperties
  <2>6. StoredAt(h, d, r, c)' => StoredAt(h, d, r, c) \/ (mine /\ c = now)
    <3> SUFFICES ASSUME NEW i \in DOMAIN alerts',
                        Same(alerts'[i], h, d, r), alerts'[i].created_at = c
                 PROVE  StoredAt(h, d, r, c) \/ (mine /\ c = now)
      BY DEF StoredAt
    <3>1. CASE i \in 1..Len(alerts)
      BY <2>5, <3>1 DEF StoredAt
    <3>2. CASE i = Len(alerts) + 1
      BY <2>1, <2>5, <3>2 DEF Same
    <3> QED
      BY <2>5, <3>1, <3>2
  <2>7. ASSUME ~StoredAt(h, d, r, c), c = now PROVE CountIn(alerts, W) = 0
    <3>1. ASSUME NEW i \in DOMAIN alerts, alerts[i] \in W PROVE FALSE
      <4>1. /\ Same(alerts[i], h, d, r) /\ alerts[i].created_at \in c..c + DedupWindow
            /\ alerts[i] \in Alert
        BY <3>1 DEF Within
      <4>2. alerts[i].created_at <= now /\ alerts[i].created_at \in Nat
        BY <4>1 DEF NotLater, Alert
      <4>3. alerts[i].created_at = c
        BY <1>1, <2>7, <4>1, <4>2
      <4> QED
        BY <2>7, <4>1, <4>3 DEF StoredAt
    <3>2. IsFiniteSet(DOMAIN alerts)
      BY <2>5, FS_Interval
    <3> QED
      BY <3>1, <3>2, CountFacts
  <2> HIDE DEF mine, W, S, N
  <2>8. ASSUME StoredAt(h, d, r, c)'
        PROVE  /\ CountIn(alerts', W) <= N
               /\ now <= c + DedupWindow => CountIn(alerts', W) + CountIn(job', S) <= N
    <3>1. CASE StoredAt(h, d, r, c)
      <4>1. /\ CountIn(alerts, W) <= N
            /\ now <= c + DedupWindow => CountIn(alerts, W) + CountIn(job, S) <= N
        BY <3>1 DEF Windowed, W, S, N
      <4> QED
        BY <4>1, <1>1, <1>2, <1>3, <2>1, <2>2, <2>3, <2>4
    <3>2. CASE ~StoredAt(h, d, r, c)
      <4>1. mine /\ c = now /\ CountIn(alerts, W) = 0
        BY <2>6, <2>7, <2>8, <3>2
      <4>2. a \in W /\ j \in S
        BY <4>1, <1>1, <2>2, <2>4
      <4> QED
        BY <4>1, <4>2, <1>1, <1>2, <2>1, <2>3
    <3> QED
      BY <3>1, <3>2
  <2> QED
    BY <1>1, <2>8 DEF Windowed, W, S, N
<1> QED
  BY <1>4, <1>5

(* A purge can only take alerts out of a window.                           *)
LEMMA PurgeWindowed ==
    ASSUME Typed, NEW cutoff, Purge(cutoff), NEW h, NEW d, NEW r, NEW c \in Nat,
           Windowed(h, d, r, c)
    PROVE  Windowed(h, d, r, c)'
<1> DEFINE W == Within(h, d, r, c)  S == Storing(h, d, r)  N == Cardinality(Threads)
<1>1. PICK n \in 0..Len(alerts) : alerts' = SubSeq(alerts, n + 1, Len(alerts))
  BY PurgeTakes
<1>2. job' = job /\ now' = now /\ now \in Nat /\ alerts \in Seq(Alert)
  BY DEF Purge, Typed
<1>3. CountIn(alerts', W) \in Nat /\ CountIn(alerts', W) <= CountIn(alerts, W)
  BY <1>1, <1>2, CountTail
<1>4. CountIn(job, S) \in Nat /\ N \in Nat /\ CountIn(alerts, W) \in Nat
  <2>1. IsFiniteSet(DOMAIN alerts)
    BY <1>2, LenProperties, FS_Interval
  <2> QED
    BY <2>1, CountFacts, IngestAssumption, FS_CardinalityType DEF Typed
<1>5. StoredAt(h, d, r, c)' => StoredAt(h, d, r, c)
  <2>1. /\ alerts' \in Seq(Alert) /\ Len(alerts') = Len(alerts) - n
        /\ \A i \in 1..Len(alerts') : alerts'[i] = alerts[n + i]
        /\ Len(alerts) \in Nat /\ DOMAIN alerts = 1..Len(alerts)
    BY <1>1, <1>2, TailFacts, LenProperties
  <2>2. \A i \in DOMAIN alerts' : n + i \in DOMAIN alerts /\ alerts'[i] = alerts[n + i]
    BY <2>1, LenProperties
  <2> QED
    BY <2>2 DEF StoredAt
<1> HIDE DEF W, S, N
<1>6. StoredAt(h, d, r, c)' => /\ CountIn(alerts', W) <= N
                               /\ now <= c + DedupWindow => CountIn(alerts', W) + CountIn(job, S) <= N
  BY <1>3, <1>4, <1>5 DEF Windowed, W, S, N
<1> QED
  BY <1>2, <1>6 DEF Windowed, W, S, N

(* A tick can only end a window, and an acknowledgement is no part of it.  *)
LEMMA OthersWindowed ==
    ASSUME Typed, NEW h, NEW d, NEW r, NEW c \in Nat, Windowed(h, d, r, c),
           \/ \E t \in Threads, e \in Event : Receive(t, e)
           \/ Tick \/ (\E i \in DOMAIN alerts : Acknowledge(i)) \/ UNCHANGED vars
    PROVE  Windowed(h, d, r, c)'
<1> DEFINE W == Within(h, d, r, c)  S == Storing(h, d, r)  N == Cardinality(Threads)
<1>1. now \in Nat /\ now' \in Nat /\ now' >= now
  <2>1. now \in Nat
    BY DEF Typed
  <2>2. now' = now \/ now' = now + 1
    BY DEF Receive, Tick, Acknowledge, vars
  <2> QED
    BY <2>1, <2>2
<1>2. /\ DOMAIN alerts' = DOMAIN alerts
      /\ \A i \in DOMAIN alerts :
            /\ Same(alerts'[i], h, d, r) <=> Same(alerts[i], h, d, r)
            /\ alerts'[i].created_at = alerts[i].created_at
            /\ alerts'[i] \in W <=> alerts[i] \in W
  <2>1. CASE alerts' = alerts
    BY <2>1
  <2>2. CASE \E i \in DOMAIN alerts : Acknowledge(i)
    <3>1. PICK i \in DOMAIN alerts : Acknowledge(i)
      BY <2>2
    <3>2. /\ alerts' \in Seq(Alert) /\ DOMAIN alerts' = DOMAIN alerts
          /\ \A n \in DOMAIN alerts :
                /\ alerts'[n].hostname = alerts[n].hostname
                /\ alerts'[n].device_id = alerts[n].device_id
                /\ alerts'[n].rule_name = alerts[n].rule_name
                /\ alerts'[n].created_at = alerts[n].created_at
      BY <3>1, AlertMarked
    <3>3. \A n \in DOMAIN alerts : alerts[n] \in Alert /\ alerts'[n] \in Alert
      BY <3>2, ElementOfSeq, LenProperties DEF Typed
    <3> QED
      BY <3>2, <3>3 DEF Same, Within
  <2> QED
    BY <2>1, <2>2 DEF Receive, Tick, vars
<1>3. CountIn(alerts', W) = CountIn(alerts, W)
  <2> HIDE DEF W
  <2>1. \A i : i \in {x \in DOMAIN alerts' : alerts'[x] \in W}
                    <=> i \in {x \in DOMAIN alerts : alerts[x] \in W}
    BY <1>2
  <2>2. {x \in DOMAIN alerts' : alerts'[x] \in W} = {x \in DOMAIN alerts : alerts[x] \in W}
    BY <2>1, Zenon
  <2> QED
    BY <2>2 DEF CountIn
<1>4. StoredAt(h, d, r, c)' <=> StoredAt(h, d, r, c)
  BY <1>2 DEF StoredAt
<1>5. CountIn(job', S) = CountIn(job, S)
  <2>1. CASE job' = job
    BY <2>1
  <2>2. CASE \E t \in Threads, e \in Event : Receive(t, e)
    <3>1. PICK t \in Threads, e \in Event : Receive(t, e)
      BY <2>2
    <3> DEFINE k == [pc |-> "evaluate", event |-> e, rule |-> 1, fired |-> {}]
    <3>2. job' = [job EXCEPT ![t] = k] /\ job[t].pc = "idle"
      BY <3>1 DEF Receive, Become, At
    <3>3. k \notin S /\ job[t] \notin S
      BY <3>2 DEF Storing
    <3> HIDE DEF k, S
    <3>4. IsFiniteSet(DOMAIN job) /\ t \in DOMAIN job /\ CountIn(job, S) \in Nat
      BY IngestAssumption, CountFacts DEF Typed
    <3>5. CountIn([job EXCEPT ![t] = k], S) = CountIn(job, S)
      BY <3>3, <3>4, CountChange
    <3> QED
      BY <3>2, <3>5
  <2> QED
    BY <2>1, <2>2 DEF Tick, Acknowledge, vars
<1>6. DedupWindow \in Nat
  BY IngestAssumption
<1> HIDE DEF W, S, N
<1>7. StoredAt(h, d, r, c)' =>
            /\ CountIn(alerts', W) <= N
            /\ now' <= c + DedupWindow => CountIn(alerts', W) + CountIn(job', S) <= N
  BY <1>1, <1>3, <1>4, <1>5, <1>6 DEF Windowed, W, S, N
<1> QED
  BY <1>7 DEF Windowed, W, S, N

(* No alert carries a time that is still to come.                          *)
LEMMA NextNotLater ==
    ASSUME Typed, Readied, NotLater, [Next]_vars
    PROVE  NotLater'
<1>1. now \in Nat /\ alerts \in Seq(Alert) /\ Len(alerts) \in Nat /\ DOMAIN alerts = 1..Len(alerts)
  BY LenProperties DEF Typed
<1>2. \A i \in DOMAIN alerts : alerts[i].created_at \in Nat
  <2>1. \A i \in DOMAIN alerts : alerts[i] \in Alert
    BY <1>1, ElementOfSeq
  <2> QED
    BY <2>1 DEF Alert
<1>3. ASSUME NEW t \in Threads, Step(t) PROVE NotLater'
  <2>1. now' = now
    BY <1>3, StepFrame
  <2>2. CASE InsertAlert(t)
    <3>1. PICK a \in Alert : a.created_at = now /\ alerts' = Append(alerts, a)
      BY <1>3, <2>2, AlertsStep
    <3>2. Len(alerts') = Len(alerts) + 1 /\ alerts' \in Seq(Alert)
      BY <1>1, <3>1, AppendProperties
    <3>3. /\ DOMAIN alerts' = 1..Len(alerts) + 1 /\ alerts'[Len(alerts) + 1] = a
          /\ \A i \in 1..Len(alerts) : alerts'[i] = alerts[i]
      BY <1>1, <3>1, <3>2, AppendProperties, LenProperties
    <3> SUFFICES ASSUME NEW i \in DOMAIN alerts' PROVE alerts'[i].created_at <= now
      BY <2>1 DEF NotLater
    <3>4. CASE i \in 1..Len(alerts)
      BY <1>1, <3>3, <3>4 DEF NotLater
    <3>5. CASE i = Len(alerts) + 1
      BY <1>1, <3>1, <3>3, <3>5
    <3> QED
      BY <1>1, <3>3, <3>4, <3>5
  <2>3. CASE ~InsertAlert(t)
    BY <1>3, <2>1, <2>3, StepFrame DEF NotLater
  <2> QED
    BY <2>2, <2>3
<1>4. ASSUME NEW cutoff, Purge(cutoff) PROVE NotLater'
  <2>1. PICK n \in 0..Len(alerts) : alerts' = SubSeq(alerts, n + 1, Len(alerts))
    BY <1>4, PurgeTakes
  <2>2. /\ alerts' \in Seq(Alert) /\ Len(alerts') = Len(alerts) - n
        /\ \A i \in 1..Len(alerts') : alerts'[i] = alerts[n + i]
    BY <1>1, <2>1, TailFacts
  <2>3. \A i \in DOMAIN alerts' : n + i \in DOMAIN alerts /\ alerts'[i] = alerts[n + i]
    BY <1>1, <2>2, LenProperties
  <2> QED
    BY <1>4, <2>3 DEF NotLater, Purge
<1>5. ASSUME NEW i \in DOMAIN alerts, Acknowledge(i) PROVE NotLater'
  BY <1>5, AlertMarked DEF NotLater, Acknowledge
<1>6. CASE Tick
  <2>1. now' = now + 1 /\ alerts' = alerts
    BY <1>6 DEF Tick
  <2> QED
    BY <1>1, <1>2, <2>1 DEF NotLater
<1>7. CASE (\E t \in Threads, e \in Event : Receive(t, e)) \/ UNCHANGED vars
  BY <1>7 DEF Receive, vars, NotLater
<1> QED
  BY <1>3, <1>4, <1>5, <1>6, <1>7 DEF Next

(* The inductive invariant of the dedup window.                            *)
THEOREM WindowsKept == Spec => []WindowInv
<1>1. Init => WindowInv
  <2> SUFFICES ASSUME Init PROVE WindowInv
    OBVIOUS
  <2>1. alerts = <<>> /\ DOMAIN <<>> = {}
    BY EmptySeq, LenProperties DEF Init
  <2>2. NotLater /\ \A h, d, r, c : Windowed(h, d, r, c)
    BY <2>1 DEF NotLater, Windowed, StoredAt
  <2> QED
    BY <2>2, InitTyped DEF WindowInv
<1>2. WindowInv /\ [Next]_vars => WindowInv'
  <2> SUFFICES ASSUME WindowInv, [Next]_vars PROVE WindowInv'
    OBVIOUS
  <2>1. Typed /\ Readied /\ NotLater
    BY DEF WindowInv
  <2>2. Typed' /\ Readied' /\ NotLater'
    BY <2>1, NextTyped, NextNotLater
  <2>3. ASSUME NEW h \in Hosts, NEW d \in Devices, NEW r \in Range(Rules), NEW c \in Nat
        PROVE  Windowed(h, d, r, c)'
    <3>1. Windowed(h, d, r, c)
      BY DEF WindowInv
    <3>2. ASSUME NEW t \in Threads, Step(t) PROVE Windowed(h, d, r, c)'
      BY <2>1, <3>1, <3>2, StepWindowed
    <3>3. ASSUME NEW cutoff, Purge(cutoff) PROVE Windowed(h, d, r, c)'
      BY <2>1, <3>1, <3>3, PurgeWindowed
    <3>4. CASE \/ \E t \in Threads, e \in Event : Receive(t, e)
               \/ Tick \/ (\E i \in DOMAIN alerts : Acknowledge(i)) \/ UNCHANGED vars
      BY <2>1, <3>1, <3>4, OthersWindowed
    <3> QED
      BY <3>2, <3>3, <3>4 DEF Next
  <2> QED
    BY <2>2, <2>3 DEF WindowInv
<1> QED
  BY <1>1, <1>2, PTL DEF Spec

(* The duplicates of an alert are as many as the threads, at most.         *)
LEMMA DuplicatesWithin ==
    ASSUME WindowInv, NEW i \in DOMAIN alerts
    PROVE  /\ i \in Duplicates(i) /\ IsFiniteSet(Duplicates(i))
           /\ Cardinality(Duplicates(i)) <= Cardinality(Threads)
<1> DEFINE h == alerts[i].hostname  d == alerts[i].device_id  r == alerts[i].rule_name
           c == alerts[i].created_at
<1>1. alerts \in Seq(Alert) /\ IsFiniteSet(DOMAIN alerts) /\ \A n \in DOMAIN alerts : alerts[n] \in Alert
  <2>1. alerts \in Seq(Alert)
    BY DEF WindowInv, Typed
  <2> QED
    BY <2>1, LenProperties, FS_Interval, ElementOfSeq
<1>2. h \in Hosts /\ d \in Devices /\ r \in Range(Rules) /\ c \in Nat
  BY <1>1 DEF Alert
<1>3. StoredAt(h, d, r, c)
  BY DEF StoredAt, Same
<1> DEFINE W == Within(h, d, r, c)
<1>4. CountIn(alerts, W) <= Cardinality(Threads)
  BY <1>2, <1>3 DEF WindowInv, Windowed
<1>5. Duplicates(i) = {x \in DOMAIN alerts : alerts[x] \in W}
  BY <1>1 DEF Duplicates, Within
<1>6. i \in Duplicates(i)
  BY <1>2, IngestAssumption DEF Duplicates, Same
<1>7. IsFiniteSet(Duplicates(i))
  BY <1>1, <1>5, FS_Subset
<1> QED
  BY <1>4, <1>5, <1>6, <1>7 DEF CountIn

(* The check for a recent alert and its insert are steps apart, but no     *)
(* request thread stores an alert twice in a window, whatever raises or is *)
(* acknowledged or purged (src/server/alert_manager.py, process_alerts).   *)
THEOREM OncePerThread == Spec => []DuplicatesBounded
<1>1. WindowInv => DuplicatesBounded
  BY DuplicatesWithin DEF DuplicatesBounded
<1> QED
  BY <1>1, WindowsKept, PTL

(* With one request thread an alert is stored once in a window.            *)
THEOREM OnceWithOneThread ==
    ASSUME Cardinality(Threads) = 1
    PROVE  Spec => []NoDuplicates
<1>1. WindowInv => NoDuplicates
  <2> SUFFICES ASSUME WindowInv, NEW i \in DOMAIN alerts PROVE Cardinality(Duplicates(i)) = 1
    BY DEF NoDuplicates
  <2>1. /\ i \in Duplicates(i) /\ IsFiniteSet(Duplicates(i))
        /\ Cardinality(Duplicates(i)) <= 1
    BY DuplicatesWithin
  <2>2. Cardinality(Duplicates(i)) \in Nat /\ Cardinality(Duplicates(i)) # 0
    BY <2>1, FS_CardinalityType, FS_EmptySet
  <2> QED
    BY <2>1, <2>2
<1> QED
  BY <1>1, WindowsKept, PTL

-----------------------------------------------------------------------------
(* Retention.  The rows of a table stay in the order of their times, none  *)
(* is later than the clock, and so the old ones are the first.             *)

EventTimes == [i \in DOMAIN events |-> events[i].received_at]
AlertTimes == [i \in DOMAIN alerts |-> alerts[i].created_at]

InOrder(times, last) ==
    \A i, j \in DOMAIN times : i <= j => times[i] <= times[j] /\ times[j] <= last

OrderInv == Typed /\ Readied /\ InOrder(EventTimes, now) /\ InOrder(AlertTimes, now)

(* A time no earlier than the others may come last.                        *)
LEMMA OrderAppended ==
    ASSUME NEW n \in Nat, NEW last \in Nat, NEW T \in [1..n -> Nat], InOrder(T, last),
           NEW U \in [1..n + 1 -> Nat], U[n + 1] = last, \A i \in 1..n : U[i] = T[i]
    PROVE  InOrder(U, last)
<1>1. DOMAIN T = 1..n /\ DOMAIN U = 1..n + 1
  OBVIOUS
<1>2. \A i, j \in 1..n : i <= j => T[i] <= T[j] /\ T[j] <= last
  BY <1>1 DEF InOrder
<1> SUFFICES ASSUME NEW i \in 1..n + 1, NEW j \in 1..n + 1, i <= j
             PROVE  U[i] <= U[j] /\ U[j] <= last
  BY <1>1 DEF InOrder
<1>3. CASE j \in 1..n
  BY <1>2, <1>3
<1>4. CASE j = n + 1 /\ i \in 1..n
  BY <1>2, <1>4
<1>5. CASE j = n + 1 /\ i = n + 1
  BY <1>5
<1> QED
  BY <1>3, <1>4, <1>5

(* The times of the two tables are numbers.                                *)
LEMMA TimesType ==
    ASSUME Typed
    PROVE  /\ Len(events) \in Nat /\ EventTimes \in [1..Len(events) -> Nat]
           /\ Len(alerts) \in Nat /\ AlertTimes \in [1..Len(alerts) -> Nat]
           /\ DOMAIN events = 1..Len(events) /\ DOMAIN alerts = 1..Len(alerts)
<1>1. /\ events \in Seq(EventRow) /\ Len(events) \in Nat /\ DOMAIN events = 1..Len(events)
      /\ alerts \in Seq(Alert) /\ Len(alerts) \in Nat /\ DOMAIN alerts = 1..Len(alerts)
  BY LenProperties DEF Typed
<1>2. /\ \A i \in DOMAIN events : events[i] \in EventRow
      /\ \A i \in DOMAIN alerts : alerts[i] \in Alert
  BY <1>1, ElementOfSeq
<1>3. /\ \A i \in DOMAIN events : events[i].received_at \in Nat
      /\ \A i \in DOMAIN alerts : alerts[i].created_at \in Nat
  BY <1>2 DEF EventRow, Alert
<1> QED
  BY <1>1, <1>3 DEF EventTimes, AlertTimes

(* What a job inserts comes last, ...                                      *)
LEMMA StepInOrder ==
    ASSUME OrderInv, NEW t \in Threads, Step(t), Typed'
    PROVE  InOrder(EventTimes, now)' /\ InOrder(AlertTimes, now)'
<1> USE DEF OrderInv
<1>1. now' = now /\ now \in Nat
  BY StepFrame DEF Typed
<1>2. /\ Len(events) \in Nat /\ EventTimes \in [1..Len(events) -> Nat]
      /\ Len(alerts) \in Nat /\ AlertTimes \in [1..Len(alerts) -> Nat]
      /\ events \in Seq(EventRow) /\ alerts \in Seq(Alert)
      /\ DOMAIN events = 1..Len(events) /\ DOMAIN alerts = 1..Len(alerts)
  BY TimesType DEF Typed
<1>3. InOrder(EventTimes, now)'
  <2>1. CASE InsertEvent(t)
    <3> DEFINE row == [hostname |-> Host(t), device_id |-> Device(t),
                 event_type |-> Ev(t).event_type, transfer_bytes |-> Ev(t).transfer_bytes,
                 received_at |-> now]
    <3>1. events' = Append(events, row) /\ row.received_at = now /\ row \in EventRow
      <4>1. events' = Append(events, row)
        BY <2>1 DEF InsertEvent
      <4>2. job[t] \in Job
        BY PlaceFacts
      <4>3. Ev(t) \in Event
        BY <4>2 DEF Job, Ev
      <4> QED
        BY <1>1, <4>1, <4>3 DEF EventRow, Hosts, Devices, Host, Device, Ev
    <3> HIDE DEF row
    <3>2. /\ DOMAIN events' = 1..Len(events) + 1 /\ events'[Len(events) + 1] = row
          /\ \A i \in 1..Len(events) : events'[i] = events[i]
      BY <1>2, <3>1, AppendProperties, LenProperties
    <3>3. /\ DOMAIN EventTimes' = 1..Len(events) + 1 /\ EventTimes'[Len(events) + 1] = now
          /\ EventTimes' = [i \in 1..Len(events) + 1 |-> EventTimes'[i]]
          /\ \A i \in 1..Len(events) : EventTimes'[i] = EventTimes[i]
      BY <1>2, <3>1, <3>2 DEF EventTimes
    <3>4. EventTimes' \in [1..Len(events) + 1 -> Nat]
      BY <1>1, <1>2, <3>3
    <3>5. InOrder(EventTimes', now)
      BY <1>1, <1>2, <3>3, <3>4, OrderAppended
    <3> QED
      BY <1>1, <3>5 DEF InOrder
  <2>2. CASE ~InsertEvent(t)
    BY <1>1, <2>2, StepFrame DEF InOrder, EventTimes
  <2> QED
    BY <2>1, <2>2
<1>4. InOrder(AlertTimes, now)'
  <2>1. CASE InsertAlert(t)
    <3>1. PICK a \in Alert : a.created_at = now /\ alerts' = Append(alerts, a)
      BY <2>1, AlertsStep
    <3>2. /\ DOMAIN alerts' = 1..Len(alerts) + 1 /\ alerts'[Len(alerts) + 1] = a
          /\ \A i \in 1..Len(alerts) : alerts'[i] = alerts[i]
      BY <1>2, <3>1, AppendProperties, LenProperties
    <3>3. /\ DOMAIN AlertTimes' = 1..Len(alerts) + 1 /\ AlertTimes'[Len(alerts) + 1] = now
          /\ AlertTimes' = [i \in 1..Len(alerts) + 1 |-> AlertTimes'[i]]
          /\ \A i \in 1..Len(alerts) : AlertTimes'[i] = AlertTimes[i]
      BY <1>2, <3>1, <3>2 DEF AlertTimes
    <3>4. AlertTimes' \in [1..Len(alerts) + 1 -> Nat]
      BY <1>1, <1>2, <3>3
    <3>5. InOrder(AlertTimes', now)
      BY <1>1, <1>2, <3>3, <3>4, OrderAppended
    <3> QED
      BY <1>1, <3>5 DEF InOrder
  <2>2. CASE ~InsertAlert(t)
    BY <1>1, <2>2, StepFrame DEF InOrder, AlertTimes
  <2> QED
    BY <2>1, <2>2
<1> QED
  BY <1>3, <1>4

(* ... a purge leaves the order, ...                                       *)
LEMMA PurgeInOrder ==
    ASSUME OrderInv, NEW cutoff, Purge(cutoff)
    PROVE  InOrder(EventTimes, now)' /\ InOrder(AlertTimes, now)'
<1> USE DEF OrderInv
<1>1. /\ Len(events) \in Nat /\ events \in Seq(EventRow) /\ DOMAIN events = 1..Len(events)
      /\ Len(alerts) \in Nat /\ alerts \in Seq(Alert) /\ DOMAIN alerts = 1..Len(alerts)
      /\ now' = now
  BY TimesType DEF Typed, Purge
<1>2. PICK m \in 0..Len(events) : events' = SubSeq(events, m + 1, Len(events))
  BY PurgeTakes
<1>3. PICK n \in 0..Len(alerts) : alerts' = SubSeq(alerts, n + 1, Len(alerts))
  BY PurgeTakes
<1>4. /\ DOMAIN events' = 1..Len(events) - m
      /\ \A i \in DOMAIN events' : m + i \in DOMAIN events /\ events'[i] = events[m + i]
  <2>1. /\ events' \in Seq(EventRow) /\ Len(events') = Len(events) - m
        /\ \A i \in 1..Len(events') : events'[i] = events[m + i]
    BY <1>1, <1>2, TailFacts
  <2> QED
    BY <1>1, <2>1, LenProperties
<1>5. /\ DOMAIN alerts' = 1..Len(alerts) - n
      /\ \A i \in DOMAIN alerts' : n + i \in DOMAIN alerts /\ alerts'[i] = alerts[n + i]
  <2>1. /\ alerts' \in Seq(Alert) /\ Len(alerts') = Len(alerts) - n
        /\ \A i \in 1..Len(alerts') : alerts'[i] = alerts[n + i]
    BY <1>1, <1>3, TailFacts
  <2> QED
    BY <1>1, <2>1, LenProperties
<1>6. InOrder(EventTimes, now)'
  BY <1>1, <1>4 DEF InOrder, EventTimes
<1>7. InOrder(AlertTimes, now)'
  BY <1>1, <1>5 DEF InOrder, AlertTimes
<1> QED
  BY <1>6, <1>7

(* ... and so does everything else.                                        *)
LEMMA OthersInOrder ==
    ASSUME OrderInv,
           \/ \E t \in Threads, e \in Event : Receive(t, e)
           \/ Tick \/ (\E i \in DOMAIN alerts : Acknowledge(i)) \/ UNCHANGED vars
    PROVE  InOrder(EventTimes, now)' /\ InOrder(AlertTimes, now)'
<1> USE DEF OrderInv
<1>1. now \in Nat /\ (now' = now \/ now' = now + 1) /\ events' = events
  BY DEF Receive, Tick, Acknowledge, vars, Typed
<1>2. now' \in Nat /\ now' >= now /\ EventTimes' = EventTimes
  BY <1>1 DEF EventTimes
<1>3. AlertTimes' = AlertTimes
  <2>1. CASE \E i \in DOMAIN alerts : Acknowledge(i)
    <3>1. /\ DOMAIN alerts' = DOMAIN alerts
          /\ \A n \in DOMAIN alerts : alerts'[n].created_at = alerts[n].created_at
      BY <2>1, AlertMarked
    <3> QED
      BY <3>1 DEF AlertTimes
  <2>2. CASE alerts' = alerts
    BY <2>2 DEF AlertTimes
  <2> QED
    BY <2>1, <2>2 DEF Receive, Tick, vars
<1>4. /\ \A i \in DOMAIN EventTimes : EventTimes[i] \in Nat
      /\ \A i \in DOMAIN AlertTimes : AlertTimes[i] \in Nat
  BY TimesType
<1> QED
  BY <1>1, <1>2, <1>3, <1>4 DEF InOrder

(* The inductive invariant of the tables' order.                           *)
THEOREM OrderKept == Spec => []OrderInv
<1>1. Init => OrderInv
  <2> SUFFICES ASSUME Init PROVE OrderInv
    OBVIOUS
  <2>1. events = <<>> /\ alerts = <<>> /\ DOMAIN <<>> = {}
    BY EmptySeq, LenProperties DEF Init
  <2> QED
    BY <2>1, InitTyped DEF OrderInv, InOrder, EventTimes, AlertTimes
<1>2. OrderInv /\ [Next]_vars => OrderInv'
  <2> SUFFICES ASSUME OrderInv, [Next]_vars PROVE OrderInv'
    OBVIOUS
  <2>1. Typed' /\ Readied'
    BY NextTyped DEF OrderInv
  <2>2. InOrder(EventTimes, now)' /\ InOrder(AlertTimes, now)'
    BY <2>1, StepInOrder, PurgeInOrder, OthersInOrder DEF Next
  <2> QED
    BY <2>1, <2>2 DEF OrderInv
<1> QED
  BY <1>1, <1>2, PTL DEF Spec

(* What a purge leaves of a table: the rows that are not old, all of them, *)
(* in their order.                                                         *)
Leaves(cutoff) ==
    /\ \E n \in 0..Len(events) :
        /\ {i \in DOMAIN events : events[i].received_at < cutoff} = 1..n
        /\ events' = SubSeq(events, n + 1, Len(events))
    /\ \E n \in 0..Len(alerts) :
        /\ {i \in DOMAIN alerts : alerts[i].created_at < cutoff} = 1..n
        /\ alerts' = SubSeq(alerts, n + 1, Len(alerts))

(* The purge deletes from the events and the alerts what is older than its *)
(* cutoff and nothing else (src/server/database.py, purge_old_records):    *)
(* the rows that Purge counts off the front of a table are the old ones,   *)
(* because requests store rows in the order of the clock.                  *)
THEOREM PurgeIsExact == Spec => [][\A cutoff \in 1..MaxTime : Purge(cutoff) => Leaves(cutoff)]_vars
<1>1. ASSUME OrderInv, NEW cutoff \in 1..MaxTime, Purge(cutoff) PROVE Leaves(cutoff)
  <2>1. /\ Len(events) \in Nat /\ EventTimes \in [1..Len(events) -> Nat]
        /\ Len(alerts) \in Nat /\ AlertTimes \in [1..Len(alerts) -> Nat]
        /\ DOMAIN events = 1..Len(events) /\ DOMAIN alerts = 1..Len(alerts)
    BY <1>1, TimesType DEF OrderInv
  <2> DEFINE oldEvents == {i \in DOMAIN events : events[i].received_at < cutoff}
             oldAlerts == {i \in DOMAIN alerts : alerts[i].created_at < cutoff}
  <2>2. /\ events' = SubSeq(events, Cardinality(oldEvents) + 1, Len(events))
        /\ alerts' = SubSeq(alerts, Cardinality(oldAlerts) + 1, Len(alerts))
    BY <1>1 DEF Purge
  <2>3. /\ oldEvents = {i \in 1..Len(events) : EventTimes[i] < cutoff}
        /\ oldAlerts = {i \in 1..Len(alerts) : AlertTimes[i] < cutoff}
    BY <2>1 DEF EventTimes, AlertTimes
  <2> HIDE DEF oldEvents, oldAlerts
  <2>4. InOrder(EventTimes, now) /\ InOrder(AlertTimes, now)
    BY <1>1 DEF OrderInv
  <2>5. Cardinality(oldEvents) \in 0..Len(events) /\ oldEvents = 1..Cardinality(oldEvents)
    <3>1. /\ Len(events) \in Nat /\ oldEvents \in SUBSET (1..Len(events))
          /\ \A i \in 1..Len(events) : i \in oldEvents <=> EventTimes[i] < cutoff
          /\ \A i \in 1..Len(events) : EventTimes[i] \in Nat
      BY <2>1, <2>3
    <3>2. \A i, j \in 1..Len(events) : i <= j => EventTimes[i] <= EventTimes[j]
      BY <2>1, <2>4 DEF InOrder
    <3>3. \A i, j \in 1..Len(events) : i <= j /\ j \in oldEvents => i \in oldEvents
      BY <3>1, <3>2
    <3> QED
      BY <3>1, <3>3, FrontOnly
  <2>6. Cardinality(oldAlerts) \in 0..Len(alerts) /\ oldAlerts = 1..Cardinality(oldAlerts)
    <3>1. /\ Len(alerts) \in Nat /\ oldAlerts \in SUBSET (1..Len(alerts))
          /\ \A i \in 1..Len(alerts) : i \in oldAlerts <=> AlertTimes[i] < cutoff
          /\ \A i \in 1..Len(alerts) : AlertTimes[i] \in Nat
      BY <2>1, <2>3
    <3>2. \A i, j \in 1..Len(alerts) : i <= j => AlertTimes[i] <= AlertTimes[j]
      BY <2>1, <2>4 DEF InOrder
    <3>3. \A i, j \in 1..Len(alerts) : i <= j /\ j \in oldAlerts => i \in oldAlerts
      BY <3>1, <3>2
    <3> QED
      BY <3>1, <3>3, FrontOnly
  <2>7. /\ \E n \in 0..Len(events) :
             oldEvents = 1..n /\ events' = SubSeq(events, n + 1, Len(events))
        /\ \E n \in 0..Len(alerts) :
             oldAlerts = 1..n /\ alerts' = SubSeq(alerts, n + 1, Len(alerts))
    BY <2>2, <2>5, <2>6
  <2> QED
    BY <2>7 DEF Leaves, oldEvents, oldAlerts
<1>2. OrderInv => \A cutoff \in 1..MaxTime : Purge(cutoff) => Leaves(cutoff)
  BY <1>1
<1> QED
  BY <1>2, OrderKept, PTL

-----------------------------------------------------------------------------
(* The volume of a host, with one request thread.  What the rule has       *)
(* counted is then what is stored when the event is.                       *)

Volume == "high_volume_transfer"

(* The rule has fired and its alert is still to come, unless a recent one  *)
(* suppresses it.  The rule is the third.                                  *)
OwesVolume(j, h, d) ==
    /\ About(j, h, d) /\ Volume \in j.fired
    /\ \/ j.pc \in Early
       \/ (j.pc \in {"check", "fire"} /\ j.rule <= 3)
       \/ (j.pc = "notify" /\ j.rule < 3)

(* An alert of the volume of a host and device, created in the dedup       *)
(* window that ends at c, or later.                                        *)
Warned(rows, h, d, c) ==
    \E i \in DOMAIN rows : Same(rows[i], h, d, Volume) /\ rows[i].created_at >= c - DedupWindow

(* Whoever has passed the rule has seen what it would see now.             *)
PastVolume(j) == j.pc = "insert" \/ (j.pc = "evaluate" /\ j.rule > 3)
VolumeSeen ==
    \A t \in Threads :
        PastVolume(job[t]) /\ Host(t) \notin failed /\ HighVolume(Ev(t), events, now)
            => Volume \in Fired(t)

HourBefore(i) ==
    {j \in 1..i : events[j].hostname = events[i].hostname
                  /\ events[j].received_at >= events[i].received_at - Hour}
Weighs(i) == events[i].transfer_bytes # 0 /\ Bytes(events, HourBefore(i)) >= VolumeThreshold
VolumeHandled ==
    \A i \in DOMAIN events :
        LET h == events[i].hostname
            d == events[i].device_id
        IN  h \notin failed /\ Weighs(i)
                => Warned(alerts, h, d, events[i].received_at)
                    \/ \E t \in Threads : OwesVolume(job[t], h, d)

VolumeInv == OrderInv /\ (~purged => VolumeSeen /\ VolumeHandled)

LEMMA VolumeRule ==
    /\ Rules[3] = Volume /\ \A i \in 1..8 : Rules[i] = Volume => i = 3
<1>1. Rules[3] = Volume
  BY DEF Rules, Volume
<1> QED
  BY <1>1, RulesFacts

(* The rows are numbers of bytes at times that have come.                  *)
LEMMA VolumeRows ==
    ASSUME OrderInv
    PROVE  /\ now \in Nat /\ Len(events) \in Nat /\ DOMAIN events = 1..Len(events)
           /\ Hour \in Nat /\ DedupWindow \in Nat
           /\ \A i \in DOMAIN events :
                /\ events[i].transfer_bytes \in Nat /\ events[i].received_at \in Nat
                /\ events[i].received_at <= now
           /\ \A h : IsFiniteSet(Recent(events, h, Hour, now))
<1>1. /\ events \in Seq(EventRow) /\ now \in Nat
      /\ Len(events) \in Nat /\ DOMAIN events = 1..Len(events)
  BY LenProperties DEF OrderInv, Typed
<1>2. \A i \in DOMAIN events : events[i] \in EventRow
  BY <1>1, ElementOfSeq
<1>3. \A i \in DOMAIN events : events[i].transfer_bytes \in Nat
  BY <1>2, BytesAssumption DEF EventRow
<1>4. \A i \in DOMAIN events : events[i].received_at \in Nat
  BY <1>2 DEF EventRow
<1>5. ASSUME NEW i \in DOMAIN events PROVE events[i].received_at <= now
  <2>1. EventTimes[i] <= now
    <3>1. i <= i /\ i \in DOMAIN EventTimes
      BY <1>1 DEF EventTimes
    <3> QED
      BY <3>1 DEF OrderInv, InOrder
  <2> QED
    BY <2>1 DEF EventTimes
<1>6. ASSUME NEW h PROVE IsFiniteSet(Recent(events, h, Hour, now))
  <2>1. Recent(events, h, Hour, now) \in SUBSET (1..Len(events))
    BY <1>1 DEF Recent
  <2> QED
    BY <1>1, <2>1, FrontBound
<1>7. Hour \in Nat /\ DedupWindow \in Nat
  BY RulesAssumption, IngestAssumption
<1> QED
  BY <1>1, <1>3, <1>4, <1>5, <1>6, <1>7

(* As the hour goes on, rows fall out of it.                               *)
LEMMA VolumeFalls ==
    ASSUME OrderInv, NEW e \in Event, HighVolume(e, events, now + 1)
    PROVE  HighVolume(e, events, now)
<1> DEFINE early == Recent(events, e.hostname, Hour, now)
           late == Recent(events, e.hostname, Hour, now + 1)
           f == [i \in early |-> events[i].transfer_bytes]
           g == [i \in late |-> events[i].transfer_bytes]
<1>1. late \in SUBSET early /\ early \in SUBSET DOMAIN events /\ IsFiniteSet(early)
  <2>1. IsFiniteSet(early) /\ early \in SUBSET DOMAIN events
    BY VolumeRows DEF Recent
  <2>2. ASSUME NEW i \in late PROVE i \in early
    <3>1. i \in DOMAIN events /\ events[i].hostname = e.hostname
          /\ events[i].received_at >= (now + 1) - Hour
      <4>1. i \in Recent(events, e.hostname, Hour, now + 1)
        BY <2>2
      <4> HIDE DEF early, late, f, g
      <4> QED
        BY <4>1, Zenon DEF Recent
    <3>2. events[i].received_at \in Nat /\ now \in Nat /\ Hour \in Nat
      BY <3>1, VolumeRows
    <3>3. events[i].received_at >= now - Hour
      BY <3>1, <3>2
    <3> QED
      BY <3>1, <3>3 DEF Recent
  <2> QED
    BY <2>1, <2>2
<1>2. \A i \in early : f[i] \in Nat /\ f[i] = events[i].transfer_bytes
  BY <1>1, VolumeRows
<1>3. \A i \in late : g[i] = f[i] /\ g[i] \in Nat
  BY <1>1, <1>2
<1>4. IsFiniteSet(late)
  BY <1>1, FS_Subset
<1>5. SumOver(g, late) = SumOver(f, late)
  <2> HIDE DEF f, g, early, late
  <2> QED
    BY <1>3, <1>4, SumSame
<1>6. SumOver(f, late) <= SumOver(f, early)
  <2> HIDE DEF f, g, early, late
  <2> QED
    BY <1>1, <1>2, SumPart
<1>7. SumOver(f, late) \in Nat /\ SumOver(f, early) \in Nat
  <2> HIDE DEF f, g, early, late
  <2>1. \A i \in late : f[i] \in Nat
    BY <1>1, <1>2
  <2> QED
    BY <1>1, <1>2, <1>4, <2>1, SumType
<1>8. e.transfer_bytes \in Nat /\ VolumeThreshold \in Nat
  BY BytesAssumption, RulesAssumption
<1>9. e.transfer_bytes # 0 /\ SumOver(g, late) + e.transfer_bytes >= VolumeThreshold
  BY DEF HighVolume, Bytes
<1>10. SumOver(f, early) + e.transfer_bytes >= VolumeThreshold
  <2> HIDE DEF f, g, early, late
  <2> QED
    BY <1>5, <1>6, <1>7, <1>8, <1>9
<1> QED
  BY <1>9, <1>10 DEF HighVolume, Bytes

(* On to the next alert: that of the volume is not passed over.            *)
LEMMA NextVolume ==
    ASSUME Typed, NEW t \in Threads, job[t] \in Job, NEW n \in 1..3, NextAlert(t, n),
           Volume \in Fired(t)
    PROVE  job'[t].pc = "check" /\ job'[t].rule <= 3
<1> DEFINE m == Min(Left(t, n))
<1>1. Left(t, n) # {} /\ m \in n..8 /\ m <= 3
  <2>1. n \in Nat /\ n > 0 /\ 3 \in n..8 /\ Rules[3] \in Fired(t)
    BY VolumeRule
  <2> QED
    BY <2>1, LeastLeft
<1>2. job' = [job EXCEPT ![t] = [job[t] EXCEPT !.pc = "check", !.rule = m]]
  BY <1>1 DEF NextAlert, Become
<1> HIDE DEF m
<1>3. job'[t] = [job[t] EXCEPT !.pc = "check", !.rule = m]
  BY <1>2 DEF Typed
<1> QED
  BY <1>1, <1>3 DEF Job

(* A thread that owes the alert owes it until one is stored that is recent *)
(* enough for every event stored so far, or an exception ends the event.   *)
LEMMA StepOwesVolume ==
    ASSUME OrderInv, NEW t \in Threads, Step(t), NEW h, NEW d, OwesVolume(job[t], h, d),
           h \notin failed'
    PROVE  OwesVolume(job'[t], h, d) \/ Warned(alerts', h, d, now')
<1> DEFINE j == job[t]  k == job'[t]
<1> USE DEF OrderInv
<1>1. /\ j \in Job /\ j # Idle /\ k \in {Idle} \cup Job /\ j.rule \in 1..8
      /\ Host(t) = h /\ Device(t) = d /\ Volume \in Fired(t)
  BY PlaceFacts DEF OwesVolume, About, Host, Device, Fired, Job
<1>2. k # Idle
  <2>1. ~UpsertRisk(t)
    BY DEF UpsertRisk, At, OwesVolume, Early
  <2> QED
    BY <1>1, <2>1, PlaceFacts
<1>3. k \in Job /\ About(k, h, d)
  BY <1>1, <1>2, PlaceFacts DEF About, Host, Device
<1>4. CASE Evaluate(t) \/ RuleRaises(t)
  <2>1. PICK l : Moves(t, l) /\ Turns(t, l)
    BY <1>4, EvaluateMoves
  <2>2. l = k
    BY <2>1 DEF Moves, Typed
  <2>3. k.pc \in Early /\ Volume \in k.fired
    BY <1>1, <2>1, <2>2 DEF Turns, Early, Fired
  <2> QED
    BY <1>3, <2>3 DEF OwesVolume
<1>5. Volume \in k.fired \/ j.pc = "evaluate"
  BY <1>1, <1>2, PlaceFacts DEF Fired
<1>6. CASE \/ InsertEvent(t) \/ AppendAudit(t) \/ UpdateDeviceBaseline(t)
           \/ UpdateUserBaseline(t) \/ UpdateHostTimezone(t) \/ TimezoneRaises(t)
  <2>1. j.pc \in {"insert", "audit", "device", "user", "timezone"} /\ j.rule = 1
    BY <1>6 DEF InsertEvent, AppendAudit, UpdateDeviceBaseline, UpdateUserBaseline,
                UpdateHostTimezone, TimezoneRaises, At, Readied, Ready
  <2>2. \E place \in {"audit", "device", "user", "timezone", "check", "idle"} : Goto(t, place)
    BY <1>6 DEF InsertEvent, AppendAudit, UpdateDeviceBaseline, UpdateUserBaseline,
                UpdateHostTimezone, TimezoneRaises, ToAlerts, ToTimezone
  <2>3. PICK place \in {"audit", "device", "user", "timezone", "check", "idle"} : Goto(t, place)
    BY <2>2
  <2>4. job' = [job EXCEPT ![t] = IF place = "idle" THEN Idle ELSE [j EXCEPT !.pc = place]]
    BY <2>3 DEF Goto, Become
  <2>5. k = [j EXCEPT !.pc = place] /\ place # "idle"
    BY <1>2, <2>4 DEF Typed
  <2>6. k.pc = place /\ k.rule = 1 /\ k.fired = j.fired
    BY <1>1, <2>1, <2>5 DEF Job
  <2>7. place \in Early \/ place = "check"
    BY <2>5 DEF Early
  <2> QED
    BY <1>1, <1>3, <2>6, <2>7 DEF OwesVolume, Fired
<1>7. CASE CheckRecent(t)
  <2> DEFINE n == Min(Left(t, j.rule))
  <2>1. j.pc = "check" /\ j.rule <= 3 /\ Volume \in k.fired
    BY <1>5, <1>7 DEF CheckRecent, At, OwesVolume, Early
  <2>2. n \in j.rule..8 /\ n <= 3
    <3>1. j.rule \in Nat /\ j.rule > 0 /\ 3 \in j.rule..8 /\ Rules[3] \in Fired(t)
      BY <1>1, <2>1, VolumeRule
    <3> QED
      BY <3>1, LeastLeft
  <2>3. /\ RecentAlert(t, Rules[n]) => NextAlert(t, n + 1)
        /\ ~RecentAlert(t, Rules[n]) => Become(t, [job[t] EXCEPT !.pc = "fire", !.rule = n])
        /\ alerts' = alerts /\ now' = now
    BY <1>7 DEF CheckRecent
  <2> HIDE DEF n
  <2>4. n \in 1..3
    BY <1>1, <2>2
  <2>5. CASE RecentAlert(t, Rules[n]) /\ n = 3
    <3>1. RecentAlert(t, Volume)
      BY <2>5, VolumeRule
    <3>2. Warned(alerts, h, d, now)
      BY <1>1, <3>1 DEF RecentAlert, Warned
    <3>3. Warned(alerts', h, d, now') = Warned(alerts, h, d, now)
      BY <2>3 DEF Warned
    <3> QED
      BY <3>2, <3>3
  <2>6. CASE RecentAlert(t, Rules[n]) /\ n # 3
    <3>1. n + 1 \in 1..3
      BY <2>4, <2>6
    <3>2. k.pc = "check" /\ k.rule <= 3
      BY <1>1, <2>3, <2>6, <3>1, NextVolume
    <3> QED
      BY <1>3, <2>1, <3>2 DEF OwesVolume
  <2>7. CASE ~RecentAlert(t, Rules[n])
    <3>1. k = [j EXCEPT !.pc = "fire", !.rule = n]
      BY <2>3, <2>7 DEF Become, Typed
    <3>2. k.pc = "fire" /\ k.rule = n
      BY <1>1, <3>1 DEF Job
    <3> QED
      BY <1>3, <2>1, <2>4, <3>2 DEF OwesVolume
  <2> QED
    BY <2>5, <2>6, <2>7
<1>8. CASE InsertAlert(t)
  <2>1. j.pc = "fire" /\ j.rule <= 3 /\ Volume \in k.fired
    BY <1>5, <1>8 DEF InsertAlert, At, OwesVolume, Early
  <2>2. k.pc = "notify" /\ k.rule = j.rule
    BY <1>8, PlaceFacts
  <2>3. CASE j.rule < 3
    BY <1>3, <2>1, <2>2, <2>3 DEF OwesVolume
  <2>4. CASE j.rule = 3
    <3>1. PICK a \in Alert :
              /\ Same(a, Host(t), Device(t), Rules[j.rule]) /\ a.created_at = now
              /\ alerts' = Append(alerts, a)
      BY <1>8, AlertsStep
    <3>2. alerts \in Seq(Alert) /\ now \in Nat /\ DedupWindow \in Nat /\ now' = now
      BY VolumeRows, StepFrame DEF Typed
    <3>3. /\ Len(alerts) \in Nat /\ DOMAIN alerts' = 1..Len(alerts) + 1
          /\ alerts'[Len(alerts) + 1] = a
      <4>1. Len(alerts') = Len(alerts) + 1 /\ alerts' \in Seq(Alert)
        BY <3>1, <3>2, AppendProperties
      <4> QED
        BY <3>1, <3>2, <4>1, AppendProperties, LenProperties
    <3>4. Len(alerts) + 1 \in DOMAIN alerts'
      BY <3>3
    <3>5. Same(alerts'[Len(alerts) + 1], h, d, Volume)
      BY <1>1, <2>4, <3>1, <3>3, VolumeRule
    <3>6. alerts'[Len(alerts) + 1].created_at >= now' - DedupWindow
      BY <3>1, <3>2, <3>3
    <3> QED
      BY <3>4, <3>5, <3>6 DEF Warned
  <2> QED
    BY <1>1, <2>1, <2>3, <2>4
<1>9. CASE Notify(t)
  <2>1. j.pc = "notify" /\ j.rule < 3 /\ Volume \in k.fired
    BY <1>5, <1>9 DEF Notify, At, OwesVolume, Early
  <2>2. j.rule + 1 \in 1..3 /\ NextAlert(t, j.rule + 1)
    BY <1>1, <1>9, <2>1 DEF Notify
  <2>3. k.pc = "check" /\ k.rule <= 3
    BY <1>1, <2>2, NextVolume
  <2> QED
    BY <1>3, <2>1, <2>3 DEF OwesVolume
<1>10. CASE UpsertRisk(t) \/ SlackRaises(t) \/ Raises(t)
  <2>1. Moves(t, Idle)
    BY <1>10, EndMoves
  <2> QED
    BY <1>2, <2>1 DEF Moves, Typed
<1> QED
  BY <1>4, <1>6, <1>7, <1>8, <1>9, <1>10 DEF Step

(* The alerts of an earlier time suffice as long as they are there.        *)
LEMMA StillAlerted ==
    ASSUME OrderInv, NEW h, NEW d, NEW c, Warned(alerts, h, d, c),
           (\E t \in Threads : Step(t)) \/ alerts' = alerts
               \/ (\E i \in DOMAIN alerts : Acknowledge(i))
    PROVE  Warned(alerts', h, d, c)
<1>1. PICK i \in DOMAIN alerts :
            Same(alerts[i], h, d, Volume) /\ alerts[i].created_at >= c - DedupWindow
  BY DEF Warned
<1>2. i \in DOMAIN alerts' /\ Same(alerts'[i], h, d, Volume)
      /\ alerts'[i].created_at = alerts[i].created_at
  <2>1. CASE alerts' = alerts
    BY <1>1, <2>1
  <2>2. CASE \E n \in DOMAIN alerts : Acknowledge(n)
    BY <1>1, <2>2, AlertMarked DEF Same, OrderInv
  <2>3. CASE \E t \in Threads : Step(t)
    <3>1. PICK t \in Threads : Step(t)
      BY <2>3
    <3>2. CASE InsertAlert(t)
      <4>1. PICK a \in Alert : alerts' = Append(alerts, a)
        BY <3>1, <3>2, AlertsStep DEF OrderInv
      <4>2. alerts \in Seq(Alert)
        BY DEF OrderInv, Typed
      <4>3. /\ Len(alerts) \in Nat /\ DOMAIN alerts = 1..Len(alerts)
            /\ DOMAIN alerts' = 1..Len(alerts) + 1
            /\ \A n \in 1..Len(alerts) : alerts'[n] = alerts[n]
        <5>1. Len(alerts') = Len(alerts) + 1 /\ alerts' \in Seq(Alert)
          BY <4>1, <4>2, AppendProperties
        <5> QED
          BY <4>1, <4>2, <5>1, AppendProperties, LenProperties
      <4> QED
        BY <1>1, <4>3
    <3>3. CASE ~InsertAlert(t)
      BY <1>1, <3>1, <3>3, StepFrame
    <3> QED
      BY <3>2, <3>3
  <2> QED
    BY <2>1, <2>2, <2>3
<1> QED
  BY <1>1, <1>2 DEF Warned

(* What a row weighs depends on the rows before it only.                   *)
LEMMA SameWeight ==
    ASSUME OrderInv, NEW i \in DOMAIN events, \A n \in 1..i : events'[n] = events[n]
    PROVE  Weighs(i)' = Weighs(i)
<1>1. i \in 1..i /\ \A n \in 1..i : events'[n] = events[n]
  BY VolumeRows
<1>2. HourBefore(i)' = HourBefore(i)
  <2>1. \A n : n \in HourBefore(i)' <=> n \in HourBefore(i)
    BY <1>1 DEF HourBefore
  <2> QED
    BY <2>1
<1> DEFINE I == HourBefore(i)
<1>3. Bytes(events', I) = Bytes(events, I)
  <2>1. \A n \in I : events'[n] = events[n]
    BY <1>1 DEF HourBefore
  <2> HIDE DEF I
  <2>2. [n \in I |-> events'[n].transfer_bytes] = [n \in I |-> events[n].transfer_bytes]
    BY <2>1
  <2> QED
    BY <2>2 DEF Bytes
<1> QED
  BY <1>1, <1>2, <1>3 DEF Weighs

(* The new row weighs what the rule would count at that time.              *)
LEMMA NewWeight ==
    ASSUME OrderInv, NEW t \in Threads, InsertEvent(t), NEW m, m = Len(events) + 1, Weighs(m)'
    PROVE  /\ HighVolume(Ev(t), events, now)
           /\ LET row == events'[m] IN
              row.hostname = Host(t) /\ row.device_id = Device(t) /\ row.received_at = now
<1> DEFINE b == Ev(t).transfer_bytes
           I == Recent(events, Host(t), Hour, now)
           row == [hostname |-> Host(t), device_id |-> Device(t),
                   event_type |-> Ev(t).event_type, transfer_bytes |-> Ev(t).transfer_bytes,
                   received_at |-> now]
<1>1. /\ now \in Nat /\ Hour \in Nat /\ Len(events) \in Nat /\ DOMAIN events = 1..Len(events)
      /\ IsFiniteSet(I) /\ \A i \in DOMAIN events : events[i].transfer_bytes \in Nat
  BY VolumeRows
<1>2. Ev(t) \in Event /\ b \in Nat /\ Ev(t).hostname = Host(t)
  <2>1. job[t] \in Job
    BY HasJob DEF InsertEvent, At, OrderInv
  <2> QED
    BY <2>1, BytesAssumption DEF Job, Ev, Host
<1>3. /\ events'[m] = row /\ \A i \in 1..Len(events) : events'[i] = events[i]
  <2>1. events' = Append(events, row) /\ events \in Seq(EventRow)
    BY DEF InsertEvent, OrderInv, Typed
  <2>2. row \in EventRow
    <3>1. job[t] \in Job /\ Host(t) \in Hosts /\ Device(t) \in Devices
      BY HasJob DEF InsertEvent, At, OrderInv
    <3> QED
      BY <1>1, <1>2, <3>1 DEF EventRow
  <2> HIDE DEF row
  <2> QED
    BY <2>1, <2>2, AppendProperties
<1>4. /\ events'[m].hostname = Host(t) /\ events'[m].device_id = Device(t)
      /\ events'[m].received_at = now /\ events'[m].transfer_bytes = b
  BY <1>3
<1> HIDE DEF row
<1>5. m = Len(events) + 1 /\ m \notin I /\ I \in SUBSET (1..Len(events))
  BY <1>1 DEF Recent
<1>6. HourBefore(m)' = I \cup {m}
  <2>1. HourBefore(m)' = {n \in 1..m : events'[n].hostname = Host(t)
                                       /\ events'[n].received_at >= now - Hour}
    BY <1>4, <1>5 DEF HourBefore
  <2>2. \A n \in 1..Len(events) :
            n \in I <=> events'[n].hostname = Host(t) /\ events'[n].received_at >= now - Hour
    BY <1>1, <1>3 DEF Recent
  <2>3. events'[m].hostname = Host(t) /\ events'[m].received_at >= now - Hour
    BY <1>1, <1>4
  <2>4. \A n : n \in 1..m <=> n \in 1..Len(events) \/ n = m
    BY <1>1, <1>5
  <2>5. \A n : n \in {x \in 1..m : events'[x].hostname = Host(t)
                                   /\ events'[x].received_at >= now - Hour}
                <=> n \in I \cup {m}
    <3> HIDE DEF I
    <3> QED
      BY <1>5, <2>2, <2>3, <2>4
  <2> QED
    BY <2>1, <2>5
<1> DEFINE f == [n \in I \cup {m} |-> events'[n].transfer_bytes]
           g == [n \in I |-> events[n].transfer_bytes]
<1>7. /\ f[m] = b /\ b \in Int /\ \A n \in I : f[n] = g[n] /\ f[n] \in Int /\ g[n] \in Int
  <2>1. \A n \in I : events'[n] = events[n] /\ events[n].transfer_bytes \in Nat
    BY <1>1, <1>3, <1>5
  <2> HIDE DEF I
  <2> QED
    BY <1>2, <1>4, <2>1
<1> HIDE DEF I
<1>8. SumOver(f, I \cup {m}) = SumOver(g, I) + b
  <2> HIDE DEF f, g, b
  <2>1. \A n \in I \cup {m} : f[n] \in Int
    BY <1>7
  <2>2. SumOver(f, I \cup {m}) = SumOver(f, I) + f[m]
    BY <1>1, <1>5, <2>1, SumAdd
  <2>3. SumOver(f, I) = SumOver(g, I)
    BY <1>1, <1>7, SumSame
  <2> QED
    BY <1>7, <2>2, <2>3
<1>9. b # 0 /\ SumOver(f, I \cup {m}) >= VolumeThreshold
  <2>1. events'[m].transfer_bytes # 0 /\ Bytes(events', HourBefore(m)') >= VolumeThreshold
    BY <1>5 DEF Weighs
  <2> QED
    BY <1>4, <1>6, <2>1 DEF Bytes
<1>10. Bytes(events, I) + b >= VolumeThreshold
  BY <1>8, <1>9 DEF Bytes
<1> QED
  BY <1>2, <1>4, <1>5, <1>9, <1>10 DEF HighVolume, I

(* A set of one member has no other.                                       *)
LEMMA OnlyOne ==
    ASSUME NEW S, IsFiniteSet(S), Cardinality(S) = 1, NEW x \in S
    PROVE  \A y \in S : y = x
<1>1. IsFiniteSet(S \ {x}) /\ Cardinality(S \ {x}) = 0
  BY FS_RemoveElement, FS_CardinalityType
<1>2. S \ {x} = {}
  BY <1>1, FS_EmptySet
<1> QED
  BY <1>2

(* With one thread nothing is stored between the rule and the insert.      *)
LEMMA StepSeen ==
    ASSUME OrderInv, VolumeSeen, Cardinality(Threads) = 1, NEW t \in Threads, Step(t)
    PROVE  VolumeSeen'
<1> DEFINE j == job[t]  k == job'[t]
<1>1. \A s \in Threads : s = t
  BY OnlyOne, IngestAssumption
<1> SUFFICES ASSUME PastVolume(k), job'[t].event.hostname \notin failed',
                    HighVolume(job'[t].event, events', now')
             PROVE  Volume \in k.fired
  BY <1>1 DEF VolumeSeen, Host, Ev, Fired
<1>2. /\ j \in Job /\ j # Idle /\ k \in {Idle} \cup Job
      /\ k # Idle => k.event = j.event
      /\ \/ j.pc = "evaluate" /\ k.pc \in {"evaluate", "insert"}
         \/ j.pc # "evaluate" /\ (k = Idle \/ k.pc \notin {"evaluate", "insert"})
  <2>1. PICK l : /\ Moves(t, l)
                 /\ \/ job[t].pc = "evaluate" /\ Turns(t, l)
                    \/ job[t].pc # "evaluate" /\ (l = Idle \/ l.pc \notin {"evaluate", "insert"})
    BY StepMoves DEF OrderInv
  <2>2. l = k
    BY <2>1 DEF Moves, Typed, OrderInv
  <2> QED
    BY <2>1, <2>2, PlaceFacts DEF Turns, OrderInv
<1>3. k # Idle /\ k.pc \in {"evaluate", "insert"} /\ j.pc = "evaluate"
  BY <1>2 DEF PastVolume, Idle
<1>4. Evaluate(t) \/ RuleRaises(t)
  BY <1>3 DEF Step, InsertEvent, AppendAudit, UpdateDeviceBaseline, UpdateUserBaseline,
              UpdateHostTimezone, TimezoneRaises, CheckRecent, InsertAlert, Notify,
              SlackRaises, UpsertRisk, Raises, At
<1>5. events' = events /\ now' = now /\ failed \subseteq failed'
  BY <1>4, StepFrame DEF Evaluate, RuleRaises
<1>6. k.event = j.event /\ Host(t) \notin failed' /\ HighVolume(Ev(t), events, now)
  BY <1>2, <1>3, <1>5 DEF Host, Ev
<1>7. PICK new : NextRule(t, new) /\ (Evaluate(t) => new = Firing(t, offset[Host(t)]))
  BY <1>4 DEF Evaluate, RuleRaises
<1>8. /\ k.fired = j.fired \cup new
      /\ k.rule = (IF j.rule = 8 THEN 1 ELSE j.rule + 1)
      /\ k.pc = (IF j.rule = 8 THEN "insert" ELSE "evaluate")
  <2>1. k = [j EXCEPT
        !.fired = @ \cup new,
        !.rule = IF @ = Len(Rules) THEN 1 ELSE @ + 1,
        !.pc = IF j.rule = Len(Rules) THEN "insert" ELSE "evaluate"]
    BY <1>7 DEF NextRule, Become, OrderInv, Typed
  <2> QED
    BY <1>2, <2>1, RulesFacts DEF Job
<1>9. j.rule \in 1..8 /\ j.rule >= 3
  BY <1>2, <1>8 DEF PastVolume, Job
<1>10. CASE j.rule > 3
  <2>1. PastVolume(j) /\ Host(t) \notin failed
    BY <1>3, <1>5, <1>6, <1>10 DEF PastVolume
  <2>2. Volume \in j.fired
    BY <1>6, <2>1 DEF VolumeSeen, Fired
  <2> QED
    BY <1>8, <2>2
<1>11. CASE j.rule = 3
  <2>1. Evaluate(t)
    BY <1>4, <1>6 DEF RuleRaises
  <2>2. Fires(Volume, Ev(t), events, offset[Host(t)], users, now)
    BY <1>6 DEF Fires, Volume
  <2>3. Volume \in new
    BY <1>7, <1>11, <2>1, <2>2, VolumeRule DEF Firing
  <2> QED
    BY <1>8, <2>3
<1> QED
  BY <1>9, <1>10, <1>11

(* A row that reaches the threshold is that of a thread whose rule fired.  *)
LEMMA StepHandled ==
    ASSUME OrderInv, VolumeSeen, VolumeHandled, NEW t \in Threads, Step(t)
    PROVE  VolumeHandled'
<1> SUFFICES ASSUME NEW i \in DOMAIN events', events'[i].hostname \notin failed', Weighs(i)'
             PROVE  Warned(alerts', events'[i].hostname, events'[i].device_id,
                                 events'[i].received_at)
                    \/ \E s \in Threads :
                            OwesVolume(job'[s], events'[i].hostname, events'[i].device_id)
  BY DEF VolumeHandled
<1>0. /\ now \in Nat /\ DedupWindow \in Nat /\ Len(events) \in Nat /\ DOMAIN events = 1..Len(events)
      /\ failed \subseteq failed' /\ now' = now
  BY VolumeRows, StepFrame
<1>1. ASSUME NEW h, NEW d, NEW s \in Threads, OwesVolume(job[s], h, d), h \notin failed',
             NEW c \in Nat, c <= now
      PROVE  Warned(alerts', h, d, c) \/ OwesVolume(job'[s], h, d)
  <2>1. CASE s # t
    <3>1. job'[s] = job[s]
      <4>1. job' = [job EXCEPT ![t] = job'[t]]
        BY PlaceFacts DEF OrderInv
      <4> QED
        BY <2>1, <4>1 DEF OrderInv, Typed
    <3> QED
      BY <1>1, <3>1
  <2>2. CASE s = t
    <3>1. OwesVolume(job'[t], h, d) \/ Warned(alerts', h, d, now')
      BY <1>1, <2>2, StepOwesVolume
    <3>2. Warned(alerts', h, d, now') => Warned(alerts', h, d, c)
      <4> SUFFICES ASSUME NEW n \in DOMAIN alerts', Same(alerts'[n], h, d, Volume),
                          alerts'[n].created_at >= now' - DedupWindow
                   PROVE  alerts'[n].created_at >= c - DedupWindow
        BY DEF Warned
      <4>1. alerts'[n].created_at \in Nat
        <5>1. alerts' \in Seq(Alert)
          BY StepTyped DEF OrderInv, Typed
        <5>2. alerts'[n] \in Alert
          BY <5>1, ElementOfSeq, LenProperties
        <5> QED
          BY <5>2 DEF Alert
      <4> QED
        BY <1>0, <1>1, <4>1
    <3> QED
      BY <2>2, <3>1, <3>2
  <2> QED
    BY <2>1, <2>2
<1>2. ASSUME i \in DOMAIN events, \A n \in 1..i : events'[n] = events[n]
      PROVE  Warned(alerts', events'[i].hostname, events'[i].device_id, events'[i].received_at)
             \/ \E s \in Threads :
                    OwesVolume(job'[s], events'[i].hostname, events'[i].device_id)
  <2> DEFINE h == events[i].hostname  d == events[i].device_id  c == events[i].received_at
  <2>1. events'[i] = events[i] /\ c \in Nat /\ c <= now
    BY <1>0, <1>2, VolumeRows
  <2>2. Weighs(i) /\ h \notin failed' /\ h \notin failed
    BY <1>0, <1>2, <2>1, SameWeight
  <2>3. Warned(alerts, h, d, c) \/ \E s \in Threads : OwesVolume(job[s], h, d)
    BY <1>2, <2>2 DEF VolumeHandled
  <2> HIDE DEF h, d, c
  <2>4. Warned(alerts', h, d, c) \/ \E s \in Threads : OwesVolume(job'[s], h, d)
    <3>1. CASE Warned(alerts, h, d, c)
      <4>1. Warned(alerts', h, d, c)
        BY <3>1, StillAlerted DEF h, d, c
      <4> QED
        BY <4>1
    <3>2. CASE \E s \in Threads : OwesVolume(job[s], h, d)
      BY <1>1, <2>1, <2>2, <3>2
    <3> QED
      BY <2>3, <3>1, <3>2
  <2> QED
    BY <2>1, <2>4 DEF h, d, c
<1>3. CASE ~InsertEvent(t)
  <2>1. events' = events
    BY <1>3, StepFrame
  <2> QED
    BY <1>2, <2>1
<1>4. CASE InsertEvent(t)
  <2>1. DOMAIN events' = 1..Len(events) + 1 /\ \A n \in 1..Len(events) : events'[n] = events[n]
    BY <1>4, EventAppended DEF OrderInv
  <2>2. CASE i \in 1..Len(events)
    <3>1. \A n \in 1..i : events'[n] = events[n]
      BY <1>0, <2>1, <2>2
    <3> QED
      BY <1>0, <1>2, <2>2, <3>1
  <2>3. CASE i = Len(events) + 1
    <3>1. /\ HighVolume(Ev(t), events, now)
          /\ events'[i].hostname = Host(t) /\ events'[i].device_id = Device(t)
      BY <1>4, <2>3, NewWeight
    <3>2. job[t].pc = "insert" /\ Host(t) \notin failed
      BY <1>0, <1>4, <3>1 DEF InsertEvent, At
    <3>3. Volume \in job[t].fired
      BY <3>1, <3>2 DEF VolumeSeen, PastVolume, Fired
    <3>4. job'[t] \in Job \cup {Idle} /\ job'[t].pc = "audit"
      BY <1>4, PlaceFacts DEF OrderInv
    <3>5. job'[t] # Idle
      BY <3>4 DEF Idle
    <3>6. job'[t].fired = job[t].fired /\ job'[t].event = job[t].event
      BY <3>2, <3>5, PlaceFacts DEF OrderInv
    <3>7. OwesVolume(job'[t], Host(t), Device(t))
      BY <3>3, <3>4, <3>5, <3>6 DEF OwesVolume, About, Host, Device, Early
    <3> QED
      BY <3>1, <3>7
  <2> QED
    BY <1>0, <2>1, <2>2, <2>3
<1> QED
  BY <1>3, <1>4

(* A new job has looked at nothing, and the clock only shortens the hour.  *)
LEMMA OthersSeen ==
    ASSUME OrderInv, VolumeSeen, VolumeHandled,
           \/ \E t \in Threads, e \in Event : Receive(t, e)
           \/ Tick \/ (\E i \in DOMAIN alerts : Acknowledge(i)) \/ UNCHANGED vars
    PROVE  VolumeSeen' /\ VolumeHandled'
<1>1. /\ events' = events /\ failed' = failed /\ (now' = now \/ now' = now + 1)
      /\ alerts' = alerts \/ \E i \in DOMAIN alerts : Acknowledge(i)
      /\ job' = job \/ \E t \in Threads, e \in Event : Receive(t, e)
  BY DEF Receive, Tick, Acknowledge, vars, history
<1>2. \A s \in Threads :
          \/ job'[s] = job[s]
          \/ /\ ~PastVolume(job'[s])
             /\ \A h, d : ~OwesVolume(job[s], h, d)
  <2>1. CASE job' = job
    BY <2>1
  <2>2. CASE \E t \in Threads, e \in Event : Receive(t, e)
    <3>1. PICK t \in Threads, e \in Event : Receive(t, e)
      BY <2>2
    <3> DEFINE k == [pc |-> "evaluate", event |-> e, rule |-> 1, fired |-> {}]
    <3>2. job' = [job EXCEPT ![t] = k] /\ job[t].pc = "idle"
      BY <3>1 DEF Receive, Become, At
    <3>3. ~PastVolume(k)
      BY DEF PastVolume
    <3>4. \A h, d : ~OwesVolume(job[t], h, d)
      BY <3>2 DEF OwesVolume, Early
    <3> HIDE DEF k
    <3> QED
      BY <3>2, <3>3, <3>4 DEF OrderInv, Typed
  <2> QED
    BY <1>1, <2>1, <2>2
<1>3. VolumeSeen'
  <2> SUFFICES ASSUME NEW s \in Threads, PastVolume(job'[s]),
                      job'[s].event.hostname \notin failed',
                      HighVolume(job'[s].event, events', now')
               PROVE  Volume \in job'[s].fired
    BY DEF VolumeSeen, Host, Ev, Fired
  <2>1. job'[s] = job[s]
    BY <1>2
  <2>2. Ev(s) \in Event
    <3>1. job[s].pc # "idle"
      BY <2>1 DEF PastVolume
    <3> QED
      BY <3>1, HasJob DEF OrderInv, Job, Ev
  <2>3. HighVolume(Ev(s), events, now) /\ Host(s) \notin failed
    BY <1>1, <2>1, <2>2, VolumeFalls DEF Ev, Host
  <2> QED
    BY <2>1, <2>3 DEF VolumeSeen, Fired
<1>4. VolumeHandled'
  <2> SUFFICES ASSUME NEW i \in DOMAIN events, events[i].hostname \notin failed, Weighs(i)'
               PROVE  Warned(alerts', events[i].hostname, events[i].device_id,
                                   events[i].received_at)
                      \/ \E s \in Threads :
                            OwesVolume(job'[s], events[i].hostname, events[i].device_id)
    <3>1. \A n \in DOMAIN events : Warned(alerts', events'[n].hostname, events'[n].device_id, events'[n].received_at)
            = Warned(alerts', events[n].hostname, events[n].device_id, events[n].received_at)
      BY <1>1
    <3> QED
      BY <1>1, <3>1 DEF VolumeHandled
  <2> DEFINE h == events[i].hostname  d == events[i].device_id  c == events[i].received_at
  <2>1. Weighs(i)
    BY <1>1, SameWeight
  <2>2. Warned(alerts, h, d, c) \/ \E s \in Threads : OwesVolume(job[s], h, d)
    BY <2>1 DEF VolumeHandled
  <2>3. CASE Warned(alerts, h, d, c)
    <3> HIDE DEF h, d, c
    <3>1. Warned(alerts', h, d, c)
      BY <1>1, <2>3, StillAlerted DEF h, d, c
    <3> QED
      BY <1>1, <3>1 DEF h, d, c
  <2>4. CASE \E s \in Threads : OwesVolume(job[s], h, d)
    BY <1>2, <2>4
  <2> QED
    BY <2>2, <2>3, <2>4
<1> QED
  BY <1>3, <1>4

(* The inductive invariant of the volumes.                                 *)
THEOREM VolumesKept ==
    ASSUME Cardinality(Threads) = 1
    PROVE  Spec => []VolumeInv
<1>1. Init => VolumeSeen /\ VolumeHandled
  <2> SUFFICES ASSUME Init PROVE VolumeSeen /\ VolumeHandled
    OBVIOUS
  <2>1. DOMAIN events = {} /\ \A t \in Threads : ~PastVolume(job[t])
    BY EmptySeq, LenProperties DEF Init, PastVolume, Idle
  <2> QED
    BY <2>1 DEF VolumeSeen, VolumeHandled
<1>2. OrderInv /\ (~purged => VolumeSeen /\ VolumeHandled) /\ [Next]_vars
        => (~purged => VolumeSeen /\ VolumeHandled)'
  <2> SUFFICES ASSUME OrderInv, ~purged => VolumeSeen /\ VolumeHandled, [Next]_vars, ~purged'
               PROVE  VolumeSeen' /\ VolumeHandled'
    OBVIOUS
  <2>1. CASE \E t \in Threads : Step(t)
    <3>1. PICK t \in Threads : Step(t)
      BY <2>1
    <3>2. VolumeSeen /\ VolumeHandled
      BY <3>1, StepFrame
    <3> QED
      BY <3>1, <3>2, StepSeen, StepHandled
  <2>2. CASE \/ \E t \in Threads, e \in Event : Receive(t, e)
             \/ Tick \/ (\E i \in DOMAIN alerts : Acknowledge(i)) \/ UNCHANGED vars
    <3>1. VolumeSeen /\ VolumeHandled
      BY <2>2 DEF Receive, Tick, Acknowledge, vars, history
    <3> QED
      BY <2>2, <3>1, OthersSeen
  <2>3. CASE \E cutoff \in 1..MaxTime : Purge(cutoff)
    BY <2>3 DEF Purge
  <2> QED
    BY <2>1, <2>2, <2>3 DEF Next
<1> QED
  BY <1>1, <1>2, OrderKept, PTL DEF Spec, VolumeInv

(* With one request thread every stored event that brings the bytes of its *)
(* host in an hour to the threshold has its alert, or one of the dedup     *)
(* window before it, when its handling is over without an exception        *)
(* (src/server/detection/rules.py, rule_high_volume_transfer, and          *)
(* src/server/routers/events.py, ingest_events).                           *)
THEOREM VolumesAlerted ==
    ASSUME Cardinality(Threads) = 1
    PROVE  Spec => []VolumeAlerted
<1>1. VolumeInv => VolumeAlerted
  <2> SUFFICES ASSUME VolumeInv, ~purged, NEW i \in DOMAIN events,
                      events[i].hostname \notin failed,
                      ~Busy(events[i].hostname, events[i].device_id), Weighs(i)
               PROVE  Warned(alerts, events[i].hostname, events[i].device_id, events[i].received_at)
    BY DEF VolumeAlerted, Weighs, HourBefore, Warned, Alerts, Volume
  <2>1. \A t \in Threads : ~OwesVolume(job[t], events[i].hostname, events[i].device_id)
    BY DEF Busy, OwesVolume, About, Host, Device
  <2> QED
    BY <2>1 DEF VolumeInv, VolumeHandled
<1> QED
  BY <1>1, VolumesKept, PTL

====
