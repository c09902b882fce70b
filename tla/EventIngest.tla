---------------------------- MODULE EventIngest -----------------------------
(***************************************************************************)
(* POST /api/v1/events on the server: for each event of a request, the     *)
(* rules, the rows of the event, its audit record and the baselines, then  *)
(* the alerts and the risk score (server/routers/events.py,                *)
(* server/alert_manager.py, server/scoring/risk_scoring.py and the         *)
(* functions of server/database.py they call), with the retention purge    *)
(* beside them.                                                            *)
(*                                                                         *)
(* Each request has a thread of the web server.  Each function of          *)
(* database.py holds the database lock for its whole transaction, so it is *)
(* one step; nothing is held between two of them.  A thread goes from one  *)
(* event straight to the next, of the same request or of another: the      *)
(* answer is 200 either way.  The schema admits no empty hostname or       *)
(* device_id.  The audit chain itself is in AuditChain.                    *)
(***************************************************************************)
EXTENDS DetectionRules, Functions

CONSTANTS
    Threads,      \* request threads of the server process
    Event,        \* the events that agents may send, a set of records
    DedupWindow,  \* ALERT_DEDUP_WINDOW_SECS, in ticks
    Retention,    \* shortest retention a purge is asked for, in ticks
    MinSeverity,  \* ITDN_NOTIFY_MIN_SEVERITY, as a place in _SEVERITY_ORDER
    MayFail,      \* may a call of database.py or of the Slack webhook raise?
    MaxAcks,      \* bound of the model: alerts acknowledged
    MaxEvents,    \* bound of the model: events received
    MaxTime       \* bound of the model: ticks of the clock

ASSUME IngestAssumption ==
    /\ IsFiniteSet(Threads) /\ Threads # {}
    /\ DedupWindow \in Nat \ {0} /\ Retention \in Nat
    /\ MinSeverity \in 0..3
    /\ MayFail \in BOOLEAN /\ MaxAcks \in Nat
    /\ MaxEvents \in Nat /\ MaxTime \in Nat

Hosts == {e.hostname : e \in Event}

(* There may be any number of hosts, but not infinitely many.              *)
ASSUME HostsAssumption == IsFiniteSet(Hosts)

(* The schema of a request refuses a transfer_bytes below 0.               *)
ASSUME BytesAssumption == \A e \in Event : e.transfer_bytes \in Nat

Devices == {e.device_id : e \in Event}

VARIABLES
    events,    \* the events table, oldest row first
    audited,   \* per host: appends to its audit chain
    seen,      \* device_baseline: seen_count per <<host, device>>
    users,     \* user_baseline: the <<user, host, device>> with a row
    offset,    \* host_timezone: per host, 0 until one is known
    alerts,    \* the alerts table, oldest row first
    risk,      \* risk_scores
    metrics,   \* METRICS: events ingested, rules fired, alerts fired, by rule
    now,       \* the clock, in ticks
    job,       \* per thread: the event it is at, and how far it has come
    received,  \* events received so far
    failed,    \* history: hosts an event of which met an exception
    notices,   \* history: per host, alerts the channels were tried for
    acks,      \* history: alerts acknowledged
    purged     \* history: has a purge run?

baselines == <<audited, seen, users, offset>>
history == <<received, failed, notices, acks, purged>>
vars == <<events, baselines, alerts, risk, metrics, now, job, history>>

(* What a request thread keeps: the call it is about to make, its event,   *)
(* the rules that fired, the place in Rules of the rule or alert it is at. *)
Idle == [pc |-> "idle"]
At(t, place) == job[t].pc = place
Ev(t) == job[t].event
Host(t) == job[t].event.hostname
Device(t) == job[t].event.device_id
Fired(t) == job[t].fired

NoneYet == [r \in Range(Rules) |-> 0]

Init ==
    /\ events = <<>> /\ alerts = <<>>
    /\ audited = [h \in Hosts |-> 0]
    /\ seen = [p \in Hosts \X Devices |-> 0]
    /\ users = {} /\ offset = [h \in Hosts |-> 0]
    /\ risk = [h \in Hosts |-> 0]
    /\ metrics = [events |-> 0, fires |-> NoneYet, alerts |-> NoneYet]
    /\ now = 0
    /\ job = [t \in Threads |-> Idle]
    /\ received = 0 /\ failed = {} /\ purged = FALSE
    /\ notices = [h \in Hosts |-> 0] /\ acks = 0

Become(t, j) == job' = [job EXCEPT ![t] = j]
Goto(t, place) == Become(t, IF place = "idle" THEN Idle ELSE [job[t] EXCEPT !.pc = place])

-----------------------------------------------------------------------------
(* rules.evaluate: one read of the database after another.                 *)

Receive(t, e) ==
    /\ At(t, "idle") /\ received < MaxEvents
    /\ received' = received + 1
    /\ Become(t, [pc |-> "evaluate", event |-> e, rule |-> 1, fired |-> {}])
    /\ UNCHANGED <<events, baselines, alerts, risk, metrics, now, failed, notices, acks, purged>>

(* With the rules of new added to those that fired, on to the next rule;   *)
(* after the last one to insert_event, and to the first alert.             *)
NextRule(t, new) ==
    Become(t, [job[t] EXCEPT
        !.fired = @ \cup new,
        !.rule = IF @ = Len(Rules) THEN 1 ELSE @ + 1,
        !.pc = IF job[t].rule = Len(Rules) THEN "insert" ELSE "evaluate"])

(* The rule t is at, if it fires with this offset of the host.             *)
Firing(t, o) == {r \in {Rules[job[t].rule]} : Fires(r, Ev(t), events, o, users, now)}

(* inc_rule_fire, for the rule if it fired.                                *)
CountFires(new) ==
    metrics' = [metrics EXCEPT !.fires = [r \in Range(Rules) |-> IF r \in new THEN @[r] + 1 ELSE @[r]]]

Evaluate(t) ==
    /\ At(t, "evaluate")
    /\ LET new == Firing(t, offset[Host(t)]) IN NextRule(t, new) /\ CountFires(new)
    /\ UNCHANGED <<events, baselines, alerts, risk, now, history>>

(* A read of the database raises.  rule_after_hours_device then goes on    *)
(* without the offset; of the others the exception is swallowed.           *)
Reading == {"unknown_device", "high_volume_transfer", "rapid_cycle", "cross_agent_device",
            "user_unknown_device"}

RuleRaises(t) ==
    LET r == Rules[job[t].rule] IN
    /\ MayFail /\ At(t, "evaluate")
    /\ \E new \in {{}, Firing(t, 0)} :
        /\ \/ r \in Reading /\ new = {}
           \/ r = "after_hours_device" /\ new = Firing(t, 0)
        /\ NextRule(t, new) /\ CountFires(new)
    /\ failed' = failed \cup {Host(t)}
    /\ UNCHANGED <<events, baselines, alerts, risk, now, received, notices, acks, purged>>

-----------------------------------------------------------------------------
(* The rest of the loop body of ingest_events, up to process_alerts.       *)

(* insert_event and inc_events_ingested.                                   *)
InsertEvent(t) ==
    /\ At(t, "insert")
    /\ events' = Append(events,
            [hostname |-> Host(t), device_id |-> Device(t),
             event_type |-> Ev(t).event_type, transfer_bytes |-> Ev(t).transfer_bytes,
             received_at |-> now])
    /\ metrics' = [metrics EXCEPT !.events = @ + 1]
    /\ Goto(t, "audit")
    /\ UNCHANGED <<baselines, alerts, risk, now, history>>

AppendAudit(t) ==
    /\ At(t, "audit")
    /\ audited' = [audited EXCEPT ![Host(t)] = @ + 1]
    /\ Goto(t, "device")
    /\ UNCHANGED <<events, seen, users, offset, alerts, risk, metrics, now, history>>

(* Where a thread goes after the baselines.                                *)
ToAlerts(t) == IF Fired(t) = {} THEN "idle" ELSE "check"
ToTimezone(t) == IF Ev(t).utc_offset = <<>> THEN ToAlerts(t) ELSE "timezone"

UpdateDeviceBaseline(t) ==
    /\ At(t, "device")
    /\ seen' = [seen EXCEPT ![<<Host(t), Device(t)>>] = @ + 1]
    /\ Goto(t, IF Ev(t).user # "" THEN "user" ELSE ToTimezone(t))
    /\ UNCHANGED <<events, audited, users, offset, alerts, risk, metrics, now, history>>

UpdateUserBaseline(t) ==
    /\ At(t, "user")
    /\ users' = users \cup {<<Ev(t).user, Host(t), Device(t)>>}
    /\ Goto(t, ToTimezone(t))
    /\ UNCHANGED <<events, audited, seen, offset, alerts, risk, metrics, now, history>>

UpdateHostTimezone(t) ==
    /\ At(t, "timezone")
    /\ offset' = [offset EXCEPT ![Host(t)] = Head(Ev(t).utc_offset)]
    /\ Goto(t, ToAlerts(t))
    /\ UNCHANGED <<events, audited, seen, users, alerts, risk, metrics, now, history>>

(* Its exception has a handler of its own: the alerts are still processed. *)
TimezoneRaises(t) ==
    /\ MayFail /\ At(t, "timezone")
    /\ Goto(t, ToAlerts(t))
    /\ UNCHANGED <<events, baselines, alerts, risk, metrics, now, history>>

-----------------------------------------------------------------------------
(* alert_manager.process_alerts and RiskScorer.score_event.                *)

(* The places of the alerts from n on, and where the loop goes next.       *)
Left(t, n) == {i \in n..Len(Rules) : Rules[i] \in Fired(t)}
NextAlert(t, n) ==
    IF Left(t, n) = {} THEN Goto(t, "score")
    ELSE Become(t, [job[t] EXCEPT !.pc = "check", !.rule = Min(Left(t, n))])

Same(a, h, d, r) == a.hostname = h /\ a.device_id = d /\ a.rule_name = r

(* Mutant, part of no specification: the cutoff is compared the wrong way. *)
OldAlert(t, r) ==
    \E i \in DOMAIN alerts :
        /\ Same(alerts[i], Host(t), Device(t), r)
        /\ alerts[i].created_at < now - DedupWindow

(* Mutant, part of no specification: an acknowledged alert does not count. *)
RecentOpenAlert(t, r) ==
    \E i \in DOMAIN alerts :
        /\ Same(alerts[i], Host(t), Device(t), r)
        /\ alerts[i].created_at >= now - DedupWindow
        /\ ~alerts[i].acknowledged

(* get_recent_alert: is there one within the window?                       *)
RecentAlert(t, r) ==
    \E i \in DOMAIN alerts :
        /\ Same(alerts[i], Host(t), Device(t), r)
        /\ alerts[i].created_at >= now - DedupWindow

(* One turn of the loop, up to the call of insert_alert or the continue.   *)
CheckRecent(t) ==
    /\ At(t, "check")
    /\ LET n == Min(Left(t, job[t].rule)) IN
       IF RecentAlert(t, Rules[n])
       THEN NextAlert(t, n + 1)
       ELSE Become(t, [job[t] EXCEPT !.pc = "fire", !.rule = n])
    /\ UNCHANGED <<events, baselines, alerts, risk, metrics, now, history>>

InsertAlert(t) ==
    /\ At(t, "fire")
    /\ alerts' = Append(alerts,
            [hostname |-> Host(t), device_id |-> Device(t),
             rule_name |-> Rules[job[t].rule], created_at |-> now, acknowledged |-> FALSE])
    /\ Goto(t, "notify")
    /\ UNCHANGED <<events, baselines, risk, metrics, now, history>>

(* _severity_passes.                                                       *)
SeverityPasses(rule) == Severity(rule) >= MinSeverity

CountAlert(rule) == metrics' = [metrics EXCEPT !.alerts[rule] = @ + 1]

(* inc_alerts_fired, the forwarding to Splunk and to Elasticsearch, and    *)
(* notify.  The forwarders and send_email_alert swallow every error.       *)
Notify(t) ==
    LET rule == Rules[job[t].rule] IN
    /\ At(t, "notify")
    /\ CountAlert(rule)
    /\ notices' = IF SeverityPasses(rule) THEN [notices EXCEPT ![Host(t)] = @ + 1] ELSE notices
    /\ NextAlert(t, job[t].rule + 1)
    /\ UNCHANGED <<events, baselines, alerts, risk, now, received, failed, acks, purged>>

(* Mutant, part of no specification: alerts are counted when all is done.  *)
SlackRaisesUncounted(t) ==
    /\ MayFail /\ At(t, "notify") /\ SeverityPasses(Rules[job[t].rule])
    /\ notices' = [notices EXCEPT ![Host(t)] = @ + 1]
    /\ failed' = failed \cup {Host(t)}
    /\ Goto(t, "idle")
    /\ UNCHANGED <<events, baselines, alerts, risk, metrics, now, received, acks, purged>>

(* But send_slack_alert catches URLErrors only: on any other (no answer in *)
(* time, a connection closed early, a malformed URL) the rest of the       *)
(* event's alerts and its score are gone.                                  *)
SlackRaises(t) ==
    LET rule == Rules[job[t].rule] IN
    /\ MayFail /\ At(t, "notify") /\ SeverityPasses(rule)
    /\ CountAlert(rule)
    /\ notices' = [notices EXCEPT ![Host(t)] = @ + 1]
    /\ failed' = failed \cup {Host(t)}
    /\ Goto(t, "idle")
    /\ UNCHANGED <<events, baselines, alerts, risk, now, received, acks, purged>>

(* Mutant, part of no specification: the UPDATE replaces the score.        *)
ReplaceRisk(t) ==
    /\ At(t, "score")
    /\ risk' = [risk EXCEPT ![Host(t)] = Delta(Fired(t))]
    /\ Goto(t, "idle")
    /\ UNCHANGED <<events, baselines, alerts, metrics, now, history>>

(* upsert_risk_score adds the weights of all that fired, alerts that were  *)
(* suppressed as duplicates included.                                      *)
UpsertRisk(t) ==
    /\ At(t, "score")
    /\ risk' = [risk EXCEPT ![Host(t)] = @ + Delta(Fired(t))]
    /\ Goto(t, "idle")
    /\ UNCHANGED <<events, baselines, alerts, metrics, now, history>>

(* Any other call of database.py raises: the exception is logged, the rest *)
(* of the event's steps is skipped, and the answer is 200 all the same.    *)
Raises(t) ==
    /\ MayFail
    /\ job[t].pc \in {"insert", "audit", "device", "user", "check", "fire", "score"}
    /\ Goto(t, "idle")
    /\ failed' = failed \cup {Host(t)}
    /\ UNCHANGED <<events, baselines, alerts, risk, metrics, now, received, notices, acks, purged>>

-----------------------------------------------------------------------------
(* ack_alert, by an analyst: the answer is 404 unless a row is updated.    *)
Acknowledge(i) ==
    /\ acks < MaxAcks /\ ~alerts[i].acknowledged
    /\ alerts' = [alerts EXCEPT ![i].acknowledged = TRUE]
    /\ acks' = acks + 1
    /\ UNCHANGED <<events, baselines, risk, metrics, now, job, received, failed, notices, purged>>

(* purge_old_records; audit_chain's part of it is in AuditChain.  The rows *)
(* of a table are in the order of their times, so the deleted ones are its *)
(* first: PurgeIsExact, in EventIngest_proofs.                             *)
Purge(cutoff) ==
    LET oldEvents == {i \in DOMAIN events : events[i].received_at < cutoff}
        oldAlerts == {i \in DOMAIN alerts : alerts[i].created_at < cutoff}
    IN
    /\ cutoff + Retention <= now
    /\ events' = SubSeq(events, Cardinality(oldEvents) + 1, Len(events))
    /\ alerts' = SubSeq(alerts, Cardinality(oldAlerts) + 1, Len(alerts))
    /\ purged' = TRUE
    /\ UNCHANGED <<baselines, risk, metrics, now, job, received, failed, notices, acks>>

Tick ==
    /\ now < MaxTime
    /\ now' = now + 1
    /\ UNCHANGED <<events, baselines, alerts, risk, metrics, job, history>>

Step(t) ==
    \/ Evaluate(t) \/ RuleRaises(t)
    \/ InsertEvent(t) \/ AppendAudit(t)
    \/ UpdateDeviceBaseline(t) \/ UpdateUserBaseline(t)
    \/ UpdateHostTimezone(t) \/ TimezoneRaises(t)
    \/ CheckRecent(t) \/ InsertAlert(t) \/ Notify(t) \/ SlackRaises(t) \/ UpsertRisk(t)
    \/ Raises(t)

Next ==
    \/ \E t \in Threads, e \in Event : Receive(t, e)
    \/ \E t \in Threads : Step(t)
    \/ \E cutoff \in 1..MaxTime : Purge(cutoff)
    \/ \E i \in DOMAIN alerts : Acknowledge(i)
    \/ Tick

Spec == Init /\ [][Next]_vars

-----------------------------------------------------------------------------
(* Properties.                                                             *)

Places == {"evaluate", "insert", "audit", "device", "user", "timezone", "check", "fire",
           "notify", "score"}
Row == [hostname : Hosts, device_id : Devices, received_at : Nat, transfer_bytes : Nat,
        event_type : {"connected", "disconnected", "data_transfer"}]
Alert == [hostname : Hosts, device_id : Devices, rule_name : Range(Rules), created_at : Nat,
          acknowledged : BOOLEAN]

(* Every variable has its type.                                            *)
TypeOK ==
    /\ events \in Seq(Row) /\ alerts \in Seq(Alert)
    /\ audited \in [Hosts -> Nat] /\ seen \in [Hosts \X Devices -> Nat]
    /\ users \subseteq {<<e.user, e.hostname, e.device_id>> : e \in Event}
    /\ offset \in [Hosts -> Int] /\ risk \in [Hosts -> Nat]
    /\ now \in 0..MaxTime /\ received \in 0..MaxEvents
    /\ job \in [Threads -> {Idle} \cup
            [pc : Places, event : Event, rule : DOMAIN Rules, fired : SUBSET Range(Rules)]]
    /\ metrics \in [events : Nat, fires : [Range(Rules) -> Nat], alerts : [Range(Rules) -> Nat]]
    /\ failed \subseteq Hosts /\ notices \in [Hosts -> Nat] /\ acks \in 0..MaxAcks
    /\ purged \in BOOLEAN

(* The alerts of one host, device and rule within one window, from i on.   *)
Duplicates(i) ==
    {j \in DOMAIN alerts :
        /\ Same(alerts[j], alerts[i].hostname, alerts[i].device_id, alerts[i].rule_name)
        /\ alerts[j].created_at \in alerts[i].created_at..alerts[i].created_at + DedupWindow}

(* The check and the insert of an alert are apart, so concurrent requests  *)
(* may each store it; but no request thread stores it twice in a window.   *)
DuplicatesBounded == \A i \in DOMAIN alerts : Cardinality(Duplicates(i)) <= Cardinality(Threads)

(* An alert is stored at most once in a window, acknowledged or not.       *)
NoDuplicates == \A i \in DOMAIN alerts : Cardinality(Duplicates(i)) = 1

Alerts(h, d, r) == {i \in DOMAIN alerts : Same(alerts[i], h, d, r)}

(* Is an event of the device on the host between its first and last step?  *)
Busy(h, d) == \E t \in Threads : job[t] # Idle /\ Host(t) = h /\ Device(t) = d

(* A device whose first event on a host is a connection has its            *)
(* unknown_device alert, when the event's handling is over and has met no  *)
(* exception: concurrent requests about it do not make each other believe  *)
(* that it is known.                                                       *)
FirstConnectAlerted ==
    ~purged =>
        \A i \in DOMAIN events :
            LET h == events[i].hostname
                d == events[i].device_id
            IN  /\ events[i].event_type = "connected"
                /\ \A j \in 1..i - 1 : events[j].hostname # h \/ events[j].device_id # d
                /\ h \notin failed /\ ~Busy(h, d)
                => Alerts(h, d, "unknown_device") # {}

(* However long the server runs, a device is reported as unknown on a host *)
(* at most once by each request thread: only those that looked before the  *)
(* first row was stored can have.                                          *)
UnknownOnce ==
    ~purged =>
        \A h \in Hosts, d \in Devices :
            Cardinality(Alerts(h, d, "unknown_device")) <= Cardinality(Threads)

AtRest == \A t \in Threads : job[t] = Idle

(* At rest, and without exceptions, each event that was received is one    *)
(* row, one audit record and one sighting of its device, and the scores    *)
(* add up to the weights of all that has fired, duplicates included:       *)
(* concurrent requests lose none of each other's additions.                *)
TablesAgree ==
    ~purged /\ AtRest =>
        /\ \A h \in Hosts \ failed :
            LET ofHost == {i \in DOMAIN events : events[i].hostname = h} IN
            /\ audited[h] = Cardinality(ofHost)
            /\ \A d \in Devices :
                seen[<<h, d>>] = Cardinality({i \in ofHost : events[i].device_id = d})
        /\ failed = {} =>
            SumOver(risk, Hosts)
                = SumOver([r \in Range(Rules) |-> Weight(r) * metrics.fires[r]], Range(Rules))

(* At rest, whatever has raised, the counters of /metrics tell what is in  *)
(* the tables, and the channels have been tried: each event and each alert *)
(* that was stored is counted once, no more alerts than rules have fired,  *)
(* and each alert of the configured severity was sent on once.             *)
MetricsAgree ==
    AtRest /\ ~purged =>
        /\ metrics.events = Len(events)
        /\ \A r \in Range(Rules) :
            /\ metrics.alerts[r] = Cardinality({i \in DOMAIN alerts : alerts[i].rule_name = r})
            /\ metrics.alerts[r] <= metrics.fires[r]
        /\ \A h \in Hosts :
            notices[h] = Cardinality({i \in DOMAIN alerts :
                alerts[i].hostname = h /\ SeverityPasses(alerts[i].rule_name)})

(* When a stored event brings the bytes of its host in the last hour to    *)
(* the threshold, a high_volume_transfer alert was stored for its device   *)
(* within the dedup window before it, or since.                            *)
VolumeAlerted ==
    ~purged =>
        \A i \in DOMAIN events :
            LET e == events[i]
                hour == {j \in 1..i : events[j].hostname = e.hostname
                                      /\ events[j].received_at >= e.received_at - Hour}
            IN  /\ e.hostname \notin failed /\ ~Busy(e.hostname, e.device_id)
                /\ e.transfer_bytes # 0 /\ Bytes(events, hour) >= VolumeThreshold
                => \E a \in Alerts(e.hostname, e.device_id, "high_volume_transfer") :
                        alerts[a].created_at >= e.received_at - DedupWindow

=============================================================================
