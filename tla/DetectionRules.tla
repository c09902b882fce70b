--------------------------- MODULE DetectionRules ---------------------------
(***************************************************************************)
(* The eight rules of server/detection/rules.py as predicates over what    *)
(* they read, and the weights of server/scoring/risk_scoring.py.  A rule   *)
(* whose database read raises does not fire.  Time is in ticks, the hour   *)
(* of an event in hours UTC; descriptions are left out.                    *)
(***************************************************************************)
EXTENDS Sums, Sequences, FiniteSets

CONSTANTS
    AfterHoursStart, AfterHoursEnd,   \* hours of the day
    VolumeThreshold,                  \* volume_threshold_bytes
    Hour,                             \* the 3600 s window, in ticks
    RapidCount, RapidWindow,          \* rapid_cycle_count, rapid_cycle_window_secs
    Malicious,                        \* devices in the threat feed
    Honeypots                         \* devices in ITDN_HONEYPOT_VIDS

ASSUME RulesAssumption ==
    /\ AfterHoursStart \in 0..23 /\ AfterHoursEnd \in 0..23
    /\ VolumeThreshold \in Nat \ {0}
    /\ RapidCount \in Nat \ {0} /\ RapidWindow \in Nat \ {0}
    /\ Hour \in Nat \ {0}

(* _RULES, in the order in which evaluate runs them.                       *)
Rules == <<"after_hours_device", "unknown_device", "high_volume_transfer", "rapid_cycle",
           "cross_agent_device", "honeypot_device", "known_malicious_device",
           "user_unknown_device">>

(* Mutants, part of no specification: a row just as old as the cutoff is   *)
(* left out; the host is not compared; only disconnections make known.     *)
RecentStrictly(events, host, window, now) ==
    {i \in DOMAIN events :
        events[i].hostname = host /\ events[i].received_at > now - window}
NewOnAnyHost(events, host, device) == ~\E i \in DOMAIN events : events[i].device_id = device
NeverPulledOut(events, host, device) ==
    ~\E i \in DOMAIN events :
        /\ events[i].hostname = host /\ events[i].device_id = device
        /\ events[i].event_type = "disconnected"

(* get_recent_events(host, window): the host's rows not older than the cutoff. *)
Recent(events, host, window, now) ==
    {i \in DOMAIN events :
        events[i].hostname = host /\ events[i].received_at >= now - window}

(* get_recent_events_by_device: the same of a device, on any host.         *)
RecentOfDevice(events, device, window, now) ==
    {i \in DOMAIN events :
        events[i].device_id = device /\ events[i].received_at >= now - window}

DeviceIsNew(events, host, device) ==
    ~\E i \in DOMAIN events : events[i].hostname = host /\ events[i].device_id = device

UserDeviceIsNew(users, user, host, device) == <<user, host, device>> \notin users

Bytes(events, I) == SumOver([i \in I |-> events[i].transfer_bytes], I)

Cycles(events, I) == {i \in I : events[i].event_type \in {"connected", "disconnected"}}

(* The hour is shifted by the host's offset, 0 while that is unknown.      *)
AfterHours(e, offset) ==
    LET hour == (e.hour + offset) % 24 IN AfterHoursStart <= hour \/ hour < AfterHoursEnd

HighVolume(e, events, now) ==
    /\ e.transfer_bytes # 0
    /\ Bytes(events, Recent(events, e.hostname, Hour, now)) + e.transfer_bytes
        >= VolumeThreshold

(* The event at hand counts whatever its type.                             *)
RapidCycle(e, events, now) ==
    Cardinality(Cycles(events, Recent(events, e.hostname, RapidWindow, now))) + 1 >= RapidCount

CrossAgent(e, events, now) ==
    \E i \in RecentOfDevice(events, e.device_id, Hour, now) : events[i].hostname # e.hostname

(* Does the rule fire on e, with these rows of events, this offset of the  *)
(* host and these <<user, host, device>> of user_baseline?                 *)
Fires(rule, e, events, offset, users, now) ==
    LET connected == e.event_type = "connected" IN
    CASE rule = "after_hours_device" -> connected /\ AfterHours(e, offset)
      [] rule = "unknown_device" ->
            connected /\ DeviceIsNew(events, e.hostname, e.device_id)
      [] rule = "high_volume_transfer" -> HighVolume(e, events, now)
      [] rule = "rapid_cycle" -> RapidCycle(e, events, now)
      [] rule = "cross_agent_device" -> CrossAgent(e, events, now)
      [] rule = "honeypot_device" -> e.device_id \in Honeypots
      [] rule = "known_malicious_device" -> connected /\ e.device_id \in Malicious
      [] rule = "user_unknown_device" ->
            connected /\ e.user # "" /\ UserDeviceIsNew(users, e.user, e.hostname, e.device_id)

(* RULE_WEIGHTS, 10 for a rule that is not listed.                         *)
Weight(rule) ==
    CASE rule = "unknown_device" -> 40
      [] rule = "after_hours_device" -> 20
      [] rule = "high_volume_transfer" -> 50
      [] rule = "rapid_cycle" -> 30
      [] rule = "honeypot_device" -> 100
      [] OTHER -> 10

Delta(fired) == SumOver([r \in fired |-> Weight(r)], fired)

(* The severities of the alerts, as places in _SEVERITY_ORDER.             *)
Severity(rule) ==
    CASE rule = "unknown_device" -> 1
      [] rule \in {"after_hours_device", "rapid_cycle", "user_unknown_device"} -> 2
      [] OTHER -> 3

=============================================================================
