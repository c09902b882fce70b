--------------------------- MODULE DeviceMonitor ----------------------------
(***************************************************************************)
(* A monitor thread of the agent (agent/monitor/): the sequence in which   *)
(* devices really come and go against the events that it reports.  Which   *)
(* loop it runs depends on the platform and the libraries there:           *)
(* snapshots that are compared ("poll"), one notification for each change  *)
(* ("udev", "etw"), or a notification upon which it enumerates ("wmi").    *)
(*                                                                         *)
(* A device is known by its key, a sysfs path, a PnP id or a Bluetooth     *)
(* address; another device under the same key is not told apart.  view is  *)
(* what a reader of the reports takes to be connected, who knew what was   *)
(* there when the monitor began.  EBPFUSBMonitor, which nothing starts, is *)
(* left out.                                                               *)
(***************************************************************************)
EXTENDS Integers, Sequences, FiniteSets

CONSTANTS
    Keys,         \* devices that come and go
    Hosts,        \* where the monitor may run: kind, platform and libraries
    MaxChanges,   \* bound of the model: devices plugged in or pulled out
    MaxFaults     \* bound of the model: failed enumerations and callbacks

ASSUME MonitorAssumption ==
    /\ IsFiniteSet(Keys)
    /\ MaxChanges \in Nat /\ MaxFaults \in Nat

VARIABLES
    host,      \* where this monitor runs
    present,   \* the devices that are connected
    pending,   \* notifications of the operating system not handled yet
    pc,        \* the monitor's thread
    main,      \* the thread that calls start() and stop()
    previous,  \* the snapshot that the next one is compared with
    current,   \* the snapshot that is being compared
    reported,  \* the devices reported in this round
    view,      \* history: what the reports say is connected
    changes,   \* history: times each device came or went
    reports,   \* history: events reported of each device
    tail,      \* history: those of them reported after stop() began
    faults     \* faults so far

history == <<view, changes, reports, tail>>
vars == <<host, present, pending, pc, main, previous, current, reported, history, faults>>

-----------------------------------------------------------------------------
(* _select_backend, and the fallbacks of the loops it chooses.             *)

Windows(h) ==
    IF "etw" \in h.libraries THEN "etw"
    ELSE IF {"pythoncom", "wmi"} \subseteq h.libraries THEN "wmi"
    ELSE "poll"

Backend(h) ==
    CASE h.kind = "bluetooth" -> "poll"
      [] h.kind = "usb" /\ h.platform = "Linux" ->
            IF "pyudev" \in h.libraries THEN "udev" ELSE "poll"
      [] h.kind = "usb" /\ h.platform = "Windows" -> Windows(h)
      [] OTHER -> "poll"

Polls == Backend(host) = "poll"
Notified == Backend(host) \in {"udev", "etw"}

(* _snapshot_devices: on Windows only through wmi, elsewhere not at all.   *)
Blind == \/ host.platform = "Windows" /\ "wmi" \notin host.libraries
         \/ host.platform \notin {"Linux", "Windows"}

Enumerated == IF Blind THEN {} ELSE present

(* What an enumeration that fails half way leaves: some of the devices for *)
(* USB, and nothing when bluetoothctl is missing, fails or times out.      *)
PartialUsb == SUBSET present
PartialBluetooth == {{}}

(* The snapshots that may be taken now, as f more faults.                  *)
Snapshots(f) ==
    CASE f = 0 -> {Enumerated}
      [] f = 1 /\ (Blind \/ faults = MaxFaults) -> {}
      [] OTHER -> IF host.kind = "usb" THEN PartialUsb ELSE PartialBluetooth

-----------------------------------------------------------------------------
Init ==
    /\ host \in Hosts
    /\ present \in SUBSET Keys
    /\ pending = <<>>
    /\ pc = "off" /\ main = "up"
    /\ previous = {} /\ current = {} /\ reported = {} /\ view = {}
    /\ changes = [k \in Keys |-> 0] /\ reports = [k \in Keys |-> 0]
    /\ tail = [k \in Keys |-> 0]
    /\ faults = 0

(* A device comes or goes; once the monitor listens, the system tells it.  *)
Change(k) ==
    /\ changes[k] < MaxChanges
    /\ changes' = [changes EXCEPT ![k] = @ + 1]
    /\ present' = IF k \in present THEN present \ {k} ELSE present \cup {k}
    /\ pending' = IF pc \in {"listen", "handle"}
                  THEN Append(pending, [key |-> k, connected |-> k \notin present])
                  ELSE pending
    /\ UNCHANGED <<host, pc, main, previous, current, reported, view, reports, tail, faults>>

(* The callback is called for each of the devices in D.                    *)
Report(D, connected) ==
    /\ view' = IF connected THEN view \cup D ELSE view \ D
    /\ reports' = [k \in Keys |-> IF k \in D THEN reports[k] + 1 ELSE reports[k]]
    /\ tail' = [k \in Keys |-> IF k \in D /\ main # "up" THEN tail[k] + 1 ELSE tail[k]]
    /\ UNCHANGED changes

Fault == faults < MaxFaults /\ faults' = faults + 1

-----------------------------------------------------------------------------
(* USBMonitor and BTMonitor, start() and stop().                           *)

Start ==
    /\ main = "up" /\ pc = "off"
    /\ pc' = "start"
    /\ UNCHANGED <<host, present, pending, main, previous, current, reported, history, faults>>

Stop ==
    /\ main = "up" /\ pc # "off"
    /\ main' = "join"
    /\ UNCHANGED <<host, present, pending, pc, previous, current, reported, history, faults>>

(* join(timeout=5) returns when the thread has ended, or without it.       *)
JoinReturns ==
    /\ main = "join"
    /\ main' = "down"
    /\ UNCHANGED <<host, present, pending, pc, previous, current, reported, history, faults>>

Stopping == main # "up"

-----------------------------------------------------------------------------
(* The polling loop.                                                       *)

(* What is there at first is taken as known.                               *)
Baseline ==
    /\ pc = "start" /\ Polls
    /\ \E f \in 0..1 : \E s \in Snapshots(f) :
        /\ previous' = s /\ view' = s
        /\ faults' = faults + f
    /\ pc' = "check"
    /\ UNCHANGED <<host, present, pending, main, current, reported, changes, reports, tail>>

(* Mutant, part of no specification: the loop ends with its process only.  *)
NeverStops ==
    /\ pc = "check"
    /\ pc' = "sleep"
    /\ UNCHANGED <<host, present, pending, main, previous, current, reported, history, faults>>

CheckStop ==
    /\ pc = "check"
    /\ pc' = IF Stopping THEN "ended" ELSE "sleep"
    /\ UNCHANGED <<host, present, pending, main, previous, current, reported, history, faults>>

Poll ==
    /\ pc = "sleep"
    /\ \E f \in 0..1 : \E s \in Snapshots(f) :
        /\ current' = s
        /\ faults' = faults + f
    /\ pc' = "new"
    /\ UNCHANGED <<host, present, pending, main, previous, reported, history>>

(* The devices still to be reported in this round: first those that came,  *)
(* then those that went.                                                   *)
New == (current \ previous) \ reported
Lost == (previous \ current) \ reported

ReportNew(k) ==
    /\ pc = "new" /\ k \in New
    /\ Report({k}, TRUE) /\ reported' = reported \cup {k}
    /\ UNCHANGED <<host, present, pending, pc, main, previous, current, faults>>

ReportLost(k) ==
    /\ pc = "new" /\ New = {} /\ k \in Lost
    /\ Report({k}, FALSE) /\ reported' = reported \cup {k}
    /\ UNCHANGED <<host, present, pending, pc, main, previous, current, faults>>

(* Mutants, part of no specification: what was known is kept; it is what   *)
(* is there at the end of the round.                                       *)
KeepBaseline ==
    /\ pc = "new" /\ New = {} /\ Lost = {}
    /\ pc' = "check" /\ previous' = previous \cup current /\ reported' = {}
    /\ UNCHANGED <<host, present, pending, main, current, history, faults>>
LookAgain ==
    /\ pc = "new" /\ New = {} /\ Lost = {}
    /\ pc' = "check" /\ previous' = present /\ reported' = {}
    /\ UNCHANGED <<host, present, pending, main, current, history, faults>>

EndRound ==
    /\ pc = "new" /\ New = {} /\ Lost = {}
    /\ pc' = "check" /\ previous' = current /\ reported' = {}
    /\ UNCHANGED <<host, present, pending, main, current, history, faults>>

(* The callback raises (the retry queue cannot be written, or is closed):  *)
(* nothing catches it, and the thread is gone.                             *)
ReportRaises ==
    /\ pc = "new" /\ New \cup Lost # {}
    /\ Fault
    /\ pc' = "ended"
    /\ UNCHANGED <<host, present, pending, main, previous, current, reported, history>>

-----------------------------------------------------------------------------
(* The loops that are notified.  What is there at first is not looked for. *)

Listen ==
    /\ pc = "start" /\ ~Polls
    /\ pc' = "listen" /\ view' = present
    /\ UNCHANGED <<host, present, pending, main, previous, current, reported, changes, reports,
                   tail, faults>>

(* A notification is taken up.  udev and WMI look at the stop event before *)
(* they handle it, ETW's consumer does not.                                *)
TakeUp ==
    /\ pc = "listen" /\ pending # <<>>
    /\ Backend(host) # "etw" => ~Stopping
    /\ pc' = "handle"
    /\ UNCHANGED <<host, present, pending, main, previous, current, reported, history, faults>>

(* udev and ETW: one report for one notification.                          *)
Handle ==
    /\ pc = "handle" /\ Notified
    /\ Report({Head(pending).key}, Head(pending).connected)
    /\ pending' = Tail(pending)
    /\ pc' = "listen"
    /\ UNCHANGED <<host, present, main, previous, current, reported, faults>>

(* The callback raises: the handler swallows it, and the event is lost.    *)
HandleRaises ==
    /\ pc = "handle" /\ Notified
    /\ Fault
    /\ pending' = Tail(pending)
    /\ pc' = "listen"
    /\ UNCHANGED <<host, present, main, previous, current, reported, history>>

(* WMI, with a watcher for arrivals and one for removals: for each         *)
(* notification a report of every device that is there now, as "connected" *)
(* on an arrival, as "disconnected" on a removal.  When a callback raises, *)
(* the devices after it are left out.                                      *)
Enumerate ==
    /\ pc = "handle" /\ Backend(host) = "wmi"
    /\ \E i \in DOMAIN pending, f \in 0..1 :
        /\ \A j \in 1..i - 1 : pending[j].connected # pending[i].connected
        /\ \E D \in IF f = 0 THEN {present} ELSE SUBSET present : Report(D, pending[i].connected)
        /\ faults' = faults + f /\ faults' <= MaxFaults
        /\ pending' = SubSeq(pending, 1, i - 1) \o SubSeq(pending, i + 1, Len(pending))
    /\ pc' = "listen"
    /\ UNCHANGED <<host, present, main, previous, current, reported>>

(* The stop event is seen.                                                 *)
ListenEnds ==
    /\ pc = "listen" /\ Stopping
    /\ Backend(host) = "udev" => pending # <<>>
    /\ pc' = "ended"
    /\ UNCHANGED <<host, present, pending, main, previous, current, reported, history, faults>>

-----------------------------------------------------------------------------
PollStep ==
    \/ Baseline \/ CheckStop \/ Poll
    \/ \E k \in Keys : ReportNew(k) \/ ReportLost(k)
    \/ EndRound \/ ReportRaises
ListenStep == Listen \/ TakeUp \/ Handle \/ HandleRaises \/ Enumerate \/ ListenEnds

Next ==
    \/ Start \/ Stop \/ JoinReturns
    \/ PollStep \/ ListenStep
    \/ \E k \in Keys : Change(k)

(* The monitor's thread runs.                                              *)
Spec == Init /\ [][Next]_vars /\ WF_vars(PollStep) /\ WF_vars(ListenStep)

-----------------------------------------------------------------------------
(* Properties.                                                             *)

(* Every variable has its type.                                            *)
TypeOK ==
    /\ host \in Hosts
    /\ present \subseteq Keys /\ previous \subseteq Keys /\ current \subseteq Keys
    /\ reported \subseteq Keys /\ view \subseteq Keys
    /\ pending \in Seq([key : Keys, connected : BOOLEAN])
    /\ pc \in {"off", "start", "check", "sleep", "new", "listen", "handle", "ended"}
    /\ main \in {"up", "join", "down"}
    /\ changes \in [Keys -> 0..MaxChanges]
    /\ reports \in [Keys -> Nat] /\ tail \in [Keys -> Nat]
    /\ faults \in 0..MaxFaults

(* But for WMI, a monitor may miss events and never invents one: it        *)
(* reports no more of a device than it really came and went, and two for   *)
(* each enumeration that failed.                                           *)
NothingInvented ==
    Backend(host) # "wmi" => \A k \in Keys : reports[k] <= changes[k] + 2 * faults

(* A polling monitor's events of a device alternate between "connected"    *)
(* and "disconnected", whatever its snapshots leave out.                   *)
PollAlternates ==
    [][Polls => \A k \in Keys :
        reports'[k] # reports[k] => (k \in view') # (k \in view)]_vars

(* Once stop() has begun, a device is reported once more at most, in the   *)
(* round that is under way; ETW's consumer goes on until it is stopped.    *)
StopsReporting == Backend(host) # "etw" => \A k \in Keys : tail[k] <= 1

(* When devices no longer come and go, a monitor that is left running and  *)
(* whose host can be enumerated ends up having reported just what is       *)
(* there: a polling one even after failed snapshots, udev and ETW if no    *)
(* callback has raised.                                                    *)
CatchesUp ==
    <>[](main = "up" /\ pc \notin {"off", "ended"})
        => <>[](Blind \/ Backend(host) = "wmi" \/ (Notified /\ faults > 0) \/ view = present)

=============================================================================
