------------------------ MODULE DeviceMonitor_proofs ------------------------
(***************************************************************************)
(* Proofs about DeviceMonitor, for any devices, hosts and bounds: its      *)
(* types, that polling reports alternate, that reports end with stop(),    *)
(* and that none is invented.                                              *)
(***************************************************************************)
EXTENDS DeviceMonitor, DataLemmas, FiniteSetTheorems

-----------------------------------------------------------------------------
(* The invariant.                                                          *)

Notification == [key : Keys, connected : BOOLEAN]

(* Each loop has its places, and handles nothing that is not there.        *)
Places ==
    /\ Polls => pc \notin {"listen", "handle"}
    /\ ~Polls => pc \notin {"check", "sleep", "new"}
    /\ pc = "handle" => pending # <<>>

(* What a reader of a polling monitor's reports knows: the last snapshot,  *)
(* and within a round so much of the next one as was reported.             *)
ViewFollows ==
    Polls =>
        /\ pc \notin {"new", "ended"} => reported = {}
        /\ pc \in {"check", "sleep"} => view = previous
        /\ pc = "new" =>
              \A k \in Keys :
                  k \in view <=> IF k \in reported THEN k \in current ELSE k \in previous

(* A report after stop() began was made in a round, or for a notification, *)
(* that is the last one.                                                   *)
LastReports ==
    Backend(host) # "etw" =>
        \A k \in Keys :
            /\ main = "up" => tail[k] = 0
            /\ tail[k] # 0 =>
                  /\ tail[k] = 1
                  /\ \/ pc \in {"check", "listen", "ended"}
                     \/ pc = "new" /\ k \in reported

IInv == TypeOK /\ Places /\ ViewFollows /\ LastReports

-----------------------------------------------------------------------------
LEMMA BackendNames == Backend(host) \in {"poll", "udev", "etw", "wmi"}
BY DEF Backend, Windows

LEMMA SnapshotsAreDevices ==
    ASSUME TypeOK, NEW f \in 0..1, NEW s \in Snapshots(f)
    PROVE  s \subseteq Keys /\ faults + f \in 0..MaxFaults
<1>1. present \subseteq Keys /\ faults \in 0..MaxFaults
  BY DEF TypeOK
<1>2. CASE f = 0
  BY <1>1, <1>2, MonitorAssumption DEF Snapshots, Enumerated
<1>3. CASE f = 1
  <2>1. faults # MaxFaults
    BY <1>3 DEF Snapshots
  <2>2. s \subseteq present
    BY <1>3 DEF Snapshots, PartialUsb, PartialBluetooth
  <2> QED
    BY <1>1, <1>3, <2>1, <2>2, MonitorAssumption
<1> QED
  BY <1>2, <1>3

LEMMA ReportTyped ==
    ASSUME TypeOK, NEW D \in SUBSET Keys, NEW connected \in BOOLEAN, Report(D, connected)
    PROVE  /\ view' \subseteq Keys
           /\ reports' \in [Keys -> Nat] /\ tail' \in [Keys -> Nat] /\ changes' = changes
           /\ \A k \in Keys :
                 tail'[k] = IF k \in D /\ main # "up" THEN tail[k] + 1 ELSE tail[k]
BY DEF Report, TypeOK

LEMMA InitInv == Init => IInv
<1> SUFFICES ASSUME Init PROVE IInv
  OBVIOUS
<1>1. <<>> \in Seq(Notification)
  BY EmptySeq
<1> USE MonitorAssumption DEF Init
<1>2. TypeOK
  BY <1>1 DEF TypeOK, Notification
<1> QED
  BY <1>2 DEF IInv, Places, ViewFollows, LastReports

(* The steps that leave the reports alone.                                 *)
LEMMA QuietKeeps ==
    ASSUME IInv, Start \/ Stop \/ JoinReturns \/ CheckStop \/ Poll \/ EndRound \/ ReportRaises
                 \/ Baseline \/ Listen \/ TakeUp \/ ListenEnds
    PROVE  IInv'
<1> USE DEF IInv
<1>0. UNCHANGED host => UNCHANGED <<Polls, Backend(host)>>
  BY DEF Polls, Backend, Windows
<1>1. CASE Start
  BY <1>0, <1>1 DEF Start, history, TypeOK, Places, ViewFollows, LastReports
<1>2. CASE Stop
  BY <1>0, <1>2 DEF Stop, history, TypeOK, Places, ViewFollows, LastReports
<1>3. CASE JoinReturns
  BY <1>0, <1>3 DEF JoinReturns, history, TypeOK, Places, ViewFollows, LastReports
<1>4. CASE CheckStop
  BY <1>0, <1>4 DEF CheckStop, Stopping, history, TypeOK, Places, ViewFollows, LastReports
<1>5. CASE Poll
  <2>1. PICK f \in 0..1 : \E s \in Snapshots(f) : current' = s /\ faults' = faults + f
    BY <1>5 DEF Poll
  <2>2. current' \subseteq Keys /\ faults' \in 0..MaxFaults
    BY <2>1, SnapshotsAreDevices
  <2> QED
    BY <1>0, <1>5, <2>2 DEF Poll, history, TypeOK, Places, ViewFollows, LastReports
<1>6. CASE EndRound
  <2>1. \A k \in Keys : k \in view <=> k \in current
    BY <1>6 DEF EndRound, New, Lost, Places, ViewFollows
  <2>2. view = current
    BY <2>1 DEF TypeOK
  <2> QED
    BY <1>0, <1>6, <2>2 DEF EndRound, history, TypeOK, Places, ViewFollows, LastReports
<1>7. CASE ReportRaises
  BY <1>0, <1>7, MonitorAssumption
     DEF ReportRaises, Fault, history, TypeOK, Places, ViewFollows, LastReports
<1>8. CASE Baseline
  <2>1. PICK f \in 0..1 : \E s \in Snapshots(f) :
                previous' = s /\ view' = s /\ faults' = faults + f
    BY <1>8 DEF Baseline
  <2>2. previous' \subseteq Keys /\ view' = previous' /\ faults' \in 0..MaxFaults
    BY <2>1, SnapshotsAreDevices
  <2> QED
    BY <1>0, <1>8, <2>2 DEF Baseline, TypeOK, Places, ViewFollows, LastReports
<1>9. CASE Listen
  BY <1>0, <1>9 DEF Listen, TypeOK, Places, ViewFollows, LastReports
<1>10. CASE TakeUp
  BY <1>0, <1>10 DEF TakeUp, Stopping, history, TypeOK, Places, ViewFollows, LastReports
<1>11. CASE ListenEnds
  BY <1>0, <1>11 DEF ListenEnds, Stopping, history, TypeOK, Places, ViewFollows, LastReports
<1> QED
  BY <1>1, <1>2, <1>3, <1>4, <1>5, <1>6, <1>7, <1>8, <1>9, <1>10, <1>11

LEMMA ChangeKeeps ==
    ASSUME IInv, NEW k \in Keys, Change(k)
    PROVE  IInv'
<1> USE DEF IInv
<1>1. UNCHANGED host => UNCHANGED <<Polls, Backend(host)>>
  BY DEF Polls, Backend, Windows
<1>2. /\ changes[k] < MaxChanges /\ changes' = [changes EXCEPT ![k] = @ + 1]
      /\ UNCHANGED <<host, pc, main, previous, current, reported, view, reports, tail, faults>>
  BY DEF Change
<1>3. present' \subseteq Keys
  BY DEF Change, TypeOK
<1>4. changes' \in [Keys -> 0..MaxChanges]
  BY <1>2, MonitorAssumption DEF TypeOK
<1>5. pending \in Seq(Notification)
  BY DEF TypeOK, Notification
<1> DEFINE n == [key |-> k, connected |-> k \notin present]
<1>6. n \in Notification
  BY DEF Notification
<1>7. pending' = IF pc \in {"listen", "handle"} THEN Append(pending, n) ELSE pending
  BY DEF Change
<1> HIDE DEF n
<1>8. Append(pending, n) \in Seq(Notification) /\ Append(pending, n) # <<>>
  BY <1>5, <1>6, AppendProperties, LenProperties, EmptySeq
<1>9. pending' \in Seq(Notification)
  BY <1>5, <1>7, <1>8
<1>10. TypeOK'
  BY <1>2, <1>3, <1>4, <1>9 DEF TypeOK, Notification
<1>11. Places'
  BY <1>1, <1>2, <1>7, <1>8 DEF Places
<1>12. ViewFollows' /\ LastReports'
  BY <1>1, <1>2 DEF ViewFollows, LastReports
<1> QED
  BY <1>10, <1>11, <1>12

(* A report of a round.                                                    *)
LEMMA ReportKeeps ==
    ASSUME IInv, NEW k \in Keys, ReportNew(k) \/ ReportLost(k)
    PROVE  /\ IInv'
           /\ (k \in view') # (k \in view)
           /\ \A j \in Keys : reports'[j] # reports[j] => j = k
<1> USE DEF IInv
<1>1. UNCHANGED host => UNCHANGED <<Polls, Backend(host)>>
  BY DEF Polls, Backend, Windows
<1>2. PICK connected \in BOOLEAN : /\ Report({k}, connected)
                                   /\ connected => k \in New
                                   /\ ~connected => k \in Lost
  BY DEF ReportNew, ReportLost
<1>3. /\ pc = "new" /\ reported' = reported \cup {k} /\ k \notin reported
      /\ UNCHANGED <<host, present, pending, pc, main, previous, current, faults>>
  BY DEF ReportNew, ReportLost, New, Lost
<1>4. Polls /\ (k \in view <=> k \in previous)
  BY <1>3 DEF Places, ViewFollows
<1>5. /\ view' = IF connected THEN view \cup {k} ELSE view \ {k}
      /\ \A j \in Keys : reports'[j] # reports[j] => j = k
  BY <1>2 DEF Report
<1>6. /\ view' \subseteq Keys
      /\ reports' \in [Keys -> Nat] /\ tail' \in [Keys -> Nat] /\ changes' = changes
      /\ \A j \in Keys : tail'[j] = IF j = k /\ main # "up" THEN tail[j] + 1 ELSE tail[j]
  <2> DEFINE D == {k}
  <2>1. D \in SUBSET Keys /\ \A j \in Keys : j \in D <=> j = k
    OBVIOUS
  <2>2. Report(D, connected)
    BY <1>2
  <2> HIDE DEF D
  <2>3. /\ view' \subseteq Keys
        /\ reports' \in [Keys -> Nat] /\ tail' \in [Keys -> Nat] /\ changes' = changes
        /\ \A j \in Keys : tail'[j] = IF j \in D /\ main # "up" THEN tail[j] + 1 ELSE tail[j]
    BY <2>1, <2>2, ReportTyped
  <2> QED
    BY <2>1, <2>3
<1>7. TypeOK'
  BY <1>3, <1>6 DEF TypeOK
<1>8. Places'
  BY <1>1, <1>3 DEF Places
<1>9. (k \in current <=> connected) /\ (k \in previous <=> ~connected)
  BY <1>2, <1>3 DEF New, Lost
<1>10. ViewFollows'
  BY <1>1, <1>3, <1>4, <1>5, <1>9 DEF ViewFollows
<1>11. tail[k] = 0
  BY <1>3, <1>4 DEF LastReports, Polls
<1>12. LastReports'
  BY <1>1, <1>3, <1>6, <1>11 DEF LastReports
<1>13. (k \in view <=> ~connected) /\ (k \in view' <=> connected)
  BY <1>4, <1>5, <1>9
<1>14. (k \in view') # (k \in view)
  BY <1>13
<1> QED
  BY <1>5, <1>7, <1>8, <1>10, <1>12, <1>14

(* A report of a loop that is notified, of whichever devices.              *)
LEMMA HandledKeeps ==
    ASSUME IInv, pc = "handle", pc' = "listen", NEW D \in SUBSET Keys, NEW connected \in BOOLEAN,
           Report(D, connected), pending' \in Seq(Notification), faults' \in 0..MaxFaults,
           UNCHANGED <<host, present, main, previous, current, reported>>
    PROVE  IInv'
<1> USE DEF IInv
<1>1. UNCHANGED <<Polls, Backend(host)>>
  BY DEF Polls, Backend, Windows
<1>2. /\ view' \subseteq Keys
      /\ reports' \in [Keys -> Nat] /\ tail' \in [Keys -> Nat] /\ changes' = changes
      /\ \A j \in Keys : tail'[j] = IF j \in D /\ main # "up" THEN tail[j] + 1 ELSE tail[j]
  BY ReportTyped
<1>3. TypeOK'
  BY <1>2 DEF TypeOK, Notification
<1>4. ~Polls
  BY DEF Places
<1>5. LastReports'
  BY <1>1, <1>2 DEF LastReports
<1> QED
  BY <1>1, <1>3, <1>4, <1>5 DEF Places, ViewFollows

LEMMA HandleKeeps ==
    ASSUME IInv, Handle \/ HandleRaises \/ Enumerate
    PROVE  IInv' /\ ~Polls
<1>1. /\ pending \in Seq(Notification) /\ present \subseteq Keys /\ faults \in 0..MaxFaults
      /\ pc = "handle" /\ pc' = "listen"
  BY DEF IInv, TypeOK, Notification, Handle, HandleRaises, Enumerate
<1>2. pending # <<>> /\ ~Polls
  BY <1>1 DEF IInv, Places
<1>3. Head(pending) \in Notification /\ Tail(pending) \in Seq(Notification)
  BY <1>1, <1>2, HeadTailProperties
<1>4. CASE Handle
  <2>1. Head(pending).key \in Keys /\ Head(pending).connected \in BOOLEAN
    BY <1>3 DEF Notification
  <2> QED
    BY <1>1, <1>2, <1>3, <1>4, <2>1, HandledKeeps DEF Handle
<1>5. CASE HandleRaises
  <2>1. UNCHANGED <<Polls, Backend(host)>>
    BY <1>5 DEF HandleRaises, Polls, Backend, Windows
  <2>2. TypeOK'
    BY <1>1, <1>3, <1>5, MonitorAssumption
       DEF HandleRaises, Fault, IInv, TypeOK, Notification, history
  <2> QED
    BY <1>1, <1>2, <1>5, <2>1, <2>2
       DEF HandleRaises, IInv, Places, ViewFollows, LastReports, history
<1>6. CASE Enumerate
  <2>1. PICK i \in DOMAIN pending, f \in 0..1 :
            /\ \E D \in IF f = 0 THEN {present} ELSE SUBSET present :
                    Report(D, pending[i].connected)
            /\ faults' = faults + f /\ faults' <= MaxFaults
            /\ pending' = SubSeq(pending, 1, i - 1) \o SubSeq(pending, i + 1, Len(pending))
    BY <1>6 DEF Enumerate
  <2>2. PICK D \in SUBSET Keys : Report(D, pending[i].connected)
    BY <2>1, <1>1
  <2>3. Len(pending) \in Nat /\ i \in 1..Len(pending)
    BY <1>1, LenProperties
  <2>4. pending[i].connected \in BOOLEAN
    <3>1. pending[i] \in Notification
      BY <1>1, <2>3, ElementOfSeq
    <3> QED
      BY <3>1 DEF Notification
  <2>5. pending' \in Seq(Notification)
    <3>1. SubSeq(pending, 1, i - 1) \in Seq(Notification)
      <4>1. i - 1 \in 0..Len(pending)
        BY <2>3
      <4> QED
        BY <1>1, <4>1, FrontFacts
    <3>2. SubSeq(pending, i + 1, Len(pending)) \in Seq(Notification)
      <4>1. i \in 0..Len(pending)
        BY <2>3
      <4> QED
        BY <1>1, <4>1, TailFacts
    <3> QED
      BY <2>1, <3>1, <3>2, ConcatProperties
  <2>6. faults' \in 0..MaxFaults
    BY <1>1, <2>1, MonitorAssumption
  <2>7. UNCHANGED <<host, present, main, previous, current, reported>>
    BY <1>6 DEF Enumerate
  <2> QED
    BY <1>1, <1>2, <2>2, <2>4, <2>5, <2>6, <2>7, HandledKeeps
<1> QED
  BY <1>4, <1>5, <1>6

LEMMA NextInv == IInv /\ [Next]_vars => IInv'
<1> SUFFICES ASSUME IInv, [Next]_vars PROVE IInv'
  OBVIOUS
<1>1. ASSUME UNCHANGED vars PROVE IInv'
  BY <1>1 DEF vars, history, IInv, TypeOK, Places, ViewFollows, LastReports, Polls, Backend,
     Windows
<1>2. ASSUME PollStep PROVE IInv'
  BY <1>2, QuietKeeps, ReportKeeps DEF PollStep
<1>3. ASSUME ListenStep PROVE IInv'
  BY <1>3, QuietKeeps, HandleKeeps DEF ListenStep
<1> QED
  BY <1>1, <1>2, <1>3, QuietKeeps, ChangeKeeps DEF Next

-----------------------------------------------------------------------------
(* The invariant, and what follows from it.                                *)

(* The invariant holds in every state of every monitor.                    *)
THEOREM Invariance == Spec => []IInv
<1>1. Init => IInv
  BY InitInv
<1>2. IInv /\ [Next]_vars => IInv'
  BY NextInv
<1> QED
  BY <1>1, <1>2, PTL DEF Spec

(* Every variable keeps its type.                                          *)
THEOREM Typed == Spec => []TypeOK
<1>1. IInv => TypeOK
  BY DEF IInv
<1> QED
  BY <1>1, Invariance, PTL

(* Once stop() has set the event, a device is reported once more at most.  *)
THEOREM ReportsStop == Spec => []StopsReporting
<1>1. ASSUME IInv, Backend(host) # "etw", NEW k \in Keys PROVE tail[k] <= 1
  <2>1. tail[k] = 0 \/ tail[k] = 1
    BY <1>1 DEF IInv, LastReports
  <2> QED
    BY <2>1
<1>2. IInv => StopsReporting
  BY <1>1 DEF StopsReporting
<1> QED
  BY <1>2, Invariance, PTL

(* The reports that a polling loop makes of a device alternate.            *)
THEOREM ReportsAlternate == Spec => PollAlternates
<1> DEFINE Alternate ==
        Polls => \A k \in Keys : reports'[k] # reports[k] => (k \in view') # (k \in view)
<1>1. IInv /\ [Next]_vars => [Alternate]_vars
  <2> SUFFICES ASSUME IInv, Next, Polls, NEW k \in Keys, reports'[k] # reports[k]
               PROVE  (k \in view') # (k \in view)
    OBVIOUS
  <2>1. CASE \E j \in Keys : ReportNew(j) \/ ReportLost(j)
    BY <2>1, ReportKeeps
  <2>2. CASE Handle \/ HandleRaises \/ Enumerate
    BY <2>2, HandleKeeps
  <2>3. UNCHANGED reports
          \/ (\E j \in Keys : ReportNew(j) \/ ReportLost(j))
          \/ Handle \/ HandleRaises \/ Enumerate
    BY DEF Next, PollStep, ListenStep, history, Start, Stop, JoinReturns, CheckStop, Poll,
       EndRound, ReportRaises, Baseline, Listen, TakeUp, ListenEnds, Change
  <2> QED
    BY <2>1, <2>2, <2>3
<1> QED
  BY <1>1, Invariance, PTL DEF Spec, PollAlternates

-----------------------------------------------------------------------------
(* Nothing is invented: the counts of changes and of reports.              *)

(* Is the device in just one of the two sets?                              *)
Off(k, A, B) == IF k \in A <=> k \in B THEN 0 ELSE 1

(* A report of a polling loop is owed to a change, or to a snapshot that   *)
(* failed: those made, the one that this round has yet to make and the one *)
(* that the next good snapshot will make are no more than these allow.     *)
PollCounted ==
    Polls => \A k \in Keys :
        /\ pc \in {"off", "start"} => reports[k] = 0
        /\ pc \in {"check", "sleep"} =>
              reports[k] + Off(k, previous, Enumerated) <= changes[k] + 2 * faults
        /\ pc = "new" =>
              reports[k] + (IF k \in New \cup Lost THEN 1 ELSE 0) + Off(k, current, Enumerated)
                <= changes[k] + 2 * faults
        /\ pc = "ended" => reports[k] <= changes[k] + 2 * faults

(* A report of a loop that is notified is owed to a notification.          *)
Told(s, k) == {i \in 1..Len(s) : s[i].key = k}
NotifiedCounted ==
    Notified => \A k \in Keys :
        /\ IsFiniteSet(Told(pending, k))
        /\ reports[k] + Cardinality(Told(pending, k)) <= changes[k]

CountInv == PollCounted /\ NotifiedCounted

LEMMA ToldOnce ==
    ASSUME NEW s \in Seq(Notification), NEW n \in Notification, NEW k,
           IsFiniteSet(Told(s, k))
    PROVE  /\ IsFiniteSet(Told(Append(s, n), k))
           /\ Cardinality(Told(Append(s, n), k))
                = Cardinality(Told(s, k)) + (IF n.key = k THEN 1 ELSE 0)
<1>1. /\ Len(s) \in Nat /\ Len(Append(s, n)) = Len(s) + 1
      /\ \A i \in 1..Len(s) : Append(s, n)[i] = s[i]
      /\ Append(s, n)[Len(s) + 1] = n
  BY AppendProperties, LenProperties
<1> DEFINE old == Told(s, k)
           new == Told(Append(s, n), k)
<1>2. Len(s) + 1 \notin old
  BY <1>1 DEF Told
<1>3. CASE n.key = k
  <2>1. new = old \cup {Len(s) + 1}
    BY <1>1, <1>3 DEF Told
  <2> HIDE DEF old, new
  <2>2. Cardinality(old) \in Nat /\ IsFiniteSet(old)
    BY FS_CardinalityType DEF old
  <2>3. IsFiniteSet(new) /\ Cardinality(new) = Cardinality(old) + 1
    BY <2>1, <2>2, <1>2, FS_AddElement
  <2> QED
    BY <2>3, <1>3 DEF old, new
<1>4. CASE n.key # k
  <2>1. new = old
    BY <1>1, <1>4 DEF Told
  <2>2. Cardinality(old) \in Nat
    BY FS_CardinalityType
  <2> QED
    BY <2>1, <2>2, <1>4
<1> QED
  BY <1>3, <1>4

LEMMA ToldNoLonger ==
    ASSUME NEW s \in Seq(Notification), s # <<>>, NEW k, IsFiniteSet(Told(s, k))
    PROVE  /\ IsFiniteSet(Told(Tail(s), k))
           /\ Cardinality(Told(Tail(s), k)) + (IF Head(s).key = k THEN 1 ELSE 0)
                <= Cardinality(Told(s, k))
<1>1. /\ Len(s) \in Nat /\ Len(Tail(s)) = Len(s) - 1
      /\ \A i \in 1..Len(Tail(s)) : Tail(s)[i] = s[i + 1]
  BY HeadTailProperties, LenProperties
<1>2. Len(s) >= 1 /\ Head(s) = s[1]
  BY <1>1, EmptySeq
<1> DEFINE old == Told(s, k)
           new == Told(Tail(s), k)
           shift == [i \in new |-> i + 1]
<1>3. old \ {1} \subseteq old
  OBVIOUS
<1>4. IsFiniteSet(old \ {1}) /\ Cardinality(old) \in Nat
      /\ Cardinality(old \ {1}) = IF 1 \in old THEN Cardinality(old) - 1 ELSE Cardinality(old)
  BY FS_RemoveElement, FS_CardinalityType
<1>5. 1 \in old <=> Head(s).key = k
  BY <1>1, <1>2 DEF Told
<1>6. shift \in Injection(new, old \ {1})
  <2>1. \A i \in new : i \in Nat /\ i + 1 \in old \ {1}
    BY <1>1 DEF Told
  <2> HIDE DEF new, old
  <2>2. shift \in [new -> old \ {1}]
    BY <2>1
  <2>3. \A i, j \in new : shift[i] = shift[j] => i = j
    BY <2>1
  <2> QED
    BY <2>2, <2>3 DEF Injection, IsInjective
<1>7. IsFiniteSet(new) /\ Cardinality(new) <= Cardinality(old \ {1})
  BY <1>4, <1>6, FS_Injection
<1>8. Cardinality(new) \in Nat
  BY <1>7, FS_CardinalityType
<1> HIDE DEF old, new
<1>9. IsFiniteSet(new)
      /\ Cardinality(new) + (IF Head(s).key = k THEN 1 ELSE 0) <= Cardinality(old)
  BY <1>4, <1>5, <1>7, <1>8
<1> QED
  BY <1>9 DEF old, new

(* Of a polling loop: each step that reports, or that makes a report due.  *)
LEMMA PollCountKeeps ==
    ASSUME IInv, PollCounted, [Next]_vars
    PROVE  PollCounted'
<1> USE DEF IInv
<1>1. UNCHANGED host
  BY DEF vars, Next, PollStep, ListenStep, Start, Stop, JoinReturns, CheckStop, Poll, EndRound,
     ReportRaises, Baseline, Listen, TakeUp, ListenEnds, Change, Handle, HandleRaises,
     Enumerate, ReportNew, ReportLost
<1>2. UNCHANGED <<Polls, Blind>>
  BY <1>1 DEF Polls, Blind, Backend, Windows
<1>3. SUFFICES ASSUME Polls PROVE PollCounted'
  BY <1>2 DEF PollCounted
<1>4. \A k \in Keys : changes[k] \in Nat /\ reports[k] \in Nat
  BY DEF TypeOK
<1>5. faults \in Nat
  BY MonitorAssumption DEF TypeOK
<1>6. \A k, A, B : Off(k, A, B) \in {0, 1}
  BY DEF Off
<1>7. pc \notin {"listen", "handle"}
  BY <1>3 DEF Places
<1>8. ASSUME UNCHANGED <<present, pc, previous, current, reported, reports, changes, faults>>
      PROVE  PollCounted'
  BY <1>1, <1>2, <1>8 DEF PollCounted, New, Lost, Enumerated
<1>9. CASE Start
  BY <1>1, <1>2, <1>3, <1>9 DEF Start, history, PollCounted
<1>10. CASE Stop
  BY <1>8, <1>10 DEF Stop, history
<1>11. CASE JoinReturns
  BY <1>8, <1>11 DEF JoinReturns, history
<1>12. CASE CheckStop
  BY <1>2, <1>3, <1>4, <1>5, <1>6, <1>12 DEF CheckStop, history, PollCounted, Enumerated
<1>13. CASE EndRound
  <2>1. /\ pc = "new" /\ New \cup Lost = {} /\ pc' = "check" /\ previous' = current
        /\ UNCHANGED <<present, reports, changes, faults>>
    BY <1>13 DEF EndRound, history
  <2>2. Enumerated' = Enumerated
    BY <1>2, <2>1 DEF Enumerated
  <2>3. \A k \in Keys : reports[k] + 0 + Off(k, current, Enumerated) <= changes[k] + 2 * faults
    BY <1>3, <2>1 DEF PollCounted
  <2>4. \A k \in Keys : reports'[k] + Off(k, previous, Enumerated)' <= changes'[k] + 2 * faults'
    BY <1>4, <1>6, <2>1, <2>2, <2>3 DEF Off
  <2> QED
    BY <1>2, <2>1, <2>4 DEF PollCounted
<1>14. CASE ReportRaises
  <2>1. /\ pc = "new" /\ pc' = "ended" /\ faults' = faults + 1
        /\ UNCHANGED <<reports, changes>>
    BY <1>14 DEF ReportRaises, Fault, history
  <2>2. ASSUME NEW k \in Keys PROVE reports'[k] <= changes'[k] + 2 * faults'
    <3> DEFINE due == IF k \in New \cup Lost THEN 1 ELSE 0
               off == Off(k, current, Enumerated)
    <3>1. reports[k] + due + off <= changes[k] + 2 * faults
      BY <1>3, <2>1 DEF PollCounted
    <3>2. due \in {0, 1} /\ off \in {0, 1}
      BY <1>6
    <3> HIDE DEF due, off
    <3> QED
      BY <1>4, <1>5, <2>1, <3>1, <3>2
  <2> QED
    BY <1>2, <2>1, <2>2 DEF PollCounted
<1>15. CASE Baseline
  <2>1. PICK f \in 0..1 : \E s \in Snapshots(f) : previous' = s /\ faults' = faults + f
    BY <1>15 DEF Baseline
  <2>2. /\ pc = "start" /\ pc' = "check" /\ UNCHANGED <<present, reports, changes>>
    BY <1>15 DEF Baseline
  <2>3. Enumerated' = Enumerated
    BY <1>2, <2>2 DEF Enumerated
  <2>4. f = 0 => previous' = Enumerated
    BY <2>1 DEF Snapshots
  <2>5. ASSUME NEW k \in Keys
        PROVE  reports'[k] + Off(k, previous, Enumerated)' <= changes'[k] + 2 * faults'
    <3>1. reports[k] = 0
      BY <1>3, <2>2 DEF PollCounted
    <3>2. CASE f = 0
      <4>1. Off(k, previous, Enumerated)' = 0
        BY <3>2, <2>3, <2>4 DEF Off
      <4> QED
        BY <4>1, <3>1, <3>2, <2>1, <2>2, <1>4, <1>5
    <3>3. CASE f = 1
      <4>1. Off(k, previous, Enumerated)' \in {0, 1}
        BY DEF Off
      <4> QED
        BY <4>1, <3>1, <3>3, <2>1, <2>2, <1>4, <1>5
    <3> QED
      BY <3>2, <3>3
  <2> QED
    BY <1>2, <2>2, <2>5 DEF PollCounted
<1>16. CASE Poll
  <2>1. PICK f \in 0..1 : \E s \in Snapshots(f) : current' = s /\ faults' = faults + f
    BY <1>16 DEF Poll
  <2>2. /\ pc = "sleep" /\ pc' = "new" /\ reported = {}
        /\ UNCHANGED <<present, reports, changes, previous, reported>>
    BY <1>3, <1>16 DEF Poll, history, ViewFollows
  <2>3. Enumerated' = Enumerated
    BY <1>2, <2>2 DEF Enumerated
  <2>4. f = 0 => current' = Enumerated
    BY <2>1 DEF Snapshots
  <2>5. \A k \in Keys : reports[k] + Off(k, previous, Enumerated) <= changes[k] + 2 * faults
    BY <1>3, <2>2 DEF PollCounted
  <2>6. ASSUME NEW k \in Keys
        PROVE  reports'[k] + (IF k \in New' \cup Lost' THEN 1 ELSE 0) + Off(k, current, Enumerated)'
                  <= changes'[k] + 2 * faults'
    <3> DEFINE due == IF k \in New' \cup Lost' THEN 1 ELSE 0
               off == Off(k, current', Enumerated')
               was == Off(k, previous, Enumerated)
    <3>1. due \in {0, 1} /\ off \in {0, 1} /\ was \in {0, 1}
      BY DEF Off
    <3>2. CASE f = 0
      <4>1. off = 0
        BY <3>2, <2>3, <2>4 DEF Off
      <4>2. due = was
        BY <3>2, <2>2, <2>4 DEF Off, New, Lost
      <4>3. reports[k] + was <= changes[k] + 2 * faults
        BY <2>5
      <4> HIDE DEF due, off, was
      <4>4. reports'[k] + due + off <= changes'[k] + 2 * faults'
        BY <4>1, <4>2, <4>3, <3>1, <3>2, <2>1, <2>2, <1>4, <1>5
      <4> QED
        BY <4>4 DEF due, off
    <3>3. CASE f = 1
      <4>1. reports[k] + was <= changes[k] + 2 * faults
        BY <2>5
      <4> HIDE DEF due, off, was
      <4>2. reports'[k] + due + off <= changes'[k] + 2 * faults'
        BY <4>1, <3>1, <3>3, <2>1, <2>2, <1>4, <1>5
      <4> QED
        BY <4>2 DEF due, off
    <3> QED
      BY <3>2, <3>3
  <2> QED
    BY <1>2, <2>2, <2>6 DEF PollCounted
<1>17. ASSUME NEW j \in Keys, ReportNew(j) \/ ReportLost(j) PROVE PollCounted'
  <2>1. /\ pc = "new" /\ j \in New \cup Lost /\ j \notin reported
        /\ reported' = reported \cup {j}
        /\ UNCHANGED <<pc, present, previous, current, faults>>
    BY <1>17 DEF ReportNew, ReportLost, New, Lost
  <2>2. /\ reports' = [k \in Keys |-> IF k \in {j} THEN reports[k] + 1 ELSE reports[k]]
        /\ UNCHANGED changes
    BY <1>17 DEF ReportNew, ReportLost, Report
  <2>3. Enumerated' = Enumerated
    BY <1>2, <2>1 DEF Enumerated
  <2>4. ASSUME NEW k \in Keys
        PROVE  reports'[k] + (IF k \in New' \cup Lost' THEN 1 ELSE 0) + Off(k, current, Enumerated)'
                  <= changes'[k] + 2 * faults'
    <3> DEFINE due == IF k \in New \cup Lost THEN 1 ELSE 0
               dueNext == IF k \in New' \cup Lost' THEN 1 ELSE 0
               off == Off(k, current, Enumerated)
    <3>1. reports[k] + due + off <= changes[k] + 2 * faults
      BY <1>3, <2>1 DEF PollCounted
    <3>2. off \in {0, 1} /\ Off(k, current', Enumerated') = off
      BY <1>6, <2>1, <2>3 DEF Off
    <3>3. reports'[k] + dueNext = reports[k] + due
      <4>1. CASE k = j
        BY <4>1, <2>1, <2>2, <1>4 DEF New, Lost
      <4>2. CASE k # j
        BY <4>2, <2>1, <2>2, <1>4 DEF New, Lost
      <4> QED
        BY <4>1, <4>2
    <3>4. due \in {0, 1} /\ dueNext \in {0, 1} /\ reports'[k] \in Nat
      BY <1>4, <2>2
    <3> HIDE DEF due, dueNext, off
    <3>5. reports'[k] + dueNext + off <= changes'[k] + 2 * faults'
      BY <3>1, <3>2, <3>3, <3>4, <2>1, <2>2, <1>4, <1>5
    <3> QED
      BY <3>2, <3>5 DEF dueNext
  <2> QED
    BY <1>2, <2>1, <2>4 DEF PollCounted
<1>18. ASSUME NEW j \in Keys, Change(j) PROVE PollCounted'
  <2>1. /\ changes' = [changes EXCEPT ![j] = @ + 1]
        /\ UNCHANGED <<pc, previous, current, reported, reports, faults>>
    BY <1>18 DEF Change
  <2>2. \A k \in Keys : k # j => (k \in Enumerated' <=> k \in Enumerated)
    BY <1>2, <1>18 DEF Change, Enumerated
  <2>3. ASSUME NEW k \in Keys, NEW A
        PROVE  /\ Off(k, A, Enumerated') \in {0, 1}
               /\ Off(k, A, Enumerated') <= Off(k, A, Enumerated) + changes'[k] - changes[k]
    <3>1. CASE k = j
      <4>1. changes'[k] = changes[k] + 1
        BY <3>1, <2>1 DEF TypeOK
      <4>2. Off(k, A, Enumerated') \in {0, 1} /\ Off(k, A, Enumerated) \in {0, 1}
        BY <1>6
      <4> QED
        BY <4>1, <4>2, <1>4
    <3>2. CASE k # j
      <4>1. Off(k, A, Enumerated') = Off(k, A, Enumerated) /\ changes'[k] = changes[k]
        BY <3>2, <2>1, <2>2 DEF Off, TypeOK
      <4> QED
        BY <4>1, <1>4, <1>6
    <3> QED
      BY <3>1, <3>2
  <2>4. \A k \in Keys : changes'[k] \in Nat /\ changes'[k] >= changes[k]
    BY <1>4, <2>1 DEF TypeOK
  <2>5. New' = New /\ Lost' = Lost
    BY <2>1 DEF New, Lost
  <2>6. ASSUME NEW k \in Keys, pc \in {"check", "sleep"}
        PROVE  reports[k] + Off(k, previous, Enumerated') <= changes'[k] + 2 * faults
    <3>1. reports[k] + Off(k, previous, Enumerated) <= changes[k] + 2 * faults
      BY <1>3, <2>6 DEF PollCounted
    <3>2. Off(k, previous, Enumerated) \in {0, 1}
      BY <1>6
    <3> QED
      BY <2>3, <2>4, <3>1, <3>2, <1>4, <1>5
  <2>7. ASSUME NEW k \in Keys, pc = "new"
        PROVE  reports[k] + (IF k \in New \cup Lost THEN 1 ELSE 0) + Off(k, current, Enumerated')
                  <= changes'[k] + 2 * faults
    <3> DEFINE due == IF k \in New \cup Lost THEN 1 ELSE 0
    <3>1. reports[k] + due + Off(k, current, Enumerated) <= changes[k] + 2 * faults
      BY <1>3, <2>7 DEF PollCounted
    <3>2. Off(k, current, Enumerated) \in {0, 1} /\ due \in {0, 1}
      BY <1>6
    <3> HIDE DEF due
    <3>3. reports[k] + due + Off(k, current, Enumerated') <= changes'[k] + 2 * faults
      BY <2>3, <2>4, <3>1, <3>2, <1>4, <1>5
    <3> QED
      BY <3>3 DEF due
  <2>8. ASSUME NEW k \in Keys, pc = "ended" PROVE reports[k] <= changes'[k] + 2 * faults
    <3>1. reports[k] <= changes[k] + 2 * faults
      BY <1>3, <2>8 DEF PollCounted
    <3> QED
      BY <2>4, <3>1, <1>4, <1>5
  <2>9. \A k \in Keys : pc \in {"off", "start"} => reports[k] = 0
    BY <1>3 DEF PollCounted
  <2> QED
    BY <1>2, <2>1, <2>5, <2>6, <2>7, <2>8, <2>9 DEF PollCounted, Off
<1>19. CASE UNCHANGED vars
  BY <1>8, <1>19 DEF vars, history
<1>20. ~ListenStep
  BY <1>3, <1>7 DEF ListenStep, Listen, TakeUp, Handle, HandleRaises, Enumerate, ListenEnds,
     Polls
<1> QED
  BY <1>9, <1>10, <1>11, <1>12, <1>13, <1>14, <1>15, <1>16, <1>17, <1>18, <1>19, <1>20
     DEF Next, PollStep

(* Of a loop that is notified: each change is told once, each notification *)
(* taken up once.                                                          *)
LEMMA NotifiedCountKeeps ==
    ASSUME IInv, NotifiedCounted, [Next]_vars
    PROVE  NotifiedCounted'
<1> USE DEF IInv
<1>1. UNCHANGED host
  BY DEF vars, Next, PollStep, ListenStep, Start, Stop, JoinReturns, CheckStop, Poll, EndRound,
     ReportRaises, Baseline, Listen, TakeUp, ListenEnds, Change, Handle, HandleRaises,
     Enumerate, ReportNew, ReportLost
<1>2. UNCHANGED <<Polls, Notified, Backend(host)>>
  BY <1>1 DEF Polls, Notified, Backend, Windows
<1>3. SUFFICES ASSUME Notified PROVE NotifiedCounted'
  BY <1>2 DEF NotifiedCounted
<1>4. ~Polls
  BY <1>3 DEF Notified, Polls
<1>5. \A k \in Keys : changes[k] \in Nat /\ reports[k] \in Nat
  BY DEF TypeOK
<1>6. pending \in Seq(Notification)
  BY DEF TypeOK, Notification
<1>7. \A k \in Keys : /\ IsFiniteSet(Told(pending, k)) /\ Cardinality(Told(pending, k)) \in Nat
                      /\ reports[k] + Cardinality(Told(pending, k)) <= changes[k]
  BY <1>3, FS_CardinalityType DEF NotifiedCounted
<1>8. CASE UNCHANGED <<pending, reports, changes>>
  BY <1>2, <1>3, <1>8 DEF NotifiedCounted
<1>9. ASSUME NEW j \in Keys, Change(j) PROVE NotifiedCounted'
  <2> DEFINE n == [key |-> j, connected |-> j \notin present]
  <2>1. n \in Notification /\ n.key = j
    BY DEF Notification
  <2>2. pending' = IF pc \in {"listen", "handle"} THEN Append(pending, n) ELSE pending
    BY <1>9 DEF Change
  <2>3. changes' = [changes EXCEPT ![j] = @ + 1] /\ UNCHANGED reports
    BY <1>9 DEF Change
  <2> HIDE DEF n
  <2>4. ASSUME NEW k \in Keys
        PROVE  IsFiniteSet(Told(pending', k))
               /\ reports'[k] + Cardinality(Told(pending', k)) <= changes'[k]
    <3>1. IsFiniteSet(Told(pending', k))
          /\ Cardinality(Told(pending', k)) \in Nat
          /\ Cardinality(Told(pending', k))
                <= Cardinality(Told(pending, k)) + (IF j = k THEN 1 ELSE 0)
      BY <1>6, <1>7, <2>1, <2>2, ToldOnce
    <3>2. changes'[k] = IF j = k THEN changes[k] + 1 ELSE changes[k]
      BY <2>3 DEF TypeOK
    <3> QED
      BY <1>5, <1>7, <2>3, <3>1, <3>2
  <2> QED
    BY <2>4 DEF NotifiedCounted
<1>10. CASE Handle
  <2>1. pending # <<>> /\ pending' = Tail(pending) /\ UNCHANGED changes
    BY <1>10 DEF Handle, Places, Report
  <2>2. reports' = [k \in Keys |-> IF k \in {Head(pending).key} THEN reports[k] + 1
                                   ELSE reports[k]]
    BY <1>10 DEF Handle, Report
  <2>3. ASSUME NEW k \in Keys
        PROVE  IsFiniteSet(Told(pending', k))
               /\ reports'[k] + Cardinality(Told(pending', k)) <= changes'[k]
    <3>1. /\ IsFiniteSet(Told(Tail(pending), k))
          /\ Cardinality(Told(Tail(pending), k)) + (IF Head(pending).key = k THEN 1 ELSE 0)
                <= Cardinality(Told(pending, k))
      BY <1>6, <1>7, <2>1, ToldNoLonger
    <3>2. Cardinality(Told(Tail(pending), k)) \in Nat
      BY <3>1, FS_CardinalityType
    <3>3. reports'[k] = reports[k] + (IF Head(pending).key = k THEN 1 ELSE 0)
      BY <2>2, <1>5
    <3> QED
      BY <1>5, <1>7, <2>1, <3>1, <3>2, <3>3
  <2> QED
    BY <2>3 DEF NotifiedCounted
<1>11. CASE HandleRaises
  <2>1. pending # <<>> /\ pending' = Tail(pending) /\ UNCHANGED <<reports, changes>>
    BY <1>11 DEF HandleRaises, Places, history
  <2>2. ASSUME NEW k \in Keys
        PROVE  IsFiniteSet(Told(pending', k))
               /\ reports'[k] + Cardinality(Told(pending', k)) <= changes'[k]
    <3>1. /\ IsFiniteSet(Told(Tail(pending), k))
          /\ Cardinality(Told(Tail(pending), k)) + (IF Head(pending).key = k THEN 1 ELSE 0)
                <= Cardinality(Told(pending, k))
      BY <1>6, <1>7, <2>1, ToldNoLonger
    <3>2. Cardinality(Told(Tail(pending), k)) \in Nat
      BY <3>1, FS_CardinalityType
    <3> QED
      BY <1>5, <1>7, <2>1, <3>1, <3>2
  <2> QED
    BY <2>2 DEF NotifiedCounted
<1>12. ~(\E k \in Keys : ReportNew(k) \/ ReportLost(k)) /\ ~Enumerate
  BY <1>3, <1>4 DEF Places, ReportNew, ReportLost, Enumerate, Notified
<1>13. \/ UNCHANGED <<pending, reports, changes>>
       \/ Handle \/ HandleRaises \/ \E k \in Keys : Change(k)
  BY <1>12 DEF Next, vars, PollStep, ListenStep, history, Start, Stop, JoinReturns, CheckStop,
     Poll, EndRound, ReportRaises, Baseline, Listen, TakeUp, ListenEnds
<1> QED
  BY <1>8, <1>9, <1>10, <1>11, <1>13

LEMMA InitCounts == Init => CountInv
<1> SUFFICES ASSUME Init PROVE CountInv
  OBVIOUS
<1>1. PollCounted
  BY DEF Init, PollCounted
<1>2. \A k \in Keys : Told(pending, k) = {}
  BY EmptySeq DEF Init, Told
<1>3. \A k \in Keys : IsFiniteSet(Told(pending, k)) /\ Cardinality(Told(pending, k)) = 0
  BY <1>2, FS_EmptySet
<1>4. \A k \in Keys : reports[k] = 0 /\ changes[k] = 0
  BY DEF Init
<1>5. NotifiedCounted
  BY <1>3, <1>4 DEF NotifiedCounted
<1> QED
  BY <1>1, <1>5 DEF CountInv

(* No loop but WMI's reports a device more often than it came and went,    *)
(* but for two reports to each enumeration that failed.                    *)
THEOREM InventsNothing == Spec => []NothingInvented
<1>1. Init => CountInv
  BY InitCounts
<1>2. IInv /\ CountInv /\ [Next]_vars => CountInv'
  BY PollCountKeeps, NotifiedCountKeeps DEF CountInv
<1>3. ASSUME IInv, CountInv, Backend(host) # "wmi", NEW k \in Keys
      PROVE  reports[k] <= changes[k] + 2 * faults
  <2>1. changes[k] \in Nat /\ reports[k] \in Nat /\ faults \in Nat
    BY <1>3, MonitorAssumption DEF IInv, TypeOK
  <2>2. CASE Polls
    <3>1. pc \in {"off", "start", "check", "sleep", "new", "ended"}
      BY <1>3, <2>2 DEF IInv, TypeOK, Places
    <3>2. CASE pc \in {"off", "start"}
      BY <1>3, <2>1, <2>2, <3>2 DEF CountInv, PollCounted
    <3>3. CASE pc \in {"check", "sleep"}
      BY <1>3, <2>1, <2>2, <3>3 DEF CountInv, PollCounted, Off
    <3>4. CASE pc = "new"
      <4> DEFINE due == IF k \in New \cup Lost THEN 1 ELSE 0
                 off == Off(k, current, Enumerated)
      <4>1. reports[k] + due + off <= changes[k] + 2 * faults
        BY <1>3, <2>2, <3>4 DEF CountInv, PollCounted
      <4>2. due \in {0, 1} /\ off \in {0, 1}
        BY DEF Off
      <4> HIDE DEF due, off
      <4> QED
        BY <2>1, <4>1, <4>2
    <3>5. CASE pc = "ended"
      BY <1>3, <2>2, <3>5 DEF CountInv, PollCounted
    <3> QED
      BY <3>1, <3>2, <3>3, <3>4, <3>5
  <2>3. CASE ~Polls
    <3>1. Notified
      BY <1>3, <2>3, BackendNames DEF Polls, Notified
    <3>2. IsFiniteSet(Told(pending, k))
          /\ reports[k] + Cardinality(Told(pending, k)) <= changes[k]
      BY <1>3, <3>1 DEF CountInv, NotifiedCounted
    <3>3. Cardinality(Told(pending, k)) \in Nat
      BY <3>2, FS_CardinalityType
    <3> QED
      BY <2>1, <3>2, <3>3
  <2> QED
    BY <2>2, <2>3
<1>4. IInv /\ CountInv => NothingInvented
  BY <1>3 DEF NothingInvented
<1> QED
  BY <1>1, <1>2, <1>4, Invariance, PTL DEF Spec
=============================================================================
