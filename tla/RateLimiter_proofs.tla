------------------------- MODULE RateLimiter_proofs -------------------------
(***************************************************************************)
(* Proofs about RateLimiter, for any threads, addresses, configurations,   *)
(* limit and window: its invariant IInv is inductive, and from it follow   *)
(* the two limits, that refusals are justified, and that roles nest.       *)
(***************************************************************************)
EXTENDS RateLimiter, FiniteSetTheorems, FunctionTheorems, TLAPS

(* Fresh takes a part of a window that is finite.                          *)
LEMMA FreshIsPart ==
    ASSUME IInv, NEW r, r.ip \in Ips, r.stamp \in Nat
    PROVE  /\ Fresh(r) \subseteq times[r.ip]
           /\ IsFiniteSet(times[r.ip]) /\ IsFiniteSet(Fresh(r))
           /\ Cardinality(Fresh(r)) \in Nat
           /\ \A a \in Fresh(r) : a \in admitted /\ a.ip = r.ip /\ a.stamp > r.stamp - Window
<1>1. Fresh(r) \subseteq times[r.ip]
  BY DEF Fresh
<1>2. times[r.ip] \subseteq admitted /\ \A a \in times[r.ip] : a.ip = r.ip
  BY DEF IInv, Tracked
<1>3. IsFiniteSet(times[r.ip])
  BY <1>2, FS_Subset DEF IInv, Tracked
<1>4. IsFiniteSet(Fresh(r)) /\ Cardinality(Fresh(r)) \in Nat
  BY <1>1, <1>3, FS_Subset, FS_CardinalityType
<1>5. \A a \in Fresh(r) : a.stamp > r.stamp - Window
  BY DEF Fresh
<1> QED
  BY <1>1, <1>2, <1>3, <1>4, <1>5

LEMMA PartWithinLimit ==
    ASSUME NEW A, IsFiniteSet(A), NEW L \in SUBSET A, Cardinality(L) <= RateMax,
           NEW S \in SUBSET L
    PROVE  Cardinality(S) <= RateMax
<1>1. IsFiniteSet(L) /\ IsFiniteSet(S) /\ Cardinality(S) <= Cardinality(L)
  BY FS_Subset
<1>2. Cardinality(L) \in Nat /\ Cardinality(S) \in Nat
  BY <1>1, FS_CardinalityType
<1> QED
  BY <1>1, <1>2, LimiterAssumption

LEMMA InitInv == Init => IInv
<1> SUFFICES ASSUME Init PROVE IInv
  OBVIOUS
<1> USE LimiterAssumption DEF Init
<1>1. TypeOK
  BY DEF TypeOK
<1>2. Cardinality({}) = 0 /\ IsFiniteSet({})
  BY FS_EmptySet
<1>3. Tracked
  BY <1>2 DEF Tracked
<1>4. ServedInTurn
  BY DEF ServedInTurn
<1>5. OnTimeWithinLimit
  <2> SUFFICES ASSUME NEW ip \in Ips, NEW x \in 0..now
               PROVE  Cardinality(OnTime(ip, x)) <= RateMax
    BY DEF OnTimeWithinLimit
  <2>1. OnTime(ip, x) = {}
    BY DEF OnTime
  <2> QED
    BY <2>1, <1>2
<1> QED
  BY <1>1, <1>3, <1>4, <1>5 DEF IInv

(* Whatever of an address arrived in the window that ends now is in its    *)
(* list, so the list bounds it.                                            *)
LEMMA ListBoundsWindow ==
    ASSUME TypeOK, Tracked, NEW ip \in Ips, NEW x \in Nat, x >= now
    PROVE  Cardinality(OnTime(ip, x)) <= RateMax
<1> USE LimiterAssumption
<1>1. \A a \in admitted : a.stamp \in Nat /\ a.at \in Nat
  BY DEF TypeOK, Admission
<1>2. now \in Nat
  BY DEF TypeOK
<1>3. OnTime(ip, x) \subseteq times[ip]
  <2> SUFFICES ASSUME NEW a \in admitted, a.ip = ip, a.stamp > x - Window
               PROVE  a \in times[ip]
    BY DEF OnTime
  <2>1. a.stamp > now - Window
    BY <1>1, <1>2
  <2> QED
    BY <2>1 DEF Tracked
<1>4. IsFiniteSet(admitted) /\ times[ip] \subseteq admitted /\ Cardinality(times[ip]) <= RateMax
  BY DEF Tracked
<1> QED
  BY <1>3, <1>4, PartWithinLimit

(* Steps that leave admissions and windows alone.                          *)
LEMMA QuietInv ==
    ASSUME IInv, UNCHANGED <<times, admitted>>, TypeOK',
           now' \in Nat, now' >= now, ServedInTurn'
    PROVE  IInv'
<1> USE LimiterAssumption
<1>0. now \in Nat /\ \A a \in admitted : a.stamp \in Nat /\ a.at \in Nat
  BY DEF IInv, TypeOK, Admission
<1>1. Tracked'
  <2>1. \A a \in admitted : a.stamp > now' - Window => a.stamp > now - Window
    BY <1>0
  <2>2. \A a \in admitted : a.at <= now'
    BY <1>0 DEF IInv, Tracked
  <2> QED
    BY <2>1, <2>2 DEF IInv, Tracked
<1>2. OnTimeWithinLimit'
  <2> SUFFICES ASSUME NEW ip \in Ips, NEW x \in 0..now'
               PROVE  Cardinality(OnTime(ip, x)) <= RateMax
    BY DEF OnTimeWithinLimit, OnTime
  <2>1. CASE x <= now
    BY <2>1, <1>0 DEF IInv, OnTimeWithinLimit
  <2>2. CASE x > now
    BY <2>2, <1>0, ListBoundsWindow DEF IInv
  <2> QED
    BY <2>1, <2>2, <1>0
<1> QED
  BY <1>1, <1>2 DEF IInv

LEMMA ReadClockInv ==
    ASSUME IInv, NEW t \in Threads, NEW ip \in Ips, NEW token \in Tokens,
           ReadClock(t, ip, token)
    PROVE  IInv'
<1> USE LimiterAssumption
<1>0. now \in 0..MaxTime /\ requests \in 0..MaxRequests
      /\ reading \in [Threads -> Request \cup {Idle}]
  BY DEF IInv, TypeOK
<1> DEFINE r == [id |-> requests + 1, thread |-> t, ip |-> ip, stamp |-> now]
<1>1. r \in Request
  BY <1>0 DEF ReadClock, Request
<1>2. TypeOK'
  BY <1>0, <1>1 DEF ReadClock, IInv, TypeOK
<1>3. ServedInTurn'
  <2>1. ASSUME NEW u \in Threads, reading'[u] # Idle
        PROVE  /\ reading'[u].thread = u /\ reading'[u].stamp <= now
               /\ \A a \in admitted : a.thread = u => a.at <= reading'[u].stamp
    <3>1. CASE u = t
      <4>1. reading'[u] = r
        BY <3>1, <1>0 DEF ReadClock
      <4> QED
        BY <4>1, <3>1, <1>0 DEF IInv, Tracked
    <3>2. CASE u # t
      <4>1. reading'[u] = reading[u]
        BY <3>2, <1>0 DEF ReadClock
      <4> QED
        BY <4>1, <2>1 DEF IInv, ServedInTurn
    <3> QED
      BY <3>1, <3>2
  <2>2. admitted' = admitted /\ now' = now
    BY DEF ReadClock
  <2> QED
    BY <2>1, <2>2 DEF IInv, ServedInTurn
<1> QED
  BY <1>0, <1>2, <1>3, QuietInv DEF ReadClock

LEMMA UnauthorizedInv ==
    ASSUME IInv, NEW t \in Threads, NEW token \in Tokens, Unauthorized(t, token)
    PROVE  IInv'
<1> USE LimiterAssumption
<1>0. now \in 0..MaxTime /\ requests \in 0..MaxRequests
  BY DEF IInv, TypeOK
<1>1. TypeOK'
  BY <1>0 DEF Unauthorized, IInv, TypeOK
<1>2. ServedInTurn'
  BY DEF Unauthorized, IInv, ServedInTurn
<1> QED
  BY <1>0, <1>1, <1>2, QuietInv DEF Unauthorized

LEMMA TickInv ==
    ASSUME IInv, Tick
    PROVE  IInv'
<1> USE LimiterAssumption
<1>0. now \in 0..MaxTime /\ now' = now + 1 /\ now' \in 0..MaxTime
      /\ reading \in [Threads -> Request \cup {Idle}]
  BY DEF Tick, IInv, TypeOK
<1>1. TypeOK'
  BY <1>0 DEF Tick, IInv, TypeOK
<1>2. ServedInTurn'
  <2>1. ASSUME NEW u \in Threads, reading[u] # Idle
        PROVE  reading[u].stamp <= now'
    <3>1. reading[u].stamp \in Nat /\ reading[u].stamp <= now
      BY <1>0, <2>1 DEF Request, IInv, ServedInTurn
    <3> QED
      BY <3>1, <1>0
  <2> QED
    BY <2>1 DEF Tick, IInv, ServedInTurn
<1> QED
  BY <1>0, <1>1, <1>2, QuietInv DEF Tick

(* What is evicted is too old for every later window.                      *)
LEMMA EvictionIsSafe ==
    ASSUME IInv, NEW t \in Threads, reading[t] # Idle
    PROVE  /\ reading[t] \in Request /\ reading[t].stamp <= now
           /\ \A a \in admitted :
                a.ip = reading[t].ip /\ a.stamp > now - Window => a \in Fresh(reading[t])
<1> USE LimiterAssumption
<1>0. /\ now \in Nat /\ reading[t] \in Request
      /\ \A a \in admitted : a.stamp \in Nat
  BY DEF IInv, TypeOK, Admission
<1>1. reading[t].stamp <= now /\ reading[t].stamp \in Nat
  BY <1>0 DEF IInv, ServedInTurn, Request
<1>2. ASSUME NEW a \in admitted, a.ip = reading[t].ip, a.stamp > now - Window
      PROVE  a \in Fresh(reading[t])
  <2>1. a \in times[reading[t].ip]
    BY <1>2 DEF IInv, Tracked
  <2>2. a.stamp > reading[t].stamp - Window
    BY <1>0, <1>1, <1>2
  <2> QED
    BY <2>1, <2>2 DEF Fresh
<1> QED
  BY <1>0, <1>1, <1>2

LEMMA RefuseInv ==
    ASSUME IInv, NEW t \in Threads, Refuse(t)
    PROVE  IInv'
<1> USE LimiterAssumption
<1> DEFINE r == reading[t]
<1>0. /\ r # Idle /\ r \in Request /\ r.ip \in Ips /\ r.stamp \in Nat
      /\ now \in 0..MaxTime
      /\ reading \in [Threads -> Request \cup {Idle}] /\ times \in [Ips -> SUBSET Admission]
      /\ times' = [times EXCEPT ![r.ip] = Fresh(r)]
      /\ reading' = [reading EXCEPT ![t] = Idle]
      /\ UNCHANGED <<settings, now, requests, admitted>>
  BY EvictionIsSafe DEF Refuse, Request, IInv, TypeOK
<1>1. /\ Fresh(r) \subseteq times[r.ip] /\ Cardinality(Fresh(r)) <= Cardinality(times[r.ip])
      /\ Cardinality(Fresh(r)) \in Nat /\ Cardinality(times[r.ip]) \in Nat
  BY <1>0, FreshIsPart, FS_Subset, FS_CardinalityType
<1> HIDE DEF r
<1>2. TypeOK'
  BY <1>0, <1>1 DEF IInv, TypeOK
<1>3. Tracked'
  <2>1. ASSUME NEW ip \in Ips
        PROVE  /\ times'[ip] \subseteq {a \in admitted : a.ip = ip}
               /\ Cardinality(times'[ip]) <= RateMax
    <3>1. CASE ip = r.ip
      <4>1. times'[ip] = Fresh(r)
        BY <1>0, <3>1
      <4>2. Fresh(r) \subseteq {a \in admitted : a.ip = ip}
        BY <1>1, <3>1 DEF IInv, Tracked
      <4>3. Cardinality(times[r.ip]) <= RateMax
        BY <1>0 DEF IInv, Tracked
      <4> QED
        BY <4>1, <4>2, <4>3, <1>1
    <3>2. CASE ip # r.ip
      BY <3>2, <1>0 DEF IInv, Tracked
    <3> QED
      BY <3>1, <3>2
  <2>2. ASSUME NEW a \in admitted, a.stamp > now - Window
        PROVE  a \in times'[a.ip]
    <3>1. a.ip \in Ips
      BY DEF IInv, TypeOK, Admission
    <3>2. CASE a.ip = r.ip
      BY <3>2, <2>2, <1>0, EvictionIsSafe DEF r
    <3>3. CASE a.ip # r.ip
      BY <3>1, <3>3, <2>2, <1>0 DEF IInv, Tracked
    <3> QED
      BY <3>2, <3>3
  <2> QED
    BY <2>1, <2>2, <1>0 DEF IInv, Tracked
<1>4. ServedInTurn'
  BY <1>0 DEF IInv, ServedInTurn
<1>5. OnTimeWithinLimit'
  BY <1>0 DEF IInv, OnTimeWithinLimit, OnTime
<1> QED
  BY <1>2, <1>3, <1>4, <1>5 DEF IInv

LEMMA AdmitInv ==
    ASSUME IInv, NEW t \in Threads, Admit(t)
    PROVE  IInv'
<1> USE LimiterAssumption
<1> DEFINE r == reading[t]
           new == [id |-> r.id, thread |-> t, ip |-> r.ip, stamp |-> r.stamp, at |-> now]
<1>0. /\ r # Idle /\ r \in Request /\ r.ip \in Ips /\ r.stamp \in Nat
      /\ r.stamp <= now /\ now \in 0..MaxTime /\ now \in Nat
      /\ reading \in [Threads -> Request \cup {Idle}] /\ times \in [Ips -> SUBSET Admission]
      /\ times' = [times EXCEPT ![r.ip] = Fresh(r) \cup {new}]
      /\ admitted' = admitted \cup {new}
      /\ reading' = [reading EXCEPT ![t] = Idle]
      /\ UNCHANGED <<settings, now, requests>>
      /\ Cardinality(Fresh(r)) < RateMax
  BY EvictionIsSafe DEF Admit, Request, IInv, TypeOK
<1>1. new \in Admission /\ new.stamp = r.stamp /\ new.at = now /\ new.ip = r.ip /\ new.thread = t
  BY <1>0 DEF Request, Admission
<1>2. /\ Fresh(r) \subseteq times[r.ip]
      /\ Cardinality(Fresh(r) \cup {new}) <= RateMax
      /\ IsFiniteSet(admitted \cup {new})
  <2>1. IsFiniteSet(Fresh(r)) /\ Cardinality(Fresh(r)) \in Nat /\ Fresh(r) \subseteq times[r.ip]
    BY <1>0, FreshIsPart
  <2>2. IsFiniteSet(admitted)
    BY DEF IInv, Tracked
  <2>3. IsFiniteSet(admitted \cup {new})
    BY <2>2, FS_AddElement
  <2>4. Cardinality(Fresh(r) \cup {new}) \in {Cardinality(Fresh(r)), Cardinality(Fresh(r)) + 1}
    BY <2>1, FS_AddElement
  <2>5. Cardinality(Fresh(r)) < RateMax
    BY <1>0
  <2> HIDE DEF r, new
  <2> QED
    BY <2>1, <2>3, <2>4, <2>5
<1>3. /\ \A b \in admitted : b.thread = t => b.at <= r.stamp
      /\ \A a \in admitted : a.ip = r.ip /\ a.stamp > now - Window => a \in Fresh(r)
  BY <1>0, EvictionIsSafe DEF IInv, ServedInTurn
<1> HIDE DEF r, new
<1>4. TypeOK'
  BY <1>0, <1>1, <1>2 DEF IInv, TypeOK
<1>5. Tracked'
  <2>1. ASSUME NEW ip \in Ips
        PROVE  /\ times'[ip] \subseteq {a \in admitted' : a.ip = ip}
               /\ Cardinality(times'[ip]) <= RateMax
    <3>1. CASE ip = r.ip
      <4>1. times'[ip] = Fresh(r) \cup {new}
        BY <1>0, <3>1
      <4>2. Fresh(r) \subseteq {a \in admitted : a.ip = ip}
        BY <1>0, <1>2, <3>1 DEF IInv, Tracked
      <4> QED
        BY <4>1, <4>2, <1>0, <1>1, <1>2, <3>1
    <3>2. CASE ip # r.ip
      BY <3>2, <1>0 DEF IInv, Tracked
    <3> QED
      BY <3>1, <3>2
  <2>2. ASSUME NEW a \in admitted', a.stamp > now - Window
        PROVE  a \in times'[a.ip]
    <3>1. CASE a = new
      BY <3>1, <1>0, <1>1
    <3>2. CASE a # new
      <4>1. a \in admitted /\ a.ip \in Ips
        BY <3>2, <1>0 DEF IInv, TypeOK, Admission
      <4>2. CASE a.ip = r.ip
        BY <4>1, <4>2, <2>2, <1>0, <1>3
      <4>3. CASE a.ip # r.ip
        BY <4>1, <4>3, <2>2, <1>0 DEF IInv, Tracked
      <4> QED
        BY <4>2, <4>3
    <3> QED
      BY <3>1, <3>2
  <2>3. \A a \in admitted' : a.stamp <= a.at /\ a.at <= now
    BY <1>0, <1>1 DEF IInv, Tracked
  <2> QED
    BY <2>1, <2>2, <2>3, <1>0, <1>2 DEF Tracked
<1>6. ServedInTurn'
  <2>1. ASSUME NEW u \in Threads, reading'[u] # Idle
        PROVE  /\ reading'[u].thread = u /\ reading'[u].stamp <= now
               /\ \A a \in admitted' : a.thread = u => a.at <= reading'[u].stamp
    <3>1. u # t /\ reading'[u] = reading[u]
      BY <2>1, <1>0
    <3> QED
      BY <3>1, <2>1, <1>0, <1>1 DEF IInv, ServedInTurn
  <2>2. ASSUME NEW a \in admitted', NEW b \in admitted', a.thread = b.thread
        PROVE  a = b \/ a.at <= b.stamp \/ b.at <= a.stamp
    <3>1. CASE a \in admitted /\ b \in admitted
      BY <3>1, <2>2 DEF IInv, ServedInTurn
    <3>2. CASE a = new \/ b = new
      BY <3>2, <2>2, <1>0, <1>1, <1>3
    <3> QED
      BY <3>1, <3>2, <1>0
  <2> QED
    BY <2>1, <2>2, <1>0 DEF ServedInTurn
<1>7. OnTimeWithinLimit'
  <2> SUFFICES ASSUME NEW ip \in Ips, NEW x \in 0..now'
               PROVE  Cardinality(OnTime(ip, x)') <= RateMax
    BY DEF OnTimeWithinLimit, OnTime
  <2>1. CASE x < now
    <3>1. OnTime(ip, x)' = OnTime(ip, x)
      BY <2>1, <1>0, <1>1 DEF OnTime
    <3> QED
      BY <3>1, <1>0 DEF IInv, OnTimeWithinLimit
  <2>2. CASE x >= now
    <3>1. x = now
      BY <2>2, <1>0
    <3>2. OnTime(ip, x)' \subseteq times'[ip]
      BY <3>1, <1>0, <1>5 DEF OnTime, Tracked
    <3>3. times'[ip] \subseteq admitted' /\ IsFiniteSet(admitted')
          /\ Cardinality(times'[ip]) <= RateMax
      BY <1>5 DEF Tracked
    <3> QED
      BY <3>2, <3>3, PartWithinLimit
  <2> QED
    BY <2>1, <2>2, <1>0
<1> QED
  BY <1>4, <1>5, <1>6, <1>7 DEF IInv

LEMMA NextInv == IInv /\ [Next]_vars => IInv'
<1> SUFFICES ASSUME IInv, [Next]_vars PROVE IInv'
  OBVIOUS
<1>1. CASE UNCHANGED vars
  BY <1>1 DEF vars, IInv, TypeOK, Tracked, ServedInTurn, OnTimeWithinLimit, OnTime
<1>2. ASSUME NEW t \in Threads, NEW token \in Tokens, Unauthorized(t, token) PROVE IInv'
  BY <1>2, UnauthorizedInv
<1>3. ASSUME NEW t \in Threads, NEW ip \in Ips, NEW token \in Tokens, ReadClock(t, ip, token)
      PROVE  IInv'
  BY <1>3, ReadClockInv
<1>4. ASSUME NEW t \in Threads, Refuse(t) PROVE IInv'
  BY <1>4, RefuseInv
<1>5. ASSUME NEW t \in Threads, Admit(t) PROVE IInv'
  BY <1>5, AdmitInv
<1>6. CASE Tick
  BY <1>6, TickInv
<1> QED
  BY <1>1, <1>2, <1>3, <1>4, <1>5, <1>6 DEF Next

(* The windows hold no more than the limit and miss nothing that counts,   *)
(* and the threads serve their requests in turn.                           *)
THEOREM LimiterInvariance == Spec => []IInv
  BY InitInv, NextInv, PTL DEF Spec

(* In no window are more than RATE_LIMIT_MAX requests of one address       *)
(* admitted that arrived in it.                                            *)
THEOREM LimitHolds == Spec => []OnTimeWithinLimit
<1>1. IInv => OnTimeWithinLimit
  BY DEF IInv
<1> QED
  BY <1>1, LimiterInvariance, PTL

(* Those held up before the lock are of different threads: the admissions  *)
(* of a window exceed the limit by at most one for each thread.            *)
THEOREM LateOnesAreBounded == Spec => []LateBounded
<1>1. IInv => LateBounded
  <2> SUFFICES ASSUME IInv, NEW ip \in Ips, NEW x \in 0..now
               PROVE  Cardinality(InWindow(ip, x)) <= RateMax + Cardinality(Threads)
    BY DEF LateBounded
  <2> USE LimiterAssumption
  <2> DEFINE late == {a \in admitted : a.ip = ip /\ a.stamp <= x - Window
                                       /\ a.at > x - Window /\ a.at <= x}
             on == OnTime(ip, x)
             f == [a \in late |-> a.thread]
  <2>0. /\ IsFiniteSet(admitted) /\ now \in Nat
        /\ \A a \in admitted : a.stamp \in Nat /\ a.at \in Nat /\ a.thread \in Threads
    BY DEF IInv, TypeOK, Tracked, Admission
  <2>1. InWindow(ip, x) \subseteq on \cup late
    BY <2>0 DEF InWindow, OnTime
  <2>2. f \in Injection(late, Threads)
    <3>1. f \in [late -> Threads]
      BY <2>0
    <3>2. ASSUME NEW a \in late, NEW b \in late, f[a] = f[b]
          PROVE  a = b
      <4>1. a.thread = b.thread
        BY <3>2
      <4>2. a = b \/ a.at <= b.stamp \/ b.at <= a.stamp
        BY <4>1 DEF IInv, ServedInTurn
      <4> QED
        BY <4>2, <2>0
    <3> QED
      BY <3>1, <3>2, Fun_IsInj
  <2>3. on \subseteq admitted /\ Cardinality(on) <= RateMax
    BY DEF OnTime, IInv, OnTimeWithinLimit
  <2> HIDE DEF late, on, f
  <2>4. IsFiniteSet(late) /\ Cardinality(late) <= Cardinality(Threads)
    BY <2>2, ThreadsAssumption, FS_Injection
  <2>5. IsFiniteSet(on)
    BY <2>0, <2>3, FS_Subset
  <2>6. /\ IsFiniteSet(on \cup late) /\ IsFiniteSet(on \cap late)
        /\ Cardinality(on \cup late)
              = Cardinality(on) + Cardinality(late) - Cardinality(on \cap late)
    BY <2>4, <2>5, FS_Union, FS_Subset
  <2>7. /\ Cardinality(on \cap late) \in Nat /\ Cardinality(on) \in Nat
        /\ Cardinality(late) \in Nat /\ Cardinality(Threads) \in Nat
        /\ Cardinality(on \cup late) \in Nat
    BY <2>4, <2>5, <2>6, ThreadsAssumption, FS_CardinalityType
  <2>8. /\ Cardinality(InWindow(ip, x)) <= Cardinality(on \cup late)
        /\ IsFiniteSet(InWindow(ip, x))
    BY <2>1, <2>6, FS_Subset
  <2>9. Cardinality(InWindow(ip, x)) \in Nat
    BY <2>8, FS_CardinalityType
  <2> QED
    BY <2>3, <2>4, <2>6, <2>7, <2>8, <2>9
<1> QED
  BY <1>1, LimiterInvariance, PTL

(* Whenever a request is turned away, RATE_LIMIT_MAX others of its address *)
(* were admitted less than a window before it arrived, or after it did.    *)
THEOREM RefusedForReason == Spec => RefusalsJustified
<1> DEFINE counted(t) == {a \in admitted : a.ip = reading[t].ip
                                           /\ a.at > reading[t].stamp - Window}
           Safe == \A t \in Threads : Refuse(t) => Cardinality(counted(t)) >= RateMax
<1>1. IInv => Safe
  <2> SUFFICES ASSUME IInv, NEW t \in Threads, Refuse(t)
               PROVE  Cardinality(counted(t)) >= RateMax
    OBVIOUS
  <2>1. reading[t] \in Request /\ reading[t].ip \in Ips /\ reading[t].stamp \in Nat
    BY EvictionIsSafe, LimiterAssumption DEF Refuse, Request
  <2>2. Fresh(reading[t]) \subseteq counted(t)
    <3>1. \A a \in Fresh(reading[t]) :
            a \in admitted /\ a.ip = reading[t].ip /\ a.stamp > reading[t].stamp - Window
      BY <2>1, FreshIsPart
    <3>2. \A a \in admitted : a.stamp <= a.at /\ a.stamp \in Nat /\ a.at \in Nat
      BY LimiterAssumption DEF IInv, Tracked, TypeOK, Admission
    <3> QED
      BY <3>1, <3>2, <2>1, LimiterAssumption
  <2>3. counted(t) \subseteq admitted /\ IsFiniteSet(admitted)
    BY DEF IInv, Tracked
  <2> HIDE DEF counted
  <2>4. IsFiniteSet(counted(t)) /\ Cardinality(Fresh(reading[t])) <= Cardinality(counted(t))
    BY <2>2, <2>3, FS_Subset
  <2>5. Cardinality(Fresh(reading[t])) \in Nat /\ Cardinality(counted(t)) \in Nat
    BY <2>1, <2>4, FreshIsPart, FS_CardinalityType
  <2>6. Cardinality(Fresh(reading[t])) >= RateMax
    BY DEF Refuse
  <2> QED
    BY <2>4, <2>5, <2>6, LimiterAssumption
<1>2. IInv /\ [Next]_vars => [Safe]_vars
  BY <1>1
<1>3. [Safe]_vars => [\A t \in Threads :
        Refuse(t) =>
            Cardinality({a \in admitted : a.ip = reading[t].ip
                                          /\ a.at > reading[t].stamp - Window}) >= RateMax]_vars
  OBVIOUS
<1> QED
  BY <1>2, <1>3, LimiterInvariance, PTL DEF Spec, RefusalsJustified

(* Every caller a route lets pass for a role passes every route that asks  *)
(* for less, and with a usable key none passes without a token.            *)
THEOREM RolesAreNested == Spec => []RolesNest
<1>1. TypeOK => RolesNest
  <2> SUFFICES ASSUME TypeOK PROVE RolesNest
    OBVIOUS
  <2>1. ASSUME NEW token \in Tokens
        PROVE  /\ PassesRole(settings, token, "admin") => PassesRole(settings, token, "analyst")
               /\ PassesRole(settings, token, "analyst") => PassesRole(settings, token, "readonly")
               /\ PassesRole(settings, token, "readonly") => PassesApiKey(settings, token)
    BY AccessAssumption DEF PassesRole, PassesApiKey, RoleRank
  <2>2. ParsedKeys(settings.apiKeys) # NoKeys => settings.apiKeys # Unusable
          /\ ParsedKeys(settings.apiKeys) = settings.apiKeys
    BY DEF ParsedKeys
  <2>3. ASSUME ParsedKeys(settings.apiKeys) # NoKeys, NEW token, PassesApiKey(settings, token)
        PROVE  token \in DOMAIN settings.apiKeys
    BY <2>3, <2>2 DEF PassesApiKey, CallerRole
  <2>4. settings.apiKeys # Unusable => None \notin DOMAIN settings.apiKeys
    BY LimiterAssumption DEF TypeOK
  <2>5. ASSUME ParsedKeys(settings.apiKeys) = NoKeys, settings.apiKey # None
        PROVE  ~PassesApiKey(settings, None)
    BY <2>5 DEF PassesApiKey, CallerRole
  <2> QED
    BY <2>1, <2>2, <2>3, <2>4, <2>5 DEF RolesNest
<1>2. IInv => RolesNest
  BY <1>1 DEF IInv
<1> QED
  BY <1>2, LimiterInvariance, PTL
=============================================================================
