---------------------------- MODULE RateLimiter -----------------------------
(***************************************************************************)
(* Admission to POST /api/v1/events: require_api_key, then the sliding     *)
(* window of rate_limit (server/auth.py).  A request's thread reads the    *)
(* clock, and may be held up before it takes the lock under which the      *)
(* window is moved, counted and extended.                                  *)
(*                                                                         *)
(* _ip_timestamps[ip] is a list of clock readings of which only number and *)
(* values count: it is the set times[ip] of the admissions it was extended *)
(* for, each with its reading stamp; at is the time of the admission.      *)
(***************************************************************************)
EXTENDS AccessControl, RequestThreads

CONSTANTS
    Ips,          \* remote addresses
    Tokens,       \* tokens that requests carry, None among them
    Settings,     \* the configurations a server may be started with
    RateMax,      \* RATE_LIMIT_MAX
    Window,       \* RATE_LIMIT_WINDOW_SECS, in ticks
    MaxRequests,  \* bound of the model: requests
    MaxTime       \* bound of the model: ticks of the clock

ASSUME LimiterAssumption ==
    /\ RateMax \in Nat \ {0} /\ Window \in Nat \ {0}
    /\ MaxRequests \in Nat /\ MaxTime \in Nat
    /\ \A s \in Settings :
        s.apiKeys # Unusable => None \notin DOMAIN s.apiKeys

VARIABLES
    settings,  \* ITDN_API_KEYS and ITDN_API_KEY, fixed when the server starts
    now,       \* time.monotonic(), in ticks
    reading,   \* per thread: the request between its clock reading and the lock
    times,     \* _ip_timestamps
    requests,  \* requests so far; numbers them
    admitted   \* history: every admission

vars == <<settings, now, reading, times, requests, admitted>>

Idle == [id |-> 0]
Request == [id : 1..MaxRequests, thread : Threads, ip : Ips, stamp : 0..MaxTime]
Admission == [id : 1..MaxRequests, thread : Threads, ip : Ips, stamp : 0..MaxTime,
              at : 0..MaxTime]

Init ==
    /\ settings \in Settings
    /\ now = 0
    /\ reading = [t \in Threads |-> Idle]
    /\ times = [ip \in Ips |-> {}]
    /\ requests = 0
    /\ admitted = {}

(* A request without a known key is answered 401 and leaves no trace.      *)
Unauthorized(t, token) ==
    /\ reading[t] = Idle /\ requests < MaxRequests
    /\ ~PassesApiKey(settings, token)
    /\ requests' = requests + 1
    /\ UNCHANGED <<settings, now, reading, times, admitted>>

ReadClock(t, ip, token) ==
    /\ reading[t] = Idle /\ requests < MaxRequests
    /\ PassesApiKey(settings, token)
    /\ requests' = requests + 1
    /\ reading' = [reading EXCEPT ![t] =
            [id |-> requests + 1, thread |-> t, ip |-> ip, stamp |-> now]]
    /\ UNCHANGED <<settings, now, times, admitted>>

(* Mutants, part of no specification: a window that is one tick short;     *)
(* nothing is evicted.                                                     *)
ShortWindow(r) == {a \in times[r.ip] : a.stamp > r.stamp - Window + 1}
NothingEvicted(r) == times[r.ip]

(* What request r leaves of its address's window.                          *)
Fresh(r) == {a \in times[r.ip] : a.stamp > r.stamp - Window}

(* The eviction stays even when the request is then refused.               *)
Refuse(t) ==
    LET r == reading[t] IN
    /\ r # Idle
    /\ Cardinality(Fresh(r)) >= RateMax
    /\ times' = [times EXCEPT ![r.ip] = Fresh(r)]
    /\ reading' = [reading EXCEPT ![t] = Idle]
    /\ UNCHANGED <<settings, now, requests, admitted>>

(* Mutant, part of no specification: one request too many.                 *)
AdmitOneMore(t) ==
    LET r == reading[t] IN
    /\ r # Idle
    /\ Cardinality(Fresh(r)) <= RateMax
    /\ LET a == [id |-> r.id, thread |-> t, ip |-> r.ip, stamp |-> r.stamp, at |-> now] IN
       /\ times' = [times EXCEPT ![r.ip] = Fresh(r) \cup {a}]
       /\ admitted' = admitted \cup {a}
    /\ reading' = [reading EXCEPT ![t] = Idle]
    /\ UNCHANGED <<settings, now, requests>>

Admit(t) ==
    LET r == reading[t] IN
    /\ r # Idle
    /\ Cardinality(Fresh(r)) < RateMax
    /\ LET a == [id |-> r.id, thread |-> t, ip |-> r.ip, stamp |-> r.stamp, at |-> now] IN
       /\ times' = [times EXCEPT ![r.ip] = Fresh(r) \cup {a}]
       /\ admitted' = admitted \cup {a}
    /\ reading' = [reading EXCEPT ![t] = Idle]
    /\ UNCHANGED <<settings, now, requests>>

Tick ==
    /\ now < MaxTime
    /\ now' = now + 1
    /\ UNCHANGED <<settings, reading, times, requests, admitted>>

Next ==
    \/ \E t \in Threads, token \in Tokens : Unauthorized(t, token)
    \/ \E t \in Threads, ip \in Ips, token \in Tokens : ReadClock(t, ip, token)
    \/ \E t \in Threads : Refuse(t) \/ Admit(t)
    \/ Tick

Spec == Init /\ [][Next]_vars

-----------------------------------------------------------------------------
(* Properties.                                                             *)

(* Every variable has its type.                                            *)
TypeOK ==
    /\ settings \in Settings
    /\ now \in 0..MaxTime
    /\ reading \in [Threads -> Request \cup {Idle}]
    /\ times \in [Ips -> SUBSET Admission]
    /\ requests \in 0..MaxRequests
    /\ admitted \subseteq Admission

(* Requests of an address admitted by time x that read the clock within    *)
(* the window that ends there, and all that were admitted in that window.  *)
OnTime(ip, x) == {a \in admitted : a.ip = ip /\ a.stamp > x - Window /\ a.at <= x}
InWindow(ip, x) == {a \in admitted : a.ip = ip /\ a.at > x - Window /\ a.at <= x}

(* In no window of RATE_LIMIT_WINDOW_SECS, wherever it ends, are more than *)
(* RATE_LIMIT_MAX requests of one address admitted that arrived in it,     *)
(* whatever late threads do to the list in between.                        *)
OnTimeWithinLimit == \A ip \in Ips, x \in 0..now : Cardinality(OnTime(ip, x)) <= RateMax

(* The window of an address: it holds no more than the limit, all of it    *)
(* admitted, and nothing is missing that counts now or will again.         *)
Tracked ==
    /\ IsFiniteSet(admitted)
    /\ \A ip \in Ips :
        /\ times[ip] \subseteq {a \in admitted : a.ip = ip}
        /\ Cardinality(times[ip]) <= RateMax
    /\ \A a \in admitted :
        /\ a.stamp <= a.at /\ a.at <= now
        /\ a.stamp > now - Window => a \in times[a.ip]

(* A thread serves one request after another.                              *)
ServedInTurn ==
    /\ \A t \in Threads : reading[t] # Idle =>
        /\ reading[t].thread = t /\ reading[t].stamp <= now
        /\ \A a \in admitted : a.thread = t => a.at <= reading[t].stamp
    /\ \A a, b \in admitted :
        a.thread = b.thread => a = b \/ a.at <= b.stamp \/ b.at <= a.stamp

(* The inductive invariant behind the limits: what a late thread evicts    *)
(* with its old clock is too old for every later one as well.              *)
IInv == TypeOK /\ Tracked /\ ServedInTurn /\ OnTimeWithinLimit

(* Requests held up before the lock come on top, but no more than one for  *)
(* each thread of the server.                                              *)
LateBounded ==
    \A ip \in Ips, x \in 0..now :
        Cardinality(InWindow(ip, x)) <= RateMax + Cardinality(Threads)

(* No address is refused for what it was refused: whenever a request is    *)
(* turned away, RATE_LIMIT_MAX others of its address were admitted less    *)
(* than a window before it arrived, or after it did.                       *)
RefusalsJustified ==
    [][\A t \in Threads :
        Refuse(t) =>
            Cardinality({a \in admitted : a.ip = reading[t].ip
                                          /\ a.at > reading[t].stamp - Window}) >= RateMax]_vars

(* A caller that some route lets pass for a role passes every route that   *)
(* asks for less, and as long as a usable key is configured a caller       *)
(* without a token passes none; a shared key opens nothing beside a map.   *)
RolesNest ==
    /\ \A token \in Tokens :
        /\ PassesRole(settings, token, "admin") => PassesRole(settings, token, "analyst")
        /\ PassesRole(settings, token, "analyst") => PassesRole(settings, token, "readonly")
        /\ PassesRole(settings, token, "readonly") => PassesApiKey(settings, token)
    /\ ParsedKeys(settings.apiKeys) # NoKeys =>
        \A token \in Tokens :
            PassesApiKey(settings, token) => token \in DOMAIN settings.apiKeys
    /\ settings.apiKey # None \/ ParsedKeys(settings.apiKeys) # NoKeys =>
        ~PassesApiKey(settings, None)

=============================================================================
