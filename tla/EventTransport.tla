--------------------------- MODULE EventTransport ---------------------------
(***************************************************************************)
(* The agent's path from a monitor callback to the server: handle_event's  *)
(* call of EventTransport.enqueue, the background flush loop, the flush    *)
(* that stop() performs in the main thread, crashes and restarts of the    *)
(* process (agent/transport.py, agent/main.py) over the persistent queue   *)
(* of RetryQueue.                                                          *)
(*                                                                         *)
(* Threads: one per monitor (they call enqueue), "loop" (the daemon thread *)
(* event-transport) and "main" (start-up, stop, final flush).  An event is *)
(* named by its place in the order in which the monitors observed events.  *)
(***************************************************************************)
EXTENDS RetryQueue, FiniteSets

CONSTANTS
    Monitors,      \* monitor threads that call handle_event
    MaxQueueSize,  \* MAX_QUEUE_SIZE
    BatchSize,     \* _BATCH_SIZE
    SlowPost,      \* may a POST outlast the FLUSH_INTERVAL + 5 s of stop's join?
    DiskFails,     \* may a call of SQLite raise while the queue is open?
    Malformed,     \* events that the server's schema rejects
    Failing,       \* events whose handling may raise before the server stored them
    MaxEvents      \* bound of the model: events observed in one behaviour

ASSUME TransportAssumption ==
    /\ IsFiniteSet(Monitors) /\ Monitors # {}
    /\ MaxQueueSize \in Nat \ {0}
    /\ BatchSize \in Nat \ {0}
    /\ SlowPost \in BOOLEAN /\ DiskFails \in BOOLEAN
    /\ MaxEvents \in Nat
    /\ Malformed \subseteq 1..MaxEvents /\ Failing \subseteq 1..MaxEvents

VARIABLES
    seen,       \* events observed so far
    mon,        \* per monitor: where its call of enqueue stands
    ev,         \* per monitor: the event it is enqueuing
    pc,         \* where "loop" and "main" stand
    stopping,   \* the Event self._stop
    batch,      \* per flushing thread: the local variable batch of _flush
    todo,       \* per flushing thread: what the server has yet to handle of its request
    late,       \* the same of requests that no thread of the agent waits for
    stored,     \* events the server has stored
    skipped,    \* events the server has passed over: their handling raised
    accepted,   \* history: events that reached the queue
    dropped,    \* history: events removed because the queue was full
    touched,    \* history: flushing threads under whose batch others removed rows
    raced       \* history: a flush has committed after others removed rows

server == <<todo, late, stored, skipped>>
history == <<accepted, dropped, touched, raced>>
vars == <<rows, seen, mon, ev, pc, stopping, batch, server, history>>

Flushers == {"loop", "main"}
Event == 1..MaxEvents

Alive == pc["main"] # "down"
Open == Alive /\ pc["main"] # "closed"
ASet(s) == {s[i] : i \in DOMAIN s}

(* What the server has gone through, for better or worse.                  *)
Handled == stored \cup skipped

Threads(l, m) == [f \in Flushers |-> IF f = "loop" THEN l ELSE m]
InFlight == {f \in Flushers : pc[f] \in {"post", "commit"}}

Init ==
    /\ rows = <<>>
    /\ seen = 0
    /\ mon = [m \in Monitors |-> "idle"]
    /\ ev = [m \in Monitors |-> 0]
    /\ pc = Threads("sleep", "up")
    /\ stopping = FALSE
    /\ batch = [f \in Flushers |-> <<>>]
    /\ todo = [f \in Flushers |-> <<>>] /\ late = {}
    /\ stored = {} /\ skipped = {}
    /\ accepted = {} /\ dropped = {} /\ raced = FALSE
    /\ touched = {}

-----------------------------------------------------------------------------
(* enqueue, in a monitor thread: three separate acquisitions of the lock.  *)

(* Mutants, part of no specification: the size check is off by one; the    *)
(* full queue loses its newest row; the event in hand is lost on overflow. *)
ObserveOffByOne(m) ==
    /\ Open /\ mon[m] = "idle" /\ seen < MaxEvents
    /\ seen' = seen + 1
    /\ ev' = [ev EXCEPT ![m] = seen + 1]
    /\ mon' = [mon EXCEPT ![m] = IF Size > MaxQueueSize THEN "drop" ELSE "put"]
    /\ UNCHANGED <<rows, pc, stopping, batch, server, history>>

DropNewest(m) ==
    /\ Open /\ mon[m] = "drop"
    /\ rows' = SubSeq(rows, 1, Len(rows) - 1)
    /\ dropped' = dropped \cup (ASet(rows) \ ASet(rows'))
    /\ touched' = touched \cup InFlight
    /\ mon' = [mon EXCEPT ![m] = "put"]
    /\ UNCHANGED <<seen, ev, pc, stopping, batch, server, accepted, raced>>

DropForgets(m) ==
    /\ Open /\ mon[m] = "drop"
    /\ Commit(1)
    /\ dropped' = dropped \cup Removed(1)
    /\ touched' = IF rows = <<>> THEN touched ELSE touched \cup InFlight
    /\ mon' = [mon EXCEPT ![m] = "put"]
    /\ ev' = [ev EXCEPT ![m] = 0]
    /\ UNCHANGED <<seen, pc, stopping, batch, server, accepted, raced>>

(* A monitor reports an event: enqueue compares size() with the limit.     *)
Observe(m) ==
    /\ Open /\ mon[m] = "idle" /\ seen < MaxEvents
    /\ seen' = seen + 1
    /\ ev' = [ev EXCEPT ![m] = seen + 1]
    /\ mon' = [mon EXCEPT ![m] = IF Size >= MaxQueueSize THEN "drop" ELSE "put"]
    /\ UNCHANGED <<rows, pc, stopping, batch, server, history>>

(* The queue was full: discard whichever row is now the oldest.            *)
DropOldest(m) ==
    /\ Open /\ mon[m] = "drop"
    /\ Commit(1)
    /\ dropped' = dropped \cup Removed(1)
    /\ touched' = IF rows = <<>> THEN touched ELSE touched \cup InFlight
    /\ mon' = [mon EXCEPT ![m] = "put"]
    /\ UNCHANGED <<seen, ev, pc, stopping, batch, server, accepted, raced>>

PutEvent(m) ==
    /\ Open /\ mon[m] = "put"
    /\ Put(ev[m])
    /\ accepted' = accepted \cup {ev[m]}
    /\ mon' = [mon EXCEPT ![m] = "idle"]
    /\ ev' = [ev EXCEPT ![m] = 0]
    /\ UNCHANGED <<seen, pc, stopping, batch, server, dropped, touched, raced>>

(* sqlite3 raises in size, commit or put (a disk that fails, or a call     *)
(* still running when stop() has closed the connection): the monitor's     *)
(* callback ends and the event is not queued, also if the oldest row has   *)
(* been discarded for it.                                                  *)
EnqueueRaises(m) ==
    /\ Alive /\ (DiskFails \/ ~Open) /\ mon[m] # "idle"
    /\ mon' = [mon EXCEPT ![m] = "idle"]
    /\ ev' = [ev EXCEPT ![m] = 0]
    /\ UNCHANGED <<rows, seen, pc, stopping, batch, server, history>>

-----------------------------------------------------------------------------
(* _flush, in the loop thread or in stop(): peek, post, commit.            *)

(* Mutants, part of no specification: a timeout counts as success;         *)
(* commit(_BATCH_SIZE) in place of the count posted; only a full batch is  *)
(* posted.                                                                 *)
TimeoutIsSuccess(f) ==
    /\ pc[f] = "post"
    /\ late' = late \cup ({todo[f]} \ {<<>>})
    /\ todo' = [todo EXCEPT ![f] = <<>>]
    /\ pc' = [pc EXCEPT ![f] = "commit"]
    /\ UNCHANGED <<rows, seen, mon, ev, stopping, batch, stored, skipped, history>>

CommitFixedCount(f) ==
    /\ Open /\ pc[f] = "commit"
    /\ Commit(BatchSize)
    /\ raced' = (raced \/ f \in touched)
    /\ touched' = (touched \cup InFlight) \ {f}
    /\ batch' = [batch EXCEPT ![f] = <<>>]
    /\ pc' = [pc EXCEPT ![f] = IF f = "main" THEN "close" ELSE "sleep"]
    /\ UNCHANGED <<seen, mon, ev, stopping, server, accepted, dropped>>

(* Where a thread goes when its _flush returns.                            *)
AfterFlush(f) ==
    IF f = "main" THEN "close" ELSE IF stopping THEN "exited" ELSE "sleep"

(* The schema check of the server is all or nothing.                       *)
Acceptable(b) == ASet(b) \cap Malformed = {}

(* Mutant: see above.                                                      *)
PeekFullBatch(f) ==
    /\ Open /\ pc[f] = "peek"
    /\ batch' = [batch EXCEPT ![f] = Peek(BatchSize)]
    /\ todo' = [todo EXCEPT ![f] = IF Acceptable(batch'[f]) THEN batch'[f] ELSE <<>>]
    /\ touched' = touched \ {f}
    /\ pc' = [pc EXCEPT ![f] = IF Len(rows) < BatchSize THEN AfterFlush(f) ELSE "post"]
    /\ UNCHANGED <<rows, seen, mon, ev, stopping, late, stored, skipped,
                   accepted, dropped, raced>>

(* The batch that is posted is what the server has to handle, unless its   *)
(* schema check refuses it.                                                *)
PeekBatch(f) ==
    /\ Open /\ pc[f] = "peek"
    /\ batch' = [batch EXCEPT ![f] = Peek(BatchSize)]
    /\ todo' = [todo EXCEPT ![f] = IF Acceptable(batch'[f]) THEN batch'[f] ELSE <<>>]
    /\ touched' = touched \ {f}
    /\ pc' = [pc EXCEPT ![f] = IF rows = <<>> THEN AfterFlush(f) ELSE "post"]
    /\ UNCHANGED <<rows, seen, mon, ev, stopping, late, stored, skipped,
                   accepted, dropped, raced>>

(* One round of the server's loop over a batch: the event is stored, or an *)
(* exception before that (rules, insert_event) is swallowed.               *)
Handle(e) ==
    \/ stored' = stored \cup {e} /\ skipped' = skipped
    \/ e \in Failing /\ skipped' = skipped \cup {e} /\ stored' = stored

ServerHandles(f) ==
    /\ todo[f] # <<>>
    /\ Handle(Head(todo[f]))
    /\ todo' = [todo EXCEPT ![f] = Tail(todo[f])]
    /\ UNCHANGED <<rows, seen, mon, ev, pc, stopping, batch, late, history>>

(* A 200 in time: the server is through with the batch.  How many of its   *)
(* events it has stored is in the answer, which nobody reads.              *)
PostAccepted(f) ==
    /\ pc[f] = "post" /\ Acceptable(batch[f]) /\ todo[f] = <<>>
    /\ pc' = [pc EXCEPT ![f] = "commit"]
    /\ UNCHANGED <<rows, seen, mon, ev, stopping, batch, server, history>>

(* Refused connection, TLS failure, a server that dies midway, or any      *)
(* status but 200 (the 400 of a malformed batch included): the rows stay.  *)
PostFails(f) ==
    /\ pc[f] = "post"
    /\ pc' = [pc EXCEPT ![f] = AfterFlush(f)]
    /\ batch' = [batch EXCEPT ![f] = <<>>]
    /\ todo' = [todo EXCEPT ![f] = <<>>]
    /\ UNCHANGED <<rows, seen, mon, ev, stopping, late, stored, skipped, history>>

(* No answer within the timeout, or a connection lost: the server may      *)
(* still go on with what is left of the request, if anything is.           *)
PostTimesOut(f) ==
    /\ pc[f] = "post"
    /\ late' = late \cup ({todo[f]} \ {<<>>})
    /\ pc' = [pc EXCEPT ![f] = AfterFlush(f)]
    /\ batch' = [batch EXCEPT ![f] = <<>>]
    /\ todo' = [todo EXCEPT ![f] = <<>>]
    /\ UNCHANGED <<rows, seen, mon, ev, stopping, stored, skipped, history>>

(* The same round for a request nobody waits for.  A member of late stands *)
(* for every request with these events left, so another one may remain.    *)
ServerHandlesLate ==
    \E b \in late :
        /\ Handle(Head(b))
        /\ \E rest \in {late, late \ {b}} : late' = rest \cup ({Tail(b)} \ {<<>>})
        /\ UNCHANGED <<rows, seen, mon, ev, pc, stopping, batch, todo, history>>

(* commit(len(batch)): by number, not by the ids that were posted.         *)
CommitBatch(f) ==
    /\ Open /\ pc[f] = "commit"
    /\ Commit(Len(batch[f]))
    /\ raced' = (raced \/ f \in touched)
    /\ touched' = (touched \cup InFlight) \ {f}
    /\ batch' = [batch EXCEPT ![f] = <<>>]
    /\ pc' = [pc EXCEPT ![f] = AfterFlush(f)]
    /\ UNCHANGED <<seen, mon, ev, stopping, server, accepted, dropped>>

(* sqlite3 raises in a flush of the loop thread (a disk that fails, or the *)
(* connection closed under it).  _loop has no try, so the thread ends; and *)
(* nothing starts it again while main is up.                               *)
LoopRaises ==
    /\ Alive /\ (DiskFails \/ ~Open) /\ pc["loop"] \in {"peek", "commit"}
    /\ pc' = [pc EXCEPT !["loop"] = "exited"]
    /\ batch' = [batch EXCEPT !["loop"] = <<>>]
    /\ UNCHANGED <<rows, seen, mon, ev, stopping, server, history>>

(* time.sleep(FLUSH_INTERVAL) returns; a stop request does not cut it short *)
LoopWakes ==
    /\ pc["loop"] = "sleep"
    /\ pc' = [pc EXCEPT !["loop"] = "peek"]
    /\ UNCHANGED <<rows, seen, mon, ev, stopping, batch, server, history>>

-----------------------------------------------------------------------------
(* The main thread: stop(), the end of the process, crash and restart.     *)

Stop ==
    /\ pc["main"] = "up"
    /\ stopping' = TRUE
    /\ pc' = [pc EXCEPT !["main"] = "join"]
    /\ UNCHANGED <<rows, seen, mon, ev, batch, server, history>>

(* join(timeout=FLUSH_INTERVAL + 5) outlasts the sleep, so it expires only *)
(* on a loop thread that is in a flush whose POST is slow.                 *)
JoinReturns ==
    /\ pc["main"] = "join"
    /\ \/ pc["loop"] = "exited"
       \/ SlowPost /\ pc["loop"] \in {"post", "commit"}
    /\ pc' = [pc EXCEPT !["main"] = "peek"]
    /\ UNCHANGED <<rows, seen, mon, ev, stopping, batch, server, history>>

CloseQueue ==
    /\ pc["main"] = "close"
    /\ pc' = [pc EXCEPT !["main"] = "closed"]
    /\ UNCHANGED <<rows, seen, mon, ev, stopping, batch, server, history>>

(* The process is gone; the table rows are not, nor is a request the       *)
(* server has in hand.                                                     *)
Gone ==
    /\ pc' = Threads("exited", "down")
    /\ mon' = [m \in Monitors |-> "idle"]
    /\ ev' = [m \in Monitors |-> 0]
    /\ batch' = [f \in Flushers |-> <<>>]
    /\ todo' = [f \in Flushers |-> <<>>]
    /\ late' = late \cup ({todo[f] : f \in Flushers} \ {<<>>})
    /\ touched' = {}
    /\ stopping' = FALSE
    /\ UNCHANGED <<rows, seen, stored, skipped, accepted, dropped, raced>>

(* main() returns and its daemon threads die with the process.             *)
ProcessExits == pc["main"] = "closed" /\ Gone

Crash == Open /\ Gone

(* The service manager starts the agent again on the same database file.   *)
Restart ==
    /\ pc["main"] = "down"
    /\ pc' = Threads("sleep", "up")
    /\ UNCHANGED <<rows, seen, mon, ev, stopping, batch, server, history>>

MonitorStep(m) == Observe(m) \/ DropOldest(m) \/ PutEvent(m) \/ EnqueueRaises(m)
FlushStep(f) ==
    PeekBatch(f) \/ PostAccepted(f) \/ PostFails(f) \/ PostTimesOut(f) \/ CommitBatch(f)

Next ==
    \/ \E m \in Monitors : MonitorStep(m)
    \/ \E f \in Flushers : FlushStep(f) \/ ServerHandles(f)
    \/ ServerHandlesLate
    \/ LoopRaises \/ LoopWakes
    \/ Stop \/ JoinReturns \/ CloseQueue \/ ProcessExits \/ Crash \/ Restart

Spec == Init /\ [][Next]_vars

(* A loop thread that can run does run, a POST ends (urlopen has a         *)
(* timeout), and a server that is asked again and again for what its       *)
(* schema accepts gets through a batch and answers 200 in time again and   *)
(* again.  No monitor has to report, nobody has to stop or restart the     *)
(* agent, no late request has to be handled.                               *)
Fairness ==
    /\ WF_vars(FlushStep("loop"))
    /\ WF_vars(LoopWakes)
    /\ []<>(pc["loop"] = "post" /\ Acceptable(batch["loop"]))
        => []<><<PostAccepted("loop")>>_vars

FairSpec == Spec /\ Fairness

-----------------------------------------------------------------------------
(* Properties.                                                             *)

(* Every variable has its type.                                            *)
TypeOK ==
    /\ rows \in Seq(Event)
    /\ seen \in 0..MaxEvents
    /\ mon \in [Monitors -> {"idle", "drop", "put"}]
    /\ ev \in [Monitors -> 0..MaxEvents]
    /\ pc \in [Flushers -> {"sleep", "peek", "post", "commit", "exited",
                            "up", "join", "close", "closed", "down"}]
    /\ stopping \in BOOLEAN
    /\ batch \in [Flushers -> Seq(Event)]
    /\ todo \in [Flushers -> Seq(Event)]
    /\ late \subseteq Seq(Event) \ {<<>>}
    /\ stored \subseteq Event
    /\ skipped \subseteq Failing
    /\ accepted \subseteq Event
    /\ dropped \subseteq Event
    /\ touched \subseteq Flushers
    /\ raced \in BOOLEAN

(* enqueue's check and its put are apart, so MAX_QUEUE_SIZE may be passed; *)
(* but by no more than one row per monitor thread beyond the first, calls  *)
(* under way included.                                                     *)
Putting == {m \in Monitors : mon[m] = "put"}
QueueBound == Len(rows) + Cardinality(Putting) <= MaxQueueSize + Cardinality(Monitors) - 1

(* A batch no other thread has removed rows under is still the front of    *)
(* the table while it is posted and committed: what commit(len(batch))     *)
(* deletes is then what was posted.                                        *)
BatchIsFront ==
    \A f \in InFlight \ touched :
        /\ Len(batch[f]) <= Len(rows)
        /\ \A i \in 1..Len(batch[f]) : rows[i] = batch[f][i]

(* Every event that entered the queue is there, is stored, was passed over *)
(* by the server or was dropped for want of room, unless a flush committed *)
(* after another thread had removed rows under its batch.                  *)
Accounted == raced \/ accepted \subseteq ASet(rows) \cup stored \cup skipped \cup dropped

(* The server never handles an event while an older row that it has not    *)
(* gone through still waits: its way through the queue is a front of the   *)
(* queue, through batches half handled, retries, late requests, overflow,  *)
(* overlapping flushes and crashes.                                        *)
NoOvertaking ==
    \A i, j \in 1..Len(rows) : i < j /\ rows[j] \in Handled => rows[i] \in Handled

(* While a batch is posted, the server has gone through all of it but what *)
(* it has in hand; between the 200 and the commit, through all of it.      *)
BatchIsHandled ==
    \A f \in Flushers :
        /\ pc[f] = "post" /\ Acceptable(batch[f])
            => ASet(batch[f]) \subseteq Handled \cup ASet(todo[f])
        /\ pc[f] = "commit" => ASet(batch[f]) \subseteq Handled

(* A call of enqueue under way has an event in hand.                       *)
Enqueuing == \A m \in Monitors : mon[m] # "idle" => ev[m] \in Event

(* The inductive invariant behind QueueBound, BatchIsFront and Accounted:  *)
(* no step of any thread, crash or restart leads out of it.                *)
IInv ==
    TypeOK /\ Enqueuing /\ QueueBound /\ BatchIsFront /\ BatchIsHandled /\ Accounted

(* A flush removes only events that the server has stored.                 *)
FlushRemovesDelivered ==
    [][\A f \in Flushers : CommitBatch(f) => Removed(Len(batch[f])) \subseteq stored]_vars

(* A flush under whose batch no other thread removed rows, with an         *)
(* overflow, a second flush or a crash elsewhere, deletes only what the    *)
(* server has gone through: nothing that a request timed out on.           *)
UntouchedFlushIsSafe ==
    [][\A f \in Flushers :
        CommitBatch(f) /\ f \notin touched
            => Removed(Len(batch[f])) \subseteq Handled]_vars

(* With one monitor the table never holds more than MAX_QUEUE_SIZE rows.   *)
WithinLimit == Len(rows) <= MaxQueueSize

(* The transport is an outbox of bounded loss (one flush at a time).       *)
Box == INSTANCE Outbox WITH queue <- rows, drops <- Cardinality(dropped)
IsOutbox == Box!Spec

(* If no event is malformed (one blocks those it is posted with for ever)  *)
(* and the agent is in the end left running with its loop thread alive,    *)
(* every event that reached the queue is stored or passed over by the      *)
(* server, dropped by an overflow, or lost to the race of Accounted:       *)
(* retries never stop short of that.                                       *)
EventuallyHandled ==
    Malformed = {} /\ <>[](pc["main"] = "up" /\ pc["loop"] # "exited")
        => \A e \in Event : (e \in accepted) ~> (raced \/ e \in Handled \cup dropped)

=============================================================================
