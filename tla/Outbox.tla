------------------------------- MODULE Outbox -------------------------------
(***************************************************************************)
(* What the agent's transport promises to the monitors: an at-least-once,  *)
(* first-in first-out outbox of bounded loss, to a server that may pass    *)
(* over an event.  Nothing here speaks of threads, batches, locks,         *)
(* timeouts or processes.                                                  *)
(***************************************************************************)
EXTENDS Integers, Sequences, FiniteSets

CONSTANT Event

VARIABLES
    accepted,   \* events handed over
    queue,      \* events kept on the agent's disk
    stored,     \* events the server has stored
    skipped,    \* events the server has passed over
    drops       \* overflows so far

vars == <<accepted, queue, stored, skipped, drops>>

Queued == {queue[i] : i \in DOMAIN queue}

Handled == stored \cup skipped

(* Events that are gone without the server having gone through them.       *)
Missing == accepted \ (Handled \cup Queued)

(* Each overflow pays for at most one missing event.                       *)
Paid == Cardinality(Missing) <= drops

(* What the server has gone through of the queue is a front of it.         *)
InOrder ==
    \A i, j \in DOMAIN queue : i < j /\ queue[j] \in Handled => queue[i] \in Handled

Init == accepted = {} /\ queue = <<>> /\ stored = {} /\ skipped = {} /\ drops = 0

Accept(e) ==
    /\ e \notin accepted
    /\ accepted' = accepted \cup {e}
    /\ queue' = Append(queue, e)
    /\ UNCHANGED <<stored, skipped, drops>>

(* The server handles one event, again if need be.                         *)
Deliver(e) ==
    /\ \/ stored' = stored \cup {e} /\ skipped' = skipped
       \/ skipped' = skipped \cup {e} /\ stored' = stored
    /\ InOrder'
    /\ UNCHANGED <<accepted, queue, drops>>

Release(n) ==
    /\ queue' = SubSeq(queue, n + 1, Len(queue))
    /\ Paid'
    /\ UNCHANGED <<accepted, stored, skipped, drops>>

Overflow ==
    /\ queue # <<>>
    /\ queue' = Tail(queue)
    /\ drops' = drops + 1
    /\ Paid'
    /\ UNCHANGED <<accepted, stored, skipped>>

Next ==
    \/ \E e \in Event : Accept(e)
    \/ \E e \in accepted : Deliver(e)
    \/ \E n \in 1..Len(queue) : Release(n)
    \/ Overflow

Spec == Init /\ [][Next]_vars
=============================================================================
