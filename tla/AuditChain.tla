----------------------------- MODULE AuditChain -----------------------------
(***************************************************************************)
(* The server's audit_chain table (server/database.py): appending an       *)
(* event's record to the chain of its host, and the retention purge.       *)
(*                                                                         *)
(* database.py guards the table with a lock of its own process.  A process *)
(* is therefore inside at most one append, and never purges during one;    *)
(* processes that share a PostgreSQL database share no lock.               *)
(***************************************************************************)
EXTENDS HashChain, FiniteSets

CONSTANTS
    Processes,   \* server processes on the one database
    Hosts,       \* hostnames
    Event,       \* event payloads, of any host
    Retention,   \* shortest retention a purge is asked for, in ticks
    MaxTime,     \* bound of the model: ticks of the clock
    MaxRows      \* bound of the model: appends begun in one behaviour

ASSUME AuditAssumption ==
    /\ Retention \in Nat
    /\ MaxTime \in Nat
    /\ MaxRows \in Nat

VARIABLES
    chain,      \* per host: its rows in the order of id
    appending,  \* per process: the append it is inside, if any
    nextId,     \* the next AUTOINCREMENT id
    now         \* the clock; it never goes back

vars == <<chain, appending, nextId, now>>

Nobody == [hostname |-> "none"]
Idle(p) == appending[p] = Nobody

(* Mutant, part of no specification: ORDER BY id ASC.                      *)
HeadHash(h) == IF chain[h] = <<>> THEN Genesis ELSE chain[h][1].record_hash

(* _tail_server_hash: the record_hash of the host's row with the highest id *)
TailHash(h) == IF chain[h] = <<>> THEN Genesis ELSE chain[h][Len(chain[h])].record_hash

Init ==
    /\ chain = [h \in Hosts |-> <<>>]
    /\ appending = [p \in Processes |-> Nobody]
    /\ nextId = 1
    /\ now = 0

-----------------------------------------------------------------------------
(* append_audit_record, from the SELECT of the tail ...                    *)
BeginAppend(p, h, e) ==
    /\ Idle(p) /\ nextId <= MaxRows
    /\ appending' = [appending EXCEPT ![p] =
            [hostname |-> h, event |-> e, prev_hash |-> TailHash(h)]]
    /\ UNCHANGED <<chain, nextId, now>>

(* Mutant, part of no specification: prev_hash is left out of what is     *)
(* hashed.                                                                 *)
UnchainedRow(a) ==
    [hostname |-> a.hostname, event |-> a.event, recorded_at |-> now,
     prev_hash |-> a.prev_hash, record_hash |-> Digest(Genesis, <<a.hostname, a.event>>)]

NewRow(a) ==
    [hostname |-> a.hostname, event |-> a.event, recorded_at |-> now,
     prev_hash |-> a.prev_hash, record_hash |-> Digest(a.prev_hash, <<a.hostname, a.event>>)]

(* record_hash is UNIQUE: an equal hash raises IntegrityError, swallowed.  *)
AlreadyRecorded(row) ==
    \E h \in Hosts : \E i \in DOMAIN chain[h] : chain[h][i].record_hash = row.record_hash

(* ... to the INSERT of the row.                                           *)
EndAppend(p) ==
    LET a == appending[p] IN
    /\ ~Idle(p)
    /\ chain' = IF AlreadyRecorded(NewRow(a)) THEN chain
                ELSE [chain EXCEPT ![a.hostname] = Append(chain[a.hostname], NewRow(a))]
    /\ appending' = [appending EXCEPT ![p] = Nobody]
    /\ nextId' = nextId + 1
    /\ UNCHANGED now

(* purge_old_records, from the retention worker or from the admin route.   *)
(* The clock never goes back, so the rows older than the cutoff come first *)
(* (SortedByTime) and are counted off the front.                           *)
Older(s, cutoff) == {i \in DOMAIN s : s[i].recorded_at < cutoff}

(* Mutant, part of no specification: the first row is spared.              *)
KeptWithFirst(s, cutoff) ==
    IF Older(s, cutoff) = {} THEN s
    ELSE <<s[1]>> \o SubSeq(s, Cardinality(Older(s, cutoff)) + 1, Len(s))

Kept(s, cutoff) == SubSeq(s, Cardinality(Older(s, cutoff)) + 1, Len(s))

Purge(p, cutoff) ==
    /\ Idle(p)
    /\ cutoff + Retention <= now
    /\ chain' = [h \in Hosts |-> Kept(chain[h], cutoff)]
    /\ UNCHANGED <<appending, nextId, now>>

Tick ==
    /\ now < MaxTime
    /\ now' = now + 1
    /\ UNCHANGED <<chain, appending, nextId>>

Next ==
    \/ \E p \in Processes, h \in Hosts, e \in Event : BeginAppend(p, h, e)
    \/ \E p \in Processes : EndAppend(p)
    \/ \E p \in Processes, cutoff \in 1..MaxTime : Purge(p, cutoff)
    \/ Tick

Spec == Init /\ [][Next]_vars

-----------------------------------------------------------------------------
(* Properties.                                                             *)

Content == Hosts \X Event
Hash == Seq(Content)
Rows == [hostname : Hosts, event : Event, recorded_at : Nat, prev_hash : Hash,
         record_hash : Hash]

(* Every variable has its type.                                            *)
TypeOK ==
    /\ chain \in [Hosts -> Seq(Rows)]
    /\ appending \in [Processes ->
            {Nobody} \cup [hostname : Hosts, event : Event, prev_hash : Hash]]
    /\ nextId \in Nat
    /\ now \in Nat

(* Each row carries the hash of the row before it, whatever appends, hosts *)
(* and purges came between.                                                *)
Linked ==
    \A h \in Hosts : \A i \in 1..Len(chain[h]) - 1 :
        chain[h][i + 1].prev_hash = chain[h][i].record_hash

(* A purge removes rows from the front only, an append adds one at the     *)
(* end: nothing rewrites, reorders or inserts a row in between.            *)
OnlyEndsChange ==
    [][\A h \in Hosts :
        \/ chain'[h] # <<>> /\ chain'[h] = Append(chain[h], chain'[h][Len(chain'[h])])
        \/ \E n \in 0..Len(chain[h]) : chain'[h] = SubSeq(chain[h], n + 1, Len(chain[h]))]_vars

(* A row's hash commits to every earlier row of its host in the table: the *)
(* hash of a row extends the hash of each one before.  A purge that leaves *)
(* a host no row lets its next row start from Genesis again.               *)
Extends(s, t) == Len(s) < Len(t) /\ \A k \in 1..Len(s) : t[k] = s[k]
CommitsToHistory ==
    \A h \in Hosts : \A i, j \in DOMAIN chain[h] :
        i < j => Extends(chain[h][i].record_hash, chain[h][j].record_hash)

(* Each row stands in the chain of its host, with the hash of its contents. *)
Sound ==
    \A h \in Hosts : \A i \in DOMAIN chain[h] :
        LET r == chain[h][i] IN
        r.hostname = h /\ r.record_hash = Digest(r.prev_hash, <<r.hostname, r.event>>)

(* The tail an append has read is still the tail when it inserts: this is  *)
(* what the lock is for, and what two processes do not have.               *)
TailIsCurrent ==
    \A p \in Processes :
        ~Idle(p) => appending[p].prev_hash = TailHash(appending[p].hostname)

(* The inductive invariant behind Linked, CommitsToHistory and             *)
(* NoAppendSwallowed, for one process.                                     *)
IInv == TypeOK /\ Sound /\ TailIsCurrent /\ Linked /\ CommitsToHistory

(* The swallowed IntegrityError never costs a record: no append in         *)
(* progress is about to meet its own hash, even when the same event is     *)
(* delivered twice.                                                        *)
NoAppendSwallowed ==
    \A p \in Processes : ~Idle(p) => ~AlreadyRecorded(NewRow(appending[p]))

(* Rows come in the order of their time, so what a purge deletes is a      *)
(* front of the chain.                                                     *)
SortedByTime ==
    \A h \in Hosts : \A i, j \in DOMAIN chain[h] :
        i < j => chain[h][i].recorded_at <= chain[h][j].recorded_at

=============================================================================
