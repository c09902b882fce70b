----------------------- MODULE EventTransport_proofs -----------------------
(***************************************************************************)
(* Proofs about EventTransport, for every number of monitors, queue limit, *)
(* batch size and number of events.                                        *)
(***************************************************************************)
EXTENDS EventTransport, DataLemmas, FiniteSetTheorems

-----------------------------------------------------------------------------
(* commit(count) of a typed table: how many rows go, and what remains.     *)
LEMMA CommitFacts ==
    ASSUME NEW S, rows \in Seq(S), NEW count \in Nat
    PROVE  LET n == Limited(count)
               t == SubSeq(rows, n + 1, Len(rows)) IN
           /\ n \in 0..Len(rows) /\ n <= count
           /\ t \in Seq(S)
           /\ Len(t) = Len(rows) - n
           /\ \A i \in 1..Len(t) : t[i] = rows[n + i]
           /\ ASet(rows) = ASet(t) \cup Removed(count)
<1> DEFINE n == Limited(count)
           t == SubSeq(rows, n + 1, Len(rows))
<1>1. Len(rows) \in Nat /\ DOMAIN rows = 1..Len(rows)
  BY LenProperties
<1>2. n \in 0..Len(rows) /\ n <= count
  BY <1>1 DEF Limited
<1>3. /\ t \in Seq(S)
      /\ Len(t) = Len(rows) - n
      /\ \A i \in 1..Len(t) : t[i] = rows[n + i]
  BY <1>2, TailFacts
<1>4. DOMAIN t = 1..Len(t) /\ Len(t) \in Nat
  BY <1>3, LenProperties
<1> HIDE DEF n, t
<1>5. ASSUME NEW i \in 1..Len(rows)
      PROVE  rows[i] \in ASet(t) \cup Removed(count)
  <2>1. CASE i <= n
    BY <2>1, <1>1, <1>2 DEF Removed, n
  <2>2. CASE i > n
    <3>1. i - n \in 1..Len(t) /\ t[i - n] = rows[n + (i - n)]
      BY <2>2, <1>1, <1>2, <1>3
    <3>2. n + (i - n) = i
      BY <1>1, <1>2
    <3> QED
      BY <3>1, <3>2, <1>4 DEF ASet
  <2> QED
    BY <2>1, <2>2, <1>1, <1>2
<1>6. ASSUME NEW i \in 1..Len(t)
      PROVE  t[i] \in ASet(rows)
  <2>1. n + i \in 1..Len(rows)
    BY <1>1, <1>2, <1>3
  <2> QED
    BY <2>1, <1>1, <1>3 DEF ASet
<1>7. Removed(count) \subseteq ASet(rows)
  BY <1>1, <1>2 DEF Removed, ASet, n
<1>8. ASet(rows) = ASet(t) \cup Removed(count)
  BY <1>1, <1>4, <1>5, <1>6, <1>7 DEF ASet
<1> QED
  BY <1>2, <1>3, <1>8 DEF n, t
(* The oldest row of a table that has one.                                 *)
LEMMA OldestOne ==
    ASSUME Len(rows) \in Nat, Len(rows) # 0
    PROVE  Limited(1) = 1
<1>1. \A k \in Nat : k # 0 => (IF 1 < k THEN 1 ELSE k) = 1
  OBVIOUS
<1> QED
  BY <1>1 DEF Limited

-----------------------------------------------------------------------------
(* The calls under way are finitely many, and one call's step changes      *)
(* their number by at most one.                                            *)
LEMMA PuttingFinite ==
    /\ IsFiniteSet(Putting)
    /\ Cardinality(Putting) \in Nat
    /\ Cardinality(Monitors) \in Nat
    /\ Cardinality(Putting) <= Cardinality(Monitors)
<1>1. Putting \in SUBSET Monitors
  BY DEF Putting
<1> QED
  BY <1>1, TransportAssumption, FS_Subset, FS_CardinalityType

(* A monitor that was idle or about to drop, and is now about to put.      *)
LEMMA PuttingGrows ==
    ASSUME NEW m \in Monitors, mon \in [Monitors -> {"idle", "drop", "put"}],
           mon[m] # "put", mon' = [mon EXCEPT ![m] = "put"]
    PROVE  Cardinality(Putting') = Cardinality(Putting) + 1
<1>1. Putting' = Putting \cup {m} /\ m \notin Putting
  BY DEF Putting
<1> QED
  BY <1>1, PuttingFinite, FS_AddElement

(* A monitor whose put is done, or came to nothing.                        *)
LEMMA PuttingShrinks ==
    ASSUME NEW m \in Monitors, mon \in [Monitors -> {"idle", "drop", "put"}],
           mon' = [mon EXCEPT ![m] = "idle"]
    PROVE  Cardinality(Putting') =
               IF mon[m] = "put" THEN Cardinality(Putting) - 1 ELSE Cardinality(Putting)
<1>1. Putting' = Putting \ {m} /\ (m \in Putting <=> mon[m] = "put")
  BY DEF Putting
<1> QED
  BY <1>1, PuttingFinite, FS_RemoveElement

-----------------------------------------------------------------------------
(* IInv holds initially.                                                   *)
LEMMA InitIInv == Init => IInv
<1> SUFFICES ASSUME Init PROVE IInv
  OBVIOUS
<1>1. rows = <<>> /\ <<>> \in Seq(Event) /\ Len(<<>>) = 0
  BY EmptySeq DEF Init
<1>2. TypeOK
  <2>1. seen \in 0..MaxEvents /\ ev \in [Monitors -> 0..MaxEvents]
    BY TransportAssumption DEF Init
  <2>2. pc \in [Flushers -> {"sleep", "peek", "post", "commit", "exited",
                            "up", "join", "close", "closed", "down"}]
    BY DEF Init, Threads
  <2>3. batch \in [Flushers -> Seq(Event)] /\ todo \in [Flushers -> Seq(Event)]
    BY <1>1 DEF Init
  <2> QED
    BY <1>1, <2>1, <2>2, <2>3 DEF Init, TypeOK
<1>3. Putting = {} /\ InFlight = {}
  BY DEF Init, Putting, InFlight, Threads, Flushers
<1>4. QueueBound
  <2>1. Cardinality(Monitors) # 0
    BY TransportAssumption, FS_EmptySet
  <2> QED
    BY <1>1, <1>3, <2>1, PuttingFinite, FS_EmptySet, TransportAssumption DEF QueueBound
<1>5. Enqueuing /\ BatchIsFront /\ BatchIsHandled /\ Accounted
  BY <1>3 DEF Init, Enqueuing, BatchIsFront, BatchIsHandled, Accounted,
              Threads, Flushers, InFlight
<1> QED
  BY <1>2, <1>4, <1>5 DEF IInv

(* A monitor's size check.                                                 *)
LEMMA ObserveStep ==
    ASSUME IInv, NEW m \in Monitors, Observe(m)
    PROVE  IInv'
<1> USE DEF IInv
<1>1. TypeOK'
  BY TransportAssumption DEF TypeOK, Observe, server, history, Event
<1>2. Enqueuing'
  BY TransportAssumption DEF TypeOK, Enqueuing, Observe, Event
<1>3. QueueBound'
  <2>1. Len(rows) \in Nat /\ rows' = rows
    BY LenProperties DEF TypeOK, Observe
  <2>2. CASE Size >= MaxQueueSize
    <3>1. Putting' = Putting
      BY <2>2 DEF Observe, Putting, TypeOK
    <3> QED
      BY <2>1, <3>1 DEF QueueBound
  <2>3. CASE ~(Size >= MaxQueueSize)
    <3>1. Cardinality(Putting') = Cardinality(Putting) + 1
      BY <2>3, PuttingGrows DEF Observe, TypeOK
    <3>2. Cardinality(Putting') <= Cardinality(Monitors)
      <4>1. Putting' \in SUBSET Monitors
        BY DEF Putting
      <4> QED
        BY <4>1, TransportAssumption, FS_Subset
    <3> QED
      BY <2>1, <2>3, <3>1, <3>2, PuttingFinite, TransportAssumption DEF QueueBound, Size
  <2> QED
    BY <2>2, <2>3
<1>4. BatchIsFront' /\ BatchIsHandled' /\ Accounted'
  BY DEF Observe, BatchIsFront, BatchIsHandled, Accounted, InFlight, Handled, server, history
<1> QED
  BY <1>1, <1>2, <1>3, <1>4

(* The drop of a full queue.                                               *)
LEMMA DropOldestStep ==
    ASSUME IInv, NEW m \in Monitors, DropOldest(m)
    PROVE  IInv'
<1> USE DEF IInv
<1>0. rows \in Seq(Event) /\ Len(rows) \in Nat
  BY LenProperties DEF TypeOK
<1>1. /\ Limited(1) \in 0..Len(rows) /\ Limited(1) <= 1
      /\ rows' \in Seq(Event)
      /\ Len(rows') = Len(rows) - Limited(1)
      /\ \A i \in 1..Len(rows') : rows'[i] = rows[Limited(1) + i]
      /\ ASet(rows) = ASet(rows') \cup Removed(1)
  BY <1>0, CommitFacts DEF DropOldest, Commit
<1>2. Removed(1) \subseteq Event
  BY <1>0, <1>1, ElementOfSeq DEF Removed
<1>3. TypeOK'
  BY <1>1, <1>2 DEF TypeOK, DropOldest, server, InFlight
<1>4. Enqueuing'
  BY DEF TypeOK, Enqueuing, DropOldest
<1>5. QueueBound'
  <2>1. Cardinality(Putting') = Cardinality(Putting) + 1
    BY PuttingGrows DEF DropOldest, TypeOK
  <2>2. CASE Len(rows) = 0
    <3>1. Cardinality(Putting') <= Cardinality(Monitors)
      <4>1. Putting' \in SUBSET Monitors
        BY DEF Putting
      <4> QED
        BY <4>1, TransportAssumption, FS_Subset
    <3> QED
      BY <1>1, <2>1, <2>2, <3>1, PuttingFinite, TransportAssumption DEF QueueBound
  <2>3. CASE Len(rows) # 0
    <3>1. Limited(1) = 1
      BY <1>0, <2>3, OldestOne
    <3> QED
      BY <1>0, <1>1, <2>1, <3>1, PuttingFinite, TransportAssumption DEF QueueBound
  <2> QED
    BY <2>2, <2>3
<1>6. BatchIsFront'
  <2>1. InFlight' = InFlight /\ batch' = batch
    BY DEF DropOldest, InFlight
  <2>2. CASE rows = <<>>
    <3>1. Len(rows) = 0 /\ Len(rows') = 0 /\ touched' = touched
      BY <1>0, <1>1, <2>2, EmptySeq DEF DropOldest
    <3>2. ASSUME NEW f \in InFlight \ touched
          PROVE  Len(batch[f]) = 0
      <4>1. Len(batch[f]) \in Nat
        BY LenProperties DEF TypeOK, InFlight
      <4> QED
        BY <3>1, <4>1 DEF BatchIsFront
    <3> QED
      BY <2>1, <3>1, <3>2 DEF BatchIsFront
  <2>3. CASE rows # <<>>
    BY <2>1, <2>3 DEF DropOldest, BatchIsFront
  <2> QED
    BY <2>2, <2>3
<1>7. BatchIsHandled' /\ Accounted'
  BY <1>1 DEF DropOldest, BatchIsHandled, Accounted, Handled, server
<1> QED
  BY <1>3, <1>4, <1>5, <1>6, <1>7

(* The put.                                                                *)
LEMMA PutEventStep ==
    ASSUME IInv, NEW m \in Monitors, PutEvent(m)
    PROVE  IInv'
<1> USE DEF IInv
<1>0. rows \in Seq(Event) /\ Len(rows) \in Nat /\ ev[m] \in Event
  BY LenProperties DEF TypeOK, PutEvent, Enqueuing
<1>1. /\ rows' \in Seq(Event)
      /\ Len(rows') = Len(rows) + 1
      /\ \A i \in 1..Len(rows) : rows'[i] = rows[i]
      /\ rows'[Len(rows) + 1] = ev[m]
  BY <1>0, AppendProperties DEF PutEvent, Put
<1>2. ASet(rows') = ASet(rows) \cup {ev[m]}
  <2>1. DOMAIN rows = 1..Len(rows) /\ DOMAIN rows' = 1..(Len(rows) + 1)
    BY <1>0, <1>1, LenProperties
  <2> QED
    BY <1>0, <1>1, <2>1 DEF ASet
<1>3. TypeOK'
  <2>1. accepted' \subseteq Event
    BY <1>0 DEF TypeOK, PutEvent
  <2>2. /\ mon' \in [Monitors -> {"idle", "drop", "put"}]
        /\ ev' \in [Monitors -> 0..MaxEvents]
    BY TransportAssumption DEF TypeOK, PutEvent
  <2> QED
    BY <1>1, <2>1, <2>2 DEF TypeOK, PutEvent, server
<1>4. Enqueuing'
  BY DEF TypeOK, Enqueuing, PutEvent
<1>5. QueueBound'
  <2>1. Cardinality(Putting') = Cardinality(Putting) - 1
    BY PuttingShrinks DEF PutEvent, TypeOK
  <2> QED
    BY <1>0, <1>1, <2>1, PuttingFinite, TransportAssumption DEF QueueBound
<1>6. BatchIsFront'
  <2> SUFFICES ASSUME NEW f \in InFlight \ touched
               PROVE  /\ Len(batch[f]) <= Len(rows')
                      /\ \A i \in 1..Len(batch[f]) : rows'[i] = batch[f][i]
    BY DEF PutEvent, BatchIsFront, InFlight
  <2>1. Len(batch[f]) \in Nat
    BY LenProperties DEF TypeOK, InFlight
  <2> QED
    BY <1>0, <1>1, <2>1 DEF BatchIsFront
<1>7. BatchIsHandled' /\ Accounted'
  BY <1>2 DEF PutEvent, BatchIsHandled, Accounted, Handled, server
<1> QED
  BY <1>3, <1>4, <1>5, <1>6, <1>7

(* An enqueue that raises.                                                 *)
LEMMA EnqueueRaisesStep ==
    ASSUME IInv, NEW m \in Monitors, EnqueueRaises(m)
    PROVE  IInv'
<1> USE DEF IInv
<1>1. TypeOK' /\ Enqueuing'
  <2>1. /\ mon' \in [Monitors -> {"idle", "drop", "put"}]
        /\ ev' \in [Monitors -> 0..MaxEvents]
    BY TransportAssumption DEF TypeOK, EnqueueRaises
  <2>2. TypeOK'
    BY <2>1 DEF TypeOK, EnqueueRaises, server, history
  <2> QED
    BY <2>2 DEF TypeOK, Enqueuing, EnqueueRaises
<1>2. QueueBound'
  <2>0. Cardinality(Putting') =
            IF mon[m] = "put" THEN Cardinality(Putting) - 1 ELSE Cardinality(Putting)
    BY PuttingShrinks DEF EnqueueRaises, TypeOK
  <2>1. Cardinality(Putting') <= Cardinality(Putting) /\ Cardinality(Putting') \in Int
    BY <2>0, PuttingFinite
  <2>2. Len(rows) \in Nat
    BY LenProperties DEF TypeOK
  <2> QED
    BY <2>1, <2>2, PuttingFinite, TransportAssumption DEF QueueBound, EnqueueRaises
<1>3. BatchIsFront' /\ BatchIsHandled' /\ Accounted'
  BY DEF EnqueueRaises, BatchIsFront, BatchIsHandled, Accounted, InFlight, Handled,
         server, history
<1> QED
  BY <1>1, <1>2, <1>3

(* A step that leaves the table, the calls of enqueue and the histories of *)
(* it alone keeps the three conjuncts that speak of nothing else.          *)
LEMMA QueueFrame ==
    ASSUME IInv, UNCHANGED <<rows, mon, ev>>, accepted' = accepted, dropped' = dropped,
           raced' = raced, stored \subseteq stored', skipped \subseteq skipped'
    PROVE  Enqueuing' /\ QueueBound' /\ Accounted'
BY DEF IInv, Enqueuing, QueueBound, Accounted, Putting

PcValues == {"sleep", "peek", "post", "commit", "exited",
             "up", "join", "close", "closed", "down"}

(* Where _flush returns to is never inside a flush.                        *)
LEMMA AfterFlushFacts ==
    ASSUME NEW f \in Flushers
    PROVE  AfterFlush(f) \in {"close", "exited", "sleep"}
BY DEF AfterFlush

(* The peek: the batch is the front of the table by construction.          *)
LEMMA PeekBatchStep ==
    ASSUME IInv, NEW f \in Flushers, PeekBatch(f)
    PROVE  IInv'
<1> USE DEF IInv
<1>0. rows \in Seq(Event) /\ Len(rows) \in Nat
  BY LenProperties DEF TypeOK
<1>1. /\ Limited(BatchSize) \in 0..Len(rows)
      /\ Peek(BatchSize) \in Seq(Event)
      /\ Len(Peek(BatchSize)) <= Len(rows)
      /\ \A i \in 1..Len(Peek(BatchSize)) : Peek(BatchSize)[i] = rows[i]
  <2>1. Limited(BatchSize) \in 0..Len(rows)
    BY <1>0, CommitFacts, TransportAssumption
  <2> QED
    BY <1>0, <2>1, FrontFacts DEF Peek
<1>2. TypeOK'
  <2>1. pc' \in [Flushers -> PcValues]
    BY AfterFlushFacts DEF TypeOK, PeekBatch, PcValues
  <2>2. batch' \in [Flushers -> Seq(Event)] /\ batch'[f] \in Seq(Event)
    BY <1>1 DEF TypeOK, PeekBatch
  <2>3. todo' \in [Flushers -> Seq(Event)]
    BY <2>2, EmptySeq DEF TypeOK, PeekBatch
  <2> QED
    BY <2>1, <2>2, <2>3 DEF TypeOK, PeekBatch, PcValues
<1>3. Enqueuing' /\ QueueBound' /\ Accounted'
  BY QueueFrame DEF PeekBatch
<1>4. BatchIsFront'
  <2> SUFFICES ASSUME NEW g \in InFlight' \ touched'
               PROVE  /\ Len(batch'[g]) <= Len(rows)
                      /\ \A i \in 1..Len(batch'[g]) : rows[i] = batch'[g][i]
    BY DEF PeekBatch, BatchIsFront
  <2>1. CASE g = f
    BY <1>1, <2>1 DEF PeekBatch, TypeOK
  <2>2. CASE g # f
    BY <2>2 DEF PeekBatch, TypeOK, InFlight, BatchIsFront
  <2> QED
    BY <2>1, <2>2
<1>5. BatchIsHandled'
  <2>1. /\ Handled' = Handled
        /\ Acceptable(batch'[f]) => todo'[f] = batch'[f]
        /\ pc'[f] # "commit"
    BY AfterFlushFacts DEF PeekBatch, TypeOK, Handled
  <2>2. \A g \in Flushers : g # f => pc'[g] = pc[g] /\ batch'[g] = batch[g] /\ todo'[g] = todo[g]
    BY DEF PeekBatch, TypeOK
  <2> SUFFICES ASSUME NEW g \in Flushers
               PROVE  /\ pc'[g] = "post" /\ Acceptable(batch'[g])
                            => ASet(batch'[g]) \subseteq Handled' \cup ASet(todo'[g])
                      /\ pc'[g] = "commit" => ASet(batch'[g]) \subseteq Handled'
    BY DEF BatchIsHandled, Acceptable, ASet
  <2>3. CASE g = f
    <3>1. Acceptable(batch'[f]) => todo'[f] = batch'[f]
      BY <2>1
    <3>2. Acceptable(batch'[f]) => ASet(batch'[f]) = ASet(todo'[f])
      BY <3>1
    <3> QED
      BY <3>2, <2>1, <2>3, Zenon
  <2>4. CASE g # f
    <3>1. pc'[g] = pc[g] /\ batch'[g] = batch[g] /\ todo'[g] = todo[g] /\ Handled' = Handled
      BY <2>1, <2>2, <2>4
    <3>2. /\ pc[g] = "post" /\ Acceptable(batch[g])
                => ASet(batch[g]) \subseteq Handled \cup ASet(todo[g])
          /\ pc[g] = "commit" => ASet(batch[g]) \subseteq Handled
      BY DEF BatchIsHandled
    <3> QED
      BY <3>1, <3>2
  <2> QED
    BY <2>3, <2>4
<1> QED
  BY <1>2, <1>3, <1>4, <1>5

(* The server gets through one event, of any request.                      *)
LEMMA HandleFacts ==
    ASSUME NEW s \in Seq(Event), s # <<>>, stored \subseteq Event, skipped \subseteq Failing,
           Handle(Head(s))
    PROVE  /\ stored \subseteq stored' /\ skipped \subseteq skipped'
           /\ stored' \subseteq Event /\ skipped' \subseteq Failing
           /\ Head(s) \in Event /\ Tail(s) \in Seq(Event)
           /\ Handled' = Handled \cup {Head(s)}
           /\ ASet(s) = {Head(s)} \cup ASet(Tail(s))
<1>1. Head(s) \in Event /\ Tail(s) \in Seq(Event)
  BY HeadTailProperties
<1>2. /\ Len(s) \in Nat \ {0} /\ DOMAIN s = 1..Len(s) /\ Head(s) = s[1]
      /\ Len(Tail(s)) = Len(s) - 1 /\ DOMAIN Tail(s) = 1..Len(s) - 1
      /\ \A i \in 1..Len(s) - 1 : Tail(s)[i] = s[i + 1]
  BY <1>1, HeadTailProperties, EmptySeq, LenProperties
<1>3. \A i \in 1..Len(s) : i = 1 \/ (i - 1 \in 1..Len(s) - 1 /\ (i - 1) + 1 = i)
  BY <1>2
<1>4. \A i \in 1..Len(s) - 1 : i + 1 \in 1..Len(s)
  BY <1>2
<1>5. 1 \in 1..Len(s)
  BY <1>2
<1>6. ASet(s) = {Head(s)} \cup ASet(Tail(s))
  <2>1. ASSUME NEW i \in 1..Len(s) PROVE s[i] \in {Head(s)} \cup ASet(Tail(s))
    <3>1. CASE i = 1
      BY <3>1, <1>2
    <3>2. CASE i # 1
      <4>1. i - 1 \in 1..Len(s) - 1 /\ (i - 1) + 1 = i
        BY <3>2, <1>3
      <4>2. Tail(s)[i - 1] = s[i]
        BY <4>1, <1>2
      <4> QED
        BY <4>1, <4>2, <1>2 DEF ASet
    <3> QED
      BY <3>1, <3>2
  <2>2. Head(s) \in ASet(s)
    BY <1>2, <1>5 DEF ASet
  <2>3. ASSUME NEW i \in 1..Len(s) - 1 PROVE Tail(s)[i] \in ASet(s)
    BY <1>2, <1>4 DEF ASet
  <2>4. ASet(s) \subseteq {Head(s)} \cup ASet(Tail(s))
    BY <1>2, <2>1 DEF ASet
  <2>5. ASet(Tail(s)) \subseteq ASet(s)
    BY <1>2, <2>3 DEF ASet
  <2> QED
    BY <2>2, <2>4, <2>5
<1> QED
  BY <1>1, <1>6 DEF Handle, Handled

LEMMA ServerHandlesStep ==
    ASSUME IInv, NEW f \in Flushers, ServerHandles(f)
    PROVE  IInv'
<1> USE DEF IInv
<1>1. /\ stored \subseteq stored' /\ skipped \subseteq skipped'
      /\ stored' \subseteq Event /\ skipped' \subseteq Failing
      /\ Tail(todo[f]) \in Seq(Event)
      /\ Handled' = Handled \cup {Head(todo[f])}
      /\ ASet(todo[f]) = {Head(todo[f])} \cup ASet(Tail(todo[f]))
  BY HandleFacts DEF TypeOK, ServerHandles
<1>2. TypeOK'
  BY <1>1 DEF TypeOK, ServerHandles, history
<1>3. Enqueuing' /\ QueueBound' /\ Accounted'
  BY <1>1, QueueFrame DEF ServerHandles, history
<1>4. BatchIsFront'
  BY DEF ServerHandles, history, BatchIsFront, InFlight
<1>5. BatchIsHandled'
  <2>1. /\ pc' = pc /\ batch' = batch
        /\ \A g \in Flushers : todo'[g] = IF g = f THEN Tail(todo[f]) ELSE todo[g]
    BY DEF ServerHandles, TypeOK
  <2>2. \A g \in Flushers : Handled \cup ASet(todo[g]) \subseteq Handled' \cup ASet(todo'[g])
    BY <1>1, <2>1
  <2> QED
    BY <1>1, <2>1, <2>2 DEF BatchIsHandled
<1> QED
  BY <1>2, <1>3, <1>4, <1>5

LEMMA NothingSent == ASet(<<>>) = {}
<1>1. DOMAIN <<>> = {}
  BY EmptySeq, LenProperties
<1> QED
  BY <1>1 DEF ASet

(* The 200: the server has nothing of the batch left to handle.            *)
LEMMA PostAcceptedStep ==
    ASSUME IInv, NEW f \in Flushers, PostAccepted(f)
    PROVE  IInv'
<1> USE DEF IInv
<1>1. TypeOK'
  BY DEF TypeOK, PostAccepted, server, history
<1>2. Enqueuing' /\ QueueBound' /\ Accounted'
  BY QueueFrame DEF PostAccepted, server, history
<1>3. BatchIsFront'
  BY DEF PostAccepted, history, TypeOK, BatchIsFront, InFlight
<1>4. BatchIsHandled'
  <2>1. ASet(batch[f]) \subseteq Handled
    BY NothingSent DEF PostAccepted, BatchIsHandled
  <2>2. /\ Handled' = Handled /\ batch' = batch /\ todo' = todo /\ pc'[f] = "commit"
        /\ \A g \in Flushers : g # f => pc'[g] = pc[g]
    BY DEF PostAccepted, TypeOK, Handled, server
  <2> QED
    BY <2>1, <2>2 DEF BatchIsHandled
<1> QED
  BY <1>1, <1>2, <1>3, <1>4

(* A flush that ends without a commit.                                     *)
LEMMA PostEndsStep ==
    ASSUME IInv, NEW f \in Flushers, PostFails(f) \/ PostTimesOut(f)
    PROVE  IInv'
<1> USE DEF IInv
<1>1. /\ UNCHANGED <<rows, seen, mon, ev, stopping, stored, skipped, history>>
      /\ pc' = [pc EXCEPT ![f] = AfterFlush(f)]
      /\ batch' = [batch EXCEPT ![f] = <<>>]
      /\ todo' = [todo EXCEPT ![f] = <<>>]
      /\ late' \subseteq late \cup ({todo[f]} \ {<<>>})
  BY DEF PostFails, PostTimesOut
<1>2. TypeOK'
  <2>1. late' \subseteq Seq(Event) \ {<<>>}
    BY <1>1 DEF TypeOK
  <2>2. pc' \in [Flushers -> PcValues]
    BY <1>1, AfterFlushFacts DEF TypeOK, PcValues
  <2>3. batch' \in [Flushers -> Seq(Event)] /\ todo' \in [Flushers -> Seq(Event)]
    BY <1>1, EmptySeq DEF TypeOK
  <2> QED
    BY <1>1, <2>1, <2>2, <2>3 DEF TypeOK, history, PcValues
<1>3. Enqueuing' /\ QueueBound' /\ Accounted'
  BY <1>1, QueueFrame DEF history
<1>4. \A g \in InFlight' : /\ g # f /\ g \in InFlight /\ pc'[g] = pc[g]
                          /\ batch'[g] = batch[g] /\ todo'[g] = todo[g]
  BY <1>1, AfterFlushFacts DEF TypeOK, InFlight
<1>5. BatchIsFront'
  BY <1>1, <1>4 DEF history, BatchIsFront
<1>6. BatchIsHandled'
  BY <1>1, <1>4 DEF BatchIsHandled, InFlight, Handled
<1> QED
  BY <1>2, <1>3, <1>5, <1>6

(* The server reads on in a request the agent no longer waits for.         *)
LEMMA ServerHandlesLateStep ==
    ASSUME IInv, ServerHandlesLate
    PROVE  IInv'
<1> USE DEF IInv
<1>1. PICK b \in late : /\ Handle(Head(b))
                        /\ late' \subseteq late \cup ({Tail(b)} \ {<<>>})
                        /\ UNCHANGED <<rows, seen, mon, ev, pc, stopping, batch, todo, history>>
  BY DEF ServerHandlesLate
<1>2. /\ stored \subseteq stored' /\ skipped \subseteq skipped'
      /\ stored' \subseteq Event /\ skipped' \subseteq Failing
      /\ Tail(b) \in Seq(Event) /\ Handled \subseteq Handled'
  BY <1>1, HandleFacts DEF TypeOK
<1>3. TypeOK'
  BY <1>1, <1>2 DEF TypeOK, history
<1>4. Enqueuing' /\ QueueBound' /\ Accounted'
  BY <1>1, <1>2, QueueFrame DEF history
<1>5. BatchIsFront'
  BY <1>1 DEF history, BatchIsFront, InFlight
<1>6. BatchIsHandled'
  BY <1>1, <1>2 DEF BatchIsHandled
<1> QED
  BY <1>3, <1>4, <1>5, <1>6

(* The commit: what it deletes is what was posted, or raced is set.        *)
LEMMA CommitBatchStep ==
    ASSUME IInv, NEW f \in Flushers, CommitBatch(f)
    PROVE  IInv'
<1> USE DEF IInv
<1>0. /\ rows \in Seq(Event) /\ Len(rows) \in Nat
      /\ batch[f] \in Seq(Event) /\ Len(batch[f]) \in Nat
      /\ DOMAIN batch[f] = 1..Len(batch[f])
  BY LenProperties DEF TypeOK
<1> DEFINE count == Len(batch[f])
<1>1. /\ Limited(count) \in 0..Len(rows) /\ Limited(count) <= count
      /\ rows' \in Seq(Event)
      /\ Len(rows') = Len(rows) - Limited(count)
      /\ ASet(rows) = ASet(rows') \cup Removed(count)
  BY <1>0, CommitFacts DEF CommitBatch, Commit
<1>2. f \in touched \/ Removed(count) \subseteq Handled
  <2> SUFFICES ASSUME f \notin touched, NEW i \in 1..Limited(count)
               PROVE  rows[i] \in Handled
    BY DEF Removed
  <2>1. i \in 1..count
    BY <1>0, <1>1
  <2>2. rows[i] = batch[f][i]
    BY <2>1 DEF BatchIsFront, InFlight, CommitBatch
  <2>3. batch[f][i] \in ASet(batch[f])
    BY <1>0, <2>1 DEF ASet
  <2> QED
    BY <2>2, <2>3 DEF BatchIsHandled, CommitBatch
<1>3. TypeOK'
  <2>1. pc' \in [Flushers -> PcValues]
    BY AfterFlushFacts DEF TypeOK, CommitBatch, PcValues
  <2>2. batch' \in [Flushers -> Seq(Event)]
    BY EmptySeq DEF TypeOK, CommitBatch
  <2>3. touched' \subseteq Flushers /\ raced' \in BOOLEAN
    BY DEF TypeOK, CommitBatch, InFlight
  <2> QED
    BY <1>1, <2>1, <2>2, <2>3 DEF TypeOK, CommitBatch, server, PcValues
<1>4. Enqueuing'
  BY DEF Enqueuing, CommitBatch
<1>5. QueueBound'
  BY <1>0, <1>1, PuttingFinite, TransportAssumption DEF QueueBound, CommitBatch, Putting
<1>6. BatchIsFront' /\ BatchIsHandled'
  BY AfterFlushFacts
     DEF CommitBatch, server, TypeOK, BatchIsFront, BatchIsHandled, InFlight, Handled
<1>7. Accounted'
  BY <1>1, <1>2 DEF Accounted, CommitBatch, server, Handled
<1> QED
  BY <1>3, <1>4, <1>5, <1>6, <1>7

(* Steps of the threads' control that touch neither table nor server.      *)
LEMMA ControlStep ==
    ASSUME IInv, LoopRaises \/ LoopWakes \/ Stop \/ JoinReturns \/ CloseQueue \/ Restart
    PROVE  IInv'
<1> USE DEF IInv
<1>1. UNCHANGED <<rows, seen, mon, ev, server, history>> /\ stopping' \in BOOLEAN
  BY DEF TypeOK, LoopRaises, LoopWakes, Stop, JoinReturns, CloseQueue, Restart
<1>2. pc' \in [Flushers -> PcValues]
  BY DEF TypeOK, LoopRaises, LoopWakes, Stop, JoinReturns, CloseQueue, Restart,
         Threads, PcValues
<1>3. batch' \in [Flushers -> Seq(Event)]
  <2>1. <<>> \in Seq(Event)
    BY EmptySeq
  <2>2. batch' = batch \/ batch' = [batch EXCEPT !["loop"] = <<>>]
    BY DEF LoopRaises, LoopWakes, Stop, JoinReturns, CloseQueue, Restart
  <2> QED
    BY <2>1, <2>2 DEF TypeOK
<1>4. ASSUME NEW f \in InFlight'
      PROVE  f \in InFlight /\ pc'[f] = pc[f] /\ batch'[f] = batch[f]
  <2>1. CASE LoopRaises
    BY <2>1 DEF LoopRaises, TypeOK, InFlight
  <2>2. CASE LoopWakes \/ Stop \/ JoinReturns \/ CloseQueue
    BY <2>2 DEF LoopWakes, Stop, JoinReturns, CloseQueue, TypeOK, InFlight
  <2>3. CASE Restart
    BY <2>3 DEF Restart, Threads, InFlight
  <2> QED
    BY <2>1, <2>2, <2>3
<1>5. TypeOK'
  BY <1>1, <1>2, <1>3 DEF TypeOK, server, history, PcValues
<1>6. Enqueuing' /\ QueueBound' /\ Accounted'
  BY <1>1, QueueFrame DEF server, history
<1>7. BatchIsFront'
  BY <1>1, <1>4 DEF BatchIsFront, history
<1>8. BatchIsHandled'
  <2>1. Handled' = Handled /\ todo' = todo
    BY <1>1 DEF server, Handled
  <2>2. \A f \in Flushers : pc'[f] \in {"post", "commit"} => f \in InFlight'
    BY DEF InFlight
  <2> QED
    BY <1>4, <2>1, <2>2 DEF BatchIsHandled
<1> QED
  BY <1>5, <1>6, <1>7, <1>8

(* The end of the process, orderly or not.                                 *)
LEMMA GoneStep ==
    ASSUME IInv, Gone
    PROVE  IInv'
<1> USE DEF IInv
<1>1. TypeOK'
  <2>1. ev' \in [Monitors -> 0..MaxEvents]
    BY TransportAssumption DEF Gone
  <2>2. /\ pc' \in [Flushers -> PcValues]
        /\ batch' \in [Flushers -> Seq(Event)] /\ todo' \in [Flushers -> Seq(Event)]
    BY EmptySeq DEF Gone, Threads, PcValues
  <2>3. late' \subseteq Seq(Event) \ {<<>>}
    BY DEF Gone, TypeOK
  <2> QED
    BY <2>1, <2>2, <2>3 DEF TypeOK, Gone, PcValues
<1>2. Putting' = {} /\ InFlight' = {}
  BY DEF Gone, Putting, InFlight, Threads
<1>3. QueueBound'
  <2>1. Len(rows) \in Nat
    BY LenProperties DEF TypeOK
  <2> QED
    BY <1>2, <2>1, PuttingFinite, FS_EmptySet, TransportAssumption DEF QueueBound, Gone
<1>4. Enqueuing' /\ BatchIsFront' /\ BatchIsHandled' /\ Accounted'
  BY <1>2 DEF Enqueuing, BatchIsFront, BatchIsHandled, Accounted, InFlight, Gone
<1> QED
  BY <1>1, <1>3, <1>4

-----------------------------------------------------------------------------
(* IInv is inductive: every step of every thread, crash and restart keeps  *)
(* it, and so does a step of something else.                               *)
THEOREM Inductive == IInv /\ [Next]_vars => IInv'
<1> SUFFICES ASSUME IInv, [Next]_vars PROVE IInv'
  OBVIOUS
<1>1. ASSUME NEW m \in Monitors, MonitorStep(m)
      PROVE  IInv'
  BY <1>1, ObserveStep, DropOldestStep, PutEventStep, EnqueueRaisesStep DEF MonitorStep
<1>2. ASSUME NEW f \in Flushers, FlushStep(f) \/ ServerHandles(f)
      PROVE  IInv'
  BY <1>2, PeekBatchStep, ServerHandlesStep, PostAcceptedStep, PostEndsStep, CommitBatchStep
     DEF FlushStep
<1>3. CASE ServerHandlesLate
  BY <1>3, ServerHandlesLateStep
<1>4. CASE LoopRaises \/ LoopWakes \/ Stop \/ JoinReturns \/ CloseQueue \/ Restart
  BY <1>4, ControlStep
<1>5. CASE ProcessExits \/ Crash
  BY <1>5, GoneStep DEF ProcessExits, Crash
<1>6. CASE UNCHANGED vars
  BY <1>6 DEF vars, server, history, IInv, TypeOK, Enqueuing, QueueBound, Putting,
              BatchIsFront, InFlight, BatchIsHandled, Handled, Accounted
<1> QED
  BY <1>1, <1>2, <1>3, <1>4, <1>5, <1>6 DEF Next

(* The inductive invariant holds throughout every behaviour.               *)
THEOREM Invariance == Spec => []IInv
BY InitIInv, Inductive, PTL DEF Spec

(* Every variable of the transport keeps its type.                         *)
THEOREM TypeCorrect == Spec => []TypeOK
<1>1. IInv => TypeOK
  BY DEF IInv
<1> QED
  BY <1>1, Invariance, PTL

(* MAX_QUEUE_SIZE is passed by at most one row for each monitor thread     *)
(* beyond the first, for any number of monitors and any limit.             *)
THEOREM QueueIsBounded == Spec => []QueueBound
<1>1. IInv => QueueBound
  BY DEF IInv
<1> QED
  BY <1>1, Invariance, PTL

(* With a single monitor thread the limit of the table is exact.           *)
THEOREM SingleMonitorWithinLimit ==
    ASSUME Cardinality(Monitors) = 1
    PROVE  Spec => []WithinLimit
<1>1. IInv => WithinLimit
  <2> SUFFICES ASSUME IInv PROVE WithinLimit
    OBVIOUS
  <2>1. Len(rows) \in Nat
    BY LenProperties DEF IInv, TypeOK
  <2> QED
    BY <2>1, PuttingFinite, TransportAssumption DEF IInv, QueueBound, WithinLimit
<1> QED
  BY <1>1, Invariance, PTL

(* A flush in progress holds rows that were at the front of the table, so  *)
(* that commit removes by number what peek returned, unless another thread *)
(* has removed rows since (src/agent/transport.py, _flush).                *)
THEOREM BatchStaysFront == Spec => []BatchIsFront
<1>1. IInv => BatchIsFront
  BY DEF IInv
<1> QED
  BY <1>1, Invariance, PTL

(* No event that reached the queue disappears from the agent before the    *)
(* server has gone through it, except by the race of two removals: an      *)
(* overflow during a POST, or two overlapping flushes.  Each event is in   *)
(* the table, stored, passed over by the server (its handling raised, and  *)
(* the 200 did not tell), or dropped by an overflow.                       *)
THEOREM NothingVanishes == Spec => []Accounted
<1>1. IInv => Accounted
  BY DEF IInv
<1> QED
  BY <1>1, Invariance, PTL

(* A flush under whose batch no other thread removed rows deletes only     *)
(* events that the server has gone through (stored, or passed over after   *)
(* an exception), for any threads and sizes: no event of a request that    *)
(* failed or timed out (src/agent/transport.py, _flush).                   *)
THEOREM FlushDeletesHandled == Spec => UntouchedFlushIsSafe
<1> DEFINE Safe == \A f \in Flushers :
        CommitBatch(f) /\ f \notin touched => Removed(Len(batch[f])) \subseteq Handled
<1>1. IInv => Safe
  <2> SUFFICES ASSUME IInv, NEW f \in Flushers, CommitBatch(f), f \notin touched
               PROVE  Removed(Len(batch[f])) \subseteq Handled
    OBVIOUS
  <2> DEFINE n == Len(batch[f])
  <2>1. pc[f] = "commit" /\ f \in InFlight \ touched
    BY DEF CommitBatch, InFlight
  <2>2. batch[f] \in Seq(Event) /\ rows \in Seq(Event)
    BY DEF IInv, TypeOK
  <2>3. n \in Nat /\ Len(rows) \in Nat /\ DOMAIN batch[f] = 1..n
    BY <2>2, LenProperties
  <2>4. n <= Len(rows) /\ \A i \in 1..n : rows[i] = batch[f][i]
    BY <2>1 DEF IInv, BatchIsFront
  <2>5. Limited(n) = n
    BY <2>3, <2>4 DEF Limited
  <2>6. \A i \in 1..n : batch[f][i] \in Handled
    BY <2>1, <2>3 DEF IInv, BatchIsHandled, ASet
  <2>7. Removed(n) = {rows[i] : i \in 1..n}
    BY <2>5 DEF Removed
  <2> QED
    BY <2>4, <2>6, <2>7
<1>2. IInv /\ [Next]_vars => [Safe]_vars
  BY <1>1
<1> QED
  BY <1>2, Invariance, PTL DEF Spec, UntouchedFlushIsSafe

-----------------------------------------------------------------------------
(* The order in which the server goes through the queue.  What it has gone *)
(* through is, as far as it is still in the table, a front of the table,   *)
(* and remains one with each further event of any request: the beginnings  *)
(* of what is pending are fronts too.  An event that is put is in none.    *)
Pending == {todo[f] : f \in Flushers} \cup late
First(q, n) == {q[k] : k \in 1..n}
Sent == {Handled} \cup UNION {{Handled \cup First(q, n) : n \in 0..Len(q)} : q \in Pending}

IsFront(D) == \A i, j \in 1..Len(rows) : i < j /\ rows[j] \in D => rows[i] \in D

CallsAreNew ==
    /\ accepted \subseteq 1..seen
    /\ \A m \in Monitors : mon[m] # "idle" => ev[m] \in (1..seen) \ accepted
    /\ \A m, n \in Monitors :
        mon[m] # "idle" /\ mon[n] # "idle" /\ m # n => ev[m] # ev[n]

Distinct == \A i, j \in 1..Len(rows) : rows[i] = rows[j] => i = j

OrderInv ==
    /\ CallsAreNew
    /\ Distinct
    /\ ASet(rows) \subseteq accepted
    /\ \A D \in Sent : D \subseteq accepted /\ IsFront(D)

(* Requests that end or are given up add nothing to what is sent.          *)
LEMMA SentIsKept ==
    ASSUME Handled' = Handled, Pending' \subseteq Pending \cup {<<>>}
    PROVE  \A D \in Sent' : D \in Sent
<1> SUFFICES ASSUME NEW D \in Sent', D # Handled PROVE D \in Sent
  BY DEF Sent
<1>1. PICK q \in Pending' : \E n \in 0..Len(q) : D = Handled \cup First(q, n)
  BY DEF Sent
<1>2. CASE q \in Pending
  BY <1>1, <1>2 DEF Sent
<1>3. CASE q = <<>>
  <2>1. Len(q) = 0
    BY <1>3, EmptySeq
  <2>2. First(q, 0) = {}
    BY DEF First
  <2>3. \A n \in 0..0 : n = 0
    OBVIOUS
  <2> QED
    BY <1>1, <2>1, <2>2, <2>3
<1> QED
  BY <1>2, <1>3

(* An event the server handles joins what is sent to what was.             *)
LEMMA SentGrows ==
    ASSUME NEW q \in Pending, q \in Seq(Event), q # <<>>,
           Handled' = Handled \cup {Head(q)}, Pending' \subseteq Pending \cup {<<>>, Tail(q)}
    PROVE  \A D \in Sent' : \E E, F \in Sent : D = E \cup F
<1>1. /\ Len(q) \in Nat \ {0} /\ Head(q) = q[1] /\ Len(Tail(q)) = Len(q) - 1
      /\ \A i \in 1..Len(q) - 1 : Tail(q)[i] = q[i + 1]
  BY HeadTailProperties, EmptySeq, LenProperties
<1>2. First(q, 1) = {Head(q)} /\ 1 \in 0..Len(q)
  BY <1>1 DEF First
<1>3. Handled' \in Sent
  BY <1>2 DEF Sent
<1> SUFFICES ASSUME NEW D \in Sent', D # Handled' PROVE \E E, F \in Sent : D = E \cup F
  BY <1>3
<1>4. PICK p \in Pending' : \E n \in 0..Len(p) : D = Handled' \cup First(p, n)
  BY DEF Sent
<1>5. PICK n \in 0..Len(p) : D = Handled' \cup First(p, n)
  BY <1>4
<1>6. CASE p \in Pending
  <2>1. Handled \cup First(p, n) \in Sent
    BY <1>5, <1>6 DEF Sent
  <2>2. D = Handled' \cup (Handled \cup First(p, n))
    BY <1>5
  <2> QED
    BY <1>3, <2>1, <2>2
<1>7. CASE p = <<>>
  <2>1. Len(p) = 0
    BY <1>7, EmptySeq
  <2>2. First(p, n) = {}
    BY <2>1, <1>5 DEF First
  <2> QED
    BY <2>2, <1>5
<1>8. CASE p = Tail(q)
  <2>1. n \in Nat /\ n + 1 \in 0..Len(q) /\ n <= Len(q) - 1
    BY <1>1, <1>5, <1>8
  <2>2. \A k \in 1..n : p[k] = q[k + 1] /\ k + 1 \in 1..n + 1
    BY <1>1, <1>8, <2>1
  <2>3. \A k \in 1..n + 1 : k = 1 \/ (k - 1 \in 1..n /\ (k - 1) + 1 = k)
    BY <2>1
  <2>4. 1 \in 1..n + 1
    BY <2>1
  <2>5. First(q, n + 1) = {Head(q)} \cup First(p, n)
    <3>1. ASSUME NEW k \in 1..n + 1 PROVE q[k] \in {Head(q)} \cup First(p, n)
      <4>1. CASE k = 1
        BY <4>1, <1>1
      <4>2. CASE k # 1
        BY <4>2, <2>2, <2>3 DEF First
      <4> QED
        BY <4>1, <4>2
    <3>2. Head(q) \in First(q, n + 1)
      BY <1>1, <2>4 DEF First
    <3>3. ASSUME NEW k \in 1..n PROVE p[k] \in First(q, n + 1)
      BY <2>2 DEF First
    <3>4. First(q, n + 1) \subseteq {Head(q)} \cup First(p, n)
      BY <3>1 DEF First
    <3>5. First(p, n) \subseteq First(q, n + 1)
      BY <3>3 DEF First
    <3> QED
      BY <3>2, <3>4, <3>5
  <2>6. D = Handled \cup First(q, n + 1)
    BY <1>5, <2>5
  <2>7. D \in Sent
    BY <2>1, <2>6 DEF Sent
  <2> QED
    BY <2>7
<1> QED
  BY <1>6, <1>7, <1>8

LEMMA InitOrder == Init => OrderInv
<1> SUFFICES ASSUME Init PROVE OrderInv
  OBVIOUS
<1>1. rows = <<>> /\ Len(<<>>) = 0
  BY EmptySeq DEF Init
<1>2. CallsAreNew
  BY DEF Init, CallsAreNew
<1>3. Handled = {} /\ Pending = {<<>>} /\ ASet(rows) = {}
  BY <1>1, NothingSent DEF Init, Handled, Pending, Flushers
<1>4. \A n \in 0..0 : First(<<>>, n) = {}
  BY DEF First
<1>5. Sent = {{}}
  BY <1>1, <1>3, <1>4 DEF Sent
<1> QED
  BY <1>1, <1>2, <1>3, <1>5 DEF OrderInv, Distinct, IsFront

(* Steps that leave the table alone send nothing but what is sent already. *)
LEMMA RowsStay ==
    ASSUME OrderInv, CallsAreNew', rows' = rows, accepted' = accepted,
           \A D \in Sent' : \E E, F \in Sent : D = E \cup F
    PROVE  OrderInv'
<1>1. ASSUME NEW D \in Sent' PROVE D \subseteq accepted /\ IsFront(D)
  <2>1. PICK E \in Sent, F \in Sent : D = E \cup F
    BY <1>1
  <2>2. E \subseteq accepted /\ F \subseteq accepted /\ IsFront(E) /\ IsFront(F)
    BY DEF OrderInv
  <2> QED
    BY <2>1, <2>2 DEF IsFront
<1> QED
  BY <1>1 DEF OrderInv, Distinct, IsFront, ASet

(* The same of steps that send nothing new.                                *)
LEMMA NothingNew ==
    ASSUME OrderInv, CallsAreNew', rows' = rows, accepted' = accepted,
           Handled' = Handled, Pending' \subseteq Pending \cup {<<>>}
    PROVE  OrderInv'
<1>1. \A D \in Sent' : D \in Sent
  BY SentIsKept
<1>2. \A D \in Sent' : \E E, F \in Sent : D = E \cup F
  BY <1>1
<1> QED
  BY <1>2, RowsStay

(* And of the server's handling of one event of a request.                 *)
LEMMA HandleOrder ==
    ASSUME OrderInv, TypeOK, NEW q \in Pending, q # <<>>, Handle(Head(q)),
           rows' = rows, accepted' = accepted, seen' = seen, mon' = mon, ev' = ev,
           Pending' \subseteq Pending \cup {<<>>, Tail(q)}
    PROVE  OrderInv'
<1>1. q \in Seq(Event)
  BY DEF TypeOK, Pending
<1>2. Handled' = Handled \cup {Head(q)}
  BY <1>1, HandleFacts DEF TypeOK
<1>3. \A D \in Sent' : \E E, F \in Sent : D = E \cup F
  BY <1>1, <1>2, SentGrows
<1>4. CallsAreNew'
  BY DEF OrderInv, CallsAreNew
<1> QED
  BY <1>3, <1>4, RowsStay

(* Steps that remove the front of the table keep the order of the rest.    *)
LEMMA FrontGoes ==
    ASSUME OrderInv, TypeOK, NEW count \in Nat, Commit(count), CallsAreNew',
           accepted' = accepted, \A D \in Sent' : D \in Sent
    PROVE  OrderInv'
<1> DEFINE n == Limited(count)
<1>1. /\ n \in 0..Len(rows) /\ Len(rows) \in Nat
      /\ Len(rows') = Len(rows) - n
      /\ \A i \in 1..Len(rows') : rows'[i] = rows[n + i]
      /\ ASet(rows') \subseteq ASet(rows)
  BY CommitFacts, LenProperties DEF TypeOK, Commit
<1>2. \A i \in 1..Len(rows') : n + i \in 1..Len(rows)
  BY <1>1
<1> HIDE DEF n
<1>3. Distinct'
  <2> SUFFICES ASSUME NEW i \in 1..Len(rows'), NEW j \in 1..Len(rows'), rows'[i] = rows'[j]
               PROVE  i = j
    BY DEF Distinct
  <2>1. rows[n + i] = rows[n + j] /\ n + i \in 1..Len(rows) /\ n + j \in 1..Len(rows)
    BY <1>1, <1>2
  <2>2. n + i = n + j
    BY <2>1 DEF OrderInv, Distinct
  <2> QED
    BY <2>2, <1>1
<1>4. ASSUME NEW D \in Sent' PROVE D \subseteq accepted /\ IsFront(D)'
  <2>1. D \subseteq accepted /\ IsFront(D)
    BY DEF OrderInv
  <2>2. ASSUME NEW i \in 1..Len(rows'), NEW j \in 1..Len(rows'), i < j, rows'[j] \in D
        PROVE  rows'[i] \in D
    <3>1. n + i < n + j /\ rows[n + j] \in D
      BY <2>2, <1>1
    <3>2. rows[n + i] \in D
      BY <3>1, <2>1, <1>2 DEF IsFront
    <3> QED
      BY <3>2, <1>1
  <2> QED
    BY <2>1, <2>2 DEF IsFront
<1> QED
  BY <1>1, <1>3, <1>4 DEF OrderInv

(* An event that is put comes last, and nobody has it yet.                 *)
LEMMA PutOrder ==
    ASSUME OrderInv, TypeOK, NEW m \in Monitors, PutEvent(m)
    PROVE  OrderInv'
<1> DEFINE e == ev[m]
<1>1. e \in (1..seen) \ accepted /\ mon[m] # "idle"
  BY DEF PutEvent, OrderInv, CallsAreNew
<1>2. /\ Len(rows) \in Nat /\ Len(rows') = Len(rows) + 1
      /\ rows'[Len(rows) + 1] = e
      /\ \A i \in 1..Len(rows) : rows'[i] = rows[i]
      /\ DOMAIN rows = 1..Len(rows) /\ DOMAIN rows' = 1..Len(rows')
  <2>1. rows \in Seq(Event) /\ rows' = Append(rows, e)
    BY DEF TypeOK, PutEvent, Put
  <2>2. e \in Event
    BY <1>1, TransportAssumption DEF TypeOK, Event
  <2> QED
    BY <2>1, <2>2, AppendProperties, LenProperties
<1>3. accepted' = accepted \cup {e} /\ Sent' = Sent
  BY DEF PutEvent, Sent, Pending, Handled, server
<1>4. CallsAreNew'
  <2>1. /\ mon' = [mon EXCEPT ![m] = "idle"] /\ ev' = [ev EXCEPT ![m] = 0] /\ seen' = seen
        /\ mon \in [Monitors -> {"idle", "drop", "put"}] /\ ev \in [Monitors -> 0..MaxEvents]
    BY DEF PutEvent, TypeOK
  <2>2. \A k \in Monitors : mon'[k] # "idle" => k # m /\ mon[k] # "idle" /\ ev'[k] = ev[k]
    BY <2>1
  <2> QED
    BY <2>1, <2>2, <1>1, <1>3 DEF OrderInv, CallsAreNew
<1>5. \A i \in 1..Len(rows) : rows[i] \in accepted /\ rows[i] # e
  BY <1>1, <1>2 DEF OrderInv, ASet
<1> HIDE DEF e
<1>6. \A i \in 1..Len(rows') : i \in 1..Len(rows) \/ i = Len(rows) + 1
  BY <1>2
<1>7. Distinct'
  BY <1>2, <1>5, <1>6 DEF OrderInv, Distinct
<1>8. ASet(rows') \subseteq accepted'
  BY <1>2, <1>3, <1>5, <1>6 DEF ASet
<1>9. ASSUME NEW D \in Sent PROVE D \subseteq accepted' /\ IsFront(D)'
  <2>1. D \subseteq accepted /\ IsFront(D) /\ e \notin D
    BY <1>1 DEF OrderInv, e
  <2>2. ASSUME NEW i \in 1..Len(rows'), NEW j \in 1..Len(rows'), i < j, rows'[j] \in D
        PROVE  rows'[i] \in D
    <3>1. j \in 1..Len(rows) /\ i \in 1..Len(rows)
      BY <2>1, <2>2, <1>2, <1>6
    <3> QED
      BY <3>1, <2>1, <2>2, <1>2 DEF IsFront
  <2> QED
    BY <2>1, <2>2, <1>3 DEF IsFront
<1> QED
  BY <1>3, <1>4, <1>7, <1>8, <1>9 DEF OrderInv

(* What peek returns is a front of the table, and accepted.                *)
LEMMA PeekOrder ==
    ASSUME OrderInv, TypeOK, NEW f \in Flushers, PeekBatch(f)
    PROVE  OrderInv'
<1> DEFINE b == Peek(BatchSize)  n == Limited(BatchSize)
<1>1. Len(rows) \in Nat /\ DOMAIN rows = 1..Len(rows)
  BY LenProperties DEF TypeOK
<1>2. n \in 0..Len(rows)
  BY <1>1, TransportAssumption DEF Limited
<1>3. /\ b \in Seq(Event) /\ Len(b) = n
      /\ \A i \in 1..n : b[i] = rows[i]
  BY <1>2, FrontFacts DEF TypeOK, Peek
<1>4. DOMAIN b = 1..n
  BY <1>3, LenProperties
<1> HIDE DEF b, n
<1>5. ASSUME NEW m \in 0..n PROVE First(b, m) \subseteq accepted /\ IsFront(First(b, m))
  <2>1. \A k \in 1..m : k \in 1..n /\ k \in 1..Len(rows)
    BY <1>1, <1>2
  <2>2. First(b, m) = {rows[k] : k \in 1..m}
    BY <1>3, <2>1 DEF First
  <2>3. First(b, m) \subseteq accepted
    BY <1>1, <2>1, <2>2 DEF OrderInv, ASet
  <2>4. ASSUME NEW i \in 1..Len(rows), NEW j \in 1..Len(rows), i < j, rows[j] \in First(b, m)
        PROVE  rows[i] \in First(b, m)
    <3>1. PICK k \in 1..m : rows[j] = rows[k]
      BY <2>2, <2>4
    <3>2. j = k
      BY <2>1, <3>1 DEF OrderInv, Distinct
    <3>3. i \in 1..m
      BY <3>2, <2>4, <1>1, <1>2
    <3> QED
      BY <3>3, <2>2
  <2> QED
    BY <2>3, <2>4 DEF IsFront
<1>6. /\ rows' = rows /\ accepted' = accepted /\ seen' = seen /\ mon' = mon /\ ev' = ev
      /\ late' = late /\ Handled' = Handled
  BY DEF PeekBatch, Handled
<1>7. Pending' \subseteq Pending \cup {<<>>, b}
  <2>1. \A g \in Flushers : todo'[g] \in {todo[g], <<>>, b}
    BY DEF PeekBatch, TypeOK, b
  <2> QED
    BY <2>1, <1>6 DEF Pending
<1>8. ASSUME NEW D \in Sent' PROVE D \subseteq accepted /\ IsFront(D)
  <2>1. Handled \subseteq accepted /\ IsFront(Handled)
    BY DEF OrderInv, Sent
  <2>2. CASE D = Handled
    BY <2>1, <2>2
  <2>3. CASE D # Handled
    <3>1. PICK q \in Pending' : \E m \in 0..Len(q) : D = Handled \cup First(q, m)
      BY <2>3, <1>6 DEF Sent
    <3>2. CASE q \in Pending
      <4>1. D \in Sent
        BY <3>1, <3>2 DEF Sent
      <4> QED
        BY <4>1 DEF OrderInv
    <3>3. CASE q = <<>>
      <4>1. \A m \in 0..Len(q) : First(q, m) = {}
        BY <3>3, EmptySeq DEF First
      <4> QED
        BY <4>1, <3>1, <2>3
    <3>4. CASE q = b
      <4>1. PICK m \in 0..n : D = Handled \cup First(b, m)
        BY <3>1, <3>4, <1>3
      <4> QED
        BY <4>1, <2>1, <1>5 DEF IsFront
    <3> QED
      BY <3>2, <3>3, <3>4, <1>7
  <2> QED
    BY <2>2, <2>3
<1> QED
  BY <1>6, <1>8 DEF OrderInv, CallsAreNew, Distinct, IsFront, ASet

LEMMA OrderStep ==
    ASSUME OrderInv, TypeOK, [Next]_vars
    PROVE  OrderInv'
<1> USE DEF server, history
<1>1. ASSUME NEW m \in Monitors, Observe(m) PROVE OrderInv'
  <2>1. /\ mon \in [Monitors -> {"idle", "drop", "put"}] /\ ev \in [Monitors -> 0..MaxEvents]
        /\ seen \in Nat
    BY TransportAssumption DEF TypeOK
  <2>2. /\ seen' = seen + 1 /\ accepted' = accepted /\ ev' = [ev EXCEPT ![m] = seen + 1]
        /\ \A k \in Monitors : k # m => mon'[k] = mon[k]
    BY <1>1, <2>1 DEF Observe
  <2>3. \A k \in Monitors : IF k = m THEN ev'[k] = seen + 1 ELSE ev'[k] = ev[k]
    BY <2>1, <2>2
  <2>4. /\ accepted \subseteq 1..seen
        /\ \A k \in Monitors : mon[k] # "idle" => ev[k] \in (1..seen) \ accepted
        /\ \A k, l \in Monitors : mon[k] # "idle" /\ mon[l] # "idle" /\ k # l => ev[k] # ev[l]
    BY DEF OrderInv, CallsAreNew
  <2>5. 1..seen \subseteq 1..seen + 1 /\ seen + 1 \in (1..seen + 1) \ (1..seen)
    BY <2>1
  <2>6. CallsAreNew'
    BY <2>2, <2>3, <2>4, <2>5 DEF CallsAreNew
  <2>7. Handled' = Handled /\ Pending' = Pending /\ rows' = rows
    BY <1>1 DEF Observe, Handled, Pending
  <2> QED
    BY <2>2, <2>6, <2>7, NothingNew
<1>2. ASSUME NEW m \in Monitors, DropOldest(m) PROVE OrderInv'
  <2>1. /\ mon \in [Monitors -> {"idle", "drop", "put"}] /\ mon[m] = "drop" /\ ev' = ev
        /\ mon' = [mon EXCEPT ![m] = "put"] /\ seen' = seen /\ accepted' = accepted
    BY <1>2 DEF DropOldest, TypeOK
  <2>2. \A k \in Monitors : mon'[k] # "idle" <=> mon[k] # "idle"
    BY <2>1
  <2>3. CallsAreNew'
    BY <2>1, <2>2 DEF OrderInv, CallsAreNew
  <2>4. Sent' = Sent /\ Commit(1)
    BY <1>2 DEF DropOldest, Sent, Pending, Handled
  <2> QED
    BY <2>1, <2>3, <2>4, FrontGoes
<1>3. ASSUME NEW m \in Monitors, PutEvent(m) PROVE OrderInv'
  BY <1>3, PutOrder
<1>4. ASSUME NEW m \in Monitors, EnqueueRaises(m) PROVE OrderInv'
  <2>1. /\ mon \in [Monitors -> {"idle", "drop", "put"}] /\ ev \in [Monitors -> 0..MaxEvents]
        /\ mon' = [mon EXCEPT ![m] = "idle"] /\ ev' = [ev EXCEPT ![m] = 0]
        /\ seen' = seen /\ accepted' = accepted /\ rows' = rows
        /\ Handled' = Handled /\ Pending' = Pending
    BY <1>4 DEF EnqueueRaises, TypeOK, Handled, Pending
  <2>2. \A k \in Monitors : mon'[k] # "idle" => mon[k] # "idle" /\ ev'[k] = ev[k]
    BY <2>1
  <2>3. CallsAreNew'
    BY <2>1, <2>2 DEF OrderInv, CallsAreNew
  <2> QED
    BY <2>1, <2>3, NothingNew
<1>5. ASSUME NEW f \in Flushers, PeekBatch(f) PROVE OrderInv'
  BY <1>5, PeekOrder
<1>6. ASSUME NEW f \in Flushers, ServerHandles(f) PROVE OrderInv'
  <2>1. todo[f] \in Pending /\ todo[f] # <<>> /\ Handle(Head(todo[f]))
    BY <1>6 DEF ServerHandles, Pending
  <2>2. Pending' \subseteq Pending \cup {<<>>, Tail(todo[f])}
    <3>1. \A g \in Flushers : todo'[g] \in {todo[g], Tail(todo[f])}
      BY <1>6 DEF ServerHandles, TypeOK
    <3> QED
      BY <3>1, <1>6 DEF ServerHandles, Pending
  <2> QED
    BY <2>1, <2>2, <1>6, HandleOrder DEF ServerHandles
<1>7. CASE ServerHandlesLate
  <2>1. PICK b \in late : /\ Handle(Head(b))
                          /\ late' \subseteq late \cup {Tail(b)}
                          /\ UNCHANGED <<rows, seen, mon, ev, todo, accepted>>
    BY <1>7 DEF ServerHandlesLate
  <2>2. b \in Pending /\ b # <<>> /\ Pending' \subseteq Pending \cup {<<>>, Tail(b)}
    BY <2>1 DEF Pending, TypeOK
  <2> QED
    BY <2>1, <2>2, HandleOrder
<1>8. ASSUME NEW f \in Flushers, CommitBatch(f) PROVE OrderInv'
  <2>1. /\ accepted' = accepted /\ seen' = seen /\ mon' = mon /\ ev' = ev
        /\ Pending' = Pending /\ Handled' = Handled /\ Commit(Len(batch[f]))
    BY <1>8 DEF CommitBatch, Pending, Handled
  <2>2. CallsAreNew'
    BY <2>1 DEF OrderInv, CallsAreNew
  <2>3. Len(batch[f]) \in Nat
    BY LenProperties DEF TypeOK
  <2>4. \A D \in Sent' : D \in Sent
    BY <2>1 DEF Sent
  <2> QED
    BY <2>1, <2>2, <2>3, <2>4, FrontGoes
<1>9. ASSUME NEW f \in Flushers, PostFails(f) \/ PostTimesOut(f) PROVE OrderInv'
  <2>1. /\ rows' = rows /\ accepted' = accepted /\ seen' = seen /\ mon' = mon /\ ev' = ev
        /\ late' \subseteq late \cup {todo[f]} /\ Handled' = Handled
        /\ todo' = [todo EXCEPT ![f] = <<>>]
    BY <1>9 DEF PostFails, PostTimesOut, Handled
  <2>2. CallsAreNew'
    BY <2>1 DEF OrderInv, CallsAreNew
  <2>3. \A g \in Flushers : todo'[g] \in {todo[g], <<>>}
    BY <2>1 DEF TypeOK
  <2>4. Pending' \subseteq Pending \cup {<<>>}
    BY <2>1, <2>3 DEF Pending
  <2> QED
    BY <2>1, <2>2, <2>4, NothingNew
<1>10. CASE \/ \E f \in Flushers : PostAccepted(f)
            \/ LoopRaises \/ LoopWakes \/ Stop \/ JoinReturns \/ CloseQueue \/ Restart
            \/ UNCHANGED vars
  <2>1. /\ rows' = rows /\ accepted' = accepted /\ seen' = seen /\ mon' = mon /\ ev' = ev
        /\ Handled' = Handled /\ Pending' = Pending
    BY <1>10 DEF PostAccepted, LoopRaises, LoopWakes, Stop, JoinReturns, CloseQueue, Restart,
                 vars, Handled, Pending
  <2>2. CallsAreNew'
    BY <2>1 DEF OrderInv, CallsAreNew
  <2> QED
    BY <2>1, <2>2, NothingNew
<1>11. CASE ProcessExits \/ Crash
  <2>1. /\ rows' = rows /\ accepted' = accepted /\ seen' = seen
        /\ mon' = [m \in Monitors |-> "idle"] /\ todo' = [f \in Flushers |-> <<>>]
        /\ late' \subseteq Pending /\ Handled' = Handled
    BY <1>11 DEF ProcessExits, Crash, Gone, Pending, Handled
  <2>2. CallsAreNew'
    BY <2>1 DEF OrderInv, CallsAreNew
  <2>3. Pending' \subseteq Pending \cup {<<>>}
    BY <2>1 DEF Pending
  <2> QED
    BY <2>1, <2>2, <2>3, NothingNew
<1> QED
  BY <1>1, <1>2, <1>3, <1>4, <1>5, <1>6, <1>7, <1>8, <1>9, <1>10, <1>11
  DEF Next, MonitorStep, FlushStep

(* The server never handles an event while an older row that it has not    *)
(* gone through still waits, through batches half handled, retries, late   *)
(* requests, overflow, overlapping flushes and crashes, for any number of  *)
(* monitors and events (src/agent/transport.py, _flush).                   *)
THEOREM NothingOvertakes == Spec => []NoOvertaking
<1>1. IInv => TypeOK
  BY DEF IInv
<1>2. OrderInv => NoOvertaking
  BY DEF OrderInv, Sent, IsFront, NoOvertaking
<1>3. OrderInv /\ TypeOK /\ [Next]_vars => OrderInv'
  BY OrderStep
<1> QED
  BY <1>1, <1>2, <1>3, InitOrder, Invariance, PTL DEF Spec

-----------------------------------------------------------------------------
(* The transport implements the outbox.  Each overflow pays for one        *)
(* missing event: while a flush is under way, d rows have been removed     *)
(* under its batch, of which the remainder is the front of the table, and  *)
(* d of the overflows have not been used up yet.  When commit removes as   *)
(* many rows as were posted, the server has not gone through d of them.    *)
Gap == accepted \ (Handled \cup ASet(rows))

Aligned(f, d) ==
    /\ Len(batch[f]) - d <= Len(rows)
    /\ \A i \in 1..Len(batch[f]) - d : rows[i] = batch[f][d + i]

PaidInv ==
    /\ dropped \subseteq accepted /\ dropped \cap ASet(rows) = {}
    /\ InFlight = {} => Cardinality(Gap) <= Cardinality(dropped)
    /\ \A f \in InFlight :
        /\ batch[f] # <<>>
        /\ \E d \in 0..Len(batch[f]) :
            /\ Aligned(f, d)
            /\ Cardinality(Gap \ ASet(batch[f])) + d <= Cardinality(dropped)

(* stop() flushes when the loop thread is gone, unless join gave up on it. *)
Solo == pc["main"] \notin {"up", "join"} => pc["loop"] = "exited"

(* Sets of events are finite, and cardinalities are numbers.               *)
LEMMA Counts ==
    ASSUME TypeOK
    PROVE  /\ IsFiniteSet(Gap) /\ IsFiniteSet(dropped)
           /\ \A S \in SUBSET Event : IsFiniteSet(S) /\ Cardinality(S) \in Nat
           /\ \A S, T \in SUBSET Event : S \subseteq T => Cardinality(S) <= Cardinality(T)
           /\ \A S, T \in SUBSET Event :
                Cardinality(S \cup T) <= Cardinality(S) + Cardinality(T)
           /\ Gap \subseteq Event /\ dropped \subseteq Event
<1>1. IsFiniteSet(Event)
  BY TransportAssumption, FS_Interval DEF Event
<1>2. \A S \in SUBSET Event : IsFiniteSet(S) /\ Cardinality(S) \in Nat
  BY <1>1, FS_Subset, FS_CardinalityType
<1>3. ASSUME NEW S \in SUBSET Event, NEW T \in SUBSET Event, S \subseteq T
      PROVE  Cardinality(S) <= Cardinality(T)
  BY <1>2, <1>3, FS_Subset
<1>4. ASSUME NEW S \in SUBSET Event, NEW T \in SUBSET Event
      PROVE  Cardinality(S \cup T) <= Cardinality(S) + Cardinality(T)
  <2>1. S \cap T \in SUBSET Event
    OBVIOUS
  <2>2. /\ Cardinality(S \cup T) = Cardinality(S) + Cardinality(T) - Cardinality(S \cap T)
        /\ Cardinality(S \cap T) \in Nat /\ Cardinality(S) \in Nat /\ Cardinality(T) \in Nat
    BY <2>1, <1>2, FS_Union
  <2> QED
    BY <2>2
<1>5. Gap \subseteq Event /\ dropped \subseteq Event
  BY DEF TypeOK, Gap
<1> QED
  BY <1>2, <1>3, <1>4, <1>5

(* A stretch of a sequence has no more members than places.                *)
LEMMA Stretch ==
    ASSUME NEW s, NEW a \in Int, NEW b \in Int, a <= b + 1
    PROVE  /\ IsFiniteSet({s[i] : i \in a..b})
           /\ Cardinality({s[i] : i \in a..b}) <= b + 1 - a
<1> DEFINE T == {s[i] : i \in a..b}
           g == [i \in a..b |-> s[i]]
<1>1. g \in Surjection(a..b, T)
  BY DEF Surjection
<1>2. IsFiniteSet(a..b) /\ Cardinality(a..b) = IF a > b THEN 0 ELSE b - a + 1
  BY FS_Interval
<1>3. Cardinality(a..b) = b + 1 - a
  BY <1>2
<1> HIDE DEF g, T
<1>4. IsFiniteSet(T) /\ Cardinality(T) <= Cardinality(a..b)
  BY <1>1, <1>2, FS_Surjection
<1> QED
  BY <1>3, <1>4 DEF T

(* Batches and the table are sequences of events.                          *)
LEMMA BatchPlaces ==
    ASSUME TypeOK, NEW f \in Flushers
    PROVE  /\ batch[f] \in Seq(Event) /\ Len(batch[f]) \in Nat
           /\ DOMAIN batch[f] = 1..Len(batch[f])
           /\ rows \in Seq(Event) /\ Len(rows) \in Nat /\ DOMAIN rows = 1..Len(rows)
           /\ ASet(batch[f]) \subseteq Event /\ ASet(rows) \subseteq Event
<1>1. batch[f] \in Seq(Event) /\ rows \in Seq(Event)
  BY DEF TypeOK
<1>2. \A s \in Seq(Event) : Len(s) \in Nat /\ DOMAIN s = 1..Len(s)
  BY LenProperties
<1>3. \A s \in Seq(Event) : \A i \in 1..Len(s) : s[i] \in Event
  BY ElementOfSeq
<1> QED
  BY <1>1, <1>2, <1>3 DEF ASet

(* No two threads are in a flush.                                          *)
LEMMA OneFlush ==
    ASSUME Solo, NEW f \in InFlight, NEW g \in Flushers,
           g \in InFlight \/ pc[g] = "peek"
    PROVE  f = g
BY DEF Solo, InFlight, Flushers

(* In or between flushes, missing events are paid for.                     *)
LEMMA GapPaid ==
    ASSUME TypeOK, PaidInv
    PROVE  Cardinality(Gap) <= Cardinality(dropped)
<1>1. CASE InFlight = {}
  BY <1>1 DEF PaidInv
<1>2. CASE InFlight # {}
  <2>1. PICK f \in InFlight : TRUE
    BY <1>2
  <2>2. f \in Flushers
    BY DEF InFlight
  <2> DEFINE b == batch[f]  n == Len(b)
  <2>3. PICK d \in 0..n :
            Aligned(f, d) /\ Cardinality(Gap \ ASet(b)) + d <= Cardinality(dropped)
    BY <2>1 DEF PaidInv
  <2>4. /\ n \in Nat /\ DOMAIN b = 1..n /\ ASet(b) \subseteq Event
        /\ Len(rows) \in Nat /\ DOMAIN rows = 1..Len(rows)
    BY <2>2, BatchPlaces
  <2>5. ASSUME NEW i \in 1..n, b[i] \in Gap
        PROVE  i \in 1..d
    <3>1. CASE i <= d
      BY <3>1, <2>3, <2>4
    <3>2. CASE i > d
      <4>1. i - d \in 1..n - d /\ i - d \in 1..Len(rows)
        BY <3>2, <2>3, <2>4 DEF Aligned
      <4>2. rows[i - d] = b[d + (i - d)] /\ d + (i - d) = i
        BY <4>1, <2>3, <2>4 DEF Aligned
      <4>3. b[i] \in ASet(rows)
        BY <4>1, <4>2, <2>4 DEF ASet
      <4> QED
        BY <4>3, <2>5 DEF Gap
    <3> QED
      BY <3>1, <3>2, <2>3, <2>4
  <2>6. Gap \subseteq (Gap \ ASet(b)) \cup {b[i] : i \in 1..d}
    BY <2>4, <2>5 DEF ASet
  <2>7. Cardinality({b[i] : i \in 1..d}) <= d
    <3>1. 1 \in Int /\ d \in Int /\ 1 <= d + 1 /\ d + 1 - 1 = d
      BY <2>3, <2>4
    <3> HIDE DEF b, n
    <3>2. Cardinality({b[i] : i \in 1..d}) <= d + 1 - 1
      BY <3>1, Stretch
    <3> QED
      BY <3>1, <3>2
  <2>8. {b[i] : i \in 1..d} \subseteq Event
    BY <2>3, <2>4 DEF ASet
  <2> DEFINE X == {b[i] : i \in 1..d}  Y == Gap \ ASet(b)
  <2>9. /\ X \subseteq Event /\ Y \subseteq Event /\ X \cup Y \subseteq Event
        /\ Gap \subseteq Event /\ Gap \subseteq X \cup Y
        /\ Cardinality(X) <= d /\ Cardinality(Y) + d <= Cardinality(dropped)
        /\ dropped \subseteq Event
    BY <2>3, <2>6, <2>7, <2>8, Counts
  <2> HIDE DEF X, Y, b, n
  <2>10. /\ Cardinality(Gap) <= Cardinality(X \cup Y)
         /\ Cardinality(X \cup Y) <= Cardinality(X) + Cardinality(Y)
         /\ Cardinality(Gap) \in Nat /\ Cardinality(X \cup Y) \in Nat
         /\ Cardinality(X) \in Nat /\ Cardinality(Y) \in Nat /\ Cardinality(dropped) \in Nat
    BY <2>9, Counts
  <2> QED
    BY <2>9, <2>10, <2>3, <2>4
<1> QED
  BY <1>1, <1>2

(* A step that leaves the table alone makes nothing missing.               *)
LEMMA PaidStays ==
    ASSUME TypeOK, TypeOK', PaidInv, rows' = rows, accepted' = accepted, dropped' = dropped,
           Handled \subseteq Handled', InFlight' \subseteq InFlight,
           \A f \in InFlight' : batch'[f] = batch[f]
    PROVE  PaidInv'
<1>1. Gap' \subseteq Gap /\ Gap' \subseteq Event
  BY Counts DEF Gap
<1>2. ASSUME InFlight' = {} PROVE Cardinality(Gap') <= Cardinality(dropped')
  <2>1. /\ Cardinality(Gap') <= Cardinality(Gap) /\ Cardinality(Gap) <= Cardinality(dropped)
        /\ Cardinality(Gap') \in Nat /\ Cardinality(Gap) \in Nat /\ Cardinality(dropped) \in Nat
    BY <1>1, Counts, GapPaid
  <2> QED
    BY <2>1
<1>3. ASSUME NEW f \in InFlight'
      PROVE  /\ batch'[f] # <<>>
             /\ \E d \in 0..Len(batch'[f]) :
                    /\ Aligned(f, d)'
                    /\ Cardinality(Gap' \ ASet(batch'[f])) + d <= Cardinality(dropped')
  <2>1. f \in InFlight /\ batch'[f] = batch[f] /\ f \in Flushers
    BY DEF InFlight
  <2>2. PICK d \in 0..Len(batch[f]) :
            Aligned(f, d) /\ Cardinality(Gap \ ASet(batch[f])) + d <= Cardinality(dropped)
    BY <2>1 DEF PaidInv
  <2>3. Aligned(f, d)'
    BY <2>1, <2>2 DEF Aligned
  <2> DEFINE X == Gap' \ ASet(batch[f])  Y == Gap \ ASet(batch[f])
  <2>4. X \subseteq Y /\ X \subseteq Event /\ Y \subseteq Event /\ dropped \subseteq Event
    BY <1>1, Counts
  <2>5. d \in Nat
    BY <2>1, <2>2, BatchPlaces
  <2>6. Cardinality(Y) + d <= Cardinality(dropped)
    BY <2>2
  <2> HIDE DEF X, Y
  <2>7. /\ Cardinality(X) <= Cardinality(Y) /\ Cardinality(X) \in Nat /\ Cardinality(Y) \in Nat
        /\ Cardinality(dropped) \in Nat
    BY <2>4, Counts
  <2>8. Cardinality(X) + d <= Cardinality(dropped')
    BY <2>5, <2>6, <2>7
  <2>9. d \in 0..Len(batch'[f]) /\ batch'[f] # <<>>
    BY <2>1, <2>2 DEF PaidInv
  <2> QED
    BY <2>1, <2>3, <2>8, <2>9 DEF X
<1> QED
  BY <1>2, <1>3 DEF PaidInv

(* The row that is put is queued and was not dropped.                      *)
LEMMA PutPaid ==
    ASSUME TypeOK, TypeOK', OrderInv, PaidInv, NEW m \in Monitors, PutEvent(m)
    PROVE  PaidInv'
<1> DEFINE e == ev[m]
<1>1. e \in Event /\ e \notin accepted
  BY TransportAssumption DEF PutEvent, OrderInv, CallsAreNew, TypeOK, Event
<1>2. /\ rows' = Append(rows, e) /\ accepted' = accepted \cup {e} /\ dropped' = dropped
      /\ Handled' = Handled /\ batch' = batch /\ InFlight' = InFlight
  BY DEF PutEvent, Put, server, InFlight, Handled
<1>3. /\ Len(rows) \in Nat /\ Len(rows') = Len(rows) + 1
      /\ rows'[Len(rows) + 1] = e
      /\ \A i \in 1..Len(rows) : rows'[i] = rows[i]
      /\ DOMAIN rows = 1..Len(rows) /\ DOMAIN rows' = 1..Len(rows')
  BY <1>1, <1>2, AppendProperties, LenProperties DEF TypeOK
<1> HIDE DEF e
<1>4. \A i \in 1..Len(rows') : i \in 1..Len(rows) \/ i = Len(rows) + 1
  BY <1>3
<1>5. ASet(rows') = ASet(rows) \cup {e}
  <2>1. \A i \in 1..Len(rows) : i \in 1..Len(rows')
    BY <1>3
  <2>2. Len(rows) + 1 \in 1..Len(rows')
    BY <1>3
  <2> QED
    BY <1>3, <1>4, <2>1, <2>2 DEF ASet
<1>6. Gap' \subseteq Gap
  BY <1>2, <1>5 DEF Gap
<1>7. Gap' = Gap
  BY <1>1, <1>2, <1>5, <1>6 DEF Gap, OrderInv, Sent
<1>8. ASSUME NEW f \in InFlight, NEW d \in 0..Len(batch[f]), Aligned(f, d)
      PROVE  Aligned(f, d)'
  <2>1. f \in Flushers
    BY DEF InFlight
  <2>2. Len(batch[f]) \in Nat
    BY <2>1, BatchPlaces
  <2> QED
    BY <2>2, <1>2, <1>3, <1>8 DEF Aligned
<1>9. dropped' \subseteq accepted' /\ dropped' \cap ASet(rows') = {}
  BY <1>1, <1>2, <1>5 DEF PaidInv
<1> QED
  BY <1>2, <1>7, <1>8, <1>9 DEF PaidInv

(* A batch as it is peeked is the front, and no row has been removed.      *)
LEMMA PeekPaid ==
    ASSUME TypeOK, TypeOK', Solo, PaidInv, NEW f \in Flushers, PeekBatch(f)
    PROVE  PaidInv'
<1>1. /\ rows' = rows /\ accepted' = accepted /\ dropped' = dropped /\ Handled' = Handled
      /\ batch' = [batch EXCEPT ![f] = Peek(BatchSize)]
      /\ pc' = [pc EXCEPT ![f] = IF rows = <<>> THEN AfterFlush(f) ELSE "post"]
      /\ pc[f] = "peek"
  BY DEF PeekBatch, Handled
<1>2. InFlight = {}
  BY <1>1, OneFlush DEF InFlight
<1>3. CASE rows = <<>>
  <2>1. InFlight' = {}
    BY <1>1, <1>2, <1>3 DEF InFlight, AfterFlush, TypeOK
  <2> QED
    BY <2>1, <1>1, PaidStays
<1>4. CASE rows # <<>>
  <2>1. InFlight' = {f}
    BY <1>1, <1>2, <1>4 DEF InFlight, TypeOK
  <2> DEFINE b == Peek(BatchSize)  n == Limited(BatchSize)
  <2>2. batch'[f] = b
    BY <1>1 DEF TypeOK
  <2>3. Len(rows) \in Nat /\ Len(rows) # 0
    BY <1>4, BatchPlaces, EmptySeq DEF TypeOK
  <2>4. n \in 1..Len(rows)
    BY <2>3, TransportAssumption DEF Limited
  <2>5. n \in 0..Len(rows)
    BY <2>4
  <2>6. Len(b) = n /\ \A i \in 1..n : b[i] = rows[i]
    BY <2>5, FrontFacts DEF TypeOK, Peek
  <2> HIDE DEF b, n
  <2>7. b # <<>>
    BY <2>4, <2>6, <2>3, EmptySeq
  <2>8. Aligned(f, 0)'
    BY <2>2, <2>3, <2>4, <2>6, <1>1 DEF Aligned
  <2>9. Gap' = Gap /\ Cardinality(Gap) <= Cardinality(dropped)
    BY <1>1, GapPaid DEF Gap
  <2> DEFINE X == Gap \ ASet(b)
  <2>10. X \subseteq Gap /\ X \subseteq Event /\ Gap \subseteq Event /\ dropped \subseteq Event
    BY Counts
  <2> HIDE DEF X
  <2>11. /\ Cardinality(X) <= Cardinality(Gap) /\ Cardinality(X) \in Nat
         /\ Cardinality(Gap) \in Nat /\ Cardinality(dropped) \in Nat
    BY <2>10, Counts
  <2>12. Cardinality(X) + 0 <= Cardinality(dropped')
    BY <2>9, <2>11, <1>1
  <2>13. 0 \in 0..Len(batch'[f])
    BY <2>2, <2>3, <2>4, <2>6
  <2>14. X = Gap' \ ASet(batch'[f])
    BY <2>2, <2>9 DEF X
  <2>15. \E d \in 0..Len(batch'[f]) :
            /\ Aligned(f, d)'
            /\ Cardinality(Gap' \ ASet(batch'[f])) + d <= Cardinality(dropped')
    BY <2>8, <2>12, <2>13, <2>14
  <2> QED
    BY <1>1, <2>1, <2>2, <2>7, <2>15 DEF PaidInv
<1> QED
  BY <1>3, <1>4

(* An overflow pays for the row it removes, or for one more row that a     *)
(* commit under way will remove.                                           *)
LEMMA DropPaid ==
    ASSUME TypeOK, TypeOK', OrderInv, PaidInv, NEW m \in Monitors, DropOldest(m)
    PROVE  PaidInv'
<1>1. /\ accepted' = accepted /\ Handled' = Handled /\ batch' = batch
      /\ InFlight' = InFlight /\ Commit(1) /\ dropped' = dropped \cup Removed(1)
  BY DEF DropOldest, server, InFlight, Handled
<1>2. rows \in Seq(Event) /\ Len(rows) \in Nat /\ DOMAIN rows = 1..Len(rows)
  BY LenProperties DEF TypeOK
<1>3. CASE Len(rows) = 0
  <2>1. Limited(1) = 0
    BY <1>3 DEF Limited
  <2>2. Removed(1) = {}
    BY <2>1 DEF Removed
  <2>3. rows = <<>> /\ rows' = SubSeq(rows, 0 + 1, Len(rows))
    BY <1>1, <1>2, <1>3, <2>1, EmptySeq DEF Commit
  <2>4. rows' = rows
    BY <2>3, <1>2, WholeSubSeq
  <2>5. dropped' = dropped
    BY <1>1, <2>2
  <2> QED
    BY <2>4, <2>5, <1>1, PaidStays
<1>4. CASE Len(rows) # 0
  <2> DEFINE r == rows[1]  n(f) == Len(batch[f])
  <2>1. Limited(1) = 1 /\ Removed(1) = {r}
    BY <1>2, <1>4, OldestOne DEF Removed
  <2>2. /\ Len(rows') = Len(rows) - 1
        /\ \A i \in 1..Len(rows') : rows'[i] = rows[1 + i]
        /\ ASet(rows) = ASet(rows') \cup {r}
        /\ DOMAIN rows' = 1..Len(rows')
    BY <1>1, <1>2, <2>1, CommitFacts, LenProperties DEF Commit
  <2>3. r \in ASet(rows) /\ r \in accepted /\ r \notin dropped
    BY <1>2, <1>4 DEF ASet, OrderInv, PaidInv
  <2>4. r \notin ASet(rows')
    <3>1. ASSUME NEW i \in 1..Len(rows'), rows'[i] = r PROVE FALSE
      <4>1. rows[1 + i] = rows[1] /\ 1 + i \in 1..Len(rows) /\ 1 \in 1..Len(rows) /\ 1 + i # 1
        BY <3>1, <2>2, <1>2, <1>4
      <4> QED
        BY <4>1 DEF OrderInv, Distinct
    <3> QED
      BY <3>1, <2>2 DEF ASet
  <2> HIDE DEF r
  <2>5. /\ dropped' = dropped \cup {r} /\ dropped' \subseteq accepted'
        /\ dropped' \cap ASet(rows') = {}
    BY <1>1, <2>1, <2>2, <2>3, <2>4 DEF PaidInv
  <2>6. Cardinality(dropped') = Cardinality(dropped) + 1
    BY <2>3, <2>5, Counts, FS_AddElement
  <2>7. Gap' \subseteq Gap \cup {r} /\ r \in Event
    BY <1>1, <2>2, <2>3 DEF Gap, TypeOK
  <2>8. ASSUME NEW X, NEW Y, X \subseteq Event, Y \subseteq Event, X \subseteq Y \cup {r}
        PROVE  Cardinality(X) <= Cardinality(Y) + 1
    <3>1. {r} \subseteq Event /\ Y \cup {r} \subseteq Event
      BY <2>7, <2>8
    <3>2. /\ Cardinality(X) <= Cardinality(Y \cup {r})
          /\ Cardinality(Y \cup {r}) <= Cardinality(Y) + Cardinality({r})
          /\ Cardinality(X) \in Nat /\ Cardinality(Y) \in Nat
          /\ Cardinality(Y \cup {r}) \in Nat /\ Cardinality({r}) \in Nat
      BY <2>8, <3>1, Counts
    <3>3. Cardinality({r}) = 1
      BY FS_Singleton
    <3> QED
      BY <3>2, <3>3
  <2>9. \A X \in SUBSET Event : Cardinality(X) \in Nat
    BY Counts
  <2>10. Gap \subseteq Event /\ Gap' \subseteq Event /\ dropped \subseteq Event
    BY <2>7, Counts
  <2>11. ASSUME InFlight = {} PROVE Cardinality(Gap') <= Cardinality(dropped')
    <3>1. Cardinality(Gap') <= Cardinality(Gap) + 1 /\ Cardinality(Gap) <= Cardinality(dropped)
      BY <2>7, <2>8, <2>10, <2>11 DEF PaidInv
    <3> QED
      BY <3>1, <2>6, <2>9, <2>10
  <2>12. ASSUME NEW f \in InFlight
         PROVE  \E d \in 0..n(f) :
                    /\ Aligned(f, d)'
                    /\ Cardinality(Gap' \ ASet(batch[f])) + d <= Cardinality(dropped')
    <3>1. f \in Flushers
      BY DEF InFlight
    <3>2. n(f) \in Nat /\ DOMAIN batch[f] = 1..n(f)
      BY <3>1, BatchPlaces
    <3>3. PICK d \in 0..n(f) :
              Aligned(f, d) /\ Cardinality(Gap \ ASet(batch[f])) + d <= Cardinality(dropped)
      BY DEF PaidInv
    <3> DEFINE X == Gap' \ ASet(batch[f])  Y == Gap \ ASet(batch[f])
    <3>4. X \subseteq Event /\ Y \subseteq Event /\ X \subseteq Y \cup {r}
      BY <2>7, <2>10
    <3>5. Cardinality(X) \in Nat /\ Cardinality(Y) \in Nat /\ Cardinality(dropped) \in Nat
      BY <2>9, <2>10, <3>4
    <3>6. Cardinality(Y) + d <= Cardinality(dropped)
      BY <3>3
    <3>7. CASE d < n(f)
      <4>1. r = batch[f][d + 1]
        <5>1. 1 \in 1..n(f) - d
          BY <3>2, <3>3, <3>7
        <5> QED
          BY <5>1, <3>3 DEF Aligned, r
      <4>2. X \subseteq Y
        <5>1. d + 1 \in 1..n(f)
          BY <3>2, <3>3, <3>7
        <5>2. r \in ASet(batch[f])
          BY <4>1, <5>1, <3>2 DEF ASet
        <5> QED
          BY <5>2, <2>7
      <4>3. Cardinality(X) <= Cardinality(Y)
        BY <3>4, <4>2, Counts
      <4>4. Aligned(f, d + 1)'
        <5>1. n(f) - d <= Len(rows) /\ \A i \in 1..n(f) - d : rows[i] = batch[f][d + i]
          BY <3>3 DEF Aligned
        <5>2. ASSUME NEW i \in 1..n(f) - (d + 1) PROVE rows'[i] = batch[f][d + 1 + i]
          <6>1. 1 + i \in 1..n(f) - d /\ i \in 1..Len(rows') /\ d + (1 + i) = d + 1 + i
            BY <5>1, <5>2, <3>2, <3>3, <2>2, <1>2
          <6> QED
            BY <6>1, <5>1, <2>2
        <5>3. n(f) - (d + 1) <= Len(rows')
          BY <5>1, <3>2, <3>3, <2>2, <1>2
        <5> QED
          BY <5>2, <5>3, <1>1 DEF Aligned
      <4>5. d + 1 \in 0..n(f) /\ Cardinality(X) + (d + 1) <= Cardinality(dropped')
        BY <3>2, <3>3, <3>5, <3>6, <3>7, <4>3, <2>6
      <4> QED
        BY <4>4, <4>5
    <3>8. CASE d = n(f)
      <4>1. Aligned(f, d)'
        <5>1. n(f) - d = 0 /\ 0 <= Len(rows')
          BY <3>2, <3>8, <2>2, <1>2, <1>4
        <5> QED
          BY <5>1, <1>1 DEF Aligned
      <4>2. Cardinality(X) <= Cardinality(Y) + 1
        BY <3>4, <2>8
      <4>3. Cardinality(X) + d <= Cardinality(dropped')
        BY <4>2, <3>2, <3>3, <3>5, <3>6, <2>6
      <4> QED
        BY <4>1, <4>3
    <3>9. d < n(f) \/ d = n(f)
      BY <3>2, <3>3
    <3> QED
      BY <3>7, <3>8, <3>9
  <2> QED
    BY <1>1, <2>5, <2>11, <2>12 DEF PaidInv
<1> QED
  BY <1>3, <1>4

(* A commit spends what the overflows under its batch have paid.           *)
LEMMA CommitPaid ==
    ASSUME TypeOK, TypeOK', OrderInv, BatchIsHandled, Solo, PaidInv,
           NEW f \in Flushers, CommitBatch(f)
    PROVE  PaidInv'
<1> DEFINE b == batch[f]  n == Len(b)  k == Limited(n)
<1>1. /\ accepted' = accepted /\ Handled' = Handled /\ dropped' = dropped
      /\ pc[f] = "commit" /\ pc' = [pc EXCEPT ![f] = AfterFlush(f)] /\ Commit(n)
  BY DEF CommitBatch, server, Handled
<1>2. f \in InFlight /\ InFlight' = {}
  <2>1. f \in InFlight
    BY <1>1 DEF InFlight
  <2>2. \A g \in InFlight : g = f
    BY <2>1, OneFlush DEF InFlight
  <2> QED
    BY <1>1, <2>1, <2>2, AfterFlushFacts DEF InFlight, TypeOK
<1>3. PICK d \in 0..n :
          Aligned(f, d) /\ Cardinality(Gap \ ASet(b)) + d <= Cardinality(dropped)
  BY <1>2 DEF PaidInv
<1>4. /\ n \in Nat /\ DOMAIN b = 1..n
      /\ rows \in Seq(Event) /\ Len(rows) \in Nat /\ DOMAIN rows = 1..Len(rows)
  BY BatchPlaces
<1>5. ASet(b) \subseteq Handled
  BY <1>1 DEF BatchIsHandled
<1>6. k \in 0..Len(rows) /\ ASet(rows) = ASet(rows') \cup Removed(n)
  BY <1>1, <1>4, CommitFacts DEF Commit
<1>7. /\ n - d <= Len(rows) /\ \A i \in 1..n - d : rows[i] = b[d + i]
  BY <1>3 DEF Aligned
<1>8. n - d <= k /\ k <= n
  BY <1>3, <1>4, <1>7 DEF Limited
<1> DEFINE X == {rows[i] : i \in n - d + 1..k}  Y == Gap \ ASet(b)
<1>9. Gap' \subseteq Y \cup X
  <2> SUFFICES ASSUME NEW e \in Gap', e \notin Gap PROVE e \in X
    BY <1>1, <1>5 DEF Gap
  <2>1. e \in Removed(n)
    BY <1>1, <1>6 DEF Gap
  <2>2. PICK i \in 1..k : e = rows[i]
    BY <2>1 DEF Removed
  <2>3. ~(i \in 1..n - d)
    <3> SUFFICES ASSUME i \in 1..n - d PROVE FALSE
      OBVIOUS
    <3>1. e = b[d + i] /\ d + i \in 1..n
      BY <2>2, <1>3, <1>4, <1>7
    <3>2. e \in Handled
      BY <3>1, <1>4, <1>5 DEF ASet
    <3> QED
      BY <3>2, <1>1 DEF Gap
  <2>4. i \in n - d + 1..k
    BY <2>2, <2>3, <1>3, <1>4, <1>6
  <2> QED
    BY <2>2, <2>4
<1>10. X \subseteq Event /\ Y \subseteq Event /\ Gap' \subseteq Event /\ dropped \subseteq Event
  <2>1. \A i \in n - d + 1..k : i \in 1..Len(rows)
    BY <1>3, <1>4, <1>6
  <2>2. X \subseteq Event
    BY <2>1, <1>4, ElementOfSeq
  <2> QED
    BY <2>2, <1>1, Counts DEF Gap, TypeOK
<1>11. Cardinality(X) <= d
  <2>1. n - d + 1 \in Int /\ k \in Int /\ n - d + 1 <= k + 1 /\ k + 1 - (n - d + 1) <= d
    BY <1>3, <1>4, <1>6, <1>8
  <2> DEFINE l == n - d + 1
  <2>2. l \in Int /\ k \in Int /\ l <= k + 1 /\ k + 1 - l <= d
    BY <2>1
  <2> HIDE DEF l, k, n, b
  <2>3. Cardinality({rows[i] : i \in l..k}) <= k + 1 - l
    BY <2>2, Stretch
  <2>4. Cardinality(X) \in Nat
    BY <1>10, Counts
  <2> QED
    BY <2>2, <2>3, <2>4, <1>3 DEF l
<1>12. Cardinality(Y) + d <= Cardinality(dropped)
  BY <1>3
<1> HIDE DEF X, Y, k
<1>13. Cardinality(Gap') <= Cardinality(dropped')
  <2>1. X \cup Y \subseteq Event /\ Gap' \subseteq X \cup Y
    BY <1>9, <1>10
  <2>2. /\ Cardinality(Gap') <= Cardinality(X \cup Y)
        /\ Cardinality(X \cup Y) <= Cardinality(X) + Cardinality(Y)
        /\ Cardinality(Gap') \in Nat /\ Cardinality(X \cup Y) \in Nat
        /\ Cardinality(X) \in Nat /\ Cardinality(Y) \in Nat /\ Cardinality(dropped) \in Nat
    BY <2>1, <1>10, Counts
  <2> QED
    BY <2>2, <1>1, <1>3, <1>4, <1>11, <1>12
<1>14. dropped' \subseteq accepted' /\ dropped' \cap ASet(rows') = {}
  BY <1>1, <1>6 DEF PaidInv
<1> QED
  BY <1>2, <1>13, <1>14 DEF PaidInv

(* Nothing is missing at first, and nothing is in flight.                  *)
LEMMA InitOutbox == Init => Solo /\ PaidInv
<1> SUFFICES ASSUME Init PROVE Solo /\ PaidInv
  OBVIOUS
<1>1. Gap = {} /\ InFlight = {}
  BY DEF Init, Gap, InFlight, Threads, Flushers
<1>2. PaidInv
  <2>1. dropped = {} /\ Cardinality({}) = 0
    BY FS_EmptySet DEF Init
  <2> QED
    BY <1>1, <2>1 DEF PaidInv
<1>3. Solo
  BY DEF Init, Solo, Threads, Flushers
<1> QED
  BY <1>2, <1>3

(* With ~SlowPost join returns only when the loop thread has ended.        *)
LEMMA SoloStep ==
    ASSUME ~SlowPost, TypeOK, Solo, [Next]_vars
    PROVE  Solo'
<1>0. /\ pc \in [Flushers -> PcValues] /\ "loop" \in Flushers /\ "main" \in Flushers
  BY DEF TypeOK, PcValues, Flushers
<1>1. ASSUME NEW f \in Flushers, FlushStep(f) PROVE Solo'
  <2>1. /\ pc[f] \in {"peek", "post", "commit"}
        /\ \E x \in {"post", "commit", "close", "exited", "sleep"} : pc' = [pc EXCEPT ![f] = x]
        /\ f = "main" => pc'["main"] \notin {"up", "join"}
    BY <1>1, <1>0, AfterFlushFacts
       DEF FlushStep, PeekBatch, PostAccepted, PostFails, PostTimesOut, CommitBatch
  <2>2. CASE f = "loop"
    BY <2>1, <2>2, <1>0 DEF Solo
  <2>3. CASE f = "main"
    BY <2>1, <2>3, <1>0 DEF Solo
  <2> QED
    BY <2>2, <2>3 DEF Flushers
<1>2. ASSUME NEW m \in Monitors, MonitorStep(m) PROVE Solo'
  BY <1>2 DEF MonitorStep, Observe, DropOldest, PutEvent, EnqueueRaises, Solo
<1>3. CASE (\E f \in Flushers : ServerHandles(f)) \/ ServerHandlesLate \/ UNCHANGED vars
  BY <1>3 DEF ServerHandles, ServerHandlesLate, vars, Solo
<1>4. CASE LoopRaises \/ LoopWakes \/ Stop \/ JoinReturns \/ CloseQueue
  BY <1>4, <1>0 DEF LoopRaises, LoopWakes, Stop, JoinReturns, CloseQueue, Solo, Alive, Open
<1>5. CASE Restart \/ ProcessExits \/ Crash
  BY <1>5 DEF Restart, ProcessExits, Crash, Gone, Threads, Flushers, Solo
<1> QED
  BY <1>1, <1>2, <1>3, <1>4, <1>5 DEF Next

(* Every other step leaves the table alone.                                *)
Quiet ==
    /\ rows' = rows /\ accepted' = accepted /\ dropped' = dropped
    /\ stored' = stored /\ skipped' = skipped /\ InFlight' \subseteq InFlight
    /\ \A f \in InFlight' : batch'[f] = batch[f]

(* Control steps, crashes, restarts and the ends of posts are quiet.       *)
LEMMA QuietSteps ==
    ASSUME TypeOK,
           \/ \E m \in Monitors : Observe(m) \/ EnqueueRaises(m)
           \/ \E f \in Flushers : PostAccepted(f) \/ PostFails(f) \/ PostTimesOut(f)
           \/ LoopRaises \/ LoopWakes \/ Stop \/ JoinReturns \/ CloseQueue
           \/ ProcessExits \/ Crash \/ Restart \/ UNCHANGED vars
    PROVE  Quiet
<1> USE DEF server, history, Quiet
<1>1. CASE \E m \in Monitors : Observe(m) \/ EnqueueRaises(m)
  BY <1>1 DEF Observe, EnqueueRaises, InFlight
<1>2. ASSUME NEW f \in Flushers, PostFails(f) \/ PostTimesOut(f) PROVE Quiet
  <2>1. /\ rows' = rows /\ accepted' = accepted /\ dropped' = dropped
        /\ stored' = stored /\ skipped' = skipped
        /\ pc' = [pc EXCEPT ![f] = AfterFlush(f)] /\ batch' = [batch EXCEPT ![f] = <<>>]
    BY <1>2 DEF PostFails, PostTimesOut
  <2>2. \A g \in InFlight' : g # f /\ g \in InFlight /\ batch'[g] = batch[g]
    BY <2>1, AfterFlushFacts DEF TypeOK, InFlight
  <2> QED
    BY <2>1, <2>2
<1>3. CASE LoopRaises
  BY <1>3 DEF LoopRaises, TypeOK, InFlight
<1>4. CASE LoopWakes \/ Stop \/ JoinReturns \/ CloseQueue
  BY <1>4 DEF LoopWakes, Stop, JoinReturns, CloseQueue, TypeOK, InFlight
<1>5. CASE ProcessExits \/ Crash \/ Restart
  BY <1>5 DEF ProcessExits, Crash, Restart, Gone, Threads, InFlight
<1>6. CASE UNCHANGED vars
  BY <1>6 DEF vars, InFlight
<1>7. ASSUME NEW f \in Flushers, PostAccepted(f) PROVE Quiet
  BY <1>7 DEF PostAccepted, InFlight, TypeOK
<1> QED
  BY <1>1, <1>2, <1>3, <1>4, <1>5, <1>6, <1>7

(* Every step keeps what is missing paid for.                              *)
LEMMA PaidStep ==
    ASSUME TypeOK, TypeOK', OrderInv, BatchIsHandled, Solo, PaidInv, [Next]_vars
    PROVE  PaidInv'
<1> USE DEF server, history
<1>1. ASSUME NEW m \in Monitors, PutEvent(m) PROVE PaidInv'
  BY <1>1, PutPaid
<1>2. ASSUME NEW m \in Monitors, DropOldest(m) PROVE PaidInv'
  BY <1>2, DropPaid
<1>3. ASSUME NEW f \in Flushers, PeekBatch(f) PROVE PaidInv'
  BY <1>3, PeekPaid
<1>4. ASSUME NEW f \in Flushers, CommitBatch(f) PROVE PaidInv'
  BY <1>4, CommitPaid
<1>5. ASSUME NEW f \in Flushers, ServerHandles(f) PROVE PaidInv'
  <2>1. /\ rows' = rows /\ accepted' = accepted /\ dropped' = dropped /\ batch' = batch
        /\ Handled \subseteq Handled' /\ InFlight' = InFlight
    BY <1>5 DEF ServerHandles, Handle, Handled, InFlight
  <2> QED
    BY <2>1, PaidStays
<1>6. CASE ServerHandlesLate
  <2>1. /\ rows' = rows /\ accepted' = accepted /\ dropped' = dropped /\ batch' = batch
        /\ Handled \subseteq Handled' /\ InFlight' = InFlight
    BY <1>6 DEF ServerHandlesLate, Handle, Handled, InFlight
  <2> QED
    BY <2>1, PaidStays
<1>7. CASE Quiet
  BY <1>7, PaidStays DEF Quiet, Handled
<1> QED
  BY <1>1, <1>2, <1>3, <1>4, <1>5, <1>6, <1>7, QuietSteps DEF Next, MonitorStep, FlushStep

(* Paid for after a step, if the invariant holds after it.                 *)
LEMMA PaidNext == (TypeOK /\ PaidInv)' => Box!Paid'
<1>1. TypeOK /\ PaidInv => Box!Paid
  <2> SUFFICES ASSUME TypeOK, PaidInv PROVE Box!Paid
    OBVIOUS
  <2>1. Box!Missing = Gap
    BY DEF Box!Missing, Box!Handled, Box!Queued, Gap, Handled, ASet
  <2>2. Cardinality(Gap) <= Cardinality(dropped)
    BY GapPaid
  <2>3. Box!Cardinality(Gap) = Cardinality(Gap)
    BY DEF Box!Cardinality, Cardinality
  <2> QED
    BY <2>1, <2>2, <2>3 DEF Box!Paid
<1> QED
  BY <1>1, PTL

(* Every step is a step of the outbox or none: a put accepts, the server's *)
(* round over an event of any request delivers, a commit releases, a drop  *)
(* overflows.                                                              *)
LEMMA OutboxStep ==
    ASSUME TypeOK, TypeOK', OrderInv, OrderInv', Solo, PaidInv, PaidInv', [Next]_vars
    PROVE  [Box!Next]_(Box!vars)
<1> USE DEF server, history
<1>0. /\ Box!Missing = Gap /\ Box!Queued = ASet(rows)
      /\ rows \in Seq(Event) /\ Len(rows) \in Nat /\ DOMAIN rows = 1..Len(rows)
      /\ Len(rows') \in Nat /\ DOMAIN rows' = 1..Len(rows')
  BY LenProperties DEF TypeOK, Box!Missing, Box!Handled, Box!Queued, Gap, Handled, ASet
<1>1. Box!Paid' /\ Box!InOrder'
  <2>1. Box!Paid'
    BY PaidNext
  <2>2. NoOvertaking'
    BY DEF OrderInv, Sent, IsFront, NoOvertaking
  <2> QED
    BY <2>1, <2>2, <1>0 DEF NoOvertaking, Box!InOrder, Box!Handled, Handled
<1>2. ASSUME NEW m \in Monitors, PutEvent(m) PROVE Box!Next
  <2>1. ev[m] \in Event /\ ev[m] \notin accepted
    BY <1>2, TransportAssumption DEF PutEvent, OrderInv, CallsAreNew, TypeOK, Event
  <2>2. Box!Accept(ev[m])
    BY <1>2, <2>1 DEF PutEvent, Put, Box!Accept
  <2> QED
    BY <2>1, <2>2 DEF Box!Next
<1>3. ASSUME NEW q \in Pending, q # <<>>, Handle(Head(q)),
             rows' = rows, accepted' = accepted, dropped' = dropped
      PROVE  Box!Next
  <2>1. Head(q) \in accepted
    <3>1. q \in Seq(Event)
      BY DEF TypeOK, Pending
    <3>2. Len(q) \in Nat \ {0} /\ Head(q) = q[1]
      BY <3>1, <1>3, HeadTailProperties, EmptySeq, LenProperties
    <3>3. 1 \in 0..Len(q) /\ First(q, 1) = {Head(q)}
      BY <3>2 DEF First
    <3>4. Handled \cup {Head(q)} \in Sent
      BY <3>3 DEF Sent
    <3> QED
      BY <3>4 DEF OrderInv
  <2>2. Box!Deliver(Head(q))
    BY <1>1, <1>3 DEF Handle, Box!Deliver
  <2> QED
    BY <2>1, <2>2 DEF Box!Next
<1>4. CASE (\E f \in Flushers : ServerHandles(f)) \/ ServerHandlesLate
  <2>1. ASSUME NEW f \in Flushers, ServerHandles(f) PROVE Box!Next
    BY <2>1, <1>3 DEF ServerHandles, Pending
  <2>2. CASE ServerHandlesLate
    <3>1. PICK b \in late : Handle(Head(b)) /\ UNCHANGED <<rows, accepted, dropped>>
      BY <2>2 DEF ServerHandlesLate
    <3>2. b \in Pending /\ b # <<>>
      BY DEF Pending, TypeOK
    <3> QED
      BY <3>1, <3>2, <1>3
  <2> QED
    BY <1>4, <2>1, <2>2
<1>5. ASSUME NEW f \in Flushers, CommitBatch(f) PROVE [Box!Next]_(Box!vars)
  <2> DEFINE n == Limited(Len(batch[f]))
  <2>1. n \in 0..Len(rows) /\ rows' = SubSeq(rows, n + 1, Len(rows))
    BY <1>5, <1>0, BatchPlaces, CommitFacts DEF CommitBatch, Commit
  <2>2. accepted' = accepted /\ stored' = stored /\ skipped' = skipped /\ dropped' = dropped
    BY <1>5 DEF CommitBatch
  <2> HIDE DEF n
  <2>3. CASE n = 0
    <3>1. rows' = rows
      BY <2>1, <2>3, <1>0, WholeSubSeq
    <3> QED
      BY <3>1, <2>2 DEF Box!vars
  <2>4. CASE n # 0
    <3>0. Len(rows) \in Nat
      BY <1>0
    <3>1. n \in 1..Len(rows)
      BY <2>1, <2>4, <3>0
    <3>2. Box!Release(n)
      BY <2>1, <2>2, <1>1 DEF Box!Release
    <3> QED
      BY <3>1, <3>2 DEF Box!Next
  <2> QED
    BY <2>3, <2>4
<1>6. ASSUME NEW m \in Monitors, DropOldest(m) PROVE [Box!Next]_(Box!vars)
  <2>1. /\ accepted' = accepted /\ stored' = stored /\ skipped' = skipped
        /\ dropped' = dropped \cup Removed(1)
    BY <1>6 DEF DropOldest
  <2>2. CASE Len(rows) = 0
    <3>1. Limited(1) = 0 /\ 0 + 1 = 1
      BY <2>2 DEF Limited
    <3>2. Removed(1) = {} /\ rows' = SubSeq(rows, 0 + 1, Len(rows))
      BY <3>1, <1>6 DEF Removed, DropOldest, Commit
    <3>3. rows' = rows
      BY <3>1, <3>2, <1>0, WholeSubSeq
    <3> QED
      BY <3>2, <3>3, <2>1 DEF Box!vars
  <2>3. CASE Len(rows) # 0
    <3>1. Limited(1) = 1 /\ Removed(1) = {rows[1]} /\ rows # <<>>
      BY <2>3, <1>0, OldestOne, EmptySeq DEF Removed
    <3>2. rows' = Tail(rows)
      BY <3>1, <1>6, <1>0, TailIsSubSeq DEF DropOldest, Commit
    <3>3. rows[1] \notin dropped
      BY <2>3, <1>0 DEF PaidInv, ASet
    <3>4. Cardinality(dropped') = Cardinality(dropped) + 1
      BY <3>1, <3>3, <2>1, Counts, FS_AddElement
    <3>5. Box!Overflow
      BY <3>1, <3>2, <3>4, <2>1, <1>1 DEF Box!Overflow
    <3> QED
      BY <3>5 DEF Box!Next
  <2> QED
    BY <2>2, <2>3
<1>7. CASE Quiet
  BY <1>7 DEF Quiet, Box!vars
<1>8. ASSUME NEW f \in Flushers, PeekBatch(f) PROVE UNCHANGED Box!vars
  BY <1>8 DEF PeekBatch, Box!vars
<1> QED
  BY <1>2, <1>4, <1>5, <1>6, <1>7, <1>8, QuietSteps DEF Next, MonitorStep, FlushStep

(* With POSTs that end before stop gives up on the loop thread, so that    *)
(* there is one flush at a time, the transport is an outbox of bounded     *)
(* loss, for any number of monitors, limit, batch size and events: each    *)
(* overflow loses one event at most, and the server goes through the queue *)
(* in order, storing each event or passing over it                         *)
(* (src/agent/transport.py, enqueue and _flush).                           *)
THEOREM ImplementsOutbox ==
    ASSUME ~SlowPost
    PROVE  Spec => IsOutbox
<1>1. Init => Box!Init
  <2>1. Cardinality({}) = 0
    BY FS_EmptySet
  <2> QED
    BY <2>1 DEF Init, Box!Init
<1>2. IInv => TypeOK /\ BatchIsHandled
  BY DEF IInv
<1>3. IInv /\ IInv' /\ OrderInv /\ Solo /\ PaidInv /\ [Next]_vars
        => OrderInv' /\ Solo' /\ PaidInv' /\ [Box!Next]_(Box!vars)
  BY <1>2, OrderStep, SoloStep, PaidStep, OutboxStep DEF IInv
<1>4. Init => OrderInv /\ Solo /\ PaidInv
  BY InitOrder, InitOutbox
<1> QED
  BY <1>1, <1>3, <1>4, Invariance, PTL DEF Spec, IsOutbox, Box!Spec
=============================================================================
