------------------------- MODULE HashChain_proofs ---------------------------
(***************************************************************************)
(* Proofs about the two hash chains: AuditChain with one server process,   *)
(* for any hosts, events, retention and number of rows, and AgentLog, for  *)
(* any keys and any number of events, faults and restarts.                 *)
(***************************************************************************)
EXTENDS AuditChain, AgentLog, DataLemmas, FiniteSetTheorems

-----------------------------------------------------------------------------
(* The greatest of a set of places, which HashBefore takes.                *)
LEMMA MaxIs ==
    ASSUME NEW S \in SUBSET Int, NEW m \in S, \A y \in S : m >= y
    PROVE  Max(S) = m
<1> DEFINE Top(x) == x \in S /\ \A y \in S : x >= y
<1>1. \E x : Top(x)
  OBVIOUS
<1>2. Max(S) = CHOOSE x : Top(x)
  BY DEF Max
<1>3. Top(Max(S))
  BY <1>1, <1>2
<1>4. Max(S) \in S /\ Max(S) >= m /\ m >= Max(S)
  BY <1>3
<1>5. Max(S) \in Int /\ m \in Int
  BY <1>4
<1> QED
  BY <1>4, <1>5

LEMMA MaxExists ==
    ASSUME NEW n \in Nat, NEW S \in SUBSET (1..n), S # {}
    PROVE  Max(S) \in S /\ \A y \in S : Max(S) >= y
<1> DEFINE Gaps == {n - x : x \in S}
<1>1. Gaps \in SUBSET Nat /\ Gaps # {}
  <2>1. \A x \in S : n - x \in Nat
    OBVIOUS
  <2> QED
    BY <2>1
<1>2. PICK g \in Gaps : \A k \in Gaps : g <= k
  <2> HIDE DEF Gaps
  <2> QED
    BY <1>1, LeastNumber
<1>3. PICK m \in S : g = n - m
  BY <1>2
<1>4. \A y \in S : m >= y
  <2> TAKE y \in S
  <2>1. n - y \in Gaps /\ y \in Int /\ m \in Int
    OBVIOUS
  <2>2. n - m <= n - y
    BY <1>2, <1>3, <2>1
  <2> QED
    BY <2>1, <2>2
<1>5. S \in SUBSET Int
  OBVIOUS
<1>6. Max(S) = m
  BY <1>4, <1>5, MaxIs
<1> QED
  BY <1>4, <1>6

-----------------------------------------------------------------------------
(* The server's chain.                                                     *)

OneProcess == \A p, q \in Processes : p = q

Appends == [hostname : Hosts, event : Event, prev_hash : Hash]

(* What Sequences says of a chain and of a hash, in one place.             *)
LEMMA ChainFacts ==
    ASSUME TypeOK, NEW h \in Hosts
    PROVE  /\ chain[h] \in Seq(Rows)
           /\ Len(chain[h]) \in Nat
           /\ DOMAIN chain[h] = 1..Len(chain[h])
           /\ chain[h] = <<>> <=> Len(chain[h]) = 0
           /\ \A i \in 1..Len(chain[h]) : chain[h][i] \in Rows
<1>1. chain[h] \in Seq(Rows)
  BY DEF TypeOK
<1> QED
  BY <1>1, LenProperties, EmptySeq, ElementOfSeq

(* The tail of a host's chain is a hash, and the hash of its last row.     *)
LEMMA TailHashFacts ==
    ASSUME TypeOK, NEW h \in Hosts
    PROVE  TailHash(h) \in Hash
<1>1. CASE chain[h] = <<>>
  BY <1>1, EmptySeq DEF TailHash, Genesis, Hash
<1>2. CASE chain[h] # <<>>
  <2>1. chain[h][Len(chain[h])] \in Rows
    BY <1>2, ChainFacts
  <2> QED
    BY <1>2, <2>1 DEF TailHash, Rows
<1> QED
  BY <1>1, <1>2

(* A digest is longer than the hash it extends, agrees with it, and ends   *)
(* in its own content.                                                     *)
LEMMA DigestFacts ==
    ASSUME NEW S, NEW s \in Seq(S), NEW x \in S
    PROVE  /\ Digest(s, x) \in Seq(S)
           /\ Len(s) \in Nat
           /\ Len(Digest(s, x)) = Len(s) + 1
           /\ Extends(s, Digest(s, x))
           /\ Digest(s, x)[Len(s) + 1] = x
<1>1. /\ Append(s, x) \in Seq(S)
      /\ Len(Append(s, x)) = Len(s) + 1
      /\ \A i \in 1..Len(s) : Append(s, x)[i] = s[i]
      /\ Append(s, x)[Len(s) + 1] = x
  BY AppendProperties
<1>2. Len(s) \in Nat
  BY LenProperties
<1> QED
  BY <1>1, <1>2 DEF Digest, Extends

(* Extends is transitive.                                                  *)
LEMMA ExtendsTransitive ==
    ASSUME NEW S, NEW s \in Seq(S), NEW t \in Seq(S), NEW u \in Seq(S),
           Extends(s, t), Extends(t, u)
    PROVE  Extends(s, u)
<1>1. Len(s) \in Nat /\ Len(t) \in Nat /\ Len(u) \in Nat
  BY LenProperties
<1>2. \A k \in 1..Len(s) : k \in 1..Len(t) /\ u[k] = t[k] /\ t[k] = s[k]
  BY <1>1 DEF Extends
<1> QED
  BY <1>1, <1>2 DEF Extends

(* The row that an append is about to insert.                              *)
LEMMA NewRowFacts ==
    ASSUME TypeOK, NEW p \in Processes, ~Idle(p)
    PROVE  LET a == appending[p]
               r == NewRow(a) IN
           /\ a \in Appends
           /\ r \in Rows
           /\ r.hostname = a.hostname /\ r.event = a.event /\ r.prev_hash = a.prev_hash
           /\ r.record_hash = Digest(a.prev_hash, <<a.hostname, a.event>>)
<1> DEFINE a == appending[p]
<1>1. a \in Appends
  BY DEF TypeOK, Idle, Appends
<1>2. a.hostname \in Hosts /\ a.event \in Event /\ a.prev_hash \in Hash
  BY <1>1 DEF Appends
<1>3. Digest(a.prev_hash, <<a.hostname, a.event>>) \in Hash
  <2>1. <<a.hostname, a.event>> \in Content /\ a.prev_hash \in Seq(Content)
    BY <1>2 DEF Hash, Content
  <2> QED
    BY <2>1, DigestFacts DEF Hash
<1> QED
  BY <1>1, <1>2, <1>3 DEF NewRow, Rows, TypeOK

(* Once IInv holds, an append extends the hash of every row of its host    *)
(* and meets no equal hash anywhere.                                       *)
LEMMA NewHashIsNew ==
    ASSUME IInv, NEW p \in Processes, ~Idle(p)
    PROVE  LET a == appending[p]
               r == NewRow(a) IN
           /\ \A i \in 1..Len(chain[a.hostname]) :
                  Extends(chain[a.hostname][i].record_hash, r.record_hash)
           /\ ~AlreadyRecorded(r)
<1> DEFINE a == appending[p]
           h == a.hostname
           n == Len(chain[h])
           new == Digest(a.prev_hash, <<a.hostname, a.event>>)
<1>0. TypeOK
  BY DEF IInv
<1>1. /\ a \in Appends /\ h \in Hosts /\ a.event \in Event /\ a.prev_hash \in Hash
      /\ NewRow(a).record_hash = new
      /\ a.prev_hash = TailHash(h)
  <2>1. a \in Appends /\ NewRow(a).record_hash = new
    BY <1>0, NewRowFacts
  <2>2. a.prev_hash = TailHash(h)
    BY DEF IInv, TailIsCurrent
  <2> QED
    BY <2>1, <2>2 DEF Appends
<1>2. /\ new \in Hash
      /\ Extends(a.prev_hash, new)
      /\ Len(a.prev_hash) \in Nat
      /\ Len(new) = Len(a.prev_hash) + 1
      /\ new[Len(new)] = <<h, a.event>>
  <2> DEFINE x == <<a.hostname, a.event>>
  <2>1. x \in Content /\ a.prev_hash \in Seq(Content)
    BY <1>1 DEF Hash, Content
  <2> HIDE DEF x
  <2>2. /\ Digest(a.prev_hash, x) \in Seq(Content)
        /\ Len(a.prev_hash) \in Nat
        /\ Len(Digest(a.prev_hash, x)) = Len(a.prev_hash) + 1
        /\ Extends(a.prev_hash, Digest(a.prev_hash, x))
        /\ Digest(a.prev_hash, x)[Len(a.prev_hash) + 1] = x
    BY <2>1, DigestFacts
  <2> QED
    BY <2>2 DEF Hash, x
<1>3. ASSUME NEW i \in 1..n
      PROVE  Extends(chain[h][i].record_hash, new)
  <2>1. /\ n \in Nat /\ chain[h] # <<>> /\ DOMAIN chain[h] = 1..n
        /\ chain[h][i] \in Rows /\ chain[h][n] \in Rows
    BY <1>1, ChainFacts DEF IInv
  <2>2. chain[h][n].record_hash = a.prev_hash
    BY <1>1, <2>1 DEF TailHash
  <2>3. CASE i = n
    BY <1>2, <2>2, <2>3
  <2>4. CASE i # n
    <3>1. Extends(chain[h][i].record_hash, chain[h][n].record_hash)
      BY <1>1, <2>1, <2>4 DEF IInv, CommitsToHistory
    <3>2. chain[h][i].record_hash \in Hash
      BY <2>1 DEF Rows
    <3> QED
      BY <1>1, <1>2, <2>2, <3>1, <3>2, ExtendsTransitive DEF Hash
  <2> QED
    BY <2>3, <2>4
<1>4. ASSUME NEW g \in Hosts, NEW i \in DOMAIN chain[g],
             chain[g][i].record_hash = new
      PROVE  FALSE
  <2>1. /\ chain[g][i] \in Rows /\ DOMAIN chain[g] = 1..Len(chain[g])
    BY ChainFacts DEF IInv
  <2>2. CASE g = h
    <3>1. Extends(chain[g][i].record_hash, new)
      BY <1>3, <2>1, <2>2
    <3>2. Len(new) < Len(new) /\ Len(new) \in Nat
      BY <1>2, <1>4, <3>1 DEF Extends
    <3> QED
      BY <3>2
  <2>3. CASE g # h
    <3> DEFINE r == chain[g][i]
    <3>1. r.hostname = g /\ new = Digest(r.prev_hash, <<g, r.event>>)
      BY <1>4 DEF IInv, Sound
    <3> DEFINE y == <<g, r.event>>
    <3>3. y \in Content /\ r.prev_hash \in Seq(Content)
      BY <2>1 DEF Rows, Hash, Content
    <3> HIDE DEF y
    <3>4. /\ Digest(r.prev_hash, y)[Len(r.prev_hash) + 1] = y
          /\ Len(Digest(r.prev_hash, y)) = Len(r.prev_hash) + 1
      BY <3>3, DigestFacts
    <3>5. new[Len(new)] = y
      BY <3>1, <3>4 DEF y
    <3> QED
      BY <1>2, <2>3, <3>5 DEF y
  <2> QED
    BY <2>2, <2>3
<1>5. ~AlreadyRecorded(NewRow(a))
  BY <1>1, <1>4 DEF AlreadyRecorded
<1> QED
  BY <1>1, <1>3, <1>5
-----------------------------------------------------------------------------
(* IInv holds initially.                                                   *)
LEMMA InitIInv == Init => IInv
<1> SUFFICES ASSUME Init PROVE IInv
  OBVIOUS
<1>1. \A h \in Hosts : chain[h] = <<>>
  BY DEF Init
<1>2. <<>> \in Seq(Rows) /\ Len(<<>>) = 0 /\ DOMAIN <<>> = {}
  <2>1. <<>> \in Seq(Rows) /\ Len(<<>>) = 0
    BY EmptySeq
  <2> QED
    BY <2>1, LenProperties
<1>3. TypeOK
  BY <1>2 DEF Init, TypeOK
<1>4. \A p \in Processes : Idle(p)
  BY DEF Init, Idle
<1> QED
  BY <1>1, <1>2, <1>3, <1>4 DEF IInv, Sound, TailIsCurrent, Linked, CommitsToHistory

(* The SELECT of the tail.                                                 *)
LEMMA BeginAppendStep ==
    ASSUME IInv, NEW p \in Processes, NEW h \in Hosts, NEW e \in Event,
           BeginAppend(p, h, e)
    PROVE  IInv'
<1> USE DEF IInv
<1>1. TailHash(h) \in Hash
  BY TailHashFacts
<1>2. TypeOK'
  BY <1>1 DEF TypeOK, BeginAppend
<1>3. TailIsCurrent'
  <2>1. ASSUME NEW q \in Processes, appending'[q] # Nobody
        PROVE  appending'[q].prev_hash = TailHash(appending[q].hostname)'
    <3>1. CASE q = p
      <4>1. appending'[q] = [hostname |-> h, event |-> e, prev_hash |-> TailHash(h)]
        BY <3>1 DEF BeginAppend, TypeOK
      <4> QED
        BY <4>1 DEF BeginAppend, TailHash
    <3>2. CASE q # p
      <4>1. appending'[q] = appending[q]
        BY <3>2 DEF BeginAppend, TypeOK
      <4> QED
        BY <2>1, <4>1 DEF BeginAppend, TailHash, TailIsCurrent, Idle
    <3> QED
      BY <3>1, <3>2
  <2> QED
    BY <2>1 DEF TailIsCurrent, Idle
<1>4. Sound' /\ Linked' /\ CommitsToHistory'
  BY DEF BeginAppend, Sound, Linked, CommitsToHistory
<1> QED
  BY <1>2, <1>3, <1>4

(* The INSERT: the row goes to the end of its host's chain, and to no      *)
(* other.                                                                  *)
LEMMA EndAppendStep ==
    ASSUME IInv, OneProcess, NEW p \in Processes, EndAppend(p)
    PROVE  IInv'
<1> USE DEF IInv
<1> DEFINE a == appending[p]
           r == NewRow(a)
           c == chain[a.hostname]
<1>1. ~Idle(p)
  BY DEF EndAppend
<1>2. /\ a \in Appends /\ a.hostname \in Hosts
      /\ r \in Rows /\ r.hostname = a.hostname /\ r.event = a.event
      /\ r.prev_hash = a.prev_hash /\ r.prev_hash = TailHash(a.hostname)
      /\ r.record_hash = Digest(a.prev_hash, <<a.hostname, a.event>>)
  <2>1. /\ a \in Appends /\ r \in Rows /\ r.hostname = a.hostname /\ r.event = a.event
        /\ r.prev_hash = a.prev_hash
        /\ r.record_hash = Digest(a.prev_hash, <<a.hostname, a.event>>)
    BY <1>1, NewRowFacts
  <2>2. a.prev_hash = TailHash(a.hostname)
    BY <1>1 DEF TailIsCurrent
  <2> QED
    BY <2>1, <2>2 DEF Appends
<1>3. /\ \A i \in 1..Len(c) : Extends(c[i].record_hash, r.record_hash)
      /\ ~AlreadyRecorded(r)
  BY <1>1, NewHashIsNew
<1>4. /\ c \in Seq(Rows) /\ Len(c) \in Nat /\ DOMAIN c = 1..Len(c)
      /\ (c = <<>> <=> Len(c) = 0)
      /\ \A i \in 1..Len(c) : c[i] \in Rows
  BY <1>2, ChainFacts
<1> DEFINE d == Append(c, r)
<1>5. /\ d \in Seq(Rows) /\ Len(d) = Len(c) + 1
      /\ DOMAIN d = 1..(Len(c) + 1)
      /\ \A i \in 1..Len(c) : d[i] = c[i]
      /\ d[Len(c) + 1] = r
  <2>1. /\ d \in Seq(Rows) /\ Len(d) = Len(c) + 1
        /\ \A i \in 1..Len(c) : d[i] = c[i]
        /\ d[Len(c) + 1] = r
    BY <1>2, <1>4, AppendProperties
  <2> QED
    BY <2>1, LenProperties
<1>6. chain' = [chain EXCEPT ![a.hostname] = d]
  BY <1>3 DEF EndAppend
<1>7. chain'[a.hostname] = d /\ \A g \in Hosts : g # a.hostname => chain'[g] = chain[g]
  BY <1>2, <1>6 DEF TypeOK
<1> HIDE DEF a, r, c, d
<1>8. TypeOK'
  <2>1. chain' \in [Hosts -> Seq(Rows)]
    BY <1>2, <1>5, <1>6 DEF TypeOK
  <2>2. appending' = [appending EXCEPT ![p] = Nobody] /\ nextId' = nextId + 1 /\ now' = now
    BY DEF EndAppend
  <2> QED
    BY <2>1, <2>2 DEF TypeOK
<1>9. TailIsCurrent'
  <2>1. \A q \in Processes : appending'[q] = Nobody
    BY DEF EndAppend, TypeOK, OneProcess
  <2> QED
    BY <2>1 DEF TailIsCurrent, Idle
<1>10. Sound'
  <2> SUFFICES ASSUME NEW g \in Hosts, NEW i \in DOMAIN chain'[g]
               PROVE  LET s == chain'[g][i] IN
                      s.hostname = g /\ s.record_hash = Digest(s.prev_hash, <<s.hostname, s.event>>)
    BY DEF Sound
  <2>1. CASE g # a.hostname
    BY <1>7, <2>1 DEF Sound
  <2>2. CASE g = a.hostname /\ i # Len(c) + 1
    <3>1. i \in DOMAIN c /\ d[i] = c[i]
      BY <1>4, <1>5, <1>7, <2>2
    <3> QED
      BY <1>7, <2>2, <3>1 DEF Sound, c
  <2>3. CASE g = a.hostname /\ i = Len(c) + 1
    BY <1>2, <1>5, <1>7, <2>3
  <2> QED
    BY <2>1, <2>2, <2>3
<1>11. Linked'
  <2> SUFFICES ASSUME NEW g \in Hosts, NEW i \in 1..Len(chain'[g]) - 1
               PROVE  chain'[g][i + 1].prev_hash = chain'[g][i].record_hash
    BY DEF Linked
  <2>1. CASE g # a.hostname
    BY <1>7, <2>1 DEF Linked
  <2>2. CASE g = a.hostname /\ i # Len(c)
    <3>1. i \in 1..Len(c) - 1 /\ i + 1 \in 1..Len(c) /\ i \in 1..Len(c)
      BY <1>4, <1>5, <1>7, <2>2
    <3> QED
      BY <1>2, <1>5, <1>7, <2>2, <3>1 DEF Linked, c
  <2>3. CASE g = a.hostname /\ i = Len(c)
    <3>1. Len(c) # 0 /\ Len(c) \in 1..Len(c)
      BY <1>4, <1>5, <1>7, <2>3
    <3>2. TailHash(a.hostname) = c[Len(c)].record_hash
      BY <1>4, <3>1 DEF TailHash, c
    <3> QED
      BY <1>2, <1>5, <1>7, <2>3, <3>1, <3>2
  <2> QED
    BY <2>1, <2>2, <2>3
<1>12. CommitsToHistory'
  <2> SUFFICES ASSUME NEW g \in Hosts, NEW i \in DOMAIN chain'[g], NEW j \in DOMAIN chain'[g],
                      i < j
               PROVE  Extends(chain'[g][i].record_hash, chain'[g][j].record_hash)
    BY DEF CommitsToHistory, Extends
  <2>1. CASE g # a.hostname
    BY <1>7, <2>1 DEF CommitsToHistory
  <2>2. CASE g = a.hostname /\ j # Len(c) + 1
    <3>1. i \in DOMAIN c /\ j \in DOMAIN c /\ d[i] = c[i] /\ d[j] = c[j]
      BY <1>4, <1>5, <1>7, <2>2
    <3> QED
      BY <1>2, <1>7, <2>2, <3>1 DEF CommitsToHistory, c
  <2>3. CASE g = a.hostname /\ j = Len(c) + 1
    <3>1. i \in 1..Len(c) /\ d[i] = c[i]
      BY <1>4, <1>5, <1>7, <2>3
    <3> QED
      BY <1>3, <1>5, <1>7, <2>3, <3>1
  <2> QED
    BY <2>1, <2>2, <2>3
<1> QED
  BY <1>8, <1>9, <1>10, <1>11, <1>12

(* The places of a sequence of length n are n in number.                   *)
LEMMA IntervalSize ==
    ASSUME NEW n \in Nat
    PROVE  IsFiniteSet(1..n) /\ Cardinality(1..n) = n
<1>1. IsFiniteSet(1..n) /\ Cardinality(1..n) = IF 1 > n THEN 0 ELSE n - 1 + 1
  BY FS_Interval
<1> QED
  BY <1>1

(* The purge: every chain keeps a remainder of itself.                     *)
LEMMA PurgeFacts ==
    ASSUME TypeOK, NEW p \in Processes, NEW cutoff \in 1..MaxTime, Purge(p, cutoff),
           NEW h \in Hosts
    PROVE  \E n \in 0..Len(chain[h]) :
               /\ chain'[h] = SubSeq(chain[h], n + 1, Len(chain[h]))
               /\ chain'[h] \in Seq(Rows)
               /\ DOMAIN chain'[h] = 1..Len(chain'[h])
               /\ Len(chain'[h]) = Len(chain[h]) - n
               /\ \A i \in 1..Len(chain'[h]) : chain'[h][i] = chain[h][n + i]
<1> DEFINE n == Cardinality(Older(chain[h], cutoff))
<1>1. /\ chain[h] \in Seq(Rows) /\ Len(chain[h]) \in Nat
      /\ DOMAIN chain[h] = 1..Len(chain[h])
  BY ChainFacts
<1>2. n \in 0..Len(chain[h])
  <2>1. IsFiniteSet(1..Len(chain[h])) /\ Cardinality(1..Len(chain[h])) = Len(chain[h])
    BY <1>1, IntervalSize
  <2>2. Older(chain[h], cutoff) \in SUBSET (1..Len(chain[h]))
    BY <1>1 DEF Older
  <2>3. IsFiniteSet(Older(chain[h], cutoff)) /\ n <= Len(chain[h])
    BY <2>1, <2>2, FS_Subset
  <2>4. n \in Nat
    BY <2>3, FS_CardinalityType
  <2> QED
    BY <1>1, <2>3, <2>4
<1>3. chain'[h] = SubSeq(chain[h], n + 1, Len(chain[h]))
  BY DEF Purge, Kept
<1> HIDE DEF n
<1>4. /\ chain'[h] \in Seq(Rows)
      /\ Len(chain'[h]) = Len(chain[h]) - n
      /\ \A i \in 1..Len(chain'[h]) : chain'[h][i] = chain[h][n + i]
  BY <1>1, <1>2, <1>3, TailFacts
<1>5. DOMAIN chain'[h] = 1..Len(chain'[h])
  BY <1>4, LenProperties
<1> QED
  BY <1>2, <1>3, <1>4, <1>5 DEF n

(* A purge of the rows before a cutoff.                                    *)
LEMMA PurgeStep ==
    ASSUME IInv, OneProcess, NEW p \in Processes, NEW cutoff \in 1..MaxTime,
           Purge(p, cutoff)
    PROVE  IInv'
<1> USE DEF IInv
<1>1. ASSUME NEW h \in Hosts
      PROVE  \E n \in 0..Len(chain[h]) :
                 /\ chain'[h] \in Seq(Rows)
                 /\ DOMAIN chain'[h] = 1..Len(chain'[h])
                 /\ Len(chain'[h]) = Len(chain[h]) - n
                 /\ \A i \in 1..Len(chain'[h]) : chain'[h][i] = chain[h][n + i]
  BY PurgeFacts
<1>2. \A h \in Hosts : Len(chain[h]) \in Nat /\ DOMAIN chain[h] = 1..Len(chain[h])
  BY ChainFacts
<1>3. TypeOK'
  <2>1. chain' \in [Hosts -> Seq(Rows)]
    BY <1>1 DEF Purge
  <2> QED
    BY <2>1 DEF TypeOK, Purge
<1>4. TailIsCurrent'
  <2>1. \A q \in Processes : Idle(q)'
    BY DEF Purge, Idle, OneProcess
  <2> QED
    BY <2>1 DEF TailIsCurrent
<1>5. ASSUME NEW h \in Hosts
      PROVE  \E n \in Nat : \A i \in DOMAIN chain'[h] :
                 n + i \in DOMAIN chain[h] /\ chain'[h][i] = chain[h][n + i]
  <2>1. PICK n \in 0..Len(chain[h]) :
            /\ DOMAIN chain'[h] = 1..Len(chain'[h])
            /\ Len(chain'[h]) = Len(chain[h]) - n
            /\ \A i \in 1..Len(chain'[h]) : chain'[h][i] = chain[h][n + i]
    BY <1>1
  <2>2. \A i \in 1..Len(chain'[h]) : n + i \in 1..Len(chain[h])
    BY <1>2, <2>1
  <2>3. n \in Nat
    BY <1>2
  <2>4. \A i \in DOMAIN chain'[h] :
            n + i \in DOMAIN chain[h] /\ chain'[h][i] = chain[h][n + i]
    BY <1>2, <2>1, <2>2
  <2> QED
    BY <2>3, <2>4
<1>6. Sound'
  BY <1>5 DEF Sound
<1>7. Linked'
  <2> SUFFICES ASSUME NEW h \in Hosts, NEW i \in 1..Len(chain'[h]) - 1
               PROVE  chain'[h][i + 1].prev_hash = chain'[h][i].record_hash
    BY DEF Linked
  <2>1. PICK n \in 0..Len(chain[h]) :
            /\ Len(chain'[h]) = Len(chain[h]) - n
            /\ \A k \in 1..Len(chain'[h]) : chain'[h][k] = chain[h][n + k]
    BY <1>1
  <2>2. /\ i \in 1..Len(chain'[h]) /\ i + 1 \in 1..Len(chain'[h])
        /\ n + i \in 1..Len(chain[h]) - 1
        /\ n + (i + 1) = (n + i) + 1
    <3>1. Len(chain[h]) \in Nat /\ n \in Nat /\ i \in Int
      BY <1>2
    <3>2. 1 <= i /\ i <= Len(chain[h]) - n - 1
      BY <2>1, <3>1
    <3> QED
      BY <2>1, <3>1, <3>2
  <2>3. /\ chain'[h][i] = chain[h][n + i]
        /\ chain'[h][i + 1] = chain[h][(n + i) + 1]
    BY <2>1, <2>2
  <2> QED
    BY <2>2, <2>3 DEF Linked
<1>8. CommitsToHistory'
  <2> SUFFICES ASSUME NEW h \in Hosts, NEW i \in DOMAIN chain'[h], NEW j \in DOMAIN chain'[h],
                      i < j
               PROVE  Extends(chain'[h][i].record_hash, chain'[h][j].record_hash)
    BY DEF CommitsToHistory, Extends
  <2>1. PICK n \in Nat : \A k \in DOMAIN chain'[h] :
            n + k \in DOMAIN chain[h] /\ chain'[h][k] = chain[h][n + k]
    BY <1>5
  <2>2. i \in Int /\ j \in Int
    BY <1>1
  <2>3. n + i < n + j
    BY <2>2
  <2> QED
    BY <2>1, <2>3 DEF CommitsToHistory
<1> QED
  BY <1>3, <1>4, <1>6, <1>7, <1>8

-----------------------------------------------------------------------------
(* IInv is inductive when one process owns the table.                      *)
THEOREM Inductive ==
    ASSUME OneProcess
    PROVE  IInv /\ [Next]_vars => IInv'
<1> SUFFICES ASSUME IInv, [Next]_vars PROVE IInv'
  OBVIOUS
<1>1. CASE \E p \in Processes, h \in Hosts, e \in Event : BeginAppend(p, h, e)
  BY <1>1, BeginAppendStep
<1>2. CASE \E p \in Processes : EndAppend(p)
  BY <1>2, EndAppendStep
<1>3. CASE \E p \in Processes, cutoff \in 1..MaxTime : Purge(p, cutoff)
  BY <1>3, PurgeStep
<1>4. CASE Tick
  BY <1>4 DEF Tick, IInv, TypeOK, Sound, TailIsCurrent, Idle, TailHash, Linked, CommitsToHistory
<1>5. CASE UNCHANGED vars
  BY <1>5 DEF vars, IInv, TypeOK, Sound, TailIsCurrent, Idle, TailHash, Linked, CommitsToHistory
<1> QED
  BY <1>1, <1>2, <1>3, <1>4, <1>5 DEF Next

(* The inductive invariant holds throughout every behaviour.               *)
THEOREM Invariance ==
    ASSUME OneProcess
    PROVE  Spec => []IInv
BY InitIInv, Inductive, PTL DEF Spec

(* The chain of every host is linked row to row, across any appends and    *)
(* purges of one server process.                                           *)
THEOREM ChainIsLinked ==
    ASSUME OneProcess
    PROVE  Spec => []Linked
<1>1. IInv => Linked
  BY DEF IInv
<1> QED
  BY <1>1, Invariance, PTL

(* Every row's hash extends the hash of every row before it of its host    *)
(* that is still in the table.                                             *)
THEOREM HashesCommitToHistory ==
    ASSUME OneProcess
    PROVE  Spec => []CommitsToHistory
<1>1. IInv => CommitsToHistory
  BY DEF IInv
<1> QED
  BY <1>1, Invariance, PTL

(* The uniqueness of record_hash never turns an append into nothing.       *)
THEOREM EveryAppendIsRecorded ==
    ASSUME OneProcess
    PROVE  Spec => []NoAppendSwallowed
<1>1. IInv => NoAppendSwallowed
  BY NewHashIsNew DEF NoAppendSwallowed
<1> QED
  BY <1>1, Invariance, PTL

(* Rows are in the order of their time, and none is from the future.       *)
Ordered ==
    /\ SortedByTime
    /\ \A h \in Hosts : \A i \in DOMAIN chain[h] : chain[h][i].recorded_at <= now

(* New rows have the time of the clock, which never goes back.             *)
LEMMA OrderedStep == IInv /\ Ordered /\ [Next]_vars => Ordered'
<1> SUFFICES ASSUME IInv, Ordered, [Next]_vars PROVE Ordered'
  OBVIOUS
<1> USE DEF Ordered
<1>0. /\ TypeOK /\ now \in Nat
      /\ \A h \in Hosts : \A i \in DOMAIN chain[h] : chain[h][i].recorded_at \in Nat
  BY ChainFacts DEF IInv, TypeOK, Rows
<1>1. ASSUME NEW p \in Processes, EndAppend(p) PROVE Ordered'
  <2> DEFINE a == appending[p]
             c == chain[a.hostname]
             d == Append(c, NewRow(a))
  <2>1. a.hostname \in Hosts /\ NewRow(a) \in Rows /\ NewRow(a).recorded_at = now /\ now' = now
    BY <1>0, <1>1, NewRowFacts DEF EndAppend, Appends, NewRow
  <2>2. c \in Seq(Rows) /\ Len(c) \in Nat /\ DOMAIN c = 1..Len(c)
    BY <1>0, <2>1, ChainFacts
  <2>3. /\ DOMAIN d = 1..(Len(c) + 1)
        /\ \A i \in 1..Len(c) : d[i] = c[i]
        /\ d[Len(c) + 1] = NewRow(a)
    <3>1. /\ d \in Seq(Rows) /\ Len(d) = Len(c) + 1
          /\ \A i \in 1..Len(c) : d[i] = c[i] /\ d[Len(c) + 1] = NewRow(a)
      BY <2>1, <2>2, AppendProperties
    <3>2. d[Len(c) + 1] = NewRow(a)
      BY <2>1, <2>2, AppendProperties
    <3> QED
      BY <3>1, <3>2, LenProperties
  <2>4. \/ chain' = chain
        \/ chain' = [chain EXCEPT ![a.hostname] = d]
    BY <1>1 DEF EndAppend
  <2>5. \A g \in Hosts : chain'[g] = chain[g] \/ (g = a.hostname /\ chain'[g] = d)
    BY <1>0, <2>1, <2>4 DEF TypeOK
  <2> HIDE DEF a, d
  <2>6. ASSUME NEW g \in Hosts, NEW j \in DOMAIN chain'[g]
        PROVE  /\ chain'[g][j].recorded_at <= now
               /\ \A i \in DOMAIN chain'[g] : i < j =>
                      chain'[g][i].recorded_at <= chain'[g][j].recorded_at
    <3>1. CASE chain'[g] = chain[g]
      BY <3>1 DEF SortedByTime
    <3>2. CASE g = a.hostname /\ chain'[g] = d /\ j = Len(c) + 1
      <4>1. chain'[g][j].recorded_at = now
        BY <2>1, <2>3, <3>2
      <4>2. ASSUME NEW i \in DOMAIN chain'[g], i < j PROVE chain'[g][i].recorded_at <= now
        <5>1. i \in DOMAIN c /\ d[i] = c[i]
          BY <2>2, <2>3, <3>2, <4>2
        <5> QED
          BY <5>1, <2>1, <3>2
      <4> QED
        BY <4>1, <4>2, <1>0
    <3>3. CASE g = a.hostname /\ chain'[g] = d /\ j # Len(c) + 1
      <4>1. j \in DOMAIN c /\ d[j] = c[j]
        BY <2>2, <2>3, <3>3
      <4>2. ASSUME NEW i \in DOMAIN chain'[g], i < j
            PROVE  chain'[g][i].recorded_at <= chain'[g][j].recorded_at
        <5>1. i \in DOMAIN c /\ d[i] = c[i]
          BY <2>2, <2>3, <3>3, <4>1, <4>2
        <5> QED
          BY <5>1, <4>1, <4>2, <2>1, <3>3 DEF SortedByTime
      <4> QED
        BY <4>1, <4>2, <2>1, <3>3
    <3> QED
      BY <3>1, <3>2, <3>3, <2>5
  <2> QED
    BY <2>6, <2>1 DEF SortedByTime
<1>2. ASSUME NEW p \in Processes, NEW cutoff \in 1..MaxTime, Purge(p, cutoff) PROVE Ordered'
  <2>1. now' = now
    BY <1>2 DEF Purge
  <2>2. ASSUME NEW h \in Hosts
        PROVE  \E n \in Nat : \A i \in DOMAIN chain'[h] :
                  i \in Int /\ n + i \in DOMAIN chain[h] /\ chain'[h][i] = chain[h][n + i]
    <3>1. PICK n \in 0..Len(chain[h]) :
              /\ DOMAIN chain'[h] = 1..Len(chain'[h])
              /\ Len(chain'[h]) = Len(chain[h]) - n
              /\ \A i \in 1..Len(chain'[h]) : chain'[h][i] = chain[h][n + i]
      BY <1>0, <1>2, PurgeFacts
    <3>2. DOMAIN chain[h] = 1..Len(chain[h]) /\ Len(chain[h]) \in Nat
      BY <1>0, ChainFacts
    <3>3. n \in Nat /\ \A i \in 1..Len(chain'[h]) : i \in Int /\ n + i \in 1..Len(chain[h])
      BY <3>1, <3>2
    <3>4. \A i \in DOMAIN chain'[h] :
              i \in Int /\ n + i \in DOMAIN chain[h] /\ chain'[h][i] = chain[h][n + i]
      BY <3>1, <3>2, <3>3
    <3> QED
      BY <3>3, <3>4
  <2>3. SortedByTime'
    <3> SUFFICES ASSUME NEW h \in Hosts, NEW i \in DOMAIN chain'[h], NEW j \in DOMAIN chain'[h],
                        i < j
                 PROVE  chain'[h][i].recorded_at <= chain'[h][j].recorded_at
      BY DEF SortedByTime
    <3>1. PICK n \in Nat : \A k \in DOMAIN chain'[h] :
              k \in Int /\ n + k \in DOMAIN chain[h] /\ chain'[h][k] = chain[h][n + k]
      BY <2>2
    <3>2. n + i < n + j
      BY <3>1
    <3> QED
      BY <3>1, <3>2 DEF SortedByTime
  <2> QED
    BY <2>1, <2>2, <2>3
<1>3. CASE Tick
  BY <1>0, <1>3 DEF Tick, SortedByTime
<1>4. CASE chain' = chain /\ now' = now
  BY <1>4 DEF SortedByTime
<1> QED
  BY <1>1, <1>2, <1>3, <1>4 DEF Next, vars, BeginAppend

(* What a purge deletes is a front of the chain, because the rows of a     *)
(* host are in the order of their time.                                    *)
THEOREM RowsAreInOrder ==
    ASSUME OneProcess
    PROVE  Spec => []SortedByTime
<1>1. Init => Ordered
  BY DEF Init, Ordered, SortedByTime
<1>2. Ordered => SortedByTime
  BY DEF Ordered
<1> QED
  BY <1>1, <1>2, OrderedStep, Invariance, PTL DEF Spec

(* A step of the server adds one row at the end of a host's chain or takes *)
(* away a front of it, and does nothing else to it.                        *)
THEOREM HistoryIsKept ==
    ASSUME OneProcess
    PROVE  Spec => OnlyEndsChange
<1> DEFINE Safe == \A h \in Hosts :
        \/ chain'[h] # <<>> /\ chain'[h] = Append(chain[h], chain'[h][Len(chain'[h])])
        \/ \E n \in 0..Len(chain[h]) : chain'[h] = SubSeq(chain[h], n + 1, Len(chain[h]))
<1>1. IInv /\ Next => Safe
  <2> SUFFICES ASSUME IInv, Next, NEW h \in Hosts
               PROVE  \/ chain'[h] # <<>> /\ chain'[h] = Append(chain[h], chain'[h][Len(chain'[h])])
                      \/ \E n \in 0..Len(chain[h]) : chain'[h] = SubSeq(chain[h], n + 1, Len(chain[h]))
    OBVIOUS
  <2>0. TypeOK /\ chain[h] \in Seq(Rows) /\ Len(chain[h]) \in Nat
    BY ChainFacts DEF IInv
  <2>1. CASE chain'[h] = chain[h]
    <3>1. chain[h] = SubSeq(chain[h], 1, Len(chain[h]))
      BY <2>0, WholeSubSeq
    <3> QED
      BY <2>0, <2>1, <3>1
  <2>2. ASSUME NEW p \in Processes, EndAppend(p)
        PROVE  chain'[h] = chain[h]
               \/ (chain'[h] # <<>> /\ chain'[h] = Append(chain[h], chain'[h][Len(chain'[h])]))
    <3> DEFINE a == appending[p]
               r == NewRow(a)
    <3>1. a.hostname \in Hosts /\ r \in Rows
      BY <2>0, <2>2, NewRowFacts DEF EndAppend, Appends
    <3>2. chain' = chain \/ chain' = [chain EXCEPT ![a.hostname] = Append(chain[a.hostname], r)]
      BY <2>2 DEF EndAppend
    <3>3. chain'[h] = chain[h] \/ chain'[h] = Append(chain[h], r)
      BY <2>0, <3>1, <3>2 DEF TypeOK
    <3> HIDE DEF r
    <3>4. /\ Append(chain[h], r) \in Seq(Rows)
          /\ Len(Append(chain[h], r)) = Len(chain[h]) + 1
          /\ Append(chain[h], r)[Len(chain[h]) + 1] = r
      BY <2>0, <3>1, AppendProperties
    <3>5. Append(chain[h], r) # <<>>
      BY <2>0, <3>4, EmptySeq
    <3> QED
      BY <3>3, <3>4, <3>5
  <2>3. ASSUME NEW p \in Processes, NEW cutoff \in 1..MaxTime, Purge(p, cutoff)
        PROVE  \E n \in 0..Len(chain[h]) : chain'[h] = SubSeq(chain[h], n + 1, Len(chain[h]))
    BY <2>0, <2>3, PurgeFacts
  <2> QED
    BY <2>1, <2>2, <2>3 DEF Next, Tick, BeginAppend
<1>2. IInv /\ [Next]_vars => [Safe]_vars
  BY <1>1
<1> QED
  BY <1>2, Invariance, PTL DEF Spec, OnlyEndsChange

-----------------------------------------------------------------------------
(* The agent's log.                                                        *)

Broken == LinkErrors(file, Whole)

(* The event of the record at place i of the file.                         *)
Number(i) == Last(file[i].record_hash)

(* A record hashes an event later than all those its prev_hash stands for. *)
Formed ==
    \A i \in Whole :
        /\ Number(i) \in 1..count
        /\ file[i].record_hash = Digest(file[i].prev_hash, Number(i))
        /\ \A n \in DOMAIN file[i].prev_hash : file[i].prev_hash[n] < Number(i)
HeadFormed == \A n \in DOMAIN head : head[n] <= count
Ascending == \A i, j \in Whole : i < j => Number(i) < Number(j)

(* Only a record that has just been torn off can follow the head already,  *)
(* and the next line will spoil it.                                        *)
Unfollowed ==
    up /\ head # Genesis =>
        \A i \in Whole : file[i].prev_hash = head => i = Len(file) /\ ~ended

Chained == Formed /\ HeadFormed /\ Ascending /\ Unfollowed /\ NoFork

(* As long as no bytes are lost, the file ends in a newline and has all.   *)
OnFile ==
    ~cut => ended /\ returned \cup anchors \cup {posting, head} \subseteq Hashes \cup {Genesis}

LogInv ==
    /\ LogTypeOK /\ (ended \/ file # <<>>)
    /\ PaidFor /\ Chained /\ OnFile

(* What Sequences says of the file, in one place.                          *)
LEMMA LineFacts ==
    ASSUME LogTypeOK
    PROVE  /\ file \in Seq(Lines) /\ Len(file) \in Nat /\ DOMAIN file = 1..Len(file)
           /\ Whole \subseteq 1..Len(file) /\ Broken \subseteq Whole
           /\ IsFiniteSet(Broken) /\ Cardinality(Broken) \in Nat
           /\ \A i \in DOMAIN file : file[i] \in Lines
           /\ \A i \in Whole : file[i].prev_hash \in LogHash /\ file[i].record_hash \in LogHash
<1>1. file \in Seq(Lines) /\ Len(file) \in Nat /\ DOMAIN file = 1..Len(file)
  BY LenProperties DEF LogTypeOK
<1>2. \A i \in DOMAIN file : file[i] \in Lines
  BY <1>1, ElementOfSeq
<1>3. Whole \subseteq 1..Len(file) /\ Broken \subseteq Whole
  BY <1>1 DEF Whole, Broken, LinkErrors
<1>4. IsFiniteSet(Broken) /\ Cardinality(Broken) \in Nat
  <2>1. Broken \in SUBSET (1..Len(file))
    BY <1>3
  <2> QED
    BY <1>1, <2>1, FrontBound, FS_CardinalityType
<1>5. \A i \in Whole : file[i].prev_hash \in LogHash /\ file[i].record_hash \in LogHash
  BY <1>2 DEF Whole, Lines
<1> QED
  BY <1>1, <1>2, <1>3, <1>4, <1>5

(* The record that write makes has the head for its prev_hash.             *)
LEMMA RecordFacts ==
    ASSUME LogTypeOK, count < MaxEvents
    PROVE  LET r == Record(head, count + 1, key) IN
           /\ r \in Lines \ {Garbage} /\ r.prev_hash = head /\ r.record_hash = Digest(head, count + 1)
           /\ r.record_hash \in LogHash /\ Len(head) \in Nat /\ DOMAIN head = 1..Len(head)
           /\ Last(r.record_hash) = count + 1 /\ r.record_hash # Genesis
           /\ DOMAIN r.record_hash = 1..Len(head) + 1
           /\ \A n \in 1..Len(head) : r.record_hash[n] = head[n]
           /\ r.record_hash[Len(head) + 1] = count + 1
<1> DEFINE r == Record(head, count + 1, key)  h == Append(head, count + 1)
<1>1. head \in Seq(1..MaxEvents) /\ count + 1 \in 1..MaxEvents
  BY LogAssumption DEF LogTypeOK, LogHash
<1>2. /\ Len(head) \in Nat /\ DOMAIN head = 1..Len(head) /\ h \in Seq(1..MaxEvents)
      /\ Len(h) = Len(head) + 1 /\ DOMAIN h = 1..Len(head) + 1
      /\ \A n \in 1..Len(head) : h[n] = head[n]
      /\ h[Len(head) + 1] = count + 1
  BY <1>1, AppendProperties, LenProperties
<1>3. r.prev_hash = head /\ r.record_hash = h
  BY DEF Record, Digest
<1>4. r \in [prev_hash : LogHash, event : 1..MaxEvents, record_hash : LogHash,
             key : {"none"} \cup Keys]
  BY <1>1, <1>2 DEF Record, Digest, LogHash, Encrypts
<1>5. r # Garbage
  BY DEF Record, Garbage
<1>6. Last(h) = count + 1 /\ h # <<>>
  BY <1>2, EmptySeq, LenProperties DEF Last
<1> HIDE DEF r
<1> QED
  BY <1>1, <1>2, <1>3, <1>4, <1>5, <1>6 DEF Lines, LogHash, Digest, Genesis, r

(* What is before the end of the file: the record of the greatest place.   *)
LEMMA LastHashIs ==
    ASSUME LogTypeOK
    PROVE  LastHash = IF Whole = {} THEN Genesis ELSE file[Max(Whole)].record_hash
<1>1. {j \in Whole : j < Len(file) + 1} = Whole
  BY LineFacts
<1> QED
  BY <1>1 DEF LastHash, HashBefore

(* A whole record at the end.                                              *)
LEMMA Appended ==
    ASSUME LogTypeOK, NEW r \in Lines \ {Garbage}, file' = Append(file, r), LogTypeOK'
    PROVE  /\ Len(file') = Len(file) + 1 /\ file'[Len(file) + 1] = r
           /\ \A i \in 1..Len(file) : file'[i] = file[i]
           /\ Whole' = Whole \cup {Len(file) + 1}
           /\ LastHash' = r.record_hash
           /\ Broken' = IF r.prev_hash = LastHash THEN Broken ELSE Broken \cup {Len(file) + 1}
<1> DEFINE n == Len(file) + 1
<1>1. /\ n \in Nat /\ DOMAIN file = 1..Len(file) /\ Whole \subseteq 1..Len(file)
      /\ Broken \subseteq Whole /\ file \in Seq(Lines) /\ Len(file) \in Nat
  BY LineFacts
<1>2. Len(file') = n /\ file'[n] = r /\ \A i \in 1..Len(file) : file'[i] = file[i]
  BY <1>1, AppendProperties
<1>3. DOMAIN file' = 1..n
  BY <1>1, <1>2, AppendProperties, LenProperties
<1>4. Whole' = Whole \cup {n}
  BY <1>1, <1>2, <1>3 DEF Whole
<1>5. Max(Whole') = n
  BY <1>1, <1>4, MaxIs
<1>6. LastHash' = r.record_hash
  <2>1. (LogTypeOK => LastHash = IF Whole = {} THEN Genesis ELSE file[Max(Whole)].record_hash)'
    BY LastHashIs, PTL
  <2>2. LastHash' = IF Whole' = {} THEN Genesis ELSE file'[Max(Whole')].record_hash
    BY <2>1
  <2> QED
    BY <1>2, <1>4, <1>5, <2>2
<1>7. \A i \in Whole : HashBefore(file', Whole', i) = HashBefore(file, Whole, i)
  <2> TAKE i \in Whole
  <2> DEFINE before == {j \in Whole : j < i}
  <2>0. before \in SUBSET (1..Len(file)) /\ i \in 1..Len(file)
    BY <1>1
  <2>1. {j \in Whole' : j < i} = before
    <3>1. \A j : (j \in Whole' /\ j < i) <=> (j \in Whole /\ j < i)
      BY <1>1, <1>4, <2>0
    <3> QED
      BY <3>1
  <2>2. before # {} => Max(before) \in 1..Len(file)
    BY <1>1, <2>0, MaxExists
  <2> HIDE DEF before
  <2>3. before # {} => file'[Max(before)] = file[Max(before)]
    BY <1>2, <2>2
  <2> QED
    BY <2>1, <2>3 DEF HashBefore, before
<1>8. HashBefore(file', Whole', n) = LastHash
  <2>1. {j \in Whole' : j < n} = Whole /\ Whole \in SUBSET (1..Len(file))
    <3>1. /\ \A j \in Whole : j \in Whole' /\ j < n
          /\ \A j \in Whole' : j < n => j \in Whole
      BY <1>1, <1>4
    <3>2. {j \in Whole' : j < n} = Whole
      BY <3>1
    <3> QED
      BY <1>1, <3>2
  <2>2. Whole # {} => Max(Whole) \in 1..Len(file)
    BY <1>1, <2>1, MaxExists
  <2>3. Whole # {} => file'[Max(Whole)] = file[Max(Whole)]
    BY <1>2, <2>2
  <2> QED
    BY <2>1, <2>3, LastHashIs DEF HashBefore
<1> HIDE DEF n
<1>9. Broken' = IF r.prev_hash = LastHash THEN Broken ELSE Broken \cup {n}
  <2>1. Broken = {i \in Whole : file[i].prev_hash # HashBefore(file, Whole, i)}
    BY DEF Broken, LinkErrors
  <2>2. Broken' = {i \in Whole' : file'[i].prev_hash # HashBefore(file', Whole', i)}
    BY DEF Broken, LinkErrors
  <2>3. \A i \in Whole : file'[i] = file[i]
    BY <1>1, <1>2
  <2>4. \A i \in Whole : i \in Broken' <=> i \in Broken
    BY <1>4, <1>7, <2>1, <2>2, <2>3
  <2>5. n \in Broken' <=> r.prev_hash # LastHash
    BY <1>2, <1>4, <1>8, <2>2
  <2>6. Broken \subseteq Whole /\ Broken' \subseteq Whole \cup {n}
    BY <1>4, <2>1, <2>2
  <2>7. n \notin Whole
    BY <1>1 DEF n
  <2>8. CASE r.prev_hash = LastHash
    <3>1. \A i : i \in Broken' <=> i \in Broken
      BY <2>4, <2>5, <2>6, <2>7, <2>8
    <3> QED
      BY <2>8, <3>1
  <2>9. CASE r.prev_hash # LastHash
    <3>1. \A i : i \in Broken' <=> i \in Broken \cup {n}
      BY <2>4, <2>5, <2>6, <2>7, <2>9
    <3> QED
      BY <2>9, <3>1
  <2> QED
    BY <2>8, <2>9
<1> QED
  BY <1>2, <1>4, <1>6, <1>9 DEF n

(* The file is cut after n lines, and may then end in a part of a line.    *)
Shortened(n) ==
    /\ \A i \in 1..n : file'[i] = file[i]
    /\ Len(file') = n \/ (Len(file') = n + 1 /\ file'[n + 1] = Garbage)

(* A file cut down to n lines loses records, and no break appears.         *)
LEMMA CutShort ==
    ASSUME LogTypeOK, LogTypeOK', NEW n \in 0..Len(file), Shortened(n)
    PROVE  /\ Whole' = Whole \cap (1..n) /\ Broken' = Broken \cap (1..n)
           /\ \A i \in Whole' : file'[i] = file[i]
           /\ Cardinality(Broken') <= Cardinality(Broken)
<1>1. /\ Len(file) \in Nat /\ DOMAIN file = 1..Len(file) /\ Whole \subseteq 1..Len(file)
      /\ Broken \subseteq Whole /\ IsFiniteSet(Broken)
  BY LineFacts
<1>2. DOMAIN file' = 1..Len(file')
  <2>1. (LogTypeOK => DOMAIN file = 1..Len(file))'
    BY LineFacts, PTL
  <2> QED
    BY <2>1
<1>3. \A i \in 1..n : file'[i] = file[i] /\ i \in DOMAIN file /\ i \in DOMAIN file'
  <2>1. CASE Len(file') = n
    BY <1>1, <1>2, <2>1 DEF Shortened
  <2>2. CASE Len(file') = n + 1
    BY <1>1, <1>2, <2>2 DEF Shortened
  <2> QED
    BY <2>1, <2>2 DEF Shortened
<1>4. \A i \in DOMAIN file' : i \notin 1..n => file'[i] = Garbage
  <2>1. CASE Len(file') = n
    BY <1>1, <1>2, <2>1
  <2>2. CASE Len(file') = n + 1 /\ file'[n + 1] = Garbage
    <3>1. \A i \in 1..n + 1 : i \notin 1..n => i = n + 1
      OBVIOUS
    <3> QED
      BY <1>2, <2>2, <3>1
  <2> QED
    BY <2>1, <2>2 DEF Shortened
<1>5. \A i : i \in Whole' <=> i \in Whole \cap (1..n)
  BY <1>3, <1>4 DEF Whole
<1>6. Whole' = Whole \cap (1..n)
  BY <1>5, Zenon
<1>7. \A i \in Whole' : HashBefore(file', Whole', i) = HashBefore(file, Whole, i)
  <2> TAKE i \in Whole'
  <2> DEFINE before == {j \in Whole : j < i}
  <2>0. before \in SUBSET (1..n) /\ i \in 1..n
    <3>1. i \in 1..n
      BY <1>6
    <3>2. \A j \in Whole : j \in 1..Len(file)
      BY <1>1
    <3> QED
      BY <3>1, <3>2
  <2>1. {j \in Whole' : j < i} = before
    <3>1. \A j : (j \in Whole' /\ j < i) <=> (j \in Whole /\ j < i)
      BY <1>1, <1>6, <2>0
    <3> QED
      BY <3>1
  <2>2. before # {} => Max(before) \in 1..n
    <3>1. n \in Nat
      BY <1>1
    <3> HIDE DEF before
    <3> QED
      BY <2>0, <3>1, MaxExists
  <2> HIDE DEF before
  <2>3. before # {} => file'[Max(before)] = file[Max(before)]
    BY <1>3, <2>2
  <2> QED
    BY <2>1, <2>3 DEF HashBefore, before
<1>8. Broken' = Broken \cap (1..n)
  <2>1. Broken = {i \in Whole : file[i].prev_hash # HashBefore(file, Whole, i)}
    BY DEF Broken, LinkErrors
  <2>2. Broken' = {i \in Whole' : file'[i].prev_hash # HashBefore(file', Whole', i)}
    BY DEF Broken, LinkErrors
  <2>3. \A i : i \in Broken' <=> i \in Broken \cap (1..n)
    BY <1>3, <1>6, <1>7, <2>1, <2>2
  <2> QED
    BY <2>3, Zenon
<1>9. Cardinality(Broken') <= Cardinality(Broken)
  BY <1>1, <1>8, FS_Subset
<1> QED
  BY <1>3, <1>6, <1>8, <1>9

(* A line after an unfinished one spoils both.                             *)
LEMMA GluedIs ==
    ASSUME LogTypeOK, ended \/ file # <<>>, NEW x \in Lines
    PROVE  LET g == Glued(file, x) IN
           /\ g \in Seq(Lines) /\ g # <<>>
           /\ ended => g = Append(file, x)
           /\ ~ended => /\ Len(file) - 1 \in 0..Len(file) /\ Len(g) = Len(file)
                        /\ g[Len(file)] = Garbage
                        /\ \A i \in 1..Len(file) - 1 : g[i] = file[i]
<1>1. file \in Seq(Lines) /\ Len(file) \in Nat /\ Garbage \in Lines
  BY LineFacts DEF Lines
<1>2. CASE ended
  <2>1. Glued(file, x) = Append(file, x)
    BY <1>2 DEF Glued
  <2>2. Append(file, x) \in Seq(Lines) /\ Append(file, x) # <<>>
    BY <1>1, AppendProperties
  <2> QED
    BY <1>2, <2>1, <2>2
<1>3. CASE ~ended
  <2> DEFINE m == Len(file) - 1  f == SubSeq(file, 1, m)  g == Append(f, Garbage)
  <2>1. Len(file) # 0 /\ m \in 0..Len(file)
    BY <1>1, <1>3, EmptySeq
  <2>2. f \in Seq(Lines) /\ Len(f) = m /\ \A i \in 1..m : f[i] = file[i]
    BY <1>1, <2>1, FrontFacts
  <2>3. Glued(file, x) = g
    BY <1>3 DEF Glued, Front
  <2> HIDE DEF f
  <2>4. /\ g \in Seq(Lines) /\ Len(g) = m + 1 /\ g[m + 1] = Garbage
        /\ \A i \in 1..m : g[i] = f[i]
        /\ g # <<>>
    BY <1>1, <2>1, <2>2, AppendProperties
  <2> HIDE DEF g
  <2>5. m + 1 = Len(file)
    BY <1>1
  <2> QED
    BY <1>3, <2>1, <2>2, <2>3, <2>4, <2>5
<1> QED
  BY <1>2, <1>3

(* What a step can do to the file.                                         *)
Grows == /\ up /\ ended /\ count < MaxEvents /\ count' = count + 1
         /\ file' = Append(file, Record(head, count + 1, key))
Shortens == \E n \in 0..Len(file) : Shortened(n)
FileMoves == file' = file \/ Grows \/ Shortens

(* A write, whole or torn, appends its record or spoils the last line.     *)
LEMMA WriteMoves ==
    ASSUME LogTypeOK, ended \/ file # <<>>, Write \/ WriteTorn
    PROVE  /\ LogTypeOK' /\ file' # <<>>
           /\ Grows \/ (Shortens /\ (WriteTorn \/ ~ended))
           /\ ~ended => Len(file) \notin Whole'
<1> DEFINE r == Record(head, count + 1, key)
<1>1. /\ r \in Lines /\ r # Garbage /\ r.record_hash = Digest(head, count + 1)
      /\ r.record_hash \in LogHash /\ Garbage \in Lines
  BY RecordFacts DEF Write, WriteTorn, Lines
<1>2. Len(file) \in Nat /\ file \in Seq(Lines)
  BY LineFacts
<1> HIDE DEF r
<1>3. PICK x \in {r, Garbage} : file' = Glued(file, x) /\ (x = r \/ WriteTorn)
  BY DEF Write, WriteTorn, TornLines, r
<1>4. file' \in Seq(Lines) /\ file' # <<>> /\ synced \in 0..Len(file')
  <2>1. file' \in Seq(Lines) /\ file' # <<>>
    BY <1>1, <1>3, GluedIs
  <2>2. synced \in 0..Len(file) /\ Len(file') \in Nat
    BY <2>1, LenProperties DEF LogTypeOK
  <2>3. ended => Len(file') = Len(file) + 1
    BY <1>1, <1>2, <1>3, GluedIs, AppendProperties
  <2>4. ~ended => Len(file') = Len(file)
    BY <1>1, <1>3, GluedIs
  <2> QED
    BY <1>2, <2>1, <2>2, <2>3, <2>4
<1>5. LogTypeOK'
  <2>1. CASE Write
    BY <1>1, <1>4, <2>1, LogAssumption DEF Write, LogTypeOK, anchoring, r
  <2>2. CASE WriteTorn
    <3>1. /\ ended' = FALSE /\ count' \in 0..MaxEvents /\ faults' \in Nat /\ cut' = TRUE
          /\ synced' = synced
      BY <2>2, LogAssumption DEF WriteTorn, LogTypeOK
    <3>2. UNCHANGED <<head, key, up, anchoring, restarts, returned>>
      BY <2>2 DEF WriteTorn
    <3> QED
      BY <1>4, <3>1, <3>2 DEF LogTypeOK, anchoring
  <2> QED
    BY <2>1, <2>2
<1>6. CASE ended /\ x = r
  <2>1. file' = Append(file, r)
    BY <1>1, <1>3, <1>6, GluedIs
  <2>2. up /\ count < MaxEvents /\ count' = count + 1
    BY DEF Write, WriteTorn
  <2> QED
    BY <1>4, <1>5, <1>6, <2>1, <2>2 DEF Grows, r
<1>7. CASE ended /\ x = Garbage
  <2>1. file' = Append(file, Garbage)
    BY <1>1, <1>3, <1>7, GluedIs
  <2>2. /\ Len(file') = Len(file) + 1 /\ file'[Len(file) + 1] = Garbage
        /\ \A i \in 1..Len(file) : file'[i] = file[i]
    BY <1>1, <1>2, <2>1, AppendProperties
  <2>3. Shortened(Len(file)) /\ Len(file) \in 0..Len(file)
    BY <1>2, <2>2 DEF Shortened
  <2>4. WriteTorn
    BY <1>1, <1>3, <1>7
  <2> QED
    BY <1>4, <1>5, <1>7, <2>3, <2>4 DEF Shortens
<1>8. CASE ~ended
  <2>1. /\ Len(file) - 1 \in 0..Len(file) /\ Len(file') = Len(file)
        /\ file'[Len(file)] = Garbage /\ \A i \in 1..Len(file) - 1 : file'[i] = file[i]
    BY <1>1, <1>3, <1>8, GluedIs
  <2>2. Len(file) - 1 + 1 = Len(file)
    BY <1>2
  <2>3. Shortened(Len(file) - 1)
    BY <2>1, <2>2 DEF Shortened
  <2>4. Len(file) \notin Whole'
    BY <2>1 DEF Whole
  <2> QED
    BY <1>4, <1>5, <1>8, <2>1, <2>3, <2>4 DEF Shortens
<1> QED
  BY <1>3, <1>4, <1>5, <1>6, <1>7, <1>8

(* A power cut shortens the file.                                          *)
LEMMA LossMoves ==
    ASSUME LogTypeOK, PowerLoss
    PROVE  LogTypeOK' /\ (ended' \/ file' # <<>>) /\ Shortens
<1>1. Len(file) \in Nat /\ file \in Seq(Lines) /\ Garbage \in Lines /\ synced \in Nat
      /\ DOMAIN file = 1..Len(file) /\ \A i \in DOMAIN file : file[i] \in Lines
  BY LineFacts DEF LogTypeOK, Lines
<1>2. PICK n \in synced..Len(file) - 1 :
        LET kept == SubSeq(file, 1, n) IN
        \/ file' = kept /\ ended' = TRUE
        \/ file' = Append(kept, Garbage) /\ ended' = FALSE
        \/ file' = Append(kept, file[n + 1]) /\ ended' = FALSE
  BY DEF PowerLoss
<1> DEFINE kept == SubSeq(file, 1, n)
<1>3. n \in 0..Len(file) /\ n + 1 \in 0..Len(file) /\ n + 1 \in 1..Len(file) /\ n \in Nat
  BY <1>1, <1>2
<1>4. kept \in Seq(Lines) /\ Len(kept) = n /\ \A i \in 1..n : kept[i] = file[i]
  BY <1>1, <1>3, FrontFacts
<1> HIDE DEF kept
<1>5. file' \in Seq(Lines) /\ ended' \in BOOLEAN /\ (ended' \/ file' # <<>>) /\ Shortens
  <2>1. CASE file' = kept /\ ended' = TRUE
    BY <1>3, <1>4, <2>1 DEF Shortens, Shortened
  <2>2. CASE file' = Append(kept, Garbage) /\ ended' = FALSE
    <3>1. /\ file' \in Seq(Lines) /\ file' # <<>> /\ Len(file') = n + 1
          /\ file'[n + 1] = Garbage /\ \A i \in 1..n : file'[i] = kept[i]
      BY <1>1, <1>4, <2>2, AppendProperties
    <3> QED
      BY <1>3, <1>4, <2>2, <3>1 DEF Shortens, Shortened
  <2>3. CASE file' = Append(kept, file[n + 1]) /\ ended' = FALSE
    <3>1. /\ file' \in Seq(Lines) /\ file' # <<>> /\ Len(file') = n + 1
          /\ file'[n + 1] = file[n + 1] /\ \A i \in 1..n : file'[i] = kept[i]
      <4>1. file[n + 1] \in Lines
        BY <1>1, <1>3
      <4> QED
        BY <1>4, <2>3, <4>1, AppendProperties
    <3>2. \A i \in 1..n + 1 : file'[i] = file[i]
      BY <1>3, <1>4, <3>1
    <3> QED
      BY <1>3, <2>3, <3>1, <3>2 DEF Shortens, Shortened
  <2> QED
    BY <1>2, <2>1, <2>2, <2>3 DEF kept
<1>6. Len(file') \in 0..Len(file')
  BY <1>5, LenProperties
<1>7. <<>> \in LogHash
  BY EmptySeq DEF LogHash
<1> QED
  <2>1. LogTypeOK'
    <3>1. /\ synced' = Len(file') /\ up' = FALSE /\ posting' = Genesis
          /\ faults' = faults + 1 /\ cut' = TRUE
          /\ UNCHANGED <<head, key, anchors, count, restarts, returned>>
      BY DEF PowerLoss
    <3>2. posting' \in LogHash /\ synced' \in 0..Len(file')
      BY <1>6, <1>7, <3>1 DEF Genesis
    <3>3. file' \in Seq(Lines) /\ ended' \in BOOLEAN /\ synced' \in 0..Len(file')
      BY <1>5, <3>2
    <3>4. head' \in LogHash /\ key' \in Settings /\ up' \in BOOLEAN
      BY <3>1 DEF LogTypeOK
    <3>5. posting' \in LogHash /\ anchors' \subseteq LogHash /\ returned' \subseteq LogHash
      BY <3>1, <3>2 DEF LogTypeOK
    <3>6. count' \in 0..MaxEvents /\ restarts' \in Nat /\ faults' \in Nat /\ cut' \in BOOLEAN
      BY <3>1 DEF LogTypeOK
    <3> QED
      BY <3>3, <3>4, <3>5, <3>6 DEF LogTypeOK
  <2> QED
    BY <1>5, <2>1

(* Nothing else changes the file.                                          *)
LEMMA OtherMoves ==
    ASSUME LogTypeOK, ended \/ file # <<>>,
           WriteFails \/ Anchoring \/ WriteBack \/ Exit \/ (\E k \in Settings : Restart(k))
           \/ UNCHANGED logVars
    PROVE  LogTypeOK' /\ file' = file /\ ended' = ended
<1>1. Genesis \in LogHash
  BY EmptySeq DEF LogHash, Genesis
<1>2. CASE WriteFails \/ Anchoring \/ Exit \/ UNCHANGED logVars
  <2> USE DEF log, anchoring, history
  <2>1. CASE WriteFails
    BY <2>1, LogAssumption DEF WriteFails, LogTypeOK
  <2>2. CASE Anchoring
    BY <1>1, <2>2 DEF Anchoring, ReadHead, AnchorStored, AnchorFails, LogTypeOK
  <2>3. CASE Exit
    BY <1>1, <2>3 DEF Exit, LogTypeOK
  <2>4. CASE UNCHANGED logVars
    BY <2>4 DEF logVars, LogTypeOK
  <2> QED
    BY <1>2, <2>1, <2>2, <2>3, <2>4
<1>3. CASE WriteBack
  BY <1>3, LineFacts DEF WriteBack, LogTypeOK, anchoring, history
<1>4. ASSUME NEW k \in Settings, Restart(k) PROVE LogTypeOK' /\ file' = file /\ ended' = ended
  <2>1. head' \in LogHash
    <3>1. CASE file # <<>> /\ Decrypts(k, Last(file))
      <4>1. Len(file) \in Whole
        BY <3>1, LineFacts, EmptySeq DEF Whole, Decrypts, Last
      <4> QED
        BY <1>4, <3>1, <4>1, LineFacts DEF Restart, TailOf, Last
    <3> QED
      BY <1>1, <1>4, <3>1 DEF Restart, TailOf
  <2> QED
    BY <1>4, <2>1 DEF Restart, log, anchoring, LogTypeOK
<1> QED
  BY <1>2, <1>3, <1>4

(* So every step keeps the types.                                          *)
LEMMA StepFile ==
    ASSUME LogTypeOK, ended \/ file # <<>>, [LogNext]_logVars
    PROVE  LogTypeOK' /\ (ended' \/ file' # <<>>)
<1>1. CASE Write \/ WriteTorn
  BY <1>1, WriteMoves
<1>2. CASE PowerLoss
  BY <1>2, LossMoves
<1>3. CASE WriteFails \/ Anchoring \/ WriteBack \/ Exit \/ (\E k \in Settings : Restart(k))
           \/ UNCHANGED logVars
  BY <1>3, OtherMoves
<1> QED
  BY <1>1, <1>2, <1>3 DEF LogNext

-----------------------------------------------------------------------------
(* Every break of the chain has been paid for by a fault.                  *)

(* One break is due, or none.                                              *)
LEMMA DueType == Due \in {0, 1}
BY DEF Due

(* A record appended makes a break only where one was due.                 *)
LEMMA BrokenGrows ==
    ASSUME LogTypeOK, LogTypeOK', Grows
    PROVE  /\ Cardinality(Broken') <= Cardinality(Broken) + Due
           /\ LastHash' = Digest(head, count + 1)
<1> DEFINE r == Record(head, count + 1, key)
<1>1. r \in Lines \ {Garbage} /\ file' = Append(file, r) /\ up /\ r.prev_hash = head
      /\ r.record_hash = Digest(head, count + 1)
  BY RecordFacts DEF Grows
<1> HIDE DEF r
<1>2. /\ LastHash' = r.record_hash
      /\ Broken' = IF head = LastHash THEN Broken ELSE Broken \cup {Len(file) + 1}
  BY <1>1, Appended
<1>3. /\ IsFiniteSet(Broken) /\ Cardinality(Broken) \in Nat
  BY LineFacts
<1>4. Cardinality(Broken \cup {Len(file) + 1}) <= Cardinality(Broken) + 1
  <2>1. Cardinality(Broken \cup {Len(file) + 1})
            = IF Len(file) + 1 \in Broken THEN Cardinality(Broken) ELSE Cardinality(Broken) + 1
    BY <1>3, FS_AddElement
  <2> QED
    BY <1>3, <2>1
<1>5. CASE head = LastHash
  <2>1. Broken' = Broken
    BY <1>2, <1>5
  <2>2. Cardinality(Broken') = Cardinality(Broken)
    BY <2>1, Zenon
  <2> QED
    BY <1>1, <1>2, <1>3, <2>2, DueType
<1>6. CASE head # LastHash
  <2>1. Due = 1
    BY <1>1, <1>6 DEF Due
  <2>2. Broken' = Broken \cup {Len(file) + 1}
    BY <1>2, <1>6
  <2>3. Cardinality(Broken') = Cardinality(Broken \cup {Len(file) + 1})
    BY <2>2, Zenon
  <2> QED
    BY <1>1, <1>2, <1>4, <2>1, <2>3
<1> QED
  BY <1>1, <1>2, <1>5, <1>6

(* A cut makes none.                                                       *)
LEMMA BrokenShrinks ==
    ASSUME LogTypeOK, LogTypeOK', Shortens
    PROVE  Cardinality(Broken') <= Cardinality(Broken)
BY CutShort DEF Shortens

(* Every new break, and every break newly due, is paid for by a fault.     *)
LEMMA PaidStep ==
    ASSUME LogTypeOK, ended \/ file # <<>>, PaidFor, [LogNext]_logVars
    PROVE  PaidFor'
<1>1. LogTypeOK' /\ Due \in {0, 1} /\ Due' \in {0, 1}
  <2>1. (Due \in {0, 1})'
    BY DueType, PTL
  <2> QED
    BY <2>1, DueType, StepFile
<1>2. /\ Cardinality(Broken) \in Nat /\ Cardinality(Broken') \in Nat /\ faults \in Nat
      /\ Cardinality(Broken) + Due <= faults
  <2>1. (LogTypeOK => Cardinality(Broken) \in Nat)'
    BY LineFacts, PTL
  <2> QED
    BY <1>1, <2>1, LineFacts DEF PaidFor, Broken, LogTypeOK
<1> SUFFICES Cardinality(Broken') + Due' <= faults'
  BY DEF PaidFor, Broken
<1>3. CASE Write
  <2>1. faults' = faults
    BY <1>3 DEF Write
  <2>2. CASE Grows
    <3>1. Cardinality(Broken') <= Cardinality(Broken) + Due /\ LastHash' = Digest(head, count + 1)
      BY <1>1, <2>2, BrokenGrows
    <3>2. ended' /\ head' = Digest(head, count + 1)
      BY <1>3 DEF Write, Record
    <3>3. Due' = 0
      BY <3>1, <3>2 DEF Due
    <3> QED
      BY <1>1, <1>2, <2>1, <3>1, <3>3
  <2>3. CASE Shortens /\ ~ended
    <3>1. Due = 1
      BY <2>3 DEF Due
    <3>2. Cardinality(Broken') <= Cardinality(Broken)
      BY <1>1, <2>3, BrokenShrinks
    <3> QED
      BY <1>1, <1>2, <2>1, <3>1, <3>2
  <2>4. ~WriteTorn
    BY <1>3 DEF Write, WriteTorn
  <2> QED
    BY <1>3, <2>2, <2>3, <2>4, WriteMoves
<1>4. CASE WriteTorn
  <2>1. faults' = faults + 1
    BY <1>4 DEF WriteTorn
  <2>2. Cardinality(Broken') <= Cardinality(Broken) + Due
    <3>1. CASE Grows
      BY <1>1, <3>1, BrokenGrows
    <3>2. CASE Shortens
      <4>1. Cardinality(Broken') <= Cardinality(Broken)
        BY <1>1, <3>2, BrokenShrinks
      <4> QED
        BY <1>1, <1>2, <4>1
    <3> QED
      BY <1>4, <3>1, <3>2, WriteMoves
  <2> QED
    BY <1>1, <1>2, <2>1, <2>2
<1>5. CASE PowerLoss
  <2>1. faults' = faults + 1
    BY <1>5 DEF PowerLoss
  <2>2. Cardinality(Broken') <= Cardinality(Broken)
    BY <1>1, <1>5, LossMoves, BrokenShrinks
  <2> QED
    BY <1>1, <1>2, <2>1, <2>2
<1>6. CASE WriteFails \/ Anchoring \/ WriteBack \/ Exit \/ UNCHANGED logVars
  <2>1. file' = file /\ ended' = ended
    BY <1>6, OtherMoves
  <2>2. head' = head /\ (up' => up) /\ faults' = faults
    BY <1>6 DEF WriteFails, Anchoring, ReadHead, AnchorStored, AnchorFails, WriteBack, Exit,
                logVars, history
  <2>3. Broken' = Broken /\ LastHash' = LastHash
    BY <2>1 DEF Broken, LastHash, Whole, LinkErrors, HashBefore
  <2>4. Due' <= Due
    BY <2>1, <2>2, <2>3 DEF Due
  <2> QED
    BY <1>1, <1>2, <2>2, <2>3, <2>4
<1>7. ASSUME NEW k \in Settings, Restart(k) PROVE Cardinality(Broken') + Due' <= faults'
  <2>1. /\ file' = file /\ ended' = ended /\ head' = TailOf(file, k)
        /\ faults' = IF FreshChain(k) THEN faults + 1 ELSE faults
    BY <1>7 DEF Restart, log
  <2>2. Broken' = Broken /\ LastHash' = LastHash
    BY <2>1 DEF Broken, LastHash, Whole, LinkErrors, HashBefore
  <2>3. CASE FreshChain(k)
    BY <1>1, <1>2, <2>1, <2>2, <2>3
  <2>4. CASE ~FreshChain(k)
    <3>1. TailOf(file, k) = LastHash
      <4>1. CASE file = <<>>
        <5>1. Whole = {}
          BY <4>1, EmptySeq, LenProperties DEF Whole
        <5> QED
          BY <4>1, <5>1, LastHashIs DEF TailOf
      <4>2. CASE file # <<>>
        <5>1. Decrypts(k, Last(file)) /\ Last(file) = file[Len(file)]
          BY <2>4, <4>2 DEF FreshChain, Last
        <5>2. Len(file) \in Whole /\ Whole \in SUBSET Int /\ \A y \in Whole : Len(file) >= y
          BY <4>2, <5>1, LineFacts, EmptySeq DEF Decrypts, Whole
        <5>3. Max(Whole) = Len(file)
          BY <5>2, MaxIs
        <5> QED
          BY <4>2, <5>1, <5>2, <5>3, LastHashIs DEF TailOf
      <4> QED
        BY <4>1, <4>2
    <3>2. Due' <= Due
      BY <2>1, <2>2, <3>1 DEF Due
    <3> QED
      BY <1>1, <1>2, <2>1, <2>2, <2>4, <3>2
  <2> QED
    BY <2>3, <2>4
<1> QED
  BY <1>3, <1>4, <1>5, <1>6, <1>7 DEF LogNext

-----------------------------------------------------------------------------
(* The order of the events along the file, and who follows whom.           *)

(* The two hashes of a record on the file.                                 *)
LEMMA HashFacts ==
    ASSUME LogTypeOK, Formed, NEW i \in Whole
    PROVE  LET h == file[i].record_hash  p == file[i].prev_hash IN
           /\ h \in LogHash /\ p \in LogHash /\ Len(p) \in Nat /\ Len(h) = Len(p) + 1
           /\ DOMAIN h = 1..Len(p) + 1 /\ DOMAIN p = 1..Len(p)
           /\ h = Append(p, Number(i)) /\ Number(i) \in 1..count /\ count \in Nat
           /\ h[Len(p) + 1] = Number(i) /\ h # Genesis
           /\ \A n \in 1..Len(p) : h[n] = p[n] /\ p[n] \in Nat /\ p[n] < Number(i)
<1> DEFINE h == file[i].record_hash  p == file[i].prev_hash
<1>1. h \in Seq(1..MaxEvents) /\ p \in Seq(1..MaxEvents)
  BY LineFacts DEF LogHash
<1>2. h = Append(p, Number(i)) /\ Number(i) \in 1..count /\ \A n \in DOMAIN p : p[n] < Number(i)
  BY DEF Formed, Digest
<1>3. Number(i) \in 1..MaxEvents /\ count \in Nat
  BY <1>2, LogAssumption DEF LogTypeOK
<1> HIDE DEF h, p
<1>4. /\ Len(p) \in Nat /\ DOMAIN p = 1..Len(p) /\ Len(h) = Len(p) + 1
      /\ h[Len(p) + 1] = Number(i) /\ \A n \in 1..Len(p) : h[n] = p[n]
  BY <1>1, <1>2, <1>3, AppendProperties, LenProperties
<1>5. DOMAIN h = 1..Len(p) + 1 /\ h # <<>>
  BY <1>1, <1>4, EmptySeq, LenProperties
<1>6. \A n \in 1..Len(p) : p[n] \in 1..MaxEvents
  BY <1>1, <1>4, ElementOfSeq
<1>7. \A n \in 1..Len(p) : p[n] \in Nat
  BY <1>6
<1> QED
  BY <1>1, <1>2, <1>3, <1>4, <1>5, <1>7 DEF h, p, LogHash, Genesis

(* With a whole record at the end, of a later event than all before it.    *)
LEMMA GrowsInOrder ==
    ASSUME LogTypeOK, LogTypeOK', Formed, HeadFormed, Ascending, Unfollowed, NoFork, Grows
    PROVE  /\ Formed' /\ Ascending' /\ NoFork'
           /\ Whole' = Whole \cup {Len(file) + 1} /\ Len(file') = Len(file) + 1
           /\ file'[Len(file) + 1].prev_hash = head
           /\ \A i \in Whole : /\ file'[i] = file[i]
                               /\ head # Genesis => file[i].prev_hash # head
<1> DEFINE r == Record(head, count + 1, key)  m == Len(file) + 1
<1>1. /\ r \in Lines \ {Garbage} /\ r.prev_hash = head /\ r.record_hash = Digest(head, count + 1)
      /\ Last(r.record_hash) = count + 1
      /\ DOMAIN head = 1..Len(head) /\ Len(head) \in Nat
      /\ file' = Append(file, r) /\ up /\ ended /\ count' = count + 1
  BY RecordFacts DEF Grows
<1> HIDE DEF r
<1>2. /\ Len(file') = m /\ file'[m] = r /\ Whole' = Whole \cup {m}
      /\ \A i \in 1..Len(file) : file'[i] = file[i]
  BY <1>1, Appended
<1>3. Whole \subseteq 1..Len(file) /\ Len(file) \in Nat
  BY LineFacts
<1>4. /\ \A i \in Whole : file'[i] = file[i] /\ Number(i)' = Number(i) /\ i \in Nat /\ i < m
      /\ Last(file'[m].record_hash) = count + 1 /\ count \in Nat
  <2>1. count \in Nat
    BY LogAssumption DEF LogTypeOK
  <2>2. \A i \in Whole : i \in 1..Len(file) /\ i \in Nat /\ i < m
    BY <1>3
  <2> HIDE DEF m
  <2>3. \A i \in Whole : file'[i] = file[i]
    BY <1>2, <2>2
  <2>4. \A i \in Whole : Number(i)' = Number(i)
    BY <2>3 DEF Number
  <2>5. Last(file'[m].record_hash) = count + 1
    BY <1>1, <1>2
  <2> QED
    BY <2>1, <2>2, <2>3, <2>4, <2>5
<1>5. \A i \in Whole : /\ Number(i) \in 1..count
                       /\ file[i].record_hash = Digest(file[i].prev_hash, Number(i))
                       /\ \A n \in DOMAIN file[i].prev_hash : file[i].prev_hash[n] < Number(i)
  BY DEF Formed
<1>6. head # Genesis => \A i \in Whole : file[i].prev_hash # head
  BY <1>1 DEF Unfollowed
<1>7. \A n \in DOMAIN head : head[n] < count + 1
  <2> TAKE n \in DOMAIN head
  <2>1. head[n] \in 1..MaxEvents
    BY <1>1, ElementOfSeq DEF LogTypeOK, LogHash
  <2> QED
    BY <1>4, <2>1 DEF HeadFormed
<1> HIDE DEF m
<1>8. Formed'
  <2>1. \A i \in Whole' :
            /\ Number(i)' \in 1..count'
            /\ file'[i].record_hash = Digest(file'[i].prev_hash, Number(i)')
            /\ \A n \in DOMAIN file'[i].prev_hash : file'[i].prev_hash[n] < Number(i)'
    <3> TAKE i \in Whole'
    <3>1. CASE i \in Whole
      <4>1. Number(i) \in 1..count /\ Number(i)' = Number(i) /\ file'[i] = file[i] /\ count \in Nat
        BY <1>4, <1>5, <3>1
      <4>2. Number(i)' \in 1..count'
        BY <1>1, <4>1
      <4> QED
        BY <1>5, <3>1, <4>1, <4>2
    <3>2. CASE i = m
      <4>1. file'[i] = r /\ Number(i)' = count + 1 /\ count + 1 \in 1..count'
        BY <1>1, <1>2, <1>4, <3>2 DEF Number
      <4>2. r.record_hash = Digest(r.prev_hash, count + 1)
        BY <1>1
      <4>3. \A n \in DOMAIN r.prev_hash : r.prev_hash[n] < count + 1
        BY <1>1, <1>7
      <4> QED
        BY <4>1, <4>2, <4>3
    <3> QED
      BY <1>2, <3>1, <3>2
  <2> QED
    BY <2>1 DEF Formed
<1>9. Ascending'
  <2>1. \A i, j \in Whole' : i < j => Number(i)' < Number(j)'
    <3> TAKE i, j \in Whole'
    <3>1. CASE i \in Whole /\ j \in Whole
      BY <1>4, <3>1 DEF Ascending
    <3>2. CASE i \in Whole /\ j = m
      <4>1. Number(i) \in 1..count /\ Number(i)' = Number(i) /\ count \in Nat
        BY <1>4, <1>5, <3>2
      <4>2. Number(j)' = count + 1
        BY <1>4, <3>2 DEF Number
      <4> QED
        BY <4>1, <4>2
    <3>3. CASE i = m
      <4>1. ~(i < j)
        BY <1>2, <1>3, <1>4, <3>3 DEF m
      <4> QED
        BY <4>1
    <3> QED
      BY <1>2, <3>1, <3>2, <3>3
  <2> QED
    BY <2>1 DEF Ascending
<1>10. NoFork'
  <2>1. \A i, j \in Whole' :
            i # j /\ file'[i].prev_hash = file'[j].prev_hash => file'[i].prev_hash = Genesis
    <3> TAKE i, j \in Whole'
    <3>1. CASE i \in Whole /\ j \in Whole
      BY <1>4, <3>1 DEF NoFork
    <3>2. CASE i \in Whole /\ j = m
      BY <1>1, <1>2, <1>4, <1>6, <3>2
    <3>3. CASE i = m /\ j \in Whole
      BY <1>1, <1>2, <1>4, <1>6, <3>3
    <3> QED
      BY <1>2, <3>1, <3>2, <3>3
  <2> QED
    BY <2>1 DEF NoFork
<1> QED
  BY <1>1, <1>2, <1>4, <1>6, <1>8, <1>9, <1>10 DEF m

(* With a part of the file gone.                                           *)
LEMMA ShortensInOrder ==
    ASSUME LogTypeOK, LogTypeOK', Formed, Ascending, NoFork, Shortens \/ file' = file,
           count' \in Nat, count' >= count
    PROVE  /\ Formed' /\ Ascending' /\ NoFork'
           /\ Whole' \subseteq Whole /\ \A i \in Whole' : file'[i] = file[i]
<1>1. Whole' \subseteq Whole /\ \A i \in Whole' : file'[i] = file[i]
  <2>1. CASE Shortens
    BY <2>1, CutShort DEF Shortens
  <2>2. CASE file' = file
    BY <2>2 DEF Whole
  <2> QED
    BY <2>1, <2>2
<1>2. \A i \in Whole' : Number(i)' = Number(i)
  BY <1>1 DEF Number
<1>3. Formed'
  <2>1. \A i \in Whole' :
            /\ Number(i)' \in 1..count'
            /\ file'[i].record_hash = Digest(file'[i].prev_hash, Number(i)')
            /\ \A n \in DOMAIN file'[i].prev_hash : file'[i].prev_hash[n] < Number(i)'
    <3> TAKE i \in Whole'
    <3>1. Number(i) \in 1..count /\ count \in Nat
      BY <1>1, LogAssumption DEF Formed, LogTypeOK
    <3> QED
      BY <1>1, <1>2, <3>1 DEF Formed
  <2> QED
    BY <2>1 DEF Formed
<1>4. Ascending'
  BY <1>1, <1>2 DEF Ascending
<1>5. NoFork'
  BY <1>1 DEF NoFork
<1> QED
  BY <1>1, <1>3, <1>4, <1>5

(* A write leaves no record that could follow the new head, ...            *)
LEMMA WriteInOrder ==
    ASSUME LogTypeOK, ended \/ file # <<>>, Chained, Write \/ WriteTorn
    PROVE  Chained'
<1>1. LogTypeOK' /\ (Grows \/ Shortens) /\ (~ended => Len(file) \notin Whole')
      /\ Formed /\ HeadFormed /\ Ascending /\ Unfollowed /\ NoFork
  BY WriteMoves DEF Chained
<1>2. count' = count + 1 /\ count \in Nat /\ count < MaxEvents /\ up /\ Len(file) \in Nat
  BY LogAssumption, LineFacts DEF Write, WriteTorn, LogTypeOK
<1>3. /\ Formed' /\ Ascending' /\ NoFork'
      /\ Whole' \subseteq Whole \cup {Len(file) + 1} /\ \A i \in Whole' \cap Whole : file'[i] = file[i]
      /\ Len(file) + 1 \in Whole' => /\ file'[Len(file) + 1].prev_hash = head
                                     /\ Len(file') = Len(file) + 1
  <2>1. CASE Grows
    BY <1>1, <2>1, GrowsInOrder
  <2>2. CASE Shortens
    <3>1. /\ Formed' /\ Ascending' /\ NoFork'
          /\ Whole' \subseteq Whole /\ \A i \in Whole' : file'[i] = file[i]
      BY <1>1, <1>2, <2>2, ShortensInOrder
    <3>2. Len(file) + 1 \notin Whole
      BY LineFacts
    <3> QED
      BY <3>1, <3>2
  <2> QED
    BY <1>1, <2>1, <2>2
<1>4. \A i \in Whole : head # Genesis => file[i].prev_hash # head \/ (i = Len(file) /\ ~ended)
  BY <1>1, <1>2 DEF Unfollowed
<1> DEFINE h == Digest(head, count + 1)
<1>5. /\ DOMAIN head = 1..Len(head) /\ Len(head) \in Nat /\ DOMAIN h = 1..Len(head) + 1
      /\ h # Genesis /\ h # head
      /\ \A n \in 1..Len(head) : h[n] = head[n]
      /\ h[Len(head) + 1] = count + 1
  <2>1. /\ DOMAIN head = 1..Len(head) /\ Len(head) \in Nat /\ DOMAIN h = 1..Len(head) + 1
        /\ h # Genesis /\ \A n \in 1..Len(head) : h[n] = head[n]
        /\ h[Len(head) + 1] = count + 1
    BY <1>2, RecordFacts
  <2>2. Len(head) + 1 \in DOMAIN h /\ Len(head) + 1 \notin DOMAIN head
    BY <2>1
  <2> QED
    BY <2>1, <2>2
<1> HIDE DEF h
<1>6. \A n \in DOMAIN head : head[n] <= count /\ head[n] \in Nat
  <2> TAKE n \in DOMAIN head
  <2>1. head[n] \in 1..MaxEvents
    BY <1>5, ElementOfSeq DEF LogTypeOK, LogHash
  <2> QED
    BY <1>1, <2>1 DEF HeadFormed
<1>7. CASE Write
  <2>1. head' = h
    BY <1>7 DEF Write, Record, h
  <2>2. \A n \in DOMAIN h : h[n] <= count + 1
    <3> TAKE n \in DOMAIN h
    <3>1. CASE n \in 1..Len(head)
      BY <1>2, <1>5, <1>6, <3>1
    <3>2. CASE n = Len(head) + 1
      BY <1>2, <1>5, <3>2
    <3> QED
      BY <1>5, <3>1, <3>2
  <2>3. HeadFormed'
    BY <1>2, <2>1, <2>2 DEF HeadFormed
  <2>4. \A i \in Whole : file[i].prev_hash # h
    <3> SUFFICES ASSUME NEW i \in Whole, file[i].prev_hash = h PROVE FALSE
      OBVIOUS
    <3>1. Len(head) + 1 \in DOMAIN h
      BY <1>5
    <3>2. h[Len(head) + 1] < Number(i) /\ Number(i) \in 1..count
      BY <1>1, <3>1 DEF Formed
    <3> QED
      BY <1>2, <1>5, <3>2
  <2>5. \A i \in Whole' : file'[i].prev_hash # h
    BY <1>3, <1>5, <2>4
  <2>6. Unfollowed'
    BY <2>1, <2>5 DEF Unfollowed
  <2> QED
    BY <1>3, <2>3, <2>6 DEF Chained
<1>8. CASE WriteTorn
  <2>1. head' = head /\ ended' = FALSE
    BY <1>8 DEF WriteTorn
  <2>2. HeadFormed'
    BY <1>2, <1>5, <1>6, <2>1 DEF HeadFormed
  <2>3. \A i \in Whole' : head # Genesis /\ file'[i].prev_hash = head => i = Len(file')
    <3> SUFFICES ASSUME NEW i \in Whole', head # Genesis, file'[i].prev_hash = head
                 PROVE  i = Len(file')
      OBVIOUS
    <3>1. CASE i \in Whole
      BY <1>1, <1>3, <1>4, <3>1
    <3>2. CASE i = Len(file) + 1
      BY <1>3, <3>2
    <3> QED
      BY <1>3, <3>1, <3>2
  <2>4. Unfollowed'
    BY <2>1, <2>3 DEF Unfollowed
  <2> QED
    BY <1>3, <2>2, <2>4 DEF Chained
<1> QED
  BY <1>7, <1>8

(* ... and the tail that a restart finds has none either.                  *)
LEMMA RestartInOrder ==
    ASSUME LogTypeOK, Chained, NEW k \in Settings, Restart(k)
    PROVE  HeadFormed' /\ Unfollowed'
<1>1. file' = file /\ ended' = ended /\ count' = count /\ head' = TailOf(file, k) /\ Whole' = Whole
  BY DEF Restart, log, Whole
<1>2. Formed /\ Ascending /\ Len(file) \in Nat
  BY LineFacts DEF Chained
<1>3. CASE ~(file # <<>> /\ Decrypts(k, Last(file)))
  <2>1. head' = Genesis /\ DOMAIN Genesis = {}
    BY <1>1, <1>3, EmptySeq, LenProperties DEF TailOf, Genesis
  <2> QED
    BY <2>1 DEF HeadFormed, Unfollowed
<1>4. CASE file # <<>> /\ Decrypts(k, Last(file))
  <2> DEFINE m == Len(file)  p == file[m].prev_hash  h == file[m].record_hash
  <2>1. m \in Whole /\ head' = h
    BY <1>1, <1>4, LineFacts, EmptySeq DEF Whole, Decrypts, Last, TailOf
  <2>2. /\ DOMAIN h = 1..Len(p) + 1 /\ Len(p) \in Nat /\ h[Len(p) + 1] = Number(m)
        /\ Number(m) \in 1..count /\ count \in Nat
        /\ \A n \in 1..Len(p) : h[n] = p[n] /\ p[n] \in Nat /\ p[n] < Number(m)
    BY <1>2, <2>1, HashFacts
  <2> HIDE DEF h, p
  <2>3. \A n \in DOMAIN h : h[n] <= count
    <3> TAKE n \in DOMAIN h
    <3>1. CASE n \in 1..Len(p)
      BY <2>2, <3>1
    <3>2. CASE n = Len(p) + 1
      BY <2>2, <3>2
    <3> QED
      BY <2>2, <3>1, <3>2
  <2>4. HeadFormed'
    BY <1>1, <2>1, <2>3 DEF HeadFormed
  <2>5. \A i \in Whole : file[i].prev_hash # h
    <3> SUFFICES ASSUME NEW i \in Whole, file[i].prev_hash = h PROVE FALSE
      OBVIOUS
    <3>1. Len(p) + 1 \in DOMAIN h
      BY <2>2
    <3>2. Number(m) < Number(i) /\ Number(i) \in 1..count
      BY <1>2, <2>2, <3>1 DEF Formed
    <3>3. i \in 1..m /\ m \in Nat
      BY LineFacts
    <3>4. CASE i < m
      <4>1. Number(i) < Number(m)
        BY <1>2, <2>1, <3>4 DEF Ascending
      <4> QED
        BY <2>2, <3>2, <4>1
    <3>5. CASE i = m
      BY <2>2, <3>2, <3>5
    <3> QED
      BY <3>3, <3>4, <3>5
  <2>6. Unfollowed'
    BY <1>1, <2>1, <2>5 DEF Unfollowed
  <2> QED
    BY <2>4, <2>6
<1> QED
  BY <1>3, <1>4

(* So no step forks the chain.                                             *)
LEMMA ChainedStep ==
    ASSUME LogTypeOK, ended \/ file # <<>>, Chained, [LogNext]_logVars
    PROVE  Chained'
<1>1. LogTypeOK' /\ Formed /\ HeadFormed /\ Ascending /\ Unfollowed /\ NoFork
  BY StepFile DEF Chained
<1>2. count \in Nat /\ \A n \in DOMAIN head : head[n] <= count /\ head[n] \in Nat
  <2>1. count \in Nat /\ head \in Seq(1..MaxEvents)
    BY LogAssumption DEF LogTypeOK, LogHash
  <2>2. \A n \in DOMAIN head : head[n] \in 1..MaxEvents
    BY <2>1, ElementOfSeq, LenProperties
  <2> QED
    BY <1>1, <2>1, <2>2 DEF HeadFormed
<1>3. CASE Write \/ WriteTorn
  BY <1>3, WriteInOrder
<1>4. CASE PowerLoss
  <2>1. Shortens /\ head' = head /\ count' = count /\ up' = FALSE
    BY <1>4, LossMoves DEF PowerLoss
  <2>2. Formed' /\ Ascending' /\ NoFork'
    BY <1>1, <1>2, <2>1, ShortensInOrder
  <2> QED
    BY <1>1, <2>1, <2>2 DEF Chained, HeadFormed, Unfollowed
<1>5. CASE WriteFails \/ Anchoring \/ WriteBack \/ Exit \/ UNCHANGED logVars
  <2>1. file' = file /\ ended' = ended
    BY <1>5, OtherMoves
  <2>2. head' = head /\ (up' => up) /\ count' \in Nat /\ count' >= count
    BY <1>2, <1>5 DEF WriteFails, Anchoring, ReadHead, AnchorStored, AnchorFails, WriteBack, Exit,
                      logVars, history
  <2>3. Formed' /\ Ascending' /\ NoFork' /\ Whole' = Whole
    BY <1>1, <2>1, <2>2, ShortensInOrder DEF Whole
  <2>4. HeadFormed'
    BY <1>2, <2>2 DEF HeadFormed
  <2>5. Unfollowed'
    BY <1>1, <2>1, <2>2, <2>3 DEF Unfollowed
  <2> QED
    BY <2>3, <2>4, <2>5 DEF Chained
<1>6. ASSUME NEW k \in Settings, Restart(k) PROVE Chained'
  <2>1. file' = file /\ count' = count
    BY <1>6 DEF Restart, log
  <2>2. Formed' /\ Ascending' /\ NoFork'
    BY <1>1, <1>2, <2>1, ShortensInOrder
  <2>3. HeadFormed' /\ Unfollowed'
    BY <1>6, RestartInOrder
  <2> QED
    BY <2>2, <2>3 DEF Chained
<1> QED
  BY <1>3, <1>4, <1>5, <1>6 DEF LogNext

-----------------------------------------------------------------------------
(* What is on the file, and what the verifier can say of it.               *)

(* A step that costs no bytes leaves every hash with its record.           *)
LEMMA OnFileStep ==
    ASSUME LogTypeOK, ended \/ file # <<>>, OnFile, [LogNext]_logVars
    PROVE  OnFile'
<1> SUFFICES ASSUME ~cut'
             PROVE  ended' /\ returned' \cup anchors' \cup {posting', head'} \subseteq Hashes' \cup {Genesis}
  BY DEF OnFile
<1>1. CASE Write
  <2>1. ~cut /\ ended /\ returned \cup anchors \cup {posting, head} \subseteq Hashes \cup {Genesis}
    BY <1>1 DEF Write, OnFile
  <2> DEFINE r == Record(head, count + 1, key)
  <2>2. r \in Lines \ {Garbage} /\ file' = Append(file, r)
    BY <1>1, <2>1, RecordFacts, GluedIs DEF Write
  <2>3. /\ ended' /\ head' = r.record_hash /\ returned' = returned \cup {r.record_hash}
        /\ posting' = posting /\ anchors' = anchors
    BY <1>1 DEF Write, anchoring
  <2> HIDE DEF r
  <2>4. LogTypeOK'
    BY StepFile
  <2>5. /\ Whole' = Whole \cup {Len(file) + 1} /\ file'[Len(file) + 1] = r
        /\ \A i \in Whole : file'[i] = file[i]
    BY <2>2, <2>4, Appended, LineFacts
  <2>6. Hashes \cup {r.record_hash} \subseteq Hashes'
    BY <2>5 DEF Hashes
  <2> QED
    BY <2>1, <2>3, <2>6
<1>2. CASE WriteTorn \/ PowerLoss
  BY <1>2 DEF WriteTorn, PowerLoss
<1>3. CASE WriteFails \/ Anchoring \/ WriteBack \/ Exit \/ UNCHANGED logVars
  <2>1. file' = file /\ ended' = ended
    BY <1>3, OtherMoves
  <2>2. /\ cut' = cut /\ returned' = returned /\ head' = head
        /\ posting' \in {posting, head, Genesis} /\ anchors' \subseteq anchors \cup {posting}
    BY <1>3 DEF WriteFails, Anchoring, ReadHead, AnchorStored, AnchorFails, WriteBack, Exit,
                logVars, anchoring, history
  <2>3. Hashes' = Hashes
    BY <2>1 DEF Hashes, Whole
  <2> QED
    BY <2>1, <2>2, <2>3 DEF OnFile
<1>4. ASSUME NEW k \in Settings, Restart(k)
      PROVE  ended' /\ returned' \cup anchors' \cup {posting', head'} \subseteq Hashes' \cup {Genesis}
  <2>1. /\ file' = file /\ ended' = ended /\ cut' = cut /\ returned' = returned
        /\ posting' = posting /\ anchors' = anchors /\ head' = TailOf(file, k)
    BY <1>4 DEF Restart, log, anchoring
  <2>2. Hashes' = Hashes
    BY <2>1 DEF Hashes, Whole
  <2>3. TailOf(file, k) \in Hashes \cup {Genesis}
    <3>1. CASE file # <<>> /\ Decrypts(k, Last(file))
      <4>1. Len(file) \in Whole /\ TailOf(file, k) = file[Len(file)].record_hash
        BY <3>1, LineFacts, EmptySeq DEF Whole, Decrypts, Last, TailOf
      <4> QED
        BY <4>1 DEF Hashes
    <3> QED
      BY <3>1 DEF TailOf
  <2> QED
    BY <2>1, <2>2, <2>3 DEF OnFile
<1> QED
  BY <1>1, <1>2, <1>3, <1>4 DEF LogNext

(* Some record among those at the places in read, not after i, has the     *)
(* first n events of the hash at i for its own.                            *)
Has(read, i, n) ==
    \E j \in read : j <= i /\ file[j].record_hash = SubSeq(file[i].record_hash, 1, n)

(* If no record read breaks the chain, then by going back from record to   *)
(* record every event that a hash stands for is met: the least place where *)
(* one is missing would have a place before it where it is missing too.    *)
LEMMA LinksComplete ==
    ASSUME LogTypeOK, Formed, NEW read \in SUBSET Whole, LinkErrors(file, read) = {}
    PROVE  \A i \in read : \A n \in 1..Len(file[i].record_hash) : Has(read, i, n)
<1> DEFINE Bad == {i \in read : \E n \in 1..Len(file[i].record_hash) : ~Has(read, i, n)}
<1>1. Whole \in SUBSET (1..Len(file)) /\ Len(file) \in Nat
  BY LineFacts
<1> SUFFICES ASSUME Bad # {} PROVE FALSE
  OBVIOUS
<1>2. PICK i \in Bad : \A j \in Bad : i <= j
  <2>1. \A j \in 1..Len(file) : j \in Nat
    BY <1>1
  <2>2. \A j \in Bad : j \in 1..Len(file)
    BY <1>1
  <2>3. Bad \in SUBSET Nat
    BY <2>1, <2>2
  <2> HIDE DEF Bad
  <2> QED
    BY <2>3, LeastNumber
<1>3. PICK n \in 1..Len(file[i].record_hash) : ~Has(read, i, n)
  BY <1>2
<1> DEFINE h == file[i].record_hash  p == file[i].prev_hash
<1>4. /\ h = Append(p, Number(i)) /\ Len(h) = Len(p) + 1 /\ Len(p) \in Nat
      /\ h \in Seq(1..MaxEvents) /\ p \in Seq(1..MaxEvents) /\ i \in read /\ i \in 1..Len(file)
  BY <1>1, <1>2, HashFacts DEF LogHash
<1>5. n # Len(h)
  <2>1. h = SubSeq(h, 1, Len(h)) /\ i <= i
    <3>1. h = SubSeq(h, 1, Len(h))
      <4> HIDE DEF h
      <4> QED
        BY <1>4, WholeSubSeq
    <3> QED
      BY <1>4, <3>1
  <2>2. Has(read, i, Len(h))
    BY <1>4, <2>1 DEF Has
  <2> QED
    BY <1>3, <2>2
<1>6. n \in 1..Len(p)
  BY <1>3, <1>4, <1>5
<1>7. p # Genesis
  BY <1>4, <1>6, EmptySeq DEF Genesis
<1> DEFINE before == {j \in read : j < i}
<1>8. p = HashBefore(file, read, i)
  BY <1>4 DEF LinkErrors
<1>9. before # {} /\ p = file[Max(before)].record_hash
  BY <1>7, <1>8 DEF HashBefore
<1>10. Max(before) \in before
  <2>1. before \in SUBSET (1..Len(file))
    BY <1>1
  <2> HIDE DEF before
  <2> QED
    BY <1>1, <1>9, <2>1, MaxExists
<1> DEFINE m == Max(before)
<1>11. m \in read /\ m < i /\ m \in Nat /\ i \in Nat
  <2>1. m \in read /\ m < i
    <3>1. m \in before
      <4> HIDE DEF before
      <4> QED
        BY <1>10
    <3> HIDE DEF m
    <3> QED
      BY <3>1
  <2>2. m \in 1..Len(file)
    <3> HIDE DEF m
    <3> QED
      BY <1>1, <2>1
  <2>3. m \in Nat /\ i \in Nat
    <3> HIDE DEF m
    <3> QED
      BY <1>1, <1>4, <2>2
  <2> QED
    BY <2>1, <2>3
<1> HIDE DEF m, h, p, before
<1>12. m \notin Bad
  <2> HIDE DEF Bad
  <2> QED
    BY <1>2, <1>11
<1>13. file[m].record_hash = p
  BY <1>9 DEF m
<1>14. Has(read, m, n)
  BY <1>6, <1>11, <1>12, <1>13
<1>15. PICK j \in read : j <= m /\ file[j].record_hash = SubSeq(p, 1, n)
  BY <1>13, <1>14 DEF Has
<1>16. SubSeq(p, 1, n) = SubSeq(h, 1, n)
  <2>1. Number(i) \in 1..MaxEvents
    <3>1. i \in Whole
      BY <1>4
    <3>2. Number(i) \in 1..count
      BY <3>1 DEF Formed
    <3> QED
      BY <3>2, LogAssumption DEF LogTypeOK
  <2>2. \A x \in 1..Len(p) : h[x] = p[x]
    BY <1>4, <2>1, AppendProperties
  <2>3. n \in 0..Len(p) /\ n \in 0..Len(h)
    BY <1>4, <1>6
  <2>4. /\ SubSeq(p, 1, n) \in Seq(1..MaxEvents) /\ Len(SubSeq(p, 1, n)) = n
        /\ \A x \in 1..n : SubSeq(p, 1, n)[x] = p[x]
    BY <1>4, <2>3, FrontFacts
  <2>5. /\ SubSeq(h, 1, n) \in Seq(1..MaxEvents) /\ Len(SubSeq(h, 1, n)) = n
        /\ \A x \in 1..n : SubSeq(h, 1, n)[x] = h[x]
    BY <1>4, <2>3, FrontFacts
  <2>6. \A x \in 1..n : SubSeq(p, 1, n)[x] = SubSeq(h, 1, n)[x]
    BY <1>4, <1>6, <2>2, <2>4, <2>5
  <2> QED
    BY <2>4, <2>5, <2>6, SeqEqual
<1>17. Has(read, i, n)
  <2>1. j <= i
    BY <1>1, <1>11, <1>15
  <2> QED
    BY <1>15, <1>16, <2>1 DEF Has, h
<1> QED
  BY <1>3, <1>17

-----------------------------------------------------------------------------
(* The theorems about the agent's log.                                     *)

(* The inductive invariant of the log.                                     *)
THEOREM LogInvariance == LogSpec => []LogInv
<1>1. LogInit => LogInv
  <2> SUFFICES ASSUME LogInit PROVE LogInv
    OBVIOUS
  <2>1. file = <<>> /\ DOMAIN file = {} /\ Len(file) = 0 /\ head = <<>> /\ DOMAIN head = {}
    BY EmptySeq, LenProperties DEF LogInit, Genesis
  <2>2. LogTypeOK /\ ended
    <3>1. <<>> \in Seq(Lines) /\ Genesis \in LogHash
      BY EmptySeq DEF LogHash, Genesis
    <3>2. synced \in 0..Len(file) /\ count \in 0..MaxEvents
      BY <2>1, LogAssumption DEF LogInit
    <3>3. restarts \in Nat /\ faults \in Nat
      BY DEF LogInit
    <3>4. /\ file \in Seq(Lines) /\ head \in LogHash /\ posting \in LogHash
          /\ ended /\ ended \in BOOLEAN /\ cut \in BOOLEAN /\ up \in BOOLEAN
      BY <3>1 DEF LogInit
    <3>5. /\ key \in Settings /\ anchors \subseteq LogHash /\ returned \subseteq LogHash
      BY DEF LogInit
    <3> QED
      BY <3>2, <3>3, <3>4, <3>5 DEF LogTypeOK
  <2>3. Whole = {} /\ LinkErrors(file, Whole) = {}
    BY <2>1 DEF Whole, LinkErrors
  <2>4. LastHash = Genesis
    BY <2>2, <2>3, LastHashIs
  <2>5. Due = 0 /\ Cardinality({}) = 0
    BY <2>4, FS_EmptySet DEF Due, LogInit
  <2>6. PaidFor
    <3>1. Cardinality(LinkErrors(file, Whole)) = 0
      BY <2>3, <2>5
    <3>2. faults = 0
      BY DEF LogInit
    <3> QED
      BY <2>5, <3>1, <3>2 DEF PaidFor
  <2>7. Chained
    BY <2>1, <2>3 DEF Chained, Formed, HeadFormed, Ascending, Unfollowed, NoFork
  <2>8. OnFile
    BY <2>2 DEF OnFile, LogInit
  <2> QED
    BY <2>2, <2>6, <2>7, <2>8 DEF LogInv
<1>2. LogInv /\ [LogNext]_logVars => LogInv'
  <2> SUFFICES ASSUME LogInv, [LogNext]_logVars PROVE LogInv'
    OBVIOUS
  <2>1. LogTypeOK /\ (ended \/ file # <<>>) /\ PaidFor /\ Chained /\ OnFile
    BY DEF LogInv
  <2>2. LogTypeOK' /\ (ended' \/ file' # <<>>) /\ PaidFor' /\ Chained' /\ OnFile'
    BY <2>1, StepFile, PaidStep, ChainedStep, OnFileStep
  <2> QED
    BY <2>2 DEF LogInv
<1> QED
  BY <1>1, <1>2, PTL DEF LogSpec

(* Writes, failed writes and restarts never break the chain of the whole   *)
(* records by themselves, and a fault breaks it in one place at most       *)
(* (src/agent/logger.py, write and _load_tail_hash).                       *)
THEOREM FaultsBreakOnce == LogSpec => []BreaksAreFaults
<1>1. LogInv => BreaksAreFaults
  <2> SUFFICES ASSUME LogInv PROVE BreaksAreFaults
    OBVIOUS
  <2>1. Cardinality(Broken) \in Nat /\ faults \in Nat /\ Cardinality(Broken) + Due <= faults
    BY LineFacts DEF LogInv, PaidFor, Broken, LogTypeOK
  <2>2. Cardinality(Broken) <= faults
    BY <2>1, DueType
  <2> QED
    BY <2>2 DEF BreaksAreFaults, Broken
<1> QED
  BY <1>1, LogInvariance, PTL

(* A write that failed but left its whole record behind does not fork the  *)
(* chain (src/agent/logger.py, write).                                     *)
THEOREM ChainNeverForks == LogSpec => []NoFork
<1>1. LogInv => NoFork
  BY DEF LogInv, Chained
<1> QED
  BY <1>1, LogInvariance, PTL

(* While no fault has cost bytes of the file, each hash that write has     *)
(* returned or that is anchored is that of a record on the file            *)
(* (src/agent/logger.py, src/agent/anchor_scheduler.py).                   *)
THEOREM ReturnedStays == LogSpec => []ReturnedIsOnFile
<1>1. LogInv => ReturnedIsOnFile
  BY DEF LogInv, OnFile, ReturnedIsOnFile
<1> QED
  BY <1>1, LogInvariance, PTL

(* When the verifier calls the file intact, whatever its key, it has read  *)
(* every record that a record it read commits to                           *)
(* (src/tools/verify_chain.py, verify_chain).                              *)
THEOREM IntactMeansComplete == LogSpec => []IntactIsComplete
<1>1. LogInv => IntactIsComplete
  <2> SUFFICES ASSUME LogInv, NEW k \in Settings, Verdict(k) = "intact",
                      NEW i \in ReadBy(k), NEW n \in 1..Len(file[i].record_hash)
               PROVE  \E j \in ReadBy(k) :
                            j <= i /\ file[j].record_hash = SubSeq(file[i].record_hash, 1, n)
    BY DEF IntactIsComplete
  <2>1. ReadBy(k) \in SUBSET Whole
    BY DEF ReadBy, Whole, Decrypts
  <2>2. LinkErrors(file, ReadBy(k)) = {}
    BY DEF Verdict, verify_chain
  <2>3. LogTypeOK /\ Formed
    BY DEF LogInv, Chained
  <2>4. Has(ReadBy(k), i, n)
    BY <2>1, <2>2, <2>3, LinksComplete
  <2> QED
    BY <2>4 DEF Has
<1> QED
  BY <1>1, LogInvariance, PTL

=============================================================================
