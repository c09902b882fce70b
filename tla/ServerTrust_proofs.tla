------------------------- MODULE ServerTrust_proofs -------------------------
(***************************************************************************)
(* Proofs about ServerTrust, for any threads, agents, keys, configurations *)
(* and bounds: what verifies was signed, what is clean was signed, kept    *)
(* keys keep anchors, and an agent is trusted on an administrator's word.  *)
(* The two halves share no variable but config, which the second only      *)
(* reads, and have an inductive invariant each.                            *)
(***************************************************************************)
EXTENDS ServerTrust, SequenceTheorems, TLAPS

-----------------------------------------------------------------------------
(* The invariants.                                                         *)

(* A signature is the development mode's, or the server has made it.       *)
Genuine(sig) == sig.alg = "unsigned-dev" \/ sig \in signed

(* A signature of this head that the running server's configuration fits.  *)
Fits(anchor) ==
    /\ anchor.sig.of = anchor.head
    /\ anchor.sig.alg = "rsa-sha256"
            => config.tlsCert \in TlsKeys /\ anchor.sig.key = config.tlsCert
    /\ anchor.sig.alg = "hmac-sha256" => anchor.sig.key = config.anchorKey

(* It needs the anchors on their way to the table as well as those in it,  *)
(* and that the keys the server signs with are those it is checked with.   *)
AnchorInv ==
    /\ AnchorTypeOK
    /\ \A t \in Threads : storing[t] # Idle => Genuine(storing[t].sig)
    /\ \A i \in DOMAIN rows : Genuine(rows[i].sig)
    /\ kept => Matching(config)
    /\ kept => \A t \in Threads : storing[t] # Idle => Fits(storing[t])
    /\ kept => \A i \in DOMAIN rows \ edited : Fits(rows[i])

(* A registered hash is vouched for, so a check that finds it loaded is    *)
(* right: 0, for no row, is never loaded by an agent that checks.          *)
IntegrityInv ==
    /\ IntegrityTypeOK
    /\ \A a \in Endpoints : registry[a] = 0 \/ registry[a] \in vouched[a]
    /\ \A a \in checking : loaded[a] # 0
    /\ TrustIsVouched

IInv == AnchorInv /\ IntegrityInv

-----------------------------------------------------------------------------
(* Signing and storing.                                                    *)

LEMMA IdleIsNoAnchor == Idle \notin Anchor
BY DEF Idle, Anchor

LEMMA AlgorithmsDiffer ==
    ASSUME NEW s \in Signature
    PROVE  s.alg \in {"rsa-sha256", "hmac-sha256", "unsigned-dev"} /\ s.of \in Heads
BY DEF Signature

(* What Sign makes is a signature of the head with the key that the        *)
(* configuration has for its algorithm.                                    *)
LEMMA SignFacts ==
    ASSUME AnchorTypeOK, NEW head \in Heads, Sign(head) # None
    PROVE  /\ Sign(head) \in Signature
           /\ Sign(head).of = head
           /\ Sign(head).alg = "rsa-sha256"
                => config.tlsKey \in TlsKeys /\ Sign(head).key = config.tlsKey
           /\ Sign(head).alg = "hmac-sha256" => Sign(head).key = config.anchorKey
<1>1. config \in Starts /\ config.anchorKey \in Secrets \cup {None} /\ starts \in 1..MaxStarts
  BY StoreAssumption DEF AnchorTypeOK
<1>2. CASE config.tlsKey \in TlsKeys
  BY <1>2, <1>1 DEF Sign, Signature
<1>3. CASE config.tlsKey \notin TlsKeys /\ config.anchorKey # None
  BY <1>3, <1>1 DEF Sign, Signature
<1>4. CASE config.tlsKey \notin TlsKeys /\ config.anchorKey = None /\ config.allowUnsigned
  BY <1>4, <1>1 DEF Sign, Signature
<1>5. CASE ~ (\/ config.tlsKey \in TlsKeys
              \/ config.tlsKey \notin TlsKeys /\ config.anchorKey # None
              \/ config.tlsKey \notin TlsKeys /\ config.anchorKey = None
                 /\ config.allowUnsigned)
  BY <1>5 DEF Sign
<1> QED
  BY <1>2, <1>3, <1>4, <1>5

LEMMA SignKeeps ==
    ASSUME AnchorInv, NEW t \in Threads, NEW agent \in Agents, NEW head \in Heads,
           NEW token \in Tokens, SignAnchor(t, agent, head, token)
    PROVE  AnchorInv'
<1> DEFINE new == [agent |-> agent, head |-> head, sig |-> Sign(head)]
<1>1. /\ Sign(head) # None
      /\ storing' = [storing EXCEPT ![t] = new]
      /\ UNCHANGED <<config, starts, rows, edited, kept>>
      /\ signed' = IF Sign(head).alg = "unsigned-dev" THEN signed ELSE signed \cup {Sign(head)}
  BY DEF SignAnchor
<1>2. AnchorTypeOK
  BY DEF AnchorInv
<1>3. /\ Sign(head) \in Signature /\ Sign(head).of = head
      /\ Sign(head).alg = "rsa-sha256" => config.tlsKey \in TlsKeys /\ Sign(head).key = config.tlsKey
      /\ Sign(head).alg = "hmac-sha256" => Sign(head).key = config.anchorKey
  BY <1>1, <1>2, SignFacts
<1> DEFINE sig == Sign(head)
<1> HIDE DEF sig
<1>4. /\ new \in Anchor /\ new.sig = sig /\ new.head = head
  BY <1>3 DEF Anchor, sig
<1>5. signed \subseteq signed' /\ signed' \subseteq Signature
  BY <1>1, <1>2, <1>3 DEF AnchorTypeOK
<1>6. sig.alg = "unsigned-dev" \/ sig \in signed'
  BY <1>1 DEF sig
<1> HIDE DEF new
<1>7. \A u \in Threads : storing'[u] = IF u = t THEN new ELSE storing[u]
  BY <1>1, <1>2 DEF AnchorTypeOK
<1>8. AnchorTypeOK'
  BY <1>1, <1>2, <1>4, <1>5 DEF AnchorTypeOK
<1>9. \A u \in Threads : storing'[u] # Idle => Genuine(storing[u].sig)'
  BY <1>4, <1>5, <1>6, <1>7 DEF AnchorInv, Genuine
<1>10. \A i \in DOMAIN rows' : Genuine(rows[i].sig)'
  BY <1>1, <1>5 DEF AnchorInv, Genuine
<1>11. kept' => Matching(config)'
  BY <1>1 DEF AnchorInv, Matching
<1>12. ASSUME kept' PROVE \A u \in Threads : storing'[u] # Idle => Fits(storing[u])'
  <2>1. kept /\ Matching(config)
    BY <1>1, <1>12 DEF AnchorInv
  <2>2. sig.alg = "rsa-sha256" => config.tlsCert \in TlsKeys /\ sig.key = config.tlsCert
    BY <2>1, <1>3, StoreAssumption DEF Matching, sig
  <2>3. /\ sig.of = head
        /\ sig.alg = "hmac-sha256" => sig.key = config.anchorKey
    BY <1>3 DEF sig
  <2> QED
    BY <2>1, <2>2, <2>3, <1>1, <1>4, <1>7 DEF AnchorInv, Fits
<1>13. kept' => \A i \in DOMAIN rows' \ edited' : Fits(rows[i])'
  BY <1>1 DEF AnchorInv, Fits
<1> QED
  BY <1>8, <1>9, <1>10, <1>11, <1>12, <1>13 DEF AnchorInv

(* A row more: every earlier row keeps its place.                          *)
LEMMA StoreKeeps ==
    ASSUME AnchorInv, NEW t \in Threads, StoreAnchor(t)
    PROVE  AnchorInv'
<1> DEFINE new == storing[t]
<1>1. /\ new # Idle /\ Len(rows) < MaxRows
      /\ rows' = Append(rows, new)
      /\ storing' = [storing EXCEPT ![t] = Idle]
      /\ UNCHANGED <<config, starts, signed, edited, kept>>
  BY DEF StoreAnchor
<1>2. new \in Anchor
  BY <1>1 DEF AnchorInv, AnchorTypeOK
<1>3. rows \in Seq(Anchor) /\ Len(rows) \in Nat /\ edited \subseteq DOMAIN rows
  BY LenProperties DEF AnchorInv, AnchorTypeOK
<1>4. Genuine(new.sig) /\ (kept => Fits(new))
  BY <1>1 DEF AnchorInv
<1> HIDE DEF new
<1>5. /\ rows' \in Seq(Anchor) /\ Len(rows') = Len(rows) + 1
      /\ \A i \in 1..Len(rows) : rows'[i] = rows[i]
      /\ rows'[Len(rows) + 1] = new
  BY <1>1, <1>2, <1>3, AppendProperties
<1>6. DOMAIN rows = 1..Len(rows) /\ DOMAIN rows' = 1..Len(rows')
  BY <1>3, <1>5, LenProperties
<1>7. \A i \in DOMAIN rows' : IF i \in DOMAIN rows THEN rows'[i] = rows[i] ELSE rows'[i] = new
  BY <1>3, <1>5, <1>6
<1>8. DOMAIN rows \subseteq DOMAIN rows' /\ Len(rows') <= MaxRows
  BY <1>1, <1>3, <1>5, <1>6, StoreAssumption
<1>9. \A u \in Threads : storing'[u] # Idle => storing'[u] = storing[u]
  BY <1>1 DEF AnchorInv, AnchorTypeOK
<1>10. AnchorTypeOK'
  <2>1. storing' \in [Threads -> Anchor \cup {Idle}]
    BY <1>1 DEF AnchorInv, AnchorTypeOK
  <2> QED
    BY <2>1, <1>1, <1>3, <1>5, <1>8 DEF AnchorInv, AnchorTypeOK
<1>11. \A u \in Threads : storing'[u] # Idle => Genuine(storing[u].sig)'
  BY <1>1, <1>9 DEF AnchorInv, Genuine
<1>12. \A i \in DOMAIN rows' : Genuine(rows[i].sig)'
  BY <1>1, <1>4, <1>7 DEF AnchorInv, Genuine
<1>13. kept' => Matching(config)'
  BY <1>1 DEF AnchorInv, Matching
<1>14. kept' => \A u \in Threads : storing'[u] # Idle => Fits(storing[u])'
  BY <1>1, <1>9 DEF AnchorInv, Fits
<1>15. kept' => \A i \in DOMAIN rows' \ edited' : Fits(rows[i])'
  BY <1>1, <1>4, <1>7 DEF AnchorInv, Fits
<1> QED
  BY <1>10, <1>11, <1>12, <1>13, <1>14, <1>15 DEF AnchorInv

(* What was signed and not stored is lost with the process.                *)
LEMMA RestartKeeps ==
    ASSUME AnchorInv, NEW c \in Starts, RestartServer(c)
    PROVE  AnchorInv'
<1>1. /\ starts < MaxStarts /\ starts' = starts + 1 /\ config' = c
      /\ storing' = [t \in Threads |-> Idle]
      /\ kept' = (kept /\ Matching(c) /\ Material(c) = Material(config))
      /\ UNCHANGED <<rows, signed, edited>>
  BY DEF RestartServer
<1>2. AnchorTypeOK'
  <2>1. starts' \in 1..MaxStarts
    BY <1>1, StoreAssumption DEF AnchorInv, AnchorTypeOK
  <2>2. kept' \in BOOLEAN
    BY <1>1
  <2> QED
    BY <2>1, <2>2, <1>1 DEF AnchorInv, AnchorTypeOK
<1>3. \A i \in DOMAIN rows' : Genuine(rows[i].sig)'
  BY <1>1 DEF AnchorInv, Genuine
<1>4. kept' => Matching(config)'
  BY <1>1 DEF Matching
<1>5. kept' => \A i \in DOMAIN rows' \ edited' : Fits(rows[i])'
  <2> SUFFICES ASSUME kept' PROVE \A i \in DOMAIN rows \ edited : Fits(rows[i])'
    BY <1>1
  <2>1. kept /\ c.tlsCert = config.tlsCert /\ c.anchorKey = config.anchorKey
    BY <1>1 DEF Material
  <2> QED
    BY <2>1, <1>1 DEF AnchorInv, Fits
<1> QED
  BY <1>1, <1>2, <1>3, <1>4, <1>5 DEF AnchorInv

(* An edited row has its own signature or that of another row.             *)
LEMMA EditKeeps ==
    ASSUME AnchorInv, NEW i \in DOMAIN rows, EditRow(i)
    PROVE  AnchorInv'
<1>1. edited' = edited \cup {i} /\ UNCHANGED <<config, starts, storing, signed, kept>>
  BY DEF EditRow
<1>2. rows \in Seq(Anchor) /\ DOMAIN rows = 1..Len(rows) /\ Len(rows) \in Nat
  BY LenProperties DEF AnchorInv, AnchorTypeOK
<1>3. \A j \in DOMAIN rows : rows[j] \in Anchor
  BY <1>2, ElementOfSeq
<1>4. PICK row \in Anchor : /\ rows' = [rows EXCEPT ![i] = row]
                            /\ \E j \in DOMAIN rows : row.sig = rows[j].sig
  <2>1. CASE \E head \in Heads : rows' = [rows EXCEPT ![i].head = head]
    <3>1. PICK head \in Heads : rows' = [rows EXCEPT ![i].head = head]
      BY <2>1
    <3>2. [rows[i] EXCEPT !.head = head] \in Anchor
          /\ [rows[i] EXCEPT !.head = head].sig = rows[i].sig
      BY <1>3 DEF Anchor
    <3>3. rows' = [rows EXCEPT ![i] = [rows[i] EXCEPT !.head = head]]
      BY <3>1
    <3> QED
      BY <3>2, <3>3
  <2>2. CASE \E j \in DOMAIN rows : rows' = [rows EXCEPT ![i].sig = rows[j].sig]
    <3>1. PICK j \in DOMAIN rows : rows' = [rows EXCEPT ![i].sig = rows[j].sig]
      BY <2>2
    <3>2. [rows[i] EXCEPT !.sig = rows[j].sig] \in Anchor
          /\ [rows[i] EXCEPT !.sig = rows[j].sig].sig = rows[j].sig
      BY <1>3 DEF Anchor
    <3>3. rows' = [rows EXCEPT ![i] = [rows[i] EXCEPT !.sig = rows[j].sig]]
      BY <3>1
    <3> QED
      BY <3>2, <3>3
  <2> QED
    BY <2>1, <2>2 DEF EditRow
<1>5. /\ rows' \in Seq(Anchor) /\ Len(rows') = Len(rows) /\ DOMAIN rows' = DOMAIN rows
      /\ \A j \in DOMAIN rows : rows'[j] = IF j = i THEN row ELSE rows[j]
  BY <1>2, <1>4, ExceptSeq
<1>6. AnchorTypeOK'
  BY <1>1, <1>5 DEF AnchorInv, AnchorTypeOK
<1>7. \A j \in DOMAIN rows' : Genuine(rows[j].sig)'
  BY <1>1, <1>4, <1>5 DEF AnchorInv, Genuine
<1>8. /\ \A t \in Threads : storing'[t] # Idle => Genuine(storing[t].sig)'
      /\ kept' => Matching(config)'
      /\ kept' => \A t \in Threads : storing'[t] # Idle => Fits(storing[t])'
  BY <1>1 DEF AnchorInv, Genuine, Fits, Matching
<1>9. kept' => \A j \in DOMAIN rows' \ edited' : Fits(rows[j])'
  BY <1>1, <1>5 DEF AnchorInv, Fits
<1> QED
  BY <1>6, <1>7, <1>8, <1>9 DEF AnchorInv

-----------------------------------------------------------------------------
(* Checks and registrations.                                               *)

LEMMA OnlyAdminsRankThree ==
    ASSUME NEW settings, NEW token, PassesRole(settings, token, "admin")
    PROVE  CallerRole(settings, token) = "admin"
<1> DEFINE role == CallerRole(settings, token)
<1>1. role \in DOMAIN RoleRank /\ RoleRank[role] >= RoleRank["admin"]
  BY DEF PassesRole
<1> HIDE DEF role
<1>2. role \in {"readonly", "analyst", "admin"}
  BY <1>1 DEF RoleRank
<1> QED
  BY <1>1, <1>2 DEF RoleRank, role

LEMMA IntegrityKeeps ==
    ASSUME IntegrityInv, NEW a \in Endpoints,
           \/ \E part \in {"top", "monitor"} : ChangeFiles(a, part)
           \/ StartAgent(a) \/ CheckWithServer(config, a) \/ CheckFails(a)
           \/ \E hash \in 1..MaxVersion, token \in Tokens : RegisterHash(config, a, hash, token)
    PROVE  IntegrityInv'
<1> USE VersionAssumption DEF IntegrityInv, IntegrityTypeOK, TrustIsVouched
<1>1. ASSUME NEW part \in {"top", "monitor"}, ChangeFiles(a, part) PROVE IntegrityInv'
  <2>1. files' \in [Endpoints -> [top : 1..MaxVersion, monitor : 1..MaxVersion]]
    <3> DEFINE new == [files[a] EXCEPT ![part] = @ + 1]
    <3>1. files' = [files EXCEPT ![a] = new]
      BY <1>1 DEF ChangeFiles
    <3>2. files[a] \in [top : 1..MaxVersion, monitor : 1..MaxVersion]
          /\ files[a][part] < MaxVersion
      BY <1>1 DEF ChangeFiles
    <3>3. new \in [top : 1..MaxVersion, monitor : 1..MaxVersion]
      <4>1. CASE part = "top"
        BY <4>1, <3>2
      <4>2. CASE part = "monitor"
        BY <4>2, <3>2
      <4> QED
        BY <4>1, <4>2
    <3> QED
      BY <3>1, <3>3
  <2> QED
    BY <2>1, <1>1 DEF ChangeFiles
<1>2. ASSUME StartAgent(a) PROVE IntegrityInv'
  <2>1. AgentHash(files[a]) \in 1..MaxVersion
    BY DEF AgentHash
  <2> QED
    BY <2>1, <1>2 DEF StartAgent
<1>3. ASSUME CheckWithServer(config, a) PROVE IntegrityInv'
  <2>1. Trusted(a) => loaded[a] \in vouched[a]
    BY <1>3 DEF CheckWithServer, Trusted
  <2>2. Trusted(a) \in BOOLEAN
    BY DEF Trusted
  <2> QED
    BY <2>1, <2>2, <1>3 DEF CheckWithServer
<1>4. ASSUME CheckFails(a) PROVE IntegrityInv'
  BY <1>4 DEF CheckFails
<1>5. ASSUME NEW hash \in 1..MaxVersion, NEW token \in Tokens,
             RegisterHash(config, a, hash, token)
      PROVE  IntegrityInv'
  <2>1. /\ registry' = [registry EXCEPT ![a] = hash]
        /\ UNCHANGED <<files, loaded, checking, verdict>>
    BY <1>5 DEF RegisterHash, Upserted
  <2>2. vouched' = [vouched EXCEPT ![a] = @ \cup {hash}]
    BY <1>5, OnlyAdminsRankThree DEF RegisterHash, Vouching
  <2> QED
    BY <2>1, <2>2
<1> QED
  BY <1>1, <1>2, <1>3, <1>4, <1>5

-----------------------------------------------------------------------------
(* The invariant, and what follows from it.                                *)

LEMMA InitInv == Init => IInv
<1> SUFFICES ASSUME Init PROVE IInv
  OBVIOUS
<1>1. <<>> \in Seq(Anchor) /\ Len(<<>>) = 0 /\ DOMAIN <<>> = {}
  BY EmptySeq
<1>2. AnchorInv
  <2>1. AnchorTypeOK
    BY <1>1, StoreAssumption DEF Init, AnchorInit, AnchorTypeOK, Matching
  <2> QED
    BY <1>1, <2>1 DEF Init, AnchorInit, AnchorInv
<1>3. IntegrityInv
  BY VersionAssumption DEF Init, IntegrityInit, IntegrityInv, IntegrityTypeOK, TrustIsVouched
<1> QED
  BY <1>2, <1>3 DEF IInv

LEMMA NextInv == IInv /\ [Next]_vars => IInv'
<1> SUFFICES ASSUME IInv, [Next]_vars PROVE IInv'
  OBVIOUS
<1>1. ASSUME UNCHANGED anchorVars PROVE AnchorInv'
  BY <1>1 DEF IInv, AnchorInv, AnchorTypeOK, Genuine, Fits, Matching, anchorVars
<1>2. ASSUME UNCHANGED integrityVars PROVE IntegrityInv'
  BY <1>2 DEF IInv, IntegrityInv, IntegrityTypeOK, TrustIsVouched, integrityVars
<1>3. ASSUME AnchorStep, UNCHANGED integrityVars PROVE IInv'
  <2>1. AnchorInv'
    BY <1>3, SignKeeps, StoreKeeps, RestartKeeps, EditKeeps DEF IInv, AnchorStep
  <2> QED
    BY <2>1, <1>2, <1>3 DEF IInv
<1>4. ASSUME IntegrityStep, UNCHANGED anchorVars PROVE IInv'
  <2>1. IntegrityInv'
    BY <1>4, IntegrityKeeps DEF IInv, IntegrityStep
  <2> QED
    BY <2>1, <1>1, <1>4 DEF IInv
<1>5. ASSUME UNCHANGED vars PROVE IInv'
  BY <1>1, <1>2, <1>5 DEF vars, IInv
<1> QED
  BY <1>3, <1>4, <1>5 DEF Next

(* The invariant holds in every state of every server.                     *)
THEOREM Invariance == Spec => []IInv
<1>1. Init => IInv
  BY InitInv
<1>2. IInv /\ [Next]_vars => IInv'
  BY NextInv
<1> QED
  BY <1>1, <1>2, PTL DEF Spec

(* Every variable keeps its type (of _sign_chain_head: it signs or raises).*)
THEOREM Typed == Spec => []TypeOK
<1>1. IInv => TypeOK
  BY DEF IInv, AnchorInv, IntegrityInv, TypeOK
<1> QED
  BY <1>1, Invariance, PTL

LEMMA GenuineVerifies ==
    ASSUME AnchorInv, NEW i \in DOMAIN rows, NEW c, Verifies(c, rows[i].head, rows[i].sig)
    PROVE  rows[i].sig \in signed /\ rows[i].sig.of = rows[i].head
BY DEF AnchorInv, Genuine, Verifies

(* A head that verify_anchor accepts, with whatever keys and after any     *)
(* edits, is one that insert_anchor has signed.                            *)
THEOREM ValidSigned == Spec => []ValidIsSigned
<1>1. IInv => ValidIsSigned
  BY GenuineVerifies DEF IInv, ValidIsSigned
<1> QED
  BY <1>1, Invariance, PTL

(* If _show_anchors counts no failure, every head it lists was signed.     *)
THEOREM CleanSigned == Spec => []CleanIsSigned
<1>1. ASSUME IInv, NEW c \in Starts, NEW agent \in Agents, Failures(c, agent) = {},
             NEW i \in Listed(agent)
      PROVE  \E s \in signed : s.of = rows[i].head
  <2>1. i \in DOMAIN rows
    BY DEF Listed
  <2>2. Status(c, rows[i]) = "VALID"
    BY <1>1 DEF Failures
  <2>3. Verifies(c, rows[i].head, rows[i].sig)
    BY <2>2 DEF Status
  <2> QED
    BY <1>1, <2>1, <2>3, GenuineVerifies DEF IInv
<1>2. IInv => CleanIsSigned
  BY <1>1 DEF CleanIsSigned
<1> QED
  BY <1>2, Invariance, PTL

(* A server that keeps its certificate and its secret, and signs with no   *)
(* private key but the certificate's, keeps its anchors valid.             *)
THEOREM KeptValid == Spec => []KeptKeysKeepAnchors
<1>1. ASSUME IInv, kept, NEW i \in DOMAIN rows \ edited
      PROVE  Status(config, rows[i]) \in {"VALID", "UNSIGNED"}
  <2>1. Fits(rows[i])
    BY <1>1 DEF IInv, AnchorInv
  <2>2. rows[i].sig.alg \in {"rsa-sha256", "hmac-sha256", "unsigned-dev"}
    <3>1. rows \in Seq(Anchor)
      BY <1>1 DEF IInv, AnchorInv, AnchorTypeOK
    <3>2. rows[i] \in Anchor
      BY <3>1, ElementOfSeq, LenProperties
    <3> QED
      BY <3>2, AlgorithmsDiffer DEF Anchor
  <2>3. rows[i].sig.alg # "unsigned-dev" => Verifies(config, rows[i].head, rows[i].sig)
    BY <2>1, <2>2 DEF Fits, Verifies
  <2> QED
    BY <2>3 DEF Status
<1>2. IInv => KeptKeysKeepAnchors
  BY <1>1 DEF KeptKeysKeepAnchors
<1> QED
  BY <1>2, Invariance, PTL

(* An agent that check_with_server returned True to had loaded files that  *)
(* an administrator had registered.                                        *)
THEOREM TrustVouched == Spec => []TrustIsVouched
<1>1. IInv => TrustIsVouched
  BY DEF IInv, IntegrityInv
<1> QED
  BY <1>1, Invariance, PTL
=============================================================================
