---------------------------- MODULE AnchorStore -----------------------------
(***************************************************************************)
(* The server's counter-signatures of agents' chain heads: POST            *)
(* /api/v1/anchor, signed outside the lock and stored under it             *)
(* (server/database.py), across restarts with other key material, and what *)
(* tools/verify_chain.py --verify-anchors makes of the table, edited or    *)
(* not.  Signatures are taken to be unforgeable: one is the algorithm, the *)
(* key and the head it was made of.  A refused request, 401 or 503, leaves *)
(* no trace and is no step.                                                *)
(***************************************************************************)
EXTENDS AccessControl, RequestThreads, Sequences

CONSTANTS
    Agents,      \* agent_id values
    Heads,       \* chain_head_hash values
    TlsKeys,     \* key pairs: a private key and the certificate of its public key
    Secrets,     \* values of ITDN_ANCHOR_KEY
    Starts,      \* the configurations a server may be started with
    Tokens,      \* tokens that requests carry, None among them
    Shown,       \* anchors that the verifier lists and checks: 5 of the 20 it gets
    MaxRows,     \* bound of the model: anchors stored
    MaxEdits,    \* bound of the model: rows edited in the database
    MaxStarts    \* bound of the model: starts of the server

ASSUME StoreAssumption ==
    /\ None \notin Secrets /\ {None, Unusable} \cap TlsKeys = {}
    /\ \A c \in Starts : c.anchorKey \in Secrets \cup {None}
    /\ Shown \in Nat /\ MaxRows \in Nat /\ MaxEdits \in Nat /\ MaxStarts \in Nat \ {0}

VARIABLES
    config,    \* the configuration of the running server
    starts,    \* starts of the server so far; numbers its process
    storing,   \* per thread: the anchor it has signed and not stored yet
    rows,      \* log_anchors
    signed,    \* history: signatures made with a private key of the server
    edited,    \* history: the rows that were edited
    kept       \* history: has every start had the same certificate and secret?

anchorVars == <<config, starts, storing, rows, signed, edited, kept>>

Idle == [agent |-> None]
Signature == [alg : {"rsa-sha256", "hmac-sha256"}, key : TlsKeys \cup Secrets, of : Heads]
    \cup [alg : {"unsigned-dev"}, key : 1..MaxStarts, of : Heads]
Anchor == [agent : Agents, head : Heads, sig : Signature]

-----------------------------------------------------------------------------
(* _sign_chain_head, in its order of preference; None is AnchorSigningError. *)
Sign(head) ==
    CASE config.tlsKey \in TlsKeys ->
            [alg |-> "rsa-sha256", key |-> config.tlsKey, of |-> head]
      [] config.tlsKey \notin TlsKeys /\ config.anchorKey # None ->
            [alg |-> "hmac-sha256", key |-> config.anchorKey, of |-> head]
      [] config.tlsKey \notin TlsKeys /\ config.anchorKey = None /\ config.allowUnsigned ->
            [alg |-> "unsigned-dev", key |-> starts, of |-> head]
      [] OTHER -> None

(* Mutants, part of no specification: RSA signatures are checked with the  *)
(* private key's file; a signature of any algorithm passes if it fits.     *)
VerifiesByKeyFile(c, head, sig) ==
    /\ sig.of = head
    /\ \/ sig.alg = "rsa-sha256" /\ sig.key = c.tlsKey
       \/ sig.alg = "hmac-sha256" /\ sig.key = c.anchorKey
VerifiesDevelopment(c, head, sig) ==
    sig.of = head /\ (sig.alg = "unsigned-dev" \/ sig.key \in {c.tlsCert, c.anchorKey})

(* verify_anchor, run with the configuration c.                            *)
Verifies(c, head, sig) ==
    /\ sig.of = head
    /\ \/ sig.alg = "rsa-sha256" /\ c.tlsCert \in TlsKeys /\ sig.key = c.tlsCert
       \/ sig.alg = "hmac-sha256" /\ sig.key = c.anchorKey

(* The key material that signatures are checked with, if it is the one     *)
(* that they are made with.                                                *)
Material(c) == <<c.tlsCert, c.anchorKey>>
Matching(c) == c.tlsKey \in {None, Unusable, c.tlsCert}

AnchorInit ==
    /\ config \in Starts /\ starts = 1
    /\ storing = [t \in Threads |-> Idle]
    /\ rows = <<>>
    /\ signed = {} /\ edited = {} /\ kept = Matching(config)

(* anchor_chain and insert_anchor, up to the lock.                         *)
SignAnchor(t, agent, head, token) ==
    /\ storing[t] = Idle /\ Len(rows) < MaxRows
    /\ PassesApiKey(config, token)
    /\ Sign(head) # None
    /\ storing' = [storing EXCEPT ![t] = [agent |-> agent, head |-> head, sig |-> Sign(head)]]
    /\ signed' = IF Sign(head).alg = "unsigned-dev" THEN signed ELSE signed \cup {Sign(head)}
    /\ UNCHANGED <<config, starts, rows, edited, kept>>

(* The INSERT, after which the agent is answered.                          *)
StoreAnchor(t) ==
    /\ storing[t] # Idle /\ Len(rows) < MaxRows
    /\ rows' = Append(rows, storing[t])
    /\ storing' = [storing EXCEPT ![t] = Idle]
    /\ UNCHANGED <<config, starts, signed, edited, kept>>

(* The server is stopped, with whatever is in progress, and started with   *)
(* another configuration.                                                  *)
RestartServer(c) ==
    /\ starts < MaxStarts
    /\ starts' = starts + 1 /\ config' = c
    /\ storing' = [t \in Threads |-> Idle]
    /\ kept' = (kept /\ Matching(c) /\ Material(c) = Material(config))
    /\ UNCHANGED <<rows, signed, edited>>

(* Somebody edits the table: a row gets another head, or the signature of  *)
(* another row.                                                            *)
EditRow(i) ==
    /\ Cardinality(edited) < MaxEdits
    /\ edited' = edited \cup {i}
    /\ \/ \E head \in Heads : rows' = [rows EXCEPT ![i].head = head]
       \/ \E j \in DOMAIN rows : rows' = [rows EXCEPT ![i].sig = rows[j].sig]
    /\ UNCHANGED <<config, starts, storing, signed, kept>>

-----------------------------------------------------------------------------
(* verify_chain --verify-anchors, run with the configuration c.            *)

Later(i) == {j \in DOMAIN rows : j > i /\ rows[j].agent = rows[i].agent}

(* The anchors of get_anchors, newest first, that _show_anchors goes over. *)
Listed(agent) == {i \in DOMAIN rows : rows[i].agent = agent /\ Cardinality(Later(i)) < Shown}

Status(c, row) ==
    CASE row.sig.alg = "unsigned-dev" -> "UNSIGNED"
      [] row.sig.alg # "unsigned-dev" /\ Verifies(c, row.head, row.sig) -> "VALID"
      [] OTHER -> "INVALID"

(* Mutant, part of no specification: only what is INVALID counts.          *)
InvalidOnly(c, agent) == {i \in Listed(agent) : Status(c, rows[i]) = "INVALID"}

Failures(c, agent) == {i \in Listed(agent) : Status(c, rows[i]) # "VALID"}

-----------------------------------------------------------------------------
(* Properties.                                                             *)

AnchorTypeOK ==
    /\ config \in Starts /\ starts \in 1..MaxStarts
    /\ storing \in [Threads -> Anchor \cup {Idle}]
    /\ rows \in Seq(Anchor) /\ Len(rows) <= MaxRows
    /\ signed \subseteq Signature /\ edited \subseteq DOMAIN rows /\ kept \in BOOLEAN

(* Whatever is edited and whichever keys it is checked with, a head that   *)
(* verifies is one that the server has signed with that key, for one agent *)
(* or another; what a development key has signed never verifies.           *)
ValidIsSigned ==
    \A i \in DOMAIN rows, c \in Starts :
        Verifies(c, rows[i].head, rows[i].sig) =>
            rows[i].sig \in signed /\ rows[i].sig.of = rows[i].head

(* If no anchor fails, each that is listed has a head the server has       *)
(* signed: neither an unsigned nor an edited one is passed over.           *)
CleanIsSigned ==
    \A c \in Starts, agent \in Agents :
        Failures(c, agent) = {} =>
            \A i \in Listed(agent) : \E s \in signed : s.of = rows[i].head

(* As long as the server keeps its certificate and its secret, an anchor   *)
(* that nobody edited and that was not made in development mode stays      *)
(* valid, even over starts that found the private key missing or broken    *)
(* and signed with the secret instead.                                     *)
KeptKeysKeepAnchors ==
    kept => \A i \in DOMAIN rows \ edited :
                Status(config, rows[i]) \in {"VALID", "UNSIGNED"}

=============================================================================
