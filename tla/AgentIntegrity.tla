--------------------------- MODULE AgentIntegrity ---------------------------
(***************************************************************************)
(* The integrity check of an agent at its start (agent/integrity.py)       *)
(* against the hash registered for it (server/routers/integrity.py).  The  *)
(* hash covers the .py files directly in the agent's directory, so of an   *)
(* installation the model knows two versions: that of these files, and     *)
(* that of the files in agent/monitor, which the hash leaves out.  The     *)
(* agent's requests carry no token.                                        *)
(***************************************************************************)
EXTENDS AccessControl

CONSTANTS
    Endpoints,   \* hosts with an agent
    MaxVersion   \* bound of the model: versions of the installed files

ASSUME VersionAssumption == MaxVersion \in Nat \ {0}

VARIABLES
    files,     \* per host: what is installed
    loaded,    \* per host: IntegrityChecker._agent_hash; 0: never started
    checking,  \* hosts whose agent has yet to check
    registry,  \* agent_integrity: trusted_hash; 0: no row
    verdict,   \* per host: what the last check at its agent's start returned
    vouched    \* history: hashes that a caller with the role admin registered

integrityVars == <<files, loaded, checking, registry, verdict, vouched>>

(* compute_agent_hash.                                                     *)
AgentHash(installed) == installed.top

IntegrityInit ==
    /\ files = [a \in Endpoints |-> [top |-> 1, monitor |-> 1]]
    /\ loaded = [a \in Endpoints |-> 0] /\ checking = {}
    /\ registry = [a \in Endpoints |-> 0]
    /\ verdict = [a \in Endpoints |-> FALSE]
    /\ vouched = [a \in Endpoints |-> {}]

(* Files of an agent are replaced, by an update or otherwise.              *)
ChangeFiles(a, part) ==
    /\ files[a][part] < MaxVersion
    /\ files' = [files EXCEPT ![a][part] = @ + 1]
    /\ UNCHANGED <<loaded, checking, registry, verdict, vouched>>

(* main() creates the IntegrityChecker ...                                 *)
StartAgent(a) ==
    /\ a \notin checking
    /\ checking' = checking \cup {a}
    /\ loaded' = [loaded EXCEPT ![a] = AgentHash(files[a])]
    /\ verdict' = [verdict EXCEPT ![a] = FALSE]
    /\ UNCHANGED <<files, registry, vouched>>

(* check_agent_hash; without a row the answer is no.                       *)
Trusted(a) == registry[a] = loaded[a]

(* ... and asks the server; the agent goes on whatever the answer is.      *)
CheckWithServer(settings, a) ==
    /\ a \in checking /\ PassesApiKey(settings, None)
    /\ verdict' = [verdict EXCEPT ![a] = Trusted(a)]
    /\ checking' = checking \ {a}
    /\ UNCHANGED <<files, loaded, registry, vouched>>

(* The request fails, or is refused for want of a token: not trusted.      *)
CheckFails(a) ==
    /\ a \in checking
    /\ checking' = checking \ {a}
    /\ UNCHANGED <<files, loaded, registry, verdict, vouched>>

Vouching(settings, token, a, hash) ==
    [vouched EXCEPT ![a] =
        IF CallerRole(settings, token) = "admin" THEN @ \cup {hash} ELSE @]

(* register_agent_hash: insert or update, in one transaction.              *)
Upserted(a, hash) == [registry EXCEPT ![a] = hash]

(* Mutant, part of no specification: any key will do.                      *)
RegisterByAnyone(settings, a, hash, token) ==
    /\ PassesApiKey(settings, token)
    /\ registry' = Upserted(a, hash)
    /\ vouched' = Vouching(settings, token, a, hash)
    /\ UNCHANGED <<files, loaded, checking, verdict>>

(* integrity_register, by an administrator.                                *)
RegisterHash(settings, a, hash, token) ==
    /\ PassesRole(settings, token, "admin")
    /\ registry' = Upserted(a, hash)
    /\ vouched' = Vouching(settings, token, a, hash)
    /\ UNCHANGED <<files, loaded, checking, verdict>>

-----------------------------------------------------------------------------
(* Properties.                                                             *)

IntegrityTypeOK ==
    /\ files \in [Endpoints -> [top : 1..MaxVersion, monitor : 1..MaxVersion]]
    /\ loaded \in [Endpoints -> 0..MaxVersion] /\ checking \subseteq Endpoints
    /\ registry \in [Endpoints -> 0..MaxVersion]
    /\ verdict \in [Endpoints -> BOOLEAN]
    /\ vouched \in [Endpoints -> SUBSET (1..MaxVersion)]

(* An agent that its start found trusted ran files whose hash an           *)
(* administrator had registered for this host, through restarts of the     *)
(* server with other keys, late registrations and failed requests.         *)
TrustIsVouched == \A a \in Endpoints : verdict[a] => loaded[a] \in vouched[a]

=============================================================================
