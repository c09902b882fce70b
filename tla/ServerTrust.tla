---------------------------- MODULE ServerTrust -----------------------------
(***************************************************************************)
(* What the server vouches for: the anchors of AnchorStore and the agents' *)
(* hashes of AgentIntegrity, in one server that may be restarted with      *)
(* other keys between any two steps.                                       *)
(***************************************************************************)
EXTENDS AnchorStore, AgentIntegrity

vars == <<anchorVars, integrityVars>>

Init == AnchorInit /\ IntegrityInit

AnchorStep ==
    \/ \E t \in Threads, agent \in Agents, head \in Heads, token \in Tokens :
            SignAnchor(t, agent, head, token)
    \/ \E t \in Threads : StoreAnchor(t)
    \/ \E c \in Starts : RestartServer(c)
    \/ \E i \in DOMAIN rows : EditRow(i)

IntegrityStep ==
    \E a \in Endpoints :
        \/ \E part \in {"top", "monitor"} : ChangeFiles(a, part)
        \/ StartAgent(a) \/ CheckWithServer(config, a) \/ CheckFails(a)
        \/ \E hash \in 1..MaxVersion, token \in Tokens : RegisterHash(config, a, hash, token)

Next ==
    \/ AnchorStep /\ UNCHANGED integrityVars
    \/ IntegrityStep /\ UNCHANGED anchorVars

Spec == Init /\ [][Next]_vars

(* Every variable has its type.                                            *)
TypeOK == AnchorTypeOK /\ IntegrityTypeOK
=============================================================================
