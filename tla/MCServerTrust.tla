--------------------------- MODULE MCServerTrust ----------------------------
(* ServerTrust on small instances: key material that comes and goes, a     *)
(* role map that readers hold keys of, a shared key, no key at all.        *)
EXTENDS ServerTrust, TLC

CONSTANTS k1, k2, s1, p1, p2

Symmetry == Permutations(Threads) \cup Permutations(Agents) \cup Permutations(Heads)

With(tlsKey, tlsCert, anchorKey, allowUnsigned, apiKeys) ==
    [tlsKey |-> tlsKey, tlsCert |-> tlsCert, anchorKey |-> anchorKey,
     allowUnsigned |-> allowUnsigned, apiKeys |-> apiKeys, apiKey |-> None]

MCRoles == (k1 :> "readonly") @@ (k2 :> "admin")
MCStarts ==
    {With(p1, p1, s1, FALSE, NoKeys),          \* all there
     With(Unusable, p1, s1, FALSE, MCRoles),   \* a broken private key
     With(p2, p1, s1, TRUE, NoKeys),           \* a certificate of another key
     With(None, None, None, TRUE, NoKeys),     \* development
     With(None, None, None, FALSE, NoKeys)}    \* nothing to sign with
=============================================================================
