--------------------------- MODULE AccessControl ----------------------------
(***************************************************************************)
(* Who may call which route (server/auth.py).  A request's token is None   *)
(* when its Authorization header is missing or not "Bearer ...".  Of       *)
(* ITDN_API_KEYS the model knows what json.loads makes of it: a mapping    *)
(* from tokens to roles, or Unusable for what is no JSON object.           *)
(***************************************************************************)
EXTENDS Naturals

CONSTANTS None, Unusable

(* _ROLE_ORDER, as the rank of each role it lists.                         *)
RoleRank == [readonly |-> 1, analyst |-> 2, admin |-> 3]

ASSUME AccessAssumption == None \notin DOMAIN RoleRank

NoKeys == [t \in {} |-> "admin"]

(* _parse_api_keys: whatever cannot be used counts as no mapping at all.   *)
ParsedKeys(apiKeys) == IF apiKeys = Unusable THEN NoKeys ELSE apiKeys

(* _get_caller_role: the role map, else the shared key, else open to all.  *)
CallerRole(settings, token) ==
    LET keys == ParsedKeys(settings.apiKeys) IN
    CASE keys # NoKeys -> IF token \in DOMAIN keys THEN keys[token] ELSE None
      [] keys = NoKeys /\ settings.apiKey # None ->
            IF token = settings.apiKey THEN "admin" ELSE None
      [] OTHER -> "admin"

(* require_api_key lets any known caller pass, whatever the role is named. *)
PassesApiKey(settings, token) == CallerRole(settings, token) # None

(* require_role(minimum): 401 without a role, 403 if it is not listed or   *)
(* ranks too low.                                                          *)
PassesRole(settings, token, minimum) ==
    LET role == CallerRole(settings, token) IN
    /\ role \in DOMAIN RoleRank
    /\ RoleRank[role] >= RoleRank[minimum]

=============================================================================
