------------------------------ MODULE ApiKeys ------------------------------
(***************************************************************************)
(* API keys: issued, rotated and revoked by requests of a tenant           *)
(* (lib/tenancy/api-keys.ts, app/api/api-keys/route.ts), and accepted at   *)
(* the one route that takes them (requireTenantRequestContext of           *)
(* lib/tenancy/context.ts, GET of app/api/partners/route.ts).  Every read  *)
(* and write is an await of its own; requests may stop at any of them.     *)
(* How a request comes by its tenant is Tenancy's matter.                  *)
(***************************************************************************)
EXTENDS Naturals, FiniteSets

CONSTANTS
    Owners,         \* tenants
    Scopes,
    DefaultScopes,
    Asked,          \* what requests ask for: scopes, known to the code or
                    \* not, and whether the key is to expire
    MaxKeys,        \* bound: keys issued
    Managers,       \* concurrent requests of the key routes
    Callers         \* concurrent calls with a key

Keys == 1 .. MaxKeys
ManageWebhooks == "webhooks:manage"

ASSUME ApiKeysAssumption ==
    /\ DefaultScopes \subseteq Scopes /\ DefaultScopes # {} /\ MaxKeys \in Nat
    /\ \A asked \in Asked : asked.expires \in BOOLEAN

VARIABLES
    key,        \* ApiKey rows
    manager,    \* the await each request is at
    caller,     \* the key each call was accepted with, or 0
    late,       \* expiry dates have passed
    crossed,    \* history: lineages two requests rotated or revoked at a time
    ended       \* history: lineages whose active key was revoked for good

keyHistory == <<crossed, ended>>
apiKeyVars == <<key, manager, caller, late, keyHistory>>

NoKey == [status |-> "none"]
(* With the key a lineage began with, and what was asked for (history).      *)
KeyRows == {NoKey} \cup [status: {"ACTIVE", "REVOKED"}, expires: BOOLEAN, owner: Owners,
                         scopes: (SUBSET Scopes) \ {{}}, root: Keys, asked: Asked]
Resting == [at |-> "idle"]
Busy == [at: {"revoke", "retire", "issue"}, row: Keys]
AtStep(m, label) == manager[m].at = label
RowOf(m) == manager[m].row
Used == {k \in Keys : key[k] # NoKey}

ApiKeysTypeOK ==
    /\ key \in [Keys -> KeyRows]
    /\ manager \in [Managers -> {Resting} \cup Busy]
    /\ caller \in [Callers -> {0} \cup Keys]
    /\ late \in BOOLEAN
    /\ crossed \subseteq Keys /\ ended \subseteq Keys

ApiKeysInit ==
    /\ key = [k \in Keys |-> NoKey]
    /\ manager = [m \in Managers |-> Resting]
    /\ caller = [c \in Callers |-> 0]
    /\ late = FALSE /\ crossed = {} /\ ended = {}

-----------------------------------------------------------------------------
Leave(m) == manager' = [manager EXCEPT ![m] = Resting]

Drop(m) ==
    /\ manager[m] # Resting /\ Leave(m)
    /\ UNCHANGED <<key, caller, late, keyHistory>>

Unused(k) == key[k] = NoKey /\ 1 .. k - 1 \subseteq Used

(* Unknown scopes are left out; without any, the defaults are taken.        *)
NormalizeScopes(asked) == IF asked \cap Scopes = {} THEN DefaultScopes ELSE asked \cap Scopes

NewKey(k, o, asked) ==
    [status |-> "ACTIVE", expires |-> asked.expires, owner |-> o,
     scopes |-> NormalizeScopes(asked.scopes), root |-> k, asked |-> asked]

IssueKey(m, o) ==
    /\ manager[m] = Resting
    /\ \E k \in Keys, asked \in Asked :
           Unused(k) /\ key' = [key EXCEPT ![k] = NewKey(k, o, asked)]
    /\ UNCHANGED <<manager, caller, late, keyHistory>>

Lineage(root) == {k \in Used : key[k].root = root}
Managing(root) == {m \in Managers : manager[m] # Resting /\ RowOf(m) \in Lineage(root)}

Take(m, k, label) ==
    /\ manager' = [manager EXCEPT ![m] = [at |-> label, row |-> k]]
    /\ crossed' = IF Managing(key[k].root) = {} THEN crossed ELSE crossed \cup {key[k].root}
    /\ UNCHANGED <<key, caller, late, ended>>

\* mutant: finds keys of any status
RotatableEver(k, o) == k \in Used /\ key[k].owner = o

(* Rotation: find the active key, revoke it whatever it has become since,   *)
(* issue a successor with its scopes and expiry.                            *)
Rotatable(k, o) == k \in Used /\ key[k].owner = o /\ key[k].status = "ACTIVE"

FindToRotate(m, o) ==
    manager[m] = Resting /\ \E k \in Keys : Rotatable(k, o) /\ Take(m, k, "retire")

Retire(m) ==
    /\ AtStep(m, "retire")
    /\ manager' = [manager EXCEPT ![m].at = "issue"]
    /\ key' = [key EXCEPT ![RowOf(m)].status = "REVOKED"]
    /\ UNCHANGED <<caller, late, keyHistory>>

Successor(old) == [old EXCEPT !.status = "ACTIVE"]

IssueSuccessor(m) ==
    /\ AtStep(m, "issue") /\ Leave(m)
    /\ \E k \in Keys : Unused(k) /\ key' = [key EXCEPT ![k] = Successor(key[RowOf(m)])]
    /\ UNCHANGED <<caller, late, keyHistory>>

FindToRevoke(m, o) ==
    manager[m] = Resting /\ \E k \in Used : key[k].owner = o /\ Take(m, k, "revoke")

Revoke(m) ==
    /\ AtStep(m, "revoke") /\ Leave(m)
    /\ key' = [key EXCEPT ![RowOf(m)].status = "REVOKED"]
    /\ ended' = IF key[RowOf(m)].status = "ACTIVE" THEN ended \cup {key[RowOf(m)].root} ELSE ended
    /\ UNCHANGED <<caller, late, crossed>>

Expire ==
    /\ ~late /\ late' = TRUE
    /\ UNCHANGED <<key, manager, caller, keyHistory>>

-----------------------------------------------------------------------------
Acceptable(k) ==
    /\ k \in Used /\ key[k].status = "ACTIVE" /\ ~(key[k].expires /\ late)
    /\ ManageWebhooks \in key[k].scopes

(* The call works on what it read of the key, also after a revocation.      *)
Authenticate(c) ==
    /\ caller[c] = 0
    /\ \E k \in Keys : Acceptable(k) /\ caller' = [caller EXCEPT ![c] = k]
    /\ UNCHANGED <<key, manager, late, keyHistory>>

Answer(c) ==
    /\ caller[c] # 0 /\ caller' = [caller EXCEPT ![c] = 0]
    /\ UNCHANGED <<key, manager, late, keyHistory>>

-----------------------------------------------------------------------------
ManagerStep(m) ==
    \/ \E o \in Owners : IssueKey(m, o) \/ FindToRotate(m, o) \/ FindToRevoke(m, o)
    \/ Retire(m) \/ IssueSuccessor(m) \/ Revoke(m) \/ Drop(m)

ApiKeysNext ==
    \/ \E m \in Managers : ManagerStep(m)
    \/ \E c \in Callers : Authenticate(c) \/ Answer(c)
    \/ Expire

ApiKeysSpec == ApiKeysInit /\ [][ApiKeysNext]_apiKeyVars

-----------------------------------------------------------------------------
(* However often a key is rotated, at most one key of its lineage is        *)
(* active, unless two rotations or revocations of the lineage overlapped.   *)
LineageIsSingle ==
    \A root \in Keys \ crossed :
        Cardinality({k \in Lineage(root) : key[k].status = "ACTIVE"}) <= 1

(* Revoking the active key of a lineage ends it: unless they overlapped, no *)
(* rotation brings it back.                                                 *)
RevokedLineageIsDead ==
    \A root \in ended \ crossed : \A k \in Lineage(root) : key[k].status = "REVOKED"

(* A call with a key is served only for a tenant and within scopes asked    *)
(* for when the lineage began, and before the expiry set then or while it   *)
(* was read, however the key was rotated meanwhile.                         *)
CallersWereGranted ==
    \A c \in Callers : caller[c] # 0 =>
        LET k == key[caller[c]]
            root == key[k.root]
        IN /\ ManageWebhooks \in root.asked.scopes \/ ManageWebhooks \in DefaultScopes
           /\ k.owner = root.owner /\ k.expires = root.asked.expires

(* What a key allows never outlives or outgrows what was granted.           *)
LineagesAreSound ==
    ApiKeysTypeOK /\ LineageIsSingle /\ RevokedLineageIsDead /\ CallersWereGranted

=============================================================================
