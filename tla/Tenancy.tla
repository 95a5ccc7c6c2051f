------------------------------ MODULE Tenancy ------------------------------
(***************************************************************************)
(* Organizations and who may act for them: sign-up                         *)
(* (lib/db/queries/companies.ts), provisioning and members                 *)
(* (lib/tenancy/organizations.ts, app/api/organizations/route.ts), the     *)
(* context of a request (lib/auth, lib/tenancy/context.ts) and partner     *)
(* integrations (app/api/partners/route.ts).                               *)
(*                                                                         *)
(* A request reads its tenant once and acts on it in later steps, while    *)
(* its user may be provisioned a new organization.  A tenant is an         *)
(* organization with its one company; a company never changes organization.*)
(***************************************************************************)
EXTENDS RowSecurity, Naturals

CONSTANTS
    Users,
    ClaimsOf,    \* what the session of each user claims
    TokenOf,     \* the bearer token of each user
    Tenants,
    MemberRoles, \* of OrganizationMember rows
    Wallets,     \* treasury wallets of companies, a missing one among them
    EnvWallet,   \* TREASURY_WALLET_ADDRESS, the wallet of every sign-up
    MaxPartners, \* bound: integrations added
    Requests     \* concurrent requests

Partners == 1 .. MaxPartners

Tokens == [issuer: {"none", "ours", "other"}, early: BOOLEAN, expired: BOOLEAN,
           known: BOOLEAN]

ASSUME TenancyAssumption ==
    /\ TokenOf \in [Users -> Tokens]
    /\ Nowhere \notin Tenants
    /\ ClaimsOf \in [Users -> [app: STRING, own: STRING, contractor: STRING]]
    /\ EnvWallet \in Wallets /\ Nowhere \notin Wallets
    /\ "OWNER" \in MemberRoles /\ "none" \notin MemberRoles
    /\ MaxPartners \in Nat

VARIABLES
    wallet,     \* treasuryWalletAddress of each tenant's company, once founded
    home,       \* CompanyUser: the company each user belongs to
    member,     \* OrganizationMember rows
    partner,    \* PartnerIntegration rows, each with its subscription
    request,    \* what each request has read, and the await it is at
    belonged,   \* history: users and the tenants they have belonged to
    touched     \* history: users, the tenants whose rows they changed or listed, and how

tenantTables == <<wallet, home, member, partner>>
tenancyVars == <<tenantTables, request, belonged, touched>>

NoPartner == [tenant |-> Nowhere, subscribed |-> Nowhere, status |-> "none"]
PartnerRows == [tenant: Tenants \cup {Nowhere}, subscribed: Tenants \cup {Nowhere},
                status: {"none", "ACTIVE", "REVOKED"}]
Quiet == [at |-> "idle"]
Active == [at: {"authorized", "subscribe"}, user: Users, tenant: Tenants, row: {0} \cup Partners]
At(r, label) == request[r].at = label

(* Rows are listed and changed within the request's tenant, or revoked by   *)
(* an id alone.                                                             *)
Deeds == {"scoped", "revocation"}
Scoped(u, t) == <<u, t, "scoped">>

TenancyTypeOK ==
    /\ wallet \in [Tenants -> Wallets \cup {Nowhere}]
    /\ home \in [Users -> Tenants \cup {Nowhere}]
    /\ member \in [Tenants -> [Users -> MemberRoles \cup {"none"}]]
    /\ partner \in [Partners -> PartnerRows]
    /\ request \in [Requests -> {Quiet} \cup Active]
    /\ belonged \subseteq Users \X Tenants
    /\ touched \subseteq Users \X Tenants \X Deeds

TenancyInit ==
    /\ wallet = [t \in Tenants |-> Nowhere]
    /\ home = [u \in Users |-> Nowhere]
    /\ member = [t \in Tenants |-> [u \in Users |-> "none"]]
    /\ partner = [p \in Partners |-> NoPartner]
    /\ request = [r \in Requests |-> Quiet]
    /\ belonged = {} /\ touched = {}

-----------------------------------------------------------------------------
(* A token is checked for its issuer and its dates, and then by the         *)
(* provider; any user with such a session may sign up and be provisioned.   *)
HasSession(u) ==
    LET token == TokenOf[u]
    IN token.issuer # "other" /\ ~token.early /\ ~token.expired /\ token.known

(* Sign-up and provisioning, each one transaction.                          *)

Found(u, t, w) ==
    /\ wallet[t] = Nowhere
    /\ wallet' = [wallet EXCEPT ![t] = w]
    /\ member' = [member EXCEPT ![t][u] = "OWNER"]
    /\ home' = [home EXCEPT ![u] = t]
    /\ belonged' = belonged \cup {<<u, t>>}
    /\ UNCHANGED <<partner, request, touched>>

SignUpFirst(u) == home[u] = Nowhere /\ \E t \in Tenants : Found(u, t, EnvWallet)

(* Signing up again, as every sign-in does, writes the wallet of the        *)
(* environment over the company's.                                          *)
SignUpAgain(u) ==
    /\ home[u] # Nowhere
    /\ wallet' = [wallet EXCEPT ![home[u]] = EnvWallet]
    /\ touched' = touched \cup {Scoped(u, home[u])}
    /\ UNCHANGED <<home, member, partner, request, belonged>>

SignUp(u) == HasSession(u) /\ (SignUpFirst(u) \/ SignUpAgain(u))

(* A new organization for any user with a session.  The user's only         *)
(* CompanyUser row moves; the old organization keeps the OrganizationMember *)
(* row and may have nobody left.                                            *)
Provision(u) == HasSession(u) /\ \E t \in Tenants, w \in Wallets : Found(u, t, w)

-----------------------------------------------------------------------------
(* The context of a request.  CompanyUser rows are all "admin", so a user   *)
(* with a membership passes requireAdmin whatever the claims say.           *)

MembershipRole(u) == "admin"

HasMembership(u) == home[u] # Nowhere

IsAdmin(u) == CurrentAuthRole(ClaimsOf[u]) = "admin" \/ MembershipRole(u) \in {"admin", "owner"}

Finish(r) == request' = [request EXCEPT ![r] = Quiet]

Authorize(r, u) ==
    /\ request[r] = Quiet /\ HasSession(u) /\ HasMembership(u) /\ IsAdmin(u)
    /\ request' = [request EXCEPT ![r] = [at |-> "authorized", user |-> u,
                                          tenant |-> home[u], row |-> 0]]
    /\ UNCHANGED <<tenantTables, belonged, touched>>

(* A request may fail, or its process die, at any await.                    *)
DropRequest(r) ==
    /\ request[r] # Quiet /\ Finish(r)
    /\ UNCHANGED <<tenantTables, belonged, touched>>

Touch(r) == touched' = touched \cup {Scoped(request[r].user, request[r].tenant)}

-----------------------------------------------------------------------------
(* Organization requests.                                                   *)

WithMember(t, u, role) == [member EXCEPT ![t][u] = role]

AddMember(r) ==
    /\ At(r, "authorized") /\ Finish(r) /\ Touch(r)
    /\ \E u \in Users, role \in MemberRoles : member' = WithMember(request[r].tenant, u, role)
    /\ UNCHANGED <<wallet, home, partner, belonged>>

(* A company of another organization is answered with 404.                  *)
InTenant(r, t) == wallet[t] # Nowhere /\ t = request[r].tenant

UpdateSettings(r) ==
    /\ At(r, "authorized") /\ Finish(r)
    /\ \E t \in Tenants, w \in Wallets :
           /\ InTenant(r, t)
           /\ wallet' = [wallet EXCEPT ![t] = w]
           /\ touched' = touched \cup {Scoped(request[r].user, t)}
    /\ UNCHANGED <<home, member, partner, belonged>>

(* Members and integrations are listed by the tenant read before.           *)
List(r) ==
    /\ At(r, "authorized") /\ Finish(r) /\ Touch(r)
    /\ UNCHANGED <<tenantTables, belonged>>

-----------------------------------------------------------------------------
(* Partners: an integration, then its webhook subscription if one is asked  *)
(* for; the request may fail in between.                                    *)

AddIntegration(r) ==
    /\ At(r, "authorized") /\ Touch(r)
    /\ \E p \in Partners :
           /\ partner[p] = NoPartner
           /\ partner' = [partner EXCEPT ![p].tenant = request[r].tenant]
           /\ \/ Finish(r)
              \/ request' = [request EXCEPT ![r].at = "subscribe", ![r].row = p]
    /\ UNCHANGED <<wallet, home, member, belonged>>

\* mutant: reads the tenant of the user again
SubscribeRead(r) ==
    /\ At(r, "subscribe") /\ Finish(r) /\ Touch(r)
    /\ partner' = [partner EXCEPT ![request[r].row].subscribed = home[request[r].user],
                                  ![request[r].row].status = "ACTIVE"]
    /\ UNCHANGED <<wallet, home, member, belonged>>

Subscribe(r) ==
    /\ At(r, "subscribe") /\ Finish(r) /\ Touch(r)
    /\ partner' = [partner EXCEPT ![request[r].row].subscribed = request[r].tenant,
                                  ![request[r].row].status = "ACTIVE"]
    /\ UNCHANGED <<wallet, home, member, belonged>>

(* The integration must be of the tenant and is updated; the subscription   *)
(* is taken by its id alone, whoever its tenant is.                         *)
RevokeSubscription(r) ==
    /\ At(r, "authorized") /\ Finish(r)
    /\ \E p \in Partners : partner[p].tenant = request[r].tenant
    /\ \E q \in Partners :
           /\ partner[q].status # "none"
           /\ partner' = [partner EXCEPT ![q].status = "REVOKED"]
           /\ touched' = touched \cup {Scoped(request[r].user, request[r].tenant),
                                      <<request[r].user, partner[q].tenant, "revocation">>}
    /\ UNCHANGED <<wallet, home, member, belonged>>

-----------------------------------------------------------------------------
RequestStep(r) ==
    \/ (\E u \in Users : Authorize(r, u))
    \/ AddMember(r) \/ UpdateSettings(r) \/ List(r)
    \/ AddIntegration(r) \/ Subscribe(r) \/ RevokeSubscription(r)
    \/ DropRequest(r)

TenancyNext ==
    \/ \E u \in Users : SignUp(u) \/ Provision(u)
    \/ \E r \in Requests : RequestStep(r)

TenancySpec == TenancyInit /\ [][TenancyNext]_tenancyVars

-----------------------------------------------------------------------------
(* Whoever changes or lists what a tenant has belonged to it, whatever      *)
(* happened to users since the request was authorized.  The one write that  *)
(* crosses from a tenant to another is the revocation of a webhook          *)
(* subscription, and only somebody who belonged to a tenant with an         *)
(* integration makes it.                                                    *)
OnlyRevocationsCross ==
    \A u \in Users, t \in Tenants :
        /\ <<u, t, "scoped">> \in touched => <<u, t>> \in belonged
        /\ <<u, t, "revocation">> \in touched =>
               \E p \in Partners : <<u, partner[p].tenant>> \in belonged

(* The two membership tables agree where access is concerned: a user's      *)
(* company is one whose organization lists the user.                        *)
HomeIsListed == \A u \in Users : home[u] # Nowhere => member[home[u]][u] # "none"

(* A subscription belongs to the tenant of its integration, also when the   *)
(* user moved to another between the two writes.                            *)
SubscriptionKeepsTenant ==
    \A p \in Partners : partner[p].status # "none" => partner[p].subscribed = partner[p].tenant

(* Tenants stay apart but for revocations, and no row ends up between two   *)
(* of them.                                                                 *)
TenantsAreApart ==
    TenancyTypeOK /\ OnlyRevocationsCross /\ HomeIsListed /\ SubscriptionKeepsTenant

=============================================================================
