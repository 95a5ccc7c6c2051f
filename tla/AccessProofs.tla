---------------------------- MODULE AccessProofs ----------------------------
(***************************************************************************)
(* Who may do what with whose rows: tenants stay apart, lineages of API    *)
(* keys are sound, and contractors and invoices keep their references and  *)
(* their audit trail, for any users, tenants, partners, keys, sessions,    *)
(* requests and calls.                                                     *)
(***************************************************************************)
EXTENDS Tenancy, ApiKeys, Workforce, SequenceTheorems, SumTheorems

USE TenancyAssumption

(***************************************************************************)
(*                                 Tenants                                 *)
(***************************************************************************)
Open(r) == request[r] # Quiet

(* Whoever is at home in a tenant, or acts in it, has belonged to it.       *)
InsidersBelong ==
    /\ \A u \in Users : home[u] # Nowhere => <<u, home[u]>> \in belonged
    /\ \A r \in Requests : Open(r) => <<request[r].user, request[r].tenant>> \in belonged

(* A subscription has an integration, and so a tenant.                      *)
SubscriptionsHaveTenants ==
    \A p \in Partners : partner[p].status # "none" => partner[p].tenant \in Tenants

(* A request between its two writes holds an integration of its tenant.     *)
HoldsItsIntegration ==
    \A r \in Requests : At(r, "subscribe") =>
        /\ request[r].row \in Partners
        /\ partner[request[r].row].tenant = request[r].tenant

TenancyInv ==
    /\ TenancyTypeOK
    /\ InsidersBelong /\ HoldsItsIntegration /\ SubscriptionsHaveTenants
    /\ OnlyRevocationsCross /\ HomeIsListed /\ SubscriptionKeepsTenant

-----------------------------------------------------------------------------
LEMMA TenancyInitInv == TenancyInit => TenancyInv
BY DEF TenancyInit, TenancyInv, TenancyTypeOK, InsidersBelong, HoldsItsIntegration,
       SubscriptionsHaveTenants, OnlyRevocationsCross, HomeIsListed, SubscriptionKeepsTenant, NoPartner, PartnerRows,
       Quiet, Open, At

LEMMA OpenRequest ==
    ASSUME TenancyTypeOK, NEW r \in Requests, Open(r) PROVE request[r] \in Active
BY DEF TenancyTypeOK, Open

LEMMA LabelledIsOpen ==
    ASSUME NEW r \in Requests, At(r, "authorized") \/ At(r, "subscribe") PROVE Open(r)
BY DEF At, Open, Quiet

(* Steps that leave the requests' fields and the memberships alone.         *)
LEMMA FinishKeeps ==
    ASSUME TenancyInv, NEW r \in Requests, Finish(r), UNCHANGED <<home, belonged>>,
           \A p \in Partners : partner[p].tenant # Nowhere => partner'[p].tenant = partner[p].tenant
    PROVE  /\ request' \in [Requests -> {Quiet} \cup Active]
           /\ InsidersBelong' /\ HoldsItsIntegration'
<1>1. request' = [request EXCEPT ![r] = Quiet] BY DEF Finish
<1>2. request \in [Requests -> {Quiet} \cup Active] BY DEF TenancyInv, TenancyTypeOK
<1>3. request' \in [Requests -> {Quiet} \cup Active] BY <1>1, <1>2
<1>4. InsidersBelong'
  BY <1>1, <1>2 DEF TenancyInv, InsidersBelong, Open
<1>5. HoldsItsIntegration'
  <2> SUFFICES ASSUME NEW s \in Requests, At(s, "subscribe")'
               PROVE  /\ request'[s].row \in Partners
                      /\ partner'[request'[s].row].tenant = request'[s].tenant
    BY DEF HoldsItsIntegration
  <2>1. s # r BY <1>1, <1>2 DEF At, Quiet
  <2>2. request'[s] = request[s] BY <1>1, <1>2, <2>1
  <2>3. At(s, "subscribe") BY <2>2 DEF At
  <2>4. request[s].tenant \in Tenants
    BY <2>3, LabelledIsOpen, OpenRequest DEF TenancyInv, Active
  <2>5. QED BY <2>2, <2>3, <2>4 DEF TenancyInv, HoldsItsIntegration
<1>6. QED BY <1>3, <1>4, <1>5

LEMMA FoundKeeps ==
    ASSUME TenancyInv, NEW u \in Users, NEW t \in Tenants, NEW w \in Wallets, Found(u, t, w)
    PROVE  TenancyInv'
<1> USE DEF TenancyInv, Found
<1>1. TenancyTypeOK' BY DEF TenancyTypeOK
<1>2. InsidersBelong' BY DEF InsidersBelong, Open, TenancyTypeOK
<1>3. HoldsItsIntegration' BY DEF HoldsItsIntegration, At
<1>4. OnlyRevocationsCross' /\ SubscriptionsHaveTenants'
  BY DEF OnlyRevocationsCross, SubscriptionsHaveTenants
<1>5. HomeIsListed'
  <2> SUFFICES ASSUME NEW v \in Users, home'[v] # Nowhere
               PROVE  member'[home'[v]][v] # "none"
    BY DEF HomeIsListed
  <2>1. CASE v = u
    <3>1. home'[v] = t /\ member'[t][u] = "OWNER" BY <2>1 DEF TenancyTypeOK
    <3>2. QED BY <2>1, <3>1
  <2>2. CASE v # u
    <3>1. home'[v] = home[v] /\ home[v] \in Tenants BY <2>2 DEF TenancyTypeOK
    <3>2. member'[home[v]][v] = member[home[v]][v] BY <2>2, <3>1 DEF TenancyTypeOK
    <3>3. QED BY <3>1, <3>2 DEF HomeIsListed
  <2>3. QED BY <2>1, <2>2
<1>6. SubscriptionKeepsTenant' BY DEF SubscriptionKeepsTenant
<1>7. QED BY <1>1, <1>2, <1>3, <1>4, <1>5, <1>6

LEMMA SignUpAgainKeeps ==
    ASSUME TenancyInv, NEW u \in Users, SignUpAgain(u) PROVE TenancyInv'
<1> USE DEF TenancyInv, SignUpAgain
<1>1. home[u] \in Tenants BY DEF TenancyTypeOK
<1>2. TenancyTypeOK' BY <1>1 DEF TenancyTypeOK, Scoped, Deeds
<1>3. OnlyRevocationsCross' /\ SubscriptionsHaveTenants'
  BY DEF OnlyRevocationsCross, InsidersBelong, Scoped, SubscriptionsHaveTenants
<1>4. QED
  BY <1>2, <1>3 DEF InsidersBelong, HoldsItsIntegration, HomeIsListed,
                    SubscriptionKeepsTenant, Open, At

LEMMA AuthorizeKeeps ==
    ASSUME TenancyInv, NEW r \in Requests, NEW u \in Users, Authorize(r, u)
    PROVE  TenancyInv'
<1> DEFINE new == [at |-> "authorized", user |-> u, tenant |-> home[u], row |-> 0]
<1>1. request' = [request EXCEPT ![r] = new] /\ home[u] # Nowhere
  BY DEF Authorize, HasMembership
<1>2. UNCHANGED <<tenantTables, belonged, touched>> BY DEF Authorize
<1>3. new \in Active BY <1>1 DEF TenancyInv, TenancyTypeOK, Active
<1>4. TenancyTypeOK' BY <1>1, <1>2, <1>3 DEF TenancyInv, TenancyTypeOK, tenantTables
<1>5. InsidersBelong'
  BY <1>1, <1>2 DEF TenancyInv, TenancyTypeOK, InsidersBelong, Open, tenantTables
<1>6. HoldsItsIntegration'
  BY <1>1, <1>2 DEF TenancyInv, TenancyTypeOK, HoldsItsIntegration, At, tenantTables
<1>7. QED
  BY <1>2, <1>4, <1>5, <1>6 DEF TenancyInv, OnlyRevocationsCross, HomeIsListed,
                                SubscriptionKeepsTenant, SubscriptionsHaveTenants, tenantTables

-----------------------------------------------------------------------------
(* What an authorized request does in one write.                            *)
LEMMA WritesKeep ==
    ASSUME TenancyInv, NEW r \in Requests,
           AddMember(r) \/ UpdateSettings(r) \/ List(r) \/ DropRequest(r)
    PROVE  TenancyInv'
<1>1. Open(r) /\ Finish(r) /\ UNCHANGED <<home, partner, belonged>>
  BY LabelledIsOpen DEF AddMember, UpdateSettings, List, DropRequest, tenantTables, Open
<1>2. request[r] \in Active BY <1>1, OpenRequest DEF TenancyInv
<1>3. <<request[r].user, request[r].tenant>> \in belonged
  BY <1>1 DEF TenancyInv, InsidersBelong
<1>4. /\ request' \in [Requests -> {Quiet} \cup Active]
      /\ InsidersBelong' /\ HoldsItsIntegration'
  BY <1>1, FinishKeeps
<1>5. touched' \subseteq touched \cup {Scoped(request[r].user, request[r].tenant)}
  BY DEF AddMember, UpdateSettings, List, DropRequest, Touch, InTenant
<1>6. OnlyRevocationsCross' /\ SubscriptionsHaveTenants'
  BY <1>1, <1>3, <1>5 DEF TenancyInv, OnlyRevocationsCross, SubscriptionsHaveTenants, Scoped
<1>7. /\ member' \in [Tenants -> [Users -> MemberRoles \cup {"none"}]]
      /\ HomeIsListed'
  <2>1. CASE AddMember(r)
    <3>1. PICK u \in Users, role \in MemberRoles :
              member' = [member EXCEPT ![request[r].tenant][u] = role]
      BY <2>1 DEF AddMember, WithMember
    <3>2. request[r].tenant \in Tenants BY <1>2 DEF Active
    <3>3. QED
      BY <1>1, <3>1, <3>2 DEF TenancyInv, TenancyTypeOK, HomeIsListed
  <2>2. CASE UNCHANGED member BY <1>1, <2>2 DEF TenancyInv, TenancyTypeOK, HomeIsListed
  <2>3. QED BY <2>1, <2>2 DEF UpdateSettings, List, DropRequest, tenantTables
<1>8. wallet' \in [Tenants -> Wallets \cup {Nowhere}]
  BY DEF AddMember, UpdateSettings, List, DropRequest, tenantTables, TenancyInv, TenancyTypeOK
<1>9. touched' \subseteq Users \X Tenants \X Deeds
  BY <1>2, <1>5 DEF TenancyInv, TenancyTypeOK, Active, Scoped, Deeds
<1>10. TenancyTypeOK' BY <1>1, <1>4, <1>7, <1>8, <1>9 DEF TenancyInv, TenancyTypeOK
<1>11. SubscriptionKeepsTenant' BY <1>1 DEF TenancyInv, SubscriptionKeepsTenant
<1>12. QED BY <1>4, <1>6, <1>7, <1>10, <1>11 DEF TenancyInv

LEMMA AddIntegrationKeeps ==
    ASSUME TenancyInv, NEW r \in Requests, AddIntegration(r) PROVE TenancyInv'
<1>1. PICK p \in Partners :
          /\ partner[p] = NoPartner
          /\ partner' = [partner EXCEPT ![p].tenant = request[r].tenant]
          /\ \/ Finish(r)
             \/ request' = [request EXCEPT ![r].at = "subscribe", ![r].row = p]
  BY DEF AddIntegration
<1>2. /\ UNCHANGED <<wallet, home, member, belonged>>
      /\ touched' = touched \cup {Scoped(request[r].user, request[r].tenant)}
  BY DEF AddIntegration, Touch
<1>3. Open(r) /\ request[r] \in Active
  BY LabelledIsOpen, OpenRequest DEF AddIntegration, TenancyInv
<1>4. request[r].tenant \in Tenants BY <1>3 DEF Active
<1>5. partner' = [partner EXCEPT ![p] = [NoPartner EXCEPT !.tenant = request[r].tenant]]
  BY <1>1 DEF TenancyInv, TenancyTypeOK
<1>6. partner' \in [Partners -> PartnerRows]
  BY <1>4, <1>5 DEF TenancyInv, TenancyTypeOK, PartnerRows, NoPartner
<1>7. SubscriptionKeepsTenant'
  BY <1>5 DEF TenancyInv, TenancyTypeOK, SubscriptionKeepsTenant, NoPartner
<1>8. \A q \in Partners : partner[q].tenant # Nowhere => partner'[q].tenant = partner[q].tenant
  BY <1>1, <1>5 DEF TenancyInv, TenancyTypeOK, NoPartner
<1>9. /\ request' \in [Requests -> {Quiet} \cup Active]
      /\ InsidersBelong' /\ HoldsItsIntegration'
  <2>1. CASE Finish(r) BY <1>2, <1>8, <2>1, FinishKeeps
  <2>2. CASE request' = [request EXCEPT ![r].at = "subscribe", ![r].row = p]
    <3>1. request'[r] \in Active /\ \A s \in Requests \ {r} : request'[s] = request[s]
      BY <1>3, <2>2 DEF TenancyInv, TenancyTypeOK, Active
    <3>2. /\ request'[r].user = request[r].user /\ request'[r].tenant = request[r].tenant
          /\ request'[r].row = p
      BY <1>3, <2>2 DEF TenancyInv, TenancyTypeOK, Active
    <3>3. request' \in [Requests -> {Quiet} \cup Active]
      BY <2>2, <3>1 DEF TenancyInv, TenancyTypeOK
    <3>4. InsidersBelong'
      BY <1>2, <1>3, <3>1, <3>2 DEF TenancyInv, InsidersBelong, Open
    <3>5. HoldsItsIntegration'
      <4> SUFFICES ASSUME NEW s \in Requests, At(s, "subscribe")'
                   PROVE  /\ request'[s].row \in Partners
                          /\ partner'[request'[s].row].tenant = request'[s].tenant
        BY DEF HoldsItsIntegration
      <4>1. CASE s = r
        <5>1. partner'[p].tenant = request[r].tenant
          BY <1>5 DEF TenancyInv, TenancyTypeOK, NoPartner
        <5>2. QED BY <3>2, <4>1, <5>1
      <4>2. CASE s # r
        <5>1. request'[s] = request[s] /\ At(s, "subscribe") BY <3>1, <4>2 DEF At
        <5>2. request[s].tenant \in Tenants
          BY <5>1, LabelledIsOpen, OpenRequest DEF TenancyInv, Active
        <5>3. QED BY <1>8, <5>1, <5>2 DEF TenancyInv, HoldsItsIntegration
      <4>3. QED BY <4>1, <4>2
    <3>6. QED BY <3>3, <3>4, <3>5
  <2>3. QED BY <1>1, <2>1, <2>2
<1>10. touched' \subseteq Users \X Tenants \X Deeds
  BY <1>2, <1>3 DEF TenancyInv, TenancyTypeOK, Active, Scoped, Deeds
<1>11. OnlyRevocationsCross'
  <2>1. <<request[r].user, request[r].tenant>> \in belonged
    BY <1>3 DEF TenancyInv, InsidersBelong
  <2>2. SUFFICES ASSUME NEW u \in Users, NEW q \in Partners, <<u, partner[q].tenant>> \in belonged
                 PROVE  <<u, partner'[q].tenant>> \in belonged'
    BY <1>2, <1>3, <2>1 DEF TenancyInv, TenancyTypeOK, OnlyRevocationsCross, Scoped
  <2>3. partner[q].tenant # Nowhere BY <2>2 DEF TenancyInv, TenancyTypeOK
  <2>4. QED BY <1>2, <1>8, <2>2, <2>3
<1>12. SubscriptionsHaveTenants'
  BY <1>5 DEF TenancyInv, TenancyTypeOK, SubscriptionsHaveTenants, NoPartner
<1>13. TenancyTypeOK' BY <1>2, <1>6, <1>9, <1>10 DEF TenancyInv, TenancyTypeOK
<1>14. QED
  BY <1>2, <1>7, <1>9, <1>11, <1>12, <1>13 DEF TenancyInv, HomeIsListed

LEMMA SubscriptionWritesKeep ==
    ASSUME TenancyInv, NEW r \in Requests, Subscribe(r) \/ RevokeSubscription(r)
    PROVE  TenancyInv'
<1>1. /\ Open(r) /\ Finish(r)
      /\ UNCHANGED <<wallet, home, member, belonged>>
  BY LabelledIsOpen DEF Subscribe, RevokeSubscription
<1>2. request[r] \in Active BY <1>1, OpenRequest DEF TenancyInv
<1>3. /\ partner' \in [Partners -> PartnerRows] /\ SubscriptionKeepsTenant'
      /\ SubscriptionsHaveTenants'
      /\ \A p \in Partners : partner'[p].tenant = partner[p].tenant
  <2>1. CASE Subscribe(r)
    <3> DEFINE row == request[r].row
    <3>1. row \in Partners /\ partner[row].tenant = request[r].tenant
      BY <2>1 DEF TenancyInv, HoldsItsIntegration, Subscribe
    <3>2. partner' = [partner EXCEPT ![row] = [partner[row] EXCEPT !.subscribed = request[r].tenant,
                                                                   !.status = "ACTIVE"]]
      BY <2>1, <3>1 DEF Subscribe, TenancyInv, TenancyTypeOK, PartnerRows
    <3>3. request[r].tenant \in Tenants BY <1>2 DEF Active
    <3>4. partner[row] \in PartnerRows BY <3>1 DEF TenancyInv, TenancyTypeOK
    <3>5. /\ partner'[row] \in PartnerRows
          /\ partner'[row].tenant = partner[row].tenant
          /\ partner'[row].subscribed = request[r].tenant
      BY <3>1, <3>2, <3>3, <3>4 DEF TenancyInv, TenancyTypeOK, PartnerRows
    <3>6. \A p \in Partners \ {row} : partner'[p] = partner[p]
      BY <3>2 DEF TenancyInv, TenancyTypeOK
    <3>7. partner' \in [Partners -> PartnerRows]
      BY <3>2, <3>5, <3>6 DEF TenancyInv, TenancyTypeOK
    <3>8. SubscriptionKeepsTenant'
      BY <3>1, <3>5, <3>6, <3>7 DEF TenancyInv, SubscriptionKeepsTenant
    <3>9. \A p \in Partners : partner'[p].tenant = partner[p].tenant
      BY <3>1, <3>5, <3>6, <3>7
    <3>10. SubscriptionsHaveTenants'
      BY <3>1, <3>3, <3>6, <3>9 DEF TenancyInv, SubscriptionsHaveTenants
    <3>11. QED BY <3>7, <3>8, <3>9, <3>10
  <2>2. CASE RevokeSubscription(r)
    <3>1. PICK q \in Partners :
              partner[q].status # "none" /\ partner' = [partner EXCEPT ![q].status = "REVOKED"]
      BY <2>2 DEF RevokeSubscription
    <3>2. partner' = [partner EXCEPT ![q] = [partner[q] EXCEPT !.status = "REVOKED"]]
      BY <3>1 DEF TenancyInv, TenancyTypeOK, PartnerRows
    <3>3. /\ partner' \in [Partners -> PartnerRows]
          /\ \A p \in Partners : /\ partner'[p].tenant = partner[p].tenant
                                 /\ partner'[p].subscribed = partner[p].subscribed
                                 /\ partner'[p].status # "none" => partner[p].status # "none"
      BY <3>1, <3>2 DEF TenancyInv, TenancyTypeOK, PartnerRows
    <3>4. SubscriptionKeepsTenant' BY <3>3 DEF TenancyInv, SubscriptionKeepsTenant
    <3>5. SubscriptionsHaveTenants' BY <3>3 DEF TenancyInv, SubscriptionsHaveTenants
    <3>6. QED BY <3>3, <3>4, <3>5
  <2>3. QED BY <2>1, <2>2
<1>4. /\ request' \in [Requests -> {Quiet} \cup Active]
      /\ InsidersBelong' /\ HoldsItsIntegration'
  BY <1>1, <1>3, FinishKeeps
<1>5. <<request[r].user, request[r].tenant>> \in belonged
  BY <1>1 DEF TenancyInv, InsidersBelong
<1>6. touched' \subseteq Users \X Tenants \X Deeds /\ OnlyRevocationsCross'
  <2>1. CASE Subscribe(r)
    <3>1. touched' = touched \cup {Scoped(request[r].user, request[r].tenant)}
      BY <2>1 DEF Subscribe, Touch
    <3>2. touched' \subseteq Users \X Tenants \X Deeds
      BY <1>2, <3>1 DEF Scoped, Deeds, Active, TenancyInv, TenancyTypeOK
    <3>3. OnlyRevocationsCross'
      BY <1>1, <1>3, <1>5, <3>1 DEF Scoped, TenancyInv, OnlyRevocationsCross
    <3>4. QED BY <3>2, <3>3
  <2>2. CASE RevokeSubscription(r)
    <3> DEFINE u == request[r].user
    <3>1. PICK q \in Partners :
              /\ partner[q].status # "none"
              /\ touched' = touched \cup {Scoped(u, request[r].tenant),
                                         <<u, partner[q].tenant, "revocation">>}
      BY <2>2 DEF RevokeSubscription
    <3>2. PICK p \in Partners : partner[p].tenant = request[r].tenant
      BY <2>2 DEF RevokeSubscription
    <3>3. partner[q].tenant \in Tenants BY <3>1 DEF TenancyInv, SubscriptionsHaveTenants
    <3>4. <<u, partner[p].tenant>> \in belonged BY <1>5, <3>2
    <3>5. touched' \subseteq Users \X Tenants \X Deeds
      BY <1>2, <3>1, <3>3 DEF Scoped, Deeds, Active, TenancyInv, TenancyTypeOK
    <3>6. OnlyRevocationsCross'
      BY <1>1, <1>3, <1>5, <3>1, <3>4 DEF Scoped, TenancyInv, OnlyRevocationsCross
    <3>7. QED BY <3>5, <3>6
  <2>3. QED BY <2>1, <2>2
<1>7. TenancyTypeOK' BY <1>1, <1>3, <1>4, <1>6 DEF TenancyInv, TenancyTypeOK
<1>8. QED
  BY <1>1, <1>3, <1>4, <1>6, <1>7 DEF TenancyInv, HomeIsListed

-----------------------------------------------------------------------------
LEMMA TenancyStep == TenancyInv /\ [TenancyNext]_tenancyVars => TenancyInv'
<1> SUFFICES ASSUME TenancyInv, [TenancyNext]_tenancyVars PROVE TenancyInv'
  OBVIOUS
<1>1. CASE UNCHANGED tenancyVars
  BY <1>1 DEF tenancyVars, tenantTables, TenancyInv, TenancyTypeOK, InsidersBelong,
              HoldsItsIntegration, OnlyRevocationsCross, HomeIsListed, SubscriptionKeepsTenant,
              SubscriptionsHaveTenants, Open, At
<1>2. ASSUME NEW u \in Users, SignUp(u) \/ Provision(u) PROVE TenancyInv'
  <2>1. CASE SignUpAgain(u) BY <2>1, SignUpAgainKeeps
  <2>2. CASE \E t \in Tenants, w \in Wallets : Found(u, t, w) BY <2>2, FoundKeeps
  <2>3. QED BY <1>2, <2>1, <2>2 DEF SignUp, SignUpFirst, Provision
<1>3. ASSUME NEW r \in Requests, RequestStep(r) PROVE TenancyInv'
  BY <1>3, AuthorizeKeeps, WritesKeep, AddIntegrationKeeps, SubscriptionWritesKeep
     DEF RequestStep
<1>4. QED BY <1>1, <1>2, <1>3 DEF TenancyNext

(* Whatever users are provisioned meanwhile, requests act within a tenant   *)
(* their user belonged to, revocations of webhook subscriptions alone       *)
(* excepted, a user's company lists the user, and a subscription is its     *)
(* integration's tenant's (organizations.ts, app/api/partners/route.ts).    *)
THEOREM TenantsStayApart == TenancySpec => []TenantsAreApart
<1>1. TenancyInv => TenantsAreApart BY DEF TenancyInv, TenantsAreApart
<1>2. QED BY <1>1, TenancyInitInv, TenancyStep, PTL DEF TenancySpec

-----------------------------------------------------------------------------
(***************************************************************************)
(*                                 API keys                                *)
(***************************************************************************)
HIDE TenancyAssumption
USE ApiKeysAssumption

Rows == [status: {"ACTIVE", "REVOKED"}, expires: BOOLEAN, owner: Owners,
         scopes: (SUBSET Scopes) \ {{}}, root: Keys, asked: Asked]
Live(k) == k \in Used /\ key[k].status = "ACTIVE"
Holds(m) == manager[m] # Resting
RootOf(m) == key[RowOf(m)].root

(* A key has what was asked for when its lineage began.                     *)
Heritage ==
    \A k \in Used :
        LET first == key[key[k].root]
        IN /\ key[k].root \in Used
           /\ key[k].owner = first.owner /\ key[k].expires = first.asked.expires
           /\ key[k].scopes = NormalizeScopes(first.asked.scopes)

HeldAreUsed ==
    /\ \A m \in Managers : Holds(m) => RowOf(m) \in Used
    /\ \A c \in Callers : caller[c] # 0 =>
           caller[c] \in Used /\ ManageWebhooks \in key[caller[c]].scopes
    /\ ended \subseteq Used

(* Where nobody crossed, one request is on a lineage at most, and its       *)
(* position tells which of the lineage's keys may be active.                *)
OnePerLineage ==
    \A m, n \in Managers :
        Holds(m) /\ Holds(n) /\ RootOf(m) = RootOf(n) /\ RootOf(m) \notin crossed => m = n

OneLive ==
    \A j, k \in Keys :
        Live(j) /\ Live(k) /\ key[j].root = key[k].root /\ key[j].root \notin crossed => j = k

PositionTells ==
    \A m \in Managers, j \in Keys :
        Holds(m) /\ Live(j) /\ key[j].root = RootOf(m) /\ RootOf(m) \notin crossed =>
            ~AtStep(m, "issue") /\ (AtStep(m, "retire") => j = RowOf(m))

EndedIsDead ==
    /\ \A j \in Keys : Live(j) => key[j].root \notin ended \ crossed
    /\ \A m \in Managers :
           Holds(m) /\ RootOf(m) \in ended \ crossed => AtStep(m, "revoke")

KeysInv ==
    /\ ApiKeysTypeOK /\ Heritage /\ HeldAreUsed
    /\ OnePerLineage /\ OneLive /\ PositionTells /\ EndedIsDead

-----------------------------------------------------------------------------
LEMMA KeysInitInv == ApiKeysInit => KeysInv
<1> SUFFICES ASSUME ApiKeysInit PROVE KeysInv OBVIOUS
<1>1. Used = {} BY DEF ApiKeysInit, Used
<1>2. \A m \in Managers : ~Holds(m) BY DEF ApiKeysInit, Holds
<1>3. ApiKeysTypeOK BY DEF ApiKeysInit, ApiKeysTypeOK, KeyRows
<1>4. QED
  BY <1>1, <1>2, <1>3 DEF KeysInv, ApiKeysInit, Heritage, HeldAreUsed, OnePerLineage, OneLive,
                          PositionTells, EndedIsDead, Live

LEMMA UsedRow ==
    ASSUME ApiKeysTypeOK, NEW k \in Used PROVE k \in Keys /\ key[k] \in Rows
BY DEF ApiKeysTypeOK, KeyRows, Rows, Used

LEMMA HeldManager ==
    ASSUME ApiKeysTypeOK, NEW m \in Managers, Holds(m) PROVE manager[m] \in Busy
BY DEF ApiKeysTypeOK, Holds

LEMMA StepIsHeld ==
    ASSUME NEW m \in Managers,
           AtStep(m, "retire") \/ AtStep(m, "issue") \/ AtStep(m, "revoke")
    PROVE  Holds(m)
BY DEF AtStep, Holds, Resting

LEMMA Normalized ==
    ASSUME NEW asked PROVE NormalizeScopes(asked) \in (SUBSET Scopes) \ {{}}
BY DEF NormalizeScopes

-----------------------------------------------------------------------------
(* A step that only lets a manager go, or none, and changes no key.         *)
LEMMA LeaveKeeps ==
    ASSUME KeysInv, NEW m \in Managers, Leave(m), UNCHANGED <<key, caller, late, crossed, ended>>
    PROVE  KeysInv'
<1>1. manager' = [manager EXCEPT ![m] = Resting] BY DEF Leave
<1>2. /\ ~Holds(m)' /\ \A n \in Managers : Holds(n)' => n # m /\ manager'[n] = manager[n]
  BY <1>1 DEF KeysInv, ApiKeysTypeOK, Holds
<1>3. ApiKeysTypeOK' BY <1>1 DEF KeysInv, ApiKeysTypeOK
<1>4. Heritage' BY DEF KeysInv, Heritage, Used
<1>5. Used' = Used /\ \A j \in Keys : Live(j)' <=> Live(j) BY DEF Used, Live
<1>6. \A n \in Managers : Holds(n)' =>
          /\ Holds(n) /\ RowOf(n)' = RowOf(n) /\ RootOf(n)' = RootOf(n)
          /\ \A label : AtStep(n, label)' <=> AtStep(n, label)
  BY <1>2 DEF Holds, RowOf, RootOf, AtStep
<1>7. HeldAreUsed' BY <1>5, <1>6 DEF KeysInv, HeldAreUsed
<1>8. OnePerLineage' /\ OneLive' BY <1>5, <1>6 DEF KeysInv, OnePerLineage, OneLive
<1>9. PositionTells' BY <1>5, <1>6 DEF KeysInv, PositionTells
<1>10. EndedIsDead' BY <1>5, <1>6 DEF KeysInv, EndedIsDead
<1>11. QED BY <1>3, <1>4, <1>7, <1>8, <1>9, <1>10 DEF KeysInv

(* A request takes a key: where another is on the lineage, they cross.      *)
LEMMA TakeKeeps ==
    ASSUME KeysInv, NEW m \in Managers, manager[m] = Resting, NEW k \in Used,
           NEW label \in {"retire", "revoke"}, Take(m, k, label),
           label = "retire" => Live(k)
    PROVE  KeysInv'
<1> DEFINE root == key[k].root
<1>1. manager' = [manager EXCEPT ![m] = [at |-> label, row |-> k]] BY DEF Take
<1>2. UNCHANGED <<key, caller, late, ended>> BY DEF Take
<1>3. crossed' = IF Managing(root) = {} THEN crossed ELSE crossed \cup {root} BY DEF Take
<1>4. k \in Keys /\ root \in Keys BY UsedRow DEF KeysInv, Rows
<1>5. ApiKeysTypeOK' BY <1>1, <1>2, <1>3, <1>4 DEF KeysInv, ApiKeysTypeOK, Busy
<1>6. Heritage' BY <1>2 DEF KeysInv, Heritage, Used
<1>7. Used' = Used /\ \A j \in Keys : Live(j)' <=> Live(j) BY <1>2 DEF Used, Live
<1>8. manager'[m] = [at |-> label, row |-> k] BY <1>1 DEF KeysInv, ApiKeysTypeOK
<1>9. /\ RowOf(m)' = k /\ RootOf(m)' = root
      /\ ~AtStep(m, "issue")' /\ (AtStep(m, "retire")' => label = "retire")
  BY <1>2, <1>8 DEF RowOf, RootOf, AtStep
<1>10. \A n \in Managers \ {m} :
           /\ Holds(n)' <=> Holds(n)
           /\ RowOf(n)' = RowOf(n) /\ RootOf(n)' = RootOf(n)
           /\ \A at : AtStep(n, at)' <=> AtStep(n, at)
  BY <1>1, <1>2 DEF KeysInv, ApiKeysTypeOK, Holds, RowOf, RootOf, AtStep
<1>11. crossed \subseteq crossed' BY <1>3
<1>12. \A n \in Managers \ {m} : Holds(n) /\ RootOf(n) = root => root \in crossed'
  <2> SUFFICES ASSUME NEW n \in Managers \ {m}, Holds(n), RootOf(n) = root
               PROVE  root \in crossed'
    OBVIOUS
  <2>1. RowOf(n) \in Used BY DEF KeysInv, HeldAreUsed
  <2>2. n \in Managing(root) BY <2>1 DEF Managing, Lineage, RootOf, Holds
  <2>3. QED BY <1>3, <2>2
<1>13. HeldAreUsed' BY <1>2, <1>7, <1>9, <1>10 DEF KeysInv, HeldAreUsed
<1>14. OnePerLineage' BY <1>9, <1>10, <1>11, <1>12 DEF KeysInv, OnePerLineage
<1>15. OneLive' BY <1>2, <1>7, <1>11 DEF KeysInv, OneLive
<1>16. PositionTells'
  <2> SUFFICES ASSUME NEW n \in Managers, NEW j \in Keys, Holds(n)', Live(j)',
                      key'[j].root = RootOf(n)', RootOf(n)' \notin crossed'
               PROVE  ~AtStep(n, "issue")' /\ (AtStep(n, "retire")' => j = RowOf(n)')
    BY DEF PositionTells
  <2>1. Live(j) /\ key'[j].root = key[j].root BY <1>2, <1>7
  <2>2. CASE n = m
    <3>1. root \notin crossed /\ key[j].root = root BY <1>9, <1>11, <2>1, <2>2
    <3>2. label = "retire" => j = k BY <1>4, <2>1, <3>1 DEF KeysInv, OneLive
    <3>3. QED BY <1>9, <2>2, <3>2
  <2>3. CASE n # m BY <1>10, <1>11, <2>1, <2>3 DEF KeysInv, PositionTells
  <2>4. QED BY <2>2, <2>3
<1>17. EndedIsDead'
  <2>1. \A j \in Keys : Live(j)' => key'[j].root \notin ended' \ crossed'
    BY <1>2, <1>7, <1>11 DEF KeysInv, EndedIsDead
  <2>2. ASSUME NEW n \in Managers, Holds(n)', RootOf(n)' \in ended' \ crossed'
        PROVE  AtStep(n, "revoke")'
    <3>1. CASE n = m
      <4>1. root \in ended \ crossed BY <1>2, <1>9, <1>11, <2>2, <3>1
      <4>2. ~Live(k) BY <1>4, <4>1 DEF KeysInv, EndedIsDead
      <4>3. label = "revoke" BY <4>2
      <4>4. QED BY <1>8, <3>1, <4>3 DEF AtStep
    <3>2. CASE n # m BY <1>2, <1>10, <1>11, <2>2, <3>2 DEF KeysInv, EndedIsDead
    <3>3. QED BY <3>1, <3>2
  <2>3. QED BY <2>1, <2>2 DEF EndedIsDead
<1>18. QED BY <1>5, <1>6, <1>13, <1>14, <1>15, <1>16, <1>17 DEF KeysInv

-----------------------------------------------------------------------------
(* What a revocation changes: a status.                                     *)
LEMMA Revoking ==
    ASSUME KeysInv, NEW r \in Used, key' = [key EXCEPT ![r].status = "REVOKED"]
    PROVE  /\ key' \in [Keys -> KeyRows]
           /\ Used' = Used
           /\ \A k \in Used : /\ key'[k].root = key[k].root /\ key'[k].owner = key[k].owner
                              /\ key'[k].expires = key[k].expires
                              /\ key'[k].scopes = key[k].scopes /\ key'[k].asked = key[k].asked
           /\ \A k \in Keys : Live(k)' <=> Live(k) /\ k # r
           /\ Heritage'
<1>1. r \in Keys /\ key[r] \in Rows BY UsedRow DEF KeysInv
<1>2. key' = [key EXCEPT ![r] = [key[r] EXCEPT !.status = "REVOKED"]] OBVIOUS
<1>3. key \in [Keys -> KeyRows] BY DEF KeysInv, ApiKeysTypeOK
<1>4. key'[r] = [key[r] EXCEPT !.status = "REVOKED"] BY <1>1, <1>2, <1>3
<1>5. \A k \in Keys \ {r} : key'[k] = key[k] BY <1>2, <1>3
<1>6. key'[r] \in Rows BY <1>1, <1>4 DEF Rows
<1>7. key' \in [Keys -> KeyRows]
  <2>1. key'[r] \in KeyRows BY <1>6 DEF Rows, KeyRows
  <2>2. QED BY <1>2, <1>3, <1>5, <2>1
<1>8. key'[r] # NoKey BY <1>6 DEF Rows, NoKey
<1>9. Used' = Used BY <1>1, <1>5, <1>8 DEF Used
<1>10. /\ key'[r].root = key[r].root /\ key'[r].owner = key[r].owner
       /\ key'[r].expires = key[r].expires /\ key'[r].scopes = key[r].scopes
       /\ key'[r].asked = key[r].asked /\ key'[r].status = "REVOKED"
  BY <1>1, <1>4 DEF Rows
<1>11. \A k \in Used : /\ key'[k].root = key[k].root /\ key'[k].owner = key[k].owner
                       /\ key'[k].expires = key[k].expires
                       /\ key'[k].scopes = key[k].scopes /\ key'[k].asked = key[k].asked
  BY <1>5, <1>10 DEF Used
<1>12. \A k \in Keys : Live(k)' <=> Live(k) /\ k # r BY <1>5, <1>9, <1>10 DEF Live
<1>13. Heritage' BY <1>9, <1>11 DEF KeysInv, Heritage
<1>14. QED BY <1>7, <1>9, <1>11, <1>12, <1>13

LEMMA RetireKeeps ==
    ASSUME KeysInv, NEW m \in Managers, Retire(m) PROVE KeysInv'
<1> DEFINE r == RowOf(m)
<1>1. Holds(m) /\ AtStep(m, "retire") BY StepIsHeld DEF Retire
<1>2. r \in Used BY <1>1 DEF KeysInv, HeldAreUsed
<1>3. key' = [key EXCEPT ![r].status = "REVOKED"] BY DEF Retire
<1>4. UNCHANGED <<caller, late, crossed, ended>> BY DEF Retire, keyHistory
<1>5. /\ key' \in [Keys -> KeyRows] /\ Used' = Used /\ Heritage'
      /\ \A k \in Used : key'[k].root = key[k].root /\ key'[k].scopes = key[k].scopes
      /\ \A k \in Keys : Live(k)' <=> Live(k) /\ k # r
  BY <1>2, <1>3, Revoking
<1>6. manager[m] \in Busy BY <1>1, HeldManager DEF KeysInv
<1>7. manager' = [manager EXCEPT ![m] = [manager[m] EXCEPT !.at = "issue"]] BY DEF Retire
<1>8. manager \in [Managers -> {Resting} \cup Busy] BY DEF KeysInv, ApiKeysTypeOK
<1>9. manager'[m] \in Busy /\ manager'[m].row = r /\ manager'[m].at = "issue"
  BY <1>6, <1>7, <1>8 DEF Busy, RowOf
<1>10. \A n \in Managers \ {m} : manager'[n] = manager[n] BY <1>7, <1>8
<1>11. manager' \in [Managers -> {Resting} \cup Busy] BY <1>7, <1>8, <1>9, <1>10
<1>12. ApiKeysTypeOK' BY <1>4, <1>5, <1>11 DEF KeysInv, ApiKeysTypeOK
<1>13. \A n \in Managers : Holds(n)' => Holds(n) /\ RowOf(n)' = RowOf(n)
  BY <1>1, <1>9, <1>10 DEF Holds, RowOf
<1>14. \A n \in Managers : Holds(n)' => RootOf(n)' = RootOf(n)
  BY <1>5, <1>13 DEF RootOf, KeysInv, HeldAreUsed
<1>15. HeldAreUsed' BY <1>4, <1>5, <1>13 DEF KeysInv, HeldAreUsed
<1>16. OnePerLineage' BY <1>4, <1>13, <1>14 DEF KeysInv, OnePerLineage
<1>17. \A j \in Keys : Live(j)' => Live(j) /\ j # r /\ key'[j].root = key[j].root
  BY <1>5 DEF Live
<1>18. OneLive' BY <1>4, <1>17 DEF KeysInv, OneLive
<1>19. PositionTells'
  <2> SUFFICES ASSUME NEW n \in Managers, NEW j \in Keys, Holds(n)', Live(j)',
                      key'[j].root = RootOf(n)', RootOf(n)' \notin crossed'
               PROVE  ~AtStep(n, "issue")' /\ (AtStep(n, "retire")' => j = RowOf(n)')
    BY DEF PositionTells
  <2>1. /\ Holds(n) /\ Live(j) /\ j # r /\ key[j].root = RootOf(n) /\ RootOf(n) \notin crossed
    BY <1>4, <1>13, <1>14, <1>17
  <2>2. n # m BY <1>1, <2>1 DEF KeysInv, PositionTells
  <2>3. \A at : AtStep(n, at)' <=> AtStep(n, at) BY <1>10, <2>2 DEF AtStep
  <2>4. QED BY <1>13, <2>1, <2>3 DEF KeysInv, PositionTells
<1>20. EndedIsDead'
  <2>1. RootOf(m) \notin ended \ crossed BY <1>1 DEF KeysInv, EndedIsDead, AtStep
  <2>2. \A n \in Managers \ {m} : \A at : AtStep(n, at)' <=> AtStep(n, at)
    BY <1>10 DEF AtStep
  <2>3. QED BY <1>4, <1>13, <1>14, <1>17, <2>1, <2>2 DEF KeysInv, EndedIsDead
<1>21. QED BY <1>5, <1>12, <1>15, <1>16, <1>18, <1>19, <1>20 DEF KeysInv

LEMMA RevokeKeeps ==
    ASSUME KeysInv, NEW m \in Managers, Revoke(m) PROVE KeysInv'
<1> DEFINE r == RowOf(m)
           root == key[r].root
<1>1. Holds(m) /\ AtStep(m, "revoke") BY StepIsHeld DEF Revoke
<1>2. r \in Used BY <1>1 DEF KeysInv, HeldAreUsed
<1>3. key' = [key EXCEPT ![r].status = "REVOKED"] BY DEF Revoke
<1>4. UNCHANGED <<caller, late, crossed>> BY DEF Revoke
<1>5. /\ key' \in [Keys -> KeyRows] /\ Used' = Used /\ Heritage'
      /\ \A k \in Used : key'[k].root = key[k].root /\ key'[k].scopes = key[k].scopes
      /\ \A k \in Keys : Live(k)' <=> Live(k) /\ k # r
  BY <1>2, <1>3, Revoking
<1>6. ended' = IF key[r].status = "ACTIVE" THEN ended \cup {root} ELSE ended BY DEF Revoke
<1>7. manager' = [manager EXCEPT ![m] = Resting] BY DEF Revoke, Leave
<1>8. manager \in [Managers -> {Resting} \cup Busy] BY DEF KeysInv, ApiKeysTypeOK
<1>9. root \in Used BY <1>2 DEF KeysInv, Heritage
<1>10. ended' \subseteq Used BY <1>6, <1>9 DEF KeysInv, HeldAreUsed
<1>11. ApiKeysTypeOK' BY <1>4, <1>5, <1>7, <1>8, <1>10 DEF KeysInv, ApiKeysTypeOK, Used
<1>12. \A n \in Managers : Holds(n)' =>
           /\ n # m /\ Holds(n) /\ RowOf(n)' = RowOf(n)
           /\ \A at : AtStep(n, at)' <=> AtStep(n, at)
  BY <1>7, <1>8 DEF Holds, RowOf, AtStep
<1>13. \A n \in Managers : Holds(n)' => RootOf(n)' = RootOf(n)
  BY <1>5, <1>12 DEF RootOf, KeysInv, HeldAreUsed
<1>14. HeldAreUsed' BY <1>4, <1>5, <1>10, <1>12 DEF KeysInv, HeldAreUsed
<1>15. OnePerLineage' BY <1>4, <1>12, <1>13 DEF KeysInv, OnePerLineage
<1>16. \A j \in Keys : Live(j)' => Live(j) /\ j # r /\ key'[j].root = key[j].root
  BY <1>5 DEF Live
<1>17. OneLive' BY <1>4, <1>16 DEF KeysInv, OneLive
<1>18. PositionTells' BY <1>4, <1>12, <1>13, <1>16 DEF KeysInv, PositionTells
<1>19. EndedIsDead'
  <2>1. ASSUME NEW j \in Keys, Live(j)' PROVE key'[j].root \notin ended' \ crossed'
    <3>1. Live(j) /\ j # r /\ key'[j].root = key[j].root BY <1>16, <2>1
    <3>2. key[j].root \notin ended \ crossed BY <3>1 DEF KeysInv, EndedIsDead
    <3>3. key[r].status = "ACTIVE" /\ key[j].root = root => root \in crossed
      BY <1>2, <3>1 DEF KeysInv, OneLive, Live, Used
    <3>4. QED BY <1>4, <1>6, <3>1, <3>2, <3>3
  <2>2. ASSUME NEW n \in Managers, Holds(n)', RootOf(n)' \in ended' \ crossed'
        PROVE  AtStep(n, "revoke")'
    <3>1. n # m /\ Holds(n) /\ RootOf(n)' = RootOf(n) BY <1>12, <1>13, <2>2
    <3>2. RootOf(n) # root
      BY <1>1, <1>4, <2>2, <3>1 DEF KeysInv, OnePerLineage, RootOf
    <3>3. RootOf(n) \in ended \ crossed BY <1>4, <1>6, <2>2, <3>1, <3>2
    <3>4. QED BY <1>12, <2>2, <3>1, <3>3 DEF KeysInv, EndedIsDead
  <2>3. QED BY <2>1, <2>2 DEF EndedIsDead
<1>20. QED BY <1>5, <1>11, <1>14, <1>15, <1>17, <1>18, <1>19 DEF KeysInv

-----------------------------------------------------------------------------
(* A new key, the first of a lineage or a successor: nothing else changes.  *)
LEMMA Issuing ==
    ASSUME KeysInv, NEW k \in Keys, Unused(k), NEW row \in Rows, key' = [key EXCEPT ![k] = row],
           row.root \in Used', row.owner = key'[row.root].owner,
           row.expires = key'[row.root].asked.expires,
           row.scopes = NormalizeScopes(key'[row.root].asked.scopes)
    PROVE  /\ key' \in [Keys -> KeyRows]
           /\ Used' = Used \cup {k} /\ k \notin Used
           /\ \A j \in Keys \ {k} : key'[j] = key[j]
           /\ key'[k] = row
           /\ Heritage'
<1>1. key \in [Keys -> KeyRows] BY DEF KeysInv, ApiKeysTypeOK
<1>2. key'[k] = row /\ \A j \in Keys \ {k} : key'[j] = key[j] BY <1>1
<1>3. row \in KeyRows /\ row # NoKey BY DEF Rows, KeyRows, NoKey
<1>4. key' \in [Keys -> KeyRows] BY <1>1, <1>2, <1>3
<1>5. k \notin Used /\ Used' = Used \cup {k} BY <1>2, <1>3 DEF Used, Unused
<1>6. Heritage'
  <2> SUFFICES ASSUME NEW j \in Used'
               PROVE  LET origin == key'[key'[j].root]
                      IN /\ key'[j].root \in Used'
                         /\ key'[j].owner = origin.owner /\ key'[j].expires = origin.asked.expires
                         /\ key'[j].scopes = NormalizeScopes(origin.asked.scopes)
    BY DEF Heritage
  <2>1. CASE j = k BY <1>2, <2>1
  <2>2. CASE j # k
    <3>1. j \in Used /\ key'[j] = key[j] BY <1>2, <1>5, <2>2 DEF Used
    <3>2. key[j].root \in Used BY <3>1 DEF KeysInv, Heritage
    <3>3. key'[key[j].root] = key[key[j].root] /\ key[j].root \in Used'
      BY <1>2, <1>5, <3>2 DEF Used
    <3>4. QED BY <3>1, <3>3 DEF KeysInv, Heritage
  <2>3. QED BY <2>1, <2>2
<1>7. QED BY <1>2, <1>4, <1>5, <1>6

LEMMA IssueKeyKeeps ==
    ASSUME KeysInv, NEW m \in Managers, NEW o \in Owners, IssueKey(m, o) PROVE KeysInv'
<1>1. PICK k \in Keys, asked \in Asked : Unused(k) /\ key' = [key EXCEPT ![k] = NewKey(k, o, asked)]
  BY DEF IssueKey
<1> DEFINE row == NewKey(k, o, asked)
<1>2. UNCHANGED <<manager, caller, late, crossed, ended>> BY DEF IssueKey, keyHistory
<1>3. row \in Rows BY Normalized DEF NewKey, Rows
<1>4. key'[k] = row BY <1>1 DEF KeysInv, ApiKeysTypeOK
<1>5. row.root = k /\ row # NoKey BY <1>3 DEF NewKey, Rows, NoKey
<1>6. k \in Used' BY <1>4, <1>5 DEF Used
<1>7. /\ row.owner = row.owner /\ row.expires = row.asked.expires
      /\ row.scopes = NormalizeScopes(row.asked.scopes)
  BY DEF NewKey
<1>8. /\ key' \in [Keys -> KeyRows] /\ Used' = Used \cup {k} /\ k \notin Used
      /\ \A j \in Keys \ {k} : key'[j] = key[j]
      /\ Heritage'
  <2>1. key' = [key EXCEPT ![k] = row] BY <1>1
  <2>2. /\ row.root \in Used' /\ row.owner = key'[row.root].owner
        /\ row.expires = key'[row.root].asked.expires
        /\ row.scopes = NormalizeScopes(key'[row.root].asked.scopes)
    BY <1>4, <1>5, <1>6, <1>7
  <2> HIDE DEF row
  <2>3. QED BY <1>1, <1>3, <2>1, <2>2, Issuing
<1>9. \A n \in Managers : Holds(n) => /\ RowOf(n) \in Used /\ RowOf(n)' = RowOf(n)
                                      /\ RootOf(n)' = RootOf(n) /\ RootOf(n) \in Used
  BY <1>2, <1>8 DEF KeysInv, HeldAreUsed, Heritage, RowOf, RootOf, Used
<1>10. /\ \A n \in Managers : Holds(n)' <=> Holds(n)
       /\ \A n \in Managers : \A at : AtStep(n, at)' <=> AtStep(n, at)
  BY <1>2 DEF Holds, AtStep
<1>11. \A j \in Used : /\ key'[j] = key[j] /\ key[j].root \in Used
                       /\ Live(j)' <=> Live(j)
  BY <1>8 DEF KeysInv, Heritage, Used, Live
<1>12. key'[k].root = k BY <1>4, <1>5
<1>13. \A j \in Keys : Live(j)' => j \in Used \cup {k} BY <1>8 DEF Live
<1>14. ApiKeysTypeOK' BY <1>2, <1>8 DEF KeysInv, ApiKeysTypeOK
<1>15. HeldAreUsed' BY <1>2, <1>8, <1>9, <1>10, <1>11 DEF KeysInv, HeldAreUsed
<1>16. OnePerLineage' BY <1>2, <1>9, <1>10 DEF KeysInv, OnePerLineage
<1>17. OneLive' BY <1>2, <1>8, <1>11, <1>12, <1>13 DEF KeysInv, OneLive
<1>18. PositionTells' BY <1>2, <1>8, <1>9, <1>10, <1>11, <1>12, <1>13 DEF KeysInv, PositionTells
<1>19. EndedIsDead'
  <2>1. k \notin ended BY <1>8 DEF KeysInv, HeldAreUsed
  <2>2. QED BY <1>2, <1>9, <1>10, <1>11, <1>12, <1>13, <2>1 DEF KeysInv, EndedIsDead
<1>20. QED BY <1>8, <1>14, <1>15, <1>16, <1>17, <1>18, <1>19 DEF KeysInv

LEMMA IssueSuccessorKeeps ==
    ASSUME KeysInv, NEW m \in Managers, IssueSuccessor(m) PROVE KeysInv'
<1> DEFINE r == RowOf(m)
           root == key[r].root
           row == Successor(key[r])
<1>1. PICK k \in Keys : Unused(k) /\ key' = [key EXCEPT ![k] = row] BY DEF IssueSuccessor
<1>2. UNCHANGED <<caller, late, crossed, ended>> BY DEF IssueSuccessor, keyHistory
<1>3. Holds(m) /\ AtStep(m, "issue") BY StepIsHeld DEF IssueSuccessor
<1>4. r \in Used /\ key[r] \in Rows
  BY <1>3, UsedRow DEF KeysInv, HeldAreUsed
<1>5. /\ row \in Rows /\ row.root = root /\ row.owner = key[r].owner
      /\ row.expires = key[r].expires /\ row.scopes = key[r].scopes
  BY <1>4 DEF Successor, Rows
<1>6. root \in Used /\ root \in Keys BY <1>4 DEF KeysInv, Heritage, Used
<1>7. root # k BY <1>1, <1>6 DEF Unused, Used
<1>8. key'[root] = key[root] /\ root \in Used'
  BY <1>1, <1>6, <1>7 DEF KeysInv, ApiKeysTypeOK, Used
<1>9. /\ row.owner = key'[root].owner /\ row.expires = key'[root].asked.expires
      /\ row.scopes = NormalizeScopes(key'[root].asked.scopes)
  BY <1>4, <1>5, <1>8 DEF KeysInv, Heritage
<1>10. /\ key' \in [Keys -> KeyRows] /\ Used' = Used \cup {k} /\ k \notin Used
       /\ \A j \in Keys \ {k} : key'[j] = key[j]
       /\ key'[k] = row /\ Heritage'
  <2> HIDE DEF row
  <2>1. QED BY <1>1, <1>5, <1>8, <1>9, Issuing
<1>11. manager' = [manager EXCEPT ![m] = Resting] BY DEF IssueSuccessor, Leave
<1>12. manager \in [Managers -> {Resting} \cup Busy] BY DEF KeysInv, ApiKeysTypeOK
<1>13. \A n \in Managers : Holds(n)' =>
           /\ n # m /\ Holds(n) /\ RowOf(n)' = RowOf(n)
           /\ \A at : AtStep(n, at)' <=> AtStep(n, at)
  BY <1>11, <1>12 DEF Holds, RowOf, AtStep
<1>14. \A n \in Managers : Holds(n)' => RowOf(n) \in Used /\ RootOf(n)' = RootOf(n)
  BY <1>10, <1>13 DEF KeysInv, HeldAreUsed, RootOf, Used
<1>15. \A j \in Used : key'[j] = key[j] /\ (Live(j)' <=> Live(j))
  BY <1>10 DEF Used, Live
<1>16. \A j \in Keys : Live(j)' => j \in Used \cup {k} BY <1>10 DEF Live
<1>17. key'[k].root = root BY <1>5, <1>10
<1>18. \A n \in Managers \ {m} : Holds(n) /\ RootOf(n) = root => root \in crossed
  BY <1>3 DEF KeysInv, OnePerLineage, RootOf
<1>19. \A j \in Keys : Live(j) /\ key[j].root = root => root \in crossed
  BY <1>3 DEF KeysInv, PositionTells, RootOf
<1>20. root \notin ended \ crossed
  BY <1>3 DEF KeysInv, EndedIsDead, RootOf, AtStep
<1>21. ApiKeysTypeOK' BY <1>2, <1>10, <1>11, <1>12 DEF KeysInv, ApiKeysTypeOK
<1>22. HeldAreUsed' BY <1>2, <1>10, <1>13, <1>14, <1>15 DEF KeysInv, HeldAreUsed
<1>23. OnePerLineage' BY <1>2, <1>13, <1>14 DEF KeysInv, OnePerLineage
<1>24. OneLive'
  <2> SUFFICES ASSUME NEW i \in Keys, NEW j \in Keys, Live(i)', Live(j)',
                      key'[i].root = key'[j].root, key'[i].root \notin crossed'
               PROVE  i = j
    BY DEF OneLive
  <2>1. CASE i = k /\ j = k BY <2>1
  <2>2. CASE i = k /\ j # k BY <1>2, <1>15, <1>16, <1>17, <1>19, <2>2
  <2>3. CASE i # k /\ j = k BY <1>2, <1>15, <1>16, <1>17, <1>19, <2>3
  <2>4. CASE i # k /\ j # k BY <1>2, <1>15, <1>16, <2>4 DEF KeysInv, OneLive
  <2>5. QED BY <2>1, <2>2, <2>3, <2>4
<1>25. PositionTells'
  <2> SUFFICES ASSUME NEW n \in Managers, NEW j \in Keys, Holds(n)', Live(j)',
                      key'[j].root = RootOf(n)', RootOf(n)' \notin crossed'
               PROVE  ~AtStep(n, "issue")' /\ (AtStep(n, "retire")' => j = RowOf(n)')
    BY DEF PositionTells
  <2>1. /\ n # m /\ Holds(n) /\ RootOf(n)' = RootOf(n) /\ RowOf(n)' = RowOf(n)
        /\ RootOf(n) \notin crossed
    BY <1>2, <1>13, <1>14
  <2>2. j # k BY <1>17, <1>18, <2>1
  <2>3. Live(j) /\ key[j].root = RootOf(n) BY <1>15, <1>16, <2>1, <2>2
  <2>4. QED BY <1>13, <2>1, <2>3 DEF KeysInv, PositionTells
<1>26. EndedIsDead'
  BY <1>2, <1>13, <1>14, <1>15, <1>16, <1>17, <1>20 DEF KeysInv, EndedIsDead
<1>27. QED BY <1>10, <1>21, <1>22, <1>23, <1>24, <1>25, <1>26 DEF KeysInv

-----------------------------------------------------------------------------
(* Calls and the passing of dates change neither keys nor requests.         *)
LEMMA CallKeeps ==
    ASSUME KeysInv, (\E c \in Callers : Authenticate(c) \/ Answer(c)) \/ Expire
    PROVE  KeysInv'
<1>1. UNCHANGED <<key, manager, crossed, ended>> BY DEF Authenticate, Answer, Expire, keyHistory
<1>2. ApiKeysTypeOK' /\ HeldAreUsed'
  <2>1. ASSUME NEW c \in Callers, Authenticate(c) PROVE ApiKeysTypeOK' /\ HeldAreUsed'
    <3>1. PICK k \in Keys : Acceptable(k) /\ caller' = [caller EXCEPT ![c] = k]
      BY <2>1 DEF Authenticate
    <3>2. late' = late BY <2>1 DEF Authenticate
    <3>3. k \in Used /\ ManageWebhooks \in key[k].scopes BY <3>1 DEF Acceptable
    <3>4. Used' = Used BY <1>1 DEF Used
    <3>5. ApiKeysTypeOK' BY <1>1, <3>1, <3>2 DEF KeysInv, ApiKeysTypeOK
    <3>6. HeldAreUsed'
      BY <1>1, <3>1, <3>3, <3>4 DEF KeysInv, ApiKeysTypeOK, HeldAreUsed, Holds, RowOf
    <3>7. QED BY <3>5, <3>6
  <2>2. ASSUME NEW c \in Callers, Answer(c) PROVE ApiKeysTypeOK' /\ HeldAreUsed'
    BY <1>1, <2>2 DEF Answer, KeysInv, ApiKeysTypeOK, HeldAreUsed, Holds, RowOf, Used
  <2>3. CASE Expire
    BY <1>1, <2>3 DEF Expire, KeysInv, ApiKeysTypeOK, HeldAreUsed, Holds, RowOf, Used
  <2>4. QED BY <2>1, <2>2, <2>3
<1>3. QED
  BY <1>1, <1>2 DEF KeysInv, Heritage, OnePerLineage, OneLive, PositionTells, EndedIsDead,
                    Holds, RowOf, RootOf, Live, Used, AtStep

LEMMA KeysStep == KeysInv /\ [ApiKeysNext]_apiKeyVars => KeysInv'
<1> SUFFICES ASSUME KeysInv, [ApiKeysNext]_apiKeyVars PROVE KeysInv'
  OBVIOUS
<1>1. CASE UNCHANGED apiKeyVars
  BY <1>1 DEF apiKeyVars, keyHistory, KeysInv, ApiKeysTypeOK, Heritage, HeldAreUsed,
              OnePerLineage, OneLive, PositionTells, EndedIsDead, Holds, RowOf, RootOf,
              Live, Used, AtStep
<1>2. ASSUME NEW m \in Managers, ManagerStep(m) PROVE KeysInv'
  <2>1. ASSUME NEW o \in Owners, FindToRotate(m, o) PROVE KeysInv'
    BY <2>1, TakeKeeps DEF FindToRotate, Rotatable, Live, Used
  <2>2. ASSUME NEW o \in Owners, FindToRevoke(m, o) PROVE KeysInv'
    BY <2>2, TakeKeeps DEF FindToRevoke
  <2>3. CASE Drop(m) BY <2>3, LeaveKeeps DEF Drop, keyHistory
  <2>4. QED
    BY <1>2, <2>1, <2>2, <2>3, IssueKeyKeeps, RetireKeeps, IssueSuccessorKeeps, RevokeKeeps
       DEF ManagerStep
<1>3. CASE \E c \in Callers : Authenticate(c) \/ Answer(c) BY <1>3, CallKeeps
<1>4. CASE Expire BY <1>4, CallKeeps
<1>5. QED BY <1>1, <1>2, <1>3, <1>4 DEF ApiKeysNext

-----------------------------------------------------------------------------
(* One active key has the cardinality the run checks.                       *)
LEMMA KeysInvIsSound == KeysInv => LineagesAreSound
<1> SUFFICES ASSUME KeysInv PROVE LineagesAreSound OBVIOUS
<1>1. LineageIsSingle
  <2> SUFFICES ASSUME NEW root \in Keys \ crossed
               PROVE  Cardinality({k \in Lineage(root) : key[k].status = "ACTIVE"}) <= 1
    BY DEF LineageIsSingle
  <2> DEFINE S == {k \in Lineage(root) : key[k].status = "ACTIVE"}
  <2>1. \A j, k \in S : j = k BY DEF KeysInv, OneLive, Live, Lineage, Used
  <2>2. CASE S = {}
    <3>1. Cardinality(S) = 0 BY <2>2, FS_EmptySet
    <3>2. QED BY <3>1
  <2>3. CASE S # {}
    <3>1. PICK k \in S : TRUE BY <2>3
    <3>2. S = {k} BY <2>1, <3>1
    <3>3. Cardinality(S) = 1 BY <3>2, FS_Singleton
    <3>4. QED BY <3>3
  <2>4. QED BY <2>2, <2>3
<1>2. RevokedLineageIsDead
  <2> SUFFICES ASSUME NEW root \in ended \ crossed, NEW k \in Lineage(root)
               PROVE  key[k].status = "REVOKED"
    BY DEF RevokedLineageIsDead
  <2>1. k \in Used /\ key[k].root = root BY DEF Lineage
  <2>2. k \in Keys /\ key[k] \in Rows BY <2>1, UsedRow DEF KeysInv
  <2>3. key[k].status # "ACTIVE" BY <2>1, <2>2 DEF KeysInv, EndedIsDead, Live
  <2>4. QED BY <2>2, <2>3 DEF Rows
<1>3. CallersWereGranted
  <2> SUFFICES ASSUME NEW c \in Callers, caller[c] # 0
               PROVE  LET k == key[caller[c]]
                          root == key[k.root]
                      IN /\ ManageWebhooks \in root.asked.scopes \/ ManageWebhooks \in DefaultScopes
                         /\ k.owner = root.owner /\ k.expires = root.asked.expires
    BY DEF CallersWereGranted
  <2>1. caller[c] \in Used /\ ManageWebhooks \in key[caller[c]].scopes
    BY DEF KeysInv, HeldAreUsed
  <2>2. QED BY <2>1 DEF KeysInv, Heritage, NormalizeScopes
<1>4. QED BY <1>1, <1>2, <1>3 DEF LineagesAreSound, KeysInv

(* However rotations, revocations and stops interleave: one active key per  *)
(* lineage, none once it was revoked, and no call beyond what was granted,  *)
(* except where two requests overlapped (api-keys.ts).                      *)
THEOREM LineagesStaySound == ApiKeysSpec => []LineagesAreSound
BY KeysInitInv, KeysStep, KeysInvIsSound, PTL DEF ApiKeysSpec

HIDE ApiKeysAssumption

-----------------------------------------------------------------------------
(***************************************************************************)
(* Contractors and invoices, for any sessions, forms, requests and bounds. *)
(***************************************************************************)
USE WorkforceAssumption

NewRow(row) ==
    /\ row \in ContractorRows /\ row.live /\ row.kyc = "PENDING"
    /\ row.preference = "USDC" => row.wallet \in WellFormed

(* Nobody of those who were there when the email was checked is a twin.     *)
NoTwinOf(row, seen) ==
    /\ seen \in 0 .. Len(contractor)
    /\ \A c \in 1 .. seen : ~ /\ contractor[c].live /\ contractor[c].company = row.company
                              /\ contractor[c].email = row.email

OfContractors == {"write", "verdict", "count", "delete", "add", "insert"}
OfInvoices == {"stamp", "pay", "approve", "approved", "rejected", "rejected quietly", "mail"}
Awaits == OfContractors \cup OfInvoices \cup {"create", "audit"}

(* What is left to do once an audit row is written.                         *)
IsContinuation(id, draft) ==
    /\ draft = [entry |-> draft.entry, next |-> draft.next]
    /\ draft.next \in {"idle", "delete", "mail"}
    /\ draft.entry.subject \in DOMAIN contractor \cup DOMAIN invoice
    /\ draft.next = "delete" => /\ id \in DOMAIN contractor
                                /\ draft.entry = Entry("CONTRACTOR_DELETED", id)
    /\ draft.next = "mail" => id \in DOMAIN invoice /\ draft.entry = Entry("INVOICE_REJECTED", id)

(* A request carries on from what it has read and done.                     *)
IsJob(r) ==
    /\ r = [at |-> r.at, company |-> r.company, id |-> r.id, draft |-> r.draft]
    /\ r.at \in Awaits /\ r.company \in Companies

CarriesOn(r) ==
    /\ r.at \in OfContractors => r.id \in DOMAIN contractor
    /\ r.at \in OfInvoices => r.id \in DOMAIN invoice
    /\ r.at = "create" => NewRow(r.draft.row) /\ NoTwinOf(r.draft.row, r.draft.seen)
    /\ r.at = "write" => /\ r.draft.change \in ProfileChanges /\ r.draft.read \in ContractorRows
                         /\ StaysPayable(r.draft.read, r.draft.change)
    /\ r.at = "verdict" => r.draft \in KycVerdicts
    /\ r.at \in {"add", "insert"} => contractor[r.id].company = r.company
    /\ r.at = "audit" => IsContinuation(r.id, r.draft)
    /\ r.at = "delete" => Entry("CONTRACTOR_DELETED", r.id) \in audit
    /\ r.at = "mail" => Entry("INVOICE_REJECTED", r.id) \in audit

JobsCarryOn == \A j \in Jobs : job[j] # Idle => IsJob(job[j]) /\ CarriesOn(job[j])

SubmittedOnce ==
    /\ submitted \in Seq(DOMAIN invoice) /\ Len(submitted) = Len(invoice)
    /\ \A i \in DOMAIN invoice : \E n \in DOMAIN submitted : submitted[n] = i
    /\ \A m, n \in DOMAIN submitted : submitted[m] = submitted[n] => m = n

WorkforceTypes ==
    /\ contractor \in Seq(ContractorRows) /\ Len(contractor) <= MaxContractors
    /\ invoice \in Seq(InvoiceRows) /\ Len(invoice) <= MaxInvoices
    /\ \A e \in audit \cup unlogged : e.subject \in DOMAIN contractor \cup DOMAIN invoice
    /\ mailed \in SUBSET DOMAIN invoice /\ raced \in SUBSET DOMAIN contractor
    /\ DOMAIN job = Jobs /\ served \in 0 .. MaxJobs
    /\ seenBy \in Seq(Nat) /\ Len(seenBy) = Len(contractor)

RowsInv ==
    /\ WorkforceTypes /\ SubmittedOnce /\ JobsCarryOn
    /\ TwinsWereUnaware /\ UsdcWalletsAreAddresses
    /\ InvoicesHaveContractors /\ AuditIsComplete /\ MailedIsRejected

-----------------------------------------------------------------------------
LEMMA RowParts ==
    ASSUME RowsInv
    PROVE  /\ Len(contractor) \in Nat /\ DOMAIN contractor = 1 .. Len(contractor)
           /\ \A c \in DOMAIN contractor : contractor[c] \in ContractorRows
           /\ Len(invoice) \in Nat /\ DOMAIN invoice = 1 .. Len(invoice)
           /\ \A i \in DOMAIN invoice : invoice[i] \in InvoiceRows
           /\ Len(seenBy) = Len(contractor) /\ DOMAIN seenBy = 1 .. Len(contractor)
           /\ \A c \in DOMAIN contractor : seenBy[c] \in Nat
           /\ DOMAIN job = Jobs
           /\ MaxContractors \in Nat /\ MaxInvoices \in Nat /\ MaxJobs \in Nat
<1>1. /\ contractor \in Seq(ContractorRows) /\ invoice \in Seq(InvoiceRows) /\ seenBy \in Seq(Nat)
      /\ Len(seenBy) = Len(contractor) /\ DOMAIN job = Jobs
    BY DEF RowsInv, WorkforceTypes
<1>2. /\ Len(contractor) \in Nat /\ DOMAIN contractor = 1 .. Len(contractor)
      /\ Len(invoice) \in Nat /\ DOMAIN invoice = 1 .. Len(invoice)
      /\ DOMAIN seenBy = 1 .. Len(contractor)
    BY <1>1
<1>3. \A c \in DOMAIN contractor : contractor[c] \in ContractorRows BY <1>1, <1>2, ElementOfSeq
<1>4. \A i \in DOMAIN invoice : invoice[i] \in InvoiceRows BY <1>1, <1>2, ElementOfSeq
<1>5. \A c \in DOMAIN contractor : seenBy[c] \in Nat BY <1>1, <1>2, ElementOfSeq
<1>6. MaxContractors \in Nat /\ MaxInvoices \in Nat /\ MaxJobs \in Nat OBVIOUS
<1>7. QED BY <1>1, <1>2, <1>3, <1>4, <1>5, <1>6

LEMMA JobParts ==
    ASSUME RowsInv, NEW j \in Jobs, job[j] # Idle
    PROVE  IsJob(job[j]) /\ CarriesOn(job[j])
BY DEF RowsInv, JobsCarryOn

(* A job that is at some await is not idle.                                 *)
LEMMA AwaitsIsNotIdle ==
    ASSUME NEW r, r.at \in Awaits PROVE r # Idle
<1>1. "idle" \notin Awaits BY DEF Awaits, OfContractors, OfInvoices
<1>2. Idle.at = "idle" BY DEF Idle
<1>3. QED BY <1>1, <1>2

(* The four things that happen to a job.                                    *)
LEMMA MovesJob ==
    ASSUME RowsInv, NEW j \in Jobs, job[j] # Idle, NEW label, Move(j, label)
    PROVE  /\ DOMAIN job' = Jobs
           /\ job'[j] = [at |-> label, company |-> job[j].company, id |-> job[j].id,
                         draft |-> job[j].draft]
           /\ \A k \in Jobs : k # j => job'[k] = job[k]
<1>1. DOMAIN job = Jobs BY RowParts
<1>2. /\ job' = [job EXCEPT ![j] = [job[j] EXCEPT !.at = label]]
    BY DEF Move
<1>3. job[j] = [at |-> job[j].at, company |-> job[j].company, id |-> job[j].id, draft |-> job[j].draft]
    BY JobParts DEF IsJob
<1>4. [job[j] EXCEPT !.at = label] = [at |-> label, company |-> job[j].company, id |-> job[j].id,
                                      draft |-> job[j].draft]
    BY <1>3
<1>5. QED BY <1>1, <1>2, <1>4

LEMMA EndsJob ==
    ASSUME RowsInv, NEW j \in Jobs, End(j)
    PROVE  /\ DOMAIN job' = Jobs /\ job'[j] = Idle
           /\ \A k \in Jobs : k # j => job'[k] = job[k]
BY RowParts DEF End

LEMMA ServesJob ==
    ASSUME RowsInv, NEW j \in Jobs, Free(j), NEW label, NEW u \in Sessions, NEW id, NEW draft,
           Serve(j, label, u, id, draft)
    PROVE  /\ DOMAIN job' = Jobs /\ served' \in 0 .. MaxJobs
           /\ job'[j] = [at |-> label, company |-> u.company, id |-> id, draft |-> draft]
           /\ \A k \in Jobs : k # j => job'[k] = job[k]
           /\ u.company \in Companies /\ job[j] = Idle
<1>1. DOMAIN job = Jobs /\ MaxJobs \in Nat /\ served \in 0 .. MaxJobs
    BY RowParts DEF RowsInv, WorkforceTypes
<1>2. served < MaxJobs /\ served' = served + 1 /\ job[j] = Idle BY DEF Free, Serve
<1>3. served' \in 0 .. MaxJobs BY <1>1, <1>2
<1>4. job' = [job EXCEPT ![j] = [at |-> label, company |-> u.company, id |-> id, draft |-> draft]]
    BY DEF Serve
<1>5. QED BY <1>1, <1>2, <1>3, <1>4

LEMMA AuditsJob ==
    ASSUME RowsInv, NEW j \in Jobs, NEW id, NEW entry, NEW next, ThenAudit(j, id, entry, next)
    PROVE  /\ DOMAIN job' = Jobs
           /\ job'[j] = [at |-> "audit", company |-> job[j].company, id |-> id,
                         draft |-> [entry |-> entry, next |-> next]]
           /\ \A k \in Jobs : k # j => job'[k] = job[k]
BY RowParts DEF ThenAudit

-----------------------------------------------------------------------------
(* What stays true whatever one request does.                               *)
RowsGrow ==
    /\ Len(contractor') \in Nat /\ Len(contractor) <= Len(contractor')
    /\ DOMAIN contractor \subseteq DOMAIN contractor' /\ DOMAIN invoice \subseteq DOMAIN invoice'
    /\ audit \subseteq audit'
    /\ \A c \in DOMAIN contractor :
           /\ contractor'[c].company = contractor[c].company /\ contractor'[c].email = contractor[c].email
           /\ contractor'[c].live => contractor[c].live

(* The others stay where they are, and no audit row that was due is lost.   *)
OnlyJob(j) ==
    /\ DOMAIN job' = Jobs /\ \A k \in Jobs : k # j => job'[k] = job[k]
    /\ unlogged \subseteq unlogged'
    /\ job[j].at = "audit" => job[j].draft.entry \in audit' \cup unlogged'

LEMMA CarriesOnStays ==
    ASSUME RowsInv, RowsGrow, NEW r, CarriesOn(r) PROVE CarriesOn(r)'
<1>1. ASSUME NEW row, NEW seen, NoTwinOf(row, seen) PROVE NoTwinOf(row, seen)'
  <2>1. /\ Len(contractor) \in Nat /\ DOMAIN contractor = 1 .. Len(contractor)
        /\ seen \in 0 .. Len(contractor)
        /\ Len(contractor') \in Nat /\ Len(contractor) <= Len(contractor')
      BY <1>1, RowParts DEF NoTwinOf, RowsGrow
  <2>2. \A c \in 1 .. seen : c \in DOMAIN contractor BY <2>1
  <2>3. seen \in 0 .. Len(contractor') BY <2>1
  <2>4. QED BY <1>1, <2>2, <2>3 DEF NoTwinOf, RowsGrow
<1>2. ASSUME NEW id, NEW draft, IsContinuation(id, draft) PROVE IsContinuation(id, draft)'
    BY <1>2 DEF IsContinuation, RowsGrow
<1>3. /\ r.at \in OfContractors => r.id \in DOMAIN contractor'
      /\ r.at \in OfInvoices => r.id \in DOMAIN invoice'
      /\ r.at = "delete" => Entry("CONTRACTOR_DELETED", r.id) \in audit'
      /\ r.at = "mail" => Entry("INVOICE_REJECTED", r.id) \in audit'
    BY DEF CarriesOn, RowsGrow
<1>4. r.at \in {"add", "insert"} => contractor'[r.id].company = r.company
  <2>1. r.at \in {"add", "insert"} => r.at \in OfContractors BY DEF OfContractors
  <2>2. QED BY <2>1 DEF CarriesOn, RowsGrow
<1>5. r.at = "create" => NewRow(r.draft.row) /\ NoTwinOf(r.draft.row, r.draft.seen)'
    BY <1>1 DEF CarriesOn
<1>6. r.at = "audit" => IsContinuation(r.id, r.draft)'
    BY <1>2 DEF CarriesOn
<1>7. /\ r.at = "write" => /\ r.draft.change \in ProfileChanges /\ r.draft.read \in ContractorRows
                           /\ StaysPayable(r.draft.read, r.draft.change)
      /\ r.at = "verdict" => r.draft \in KycVerdicts
    BY DEF CarriesOn
<1>8. QED BY <1>3, <1>4, <1>5, <1>6, <1>7 DEF CarriesOn

LEMMA JobsKeep ==
    ASSUME RowsInv, NEW j \in Jobs, OnlyJob(j), RowsGrow,
           job'[j] # Idle => \A r : r = job'[j] => IsJob(r) /\ CarriesOn(r)'
    PROVE  JobsCarryOn'
<1> SUFFICES ASSUME NEW k \in Jobs, job'[k] # Idle PROVE (IsJob(job[k]) /\ CarriesOn(job[k]))'
    BY DEF JobsCarryOn
<1>1. PICK r : r = job'[k] OBVIOUS
<1>2. IsJob(r) /\ CarriesOn(r)'
  <2>1. CASE k = j BY <1>1, <2>1
  <2>2. CASE k # j
    <3>1. r = job[k] BY <1>1, <2>2 DEF OnlyJob
    <3>2. IsJob(r) /\ CarriesOn(r) BY <1>1, <3>1, JobParts
    <3>3. QED BY <3>2, CarriesOnStays
  <2>3. QED BY <2>1, <2>2
<1>3. QED BY <1>1, <1>2 DEF IsJob, CarriesOn, IsContinuation, NoTwinOf

(* No audit row that was written, was due, or was given up is forgotten.    *)
LEMMA LoggedStays ==
    ASSUME RowsInv, NEW j \in Jobs, OnlyJob(j), RowsGrow, NEW e, Logged(e)
    PROVE  Logged(e)'
<1>1. CASE e \in audit \cup unlogged BY <1>1 DEF Logged, OnlyJob, RowsGrow
<1>2. ASSUME NEW k \in Jobs, Waits(k, "audit"), job[k].draft.entry = e PROVE Logged(e)'
  <2>1. CASE k = j BY <1>2, <2>1 DEF Logged, OnlyJob, Waits
  <2>2. CASE k # j BY <1>2, <2>2 DEF Logged, OnlyJob, Waits
  <2>3. QED BY <2>1, <2>2
<1>3. QED BY <1>1, <1>2 DEF Logged

(* Steps that leave the rows alone.                                         *)
LEMMA JobOnlyKeeps ==
    ASSUME RowsInv, NEW j \in Jobs, OnlyJob(j),
           UNCHANGED <<contractor, invoice, submitted, mailed, seenBy, raced>>,
           served' \in 0 .. MaxJobs, audit \subseteq audit',
           \A e \in audit' \cup unlogged' :
               e \in audit \cup unlogged \/ (job[j].at = "audit" /\ e = job[j].draft.entry),
           job'[j] # Idle => \A r : r = job'[j] => IsJob(r) /\ CarriesOn(r)'
    PROVE  RowsInv'
<1>1. RowsGrow BY RowParts DEF RowsGrow
<1>2. JobsCarryOn' BY <1>1, JobsKeep
<1>3. \A e \in audit' \cup unlogged' : e.subject \in DOMAIN contractor \cup DOMAIN invoice
  <2> SUFFICES ASSUME NEW e \in audit' \cup unlogged'
               PROVE  e.subject \in DOMAIN contractor \cup DOMAIN invoice
      OBVIOUS
  <2>1. CASE e \in audit \cup unlogged BY <2>1 DEF RowsInv, WorkforceTypes
  <2>2. CASE job[j].at = "audit" /\ e = job[j].draft.entry
    <3>1. "audit" \in Awaits BY DEF Awaits
    <3>2. CarriesOn(job[j]) BY <2>2, <3>1, AwaitsIsNotIdle, JobParts
    <3>3. QED BY <2>2, <3>2 DEF CarriesOn, IsContinuation
  <2>3. QED BY <2>1, <2>2
<1>4. WorkforceTypes' BY <1>3 DEF RowsInv, WorkforceTypes, OnlyJob
<1>5. SubmittedOnce' BY DEF RowsInv, SubmittedOnce
<1>6. /\ TwinsWereUnaware' /\ UsdcWalletsAreAddresses' /\ InvoicesHaveContractors'
    BY DEF RowsInv, TwinsWereUnaware, UsdcWalletsAreAddresses, InvoicesHaveContractors,
           FoundContractor, FoundRow
<1>7. MailedIsRejected' BY DEF RowsInv, MailedIsRejected
<1>8. AuditIsComplete'
  <2>1. \A e : Logged(e) => Logged(e)' BY <1>1, LoggedStays
  <2>2. QED BY <2>1 DEF RowsInv, AuditIsComplete
<1>9. QED BY <1>2, <1>4, <1>5, <1>6, <1>7, <1>8 DEF RowsInv

(* A request is taken up, or moves on, without writing.                     *)
LEMMA ReadKeeps ==
    ASSUME RowsInv, NEW j \in Jobs, UNCHANGED <<workforceTables, workforceHistory>>,
           served' \in 0 .. MaxJobs, DOMAIN job' = Jobs,
           \A k \in Jobs : k # j => job'[k] = job[k], job[j].at # "audit",
           NEW row, job'[j] = row, row.at \in Awaits, row.company \in Companies, CarriesOn(row),
           row = [at |-> row.at, company |-> row.company, id |-> row.id, draft |-> row.draft]
    PROVE  RowsInv'
<1>1. UNCHANGED <<contractor, invoice, submitted, audit, mailed, seenBy, raced, unlogged>>
    BY DEF workforceTables, workforceHistory
<1>2. OnlyJob(j) BY <1>1 DEF OnlyJob
<1>3. RowsGrow BY <1>1, RowParts DEF RowsGrow
<1>4. IsJob(row) /\ CarriesOn(row)' BY <1>3, CarriesOnStays DEF IsJob
<1>5. ASSUME NEW r, r = job'[j] PROVE IsJob(r) /\ CarriesOn(r)'
  <2>1. r = row BY <1>5
  <2>2. QED BY <1>4, <2>1
<1>6. QED BY <1>1, <1>2, <1>5, JobOnlyKeeps

LEMMA ServeKeeps ==
    ASSUME RowsInv, NEW j \in Jobs, Free(j), NEW u \in Sessions,
           UNCHANGED <<workforceTables, workforceHistory>>,
           NEW label \in Awaits, NEW id, NEW draft, Serve(j, label, u, id, draft),
           CarriesOn([at |-> label, company |-> u.company, id |-> id, draft |-> draft])
    PROVE  RowsInv'
<1> DEFINE row == [at |-> label, company |-> u.company, id |-> id, draft |-> draft]
<1>1. /\ DOMAIN job' = Jobs /\ served' \in 0 .. MaxJobs /\ job'[j] = row
      /\ \A k \in Jobs : k # j => job'[k] = job[k]
      /\ u.company \in Companies /\ job[j] = Idle
    BY ServesJob
<1>2. job[j].at # "audit" BY <1>1 DEF Idle
<1>3. /\ row.at = label /\ row.company = u.company /\ CarriesOn(row)
      /\ row = [at |-> row.at, company |-> row.company, id |-> row.id, draft |-> row.draft]
    OBVIOUS
<1> HIDE DEF row
<1>4. QED BY <1>1, <1>2, <1>3, ReadKeeps

LEMMA ReadProfileKeeps ==
    ASSUME RowsInv, NEW j \in Jobs, NEW u \in Sessions, Free(j), ReadProfile(j, u) PROVE RowsInv'
<1>1. PICK c \in DOMAIN contractor, change \in ProfileChanges :
          /\ StaysPayable(contractor[c], change)
          /\ Serve(j, "write", u, c, [change |-> change, read |-> contractor[c]])
          /\ UNCHANGED <<workforceTables, workforceHistory>>
    BY DEF ReadProfile
<1>2. contractor[c] \in ContractorRows BY RowParts
<1>3. "write" \in Awaits BY DEF Awaits, OfContractors
<1> DEFINE row == [at |-> "write", company |-> u.company, id |-> c,
                   draft |-> [change |-> change, read |-> contractor[c]]]
<1>4. CarriesOn(row)
    BY <1>1, <1>2 DEF CarriesOn, OfContractors, OfInvoices
<1>5. QED BY <1>1, <1>3, <1>4, ServeKeeps

LEMMA OnboardKeeps ==
    ASSUME RowsInv, NEW j \in Jobs, NEW u \in Sessions, Free(j), Onboard(j, u) PROVE RowsInv'
<1>1. PICK form \in OnboardingForms :
          /\ ValidOnboarding(form) /\ TwinsOf(u.company, form.email) = {}
          /\ Serve(j, "create", u, 0, [seen |-> Len(contractor),
                 row |-> [company |-> u.company, email |-> Normal[form.email],
                          preference |-> form.preference, wallet |-> form.wallet,
                          kyc |-> "PENDING", live |-> TRUE]])
          /\ UNCHANGED <<workforceTables, workforceHistory>>
    BY DEF Onboard
<1> DEFINE new == [company |-> u.company, email |-> Normal[form.email],
                   preference |-> form.preference, wallet |-> form.wallet,
                   kyc |-> "PENDING", live |-> TRUE]
           row == [at |-> "create", company |-> u.company, id |-> 0,
                   draft |-> [seen |-> Len(contractor), row |-> new]]
<1>2. new \in ContractorRows
  <2>1. u.company \in Companies /\ Normal[form.email] \in Emails
        /\ form.preference \in Preferences /\ form.wallet \in WalletInputs
      BY DEF OnboardingForms
  <2>2. QED BY <2>1 DEF ContractorRows
<1>3. NewRow(new) BY <1>1, <1>2 DEF NewRow, ValidOnboarding
<1>4. NoTwinOf(new, Len(contractor))
    BY <1>1, RowParts DEF NoTwinOf, TwinsOf
<1>5. "create" \in Awaits /\ "create" \notin OfContractors \cup OfInvoices
    BY DEF Awaits, OfContractors, OfInvoices
<1>6. row.at = "create" /\ row.draft.row = new /\ row.draft.seen = Len(contractor) OBVIOUS
<1> HIDE DEF new
<1>7. CarriesOn(row) BY <1>3, <1>4, <1>5, <1>6 DEF CarriesOn
<1>8. QED BY <1>1, <1>5, <1>7, ServeKeeps DEF new

LEMMA ServeInvoiceKeeps ==
    ASSUME RowsInv, NEW j \in Jobs, Free(j), NEW u \in Sessions,
           UNCHANGED <<workforceTables, workforceHistory>>,
           NEW label \in OfInvoices \ {"mail"}, NEW i \in DOMAIN invoice,
           Serve(j, label, u, i, "none")
    PROVE  RowsInv'
<1> DEFINE row == [at |-> label, company |-> u.company, id |-> i, draft |-> "none"]
<1>1. row.at = label /\ row.id = i OBVIOUS
<1>2. label \in Awaits /\ label \notin OfContractors \cup {"create", "audit"}
    BY DEF Awaits, OfContractors, OfInvoices
<1>3. label \notin {"write", "verdict", "add", "insert", "delete", "mail"}
    BY <1>2 DEF OfContractors
<1>4. CarriesOn(row) BY <1>1, <1>2, <1>3 DEF CarriesOn
<1>5. QED BY <1>2, <1>4, ServeKeeps

LEMMA InvoiceStepKeeps ==
    ASSUME RowsInv, NEW j \in Jobs, NEW u \in Sessions, Free(j), InvoiceStep(j, u) PROVE RowsInv'
<1>1. CASE SubmitInvoice(j, u)
  <2>1. PICK c \in DOMAIN contractor :
            /\ FoundContractor(c, u.company) /\ Serve(j, "add", u, c, "none")
            /\ UNCHANGED <<workforceTables, workforceHistory>>
      BY <1>1 DEF SubmitInvoice
  <2>2. "add" \in Awaits /\ "add" \notin OfInvoices BY DEF Awaits, OfContractors, OfInvoices
  <2>3. CarriesOn([at |-> "add", company |-> u.company, id |-> c, draft |-> "none"])
      BY <2>1, <2>2 DEF CarriesOn, FoundContractor, FoundRow
  <2>4. QED BY <2>1, <2>2, <2>3, ServeKeeps
<1>2. CASE ReadOldest(j, u)
  <2>1. PICK i \in OldestPending(u.company) :
            Serve(j, "stamp", u, i, "none") /\ UNCHANGED <<workforceTables, workforceHistory>>
      BY <1>2 DEF ReadOldest
  <2>2. i \in DOMAIN invoice
    <3>1. PICK n \in DOMAIN submitted : i = submitted[n] BY DEF OldestPending
    <3>2. submitted \in Seq(DOMAIN invoice) BY DEF RowsInv, SubmittedOnce
    <3>3. QED BY <3>1, <3>2, ElementOfSeq
  <2>3. "stamp" \in OfInvoices \ {"mail"} BY DEF OfInvoices
  <2>4. QED BY <2>1, <2>2, <2>3, ServeInvoiceKeeps
<1>3. CASE ApproveById(j, u)
  <2>1. PICK i \in DOMAIN invoice :
            /\ Serve(j, "pay", u, i, "none") \/ Serve(j, "approve", u, i, "none")
            /\ UNCHANGED <<workforceTables, workforceHistory>>
      BY <1>3 DEF ApproveById
  <2>2. {"pay", "approve"} \subseteq OfInvoices \ {"mail"} BY DEF OfInvoices
  <2>3. QED BY <2>1, <2>2, ServeInvoiceKeeps
<1>4. CASE ApproveByBody(j, u) \/ ExecuteById(j, u)
  <2>1. PICK i \in DOMAIN invoice :
            Serve(j, "pay", u, i, "none") /\ UNCHANGED <<workforceTables, workforceHistory>>
      BY <1>4 DEF ApproveByBody, ExecuteById
  <2>2. "pay" \in OfInvoices \ {"mail"} BY DEF OfInvoices
  <2>3. QED BY <2>1, <2>2, ServeInvoiceKeeps
<1>5. CASE RejectById(j, u) \/ RejectByBody(j, u)
  <2>1. PICK label \in {"rejected", "rejected quietly"} : ReadToReject(j, u, label)
      BY <1>5 DEF RejectById, RejectByBody
  <2>2. PICK i \in DOMAIN invoice :
            Serve(j, label, u, i, "none") /\ UNCHANGED <<workforceTables, workforceHistory>>
      BY <2>1 DEF ReadToReject
  <2>3. label \in OfInvoices \ {"mail"} BY DEF OfInvoices
  <2>4. QED BY <2>2, <2>3, ServeInvoiceKeeps
<1>6. QED BY <1>1, <1>2, <1>3, <1>4, <1>5 DEF InvoiceStep

LEMMA ContractorStepKeeps ==
    ASSUME RowsInv, NEW j \in Jobs, NEW u \in Sessions, Free(j), ContractorStep(j, u) PROVE RowsInv'
<1>1. CASE ReadForKyc(j, u)
  <2>1. PICK c \in DOMAIN contractor, verdict \in KycVerdicts :
            /\ Serve(j, "verdict", u, c, verdict) /\ UNCHANGED <<workforceTables, workforceHistory>>
      BY <1>1 DEF ReadForKyc
  <2>2. "verdict" \in Awaits /\ "verdict" \notin OfInvoices BY DEF Awaits, OfContractors, OfInvoices
  <2>3. CarriesOn([at |-> "verdict", company |-> u.company, id |-> c, draft |-> verdict])
      BY <2>2 DEF CarriesOn
  <2>4. QED BY <2>1, <2>2, <2>3, ServeKeeps
<1>2. CASE ReadForDelete(j, u)
  <2>1. PICK c \in DOMAIN contractor :
            /\ Serve(j, "count", u, c, "none") /\ UNCHANGED <<workforceTables, workforceHistory>>
      BY <1>2 DEF ReadForDelete
  <2>2. "count" \in Awaits /\ "count" \notin OfInvoices BY DEF Awaits, OfContractors, OfInvoices
  <2>3. CarriesOn([at |-> "count", company |-> u.company, id |-> c, draft |-> "none"])
      BY <2>2 DEF CarriesOn
  <2>4. QED BY <2>1, <2>2, <2>3, ServeKeeps
<1>3. QED BY <1>1, <1>2, OnboardKeeps, ReadProfileKeeps DEF ContractorStep

-----------------------------------------------------------------------------
(* A request moves on, writes its audit row, or stops.                      *)
LEMMA WaitsIs ==
    ASSUME RowsInv, NEW j \in Jobs, NEW label \in Awaits, Waits(j, label)
    PROVE  job[j].at = label /\ job[j] # Idle /\ IsJob(job[j]) /\ CarriesOn(job[j])
BY AwaitsIsNotIdle, JobParts DEF Waits

LEMMA LookAgainKeeps ==
    ASSUME RowsInv, NEW j \in Jobs, LookAgain(j) PROVE RowsInv'
<1>1. "add" \in Awaits /\ "insert" \in Awaits /\ "insert" \notin OfInvoices /\ "add" \in OfContractors
    BY DEF Awaits, OfContractors, OfInvoices
<1>2. /\ job[j].at = "add" /\ job[j] # Idle /\ IsJob(job[j]) /\ CarriesOn(job[j])
      /\ Move(j, "insert")
      /\ UNCHANGED <<workforceTables, served, workforceHistory>>
    BY <1>1, WaitsIs DEF LookAgain
<1> DEFINE row == [at |-> "insert", company |-> job[j].company, id |-> job[j].id, draft |-> job[j].draft]
<1>3. /\ DOMAIN job' = Jobs /\ job'[j] = row /\ \A k \in Jobs : k # j => job'[k] = job[k]
    BY <1>2, MovesJob
<1>4. CarriesOn(row) BY <1>1, <1>2 DEF CarriesOn
<1>5. row.company \in Companies /\ row.at = "insert"
      /\ row = [at |-> row.at, company |-> row.company, id |-> row.id, draft |-> row.draft]
    BY <1>2 DEF IsJob
<1>6. served' \in 0 .. MaxJobs BY <1>2 DEF RowsInv, WorkforceTypes
<1> HIDE DEF row
<1>7. QED BY <1>1, <1>2, <1>3, <1>4, <1>5, <1>6, ReadKeeps

LEMMA ReadToApproveKeeps ==
    ASSUME RowsInv, NEW j \in Jobs, ReadToApprove(j) PROVE RowsInv'
<1>1. /\ "approve" \in Awaits /\ "approved" \in Awaits /\ "approved" \notin OfContractors
      /\ "approve" \in OfInvoices
    BY DEF Awaits, OfContractors, OfInvoices
<1>2. /\ job[j].at = "approve" /\ job[j] # Idle /\ IsJob(job[j]) /\ CarriesOn(job[j])
      /\ Move(j, "approved")
      /\ UNCHANGED <<workforceTables, served, workforceHistory>>
    BY <1>1, WaitsIs DEF ReadToApprove
<1> DEFINE row == [at |-> "approved", company |-> job[j].company, id |-> job[j].id, draft |-> job[j].draft]
<1>3. /\ DOMAIN job' = Jobs /\ job'[j] = row /\ \A k \in Jobs : k # j => job'[k] = job[k]
    BY <1>2, MovesJob
<1>4. CarriesOn(row) BY <1>1, <1>2 DEF CarriesOn
<1>5. row.company \in Companies /\ row.at = "approved"
      /\ row = [at |-> row.at, company |-> row.company, id |-> row.id, draft |-> row.draft]
    BY <1>2 DEF IsJob
<1>6. served' \in 0 .. MaxJobs BY <1>2 DEF RowsInv, WorkforceTypes
<1> HIDE DEF row
<1>7. QED BY <1>1, <1>2, <1>3, <1>4, <1>5, <1>6, ReadKeeps

(* Its open invoices are counted: the audit row comes before the deletion.  *)
LEMMA CountOpenKeeps ==
    ASSUME RowsInv, NEW j \in Jobs, CountOpen(j) PROVE RowsInv'
<1> DEFINE entry == Entry("CONTRACTOR_DELETED", job[j].id)
           draft == [entry |-> entry, next |-> "delete"]
           row == [at |-> "audit", company |-> job[j].company, id |-> job[j].id, draft |-> draft]
<1>1. "count" \in Awaits /\ "count" \in OfContractors /\ "audit" \in Awaits
      /\ "audit" \notin OfContractors \cup OfInvoices
    BY DEF Awaits, OfContractors, OfInvoices
<1>2. /\ job[j].at = "count" /\ IsJob(job[j]) /\ CarriesOn(job[j])
      /\ ThenAudit(j, job[j].id, entry, "delete")
      /\ UNCHANGED <<workforceTables, served, workforceHistory>>
    BY <1>1, WaitsIs DEF CountOpen
<1>3. /\ DOMAIN job' = Jobs /\ job'[j] = row /\ \A k \in Jobs : k # j => job'[k] = job[k]
    BY <1>2, AuditsJob
<1>4. job[j].id \in DOMAIN contractor BY <1>1, <1>2 DEF CarriesOn
<1>5. entry.subject = job[j].id BY DEF Entry
<1>6. IsContinuation(job[j].id, draft) BY <1>4, <1>5 DEF IsContinuation
<1>7. CarriesOn(row)
  <2>1. row.at = "audit" /\ row.id = job[j].id /\ row.draft = draft OBVIOUS
  <2> HIDE DEF row, draft
  <2>2. QED BY <1>1, <1>6, <2>1 DEF CarriesOn
<1>8. row.company \in Companies /\ row.at = "audit"
      /\ row = [at |-> row.at, company |-> row.company, id |-> row.id, draft |-> row.draft]
    BY <1>2 DEF IsJob
<1>9. served' \in 0 .. MaxJobs BY <1>2 DEF RowsInv, WorkforceTypes
<1> HIDE DEF row
<1>10. QED BY <1>1, <1>2, <1>3, <1>7, <1>8, <1>9, ReadKeeps

LEMMA StopKeeps ==
    ASSUME RowsInv, NEW j \in Jobs, Stop(j) PROVE RowsInv'
<1>1. /\ UNCHANGED <<contractor, invoice, submitted, audit, mailed, served, seenBy, raced>>
      /\ End(j)
      /\ unlogged' = IF job[j].at = "audit" THEN unlogged \cup {job[j].draft.entry} ELSE unlogged
    BY DEF Stop, workforceTables, Waits
<1>2. DOMAIN job' = Jobs /\ job'[j] = Idle /\ \A k \in Jobs : k # j => job'[k] = job[k]
    BY <1>1, EndsJob
<1>3. OnlyJob(j) BY <1>1, <1>2 DEF OnlyJob
<1>4. served' \in 0 .. MaxJobs BY <1>1 DEF RowsInv, WorkforceTypes
<1>5. QED BY <1>1, <1>2, <1>3, <1>4, JobOnlyKeeps

LEMMA WriteAuditKeeps ==
    ASSUME RowsInv, NEW j \in Jobs, WriteAudit(j) PROVE RowsInv'
<1>1. "audit" \in Awaits BY DEF Awaits
<1>2. /\ job[j].at = "audit" /\ job[j] # Idle /\ IsJob(job[j]) /\ CarriesOn(job[j])
      /\ audit' = audit \cup {job[j].draft.entry}
      /\ IF job[j].draft.next = "idle" THEN End(j) ELSE Move(j, job[j].draft.next)
      /\ UNCHANGED <<contractor, invoice, submitted, mailed, served, seenBy, raced, unlogged>>
    BY <1>1, WaitsIs DEF WriteAudit, Logs, workforceHistory
<1>3. IsContinuation(job[j].id, job[j].draft) BY <1>2 DEF CarriesOn
<1>4. DOMAIN job' = Jobs /\ \A k \in Jobs : k # j => job'[k] = job[k]
    BY <1>2, MovesJob, EndsJob
<1>5. OnlyJob(j) BY <1>2, <1>4 DEF OnlyJob
<1>6. ASSUME NEW r, r = job'[j], job'[j] # Idle PROVE IsJob(r) /\ CarriesOn(r)'
  <2>1. job[j].draft.next # "idle" /\ Move(j, job[j].draft.next) BY <1>2, <1>6, EndsJob
  <2>2. r = [at |-> job[j].draft.next, company |-> job[j].company, id |-> job[j].id,
             draft |-> job[j].draft]
      BY <1>2, <1>6, <2>1, MovesJob
  <2>3. r.at = job[j].draft.next /\ r.id = job[j].id /\ r.company \in Companies
        /\ r = [at |-> r.at, company |-> r.company, id |-> r.id, draft |-> r.draft]
      BY <1>2, <2>2 DEF IsJob
  <2>4. CASE r.at = "delete"
    <3>1. r.id \in DOMAIN contractor' /\ Entry("CONTRACTOR_DELETED", r.id) \in audit'
        BY <1>2, <1>3, <2>3, <2>4 DEF IsContinuation
    <3>2. "delete" \in Awaits /\ "delete" \notin OfInvoices BY DEF Awaits, OfContractors, OfInvoices
    <3>3. QED BY <2>3, <2>4, <3>1, <3>2 DEF IsJob, CarriesOn
  <2>5. CASE r.at = "mail"
    <3>1. r.id \in DOMAIN invoice' /\ Entry("INVOICE_REJECTED", r.id) \in audit'
        BY <1>2, <1>3, <2>3, <2>5 DEF IsContinuation
    <3>2. "mail" \in Awaits /\ "mail" \notin OfContractors BY DEF Awaits, OfContractors, OfInvoices
    <3>3. QED BY <2>3, <2>5, <3>1, <3>2 DEF IsJob, CarriesOn
  <2>6. r.at \in {"delete", "mail"} BY <1>3, <2>1, <2>3 DEF IsContinuation
  <2>7. QED BY <2>4, <2>5, <2>6
<1>7. served' \in 0 .. MaxJobs BY <1>2 DEF RowsInv, WorkforceTypes
<1>8. \A e \in audit' \cup unlogged' :
          e \in audit \cup unlogged \/ (job[j].at = "audit" /\ e = job[j].draft.entry)
    BY <1>2
<1>9. QED BY <1>2, <1>5, <1>6, <1>7, <1>8, JobOnlyKeeps
-----------------------------------------------------------------------------
(* One contractor's row is written, and the request ends or goes on to its  *)
(* audit row.                                                               *)
LEMMA RewriteKeeps ==
    ASSUME RowsInv, NEW j \in Jobs, OnlyJob(j), NEW c \in DOMAIN contractor, NEW row \in ContractorRows,
           contractor' = [contractor EXCEPT ![c] = row],
           UNCHANGED <<invoice, submitted, audit, mailed, served, seenBy, unlogged>>,
           raced \subseteq raced', raced' \subseteq DOMAIN contractor,
           row.company = contractor[c].company, row.email = contractor[c].email,
           row.live => contractor[c].live,
           c \notin raced' /\ row.preference = "USDC" => row.wallet \in WellFormed \cup {NoWallet},
           \A e : row.kyc # "PENDING" /\ e = KycEntry(c, row.kyc) => Logged(e)',
           ~row.live => Entry("CONTRACTOR_DELETED", c) \in audit /\ InvoicesOf(c) = {},
           RowsGrow /\ job'[j] # Idle => \A r : r = job'[j] => IsJob(r) /\ CarriesOn(r)'
    PROVE  RowsInv'
<1>1. /\ Len(contractor) \in Nat /\ DOMAIN contractor = 1 .. Len(contractor)
      /\ contractor \in Seq(ContractorRows) /\ Len(contractor) <= MaxContractors
    BY RowParts DEF RowsInv, WorkforceTypes
<1>2. /\ contractor' \in Seq(ContractorRows) /\ Len(contractor') = Len(contractor)
      /\ DOMAIN contractor' = DOMAIN contractor
    BY <1>1, ExceptSeq
<1>3. /\ contractor'[c] = row
      /\ \A d \in DOMAIN contractor : d # c => contractor'[d] = contractor[d]
    BY <1>1
<1>4. RowsGrow BY <1>1, <1>2, <1>3 DEF RowsGrow
<1>5. JobsCarryOn' BY <1>4, JobsKeep
<1>6. WorkforceTypes' BY <1>1, <1>2 DEF RowsInv, WorkforceTypes, OnlyJob
<1>7. SubmittedOnce' BY DEF RowsInv, SubmittedOnce
<1>8. TwinsWereUnaware' BY <1>2, <1>3, <1>4 DEF RowsInv, TwinsWereUnaware, RowsGrow
<1>9. UsdcWalletsAreAddresses'
    BY <1>2, <1>3 DEF RowsInv, UsdcWalletsAreAddresses
<1>10. InvoicesHaveContractors'
  <2> SUFFICES ASSUME NEW i \in DOMAIN invoice
               PROVE  FoundContractor(invoice[i].contractor, invoice[i].company)'
      BY DEF InvoicesHaveContractors
  <2>1. FoundContractor(invoice[i].contractor, invoice[i].company)
      BY DEF RowsInv, InvoicesHaveContractors
  <2>2. CASE invoice[i].contractor = c
    <3>1. row.live BY <2>2 DEF InvoicesOf, ContractorRows
    <3>2. QED BY <1>2, <1>3, <2>1, <2>2, <3>1 DEF FoundContractor, FoundRow
  <2>3. CASE invoice[i].contractor # c
      BY <1>2, <1>3, <2>1, <2>3 DEF FoundContractor, FoundRow
  <2>4. QED BY <2>2, <2>3
<1>11. MailedIsRejected' BY DEF RowsInv, MailedIsRejected
<1>12. AuditIsComplete'
  <2>1. \A e : Logged(e) => Logged(e)' BY <1>4, LoggedStays
  <2>2. ASSUME NEW d \in DOMAIN contractor
        PROVE  /\ Logged(Entry("CONTRACTOR_ONBOARDED", d))'
               /\ (contractor[d].kyc # "PENDING" => Logged(KycEntry(d, contractor[d].kyc)))'
               /\ (~contractor[d].live => Entry("CONTRACTOR_DELETED", d) \in audit)'
    <3>1. /\ Logged(Entry("CONTRACTOR_ONBOARDED", d))
          /\ contractor[d].kyc # "PENDING" => Logged(KycEntry(d, contractor[d].kyc))
          /\ ~contractor[d].live => Entry("CONTRACTOR_DELETED", d) \in audit
        BY DEF RowsInv, AuditIsComplete
    <3>2. ASSUME NEW e, e = KycEntry(d, contractor'[d].kyc), contractor'[d].kyc # "PENDING"
          PROVE  Logged(e)'
      <4>1. CASE d = c BY <1>3, <3>2, <4>1
      <4>2. CASE d # c BY <1>3, <2>1, <3>1, <3>2, <4>2
      <4>3. QED BY <4>1, <4>2
    <3>3. (contractor[d].kyc # "PENDING" => Logged(KycEntry(d, contractor[d].kyc)))'
      <4>1. PICK e : e = KycEntry(d, contractor'[d].kyc) OBVIOUS
      <4>2. contractor'[d].kyc # "PENDING" => Logged(e)' BY <3>2, <4>1
      <4>3. QED BY <4>1, <4>2 DEF Logged
    <3>4. (~contractor[d].live => Entry("CONTRACTOR_DELETED", d) \in audit)'
      <4>1. ~contractor'[d].live => Entry("CONTRACTOR_DELETED", d) \in audit
        <5>1. CASE d = c BY <1>3, <5>1
        <5>2. CASE d # c BY <1>3, <3>1, <5>2
        <5>3. QED BY <5>1, <5>2
      <4>2. QED BY <4>1 DEF Entry
    <3>5. Logged(Entry("CONTRACTOR_ONBOARDED", d))' BY <2>1, <3>1 DEF Entry, Logged
    <3>6. QED BY <3>3, <3>4, <3>5
  <2>3. ASSUME NEW i \in DOMAIN invoice
        PROVE  /\ (invoice[i].status = "APPROVED" => Logged(Entry("INVOICE_APPROVED", i)))'
               /\ (invoice[i].status = "REJECTED" => Logged(Entry("INVOICE_REJECTED", i)))'
    <3>1. /\ invoice[i].status = "APPROVED" => Logged(Entry("INVOICE_APPROVED", i))
          /\ invoice[i].status = "REJECTED" => Logged(Entry("INVOICE_REJECTED", i))
        BY DEF RowsInv, AuditIsComplete
    <3>2. QED BY <2>1, <3>1 DEF Entry, Logged
  <2>4. QED BY <1>2, <2>2, <2>3 DEF AuditIsComplete
<1>13. QED BY <1>5, <1>6, <1>7, <1>8, <1>9, <1>10, <1>11, <1>12 DEF RowsInv

LEMMA WriteProfileKeeps ==
    ASSUME RowsInv, NEW j \in Jobs, WriteProfile(j) PROVE RowsInv'
<1> DEFINE c == job[j].id
           read == job[j].draft.read
           change == job[j].draft.change
           old == contractor[c]
           row == Written(old, change)
<1>1. "write" \in Awaits /\ "write" \in OfContractors BY DEF Awaits, OfContractors
<1>2. /\ job[j].at = "write" /\ CarriesOn(job[j]) /\ End(j) /\ contractor[c].live
      /\ contractor' = [contractor EXCEPT ![c] = row]
      /\ raced' = IF <<read.preference, read.wallet>> = <<old.preference, old.wallet>>
                  THEN raced ELSE raced \cup {c}
      /\ UNCHANGED <<invoice, submitted, audit, mailed, served, seenBy, unlogged>>
    BY <1>1, WaitsIs DEF WriteProfile
<1>3. /\ c \in DOMAIN contractor /\ change \in ProfileChanges /\ read \in ContractorRows
      /\ StaysPayable(read, change)
    BY <1>1, <1>2 DEF CarriesOn
<1>4. old \in ContractorRows BY <1>3, RowParts
<1>5. row = [old EXCEPT !.preference = NewPreference(old, change),
                        !.wallet = IF change.wallet = Keep THEN old.wallet ELSE change.wallet]
    BY DEF Written
<1> HIDE DEF c, read, change, old, row
<1>6. /\ change.preference \in Preferences \cup {Keep} /\ change.wallet \in WalletInputs \cup {Keep}
    BY <1>3 DEF ProfileChanges
<1>7. NewPreference(old, change) \in Preferences
    BY <1>4, <1>6 DEF NewPreference, ContractorRows
<1>8. /\ row \in ContractorRows /\ row.company = old.company /\ row.email = old.email
      /\ row.live = old.live /\ row.kyc = old.kyc
      /\ row.preference = NewPreference(old, change)
      /\ row.wallet = IF change.wallet = Keep THEN old.wallet ELSE change.wallet
    BY <1>4, <1>5, <1>6, <1>7 DEF ContractorRows
<1>9. OnlyJob(j) /\ job'[j] = Idle
    BY <1>2, EndsJob DEF OnlyJob
<1>10. raced \subseteq raced' /\ raced' \subseteq DOMAIN contractor
    BY <1>2, <1>3 DEF RowsInv, WorkforceTypes
<1>11. c \notin raced' /\ row.preference = "USDC" => row.wallet \in WellFormed \cup {NoWallet}
  <2> SUFFICES ASSUME c \notin raced', row.preference = "USDC"
               PROVE  row.wallet \in WellFormed \cup {NoWallet}
      OBVIOUS
  <2>1. read.preference = old.preference /\ read.wallet = old.wallet BY <1>2
  <2>2. NewPreference(read, change) = "USDC" BY <1>8, <2>1 DEF NewPreference
  <2>3. NewWallet(read, change) \in WellFormed \cup {NoWallet} BY <1>3, <2>2 DEF StaysPayable
  <2>4. QED BY <1>8, <2>1, <2>3 DEF NewWallet
<1>12. \A e : row.kyc # "PENDING" /\ e = KycEntry(c, row.kyc) => Logged(e)'
  <2>1. row.kyc # "PENDING" => Logged(KycEntry(c, row.kyc))
      BY <1>3, <1>8 DEF RowsInv, AuditIsComplete, old
  <2>2. \A e : Logged(e) => Logged(e)'
    <3>1. RowsGrow
      <4>1. /\ Len(contractor) \in Nat /\ DOMAIN contractor = 1 .. Len(contractor)
            /\ contractor \in Seq(ContractorRows)
          BY RowParts DEF RowsInv, WorkforceTypes
      <4>2. Len(contractor') = Len(contractor) /\ DOMAIN contractor' = DOMAIN contractor
          BY <1>2, <1>3, <1>8, <4>1, ExceptSeq
      <4>3. QED BY <1>2, <1>3, <1>8, <4>1, <4>2 DEF RowsGrow, old
    <3>2. QED BY <1>9, <3>1, LoggedStays
  <2>3. QED BY <2>1, <2>2
<1>13. row.live /\ old = contractor[c] BY <1>2, <1>8 DEF old, c
<1>14. QED BY <1>2, <1>3, <1>8, <1>9, <1>10, <1>11, <1>12, <1>13, RewriteKeeps

LEMMA WriteKycKeeps ==
    ASSUME RowsInv, NEW j \in Jobs, WriteKyc(j) PROVE RowsInv'
<1> DEFINE c == job[j].id
           verdict == job[j].draft
           old == contractor[c]
           row == [old EXCEPT !.kyc = verdict]
           entry == KycEntry(c, verdict)
           after == [at |-> "audit", company |-> job[j].company, id |-> c,
                     draft |-> [entry |-> entry, next |-> "idle"]]
<1>1. "verdict" \in Awaits /\ "verdict" \in OfContractors /\ "audit" \in Awaits
      /\ "audit" \notin OfContractors \cup OfInvoices
    BY DEF Awaits, OfContractors, OfInvoices
<1>2. /\ job[j].at = "verdict" /\ job[j] # Idle /\ IsJob(job[j]) /\ CarriesOn(job[j])
      /\ contractor[c].live
      /\ contractor' = [contractor EXCEPT ![c] = row]
      /\ ThenAudit(j, c, entry, "idle")
      /\ UNCHANGED <<invoice, submitted, audit, mailed, served, seenBy, raced, unlogged>>
    BY <1>1, WaitsIs DEF WriteKyc, workforceHistory
<1>3. /\ c \in DOMAIN contractor /\ verdict \in KycVerdicts
    BY <1>1, <1>2 DEF CarriesOn
<1>4. old \in ContractorRows BY <1>3, RowParts
<1>5. /\ row \in ContractorRows /\ row.company = old.company /\ row.email = old.email
      /\ row.live = old.live /\ row.kyc = verdict
      /\ row.preference = old.preference /\ row.wallet = old.wallet
    BY <1>3, <1>4 DEF ContractorRows
<1>6. /\ DOMAIN job' = Jobs /\ job'[j] = after /\ \A k \in Jobs : k # j => job'[k] = job[k]
    BY <1>2, AuditsJob
<1>7. OnlyJob(j) BY <1>2, <1>6 DEF OnlyJob
<1>8. entry.subject = c BY DEF KycEntry
<1>9. /\ after.at = "audit" /\ after.company = job[j].company /\ after.id = c
      /\ after.draft = [entry |-> entry, next |-> "idle"]
      /\ after = [at |-> after.at, company |-> after.company, id |-> after.id, draft |-> after.draft]
    OBVIOUS
<1> HIDE DEF c, verdict, old, row, entry, after
<1>10. \A e : e = entry => Logged(e)' BY <1>6, <1>9 DEF Logged, Waits
<1>11. RowsGrow => \A r : r = job'[j] => IsJob(r) /\ CarriesOn(r)'
  <2> SUFFICES ASSUME RowsGrow, NEW r, r = job'[j] PROVE IsJob(r) /\ CarriesOn(r)'
      OBVIOUS
  <2>1. r = after BY <1>6
  <2>2. r.draft = [entry |-> entry, next |-> "idle"] /\ r.at = "audit" BY <1>9, <2>1
  <2>3. entry.subject \in DOMAIN contractor' BY <1>3, <1>8 DEF RowsGrow
  <2>4. IsContinuation(r.id, r.draft)' BY <2>2, <2>3 DEF IsContinuation
  <2>5. CarriesOn(r)' BY <1>1, <2>2, <2>4 DEF CarriesOn
  <2>6. IsJob(r) BY <1>1, <1>2, <1>9, <2>1 DEF IsJob
  <2>7. QED BY <2>5, <2>6
<1>12. row.live /\ old = contractor[c] BY <1>2, <1>5 DEF old, c
<1>13. c \notin raced' /\ row.preference = "USDC" => row.wallet \in WellFormed \cup {NoWallet}
    BY <1>2, <1>3, <1>5, <1>12 DEF RowsInv, UsdcWalletsAreAddresses
<1>14. \A e : row.kyc # "PENDING" /\ e = KycEntry(c, row.kyc) => Logged(e)' BY <1>5, <1>10 DEF entry
<1>15. raced \subseteq raced' /\ raced' \subseteq DOMAIN contractor
    BY <1>2 DEF RowsInv, WorkforceTypes
<1>16. QED BY <1>2, <1>3, <1>5, <1>7, <1>11, <1>12, <1>13, <1>14, <1>15, RewriteKeeps

LEMMA DeleteContractorKeeps ==
    ASSUME RowsInv, NEW j \in Jobs, DeleteContractor(j) PROVE RowsInv'
<1> DEFINE c == job[j].id
           old == contractor[c]
           row == [old EXCEPT !.live = FALSE]
<1>1. "delete" \in Awaits /\ "delete" \in OfContractors BY DEF Awaits, OfContractors
<1>2. /\ job[j].at = "delete" /\ CarriesOn(job[j]) /\ End(j) /\ contractor[c].live
      /\ InvoicesOf(c) = {}
      /\ contractor' = [contractor EXCEPT ![c] = row]
      /\ UNCHANGED <<invoice, submitted, audit, mailed, served, seenBy, raced, unlogged>>
    BY <1>1, WaitsIs DEF DeleteContractor, workforceHistory
<1>3. c \in DOMAIN contractor /\ Entry("CONTRACTOR_DELETED", c) \in audit
    BY <1>1, <1>2 DEF CarriesOn
<1>4. old \in ContractorRows BY <1>3, RowParts
<1>5. /\ row \in ContractorRows /\ row.company = old.company /\ row.email = old.email
      /\ row.live = FALSE /\ row.kyc = old.kyc
      /\ row.preference = old.preference /\ row.wallet = old.wallet
    BY <1>4 DEF ContractorRows
<1>6. OnlyJob(j) /\ job'[j] = Idle BY <1>2, EndsJob DEF OnlyJob
<1>7. old = contractor[c] OBVIOUS
<1> HIDE DEF c, old, row
<1>8. c \notin raced' /\ row.preference = "USDC" => row.wallet \in WellFormed \cup {NoWallet}
    BY <1>2, <1>3, <1>5, <1>7 DEF RowsInv, UsdcWalletsAreAddresses
<1>9. \A e : row.kyc # "PENDING" /\ e = KycEntry(c, row.kyc) => Logged(e)'
  <2>1. row.kyc # "PENDING" => Logged(KycEntry(c, row.kyc))
      BY <1>3, <1>5, <1>7 DEF RowsInv, AuditIsComplete
  <2>2. RowsGrow
    <3>1. /\ Len(contractor) \in Nat /\ DOMAIN contractor = 1 .. Len(contractor)
          /\ contractor \in Seq(ContractorRows)
        BY RowParts DEF RowsInv, WorkforceTypes
    <3>2. Len(contractor') = Len(contractor) /\ DOMAIN contractor' = DOMAIN contractor
        BY <1>2, <1>3, <1>5, <3>1, ExceptSeq
    <3>3. QED BY <1>2, <1>3, <1>5, <1>7, <3>1, <3>2 DEF RowsGrow
  <2>3. QED BY <1>6, <2>1, <2>2, LoggedStays
<1>10. raced \subseteq raced' /\ raced' \subseteq DOMAIN contractor
    BY <1>2 DEF RowsInv, WorkforceTypes
<1>11. QED BY <1>2, <1>3, <1>5, <1>6, <1>7, <1>8, <1>9, <1>10, RewriteKeeps

LEMMA CreateContractorKeeps ==
    ASSUME RowsInv, NEW j \in Jobs, CreateContractor(j) PROVE RowsInv'
<1> DEFINE new == Len(contractor) + 1
           row == job[j].draft.row
           seen == job[j].draft.seen
           entry == Entry("CONTRACTOR_ONBOARDED", new)
           after == [at |-> "audit", company |-> job[j].company, id |-> new,
                     draft |-> [entry |-> entry, next |-> "idle"]]
<1>1. "create" \in Awaits /\ "audit" \in Awaits /\ "audit" \notin OfContractors \cup OfInvoices
    BY DEF Awaits, OfContractors, OfInvoices
<1>2. /\ Len(contractor) \in Nat /\ DOMAIN contractor = 1 .. Len(contractor)
      /\ contractor \in Seq(ContractorRows) /\ seenBy \in Seq(Nat) /\ Len(seenBy) = Len(contractor)
      /\ Len(contractor) < MaxContractors /\ MaxContractors \in Nat
    BY RowParts DEF RowsInv, WorkforceTypes, CreateContractor
<1>3. /\ job[j].at = "create" /\ job[j] # Idle /\ IsJob(job[j]) /\ CarriesOn(job[j])
      /\ contractor' = Append(contractor, row) /\ seenBy' = Append(seenBy, seen)
      /\ ThenAudit(j, Len(contractor'), Entry("CONTRACTOR_ONBOARDED", Len(contractor')), "idle")
      /\ UNCHANGED <<invoice, submitted, audit, mailed, served, raced, unlogged>>
    BY <1>1, WaitsIs DEF CreateContractor
<1>4. NewRow(row) /\ NoTwinOf(row, seen) BY <1>3 DEF CarriesOn
<1>5. row \in ContractorRows /\ row.live /\ row.kyc = "PENDING"
      /\ (row.preference = "USDC" => row.wallet \in WellFormed) /\ seen \in 0 .. Len(contractor)
    BY <1>4 DEF NewRow, NoTwinOf
<1>6. /\ contractor' \in Seq(ContractorRows) /\ Len(contractor') = new
      /\ DOMAIN contractor' = 1 .. new /\ contractor'[new] = row
      /\ \A d \in DOMAIN contractor : contractor'[d] = contractor[d]
    BY <1>2, <1>3, <1>5, AppendProperties
<1>7. /\ seenBy' \in Seq(Nat) /\ Len(seenBy') = new /\ seenBy'[new] = seen
      /\ \A d \in DOMAIN contractor : seenBy'[d] = seenBy[d]
    BY <1>2, <1>3, <1>5, AppendProperties
<1>8. /\ DOMAIN job' = Jobs /\ job'[j] = after /\ \A k \in Jobs : k # j => job'[k] = job[k]
    BY <1>3, <1>6, AuditsJob
<1>9. /\ entry.subject = new /\ after.at = "audit" /\ after.company = job[j].company /\ after.id = new
      /\ after.draft = [entry |-> entry, next |-> "idle"]
      /\ after = [at |-> after.at, company |-> after.company, id |-> after.id, draft |-> after.draft]
    BY DEF Entry
<1>10. new \in Nat /\ new \in 1 .. new /\ new \notin DOMAIN contractor /\ DOMAIN contractor \subseteq 1 .. new
       /\ \A d \in 1 .. new : d = new \/ d \in DOMAIN contractor
    BY <1>2
<1> HIDE DEF row, seen, after
<1>11. OnlyJob(j) BY <1>3, <1>8 DEF OnlyJob
<1>12. RowsGrow BY <1>2, <1>3, <1>6, <1>10 DEF RowsGrow
<1>13. \A e : e = entry => Logged(e)' BY <1>8, <1>9 DEF Logged, Waits
<1>14. JobsCarryOn'
  <2>1. ASSUME NEW r, r = job'[j] PROVE IsJob(r) /\ CarriesOn(r)'
    <3>1. r = after BY <2>1, <1>8
    <3>2. r.draft = [entry |-> entry, next |-> "idle"] /\ r.at = "audit" BY <1>9, <3>1
    <3>3. entry.subject \in DOMAIN contractor' BY <1>6, <1>9, <1>10
    <3>4. IsContinuation(r.id, r.draft)' BY <3>2, <3>3 DEF IsContinuation
    <3>5. CarriesOn(r)' BY <1>1, <3>2, <3>4 DEF CarriesOn
    <3>6. IsJob(r) BY <1>1, <1>3, <1>9, <3>1 DEF IsJob
    <3>7. QED BY <3>5, <3>6
  <2>2. QED BY <1>11, <1>12, <2>1, JobsKeep
<1>15. WorkforceTypes'
  <2>1. new <= MaxContractors BY <1>2
  <2>2. raced' \subseteq DOMAIN contractor' BY <1>3, <1>12 DEF RowsGrow, RowsInv, WorkforceTypes
  <2>3. \A e \in (audit \cup unlogged)' : e.subject \in (DOMAIN contractor \cup DOMAIN invoice)'
      BY <1>3, <1>12 DEF RowsGrow, RowsInv, WorkforceTypes
  <2>4. QED BY <1>3, <1>6, <1>7, <1>8, <2>1, <2>2, <2>3
      DEF RowsInv, WorkforceTypes, InvoiceRows
<1>16. SubmittedOnce' BY <1>3 DEF RowsInv, SubmittedOnce
<1>17. TwinsWereUnaware'
  <2> SUFFICES ASSUME NEW c \in DOMAIN contractor', NEW d \in DOMAIN contractor',
                      c < d, contractor'[c].live, contractor'[d].live,
                      contractor'[c].company = contractor'[d].company,
                      contractor'[c].email = contractor'[d].email
               PROVE  c > seenBy'[d]
      BY DEF TwinsWereUnaware
  <2>1. c \in DOMAIN contractor BY <1>2, <1>6
  <2>2. CASE d = new
    <3>1. contractor[c].live /\ contractor[c].company = row.company /\ contractor[c].email = row.email
        BY <1>6, <2>1, <2>2
    <3>2. c \notin 1 .. seen BY <1>4, <3>1 DEF NoTwinOf
    <3>3. QED BY <1>2, <1>5, <1>7, <2>1, <2>2, <3>2
  <2>3. CASE d \in DOMAIN contractor
      BY <1>6, <1>7, <2>1, <2>3 DEF RowsInv, TwinsWereUnaware
  <2>4. QED BY <1>6, <1>10, <2>2, <2>3
<1>18. UsdcWalletsAreAddresses'
  <2> SUFFICES ASSUME NEW c \in DOMAIN contractor', c \notin raced', contractor'[c].preference = "USDC"
               PROVE  contractor'[c].wallet \in WellFormed \cup {NoWallet}
      BY DEF UsdcWalletsAreAddresses
  <2>1. CASE c = new BY <1>5, <1>6, <2>1
  <2>2. CASE c \in DOMAIN contractor
      BY <1>3, <1>6, <2>2 DEF RowsInv, UsdcWalletsAreAddresses
  <2>3. QED BY <1>6, <1>10, <2>1, <2>2
<1>19. InvoicesHaveContractors'
    BY <1>3, <1>6, <1>10 DEF RowsInv, InvoicesHaveContractors, FoundContractor, FoundRow
<1>20. MailedIsRejected' BY <1>3 DEF RowsInv, MailedIsRejected
<1>21. AuditIsComplete'
  <2>1. \A e : Logged(e) => Logged(e)' BY <1>11, <1>12, LoggedStays
  <2>2. ASSUME NEW d \in DOMAIN contractor'
        PROVE  /\ Logged(Entry("CONTRACTOR_ONBOARDED", d))'
               /\ (contractor[d].kyc # "PENDING" => Logged(KycEntry(d, contractor[d].kyc)))'
               /\ (~contractor[d].live => Entry("CONTRACTOR_DELETED", d) \in audit)'
    <3>1. CASE d = new
      <4>1. contractor'[d].live /\ contractor'[d].kyc = "PENDING" BY <1>5, <1>6, <3>1
      <4>2. PICK e : e = Entry("CONTRACTOR_ONBOARDED", d) OBVIOUS
      <4>3. Logged(e)' BY <1>13, <3>1, <4>2
      <4>4. Logged(Entry("CONTRACTOR_ONBOARDED", d))' BY <4>2, <4>3 DEF Entry, Logged
      <4>5. QED BY <4>1, <4>4
    <3>2. CASE d \in DOMAIN contractor
      <4>1. /\ Logged(Entry("CONTRACTOR_ONBOARDED", d))
            /\ contractor[d].kyc # "PENDING" => Logged(KycEntry(d, contractor[d].kyc))
            /\ ~contractor[d].live => Entry("CONTRACTOR_DELETED", d) \in audit
          BY <3>2 DEF RowsInv, AuditIsComplete
      <4>2. contractor'[d] = contractor[d] BY <1>6, <3>2
      <4>3. Logged(Entry("CONTRACTOR_ONBOARDED", d))' BY <2>1, <4>1 DEF Entry, Logged
      <4>4. (contractor[d].kyc # "PENDING" => Logged(KycEntry(d, contractor[d].kyc)))'
        <5>1. PICK e : e = KycEntry(d, contractor[d].kyc) OBVIOUS
        <5>2. contractor[d].kyc # "PENDING" => Logged(e)' BY <2>1, <4>1, <5>1
        <5>3. QED BY <4>2, <5>1, <5>2 DEF KycEntry, Logged
      <4>5. (~contractor[d].live => Entry("CONTRACTOR_DELETED", d) \in audit)'
          BY <1>3, <4>1, <4>2 DEF Entry
      <4>6. QED BY <4>3, <4>4, <4>5
    <3>3. QED BY <1>6, <1>10, <3>1, <3>2
  <2>3. ASSUME NEW i \in DOMAIN invoice'
        PROVE  /\ (invoice[i].status = "APPROVED" => Logged(Entry("INVOICE_APPROVED", i)))'
               /\ (invoice[i].status = "REJECTED" => Logged(Entry("INVOICE_REJECTED", i)))'
    <3>1. /\ invoice[i].status = "APPROVED" => Logged(Entry("INVOICE_APPROVED", i))
          /\ invoice[i].status = "REJECTED" => Logged(Entry("INVOICE_REJECTED", i))
        BY <1>3 DEF RowsInv, AuditIsComplete
    <3>2. QED BY <1>3, <2>1, <3>1 DEF Entry, Logged
  <2>4. QED BY <2>2, <2>3 DEF AuditIsComplete
<1>22. QED BY <1>14, <1>15, <1>16, <1>17, <1>18, <1>19, <1>20, <1>21 DEF RowsInv

-----------------------------------------------------------------------------
(* The status of one invoice is written.                                    *)
LEMMA StatusKeeps ==
    ASSUME RowsInv, NEW j \in Jobs, OnlyJob(j), NEW i \in DOMAIN invoice, NEW status \in Statuses,
           invoice' = [invoice EXCEPT ![i].status = status],
           UNCHANGED <<contractor, submitted, audit, mailed, served, seenBy, raced, unlogged>>,
           \A e : status = "APPROVED" /\ e = Entry("INVOICE_APPROVED", i) => Logged(e)',
           \A e : status = "REJECTED" /\ e = Entry("INVOICE_REJECTED", i) => Logged(e)',
           RowsGrow /\ job'[j] # Idle => \A r : r = job'[j] => IsJob(r) /\ CarriesOn(r)'
    PROVE  RowsInv'
<1> DEFINE row == [invoice[i] EXCEPT !.status = status]
<1>1. /\ Len(invoice) \in Nat /\ DOMAIN invoice = 1 .. Len(invoice)
      /\ invoice \in Seq(InvoiceRows) /\ invoice[i] \in InvoiceRows
    BY RowParts DEF RowsInv, WorkforceTypes
<1>2. /\ row \in InvoiceRows /\ row.company = invoice[i].company
      /\ row.contractor = invoice[i].contractor /\ row.status = status
    BY <1>1 DEF InvoiceRows
<1>3. /\ invoice' = [invoice EXCEPT ![i] = row] OBVIOUS
<1> HIDE DEF row
<1>4. /\ invoice' \in Seq(InvoiceRows) /\ Len(invoice') = Len(invoice)
      /\ DOMAIN invoice' = DOMAIN invoice
    BY <1>1, <1>2, <1>3, ExceptSeq
<1>5. invoice'[i] = row /\ \A n \in DOMAIN invoice : n # i => invoice'[n] = invoice[n]
    BY <1>1, <1>3
<1>6. RowsGrow BY <1>4, RowParts DEF RowsGrow
<1>7. JobsCarryOn' BY <1>6, JobsKeep
<1>8. WorkforceTypes' BY <1>4 DEF RowsInv, WorkforceTypes, OnlyJob
<1>9. SubmittedOnce' BY <1>4 DEF RowsInv, SubmittedOnce
<1>10. TwinsWereUnaware' /\ UsdcWalletsAreAddresses' /\ MailedIsRejected'
    BY DEF RowsInv, TwinsWereUnaware, UsdcWalletsAreAddresses, MailedIsRejected
<1>11. InvoicesHaveContractors'
  <2> SUFFICES ASSUME NEW n \in DOMAIN invoice
               PROVE  FoundContractor(invoice[n].contractor, invoice[n].company)'
      BY <1>4 DEF InvoicesHaveContractors
  <2>1. FoundContractor(invoice[n].contractor, invoice[n].company)
      BY DEF RowsInv, InvoicesHaveContractors
  <2>2. invoice'[n].contractor = invoice[n].contractor /\ invoice'[n].company = invoice[n].company
    <3>1. CASE n = i BY <1>2, <1>5, <3>1
    <3>2. CASE n # i BY <1>5, <3>2
    <3>3. QED BY <3>1, <3>2
  <2>3. QED BY <2>1, <2>2 DEF FoundContractor, FoundRow
<1>12. AuditIsComplete'
  <2>1. \A e : Logged(e) => Logged(e)' BY <1>6, LoggedStays
  <2>2. ASSUME NEW d \in DOMAIN contractor'
        PROVE  /\ Logged(Entry("CONTRACTOR_ONBOARDED", d))'
               /\ (contractor[d].kyc # "PENDING" => Logged(KycEntry(d, contractor[d].kyc)))'
               /\ (~contractor[d].live => Entry("CONTRACTOR_DELETED", d) \in audit)'
    <3>1. /\ Logged(Entry("CONTRACTOR_ONBOARDED", d))
          /\ contractor[d].kyc # "PENDING" => Logged(KycEntry(d, contractor[d].kyc))
          /\ ~contractor[d].live => Entry("CONTRACTOR_DELETED", d) \in audit
        BY DEF RowsInv, AuditIsComplete
    <3>2. Logged(Entry("CONTRACTOR_ONBOARDED", d))' BY <2>1, <3>1 DEF Entry, Logged
    <3>3. (contractor[d].kyc # "PENDING" => Logged(KycEntry(d, contractor[d].kyc)))'
      <4>1. PICK e : e = KycEntry(d, contractor[d].kyc) OBVIOUS
      <4>2. contractor[d].kyc # "PENDING" => Logged(e)' BY <2>1, <3>1, <4>1
      <4>3. QED BY <4>1, <4>2 DEF KycEntry, Logged
    <3>4. (~contractor[d].live => Entry("CONTRACTOR_DELETED", d) \in audit)'
        BY <3>1 DEF Entry
    <3>5. QED BY <3>2, <3>3, <3>4
  <2>3. ASSUME NEW n \in DOMAIN invoice'
        PROVE  /\ (invoice[n].status = "APPROVED" => Logged(Entry("INVOICE_APPROVED", n)))'
               /\ (invoice[n].status = "REJECTED" => Logged(Entry("INVOICE_REJECTED", n)))'
    <3>1. CASE n = i
      <4>1. invoice'[n].status = status BY <1>2, <1>5, <3>1
      <4>2. PICK e : e = Entry("INVOICE_APPROVED", n) OBVIOUS
      <4>3. PICK f : f = Entry("INVOICE_REJECTED", n) OBVIOUS
      <4>4. /\ status = "APPROVED" => Logged(e)'
            /\ status = "REJECTED" => Logged(f)'
          BY <3>1, <4>2, <4>3
      <4>5. QED BY <4>1, <4>2, <4>3, <4>4 DEF Entry, Logged
    <3>2. CASE n # i
      <4>1. /\ invoice[n].status = "APPROVED" => Logged(Entry("INVOICE_APPROVED", n))
            /\ invoice[n].status = "REJECTED" => Logged(Entry("INVOICE_REJECTED", n))
            /\ invoice'[n] = invoice[n]
          BY <1>4, <1>5, <3>2 DEF RowsInv, AuditIsComplete
      <4>2. QED BY <2>1, <4>1 DEF Entry, Logged
    <3>3. QED BY <3>1, <3>2
  <2>4. QED BY <2>2, <2>3 DEF AuditIsComplete
<1>13. QED BY <1>7, <1>8, <1>9, <1>10, <1>11, <1>12 DEF RowsInv

LEMMA MarkPaidKeeps ==
    ASSUME RowsInv, NEW j \in Jobs, MarkPaid(j) PROVE RowsInv'
<1>1. "pay" \in Awaits /\ "pay" \in OfInvoices BY DEF Awaits, OfInvoices
<1>2. /\ job[j].at = "pay" /\ CarriesOn(job[j]) /\ End(j)
      /\ invoice' = [invoice EXCEPT ![job[j].id].status = "PAID"]
      /\ UNCHANGED <<contractor, submitted, audit, mailed, served, seenBy, raced, unlogged>>
    BY <1>1, WaitsIs DEF MarkPaid, workforceHistory
<1>3. job[j].id \in DOMAIN invoice BY <1>1, <1>2 DEF CarriesOn
<1>4. OnlyJob(j) /\ job'[j] = Idle BY <1>2, EndsJob DEF OnlyJob
<1>5. "PAID" \in Statuses BY DEF Statuses
<1>6. QED BY <1>2, <1>3, <1>4, <1>5, StatusKeeps

(* The decisions there are.                                                 *)
Decides(label, status, action, onward) ==
    \/ label = "approved" /\ status = "APPROVED" /\ action = "INVOICE_APPROVED" /\ onward = "idle"
    \/ /\ label \in {"rejected", "rejected quietly"} /\ status = "REJECTED"
       /\ action = "INVOICE_REJECTED" /\ onward \in {"idle", "mail"}

LEMMA SetDecisionKeeps ==
    ASSUME RowsInv, NEW j \in Jobs, NEW label, NEW status, NEW action, NEW onward,
           Decides(label, status, action, onward), SetDecision(j, label, status, action, onward)
    PROVE  RowsInv'
<1> DEFINE i == job[j].id
           entry == Entry(action, i)
           after == [at |-> "audit", company |-> job[j].company, id |-> i,
                     draft |-> [entry |-> entry, next |-> onward]]
<1>1. /\ label \in Awaits /\ label \in OfInvoices /\ "audit" \in Awaits
      /\ "audit" \notin OfContractors \cup OfInvoices /\ label # "audit"
      /\ status \in Statuses
    BY DEF Decides, Awaits, OfContractors, OfInvoices, Statuses
<1>2. /\ job[j].at = label /\ job[j] # Idle /\ IsJob(job[j]) /\ CarriesOn(job[j])
      /\ invoice' = [invoice EXCEPT ![i].status = status]
      /\ ThenAudit(j, i, entry, onward)
      /\ UNCHANGED <<contractor, submitted, audit, mailed, served, seenBy, raced, unlogged>>
    BY <1>1, WaitsIs DEF SetDecision, workforceHistory
<1>3. i \in DOMAIN invoice BY <1>1, <1>2 DEF CarriesOn
<1>4. /\ DOMAIN job' = Jobs /\ job'[j] = after /\ \A k \in Jobs : k # j => job'[k] = job[k]
    BY <1>2, AuditsJob
<1>5. OnlyJob(j) BY <1>1, <1>2, <1>4 DEF OnlyJob
<1>6. /\ entry.subject = i /\ after.at = "audit" /\ after.company = job[j].company /\ after.id = i
      /\ after.draft = [entry |-> entry, next |-> onward]
      /\ after = [at |-> after.at, company |-> after.company, id |-> after.id, draft |-> after.draft]
    BY DEF Entry
<1>7. action = "INVOICE_REJECTED" => entry = Entry("INVOICE_REJECTED", i) OBVIOUS
<1>8. action = "INVOICE_APPROVED" => entry = Entry("INVOICE_APPROVED", i) OBVIOUS
<1> HIDE DEF i, entry, after
<1>9. \A e : e = entry => Logged(e)' BY <1>4, <1>6 DEF Logged, Waits
<1>10. RowsGrow => \A r : r = job'[j] => IsJob(r) /\ CarriesOn(r)'
  <2> SUFFICES ASSUME RowsGrow, NEW r, r = job'[j] PROVE IsJob(r) /\ CarriesOn(r)'
      OBVIOUS
  <2>1. r = after BY <1>4
  <2>2. r.draft = [entry |-> entry, next |-> onward] /\ r.at = "audit" /\ r.id = i BY <1>6, <2>1
  <2>3. entry.subject \in DOMAIN invoice' /\ i \in DOMAIN invoice' BY <1>3, <1>6 DEF RowsGrow
  <2>4. IsContinuation(r.id, r.draft)'
    <3>1. /\ r.draft.entry = entry /\ r.draft.next = onward
          /\ r.draft = [entry |-> r.draft.entry, next |-> r.draft.next]
        BY <2>2
    <3>2. onward = "mail" => entry = Entry("INVOICE_REJECTED", r.id) BY <1>7, <2>2 DEF Decides
    <3>3. onward \in {"idle", "mail"} BY DEF Decides
    <3>4. QED BY <2>2, <2>3, <3>1, <3>2, <3>3 DEF IsContinuation
  <2>5. CarriesOn(r)' BY <1>1, <2>2, <2>4 DEF CarriesOn
  <2>6. IsJob(r) BY <1>1, <1>2, <1>6, <2>1 DEF IsJob
  <2>7. QED BY <2>5, <2>6
<1>11. /\ \A e : status = "APPROVED" /\ e = Entry("INVOICE_APPROVED", i) => Logged(e)'
       /\ \A e : status = "REJECTED" /\ e = Entry("INVOICE_REJECTED", i) => Logged(e)'
    BY <1>7, <1>8, <1>9 DEF Decides
<1>12. QED BY <1>1, <1>2, <1>3, <1>5, <1>10, <1>11, StatusKeeps

(* A new invoice is of a contractor that was found and is still there.      *)
LEMMA InsertInvoiceKeeps ==
    ASSUME RowsInv, NEW j \in Jobs, InsertInvoice(j) PROVE RowsInv'
<1> DEFINE c == job[j].id
           new == Len(invoice) + 1
           row == [company |-> job[j].company, contractor |-> c, status |-> "PENDING"]
<1>1. "insert" \in Awaits /\ "insert" \in OfContractors BY DEF Awaits, OfContractors
<1>2. /\ job[j].at = "insert" /\ IsJob(job[j]) /\ CarriesOn(job[j]) /\ contractor[c].live /\ End(j)
      /\ Len(invoice) < MaxInvoices
      /\ invoice' = Append(invoice, row) /\ submitted' = Append(submitted, Len(invoice'))
      /\ UNCHANGED <<contractor, audit, mailed, served, seenBy, raced, unlogged>>
    BY <1>1, WaitsIs DEF InsertInvoice, workforceHistory
<1>3. /\ c \in DOMAIN contractor /\ contractor[c].company = job[j].company
      /\ job[j].company \in Companies
    BY <1>1, <1>2 DEF CarriesOn, IsJob
<1>4. /\ Len(contractor) \in Nat /\ DOMAIN contractor = 1 .. Len(contractor)
      /\ Len(contractor) <= MaxContractors
      /\ Len(invoice) \in Nat /\ DOMAIN invoice = 1 .. Len(invoice) /\ invoice \in Seq(InvoiceRows)
      /\ MaxInvoices \in Nat /\ MaxContractors \in Nat
    BY RowParts DEF RowsInv, WorkforceTypes
<1>5. /\ row \in InvoiceRows /\ row.company = job[j].company /\ row.contractor = c
      /\ row.status = "PENDING"
    BY <1>3, <1>4 DEF InvoiceRows, Statuses
<1> HIDE DEF row
<1>6. /\ invoice' \in Seq(InvoiceRows) /\ Len(invoice') = new /\ DOMAIN invoice' = 1 .. new
      /\ invoice'[new] = row /\ \A n \in DOMAIN invoice : invoice'[n] = invoice[n]
    BY <1>2, <1>4, <1>5, AppendProperties
<1>7. new \in Nat /\ new \in 1 .. new /\ new \notin DOMAIN invoice /\ DOMAIN invoice \subseteq 1 .. new
      /\ \A n \in 1 .. new : n = new \/ n \in DOMAIN invoice
    BY <1>4
<1>8. OnlyJob(j) /\ job'[j] = Idle BY <1>2, EndsJob DEF OnlyJob
<1>9. RowsGrow BY <1>2, <1>4, <1>6, <1>7 DEF RowsGrow
<1>10. JobsCarryOn' BY <1>8, <1>9, JobsKeep
<1>11. WorkforceTypes'
  <2>1. new <= MaxInvoices BY <1>2, <1>4
  <2>2. \A e \in (audit \cup unlogged)' : e.subject \in (DOMAIN contractor \cup DOMAIN invoice)'
      BY <1>2, <1>9 DEF RowsGrow, RowsInv, WorkforceTypes
  <2>3. mailed' \in SUBSET DOMAIN invoice' BY <1>2, <1>9 DEF RowsGrow, RowsInv, WorkforceTypes
  <2>4. QED BY <1>2, <1>6, <1>8, <2>1, <2>2, <2>3 DEF RowsInv, WorkforceTypes, OnlyJob
<1>12. SubmittedOnce'
  <2>1. /\ submitted \in Seq(DOMAIN invoice) /\ Len(submitted) = Len(invoice)
        /\ \A i \in DOMAIN invoice : \E n \in DOMAIN submitted : submitted[n] = i
        /\ \A m, n \in DOMAIN submitted : submitted[m] = submitted[n] => m = n
      BY DEF RowsInv, SubmittedOnce
  <2>2. DOMAIN submitted = 1 .. Len(invoice) BY <1>4, <2>1
  <2>3. submitted \in Seq(1 .. new) BY <1>7, <2>1
  <2>4. /\ submitted' \in Seq(1 .. new) /\ Len(submitted') = new /\ DOMAIN submitted' = 1 .. new
        /\ submitted'[new] = new /\ \A n \in DOMAIN submitted : submitted'[n] = submitted[n]
      BY <1>2, <1>4, <1>6, <1>7, <2>1, <2>2, <2>3, AppendProperties
  <2>5. \A n \in DOMAIN submitted : submitted[n] \in DOMAIN invoice BY <2>1, <2>2, <1>4, ElementOfSeq
  <2>6. \A i \in DOMAIN invoice' : \E n \in DOMAIN submitted' : submitted'[n] = i
      BY <1>4, <1>6, <1>7, <2>1, <2>2, <2>4
  <2>7. ASSUME NEW m \in DOMAIN submitted', NEW n \in DOMAIN submitted', submitted'[m] = submitted'[n]
        PROVE  m = n
    <3>1. m \in 1 .. new /\ n \in 1 .. new BY <2>4
    <3>2. CASE m = new /\ n = new BY <3>2
    <3>3. CASE m = new /\ n \in DOMAIN submitted BY <1>7, <2>4, <2>5, <2>7, <3>3
    <3>4. CASE n = new /\ m \in DOMAIN submitted BY <1>7, <2>4, <2>5, <2>7, <3>4
    <3>5. CASE m \in DOMAIN submitted /\ n \in DOMAIN submitted
        BY <2>1, <2>4, <2>7, <3>5
    <3>6. QED BY <1>4, <1>7, <2>2, <3>1, <3>2, <3>3, <3>4, <3>5
  <2>8. QED BY <1>6, <2>4, <2>6, <2>7 DEF SubmittedOnce
<1>13. TwinsWereUnaware' /\ UsdcWalletsAreAddresses' /\ MailedIsRejected'
    BY <1>2 DEF RowsInv, TwinsWereUnaware, UsdcWalletsAreAddresses, MailedIsRejected
<1>14. InvoicesHaveContractors'
  <2> SUFFICES ASSUME NEW n \in DOMAIN invoice'
               PROVE  FoundContractor(invoice[n].contractor, invoice[n].company)'
      BY DEF InvoicesHaveContractors
  <2>1. CASE n = new
      BY <1>2, <1>3, <1>5, <1>6, <2>1 DEF FoundContractor, FoundRow
  <2>2. CASE n \in DOMAIN invoice
      BY <1>2, <1>6, <2>2 DEF RowsInv, InvoicesHaveContractors, FoundContractor, FoundRow
  <2>3. QED BY <1>6, <1>7, <2>1, <2>2
<1>15. AuditIsComplete'
  <2>1. \A e : Logged(e) => Logged(e)' BY <1>8, <1>9, LoggedStays
  <2>2. ASSUME NEW d \in DOMAIN contractor'
        PROVE  /\ Logged(Entry("CONTRACTOR_ONBOARDED", d))'
               /\ (contractor[d].kyc # "PENDING" => Logged(KycEntry(d, contractor[d].kyc)))'
               /\ (~contractor[d].live => Entry("CONTRACTOR_DELETED", d) \in audit)'
    <3>1. /\ Logged(Entry("CONTRACTOR_ONBOARDED", d))
          /\ contractor[d].kyc # "PENDING" => Logged(KycEntry(d, contractor[d].kyc))
          /\ ~contractor[d].live => Entry("CONTRACTOR_DELETED", d) \in audit
        BY <1>2 DEF RowsInv, AuditIsComplete
    <3>2. Logged(Entry("CONTRACTOR_ONBOARDED", d))' BY <2>1, <3>1 DEF Entry, Logged
    <3>3. (contractor[d].kyc # "PENDING" => Logged(KycEntry(d, contractor[d].kyc)))'
      <4>1. PICK e : e = KycEntry(d, contractor[d].kyc) OBVIOUS
      <4>2. contractor[d].kyc # "PENDING" => Logged(e)' BY <2>1, <3>1, <4>1
      <4>3. QED BY <1>2, <4>1, <4>2 DEF KycEntry, Logged
    <3>4. (~contractor[d].live => Entry("CONTRACTOR_DELETED", d) \in audit)'
        BY <1>2, <3>1 DEF Entry
    <3>5. QED BY <3>2, <3>3, <3>4
  <2>3. ASSUME NEW n \in DOMAIN invoice'
        PROVE  /\ (invoice[n].status = "APPROVED" => Logged(Entry("INVOICE_APPROVED", n)))'
               /\ (invoice[n].status = "REJECTED" => Logged(Entry("INVOICE_REJECTED", n)))'
    <3>1. CASE n = new
      <4>1. invoice'[n].status = "PENDING" BY <1>5, <1>6, <3>1
      <4>2. QED BY <4>1
    <3>2. CASE n \in DOMAIN invoice
      <4>1. /\ invoice[n].status = "APPROVED" => Logged(Entry("INVOICE_APPROVED", n))
            /\ invoice[n].status = "REJECTED" => Logged(Entry("INVOICE_REJECTED", n))
            /\ invoice'[n] = invoice[n]
          BY <1>6, <3>2 DEF RowsInv, AuditIsComplete
      <4>2. QED BY <2>1, <4>1 DEF Entry, Logged
    <3>3. QED BY <1>6, <1>7, <3>1, <3>2
  <2>4. QED BY <2>2, <2>3 DEF AuditIsComplete
<1>16. QED BY <1>10, <1>11, <1>12, <1>13, <1>14, <1>15 DEF RowsInv

-----------------------------------------------------------------------------
(* The demo's submission moves one invoice to the end: none is lost.        *)
ToTheEnd(s, n) == Append(RemoveAt(s, n), s[n])

HasMoved(s, n, t) ==
    /\ Len(t) = Len(s)
    /\ \A m \in 1 .. Len(s) :
           t[m] = IF m < n THEN s[m] ELSE IF m < Len(s) THEN s[m + 1] ELSE s[n]

LEMMA MovedToTheEnd ==
    ASSUME NEW S, NEW s \in Seq(S), NEW n \in DOMAIN s, NEW t, t = ToTheEnd(s, n)
    PROVE  t \in Seq(S) /\ HasMoved(s, n, t)
<1> DEFINE before == SubSeq(s, 1, n - 1)
           after == SubSeq(s, n + 1, Len(s))
<1>1. Len(s) \in Nat /\ DOMAIN s = 1 .. Len(s) /\ n \in 1 .. Len(s) /\ \A m \in 1 .. Len(s) : s[m] \in S
    BY ElementOfSeq
<1>2. /\ before \in Seq(S) /\ Len(before) = n - 1
      /\ \A m \in 1 .. n - 1 : before[m] = s[m]
  <2>1. \A m \in 1 .. n - 1 : s[m] \in S BY <1>1
  <2>2. n - 1 \in Int /\ 1 \in Int BY <1>1
  <2>3. /\ before \in Seq(S) /\ Len(before) = IF 1 <= n - 1 THEN (n - 1) - 1 + 1 ELSE 0
        /\ \A m \in 1 .. (n - 1) - 1 + 1 : before[m] = s[1 + m - 1]
      BY <2>1, <2>2, SubSeqProperties
  <2>4. QED BY <1>1, <2>3
<1>3. /\ after \in Seq(S) /\ Len(after) = Len(s) - n
      /\ \A m \in 1 .. Len(s) - n : after[m] = s[n + m]
  <2>1. \A m \in n + 1 .. Len(s) : s[m] \in S BY <1>1
  <2>2. n + 1 \in Int /\ Len(s) \in Int BY <1>1
  <2>3. /\ after \in Seq(S) /\ Len(after) = IF n + 1 <= Len(s) THEN Len(s) - (n + 1) + 1 ELSE 0
        /\ \A m \in 1 .. Len(s) - (n + 1) + 1 : after[m] = s[(n + 1) + m - 1]
      BY <2>1, <2>2, SubSeqProperties
  <2>4. QED BY <1>1, <2>3
<1>4. RemoveAt(s, n) = before \o after BY DEF RemoveAt
<1> HIDE DEF before, after
<1>5. /\ RemoveAt(s, n) \in Seq(S) /\ Len(RemoveAt(s, n)) = Len(s) - 1
      /\ \A m \in 1 .. Len(s) - 1 : RemoveAt(s, n)[m] = IF m < n THEN s[m] ELSE s[m + 1]
  <2>1. /\ before \o after \in Seq(S) /\ Len(before \o after) = Len(before) + Len(after)
        /\ \A m \in 1 .. Len(before) + Len(after) :
               (before \o after)[m] = IF m <= Len(before) THEN before[m] ELSE after[m - Len(before)]
      BY <1>2, <1>3, ConcatProperties
  <2>2. Len(before) + Len(after) = Len(s) - 1 BY <1>1, <1>2, <1>3
  <2>3. ASSUME NEW m \in 1 .. Len(s) - 1
        PROVE  (before \o after)[m] = IF m < n THEN s[m] ELSE s[m + 1]
    <3>1. CASE m < n BY <1>1, <1>2, <2>1, <2>2, <3>1
    <3>2. CASE ~(m < n)
      <4>1. (before \o after)[m] = after[m - (n - 1)] BY <1>1, <1>2, <2>1, <2>2, <3>2
      <4>2. m - (n - 1) \in 1 .. Len(s) - n /\ n + (m - (n - 1)) = m + 1 BY <1>1, <3>2
      <4>3. QED BY <1>3, <3>2, <4>1, <4>2
    <3>3. QED BY <3>1, <3>2
  <2>4. QED BY <1>4, <2>1, <2>2, <2>3
<1>6. s[n] \in S BY <1>1
<1>7. /\ t \in Seq(S) /\ Len(t) = Len(s) - 1 + 1
      /\ \A m \in 1 .. Len(s) - 1 : t[m] = RemoveAt(s, n)[m]
      /\ t[Len(s) - 1 + 1] = s[n]
    BY <1>5, <1>6, AppendProperties DEF ToTheEnd
<1>8. ASSUME NEW m \in 1 .. Len(s)
      PROVE  t[m] = IF m < n THEN s[m] ELSE IF m < Len(s) THEN s[m + 1] ELSE s[n]
  <2>1. CASE m = Len(s) BY <1>1, <1>7, <2>1
  <2>2. CASE m # Len(s)
    <3>1. m \in 1 .. Len(s) - 1 /\ m < Len(s)
      <4>1. \A a \in Nat : \A b \in 1 .. a : b # a => b \in 1 .. a - 1 /\ b < a OBVIOUS
      <4>2. QED BY <1>1, <2>2, <4>1
    <3>2. QED BY <1>5, <1>7, <3>1
  <2>3. QED BY <2>1, <2>2
<1>9. Len(t) = Len(s) BY <1>1, <1>7
<1>10. QED BY <1>7, <1>8, <1>9 DEF HasMoved

LEMMA StampKeeps ==
    ASSUME RowsInv, NEW j \in Jobs, Stamp(j) PROVE RowsInv'
<1>1. "stamp" \in Awaits BY DEF Awaits, OfInvoices
<1>2. /\ job[j].at = "stamp" /\ End(j)
      /\ UNCHANGED <<contractor, invoice, audit, mailed, served, seenBy, raced, unlogged>>
    BY <1>1, WaitsIs DEF Stamp, workforceHistory
<1>3. PICK n \in DOMAIN submitted : submitted' = Append(RemoveAt(submitted, n), submitted[n])
    BY DEF Stamp
<1>4. /\ submitted \in Seq(DOMAIN invoice) /\ Len(submitted) = Len(invoice)
      /\ \A i \in DOMAIN invoice : \E m \in DOMAIN submitted : submitted[m] = i
      /\ \A k, m \in DOMAIN submitted : submitted[k] = submitted[m] => k = m
    BY DEF RowsInv, SubmittedOnce
<1>5. /\ Len(submitted) \in Nat /\ DOMAIN submitted = 1 .. Len(submitted)
    BY <1>4
<1>6. /\ submitted' \in Seq(DOMAIN invoice) /\ Len(submitted') = Len(submitted)
      /\ DOMAIN submitted' = 1 .. Len(submitted)
      /\ \A m \in 1 .. Len(submitted) :
             submitted'[m] = IF m < n THEN submitted[m]
                             ELSE IF m < Len(submitted) THEN submitted[m + 1] ELSE submitted[n]
  <2> DEFINE S == DOMAIN invoice
             s == submitted
             t == submitted'
  <2>1. s \in Seq(S) /\ n \in DOMAIN s /\ t = ToTheEnd(s, n) BY <1>3, <1>4 DEF ToTheEnd
  <2> HIDE DEF S, s, t
  <2>2. t \in Seq(S) /\ HasMoved(s, n, t) BY <2>1, MovedToTheEnd
  <2>3. DOMAIN t = 1 .. Len(s) BY <2>2 DEF HasMoved
  <2>4. QED BY <2>2, <2>3 DEF S, s, t, HasMoved
<1>7. ASSUME NEW i \in DOMAIN invoice PROVE \E m \in DOMAIN submitted' : submitted'[m] = i
  <2>1. PICK m \in DOMAIN submitted : submitted[m] = i BY <1>4
  <2>2. CASE m < n BY <1>5, <1>6, <2>1, <2>2
  <2>3. CASE m = n
    <3>1. submitted'[Len(submitted)] = submitted[n] /\ Len(submitted) \in 1 .. Len(submitted)
        BY <1>5, <1>6
    <3>2. QED BY <1>6, <2>1, <2>3, <3>1
  <2>4. CASE m > n
    <3>1. m - 1 \in 1 .. Len(submitted) /\ ~(m - 1 < n) /\ m - 1 < Len(submitted) /\ (m - 1) + 1 = m
        BY <1>5, <2>4
    <3>2. submitted'[m - 1] = submitted[m] BY <1>6, <3>1
    <3>3. QED BY <1>6, <2>1, <3>1, <3>2
  <2>5. QED BY <1>5, <2>2, <2>3, <2>4
<1>8. ASSUME NEW k \in DOMAIN submitted', NEW m \in DOMAIN submitted', submitted'[k] = submitted'[m]
      PROVE  k = m
  <2> DEFINE from(p) == IF p < n THEN p ELSE IF p < Len(submitted) THEN p + 1 ELSE n
  <2>1. \A p \in 1 .. Len(submitted) :
            from(p) \in DOMAIN submitted /\ submitted'[p] = submitted[from(p)]
      BY <1>5, <1>6
  <2>2. k \in 1 .. Len(submitted) /\ m \in 1 .. Len(submitted) BY <1>6
  <2>3. from(k) = from(m)
    <3> HIDE DEF from
    <3>1. QED BY <1>4, <1>8, <2>1, <2>2
  <2>4. QED BY <1>5, <2>2, <2>3
<1>9. SubmittedOnce' BY <1>2, <1>4, <1>6, <1>7, <1>8 DEF SubmittedOnce
<1>10. OnlyJob(j) /\ job'[j] = Idle BY <1>2, EndsJob DEF OnlyJob
<1>11. RowsGrow BY <1>2, RowParts DEF RowsGrow
<1>12. JobsCarryOn' BY <1>10, <1>11, JobsKeep
<1>13. WorkforceTypes' BY <1>2, <1>10 DEF RowsInv, WorkforceTypes, OnlyJob
<1>14. /\ TwinsWereUnaware' /\ UsdcWalletsAreAddresses' /\ InvoicesHaveContractors' /\ MailedIsRejected'
    BY <1>2 DEF RowsInv, TwinsWereUnaware, UsdcWalletsAreAddresses, InvoicesHaveContractors,
           FoundContractor, FoundRow, MailedIsRejected
<1>15. AuditIsComplete'
  <2>1. \A e : Logged(e) => Logged(e)' BY <1>10, <1>11, LoggedStays
  <2>2. QED BY <1>2, <2>1 DEF RowsInv, AuditIsComplete
<1>16. QED BY <1>9, <1>12, <1>13, <1>14, <1>15 DEF RowsInv

LEMMA MailRejectionKeeps ==
    ASSUME RowsInv, NEW j \in Jobs, MailRejection(j) PROVE RowsInv'
<1>1. "mail" \in Awaits /\ "mail" \in OfInvoices BY DEF Awaits, OfInvoices
<1>2. /\ job[j].at = "mail" /\ CarriesOn(job[j]) /\ End(j)
      /\ mailed' \in {mailed, mailed \cup {job[j].id}}
      /\ UNCHANGED <<contractor, invoice, submitted, audit, served, seenBy, raced, unlogged>>
    BY <1>1, WaitsIs DEF MailRejection, workforceHistory
<1>3. job[j].id \in DOMAIN invoice /\ Entry("INVOICE_REJECTED", job[j].id) \in audit
    BY <1>1, <1>2 DEF CarriesOn
<1>4. OnlyJob(j) /\ job'[j] = Idle BY <1>2, EndsJob DEF OnlyJob
<1>5. RowsGrow BY <1>2, RowParts DEF RowsGrow
<1>6. JobsCarryOn' BY <1>4, <1>5, JobsKeep
<1>7. WorkforceTypes' BY <1>2, <1>3, <1>4 DEF RowsInv, WorkforceTypes, OnlyJob
<1>8. /\ TwinsWereUnaware' /\ UsdcWalletsAreAddresses' /\ InvoicesHaveContractors' /\ SubmittedOnce'
    BY <1>2 DEF RowsInv, TwinsWereUnaware, UsdcWalletsAreAddresses, InvoicesHaveContractors,
           FoundContractor, FoundRow, SubmittedOnce
<1>9. MailedIsRejected'
  <2> SUFFICES ASSUME NEW i \in mailed' PROVE Entry("INVOICE_REJECTED", i) \in audit
      BY <1>2 DEF MailedIsRejected, Entry
  <2>1. CASE i \in mailed BY <2>1 DEF RowsInv, MailedIsRejected
  <2>2. CASE i = job[j].id BY <1>3, <2>2
  <2>3. QED BY <1>2, <2>1, <2>2
<1>10. AuditIsComplete'
  <2>1. \A e : Logged(e) => Logged(e)' BY <1>4, <1>5, LoggedStays
  <2>2. QED BY <1>2, <2>1 DEF RowsInv, AuditIsComplete
<1>11. QED BY <1>6, <1>7, <1>8, <1>9, <1>10 DEF RowsInv

-----------------------------------------------------------------------------
LEMMA RowsStart == WorkforceInit => RowsInv
<1> SUFFICES ASSUME WorkforceInit PROVE RowsInv OBVIOUS
<1>1. /\ contractor = <<>> /\ invoice = <<>> /\ submitted = <<>> /\ audit = {} /\ mailed = {}
      /\ job = [j \in Jobs |-> Idle] /\ served = 0 /\ seenBy = <<>> /\ raced = {} /\ unlogged = {}
    BY DEF WorkforceInit
<1>2. /\ MaxContractors \in Nat /\ MaxInvoices \in Nat /\ MaxJobs \in Nat OBVIOUS
<1>3. \A S : <<>> \in Seq(S) OBVIOUS
<1>4. Len(<<>>) = 0 /\ DOMAIN <<>> = {} OBVIOUS
<1>5. WorkforceTypes BY <1>1, <1>2, <1>3, <1>4 DEF WorkforceTypes
<1>6. SubmittedOnce BY <1>1, <1>3, <1>4 DEF SubmittedOnce
<1>7. JobsCarryOn BY <1>1 DEF JobsCarryOn
<1>8. /\ TwinsWereUnaware /\ UsdcWalletsAreAddresses /\ InvoicesHaveContractors /\ AuditIsComplete
      /\ MailedIsRejected
    BY <1>1, <1>4 DEF TwinsWereUnaware, UsdcWalletsAreAddresses, InvoicesHaveContractors,
                      AuditIsComplete, MailedIsRejected
<1>9. QED BY <1>5, <1>6, <1>7, <1>8 DEF RowsInv

LEMMA JobStepKeeps ==
    ASSUME RowsInv, NEW j \in Jobs, JobStep(j) PROVE RowsInv'
<1>1. CASE SetApproved(j)
  <2>1. Decides("approved", "APPROVED", "INVOICE_APPROVED", "idle") BY DEF Decides
  <2>2. QED BY <1>1, <2>1, SetDecisionKeeps DEF SetApproved
<1>2. CASE SetRejected(j)
  <2>1. Decides("rejected", "REJECTED", "INVOICE_REJECTED", "mail") BY DEF Decides
  <2>2. QED BY <1>2, <2>1, SetDecisionKeeps DEF SetRejected
<1>3. CASE SetRejectedQuietly(j)
  <2>1. Decides("rejected quietly", "REJECTED", "INVOICE_REJECTED", "idle") BY DEF Decides
  <2>2. QED BY <1>3, <2>1, SetDecisionKeeps DEF SetRejectedQuietly
<1>4. CASE CreateContractor(j) \/ WriteProfile(j) \/ WriteKyc(j) \/ CountOpen(j) \/ DeleteContractor(j)
    BY <1>4, CreateContractorKeeps, WriteProfileKeeps, WriteKycKeeps, CountOpenKeeps,
       DeleteContractorKeeps
<1>5. CASE LookAgain(j) \/ InsertInvoice(j) \/ Stamp(j) \/ MarkPaid(j) \/ ReadToApprove(j)
    BY <1>5, LookAgainKeeps, InsertInvoiceKeeps, StampKeeps, MarkPaidKeeps, ReadToApproveKeeps
<1>6. CASE MailRejection(j) \/ WriteAudit(j) \/ Stop(j)
    BY <1>6, MailRejectionKeeps, WriteAuditKeeps, StopKeeps
<1>7. QED BY <1>1, <1>2, <1>3, <1>4, <1>5, <1>6 DEF JobStep

LEMMA RowsStep == RowsInv /\ [WorkforceNext]_workforceVars => RowsInv'
<1>1. CASE WorkforceNext /\ RowsInv
  <2>1. PICK j \in Jobs :
            \/ Free(j) /\ \E u \in Sessions : ContractorStep(j, u) \/ InvoiceStep(j, u)
            \/ JobStep(j)
      BY <1>1 DEF WorkforceNext
  <2>2. CASE JobStep(j) BY <1>1, <2>2, JobStepKeeps
  <2>3. ASSUME Free(j), NEW u \in Sessions, ContractorStep(j, u) \/ InvoiceStep(j, u) PROVE RowsInv'
      BY <1>1, <2>3, ContractorStepKeeps, InvoiceStepKeeps
  <2>4. QED BY <2>1, <2>2, <2>3
<1>2. CASE RowsInv /\ UNCHANGED workforceVars
  <2>1. UNCHANGED <<contractor, invoice, submitted, audit, mailed, job, served, seenBy, raced, unlogged>>
      BY <1>2 DEF workforceVars, workforceTables, workforceHistory
  <2>2. \A r : CarriesOn(r) => CarriesOn(r)'
      BY <2>1 DEF CarriesOn, NoTwinOf, IsContinuation
  <2>3. JobsCarryOn' BY <1>2, <2>1 DEF RowsInv, JobsCarryOn, IsJob, CarriesOn, NoTwinOf, IsContinuation
  <2>4. /\ WorkforceTypes' /\ SubmittedOnce' /\ MailedIsRejected'
      BY <1>2, <2>1 DEF RowsInv, WorkforceTypes, SubmittedOnce, MailedIsRejected
  <2>5. /\ TwinsWereUnaware' /\ UsdcWalletsAreAddresses' /\ InvoicesHaveContractors'
      BY <1>2, <2>1 DEF RowsInv, TwinsWereUnaware, UsdcWalletsAreAddresses, InvoicesHaveContractors,
             FoundContractor, FoundRow
  <2>6. AuditIsComplete'
    <3>1. \A e : Logged(e) => Logged(e)' BY <2>1 DEF Logged, Waits
    <3>2. QED BY <1>2, <2>1, <3>1 DEF RowsInv, AuditIsComplete
  <2>7. QED BY <2>3, <2>4, <2>5, <2>6 DEF RowsInv
<1>3. QED BY <1>1, <1>2

LEMMA RowsGiveSound == RowsInv => RowsAreSound
<1> SUFFICES ASSUME RowsInv PROVE RowsAreSound OBVIOUS
<1>1. ToSet(submitted) = DOMAIN invoice
  <2>1. /\ submitted \in Seq(DOMAIN invoice)
        /\ \A i \in DOMAIN invoice : \E n \in DOMAIN submitted : submitted[n] = i
      BY DEF RowsInv, SubmittedOnce
  <2>2. \A n \in DOMAIN submitted : submitted[n] \in DOMAIN invoice BY <2>1, ElementOfSeq
  <2>3. ToSet(submitted) = {submitted[n] : n \in DOMAIN submitted} BY DEF ToSet
  <2>4. QED BY <2>1, <2>2, <2>3
<1>2. WorkforceTypeOK BY <1>1 DEF RowsInv, WorkforceTypes, SubmittedOnce, WorkforceTypeOK
<1>3. QED BY <1>2 DEF RowsInv, RowsAreSound

(* Whatever the requests of a company do to each other, and wherever one of *)
(* them stops: contractors who share an email were created unaware of each  *)
(* other, the wallet of a USDC contractor is an address, if it has one,     *)
(* unless two profile changes overlapped, no invoice loses its contractor,  *)
(* every decision is audited or was stopped right before it, a deletion is  *)
(* audited before it happens, and a contractor is told only of a rejection  *)
(* that is on record (contractor.service.ts, invoice.service.ts).           *)
THEOREM RowsStaySound == WorkforceSpec => []RowsAreSound
<1>1. WorkforceInit => RowsInv BY RowsStart
<1>2. RowsInv /\ [WorkforceNext]_workforceVars => RowsInv' BY RowsStep
<1>3. RowsInv => RowsAreSound BY RowsGiveSound
<1>4. QED BY <1>1, <1>2, <1>3, PTL DEF WorkforceSpec

-----------------------------------------------------------------------------
HIDE WorkforceAssumption

(* Listings.                                                                *)

(* The concatenation of any pieces, as a recursive function builds it.      *)
LastFirst(f, L, piece) == f = [n \in 0 .. L |-> IF n = 0 THEN <<>> ELSE piece[n] \o f[n - 1]]

(* There is such a function.                                                *)
LEMMA LastFirstExists ==
    ASSUME NEW L \in Nat, NEW piece
    PROVE  \E f : LastFirst(f, L, piece)
<1> DEFINE T == {n \in Nat : \E g : LastFirst(g, n, piece)}
<1>1. 0 \in T
  <2> DEFINE g == [n \in 0 .. 0 |-> <<>>]
  <2>1. g = [n \in 0 .. 0 |-> IF n = 0 THEN <<>> ELSE piece[n] \o g[n - 1]] OBVIOUS
  <2>2. LastFirst(g, 0, piece) BY <2>1 DEF LastFirst
  <2>3. QED BY <2>2
<1>2. ASSUME NEW n \in T PROVE n + 1 \in T
  <2>1. PICK g : g = [k \in 0 .. n |-> IF k = 0 THEN <<>> ELSE piece[k] \o g[k - 1]]
      BY DEF LastFirst
  <2> DEFINE h == [k \in 0 .. n + 1 |-> IF k = n + 1 THEN piece[n + 1] \o g[n] ELSE g[k]]
             H == [k \in 0 .. n + 1 |-> IF k = 0 THEN <<>> ELSE piece[k] \o h[k - 1]]
  <2>2. \A k \in 0 .. n + 1 : h[k] = IF k = 0 THEN <<>> ELSE piece[k] \o h[k - 1]
    <3> TAKE k \in 0 .. n + 1
    <3>1. CASE k = n + 1
      <4>1. k # 0 /\ k - 1 = n /\ n \in 0 .. n + 1 /\ n # n + 1 BY <3>1
      <4>2. h[n] = g[n] BY <4>1
      <4>3. QED BY <3>1, <4>1, <4>2
    <3>2. CASE k # n + 1
      <4>1. k \in 0 .. n BY <3>2
      <4>2. h[k] = g[k] BY <3>2
      <4>3. CASE k = 0 BY <2>1, <4>1, <4>2, <4>3
      <4>4. CASE k # 0
        <5>1. k - 1 \in 0 .. n + 1 /\ k - 1 # n + 1 BY <4>1, <4>4
        <5>2. h[k - 1] = g[k - 1] BY <5>1
        <5>3. QED BY <2>1, <4>1, <4>2, <4>4, <5>2
      <4>5. QED BY <4>3, <4>4
    <3>3. QED BY <3>1, <3>2
  <2>3. h = H
    <3>1. DOMAIN h = 0 .. n + 1 /\ DOMAIN H = 0 .. n + 1 OBVIOUS
    <3>2. h = [k \in 0 .. n + 1 |-> h[k]] OBVIOUS
    <3> HIDE DEF h
    <3>3. [k \in 0 .. n + 1 |-> h[k]] = H BY <2>2
    <3>4. QED BY <3>2, <3>3
  <2>4. LastFirst(h, n + 1, piece)
    <3> HIDE DEF h
    <3>1. QED BY <2>3 DEF LastFirst
  <2> HIDE DEF h, H
  <2>5. n + 1 \in Nat OBVIOUS
  <2>6. QED BY <2>4, <2>5
<1>3. T = Nat
  <2> HIDE DEF T
  <2>1. T \in SUBSET Nat BY DEF T
  <2>2. QED BY <1>1, <1>2, <2>1, NatSetInduction
<1>4. QED BY <1>3

(* What a listing keeps: of each submission its row or nothing.             *)
Wanted(i, company, only) == invoice[i].company = company /\ only \in {Nowhere, invoice[i].contractor}
Kept(company, only) ==
    [n \in 1 .. Len(submitted) |->
        IF Wanted(submitted[n], company, only) THEN <<submitted[n]>> ELSE <<>>]
ListedRows(company, only) ==
    CHOOSE f : f = [n \in 0 .. Len(submitted) |->
        IF n = 0 THEN <<>>
        ELSE (IF Wanted(submitted[n], company, only) THEN <<submitted[n]>> ELSE <<>>) \o f[n - 1]]

(* A listing is what that recursion ends with.                              *)
LEMMA NewestIsRows ==
    ASSUME NEW company, NEW only
    PROVE  Newest(company, only) = ListedRows(company, only)[Len(submitted)]
BY DEF Newest, ListedRows, Wanted

(* It has a first value, and each follows from the one before.              *)
LEMMA RowsExist ==
    ASSUME RowsInv, NEW company, NEW only
    PROVE  LET f == ListedRows(company, only)
           IN  /\ Len(submitted) \in Nat /\ f[0] = <<>>
               /\ \A n \in 1 .. Len(submitted) :
                      f[n] = (IF Wanted(submitted[n], company, only) THEN <<submitted[n]>> ELSE <<>>)
                                 \o f[n - 1]
<1> DEFINE f == ListedRows(company, only)
           L == Len(submitted)
           K == Kept(company, only)
<1>1. L \in Nat BY DEF RowsInv, SubmittedOnce
<1>2. PICK g : LastFirst(g, L, K) BY <1>1, LastFirstExists
<1>3. g = [n \in 0 .. L |-> IF n = 0 THEN <<>>
        ELSE (IF Wanted(submitted[n], company, only) THEN <<submitted[n]>> ELSE <<>>) \o g[n - 1]]
  <2> DEFINE G == [n \in 0 .. L |-> IF n = 0 THEN <<>>
        ELSE (IF Wanted(submitted[n], company, only) THEN <<submitted[n]>> ELSE <<>>) \o g[n - 1]]
             I == [n \in 0 .. L |-> IF n = 0 THEN <<>> ELSE K[n] \o g[n - 1]]
  <2>1. g = I BY <1>2 DEF LastFirst
  <2>2. \A n \in 0 .. L : n # 0 =>
            K[n] = IF Wanted(submitted[n], company, only) THEN <<submitted[n]>> ELSE <<>>
    <3>1. \A n \in 0 .. L : n # 0 => n \in 1 .. L BY <1>1
    <3>2. QED BY <3>1 DEF Kept
  <2>3. I = G
    <3> HIDE DEF K, L
    <3>1. QED BY <2>2
  <2>4. QED BY <2>1, <2>3
<1>4. f = [n \in 0 .. L |-> IF n = 0 THEN <<>>
        ELSE (IF Wanted(submitted[n], company, only) THEN <<submitted[n]>> ELSE <<>>) \o f[n - 1]]
  BY <1>3 DEF ListedRows
<1> HIDE DEF f, K
<1>5. 0 \in 0 .. L /\ f[0] = <<>> BY <1>1, <1>4
<1>6. ASSUME NEW n \in 1 .. L
      PROVE  f[n] = (IF Wanted(submitted[n], company, only) THEN <<submitted[n]>> ELSE <<>>) \o f[n - 1]
  <2>1. n \in 0 .. L /\ n # 0 BY <1>1
  <2> HIDE DEF L
  <2>2. QED BY <1>4, <2>1
<1>7. QED BY <1>1, <1>5, <1>6 DEF f

(* A listing is a sequence of the invoices that are wanted.                 *)
LEMMA NewestAreWanted ==
    ASSUME RowsInv, NEW company, NEW only
    PROVE  /\ Newest(company, only) \in Seq(DOMAIN invoice)
           /\ \A i \in ToSet(Newest(company, only)) : Wanted(i, company, only)
<1> DEFINE f == ListedRows(company, only)
           L == Len(submitted)
           W == {i \in DOMAIN invoice : Wanted(i, company, only)}
           T == {n \in Nat : n <= L => f[n] \in Seq(W)}
<1>1. /\ L \in Nat /\ f[0] = <<>>
      /\ \A n \in 1 .. L :
             f[n] = (IF Wanted(submitted[n], company, only) THEN <<submitted[n]>> ELSE <<>>) \o f[n - 1]
    BY RowsExist
<1>2. \A n \in 1 .. L : submitted[n] \in DOMAIN invoice
  <2>1. submitted \in Seq(DOMAIN invoice) BY DEF RowsInv, SubmittedOnce
  <2>2. DOMAIN submitted = 1 .. L BY <2>1
  <2>3. QED BY <2>1, <2>2, ElementOfSeq
<1> HIDE DEF f, L
<1>3. 0 \in T
  <2>1. \A S : <<>> \in Seq(S) OBVIOUS
  <2>2. QED BY <1>1, <2>1
<1>4. ASSUME NEW n \in T PROVE n + 1 \in T
  <2> SUFFICES ASSUME n + 1 <= L PROVE f[n + 1] \in Seq(W) OBVIOUS
  <2>1. n + 1 \in 1 .. L /\ (n + 1) - 1 = n /\ n <= L BY <1>1
  <2>2. f[n] \in Seq(W) BY <2>1
  <2> DEFINE piece == IF Wanted(submitted[n + 1], company, only) THEN <<submitted[n + 1]>> ELSE <<>>
  <2>3. piece \in Seq(W)
    <3>1. CASE Wanted(submitted[n + 1], company, only)
      <4>1. submitted[n + 1] \in W BY <1>2, <2>1, <3>1
      <4> HIDE DEF W
      <4>2. <<submitted[n + 1]>> \in Seq(W) BY <4>1
      <4>3. QED BY <3>1, <4>2
    <3>2. CASE ~Wanted(submitted[n + 1], company, only) BY <3>2
    <3>3. QED BY <3>1, <3>2
  <2>4. f[n + 1] = piece \o f[n] BY <1>1, <2>1
  <2> HIDE DEF piece, W
  <2>5. QED BY <2>2, <2>3, <2>4
<1>5. T = Nat
  <2> HIDE DEF T
  <2>1. T \in SUBSET Nat BY DEF T
  <2>2. QED BY <1>3, <1>4, <2>1, NatSetInduction
<1>6. f[L] \in Seq(W) BY <1>1, <1>5
<1>7. Newest(company, only) = f[L] BY NewestIsRows DEF f, L
<1> DEFINE s == f[L]
<1>8. \A k \in DOMAIN s : s[k] \in W
  <2> HIDE DEF W, s
  <2>1. s \in Seq(W) BY <1>6 DEF s
  <2>2. DOMAIN s = 1 .. Len(s) BY <2>1
  <2>3. QED BY <2>1, <2>2, ElementOfSeq
<1>9. \A i \in ToSet(s) : i \in W BY <1>8 DEF ToSet
<1>10. s \in Seq(DOMAIN invoice)
  <2> HIDE DEF W, s
  <2>1. s \in Seq(W) /\ W \subseteq DOMAIN invoice BY <1>6 DEF s, W
  <2>2. QED BY <2>1
<1>11. QED BY <1>7, <1>9, <1>10 DEF W

(* A route shows a session no more than the policies would.                 *)
LEMMA PoliciesCoverRoutes == ASSUME RowsInv PROVE ShownWithinPolicies
<1> DEFINE seats == [u \in Sessions |-> u.company]
<1> SUFFICES ASSUME NEW u \in Sessions
             PROVE  /\ \A c \in ListedContractors(u) :
                           CompanyRowVisible(seats, u, contractor[c].company)
                    /\ \A i \in DOMAIN invoice :
                           \/ MayOpen(u, i)
                           \/ MayList(u) /\ \E asked \in DOMAIN contractor \cup {Nowhere} :
                                                i \in ToSet(ListedInvoices(u, asked))
                           => /\ CompanyRowVisible(seats, u, invoice[i].company)
                              /\ KnownToPolicies(u) =>
                                     InvoiceVisible(seats, u, u.claims, invoice[i].company,
                                                    invoice[i].contractor)
    BY DEF ShownWithinPolicies
<1>1. seats[u] = u.company OBVIOUS
<1> HIDE DEF seats
<1>2. \A c \in ListedContractors(u) : CompanyRowVisible(seats, u, contractor[c].company)
    BY <1>1 DEF ListedContractors, FoundContractor, FoundRow, CompanyRowVisible
<1>3. ASSUME NEW i \in DOMAIN invoice,
             \/ MayOpen(u, i)
             \/ MayList(u) /\ \E asked \in DOMAIN contractor \cup {Nowhere} :
                                  i \in ToSet(ListedInvoices(u, asked))
      PROVE  /\ CompanyRowVisible(seats, u, invoice[i].company)
             /\ KnownToPolicies(u) =>
                    InvoiceVisible(seats, u, u.claims, invoice[i].company, invoice[i].contractor)
  <2>1. invoice[i].contractor # Nowhere
    <3>1. invoice[i] \in InvoiceRows BY RowParts
    <3>2. invoice[i].contractor \in 1 .. MaxContractors BY <3>1 DEF InvoiceRows
    <3>3. QED BY <3>2, NobodyAssumption
  <2>2. /\ invoice[i].company = u.company
        /\ CallerRole(u) = "contractor" => invoice[i].contractor = ContractorIdOf(u)
    <3>1. CASE MayOpen(u, i) BY <3>1 DEF MayOpen, FoundRow
    <3>2. ASSUME MayList(u), NEW asked, i \in ToSet(ListedInvoices(u, asked))
          PROVE  /\ invoice[i].company = u.company
                 /\ CallerRole(u) = "contractor" => invoice[i].contractor = ContractorIdOf(u)
      <4> DEFINE only == IF CallerRole(u) = "contractor" THEN ContractorIdOf(u) ELSE asked
      <4>1. i \in ToSet(Newest(u.company, only)) BY <3>2 DEF ListedInvoices
      <4> HIDE DEF only
      <4>2. Wanted(i, u.company, only) BY <4>1, NewestAreWanted
      <4>3. QED BY <3>2, <4>2 DEF Wanted, MayList, only
    <3>3. QED BY <1>3, <3>1, <3>2
  <2>3. CallerRole(u) = "contractor" \/ CurrentAuthRole(u.claims) = "admin" BY DEF CallerRole
  <2>4. QED BY <1>1, <2>1, <2>2, <2>3 DEF CompanyRowVisible, KnownToPolicies, InvoiceVisible
<1>4. QED BY <1>2, <1>3

(* Pieces put together from the first to the last.                          *)
Flat(seqs) == CHOOSE f : f = [i \in 1 .. Len(seqs) |-> IF i = 1 THEN seqs[i] ELSE f[i - 1] \o seqs[i]]

(* Flattening ends with what its recursion ends with.                       *)
LEMMA FlattenSeqIsFlat ==
    ASSUME NEW seqs, Len(seqs) # 0 PROVE FlattenSeq(seqs) = Flat(seqs)[Len(seqs)]
BY DEF FlattenSeq, Flat

(* What flattens the first pieces, one piece at a time, flattens them all.  *)
Flattens(g, seqs, n) ==
    /\ n \in Nat \ {0} /\ Len(seqs) = n
    /\ g[1] = seqs[1] /\ \A i \in 2 .. n : g[i] = g[i - 1] \o seqs[i]

LEMMA FlatIs ==
    ASSUME NEW seqs, NEW n, NEW g, Flattens(g, seqs, n) PROVE FlattenSeq(seqs) = g[n]
<1>0. /\ n \in Nat \ {0} /\ Len(seqs) = n
      /\ g[1] = seqs[1] /\ \A i \in 2 .. n : g[i] = g[i - 1] \o seqs[i]
    BY DEF Flattens
<1> DEFINE h == [i \in 1 .. n |-> g[i]]
           H == [i \in 1 .. n |-> IF i = 1 THEN seqs[i] ELSE h[i - 1] \o seqs[i]]
           f == Flat(seqs)
           T == {k \in Nat : k + 1 <= n => f[k + 1] = g[k + 1]}
<1>1. \A i \in 1 .. n : h[i] = IF i = 1 THEN seqs[i] ELSE h[i - 1] \o seqs[i]
  <2> TAKE i \in 1 .. n
  <2>1. CASE i = 1 BY <1>0, <2>1
  <2>2. CASE i # 1
    <3>1. i \in 2 .. n /\ i - 1 \in 1 .. n BY <1>0, <2>2
    <3>2. QED BY <1>0, <2>2, <3>1
  <2>3. QED BY <2>1, <2>2
<1>2. h = H
  <2>1. h = [i \in 1 .. n |-> h[i]] OBVIOUS
  <2> HIDE DEF h
  <2>2. [i \in 1 .. n |-> h[i]] = H BY <1>1
  <2>3. QED BY <2>1, <2>2
<1>3. f = [i \in 1 .. n |-> IF i = 1 THEN seqs[i] ELSE f[i - 1] \o seqs[i]]
  <2> HIDE DEF h
  <2>1. QED BY <1>0, <1>2 DEF Flat
<1> HIDE DEF f
<1>4. 0 \in T
  <2>1. 1 \in 1 .. n BY <1>0
  <2>2. QED BY <1>0, <1>3, <2>1
<1>5. ASSUME NEW k \in T PROVE k + 1 \in T
  <2> SUFFICES ASSUME (k + 1) + 1 <= n PROVE f[(k + 1) + 1] = g[(k + 1) + 1] OBVIOUS
  <2>1. /\ (k + 1) + 1 \in 1 .. n /\ (k + 1) + 1 \in 2 .. n /\ (k + 1) + 1 # 1
        /\ ((k + 1) + 1) - 1 = k + 1 /\ k + 1 <= n
      BY <1>0
  <2>2. f[k + 1] = g[k + 1] BY <2>1
  <2>3. f[(k + 1) + 1] = f[k + 1] \o seqs[(k + 1) + 1] BY <1>3, <2>1
  <2>4. g[(k + 1) + 1] = g[k + 1] \o seqs[(k + 1) + 1] BY <1>0, <2>1
  <2>5. QED BY <2>2, <2>3, <2>4
<1>6. T = Nat
  <2> HIDE DEF T
  <2>1. T \in SUBSET Nat BY DEF T
  <2>2. QED BY <1>4, <1>5, <2>1, NatSetInduction
<1>7. f[n] = g[n]
  <2>1. n - 1 \in Nat /\ (n - 1) + 1 = n BY <1>0
  <2>2. n - 1 \in T BY <1>6, <2>1
  <2>3. QED BY <2>1, <2>2
<1>8. QED BY <1>0, <1>7, FlattenSeqIsFlat DEF f

(* So many pages of a size, the last of them not empty, hold so many rows.  *)
LEMMA PagesNeeded ==
    ASSUME NEW L \in Nat, NEW size \in Nat \ {0}
    PROVE  LET t == (L + size - 1) \div size
           IN  /\ t \in Nat /\ L <= t * size /\ (t = 0 <=> L = 0)
               /\ \A i \in 1 .. t : (i - 1) * size < L /\ (i - 1) * size \in Nat
<1> DEFINE m == L + size - 1
           t == m \div size
           r == m % size
<1>1. m \in Nat OBVIOUS
<1>2. t \in Nat /\ r \in 0 .. size - 1 /\ m = size * t + r
  <2> HIDE DEF m
  <2>1. QED BY <1>1
<1> HIDE DEF t, r
<1>3. size * t = t * size BY <1>2
<1>4. L <= t * size BY <1>2, <1>3
<1>5. ASSUME NEW i \in 1 .. t PROVE (i - 1) * size < L /\ (i - 1) * size \in Nat
  <2>1. i - 1 \in Nat /\ t - i \in Nat BY <1>2
  <2>2. (i - 1) * size \in Nat /\ (t - i) * size \in Nat BY <2>1
  <2>3. t * size = ((i - 1) * size + (t - i) * size) + size BY <1>2, <2>1
  <2>4. t * size <= L + size - 1 BY <1>2, <1>3
  <2>5. QED BY <1>2, <1>3, <2>2, <2>3, <2>4
<1>6. t = 0 <=> L = 0
  <2>1. ASSUME t = 0 PROVE L = 0 BY <1>4, <2>1
  <2>2. ASSUME L = 0, t # 0 PROVE FALSE
    <3>1. 1 \in 1 .. t BY <1>2, <2>2
    <3>2. (1 - 1) * size < L BY <1>5, <3>1
    <3>3. QED BY <2>2, <3>2
  <2>3. QED BY <2>1, <2>2
<1>7. QED BY <1>2, <1>4, <1>5, <1>6 DEF t

(* A table over the first numbers is a sequence.                            *)
LEMMA TableIsSeq ==
    ASSUME NEW n \in Nat, NEW T, NEW f, f = [i \in 1 .. n |-> f[i]], \A i \in 1 .. n : f[i] \in T
    PROVE  f \in Seq(T) /\ Len(f) = n
OBVIOUS

(* The pages of a sequence, one after another, are the sequence.            *)
LEMMA PagesAreAll ==
    ASSUME NEW S, NEW rows \in Seq(S), NEW size \in Nat \ {0}
    PROVE  rows = FlattenSeq([page \in 1 .. TotalPages(rows, size) |-> Page(rows, page, size)])
<1> DEFINE L == Len(rows)
           t == TotalPages(rows, size)
           pages == [page \in 1 .. t |-> Page(rows, page, size)]
           upto(i) == IF i * size < L THEN i * size ELSE L
           g == [i \in 1 .. t |-> SubSeq(rows, 1, upto(i))]
<1>1. L \in Nat OBVIOUS
<1>2. /\ t \in Nat /\ L <= t * size /\ (t = 0 <=> L = 0)
      /\ \A i \in 1 .. t : (i - 1) * size < L /\ (i - 1) * size \in Nat
  <2> HIDE DEF L
  <2>1. QED BY <1>1, PagesNeeded DEF TotalPages, L
<1> HIDE DEF t
<1>3. \A i \in 1 .. t : pages[i] = SubSeq(rows, (i - 1) * size + 1, upto(i))
    BY DEF Page
<1>4. pages \in Seq(Seq(S)) /\ Len(pages) = t
  <2>1. ASSUME NEW i \in 1 .. t PROVE pages[i] \in Seq(S)
    <3>1. (i - 1) * size \in Nat /\ i \in Nat /\ i * size \in Nat BY <1>2
    <3>2. upto(i) \in 0 .. L BY <1>1, <3>1
    <3> HIDE DEF upto, pages
    <3>3. pages[i] = SubSeq(rows, (i - 1) * size + 1, upto(i)) BY <1>3
    <3> DEFINE a == (i - 1) * size + 1
    <3>4. a \in Nat \ {0} BY <3>1
    <3> HIDE DEF a
    <3>5. SubSeq(rows, a, upto(i)) \in Seq(S) BY <3>2, <3>4
    <3>6. QED BY <3>3, <3>5 DEF a
  <2>2. pages = [page \in 1 .. t |-> pages[page]] OBVIOUS
  <2> HIDE DEF pages
  <2>3. t \in Nat BY <1>2
  <2>4. QED BY <2>1, <2>2, <2>3, TableIsSeq
<1>5. CASE t = 0
  <2>1. rows = <<>> BY <1>1, <1>2, <1>5
  <2>2. pages = <<>>
    <3> HIDE DEF pages
    <3>1. QED BY <1>4, <1>5
  <2>3. FlattenSeq(pages) = pages
    <3> HIDE DEF pages
    <3>1. QED BY <1>4, <1>5 DEF FlattenSeq
  <2>4. QED BY <2>1, <2>2, <2>3 DEF t
<1>6. CASE t # 0
  <2>1. t \in Nat \ {0} /\ 1 \in 1 .. t BY <1>2, <1>6
  <2>2. g[1] = pages[1]
    <3>1. (1 - 1) * size + 1 = 1 OBVIOUS
    <3>2. QED BY <1>3, <2>1, <3>1
  <2>3. ASSUME NEW i \in 2 .. t PROVE g[i] = g[i - 1] \o pages[i]
    <3> DEFINE m == (i - 1) * size
               e == upto(i)
    <3>1. i \in 1 .. t /\ i - 1 \in 1 .. t /\ i \in Nat BY <1>2
    <3>2. m \in Nat /\ m < L BY <1>2, <3>1
    <3>3. upto(i - 1) = m BY <3>2
    <3>4. i * size = m + size BY <3>1
    <3>5. e \in m .. L BY <1>1, <3>2, <3>4
    <3>6. g[i - 1] = SubSeq(rows, 1, m) /\ g[i] = SubSeq(rows, 1, e)
        BY <3>1, <3>3
    <3>7. pages[i] = SubSeq(rows, m + 1, e) BY <1>3, <3>1
    <3> HIDE DEF m, e, g, pages, L
    <3>8. SubSeq(rows, 1, e) = SubSeq(rows, 1, m) \o SubSeq(rows, m + 1, e)
        BY <1>1, <3>2, <3>5 DEF L
    <3>9. QED BY <3>6, <3>7, <3>8
  <2>4. g[t] = rows
    <3>1. t \in 1 .. t /\ upto(t) = L BY <1>1, <1>2, <2>1
    <3>2. SubSeq(rows, 1, L) = rows OBVIOUS
    <3>3. QED BY <3>1, <3>2
  <2>5. FlattenSeq(pages) = g[t]
    <3>1. Len(pages) = t /\ t \in Nat \ {0} BY <1>4, <2>1
    <3>2. \A i \in 2 .. t : g[i] = g[i - 1] \o pages[i] BY <2>3
    <3> HIDE DEF g, pages
    <3>3. Flattens(g, pages, t) BY <2>2, <3>1, <3>2 DEF Flattens
    <3>4. QED BY <3>3, FlatIs
  <2>6. QED BY <2>4, <2>5 DEF t
<1>7. QED BY <1>5, <1>6

(* The rows as they are kept make every listing sound.                      *)
LEMMA ListingsHold == RowsInv => ListingsAreSound
<1> SUFFICES ASSUME RowsInv PROVE ListingsAreSound OBVIOUS
<1>1. PagesAreTheListing
  <2> SUFFICES ASSUME NEW u \in Sessions, NEW size \in 1 .. MaxInvoices
               PROVE  LET rows == ListedInvoices(u, Nowhere)
                      IN  rows = FlattenSeq([page \in 1 .. TotalPages(rows, size) |->
                                                 Page(rows, page, size)])
      BY DEF PagesAreTheListing
  <2>1. ListedInvoices(u, Nowhere) \in Seq(DOMAIN invoice) BY NewestAreWanted DEF ListedInvoices
  <2>2. size \in Nat \ {0} BY RowParts
  <2>3. QED BY <2>1, <2>2, PagesAreAll
<1>2. QED BY <1>1, PoliciesCoverRoutes DEF ListingsAreSound

(* Whatever has been submitted, decided and moved to the end meanwhile, and *)
(* for any number of invoices and any page size: a listing or a single      *)
(* invoice shows a session rows of its own company only, and no row that    *)
(* the row level policies would keep from a session they know; and the      *)
(* pages of a listing, put together, are the listing (GET of                *)
(* app/api/invoices/route.ts and listInvoices).                             *)
THEOREM ListingsStaySound == WorkforceSpec => []ListingsAreSound
<1>1. WorkforceInit => RowsInv BY RowsStart
<1>2. RowsInv /\ [WorkforceNext]_workforceVars => RowsInv' BY RowsStep
<1>3. RowsInv => ListingsAreSound BY ListingsHold
<1>4. QED BY <1>1, <1>2, <1>3, PTL DEF WorkforceSpec

=============================================================================
