---------------------------- MODULE RowSecurity ----------------------------
(***************************************************************************)
(* The row level security policies of prisma/rls-policies.sql: which rows  *)
(* a user's own session may select.  "home" is the company each user's     *)
(* CompanyUser row names (userId is unique) or Nowhere; an organization is *)
(* created together with its one company, so the company stands for both.  *)
(* Claims are the roles of app_metadata and user_metadata, "" when absent, *)
(* and the contractor the user metadata names.                             *)
(***************************************************************************)

CONSTANT Nowhere    \* no company, and no contractor

CurrentAuthRole(claims) == IF claims.app # "" THEN claims.app ELSE claims.own

CurrentContractor(claims) == claims.contractor

CurrentOrganizations(home, u) == {home[u]} \ {Nowhere}

(* Company, Contractor, Payout, AuditLog and UsageEvent rows.               *)
CompanyRowVisible(home, u, company) == home[u] = company

(* Rows that carry an organization.                                         *)
OrganizationRowVisible(home, u, company) == company \in CurrentOrganizations(home, u)

InvoiceVisible(home, u, claims, company, contractor) ==
    \/ CurrentAuthRole(claims) = "admin" /\ home[u] = company
    \/ CurrentAuthRole(claims) = "contractor" /\ contractor = CurrentContractor(claims)

=============================================================================
