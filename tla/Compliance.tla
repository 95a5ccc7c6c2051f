----------------------------- MODULE Compliance -----------------------------
(***************************************************************************)
(* lib/services/compliance.service.ts and the route of its alerts: the     *)
(* alerts a call of executePayout raises before anything is sent, beside   *)
(* payouts of the batch route, which raises none; and the policies of a    *)
(* company, found and then written with no transaction or unique index     *)
(* around the two.                                                         *)
(***************************************************************************)
EXTENDS RowSecurity, Integers, Sequences

CONSTANTS
    Payers,        \* companies
    Organized,     \* those with an organization; old rows may have none
    Amounts,       \* of payouts, in USDC
    LargePayout,   \* COMPLIANCE_LARGE_PAYOUT_ALERT_USDC
    Suspicious,    \* COMPLIANCE_SUSPICIOUS_PAYOUT_ALERT_USDC
    SingleLimit,   \* COMPLIANCE_SINGLE_APPROVAL_LIMIT_USDC
    MaxPayouts,    \* bound: payouts attempted
    PolicyTypes,
    Writers,       \* concurrent requests that write policies
    MaxPolicies    \* bound: policy rows

ASSUME ComplianceAssumption ==
    /\ Organized \subseteq Payers /\ Nowhere \notin Payers
    /\ Amounts \cup {LargePayout, Suspicious, SingleLimit} \subseteq Nat
    /\ {MaxPayouts, MaxPolicies} \subseteq Nat

VARIABLES
    attempt,  \* payouts attempted: their route, what they pay, the await they are at
    alert,    \* ComplianceAlert rows, each with the attempt that raised it
    policy,   \* GovernancePolicy rows, all ACTIVE
    writer,   \* what each policy request has found
    found     \* history: policy rows there were when each one was looked for

complianceVars == <<attempt, alert, policy, writer, found>>

Scopes == {"LARGE_TRANSACTION_ALERT", "MANUAL_APPROVAL_THRESHOLD"}
Alerts == [attempt: 1 .. MaxPayouts, company: Organized, scope: Scopes,
           severity: {"HIGH", "CRITICAL"}]
Policies == [company: Organized, type: PolicyTypes, value: Writers]
Writing(w, label) == writer[w].at = label
Stopped == [at |-> "idle"]

ComplianceTypeOK ==
    /\ attempt \in Seq([route: {"execute", "batch"}, company: Payers, amount: Amounts,
                        at: {"large", "approval", "passed", "failed"}])
    /\ Len(attempt) <= MaxPayouts
    /\ alert \subseteq Alerts
    /\ policy \in Seq(Policies) /\ Len(policy) <= MaxPolicies
    /\ DOMAIN writer = Writers
    /\ Len(found) = Len(policy)

ComplianceInit ==
    /\ attempt = <<>> /\ alert = {}
    /\ policy = <<>> /\ found = <<>>
    /\ writer = [w \in Writers |-> Stopped]

-----------------------------------------------------------------------------
(* A payout attempt.  Nothing blocks: an attempt that is not stopped by a   *)
(* failing write passes on to the transfer.                                 *)

Attempt(route, first) ==
    \E c \in Payers, amount \in Amounts :
        /\ Len(attempt) < MaxPayouts
        /\ attempt' = Append(attempt, [route |-> route, company |-> c, amount |-> amount, at |-> first])
        /\ UNCHANGED <<alert, policy, writer, found>>

ExecutePayout == Attempt("execute", "large")

(* The batch route pays without an evaluation: one attempt for each of its  *)
(* invoices.                                                                *)
BatchPay == Attempt("batch", "passed")

(* An alert needs the organization of the company; without one it is not    *)
(* written and the attempt goes on.                                         *)
CreateComplianceAlert(n, scope, severity) ==
    alert' = IF attempt[n].company \notin Organized THEN alert
             ELSE alert \cup {[attempt |-> n, company |-> attempt[n].company,
                               scope |-> scope, severity |-> severity]}

Reach(n, label) == attempt' = [attempt EXCEPT ![n].at = label]

\* mutant: strictly above
IsOver(n, threshold) == attempt[n].amount > threshold

Reaches(n, threshold) == attempt[n].amount >= threshold

EvaluateLarge(n) ==
    /\ attempt[n].at = "large" /\ Reach(n, "approval")
    /\ IF Reaches(n, LargePayout)
       THEN CreateComplianceAlert(n, "LARGE_TRANSACTION_ALERT",
                                  IF Reaches(n, Suspicious) THEN "CRITICAL" ELSE "HIGH")
       ELSE UNCHANGED alert
    /\ UNCHANGED <<policy, writer, found>>

EvaluateApproval(n) ==
    /\ attempt[n].at = "approval" /\ Reach(n, "passed")
    /\ IF Reaches(n, SingleLimit)
       THEN CreateComplianceAlert(n, "MANUAL_APPROVAL_THRESHOLD", "HIGH")
       ELSE UNCHANGED alert
    /\ UNCHANGED <<policy, writer, found>>

FailAttempt(n) ==
    /\ attempt[n].at \in {"large", "approval"} /\ Reach(n, "failed")
    /\ UNCHANGED <<alert, policy, writer, found>>

(* GET of the alerts: by organization and company.                          *)
ListComplianceAlerts(company) ==
    {a \in alert : company \in Organized /\ a.company = company}

-----------------------------------------------------------------------------
(* POST of a policy: update the one that was found, or create one.          *)

Matching(company, type) ==
    {p \in DOMAIN policy : policy[p].company = company /\ policy[p].type = type}

FindPolicy(w) ==
    \E c \in Organized, type \in PolicyTypes :
        /\ writer[w] = Stopped
        /\ writer' = [writer EXCEPT ![w] = [at |-> "found", company |-> c, type |-> type,
                                            rows |-> Matching(c, type), seen |-> Len(policy)]]
        /\ UNCHANGED <<attempt, alert, policy, found>>

Finished(w) == writer' = [writer EXCEPT ![w] = Stopped]

UpdatePolicy(w) ==
    /\ Writing(w, "found") /\ Finished(w)
    /\ \E p \in writer[w].rows : policy' = [policy EXCEPT ![p].value = w]
    /\ UNCHANGED <<attempt, alert, found>>

CreatePolicy(w) ==
    /\ Writing(w, "found") /\ Finished(w) /\ Len(policy) < MaxPolicies
    /\ writer[w].rows = {}
    /\ policy' = Append(policy, [company |-> writer[w].company, type |-> writer[w].type, value |-> w])
    /\ found' = Append(found, writer[w].seen)
    /\ UNCHANGED <<attempt, alert>>

AbandonPolicy(w) ==
    /\ writer[w] # Stopped /\ Finished(w)
    /\ UNCHANGED <<attempt, alert, policy, found>>

-----------------------------------------------------------------------------
ComplianceNext ==
    \/ ExecutePayout \/ BatchPay
    \/ \E n \in DOMAIN attempt : EvaluateLarge(n) \/ EvaluateApproval(n) \/ FailAttempt(n)
    \/ \E w \in Writers : FindPolicy(w) \/ UpdatePolicy(w) \/ CreatePolicy(w) \/ AbandonPolicy(w)

ComplianceSpec == ComplianceInit /\ [][ComplianceNext]_complianceVars

-----------------------------------------------------------------------------
(* No payout goes out through executePayout unannounced, if its company has *)
(* an organization: one that reached a threshold, to the very amount, has   *)
(* its alerts, and one that did not has none.  Payouts of the batch route   *)
(* have none whatever their amount.                                         *)
PassedIsAnnounced ==
    \A n \in DOMAIN attempt :
        attempt[n].at = "passed" /\ attempt[n].company \in Organized =>
            {a.scope : a \in {b \in alert : b.attempt = n}} =
                (IF attempt[n].route = "batch" \/ attempt[n].amount < LargePayout
                 THEN {} ELSE {"LARGE_TRANSACTION_ALERT"})
                \cup (IF attempt[n].route = "batch" \/ attempt[n].amount < SingleLimit
                      THEN {} ELSE {"MANUAL_APPROVAL_THRESHOLD"})

(* A company has two active policies of one type only when the older was    *)
(* created after the younger one's request had looked for it.               *)
PolicyTwinsWereUnaware ==
    \A p, q \in DOMAIN policy :
        p < q /\ policy[p].company = policy[q].company /\ policy[p].type = policy[q].type
            => p > found[q]

(* A member sees the alerts of its own organization and no others.          *)
AlertsWithinPolicies ==
    \A c \in Payers, a \in alert :
        a \in ListComplianceAlerts(c) => OrganizationRowVisible([u \in {"member"} |-> c], "member", a.company)

(* Alerts of executePayout are complete, policies are single, and a tenant  *)
(* sees its own alerts.                                                     *)
ComplianceIsSound ==
    /\ ComplianceTypeOK /\ PassedIsAnnounced
    /\ PolicyTwinsWereUnaware /\ AlertsWithinPolicies

=============================================================================
