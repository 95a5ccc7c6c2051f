---------------------------- MODULE MCWorkforce ----------------------------
(* Two companies, the first with an admin and a contractor's session, and   *)
(* two requests at a time; the compliance alerts of two companies; and the  *)
(* form of a new invoice.  They share no state: "part" says which one a     *)
(* behavior is about.                                                       *)
EXTENDS Workforce, Compliance, InvoiceForm, TLC

CONSTANTS co1, co2, e1, e1typed, w1, malformed, j1, j2, wr1, wr2

Claims(role, c) == [app |-> "", own |-> role, contractor |-> c]
Session(company, role, c) == [company |-> company, claims |-> Claims(role, c), appContractor |-> Nowhere]
MCSessions == {Session(co1, "admin", Nowhere), Session(co1, "contractor", 1), Session(co2, "", Nowhere)}
MCNormal == e1 :> e1 @@ e1typed :> e1
MCForms == {[amount |-> 30100, starts |-> 1, ends |-> 2, items |-> <<[quantity |-> 3, price |-> 10000]>>],
            [amount |-> 30200, starts |-> 1, ends |-> 2, items |-> <<[quantity |-> 3, price |-> 10000]>>]}
WorkforceSymmetry == Permutations({j1, j2}) \cup Permutations({wr1, wr2})

VARIABLE part

PartInit ==
    /\ WorkforceInit /\ ComplianceInit /\ FormInit
    /\ part \in {"workforce", "compliance", "form"}
    /\ part # "form" => form.starts = 1 /\ form.ends = 1
PartNext ==
    /\ UNCHANGED part
    /\ \/ part = "workforce" /\ WorkforceNext /\ UNCHANGED <<complianceVars, formVars>>
       \/ part = "compliance" /\ ComplianceNext /\ UNCHANGED <<workforceVars, formVars>>
       \/ part = "form" /\ FormNext /\ UNCHANGED <<workforceVars, complianceVars>>
PartSpec == PartInit /\ [][PartNext]_<<workforceVars, complianceVars, formVars, part>>

=============================================================================
