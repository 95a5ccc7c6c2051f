----------------------------- MODULE Settlement -----------------------------
(***************************************************************************)
(* What the payroll promises about one invoice, whatever the machinery:    *)
(* money reaches the contractor at most once, and the books say so only    *)
(* after it did.  A later write may take the entry out of the books again; *)
(* nothing ever takes the payment back.                                    *)
(***************************************************************************)
EXTENDS Naturals

CONSTANT Invoices

VARIABLES
    payments,  \* payments that reached the contractor, per invoice
    booked     \* invoices the books call paid

settlementVars == <<payments, booked>>

SettlementInit ==
    /\ payments = [i \in Invoices |-> 0]
    /\ booked = {}

Settle(i) ==
    /\ payments[i] = 0
    /\ payments' = [payments EXCEPT ![i] = 1]
    /\ UNCHANGED booked

Book(i) ==
    /\ payments[i] = 1
    /\ booked' = booked \cup {i}
    /\ UNCHANGED payments

Unbook(i) ==
    /\ booked' = booked \ {i}
    /\ UNCHANGED payments

SettlementNext == \E i \in Invoices : Settle(i) \/ Book(i) \/ Unbook(i)

SettlementSpec == SettlementInit /\ [][SettlementNext]_settlementVars

=============================================================================
