---------------------------- MODULE InvoiceRules ----------------------------
(***************************************************************************)
(* What POST /api/invoices asks of a submitted form, whoever sends it.     *)
(* Money is in hundredths of a cent, so that sums finer than the cent of   *)
(* the claimed amount can be told apart.                                   *)
(***************************************************************************)
EXTENDS Integers, Sequences, SequencesExt

Cent == 100

LineTotal(items) ==
    SumFunctionOnSet([n \in DOMAIN items |-> items[n].quantity * items[n].price], DOMAIN items)

ValidItems(items) == items # <<>> /\ \A n \in DOMAIN items : items[n].quantity > 0 /\ items[n].price >= 0

(* A form must claim, within a cent, what its lines add up to.              *)
ValidForm(form) ==
    /\ form.amount > 0 /\ form.ends >= form.starts /\ ValidItems(form.items)
    /\ form.amount - LineTotal(form.items) \in -Cent .. Cent

=============================================================================
