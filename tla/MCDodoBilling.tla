--------------------------- MODULE MCDodoBilling ---------------------------
EXTENDS DodoBilling, TLC

CONSTANTS h1, h2, r1, c1, p1

(* A subscription becomes active and is cancelled.                          *)
MCStatusOf == <<"paid", "cancelled">>

MCPaymentOf == [e \in Events |-> p1]

HandlerSymmetry == Permutations(Handlers)
=============================================================================
