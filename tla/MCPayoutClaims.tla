--------------------------- MODULE MCPayoutClaims ---------------------------
EXTENDS PayoutClaims, TLC

CONSTANTS i1, w1, w2, a1, a2, a3, r1

MCAmount == [i \in Invoices |-> 1]

AttemptSymmetry == Permutations(Attempts) \cup Permutations(Payees)
=============================================================================
