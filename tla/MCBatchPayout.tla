--------------------------- MODULE MCBatchPayout ---------------------------
EXTENDS BatchPayout, TLC

CONSTANTS i1, i2, w1, a1, r1, b1, b2

MCAmount == [i \in Invoices |-> 1]

(* One request names both invoices, the other only the first.               *)
MCBatchOf == b1 :> {i1, i2} @@ b2 :> {i1}

MCWalletOf == [i \in Invoices |-> w1]
=============================================================================
