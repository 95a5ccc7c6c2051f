------------------------- MODULE MCTreasuryWebhook -------------------------
(* Two companies: a deposit into the wallet of the first, then a batch it  *)
(* pays, one transfer of which goes to the second company.                 *)
EXTENDS TreasuryWebhook, TLC

CONSTANTS c1, c2, wa, wb, s1, s2, h1, v1

MCWalletOf == c1 :> wa @@ c2 :> wb
MCTransfersOf ==
    s1 :> << [from |-> Outside, to |-> Outside, amount |-> 1],
             [from |-> Outside, to |-> wa, amount |-> 2] >> @@
    s2 :> << [from |-> wa, to |-> Outside, amount |-> 1],
             [from |-> wa, to |-> wb, amount |-> 1] >>
MCMaxDeliveries == s1 :> 1 @@ s2 :> 1
MCPayerOf == s1 :> Outside @@ s2 :> c1

=============================================================================
