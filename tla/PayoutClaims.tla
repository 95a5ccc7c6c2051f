---------------------------- MODULE PayoutClaims ----------------------------
(***************************************************************************)
(* What the repository's documents say of executePayout, where the code    *)
(* does otherwise: the run that checks it ends in a counterexample.        *)
(***************************************************************************)
EXTENDS PayoutEngine

(* docs/member3-solana-payout-engine-complete.md:412: "These protections    *)
(* prevent accidental duplicate payments".  No contractor is paid more than *)
(* the invoice's amount.                                                    *)
NeverOverpaid == \A i \in Invoices : paid[i] <= Amount[i]

=============================================================================
