------------------------------ MODULE MCEscrow ------------------------------
(***************************************************************************)
(* Two escrows of two different authorities, three wallets, five tokens    *)
(* that are the whole range of the u64.                                    *)
(***************************************************************************)
EXTENDS Escrow

CONSTANTS e1, e2, w1, w2, w3

MCAuthority == [e \in Escrows |-> IF e = e1 THEN w1 ELSE w2]
=============================================================================
