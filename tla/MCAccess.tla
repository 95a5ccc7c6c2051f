------------------------------ MODULE MCAccess ------------------------------
(* Tenancy, ApiKeys and Transfers share no state: one run checks all three, *)
(* and "part" says which of them a behavior is about.                       *)
EXTENDS Tenancy, ApiKeys, Transfers, TLC

CONSTANTS u1, u2, t1, t2, r1, r2, m1, m2, env, c1, p1, p2, treasury, con, fee

NoClaims == [app |-> "", own |-> "", contractor |-> ""]
MCClaimsOf == u1 :> [NoClaims EXCEPT !.app = "admin"] @@ u2 :> NoClaims
MCTokenOf == u1 :> [issuer |-> "ours", early |-> FALSE, expired |-> FALSE, known |-> TRUE]
          @@ u2 :> [issuer |-> "none", early |-> FALSE, expired |-> FALSE, known |-> TRUE]
MCMemberRoles == {"OWNER", "VIEWER"}
MCScopes == {ManageWebhooks, "payouts:read"}
MCDefaultScopes == {"payouts:read"}
MCAsked == {[scopes |-> {ManageWebhooks}, expires |-> TRUE],
            [scopes |-> {"unknown"}, expires |-> FALSE]}
AccessSymmetry == Permutations({r1, r2}) \cup Permutations({m1, m2}) \cup Permutations({t1, t2})

Text(whole, fraction) == [whole |-> whole, fraction |-> fraction]
Order(kind, to, asked) == [kind |-> kind, from |-> treasury, to |-> to, asked |-> asked]
Split(to, text) == Order("split", to, <<text, text>>)
MCOpening == treasury :> 250 @@ con :> 0 @@ fee :> 0
MCOrders ==
    {Order("payment", <<con>>, <<Text(1, <<>>)>>), Order("payment", <<treasury>>, <<Text(2, <<5>>)>>),
     Order("payment", <<con>>, <<Text(0, <<0, 0>>)>>), Order("payment", <<con>>, <<Text(-1, <<>>)>>),
     Order("payment", <<NotAWallet>>, <<Text(1, <<>>)>>),
     [Order("payment", <<treasury>>, <<Text(0, <<5>>)>>) EXCEPT !.from = con],
     Split(<<con, fee>>, Text(1, <<0, 5>>)), Split(<<con, con>>, Text(0, <<2, 1>>)),
     Split(<<con, fee>>, Text(0, <<0, 1>>)), Split(<<con, fee>>, Text(0, <<0, 0, 5>>)),
     Order("batch", <<con, con>>, <<Text(2, <<0>>), Text(1, <<>>)>>),
     Order("batch", <<con, fee, con>>, <<Text(0, <<0, 7>>), Text(1, <<>>), Text(0, <<3>>)>>),
     Order("batch", <<>>, <<>>), Order("batch", <<con, fee>>, <<Text(1, <<>>), Malformed>>)}

VARIABLE part

AccessInit == TenancyInit /\ ApiKeysInit /\ TransfersInit /\ part \in {"tenancy", "keys", "transfers"}
AccessNext ==
    /\ UNCHANGED part
    /\ \/ part = "tenancy" /\ TenancyNext /\ UNCHANGED <<apiKeyVars, transferVars>>
       \/ part = "keys" /\ ApiKeysNext /\ UNCHANGED <<tenancyVars, transferVars>>
       \/ part = "transfers" /\ TransfersNext /\ UNCHANGED <<tenancyVars, apiKeyVars>>
AccessSpec == AccessInit /\ [][AccessNext]_<<tenancyVars, apiKeyVars, transferVars, part>>

=============================================================================
