-------------------------- MODULE MCPayoutRecovery --------------------------
(* The recovery services over one invoice, and the pages that list what     *)
(* they work on.  The two share no state here: "part" says which one a      *)
(* behavior is about.                                                       *)
EXTENDS PayoutRecovery, Dashboard, Portal, ExchangeRates, TLC

CONSTANTS i1, w1, a1, a2, s1, k1, f1, c1, c2

MCAmount == [i \in Invoices |-> 1]

VARIABLE part

recoveryAllVars == <<vars, recoveryVars>>
pagesVars == <<dashboardVars, portalVars, ratesVars>>

PartInit ==
    /\ RecoveryInit /\ DashboardInit /\ PortalInit /\ RatesInit
    /\ part \in {"recovery", "dashboard", "portal", "rates"}
    /\ part # "dashboard" => \A i \in Bills : status[i] = "PENDING"
    /\ part # "portal" => \A f \in Filters : filled[f] = 0
    /\ part # "rates" => \A g \in Getters : get[g].server = i1
PartNext ==
    /\ UNCHANGED part
    /\ \/ part = "recovery" /\ RecoveryNext /\ UNCHANGED pagesVars
       \/ /\ UNCHANGED recoveryAllVars
          /\ \/ part = "dashboard" /\ DashboardNext /\ UNCHANGED <<portalVars, ratesVars>>
             \/ part = "portal" /\ PortalNext /\ UNCHANGED <<dashboardVars, ratesVars>>
             \/ part = "rates" /\ RatesNext /\ UNCHANGED <<dashboardVars, portalVars>>
PartSpec == PartInit /\ [][PartNext]_<<recoveryAllVars, pagesVars, part>>

=============================================================================
