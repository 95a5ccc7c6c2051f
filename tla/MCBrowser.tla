----------------------------- MODULE MCBrowser ------------------------------
(* Two places where a browser is one of the actors: payout requests at the *)
(* gate of two instances, and the onboarding wizard.  They share no state:  *)
(* "part" says which one a behavior is about, and how the wizard's is       *)
(* bounded: one payment on two plans, two payments on one plan, or one on   *)
(* one plan together with an address written by hand.                       *)
EXTENDS PayoutGate, Onboarding

CONSTANTS s1, s2, k1, k2, starter, scale

Address(status, n, session, subscription) ==
    [status |-> status, payment |-> n, session |-> session, subscription |-> subscription]
MCAddresses ==
    {Address("none", Claimed, FALSE, "none"), Address("failed", 0, FALSE, "claimed"),
     Address("none", 0, TRUE, "none")}

VARIABLES
    part,
    written    \* the address that may be written by hand

browserVars == <<gateVars, onboardingVars, part, written>>

BrowserInit ==
    /\ GateInit /\ OnboardingInit
    /\ part \in {"gate", "plans", "retries", "by hand"}
    /\ written \in IF part = "by hand" THEN MCAddresses ELSE {NoClaim}

InBounds ==
    /\ part = "retries" => page'.says \notin MCAddresses
    /\ part # "retries" => Len(payment') <= 1 /\ page'.says \in {NoClaim, written}
    /\ part # "plans" => {wizard'.plan, company'.plan} \subseteq {starter, NoPlan}

BrowserNext ==
    /\ UNCHANGED <<part, written>>
    /\ \/ part = "gate" /\ GateNext /\ UNCHANGED onboardingVars
       \/ part # "gate" /\ OnboardingNext /\ InBounds /\ UNCHANGED gateVars

(* The fairness of GateSpec and OnboardingSpec.                             *)
BrowserSpec ==
    /\ BrowserInit /\ [][BrowserNext]_browserVars
    /\ WF_gateVars(part = "gate" /\ Tick)
    /\ SF_onboardingVars(part # "gate" /\ RepeatReconcile)
    /\ SF_onboardingVars(part # "gate" /\ AnswerReconcile)

(* An instance's rate window ends and a paid checkout unlocks the wizard.   *)
BrowserUnlocks == WindowsReopen /\ ReturnUnlocks

=============================================================================
