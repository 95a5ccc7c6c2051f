----------------------------- MODULE Onboarding -----------------------------
(***************************************************************************)
(* The four steps of app/onboarding/page.tsx and what they talk to: the    *)
(* sign-up of components/admin-auth-card.tsx, the hosted checkout, and the *)
(* two polls that unlock the second step, of the company's overview and,   *)
(* back from the checkout, of its reconciliation.                          *)
(*                                                                         *)
(* The wizard's state is stored in the browser at every change and         *)
(* outlives the page; what the page has polled does not.  The address of a *)
(* page may say what became of a checkout, whoever wrote it, and the       *)
(* reconciliation goes by that where the provider says nothing.  One       *)
(* account, one browser.  How webhooks are applied is DodoBilling's; here  *)
(* the company is brought up to date in one step, at any time or never.    *)
(***************************************************************************)
EXTENDS Integers, Sequences, SequencesExt, FiniteSetsExt

CONSTANTS
    Plans,
    Growth,        \* the plan when none is selected
    NoPlan,
    Addresses,     \* what the addresses say that are opened by hand
    MaxPayments    \* bound: payments attempted

Statuses == {"none", "pending", "active", "failed"}
Outcomes == {"succeeded", "failed"}
Subscriptions == {"none", "claimed", "real"}
MaybePlans == Plans \cup {NoPlan}
Claimed == -1     \* a payment that only an address speaks of
Foreign == "foreign"  \* a checkout session that only an address speaks of

ASSUME OnboardingAssumption ==
    /\ Growth \in Plans /\ {NoPlan, Foreign} \cap Plans = {} /\ NoPlan # Foreign
    /\ Addresses \subseteq [status: {"none"} \cup Outcomes, payment: {0, Claimed},
                           session: BOOLEAN, subscription: {"none", "claimed"}]
    /\ MaxPayments \in Nat

VARIABLES
    wizard,    \* localStorage: [step, named, plan, paid]
    page,      \* the open page: [at, tier, says, shown, synced, busy]
    company,   \* [plan, status, session, subscription, payment, events]
    payment,   \* at the provider: the payments of the checkouts, in order
    answer,    \* answer of a reconciliation, on its way
    checkouts, \* at the provider: the plans whose checkout was opened
    claimed    \* history: a reconciliation was sent an address that claims something

onboardingVars == <<wizard, page, company, payment, answer, checkouts, claimed>>

Nothing == [status |-> "none", plan |-> NoPlan]
Answers == [status: Statuses, plan: MaybePlans]

OnboardingTypeOK ==
    /\ wizard \in [step: 1 .. 4, named: BOOLEAN, plan: MaybePlans, paid: BOOLEAN]
    /\ page \in [at: {"plain", "away", "returned"}, tier: MaybePlans,
                 says: [status: {"none"} \cup Outcomes, payment: {Claimed} \cup 0 .. Len(payment),
                        session: BOOLEAN, subscription: Subscriptions],
                 shown: Statuses, synced: Answers, busy: BOOLEAN]
    /\ company.plan \in MaybePlans /\ company.session \in MaybePlans \cup {Foreign}
    /\ company.status \in Statuses /\ company.subscription \in Subscriptions
    /\ payment \in Seq([plan: Plans, status: Outcomes \cup {"processing"}])
    /\ company.payment \in {Claimed} \cup 0 .. Len(payment)
    /\ company.events \in Seq([payment: {Claimed} \cup DOMAIN payment, status: {"paid", "failed"}])
    /\ answer \in Answers
    /\ checkouts \subseteq MaybePlans /\ claimed \in BOOLEAN

NoClaim == [status |-> "none", payment |-> 0, session |-> FALSE, subscription |-> "none"]

Opened(at, tier, says) ==
    [at |-> at, tier |-> tier, says |-> says, shown |-> "none", synced |-> Nothing, busy |-> FALSE]

OnboardingInit ==
    /\ wizard = [step |-> 1, named |-> FALSE, plan |-> NoPlan, paid |-> FALSE]
    /\ page = Opened("plain", NoPlan, NoClaim)
    /\ company = [plan |-> NoPlan, status |-> "none", session |-> NoPlan, subscription |-> "none",
                  payment |-> 0, events |-> <<>>]
    /\ payment = <<>>
    /\ answer = Nothing
    /\ checkouts = {} /\ claimed = FALSE

Here == page.at # "away"
SelectedPlan == IF wizard.plan = NoPlan THEN Growth ELSE wizard.plan

-----------------------------------------------------------------------------
(* The steps.  The card of the first one signs up whenever it is mounted    *)
(* with a session, which writes the selected plan into the company.  How    *)
(* often it is mounted is left open.                                        *)

Describe ==
    /\ Here /\ wizard.step = 1 /\ wizard' = [wizard EXCEPT !.named = TRUE]
    /\ UNCHANGED <<page, company, payment, answer, checkouts, claimed>>

EnsureMembership ==
    /\ Here /\ wizard.step = 1 /\ company' = [company EXCEPT !.plan = SelectedPlan]
    /\ UNCHANGED <<wizard, page, payment, answer, checkouts, claimed>>

\* mutant: the second step may be passed with a plan alone
MayAdvanceUnpaid(w, known) ==
    \/ w.step = 1 /\ w.named
    \/ w.step = 2 /\ w.plan # NoPlan
    \/ w.step = 3 /\ known

(* The third step wants the treasury wallet of a polled overview.           *)
MayAdvance(w, known) ==
    \/ w.step = 1 /\ w.named
    \/ w.step = 2 /\ w.plan # NoPlan /\ w.paid
    \/ w.step = 3 /\ known

Forward ==
    /\ Here /\ MayAdvance(wizard, page.shown # "none")
    /\ wizard' = [wizard EXCEPT !.step = @ + 1]
    /\ UNCHANGED <<page, company, payment, answer, checkouts, claimed>>

Back ==
    /\ Here /\ wizard.step > 1 /\ wizard' = [wizard EXCEPT !.step = @ - 1]
    /\ UNCHANGED <<page, company, payment, answer, checkouts, claimed>>

(* The last step signs up once more, with the plan then selected.           *)
Finish ==
    /\ Here /\ wizard.step = 4 /\ company.plan # NoPlan
    /\ company' = [company EXCEPT !.plan = SelectedPlan]
    /\ UNCHANGED <<wizard, page, payment, answer, checkouts, claimed>>

(* Opening the page with a checkout's plan in its address selects that.     *)
Open(at, tier, says) ==
    /\ page' = Opened(at, tier, says) /\ answer' = Nothing
    /\ wizard' = IF tier = NoPlan THEN wizard ELSE [wizard EXCEPT !.plan = tier]
    /\ UNCHANGED <<company, payment, checkouts, claimed>>

Reload == Here /\ Open(page.at, page.tier, page.says)
Visit == Open("plain", NoPlan, NoClaim)

(* An address may be written by hand.                                       *)
VisitReturn == \E tier \in MaybePlans, says \in Addresses : Open("returned", tier, says)

-----------------------------------------------------------------------------
(* The checkout.  The wizard forgets that it was paid before it asks; the   *)
(* provider may have opened a session whose answer is lost three times.     *)

Checkout(p) ==
    /\ Here /\ wizard.step = 2 /\ ~page.busy /\ company.plan # NoPlan
    /\ page' = [page EXCEPT !.busy = TRUE]
    /\ wizard' = [wizard EXCEPT !.plan = p, !.paid = FALSE]
    /\ UNCHANGED <<company, payment, answer, checkouts, claimed>>

(* The company's row is written on the way; that it fails is not noticed.   *)
Redirect ==
    /\ Here /\ page.busy
    /\ company' \in {company, [company EXCEPT !.plan = wizard.plan, !.session = wizard.plan,
                                              !.status = "pending"]}
    /\ page' = Opened("away", wizard.plan, NoClaim) /\ answer' = Nothing
    /\ checkouts' = checkouts \cup {wizard.plan}
    /\ UNCHANGED <<wizard, payment, claimed>>

CheckoutFails ==
    /\ Here /\ page.busy /\ page' = [page EXCEPT !.busy = FALSE]
    /\ UNCHANGED <<wizard, company, payment, answer, checkouts, claimed>>

(* At the provider.  A checkout is paid once, or again after a failure; its *)
(* page may still be open in another tab.                                   *)
PaymentsOf(p) == {n \in DOMAIN payment : payment[n].plan = p}
LatestPayment(p) == IF PaymentsOf(p) = {} THEN 0 ELSE Max(PaymentsOf(p))
SessionStatus(p) == IF PaymentsOf(p) = {} THEN "none" ELSE payment[LatestPayment(p)].status

Pay(p) ==
    /\ p \in checkouts /\ SessionStatus(p) \in {"none", "failed"}
    /\ Len(payment) < MaxPayments
    /\ payment' = Append(payment, [plan |-> p, status |-> "processing"])
    /\ UNCHANGED <<wizard, page, company, answer, checkouts, claimed>>

Settle(n) ==
    /\ payment[n].status = "processing"
    /\ \E outcome \in Outcomes : payment' = [payment EXCEPT ![n].status = outcome]
    /\ UNCHANGED <<wizard, page, company, answer, checkouts, claimed>>

(* Both addresses to come back to name the plan of the checkout, and the    *)
(* provider may add what became of it; that of a cancelled checkout is not  *)
(* asked about.                                                             *)
ToldBy(p) ==
    LET status == SessionStatus(p)
    IN {NoClaim, [status |-> IF status \in Outcomes THEN status ELSE "none",
                  payment |-> LatestPayment(p), session |-> FALSE,
                  subscription |-> IF status = "succeeded" THEN "real" ELSE "none"]}

Return ==
    /\ page.at = "away"
    /\ \/ \E says \in ToldBy(page.tier) : Open("returned", page.tier, says)
       \/ Open("plain", page.tier, NoClaim)

(* Billing events are kept by payment, in the order of their creation.      *)
Recorded(events, n, status) ==
    LET entry == [payment |-> n, status |-> status]
    IN IF \E e \in DOMAIN events : events[e].payment = n
       THEN [e \in DOMAIN events |-> IF events[e].payment = n THEN entry ELSE events[e]]
       ELSE Append(events, entry)

WebhookArrives(n) ==
    LET paid == payment[n].status = "succeeded"
    IN /\ payment[n].status \in Outcomes
       /\ company' = [company EXCEPT !.plan = payment[n].plan, !.payment = n,
              !.status = IF paid THEN "active" ELSE "failed",
              !.subscription = IF paid THEN "real" ELSE @,
              !.events = Recorded(@, n, IF paid THEN "paid" ELSE "failed")]
       /\ UNCHANGED <<wizard, page, payment, answer, checkouts, claimed>>

-----------------------------------------------------------------------------
(* The overview is polled while the page is open.  Its status counts only   *)
(* when it is another one than before, and not back from a checkout.        *)

PollOverview ==
    LET status == IF company.status = "none" THEN "pending" ELSE company.status
    IN /\ Here /\ company.plan # NoPlan /\ status # page.shown
       /\ page' = [page EXCEPT !.shown = status]
       /\ wizard' = IF page.at = "returned" THEN wizard ELSE [wizard EXCEPT !.paid = status = "active"]
       /\ UNCHANGED <<company, payment, answer, checkouts, claimed>>

(* What is heard of the checkout: the provider's word on the session, which *)
(* is the address's or else the company's, or none if it is not reached.    *)
Unheard == [status |-> "none", payment |-> 0]

SessionAsked == IF page.says.session THEN Foreign ELSE company.session

Heard ==
    IF SessionAsked = Foreign
    THEN {Unheard} \cup [status: {"processing"} \cup Outcomes, payment: {Claimed}]
    ELSE {[status |-> SessionStatus(SessionAsked), payment |-> LatestPayment(SessionAsked)]}

(* The address fills in what was not heard, and the company's payment what  *)
(* the address leaves out.  A payment that is known and not called failed   *)
(* counts as paid, an older one included.                                   *)
StatusKnown(heard) == IF heard.status # "none" THEN heard.status ELSE page.says.status

PaymentKnown(heard) ==
    IF heard.payment # 0 THEN heard.payment
    ELSE IF page.says.payment # 0 THEN page.says.payment ELSE company.payment

Synced(heard) ==
    LET status == StatusKnown(heard)
    IN IF status = "succeeded" \/ (PaymentKnown(heard) # 0 /\ status # "failed") THEN "active"
       ELSE IF status = "failed" THEN "failed" ELSE "none"

(* The plan of the address, if it names one.                                *)
Tier == IF page.tier = NoPlan THEN company.plan ELSE page.tier

(* A status that is not final is looked up in the newest billing event.     *)
Determined(status) ==
    LET newest == IF company.events = <<>> THEN "none" ELSE Last(company.events).status
    IN CASE status \in {"active", "failed"} -> status
         [] status \notin {"active", "failed"} /\ newest = "failed" -> "failed"
         [] status \notin {"active", "failed"} /\ newest = "paid" -> "active"
         [] OTHER -> IF company.subscription # "none" THEN "active" ELSE "pending"

(* Once the company has a subscription, the provider's word on it is        *)
(* written and told.  One that only an address spoke of may be of any       *)
(* status and plan there, or unknown, which ends the request.               *)
FromSubscription ==
    /\ company.subscription # "none"
    /\ \E status \in {"active", "failed", "pending"}, p \in Plans :
           /\ company.subscription = "real" => status = "active" /\ p = company.plan
           /\ company' = [company EXCEPT !.status = status, !.plan = p]
           /\ answer' = [status |-> Determined(status), plan |-> p]

(* Before that, a checkout that was paid or failed is written into the      *)
(* company and the events, with what the address says of a subscription;    *)
(* otherwise the company's status stands.                                   *)
WithSync(heard) ==
    LET n == PaymentKnown(heard)
        status == Synced(heard)
    IN [company EXCEPT !.status = status, !.plan = Tier,
            !.session = SessionAsked, !.payment = n,
            !.subscription = IF page.says.subscription = "none" THEN @ ELSE page.says.subscription,
            !.events = IF n = 0 THEN @
                       ELSE Recorded(@, n, IF status = "active" THEN "paid" ELSE "failed")]

FromCheckout(heard) ==
    /\ company.subscription = "none"
    /\ company' = IF Synced(heard) = "none" THEN company ELSE WithSync(heard)
    /\ answer' = [status |-> IF Synced(heard) = "none" THEN Determined(company.status) ELSE Synced(heard),
                  plan |-> Tier]

Claims(says) ==
    says.status = "succeeded" \/ says.payment # 0 \/ says.session \/ says.subscription # "none"

Reconcile(heard) ==
    /\ page.at = "returned" /\ answer = Nothing /\ company.plan # NoPlan
    /\ FromSubscription \/ FromCheckout(heard)
    /\ claimed' = (claimed \/ Claims(page.says))
    /\ UNCHANGED <<wizard, page, payment, checkouts>>

PollReconcile == \E heard \in Heard \cup {Unheard} : Reconcile(heard)

(* The page asks again every five seconds until the answer is final, and    *)
(* after that only when its window gets the focus.                          *)
\* mutant: a pending payment ends the polling as well
IsSettled(synced) == synced.status \in {"active", "failed", "pending"}

IsFinal(synced) == synced.status \in {"active", "failed"}

RepeatReconcile == ~IsFinal(page.synced) /\ \E heard \in Heard : Reconcile(heard)

AtLeast(step, least) == IF step < least THEN least ELSE step

(* An answer that says what the last one did has no effect.                 *)
AnswerReconcile ==
    /\ page.at = "returned" /\ answer # Nothing
    /\ answer' = Nothing /\ page' = [page EXCEPT !.synced = answer]
    /\ wizard' = CASE answer # page.synced /\ answer.status = "active" ->
                        [wizard EXCEPT !.plan = answer.plan, !.paid = TRUE, !.step = AtLeast(@, 3)]
                   [] answer # page.synced /\ answer.status = "failed" -> [wizard EXCEPT !.paid = FALSE]
                   [] OTHER -> wizard
    /\ UNCHANGED <<company, payment, checkouts, claimed>>

LoseAnswer ==
    /\ answer # Nothing /\ answer' = Nothing
    /\ UNCHANGED <<wizard, page, company, payment, checkouts, claimed>>

-----------------------------------------------------------------------------
OnboardingNext ==
    \/ Describe \/ EnsureMembership \/ Forward \/ Back \/ Finish \/ Reload \/ Visit \/ VisitReturn
    \/ Redirect \/ CheckoutFails \/ Return
    \/ \E p \in Plans : Checkout(p) \/ Pay(p)
    \/ \E n \in DOMAIN payment : Settle(n) \/ WebhookArrives(n)
    \/ PollOverview \/ PollReconcile \/ AnswerReconcile \/ LoseAnswer

(* The page polls for as long as it is open; again and again the provider   *)
(* is reached, and not every answer is lost.                                *)
OnboardingSpec ==
    /\ OnboardingInit /\ [][OnboardingNext]_onboardingVars
    /\ SF_onboardingVars(RepeatReconcile) /\ SF_onboardingVars(AnswerReconcile)

-----------------------------------------------------------------------------
(* Nobody gets past the plan without a payment at the provider, whatever    *)
(* reloads, late answers, webhooks and second checkouts did to the wizard,  *)
(* unless a page was opened whose address itself speaks of a payment, a     *)
(* session or a subscription: the reconciliation takes its word.            *)
PassedIsPaidOrClaimed == wizard.step > 2 => payment # <<>> \/ claimed

(* The address, or a company that went by one before, has a session or a    *)
(* subscription that is not of the company's checkout.                      *)
Misled == page.says.session \/ "claimed" \in {company.subscription, page.says.subscription}

(* Back from a checkout that was paid, the page unlocks by itself, unless   *)
(* it is told of a failure, left or misled.                                 *)
ReturnUnlocks ==
    /\ page.at = "returned" /\ page.synced.status \notin {"active", "failed"}
    /\ SessionStatus(company.session) = "succeeded"
    ~> wizard.step > 2 \/ page.synced.status = "failed" \/ page.at # "returned" \/ Misled

(* The wizard is where payments, or the word of an address, allow it to be. *)
WizardIsSound == OnboardingTypeOK /\ PassedIsPaidOrClaimed

=============================================================================
