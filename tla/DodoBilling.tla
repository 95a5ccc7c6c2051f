---------------------------- MODULE DodoBilling ----------------------------
(***************************************************************************)
(* The billing state of one company: the Dodo webhook                      *)
(* (app/api/webhooks/dodo/route.ts and handleDodoWebhook of                *)
(* lib/services/billing.service.ts), its dead letters and their replay     *)
(* (lib/services/webhook-recovery.service.ts), opening a checkout, and     *)
(* reconciliation with the provider (reconcileBillingState).               *)
(*                                                                         *)
(* The provider issues its events in order and delivers each at least      *)
(* once, in any order and more than once at a time.  Every event names the *)
(* company; the first event that carries a subscription makes it known.    *)
(***************************************************************************)
EXTENDS Naturals, FiniteSets

CONSTANTS
    LastEvent,    \* events are numbered in the order the provider issues them
    StatusOf,     \* normalised status each event reports
    PaymentOf,    \* payment each event is about
    Payments,
    Subscribing,  \* events that carry a subscription
    Naming,       \* events that name a customer, a subscription or a plan
    Plain,        \* events signed over the payload alone
    Handlers,     \* concurrent calls of the webhook route or of the replay
    Reconcilers,  \* concurrent calls of reconcileBillingState
    Checkouts,    \* calls of createCheckoutSession
    MaxReplays    \* failed replays that make a dead letter permanent

Events == 1 .. LastEvent

Statuses == {"pending", "active", "trialing", "paid", "failed", "refunded", "cancelled"}

ASSUME BillingAssumption ==
    /\ LastEvent \in Nat /\ MaxReplays \in Nat \ {0}
    /\ StatusOf \in [Events -> Statuses]
    /\ PaymentOf \in [Events -> Payments]
    /\ Subscribing \subseteq Naming /\ Naming \subseteq Events /\ Plain \subseteq Events

VARIABLES
    issued,     \* events the provider has issued so far
    live,       \* the subscription's status at the provider
    company,    \* billingStatus, and whether dodoSubscriptionId is set
    payments,   \* status of each BillingEvent row
    webhook,    \* the WebhookEvent row of each event
    letter,     \* the DeadLetterWebhook row of each event
    handler,    \* the await each handler is at
    reconcile,  \* the await each reconciliation is at
    checkout,   \* whether each checkout has been saved
    applied,    \* history: how often each event's transaction has committed, 2 for more
    answered,   \* history: events whose delivery was answered with 200
    raced       \* history: events taken up while another call was on them

rows == <<company, payments, webhook, letter>>
history == <<applied, answered, raced>>
billingVars == <<issued, live, rows, handler, reconcile, checkout, history>>

Resting == [at |-> "idle"]

(* A company is never "paid": its payments are, and make it active.  It has *)
(* no status before its first checkout or event.                            *)
CompanyStatuses == (Statuses \ {"paid"}) \cup {"none"}

BillingTypeOK ==
    /\ issued \in 0 .. LastEvent
    /\ live \in CompanyStatuses
    /\ company \in [status: CompanyStatuses, subscribed: BOOLEAN]
    /\ payments \in [Payments -> Statuses \cup {"none"}]
    /\ webhook \in [Events -> {"none", "received", "processed"}]
    /\ letter \in [Events -> [status: {"none", "PENDING_REPLAY", "REPLAYED",
                                       "PERMANENT_FAILURE"},
                              attempts: 0 .. MaxReplays]]
    /\ handler \in [Handlers -> {Resting} \cup
                                [at: {"read", "upsert", "apply", "fail", "answer"},
                                 event: Events, replay: BOOLEAN, attempts: 0 .. MaxReplays]]
    /\ reconcile \in [Reconcilers -> {Resting} \cup [at: {"fetch", "sync"}] \cup
                         [at: {"write", "payment"}, status: CompanyStatuses, subscribes: BOOLEAN,
                          payment: Payments \cup {"none"}]]
    /\ checkout \in [Checkouts -> {"start", "done"}]
    /\ applied \in [Events -> 0 .. 2]
    /\ answered \subseteq Events
    /\ raced \subseteq Events

BillingInit ==
    /\ issued = 0
    /\ live = "pending"
    /\ company = [status |-> "none", subscribed |-> FALSE]
    /\ payments = [p \in Payments |-> "none"]
    /\ webhook = [e \in Events |-> "none"]
    /\ letter = [e \in Events |-> [status |-> "none", attempts |-> 0]]
    /\ handler = [h \in Handlers |-> Resting]
    /\ reconcile = [r \in Reconcilers |-> Resting]
    /\ checkout = [c \in Checkouts |-> "start"]
    /\ applied = [e \in Events |-> 0]
    /\ answered = {}
    /\ raced = {}

-----------------------------------------------------------------------------
BilledStatus(status) == IF status = "paid" THEN "active" ELSE status

(* The provider: a change of the subscription or of a payment.              *)
Issue ==
    /\ issued < LastEvent
    /\ issued' = issued + 1
    /\ live' = IF issued' \in Subscribing THEN BilledStatus(StatusOf[issued']) ELSE live
    /\ UNCHANGED <<rows, handler, reconcile, checkout, history>>

GoOn(h, at) == handler' = [handler EXCEPT ![h].at = at]

Rest(h) == handler' = [handler EXCEPT ![h] = Resting]

Elsewhere == <<issued, live, reconcile, checkout>>

Take(h, e, replay, attempts, verified) ==
    handler' = [handler EXCEPT ![h] =
                   [at |-> IF verified THEN "read" ELSE "fail",
                    event |-> e, replay |-> replay, attempts |-> attempts]]

(* The route receives an event, any number of times.  The delivery may be   *)
(* refused: late, its nonce seen before, or not signed.                     *)
Deliver(h, e) ==
    /\ handler[h] = Resting
    /\ e <= issued
    /\ \E verified \in BOOLEAN : Take(h, e, FALSE, 0, verified)
    /\ UNCHANGED <<Elsewhere, rows, history>>

(* replayFailedWebhooks takes a letter as findMany read it.  It verifies    *)
(* what JSON.stringify makes of the stored payload without the headers a    *)
(* standard signature covers: those never verify, and others may not.       *)
Verifiable(e) == e \in Plain

TakeLetter(h, e) ==
    /\ handler[h] = Resting
    /\ letter[e].status = "PENDING_REPLAY"
    /\ \E verified \in BOOLEAN :
          /\ verified => Verifiable(e)
          /\ Take(h, e, TRUE, letter[e].attempts, verified)
    /\ UNCHANGED <<Elsewhere, rows, history>>

(* webhookEvent.findUnique: a processed event is answered at once.          *)
ProcessedIgnored(e) == FALSE  \* mutant: every delivery is applied

AlreadyProcessed(e) == webhook[e] = "processed"

OthersOn(h, e) ==
    \E g \in Handlers \ {h} :
        handler[g].at \in {"upsert", "apply"} /\ handler[g].event = e

ReadWebhook(h) ==
    LET e == handler[h].event IN
    /\ handler[h].at = "read"
    /\ GoOn(h, IF AlreadyProcessed(e) THEN "answer" ELSE "upsert")
    /\ raced' = IF ~AlreadyProcessed(e) /\ OthersOn(h, e) THEN raced \cup {e} ELSE raced
    /\ UNCHANGED <<Elsewhere, rows, applied, answered>>

(* The upsert resets processed, whatever the row says by now.               *)
UpsertWebhook(h) ==
    /\ handler[h].at = "upsert"
    /\ webhook' = [webhook EXCEPT ![handler[h].event] = "received"]
    /\ GoOn(h, "apply")
    /\ UNCHANGED <<Elsewhere, company, payments, letter, history>>

(* The $transaction: BillingEvent, company and WebhookEvent together.  It   *)
(* may throw although it has committed.                                     *)
Apply(h) ==
    LET e == handler[h].event IN
    /\ handler[h].at = "apply"
    /\ payments' = [payments EXCEPT ![PaymentOf[e]] = StatusOf[e]]
    /\ company' = IF e \in Naming
                  THEN [status |-> BilledStatus(StatusOf[e]),
                        subscribed |-> company.subscribed \/ e \in Subscribing]
                  ELSE company
    /\ webhook' = [webhook EXCEPT ![e] = "processed"]
    /\ applied' = [applied EXCEPT ![e] = IF @ = 0 THEN 1 ELSE 2]
    /\ GoOn(h, "answer") \/ GoOn(h, "fail")
    /\ UNCHANGED <<Elsewhere, letter, answered, raced>>

(* The database fails at any of these awaits.                               *)
Fail(h) ==
    /\ handler[h].at \in {"read", "upsert", "apply"}
    /\ GoOn(h, "fail")
    /\ UNCHANGED <<Elsewhere, rows, history>>

(* A delivery that failed is answered with 400 and left as a dead letter,   *)
(* the letter of an earlier failure opened again; the write may fail too.   *)
RecordFailure(h) ==
    /\ handler[h].at = "fail" /\ ~handler[h].replay
    /\ \/ letter' = [letter EXCEPT ![handler[h].event].status = "PENDING_REPLAY"]
       \/ UNCHANGED letter
    /\ Rest(h)
    /\ UNCHANGED <<Elsewhere, company, payments, webhook, history>>

(* A replay that failed counts, from the attempts it read; beyond           *)
(* MaxReplays the count makes no difference any more.                       *)
CountFailure(h) ==
    LET read == handler[h].attempts
        attempts == IF read < MaxReplays THEN read + 1 ELSE read IN
    /\ handler[h].at = "fail" /\ handler[h].replay
    /\ letter' = [letter EXCEPT ![handler[h].event] =
                     [status |-> IF attempts = MaxReplays THEN "PERMANENT_FAILURE"
                                 ELSE "PENDING_REPLAY",
                      attempts |-> attempts]]
    /\ Rest(h)
    /\ UNCHANGED <<Elsewhere, company, payments, webhook, history>>

ClosedAnyway(h) == handler[h].at \in {"answer", "fail"}  \* mutant: errors are swallowed

Succeeded(h) == handler[h].at = "answer"

AnswerDelivery(h) ==
    /\ Succeeded(h) /\ ~handler[h].replay
    /\ answered' = answered \cup {handler[h].event}
    /\ Rest(h)
    /\ UNCHANGED <<Elsewhere, rows, applied, raced>>

CloseLetter(h) ==
    /\ Succeeded(h) /\ handler[h].replay
    /\ letter' = [letter EXCEPT ![handler[h].event].status = "REPLAYED"]
    /\ Rest(h)
    /\ UNCHANGED <<Elsewhere, company, payments, webhook, history>>

DropHandler(h) ==
    /\ handler[h] # Resting
    /\ Rest(h)
    /\ UNCHANGED <<Elsewhere, rows, history>>

-----------------------------------------------------------------------------
(* reconcileBillingState: with a subscription the provider is asked, and    *)
(* its answer written; without one the checkout return is synchronised.     *)
Others == <<issued, live, payments, webhook, letter, handler, checkout, history>>

ReadCompany(r) ==
    /\ reconcile[r] = Resting
    /\ reconcile' = [reconcile EXCEPT ![r] =
                        [at |-> IF company.subscribed THEN "fetch" ELSE "sync"]]
    /\ UNCHANGED <<company, Others>>

LocalStatus(r) == company.status  \* mutant: the local status is written back

FetchedStatus(r) == live

FetchSubscription(r) ==
    /\ reconcile[r].at = "fetch"
    /\ reconcile' = [reconcile EXCEPT ![r] =
                        [at |-> "write", status |-> FetchedStatus(r),
                         subscribes |-> FALSE, payment |-> "none"]]
    /\ UNCHANGED <<company, Others>>

(* syncDodoCheckoutReturn: active or failed by the session, or by the       *)
(* return parameters the browser brings back, which may name a subscription *)
(* and a payment too; nothing when neither says.                            *)
SyncReturn(r) ==
    /\ reconcile[r].at = "sync"
    /\ \/ \E status \in {"active", "failed"}, subscribes \in BOOLEAN,
             payment \in Payments \cup {"none"} :
             reconcile' = [reconcile EXCEPT ![r] =
                             [at |-> "write", status |-> status,
                              subscribes |-> subscribes, payment |-> payment]]
       \/ reconcile' = [reconcile EXCEPT ![r] = Resting]
    /\ UNCHANGED <<company, Others>>

WriteStatus(r) ==
    /\ reconcile[r].at = "write"
    /\ company' = [status |-> reconcile[r].status,
                   subscribed |-> company.subscribed \/ reconcile[r].subscribes]
    /\ reconcile' = [reconcile EXCEPT ![r] =
                        IF @.payment = "none" THEN Resting ELSE [@ EXCEPT !.at = "payment"]]
    /\ UNCHANGED Others

(* The payment's BillingEvent follows; its failure is swallowed.            *)
WritePayment(r) ==
    LET status == IF reconcile[r].status = "active" THEN "paid" ELSE "failed" IN
    /\ reconcile[r].at = "payment"
    /\ \/ payments' = [payments EXCEPT ![reconcile[r].payment] = status]
       \/ UNCHANGED payments
    /\ reconcile' = [reconcile EXCEPT ![r] = Resting]
    /\ UNCHANGED <<issued, live, company, webhook, letter, handler, checkout, history>>

DropReconcile(r) ==
    /\ reconcile[r] # Resting
    /\ reconcile' = [reconcile EXCEPT ![r] = Resting]
    /\ UNCHANGED <<company, Others>>

(* createCheckoutSession: the provider opens a session, which reads nothing *)
(* that changes, then the company is set to pending, whatever its status;   *)
(* an error there is swallowed.                                             *)
Checkout(c) ==
    /\ checkout[c] = "start"
    /\ \/ company' = [company EXCEPT !.status = "pending"]
       \/ UNCHANGED company
    /\ checkout' = [checkout EXCEPT ![c] = "done"]
    /\ UNCHANGED <<issued, live, payments, webhook, letter, handler, reconcile, history>>

-----------------------------------------------------------------------------
Handle(h) ==
    \/ \E e \in Events : Deliver(h, e) \/ TakeLetter(h, e)
    \/ ReadWebhook(h) \/ UpsertWebhook(h) \/ Apply(h) \/ Fail(h)
    \/ RecordFailure(h) \/ CountFailure(h) \/ AnswerDelivery(h) \/ CloseLetter(h)
    \/ DropHandler(h)

Reconcile(r) ==
    \/ ReadCompany(r) \/ FetchSubscription(r) \/ SyncReturn(r)
    \/ WriteStatus(r) \/ WritePayment(r) \/ DropReconcile(r)

BillingNext ==
    \/ Issue
    \/ \E h \in Handlers : Handle(h)
    \/ \E r \in Reconcilers : Reconcile(r)
    \/ \E c \in Checkouts : Checkout(c)

BillingSpec == BillingInit /\ [][BillingNext]_billingVars

(* Somebody keeps asking for a reconciliation, every continuation runs, and *)
(* the provider and the database answer again and again.  Deliveries,       *)
(* replays, checkouts and errors are never forced.                          *)
FairBillingSpec ==
    /\ BillingSpec
    /\ \A r \in Reconcilers :
          /\ WF_billingVars(ReadCompany(r) \/ SyncReturn(r) \/ WritePayment(r))
          /\ SF_billingVars(FetchSubscription(r))
          /\ SF_billingVars(WriteStatus(r))

-----------------------------------------------------------------------------
(* A 200 is a promise: the provider forgets the event, and its effects are  *)
(* in the database, whatever failed or ran beside that delivery.            *)
AnsweredIsApplied == \A e \in answered : applied[e] > 0

(* A dead letter is closed only when its event has been applied.            *)
ReplayedIsApplied ==
    \A e \in Events : letter[e].status = "REPLAYED" => applied[e] > 0

(* An event is applied twice only when two calls were on it at a time: no   *)
(* sequence of redeliveries, failures and replays one after the other does. *)
AppliedOnceUnlessRaced == \A e \in Events : applied[e] > 1 => e \in raced

(* What reordering and stale writes broke, reconciliation repairs: when the *)
(* webhooks and checkouts come to rest and the subscription is known, the   *)
(* company's status becomes, and stays, the provider's.                     *)
Quiet ==
    /\ company.subscribed
    /\ \A h \in Handlers : handler[h] = Resting

ReconciliationRepairs == <>[]Quiet => <>[](company.status = live)

=============================================================================
