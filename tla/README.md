# Borderless Payroll Copilot: formal verification

This directory models the payroll from both ends: an invoice is submitted and
approved, USDC is put in an on-chain escrow and released to the contractor, and
the database records it; around this money path it models the webhooks that
follow the chain and the payments of companies, the tenants, keys and limits
that stand before the routes, and the pages of the browser that keep state of
their own. The modules are translated from the code under `programs/`,
`lib/` and `app/api/`; TLC checks them on small instances and TLAPS proves the
safety properties for instances of every size.

## 1. The system

| Component | State it keeps | Operations | What is hard | What makes it correct |
|---|---|---|---|---|
| Escrow program (`programs/escrow/src/lib.rs`) | one account (`amount`, `is_released`) and one token vault per (authority, invoice) | `initialize_escrow`, `deposit`, `release` | anyone may send tokens to the vault; u64 amounts; at most one release | vault covers the recorded amount; one release, of the sum deposited |
| Payout engine (`lib/services/payout.service.ts`, `lib/solana/escrow.ts`) | `Payout` row per invoice (unique index), `Invoice.status` | `executePayout`: look up, claim, initialise, deposit, release, book | every `await` is a preemption point; three transactions and five writes with no transaction around them; confirmation timeouts; crashes | at most one payment per invoice; books never ahead of the chain; a confirmed row names its release |
| Invoice decisions (`lib/services/invoice.service.ts`, `app/api/invoices/**`) | `Invoice.status` | approve, reject, create | check-then-update without a guard in the update | only pending invoices are decided |
| Batch payouts (`app/api/payouts/batch`, `lib/solana/transfer.ts`) | the same payout rows | one atomic transfer transaction for up to ten invoices | the same rows as the engine but another payment channel | a batch and an escrow never both pay |
| Payout and escrow recovery (`lib/services/payout-recovery.service.ts`, `escrow-recovery.service.ts`) | `FailedJob` rows | classify failures, retry, release or reconcile | runs beside the engine | converges to one booked payment |
| Token transfers (`lib/solana/transfer.ts`) | token accounts on chain | one payment, a 95/5 split, a batch | accounts and balance are read before the transaction is sent | exact amounts; a signature means paid; refused only for a reason |
| Treasury webhook (`app/api/webhooks/helius`, `lib/services/treasury.service.ts`) | `TreasuryTransaction`, cached balance, `WebhookEvent` | process a notification, poll the balance | redelivery, reordering, RPC fallback | what is acknowledged is recorded; guesses are repaired |
| Billing (`app/api/webhooks/dodo`, `lib/services/billing.service.ts`) | company subscription, `BillingEvent`, `WebhookEvent` | webhook, checkout return, reconcile | reordering, replay | newest fact wins |
| Webhook recovery (`lib/services/webhook-recovery.service.ts`) | `DeadLetterWebhook` | record failure, replay | several replayers | each event is applied at least once and not forgotten |
| Organizations, sessions, policies (`lib/tenancy`, `lib/auth`, `prisma/rls-policies.sql`) | `Organization`, `Company`, `CompanyUser`, partners | sign up, provision, add members, settings, subscriptions, list | a request acts on the tenant it read | nobody acts outside a tenant they belonged to, but for revoking a subscription by its id |
| API keys (`lib/tenancy/api-keys.ts`) | `ApiKey` | issue, rotate, revoke, authenticate | two rotations, stops between two writes | one active key per lineage; a revoked lineage stays dead |
| API protection and client (`lib/security/api-protection.ts`, `lib/api.ts`) | in-memory maps per instance | rate limit, idempotency key, retry after a 401 | windows, several instances, restarts | a key works once; bursts are bounded; windows end |
| Contractors and invoices (`lib/services/contractor.service.ts`, `app/api/contractors`, `app/api/invoices`) | `Contractor`, `Invoice`, `AuditLog` | onboard, verify, change, delete, submit, decide, list | check-then-write without transactions | references hold, decisions are audited, listings follow the policies |
| Compliance (`lib/services/compliance.service.ts`) | `ComplianceAlert`, `GovernancePolicy` | evaluate a payout, list alerts, upsert a policy | thresholds met exactly; check-then-create; batches evaluate nothing | every threshold a payout of `executePayout` reached is announced |
| Onboarding wizard (`app/onboarding/page.tsx`) | wizard state in local storage, polled answers | steps, checkout, return, finish | two polls, reloads, late answers, addresses written by hand | nobody passes the plan without a payment, or an address that speaks of one; a paid return unlocks |
| Invoice page (`app/contractor/invoices/new`) | the form | edit, send, retry | request, screen and route round differently; lost answers | page and route agree, to a cent at half cents |
| Dashboard (`app/dashboard`, `hooks/use-app-data.ts`) | a cached page of invoices, clicks on their way | list, approve, reject, pay, refetch | requests and fetches overtake each other; the rows change elsewhere | what it announced is so, and no list offers it again |
| Contractor portal (`app/contractor/page.tsx`) | filter, page, the answer shown | sign in, filter, turn pages | no fetch is cancelled, the last answer wins | lists what is selected, on a page that exists |
| Exchange rates (`app/api/fx/rates`) | one cached answer per process | read, miss and fill the cache, fall back | requests fill a cache together; processes have caches of their own | live rates are never behind; rates go back for a bounded time only |

The components share the database and, through the treasury wallet, the chain.
Nothing else synchronises them: there are no locks and few database
transactions, so two requests interleave at every `await`.

## 2. Modules

| Module | Models | Lines of code |
|---|---|---|
| `Escrow` | the on-chain program and direct token transfers | `programs/escrow/src/lib.rs` |
| `Settlement` | the promise: one payment per invoice, booked after | abstract |
| `PayoutEngine` | `executePayout`, the escrow client, the cluster, the reviews; `Chain == INSTANCE Escrow` is its chain and `Books == INSTANCE Settlement` its promise | `payout.service.ts`, `escrow.ts`, `invoice.service.ts` |
| `BatchPayout` | the batch route and `executeBatchPayout`, over the engine's rows and chain | `app/api/payouts/batch/route.ts`, `transfer.ts` |
| `PayoutRecovery` | the sweep, the retry jobs and the rescue of a stuck escrow, beside the engine | `payout-recovery.service.ts`, `escrow-recovery.service.ts` |
| `DodoBilling` | the Dodo webhook, its dead letters and their replay, checkouts and reconciliation | `billing.service.ts`, `webhook-recovery.service.ts`, `app/api/webhooks/dodo/route.ts` |
| `TreasuryWebhook` | the Helius webhook, its ledger, dead letters and replay, and the polled balance | `treasury.service.ts`, `app/api/webhooks/helius`, `app/api/treasury/balance` |
| `RowSecurity` | the row level policies, as operators | `prisma/rls-policies.sql` |
| `Tenancy` | sign-up, provisioning, members, partners, over `RowSecurity` | `companies.ts`, `organizations.ts`, `lib/auth`, `app/api/organizations`, `app/api/partners` |
| `ApiKeys` | keys and the calls they authenticate | `api-keys.ts`, `context.ts` |
| `Transfers` | payment, split and batch on chain, with their amounts | `transfer.ts` |
| `InvoiceRules` | what the invoice route asks of a form | `app/api/invoices/route.ts` |
| `Workforce` | contractors, invoices and their audit, over `RowSecurity` and `InvoiceRules` | `contractor.service.ts`, `invoice.service.ts`, `app/api/contractors`, `app/api/invoices` |
| `Compliance` | alerts and policies, over `RowSecurity` | `compliance.service.ts` |
| `InvoiceForm` | the page of a new invoice, over `InvoiceRules` | `app/contractor/invoices/new/page.tsx` |
| `PayoutGate` | the client and the gate before the payout routes | `lib/api.ts`, `api-protection.ts` |
| `Onboarding` | the wizard, its checkout and its polls | `app/onboarding/page.tsx`, `billing.service.ts` |
| `Dashboard` | the invoice list, its clicks and refetches | `app/dashboard/page.tsx`, `use-app-data.ts`, `lib/api.ts` |
| `Portal` | the contractor's filtered pages | `app/contractor/page.tsx` |
| `ExchangeRates` | exchange rates and their caches | `app/api/fx/rates/route.ts` |
| `PayoutClaims` | a sentence of the docs that the code does not keep | |
| `SumTheorems` | facts about sums over finite sets | |
| `EscrowProofs`, `PayoutEngineProofs`, `TreasuryWebhookProofs` | theorems about the module of that name | |
| `PaymentProofs` | theorems about `Transfers`, `DodoBilling` | |
| `PayoutServicesProofs` | theorems about `BatchPayout`, `PayoutRecovery`, `Compliance` | |
| `AccessProofs` | theorems about `Tenancy`, `ApiKeys`, `Workforce` | |
| `BrowserProofs` | theorems about `PayoutGate`, `Onboarding`, `InvoiceForm`, `Dashboard`, `Portal`, `ExchangeRates` | |
| `MC*` | constants and symmetry for TLC | |

### Escrow

`escrow[e]` is the account; `initialized` says it exists. `vault` and `balance`
are the token accounts. `deposited` and `paid` are history: what the program
ever took in and paid out. One action per instruction; an instruction whose
check fails aborts its transaction and is no step. The mint is pinned by
`has_one = mint`, so one mint is modelled. `TokenTransfer` is the token program
used around the escrow. A vault that exists before its escrow is not modelled
(its creation makes `init` fail, as `Drop` does in the engine).

### PayoutEngine

An attempt is one call of `executePayout`; `pc` is the await it is at:

| `pc` | code |
|---|---|
| `lookup`, `repair`, `readInvoice`, `claim` | `payout.service.ts` 124-228 |
| `initialize`, `deposit`, `release` | the three operations of `escrow.ts`: read the account (finalized), then send, skip or throw |
| `await` | `rpc()` and `confirmFinalized` |
| `savePda`, `saveRelease` | the two updates of `escrowPda` |
| `markFailed` | the catch block |
| `confirm` | the `$transaction` that books payout and invoice |

`tx[a]` is the last transaction of the attempt: `sent` until it lands or is
dropped. `Throw` is any error inside the try block, a confirmation timeout
included: the attempt leaves `await` while its transaction can still land.
`Crash` is the death of the process, or a database error where the code has no
handler that changes state. Reading an account and sending the instruction are
one step, since a delay between them is a delay of the landing. A preflight
failure is a drop. Reviewers read an invoice and write their decision in two
steps, as `approveInvoice` and `rejectInvoice` do.

History variables: `raced` holds the invoices whose FAILED row was claimed by a
retry although it was no longer FAILED, or while a transaction of an earlier
attempt was unresolved; `failed` those an attempt marked FAILED; `abandoned`
those whose claiming attempt died; `overruled` those a review decided although
they had been decided or paid since it read them.

Left out of the engine: the mocked signature used when `NODE_ENV` is `test`; the
result of `evaluatePayoutCompliance`, which the code ignores; audit rows and
logs; amounts as decimals (an invoice has one amount, in base units).

### BatchPayout

Extends `PayoutEngine`: the two routes share the payout rows, the invoices and
the treasury's tokens, and nothing else. `batch[b]` is the await a request is
at; `settled` and `rows` say which of its `payout.create` calls have settled and
which made a row, in any order, as `Promise.all` runs them. One transaction
(`transfer[b]`) moves every amount or none; `direct` is the history of what it
paid. `ThrowBatch` is any error after the rows exist, a confirmation timeout
included. In the catch block every update may fail alone and its error is
swallowed. The recipients' checks and the creation of their token accounts are
in `Transfers`.

### PayoutRecovery

Extends `PayoutEngine`. A sweep (`reconcileFailedPayouts`) selects a FAILED or
PENDING row, reads it again, asks the chain for its signature, and books it or
queues a job; each of these is a step. A worker (`retryTransientFailures`) takes
a job as it read it, reads the row, runs an attempt of the engine with the row's
wallet, and records the outcome; the outcome is a success when the attempt
answered (`answered`). Whether an error counts as transient depends on its
message and is free here, except for a refused duplicate, whose message matches
no pattern. `nextRetryAt` is left out: a job may be taken at any time. A rescue
(`releaseOrReconcileStuckEscrow`) sends a release of its own. No route calls it
at this commit; it is modelled as the operator's tool it is written to be.
`DUPLICATE_BLOCKED` is never written: the index on `invoiceId` leaves no second
row to be found.

### DodoBilling

One company with one subscription. Events are numbered as the provider issues
them; `webhook[e]` and `letter[e]` are the `WebhookEvent` and `DeadLetterWebhook`
rows of an event, `payments` the `BillingEvent` rows and `live` the subscription
at the provider. A handler is one call of the route or of the replay:

| `at` | code |
|---|---|
| `read`, `upsert` | `webhookEvent.findUnique` and `upsert` of `handleDodoWebhook` |
| `apply` | its `$transaction`, which may throw although it committed |
| `fail` | the catch block of the route (`recordFailure`) or of the replay |
| `answer` | the 200 of the route, or the update to `REPLAYED` |

Checks that read no row (freshness, nonce, signature) are the choice of
`Deliver`. A nonce table lives in one process and may have been lost or shared;
either outcome is allowed. `Plain` are the events signed over the payload alone,
the only ones a replay can verify. A reconciliation asks the provider when it
read a subscription, and otherwise takes what the checkout return says, which
the browser supplies. `applied`, `answered` and `raced` are history; `applied`
stops at 2 and the attempts of a letter at `MaxReplays` (10 in the code), beyond
which no comparison tells them apart. Left out: plan names, customer ids, usage
reports, the portal link, `nextRetryAt`, and events that carry no `webhook-id`,
whose letters are keyed at random.

### TreasuryWebhook

`chain[s]` is a transaction with its transfers (`TransfersOf`), `live` the
balance of each wallet, `cached` the companies' copies. A handler reads the
company, asks the node for the balance, and writes copy and ledger row, each its
own step; when the node does not answer it adds the transfer to the copy it read,
which makes the company `guessed` until a real balance overwrites it.
`ledger[s]` is the upserted row: a transaction with several transfers keeps the
one booked last. Failures leave a letter, replays take letters, and the poll of
the balance route reads and writes in two steps. `held` and `acknowledged` are
history.

### Tenancy, RowSecurity, ApiKeys

`home[u]` is the `CompanyUser` row and `member[t][u]` the organization's
membership. A request authorizes once and acts on the tenant it read while its
user may be provisioned another. `RowSecurity` has the functions and policies as
operators over `home` and the session's claims, shared with `Workforce` and
`Compliance`. `touched` is the history of who changed or listed what of which
tenant: `"scoped"` where the handler asks for the request's tenant, and
`"revocation"` where `PATCH /api/partners` takes a subscription by its id
(`partners/route.ts` 173-179). In `ApiKeys` a lineage is a key and its
successors; finding, revoking and issuing are three awaits, between which a
request may stop. `crossed` (overlapping requests on a lineage) and `ended` are
history.

### Transfers

`account` and `tokens` are the chain; `payer[p]` is the await a call is at, or
its answer, and `landing[p]` its transaction. A call reads the accounts side by
side (one step: only the account two legs share could be seen both ways, and
both ways end alike), then the balance, then sends. The node tries the
transaction before it takes it (`Send`); it lands, fails, or its blockhash
lapses at any time after. A caller that hears an error after sending (`unsure`)
cannot tell what became of its payment, which is why `PaidIsToldApart` excepts
it. Amounts are texts of a whole part and decimals; the powers of ten they are
scaled by are a recursive function (`TenTo`) and the totals of an order are sums
over its legs. `overtaken` is history. Fees in SOL are left out.

### Workforce, Compliance, InvoiceForm

A handler is a `job`, a few database calls with an await between each two. It
carries what it read, and may stop anywhere. Rows are places in a sequence and a
deleted contractor stays there, no longer live. Listings are operators on the
rows: `Newest` is the query of `listInvoices`, newest submission first.
`KnownToPolicies` is the role assumption written at the head of
`rls-policies.sql`: who acts as a contractor in the routes is one to the
policies, under the same id. `Workforce` and `InvoiceForm` share `InvoiceRules`,
the route's own validation in hundredths of a cent. The page rounds twice, by
`toFixed(2)` for the request and by a number format for the screen. The total is
a binary sum, whose last bits are not modelled: where it stands for the middle
between two cents, each of the two may take either (`Nearest`). An attempt of
`Compliance` comes from `executePayout`, which evaluates it, or from the batch
route, which does not. The form may be edited while it is being sent, its
request may be lost before or after it was served, and the page is opened anew.
`seenBy`, `raced`, `unlogged`, `found` and `touched` are history.

### PayoutGate, Onboarding

The gate's tables belong to a server process (`bucket` and `replay` per instance)
and are lost with it; times are counted down (`Tick`). The client sends a request
again after a 401, with the same key. `recent` and `worked` are history.
The wizard is stored in the browser at every change and outlives the page; what
was polled does not. The return from a checkout asks for reconciliation until the
answer is final; webhooks bring the company up to date at any time or never.
`page.says` is what the address says of a payment, a session or a subscription:
the provider may have put it there (`ToldBy`), or a user (`VisitReturn`, with
`Addresses`). `syncDodoCheckoutReturn` takes the address's session before the
company's and fills in from the address what the provider does not say; `Foreign`
and `Claimed` are a session and a payment that only an address speaks of, of
which the provider may say anything. `claimed` is history.

### Dashboard, Portal, ExchangeRates

`Dashboard` keeps the query of invoices as react-query does: `list` is the data
shown with its validity, `asking` its one fetch, which an invalidation drops. A
click is a request; the routes it calls are kept to what they read and write of
the invoice's status, in the steps `Workforce` and `BatchPayout` have in full.
Only a mounted page is modelled: after the user has left it, an announcement
marks its query as outdated but lets a fetch on its way go on.
`Portal` keeps every fetch of a visit, since none is cancelled, and the answer
that came in last. `ExchangeRates` has one cache for each process, as
`PayoutGate` has its tables; requests of a process read, miss and fill it
together, and a restart empties it. `said`, `overwritten`, `late`, `hurried`,
`shrunk`, `newest`, `floor` and `since` are history. Left out: the company
overview, which counts rows in one request and keeps nothing, the search for a
contractor, forms that only post, the wallet button, and presentation.

## 3. Runs

| Run | Instance | Shows |
|---|---|---|
| `escrow` | 2 escrows with different authorities, 3 wallets, amounts 1 and 2, a supply of 5 that is the whole u64 | all properties of the program |
| `engine` | 1 invoice, 3 attempts, 2 wallets, 1 reviewer, 2 tokens for an invoice of 1 | safety of the engine and the refinement of `Settlement` |
| `engine_live` | 2 attempts, 1 wallet, with fairness | a PENDING payout is resolved unless its attempt died |
| `batch` | 2 invoices, a batch of both and a batch of the first, 1 attempt, 1 reviewer, 3 tokens | two payment channels over one row per invoice; with fairness, a row of a batch is resolved unless something died or a sibling orphaned it |
| `recovery` | four parts: 1 invoice, 2 attempts, a sweep, a worker, a rescue, `MaxAttempts` 2; a dashboard of 1 invoice and 2 clicks; a portal of 2 filters, 2 pages and 3 fetches; rates over 2 days for 2 requests to 2 processes, an entry of life 1 and fetches of 1 tick at most | safety of the engine with its recovery services, and of the pages that list what they work on |
| `billing` | 2 handlers, 2 events of one payment (one standard-signed, and only the first with a subscription), `MaxReplays` 2 | safety of the webhook, its letters and replays |
| `billing_live` | 1 handler, 2 subscription events, 1 reconciliation, 1 checkout, with fairness | reconciliation repairs what reordering and stale writes broke |
| `treasury` | 2 companies with a wallet each, a deposit and a batch that pays one company from the other, 1 handler, 1 poll, each notification delivered once and replayed up to twice | ledger and copies follow the chain; with fairness, guesses are repaired |
| `access` | three parts: 2 users, 2 tenants, 2 requests, 2 partners; 3 keys, 2 managers, 1 caller; 2 transfers of 14 orders among 3 wallets | tenants stay apart, lineages are sound, transfers are true |
| `workforce` | three parts: 2 companies, 2 contractors, 2 invoices, 2 jobs at a time and 4 in all; 2 payout attempts of either route, 2 policies and 2 writers; a form of 2 lines and 2 submissions | rows, listings, alerts and the form |
| `browser` | four parts: 2 instances, 2 calls, a limit of 2 in a window of 2 and keys of life 2; a wizard with 2 plans and 1 payment, with 1 plan and 2 payments, and with 1 plan, 1 payment and one of 3 addresses written by hand | the gate and the wizard, with fairness |
| `claim_never_overpaid` | as `engine` | a sentence of the docs, with a counterexample |

The parts of a run share no state; a variable `part` says which of them a
behavior is about, so the run is the sum of the parts and not their product.
A run's property may be the conjunction of a component's invariants
(`RowsAreSound` and the like): the comment of each conjunct says what it means.

Why the bounds are enough: invoices share only the treasury's balance, and the
interesting races are between attempts on one invoice: two of them race for a
retry, and a third makes the FAILED row they race for. Two tokens for an invoice
of one let an escrow be funded twice. One reviewer reads before and writes after
anything else. The escrows of different invoices are told apart in `escrow`. The
proofs then cover every number of invoices, attempts and wallets. In `batch` the
two requests overlap in one invoice and one of them has a second, so that a
creation can fail for one row and succeed for its sibling; three tokens pay a
batch and an escrow of the same invoice. In `recovery` one attempt fails and the
worker, or a request, runs the other; the sweep and the rescue run at any time.
In `billing` two handlers are one delivery beside another or beside a replay,
and two events can be applied in either order; handlers meet only on the rows of
one event. `billing_live` needs one handler: it delivers both events in either
order, while the reconciliation overlaps them. In `treasury` the deposit is paid
to two receivers, so that one transfer of it is nobody's, and the batch reaches
both companies, so that they compete for its ledger row. In `access` two
managers overlap on a lineage and the third key is a successor's successor; the
orders hold every kind of amount (whole, padded, too long, zero, signed,
malformed), legs that share a wallet, a split too small, and totals that two
calls cannot both pay from 250 units. In `workforce` two jobs meet on every row,
and four in all allow onboarding, submission and decision before a deletion; a
price of 25 hundredths of a cent makes totals that are under half a cent and, on
two lines, in the middle between two; amounts meet each threshold exactly (2, 4
and 5) and stay below it. In `browser` a key can expire in one instance while
the other holds it, and a second checkout can overwrite the first; the three
addresses speak of a payment, of a failure with a subscription, and of a
session. On the dashboard two clicks can decide one invoice or pay it while its
list is fetched; three fetches of the portal can be answered in any order, and
two requests for rates can overtake each other, or be served by two processes,
over two days; the bound of `KeepsUp` is met exactly there.

Deadlock checking is off where the system may stop: all escrows released, or all
attempts done.

Fairness (`engine_live`, `batch`): the JavaScript runtime runs every
continuation (weak fairness of `Step`), and a transaction lands or its blockhash
expires (weak fairness of `Cluster`). Errors, crashes and reviews are never
forced. `billing_live` assumes that somebody keeps calling the reconcile route,
that continuations run (weak fairness), and that the provider and the database
answer again and again although they may fail in between (strong fairness of
`FetchSubscription` and `WriteStatus`). The code has no scheduler for this: the
repair is as prompt as the calls of that route. `treasury` assumes that a
handler's continuations run and that the dashboard polls again and again
(`use-app-data.ts` has an interval), with strong fairness of the poll because
the node may not answer for a while. `browser` assumes that time passes (`Tick`)
and that the returned page repeats its reconciliation, as its interval does
while its answer is not final, reaches the provider and is answered again and
again although either may fail in between (strong fairness of `RepeatReconcile`,
which is a reconciliation that reaches the provider, and of `AnswerReconcile`).

## 4. What the runs say about the code

The books never run ahead of the chain, one release lands per invoice and a
signature is always evidence. What the code does not do: it lets two retries
claim one FAILED row, and lets a retry start while a transaction of the failed
attempt is unresolved. Both races end with twice the amount in the escrow, all
of it released. The trace of `claim_never_overpaid` is the second race: the
first attempt sends its deposit and gives up the confirmation, its row is marked
FAILED, one retry claims it while that deposit is unresolved and deposits too,
and both land. `ExactUnlessRaced` and `ConfirmationKeptUnlessRaced` say these
two races are the only way: an update conditioned on `status: "FAILED"`,
together with waiting for unresolved transactions, would be enough.

A batch and an escrow pay one invoice only after one of them was marked FAILED
(`OneChannelUntilFailure`), and no two batches ever do (`OneBatchPays`: a batch
does not reuse a FAILED row). But a batch that gives up on its confirmation
marks its rows FAILED while its transfers can still land, and the engine then
pays the same invoice through the escrow. A batch whose second row cannot be
created leaves the first PENDING for good, which `Orphaned` names in
`BatchRowIsResolved`. A rejection looks at the invoice alone: a failed attempt
may have left its deposit in the escrow when the mail says that no funds moved.
`BooksMeetChain` says how far that goes: money in an escrow always has a PAID
invoice, an attempt that holds the row, one that failed or died on it, or a
stale review to answer for it; `BatchBooks` says the same of both channels, and
`RecoveryBooks` beside the recovery services. An invoice whose attempts all
ended well and whose reviews were fresh never says REJECTED over money that
moved.

The recovery services never book an unpaid invoice and never pay twice; a
RESOLVED job has been paid. They do confirm a row without a signature; the next
call of `executePayout` then passes its first check, and only the unique index
stops it (`ConfirmedIsNotRetried`).

An event of Dodo that was answered, or whose letter was closed, has been applied.
It is applied again only when two calls were on it at a time
(`AppliedOnceUnlessRaced`): the upsert resets `processed` without looking. The
status follows the last event applied, not the last one issued; reconciliation
repairs that (`ReconciliationRepairs`). A replay drops two of the three parts a
standard signature covers, so those letters are given up after ten attempts.

A failed payout is confirmed by a notification only from a transfer of its own
(`ConfirmedByItsTransfer`). That its ledger row then says the same would be too
much: another handler of the same transaction may write the row over in between.
A copy of a balance that is no guess was a balance of its wallet, though not
always the latest: a poll may write an older answer over a newer one. A ledger
row never shows more than its transaction moved, but of several transfers in one
transaction only the one booked last. Keys survive any stop between two writes
except that a rotation that stops after revoking leaves its lineage dead.

Duplicates of a contractor, and of a policy, need overlapping requests. The same
work submitted twice makes two invoices with one hash; the page does so after a
lost answer and only then (`TwiceOnlyAfterLoss`). A contractor with any invoice
cannot be deleted, paid ones included, since the foreign key restricts; the audit
row of such a deletion is written before it fails. The form's total may be half a
cent or less, which the page lets through and the route refuses. At half a cent
the two roundings of the page can differ: for a total of 1.005 it sends and
stores 1.00 and shows 1.01. `ShownIsStored` says that this is the only difference
and that it is one cent.

`executePayout` announces every payout that reaches a threshold, before it goes
on, if the company has an organization. The batch route never evaluates its
payouts, so `PassedIsAnnounced` says that those of it have no alerts.

Requests act on the tenant they were authorized for, with one exception: the
revocation of a webhook subscription takes its id alone, so a request of one
tenant can revoke another's. `OnlyRevocationsCross` says that nothing else
crosses. The checks for this in `lib/tenancy/context.ts` 79-99
(`assertOrganizationMatch`, `assertCompanyMatch`) have no caller.

The client's retry after a 401 carries the key of the first attempt, so on one
instance it is refused as a repetition. In the wizard a stored payment of an
older, failed checkout can stand in for a new one that is unpaid
(`billing.service.ts:403`), and the wizard asks no further once it was told of a
failure: only a return of the window's focus does.
`PassedIsPaidOrClaimed` therefore speaks of a payment at the provider and not of
a paid plan. It excepts a reconciliation that was sent an address with a paid
status, a payment, a session or a subscription: the route takes these parameters
where the provider says nothing (`billing.service.ts` 382-403), and where they
were not put there by the provider the wizard can be past the plan with no
payment. `ReturnUnlocks` likewise excepts a page that such an address has misled
(`Misled`).

The dashboard offers again what it announced only when the server let one
decision write over another, as it does when two requests read the same status.
The portal shows an older answer that came in late until the next click. That is
what the code does, so `SelectionIsListed` excepts it (`late`), and a click on
Next while the list is outdated (`hurried`).

A live rate is no older than any that was answered before its request came in
(`LiveIsNew`). A cached one may be, from another process or after a slow fetch
wrote over a newer one; once rates were answered, no older ones are after the
life of an entry and the longest fetch (`KeepsUp`). The code gives its fetch no
timeout: `MaxWait` is an assumption about the provider and the platform.

`PendingIsResolved` excepts an attempt that died. One that died between the final
release and its booking leaves a PENDING row for a paid invoice for good, unless
somebody runs the rescue, which no route calls.

A transfer that hears an error after it sent may still be paid; nothing in
`transfer.ts` tells that error from others. The findings are in `PROJECT.json`.

## 5. Proofs

The theorems assume what the `ASSUME` of a module says of its constants and
nothing else: that bounds are natural numbers, that what is paid is positive,
that the sets a sum or a count ranges over are finite. Every proof has the same
shape. An inductive invariant (`...Inv`) is named part by part; one lemma per
action, or per part, shows that a step keeps it; the theorem combines them and
reads the property off the invariant. Each property below is what a run of
section 3 checks, except the type invariants `EscrowTypeOK` and `BillingTypeOK`
and the two statements that a component runs the escrow's program.

`SumTheorems` has what the proofs need of sums over a finite set: adding, removing
and changing one element, and that a sum of naturals (integers) is one. The fold
they are defined by recurses over a choice function, and the library's induction
takes an operator; the induction here is over a set instead, of the naturals
(sizes, lengths) or of the parts of a finite set for which the fact holds. The
same way it has that the parts of a sum add up to it, that no part of a sum of
naturals exceeds it, and that what is divided into shares adds up to the whole
(`SumOfShares`).

`EscrowProofs` proves type correctness, `VaultBacked`, `EscrowLedger`,
`ReleaseIsFinal`, `VaultPaysOnlyItsRelease` and `AffordableDepositFits`. The
inductive invariant adds `BlankUntilInitialized`: an account that does not
exist has nothing recorded, without which the ledger is not preserved by
`initialize_escrow`. `AffordableDepositFits` needs `SupplyKept`: no instruction
makes or destroys a token, so that an escrow and a wallet together never hold
more than the supply, which fits in 64 bits.

`PayoutEngineProofs` proves every safety property of the `engine` run, for any
finite number of invoices, attempts, wallets and reviewers. `EngineInv` is the
conjunction of
- `TypeOK` and the escrow program's own invariant, inherited because every
  landing is an instruction of the program (`EngineRunsTheProgram`);
- `Positions`: where an attempt is tells what it has sent;
- `Releases`: a landed release, a repair, a CONFIRMED row and a PAID invoice
  each mean the escrow is released;
- `SignatureIsEvidence` and `OneWinner`;
- `Claims`: who holds an invoice has made its row, and a FAILED row was marked;
- `FirstClaimIsExclusive`;
- `Races`: while no retry has raced, at most one attempt is live on an invoice
  or has a transaction in flight, its row is PENDING, and a deposit is in flight
  only when nothing was deposited. `ExactUnlessRaced` is not inductive without it;
- `Money`: the invoice of whoever has sent a transaction is accounted for, and so
  is every invoice with money in its escrow. What accounts for an invoice is
  never lost (`AccountStays`): a claim ends by a mark, a death or a booking
  (`ClaimEnds`), and only a review takes PAID back (`PaidUnlessOverruled`).
`RowChanges`, `TransactionChanges` and `LiveChanges` say what a step can do to
one row, transaction or attempt; the invariance proofs are read off them.
`EngineSettles` proves the refinement of `Settlement`.

`PayoutServicesProofs` builds on it for what runs beside the engine.
- Batches: `BatchBooks` and `ChannelsExclude`. The engine's `Positions`, `Claims`
  and `Races` stay true beside batches; `Releases` does not, since a batch also
  makes a CONFIRMED row, and `PaidBooks` takes its place. `OwnersExclude` is the
  heart: a request owns the rows it made, all of its invoices once it is about to
  send; no two requests own the same invoice, and no attempt holds one that a
  request owns before a payout of it was marked FAILED. `Transferred` and
  `DepositsAreHeld` tie the money on chain to those owners, and
  `TransfersAreAccounted` keeps every invoice of a batch that has sent its
  transaction accounted for, by the row it holds or by how it let go of it.
- Recovery: `RecoveryBooks` and `ConfirmedIsNotRetried`, and that the services
  too act on the escrow by instructions of its program only. `NamesInvoice`: a
  signature in a row, or one a sweep looks up, is a transaction of that very
  invoice. `RecoveryReleases`: whoever is about to book a payout, or has
  answered with one, does so for a released escrow. `Money` stays true, since
  the services fund no escrow and take PAID from no invoice. `Retried` says what
  a call that found a CONFIRMED row can still do, which is to fail on the unique
  index.
- Compliance: `ComplianceIsSound`. `AlertsFollow` says which alerts an attempt
  has raised by where it is; `LookupsAreComplete` that a writer about to create
  a policy has found every row there was.

`PaymentProofs` has two parts. The first proves `TransfersAreTrue` for any
wallets, opening balances, orders, number of decimals and number of concurrent
calls.
- Digits: `RecursionOnNat` and `FoldExists` give a recursive function and
  `FoldLeft` their defining equations; from them the number a text stands for
  (`NumberRuns`), that trailing zeros multiply it by a power of ten, and so that
  an amount is worth what its text says to the last unit (`UnitsAreExact`) and
  that a printed amount reads back as itself (`PrintsBack`).
- Legs: their units are naturals, positive where the order is payable, and add up
  to the total; what an order spends before any leg and in it is within the total.
- The chain: `TransfersInv` adds to the property `OrdersArePayable`,
  `AnswersAreLandings` and `SeenIsSo`: until another transfer overtakes it, a
  call sees the accounts as they are and its source covers the order. Hence it
  runs (`UnovertakenRuns`), and one that was refused was overtaken.
  `TokensAreKept` follows from `SumOfShares`: what the legs bring to each wallet
  is what they take.

The second proves the properties of the `billing` run and its types,
for any events, handlers, reconciliations and checkouts. `AnswerIsEarned` says
that an answer and a processed row follow a commit. `OneAtATime` strengthens
`AppliedOnceUnlessRaced`: while nobody raced for an event, one handler is on it
at most, and once it is applied its row says processed and nobody is on it.
`AppliedOnceUnlessRaced` alone is not inductive, since it forgets who is about
to commit.

`TreasuryWebhookProofs` proves `LedgerIsTrue`, `UnguessedBalanceWasReal` and
`ConfirmedByItsTransfer` for any number of handlers, viewers, companies and
transactions (the run has one handler). `HandlersAreSound` is what is true of a
handler at each await whatever the others wrote meanwhile: its transaction is
final, its transfer belongs to the company it found, those it has passed are in
the ledger, and a balance it did not guess is one the wallet has had.
`LettersAreFinal` and `AcknowledgedIsFinal` say that letters and answers are
about transactions that are over.

`AccessProofs` has four parts.
- `TenantsAreApart`: `TenancyInv` adds `InsidersBelong` (who is at home in a
  tenant, or acts in it, has belonged to it), without which a request that was
  authorized before its user moved could not be told from a stranger's, and
  `HoldsItsIntegration`: a request between its two writes holds an integration
  of its own tenant. `SubscriptionsHaveTenants` gives a revoked subscription a
  tenant to have been revoked in.
- `LineagesAreSound`: `KeysInv` adds `Heritage` (a key has what was asked for
  when its lineage began), `HeldAreUsed`, `OnePerLineage` (where no two requests
  overlapped, one is on a lineage at most), `OneLive` with `PositionTells` (one
  key of such a lineage is active at most, none when a successor is about to be
  issued), and `EndedIsDead`. Without the positions, a rotation might issue
  beside an active key.
- `RowsAreSound`: `JobsCarryOn` says what each request still knows at its await.
  One that creates a contractor saw no twin among the first `seen` rows; one that
  changes a profile checked the row it read; one that adds an invoice found the
  contractor in its company; one that deletes, or mails, is past its audit row.
  Ids, companies and emails never change and rows are never removed, so all of
  this stays true (`RowsGrow`). `SubmittedOnce` keeps the order of submission a
  permutation of the invoices when the demo moves one to its end.
- `ListingsAreSound`, from the same invariant: a listing has every invoice that is
  wanted and no other (`NewestAreWanted`, an induction over the rows). Its rows
  are of the session's company, and, if the session is `KnownToPolicies`, rows its
  policies let it select; the policies are written under that assumption, and
  outside it the theorem says no more than the company. The
  pages, put together, are the listing for every size (`PagesAreAll`, an induction
  over the pages; `FlatIs` gives `FlattenSeq` its equations).

`BrowserProofs` has six.
- `GateIsSound`: `WindowSound` counts what an instance let through in its open
  window and before it. The bucket counts the former; of the bucket before, the
  request that opened it is out of sight by now, so less than a limit is left.
  `OpenKeysAreUnworked`: a key whose call is not over was not worked for.
- `WizardIsSound`: before the first payment at the provider, and before an
  address that claims something was asked about (`NothingIsPaid`), neither the
  company, nor what is polled or on its way, nor what the browser stored says
  that there was a payment.
- `FormIsSound`: `LossesAreCounted` says that every request of a visit but the
  last was refused or lost its answer; `SentIsShown` ties the amount on its way
  to the lines on screen. Either
  rounding is proved to be within a cent of the total (`NearestIsClose`), and two
  that differ to be neighbours of its middle (`NeighboursAreCents`).
- `DashboardIsTrue`: `DoneIsTrue` (what a route has done is so, unless it was
  written over) and `AnswersAreNew` (an answer on its way was read after
  everything announced, because an announcement drops the fetch before it).
- `PortalIsTrue`: `NewestIsPick`, `ListedIsNewest` and `AnswersAreFilled` relate
  selection, fetches, list and server; `PickIsReached` says that a page other
  than the first was reached by an answer that had it.
- `RatesAreSound`: `SoundGet` says that rates on their way lag behind the newest
  answered by no more than the time their request has waited, `SoundEntry` that
  those in a cache lag by no more than their age and the longest fetch. The
  theorem is for any number of processes, requests and days.

Only model-checked: the liveness properties (`PendingIsResolved`,
`BatchRowIsResolved`, `ReconciliationRepairs`, `BalanceCatchesUp`,
`BrowserUnlocks`), since fairness and `ENABLED` are out of the prover's reach.
Every invariant and action property a passing run checks is also a theorem.
Two of the theorems have named assumptions on constants beyond bounds being
naturals: `TransfersAssumption` says which shapes an order can have (one payee
for a payment, two legs for a split, as many amounts as payees for a batch, which
the types of `transfer.ts` guarantee), and `NobodyAssumption` that the stand-in
for "no contractor" is not the id of one.

## 6. Not modelled, and what is left

Not modelled: metrics, audit export, disaster recovery snapshots and the
reconciliation report read tables and count them; the other pages present what
the routes return; scripts and the demo seed drive the code modelled here; the
session provider, the payment provider and the cluster are external and appear
as what the code sees of them.

Left to do:

1. `detectTreasuryMismatches` and the reconciliation report, once a consumer of
   their rows acts on them.
2. The wizard for two accounts in one browser, which share its stored state.
