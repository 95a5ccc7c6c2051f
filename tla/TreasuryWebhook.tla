-------------------------- MODULE TreasuryWebhook --------------------------
(***************************************************************************)
(* The companies' view of their treasury wallets: the Helius webhook       *)
(* (app/api/webhooks/helius/route.ts, processHeliusTreasuryWebhook of      *)
(* lib/services/treasury.service.ts), its dead letters and their replay    *)
(* (lib/services/webhook-recovery.service.ts), and the balance route the   *)
(* dashboard polls (app/api/treasury/balance/route.ts).                    *)
(*                                                                         *)
(* A company keeps a copy of its wallet's balance.  A notification writes  *)
(* the live balance over it or, when the node does not answer, adds the    *)
(* transfer to the copy it read before: such a copy is a guess.  Companies *)
(* may share a wallet, as those created by a signup do.                    *)
(***************************************************************************)
EXTENDS Integers, Sequences, Functions

CONSTANTS
    Companies,
    Wallets,        \* treasury wallets of companies
    Outside,        \* any other account
    WalletOf,       \* treasuryWalletAddress of each company
    Sigs,           \* USDC transactions, by signature
    TransfersOf,    \* tokenTransfers of each: sequences of [from, to, amount]
    PayerOf,        \* the company whose batch payout a signature is, or Outside
    Named,          \* signatures whose notifications carry a helius-event-id
    Handlers,       \* concurrent calls of the webhook route or of the replay
    Viewers,        \* concurrent calls of the balance route
    MaxDeliveries,  \* bound: deliveries of each notification
    MaxReplays,     \* failed replays that make a dead letter permanent
    MaxBalance      \* bound: the copies of balances that guesses may reach

Transfers == [from: Wallets \cup {Outside}, to: Wallets \cup {Outside}, amount: Nat]

ASSUME TreasuryAssumption ==
    /\ WalletOf \in [Companies -> Wallets] /\ Outside \notin Wallets \cup Companies
    /\ TransfersOf \in [Sigs -> Seq(Transfers)]
    /\ PayerOf \in [Sigs -> Companies \cup {Outside}]
    /\ Named \subseteq Sigs
    /\ MaxDeliveries \in [Sigs -> Nat] /\ MaxReplays \in Nat \ {0} /\ MaxBalance \in Nat

VARIABLES
    chain,       \* outcome of each transaction
    live,        \* balance of each wallet on chain
    delivered,   \* deliveries of each notification so far
    ledger,      \* the TreasuryTransaction row of each signature
    cached,      \* treasuryBalanceUsdc of each company
    payout,      \* status of the payout rows that carry a signature
    letter,      \* DeadLetterWebhook rows
    handler,     \* the await each handler is at
    viewer,      \* the await each call of the balance route is at
    guessed,     \* history: companies whose copy is a guess
    held,        \* history: balances each wallet has had
    acknowledged \* history: signatures whose notification was answered with 200

tables == <<ledger, cached, payout, letter>>
treasuryHistory == <<guessed, held, acknowledged>>
treasuryVars == <<chain, live, delivered, tables, handler, viewer, treasuryHistory>>

NoRow == [direction |-> "none"]
Rows == {NoRow} \cup [company: Companies, direction: {"INCOMING", "OUTGOING"}, amount: Nat]

(* A letter is keyed by the event id; a delivery without one gets a key of *)
(* its own.                                                                *)
LetterKeys == UNION {{s} \X (0 .. MaxDeliveries[s]) : s \in Sigs}
LetterKey(s, n) == <<s, IF s \in Named THEN 0 ELSE n>>
Letters == [status: {"none", "PENDING_REPLAY", "REPLAYED", "PERMANENT_FAILURE"},
            full: BOOLEAN, attempts: 0 .. MaxReplays]

Idle == [at |-> "idle"]
Working == [at: {"lookup", "record", "read", "write", "confirm"},
            key: LetterKeys, replay: BOOLEAN, full: BOOLEAN, attempts: 0 .. MaxReplays,
            next: Nat, company: Companies \cup {Outside}, base: Nat, seen: Nat,
            guess: BOOLEAN]
At(h, label) == handler[h].at = label
SigOf(h) == handler[h].key[1]
Current(h) == TransfersOf[SigOf(h)][handler[h].next]

TreasuryTypeOK ==
    /\ chain \in [Sigs -> {"unsent", "landed", "failed"}]
    /\ live \in [Wallets -> Nat]
    /\ delivered \in [Sigs -> Nat] /\ \A s \in Sigs : delivered[s] <= MaxDeliveries[s]
    /\ ledger \in [Sigs -> Rows]
    /\ cached \in [Companies -> Nat]
    /\ payout \in [Sigs -> {"none", "CONFIRMED", "FAILED"}]
    /\ letter \in [LetterKeys -> Letters]
    /\ handler \in [Handlers -> {Idle} \cup Working]
    /\ viewer \in [Viewers -> {Idle} \cup [at: {"write"}, company: Companies, seen: Nat]]
    /\ guessed \subseteq Companies
    /\ held \in [Wallets -> SUBSET Nat]
    /\ acknowledged \subseteq Sigs

TreasuryInit ==
    /\ chain = [s \in Sigs |-> "unsent"]
    /\ live = [w \in Wallets |-> 0]
    /\ delivered = [s \in Sigs |-> 0]
    /\ ledger = [s \in Sigs |-> NoRow]
    /\ cached = [c \in Companies |-> 0]
    /\ payout = [s \in Sigs |-> "none"]
    /\ letter = [k \in LetterKeys |-> [status |-> "none", full |-> FALSE, attempts |-> 0]]
    /\ handler = [h \in Handlers |-> Idle]
    /\ viewer = [v \in Viewers |-> Idle]
    /\ guessed = {}
    /\ held = [w \in Wallets |-> {0}]
    /\ acknowledged = {}

-----------------------------------------------------------------------------
(* The chain, and the batch route that books what it sent.                  *)

AmountsOf(s) == [n \in DOMAIN TransfersOf[s] |-> TransfersOf[s][n].amount]
Into(s, w) == {n \in DOMAIN TransfersOf[s] : TransfersOf[s][n].to = w}
OutOf(s, w) == {n \in DOMAIN TransfersOf[s] : TransfersOf[s][n].from = w}
Inflow(s, w) == SumFunctionOnSet(AmountsOf(s), Into(s, w))
Outflow(s, w) == SumFunctionOnSet(AmountsOf(s), OutOf(s, w))

Land(s) ==
    /\ chain[s] = "unsent"
    /\ \A w \in Wallets : Outflow(s, w) <= live[w]
    /\ chain' = [chain EXCEPT ![s] = "landed"]
    /\ live' = [w \in Wallets |-> live[w] + Inflow(s, w) - Outflow(s, w)]
    /\ held' = [w \in Wallets |-> held[w] \cup {live'[w]}]
    /\ UNCHANGED <<delivered, tables, handler, viewer, guessed, acknowledged>>

(* Refused by the cluster: notified with a transactionError.                *)
Refused(s) ==
    /\ chain[s] = "unsent"
    /\ chain' = [chain EXCEPT ![s] = "failed"]
    /\ UNCHANGED <<live, delivered, tables, handler, viewer, treasuryHistory>>

(* The batch route writes a signature together with CONFIRMED; an error     *)
(* after that commit makes its catch block write FAILED.                    *)
Book(s) ==
    /\ PayerOf[s] \in Companies /\ chain[s] = "landed" /\ payout[s] = "none"
    /\ payout' = [payout EXCEPT ![s] = "CONFIRMED"]
    /\ UNCHANGED <<chain, live, delivered, ledger, cached, letter, handler, viewer, treasuryHistory>>

Unbook(s) ==
    /\ payout[s] = "CONFIRMED"
    /\ payout' = [payout EXCEPT ![s] = "FAILED"]
    /\ UNCHANGED <<chain, live, delivered, ledger, cached, letter, handler, viewer, treasuryHistory>>

-----------------------------------------------------------------------------
(* Deliveries and letters.                                                  *)

Start(key, replay, full, attempts) ==
    [at |-> "lookup", key |-> key, replay |-> replay,
     full |-> full, attempts |-> attempts, next |-> 1, company |-> Outside, base |-> 0,
     seen |-> 0, guess |-> FALSE]

(* An update keeps the attempts of a letter and replaces its payload.       *)
Recorded(l, full) == [l EXCEPT !.status = "PENDING_REPLAY", !.full = full]

(* Freshness, secret and body are checked before any row is read.  The      *)
(* payload is parsed last, so a delivery refused by a check leaves a letter *)
(* with an empty payload; recording a letter may itself fail.               *)
Deliver(h, s) ==
    /\ handler[h] = Idle /\ chain[s] # "unsent" /\ delivered[s] < MaxDeliveries[s]
    /\ delivered' = [delivered EXCEPT ![s] = @ + 1]
    /\ LET key == LetterKey(s, delivered'[s])
       IN \/ /\ handler' = [handler EXCEPT ![h] = Start(key, FALSE, TRUE, 0)]
             /\ UNCHANGED letter
          \/ /\ letter' \in {letter, [letter EXCEPT ![key] = Recorded(@, FALSE)]}
             /\ UNCHANGED handler
    /\ UNCHANGED <<chain, live, ledger, cached, payout, viewer, treasuryHistory>>

(* A replay works on the payload and the attempts it read; an empty payload *)
(* is a transaction without a signature, and is skipped.                    *)
TakeLetter(h, key) ==
    /\ handler[h] = Idle /\ letter[key].status = "PENDING_REPLAY"
    /\ handler' = [handler EXCEPT ![h] =
                       Start(key, TRUE, letter[key].full, letter[key].attempts)]
    /\ UNCHANGED <<chain, live, delivered, tables, viewer, treasuryHistory>>

(* The catch block of the route, or of the replay, after an error at any    *)
(* await; the update of the row may fail as well.  A delivery can reopen a  *)
(* letter that was given up: attempts count up to MaxReplays only, where    *)
(* the next failed replay gives it up again in any case.                    *)
CountedFailure(h, l) ==
    LET attempts == handler[h].attempts + 1
    IN [l EXCEPT !.attempts = IF attempts > MaxReplays THEN MaxReplays ELSE attempts,
                 !.status = IF attempts >= MaxReplays
                            THEN "PERMANENT_FAILURE" ELSE "PENDING_REPLAY"]

Fail(h) ==
    /\ handler[h] # Idle
    /\ LET key == handler[h].key
       IN letter' \in {letter, [letter EXCEPT ![key] =
                                    IF handler[h].replay THEN CountedFailure(h, @)
                                    ELSE Recorded(@, TRUE)]}
    /\ handler' = [handler EXCEPT ![h] = Idle]
    /\ UNCHANGED <<chain, live, delivered, ledger, cached, payout, viewer, treasuryHistory>>

-----------------------------------------------------------------------------
(* processHeliusTreasuryWebhook, one transfer of the payload after another. *)

Owners(t) == {c \in Companies : WalletOf[c] \in {t.from, t.to}}
Counted(s) == {n \in DOMAIN TransfersOf[s] :
                   Owners(TransfersOf[s][n]) # {} /\ TransfersOf[s][n].amount > 0}

(* Nothing left to do: also for an empty payload or a failed transaction.   *)
Processed(h) ==
    /\ At(h, "lookup")
    /\ ~handler[h].full \/ chain[SigOf(h)] = "failed"
       \/ handler[h].next > Len(TransfersOf[SigOf(h)])

Skip(h) ==
    /\ At(h, "lookup") /\ ~Processed(h) /\ handler[h].next \notin Counted(SigOf(h))
    /\ handler' = [handler EXCEPT ![h].next = @ + 1]
    /\ UNCHANGED <<chain, live, delivered, tables, viewer, treasuryHistory>>

\* mutant: a replay takes its transfers for recorded
FindCompanyReplayed(h) ==
    /\ At(h, "lookup") /\ ~Processed(h) /\ handler[h].next \in Counted(SigOf(h))
    /\ \E c \in Owners(Current(h)) :
           handler' = [handler EXCEPT ![h] =
                           [@ EXCEPT !.at = IF handler[h].replay THEN "read" ELSE "record",
                                     !.company = c, !.base = cached[c]]]
    /\ UNCHANGED <<chain, live, delivered, tables, viewer, treasuryHistory>>

(* findFirst without an order: any company with either wallet, and its copy *)
(* of the balance as of now.                                                *)
FindCompany(h) ==
    /\ At(h, "lookup") /\ ~Processed(h)
    /\ handler[h].next \in Counted(SigOf(h))
    /\ \E c \in Owners(Current(h)) :
           handler' = [handler EXCEPT ![h] =
                           [@ EXCEPT !.at = "record", !.company = c, !.base = cached[c]]]
    /\ UNCHANGED <<chain, live, delivered, tables, viewer, treasuryHistory>>

Direction(h) ==
    IF Current(h).to = WalletOf[handler[h].company] THEN "INCOMING" ELSE "OUTGOING"

\* mutant: a repeated transfer is added to its row
RecordTransferAgain(h) ==
    /\ At(h, "record")
    /\ ledger' = [ledger EXCEPT ![SigOf(h)] =
                      [company |-> handler[h].company, direction |-> Direction(h),
                       amount |-> Current(h).amount + IF @ = NoRow THEN 0 ELSE @.amount]]
    /\ handler' = [handler EXCEPT ![h].at = "read"]
    /\ UNCHANGED <<chain, live, delivered, cached, payout, letter, viewer, treasuryHistory>>

(* One row per signature: a later transfer of the same transaction, or a    *)
(* later delivery, updates it.                                              *)
RecordTransfer(h) ==
    /\ At(h, "record")
    /\ ledger' = [ledger EXCEPT ![SigOf(h)] =
                      [company |-> handler[h].company, direction |-> Direction(h),
                       amount |-> Current(h).amount]]
    /\ handler' = [handler EXCEPT ![h].at = "read"]
    /\ UNCHANGED <<chain, live, delivered, cached, payout, letter, viewer, treasuryHistory>>

ReadBalance(h) ==
    /\ At(h, "read")
    /\ handler' = [handler EXCEPT ![h] =
                       [@ EXCEPT !.at = "write", !.guess = FALSE,
                                 !.seen = live[WalletOf[handler[h].company]]]]
    /\ UNCHANGED <<chain, live, delivered, tables, viewer, treasuryHistory>>

(* The node does not answer: the copy read before, moved by the transfer.   *)
Guess(h) ==
    LET base == handler[h].base
        amount == Current(h).amount
    IN IF Direction(h) = "INCOMING" THEN base + amount
       ELSE IF amount > base THEN 0 ELSE base - amount

GuessBalance(h) ==
    /\ At(h, "read") /\ Guess(h) <= MaxBalance
    /\ handler' = [handler EXCEPT ![h] =
                       [@ EXCEPT !.at = "write", !.guess = TRUE, !.seen = Guess(h)]]
    /\ UNCHANGED <<chain, live, delivered, tables, viewer, treasuryHistory>>

NextTransfer(h) ==
    [handler EXCEPT ![h] = [@ EXCEPT !.at = "lookup", !.next = handler[h].next + 1,
                                     !.company = Outside, !.base = 0, !.seen = 0,
                                     !.guess = FALSE]]

WriteBalance(h) ==
    /\ At(h, "write")
    /\ LET c == handler[h].company
       IN /\ cached' = [cached EXCEPT ![c] = handler[h].seen]
          /\ guessed' = IF handler[h].guess THEN guessed \cup {c} ELSE guessed \ {c}
    /\ handler' = IF Direction(h) = "OUTGOING" THEN [handler EXCEPT ![h].at = "confirm"]
                  ELSE NextTransfer(h)
    /\ UNCHANGED <<chain, live, delivered, ledger, payout, letter, viewer, held, acknowledged>>

(* updateMany: the company's payouts that carry the signature.              *)
ConfirmPayouts(h) ==
    /\ At(h, "confirm")
    /\ payout' = [payout EXCEPT ![SigOf(h)] =
                      IF @ # "none" /\ PayerOf[SigOf(h)] = handler[h].company
                      THEN "CONFIRMED" ELSE @]
    /\ handler' = NextTransfer(h)
    /\ UNCHANGED <<chain, live, delivered, ledger, cached, letter, viewer, treasuryHistory>>

AnswerDelivery(h) ==
    /\ Processed(h) /\ ~handler[h].replay
    /\ acknowledged' = acknowledged \cup {SigOf(h)}
    /\ handler' = [handler EXCEPT ![h] = Idle]
    /\ UNCHANGED <<chain, live, delivered, tables, viewer, guessed, held>>

CloseLetter(h) ==
    /\ Processed(h) /\ handler[h].replay
    /\ letter' = [letter EXCEPT ![handler[h].key].status = "REPLAYED"]
    /\ handler' = [handler EXCEPT ![h] = Idle]
    /\ UNCHANGED <<chain, live, delivered, ledger, cached, payout, viewer, treasuryHistory>>

Process(h) ==
    Skip(h) \/ FindCompany(h) \/ RecordTransfer(h) \/ ReadBalance(h) \/ GuessBalance(h)
    \/ WriteBalance(h) \/ ConfirmPayouts(h) \/ AnswerDelivery(h) \/ CloseLetter(h)

-----------------------------------------------------------------------------
\* mutant: a poll answers with the copy it finds
ViewCached(v, c) ==
    /\ viewer[v] = Idle
    /\ viewer' = [viewer EXCEPT ![v] = [at |-> "write", company |-> c, seen |-> cached[c]]]
    /\ UNCHANGED <<chain, live, delivered, tables, handler, treasuryHistory>>

(* The balance route; when the node does not answer it changes nothing.     *)

View(v, c) ==
    /\ viewer[v] = Idle
    /\ viewer' = [viewer EXCEPT ![v] = [at |-> "write", company |-> c,
                                        seen |-> live[WalletOf[c]]]]
    /\ UNCHANGED <<chain, live, delivered, tables, handler, treasuryHistory>>

\* mutant: adds what was read to the copy instead of replacing it
SaveViewAdded(v) ==
    /\ viewer[v] # Idle /\ cached[viewer[v].company] + viewer[v].seen <= MaxBalance
    /\ cached' = [cached EXCEPT ![viewer[v].company] = @ + viewer[v].seen]
    /\ guessed' = guessed \ {viewer[v].company}
    /\ viewer' = [viewer EXCEPT ![v] = Idle]
    /\ UNCHANGED <<chain, live, delivered, ledger, payout, letter, handler, held, acknowledged>>

SaveView(v) ==
    /\ viewer[v] # Idle
    /\ cached' = [cached EXCEPT ![viewer[v].company] = viewer[v].seen]
    /\ guessed' = guessed \ {viewer[v].company}
    /\ viewer' = [viewer EXCEPT ![v] = Idle]
    /\ UNCHANGED <<chain, live, delivered, ledger, payout, letter, handler, held, acknowledged>>

-----------------------------------------------------------------------------
HandlerStep(h) ==
    \/ \E s \in Sigs : Deliver(h, s)
    \/ \E key \in LetterKeys : TakeLetter(h, key)
    \/ Process(h) \/ Fail(h)

ViewerStep(v) == (\E c \in Companies : View(v, c)) \/ SaveView(v)

TreasuryNext ==
    \/ \E s \in Sigs : Land(s) \/ Refused(s) \/ Book(s) \/ Unbook(s)
    \/ \E h \in Handlers : HandlerStep(h)
    \/ \E v \in Viewers : ViewerStep(v)

TreasurySpec == TreasuryInit /\ [][TreasuryNext]_treasuryVars

(* Continuations run, and the dashboard of every company polls its balance  *)
(* (useTreasuryBalance: every 20 seconds), the node answering now and then. *)
FairTreasurySpec ==
    /\ TreasurySpec
    /\ \A h \in Handlers : WF_treasuryVars(Process(h))
    /\ \A c \in Companies : SF_treasuryVars(\E v \in Viewers : View(v, c))
    /\ \A v \in Viewers : WF_treasuryVars(SaveView(v))

-----------------------------------------------------------------------------
(* Unless it is a guess, a company's copy is a balance its wallet has had,  *)
(* however notifications, polls and transfers overlap.                      *)
UnguessedBalanceWasReal ==
    \A c \in Companies : c \notin guessed => cached[c] \in held[WalletOf[c]]

(* A notification answered with 200 is not sent again, so its transfers are *)
(* in the ledger by then, whatever failed before.                           *)
AcknowledgedIsRecorded ==
    \A s \in acknowledged :
        chain[s] = "landed" /\ Counted(s) # {} => ledger[s] # NoRow

(* However often a notification is delivered or replayed, the ledger never  *)
(* shows more than the transaction moved, in the direction it moved it.     *)
LedgerNeverOverstates ==
    \A s \in Sigs : ledger[s] # NoRow =>
        /\ chain[s] = "landed"
        /\ LET w == WalletOf[ledger[s].company]
           IN ledger[s].amount <= IF ledger[s].direction = "INCOMING"
                                  THEN Inflow(s, w) ELSE Outflow(s, w)

(* A payout that fell to FAILED after it was sent is confirmed again only   *)
(* for a landed transaction that is in the ledger and took money from the   *)
(* wallet of the company that owns the payout, however many deliveries and  *)
(* replays of the notification run at once.                                 *)
ConfirmedByItsTransfer ==
    [][\A s \in Sigs : payout[s] = "FAILED" /\ payout'[s] = "CONFIRMED" =>
           /\ chain[s] = "landed" /\ ledger[s] # NoRow
           /\ Outflow(s, WalletOf[PayerOf[s]]) > 0]_treasuryVars

(* However many replays go on guessing, polling brings each company's copy  *)
(* back to the balance of its wallet again and again.                       *)
BalanceCatchesUp == \A c \in Companies : []<>(cached[c] = live[WalletOf[c]])

(* The ledger holds what was acknowledged, and nothing that did not happen. *)
LedgerIsTrue == TreasuryTypeOK /\ AcknowledgedIsRecorded /\ LedgerNeverOverstates

=============================================================================
