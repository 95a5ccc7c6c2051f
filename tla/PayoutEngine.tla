---------------------------- MODULE PayoutEngine ----------------------------
(***************************************************************************)
(* executePayout of lib/services/payout.service.ts with the escrow client  *)
(* lib/solana/escrow.ts it calls, and the invoice decisions that race with *)
(* it (lib/services/invoice.service.ts).                                   *)
(*                                                                         *)
(* An attempt is one call of executePayout.  It advances from one await to *)
(* the next; between two awaits anything else may run.  The three shared   *)
(* states are the payout rows, the invoices and the chain.  A transaction  *)
(* an attempt sends lands or is dropped on its own: the attempt may give   *)
(* up on it (RPC error, confirmation timeout) while it can still land.     *)
(*                                                                         *)
(* Reading the escrow and sending the instruction it calls for is one step *)
(* here: the instruction takes effect when it lands, at any later time, so *)
(* a delay between the read and the send is a delay of the landing.        *)
(***************************************************************************)
EXTENDS Integers, FiniteSets

CONSTANTS
    Invoices,
    Payees,      \* wallets the contractors have given
    Treasury,    \* the wallet that signs every transaction
    Amount,      \* amountUsdc of each invoice, in base units
    Attempts,    \* calls of executePayout
    Signatures,  \* of the transactions a row may name: the attempts', and those
                 \* of other routes that share the rows
    Reviewers,   \* concurrent approve and reject requests
    Funds,       \* USDC in the treasury at the start
    MaxU64,
    None

ASSUME EngineAssumption ==
    /\ IsFiniteSet(Invoices) /\ IsFiniteSet(Payees \cup {Treasury})
    /\ Amount \in [Invoices -> Nat \ {0}]
    /\ Treasury \notin Payees
    /\ Attempts \subseteq Signatures
    /\ None \notin Payees \cup Signatures
    /\ MaxU64 \in Nat
    /\ Funds \in 0 .. MaxU64

VARIABLES
    escrow, vault, balance, deposited, paid,  \* the chain, see Escrow
    payout,     \* the Payout row of each invoice (@@unique([invoiceId]))
    invoice,    \* status of each Invoice row
    call,       \* the arguments of each attempt
    pc,         \* the await each attempt is at
    seen,       \* status of the payout row each attempt read at first
    tx,         \* the last transaction of each attempt
    review,     \* the decision each reviewer is about to write
    raced,      \* history: invoices whose FAILED row was claimed by a lost update
    failed,     \* history: invoices whose row an attempt has marked FAILED
    abandoned,  \* history: invoices whose claiming attempt died
    overruled   \* history: invoices a review decided that were decided or paid meanwhile

chainVars == <<escrow, vault, balance, deposited, paid>>
dbVars == <<payout, invoice>>
historyVars == <<raced, failed, abandoned, overruled>>
vars == <<chainVars, dbVars, call, pc, seen, tx, review, historyVars>>

Chain == INSTANCE Escrow WITH
    Escrows <- Invoices,
    Wallets <- Payees \cup {Treasury},
    Authority <- [i \in Invoices |-> Treasury],
    Amounts <- {Amount[i] : i \in Invoices},
    Supply <- Funds

Operations == {"initialize", "deposit", "release"}

PayoutStatus == {"NONE", "PENDING", "FAILED", "CONFIRMED"}

InvoiceStatus == {"PENDING", "APPROVED", "REJECTED", "PAID"}

(* Awaits of an attempt before it owns a row, and while it does.            *)
Unclaimed == {"lookup", "repair", "readInvoice", "claim"}
Claimed == {"initialize", "savePda", "deposit", "release", "saveRelease",
            "await", "markFailed", "confirm"}

PayoutRow == [status: PayoutStatus,
              wallet: Payees \cup {None},
              txSignature: Signatures \cup {None},
              escrowPda: BOOLEAN]

Call == [invoice: Invoices, wallet: Payees]

Transaction == [op: Operations \cup {"none"},
                state: {"none", "sent", "landed", "dropped"}]

Idle == [decision |-> "none"]

Review == {Idle} \cup [decision: {"APPROVED", "REJECTED"}, invoice: Invoices]

TypeOK ==
    /\ Chain!EscrowTypeOK
    /\ payout \in [Invoices -> PayoutRow]
    /\ invoice \in [Invoices -> InvoiceStatus]
    /\ call \in [Attempts -> Call]
    /\ pc \in [Attempts -> Unclaimed \cup Claimed \cup {"done"}]
    /\ seen \in [Attempts -> PayoutStatus]
    /\ tx \in [Attempts -> Transaction]
    /\ review \in [Reviewers -> Review]
    /\ raced \subseteq Invoices
    /\ failed \subseteq Invoices
    /\ abandoned \subseteq Invoices
    /\ overruled \subseteq Invoices

NoRow == [status |-> "NONE", wallet |-> None, txSignature |-> None, escrowPda |-> FALSE]

Init ==
    /\ Chain!EscrowInit
    /\ balance[Treasury] = Funds
    /\ payout = [i \in Invoices |-> NoRow]
    /\ invoice = [i \in Invoices |-> "PENDING"]
    /\ call \in [Attempts -> Call]
    /\ pc = [a \in Attempts |-> "lookup"]
    /\ seen = [a \in Attempts |-> "NONE"]
    /\ tx = [a \in Attempts |-> [op |-> "none", state |-> "none"]]
    /\ review = [r \in Reviewers |-> Idle]
    /\ raced = {}
    /\ failed = {}
    /\ abandoned = {}
    /\ overruled = {}

-----------------------------------------------------------------------------
(* Before the claim.                                                        *)

(* payout.findUnique: a confirmed row with its signature is answered again, *)
(* a pending one is refused as a duplicate.                                 *)
AfterLookup(row) ==
    CASE row.status = "CONFIRMED" /\ row.txSignature # None -> "repair"
      [] row.status = "PENDING" -> "done"
      [] OTHER -> "readInvoice"

Lookup(a) ==
    LET row == payout[call[a].invoice] IN
    /\ pc[a] = "lookup"
    /\ seen' = [seen EXCEPT ![a] = row.status]
    /\ pc' = [pc EXCEPT ![a] = AfterLookup(row)]
    /\ UNCHANGED <<chainVars, dbVars, call, tx, review, historyVars>>

(* The invoice of a confirmed payout is set to PAID, whatever it says now.  *)
Repair(a) ==
    /\ pc[a] = "repair"
    /\ invoice' = [invoice EXCEPT ![call[a].invoice] = "PAID"]
    /\ pc' = [pc EXCEPT ![a] = "done"]
    /\ UNCHANGED <<chainVars, payout, call, seen, tx, review, historyVars>>

ReadInvoice(a) ==
    /\ pc[a] = "readInvoice"
    /\ pc' = [pc EXCEPT ![a] =
                 IF invoice[call[a].invoice] \in {"PENDING", "APPROVED"}
                 THEN "claim" ELSE "done"]
    /\ UNCHANGED <<chainVars, dbVars, call, seen, tx, review, historyVars>>

ClaimedRow(a) ==
    [status |-> "PENDING", wallet |-> call[a].wallet,
     txSignature |-> None, escrowPda |-> FALSE]

(* payout.create: the unique index on invoiceId lets one attempt in.        *)
NoUniqueIndex(i) == TRUE  \* mutant: the row of another attempt is overwritten

RowFree(i) == payout[i].status = "NONE"

CreateRow(a) ==
    LET i == call[a].invoice IN
    /\ pc[a] = "claim"
    /\ seen[a] # "FAILED"
    /\ IF RowFree(i)
       THEN /\ payout' = [payout EXCEPT ![i] = ClaimedRow(a)]
            /\ pc' = [pc EXCEPT ![a] = "initialize"]
       ELSE /\ pc' = [pc EXCEPT ![a] = "done"]
            /\ UNCHANGED payout
    /\ UNCHANGED <<chainVars, invoice, call, seen, tx, review, historyVars>>

(* payout.update of a row read as FAILED: the update does not look at the   *)
(* status again.  The claim races when the row is no longer FAILED, or when *)
(* a transaction sent for the invoice is still unresolved.                  *)
Unresolved(i) == \E b \in Attempts : call[b].invoice = i /\ tx[b].state = "sent"

ReclaimRow(a) ==
    LET i == call[a].invoice IN
    /\ pc[a] = "claim"
    /\ seen[a] = "FAILED"
    /\ payout' = [payout EXCEPT ![i] = ClaimedRow(a)]
    /\ raced' = IF payout[i].status # "FAILED" \/ Unresolved(i)
                THEN raced \cup {i} ELSE raced
    /\ pc' = [pc EXCEPT ![a] = "initialize"]
    /\ UNCHANGED <<chainVars, invoice, call, seen, tx, review, failed, abandoned, overruled>>

-----------------------------------------------------------------------------
(* The escrow client.  Each operation reads the account (finalized) and     *)
(* either sends its instruction, or finds nothing to do, or throws.         *)

Send(a, op) ==
    /\ tx' = [tx EXCEPT ![a] = [op |-> op, state |-> "sent"]]
    /\ pc' = [pc EXCEPT ![a] = "await"]

GoTo(a, next) ==
    /\ pc' = [pc EXCEPT ![a] = next]
    /\ UNCHANGED tx

InitializeEscrow(a) ==
    LET account == escrow[call[a].invoice] IN
    /\ pc[a] = "initialize"
    /\ \/ ~account.initialized /\ Send(a, "initialize")
       \/ account.initialized /\ account.isReleased /\ GoTo(a, "markFailed")
       \/ account.initialized /\ ~account.isReleased /\ GoTo(a, "savePda")
    /\ UNCHANGED <<chainVars, dbVars, call, seen, review, historyVars>>

(* A deposit is sent into an empty escrow only; one that holds exactly the  *)
(* amount is taken as funded, any other holding is refused.                 *)
DepositTwice(account) == TRUE     \* mutant: no look at what is held

NeedsDeposit(account) == account.amount = 0

DepositEscrow(a) ==
    LET i == call[a].invoice
        account == escrow[i] IN
    /\ pc[a] = "deposit"
    /\ \/ /\ account.initialized /\ ~account.isReleased
          /\ NeedsDeposit(account)
          /\ Send(a, "deposit")
       \/ /\ account.initialized /\ ~account.isReleased
          /\ account.amount = Amount[i]
          /\ GoTo(a, "release")
       \/ /\ \/ ~account.initialized
             \/ account.isReleased
             \/ account.amount \notin {0, Amount[i]}
          /\ GoTo(a, "markFailed")
    /\ UNCHANGED <<chainVars, dbVars, call, seen, review, historyVars>>

(* releaseEscrow does not compare the amount held with the invoice.         *)
ReleaseEscrow(a) ==
    LET account == escrow[call[a].invoice] IN
    /\ pc[a] = "release"
    /\ IF account.initialized /\ ~account.isReleased
       THEN Send(a, "release")
       ELSE GoTo(a, "markFailed")
    /\ UNCHANGED <<chainVars, dbVars, call, seen, review, historyVars>>

(* The row remembers the PDA after initializeEscrow and after releaseEscrow. *)
SavePda(a) ==
    /\ pc[a] \in {"savePda", "saveRelease"}
    /\ payout' = [payout EXCEPT ![call[a].invoice].escrowPda = TRUE]
    /\ pc' = [pc EXCEPT ![a] = IF @ = "savePda" THEN "deposit" ELSE "confirm"]
    /\ UNCHANGED <<chainVars, invoice, call, seen, tx, review, historyVars>>

(* rpc() and confirmFinalized return: the transaction is finalized, or it   *)
(* failed on chain or expired.                                              *)
AfterLanding(op) ==
    CASE op = "initialize" -> "savePda"
      [] op = "deposit" -> "release"
      [] op = "release" -> "saveRelease"
      [] OTHER -> "markFailed"

ConfirmedUnseen(state) == state # "none"  \* mutant: sent is taken for finalized

Finalized(state) == state = "landed"

WaitsForever(state) == FALSE  \* mutant: an expired transaction is never reported

Refused(state) == state = "dropped"

Confirmation(a) ==
    /\ pc[a] = "await"
    /\ \/ /\ Finalized(tx[a].state)
          /\ pc' = [pc EXCEPT ![a] = AfterLanding(tx[a].op)]
       \/ /\ Refused(tx[a].state)
          /\ pc' = [pc EXCEPT ![a] = "markFailed"]
    /\ UNCHANGED <<chainVars, dbVars, call, seen, tx, review, historyVars>>

(* An error of the RPC node, of a guard or of the database inside the try   *)
(* block, a confirmation timeout included: nothing is undone on chain.      *)
Throw(a) ==
    /\ pc[a] \in Claimed \ {"markFailed", "confirm"}
    /\ pc' = [pc EXCEPT ![a] = "markFailed"]
    /\ UNCHANGED <<chainVars, dbVars, call, seen, tx, review, historyVars>>

-----------------------------------------------------------------------------
(* The end of an attempt.                                                   *)

(* The catch block: the row becomes FAILED, whatever it says now.           *)
MarkFailed(a) ==
    LET i == call[a].invoice IN
    /\ pc[a] = "markFailed"
    /\ payout' = [payout EXCEPT ![i].status = "FAILED"]
    /\ failed' = failed \cup {i}
    /\ pc' = [pc EXCEPT ![a] = "done"]
    /\ UNCHANGED <<chainVars, invoice, call, seen, tx, review, raced, abandoned, overruled>>

(* The $transaction that books the payout and the invoice together.         *)
InvoiceStatusInRow(row, a) ==  \* mutant: the invoice's status in the payout
    [row EXCEPT !.status = "PAID", !.txSignature = a, !.escrowPda = TRUE]

SignatureForgotten(row, a) ==  \* mutant: txSignature left out of the update
    [row EXCEPT !.status = "CONFIRMED", !.escrowPda = TRUE]

BookedRow(row, a) ==
    [row EXCEPT !.status = "CONFIRMED", !.txSignature = a, !.escrowPda = TRUE]

Confirm(a) ==
    LET i == call[a].invoice IN
    /\ pc[a] = "confirm"
    /\ payout' = [payout EXCEPT ![i] = BookedRow(@, a)]
    /\ invoice' = [invoice EXCEPT ![i] = "PAID"]
    /\ pc' = [pc EXCEPT ![a] = "done"]
    /\ UNCHANGED <<chainVars, call, seen, tx, review, historyVars>>

(* The process dies, or the database fails at an await whose error ends the *)
(* call: the reads and the claim, the catch block's update, the booking.    *)
Crash(a) ==
    /\ pc[a] # "done"
    /\ pc' = [pc EXCEPT ![a] = "done"]
    /\ abandoned' = IF pc[a] \in Claimed
                    THEN abandoned \cup {call[a].invoice} ELSE abandoned
    /\ UNCHANGED <<chainVars, dbVars, call, seen, tx, review, raced, failed, overruled>>

-----------------------------------------------------------------------------
(* The cluster.                                                             *)

(* An instruction lands when the program accepts it.                        *)
Land(a) ==
    LET i == call[a].invoice IN
    /\ tx[a].state = "sent"
    /\ \/ tx[a].op = "initialize" /\ Chain!InitializeEscrow(i, Treasury)
       \/ tx[a].op = "deposit" /\ Chain!Deposit(i, Treasury, Amount[i])
       \/ tx[a].op = "release" /\ Chain!Release(i, Treasury, call[a].wallet)
    /\ tx' = [tx EXCEPT ![a].state = "landed"]
    /\ UNCHANGED <<dbVars, call, pc, seen, review, historyVars>>

(* It is refused, or its blockhash expires first.                           *)
Drop(a) ==
    /\ tx[a].state = "sent"
    /\ tx' = [tx EXCEPT ![a].state = "dropped"]
    /\ UNCHANGED <<chainVars, dbVars, call, pc, seen, review, historyVars>>

-----------------------------------------------------------------------------
(* approveInvoice and rejectInvoice: a read that must find PENDING, then an *)
(* update that does not look again.                                         *)
ReadForReview(r, i, decision) ==
    /\ review[r] = Idle
    /\ invoice[i] = "PENDING"
    /\ review' = [review EXCEPT ![r] = [decision |-> decision, invoice |-> i]]
    /\ UNCHANGED <<chainVars, dbVars, call, pc, seen, tx, historyVars>>

WriteReview(r) ==
    LET i == review[r].invoice IN
    /\ review[r] # Idle
    /\ invoice' = [invoice EXCEPT ![i] = review[r].decision]
    /\ overruled' = IF invoice[i] = "PENDING" THEN overruled ELSE overruled \cup {i}
    /\ review' = [review EXCEPT ![r] = Idle]
    /\ UNCHANGED <<chainVars, payout, call, pc, seen, tx, raced, failed, abandoned>>

(* The request dies between the two.                                        *)
DropReview(r) ==
    /\ review[r] # Idle
    /\ review' = [review EXCEPT ![r] = Idle]
    /\ UNCHANGED <<chainVars, dbVars, call, pc, seen, tx, historyVars>>

-----------------------------------------------------------------------------
Step(a) ==
    \/ Lookup(a) \/ Repair(a) \/ ReadInvoice(a) \/ CreateRow(a) \/ ReclaimRow(a)
    \/ InitializeEscrow(a) \/ DepositEscrow(a) \/ ReleaseEscrow(a) \/ SavePda(a)
    \/ Confirmation(a) \/ MarkFailed(a) \/ Confirm(a)

Cluster(a) == Land(a) \/ Drop(a)

Reviewing(r) ==
    \/ \E i \in Invoices, d \in {"APPROVED", "REJECTED"} : ReadForReview(r, i, d)
    \/ WriteReview(r)
    \/ DropReview(r)

Next ==
    \/ \E a \in Attempts : Step(a) \/ Throw(a) \/ Crash(a) \/ Cluster(a)
    \/ \E r \in Reviewers : Reviewing(r)

Spec == Init /\ [][Next]_vars

(* The runtime schedules every continuation, and a transaction lands or its *)
(* blockhash expires.  Errors and crashes are never forced.                 *)
Fairness == \A a \in Attempts : WF_vars(Step(a)) /\ WF_vars(Cluster(a))

FairSpec == Spec /\ Fairness

-----------------------------------------------------------------------------
(* Properties.                                                              *)

(* The books never run ahead of the chain: a CONFIRMED payout and a PAID    *)
(* invoice mean the escrow was released and money left it, whatever         *)
(* attempts, timeouts, crashes and reviews have interleaved.                *)
BooksFollowChain ==
    \A i \in Invoices :
        payout[i].status = "CONFIRMED" \/ invoice[i] = "PAID" =>
            escrow[i].isReleased /\ paid[i] > 0

(* No money leaves the treasury for an invoice that merely says PENDING,    *)
(* APPROVED or REJECTED: an attempt still holds its row, has failed or died *)
(* on it, or a review that had read PENDING wrote over what was paid or     *)
(* decided since.                                                           *)
Accounted(i) ==
    \/ invoice[i] = "PAID" \/ i \in failed \cup abandoned \cup overruled
    \/ \E a \in Attempts : call[a].invoice = i /\ pc[a] \in Claimed

MoneyIsAccountedFor == \A i \in Invoices : deposited[i] > 0 => Accounted(i)

(* The books and the chain agree both ways.                                 *)
BooksMeetChain == BooksFollowChain /\ MoneyIsAccountedFor

(* Every confirmed payout names a signature, and a signature on a row is    *)
(* evidence: a release of that very invoice's escrow, which landed.         *)
SignatureIsEvidence ==
    \A i \in Invoices :
        LET a == payout[i].txSignature IN
        /\ payout[i].status = "CONFIRMED" => a # None
        /\ a # None => /\ a \in Attempts /\ call[a].invoice = i
                       /\ tx[a] = [op |-> "release", state |-> "landed"]

(* Of all the attempts on one invoice, at most one ever releases it.        *)
OneWinner ==
    \A a, b \in Attempts :
        /\ call[a].invoice = call[b].invoice
        /\ tx[a] = [op |-> "release", state |-> "landed"]
        /\ tx[b] = [op |-> "release", state |-> "landed"]
        => a = b

(* The unique index is enough until something fails: as long as no attempt  *)
(* has marked the row FAILED, a single attempt has ever held the invoice.   *)
Holds(a) == pc[a] \in Claimed \/ tx[a].op # "none"

FirstClaimIsExclusive ==
    \A a, b \in Attempts :
        /\ Holds(a) /\ Holds(b)
        /\ call[a].invoice = call[b].invoice
        /\ call[a].invoice \notin failed
        => a = b

(* An escrow is funded with anything but the invoice's amount only after a  *)
(* retry claimed the row by a lost update or over an unresolved             *)
(* transaction: these two races are the only way to pay too much.           *)
ExactUnlessRaced ==
    \A i \in Invoices : deposited[i] \in {0, Amount[i]} \/ i \in raced

(* A confirmed row stays confirmed, its evidence with it, unless a retry    *)
(* raced for it.                                                            *)
ConfirmationKeptUnlessRaced ==
    [][\A i \in Invoices :
          payout[i].status = "CONFIRMED" /\ payout'[i] # payout[i] => i \in raced']_vars

(* A payout row does not stay PENDING unless the attempt that claimed it    *)
(* died or lost its database.                                               *)
PendingIsResolved ==
    \A i \in Invoices :
        payout[i].status = "PENDING" ~> payout[i].status # "PENDING" \/ i \in abandoned

(* The engine keeps the promise of Settlement: one payment, booked after.   *)
Books == INSTANCE Settlement WITH
    payments <- [i \in Invoices |-> IF escrow[i].isReleased THEN 1 ELSE 0],
    booked <- {i \in Invoices : payout[i].status = "CONFIRMED"}

ImplementsSettlement == Books!SettlementSpec

=============================================================================
