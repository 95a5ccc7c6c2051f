---------------------------- MODULE BatchPayout ----------------------------
(***************************************************************************)
(* POST /api/payouts/batch (app/api/payouts/batch/route.ts) beside the     *)
(* payout engine: several invoices paid by one transaction of direct       *)
(* transfers (executeBatchPayout of lib/solana/transfer.ts), which uses    *)
(* the engine's payout rows and not its escrows.                           *)
(***************************************************************************)
EXTENDS PayoutEngine, Functions

CONSTANTS
    Batches,    \* batch requests
    BatchOf,    \* the invoices each one names
    WalletOf    \* the wallet of each invoice's contractor

ASSUME BatchAssumption ==
    /\ BatchOf \in [Batches -> (SUBSET Invoices) \ {{}}]
    /\ WalletOf \in [Invoices -> Payees]
    /\ Batches \subseteq Signatures \ Attempts

VARIABLES
    batch,     \* the await each request is at
    settled,   \* invoices whose payout.create has settled, per request
    rows,      \* invoices whose row the request made and has not marked FAILED
    transfer,  \* state of each request's transaction
    direct     \* history: tokens transferred without escrow, per invoice

batchVars == <<batch, settled, rows, transfer, direct>>
allVars == <<vars, batchVars>>

BatchAwaits == {"readInvoices", "checkPayouts", "create", "send", "await", "book",
                "markFailed", "done"}

BatchTypeOK ==
    /\ TypeOK
    /\ batch \in [Batches -> BatchAwaits]
    /\ settled \in [Batches -> SUBSET Invoices]
    /\ rows \in [Batches -> SUBSET Invoices]
    /\ \A b \in Batches : rows[b] \subseteq settled[b] /\ settled[b] \subseteq BatchOf[b]
    /\ transfer \in [Batches -> {"none", "sent", "landed", "dropped"}]
    /\ direct \in [Invoices -> Nat]

BatchInit ==
    /\ Init
    /\ batch = [b \in Batches |-> "readInvoices"]
    /\ settled = [b \in Batches |-> {}]
    /\ rows = [b \in Batches |-> {}]
    /\ transfer = [b \in Batches |-> "none"]
    /\ direct = [i \in Invoices |-> 0]

Total(b) == SumFunctionOnSet(Amount, BatchOf[b])

-----------------------------------------------------------------------------
(* invoice.findMany: every invoice must be APPROVED.                        *)
ReadInvoices(b) ==
    /\ batch[b] = "readInvoices"
    /\ batch' = [batch EXCEPT ![b] =
                    IF \A i \in BatchOf[b] : invoice[i] = "APPROVED"
                    THEN "checkPayouts" ELSE "done"]
    /\ UNCHANGED <<vars, settled, rows, transfer, direct>>

(* payout.findFirst: no row may be PENDING or CONFIRMED.                    *)
Taken(row) == row.status \in {"PENDING", "CONFIRMED"}

CheckPayouts(b) ==
    /\ batch[b] = "checkPayouts"
    /\ batch' = [batch EXCEPT ![b] =
                    IF \E i \in BatchOf[b] : Taken(payout[i]) THEN "done" ELSE "create"]
    /\ UNCHANGED <<vars, settled, rows, transfer, direct>>

(* Promise.all of payout.create, one by one in any order.  A create fails   *)
(* when the invoice has a row, a FAILED one included, or with the database. *)
Upsert(i) == TRUE  \* mutant: the row another request made is taken over

MayCreate(i) == RowFree(i)

BatchRow(i) == [NoRow EXCEPT !.status = "PENDING", !.wallet = WalletOf[i]]

CreateBatchRow(b, i) ==
    /\ batch[b] = "create"
    /\ i \in BatchOf[b] \ settled[b]
    /\ settled' = [settled EXCEPT ![b] = @ \cup {i}]
    /\ \/ /\ MayCreate(i)
          /\ payout' = [payout EXCEPT ![i] = BatchRow(i)]
          /\ rows' = [rows EXCEPT ![b] = @ \cup {i}]
       \/ UNCHANGED <<payout, rows>>
    /\ UNCHANGED <<chainVars, invoice, call, pc, seen, tx, review, historyVars,
                   batch, transfer, direct>>

(* When one create failed the request is answered with an error, and the    *)
(* rows of its siblings stay as they are.                                   *)
AfterCreates(b) ==
    /\ batch[b] = "create"
    /\ settled[b] = BatchOf[b]
    /\ batch' = [batch EXCEPT ![b] = IF rows[b] = BatchOf[b] THEN "send" ELSE "done"]
    /\ UNCHANGED <<vars, settled, rows, transfer, direct>>

-----------------------------------------------------------------------------
(* executeBatchPayout: the balance must cover the total, then one           *)
(* transaction with a transfer per invoice is sent.                         *)
SendBatch(b) ==
    /\ batch[b] = "send"
    /\ IF balance[Treasury] >= Total(b)
       THEN /\ transfer' = [transfer EXCEPT ![b] = "sent"]
            /\ batch' = [batch EXCEPT ![b] = "await"]
       ELSE /\ batch' = [batch EXCEPT ![b] = "markFailed"]
            /\ UNCHANGED transfer
    /\ UNCHANGED <<vars, settled, rows, direct>>

Received(b, w) == SumFunctionOnSet(Amount, {i \in BatchOf[b] : WalletOf[i] = w})

(* The transaction moves every amount or none.                              *)
LandBatch(b) ==
    /\ transfer[b] = "sent"
    /\ balance[Treasury] >= Total(b)
    /\ balance' = [w \in DOMAIN balance |->
                      IF w = Treasury THEN balance[w] - Total(b)
                                      ELSE balance[w] + Received(b, w)]
    /\ direct' = [i \in Invoices |->
                     IF i \in BatchOf[b] THEN direct[i] + Amount[i] ELSE direct[i]]
    /\ transfer' = [transfer EXCEPT ![b] = "landed"]
    /\ UNCHANGED <<escrow, vault, deposited, paid, dbVars, call, pc, seen, tx, review,
                   historyVars, batch, settled, rows>>

DropBatch(b) ==
    /\ transfer[b] = "sent"
    /\ transfer' = [transfer EXCEPT ![b] = "dropped"]
    /\ UNCHANGED <<vars, batch, settled, rows, direct>>

(* confirmTransaction returns.                                              *)
BookedUnseen(b) == transfer[b] # "none"  \* mutant: sent is taken for finalized

BatchFinalized(b) == transfer[b] = "landed"

BatchWaits(b) == FALSE  \* mutant: an expired transaction is never reported

BatchRefused(b) == transfer[b] = "dropped"

ConfirmBatch(b) ==
    /\ batch[b] = "await"
    /\ \/ BatchFinalized(b) /\ batch' = [batch EXCEPT ![b] = "book"]
       \/ BatchRefused(b) /\ batch' = [batch EXCEPT ![b] = "markFailed"]
    /\ UNCHANGED <<vars, settled, rows, transfer, direct>>

(* Any error of the transfer, a confirmation timeout or a failure of the    *)
(* booking that follows it, ends in the same catch block.                   *)
ThrowBatch(b) ==
    /\ batch[b] \in {"send", "await", "book"}
    /\ batch' = [batch EXCEPT ![b] = "markFailed"]
    /\ UNCHANGED <<vars, settled, rows, transfer, direct>>

(* One $transaction books every payout and every invoice of the batch.      *)
BatchSignature(b) == b

BookBatch(b) ==
    /\ batch[b] = "book"
    /\ payout' = [i \in Invoices |->
                     IF i \in BatchOf[b]
                     THEN [payout[i] EXCEPT !.status = "CONFIRMED",
                                            !.txSignature = BatchSignature(b)]
                     ELSE payout[i]]
    /\ invoice' = [i \in Invoices |-> IF i \in BatchOf[b] THEN "PAID" ELSE invoice[i]]
    /\ batch' = [batch EXCEPT ![b] = "done"]
    /\ UNCHANGED <<chainVars, call, pc, seen, tx, review, historyVars,
                   settled, rows, transfer, direct>>

(* Promise.all of the updates to FAILED: each may fail alone, and its error *)
(* is swallowed.                                                            *)
MarkRowFailed(b, i) ==
    /\ batch[b] = "markFailed"
    /\ i \in rows[b]
    /\ rows' = [rows EXCEPT ![b] = @ \ {i}]
    /\ \/ /\ payout' = [payout EXCEPT ![i].status = "FAILED"]
          /\ failed' = failed \cup {i}
          /\ UNCHANGED abandoned
       \/ /\ abandoned' = abandoned \cup {i}
          /\ UNCHANGED <<payout, failed>>
    /\ UNCHANGED <<chainVars, invoice, call, pc, seen, tx, review, raced, overruled,
                   batch, settled, transfer, direct>>

AfterMarks(b) ==
    /\ batch[b] = "markFailed"
    /\ rows[b] = {}
    /\ batch' = [batch EXCEPT ![b] = "done"]
    /\ UNCHANGED <<vars, settled, rows, transfer, direct>>

(* The process dies, and the rows it held stay as they are.                 *)
CrashBatch(b) ==
    /\ batch[b] # "done"
    /\ batch' = [batch EXCEPT ![b] = "done"]
    /\ abandoned' = abandoned \cup rows[b]
    /\ UNCHANGED <<chainVars, dbVars, call, pc, seen, tx, review, raced, failed, overruled,
                   settled, rows, transfer, direct>>

-----------------------------------------------------------------------------
BatchStep(b) ==
    \/ ReadInvoices(b) \/ CheckPayouts(b) \/ AfterCreates(b) \/ SendBatch(b)
    \/ ConfirmBatch(b) \/ BookBatch(b) \/ AfterMarks(b)
    \/ \E i \in Invoices : CreateBatchRow(b, i) \/ MarkRowFailed(b, i)

BatchNext ==
    \/ Next /\ UNCHANGED batchVars
    \/ \E b \in Batches :
          BatchStep(b) \/ ThrowBatch(b) \/ CrashBatch(b) \/ LandBatch(b) \/ DropBatch(b)

BatchSpec == BatchInit /\ [][BatchNext]_allVars

(* As for the engine: continuations run, transactions land or expire.       *)
FairBatchSpec ==
    /\ BatchSpec
    /\ \A a \in Attempts : WF_allVars(Step(a) /\ UNCHANGED batchVars)
                         /\ WF_allVars(Cluster(a) /\ UNCHANGED batchVars)
    /\ \A b \in Batches : WF_allVars(BatchStep(b)) /\ WF_allVars(LandBatch(b) \/ DropBatch(b))

-----------------------------------------------------------------------------
(* The books follow the chain on both channels.                             *)
BothBooksFollowChain ==
    \A i \in Invoices :
        payout[i].status = "CONFIRMED" \/ invoice[i] = "PAID" =>
            direct[i] > 0 \/ (escrow[i].isReleased /\ paid[i] > 0)

(* A batch and an escrow, or two batches, never both pay an invoice until a *)
(* payout of it was marked FAILED: the one row per invoice arbitrates       *)
(* between the two routes although neither knows of the other.              *)
OneChannelUntilFailure ==
    \A i \in Invoices : direct[i] + deposited[i] > Amount[i] => i \in failed

(* An invoice is in one batch that pays, whatever fails: a batch never      *)
(* takes over a row, not even a FAILED one.                                 *)
OneBatchPays == \A i \in Invoices : direct[i] <= Amount[i]

(* The signature of a confirmed row names the transaction that paid it: the *)
(* landed transfer of a batch the invoice is in, or its landed release.     *)
SignatureNamesPayment ==
    \A i \in Invoices :
        LET s == payout[i].txSignature IN
        payout[i].status = "CONFIRMED" =>
            \/ s \in Batches /\ transfer[s] = "landed" /\ i \in BatchOf[s]
            \/ /\ s \in Attempts /\ call[s].invoice = i
               /\ tx[s] = [op |-> "release", state |-> "landed"]

(* A row a batch made does not stay PENDING unless the batch died, an       *)
(* update of it failed, or a sibling's create failed and orphaned it.       *)
Orphaned(i) ==
    \E b \in Batches : i \in rows[b] /\ settled[b] = BatchOf[b] /\ rows[b] # settled[b]

BatchRowIsResolved ==
    \A i \in Invoices :
        payout[i].status = "PENDING" ~>
            payout[i].status # "PENDING" \/ i \in abandoned \/ Orphaned(i)

(* Money leaves over neither channel for an invoice nobody answers for: it  *)
(* is PAID, an attempt or a batch holds its row, one of them failed or died *)
(* on it, or a review wrote over what was paid or decided since.            *)
HoldsRow(b, i) == i \in rows[b] /\ batch[b] \in {"send", "await", "book", "markFailed"}

AccountedOnEither(i) == Accounted(i) \/ \E b \in Batches : HoldsRow(b, i)

EitherIsAccountedFor ==
    \A i \in Invoices : direct[i] + deposited[i] > 0 => AccountedOnEither(i)

(* What the rows say happened on the chain, by the transaction they name,   *)
(* and what happened on the chain is in the rows.                           *)
BatchBooks ==
    BatchTypeOK /\ BothBooksFollowChain /\ SignatureNamesPayment /\ EitherIsAccountedFor

(* An invoice is paid over one channel, and once, until a payout fails.     *)
ChannelsExclude == OneChannelUntilFailure /\ OneBatchPays

=============================================================================
