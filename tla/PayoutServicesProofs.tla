------------------------ MODULE PayoutServicesProofs ------------------------
(***************************************************************************)
(* Theorems about what runs beside the payout engine: batch payouts, the   *)
(* recovery services, and the compliance monitor that every payout passes. *)
(***************************************************************************)
EXTENDS BatchPayout, PayoutRecovery, Compliance, PayoutEngineProofs, SumTheorems,
        FiniteSetTheorems, SequenceTheorems

(***************************************************************************)
(* Batch payouts, for any finite sets of invoices and wallets, any         *)
(* amounts, any numbers of attempts and reviewers, and any batches,        *)
(* overlapping ones included.                                              *)
(***************************************************************************)
USE EngineAssumption, BatchAssumption

BatchMove(b) ==
    BatchStep(b) \/ ThrowBatch(b) \/ CrashBatch(b) \/ LandBatch(b) \/ DropBatch(b)

-----------------------------------------------------------------------------
(* The invariant.                                                           *)

Paid(i) == direct[i] > 0 \/ escrow[i].isReleased

(* Booked on either channel only what was paid.                             *)
PaidBooks ==
    /\ \A a \in Attempts : tx[a] = Released => escrow[call[a].invoice].isReleased
    /\ \A a \in Attempts : pc[a] = "repair" => Paid(call[a].invoice)
    /\ \A i \in Invoices :
          payout[i].status = "CONFIRMED" \/ invoice[i] = "PAID" => Paid(i)

(* Where a request is tells what became of its transaction and of its rows. *)
BatchPositions ==
    \A b \in Batches :
        /\ batch[b] \in {"readInvoices", "checkPayouts", "create", "send"} =>
               transfer[b] = "none"
        /\ batch[b] \in {"send", "await", "book"} => rows[b] = BatchOf[b]
        /\ batch[b] = "book" => transfer[b] = "landed"

(* A request owns the rows it made, and all of its invoices for good once   *)
(* it has sent its transaction or is about to: no two requests own the same *)
(* invoice, and no attempt holds one that a request owns before a payout of *)
(* it was marked FAILED.                                                    *)
Committed(b) == transfer[b] # "none" \/ batch[b] \in {"send", "await", "book"}

Owned(b) == IF Committed(b) THEN BatchOf[b] ELSE rows[b]

OwnersExclude ==
    /\ \A b, c \in Batches : \A i \in Invoices : i \in Owned(b) /\ i \in Owned(c) => b = c
    /\ \A b \in Batches : \A i \in Owned(b) : payout[i].status # "NONE"
    /\ \A b \in Batches : \A i \in rows[b] : i \notin failed
    /\ \A b \in Batches, a \in Attempts :
          call[a].invoice \in Owned(b) /\ Holds(a) => call[a].invoice \in failed
    /\ \A i \in failed : payout[i].status # "NONE"
    /\ raced \subseteq failed

(* What a batch has transferred: each invoice of it once, and whole.        *)
Transferred ==
    /\ \A i \in Invoices : direct[i] \in {0, Amount[i]}
    /\ \A i \in Invoices : direct[i] # 0 =>
          \E b \in Batches : transfer[b] = "landed" /\ i \in BatchOf[b]
    /\ \A b \in Batches : transfer[b] = "landed" => \A i \in BatchOf[b] : direct[i] # 0

(* A deposit was made by an attempt, which holds the invoice since then.    *)
DepositsAreHeld ==
    \A i \in Invoices : deposited[i] # 0 =>
        \E a \in Attempts : call[a].invoice = i /\ tx[a].op # "none"

(* A request that has sent its transaction answers for every invoice of it. *)
TransfersAreAccounted ==
    \A b \in Batches : transfer[b] # "none" => \A i \in BatchOf[b] : AccountedOnEither(i)

BatchInv ==
    /\ BatchTypeOK /\ Program!EscrowInv
    /\ Positions /\ Claims /\ Races
    /\ BatchPositions /\ OwnersExclude /\ Transferred /\ DepositsAreHeld
    /\ PaidBooks /\ SignatureNamesPayment
    /\ Money /\ TransfersAreAccounted

-----------------------------------------------------------------------------
(* What a batch leaves alone, and the totals it transfers.                  *)

LEMMA BatchSpares ==
    ASSUME NEW b \in Batches, BatchMove(b)
    PROVE  /\ UNCHANGED <<escrow, vault, deposited, paid, call, pc, seen, tx, review, raced,
                       overruled>>
           /\ LandBatch(b) \/ UNCHANGED <<balance, direct>>
           /\ failed \subseteq failed'
BY DEF BatchMove, BatchStep, ReadInvoices, CheckPayouts, CreateBatchRow, AfterCreates,
       SendBatch, LandBatch, DropBatch, ConfirmBatch, ThrowBatch, BookBatch, MarkRowFailed,
       AfterMarks, CrashBatch, vars, chainVars, historyVars

LEMMA BatchMoves ==
    ASSUME [BatchNext]_allVars
    PROVE  \/ [Next]_vars /\ UNCHANGED batchVars
           \/ \E b \in Batches : BatchMove(b)
BY DEF BatchNext, BatchMove, allVars

LEMMA BatchSums ==
    ASSUME NEW b \in Batches
    PROVE  Total(b) \in Nat /\ \A w : Received(b, w) \in Nat
<1>1. ASSUME NEW S \in SUBSET Invoices PROVE SumFunctionOnSet(Amount, S) \in Nat
  <2>1. IsFiniteSet(S) BY FS_Subset
  <2>2. \A x \in S : Amount[x] \in Nat OBVIOUS
  <2>3. QED BY <2>1, <2>2, SumOfNats
<1>2. BatchOf[b] \in SUBSET Invoices OBVIOUS
<1>3. \A w : {i \in BatchOf[b] : WalletOf[i] = w} \in SUBSET Invoices
    BY <1>2
<1>4. QED BY <1>1, <1>2, <1>3 DEF Total, Received

LEMMA BatchChain ==
    ASSUME BatchTypeOK, Program!EscrowInv, [BatchNext]_allVars
    PROVE  /\ Program!EscrowInv'
           /\ \A i \in Invoices : escrow[i].isReleased => escrow'[i].isReleased
<1>1. CASE Next
    BY <1>1, ChainStep, ProgramStep DEF BatchTypeOK
<1>2. CASE UNCHANGED chainVars
    BY <1>2, ProgramStep
<1>3. ASSUME NEW b \in Batches, LandBatch(b)
      PROVE  /\ Program!EscrowInv'
             /\ \A i \in Invoices : escrow[i].isReleased => escrow'[i].isReleased
  <2>1. balance \in [Payees \cup {Treasury} -> Nat]
      BY DEF BatchTypeOK, TypeOK, Chain!EscrowTypeOK
  <2>2. balance[Treasury] >= Total(b) BY <1>3 DEF LandBatch
  <2>3. balance' = [w \in Payees \cup {Treasury} |->
                       IF w = Treasury THEN balance[w] - Total(b)
                                       ELSE balance[w] + Received(b, w)]
      BY <1>3, <2>1 DEF LandBatch
  <2>4. balance' \in [Payees \cup {Treasury} -> Nat]
      BY <2>1, <2>2, <2>3, BatchSums
  <2>5. UNCHANGED <<escrow, vault, deposited, paid>>
      BY <1>3 DEF LandBatch
  <2>6. QED
      BY <2>4, <2>5 DEF Program!EscrowInv, Program!EscrowTypeOK, Program!EscrowAccount,
                        Program!BlankUntilInitialized, Program!VaultBacked, Program!EscrowLedger
<1>4. ASSUME NEW b \in Batches, BatchMove(b), ~LandBatch(b) PROVE UNCHANGED chainVars
    BY <1>4, BatchSpares DEF chainVars
<1>5. QED BY <1>1, <1>2, <1>3, <1>4 DEF BatchNext, BatchMove, allVars, vars

-----------------------------------------------------------------------------
(* Types.                                                                   *)

LEMMA BatchBooksTypes ==
    ASSUME BatchTypeOK, NEW b \in Batches, BatchMove(b)
    PROVE  /\ payout' \in [Invoices -> PayoutRow]
           /\ invoice' \in [Invoices -> InvoiceStatus]
           /\ failed' \subseteq Invoices /\ abandoned' \subseteq Invoices
<1>1. /\ payout \in [Invoices -> PayoutRow] /\ invoice \in [Invoices -> InvoiceStatus]
      /\ failed \subseteq Invoices /\ abandoned \subseteq Invoices
      /\ rows[b] \subseteq Invoices
    BY DEF BatchTypeOK, TypeOK
<1>2. CASE UNCHANGED <<dbVars, failed, abandoned>>
    BY <1>1, <1>2 DEF dbVars
<1>3. ASSUME NEW i \in Invoices, CreateBatchRow(b, i)
      PROVE  payout' \in [Invoices -> PayoutRow]
  <2>1. BatchRow(i) \in PayoutRow
      BY DEF BatchRow, NoRow, PayoutRow, PayoutStatus
  <2>2. payout' = payout \/ payout' = [payout EXCEPT ![i] = BatchRow(i)]
      BY <1>3 DEF CreateBatchRow
  <2>3. QED BY <1>1, <2>1, <2>2
<1>4. ASSUME NEW i \in Invoices, MarkRowFailed(b, i)
      PROVE  payout' \in [Invoices -> PayoutRow]
  <2>1. [payout[i] EXCEPT !.status = "FAILED"] \in PayoutRow
      BY <1>1 DEF PayoutRow, PayoutStatus
  <2>2. payout' = payout \/ payout' = [payout EXCEPT ![i] = [@ EXCEPT !.status = "FAILED"]]
      BY <1>4 DEF MarkRowFailed
  <2>3. QED BY <1>1, <2>1, <2>2
<1>5. CASE BookBatch(b)
  <2>1. ASSUME NEW i \in Invoices
        PROVE  [payout[i] EXCEPT !.status = "CONFIRMED", !.txSignature = b] \in PayoutRow
    <3>1. payout[i] \in PayoutRow /\ b \in Signatures BY <1>1
    <3>2. QED BY <3>1 DEF PayoutRow, PayoutStatus
  <2>2. payout' \in [Invoices -> PayoutRow]
    <3>1. payout' = [i \in Invoices |->
                        IF i \in BatchOf[b]
                        THEN [payout[i] EXCEPT !.status = "CONFIRMED", !.txSignature = b]
                        ELSE payout[i]]
        BY <1>5 DEF BookBatch, BatchSignature
    <3>2. QED BY <1>1, <2>1, <3>1
  <2>3. invoice' \in [Invoices -> InvoiceStatus]
      BY <1>1, <1>5 DEF BookBatch, InvoiceStatus
  <2>4. QED BY <1>1, <1>5, <2>2, <2>3 DEF BookBatch, historyVars
<1>6. CASE CrashBatch(b)
    BY <1>1, <1>6 DEF CrashBatch, dbVars
<1>7. ASSUME NEW i \in Invoices, CreateBatchRow(b, i) \/ MarkRowFailed(b, i)
      PROVE  invoice' = invoice /\ failed' \subseteq Invoices /\ abandoned' \subseteq Invoices
    BY <1>1, <1>7 DEF CreateBatchRow, MarkRowFailed, historyVars
<1>8. CASE ~(CrashBatch(b) \/ BookBatch(b)
             \/ \E i \in Invoices : CreateBatchRow(b, i) \/ MarkRowFailed(b, i))
    BY <1>2, <1>8 DEF BatchMove, BatchStep, ReadInvoices, CheckPayouts, AfterCreates,
                      SendBatch, LandBatch, DropBatch, ConfirmBatch, ThrowBatch,
                      AfterMarks, vars, dbVars, historyVars
<1>9. QED BY <1>1, <1>3, <1>4, <1>5, <1>6, <1>7, <1>8

LEMMA BatchVarTypes ==
    ASSUME BatchTypeOK, NEW b \in Batches, BatchMove(b)
    PROVE  /\ batch' \in [Batches -> BatchAwaits]
           /\ transfer' \in [Batches -> {"none", "sent", "landed", "dropped"}]
           /\ settled' \in [Batches -> SUBSET Invoices]
           /\ rows' \in [Batches -> SUBSET Invoices]
           /\ \A c \in Batches : rows'[c] \subseteq settled'[c] /\ settled'[c] \subseteq BatchOf[c]
           /\ direct' \in [Invoices -> Nat]
<1> USE DEF BatchTypeOK, BatchAwaits
<1>1. CASE ReadInvoices(b) \/ CheckPayouts(b) \/ AfterCreates(b) \/ AfterMarks(b)
           \/ ThrowBatch(b) \/ CrashBatch(b) \/ BookBatch(b) \/ ConfirmBatch(b)
  <2>1. UNCHANGED <<settled, rows, transfer, direct>>
      BY <1>1 DEF ReadInvoices, CheckPayouts, AfterCreates, AfterMarks, ThrowBatch, CrashBatch,
                  BookBatch, ConfirmBatch
  <2>2. \E at \in BatchAwaits : batch' = [batch EXCEPT ![b] = at]
      BY <1>1 DEF ReadInvoices, CheckPayouts, AfterCreates, AfterMarks, ThrowBatch, CrashBatch,
                  BookBatch, ConfirmBatch
  <2>3. QED BY <2>1, <2>2
<1>2. CASE SendBatch(b) \/ DropBatch(b)
  <2>1. UNCHANGED <<settled, rows, direct>>
      BY <1>2 DEF SendBatch, DropBatch
  <2>2. batch' = batch \/ \E at \in BatchAwaits : batch' = [batch EXCEPT ![b] = at]
      BY <1>2 DEF SendBatch, DropBatch
  <2>3. \/ transfer' = transfer
        \/ \E state \in {"sent", "dropped"} : transfer' = [transfer EXCEPT ![b] = state]
      BY <1>2 DEF SendBatch, DropBatch
  <2>4. QED BY <2>1, <2>2, <2>3
<1>3. CASE LandBatch(b)
  <2>1. UNCHANGED <<batch, settled, rows>> /\ transfer' = [transfer EXCEPT ![b] = "landed"]
      BY <1>3 DEF LandBatch
  <2>2. direct' \in [Invoices -> Nat]
      BY <1>3 DEF LandBatch
  <2>3. QED BY <2>1, <2>2
<1>4. ASSUME NEW i \in Invoices, CreateBatchRow(b, i)
      PROVE  /\ UNCHANGED <<batch, transfer, direct>>
             /\ settled' \in [Batches -> SUBSET Invoices]
             /\ rows' \in [Batches -> SUBSET Invoices]
             /\ \A c \in Batches : rows'[c] \subseteq settled'[c] /\ settled'[c] \subseteq BatchOf[c]
  <2>1. /\ UNCHANGED <<batch, transfer, direct>>
        /\ i \in BatchOf[b]
        /\ settled' = [settled EXCEPT ![b] = @ \cup {i}]
        /\ rows' = rows \/ rows' = [rows EXCEPT ![b] = @ \cup {i}]
      BY <1>4 DEF CreateBatchRow
  <2>2. settled' \in [Batches -> SUBSET Invoices] /\ rows' \in [Batches -> SUBSET Invoices]
      BY <2>1
  <2>3. ASSUME NEW c \in Batches
        PROVE  rows'[c] \subseteq settled'[c] /\ settled'[c] \subseteq BatchOf[c]
    <3>1. CASE c = b BY <2>1, <3>1
    <3>2. CASE c # b BY <2>1, <3>2
    <3>3. QED BY <3>1, <3>2
  <2>4. QED BY <2>1, <2>2, <2>3
<1>5. ASSUME NEW i \in Invoices, MarkRowFailed(b, i)
      PROVE  /\ UNCHANGED <<batch, transfer, direct, settled>>
             /\ rows' \in [Batches -> SUBSET Invoices]
             /\ \A c \in Batches : rows'[c] \subseteq settled'[c] /\ settled'[c] \subseteq BatchOf[c]
  <2>1. UNCHANGED <<batch, transfer, direct, settled>> /\ rows' = [rows EXCEPT ![b] = @ \ {i}]
      BY <1>5 DEF MarkRowFailed
  <2>2. \A c \in Batches : rows'[c] \subseteq rows[c]
      BY <2>1
  <2>3. QED BY <2>1, <2>2
<1>6. QED BY <1>1, <1>2, <1>3, <1>4, <1>5 DEF BatchMove, BatchStep

LEMMA BatchTypeStep ==
    BatchTypeOK /\ Program!EscrowInv /\ [BatchNext]_allVars => BatchTypeOK'
<1> SUFFICES ASSUME BatchTypeOK, Program!EscrowInv, [BatchNext]_allVars PROVE BatchTypeOK'
    OBVIOUS
<1>1. Chain!EscrowTypeOK'
    BY BatchChain, SameInvariant DEF ChainInvariants
<1>2. CASE UNCHANGED allVars
  <2>1. TypeOK'
      BY <1>1, <1>2 DEF allVars, vars, dbVars, historyVars, BatchTypeOK, TypeOK
  <2>2. QED BY <1>2, <2>1 DEF allVars, batchVars, BatchTypeOK
<1>3. CASE Next /\ UNCHANGED batchVars
  <2>1. TypeOK' BY <1>3, TypeStep DEF BatchTypeOK
  <2>2. QED BY <1>3, <2>1 DEF batchVars, BatchTypeOK
<1>4. ASSUME NEW b \in Batches, BatchMove(b) PROVE BatchTypeOK'
  <2>1. UNCHANGED <<call, pc, seen, tx, review, raced, overruled>>
      BY <1>4, BatchSpares
  <2>2. TypeOK'
      BY <1>1, <1>4, <2>1, BatchBooksTypes DEF BatchTypeOK, TypeOK
  <2>3. QED BY <1>4, <2>2, BatchVarTypes DEF BatchTypeOK
<1>5. QED BY <1>2, <1>3, <1>4 DEF BatchNext, BatchMove

-----------------------------------------------------------------------------
(* The positions of a request, and what it may change.                      *)

LEMMA BatchPositionStep ==
    BatchTypeOK /\ BatchPositions /\ [BatchNext]_allVars => BatchPositions'
<1> SUFFICES ASSUME BatchTypeOK, BatchPositions, [BatchNext]_allVars, NEW c \in Batches
             PROVE  /\ batch'[c] \in {"readInvoices", "checkPayouts", "create", "send"} =>
                           transfer'[c] = "none"
                    /\ batch'[c] \in {"send", "await", "book"} => rows'[c] = BatchOf[c]
                    /\ batch'[c] = "book" => transfer'[c] = "landed"
    BY DEF BatchPositions
<1>1. CASE UNCHANGED batchVars
    BY <1>1 DEF batchVars, BatchPositions
<1>2. ASSUME NEW b \in Batches, BatchMove(b), b # c
      PROVE  batch'[c] = batch[c] /\ transfer'[c] = transfer[c] /\ rows'[c] = rows[c]
    BY <1>2 DEF BatchTypeOK, BatchMove, BatchStep, ReadInvoices, CheckPayouts, CreateBatchRow,
                AfterCreates, SendBatch, LandBatch, DropBatch, ConfirmBatch, ThrowBatch,
                BookBatch, MarkRowFailed, AfterMarks, CrashBatch
<1>3. CASE BatchMove(c)
  <2> USE DEF BatchTypeOK, BatchPositions
  <2>1. CASE ReadInvoices(c) \/ CheckPayouts(c) \/ AfterCreates(c)
      BY <2>1 DEF ReadInvoices, CheckPayouts, AfterCreates
  <2>2. CASE SendBatch(c) \/ LandBatch(c) \/ DropBatch(c)
      BY <2>2 DEF SendBatch, LandBatch, DropBatch
  <2>3. CASE ConfirmBatch(c) \/ ThrowBatch(c) \/ BookBatch(c)
      BY <2>3 DEF ConfirmBatch, BatchFinalized, BatchRefused, ThrowBatch, BookBatch
  <2>4. CASE AfterMarks(c) \/ CrashBatch(c)
      BY <2>4 DEF AfterMarks, CrashBatch
  <2>5. ASSUME NEW i \in Invoices, CreateBatchRow(c, i) \/ MarkRowFailed(c, i)
        PROVE  UNCHANGED <<batch, transfer>> /\ batch[c] \in {"create", "markFailed"}
      BY <2>5 DEF CreateBatchRow, MarkRowFailed
  <2>6. QED BY <1>3, <2>1, <2>2, <2>3, <2>4, <2>5 DEF BatchMove, BatchStep
<1>4. QED BY <1>1, <1>2, <1>3, BatchMoves DEF BatchPositions

(* What a batch may do to one row, and which rows it makes and gives up.    *)
LEMMA BatchRowChanges ==
    ASSUME BatchTypeOK, BatchPositions, NEW b \in Batches, BatchMove(b),
           NEW i \in Invoices, payout'[i] # payout[i]
    PROVE  \/ /\ payout[i].status = "NONE" /\ CreateBatchRow(b, i)
              /\ payout'[i].status = "PENDING"
           \/ i \in rows[b] /\ payout'[i].status = "FAILED" /\ i \in failed'
           \/ /\ i \in rows[b] /\ i \in BatchOf[b] /\ transfer[b] = "landed"
              /\ transfer'[b] = "landed"
              /\ payout'[i].status = "CONFIRMED" /\ payout'[i].txSignature = b
<1>1. payout[i] \in PayoutRow BY DEF BatchTypeOK, TypeOK
<1>2. ASSUME NEW j \in Invoices, CreateBatchRow(b, j)
      PROVE  /\ payout[i].status = "NONE" /\ CreateBatchRow(b, i)
             /\ payout'[i].status = "PENDING"
  <2>1. payout' = [payout EXCEPT ![j] = BatchRow(j)] /\ RowFree(j)
      BY <1>2 DEF CreateBatchRow, MayCreate
  <2>2. i = j /\ payout'[i] = BatchRow(i)
      BY <2>1 DEF BatchTypeOK, TypeOK
  <2>3. QED BY <1>2, <2>1, <2>2 DEF RowFree, BatchRow, NoRow
<1>3. ASSUME NEW j \in Invoices, MarkRowFailed(b, j)
      PROVE  i \in rows[b] /\ payout'[i].status = "FAILED" /\ i \in failed'
  <2>1. /\ payout' = [payout EXCEPT ![j] = [@ EXCEPT !.status = "FAILED"]]
        /\ failed' = failed \cup {j} /\ j \in rows[b]
      BY <1>3 DEF MarkRowFailed
  <2>2. i = j /\ payout'[i] = [payout[i] EXCEPT !.status = "FAILED"]
      BY <2>1 DEF BatchTypeOK, TypeOK
  <2>3. payout'[i].status = "FAILED" BY <1>1, <2>2 DEF PayoutRow
  <2>4. QED BY <2>1, <2>2, <2>3
<1>4. CASE BookBatch(b)
  <2>1. payout'[i] = IF i \in BatchOf[b]
                     THEN [payout[i] EXCEPT !.status = "CONFIRMED", !.txSignature = b]
                     ELSE payout[i]
      BY <1>4 DEF BookBatch, BatchSignature
  <2>2. i \in BatchOf[b] BY <2>1
  <2>3. payout'[i].status = "CONFIRMED" /\ payout'[i].txSignature = b
      BY <1>1, <2>1, <2>2 DEF PayoutRow
  <2>4. batch[b] = "book" /\ transfer' = transfer BY <1>4 DEF BookBatch
  <2>5. QED BY <2>2, <2>3, <2>4 DEF BatchPositions
<1>5. ASSUME ~BookBatch(b), \A j \in Invoices : ~CreateBatchRow(b, j) /\ ~MarkRowFailed(b, j)
      PROVE  FALSE
    BY <1>5 DEF BatchMove, BatchStep, ReadInvoices, CheckPayouts, AfterCreates, SendBatch,
                LandBatch, DropBatch, ConfirmBatch, ThrowBatch, AfterMarks, CrashBatch,
                vars, dbVars
<1>6. QED BY <1>2, <1>3, <1>4, <1>5

LEMMA BatchFailedChanges ==
    ASSUME BatchTypeOK, NEW b \in Batches, BatchMove(b), NEW i \in failed', i \notin failed
    PROVE  i \in rows[b] /\ rows' = [rows EXCEPT ![b] = @ \ {i}]
<1>1. ASSUME NEW j \in Invoices, MarkRowFailed(b, j)
      PROVE  i \in rows[b] /\ rows' = [rows EXCEPT ![b] = @ \ {i}]
    BY <1>1 DEF MarkRowFailed
<1>2. ASSUME \A j \in Invoices : ~MarkRowFailed(b, j) PROVE failed' = failed
    BY <1>2 DEF BatchMove, BatchStep, ReadInvoices, CheckPayouts, CreateBatchRow, AfterCreates,
                SendBatch, LandBatch, DropBatch, ConfirmBatch, ThrowBatch, BookBatch,
                AfterMarks, CrashBatch, vars, historyVars
<1>3. QED BY <1>1, <1>2

(* A row a batch changes is one no attempt holds.                           *)
LEMMA BatchRowsAreUnheld ==
    ASSUME BatchTypeOK, BatchPositions, OwnersExclude, Claims, NEW b \in Batches, BatchMove(b),
           NEW a \in Attempts, Holds(a)
    PROVE  payout'[call[a].invoice] = payout[call[a].invoice]
<1> DEFINE i == call[a].invoice
<1>1. i \in Invoices BY DEF BatchTypeOK, TypeOK, Call
<1>2. payout[i].status # "NONE" BY DEF Claims
<1>3. i \notin rows[b]
  <2>1. rows[b] \subseteq Owned(b)
      BY DEF BatchTypeOK, Owned
  <2>2. QED BY <2>1 DEF OwnersExclude
<1>4. QED BY <1>1, <1>2, <1>3, BatchRowChanges

-----------------------------------------------------------------------------
(* The engine's invariants beside the batches.                              *)

LEMMA BatchEnginePositionStep ==
    BatchTypeOK /\ Positions /\ [BatchNext]_allVars => Positions'
<1> SUFFICES ASSUME BatchTypeOK, Positions, [BatchNext]_allVars PROVE Positions'
    OBVIOUS
<1>1. CASE [Next]_vars
    BY <1>1, PositionStep DEF BatchTypeOK
<1>2. CASE UNCHANGED <<pc, tx>>
    BY <1>2 DEF Positions
<1>3. QED BY <1>1, <1>2, BatchMoves, BatchSpares

LEMMA BatchClaimsStep ==
    ASSUME BatchTypeOK, BatchPositions, OwnersExclude, Claims, [BatchNext]_allVars
    PROVE  Claims'
<1>1. CASE [Next]_vars
    BY <1>1, ClaimsStep DEF BatchTypeOK
<1>2. ASSUME NEW b \in Batches, BatchMove(b) PROVE Claims'
  <2>1. UNCHANGED <<call, pc, seen, tx>> /\ failed \subseteq failed'
      BY <1>2, BatchSpares
  <2>2. ASSUME NEW a \in Attempts, Holds(a)
        PROVE  payout'[call[a].invoice].status # "NONE"
      BY <1>2, <2>2, BatchRowsAreUnheld DEF Claims
  <2>3. ASSUME NEW i \in Invoices, payout'[i].status = "FAILED" PROVE i \in failed'
      BY <1>2, <2>1, <2>3, BatchRowChanges DEF Claims
  <2>4. QED BY <2>1, <2>2, <2>3 DEF Claims, Holds
<1>3. QED BY <1>1, <1>2, BatchMoves

LEMMA BatchRacesStep ==
    ASSUME BatchTypeOK, Program!EscrowInv, Positions, BatchPositions, OwnersExclude, Claims,
           Races, [BatchNext]_allVars
    PROVE  Races'
<1>1. CASE [Next]_vars
    BY <1>1, RacesStep DEF BatchTypeOK
<1>2. ASSUME NEW b \in Batches, BatchMove(b) PROVE Races'
  <2>1. UNCHANGED <<call, pc, tx, raced, deposited>>
      BY <1>2, BatchSpares
  <2>2. LiveIsAlone'
    <3>1. \A a \in Attempts : Live(a) => payout'[call[a].invoice] = payout[call[a].invoice]
        BY <1>2, BatchRowsAreUnheld DEF Holds, Live
    <3>2. QED BY <2>1, <3>1 DEF Races, LiveIsAlone, Live, Sent, Together
  <2>3. SentIsAlone' /\ DepositIsFirst' /\ ExactUnlessRaced'
      BY <2>1 DEF Races, SentIsAlone, DepositIsFirst, ExactUnlessRaced, Sent, Together
  <2>4. QED BY <2>2, <2>3 DEF Races
<1>3. QED BY <1>1, <1>2, BatchMoves

LEMMA DepositsAreHeldStep ==
    ASSUME BatchTypeOK, DepositsAreHeld, [BatchNext]_allVars
    PROVE  DepositsAreHeld'
<1>1. CASE [Next]_vars
  <2> SUFFICES ASSUME NEW i \in Invoices, deposited'[i] # 0
               PROVE  \E a \in Attempts : call'[a].invoice = i /\ tx'[a].op # "none"
      BY DEF DepositsAreHeld
  <2>1. TypeOK /\ call' = call BY <1>1, CallsFixed DEF BatchTypeOK
  <2>2. \A a \in Attempts : tx[a].op # "none" => tx'[a].op # "none"
    <3> SUFFICES ASSUME NEW a \in Attempts, tx[a].op # "none", tx'[a] # tx[a]
                 PROVE  tx'[a].op # "none"
        OBVIOUS
    <3>1. Next BY <1>1 DEF vars
    <3>2. "none" \notin Operations BY DEF Operations
    <3>3. QED BY <2>1, <3>1, <3>2, TransactionChanges
  <2>3. \E a \in Attempts : call[a].invoice = i /\ tx[a].op # "none"
    <3>1. CASE deposited'[i] = deposited[i] BY <3>1 DEF DepositsAreHeld
    <3>2. CASE deposited'[i] # deposited[i]
      <4>1. \E a \in Attempts : call[a].invoice = i /\ tx[a].op = "deposit"
          BY <1>1, <2>1, <3>2, DepositChanges
      <4>2. QED BY <4>1
    <3>3. QED BY <3>1, <3>2
  <2>4. QED BY <2>1, <2>2, <2>3
<1>2. ASSUME NEW b \in Batches, BatchMove(b) PROVE UNCHANGED <<call, tx, deposited>>
    BY <1>2, BatchSpares
<1>3. QED BY <1>1, <1>2, BatchMoves DEF DepositsAreHeld

-----------------------------------------------------------------------------
(* The owners.                                                              *)

LEMMA EngineMarks ==
    ASSUME TypeOK, Claims, [Next]_vars
    PROVE  /\ \A i \in Invoices : payout[i].status # "NONE" => payout'[i].status # "NONE"
           /\ \A i \in failed' : i \in failed \/
                 \E a \in Attempts : MarkFailed(a) /\ call[a].invoice = i
           /\ \A i \in raced' : i \in raced \/
                 \E a \in Attempts : ReclaimRow(a) /\ call[a].invoice = i
<1>1. ASSUME NEW i \in Invoices, payout[i].status # "NONE" PROVE payout'[i].status # "NONE"
  <2>1. CASE payout'[i] = payout[i] BY <1>1, <2>1
  <2>2. CASE payout'[i] # payout[i]
    <3>1. payout[i] \in PayoutRow /\ Next BY <2>2 DEF TypeOK, vars, dbVars
    <3>2. PICK a \in Attempts :
              \/ payout'[i] = ClaimedRow(a)
              \/ payout'[i] = [payout[i] EXCEPT !.escrowPda = TRUE]
              \/ payout'[i] = [payout[i] EXCEPT !.status = "FAILED"]
              \/ payout'[i] = BookedRow(payout[i], a)
        BY <2>2, <3>1, RowChanges
    <3>3. CASE payout'[i] = ClaimedRow(a)
        BY <3>3 DEF ClaimedRow, NoRow
    <3>4. CASE payout'[i] = [payout[i] EXCEPT !.escrowPda = TRUE]
      <4>1. payout'[i].status = payout[i].status BY <3>1, <3>4 DEF PayoutRow
      <4>2. QED BY <1>1, <4>1
    <3>5. CASE payout'[i] = [payout[i] EXCEPT !.status = "FAILED"]
        BY <3>1, <3>5 DEF PayoutRow
    <3>6. CASE payout'[i] = BookedRow(payout[i], a)
        BY <3>1, <3>6 DEF PayoutRow, BookedRow
    <3>7. QED BY <3>2, <3>3, <3>4, <3>5, <3>6
  <2>3. QED BY <2>1, <2>2
<1>2. ASSUME \A a \in Attempts : ~MarkFailed(a) PROVE failed' = failed
    BY <1>2 DEF Next, Step, Cluster, Reviewing, Lookup, Repair, ReadInvoice, CreateRow,
                ReclaimRow, InitializeEscrow, DepositEscrow, ReleaseEscrow, SavePda,
                Confirmation, Confirm, Throw, Crash, Land, Drop, ReadForReview,
                WriteReview, DropReview, vars, historyVars
<1>3. ASSUME \A a \in Attempts : ~ReclaimRow(a) PROVE raced' = raced
    BY <1>3 DEF Next, Step, Cluster, Reviewing, Lookup, Repair, ReadInvoice, CreateRow,
                InitializeEscrow, DepositEscrow, ReleaseEscrow, SavePda, Confirmation,
                MarkFailed, Confirm, Throw, Crash, Land, Drop, ReadForReview,
                WriteReview, DropReview, vars, historyVars
<1>4. \A a \in Attempts : MarkFailed(a) => failed' = failed \cup {call[a].invoice}
    BY DEF MarkFailed
<1>5. \A a \in Attempts : ReclaimRow(a) => raced' \subseteq raced \cup {call[a].invoice}
    BY DEF ReclaimRow
<1>6. QED BY <1>1, <1>2, <1>3, <1>4, <1>5

(* A request comes to own an invoice by making its row, and nothing else.   *)
LEMMA OwnedChanges ==
    ASSUME BatchTypeOK, BatchPositions, NEW b \in Batches, BatchMove(b),
           NEW c \in Batches, NEW i \in Owned(c)', i \notin Owned(c)
    PROVE  CreateBatchRow(c, i) /\ payout[i].status = "NONE" /\ payout'[i].status # "NONE"
<1> USE DEF BatchTypeOK
<1>1. CASE b # c
  <2>1. batch'[c] = batch[c] /\ transfer'[c] = transfer[c] /\ rows'[c] = rows[c]
      BY <1>1 DEF BatchMove, BatchStep, ReadInvoices, CheckPayouts, CreateBatchRow,
                  AfterCreates, SendBatch, LandBatch, DropBatch, ConfirmBatch, ThrowBatch,
                  BookBatch, MarkRowFailed, AfterMarks, CrashBatch
  <2>2. QED BY <2>1 DEF Owned, Committed
<1>2. CASE b = c
  <2>1. ASSUME NEW j \in Invoices, CreateBatchRow(c, j)
        PROVE  CreateBatchRow(c, i) /\ payout[i].status = "NONE" /\ payout'[i].status # "NONE"
    <3>1. UNCHANGED <<batch, transfer>> BY <2>1 DEF CreateBatchRow
    <3>2. ~Committed(c) /\ i \in rows'[c] /\ i \notin rows[c]
        BY <3>1 DEF Owned, Committed
    <3>3. /\ rows' = [rows EXCEPT ![c] = @ \cup {j}]
          /\ RowFree(j) /\ payout' = [payout EXCEPT ![j] = BatchRow(j)]
        BY <2>1, <3>2 DEF CreateBatchRow, MayCreate
    <3>4. i = j BY <3>2, <3>3
    <3>5. QED BY <2>1, <3>3, <3>4 DEF RowFree, BatchRow, NoRow, TypeOK
  <2>2. ASSUME NEW j \in Invoices, MarkRowFailed(c, j) PROVE FALSE
      BY <2>2 DEF MarkRowFailed, Owned, Committed
  <2>3. CASE ReadInvoices(c) \/ CheckPayouts(c) \/ AfterMarks(c)
      BY <2>3 DEF ReadInvoices, CheckPayouts, AfterMarks, Owned, Committed
  <2>4. CASE AfterCreates(c)
      BY <2>4 DEF AfterCreates, Owned, Committed
  <2>5. CASE SendBatch(c) \/ LandBatch(c) \/ DropBatch(c)
      BY <2>5 DEF SendBatch, LandBatch, DropBatch, Owned, Committed, BatchPositions
  <2>6. CASE ConfirmBatch(c) \/ ThrowBatch(c) \/ BookBatch(c) \/ CrashBatch(c)
      BY <2>6 DEF ConfirmBatch, ThrowBatch, BookBatch, CrashBatch, Owned, Committed,
                  BatchPositions
  <2>7. QED BY <1>2, <2>1, <2>2, <2>3, <2>4, <2>5, <2>6 DEF BatchMove, BatchStep
<1>3. QED BY <1>1, <1>2

LEMMA RowsAreOwned ==
    ASSUME BatchTypeOK, NEW b \in Batches
    PROVE  rows[b] \subseteq Owned(b) /\ Owned(b) \subseteq BatchOf[b]
BY DEF BatchTypeOK, Owned

LEMMA OwnersEngineStep ==
    ASSUME BatchTypeOK, Claims, OwnersExclude, [Next]_vars, UNCHANGED batchVars
    PROVE  OwnersExclude'
<1>1. /\ UNCHANGED <<batch, transfer, rows>> /\ call' = call /\ TypeOK
      /\ \A a \in Attempts : call[a].invoice \in Invoices
    BY CallsFixed DEF batchVars, BatchTypeOK, TypeOK, Call
<1>2. \A b \in Batches : BatchOf[b] \subseteq Invoices /\ Owned(b) \subseteq Invoices
    BY RowsAreOwned
<1>3. ASSUME NEW b \in Batches, NEW i \in rows[b] PROVE i \notin failed'
  <2>1. i \notin failed /\ i \in Owned(b) BY RowsAreOwned DEF OwnersExclude
  <2>2. \A a \in Attempts : MarkFailed(a) => call[a].invoice # i
      BY <2>1 DEF OwnersExclude, MarkFailed, Holds, Claimed
  <2>3. QED BY <1>1, <2>1, <2>2, EngineMarks
<1>4. ASSUME NEW b \in Batches, NEW a \in Attempts, call[a].invoice \in Owned(b), Holds(a)'
      PROVE  call[a].invoice \in failed'
  <2>1. failed \subseteq failed' BY <1>1, FailedChanges
  <2>2. CASE Holds(a) BY <1>4, <2>1, <2>2 DEF OwnersExclude
  <2>3. CASE ~Holds(a)
    <3>1. Next BY <1>4, <2>3 DEF vars, Holds
    <3>2. payout[call[a].invoice].status # "NONE" BY <1>4 DEF OwnersExclude
    <3>3. ReclaimRow(a) BY <1>1, <1>4, <2>3, <3>1, <3>2, HoldChanges
    <3>4. QED BY <2>1, <3>3 DEF ReclaimRow, Claims
  <2>4. QED BY <2>2, <2>3
<1>5. ASSUME NEW i \in failed' PROVE payout'[i].status # "NONE"
  <2>1. CASE i \in failed
    <3>1. i \in Invoices BY <1>1, <2>1 DEF TypeOK
    <3>2. QED BY <1>1, <2>1, <3>1, EngineMarks DEF OwnersExclude
  <2>2. CASE i \notin failed
    <3>1. PICK a \in Attempts : MarkFailed(a) /\ call[a].invoice = i
        BY <1>1, <2>2, EngineMarks
    <3>2. payout[i].status # "NONE" /\ i \in Invoices
        BY <1>1, <3>1 DEF MarkFailed, Claims, Holds, Claimed
    <3>3. QED BY <1>1, <3>2, EngineMarks
  <2>3. QED BY <2>1, <2>2
<1>6. raced' \subseteq failed'
  <2>1. failed \subseteq failed' BY <1>1, FailedChanges
  <2>2. \A a \in Attempts : ReclaimRow(a) => call[a].invoice \in failed
      BY DEF ReclaimRow, Claims
  <2>3. QED BY <1>1, <2>1, <2>2, EngineMarks DEF OwnersExclude
<1>7. \A b \in Batches : \A i \in Owned(b) : payout'[i].status # "NONE"
    BY <1>1, <1>2, EngineMarks DEF OwnersExclude
<1>8. \A b \in Batches : Owned(b)' = Owned(b)
    BY <1>1 DEF Owned, Committed
<1>9. \A b, c \in Batches : \A i \in Invoices : i \in Owned(b)' /\ i \in Owned(c)' => b = c
    BY <1>8 DEF OwnersExclude
<1>10. QED BY <1>1, <1>3, <1>4, <1>5, <1>6, <1>7, <1>8, <1>9 DEF OwnersExclude

LEMMA OwnersBatchStep ==
    ASSUME BatchTypeOK, BatchPositions, Claims, OwnersExclude, NEW b \in Batches, BatchMove(b)
    PROVE  OwnersExclude'
<1>1. /\ UNCHANGED <<call, pc, tx, raced>> /\ failed \subseteq failed' /\ TypeOK
      /\ \A a \in Attempts : call[a].invoice \in Invoices
    BY BatchSpares DEF BatchTypeOK, TypeOK, Call
<1>2. \A i \in Invoices : payout[i].status # "NONE" => payout'[i].status # "NONE"
    BY BatchRowChanges
<1>3. ASSUME NEW c \in Batches, NEW i \in Owned(c)'
      PROVE  i \in Invoices /\ payout'[i].status # "NONE"
  <2>1. CASE i \in Owned(c)
      BY <1>2, <2>1, RowsAreOwned DEF OwnersExclude
  <2>2. CASE i \notin Owned(c)
      BY <2>2, OwnedChanges DEF CreateBatchRow
  <2>3. QED BY <2>1, <2>2
<1>4. ASSUME NEW c \in Batches, NEW d \in Batches, NEW i \in Owned(c)', i \in Owned(d)'
      PROVE  c = d
  <2>1. CASE i \in Owned(c) /\ i \in Owned(d)
      BY <1>3, <1>4, <2>1 DEF OwnersExclude
  <2>2. CASE i \notin Owned(c) /\ i \in Owned(d)
      BY <2>2, OwnedChanges DEF OwnersExclude
  <2>3. CASE i \in Owned(c) /\ i \notin Owned(d)
      BY <1>4, <2>3, OwnedChanges DEF OwnersExclude
  <2>4. CASE i \notin Owned(c) /\ i \notin Owned(d)
    <3>1. CreateBatchRow(c, i) /\ CreateBatchRow(d, i)
        BY <1>4, <2>4, OwnedChanges
    <3>2. i \in BatchOf[c] \ settled[c] /\ i \in BatchOf[d] \ settled[d]
          /\ settled' = [settled EXCEPT ![c] = @ \cup {i}]
          /\ settled' = [settled EXCEPT ![d] = @ \cup {i}]
        BY <3>1 DEF CreateBatchRow
    <3>3. QED BY <3>2 DEF BatchTypeOK
  <2>5. QED BY <2>1, <2>2, <2>3, <2>4
<1>5. ASSUME NEW c \in Batches, NEW i \in rows'[c] PROVE i \notin failed'
  <2>1. ASSUME i \notin failed, i \in failed' PROVE FALSE
    <3>1. i \in rows[b] /\ rows' = [rows EXCEPT ![b] = @ \ {i}]
        BY <2>1, BatchFailedChanges
    <3>2. c # b /\ i \in rows[c] BY <3>1 DEF BatchTypeOK
    <3>3. i \in Owned(c) /\ i \in Owned(b) /\ i \in Invoices
        BY <3>1, <3>2, RowsAreOwned
    <3>4. QED BY <3>2, <3>3 DEF OwnersExclude
  <2>2. CASE i \in rows[c]
      BY <2>1, <2>2 DEF OwnersExclude
  <2>3. CASE i \notin rows[c]
    <3>1. ASSUME NEW j \in Invoices, CreateBatchRow(b, j) PROVE payout[i].status = "NONE"
      <4>1. RowFree(j) /\ rows' = [rows EXCEPT ![b] = @ \cup {j}]
          BY <2>3, <3>1 DEF CreateBatchRow, MayCreate
      <4>2. i = j BY <2>3, <4>1 DEF BatchTypeOK
      <4>3. QED BY <4>1, <4>2 DEF RowFree
    <3>2. ASSUME NEW j \in Invoices, MarkRowFailed(b, j) PROVE FALSE
        BY <2>3, <3>2 DEF MarkRowFailed, BatchTypeOK
    <3>3. ASSUME \A j \in Invoices : ~CreateBatchRow(b, j) /\ ~MarkRowFailed(b, j)
          PROVE  rows' = rows
        BY <3>3 DEF BatchMove, BatchStep, ReadInvoices, CheckPayouts, AfterCreates, SendBatch,
                    LandBatch, DropBatch, ConfirmBatch, ThrowBatch, BookBatch, AfterMarks,
                    CrashBatch
    <3>4. payout[i].status = "NONE" BY <2>3, <3>1, <3>2, <3>3
    <3>5. QED BY <2>1, <3>4 DEF OwnersExclude
  <2>4. QED BY <2>2, <2>3
<1>6. ASSUME NEW c \in Batches, NEW a \in Attempts, call[a].invoice \in Owned(c)', Holds(a)
      PROVE  call[a].invoice \in failed'
    BY <1>1, <1>6, OwnedChanges DEF OwnersExclude, Claims
<1>7. ASSUME NEW i \in failed' PROVE payout'[i].status # "NONE"
  <2>1. CASE i \in failed BY <1>1, <1>2, <2>1 DEF OwnersExclude, TypeOK
  <2>2. CASE i \notin failed
    <3>1. i \in rows[b] BY <2>2, BatchFailedChanges
    <3>2. i \in Owned(b) /\ i \in Invoices BY <3>1, RowsAreOwned
    <3>3. QED BY <1>2, <3>2 DEF OwnersExclude
  <2>3. QED BY <2>1, <2>2
<1>8. raced' \subseteq failed' BY <1>1 DEF OwnersExclude
<1>9. \A a \in Attempts : Holds(a)' <=> Holds(a) BY <1>1 DEF Holds
<1>10. /\ \A c, d \in Batches : \A i \in Invoices : i \in Owned(c)' /\ i \in Owned(d)' => c = d
       /\ \A c \in Batches : \A i \in Owned(c)' : payout'[i].status # "NONE"
       /\ \A c \in Batches, a \in Attempts :
             call'[a].invoice \in Owned(c)' /\ Holds(a)' => call'[a].invoice \in failed'
    BY <1>1, <1>3, <1>4, <1>6, <1>9
<1>11. QED BY <1>5, <1>7, <1>8, <1>10 DEF OwnersExclude

LEMMA OwnersExcludeStep ==
    ASSUME BatchTypeOK, BatchPositions, Claims, OwnersExclude, [BatchNext]_allVars
    PROVE  OwnersExclude'
BY OwnersEngineStep, OwnersBatchStep, BatchMoves

-----------------------------------------------------------------------------
(* What is transferred, and what is booked.                                 *)

LEMMA TransferredStep ==
    ASSUME BatchTypeOK, BatchPositions, OwnersExclude, Transferred, [BatchNext]_allVars
    PROVE  Transferred'
<1>1. CASE UNCHANGED batchVars
    BY <1>1 DEF batchVars, Transferred
<1>2. ASSUME NEW b \in Batches, BatchMove(b), ~LandBatch(b), ~SendBatch(b), ~DropBatch(b)
      PROVE  UNCHANGED <<transfer, direct>>
    BY <1>2 DEF BatchMove, BatchStep, ReadInvoices, CheckPayouts, CreateBatchRow, AfterCreates,
                ConfirmBatch, ThrowBatch, BookBatch, MarkRowFailed, AfterMarks, CrashBatch
<1>3. ASSUME NEW b \in Batches, SendBatch(b) \/ DropBatch(b)
      PROVE  /\ direct' = direct
             /\ \A c \in Batches : transfer'[c] = "landed" <=> transfer[c] = "landed"
    BY <1>3 DEF SendBatch, DropBatch, BatchPositions, BatchTypeOK
<1>4. ASSUME NEW b \in Batches, LandBatch(b) PROVE Transferred'
  <2>1. /\ transfer[b] = "sent" /\ transfer'[b] = "landed"
        /\ \A c \in Batches : transfer[c] = "landed" => transfer'[c] = "landed"
        /\ \A c \in Batches : transfer'[c] = "landed" => c = b \/ transfer[c] = "landed"
        /\ \A i \in Invoices :
              direct'[i] = IF i \in BatchOf[b] THEN direct[i] + Amount[i] ELSE direct[i]
      BY <1>4 DEF LandBatch, BatchTypeOK
  <2>2. ASSUME NEW i \in BatchOf[b] PROVE i \in Invoices /\ direct[i] = 0
    <3>1. i \in Invoices OBVIOUS
    <3>2. ASSUME direct[i] # 0 PROVE FALSE
      <4>1. PICK c \in Batches : transfer[c] = "landed" /\ i \in BatchOf[c]
          BY <3>1, <3>2 DEF Transferred
      <4>2. i \in Owned(c) /\ i \in Owned(b)
          BY <2>1, <4>1 DEF Owned, Committed
      <4>3. b = c BY <3>1, <4>2 DEF OwnersExclude
      <4>4. QED BY <2>1, <4>1, <4>3
    <3>3. QED BY <3>1, <3>2
  <2>3. \A i \in Invoices : Amount[i] \in Nat \ {0}
      OBVIOUS
  <2>4. \A i \in BatchOf[b] : direct'[i] = Amount[i] /\ direct'[i] # 0
      BY <2>1, <2>2, <2>3
  <2>5. \A i \in Invoices : i \notin BatchOf[b] => direct'[i] = direct[i]
      BY <2>1
  <2>6. \A i \in Invoices : direct'[i] \in {0, Amount[i]}
      BY <2>4, <2>5 DEF Transferred
  <2>7. ASSUME NEW i \in Invoices, direct'[i] # 0
        PROVE  \E c \in Batches : transfer'[c] = "landed" /\ i \in BatchOf[c]
      BY <2>1, <2>5, <2>7 DEF Transferred
  <2>8. ASSUME NEW c \in Batches, transfer'[c] = "landed", NEW i \in BatchOf[c]
        PROVE  direct'[i] # 0
    <3>1. i \in Invoices OBVIOUS
    <3>2. QED BY <2>1, <2>4, <2>5, <2>8, <3>1 DEF Transferred
  <2>9. QED BY <2>6, <2>7, <2>8 DEF Transferred
<1>5. QED BY <1>1, <1>2, <1>3, <1>4, BatchMoves DEF Transferred

(* What was paid stays paid.                                                *)
LEMMA PaidStays ==
    ASSUME BatchTypeOK, BatchPositions, OwnersExclude, Transferred, Program!EscrowInv,
           [BatchNext]_allVars, NEW i \in Invoices, Paid(i)
    PROVE  Paid(i)'
<1>1. Transferred' /\ BatchTypeOK'
    BY TransferredStep, BatchTypeStep
<1>2. CASE escrow[i].isReleased
    BY <1>2, BatchChain DEF Paid
<1>3. CASE direct[i] > 0
  <2>1. direct'[i] >= direct[i]
    <3>1. CASE UNCHANGED batchVars BY <1>3, <3>1 DEF batchVars, BatchTypeOK
    <3>2. ASSUME NEW b \in Batches, LandBatch(b) PROVE direct'[i] >= direct[i]
      <4>1. direct'[i] = IF i \in BatchOf[b] THEN direct[i] + Amount[i] ELSE direct[i]
          BY <3>2 DEF LandBatch
      <4>2. direct[i] \in Nat /\ Amount[i] \in Nat BY DEF BatchTypeOK
      <4>3. QED BY <4>1, <4>2
    <3>3. CASE direct' = direct BY <1>3, <3>3 DEF BatchTypeOK
    <3>4. QED BY <3>1, <3>2, <3>3, BatchMoves, BatchSpares
  <2>2. direct[i] \in Nat /\ direct'[i] \in Nat BY <1>1 DEF BatchTypeOK
  <2>3. QED BY <1>3, <2>1, <2>2 DEF Paid
<1>4. QED BY <1>2, <1>3 DEF Paid

LEMMA PaidBooksEngineStep ==
    ASSUME BatchTypeOK, BatchPositions, OwnersExclude, Transferred, Program!EscrowInv,
           Positions, PaidBooks, Next, UNCHANGED batchVars
    PROVE  PaidBooks'
<1>1. TypeOK /\ call' = call /\ \A a \in Attempts : call[a].invoice \in Invoices
    BY CallsFixed DEF BatchTypeOK, TypeOK, Call
<1>2. \A i \in Invoices : Paid(i) => Paid(i)'
    BY PaidStays DEF BatchNext
<1>3. \A i \in Invoices : escrow[i].isReleased => escrow'[i].isReleased
    BY <1>1, ReleaseStays
<1>4. ASSUME NEW a \in Attempts, tx'[a] = Released PROVE escrow'[call[a].invoice].isReleased
    BY <1>1, <1>3, <1>4, NewlyBooked DEF PaidBooks
<1>5. ASSUME NEW a \in Attempts, pc'[a] = "repair" PROVE Paid(call[a].invoice)'
    BY <1>1, <1>2, <1>5, NewlyBooked DEF PaidBooks
<1>6. ASSUME NEW i \in Invoices, payout'[i].status = "CONFIRMED" PROVE Paid(i)'
  <2>1. CASE payout[i].status = "CONFIRMED" BY <1>2, <2>1 DEF PaidBooks
  <2>2. CASE payout[i].status # "CONFIRMED"
    <3>1. PICK a \in Attempts : call[a].invoice = i /\ tx[a] = Released
        BY <1>1, <1>6, <2>2, NewlyBooked
    <3>2. escrow[i].isReleased BY <3>1 DEF PaidBooks
    <3>3. QED BY <1>2, <3>2 DEF Paid
  <2>3. QED BY <2>1, <2>2
<1>7. ASSUME NEW i \in Invoices, invoice'[i] = "PAID" PROVE Paid(i)'
  <2>1. CASE invoice[i] = "PAID" BY <1>2, <2>1 DEF PaidBooks
  <2>2. CASE invoice[i] # "PAID"
    <3>1. PICK a \in Attempts : call[a].invoice = i /\ (pc[a] = "repair" \/ tx[a] = Released)
        BY <1>1, <1>7, <2>2, NewlyBooked
    <3>2. Paid(i) BY <3>1 DEF PaidBooks, Paid
    <3>3. QED BY <1>2, <3>2
  <2>3. QED BY <2>1, <2>2
<1>8. QED BY <1>1, <1>4, <1>5, <1>6, <1>7 DEF PaidBooks, Released

LEMMA PaidBooksBatchStep ==
    ASSUME BatchTypeOK, BatchPositions, OwnersExclude, Transferred, Program!EscrowInv,
           PaidBooks, NEW b \in Batches, BatchMove(b)
    PROVE  PaidBooks'
<1>1. /\ UNCHANGED <<escrow, call, pc, tx>>
      /\ \A a \in Attempts : call[a].invoice \in Invoices
    BY BatchSpares DEF BatchTypeOK, TypeOK, Call
<1>2. \A i \in Invoices : Paid(i) => Paid(i)'
    BY PaidStays DEF BatchNext, BatchMove
<1>3. ASSUME NEW i \in Invoices, i \in BatchOf[b], transfer[b] = "landed" PROVE Paid(i)
    BY <1>3 DEF Transferred, BatchTypeOK, Paid
<1>4. ASSUME NEW i \in Invoices, payout'[i].status = "CONFIRMED" PROVE Paid(i)'
  <2>1. CASE payout'[i] = payout[i] BY <1>2, <1>4, <2>1 DEF PaidBooks
  <2>2. CASE payout'[i] # payout[i]
    <3>1. i \in BatchOf[b] /\ transfer[b] = "landed"
        BY <1>4, <2>2, BatchRowChanges
    <3>2. QED BY <1>2, <1>3, <3>1
  <2>3. QED BY <2>1, <2>2
<1>5. ASSUME NEW i \in Invoices, invoice'[i] = "PAID" PROVE Paid(i)'
  <2>1. CASE invoice[i] = "PAID" BY <1>2, <2>1 DEF PaidBooks
  <2>2. CASE invoice[i] # "PAID"
    <3>1. BookBatch(b)
        BY <1>5, <2>2 DEF BatchMove, BatchStep, ReadInvoices, CheckPayouts, CreateBatchRow,
               AfterCreates, SendBatch, LandBatch, DropBatch, ConfirmBatch, ThrowBatch,
               MarkRowFailed, AfterMarks, CrashBatch, vars, dbVars
    <3>2. i \in BatchOf[b] /\ transfer[b] = "landed"
        BY <1>5, <2>2, <3>1 DEF BookBatch, BatchPositions
    <3>3. QED BY <1>2, <1>3, <3>2
  <2>3. QED BY <2>1, <2>2
<1>6. QED BY <1>1, <1>2, <1>4, <1>5 DEF PaidBooks, Released

LEMMA PaidBooksStep ==
    ASSUME BatchTypeOK, BatchPositions, OwnersExclude, Transferred, Program!EscrowInv,
           Positions, PaidBooks, [BatchNext]_allVars
    PROVE  PaidBooks'
<1>1. CASE UNCHANGED allVars
    BY <1>1 DEF allVars, vars, chainVars, dbVars, batchVars, PaidBooks, Paid, Released
<1>2. QED BY <1>1, PaidBooksEngineStep, PaidBooksBatchStep DEF BatchNext, BatchMove

-----------------------------------------------------------------------------
(* The signatures.                                                          *)

(* A signature that names the payment of a row, whichever channel made it.  *)
NamesBatch(s, i) == s \in Batches /\ transfer[s] = "landed" /\ i \in BatchOf[s]

NamesRelease(s, i) == s \in Attempts /\ call[s].invoice = i /\ tx[s] = Released

LEMMA NamesStay ==
    ASSUME BatchTypeOK, Positions, BatchPositions, [BatchNext]_allVars
    PROVE  /\ \A i \in Invoices, s \in Batches : NamesBatch(s, i) => NamesBatch(s, i)'
           /\ \A i \in Invoices, s \in Attempts : NamesRelease(s, i) => NamesRelease(s, i)'
<1>1. ASSUME NEW s \in Batches, transfer[s] = "landed" PROVE transfer'[s] = "landed"
  <2>1. CASE UNCHANGED batchVars BY <1>1, <2>1 DEF batchVars
  <2>2. ASSUME NEW b \in Batches, BatchMove(b) PROVE transfer'[s] = "landed"
    <3>1. CASE SendBatch(b) \/ LandBatch(b) \/ DropBatch(b) \/ transfer' = transfer
      <4>1. ~(b = s /\ (SendBatch(b) \/ LandBatch(b) \/ DropBatch(b)))
          BY <1>1 DEF SendBatch, LandBatch, DropBatch, BatchPositions
      <4>2. QED BY <1>1, <3>1, <4>1 DEF BatchTypeOK, SendBatch, LandBatch, DropBatch
    <3>2. QED BY <2>2, <3>1 DEF BatchMove, BatchStep, ReadInvoices, CheckPayouts,
              CreateBatchRow, AfterCreates, ConfirmBatch, ThrowBatch, BookBatch,
              MarkRowFailed, AfterMarks, CrashBatch
  <2>3. QED BY <2>1, <2>2, BatchMoves
<1>2. ASSUME NEW s \in Attempts, tx[s] = Released PROVE tx'[s] = Released
  <2>1. CASE [Next]_vars BY <1>2, <2>1, WinnerStays DEF BatchTypeOK
  <2>2. CASE tx' = tx BY <1>2, <2>2
  <2>3. QED BY <2>1, <2>2, BatchMoves, BatchSpares
<1>3. call' = call BY CallsFixed, BatchMoves, BatchSpares
<1>4. QED BY <1>1, <1>2, <1>3 DEF NamesBatch, NamesRelease, Released

LEMMA NamesAreSignatures ==
    SignatureNamesPayment <=>
        \A i \in Invoices : payout[i].status = "CONFIRMED" =>
            NamesBatch(payout[i].txSignature, i) \/ NamesRelease(payout[i].txSignature, i)
BY DEF SignatureNamesPayment, NamesBatch, NamesRelease, Released

LEMMA NamesAreSignaturesNext ==
    (\A i \in Invoices : payout'[i].status = "CONFIRMED" =>
        \/ \E s \in Batches : payout'[i].txSignature = s /\ NamesBatch(s, i)'
        \/ \E s \in Attempts : payout'[i].txSignature = s /\ NamesRelease(s, i)')
    => SignatureNamesPayment'
BY DEF SignatureNamesPayment, NamesBatch, NamesRelease, Released

LEMMA SignatureNamesPaymentStep ==
    ASSUME BatchTypeOK, Positions, BatchPositions, SignatureNamesPayment, [BatchNext]_allVars
    PROVE  SignatureNamesPayment'
<1> SUFFICES ASSUME NEW i \in Invoices, payout'[i].status = "CONFIRMED"
             PROVE  \/ \E s \in Batches : payout'[i].txSignature = s /\ NamesBatch(s, i)'
                    \/ \E s \in Attempts : payout'[i].txSignature = s /\ NamesRelease(s, i)'
    BY NamesAreSignaturesNext
<1> DEFINE w == payout[i].txSignature
<1>1. payout[i] \in PayoutRow BY DEF BatchTypeOK, TypeOK
<1>2. CASE payout[i].status = "CONFIRMED" /\ payout'[i].txSignature = w
  <2>1. NamesBatch(w, i) \/ NamesRelease(w, i) BY <1>2, NamesAreSignatures
  <2>2. CASE NamesBatch(w, i)
    <3>1. PICK s \in Batches : s = w /\ NamesBatch(s, i) BY <2>2 DEF NamesBatch
    <3>2. NamesBatch(s, i)' BY <3>1, NamesStay
    <3>3. QED BY <1>2, <3>1, <3>2
  <2>3. CASE NamesRelease(w, i)
    <3>1. PICK s \in Attempts : s = w /\ NamesRelease(s, i) BY <2>3 DEF NamesRelease
    <3>2. NamesRelease(s, i)' BY <3>1, NamesStay
    <3>3. QED BY <1>2, <3>1, <3>2
  <2>4. QED BY <2>1, <2>2, <2>3
<1>3. CASE payout'[i] # payout[i] /\ Next
  <2>1. PICK a \in Attempts :
              /\ call[a].invoice = i
              /\ \/ payout'[i] = ClaimedRow(a)
                 \/ payout'[i] = [payout[i] EXCEPT !.escrowPda = TRUE]
                 \/ payout'[i] = [payout[i] EXCEPT !.status = "FAILED"]
                 \/ Confirm(a) /\ payout'[i] = BookedRow(payout[i], a)
      BY <1>3, RowChanges DEF BatchTypeOK
  <2>2. CASE payout'[i] = ClaimedRow(a)
      BY <2>2 DEF ClaimedRow, NoRow
  <2>3. CASE payout'[i] = [payout[i] EXCEPT !.escrowPda = TRUE]
    <3>1. payout'[i].status = payout[i].status /\ payout'[i].txSignature = w
        BY <1>1, <2>3 DEF PayoutRow
    <3>2. QED BY <1>2, <3>1
  <2>4. CASE payout'[i] = [payout[i] EXCEPT !.status = "FAILED"]
      BY <1>1, <2>4 DEF PayoutRow
  <2>5. CASE Confirm(a) /\ payout'[i] = BookedRow(payout[i], a)
    <3>1. payout'[i].txSignature = a
        BY <1>1, <2>5 DEF BookedRow, PayoutRow
    <3>2. tx[a] = Released
        BY <2>5 DEF Positions, Confirm
    <3>3. NamesRelease(a, i)
        BY <2>1, <3>2 DEF NamesRelease
    <3>4. NamesRelease(a, i)' BY <3>3, NamesStay
    <3>5. QED BY <3>1, <3>4
  <2>6. QED BY <2>1, <2>2, <2>3, <2>4, <2>5
<1>4. ASSUME payout'[i] # payout[i], NEW b \in Batches, BatchMove(b)
      PROVE  payout'[i].txSignature = b /\ NamesBatch(b, i)'
  <2>1. /\ payout'[i].txSignature = b /\ i \in BatchOf[b] /\ transfer'[b] = "landed"
      BY <1>4, BatchRowChanges
  <2>2. QED BY <2>1 DEF NamesBatch
<1>5. CASE payout'[i] = payout[i]
    BY <1>2, <1>5
<1>6. CASE payout'[i] # payout[i]
  <2>1. CASE Next BY <1>3, <1>6, <2>1
  <2>2. CASE \E b \in Batches : BatchMove(b) BY <1>4, <1>6, <2>2
  <2>3. QED BY <1>6, <2>1, <2>2, BatchMoves DEF vars, dbVars
<1>7. QED BY <1>5, <1>6

-----------------------------------------------------------------------------
(* Money that left over either channel is accounted for.                    *)

(* A request takes nothing away from what accounts for an invoice.          *)
LEMMA BatchKeepsAccounts ==
    ASSUME BatchTypeOK, NEW b \in Batches, BatchMove(b), NEW i \in Invoices, Accounted(i)
    PROVE  Accounted(i)'
<1>1. UNCHANGED <<call, pc, overruled>> /\ failed \subseteq failed'
    BY BatchSpares
<1>2. abandoned \subseteq abandoned'
    BY DEF BatchMove, BatchStep, ReadInvoices, CheckPayouts, CreateBatchRow, AfterCreates,
           SendBatch, LandBatch, DropBatch, ConfirmBatch, ThrowBatch, BookBatch,
           MarkRowFailed, AfterMarks, CrashBatch, vars, historyVars
<1>3. invoice[i] = "PAID" => invoice'[i] = "PAID"
    BY DEF BatchMove, BatchStep, ReadInvoices, CheckPayouts, CreateBatchRow, AfterCreates,
           SendBatch, LandBatch, DropBatch, ConfirmBatch, ThrowBatch, BookBatch,
           MarkRowFailed, AfterMarks, CrashBatch, vars, dbVars
<1>4. QED BY <1>1, <1>2, <1>3 DEF Accounted

(* A request lets go of a row by booking it, marking it or dying.           *)
LEMMA HeldRowEnds ==
    ASSUME BatchTypeOK, NEW b \in Batches, BatchMove(b), NEW c \in Batches, NEW i \in Invoices,
           HoldsRow(c, i)
    PROVE  HoldsRow(c, i)' \/ Accounted(i)'
<1>1. CASE b # c
  <2>1. batch'[c] = batch[c] /\ rows'[c] = rows[c]
      BY <1>1 DEF BatchTypeOK, BatchMove, BatchStep, ReadInvoices, CheckPayouts,
                  CreateBatchRow, AfterCreates, SendBatch, LandBatch, DropBatch,
                  ConfirmBatch, ThrowBatch, BookBatch, MarkRowFailed, AfterMarks, CrashBatch
  <2>2. QED BY <2>1 DEF HoldsRow
<1>2. CASE b = c
  <2>1. i \in BatchOf[c] BY DEF HoldsRow, BatchTypeOK
  <2>2. CASE BookBatch(c)
      BY <2>1, <2>2 DEF BookBatch, Accounted
  <2>3. CASE CrashBatch(c)
      BY <2>3 DEF CrashBatch, HoldsRow, Accounted
  <2>4. ASSUME NEW j \in Invoices, MarkRowFailed(c, j)
        PROVE  HoldsRow(c, i)' \/ Accounted(i)'
    <3>1. batch' = batch /\ rows' = [rows EXCEPT ![c] = @ \ {j}]
        BY <2>4 DEF MarkRowFailed
    <3>2. rows'[c] = rows[c] \ {j} BY <3>1 DEF BatchTypeOK
    <3>3. CASE i = j BY <2>4, <3>3 DEF MarkRowFailed, Accounted
    <3>4. CASE i # j BY <3>1, <3>2, <3>4 DEF HoldsRow
    <3>5. QED BY <3>3, <3>4
  <2>5. CASE SendBatch(c) \/ ConfirmBatch(c) \/ ThrowBatch(c)
      BY <2>5 DEF BatchTypeOK, HoldsRow, SendBatch, ConfirmBatch, ThrowBatch
  <2>6. CASE LandBatch(c) \/ DropBatch(c)
      BY <2>6 DEF HoldsRow, LandBatch, DropBatch
  <2>7. ASSUME ReadInvoices(c) \/ CheckPayouts(c) \/ AfterCreates(c) \/ AfterMarks(c)
               \/ \E j \in Invoices : CreateBatchRow(c, j)
        PROVE  FALSE
      BY <2>7 DEF HoldsRow, ReadInvoices, CheckPayouts, AfterCreates, AfterMarks,
                  CreateBatchRow
  <2>8. QED BY <1>2, <2>2, <2>3, <2>4, <2>5, <2>6, <2>7 DEF BatchMove, BatchStep
<1>3. QED BY <1>1, <1>2

LEMMA EitherAccountStays ==
    ASSUME BatchTypeOK, [BatchNext]_allVars, NEW i \in Invoices, AccountedOnEither(i)
    PROVE  AccountedOnEither(i)'
<1>1. CASE [Next]_vars /\ UNCHANGED batchVars
  <2>1. CASE Accounted(i)
      BY <1>1, <2>1, AccountStays DEF BatchTypeOK, AccountedOnEither
  <2>2. ASSUME NEW c \in Batches, HoldsRow(c, i) PROVE AccountedOnEither(i)'
      BY <1>1, <2>2 DEF batchVars, HoldsRow, AccountedOnEither
  <2>3. QED BY <2>1, <2>2 DEF AccountedOnEither
<1>2. ASSUME NEW b \in Batches, BatchMove(b) PROVE AccountedOnEither(i)'
  <2>1. CASE Accounted(i)
      BY <1>2, <2>1, BatchKeepsAccounts DEF AccountedOnEither
  <2>2. ASSUME NEW c \in Batches, HoldsRow(c, i) PROVE AccountedOnEither(i)'
    <3>1. HoldsRow(c, i)' \/ Accounted(i)' BY <1>2, <2>2, HeldRowEnds
    <3>2. QED BY <3>1 DEF AccountedOnEither
  <2>3. QED BY <2>1, <2>2 DEF AccountedOnEither
<1>3. QED BY <1>1, <1>2, BatchMoves

LEMMA BatchMoneyStep ==
    ASSUME BatchTypeOK, Positions, BatchPositions, Money, TransfersAreAccounted,
           [BatchNext]_allVars
    PROVE  Money' /\ TransfersAreAccounted'
<1>1. Money'
  <2>1. CASE [Next]_vars BY <2>1, MoneyStep DEF BatchTypeOK
  <2>2. ASSUME NEW b \in Batches, BatchMove(b) PROVE Money'
    <3>1. UNCHANGED <<call, tx, deposited>> BY <2>2, BatchSpares
    <3>2. \A i \in Invoices : Accounted(i) => Accounted(i)'
        BY <2>2, BatchKeepsAccounts
    <3>3. \A a \in Attempts : call[a].invoice \in Invoices
        BY DEF BatchTypeOK, TypeOK, Call
    <3>4. MoneyIsAccountedFor'
        BY <3>1, <3>2 DEF Money, MoneyIsAccountedFor
    <3>5. ASSUME NEW a \in Attempts, tx'[a].op # "none" PROVE Accounted(call[a].invoice)'
      <4>1. PICK i \in Invoices : call[a].invoice = i BY <3>3
      <4>2. Accounted(i) BY <3>1, <3>5, <4>1 DEF Money, SendersAreAccounted
      <4>3. Accounted(i)' /\ call'[a].invoice = i BY <3>1, <3>2, <4>1, <4>2
      <4>4. QED BY <4>3 DEF Accounted
    <3>6. QED BY <3>4, <3>5 DEF Money, SendersAreAccounted, Accounted
  <2>3. QED BY <2>1, <2>2, BatchMoves
<1>2. ASSUME NEW b \in Batches, transfer'[b] # "none", NEW i \in BatchOf[b]
      PROVE  AccountedOnEither(i)'
  <2>1. i \in Invoices OBVIOUS
  <2>2. CASE transfer[b] # "none"
      BY <2>1, <2>2, EitherAccountStays DEF TransfersAreAccounted
  <2>3. CASE transfer[b] = "none"
    <3>1. SendBatch(b)
        BY <1>2, <2>3 DEF BatchTypeOK, BatchNext, BatchStep, allVars, batchVars, ReadInvoices,
                          CheckPayouts, CreateBatchRow, AfterCreates, SendBatch, LandBatch,
                          DropBatch, ConfirmBatch, ThrowBatch, BookBatch, MarkRowFailed,
                          AfterMarks, CrashBatch
    <3>2. HoldsRow(b, i)
        BY <3>1 DEF SendBatch, HoldsRow, BatchPositions
    <3>3. QED BY <2>1, <3>2, EitherAccountStays DEF AccountedOnEither
  <2>4. QED BY <2>2, <2>3
<1>3. QED BY <1>1, <1>2 DEF TransfersAreAccounted

-----------------------------------------------------------------------------
LEMMA BatchInitInv == BatchInit => BatchInv
<1> SUFFICES ASSUME BatchInit PROVE BatchInv
    OBVIOUS
<1>1. EngineInv BY EngineInitInv DEF BatchInit
<1>2. BatchTypeOK
    BY <1>1 DEF EngineInv, BatchInit, BatchTypeOK, BatchAwaits
<1>3. \A i \in Invoices : payout[i] = NoRow /\ invoice[i] # "PAID"
    BY DEF BatchInit, Init
<1>4. BatchPositions
    BY DEF BatchInit, BatchPositions
<1>5. OwnersExclude
  <2>1. \A b \in Batches : Owned(b) = {} /\ rows[b] = {}
      BY DEF BatchInit, Owned, Committed
  <2>2. failed = {} /\ raced = {} BY DEF BatchInit, Init
  <2>3. QED BY <2>1, <2>2 DEF OwnersExclude
<1>6. Transferred
    BY DEF BatchInit, Transferred
<1>7. DepositsAreHeld
    BY DEF BatchInit, Init, Chain!EscrowInit, DepositsAreHeld
<1>8. PaidBooks /\ SignatureNamesPayment
  <2>1. \A i \in Invoices : payout[i].status # "CONFIRMED"
      BY <1>3 DEF NoRow
  <2>2. \A a \in Attempts : tx[a] # Released /\ pc[a] # "repair"
      BY DEF BatchInit, Init, Released
  <2>3. QED BY <1>3, <2>1, <2>2 DEF PaidBooks, SignatureNamesPayment
<1>9. TransfersAreAccounted
    BY DEF BatchInit, TransfersAreAccounted
<1>10. QED BY <1>1, <1>2, <1>4, <1>5, <1>6, <1>7, <1>8, <1>9 DEF EngineInv, BatchInv

LEMMA BatchStepInv == BatchInv /\ [BatchNext]_allVars => BatchInv'
BY BatchTypeStep, BatchChain, BatchPositionStep, BatchEnginePositionStep, BatchClaimsStep,
   BatchRacesStep, OwnersExcludeStep, TransferredStep, DepositsAreHeldStep, PaidBooksStep,
   SignatureNamesPaymentStep, BatchMoneyStep DEF BatchInv

LEMMA BatchInvariant == BatchSpec => []BatchInv
BY BatchInitInv, BatchStepInv, PTL DEF BatchSpec

(* A CONFIRMED row and a PAID invoice were paid, by a batch's transfer or   *)
(* by a released escrow, and the row's signature names the payment; money   *)
(* that left over either channel is accounted for.                          *)
THEOREM BatchBooksAreTrue == BatchSpec => []BatchBooks
<1>1. BatchInv => BothBooksFollowChain
    BY SameInvariant DEF BatchInv, PaidBooks, Paid, BothBooksFollowChain, ChainInvariants,
                         Chain!EscrowLedger
<1>2. BatchInv => EitherIsAccountedFor
  <2> SUFFICES ASSUME BatchInv, NEW i \in Invoices, direct[i] + deposited[i] > 0
               PROVE  AccountedOnEither(i)
      BY DEF EitherIsAccountedFor
  <2>1. direct[i] \in Nat /\ deposited[i] \in Nat
      BY DEF BatchInv, BatchTypeOK, TypeOK, Chain!EscrowTypeOK
  <2>2. CASE direct[i] # 0
      BY <2>2 DEF BatchInv, Transferred, TransfersAreAccounted
  <2>3. CASE deposited[i] > 0
      BY <2>3 DEF BatchInv, Money, MoneyIsAccountedFor, AccountedOnEither
  <2>4. QED BY <2>1, <2>2, <2>3
<1>3. BatchInv => BatchBooks
    BY <1>1, <1>2 DEF BatchInv, BatchBooks
<1>4. QED BY BatchInvariant, <1>3, PTL

(* Two batches never both pay an invoice; a batch and an escrow do so only  *)
(* after a payout of it was marked FAILED.                                  *)
THEOREM ChannelsAreExclusive == BatchSpec => []ChannelsExclude
<1>1. ASSUME BatchInv, NEW i \in Invoices PROVE direct[i] \in {0, Amount[i]} /\ Amount[i] \in Nat
    BY <1>1 DEF BatchInv, Transferred
<1>2. ASSUME BatchInv, NEW i \in Invoices, i \notin failed
      PROVE  direct[i] + deposited[i] <= Amount[i]
  <2>1. deposited[i] \in {0, Amount[i]}
      BY <1>2 DEF BatchInv, OwnersExclude, Races, ExactUnlessRaced
  <2>2. ASSUME direct[i] # 0, deposited[i] # 0 PROVE FALSE
    <3>1. PICK b \in Batches : transfer[b] = "landed" /\ i \in BatchOf[b]
        BY <1>2, <2>2 DEF BatchInv, Transferred
    <3>2. PICK a \in Attempts : call[a].invoice = i /\ tx[a].op # "none"
        BY <1>2, <2>2 DEF BatchInv, DepositsAreHeld
    <3>3. i \in Owned(b) /\ Holds(a)
        BY <3>1, <3>2 DEF Owned, Committed, Holds
    <3>4. QED BY <1>2, <3>2, <3>3 DEF BatchInv, OwnersExclude
  <2>3. QED BY <1>1, <1>2, <2>1, <2>2
<1>3. BatchInv => OneChannelUntilFailure
  <2> SUFFICES ASSUME BatchInv, NEW i \in Invoices, i \notin failed
               PROVE  ~(direct[i] + deposited[i] > Amount[i])
      BY DEF OneChannelUntilFailure
  <2>1. deposited[i] \in Nat /\ direct[i] \in Nat /\ Amount[i] \in Nat
      BY DEF BatchInv, BatchTypeOK, TypeOK, Chain!EscrowTypeOK
  <2>2. QED BY <1>2, <2>1
<1>4. BatchInv => OneBatchPays
  <2> SUFFICES ASSUME BatchInv, NEW i \in Invoices PROVE direct[i] <= Amount[i]
      BY DEF OneBatchPays
  <2>1. QED BY <1>1
<1>5. QED BY BatchInvariant, <1>3, <1>4, PTL DEF ChannelsExclude

HIDE BatchAssumption

-----------------------------------------------------------------------------
(***************************************************************************)
(* The recovery services, for any numbers of attempts, sweeps, workers and *)
(* rescues, and any limit on the attempts of a job.                        *)
(***************************************************************************)
USE EngineAssumption, RecoveryAssumption

recoveryAll == <<vars, recoveryVars>>

attemptVars == <<call, pc, seen, tx, review, historyVars>>

-----------------------------------------------------------------------------
(* A step of the recovered system is one of the engine, with what the call  *)
(* returned, or one of a recovery service, which leaves the attempts alone. *)

EngineMoves ==
    /\ Next
    /\ UNCHANGED <<job, sweep, worker, rescue>>
    /\ \/ answered' = answered
       \/ \E a \in Attempts : (Repair(a) \/ Confirm(a)) /\ answered' = answered \cup {a}

ServiceMoves ==
    \/ \E s \in Sweeps : Sweep(s)
    \/ \E w \in Workers : Work(w)
    \/ \E r \in Rescues : Rescue(r)

LEMMA RecoveryMoves == RecoveryNext => EngineMoves \/ ServiceMoves
<1>1. ASSUME NEW a \in Attempts, Answer(a) PROVE EngineMoves
    BY <1>1 DEF Answer, EngineMoves, Next, Step
<1>2. ASSUME NEW a \in Attempts, Progress(a) PROVE EngineMoves
    BY <1>2 DEF Progress, EngineMoves, Next, Step, recoveryVars
<1>3. ASSUME NEW r \in Reviewers, Reviewing(r) /\ UNCHANGED recoveryVars PROVE EngineMoves
    BY <1>3 DEF EngineMoves, Next, recoveryVars
<1>4. QED BY <1>1, <1>2, <1>3 DEF RecoveryNext, ServiceMoves

LEMMA SweepSpares == \A s \in Sweeps : Sweep(s) =>
    UNCHANGED <<chainVars, attemptVars, worker, rescue, answered>>
BY DEF Sweep, Sweeping, SelectRow, ReadSweptRow, CheckSignature, BookSwept, QueueRetry,
       DropSweep, vars, attemptVars

LEMMA WorkSpares == \A w \in Workers : Work(w) =>
    UNCHANGED <<vars, sweep, rescue, answered>>
BY DEF Work, Working, TakeJob, StartRetry, ResolveJob, FailJob, DropWorker

LEMMA RescueSpares == \A r \in Rescues : Rescue(r) =>
    /\ UNCHANGED <<attemptVars, job, sweep, worker, answered>>
    /\ UNCHANGED chainVars \/ LandRescue(r)
BY DEF Rescue, Rescuing, RescueAt, ReadStuckRow, ReadStuckEscrow, ReconcileReleased,
       ReleaseStuck, LandRescue, DropRescue, RescueConfirmation, BookRescue, AbandonRescue,
       vars, dbVars, attemptVars

LEMMA ServicesSpareAttempts == ServiceMoves => UNCHANGED attemptVars
BY SweepSpares, WorkSpares, RescueSpares DEF ServiceMoves, vars, attemptVars

-----------------------------------------------------------------------------
(* The chain and the types.                                                 *)

RescueRecord ==
    [at: {"status", "reconcile", "release", "await", "book", "done"},
     invoice: Invoices, wallet: Payees, tx: {"none", "sent", "landed", "dropped"}]

LEMMA RescueTypes ==
    ASSUME RecoveryTypeOK, NEW r \in Rescues
    PROVE  /\ rescue[r] = NoRescue \/ rescue[r] \in RescueRecord
           /\ rescue[r].at # "read" => rescue[r] \in RescueRecord /\ rescue[r] # NoRescue
BY DEF RecoveryTypeOK, NoRescue, RescueRecord

LEMMA RecoveryChain ==
    ASSUME RecoveryTypeOK, Program!EscrowInv, [RecoveryNext]_recoveryAll
    PROVE  [Chain!EscrowNext]_chainVars /\ Program!EscrowInv'
<1>1. [Chain!EscrowNext]_chainVars
  <2>1. CASE UNCHANGED recoveryAll
      BY <2>1 DEF recoveryAll, vars
  <2>2. CASE EngineMoves
      BY <2>2, ChainStep DEF EngineMoves, RecoveryTypeOK
  <2>3. CASE ServiceMoves
    <3>1. ASSUME NEW r \in Rescues, LandRescue(r) PROVE Chain!EscrowNext
      <4>1. rescue[r] \in RescueRecord /\ Chain!Release(rescue[r].invoice, Treasury, rescue[r].wallet)
          BY <3>1, RescueTypes DEF LandRescue
      <4>2. rescue[r].invoice \in Invoices /\ rescue[r].wallet \in Payees
          BY <4>1 DEF RescueRecord
      <4>3. Treasury = [i \in Invoices |-> Treasury][rescue[r].invoice]
          BY <4>2
      <4>4. QED BY <4>1, <4>2 DEF Chain!EscrowNext
    <3>2. QED BY <2>3, <3>1, SweepSpares, WorkSpares, RescueSpares DEF ServiceMoves, vars
  <2>4. QED BY <2>1, <2>2, <2>3, RecoveryMoves
<1>2. QED BY <1>1, ProgramStep

(* A released escrow stays released.                                        *)
LEMMA RecoveryReleaseStays ==
    ASSUME RecoveryTypeOK, Program!EscrowInv, [RecoveryNext]_recoveryAll,
           NEW i \in Invoices, escrow[i].isReleased
    PROVE  escrow'[i].isReleased
BY RecoveryChain, ProgramStep

(* What a service may write into a row, and into an invoice.                *)
LEMMA ServiceBooks ==
    ASSUME TypeOK, ServiceMoves
    PROVE  \/ UNCHANGED dbVars
           \/ \E s \in Sweeps :
                 /\ BookSwept(s)
                 /\ payout' = [payout EXCEPT ![sweep[s].invoice] = [@ EXCEPT !.status = "CONFIRMED"]]
                 /\ invoice' = [invoice EXCEPT ![sweep[s].invoice] = "PAID"]
           \/ \E r \in Rescues :
                 /\ ReconcileReleased(r)
                 /\ payout' = [payout EXCEPT ![rescue[r].invoice] = [@ EXCEPT !.status = "CONFIRMED"]]
                 /\ invoice' = invoice
           \/ \E r \in Rescues :
                 /\ BookRescue(r)
                 /\ payout' = [payout EXCEPT ![rescue[r].invoice] = BookedRow(@, r)]
                 /\ invoice' = [invoice EXCEPT ![rescue[r].invoice] = "PAID"]
<1>1. ASSUME NEW s \in Sweeps, Sweep(s), ~BookSwept(s) PROVE UNCHANGED dbVars
    BY <1>1 DEF Sweep, SelectRow, ReadSweptRow, CheckSignature, QueueRetry, DropSweep, vars
<1>2. ASSUME NEW r \in Rescues, Rescue(r), ~ReconcileReleased(r), ~BookRescue(r)
      PROVE  UNCHANGED dbVars
    BY <1>2 DEF Rescue, ReadStuckRow, ReadStuckEscrow, ReleaseStuck, LandRescue, DropRescue,
                RescueConfirmation, AbandonRescue, vars
<1>3. \A w \in Workers : Work(w) => UNCHANGED dbVars
    BY WorkSpares DEF vars
<1>4. QED BY <1>1, <1>2, <1>3 DEF ServiceMoves, BookSwept, ReconcileReleased, BookRescue

LEMMA BookedTypes ==
    \A row \in PayoutRow, s \in Signatures :
        /\ BookedRow(row, s) \in PayoutRow
        /\ [row EXCEPT !.status = "CONFIRMED"] \in PayoutRow
BY DEF PayoutRow, PayoutStatus, BookedRow

LEMMA BooksTypeStep ==
    ASSUME RecoveryTypeOK, ServiceMoves
    PROVE  payout' \in [Invoices -> PayoutRow] /\ invoice' \in [Invoices -> InvoiceStatus]
<1>1. /\ TypeOK
      /\ payout \in [Invoices -> PayoutRow]
      /\ invoice \in [Invoices -> InvoiceStatus]
      /\ "PAID" \in InvoiceStatus
    BY DEF RecoveryTypeOK, TypeOK, InvoiceStatus
<1>2. CASE UNCHANGED dbVars
    BY <1>1, <1>2 DEF dbVars
<1>3. ASSUME NEW i \in Invoices,
             payout' = [payout EXCEPT ![i] = [@ EXCEPT !.status = "CONFIRMED"]]
      PROVE  payout' \in [Invoices -> PayoutRow]
  <2>1. payout[i] \in PayoutRow BY <1>1
  <2>2. [payout[i] EXCEPT !.status = "CONFIRMED"] \in PayoutRow
      BY <2>1, BookedTypes DEF PayoutRow, PayoutStatus
  <2>3. QED BY <1>1, <1>3, <2>2
<1>4. ASSUME NEW s \in Sweeps, BookSwept(s) PROVE sweep[s].invoice \in Invoices
    BY <1>4 DEF RecoveryTypeOK, BookSwept, NoSweep
<1>5. ASSUME NEW r \in Rescues, ReconcileReleased(r) \/ BookRescue(r)
      PROVE  rescue[r].invoice \in Invoices
    BY <1>5, RescueTypes DEF ReconcileReleased, BookRescue, RescueRecord
<1>6. ASSUME NEW r \in Rescues, BookRescue(r),
             payout' = [payout EXCEPT ![rescue[r].invoice] = BookedRow(@, r)]
      PROVE  payout' \in [Invoices -> PayoutRow]
  <2>1. payout[rescue[r].invoice] \in PayoutRow BY <1>1, <1>5, <1>6
  <2>2. r \in Signatures OBVIOUS
  <2>3. BookedRow(payout[rescue[r].invoice], r) \in PayoutRow
      BY <2>1, <2>2, BookedTypes
  <2>4. QED BY <1>1, <1>6, <2>3
<1>7. ASSUME NEW s \in Sweeps, BookSwept(s) PROVE
          payout' \in [Invoices -> PayoutRow] /\ invoice' \in [Invoices -> InvoiceStatus]
    BY <1>1, <1>3, <1>4, <1>7 DEF BookSwept
<1>8. ASSUME NEW r \in Rescues, ReconcileReleased(r) PROVE
          payout' \in [Invoices -> PayoutRow] /\ invoice' \in [Invoices -> InvoiceStatus]
    BY <1>1, <1>3, <1>5, <1>8 DEF ReconcileReleased
<1>9. ASSUME NEW r \in Rescues, BookRescue(r) PROVE
          payout' \in [Invoices -> PayoutRow] /\ invoice' \in [Invoices -> InvoiceStatus]
    BY <1>1, <1>5, <1>6, <1>9 DEF BookRescue
<1>10. QED BY <1>1, <1>2, <1>7, <1>8, <1>9, ServiceBooks

SweepRecord ==
    [at: {"read", "book", "queue"}, invoice: Invoices] \cup
    [at: {"check"}, invoice: Invoices, signature: Signatures]

LEMMA SweepTypeStep ==
    ASSUME RecoveryTypeOK, NEW s \in Sweeps, Sweep(s)
    PROVE  /\ sweep' \in [Sweeps -> {NoSweep} \cup SweepRecord]
           /\ job' \in [Invoices -> [status: JobStatus, attempts: Nat]]
<1>1. sweep[s].at # "idle" => sweep[s].invoice \in Invoices
    BY DEF RecoveryTypeOK, NoSweep
<1>2. CASE \E i \in Invoices : SelectRow(s, i)
    BY <1>2 DEF SelectRow, Sweeping, RecoveryTypeOK, SweepRecord
<1>3. CASE ReadSweptRow(s)
  <2> DEFINE i == sweep[s].invoice
  <2>1. i \in Invoices /\ payout[i] \in PayoutRow
      BY <1>1, <1>3 DEF ReadSweptRow, RecoveryTypeOK, TypeOK
  <2>2. payout[i].txSignature # None => payout[i].txSignature \in Signatures
      BY <2>1 DEF PayoutRow
  <2>3. CASE payout[i].txSignature # None
    <3>1. sweep' = [sweep EXCEPT ![s] =
                       [at |-> "check", invoice |-> i, signature |-> payout[i].txSignature]]
        BY <1>3, <2>3 DEF ReadSweptRow, Sweeping
    <3>2. [at |-> "check", invoice |-> i, signature |-> payout[i].txSignature] \in SweepRecord
        BY <2>1, <2>2, <2>3 DEF SweepRecord
    <3>3. QED BY <1>3, <3>1, <3>2 DEF ReadSweptRow, RecoveryTypeOK, SweepRecord
  <2>4. CASE payout[i].txSignature = None
    <3>1. sweep' = [sweep EXCEPT ![s] = [at |-> "queue", invoice |-> i]]
        BY <1>3, <2>4 DEF ReadSweptRow, Sweeping
    <3>2. [at |-> "queue", invoice |-> i] \in SweepRecord
        BY <2>1 DEF SweepRecord
    <3>3. QED BY <1>3, <3>1, <3>2 DEF ReadSweptRow, RecoveryTypeOK, SweepRecord
  <2>5. QED BY <2>3, <2>4
<1>4. CASE CheckSignature(s)
  <2>1. \E next \in SweepRecord : sweep' = [sweep EXCEPT ![s] = next]
      BY <1>1, <1>4 DEF CheckSignature, Sweeping, SweepRecord
  <2>2. QED BY <1>4, <2>1 DEF CheckSignature, RecoveryTypeOK, SweepRecord
<1>5. CASE BookSwept(s) \/ DropSweep(s)
    BY <1>5 DEF BookSwept, DropSweep, Sweeping, RecoveryTypeOK, SweepRecord
<1>6. CASE QueueRetry(s)
  <2>1. sweep[s].invoice \in Invoices BY <1>1, <1>6 DEF QueueRetry
  <2>2. [job[sweep[s].invoice] EXCEPT !.status = "PENDING_RETRY"] \in
            [status: JobStatus, attempts: Nat]
      BY <2>1 DEF RecoveryTypeOK, JobStatus
  <2>3. job' = [job EXCEPT ![sweep[s].invoice] = [@ EXCEPT !.status = "PENDING_RETRY"]]
      BY <1>6 DEF QueueRetry
  <2>4. job' \in [Invoices -> [status: JobStatus, attempts: Nat]]
      BY <2>1, <2>2, <2>3 DEF RecoveryTypeOK
  <2>5. QED BY <1>6, <2>4 DEF QueueRetry, Sweeping, RecoveryTypeOK, SweepRecord
<1>7. QED BY <1>2, <1>3, <1>4, <1>5, <1>6 DEF Sweep

WorkRecord ==
    [at: {"readRow"}, invoice: Invoices, attempts: Nat] \cup
    [at: {"run"}, invoice: Invoices, attempts: Nat, attempt: Attempts]

LEMMA WorkTypes ==
    ASSUME RecoveryTypeOK, NEW w \in Workers, worker[w].at # "idle"
    PROVE  worker[w].invoice \in Invoices /\ worker[w].attempts \in Nat
BY DEF RecoveryTypeOK, NoWork

LEMMA WorkTypeStep ==
    ASSUME RecoveryTypeOK, NEW w \in Workers, Work(w)
    PROVE  /\ worker' \in [Workers -> {NoWork} \cup WorkRecord]
           /\ job' \in [Invoices -> [status: JobStatus, attempts: Nat]]
<1>1. CASE \E i \in Invoices : TakeJob(w, i)
    BY <1>1 DEF TakeJob, Working, RecoveryTypeOK, WorkRecord
<1>2. CASE \E a \in Attempts : StartRetry(w, a)
  <2>1. \E next \in WorkRecord : worker' = [worker EXCEPT ![w] = next]
      BY <1>2, WorkTypes DEF StartRetry, Working, WorkRecord
  <2>2. QED BY <1>2, <2>1 DEF StartRetry, RecoveryTypeOK, WorkRecord
<1>3. CASE ResolveJob(w)
  <2>1. worker[w].invoice \in Invoices
      BY <1>3, WorkTypes DEF ResolveJob, WorkRecord
  <2>2. job' = [job EXCEPT ![worker[w].invoice].status = "RESOLVED"]
      BY <1>3 DEF ResolveJob
  <2>3. job' \in [Invoices -> [status: JobStatus, attempts: Nat]]
      BY <2>1, <2>2 DEF RecoveryTypeOK, JobStatus
  <2>4. QED BY <1>3, <2>3 DEF ResolveJob, Working, RecoveryTypeOK, WorkRecord
<1>4. CASE FailJob(w)
  <2>1. worker[w].invoice \in Invoices /\ worker[w].attempts + 1 \in Nat
      BY <1>4, WorkTypes DEF FailJob
  <2>2. \E status \in JobStatus : job' = [job EXCEPT ![worker[w].invoice] =
                                          [status |-> status, attempts |-> worker[w].attempts + 1]]
    <3>1. PICK transient \in BOOLEAN :
              job' = [job EXCEPT ![worker[w].invoice] =
                         [status |-> IF worker[w].attempts + 1 >= MaxAttempts \/ ~transient
                                     THEN "PERMANENT_FAILURE" ELSE "PENDING_RETRY",
                          attempts |-> worker[w].attempts + 1]]
        BY <1>4 DEF FailJob
    <3>2. QED BY <3>1 DEF JobStatus
  <2>3. QED BY <1>4, <2>1, <2>2 DEF FailJob, Working, RecoveryTypeOK, WorkRecord
<1>5. CASE DropWorker(w)
    BY <1>5 DEF DropWorker, Working, RecoveryTypeOK, WorkRecord
<1>6. QED BY <1>1, <1>2, <1>3, <1>4, <1>5 DEF Work

(* A payout row that exists names the contractor's wallet, and the services *)
(* work on rows that exist.                                                 *)
RowsExist ==
    /\ \A i \in Invoices : payout[i].status # "NONE" => payout[i].wallet \in Payees
    /\ \A s \in Sweeps : sweep[s].at # "idle" => payout[sweep[s].invoice].status # "NONE"
    /\ \A r \in Rescues : rescue[r].at # "read" => payout[rescue[r].invoice].status # "NONE"

LEMMA RescueTypeStep ==
    ASSUME RecoveryTypeOK, RowsExist, NEW r \in Rescues, Rescue(r)
    PROVE  rescue' \in [Rescues -> {NoRescue} \cup RescueRecord]
<1>1. rescue \in [Rescues -> {NoRescue} \cup RescueRecord]
    BY DEF RecoveryTypeOK, RescueRecord
<1>2. ASSUME NEW next \in RescueRecord, rescue' = [rescue EXCEPT ![r] = next]
      PROVE  rescue' \in [Rescues -> {NoRescue} \cup RescueRecord]
    BY <1>1, <1>2
<1>3. CASE \E i \in Invoices : ReadStuckRow(r, i)
    BY <1>2, <1>3 DEF ReadStuckRow, Rescuing, RowsExist, RescueRecord
<1>4. \A record \in RescueRecord :
          /\ \A at \in {"reconcile", "release", "book", "done"} :
                 [record EXCEPT !.at = at] \in RescueRecord
          /\ \A tx1 \in {"landed", "dropped"} : [record EXCEPT !.tx = tx1] \in RescueRecord
          /\ [record EXCEPT !.at = "await", !.tx = "sent"] \in RescueRecord
    BY DEF RescueRecord
<1>5. CASE \/ ReadStuckEscrow(r) \/ ReconcileReleased(r) \/ RescueConfirmation(r)
           \/ BookRescue(r) \/ AbandonRescue(r)
  <2>1. rescue[r] \in RescueRecord
      BY <1>5, RescueTypes DEF ReadStuckEscrow, ReconcileReleased, RescueConfirmation,
                               BookRescue, AbandonRescue
  <2>2. \E at \in {"reconcile", "release", "book", "done"} :
            rescue' = [rescue EXCEPT ![r] = [rescue[r] EXCEPT !.at = at]]
      BY <1>5 DEF ReadStuckEscrow, ReconcileReleased, RescueConfirmation, BookRescue,
                  AbandonRescue, RescueAt, Rescuing
  <2>3. QED BY <1>2, <1>4, <2>1, <2>2
<1>6. CASE ReleaseStuck(r)
  <2>1. rescue[r] \in RescueRecord
      BY <1>6, RescueTypes DEF ReleaseStuck
  <2>2. \/ rescue' = [rescue EXCEPT ![r] = [rescue[r] EXCEPT !.at = "await", !.tx = "sent"]]
        \/ rescue' = [rescue EXCEPT ![r] = [rescue[r] EXCEPT !.at = "done"]]
      BY <1>6 DEF ReleaseStuck, RescueAt, Rescuing
  <2>3. QED BY <1>2, <1>4, <2>1, <2>2
<1>7. CASE LandRescue(r) \/ DropRescue(r)
  <2>1. rescue[r] \in RescueRecord
      BY <1>7, RescueTypes DEF LandRescue, DropRescue
  <2>2. \E state \in {"landed", "dropped"} :
            rescue' = [rescue EXCEPT ![r] = [rescue[r] EXCEPT !.tx = state]]
      BY <1>7 DEF LandRescue, DropRescue, Rescuing
  <2>3. QED BY <1>2, <1>4, <2>1, <2>2
<1>8. QED BY <1>3, <1>5, <1>6, <1>7 DEF Rescue

LEMMA RecoveryTypeStep ==
    ASSUME RecoveryTypeOK, Program!EscrowInv, RowsExist, [RecoveryNext]_recoveryAll
    PROVE  RecoveryTypeOK'
<1>1. CASE UNCHANGED recoveryAll
  <2>1. Chain!EscrowTypeOK' BY RecoveryChain, SameInvariant DEF ChainInvariants
  <2>2. QED
      BY <1>1, <2>1 DEF recoveryAll, recoveryVars, vars, dbVars, historyVars, RecoveryTypeOK, TypeOK
<1>2. CASE EngineMoves
  <2>1. TypeOK' BY <1>2, TypeStep DEF EngineMoves, RecoveryTypeOK
  <2>2. answered' \subseteq Attempts BY <1>2 DEF EngineMoves, RecoveryTypeOK
  <2>3. QED BY <1>2, <2>1, <2>2 DEF EngineMoves, RecoveryTypeOK
<1>3. CASE ServiceMoves
  <2>1. TypeOK'
    <3>1. Chain!EscrowTypeOK' BY RecoveryChain, SameInvariant DEF ChainInvariants
    <3>2. UNCHANGED attemptVars BY <1>3, ServicesSpareAttempts
    <3>3. QED
        BY <1>3, <3>1, <3>2, BooksTypeStep DEF RecoveryTypeOK, TypeOK, attemptVars, historyVars
  <2>2. ASSUME NEW s \in Sweeps, Sweep(s) PROVE RecoveryTypeOK'
      BY <2>1, <2>2, SweepTypeStep, SweepSpares DEF RecoveryTypeOK, SweepRecord
  <2>3. ASSUME NEW w \in Workers, Work(w) PROVE RecoveryTypeOK'
      BY <2>1, <2>3, WorkTypeStep, WorkSpares DEF RecoveryTypeOK, WorkRecord
  <2>4. ASSUME NEW r \in Rescues, Rescue(r) PROVE RecoveryTypeOK'
      BY <2>1, <2>4, RescueTypeStep, RescueSpares DEF RecoveryTypeOK, RescueRecord
  <2>5. QED BY <1>3, <2>2, <2>3, <2>4 DEF ServiceMoves
<1>4. QED BY <1>1, <1>2, <1>3, RecoveryMoves

-----------------------------------------------------------------------------
(* The invariant.                                                           *)

SignatureOf(s, i) ==
    \/ s \in Attempts /\ call[s].invoice = i /\ tx[s] = Released
    \/ s \in Rescues /\ rescue[s] # NoRescue /\ rescue[s].invoice = i

(* The signature a row names, and one a sweep looks up, is a transaction of *)
(* that very invoice: an attempt's landed release, or a rescue's.           *)
NamesInvoice ==
    /\ \A i \in Invoices : payout[i].txSignature # None => SignatureOf(payout[i].txSignature, i)
    /\ \A s \in Sweeps : sweep[s].at = "check" =>
           SignatureOf(sweep[s].signature, sweep[s].invoice)

RescueReleased(r) ==
    rescue[r] # NoRescue /\ (rescue[r].tx = "landed" \/ rescue[r].at \in {"reconcile", "book"})

(* Whoever is about to book a payout, and whoever has answered with one or  *)
(* has resolved its job, does so for a released escrow.                     *)
RecoveryReleases ==
    /\ \A s \in Sweeps : sweep[s].at = "book" => escrow[sweep[s].invoice].isReleased
    /\ \A r \in Rescues : RescueReleased(r) => escrow[rescue[r].invoice].isReleased
    /\ \A a \in answered : escrow[call[a].invoice].isReleased
    /\ \A w \in Workers : worker[w].at = "run" =>
           call[worker[w].attempt].invoice = worker[w].invoice
    /\ \A i \in Invoices : job[i].status = "RESOLVED" => escrow[i].isReleased

ReleasesAreOne == \A i \in Invoices : \A x, y \in ReleasedBy(i) : x = y

(* A rescue sends once, and not before it has seen the escrow unreleased.   *)
RescuePositions ==
    \A r \in Rescues : rescue[r].at \in {"status", "reconcile", "release"} => rescue[r].tx = "none"

(* What a call that found a CONFIRMED row can still do: the row is there,   *)
(* so it cannot make it, and only a row found FAILED is claimed again.      *)
Retried ==
    \A a \in Attempts :
        /\ pc[a] = "lookup" => tx[a].op = "none"
        /\ seen[a] = "CONFIRMED" =>
               /\ tx[a].op = "none" /\ pc[a] \notin Claimed
               /\ payout[call[a].invoice].status # "NONE"

RecoveryInv ==
    /\ RecoveryTypeOK /\ Program!EscrowInv
    /\ Positions /\ RescuePositions /\ Releases /\ Claims
    /\ RowsExist /\ NamesInvoice /\ RecoveryReleases
    /\ ReleasesAreOne /\ Retried /\ Money

(* What a service does to one row it does for a released escrow.            *)
LEMMA ServiceRow ==
    ASSUME RecoveryTypeOK, RowsExist, RecoveryReleases, ServiceMoves, NEW i \in Invoices,
           payout'[i] # payout[i] \/ invoice'[i] # invoice[i]
    PROVE  /\ escrow[i].isReleased /\ payout[i].status # "NONE"
           /\ \/ payout'[i] = payout[i]
              \/ payout'[i] = [payout[i] EXCEPT !.status = "CONFIRMED"]
              \/ \E r \in Rescues : /\ rescue[r].at = "book" /\ rescue[r].invoice = i
                                    /\ payout'[i] = BookedRow(payout[i], r)
<1>1. /\ TypeOK
      /\ payout \in [Invoices -> PayoutRow]
      /\ invoice \in [Invoices -> InvoiceStatus]
    BY DEF RecoveryTypeOK, TypeOK
<1>2. ASSUME NEW s \in Sweeps, BookSwept(s),
             payout' = [payout EXCEPT ![sweep[s].invoice] = [@ EXCEPT !.status = "CONFIRMED"]],
             invoice' = [invoice EXCEPT ![sweep[s].invoice] = "PAID"]
      PROVE  /\ escrow[i].isReleased /\ payout[i].status # "NONE"
             /\ payout'[i] = [payout[i] EXCEPT !.status = "CONFIRMED"]
  <2>1. sweep[s].invoice = i BY <1>1, <1>2
  <2>2. sweep[s].at = "book" BY <1>2 DEF BookSwept
  <2>3. QED BY <1>1, <1>2, <2>1, <2>2 DEF RecoveryReleases, RowsExist
<1>3. ASSUME NEW r \in Rescues, ReconcileReleased(r),
             payout' = [payout EXCEPT ![rescue[r].invoice] = [@ EXCEPT !.status = "CONFIRMED"]],
             invoice' = invoice
      PROVE  /\ escrow[i].isReleased /\ payout[i].status # "NONE"
             /\ payout'[i] = [payout[i] EXCEPT !.status = "CONFIRMED"]
  <2>1. rescue[r].invoice = i BY <1>1, <1>3
  <2>2. RescueReleased(r) /\ rescue[r].at # "read"
      BY <1>3, RescueTypes DEF ReconcileReleased, RescueReleased
  <2>3. QED BY <1>1, <1>3, <2>1, <2>2 DEF RecoveryReleases, RowsExist
<1>4. ASSUME NEW r \in Rescues, BookRescue(r),
             payout' = [payout EXCEPT ![rescue[r].invoice] = BookedRow(@, r)],
             invoice' = [invoice EXCEPT ![rescue[r].invoice] = "PAID"]
      PROVE  /\ escrow[i].isReleased /\ payout[i].status # "NONE"
             /\ rescue[r].at = "book" /\ rescue[r].invoice = i
             /\ payout'[i] = BookedRow(payout[i], r)
  <2>1. rescue[r].invoice = i BY <1>1, <1>4
  <2>2. RescueReleased(r) /\ rescue[r].at = "book"
      BY <1>4, RescueTypes DEF BookRescue, RescueReleased
  <2>3. QED BY <1>1, <1>4, <2>1, <2>2 DEF RecoveryReleases, RowsExist
<1>5. ~UNCHANGED dbVars BY DEF dbVars
<1>6. QED BY <1>1, <1>2, <1>3, <1>4, <1>5, ServiceBooks

(* A rescue stays with the invoice it read.                                 *)
LEMMA RescueKeeps ==
    ASSUME RecoveryTypeOK, RescuePositions, [RecoveryNext]_recoveryAll, NEW q \in Rescues, rescue[q] # NoRescue
    PROVE  /\ rescue'[q] # NoRescue /\ rescue'[q].invoice = rescue[q].invoice
           /\ rescue[q].tx = "landed" => rescue'[q].tx = "landed"
<1> DEFINE Goal == /\ rescue'[q] # NoRescue /\ rescue'[q].invoice = rescue[q].invoice
                   /\ rescue[q].tx = "landed" => rescue'[q].tx = "landed"
<1>1. rescue[q] \in RescueRecord BY RescueTypes
<1>2. CASE rescue' = rescue
    BY <1>2
<1>3. ASSUME NEW r \in Rescues, Rescue(r) PROVE Goal
  <2>1. CASE r # q
    <3>1. \E next : rescue' = [rescue EXCEPT ![r] = next]
        BY <1>3 DEF Rescue, ReadStuckRow, ReadStuckEscrow, ReconcileReleased, ReleaseStuck,
                    LandRescue, DropRescue, RescueConfirmation, BookRescue, AbandonRescue,
                    RescueAt, Rescuing
    <3>2. QED BY <2>1, <3>1 DEF RecoveryTypeOK
  <2>2. CASE r = q
    <3>1. \/ \E at \in {"reconcile", "release", "book", "done"} :
                 rescue' = [rescue EXCEPT ![q] = [rescue[q] EXCEPT !.at = at]]
          \/ rescue' = [rescue EXCEPT ![q] = [rescue[q] EXCEPT !.at = "await", !.tx = "sent"]]
             /\ rescue[q].at = "release"
          \/ \E state \in {"landed", "dropped"} :
                 rescue' = [rescue EXCEPT ![q] = [rescue[q] EXCEPT !.tx = state]]
                 /\ rescue[q].tx = "sent"
        BY <1>3, <2>2
           DEF Rescue, ReadStuckRow, ReadStuckEscrow, ReconcileReleased, ReleaseStuck,
               LandRescue, DropRescue, RescueConfirmation, BookRescue, AbandonRescue,
               RescueAt, Rescuing
    <3>2. \/ \E at \in {"reconcile", "release", "book", "done"} :
                 rescue'[q] = [rescue[q] EXCEPT !.at = at]
          \/ rescue'[q] = [rescue[q] EXCEPT !.at = "await", !.tx = "sent"]
             /\ rescue[q].tx = "none"
          \/ \E state \in {"landed", "dropped"} :
                 rescue'[q] = [rescue[q] EXCEPT !.tx = state] /\ rescue[q].tx = "sent"
        BY <3>1 DEF RecoveryTypeOK, RescuePositions
    <3>3. rescue'[q].at # "read"
        BY <1>1, <3>2 DEF RescueRecord
    <3>4. /\ rescue'[q].invoice = rescue[q].invoice
          /\ rescue[q].tx = "landed" => rescue'[q].tx = "landed"
        BY <1>1, <3>2 DEF RescueRecord
    <3>5. QED BY <3>3, <3>4 DEF NoRescue
  <2>3. QED BY <2>1, <2>2
<1>4. QED
    BY <1>2, <1>3, RecoveryMoves, SweepSpares, WorkSpares
       DEF EngineMoves, ServiceMoves, recoveryAll, recoveryVars

LEMMA RecoveryCallsFixed == [RecoveryNext]_recoveryAll => call' = call
BY RecoveryMoves, ServicesSpareAttempts, CallsFixed
   DEF EngineMoves, attemptVars, recoveryAll, vars

LEMMA RecoveryWinnerStays ==
    ASSUME RecoveryTypeOK, Positions, [RecoveryNext]_recoveryAll,
           NEW a \in Attempts, tx[a] = Released
    PROVE  tx'[a] = Released
<1>1. CASE EngineMoves
    BY <1>1, WinnerStays DEF EngineMoves, RecoveryTypeOK
<1>2. CASE tx' = tx
    BY <1>2
<1>3. QED
    BY <1>1, <1>2, RecoveryMoves, ServicesSpareAttempts DEF attemptVars, recoveryAll, vars

SignatureOfNext(s, i) ==
    \/ s \in Attempts /\ call'[s].invoice = i /\ tx'[s] = Released
    \/ s \in Rescues /\ rescue'[s] # NoRescue /\ rescue'[s].invoice = i

LEMMA SignatureStays ==
    ASSUME RecoveryTypeOK, Positions, RescuePositions, [RecoveryNext]_recoveryAll
    PROVE  \A s, i : SignatureOf(s, i) => SignatureOfNext(s, i)
BY RecoveryCallsFixed, RecoveryWinnerStays, RescueKeeps DEF SignatureOf, SignatureOfNext

-----------------------------------------------------------------------------
(* The steps of the invariant.                                              *)

LEMMA RecoveryPositionStep ==
    RecoveryTypeOK /\ Positions /\ [RecoveryNext]_recoveryAll => Positions'
<1> SUFFICES ASSUME RecoveryTypeOK, Positions, [RecoveryNext]_recoveryAll PROVE Positions'
    OBVIOUS
<1>1. CASE EngineMoves
    BY <1>1, PositionStep DEF EngineMoves, RecoveryTypeOK
<1>2. CASE UNCHANGED <<pc, tx>>
    BY <1>2 DEF Positions
<1>3. QED
    BY <1>1, <1>2, RecoveryMoves, ServicesSpareAttempts DEF attemptVars, recoveryAll, vars

LEMMA RescuePositionStep ==
    RecoveryTypeOK /\ RescuePositions /\ [RecoveryNext]_recoveryAll => RescuePositions'
<1> SUFFICES ASSUME RecoveryTypeOK, RescuePositions, [RecoveryNext]_recoveryAll,
                    NEW q \in Rescues, rescue'[q].at \in {"status", "reconcile", "release"}
             PROVE  rescue'[q].tx = "none"
    BY DEF RescuePositions
<1>1. CASE rescue' = rescue
    BY <1>1 DEF RescuePositions
<1>2. ASSUME NEW r \in Rescues, Rescue(r) PROVE rescue'[q].tx = "none"
  <2>1. CASE r # q
    <3>1. \E next : rescue' = [rescue EXCEPT ![r] = next]
        BY <1>2 DEF Rescue, ReadStuckRow, ReadStuckEscrow, ReconcileReleased, ReleaseStuck,
                    LandRescue, DropRescue, RescueConfirmation, BookRescue, AbandonRescue,
                    RescueAt, Rescuing
    <3>2. QED BY <2>1, <3>1 DEF RecoveryTypeOK, RescuePositions
  <2>2. CASE r = q
    <3>1. CASE \E i \in Invoices : ReadStuckRow(q, i)
        BY <3>1 DEF ReadStuckRow, Rescuing, RecoveryTypeOK
    <3>2. CASE ReadStuckEscrow(q)
      <4>1. rescue[q] \in RescueRecord /\ rescue[q].tx = "none"
          BY <3>2, RescueTypes DEF ReadStuckEscrow, RescuePositions
      <4>2. rescue'[q].tx = rescue[q].tx
          BY <3>2, <4>1 DEF ReadStuckEscrow, RescueAt, Rescuing, RecoveryTypeOK, RescueRecord
      <4>3. QED BY <4>1, <4>2
    <3>3. CASE ReconcileReleased(q) \/ ReleaseStuck(q) \/ RescueConfirmation(q)
               \/ BookRescue(q) \/ AbandonRescue(q)
      <4>1. rescue[q] \in RescueRecord
          BY <3>3, RescueTypes DEF ReconcileReleased, ReleaseStuck, RescueConfirmation,
                                   BookRescue, AbandonRescue
      <4>2. rescue'[q].at \in {"done", "await", "book"}
        <5>1. \/ \E at \in {"done", "book"} : rescue'[q] = [rescue[q] EXCEPT !.at = at]
              \/ rescue'[q] = [rescue[q] EXCEPT !.at = "await", !.tx = "sent"]
            BY <3>3 DEF ReconcileReleased, ReleaseStuck, RescueConfirmation, BookRescue,
                        AbandonRescue, RescueAt, Rescuing, RecoveryTypeOK
        <5>2. QED BY <4>1, <5>1 DEF RescueRecord
      <4>3. QED BY <4>2
    <3>4. CASE LandRescue(q) \/ DropRescue(q)
      <4>1. rescue[q] \in RescueRecord /\ rescue[q].tx = "sent"
          BY <3>4, RescueTypes DEF LandRescue, DropRescue
      <4>2. rescue'[q].at = rescue[q].at
          BY <3>4, <4>1 DEF LandRescue, DropRescue, Rescuing, RecoveryTypeOK, RescueRecord
      <4>3. QED BY <4>1, <4>2 DEF RescuePositions
    <3>5. QED BY <1>2, <2>2, <3>1, <3>2, <3>3, <3>4 DEF Rescue
  <2>3. QED BY <2>1, <2>2
<1>3. QED
    BY <1>1, <1>2, RecoveryMoves, SweepSpares, WorkSpares
       DEF EngineMoves, ServiceMoves, recoveryAll, recoveryVars

LEMMA BookedReleaseStep ==
    RecoveryTypeOK /\ Program!EscrowInv /\ Positions /\ RowsExist /\ Releases
        /\ RecoveryReleases /\ [RecoveryNext]_recoveryAll => Releases'
<1> SUFFICES ASSUME RecoveryTypeOK, Program!EscrowInv, Positions, RowsExist, Releases,
                    RecoveryReleases, [RecoveryNext]_recoveryAll
             PROVE  Releases'
    OBVIOUS
<1>1. CASE EngineMoves
    BY <1>1, ReleasesStep DEF EngineMoves, RecoveryTypeOK
<1>2. CASE UNCHANGED recoveryAll
    BY <1>2 DEF recoveryAll, vars, chainVars, dbVars, Releases, Released
<1>3. CASE ServiceMoves
  <2>1. \A i \in Invoices : escrow[i].isReleased => escrow'[i].isReleased
      BY RecoveryReleaseStays
  <2>2. UNCHANGED <<pc, tx, call>> /\ \A a \in Attempts : call[a].invoice \in Invoices
      BY <1>3, ServicesSpareAttempts DEF attemptVars, RecoveryTypeOK, TypeOK, Call
  <2>3. QED BY <1>3, <2>1, <2>2, ServiceRow DEF Releases, Released
<1>4. QED BY <1>1, <1>2, <1>3, RecoveryMoves

(* What any step leaves in a row it changes.                                *)
LEMMA RowStep ==
    ASSUME RecoveryTypeOK, Positions, Claims, RowsExist, RecoveryReleases,
           [RecoveryNext]_recoveryAll, NEW i \in Invoices, payout'[i] # payout[i]
    PROVE  /\ payout'[i].status # "NONE" /\ payout'[i].wallet \in Payees
           /\ \/ payout'[i].txSignature \in {payout[i].txSignature, None}
              \/ \E a \in Attempts : /\ payout'[i].txSignature = a
                                     /\ call[a].invoice = i /\ tx[a] = Released
              \/ \E r \in Rescues : /\ payout'[i].txSignature = r
                                    /\ rescue[r].at = "book" /\ rescue[r].invoice = i
<1>1. payout[i] \in PayoutRow /\ TypeOK
    BY DEF RecoveryTypeOK, TypeOK
<1>2. CASE EngineMoves
  <2>1. PICK a \in Attempts :
              /\ call[a].invoice = i
              /\ \/ payout'[i] = ClaimedRow(a)
                 \/ SavePda(a) /\ payout'[i] = [payout[i] EXCEPT !.escrowPda = TRUE]
                 \/ MarkFailed(a) /\ payout'[i] = [payout[i] EXCEPT !.status = "FAILED"]
                 \/ Confirm(a) /\ payout'[i] = BookedRow(payout[i], a)
      BY <1>1, <1>2, RowChanges DEF EngineMoves
  <2>2. CASE payout'[i] = ClaimedRow(a)
      BY <1>1, <2>2 DEF ClaimedRow, TypeOK, Call
  <2>3. CASE ~ (payout'[i] = ClaimedRow(a))
    <3>1. payout[i].status # "NONE" /\ payout[i].wallet \in Payees
        BY <2>1, <2>3 DEF SavePda, MarkFailed, Confirm, Holds, Claimed, Claims, RowsExist
    <3>2. Confirm(a) => tx[a] = Released BY DEF Confirm, Positions
    <3>3. QED BY <1>1, <2>1, <2>3, <3>1, <3>2 DEF BookedRow, PayoutRow
  <2>4. QED BY <2>2, <2>3
<1>3. CASE ServiceMoves
  <2>1. payout[i].status # "NONE" /\ payout[i].wallet \in Payees
      BY <1>3, ServiceRow DEF RowsExist
  <2>2. CASE payout'[i] = [payout[i] EXCEPT !.status = "CONFIRMED"]
      BY <1>1, <2>1, <2>2 DEF PayoutRow
  <2>3. ASSUME NEW r \in Rescues, payout'[i] = BookedRow(payout[i], r)
        PROVE  payout'[i].status = "CONFIRMED" /\ payout'[i].wallet \in Payees
                   /\ payout'[i].txSignature = r
      BY <1>1, <2>1, <2>3 DEF BookedRow, PayoutRow
  <2>4. QED BY <1>3, <2>2, <2>3, ServiceRow
<1>4. QED BY <1>2, <1>3, RecoveryMoves DEF recoveryAll, vars, dbVars

LEMMA SweepChanges ==
    ASSUME RecoveryTypeOK, [RecoveryNext]_recoveryAll, NEW s \in Sweeps, sweep'[s] # sweep[s]
    PROVE  /\ payout' = payout \/ sweep'[s].at = "idle"
           /\ \/ sweep'[s].at = "idle"
              \/ /\ sweep'[s].at = "read" /\ sweep'[s].invoice \in Invoices
                 /\ payout[sweep'[s].invoice].status # "NONE"
              \/ /\ sweep[s].at = "read"
                 /\ payout[sweep[s].invoice].txSignature # None
                 /\ sweep'[s].at = "check" /\ sweep'[s].invoice = sweep[s].invoice
                 /\ sweep'[s].signature = payout[sweep[s].invoice].txSignature
              \/ /\ sweep[s].at \in {"read", "check"}
                 /\ sweep'[s].at = "queue" /\ sweep'[s].invoice = sweep[s].invoice
              \/ /\ sweep[s].at = "check" /\ Landed(sweep[s].signature)
                 /\ sweep'[s].at = "book" /\ sweep'[s].invoice = sweep[s].invoice
<1>1. PICK t \in Sweeps : Sweep(t)
    BY RecoveryMoves, WorkSpares, RescueSpares DEF EngineMoves, ServiceMoves, recoveryAll, recoveryVars
<1>2. t = s
  <2>1. \E next : sweep' = [sweep EXCEPT ![t] = next]
      BY <1>1 DEF Sweep, SelectRow, ReadSweptRow, CheckSignature, BookSwept, QueueRetry,
                  DropSweep, Sweeping
  <2>2. QED BY <2>1 DEF RecoveryTypeOK
<1>3. CASE \E i \in Invoices : SelectRow(s, i)
    BY <1>3 DEF SelectRow, Sweeping, RecoveryTypeOK, vars, dbVars
<1>4. CASE ReadSweptRow(s)
    BY <1>4 DEF ReadSweptRow, Sweeping, RecoveryTypeOK, vars, dbVars
<1>5. CASE CheckSignature(s)
    BY <1>5 DEF CheckSignature, Sweeping, RecoveryTypeOK, vars, dbVars
<1>6. CASE BookSwept(s) \/ QueueRetry(s) \/ DropSweep(s)
    BY <1>6 DEF BookSwept, QueueRetry, DropSweep, Sweeping, RecoveryTypeOK, NoSweep
<1>7. QED BY <1>1, <1>2, <1>3, <1>4, <1>5, <1>6 DEF Sweep

LEMMA RescueChanges ==
    ASSUME RecoveryTypeOK, [RecoveryNext]_recoveryAll, NEW q \in Rescues, rescue'[q] # rescue[q]
    PROVE  \/ /\ rescue[q] = NoRescue /\ payout' = payout
              /\ rescue'[q].invoice \in Invoices
              /\ payout[rescue'[q].invoice].status # "NONE"
              /\ rescue'[q].at = "status" /\ rescue'[q].tx = "none"
           \/ /\ rescue[q] \in RescueRecord /\ rescue'[q] \in RescueRecord
              /\ rescue'[q].invoice = rescue[q].invoice
              /\ \/ rescue'[q].tx = rescue[q].tx
                 \/ rescue'[q].tx \in {"sent", "dropped"}
                 \/ rescue'[q].tx = "landed" /\ LandRescue(q)
              /\ \/ rescue'[q].at = rescue[q].at
                 \/ rescue'[q].at \in {"done", "release", "await"}
                 \/ rescue'[q].at = "reconcile" /\ escrow[rescue[q].invoice].isReleased
                 \/ rescue'[q].at = "book" /\ rescue[q].tx = "landed"
<1>1. PICK r \in Rescues : Rescue(r)
    BY RecoveryMoves, SweepSpares, WorkSpares DEF EngineMoves, ServiceMoves, recoveryAll, recoveryVars
<1>2. r = q
  <2>1. \E next : rescue' = [rescue EXCEPT ![r] = next]
      BY <1>1 DEF Rescue, ReadStuckRow, ReadStuckEscrow, ReconcileReleased, ReleaseStuck,
                  LandRescue, DropRescue, RescueConfirmation, BookRescue, AbandonRescue,
                  RescueAt, Rescuing
  <2>2. QED BY <2>1 DEF RecoveryTypeOK
<1>3. CASE \E i \in Invoices : ReadStuckRow(q, i)
    BY <1>3 DEF ReadStuckRow, Rescuing, RecoveryTypeOK, vars, dbVars
<1>4. CASE ~ \E i \in Invoices : ReadStuckRow(q, i)
  <2>1. rescue[q] \in RescueRecord
      BY <1>1, <1>2, <1>4, RescueTypes
         DEF Rescue, ReadStuckEscrow, ReconcileReleased, ReleaseStuck, LandRescue, DropRescue,
             RescueConfirmation, BookRescue, AbandonRescue
  <2>2. \/ \E at \in {"done", "release", "reconcile", "book"} :
              /\ rescue'[q] = [rescue[q] EXCEPT !.at = at]
              /\ at = "reconcile" => escrow[rescue[q].invoice].isReleased
              /\ at = "book" => rescue[q].tx = "landed"
        \/ rescue'[q] = [rescue[q] EXCEPT !.at = "await", !.tx = "sent"]
        \/ rescue'[q] = [rescue[q] EXCEPT !.tx = "landed"] /\ LandRescue(q)
        \/ rescue'[q] = [rescue[q] EXCEPT !.tx = "dropped"]
    <3>1. CASE ReadStuckEscrow(q)
        BY <3>1 DEF ReadStuckEscrow, AlreadyReleased, RescueAt, Rescuing, RecoveryTypeOK
    <3>2. CASE ReconcileReleased(q) \/ ReleaseStuck(q) \/ BookRescue(q) \/ AbandonRescue(q)
        BY <3>2 DEF ReconcileReleased, ReleaseStuck, BookRescue, AbandonRescue, RescueAt,
                    Rescuing, RecoveryTypeOK
    <3>3. CASE RescueConfirmation(q)
        BY <3>3 DEF RescueConfirmation, RescueAt, Rescuing, RecoveryTypeOK
    <3>4. CASE LandRescue(q) \/ DropRescue(q)
        BY <3>4 DEF LandRescue, DropRescue, Rescuing, RecoveryTypeOK
    <3>5. QED BY <1>1, <1>2, <1>4, <3>1, <3>2, <3>3, <3>4 DEF Rescue
  <2>3. QED BY <2>1, <2>2 DEF RescueRecord
<1>5. QED BY <1>3, <1>4

LEMMA RowsExistStep ==
    ASSUME RecoveryTypeOK, Positions, Claims, RowsExist, RecoveryReleases,
           [RecoveryNext]_recoveryAll
    PROVE  RowsExist'
<1>1. ASSUME NEW i \in Invoices
      PROVE  /\ payout[i].status # "NONE" => payout'[i].status # "NONE"
             /\ payout'[i].status # "NONE" => payout'[i].wallet \in Payees
    BY RowStep DEF RowsExist
<1>2. ASSUME NEW s \in Sweeps, sweep'[s].at # "idle"
      PROVE  payout'[sweep'[s].invoice].status # "NONE"
  <2>1. CASE sweep'[s] = sweep[s]
    <3>1. sweep[s].invoice \in Invoices BY <1>2, <2>1 DEF RecoveryTypeOK, NoSweep
    <3>2. QED BY <1>1, <1>2, <2>1, <3>1 DEF RowsExist
  <2>2. CASE sweep'[s] # sweep[s]
    <3>1. payout' = payout BY <1>2, <2>2, SweepChanges
    <3>2. \/ payout[sweep'[s].invoice].status # "NONE"
          \/ sweep[s].at \in {"read", "check"} /\ sweep'[s].invoice = sweep[s].invoice
        BY <1>2, <2>2, SweepChanges
    <3>3. QED BY <3>1, <3>2 DEF RowsExist
  <2>3. QED BY <2>1, <2>2
<1>3. ASSUME NEW r \in Rescues, rescue'[r].at # "read"
      PROVE  payout'[rescue'[r].invoice].status # "NONE"
  <2>1. CASE rescue'[r] = rescue[r]
    <3>1. rescue[r].invoice \in Invoices BY <1>3, <2>1, RescueTypes DEF RescueRecord
    <3>2. QED BY <1>1, <1>3, <2>1, <3>1 DEF RowsExist
  <2>2. CASE rescue'[r] # rescue[r] /\ rescue[r] = NoRescue
    <3>1. rescue[r] \notin RescueRecord BY <2>2 DEF RescueRecord, NoRescue
    <3>2. QED BY <2>2, <3>1, RescueChanges
  <2>3. CASE rescue'[r] # rescue[r] /\ rescue[r] # NoRescue
    <3>1. /\ rescue[r].at # "read" /\ rescue[r].invoice \in Invoices
          /\ rescue'[r].invoice = rescue[r].invoice
        BY <2>3, RescueTypes, RescueChanges DEF RescueRecord
    <3>2. QED BY <1>1, <3>1 DEF RowsExist
  <2>4. QED BY <2>1, <2>2, <2>3
<1>4. QED BY <1>1, <1>2, <1>3 DEF RowsExist

LEMMA NamesInvoiceStep ==
    ASSUME RecoveryTypeOK, Positions, Claims, RowsExist, RescuePositions, NamesInvoice,
           RecoveryReleases, [RecoveryNext]_recoveryAll
    PROVE  NamesInvoice'
<1>1. ASSUME NEW i \in Invoices, payout'[i].txSignature # None
      PROVE  SignatureOf(payout'[i].txSignature, i)
  <2>1. CASE payout'[i].txSignature = payout[i].txSignature
      BY <1>1, <2>1 DEF NamesInvoice, SignatureOf
  <2>2. CASE payout'[i].txSignature # payout[i].txSignature
    <3>1. payout'[i] # payout[i] BY <2>2
    <3>2. \A r \in Rescues : rescue[r].at = "book" => rescue[r] # NoRescue
        BY DEF NoRescue
    <3>3. \/ \E a \in Attempts : /\ payout'[i].txSignature = a
                                 /\ call[a].invoice = i /\ tx[a] = Released
          \/ \E r \in Rescues : /\ payout'[i].txSignature = r
                                /\ rescue[r].at = "book" /\ rescue[r].invoice = i
        BY <1>1, <2>2, <3>1, RowStep
    <3>4. QED BY <3>2, <3>3 DEF SignatureOf
  <2>3. QED BY <2>1, <2>2
<1>2. ASSUME NEW s \in Sweeps, sweep'[s].at = "check"
      PROVE  SignatureOf(sweep'[s].signature, sweep'[s].invoice)
  <2>1. CASE sweep'[s] = sweep[s]
      BY <1>2, <2>1 DEF NamesInvoice, SignatureOf
  <2>2. CASE sweep'[s] # sweep[s]
    <3>1. /\ sweep[s].at = "read" /\ sweep'[s].invoice = sweep[s].invoice
          /\ payout[sweep[s].invoice].txSignature # None
          /\ sweep'[s].signature = payout[sweep[s].invoice].txSignature
        BY <1>2, <2>2, SweepChanges
    <3>2. sweep[s].invoice \in Invoices BY <3>1 DEF RecoveryTypeOK, NoSweep
    <3>3. QED BY <3>1, <3>2 DEF NamesInvoice, SignatureOf
  <2>3. QED BY <2>1, <2>2
<1>3. \A i \in Invoices : payout'[i].txSignature # None =>
          SignatureOfNext(payout'[i].txSignature, i)
    BY <1>1, SignatureStays
<1>4. \A s \in Sweeps : sweep'[s].at = "check" =>
          SignatureOfNext(sweep'[s].signature, sweep'[s].invoice)
    BY <1>2, SignatureStays
<1>5. QED BY <1>3, <1>4 DEF NamesInvoice, SignatureOf, SignatureOfNext

(* A service leaves no row FAILED, so the marks of the attempts stay true.  *)
LEMMA RecoveryClaimsStep ==
    ASSUME RecoveryTypeOK, Claims, RowsExist, RecoveryReleases, [RecoveryNext]_recoveryAll
    PROVE  Claims'
<1>1. CASE EngineMoves
    BY <1>1, ClaimsStep DEF EngineMoves, RecoveryTypeOK
<1>2. CASE UNCHANGED vars
    BY <1>2 DEF vars, dbVars, historyVars, Claims, Holds
<1>3. CASE ServiceMoves
  <2>1. UNCHANGED <<call, pc, seen, tx, failed>>
      BY <1>3, ServicesSpareAttempts DEF attemptVars, historyVars
  <2>2. \A i \in Invoices : /\ payout[i].status # "NONE" => payout'[i].status # "NONE"
                            /\ payout'[i].status = "FAILED" => payout[i].status = "FAILED"
    <3>1. TAKE i \in Invoices
    <3>2. payout[i] \in PayoutRow BY DEF RecoveryTypeOK, TypeOK
    <3>3. CASE payout'[i] = [payout[i] EXCEPT !.status = "CONFIRMED"]
        BY <3>2, <3>3 DEF PayoutRow
    <3>4. ASSUME NEW r \in Rescues, payout'[i] = BookedRow(payout[i], r)
          PROVE  payout'[i].status = "CONFIRMED"
        BY <3>2, <3>4 DEF PayoutRow, BookedRow
    <3>5. QED BY <1>3, <3>3, <3>4, ServiceRow
  <2>3. \A a \in Attempts : call[a].invoice \in Invoices
      BY DEF RecoveryTypeOK, TypeOK, Call
  <2>4. QED BY <2>1, <2>2, <2>3 DEF Claims, Holds
<1>4. QED BY <1>1, <1>2, <1>3, RecoveryMoves DEF recoveryAll

(* A transaction of the invoice that landed released its escrow.            *)
LEMMA LandedReleases ==
    ASSUME Releases, RecoveryReleases, NEW s \in Signatures, NEW i \in Invoices,
           SignatureOf(s, i), Landed(s)
    PROVE  escrow[i].isReleased
<1>1. CASE s \in Attempts
    BY <1>1 DEF Releases, SignatureOf
<1>2. CASE s \in Rescues
    BY <1>2 DEF SignatureOf, Landed, RescueReleased, RecoveryReleases
<1>3. QED BY <1>1, <1>2 DEF SignatureOf

-----------------------------------------------------------------------------
(* Booked, answered and resolved only after the release.                    *)

LEMMA WorkerChanges ==
    ASSUME RecoveryTypeOK, [RecoveryNext]_recoveryAll, NEW w \in Workers,
           worker'[w] # worker[w], worker'[w].at = "run"
    PROVE  call[worker'[w].attempt].invoice = worker'[w].invoice
<1>1. PICK v \in Workers : Work(v)
    BY RecoveryMoves, SweepSpares, RescueSpares DEF EngineMoves, ServiceMoves, recoveryAll, recoveryVars
<1>2. v = w
  <2>1. \E next : worker' = [worker EXCEPT ![v] = next]
      BY <1>1 DEF Work, TakeJob, StartRetry, ResolveJob, FailJob, DropWorker, Working
  <2>2. QED BY <2>1 DEF RecoveryTypeOK
<1>3. ASSUME NEW a \in Attempts, StartRetry(w, a)
      PROVE  call[worker'[w].attempt].invoice = worker'[w].invoice
    BY <1>3 DEF StartRetry, Working, RecoveryTypeOK
<1>4. CASE \E i \in Invoices : TakeJob(w, i)
    BY <1>4 DEF TakeJob, Working, RecoveryTypeOK
<1>5. CASE ResolveJob(w) \/ FailJob(w) \/ DropWorker(w)
    BY <1>5 DEF ResolveJob, FailJob, DropWorker, Working, RecoveryTypeOK, NoWork
<1>6. QED BY <1>1, <1>2, <1>3, <1>4, <1>5 DEF Work

LEMMA JobChanges ==
    ASSUME RecoveryTypeOK, RecoveryReleases, [RecoveryNext]_recoveryAll, NEW i \in Invoices,
           job'[i].status = "RESOLVED", job[i].status # "RESOLVED"
    PROVE  escrow[i].isReleased
<1>1. \/ \E s \in Sweeps : Sweep(s)
      \/ \E w \in Workers : Work(w)
    BY RecoveryMoves, RescueSpares DEF EngineMoves, ServiceMoves, recoveryAll, recoveryVars
<1>2. ASSUME NEW s \in Sweeps, Sweep(s) PROVE FALSE
  <2>1. CASE QueueRetry(s)
    <3>1. job' = [job EXCEPT ![sweep[s].invoice] = [@ EXCEPT !.status = "PENDING_RETRY"]]
        BY <2>1 DEF QueueRetry
    <3>2. QED BY <3>1 DEF RecoveryTypeOK
  <2>2. CASE job' = job BY <2>2
  <2>3. QED
      BY <1>2, <2>1, <2>2 DEF Sweep, SelectRow, ReadSweptRow, CheckSignature, BookSwept, DropSweep
<1>3. ASSUME NEW w \in Workers, Work(w) PROVE escrow[i].isReleased
  <2>1. CASE ResolveJob(w)
    <3>1. worker[w].invoice \in Invoices
        BY <2>1, WorkTypes DEF ResolveJob
    <3>2. job' = [job EXCEPT ![worker[w].invoice] = [@ EXCEPT !.status = "RESOLVED"]]
        BY <2>1 DEF ResolveJob
    <3>3. worker[w].invoice = i
        BY <3>1, <3>2 DEF RecoveryTypeOK
    <3>4. worker[w].attempt \in answered /\ worker[w].at = "run"
        BY <2>1 DEF ResolveJob, Returned
    <3>5. QED BY <3>3, <3>4 DEF RecoveryReleases
  <2>2. CASE FailJob(w)
    <3>1. \E status \in {"PERMANENT_FAILURE", "PENDING_RETRY"} : \E attempts :
              job' = [job EXCEPT ![worker[w].invoice] = [status |-> status, attempts |-> attempts]]
        BY <2>2 DEF FailJob
    <3>2. QED BY <3>1 DEF RecoveryTypeOK
  <2>3. CASE job' = job BY <2>3
  <2>4. QED BY <1>3, <2>1, <2>2, <2>3 DEF Work, TakeJob, StartRetry, DropWorker
<1>4. QED BY <1>1, <1>2, <1>3

LEMMA RecoveryReleasesStep ==
    ASSUME RecoveryTypeOK, Program!EscrowInv, Positions, RescuePositions, Releases,
           NamesInvoice, RecoveryReleases, [RecoveryNext]_recoveryAll
    PROVE  RecoveryReleases'
<1>1. \A i \in Invoices : escrow[i].isReleased => escrow'[i].isReleased
    BY RecoveryReleaseStays
<1>2. ASSUME NEW s \in Sweeps, sweep'[s].at = "book"
      PROVE  escrow'[sweep'[s].invoice].isReleased
  <2>1. CASE sweep'[s] = sweep[s]
    <3>1. sweep[s].invoice \in Invoices BY <1>2, <2>1 DEF RecoveryTypeOK, NoSweep
    <3>2. QED BY <1>1, <1>2, <2>1, <3>1 DEF RecoveryReleases
  <2>2. CASE sweep'[s] # sweep[s]
    <3>1. /\ sweep[s].at = "check" /\ Landed(sweep[s].signature)
          /\ sweep'[s].invoice = sweep[s].invoice
        BY <1>2, <2>2, SweepChanges
    <3>2. sweep[s].invoice \in Invoices /\ sweep[s].signature \in Signatures
        BY <3>1 DEF RecoveryTypeOK, NoSweep
    <3>3. SignatureOf(sweep[s].signature, sweep[s].invoice)
        BY <3>1 DEF NamesInvoice
    <3>4. escrow[sweep[s].invoice].isReleased
        BY <3>1, <3>2, <3>3, LandedReleases
    <3>5. QED BY <1>1, <3>1, <3>2, <3>4
  <2>3. QED BY <2>1, <2>2
<1>3. ASSUME NEW r \in Rescues, rescue'[r] # NoRescue,
             rescue'[r].tx = "landed" \/ rescue'[r].at \in {"reconcile", "book"}
      PROVE  escrow'[rescue'[r].invoice].isReleased
  <2>1. ASSUME RescueReleased(r) PROVE escrow'[rescue[r].invoice].isReleased
    <3>1. rescue[r].invoice \in Invoices
        BY <2>1, RescueTypes DEF RescueReleased, RescueRecord
    <3>2. QED BY <1>1, <2>1, <3>1 DEF RecoveryReleases
  <2>2. CASE rescue'[r] = rescue[r]
      BY <1>3, <2>1, <2>2 DEF RescueReleased
  <2>3. CASE rescue'[r] # rescue[r]
    <3>1. /\ rescue[r] \in RescueRecord /\ rescue'[r].invoice = rescue[r].invoice
          /\ \/ RescueReleased(r)
             \/ LandRescue(r)
             \/ escrow[rescue[r].invoice].isReleased
      <4>1. rescue[r] \in RescueRecord => rescue[r] # NoRescue
          BY DEF RescueRecord, NoRescue
      <4>2. QED BY <1>3, <2>3, <4>1, RescueChanges DEF RescueReleased
    <3>2. rescue[r].invoice \in Invoices BY <3>1 DEF RescueRecord
    <3>3. CASE LandRescue(r)
        BY <3>1, <3>2, <3>3 DEF LandRescue, Chain!Release, Chain!Closed, RecoveryTypeOK,
                                TypeOK, Chain!EscrowTypeOK, Chain!EscrowAccount
    <3>4. QED BY <1>1, <2>1, <3>1, <3>2, <3>3
  <2>4. QED BY <2>2, <2>3
<1>4. call' = call /\ \A a \in Attempts : call[a].invoice \in Invoices
    BY RecoveryCallsFixed DEF RecoveryTypeOK, TypeOK, Call
<1>5. ASSUME NEW a \in answered' PROVE escrow'[call'[a].invoice].isReleased
  <2>1. a \in answered \/ (a \in Attempts /\ (Repair(a) \/ Confirm(a)))
      BY <1>5, RecoveryMoves, SweepSpares, WorkSpares, RescueSpares
         DEF EngineMoves, ServiceMoves, recoveryAll, recoveryVars
  <2>2. a \in Attempts BY <2>1 DEF RecoveryTypeOK
  <2>3. escrow[call[a].invoice].isReleased
      BY <2>1, <2>2 DEF RecoveryReleases, Repair, Confirm, Positions, Releases
  <2>4. QED BY <1>1, <1>4, <2>2, <2>3
<1>6. ASSUME NEW w \in Workers, worker'[w].at = "run"
      PROVE  call'[worker'[w].attempt].invoice = worker'[w].invoice
    BY <1>4, <1>6, WorkerChanges DEF RecoveryReleases
<1>7. ASSUME NEW i \in Invoices, job'[i].status = "RESOLVED" PROVE escrow'[i].isReleased
    BY <1>1, <1>7, JobChanges DEF RecoveryReleases
<1>8. QED BY <1>2, <1>3, <1>5, <1>6, <1>7 DEF RecoveryReleases, RescueReleased

-----------------------------------------------------------------------------
(* One release, and no second payment of a confirmed one.                   *)

LEMMA ReleasedMeansReleased ==
    ASSUME RecoveryReleases, Releases, NEW i \in Invoices, NEW x \in ReleasedBy(i)
    PROVE  escrow[i].isReleased
BY DEF ReleasedBy, RecoveryReleases, RescueReleased, Releases, Released

(* A release that lands finds the escrow unreleased.                        *)
LEMMA NewRelease ==
    ASSUME RecoveryTypeOK, RescuePositions, [RecoveryNext]_recoveryAll,
           NEW i \in Invoices, NEW x \in ReleasedBy(i)', x \notin ReleasedBy(i)
    PROVE  /\ ~escrow[i].isReleased
           /\ \/ x \in Attempts /\ Land(x)
              \/ x \in Rescues /\ LandRescue(x)
<1>1. CASE x \in Attempts
  <2>1. call[x].invoice = i /\ tx'[x] = Released /\ tx[x] # Released
      BY <1>1, RecoveryCallsFixed DEF ReleasedBy, Released
  <2>2. Next
      BY <2>1, RecoveryMoves, ServicesSpareAttempts DEF EngineMoves, recoveryAll, vars, attemptVars
  <2>3. tx'[x] # tx[x] /\ tx'[x].state = "landed" /\ tx'[x].op = "release"
      BY <2>1 DEF Released
  <2>4. Land(x) /\ tx[x].op = "release"
    <3>1. Land(x) /\ tx'[x].op = tx[x].op
        BY <1>1, <2>2, <2>3, TransactionChanges DEF RecoveryTypeOK
    <3>2. QED BY <2>3, <3>1
  <2>5. QED BY <1>1, <2>1, <2>4 DEF Land, Chain!Release
<1>2. CASE x \in Rescues
  <2>1. rescue'[x] # NoRescue /\ rescue'[x].invoice = i /\ rescue'[x].tx = "landed"
      BY <1>2 DEF ReleasedBy
  <2>2. rescue'[x] # rescue[x]
      BY <1>2, <2>1 DEF ReleasedBy
  <2>3. /\ rescue[x] \in RescueRecord /\ rescue'[x].invoice = rescue[x].invoice
        /\ rescue'[x].tx = rescue[x].tx \/ LandRescue(x)
      BY <1>2, <2>1, <2>2, RescueChanges
  <2>4. rescue[x] # NoRescue BY <2>3 DEF RescueRecord, NoRescue
  <2>5. LandRescue(x)
      BY <1>2, <2>1, <2>3, <2>4 DEF ReleasedBy
  <2>6. QED BY <1>2, <2>1, <2>3, <2>5 DEF LandRescue, Chain!Release
<1>3. QED BY <1>1, <1>2 DEF ReleasedBy

LEMMA ReleasesAreOneStep ==
    ASSUME RecoveryTypeOK, RescuePositions, Releases, RecoveryReleases, ReleasesAreOne,
           [RecoveryNext]_recoveryAll
    PROVE  ReleasesAreOne'
<1> SUFFICES ASSUME NEW i \in Invoices, NEW x \in ReleasedBy(i)', NEW y \in ReleasedBy(i)'
             PROVE  x = y
    BY DEF ReleasesAreOne
<1>1. CASE x \in ReleasedBy(i) /\ y \in ReleasedBy(i)
    BY <1>1 DEF ReleasesAreOne
<1>2. CASE x \in ReleasedBy(i) /\ y \notin ReleasedBy(i)
    BY <1>2, NewRelease, ReleasedMeansReleased
<1>3. CASE x \notin ReleasedBy(i) /\ y \in ReleasedBy(i)
    BY <1>3, NewRelease, ReleasedMeansReleased
<1>4. CASE x \notin ReleasedBy(i) /\ y \notin ReleasedBy(i)
  <2>1. /\ (x \in Attempts /\ Land(x)) \/ (x \in Rescues /\ LandRescue(x))
        /\ (y \in Attempts /\ Land(y)) \/ (y \in Rescues /\ LandRescue(y))
      BY <1>4, NewRelease
  <2>2. ASSUME NEW a \in Attempts, Land(a)
        PROVE  tx' = [tx EXCEPT ![a] = [@ EXCEPT !.state = "landed"]] /\ tx'[a] # tx[a]
    <3>1. tx' = [tx EXCEPT ![a] = [@ EXCEPT !.state = "landed"]] /\ tx[a].state = "sent"
        BY <2>2 DEF Land
    <3>2. QED BY <3>1 DEF RecoveryTypeOK, TypeOK, Transaction
  <2>3. ASSUME NEW r \in Rescues, LandRescue(r)
        PROVE  /\ rescue' = [rescue EXCEPT ![r] = [rescue[r] EXCEPT !.tx = "landed"]]
               /\ rescue'[r] # rescue[r] /\ tx' = tx
    <3>1. /\ rescue' = [rescue EXCEPT ![r] = [rescue[r] EXCEPT !.tx = "landed"]]
          /\ rescue[r] \in RescueRecord /\ rescue[r].tx = "sent" /\ tx' = tx
        BY <2>3, RescueTypes DEF LandRescue, Rescuing
    <3>2. QED BY <3>1 DEF RecoveryTypeOK, RescueRecord
  <2>4. CASE x \in Attempts /\ Land(x) /\ y \in Attempts /\ Land(y)
      BY <2>2, <2>4 DEF RecoveryTypeOK, TypeOK
  <2>5. CASE x \in Rescues /\ LandRescue(x) /\ y \in Rescues /\ LandRescue(y)
      BY <2>3, <2>5 DEF RecoveryTypeOK
  <2>6. \A a \in Attempts, r \in Rescues : ~(Land(a) /\ LandRescue(r))
      BY <2>2, <2>3
  <2>7. QED BY <2>1, <2>4, <2>5, <2>6
<1>5. QED BY <1>1, <1>2, <1>3, <1>4

LEMMA LookupChanges ==
    ASSUME TypeOK, Next, NEW b \in Attempts
    PROVE  /\ pc'[b] = "lookup" => pc[b] = "lookup"
           /\ seen'[b] # seen[b] => Lookup(b)
<1>1. ASSUME NEW a \in Attempts, Lookup(a)
      PROVE  pc'[a] # "lookup" /\ (b # a => pc'[b] = pc[b] /\ seen'[b] = seen[b])
    BY <1>1 DEF Lookup, AfterLookup, TypeOK
<1>2. ASSUME NEW a \in Attempts, Step(a), ~Lookup(a)
      PROVE  seen' = seen /\ (pc'[b] = "lookup" => pc[b] = "lookup")
    BY <1>2 DEF Step, Repair, ReadInvoice, CreateRow, ReclaimRow, InitializeEscrow,
                DepositEscrow, ReleaseEscrow, Send, GoTo, SavePda, Confirmation, AfterLanding,
                MarkFailed, Confirm, TypeOK
<1>3. ASSUME NEW a \in Attempts, Throw(a) \/ Crash(a) \/ Cluster(a)
      PROVE  seen' = seen /\ (pc'[b] = "lookup" => pc[b] = "lookup")
    BY <1>3 DEF Throw, Crash, Cluster, Land, Drop, TypeOK
<1>4. ASSUME NEW r \in Reviewers, Reviewing(r) PROVE seen' = seen /\ pc' = pc
    BY <1>4 DEF Reviewing, ReadForReview, WriteReview, DropReview
<1>5. QED BY <1>1, <1>2, <1>3, <1>4 DEF Next

LEMMA RetriedStep ==
    ASSUME RecoveryTypeOK, Positions, Claims, RowsExist, RecoveryReleases, Retried,
           [RecoveryNext]_recoveryAll
    PROVE  Retried'
<1>1. call' = call /\ \A a \in Attempts : call[a].invoice \in Invoices
    BY RecoveryCallsFixed DEF RecoveryTypeOK, TypeOK, Call
<1>2. \A i \in Invoices : payout[i].status # "NONE" => payout'[i].status # "NONE"
    BY RowStep
<1>3. CASE UNCHANGED <<pc, seen, tx>>
    BY <1>1, <1>2, <1>3 DEF Retried
<1>4. CASE Next
  <2> SUFFICES ASSUME NEW a \in Attempts
               PROVE  /\ pc'[a] = "lookup" => tx'[a].op = "none"
                      /\ seen'[a] = "CONFIRMED" =>
                             /\ tx'[a].op = "none" /\ pc'[a] \notin Claimed
                             /\ payout'[call[a].invoice].status # "NONE"
      BY <1>1 DEF Retried
  <2>1. TypeOK BY DEF RecoveryTypeOK
  <2>2. tx[a].op = "none" /\ pc[a] \notin Claimed => tx'[a].op = "none"
    <3>1. CASE tx'[a] = tx[a] BY <3>1
    <3>2. CASE tx'[a] # tx[a] BY <1>4, <2>1, <3>2, TransactionChanges
    <3>3. QED BY <3>1, <3>2
  <2>3. pc'[a] = "lookup" => tx'[a].op = "none"
    <3>1. "lookup" \notin Claimed BY DEF Claimed
    <3>2. QED BY <1>4, <2>1, <2>2, <3>1, LookupChanges DEF Retried
  <2>4. CASE seen'[a] = "CONFIRMED" /\ Lookup(a)
    <3>1. /\ pc[a] = "lookup" /\ tx[a].op = "none" /\ payout' = payout /\ tx' = tx
          /\ pc'[a] \in {"repair", "done", "readInvoice"}
          /\ payout[call[a].invoice].status = "CONFIRMED"
        BY <2>1, <2>4 DEF Lookup, AfterLookup, Retried, TypeOK, dbVars
    <3>2. QED BY <2>3, <3>1 DEF Claimed
  <2>5. CASE seen'[a] = "CONFIRMED" /\ seen[a] = "CONFIRMED"
    <3>1. /\ tx[a].op = "none" /\ pc[a] \notin Claimed
          /\ payout[call[a].invoice].status # "NONE"
        BY <2>5 DEF Retried
    <3>2. pc'[a] \notin Claimed
        BY <1>4, <2>1, <2>5, <3>1, LiveChanges DEF Live, ReclaimRow
    <3>3. QED BY <1>1, <1>2, <2>2, <2>3, <3>1, <3>2
  <2>6. QED BY <1>4, <2>1, <2>3, <2>4, <2>5, LookupChanges
<1>5. QED
    BY <1>3, <1>4, RecoveryMoves, ServicesSpareAttempts
       DEF EngineMoves, attemptVars, recoveryAll, vars

-----------------------------------------------------------------------------
(* Money that left is accounted for beside the services, which fund nothing *)
(* and take PAID from no invoice.                                           *)

LEMMA ServicesKeepAccounts ==
    ASSUME RecoveryTypeOK, ServiceMoves, NEW i \in Invoices, Accounted(i)
    PROVE  Accounted(i)'
<1>1. UNCHANGED <<call, pc, failed, abandoned, overruled>>
    BY ServicesSpareAttempts DEF attemptVars, historyVars
<1>2. invoice[i] = "PAID" => invoice'[i] = "PAID"
    BY ServiceBooks DEF RecoveryTypeOK, TypeOK, dbVars
<1>3. QED BY <1>1, <1>2 DEF Accounted

LEMMA ServicesFundNothing == RecoveryTypeOK /\ ServiceMoves => deposited' = deposited
BY SweepSpares, WorkSpares, RescueSpares
   DEF ServiceMoves, LandRescue, Chain!Release, chainVars, vars

LEMMA RecoveryMoneyStep ==
    ASSUME RecoveryTypeOK, Positions, Money, [RecoveryNext]_recoveryAll
    PROVE  Money'
<1>1. CASE UNCHANGED recoveryAll \/ EngineMoves
  <2>1. [Next]_vars BY <1>1 DEF recoveryAll, EngineMoves
  <2>2. QED BY <2>1, MoneyStep DEF RecoveryTypeOK
<1>2. CASE ServiceMoves
  <2>1. UNCHANGED <<call, tx, deposited>>
      BY <1>2, ServicesSpareAttempts, ServicesFundNothing DEF attemptVars
  <2>2. \A i \in Invoices : Accounted(i) => Accounted(i)'
      BY <1>2, ServicesKeepAccounts
  <2>3. MoneyIsAccountedFor'
      BY <2>1, <2>2 DEF Money, MoneyIsAccountedFor
  <2>4. ASSUME NEW a \in Attempts, tx'[a].op # "none" PROVE Accounted(call[a].invoice)'
    <3>1. PICK i \in Invoices : call[a].invoice = i
        BY DEF RecoveryTypeOK, TypeOK, Call
    <3>2. Accounted(i) BY <2>1, <2>4, <3>1 DEF Money, SendersAreAccounted
    <3>3. Accounted(i)' /\ call'[a].invoice = i BY <2>1, <2>2, <3>1, <3>2
    <3>4. QED BY <3>3 DEF Accounted
  <2>5. QED BY <2>3, <2>4 DEF Money, SendersAreAccounted, Accounted
<1>3. QED BY <1>1, <1>2, RecoveryMoves

-----------------------------------------------------------------------------
(* The invariant and the theorems.                                          *)

LEMMA RecoveryInitInv == RecoveryInit => RecoveryInv
<1> SUFFICES ASSUME RecoveryInit PROVE RecoveryInv
    OBVIOUS
<1>1. Init BY DEF RecoveryInit
<1>2. EngineInv BY <1>1, EngineInitInv
<1>3. TypeOK /\ Program!EscrowInv /\ Positions /\ Releases /\ Claims /\ Money
    BY <1>2 DEF EngineInv
<1>4. RecoveryTypeOK
    BY <1>3 DEF RecoveryInit, RecoveryTypeOK, JobStatus, NoSweep, NoWork, NoRescue
<1>5. RescuePositions /\ RowsExist /\ NamesInvoice /\ RecoveryReleases
    BY <1>1 DEF RecoveryInit, Init, NoRow, RescuePositions, RowsExist, NamesInvoice,
                RecoveryReleases, RescueReleased, NoSweep, NoWork, NoRescue
<1>6. \A i \in Invoices : ReleasedBy(i) = {}
    BY <1>1 DEF RecoveryInit, Init, ReleasedBy, NoRescue
<1>7. ReleasesAreOne /\ Retried
    BY <1>1, <1>6 DEF Init, ReleasesAreOne, Retried
<1>8. QED BY <1>3, <1>4, <1>5, <1>7 DEF RecoveryInv

LEMMA RecoveryStepInv == RecoveryInv /\ [RecoveryNext]_recoveryAll => RecoveryInv'
BY RecoveryTypeStep, RecoveryChain, RecoveryPositionStep, RescuePositionStep,
   BookedReleaseStep, RowsExistStep, NamesInvoiceStep, RecoveryClaimsStep,
   RecoveryReleasesStep, ReleasesAreOneStep, RetriedStep, RecoveryMoneyStep DEF RecoveryInv

LEMMA RecoveryInvariant == RecoverySpec => []RecoveryInv
BY RecoveryInitInv, RecoveryStepInv, PTL DEF RecoverySpec, recoveryAll

LEMMA OneReleaseAtMost == ReleasesAreOne => OneRelease
<1> SUFFICES ASSUME ReleasesAreOne, NEW i \in Invoices
             PROVE  Cardinality(ReleasedBy(i)) <= 1
    BY DEF OneRelease
<1>1. CASE ReleasedBy(i) = {}
    BY <1>1, FS_EmptySet
<1>2. CASE ReleasedBy(i) # {}
  <2>1. PICK x : x \in ReleasedBy(i) BY <1>2
  <2>2. ReleasedBy(i) = {x} BY <2>1 DEF ReleasesAreOne
  <2>3. Cardinality(ReleasedBy(i)) = 1 BY <2>2, FS_Singleton
  <2>4. QED BY <2>3
<1>3. QED BY <1>1, <1>2

(* Whatever the sweep, the retry jobs and the rescues do beside the engine, *)
(* with whatever answers of the node and whatever deaths: rows and invoices *)
(* are booked only for a released escrow, an escrow is funded only for an   *)
(* invoice that is accounted for, one release lands per invoice, and a job  *)
(* closed as RESOLVED has its payment made.                                 *)
THEOREM RecoveryBooksAreTrue == RecoverySpec => []RecoveryBooks
<1>1. RecoveryInv => RecoveryBooks
  <2> SUFFICES ASSUME RecoveryInv PROVE RecoveryBooks
      OBVIOUS
  <2>1. ChainInvariants BY SameInvariant DEF RecoveryInv
  <2>2. \A i \in Invoices : escrow[i].isReleased => paid[i] > 0
      BY <2>1 DEF ChainInvariants, Chain!EscrowLedger
  <2>3. BooksMeetChain
      BY <2>2 DEF RecoveryInv, Releases, Money, BooksFollowChain, BooksMeetChain
  <2>4. ResolvedIsPaid
      BY <2>2 DEF RecoveryInv, RecoveryReleases, ResolvedIsPaid
  <2>5. QED BY <2>3, <2>4, OneReleaseAtMost DEF RecoveryInv, RecoveryBooks
<1>2. QED BY RecoveryInvariant, <1>1, PTL

(* A call that found its row CONFIRMED, also by a recovery that left no     *)
(* signature, claims nothing and sends nothing.                             *)
THEOREM ConfirmedAreNotRetried == RecoverySpec => []ConfirmedIsNotRetried
<1>1. RecoveryInv => ConfirmedIsNotRetried
    BY DEF RecoveryInv, Retried, ConfirmedIsNotRetried
<1>2. QED BY RecoveryInvariant, <1>1, PTL

(* The recovery services drive the chain through the program only, so every *)
(* theorem about the program holds of the recovered system too.             *)
THEOREM RecoveryRunsTheProgram == RecoverySpec => Chain!EscrowSpec
<1>1. RecoveryInit => Chain!EscrowInit BY DEF RecoveryInit, Init
<1>2. RecoveryInv /\ [RecoveryNext]_recoveryAll => [Chain!EscrowNext]_(Chain!escrowVars)
    BY RecoveryChain DEF RecoveryInv, chainVars, Chain!escrowVars
<1>3. QED
    BY RecoveryInvariant, <1>1, <1>2, PTL DEF RecoverySpec, recoveryAll, Chain!EscrowSpec

HIDE RecoveryAssumption

-----------------------------------------------------------------------------
(***************************************************************************)
(* The compliance monitor, for any payers, amounts, writers of policies    *)
(* and page size.                                                          *)
(***************************************************************************)
USE ComplianceAssumption

AttemptRows == [route: {"execute", "batch"}, company: Payers, amount: Amounts,
                at: {"large", "approval", "passed", "failed"}]
Lookups == [at: {"found"}, company: Organized, type: PolicyTypes, rows: SUBSET Nat, seen: Nat]

Has(n, scope) == \E a \in alert : a.attempt = n /\ a.scope = scope

(* How far an attempt has come tells which alerts it has raised; one of the *)
(* batch route was let through at once and raised none.                     *)
AlertsFollow ==
    /\ \A a \in alert : a.attempt \in DOMAIN attempt
    /\ \A n \in DOMAIN attempt : attempt[n].company \in Organized =>
           /\ attempt[n].at = "large" =>
                  ~Has(n, "LARGE_TRANSACTION_ALERT") /\ ~Has(n, "MANUAL_APPROVAL_THRESHOLD")
           /\ attempt[n].at = "approval" =>
                  /\ Has(n, "LARGE_TRANSACTION_ALERT") <=> Reaches(n, LargePayout)
                  /\ ~Has(n, "MANUAL_APPROVAL_THRESHOLD")
           /\ attempt[n].at = "passed" /\ attempt[n].route = "execute" =>
                  /\ Has(n, "LARGE_TRANSACTION_ALERT") <=> Reaches(n, LargePayout)
                  /\ Has(n, "MANUAL_APPROVAL_THRESHOLD") <=> Reaches(n, SingleLimit)
           /\ attempt[n].route = "batch" =>
                  ~Has(n, "LARGE_TRANSACTION_ALERT") /\ ~Has(n, "MANUAL_APPROVAL_THRESHOLD")
    /\ \A n \in DOMAIN attempt : attempt[n].route = "batch" => attempt[n].at = "passed"

(* A writer that is about to create has found every row there was, and      *)
(* rows are never removed or given to another company or type.              *)
LookupsAreComplete ==
    /\ found \in Seq(Nat)
    /\ writer \in [Writers -> {Stopped} \cup Lookups]
    /\ \A w \in Writers : writer[w] # Stopped =>
           /\ writer[w].seen <= Len(policy)
           /\ writer[w].rows = {p \in 1 .. writer[w].seen :
                  policy[p].company = writer[w].company /\ policy[p].type = writer[w].type}

ComplianceInv ==
    /\ ComplianceTypeOK /\ AlertsFollow
    /\ LookupsAreComplete /\ PolicyTwinsWereUnaware

LEMMA ComplianceInitInv == ComplianceInit => ComplianceInv
<1> SUFFICES ASSUME ComplianceInit PROVE ComplianceInv
    OBVIOUS
<1>1. attempt = <<>> /\ alert = {} /\ policy = <<>> /\ found = <<>>
      /\ writer = [w \in Writers |-> Stopped]
    BY DEF ComplianceInit
<1>2. Len(attempt) = 0 /\ Len(policy) = 0 /\ DOMAIN attempt = {} /\ DOMAIN policy = {}
    BY <1>1
<1>3. attempt \in Seq(AttemptRows) /\ policy \in Seq(Policies) /\ found \in Seq(Nat)
    BY <1>1
<1>4. ComplianceTypeOK
    BY <1>1, <1>2, <1>3 DEF ComplianceTypeOK, AttemptRows
<1>5. AlertsFollow BY <1>1, <1>2 DEF AlertsFollow
<1>6. LookupsAreComplete BY <1>1, <1>3 DEF LookupsAreComplete
<1>7. PolicyTwinsWereUnaware BY <1>2 DEF PolicyTwinsWereUnaware
<1>8. QED BY <1>4, <1>5, <1>6, <1>7 DEF ComplianceInv

-----------------------------------------------------------------------------
LEMMA AttemptKeeps ==
    ASSUME ComplianceInv, ExecutePayout \/ BatchPay
    PROVE  ComplianceTypeOK' /\ AlertsFollow'
<1>1. PICK c \in Payers, amount \in Amounts, route \in {"execute", "batch"},
           first \in {"large", "passed"} :
          /\ route = "execute" => first = "large"
          /\ route = "batch" => first = "passed"
          /\ Len(attempt) < MaxPayouts
          /\ attempt' = Append(attempt, [route |-> route, company |-> c, amount |-> amount, at |-> first])
          /\ UNCHANGED <<alert, policy, writer, found>>
  <2>1. CASE ExecutePayout BY <2>1 DEF ExecutePayout, Attempt
  <2>2. CASE BatchPay BY <2>2 DEF BatchPay, Attempt
  <2>3. QED BY <2>1, <2>2
<1>2. attempt \in Seq(AttemptRows) /\ Len(attempt) \in Nat
    BY DEF ComplianceInv, ComplianceTypeOK, AttemptRows
<1> DEFINE row == [route |-> route, company |-> c, amount |-> amount, at |-> first]
<1>3. row \in AttemptRows BY DEF AttemptRows
<1>4. /\ attempt' \in Seq(AttemptRows) /\ Len(attempt') = Len(attempt) + 1
      /\ \A n \in 1 .. Len(attempt) : attempt'[n] = attempt[n]
      /\ attempt'[Len(attempt) + 1] = row
    BY <1>1, <1>2, <1>3, AppendProperties
<1>5. DOMAIN attempt' = 1 .. Len(attempt) + 1 /\ DOMAIN attempt = 1 .. Len(attempt)
    BY <1>2, <1>4
<1>6. ComplianceTypeOK'
    BY <1>1, <1>2, <1>4 DEF ComplianceInv, ComplianceTypeOK, AttemptRows
<1>7. \A n, scope : Has(n, scope)' <=> Has(n, scope)
    BY <1>1 DEF Has
<1>8. ~Has(Len(attempt) + 1, "LARGE_TRANSACTION_ALERT")
      /\ ~Has(Len(attempt) + 1, "MANUAL_APPROVAL_THRESHOLD")
    BY <1>2, <1>5 DEF ComplianceInv, AlertsFollow, Has
<1>9. ASSUME NEW n \in DOMAIN attempt'
      PROVE  \/ n \in DOMAIN attempt /\ attempt'[n] = attempt[n]
             \/ /\ n = Len(attempt) + 1
                /\ attempt'[n].route = "execute" => attempt'[n].at = "large"
                /\ attempt'[n].route = "batch" => attempt'[n].at = "passed"
                /\ attempt'[n].route \in {"execute", "batch"}
  <2>1. row.route = route /\ row.at = first OBVIOUS
  <2>2. CASE n = Len(attempt) + 1 BY <1>1, <1>4, <2>1, <2>2
  <2>3. CASE n \in 1 .. Len(attempt) BY <1>4, <1>5, <2>3
  <2>4. QED BY <1>2, <1>5, <2>2, <2>3
<1>10. \A a \in alert' : a.attempt \in DOMAIN attempt'
    BY <1>1, <1>2, <1>5 DEF ComplianceInv, AlertsFollow
<1>11. QED
    BY <1>6, <1>7, <1>8, <1>9, <1>10 DEF ComplianceInv, AlertsFollow, Reaches

(* One evaluation of an attempt: what it may change.                        *)
LEMMA Reached ==
    ASSUME ComplianceInv, NEW n \in DOMAIN attempt,
           NEW label \in {"approval", "passed", "failed"}, Reach(n, label)
    PROVE  /\ attempt' \in Seq(AttemptRows) /\ Len(attempt') = Len(attempt)
           /\ DOMAIN attempt' = DOMAIN attempt
           /\ n \in 1 .. MaxPayouts
           /\ attempt'[n].at = label /\ attempt'[n].company = attempt[n].company
           /\ attempt'[n].amount = attempt[n].amount /\ attempt'[n].route = attempt[n].route
           /\ \A m \in DOMAIN attempt \ {n} : attempt'[m] = attempt[m]
<1>1. attempt \in Seq(AttemptRows) /\ Len(attempt) \in Nat /\ Len(attempt) <= MaxPayouts
    BY DEF ComplianceInv, ComplianceTypeOK, AttemptRows
<1>2. DOMAIN attempt = 1 .. Len(attempt) BY <1>1
<1> DEFINE row == [attempt[n] EXCEPT !.at = label]
<1>3. attempt[n] \in AttemptRows BY <1>1, <1>2
<1>4. row \in AttemptRows /\ row.at = label /\ row.company = attempt[n].company
      /\ row.amount = attempt[n].amount /\ row.route = attempt[n].route
    BY <1>3 DEF AttemptRows
<1>5. attempt' = [attempt EXCEPT ![n] = row] BY DEF Reach
<1> HIDE DEF row
<1>6. /\ attempt' \in Seq(AttemptRows) /\ Len(attempt') = Len(attempt)
      /\ \A m \in 1 .. Len(attempt) : attempt'[m] = IF m = n THEN row ELSE attempt[m]
    BY <1>1, <1>2, <1>4, <1>5, ExceptSeq
<1>7. QED BY <1>1, <1>2, <1>4, <1>6

LEMMA EvaluateKeeps ==
    ASSUME ComplianceInv, NEW n \in DOMAIN attempt,
           EvaluateLarge(n) \/ EvaluateApproval(n) \/ FailAttempt(n)
    PROVE  ComplianceTypeOK' /\ AlertsFollow'
<1> DEFINE large == "LARGE_TRANSACTION_ALERT"
           manual == "MANUAL_APPROVAL_THRESHOLD"
<1>1. /\ attempt' \in Seq(AttemptRows) /\ Len(attempt') = Len(attempt)
      /\ DOMAIN attempt' = DOMAIN attempt /\ n \in 1 .. MaxPayouts
      /\ attempt'[n].company = attempt[n].company /\ attempt'[n].amount = attempt[n].amount
      /\ attempt'[n].route = "execute"
      /\ \A m \in DOMAIN attempt \ {n} : attempt'[m] = attempt[m]
  <2>1. attempt[n].at # "passed" BY DEF EvaluateLarge, EvaluateApproval, FailAttempt
  <2>2. attempt[n].route = "execute"
    <3>1. attempt \in Seq(AttemptRows) BY DEF ComplianceInv, ComplianceTypeOK, AttemptRows
    <3>2. attempt[n] \in AttemptRows BY <3>1
    <3>3. QED BY <2>1, <3>2 DEF ComplianceInv, AlertsFollow, AttemptRows
  <2>3. QED BY <2>2, Reached DEF EvaluateLarge, EvaluateApproval, FailAttempt
<1>2. UNCHANGED <<policy, writer, found>>
    BY DEF EvaluateLarge, EvaluateApproval, FailAttempt
<1>3. attempt[n] \in AttemptRows
  <2>1. attempt \in Seq(AttemptRows) BY DEF ComplianceInv, ComplianceTypeOK, AttemptRows
  <2>2. QED BY <2>1
<1>4. /\ alert' \subseteq Alerts
      /\ \A a \in alert' : a \in alert \/ a.attempt = n
      /\ alert \subseteq alert'
      /\ attempt'[n].at # "large"
      /\ attempt[n].company \in Organized =>
             /\ attempt'[n].at = "approval" =>
                    /\ Has(n, large)' <=> Reaches(n, LargePayout)
                    /\ ~Has(n, manual)'
             /\ attempt'[n].at = "passed" =>
                    /\ Has(n, large)' <=> Reaches(n, LargePayout)
                    /\ Has(n, manual)' <=> Reaches(n, SingleLimit)
  <2>1. CASE EvaluateLarge(n)
    <3>1. attempt[n].at = "large" /\ attempt'[n].at = "approval"
        BY <2>1, Reached DEF EvaluateLarge
    <3>2. CASE ~Reaches(n, LargePayout) \/ attempt[n].company \notin Organized
      <4>1. alert' = alert
          BY <2>1, <3>2 DEF EvaluateLarge, CreateComplianceAlert
      <4>2. \A scope : Has(n, scope)' <=> Has(n, scope) BY <4>1 DEF Has
      <4>3. QED BY <3>1, <3>2, <4>1, <4>2
                DEF ComplianceInv, ComplianceTypeOK, AlertsFollow
    <3>3. CASE Reaches(n, LargePayout) /\ attempt[n].company \in Organized
      <4> DEFINE severity == IF Reaches(n, Suspicious) THEN "CRITICAL" ELSE "HIGH"
                 new == [attempt |-> n, company |-> attempt[n].company,
                         scope |-> large, severity |-> severity]
      <4>1. alert' = alert \cup {new}
          BY <2>1, <3>3 DEF EvaluateLarge, CreateComplianceAlert
      <4>2. new \in Alerts BY <1>1, <3>3 DEF Alerts, Scopes
      <4>3. new.attempt = n /\ new.scope = large OBVIOUS
      <4> HIDE DEF new
      <4>4. Has(n, large)' /\ (Has(n, manual)' <=> Has(n, manual))
          BY <4>1, <4>3 DEF Has
      <4>5. QED BY <3>1, <3>3, <4>1, <4>2, <4>3, <4>4
                DEF ComplianceInv, ComplianceTypeOK, AlertsFollow
    <3>4. QED BY <3>2, <3>3
  <2>2. CASE EvaluateApproval(n)
    <3>1. attempt[n].at = "approval" /\ attempt'[n].at = "passed"
        BY <2>2, Reached DEF EvaluateApproval
    <3>2. CASE ~Reaches(n, SingleLimit) \/ attempt[n].company \notin Organized
      <4>1. alert' = alert
          BY <2>2, <3>2 DEF EvaluateApproval, CreateComplianceAlert
      <4>2. \A scope : Has(n, scope)' <=> Has(n, scope) BY <4>1 DEF Has
      <4>3. QED BY <3>1, <3>2, <4>1, <4>2
                DEF ComplianceInv, ComplianceTypeOK, AlertsFollow
    <3>3. CASE Reaches(n, SingleLimit) /\ attempt[n].company \in Organized
      <4> DEFINE new == [attempt |-> n, company |-> attempt[n].company,
                         scope |-> manual, severity |-> "HIGH"]
      <4>1. alert' = alert \cup {new}
          BY <2>2, <3>3 DEF EvaluateApproval, CreateComplianceAlert
      <4>2. new \in Alerts BY <1>1, <3>3 DEF Alerts, Scopes
      <4>3. new.attempt = n /\ new.scope = manual OBVIOUS
      <4> HIDE DEF new
      <4>4. Has(n, manual)' /\ (Has(n, large)' <=> Has(n, large))
          BY <4>1, <4>3 DEF Has
      <4>5. QED BY <3>1, <3>3, <4>1, <4>2, <4>3, <4>4
                DEF ComplianceInv, ComplianceTypeOK, AlertsFollow
    <3>4. QED BY <3>2, <3>3
  <2>3. CASE FailAttempt(n)
    <3>1. attempt'[n].at = "failed" /\ alert' = alert
        BY <2>3, Reached DEF FailAttempt
    <3>2. QED BY <3>1 DEF ComplianceInv, ComplianceTypeOK
  <2>4. QED BY <2>1, <2>2, <2>3
<1>5. ComplianceTypeOK'
    BY <1>1, <1>2, <1>4 DEF ComplianceInv, ComplianceTypeOK, AttemptRows
<1>6. \A m \in DOMAIN attempt \ {n} : \A scope : Has(m, scope)' <=> Has(m, scope)
    BY <1>4 DEF Has
<1>7. \A a \in alert' : a.attempt \in DOMAIN attempt'
    BY <1>1, <1>4 DEF ComplianceInv, AlertsFollow
<1>8. QED BY <1>1, <1>4, <1>5, <1>6, <1>7 DEF ComplianceInv, AlertsFollow, Reaches

-----------------------------------------------------------------------------
LEMMA PolicyParts ==
    ASSUME ComplianceInv
    PROVE  /\ policy \in Seq(Policies) /\ Len(policy) \in Nat
           /\ DOMAIN policy = 1 .. Len(policy) /\ DOMAIN found = 1 .. Len(policy)
           /\ \A w \in Writers : writer[w] # Stopped => writer[w] \in Lookups
<1>1. policy \in Seq(Policies) /\ found \in Seq(Nat) /\ Len(found) = Len(policy)
    BY DEF ComplianceInv, ComplianceTypeOK, LookupsAreComplete
<1>2. QED BY <1>1 DEF ComplianceInv, LookupsAreComplete

LEMMA FinishedKeeps ==
    ASSUME ComplianceInv, NEW w \in Writers, Finished(w)
    PROVE  /\ writer' \in [Writers -> {Stopped} \cup Lookups]
           /\ \A v \in Writers : writer'[v] # Stopped => writer'[v] = writer[v]
<1>1. writer' = [writer EXCEPT ![w] = Stopped] BY DEF Finished
<1>2. writer \in [Writers -> {Stopped} \cup Lookups]
    BY DEF ComplianceInv, LookupsAreComplete
<1>3. QED BY <1>1, <1>2

LEMMA FindPolicyKeeps ==
    ASSUME ComplianceInv, NEW w \in Writers, FindPolicy(w)
    PROVE  ComplianceInv'
<1>1. PICK c \in Organized, type \in PolicyTypes :
          /\ writer' = [writer EXCEPT ![w] = [at |-> "found", company |-> c, type |-> type,
                                             rows |-> Matching(c, type), seen |-> Len(policy)]]
          /\ UNCHANGED <<attempt, alert, policy, found>>
    BY DEF FindPolicy
<1> DEFINE new == [at |-> "found", company |-> c, type |-> type,
                   rows |-> Matching(c, type), seen |-> Len(policy)]
<1>2. DOMAIN policy = 1 .. Len(policy) /\ Len(policy) \in Nat BY PolicyParts
<1>3. Matching(c, type) = {p \in 1 .. Len(policy) : policy[p].company = c /\ policy[p].type = type}
    BY <1>2 DEF Matching
<1>4. new \in Lookups BY <1>2, <1>3 DEF Lookups
<1>5. /\ new.seen = Len(policy)
      /\ new.rows = {p \in 1 .. new.seen : policy[p].company = new.company
                                         /\ policy[p].type = new.type}
    BY <1>3
<1> HIDE DEF new
<1>6. writer \in [Writers -> {Stopped} \cup Lookups]
    BY DEF ComplianceInv, LookupsAreComplete
<1>7. /\ writer' \in [Writers -> {Stopped} \cup Lookups] /\ writer'[w] = new
      /\ \A v \in Writers \ {w} : writer'[v] = writer[v]
    BY <1>1, <1>4, <1>6 DEF new
<1>8. LookupsAreComplete'
    BY <1>1, <1>2, <1>5, <1>7 DEF ComplianceInv, LookupsAreComplete
<1>9. ComplianceTypeOK'
    BY <1>1, <1>7 DEF ComplianceInv, ComplianceTypeOK
<1>10. AlertsFollow' /\ PolicyTwinsWereUnaware'
    BY <1>1 DEF ComplianceInv, AlertsFollow, Has, Reaches, PolicyTwinsWereUnaware
<1>11. QED BY <1>8, <1>9, <1>10 DEF ComplianceInv

LEMMA UpdatePolicyKeeps ==
    ASSUME ComplianceInv, NEW w \in Writers, UpdatePolicy(w)
    PROVE  ComplianceInv'
<1>1. PICK p \in writer[w].rows : policy' = [policy EXCEPT ![p].value = w]
    BY DEF UpdatePolicy
<1>2. Finished(w) /\ UNCHANGED <<attempt, alert, found>> /\ writer[w].at = "found"
    BY DEF UpdatePolicy, Writing
<1>3. /\ policy \in Seq(Policies) /\ Len(policy) \in Nat /\ DOMAIN policy = 1 .. Len(policy)
      /\ DOMAIN found = 1 .. Len(policy)
    BY PolicyParts
<1>4. writer[w] # Stopped BY <1>2 DEF Stopped
<1>5. writer[w] \in Lookups BY <1>4, PolicyParts
<1>6. p \in 1 .. Len(policy)
    BY <1>3, <1>4, <1>5 DEF ComplianceInv, LookupsAreComplete, Lookups
<1> DEFINE row == [policy[p] EXCEPT !.value = w]
<1>7. policy[p] \in Policies BY <1>3, <1>6
<1>8. row \in Policies /\ row.company = policy[p].company /\ row.type = policy[p].type
    BY <1>7 DEF Policies
<1>9. policy' = [policy EXCEPT ![p] = row] BY <1>1
<1> HIDE DEF row
<1>10. /\ policy' \in Seq(Policies) /\ Len(policy') = Len(policy)
       /\ \A q \in 1 .. Len(policy) : policy'[q] = IF q = p THEN row ELSE policy[q]
    BY <1>3, <1>6, <1>8, <1>9, ExceptSeq
<1>11. DOMAIN policy' = 1 .. Len(policy)
    BY <1>10
<1>12. \A q \in 1 .. Len(policy) : policy'[q].company = policy[q].company
                                 /\ policy'[q].type = policy[q].type
    BY <1>8, <1>10
<1>13. /\ writer' \in [Writers -> {Stopped} \cup Lookups]
       /\ \A v \in Writers : writer'[v] # Stopped => writer'[v] = writer[v]
    BY <1>2, FinishedKeeps
<1>14. LookupsAreComplete'
  <2>1. ASSUME NEW v \in Writers, writer'[v] # Stopped
        PROVE  /\ writer'[v].seen <= Len(policy')
               /\ writer'[v].rows = {q \in 1 .. writer'[v].seen :
                      policy'[q].company = writer'[v].company /\ policy'[q].type = writer'[v].type}
    <3>1. writer'[v] = writer[v] /\ writer[v] \in Lookups BY <1>13, <2>1, PolicyParts
    <3>2. writer[v].seen \in Nat /\ writer[v].seen <= Len(policy)
        BY <2>1, <3>1 DEF ComplianceInv, LookupsAreComplete, Lookups
    <3>3. 1 .. writer[v].seen \subseteq 1 .. Len(policy) BY <1>3, <3>2
    <3>4. writer[v].rows = {q \in 1 .. writer[v].seen :
                  policy[q].company = writer[v].company /\ policy[q].type = writer[v].type}
        BY <2>1, <3>1 DEF ComplianceInv, LookupsAreComplete
    <3>5. QED BY <1>10, <1>12, <3>1, <3>2, <3>3, <3>4
  <2>2. QED BY <1>2, <1>13, <2>1 DEF ComplianceInv, LookupsAreComplete
<1>15. ComplianceTypeOK'
    BY <1>2, <1>10, <1>13 DEF ComplianceInv, ComplianceTypeOK
<1>16. PolicyTwinsWereUnaware'
    BY <1>2, <1>3, <1>11, <1>12 DEF ComplianceInv, PolicyTwinsWereUnaware
<1>17. AlertsFollow'
    BY <1>2 DEF ComplianceInv, AlertsFollow, Has, Reaches
<1>18. QED BY <1>14, <1>15, <1>16, <1>17 DEF ComplianceInv

LEMMA CreatePolicyKeeps ==
    ASSUME ComplianceInv, NEW w \in Writers, CreatePolicy(w)
    PROVE  ComplianceInv'
<1> DEFINE row == [company |-> writer[w].company, type |-> writer[w].type, value |-> w]
<1>1. /\ Finished(w) /\ Len(policy) < MaxPolicies /\ writer[w].rows = {}
      /\ writer[w].at = "found" /\ UNCHANGED <<attempt, alert>>
      /\ policy' = Append(policy, row) /\ found' = Append(found, writer[w].seen)
    BY DEF CreatePolicy, Writing
<1>2. /\ policy \in Seq(Policies) /\ Len(policy) \in Nat /\ DOMAIN policy = 1 .. Len(policy)
      /\ DOMAIN found = 1 .. Len(policy)
    BY PolicyParts
<1>3. writer[w] # Stopped BY <1>1 DEF Stopped
<1>4. writer[w] \in Lookups BY <1>3, PolicyParts
<1>5. row \in Policies /\ writer[w].seen \in Nat BY <1>4 DEF Lookups, Policies
<1>6. row.company = writer[w].company /\ row.type = writer[w].type OBVIOUS
<1> HIDE DEF row
<1>7. found \in Seq(Nat) /\ Len(found) = Len(policy)
    BY DEF ComplianceInv, ComplianceTypeOK, LookupsAreComplete
<1>8. /\ policy' \in Seq(Policies) /\ Len(policy') = Len(policy) + 1
      /\ \A p \in 1 .. Len(policy) : policy'[p] = policy[p]
      /\ policy'[Len(policy) + 1] = row
    BY <1>1, <1>2, <1>5, AppendProperties
<1>9. /\ found' \in Seq(Nat) /\ Len(found') = Len(policy) + 1
      /\ \A p \in 1 .. Len(policy) : found'[p] = found[p]
      /\ found'[Len(policy) + 1] = writer[w].seen
    BY <1>1, <1>5, <1>7, AppendProperties
<1>10. /\ writer' \in [Writers -> {Stopped} \cup Lookups]
       /\ \A v \in Writers : writer'[v] # Stopped => writer'[v] = writer[v]
    BY <1>1, FinishedKeeps
<1>11. LookupsAreComplete'
  <2>1. ASSUME NEW v \in Writers, writer'[v] # Stopped
        PROVE  /\ writer'[v].seen <= Len(policy')
               /\ writer'[v].rows = {q \in 1 .. writer'[v].seen :
                      policy'[q].company = writer'[v].company /\ policy'[q].type = writer'[v].type}
    <3>1. writer'[v] = writer[v] /\ writer[v] \in Lookups BY <1>10, <2>1, PolicyParts
    <3>2. writer[v].seen \in Nat /\ writer[v].seen <= Len(policy)
        BY <2>1, <3>1 DEF ComplianceInv, LookupsAreComplete, Lookups
    <3>3. 1 .. writer[v].seen \subseteq 1 .. Len(policy) BY <1>2, <3>2
    <3>4. writer[v].rows = {q \in 1 .. writer[v].seen :
                  policy[q].company = writer[v].company /\ policy[q].type = writer[v].type}
        BY <2>1, <3>1 DEF ComplianceInv, LookupsAreComplete
    <3>5. writer[v].seen <= Len(policy') BY <1>2, <1>8, <3>2
    <3>6. \A q \in 1 .. writer[v].seen : policy'[q] = policy[q] BY <1>8, <3>3
    <3>7. QED BY <3>1, <3>4, <3>5, <3>6
  <2>2. QED BY <1>9, <1>10, <2>1 DEF LookupsAreComplete
<1>12. ComplianceTypeOK'
    BY <1>1, <1>2, <1>8, <1>9, <1>10 DEF ComplianceInv, ComplianceTypeOK
<1>13. PolicyTwinsWereUnaware'
  <2> SUFFICES ASSUME NEW p \in DOMAIN policy', NEW q \in DOMAIN policy', p < q,
                      policy'[p].company = policy'[q].company, policy'[p].type = policy'[q].type
               PROVE  p > found'[q]
      BY DEF PolicyTwinsWereUnaware
  <2>1. DOMAIN policy' = 1 .. Len(policy) + 1 BY <1>8
  <2>2. p \in 1 .. Len(policy) /\ policy'[p] = policy[p] BY <1>2, <1>8, <2>1
  <2>3. CASE q = Len(policy) + 1
    <3>1. policy[p].company = writer[w].company /\ policy[p].type = writer[w].type
        BY <1>6, <1>8, <2>2, <2>3
    <3>2. writer[w].rows = {n \in 1 .. writer[w].seen :
                               policy[n].company = writer[w].company /\ policy[n].type = writer[w].type}
        BY <1>1, <1>3 DEF ComplianceInv, LookupsAreComplete
    <3>3. writer[w].rows = {} BY <1>1
    <3>4. CASE p \in 1 .. writer[w].seen
      <4>1. p \in writer[w].rows BY <3>1, <3>2, <3>4
      <4>2. QED BY <3>3, <4>1
    <3>5. QED BY <1>5, <1>9, <2>2, <2>3, <3>4
  <2>4. CASE q # Len(policy) + 1
    <3>1. q \in 1 .. Len(policy) BY <1>2, <2>1, <2>4
    <3>2. policy'[q] = policy[q] /\ found'[q] = found[q] BY <1>8, <1>9, <3>1
    <3>3. QED BY <1>2, <2>2, <3>1, <3>2 DEF ComplianceInv, PolicyTwinsWereUnaware
  <2>5. QED BY <2>3, <2>4
<1>14. AlertsFollow'
    BY <1>1 DEF ComplianceInv, AlertsFollow, Has, Reaches
<1>15. QED BY <1>11, <1>12, <1>13, <1>14 DEF ComplianceInv

-----------------------------------------------------------------------------
LEMMA PoliciesUntouched ==
    ASSUME ComplianceInv, UNCHANGED <<policy, writer, found>>
    PROVE  LookupsAreComplete' /\ PolicyTwinsWereUnaware'
BY DEF ComplianceInv, LookupsAreComplete, PolicyTwinsWereUnaware

LEMMA ComplianceStep ==
    ASSUME ComplianceInv, [ComplianceNext]_complianceVars PROVE ComplianceInv'
<1>1. CASE ExecutePayout \/ BatchPay
    BY <1>1, AttemptKeeps, PoliciesUntouched DEF ComplianceInv, Attempt, ExecutePayout, BatchPay
<1>2. ASSUME NEW n \in DOMAIN attempt, EvaluateLarge(n) \/ EvaluateApproval(n) \/ FailAttempt(n)
      PROVE  ComplianceInv'
    BY <1>2, EvaluateKeeps, PoliciesUntouched
       DEF ComplianceInv, EvaluateLarge, EvaluateApproval, FailAttempt
<1>3. ASSUME NEW w \in Writers, FindPolicy(w) PROVE ComplianceInv'
    BY <1>3, FindPolicyKeeps
<1>4. ASSUME NEW w \in Writers, UpdatePolicy(w) PROVE ComplianceInv'
    BY <1>4, UpdatePolicyKeeps
<1>5. ASSUME NEW w \in Writers, CreatePolicy(w) PROVE ComplianceInv'
    BY <1>5, CreatePolicyKeeps
<1>6. ASSUME NEW w \in Writers, AbandonPolicy(w) PROVE ComplianceInv'
  <2>1. Finished(w) /\ UNCHANGED <<attempt, alert, policy, found>>
      BY <1>6 DEF AbandonPolicy
  <2>2. /\ writer' \in [Writers -> {Stopped} \cup Lookups]
        /\ \A v \in Writers : writer'[v] # Stopped => writer'[v] = writer[v]
      BY <2>1, FinishedKeeps
  <2>3. LookupsAreComplete' BY <2>1, <2>2 DEF ComplianceInv, LookupsAreComplete
  <2>4. ComplianceTypeOK' BY <2>1, <2>2 DEF ComplianceInv, ComplianceTypeOK
  <2>5. AlertsFollow' /\ PolicyTwinsWereUnaware'
      BY <2>1 DEF ComplianceInv, AlertsFollow, Has, Reaches, PolicyTwinsWereUnaware
  <2>6. QED BY <2>3, <2>4, <2>5 DEF ComplianceInv
<1>7. CASE UNCHANGED complianceVars
  <2>1. ComplianceTypeOK' BY <1>7 DEF complianceVars, ComplianceInv, ComplianceTypeOK
  <2>2. AlertsFollow'
      BY <1>7 DEF complianceVars, ComplianceInv, AlertsFollow, Has, Reaches
  <2>3. QED BY <1>7, <2>1, <2>2, PoliciesUntouched DEF complianceVars, ComplianceInv
<1>8. QED BY <1>1, <1>2, <1>3, <1>4, <1>5, <1>6, <1>7 DEF ComplianceNext

(* No alert is asked of an attempt below the threshold, nor of the batch    *)
(* route.                                                                   *)
Silent(n, threshold) == attempt[n].route = "batch" \/ attempt[n].amount < threshold

LEMMA ComplianceInvIsSound ==
    ASSUME ComplianceInv PROVE ComplianceIsSound
<1>1. PassedIsAnnounced
  <2> SUFFICES ASSUME NEW n \in DOMAIN attempt, attempt[n].at = "passed",
                      attempt[n].company \in Organized
               PROVE  {a.scope : a \in {b \in alert : b.attempt = n}} =
                (IF Silent(n, LargePayout) THEN {} ELSE {"LARGE_TRANSACTION_ALERT"})
                \cup (IF Silent(n, SingleLimit) THEN {} ELSE {"MANUAL_APPROVAL_THRESHOLD"})
      BY DEF PassedIsAnnounced, Silent
  <2>2. attempt \in Seq(AttemptRows) BY DEF ComplianceInv, ComplianceTypeOK, AttemptRows
  <2>3. attempt[n].amount \in Nat /\ LargePayout \in Nat /\ SingleLimit \in Nat
    <3>1. attempt[n] \in AttemptRows BY <2>2
    <3>2. Amounts \subseteq Nat /\ LargePayout \in Nat /\ SingleLimit \in Nat OBVIOUS
    <3>3. QED BY <3>1, <3>2 DEF AttemptRows
  <2>4. /\ Has(n, "LARGE_TRANSACTION_ALERT") <=> ~Silent(n, LargePayout)
        /\ Has(n, "MANUAL_APPROVAL_THRESHOLD") <=> ~Silent(n, SingleLimit)
    <3>1. attempt[n] \in AttemptRows BY <2>2
    <3>2. CASE attempt[n].route = "batch"
      BY <3>2 DEF ComplianceInv, AlertsFollow, Silent
    <3>3. CASE attempt[n].route = "execute"
      <4>1. /\ Has(n, "LARGE_TRANSACTION_ALERT") <=> Reaches(n, LargePayout)
            /\ Has(n, "MANUAL_APPROVAL_THRESHOLD") <=> Reaches(n, SingleLimit)
        BY <3>3 DEF ComplianceInv, AlertsFollow
      <4>2. /\ Reaches(n, LargePayout) <=> ~Silent(n, LargePayout)
            /\ Reaches(n, SingleLimit) <=> ~Silent(n, SingleLimit)
        BY <2>3, <3>3 DEF Reaches, Silent
      <4>3. QED BY <4>1, <4>2
    <3>4. QED BY <3>1, <3>2, <3>3 DEF AttemptRows
  <2>5. \A a \in alert : a.scope \in Scopes
      BY DEF ComplianceInv, ComplianceTypeOK, Alerts
  <2> DEFINE raised == {a.scope : a \in {b \in alert : b.attempt = n}}
  <2>6. \A scope : scope \in raised <=> Has(n, scope) BY DEF Has
  <2>7. raised \subseteq Scopes BY <2>5
  <2> HIDE DEF raised
  <2>8. \A scope : scope \in raised <=>
            \/ scope = "LARGE_TRANSACTION_ALERT" /\ ~Silent(n, LargePayout)
            \/ scope = "MANUAL_APPROVAL_THRESHOLD" /\ ~Silent(n, SingleLimit)
      BY <2>4, <2>6, <2>7 DEF Scopes
  <2>9. raised = (IF Silent(n, LargePayout) THEN {} ELSE {"LARGE_TRANSACTION_ALERT"})
                \cup (IF Silent(n, SingleLimit) THEN {} ELSE {"MANUAL_APPROVAL_THRESHOLD"})
      BY <2>8
  <2>10. QED BY <2>9 DEF raised
<1>2. AlertsWithinPolicies
  <2> SUFFICES ASSUME NEW c \in Payers, NEW a \in alert, a \in ListComplianceAlerts(c)
               PROVE  OrganizationRowVisible([u \in {"member"} |-> c], "member", a.company)
      BY DEF AlertsWithinPolicies
  <2>1. a.company = c /\ c # Nowhere BY DEF ListComplianceAlerts
  <2>2. [u \in {"member"} |-> c]["member"] = c OBVIOUS
  <2>3. QED BY <2>1, <2>2 DEF OrganizationRowVisible, CurrentOrganizations
<1>3. QED BY <1>1, <1>2 DEF ComplianceInv, ComplianceIsSound

(* Every payout of executePayout that reached a threshold, to the very      *)
(* amount, is announced before it goes on, and payouts of the batch route   *)
(* have no alerts; policies that are twins were looked for in overlap; and  *)
(* alerts are seen by their own tenant only: whatever is attempted          *)
(* (compliance.service.ts, app/api/payouts/batch/route.ts).                 *)
THEOREM ComplianceStaysSound == ComplianceSpec => []ComplianceIsSound
<1>1. ComplianceInit => ComplianceInv BY ComplianceInitInv
<1>2. ComplianceInv /\ [ComplianceNext]_complianceVars => ComplianceInv' BY ComplianceStep
<1>3. ComplianceInv => ComplianceIsSound BY ComplianceInvIsSound
<1>4. QED BY <1>1, <1>2, <1>3, PTL DEF ComplianceSpec

=============================================================================
