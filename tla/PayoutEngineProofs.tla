------------------------ MODULE PayoutEngineProofs ------------------------
(***************************************************************************)
(* Theorems about the payout engine, for any invoices, amounts, wallets,   *)
(* numbers of attempts and reviewers, and treasury funds.                  *)
(***************************************************************************)
EXTENDS PayoutEngine, TLAPS

Program == INSTANCE EscrowProofs WITH
    Escrows <- Invoices,
    Wallets <- Payees \cup {Treasury},
    Authority <- [i \in Invoices |-> Treasury],
    Amounts <- {Amount[i] : i \in Invoices},
    Supply <- Funds

USE EngineAssumption

(* The engine's parameters are parameters the escrow program allows.        *)
LEMMA SameFiniteness == \A S : IsFiniteSet(S) => Program!IsFiniteSet(S)
BY DEF IsFiniteSet, Program!IsFiniteSet

LEMMA ProgramParameters == Program!EscrowAssumption
BY SameFiniteness DEF Program!EscrowAssumption

Released == [op |-> "release", state |-> "landed"]

-----------------------------------------------------------------------------
(* The chain.                                                               *)

LEMMA SameProgram == Chain!EscrowNext => Program!EscrowNext
BY DEF Program!EscrowNext, Chain!EscrowNext,
       Program!InitializeEscrow, Chain!InitializeEscrow,
       Program!Deposit, Chain!Deposit, Program!Release, Chain!Release,
       Program!TokenTransfer, Chain!TokenTransfer,
       Program!CanTransfer, Chain!CanTransfer, Program!NoAccount, Chain!NoAccount,
       Program!Closed, Chain!Closed, Program!ReleaseAmount, Chain!ReleaseAmount,
       Program!AcceptsDeposits, Chain!AcceptsDeposits

ChainInvariants == Chain!EscrowTypeOK /\ Chain!VaultBacked /\ Chain!EscrowLedger

LEMMA SameInvariant ==
    /\ Program!EscrowInv => ChainInvariants
    /\ Program!EscrowInv' => ChainInvariants'
BY DEF ChainInvariants, Program!EscrowInv, Program!EscrowTypeOK, Chain!EscrowTypeOK,
       Program!EscrowAccount, Chain!EscrowAccount,
       Program!VaultBacked, Chain!VaultBacked,
       Program!EscrowLedger, Chain!EscrowLedger

(* Only a landing changes the chain, by an instruction of the program.      *)
LEMMA LandIsInstruction ==
    ASSUME TypeOK, NEW a \in Attempts, Land(a)
    PROVE  Chain!EscrowNext
BY DEF TypeOK, Call, Land, Chain!EscrowNext

LEMMA OffChain ==
    ASSUME Next
    PROVE  (\E a \in Attempts : Land(a)) \/ UNCHANGED chainVars
BY DEF Next, Step, Cluster, Reviewing, Lookup, Repair, ReadInvoice, CreateRow, ReclaimRow,
       InitializeEscrow, DepositEscrow, ReleaseEscrow, SavePda, Confirmation,
       MarkFailed, Confirm, Throw, Crash, Drop, ReadForReview, WriteReview, DropReview

LEMMA ChainStep == TypeOK /\ [Next]_vars => [Chain!EscrowNext]_chainVars
BY LandIsInstruction, OffChain DEF vars

(* What the program's own proofs say of any step it allows.                 *)
LEMMA ProgramStep ==
    ASSUME Program!EscrowInv, [Chain!EscrowNext]_chainVars
    PROVE  /\ Program!EscrowInv'
           /\ \A i \in Invoices : escrow[i].isReleased => escrow'[i].isReleased
<1>1. Program!EscrowInv /\ [Program!EscrowNext]_chainVars => Program!EscrowInv'
    BY Program!EscrowStepInv, ProgramParameters DEF Program!escrowVars, chainVars
<1>2. CASE UNCHANGED chainVars
    BY <1>1, <1>2 DEF chainVars
<1>3. CASE Chain!EscrowNext
  <2>1. Program!EscrowInv' BY <1>1, <1>3, SameProgram
  <2>2. ASSUME NEW i \in Invoices, escrow[i].isReleased PROVE escrow'[i].isReleased
      BY <1>3, <2>2, SameProgram, Program!ReleasedStays, ProgramParameters
  <2>3. QED BY <2>1, <2>2
<1>4. QED BY <1>2, <1>3

LEMMA ChainInv ==
    /\ Chain!EscrowInit => Program!EscrowInv
    /\ TypeOK /\ Program!EscrowInv /\ [Next]_vars => Program!EscrowInv'
<1>1. Chain!EscrowInit => Program!EscrowInv
    BY DEF Chain!EscrowInit, Chain!NoAccount, Program!EscrowInv, Program!EscrowTypeOK,
           Program!EscrowAccount, Program!BlankUntilInitialized,
           Program!VaultBacked, Program!EscrowLedger
<1>2. QED BY <1>1, ProgramStep, ChainStep

-----------------------------------------------------------------------------
(* Types.                                                                   *)

LEMMA InitTypes == Init => TypeOK
BY ChainInv, SameInvariant
   DEF ChainInvariants, Init, TypeOK, NoRow, PayoutRow, Transaction, Review, PayoutStatus, InvoiceStatus,
       Unclaimed, Operations

LEMMA RowTypes ==
    ASSUME NEW row \in PayoutRow, NEW a \in Attempts, call[a] \in Call
    PROVE  /\ ClaimedRow(a) \in PayoutRow
           /\ BookedRow(row, a) \in PayoutRow
           /\ [row EXCEPT !.status = "FAILED"] \in PayoutRow
           /\ [row EXCEPT !.escrowPda = TRUE] \in PayoutRow
BY DEF Call, PayoutRow, PayoutStatus, ClaimedRow, BookedRow

LEMMA TransactionTypes ==
    \A t \in Transaction, s \in {"landed", "dropped"} :
        [t EXCEPT !.state = s] \in Transaction
BY DEF Transaction

LEMMA TypeStep == TypeOK /\ Program!EscrowInv /\ [Next]_vars => TypeOK'
<1> SUFFICES ASSUME TypeOK, Program!EscrowInv, [Next]_vars PROVE TypeOK'
    OBVIOUS
<1>1. Chain!EscrowTypeOK'
    BY ChainInv, SameInvariant DEF ChainInvariants
<1>2. CASE UNCHANGED vars
    BY <1>1, <1>2 DEF vars, dbVars, historyVars, TypeOK
<1>3. ASSUME NEW a \in Attempts, Step(a) PROVE TypeOK'
  <2>1. payout' \in [Invoices -> PayoutRow]
    <3> DEFINE i == call[a].invoice
    <3>1. i \in Invoices /\ call[a] \in Call /\ payout \in [Invoices -> PayoutRow]
        BY DEF TypeOK, Call
    <3>2. CASE CreateRow(a)
      <4>1. payout' = [payout EXCEPT ![i] = ClaimedRow(a)] \/ payout' = payout
          BY <3>2 DEF CreateRow
      <4>2. QED BY <3>1, <4>1, RowTypes
    <3>3. CASE ReclaimRow(a)
      <4>1. payout' = [payout EXCEPT ![i] = ClaimedRow(a)]
          BY <3>3 DEF ReclaimRow
      <4>2. QED BY <3>1, <4>1, RowTypes
    <3>4. CASE SavePda(a)
      <4>1. payout' = [payout EXCEPT ![i] = [@ EXCEPT !.escrowPda = TRUE]]
          BY <3>4 DEF SavePda
      <4>2. QED BY <3>1, <4>1, RowTypes
    <3>5. CASE MarkFailed(a)
      <4>1. payout' = [payout EXCEPT ![i] = [@ EXCEPT !.status = "FAILED"]]
          BY <3>5 DEF MarkFailed
      <4>2. QED BY <3>1, <4>1, RowTypes
    <3>6. CASE Confirm(a)
      <4>1. payout' = [payout EXCEPT ![i] = BookedRow(@, a)]
          BY <3>6 DEF Confirm
      <4>2. QED BY <3>1, <4>1, RowTypes
    <3>7. QED
        BY <1>3, <3>1, <3>2, <3>3, <3>4, <3>5, <3>6
           DEF Step, dbVars, Lookup, Repair, ReadInvoice, InitializeEscrow,
               DepositEscrow, ReleaseEscrow, Confirmation
  <2>2. invoice' \in [Invoices -> InvoiceStatus] /\ call' = call /\ review' = review
      BY <1>3
         DEF TypeOK, Call, Step, InvoiceStatus, dbVars, Lookup, Repair, ReadInvoice, CreateRow,
             ReclaimRow, InitializeEscrow, DepositEscrow, ReleaseEscrow, SavePda,
             Confirmation, MarkFailed, Confirm
  <2>3. pc' \in [Attempts -> Unclaimed \cup Claimed \cup {"done"}]
      BY <1>3
         DEF TypeOK, Step, Unclaimed, Claimed, Lookup, AfterLookup, Repair, ReadInvoice,
             CreateRow, ReclaimRow, InitializeEscrow, DepositEscrow, ReleaseEscrow,
             Send, GoTo, SavePda, Confirmation, AfterLanding, MarkFailed, Confirm
  <2>4. seen' \in [Attempts -> PayoutStatus] /\ tx' \in [Attempts -> Transaction]
    <3>1. CASE Lookup(a)
        BY <3>1 DEF TypeOK, Call, PayoutRow, Lookup
    <3>2. CASE InitializeEscrow(a) \/ DepositEscrow(a) \/ ReleaseEscrow(a)
      <4>1. /\ seen' = seen
            /\ \/ tx' = tx
               \/ \E op \in Operations : tx' = [tx EXCEPT ![a] = [op |-> op, state |-> "sent"]]
          BY <3>2 DEF InitializeEscrow, DepositEscrow, ReleaseEscrow, Send, GoTo, Operations
      <4>2. QED BY <4>1 DEF TypeOK, Transaction
    <3>3. QED
        BY <1>3, <3>1, <3>2
           DEF TypeOK, Step, Repair, ReadInvoice, CreateRow, ReclaimRow, SavePda,
               Confirmation, MarkFailed, Confirm
  <2>5. /\ raced' \subseteq Invoices /\ failed' \subseteq Invoices
        /\ abandoned' \subseteq Invoices /\ overruled' \subseteq Invoices
      BY <1>3
         DEF TypeOK, Step, Call, historyVars, Lookup, Repair, ReadInvoice, CreateRow,
             ReclaimRow, InitializeEscrow, DepositEscrow, ReleaseEscrow, SavePda,
             Confirmation, MarkFailed, Confirm
  <2>6. QED BY <1>1, <2>1, <2>2, <2>3, <2>4, <2>5 DEF TypeOK
<1>4. ASSUME NEW a \in Attempts, Throw(a) \/ Crash(a) PROVE TypeOK'
    BY <1>1, <1>4 DEF TypeOK, Call, Throw, Crash, Claimed, dbVars, historyVars
<1>5. ASSUME NEW a \in Attempts, Cluster(a) PROVE TypeOK'
  <2>1. \E s \in {"landed", "dropped"} : tx' = [tx EXCEPT ![a] = [@ EXCEPT !.state = s]]
      BY <1>5 DEF Cluster, Land, Drop
  <2>2. tx' \in [Attempts -> Transaction]
    <3>1. PICK s \in {"landed", "dropped"} : tx' = [tx EXCEPT ![a] = [@ EXCEPT !.state = s]]
        BY <2>1
    <3>2. tx[a] \in Transaction BY DEF TypeOK
    <3>3. [tx[a] EXCEPT !.state = s] \in Transaction BY <3>2, TransactionTypes
    <3>4. QED BY <3>1, <3>3 DEF TypeOK
  <2>3. UNCHANGED <<dbVars, call, pc, seen, review, historyVars>>
      BY <1>5 DEF Cluster, Land, Drop
  <2>4. QED BY <1>1, <2>2, <2>3 DEF TypeOK, dbVars, historyVars
<1>6. ASSUME NEW r \in Reviewers, Reviewing(r) PROVE TypeOK'
  <2>1. invoice' \in [Invoices -> InvoiceStatus] /\ review' \in [Reviewers -> Review]
      BY <1>6 DEF TypeOK, Review, Idle, InvoiceStatus, Reviewing, ReadForReview,
                  WriteReview, DropReview, dbVars
  <2>2. overruled' \subseteq Invoices
    <3>1. CASE overruled' = overruled
        BY <3>1 DEF TypeOK
    <3>2. CASE overruled' # overruled
      <4>1. review[r] # Idle /\ overruled' = overruled \cup {review[r].invoice}
          BY <1>6, <3>2 DEF Reviewing, ReadForReview, WriteReview, DropReview, historyVars
      <4>2. review[r].invoice \in Invoices
          BY <4>1 DEF TypeOK, Review
      <4>3. QED BY <4>1, <4>2 DEF TypeOK
    <3>3. QED BY <3>1, <3>2
  <2>3. QED
      BY <1>1, <1>6, <2>1, <2>2 DEF TypeOK, Reviewing, ReadForReview, WriteReview, DropReview,
                                   dbVars, historyVars
<1>7. QED
    BY <1>2, <1>3, <1>4, <1>5, <1>6 DEF Next

-----------------------------------------------------------------------------
(* Where an attempt is tells what it has sent.                              *)

Positions ==
    \A a \in Attempts :
        /\ tx[a].op = "release" =>
               pc[a] \in {"await", "saveRelease", "markFailed", "confirm", "done"}
        /\ pc[a] \in {"saveRelease", "confirm"} => tx[a] = Released
        /\ tx[a].state # "none" => tx[a].op # "none"

LEMMA CallsFixed == [Next]_vars => call' = call
BY DEF Next, Step, Cluster, Reviewing, Lookup, Repair, ReadInvoice, CreateRow, ReclaimRow,
       InitializeEscrow, DepositEscrow, ReleaseEscrow, SavePda, Confirmation, MarkFailed,
       Confirm, Throw, Crash, Land, Drop, ReadForReview, WriteReview, DropReview, vars

LEMMA PositionStep == TypeOK /\ Positions /\ [Next]_vars => Positions'
<1> SUFFICES ASSUME TypeOK, Positions, [Next]_vars, NEW b \in Attempts
             PROVE  /\ tx'[b].op = "release" =>
                          pc'[b] \in {"await", "saveRelease", "markFailed", "confirm", "done"}
                    /\ pc'[b] \in {"saveRelease", "confirm"} => tx'[b] = Released
                    /\ tx'[b].state # "none" => tx'[b].op # "none"
    BY DEF Positions
<1> DEFINE Goal == /\ tx'[b].op = "release" =>
                          pc'[b] \in {"await", "saveRelease", "markFailed", "confirm", "done"}
                   /\ pc'[b] \in {"saveRelease", "confirm"} => tx'[b] = Released
                   /\ tx'[b].state # "none" => tx'[b].op # "none"
<1>1. CASE UNCHANGED <<pc, tx>>
    BY <1>1 DEF Positions
<1>2. ASSUME NEW a \in Attempts,
             Lookup(a) \/ Repair(a) \/ ReadInvoice(a) \/ CreateRow(a) \/ ReclaimRow(a)
      PROVE  Goal
    BY <1>2 DEF TypeOK, Positions, Lookup, AfterLookup, Repair, ReadInvoice, CreateRow, ReclaimRow
<1>3. ASSUME NEW a \in Attempts,
             InitializeEscrow(a) \/ DepositEscrow(a) \/ ReleaseEscrow(a)
      PROVE  Goal
    BY <1>3 DEF TypeOK, Positions, InitializeEscrow, DepositEscrow, ReleaseEscrow, Send, GoTo
<1>4. ASSUME NEW a \in Attempts, SavePda(a) \/ MarkFailed(a) \/ Confirm(a) PROVE Goal
    BY <1>4 DEF TypeOK, Positions, SavePda, MarkFailed, Confirm
<1>5. ASSUME NEW a \in Attempts, Confirmation(a) PROVE Goal
    BY <1>5 DEF TypeOK, Transaction, Positions, Released, Confirmation, AfterLanding,
                Finalized, Refused
<1>6. ASSUME NEW a \in Attempts, Throw(a) \/ Crash(a) PROVE Goal
    BY <1>6 DEF TypeOK, Positions, Throw, Crash, Claimed
<1>7. ASSUME NEW a \in Attempts, Cluster(a) PROVE Goal
  <2>1. PICK state \in {"landed", "dropped"} : tx' = [tx EXCEPT ![a] = [@ EXCEPT !.state = state]]
      BY <1>7 DEF Cluster, Land, Drop
  <2>2. pc' = pc /\ tx[a].state = "sent" /\ tx[a] \in Transaction
      BY <1>7 DEF TypeOK, Cluster, Land, Drop
  <2>3. CASE a = b
    <3>1. tx'[b].op = tx[b].op /\ tx[b] # Released
        BY <2>1, <2>2, <2>3 DEF TypeOK, Transaction, Released
    <3>2. QED BY <2>2, <2>3, <3>1 DEF Positions
  <2>4. CASE a # b
      BY <2>1, <2>2, <2>4 DEF TypeOK, Positions
  <2>5. QED BY <2>3, <2>4
<1>8. ASSUME NEW r \in Reviewers, Reviewing(r) PROVE UNCHANGED <<pc, tx>>
    BY <1>8 DEF Reviewing, ReadForReview, WriteReview, DropReview
<1>9. QED
    BY <1>1, <1>2, <1>3, <1>4, <1>5, <1>6, <1>7, <1>8 DEF Next, Step, vars

(* A landed release is the last transaction of its attempt.                 *)
LEMMA WinnerStays ==
    ASSUME TypeOK, Positions, [Next]_vars, NEW b \in Attempts, tx[b] = Released
    PROVE  tx'[b] = Released
<1> USE DEF Released
<1>1. ASSUME NEW a \in Attempts, Step(a) PROVE tx'[b] = Released
    BY <1>1 DEF TypeOK, Positions, Step, Lookup, Repair, ReadInvoice, CreateRow, ReclaimRow,
                InitializeEscrow, DepositEscrow, ReleaseEscrow, Send, GoTo, SavePda,
                Confirmation, MarkFailed, Confirm
<1>2. ASSUME NEW a \in Attempts, Cluster(a) PROVE tx'[b] = Released
    BY <1>2 DEF TypeOK, Cluster, Land, Drop
<1>3. QED
    BY <1>1, <1>2 DEF Next, Throw, Crash, Reviewing, ReadForReview, WriteReview, DropReview, vars

LEMMA ReleaseStays ==
    ASSUME TypeOK, Program!EscrowInv, [Next]_vars, NEW i \in Invoices, escrow[i].isReleased
    PROVE  escrow'[i].isReleased
BY ChainStep, ProgramStep

-----------------------------------------------------------------------------
(* Nothing is booked before its release landed.                             *)

Releases ==
    /\ \A a \in Attempts :
          tx[a] = Released \/ pc[a] = "repair" => escrow[call[a].invoice].isReleased
    /\ \A i \in Invoices :
          payout[i].status = "CONFIRMED" \/ invoice[i] = "PAID" => escrow[i].isReleased

(* What lets a release land, an attempt repair, a row become CONFIRMED and  *)
(* an invoice PAID.                                                         *)
LEMMA NewlyBooked ==
    ASSUME TypeOK, Positions, Next
    PROVE  /\ \A b \in Attempts : tx'[b] = Released /\ tx[b] # Released =>
                 escrow'[call[b].invoice].isReleased
           /\ \A b \in Attempts : pc'[b] = "repair" /\ pc[b] # "repair" =>
                 payout[call[b].invoice].status = "CONFIRMED"
           /\ \A i \in Invoices :
                 payout'[i].status = "CONFIRMED" /\ payout[i].status # "CONFIRMED" =>
                 \E a \in Attempts : Confirm(a) /\ call[a].invoice = i /\ tx[a] = Released
           /\ \A i \in Invoices :
                 invoice'[i] = "PAID" /\ invoice[i] # "PAID" =>
                 \E a \in Attempts :
                     /\ call[a].invoice = i
                     /\ (Repair(a) /\ pc[a] = "repair") \/ (Confirm(a) /\ tx[a] = Released)
<1>1. ASSUME NEW b \in Attempts, tx'[b] = Released, tx[b] # Released
      PROVE  escrow'[call[b].invoice].isReleased
  <2>1. ASSUME NEW a \in Attempts, Land(a) PROVE escrow'[call[b].invoice].isReleased
    <3>1. a = b /\ tx[b].op = "release"
        BY <1>1, <2>1 DEF TypeOK, Transaction, Land, Released
    <3>2. Chain!Release(call[b].invoice, Treasury, call[b].wallet)
        BY <2>1, <3>1 DEF Land
    <3>3. escrow \in [Invoices -> Chain!EscrowAccount] /\ call[b].invoice \in Invoices
        BY DEF TypeOK, Call, Chain!EscrowTypeOK
    <3>4. QED
        BY <3>2, <3>3 DEF Chain!Release, Chain!Closed, Chain!EscrowAccount
  <2>2. ASSUME NEW a \in Attempts, Step(a) PROVE FALSE
      BY <1>1, <2>2
         DEF TypeOK, Positions, Released, Step, Lookup, Repair, ReadInvoice, CreateRow,
             ReclaimRow, InitializeEscrow, DepositEscrow, ReleaseEscrow, Send, GoTo, SavePda,
             Confirmation, MarkFailed, Confirm
  <2>3. ASSUME NEW a \in Attempts, Drop(a) PROVE FALSE
      BY <1>1, <2>3 DEF TypeOK, Transaction, Released, Drop
  <2>4. ASSUME tx' = tx PROVE FALSE
      BY <1>1, <2>4
  <2>5. ASSUME NEW a \in Attempts, Throw(a) \/ Crash(a) PROVE tx' = tx
      BY <2>5 DEF Throw, Crash
  <2>6. ASSUME NEW r \in Reviewers, Reviewing(r) PROVE tx' = tx
      BY <2>6 DEF Reviewing, ReadForReview, WriteReview, DropReview
  <2>7. QED BY <2>1, <2>2, <2>3, <2>4, <2>5, <2>6 DEF Next, Cluster
<1>2. ASSUME NEW b \in Attempts, pc'[b] = "repair", pc[b] # "repair"
      PROVE  payout[call[b].invoice].status = "CONFIRMED"
  <2>2. ASSUME NEW a \in Attempts, Lookup(a)
        PROVE  payout[call[b].invoice].status = "CONFIRMED"
    <3>1. a = b /\ AfterLookup(payout[call[b].invoice]) = "repair"
        BY <1>2, <2>2 DEF TypeOK, Lookup
    <3>2. QED BY <3>1 DEF AfterLookup
  <2>3. ASSUME NEW a \in Attempts,
               Repair(a) \/ ReadInvoice(a) \/ CreateRow(a) \/ ReclaimRow(a)
        PROVE  FALSE
      BY <1>2, <2>3 DEF TypeOK, Repair, ReadInvoice, CreateRow, ReclaimRow
  <2>4. ASSUME NEW a \in Attempts,
               InitializeEscrow(a) \/ DepositEscrow(a) \/ ReleaseEscrow(a) \/ SavePda(a)
        PROVE  FALSE
      BY <1>2, <2>4 DEF TypeOK, InitializeEscrow, DepositEscrow, ReleaseEscrow, Send, GoTo,
                        SavePda
  <2>5. ASSUME NEW a \in Attempts,
               Confirmation(a) \/ MarkFailed(a) \/ Confirm(a) \/ Throw(a) \/ Crash(a)
        PROVE  FALSE
      BY <1>2, <2>5 DEF TypeOK, Confirmation, AfterLanding, MarkFailed, Confirm, Throw, Crash
  <2>6. ASSUME NEW a \in Attempts, Cluster(a) PROVE pc' = pc
      BY <2>6 DEF Cluster, Land, Drop
  <2>7. ASSUME NEW r \in Reviewers, Reviewing(r) PROVE pc' = pc
      BY <2>7 DEF Reviewing, ReadForReview, WriteReview, DropReview
  <2>8. QED BY <1>2, <2>2, <2>3, <2>4, <2>5, <2>6, <2>7 DEF Next, Step
<1>3. ASSUME NEW i \in Invoices,
             \/ payout'[i].status = "CONFIRMED" /\ payout[i].status # "CONFIRMED"
             \/ invoice'[i] = "PAID" /\ invoice[i] # "PAID"
      PROVE  \E a \in Attempts :
                /\ call[a].invoice = i
                /\ \/ Repair(a) /\ pc[a] = "repair" /\ payout' = payout
                   \/ Confirm(a) /\ tx[a] = Released
  <2> DEFINE Goal == \E a \in Attempts :
                        /\ call[a].invoice = i
                        /\ \/ Repair(a) /\ pc[a] = "repair" /\ payout' = payout
                           \/ Confirm(a) /\ tx[a] = Released
  <2>1. ASSUME NEW a \in Attempts, Repair(a) PROVE Goal
      BY <1>3, <2>1 DEF TypeOK, Repair
  <2>2. ASSUME NEW a \in Attempts, Confirm(a) PROVE Goal
      BY <1>3, <2>2 DEF TypeOK, Confirm, Positions
  <2>3. ASSUME NEW a \in Attempts, CreateRow(a) \/ ReclaimRow(a) PROVE FALSE
    <3>1. invoice' = invoice BY <2>3 DEF CreateRow, ReclaimRow
    <3>2. \/ payout' = payout
          \/ payout' = [payout EXCEPT ![call[a].invoice] = ClaimedRow(a)]
        BY <2>3 DEF CreateRow, ReclaimRow
    <3>3. payout'[i] = payout[i] \/ payout'[i] = ClaimedRow(a)
        BY <3>2 DEF TypeOK
    <3>4. QED BY <1>3, <3>1, <3>3 DEF ClaimedRow
  <2>4. ASSUME NEW a \in Attempts, MarkFailed(a) \/ SavePda(a) PROVE FALSE
    <3>1. invoice' = invoice BY <2>4 DEF MarkFailed, SavePda
    <3>2. \/ payout' = [payout EXCEPT ![call[a].invoice] = [@ EXCEPT !.status = "FAILED"]]
          \/ payout' = [payout EXCEPT ![call[a].invoice] = [@ EXCEPT !.escrowPda = TRUE]]
        BY <2>4 DEF MarkFailed, SavePda
    <3>3. \/ payout'[i] = payout[i]
          \/ payout'[i] = [payout[i] EXCEPT !.status = "FAILED"]
          \/ payout'[i] = [payout[i] EXCEPT !.escrowPda = TRUE]
        BY <3>2 DEF TypeOK
    <3>4. payout[i] \in PayoutRow BY DEF TypeOK
    <3>5. payout'[i].status \in {payout[i].status, "FAILED"}
        BY <3>3, <3>4 DEF PayoutRow
    <3>6. QED BY <1>3, <3>1, <3>5
  <2>5. ASSUME NEW r \in Reviewers, Reviewing(r) PROVE FALSE
      BY <1>3, <2>5 DEF TypeOK, Review, Idle, Reviewing, ReadForReview, WriteReview,
                        DropReview, dbVars
  <2>6. QED
      BY <1>3, <2>1, <2>2, <2>3, <2>4, <2>5
         DEF Next, Step, Cluster, dbVars, Lookup, ReadInvoice, InitializeEscrow,
             DepositEscrow, ReleaseEscrow, Confirmation, Throw, Crash, Land, Drop
<1>4. QED BY <1>1, <1>2, <1>3

(* So whatever is newly booked finds, or makes, the escrow released.        *)
LEMMA NewlyReleased ==
    ASSUME TypeOK, Positions, Releases, Next
    PROVE  /\ \A b \in Attempts : tx'[b] = Released /\ tx[b] # Released =>
                 escrow'[call[b].invoice].isReleased
           /\ \A b \in Attempts : pc'[b] = "repair" => escrow[call[b].invoice].isReleased
           /\ \A i \in Invoices :
                 \/ payout'[i].status = "CONFIRMED" /\ payout[i].status # "CONFIRMED"
                 \/ invoice'[i] = "PAID" /\ invoice[i] # "PAID"
                 => escrow[i].isReleased
<1>1. \A b \in Attempts : call[b].invoice \in Invoices
    BY DEF TypeOK, Call
<1>2. QED BY <1>1, NewlyBooked DEF Releases

LEMMA ReleasesStep ==
    TypeOK /\ Positions /\ Releases /\ Program!EscrowInv /\ [Next]_vars => Releases'
<1> SUFFICES ASSUME TypeOK, Positions, Releases, Program!EscrowInv, [Next]_vars
             PROVE  Releases'
    OBVIOUS
<1>1. CASE UNCHANGED vars
    BY <1>1 DEF vars, chainVars, dbVars, Releases, Released
<1>2. CASE Next
  <2>1. \A i \in Invoices : escrow[i].isReleased => escrow'[i].isReleased
      BY ReleaseStays
  <2>2. \A a \in Attempts : call'[a] = call[a] /\ call[a].invoice \in Invoices
      BY CallsFixed DEF TypeOK, Call
  <2>3. QED BY <1>2, <2>1, <2>2, NewlyReleased DEF Releases, Released
<1>3. QED BY <1>1, <1>2

-----------------------------------------------------------------------------
(* What a step can do to one row, one transaction and one attempt: the      *)
(* steps of the invariants below are read off these facts.                  *)

LEMMA RowChanges ==
    ASSUME TypeOK, Next, NEW i \in Invoices, payout'[i] # payout[i]
    PROVE  \E a \in Attempts :
              /\ call[a].invoice = i
              /\ \/ /\ CreateRow(a)
                    /\ payout[i].status = "NONE"
                    /\ payout'[i] = ClaimedRow(a)
                 \/ ReclaimRow(a) /\ payout'[i] = ClaimedRow(a)
                 \/ SavePda(a) /\ payout'[i] = [payout[i] EXCEPT !.escrowPda = TRUE]
                 \/ MarkFailed(a) /\ payout'[i] = [payout[i] EXCEPT !.status = "FAILED"]
                 \/ Confirm(a) /\ payout'[i] = BookedRow(payout[i], a)
<1> USE DEF TypeOK
<1>1. ASSUME NEW a \in Attempts, CreateRow(a)
      PROVE  call[a].invoice = i /\ payout[i].status = "NONE" /\ payout'[i] = ClaimedRow(a)
    BY <1>1 DEF CreateRow, RowFree
<1>2. ASSUME NEW a \in Attempts, ReclaimRow(a)
      PROVE  call[a].invoice = i /\ payout'[i] = ClaimedRow(a)
    BY <1>2 DEF ReclaimRow
<1>3. ASSUME NEW a \in Attempts, SavePda(a)
      PROVE  call[a].invoice = i /\ payout'[i] = [payout[i] EXCEPT !.escrowPda = TRUE]
    BY <1>3 DEF SavePda
<1>4. ASSUME NEW a \in Attempts, MarkFailed(a)
      PROVE  call[a].invoice = i /\ payout'[i] = [payout[i] EXCEPT !.status = "FAILED"]
    BY <1>4 DEF MarkFailed
<1>5. ASSUME NEW a \in Attempts, Confirm(a)
      PROVE  call[a].invoice = i /\ payout'[i] = BookedRow(payout[i], a)
    BY <1>5 DEF Confirm
<1>6. \E a \in Attempts :
         CreateRow(a) \/ ReclaimRow(a) \/ SavePda(a) \/ MarkFailed(a) \/ Confirm(a)
    BY DEF Next, Step, Cluster, Reviewing, dbVars, Lookup, Repair, ReadInvoice,
           InitializeEscrow, DepositEscrow, ReleaseEscrow, Confirmation, Throw, Crash,
           Land, Drop, ReadForReview, WriteReview, DropReview
<1>7. QED BY <1>1, <1>2, <1>3, <1>4, <1>5, <1>6

LEMMA TransactionChanges ==
    ASSUME TypeOK, Next, NEW b \in Attempts, tx'[b] # tx[b]
    PROVE  \/ /\ InitializeEscrow(b) \/ DepositEscrow(b) \/ ReleaseEscrow(b)
              /\ pc[b] \in Claimed
              /\ tx'[b].op \in Operations /\ tx'[b].state = "sent"
              /\ tx'[b].op = "deposit" => DepositEscrow(b)
           \/ /\ Land(b)
              /\ tx[b].state = "sent"
              /\ tx'[b].op = tx[b].op /\ tx'[b].state = "landed"
           \/ /\ Drop(b)
              /\ tx[b].state = "sent"
              /\ tx'[b].op = tx[b].op /\ tx'[b].state = "dropped"
<1>1. PICK a \in Attempts :
          InitializeEscrow(a) \/ DepositEscrow(a) \/ ReleaseEscrow(a) \/ Land(a) \/ Drop(a)
    BY DEF Next, Step, Cluster, Reviewing, Lookup, Repair, ReadInvoice, CreateRow,
           ReclaimRow, SavePda, Confirmation, MarkFailed, Confirm, Throw, Crash,
           ReadForReview, WriteReview, DropReview
<1>2. a = b
    BY <1>1 DEF TypeOK, InitializeEscrow, DepositEscrow, ReleaseEscrow, Send, GoTo, Land, Drop
<1>3. CASE InitializeEscrow(b) \/ DepositEscrow(b) \/ ReleaseEscrow(b)
    BY <1>3 DEF TypeOK, InitializeEscrow, DepositEscrow, ReleaseEscrow, Send, GoTo, Claimed,
                Operations
<1>4. CASE Land(b) \/ Drop(b)
    BY <1>4 DEF TypeOK, Transaction, Land, Drop
<1>5. QED BY <1>1, <1>2, <1>3, <1>4

Live(a) == pc[a] \in Claimed

LEMMA LiveChanges ==
    ASSUME TypeOK, Next, NEW b \in Attempts, pc'[b] \in Claimed, ~Live(b)
    PROVE  \/ CreateRow(b) /\ payout[call[b].invoice].status = "NONE"
           \/ ReclaimRow(b)
<1> USE DEF Live, Claimed
<1>1. ASSUME NEW a \in Attempts, Lookup(a) \/ Repair(a) \/ ReadInvoice(a) PROVE FALSE
    BY <1>1 DEF TypeOK, Lookup, AfterLookup, Repair, ReadInvoice
<1>2. ASSUME NEW a \in Attempts, CreateRow(a) \/ ReclaimRow(a)
      PROVE  a = b /\ (CreateRow(b) => payout[call[b].invoice].status = "NONE")
    BY <1>2 DEF TypeOK, CreateRow, ReclaimRow, RowFree
<1>3. ASSUME NEW a \in Attempts, InitializeEscrow(a) \/ DepositEscrow(a) \/ ReleaseEscrow(a)
      PROVE  FALSE
    BY <1>3 DEF TypeOK, InitializeEscrow, DepositEscrow, ReleaseEscrow, Send, GoTo
<1>4. ASSUME NEW a \in Attempts, SavePda(a) \/ Confirmation(a) \/ MarkFailed(a) \/ Confirm(a)
      PROVE  FALSE
    BY <1>4 DEF TypeOK, SavePda, Confirmation, MarkFailed, Confirm
<1>5. ASSUME NEW a \in Attempts, Throw(a) \/ Crash(a) PROVE FALSE
    BY <1>5 DEF TypeOK, Throw, Crash
<1>6. ASSUME NEW a \in Attempts, Cluster(a) PROVE FALSE
    BY <1>6 DEF Cluster, Land, Drop
<1>7. ASSUME NEW r \in Reviewers, Reviewing(r) PROVE FALSE
    BY <1>7 DEF Reviewing, ReadForReview, WriteReview, DropReview
<1>8. QED BY <1>1, <1>2, <1>3, <1>4, <1>5, <1>6, <1>7 DEF Next, Step

-----------------------------------------------------------------------------
(* Signatures and winners.                                                  *)

LEMMA SignatureStep ==
    TypeOK /\ Positions /\ SignatureIsEvidence /\ [Next]_vars => SignatureIsEvidence'
<1> SUFFICES ASSUME TypeOK, Positions, SignatureIsEvidence, [Next]_vars, NEW i \in Invoices
             PROVE  LET a == payout'[i].txSignature IN
                    /\ payout'[i].status = "CONFIRMED" => a # None
                    /\ a # None =>
                          a \in Attempts /\ call[a].invoice = i /\ tx'[a] = Released
    BY CallsFixed DEF SignatureIsEvidence, Released
<1>1. payout[i] \in PayoutRow
    BY DEF TypeOK
<1>2. CASE payout'[i] = payout[i]
  <2> DEFINE a == payout[i].txSignature
  <2>1. a # None => a \in Attempts /\ call[a].invoice = i /\ tx[a] = Released
      BY <1>1 DEF PayoutRow, SignatureIsEvidence, Released
  <2>2. QED BY <1>2, <2>1, WinnerStays DEF SignatureIsEvidence
<1>3. CASE payout'[i] # payout[i]
  <2>1. Next BY <1>3 DEF vars, dbVars
  <2>2. PICK a \in Attempts :
              /\ call[a].invoice = i
              /\ \/ payout'[i] = ClaimedRow(a)
                 \/ payout'[i] = [payout[i] EXCEPT !.escrowPda = TRUE]
                 \/ payout'[i] = [payout[i] EXCEPT !.status = "FAILED"]
                 \/ Confirm(a) /\ payout'[i] = BookedRow(payout[i], a)
      BY <1>3, <2>1, RowChanges
  <2>3. CASE payout'[i] = ClaimedRow(a)
      BY <2>3 DEF ClaimedRow
  <2>4. CASE \/ payout'[i] = [payout[i] EXCEPT !.escrowPda = TRUE]
             \/ payout'[i] = [payout[i] EXCEPT !.status = "FAILED"]
    <3> DEFINE w == payout[i].txSignature
    <3>1. payout'[i].txSignature = w
        BY <1>1, <2>4 DEF PayoutRow
    <3>2. payout'[i].status = "CONFIRMED" => payout[i].status = "CONFIRMED"
        BY <1>1, <2>4 DEF PayoutRow
    <3>3. w # None => w \in Attempts /\ call[w].invoice = i /\ tx[w] = Released
        BY <1>1 DEF PayoutRow, SignatureIsEvidence, Released
    <3>4. QED BY <3>1, <3>2, <3>3, WinnerStays DEF SignatureIsEvidence
  <2>5. CASE Confirm(a) /\ payout'[i] = BookedRow(payout[i], a)
    <3>1. payout'[i].txSignature = a
        BY <1>1, <2>5 DEF BookedRow, PayoutRow
    <3>2. tx[a] = Released
        BY <2>5 DEF Positions, Confirm
    <3>3. a # None
        OBVIOUS
    <3>4. QED BY <2>2, <3>1, <3>2, <3>3, WinnerStays
  <2>6. QED BY <2>2, <2>3, <2>4, <2>5
<1>4. QED BY <1>2, <1>3

(* A second release of an escrow is refused, so no second attempt wins.     *)
LEMMA WinnerStep ==
    TypeOK /\ Positions /\ Releases /\ OneWinner /\ [Next]_vars => OneWinner'
<1> SUFFICES ASSUME TypeOK, Positions, Releases, OneWinner, [Next]_vars,
                    NEW a \in Attempts, NEW b \in Attempts,
                    call[a].invoice = call[b].invoice, tx'[a] = Released, tx'[b] = Released
             PROVE  a = b
    BY CallsFixed DEF OneWinner, Released
<1>1. ASSUME NEW c \in Attempts, tx'[c] = Released, tx[c] # Released
      PROVE  Land(c) /\ ~escrow[call[c].invoice].isReleased
  <2>1. Next BY <1>1 DEF vars
  <2>2. tx'[c] # tx[c] /\ tx'[c].state = "landed" /\ tx'[c].op = "release"
      BY <1>1 DEF Released
  <2>3. Land(c) /\ tx'[c].op = tx[c].op
      BY <2>1, <2>2, TransactionChanges
  <2>4. tx[c].op = "release"
      BY <2>2, <2>3
  <2>5. QED BY <2>3, <2>4 DEF Land, Chain!Release
<1>2. CASE tx[a] = Released /\ tx[b] = Released
    BY <1>2 DEF OneWinner, Released
<1>3. CASE tx[a] # Released /\ tx[b] # Released
  <2>1. Land(a) /\ tx[b] # tx'[b] BY <1>1, <1>3
  <2>2. QED BY <2>1 DEF TypeOK, Land
<1>4. ASSUME NEW c \in Attempts, NEW d \in Attempts, call[c].invoice = call[d].invoice,
             tx'[c] = Released, tx[c] # Released, tx[d] = Released
      PROVE  FALSE
    BY <1>1, <1>4 DEF Releases
<1>5. QED BY <1>2, <1>3, <1>4

-----------------------------------------------------------------------------
(* Claims: who holds an invoice has made its row, and a FAILED row, or one  *)
(* read as FAILED, was marked so by an attempt.                             *)

Claims ==
    /\ \A a \in Attempts : Holds(a) => payout[call[a].invoice].status # "NONE"
    /\ \A a \in Attempts : seen[a] = "FAILED" => call[a].invoice \in failed
    /\ \A i \in Invoices : payout[i].status = "FAILED" => i \in failed

LEMMA HoldChanges ==
    ASSUME TypeOK, Next, NEW b \in Attempts, Holds(b)', ~Holds(b)
    PROVE  \/ CreateRow(b) /\ payout[call[b].invoice].status = "NONE"
           \/ ReclaimRow(b)
<1>1. CASE pc'[b] \in Claimed
    BY <1>1, LiveChanges DEF Holds, Live
<1>2. CASE pc'[b] \notin Claimed
  <2>1. tx'[b] # tx[b] /\ tx[b].op = "none" /\ pc[b] \notin Claimed
      BY <1>2 DEF Holds
  <2>2. (Land(b) \/ Drop(b)) /\ tx'[b].op = tx[b].op
      BY <2>1, TransactionChanges
  <2>3. QED BY <1>2, <2>1, <2>2 DEF Holds
<1>3. QED BY <1>1, <1>2

LEMMA FailedChanges ==
    ASSUME TypeOK, [Next]_vars
    PROVE  /\ failed \subseteq failed'
           /\ raced \subseteq raced'
           /\ \A a \in Attempts : MarkFailed(a) => call[a].invoice \in failed'
           /\ \A a \in Attempts :
                 seen'[a] = seen[a] \/ seen'[a] = payout[call[a].invoice].status
<1>1. CASE UNCHANGED vars
    BY <1>1 DEF vars, historyVars, MarkFailed, TypeOK
<1>2. ASSUME NEW a \in Attempts, Step(a)
      PROVE  failed \subseteq failed' /\ raced \subseteq raced'
    BY <1>2 DEF TypeOK, Step, historyVars, Lookup, Repair, ReadInvoice, CreateRow, ReclaimRow,
                InitializeEscrow, DepositEscrow, ReleaseEscrow, SavePda, Confirmation,
                MarkFailed, Confirm
<1>3. ASSUME NEW a \in Attempts, Lookup(a), NEW b \in Attempts
      PROVE  seen'[b] = seen[b] \/ seen'[b] = payout[call[b].invoice].status
    BY <1>3 DEF TypeOK, Lookup
<1>4. ASSUME NEW a \in Attempts, Step(a), ~Lookup(a)
      PROVE  seen' = seen
    BY <1>4 DEF Step, Repair, ReadInvoice, CreateRow, ReclaimRow,
                InitializeEscrow, DepositEscrow, ReleaseEscrow, SavePda, Confirmation,
                MarkFailed, Confirm
<1>5. ASSUME NEW a \in Attempts, Throw(a) \/ Crash(a) \/ Cluster(a)
      PROVE  seen' = seen /\ failed' = failed /\ raced' = raced
    BY <1>5 DEF historyVars, Throw, Crash, Cluster, Land, Drop
<1>6. ASSUME NEW r \in Reviewers, Reviewing(r)
      PROVE  seen' = seen /\ failed' = failed /\ raced' = raced
    BY <1>6 DEF historyVars, Reviewing, ReadForReview, WriteReview, DropReview
<1>7. \A a \in Attempts : MarkFailed(a) => call[a].invoice \in failed'
    BY DEF MarkFailed
<1>8. QED BY <1>1, <1>2, <1>3, <1>4, <1>5, <1>6, <1>7 DEF Next, vars, historyVars

LEMMA ClaimsStep == TypeOK /\ Claims /\ [Next]_vars => Claims'
<1> SUFFICES ASSUME TypeOK, Claims, [Next]_vars PROVE Claims'
    OBVIOUS
<1>1. CASE UNCHANGED vars
    BY <1>1 DEF vars, dbVars, historyVars, Claims, Holds
<1>2. CASE Next
  <2>1. ASSUME NEW i \in Invoices
        PROVE  /\ payout[i].status # "NONE" => payout'[i].status # "NONE"
               /\ payout'[i].status = "FAILED" => i \in failed'
    <3>1. payout[i] \in PayoutRow BY DEF TypeOK
    <3>2. CASE payout'[i] = payout[i]
        BY <3>2, FailedChanges DEF Claims
    <3>3. CASE payout'[i] # payout[i]
      <4>1. PICK a \in Attempts :
                  /\ call[a].invoice = i
                  /\ \/ payout'[i] = ClaimedRow(a)
                     \/ SavePda(a) /\ payout'[i] = [payout[i] EXCEPT !.escrowPda = TRUE]
                     \/ MarkFailed(a) /\ payout'[i] = [payout[i] EXCEPT !.status = "FAILED"]
                     \/ payout'[i] = BookedRow(payout[i], a)
          BY <1>2, <3>3, RowChanges
      <4>2. CASE payout'[i] = ClaimedRow(a)
          BY <4>2 DEF ClaimedRow
      <4>3. CASE payout'[i] = [payout[i] EXCEPT !.escrowPda = TRUE]
          BY <3>1, <4>3, FailedChanges DEF PayoutRow, Claims
      <4>4. CASE MarkFailed(a) /\ payout'[i] = [payout[i] EXCEPT !.status = "FAILED"]
          BY <3>1, <4>1, <4>4, FailedChanges DEF PayoutRow
      <4>5. CASE payout'[i] = BookedRow(payout[i], a)
          BY <3>1, <4>5 DEF PayoutRow, BookedRow
      <4>6. QED BY <4>1, <4>2, <4>3, <4>4, <4>5
    <3>4. QED BY <3>2, <3>3
  <2>2. ASSUME NEW b \in Attempts, Holds(b)'
        PROVE  payout'[call[b].invoice].status # "NONE"
    <3>1. call[b].invoice \in Invoices BY DEF TypeOK, Call
    <3>2. CASE Holds(b)
        BY <2>1, <3>1, <3>2 DEF Claims
    <3>3. CASE ~Holds(b)
      <4>1. (CreateRow(b) /\ payout[call[b].invoice].status = "NONE") \/ ReclaimRow(b)
          BY <1>2, <2>2, <3>3, HoldChanges
      <4>2. payout' = [payout EXCEPT ![call[b].invoice] = ClaimedRow(b)]
          BY <4>1 DEF CreateRow, RowFree, ReclaimRow
      <4>3. QED BY <3>1, <4>2 DEF TypeOK, ClaimedRow
    <3>4. QED BY <3>2, <3>3
  <2>3. ASSUME NEW b \in Attempts, seen'[b] = "FAILED"
        PROVE  call[b].invoice \in failed'
      BY <2>3, FailedChanges DEF TypeOK, Call, Claims
  <2>4. QED BY <2>1, <2>2, <2>3, CallsFixed DEF Claims, Holds
<1>3. QED BY <1>1, <1>2

(* The unique index lets one attempt create the row; another one holds the  *)
(* invoice only by a retry, after a failure.                                *)
LEMMA FirstClaimStep ==
    TypeOK /\ Claims /\ FirstClaimIsExclusive /\ [Next]_vars => FirstClaimIsExclusive'
<1> SUFFICES ASSUME TypeOK, Claims, FirstClaimIsExclusive, [Next]_vars,
                    NEW a \in Attempts, NEW b \in Attempts, Holds(a)', Holds(b)',
                    call[a].invoice = call[b].invoice, call[a].invoice \notin failed'
             PROVE  a = b
    BY CallsFixed DEF FirstClaimIsExclusive
<1>1. call[a].invoice \notin failed
    BY FailedChanges
<1>2. CASE Holds(a) /\ Holds(b)
    BY <1>1, <1>2 DEF FirstClaimIsExclusive
<1>3. ASSUME NEW c \in Attempts, Holds(c)', ~Holds(c), call[c].invoice \notin failed
      PROVE  CreateRow(c) /\ payout[call[c].invoice].status = "NONE"
  <2>1. Next BY <1>3 DEF vars, Holds
  <2>2. ~ReclaimRow(c) BY <1>3 DEF ReclaimRow, Claims
  <2>3. QED BY <1>3, <2>1, <2>2, HoldChanges
<1>4. CASE ~Holds(a) /\ ~Holds(b)
  <2>1. CreateRow(a) /\ pc[b] # pc'[b] BY <1>1, <1>3, <1>4 DEF Holds, CreateRow, RowFree
  <2>2. QED BY <2>1 DEF CreateRow, TypeOK
<1>5. CASE (Holds(a) /\ ~Holds(b)) \/ (~Holds(a) /\ Holds(b))
    BY <1>1, <1>3, <1>5 DEF Claims
<1>6. QED BY <1>2, <1>4, <1>5

-----------------------------------------------------------------------------
(* While no retry has raced for an invoice, one attempt at most is live on  *)
(* it or has a transaction in flight, its row is PENDING while one is live, *)
(* and a deposit is in flight only when nothing was deposited.              *)

Sent(a) == tx[a].state = "sent"

Together(a, b) == call[a].invoice = call[b].invoice

LiveIsAlone ==
    \A a \in Attempts : Live(a) /\ call[a].invoice \notin raced =>
        /\ payout[call[a].invoice].status = "PENDING"
        /\ \A b \in Attempts : Together(a, b) /\ (Live(b) \/ Sent(b)) => a = b

SentIsAlone ==
    \A a, b \in Attempts :
        Together(a, b) /\ Sent(a) /\ Sent(b) /\ call[a].invoice \notin raced => a = b

DepositIsFirst ==
    \A a \in Attempts :
        Sent(a) /\ tx[a].op = "deposit" /\ call[a].invoice \notin raced =>
            deposited[call[a].invoice] = 0

Races == LiveIsAlone /\ SentIsAlone /\ DepositIsFirst /\ ExactUnlessRaced

(* An attempt becomes live alone, or the invoice is raced from then on.     *)
LEMMA NewlyLive ==
    ASSUME TypeOK, Positions, Claims, LiveIsAlone, Next,
           NEW a \in Attempts, Live(a)', ~Live(a), call[a].invoice \notin raced'
    PROVE  /\ \A b \in Attempts : Together(a, b) => ~Live(b) /\ ~Sent(b)
           /\ payout'[call[a].invoice].status = "PENDING"
           /\ \A b \in Attempts \ {a} : pc'[b] = pc[b]
<1> DEFINE i == call[a].invoice
<1>1. i \in Invoices /\ i \notin raced BY FailedChanges DEF TypeOK, Call
<1>2. (CreateRow(a) /\ payout[i].status = "NONE") \/ ReclaimRow(a)
    BY LiveChanges DEF Live
<1>3. payout' = [payout EXCEPT ![i] = ClaimedRow(a)]
    BY <1>2 DEF CreateRow, RowFree, ReclaimRow
<1>4. payout'[i].status = "PENDING"
    BY <1>1, <1>3 DEF TypeOK, ClaimedRow
<1>5. ASSUME NEW b \in Attempts, Together(a, b) PROVE ~Live(b) /\ ~Sent(b)
  <2>1. CASE payout[i].status = "NONE"
    <3>1. ~Holds(b) BY <1>5, <2>1 DEF Claims, Together
    <3>2. QED BY <3>1 DEF Holds, Live, Sent, Positions
  <2>2. CASE ReclaimRow(a)
    <3>1. payout[i].status = "FAILED" /\ ~Unresolved(i)
        BY <2>2 DEF ReclaimRow
    <3>2. ~Sent(b) BY <1>5, <3>1 DEF Unresolved, Sent, Together
    <3>3. ~Live(b) BY <1>1, <1>5, <3>1 DEF LiveIsAlone, Together
    <3>4. QED BY <3>2, <3>3
  <2>3. QED BY <1>2, <2>1, <2>2
<1>6. \A b \in Attempts \ {a} : pc'[b] = pc[b]
    BY <1>2 DEF TypeOK, CreateRow, RowFree, ReclaimRow
<1>7. QED BY <1>4, <1>5, <1>6

(* A transaction in flight was in flight before or is its live sender's.    *)
LEMMA NewlySent ==
    ASSUME TypeOK, [Next]_vars, NEW a \in Attempts, Sent(a)'
    PROVE  \/ Sent(a) /\ tx'[a] = tx[a]
           \/ /\ tx'[a] # tx[a] /\ Live(a)
              /\ tx'[a].op = "deposit" => DepositEscrow(a)
<1>1. CASE tx'[a] = tx[a]
    BY <1>1 DEF Sent
<1>2. CASE tx'[a] # tx[a]
  <2>1. Next BY <1>2 DEF vars
  <2>2. QED BY <1>2, <2>1, TransactionChanges DEF Sent, Live
<1>3. QED BY <1>1, <1>2

(* Deposits are made by landing deposits, of the invoice's amount.          *)
LEMMA DepositChanges ==
    ASSUME TypeOK, [Next]_vars, NEW i \in Invoices, deposited'[i] # deposited[i]
    PROVE  \E a \in Attempts :
              /\ call[a].invoice = i /\ Sent(a) /\ tx[a].op = "deposit"
              /\ tx'[a].state = "landed"
              /\ deposited'[i] = deposited[i] + Amount[i]
<1>1. PICK a \in Attempts : Land(a)
    BY OffChain DEF vars, chainVars
<1>2. Chain!Deposit(call[a].invoice, Treasury, Amount[call[a].invoice]) /\ tx[a].op = "deposit"
    BY <1>1 DEF Land, Chain!InitializeEscrow, Chain!Release
<1>3. /\ call[a].invoice = i
      /\ deposited'[i] = deposited[i] + Amount[i]
    BY <1>2 DEF Chain!Deposit, TypeOK, Call, Chain!EscrowTypeOK
<1>4. Sent(a) /\ tx'[a].state = "landed"
    BY <1>1 DEF Land, Sent, TypeOK, Transaction
<1>5. QED BY <1>2, <1>3, <1>4

LEMMA LiveIsAloneStep ==
    TypeOK /\ Positions /\ Claims /\ LiveIsAlone /\ [Next]_vars => LiveIsAlone'
<1> SUFFICES ASSUME TypeOK, Positions, Claims, LiveIsAlone, [Next]_vars,
                    NEW a \in Attempts, Live(a)', call[a].invoice \notin raced'
             PROVE  /\ payout'[call[a].invoice].status = "PENDING"
                    /\ \A b \in Attempts : Together(a, b) /\ (Live(b) \/ Sent(b))' => a = b
    BY CallsFixed DEF LiveIsAlone, Together
<1> DEFINE i == call[a].invoice
<1>1. i \in Invoices /\ i \notin raced BY FailedChanges DEF TypeOK, Call
<1>2. CASE ~Live(a)
  <2>1. Next BY <1>2 DEF vars, Live
  <2>2. ASSUME NEW b \in Attempts, Together(a, b), (Live(b) \/ Sent(b))' PROVE a = b
    <3>1. ~Live(b) /\ ~Sent(b) /\ (b # a => pc'[b] = pc[b])
        BY <1>2, <2>1, <2>2, NewlyLive
    <3>2. QED BY <2>2, <3>1, NewlySent DEF Live
  <2>3. QED BY <1>2, <2>1, <2>2, NewlyLive
<1>3. CASE Live(a)
  <2>1. ASSUME NEW b \in Attempts, Together(a, b), (Live(b) \/ Sent(b))' PROVE a = b
    <3>1. CASE Live(b) \/ Sent(b)
        BY <1>1, <1>3, <2>1, <3>1 DEF LiveIsAlone
    <3>2. CASE ~Live(b) /\ ~Sent(b)
      <4>1. Live(b)' BY <2>1, <3>2, NewlySent
      <4>2. Next BY <3>2, <4>1 DEF vars, Live
      <4>3. Together(b, a) /\ call[b].invoice \notin raced' BY <2>1 DEF Together
      <4>4. ~Live(a) BY <3>2, <4>1, <4>2, <4>3, NewlyLive
      <4>5. QED BY <1>3, <4>4
    <3>3. QED BY <3>1, <3>2
  <2>2. payout[i] \in PayoutRow /\ payout[i].status = "PENDING"
      BY <1>1, <1>3 DEF LiveIsAlone, TypeOK
  <2>3. CASE payout'[i] # payout[i]
    <3>1. Next BY <2>3 DEF vars, dbVars
    <3>2. PICK c \in Attempts :
              /\ call[c].invoice = i
              /\ \/ payout'[i] = ClaimedRow(c)
                 \/ payout'[i] = [payout[i] EXCEPT !.escrowPda = TRUE]
                 \/ MarkFailed(c)
                 \/ Confirm(c)
        BY <1>1, <2>3, <3>1, RowChanges
    <3>3. ASSUME MarkFailed(c) \/ Confirm(c) PROVE FALSE
      <4>1. Live(c) /\ pc'[c] = "done"
          BY <3>3 DEF MarkFailed, Confirm, Live, Claimed, TypeOK
      <4>2. a = c BY <1>1, <1>3, <3>2, <4>1 DEF LiveIsAlone, Together
      <4>3. QED BY <4>1, <4>2 DEF Live, Claimed
    <3>4. CASE payout'[i] = ClaimedRow(c)
        BY <2>1, <3>4 DEF ClaimedRow
    <3>5. CASE payout'[i] = [payout[i] EXCEPT !.escrowPda = TRUE]
        BY <2>1, <2>2, <3>5 DEF PayoutRow
    <3>6. QED BY <3>2, <3>3, <3>4, <3>5
  <2>4. QED BY <2>1, <2>2, <2>3
<1>4. QED BY <1>2, <1>3

LEMMA RacesStep ==
    TypeOK /\ Program!EscrowInv /\ Positions /\ Claims /\ Races /\ [Next]_vars => Races'
<1> SUFFICES ASSUME TypeOK, Program!EscrowInv, Positions, Claims, Races, [Next]_vars
             PROVE  SentIsAlone' /\ DepositIsFirst' /\ ExactUnlessRaced'
    BY LiveIsAloneStep DEF Races
<1>1. raced \subseteq raced' /\ call' = call BY FailedChanges, CallsFixed
<1>2. ASSUME NEW a \in Attempts, NEW b \in Attempts, Together(a, b), Sent(a)', Sent(b)',
             call[a].invoice \notin raced'
      PROVE  a = b
  <2>1. call[a].invoice \notin raced /\ call[b].invoice \notin raced /\ Together(b, a)
      BY <1>1, <1>2 DEF Together
  <2>2. (Live(a) \/ Sent(a)) /\ (Live(b) \/ Sent(b)) BY <1>2, NewlySent
  <2>3. QED BY <1>2, <2>1, <2>2 DEF Races, LiveIsAlone, SentIsAlone
<1>3. SentIsAlone' BY <1>1, <1>2 DEF SentIsAlone, Together
<1>4. ASSUME NEW a \in Attempts, Sent(a)', tx'[a].op = "deposit", call[a].invoice \notin raced'
      PROVE  deposited'[call[a].invoice] = 0
  <2> DEFINE i == call[a].invoice
  <2>1. i \in Invoices /\ i \notin raced BY <1>1, <1>4 DEF TypeOK, Call
  <2>2. CASE Sent(a) /\ tx'[a] = tx[a]
    <3>1. deposited[i] = 0 BY <1>4, <2>1, <2>2 DEF Races, DepositIsFirst
    <3>2. ASSUME NEW c \in Attempts, call[c].invoice = i, Sent(c), tx'[c].state = "landed"
          PROVE  FALSE
        BY <2>1, <2>2, <3>2 DEF Races, SentIsAlone, Together, Sent
    <3>3. deposited'[i] = deposited[i] BY <2>1, <3>2, DepositChanges
    <3>4. QED BY <3>1, <3>3
  <2>3. CASE DepositEscrow(a) /\ tx'[a] # tx[a]
    <3>1. escrow[i].amount = 0 /\ ~escrow[i].isReleased /\ deposited' = deposited
        BY <2>3 DEF DepositEscrow, NeedsDeposit, GoTo, chainVars
    <3>2. deposited[i] = 0
        BY <2>1, <3>1, SameInvariant DEF ChainInvariants, Chain!EscrowLedger,
           Chain!EscrowTypeOK
    <3>3. QED BY <3>1, <3>2
  <2>4. QED BY <1>4, <2>2, <2>3, NewlySent DEF Sent, Live
<1>5. DepositIsFirst' BY <1>1, <1>4 DEF DepositIsFirst, Sent
<1>6. ASSUME NEW i \in Invoices, i \notin raced' PROVE deposited'[i] \in {0, Amount[i]}
  <2>1. i \notin raced BY <1>1, <1>6
  <2>2. CASE deposited'[i] = deposited[i]
      BY <2>1, <2>2 DEF Races, ExactUnlessRaced
  <2>3. CASE deposited'[i] # deposited[i]
    <3>1. PICK a \in Attempts :
              /\ call[a].invoice = i /\ Sent(a) /\ tx[a].op = "deposit"
              /\ deposited'[i] = deposited[i] + Amount[i]
        BY <2>3, DepositChanges
    <3>2. deposited[i] = 0 BY <2>1, <3>1 DEF Races, DepositIsFirst
    <3>3. QED BY <3>1, <3>2
  <2>4. QED BY <2>2, <2>3
<1>7. ExactUnlessRaced' BY <1>6 DEF ExactUnlessRaced
<1>8. QED BY <1>3, <1>5, <1>7

-----------------------------------------------------------------------------
(* Money that left is accounted for: whoever sent a transaction holds its   *)
(* invoice, and lets go of it only by a mark, a death or a booking.         *)

SendersAreAccounted == \A a \in Attempts : tx[a].op # "none" => Accounted(call[a].invoice)

Money == SendersAreAccounted /\ MoneyIsAccountedFor

(* The histories only grow, by marks, deaths and reviews.                   *)
LEMMA HistoriesGrow ==
    ASSUME TypeOK, [Next]_vars
    PROVE  /\ abandoned \subseteq abandoned' /\ overruled \subseteq overruled'
           /\ \A a \in Attempts :
                 Crash(a) /\ pc[a] \in Claimed => call[a].invoice \in abandoned'
<1>1. CASE UNCHANGED historyVars
    BY <1>1 DEF historyVars, Crash
<1>2. ASSUME NEW a \in Attempts, Step(a)
      PROVE  abandoned' = abandoned /\ overruled' = overruled
    BY <1>2 DEF Step, historyVars, Lookup, Repair, ReadInvoice, CreateRow, ReclaimRow,
                InitializeEscrow, DepositEscrow, ReleaseEscrow, SavePda, Confirmation,
                MarkFailed, Confirm
<1>3. ASSUME NEW a \in Attempts, Throw(a) \/ Crash(a) \/ Cluster(a)
      PROVE  abandoned \subseteq abandoned' /\ overruled' = overruled
    BY <1>3 DEF historyVars, Throw, Crash, Cluster, Land, Drop
<1>4. ASSUME NEW r \in Reviewers, Reviewing(r)
      PROVE  abandoned' = abandoned /\ overruled \subseteq overruled'
    BY <1>4 DEF historyVars, Reviewing, ReadForReview, WriteReview, DropReview
<1>5. \A a \in Attempts :
         Crash(a) /\ pc[a] \in Claimed => call[a].invoice \in abandoned'
    BY DEF Crash
<1>6. QED BY <1>1, <1>2, <1>3, <1>4, <1>5 DEF Next, vars

(* Only a review takes PAID back from an invoice, and is then on record.    *)
LEMMA PaidUnlessOverruled ==
    ASSUME TypeOK, [Next]_vars, NEW i \in Invoices, invoice[i] = "PAID"
    PROVE  invoice'[i] = "PAID" \/ i \in overruled'
<1>1. CASE UNCHANGED invoice
    BY <1>1
<1>2. ASSUME NEW a \in Attempts, Step(a) PROVE invoice'[i] = "PAID"
    BY <1>2 DEF TypeOK, Step, dbVars, Lookup, Repair, ReadInvoice, CreateRow, ReclaimRow,
                InitializeEscrow, DepositEscrow, ReleaseEscrow, SavePda, Confirmation,
                MarkFailed, Confirm
<1>3. ASSUME NEW a \in Attempts, Throw(a) \/ Crash(a) \/ Cluster(a) PROVE invoice' = invoice
    BY <1>3 DEF dbVars, Throw, Crash, Cluster, Land, Drop
<1>4. ASSUME NEW r \in Reviewers, Reviewing(r), invoice' # invoice
      PROVE  invoice'[i] = "PAID" \/ i \in overruled'
    BY <1>4 DEF TypeOK, dbVars, Reviewing, ReadForReview, WriteReview, DropReview
<1>5. QED BY <1>1, <1>2, <1>3, <1>4 DEF Next, vars, dbVars

(* A claim ends by a mark, a death or a booking.                            *)
LEMMA ClaimEnds ==
    ASSUME TypeOK, [Next]_vars, NEW a \in Attempts,
           pc[a] \in Claimed, pc'[a] \notin Claimed
    PROVE  MarkFailed(a) \/ Confirm(a) \/ Crash(a)
<1>1. ASSUME NEW b \in Attempts, b # a, Step(b) \/ Throw(b) \/ Crash(b) \/ Cluster(b)
      PROVE  pc'[a] = pc[a]
    BY <1>1 DEF TypeOK, Step, Cluster, Lookup, Repair, ReadInvoice, CreateRow, ReclaimRow,
                InitializeEscrow, DepositEscrow, ReleaseEscrow, Send, GoTo, SavePda,
                Confirmation, MarkFailed, Confirm, Throw, Crash, Land, Drop
<1>2. ASSUME Step(a) PROVE MarkFailed(a) \/ Confirm(a)
    BY <1>2 DEF TypeOK, Claimed, Step, Lookup, Repair, ReadInvoice, CreateRow, ReclaimRow,
                InitializeEscrow, DepositEscrow, ReleaseEscrow, Send, GoTo, SavePda,
                Confirmation, AfterLanding
<1>3. ASSUME Throw(a) \/ Cluster(a) PROVE FALSE
    BY <1>3 DEF TypeOK, Claimed, Throw, Cluster, Land, Drop
<1>4. ASSUME NEW r \in Reviewers, Reviewing(r) PROVE pc' = pc
    BY <1>4 DEF Reviewing, ReadForReview, WriteReview, DropReview
<1>5. QED BY <1>1, <1>2, <1>3, <1>4 DEF Next, vars

(* What accounts for an invoice's money is never lost.                      *)
LEMMA AccountStays ==
    ASSUME TypeOK, [Next]_vars, NEW i \in Invoices, Accounted(i)
    PROVE  Accounted(i)'
<1>1. CASE invoice[i] = "PAID"
    BY <1>1, PaidUnlessOverruled DEF Accounted
<1>2. CASE i \in failed \cup abandoned \cup overruled
    BY <1>2, FailedChanges, HistoriesGrow DEF Accounted
<1>3. ASSUME NEW a \in Attempts, call[a].invoice = i, pc[a] \in Claimed
      PROVE  Accounted(i)'
  <2>1. CASE pc'[a] \in Claimed
      BY <1>3, <2>1, CallsFixed DEF Accounted
  <2>2. CASE MarkFailed(a)
      BY <1>3, <2>2, FailedChanges DEF Accounted
  <2>3. CASE Confirm(a)
      BY <1>3, <2>3 DEF TypeOK, Confirm, Accounted
  <2>4. CASE Crash(a)
      BY <1>3, <2>4, HistoriesGrow DEF Accounted
  <2>5. QED BY <1>3, <2>1, <2>2, <2>3, <2>4, ClaimEnds
<1>4. QED BY <1>1, <1>2, <1>3 DEF Accounted

LEMMA MoneyStep == TypeOK /\ Positions /\ Money /\ [Next]_vars => Money'
<1> SUFFICES ASSUME TypeOK, Positions, Money, [Next]_vars
             PROVE  SendersAreAccounted' /\ MoneyIsAccountedFor'
    BY DEF Money
<1>1. ASSUME NEW a \in Attempts, NEW i \in Invoices, call[a].invoice = i, tx'[a].op # "none"
      PROVE  Accounted(i)'
  <2>1. CASE tx[a].op # "none"
    <3>1. Accounted(i) BY <1>1, <2>1 DEF Money, SendersAreAccounted
    <3>2. QED BY <3>1, AccountStays
  <2>2. CASE tx[a].op = "none"
    <3>1. Next /\ tx'[a] # tx[a] BY <1>1, <2>2 DEF vars
    <3>2. pc[a] \in Claimed BY <1>1, <2>2, <3>1, TransactionChanges, Positions
    <3>3. Accounted(i) BY <1>1, <3>2 DEF Accounted
    <3>4. QED BY <3>3, AccountStays
  <2>3. QED BY <2>1, <2>2
<1>2. ASSUME NEW i \in Invoices, deposited'[i] > 0 PROVE Accounted(i)'
  <2>1. CASE deposited'[i] = deposited[i]
      BY <1>2, <2>1, AccountStays DEF Money, MoneyIsAccountedFor
  <2>2. CASE deposited'[i] # deposited[i]
    <3>1. PICK a \in Attempts : call[a].invoice = i /\ tx[a].op = "deposit"
        BY <2>2, DepositChanges
    <3>2. Accounted(i) BY <3>1 DEF Money, SendersAreAccounted
    <3>3. QED BY <3>2, AccountStays
  <2>3. QED BY <2>1, <2>2
<1>3. ASSUME NEW a \in Attempts, tx'[a].op # "none" PROVE Accounted(call[a].invoice)'
  <2>1. call' = call /\ call[a].invoice \in Invoices BY CallsFixed DEF TypeOK, Call
  <2>2. PICK i \in Invoices : call[a].invoice = i BY <2>1
  <2>3. Accounted(i)' BY <1>1, <1>3, <2>2
  <2>4. call'[a].invoice = i BY <2>1, <2>2
  <2>5. QED BY <2>3, <2>4 DEF Accounted
<1>4. SendersAreAccounted'
    BY <1>3 DEF SendersAreAccounted, Accounted
<1>5. QED BY <1>2, <1>4 DEF MoneyIsAccountedFor

-----------------------------------------------------------------------------
(* The inductive invariant and the theorems.                                *)

EngineInv ==
    /\ TypeOK /\ Program!EscrowInv
    /\ Positions /\ Releases
    /\ SignatureIsEvidence /\ OneWinner
    /\ Claims /\ FirstClaimIsExclusive
    /\ Races /\ Money

LEMMA EngineInitInv == Init => EngineInv
<1> SUFFICES ASSUME Init PROVE EngineInv
    OBVIOUS
<1>1. TypeOK /\ Program!EscrowInv
    BY InitTypes, ChainInv DEF Init
<1>2. Positions /\ Releases /\ SignatureIsEvidence /\ OneWinner
    BY <1>1 DEF Init, NoRow, Positions, Releases, Released, SignatureIsEvidence, OneWinner,
                TypeOK, Call
<1>3. Claims /\ FirstClaimIsExclusive /\ LiveIsAlone /\ SentIsAlone /\ DepositIsFirst
    BY <1>1 DEF Init, NoRow, Claims, FirstClaimIsExclusive, Holds, LiveIsAlone, SentIsAlone,
                DepositIsFirst, Live, Sent, Claimed
<1>4. ExactUnlessRaced
    BY DEF Init, Chain!EscrowInit, ExactUnlessRaced
<1>5. Money
    BY DEF Init, Chain!EscrowInit, Money, SendersAreAccounted, MoneyIsAccountedFor
<1>6. QED BY <1>1, <1>2, <1>3, <1>4, <1>5 DEF EngineInv, Races

LEMMA EngineStepInv == EngineInv /\ [Next]_vars => EngineInv'
BY TypeStep, ChainInv, PositionStep, ReleasesStep, SignatureStep, WinnerStep, ClaimsStep,
   FirstClaimStep, RacesStep, MoneyStep DEF EngineInv

LEMMA EngineInvariant == Spec => []EngineInv
BY EngineInitInv, EngineStepInv, PTL DEF Spec

(* Rows, attempts, transactions, reviews and the chain keep their types.    *)
THEOREM EngineTypeCorrect == Spec => []TypeOK
<1>1. EngineInv => TypeOK BY DEF EngineInv
<1>2. QED BY EngineInvariant, <1>1, PTL

(* A CONFIRMED payout and a PAID invoice mean a released escrow that paid,  *)
(* and money in an escrow, or paid from it, is accounted for: its invoice   *)
(* is PAID, held by an attempt, or was failed, abandoned or overruled.      *)
THEOREM BooksAreTrue == Spec => []BooksMeetChain
<1>1. EngineInv => BooksMeetChain
    BY SameInvariant DEF EngineInv, Releases, BooksFollowChain, BooksMeetChain, Money,
                         ChainInvariants, Chain!EscrowLedger
<1>2. QED BY EngineInvariant, <1>1, PTL

(* A confirmed payout has a signature; a signature is a landed release of   *)
(* the row's own invoice.                                                   *)
THEOREM SignaturesAreEvidence == Spec => []SignatureIsEvidence
<1>1. EngineInv => SignatureIsEvidence BY DEF EngineInv
<1>2. QED BY EngineInvariant, <1>1, PTL

(* However many attempts race, one release lands per invoice.               *)
THEOREM WinnersAreUnique == Spec => []OneWinner
<1>1. EngineInv => OneWinner BY DEF EngineInv
<1>2. QED BY EngineInvariant, <1>1, PTL

(* Until an attempt fails, one attempt alone holds the invoice.             *)
THEOREM FirstClaimsAreExclusive == Spec => []FirstClaimIsExclusive
<1>1. EngineInv => FirstClaimIsExclusive BY DEF EngineInv
<1>2. QED BY EngineInvariant, <1>1, PTL

(* The engine funds an escrow with the invoice's amount or nothing, unless  *)
(* one of the two retry races happened: closing them would be enough.       *)
THEOREM DepositsAreExact == Spec => []ExactUnlessRaced
<1>1. EngineInv => ExactUnlessRaced BY DEF EngineInv, Races
<1>2. QED BY EngineInvariant, <1>1, PTL

LEMMA ConfirmedRowChanges ==
    ASSUME EngineInv, Next, NEW i \in Invoices,
           payout[i].status = "CONFIRMED", payout'[i] # payout[i]
    PROVE  i \in raced'
<1> SUFFICES ASSUME i \notin raced' PROVE FALSE
    OBVIOUS
<1>1. TypeOK /\ LiveIsAlone /\ i \notin raced
    BY FailedChanges DEF EngineInv, Races
<1>2. PICK a \in Attempts :
          /\ call[a].invoice = i
          /\ ReclaimRow(a) \/ SavePda(a) \/ MarkFailed(a) \/ Confirm(a)
    BY <1>1, RowChanges
<1>3. CASE ReclaimRow(a)
    BY <1>1, <1>2, <1>3 DEF ReclaimRow
<1>4. CASE SavePda(a) \/ MarkFailed(a) \/ Confirm(a)
  <2>1. Live(a) BY <1>4 DEF SavePda, MarkFailed, Confirm, Live, Claimed
  <2>2. QED BY <1>1, <1>2, <2>1 DEF LiveIsAlone
<1>5. QED BY <1>2, <1>3, <1>4

(* A confirmed row is overwritten only after a retry raced for it.          *)
THEOREM ConfirmationsAreKept == Spec => ConfirmationKeptUnlessRaced
<1>1. EngineInv /\ [Next]_vars =>
         [\A i \in Invoices :
             payout[i].status = "CONFIRMED" /\ payout'[i] # payout[i] => i \in raced']_vars
    BY ConfirmedRowChanges
<1>2. QED BY EngineInvariant, <1>1, PTL DEF Spec, ConfirmationKeptUnlessRaced

(* What the engine does to the chain is what the escrow program allows, so  *)
(* every theorem of the program holds of the engine's chain.                *)
THEOREM EngineRunsTheProgram == Spec => Chain!EscrowSpec
<1>1. Init => Chain!EscrowInit BY DEF Init
<1>2. EngineInv /\ [Next]_vars => [Chain!EscrowNext]_(Chain!escrowVars)
    BY ChainStep DEF EngineInv, chainVars, Chain!escrowVars
<1>3. QED BY EngineInvariant, <1>1, <1>2, PTL DEF Spec, Chain!EscrowSpec

-----------------------------------------------------------------------------
(* Refinement.                                                              *)

Payments == [i \in Invoices |-> IF escrow[i].isReleased THEN 1 ELSE 0]

Booked == {i \in Invoices : payout[i].status = "CONFIRMED"}

LEMMA OneRowChanges ==
    ASSUME TypeOK, [Next]_vars, payout' # payout
    PROVE  \E i \in Invoices : \A j \in Invoices \ {i} : payout'[j] = payout[j]
<1>1. Next BY DEF vars, dbVars
<1>2. PICK a \in Attempts :
          CreateRow(a) \/ ReclaimRow(a) \/ SavePda(a) \/ MarkFailed(a) \/ Confirm(a)
    BY <1>1 DEF Next, Step, Cluster, Reviewing, dbVars, Lookup, Repair, ReadInvoice,
           InitializeEscrow, DepositEscrow, ReleaseEscrow, Confirmation, Throw, Crash,
           Land, Drop, ReadForReview, WriteReview, DropReview
<1>3. \A j \in Invoices \ {call[a].invoice} : payout'[j] = payout[j]
    BY <1>2 DEF TypeOK, CreateRow, RowFree, ReclaimRow, SavePda, MarkFailed, Confirm
<1>4. QED BY <1>3 DEF TypeOK, Call

LEMMA BookingStep ==
    ASSUME EngineInv, [Next]_vars, Payments' = Payments
    PROVE  [Books!SettlementNext]_<<Payments, Booked>>
<1>1. CASE payout' = payout
    BY <1>1 DEF Booked
<1>2. CASE payout' # payout
  <2>1. PICK i \in Invoices : \A j \in Invoices \ {i} : payout'[j] = payout[j]
      BY <1>2, OneRowChanges DEF EngineInv
  <2>2. CASE payout'[i].status = "CONFIRMED" /\ payout[i].status # "CONFIRMED"
    <3>1. escrow[i].isReleased
        BY <1>2, <2>2, NewlyReleased DEF EngineInv, vars, dbVars
    <3>2. Payments[i] = 1 BY <3>1 DEF Payments
    <3>3. Booked' = Booked \cup {i} BY <2>1, <2>2 DEF Booked
    <3>4. QED
        BY <3>2, <3>3 DEF Books!SettlementNext, Books!Book, Payments, Booked
  <2>3. CASE payout'[i].status # "CONFIRMED"
    <3>1. Booked' = Booked \ {i} BY <2>1, <2>3 DEF Booked
    <3>2. QED BY <3>1 DEF Books!SettlementNext, Books!Unbook, Payments, Booked
  <2>4. CASE payout'[i].status = "CONFIRMED" /\ payout[i].status = "CONFIRMED"
    <3>1. Booked' = Booked BY <2>1, <2>4 DEF Booked
    <3>2. QED BY <3>1
  <2>5. QED BY <2>2, <2>3, <2>4
<1>3. QED BY <1>1, <1>2

LEMMA SettlingStep ==
    ASSUME EngineInv, [Next]_vars, Payments' # Payments
    PROVE  Books!SettlementNext
<1>1. TypeOK BY DEF EngineInv
<1>2. PICK a \in Attempts : Land(a)
    BY OffChain DEF vars, chainVars, Payments
<1>3. PICK i \in Invoices : escrow'[i].isReleased # escrow[i].isReleased
    BY DEF Payments
<1>4. \A j \in Invoices \ {call[a].invoice} : escrow'[j] = escrow[j]
    BY <1>1, <1>2 DEF TypeOK, Chain!EscrowTypeOK, Land, Chain!InitializeEscrow, Chain!Deposit,
                      Chain!Release
<1>5. i = call[a].invoice BY <1>3, <1>4
<1>6. ~escrow[i].isReleased
    BY <1>3, ReleaseStays DEF EngineInv, TypeOK, Chain!EscrowTypeOK, Chain!EscrowAccount
<1>7. escrow'[i].isReleased
  <2>1. TypeOK' BY EngineStepInv DEF EngineInv
  <2>2. escrow'[i].isReleased \in BOOLEAN
      BY <2>1 DEF TypeOK, Chain!EscrowTypeOK, Chain!EscrowAccount
  <2>3. escrow[i].isReleased \in BOOLEAN
      BY <1>1 DEF TypeOK, Chain!EscrowTypeOK, Chain!EscrowAccount
  <2>4. escrow[i].isReleased = FALSE
      BY <1>6, <2>3
  <2>5. QED BY <1>3, <2>2, <2>4
<1>8. Payments[i] = 0 /\ Payments' = [Payments EXCEPT ![i] = 1]
    BY <1>4, <1>5, <1>6, <1>7 DEF Payments
<1>9. Booked' = Booked BY <1>2 DEF Land, dbVars, Booked
<1>10. QED BY <1>8, <1>9 DEF Books!SettlementNext, Books!Settle, Payments, Booked

(* The engine implements Settlement: one payment per invoice, booked only   *)
(* after it was made, whatever interleaves.                                 *)
THEOREM EngineSettles == Spec => ImplementsSettlement
<1>1. Init => Books!SettlementInit
    BY DEF Init, NoRow, Chain!EscrowInit, Chain!NoAccount, Books!SettlementInit
<1>2. EngineInv /\ [Next]_vars => [Books!SettlementNext]_(Books!settlementVars)
    BY BookingStep, SettlingStep DEF Books!settlementVars, Payments, Booked
<1>3. QED
    BY EngineInvariant, <1>1, <1>2, PTL DEF Spec, ImplementsSettlement, Books!SettlementSpec

=============================================================================
