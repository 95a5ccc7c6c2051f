---------------------------- MODULE EscrowProofs ----------------------------
(***************************************************************************)
(* Theorems about the escrow program, for any escrows, wallets, amounts,   *)
(* supply and width of the amount.                                         *)
(***************************************************************************)
EXTENDS Escrow, SumTheorems, FiniteSetTheorems, TLAPS

(* An account that does not exist yet is the blank one: the conjunct that   *)
(* makes the ledger inductive across initialize_escrow.                     *)
BlankUntilInitialized ==
    \A e \in Escrows : ~escrow[e].initialized =>
        escrow[e].amount = 0 /\ ~escrow[e].isReleased

EscrowInv == EscrowTypeOK /\ BlankUntilInitialized /\ VaultBacked /\ EscrowLedger

USE EscrowAssumption

LEMMA EscrowInitInv == EscrowInit => EscrowInv
BY DEF EscrowInit, EscrowInv, EscrowTypeOK, EscrowAccount, NoAccount,
       BlankUntilInitialized, VaultBacked, EscrowLedger

(* What each instruction does to the invariant, one lemma per instruction.  *)
LEMMA InitializeInv ==
    ASSUME EscrowInv, NEW e \in Escrows, NEW w \in Wallets, InitializeEscrow(e, w)
    PROVE  EscrowInv'
BY DEF EscrowInv, EscrowTypeOK, EscrowAccount, NoAccount, BlankUntilInitialized,
       VaultBacked, EscrowLedger, InitializeEscrow

LEMMA DepositInv ==
    ASSUME EscrowInv, NEW e \in Escrows, NEW w \in Wallets, NEW n \in Nat, Deposit(e, w, n)
    PROVE  EscrowInv'
BY DEF EscrowInv, EscrowTypeOK, EscrowAccount, BlankUntilInitialized,
       VaultBacked, EscrowLedger, Deposit, CanTransfer, AcceptsDeposits

LEMMA ReleaseInv ==
    ASSUME EscrowInv, NEW e \in Escrows, NEW w \in Wallets, NEW c \in Wallets, Release(e, w, c)
    PROVE  EscrowInv'
<1> DEFINE n == escrow[e].amount
<1>1. n \in Nat /\ vault[e] - n \in Nat /\ paid[e] = 0 /\ deposited[e] = n /\ n > 0
    BY DEF EscrowInv, EscrowTypeOK, EscrowAccount, VaultBacked, EscrowLedger, Release
<1>2. /\ escrow' = [escrow EXCEPT ![e] = [@ EXCEPT !.isReleased = TRUE, !.amount = 0]]
      /\ vault' = [vault EXCEPT ![e] = @ - n]
      /\ paid' = [paid EXCEPT ![e] = @ + n]
      /\ balance' = [balance EXCEPT ![c] = @ + n]
      /\ deposited' = deposited
      /\ escrow[e].initialized
    BY DEF Release, ReleaseAmount, Closed
<1> HIDE DEF n
<1>3. [escrow[e] EXCEPT !.isReleased = TRUE, !.amount = 0] \in EscrowAccount
    BY DEF EscrowInv, EscrowTypeOK, EscrowAccount
<1>4. /\ escrow'[e].amount = 0 /\ escrow'[e].isReleased /\ escrow'[e].initialized
      /\ vault'[e] = vault[e] - n /\ paid'[e] = n
      /\ \A d \in Escrows \ {e} : /\ escrow'[d] = escrow[d]
                                 /\ vault'[d] = vault[d]
                                 /\ paid'[d] = paid[d]
    BY <1>1, <1>2 DEF EscrowInv, EscrowTypeOK, EscrowAccount
<1>5. BlankUntilInitialized'
    BY <1>4 DEF EscrowInv, BlankUntilInitialized
<1>6. VaultBacked'
    BY <1>1, <1>4 DEF EscrowInv, VaultBacked
<1>7. EscrowLedger'
    BY <1>1, <1>2, <1>4 DEF EscrowInv, EscrowLedger
<1>8. EscrowTypeOK'
  <2>1. escrow' \in [Escrows -> EscrowAccount]
      BY <1>2, <1>3 DEF EscrowInv, EscrowTypeOK
  <2>2. vault' \in [Escrows -> Nat] /\ paid' \in [Escrows -> Nat]
      BY <1>1, <1>2 DEF EscrowInv, EscrowTypeOK
  <2>3. balance' \in [Wallets -> Nat]
      BY <1>1, <1>2 DEF EscrowInv, EscrowTypeOK
  <2>4. QED BY <2>1, <2>2, <2>3, <1>2 DEF EscrowInv, EscrowTypeOK
<1>9. QED BY <1>5, <1>6, <1>7, <1>8 DEF EscrowInv

LEMMA TokenTransferInv ==
    ASSUME EscrowInv, NEW e \in Escrows, NEW w \in Wallets, NEW n \in Nat,
           TokenTransfer(w, e, n)
    PROVE  EscrowInv'
BY DEF EscrowInv, EscrowTypeOK, EscrowAccount, BlankUntilInitialized,
       VaultBacked, EscrowLedger, TokenTransfer, CanTransfer

LEMMA EscrowStepInv == EscrowInv /\ [EscrowNext]_escrowVars => EscrowInv'
<1> SUFFICES ASSUME EscrowInv, [EscrowNext]_escrowVars PROVE EscrowInv'
    OBVIOUS
<1>1. CASE UNCHANGED escrowVars
    BY <1>1 DEF escrowVars, EscrowInv, EscrowTypeOK, BlankUntilInitialized,
                VaultBacked, EscrowLedger
<1>2. CASE EscrowNext
    BY <1>2, InitializeInv, DepositInv, ReleaseInv, TokenTransferInv DEF EscrowNext
<1>3. QED BY <1>1, <1>2

(* The accounts and ledgers keep their types: amounts and balances are      *)
(* never negative, whatever instructions arrive.                            *)
THEOREM EscrowTypeCorrect == EscrowSpec => []EscrowTypeOK
<1>1. EscrowInv => EscrowTypeOK BY DEF EscrowInv
<1>2. QED BY EscrowInitInv, EscrowStepInv, <1>1, PTL DEF EscrowSpec

(* The invariant the three theorems below are read off.                     *)
LEMMA EscrowInvariant == EscrowSpec => []EscrowInv
BY EscrowInitInv, EscrowStepInv, PTL DEF EscrowSpec

(* Every vault covers the amount its escrow records.                        *)
THEOREM VaultsBacked == EscrowSpec => []VaultBacked
<1>1. EscrowInv => VaultBacked BY DEF EscrowInv
<1>2. QED BY EscrowInvariant, <1>1, PTL

(* An escrow pays nothing before its release and the sum of its deposits    *)
(* by it.                                                                   *)
THEOREM LedgerKept == EscrowSpec => []EscrowLedger
<1>1. EscrowInv => EscrowLedger BY DEF EscrowInv
<1>2. QED BY EscrowInvariant, <1>1, PTL

-----------------------------------------------------------------------------
LEMMA ReleasedStays ==
    ASSUME EscrowInv, EscrowNext, NEW d \in Escrows, escrow[d].isReleased
    PROVE  escrow'[d] = escrow[d] /\ deposited'[d] = deposited[d] /\ paid'[d] = paid[d]
<1> USE DEF EscrowInv, EscrowTypeOK, EscrowAccount, BlankUntilInitialized
<1>1. PICK e \in Escrows, w \in Wallets :
          \/ InitializeEscrow(e, w)
          \/ \E n \in Amounts : Deposit(e, w, n)
          \/ \E c \in Wallets : Release(e, w, c)
          \/ \E n \in Amounts : TokenTransfer(w, e, n)
    BY DEF EscrowNext
<1>2. CASE InitializeEscrow(e, w)
    BY <1>2 DEF InitializeEscrow
<1>3. ASSUME NEW n \in Amounts, Deposit(e, w, n)
      PROVE  escrow'[d] = escrow[d] /\ deposited'[d] = deposited[d] /\ paid'[d] = paid[d]
    BY <1>3 DEF Deposit, AcceptsDeposits
<1>4. ASSUME NEW c \in Wallets, Release(e, w, c)
      PROVE  escrow'[d] = escrow[d] /\ deposited'[d] = deposited[d] /\ paid'[d] = paid[d]
    BY <1>4 DEF Release
<1>5. ASSUME NEW n \in Amounts, TokenTransfer(w, e, n)
      PROVE  escrow'[d] = escrow[d] /\ deposited'[d] = deposited[d] /\ paid'[d] = paid[d]
    BY <1>5 DEF TokenTransfer
<1>6. QED BY <1>1, <1>2, <1>3, <1>4, <1>5

(* A released escrow never changes again.                                   *)
THEOREM ReleasesAreFinal == EscrowSpec => ReleaseIsFinal
<1>1. EscrowInv /\ [EscrowNext]_escrowVars =>
         [\A e \in Escrows : escrow[e].isReleased =>
             /\ escrow'[e] = escrow[e]
             /\ deposited'[e] = deposited[e]
             /\ paid'[e] = paid[e]]_escrowVars
    BY ReleasedStays DEF escrowVars
<1>2. QED BY EscrowInvariant, <1>1, PTL DEF EscrowSpec, ReleaseIsFinal

LEMMA VaultFalls ==
    ASSUME EscrowInv, EscrowNext, NEW d \in Escrows, vault'[d] < vault[d]
    PROVE  /\ ~escrow[d].isReleased
           /\ escrow'[d].isReleased
           /\ vault[d] - vault'[d] = escrow[d].amount
<1> DEFINE Goal == /\ ~escrow[d].isReleased
                   /\ escrow'[d].isReleased
                   /\ vault[d] - vault'[d] = escrow[d].amount
<1> USE DEF EscrowInv, EscrowTypeOK, EscrowAccount
<1>1. PICK e \in Escrows, w \in Wallets :
          \/ InitializeEscrow(e, w)
          \/ \E n \in Amounts : Deposit(e, w, n)
          \/ \E c \in Wallets : Release(e, w, c)
          \/ \E n \in Amounts : TokenTransfer(w, e, n)
    BY DEF EscrowNext
<1>2. ASSUME InitializeEscrow(e, w) PROVE Goal
    BY <1>2 DEF InitializeEscrow
<1>3. ASSUME NEW n \in Amounts, Deposit(e, w, n) PROVE Goal
    BY <1>3 DEF Deposit
<1>4. ASSUME NEW c \in Wallets, Release(e, w, c) PROVE Goal
    BY <1>4 DEF Release, ReleaseAmount, Closed
<1>5. ASSUME NEW n \in Amounts, TokenTransfer(w, e, n) PROVE Goal
    BY <1>5 DEF TokenTransfer
<1>6. QED BY <1>1, <1>2, <1>3, <1>4, <1>5

(* Tokens leave a vault only by the release of its own escrow.              *)
THEOREM VaultsPayOnlyTheirRelease == EscrowSpec => VaultPaysOnlyItsRelease
<1>1. EscrowInv /\ [EscrowNext]_escrowVars =>
         [\A e \in Escrows : vault'[e] < vault[e] =>
             /\ ~escrow[e].isReleased
             /\ escrow'[e].isReleased
             /\ vault[e] - vault'[e] = escrow[e].amount]_escrowVars
    BY VaultFalls DEF escrowVars
<1>2. QED BY EscrowInvariant, <1>1, PTL DEF EscrowSpec, VaultPaysOnlyItsRelease

-----------------------------------------------------------------------------
(* The supply.                                                              *)

(* No instruction makes or destroys a token.                                *)
SupplyKept ==
    SumFunctionOnSet(balance, Wallets) + SumFunctionOnSet(vault, Escrows) = Supply

LEMMA SupplyInit == EscrowInit => SupplyKept
<1> SUFFICES ASSUME EscrowInit PROVE SupplyKept
    OBVIOUS
<1>1. SumFunctionOnSet(vault, Escrows) = 0
  <2>1. \A e \in Escrows : vault[e] = 0 BY DEF EscrowInit
  <2>2. QED BY <2>1, NoSum
<1>2. SumFunctionOnSet(balance, Wallets) = Supply BY DEF EscrowInit
<1>3. Supply \in Nat OBVIOUS
<1>4. QED BY <1>1, <1>2, <1>3 DEF SupplyKept

(* Tokens that move between one wallet and one vault.                       *)
LEMMA SupplyMoves ==
    ASSUME EscrowInv, EscrowInv', SupplyKept, NEW w \in Wallets, NEW e \in Escrows,
           \A x \in Wallets \ {w} : balance'[x] = balance[x],
           \A x \in Escrows \ {e} : vault'[x] = vault[x],
           balance'[w] - balance[w] = vault[e] - vault'[e]
    PROVE  SupplyKept'
<1>1. /\ \A x \in Wallets : balance[x] \in Nat /\ balance'[x] \in Nat
      /\ \A x \in Escrows : vault[x] \in Nat /\ vault'[x] \in Nat
    BY DEF EscrowInv, EscrowTypeOK
<1>2. /\ \A x \in Wallets : balance[x] \in Int /\ balance'[x] \in Int
      /\ \A x \in Escrows : vault[x] \in Int /\ vault'[x] \in Int
    BY <1>1
<1>3. SumFunctionOnSet(balance', Wallets) =
          SumFunctionOnSet(balance, Wallets) + balance'[w] - balance[w]
    BY <1>2, SumChanges
<1>4. SumFunctionOnSet(vault', Escrows) =
          SumFunctionOnSet(vault, Escrows) + vault'[e] - vault[e]
    BY <1>2, SumChanges
<1>5. SumFunctionOnSet(balance, Wallets) \in Nat /\ SumFunctionOnSet(vault, Escrows) \in Nat
    BY <1>1, SumOfNats
<1>6. QED BY <1>1, <1>3, <1>4, <1>5 DEF SupplyKept

LEMMA SupplyStep == EscrowInv /\ SupplyKept /\ [EscrowNext]_escrowVars => SupplyKept'
<1> SUFFICES ASSUME EscrowInv, SupplyKept, [EscrowNext]_escrowVars PROVE SupplyKept'
    OBVIOUS
<1>1. EscrowInv' BY EscrowStepInv
<1>2. CASE UNCHANGED <<balance, vault>>
    BY <1>2 DEF SupplyKept
<1>3. ASSUME NEW e \in Escrows, NEW w \in Wallets, NEW n \in Nat,
             Deposit(e, w, n) \/ TokenTransfer(w, e, n)
      PROVE  SupplyKept'
  <2>1. balance' = [balance EXCEPT ![w] = @ - n] /\ vault' = [vault EXCEPT ![e] = @ + n]
      BY <1>3 DEF Deposit, TokenTransfer
  <2>2. balance'[w] - balance[w] = vault[e] - vault'[e]
      BY <2>1 DEF EscrowInv, EscrowTypeOK
  <2>3. QED BY <1>1, <2>1, <2>2, SupplyMoves DEF EscrowInv, EscrowTypeOK
<1>4. ASSUME NEW e \in Escrows, NEW w \in Wallets, NEW c \in Wallets, Release(e, w, c)
      PROVE  SupplyKept'
  <2> DEFINE n == escrow[e].amount
  <2>1. /\ balance' = [balance EXCEPT ![c] = @ + n] /\ vault' = [vault EXCEPT ![e] = @ - n]
        /\ n \in Nat
      BY <1>4 DEF Release, ReleaseAmount, EscrowInv, EscrowTypeOK, EscrowAccount
  <2> HIDE DEF n
  <2>2. balance'[c] - balance[c] = vault[e] - vault'[e]
      BY <2>1 DEF EscrowInv, EscrowTypeOK
  <2>3. QED BY <1>1, <2>1, <2>2, SupplyMoves DEF EscrowInv, EscrowTypeOK
<1>5. ASSUME NEW e \in Escrows, NEW w \in Wallets, InitializeEscrow(e, w)
      PROVE  UNCHANGED <<balance, vault>>
    BY <1>5 DEF InitializeEscrow
<1>6. QED BY <1>2, <1>3, <1>4, <1>5 DEF EscrowNext, escrowVars

LEMMA DepositsFit == EscrowInv /\ SupplyKept => AffordableDepositFits
<1> SUFFICES ASSUME EscrowInv, SupplyKept, NEW e \in Escrows
             PROVE  escrow[e].amount + balance[Authority[e]] <= MaxU64
    BY DEF AffordableDepositFits
<1>1. /\ \A x \in Wallets : balance[x] \in Nat
      /\ \A x \in Escrows : vault[x] \in Nat
      /\ Authority[e] \in Wallets
      /\ escrow[e].amount \in Nat /\ escrow[e].amount <= vault[e]
    BY DEF EscrowInv, EscrowTypeOK, EscrowAccount, VaultBacked
<1>2. /\ SumFunctionOnSet(balance, Wallets) \in Nat
      /\ balance[Authority[e]] <= SumFunctionOnSet(balance, Wallets)
    BY <1>1, SumOfNats
<1>3. SumFunctionOnSet(vault, Escrows) \in Nat /\ vault[e] <= SumFunctionOnSet(vault, Escrows)
    BY <1>1, SumOfNats
<1>4. QED BY <1>1, <1>2, <1>3 DEF SupplyKept

(* A deposit its sender can afford never overflows the u64 amount.          *)
THEOREM AffordableDepositsFit == EscrowSpec => []AffordableDepositFits
<1>1. EscrowInit => EscrowInv /\ SupplyKept BY EscrowInitInv, SupplyInit
<1>2. EscrowInv /\ SupplyKept /\ [EscrowNext]_escrowVars => EscrowInv' /\ SupplyKept'
    BY EscrowStepInv, SupplyStep
<1>3. QED BY <1>1, <1>2, DepositsFit, PTL DEF EscrowSpec

=============================================================================
