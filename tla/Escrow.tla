------------------------------- MODULE Escrow -------------------------------
(***************************************************************************)
(* The on-chain escrow program, programs/escrow/src/lib.rs.  An escrow is  *)
(* the PDA derived from (authority, invoice_id), so each one has one       *)
(* authority for life; its vault is the token account the PDA owns.  One   *)
(* mint is modelled: has_one = mint pins every account to the same one.    *)
(* Instructions execute atomically, as Solana transactions do: one whose   *)
(* guard fails changes nothing and is not a step.                          *)
(***************************************************************************)
EXTENDS Integers, FiniteSets, Functions

CONSTANTS
    Escrows,    \* escrow PDAs
    Wallets,    \* wallets that own a token account of the mint
    Authority,  \* the wallet in the seeds of each escrow
    Amounts,    \* amounts a deposit or a token transfer may carry
    Supply,     \* tokens of the mint in existence
    MaxU64      \* the largest u64

ASSUME EscrowAssumption ==
    /\ IsFiniteSet(Escrows) /\ IsFiniteSet(Wallets)
    /\ Authority \in [Escrows -> Wallets]
    /\ Amounts \subseteq Nat
    /\ MaxU64 \in Nat
    /\ Supply \in 0 .. MaxU64

VARIABLES
    escrow,     \* EscrowAccount data; initialized says the account exists
    vault,      \* tokens in the vault of each escrow
    balance,    \* tokens in the token account of each wallet
    deposited,  \* history: total deposited through the program, per escrow
    paid        \* history: total released by the program, per escrow

escrowVars == <<escrow, vault, balance, deposited, paid>>

EscrowAccount == [initialized: BOOLEAN, amount: Nat, isReleased: BOOLEAN]

NoAccount == [initialized |-> FALSE, amount |-> 0, isReleased |-> FALSE]

EscrowTypeOK ==
    /\ escrow \in [Escrows -> EscrowAccount]
    /\ vault \in [Escrows -> Nat]
    /\ balance \in [Wallets -> Nat]
    /\ deposited \in [Escrows -> Nat]
    /\ paid \in [Escrows -> Nat]

EscrowInit ==
    /\ escrow = [e \in Escrows |-> NoAccount]
    /\ vault = [e \in Escrows |-> 0]
    /\ balance \in [Wallets -> 0 .. Supply]
    /\ SumFunctionOnSet(balance, Wallets) = Supply
    /\ deposited = [e \in Escrows |-> 0]
    /\ paid = [e \in Escrows |-> 0]

-----------------------------------------------------------------------------
(* initialize_escrow: the init constraint refuses an existing account.     *)
InitializeEscrow(e, signer) ==
    /\ signer = Authority[e]
    /\ ~escrow[e].initialized
    /\ escrow' = [escrow EXCEPT ![e] = [NoAccount EXCEPT !.initialized = TRUE]]
    /\ UNCHANGED <<vault, balance, deposited, paid>>

(* token::transfer refuses an amount the source account does not hold.      *)
CanTransfer(tokens, amount) == tokens >= amount

(* deposit is refused once the escrow was released.                         *)
DepositsUnchecked(acct) == TRUE  \* mutant: require!(!is_released) left out

AcceptsDeposits(acct) == ~acct.isReleased

(* deposit: the SPL transfer needs the user's balance to cover it, and the  *)
(* checked_add needs the new total to fit in a u64.                         *)
Deposit(e, user, amount) ==
    /\ escrow[e].initialized
    /\ user = Authority[e]
    /\ amount > 0
    /\ AcceptsDeposits(escrow[e])
    /\ CanTransfer(balance[user], amount)
    /\ escrow[e].amount + amount <= MaxU64
    /\ balance' = [balance EXCEPT ![user] = @ - amount]
    /\ vault' = [vault EXCEPT ![e] = @ + amount]
    /\ escrow' = [escrow EXCEPT ![e].amount = @ + amount]
    /\ deposited' = [deposited EXCEPT ![e] = @ + amount]
    /\ UNCHANGED paid

(* What release transfers: the recorded amount, not the vault's balance.    *)
WholeVault(e) == vault[e]  \* mutant: sweeps the token account

ReleaseAmount(e) == escrow[e].amount

(* The account after a release.                                             *)
AmountKept(acct) == [acct EXCEPT !.isReleased = TRUE]  \* mutant: amount = 0 left out

StaysOpen(acct) == [acct EXCEPT !.amount = 0]  \* mutant: is_released left out

Closed(acct) == [acct EXCEPT !.isReleased = TRUE, !.amount = 0]

(* release: pays whichever contractor the authority names.                  *)
Release(e, signer, contractor) ==
    /\ escrow[e].initialized
    /\ signer = Authority[e]
    /\ ~escrow[e].isReleased
    /\ escrow[e].amount > 0
    /\ CanTransfer(vault[e], ReleaseAmount(e))
    /\ vault' = [vault EXCEPT ![e] = @ - ReleaseAmount(e)]
    /\ balance' = [balance EXCEPT ![contractor] = @ + ReleaseAmount(e)]
    /\ paid' = [paid EXCEPT ![e] = @ + ReleaseAmount(e)]
    /\ escrow' = [escrow EXCEPT ![e] = Closed(@)]
    /\ UNCHANGED deposited

(* The token program lets any owner send tokens straight to a vault: the    *)
(* escrow account does not hear of it.                                      *)
TokenTransfer(w, e, amount) ==
    /\ escrow[e].initialized
    /\ amount > 0
    /\ CanTransfer(balance[w], amount)
    /\ balance' = [balance EXCEPT ![w] = @ - amount]
    /\ vault' = [vault EXCEPT ![e] = @ + amount]
    /\ UNCHANGED <<escrow, deposited, paid>>

EscrowNext ==
    \E e \in Escrows, w \in Wallets :
        \/ InitializeEscrow(e, w)
        \/ \E n \in Amounts : Deposit(e, w, n)
        \/ \E c \in Wallets : Release(e, w, c)
        \/ \E n \in Amounts : TokenTransfer(w, e, n)

EscrowSpec == EscrowInit /\ [][EscrowNext]_escrowVars

-----------------------------------------------------------------------------
(* Every token the escrow account claims to hold is in its own vault, so a  *)
(* release never fails for want of funds, whatever was sent to the vault    *)
(* directly and whatever the other escrows do.                              *)
VaultBacked == \A e \in Escrows : vault[e] >= escrow[e].amount

(* The ledger of one escrow: before its release nothing has left it and the *)
(* amount field is the sum of its deposits; after it, the contractor was    *)
(* paid that sum and nothing is left on the account.                        *)
EscrowLedger ==
    \A e \in Escrows :
        /\ paid[e] = IF escrow[e].isReleased THEN deposited[e] ELSE 0
        /\ escrow[e].amount + paid[e] = deposited[e]
        /\ escrow[e].isReleased => paid[e] > 0

(* No deposit its sender can afford overflows the u64 amount: the           *)
(* checked_add of deposit is never what refuses it, because the balance,    *)
(* the recorded amount and every other account share one u64 supply.        *)
AffordableDepositFits ==
    \A e \in Escrows : escrow[e].amount + balance[Authority[e]] <= MaxU64

(* A released escrow is closed for good: it takes no deposit, pays nothing  *)
(* more, and cannot be initialised again.                                   *)
ReleaseIsFinal ==
    [][\A e \in Escrows : escrow[e].isReleased =>
           /\ escrow'[e] = escrow[e]
           /\ deposited'[e] = deposited[e]
           /\ paid'[e] = paid[e]]_escrowVars

(* Tokens leave a vault in one way only: the release of its own escrow,     *)
(* which takes the recorded amount and leaves direct transfers behind.      *)
VaultPaysOnlyItsRelease ==
    [][\A e \in Escrows : vault'[e] < vault[e] =>
           /\ ~escrow[e].isReleased
           /\ escrow'[e].isReleased
           /\ vault[e] - vault'[e] = escrow[e].amount]_escrowVars

=============================================================================
