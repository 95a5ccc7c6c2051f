------------------------------ MODULE Transfers ------------------------------
(***************************************************************************)
(* The transfers of lib/solana/transfer.ts that write no row: one payment  *)
(* (transferUSDC), one split between a contractor and a fee wallet         *)
(* (transferWithSplit), and the account handling they share with the batch *)
(* (executeBatchPayout, whose rows are BatchPayout's matter).  Each reads  *)
(* the token accounts, then the balance, then submits one transaction that *)
(* creates the accounts that were missing and moves the tokens.  Between   *)
(* any two of these the chain may have moved on.  Amounts are decimal      *)
(* texts; a JavaScript number is the text it prints as.                    *)
(***************************************************************************)
EXTENDS Integers, Sequences, FiniteSets, Functions, SequencesExt, FiniteSetsExt

CONSTANTS
    Holders,        \* wallets, each with one token account of its own
    NotAWallet,     \* what parseWallet refuses
    Malformed,      \* a text that is no plain decimal
    Decimals,       \* USDC_DECIMALS
    MaxRecipients,  \* MAX_BATCH_RECIPIENTS
    Payers,         \* concurrent calls
    Orders,         \* what they may be asked: kind, from, to, asked
    Opening         \* tokens of each wallet at first; 0: no account

Texts == [whole: Int, fraction: Seq(0 .. 9)]

ASSUME TransfersAssumption ==
    /\ Decimals \in Nat /\ MaxRecipients \in Nat \ {0}
    /\ IsFiniteSet(Holders) /\ Opening \in [Holders -> Nat]
    /\ NotAWallet \notin Holders /\ Malformed \notin Texts /\ <<>> \notin Orders
    /\ \A o \in Orders :
           /\ o.kind \in {"payment", "split", "batch"} /\ o.from \in Holders
           /\ o.to \in Seq(Holders \cup {NotAWallet})
           /\ o.asked \in Seq(Texts \cup {Malformed}) /\ Len(o.to) = Len(o.asked)
           /\ o.kind = "payment" => Len(o.to) = 1
           /\ o.kind = "split" => Len(o.to) = 2 /\ o.asked[1] = o.asked[2]

VARIABLES
    account,    \* each wallet's token account
    tokens,     \* base units in it
    payer,      \* the step each call is at, or its answer
    order,      \* what it was asked
    absent,     \* the recipients' accounts it saw missing
    landing,    \* its transaction on the chain
    overtaken   \* history: calls another transaction landed in the middle of

transferVars == <<account, tokens, payer, order, absent, landing, overtaken>>
clientVars == <<payer, order, absent>>

Steps == {"idle", "accounts", "balance", "send", "confirm"}
Answers == {"paid", "refused", "short", "foreign", "rejected", "failed", "broken", "unsure"}

TransfersTypeOK ==
    /\ account \in [Holders -> {"none", "foreign", "token"}]
    /\ tokens \in [Holders -> Nat]
    /\ \A h \in Holders : account[h] # "token" => tokens[h] = 0
    /\ payer \in [Payers -> Steps \cup Answers]
    /\ order \in [Payers -> Orders \cup {<<>>}]
    /\ absent \in [Payers -> SUBSET Holders]
    /\ landing \in [Payers -> {"none", "sent", "landed", "failed", "expired"}]
    /\ overtaken \subseteq Payers

TransfersInit ==
    /\ account = [h \in Holders |-> IF Opening[h] > 0 THEN "token" ELSE "none"]
    /\ tokens = Opening
    /\ payer = [p \in Payers |-> "idle"]
    /\ order = [p \in Payers |-> <<>>]
    /\ absent = [p \in Payers |-> {}]
    /\ landing = [p \in Payers |-> "none"]
    /\ overtaken = {}

-----------------------------------------------------------------------------
(* Amounts: a text has a whole part and a sequence of decimals.             *)
TenTo[n \in Nat] == IF n = 0 THEN 1 ELSE 10 * TenTo[n - 1]
Scale == TenTo[Decimals]
Number(digits) == FoldLeft(LAMBDA n, d : 10 * n + d, 0, digits)
Zeros(n) == [i \in 1 .. n |-> 0]

Units(text) ==
    text.whole * Scale + Number(text.fraction \o Zeros(Decimals - Len(text.fraction)))

Accepted(text) ==
    /\ text # Malformed /\ text.whole >= 0
    /\ Len(text.fraction) <= Decimals
    /\ Units(text) > 0

Digits(n) == [i \in 1 .. Decimals |-> (n \div TenTo[Decimals - i]) % 10]

(* Trailing zeros are not printed.                                          *)
FormatUSDC(units) ==
    LET fraction == Digits(units % Scale)
        shown == Max({0} \cup {i \in 1 .. Decimals : fraction[i] # 0})
    IN [whole |-> units \div Scale, fraction |-> SubSeq(fraction, 1, shown)]

-----------------------------------------------------------------------------
Leg(to, units) == [to |-> to, units |-> units]

PaymentLegs(o) == <<Leg(o.to[1], Units(o.asked[1]))>>

(* Both amounts asked are the one total of the split.                       *)
SplitLegs(o) ==
    LET total == Units(o.asked[1])
        contractor == (total * 95) \div 100
    IN <<Leg(o.to[1], contractor), Leg(o.to[2], total - contractor)>>

BatchLegs(o) == [i \in DOMAIN o.to |-> Leg(o.to[i], Units(o.asked[i]))]

Legs(o) == CASE o.kind = "payment" -> PaymentLegs(o)
             [] o.kind = "split" -> SplitLegs(o)
             [] o.kind = "batch" -> BatchLegs(o)

Payable(o) ==
    /\ Len(o.to) \in 1 .. MaxRecipients
    /\ \A i \in DOMAIN o.to : o.to[i] # NotAWallet /\ Accepted(o.asked[i])
    /\ o.kind = "split" => \A i \in DOMAIN Legs(o) : Legs(o)[i].units > 0

Recipients(o) == Range(o.to)
LegUnits(o) == [i \in DOMAIN Legs(o) |-> Legs(o)[i].units]
LegSum(o, I) == SumFunctionOnSet(LegUnits(o), I)
TotalUnits(o) == SumFunction(LegUnits(o))

Move(p, label) == payer' = [payer EXCEPT ![p] = label]

Ask(p) ==
    /\ payer[p] = "idle"
    /\ \E o \in Orders :
           /\ order' = [order EXCEPT ![p] = o]
           /\ Move(p, IF Payable(o) THEN "accounts" ELSE "refused")
    /\ UNCHANGED <<account, tokens, absent, landing, overtaken>>

(* Read side by side: the payer's account and every recipient's.            *)
ReadAccounts(p) ==
    LET from == order[p].from
        read == {from} \cup Recipients(order[p])
    IN /\ payer[p] = "accounts"
       /\ Move(p, IF account[from] = "none" THEN "short"
                  ELSE IF \E h \in read : account[h] = "foreign" THEN "foreign"
                  ELSE "balance")
       /\ absent' = [absent EXCEPT ![p] = {h \in Recipients(order[p]) : account[h] = "none"}]
       /\ UNCHANGED <<account, tokens, order, landing, overtaken>>

ReadBalance(p) ==
    /\ payer[p] = "balance"
    /\ Move(p, IF tokens[order[p].from] < TotalUnits(order[p]) THEN "short" ELSE "send")
    /\ UNCHANGED <<account, tokens, order, absent, landing, overtaken>>

-----------------------------------------------------------------------------
\* mutant: an account is created for every recipient it was missing for
CreationsEach(p) == SelectSeq(order[p].to, LAMBDA h : h \in absent[p])

(* createdTokenAccounts: an account wanted twice is created once.           *)
Creations(p) == SetToSeq(Recipients(order[p]) \cap absent[p])

(* The chain runs a transaction whole or not at all: an account that exists *)
(* cannot be created, and a leg cannot take more than its turn leaves.      *)
Runs(p) ==
    LET o == order[p]
        spent(i) == LegSum(o, {j \in 1 .. i - 1 : o.to[j] # o.from})
    IN /\ IsInjective(Creations(p))
       /\ \A h \in Range(Creations(p)) : account[h] # "token"
       /\ \A h \in Recipients(o) : account[h] = "token" \/ h \in Range(Creations(p))
       /\ \A i \in DOMAIN Legs(o) : spent(i) + Legs(o)[i].units <= tokens[o.from]

(* The node tries the transaction first and refuses one that would fail.    *)
Send(p) ==
    /\ payer[p] = "send"
    /\ IF Runs(p)
       THEN Move(p, "confirm") /\ landing' = [landing EXCEPT ![p] = "sent"]
       ELSE Move(p, "rejected") /\ UNCHANGED landing
    /\ UNCHANGED <<account, tokens, order, absent, overtaken>>

(* The node's answer is lost, with the transaction or without.              *)
SendUnheard(p) ==
    /\ payer[p] = "send" /\ Move(p, "unsure")
    /\ UNCHANGED landing \/ (Runs(p) /\ landing' = [landing EXCEPT ![p] = "sent"])
    /\ UNCHANGED <<account, tokens, order, absent, overtaken>>

Underway(p) == payer[p] \in {"balance", "send", "confirm"}

Land(p) ==
    LET o == order[p]
        into(h) == LegSum(o, {i \in DOMAIN o.to : o.to[i] = h})
    IN /\ landing[p] = "sent" /\ Runs(p)
       /\ landing' = [landing EXCEPT ![p] = "landed"]
       /\ account' = [h \in Holders |->
                          IF h \in Range(Creations(p)) THEN "token" ELSE account[h]]
       /\ tokens' = [h \in Holders |->
                         tokens[h] + into(h) - (IF h = o.from THEN TotalUnits(o) ELSE 0)]
       /\ overtaken' = overtaken \cup {q \in Payers \ {p} : Underway(q) \/ landing[q] = "sent"}
       /\ UNCHANGED clientVars

FailOnChain(p) ==
    /\ landing[p] = "sent" /\ ~Runs(p)
    /\ landing' = [landing EXCEPT ![p] = "failed"]
    /\ UNCHANGED <<account, tokens, clientVars, overtaken>>

Lapse(p) ==
    /\ landing[p] = "sent" /\ landing' = [landing EXCEPT ![p] = "expired"]
    /\ UNCHANGED <<account, tokens, clientVars, overtaken>>

(* Anyone may send SOL to an account's address before it is created.        *)
Prefund(h) ==
    /\ account[h] = "none" /\ account' = [account EXCEPT ![h] = "foreign"]
    /\ UNCHANGED <<tokens, clientVars, landing, overtaken>>

-----------------------------------------------------------------------------
Confirm(p) ==
    /\ payer[p] = "confirm" /\ landing[p] \in {"landed", "failed"}
    /\ Move(p, IF landing[p] = "landed" THEN "paid" ELSE "failed")
    /\ UNCHANGED <<account, tokens, order, absent, landing, overtaken>>

(* The blockhash expired, or the wait broke off: the caller hears an error, *)
(* whatever becomes of the transaction.                                     *)
GiveUp(p) ==
    /\ payer[p] = "confirm" /\ Move(p, "unsure")
    /\ UNCHANGED <<account, tokens, order, absent, landing, overtaken>>

BreakOff(p) ==
    /\ payer[p] \in {"accounts", "balance", "send"} /\ Move(p, "broken")
    /\ UNCHANGED <<account, tokens, order, absent, landing, overtaken>>

Proceed(p) ==
    \/ ReadAccounts(p) \/ ReadBalance(p) \/ Send(p) \/ SendUnheard(p)
    \/ Confirm(p) \/ GiveUp(p) \/ BreakOff(p)

TransferUSDC(p) == payer[p] # "idle" /\ order[p].kind = "payment" /\ Proceed(p)
TransferWithSplit(p) == payer[p] # "idle" /\ order[p].kind = "split" /\ Proceed(p)
ExecuteBatchPayout(p) == payer[p] # "idle" /\ order[p].kind = "batch" /\ Proceed(p)

TransfersNext ==
    \/ \E p \in Payers : \/ Ask(p) \/ Land(p) \/ FailOnChain(p) \/ Lapse(p)
                         \/ TransferUSDC(p) \/ TransferWithSplit(p) \/ ExecuteBatchPayout(p)
    \/ \E h \in Holders : Prefund(h)

TransfersSpec == TransfersInit /\ [][TransfersNext]_transferVars

-----------------------------------------------------------------------------
Paying(p) == payer[p] \notin {"idle", "refused"}

(* What a call moves is worth exactly the decimals it was asked, and a      *)
(* split leaves the fee wallet its 5 percent and less than a unit more.     *)
AmountIsExact ==
    \A p \in Payers : Paying(p) =>
        LET o == order[p]
            worth(t) == t.whole * TenTo[Len(t.fraction)] + Number(t.fraction)
        IN IF o.kind = "split"
           THEN LET t == o.asked[1]
                    total == TotalUnits(o)
                IN /\ total * TenTo[Len(t.fraction)] = worth(t) * Scale
                   /\ Legs(o)[2].units * 20 - total \in 0 .. 19
           ELSE \A i \in DOMAIN o.to :
                    Legs(o)[i].units * TenTo[Len(o.asked[i].fraction)] = worth(o.asked[i]) * Scale

(* The amounts that logs and balance errors print read back as themselves.  *)
PrintedReadsBack ==
    \A p \in Payers : Paying(p) => Units(FormatUSDC(TotalUnits(order[p]))) = TotalUnits(order[p])

(* A call that answers with a signature has paid, whatever raced with it,   *)
(* and one that paid either says so or broke off after it submitted.        *)
PaidIsToldApart ==
    \A p \in Payers :
        /\ payer[p] = "paid" => landing[p] = "landed"
        /\ landing[p] = "landed" => payer[p] \in {"confirm", "paid", "unsure"}

(* A transaction is built so that it runs: the node or the chain turns one  *)
(* down only when another landed after this call had read the accounts.     *)
RejectedWereOvertaken ==
    \A p \in Payers : payer[p] \in {"rejected", "failed"} => p \in overtaken

(* However transactions overlap, each pays out what it takes: the wallets   *)
(* hold together what they held at first.                                   *)
TokensAreKept == SumFunction(tokens) = SumFunction(Opening)

(* What is asked, what the chain runs and what the caller hears agree.      *)
TransfersAreTrue ==
    /\ TransfersTypeOK /\ AmountIsExact /\ PrintedReadsBack
    /\ PaidIsToldApart /\ RejectedWereOvertaken /\ TokensAreKept

=============================================================================
