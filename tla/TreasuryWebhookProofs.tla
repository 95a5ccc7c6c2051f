----------------------- MODULE TreasuryWebhookProofs -----------------------
(***************************************************************************)
(* Theorems about the companies' view of their treasury wallets, for any   *)
(* companies, wallets and transactions of any transfers, any numbers of    *)
(* deliveries, replays and polls, and any numbers of handlers and viewers  *)
(* at once.                                                                *)
(***************************************************************************)
EXTENDS TreasuryWebhook, SumTheorems, TLAPS

USE TreasuryAssumption

-----------------------------------------------------------------------------
(* The invariant.  What a handler carries from await to await is sound      *)
(* whatever the others wrote in between: its transaction is final, the      *)
(* transfer it works on belongs to the company it found, the transfers it   *)
(* has passed are in the ledger, and a balance that it did not guess is one *)
(* the wallet has had.                                                      *)

OfSig(r) == r.key[1]
OfTransfer(r) == TransfersOf[OfSig(r)][r.next]

Sound(r, outcome, rows, balances) ==
    r.at # "idle" =>
        /\ outcome[OfSig(r)] # "unsent"
        /\ r.replay \/ r.full
        /\ r.at # "lookup" => /\ outcome[OfSig(r)] = "landed"
                              /\ r.next \in Counted(OfSig(r))
                              /\ r.company \in Owners(OfTransfer(r))
        /\ r.at \in {"read", "write", "confirm"} => rows[OfSig(r)] # NoRow
        /\ r.at = "confirm" => OfTransfer(r).to # WalletOf[r.company]
        /\ r.at = "write" /\ ~r.guess => r.seen \in balances[WalletOf[r.company]]
        /\ \A n \in Counted(OfSig(r)) : n < r.next => rows[OfSig(r)] # NoRow

HandlersAreSound == \A h \in Handlers : Sound(handler[h], chain, ledger, held)

ViewersAreSound ==
    \A v \in Viewers : viewer[v].at = "write" =>
        viewer[v].seen \in held[WalletOf[viewer[v].company]]

LettersAreFinal == \A key \in LetterKeys : letter[key].status # "none" => chain[key[1]] # "unsent"

AcknowledgedIsFinal == \A s \in acknowledged : chain[s] # "unsent"

LiveIsHeld == \A w \in Wallets : live[w] \in held[w]

TreasuryInv ==
    /\ TreasuryTypeOK
    /\ HandlersAreSound /\ ViewersAreSound /\ LettersAreFinal /\ AcknowledgedIsFinal /\ LiveIsHeld
    /\ AcknowledgedIsRecorded /\ LedgerNeverOverstates /\ UnguessedBalanceWasReal

-----------------------------------------------------------------------------
(* Keys, transfers and flows.                                               *)

LEMMA Keys ==
    /\ \A key \in LetterKeys : key[1] \in Sigs
    /\ \A s \in Sigs : \A n \in 0 .. MaxDeliveries[s] :
          LetterKey(s, n) \in LetterKeys /\ LetterKey(s, n)[1] = s
<1>1. \A key \in LetterKeys : key[1] \in Sigs
    BY DEF LetterKeys
<1>2. ASSUME NEW s \in Sigs, NEW n \in 0 .. MaxDeliveries[s]
      PROVE  LetterKey(s, n) \in LetterKeys /\ LetterKey(s, n)[1] = s
  <2>1. <<s, 0>> \in {s} \X (0 .. MaxDeliveries[s]) /\ <<s, n>> \in {s} \X (0 .. MaxDeliveries[s])
      OBVIOUS
  <2>2. <<s, 0>> \in LetterKeys /\ <<s, n>> \in LetterKeys
      BY <2>1 DEF LetterKeys
  <2>3. QED BY <2>2 DEF LetterKey
<1>3. QED BY <1>1, <1>2

LEMMA TransferTypes ==
    ASSUME NEW s \in Sigs
    PROVE  /\ DOMAIN TransfersOf[s] = 1 .. Len(TransfersOf[s]) /\ Len(TransfersOf[s]) \in Nat
           /\ \A n \in DOMAIN TransfersOf[s] : TransfersOf[s][n] \in Transfers
           /\ \A n \in Counted(s) : n \in DOMAIN TransfersOf[s] /\ n \in Nat
                                    /\ TransfersOf[s][n].amount > 0
BY DEF Counted

LEMMA Flows ==
    ASSUME NEW s \in Sigs, NEW w \in Wallets
    PROVE  /\ Inflow(s, w) \in Nat /\ Outflow(s, w) \in Nat
           /\ \A n \in Into(s, w) : TransfersOf[s][n].amount <= Inflow(s, w)
           /\ \A n \in OutOf(s, w) : TransfersOf[s][n].amount <= Outflow(s, w)
<1>1. /\ IsFiniteSet(DOMAIN TransfersOf[s])
      /\ \A n \in DOMAIN TransfersOf[s] :
            AmountsOf(s)[n] = TransfersOf[s][n].amount /\ AmountsOf(s)[n] \in Nat
    BY TransferTypes, FS_Interval DEF AmountsOf, Transfers
<1>2. Into(s, w) \subseteq DOMAIN TransfersOf[s] /\ OutOf(s, w) \subseteq DOMAIN TransfersOf[s]
    BY DEF Into, OutOf
<1>3. IsFiniteSet(Into(s, w)) /\ IsFiniteSet(OutOf(s, w))
    BY <1>1, <1>2, FS_Subset
<1>4. /\ Inflow(s, w) \in Nat
      /\ \A n \in Into(s, w) : AmountsOf(s)[n] <= Inflow(s, w)
    BY <1>1, <1>2, <1>3, SumOfNats DEF Inflow
<1>5. /\ Outflow(s, w) \in Nat
      /\ \A n \in OutOf(s, w) : AmountsOf(s)[n] <= Outflow(s, w)
    BY <1>1, <1>2, <1>3, SumOfNats DEF Outflow
<1>6. QED BY <1>1, <1>2, <1>4, <1>5

-----------------------------------------------------------------------------
(* What only grows.                                                         *)

LEMMA Growth ==
    ASSUME TreasuryTypeOK, [TreasuryNext]_treasuryVars
    PROVE  /\ \A s \in Sigs : chain[s] # "unsent" => chain'[s] = chain[s]
           /\ \A s \in Sigs : ledger[s] # NoRow => ledger'[s] # NoRow
           /\ \A w \in Wallets : held[w] \subseteq held'[w]
<1> USE DEF TreasuryTypeOK
<1>1. CASE UNCHANGED treasuryVars
    BY <1>1 DEF treasuryVars, tables, treasuryHistory
<1>2. ASSUME NEW s \in Sigs, Land(s) \/ Refused(s)
      PROVE  /\ \A c \in Sigs : chain[c] # "unsent" => chain'[c] = chain[c]
             /\ ledger' = ledger
             /\ \A w \in Wallets : held[w] \subseteq held'[w]
    BY <1>2 DEF Land, Refused, tables, treasuryHistory
<1>3. ASSUME NEW s \in Sigs, Book(s) \/ Unbook(s) PROVE UNCHANGED <<chain, ledger, held>>
    BY <1>3 DEF Book, Unbook, treasuryHistory
<1>4. ASSUME NEW v \in Viewers, ViewerStep(v) PROVE UNCHANGED <<chain, ledger, held>>
    BY <1>4 DEF ViewerStep, View, SaveView, tables, treasuryHistory
<1>5. ASSUME NEW h \in Handlers, HandlerStep(h) PROVE UNCHANGED <<chain, held>>
    BY <1>5 DEF HandlerStep, Process, Deliver, TakeLetter, Fail, Skip, FindCompany,
                RecordTransfer, ReadBalance, GuessBalance, WriteBalance, ConfirmPayouts,
                AnswerDelivery, CloseLetter, tables, treasuryHistory
<1>6. ASSUME NEW h \in Handlers, HandlerStep(h), ~RecordTransfer(h) PROVE ledger' = ledger
    BY <1>6 DEF HandlerStep, Process, Deliver, TakeLetter, Fail, Skip, FindCompany,
                ReadBalance, GuessBalance, WriteBalance, ConfirmPayouts,
                AnswerDelivery, CloseLetter, tables
<1>7. ASSUME NEW h \in Handlers, RecordTransfer(h), NEW s \in Sigs, ledger[s] # NoRow
      PROVE  ledger'[s] # NoRow
  <2>1. ledger'[s] = ledger[s] \/
        ledger'[s] = [company |-> handler[h].company, direction |-> Direction(h),
                      amount |-> Current(h).amount]
      BY <1>7 DEF RecordTransfer
  <2>2. Direction(h) # "none" BY DEF Direction
  <2>3. QED BY <1>7, <2>1, <2>2 DEF NoRow
<1>8. QED BY <1>1, <1>2, <1>3, <1>4, <1>5, <1>6, <1>7 DEF TreasuryNext

LEMMA SoundStays ==
    ASSUME TreasuryTypeOK, [TreasuryNext]_treasuryVars,
           NEW r \in {Idle} \cup Working, Sound(r, chain, ledger, held)
    PROVE  Sound(r, chain', ledger', held')
<1>1. CASE r = Idle BY <1>1 DEF Sound, Idle
<1>2. CASE r \in Working
  <2>1. OfSig(r) \in Sigs BY <1>2, Keys DEF OfSig, Working
  <2>2. r.at # "lookup" /\ r.at # "idle" => r.company \in Companies
      BY DEF Sound, Owners
  <2>3. QED BY <2>1, <2>2, Growth DEF Sound
<1>3. QED BY <1>1, <1>2

-----------------------------------------------------------------------------
(* The steps of a handler: whatever it carries on with is sound again.      *)

Carries(h, r) ==
    /\ r \in {Idle} \cup Working
    /\ handler' = [handler EXCEPT ![h] = r]
    /\ Sound(r, chain', ledger', held')

GoesOn(h) == \E r \in {Idle} \cup Working : Carries(h, r)

LEMMA GoingOn ==
    ASSUME TreasuryTypeOK, HandlersAreSound, [TreasuryNext]_treasuryVars,
           NEW h \in Handlers, GoesOn(h)
    PROVE  HandlersAreSound' /\ handler' \in [Handlers -> {Idle} \cup Working]
<1>1. PICK r \in {Idle} \cup Working : Carries(h, r) BY DEF GoesOn
<1>2. handler' = [handler EXCEPT ![h] = r] /\ handler \in [Handlers -> {Idle} \cup Working]
    BY <1>1 DEF Carries, TreasuryTypeOK
<1>3. handler' \in [Handlers -> {Idle} \cup Working] BY <1>2
<1>4. ASSUME NEW k \in Handlers PROVE Sound(handler'[k], chain', ledger', held')
  <2>1. CASE k = h BY <1>1, <1>2, <2>1 DEF Carries
  <2>2. CASE k # h
    <3>1. handler'[k] = handler[k] /\ Sound(handler[k], chain, ledger, held)
        BY <1>2, <2>2 DEF HandlersAreSound
    <3>2. QED BY <1>2, <3>1, SoundStays
  <2>3. QED BY <2>1, <2>2
<1>5. QED BY <1>3, <1>4 DEF HandlersAreSound

LEMMA IdleGoesOn ==
    ASSUME NEW h \in Handlers, handler' = [handler EXCEPT ![h] = Idle]
    PROVE  GoesOn(h)
<1>1. Sound(Idle, chain', ledger', held') BY DEF Sound, Idle
<1>2. Idle \in {Idle} \cup Working OBVIOUS
<1>3. QED BY <1>1, <1>2 DEF GoesOn, Carries

LEMMA StartIsSound ==
    ASSUME TreasuryTypeOK, [TreasuryNext]_treasuryVars,
           NEW h \in Handlers, NEW key \in LetterKeys, NEW replay \in BOOLEAN,
           NEW full \in BOOLEAN, NEW attempts \in 0 .. MaxReplays,
           handler' = [handler EXCEPT ![h] = Start(key, replay, full, attempts)],
           chain[key[1]] # "unsent", replay \/ full
    PROVE  GoesOn(h)
<1> DEFINE r == Start(key, replay, full, attempts)
<1>1. r \in Working BY DEF Start, Working
<1>2. Sound(r, chain, ledger, held)
  <2>1. key[1] \in Sigs BY Keys
  <2>2. \A n \in Counted(key[1]) : n \in Nat /\ n >= 1
      BY <2>1, TransferTypes
  <2>3. QED BY <2>2 DEF Sound, Start, OfSig, OfTransfer
<1>3. Sound(r, chain', ledger', held') BY <1>1, <1>2, SoundStays
<1> HIDE DEF r
<1>4. QED BY <1>1, <1>3 DEF GoesOn, Carries, r

LEMMA DeliverGoesOn ==
    ASSUME TreasuryTypeOK, NEW h \in Handlers, NEW s \in Sigs, Deliver(h, s)
    PROVE  GoesOn(h) \/ handler' = handler
<1>1. delivered'[s] \in 0 .. MaxDeliveries[s] \/ handler' = handler
  <2>1. delivered[s] < MaxDeliveries[s] /\ delivered' = [delivered EXCEPT ![s] = @ + 1]
      BY DEF Deliver
  <2>2. QED BY <2>1 DEF TreasuryTypeOK
<1>2. CASE handler' # handler
  <2> DEFINE key == LetterKey(s, delivered'[s])
  <2>1. key \in LetterKeys /\ key[1] = s BY <1>1, <1>2, Keys
  <2>2. handler' = [handler EXCEPT ![h] = Start(key, FALSE, TRUE, 0)] /\ chain[s] # "unsent"
      BY <1>2 DEF Deliver
  <2>3. [TreasuryNext]_treasuryVars BY DEF TreasuryNext, HandlerStep
  <2> HIDE DEF key
  <2>4. PICK k \in LetterKeys : k = key BY <2>1
  <2>5. 0 \in 0 .. MaxReplays OBVIOUS
  <2>6. QED BY <2>1, <2>2, <2>3, <2>4, <2>5, StartIsSound
<1>3. QED BY <1>2

LEMMA TakeLetterGoesOn ==
    ASSUME TreasuryTypeOK, LettersAreFinal,
           NEW h \in Handlers, NEW key \in LetterKeys, TakeLetter(h, key)
    PROVE  GoesOn(h)
<1>1. letter[key] \in Letters /\ letter[key].status # "none"
    BY DEF TreasuryTypeOK, TakeLetter
<1>2. letter[key].full \in BOOLEAN /\ letter[key].attempts \in 0 .. MaxReplays
    BY <1>1 DEF Letters
<1>3. chain[key[1]] # "unsent" BY <1>1 DEF LettersAreFinal
<1>4. handler' = [handler EXCEPT ![h] =
                      Start(key, TRUE, letter[key].full, letter[key].attempts)]
    BY DEF TakeLetter
<1>5. [TreasuryNext]_treasuryVars BY DEF TreasuryNext, HandlerStep
<1>6. QED BY <1>2, <1>3, <1>4, <1>5, StartIsSound

(* What a handler at work knows of its transfer.                            *)
LEMMA AtWork ==
    ASSUME TreasuryTypeOK, HandlersAreSound, NEW h \in Handlers, handler[h].at # "idle"
    PROVE  /\ handler[h] \in Working /\ SigOf(h) \in Sigs /\ handler[h].next \in Nat
           /\ Sound(handler[h], chain, ledger, held)
           /\ OfSig(handler[h]) = SigOf(h) /\ OfTransfer(handler[h]) = Current(h)
           /\ handler[h].at # "lookup" =>
                 /\ Current(h) \in Transfers /\ Current(h).amount > 0
                 /\ handler[h].company \in Companies
<1>1. handler[h] \in Working BY DEF TreasuryTypeOK, Idle
<1>2. SigOf(h) \in Sigs BY <1>1, Keys DEF Working, SigOf
<1>3. Sound(handler[h], chain, ledger, held) BY DEF HandlersAreSound
<1>4. handler[h].next \in Nat BY <1>1 DEF Working
<1>5. OfSig(handler[h]) = SigOf(h) /\ OfTransfer(handler[h]) = Current(h)
    BY DEF OfSig, OfTransfer, SigOf, Current
<1>6. ASSUME handler[h].at # "lookup"
      PROVE  /\ Current(h) \in Transfers /\ Current(h).amount > 0
             /\ handler[h].company \in Companies
  <2>1. handler[h].next \in Counted(SigOf(h)) /\ handler[h].company \in Owners(Current(h))
      BY <1>3, <1>5, <1>6 DEF Sound
  <2>2. QED BY <1>2, <2>1, TransferTypes DEF Owners, Current, OfSig, SigOf
<1>7. QED BY <1>1, <1>2, <1>3, <1>4, <1>5, <1>6

LEMMA SkipGoesOn ==
    ASSUME TreasuryTypeOK, HandlersAreSound, NEW h \in Handlers, Skip(h)
    PROVE  GoesOn(h)
<1> DEFINE q == handler[h]
           r == [q EXCEPT !.next = @ + 1]
<1>1. /\ q.at = "lookup" /\ q.next \notin Counted(SigOf(h))
      /\ UNCHANGED <<chain, ledger, held>>
      /\ handler' = [handler EXCEPT ![h] = r]
    BY DEF Skip, At, tables, treasuryHistory
<1>2. /\ q \in Working /\ SigOf(h) \in Sigs /\ q.next \in Nat /\ Sound(q, chain, ledger, held)
      /\ OfSig(q) = SigOf(h)
    BY <1>1, AtWork
<1>3. r \in Working
  <2>1. q.next + 1 \in Nat BY <1>2
  <2>2. [q EXCEPT !.next = q.next + 1] \in Working BY <1>2, <2>1 DEF Working
  <2>3. QED BY <2>2
<1>4. /\ r.at = "lookup" /\ r.key = q.key /\ r.replay = q.replay /\ r.full = q.full
      /\ r.next = q.next + 1
    BY <1>1, <1>2 DEF Working
<1> HIDE DEF r, q
<1>5. OfSig(r) = OfSig(q) BY <1>4 DEF OfSig
<1>6. \A n \in Counted(SigOf(h)) : n < r.next => n < q.next
    BY <1>1, <1>2, <1>4, TransferTypes
<1>7. Sound(r, chain, ledger, held)
    BY <1>1, <1>2, <1>4, <1>5, <1>6 DEF Sound
<1>8. QED BY <1>1, <1>3, <1>7 DEF GoesOn, Carries

LEMMA FindCompanyGoesOn ==
    ASSUME TreasuryTypeOK, HandlersAreSound, NEW h \in Handlers, FindCompany(h)
    PROVE  GoesOn(h)
<1> DEFINE q == handler[h]
<1>1. /\ q.at = "lookup" /\ q.next \in Counted(SigOf(h)) /\ ~Processed(h)
      /\ UNCHANGED <<chain, ledger, held>>
    BY DEF FindCompany, At, tables, treasuryHistory
<1>2. PICK c \in Owners(Current(h)) :
          handler' = [handler EXCEPT ![h] =
                          [q EXCEPT !.at = "record", !.company = c, !.base = cached[c]]]
    BY DEF FindCompany
<1> DEFINE r == [q EXCEPT !.at = "record", !.company = c, !.base = cached[c]]
<1>3. /\ q \in Working /\ SigOf(h) \in Sigs /\ Sound(q, chain, ledger, held)
      /\ OfSig(q) = SigOf(h) /\ OfTransfer(q) = Current(h)
    BY <1>1, AtWork
<1>4. c \in Companies /\ cached[c] \in Nat BY DEF Owners, TreasuryTypeOK
<1>5. r \in Working BY <1>3, <1>4 DEF Working
<1>6. /\ r.at = "record" /\ r.key = q.key /\ r.replay = q.replay /\ r.full = q.full
      /\ r.next = q.next /\ r.company = c
    BY <1>3 DEF Working
<1>7. chain[SigOf(h)] = "landed"
  <2>1. chain[SigOf(h)] \in {"unsent", "landed", "failed"} BY <1>3 DEF TreasuryTypeOK
  <2>2. chain[SigOf(h)] # "failed" BY <1>1 DEF Processed, At
  <2>3. chain[SigOf(h)] # "unsent" BY <1>1, <1>3 DEF Sound
  <2>4. QED BY <2>1, <2>2, <2>3
<1> HIDE DEF r
<1>8. OfSig(r) = OfSig(q) /\ OfTransfer(r) = OfTransfer(q)
    BY <1>6 DEF OfSig, OfTransfer
<1> HIDE DEF q
<1>9. Sound(r, chain, ledger, held)
    BY <1>1, <1>3, <1>6, <1>7, <1>8 DEF Sound
<1>10. QED BY <1>1, <1>2, <1>5, <1>9 DEF GoesOn, Carries, r, q

LEMMA RecordTransferGoesOn ==
    ASSUME TreasuryTypeOK, HandlersAreSound, NEW h \in Handlers, RecordTransfer(h)
    PROVE  GoesOn(h)
<1> DEFINE q == handler[h]
           r == [q EXCEPT !.at = "read"]
<1>1. /\ q.at = "record" /\ UNCHANGED <<chain, held>>
      /\ handler' = [handler EXCEPT ![h] = r]
    BY DEF RecordTransfer, At, treasuryHistory
<1>2. /\ q \in Working /\ SigOf(h) \in Sigs /\ Sound(q, chain, ledger, held)
      /\ OfSig(q) = SigOf(h) /\ OfTransfer(q) = Current(h)
    BY <1>1, AtWork
<1>3. ledger'[SigOf(h)] # NoRow
  <2>1. ledger'[SigOf(h)] = [company |-> handler[h].company, direction |-> Direction(h),
                             amount |-> Current(h).amount]
      BY <1>2 DEF RecordTransfer, TreasuryTypeOK
  <2>2. Direction(h) # "none" BY DEF Direction
  <2>3. QED BY <2>1, <2>2 DEF NoRow
<1>4. r \in Working BY <1>2 DEF Working
<1>5. /\ r.at = "read" /\ r.key = q.key /\ r.replay = q.replay /\ r.full = q.full
      /\ r.next = q.next /\ r.company = q.company
    BY <1>2 DEF Working
<1> HIDE DEF r
<1>6. OfSig(r) = OfSig(q) /\ OfTransfer(r) = OfTransfer(q)
    BY <1>5 DEF OfSig, OfTransfer
<1> HIDE DEF q
<1>7. Sound(r, chain, ledger', held)
    BY <1>1, <1>2, <1>3, <1>5, <1>6 DEF Sound
<1>8. QED BY <1>1, <1>4, <1>7 DEF GoesOn, Carries, r, q

LEMMA BalanceGoesOn ==
    ASSUME TreasuryTypeOK, HandlersAreSound, LiveIsHeld, NEW h \in Handlers,
           ReadBalance(h) \/ GuessBalance(h)
    PROVE  GoesOn(h)
<1> DEFINE q == handler[h]
<1>1. q.at = "read" /\ UNCHANGED <<chain, ledger, held>>
    BY DEF ReadBalance, GuessBalance, At, tables, treasuryHistory
<1>2. /\ q \in Working /\ SigOf(h) \in Sigs /\ Sound(q, chain, ledger, held)
      /\ OfSig(q) = SigOf(h) /\ OfTransfer(q) = Current(h)
      /\ Current(h) \in Transfers /\ q.company \in Companies
    BY <1>1, AtWork
<1>3. \E guess \in BOOLEAN, seen \in Nat :
          /\ handler' = [handler EXCEPT ![h] =
                            [q EXCEPT !.at = "write", !.guess = guess, !.seen = seen]]
          /\ guess \/ seen \in held[WalletOf[q.company]]
  <2>1. CASE ReadBalance(h)
    <3>1. live[WalletOf[q.company]] \in Nat /\ live[WalletOf[q.company]] \in held[WalletOf[q.company]]
        BY <1>2 DEF TreasuryTypeOK, LiveIsHeld
    <3>2. QED BY <2>1, <3>1 DEF ReadBalance
  <2>2. CASE GuessBalance(h)
    <3>1. q.base \in Nat /\ Current(h).amount \in Nat
        BY <1>2 DEF Working, Transfers
    <3>2. Guess(h) \in Nat BY <3>1 DEF Guess
    <3>3. QED BY <2>2, <3>2 DEF GuessBalance
  <2>3. QED BY <2>1, <2>2
<1>4. PICK guess \in BOOLEAN, seen \in Nat :
          /\ handler' = [handler EXCEPT ![h] =
                            [q EXCEPT !.at = "write", !.guess = guess, !.seen = seen]]
          /\ guess \/ seen \in held[WalletOf[q.company]]
    BY <1>3
<1> DEFINE r == [q EXCEPT !.at = "write", !.guess = guess, !.seen = seen]
<1>5. r \in Working BY <1>2 DEF Working
<1>6. /\ r.at = "write" /\ r.key = q.key /\ r.replay = q.replay /\ r.full = q.full
      /\ r.next = q.next /\ r.company = q.company /\ r.guess = guess /\ r.seen = seen
    BY <1>2 DEF Working
<1> HIDE DEF r
<1>7. OfSig(r) = OfSig(q) /\ OfTransfer(r) = OfTransfer(q)
    BY <1>6 DEF OfSig, OfTransfer
<1> HIDE DEF q
<1>8. Sound(r, chain, ledger, held)
    BY <1>1, <1>2, <1>4, <1>6, <1>7 DEF Sound
<1>9. QED BY <1>1, <1>4, <1>5, <1>8 DEF GoesOn, Carries, r, q

LEMMA NextGoesOn ==
    ASSUME TreasuryTypeOK, HandlersAreSound, [TreasuryNext]_treasuryVars, NEW h \in Handlers,
           handler[h].at \in {"write", "confirm"}, handler' = NextTransfer(h)
    PROVE  GoesOn(h)
<1> DEFINE q == handler[h]
           r == [q EXCEPT !.at = "lookup", !.next = q.next + 1, !.company = Outside,
                          !.base = 0, !.seen = 0, !.guess = FALSE]
<1>1. /\ q \in Working /\ SigOf(h) \in Sigs /\ q.next \in Nat /\ Sound(q, chain, ledger, held)
      /\ OfSig(q) = SigOf(h)
    BY AtWork
<1>2. q.next + 1 \in Nat BY <1>1
<1>3. r \in Working BY <1>1, <1>2 DEF Working
<1>4. r.at = "lookup" /\ r.key = q.key /\ r.replay = q.replay /\ r.full = q.full
    BY <1>1 DEF Working
<1>5. handler' = [handler EXCEPT ![h] = r] BY DEF NextTransfer
<1> HIDE DEF r
<1>6. OfSig(r) = OfSig(q) BY <1>4 DEF OfSig
<1> HIDE DEF q
<1>7. q.at \in {"write", "confirm"} BY DEF q
<1>8. Sound(r, chain, ledger, held)
    BY <1>1, <1>4, <1>6, <1>7 DEF Sound
<1>9. QED BY <1>3, <1>5, <1>8, SoundStays DEF GoesOn, Carries

LEMMA WriteBalanceGoesOn ==
    ASSUME TreasuryTypeOK, HandlersAreSound, NEW h \in Handlers, WriteBalance(h)
    PROVE  GoesOn(h)
<1> DEFINE q == handler[h]
           r == [q EXCEPT !.at = "confirm"]
<1>1. q.at = "write" /\ UNCHANGED <<chain, ledger, held>>
    BY DEF WriteBalance, At
<1>2. [TreasuryNext]_treasuryVars BY DEF TreasuryNext, HandlerStep, Process
<1>3. CASE Direction(h) = "OUTGOING"
  <2>1. /\ q \in Working /\ SigOf(h) \in Sigs /\ Sound(q, chain, ledger, held)
        /\ OfSig(q) = SigOf(h) /\ OfTransfer(q) = Current(h)
      BY <1>1, AtWork
  <2>2. handler' = [handler EXCEPT ![h] = r] BY <1>3 DEF WriteBalance
  <2>3. r \in Working BY <2>1 DEF Working
  <2>4. /\ r.at = "confirm" /\ r.key = q.key /\ r.replay = q.replay /\ r.full = q.full
        /\ r.next = q.next /\ r.company = q.company
      BY <2>1 DEF Working
  <2>5. Current(h).to # WalletOf[q.company] BY <1>3 DEF Direction
  <2> HIDE DEF r
  <2>6. OfSig(r) = OfSig(q) /\ OfTransfer(r) = OfTransfer(q)
      BY <2>4 DEF OfSig, OfTransfer
  <2> HIDE DEF q
  <2>7. Sound(r, chain, ledger, held)
      BY <1>1, <2>1, <2>4, <2>5, <2>6 DEF Sound
  <2>8. QED BY <1>1, <2>2, <2>3, <2>7 DEF GoesOn, Carries, r, q
<1>4. CASE Direction(h) # "OUTGOING"
  <2>1. handler' = NextTransfer(h) BY <1>4 DEF WriteBalance
  <2>2. QED BY <1>1, <1>2, <2>1, NextGoesOn
<1>5. QED BY <1>3, <1>4

(* Only deliveries that are refused leave every handler where it was.       *)
LEMMA HandlerStepGoesOn ==
    ASSUME TreasuryTypeOK, HandlersAreSound, LettersAreFinal, LiveIsHeld,
           NEW h \in Handlers, HandlerStep(h)
    PROVE  GoesOn(h) \/ handler' = handler
<1>1. [TreasuryNext]_treasuryVars BY DEF TreasuryNext
<1>2. CASE Fail(h) \/ AnswerDelivery(h) \/ CloseLetter(h)
  <2>1. handler' = [handler EXCEPT ![h] = Idle]
      BY <1>2 DEF Fail, AnswerDelivery, CloseLetter
  <2>2. QED BY <2>1, IdleGoesOn
<1>3. CASE ConfirmPayouts(h)
  <2>1. handler[h].at = "confirm" /\ handler' = NextTransfer(h)
      BY <1>3 DEF ConfirmPayouts, At
  <2>2. QED BY <1>1, <2>1, NextGoesOn
<1>4. QED
    BY <1>2, <1>3, DeliverGoesOn, TakeLetterGoesOn, SkipGoesOn, FindCompanyGoesOn,
       RecordTransferGoesOn, BalanceGoesOn, WriteBalanceGoesOn DEF HandlerStep, Process

LEMMA HandlersStep ==
    ASSUME TreasuryTypeOK, HandlersAreSound, LettersAreFinal, LiveIsHeld,
           [TreasuryNext]_treasuryVars
    PROVE  HandlersAreSound' /\ handler' \in [Handlers -> {Idle} \cup Working]
<1>1. CASE handler' = handler
  <2>1. handler \in [Handlers -> {Idle} \cup Working] BY DEF TreasuryTypeOK
  <2>2. \A k \in Handlers : Sound(handler[k], chain', ledger', held')
      BY <2>1, SoundStays DEF HandlersAreSound
  <2>3. QED BY <1>1, <2>1, <2>2 DEF HandlersAreSound
<1>2. CASE handler' # handler
  <2>1. PICK h \in Handlers : HandlerStep(h)
      BY <1>2 DEF TreasuryNext, treasuryVars, Land, Refused, Book, Unbook, ViewerStep, View,
                  SaveView
  <2>2. QED BY <1>2, <2>1, HandlerStepGoesOn, GoingOn
<1>3. QED BY <1>1, <1>2

-----------------------------------------------------------------------------
(* Types.                                                                   *)

LEMMA ChainTypes ==
    ASSUME TreasuryTypeOK, LiveIsHeld, [TreasuryNext]_treasuryVars
    PROVE  /\ chain' \in [Sigs -> {"unsent", "landed", "failed"}]
           /\ live' \in [Wallets -> Nat] /\ held' \in [Wallets -> SUBSET Nat] /\ LiveIsHeld'
<1> USE DEF TreasuryTypeOK, LiveIsHeld
<1>1. CASE UNCHANGED <<chain, live, held>>
    BY <1>1
<1>2. ASSUME NEW s \in Sigs, Refused(s)
      PROVE  chain' \in [Sigs -> {"unsent", "landed", "failed"}] /\ UNCHANGED <<live, held>>
    BY <1>2 DEF Refused, treasuryHistory
<1>3. ASSUME NEW s \in Sigs, Land(s)
      PROVE  /\ chain' \in [Sigs -> {"unsent", "landed", "failed"}]
             /\ live' \in [Wallets -> Nat] /\ held' \in [Wallets -> SUBSET Nat] /\ LiveIsHeld'
  <2>1. \A w \in Wallets : live[w] + Inflow(s, w) - Outflow(s, w) \in Nat
    <3> TAKE w \in Wallets
    <3>1. Inflow(s, w) \in Nat /\ Outflow(s, w) \in Nat BY Flows
    <3>2. live[w] \in Nat /\ Outflow(s, w) <= live[w] BY <1>3 DEF Land
    <3>3. QED BY <3>1, <3>2
  <2>2. /\ live' = [w \in Wallets |-> live[w] + Inflow(s, w) - Outflow(s, w)]
        /\ held' = [w \in Wallets |-> held[w] \cup {live'[w]}]
        /\ chain' = [chain EXCEPT ![s] = "landed"]
      BY <1>3 DEF Land
  <2>3. live' \in [Wallets -> Nat] BY <2>1, <2>2
  <2>4. held' \in [Wallets -> SUBSET Nat] /\ LiveIsHeld' BY <2>2, <2>3
  <2>5. QED BY <2>2, <2>3, <2>4
<1>4. ASSUME NEW s \in Sigs, Book(s) \/ Unbook(s) PROVE UNCHANGED <<chain, live, held>>
    BY <1>4 DEF Book, Unbook, treasuryHistory
<1>5. ASSUME NEW v \in Viewers, ViewerStep(v) PROVE UNCHANGED <<chain, live, held>>
    BY <1>5 DEF ViewerStep, View, SaveView, treasuryHistory
<1>6. ASSUME NEW h \in Handlers, HandlerStep(h) PROVE UNCHANGED <<chain, live, held>>
    BY <1>6 DEF HandlerStep, Process, Deliver, TakeLetter, Fail, Skip, FindCompany,
                RecordTransfer, ReadBalance, GuessBalance, WriteBalance, ConfirmPayouts,
                AnswerDelivery, CloseLetter, treasuryHistory
<1>7. QED
    BY <1>1, <1>2, <1>3, <1>4, <1>5, <1>6 DEF TreasuryNext, treasuryVars, treasuryHistory

LEMMA LettersStep ==
    ASSUME TreasuryTypeOK, HandlersAreSound, LettersAreFinal, [TreasuryNext]_treasuryVars
    PROVE  letter' \in [LetterKeys -> Letters] /\ LettersAreFinal'
<1>1. letter \in [LetterKeys -> Letters] BY DEF TreasuryTypeOK
<1>2. ASSUME NEW key \in LetterKeys, NEW l \in Letters, chain[key[1]] # "unsent",
             letter' = [letter EXCEPT ![key] = l]
      PROVE  letter' \in [LetterKeys -> Letters] /\ LettersAreFinal'
  <2>1. letter' \in [LetterKeys -> Letters] BY <1>1, <1>2
  <2>2. ASSUME NEW k \in LetterKeys, letter'[k].status # "none" PROVE chain'[k[1]] # "unsent"
    <3>1. chain[k[1]] # "unsent" BY <1>1, <1>2, <2>2 DEF LettersAreFinal
    <3>2. QED BY <3>1, Keys, Growth
  <2>3. QED BY <2>1, <2>2 DEF LettersAreFinal
<1>3. CASE letter' = letter
  <2>1. \A k \in LetterKeys : chain[k[1]] # "unsent" => chain'[k[1]] # "unsent"
      BY Keys, Growth
  <2>2. QED BY <1>1, <1>3, <2>1 DEF LettersAreFinal
<1>4. \A l \in Letters, full \in BOOLEAN : Recorded(l, full) \in Letters
    BY DEF Recorded, Letters
<1>5. ASSUME NEW h \in Handlers, NEW s \in Sigs, Deliver(h, s), letter' # letter
      PROVE  letter' \in [LetterKeys -> Letters] /\ LettersAreFinal'
  <2> DEFINE key == LetterKey(s, delivered'[s])
  <2>1. delivered'[s] \in 0 .. MaxDeliveries[s]
      BY <1>5 DEF Deliver, TreasuryTypeOK
  <2>2. key \in LetterKeys /\ key[1] = s BY <2>1, Keys
  <2>3. /\ letter' = [letter EXCEPT ![key] = Recorded(letter[key], FALSE)]
        /\ chain[s] # "unsent"
      BY <1>5 DEF Deliver
  <2> HIDE DEF key
  <2>4. PICK k \in LetterKeys : k = key BY <2>2
  <2>5. Recorded(letter[k], FALSE) \in Letters BY <1>1, <1>4
  <2>6. QED BY <1>2, <2>2, <2>3, <2>4, <2>5
<1>6. ASSUME NEW h \in Handlers, handler[h].at # "idle"
      PROVE  /\ handler[h].key \in LetterKeys /\ chain[handler[h].key[1]] # "unsent"
             /\ handler[h].attempts \in 0 .. MaxReplays
    BY <1>6, AtWork DEF Working, Sound, OfSig
<1>7. ASSUME NEW h \in Handlers, Fail(h), letter' # letter
      PROVE  letter' \in [LetterKeys -> Letters] /\ LettersAreFinal'
  <2> DEFINE key == handler[h].key
             l == IF handler[h].replay THEN CountedFailure(h, letter[key])
                  ELSE Recorded(letter[key], TRUE)
  <2>1. handler[h].at # "idle" BY <1>7 DEF Fail, TreasuryTypeOK, Working, Idle
  <2>2. key \in LetterKeys /\ chain[key[1]] # "unsent" /\ handler[h].attempts \in 0 .. MaxReplays
      BY <1>6, <2>1
  <2>3. letter[key] \in Letters BY <1>1, <2>2
  <2>4. CountedFailure(h, letter[key]) \in Letters
    <3> DEFINE n == handler[h].attempts + 1
               m == IF n > MaxReplays THEN MaxReplays ELSE n
               status == IF n >= MaxReplays THEN "PERMANENT_FAILURE" ELSE "PENDING_REPLAY"
    <3>1. m \in 0 .. MaxReplays BY <2>2
    <3>2. status \in {"none", "PENDING_REPLAY", "REPLAYED", "PERMANENT_FAILURE"} OBVIOUS
    <3>3. CountedFailure(h, letter[key]) =
              [letter[key] EXCEPT !.attempts = m, !.status = status]
        BY DEF CountedFailure
    <3> HIDE DEF m, status
    <3>4. [letter[key] EXCEPT !.attempts = m, !.status = status] \in Letters
        BY <2>3, <3>1, <3>2 DEF Letters
    <3>5. QED BY <3>3, <3>4
  <2>5. l \in Letters BY <1>4, <2>3, <2>4
  <2>6. letter' = [letter EXCEPT ![key] = l] BY <1>7 DEF Fail
  <2>7. QED BY <1>2, <2>2, <2>5, <2>6
<1>8. ASSUME NEW h \in Handlers, CloseLetter(h)
      PROVE  letter' \in [LetterKeys -> Letters] /\ LettersAreFinal'
  <2> DEFINE key == handler[h].key
  <2>1. key \in LetterKeys /\ chain[key[1]] # "unsent"
      BY <1>6, <1>8 DEF CloseLetter, Processed, At
  <2>2. letter' = [letter EXCEPT ![key] = [letter[key] EXCEPT !.status = "REPLAYED"]]
      BY <1>8 DEF CloseLetter
  <2>3. [letter[key] EXCEPT !.status = "REPLAYED"] \in Letters
      BY <1>1, <2>1 DEF Letters
  <2>4. QED BY <1>2, <2>1, <2>2, <2>3
<1>9. QED
    BY <1>3, <1>5, <1>7, <1>8
       DEF TreasuryNext, treasuryVars, tables, Land, Refused, Book, Unbook, HandlerStep, Process,
           TakeLetter, Skip, FindCompany, RecordTransfer, ReadBalance, GuessBalance, WriteBalance,
           ConfirmPayouts, AnswerDelivery, ViewerStep, View, SaveView

LEMMA ViewersStep ==
    ASSUME TreasuryTypeOK, ViewersAreSound, LiveIsHeld, [TreasuryNext]_treasuryVars
    PROVE  /\ viewer' \in [Viewers -> {Idle} \cup [at: {"write"}, company: Companies, seen: Nat]]
           /\ ViewersAreSound'
<1> USE DEF TreasuryTypeOK, Idle
<1>1. \A w \in Wallets : held[w] \subseteq held'[w] BY Growth
<1>2. \A v \in Viewers : viewer[v].at = "write" => viewer[v].company \in Companies
    OBVIOUS
<1>3. CASE viewer' = viewer
    BY <1>1, <1>2, <1>3 DEF ViewersAreSound
<1>4. ASSUME NEW v \in Viewers, NEW c \in Companies, View(v, c)
      PROVE  /\ viewer' \in [Viewers -> {Idle} \cup [at: {"write"}, company: Companies, seen: Nat]]
             /\ ViewersAreSound'
  <2> DEFINE r == [at |-> "write", company |-> c, seen |-> live[WalletOf[c]]]
  <2>1. viewer' = [viewer EXCEPT ![v] = r] /\ held' = held
      BY <1>4 DEF View, treasuryHistory
  <2>2. r \in [at: {"write"}, company: Companies, seen: Nat]
        /\ r.seen \in held[WalletOf[r.company]]
      BY DEF LiveIsHeld
  <2> HIDE DEF r
  <2>3. viewer' \in [Viewers -> {Idle} \cup [at: {"write"}, company: Companies, seen: Nat]]
      BY <2>1, <2>2
  <2>4. \A x \in Viewers : viewer'[x] = r \/ viewer'[x] = viewer[x]
      BY <2>1
  <2>5. QED BY <2>1, <2>2, <2>3, <2>4 DEF ViewersAreSound
<1>5. ASSUME NEW v \in Viewers, SaveView(v)
      PROVE  /\ viewer' \in [Viewers -> {Idle} \cup [at: {"write"}, company: Companies, seen: Nat]]
             /\ ViewersAreSound'
  <2>1. viewer' = [viewer EXCEPT ![v] = Idle] /\ held' = held
      BY <1>5 DEF SaveView
  <2>2. \A x \in Viewers : viewer'[x] = Idle \/ viewer'[x] = viewer[x]
      BY <2>1
  <2>3. QED BY <2>1, <2>2 DEF ViewersAreSound
<1>6. QED
    BY <1>3, <1>4, <1>5
       DEF TreasuryNext, treasuryVars, Land, Refused, Book, Unbook, HandlerStep, Process,
           Deliver, TakeLetter, Fail, Skip, FindCompany, RecordTransfer, ReadBalance, GuessBalance,
           WriteBalance, ConfirmPayouts, AnswerDelivery, CloseLetter, ViewerStep

LEMMA CountsAndRows ==
    ASSUME TreasuryTypeOK, HandlersAreSound, [TreasuryNext]_treasuryVars
    PROVE  /\ delivered' \in [Sigs -> Nat] /\ \A s \in Sigs : delivered'[s] <= MaxDeliveries[s]
           /\ payout' \in [Sigs -> {"none", "CONFIRMED", "FAILED"}]
           /\ acknowledged' \subseteq Sigs
<1> USE DEF TreasuryTypeOK
<1>1. CASE UNCHANGED <<delivered, payout, acknowledged>>
    BY <1>1
<1>2. ASSUME NEW s \in Sigs, Land(s) \/ Refused(s) \/ Book(s) \/ Unbook(s)
      PROVE  /\ UNCHANGED <<delivered, acknowledged>>
             /\ payout' \in [Sigs -> {"none", "CONFIRMED", "FAILED"}]
    BY <1>2 DEF Land, Refused, Book, Unbook, tables, treasuryHistory
<1>3. ASSUME NEW h \in Handlers, NEW s \in Sigs, Deliver(h, s)
      PROVE  /\ delivered' \in [Sigs -> Nat] /\ \A c \in Sigs : delivered'[c] <= MaxDeliveries[c]
             /\ UNCHANGED <<payout, acknowledged>>
    BY <1>3 DEF Deliver, treasuryHistory
<1>4. ASSUME NEW h \in Handlers, ConfirmPayouts(h)
      PROVE  /\ UNCHANGED <<delivered, acknowledged>>
             /\ payout' \in [Sigs -> {"none", "CONFIRMED", "FAILED"}]
    BY <1>4 DEF ConfirmPayouts, treasuryHistory
<1>5. ASSUME NEW h \in Handlers, AnswerDelivery(h)
      PROVE  UNCHANGED <<delivered, payout>> /\ acknowledged' \subseteq Sigs
  <2>1. SigOf(h) \in Sigs BY <1>5, AtWork DEF AnswerDelivery, Processed, At
  <2>2. QED BY <1>5, <2>1 DEF AnswerDelivery, tables
<1>6. QED
    BY <1>1, <1>2, <1>3, <1>4, <1>5
       DEF TreasuryNext, treasuryVars, tables, treasuryHistory, HandlerStep, Process, TakeLetter, Fail,
           Skip, FindCompany, RecordTransfer, ReadBalance, GuessBalance, WriteBalance,
           CloseLetter, ViewerStep, View, SaveView

-----------------------------------------------------------------------------
(* The ledger.                                                              *)

LEMMA LedgerStep ==
    ASSUME TreasuryTypeOK, HandlersAreSound, LedgerNeverOverstates, [TreasuryNext]_treasuryVars
    PROVE  ledger' \in [Sigs -> Rows] /\ LedgerNeverOverstates'
<1>1. ledger \in [Sigs -> Rows] BY DEF TreasuryTypeOK
<1>2. \A s \in Sigs : chain[s] = "landed" => chain'[s] = "landed"
    BY Growth
<1>3. CASE ledger' = ledger
    BY <1>1, <1>2, <1>3 DEF LedgerNeverOverstates, Inflow, Outflow
<1>4. ASSUME NEW h \in Handlers, RecordTransfer(h)
      PROVE  ledger' \in [Sigs -> Rows] /\ LedgerNeverOverstates'
  <2> DEFINE s == SigOf(h)
             c == handler[h].company
             n == handler[h].next
             t == Current(h)
             r == [company |-> c, direction |-> Direction(h), amount |-> t.amount]
  <2>1. /\ s \in Sigs /\ t \in Transfers /\ c \in Companies /\ n \in Counted(s)
        /\ c \in Owners(t) /\ chain[s] = "landed" /\ t = TransfersOf[s][n]
      BY <1>4, AtWork DEF RecordTransfer, At, Sound, Current
  <2>2. ledger' = [ledger EXCEPT ![s] = r] /\ chain' = chain
      BY <1>4 DEF RecordTransfer
  <2>3. r \in Rows BY <2>1 DEF Rows, Direction, Transfers
  <2>4. r.amount <= IF r.direction = "INCOMING" THEN Inflow(s, WalletOf[r.company])
                                                 ELSE Outflow(s, WalletOf[r.company])
    <3>1. WalletOf[c] \in Wallets /\ n \in DOMAIN TransfersOf[s]
        BY <2>1, TransferTypes
    <3>2. CASE t.to = WalletOf[c]
      <4>1. n \in Into(s, WalletOf[c]) BY <2>1, <3>1, <3>2 DEF Into
      <4>2. t.amount <= Inflow(s, WalletOf[c]) BY <2>1, <3>1, <4>1, Flows
      <4>3. Direction(h) = "INCOMING" BY <3>2 DEF Direction
      <4>4. QED BY <4>2, <4>3
    <3>3. CASE t.to # WalletOf[c]
      <4>1. t.from = WalletOf[c] BY <2>1, <3>3 DEF Owners
      <4>2. n \in OutOf(s, WalletOf[c]) BY <2>1, <3>1, <4>1 DEF OutOf
      <4>3. t.amount <= Outflow(s, WalletOf[c]) BY <2>1, <3>1, <4>2, Flows
      <4>4. Direction(h) = "OUTGOING" BY <3>3 DEF Direction
      <4>5. QED BY <4>3, <4>4
    <3>4. QED BY <3>2, <3>3
  <2>5. ledger' \in [Sigs -> Rows] BY <1>1, <2>1, <2>2, <2>3
  <2> HIDE DEF r
  <2>6. ASSUME NEW x \in Sigs, ledger'[x] # NoRow
        PROVE  /\ chain'[x] = "landed"
               /\ ledger'[x].amount <=
                     IF ledger'[x].direction = "INCOMING"
                     THEN Inflow(x, WalletOf[ledger'[x].company])
                     ELSE Outflow(x, WalletOf[ledger'[x].company])
    <3>1. CASE x = s
        BY <1>1, <2>1, <2>2, <2>4, <3>1
    <3>2. CASE x # s
      <4>1. ledger'[x] = ledger[x] BY <1>1, <2>2, <3>2
      <4>2. QED BY <1>2, <2>6, <4>1 DEF LedgerNeverOverstates
    <3>3. QED BY <3>1, <3>2
  <2>7. QED BY <2>5, <2>6 DEF LedgerNeverOverstates, Inflow, Outflow
<1>5. QED
    BY <1>3, <1>4
       DEF TreasuryNext, treasuryVars, tables, Land, Refused, Book, Unbook, HandlerStep, Process,
           Deliver, TakeLetter, Fail, Skip, FindCompany, ReadBalance, GuessBalance, WriteBalance,
           ConfirmPayouts, AnswerDelivery, CloseLetter, ViewerStep, View, SaveView

(* A delivery that is answered has passed every transfer that counts.       *)
LEMMA AcknowledgedStep ==
    ASSUME TreasuryTypeOK, HandlersAreSound, AcknowledgedIsFinal, AcknowledgedIsRecorded,
           [TreasuryNext]_treasuryVars
    PROVE  AcknowledgedIsFinal' /\ AcknowledgedIsRecorded'
<1>1. acknowledged \subseteq Sigs BY DEF TreasuryTypeOK
<1>2. \A s \in acknowledged : /\ chain'[s] # "unsent"
                              /\ chain'[s] = "landed" /\ Counted(s) # {} => ledger'[s] # NoRow
    BY <1>1, Growth DEF AcknowledgedIsFinal, AcknowledgedIsRecorded
<1>3. CASE acknowledged' = acknowledged
    BY <1>2, <1>3 DEF AcknowledgedIsFinal, AcknowledgedIsRecorded, Counted, Owners
<1>4. ASSUME NEW h \in Handlers, AnswerDelivery(h)
      PROVE  AcknowledgedIsFinal' /\ AcknowledgedIsRecorded'
  <2> DEFINE s == SigOf(h)
  <2>1. /\ acknowledged' = acknowledged \cup {s} /\ UNCHANGED <<chain, ledger>>
        /\ Processed(h) /\ ~handler[h].replay
      BY <1>4 DEF AnswerDelivery, tables
  <2>2. /\ s \in Sigs /\ chain[s] # "unsent" /\ handler[h].full /\ handler[h].next \in Nat
        /\ \A n \in Counted(s) : n < handler[h].next => ledger[s] # NoRow
    <3>1. handler[h].at # "idle" BY <2>1 DEF Processed, At
    <3>2. QED BY <2>1, <3>1, AtWork DEF Sound
  <2>3. chain[s] = "landed" /\ Counted(s) # {} => ledger[s] # NoRow
    <3>1. SUFFICES ASSUME chain[s] = "landed", NEW n \in Counted(s) PROVE ledger[s] # NoRow
        OBVIOUS
    <3>2. handler[h].next > Len(TransfersOf[s]) BY <2>1, <2>2, <3>1 DEF Processed
    <3>3. n < handler[h].next BY <2>2, <3>2, TransferTypes
    <3>4. QED BY <2>2, <3>3
  <2>4. QED
      BY <1>2, <2>1, <2>2, <2>3 DEF AcknowledgedIsFinal, AcknowledgedIsRecorded, Counted, Owners
<1>5. QED
    BY <1>3, <1>4
       DEF TreasuryNext, treasuryVars, treasuryHistory, Land, Refused, Book, Unbook, HandlerStep,
           Process, Deliver, TakeLetter, Fail, Skip, FindCompany, RecordTransfer, ReadBalance,
           GuessBalance, WriteBalance, ConfirmPayouts, CloseLetter, ViewerStep, View, SaveView

-----------------------------------------------------------------------------
(* The copies of the balances.                                              *)

LEMMA BalancesStep ==
    ASSUME TreasuryTypeOK, HandlersAreSound, ViewersAreSound, UnguessedBalanceWasReal,
           [TreasuryNext]_treasuryVars
    PROVE  /\ cached' \in [Companies -> Nat] /\ guessed' \subseteq Companies
           /\ UnguessedBalanceWasReal'
<1>1. cached \in [Companies -> Nat] /\ guessed \subseteq Companies BY DEF TreasuryTypeOK
<1>2. \A w \in Wallets : held[w] \subseteq held'[w] BY Growth
<1>3. CASE UNCHANGED <<cached, guessed>>
    BY <1>1, <1>2, <1>3 DEF UnguessedBalanceWasReal
<1>4. ASSUME NEW c \in Companies, NEW seen \in Nat, cached' = [cached EXCEPT ![c] = seen],
             \/ guessed' = guessed \cup {c}
             \/ guessed' = guessed \ {c} /\ seen \in held[WalletOf[c]]
      PROVE  /\ cached' \in [Companies -> Nat] /\ guessed' \subseteq Companies
             /\ UnguessedBalanceWasReal'
  <2>1. cached' \in [Companies -> Nat] /\ guessed' \subseteq Companies BY <1>1, <1>4
  <2>2. ASSUME NEW d \in Companies, d \notin guessed' PROVE cached'[d] \in held'[WalletOf[d]]
    <3>1. WalletOf[d] \in Wallets OBVIOUS
    <3>2. CASE d = c BY <1>1, <1>2, <1>4, <2>2, <3>1, <3>2
    <3>3. CASE d # c
      <4>1. cached'[d] = cached[d] /\ d \notin guessed BY <1>1, <1>4, <2>2, <3>3
      <4>2. QED BY <1>2, <3>1, <4>1 DEF UnguessedBalanceWasReal
    <3>4. QED BY <3>2, <3>3
  <2>3. QED BY <2>1, <2>2 DEF UnguessedBalanceWasReal
<1>5. ASSUME NEW h \in Handlers, WriteBalance(h)
      PROVE  /\ cached' \in [Companies -> Nat] /\ guessed' \subseteq Companies
             /\ UnguessedBalanceWasReal'
  <2>1. handler[h].at = "write" BY <1>5 DEF WriteBalance, At
  <2>2. /\ handler[h].company \in Companies /\ handler[h].seen \in Nat
        /\ handler[h].guess \/ handler[h].seen \in held[WalletOf[handler[h].company]]
      BY <2>1, AtWork DEF Working, Sound
  <2>3. /\ cached' = [cached EXCEPT ![handler[h].company] = handler[h].seen]
        /\ guessed' = IF handler[h].guess THEN guessed \cup {handler[h].company}
                      ELSE guessed \ {handler[h].company}
      BY <1>5 DEF WriteBalance
  <2>4. QED BY <1>4, <2>2, <2>3
<1>6. ASSUME NEW v \in Viewers, SaveView(v)
      PROVE  /\ cached' \in [Companies -> Nat] /\ guessed' \subseteq Companies
             /\ UnguessedBalanceWasReal'
  <2>1. viewer[v] \in [at: {"write"}, company: Companies, seen: Nat]
      BY <1>6 DEF SaveView, TreasuryTypeOK
  <2>2. /\ viewer[v].company \in Companies /\ viewer[v].seen \in Nat
        /\ viewer[v].seen \in held[WalletOf[viewer[v].company]]
      BY <2>1 DEF ViewersAreSound
  <2>3. /\ cached' = [cached EXCEPT ![viewer[v].company] = viewer[v].seen]
        /\ guessed' = guessed \ {viewer[v].company}
      BY <1>6 DEF SaveView
  <2>4. QED BY <1>4, <2>2, <2>3
<1>7. QED
    BY <1>3, <1>5, <1>6
       DEF TreasuryNext, treasuryVars, tables, treasuryHistory, Land, Refused, Book, Unbook,
           HandlerStep, Process, Deliver, TakeLetter, Fail, Skip, FindCompany, RecordTransfer,
           ReadBalance, GuessBalance, ConfirmPayouts, AnswerDelivery, CloseLetter, ViewerStep, View

-----------------------------------------------------------------------------
LEMMA TreasuryInitInv == TreasuryInit => TreasuryInv
<1> SUFFICES ASSUME TreasuryInit PROVE TreasuryInv
    OBVIOUS
<1> USE DEF TreasuryInit
<1>1. TreasuryTypeOK
  <2>1. [status |-> "none", full |-> FALSE, attempts |-> 0] \in Letters BY DEF Letters
  <2>2. NoRow \in Rows BY DEF Rows
  <2>3. \A s \in Sigs : MaxDeliveries[s] \in Nat OBVIOUS
  <2>4. QED BY <2>1, <2>2, <2>3 DEF TreasuryTypeOK
<1>2. HandlersAreSound BY DEF HandlersAreSound, Sound, Idle
<1>3. ViewersAreSound BY DEF ViewersAreSound, Idle
<1>4. LettersAreFinal /\ AcknowledgedIsFinal /\ LiveIsHeld
    BY DEF LettersAreFinal, AcknowledgedIsFinal, LiveIsHeld
<1>5. AcknowledgedIsRecorded /\ LedgerNeverOverstates /\ UnguessedBalanceWasReal
    BY DEF AcknowledgedIsRecorded, LedgerNeverOverstates, UnguessedBalanceWasReal
<1>6. QED BY <1>1, <1>2, <1>3, <1>4, <1>5 DEF TreasuryInv

LEMMA TreasuryStepInv == TreasuryInv /\ [TreasuryNext]_treasuryVars => TreasuryInv'
<1> SUFFICES ASSUME TreasuryInv, [TreasuryNext]_treasuryVars PROVE TreasuryInv'
    OBVIOUS
<1>1. HandlersAreSound' /\ handler' \in [Handlers -> {Idle} \cup Working]
    BY HandlersStep DEF TreasuryInv
<1>2. /\ ledger' \in [Sigs -> Rows] /\ LedgerNeverOverstates'
      /\ letter' \in [LetterKeys -> Letters] /\ LettersAreFinal'
    BY LedgerStep, LettersStep DEF TreasuryInv
<1>3. /\ viewer' \in [Viewers -> {Idle} \cup [at: {"write"}, company: Companies, seen: Nat]]
      /\ ViewersAreSound'
    BY ViewersStep DEF TreasuryInv
<1>4. /\ chain' \in [Sigs -> {"unsent", "landed", "failed"}]
      /\ live' \in [Wallets -> Nat] /\ held' \in [Wallets -> SUBSET Nat] /\ LiveIsHeld'
    BY ChainTypes DEF TreasuryInv
<1>5. /\ delivered' \in [Sigs -> Nat] /\ \A s \in Sigs : delivered'[s] <= MaxDeliveries[s]
      /\ payout' \in [Sigs -> {"none", "CONFIRMED", "FAILED"}]
      /\ acknowledged' \subseteq Sigs
    BY CountsAndRows DEF TreasuryInv
<1>6. /\ cached' \in [Companies -> Nat] /\ guessed' \subseteq Companies
      /\ UnguessedBalanceWasReal'
    BY BalancesStep DEF TreasuryInv
<1>7. AcknowledgedIsFinal' /\ AcknowledgedIsRecorded'
    BY AcknowledgedStep DEF TreasuryInv
<1>8. TreasuryTypeOK'
    BY <1>1, <1>2, <1>3, <1>4, <1>5, <1>6 DEF TreasuryTypeOK
<1>9. QED BY <1>1, <1>2, <1>3, <1>4, <1>6, <1>7, <1>8 DEF TreasuryInv

LEMMA TreasuryInvariant == TreasurySpec => []TreasuryInv
BY TreasuryInitInv, TreasuryStepInv, PTL DEF TreasurySpec

(* What was answered with 200 is in the ledger, which never shows more than *)
(* a landed transaction moved, in the direction it moved it.                *)
THEOREM LedgerStaysTrue == TreasurySpec => []LedgerIsTrue
<1>1. TreasuryInv => LedgerIsTrue BY DEF TreasuryInv, LedgerIsTrue
<1>2. QED BY TreasuryInvariant, <1>1, PTL

(* A copy of a balance that is not a guess is one the wallet has had.       *)
THEOREM UnguessedBalancesWereReal == TreasurySpec => []UnguessedBalanceWasReal
<1>1. TreasuryInv => UnguessedBalanceWasReal BY DEF TreasuryInv
<1>2. QED BY TreasuryInvariant, <1>1, PTL

(* A failed payout is confirmed again only for a transaction that landed,   *)
(* is in the ledger, and took money from its company's wallet.              *)
THEOREM ConfirmationsHaveTransfers == TreasurySpec => ConfirmedByItsTransfer
<1>1. ASSUME TreasuryInv, [TreasuryNext]_treasuryVars, NEW s \in Sigs,
             payout[s] = "FAILED", payout'[s] = "CONFIRMED"
      PROVE  /\ chain[s] = "landed" /\ ledger[s] # NoRow
             /\ Outflow(s, WalletOf[PayerOf[s]]) > 0
  <2>1. payout \in [Sigs -> {"none", "CONFIRMED", "FAILED"}] BY <1>1 DEF TreasuryInv, TreasuryTypeOK
  <2>2. ASSUME NEW x \in Sigs, Book(x) \/ Unbook(x) PROVE FALSE
      BY <1>1, <2>1, <2>2 DEF Book, Unbook
  <2>3. PICK h \in Handlers : ConfirmPayouts(h)
      BY <1>1, <2>2
         DEF TreasuryNext, treasuryVars, tables, Land, Refused, HandlerStep, Process, Deliver,
             TakeLetter, Fail, Skip, FindCompany, RecordTransfer, ReadBalance, GuessBalance,
             WriteBalance, AnswerDelivery, CloseLetter, ViewerStep, View, SaveView
  <2>4. s = SigOf(h) /\ PayerOf[s] = handler[h].company
      BY <1>1, <2>1, <2>3 DEF ConfirmPayouts
  <2> DEFINE c == handler[h].company
             n == handler[h].next
             t == Current(h)
  <2>5. handler[h].at = "confirm" BY <2>3 DEF ConfirmPayouts, At
  <2>6. /\ chain[s] = "landed" /\ ledger[s] # NoRow /\ n \in Counted(s)
        /\ c \in Owners(t) /\ t.to # WalletOf[c] /\ c \in Companies
        /\ t \in Transfers /\ t.amount > 0 /\ t = TransfersOf[s][n]
      BY <1>1, <2>4, <2>5, AtWork DEF TreasuryInv, Sound, Current
  <2>7. WalletOf[c] \in Wallets /\ n \in DOMAIN TransfersOf[s]
      BY <2>6, TransferTypes
  <2>8. n \in OutOf(s, WalletOf[c]) BY <2>6, <2>7 DEF Owners, OutOf
  <2>9. t.amount <= Outflow(s, WalletOf[c]) /\ Outflow(s, WalletOf[c]) \in Nat
      BY <2>6, <2>7, <2>8, Flows
  <2>10. t.amount \in Nat BY <2>6 DEF Transfers
  <2>11. QED BY <2>4, <2>6, <2>9, <2>10
<1>2. TreasuryInv /\ [TreasuryNext]_treasuryVars =>
          [\A s \in Sigs : payout[s] = "FAILED" /\ payout'[s] = "CONFIRMED" =>
               /\ chain[s] = "landed" /\ ledger[s] # NoRow
               /\ Outflow(s, WalletOf[PayerOf[s]]) > 0]_treasuryVars
    BY <1>1
<1>3. QED BY TreasuryInvariant, <1>2, PTL DEF TreasurySpec, ConfirmedByItsTransfer

=============================================================================
