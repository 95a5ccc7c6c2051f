--------------------------- MODULE BrowserProofs ----------------------------
(***************************************************************************)
(* Theorems about the places where a browser is one of the actors: the     *)
(* gate of the payout requests, the onboarding wizard, the form for a new  *)
(* invoice, the administrator's dashboard, the contractor's portal and the *)
(* figures that pages poll.                                                *)
(***************************************************************************)
EXTENDS PayoutGate, Onboarding, InvoiceForm, Dashboard, Portal, ExchangeRates, SumTheorems,
        FiniteSetTheorems, SequenceTheorems, TLAPS

(***************************************************************************)
(* The gate, for any instances and calls, and any limit, window and key    *)
(* life.                                                                   *)
(***************************************************************************)
USE GateAssumption

SumOver(f) == SumFunctionOnSet(f, Ages)
Upto(f, j) == [age \in Ages |-> IF age <= j THEN f[age] ELSE 0]
After(f, j) == [age \in Ages |-> IF age > j THEN f[age] ELSE 0]
Older(f) == [age \in Ages |-> IF age = 0 THEN 0 ELSE f[age - 1]]

(* What an instance let through since its bucket was opened, the bucket     *)
(* counts.  The bucket before it was opened by a request that is out of     *)
(* sight by now, so of that one's limit one is gone.                        *)
WindowSound(b, f) ==
    /\ b.left = 0 => f[0] = 0 /\ SumOver(f) < Limit
    /\ b.left > 0 =>
           LET opened == Window - b.left
           IN /\ f[opened] > 0
              /\ SumOver(Upto(f, opened)) <= b.count /\ SumOver(Upto(f, opened)) <= Limit
              /\ SumOver(After(f, opened)) < Limit

WindowsAreSound == \A s \in Instances : WindowSound(bucket[s], recent[s])

(* A key whose call is not over has not been worked for.                    *)
OpenKeysAreUnworked ==
    \A k \in Calls : worked[k] <= 1 /\ (call[k].at # "over" => worked[k] = 0)

GateInv == GateTypeOK /\ WindowsAreSound /\ OpenKeysAreUnworked

-----------------------------------------------------------------------------
LEMMA AgesAreFinite == IsFiniteSet(Ages) /\ Ages \in SUBSET Nat /\ 0 \in Ages /\ Window - 1 \in Ages
<1>1. 0 \in Int /\ Window - 1 \in Int /\ Window >= 1 OBVIOUS
<1>2. IsFiniteSet(Ages) BY <1>1, FS_Interval DEF Ages
<1>3. QED BY <1>1, <1>2 DEF Ages

LEMMA AgeChanges ==
    \A f, g \in [Ages -> Nat] : \A c \in Ages :
        (\A age \in Ages \ {c} : g[age] = f[age]) => SumOver(g) = SumOver(f) + g[c] - f[c]
<1> SUFFICES ASSUME NEW f \in [Ages -> Nat], NEW g \in [Ages -> Nat], NEW c \in Ages,
                    \A age \in Ages \ {c} : g[age] = f[age]
             PROVE  SumFunctionOnSet(g, Ages) = SumFunctionOnSet(f, Ages) + g[c] - f[c]
    BY DEF SumOver
<1>1. IsFiniteSet(Ages) BY AgesAreFinite
<1>2. \A age \in Ages : f[age] \in Int /\ g[age] \in Int OBVIOUS
<1>3. QED BY <1>1, <1>2, SumChanges

LEMMA AgesAdd ==
    \A f, g, h \in [Ages -> Nat] :
        (\A age \in Ages : h[age] = f[age] + g[age]) => SumOver(h) = SumOver(f) + SumOver(g)
<1> SUFFICES ASSUME NEW f \in [Ages -> Nat], NEW g \in [Ages -> Nat], NEW h \in [Ages -> Nat],
                    \A age \in Ages : h[age] = f[age] + g[age]
             PROVE  SumFunctionOnSet(h, Ages) = SumFunctionOnSet(f, Ages) + SumFunctionOnSet(g, Ages)
    BY DEF SumOver
<1>1. IsFiniteSet(Ages) BY AgesAreFinite
<1>2. \A age \in Ages : f[age] \in Int /\ g[age] \in Int OBVIOUS
<1>3. QED BY <1>1, <1>2, SumsAdd

LEMMA SumIsNat ==
    ASSUME NEW f \in [Ages -> Nat] PROVE SumOver(f) \in Nat
BY AgesAreFinite, SumOfNats DEF SumOver

(* Everything grows a tick older, and the oldest is forgotten.              *)
LEMMA OlderSum ==
    ASSUME NEW f \in [Ages -> Nat]
    PROVE  Older(f) \in [Ages -> Nat] /\ SumOver(Older(f)) = SumOver(f) - f[Window - 1]
<1> DEFINE g == Older(f)
           Step(n) == [age \in Ages |-> IF age <= n THEN g[age] ELSE f[age]]
           T == {n \in Nat : n <= Window - 1 => SumOver(Step(n)) = SumOver(f) - f[n]}
<1>1. g \in [Ages -> Nat]
    BY DEF Older, Ages
<1>2. \A n \in Nat : Step(n) \in [Ages -> Nat]
    BY <1>1
<1>3. SumOver(f) \in Nat BY SumIsNat
<1>4. 0 \in T
  <2>1. Step(0)[0] = 0 /\ \A age \in Ages \ {0} : Step(0)[age] = f[age]
      BY AgesAreFinite DEF Older, Ages
  <2>2. Step(0) \in [Ages -> Nat] BY <1>2
  <2> HIDE DEF Step
  <2>3. SumOver(Step(0)) = SumOver(f) + Step(0)[0] - f[0]
      BY <2>1, <2>2, AgesAreFinite, AgeChanges
  <2>4. f[0] \in Nat BY AgesAreFinite
  <2>5. QED BY <1>3, <2>1, <2>3, <2>4
<1>5. \A n \in T : n + 1 \in T
  <2> SUFFICES ASSUME NEW n \in T, n + 1 <= Window - 1
               PROVE  SumOver(Step(n + 1)) = SumOver(f) - f[n + 1]
      OBVIOUS
  <2>1. n \in Ages /\ n + 1 \in Ages BY DEF Ages
  <2>2. SumOver(Step(n)) = SumOver(f) - f[n] OBVIOUS
  <2>3. /\ Step(n + 1)[n + 1] = f[n] /\ Step(n)[n + 1] = f[n + 1]
        /\ \A age \in Ages \ {n + 1} : Step(n + 1)[age] = Step(n)[age]
      BY <2>1, AgesAreFinite DEF Older
  <2>4. Step(n) \in [Ages -> Nat] /\ Step(n + 1) \in [Ages -> Nat] BY <1>2
  <2> HIDE DEF Step
  <2>5. SumOver(Step(n + 1)) = SumOver(Step(n)) + Step(n + 1)[n + 1] - Step(n)[n + 1]
      BY <2>1, <2>3, <2>4, AgesAreFinite, AgeChanges
  <2>6. f[n] \in Nat /\ f[n + 1] \in Nat BY <2>1
  <2>7. QED BY <1>3, <2>2, <2>3, <2>5, <2>6
<1>6. T = Nat
  <2> HIDE DEF T
  <2>1. T \in SUBSET Nat BY DEF T
  <2>2. QED BY <1>4, <1>5, <2>1, NatSetInduction
<1>7. SumOver(Step(Window - 1)) = SumOver(f) - f[Window - 1] BY <1>6
<1>8. Step(Window - 1) = g
  <2>1. \A age \in Ages : age <= Window - 1 BY DEF Ages
  <2>2. QED BY <1>1, <2>1
<1>9. QED BY <1>1, <1>7, <1>8

LEMMA MaskTypes ==
    ASSUME NEW f \in [Ages -> Nat], NEW j \in Int
    PROVE  Upto(f, j) \in [Ages -> Nat] /\ After(f, j) \in [Ages -> Nat]
BY DEF Upto, After

(* What is young, and what is old, grow older side by side.                 *)
LEMMA OlderMasks ==
    ASSUME NEW f \in [Ages -> Nat], NEW j \in Ages
    PROVE  /\ Upto(Older(f), j + 1) = Older(Upto(f, j))
           /\ After(Older(f), j + 1) = Older(After(f, j))
<1>1. \A age \in Ages : age # 0 => age - 1 \in Ages BY DEF Ages
<1>2. j \in Nat BY AgesAreFinite
<1>3. \A age \in Ages : Upto(Older(f), j + 1)[age] = Older(Upto(f, j))[age]
    BY <1>1, <1>2, AgesAreFinite DEF Upto, Older
<1>4. \A age \in Ages : After(Older(f), j + 1)[age] = Older(After(f, j))[age]
    BY <1>1, <1>2, AgesAreFinite DEF After, Older
<1>5. QED BY <1>3, <1>4 DEF Upto, After, Older

LEMMA MasksAddUp ==
    ASSUME NEW f \in [Ages -> Nat], NEW j \in Int
    PROVE  SumOver(f) = SumOver(Upto(f, j)) + SumOver(After(f, j))
<1>1. Upto(f, j) \in [Ages -> Nat] /\ After(f, j) \in [Ages -> Nat] BY MaskTypes
<1>2. \A age \in Ages : f[age] = Upto(f, j)[age] + After(f, j)[age]
    BY AgesAreFinite DEF Upto, After
<1>3. QED BY <1>1, <1>2, AgesAdd

-----------------------------------------------------------------------------
LEMMA EmptyWindow ==
    ASSUME NEW b, b.left = 0 PROVE WindowSound(b, [age \in Ages |-> 0])
<1> DEFINE f == [age \in Ages |-> 0]
<1>1. SumOver(f) = 0 BY AgesAreFinite, NoSum DEF SumOver
<1>2. f[0] = 0 BY AgesAreFinite
<1>3. QED BY <1>1, <1>2 DEF WindowSound

Buckets == [count: 0 .. Limit + 1, left: 0 .. Window]

(* A request that is let through.                                           *)
LEMMA LetThroughKeeps ==
    ASSUME NEW b \in Buckets, NEW f \in [Ages -> Nat], WindowSound(b, f), WithinLimit(b)
    PROVE  WindowSound(AfterRequest(b), [f EXCEPT ![0] = f[0] + 1])
<1> DEFINE g == [f EXCEPT ![0] = f[0] + 1]
           c == AfterRequest(b)
<1>1. 0 \in Ages /\ Ages \in SUBSET Nat BY AgesAreFinite
<1>2. /\ g \in [Ages -> Nat] /\ g[0] = f[0] + 1 /\ f[0] \in Nat
      /\ \A age \in Ages \ {0} : g[age] = f[age]
    BY <1>1
<1> HIDE DEF g
<1>3. CASE b.left = 0
  <2>1. c.count = 1 /\ c.left = Window BY <1>3 DEF AfterRequest
  <2>2. f[0] = 0 /\ SumOver(f) < Limit BY <1>3 DEF WindowSound
  <2> HIDE DEF c
  <2>3. After(g, 0) = f
    <3>1. \A age \in Ages : After(g, 0)[age] = f[age] BY <1>1, <1>2, <2>2 DEF After
    <3>2. QED BY <3>1 DEF After
  <2>4. SumOver(Upto(g, 0)) = 1
    <3> DEFINE z == [age \in Ages |-> 0]
    <3>1. SumOver(z) = 0 BY AgesAreFinite, NoSum DEF SumOver
    <3>2. /\ Upto(g, 0) \in [Ages -> Nat] /\ Upto(g, 0)[0] = 1 /\ z[0] = 0
          /\ \A age \in Ages \ {0} : Upto(g, 0)[age] = z[age]
        BY <1>1, <1>2, <2>2, MaskTypes DEF Upto
    <3>3. z \in [Ages -> Nat] OBVIOUS
    <3> HIDE DEF z
    <3>4. SumOver(Upto(g, 0)) = SumOver(z) + Upto(g, 0)[0] - z[0]
        BY <1>1, <3>2, <3>3, AgesAreFinite, AgeChanges
    <3>5. QED BY <3>1, <3>2, <3>4
  <2>5. Window - c.left = 0 /\ c.left > 0 /\ Limit >= 1 BY <2>1
  <2>6. WindowSound(c, g) BY <1>2, <2>1, <2>2, <2>3, <2>4, <2>5 DEF WindowSound
  <2>7. QED BY <2>6 DEF c, g
<1>4. CASE b.left # 0
  <2> DEFINE j == Window - b.left
  <2>1. b.left \in 1 .. Window /\ j \in Ages /\ b.count \in Nat /\ b.count < Limit
      BY <1>4 DEF Buckets, Ages, WithinLimit
  <2>2. c.count = b.count + 1 /\ c.left = b.left
      BY <2>1 DEF AfterRequest, Buckets
  <2>3. /\ f[j] > 0 /\ SumOver(Upto(f, j)) <= b.count
        /\ SumOver(After(f, j)) < Limit
      BY <2>1 DEF WindowSound
  <2> HIDE DEF c
  <2>4. j \in Nat BY <2>1, <1>1
  <2>5. After(g, j) = After(f, j)
      BY <1>1, <1>2, <2>4 DEF After
  <2>6. SumOver(Upto(g, j)) = SumOver(Upto(f, j)) + 1
    <3> HIDE DEF j
    <3>1. /\ Upto(g, j) \in [Ages -> Nat] /\ Upto(f, j) \in [Ages -> Nat]
          /\ Upto(g, j)[0] = f[0] + 1 /\ Upto(f, j)[0] = f[0]
          /\ \A age \in Ages \ {0} : Upto(g, j)[age] = Upto(f, j)[age]
        BY <1>1, <1>2, <2>4, MaskTypes DEF Upto
    <3>2. SumOver(Upto(g, j)) = SumOver(Upto(f, j)) + Upto(g, j)[0] - Upto(f, j)[0]
        BY <1>1, <3>1, AgesAreFinite, AgeChanges
    <3>3. SumOver(Upto(f, j)) \in Nat BY <3>1, SumIsNat
    <3>4. QED BY <1>2, <3>1, <3>2, <3>3
  <2>7. SumOver(Upto(f, j)) \in Nat BY <2>4, MaskTypes, SumIsNat
  <2>8. g[j] > 0 BY <1>1, <1>2, <2>1, <2>3
  <2>9. Window - c.left = j /\ c.left > 0 BY <2>1, <2>2
  <2> HIDE DEF j
  <2>10. WindowSound(c, g)
      BY <2>1, <2>2, <2>3, <2>5, <2>6, <2>7, <2>8, <2>9 DEF WindowSound
  <2>11. QED BY <2>10 DEF c, g
<1>5. QED BY <1>3, <1>4

(* A request that is not.                                                   *)
LEMMA TooManyKeeps ==
    ASSUME NEW b \in Buckets, NEW f \in [Ages -> Nat], WindowSound(b, f), ~WithinLimit(b)
    PROVE  WindowSound(AfterRequest(b), f)
<1>1. b.left \in 1 .. Window /\ b.count \in Nat BY DEF WithinLimit, Buckets
<1>2. AfterRequest(b).left = b.left /\ AfterRequest(b).count >= b.count
    BY <1>1 DEF AfterRequest, Buckets
<1>3. AfterRequest(b).count \in Nat
    BY <1>1 DEF AfterRequest, Buckets
<1>4. Window - b.left \in Int BY <1>1
<1>5. SumOver(Upto(f, Window - b.left)) \in Nat BY <1>4, MaskTypes, SumIsNat
<1>6. QED BY <1>1, <1>2, <1>3, <1>5 DEF WindowSound

(* A tick.                                                                  *)
LEMMA TickKeeps ==
    ASSUME NEW b \in Buckets, NEW f \in [Ages -> Nat], WindowSound(b, f)
    PROVE  WindowSound(IF b.left <= 1 THEN [count |-> 0, left |-> 0]
                       ELSE [b EXCEPT !.left = b.left - 1], Older(f))
<1> DEFINE g == Older(f)
<1>1. /\ g \in [Ages -> Nat] /\ SumOver(g) = SumOver(f) - f[Window - 1] /\ f[Window - 1] \in Nat
      /\ SumOver(f) \in Nat
    BY OlderSum, SumIsNat, AgesAreFinite
<1>2. g[0] = 0 BY AgesAreFinite DEF Older
<1>3. b.left \in 0 .. Window /\ b.count \in Nat BY DEF Buckets
<1>4. CASE b.left = 0
  <2>1. SumOver(g) < Limit BY <1>1, <1>4 DEF WindowSound
  <2>2. QED BY <1>2, <1>4, <2>1 DEF WindowSound
<1>5. CASE b.left = 1
  <2>1. Upto(f, Window - 1) = f
    <3>1. \A age \in Ages : age <= Window - 1 BY DEF Ages
    <3>2. QED BY <3>1 DEF Upto
  <2>2. f[Window - 1] > 0 /\ SumOver(f) <= Limit BY <1>5, <2>1 DEF WindowSound
  <2>3. SumOver(g) < Limit BY <1>1, <2>2
  <2>4. QED BY <1>2, <1>5, <2>3 DEF WindowSound
<1>6. CASE b.left > 1
  <2> DEFINE j == Window - b.left
             c == [b EXCEPT !.left = b.left - 1]
  <2>1. j \in Ages /\ j + 1 \in Ages /\ j \in Nat BY <1>3, <1>6 DEF Ages
  <2>2. c.left = b.left - 1 /\ c.count = b.count BY DEF Buckets
  <2>3. Window - c.left = j + 1 /\ c.left > 0 BY <1>3, <1>6, <2>2
  <2>4. /\ f[j] > 0 /\ SumOver(Upto(f, j)) <= b.count /\ SumOver(Upto(f, j)) <= Limit
        /\ SumOver(After(f, j)) < Limit
      BY <1>3, <1>6 DEF WindowSound
  <2> HIDE DEF c, j
  <2>5. Upto(g, j + 1) = Older(Upto(f, j)) /\ After(g, j + 1) = Older(After(f, j))
      BY <2>1, OlderMasks
  <2>6. Upto(f, j) \in [Ages -> Nat] /\ After(f, j) \in [Ages -> Nat]
    <3>1. j \in Int BY <2>1
    <3>2. QED BY <3>1, MaskTypes
  <2>7. /\ SumOver(Older(Upto(f, j))) = SumOver(Upto(f, j)) - Upto(f, j)[Window - 1]
        /\ SumOver(Older(After(f, j))) = SumOver(After(f, j)) - After(f, j)[Window - 1]
        /\ Upto(f, j)[Window - 1] \in Nat /\ After(f, j)[Window - 1] \in Nat
        /\ SumOver(Upto(f, j)) \in Nat /\ SumOver(After(f, j)) \in Nat
      BY <2>6, OlderSum, SumIsNat, AgesAreFinite
  <2>8. g[j + 1] = f[j] BY <2>1 DEF Older
  <2>9. WindowSound(c, g)
      BY <1>3, <2>2, <2>3, <2>4, <2>5, <2>7, <2>8 DEF WindowSound
  <2>10. QED BY <1>3, <1>6, <2>9 DEF c
<1>7. QED BY <1>3, <1>4, <1>5, <1>6

-----------------------------------------------------------------------------
LEMMA GateInitInv == GateInit => GateInv
<1> SUFFICES ASSUME GateInit PROVE GateInv
    OBVIOUS
<1>1. \A s \in Instances : bucket[s].left = 0 /\ recent[s] = [age \in Ages |-> 0]
    BY DEF GateInit
<1>2. WindowsAreSound BY <1>1, EmptyWindow DEF WindowsAreSound
<1>3. GateTypeOK BY DEF GateInit, GateTypeOK, Over
<1>4. OpenKeysAreUnworked BY DEF GateInit, OpenKeysAreUnworked, Over
<1>5. QED BY <1>2, <1>3, <1>4 DEF GateInv

CallRows == [at: {"over", "sent", "inside"}, fetch: 0 .. 2, server: Instances \cup {NoServer}]

LEMMA AfterRequestType ==
    ASSUME NEW b \in Buckets PROVE AfterRequest(b) \in Buckets
<1>1. CASE b.left = 0 BY <1>1 DEF AfterRequest, Buckets
<1>2. CASE b.left # 0 /\ b.count <= Limit
    BY <1>2 DEF AfterRequest, Buckets
<1>3. CASE b.left # 0 /\ ~(b.count <= Limit)
    BY <1>3 DEF AfterRequest, Buckets
<1>4. QED BY <1>1, <1>2, <1>3

(* What reaches an instance leaves its window sound.                        *)
LEMMA ReachKeeps ==
    ASSUME GateInv, NEW k \in Calls, NEW s \in Instances, Reach(k, s),
           \/ ~WithinLimit(bucket[s]) /\ UNCHANGED recent
           \/ WithinLimit(bucket[s]) /\ LetThrough(s)
    PROVE  /\ bucket' \in [Instances -> Buckets]
           /\ recent' \in [Instances -> [Ages -> Nat]]
           /\ WindowsAreSound'
<1>1. bucket \in [Instances -> Buckets] /\ recent \in [Instances -> [Ages -> Nat]]
    BY DEF GateInv, GateTypeOK, Buckets
<1>2. bucket' = [bucket EXCEPT ![s] = AfterRequest(bucket[s])] BY DEF Reach
<1>3. AfterRequest(bucket[s]) \in Buckets BY <1>1, AfterRequestType
<1>4. bucket' \in [Instances -> Buckets] /\ bucket'[s] = AfterRequest(bucket[s])
      /\ \A t \in Instances \ {s} : bucket'[t] = bucket[t]
    BY <1>1, <1>2, <1>3
<1>5. WindowSound(bucket[s], recent[s]) BY DEF GateInv, WindowsAreSound
<1>6. /\ recent' \in [Instances -> [Ages -> Nat]]
      /\ \A t \in Instances \ {s} : recent'[t] = recent[t]
      /\ WindowSound(bucket'[s], recent'[s])
  <2>1. CASE ~WithinLimit(bucket[s]) /\ UNCHANGED recent
      BY <1>1, <1>4, <1>5, <2>1, TooManyKeeps
  <2>2. CASE WithinLimit(bucket[s]) /\ LetThrough(s)
    <3> DEFINE g == [recent[s] EXCEPT ![0] = recent[s][0] + 1]
    <3>1. recent' = [recent EXCEPT ![s] = g] BY <1>1, <2>2, AgesAreFinite DEF LetThrough
    <3>2. g \in [Ages -> Nat] BY <1>1, AgesAreFinite
    <3>3. WindowSound(bucket'[s], g) BY <1>1, <1>4, <1>5, <2>2, LetThroughKeeps
    <3> HIDE DEF g
    <3>4. QED BY <1>1, <3>1, <3>2, <3>3
  <2>3. QED BY <2>1, <2>2
<1>7. WindowsAreSound' BY <1>4, <1>6 DEF GateInv, WindowsAreSound
<1>8. QED BY <1>4, <1>6, <1>7

LEMMA GateStep ==
    ASSUME GateInv, [GateNext]_gateVars PROVE GateInv'
<1> USE DEF Buckets
<1>1. /\ bucket \in [Instances -> Buckets] /\ recent \in [Instances -> [Ages -> Nat]]
      /\ replay \in [Instances -> [Calls -> 0 .. KeyLife]]
      /\ call \in [Calls -> CallRows]
      /\ worked \in [Calls -> Nat]
    BY DEF GateInv, GateTypeOK, CallRows
<1>2. Over \in CallRows /\ Sent(1) \in CallRows /\ Sent(2) \in CallRows
    BY DEF Over, Sent, CallRows
<1>3. Over.at = "over" /\ Sent(2).at = "sent" BY DEF Over, Sent
<1>4. ASSUME NEW k \in Calls, Fetch(k) \/ LoseRequest(k) \/ AnswerUnauthorized(k) \/ Work(k)
      PROVE  GateInv'
  <2>1. UNCHANGED <<bucket, replay, recent>>
      BY <1>4 DEF Fetch, LoseRequest, AnswerUnauthorized, Work
  <2>2. call' \in [Calls -> CallRows] /\ worked' \in [Calls -> Nat] /\ OpenKeysAreUnworked'
    <3>1. CASE Fetch(k)
        BY <1>1, <1>2, <3>1 DEF Fetch, GateInv, OpenKeysAreUnworked
    <3>2. CASE LoseRequest(k)
        BY <1>1, <1>2, <1>3, <3>2 DEF LoseRequest, EndCall, GateInv, OpenKeysAreUnworked
    <3>3. CASE AnswerUnauthorized(k)
        BY <1>1, <1>2, <1>3, <3>3 DEF AnswerUnauthorized, EndCall, GateInv, OpenKeysAreUnworked
    <3>4. CASE Work(k)
        BY <1>1, <1>2, <1>3, <3>4 DEF Work, EndCall, GateInv, OpenKeysAreUnworked
    <3>5. QED BY <1>4, <3>1, <3>2, <3>3, <3>4
  <2>3. WindowsAreSound' BY <2>1 DEF GateInv, WindowsAreSound
  <2>4. QED BY <1>1, <2>1, <2>2, <2>3 DEF GateInv, GateTypeOK, CallRows
<1>5. ASSUME NEW k \in Calls, NEW s \in Instances,
             \/ AnswerTooMany(k, s) \/ AnswerForeign(k, s) \/ AnswerReplayed(k, s) \/ Admit(k, s)
      PROVE  GateInv'
  <2>1. /\ Reach(k, s) /\ UNCHANGED worked
        /\ \/ ~WithinLimit(bucket[s]) /\ UNCHANGED recent
           \/ WithinLimit(bucket[s]) /\ LetThrough(s)
      BY <1>5 DEF AnswerTooMany, AnswerForeign, AnswerReplayed, Admit
  <2>2. /\ bucket' \in [Instances -> Buckets] /\ recent' \in [Instances -> [Ages -> Nat]]
        /\ WindowsAreSound'
      BY <2>1, ReachKeeps
  <2>3. /\ replay' \in [Instances -> [Calls -> 0 .. KeyLife]]
        /\ call' \in [Calls -> CallRows]
        /\ \A c \in Calls : call'[c].at # "over" => call[c].at # "over"
    <3>1. call[k].at = "sent" BY <2>1 DEF Reach
    <3>2. CASE EndCall(k) /\ UNCHANGED replay
        BY <1>1, <1>2, <1>3, <3>1, <3>2 DEF EndCall
    <3>3. CASE Admit(k, s)
      <4>1. replay' = [replay EXCEPT ![s] = [replay[s] EXCEPT ![k] = KeyLife]]
          BY <3>3 DEF Admit
      <4>2. [replay[s] EXCEPT ![k] = KeyLife] \in [Calls -> 0 .. KeyLife] BY <1>1
      <4>3. replay' \in [Instances -> [Calls -> 0 .. KeyLife]] BY <1>1, <4>1, <4>2
      <4> DEFINE row == [call[k] EXCEPT !.at = "inside", !.server = s]
      <4>4. call' = [call EXCEPT ![k] = row] BY <1>1, <3>3 DEF Admit
      <4>5. row \in CallRows BY <1>1 DEF CallRows
      <4> HIDE DEF row
      <4>6. QED BY <1>1, <3>1, <4>3, <4>4, <4>5
    <3>4. QED BY <1>5, <3>2, <3>3 DEF AnswerTooMany, AnswerForeign, AnswerReplayed
  <2>4. OpenKeysAreUnworked' BY <2>1, <2>3 DEF GateInv, OpenKeysAreUnworked
  <2>5. QED BY <1>1, <2>1, <2>2, <2>3, <2>4 DEF GateInv, GateTypeOK, CallRows
<1>6. ASSUME NEW s \in Instances, Restart(s) PROVE GateInv'
  <2>1. /\ bucket' = [bucket EXCEPT ![s] = [count |-> 0, left |-> 0]]
        /\ replay' = [replay EXCEPT ![s] = [k \in Calls |-> 0]]
        /\ recent' = [recent EXCEPT ![s] = [age \in Ages |-> 0]]
        /\ call' = [k \in Calls |-> IF call[k].server = s THEN Over ELSE call[k]]
        /\ UNCHANGED worked
      BY <1>6 DEF Restart
  <2>2. bucket' \in [Instances -> Buckets] /\ bucket'[s].left = 0
        /\ \A t \in Instances \ {s} : bucket'[t] = bucket[t]
      BY <1>1, <2>1
  <2>3. [age \in Ages |-> 0] \in [Ages -> Nat] /\ [k \in Calls |-> 0] \in [Calls -> 0 .. KeyLife]
      OBVIOUS
  <2>4. recent' \in [Instances -> [Ages -> Nat]] /\ recent'[s] = [age \in Ages |-> 0]
        /\ \A t \in Instances \ {s} : recent'[t] = recent[t]
      BY <1>1, <2>1, <2>3
  <2>5. replay' \in [Instances -> [Calls -> 0 .. KeyLife]] BY <1>1, <2>1, <2>3
  <2>6. WindowSound(bucket'[s], recent'[s]) BY <2>2, <2>4, EmptyWindow
  <2>7. WindowsAreSound' BY <2>2, <2>4, <2>6 DEF GateInv, WindowsAreSound
  <2>8. call' \in [Calls -> CallRows] BY <1>1, <1>2, <2>1
  <2>9. OpenKeysAreUnworked' BY <1>3, <2>1 DEF GateInv, OpenKeysAreUnworked
  <2>10. QED BY <1>1, <2>1, <2>2, <2>4, <2>5, <2>7, <2>8, <2>9 DEF GateInv, GateTypeOK, CallRows
<1>7. CASE Tick
  <2> DEFINE Next(b) == IF b.left <= 1 THEN [count |-> 0, left |-> 0]
                        ELSE [b EXCEPT !.left = b.left - 1]
  <2>1. /\ bucket' = [s \in Instances |-> Next(bucket[s])]
        /\ replay' = [s \in Instances |-> [k \in Calls |-> Less(replay[s][k])]]
        /\ recent' = [s \in Instances |-> Older(recent[s])]
        /\ UNCHANGED <<call, worked>>
      BY <1>7 DEF Tick, Older
  <2>2. \A b \in Buckets : Next(b) \in Buckets OBVIOUS
  <2>3. \A s \in Instances : WindowSound(Next(bucket[s]), Older(recent[s]))
    <3> SUFFICES ASSUME NEW s \in Instances PROVE WindowSound(Next(bucket[s]), Older(recent[s]))
        OBVIOUS
    <3>1. bucket[s] \in Buckets /\ recent[s] \in [Ages -> Nat] BY <1>1
    <3>2. WindowSound(bucket[s], recent[s]) BY DEF GateInv, WindowsAreSound
    <3>3. QED BY <3>1, <3>2, TickKeeps
  <2> HIDE DEF Next
  <2>4. bucket' \in [Instances -> Buckets] BY <1>1, <2>1, <2>2
  <2>5. recent' \in [Instances -> [Ages -> Nat]]
    <3>1. \A s \in Instances : Older(recent[s]) \in [Ages -> Nat] BY <1>1, OlderSum
    <3>2. QED BY <2>1, <3>1
  <2>6. replay' \in [Instances -> [Calls -> 0 .. KeyLife]]
    <3>1. \A n \in 0 .. KeyLife : Less(n) \in 0 .. KeyLife BY DEF Less
    <3>2. QED BY <1>1, <2>1, <3>1
  <2>7. WindowsAreSound' BY <2>1, <2>3 DEF WindowsAreSound
  <2>8. OpenKeysAreUnworked' BY <2>1 DEF GateInv, OpenKeysAreUnworked
  <2>9. QED BY <1>1, <2>1, <2>4, <2>5, <2>6, <2>7, <2>8 DEF GateInv, GateTypeOK, CallRows
<1>8. CASE UNCHANGED gateVars
    BY <1>8 DEF gateVars, GateInv, GateTypeOK, WindowsAreSound, OpenKeysAreUnworked
<1>9. QED BY <1>4, <1>5, <1>6, <1>7, <1>8 DEF GateNext

LEMMA GateInvIsSound ==
    ASSUME GateInv PROVE GateIsSound
<1>1. ASSUME NEW s \in Instances PROVE SumFunctionOnSet(recent[s], Ages) < 2 * Limit
  <2> DEFINE f == recent[s]
             b == bucket[s]
             j == Window - b.left
  <2>1. f \in [Ages -> Nat] /\ b \in Buckets BY DEF GateInv, GateTypeOK, Buckets
  <2>2. WindowSound(b, f) BY DEF GateInv, WindowsAreSound
  <2>3. j \in Int /\ b.left \in Nat BY <2>1 DEF Buckets
  <2>4. CASE b.left = 0
    <3>1. SumOver(f) < Limit BY <2>2, <2>4 DEF WindowSound
    <3>2. SumOver(f) \in Nat BY <2>1, SumIsNat
    <3>3. QED BY <3>1, <3>2 DEF SumOver
  <2>5. CASE b.left > 0
    <3>1. SumOver(Upto(f, j)) <= Limit /\ SumOver(After(f, j)) < Limit
        BY <2>2, <2>5 DEF WindowSound
    <3> HIDE DEF f, j
    <3>2. SumOver(f) = SumOver(Upto(f, j)) + SumOver(After(f, j)) BY <2>1, <2>3, MasksAddUp
    <3>3. SumOver(Upto(f, j)) \in Nat /\ SumOver(After(f, j)) \in Nat
        BY <2>1, <2>3, MaskTypes, SumIsNat
    <3>4. SumOver(f) < 2 * Limit BY <3>1, <3>2, <3>3
    <3>5. QED BY <3>4 DEF SumOver, f
  <2>6. QED BY <2>3, <2>4, <2>5
<1>2. QED BY <1>1 DEF GateInv, GateIsSound, BurstIsBounded, KeyWorksOnce, OpenKeysAreUnworked

(* Whatever the clients' timing, the instances' restarts and the windows,   *)
(* an instance lets fewer than two limits through in any window's length,   *)
(* and no key is worked for twice.                                          *)
THEOREM GateStaysSound == GateSpec => []GateIsSound
<1>1. GateInit => GateInv BY GateInitInv
<1>2. GateInv /\ [GateNext]_gateVars => GateInv' BY GateStep
<1>3. GateInv => GateIsSound BY GateInvIsSound
<1>4. QED BY <1>1, <1>2, <1>3, PTL DEF GateSpec

HIDE GateAssumption

-----------------------------------------------------------------------------
(***************************************************************************)
(* The wizard, for any plans, any addresses and any number of payments.    *)
(***************************************************************************)
USE OnboardingAssumption

Numbers(n) == {Claimed} \cup 0 .. n
Said(n) == [status: {"none"} \cup Outcomes, payment: Numbers(n),
            session: BOOLEAN, subscription: Subscriptions]
Entries(n) == [payment: {Claimed} \cup 1 .. n, status: {"paid", "failed"}]

WizardRows == [step: 1 .. 4, named: BOOLEAN, plan: MaybePlans, paid: BOOLEAN]
PageRows(n) == [at: {"plain", "away", "returned"}, tier: MaybePlans, says: Said(n),
                shown: Statuses, synced: Answers, busy: BOOLEAN]
CompanyRows(n) == [plan: MaybePlans, status: Statuses, session: MaybePlans \cup {Foreign},
                   subscription: Subscriptions, payment: Numbers(n), events: Seq(Entries(n))]
PaymentRows == [plan: Plans, status: Outcomes \cup {"processing"}]

Locked(c) ==
    /\ c.status # "active" /\ c.subscription = "none" /\ c.session # Foreign
    /\ c.payment = 0 /\ c.events = <<>>

(* Before the first payment at the provider, and before an address claimed  *)
(* one, nothing says that there was one: neither the company, nor what is   *)
(* polled, nor what is on its way, nor what the browser has stored.         *)
PaidOrClaimed == Len(payment) > 0 \/ claimed

NothingIsPaid ==
    ~PaidOrClaimed =>
        /\ wizard.step <= 2 /\ ~wizard.paid
        /\ Locked(company)
        /\ page.shown # "active" /\ answer.status # "active"

WizardTypes ==
    /\ wizard \in WizardRows /\ page \in PageRows(Len(payment))
    /\ company \in CompanyRows(Len(payment))
    /\ payment \in Seq(PaymentRows) /\ answer \in Answers
    /\ checkouts \subseteq MaybePlans /\ claimed \in BOOLEAN

WizardInv == WizardTypes /\ NothingIsPaid

-----------------------------------------------------------------------------
LEMMA BoundedHaveMax ==
    \A n \in Nat : \A S \in SUBSET (1 .. n) : S # {} => Max(S) \in S
<1> DEFINE HasMax(S) == \E x \in S : \A y \in S : x >= y
           T == {n \in Nat : \A S \in SUBSET (1 .. n) : S # {} => HasMax(S)}
<1>1. 0 \in T
  <2>1. \A S \in SUBSET (1 .. 0) : S = {} OBVIOUS
  <2>2. QED BY <2>1
<1>2. \A n \in T : n + 1 \in T
  <2> SUFFICES ASSUME NEW n \in T, NEW S \in SUBSET (1 .. n + 1), S # {} PROVE HasMax(S)
      OBVIOUS
  <2>1. CASE n + 1 \in S
      BY <2>1
  <2>2. CASE n + 1 \notin S
    <3>1. S \in SUBSET (1 .. n) BY <2>2
    <3>2. QED BY <3>1
  <2>3. QED BY <2>1, <2>2
<1>3. T = Nat
  <2> HIDE DEF T
  <2>1. T \in SUBSET Nat BY DEF T
  <2>2. QED BY <1>1, <1>2, <2>1, NatSetInduction
<1>4. SUFFICES ASSUME NEW n \in Nat, NEW S \in SUBSET (1 .. n), S # {} PROVE Max(S) \in S
    OBVIOUS
<1>5. \E x \in S : \A y \in S : x >= y
  <2>1. n \in T BY <1>3
  <2>2. \A R \in SUBSET (1 .. n) : R # {} => HasMax(R) BY <2>1
  <2> HIDE DEF HasMax
  <2>3. HasMax(S) BY <1>4, <2>2
  <2>4. QED BY <2>3 DEF HasMax
<1>6. QED BY <1>5 DEF Max

LEMMA Constants ==
    /\ NoClaim \in Said(0) /\ Nothing \in Answers /\ Nothing.status = "none"
    /\ NoPlan \in MaybePlans /\ Growth \in MaybePlans /\ Foreign \notin MaybePlans
    /\ \A p \in Plans : p \in MaybePlans
BY DEF NoClaim, Said, Numbers, Subscriptions, Nothing, Answers, Statuses, MaybePlans

(* The rows for some payments are rows for more.                            *)
LEMMA RowsGrow ==
    ASSUME NEW n \in Nat, NEW m \in Nat, n <= m
    PROVE  /\ Said(n) \subseteq Said(m) /\ PageRows(n) \subseteq PageRows(m)
           /\ CompanyRows(n) \subseteq CompanyRows(m)
<1>1. Numbers(n) \subseteq Numbers(m) /\ {Claimed} \cup 1 .. n \subseteq {Claimed} \cup 1 .. m
    BY DEF Numbers
<1>2. Said(n) \subseteq Said(m) BY <1>1 DEF Said
<1>3. Entries(n) \subseteq Entries(m) BY <1>1 DEF Entries
<1>4. Seq(Entries(n)) \subseteq Seq(Entries(m))
  <2>1. SUFFICES ASSUME NEW r \in Seq(Entries(n)) PROVE r \in Seq(Entries(m))
      OBVIOUS
  <2>2. Len(r) \in Nat /\ r \in [1 .. Len(r) -> Entries(n)] OBVIOUS
  <2>3. r \in [1 .. Len(r) -> Entries(m)] BY <1>3, <2>2
  <2>4. QED BY <2>2, <2>3, SeqDef
<1>5. PageRows(n) \subseteq PageRows(m) BY <1>2 DEF PageRows
<1>6. CompanyRows(n) \subseteq CompanyRows(m) BY <1>1, <1>4 DEF CompanyRows
<1>7. QED BY <1>2, <1>5, <1>6

LEMMA OpenedType ==
    ASSUME NEW n \in Nat, NEW at \in {"plain", "away", "returned"}, NEW tier \in MaybePlans,
           NEW says \in Said(n)
    PROVE  Opened(at, tier, says) \in PageRows(n) /\ Opened(at, tier, says).shown = "none"
BY Constants DEF Opened, PageRows, Statuses

LEMMA NoClaimIsSaid == \A n \in Nat : NoClaim \in Said(n)
BY DEF NoClaim, Said, Numbers, Subscriptions

LEMMA WizardInitInv == OnboardingInit => WizardInv
<1> SUFFICES ASSUME OnboardingInit PROVE WizardInv
    OBVIOUS
<1>1. payment = <<>> /\ Len(payment) = 0 /\ payment \in Seq(PaymentRows) /\ answer = Nothing
      /\ checkouts \subseteq MaybePlans /\ claimed = FALSE
    BY DEF OnboardingInit
<1>2. page \in PageRows(0) /\ page.shown = "none"
    BY Constants, OpenedType DEF OnboardingInit
<1>3. wizard \in WizardRows /\ wizard.step = 1 /\ ~wizard.paid
    BY DEF OnboardingInit, WizardRows, MaybePlans
<1>4. company \in CompanyRows(0) /\ Locked(company)
    BY Constants DEF OnboardingInit, CompanyRows, Statuses, Subscriptions, Numbers, Locked
<1>5. WizardTypes BY Constants, <1>1, <1>2, <1>3, <1>4 DEF WizardTypes
<1>6. NothingIsPaid BY Constants, <1>1, <1>2, <1>3, <1>4 DEF NothingIsPaid
<1>7. QED BY <1>5, <1>6 DEF WizardInv

LEMMA Parts ==
    ASSUME WizardInv
    PROVE  /\ wizard \in WizardRows /\ page \in PageRows(Len(payment))
           /\ company \in CompanyRows(Len(payment))
           /\ payment \in Seq(PaymentRows) /\ answer \in Answers /\ Len(payment) \in Nat
           /\ DOMAIN payment = 1 .. Len(payment)
           /\ checkouts \subseteq MaybePlans /\ claimed \in BOOLEAN
BY DEF WizardInv, WizardTypes

LEMMA Unpaid ==
    ASSUME WizardInv, ~PaidOrClaimed
    PROVE  /\ Len(payment) = 0 /\ ~claimed /\ wizard.step <= 2 /\ ~wizard.paid
           /\ Locked(company) /\ page.shown # "active" /\ answer.status # "active"
BY Parts DEF WizardInv, NothingIsPaid, PaidOrClaimed

-----------------------------------------------------------------------------
(* The wizard and the page, while the company and the payments stay.        *)
LEMMA BrowserKeeps ==
    ASSUME WizardInv, UNCHANGED <<company, payment, claimed>>,
           wizard' \in WizardRows, page' \in PageRows(Len(payment)), answer' \in Answers,
           checkouts' \subseteq MaybePlans,
           wizard'.step <= wizard.step \/ wizard'.step <= 2 \/ PaidOrClaimed,
           wizard'.paid => wizard.paid \/ PaidOrClaimed,
           page'.shown \in {page.shown, "none"} \/ PaidOrClaimed \/ page'.shown # "active",
           answer'.status # "active" \/ answer' = answer
    PROVE  WizardInv'
<1>1. WizardTypes' BY DEF WizardInv, WizardTypes
<1>2. wizard.step \in Nat /\ wizard'.step \in Nat BY DEF WizardInv, WizardTypes, WizardRows
<1>3. PaidOrClaimed' <=> PaidOrClaimed BY DEF PaidOrClaimed
<1>4. NothingIsPaid' BY <1>2, <1>3 DEF WizardInv, NothingIsPaid
<1>5. QED BY <1>1, <1>4 DEF WizardInv

LEMMA OpenKeeps ==
    ASSUME WizardInv, NEW at \in {"plain", "away", "returned"}, NEW tier \in MaybePlans,
           NEW says \in Said(Len(payment)), Open(at, tier, says)
    PROVE  WizardInv'
<1>1. page' \in PageRows(Len(payment)) /\ page'.shown = "none" BY Parts, OpenedType DEF Open
<1>2. wizard' \in WizardRows /\ wizard'.step = wizard.step /\ wizard'.paid = wizard.paid
  <2>1. wizard \in WizardRows BY Parts
  <2>2. wizard' = IF tier = NoPlan THEN wizard ELSE [wizard EXCEPT !.plan = tier] BY DEF Open
  <2>3. QED BY <2>1, <2>2 DEF WizardRows
<1>3. answer' \in Answers /\ answer'.status # "active" BY Constants DEF Open
<1>4. wizard.step <= wizard.step BY Parts DEF WizardRows
<1>5. UNCHANGED <<company, payment, checkouts, claimed>> BY DEF Open
<1>6. checkouts' \subseteq MaybePlans BY <1>5, Parts
<1>7. QED BY <1>1, <1>2, <1>3, <1>4, <1>5, <1>6, BrowserKeeps

LEMMA StepsKeep ==
    ASSUME WizardInv, Describe \/ Forward \/ Back \/ CheckoutFails \/ \E p \in Plans : Checkout(p)
    PROVE  WizardInv'
<1>0. /\ wizard \in WizardRows /\ wizard.step \in 1 .. 4 /\ page \in PageRows(Len(payment))
      /\ checkouts \subseteq MaybePlans /\ answer \in Answers
    BY Parts DEF WizardRows
<1>1. CASE Describe
  <2>1. /\ wizard' = [wizard EXCEPT !.named = TRUE]
        /\ UNCHANGED <<page, company, payment, answer, checkouts, claimed>>
      BY <1>1 DEF Describe
  <2>2. wizard' \in WizardRows /\ wizard'.step = wizard.step /\ wizard'.paid = wizard.paid
      BY <1>0, <2>1 DEF WizardRows
  <2>3. wizard'.step <= wizard.step BY <1>0, <2>2
  <2>4. QED BY <1>0, <2>1, <2>2, <2>3, BrowserKeeps
<1>2. CASE Forward
  <2>1. /\ wizard' = [wizard EXCEPT !.step = wizard.step + 1]
        /\ wizard.step \in {1, 2, 3} /\ (wizard.step = 2 => wizard.paid)
        /\ UNCHANGED <<page, company, payment, answer, checkouts, claimed>>
    <3>1. MayAdvance(wizard, page.shown # "none") BY <1>2 DEF Forward
    <3>2. wizard.step \in {1, 2, 3} /\ (wizard.step = 2 => wizard.paid)
        BY <1>0, <3>1 DEF MayAdvance
    <3>3. QED BY <1>2, <3>2 DEF Forward
  <2>2. wizard.step + 1 \in 1 .. 4 BY <1>0, <2>1
  <2>3. wizard' \in WizardRows /\ wizard'.step = wizard.step + 1 /\ wizard'.paid = wizard.paid
      BY <1>0, <2>1, <2>2 DEF WizardRows
  <2>4. wizard.paid \/ wizard.step > 2 => PaidOrClaimed BY <1>0, Unpaid
  <2>5. wizard'.step <= 2 \/ PaidOrClaimed BY <1>0, <2>1, <2>3, <2>4
  <2>6. QED BY <1>0, <2>1, <2>3, <2>5, BrowserKeeps
<1>3. CASE Back
  <2>1. /\ wizard' = [wizard EXCEPT !.step = wizard.step - 1] /\ wizard.step > 1
        /\ UNCHANGED <<page, company, payment, answer, checkouts, claimed>>
      BY <1>3 DEF Back
  <2>2. wizard.step - 1 \in 1 .. 4 BY <1>0, <2>1
  <2>3. wizard' \in WizardRows /\ wizard'.step = wizard.step - 1 /\ wizard'.paid = wizard.paid
      BY <1>0, <2>1, <2>2 DEF WizardRows
  <2>4. wizard'.step <= wizard.step BY <1>0, <2>3
  <2>5. QED BY <1>0, <2>1, <2>3, <2>4, BrowserKeeps
<1>4. CASE CheckoutFails
  <2>1. /\ page' = [page EXCEPT !.busy = FALSE]
        /\ UNCHANGED <<wizard, company, payment, answer, checkouts, claimed>>
      BY <1>4 DEF CheckoutFails
  <2>2. page' \in PageRows(Len(payment)) /\ page'.shown = page.shown BY <1>0, <2>1 DEF PageRows
  <2>3. wizard'.step <= wizard.step BY <1>0, <2>1
  <2>4. QED BY <1>0, <2>1, <2>2, <2>3, BrowserKeeps
<1>5. CASE \E p \in Plans : Checkout(p)
  <2>1. PICK p \in Plans : Checkout(p) BY <1>5
  <2>2. /\ page' = [page EXCEPT !.busy = TRUE]
        /\ wizard' = [wizard EXCEPT !.plan = p, !.paid = FALSE]
        /\ UNCHANGED <<company, payment, answer, checkouts, claimed>>
      BY <2>1, Zenon DEF Checkout
  <2>3. page' \in PageRows(Len(payment)) /\ page'.shown = page.shown BY <1>0, <2>2 DEF PageRows
  <2>4. wizard' \in WizardRows /\ wizard'.step = wizard.step /\ ~wizard'.paid
      BY <1>0, <2>2 DEF WizardRows, MaybePlans
  <2>5. wizard'.step <= wizard.step BY <1>0, <2>4
  <2>6. QED BY <1>0, <2>2, <2>3, <2>4, <2>5, BrowserKeeps
<1>6. QED BY <1>1, <1>2, <1>3, <1>4, <1>5

-----------------------------------------------------------------------------
(* The company, while the wizard and the payments stay.                     *)
LEMMA CompanyKeeps ==
    ASSUME WizardInv, UNCHANGED <<wizard, payment>>, checkouts' \subseteq MaybePlans,
           claimed' \in BOOLEAN, claimed => claimed',
           page' \in PageRows(Len(payment)), page'.shown \in {page.shown, "none"},
           answer' \in Answers, answer'.status = "active" => Len(payment) > 0 \/ claimed',
           company' \in CompanyRows(Len(payment)),
           Len(payment) > 0 \/ claimed' \/ Locked(company')
    PROVE  WizardInv'
<1>1. WizardTypes' BY DEF WizardInv, WizardTypes
<1>2. PaidOrClaimed' <=> Len(payment) > 0 \/ claimed' BY DEF PaidOrClaimed
<1>3. ~PaidOrClaimed' => ~PaidOrClaimed BY <1>2 DEF PaidOrClaimed
<1>4. NothingIsPaid'
  <2>1. SUFFICES ASSUME ~PaidOrClaimed'
                 PROVE  /\ wizard'.step <= 2 /\ ~wizard'.paid /\ Locked(company')
                        /\ page'.shown # "active" /\ answer'.status # "active"
      BY DEF NothingIsPaid, Locked
  <2>2. QED BY <1>2, <1>3, <2>1, Unpaid
<1>5. QED BY <1>1, <1>4 DEF WizardInv

LEMMA PlanWritten ==
    ASSUME WizardInv, NEW p \in MaybePlans
    PROVE  \A c \in {[company EXCEPT !.plan = p],
                     [company EXCEPT !.plan = p, !.session = p, !.status = "pending"]} :
               c \in CompanyRows(Len(payment)) /\ (PaidOrClaimed \/ Locked(c))
<1> SUFFICES ASSUME NEW c \in {[company EXCEPT !.plan = p],
                               [company EXCEPT !.plan = p, !.session = p, !.status = "pending"]}
             PROVE  c \in CompanyRows(Len(payment)) /\ (PaidOrClaimed \/ Locked(c))
    OBVIOUS
<1>1. company \in CompanyRows(Len(payment)) BY Parts
<1>2. /\ c \in CompanyRows(Len(payment)) /\ c.payment = company.payment
      /\ c.events = company.events /\ c.session \in {company.session, p}
      /\ c.status \in {company.status, "pending"} /\ c.subscription = company.subscription
    BY <1>1 DEF CompanyRows, Statuses
<1>3. PaidOrClaimed \/ Locked(c) BY <1>2, Unpaid, Constants DEF Locked
<1>4. QED BY <1>2, <1>3

LEMMA SignUpKeeps ==
    ASSUME WizardInv, EnsureMembership \/ Finish \/ Redirect
    PROVE  WizardInv'
<1>1. wizard.plan \in MaybePlans /\ SelectedPlan \in MaybePlans
    BY Parts DEF WizardRows, SelectedPlan, MaybePlans
<1>2. UNCHANGED <<wizard, payment, claimed>> /\ checkouts' \subseteq MaybePlans
    BY <1>1, Parts DEF EnsureMembership, Finish, Redirect
<1>3. page' \in PageRows(Len(payment)) /\ page'.shown \in {page.shown, "none"}
    BY <1>1, Parts, OpenedType, NoClaimIsSaid DEF EnsureMembership, Finish, Redirect
<1>4. answer' \in Answers /\ (answer'.status = "active" => PaidOrClaimed)
    BY Parts, Unpaid, Constants DEF EnsureMembership, Finish, Redirect
<1>5. company' \in CompanyRows(Len(payment)) /\ (PaidOrClaimed \/ Locked(company'))
  <2>1. CASE EnsureMembership \/ Finish
    <3>1. company' = [company EXCEPT !.plan = SelectedPlan]
        BY <2>1, Zenon DEF EnsureMembership, Finish
    <3>2. QED BY <1>1, <3>1, PlanWritten, Zenon
  <2>2. CASE Redirect
    <3>1. CASE company' = company
        BY <3>1, Parts, Unpaid
    <3>2. CASE company' = [company EXCEPT !.plan = wizard.plan, !.session = wizard.plan,
                                          !.status = "pending"]
        BY <1>1, <3>2, PlanWritten, Zenon
    <3>3. company' \in {company, [company EXCEPT !.plan = wizard.plan, !.session = wizard.plan,
                                                 !.status = "pending"]}
        BY <2>2, Zenon DEF Redirect
    <3>4. QED BY <3>1, <3>2, <3>3
  <2>3. QED BY <2>1, <2>2
<1>6. PaidOrClaimed => Len(payment) > 0 \/ claimed' BY <1>2 DEF PaidOrClaimed
<1>7. claimed' \in BOOLEAN /\ (claimed => claimed') BY <1>2, Parts
<1>8. QED BY <1>2, <1>3, <1>4, <1>5, <1>6, <1>7, CompanyKeeps

(* A payment that is added or settled.                                      *)
LEMMA PaymentKeeps ==
    ASSUME WizardInv, UNCHANGED <<wizard, page, company, answer, checkouts, claimed>>,
           payment' \in Seq(PaymentRows), Len(payment') >= Len(payment)
    PROVE  WizardInv'
<1>1. Len(payment) \in Nat /\ Len(payment') \in Nat BY Parts
<1>2. page \in PageRows(Len(payment')) /\ company \in CompanyRows(Len(payment'))
    BY <1>1, Parts, RowsGrow
<1>3. WizardTypes' BY <1>2 DEF WizardInv, WizardTypes
<1>4. ~PaidOrClaimed' => ~PaidOrClaimed BY <1>1 DEF PaidOrClaimed
<1>5. NothingIsPaid' BY <1>4 DEF WizardInv, NothingIsPaid
<1>6. QED BY <1>3, <1>5 DEF WizardInv

LEMMA PayKeeps ==
    ASSUME WizardInv, NEW p \in Plans, Pay(p) PROVE WizardInv'
<1> DEFINE row == [plan |-> p, status |-> "processing"]
<1>1. row \in PaymentRows BY DEF PaymentRows
<1>2. /\ payment' = Append(payment, row)
      /\ UNCHANGED <<wizard, page, company, answer, checkouts, claimed>>
    BY DEF Pay
<1> HIDE DEF row
<1>3. payment' \in Seq(PaymentRows) /\ Len(payment') = Len(payment) + 1
    BY <1>1, <1>2, Parts, AppendProperties
<1>4. Len(payment') >= Len(payment) BY <1>3, Parts
<1>5. QED BY <1>2, <1>3, <1>4, PaymentKeeps

LEMMA SettleKeeps ==
    ASSUME WizardInv, NEW n \in DOMAIN payment, Settle(n) PROVE WizardInv'
<1>1. PICK outcome \in Outcomes : payment' = [payment EXCEPT ![n].status = outcome]
    BY DEF Settle
<1> DEFINE row == [payment[n] EXCEPT !.status = outcome]
<1>2. n \in 1 .. Len(payment) /\ payment \in Seq(PaymentRows) BY Parts
<1>3. payment[n] \in PaymentRows BY <1>2
<1>4. row \in PaymentRows BY <1>3 DEF PaymentRows
<1>5. payment' = [payment EXCEPT ![n] = row] BY <1>1
<1> HIDE DEF row
<1>6. payment' \in Seq(PaymentRows) /\ Len(payment') = Len(payment)
    BY <1>2, <1>4, <1>5, ExceptSeq
<1>7. Len(payment') >= Len(payment) BY <1>6, Parts
<1>8. UNCHANGED <<wizard, page, company, answer, checkouts, claimed>> BY DEF Settle
<1>9. QED BY <1>6, <1>7, <1>8, PaymentKeeps

(* The event of a payment is kept once.                                     *)
LEMMA RecordedKeeps ==
    ASSUME NEW n \in Nat, NEW events \in Seq(Entries(n)), NEW m \in {Claimed} \cup 1 .. n,
           NEW reached \in {"paid", "failed"}
    PROVE  Recorded(events, m, reached) \in Seq(Entries(n))
<1> DEFINE entry == [payment |-> m, status |-> reached]
           replaced == [e \in DOMAIN events |-> IF events[e].payment = m THEN entry ELSE events[e]]
<1>1. entry \in Entries(n) BY DEF Entries
<1>2. DOMAIN events = 1 .. Len(events) /\ Len(events) \in Nat OBVIOUS
<1>3. \A e \in DOMAIN events : events[e] \in Entries(n) BY <1>2
<1> HIDE DEF entry
<1>4. CASE \E e \in DOMAIN events : events[e].payment = m
  <2>1. Recorded(events, m, reached) = replaced BY <1>4 DEF Recorded, entry
  <2>2. replaced \in [1 .. Len(events) -> Entries(n)] BY <1>1, <1>2, <1>3
  <2>3. replaced \in Seq(Entries(n)) BY <1>2, <2>2, SeqDef
  <2> HIDE DEF replaced
  <2>4. QED BY <2>1, <2>3
<1>5. CASE ~\E e \in DOMAIN events : events[e].payment = m
  <2>1. Recorded(events, m, reached) = Append(events, entry) BY <1>5 DEF Recorded, entry
  <2>2. QED BY <1>1, <2>1, AppendProperties
<1>6. QED BY <1>4, <1>5

LEMMA WebhookKeeps ==
    ASSUME WizardInv, NEW n \in DOMAIN payment, WebhookArrives(n) PROVE WizardInv'
<1> DEFINE paid == payment[n].status = "succeeded"
           events == Recorded(company.events, n, IF paid THEN "paid" ELSE "failed")
           reached == IF paid THEN "active" ELSE "failed"
           kept == IF paid THEN "real" ELSE company.subscription
<1>1. n \in 1 .. Len(payment) /\ Len(payment) \in Nat /\ payment[n] \in PaymentRows
      /\ company \in CompanyRows(Len(payment)) /\ claimed \in BOOLEAN
      /\ checkouts \subseteq MaybePlans
    BY Parts
<1>2. company' = [company EXCEPT !.plan = payment[n].plan, !.payment = n,
              !.status = reached, !.subscription = kept, !.events = events]
    BY DEF WebhookArrives
<1>3. UNCHANGED <<wizard, page, payment, answer, checkouts, claimed>> BY DEF WebhookArrives
<1>4. company.events \in Seq(Entries(Len(payment))) /\ company.subscription \in Subscriptions
    BY <1>1 DEF CompanyRows
<1>5. events \in Seq(Entries(Len(payment)))
    BY <1>1, <1>4, RecordedKeeps
<1>6. reached \in Statuses /\ kept \in Subscriptions BY <1>4 DEF Statuses, Subscriptions
<1>7. payment[n].plan \in MaybePlans /\ n \in Numbers(Len(payment))
    BY <1>1 DEF PaymentRows, MaybePlans, Numbers
<1> HIDE DEF events, reached, kept, paid
<1>8. company' \in CompanyRows(Len(payment))
    BY <1>1, <1>2, <1>5, <1>6, <1>7 DEF CompanyRows
<1>9. Len(payment) > 0 BY <1>1
<1>10. page' \in PageRows(Len(payment)) /\ page'.shown = page.shown /\ answer' \in Answers
    BY <1>3, Parts
<1>11. QED BY <1>1, <1>3, <1>8, <1>9, <1>10, CompanyKeeps

-----------------------------------------------------------------------------
(* The newest payment of a checkout.                                        *)
LEMMA LatestIs ==
    ASSUME WizardInv, NEW p
    PROVE  /\ LatestPayment(p) \in 0 .. Len(payment)
           /\ SessionStatus(p) \in {"none", "processing"} \cup Outcomes
           /\ Len(payment) = 0 => LatestPayment(p) = 0 /\ SessionStatus(p) = "none"
<1>1. PaymentsOf(p) \in SUBSET (1 .. Len(payment)) /\ Len(payment) \in Nat
    BY Parts DEF PaymentsOf
<1>2. CASE PaymentsOf(p) = {}
    BY <1>1, <1>2 DEF LatestPayment, SessionStatus
<1>3. CASE PaymentsOf(p) # {}
  <2>1. LatestPayment(p) \in 1 .. Len(payment)
      BY <1>1, <1>3, BoundedHaveMax DEF LatestPayment
  <2>2. payment[LatestPayment(p)] \in PaymentRows BY <2>1, Parts
  <2>3. SessionStatus(p) = payment[LatestPayment(p)].status BY <1>3 DEF SessionStatus
  <2>4. QED BY <1>1, <2>1, <2>2, <2>3 DEF PaymentRows
<1>4. QED BY <1>2, <1>3

LEMMA ToldIsSaid ==
    ASSUME WizardInv, NEW p, NEW says \in ToldBy(p)
    PROVE  says \in Said(Len(payment))
<1>1. Len(payment) \in Nat /\ LatestPayment(p) \in Numbers(Len(payment))
    BY Parts, LatestIs DEF Numbers
<1>2. NoClaim \in Said(Len(payment)) BY <1>1, NoClaimIsSaid
<1>3. CASE says = NoClaim BY <1>2, <1>3
<1>4. CASE says # NoClaim
  <2> DEFINE reached == IF SessionStatus(p) \in Outcomes THEN SessionStatus(p) ELSE "none"
             kept == IF SessionStatus(p) = "succeeded" THEN "real" ELSE "none"
  <2>1. says = [status |-> reached, payment |-> LatestPayment(p), session |-> FALSE,
                subscription |-> kept]
      BY <1>4 DEF ToldBy
  <2>2. reached \in {"none"} \cup Outcomes /\ kept \in Subscriptions BY DEF Subscriptions
  <2> HIDE DEF reached, kept
  <2>3. QED BY <1>1, <2>1, <2>2 DEF Said
<1>5. QED BY <1>3, <1>4

(* What is heard is of a payment there is, or of one that is claimed; of    *)
(* none before there is one.                                                *)
LEMMA HeardIs ==
    ASSUME WizardInv, NEW heard \in Heard \cup {Unheard}
    PROVE  /\ heard.status \in {"none", "processing"} \cup Outcomes
           /\ heard.payment \in Numbers(Len(payment))
           /\ Len(payment) = 0 /\ SessionAsked # Foreign => heard = Unheard
<1>1. Len(payment) \in Nat BY Parts
<1>2. 0 \in Numbers(Len(payment)) /\ Claimed \in Numbers(Len(payment)) BY <1>1 DEF Numbers
<1>3. CASE heard = Unheard BY <1>2, <1>3 DEF Unheard
<1>4. CASE heard # Unheard /\ SessionAsked = Foreign BY <1>2, <1>4 DEF Heard
<1>5. CASE heard # Unheard /\ SessionAsked # Foreign
  <2>1. heard = [status |-> SessionStatus(SessionAsked), payment |-> LatestPayment(SessionAsked)]
      BY <1>5 DEF Heard
  <2>2. heard.payment \in Numbers(Len(payment)) BY <2>1, LatestIs DEF Numbers
  <2>3. QED BY <1>5, <2>1, <2>2, LatestIs DEF Unheard
<1>6. QED BY <1>3, <1>4, <1>5

LEMMA RowFields ==
    ASSUME WizardInv
    PROVE  /\ page.says \in Said(Len(payment)) /\ page.says.payment \in Numbers(Len(payment))
           /\ page.says.subscription \in Subscriptions
           /\ page.says.status \in {"none"} \cup Outcomes
           /\ page.tier \in MaybePlans /\ page.at \in {"plain", "away", "returned"}
           /\ company.plan \in MaybePlans /\ company.payment \in Numbers(Len(payment))
           /\ company.session \in MaybePlans \cup {Foreign} /\ company.status \in Statuses
           /\ company.subscription \in Subscriptions
           /\ company.events \in Seq(Entries(Len(payment)))
<1>1. page \in PageRows(Len(payment)) /\ company \in CompanyRows(Len(payment)) BY Parts
<1>2. page.says \in Said(Len(payment)) BY <1>1 DEF PageRows
<1>3. QED BY <1>1, <1>2 DEF PageRows, CompanyRows, Said

(* What is concluded from it counts as paid when there is a payment, or an  *)
(* address claims one.                                                      *)
LEMMA SyncedIs ==
    ASSUME WizardInv, NEW heard \in Heard \cup {Unheard}
    PROVE  /\ Synced(heard) \in {"failed", "active", "none"}
           /\ PaymentKnown(heard) \in Numbers(Len(payment))
           /\ PaidOrClaimed \/ Claims(page.says) \/
                  (/\ Synced(heard) # "active" /\ PaymentKnown(heard) = 0
                   /\ SessionAsked # Foreign /\ page.says.subscription = "none")
<1>1. Synced(heard) \in {"failed", "active", "none"} BY DEF Synced
<1>2. PaymentKnown(heard) \in Numbers(Len(payment)) BY HeardIs, RowFields DEF PaymentKnown
<1>3. ASSUME ~PaidOrClaimed, ~Claims(page.says)
      PROVE  /\ Synced(heard) # "active" /\ PaymentKnown(heard) = 0
             /\ SessionAsked # Foreign /\ page.says.subscription = "none"
  <2>1. /\ Len(payment) = 0 /\ company.payment = 0 /\ company.session # Foreign
      BY <1>3, Unpaid DEF Locked
  <2>2. /\ page.says.status # "succeeded" /\ page.says.payment = 0 /\ ~page.says.session
        /\ page.says.subscription = "none"
      BY <1>3 DEF Claims
  <2>3. SessionAsked # Foreign BY <2>1, <2>2 DEF SessionAsked
  <2>4. heard.status = "none" /\ heard.payment = 0 BY <2>1, <2>3, HeardIs DEF Unheard
  <2>5. PaymentKnown(heard) = 0 /\ StatusKnown(heard) # "succeeded"
      BY <2>1, <2>2, <2>4 DEF PaymentKnown, StatusKnown
  <2>6. QED BY <2>2, <2>3, <2>5 DEF Synced
<1>4. QED BY <1>1, <1>2, <1>3

LEMMA DeterminedIs ==
    ASSUME WizardInv, NEW reached \in Statuses
    PROVE  /\ Determined(reached) \in Statuses
           /\ Determined(reached) = "active" => reached = "active" \/ PaidOrClaimed
<1>1. Determined(reached) \in Statuses BY DEF Determined, Statuses
<1>2. ASSUME ~PaidOrClaimed, reached # "active" PROVE Determined(reached) # "active"
  <2>1. company.events = <<>> /\ company.subscription = "none"
      BY <1>2, Unpaid DEF Locked
  <2>2. QED BY <1>2, <2>1 DEF Determined
<1>3. QED BY <1>1, <1>2

(* A company with a subscription has paid, or there was a claim.            *)
LEMMA FromSubscriptionIs ==
    ASSUME WizardInv, FromSubscription
    PROVE  /\ company' \in CompanyRows(Len(payment)) /\ answer' \in Answers /\ PaidOrClaimed
<1>1. PICK reached \in {"active", "failed", "pending"}, p \in Plans :
          /\ company' = [company EXCEPT !.status = reached, !.plan = p]
          /\ answer' = [status |-> Determined(reached), plan |-> p]
    BY Zenon DEF FromSubscription
<1>2. reached \in Statuses /\ p \in MaybePlans BY DEF Statuses, MaybePlans
<1>3. company' \in CompanyRows(Len(payment)) BY <1>1, <1>2, Parts DEF CompanyRows
<1>4. answer' \in Answers BY <1>1, <1>2, DeterminedIs DEF Answers
<1>5. PaidOrClaimed BY Unpaid DEF FromSubscription, Locked
<1>6. QED BY <1>3, <1>4, <1>5

LEMMA WithSyncIs ==
    ASSUME WizardInv, NEW heard \in Heard \cup {Unheard}, Synced(heard) # "none"
    PROVE  /\ WithSync(heard) \in CompanyRows(Len(payment))
           /\ PaidOrClaimed \/ Claims(page.says) \/ Locked(WithSync(heard))
<1> DEFINE n == PaymentKnown(heard)
           reached == Synced(heard)
           kept == IF page.says.subscription = "none" THEN company.subscription
                   ELSE page.says.subscription
           events == IF n = 0 THEN company.events
                     ELSE Recorded(company.events, n, IF reached = "active" THEN "paid" ELSE "failed")
<1>1. WithSync(heard) = [company EXCEPT !.status = reached, !.plan = Tier, !.session = SessionAsked,
                             !.payment = n, !.subscription = kept, !.events = events]
    BY DEF WithSync
<1>2. Len(payment) \in Nat /\ company \in CompanyRows(Len(payment)) BY Parts
<1>3. reached \in Statuses /\ n \in Numbers(Len(payment)) BY SyncedIs DEF Statuses
<1>4. Tier \in MaybePlans /\ SessionAsked \in MaybePlans \cup {Foreign} /\ kept \in Subscriptions
    BY RowFields DEF Tier, SessionAsked
<1>5. events \in Seq(Entries(Len(payment)))
  <2>1. n # 0 => n \in {Claimed} \cup 1 .. Len(payment) BY <1>2, <1>3 DEF Numbers
  <2>2. QED BY <1>2, <2>1, RowFields, RecordedKeeps
<1>6. ASSUME ~PaidOrClaimed, ~Claims(page.says) PROVE Locked(WithSync(heard))
  <2>1. /\ reached # "active" /\ n = 0 /\ SessionAsked # Foreign /\ page.says.subscription = "none"
      BY <1>6, SyncedIs
  <2>2. company.subscription = "none" /\ company.events = <<>> BY <1>6, Unpaid DEF Locked
  <2>3. kept = "none" /\ events = <<>> BY <2>1, <2>2
  <2> HIDE DEF n, reached, kept, events
  <2>4. QED BY <1>1, <1>2, <2>1, <2>3 DEF Locked, CompanyRows
<1> HIDE DEF n, reached, kept, events
<1>7. WithSync(heard) \in CompanyRows(Len(payment))
    BY <1>1, <1>2, <1>3, <1>4, <1>5 DEF CompanyRows
<1>8. QED BY <1>6, <1>7

LEMMA FromCheckoutIs ==
    ASSUME WizardInv, NEW heard \in Heard \cup {Unheard}, FromCheckout(heard)
    PROVE  /\ company' \in CompanyRows(Len(payment)) /\ answer' \in Answers
           /\ PaidOrClaimed \/ Claims(page.says) \/
                  (Locked(company') /\ answer'.status # "active")
<1>1. /\ company' = IF Synced(heard) = "none" THEN company ELSE WithSync(heard)
      /\ answer' = [status |-> IF Synced(heard) = "none" THEN Determined(company.status)
                               ELSE Synced(heard),
                    plan |-> Tier]
    BY DEF FromCheckout
<1>2. Tier \in MaybePlans /\ company.status \in Statuses BY RowFields DEF Tier
<1>3. CASE Synced(heard) = "none"
  <2>1. company' = company /\ answer' = [status |-> Determined(company.status), plan |-> Tier]
      BY <1>1, <1>3
  <2>2. answer' \in Answers BY <1>2, <2>1, DeterminedIs DEF Answers
  <2>3. PaidOrClaimed \/ (Locked(company') /\ answer'.status # "active")
      BY <1>2, <2>1, DeterminedIs, Unpaid DEF Locked
  <2>4. QED BY <2>1, <2>2, <2>3, Parts
<1>4. CASE Synced(heard) # "none"
  <2>1. company' = WithSync(heard) /\ answer' = [status |-> Synced(heard), plan |-> Tier]
      BY <1>1, <1>4
  <2>2. Synced(heard) \in Statuses BY SyncedIs DEF Statuses
  <2>3. answer' \in Answers BY <1>2, <2>1, <2>2 DEF Answers
  <2>4. PaidOrClaimed \/ Claims(page.says) \/ answer'.status # "active" BY <2>1, SyncedIs
  <2>5. QED BY <1>4, <2>1, <2>3, <2>4, WithSyncIs
<1>5. QED BY <1>3, <1>4

LEMMA PollReconcileKeeps ==
    ASSUME WizardInv, PollReconcile PROVE WizardInv'
<1>1. PICK heard \in Heard \cup {Unheard} : Reconcile(heard) BY DEF PollReconcile
<1>2. /\ UNCHANGED <<wizard, page, payment, checkouts>>
      /\ claimed' = (claimed \/ Claims(page.says))
    BY <1>1 DEF Reconcile
<1>3. claimed' \in BOOLEAN /\ (claimed => claimed') BY <1>2, Parts
<1>4. PaidOrClaimed \/ Claims(page.says) => Len(payment) > 0 \/ claimed'
    BY <1>2 DEF PaidOrClaimed
<1>5. /\ company' \in CompanyRows(Len(payment)) /\ answer' \in Answers
      /\ Len(payment) > 0 \/ claimed' \/ (Locked(company') /\ answer'.status # "active")
  <2>1. CASE FromSubscription BY <1>4, <2>1, FromSubscriptionIs
  <2>2. CASE FromCheckout(heard) BY <1>4, <2>2, FromCheckoutIs
  <2>3. QED BY <1>1, <2>1, <2>2 DEF Reconcile
<1>6. page' \in PageRows(Len(payment)) /\ page'.shown = page.shown BY <1>2, Parts
<1>7. checkouts' \subseteq MaybePlans BY <1>2, Parts
<1>8. QED BY <1>2, <1>3, <1>5, <1>6, <1>7, CompanyKeeps

LEMMA PollOverviewKeeps ==
    ASSUME WizardInv, PollOverview PROVE WizardInv'
<1> DEFINE reached == IF company.status = "none" THEN "pending" ELSE company.status
<1>1. /\ page' = [page EXCEPT !.shown = reached]
      /\ wizard' = IF page.at = "returned" THEN wizard ELSE [wizard EXCEPT !.paid = reached = "active"]
      /\ UNCHANGED <<company, payment, answer, checkouts, claimed>>
    BY DEF PollOverview
<1>2. reached \in Statuses /\ (reached = "active" => company.status = "active")
    BY RowFields DEF Statuses
<1>3. reached = "active" => PaidOrClaimed
    BY <1>2, Unpaid DEF Locked
<1> HIDE DEF reached
<1>4. page' \in PageRows(Len(payment)) /\ page'.shown = reached BY <1>1, <1>2, Parts DEF PageRows
<1>5. (reached = "active") \in BOOLEAN OBVIOUS
<1>6. /\ wizard' \in WizardRows /\ wizard'.step = wizard.step
      /\ wizard'.paid => wizard.paid \/ reached = "active"
  <2>1. wizard \in WizardRows BY Parts
  <2>2. CASE wizard' = wizard BY <2>1, <2>2
  <2>3. CASE wizard' = [wizard EXCEPT !.paid = reached = "active"]
      BY <1>5, <2>1, <2>3 DEF WizardRows
  <2>4. QED BY <1>1, <2>2, <2>3
<1>7. wizard.step <= wizard.step BY Parts DEF WizardRows
<1>8. answer' \in Answers /\ checkouts' \subseteq MaybePlans BY <1>1, Parts
<1>9. QED BY <1>1, <1>3, <1>4, <1>6, <1>7, <1>8, BrowserKeeps

LEMMA AnswerKeeps ==
    ASSUME WizardInv, AnswerReconcile \/ LoseAnswer PROVE WizardInv'
<1>1. /\ answer' = Nothing /\ UNCHANGED <<company, payment, checkouts, claimed>>
      /\ page' \in {page, [page EXCEPT !.synced = answer]}
    BY DEF AnswerReconcile, LoseAnswer
<1>2. answer' \in Answers /\ answer'.status # "active" /\ checkouts' \subseteq MaybePlans
    BY <1>1, Constants, Parts
<1>3. page' \in PageRows(Len(payment)) /\ page'.shown = page.shown BY <1>1, Parts DEF PageRows
<1>4. /\ wizard' \in WizardRows
      /\ wizard'.step <= wizard.step \/ PaidOrClaimed
      /\ wizard'.paid => wizard.paid \/ PaidOrClaimed
  <2>0. wizard \in WizardRows /\ wizard.step \in 1 .. 4 BY Parts DEF WizardRows
  <2>1. CASE wizard' = wizard BY <2>0, <2>1
  <2>2. CASE /\ answer.status = "active"
             /\ wizard' = [wizard EXCEPT !.plan = answer.plan, !.paid = TRUE,
                                         !.step = AtLeast(wizard.step, 3)]
    <3>1. PaidOrClaimed BY <2>2, Unpaid
    <3>2. AtLeast(wizard.step, 3) \in 1 .. 4 BY <2>0 DEF AtLeast
    <3>3. answer.plan \in MaybePlans BY Parts DEF Answers
    <3>4. wizard' \in WizardRows BY <2>0, <2>2, <3>2, <3>3 DEF WizardRows
    <3>5. QED BY <3>1, <3>4
  <2>3. CASE wizard' = [wizard EXCEPT !.paid = FALSE]
    <3>1. wizard' \in WizardRows /\ wizard'.step = wizard.step /\ ~wizard'.paid
        BY <2>0, <2>3 DEF WizardRows
    <3>2. QED BY <2>0, <3>1
  <2>4. QED BY <2>1, <2>2, <2>3 DEF AnswerReconcile, LoseAnswer
<1>5. QED BY <1>1, <1>2, <1>3, <1>4, BrowserKeeps

-----------------------------------------------------------------------------
LEMMA WizardStep ==
    ASSUME WizardInv, [OnboardingNext]_onboardingVars PROVE WizardInv'
<1>1. CASE Reload \/ Visit \/ VisitReturn \/ Return
  <2>1. /\ page.at \in {"plain", "away", "returned"} /\ page.tier \in MaybePlans
        /\ page.says \in Said(Len(payment)) /\ NoClaim \in Said(Len(payment))
      BY Parts, RowFields, NoClaimIsSaid
  <2>2. Addresses \subseteq Said(Len(payment))
    <3>1. Len(payment) \in Nat /\ {0, Claimed} \subseteq Numbers(Len(payment))
        BY Parts DEF Numbers
    <3>2. QED BY <3>1 DEF Said, Subscriptions
  <2>3. ToldBy(page.tier) \subseteq Said(Len(payment)) BY ToldIsSaid
  <2>4. PICK at \in {"plain", "away", "returned"}, tier \in MaybePlans,
             says \in Said(Len(payment)) : Open(at, tier, says)
    <3>1. CASE Reload BY <2>1, <3>1 DEF Reload
    <3>2. CASE Visit BY <2>1, <3>2, Constants DEF Visit
    <3>3. CASE VisitReturn BY <2>2, <3>3 DEF VisitReturn
    <3>4. CASE Return BY <2>1, <2>3, <3>4 DEF Return
    <3>5. QED BY <1>1, <3>1, <3>2, <3>3, <3>4
  <2>5. QED BY <2>4, OpenKeeps
<1>2. CASE UNCHANGED onboardingVars
  <2>1. WizardTypes' BY <1>2 DEF onboardingVars, WizardInv, WizardTypes
  <2>2. NothingIsPaid' BY <1>2 DEF onboardingVars, WizardInv, NothingIsPaid, PaidOrClaimed
  <2>3. QED BY <2>1, <2>2 DEF WizardInv
<1>3. QED BY <1>1, <1>2, StepsKeep, SignUpKeeps, PayKeeps, SettleKeeps, WebhookKeeps,
             PollReconcileKeeps, PollOverviewKeeps, AnswerKeeps DEF OnboardingNext

LEMMA WizardInvIsSound ==
    ASSUME WizardInv PROVE WizardIsSound
<1>1. OnboardingTypeOK
  <2>1. /\ wizard \in WizardRows /\ page \in PageRows(Len(payment))
        /\ payment \in Seq(PaymentRows) /\ answer \in Answers
        /\ DOMAIN payment = 1 .. Len(payment) /\ checkouts \subseteq MaybePlans
        /\ claimed \in BOOLEAN
      BY Parts
  <2>2. company.events \in Seq([payment: {Claimed} \cup DOMAIN payment, status: {"paid", "failed"}])
      BY <2>1, RowFields DEF Entries
  <2>3. QED
      BY <2>1, <2>2, RowFields
      DEF OnboardingTypeOK, WizardRows, PageRows, PaymentRows, Said, Numbers
<1>2. PassedIsPaidOrClaimed
  <2>1. wizard.step > 2 => Len(payment) > 0 \/ claimed
      BY Parts, Unpaid DEF PaidOrClaimed, WizardRows
  <2>2. payment = <<>> => Len(payment) = 0 OBVIOUS
  <2>3. QED BY <2>1, <2>2 DEF PassedIsPaidOrClaimed
<1>3. QED BY <1>1, <1>2 DEF WizardIsSound

(* Nobody gets past the plan without a payment at the provider, whatever    *)
(* reloads, late answers, webhooks and second checkouts did to the wizard,  *)
(* unless a page was opened whose address itself speaks of a payment, a     *)
(* session or a subscription: the reconciliation takes its word.            *)
THEOREM WizardStaysSound == OnboardingSpec => []WizardIsSound
<1>1. OnboardingInit => WizardInv BY WizardInitInv
<1>2. WizardInv /\ [OnboardingNext]_onboardingVars => WizardInv' BY WizardStep
<1>3. WizardInv => WizardIsSound BY WizardInvIsSound
<1>4. QED BY <1>1, <1>2, <1>3, PTL DEF OnboardingSpec

HIDE OnboardingAssumption

-----------------------------------------------------------------------------
(***************************************************************************)
(* The form, for any quantities, prices and days, and any numbers of lines *)
(* and requests.                                                           *)
(***************************************************************************)
USE InvoiceFormAssumption

Forms == {f \in [lines: Seq(Lines), starts: Days, ends: Days] : Len(f.lines) \in 1 .. MaxLines}

Submitted == UNION {Payloads(f) : f \in {f \in Forms : Validate(f)}}

FormRequests == [at: {"sent"}, payload: Submitted] \cup [at: {"created", "refused"}, amount: Int]

FormAmount(r) == IF r.at = "sent" THEN r.payload.amount ELSE r.amount

(* What this visit sent and the route has not refused.                      *)
Unrefused == {n \in visit.first .. Len(request) : request[n].at # "refused"}

FormTypes ==
    /\ form \in Forms
    /\ screen \in {"editing", "sending", "submitted"}
    /\ request \in Seq(FormRequests) /\ Len(request) <= MaxSubmissions
    /\ visit \in [first: 1 .. Len(request) + 1, losses: 0 .. Len(request)]

(* Every request but the one whose answer is awaited or was shown has been  *)
(* refused, or its answer was lost.                                         *)
LossesAreCounted ==
    IF screen = "editing" THEN Cardinality(Unrefused) <= visit.losses
    ELSE Cardinality(Unrefused \ {Len(request)}) <= visit.losses

SendingIsNotLost ==
    /\ screen # "editing" => visit.first <= Len(request)
    /\ screen = "sending" => visit.losses < Len(request)
    /\ screen = "submitted" => request[Len(request)].at = "created"

SentIsShown ==
    screen # "editing" /\ ~touched =>
        FormAmount(request[Len(request)]) \in ToFixed(ComputedTotal(form.lines))

FormInv ==
    /\ FormTypes /\ touched \in BOOLEAN
    /\ LossesAreCounted /\ SendingIsNotLost /\ SentIsShown /\ RefusedIsWorthless

-----------------------------------------------------------------------------
LEMMA DropsOne ==
    ASSUME NEW S, IsFiniteSet(S), NEW x
    PROVE  /\ IsFiniteSet(S \ {x}) /\ Cardinality(S) \in Nat /\ Cardinality(S \ {x}) \in Nat
           /\ Cardinality(S) <= Cardinality(S \ {x}) + 1
<1>1. IsFiniteSet(S \ {x}) BY FS_Subset
<1>2. Cardinality(S) \in Nat /\ Cardinality(S \ {x}) \in Nat BY <1>1, FS_CardinalityType
<1>3. Cardinality(S \ {x}) \in {Cardinality(S), Cardinality(S) - 1}
  <2>1. CASE x \in S BY <2>1, FS_RemoveElement
  <2>2. CASE x \notin S
    <3>1. S \ {x} = S BY <2>2
    <3>2. QED BY <3>1
  <2>3. QED BY <2>1, <2>2
<1>4. QED BY <1>1, <1>2, <1>3

(* What the page sends.                                                     *)
LEMMA TotalIsInt ==
    ASSUME NEW lines \in Seq(Lines)
    PROVE  /\ ComputedTotal(lines) \in Int
           /\ \A n \in DOMAIN lines : /\ Parsed(lines)[n].quantity = lines[n].quantity
                                      /\ lines[n].price # NoPrice =>
                                             Parsed(lines)[n].price = lines[n].price
<1>1. DOMAIN lines = 1 .. Len(lines) /\ Len(lines) \in Nat OBVIOUS
<1>2. ASSUME NEW n \in DOMAIN lines
      PROVE  /\ lines[n].quantity \in Int
             /\ Parsed(lines)[n] = ParsedLine(lines[n])
             /\ ParsedLine(lines[n]).quantity = lines[n].quantity
             /\ ParsedLine(lines[n]).price \in Int
             /\ lines[n].price # NoPrice => ParsedLine(lines[n]).price = lines[n].price
  <2>1. lines[n] \in Lines BY <1>1, <1>2, ElementOfSeq
  <2>2. lines[n].quantity \in Int /\ lines[n].price \in Int \cup {NoPrice} BY <2>1 DEF Lines
  <2>3. QED BY <2>2 DEF Parsed, ParsedLine
<1> DEFINE f == [n \in DOMAIN Parsed(lines) |-> Parsed(lines)[n].quantity * Parsed(lines)[n].price]
<1>3. DOMAIN Parsed(lines) = 1 .. Len(lines) BY <1>1 DEF Parsed
<1>4. \A n \in DOMAIN lines : Parsed(lines)[n].quantity \in Int /\ Parsed(lines)[n].price \in Int
    BY <1>2
<1>5. \A n \in 1 .. Len(lines) : f[n] \in Int BY <1>1, <1>3, <1>4
<1>6. IsFiniteSet(1 .. Len(lines)) BY <1>1, FS_Interval
<1>7. ComputedTotal(lines) = SumFunctionOnSet(f, 1 .. Len(lines))
    BY <1>3 DEF ComputedTotal, LineTotal
<1> HIDE DEF f
<1>8. QED BY <1>2, <1>5, <1>6, <1>7, SumOfInts

LEMMA NearestIsClose ==
    ASSUME NEW total \in Int, NEW amount \in Nearest(total)
    PROVE  /\ amount \in Int /\ amount - total \in -Cent .. Cent
           /\ total > 0 => amount >= 0
BY DEF Nearest, InTheMiddle, Cent

(* Two roundings of one total.                                              *)
LEMMA NeighboursAreCents ==
    ASSUME NEW total \in Int, NEW stored \in Nearest(total), NEW shown \in Nearest(total),
           shown # stored
    PROVE  InTheMiddle(total) /\ shown - stored \in {-Cent, Cent}
BY DEF Nearest, InTheMiddle, Cent

LEMMA PayloadIsAccepted ==
    ASSUME NEW payload \in Submitted
    PROVE  payload.amount \in Int /\ (payload.amount # 0 => ValidForm(payload))
<1>1. PICK f \in Forms : Validate(f) /\ payload \in Payloads(f) BY DEF Submitted
<1> DEFINE total == ComputedTotal(f.lines)
<1>2. f.lines \in Seq(Lines) /\ Len(f.lines) >= 1 /\ f.starts \in Int /\ f.ends \in Int
  <2>1. /\ f \in [lines: Seq(Lines), starts: Days, ends: Days]
        /\ Len(f.lines) \in 1 .. MaxLines /\ MaxLines \in Nat
      BY DEF Forms
  <2>2. f.lines \in Seq(Lines) /\ f.starts \in Days /\ f.ends \in Days BY <2>1
  <2>3. f.starts \in Int /\ f.ends \in Int BY <2>2
  <2>4. Len(f.lines) >= 1 BY <2>1
  <2>5. QED BY <2>2, <2>3, <2>4
<1>3. total \in Int /\ total > 0 BY <1>1, <1>2, TotalIsInt DEF Validate
<1>4. /\ payload.amount \in Nearest(total) /\ payload.items = Parsed(f.lines)
      /\ payload.starts = f.starts /\ payload.ends = f.ends
    BY <1>1 DEF Payloads, ToFixed
<1>5. LineTotal(payload.items) = total BY <1>4 DEF ComputedTotal
<1> HIDE DEF total
<1>6. /\ payload.amount \in Int /\ payload.amount >= 0
      /\ payload.amount - LineTotal(payload.items) \in -Cent .. Cent
    BY <1>3, <1>4, <1>5, NearestIsClose
<1>7. payload.ends >= payload.starts BY <1>1, <1>2, <1>4 DEF Validate
<1>8. ValidItems(payload.items)
  <2>1. DOMAIN payload.items = DOMAIN f.lines /\ DOMAIN f.lines = 1 .. Len(f.lines)
      BY <1>2, <1>4 DEF Parsed
  <2>2. payload.items # <<>> BY <1>2, <2>1
  <2>3. ASSUME NEW n \in DOMAIN payload.items
        PROVE  payload.items[n].quantity > 0 /\ payload.items[n].price >= 0
    <3>1. /\ payload.items[n].quantity = f.lines[n].quantity
          /\ f.lines[n].price # NoPrice => payload.items[n].price = f.lines[n].price
        BY <1>2, <1>4, <2>1, <2>3, TotalIsInt
    <3>2. QED BY <1>1, <2>1, <2>3, <3>1 DEF Validate
  <2>4. QED BY <2>2, <2>3 DEF ValidItems
<1>9. QED BY <1>6, <1>7, <1>8 DEF ValidForm

-----------------------------------------------------------------------------
LEMMA FormParts ==
    ASSUME FormTypes
    PROVE  /\ Len(request) \in Nat /\ DOMAIN request = 1 .. Len(request)
           /\ \A n \in 1 .. Len(request) : request[n] \in FormRequests
           /\ visit.first \in 1 .. Len(request) + 1 /\ visit.losses \in 0 .. Len(request)
           /\ form.lines \in Seq(Lines) /\ Len(form.lines) \in 1 .. MaxLines
           /\ form.starts \in Days /\ form.ends \in Days
           /\ IsFiniteSet(Unrefused) /\ Cardinality(Unrefused) \in Nat
<1>1. Len(request) \in Nat /\ DOMAIN request = 1 .. Len(request) BY DEF FormTypes
<1>2. \A n \in 1 .. Len(request) : request[n] \in FormRequests BY ElementOfSeq DEF FormTypes
<1>3. visit.first \in 1 .. Len(request) + 1 /\ visit.losses \in 0 .. Len(request) BY DEF FormTypes
<1>4. /\ form.lines \in Seq(Lines) /\ Len(form.lines) \in 1 .. MaxLines
      /\ form.starts \in Days /\ form.ends \in Days
    BY DEF FormTypes, Forms
<1>5. IsFiniteSet(visit.first .. Len(request))
  <2>1. visit.first \in Int /\ Len(request) \in Int BY <1>1, <1>3
  <2>2. QED BY <2>1, FS_Interval
<1>6. IsFiniteSet(Unrefused) BY <1>5, FS_Subset DEF Unrefused
<1>7. QED BY <1>1, <1>2, <1>3, <1>4, <1>6, FS_CardinalityType

LEMMA BlanksAreForms == Blanks \in SUBSET Forms
<1>1. NewLine \in Lines BY DEF NewLine, Lines
<1>2. <<NewLine>> \in Seq(Lines) /\ Len(<<NewLine>>) = 1 BY <1>1
<1>3. ASSUME NEW blank \in Blanks PROVE blank \in Forms
  <2>1. PICK first \in Days, last \in Days :
            blank = [lines |-> <<NewLine>>, starts |-> first, ends |-> last]
      BY <1>3 DEF Blanks
  <2>2. blank \in [lines: Seq(Lines), starts: Days, ends: Days] /\ blank.lines = <<NewLine>>
      BY <1>2, <2>1
  <2>3. 1 \in 1 .. MaxLines OBVIOUS
  <2>4. QED BY <1>2, <2>2, <2>3 DEF Forms
<1>4. QED BY <1>3

LEMMA FormInitInv == FormInit => FormInv
<1> SUFFICES ASSUME FormInit PROVE FormInv
    OBVIOUS
<1>1. /\ form \in Blanks /\ screen = "editing" /\ request = <<>>
      /\ visit.first = 1 /\ visit.losses = 0 /\ visit = [first |-> 1, losses |-> 0]
    BY DEF FormInit
<1>2. request \in Seq(FormRequests) /\ Len(request) = 0 /\ DOMAIN request = {} BY <1>1
<1>3. visit \in [first: 1 .. Len(request) + 1, losses: 0 .. Len(request)] BY <1>1, <1>2
<1>4. FormTypes BY <1>1, <1>2, <1>3, BlanksAreForms DEF FormTypes
<1>5. Unrefused = {} BY <1>1, <1>2 DEF Unrefused
<1>6. LossesAreCounted BY <1>1, <1>5, FS_EmptySet DEF LossesAreCounted
<1>7. SendingIsNotLost /\ SentIsShown BY <1>1 DEF SendingIsNotLost, SentIsShown
<1>8. RefusedIsWorthless BY <1>2 DEF RefusedIsWorthless
<1>9. touched \in BOOLEAN BY DEF FormInit
<1>10. QED BY <1>4, <1>6, <1>7, <1>8, <1>9 DEF FormInv

-----------------------------------------------------------------------------
(* The fields.                                                              *)
LEMMA EditKeeps ==
    ASSUME FormInv, NEW changed \in Forms, Edit(changed) PROVE FormInv'
<1>1. /\ screen # "submitted" /\ form' = changed /\ UNCHANGED <<screen, request, visit>>
    BY DEF Edit
<1>2. FormTypes' BY <1>1 DEF FormInv, FormTypes
<1>3. touched' \in BOOLEAN BY DEF Edit, FormInv
<1>4. Unrefused' = Unrefused BY <1>1 DEF Unrefused
<1>5. LossesAreCounted' /\ SendingIsNotLost' /\ RefusedIsWorthless'
    BY <1>1, <1>4 DEF FormInv, LossesAreCounted, SendingIsNotLost, RefusedIsWorthless
<1>6. screen = "sending" => touched' BY DEF Edit
<1>7. SentIsShown' BY <1>1, <1>6 DEF SentIsShown, FormInv, FormTypes
<1>8. QED BY <1>2, <1>3, <1>5, <1>7 DEF FormInv

LEMMA LinesOfForm ==
    ASSUME FormTypes, NEW lines \in Seq(Lines), Len(lines) \in 1 .. MaxLines
    PROVE  [form EXCEPT !.lines = lines] \in Forms
BY DEF FormTypes, Forms

LEMMA FieldsKeep ==
    ASSUME FormInv, AddLine \/ SetPeriod \/ \E n \in DOMAIN form.lines : RemoveLine(n) \/ UpdateLine(n)
    PROVE  FormInv'
<1> DEFINE lines == form.lines
<1>1. /\ FormTypes /\ lines \in Seq(Lines) /\ Len(lines) \in 1 .. MaxLines
      /\ DOMAIN lines = 1 .. Len(lines) /\ form \in Forms
    BY FormParts DEF FormInv, FormTypes
<1>2. CASE AddLine
  <2>1. NewLine \in Lines BY DEF NewLine, Lines
  <2>2. Append(lines, NewLine) \in Seq(Lines) /\ Len(Append(lines, NewLine)) = Len(lines) + 1
      BY <1>1, <2>1, AppendProperties
  <2>3. Len(lines) < MaxLines /\ Edit([form EXCEPT !.lines = Append(lines, NewLine)])
      BY <1>2 DEF AddLine
  <2>4. Len(Append(lines, NewLine)) \in 1 .. MaxLines BY <1>1, <2>2, <2>3
  <2>5. QED BY <1>1, <2>2, <2>3, <2>4, LinesOfForm, EditKeeps
<1>3. CASE SetPeriod
  <2>1. PICK day \in Days : Edit([form EXCEPT !.starts = day]) \/ Edit([form EXCEPT !.ends = day])
      BY <1>3 DEF SetPeriod
  <2>2. [form EXCEPT !.starts = day] \in Forms /\ [form EXCEPT !.ends = day] \in Forms
      BY <1>1 DEF Forms
  <2>3. QED BY <2>1, <2>2, EditKeeps
<1>4. ASSUME NEW n \in DOMAIN lines, RemoveLine(n) PROVE FormInv'
  <2> DEFINE front == SubSeq(lines, 1, n - 1)
             back == SubSeq(lines, n + 1, Len(lines))
  <2>1. Len(lines) > 1 /\ Edit([form EXCEPT !.lines = front \o back])
      BY <1>4 DEF RemoveLine, RemoveAt
  <2>2. n \in 1 .. Len(lines) /\ n - 1 \in Int /\ n + 1 \in Int /\ Len(lines) \in Int BY <1>1, <1>4
  <2>3. /\ \A i \in 1 .. n - 1 : lines[i] \in Lines
        /\ \A i \in n + 1 .. Len(lines) : lines[i] \in Lines
      BY <1>1, <2>2, ElementOfSeq
  <2>4. /\ front \in Seq(Lines) /\ Len(front) = (IF 1 <= n - 1 THEN n - 1 - 1 + 1 ELSE 0)
        /\ back \in Seq(Lines)
        /\ Len(back) = (IF n + 1 <= Len(lines) THEN Len(lines) - (n + 1) + 1 ELSE 0)
      BY <2>2, <2>3, SubSeqProperties
  <2> HIDE DEF front, back
  <2>5. Len(front) = n - 1 /\ Len(back) = Len(lines) - n BY <2>2, <2>4
  <2>6. front \o back \in Seq(Lines) /\ Len(front \o back) = Len(front) + Len(back)
      BY <2>4, ConcatProperties
  <2>7. Len(front \o back) \in 1 .. MaxLines
    <3>1. Len(front \o back) = Len(lines) - 1 BY <2>2, <2>5, <2>6
    <3>2. Len(lines) > 1 /\ Len(lines) \in 1 .. MaxLines BY <1>1, <2>1
    <3>3. QED BY <3>1, <3>2
  <2>8. QED BY <1>1, <2>1, <2>6, <2>7, LinesOfForm, EditKeeps
<1>5. ASSUME NEW n \in DOMAIN lines, UpdateLine(n) PROVE FormInv'
  <2>1. lines[n] \in Lines BY <1>1, <1>5, ElementOfSeq
  <2>2. ASSUME NEW line \in Lines PROVE [form EXCEPT !.lines = [lines EXCEPT ![n] = line]] \in Forms
    <3>1. /\ [lines EXCEPT ![n] = line] \in Seq(Lines)
          /\ Len([lines EXCEPT ![n] = line]) = Len(lines)
        BY <1>1, <1>5, ExceptSeq
    <3>2. QED BY <1>1, <3>1, LinesOfForm
  <2>3. CASE \E quantity \in Quantities : Edit([form EXCEPT !.lines[n].quantity = quantity])
    <3>1. PICK quantity \in Quantities : Edit([form EXCEPT !.lines[n].quantity = quantity]) BY <2>3
    <3>2. [lines[n] EXCEPT !.quantity = quantity] \in Lines BY <2>1 DEF Lines
    <3>3. [form EXCEPT !.lines[n].quantity = quantity]
              = [form EXCEPT !.lines = [lines EXCEPT ![n] = [lines[n] EXCEPT !.quantity = quantity]]]
        OBVIOUS
    <3>4. QED BY <2>2, <3>1, <3>2, <3>3, EditKeeps
  <2>4. CASE \E price \in Prices : Edit([form EXCEPT !.lines[n].price = price])
    <3>1. PICK price \in Prices : Edit([form EXCEPT !.lines[n].price = price]) BY <2>4
    <3>2. [lines[n] EXCEPT !.price = price] \in Lines BY <2>1 DEF Lines
    <3>3. [form EXCEPT !.lines[n].price = price]
              = [form EXCEPT !.lines = [lines EXCEPT ![n] = [lines[n] EXCEPT !.price = price]]]
        OBVIOUS
    <3>4. QED BY <2>2, <3>1, <3>2, <3>3, EditKeeps
  <2>5. QED BY <1>5, <2>3, <2>4 DEF UpdateLine
<1>6. QED BY <1>2, <1>3, <1>4, <1>5

-----------------------------------------------------------------------------
(* Sending and answers.                                                     *)
LEMMA SubmitKeeps ==
    ASSUME FormInv, Submit PROVE FormInv'
<1>1. /\ screen = "editing" /\ Validate(form) /\ Len(request) < MaxSubmissions
      /\ screen' = "sending" /\ touched' = FALSE
      /\ UNCHANGED <<form, visit>>
    BY DEF Submit, ReadyToSend
<1>2. PICK payload \in Payloads(form) :
           request' = Append(request, [at |-> "sent", payload |-> payload])
    BY DEF Submit
<1> DEFINE sent == [at |-> "sent", payload |-> payload]
           last == Len(request) + 1
<1>3. FormTypes BY DEF FormInv
<1>4. /\ sent \in FormRequests /\ sent.at = "sent"
      /\ FormAmount(sent) \in ToFixed(ComputedTotal(form.lines))
  <2>1. payload \in Submitted BY <1>1, <1>3 DEF FormTypes, Submitted
  <2>2. payload.amount \in ToFixed(ComputedTotal(form.lines)) BY DEF Payloads
  <2> HIDE DEF FormInv
  <2>3. QED BY <2>1, <2>2 DEF FormRequests, FormAmount
<1>5. request' = Append(request, sent) BY <1>2
<1> HIDE DEF sent
<1>6. /\ request' \in Seq(FormRequests) /\ Len(request') = last
      /\ \A n \in 1 .. Len(request) : request'[n] = request[n]
      /\ request'[last] = sent
    BY <1>5, <1>3, <1>4, AppendProperties DEF FormTypes
<1>7. /\ Len(request) \in Nat /\ DOMAIN request = 1 .. Len(request) /\ DOMAIN request' = 1 .. last
      /\ visit.first \in 1 .. last /\ visit.losses \in 0 .. Len(request) /\ MaxSubmissions \in Nat
      /\ visit \in [first: 1 .. Len(request) + 1, losses: 0 .. Len(request)]
    BY <1>3, <1>6, FormParts DEF FormTypes
<1>8. visit' \in [first: 1 .. Len(request') + 1, losses: 0 .. Len(request')]
    BY <1>1, <1>6, <1>7
<1>9. FormTypes' BY <1>1, <1>3, <1>6, <1>7, <1>8 DEF FormTypes
<1>10. Unrefused' \ {last} = Unrefused
    BY <1>1, <1>6, <1>7 DEF Unrefused
<1>11. LossesAreCounted' BY <1>1, <1>6, <1>10 DEF FormInv, LossesAreCounted
<1>12. SendingIsNotLost' BY <1>1, <1>6, <1>7 DEF SendingIsNotLost
<1>13. SentIsShown' BY <1>1, <1>4, <1>6 DEF SentIsShown
<1>14. RefusedIsWorthless'
    BY <1>4, <1>6, <1>7 DEF FormInv, RefusedIsWorthless
<1>15. touched' \in BOOLEAN BY <1>1
<1>16. QED BY <1>9, <1>11, <1>12, <1>13, <1>14, <1>15 DEF FormInv

(* What the route makes of a request has its amount, and refuses it only    *)
(* when that is nothing.                                                    *)
LEMMA ServeFormKeeps ==
    ASSUME FormInv, NEW n \in DOMAIN request, ServeForm(n) PROVE FormInv'
<1> DEFINE payload == request[n].payload
           row == [at |-> IF ValidForm(payload) THEN "created" ELSE "refused", amount |-> payload.amount]
<1>1. /\ request[n].at = "sent" /\ request' = [request EXCEPT ![n] = row]
      /\ UNCHANGED <<form, screen, touched, visit>>
    BY DEF ServeForm
<1>2. FormTypes BY DEF FormInv
<1>3. /\ Len(request) \in Nat /\ n \in 1 .. Len(request) /\ DOMAIN request = 1 .. Len(request)
      /\ request[n] \in FormRequests
    BY <1>2, FormParts
<1>4. payload \in Submitted BY <1>1, <1>3 DEF FormRequests
<1>5. /\ payload.amount \in Int
      /\ row \in FormRequests /\ row.at \in {"created", "refused"} /\ row.amount = payload.amount
      /\ row.at = "refused" => row.amount = 0
    BY <1>4, PayloadIsAccepted DEF FormRequests
<1>6. FormAmount(row) = FormAmount(request[n]) BY <1>1, <1>5 DEF FormAmount
<1> HIDE DEF row
<1>7. /\ request' \in Seq(FormRequests) /\ Len(request') = Len(request)
      /\ \A m \in 1 .. Len(request) : request'[m] = IF m = n THEN row ELSE request[m]
    BY <1>1, <1>2, <1>3, <1>5, ExceptSeq DEF FormTypes
<1>8. DOMAIN request' = 1 .. Len(request) BY <1>3, <1>7
<1>9. FormTypes' BY <1>1, <1>2, <1>7 DEF FormTypes
<1>10. Unrefused' \subseteq Unrefused
    BY <1>1, <1>2, <1>3, <1>7, FormParts DEF Unrefused
<1>11. LossesAreCounted'
  <2>1. IsFiniteSet(Unrefused) BY <1>2, FormParts
  <2>2. /\ IsFiniteSet(Unrefused \ {Len(request)}) /\ Unrefused' \ {Len(request)} \subseteq Unrefused \ {Len(request)}
      BY <1>10, <2>1, FS_Subset
  <2>3. /\ Cardinality(Unrefused') <= Cardinality(Unrefused)
        /\ Cardinality(Unrefused' \ {Len(request)}) <= Cardinality(Unrefused \ {Len(request)})
        /\ Cardinality(Unrefused) \in Nat /\ Cardinality(Unrefused \ {Len(request)}) \in Nat
        /\ Cardinality(Unrefused') \in Nat /\ Cardinality(Unrefused' \ {Len(request)}) \in Nat
      BY <1>10, <2>1, <2>2, FS_Subset, FS_CardinalityType
  <2>4. visit.losses \in Nat BY <1>2, FormParts
  <2>5. IF screen = "editing" THEN Cardinality(Unrefused) <= visit.losses
        ELSE Cardinality(Unrefused \ {Len(request)}) <= visit.losses
      BY DEF FormInv, LossesAreCounted
  <2>6. IF screen = "editing" THEN Cardinality(Unrefused') <= visit.losses
        ELSE Cardinality(Unrefused' \ {Len(request)}) <= visit.losses
      BY <2>3, <2>4, <2>5
  <2>7. QED BY <1>1, <1>7, <2>6 DEF LossesAreCounted
<1>12. SendingIsNotLost' /\ SentIsShown'
  <2>1. screen # "editing" => Len(request) \in 1 .. Len(request)
      BY <1>2, <1>3, FormParts DEF FormInv, SendingIsNotLost
  <2>2. screen # "editing" => FormAmount(request'[Len(request)]) = FormAmount(request[Len(request)])
      BY <1>6, <1>7, <2>1
  <2>3. screen = "submitted" => request'[Len(request)].at = "created"
      BY <1>1, <1>7, <2>1 DEF FormInv, SendingIsNotLost
  <2>4. SendingIsNotLost' BY <1>1, <1>7, <2>3 DEF FormInv, SendingIsNotLost
  <2>5. SentIsShown' BY <1>1, <1>7, <2>2 DEF FormInv, SentIsShown
  <2>6. QED BY <2>4, <2>5
<1>13. RefusedIsWorthless' BY <1>3, <1>5, <1>7, <1>8 DEF FormInv, RefusedIsWorthless
<1>14. touched' \in BOOLEAN BY <1>1 DEF FormInv
<1>15. QED BY <1>9, <1>11, <1>12, <1>13, <1>14 DEF FormInv

LEMMA AnswerFormKeeps ==
    ASSUME FormInv, AnswerForm PROVE FormInv'
<1>1. /\ screen = "sending" /\ UNCHANGED <<form, touched, request, visit>>
      /\ \/ request[Len(request)].at = "created" /\ screen' = "submitted"
         \/ request[Len(request)].at = "refused" /\ screen' = "editing"
    BY DEF AnswerForm, Last
<1>2. FormTypes' /\ touched' \in BOOLEAN /\ RefusedIsWorthless'
    BY <1>1 DEF FormInv, FormTypes, RefusedIsWorthless
<1>3. Unrefused' = Unrefused BY <1>1 DEF Unrefused
<1>4. request[Len(request)].at = "refused" => Unrefused \ {Len(request)} = Unrefused BY DEF Unrefused
<1>5. LossesAreCounted' BY <1>1, <1>3, <1>4 DEF FormInv, LossesAreCounted
<1>6. SendingIsNotLost' /\ SentIsShown' BY <1>1 DEF FormInv, SendingIsNotLost, SentIsShown
<1>7. QED BY <1>2, <1>5, <1>6 DEF FormInv

LEMMA LoseFormKeeps ==
    ASSUME FormInv, LoseForm PROVE FormInv'
<1>1. /\ screen = "sending" /\ screen' = "editing" /\ UNCHANGED <<form, touched, request>>
      /\ visit' = [visit EXCEPT !.losses = visit.losses + 1]
    BY DEF LoseForm
<1>2. FormTypes BY DEF FormInv
<1>3. /\ Len(request) \in Nat /\ visit \in [first: 1 .. Len(request) + 1, losses: 0 .. Len(request)]
      /\ visit.losses < Len(request) /\ IsFiniteSet(Unrefused) /\ Cardinality(Unrefused) \in Nat
    BY <1>1, <1>2, FormParts DEF FormTypes, FormInv, SendingIsNotLost
<1>4. /\ visit' \in [first: 1 .. Len(request) + 1, losses: 0 .. Len(request)]
      /\ visit'.first = visit.first /\ visit'.losses = visit.losses + 1
    BY <1>1, <1>3
<1>5. FormTypes' /\ touched' \in BOOLEAN /\ RefusedIsWorthless'
    BY <1>1, <1>2, <1>4 DEF FormInv, FormTypes, RefusedIsWorthless
<1>6. Unrefused' = Unrefused BY <1>1, <1>4 DEF Unrefused
<1>7. Cardinality(Unrefused) <= Cardinality(Unrefused \ {Len(request)}) + 1 BY <1>3, DropsOne
<1>8. Cardinality(Unrefused \ {Len(request)}) <= visit.losses
      /\ Cardinality(Unrefused \ {Len(request)}) \in Nat /\ visit.losses \in Nat
  <2>1. Cardinality(Unrefused \ {Len(request)}) <= visit.losses BY <1>1 DEF FormInv, LossesAreCounted
  <2>2. Cardinality(Unrefused \ {Len(request)}) \in Nat BY <1>3, DropsOne
  <2>3. visit.losses \in Nat BY <1>2, FormParts
  <2>4. QED BY <2>1, <2>2, <2>3
<1>9. Cardinality(Unrefused) <= visit.losses + 1 BY <1>3, <1>7, <1>8
<1>10. LossesAreCounted' BY <1>1, <1>4, <1>6, <1>9 DEF LossesAreCounted
<1>11. SendingIsNotLost' /\ SentIsShown' BY <1>1 DEF SendingIsNotLost, SentIsShown
<1>12. QED BY <1>5, <1>10, <1>11 DEF FormInv

LEMMA VisitFormKeeps ==
    ASSUME FormInv, VisitForm PROVE FormInv'
<1>1. /\ form' \in Forms /\ screen' = "editing" /\ touched' = FALSE /\ UNCHANGED request
      /\ visit' = [first |-> Len(request) + 1, losses |-> 0]
    BY BlanksAreForms DEF VisitForm
<1>2. FormTypes /\ Len(request) \in Nat BY FormParts DEF FormInv
<1>3. FormTypes' /\ RefusedIsWorthless' BY <1>1, <1>2 DEF FormInv, FormTypes, RefusedIsWorthless
<1>4. Unrefused' = {} BY <1>1, <1>2 DEF Unrefused
<1>5. LossesAreCounted' BY <1>1, <1>4, FS_EmptySet DEF LossesAreCounted
<1>6. SendingIsNotLost' /\ SentIsShown' BY <1>1 DEF SendingIsNotLost, SentIsShown
<1>7. touched' \in BOOLEAN BY <1>1
<1>8. QED BY <1>3, <1>5, <1>6, <1>7 DEF FormInv

LEMMA FormStep == FormInv /\ [FormNext]_formVars => FormInv'
<1> SUFFICES ASSUME FormInv, [FormNext]_formVars PROVE FormInv'
    OBVIOUS
<1>1. CASE UNCHANGED formVars
  <2>1. Unrefused' = Unrefused BY <1>1 DEF formVars, Unrefused
  <2>2. QED BY <1>1, <2>1 DEF formVars, FormInv, FormTypes, LossesAreCounted, SendingIsNotLost,
                               SentIsShown, RefusedIsWorthless
<1>2. QED BY <1>1, FieldsKeep, SubmitKeeps, ServeFormKeeps, AnswerFormKeeps, LoseFormKeeps,
             VisitFormKeeps DEF FormNext

(* For any quantities, prices and days, any number of lines and requests:   *)
(* the route refuses nothing that the page let through, but what comes to   *)
(* half a cent at most; the page sends the same work again only after an    *)
(* answer was lost; and what it shows as submitted was stored, to the cent  *)
(* unless the total stands in the middle between two, and then within one   *)
(* (contractor/invoices/new/page.tsx).                                      *)
THEOREM FormStaysSound == FormSpec => []FormIsSound
<1>1. FormInv => FormIsSound
  <2> SUFFICES ASSUME FormInv PROVE FormIsSound
      OBVIOUS
  <2>1. FormTypes BY DEF FormInv
  <2>2. FormTypeOK BY <2>1, FormParts DEF FormTypeOK, FormInv, FormTypes
  <2>3. TwiceOnlyAfterLoss
    <3> DEFINE ofVisit == {n \in visit.first .. Len(request) : request[n].at = "created"}
               rest == Unrefused \ {Len(request)}
    <3>1. ofVisit \subseteq Unrefused /\ IsFiniteSet(Unrefused) /\ Cardinality(Unrefused) \in Nat
        BY <2>1, FormParts DEF Unrefused
    <3>2. IsFiniteSet(ofVisit) /\ Cardinality(ofVisit) <= Cardinality(Unrefused)
          /\ Cardinality(ofVisit) \in Nat
        BY <3>1, FS_Subset, FS_CardinalityType
    <3>3. Cardinality(rest) \in Nat /\ Cardinality(Unrefused) <= Cardinality(rest) + 1
        BY <3>1, DropsOne
    <3>5. visit.losses \in Nat BY <2>1, FormParts
    <3>6. IF screen = "editing" THEN Cardinality(Unrefused) <= visit.losses
          ELSE Cardinality(rest) <= visit.losses
        BY DEF FormInv, LossesAreCounted
    <3> HIDE DEF ofVisit, rest
    <3>7. Cardinality(ofVisit) <= 1 + visit.losses BY <3>1, <3>2, <3>3, <3>5, <3>6
    <3>8. QED BY <3>7 DEF TwiceOnlyAfterLoss, ofVisit
  <2>4. ShownIsStored
    <3> DEFINE total == ComputedTotal(form.lines)
    <3> SUFFICES ASSUME screen = "submitted", ~touched, NEW shown \in FormatUsdc(total),
                        shown # request[Len(request)].amount
                 PROVE  InTheMiddle(total) /\ shown - request[Len(request)].amount \in {-Cent, Cent}
        BY DEF ShownIsStored, Last
    <3>1. request[Len(request)].at = "created" BY DEF FormInv, SendingIsNotLost
    <3>2. request[Len(request)].amount \in Nearest(total)
        BY <3>1 DEF FormInv, SentIsShown, FormAmount, ToFixed
    <3>3. total \in Int BY <2>1, FormParts, TotalIsInt
    <3>4. shown \in Nearest(total) BY DEF FormatUsdc
    <3> HIDE DEF total
    <3>5. QED BY <3>2, <3>3, <3>4, NeighboursAreCents
  <2>5. RefusedIsWorthless BY DEF FormInv
  <2>6. QED BY <2>2, <2>3, <2>4, <2>5 DEF FormIsSound
<1>2. QED BY <1>1, FormInitInv, FormStep, PTL DEF FormSpec

HIDE InvoiceFormAssumption

-----------------------------------------------------------------------------
(***************************************************************************)
(* The dashboard, for any invoices and clicks.                             *)
(***************************************************************************)
USE DashboardAssumption

ListRows == [known: BOOLEAN, data: Listings, valid: BOOLEAN]
AskRows == [at: {"no", "sent", "answered"}, tries: 0 .. 2, data: Listings]
ClickRows == [kind: {"approve", "reject", "pay"}, of: SUBSET Bills,
              at: {"sent", "read", "done", "refused"}]

Announced == {"APPROVED", "REJECTED", "PAID"}

(* Before the first list is shown nothing is offered.                       *)
NothingIsOffered ==
    ~list.known => /\ list.data = Unlisted /\ ~list.valid /\ dialog = NoInvoice
                   /\ said = {} /\ \A c \in Clicks : click[c] = NoClick

Agreed(i, what) == i \notin overwritten => Agrees(status[i], what)

(* What a route has done is so, and what it has read to pay was approved.   *)
DoneIsTrue ==
    \A c \in Clicks : \A i \in click[c].of :
        /\ click[c].at = "done" => Agreed(i, Announcement(click[c].kind))
        /\ click[c].at = "read" /\ click[c].kind = "pay" => Agreed(i, "APPROVED")

(* An answer on its way was read after everything that was announced.       *)
AnswersAreNew == asking.at = "answered" => AllAgree(asking.data)

DashboardTypes ==
    /\ status \in [Bills -> InvoiceStatuses]
    /\ list \in ListRows /\ asking \in AskRows
    /\ dialog \in Bills \cup {NoInvoice}
    /\ click \in [Clicks -> {NoClick} \cup ClickRows]
    /\ said \in SUBSET (Bills \X Announced)
    /\ overwritten \in SUBSET Bills

DashboardInv ==
    /\ DashboardTypes /\ NothingIsOffered /\ DoneIsTrue /\ AnswersAreNew
    /\ AnnouncedIsListed /\ AnnouncedIsTrue

-----------------------------------------------------------------------------
LEMMA Asks ==
    /\ Unlisted \in Listings /\ NotAsking \in AskRows /\ AskFor \in AskRows
    /\ [AskFor EXCEPT !.tries = 2] \in AskRows
    /\ NotAsking.at = "no" /\ AskFor.at = "sent" /\ [AskFor EXCEPT !.tries = 2].at = "sent"
BY DEF Unlisted, Listings, NotAsking, AskFor, AskRows

LEMMA DashboardInitInv == DashboardInit => DashboardInv
<1> SUFFICES ASSUME DashboardInit PROVE DashboardInv
    OBVIOUS
<1>1. DashboardTypes
    BY Asks DEF DashboardInit, DashboardTypes, InvoiceStatuses, ListRows
<1>2. \A c \in Clicks : click[c] = NoClick BY DEF DashboardInit
<1>3. NothingIsOffered BY <1>2 DEF DashboardInit, NothingIsOffered
<1>4. DoneIsTrue BY <1>2 DEF DoneIsTrue, NoClick
<1>5. AnswersAreNew /\ AnnouncedIsListed /\ AnnouncedIsTrue
    BY DEF DashboardInit, AnswersAreNew, AnnouncedIsListed, AnnouncedIsTrue, AllAgree, AskFor
<1>6. QED BY <1>1, <1>3, <1>4, <1>5 DEF DashboardInv

-----------------------------------------------------------------------------
(* The query.  A fetch is answered with the rows as they are.               *)
LEMMA QueryKeeps ==
    ASSUME DashboardInv, UNCHANGED <<status, overwritten, dialog, click, said>>,
           list' \in ListRows, asking' \in AskRows,
           ~list'.known => ~list.known /\ list'.data = list.data /\ ~list'.valid,
           asking'.at = "answered" => asking' = asking \/ \A i \in Bills : asking'.data[i] \in {status[i], "unlisted"},
           list'.valid => \/ asking.at = "answered" /\ list'.data = asking.data
                          \/ list' = list
    PROVE  DashboardInv'
<1>1. DashboardTypes' BY DEF DashboardInv, DashboardTypes
<1>2. NothingIsOffered' BY DEF DashboardInv, NothingIsOffered
<1>3. DoneIsTrue' BY DEF DashboardInv, DoneIsTrue, Agreed
<1>4. AnnouncedIsTrue' BY DEF DashboardInv, AnnouncedIsTrue, AllAgree
<1>5. AnnouncedIsListed' BY DEF DashboardInv, AnnouncedIsListed, AnswersAreNew, AllAgree
<1>6. AnswersAreNew'
  <2>1. SUFFICES ASSUME asking'.at = "answered", NEW i \in Bills, NEW what \in InvoiceStatuses,
                        <<i, what>> \in said, i \notin overwritten
                 PROVE  Agrees(asking'.data[i], what)
      BY DEF AnswersAreNew, AllAgree
  <2>2. Agrees(status[i], what) BY <2>1 DEF DashboardInv, AnnouncedIsTrue, AllAgree
  <2>3. CASE asking' = asking BY <2>1, <2>3 DEF DashboardInv, AnswersAreNew, AllAgree
  <2>4. CASE asking'.data[i] \in {status[i], "unlisted"} BY <2>2, <2>4 DEF Agrees
  <2>5. QED BY <2>1, <2>3, <2>4
<1>7. QED BY <1>1, <1>2, <1>3, <1>4, <1>5, <1>6 DEF DashboardInv

LEMMA FetchesKeep ==
    ASSUME DashboardInv, Refocus \/ Refresh \/ ServeList \/ ShowList \/ FailList
    PROVE  DashboardInv'
<1>1. UNCHANGED <<status, overwritten, dialog, click, said>>
    BY DEF Refocus, Refresh, ServeList, ShowList, FailList, serverVars
<1>2. list \in ListRows /\ asking \in AskRows BY DEF DashboardInv, DashboardTypes
<1>3. CASE Refocus \/ FailList
  <2>1. UNCHANGED list /\ asking' \in {AskFor, NotAsking, [AskFor EXCEPT !.tries = 2]}
      BY <1>3 DEF Refocus, FailList
  <2>2. asking' \in AskRows /\ asking'.at # "answered" BY <2>1, Asks
  <2>3. ~list.known => ~list.valid BY DEF DashboardInv, NothingIsOffered
  <2>4. QED BY <1>1, <1>2, <2>1, <2>2, <2>3, QueryKeeps
<1>4. CASE Refresh
  <2>1. list' = [list EXCEPT !.valid = FALSE] /\ asking' \in {asking, AskFor}
      BY <1>4 DEF Refresh, Invalidate
  <2>2. list' \in ListRows /\ list'.known = list.known /\ list'.data = list.data /\ ~list'.valid
      BY <1>2, <2>1 DEF ListRows
  <2>3. asking' \in AskRows /\ (asking'.at = "answered" => asking' = asking) BY <1>2, <2>1, Asks
  <2>4. QED BY <1>1, <2>2, <2>3, QueryKeeps
<1>5. CASE ServeList
  <2>1. PICK pg \in SUBSET Bills : asking' = [asking EXCEPT !.at = "answered", !.data = Shown(pg)]
      BY <1>5 DEF ServeList
  <2>2. UNCHANGED list BY <1>5 DEF ServeList
  <2>3. /\ Shown(pg) \in Listings
        /\ \A i \in Bills : Shown(pg)[i] \in {status[i], "unlisted"}
      BY DEF Shown, Listings, DashboardInv, DashboardTypes
  <2>4. asking' \in AskRows /\ asking'.data = Shown(pg) BY <1>2, <2>1, <2>3 DEF AskRows
  <2>5. ~list.known => ~list.valid BY DEF DashboardInv, NothingIsOffered
  <2>6. QED BY <1>1, <1>2, <2>2, <2>3, <2>4, <2>5, QueryKeeps
<1>6. CASE ShowList
  <2>1. /\ asking.at = "answered" /\ asking' = NotAsking
        /\ list' = [known |-> TRUE, data |-> asking.data, valid |-> TRUE]
      BY <1>6 DEF ShowList
  <2>2. list' \in ListRows /\ list'.known /\ list'.data = asking.data
      BY <1>2, <2>1 DEF ListRows, AskRows
  <2>3. asking' \in AskRows /\ asking'.at # "answered" BY <2>1, Asks
  <2>4. QED BY <1>1, <2>1, <2>2, <2>3, QueryKeeps
<1>7. QED BY <1>3, <1>4, <1>5, <1>6

-----------------------------------------------------------------------------
(* A click or the dialog, which only a list that was shown offers.          *)
LEMMA OfferKeeps ==
    ASSUME DashboardInv, UNCHANGED <<status, overwritten, list, asking, said>>, list.known,
           dialog' \in Bills \cup {NoInvoice},
           click' \in [Clicks -> {NoClick} \cup ClickRows],
           \A c \in Clicks : click'[c] = click[c] \/ click'[c].at \in {"idle", "sent", "refused"}
    PROVE  DashboardInv'
<1>1. DashboardTypes' BY DEF DashboardInv, DashboardTypes
<1>2. NothingIsOffered' BY DEF NothingIsOffered
<1>3. DoneIsTrue' BY DEF DashboardInv, DoneIsTrue, Agreed
<1>4. AnswersAreNew' /\ AnnouncedIsListed' /\ AnnouncedIsTrue'
    BY DEF DashboardInv, AnswersAreNew, AnnouncedIsListed, AnnouncedIsTrue, AllAgree
<1>5. QED BY <1>1, <1>2, <1>3, <1>4 DEF DashboardInv

LEMMA Offered ==
    ASSUME DashboardInv
    PROVE  /\ \A i \in Bills : list.data[i] # "unlisted" => list.known
           /\ dialog # NoInvoice => list.known
           /\ \A c \in Clicks : click[c] # NoClick => list.known
<1>1. \A i \in Bills : Unlisted[i] = "unlisted" BY DEF Unlisted
<1>2. QED BY <1>1 DEF DashboardInv, NothingIsOffered

LEMMA ClickedKeeps ==
    ASSUME DashboardInv, NEW c \in Clicks, NEW kind \in {"approve", "reject", "pay"},
           NEW of \in SUBSET Bills, Clicked(c, kind, of), list.known
    PROVE  DashboardInv'
<1> DEFINE row == [kind |-> kind, of |-> of, at |-> "sent"]
<1>1. click' = [click EXCEPT ![c] = row] /\ UNCHANGED <<status, overwritten, list, asking, dialog, said>>
    BY DEF Clicked, serverVars, pageVars
<1>2. row \in ClickRows /\ row.at = "sent" BY DEF ClickRows
<1> HIDE DEF row
<1>3. click' \in [Clicks -> {NoClick} \cup ClickRows] /\ dialog' \in Bills \cup {NoInvoice}
    BY <1>1, <1>2 DEF DashboardInv, DashboardTypes
<1>4. \A d \in Clicks : click'[d] = IF d = c THEN row ELSE click[d]
    BY <1>1 DEF DashboardInv, DashboardTypes
<1>5. QED BY <1>1, <1>2, <1>3, <1>4, OfferKeeps

LEMMA OffersKeep ==
    ASSUME DashboardInv, \/ CloseReject \/ \E i \in Bills : OpenReject(i)
                         \/ \E c \in Clicks : Reject(c) \/ ExecutePayouts(c) \/ \E i \in Bills : Approve(c, i)
    PROVE  DashboardInv'
<1>1. click \in [Clicks -> {NoClick} \cup ClickRows] /\ dialog \in Bills \cup {NoInvoice}
    BY DEF DashboardInv, DashboardTypes
<1>2. CASE CloseReject \/ \E i \in Bills : OpenReject(i)
  <2>1. list.known /\ dialog' \in Bills \cup {NoInvoice}
      BY <1>2, Offered DEF CloseReject, OpenReject
  <2>2. UNCHANGED <<status, overwritten, list, asking, said, click>>
      BY <1>2 DEF CloseReject, OpenReject, serverVars
  <2>3. QED BY <1>1, <2>1, <2>2, OfferKeeps
<1>3. ASSUME NEW c \in Clicks, NEW i \in Bills, Approve(c, i) PROVE DashboardInv'
    BY <1>3, Offered, ClickedKeeps DEF Approve
<1>4. ASSUME NEW c \in Clicks, Reject(c) PROVE DashboardInv'
    BY <1>1, <1>4, Offered, ClickedKeeps DEF Reject
<1>5. ASSUME NEW c \in Clicks, ExecutePayouts(c) PROVE DashboardInv'
  <2>1. PICK i \in Bills : list.data[i] = "APPROVED" BY <1>5 DEF ExecutePayouts, PayoutQueue
  <2>2. PayoutQueue \in SUBSET Bills BY DEF PayoutQueue
  <2>3. QED BY <1>5, <2>1, <2>2, Offered, ClickedKeeps DEF ExecutePayouts
<1>6. QED BY <1>2, <1>3, <1>4, <1>5

-----------------------------------------------------------------------------
(* A decision or a payment: what was announced or done of an invoice stays  *)
(* so, unless the decision writes over another.                             *)
LEMMA StatusKeeps ==
    ASSUME DashboardInv, UNCHANGED <<list, asking, said>>,
           dialog' = dialog,
           status' \in [Bills -> InvoiceStatuses], overwritten' \in SUBSET Bills,
           overwritten \subseteq overwritten',
           \A i \in Bills : i \notin overwritten' /\ status[i] # "PENDING" =>
               \/ status'[i] = status[i]
               \/ status[i] = "APPROVED" /\ status'[i] = "PAID",
           click' \in [Clicks -> {NoClick} \cup ClickRows],
           \A c \in Clicks : click'[c] # click[c] =>
               /\ click[c] # NoClick
               /\ click'[c].at = "done" =>
                      \A i \in click'[c].of :
                          i \notin overwritten' => Agrees(status'[i], Announcement(click'[c].kind))
               /\ click'[c].at = "read" /\ click'[c].kind = "pay" =>
                      \A i \in click'[c].of : Agreed(i, "APPROVED")'
    PROVE  DashboardInv'
<1>1. DashboardTypes' BY DEF DashboardInv, DashboardTypes
<1>2. NothingIsOffered' BY DEF DashboardInv, NothingIsOffered
<1>3. \A i \in Bills : \A what \in Announced : Agreed(i, what) => Agreed(i, what)'
    BY DEF Agreed, Agrees, Announced, DashboardInv, DashboardTypes, InvoiceStatuses
<1>4. \A kind \in {"approve", "reject", "pay"} : Announcement(kind) \in Announced
    BY DEF Announcement, Announced
<1>5. DoneIsTrue'
  <2> SUFFICES ASSUME NEW c \in Clicks, NEW i \in click'[c].of
               PROVE  /\ click'[c].at = "done" =>
                             (i \notin overwritten' => Agrees(status'[i], Announcement(click'[c].kind)))
                      /\ click'[c].at = "read" /\ click'[c].kind = "pay" => Agreed(i, "APPROVED")'
      BY DEF DoneIsTrue, Agreed
  <2>1. CASE click'[c] # click[c] BY <2>1 DEF Agreed
  <2>2. CASE click'[c] = click[c]
    <3>1. click[c] \in {NoClick} \cup ClickRows BY DEF DashboardInv, DashboardTypes
    <3>2. click[c] # NoClick BY <2>2 DEF NoClick
    <3>3. i \in Bills /\ click[c].kind \in {"approve", "reject", "pay"}
        BY <2>2, <3>1, <3>2 DEF ClickRows
    <3>4. /\ click[c].at = "done" => Agreed(i, Announcement(click[c].kind))
          /\ click[c].at = "read" /\ click[c].kind = "pay" => Agreed(i, "APPROVED")
        BY <2>2 DEF DashboardInv, DoneIsTrue
    <3>5. "APPROVED" \in Announced BY DEF Announced
    <3>6. QED BY <1>3, <1>4, <2>2, <3>3, <3>4, <3>5 DEF Agreed
  <2>3. QED BY <2>1, <2>2
<1>6. AnnouncedIsTrue'
  <2> SUFFICES ASSUME NEW i \in Bills, NEW what \in InvoiceStatuses, <<i, what>> \in said,
                      i \notin overwritten'
               PROVE  Agrees(status'[i], what)
      BY DEF AnnouncedIsTrue, AllAgree
  <2>1. Agrees(status[i], what) BY DEF DashboardInv, AnnouncedIsTrue, AllAgree
  <2>2. what # "PENDING" /\ status[i] # "unlisted"
      BY DEF Announced, DashboardInv, DashboardTypes, InvoiceStatuses
  <2>3. QED BY <2>1, <2>2 DEF Agrees
<1>7. AnswersAreNew' /\ AnnouncedIsListed'
    BY DEF DashboardInv, AnswersAreNew, AnnouncedIsListed, AllAgree
<1>8. QED BY <1>1, <1>2, <1>5, <1>6, <1>7 DEF DashboardInv

LEMMA Clicking ==
    ASSUME DashboardInv, NEW c \in Clicks, click[c].at \in {"sent", "read", "done", "refused"}
    PROVE  /\ click[c] \in ClickRows /\ click[c] # NoClick
           /\ \A at \in {"sent", "read", "done", "refused"} : Moves(c, at) =>
                  /\ click' \in [Clicks -> {NoClick} \cup ClickRows]
                  /\ click'[c].at = at /\ click'[c].kind = click[c].kind /\ click'[c].of = click[c].of
                  /\ \A d \in Clicks : d # c => click'[d] = click[d]
<1>1. click \in [Clicks -> {NoClick} \cup ClickRows] BY DEF DashboardInv, DashboardTypes
<1>2. click[c] # NoClick BY DEF NoClick
<1>3. click[c] \in ClickRows BY <1>1, <1>2
<1>4. ASSUME NEW at \in {"sent", "read", "done", "refused"}, Moves(c, at)
      PROVE  /\ click' \in [Clicks -> {NoClick} \cup ClickRows]
             /\ click'[c].at = at /\ click'[c].kind = click[c].kind /\ click'[c].of = click[c].of
             /\ \A d \in Clicks : d # c => click'[d] = click[d]
  <2> DEFINE row == [click[c] EXCEPT !.at = at]
  <2>1. row \in ClickRows /\ row.at = at /\ row.kind = click[c].kind /\ row.of = click[c].of
      BY <1>3 DEF ClickRows
  <2>2. click' = [click EXCEPT ![c] = row] BY <1>4 DEF Moves
  <2> HIDE DEF row
  <2>3. QED BY <1>1, <2>1, <2>2
<1>5. QED BY <1>2, <1>3, <1>4

LEMMA DecideKeeps ==
    ASSUME DashboardInv, NEW i \in Bills, NEW decision \in {"APPROVED", "REJECTED"}, Decide(i, decision)
    PROVE  /\ status' \in [Bills -> InvoiceStatuses] /\ overwritten' \in SUBSET Bills
           /\ overwritten \subseteq overwritten'
           /\ \A j \in Bills : j \notin overwritten' /\ status[j] # "PENDING" => status'[j] = status[j]
           /\ status'[i] = decision
BY DEF Decide, DashboardInv, DashboardTypes, InvoiceStatuses

LEMMA RoutesKeep ==
    ASSUME DashboardInv, NEW c \in Clicks,
           \/ ReadToPay(c) \/ ServePayment(c)
           \/ \E i \in Bills : ReadToDecide(c, i) \/ WriteDecision(c, i)
    PROVE  DashboardInv'
<1>1. /\ status \in [Bills -> InvoiceStatuses] /\ overwritten \in SUBSET Bills
    BY DEF DashboardInv, DashboardTypes
<1>2. ASSUME NEW i \in Bills, ReadToDecide(c, i) PROVE DashboardInv'
  <2>1. /\ UNCHANGED <<status, overwritten, list, asking, dialog, said>>
        /\ click[c].of = {i} /\ click[c].at = "sent" /\ click[c].kind \in {"approve", "reject"}
        /\ \E at \in {"read", "done", "refused"} :
               Moves(c, at) /\ (at = "done" => click[c].kind = "approve" /\ status[i] = "APPROVED")
      BY <1>2 DEF ReadToDecide, At, serverVars, pageVars
  <2>2. PICK at \in {"read", "done", "refused"} :
            Moves(c, at) /\ (at = "done" => click[c].kind = "approve" /\ status[i] = "APPROVED")
      BY <2>1
  <2>3. /\ click' \in [Clicks -> {NoClick} \cup ClickRows] /\ click[c] # NoClick
        /\ click'[c].at = at /\ click'[c].kind = click[c].kind /\ click'[c].of = {i}
        /\ \A d \in Clicks : d # c => click'[d] = click[d]
      BY <2>1, <2>2, Clicking
  <2>4. at = "done" => (i \notin overwritten' => Agrees(status'[i], Announcement(click'[c].kind)))
      BY <2>1, <2>2, <2>3 DEF Agreed, Agrees, Announcement
  <2>5. QED BY <1>1, <2>1, <2>3, <2>4, StatusKeeps
<1>3. ASSUME NEW i \in Bills, WriteDecision(c, i) PROVE DashboardInv'
  <2>1. PICK decision \in {"APPROVED", "REJECTED"} :
            /\ Decide(i, decision) /\ click[c].at = "read"
            /\ click[c].kind \in {"approve", "reject"} /\ decision = Announcement(click[c].kind)
      BY <1>3 DEF WriteDecision, At, Announcement
  <2>2. Moves(c, "done") /\ click[c].of = {i} /\ UNCHANGED <<list, asking, dialog, said>>
      BY <1>3 DEF WriteDecision, pageVars
  <2>3. /\ click' \in [Clicks -> {NoClick} \cup ClickRows] /\ click[c] # NoClick
        /\ click'[c].at = "done" /\ click'[c].kind = click[c].kind /\ click'[c].of = {i}
        /\ \A d \in Clicks : d # c => click'[d] = click[d]
      BY <2>1, <2>2, Clicking
  <2>4. /\ status' \in [Bills -> InvoiceStatuses] /\ overwritten' \in SUBSET Bills
        /\ overwritten \subseteq overwritten' /\ status'[i] = decision
        /\ \A j \in Bills : j \notin overwritten' /\ status[j] # "PENDING" => status'[j] = status[j]
      BY <2>1, DecideKeeps
  <2>5. (i \notin overwritten' => Agrees(status'[i], Announcement(click'[c].kind))) BY <2>1, <2>3, <2>4 DEF Agreed, Agrees
  <2>6. QED BY <2>2, <2>3, <2>4, <2>5, StatusKeeps
<1>4. CASE ReadToPay(c)
  <2>1. /\ UNCHANGED <<status, overwritten, list, asking, dialog, said>>
        /\ click[c].at = "sent"
        /\ \E at \in {"read", "refused"} :
               Moves(c, at) /\ (at = "read" => \A i \in click[c].of : status[i] = "APPROVED")
      BY <1>4 DEF ReadToPay, At, serverVars, pageVars
  <2>2. PICK at \in {"read", "refused"} :
            Moves(c, at) /\ (at = "read" => \A i \in click[c].of : status[i] = "APPROVED")
      BY <2>1
  <2>3. /\ click' \in [Clicks -> {NoClick} \cup ClickRows] /\ click[c] # NoClick
        /\ click'[c].at = at /\ click'[c].of = click[c].of
        /\ \A d \in Clicks : d # c => click'[d] = click[d]
      BY <2>1, <2>2, Clicking
  <2>4. at = "read" => \A i \in click'[c].of : Agreed(i, "APPROVED")'
      BY <2>1, <2>2, <2>3 DEF Agreed, Agrees
  <2>5. QED BY <1>1, <2>1, <2>2, <2>3, <2>4, StatusKeeps
<1>5. CASE ServePayment(c)
  <2>1. /\ click[c].kind = "pay" /\ click[c].at = "read"
        /\ UNCHANGED <<overwritten, list, asking, dialog, said>>
      BY <1>5 DEF ServePayment, At, pageVars
  <2>2. CASE UNCHANGED status /\ Moves(c, "refused")
    <3>1. /\ click' \in [Clicks -> {NoClick} \cup ClickRows] /\ click[c] # NoClick
          /\ click'[c].at = "refused" /\ \A d \in Clicks : d # c => click'[d] = click[d]
        BY <2>1, <2>2, Clicking
    <3>2. QED BY <1>1, <2>1, <2>2, <3>1, StatusKeeps
  <2>3. CASE /\ status' = [i \in Bills |-> IF i \in click[c].of THEN "PAID" ELSE status[i]]
             /\ Moves(c, "done")
    <3>1. /\ click' \in [Clicks -> {NoClick} \cup ClickRows] /\ click[c] # NoClick
          /\ click[c] \in ClickRows
          /\ click'[c].at = "done" /\ click'[c].kind = "pay" /\ click'[c].of = click[c].of
          /\ \A d \in Clicks : d # c => click'[d] = click[d]
        BY <2>1, <2>3, Clicking
    <3>2. \A i \in click[c].of : i \in Bills /\ Agreed(i, "APPROVED")
        BY <2>1, <3>1 DEF DashboardInv, DoneIsTrue, ClickRows
    <3>3. status' \in [Bills -> InvoiceStatuses] BY <1>1, <2>3 DEF InvoiceStatuses
    <3>4. \A i \in click[c].of : i \notin overwritten => status[i] \in {"APPROVED", "PAID"}
        BY <1>1, <3>2 DEF Agreed, Agrees, InvoiceStatuses
    <3>5. \A i \in Bills : i \notin overwritten =>
              \/ status'[i] = status[i]
              \/ status[i] = "APPROVED" /\ status'[i] = "PAID"
        BY <2>3, <3>4
    <3>6. \A i \in click'[c].of :
              i \notin overwritten' => Agrees(status'[i], Announcement(click'[c].kind))
        BY <2>3, <3>1, <3>2 DEF Agrees, Announcement
    <3>7. QED BY <1>1, <2>1, <3>1, <3>3, <3>5, <3>6, StatusKeeps
  <2>4. QED BY <1>5, <2>2, <2>3 DEF ServePayment
<1>6. QED BY <1>2, <1>3, <1>4, <1>5

LEMMA ElsewhereKeeps ==
    ASSUME DashboardInv, NEW i \in Bills, Elsewhere(i) PROVE DashboardInv'
<1>1. UNCHANGED <<click, list, asking, dialog, said>> BY DEF Elsewhere, pageVars
<1>2. click \in [Clicks -> {NoClick} \cup ClickRows] /\ status \in [Bills -> InvoiceStatuses]
      /\ overwritten \in SUBSET Bills
    BY DEF DashboardInv, DashboardTypes
<1>3. ASSUME NEW decision \in {"APPROVED", "REJECTED"}, Decide(i, decision) PROVE DashboardInv'
    BY <1>1, <1>2, <1>3, DecideKeeps, StatusKeeps
<1>4. CASE status[i] = "APPROVED" /\ status' = [status EXCEPT ![i] = "PAID"] /\ UNCHANGED overwritten
  <2>1. status' \in [Bills -> InvoiceStatuses] BY <1>2, <1>4 DEF InvoiceStatuses
  <2>2. \A j \in Bills : \/ status'[j] = status[j]
                         \/ status[j] = "APPROVED" /\ status'[j] = "PAID"
      BY <1>2, <1>4
  <2>3. QED BY <1>1, <1>2, <1>4, <2>1, <2>2, StatusKeeps
<1>5. QED BY <1>3, <1>4 DEF Elsewhere

-----------------------------------------------------------------------------
(* Answers.                                                                 *)
LEMMA AnswersKeep ==
    ASSUME DashboardInv, NEW c \in Clicks, OnSuccess(c) \/ OnError(c) PROVE DashboardInv'
<1>1. click \in [Clicks -> {NoClick} \cup ClickRows] /\ list \in ListRows /\ asking \in AskRows
      /\ dialog \in Bills \cup {NoInvoice}
    BY DEF DashboardInv, DashboardTypes
<1>2. /\ click' = [click EXCEPT ![c] = NoClick]
      /\ click[c].at \in {"sent", "done", "refused"} /\ UNCHANGED <<status, overwritten>>
    BY DEF OnSuccess, OnError, EndClick, serverVars
<1>3. click[c] # NoClick /\ click[c] \in ClickRows /\ list.known
    BY <1>1, <1>2, Offered DEF NoClick
<1>4. click' \in [Clicks -> {NoClick} \cup ClickRows]
      /\ \A d \in Clicks : click'[d] = IF d = c THEN NoClick ELSE click[d]
    BY <1>1, <1>2
<1>5. CASE OnError(c)
  <2>1. UNCHANGED <<list, asking, dialog, said>> BY <1>5 DEF OnError, pageVars
  <2>2. NoClick.at = "idle" BY DEF NoClick
  <2>3. QED BY <1>1, <1>2, <1>3, <1>4, <2>1, <2>2, OfferKeeps
<1>6. CASE OnSuccess(c)
  <2> DEFINE what == Announcement(click[c].kind)
             new == click[c].of \X {what}
  <2>1. /\ click[c].at = "done" /\ said' = said \cup new
        /\ list' = [list EXCEPT !.valid = FALSE] /\ asking' = AskFor
        /\ dialog' \in {dialog, NoInvoice}
      BY <1>3, <1>6 DEF OnSuccess, Invalidate, Dropped
  <2>2. what \in Announced BY <1>3 DEF Announcement, Announced, ClickRows
  <2>3. \A i \in click[c].of : i \in Bills /\ Agreed(i, what)
      BY <1>3, <2>1 DEF DashboardInv, DoneIsTrue, ClickRows
  <2> HIDE DEF what
  <2>4. said' \in SUBSET (Bills \X Announced) BY <2>1, <2>2, <2>3 DEF DashboardInv, DashboardTypes
  <2>5. list' \in ListRows /\ list'.known /\ ~list'.valid BY <1>1, <1>3, <2>1 DEF ListRows
  <2>6. asking' \in AskRows /\ asking'.at # "answered" BY <2>1, Asks
  <2>7. DashboardTypes'
      BY <1>1, <1>2, <1>4, <2>1, <2>4, <2>5, <2>6 DEF DashboardInv, DashboardTypes
  <2>8. NothingIsOffered' /\ AnswersAreNew' /\ AnnouncedIsListed'
      BY <2>5, <2>6 DEF NothingIsOffered, AnswersAreNew, AnnouncedIsListed, AllAgree
  <2>9. DoneIsTrue'
    <3>1. NoClick.of = {} BY DEF NoClick
    <3>2. QED BY <1>2, <1>4, <3>1 DEF DashboardInv, DoneIsTrue, Agreed
  <2>10. AnnouncedIsTrue'
    <3> SUFFICES ASSUME NEW i \in Bills, NEW w \in InvoiceStatuses, <<i, w>> \in said', i \notin overwritten'
                 PROVE  Agrees(status'[i], w)
        BY DEF AnnouncedIsTrue, AllAgree
    <3>1. CASE <<i, w>> \in said BY <1>2, <3>1 DEF DashboardInv, AnnouncedIsTrue, AllAgree
    <3>2. CASE <<i, w>> \in new BY <1>2, <2>3, <3>2 DEF Agreed
    <3>3. QED BY <2>1, <3>1, <3>2
  <2>11. QED BY <2>7, <2>8, <2>9, <2>10 DEF DashboardInv
<1>7. QED BY <1>5, <1>6

LEMMA DashboardStep == DashboardInv /\ [DashboardNext]_dashboardVars => DashboardInv'
<1> SUFFICES ASSUME DashboardInv, [DashboardNext]_dashboardVars PROVE DashboardInv'
    OBVIOUS
<1>1. CASE UNCHANGED dashboardVars
    BY <1>1 DEF dashboardVars, DashboardInv, DashboardTypes, NothingIsOffered, DoneIsTrue, Agreed,
                AnswersAreNew, AnnouncedIsListed, AnnouncedIsTrue, AllAgree
<1>2. QED BY <1>1, FetchesKeep, OffersKeep, RoutesKeep, ElsewhereKeeps, AnswersKeep DEF DashboardNext

(* However requests and fetches overtake each other and the rows change     *)
(* elsewhere, what the page has announced is true of the server's rows and  *)
(* of every list that is not marked as outdated, unless the server let a    *)
(* decision write over another.                                             *)
THEOREM DashboardStaysTrue == DashboardSpec => []DashboardIsTrue
<1>1. DashboardInv => DashboardIsTrue
  <2>1. Bills \X Announced \subseteq Bills \X InvoiceStatuses BY DEF Announced, InvoiceStatuses
  <2>2. QED BY <2>1 DEF DashboardInv, DashboardTypes, DashboardIsTrue, DashboardTypeOK, ListRows,
                        AskRows, ClickRows
<1>2. QED BY <1>1, DashboardInitInv, DashboardStep, PTL DEF DashboardSpec

HIDE DashboardAssumption

-----------------------------------------------------------------------------
(***************************************************************************)
(* The portal, for any filters and any numbers of pages and fetches.       *)
(***************************************************************************)
USE PortalAssumption

Fetches == [of: Picks, at: {"sent", "answered", "done"}, pages: 0 .. MaxPages]

PortalTypes ==
    /\ filled \in [Filters -> 0 .. MaxPages]
    /\ user \in [session: {"unknown", "in", "out"}, linked: BOOLEAN]
    /\ profile \in {"loading", "asked", "settled", "again"}
    /\ pick \in Picks
    /\ fetch \in Seq(Fetches) /\ Len(fetch) <= MaxFetches
    /\ listed \in [of: Picks, pages: 0 .. MaxPages]
    /\ error \in BOOLEAN /\ loading \in BOOLEAN /\ late \in BOOLEAN /\ hurried \in BOOLEAN
    /\ shrunk \in SUBSET Filters

(* Without an error there is a session once the profile is asked for, and   *)
(* with the session came the first fetch.                                   *)
SessionAsks ==
    ~error => IF profile = "loading" THEN user.session = "unknown" /\ fetch = <<>>
              ELSE user.session = "in" /\ user.linked

(* The newest fetch is for what is selected.                                *)
NewestIsPick == ~error /\ fetch # <<>> => fetch[Len(fetch)].of = pick

(* What is listed was the answer to a fetch than which, unless answers came *)
(* in out of order, no newer one is answered.                               *)
ListedIsNewest ==
    ~error /\ ~late => \/ listed.pages = 0 /\ \A n \in DOMAIN fetch : fetch[n].at # "done"
                       \/ \E n \in DOMAIN fetch :
                              /\ fetch[n].at = "done"
                              /\ listed = [of |-> fetch[n].of, pages |-> fetch[n].pages]
                              /\ \A m \in DOMAIN fetch : m > n => fetch[m].at # "done"

(* Unless the list became shorter, there are still as many pages as an      *)
(* answer said, and as many as it takes to be where the contractor is.      *)
AnswersAreFilled ==
    ~error => \A n \in DOMAIN fetch :
        fetch[n].at # "sent" /\ fetch[n].of.filter \notin shrunk =>
            fetch[n].pages <= filled[fetch[n].of.filter]

PickIsReached ==
    ~error /\ ~hurried /\ pick.filter \notin shrunk /\ pick.page > 1 =>
        /\ pick.page <= filled[pick.filter]
        /\ fetch # <<>> /\ fetch[Len(fetch)].at # "sent" => pick.page <= fetch[Len(fetch)].pages

PortalInv ==
    /\ PortalTypes /\ SessionAsks /\ NewestIsPick /\ ListedIsNewest
    /\ AnswersAreFilled /\ PickIsReached

-----------------------------------------------------------------------------
LEMMA StartIsPick == Start \in Picks /\ NotListed \in [of: Picks, pages: 0 .. MaxPages]
                     /\ Start.page = 1 /\ NotListed.pages = 0
BY DEF Start, Picks, NotListed

LEMMA FreshInv ==
    ASSUME filled' \in [Filters -> 0 .. MaxPages], Fresh,
           user' = [session |-> "unknown", linked |-> FALSE]
    PROVE  PortalInv'
<1>1. PortalTypes'
  <2>1. <<>> \in Seq(Fetches) /\ Len(<<>>) <= MaxFetches OBVIOUS
  <2>2. user' \in [session: {"unknown", "in", "out"}, linked: BOOLEAN] OBVIOUS
  <2>3. QED BY <2>1, <2>2, StartIsPick DEF Fresh, PortalTypes
<1>2. SessionAsks' /\ NewestIsPick' BY DEF Fresh, SessionAsks, NewestIsPick
<1>3. ListedIsNewest' /\ AnswersAreFilled' BY StartIsPick DEF Fresh, ListedIsNewest, AnswersAreFilled
<1>4. PickIsReached' BY StartIsPick DEF Fresh, PickIsReached
<1>5. QED BY <1>1, <1>2, <1>3, <1>4 DEF PortalInv

LEMMA PortalInitInv == PortalInit => PortalInv
<1> SUFFICES ASSUME PortalInit PROVE PortalInv
    OBVIOUS
<1>1. PortalTypes
  <2>1. <<>> \in Seq(Fetches) /\ Len(<<>>) <= MaxFetches OBVIOUS
  <2>2. user \in [session: {"unknown", "in", "out"}, linked: BOOLEAN] BY DEF PortalInit
  <2>3. QED BY <2>1, <2>2, StartIsPick DEF PortalInit, PortalTypes
<1>2. SessionAsks /\ NewestIsPick BY DEF PortalInit, SessionAsks, NewestIsPick
<1>3. ListedIsNewest /\ AnswersAreFilled BY StartIsPick DEF PortalInit, ListedIsNewest, AnswersAreFilled
<1>4. PickIsReached BY StartIsPick DEF PortalInit, PickIsReached
<1>5. QED BY <1>1, <1>2, <1>3, <1>4 DEF PortalInv

LEMMA FetchParts ==
    ASSUME PortalInv
    PROVE  /\ Len(fetch) \in Nat /\ DOMAIN fetch = 1 .. Len(fetch)
           /\ \A n \in DOMAIN fetch : fetch[n] \in Fetches
           /\ fetch # <<>> <=> Len(fetch) > 0
           /\ pick \in Picks /\ listed \in [of: Picks, pages: 0 .. MaxPages]
           /\ pick.page \in Nat /\ listed.pages \in Nat /\ pick.filter \in Filters
           /\ filled \in [Filters -> 0 .. MaxPages]
           /\ fetch \in Seq(Fetches)
BY DEF PortalInv, PortalTypes, Picks

(* A selection sends the newest fetch.                                      *)
LEMMA FetchInvoicesIs ==
    ASSUME PortalInv, NEW chosen \in Picks, FetchInvoices(chosen)
    PROVE  /\ fetch' \in Seq(Fetches) /\ Len(fetch') = Len(fetch) + 1 /\ Len(fetch') <= MaxFetches
           /\ DOMAIN fetch' = 1 .. Len(fetch) + 1 /\ fetch' # <<>>
           /\ \A n \in DOMAIN fetch : fetch'[n] = fetch[n]
           /\ fetch'[Len(fetch) + 1].of = chosen /\ fetch'[Len(fetch) + 1].at = "sent"
           /\ loading' = TRUE /\ UNCHANGED <<listed, late>>
<1> DEFINE row == [of |-> chosen, at |-> "sent", pages |-> 0]
<1>1. row \in Fetches /\ row.of = chosen /\ row.at = "sent" BY DEF Fetches
<1>2. fetch' = Append(fetch, row) /\ Len(fetch) < MaxFetches /\ loading' = TRUE
      /\ UNCHANGED <<listed, late>>
    BY DEF FetchInvoices
<1> HIDE DEF row
<1>3. fetch \in Seq(Fetches) /\ Len(fetch) \in Nat /\ DOMAIN fetch = 1 .. Len(fetch) BY FetchParts
<1>4. /\ fetch' \in Seq(Fetches) /\ Len(fetch') = Len(fetch) + 1
      /\ \A n \in 1 .. Len(fetch) : fetch'[n] = fetch[n]
      /\ fetch'[Len(fetch) + 1] = row
    BY <1>1, <1>2, <1>3, AppendProperties
<1>5. DOMAIN fetch' = 1 .. Len(fetch) + 1 /\ fetch' # <<>> BY <1>3, <1>4
<1>6. QED BY <1>1, <1>2, <1>3, <1>4, <1>5

(* What a new fetch leaves true of those before it.                         *)
LEMMA NewFetchKeeps ==
    ASSUME PortalInv, NEW chosen \in Picks, FetchInvoices(chosen), UNCHANGED <<filled, shrunk>>,
           error' = error
    PROVE  ListedIsNewest' /\ AnswersAreFilled'
<1>1. /\ Len(fetch) \in Nat /\ DOMAIN fetch = 1 .. Len(fetch)
      /\ DOMAIN fetch' = 1 .. Len(fetch) + 1
      /\ \A n \in DOMAIN fetch : fetch'[n] = fetch[n]
      /\ fetch'[Len(fetch) + 1].at = "sent" /\ UNCHANGED <<listed, late>>
    BY FetchParts, FetchInvoicesIs
<1>2. \A n \in DOMAIN fetch' : n \in DOMAIN fetch \/ n = Len(fetch) + 1 BY <1>1
<1>3. ListedIsNewest'
  <2> SUFFICES ASSUME ~error, ~late PROVE ListedIsNewest'
      BY <1>1 DEF ListedIsNewest
  <2>1. CASE listed.pages = 0 /\ \A n \in DOMAIN fetch : fetch[n].at # "done"
    <3>1. \A n \in DOMAIN fetch' : fetch'[n].at # "done" BY <1>1, <1>2, <2>1
    <3>2. QED BY <1>1, <2>1, <3>1 DEF ListedIsNewest
  <2>2. ASSUME NEW n \in DOMAIN fetch, fetch[n].at = "done",
               listed = [of |-> fetch[n].of, pages |-> fetch[n].pages],
               \A m \in DOMAIN fetch : m > n => fetch[m].at # "done"
        PROVE  ListedIsNewest'
    <3>1. \A m \in DOMAIN fetch' : m > n => fetch'[m].at # "done" BY <1>1, <1>2, <2>2
    <3>2. n \in DOMAIN fetch' /\ fetch'[n] = fetch[n] BY <1>1
    <3>3. QED BY <1>1, <2>2, <3>1, <3>2 DEF ListedIsNewest
  <2>3. QED BY <2>1, <2>2 DEF PortalInv, ListedIsNewest
<1>4. AnswersAreFilled' BY <1>1, <1>2 DEF PortalInv, AnswersAreFilled
<1>5. QED BY <1>3, <1>4

-----------------------------------------------------------------------------
(* The selection.  A page is chosen within what is listed, or the click     *)
(* came while the list was on its way.                                      *)
LEMMA SelectKeeps ==
    ASSUME PortalInv, NEW chosen \in Picks, Select(chosen), hurried' \in BOOLEAN,
           ~error /\ ~hurried' /\ chosen.filter \notin shrunk /\ chosen.page > 1 =>
               /\ chosen.page <= filled[chosen.filter]
               /\ chosen = pick => ~hurried
    PROVE  PortalInv'
<1>1. OnScreen /\ pick' = chosen /\ UNCHANGED <<filled, user, profile, error, shrunk>>
    BY DEF Select, sessionVars
<1>2. profile # "loading" /\ ~error /\ user.session = "in"
    BY <1>1 DEF OnScreen, PortalInv, SessionAsks
<1>3. CASE chosen # pick
  <2>1. FetchInvoices(chosen) BY <1>2, <1>3 DEF Select
  <2>2. /\ fetch' \in Seq(Fetches) /\ Len(fetch') = Len(fetch) + 1 /\ Len(fetch') <= MaxFetches
        /\ fetch'[Len(fetch')].of = chosen /\ fetch'[Len(fetch')].at = "sent"
        /\ loading' = TRUE /\ UNCHANGED <<listed, late>>
      BY <2>1, FetchInvoicesIs
  <2>3. PortalTypes' BY <1>1, <2>2 DEF PortalInv, PortalTypes
  <2>4. SessionAsks' BY <1>1, <1>2 DEF PortalInv, SessionAsks
  <2>5. NewestIsPick' BY <1>1, <2>2 DEF NewestIsPick
  <2>6. PickIsReached' BY <1>1, <2>2 DEF PickIsReached
  <2>7. QED BY <1>1, <2>1, <2>3, <2>4, <2>5, <2>6, NewFetchKeeps DEF PortalInv
<1>4. CASE chosen = pick
  <2>1. UNCHANGED <<fetch, loading, listed, late>> BY <1>4 DEF Select, listVars
  <2>2. PortalTypes' BY <1>1, <2>1 DEF PortalInv, PortalTypes
  <2>3. SessionAsks' /\ NewestIsPick' BY <1>1, <1>4, <2>1 DEF PortalInv, SessionAsks, NewestIsPick
  <2>4. ListedIsNewest' /\ AnswersAreFilled'
      BY <1>1, <2>1 DEF PortalInv, ListedIsNewest, AnswersAreFilled
  <2>5. PickIsReached' BY <1>1, <1>4, <2>1 DEF PortalInv, PickIsReached
  <2>6. QED BY <2>2, <2>3, <2>4, <2>5 DEF PortalInv
<1>5. QED BY <1>3, <1>4

LEMMA MinOfTwo ==
    ASSUME NEW m \in Nat, NEW n \in Nat
    PROVE  Min({m, n}) \in {m, n} /\ Min({m, n}) <= m /\ Min({m, n}) <= n
<1>1. \E x \in {m, n} : \A y \in {m, n} : x <= y
  <2>1. CASE m <= n BY <2>1
  <2>2. CASE n <= m BY <2>2
  <2>3. QED BY <2>1, <2>2
<1>2. QED BY <1>1 DEF Min

LEMMA MaxOfTwo ==
    ASSUME NEW m \in Nat, NEW n \in Nat
    PROVE  Max({m, n}) \in {m, n} /\ Max({m, n}) >= m /\ Max({m, n}) >= n
<1>1. \E x \in {m, n} : \A y \in {m, n} : x >= y
  <2>1. CASE m <= n BY <2>1
  <2>2. CASE n <= m BY <2>2
  <2>3. QED BY <2>1, <2>2
<1>2. QED BY <1>1 DEF Max

(* With every answer there and in order, the list is the newest fetch's.    *)
LEMMA AllAnswered ==
    ASSUME PortalInv, ~error, ~late, InFlight = {}, fetch # <<>>
    PROVE  /\ listed.of = pick /\ listed.pages = fetch[Len(fetch)].pages
           /\ fetch[Len(fetch)].at = "done" /\ fetch[Len(fetch)].of = pick
<1>1. Len(fetch) \in DOMAIN fetch /\ DOMAIN fetch = 1 .. Len(fetch) /\ Len(fetch) \in Nat BY FetchParts
<1>2. fetch[Len(fetch)].at = "done" BY <1>1 DEF InFlight
<1>3. PICK n \in DOMAIN fetch :
          /\ listed = [of |-> fetch[n].of, pages |-> fetch[n].pages]
          /\ \A m \in DOMAIN fetch : m > n => fetch[m].at # "done"
    BY <1>1, <1>2 DEF PortalInv, ListedIsNewest
<1>4. n = Len(fetch) BY <1>1, <1>2, <1>3
<1>5. fetch[Len(fetch)].of = pick BY DEF PortalInv, NewestIsPick
<1>6. QED BY <1>2, <1>3, <1>4, <1>5

LEMMA NextPageKeeps == ASSUME PortalInv, NextPage PROVE PortalInv'
<1> DEFINE chosen == [pick EXCEPT !.page = Following]
<1>1. /\ pick \in Picks /\ pick.page \in Nat /\ listed.pages \in Nat /\ listed.pages <= MaxPages
      /\ pick.filter \in Filters
    BY FetchParts DEF Picks
<1>2. listed.pages > 1 /\ pick.page # listed.pages /\ Select(chosen)
      /\ hurried' = (hurried \/ InFlight # {} \/ late)
    BY DEF NextPage, Paged
<1>3. Following \in {listed.pages, pick.page + 1} /\ Following <= listed.pages
      /\ Following <= pick.page + 1
    BY <1>1, MinOfTwo DEF Following
<1>4. Following \in 1 .. MaxPages + 1 BY <1>1, <1>2, <1>3
<1>5. chosen \in Picks /\ chosen.page = Following /\ chosen.filter = pick.filter
    BY <1>1, <1>4 DEF Picks
<1>6. Following # pick.page BY <1>1, <1>2, <1>3
<1> HIDE DEF chosen
<1>7. hurried \in BOOLEAN BY DEF PortalInv, PortalTypes
<1>8. ASSUME ~error, ~hurried', pick.filter \notin shrunk
      PROVE  Following <= filled[pick.filter]
  <2>1. ~late /\ InFlight = {} BY <1>2, <1>7, <1>8
  <2>2. fetch # <<>>
    <3>1. PICK n \in DOMAIN fetch : TRUE BY <1>1, <1>2, <1>8, <2>1 DEF PortalInv, ListedIsNewest
    <3>2. QED BY <3>1, FetchParts
  <2>3. listed.pages = fetch[Len(fetch)].pages /\ fetch[Len(fetch)].at = "done"
        /\ fetch[Len(fetch)].of = pick
      BY <1>8, <2>1, <2>2, AllAnswered
  <2>4. Len(fetch) \in DOMAIN fetch BY <2>2, FetchParts
  <2>5. listed.pages <= filled[pick.filter]
      BY <1>8, <2>3, <2>4 DEF PortalInv, AnswersAreFilled
  <2>6. filled[pick.filter] \in Nat BY <1>1, FetchParts
  <2>7. QED BY <1>1, <1>3, <2>5, <2>6
<1>9. chosen # pick BY <1>5, <1>6
<1>10. hurried' \in BOOLEAN BY <1>2
<1>11. QED BY <1>2, <1>5, <1>8, <1>9, <1>10, SelectKeeps


LEMMA ButtonsKeep ==
    ASSUME PortalInv, Previous \/ NextPage \/ \E filter \in Filters : SelectFilter(filter)
    PROVE  PortalInv'
<1>1. /\ pick \in Picks /\ pick.page \in 1 .. MaxPages + 1 /\ pick.filter \in Filters
      /\ filled \in [Filters -> 0 .. MaxPages] /\ hurried \in BOOLEAN
    BY FetchParts DEF Picks, PortalInv, PortalTypes
<1>2. CASE Previous
  <2> DEFINE chosen == [pick EXCEPT !.page = pick.page - 1]
  <2>1. Select(chosen) /\ UNCHANGED hurried /\ pick.page # 1 BY <1>2 DEF Previous
  <2>2. chosen \in Picks /\ chosen.page = pick.page - 1 /\ chosen.filter = pick.filter /\ chosen # pick
      BY <1>1, <2>1 DEF Picks
  <2> HIDE DEF chosen
  <2>3. ASSUME ~error, ~hurried, pick.filter \notin shrunk
        PROVE  chosen.page <= filled[chosen.filter]
    <3>1. pick.page <= filled[pick.filter]
        BY <1>1, <2>1, <2>3 DEF PortalInv, PickIsReached
    <3>2. filled[pick.filter] \in Nat BY <1>1
    <3>3. QED BY <1>1, <2>2, <3>1, <3>2
  <2>4. QED BY <1>1, <2>1, <2>2, <2>3, SelectKeeps
<1>3. ASSUME NEW filter \in Filters, SelectFilter(filter) PROVE PortalInv'
  <2>1. Filtered(filter) \in Picks /\ Filtered(filter).page = 1 BY DEF Filtered, Picks
  <2>2. Select(Filtered(filter)) /\ hurried' \in BOOLEAN BY <1>3 DEF SelectFilter
  <2>3. ~(Filtered(filter).page > 1) BY <2>1
  <2>4. QED BY <2>1, <2>2, <2>3, SelectKeeps
<1>4. QED BY <1>2, <1>3, NextPageKeeps

-----------------------------------------------------------------------------
(* The session and the profile.                                             *)
LEMMA ErrorKeeps ==
    ASSUME PortalInv, PortalTypes', error' PROVE PortalInv'
BY DEF PortalInv, SessionAsks, NewestIsPick, ListedIsNewest, AnswersAreFilled, PickIsReached

LEMMA AuthenticateKeeps ==
    ASSUME PortalInv, NEW session \in {"in", "out"}, NEW linked \in BOOLEAN,
           Authenticate(session, linked)
    PROVE  PortalInv'
<1>1. /\ user' = [session |-> session, linked |-> linked] /\ user' # user
      /\ UNCHANGED <<filled, pick, hurried, shrunk>>
    BY DEF Authenticate
<1>2. FetchInvoices(pick) \/ UNCHANGED listVars BY DEF Authenticate
<1>3. fetch' \in Seq(Fetches) /\ Len(fetch') <= MaxFetches /\ loading' \in BOOLEAN
      /\ UNCHANGED <<listed, late>>
  <2>1. CASE FetchInvoices(pick) BY <2>1, FetchParts, FetchInvoicesIs
  <2>2. CASE UNCHANGED listVars BY <2>2 DEF listVars, PortalInv, PortalTypes
  <2>3. QED BY <1>2, <2>1, <2>2
<1>4. user \in [session: {"unknown", "in", "out"}, linked: BOOLEAN]
    BY DEF PortalInv, PortalTypes
<1>5. profile' \in {"loading", "asked", "settled", "again"} /\ error' \in BOOLEAN
    BY DEF Authenticate, PortalInv, PortalTypes
<1>6. PortalTypes' BY <1>1, <1>3, <1>5 DEF PortalInv, PortalTypes
<1>7. CASE error' BY <1>6, <1>7, ErrorKeeps
<1>8. CASE ~error'
  <2>1. /\ session = "in" /\ linked /\ UNCHANGED error /\ profile' \in {"again", "asked"}
      BY <1>8 DEF Authenticate
  <2>2. ~(user.session = "in" /\ user.linked) BY <1>1, <1>4, <2>1
  <2>3. profile = "loading" /\ user.session = "unknown" /\ fetch = <<>>
      BY <1>8, <2>1, <2>2 DEF PortalInv, SessionAsks
  <2>4. FetchInvoices(pick) BY <2>1, <2>3 DEF Authenticate
  <2>5. pick \in Picks BY FetchParts
  <2>6. fetch'[Len(fetch')].of = pick /\ fetch'[Len(fetch')].at = "sent"
      BY <2>4, <2>5, FetchInvoicesIs
  <2>7. SessionAsks' BY <1>1, <2>1 DEF SessionAsks
  <2>8. NewestIsPick' BY <1>1, <2>6 DEF NewestIsPick
  <2>9. ListedIsNewest' /\ AnswersAreFilled' BY <1>1, <2>1, <2>4, <2>5, NewFetchKeeps
  <2>10. PickIsReached' BY <1>1, <2>1, <2>6 DEF PortalInv, PickIsReached
  <2>11. QED BY <1>6, <2>7, <2>8, <2>9, <2>10 DEF PortalInv
<1>9. QED BY <1>7, <1>8

LEMMA ProfileKeeps == ASSUME PortalInv, AnswerProfile PROVE PortalInv'
<1>1. /\ profile # "loading" /\ profile' = "settled" /\ error' \in {error, TRUE}
      /\ UNCHANGED <<filled, user, pick, fetch, loading, listed, late, hurried, shrunk>>
    BY DEF AnswerProfile, listVars
<1>2. PortalTypes' BY <1>1 DEF PortalInv, PortalTypes
<1>3. CASE error' BY <1>2, <1>3, ErrorKeeps
<1>4. CASE ~error'
  <2>1. ~error BY <1>1, <1>4
  <2>2. SessionAsks' BY <1>1, <2>1 DEF PortalInv, SessionAsks
  <2>3. NewestIsPick' /\ ListedIsNewest' BY <1>1, <2>1 DEF PortalInv, NewestIsPick, ListedIsNewest
  <2>4. AnswersAreFilled' /\ PickIsReached'
      BY <1>1, <2>1 DEF PortalInv, AnswersAreFilled, PickIsReached
  <2>5. QED BY <1>2, <2>2, <2>3, <2>4 DEF PortalInv
<1>5. QED BY <1>3, <1>4

-----------------------------------------------------------------------------
(* A fetch goes on.                                                         *)
LEMMA OneFetch ==
    ASSUME PortalInv, NEW n \in DOMAIN fetch, NEW row \in Fetches, row.of = fetch[n].of,
           fetch' = [fetch EXCEPT ![n] = row]
    PROVE  /\ fetch' \in Seq(Fetches) /\ Len(fetch') = Len(fetch) /\ DOMAIN fetch' = DOMAIN fetch
           /\ \A m \in DOMAIN fetch : fetch'[m] = IF m = n THEN row ELSE fetch[m]
           /\ \A m \in DOMAIN fetch : fetch'[m].of = fetch[m].of
           /\ fetch' # <<>> <=> fetch # <<>>
<1>1. fetch \in Seq(Fetches) /\ n \in 1 .. Len(fetch) BY FetchParts
<1>2. fetch' \in Seq(Fetches) /\ Len(fetch') = Len(fetch) /\ DOMAIN fetch' = DOMAIN fetch
    BY <1>1, ExceptSeq
<1>3. QED BY <1>1, <1>2

LEMMA ServeFetchKeeps ==
    ASSUME PortalInv, NEW n \in DOMAIN fetch, ServeFetch(n) PROVE PortalInv'
<1> DEFINE pages == filled[fetch[n].of.filter]
           row == [fetch[n] EXCEPT !.at = "answered", !.pages = pages]
<1>1. /\ fetch[n] \in Fetches /\ fetch[n].of \in Picks /\ fetch[n].of.filter \in Filters
      /\ Len(fetch) \in Nat /\ DOMAIN fetch = 1 .. Len(fetch) /\ (fetch # <<>> <=> Len(fetch) > 0)
      /\ filled \in [Filters -> 0 .. MaxPages]
    BY FetchParts DEF Fetches, Picks
<1>2. fetch' = [fetch EXCEPT ![n] = row] /\ fetch[n].at = "sent"
      /\ UNCHANGED <<filled, user, profile, error, pick, loading, listed, late, hurried, shrunk>>
    BY DEF ServeFetch, sessionVars
<1>3. row \in Fetches /\ row.of = fetch[n].of /\ row.at = "answered" /\ row.pages = pages
    BY <1>1 DEF Fetches
<1> HIDE DEF row
<1>4. /\ fetch' \in Seq(Fetches) /\ Len(fetch') = Len(fetch) /\ DOMAIN fetch' = DOMAIN fetch
      /\ \A m \in DOMAIN fetch : fetch'[m] = IF m = n THEN row ELSE fetch[m]
      /\ \A m \in DOMAIN fetch : fetch'[m].of = fetch[m].of
      /\ fetch' # <<>> <=> fetch # <<>>
    BY <1>2, <1>3, OneFetch
<1>5. fetch # <<>> => Len(fetch) \in DOMAIN fetch BY <1>1
<1>6. PortalTypes' BY <1>2, <1>4 DEF PortalInv, PortalTypes
<1>7. SessionAsks' BY <1>2, <1>4 DEF PortalInv, SessionAsks
<1>8. NewestIsPick' BY <1>2, <1>4, <1>5 DEF PortalInv, NewestIsPick
<1>9. ListedIsNewest'
  <2> SUFFICES ASSUME ~error, ~late PROVE ListedIsNewest'
      BY <1>2 DEF ListedIsNewest
  <2>1. \A m \in DOMAIN fetch : /\ fetch'[m].at = "done" <=> fetch[m].at = "done"
                                /\ fetch[m].at = "done" => fetch'[m] = fetch[m]
      BY <1>2, <1>3, <1>4
  <2>2. QED BY <1>2, <1>4, <2>1 DEF PortalInv, ListedIsNewest
<1>10. AnswersAreFilled'
  <2>1. pages <= pages BY <1>1
  <2>2. QED BY <1>2, <1>3, <1>4, <2>1 DEF PortalInv, AnswersAreFilled
<1>11. PickIsReached'
  <2> SUFFICES ASSUME ~error, ~hurried, pick.filter \notin shrunk, pick.page > 1, fetch # <<>>,
                      fetch'[Len(fetch)].at # "sent"
               PROVE  pick.page <= fetch'[Len(fetch)].pages
      BY <1>2, <1>4 DEF PortalInv, PickIsReached
  <2>1. CASE n = Len(fetch)
    <3>1. fetch[n].of = pick BY <2>1 DEF PortalInv, NewestIsPick
    <3>2. pick.page <= filled[pick.filter] BY DEF PortalInv, PickIsReached
    <3>3. QED BY <1>3, <1>4, <1>5, <2>1, <3>1, <3>2
  <2>2. CASE n # Len(fetch) BY <1>4, <1>5, <2>2 DEF PortalInv, PickIsReached
  <2>3. QED BY <2>1, <2>2
<1>12. QED BY <1>6, <1>7, <1>8, <1>9, <1>10, <1>11 DEF PortalInv

LEMMA ShowFetchKeeps ==
    ASSUME PortalInv, NEW n \in DOMAIN fetch, ShowFetch(n) PROVE PortalInv'
<1> DEFINE row == [fetch[n] EXCEPT !.at = "done"]
           shown == [of |-> fetch[n].of, pages |-> fetch[n].pages]
<1>1. /\ fetch[n] \in Fetches /\ Len(fetch) \in Nat /\ DOMAIN fetch = 1 .. Len(fetch)
      /\ (fetch # <<>> <=> Len(fetch) > 0)
    BY FetchParts
<1>2. /\ fetch' = [fetch EXCEPT ![n] = row] /\ fetch[n].at = "answered" /\ listed' = shown
      /\ late' = (\E newer \in DOMAIN fetch : newer > n /\ fetch[newer].at = "done")
      /\ loading' = FALSE
      /\ UNCHANGED <<filled, user, profile, error, pick, hurried, shrunk>>
    BY DEF ShowFetch, sessionVars
<1>3. /\ row \in Fetches /\ row.of = fetch[n].of /\ row.at = "done" /\ row.pages = fetch[n].pages
      /\ shown \in [of: Picks, pages: 0 .. MaxPages]
    BY <1>1 DEF Fetches
<1> HIDE DEF row
<1>4. /\ fetch' \in Seq(Fetches) /\ Len(fetch') = Len(fetch) /\ DOMAIN fetch' = DOMAIN fetch
      /\ \A m \in DOMAIN fetch : fetch'[m] = IF m = n THEN row ELSE fetch[m]
      /\ \A m \in DOMAIN fetch : fetch'[m].of = fetch[m].of
      /\ fetch' # <<>> <=> fetch # <<>>
    BY <1>2, <1>3, OneFetch
<1>5. fetch # <<>> => Len(fetch) \in DOMAIN fetch BY <1>1
<1>6. PortalTypes' BY <1>2, <1>3, <1>4 DEF PortalInv, PortalTypes
<1>7. SessionAsks' BY <1>2, <1>4 DEF PortalInv, SessionAsks
<1>8. NewestIsPick' BY <1>2, <1>4, <1>5 DEF PortalInv, NewestIsPick
<1>9. ListedIsNewest'
  <2> SUFFICES ASSUME ~late' PROVE ListedIsNewest'
      BY DEF ListedIsNewest
  <2>1. \A m \in DOMAIN fetch : m > n => fetch'[m].at # "done" BY <1>1, <1>2, <1>4
  <2>2. /\ fetch'[n].at = "done"
        /\ listed' = [of |-> fetch'[n].of, pages |-> fetch'[n].pages]
      BY <1>2, <1>3, <1>4
  <2>3. QED BY <1>4, <2>1, <2>2 DEF ListedIsNewest
<1>10. \A m \in DOMAIN fetch : /\ fetch'[m].at = "sent" <=> fetch[m].at = "sent"
                               /\ fetch'[m].pages = fetch[m].pages
    BY <1>2, <1>3, <1>4
<1>11. AnswersAreFilled' BY <1>2, <1>4, <1>10 DEF PortalInv, AnswersAreFilled
<1>12. PickIsReached' BY <1>2, <1>4, <1>5, <1>10 DEF PortalInv, PickIsReached
<1>13. QED BY <1>6, <1>7, <1>8, <1>9, <1>11, <1>12 DEF PortalInv

LEMMA FailFetchKeeps ==
    ASSUME PortalInv, NEW n \in DOMAIN fetch, FailFetch(n) PROVE PortalInv'
<1> DEFINE row == [fetch[n] EXCEPT !.at = "done"]
<1>1. /\ fetch' = [fetch EXCEPT ![n] = row] /\ error' = TRUE /\ loading' = FALSE
      /\ UNCHANGED <<filled, user, profile, pick, listed, late, hurried, shrunk>>
    BY DEF FailFetch, sessionVars
<1>2. row \in Fetches /\ row.of = fetch[n].of BY FetchParts DEF Fetches
<1> HIDE DEF row
<1>3. fetch' \in Seq(Fetches) /\ Len(fetch') = Len(fetch) BY <1>1, <1>2, OneFetch
<1>4. PortalTypes' BY <1>1, <1>3 DEF PortalInv, PortalTypes
<1>5. QED BY <1>1, <1>4, ErrorKeeps

LEMMA FillKeeps ==
    ASSUME PortalInv, NEW filter \in Filters, Fill(filter) PROVE PortalInv'
<1>1. UNCHANGED <<user, profile, error, pick, fetch, loading, listed, late, hurried>>
    BY DEF Fill, sessionVars, listVars
<1>2. /\ filled \in [Filters -> 0 .. MaxPages] /\ shrunk \in SUBSET Filters /\ pick.filter \in Filters
      /\ pick.page \in Nat
      /\ \A n \in DOMAIN fetch : fetch[n].of.filter \in Filters /\ fetch[n].pages \in Nat
  <2>1. filled \in [Filters -> 0 .. MaxPages] /\ shrunk \in SUBSET Filters
      BY DEF PortalInv, PortalTypes
  <2>2. pick.filter \in Filters /\ pick.page \in Nat BY FetchParts
  <2>3. ASSUME NEW n \in DOMAIN fetch
        PROVE  fetch[n].of.filter \in Filters /\ fetch[n].pages \in Nat
    <3>1. fetch[n] \in Fetches BY <2>3, FetchParts
    <3>2. QED BY <3>1 DEF Fetches, Picks
  <2>4. QED BY <2>1, <2>2, <2>3
<1>3. /\ filled' \in [Filters -> 0 .. MaxPages] /\ shrunk' \in SUBSET Filters
      /\ shrunk \subseteq shrunk'
      /\ \A f \in Filters : f \notin shrunk' => filled[f] <= filled'[f]
  <2>1. CASE filled[filter] < MaxPages /\ filled' = [filled EXCEPT ![filter] = filled[filter] + 1]
             /\ UNCHANGED shrunk
      BY <1>2, <2>1
  <2>2. CASE filled[filter] > 0 /\ filled' = [filled EXCEPT ![filter] = filled[filter] - 1]
             /\ shrunk' = shrunk \cup {filter}
      BY <1>2, <2>2
  <2>3. QED BY <2>1, <2>2 DEF Fill
<1>4. PortalTypes' BY <1>1, <1>3 DEF PortalInv, PortalTypes
<1>5. SessionAsks' /\ NewestIsPick' /\ ListedIsNewest'
    BY <1>1 DEF PortalInv, SessionAsks, NewestIsPick, ListedIsNewest
<1>6. \A f \in Filters : \A k \in Nat : f \notin shrunk' /\ k <= filled[f] => k <= filled'[f]
  <2>1. \A f \in Filters : filled[f] \in Nat /\ filled'[f] \in Nat BY <1>2, <1>3
  <2>2. QED BY <1>3, <2>1
<1>7. AnswersAreFilled' BY <1>1, <1>2, <1>3, <1>6 DEF PortalInv, AnswersAreFilled
<1>8. PickIsReached' BY <1>1, <1>2, <1>3, <1>6 DEF PortalInv, PickIsReached
<1>9. QED BY <1>4, <1>5, <1>7, <1>8 DEF PortalInv

-----------------------------------------------------------------------------
LEMMA PortalStep == PortalInv /\ [PortalNext]_portalVars => PortalInv'
<1> SUFFICES ASSUME PortalInv, [PortalNext]_portalVars PROVE PortalInv'
    OBVIOUS
<1>1. CASE UNCHANGED portalVars
    BY <1>1 DEF portalVars, PortalInv, PortalTypes, SessionAsks, NewestIsPick, ListedIsNewest,
                AnswersAreFilled, PickIsReached
<1>2. CASE ReloadPortal
    BY <1>2, FreshInv DEF ReloadPortal, PortalInv, PortalTypes
<1>3. QED BY <1>1, <1>2, ButtonsKeep, AuthenticateKeeps, ProfileKeeps, ServeFetchKeeps,
             ShowFetchKeeps, FailFetchKeeps, FillKeeps DEF PortalNext

(* Once every answer is there and in order, the portal lists what is        *)
(* selected, and the contractor is on one of its pages, unless Next was     *)
(* clicked on an outdated list or the list became shorter.                  *)
THEOREM PortalStaysTrue == PortalSpec => []PortalIsTrue
<1>1. ASSUME PortalInv PROVE PortalIsTrue
  <2>1. PortalTypeOK BY <1>1 DEF PortalInv, PortalTypes, PortalTypeOK, Fetches
  <2>2. SelectionIsListed BY <1>1, AllAnswered DEF SelectionIsListed, OnScreen
  <2>3. PageIsReachable
    <3> SUFFICES ASSUME ~error, fetch # <<>>, InFlight = {}, ~late, ~hurried, pick.filter \notin shrunk
                 PROVE  pick.page <= Max({1, listed.pages})
        BY DEF PageIsReachable, OnScreen
    <3>1. listed.pages = fetch[Len(fetch)].pages /\ fetch[Len(fetch)].at = "done"
        BY <1>1, AllAnswered
    <3>2. pick.page > 1 => pick.page <= listed.pages
        BY <1>1, <3>1 DEF PortalInv, PickIsReached
    <3>3. pick.page \in Nat /\ listed.pages \in Nat BY <1>1, FetchParts
    <3>4. Max({1, listed.pages}) \in Nat /\ Max({1, listed.pages}) >= 1
          /\ Max({1, listed.pages}) >= listed.pages
        BY <3>3, MaxOfTwo
    <3>5. QED BY <3>2, <3>3, <3>4
  <2>4. QED BY <2>1, <2>2, <2>3 DEF PortalIsTrue
<1>2. QED BY <1>1, PortalInitInv, PortalStep, PTL DEF PortalSpec

HIDE PortalAssumption

-----------------------------------------------------------------------------
(***************************************************************************)
(* The rates, for any processes, requests and days, and any life of an     *)
(* entry and bound on a fetch.                                             *)
(***************************************************************************)
USE RatesAssumption

GetRows == [at: {"idle", "asking", "given", "answered"}, server: Servers,
            source: {"none", "live", "cache"}, day: RateDays, waited: 0 .. MaxWait, floor: RateDays]
EntryRows == [day: RateDays, age: 0 .. CacheLife + 1]
Clocks == [1 .. MaxDay -> 0 .. Overdue]

(* What was answered by "n" at the times "t" is not newer than "day" for    *)
(* longer than "ticks".                                                     *)
LagsLess(day, ticks, n, t) == day >= n \/ t[day + 1] <= ticks

(* A request that has rates has the newest that were answered before it     *)
(* asked; it lags behind by no more than the time it has waited.            *)
SoundGet(row, n, d, t) ==
    /\ row.floor <= n
    /\ row.at = "given" =>
           row.day \in 1 .. d /\ row.day >= row.floor /\ LagsLess(row.day, row.waited, n, t)
    /\ row.at = "answered" /\ row.source = "live" => row.day >= row.floor

(* An entry lags behind by its age and the time its fetch took.             *)
SoundEntry(e, n, t) ==
    /\ e.day <= n
    /\ e.day # 0 /\ e.age <= CacheLife => LagsLess(e.day, e.age + MaxWait, n, t)

RatesInv ==
    /\ today \in 1 .. MaxDay /\ newest \in 0 .. today
    /\ since \in Clocks /\ \A d \in 1 .. MaxDay : d > newest => since[d] = 0
    /\ get \in [Getters -> GetRows] /\ cache \in [Servers -> EntryRows]
    /\ \A g \in Getters : SoundGet(get[g], newest, today, since)
    /\ \A s \in Servers : SoundEntry(cache[s], newest, since)

LEMMA RateBounds == CacheLife \in Nat /\ MaxWait \in Nat /\ MaxDay \in Nat /\ MaxDay >= 1
BY DEF RatesAssumption

(* What is sound stays so when newer rates are answered or another day      *)
(* comes.                                                                   *)
LEMMA StillSound ==
    ASSUME NEW d \in 1 .. MaxDay, NEW e \in d .. MaxDay,
           NEW n \in 0 .. d, NEW m \in n .. e,
           NEW t \in Clocks, \A x \in 1 .. MaxDay : x > n => t[x] = 0
    PROVE  /\ \A row \in GetRows : SoundGet(row, n, d, t) => SoundGet(row, m, e, t)
           /\ \A entry \in EntryRows : SoundEntry(entry, n, t) => SoundEntry(entry, m, t)
<1>1. ASSUME NEW day \in RateDays, NEW ticks \in Nat, LagsLess(day, ticks, n, t)
      PROVE  LagsLess(day, ticks, m, t)
  <2>1. CASE day >= n /\ day < m
    <3>1. day + 1 \in 1 .. MaxDay /\ day + 1 > n BY <2>1, RateBounds DEF RateDays
    <3>2. t[day + 1] = 0 BY <3>1
    <3>3. QED BY <3>2 DEF LagsLess
  <2>2. CASE day >= m BY <2>2 DEF LagsLess
  <2>3. CASE day < n BY <1>1, <2>3 DEF LagsLess, RateDays
  <2>4. QED BY <2>1, <2>2, <2>3, RateBounds DEF RateDays
<1>2. ASSUME NEW row \in GetRows, SoundGet(row, n, d, t) PROVE SoundGet(row, m, e, t)
  <2>1. row.day \in RateDays /\ row.waited \in Nat /\ row.floor \in Nat
      BY RateBounds DEF GetRows, RateDays
  <2>2. LagsLess(row.day, row.waited, n, t) => LagsLess(row.day, row.waited, m, t)
      BY <1>1, <2>1
  <2>3. QED BY <1>2, <2>1, <2>2 DEF SoundGet
<1>3. ASSUME NEW entry \in EntryRows, SoundEntry(entry, n, t) PROVE SoundEntry(entry, m, t)
  <2>1. entry.day \in RateDays /\ entry.age + MaxWait \in Nat
      BY RateBounds DEF EntryRows
  <2>2. LagsLess(entry.day, entry.age + MaxWait, n, t) => LagsLess(entry.day, entry.age + MaxWait, m, t)
      BY <1>1, <2>1
  <2>3. entry.day <= m BY <1>3, <2>1 DEF SoundEntry, RateDays
  <2>4. QED BY <1>3, <2>2, <2>3 DEF SoundEntry
<1>4. QED BY <1>2, <1>3

LEMMA NoGetIs ==
    ASSUME NEW s \in Servers
    PROVE  NoGet(s) \in GetRows /\ NoGet(s).at = "idle" /\ NoGet(s).floor = 0
BY RateBounds DEF NoGet, GetRows, RateDays

LEMMA NoRatesIs == NoRates \in EntryRows /\ NoRates.day = 0
BY RateBounds DEF NoRates, EntryRows, RateDays

LEMMA RatesInitInv == RatesInit => RatesInv
<1> SUFFICES ASSUME RatesInit PROVE RatesInv
    OBVIOUS
<1>1. PICK s \in Servers : get = [g \in Getters |-> NoGet(s)] BY DEF RatesInit
<1>2. today = 1 /\ newest = 0 /\ cache = [p \in Servers |-> NoRates]
      /\ since = [d \in 1 .. MaxDay |-> 0]
    BY DEF RatesInit
<1>3. today \in 1 .. MaxDay /\ newest \in 0 .. today BY <1>2, RateBounds
<1>4. since \in Clocks /\ \A d \in 1 .. MaxDay : since[d] = 0
    BY <1>2, RateBounds DEF Clocks, Overdue
<1>5. get \in [Getters -> GetRows] /\ \A g \in Getters : SoundGet(get[g], newest, today, since)
    BY <1>1, <1>2, NoGetIs DEF SoundGet
<1>6. cache \in [Servers -> EntryRows] /\ \A p \in Servers : SoundEntry(cache[p], newest, since)
    BY <1>2, NoRatesIs DEF SoundEntry
<1>7. QED BY <1>3, <1>4, <1>5, <1>6 DEF RatesInv

(* One request moves on, with what that writes into the cache.              *)
LEMMA RequestKeeps ==
    ASSUME RatesInv, NEW g \in Getters, NEW row \in GetRows,
           UNCHANGED <<today, since>>, newest' \in newest .. today,
           get' = [get EXCEPT ![g] = row], SoundGet(row, newest', today, since),
           cache' \in [Servers -> EntryRows],
           \A s \in Servers : cache'[s] = cache[s] \/ SoundEntry(cache'[s], newest', since)
    PROVE  RatesInv'
<1>1. /\ today \in 1 .. MaxDay /\ newest \in 0 .. today /\ today \in today .. MaxDay
      /\ since \in Clocks /\ \A d \in 1 .. MaxDay : d > newest => since[d] = 0
    BY RateBounds DEF RatesInv
<1>2. /\ \A r \in GetRows : SoundGet(r, newest, today, since) => SoundGet(r, newest', today, since)
      /\ \A e \in EntryRows : SoundEntry(e, newest, since) => SoundEntry(e, newest', since)
    BY <1>1, StillSound
<1>3. get' \in [Getters -> GetRows] /\ \A h \in Getters : SoundGet(get'[h], newest', today, since)
  <2>1. \A h \in Getters : get'[h] = IF h = g THEN row ELSE get[h] BY DEF RatesInv
  <2>2. \A h \in Getters : get[h] \in GetRows /\ SoundGet(get[h], newest, today, since)
      BY DEF RatesInv
  <2>3. get' \in [Getters -> GetRows] BY DEF RatesInv
  <2>4. QED BY <1>2, <2>1, <2>2, <2>3
<1>4. \A s \in Servers : SoundEntry(cache'[s], newest', since)
  <2>1. \A s \in Servers : cache[s] \in EntryRows /\ SoundEntry(cache[s], newest, since)
      BY DEF RatesInv
  <2>2. QED BY <1>2, <2>1
<1>5. newest' \in 0 .. today BY <1>1
<1>6. \A d \in 1 .. MaxDay : d > newest' => since[d] = 0 BY <1>1
<1>7. QED BY <1>1, <1>3, <1>4, <1>5, <1>6 DEF RatesInv

LEMMA RateParts ==
    ASSUME RatesInv
    PROVE  /\ today \in 1 .. MaxDay /\ newest \in 0 .. today /\ since \in Clocks
           /\ newest \in RateDays /\ today \in RateDays
           /\ \A d \in 1 .. MaxDay : d > newest => since[d] = 0
           /\ cache \in [Servers -> EntryRows]
           /\ \A g \in Getters : get[g] \in GetRows /\ SoundGet(get[g], newest, today, since)
           /\ \A s \in Servers : cache[s] \in EntryRows /\ SoundEntry(cache[s], newest, since)
BY RateBounds DEF RatesInv, RateDays

(* An answer from the cache.                                                *)
LEMMA CachedKeeps ==
    ASSUME RatesInv, NEW g \in Getters, NEW s \in Servers, Unexpired(s), NEW row \in GetRows,
           row.at = "answered", row.source = "cache", row.day = cache[s].day, row.floor <= newest,
           Answered(g, row), UNCHANGED cache
    PROVE  RatesInv' /\ NoOlder(row.day, CacheLife + MaxWait)
<1>1. cache[s] \in EntryRows /\ SoundEntry(cache[s], newest, since) /\ newest \in 0 .. today
      /\ today \in 1 .. MaxDay /\ since \in Clocks
    BY RateParts
<1>2. newest' = newest BY <1>1 DEF Answered, SoundEntry, EntryRows, RateDays
<1>3. SoundGet(row, newest, today, since) BY DEF SoundGet
<1>4. RatesInv'
  <2>1. newest' \in newest .. today BY <1>1, <1>2
  <2>2. get' = [get EXCEPT ![g] = row] /\ UNCHANGED <<today, since>> BY DEF Answered
  <2>3. cache' \in [Servers -> EntryRows] BY RateParts
  <2>4. QED BY <1>2, <1>3, <2>1, <2>2, <2>3, RequestKeeps
<1>5. LagsLess(row.day, cache[s].age + MaxWait, newest, since)
    BY <1>1 DEF SoundEntry, Unexpired
<1>6. cache[s].age \in Nat /\ cache[s].age <= CacheLife /\ row.day \in 0 .. MaxDay
    BY <1>1, RateBounds DEF EntryRows, Unexpired, RateDays
<1>7. CASE row.day >= newest BY <1>4, <1>7 DEF NoOlder
<1>8. CASE row.day < newest
  <2>1. row.day + 1 \in 1 .. MaxDay BY <1>1, <1>6, <1>8, RateBounds
  <2>2. since[row.day + 1] \in Nat BY <1>1, <2>1, RateBounds DEF Clocks, Overdue
  <2>3. since[row.day + 1] <= cache[s].age + MaxWait BY <1>1, <1>5, <1>6, <1>8 DEF LagsLess
  <2>4. QED BY <1>4, <1>6, <2>2, <2>3, RateBounds DEF NoOlder
<1>9. QED BY <1>1, <1>4, <1>6, <1>7, <1>8, RateBounds

(* An answer of the provider, which fills the cache of its process.         *)
LEMMA LiveKeeps ==
    ASSUME RatesInv, NEW g \in Getters, SetCachedResponse(g)
    PROVE  RatesInv' /\ NoOlder(get'[g].day, CacheLife + MaxWait)
<1> DEFINE row == [get[g] EXCEPT !.at = "answered", !.source = "live"]
           entry == [day |-> get[g].day, age |-> 0]
           s == get[g].server
<1>1. get[g] \in GetRows /\ SoundGet(get[g], newest, today, since) /\ get[g].at = "given"
      /\ newest \in 0 .. today /\ today \in 1 .. MaxDay /\ since \in Clocks
    BY RateParts DEF SetCachedResponse
<1>2. /\ row \in GetRows /\ row.at = "answered" /\ row.source = "live" /\ row.day = get[g].day
      /\ row.floor = get[g].floor
    BY <1>1 DEF GetRows
<1>3. /\ get[g].day \in 1 .. today /\ get[g].day >= get[g].floor /\ get[g].floor <= newest
      /\ LagsLess(get[g].day, get[g].waited, newest, since)
      /\ get[g].waited \in 0 .. MaxWait /\ get[g].day \in RateDays /\ s \in Servers
      /\ get[g].floor \in RateDays
    BY <1>1 DEF SoundGet, GetRows
<1>4. /\ cache' = [cache EXCEPT ![s] = entry] /\ get' = [get EXCEPT ![g] = row]
      /\ newest' = (IF row.day > newest THEN row.day ELSE newest) /\ UNCHANGED <<today, since>>
    BY DEF SetCachedResponse, Answered
<1>5. entry \in EntryRows /\ entry.day = get[g].day /\ entry.age = 0
    BY <1>3, RateBounds DEF EntryRows
<1> HIDE DEF row, entry, s
<1>6. newest' \in newest .. today /\ get[g].day <= newest' BY <1>1, <1>2, <1>3, <1>4
<1>7. SoundGet(row, newest', today, since)
    BY <1>1, <1>2, <1>3, <1>6, RateBounds DEF SoundGet, RateDays
<1>8. SoundEntry(entry, newest', since)
  <2>1. LagsLess(get[g].day, MaxWait, newest, since)
    <3>1. CASE get[g].day < newest
      <4>1. get[g].day + 1 \in 1 .. MaxDay BY <1>1, <1>3, <3>1
      <4>2. since[get[g].day + 1] \in Nat BY <1>1, <4>1, RateBounds DEF Clocks, Overdue
      <4>3. since[get[g].day + 1] <= get[g].waited BY <1>1, <1>3, <3>1 DEF LagsLess
      <4>4. QED BY <1>3, <4>2, <4>3, RateBounds DEF LagsLess
    <3>2. CASE get[g].day >= newest BY <3>2 DEF LagsLess
    <3>3. QED BY <1>1, <1>3, <3>1, <3>2
  <2>2. LagsLess(get[g].day, MaxWait, newest', since)
    <3>1. newest' = newest \/ get[g].day >= newest' BY <1>1, <1>2, <1>3, <1>4
    <3>2. QED BY <2>1, <3>1 DEF LagsLess
  <2>3. entry.age + MaxWait = MaxWait BY <1>5, RateBounds
  <2>4. QED BY <1>5, <1>6, <2>2, <2>3 DEF SoundEntry
<1>9. cache' \in [Servers -> EntryRows]
      /\ \A p \in Servers : cache'[p] = cache[p] \/ SoundEntry(cache'[p], newest', since)
  <2>1. cache \in [Servers -> EntryRows] BY RateParts
  <2>2. \A p \in Servers : cache'[p] = IF p = s THEN entry ELSE cache[p] BY <1>4, <2>1
  <2>3. cache' \in [Servers -> EntryRows] BY <1>4, <1>5, <2>1
  <2>4. QED BY <1>8, <2>2, <2>3
<1>10. RatesInv' BY <1>2, <1>4, <1>6, <1>7, <1>9, RequestKeeps
<1>11. get'[g] = row
  <2>1. get \in [Getters -> GetRows] BY DEF RatesInv
  <2>2. QED BY <1>4, <2>1
<1>12. NoOlder(get'[g].day, CacheLife + MaxWait)
  <2>1. CASE get[g].day < newest
    <3>1. get[g].day + 1 \in 1 .. MaxDay BY <1>1, <1>3, <2>1
    <3>2. since[get[g].day + 1] \in Nat BY <1>1, <3>1, RateBounds DEF Clocks, Overdue
    <3>3. since[get[g].day + 1] <= get[g].waited BY <1>1, <1>3, <2>1 DEF LagsLess
    <3>4. since[get[g].day + 1] <= CacheLife + MaxWait BY <1>3, <3>2, <3>3, RateBounds
    <3>5. QED BY <1>2, <1>11, <3>4 DEF NoOlder
  <2>2. CASE get[g].day >= newest BY <1>2, <1>11, <2>2 DEF NoOlder
  <2>3. QED BY <1>1, <1>3, <2>1, <2>2
<1>13. QED BY <1>10, <1>12

(* A request of which nothing is known yet.                                 *)
LEMMA PlainKeeps ==
    ASSUME RatesInv, NEW g \in Getters, NEW row \in GetRows, row.at \in {"idle", "asking"},
           row.floor <= newest, get' = [get EXCEPT ![g] = row],
           UNCHANGED <<today, cache, newest, since>>
    PROVE  RatesInv'
<1>1. SoundGet(row, newest, today, since) BY DEF SoundGet
<1>2. newest' \in newest .. today /\ cache' \in [Servers -> EntryRows] BY RateParts
<1>3. QED BY <1>1, <1>2, RequestKeeps

LEMMA AgeKeeps == ASSUME RatesInv, AgeRates PROVE RatesInv'
<1>1. /\ today \in 1 .. MaxDay /\ newest \in 0 .. today /\ since \in Clocks
      /\ UNCHANGED <<today, newest>>
      /\ since' = [d \in 1 .. MaxDay |->
                       IF d <= newest /\ since[d] < Overdue THEN since[d] + 1 ELSE since[d]]
    BY RateParts DEF AgeRates
<1>2. /\ since' \in Clocks /\ \A d \in 1 .. MaxDay : since'[d] <= since[d] + 1
      /\ \A d \in 1 .. MaxDay : d > newest => since'[d] = 0
  <2>1. \A d \in 1 .. MaxDay : since[d] \in 0 .. Overdue BY <1>1 DEF Clocks
  <2>2. Overdue \in Nat BY RateBounds DEF Overdue
  <2>3. \A d \in 1 .. MaxDay : since'[d] \in 0 .. Overdue /\ since'[d] <= since[d] + 1
      BY <1>1, <2>1, <2>2
  <2>4. since' \in Clocks BY <1>1, <2>3 DEF Clocks
  <2>5. QED BY <1>1, <2>3, <2>4, RateParts
<1>3. ASSUME NEW day \in RateDays, NEW ticks \in Nat, LagsLess(day, ticks, newest, since)
      PROVE  LagsLess(day, ticks + 1, newest, since')
  <2>1. CASE day >= newest BY <2>1 DEF LagsLess
  <2>2. CASE day < newest
    <3>1. day + 1 \in 1 .. MaxDay BY <1>1, <2>2, RateBounds DEF RateDays
    <3>2. since[day + 1] <= ticks BY <1>1, <1>3, <2>2 DEF LagsLess, RateDays
    <3>3. since[day + 1] \in Nat /\ since'[day + 1] \in Nat
        BY <1>1, <1>2, <3>1, RateBounds DEF Clocks, Overdue
    <3>4. QED BY <1>2, <3>1, <3>2, <3>3 DEF LagsLess
  <2>3. QED BY <1>1, <2>1, <2>2 DEF RateDays
<1>4. ASSUME NEW g \in Getters
      PROVE  get'[g] \in GetRows /\ SoundGet(get'[g], newest, today, since')
  <2>1. get[g] \in GetRows /\ SoundGet(get[g], newest, today, since) BY RateParts
  <2>2. CASE Waiting(g)
    <3> DEFINE row == [get[g] EXCEPT !.waited = get[g].waited + 1]
    <3>1. get'[g] = row /\ get[g].waited < MaxWait BY <2>2 DEF AgeRates
    <3>2. get[g].waited \in 0 .. MaxWait /\ get[g].day \in RateDays BY <2>1 DEF GetRows
    <3>3. get[g].waited + 1 \in 0 .. MaxWait BY <3>1, <3>2, RateBounds
    <3>4. /\ row \in GetRows /\ row.at = get[g].at /\ row.day = get[g].day
          /\ row.floor = get[g].floor /\ row.waited = get[g].waited + 1
          /\ row.source = get[g].source
        BY <2>1, <3>3 DEF GetRows
    <3> HIDE DEF row
    <3>5. LagsLess(get[g].day, get[g].waited, newest, since)
              => LagsLess(get[g].day, get[g].waited + 1, newest, since')
        BY <1>3, <3>2, RateBounds
    <3>6. QED BY <2>1, <3>1, <3>4, <3>5 DEF SoundGet
  <2>3. CASE ~Waiting(g)
    <3>1. get'[g] = get[g] /\ get[g].at # "given" BY <2>3 DEF AgeRates, Waiting
    <3>2. QED BY <2>1, <3>1 DEF SoundGet
  <2>4. QED BY <2>2, <2>3
<1>5. ASSUME NEW s \in Servers
      PROVE  cache'[s] \in EntryRows /\ SoundEntry(cache'[s], newest, since')
  <2>1. cache[s] \in EntryRows /\ SoundEntry(cache[s], newest, since) BY RateParts
  <2> DEFINE age == IF cache[s].age > CacheLife THEN cache[s].age ELSE cache[s].age + 1
             row == [cache[s] EXCEPT !.age = age]
  <2>2. cache'[s] = row BY DEF AgeRates
  <2>3. cache[s].age \in 0 .. CacheLife + 1 /\ cache[s].day \in RateDays BY <2>1 DEF EntryRows
  <2>4. age \in 0 .. CacheLife + 1 /\ (age <= CacheLife => age = cache[s].age + 1)
      BY <2>3, RateBounds
  <2> HIDE DEF age
  <2>5. row \in EntryRows /\ row.day = cache[s].day /\ row.age = age BY <2>1, <2>4 DEF EntryRows
  <2> HIDE DEF row
  <2>6. LagsLess(cache[s].day, cache[s].age + MaxWait, newest, since)
            => LagsLess(cache[s].day, cache[s].age + MaxWait + 1, newest, since')
      BY <1>3, <2>3, RateBounds
  <2>7. age <= CacheLife => age + MaxWait = cache[s].age + MaxWait + 1
                            /\ cache[s].age <= CacheLife
      BY <2>3, <2>4, RateBounds
  <2>8. QED BY <2>1, <2>2, <2>5, <2>6, <2>7 DEF SoundEntry
<1>6. get' \in [Getters -> GetRows]
  <2>1. get' = [g \in Getters |-> IF Waiting(g) THEN [get[g] EXCEPT !.waited = get[g].waited + 1]
                                  ELSE get[g]]
      BY DEF AgeRates
  <2>2. QED BY <1>4, <2>1
<1>7. cache' \in [Servers -> EntryRows]
  <2>1. cache' = [s \in Servers |-> [cache[s] EXCEPT !.age = IF cache[s].age > CacheLife
                                       THEN cache[s].age ELSE cache[s].age + 1]]
      BY DEF AgeRates
  <2>2. QED BY <1>5, <2>1
<1>8. QED BY <1>1, <1>2, <1>4, <1>5, <1>6, <1>7 DEF RatesInv

LEMMA RestartKeeps ==
    ASSUME RatesInv, NEW s \in Servers, RestartServer(s) PROVE RatesInv'
<1>1. /\ UNCHANGED <<today, newest, since>> /\ cache' = [cache EXCEPT ![s] = NoRates]
      /\ get' = [g \in Getters |-> IF get[g].server = s THEN NoGet(s) ELSE get[g]]
    BY DEF RestartServer
<1>2. SoundEntry(NoRates, newest, since) /\ SoundGet(NoGet(s), newest, today, since)
    BY NoRatesIs, NoGetIs, RateParts DEF SoundEntry, SoundGet
<1>3. get' \in [Getters -> GetRows] /\ \A g \in Getters : SoundGet(get'[g], newest, today, since)
    BY <1>1, <1>2, NoGetIs, RateParts
<1>4. cache' \in [Servers -> EntryRows] /\ \A p \in Servers : SoundEntry(cache'[p], newest, since)
    BY <1>1, <1>2, NoRatesIs, RateParts
<1>5. QED BY <1>1, <1>3, <1>4 DEF RatesInv

LEMMA DayKeeps == ASSUME RatesInv, NextDay PROVE RatesInv'
<1>1. today' = today + 1 /\ today' \in today .. MaxDay /\ UNCHANGED <<cache, get, newest, since>>
    BY RateParts, RateBounds DEF NextDay
<1>2. newest \in newest .. today' BY <1>1, RateParts
<1>3. /\ \A r \in GetRows : SoundGet(r, newest, today, since) => SoundGet(r, newest, today', since)
      /\ \A e \in EntryRows : SoundEntry(e, newest, since) => SoundEntry(e, newest, since)
    BY <1>1, <1>2, RateParts, StillSound
<1>4. \A g \in Getters : SoundGet(get[g], newest, today', since) BY <1>3, RateParts
<1>5. today' \in 1 .. MaxDay /\ newest \in 0 .. today' BY <1>1, RateParts
<1>6. QED BY <1>1, <1>4, <1>5 DEF RatesInv

(* A step keeps the invariant, and what it answers keeps up.                *)
LEMMA RequestStep ==
    ASSUME RatesInv, NEW g \in Getters,
           (\E s \in Servers : GetCached(g, s) \/ FetchLiveRates(g, s))
               \/ GiveRates(g) \/ SetCachedResponse(g) \/ FallBack(g) \/ Leave(g)
    PROVE  RatesInv' /\ \A h \in Getters : KeepsUp(h)
<1>1. get[g] \in GetRows /\ get \in [Getters -> GetRows] /\ newest \in RateDays
      /\ SoundGet(get[g], newest, today, since) /\ newest \in Nat /\ today \in RateDays
    BY RateParts DEF RatesInv, RateDays
<1>2. ASSUME NEW row \in GetRows, get' = [get EXCEPT ![g] = row],
             row.at # "answered" \/ NoOlder(row.day, CacheLife + MaxWait)
      PROVE  \A h \in Getters : KeepsUp(h)
  <2>1. \A h \in Getters : get'[h] = IF h = g THEN row ELSE get[h] BY <1>1, <1>2
  <2>2. QED BY <1>2, <2>1 DEF KeepsUp
<1>3. ASSUME NEW s \in Servers, GetCached(g, s) PROVE RatesInv' /\ \A h \in Getters : KeepsUp(h)
  <2> DEFINE row == [at |-> "answered", server |-> s, source |-> "cache",
                     day |-> cache[s].day, waited |-> 0, floor |-> newest]
  <2>1. Unexpired(s) /\ Answered(g, row) /\ UNCHANGED cache BY <1>3 DEF GetCached
  <2>2. cache[s].day \in RateDays BY RateParts DEF EntryRows
  <2>3. /\ row \in GetRows /\ row.at = "answered" /\ row.source = "cache"
        /\ row.day = cache[s].day /\ row.floor = newest
      BY <1>1, <2>2, RateBounds DEF GetRows
  <2> HIDE DEF row
  <2>4. row.floor <= newest BY <1>1, <2>3
  <2>5. RatesInv' /\ NoOlder(row.day, CacheLife + MaxWait) BY <2>1, <2>3, <2>4, CachedKeeps
  <2>6. QED BY <1>2, <2>1, <2>3, <2>5 DEF Answered
<1>4. ASSUME NEW s \in Servers, FetchLiveRates(g, s)
      PROVE  RatesInv' /\ \A h \in Getters : KeepsUp(h)
  <2> DEFINE row == [at |-> "asking", server |-> s, source |-> "none",
                     day |-> 0, waited |-> 0, floor |-> newest]
  <2>1. get' = [get EXCEPT ![g] = row] /\ UNCHANGED <<today, cache, newest, since>>
      BY <1>4 DEF FetchLiveRates
  <2>2. row \in GetRows /\ row.at = "asking" /\ row.floor = newest
      BY <1>1, RateBounds DEF GetRows, RateDays
  <2> HIDE DEF row
  <2>3. row.floor <= newest BY <1>1, <2>2
  <2>4. QED BY <1>2, <2>1, <2>2, <2>3, PlainKeeps
<1>5. CASE GiveRates(g)
  <2> DEFINE row == [get[g] EXCEPT !.at = "given", !.day = today]
  <2>1. get' = [get EXCEPT ![g] = row] /\ UNCHANGED <<today, cache, newest, since>>
      BY <1>5 DEF GiveRates
  <2>2. /\ row \in GetRows /\ row.at = "given" /\ row.day = today /\ row.floor = get[g].floor
      BY <1>1 DEF GetRows
  <2> HIDE DEF row
  <2>3. SoundGet(row, newest, today, since)
    <3>1. today \in 1 .. today /\ today >= newest /\ get[g].floor <= newest
          /\ get[g].floor \in RateDays
        BY <1>1, RateParts DEF SoundGet, GetRows
    <3>2. today >= get[g].floor BY <1>1, <3>1, RateBounds DEF RateDays
    <3>3. QED BY <2>2, <3>1, <3>2 DEF SoundGet, LagsLess
  <2>4. newest' \in newest .. today /\ cache' \in [Servers -> EntryRows] BY <2>1, RateParts
  <2>5. RatesInv' BY <2>1, <2>2, <2>3, <2>4, RequestKeeps
  <2>6. QED BY <1>2, <2>1, <2>2, <2>5
<1>6. CASE SetCachedResponse(g)
  <2> DEFINE row == [get[g] EXCEPT !.at = "answered", !.source = "live"]
  <2>1. get' = [get EXCEPT ![g] = row] BY <1>6 DEF SetCachedResponse, Answered
  <2>2. row \in GetRows BY <1>1 DEF GetRows
  <2> HIDE DEF row
  <2>3. get'[g] = row BY <1>1, <2>1
  <2>4. QED BY <1>2, <1>6, <2>1, <2>2, <2>3, LiveKeeps
<1>7. CASE FallBack(g)
  <2> DEFINE s == get[g].server
             row == [get[g] EXCEPT !.at = "answered", !.source = "cache", !.day = cache[s].day]
  <2>1. s \in Servers BY <1>1 DEF GetRows
  <2>2. CASE Unexpired(s) /\ Answered(g, row) /\ UNCHANGED cache
    <3>1. cache[s].day \in RateDays BY <2>1, RateParts DEF EntryRows
    <3>2. /\ row \in GetRows /\ row.at = "answered" /\ row.source = "cache"
          /\ row.day = cache[s].day /\ row.floor = get[g].floor
        BY <1>1, <3>1 DEF GetRows
    <3> HIDE DEF row, s
    <3>3. row.floor <= newest BY <1>1, <3>2 DEF SoundGet
    <3>4. RatesInv' /\ NoOlder(row.day, CacheLife + MaxWait)
        BY <2>1, <2>2, <3>2, <3>3, CachedKeeps
    <3>5. QED BY <1>2, <2>2, <3>2, <3>4 DEF Answered
  <2>3. CASE get' = [get EXCEPT ![g] = NoGet(s)] /\ UNCHANGED <<today, cache, newest, since>>
    <3> HIDE DEF s
    <3>1. NoGet(s) \in GetRows /\ NoGet(s).at = "idle" /\ NoGet(s).floor <= newest
        BY <1>1, <2>1, NoGetIs
    <3>2. QED BY <1>2, <2>3, <3>1, PlainKeeps
  <2>4. QED BY <1>7, <2>2, <2>3 DEF FallBack
<1>8. CASE Leave(g)
  <2>1. get[g].server \in Servers BY <1>1 DEF GetRows
  <2>2. get' = [get EXCEPT ![g] = NoGet(get[g].server)] /\ UNCHANGED <<today, cache, newest, since>>
      BY <1>8 DEF Leave
  <2>3. NoGet(get[g].server) \in GetRows /\ NoGet(get[g].server).at = "idle"
        /\ NoGet(get[g].server).floor <= newest
      BY <1>1, <2>1, NoGetIs
  <2>4. QED BY <1>2, <2>2, <2>3, PlainKeeps
<1>9. QED BY <1>3, <1>4, <1>5, <1>6, <1>7, <1>8

LEMMA RatesStep ==
    ASSUME RatesInv, [RatesNext]_ratesVars
    PROVE  RatesInv' /\ [\A g \in Getters : KeepsUp(g)]_ratesVars
<1>1. CASE UNCHANGED ratesVars
  <2>1. UNCHANGED <<today, cache, get, newest, since>> BY <1>1 DEF ratesVars
  <2>2. QED BY <1>1, <2>1 DEF RatesInv
<1>2. CASE AgeRates \/ NextDay \/ \E s \in Servers : RestartServer(s)
  <2>1. RatesInv' BY <1>2, AgeKeeps, DayKeeps, RestartKeeps
  <2>2. ASSUME NEW g \in Getters PROVE KeepsUp(g)
    <3>1. get'[g].at = "answered" => get[g].at = "answered"
      <4>1. CASE AgeRates
        <5>1. get'[g] = IF Waiting(g) THEN [get[g] EXCEPT !.waited = get[g].waited + 1] ELSE get[g]
            BY <4>1 DEF AgeRates
        <5>2. get[g] \in GetRows BY RateParts
        <5>3. QED BY <5>1, <5>2 DEF GetRows
      <4>2. CASE NextDay BY <4>2 DEF NextDay
      <4>3. ASSUME NEW s \in Servers, RestartServer(s)
            PROVE  get'[g].at = "answered" => get[g].at = "answered"
          BY <4>3, NoGetIs DEF RestartServer
      <4>4. QED BY <1>2, <4>1, <4>2, <4>3
    <3>2. QED BY <3>1 DEF KeepsUp
  <2>3. QED BY <2>1, <2>2
<1>3. QED BY <1>1, <1>2, RequestStep DEF RatesNext

(* Answers may go back, between two processes and when a slow fetch writes  *)
(* over a newer one's entry, but not for long: once rates were answered, no *)
(* older ones are after the life of an entry and the longest fetch; and a   *)
(* live answer is never older than one before its request came in.          *)
THEOREM RatesStaySound == RatesSpec => RatesAreSound
<1>1. RatesInv => RatesTypeOK /\ LiveIsNew
    BY RateParts DEF RatesInv, RatesTypeOK, LiveIsNew, SoundGet, GetRows, EntryRows, Clocks
<1>2. RatesInv /\ [RatesNext]_ratesVars
          => RatesInv' /\ [\A g \in Getters : KeepsUp(g)]_ratesVars
    BY RatesStep
<1>3. QED BY <1>1, <1>2, RatesInitInv, PTL DEF RatesSpec, RatesAreSound

HIDE RatesAssumption

=============================================================================
