--------------------------- MODULE PaymentProofs ---------------------------
(***************************************************************************)
(* Theorems about money that comes and goes: the token transfers of        *)
(* Transfers, for any wallets, orders, decimals and concurrent calls, and  *)
(* the Dodo webhook with its dead letters of DodoBilling, for any events,  *)
(* handlers, reconciliations, checkouts and number of replays.             *)
(*                                                                         *)
(* What FoldLeft, a recursive function or a sum computes for every input   *)
(* is found by induction over the set of the naturals, or of the parts of  *)
(* a finite set, for which it is right.                                    *)
(***************************************************************************)
EXTENDS DodoBilling, Transfers, SumTheorems

(***************************************************************************)
(*                           Recursion and folds                           *)
(***************************************************************************)
(* A function by recursion on the naturals.                                 *)
LEMMA RecursionOnNat ==
    ASSUME NEW V, NEW b \in V, NEW step \in [V -> V]
    PROVE  \E f \in [Nat -> V] : f[0] = b /\ \A n \in Nat : f[n + 1] = step[f[n]]
<1> DEFINE Rec(g, n) == g[0] = b /\ \A k \in 0 .. n - 1 : g[k + 1] = step[g[k]]
           T == {n \in Nat : \E g \in [0 .. n -> V] : Rec(g, n)}
           G == [n \in Nat |-> CHOOSE g \in [0 .. n -> V] : Rec(g, n)]
           f == [n \in Nat |-> G[n][n]]
<1>1. T = Nat
  <2>1. 0 \in T
    <3>1. Rec([k \in 0 .. 0 |-> b], 0) OBVIOUS
    <3>2. [k \in 0 .. 0 |-> b] \in [0 .. 0 -> V] OBVIOUS
    <3>3. QED BY <3>1, <3>2
  <2>2. ASSUME NEW n \in T PROVE n + 1 \in T
    <3>1. PICK g \in [0 .. n -> V] : Rec(g, n) OBVIOUS
    <3> DEFINE h == [k \in 0 .. n + 1 |-> IF k = n + 1 THEN step[g[n]] ELSE g[k]]
    <3>2. n \in 0 .. n /\ step[g[n]] \in V OBVIOUS
    <3>3. h \in [0 .. n + 1 -> V]
      <4>1. \A k \in 0 .. n + 1 : k # n + 1 => k \in 0 .. n OBVIOUS
      <4>2. QED BY <3>2, <4>1
    <3>4. \A k \in 0 .. n : h[k] = g[k] OBVIOUS
    <3>5. h[n + 1] = step[h[n]] BY <3>2, <3>4
    <3>6. h[0] = b BY <3>1, <3>4
    <3>7. \A k \in 0 .. n : h[k + 1] = step[h[k]]
      <4> HIDE DEF h
      <4> TAKE k \in 0 .. n
      <4>1. CASE k = n BY <3>5, <4>1
      <4>2. CASE k # n
        <5>1. k \in 0 .. n - 1 /\ k + 1 \in 0 .. n BY <4>2
        <5>2. QED BY <3>1, <3>4, <5>1
      <4>3. QED BY <4>1, <4>2
    <3>8. Rec(h, n + 1)
      <4> HIDE DEF h
      <4>1. (n + 1) - 1 = n OBVIOUS
      <4>2. QED BY <3>6, <3>7, <4>1
    <3> HIDE DEF h
    <3>9. n + 1 \in Nat OBVIOUS
    <3>10. QED BY <3>3, <3>8, <3>9
  <2>3. QED
    <3> HIDE DEF T
    <3>1. T \in SUBSET Nat BY DEF T
    <3>2. QED BY <2>1, <2>2, <3>1, NatSetInduction
<1>2. \A n \in Nat : G[n] \in [0 .. n -> V] /\ Rec(G[n], n)
    BY <1>1
<1> HIDE DEF G
<1>3. \A n \in Nat : f[n] \in V BY <1>2
<1>4. f[0] = b BY <1>2
<1>5. ASSUME NEW n \in Nat PROVE f[n + 1] = step[f[n]]
  <2> DEFINE Q == {k \in Nat : k <= n => G[n + 1][k] = G[n][k]}
  <2>1. 0 \in Q
    <3>1. Rec(G[n + 1], n + 1) /\ Rec(G[n], n) BY <1>2
    <3>2. QED BY <3>1
  <2>2. ASSUME NEW k \in Q PROVE k + 1 \in Q
    <3>1. SUFFICES ASSUME k + 1 <= n PROVE G[n + 1][k + 1] = G[n][k + 1] OBVIOUS
    <3>2. k \in 0 .. n - 1 /\ k \in 0 .. (n + 1) - 1 /\ n + 1 \in Nat BY <3>1
    <3>3. Rec(G[n + 1], n + 1) /\ Rec(G[n], n) BY <1>2, <3>2
    <3>4. G[n + 1][k + 1] = step[G[n + 1][k]] BY <3>2, <3>3
    <3>5. G[n][k + 1] = step[G[n][k]] BY <3>2, <3>3
    <3>6. G[n + 1][k] = G[n][k] BY <3>1
    <3>7. QED BY <3>4, <3>5, <3>6
  <2>3. Q = Nat
    <3> HIDE DEF Q
    <3>1. Q \in SUBSET Nat BY DEF Q
    <3>2. QED BY <2>1, <2>2, <3>1, NatSetInduction
  <2>4. G[n + 1][n] = G[n][n]
    <3>1. n \in Q BY <2>3
    <3>2. QED BY <3>1
  <2>5. G[n + 1][n + 1] = step[G[n + 1][n]]
    <3>1. n \in 0 .. (n + 1) - 1 /\ n + 1 \in Nat OBVIOUS
    <3>2. Rec(G[n + 1], n + 1) BY <1>2, <3>1
    <3>3. QED BY <3>1, <3>2
  <2>6. QED BY <2>4, <2>5
<1>6. f \in [Nat -> V] BY <1>3
<1> HIDE DEF f
<1>7. QED BY <1>4, <1>5, <1>6

(* A fold over a finite set that takes its elements as pick does.           *)
HasFold(S, V, base, pick, step) ==
    \E F \in [SUBSET S -> V] : \A s \in SUBSET S :
        F[s] = IF s = {} THEN base ELSE step[pick[s]][F[s \ {pick[s]}]]

(* There is a function that folds every part of a finite set, in the        *)
(* order that pick takes its elements.                                      *)
LEMMA FoldExists ==
    ASSUME NEW S, IsFiniteSet(S), NEW V, NEW base \in V,
           NEW pick, \A s \in SUBSET S : s # {} => pick[s] \in s,
           NEW step, \A x \in S, v \in V : step[x][v] \in V
    PROVE  HasFold(S, V, base, pick, step)
<1> DEFINE At(F, s) == IF s = {} THEN base ELSE step[pick[s]][F[s \ {pick[s]}]]
           Upto(F, n) == \A s \in SUBSET S : Cardinality(s) <= n => F[s] = At(F, s)
           T == {n \in Nat : \E F \in [SUBSET S -> V] : Upto(F, n)}
<1>1. \A s \in SUBSET S : IsFiniteSet(s) /\ Cardinality(s) \in Nat
    BY FS_Subset, FS_CardinalityType
<1>2. 0 \in T
  <2>1. \A s \in SUBSET S : Cardinality(s) <= 0 => s = {}
      BY <1>1, FS_EmptySet
  <2>2. Upto([s \in SUBSET S |-> base], 0)
      BY <2>1
  <2>3. [s \in SUBSET S |-> base] \in [SUBSET S -> V] OBVIOUS
  <2>4. QED BY <2>2, <2>3
<1>3. \A n \in T : n + 1 \in T
  <2> SUFFICES ASSUME NEW n \in T PROVE n + 1 \in T
      OBVIOUS
  <2>1. PICK F \in [SUBSET S -> V] : Upto(F, n) OBVIOUS
  <2> DEFINE G == [s \in SUBSET S |-> IF Cardinality(s) <= n THEN F[s] ELSE At(F, s)]
  <2>2. \A s \in SUBSET S : s # {} =>
            /\ pick[s] \in S /\ s \ {pick[s]} \in SUBSET S
            /\ Cardinality(s \ {pick[s]}) = Cardinality(s) - 1
      BY <1>1, FS_RemoveElement
  <2>3. \A s \in SUBSET S : At(F, s) \in V BY <2>2
  <2>4. G \in [SUBSET S -> V]
    <3> HIDE DEF At
    <3>1. QED BY <2>3
  <2>5. ASSUME NEW s \in SUBSET S, Cardinality(s) <= n + 1
        PROVE  G[s] = At(G, s)
    <3>1. At(G, s) = At(F, s)
      <4>1. CASE s = {} BY <4>1
      <4>2. CASE s # {}
        <5>1. G[s \ {pick[s]}] = F[s \ {pick[s]}]
          <6>1. Cardinality(s \ {pick[s]}) <= n BY <1>1, <2>2, <2>5, <4>2
          <6>2. QED BY <2>2, <4>2, <6>1
        <5>2. QED BY <4>2, <5>1
      <4>3. QED BY <4>1, <4>2
    <3>2. G[s] = At(F, s)
      <4> HIDE DEF At
      <4>1. QED BY <2>1
    <3>3. QED BY <3>1, <3>2
  <2> HIDE DEF G
  <2>6. Upto(G, n + 1) BY <2>5
  <2>7. n + 1 \in Nat OBVIOUS
  <2> HIDE DEF Upto
  <2>8. QED BY <2>4, <2>6, <2>7
<1>4. T = Nat
  <2> HIDE DEF T
  <2>1. T \in SUBSET Nat BY DEF T
  <2>2. QED BY <1>2, <1>3, <2>1, NatSetInduction
<1>5. Cardinality(S) \in T BY <1>4, FS_CardinalityType
<1>6. PICK F \in [SUBSET S -> V] : Upto(F, Cardinality(S)) BY <1>5
<1>7. \A s \in SUBSET S : F[s] = At(F, s)
    BY <1>6, FS_Subset
<1>8. QED BY <1>7 DEF HasFold

(* A non-empty set of numbers up to n has a greatest.                       *)
LEMMA GreatestIn ==
    ASSUME NEW n \in Nat, NEW s \in SUBSET (0 .. n), s # {}
    PROVE  Max(s) \in s /\ \A x \in s : x <= Max(s)
<1> DEFINE T == {m \in Nat : \E x \in s : n - m = x}
<1>1. PICK y \in s : TRUE OBVIOUS
<1>2. n - y \in T
  <2>1. y \in 0 .. n OBVIOUS
  <2>2. n - y \in Nat /\ n - (n - y) = y BY <2>1
  <2>3. QED BY <2>2
<1>3. \E m \in T : \A k \in T : ~ <<k, m>> \in OpToRel(<, Nat)
  <2>1. T \in SUBSET Nat OBVIOUS
  <2> HIDE DEF T
  <2>2. QED BY <1>2, <2>1, WFMin, NatLessThanWellFounded
<1>4. PICK m \in T : \A k \in T : ~ (k < m) BY <1>3 DEF OpToRel
<1>5. PICK z \in s : n - m = z OBVIOUS
<1>6. \A x \in s : x <= z
  <2> SUFFICES ASSUME NEW x \in s, ~(x <= z) PROVE FALSE OBVIOUS
  <2>1. n - x \in T OBVIOUS
  <2>2. n - x < m BY <1>5
  <2>3. QED BY <1>4, <2>1, <2>2
<1>7. \E x \in s : \A w \in s : x >= w BY <1>6
<1>8. Max(s) \in s /\ \A w \in s : Max(s) >= w BY <1>7 DEF Max
<1>9. \A w \in s : w \in 0 .. n OBVIOUS
<1> DEFINE max == Max(s)
<1>10. max \in s /\ \A w \in s : max >= w BY <1>8
<1> HIDE DEF max
<1>11. max \in s /\ \A w \in s : w <= max BY <1>9, <1>10
<1>12. QED BY <1>11 DEF max

(***************************************************************************)
(*                             Decimal amounts                             *)
(***************************************************************************)
(* The powers of ten.                                                       *)
LEMMA TenToIs ==
    TenTo[0] = 1 /\ \A n \in Nat : TenTo[n] \in Nat \ {0} /\ TenTo[n + 1] = 10 * TenTo[n]
<1> DEFINE V == Nat \ {0}
           step == [v \in V |-> 10 * v]
           one == 1
<1>1. one \in V /\ step \in [V -> V] OBVIOUS
<1>2. PICK f \in [Nat -> V] : f[0] = one /\ \A n \in Nat : f[n + 1] = step[f[n]]
  <2> HIDE DEF V, step, one
  <2>1. QED BY <1>1, RecursionOnNat
<1>3. \A n \in Nat : f[n + 1] = 10 * f[n] BY <1>2
<1>4. f = [n \in Nat |-> IF n = 0 THEN 1 ELSE 10 * f[n - 1]]
  <2>1. ASSUME NEW n \in Nat PROVE f[n] = IF n = 0 THEN 1 ELSE 10 * f[n - 1]
    <3>1. CASE n = 0 BY <1>2, <3>1
    <3>2. CASE n # 0
      <4>1. n - 1 \in Nat /\ (n - 1) + 1 = n BY <3>2
      <4>2. f[(n - 1) + 1] = 10 * f[n - 1] BY <1>3, <4>1
      <4>3. QED BY <3>2, <4>1, <4>2
    <3>3. QED BY <3>1, <3>2
  <2>2. QED BY <2>1
<1>5. TenTo = [n \in Nat |-> IF n = 0 THEN 1 ELSE 10 * TenTo[n - 1]]
  <2> HIDE DEF V, step
  <2>1. QED BY <1>4 DEF TenTo
<1> DEFINE Q == {n \in Nat : TenTo[n] = f[n]}
<1>6. 0 \in Q BY <1>2, <1>5
<1>7. ASSUME NEW n \in Q PROVE n + 1 \in Q
  <2>1. TenTo[n + 1] = 10 * TenTo[n]
    <3>1. n + 1 \in Nat /\ n + 1 # 0 /\ (n + 1) - 1 = n OBVIOUS
    <3>2. QED BY <1>5, <3>1
  <2>2. QED BY <1>3, <2>1
<1>8. Q = Nat
  <2> HIDE DEF Q
  <2>1. Q \in SUBSET Nat BY DEF Q
  <2>2. QED BY <1>6, <1>7, <2>1, NatSetInduction
<1>9. \A n \in Nat : TenTo[n] = f[n] BY <1>8
<1>10. QED BY <1>2, <1>3, <1>9

(* The exponents of a product of powers of ten add up.                      *)
LEMMA TenToAdds ==
    ASSUME NEW m \in Nat, NEW n \in Nat PROVE TenTo[m + n] = TenTo[m] * TenTo[n]
<1> DEFINE Q == {k \in Nat : TenTo[m + k] = TenTo[m] * TenTo[k]}
<1>1. 0 \in Q
  <2>1. m + 0 = m /\ TenTo[m] * 1 = TenTo[m] BY TenToIs
  <2>2. QED BY <2>1, TenToIs
<1>2. ASSUME NEW k \in Q PROVE k + 1 \in Q
  <2>1. m + (k + 1) = (m + k) + 1 /\ m + k \in Nat OBVIOUS
  <2>2. TenTo[(m + k) + 1] = 10 * TenTo[m + k] /\ TenTo[k + 1] = 10 * TenTo[k] BY <2>1, TenToIs
  <2>3. TenTo[m + k] = TenTo[m] * TenTo[k] OBVIOUS
  <2> DEFINE a == TenTo[m]
             b == TenTo[k]
  <2>4. a \in Nat /\ b \in Nat BY TenToIs
  <2> HIDE DEF a, b
  <2>5. 10 * (a * b) = a * (10 * b) BY <2>4
  <2>6. TenTo[m + (k + 1)] = TenTo[m] * TenTo[k + 1] BY <2>1, <2>2, <2>3, <2>5 DEF a, b
  <2>7. QED BY <2>6
<1>3. Q = Nat
  <2> HIDE DEF Q
  <2>1. Q \in SUBSET Nat BY DEF Q
  <2>2. QED BY <1>1, <1>2, <2>1, NatSetInduction
<1>4. n \in Q BY <1>3
<1>5. QED BY <1>4

-----------------------------------------------------------------------------
(* What Number reads after each digit.                                      *)
Reads(s, v) ==
    /\ v \in [0 .. Len(s) -> Nat] /\ v[0] = 0
    /\ \A n \in 1 .. Len(s) : v[n] = 10 * v[n - 1] + s[n]

NumberAt(F, f, s) == IF s = {} THEN 0 ELSE 10 * F[s \ {Max(s)}] + f[Max(s)]
Numbers(f) == CHOOSE F : F = [s \in SUBSET DOMAIN f |-> NumberAt(F, f, s)]

(* A number is the fold the library computes over its places.               *)
LEMMA NumberIsFold == ASSUME NEW f PROVE Number(f) = Numbers(f)[DOMAIN f]
BY DEF Number, FoldLeft, MapThenFoldSet, NumberAt, Numbers

(* A number is read digit by digit, from the first to the last.             *)
LEMMA NumberRuns ==
    ASSUME NEW s \in Seq(Nat) PROVE \E v : Reads(s, v) /\ Number(s) = v[Len(s)]
<1> DEFINE D == 1 .. Len(s)
           pick == [t \in SUBSET D |-> IF t = {} THEN 0 ELSE Max(t)]
           step == [x \in D |-> [v \in Nat |-> 10 * v + s[x]]]
<1>1. Len(s) \in Nat /\ DOMAIN s = D /\ \A x \in D : s[x] \in Nat OBVIOUS
<1>2. IsFiniteSet(D) BY <1>1, FS_Interval
<1>3. \A t \in SUBSET D : t # {} => Max(t) \in t
  <2>1. \A t \in SUBSET D : t \in SUBSET (0 .. Len(s)) OBVIOUS
  <2> HIDE DEF D, pick, step
  <2>2. QED BY <1>1, <2>1, GreatestIn
<1>4. \A t \in SUBSET D : t # {} => pick[t] \in t BY <1>3
<1>5. \A x \in D, v \in Nat : step[x][v] = 10 * v + s[x] OBVIOUS
<1>6. \A x \in D, v \in Nat : step[x][v] \in Nat BY <1>1, <1>5
<1>7. \E F \in [SUBSET D -> Nat] : \A t \in SUBSET D :
          F[t] = IF t = {} THEN 0 ELSE step[pick[t]][F[t \ {pick[t]}]]
  <2> DEFINE V == Nat
             base == 0
  <2>1. base \in V /\ \A x \in D, v \in V : step[x][v] \in V BY <1>6
  <2> HIDE DEF D, pick, step, V, base
  <2>2. HasFold(D, V, base, pick, step) BY <1>2, <1>4, <2>1, FoldExists
  <2>3. QED BY <2>2 DEF V, base, HasFold
<1>8. PICK F \in [SUBSET D -> Nat] : \A t \in SUBSET D :
          F[t] = IF t = {} THEN 0 ELSE step[pick[t]][F[t \ {pick[t]}]]
    BY <1>7
<1>9. \A t \in SUBSET D : F[t] = NumberAt(F, s, t)
  <2> TAKE t \in SUBSET D
  <2>1. CASE t = {} BY <1>8, <2>1 DEF NumberAt
  <2>2. CASE t # {}
    <3>1. pick[t] = Max(t) /\ Max(t) \in D BY <1>3, <2>2
    <3>2. t \ {Max(t)} \in SUBSET D /\ F[t \ {Max(t)}] \in Nat OBVIOUS
    <3> HIDE DEF pick, step
    <3>3. F[t] = step[Max(t)][F[t \ {Max(t)}]] BY <1>8, <2>2, <3>1
    <3>4. step[Max(t)][F[t \ {Max(t)}]] = 10 * F[t \ {Max(t)}] + s[Max(t)]
        BY <1>5, <3>1, <3>2
    <3>5. QED BY <2>2, <3>3, <3>4 DEF NumberAt
  <2>3. QED BY <2>1, <2>2
<1>10. F = [t \in SUBSET DOMAIN s |-> NumberAt(F, s, t)]
  <2> HIDE DEF D
  <2>1. QED BY <1>1, <1>9
<1> DEFINE G == Numbers(s)
<1>11. G = [t \in SUBSET D |-> NumberAt(G, s, t)] BY <1>1, <1>10 DEF Numbers
<1> HIDE DEF G
<1>12. \A n \in D : G[1 .. n] = 10 * G[1 .. n - 1] + s[n]
  <2> TAKE n \in D
  <2>1. 1 .. n \in SUBSET D /\ 1 .. n # {} /\ n \in Nat BY <1>1
  <2>2. Max(1 .. n) = n
    <3>1. Max(1 .. n) \in 1 .. n /\ \A x \in 1 .. n : x <= Max(1 .. n)
      <4>1. 1 .. n \in SUBSET (0 .. n) BY <2>1
      <4>2. QED BY <2>1, <4>1, GreatestIn
    <3> DEFINE max == Max(1 .. n)
    <3>2. max \in 1 .. n /\ n <= max BY <3>1, <2>1
    <3> HIDE DEF max
    <3>3. max = n BY <3>2
    <3>4. QED BY <3>3 DEF max
  <2>3. (1 .. n) \ {n} = 1 .. n - 1 BY <2>1
  <2>4. G[1 .. n] = NumberAt(G, s, 1 .. n) BY <1>11, <2>1
  <2>5. QED BY <2>1, <2>2, <2>3, <2>4 DEF NumberAt
<1>13. G[{}] = 0 BY <1>11 DEF NumberAt
<1> DEFINE v == [n \in 0 .. Len(s) |-> G[1 .. n]]
           Q == {n \in Nat : n <= Len(s) => v[n] \in Nat}
<1>14. v[0] = 0 BY <1>1, <1>13
<1>15. \A n \in 1 .. Len(s) : v[n] = 10 * v[n - 1] + s[n]
    BY <1>1, <1>12
<1>16. \A n \in 0 .. Len(s) : v[n] \in Nat
  <2>1. 0 \in Q BY <1>14
  <2>2. ASSUME NEW n \in Q PROVE n + 1 \in Q
    <3>1. CASE n + 1 <= Len(s)
      <4>1. n + 1 \in 1 .. Len(s) /\ (n + 1) - 1 = n BY <1>1, <3>1
      <4>2. v[n + 1] = 10 * v[n] + s[n + 1] BY <1>15, <4>1
      <4>3. v[n] \in Nat /\ s[n + 1] \in Nat BY <1>1, <3>1, <4>1
      <4> HIDE DEF v
      <4>4. v[n + 1] \in Nat BY <4>2, <4>3
      <4>5. QED BY <4>4
    <3>2. CASE ~(n + 1 <= Len(s)) BY <3>2
    <3>3. QED BY <3>1, <3>2
  <2>3. Q = Nat
    <3> HIDE DEF Q
    <3>1. Q \in SUBSET Nat BY DEF Q
    <3>2. QED BY <2>1, <2>2, <3>1, NatSetInduction
  <2>4. \A n \in Nat : n <= Len(s) => v[n] \in Nat
    <3> HIDE DEF v
    <3>1. QED BY <2>3
  <2>5. \A n \in 0 .. Len(s) : n \in Nat /\ n <= Len(s) BY <1>1
  <2> HIDE DEF v
  <2>6. QED BY <2>4, <2>5
<1>17. v \in [0 .. Len(s) -> Nat]
  <2>1. v = [n \in 0 .. Len(s) |-> v[n]] OBVIOUS
  <2> HIDE DEF v
  <2>2. QED BY <1>16, <2>1
<1>18. Number(s) = v[Len(s)] BY <1>1, NumberIsFold DEF G
<1> HIDE DEF v
<1>19. QED BY <1>14, <1>15, <1>17, <1>18 DEF Reads

(* A number is what its digits read, however that is computed.              *)
LEMMA NumberIs ==
    ASSUME NEW s \in Seq(Nat), NEW v, Reads(s, v) PROVE Number(s) = v[Len(s)]
<1>1. PICK u : Reads(s, u) /\ Number(s) = u[Len(s)] BY NumberRuns
<1> DEFINE Q == {n \in Nat : n <= Len(s) => u[n] = v[n]}
<1>2. 0 \in Q BY <1>1 DEF Reads
<1>3. ASSUME NEW n \in Q PROVE n + 1 \in Q
  <2> SUFFICES ASSUME n + 1 <= Len(s) PROVE u[n + 1] = v[n + 1] OBVIOUS
  <2>1. n + 1 \in 1 .. Len(s) /\ (n + 1) - 1 = n /\ u[n] = v[n] OBVIOUS
  <2>2. u[n + 1] = 10 * u[n] + s[n + 1] /\ v[n + 1] = 10 * v[n] + s[n + 1]
      BY <1>1, <2>1 DEF Reads
  <2>3. QED BY <2>1, <2>2
<1>4. Q = Nat
  <2> HIDE DEF Q
  <2>1. Q \in SUBSET Nat BY DEF Q
  <2>2. QED BY <1>2, <1>3, <2>1, NatSetInduction
<1>5. Len(s) \in Nat OBVIOUS
<1>6. u[Len(s)] = v[Len(s)] BY <1>4, <1>5
<1>7. QED BY <1>1, <1>6

(* Zeros behind a number multiply it.                                       *)
LEMMA ZerosMultiply ==
    ASSUME NEW s \in Seq(Nat), NEW k \in Nat
    PROVE  Number(s \o Zeros(k)) = Number(s) * TenTo[k]
<1>1. PICK u : Reads(s, u) /\ Number(s) = u[Len(s)] BY NumberRuns
<1> DEFINE z == s \o Zeros(k)
           v == [n \in 0 .. Len(z) |-> IF n <= Len(s) THEN u[n] ELSE Number(s) * TenTo[n - Len(s)]]
<1>2. Len(s) \in Nat /\ Number(s) \in Nat BY <1>1 DEF Reads
<1>3. Zeros(k) \in Seq(Nat) /\ Len(Zeros(k)) = k /\ \A i \in 1 .. k : Zeros(k)[i] = 0
    BY DEF Zeros
<1>4. /\ z \in Seq(Nat) /\ Len(z) = Len(s) + k
      /\ \A n \in 1 .. Len(s) : z[n] = s[n]
      /\ \A n \in Len(s) + 1 .. Len(s) + k : z[n] = 0
  <2> HIDE DEF Zeros
  <2>1. z \in Seq(Nat) /\ Len(z) = Len(s) + k BY <1>3
  <2>2. \A n \in 1 .. Len(s) : z[n] = s[n] BY <1>3
  <2>3. ASSUME NEW n \in Len(s) + 1 .. Len(s) + k PROVE z[n] = 0
    <3>1. n - Len(s) \in 1 .. k /\ n \in 1 .. Len(s) + k /\ n > Len(s) BY <1>2
    <3>2. z[n] = Zeros(k)[n - Len(s)] BY <1>3, <3>1
    <3>3. QED BY <1>3, <3>1, <3>2
  <2>4. QED BY <2>1, <2>2, <2>3
<1> HIDE DEF z
<1>5. \A n \in 0 .. Len(s) : u[n] \in Nat BY <1>1, <1>2 DEF Reads
<1>6. \A n \in Nat : TenTo[n] \in Nat /\ TenTo[n + 1] = 10 * TenTo[n] BY TenToIs
<1>7. ASSUME NEW n \in 0 .. Len(z) PROVE v[n] \in Nat
  <2>1. CASE n <= Len(s) BY <1>5, <2>1
  <2>2. CASE ~(n <= Len(s))
    <3>1. n - Len(s) \in Nat BY <1>2, <1>4, <2>2
    <3>2. TenTo[n - Len(s)] \in Nat BY <1>6, <3>1
    <3>3. v[n] = Number(s) * TenTo[n - Len(s)] BY <2>2
    <3>4. QED BY <1>2, <3>2, <3>3
  <2>3. QED BY <2>1, <2>2
<1>8. v[0] = 0 BY <1>1, <1>2, <1>4 DEF Reads
<1>9. ASSUME NEW n \in 1 .. Len(z) PROVE v[n] = 10 * v[n - 1] + z[n]
  <2>1. CASE n <= Len(s)
    <3>1. n \in 1 .. Len(s) /\ n - 1 <= Len(s) /\ n - 1 \in 0 .. Len(z) /\ n \in 0 .. Len(z)
        BY <1>2, <1>4, <2>1
    <3>2. v[n] = u[n] /\ v[n - 1] = u[n - 1] BY <2>1, <3>1
    <3>3. QED BY <1>1, <1>4, <3>1, <3>2 DEF Reads
  <2>2. CASE n > Len(s)
    <3>1. n \in Len(s) + 1 .. Len(s) + k /\ n - 1 \in 0 .. Len(z) /\ n \in 0 .. Len(z)
        BY <1>2, <1>4, <2>2
    <3>2. z[n] = 0 BY <1>4, <3>1
    <3>3. v[n] = Number(s) * TenTo[n - Len(s)] BY <1>2, <2>2, <3>1
    <3>4. v[n - 1] = Number(s) * TenTo[n - 1 - Len(s)]
      <4>1. CASE n - 1 = Len(s)
        <5>1. v[n - 1] = Number(s) BY <1>1, <3>1, <4>1
        <5>2. TenTo[n - 1 - Len(s)] = 1 BY <1>2, <4>1, TenToIs
        <5>3. QED BY <1>2, <5>1, <5>2
      <4>2. CASE n - 1 # Len(s)
        <5>1. ~(n - 1 <= Len(s)) BY <1>2, <2>2, <4>2
        <5>2. QED BY <3>1, <5>1
      <4>3. QED BY <4>1, <4>2
    <3>5. TenTo[n - Len(s)] = 10 * TenTo[n - 1 - Len(s)] /\ TenTo[n - 1 - Len(s)] \in Nat
      <4>1. n - 1 - Len(s) \in Nat /\ (n - 1 - Len(s)) + 1 = n - Len(s) BY <1>2, <2>2
      <4>2. QED BY <1>6, <4>1
    <3> DEFINE a == TenTo[n - 1 - Len(s)]
               b == Number(s)
    <3> HIDE DEF a, b, v
    <3>6. v[n] = b * (10 * a) /\ v[n - 1] = b * a /\ a \in Nat /\ b \in Nat
        BY <1>2, <3>3, <3>4, <3>5 DEF a, b
    <3>7. b * (10 * a) = 10 * (b * a) /\ b * a \in Nat BY <3>6
    <3>8. QED BY <3>2, <3>6, <3>7
  <2>3. QED BY <1>2, <1>4, <2>1, <2>2
<1>10. Reads(z, v)
  <2>1. v \in [0 .. Len(z) -> Nat]
    <3>1. v = [n \in 0 .. Len(z) |-> v[n]] OBVIOUS
    <3> HIDE DEF v
    <3>2. QED BY <1>7, <3>1
  <2> HIDE DEF v
  <2>2. QED BY <1>8, <1>9, <2>1 DEF Reads
<1>11. v[Len(z)] = Number(s) * TenTo[k]
  <2>1. CASE k = 0
    <3>1. Len(z) <= Len(s) /\ Len(z) = Len(s) /\ Len(z) \in 0 .. Len(z) BY <1>2, <1>4, <2>1
    <3>2. v[Len(z)] = Number(s) BY <1>1, <3>1
    <3>3. TenTo[k] = 1 /\ Number(s) * 1 = Number(s) BY <1>2, <2>1, TenToIs
    <3>4. QED BY <3>2, <3>3
  <2>2. CASE k # 0
    <3>1. ~(Len(z) <= Len(s)) /\ Len(z) - Len(s) = k /\ Len(z) \in 0 .. Len(z)
        BY <1>2, <1>4, <2>2
    <3>2. \A n \in 0 .. Len(z) : ~(n <= Len(s)) => v[n] = Number(s) * TenTo[n - Len(s)]
        OBVIOUS
    <3> HIDE DEF v
    <3>3. v[Len(z)] = Number(s) * TenTo[Len(z) - Len(s)] BY <3>1, <3>2
    <3>4. QED BY <3>1, <3>3
  <2>3. QED BY <2>1, <2>2
<1> HIDE DEF v
<1>12. Number(z) = v[Len(z)] BY <1>4, <1>10, NumberIs
<1>13. QED BY <1>11, <1>12 DEF z

(* Units are exact: no digit of the text is lost, none invented.            *)
LEMMA UnitsAreExact ==
    ASSUME NEW t \in Texts, Len(t.fraction) <= Decimals, Decimals \in Nat
    PROVE  /\ Units(t) \in Int /\ (t.whole >= 0 => Units(t) \in Nat)
           /\ Units(t) * TenTo[Len(t.fraction)]
                  = (t.whole * TenTo[Len(t.fraction)] + Number(t.fraction)) * Scale
<1> DEFINE L == Len(t.fraction)
           k == Decimals - L
           a == TenTo[L]
           b == TenTo[k]
           w == t.whole
           n == Number(t.fraction)
<1>1. t.fraction \in Seq(Nat) /\ t.fraction \in Seq(0 .. 9) /\ w \in Int /\ L \in Nat
  <2>1. t.fraction \in Seq(0 .. 9) /\ w \in Int BY DEF Texts
  <2>2. \A x \in 0 .. 9 : x \in Nat OBVIOUS
  <2>3. t.fraction \in Seq(Nat) BY <2>1, <2>2
  <2>4. QED BY <2>1, <2>3
<1>2. k \in Nat /\ L + k = Decimals BY <1>1
<1>3. a \in Nat /\ b \in Nat BY <1>1, <1>2, TenToIs
<1>4. Scale = a * b BY <1>1, <1>2, TenToAdds DEF Scale
<1>5. n \in Nat
  <2>1. PICK u : Reads(t.fraction, u) /\ n = u[L] BY <1>1, NumberRuns
  <2>2. QED BY <1>1, <2>1 DEF Reads
<1>6. Units(t) = w * (a * b) + n * b
  <2>1. Number(t.fraction \o Zeros(k)) = n * b BY <1>1, <1>2, ZerosMultiply
  <2>2. QED BY <1>4, <2>1 DEF Units
<1> HIDE DEF a, b, w, n
<1>7. w * (a * b) + n * b \in Int /\ (w >= 0 => w * (a * b) + n * b \in Nat)
    BY <1>1, <1>3, <1>5
<1>8. (w * (a * b) + n * b) * a = (w * a + n) * (a * b)
    BY <1>1, <1>3, <1>5
<1>9. QED BY <1>4, <1>6, <1>7, <1>8 DEF a, w, n

(* A quotient and a remainder are told by the division they solve.          *)
LEMMA QuotientIs ==
    ASSUME NEW n \in Nat, NEW m \in Nat \ {0}, NEW q \in Nat, NEW r \in Nat,
           n = q * m + r, r < m
    PROVE  n \div m = q /\ n % m = r
<1> DEFINE d == n \div m
           e == n % m
<1>1. d \in Int /\ e \in 0 .. m - 1 /\ n = m * d + e OBVIOUS
<1> HIDE DEF d, e
<1>2. m * (q - d) = e - r /\ e - r < m /\ r - e < m BY <1>1
<1>3. q - d < 1
  <2> SUFFICES ASSUME q - d >= 1 PROVE FALSE BY <1>1
  <2>1. m * (q - d) >= m BY <1>1
  <2>2. QED BY <1>1, <1>2, <2>1
<1>4. d - q < 1
  <2> SUFFICES ASSUME d - q >= 1 PROVE FALSE BY <1>1
  <2>1. m * (d - q) >= m BY <1>1
  <2>2. m * (d - q) = -(m * (q - d)) BY <1>1
  <2>3. QED BY <1>1, <1>2, <2>1, <2>2
<1>5. d = q BY <1>1, <1>3, <1>4
<1>6. e = r BY <1>1, <1>5
<1>7. QED BY <1>5, <1>6 DEF d, e

(* The next digit of a quotient.                                            *)
LEMMA NextDigit ==
    ASSUME NEW n \in Nat, NEW m \in Nat \ {0}
    PROVE  n \div m = 10 * (n \div (10 * m)) + ((n \div m) % 10)
<1> DEFINE q == n \div m
           r == n % m
           s == q \div 10
           d == q % 10
<1>1. q \in Nat /\ r \in 0 .. m - 1 /\ n = q * m + r OBVIOUS
<1>2. s \in Nat /\ d \in 0 .. 9 /\ q = s * 10 + d
  <2> HIDE DEF q
  <2>1. QED BY <1>1
<1> HIDE DEF q, r, s, d
<1>3. n = s * (10 * m) + (d * m + r) BY <1>1, <1>2
<1>4. d * m + r \in Nat /\ d * m + r < 10 * m
  <2>1. d * m <= 9 * m /\ d * m \in Nat BY <1>2
  <2>2. QED BY <1>1, <2>1
<1>5. 10 * m \in Nat \ {0} OBVIOUS
<1>6. n \div (10 * m) = s
  <2> DEFINE M == 10 * m
             R == d * m + r
  <2>1. M \in Nat \ {0} /\ R \in Nat /\ n = s * M + R /\ R < M BY <1>3, <1>4, <1>5
  <2> HIDE DEF M, R
  <2>2. n \div M = s BY <1>2, <2>1, QuotientIs
  <2>3. QED BY <2>2 DEF M
<1> DEFINE x == n \div (10 * m)
<1>7. x = s BY <1>6
<1> HIDE DEF x
<1>8. q = 10 * x + d BY <1>2, <1>7
<1>9. QED BY <1>8 DEF q, d, x

(* The digits of an amount below one whole token read back as it.           *)
LEMMA DigitsRead ==
    ASSUME NEW n \in Nat, n < Scale, Decimals \in Nat
    PROVE  Digits(n) \in Seq(0 .. 9) /\ Len(Digits(n)) = Decimals /\ Number(Digits(n)) = n
<1> DEFINE s == Digits(n)
           v == [i \in 0 .. Decimals |-> n \div TenTo[Decimals - i]]
<1>1. \A i \in 0 .. Decimals : Decimals - i \in Nat /\ TenTo[Decimals - i] \in Nat \ {0}
    BY TenToIs
<1>2. ASSUME NEW i \in 0 .. Decimals PROVE v[i] \in Nat
  <2> DEFINE m == TenTo[Decimals - i]
  <2>1. m \in Nat \ {0} BY <1>1
  <2> HIDE DEF m
  <2>2. n \div m \in Nat BY <2>1
  <2>3. QED BY <2>2 DEF m
<1>3. ASSUME NEW i \in 1 .. Decimals
      PROVE  s[i] = v[i] % 10 /\ s[i] \in 0 .. 9 /\ v[i] = 10 * v[i - 1] + s[i]
  <2> DEFINE m == TenTo[Decimals - i]
  <2>1. i \in 0 .. Decimals /\ i - 1 \in 0 .. Decimals OBVIOUS
  <2>2. m \in Nat \ {0} BY <1>1, <2>1
  <2>3. TenTo[Decimals - (i - 1)] = 10 * m
    <3>1. Decimals - (i - 1) = (Decimals - i) + 1 /\ Decimals - i \in Nat BY <2>1
    <3>2. QED BY <3>1, TenToIs
  <2>4. v[i] = n \div m /\ v[i - 1] = n \div (10 * m) BY <2>1, <2>3
  <2>5. s[i] = (n \div m) % 10 BY DEF Digits
  <2> HIDE DEF m, v, s
  <2>6. n \div m = 10 * (n \div (10 * m)) + ((n \div m) % 10) BY <2>2, NextDigit
  <2>7. (n \div m) % 10 \in 0 .. 9
    <3>1. n \div m \in Nat BY <2>2
    <3>2. QED BY <3>1
  <2>8. QED BY <2>4, <2>5, <2>6, <2>7
<1>4. s \in Seq(0 .. 9) /\ Len(s) = Decimals
  <2>1. s = [i \in 1 .. Decimals |-> s[i]] /\ DOMAIN s = 1 .. Decimals BY DEF Digits
  <2> HIDE DEF s
  <2>2. s \in [1 .. Decimals -> 0 .. 9] BY <1>3, <2>1
  <2>3. QED BY <2>2
<1>5. s \in Seq(Nat)
  <2>1. \A x \in 0 .. 9 : x \in Nat OBVIOUS
  <2> HIDE DEF s
  <2>2. QED BY <1>4, <2>1
<1>6. v[0] = 0
  <2> DEFINE m == TenTo[Decimals]
  <2>1. m \in Nat \ {0} /\ n < m /\ v[0] = n \div m BY TenToIs DEF Scale
  <2> HIDE DEF m
  <2>2. n = 0 * m + n BY <2>1
  <2>3. n \div m = 0 BY <2>1, <2>2, QuotientIs
  <2>4. QED BY <2>1, <2>3
<1>7. v[Decimals] = n
  <2>1. v[Decimals] = n \div 1 BY TenToIs
  <2>2. QED BY <2>1
<1>8. v \in [0 .. Decimals -> Nat]
  <2>1. v = [i \in 0 .. Decimals |-> v[i]] OBVIOUS
  <2> HIDE DEF v
  <2>2. QED BY <1>2, <2>1
<1> HIDE DEF v, s
<1>9. Reads(s, v) BY <1>3, <1>4, <1>6, <1>8 DEF Reads
<1>10. Number(s) = n BY <1>4, <1>5, <1>7, <1>9, NumberIs
<1>11. QED BY <1>4, <1>10 DEF s

(* What is printed is read back.                                            *)
LEMMA PrintsBack ==
    ASSUME NEW u \in Nat, Decimals \in Nat PROVE Units(FormatUSDC(u)) = u
<1> DEFINE r == u % Scale
           q == u \div Scale
           f == Digits(r)
           Z == {0} \cup {i \in 1 .. Decimals : f[i] # 0}
           shown == Max(Z)
           g == SubSeq(f, 1, shown)
           z == Zeros(Decimals - Len(g))
<1>1. Scale \in Nat \ {0} BY TenToIs DEF Scale
<1>2. q \in Nat /\ r \in Nat /\ r < Scale /\ u = q * Scale + r
  <2> DEFINE m == Scale
  <2>1. m \in Nat \ {0} BY <1>1
  <2> HIDE DEF m
  <2>2. u \div m \in Nat /\ u % m \in Nat /\ u % m < m /\ u = (u \div m) * m + (u % m) BY <2>1
  <2>3. QED BY <2>2 DEF m
<1> HIDE DEF r, q
<1>3. f \in Seq(0 .. 9) /\ Len(f) = Decimals /\ Number(f) = r BY <1>2, DigitsRead
<1>4. FormatUSDC(u) = [whole |-> q, fraction |-> g] BY DEF FormatUSDC, r, q
<1> HIDE DEF f
<1>5. shown \in 0 .. Decimals /\ \A i \in 1 .. Decimals : i > shown => f[i] = 0
  <2>1. Z \in SUBSET (0 .. Decimals) /\ Z # {} OBVIOUS
  <2>2. Max(Z) \in Z /\ \A x \in Z : x <= Max(Z)
    <3> HIDE DEF Z
    <3>1. QED BY <2>1, GreatestIn
  <2>3. \A i \in 1 .. Decimals : f[i] # 0 => i \in Z OBVIOUS
  <2> HIDE DEF Z
  <2>4. shown \in 0 .. Decimals BY <2>1, <2>2
  <2>5. \A i \in 1 .. Decimals : f[i] # 0 => i <= shown BY <2>2, <2>3
  <2> HIDE DEF shown
  <2>6. QED BY <2>4, <2>5
<1> HIDE DEF shown
<1>6. g \in Seq(0 .. 9) /\ Len(g) = shown /\ \A i \in 1 .. shown : g[i] = f[i]
    BY <1>3, <1>5
<1> HIDE DEF g
<1>7. z \in Seq(0 .. 9) /\ Len(z) = Decimals - shown /\ \A i \in 1 .. Len(z) : z[i] = 0
    BY <1>5, <1>6 DEF Zeros
<1> HIDE DEF z
<1>8. g \o z = f
  <2>1. g \o z \in Seq(0 .. 9) /\ Len(g \o z) = Decimals BY <1>5, <1>6, <1>7
  <2>2. ASSUME NEW i \in 1 .. Decimals PROVE (g \o z)[i] = f[i]
    <3>1. CASE i <= shown BY <1>5, <1>6, <1>7, <3>1
    <3>2. CASE ~(i <= shown)
      <4>1. i - shown \in 1 .. Len(z) /\ i \in 1 .. Len(g) + Len(z) /\ i > Len(g)
          BY <1>5, <1>6, <1>7, <3>2
      <4>2. (g \o z)[i] = z[i - shown] BY <1>6, <1>7, <4>1
      <4>3. z[i - shown] = 0 /\ f[i] = 0 BY <1>5, <1>6, <1>7, <4>1
      <4>4. QED BY <4>2, <4>3
    <3>3. QED BY <3>1, <3>2
  <2>3. QED BY <1>3, <2>1, <2>2
<1>9. Units(FormatUSDC(u)) = q * Scale + Number(g \o z) BY <1>4 DEF Units, z
<1>10. QED BY <1>2, <1>3, <1>8, <1>9

(***************************************************************************)
(*                                Transfers                                *)
(***************************************************************************)
(* A set in some order: each element once.                                  *)
LEMMA SetToSeqIs ==
    ASSUME NEW S, IsFiniteSet(S)
    PROVE  IsInjective(SetToSeq(S)) /\ Range(SetToSeq(S)) = S
<1> DEFINE n == Cardinality(S)
           f == SetToSeq(S)
<1>1. n \in Nat /\ ExistsBijection(1 .. n, S) BY FS_CardinalityType
<1>2. \E g \in [1 .. n -> S] : IsInjective(g)
    BY <1>1 DEF ExistsBijection, Bijection, Injection
<1>3. f \in [1 .. n -> S] /\ IsInjective(f) BY <1>2 DEF SetToSeq
<1> HIDE DEF f
<1>4. f \in Injection(1 .. n, S) BY <1>3 DEF Injection
<1>5. f \in Surjection(1 .. n, S)
  <2>1. Cardinality(1 .. n) = n
    <3>1. Cardinality(1 .. n) = IF 1 > n THEN 0 ELSE n - 1 + 1 BY <1>1, FS_Interval
    <3>2. QED BY <1>1, <3>1
  <2>2. QED BY <1>4, <2>1, FS_Injection
<1>6. Range(f) = S BY <1>3, <1>5 DEF Range, Surjection
<1>7. QED BY <1>3, <1>6 DEF f

-----------------------------------------------------------------------------
OrderShape(o) ==
    /\ o.from \in Holders /\ o.to \in Seq(Holders) /\ Len(o.to) \in Nat \ {0}
    /\ o.kind \in {"payment", "split", "batch"}
    /\ o.kind = "payment" => Len(o.to) = 1
    /\ o.kind = "split" => Len(o.to) = 2 /\ o.asked[1] = o.asked[2]
    /\ \A i \in 1 .. Len(o.to) :
           /\ o.asked[i] \in Texts /\ Len(o.asked[i].fraction) <= Decimals
           /\ Units(o.asked[i]) \in Nat \ {0}

(* What the checks of a call let through has the shape of an order.         *)
LEMMA PayableShape ==
    ASSUME TransfersAssumption, NEW o \in Orders, Payable(o) PROVE OrderShape(o)
<1>1. /\ o.kind \in {"payment", "split", "batch"} /\ o.from \in Holders
      /\ o.to \in Seq(Holders \cup {NotAWallet})
      /\ o.asked \in Seq(Texts \cup {Malformed}) /\ Len(o.to) = Len(o.asked)
      /\ o.kind = "payment" => Len(o.to) = 1
      /\ o.kind = "split" => Len(o.to) = 2 /\ o.asked[1] = o.asked[2]
    BY DEF TransfersAssumption
<1>2. /\ Len(o.to) \in 1 .. MaxRecipients /\ MaxRecipients \in Nat
      /\ \A i \in DOMAIN o.to : o.to[i] # NotAWallet /\ Accepted(o.asked[i])
    BY DEF Payable, TransfersAssumption
<1> DEFINE to == o.to
           asked == o.asked
<1> HIDE DEF to, asked
<1>3. /\ to \in Seq(Holders \cup {NotAWallet}) /\ asked \in Seq(Texts \cup {Malformed})
      /\ Len(to) = Len(asked) /\ Len(to) \in Nat \ {0} /\ DOMAIN to = 1 .. Len(to)
      /\ \A i \in 1 .. Len(to) : to[i] # NotAWallet /\ Accepted(asked[i])
    BY <1>1, <1>2 DEF to, asked
<1>4. to \in Seq(Holders)
  <2>1. \A i \in 1 .. Len(to) : to[i] \in Holders BY <1>3
  <2>2. to = [i \in 1 .. Len(to) |-> to[i]] BY <1>3
  <2>3. to \in [1 .. Len(to) -> Holders] BY <2>1, <2>2
  <2>4. QED BY <1>3, <2>3
<1>5. ASSUME NEW i \in 1 .. Len(to)
      PROVE  /\ asked[i] \in Texts /\ Len(asked[i].fraction) <= Decimals
             /\ Units(asked[i]) \in Nat \ {0}
  <2>1. Accepted(asked[i]) /\ asked[i] \in Texts \cup {Malformed} BY <1>3
  <2>2. asked[i] \in Texts /\ asked[i].whole >= 0 /\ Len(asked[i].fraction) <= Decimals
        /\ Units(asked[i]) > 0
      BY <2>1 DEF Accepted
  <2>3. Units(asked[i]) \in Nat
      BY <2>2, UnitsAreExact DEF TransfersAssumption
  <2>4. QED BY <2>2, <2>3
<1>6. QED BY <1>1, <1>3, <1>4, <1>5 DEF OrderShape, to, asked

(* The legs of an order are one for each recipient, of a natural amount.    *)
LEMMA LegsAre ==
    ASSUME NEW o, OrderShape(o)
    PROVE  /\ DOMAIN Legs(o) = 1 .. Len(o.to) /\ DOMAIN o.to = 1 .. Len(o.to)
           /\ IsFiniteSet(1 .. Len(o.to))
           /\ LegUnits(o) = [i \in 1 .. Len(o.to) |-> Legs(o)[i].units]
           /\ \A i \in 1 .. Len(o.to) : LegUnits(o)[i] \in Nat
<1> DEFINE n == Len(o.to)
<1>1. n \in Nat \ {0} /\ DOMAIN o.to = 1 .. n /\ IsFiniteSet(1 .. n)
  <2>1. n \in Nat \ {0} /\ DOMAIN o.to = 1 .. n BY DEF OrderShape
  <2> HIDE DEF n
  <2>2. IsFiniteSet(1 .. n) BY <2>1, FS_Interval
  <2>3. QED BY <2>1, <2>2
<1>2. \A i \in 1 .. n : Units(o.asked[i]) \in Nat BY DEF OrderShape
<1>3. DOMAIN Legs(o) = 1 .. n /\ \A i \in 1 .. n : Legs(o)[i].units \in Nat
  <2>1. CASE o.kind = "payment"
    <3>1. n = 1 /\ 1 \in 1 .. n BY <2>1 DEF OrderShape
    <3>2. Legs(o) = <<Leg(o.to[1], Units(o.asked[1]))>> BY <2>1 DEF Legs, PaymentLegs
    <3>3. DOMAIN Legs(o) = 1 .. n BY <3>1, <3>2
    <3>4. Legs(o)[1].units = Units(o.asked[1]) BY <3>2 DEF Leg
    <3>5. QED BY <1>2, <3>1, <3>3, <3>4
  <2>2. CASE o.kind = "split"
    <3> DEFINE t == Units(o.asked[1])
               c == (t * 95) \div 100
    <3>1. n = 2 /\ t \in Nat BY <1>2, <2>2 DEF OrderShape
    <3>2. Legs(o) = <<Leg(o.to[1], c), Leg(o.to[2], t - c)>> BY <2>2 DEF Legs, SplitLegs
    <3>3. c \in Nat /\ t - c \in Nat
      <4> HIDE DEF t
      <4>1. QED BY <3>1
    <3> HIDE DEF t, c
    <3>4. DOMAIN Legs(o) = 1 .. n BY <3>1, <3>2
    <3>5. Legs(o)[1].units = c /\ Legs(o)[2].units = t - c BY <3>2 DEF Leg
    <3>6. QED BY <3>1, <3>3, <3>4, <3>5
  <2>3. CASE o.kind = "batch"
    <3>1. Legs(o) = [i \in 1 .. n |-> Leg(o.to[i], Units(o.asked[i]))]
        BY <1>1, <2>3 DEF Legs, BatchLegs
    <3>2. QED BY <1>2, <3>1 DEF Leg
  <2>4. QED BY <2>1, <2>2, <2>3 DEF OrderShape
<1>4. LegUnits(o) = [i \in 1 .. n |-> Legs(o)[i].units] BY <1>3 DEF LegUnits
<1>5. QED BY <1>1, <1>3, <1>4

(* Any part of the legs sums to no more than the total, which is that of    *)
(* all of them.                                                             *)
LEMMA LegSums ==
    ASSUME NEW o, OrderShape(o), NEW I \in SUBSET (1 .. Len(o.to))
    PROVE  /\ IsFiniteSet(I) /\ LegSum(o, I) \in Nat /\ LegSum(o, I) <= TotalUnits(o)
           /\ TotalUnits(o) = LegSum(o, 1 .. Len(o.to)) /\ TotalUnits(o) \in Nat
<1> DEFINE D == 1 .. Len(o.to)
           f == LegUnits(o)
<1>1. IsFiniteSet(D) /\ DOMAIN f = D /\ \A i \in D : f[i] \in Nat BY LegsAre
<1>2. SumFunction(f) = SumFunctionOnSet(f, D) BY <1>1 DEF SumFunction
<1> HIDE DEF f
<1>3. SumFunctionOnSet(f, I) \in Nat /\ SumFunctionOnSet(f, I) <= SumFunctionOnSet(f, D)
    BY <1>1, SumOfPart
<1>4. SumFunctionOnSet(f, D) \in Nat BY <1>1, SumOfNats
<1>5. IsFiniteSet(I) BY <1>1, FS_Subset
<1>6. QED BY <1>2, <1>3, <1>4, <1>5 DEF TotalUnits, LegSum, f

(* What a transaction takes, and when it can take it.                       *)
Spent(o, i) == LegSum(o, {j \in 1 .. i - 1 : o.to[j] # o.from})

(* The legs before one, and that one, never exceed the total.               *)
LEMMA CoveredOrdersRun ==
    ASSUME NEW o, OrderShape(o), NEW i \in 1 .. Len(o.to)
    PROVE  Spent(o, i) + LegUnits(o)[i] <= TotalUnits(o)
<1> DEFINE A == {j \in 1 .. i - 1 : o.to[j] # o.from}
           f == LegUnits(o)
           D == 1 .. Len(o.to)
<1>1. Len(o.to) \in Nat BY DEF OrderShape
<1>2. A \cup {i} \in SUBSET D /\ A \in SUBSET D /\ i \notin A BY <1>1
<1>3. \A j \in D : f[j] \in Nat BY LegsAre
<1>4. LegSum(o, A \cup {i}) <= TotalUnits(o) /\ IsFiniteSet(A \cup {i}) /\ LegSum(o, A) \in Nat
    BY <1>2, LegSums
<1>5. SumFunctionOnSet(f, A \cup {i}) = f[i] + SumFunctionOnSet(f, (A \cup {i}) \ {i})
  <2>1. i \in A \cup {i} /\ \A j \in A \cup {i} : f[j] \in Int BY <1>2, <1>3
  <2> HIDE DEF f, A
  <2>2. QED BY <1>4, <2>1, SumPicks
<1>6. (A \cup {i}) \ {i} = A BY <1>2
<1>7. f[i] \in Nat BY <1>3
<1> HIDE DEF f, A
<1>8. LegSum(o, A \cup {i}) = f[i] + LegSum(o, A) BY <1>5, <1>6 DEF LegSum, f
<1>9. LegSum(o, A) + f[i] <= TotalUnits(o) BY <1>4, <1>7, <1>8
<1>10. QED BY <1>9 DEF Spent, A, f

(* When every leg finds what it takes, all of them together do.             *)
LEMMA RunsWithin ==
    ASSUME NEW o, OrderShape(o), NEW B \in Nat,
           \A i \in 1 .. Len(o.to) : Spent(o, i) + LegUnits(o)[i] <= B
    PROVE  LegSum(o, {i \in 1 .. Len(o.to) : o.to[i] # o.from}) <= B
<1> DEFINE D == 1 .. Len(o.to)
           A == {i \in D : o.to[i] # o.from}
           f == LegUnits(o)
<1>1. Len(o.to) \in Nat BY DEF OrderShape
<1>2. CASE A = {}
  <2>1. LegSum(o, {}) = 0 BY SumOfNone DEF LegSum
  <2> HIDE DEF A
  <2>2. LegSum(o, A) = 0 BY <1>2, <2>1
  <2>3. LegSum(o, A) <= B BY <2>2
  <2>4. QED BY <2>3 DEF A
<1>3. CASE A # {}
  <2> DEFINE k == Max(A)
  <2>1. k \in A /\ \A i \in A : i <= k
    <3>1. A \in SUBSET (0 .. Len(o.to)) BY <1>1
    <3> HIDE DEF A
    <3>2. QED BY <1>1, <1>3, <3>1, GreatestIn
  <2> HIDE DEF k
  <2>2. A \ {k} = {j \in 1 .. k - 1 : o.to[j] # o.from}
    <3>1. \A j \in A \ {k} : j \in 1 .. k - 1 BY <1>1, <2>1
    <3>2. \A j \in 1 .. k - 1 : j \in D /\ j # k BY <1>1, <2>1
    <3>3. QED BY <3>1, <3>2
  <2>3. /\ IsFiniteSet(A) /\ LegSum(o, A \ {k}) \in Nat
        /\ \A i \in A : f[i] \in Int
    <3>1. A \in SUBSET D /\ A \ {k} \in SUBSET D OBVIOUS
    <3> HIDE DEF A, f
    <3>2. IsFiniteSet(A) /\ LegSum(o, A \ {k}) \in Nat BY <3>1, LegSums
    <3>3. \A i \in D : f[i] \in Nat BY LegsAre DEF f
    <3>4. QED BY <3>1, <3>2, <3>3
  <2>4. k \in D /\ Spent(o, k) + f[k] <= B BY <2>1
  <2>5. Spent(o, k) = LegSum(o, A \ {k}) BY <2>2 DEF Spent
  <2> HIDE DEF A, f
  <2>6. SumFunctionOnSet(f, A) = f[k] + SumFunctionOnSet(f, A \ {k}) BY <2>1, <2>3, SumPicks
  <2>7. LegSum(o, A) = f[k] + LegSum(o, A \ {k}) BY <2>6 DEF LegSum, f
  <2>8. LegSum(o, A) <= B
    <3> DEFINE a == LegSum(o, A \ {k})
               b == f[k]
    <3>1. a \in Nat /\ b \in Int /\ a + b <= B /\ LegSum(o, A) = b + a BY <2>1, <2>3, <2>4, <2>5, <2>7
    <3> HIDE DEF a, b
    <3>2. QED BY <3>1
  <2>9. QED BY <2>8 DEF A
<1>4. QED BY <1>2, <1>3

(* What a call that goes on was asked can be paid; its transaction is what  *)
(* it waits for; and while nothing overtook it, the accounts are as it read *)
(* them and its source still covers the order.                              *)
OrdersArePayable ==
    \A p \in Payers :
        /\ Paying(p) => order[p] \in Orders /\ Payable(order[p])
        /\ landing[p] # "none" => payer[p] \in {"confirm", "paid", "failed", "unsure"}

AnswersAreLandings ==
    \A p \in Payers :
        /\ payer[p] = "paid" => landing[p] = "landed"
        /\ payer[p] = "failed" => landing[p] = "failed"

Unlanded(p) == payer[p] \in {"balance", "send"} \/ landing[p] = "sent"
Covered(p) == payer[p] = "send" \/ landing[p] = "sent"

SeenIsSo ==
    \A p \in Payers \ overtaken :
        /\ Unlanded(p) =>
               /\ absent[p] \subseteq Recipients(order[p])
               /\ \A h \in Recipients(order[p]) : h \in absent[p] <=> account[h] # "token"
        /\ Covered(p) => TotalUnits(order[p]) <= tokens[order[p].from]

RefusedWereOvertaken ==
    \A p \in Payers : landing[p] = "failed" \/ payer[p] = "rejected" => p \in overtaken

TransfersInv ==
    /\ TransfersTypeOK /\ OrdersArePayable /\ AnswersAreLandings
    /\ SeenIsSo /\ RefusedWereOvertaken /\ TokensAreKept

(* A transaction nothing overtook runs.                                     *)
LEMMA UnovertakenRuns ==
    ASSUME TransfersAssumption, TransfersInv, NEW p \in Payers \ overtaken, Covered(p)
    PROVE  Runs(p)
<1> DEFINE o == order[p]
           S == Recipients(o) \cap absent[p]
<1>1. Paying(p) /\ Unlanded(p)
    BY DEF Covered, Unlanded, Paying, TransfersInv, OrdersArePayable
<1>2. OrderShape(o)
    BY <1>1, PayableShape DEF TransfersInv, OrdersArePayable
<1>3. IsFiniteSet(S)
  <2>1. absent[p] \in SUBSET Holders BY DEF TransfersInv, TransfersTypeOK
  <2>2. S \in SUBSET Holders BY <2>1
  <2>3. QED BY <2>2, FS_Subset DEF TransfersAssumption
<1>4. IsInjective(Creations(p)) /\ Range(Creations(p)) = S BY <1>3, SetToSeqIs DEF Creations
<1>5. /\ \A h \in Recipients(o) : h \in absent[p] <=> account[h] # "token"
      /\ TotalUnits(o) <= tokens[o.from]
    BY <1>1 DEF TransfersInv, SeenIsSo
<1>6. tokens[o.from] \in Nat BY <1>2 DEF OrderShape, TransfersInv, TransfersTypeOK
<1>7. ASSUME NEW i \in DOMAIN Legs(o)
      PROVE  LegSum(o, {j \in 1 .. i - 1 : o.to[j] # o.from}) + Legs(o)[i].units <= tokens[o.from]
  <2>1. i \in 1 .. Len(o.to) /\ LegUnits(o)[i] = Legs(o)[i].units /\ LegUnits(o)[i] \in Nat
      BY <1>2, LegsAre
  <2>2. Spent(o, i) + LegUnits(o)[i] <= TotalUnits(o) BY <1>2, <2>1, CoveredOrdersRun
  <2>3. Spent(o, i) \in Nat
    <3> DEFINE A == {j \in 1 .. i - 1 : o.to[j] # o.from}
    <3>1. A \in SUBSET (1 .. Len(o.to)) BY <1>2, <2>1 DEF OrderShape
    <3> HIDE DEF A
    <3>2. LegSum(o, A) \in Nat BY <1>2, <3>1, LegSums
    <3>3. QED BY <3>2 DEF A, Spent
  <2>4. TotalUnits(o) \in Nat BY <1>2, LegSums
  <2> HIDE DEF o
  <2>5. Spent(o, i) + Legs(o)[i].units <= tokens[o.from] BY <1>5, <1>6, <2>1, <2>2, <2>3, <2>4
  <2>6. QED BY <2>5 DEF Spent
<1>8. QED BY <1>4, <1>5, <1>7 DEF Runs

(* A transaction that runs moves what it takes.                             *)
Into(o, h) == LegSum(o, {i \in DOMAIN o.to : o.to[i] = h})
After(o) ==
    [h \in Holders |-> tokens[h] + Into(o, h) - (IF h = o.from THEN TotalUnits(o) ELSE 0)]

(* A transaction that runs gives out what it takes: the sum of all          *)
(* wallets stays, none goes below zero, and nothing lands in a wallet       *)
(* without an account.                                                      *)
LEMMA RunMoves ==
    ASSUME TransfersAssumption, TransfersInv, NEW p \in Payers, Paying(p), Runs(p)
    PROVE  /\ After(order[p]) \in [Holders -> Nat]
           /\ SumFunction(After(order[p])) = SumFunction(tokens)
           /\ \A h \in Holders : account[h] # "token" /\ h \notin Range(Creations(p))
                                     => After(order[p])[h] = 0
<1> DEFINE o == order[p]
           n == Len(o.to)
           f == LegUnits(o)
           T == TotalUnits(o)
           in == [h \in Holders |-> LegSum(o, {i \in 1 .. n : o.to[i] = h})]
           out == [h \in Holders |-> IF h = o.from THEN T ELSE 0]
           A == After(o)
<1>1. OrderShape(o) BY PayableShape DEF TransfersInv, OrdersArePayable
<1>2. n \in Nat /\ DOMAIN o.to = 1 .. n /\ o.from \in Holders /\ IsFiniteSet(Holders)
      /\ \A i \in 1 .. n : o.to[i] \in Holders
    BY <1>1 DEF OrderShape, TransfersAssumption
<1>3. \A h \in Holders : in[h] \in Nat
  <2> TAKE h \in Holders
  <2> DEFINE I == {i \in 1 .. n : o.to[i] = h}
  <2>1. I \in SUBSET (1 .. n) OBVIOUS
  <2> HIDE DEF I
  <2>2. LegSum(o, I) \in Nat BY <1>1, <2>1, LegSums
  <2>3. QED BY <2>2 DEF I
<1>4. T \in Nat /\ T = LegSum(o, 1 .. n)
  <2>1. {} \in SUBSET (1 .. Len(o.to)) OBVIOUS
  <2>2. QED BY <1>1, <2>1, LegSums
<1>5. tokens \in [Holders -> Nat] /\ \A h \in Holders : tokens[h] \in Nat
    BY DEF TransfersInv, TransfersTypeOK
<1>6. A = [h \in Holders |-> tokens[h] + in[h] - out[h]]
    BY <1>2 DEF After, Into
<1>7. T = in[o.from] + LegSum(o, {i \in 1 .. n : o.to[i] # o.from})
  <2> DEFINE I == {i \in 1 .. n : o.to[i] = o.from}
             J == {i \in 1 .. n : o.to[i] # o.from}
  <2>1. I \cap J = {} /\ I \cup J = 1 .. n OBVIOUS
  <2>2. I \in SUBSET (1 .. n) /\ J \in SUBSET (1 .. n) OBVIOUS
  <2>3. in[o.from] = LegSum(o, I) BY <1>2
  <2> HIDE DEF I, J
  <2>4. IsFiniteSet(I) /\ IsFiniteSet(J) BY <1>1, <2>2, LegSums
  <2>5. \A i \in I \cup J : f[i] \in Int BY <1>1, <2>1, LegsAre
  <2> HIDE DEF f
  <2>6. SumFunctionOnSet(f, I \cup J) = SumFunctionOnSet(f, I) + SumFunctionOnSet(f, J)
      BY <2>1, <2>4, <2>5, SumOfParts
  <2>7. LegSum(o, 1 .. n) = LegSum(o, I) + LegSum(o, J) BY <2>1, <2>6 DEF LegSum, f
  <2>8. QED BY <1>4, <2>3, <2>7 DEF J
<1>8. LegSum(o, {i \in 1 .. n : o.to[i] # o.from}) <= tokens[o.from]
  <2>1. \A i \in 1 .. n : Spent(o, i) + LegUnits(o)[i] <= tokens[o.from]
    <3>1. \A i \in DOMAIN Legs(o) : Spent(o, i) + Legs(o)[i].units <= tokens[o.from]
        BY DEF Runs, Spent
    <3>2. DOMAIN Legs(o) = 1 .. n /\ \A i \in 1 .. n : LegUnits(o)[i] = Legs(o)[i].units
        BY <1>1, LegsAre
    <3> HIDE DEF o
    <3>3. QED BY <3>1, <3>2
  <2>2. tokens[o.from] \in Nat BY <1>2, <1>5
  <2>3. QED BY <1>1, <2>1, <2>2, RunsWithin
<1>9. LegSum(o, {i \in 1 .. n : o.to[i] # o.from}) \in Nat
  <2> DEFINE J == {i \in 1 .. n : o.to[i] # o.from}
  <2>1. J \in SUBSET (1 .. n) OBVIOUS
  <2> HIDE DEF J
  <2>2. LegSum(o, J) \in Nat BY <1>1, <2>1, LegSums
  <2>3. QED BY <2>2 DEF J
<1>10. ASSUME NEW h \in Holders PROVE A[h] \in Nat
  <2>1. CASE h = o.from
    <3> DEFINE j == LegSum(o, {i \in 1 .. n : o.to[i] # o.from})
               t == tokens[o.from]
               a == in[o.from]
    <3>1. T = a + j /\ j <= t /\ j \in Nat /\ t \in Nat /\ a \in Nat
        BY <1>2, <1>3, <1>5, <1>7, <1>8, <1>9
    <3>2. A[h] = t + a - T BY <1>6, <2>1
    <3> HIDE DEF j, t, a, T
    <3>3. t + a - T \in Nat BY <3>1
    <3>4. QED BY <3>2, <3>3
  <2>2. CASE h # o.from
    <3>1. A[h] = tokens[h] + in[h] - 0 BY <1>6, <2>2
    <3>2. tokens[h] \in Nat /\ in[h] \in Nat BY <1>3, <1>5
    <3>3. QED BY <3>1, <3>2
  <2>3. QED BY <2>1, <2>2
<1>11. A \in [Holders -> Nat]
  <2>1. A = [h \in Holders |-> A[h]] BY <1>6
  <2> HIDE DEF A
  <2>2. QED BY <1>10, <2>1
<1>12. SumFunction(A) = SumFunction(tokens)
  <2> DEFINE mid == [h \in Holders |-> tokens[h] + in[h]]
             back == [h \in Holders |-> 0 - out[h]]
             S(g) == SumFunctionOnSet(g, Holders)
  <2>1. /\ \A h \in Holders : tokens[h] \in Int
        /\ \A h \in Holders : in[h] \in Int
        /\ \A h \in Holders : mid[h] \in Int
        /\ \A h \in Holders : back[h] \in Int
        /\ \A h \in Holders : mid[h] = tokens[h] + in[h]
        /\ \A h \in Holders : A[h] = mid[h] + back[h]
        /\ \A h \in Holders \ {o.from} : back[h] = 0
        /\ back[o.from] = 0 - T
    <3>1. \A h \in Holders : out[h] \in Nat BY <1>4
    <3>2. \A h \in Holders : A[h] = tokens[h] + in[h] - out[h] BY <1>6
    <3>3. back[o.from] = 0 - T /\ \A h \in Holders \ {o.from} : back[h] = 0
        BY <1>2
    <3> HIDE DEF A, out, in, T
    <3>4. QED BY <1>3, <1>4, <1>5, <3>1, <3>2, <3>3
  <2>2. S(in) = T
    <3> DEFINE D == 1 .. n
               place == o.to
               share == [h \in Holders |-> {i \in D : place[i] = h}]
    <3>1. IsFiniteSet(D) /\ (\A i \in D : place[i] \in Holders) /\ \A i \in D : f[i] \in Int
        BY <1>1, <1>2, LegsAre
    <3>2. /\ \A h \in Holders : share[h] \in SUBSET D
          /\ \A h \in Holders, i \in D : i \in share[h] <=> place[i] = h
          /\ \A h \in Holders : in[h] = SumFunctionOnSet(f, share[h])
        BY DEF LegSum
    <3>3. T = SumFunctionOnSet(f, D) BY <1>4 DEF LegSum
    <3> HIDE DEF D, place, f, in, T, share
    <3>4. AreShares(D, Holders, place, f, share, in) BY <3>1, <3>2 DEF AreShares
    <3>5. SumFunctionOnSet(in, Holders) = SumFunctionOnSet(f, D)
        BY <1>2, <3>1, <3>4, SumOfShares
    <3>6. QED BY <3>3, <3>5
  <2>3. S(back) = 0 - T
    <3> DEFINE zero == [h \in Holders |-> 0]
    <3>1. /\ \A h \in Holders : zero[h] = 0
          /\ \A h \in Holders : zero[h] \in Int
          /\ \A h \in Holders \ {o.from} : back[h] = zero[h]
        BY <2>1
    <3> HIDE DEF zero, back
    <3>2. S(zero) = 0 BY <1>2, <3>1, NoSum
    <3>3. S(back) = S(zero) + back[o.from] - zero[o.from] BY <1>2, <2>1, <3>1, SumChanges
    <3> HIDE DEF T
    <3>4. back[o.from] = 0 - T /\ zero[o.from] = 0 BY <1>2, <2>1, <3>1
    <3>5. QED BY <1>4, <3>2, <3>3, <3>4
  <2>4. S(tokens) \in Int BY <1>2, <2>1, SumOfInts
  <2> HIDE DEF mid, back, in, A, T, out
  <2>5. S(mid) = S(tokens) + S(in) BY <1>2, <2>1, SumsAdd
  <2>6. S(A) = S(mid) + S(back) BY <1>2, <2>1, SumsAdd
  <2>7. S(A) = S(tokens)
    <3> DEFINE x == S(A)
               y == S(tokens)
               m == S(mid)
    <3>1. m = y + T /\ x = m + (0 - T) /\ y \in Int BY <2>2, <2>3, <2>4, <2>5, <2>6
    <3> HIDE DEF x, y, m
    <3>2. x = y BY <1>4, <3>1
    <3>3. QED BY <3>2 DEF x, y
  <2>8. DOMAIN A = Holders /\ DOMAIN tokens = Holders BY <1>5, <1>11
  <2>9. QED BY <2>7, <2>8 DEF SumFunction
<1>13. ASSUME NEW h \in Holders, account[h] # "token", h \notin Range(Creations(p))
       PROVE  A[h] = 0
  <2>1. tokens[h] = 0 BY <1>13 DEF TransfersInv, TransfersTypeOK
  <2>2. h \notin Recipients(o) BY <1>13 DEF Runs
  <2>3. {i \in 1 .. n : o.to[i] = h} = {}
      BY <1>2, <2>2 DEF Recipients, Range
  <2>4. in[h] = 0 BY <2>3, SumOfNone DEF LegSum
  <2>5. CASE h # o.from
    <3>1. A[h] = tokens[h] + in[h] - 0 BY <1>6, <2>5
    <3>2. QED BY <2>1, <2>4, <3>1
  <2>6. CASE h = o.from
    <3> DEFINE j == LegSum(o, {i \in 1 .. n : o.to[i] # o.from})
    <3>1. j \in Nat /\ j <= 0 BY <1>8, <1>9, <2>1, <2>6
    <3>2. T = 0 + j BY <1>7, <2>4, <2>6
    <3>3. A[h] = tokens[h] + in[h] - T BY <1>6, <2>6
    <3> HIDE DEF j, T
    <3>4. T = 0 BY <3>1, <3>2
    <3>5. QED BY <2>1, <2>4, <3>3, <3>4
  <2>7. QED BY <2>5, <2>6
<1>14. QED BY <1>11, <1>12, <1>13

(* Before any call the invariant holds.                                     *)
LEMMA TransfersInitially == ASSUME TransfersAssumption, TransfersInit PROVE TransfersInv
<1>1. TransfersTypeOK BY DEF TransfersAssumption, TransfersInit, TransfersTypeOK, Steps
<1>2. OrdersArePayable /\ AnswersAreLandings /\ SeenIsSo /\ RefusedWereOvertaken
    BY DEF TransfersInit, OrdersArePayable, AnswersAreLandings, SeenIsSo, RefusedWereOvertaken,
           Paying, Unlanded, Covered
<1>3. TokensAreKept BY DEF TransfersInit, TokensAreKept
<1>4. QED BY <1>1, <1>2, <1>3 DEF TransfersInv

(* A call starts: its order is checked, and nothing is read yet.            *)
LEMMA AskKeeps ==
    ASSUME TransfersAssumption, TransfersInv, NEW p \in Payers, Ask(p) PROVE TransfersInv'
<1> USE DEF TransfersInv
<1>1. PICK o \in Orders :
          /\ order' = [order EXCEPT ![p] = o]
          /\ payer' = [payer EXCEPT ![p] = IF Payable(o) THEN "accounts" ELSE "refused"]
    BY DEF Ask, Move
<1>2. payer[p] = "idle" /\ UNCHANGED <<account, tokens, absent, landing, overtaken>> BY DEF Ask
<1>3. landing[p] = "none" BY <1>2 DEF OrdersArePayable
<1>4. /\ payer'[p] = IF Payable(o) THEN "accounts" ELSE "refused"
      /\ order'[p] = o
      /\ \A q \in Payers \ {p} : payer'[q] = payer[q] /\ order'[q] = order[q]
    BY <1>1 DEF TransfersTypeOK
<1>5. TransfersTypeOK' BY <1>1, <1>2 DEF TransfersTypeOK, Steps, Answers
<1>6. OrdersArePayable'
  <2> SUFFICES ASSUME NEW q \in Payers
               PROVE  /\ Paying(q)' => order'[q] \in Orders /\ Payable(order'[q])
                      /\ landing'[q] # "none" => payer'[q] \in {"confirm", "paid", "failed", "unsure"}
      BY DEF OrdersArePayable
  <2>1. CASE q = p BY <1>2, <1>3, <1>4, <2>1 DEF Paying
  <2>2. CASE q # p BY <1>2, <1>4, <2>2 DEF OrdersArePayable, Paying
  <2>3. QED BY <2>1, <2>2
<1>7. AnswersAreLandings' BY <1>2, <1>4 DEF AnswersAreLandings
<1>8. SeenIsSo'
  <2>1. \A q \in Payers : Unlanded(q)' \/ Covered(q)' => q # p /\ order'[q] = order[q]
      BY <1>2, <1>3, <1>4 DEF Unlanded, Covered
  <2>2. \A q \in Payers \ {p} : (Unlanded(q)' <=> Unlanded(q)) /\ (Covered(q)' <=> Covered(q))
      BY <1>2, <1>4 DEF Unlanded, Covered
  <2> SUFFICES ASSUME NEW q \in Payers \ overtaken
               PROVE  /\ Unlanded(q)' =>
                            /\ absent[q] \subseteq Recipients(order'[q])
                            /\ \A h \in Recipients(order'[q]) : h \in absent[q] <=> account[h] # "token"
                      /\ Covered(q)' => TotalUnits(order'[q]) <= tokens[order'[q].from]
      BY <1>2 DEF SeenIsSo, Recipients, TotalUnits
  <2>3. QED BY <2>1, <2>2 DEF SeenIsSo
<1>9. RefusedWereOvertaken' BY <1>2, <1>4 DEF RefusedWereOvertaken
<1>10. TokensAreKept' BY <1>2 DEF TokensAreKept
<1>11. QED BY <1>5, <1>6, <1>7, <1>8, <1>9, <1>10

(* A call under way keeps its order; what it sees, and where it stands, may *)
(* change.                                                                  *)
Goes(p, label, seen, landed) ==
    /\ payer' = [payer EXCEPT ![p] = label]
    /\ absent' = [absent EXCEPT ![p] = seen]
    /\ landing' = [landing EXCEPT ![p] = landed]
    /\ UNCHANGED <<account, tokens, order, overtaken>>

(* What a call may do that keeps its order and the chain as they are.       *)
LEMMA GoingKeeps ==
    ASSUME TransfersAssumption, TransfersInv, NEW p \in Payers,
           NEW label \in (Steps \cup Answers) \ {"idle", "refused"},
           NEW seen \in SUBSET Holders,
           NEW landed \in {"none", "sent", "landed", "failed", "expired"},
           Paying(p), Goes(p, label, seen, landed),
           landed # "none" => label \in {"confirm", "paid", "failed", "unsure"},
           label = "paid" => landed = "landed",
           label = "failed" => landed = "failed",
           landed = "failed" \/ label = "rejected" => p \in overtaken,
           p \in overtaken \/ ((label \in {"balance", "send"} \/ landed = "sent") =>
               /\ seen \subseteq Recipients(order[p])
               /\ \A h \in Recipients(order[p]) : h \in seen <=> account[h] # "token"),
           p \in overtaken \/ (label = "send" \/ landed = "sent" =>
               TotalUnits(order[p]) <= tokens[order[p].from])
    PROVE  TransfersInv'
<1> USE DEF TransfersInv
<1>1. /\ payer'[p] = label /\ absent'[p] = seen /\ landing'[p] = landed
      /\ \A q \in Payers \ {p} : /\ payer'[q] = payer[q] /\ absent'[q] = absent[q]
                                 /\ landing'[q] = landing[q]
      /\ UNCHANGED <<account, tokens, order, overtaken>>
    BY DEF Goes, TransfersTypeOK
<1>2. TransfersTypeOK' BY <1>1 DEF TransfersTypeOK, Goes
<1>3. OrdersArePayable'
  <2> DEFINE Fit(q) == /\ Paying(q)' => order[q] \in Orders /\ Payable(order[q])
                       /\ landing'[q] # "none" => payer'[q] \in {"confirm", "paid", "failed", "unsure"}
  <2> SUFFICES ASSUME NEW q \in Payers PROVE Fit(q)
    <3>1. ASSUME NEW q \in Payers PROVE Payable(order[q])' <=> Payable(order[q])
        BY <1>1 DEF Payable
    <3>2. QED BY <1>1, <3>1 DEF OrdersArePayable
  <2>1. CASE q = p BY <1>1, <2>1 DEF OrdersArePayable
  <2>2. CASE q # p BY <1>1, <2>2 DEF OrdersArePayable, Paying
  <2>3. QED BY <2>1, <2>2
<1>4. AnswersAreLandings' BY <1>1 DEF AnswersAreLandings
<1>5. SeenIsSo'
  <2> SUFFICES ASSUME NEW q \in Payers \ overtaken
               PROVE  /\ Unlanded(q)' =>
                            /\ absent'[q] \subseteq Recipients(order[q])
                            /\ \A h \in Recipients(order[q]) : h \in absent'[q] <=> account[h] # "token"
                      /\ Covered(q)' => TotalUnits(order[q]) <= tokens[order[q].from]
      BY <1>1 DEF SeenIsSo, Recipients, TotalUnits
  <2>1. CASE q = p BY <1>1, <2>1 DEF Unlanded, Covered
  <2>2. CASE q # p BY <1>1, <2>2 DEF Unlanded, Covered, SeenIsSo
  <2>3. QED BY <2>1, <2>2
<1>6. RefusedWereOvertaken' BY <1>1 DEF RefusedWereOvertaken
<1>7. TokensAreKept' BY <1>1 DEF TokensAreKept
<1>8. QED BY <1>2, <1>3, <1>4, <1>5, <1>6, <1>7

(* Every step of a call under way is of that kind: it reads the accounts,   *)
(* then the balance, submits, and hears or does not hear what came of it.   *)
LEMMA ProceedKeeps ==
    ASSUME TransfersAssumption, TransfersInv, NEW p \in Payers,
           payer[p] # "idle", Proceed(p)
    PROVE  TransfersInv'
<1> DEFINE o == order[p]
<1>0. /\ payer \in [Payers -> Steps \cup Answers] /\ absent \in [Payers -> SUBSET Holders]
      /\ landing \in [Payers -> {"none", "sent", "landed", "failed", "expired"}]
    BY DEF TransfersInv, TransfersTypeOK
<1>1. payer[p] \in {"accounts", "balance", "send", "confirm"} /\ Paying(p)
    BY DEF Proceed, ReadAccounts, ReadBalance, Send, SendUnheard, Confirm, GiveUp, BreakOff, Paying
<1>2. OrderShape(o) BY <1>1, PayableShape DEF TransfersInv, OrdersArePayable
<1>3. payer[p] # "confirm" => landing[p] = "none"
    BY <1>1 DEF TransfersInv, OrdersArePayable
<1>4. absent[p] \in SUBSET Holders /\ landing[p] \in {"none", "sent", "landed", "failed", "expired"}
    BY <1>0
<1>5. /\ absent = [absent EXCEPT ![p] = absent[p]]
      /\ landing = [landing EXCEPT ![p] = landing[p]]
    BY <1>0
<1>6. p \in overtaken \/ (Unlanded(p) =>
          /\ absent[p] \subseteq Recipients(o)
          /\ \A h \in Recipients(o) : h \in absent[p] <=> account[h] # "token")
    BY DEF TransfersInv, SeenIsSo
<1>7. p \in overtaken \/ (Covered(p) => TotalUnits(o) <= tokens[o.from])
    BY DEF TransfersInv, SeenIsSo
<1>8. CASE ReadAccounts(p)
  <2> DEFINE seen == {h \in Recipients(o) : account[h] = "none"}
             label == IF account[o.from] = "none" THEN "short"
                      ELSE IF \E h \in {o.from} \cup Recipients(o) : account[h] = "foreign"
                           THEN "foreign" ELSE "balance"
  <2>1. Recipients(o) \subseteq Holders BY <1>2 DEF OrderShape, Recipients, Range
  <2>2. Goes(p, label, seen, "none") BY <1>3, <1>5, <1>8 DEF ReadAccounts, Goes, Move
  <2>3. label = "balance" => \A h \in Recipients(o) : h \in seen <=> account[h] # "token"
      BY <2>1 DEF TransfersInv, TransfersTypeOK
  <2>4. label \in {"short", "foreign", "balance"} /\ seen \in SUBSET Holders
        /\ seen \subseteq Recipients(o)
      BY <2>1
  <2> HIDE DEF seen, label
  <2>5. label \in (Steps \cup Answers) \ {"idle", "refused"} BY <2>4 DEF Steps, Answers
  <2>6. QED BY <1>1, <2>2, <2>3, <2>4, <2>5, GoingKeeps
<1>9. CASE ReadBalance(p)
  <2> DEFINE label == IF tokens[o.from] < TotalUnits(o) THEN "short" ELSE "send"
  <2>1. Goes(p, label, absent[p], "none") BY <1>3, <1>5, <1>9 DEF ReadBalance, Goes, Move
  <2>2. Unlanded(p) BY <1>9 DEF ReadBalance, Unlanded
  <2>3. label = "send" => TotalUnits(o) <= tokens[o.from]
    <3>1. {} \in SUBSET (1 .. Len(o.to)) OBVIOUS
    <3>2. TotalUnits(o) \in Nat BY <1>2, <3>1, LegSums
    <3>3. tokens[o.from] \in Nat BY <1>2 DEF OrderShape, TransfersInv, TransfersTypeOK
    <3>4. QED BY <3>2, <3>3
  <2>4. label \in {"short", "send"} OBVIOUS
  <2> HIDE DEF label
  <2>5. label \in (Steps \cup Answers) \ {"idle", "refused"} BY <2>4 DEF Steps, Answers
  <2>6. QED BY <1>1, <1>4, <1>6, <2>1, <2>2, <2>3, <2>4, <2>5, GoingKeeps
<1>10. CASE Send(p)
  <2>1. payer[p] = "send" /\ Covered(p) /\ Unlanded(p) /\ landing[p] = "none"
      BY <1>3, <1>10 DEF Send, Covered, Unlanded
  <2>2. "confirm" \in (Steps \cup Answers) \ {"idle", "refused"}
        /\ "rejected" \in (Steps \cup Answers) \ {"idle", "refused"}
      BY DEF Steps, Answers
  <2>3. CASE Runs(p)
    <3>1. Goes(p, "confirm", absent[p], "sent") BY <1>5, <1>10, <2>3 DEF Send, Goes, Move
    <3>2. QED BY <1>1, <1>4, <1>6, <1>7, <2>1, <2>2, <3>1, GoingKeeps
  <2>4. CASE ~Runs(p)
    <3>1. Goes(p, "rejected", absent[p], "none") BY <1>5, <1>10, <2>1, <2>4 DEF Send, Goes, Move
    <3>2. p \in overtaken BY <2>1, <2>4, UnovertakenRuns
    <3>3. QED BY <1>1, <1>4, <2>2, <3>1, <3>2, GoingKeeps
  <2>5. QED BY <2>3, <2>4
<1>11. CASE SendUnheard(p)
  <2>1. payer[p] = "send" /\ Covered(p) /\ Unlanded(p) /\ landing[p] = "none"
      BY <1>3, <1>11 DEF SendUnheard, Covered, Unlanded
  <2>2. "unsure" \in (Steps \cup Answers) \ {"idle", "refused"} BY DEF Answers
  <2>3. Goes(p, "unsure", absent[p], "none") \/ Goes(p, "unsure", absent[p], "sent")
      BY <1>5, <1>11, <2>1 DEF SendUnheard, Goes, Move
  <2>4. CASE Goes(p, "unsure", absent[p], "none") BY <1>1, <1>4, <2>2, <2>4, GoingKeeps
  <2>5. CASE Goes(p, "unsure", absent[p], "sent")
      BY <1>1, <1>4, <1>6, <1>7, <2>1, <2>2, <2>5, GoingKeeps
  <2>6. QED BY <2>3, <2>4, <2>5
<1>12. CASE Confirm(p)
  <2> DEFINE label == IF landing[p] = "landed" THEN "paid" ELSE "failed"
  <2>1. landing[p] \in {"landed", "failed"} BY <1>12 DEF Confirm
  <2>2. Goes(p, label, absent[p], landing[p]) BY <1>5, <1>12 DEF Confirm, Goes, Move
  <2>3. landing[p] = "failed" => p \in overtaken BY DEF TransfersInv, RefusedWereOvertaken
  <2>4. label \in (Steps \cup Answers) \ {"idle", "refused"} BY DEF Answers
  <2>5. /\ label \in {"paid", "failed"}
        /\ label = "paid" => landing[p] = "landed"
        /\ label = "failed" => landing[p] = "failed"
      BY <2>1
  <2> HIDE DEF label
  <2>6. QED BY <1>1, <1>4, <2>1, <2>2, <2>3, <2>4, <2>5, GoingKeeps
<1>13. CASE GiveUp(p)
  <2>1. Goes(p, "unsure", absent[p], landing[p]) BY <1>5, <1>13 DEF GiveUp, Goes, Move
  <2>2. landing[p] = "failed" => p \in overtaken BY DEF TransfersInv, RefusedWereOvertaken
  <2>3. "unsure" \in (Steps \cup Answers) \ {"idle", "refused"} BY DEF Answers
  <2>4. landing[p] = "sent" => Unlanded(p) /\ Covered(p) BY DEF Unlanded, Covered
  <2>5. QED BY <1>1, <1>4, <1>6, <1>7, <2>1, <2>2, <2>3, <2>4, GoingKeeps
<1>14. CASE BreakOff(p)
  <2>1. landing[p] = "none" BY <1>3, <1>14 DEF BreakOff
  <2>2. Goes(p, "broken", absent[p], "none") BY <1>5, <1>14, <2>1 DEF BreakOff, Goes, Move
  <2>3. "broken" \in (Steps \cup Answers) \ {"idle", "refused"} BY DEF Answers
  <2>4. QED BY <1>1, <1>4, <2>2, <2>3, GoingKeeps
<1>15. QED BY <1>8, <1>9, <1>10, <1>11, <1>12, <1>13, <1>14 DEF Proceed

(* What becomes of a transaction while its caller stays where it is.        *)
LEMMA EndingKeeps ==
    ASSUME TransfersAssumption, TransfersInv, NEW p \in Payers, FailOnChain(p) \/ Lapse(p)
    PROVE  TransfersInv'
<1> DEFINE landed == IF FailOnChain(p) THEN "failed" ELSE "expired"
<1>0. /\ payer \in [Payers -> Steps \cup Answers] /\ absent \in [Payers -> SUBSET Holders]
    BY DEF TransfersInv, TransfersTypeOK
<1>1. landing[p] = "sent" /\ Paying(p) /\ payer[p] \in {"confirm", "paid", "failed", "unsure"}
    BY DEF FailOnChain, Lapse, TransfersInv, OrdersArePayable, Paying
<1>2. payer[p] \in {"confirm", "unsure"} BY <1>1 DEF TransfersInv, AnswersAreLandings
<1>3. payer = [payer EXCEPT ![p] = payer[p]] /\ absent = [absent EXCEPT ![p] = absent[p]]
      /\ absent[p] \in SUBSET Holders
    BY <1>0
<1>4. payer[p] \in (Steps \cup Answers) \ {"idle", "refused"} BY <1>2 DEF Steps, Answers
<1>5. CASE FailOnChain(p)
  <2>1. p \in overtaken BY <1>1, <1>5, UnovertakenRuns DEF Covered, FailOnChain
  <2>2. Goes(p, payer[p], absent[p], "failed") BY <1>3, <1>5 DEF FailOnChain, Goes, clientVars
  <2>3. QED BY <1>1, <1>2, <1>3, <1>4, <2>1, <2>2, GoingKeeps
<1>6. CASE Lapse(p)
  <2>1. Goes(p, payer[p], absent[p], "expired") BY <1>3, <1>6 DEF Lapse, Goes, clientVars
  <2>2. QED BY <1>1, <1>2, <1>3, <1>4, <2>1, GoingKeeps
<1>7. QED BY <1>5, <1>6

(* A transaction lands: it moves the tokens, and overtakes the calls        *)
(* under way.                                                               *)
LEMMA LandKeeps ==
    ASSUME TransfersAssumption, TransfersInv, NEW p \in Payers, Land(p) PROVE TransfersInv'
<1> USE DEF TransfersInv
<1> DEFINE o == order[p]
           made == Range(Creations(p))
           late == {q \in Payers \ {p} : Underway(q) \/ landing[q] = "sent"}
<1>1. landing[p] = "sent" /\ Runs(p) /\ landing' = [landing EXCEPT ![p] = "landed"]
      /\ account' = [h \in Holders |-> IF h \in made THEN "token" ELSE account[h]]
      /\ overtaken' = overtaken \cup late /\ UNCHANGED <<payer, order, absent>>
    BY DEF Land, clientVars
<1>2. tokens' = After(o) BY DEF Land, After, Into
<1>3. payer[p] \in {"confirm", "unsure"} /\ Paying(p)
    BY <1>1 DEF OrdersArePayable, AnswersAreLandings, Paying
<1>4. /\ After(o) \in [Holders -> Nat] /\ SumFunction(After(o)) = SumFunction(tokens)
      /\ \A h \in Holders : account[h] # "token" /\ h \notin made => After(o)[h] = 0
    BY <1>1, <1>3, RunMoves
<1> HIDE DEF made
<1>5. TransfersTypeOK' BY <1>1, <1>2, <1>4 DEF TransfersTypeOK
<1>6. landing'[p] = "landed" /\ \A q \in Payers \ {p} : landing'[q] = landing[q]
    BY <1>1 DEF TransfersTypeOK
<1>7. OrdersArePayable'
  <2> SUFFICES ASSUME NEW q \in Payers
               PROVE  /\ Paying(q) => order[q] \in Orders /\ Payable(order[q])
                      /\ landing'[q] # "none" => payer[q] \in {"confirm", "paid", "failed", "unsure"}
      BY <1>1 DEF OrdersArePayable, Payable, Paying
  <2>1. QED BY <1>3, <1>6 DEF OrdersArePayable
<1>8. AnswersAreLandings' BY <1>1, <1>3, <1>6 DEF AnswersAreLandings
<1>9. SeenIsSo'
  <2>1. ASSUME NEW q \in Payers \ overtaken' PROVE ~Unlanded(q)' /\ ~Covered(q)'
    <3>1. CASE q = p BY <1>1, <1>3, <1>6, <3>1 DEF Unlanded, Covered
    <3>2. CASE q # p
      <4>1. ~Underway(q) /\ landing[q] # "sent" BY <1>1, <2>1, <3>2
      <4>2. QED BY <1>1, <1>6, <3>2, <4>1 DEF Unlanded, Covered, Underway
    <3>3. QED BY <3>1, <3>2
  <2>2. QED BY <2>1 DEF SeenIsSo
<1>10. RefusedWereOvertaken' BY <1>1, <1>6 DEF RefusedWereOvertaken
<1>11. TokensAreKept' BY <1>2, <1>4 DEF TokensAreKept
<1>12. QED BY <1>5, <1>7, <1>8, <1>9, <1>10, <1>11

(* An address that is funded before its account is created disturbs         *)
(* nothing that the invariant says of it.                                   *)
LEMMA PrefundKeeps ==
    ASSUME TransfersAssumption, TransfersInv, NEW h \in Holders, Prefund(h) PROVE TransfersInv'
<1> USE DEF TransfersInv
<1>1. account[h] = "none" /\ account' = [account EXCEPT ![h] = "foreign"]
      /\ UNCHANGED <<tokens, payer, order, absent, landing, overtaken>>
    BY DEF Prefund, clientVars
<1>2. \A g \in Holders : account'[g] # "token" <=> account[g] # "token"
    BY <1>1 DEF TransfersTypeOK
<1>3. TransfersTypeOK' BY <1>1, <1>2 DEF TransfersTypeOK
<1>4. OrdersArePayable' BY <1>1 DEF OrdersArePayable, Paying, Payable
<1>5. SeenIsSo'
  <2> SUFFICES ASSUME NEW q \in Payers \ overtaken
               PROVE  /\ Unlanded(q) =>
                            /\ absent[q] \subseteq Recipients(order[q])
                            /\ \A g \in Recipients(order[q]) : g \in absent[q] <=> account'[g] # "token"
                      /\ Covered(q) => TotalUnits(order[q]) <= tokens[order[q].from]
      BY <1>1 DEF SeenIsSo, Recipients, TotalUnits, Unlanded, Covered
  <2>1. Unlanded(q) \/ Covered(q) => Recipients(order[q]) \subseteq Holders
    <3>1. Unlanded(q) \/ Covered(q) => Paying(q) BY DEF Unlanded, Covered, Paying, OrdersArePayable
    <3>2. Paying(q) => OrderShape(order[q]) BY PayableShape DEF OrdersArePayable
    <3>3. OrderShape(order[q]) => Recipients(order[q]) \subseteq Holders
        BY DEF OrderShape, Recipients, Range
    <3>4. QED BY <3>1, <3>2, <3>3
  <2>2. QED BY <1>2, <2>1 DEF SeenIsSo
<1>6. AnswersAreLandings' /\ RefusedWereOvertaken' /\ TokensAreKept'
    BY <1>1 DEF AnswersAreLandings, RefusedWereOvertaken, TokensAreKept
<1>7. QED BY <1>3, <1>4, <1>5, <1>6

(* The invariant holds of every behavior.                                   *)
LEMMA TransfersInvHolds == TransfersAssumption => (TransfersSpec => []TransfersInv)
<1> SUFFICES ASSUME TransfersAssumption PROVE TransfersSpec => []TransfersInv
    OBVIOUS
<1>1. TransfersInit => TransfersInv BY TransfersInitially
<1>2. TransfersInv /\ [TransfersNext]_transferVars => TransfersInv'
  <2> SUFFICES ASSUME TransfersInv, [TransfersNext]_transferVars PROVE TransfersInv'
      OBVIOUS
  <2>1. CASE TransfersNext
    <3>1. ASSUME NEW p \in Payers, Ask(p) PROVE TransfersInv' BY <3>1, AskKeeps
    <3>2. ASSUME NEW p \in Payers, Land(p) PROVE TransfersInv' BY <3>2, LandKeeps
    <3>3. ASSUME NEW p \in Payers, FailOnChain(p) \/ Lapse(p) PROVE TransfersInv'
        BY <3>3, EndingKeeps
    <3>4. ASSUME NEW p \in Payers, TransferUSDC(p) \/ TransferWithSplit(p) \/ ExecuteBatchPayout(p)
          PROVE  TransfersInv'
        BY <3>4, ProceedKeeps DEF TransferUSDC, TransferWithSplit, ExecuteBatchPayout
    <3>5. ASSUME NEW h \in Holders, Prefund(h) PROVE TransfersInv' BY <3>5, PrefundKeeps
    <3>6. QED BY <2>1, <3>1, <3>2, <3>3, <3>4, <3>5 DEF TransfersNext
  <2>2. CASE UNCHANGED transferVars
      BY <2>2 DEF transferVars, TransfersInv, TransfersTypeOK, OrdersArePayable, AnswersAreLandings,
                  SeenIsSo, RefusedWereOvertaken, TokensAreKept, Paying, Payable, Unlanded, Covered,
                  Recipients, TotalUnits
  <2>3. QED BY <2>1, <2>2
<1>3. QED BY <1>1, <1>2, PTL DEF TransfersSpec

(* A split leaves the fee wallet 5 percent and less than a unit more.       *)
LEMMA SplitIsFair ==
    ASSUME NEW o, OrderShape(o), o.kind = "split"
    PROVE  /\ TotalUnits(o) = Units(o.asked[1])
           /\ Legs(o)[2].units * 20 - TotalUnits(o) \in 0 .. 19
<1> DEFINE t == Units(o.asked[1])
           c == (t * 95) \div 100
           f == LegUnits(o)
<1>1. Len(o.to) = 2 /\ t \in Nat BY DEF OrderShape
<1>2. Legs(o) = <<Leg(o.to[1], c), Leg(o.to[2], t - c)>> BY DEF Legs, SplitLegs
<1>3. Legs(o)[1].units = c /\ Legs(o)[2].units = t - c BY <1>2 DEF Leg
<1>4. f[1] = c /\ f[2] = t - c /\ IsFiniteSet(1 .. 2) /\ \A i \in 1 .. 2 : f[i] \in Int
    BY <1>1, <1>3, LegsAre
<1>5. (t - c) * 20 - t \in 0 .. 19 /\ c \in Nat
  <2> HIDE DEF t
  <2>1. QED BY <1>1
<1>6. TotalUnits(o) = SumFunctionOnSet(f, 1 .. 2)
  <2>1. {} \in SUBSET (1 .. Len(o.to)) OBVIOUS
  <2>2. TotalUnits(o) = LegSum(o, 1 .. Len(o.to)) BY <2>1, LegSums
  <2>3. QED BY <1>1, <2>2 DEF LegSum
<1> HIDE DEF f, c
<1>7. SumFunctionOnSet(f, 1 .. 2) = f[1] + SumFunctionOnSet(f, (1 .. 2) \ {1})
  <2>1. 1 \in 1 .. 2 OBVIOUS
  <2>2. QED BY <1>4, <2>1, SumPicks
<1>8. SumFunctionOnSet(f, {2}) = f[2] + SumFunctionOnSet(f, {2} \ {2})
  <2>1. IsFiniteSet({2}) BY FS_Singleton
  <2>2. 2 \in 1 .. 2 OBVIOUS
  <2>3. \A i \in {2} : f[i] \in Int BY <1>4, <2>2
  <2>4. 2 \in {2} OBVIOUS
  <2>5. QED BY <2>1, <2>3, <2>4, SumPicks
<1>9. (1 .. 2) \ {1} = {2} /\ {2} \ {2} = {} OBVIOUS
<1>10. SumFunctionOnSet(f, {}) = 0 BY SumOfNone
<1> HIDE DEF t
<1>11. SumFunctionOnSet(f, {2}) = f[2]
  <2>1. SumFunctionOnSet(f, {2} \ {2}) = 0 BY <1>9, <1>10
  <2>2. 2 \in 1 .. 2 OBVIOUS
  <2>3. f[2] \in Int BY <1>4, <2>2
  <2>4. f[2] + 0 = f[2] BY <2>3
  <2>5. QED BY <1>8, <2>1, <2>4
<1>12. SumFunctionOnSet(f, 1 .. 2) = f[1] + f[2] BY <1>7, <1>9, <1>11
<1>13. TotalUnits(o) = t BY <1>1, <1>4, <1>5, <1>6, <1>12
<1>14. QED BY <1>3, <1>5, <1>13 DEF t

(* The amounts of a call under way are exact, and print back.               *)
LEMMA AmountsFollow ==
    ASSUME TransfersAssumption, TransfersInv PROVE AmountIsExact /\ PrintedReadsBack
<1>1. \A p \in Payers : Paying(p) => OrderShape(order[p])
    BY PayableShape DEF TransfersInv, OrdersArePayable
<1>2. Decimals \in Nat BY DEF TransfersAssumption
<1>3. ASSUME NEW t \in Texts, Len(t.fraction) <= Decimals
      PROVE  Units(t) * TenTo[Len(t.fraction)]
                 = (t.whole * TenTo[Len(t.fraction)] + Number(t.fraction)) * Scale
    BY <1>2, <1>3, UnitsAreExact
<1>4. AmountIsExact
  <2> SUFFICES ASSUME NEW p \in Payers, Paying(p)
               PROVE  LET o == order[p]
                          worth(t) == t.whole * TenTo[Len(t.fraction)] + Number(t.fraction)
                      IN IF o.kind = "split"
                         THEN LET t == o.asked[1]
                                  total == TotalUnits(o)
                              IN /\ total * TenTo[Len(t.fraction)] = worth(t) * Scale
                                 /\ Legs(o)[2].units * 20 - total \in 0 .. 19
                         ELSE \A i \in DOMAIN o.to :
                                  Legs(o)[i].units * TenTo[Len(o.asked[i].fraction)]
                                      = worth(o.asked[i]) * Scale
      BY DEF AmountIsExact
  <2> DEFINE o == order[p]
  <2>1. OrderShape(o) BY <1>1
  <2>2. \A i \in 1 .. Len(o.to) : o.asked[i] \in Texts /\ Len(o.asked[i].fraction) <= Decimals
      BY <2>1 DEF OrderShape
  <2>3. DOMAIN o.to = 1 .. Len(o.to) BY <2>1 DEF OrderShape
  <2>4. CASE o.kind = "split"
    <3>1. 1 \in 1 .. Len(o.to) BY <2>1, <2>4 DEF OrderShape
    <3>2. QED BY <1>3, <2>1, <2>2, <2>4, <3>1, SplitIsFair
  <2>5. CASE o.kind # "split"
    <3> SUFFICES ASSUME NEW i \in 1 .. Len(o.to) PROVE Legs(o)[i].units = Units(o.asked[i])
        BY <1>3, <2>2, <2>3, <2>5
    <3>1. CASE o.kind = "payment"
      <4>1. Len(o.to) = 1 BY <2>1, <3>1 DEF OrderShape
      <4> HIDE DEF o
      <4>2. i = 1 BY <4>1
      <4>3. QED BY <3>1, <4>2 DEF Legs, PaymentLegs, Leg
    <3>2. CASE o.kind = "batch" BY <2>3, <3>2 DEF Legs, BatchLegs, Leg
    <3>3. QED BY <2>1, <2>5, <3>1, <3>2 DEF OrderShape
  <2>6. QED BY <2>4, <2>5
<1>5. PrintedReadsBack
  <2> SUFFICES ASSUME NEW p \in Payers, Paying(p)
               PROVE  Units(FormatUSDC(TotalUnits(order[p]))) = TotalUnits(order[p])
      BY DEF PrintedReadsBack
  <2>1. {} \in SUBSET (1 .. Len(order[p].to)) OBVIOUS
  <2>2. TotalUnits(order[p]) \in Nat BY <1>1, <2>1, LegSums
  <2>3. QED BY <1>2, <2>2, PrintsBack
<1>6. QED BY <1>4, <1>5

(* However calls, landings, failures and pre-funded addresses interleave,   *)
(* what lib/solana/transfer.ts is asked, what the chain runs and what the   *)
(* caller hears agree: amounts to the last unit, the fee of a split         *)
(* within a unit, an answer with a signature only for a transaction that    *)
(* landed, a refusal of the node or the chain only after another landed     *)
(* in between, and no token made or lost.                                   *)
THEOREM TransfersStayTrue == TransfersSpec => []TransfersAreTrue
<1>1. ASSUME TransfersInv PROVE TransfersAreTrue
  <2>1. AmountIsExact /\ PrintedReadsBack BY <1>1, TransfersAssumption, AmountsFollow
  <2>2. PaidIsToldApart
      BY <1>1 DEF TransfersInv, OrdersArePayable, AnswersAreLandings, PaidIsToldApart
  <2>3. RejectedWereOvertaken
      BY <1>1 DEF TransfersInv, AnswersAreLandings, RefusedWereOvertaken, RejectedWereOvertaken
  <2>4. QED BY <1>1, <2>1, <2>2, <2>3 DEF TransfersInv, TransfersAreTrue
<1>2. QED BY <1>1, TransfersAssumption, TransfersInvHolds, PTL

(***************************************************************************)
(*                             The Dodo webhook                            *)
(***************************************************************************)
USE BillingAssumption

(* A handler that is about to write the event's rows.                       *)
OnIt(h, e) == handler[h].at \in {"upsert", "apply"} /\ handler[h].event = e

(* What a handler's position and the rows tell about the event: an answer   *)
(* and a processed row follow a committed transaction.                      *)
AnswerIsEarned ==
    /\ \A h \in Handlers : handler[h].at = "answer" => applied[handler[h].event] > 0
    /\ \A e \in Events : webhook[e] = "processed" => applied[e] > 0

(* While calls do not overlap on an event, one of them is on it at most, it *)
(* has been applied at most once, and a commit leaves nobody on it.         *)
OneAtATime ==
    \A e \in Events \ raced :
        /\ \A g, h \in Handlers : OnIt(g, e) /\ OnIt(h, e) => g = h
        /\ applied[e] \in {0, 1}
        /\ applied[e] = 1 => /\ webhook[e] = "processed"
                             /\ \A h \in Handlers : ~OnIt(h, e)

BillingInv ==
    /\ BillingTypeOK
    /\ AnswerIsEarned
    /\ AnsweredIsApplied
    /\ ReplayedIsApplied
    /\ OneAtATime

-----------------------------------------------------------------------------
LEMMA BillingInitInv == BillingInit => BillingInv
BY DEF BillingInit, BillingInv, BillingTypeOK, AnswerIsEarned, AnsweredIsApplied,
       ReplayedIsApplied, OneAtATime, OnIt, Resting, Events, Statuses, CompanyStatuses

LEMMA StatusIsBilled ==
    ASSUME NEW status \in Statuses
    PROVE  BilledStatus(status) \in CompanyStatuses
BY DEF BilledStatus, CompanyStatuses, Statuses

(* A handler that rests or reads has no fields but its own; in the other    *)
(* positions it has an event, a replay flag and the attempts it read.       *)
LEMMA Busy ==
    ASSUME BillingTypeOK, NEW h \in Handlers, handler[h] # Resting
    PROVE  handler[h] \in [at: {"read", "upsert", "apply", "fail", "answer"},
                           event: Events, replay: BOOLEAN, attempts: 0 .. MaxReplays]
BY DEF BillingTypeOK

-----------------------------------------------------------------------------
(* Type correctness, one group of actions at a time.                        *)
LEMMA HandleKeepsType ==
    ASSUME BillingTypeOK, NEW h \in Handlers, Handle(h)
    PROVE  BillingTypeOK'
<1> DEFINE Call == [at: {"read", "upsert", "apply", "fail", "answer"},
                    event: Events, replay: BOOLEAN, attempts: 0 .. MaxReplays]
<1>1. ASSUME NEW at \in {"read", "upsert", "apply", "fail", "answer"},
             handler[h] \in Call, GoOn(h, at)
      PROVE  handler' \in [Handlers -> {Resting} \cup Call]
  BY <1>1 DEF GoOn, BillingTypeOK
<1>2. Rest(h) => handler' \in [Handlers -> {Resting} \cup Call]
  BY DEF Rest, BillingTypeOK
<1>3. \A at \in {"read", "upsert", "apply", "fail", "answer"} :
          handler[h].at = at => handler[h] \in Call
  BY Busy DEF Resting
<1>4. CASE \E e \in Events : Deliver(h, e) \/ TakeLetter(h, e)
  <2>1. PICK e \in Events : Deliver(h, e) \/ TakeLetter(h, e)
    BY <1>4
  <2>2. letter[e].attempts \in 0 .. MaxReplays /\ 0 \in 0 .. MaxReplays
    BY DEF BillingTypeOK
  <2> DEFINE Taken(replay, attempts, verified) ==
                [at |-> IF verified THEN "read" ELSE "fail",
                 event |-> e, replay |-> replay, attempts |-> attempts]
  <2>3. \A replay \in BOOLEAN, attempts \in 0 .. MaxReplays, verified \in BOOLEAN :
            Taken(replay, attempts, verified) \in Call
    OBVIOUS
  <2>4. \E verified \in BOOLEAN : \/ Take(h, e, FALSE, 0, verified)
                                  \/ Take(h, e, TRUE, letter[e].attempts, verified)
    BY <2>1 DEF Deliver, TakeLetter
  <2>5. \E call \in Call : handler' = [handler EXCEPT ![h] = call]
    <3>1. PICK verified \in BOOLEAN : \/ Take(h, e, FALSE, 0, verified)
                                     \/ Take(h, e, TRUE, letter[e].attempts, verified)
      BY <2>4
    <3>2. CASE Take(h, e, FALSE, 0, verified)
      <4>1. handler' = [handler EXCEPT ![h] = Taken(FALSE, 0, verified)]
        BY <3>2 DEF Take
      <4>2. Taken(FALSE, 0, verified) \in Call
        BY <2>2, <2>3
      <4> HIDE DEF Taken
      <4>3. QED BY <4>1, <4>2
    <3>3. CASE Take(h, e, TRUE, letter[e].attempts, verified)
      <4>1. handler' = [handler EXCEPT ![h] = Taken(TRUE, letter[e].attempts, verified)]
        BY <3>3 DEF Take
      <4>2. Taken(TRUE, letter[e].attempts, verified) \in Call
        BY <2>2, <2>3
      <4> HIDE DEF Taken
      <4>3. QED BY <4>1, <4>2
    <3>4. QED BY <3>1, <3>2, <3>3
  <2>6. handler' \in [Handlers -> {Resting} \cup Call]
    BY <2>5 DEF BillingTypeOK
  <2> QED
    BY <2>1, <2>6 DEF Deliver, TakeLetter, BillingTypeOK, Elsewhere, rows, history
<1>5. CASE ReadWebhook(h)
  <2>1. handler' \in [Handlers -> {Resting} \cup Call]
    BY <1>1, <1>3, <1>5 DEF ReadWebhook
  <2>2. handler[h].event \in Events
    BY <1>3, <1>5 DEF ReadWebhook
  <2> QED
    BY <1>5, <2>1, <2>2 DEF ReadWebhook, BillingTypeOK, Elsewhere, rows
<1>6. CASE UpsertWebhook(h)
  <2>1. handler' \in [Handlers -> {Resting} \cup Call]
    BY <1>1, <1>3, <1>6 DEF UpsertWebhook
  <2> QED
    BY <1>6, <2>1 DEF UpsertWebhook, BillingTypeOK, Elsewhere, history
<1>7. CASE Apply(h)
  <2>1. handler' \in [Handlers -> {Resting} \cup Call]
    BY <1>1, <1>3, <1>7 DEF Apply
  <2>2. handler[h].event \in Events
    BY <1>3, <1>7 DEF Apply
  <2>3. BilledStatus(StatusOf[handler[h].event]) \in CompanyStatuses
    BY <2>2, StatusIsBilled
  <2>4. company' \in [status: CompanyStatuses, subscribed: BOOLEAN]
    BY <1>7, <2>3 DEF Apply, BillingTypeOK
  <2>5. /\ payments' \in [Payments -> Statuses \cup {"none"}]
        /\ applied' \in [Events -> 0 .. 2]
        /\ webhook' \in [Events -> {"none", "received", "processed"}]
    BY <1>7, <2>2 DEF Apply, BillingTypeOK
  <2> QED
    BY <1>7, <2>1, <2>4, <2>5 DEF Apply, BillingTypeOK, Elsewhere
<1>8. CASE Fail(h)
  <2>1. handler' \in [Handlers -> {Resting} \cup Call]
    BY <1>1, <1>3, <1>8 DEF Fail
  <2> QED
    BY <1>8, <2>1 DEF Fail, BillingTypeOK, Elsewhere, rows, history
<1>9. CASE RecordFailure(h)
  BY <1>2, <1>9 DEF RecordFailure, BillingTypeOK, Elsewhere, history
<1>10. CASE CountFailure(h)
  <2>1. handler[h] \in Call
    BY <1>3, <1>10 DEF CountFailure
  <2>2. IF handler[h].attempts < MaxReplays
        THEN handler[h].attempts + 1 \in 0 .. MaxReplays
        ELSE handler[h].attempts \in 0 .. MaxReplays
    BY <2>1
  <2>3. letter' \in [Events -> [status: {"none", "PENDING_REPLAY", "REPLAYED",
                                          "PERMANENT_FAILURE"},
                                 attempts: 0 .. MaxReplays]]
    BY <1>10, <2>1, <2>2 DEF CountFailure, BillingTypeOK
  <2> QED
    BY <1>2, <1>10, <2>3 DEF CountFailure, BillingTypeOK, Elsewhere, history
<1>11. CASE AnswerDelivery(h)
  <2>1. handler[h].event \in Events
    BY <1>3, <1>11 DEF AnswerDelivery, Succeeded
  <2> QED
    BY <1>2, <1>11, <2>1 DEF AnswerDelivery, BillingTypeOK, Elsewhere, rows
<1>12. CASE CloseLetter(h)
  <2> DEFINE Letters == [status: {"none", "PENDING_REPLAY", "REPLAYED", "PERMANENT_FAILURE"},
                         attempts: 0 .. MaxReplays]
  <2>1. \A l \in Letters : [l EXCEPT !.status = "REPLAYED"] \in Letters
    OBVIOUS
  <2>2. letter \in [Events -> Letters] /\ handler[h].event \in Events
    BY <1>3, <1>12 DEF CloseLetter, Succeeded, BillingTypeOK
  <2>3. letter' = [letter EXCEPT ![handler[h].event] = [@ EXCEPT !.status = "REPLAYED"]]
    BY <1>12 DEF CloseLetter
  <2> HIDE DEF Letters
  <2>4. letter' \in [Events -> Letters]
    BY <2>1, <2>2, <2>3
  <2> QED
    BY <1>2, <1>12, <2>4 DEF CloseLetter, BillingTypeOK, Elsewhere, history, Letters
<1>13. CASE DropHandler(h)
  BY <1>2, <1>13 DEF DropHandler, BillingTypeOK, Elsewhere, rows, history
<1> QED
  BY <1>4, <1>5, <1>6, <1>7, <1>8, <1>9, <1>10, <1>11, <1>12, <1>13 DEF Handle

LEMMA ReconcileKeepsType ==
    ASSUME BillingTypeOK, NEW r \in Reconcilers, Reconcile(r)
    PROVE  BillingTypeOK'
<1> DEFINE Writing == [at: {"write", "payment"}, status: CompanyStatuses,
                       subscribes: BOOLEAN, payment: Payments \cup {"none"}]
           Reconciling == {Resting} \cup [at: {"fetch", "sync"}] \cup Writing
<1>1. \A at \in {"write", "payment"} : reconcile[r].at = at => reconcile[r] \in Writing
  BY DEF BillingTypeOK, Resting
<1>2. CASE ReadCompany(r)
  BY <1>2 DEF ReadCompany, Others, BillingTypeOK, history
<1>3. CASE FetchSubscription(r)
  <2>1. reconcile' \in [Reconcilers -> Reconciling]
    BY <1>3 DEF FetchSubscription, FetchedStatus, BillingTypeOK
  <2> QED
    BY <1>3, <2>1 DEF FetchSubscription, Others, BillingTypeOK, history
<1>4. CASE SyncReturn(r)
  <2>1. reconcile' \in [Reconcilers -> Reconciling]
    BY <1>4 DEF SyncReturn, BillingTypeOK, CompanyStatuses, Statuses
  <2> QED
    BY <1>4, <2>1 DEF SyncReturn, Others, BillingTypeOK, history
<1>5. CASE WriteStatus(r)
  <2>1. reconcile[r] \in Writing
    BY <1>1, <1>5 DEF WriteStatus
  <2>2. reconcile' \in [Reconcilers -> Reconciling]
    BY <1>5, <2>1 DEF WriteStatus, BillingTypeOK
  <2> QED
    BY <1>5, <2>1, <2>2 DEF WriteStatus, Others, BillingTypeOK, history
<1>6. CASE WritePayment(r)
  BY <1>6 DEF WritePayment, BillingTypeOK, Statuses, history
<1>7. CASE DropReconcile(r)
  BY <1>7 DEF DropReconcile, Others, BillingTypeOK, history
<1> QED
  BY <1>2, <1>3, <1>4, <1>5, <1>6, <1>7 DEF Reconcile

LEMMA OthersKeepType ==
    ASSUME BillingTypeOK, Issue \/ \E c \in Checkouts : Checkout(c)
    PROVE  BillingTypeOK'
<1>1. CASE Issue
  <2>1. issued' \in 1 .. LastEvent
    BY <1>1 DEF Issue, BillingTypeOK
  <2>2. live' \in CompanyStatuses
    BY <1>1, <2>1, StatusIsBilled DEF Issue, BillingTypeOK, Events
  <2> QED
    BY <1>1, <2>1, <2>2 DEF Issue, BillingTypeOK, rows, history
<1>2. CASE \E c \in Checkouts : Checkout(c)
  BY <1>2 DEF Checkout, BillingTypeOK, CompanyStatuses, Statuses, history
<1> QED
  BY <1>1, <1>2

LEMMA TypePreserved == BillingTypeOK /\ [BillingNext]_billingVars => BillingTypeOK'
BY HandleKeepsType, ReconcileKeepsType, OthersKeepType
   DEF BillingNext, billingVars, rows, history, BillingTypeOK

-----------------------------------------------------------------------------
(* Reconciliations, checkouts and the provider leave the handlers' state    *)
(* and its history alone.                                                   *)
LEMMA OnlyHandlersHandle ==
    ASSUME [BillingNext]_billingVars
    PROVE  \/ \E h \in Handlers : Handle(h)
           \/ UNCHANGED <<webhook, letter, handler, history>>
BY DEF BillingNext, billingVars, rows, Issue, Reconcile, ReadCompany, FetchSubscription,
       SyncReturn, WriteStatus, WritePayment, DropReconcile, Checkout, Others

(* A commit counts once more, and nothing is ever counted back.             *)
LEMMA AppliedStays ==
    ASSUME BillingTypeOK, NEW h \in Handlers, Handle(h), NEW e \in Events, applied[e] > 0
    PROVE  applied'[e] > 0
<1>1. CASE Apply(h)
  BY <1>1 DEF Apply, BillingTypeOK
<1>2. CASE ~Apply(h)
  BY <1>2 DEF Handle, Deliver, TakeLetter, ReadWebhook, UpsertWebhook, Fail,
     RecordFailure, CountFailure, AnswerDelivery, CloseLetter, DropHandler, history
<1> QED
  BY <1>1, <1>2

(* An answer comes from a row read as processed or from a commit.           *)
LEMMA AnswersAreEarned ==
    ASSUME BillingTypeOK, AnswerIsEarned, NEW h \in Handlers, Handle(h)
    PROVE  AnswerIsEarned'
<1>1. \A e \in Events : webhook'[e] = "processed" => applied'[e] > 0
  <2>1. CASE Apply(h)
    BY <2>1, Busy, AppliedStays DEF Apply, AnswerIsEarned, BillingTypeOK, Resting
  <2>2. CASE UpsertWebhook(h)
    BY <2>2, AppliedStays DEF UpsertWebhook, AnswerIsEarned, BillingTypeOK
  <2>3. CASE ~Apply(h) /\ ~UpsertWebhook(h)
    <3>1. webhook' = webhook
      BY <2>3 DEF Handle, Deliver, TakeLetter, ReadWebhook, Fail, RecordFailure,
         CountFailure, AnswerDelivery, CloseLetter, DropHandler, rows
    <3> QED
      BY <3>1, AppliedStays DEF AnswerIsEarned
  <2> QED
    BY <2>1, <2>2, <2>3
<1>2. \A g \in Handlers : handler'[g].at = "answer" => applied'[handler'[g].event] > 0
  <2> SUFFICES ASSUME NEW g \in Handlers, handler'[g].at = "answer"
               PROVE  applied'[handler'[g].event] > 0
    OBVIOUS
  <2>1. CASE handler'[g] = handler[g]
    <3>1. handler[g].event \in Events /\ applied[handler[g].event] > 0
      BY <2>1, Busy DEF AnswerIsEarned, Resting
    <3> QED
      BY <2>1, <3>1, AppliedStays
  <2>2. CASE g = h /\ ReadWebhook(h)
    BY <2>2, Busy DEF ReadWebhook, GoOn, AlreadyProcessed, AnswerIsEarned, BillingTypeOK, Resting
  <2>3. CASE g = h /\ Apply(h)
    BY <2>3, Busy DEF Apply, GoOn, BillingTypeOK, Resting
  <2>4. CASE g = h /\ ~ReadWebhook(h) /\ ~Apply(h)
    BY <2>4 DEF Handle, BillingTypeOK, Resting, Deliver, TakeLetter, Take, UpsertWebhook,
       Fail, RecordFailure, CountFailure, AnswerDelivery, CloseLetter, DropHandler, GoOn, Rest
  <2>5. CASE g # h
    BY <2>1, <2>5 DEF Handle, BillingTypeOK, Deliver, TakeLetter, Take, ReadWebhook,
       UpsertWebhook, Apply, Fail, RecordFailure, CountFailure, AnswerDelivery, CloseLetter,
       DropHandler, GoOn, Rest
  <2> QED
    BY <2>2, <2>3, <2>4, <2>5
<1> QED
  BY <1>1, <1>2 DEF AnswerIsEarned

LEMMA PromisesKept ==
    ASSUME BillingTypeOK, AnswerIsEarned, AnsweredIsApplied, ReplayedIsApplied,
           NEW h \in Handlers, Handle(h)
    PROVE  AnsweredIsApplied' /\ ReplayedIsApplied'
<1>1. CASE AnswerDelivery(h) \/ CloseLetter(h)
  <2>1. handler[h].event \in Events /\ applied[handler[h].event] > 0
    BY <1>1, Busy DEF AnswerDelivery, CloseLetter, Succeeded, AnswerIsEarned, Resting
  <2> QED
    BY <1>1, <2>1 DEF AnswerDelivery, CloseLetter, AnsweredIsApplied, ReplayedIsApplied,
       BillingTypeOK, rows, history
<1>2. CASE RecordFailure(h) \/ CountFailure(h)
  <2>1. UNCHANGED <<applied, answered>>
    BY <1>2 DEF RecordFailure, CountFailure, history
  <2>2. ASSUME NEW e \in Events, RecordFailure(h), letter'[e].status = "REPLAYED"
        PROVE  letter[e].status = "REPLAYED"
    <3>1. letter[e] \in [status: {"none", "PENDING_REPLAY", "REPLAYED", "PERMANENT_FAILURE"},
                         attempts: 0 .. MaxReplays]
      BY DEF BillingTypeOK
    <3>2. [letter[e] EXCEPT !.status = "PENDING_REPLAY"].status = "PENDING_REPLAY"
      BY <3>1
    <3>3. letter' = letter \/ letter' = [letter EXCEPT ![handler[h].event] =
                                            [@ EXCEPT !.status = "PENDING_REPLAY"]]
      BY <2>2 DEF RecordFailure
    <3>4. letter'[e] \in {letter[e], [letter[e] EXCEPT !.status = "PENDING_REPLAY"]}
      BY <3>3 DEF BillingTypeOK
    <3> QED
      BY <2>2, <3>2, <3>4
  <2>3. ASSUME NEW e \in Events, CountFailure(h), letter'[e].status = "REPLAYED"
        PROVE  letter[e].status = "REPLAYED"
    <3>1. \E read \in {"PENDING_REPLAY", "PERMANENT_FAILURE"} : \E n :
              letter' = [letter EXCEPT ![handler[h].event] = [status |-> read, attempts |-> n]]
      BY <2>3 DEF CountFailure
    <3> QED
      BY <2>3, <3>1 DEF BillingTypeOK
  <2> QED
    BY <1>2, <2>1, <2>2, <2>3 DEF AnsweredIsApplied, ReplayedIsApplied
<1>3. CASE ~(AnswerDelivery(h) \/ CloseLetter(h) \/ RecordFailure(h) \/ CountFailure(h))
  <2>1. UNCHANGED <<letter, answered>>
    BY <1>3 DEF Handle, Deliver, TakeLetter, ReadWebhook, UpsertWebhook, Apply, Fail,
       DropHandler, rows, history
  <2> QED
    BY <2>1, AppliedStays DEF AnsweredIsApplied, ReplayedIsApplied, BillingTypeOK
<1> QED
  BY <1>1, <1>2, <1>3

-----------------------------------------------------------------------------
(* One at a time: what each kind of step does to an event nobody has raced  *)
(* for.                                                                     *)
LEMMA StaysOneAtATime ==
    ASSUME BillingTypeOK, OneAtATime, NEW h \in Handlers, Handle(h)
    PROVE  OneAtATime'
<1> SUFFICES ASSUME NEW e \in Events \ raced'
             PROVE  (/\ \A f, g \in Handlers : OnIt(f, e) /\ OnIt(g, e) => f = g
                     /\ applied[e] \in {0, 1}
                     /\ applied[e] = 1 => /\ webhook[e] = "processed"
                                          /\ \A g \in Handlers : ~OnIt(g, e))'
  BY DEF OneAtATime
<1>1. e \in Events \ raced
  BY DEF Handle, Deliver, TakeLetter, ReadWebhook, UpsertWebhook, Apply, Fail,
     RecordFailure, CountFailure, AnswerDelivery, CloseLetter, DropHandler, history
<1>2. /\ \A f, g \in Handlers : OnIt(f, e) /\ OnIt(g, e) => f = g
      /\ applied[e] \in {0, 1}
      /\ applied[e] = 1 => /\ webhook[e] = "processed"
                           /\ \A g \in Handlers : ~OnIt(g, e)
  BY <1>1 DEF OneAtATime
<1>3. ASSUME NEW g \in Handlers \ {h}
      PROVE  OnIt(g, e)' <=> OnIt(g, e)
  <2>1. handler'[g] = handler[g]
    BY DEF Handle, BillingTypeOK, Deliver, TakeLetter, Take, ReadWebhook, UpsertWebhook,
       Apply, Fail, RecordFailure, CountFailure, AnswerDelivery, CloseLetter, DropHandler,
       GoOn, Rest
  <2> QED
    BY <2>1 DEF OnIt
<1>4. CASE ReadWebhook(h)
  <2>1. UNCHANGED <<webhook, applied>>
    BY <1>4 DEF ReadWebhook, rows
  <2>2. CASE OnIt(h, e)'
    <3>1. handler[h].event = e /\ ~AlreadyProcessed(e)
      BY <1>4, <2>2, Busy DEF ReadWebhook, GoOn, OnIt, BillingTypeOK, Resting
    <3>2. \A g \in Handlers \ {h} : ~OnIt(g, e)
      BY <1>4, <3>1 DEF ReadWebhook, OthersOn, OnIt
    <3> QED
      BY <1>2, <1>3, <2>1, <3>1, <3>2 DEF AlreadyProcessed
  <2>3. CASE ~OnIt(h, e)'
    BY <1>2, <1>3, <2>1, <2>3
  <2> QED
    BY <2>2, <2>3
<1>5. CASE UpsertWebhook(h)
  <2>1. OnIt(h, e)' => OnIt(h, e)
    BY <1>5, Busy DEF UpsertWebhook, GoOn, OnIt, BillingTypeOK, Resting
  <2>2. applied'[e] = applied[e] /\ (webhook'[e] = webhook[e] \/ OnIt(h, e))
    BY <1>5 DEF UpsertWebhook, OnIt, BillingTypeOK, history
  <2> QED
    BY <1>2, <1>3, <2>1, <2>2
<1>6. CASE Apply(h)
  <2>1. ~OnIt(h, e)'
    BY <1>6, Busy DEF Apply, GoOn, OnIt, BillingTypeOK, Resting
  <2>2. CASE handler[h].event = e
    <3>1. OnIt(h, e)
      BY <1>6, <2>2 DEF Apply, OnIt
    <3>2. applied[e] = 0 /\ \A g \in Handlers \ {h} : ~OnIt(g, e)
      BY <1>2, <3>1
    <3>3. applied'[e] = 1 /\ webhook'[e] = "processed"
      BY <1>6, <2>2, <3>2 DEF Apply, BillingTypeOK
    <3> QED
      BY <1>3, <2>1, <3>2, <3>3
  <2>3. CASE handler[h].event # e
    <3>1. applied'[e] = applied[e] /\ webhook'[e] = webhook[e]
      BY <1>6, <2>3 DEF Apply, BillingTypeOK
    <3> QED
      BY <1>2, <1>3, <2>1, <3>1
  <2> QED
    BY <2>2, <2>3
<1>7. CASE ~ReadWebhook(h) /\ ~UpsertWebhook(h) /\ ~Apply(h)
  <2>1. UNCHANGED <<webhook, applied>>
    BY <1>7 DEF Handle, Deliver, TakeLetter, Fail, RecordFailure, CountFailure,
       AnswerDelivery, CloseLetter, DropHandler, rows, history
  <2>2. ~OnIt(h, e)'
    BY <1>7 DEF Handle, BillingTypeOK, Deliver, TakeLetter, Take, Fail, RecordFailure,
       CountFailure, AnswerDelivery, CloseLetter, DropHandler, GoOn, Rest, OnIt, Resting
  <2> QED
    BY <1>2, <1>3, <2>1, <2>2
<1> QED
  BY <1>4, <1>5, <1>6, <1>7

LEMMA BillingStepInv == BillingInv /\ [BillingNext]_billingVars => BillingInv'
<1> SUFFICES ASSUME BillingInv, [BillingNext]_billingVars
             PROVE  BillingInv'
  OBVIOUS
<1>1. BillingTypeOK'
  BY TypePreserved DEF BillingInv
<1>2. CASE \E h \in Handlers : Handle(h)
  BY <1>1, <1>2, AnswersAreEarned, PromisesKept, StaysOneAtATime DEF BillingInv
<1>3. CASE UNCHANGED <<webhook, letter, handler, history>>
  BY <1>1, <1>3 DEF BillingInv, AnswerIsEarned, AnsweredIsApplied, ReplayedIsApplied,
     OneAtATime, OnIt, history
<1> QED
  BY <1>2, <1>3, OnlyHandlersHandle

(* The inductive invariant holds in every behaviour of the webhook, its     *)
(* replays, the reconciliations and the checkouts.                          *)
THEOREM BillingInvariance == BillingSpec => []BillingInv
BY BillingInitInv, BillingStepInv, PTL DEF BillingSpec

(* Rows, letters and handlers keep their types; a company is never "paid".  *)
THEOREM BillingTypes == BillingSpec => []BillingTypeOK
BY BillingInvariance, PTL DEF BillingInv

(* What was answered with 200 has been applied.                             *)
THEOREM AnswersArePromises == BillingSpec => []AnsweredIsApplied
BY BillingInvariance, PTL DEF BillingInv

(* A dead letter marked REPLAYED has been applied.                          *)
THEOREM ReplaysApply == BillingSpec => []ReplayedIsApplied
BY BillingInvariance, PTL DEF BillingInv

(* Redeliveries, failures and replays that do not overlap never apply an    *)
(* event twice.                                                             *)
THEOREM AppliedOnce == BillingSpec => []AppliedOnceUnlessRaced
<1>1. BillingInv => AppliedOnceUnlessRaced
  BY DEF BillingInv, OneAtATime, AppliedOnceUnlessRaced, BillingTypeOK
<1> QED
  BY <1>1, BillingInvariance, PTL

=============================================================================
