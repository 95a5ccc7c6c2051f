---------------------------- MODULE SumTheorems ----------------------------
(***************************************************************************)
(* Sums of a function over a finite set (SumFunctionOnSet of Functions):   *)
(* what the totals, balances and flows of the models are made of.          *)
(*                                                                         *)
(* The induction theorems of the library take an operator, which the       *)
(* provers cannot instantiate; an induction over a set of naturals does    *)
(* the same, and is what the least element of a non-empty set gives.       *)
(***************************************************************************)
EXTENDS Integers, FiniteSets, Functions, FiniteSetTheorems, WellFoundedInduction, TLAPS

(* A set of naturals with 0 and every successor holds them all.             *)
LEMMA NatSetInduction ==
    ASSUME NEW T \in SUBSET Nat, 0 \in T, \A n \in T : n + 1 \in T
    PROVE  T = Nat
<1> SUFFICES ASSUME Nat \ T # {} PROVE FALSE
    OBVIOUS
<1>1. \E n \in Nat \ T : \A m \in Nat \ T : ~ <<m, n>> \in OpToRel(<, Nat)
    BY WFMin, NatLessThanWellFounded
<1>2. PICK n \in Nat \ T : \A m \in Nat \ T : ~ <<m, n>> \in OpToRel(<, Nat)
    BY <1>1
<1>3. \A m \in Nat \ T : ~ (m < n) BY <1>2 DEF OpToRel
<1>4. n # 0 /\ n - 1 \in Nat /\ n - 1 < n OBVIOUS
<1>5. n - 1 \in T BY <1>3, <1>4
<1>6. QED BY <1>4, <1>5

(* The sum as the fold of the library computes it: one element picked, the  *)
(* sum of the others found the same way.                                    *)
Picked(s) == CHOOSE x \in s : TRUE

SumAt(F, f, s) == IF s = {} THEN 0 ELSE f[Picked(s)] + F[s \ {Picked(s)}]

Sums(f, S) == CHOOSE F : F = [s \in SUBSET S |-> SumAt(F, f, s)]

LEMMA SumIsSums ==
    ASSUME NEW f, NEW S PROVE SumFunctionOnSet(f, S) = Sums(f, S)[S]
BY DEF SumFunctionOnSet, FoldFunctionOnSet, MapThenFoldSet, Sums, SumAt, Picked

LEMMA PickedIn ==
    ASSUME NEW s, s # {} PROVE Picked(s) \in s
BY DEF Picked

(* The recursion has a solution, so the CHOOSE picks one.                   *)
LEMMA SumsExist ==
    ASSUME NEW S, IsFiniteSet(S), NEW f, \A x \in S : f[x] \in Int
    PROVE  Sums(f, S) = [s \in SUBSET S |-> SumAt(Sums(f, S), f, s)]
<1> DEFINE Upto(F, n) == \A s \in SUBSET S : Cardinality(s) <= n => F[s] = SumAt(F, f, s)
           T == {n \in Nat : \E F \in [SUBSET S -> Int] : Upto(F, n)}
<1>1. \A s \in SUBSET S : IsFiniteSet(s) /\ Cardinality(s) \in Nat
    BY FS_Subset, FS_CardinalityType
<1>2. 0 \in T
  <2>1. \A s \in SUBSET S : Cardinality(s) <= 0 => s = {}
      BY <1>1, FS_EmptySet
  <2>2. Upto([s \in SUBSET S |-> 0], 0)
      BY <2>1 DEF SumAt
  <2>3. [s \in SUBSET S |-> 0] \in [SUBSET S -> Int] OBVIOUS
  <2>4. QED BY <2>2, <2>3
<1>3. \A n \in T : n + 1 \in T
  <2> SUFFICES ASSUME NEW n \in T PROVE n + 1 \in T
      OBVIOUS
  <2>1. PICK F \in [SUBSET S -> Int] : Upto(F, n) OBVIOUS
  <2> DEFINE G == [s \in SUBSET S |-> IF Cardinality(s) <= n THEN F[s] ELSE SumAt(F, f, s)]
  <2>2. \A s \in SUBSET S : s # {} =>
            /\ Picked(s) \in S /\ s \ {Picked(s)} \in SUBSET S
            /\ Cardinality(s \ {Picked(s)}) = Cardinality(s) - 1
      BY <1>1, PickedIn, FS_RemoveElement
  <2>3. G \in [SUBSET S -> Int]
    <3>1. ASSUME NEW s \in SUBSET S PROVE SumAt(F, f, s) \in Int
      <4>1. CASE s = {} BY <4>1 DEF SumAt
      <4>2. CASE s # {}
        <5>1. f[Picked(s)] \in Int /\ F[s \ {Picked(s)}] \in Int BY <2>2, <4>2
        <5>2. QED BY <4>2, <5>1 DEF SumAt
      <4>3. QED BY <4>1, <4>2
    <3>2. QED BY <3>1
  <2>4. ASSUME NEW s \in SUBSET S, Cardinality(s) <= n + 1
        PROVE  G[s] = SumAt(G, f, s)
    <3>1. SumAt(G, f, s) = SumAt(F, f, s)
      <4>1. CASE s = {} BY <4>1 DEF SumAt
      <4>2. CASE s # {}
        <5>1. G[s \ {Picked(s)}] = F[s \ {Picked(s)}]
          <6>1. Cardinality(s \ {Picked(s)}) <= n BY <1>1, <2>2, <2>4, <4>2
          <6>2. QED BY <2>2, <4>2, <6>1
        <5>2. QED BY <4>2, <5>1 DEF SumAt
      <4>3. QED BY <4>1, <4>2
    <3>2. G[s] = SumAt(F, f, s) BY <2>1
    <3>3. QED BY <3>1, <3>2
  <2>5. Upto(G, n + 1) BY <2>4
  <2>6. n + 1 \in Nat OBVIOUS
  <2>7. QED BY <2>3, <2>5, <2>6
<1>4. T = Nat
  <2> HIDE DEF T
  <2>1. T \in SUBSET Nat BY DEF T
  <2>2. QED BY <1>2, <1>3, <2>1, NatSetInduction
<1>5. Cardinality(S) \in T BY <1>4, FS_CardinalityType
<1>6. PICK F \in [SUBSET S -> Int] : Upto(F, Cardinality(S)) BY <1>5
<1>7. F = [s \in SUBSET S |-> SumAt(F, f, s)]
  <2>1. \A s \in SUBSET S : F[s] = SumAt(F, f, s)
      BY <1>6, FS_Subset
  <2>2. QED BY <2>1
<1>8. QED BY <1>7 DEF Sums

(* A family of subsets that is kept by adding a picked element is all.      *)
LEMMA SubsetInduction ==
    ASSUME NEW S, IsFiniteSet(S), NEW Q \in SUBSET SUBSET S, {} \in Q,
           \A s \in SUBSET S : s # {} /\ s \ {Picked(s)} \in Q => s \in Q
    PROVE  Q = SUBSET S
<1> DEFINE T == {n \in Nat : \A s \in SUBSET S : Cardinality(s) <= n => s \in Q}
<1>1. \A s \in SUBSET S : IsFiniteSet(s) /\ Cardinality(s) \in Nat
    BY FS_Subset, FS_CardinalityType
<1>2. 0 \in T
  <2>1. \A s \in SUBSET S : Cardinality(s) <= 0 => s = {}
      BY <1>1, FS_EmptySet
  <2>2. QED BY <2>1
<1>3. \A n \in T : n + 1 \in T
  <2> SUFFICES ASSUME NEW n \in T, NEW s \in SUBSET S, Cardinality(s) <= n + 1
               PROVE  s \in Q
      OBVIOUS
  <2>1. CASE s = {} BY <2>1
  <2>2. CASE s # {}
    <3>1. /\ s \ {Picked(s)} \in SUBSET S
          /\ Cardinality(s \ {Picked(s)}) = Cardinality(s) - 1
        BY <1>1, <2>2, PickedIn, FS_RemoveElement
    <3>2. Cardinality(s \ {Picked(s)}) <= n BY <1>1, <3>1
    <3>3. QED BY <2>2, <3>1, <3>2
  <2>3. QED BY <2>1, <2>2
<1>4. T = Nat
  <2> HIDE DEF T
  <2>1. T \in SUBSET Nat BY DEF T
  <2>2. QED BY <1>2, <1>3, <2>1, NatSetInduction
<1>5. Cardinality(S) \in T BY <1>1, <1>4
<1>6. \A s \in SUBSET S : s \in Q
    BY <1>5, FS_Subset
<1>7. QED BY <1>6

(* A sum of naturals is a natural that none of them exceeds.                *)
LEMMA SumOfNats ==
    ASSUME NEW S, IsFiniteSet(S), NEW f, \A x \in S : f[x] \in Nat
    PROVE  /\ SumFunctionOnSet(f, S) \in Nat
           /\ \A x \in S : f[x] <= SumFunctionOnSet(f, S)
<1> DEFINE F == Sums(f, S)
           Q == {s \in SUBSET S : F[s] \in Nat /\ \A x \in s : f[x] <= F[s]}
<1>1. F = [s \in SUBSET S |-> SumAt(F, f, s)]
  <2>1. \A x \in S : f[x] \in Int OBVIOUS
  <2>2. QED BY <2>1, SumsExist
<1> HIDE DEF F
<1>2. {} \in Q
    BY <1>1 DEF SumAt
<1>3. ASSUME NEW s \in SUBSET S, s # {}, s \ {Picked(s)} \in Q PROVE s \in Q
  <2>1. Picked(s) \in s /\ f[Picked(s)] \in Nat BY <1>3, PickedIn
  <2>2. F[s] = f[Picked(s)] + F[s \ {Picked(s)}]
      BY <1>1, <1>3 DEF SumAt
  <2>3. F[s \ {Picked(s)}] \in Nat /\ \A x \in s \ {Picked(s)} : f[x] <= F[s \ {Picked(s)}]
      BY <1>3
  <2>4. F[s] \in Nat BY <2>1, <2>2, <2>3
  <2>5. ASSUME NEW x \in s PROVE f[x] <= F[s]
    <3>1. f[x] \in Nat OBVIOUS
    <3>2. CASE x = Picked(s) BY <2>1, <2>2, <2>3, <3>2
    <3>3. CASE x # Picked(s)
      <4>1. f[x] <= F[s \ {Picked(s)}] BY <2>3, <3>3
      <4>2. QED BY <2>1, <2>2, <2>3, <3>1, <4>1
    <3>4. QED BY <3>2, <3>3
  <2>6. QED BY <2>4, <2>5
<1>4. Q = SUBSET S
  <2> HIDE DEF Q
  <2>1. Q \in SUBSET SUBSET S BY DEF Q
  <2>2. QED BY <1>2, <1>3, <2>1, SubsetInduction
<1>5. F[S] \in Nat /\ \A x \in S : f[x] <= F[S] BY <1>4
<1>6. SumFunctionOnSet(f, S) = F[S] BY SumIsSums DEF F
<1>7. QED BY <1>5, <1>6

(* A change of one value changes the sum by as much.                        *)
LEMMA SumChanges ==
    ASSUME NEW S, IsFiniteSet(S), NEW c \in S,
           NEW f, \A x \in S : f[x] \in Int,
           NEW g, \A x \in S : g[x] \in Int,
           \A x \in S \ {c} : g[x] = f[x]
    PROVE  SumFunctionOnSet(g, S) = SumFunctionOnSet(f, S) + g[c] - f[c]
<1> DEFINE F == Sums(f, S)
           G == Sums(g, S)
           Q == {s \in SUBSET S : /\ F[s] \in Int
                                 /\ G[s] = F[s] + IF c \in s THEN g[c] - f[c] ELSE 0}
<1>1. /\ F = [s \in SUBSET S |-> SumAt(F, f, s)]
      /\ G = [s \in SUBSET S |-> SumAt(G, g, s)]
    BY SumsExist
<1> HIDE DEF F, G
<1>2. {} \in Q
    BY <1>1 DEF SumAt
<1>3. ASSUME NEW s \in SUBSET S, s # {}, s \ {Picked(s)} \in Q PROVE s \in Q
  <2> DEFINE p == Picked(s)
             t == s \ {Picked(s)}
  <2>1. p \in s /\ f[p] \in Int /\ g[p] \in Int /\ f[c] \in Int /\ g[c] \in Int
      BY <1>3, PickedIn
  <2>2. F[s] = f[p] + F[t] /\ G[s] = g[p] + G[t]
      BY <1>1, <1>3 DEF SumAt
  <2>3. F[t] \in Int /\ G[t] = F[t] + IF c \in t THEN g[c] - f[c] ELSE 0
      BY <1>3
  <2>4. F[s] \in Int BY <2>1, <2>2, <2>3
  <2>5. CASE p = c
    <3>1. c \in s /\ c \notin t BY <2>1, <2>5
    <3>2. QED BY <2>1, <2>2, <2>3, <2>4, <2>5, <3>1
  <2>6. CASE p # c
    <3>1. g[p] = f[p] /\ (c \in s <=> c \in t) BY <2>1, <2>6
    <3>2. QED BY <2>1, <2>2, <2>3, <2>4, <3>1
  <2>7. QED BY <2>5, <2>6
<1>4. Q = SUBSET S
  <2> HIDE DEF Q
  <2>1. Q \in SUBSET SUBSET S BY DEF Q
  <2>2. QED BY <1>2, <1>3, <2>1, SubsetInduction
<1>5. G[S] = F[S] + (g[c] - f[c]) /\ F[S] \in Int BY <1>4
<1>6. SumFunctionOnSet(f, S) = F[S] /\ SumFunctionOnSet(g, S) = G[S]
    BY SumIsSums DEF F, G
<1>7. f[c] \in Int /\ g[c] \in Int OBVIOUS
<1>8. QED BY <1>5, <1>6, <1>7

(* A sum of zeros is zero.                                                  *)
LEMMA NoSum ==
    ASSUME NEW S, IsFiniteSet(S), NEW f, \A x \in S : f[x] = 0
    PROVE  SumFunctionOnSet(f, S) = 0
<1> DEFINE F == Sums(f, S)
           Q == {s \in SUBSET S : F[s] = 0}
<1>1. F = [s \in SUBSET S |-> SumAt(F, f, s)]
  <2>1. \A x \in S : f[x] \in Int OBVIOUS
  <2>2. QED BY <2>1, SumsExist
<1> HIDE DEF F
<1>2. {} \in Q
    BY <1>1 DEF SumAt
<1>3. ASSUME NEW s \in SUBSET S, s # {}, s \ {Picked(s)} \in Q PROVE s \in Q
  <2>1. f[Picked(s)] = 0 BY <1>3, PickedIn
  <2>2. F[s] = f[Picked(s)] + F[s \ {Picked(s)}]
      BY <1>1, <1>3 DEF SumAt
  <2>3. QED BY <1>3, <2>1, <2>2
<1>4. Q = SUBSET S
  <2> HIDE DEF Q
  <2>1. Q \in SUBSET SUBSET S BY DEF Q
  <2>2. QED BY <1>2, <1>3, <2>1, SubsetInduction
<1>5. F[S] = 0 BY <1>4
<1>6. SumFunctionOnSet(f, S) = F[S] BY SumIsSums DEF F
<1>7. QED BY <1>5, <1>6

(* A sum of integers is an integer.                                         *)
LEMMA SumOfInts ==
    ASSUME NEW S, IsFiniteSet(S), NEW f, \A x \in S : f[x] \in Int
    PROVE  SumFunctionOnSet(f, S) \in Int
<1> DEFINE F == Sums(f, S)
           Q == {s \in SUBSET S : F[s] \in Int}
<1>1. F = [s \in SUBSET S |-> SumAt(F, f, s)] BY SumsExist
<1> HIDE DEF F
<1>2. {} \in Q
    BY <1>1 DEF SumAt
<1>3. ASSUME NEW s \in SUBSET S, s # {}, s \ {Picked(s)} \in Q PROVE s \in Q
  <2>1. f[Picked(s)] \in Int BY <1>3, PickedIn
  <2>2. F[s] = f[Picked(s)] + F[s \ {Picked(s)}]
      BY <1>1, <1>3 DEF SumAt
  <2>3. QED BY <1>3, <2>1, <2>2
<1>4. Q = SUBSET S
  <2> HIDE DEF Q
  <2>1. Q \in SUBSET SUBSET S BY DEF Q
  <2>2. QED BY <1>2, <1>3, <2>1, SubsetInduction
<1>5. F[S] \in Int BY <1>4
<1>6. SumFunctionOnSet(f, S) = F[S] BY SumIsSums DEF F
<1>7. QED BY <1>5, <1>6

(* Sums of two functions add up.                                            *)
LEMMA SumsAdd ==
    ASSUME NEW S, IsFiniteSet(S),
           NEW f, \A x \in S : f[x] \in Int,
           NEW g, \A x \in S : g[x] \in Int,
           NEW h, \A x \in S : h[x] = f[x] + g[x]
    PROVE  SumFunctionOnSet(h, S) = SumFunctionOnSet(f, S) + SumFunctionOnSet(g, S)
<1> DEFINE F == Sums(f, S)
           G == Sums(g, S)
           H == Sums(h, S)
           Q == {s \in SUBSET S : F[s] \in Int /\ G[s] \in Int /\ H[s] = F[s] + G[s]}
<1>1. /\ F = [s \in SUBSET S |-> SumAt(F, f, s)]
      /\ G = [s \in SUBSET S |-> SumAt(G, g, s)]
      /\ H = [s \in SUBSET S |-> SumAt(H, h, s)]
  <2>1. \A x \in S : h[x] \in Int OBVIOUS
  <2>2. QED BY <2>1, SumsExist
<1> HIDE DEF F, G, H
<1>2. {} \in Q
    BY <1>1 DEF SumAt
<1>3. ASSUME NEW s \in SUBSET S, s # {}, s \ {Picked(s)} \in Q PROVE s \in Q
  <2> DEFINE p == Picked(s)
             t == s \ {Picked(s)}
  <2>1. p \in s /\ f[p] \in Int /\ g[p] \in Int /\ h[p] = f[p] + g[p]
      BY <1>3, PickedIn
  <2>2. F[s] = f[p] + F[t] /\ G[s] = g[p] + G[t] /\ H[s] = h[p] + H[t]
      BY <1>1, <1>3 DEF SumAt
  <2>3. F[t] \in Int /\ G[t] \in Int /\ H[t] = F[t] + G[t]
      BY <1>3
  <2>4. QED BY <2>1, <2>2, <2>3
<1>4. Q = SUBSET S
  <2> HIDE DEF Q
  <2>1. Q \in SUBSET SUBSET S BY DEF Q
  <2>2. QED BY <1>2, <1>3, <2>1, SubsetInduction
<1>5. H[S] = F[S] + G[S] BY <1>4
<1>6. /\ SumFunctionOnSet(f, S) = F[S] /\ SumFunctionOnSet(g, S) = G[S]
      /\ SumFunctionOnSet(h, S) = H[S]
    BY SumIsSums DEF F, G, H
<1>7. QED BY <1>5, <1>6

-----------------------------------------------------------------------------
(* The sum over a part of a set is the fold's value there.                  *)
LEMMA SumWithin ==
    ASSUME NEW S, IsFiniteSet(S), NEW f, \A x \in S : f[x] \in Int, NEW A \in SUBSET S
    PROVE  SumFunctionOnSet(f, A) = Sums(f, S)[A]
<1> DEFINE F == Sums(f, S)
           G == Sums(f, A)
           Q == {s \in SUBSET A : G[s] = F[s]}
<1>1. F = [s \in SUBSET S |-> SumAt(F, f, s)] BY SumsExist
<1>2. IsFiniteSet(A) BY FS_Subset
<1>3. G = [s \in SUBSET A |-> SumAt(G, f, s)]
  <2>1. \A x \in A : f[x] \in Int OBVIOUS
  <2>2. QED BY <1>2, <2>1, SumsExist
<1> HIDE DEF F, G
<1>4. {} \in Q
    BY <1>1, <1>3 DEF SumAt
<1>5. ASSUME NEW s \in SUBSET A, s # {}, s \ {Picked(s)} \in Q PROVE s \in Q
  <2>1. F[s] = f[Picked(s)] + F[s \ {Picked(s)}] BY <1>1, <1>5 DEF SumAt
  <2>2. G[s] = f[Picked(s)] + G[s \ {Picked(s)}] BY <1>3, <1>5 DEF SumAt
  <2>3. QED BY <1>5, <2>1, <2>2
<1>6. Q = SUBSET A
  <2> HIDE DEF Q
  <2>1. Q \in SUBSET SUBSET A BY DEF Q
  <2>2. QED BY <1>2, <1>4, <1>5, <2>1, SubsetInduction
<1>7. G[A] = F[A] BY <1>6
<1>8. SumFunctionOnSet(f, A) = G[A] BY SumIsSums DEF G
<1>9. QED BY <1>7, <1>8 DEF F

(* The sum of nothing.                                                      *)
LEMMA SumOfNone == ASSUME NEW f PROVE SumFunctionOnSet(f, {}) = 0
BY NoSum, FS_EmptySet

(* The elements may be added in any order.                                  *)
LEMMA SumPicks ==
    ASSUME NEW S, IsFiniteSet(S), NEW f, \A x \in S : f[x] \in Int, NEW c \in S
    PROVE  SumFunctionOnSet(f, S) = f[c] + SumFunctionOnSet(f, S \ {c})
<1> DEFINE F == Sums(f, S)
           T == {n \in Nat : \A s \in SUBSET S :
                    Cardinality(s) <= n => F[s] \in Int /\ \A x \in s : F[s] = f[x] + F[s \ {x}]}
<1>1. F = [s \in SUBSET S |-> SumAt(F, f, s)] BY SumsExist
<1>2. \A s \in SUBSET S : IsFiniteSet(s) /\ Cardinality(s) \in Nat
    BY FS_Subset, FS_CardinalityType
<1> HIDE DEF F
<1>3. 0 \in T
  <2>1. \A s \in SUBSET S : Cardinality(s) <= 0 => s = {} BY <1>2, FS_EmptySet
  <2>2. F[{}] = 0 BY <1>1 DEF SumAt
  <2>3. QED BY <2>1, <2>2
<1>4. \A n \in T : n + 1 \in T
  <2> SUFFICES ASSUME NEW n \in T PROVE n + 1 \in T
      OBVIOUS
  <2> SUFFICES ASSUME NEW s \in SUBSET S, Cardinality(s) <= n + 1
               PROVE  F[s] \in Int /\ \A x \in s : F[s] = f[x] + F[s \ {x}]
      OBVIOUS
  <2>1. CASE s = {}
    <3>1. F[{}] = 0 BY <1>1 DEF SumAt
    <3>2. QED BY <2>1, <3>1
  <2>2. CASE s # {}
    <3>1. PICK p \in s : F[s] = f[p] + F[s \ {p}] BY <1>1, <2>2, PickedIn DEF SumAt
    <3>2. F[s] = f[p] + F[s \ {p}] BY <3>1
    <3>3. \A x \in s : Cardinality(s \ {x}) <= n /\ s \ {x} \in SUBSET S
      <4>1. \A x \in s : Cardinality(s \ {x}) = Cardinality(s) - 1 BY <1>2, FS_RemoveElement
      <4>2. QED BY <1>2, <4>1
    <3>4. \A x \in s : F[s \ {x}] \in Int BY <3>3
    <3>5. F[s] \in Int
      <4>1. f[p] \in Int /\ F[s \ {p}] \in Int BY <3>1, <3>4
      <4>2. QED BY <3>2, <4>1
    <3>6. ASSUME NEW x \in s, x # p PROVE F[s] = f[x] + F[s \ {x}]
      <4>1. x \in s \ {p} /\ p \in s \ {x} BY <3>1, <3>6
      <4>2. F[s \ {p}] = f[x] + F[(s \ {p}) \ {x}] BY <3>1, <3>3, <4>1
      <4>3. F[s \ {x}] = f[p] + F[(s \ {x}) \ {p}] BY <3>3, <4>1
      <4>4. (s \ {p}) \ {x} = (s \ {x}) \ {p} OBVIOUS
      <4>5. F[(s \ {p}) \ {x}] \in Int
        <5>1. Cardinality((s \ {p}) \ {x}) <= n
          <6>1. IsFiniteSet(s \ {p}) /\ Cardinality(s \ {p}) <= n /\ Cardinality(s \ {p}) \in Nat
              BY <1>2, <3>1, <3>3
          <6>2. Cardinality((s \ {p}) \ {x}) = Cardinality(s \ {p}) - 1
              BY <4>1, <6>1, FS_RemoveElement
          <6>3. QED BY <6>1, <6>2
        <5>2. QED BY <5>1
      <4>6. f[x] \in Int /\ f[p] \in Int BY <3>1
      <4>7. F[s \ {p}] \in Int /\ F[s \ {x}] \in Int BY <3>1, <3>4
      <4> DEFINE rest == F[(s \ {p}) \ {x}]
      <4>8. F[s \ {p}] = f[x] + rest /\ F[s \ {x}] = f[p] + rest /\ rest \in Int
          BY <4>2, <4>3, <4>4, <4>5
      <4> HIDE DEF rest
      <4>9. QED BY <3>2, <4>6, <4>8
    <3>7. QED BY <3>2, <3>5, <3>6
  <2>3. QED BY <2>1, <2>2
<1>5. T = Nat
  <2> HIDE DEF T
  <2>1. T \in SUBSET Nat BY DEF T
  <2>2. QED BY <1>3, <1>4, <2>1, NatSetInduction
<1>6. Cardinality(S) \in T BY <1>2, <1>5
<1>7. F[S] = f[c] + F[S \ {c}] BY <1>2, <1>6
<1>8. SumFunctionOnSet(f, S) = F[S] /\ SumFunctionOnSet(f, S \ {c}) = F[S \ {c}]
    BY SumWithin DEF F
<1>9. QED BY <1>7, <1>8

(* The sum of a set is that of its parts.                                   *)
LEMMA SumOfParts ==
    ASSUME NEW A, IsFiniteSet(A), NEW B, IsFiniteSet(B), A \cap B = {},
           NEW f, \A x \in A \cup B : f[x] \in Int
    PROVE  SumFunctionOnSet(f, A \cup B) = SumFunctionOnSet(f, A) + SumFunctionOnSet(f, B)
<1> DEFINE Sum(s) == SumFunctionOnSet(f, s)
           Q == {s \in SUBSET A : Sum(s \cup B) = Sum(s) + Sum(B)}
<1>1. \A s \in SUBSET A : /\ IsFiniteSet(s) /\ IsFiniteSet(s \cup B)
                          /\ Sum(s) \in Int /\ Sum(s \cup B) \in Int
  <2> SUFFICES ASSUME NEW s \in SUBSET A
               PROVE  /\ IsFiniteSet(s) /\ IsFiniteSet(s \cup B)
                      /\ Sum(s) \in Int /\ Sum(s \cup B) \in Int
      OBVIOUS
  <2>1. IsFiniteSet(s) /\ IsFiniteSet(s \cup B) BY FS_Subset, FS_Union
  <2>2. (\A x \in s : f[x] \in Int) /\ (\A x \in s \cup B : f[x] \in Int) OBVIOUS
  <2>3. QED BY <2>1, <2>2, SumOfInts
<1>2. Sum(B) \in Int BY SumOfInts
<1>3. {} \in Q
  <2>1. {} \cup B = B OBVIOUS
  <2>2. Sum({}) = 0 BY SumOfNone
  <2>3. QED BY <1>2, <2>1, <2>2
<1>4. ASSUME NEW s \in SUBSET A, s # {}, s \ {Picked(s)} \in Q PROVE s \in Q
  <2> PICK p \in s : s \ {p} \in Q BY <1>4, PickedIn
  <2>1. p \in s /\ f[p] \in Int OBVIOUS
  <2>2. Sum(s) = f[p] + Sum(s \ {p}) BY <1>1, <2>1, SumPicks
  <2>3. Sum(s \cup B) = f[p] + Sum((s \cup B) \ {p})
    <3>1. p \in s \cup B /\ \A x \in s \cup B : f[x] \in Int BY <2>1
    <3>2. QED BY <1>1, <3>1, SumPicks
  <2>4. (s \cup B) \ {p} = (s \ {p}) \cup B BY <2>1
  <2>5. Sum((s \ {p}) \cup B) = Sum(s \ {p}) + Sum(B) OBVIOUS
  <2>6. Sum(s \ {p}) \in Int BY <1>1
  <2>7. Sum(s \cup B) = f[p] + (Sum(s \ {p}) + Sum(B)) BY <2>3, <2>4, <2>5
  <2> DEFINE a == Sum(s \ {p})
             b == Sum(B)
  <2>8. a \in Int /\ b \in Int /\ Sum(s) = f[p] + a /\ Sum(s \cup B) = f[p] + (a + b)
      BY <1>2, <2>2, <2>6, <2>7
  <2> HIDE DEF a, b
  <2>9. Sum(s \cup B) = Sum(s) + b BY <2>1, <2>8
  <2>10. QED BY <2>9 DEF b
<1>5. Q = SUBSET A
  <2> HIDE DEF Q
  <2>1. Q \in SUBSET SUBSET A BY DEF Q
  <2>2. QED BY <1>3, <1>4, <2>1, SubsetInduction
<1>6. A \in Q BY <1>5
<1>7. QED BY <1>6

(* A part of a sum of naturals does not exceed it.                          *)
LEMMA SumOfPart ==
    ASSUME NEW S, IsFiniteSet(S), NEW f, \A x \in S : f[x] \in Nat, NEW A \in SUBSET S
    PROVE  /\ SumFunctionOnSet(f, A) \in Nat
           /\ SumFunctionOnSet(f, A) <= SumFunctionOnSet(f, S)
<1>1. IsFiniteSet(A) /\ IsFiniteSet(S \ A) BY FS_Subset
<1>2. (\A x \in A : f[x] \in Nat) /\ (\A x \in S \ A : f[x] \in Nat) OBVIOUS
<1>3. SumFunctionOnSet(f, A) \in Nat /\ SumFunctionOnSet(f, S \ A) \in Nat
    BY <1>1, <1>2, SumOfNats
<1>4. A \cap (S \ A) = {} /\ A \cup (S \ A) = S /\ \A x \in A \cup (S \ A) : f[x] \in Int
    OBVIOUS
<1>5. SumFunctionOnSet(f, A \cup (S \ A)) = SumFunctionOnSet(f, A) + SumFunctionOnSet(f, S \ A)
    BY <1>1, <1>4, SumOfParts
<1>6. SumFunctionOnSet(f, S) = SumFunctionOnSet(f, A) + SumFunctionOnSet(f, S \ A)
    BY <1>4, <1>5
<1>7. QED BY <1>3, <1>6

(* What falls to each place adds up to what falls: share is the part of I   *)
(* that place sends to each of H, and g what f is worth there.              *)
AreShares(I, H, place, f, share, g) ==
    /\ \A i \in I : place[i] \in H /\ f[i] \in Int
    /\ \A h \in H : share[h] \in SUBSET I /\ g[h] = SumFunctionOnSet(f, share[h])
    /\ \A h \in H, i \in I : i \in share[h] <=> place[i] = h

(* What is divided up into shares, one for each place, adds up to the       *)
(* whole.                                                                   *)
LEMMA SumOfShares ==
    ASSUME NEW I, IsFiniteSet(I), NEW H, IsFiniteSet(H),
           NEW place, NEW f, NEW share, NEW g, AreShares(I, H, place, f, share, g)
    PROVE  SumFunctionOnSet(g, H) = SumFunctionOnSet(f, I)
<1> DEFINE At(s, h) == {i \in s : place[i] = h}
           Shares(s) == [h \in H |-> SumFunctionOnSet(f, At(s, h))]
           Q == {s \in SUBSET I : SumFunctionOnSet(Shares(s), H) = SumFunctionOnSet(f, s)}
<1>0. \A i \in I : place[i] \in H /\ f[i] \in Int BY DEF AreShares
<1>1. ASSUME NEW s \in SUBSET I
      PROVE  /\ IsFiniteSet(s) /\ SumFunctionOnSet(f, s) \in Int
             /\ \A h \in H : IsFiniteSet(At(s, h)) /\ Shares(s)[h] \in Int
             /\ SumFunctionOnSet(Shares(s), H) \in Int
  <2>1. IsFiniteSet(s) /\ \A x \in s : f[x] \in Int BY <1>0, FS_Subset
  <2>2. SumFunctionOnSet(f, s) \in Int BY <2>1, SumOfInts
  <2>3. ASSUME NEW h \in H PROVE IsFiniteSet(At(s, h)) /\ Shares(s)[h] \in Int
    <3>1. IsFiniteSet(At(s, h)) /\ \A x \in At(s, h) : f[x] \in Int BY <2>1, FS_Subset
    <3>2. SumFunctionOnSet(f, At(s, h)) \in Int BY <3>1, SumOfInts
    <3>3. QED BY <3>1, <3>2
  <2>4. SumFunctionOnSet(Shares(s), H) \in Int
    <3> HIDE DEF Shares
    <3>1. QED BY <2>3, SumOfInts
  <2>5. QED BY <2>1, <2>2, <2>3, <2>4
<1>2. {} \in Q
  <2>1. \A h \in H : At({}, h) = {} OBVIOUS
  <2>2. \A h \in H : Shares({})[h] = 0 BY <2>1, SumOfNone
  <2>3. SumFunctionOnSet(Shares({}), H) = 0
    <3> HIDE DEF Shares
    <3>1. QED BY <2>2, NoSum
  <2>4. QED BY <2>3, SumOfNone
<1>3. ASSUME NEW s \in SUBSET I, s # {}, s \ {Picked(s)} \in Q PROVE s \in Q
  <2> DEFINE p == Picked(s)
             t == s \ {Picked(s)}
  <2>1. p \in s /\ f[p] \in Int /\ place[p] \in H /\ t \in SUBSET I BY <1>0, <1>3, PickedIn
  <2>2. SumFunctionOnSet(f, s) = f[p] + SumFunctionOnSet(f, t)
    <3>1. IsFiniteSet(s) /\ p \in s /\ t = s \ {p} BY <1>1, <2>1
    <3>2. \A x \in s : f[x] \in Int BY <1>0
    <3> HIDE DEF p, t
    <3>3. SumFunctionOnSet(f, s) = f[p] + SumFunctionOnSet(f, s \ {p}) BY <3>1, <3>2, SumPicks
    <3>4. QED BY <3>1, <3>3
  <2>3. \A h \in H \ {place[p]} : Shares(s)[h] = Shares(t)[h]
    <3>1. \A h \in H \ {place[p]} : At(s, h) = At(t, h) OBVIOUS
    <3>2. QED BY <3>1
  <2>4. Shares(s)[place[p]] = f[p] + Shares(t)[place[p]]
    <3>1. At(s, place[p]) \ {p} = At(t, place[p]) /\ p \in At(s, place[p]) BY <2>1
    <3>2. IsFiniteSet(At(s, place[p])) BY <1>1, <2>1
    <3>3. \A x \in At(s, place[p]) : f[x] \in Int BY <1>0
    <3>4. SumFunctionOnSet(f, At(s, place[p]))
              = f[p] + SumFunctionOnSet(f, At(s, place[p]) \ {p})
        BY <3>1, <3>2, <3>3, SumPicks
    <3>5. QED BY <2>1, <3>1, <3>4
  <2>5. /\ \A h \in H : Shares(s)[h] \in Int /\ Shares(t)[h] \in Int
        /\ SumFunctionOnSet(Shares(t), H) \in Int
    <3>1. \A h \in H : Shares(s)[h] \in Int BY <1>1
    <3>2. (\A h \in H : Shares(t)[h] \in Int) /\ SumFunctionOnSet(Shares(t), H) \in Int
        BY <1>1, <2>1
    <3>3. QED BY <3>1, <3>2
  <2>6. SumFunctionOnSet(Shares(t), H) = SumFunctionOnSet(f, t) BY <1>3
  <2>7. SumFunctionOnSet(Shares(s), H)
            = SumFunctionOnSet(Shares(t), H) + Shares(s)[place[p]] - Shares(t)[place[p]]
    <3> DEFINE u == Shares(t)
               v == Shares(s)
    <3>1. /\ \A h \in H : u[h] \in Int
          /\ \A h \in H : v[h] \in Int
          /\ \A h \in H \ {place[p]} : v[h] = u[h]
        BY <2>3, <2>5
    <3> HIDE DEF u, v
    <3>2. SumFunctionOnSet(v, H) = SumFunctionOnSet(u, H) + v[place[p]] - u[place[p]]
        BY <2>1, <3>1, SumChanges
    <3>3. QED BY <3>2 DEF u, v
  <2> HIDE DEF Shares, t
  <2>8. Shares(t)[place[p]] \in Int /\ f[p] \in Int BY <2>1, <2>5
  <2>9. SumFunctionOnSet(Shares(s), H) = SumFunctionOnSet(f, s)
      BY <2>2, <2>4, <2>5, <2>6, <2>7, <2>8
  <2>10. QED BY <2>9
<1>4. Q = SUBSET I
  <2> HIDE DEF Q
  <2>1. Q \in SUBSET SUBSET I BY DEF Q
  <2>2. QED BY <1>2, <1>3, <2>1, SubsetInduction
<1>5. SumFunctionOnSet(Shares(I), H) = SumFunctionOnSet(f, I)
  <2>1. I \in Q BY <1>4
  <2>2. QED BY <2>1
<1>6. SumFunctionOnSet(g, H) = SumFunctionOnSet(Shares(I), H)
  <2> DEFINE u == Shares(I)
             z == [h \in H |-> 0]
  <2>1. \A h \in H : u[h] \in Int /\ g[h] = u[h]
    <3>1. \A h \in H : u[h] = SumFunctionOnSet(f, At(I, h)) /\ At(I, h) = share[h]
        BY DEF AreShares
    <3> HIDE DEF u, At
    <3>2. \A h \in H : g[h] = u[h] BY <3>1 DEF AreShares
    <3>3. QED BY <1>1, <3>2 DEF u
  <2>2. \A h \in H : z[h] = 0 OBVIOUS
  <2> HIDE DEF u, z
  <2>3. SumFunctionOnSet(z, H) = 0 BY <2>2, NoSum
  <2>4. /\ \A h \in H : z[h] \in Int
        /\ \A h \in H : g[h] = u[h] + z[h]
      BY <2>1, <2>2
  <2>5. SumFunctionOnSet(g, H) = SumFunctionOnSet(u, H) + SumFunctionOnSet(z, H)
      BY <2>1, <2>4, SumsAdd
  <2>6. SumFunctionOnSet(u, H) \in Int BY <2>1, SumOfInts
  <2>7. SumFunctionOnSet(g, H) = SumFunctionOnSet(u, H) BY <2>3, <2>5, <2>6
  <2>8. QED BY <2>7 DEF u
<1>7. QED BY <1>5, <1>6

=============================================================================
