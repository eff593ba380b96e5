----------------------------- MODULE Binomials -----------------------------
(***************************************************************************)
(* Facts about choose(n, k) of the module Combinatorics: Pascal's rule and *)
(* what follows from it.  The bound on wrong answers in Otp is such a      *)
(* number.  Induction is by a least counterexample.                        *)
(***************************************************************************)
EXTENDS Combinatorics, Integers, WellFoundedInduction, TLAPS

(* Every set of numbers has a least one.                                   *)
LEMMA LeastNumber ==
  ASSUME NEW S \in SUBSET Nat, S # {}
  PROVE  \E n \in S : \A m \in S : n <= m
<1> DEFINE R == OpToRel(<, Nat)
<1>1. IsWellFoundedOn(R, Nat)
  BY NatLessThanWellFounded
<1>2. \A x, y \in Nat : <<y, x>> \in R <=> y < x
  BY DEF OpToRel
<1> HIDE DEF R
<1>3. PICK x \in S : \A y \in S : ~(<<y, x>> \in R)
  BY <1>1, WFMin
<1>4. ASSUME NEW m \in S PROVE x <= m
  <2>1. ~(m < x)
    BY <1>2, <1>3
  <2> QED BY <2>1
<1> QED BY <1>4

(* Induction.                                                              *)
LEMMA Induction ==
  ASSUME NEW S \in SUBSET Nat, 0 \in S, \A n \in S : n + 1 \in S
  PROVE  S = Nat
<1> SUFFICES ASSUME Nat \ S # {} PROVE FALSE
  OBVIOUS
<1>1. PICK n \in Nat \ S : \A m \in Nat \ S : n <= m
  BY LeastNumber
<1>2. n # 0 /\ n - 1 \in Nat /\ ~ (n <= n - 1)
  BY <1>1
<1>3. n - 1 \in S
  BY <1>1, <1>2
<1>4. (n - 1) + 1 = n
  BY <1>1
<1> QED BY <1>1, <1>3, <1>4

-----------------------------------------------------------------------------
(* Factorials.                                                             *)

LEMMA FactorialRule ==
  factorial = [n \in Nat |-> IF n = 0 THEN 1 ELSE n * factorial[n - 1]]
<1>1. NatInductiveDefHypothesis(factorial, 1, LAMBDA v, n : n * v)
  BY DEF NatInductiveDefHypothesis, factorial
<1>2. NatInductiveDefConclusion(factorial, 1, LAMBDA v, n : n * v)
  BY <1>1, NatInductiveDef
<1> QED BY <1>2 DEF NatInductiveDefConclusion

LEMMA FactorialStep ==
  factorial[0] = 1 /\ \A n \in Nat : factorial[n + 1] = (n + 1) * factorial[n]
<1>1. factorial[0] = 1
  BY FactorialRule
<1>2. ASSUME NEW n \in Nat PROVE factorial[n + 1] = (n + 1) * factorial[n]
  <2>1. n + 1 \in Nat /\ n + 1 # 0 /\ (n + 1) - 1 = n
    OBVIOUS
  <2>2. factorial[n + 1] = (n + 1) * factorial[(n + 1) - 1]
    BY <2>1, FactorialRule
  <2> QED BY <2>1, <2>2
<1> QED BY <1>1, <1>2

LEMMA FactorialPositive == \A n \in Nat : factorial[n] \in Nat \ {0}
<1> DEFINE S == {n \in Nat : factorial[n] \in Nat \ {0}}
<1>1. 0 \in S
  BY FactorialStep
<1>2. ASSUME NEW n \in S PROVE n + 1 \in S
  <2>1. factorial[n] \in Nat \ {0} /\ n \in Nat
    OBVIOUS
  <2>2. factorial[n + 1] = (n + 1) * factorial[n]
    BY <2>1, FactorialStep
  <2>3. \A a, b \in Nat \ {0} : a * b \in Nat \ {0}
    OBVIOUS
  <2> QED BY <2>1, <2>2, <2>3
<1>3. S = Nat
  <2> HIDE DEF S
  <2>1. S \in SUBSET Nat
    BY DEF S
  <2> QED BY <1>1, <1>2, <2>1, Induction
<1> QED BY <1>3

-----------------------------------------------------------------------------
(* Pascal's rule.                                                          *)

(* In how many ways d + u things can be split into d and u.                *)
Ways(d, u) == choose(d + u, u)

LEMMA Cancel == \A c \in Nat, p \in Nat \ {0} : (c * p) \div p = c
OBVIOUS

(* The sum behind Pascal's rule, with f for (d+u+1)!, g for d!, h for u!.  *)
LEMMA SumOfSplits ==
  ASSUME NEW f \in Nat, NEW g \in Nat, NEW h \in Nat, NEW a \in Nat, NEW b \in Nat,
         NEW c \in Nat, NEW e \in Nat,
         f = c * ((b * h) * g), f = e * (h * (a * g))
  PROVE  (a + b) * f = (c + e) * ((b * h) * (a * g))
<1>1. (a + b) * f = a * f + b * f
  OBVIOUS
<1>2. a * f = c * ((b * h) * (a * g))
  <2>1. a * f = a * (c * ((b * h) * g))
    OBVIOUS
  <2> QED BY <2>1
<1>3. b * f = e * ((b * h) * (a * g))
  <2>1. b * f = b * (e * (h * (a * g)))
    OBVIOUS
  <2> QED BY <2>1
<1>4. \A p \in Nat : c * p + e * p = (c + e) * p
  OBVIOUS
<1>5. (b * h) * (a * g) \in Nat
  OBVIOUS
<1> QED BY <1>1, <1>2, <1>3, <1>4, <1>5

(* A factorial is a multiple of the factorials of any split.               *)
Splits(d, u, c) ==
  c \in Nat \ {0} /\ factorial[d + u] = c * (factorial[u] * factorial[d])

LEMMA SplitsAdd ==
  ASSUME NEW d \in Nat, NEW u \in Nat, NEW c, NEW e,
         Splits(d, u + 1, c), Splits(d + 1, u, e)
  PROVE  Splits(d + 1, u + 1, c + e)
<1> DEFINE f == factorial[d + u + 1]
           g == factorial[d]
           h == factorial[u]
<1>1. f \in Nat /\ g \in Nat /\ h \in Nat
  <2>1. d + u + 1 \in Nat
    OBVIOUS
  <2> QED BY <2>1, FactorialPositive
<1>2. factorial[u + 1] = (u + 1) * h /\ factorial[d + 1] = (d + 1) * g
  BY FactorialStep
<1>3. factorial[d + u + 1 + 1] = (d + u + 1 + 1) * f
  <2>1. d + u + 1 \in Nat
    OBVIOUS
  <2> QED BY <2>1, FactorialStep
<1>4. /\ d + (u + 1) = d + u + 1 /\ (d + 1) + u = d + u + 1
      /\ (d + 1) + (u + 1) = d + u + 1 + 1 /\ d + u + 1 + 1 = (d + 1) + (u + 1)
      /\ d + 1 \in Nat /\ u + 1 \in Nat
  OBVIOUS
<1>5. f = c * (((u + 1) * h) * g) /\ f = e * (h * ((d + 1) * g))
  BY <1>2, <1>4 DEF Splits
<1>6. c \in Nat \ {0} /\ e \in Nat \ {0} /\ c + e \in Nat \ {0}
  BY DEF Splits
<1>7. ((d + 1) + (u + 1)) * f = (c + e) * (((u + 1) * h) * ((d + 1) * g))
  <2> HIDE DEF f, g, h
  <2> QED BY <1>1, <1>4, <1>5, <1>6, SumOfSplits
<1>8. factorial[(d + 1) + (u + 1)] = (c + e) * (factorial[u + 1] * factorial[d + 1])
  <2> HIDE DEF f, g, h
  <2> QED BY <1>2, <1>3, <1>4, <1>7
<1> QED BY <1>6, <1>8 DEF Splits

LEMMA SplitsAlone ==
  \A n \in Nat : Splits(0, n, 1) /\ Splits(n, 0, 1)
<1> TAKE n \in Nat
<1>1. 0 + n = n /\ n + 0 = n
  OBVIOUS
<1>2. factorial[n] \in Nat /\ factorial[0] = 1
  BY FactorialPositive, FactorialStep
<1>3. \A x \in Nat : x = 1 * (x * 1) /\ x = 1 * (1 * x)
  OBVIOUS
<1> QED BY <1>1, <1>2, <1>3 DEF Splits

LEMMA SplitsExist == \A d, u \in Nat : \E c : Splits(d, u, c)
<1> DEFINE S == {n \in Nat : \A d, u \in Nat : d + u = n => \E c : Splits(d, u, c)}
<1>1. 0 \in S
  <2>1. \A d, u \in Nat : d + u = 0 => d = 0 /\ u = 0
    OBVIOUS
  <2> QED BY <2>1, SplitsAlone
<1>2. ASSUME NEW n \in S PROVE n + 1 \in S
  <2>1. ASSUME NEW d \in Nat, NEW u \in Nat, d + u = n + 1
        PROVE  \E c : Splits(d, u, c)
    <3>1. CASE d = 0 \/ u = 0
      BY <3>1, SplitsAlone
    <3>2. CASE d # 0 /\ u # 0
      <4>1. /\ d - 1 \in Nat /\ u - 1 \in Nat
            /\ (d - 1) + ((u - 1) + 1) = n /\ ((d - 1) + 1) + (u - 1) = n
            /\ (d - 1) + 1 = d /\ (u - 1) + 1 = u
        BY <2>1, <3>2
      <4>2. PICK c : Splits(d - 1, (u - 1) + 1, c)
        BY <4>1
      <4>3. PICK e : Splits((d - 1) + 1, u - 1, e)
        BY <4>1
      <4>4. Splits((d - 1) + 1, (u - 1) + 1, c + e)
        BY <4>1, <4>2, <4>3, SplitsAdd
      <4> QED BY <4>1, <4>4
    <3> QED BY <3>1, <3>2
  <2> QED BY <2>1
<1>3. S = Nat
  <2>1. S \in SUBSET Nat
    OBVIOUS
  <2> HIDE DEF S
  <2> QED BY <1>1, <1>2, <2>1, Induction
<1>4. ASSUME NEW d \in Nat, NEW u \in Nat PROVE \E c : Splits(d, u, c)
  <2>1. d + u \in Nat
    OBVIOUS
  <2>2. d + u \in S
    <3> HIDE DEF S
    <3> QED BY <1>3, <2>1
  <2> QED BY <2>2
<1> QED BY <1>4

LEMMA WaysSplit ==
  ASSUME NEW d \in Nat, NEW u \in Nat, NEW c, Splits(d, u, c)
  PROVE  Ways(d, u) = c
<1>1. (d + u) - u = d
  OBVIOUS
<1>2. factorial[u] * factorial[d] \in Nat \ {0}
  <2>1. \A a, b \in Nat \ {0} : a * b \in Nat \ {0}
    OBVIOUS
  <2> QED BY <2>1, FactorialPositive
<1>3. Ways(d, u) = (c * (factorial[u] * factorial[d])) \div (factorial[u] * factorial[d])
  BY <1>1 DEF Splits, Ways, choose
<1> QED BY <1>2, <1>3, Cancel DEF Splits

LEMMA WaysType == \A d, u \in Nat : Ways(d, u) \in Nat \ {0}
BY SplitsExist, WaysSplit DEF Splits

LEMMA WaysAlone == \A n \in Nat : Ways(0, n) = 1 /\ Ways(n, 0) = 1
BY SplitsAlone, WaysSplit

LEMMA PascalsRule ==
  \A d, u \in Nat : Ways(d + 1, u + 1) = Ways(d, u + 1) + Ways(d + 1, u)
<1> TAKE d \in Nat, u \in Nat
<1>1. d + 1 \in Nat /\ u + 1 \in Nat
  OBVIOUS
<1>2. PICK c : Splits(d, u + 1, c)
  BY <1>1, SplitsExist
<1>3. PICK e : Splits(d + 1, u, e)
  BY <1>1, SplitsExist
<1>4. Splits(d + 1, u + 1, c + e)
  BY <1>2, <1>3, SplitsAdd
<1> QED BY <1>1, <1>2, <1>3, <1>4, WaysSplit

(* There are more ways for a larger u.                                     *)
LEMMA WaysGrow ==
  \A d, u, v \in Nat : u <= v => Ways(d, u) <= Ways(d, v)
<1> DEFINE S == {n \in Nat : \A d, u \in Nat : Ways(d, u) <= Ways(d, u + n)}
<1>1. 0 \in S
  <2>1. \A u \in Nat : u + 0 = u
    OBVIOUS
  <2>2. \A x \in Nat : x <= x
    OBVIOUS
  <2> QED BY <2>1, <2>2, WaysType
<1>2. ASSUME NEW n \in S PROVE n + 1 \in S
  <2>1. ASSUME NEW d \in Nat, NEW u \in Nat
        PROVE  Ways(d, u + n) <= Ways(d, (u + n) + 1)
    <3>1. u + n \in Nat /\ u + n + 1 \in Nat
      OBVIOUS
    <3>2. CASE d = 0
      BY <3>1, <3>2, WaysAlone
    <3>3. CASE d # 0
      <4>1. d - 1 \in Nat /\ (d - 1) + 1 = d
        BY <3>3
      <4>2. Ways((d - 1) + 1, (u + n) + 1) = Ways(d - 1, (u + n) + 1) + Ways((d - 1) + 1, u + n)
        BY <3>1, <4>1, PascalsRule
      <4>3. Ways(d - 1, (u + n) + 1) \in Nat /\ Ways(d, u + n) \in Nat
        BY <3>1, <4>1, WaysType
      <4> QED BY <4>1, <4>2, <4>3
    <3> QED BY <3>2, <3>3
  <2>2. ASSUME NEW d \in Nat, NEW u \in Nat
        PROVE  Ways(d, u) <= Ways(d, u + (n + 1))
    <3>1. u + (n + 1) = (u + n) + 1 /\ u + n \in Nat /\ (u + n) + 1 \in Nat
      OBVIOUS
    <3>2. Ways(d, u) <= Ways(d, u + n)
      OBVIOUS
    <3>3. Ways(d, u) \in Nat /\ Ways(d, u + n) \in Nat /\ Ways(d, (u + n) + 1) \in Nat
      BY <3>1, WaysType
    <3> QED BY <2>1, <3>1, <3>2, <3>3
  <2> QED BY <2>2
<1>3. S = Nat
  <2>1. S \in SUBSET Nat
    OBVIOUS
  <2> HIDE DEF S
  <2> QED BY <1>1, <1>2, <2>1, Induction
<1>4. ASSUME NEW d \in Nat, NEW u \in Nat, NEW v \in Nat, u <= v
      PROVE  Ways(d, u) <= Ways(d, v)
  <2>1. v - u \in Nat /\ u + (v - u) = v
    BY <1>4
  <2>2. v - u \in S
    <3> HIDE DEF S
    <3> QED BY <1>3, <2>1
  <2>3. Ways(d, u) <= Ways(d, u + (v - u))
    BY <2>2
  <2> QED BY <2>1, <2>3
<1> QED BY <1>4

-----------------------------------------------------------------------------
(* Budgets.  A budget is a function u on 1..m; it affords n things when n  *)
(* is at most the sum of More(t, u[t]).                                    *)

\* What the last of t + u things adds to the ways.
More(t, u) == IF u = 0 THEN 0 ELSE Ways(t, u - 1)

LEMMA MoreType == \A t, u \in Nat : More(t, u) \in Nat
<1>1. \A u \in Nat : u # 0 => u - 1 \in Nat
  OBVIOUS
<1> QED BY <1>1, WaysType DEF More

LEMMA MoreGrows ==
  \A t, u, v \in Nat : u <= v => More(t, u) <= More(t, v)
<1> TAKE t \in Nat, u \in Nat, v \in Nat
<1>1. ASSUME u <= v PROVE More(t, u) <= More(t, v)
  <2>1. CASE u = 0
    <3>1. \A x \in Nat : 0 <= x
      OBVIOUS
    <3> QED BY <2>1, <3>1, MoreType DEF More
  <2>2. CASE u # 0
    <3>1. u - 1 \in Nat /\ v - 1 \in Nat /\ u - 1 <= v - 1 /\ v # 0
      BY <1>1, <2>2
    <3> QED BY <2>2, <3>1, WaysGrow DEF More
  <2> QED BY <2>1, <2>2
<1> QED BY <1>1

LEMMA MoreAdds ==
  \A t, u \in Nat : Ways(t, u) + More(t + 1, u) = Ways(t + 1, u)
<1> TAKE t \in Nat, u \in Nat
<1>1. CASE u = 0
  <2>1. t + 1 \in Nat /\ 1 + 0 = 1
    OBVIOUS
  <2> QED BY <1>1, <2>1, WaysAlone DEF More
<1>2. CASE u # 0
  <2>1. u - 1 \in Nat /\ (u - 1) + 1 = u
    BY <1>2
  <2>2. Ways(t + 1, (u - 1) + 1) = Ways(t, (u - 1) + 1) + Ways(t + 1, u - 1)
    BY <2>1, PascalsRule
  <2> QED BY <1>2, <2>1, <2>2 DEF More
<1> QED BY <1>1, <1>2

\* g[t] is what is afforded up to t.
Spreads(m, u, g) ==
  /\ g \in [0..m -> Nat] /\ g[0] = 0
  /\ \A t \in 1..m : g[t] <= g[t - 1] + More(t, u[t])

Affords(m, u, n) == \E g : Spreads(m, u, g) /\ n <= g[m]

(* While a budget is at most v, less than Ways(t, v) is afforded up to t.  *)
LEMMA SpreadsBounded ==
  ASSUME NEW m \in Nat, NEW u \in [1..m -> Nat], NEW g, Spreads(m, u, g),
         NEW k \in 0..m, NEW v \in Nat, \A t \in 1..k : u[t] <= v
  PROVE  g[k] + 1 <= Ways(k, v)
<1> DEFINE S == {n \in Nat : n <= k => g[n] + 1 <= Ways(n, v)}
<1>1. 0 \in S
  <2>1. 0 + 1 <= 1
    OBVIOUS
  <2> QED BY <2>1, WaysAlone DEF Spreads
<1>2. ASSUME NEW n \in S PROVE n + 1 \in S
  <2>1. ASSUME n + 1 <= k PROVE g[n + 1] + 1 <= Ways(n + 1, v)
    <3>1. n + 1 \in 1..k /\ n + 1 \in 1..m /\ n <= k /\ n \in 0..m /\ n + 1 \in 0..m
          /\ (n + 1) - 1 = n /\ n \in Nat /\ n + 1 \in Nat
      BY <2>1
    <3>2. g[n + 1] <= g[(n + 1) - 1] + More(n + 1, u[n + 1])
      BY <3>1 DEF Spreads
    <3>3. g[n] + 1 <= Ways(n, v)
      BY <3>1
    <3>4. More(n + 1, u[n + 1]) <= More(n + 1, v)
      BY <3>1, MoreGrows
    <3>5. Ways(n, v) + More(n + 1, v) = Ways(n + 1, v)
      BY <3>1, MoreAdds
    <3>6. /\ g[n] \in Nat /\ g[n + 1] \in Nat /\ More(n + 1, u[n + 1]) \in Nat
          /\ More(n + 1, v) \in Nat /\ Ways(n, v) \in Nat /\ Ways(n + 1, v) \in Nat
      BY <3>1, MoreType, WaysType DEF Spreads
    <3> QED BY <3>1, <3>2, <3>3, <3>4, <3>5, <3>6
  <2> QED BY <2>1
<1>3. S = Nat
  <2>1. S \in SUBSET Nat
    OBVIOUS
  <2> HIDE DEF S
  <2> QED BY <1>1, <1>2, <2>1, Induction
<1>4. k \in S
  <2>1. k \in Nat
    OBVIOUS
  <2> HIDE DEF S
  <2> QED BY <1>3, <2>1
<1>5. k <= k
  OBVIOUS
<1> QED BY <1>4, <1>5

LEMMA AffordsNothing ==
  ASSUME NEW m \in Nat, NEW u \in [1..m -> Nat]
  PROVE  Affords(m, u, 0)
<1> DEFINE g == [t \in 0..m |-> 0]
<1>1. ASSUME NEW t \in 1..m PROVE g[t] <= g[t - 1] + More(t, u[t])
  <2>1. t \in Nat /\ t \in 0..m /\ t - 1 \in 0..m
    OBVIOUS
  <2>2. More(t, u[t]) \in Nat
    BY <2>1, MoreType
  <2>3. g[t] = 0 /\ g[t - 1] = 0
    BY <2>1
  <2> HIDE DEF g
  <2> QED BY <2>2, <2>3
<1>2. Spreads(m, u, g)
  BY <1>1 DEF Spreads
<1>3. 0 <= g[m]
  OBVIOUS
<1> QED BY <1>2, <1>3 DEF Affords

LEMMA AffordsGrows ==
  ASSUME NEW m \in Nat, NEW u \in [1..m -> Nat], NEW v \in [1..m -> Nat],
         \A t \in 1..m : u[t] <= v[t], NEW n \in Nat, Affords(m, u, n)
  PROVE  Affords(m, v, n)
<1>1. PICK g : Spreads(m, u, g) /\ n <= g[m]
  BY DEF Affords
<1>2. ASSUME NEW t \in 1..m PROVE g[t] <= g[t - 1] + More(t, v[t])
  <2>1. t \in Nat /\ t - 1 \in 0..m /\ t \in 0..m
    OBVIOUS
  <2>2. More(t, u[t]) <= More(t, v[t]) /\ More(t, u[t]) \in Nat /\ More(t, v[t]) \in Nat
    BY <2>1, MoreGrows, MoreType
  <2> QED BY <1>1, <2>1, <2>2 DEF Spreads
<1> QED BY <1>1, <1>2 DEF Spreads, Affords

(* One more is afforded when the budget grows at k, by whatever it shrinks *)
(* before k: all of what was afforded up to k is less than the growth.     *)
LEMMA AffordsOneMore ==
  ASSUME NEW m \in Nat, NEW u \in [1..m -> Nat], NEW v \in [1..m -> Nat],
         NEW k \in 1..m,
         \A t \in 1..k : u[t] <= u[k],
         u[k] + 1 <= v[k],
         \A t \in (k + 1)..m : u[t] <= v[t],
         NEW n \in Nat, Affords(m, u, n)
  PROVE  Affords(m, v, n + 1)
<1>1. PICK g : Spreads(m, u, g) /\ n <= g[m]
  BY DEF Affords
<1> DEFINE h == [t \in 0..m |-> IF t < k THEN 0 ELSE g[t] + 1]
<1>2. g \in [0..m -> Nat] /\ h \in [0..m -> Nat]
  <2>1. g \in [0..m -> Nat]
    BY <1>1 DEF Spreads
  <2>2. \A t \in 0..m : (IF t < k THEN 0 ELSE g[t] + 1) \in Nat
    BY <2>1
  <2> QED BY <2>1, <2>2
<1>3. h[0] = 0 /\ n + 1 <= h[m]
  <2>1. 0 \in 0..m /\ 0 < k /\ m \in 0..m /\ ~(m < k)
    OBVIOUS
  <2>2. h[0] = 0 /\ h[m] = g[m] + 1 /\ g[m] \in Nat
    BY <1>2, <2>1
  <2> HIDE DEF h
  <2> QED BY <1>1, <2>2
<1>4. ASSUME NEW t \in 1..m PROVE h[t] <= h[t - 1] + More(t, v[t])
  <2>1. t \in Nat /\ t - 1 \in 0..m /\ t \in 0..m /\ k \in Nat
    OBVIOUS
  <2>2. More(t, v[t]) \in Nat
    BY <2>1, MoreType
  <2>3. CASE t < k
    <3>1. h[t] = 0 /\ h[t - 1] \in Nat
      BY <1>2, <2>1, <2>3
    <3> HIDE DEF h
    <3> QED BY <2>2, <3>1
  <2>4. CASE t = k
    <3>1. h[t] = g[k] + 1 /\ h[t - 1] = 0
      BY <2>1, <2>4
    <3>2. k \in 0..m /\ u[k] \in Nat
      OBVIOUS
    <3>3. v[k] # 0 /\ v[k] - 1 \in Nat /\ u[k] <= v[k] - 1
      BY <3>2
    <3>7. g[k] + 1 <= Ways(k, u[k])
      BY <1>1, <3>2, SpreadsBounded
    <3>4. More(t, v[t]) = Ways(k, v[k] - 1)
      BY <2>4, <3>3 DEF More
    <3>5. Ways(k, u[k]) <= Ways(k, v[k] - 1)
      BY <2>1, <3>2, <3>3, WaysGrow
    <3>6. Ways(k, u[k]) \in Nat /\ Ways(k, v[k] - 1) \in Nat /\ g[k] \in Nat
      BY <1>2, <2>1, <3>2, <3>3, WaysType
    <3> HIDE DEF h
    <3> QED BY <3>1, <3>7, <3>4, <3>5, <3>6
  <2>5. CASE k < t
    <3>1. h[t] = g[t] + 1 /\ h[t - 1] = g[t - 1] + 1
      BY <2>1, <2>5
    <3>2. g[t] <= g[t - 1] + More(t, u[t])
      BY <1>1 DEF Spreads
    <3>3. u[t] <= v[t]
      BY <2>5
    <3>4. More(t, u[t]) <= More(t, v[t]) /\ More(t, u[t]) \in Nat
      BY <2>1, <3>3, MoreGrows, MoreType
    <3>5. g[t] \in Nat /\ g[t - 1] \in Nat
      BY <1>2, <2>1
    <3>6. \A a, b, x, y \in Nat : x <= y + a /\ a <= b => x + 1 <= (y + 1) + b
      OBVIOUS
    <3> HIDE DEF h
    <3> QED BY <2>2, <3>1, <3>2, <3>4, <3>5, <3>6
  <2> QED BY <2>1, <2>3, <2>4, <2>5
<1> HIDE DEF h
<1> QED BY <1>2, <1>3, <1>4 DEF Spreads, Affords

(* What a budget of at most v affords.                                     *)
LEMMA AffordsBounded ==
  ASSUME NEW m \in Nat, NEW u \in [1..m -> Nat], NEW v \in Nat,
         \A t \in 1..m : u[t] <= v, NEW n \in Nat, Affords(m, u, n)
  PROVE  n <= choose(m + v, v) - 1
<1>1. PICK g : Spreads(m, u, g) /\ n <= g[m]
  BY DEF Affords
<1>2. m \in 0..m
  OBVIOUS
<1>3. g[m] + 1 <= Ways(m, v)
  BY <1>1, <1>2, SpreadsBounded
<1>4. g[m] \in Nat /\ Ways(m, v) \in Nat
  BY <1>1, <1>2, WaysType DEF Spreads
<1> QED BY <1>1, <1>3, <1>4 DEF Ways
=============================================================================
