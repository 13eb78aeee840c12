----------------------------- MODULE Iteration -----------------------------
(***************************************************************************)
(* Induction over a loop that carries a value from one element of a        *)
(* sequence to the next, as ReadEngine, Pushes and CountsBefore of         *)
(* PackagedFs do: it has a step and an invariant as parameters.  A module  *)
(* that proves something about such a loop instantiates it with the body   *)
(* of the loop and with what is to be shown of it.                         *)
(***************************************************************************)
EXTENDS Integers, WellFoundedInduction, TLAPS

CONSTANTS
  step(_, _, _, _, _),     \* the body: three parameters, the value and an element
  Inv(_, _, _, _, _, _)    \* four parameters, the number of turns and the value

\* The values that the first n turns of a loop which begins with w go through.
IsRun(f, p, q, r, w, s, n) ==
  f = [m \in 0..n |-> IF m = 0 THEN w ELSE step(p, q, r, f[m - 1], s[m])]

LEMMA Least ==
  ASSUME NEW T, T \subseteq Nat, T # {}
  PROVE  \E n \in T : \A m \in T : ~(m < n)
<1> DEFINE R == OpToRel(<, Nat)
<1>1. IsWellFoundedOn(R, Nat)
  BY NatLessThanWellFounded
<1>2. PICK n \in T : \A m \in T : ~(<<m, n>> \in R)
  <2> HIDE DEF R
  <2> QED BY <1>1, WFMin
<1>3. \A m \in T : ~(m < n)
  BY <1>2 DEF OpToRel
<1> QED
  BY <1>3

\* The recursive definition of a loop has a solution.
THEOREM RunExists ==
  ASSUME NEW p, NEW q, NEW r, NEW w, NEW s, NEW n \in Nat
  PROVE  \E f : IsRun(f, p, q, r, w, s, n)
<1> DEFINE T == {m \in Nat : ~ \E f : IsRun(f, p, q, r, w, s, m)}
<1>1. SUFFICES ASSUME T # {} PROVE FALSE
  OBVIOUS
<1>2. PICK m \in T : \A l \in T : ~(l < m)
  <2>1. T \subseteq Nat
    OBVIOUS
  <2> HIDE DEF T
  <2> QED BY <1>1, <2>1, Least
<1>3. m # 0
  <2>1. \A f : f = [i \in 0..0 |-> w] => IsRun(f, p, q, r, w, s, 0)
    BY DEF IsRun
  <2> QED BY <1>2, <2>1
<1>4. m \in Nat /\ m - 1 \in Nat /\ m - 1 < m
  BY <1>2, <1>3
<1>5. PICK h : IsRun(h, p, q, r, w, s, m - 1)
  BY <1>2, <1>4
<1>6. PICK g : g = [i \in 0..m |-> IF i = m THEN step(p, q, r, h[m - 1], s[m]) ELSE h[i]]
  OBVIOUS
<1>7. ASSUME NEW i \in 0..m
      PROVE  g[i] = IF i = 0 THEN w ELSE step(p, q, r, g[i - 1], s[i])
  <2>1. CASE i = m
    <3>1. m - 1 \in 0..m /\ m - 1 # m
      BY <1>4
    <3>2. g[i] = step(p, q, r, h[m - 1], s[m]) /\ g[i - 1] = h[m - 1]
      BY <1>6, <2>1, <3>1
    <3> QED BY <1>3, <2>1, <3>2
  <2>2. CASE i # m
    <3>1. i \in 0..(m - 1) /\ (i # 0 => i - 1 \in 0..m /\ i - 1 # m)
      BY <1>4, <2>2
    <3>2. g[i] = h[i] /\ (i # 0 => g[i - 1] = h[i - 1])
      BY <1>6, <2>2, <3>1
    <3> QED BY <1>5, <3>1, <3>2 DEF IsRun
  <2> QED BY <2>1, <2>2
<1>8. IsRun(g, p, q, r, w, s, m)
  BY <1>6, <1>7 DEF IsRun
<1> QED
  BY <1>2, <1>8

THEOREM RunSteps ==
  ASSUME NEW p, NEW q, NEW r, NEW w, NEW s, NEW n \in Nat,
         NEW f, IsRun(f, p, q, r, w, s, n)
  PROVE  f[0] = w /\ \A m \in 1..n : f[m] = step(p, q, r, f[m - 1], s[m])
<1>1. \A h : h = [m \in 0..n |-> IF m = 0 THEN w ELSE step(p, q, r, f[m - 1], s[m])] =>
         h[0] = w /\ \A m \in 1..n : h[m] = step(p, q, r, f[m - 1], s[m])
  OBVIOUS
<1> QED
  BY <1>1 DEF IsRun

\* What holds at first and is kept by each turn holds at the end.
THEOREM RunKeeps ==
  ASSUME NEW p, NEW q, NEW r, NEW w, NEW s, NEW n \in Nat,
         NEW f, IsRun(f, p, q, r, w, s, n),
         NEW a, NEW b, NEW c, NEW d, Inv(a, b, c, d, 0, w),
         \A m \in 1..n : \A v : Inv(a, b, c, d, m - 1, v) =>
           Inv(a, b, c, d, m, step(p, q, r, v, s[m]))
  PROVE  \A m \in 0..n : Inv(a, b, c, d, m, f[m])
<1> DEFINE T == {m \in Nat : m <= n /\ ~Inv(a, b, c, d, m, f[m])}
<1>0. f = [m \in 0..n |-> IF m = 0 THEN w ELSE step(p, q, r, f[m - 1], s[m])]
  BY DEF IsRun
<1>1. T = {}
  <2>1. SUFFICES ASSUME T # {} PROVE FALSE
    OBVIOUS
  <2>2. PICK m \in T : \A l \in T : ~(l < m)
    <3>1. T \subseteq Nat
      OBVIOUS
    <3> HIDE DEF T
    <3> QED BY <2>1, <3>1, Least
  <2>3. f[0] = w
    BY <1>0
  <2>4. m # 0
    BY <2>2, <2>3
  <2>5. m - 1 \in Nat /\ m - 1 < m /\ m - 1 <= n /\ m \in 1..n
    BY <2>2, <2>4
  <2>6. Inv(a, b, c, d, m - 1, f[m - 1])
    BY <2>2, <2>5
  <2>7. f[m] = step(p, q, r, f[m - 1], s[m])
    BY <1>0, <2>5
  <2> QED BY <2>2, <2>5, <2>6, <2>7
<1> QED
  BY <1>1
=============================================================================
