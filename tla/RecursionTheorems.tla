------------------------- MODULE RecursionTheorems -------------------------
(***************************************************************************)
(* Induction over the natural numbers without an operator as parameter, and  *)
(* the existence of a function defined by recursion over them: what the      *)
(* proofs about lists and logs rest on.  A function f[n \in Nat] == e stands  *)
(* for some function with that equation, of which it is not known before     *)
(* that there is one.  Everything follows from the well-foundedness of < on  *)
(* the natural numbers.                                                      *)
(***************************************************************************)
EXTENDS Integers, Sequences, WellFoundedInduction, TLAPS

\* A set of numbers has a lowest one.
LEMMA Lowest == ASSUME NEW T \in SUBSET Nat, T # {} PROVE \E x \in T : \A y \in T : x <= y
<1> DEFINE R == OpToRel(<, Nat)
<1>1. IsWellFoundedOn(R, Nat)
  BY NatLessThanWellFounded, Zenon
<1>2. \A x, y \in Nat : x < y => <<x, y>> \in R
  BY DEF OpToRel
<1> HIDE DEF R
<1>3. PICK x \in T : \A y \in T : ~ (<<y, x>> \in R)
  BY <1>1, WFMin
<1>4. ASSUME NEW y \in T PROVE x <= y
  <2>1. ~ (y < x)
    BY <1>2, <1>3
  <2>2. x \in Nat /\ y \in Nat
    OBVIOUS
  <2> QED BY <2>1, <2>2
<1> QED BY <1>4

\* A set that has 0 and with each number the next has them all.
THEOREM SetInduction ==
    ASSUME NEW S, 0 \in S, \A n \in Nat : n \in S => n + 1 \in S
    PROVE  Nat \subseteq S
<1> DEFINE T == Nat \ S
<1>1. SUFFICES ASSUME T # {} PROVE FALSE
  OBVIOUS
<1>2. PICK x \in T : \A y \in T : x <= y
  BY <1>1, Lowest
<1>3. x # 0 /\ x - 1 \in Nat /\ x - 1 \notin T
  BY <1>2
<1>4. (x - 1) + 1 \in S
  BY <1>3
<1> QED BY <1>2, <1>4

\* The values in D that start with base and continue with G.
Continues(f, D, base, G) ==
    /\ f \in [Nat -> D]
    /\ f[0] = base
    /\ \A n \in Nat : f[n + 1] = G[n][f[n]]

\* There are such values.
THEOREM FunctionExists ==
    ASSUME NEW D, NEW base, base \in D, NEW G, G \in [Nat -> [D -> D]]
    PROVE  \E f : Continues(f, D, base, G)
<1> DEFINE Good(n, f) == f[0] = base /\ \A i \in 0..(n - 1) : f[i + 1] = G[i][f[i]]
           S == {n \in Nat : \E f \in [0..n -> D] : Good(n, f)}
           U == {n \in Nat : \A m \in Nat : n <= m =>
                   \A f \in [0..n -> D], g \in [0..m -> D] : Good(n, f) /\ Good(m, g) => f[n] = g[n]}
<1>1. 0 \in S
  <2>1. [i \in 0..0 |-> base] \in [0..0 -> D] /\ Good(0, [i \in 0..0 |-> base])
    OBVIOUS
  <2> QED BY <2>1
<1>2. ASSUME NEW n \in Nat, n \in S PROVE n + 1 \in S
  <2>1. PICK f \in [0..n -> D] : Good(n, f)
    BY <1>2
  <2> DEFINE g == [i \in 0..(n + 1) |-> IF i <= n THEN f[i] ELSE G[n][f[n]]]
  <2>2. g \in [0..(n + 1) -> D]
    OBVIOUS
  <2>3. Good(n + 1, g)
    <3>1. g[0] = base
      BY <2>1
    <3>2. ASSUME NEW i \in 0..n PROVE g[i + 1] = G[i][g[i]]
      <4>1. CASE i = n
        BY <4>1
      <4>2. CASE i # n
        BY <4>2, <2>1
      <4> QED BY <4>1, <4>2
    <3>3. 0..((n + 1) - 1) = 0..n
      OBVIOUS
    <3> HIDE DEF g
    <3> QED BY <3>1, <3>2, <3>3
  <2> HIDE DEF Good, g
  <2> QED BY <2>2, <2>3
<1>3. Nat \subseteq S
  <2> HIDE DEF S
  <2> QED BY <1>1, <1>2, SetInduction
<1>4. 0 \in U
  OBVIOUS
<1>5. ASSUME NEW n \in Nat, n \in U PROVE n + 1 \in U
  <2>1. ASSUME NEW m \in Nat, n + 1 <= m, NEW f \in [0..(n + 1) -> D],
               NEW g \in [0..m -> D], Good(n + 1, f), Good(m, g)
        PROVE  f[n + 1] = g[n + 1]
    <3> DEFINE h == [i \in 0..n |-> f[i]]
    <3>1. h \in [0..n -> D] /\ h[n] = f[n] /\ Good(n, h)
      BY <2>1
    <3>2. f[n + 1] = G[n][f[n]] /\ g[n + 1] = G[n][g[n]]
      BY <2>1
    <3>3. n <= m
      BY <2>1
    <3>4. h[n] = g[n]
      <4> HIDE DEF Good, h
      <4> QED BY <1>5, <2>1, <3>1, <3>3
    <3> QED BY <3>1, <3>2, <3>4
  <2> HIDE DEF Good
  <2> QED BY <2>1
<1>6. Nat \subseteq U
  <2> HIDE DEF U
  <2> QED BY <1>4, <1>5, SetInduction
<1>7. PICK F \in [Nat -> UNION {[0..n -> D] : n \in Nat}] :
        \A n \in Nat : F[n] \in [0..n -> D] /\ Good(n, F[n])
  <2> DEFINE F == [n \in Nat |-> CHOOSE f \in [0..n -> D] : Good(n, f)]
  <2>1. ASSUME NEW n \in Nat PROVE F[n] \in [0..n -> D] /\ Good(n, F[n])
    <3>1. \E f \in [0..n -> D] : Good(n, f)
      BY <1>3
    <3> HIDE DEF Good
    <3> QED BY <3>1
  <2>2. F \in [Nat -> UNION {[0..n -> D] : n \in Nat}]
    <3> SUFFICES ASSUME NEW n \in Nat PROVE F[n] \in UNION {[0..m -> D] : m \in Nat}
      OBVIOUS
    <3> HIDE DEF F
    <3> QED BY <2>1
  <2> HIDE DEF F
  <2> QED BY <2>1, <2>2
<1> DEFINE f == [n \in Nat |-> F[n][n]]
<1>8. f \in [Nat -> D]
  BY <1>7
<1>9. f[0] = base
  BY <1>7
<1>10. ASSUME NEW n \in Nat PROVE f[n + 1] = G[n][f[n]]
  <2>1. F[n + 1] \in [0..(n + 1) -> D] /\ Good(n + 1, F[n + 1])
    BY <1>7
  <2>2. F[n + 1][n + 1] = G[n][F[n + 1][n]]
    BY <2>1
  <2>3. F[n] \in [0..n -> D] /\ Good(n, F[n])
    BY <1>7
  <2>4. n \in U /\ n + 1 \in Nat /\ n <= n + 1
    <3> HIDE DEF U
    <3> QED BY <1>6
  <2>5. F[n][n] = F[n + 1][n]
    <3> HIDE DEF Good
    <3> QED BY <2>1, <2>3, <2>4
  <2>6. f[n + 1] = F[n + 1][n + 1] /\ f[n] = F[n][n]
    BY <2>4
  <2> HIDE DEF f
  <2> QED BY <2>2, <2>5, <2>6
<1> HIDE DEF f
<1> QED BY <1>8, <1>9, <1>10 DEF Continues
=============================================================================
