----------------------------- MODULE ZSetProofs -----------------------------
(***************************************************************************)
(* Proofs about the AVL tree and the sorted set.                            *)
(***************************************************************************)
EXTENDS ZSet, RecursionTheorems, FiniteSetTheorems, SequenceTheorems, TLAPS

(***************************************************************************)
(* Trees.                                                                   *)
(***************************************************************************)
\* Nodes whose subtrees are in S, and the empty tree.
Above(S) == {Nil} \cup [key : Members, score : Scores, height : Nat, left : S, right : S]

\* What Trees is defined to be, as far as n.
TreesTo(n, g) == g = [i \in 0..n |-> IF i = 0 THEN {Nil} ELSE Above(g[i - 1])]

\* There is one such function for each n, and only one.
LEMMA TreesToExist == \A n \in Nat : \E g : TreesTo(n, g)
<1> DEFINE S == {n \in Nat : \E g : TreesTo(n, g)}
<1>1. 0 \in S
  <2> DEFINE g == [i \in 0..0 |-> {Nil}]
  <2>1. TreesTo(0, g)
    BY DEF TreesTo
  <2> QED BY <2>1
<1>2. ASSUME NEW n \in Nat, n \in S PROVE n + 1 \in S
  <2>1. PICK f : TreesTo(n, f)
    BY <1>2
  <2> DEFINE g == [i \in 0..(n + 1) |-> IF i = 0 THEN {Nil} ELSE Above(f[i - 1])]
  <2>2. ASSUME NEW i \in 0..n PROVE g[i] = f[i]
    <3>1. i \in 0..(n + 1)
      OBVIOUS
    <3>2. g[i] = IF i = 0 THEN {Nil} ELSE Above(f[i - 1])
      BY <3>1, Zenon
    <3>3. f[i] = IF i = 0 THEN {Nil} ELSE Above(f[i - 1])
      BY <2>1, Zenon DEF TreesTo
    <3> QED BY <3>2, <3>3, Zenon
  <2>3. ASSUME NEW i \in 0..(n + 1), i # 0 PROVE Above(f[i - 1]) = Above(g[i - 1])
    <3>1. i - 1 \in 0..n
      BY <2>3
    <3> HIDE DEF g
    <3> QED BY <3>1, <2>2
  <2>4. g = [i \in 0..(n + 1) |-> IF i = 0 THEN {Nil} ELSE Above(g[i - 1])]
    <3>1. g = [i \in 0..(n + 1) |-> g[i]]
      OBVIOUS
    <3>2. ASSUME NEW i \in 0..(n + 1) PROVE g[i] = IF i = 0 THEN {Nil} ELSE Above(g[i - 1])
      <4>1. g[i] = IF i = 0 THEN {Nil} ELSE Above(f[i - 1])
        OBVIOUS
      <4> HIDE DEF g
      <4> QED BY <4>1, <2>3
    <3> HIDE DEF g
    <3> QED BY <3>1, <3>2, Zenon
  <2>5. TreesTo(n + 1, g)
    <3> HIDE DEF g
    <3> QED BY <2>4 DEF TreesTo
  <2> HIDE DEF g
  <2> QED BY <2>5
<1>3. Nat \subseteq S
  <2> HIDE DEF S
  <2> QED BY <1>1, <1>2, SetInduction
<1> QED BY <1>3

\* Two such functions agree as far as both go.
LEMMA TreesToUnique ==
    ASSUME NEW n \in Nat, NEW m \in Nat, NEW f, NEW g, TreesTo(n, f), TreesTo(m, g),
           NEW i \in Nat, i <= n, i <= m
    PROVE  f[i] = g[i]
<1> DEFINE S == {j \in Nat : j <= n /\ j <= m => f[j] = g[j]}
<1>1. 0 \in S
  BY DEF TreesTo
<1>2. ASSUME NEW j \in Nat, j \in S PROVE j + 1 \in S
  <2>1. SUFFICES ASSUME j + 1 <= n, j + 1 <= m PROVE f[j + 1] = g[j + 1]
    OBVIOUS
  <2>2. f[j] = g[j]
    BY <1>2, <2>1
  <2>3. j + 1 \in 0..n /\ j + 1 \in 0..m /\ j + 1 # 0 /\ (j + 1) - 1 = j
    BY <2>1
  <2>4. f[j + 1] = Above(f[j])
    BY <2>3, Zenon DEF TreesTo
  <2>5. g[j + 1] = Above(g[j])
    BY <2>3, Zenon DEF TreesTo
  <2> QED BY <2>2, <2>4, <2>5
<1>3. Nat \subseteq S
  <2> HIDE DEF S
  <2> QED BY <1>1, <1>2, SetInduction
<1> QED BY <1>3

\* The equations of Trees.
LEMMA TreesDef ==
    /\ Trees[0] = {Nil}
    /\ \A n \in Nat : Trees[n + 1] = Above(Trees[n])
<1> DEFINE G == [n \in Nat |-> CHOOSE g : TreesTo(n, g)]
           F == [n \in Nat |-> G[n][n]]
           Eq(f) == f = [n \in Nat |-> IF n = 0 THEN {Nil} ELSE Above(f[n - 1])]
<1>1. ASSUME NEW n \in Nat PROVE TreesTo(n, G[n])
  <2>1. G[n] = CHOOSE g : TreesTo(n, g)
    OBVIOUS
  <2>2. \E g : TreesTo(n, g)
    BY TreesToExist
  <2> HIDE DEF G
  <2> QED BY <2>1, <2>2, Zenon
<1> HIDE DEF G
<1>2. F[0] = {Nil}
  <2>1. TreesTo(0, G[0])
    BY <1>1
  <2> QED BY <2>1 DEF TreesTo
<1>3. ASSUME NEW n \in Nat PROVE F[n + 1] = Above(F[n])
  <2>1. TreesTo(n, G[n]) /\ TreesTo(n + 1, G[n + 1])
    BY <1>1
  <2>2. G[n][n] = G[n + 1][n]
    BY <2>1, TreesToUnique
  <2>3. n + 1 \in 0..(n + 1) /\ n + 1 # 0 /\ (n + 1) - 1 = n
    OBVIOUS
  <2>4. G[n + 1][n + 1] = Above(G[n + 1][n])
    BY <2>1, <2>3, Zenon DEF TreesTo
  <2>5. F[n] = G[n][n] /\ F[n + 1] = G[n + 1][n + 1]
    OBVIOUS
  <2> HIDE DEF F
  <2> QED BY <2>2, <2>4, <2>5
<1>4. Eq(F)
  <2>1. ASSUME NEW n \in Nat PROVE F[n] = IF n = 0 THEN {Nil} ELSE Above(F[n - 1])
    <3>1. CASE n = 0
      BY <3>1, <1>2
    <3>2. CASE n # 0
      <4>1. n - 1 \in Nat /\ (n - 1) + 1 = n
        BY <3>2
      <4> HIDE DEF F
      <4> QED BY <4>1, <3>2, <1>3
    <3> QED BY <3>1, <3>2
  <2>2. F = [n \in Nat |-> F[n]]
    OBVIOUS
  <2> HIDE DEF F
  <2> QED BY <2>1, <2>2, Zenon
<1>5. Eq(Trees)
  <2>1. Trees = CHOOSE f : Eq(f)
    BY DEF Trees, Above
  <2> HIDE DEF F, Eq
  <2> QED BY <2>1, <1>4, Zenon
<1>6. Trees[0] = {Nil}
  BY <1>5, Zenon
<1>7. ASSUME NEW n \in Nat PROVE Trees[n + 1] = Above(Trees[n])
  <2>1. n + 1 \in Nat /\ n + 1 # 0 /\ (n + 1) - 1 = n
    OBVIOUS
  <2> QED BY <2>1, <1>5, Zenon
<1> QED BY <1>6, <1>7

\* What is above a larger set has what is above a smaller one.
LEMMA AboveMonotone == ASSUME NEW S, NEW T, S \subseteq T PROVE Above(S) \subseteq Above(T)
BY DEF Above

\* More levels, more trees.
LEMMA TreesGrow ==
    ASSUME NEW m \in Nat, NEW n \in Nat, m <= n
    PROVE  Trees[m] \subseteq Trees[n]
<1> DEFINE S == {i \in Nat : Trees[i] \subseteq Trees[i + 1]}
           U == {i \in Nat : Trees[m] \subseteq Trees[m + i]}
<1>1. 0 \in S
  BY TreesDef DEF Above
<1>2. ASSUME NEW i \in Nat, i \in S PROVE i + 1 \in S
  <2>1. Trees[i + 1] = Above(Trees[i]) /\ Trees[(i + 1) + 1] = Above(Trees[i + 1])
    BY TreesDef
  <2>2. Above(Trees[i]) \subseteq Above(Trees[i + 1])
    BY <1>2, AboveMonotone
  <2> QED BY <2>1, <2>2
<1>3. Nat \subseteq S
  <2> HIDE DEF S
  <2> QED BY <1>1, <1>2, SetInduction
<1>4. 0 \in U
  OBVIOUS
<1>5. ASSUME NEW i \in Nat, i \in U PROVE i + 1 \in U
  <2>1. m + i \in S /\ m + (i + 1) = (m + i) + 1
    BY <1>3
  <2> QED BY <2>1, <1>5
<1>6. Nat \subseteq U
  <2> HIDE DEF U
  <2> QED BY <1>4, <1>5, SetInduction
<1>7. n - m \in U /\ m + (n - m) = n
  <2>1. n - m \in Nat
    OBVIOUS
  <2> HIDE DEF U
  <2> QED BY <2>1, <1>6
<1> QED BY <1>7

\* The node of an entry with key k and score s.
Made(k, s, h, l, r) == [key |-> k, score |-> s, height |-> h, left |-> l, right |-> r]

\* A tree is empty or a node with two trees of fewer levels.
LEMMA TreeParts ==
    ASSUME NEW n \in Nat, NEW t \in Trees[n + 1], t # Nil
    PROVE  /\ t.key \in Members /\ t.score \in Scores /\ t.height \in Nat
           /\ t.left \in Trees[n] /\ t.right \in Trees[n]
           /\ t = Made(t.key, t.score, t.height, t.left, t.right)
<1>1. t \in Above(Trees[n])
  BY TreesDef
<1>2. t \in [key : Members, score : Scores, height : Nat, left : Trees[n], right : Trees[n]]
  BY <1>1 DEF Above
<1> QED BY <1>2 DEF Made

\* An empty tree has as many levels as one likes, and is no node.
LEMMA NilTree == \A n \in Nat : Nil \in Trees[n]
<1>1. Nil \in Trees[0]
  BY TreesDef
<1> QED BY <1>1, TreesGrow

\* A node above two trees is a tree of one more level.
LEMMA MadeTree ==
    ASSUME NEW n \in Nat, NEW k \in Members, NEW s \in Scores, NEW h \in Nat,
           NEW l \in Trees[n], NEW r \in Trees[n]
    PROVE  Made(k, s, h, l, r) \in Trees[n + 1]
<1>1. Made(k, s, h, l, r) \in Above(Trees[n])
  BY DEF Above, Made
<1> QED BY <1>1, TreesDef

\* A node is no null pointer and has the fields it was given.
LEMMA MadeNode ==
    ASSUME NEW k, NEW s, NEW h, NEW l, NEW r
    PROVE  LET t == Made(k, s, h, l, r) IN
           /\ t # Nil
           /\ t.key = k /\ t.score = s /\ t.height = h /\ t.left = l /\ t.right = r
<1>1. DOMAIN Made(k, s, h, l, r) = {"key", "score", "height", "left", "right"}
  BY DEF Made
<1>2. DOMAIN Nil = {}
  BY DEF Nil
<1> QED BY <1>1, <1>2 DEF Made

\* A tree of n + 1 levels that is one of n levels has subtrees of n levels as well.
LEMMA SubtreesIn ==
    ASSUME NEW n \in Nat, NEW t \in Trees[n], t # Nil
    PROVE  t.left \in Trees[n] /\ t.right \in Trees[n] /\ n # 0
<1>1. n # 0
  BY TreesDef
<1>2. n - 1 \in Nat /\ (n - 1) + 1 = n
  BY <1>1
<1>3. t.left \in Trees[n - 1] /\ t.right \in Trees[n - 1]
  BY <1>2, TreeParts
<1>4. Trees[n - 1] \subseteq Trees[n]
  BY <1>2, TreesGrow
<1> QED BY <1>1, <1>3, <1>4

\* The number of levels a tree may have.
Levels == Cardinality(Members)

\* There are finitely many members, so the bound on the levels is a number.
LEMMA LevelsNat == Levels \in Nat /\ Tree = Trees[Levels]
BY ZSetAssumption, FS_CardinalityType DEF Levels, Tree

\* The equation of InOrder.
LEMMA InOrderDef ==
    \A t \in Tree : InOrder[t] = 
        IF t = Nil THEN <<>>
        ELSE InOrder[t.left] \o <<Entry(t.key, t.score)>> \o InOrder[t.right]
<1> DEFINE Body(F, t) == 
               IF t = Nil THEN <<>>
               ELSE F[t.left] \o <<Entry(t.key, t.score)>> \o F[t.right]
           Eq(S, F) == F = [t \in S |-> Body(F, t)]
           D(n) == Trees[n]
           U == {n \in Nat : \E F : Eq(D(n), F)}
<1>1. 0 \in U
  <2> DEFINE F == [t \in D(0) |-> <<>>]
  <2>1. ASSUME NEW t \in D(0) PROVE F[t] = Body(F, t)
    BY TreesDef
  <2>2. Eq(D(0), F)
    <3>1. F = [t \in D(0) |-> F[t]]
      OBVIOUS
    <3> HIDE DEF F, Body, D
    <3> QED BY <2>1, <3>1, Zenon
  <2> HIDE DEF F, Eq, D
  <2> QED BY <2>2
<1>2. ASSUME NEW n \in Nat, n \in U PROVE n + 1 \in U
  <2>1. PICK F : Eq(D(n), F)
    BY <1>2
  <2> DEFINE H == [t \in D(n + 1) |-> Body(F, t)]
  <2>2. ASSUME NEW t \in D(n) PROVE H[t] = F[t]
    <3>1. t \in D(n + 1)
      BY TreesGrow
    <3> HIDE DEF Body, D
    <3> QED BY <2>1, <3>1, Zenon
  <2>3. ASSUME NEW t \in D(n + 1) PROVE Body(F, t) = Body(H, t)
    <3>1. t # Nil => t.left \in Trees[n] /\ t.right \in Trees[n]
      BY TreeParts
    <3> HIDE DEF H
    <3> QED BY <2>2, <3>1
  <2>4. Eq(D(n + 1), H)
    <3>1. ASSUME NEW t \in D(n + 1) PROVE H[t] = Body(H, t)
      <4>1. H[t] = Body(F, t)
        BY Zenon
      <4> HIDE DEF H, Body, D
      <4> QED BY <2>3, <4>1, Zenon
    <3>2. H = [t \in D(n + 1) |-> H[t]]
      BY Zenon
    <3> HIDE DEF H, Body, D
    <3> QED BY <3>1, <3>2, Zenon
  <2> HIDE DEF H, Eq, D
  <2> QED BY <2>4
<1>3. Nat \subseteq U
  <2> HIDE DEF U
  <2> QED BY <1>1, <1>2, SetInduction
<1>4. \E F : Eq(Tree, F)
  <2>1. Levels \in U /\ D(Levels) = Tree
    BY <1>3, LevelsNat
  <2> HIDE DEF Body, D
  <2> QED BY <2>1
<1>5. InOrder = CHOOSE F : Eq(Tree, F)
  BY DEF InOrder
<1> HIDE DEF Body, D
<1>6. Eq(Tree, InOrder)
  <2> HIDE DEF Eq
  <2> QED BY <1>4, <1>5, Zenon
<1>7. ASSUME NEW t \in Tree PROVE InOrder[t] = Body(InOrder, t)
  BY <1>6, Zenon
<1> QED BY <1>7, Zenon DEF Body

\* The equation of IsBalanced.
LEMMA IsBalancedDef ==
    \A t \in Tree : IsBalanced[t] = 
        \/ t = Nil
        \/ /\ t = UpdateHeight(t) /\ Balance(t) \in -1..1
           /\ IsBalanced[t.left] /\ IsBalanced[t.right]
<1> DEFINE Body(F, t) == 
               \/ t = Nil
               \/ /\ t = UpdateHeight(t) /\ Balance(t) \in -1..1
                  /\ F[t.left] /\ F[t.right]
           Eq(S, F) == F = [t \in S |-> Body(F, t)]
           D(n) == Trees[n]
           U == {n \in Nat : \E F : Eq(D(n), F)}
<1>1. 0 \in U
  <2> DEFINE F == [t \in D(0) |-> TRUE]
  <2>1. ASSUME NEW t \in D(0) PROVE F[t] = Body(F, t)
    BY TreesDef
  <2>2. Eq(D(0), F)
    <3>1. F = [t \in D(0) |-> F[t]]
      OBVIOUS
    <3> HIDE DEF F, Body, D
    <3> QED BY <2>1, <3>1, Zenon
  <2> HIDE DEF F, Eq, D
  <2> QED BY <2>2
<1>2. ASSUME NEW n \in Nat, n \in U PROVE n + 1 \in U
  <2>1. PICK F : Eq(D(n), F)
    BY <1>2
  <2> DEFINE H == [t \in D(n + 1) |-> Body(F, t)]
  <2>2. ASSUME NEW t \in D(n) PROVE H[t] = F[t]
    <3>1. t \in D(n + 1)
      BY TreesGrow
    <3> HIDE DEF Body, D
    <3> QED BY <2>1, <3>1, Zenon
  <2>3. ASSUME NEW t \in D(n + 1) PROVE Body(F, t) = Body(H, t)
    <3>1. t # Nil => t.left \in Trees[n] /\ t.right \in Trees[n]
      BY TreeParts
    <3> HIDE DEF H
    <3> QED BY <2>2, <3>1
  <2>4. Eq(D(n + 1), H)
    <3>1. ASSUME NEW t \in D(n + 1) PROVE H[t] = Body(H, t)
      <4>1. H[t] = Body(F, t)
        BY Zenon
      <4> HIDE DEF H, Body, D
      <4> QED BY <2>3, <4>1, Zenon
    <3>2. H = [t \in D(n + 1) |-> H[t]]
      BY Zenon
    <3> HIDE DEF H, Body, D
    <3> QED BY <3>1, <3>2, Zenon
  <2> HIDE DEF H, Eq, D
  <2> QED BY <2>4
<1>3. Nat \subseteq U
  <2> HIDE DEF U
  <2> QED BY <1>1, <1>2, SetInduction
<1>4. \E F : Eq(Tree, F)
  <2>1. Levels \in U /\ D(Levels) = Tree
    BY <1>3, LevelsNat
  <2> HIDE DEF Body, D
  <2> QED BY <2>1
<1>5. IsBalanced = CHOOSE F : Eq(Tree, F)
  BY DEF IsBalanced
<1> HIDE DEF Body, D
<1>6. Eq(Tree, IsBalanced)
  <2> HIDE DEF Eq
  <2> QED BY <1>4, <1>5, Zenon
<1>7. ASSUME NEW t \in Tree PROVE IsBalanced[t] = Body(IsBalanced, t)
  BY <1>6, Zenon
<1> QED BY <1>7, Zenon DEF Body

\* The equation of MinValueNode.
LEMMA MinValueNodeDef ==
    \A t \in Tree \ {Nil} : MinValueNode[t] = 
        IF t.left = Nil THEN t ELSE MinValueNode[t.left]
<1> DEFINE Body(F, t) == IF t.left = Nil THEN t ELSE F[t.left]
           Eq(S, F) == F = [t \in S |-> Body(F, t)]
           D(n) == Trees[n] \ {Nil}
           U == {n \in Nat : \E F : Eq(D(n), F)}
<1>1. 0 \in U
  <2> DEFINE F == [t \in D(0) |-> Nil]
  <2>1. ASSUME NEW t \in D(0) PROVE F[t] = Body(F, t)
    BY TreesDef
  <2>2. Eq(D(0), F)
    <3>1. F = [t \in D(0) |-> F[t]]
      OBVIOUS
    <3> HIDE DEF F, Body, D
    <3> QED BY <2>1, <3>1, Zenon
  <2> HIDE DEF F, Eq, D
  <2> QED BY <2>2
<1>2. ASSUME NEW n \in Nat, n \in U PROVE n + 1 \in U
  <2>1. PICK F : Eq(D(n), F)
    BY <1>2
  <2> DEFINE H == [t \in D(n + 1) |-> Body(F, t)]
  <2>2. ASSUME NEW t \in D(n) PROVE H[t] = F[t]
    <3>1. t \in D(n + 1)
      BY TreesGrow
    <3> HIDE DEF Body, D
    <3> QED BY <2>1, <3>1, Zenon
  <2>3. ASSUME NEW t \in D(n + 1) PROVE Body(F, t) = Body(H, t)
    <3>1. t # Nil => t.left \in Trees[n] /\ t.right \in Trees[n]
      BY TreeParts
    <3> HIDE DEF H
    <3> QED BY <2>2, <3>1
  <2>4. Eq(D(n + 1), H)
    <3>1. ASSUME NEW t \in D(n + 1) PROVE H[t] = Body(H, t)
      <4>1. H[t] = Body(F, t)
        BY Zenon
      <4> HIDE DEF H, Body, D
      <4> QED BY <2>3, <4>1, Zenon
    <3>2. H = [t \in D(n + 1) |-> H[t]]
      BY Zenon
    <3> HIDE DEF H, Body, D
    <3> QED BY <3>1, <3>2, Zenon
  <2> HIDE DEF H, Eq, D
  <2> QED BY <2>4
<1>3. Nat \subseteq U
  <2> HIDE DEF U
  <2> QED BY <1>1, <1>2, SetInduction
<1>4. \E F : Eq(Tree \ {Nil}, F)
  <2>1. Levels \in U /\ D(Levels) = Tree \ {Nil}
    BY <1>3, LevelsNat
  <2> HIDE DEF Body, D
  <2> QED BY <2>1
<1>5. MinValueNode = CHOOSE F : Eq(Tree \ {Nil}, F)
  BY DEF MinValueNode
<1> HIDE DEF Body, D
<1>6. Eq(Tree \ {Nil}, MinValueNode)
  <2> HIDE DEF Eq
  <2> QED BY <1>4, <1>5, Zenon
<1>7. ASSUME NEW t \in Tree \ {Nil} PROVE MinValueNode[t] = Body(MinValueNode, t)
  BY <1>6, Zenon
<1> QED BY <1>7, Zenon DEF Body

\* The equation of Found.
LEMMA FoundDef ==
    \A t \in Tree : Found[t] = 
        [e \in TreeEntries |->
           IF t = Nil THEN FALSE
           ELSE IF Before(e, t) THEN Found[t.left][e]
           ELSE IF Before(t, e) THEN Found[t.right][e]
           ELSE TRUE]
<1> DEFINE Body(F, t) == 
               [e \in TreeEntries |->
                  IF t = Nil THEN FALSE
                  ELSE IF Before(e, t) THEN F[t.left][e]
                  ELSE IF Before(t, e) THEN F[t.right][e]
                  ELSE TRUE]
           Eq(S, F) == F = [t \in S |-> Body(F, t)]
           D(n) == Trees[n]
           U == {n \in Nat : \E F : Eq(D(n), F)}
<1>1. 0 \in U
  <2> DEFINE F == [t \in D(0) |-> [e \in TreeEntries |-> FALSE]]
  <2>1. ASSUME NEW t \in D(0) PROVE F[t] = Body(F, t)
    BY TreesDef
  <2>2. Eq(D(0), F)
    <3>1. F = [t \in D(0) |-> F[t]]
      OBVIOUS
    <3> HIDE DEF F, Body, D
    <3> QED BY <2>1, <3>1, Zenon
  <2> HIDE DEF F, Eq, D
  <2> QED BY <2>2
<1>2. ASSUME NEW n \in Nat, n \in U PROVE n + 1 \in U
  <2>1. PICK F : Eq(D(n), F)
    BY <1>2
  <2> DEFINE H == [t \in D(n + 1) |-> Body(F, t)]
  <2>2. ASSUME NEW t \in D(n) PROVE H[t] = F[t]
    <3>1. t \in D(n + 1)
      BY TreesGrow
    <3> HIDE DEF Body, D
    <3> QED BY <2>1, <3>1, Zenon
  <2>3. ASSUME NEW t \in D(n + 1) PROVE Body(F, t) = Body(H, t)
    <3>1. t # Nil => t.left \in Trees[n] /\ t.right \in Trees[n]
      BY TreeParts
    <3> HIDE DEF H
    <3> QED BY <2>2, <3>1
  <2>4. Eq(D(n + 1), H)
    <3>1. ASSUME NEW t \in D(n + 1) PROVE H[t] = Body(H, t)
      <4>1. H[t] = Body(F, t)
        BY Zenon
      <4> HIDE DEF H, Body, D
      <4> QED BY <2>3, <4>1, Zenon
    <3>2. H = [t \in D(n + 1) |-> H[t]]
      BY Zenon
    <3> HIDE DEF H, Body, D
    <3> QED BY <3>1, <3>2, Zenon
  <2> HIDE DEF H, Eq, D
  <2> QED BY <2>4
<1>3. Nat \subseteq U
  <2> HIDE DEF U
  <2> QED BY <1>1, <1>2, SetInduction
<1>4. \E F : Eq(Tree, F)
  <2>1. Levels \in U /\ D(Levels) = Tree
    BY <1>3, LevelsNat
  <2> HIDE DEF Body, D
  <2> QED BY <2>1
<1>5. Found = CHOOSE F : Eq(Tree, F)
  BY DEF Found
<1> HIDE DEF Body, D
<1>6. Eq(Tree, Found)
  <2> HIDE DEF Eq
  <2> QED BY <1>4, <1>5, Zenon
<1>7. ASSUME NEW t \in Tree PROVE Found[t] = Body(Found, t)
  BY <1>6, Zenon
<1> QED BY <1>7, Zenon DEF Body

\* The equation of InsertNode.
LEMMA InsertNodeDef ==
    \A t \in Tree : InsertNode[t] = 
        [e \in TreeEntries |->
           IF t = Nil
           THEN [key |-> e.key, score |-> e.score, height |-> 1, left |-> Nil, right |-> Nil]
           ELSE IF Before(e, t) THEN GrownBy(e, [t EXCEPT !.left = InsertNode[@][e]])
           ELSE IF Before(t, e) THEN GrownBy(e, [t EXCEPT !.right = InsertNode[@][e]])
           ELSE t]
<1> DEFINE Body(F, t) == 
               [e \in TreeEntries |->
                  IF t = Nil
                  THEN [key |-> e.key, score |-> e.score, height |-> 1, left |-> Nil, right |-> Nil]
                  ELSE IF Before(e, t) THEN GrownBy(e, [t EXCEPT !.left = F[@][e]])
                  ELSE IF Before(t, e) THEN GrownBy(e, [t EXCEPT !.right = F[@][e]])
                  ELSE t]
           Eq(S, F) == F = [t \in S |-> Body(F, t)]
           D(n) == Trees[n]
           U == {n \in Nat : \E F : Eq(D(n), F)}
<1>1. 0 \in U
  <2> DEFINE F == [t \in D(0) |-> [e \in TreeEntries |->
        [key |-> e.key, score |-> e.score, height |-> 1, left |-> Nil, right |-> Nil]]]
  <2>1. ASSUME NEW t \in D(0) PROVE F[t] = Body(F, t)
    BY TreesDef
  <2>2. Eq(D(0), F)
    <3>1. F = [t \in D(0) |-> F[t]]
      OBVIOUS
    <3> HIDE DEF F, Body, D
    <3> QED BY <2>1, <3>1, Zenon
  <2> HIDE DEF F, Eq, D
  <2> QED BY <2>2
<1>2. ASSUME NEW n \in Nat, n \in U PROVE n + 1 \in U
  <2>1. PICK F : Eq(D(n), F)
    BY <1>2
  <2> DEFINE H == [t \in D(n + 1) |-> Body(F, t)]
  <2>2. ASSUME NEW t \in D(n) PROVE H[t] = F[t]
    <3>1. t \in D(n + 1)
      BY TreesGrow
    <3> HIDE DEF Body, D
    <3> QED BY <2>1, <3>1, Zenon
  <2>3. ASSUME NEW t \in D(n + 1) PROVE Body(F, t) = Body(H, t)
    <3>1. t # Nil => t.left \in Trees[n] /\ t.right \in Trees[n]
      BY TreeParts
    <3> HIDE DEF H
    <3> QED BY <2>2, <3>1
  <2>4. Eq(D(n + 1), H)
    <3>1. ASSUME NEW t \in D(n + 1) PROVE H[t] = Body(H, t)
      <4>1. H[t] = Body(F, t)
        BY Zenon
      <4> HIDE DEF H, Body, D
      <4> QED BY <2>3, <4>1, Zenon
    <3>2. H = [t \in D(n + 1) |-> H[t]]
      BY Zenon
    <3> HIDE DEF H, Body, D
    <3> QED BY <3>1, <3>2, Zenon
  <2> HIDE DEF H, Eq, D
  <2> QED BY <2>4
<1>3. Nat \subseteq U
  <2> HIDE DEF U
  <2> QED BY <1>1, <1>2, SetInduction
<1>4. \E F : Eq(Tree, F)
  <2>1. Levels \in U /\ D(Levels) = Tree
    BY <1>3, LevelsNat
  <2> HIDE DEF Body, D
  <2> QED BY <2>1
<1>5. InsertNode = CHOOSE F : Eq(Tree, F)
  BY DEF InsertNode
<1> HIDE DEF Body, D
<1>6. Eq(Tree, InsertNode)
  <2> HIDE DEF Eq
  <2> QED BY <1>4, <1>5, Zenon
<1>7. ASSUME NEW t \in Tree PROVE InsertNode[t] = Body(InsertNode, t)
  BY <1>6, Zenon
<1> QED BY <1>7, Zenon DEF Body

\* The equation of DeleteNode.
LEMMA DeleteNodeDef ==
    \A t \in Tree : DeleteNode[t] = 
        [e \in TreeEntries |->
           IF t = Nil THEN Nil
           ELSE IF Before(e, t) THEN Shrunk([t EXCEPT !.left = DeleteNode[@][e]])
           ELSE IF Before(t, e) THEN Shrunk([t EXCEPT !.right = DeleteNode[@][e]])
           ELSE IF t.left = Nil THEN Shrunk(t.right)
           ELSE IF t.right = Nil THEN Shrunk(t.left)
           ELSE LET least == MinValueNode[t.right] IN
                Shrunk([t EXCEPT !.key = least.key, !.score = least.score,
                                 !.right = DeleteNode[@][Entry(least.key, least.score)]])]
<1> DEFINE Body(F, t) == 
               [e \in TreeEntries |->
                  IF t = Nil THEN Nil
                  ELSE IF Before(e, t) THEN Shrunk([t EXCEPT !.left = F[@][e]])
                  ELSE IF Before(t, e) THEN Shrunk([t EXCEPT !.right = F[@][e]])
                  ELSE IF t.left = Nil THEN Shrunk(t.right)
                  ELSE IF t.right = Nil THEN Shrunk(t.left)
                  ELSE LET least == MinValueNode[t.right] IN
                       Shrunk([t EXCEPT !.key = least.key, !.score = least.score,
                                        !.right = F[@][Entry(least.key, least.score)]])]
           Eq(S, F) == F = [t \in S |-> Body(F, t)]
           D(n) == Trees[n]
           U == {n \in Nat : \E F : Eq(D(n), F)}
<1>1. 0 \in U
  <2> DEFINE F == [t \in D(0) |-> [e \in TreeEntries |-> Nil]]
  <2>1. ASSUME NEW t \in D(0) PROVE F[t] = Body(F, t)
    BY TreesDef
  <2>2. Eq(D(0), F)
    <3>1. F = [t \in D(0) |-> F[t]]
      OBVIOUS
    <3> HIDE DEF F, Body, D
    <3> QED BY <2>1, <3>1, Zenon
  <2> HIDE DEF F, Eq, D
  <2> QED BY <2>2
<1>2. ASSUME NEW n \in Nat, n \in U PROVE n + 1 \in U
  <2>1. PICK F : Eq(D(n), F)
    BY <1>2
  <2> DEFINE H == [t \in D(n + 1) |-> Body(F, t)]
  <2>2. ASSUME NEW t \in D(n) PROVE H[t] = F[t]
    <3>1. t \in D(n + 1)
      BY TreesGrow
    <3> HIDE DEF Body, D
    <3> QED BY <2>1, <3>1, Zenon
  <2>3. ASSUME NEW t \in D(n + 1) PROVE Body(F, t) = Body(H, t)
    <3>1. t # Nil => t.left \in Trees[n] /\ t.right \in Trees[n]
      BY TreeParts
    <3> HIDE DEF H
    <3> QED BY <2>2, <3>1
  <2>4. Eq(D(n + 1), H)
    <3>1. ASSUME NEW t \in D(n + 1) PROVE H[t] = Body(H, t)
      <4>1. H[t] = Body(F, t)
        BY Zenon
      <4> HIDE DEF H, Body, D
      <4> QED BY <2>3, <4>1, Zenon
    <3>2. H = [t \in D(n + 1) |-> H[t]]
      BY Zenon
    <3> HIDE DEF H, Body, D
    <3> QED BY <3>1, <3>2, Zenon
  <2> HIDE DEF H, Eq, D
  <2> QED BY <2>4
<1>3. Nat \subseteq U
  <2> HIDE DEF U
  <2> QED BY <1>1, <1>2, SetInduction
<1>4. \E F : Eq(Tree, F)
  <2>1. Levels \in U /\ D(Levels) = Tree
    BY <1>3, LevelsNat
  <2> HIDE DEF Body, D
  <2> QED BY <2>1
<1>5. DeleteNode = CHOOSE F : Eq(Tree, F)
  BY DEF DeleteNode
<1> HIDE DEF Body, D
<1>6. Eq(Tree, DeleteNode)
  <2> HIDE DEF Eq
  <2> QED BY <1>4, <1>5, Zenon
<1>7. ASSUME NEW t \in Tree PROVE DeleteNode[t] = Body(DeleteNode, t)
  BY <1>6, Zenon
<1> QED BY <1>7, Zenon DEF Body
-----------------------------------------------------------------------------
(***************************************************************************)
(* Balanced trees, and how they are put together.                           *)
(***************************************************************************)
Higher(a, b) == IF a > b THEN a ELSE b

\* A node with the height its subtrees give it.
Joined(k, s, l, r) == Made(k, s, 1 + Higher(Height(l), Height(r)), l, r)

\* A balanced tree of height h.
AvlOf(t, h) == h \in 0..Levels /\ t \in Trees[h] /\ IsBalanced[t] /\ Height(t) = h

\* AVL trees are trees.
LEMMA AvlInTree ==
    ASSUME NEW t, NEW h, AvlOf(t, h)
    PROVE  t \in Tree /\ h \in Nat /\ h <= Levels /\ Height(t) = h
<1>1. h \in Nat /\ h <= Levels
  BY LevelsNat DEF AvlOf
<1> QED BY <1>1, LevelsNat, TreesGrow DEF AvlOf

\* get_height of a null pointer.
LEMMA NilHeight == Height(Nil) = 0
BY DEF Height

\* The empty tree is an AVL tree.
LEMMA AvlNil == AvlOf(Nil, 0)
<1>1. Nil \in Tree /\ 0 \in 0..Levels
  BY LevelsNat, NilTree
<1>2. IsBalanced[Nil]
  BY <1>1, IsBalancedDef
<1> QED BY <1>1, <1>2, NilTree, NilHeight DEF AvlOf

\* update_height and an assignment to a child of a node.
LEMMA MadeFields ==
    ASSUME NEW k, NEW s, NEW h, NEW l, NEW r, NEW x
    PROVE  /\ UpdateHeight(Made(k, s, h, l, r)) = Joined(k, s, l, r)
           /\ [Made(k, s, h, l, r) EXCEPT !.left = x] = Made(k, s, h, x, r)
           /\ [Made(k, s, h, l, r) EXCEPT !.right = x] = Made(k, s, h, l, x)
           /\ Height(Made(k, s, h, l, r)) = h
           /\ Balance(Made(k, s, h, l, r)) = Height(l) - Height(r)
<1>1. Made(k, s, h, l, r) # Nil
  BY MadeNode
<1> QED BY <1>1 DEF Made, Joined, UpdateHeight, Height, Higher, Balance

\* Two balanced trees of about the same height make a balanced one.
LEMMA AvlJoin ==
    ASSUME NEW k \in Members, NEW s \in Scores, NEW l, NEW r, NEW i, NEW j,
           AvlOf(l, i), AvlOf(r, j), i - j \in -1..1, 1 + Higher(i, j) <= Levels
    PROVE  AvlOf(Joined(k, s, l, r), 1 + Higher(i, j))
<1> DEFINE t == Joined(k, s, l, r)
           h == Higher(i, j)
<1>1. /\ i \in Nat /\ j \in Nat /\ h \in Nat /\ i <= h /\ j <= h /\ 1 + h \in 0..Levels
      /\ Height(l) = i /\ Height(r) = j
  BY AvlInTree, LevelsNat DEF Higher
<1>2. l \in Trees[h] /\ r \in Trees[h]
  <2>1. l \in Trees[i] /\ r \in Trees[j]
    BY DEF AvlOf
  <2> HIDE DEF h
  <2> QED BY <1>1, <2>1, TreesGrow
<1>3. t = Made(k, s, 1 + h, l, r)
  BY <1>1 DEF Joined
<1> HIDE DEF t, h
<1>4. t \in Trees[h + 1] /\ h + 1 = 1 + h
  BY <1>1, <1>2, <1>3, MadeTree
<1>5. Height(t) = 1 + h /\ t.left = l /\ t.right = r /\ t # Nil
  BY <1>3, MadeFields, MadeNode
<1>6. t = UpdateHeight(t) /\ Balance(t) = i - j
  BY <1>1, <1>3, MadeFields DEF t
<1>7. t \in Tree
  BY <1>1, <1>4, TreesGrow, LevelsNat
<1>8. IsBalanced[t]
  <2>1. Balance(t) \in -1..1
    BY <1>6
  <2>2. IsBalanced[l] /\ IsBalanced[r]
    BY DEF AvlOf
  <2> QED BY <1>5, <1>6, <1>7, <2>1, <2>2, IsBalancedDef, Zenon
<1> QED BY <1>1, <1>4, <1>5, <1>8 DEF AvlOf, t, h

\* A balanced tree has no more levels than its height says.
LEMMA BalancedLevels ==
    ASSUME NEW n \in Nat, n <= Levels, NEW t \in Trees[n], IsBalanced[t]
    PROVE  AvlOf(t, Height(t))
<1> DEFINE S == {i \in Nat : i <= Levels => \A u \in Trees[i] : IsBalanced[u] => AvlOf(u, Height(u)) /\ Height(u) <= i}
<1>1. 0 \in S
  BY TreesDef, AvlNil, NilHeight
<1>2. ASSUME NEW i \in Nat, i \in S PROVE i + 1 \in S
  <2>1. SUFFICES ASSUME i + 1 <= Levels, NEW u \in Trees[i + 1], IsBalanced[u], u # Nil
                 PROVE  AvlOf(u, Height(u)) /\ Height(u) <= i + 1
    BY AvlNil, NilHeight
  <2>2. u \in Tree
    BY <2>1, LevelsNat, TreesGrow
  <2>3. /\ u.key \in Members /\ u.score \in Scores
        /\ u.left \in Trees[i] /\ u.right \in Trees[i]
        /\ u = Made(u.key, u.score, u.height, u.left, u.right)
    BY <2>1, TreeParts
  <2>4. u = UpdateHeight(u) /\ Balance(u) \in -1..1 /\ IsBalanced[u.left] /\ IsBalanced[u.right]
    BY <2>1, <2>2, IsBalancedDef
  <2>5. u = Joined(u.key, u.score, u.left, u.right) /\ Balance(u) = Height(u.left) - Height(u.right)
    BY <2>3, <2>4, MadeFields
  <2>6. /\ AvlOf(u.left, Height(u.left)) /\ AvlOf(u.right, Height(u.right))
        /\ Height(u.left) <= i /\ Height(u.right) <= i
    BY <1>2, <2>1, <2>3, <2>4, LevelsNat
  <2>7. Height(u) = 1 + Higher(Height(u.left), Height(u.right))
    BY <2>5, MadeFields DEF Joined
  <2>8. Height(u.left) \in Nat /\ Height(u.right) \in Nat
    BY <2>6, AvlInTree
  <2>9. 1 + Higher(Height(u.left), Height(u.right)) <= i + 1
    BY <2>6, <2>8 DEF Higher
  <2>10. 1 + Higher(Height(u.left), Height(u.right)) <= Levels
    BY <2>1, <2>8, <2>9, LevelsNat DEF Higher
  <2>11. AvlOf(u, 1 + Higher(Height(u.left), Height(u.right)))
    BY <2>3, <2>4, <2>5, <2>6, <2>10, AvlJoin
  <2> QED BY <2>7, <2>9, <2>11
<1>3. Nat \subseteq S
  <2> HIDE DEF S
  <2> QED BY <1>1, <1>2, SetInduction
<1> QED BY <1>3

\* A balanced tree that is not empty is made of two.
LEMMA AvlSplit ==
    ASSUME NEW t, NEW h, AvlOf(t, h), t # Nil
    PROVE  /\ t.key \in Members /\ t.score \in Scores
           /\ t = Joined(t.key, t.score, t.left, t.right)
           /\ \E i, j \in Nat :
                /\ AvlOf(t.left, i) /\ AvlOf(t.right, j)
                /\ i - j \in -1..1 /\ h = 1 + Higher(i, j)
<1>1. h \in Nat /\ h <= Levels /\ t \in Trees[h] /\ Height(t) = h /\ t \in Tree
  BY AvlInTree DEF AvlOf
<1>2. h # 0
  BY <1>1, TreesDef
<1>3. h - 1 \in Nat /\ (h - 1) + 1 = h
  BY <1>1, <1>2
<1>4. /\ t.key \in Members /\ t.score \in Scores /\ t.height \in Nat
      /\ t.left \in Trees[h - 1] /\ t.right \in Trees[h - 1]
      /\ t = Made(t.key, t.score, t.height, t.left, t.right)
  BY <1>1, <1>3, TreeParts
<1>5. t = UpdateHeight(t) /\ Balance(t) \in -1..1 /\ IsBalanced[t.left] /\ IsBalanced[t.right]
  BY <1>1, IsBalancedDef DEF AvlOf
<1>6. t = Joined(t.key, t.score, t.left, t.right)
  BY <1>4, <1>5, MadeFields
<1>7. /\ Balance(t) = Height(t.left) - Height(t.right)
      /\ Height(t) = 1 + Higher(Height(t.left), Height(t.right))
  BY <1>6, MadeFields DEF Joined
<1>8. AvlOf(t.left, Height(t.left)) /\ AvlOf(t.right, Height(t.right))
  <2>1. h - 1 <= Levels
    BY <1>1, LevelsNat
  <2> QED BY <1>3, <1>4, <1>5, <2>1, BalancedLevels
<1>9. Height(t.left) \in Nat /\ Height(t.right) \in Nat
  BY <1>8, AvlInTree
<1> QED BY <1>1, <1>4, <1>5, <1>6, <1>7, <1>8, <1>9

\* A set of trees that has the empty one, and each one whose subtrees it has, has all
\* balanced trees.
LEMMA AvlInduction ==
    ASSUME NEW S, Nil \in S,
           ASSUME NEW t, NEW h, AvlOf(t, h), t # Nil, t.left \in S, t.right \in S
           PROVE  t \in S,
           NEW u, NEW g, AvlOf(u, g)
    PROVE  u \in S
<1> DEFINE U == {n \in Nat : \A t \in Trees[n] : (\E h : AvlOf(t, h)) => t \in S}
<1>1. 0 \in U
  BY TreesDef
<1>2. ASSUME NEW n \in Nat, n \in U PROVE n + 1 \in U
  <2>1. SUFFICES ASSUME NEW t \in Trees[n + 1], NEW h, AvlOf(t, h), t # Nil PROVE t \in S
    OBVIOUS
  <2>2. t.left \in Trees[n] /\ t.right \in Trees[n]
    BY <2>1, TreeParts
  <2>3. t.left \in S /\ t.right \in S
    BY <1>2, <2>1, <2>2, AvlSplit
  <2> QED BY <2>1, <2>3
<1>3. Nat \subseteq U
  <2> HIDE DEF U
  <2> QED BY <1>1, <1>2, SetInduction
<1>4. g \in Nat /\ u \in Trees[g]
  BY AvlInTree DEF AvlOf
<1> QED BY <1>3, <1>4
-----------------------------------------------------------------------------
(***************************************************************************)
(* What a tree has, and in which order.                                     *)
(***************************************************************************)
LEMMA BeforeOrder ==
    ASSUME NEW a \in TreeEntries, NEW b \in TreeEntries, NEW c \in TreeEntries
    PROVE  /\ ~ Before(a, a)
           /\ Before(a, b) => ~ Before(b, a)
           /\ Before(a, b) /\ Before(b, c) => Before(a, c)
           /\ Before(a, b) \/ Before(b, a) \/ a = b
<1>1. a.key \in Int /\ a.score \in Int /\ b.key \in Int /\ b.score \in Int /\ c.key \in Int /\ c.score \in Int
  BY ZSetAssumption DEF TreeEntries
<1>2. a = Entry(a.key, a.score) /\ b = Entry(b.key, b.score)
  BY DEF TreeEntries, Entry
<1>3. Before(a, b) \/ Before(b, a) \/ (a.key = b.key /\ a.score = b.score)
  BY <1>1 DEF Before
<1>4. ~ Before(a, a) /\ (Before(a, b) => ~ Before(b, a)) /\ (Before(a, b) /\ Before(b, c) => Before(a, c))
  BY <1>1 DEF Before
<1> QED BY <1>2, <1>3, <1>4

\* The fields of an entry.
LEMMA EntryOf ==
    ASSUME NEW k, NEW s
    PROVE  /\ Entry(k, s).key = k /\ Entry(k, s).score = s
           /\ k \in Members /\ s \in Scores => Entry(k, s) \in TreeEntries
BY DEF Entry, TreeEntries

\* A comparison with a node is one with its entry.
LEMMA BeforeNode ==
    ASSUME NEW e, NEW t
    PROVE  /\ Before(e, t) <=> Before(e, Entry(t.key, t.score))
           /\ Before(t, e) <=> Before(Entry(t.key, t.score), e)
BY DEF Before, Entry

\* The entries come one before the other.
Sorted(q) == \A i, j \in 1..Len(q) : i < j => Before(q[i], q[j])

\* A sequence that starts with the ones of a, then has x and then those of b.
LEMMA Pieces ==
    ASSUME NEW a \in Seq(TreeEntries), NEW b \in Seq(TreeEntries), NEW x \in TreeEntries
    PROVE  LET q == a \o <<x>> \o b IN
           /\ q \in Seq(TreeEntries) /\ Len(q) = Len(a) + 1 + Len(b)
           /\ \A i \in 1..Len(a) : q[i] = a[i]
           /\ q[Len(a) + 1] = x
           /\ \A i \in 1..Len(b) : q[Len(a) + 1 + i] = b[i]
<1> DEFINE p == a \o <<x>>
           q == p \o b
<1>1. Len(a) \in Nat /\ Len(b) \in Nat
  OBVIOUS
<1>2. /\ p \in Seq(TreeEntries) /\ Len(p) = Len(a) + 1
      /\ \A i \in 1..Len(a) : p[i] = a[i]
      /\ p[Len(a) + 1] = x
  OBVIOUS
<1> HIDE DEF p
<1>3. q \in Seq(TreeEntries) /\ Len(q) = Len(p) + Len(b)
  BY <1>2
<1>4. \A i \in 1..Len(p) : q[i] = p[i]
  BY <1>2
<1>5. ASSUME NEW i \in 1..Len(b) PROVE q[Len(p) + i] = b[i]
  BY <1>1, <1>2
<1> HIDE DEF q
<1>6. /\ Len(q) = Len(a) + 1 + Len(b)
      /\ \A i \in 1..Len(a) : q[i] = a[i]
      /\ q[Len(a) + 1] = x
      /\ \A i \in 1..Len(b) : q[Len(a) + 1 + i] = b[i]
  BY <1>1, <1>2, <1>3, <1>4, <1>5
<1> QED BY <1>3, <1>6 DEF p, q

\* ToSet without Range.
LEMMA ToSetIs == ASSUME NEW q PROVE ToSet(q) = {q[i] : i \in 1..Len(q)}
BY DEF ToSet

\* What a traversal in three pieces visits.
LEMMA PiecesHave ==
    ASSUME NEW a \in Seq(TreeEntries), NEW b \in Seq(TreeEntries), NEW x \in TreeEntries
    PROVE  ToSet(a \o <<x>> \o b) = ToSet(a) \cup {x} \cup ToSet(b)
<1> DEFINE q == a \o <<x>> \o b
<1>1. /\ q \in Seq(TreeEntries) /\ Len(q) = Len(a) + 1 + Len(b)
      /\ \A i \in 1..Len(a) : q[i] = a[i]
      /\ q[Len(a) + 1] = x
      /\ \A i \in 1..Len(b) : q[Len(a) + 1 + i] = b[i]
  BY Pieces
<1>2. /\ ToSet(q) = {q[i] : i \in 1..Len(q)}
      /\ ToSet(a) = {a[i] : i \in 1..Len(a)} /\ ToSet(b) = {b[i] : i \in 1..Len(b)}
  BY ToSetIs, Zenon
<1> HIDE DEF q
<1>3. Len(a) \in Nat /\ Len(b) \in Nat
  OBVIOUS
<1>4. ASSUME NEW i \in 1..Len(q) PROVE q[i] \in ToSet(a) \cup {x} \cup ToSet(b)
  <2>1. CASE i <= Len(a)
    BY <1>1, <1>2, <1>3, <2>1
  <2>2. CASE i = Len(a) + 1
    BY <1>1, <2>2
  <2>3. CASE i > Len(a) + 1
    <3>1. PICK k \in 1..Len(b) : i = Len(a) + 1 + k
      <4>1. Len(q) = Len(a) + 1 + Len(b) /\ i \in Nat /\ i <= Len(q)
        BY <1>1
      <4>2. i - (Len(a) + 1) \in 1..Len(b) /\ i = Len(a) + 1 + (i - (Len(a) + 1))
        BY <1>3, <2>3, <4>1
      <4> QED BY <4>2
    <3>2. q[i] = b[k] /\ b[k] \in ToSet(b)
      BY <1>1, <1>2, <3>1, Zenon
    <3> QED BY <3>2
  <2> QED BY <1>3, <2>1, <2>2, <2>3
<1>5. ASSUME NEW i \in 1..Len(a) PROVE a[i] \in ToSet(q)
  BY <1>1, <1>2, <1>3
<1>6. x \in ToSet(q)
  BY <1>1, <1>2, <1>3
<1>7. ASSUME NEW i \in 1..Len(b) PROVE b[i] \in ToSet(q)
  <2>1. Len(a) + 1 + i \in 1..Len(q)
    BY <1>1, <1>3
  <2> QED BY <1>1, <1>2, <2>1
<1>8. ToSet(q) = ToSet(a) \cup {x} \cup ToSet(b)
  BY <1>2, <1>4, <1>5, <1>6, <1>7
<1> QED BY <1>8 DEF q

\* It is in order when the pieces are and the middle lies between them.
LEMMA PiecesSorted ==
    ASSUME NEW a \in Seq(TreeEntries), NEW b \in Seq(TreeEntries), NEW x \in TreeEntries
    PROVE  Sorted(a \o <<x>> \o b) <=>
             /\ Sorted(a) /\ Sorted(b)
             /\ \A y \in ToSet(a) : Before(y, x)
             /\ \A y \in ToSet(b) : Before(x, y)
<1> DEFINE q == a \o <<x>> \o b
           n == Len(a) + 1
<1>1. /\ q \in Seq(TreeEntries) /\ Len(q) = n + Len(b)
      /\ \A i \in 1..Len(a) : q[i] = a[i]
      /\ q[n] = x
      /\ \A i \in 1..Len(b) : q[n + i] = b[i]
  BY Pieces
<1>2. ToSet(a) = {a[i] : i \in 1..Len(a)} /\ ToSet(b) = {b[i] : i \in 1..Len(b)}
  BY ToSetIs
<1>3. Len(a) \in Nat /\ Len(b) \in Nat /\ n = Len(a) + 1
  OBVIOUS
<1> HIDE DEF q, n
<1>4. ASSUME Sorted(q)
      PROVE  /\ Sorted(a) /\ Sorted(b)
             /\ \A y \in ToSet(a) : Before(y, x)
             /\ \A y \in ToSet(b) : Before(x, y)
  <2>1. ASSUME NEW i \in 1..Len(a), NEW j \in 1..Len(a), i < j PROVE Before(a[i], a[j])
    BY <1>1, <1>3, <1>4, <2>1 DEF Sorted
  <2>2. ASSUME NEW i \in 1..Len(b), NEW j \in 1..Len(b), i < j PROVE Before(b[i], b[j])
    <3>1. n + i \in 1..Len(q) /\ n + j \in 1..Len(q) /\ n + i < n + j
      BY <1>1, <1>3, <2>2
    <3> QED BY <1>1, <1>4, <3>1 DEF Sorted
  <2>3. ASSUME NEW i \in 1..Len(a) PROVE Before(a[i], x)
    <3>1. i \in 1..Len(q) /\ n \in 1..Len(q) /\ i < n
      BY <1>1, <1>3
    <3> QED BY <1>1, <1>4, <3>1 DEF Sorted
  <2>4. ASSUME NEW i \in 1..Len(b) PROVE Before(x, b[i])
    <3>1. n \in 1..Len(q) /\ n + i \in 1..Len(q) /\ n < n + i
      BY <1>1, <1>3
    <3> QED BY <1>1, <1>4, <3>1 DEF Sorted
  <2> QED BY <1>2, <2>1, <2>2, <2>3, <2>4 DEF Sorted
<1>5. ASSUME Sorted(a), Sorted(b), \A y \in ToSet(a) : Before(y, x), \A y \in ToSet(b) : Before(x, y)
      PROVE  Sorted(q)
  <2>1. SUFFICES ASSUME NEW i \in 1..Len(q), NEW j \in 1..Len(q), i < j PROVE Before(q[i], q[j])
    BY DEF Sorted
  <2>2. CASE j <= Len(a)
    <3>1. i \in 1..Len(a) /\ j \in 1..Len(a)
      BY <1>3, <2>1, <2>2
    <3> QED BY <1>1, <1>5, <2>1, <3>1 DEF Sorted
  <2>3. CASE j = n
    <3>1. i \in 1..Len(a)
      BY <1>3, <2>1, <2>3
    <3>2. q[i] \in ToSet(a)
      BY <1>1, <1>2, <3>1
    <3> QED BY <1>1, <1>5, <2>3, <3>2
  <2>4. CASE j > n
    <3>1. PICK k \in 1..Len(b) : j = n + k
      <4>1. j - n \in 1..Len(b) /\ j = n + (j - n)
        BY <1>1, <1>3, <2>4
      <4> QED BY <4>1
    <3>2. q[j] = b[k] /\ b[k] \in ToSet(b)
      BY <1>1, <1>2, <3>1, Zenon
    <3>3. Before(x, q[j])
      BY <1>5, <3>2
    <3>4. x \in TreeEntries /\ q[j] \in TreeEntries
      BY <1>1, <3>2, <3>1
    <3>5. CASE i <= Len(a)
      <4>1. i \in 1..Len(a)
        BY <1>3, <3>5
      <4>2. q[i] = a[i] /\ a[i] \in ToSet(a) /\ a[i] \in TreeEntries
        BY <1>1, <1>2, <4>1
      <4>3. Before(q[i], x)
        BY <1>5, <4>2
      <4> QED BY <3>3, <3>4, <4>2, <4>3, BeforeOrder
    <3>6. CASE i = n
      BY <1>1, <3>3, <3>6
    <3>7. CASE i > n
      <4>1. PICK m \in 1..Len(b) : i = n + m
        <5>1. i - n \in 1..Len(b) /\ i = n + (i - n)
          BY <1>1, <1>3, <3>7
        <5> QED BY <5>1
      <4>2. m < k
        BY <1>3, <2>1, <3>1, <4>1
      <4>3. q[i] = b[m]
        BY <1>1, <4>1, Zenon
      <4> QED BY <1>5, <3>2, <4>2, <4>3 DEF Sorted
    <3> QED BY <1>3, <3>5, <3>6, <3>7
  <2> QED BY <1>3, <2>2, <2>3, <2>4
<1>6. Sorted(q) <=> /\ Sorted(a) /\ Sorted(b)
                    /\ \A y \in ToSet(a) : Before(y, x)
                    /\ \A y \in ToSet(b) : Before(x, y)
  BY <1>4, <1>5
<1> QED BY <1>6 DEF q

Held(t) == ToSet(InOrder[t])

SortedTree(t) == Sorted(InOrder[t])

\* What a node with these parts holds, and when it is sorted.
All(l, k, s, r) == Held(l) \cup {Entry(k, s)} \cup Held(r)

Piled(l, k, s, r) ==
    /\ SortedTree(l) /\ SortedTree(r)
    /\ \A y \in Held(l) : Before(y, Entry(k, s))
    /\ \A y \in Held(r) : Before(Entry(k, s), y)

\* A traversal visits entries.
LEMMA InOrderType == ASSUME NEW t \in Tree PROVE InOrder[t] \in Seq(TreeEntries)
<1> DEFINE S == {n \in Nat : n <= Levels => \A u \in Trees[n] : InOrder[u] \in Seq(TreeEntries)}
<1>1. InOrder[Nil] = <<>> /\ <<>> \in Seq(TreeEntries)
  <2>1. Nil \in Tree
    BY NilTree, LevelsNat
  <2>2. InOrder[Nil] = <<>>
    BY <2>1, InOrderDef, Zenon
  <2> QED BY <2>2
<1>2. 0 \in S
  BY <1>1, TreesDef
<1>3. ASSUME NEW n \in Nat, n \in S PROVE n + 1 \in S
  <2>1. SUFFICES ASSUME n + 1 <= Levels, NEW u \in Trees[n + 1] PROVE InOrder[u] \in Seq(TreeEntries)
    OBVIOUS
  <2>2. u \in Tree
    BY <2>1, LevelsNat, TreesGrow
  <2>3. CASE u = Nil
    BY <1>1, <2>3
  <2>4. CASE u # Nil
    <3>1. u.key \in Members /\ u.score \in Scores /\ u.left \in Trees[n] /\ u.right \in Trees[n]
      BY <2>4, TreeParts
    <3>2. InOrder[u.left] \in Seq(TreeEntries) /\ InOrder[u.right] \in Seq(TreeEntries)
      BY <1>3, <2>1, <3>1, LevelsNat
    <3>3. Entry(u.key, u.score) \in TreeEntries
      BY <3>1, EntryOf
    <3>4. InOrder[u] = InOrder[u.left] \o <<Entry(u.key, u.score)>> \o InOrder[u.right]
      BY <2>2, <2>4, InOrderDef
    <3> QED BY <3>2, <3>3, <3>4, Pieces
  <2> QED BY <2>3, <2>4
<1>4. Nat \subseteq S
  <2> HIDE DEF S
  <2> QED BY <1>2, <1>3, SetInduction
<1> QED BY <1>4, LevelsNat

\* A tree holds entries.
LEMMA HeldEntries == ASSUME NEW t \in Tree PROVE Held(t) \subseteq TreeEntries
<1>1. InOrder[t] \in Seq(TreeEntries)
  BY InOrderType
<1>2. Held(t) = {InOrder[t][i] : i \in 1..Len(InOrder[t])}
  BY ToSetIs DEF Held
<1> QED BY <1>1, <1>2

\* The empty tree holds none.
LEMMA NilHeld == Held(Nil) = {} /\ SortedTree(Nil) /\ InOrder[Nil] = <<>>
<1>1. InOrder[Nil] = <<>>
  BY NilTree, LevelsNat, InOrderDef
<1>2. ToSet(<<>>) = {<<>>[i] : i \in 1..Len(<<>>)}
  BY ToSetIs
<1>3. 1..Len(<<>>) = {}
  OBVIOUS
<1> QED BY <1>1, <1>2, <1>3 DEF Held, SortedTree, Sorted

\* What a node above two trees holds, and when that is in order.
LEMMA JoinedHeld ==
    ASSUME NEW k \in Members, NEW s \in Scores, NEW l \in Tree, NEW r \in Tree,
           Joined(k, s, l, r) \in Tree
    PROVE  /\ InOrder[Joined(k, s, l, r)] = InOrder[l] \o <<Entry(k, s)>> \o InOrder[r]
           /\ Held(Joined(k, s, l, r)) = All(l, k, s, r)
           /\ SortedTree(Joined(k, s, l, r)) <=> Piled(l, k, s, r)
<1> DEFINE t == Joined(k, s, l, r)
<1>1. t # Nil /\ t.key = k /\ t.score = s /\ t.left = l /\ t.right = r
  BY MadeNode DEF Joined
<1>2. InOrder[t] = InOrder[l] \o <<Entry(k, s)>> \o InOrder[r]
  <2> HIDE DEF t
  <2> QED BY <1>1, InOrderDef DEF t
<1>3. InOrder[l] \in Seq(TreeEntries) /\ InOrder[r] \in Seq(TreeEntries) /\ Entry(k, s) \in TreeEntries
  BY InOrderType, EntryOf
<1> HIDE DEF t
<1>4. Held(t) = All(l, k, s, r)
  BY <1>2, <1>3, PiecesHave DEF Held, All
<1>5. SortedTree(t) <=> Piled(l, k, s, r)
  <2> DEFINE a == InOrder[l]
             b == InOrder[r]
  <2>1. Sorted(a \o <<Entry(k, s)>> \o b) <=>
          /\ Sorted(a) /\ Sorted(b)
          /\ \A y \in ToSet(a) : Before(y, Entry(k, s))
          /\ \A y \in ToSet(b) : Before(Entry(k, s), y)
    <3> HIDE DEF a, b
    <3> QED BY <1>3, PiecesSorted DEF a, b
  <2> QED BY <1>2, <2>1, Zenon DEF Held, SortedTree, Piled
<1> QED BY <1>2, <1>4, <1>5 DEF t

\* The parts of a balanced tree.
LEMMA AvlParts ==
    ASSUME NEW t, NEW h, AvlOf(t, h), t # Nil
    PROVE  /\ t.left \in Tree /\ t.right \in Tree
           /\ Entry(t.key, t.score) \in TreeEntries
           /\ InOrder[t] = InOrder[t.left] \o <<Entry(t.key, t.score)>> \o InOrder[t.right]
           /\ Held(t) = All(t.left, t.key, t.score, t.right)
           /\ SortedTree(t) <=> Piled(t.left, t.key, t.score, t.right)
<1>1. t.key \in Members /\ t.score \in Scores /\ t = Joined(t.key, t.score, t.left, t.right)
  BY AvlSplit
<1>2. t \in Tree /\ t.left \in Tree /\ t.right \in Tree
  BY AvlSplit, AvlInTree
<1>3. LET u == Joined(t.key, t.score, t.left, t.right) IN
      /\ InOrder[u] = InOrder[t.left] \o <<Entry(t.key, t.score)>> \o InOrder[t.right]
      /\ Held(u) = All(t.left, t.key, t.score, t.right)
      /\ SortedTree(u) <=> Piled(t.left, t.key, t.score, t.right)
  BY ZenonT(30), <1>1, <1>2, JoinedHeld
<1> QED BY <1>1, <1>2, <1>3, EntryOf
-----------------------------------------------------------------------------
(***************************************************************************)
(* Rotations.                                                               *)
(***************************************************************************)
\* A balanced, sorted tree of height h that holds the entries in S.
AvlWith(t, h, S) == AvlOf(t, h) /\ SortedTree(t) /\ Held(t) = S

\* t holds what its two parts and the entry between them do.
Between(t, l, k, s, r) ==
    Held(t) = All(l, k, s, r) /\ (SortedTree(t) <=> Piled(l, k, s, r))

\* A node lies between its subtrees.
LEMMA AvlBetween ==
    ASSUME NEW t, NEW h, AvlOf(t, h), t # Nil
    PROVE  Between(t, t.left, t.key, t.score, t.right)
BY AvlParts DEF Between

\* So does one that is made above two trees.
LEMMA JoinedBetween ==
    ASSUME NEW k \in Members, NEW s \in Scores, NEW l \in Tree, NEW r \in Tree,
           Joined(k, s, l, r) \in Tree
    PROVE  Between(Joined(k, s, l, r), l, k, s, r)
BY JoinedHeld DEF Between

\* u has the first two of the parts a, b and c, and v the last two.
Grouped(u, v, a, k1, s1, b, k2, s2, c) ==
    /\ a \in Tree /\ b \in Tree /\ c \in Tree
    /\ k1 \in Members /\ s1 \in Scores /\ k2 \in Members /\ s2 \in Scores
    /\ Between(u, a, k1, s1, b) /\ Between(v, b, k2, s2, c)

\* Three parts with two entries between them may be grouped either way.
LEMMA Regrouped ==
    ASSUME NEW u, NEW v, NEW a, NEW b, NEW c, NEW k1, NEW s1, NEW k2, NEW s2,
           Grouped(u, v, a, k1, s1, b, k2, s2, c)
    PROVE  /\ Piled(u, k2, s2, c) <=> Piled(a, k1, s1, v)
           /\ All(u, k2, s2, c) = All(a, k1, s1, v)
<1> DEFINE e1 == Entry(k1, s1)
           e2 == Entry(k2, s2)
<1>1. e1 \in TreeEntries /\ e2 \in TreeEntries
  BY EntryOf DEF Grouped
<1>2. Held(a) \subseteq TreeEntries /\ Held(b) \subseteq TreeEntries /\ Held(c) \subseteq TreeEntries
  BY HeldEntries DEF Grouped
<1> HIDE DEF e1, e2
<1>3. /\ Held(u) = Held(a) \cup {e1} \cup Held(b)
      /\ Held(v) = Held(b) \cup {e2} \cup Held(c)
      /\ SortedTree(u) <=> /\ SortedTree(a) /\ SortedTree(b)
                           /\ \A y \in Held(a) : Before(y, e1)
                           /\ \A y \in Held(b) : Before(e1, y)
      /\ SortedTree(v) <=> /\ SortedTree(b) /\ SortedTree(c)
                           /\ \A y \in Held(b) : Before(y, e2)
                           /\ \A y \in Held(c) : Before(e2, y)
  BY DEF Grouped, Between, Piled, All, e1, e2
<1>4. \A x \in TreeEntries, y \in TreeEntries, z \in TreeEntries : Before(x, y) /\ Before(y, z) => Before(x, z)
  BY BeforeOrder
<1>5. Piled(u, k2, s2, c) <=> /\ SortedTree(u) /\ SortedTree(c)
                              /\ \A y \in Held(u) : Before(y, e2)
                              /\ \A y \in Held(c) : Before(e2, y)
  BY DEF Piled, e2
<1>6. Piled(a, k1, s1, v) <=> /\ SortedTree(a) /\ SortedTree(v)
                              /\ \A y \in Held(a) : Before(y, e1)
                              /\ \A y \in Held(v) : Before(e1, y)
  BY DEF Piled, e1
<1>7. ASSUME Piled(u, k2, s2, c) PROVE Piled(a, k1, s1, v)
  <2>1. Before(e1, e2)
    BY <1>3, <1>5, <1>7
  <2>2. \A y \in Held(c) : Before(e1, y)
    BY <1>1, <1>2, <1>4, <1>5, <1>7, <2>1
  <2> QED BY <1>3, <1>5, <1>6, <1>7, <2>1, <2>2
<1>8. ASSUME Piled(a, k1, s1, v) PROVE Piled(u, k2, s2, c)
  <2>1. Before(e1, e2)
    BY <1>3, <1>6, <1>8
  <2>2. \A y \in Held(a) : Before(y, e2)
    BY <1>1, <1>2, <1>4, <1>6, <1>8, <2>1
  <2> QED BY <1>3, <1>5, <1>6, <1>8, <2>1, <2>2
<1>9. All(u, k2, s2, c) = All(a, k1, s1, v)
  BY <1>3 DEF All, e1, e2
<1> QED BY <1>7, <1>8, <1>9

\* What the rotations make.
LEMMA RotationsMake ==
    ASSUME NEW k, NEW s, NEW h, NEW k2, NEW s2, NEW h2, NEW a, NEW b, NEW c
    PROVE  /\ RotateRight(Made(k, s, h, Made(k2, s2, h2, a, b), c))
                = Joined(k2, s2, a, Joined(k, s, b, c))
           /\ RotateLeft(Made(k, s, h, a, Made(k2, s2, h2, b, c)))
                = Joined(k2, s2, Joined(k, s, a, b), c)
<1> DEFINE u == Made(k2, s2, h2, a, b)
           v == Made(k2, s2, h2, b, c)
           y == Made(k, s, h, u, c)
           x == Made(k, s, h, a, v)
<1>1. u.left = a /\ u.right = b /\ v.left = b /\ v.right = c
  BY MadeNode
<1>2. y.left = u /\ x.right = v
  <2> HIDE DEF u, v
  <2> QED BY MadeNode
<1>3. /\ [y EXCEPT !.left = b] = Made(k, s, h, b, c)
      /\ [x EXCEPT !.right = b] = Made(k, s, h, a, b)
  <2> HIDE DEF u, v
  <2> QED BY DEF Made
<1>4. /\ UpdateHeight(Made(k, s, h, b, c)) = Joined(k, s, b, c)
      /\ UpdateHeight(Made(k, s, h, a, b)) = Joined(k, s, a, b)
  BY MadeFields
<1>5. ASSUME NEW z
      PROVE  /\ UpdateHeight([u EXCEPT !.right = z]) = Joined(k2, s2, a, z)
             /\ UpdateHeight([v EXCEPT !.left = z]) = Joined(k2, s2, z, c)
  <2>1. [u EXCEPT !.right = z] = Made(k2, s2, h2, a, z) /\ [v EXCEPT !.left = z] = Made(k2, s2, h2, z, c)
    BY DEF Made
  <2> QED BY <2>1, MadeFields
<1>6. RotateRight(y) = UpdateHeight([u EXCEPT !.right = UpdateHeight([y EXCEPT !.left = b])])
  <2> HIDE DEF u, v, x, y
  <2> QED BY <1>1, <1>2 DEF RotateRight
<1>7. RotateLeft(x) = UpdateHeight([v EXCEPT !.left = UpdateHeight([x EXCEPT !.right = b])])
  <2> HIDE DEF u, v, x, y
  <2> QED BY <1>1, <1>2 DEF RotateLeft
<1>8. RotateRight(y) = Joined(k2, s2, a, Joined(k, s, b, c)) /\ RotateLeft(x) = Joined(k2, s2, Joined(k, s, a, b), c)
  <2> HIDE DEF u, v, x, y
  <2> QED BY <1>3, <1>4, <1>5, <1>6, <1>7
<1> QED BY <1>8

\* Rotating to the right once mends a left subtree that is too high on its left side.
LEMMA SingleRight ==
    ASSUME NEW k \in Members, NEW s \in Scores, NEW h, NEW u, NEW r,
           NEW j \in Nat, NEW p \in {j, j + 1}, j + 3 <= Levels,
           AvlOf(r, j), AvlOf(u, j + 2), AvlOf(u.left, j + 1), AvlOf(u.right, p),
           Piled(u, k, s, r)
    PROVE  AvlWith(RotateRight(Made(k, s, h, u, r)), p + 2, All(u, k, s, r))
<1> DEFINE a == u.left
           b == u.right
           v == Joined(k, s, b, r)
           w == Joined(u.key, u.score, a, v)
<1>1. u # Nil
  BY AvlInTree, NilHeight
<1>2. u.key \in Members /\ u.score \in Scores /\ u = Joined(u.key, u.score, a, b)
  BY <1>1, AvlSplit
<1>3. RotateRight(Made(k, s, h, u, r)) = w
  BY <1>2, RotationsMake DEF Joined
<1>4. AvlOf(v, p + 1)
  <2>1. Higher(p, j) = p /\ p - j \in -1..1 /\ 1 + p <= Levels /\ 1 + p = p + 1
    BY LevelsNat DEF Higher
  <2> QED BY <2>1, AvlJoin
<1> HIDE DEF v
<1>5. AvlOf(w, p + 2)
  <2>1. /\ Higher(j + 1, p + 1) = p + 1 /\ (j + 1) - (p + 1) \in -1..1
        /\ 1 + (p + 1) <= Levels /\ 1 + (p + 1) = p + 2
    BY LevelsNat DEF Higher
  <2> QED BY <1>2, <1>4, <2>1, AvlJoin
<1>6. a \in Tree /\ b \in Tree /\ r \in Tree /\ v \in Tree /\ w \in Tree
  BY <1>4, <1>5, AvlInTree
<1> HIDE DEF a, b, w
<1>7. Between(u, a, u.key, u.score, b)
  BY <1>1, AvlBetween DEF a, b
<1>8. Between(v, b, k, s, r) /\ Between(w, a, u.key, u.score, v)
  <2>1. Between(v, b, k, s, r)
    BY <1>6, JoinedBetween DEF v
  <2>2. Between(w, a, u.key, u.score, v)
    BY <1>2, <1>6, JoinedBetween DEF w
  <2> QED BY <2>1, <2>2
<1>9. Piled(a, u.key, u.score, v) /\ All(a, u.key, u.score, v) = All(u, k, s, r)
  <2>1. Grouped(u, v, a, u.key, u.score, b, k, s, r)
    BY <1>2, <1>6, <1>7, <1>8 DEF Grouped
  <2> QED BY <2>1, <1>7, Regrouped DEF Between
<1> QED BY <1>3, <1>5, <1>8, <1>9 DEF AvlWith, Between

\* Rotating to the left once mends a right subtree that is too high on its right side.
LEMMA SingleLeft ==
    ASSUME NEW k \in Members, NEW s \in Scores, NEW h, NEW l, NEW u,
           NEW j \in Nat, NEW p \in {j, j + 1}, j + 3 <= Levels,
           AvlOf(l, j), AvlOf(u, j + 2), AvlOf(u.right, j + 1), AvlOf(u.left, p),
           Piled(l, k, s, u)
    PROVE  AvlWith(RotateLeft(Made(k, s, h, l, u)), p + 2, All(l, k, s, u))
<1> DEFINE b == u.left
           c == u.right
           v == Joined(k, s, l, b)
           w == Joined(u.key, u.score, v, c)
<1>1. u # Nil
  BY AvlInTree, NilHeight
<1>2. u.key \in Members /\ u.score \in Scores /\ u = Joined(u.key, u.score, b, c)
  BY <1>1, AvlSplit
<1>3. RotateLeft(Made(k, s, h, l, u)) = w
  BY <1>2, RotationsMake DEF Joined
<1>4. AvlOf(v, p + 1)
  <2>1. Higher(j, p) = p /\ j - p \in -1..1 /\ 1 + p <= Levels /\ 1 + p = p + 1
    BY LevelsNat DEF Higher
  <2> QED BY <2>1, AvlJoin
<1> HIDE DEF v
<1>5. AvlOf(w, p + 2)
  <2>1. /\ Higher(p + 1, j + 1) = p + 1 /\ (p + 1) - (j + 1) \in -1..1
        /\ 1 + (p + 1) <= Levels /\ 1 + (p + 1) = p + 2
    BY LevelsNat DEF Higher
  <2> QED BY <1>2, <1>4, <2>1, AvlJoin
<1>6. l \in Tree /\ b \in Tree /\ c \in Tree /\ v \in Tree /\ w \in Tree
  BY <1>4, <1>5, AvlInTree
<1> HIDE DEF b, c, w
<1>7. Between(u, b, u.key, u.score, c)
  BY <1>1, AvlBetween DEF b, c
<1>8. Between(v, l, k, s, b) /\ Between(w, v, u.key, u.score, c)
  <2>1. Between(v, l, k, s, b)
    BY <1>6, JoinedBetween DEF v
  <2>2. Between(w, v, u.key, u.score, c)
    BY <1>2, <1>6, JoinedBetween DEF w
  <2> QED BY <2>1, <2>2
<1>9. Piled(v, u.key, u.score, c) /\ All(v, u.key, u.score, c) = All(l, k, s, u)
  <2>1. Grouped(v, u, l, k, s, b, u.key, u.score, c)
    BY <1>2, <1>6, <1>7, <1>8 DEF Grouped
  <2> QED BY <2>1, <1>7, Regrouped DEF Between
<1> QED BY <1>3, <1>5, <1>8, <1>9 DEF AvlWith, Between

\* A node above trees of n levels, whatever their heights.
LEMMA JoinedInTree ==
    ASSUME NEW k \in Members, NEW s \in Scores, NEW n \in Nat, n + 1 <= Levels,
           NEW l, NEW i, AvlOf(l, i), NEW r, NEW j, AvlOf(r, j), i <= n, j <= n
    PROVE  Joined(k, s, l, r) \in Tree
<1>1. /\ i \in Nat /\ j \in Nat /\ l \in Trees[i] /\ r \in Trees[j]
      /\ Height(l) = i /\ Height(r) = j
  BY AvlInTree DEF AvlOf
<1>2. l \in Trees[n] /\ r \in Trees[n]
  BY <1>1, TreesGrow
<1>3. 1 + Higher(i, j) \in Nat
  BY <1>1 DEF Higher
<1>4. Joined(k, s, l, r) = Made(k, s, 1 + Higher(i, j), l, r)
  BY <1>1 DEF Joined
<1>5. Joined(k, s, l, r) \in Trees[n + 1]
  BY <1>2, <1>3, <1>4, MadeTree
<1> QED BY <1>5, TreesGrow, LevelsNat

\* A left subtree that is too high on the right of its top is rotated itself before.
LEMMA DoubleRight ==
    ASSUME NEW k \in Members, NEW s \in Scores, NEW h, NEW u, NEW r,
           NEW j \in Nat, j + 3 <= Levels,
           AvlOf(r, j), AvlOf(u, j + 2), AvlOf(u.left, j), AvlOf(u.right, j + 1),
           Piled(u, k, s, r)
    PROVE  AvlWith(RotateRight(Made(k, s, h, RotateLeft(u), r)), j + 2, All(u, k, s, r))
<1> DEFINE a == u.left
           v == u.right
           b == v.left
           c == v.right
           p == Joined(u.key, u.score, a, b)
           m == Joined(v.key, v.score, p, c)
           q == Joined(k, s, c, r)
           w == Joined(v.key, v.score, p, q)
<1>1. u # Nil /\ v # Nil
  BY AvlInTree, NilHeight
<1>2. u.key \in Members /\ u.score \in Scores /\ u = Joined(u.key, u.score, a, v)
  BY <1>1, AvlSplit
<1>3. v.key \in Members /\ v.score \in Scores /\ v = Joined(v.key, v.score, b, c)
  BY <1>1, AvlSplit
<1>4. PICK i1, i2 \in Nat : AvlOf(b, i1) /\ AvlOf(c, i2) /\ i1 - i2 \in -1..1 /\ j + 1 = 1 + Higher(i1, i2)
  BY <1>1, AvlSplit
<1>5. RotateLeft(u) = m
  BY <1>2, <1>3, RotationsMake DEF Joined
<1>6. RotateRight(Made(k, s, h, m, r)) = w
  <2> HIDE DEF p
  <2> QED BY RotationsMake DEF Joined
<1>7. i1 <= j /\ i2 <= j /\ j - i1 \in 0..1 /\ j - i2 \in 0..1
  BY <1>4 DEF Higher
<1> HIDE DEF a, b, c, v
<1>8. AvlOf(p, j + 1) /\ AvlOf(q, j + 1)
  <2>1. AvlOf(a, j)
    BY DEF a
  <2>2. /\ Higher(j, i1) = j /\ Higher(i2, j) = j /\ j - i1 \in -1..1 /\ i2 - j \in -1..1
        /\ 1 + j = j + 1 /\ 1 + j <= Levels
    BY <1>7, LevelsNat DEF Higher
  <2>3. AvlOf(p, j + 1)
    BY <1>2, <1>4, <2>1, <2>2, AvlJoin
  <2>4. AvlOf(q, j + 1)
    BY <1>4, <2>2, AvlJoin
  <2> QED BY <2>3, <2>4
<1> HIDE DEF p, q
<1>9. AvlOf(w, j + 2)
  <2>1. /\ Higher(j + 1, j + 1) = j + 1 /\ (j + 1) - (j + 1) \in -1..1
        /\ 1 + (j + 1) = j + 2 /\ 1 + (j + 1) <= Levels
    BY LevelsNat DEF Higher
  <2> QED BY <1>3, <1>8, <2>1, AvlJoin
<1>10. m \in Tree
  <2>1. j + 1 \in Nat /\ (j + 1) + 1 <= Levels /\ j + 1 <= j + 1 /\ i2 <= j + 1
    BY <1>7, LevelsNat
  <2> QED BY <1>3, <1>4, <1>8, <2>1, JoinedInTree
<1>11. /\ a \in Tree /\ b \in Tree /\ c \in Tree /\ r \in Tree
       /\ p \in Tree /\ q \in Tree /\ w \in Tree
  BY <1>4, <1>8, <1>9, AvlInTree DEF a
<1> HIDE DEF m, w
<1>12. Between(u, a, u.key, u.score, v) /\ Between(v, b, v.key, v.score, c)
  BY <1>1, AvlBetween DEF a, b, c, v
<1>13. Between(p, a, u.key, u.score, b)
  BY <1>2, <1>11, JoinedBetween DEF p
<1>14. Between(m, p, v.key, v.score, c)
  BY <1>3, <1>10, <1>11, JoinedBetween DEF m
<1>15. Between(q, c, k, s, r)
  BY <1>11, JoinedBetween DEF q
<1>16. Between(w, p, v.key, v.score, q)
  BY <1>3, <1>11, JoinedBetween DEF w
<1>17. u.key \in Members /\ u.score \in Scores /\ v.key \in Members /\ v.score \in Scores
  BY <1>2, <1>3
<1>18. Held(m) = Held(u) /\ (SortedTree(m) <=> SortedTree(u))
  <2>1. /\ Piled(p, v.key, v.score, c) <=> Piled(a, u.key, u.score, v)
        /\ All(p, v.key, v.score, c) = All(a, u.key, u.score, v)
    <3>1. Grouped(p, v, a, u.key, u.score, b, v.key, v.score, c)
      BY <1>11, <1>12, <1>13, <1>17 DEF Grouped
    <3> QED BY <3>1, Regrouped
  <2> QED BY <1>12, <1>14, <2>1 DEF Between
<1>19. Piled(m, k, s, r) /\ All(m, k, s, r) = All(u, k, s, r)
  <2>1. All(m, k, s, r) = All(u, k, s, r)
    BY <1>18 DEF All
  <2>2. Piled(m, k, s, r)
    BY <1>18, Zenon DEF Piled
  <2> QED BY <2>1, <2>2
<1>20. Piled(p, v.key, v.score, q) /\ All(p, v.key, v.score, q) = All(u, k, s, r)
  <2>1. Grouped(m, q, p, v.key, v.score, c, k, s, r)
    BY <1>11, <1>14, <1>15, <1>17 DEF Grouped
  <2> QED BY <2>1, <1>19, Regrouped
<1> QED BY <1>5, <1>6, <1>9, <1>16, <1>20 DEF AvlWith, Between

\* The same for a right subtree that is too high on the left of its top.
LEMMA DoubleLeft ==
    ASSUME NEW k \in Members, NEW s \in Scores, NEW h, NEW l, NEW u,
           NEW j \in Nat, j + 3 <= Levels,
           AvlOf(l, j), AvlOf(u, j + 2), AvlOf(u.right, j), AvlOf(u.left, j + 1),
           Piled(l, k, s, u)
    PROVE  AvlWith(RotateLeft(Made(k, s, h, l, RotateRight(u))), j + 2, All(l, k, s, u))
<1> DEFINE v == u.left
           d == u.right
           b == v.left
           c == v.right
           q == Joined(u.key, u.score, c, d)
           m == Joined(v.key, v.score, b, q)
           p == Joined(k, s, l, b)
           w == Joined(v.key, v.score, p, q)
<1>1. u # Nil /\ v # Nil
  BY AvlInTree, NilHeight
<1>2. u.key \in Members /\ u.score \in Scores /\ u = Joined(u.key, u.score, v, d)
  BY <1>1, AvlSplit
<1>3. v.key \in Members /\ v.score \in Scores /\ v = Joined(v.key, v.score, b, c)
  BY <1>1, AvlSplit
<1>4. PICK i1, i2 \in Nat : AvlOf(b, i1) /\ AvlOf(c, i2) /\ i1 - i2 \in -1..1 /\ j + 1 = 1 + Higher(i1, i2)
  BY <1>1, AvlSplit
<1>5. RotateRight(u) = m
  BY <1>2, <1>3, RotationsMake DEF Joined
<1>6. RotateLeft(Made(k, s, h, l, m)) = w
  <2> HIDE DEF q
  <2> QED BY RotationsMake DEF Joined
<1>7. i1 <= j /\ i2 <= j /\ j - i1 \in 0..1 /\ j - i2 \in 0..1
  BY <1>4 DEF Higher
<1> HIDE DEF b, c, d, v
<1>8. AvlOf(p, j + 1) /\ AvlOf(q, j + 1)
  <2>1. AvlOf(d, j)
    BY DEF d
  <2>2. /\ Higher(j, i1) = j /\ Higher(i2, j) = j /\ j - i1 \in -1..1 /\ i2 - j \in -1..1
        /\ 1 + j = j + 1 /\ 1 + j <= Levels
    BY <1>7, LevelsNat DEF Higher
  <2>3. AvlOf(q, j + 1)
    BY <1>2, <1>4, <2>1, <2>2, AvlJoin
  <2>4. AvlOf(p, j + 1)
    BY <1>4, <2>2, AvlJoin
  <2> QED BY <2>3, <2>4
<1> HIDE DEF p, q
<1>9. AvlOf(w, j + 2)
  <2>1. /\ Higher(j + 1, j + 1) = j + 1 /\ (j + 1) - (j + 1) \in -1..1
        /\ 1 + (j + 1) = j + 2 /\ 1 + (j + 1) <= Levels
    BY LevelsNat DEF Higher
  <2> QED BY <1>3, <1>8, <2>1, AvlJoin
<1>10. m \in Tree
  <2>1. j + 1 \in Nat /\ (j + 1) + 1 <= Levels /\ j + 1 <= j + 1 /\ i1 <= j + 1
    BY <1>7, LevelsNat
  <2> QED BY <1>3, <1>4, <1>8, <2>1, JoinedInTree
<1>11. /\ l \in Tree /\ b \in Tree /\ c \in Tree /\ d \in Tree
       /\ p \in Tree /\ q \in Tree /\ w \in Tree
  BY <1>4, <1>8, <1>9, AvlInTree DEF d
<1> HIDE DEF m, w
<1>12. Between(u, v, u.key, u.score, d) /\ Between(v, b, v.key, v.score, c)
  BY <1>1, AvlBetween DEF b, c, d, v
<1>13. Between(q, c, u.key, u.score, d)
  BY <1>2, <1>11, JoinedBetween DEF q
<1>14. Between(m, b, v.key, v.score, q)
  BY <1>3, <1>10, <1>11, JoinedBetween DEF m
<1>15. Between(p, l, k, s, b)
  BY <1>11, JoinedBetween DEF p
<1>16. Between(w, p, v.key, v.score, q)
  BY <1>3, <1>11, JoinedBetween DEF w
<1>17. u.key \in Members /\ u.score \in Scores /\ v.key \in Members /\ v.score \in Scores
  BY <1>2, <1>3
<1>18. Held(m) = Held(u) /\ (SortedTree(m) <=> SortedTree(u))
  <2>1. /\ Piled(v, u.key, u.score, d) <=> Piled(b, v.key, v.score, q)
        /\ All(v, u.key, u.score, d) = All(b, v.key, v.score, q)
    <3>1. Grouped(v, q, b, v.key, v.score, c, u.key, u.score, d)
      BY <1>11, <1>12, <1>13, <1>17 DEF Grouped
    <3> QED BY <3>1, Regrouped
  <2> QED BY <1>12, <1>14, <2>1 DEF Between
<1>19. Piled(l, k, s, m) /\ All(l, k, s, m) = All(l, k, s, u)
  <2>1. All(l, k, s, m) = All(l, k, s, u)
    BY <1>18 DEF All
  <2>2. Piled(l, k, s, m)
    BY <1>18, Zenon DEF Piled
  <2> QED BY <2>1, <2>2
<1>20. Piled(p, v.key, v.score, q) /\ All(p, v.key, v.score, q) = All(l, k, s, u)
  <2>1. Grouped(p, m, l, k, s, b, v.key, v.score, q)
    BY <1>11, <1>14, <1>15, <1>17 DEF Grouped
  <2> QED BY <2>1, <1>19, Regrouped
<1> QED BY <1>5, <1>6, <1>9, <1>16, <1>20 DEF AvlWith, Between
-----------------------------------------------------------------------------
(***************************************************************************)
(* Insertion.                                                               *)
(***************************************************************************)
\* What the end of avl_insert_node makes of a node whose subtrees are l and r.
LEMMA GrownByMakes ==
    ASSUME NEW e, NEW k, NEW s, NEW h, NEW l, NEW r, Height(l) \in Nat, Height(r) \in Nat
    PROVE  LET x == 1 + Higher(Height(l), Height(r))
               d == Height(l) - Height(r)
               w == GrownBy(e, Made(k, s, h, l, r))
           IN  /\ d \in -1..1 => w = Joined(k, s, l, r)
               /\ d > 1 /\ Before(e, l) /\ ~ Before(l, e) => w = RotateRight(Made(k, s, x, l, r))
               /\ d < -1 /\ Before(r, e) /\ ~ Before(e, r) => w = RotateLeft(Made(k, s, x, l, r))
               /\ d > 1 /\ ~ Before(e, l) /\ Before(l, e)
                    => w = RotateRight(Made(k, s, x, RotateLeft(l), r))
               /\ d < -1 /\ ~ Before(r, e) /\ Before(e, r)
                    => w = RotateLeft(Made(k, s, x, l, RotateRight(r)))
<1> DEFINE x == 1 + Higher(Height(l), Height(r))
           d == Height(l) - Height(r)
           node == Made(k, s, x, l, r)
           w == GrownBy(e, Made(k, s, h, l, r))
<1>1. UpdateHeight(Made(k, s, h, l, r)) = node /\ node = Joined(k, s, l, r)
  BY MadeFields DEF Joined
<1>2. Balance(node) = d /\ d \in Int
  BY MadeFields
<1>3. node.left = l /\ node.right = r
  BY MadeNode
<1>4. /\ [node EXCEPT !.left = RotateLeft(@)] = Made(k, s, x, RotateLeft(l), r)
      /\ [node EXCEPT !.right = RotateRight(@)] = Made(k, s, x, l, RotateRight(r))
  BY DEF Made
<1> HIDE DEF node, d, x
<1>5. w = CASE d > 1 /\ Before(e, l) -> RotateRight(node)
            [] d < -1 /\ Before(r, e) -> RotateLeft(node)
            [] d > 1 /\ Before(l, e) -> RotateRight(Made(k, s, x, RotateLeft(l), r))
            [] d < -1 /\ Before(e, r) -> RotateLeft(Made(k, s, x, l, RotateRight(r)))
            [] OTHER -> node
  BY <1>1, <1>2, <1>3, <1>4 DEF GrownBy
<1> HIDE DEF w
<1>6. d \in -1..1 => w = node
  BY <1>2, <1>5
<1>7. d > 1 /\ Before(e, l) /\ ~ Before(l, e) => w = RotateRight(node)
  BY <1>2, <1>5
<1>8. d < -1 /\ Before(r, e) /\ ~ Before(e, r) => w = RotateLeft(node)
  BY <1>2, <1>5
<1>9. d > 1 /\ ~ Before(e, l) /\ Before(l, e) => w = RotateRight(Made(k, s, x, RotateLeft(l), r))
  BY <1>2, <1>5
<1>10. d < -1 /\ ~ Before(r, e) /\ Before(e, r) => w = RotateLeft(Made(k, s, x, l, RotateRight(r)))
  BY <1>2, <1>5
<1> QED BY <1>1, <1>6, <1>7, <1>8, <1>9, <1>10 DEF d, x, node, w

\* The higher subtree of u is on the side of e.
Leans(u, e) ==
    \/ Before(e, u) /\ Height(u.left) = Height(u.right) + 1
    \/ Before(u, e) /\ Height(u.right) = Height(u.left) + 1

\* u is what inserting e makes of the tree t of height h.
Inserted(t, h, e, u) ==
    \E g \in {h, h + 1} :
        AvlWith(u, g, Held(t) \cup {e}) /\ (g = h + 1 /\ t # Nil => Leans(u, e))

\* u and r differ by two levels: where the higher subtree of u is, and how high.
LEMMA LeaningParts ==
    ASSUME NEW u, NEW j \in Nat, AvlOf(u, j + 2)
    PROVE  /\ Height(u.left) = Height(u.right) + 1 => AvlOf(u.left, j + 1) /\ AvlOf(u.right, j)
           /\ Height(u.right) = Height(u.left) + 1 => AvlOf(u.right, j + 1) /\ AvlOf(u.left, j)
           /\ Height(u.left) = Height(u.right) => AvlOf(u.left, j + 1) /\ AvlOf(u.right, j + 1)
           /\ Height(u.left) \in Nat /\ Height(u.right) \in Nat
           /\ Height(u.left) - Height(u.right) \in -1..1
<1>1. u # Nil
  BY AvlInTree, NilHeight
<1>2. PICK p, q \in Nat : AvlOf(u.left, p) /\ AvlOf(u.right, q) /\ p - q \in -1..1 /\ j + 2 = 1 + Higher(p, q)
  BY <1>1, AvlSplit
<1>3. Height(u.left) = p /\ Height(u.right) = q
  BY <1>2, AvlInTree
<1>4. (p = q + 1 => p = j + 1 /\ q = j) /\ (q = p + 1 => q = j + 1 /\ p = j) /\ (p = q => p = j + 1)
  BY <1>2 DEF Higher
<1> QED BY <1>2, <1>3, <1>4

\* The parts of a balanced and sorted tree.
Fork(k, s, l, i, r, j) ==
    /\ k \in Members /\ s \in Scores /\ i \in Nat /\ j \in Nat
    /\ AvlOf(l, i) /\ AvlOf(r, j) /\ i - j \in -1..1 /\ Piled(l, k, s, r)

\* A tree of height h or one level higher, and then with e on the higher side.
Grew(w, h, S, e) ==
    \E g \in {h, h + 1} : AvlWith(w, g, S) /\ (g = h + 1 => Leans(w, e))

\* After an insertion on the left, the rotations leave an AVL tree with the new entry.
LEMMA GrownLeft ==
    ASSUME NEW k, NEW s, NEW h, NEW l, NEW i, NEW r, NEW j, Fork(k, s, l, i, r, j),
           1 + Higher(i, j) < Levels,
           NEW e \in TreeEntries, Before(e, Entry(k, s)), NEW u, Inserted(l, i, e, u)
    PROVE  Grew(GrownBy(e, Made(k, s, h, u, r)), 1 + Higher(i, j), All(l, k, s, r) \cup {e}, e)
<1> DEFINE w == GrownBy(e, Made(k, s, h, u, r))
           x == 1 + Higher(Height(u), Height(r))
<1> SUFFICES \E g \in {1 + Higher(i, j), 2 + Higher(i, j)} :
               AvlWith(w, g, All(l, k, s, r) \cup {e}) /\ (g = 2 + Higher(i, j) => Leans(w, e))
  <2>1. Higher(i, j) \in Nat
    BY DEF Fork, Higher
  <2>2. (1 + Higher(i, j)) + 1 = 2 + Higher(i, j)
    BY <2>1
  <2> HIDE DEF w
  <2> QED BY <2>2, Zenon DEF Grew, w
<1>1. /\ k \in Members /\ s \in Scores /\ i \in Nat /\ j \in Nat
      /\ AvlOf(l, i) /\ AvlOf(r, j) /\ i - j \in -1..1 /\ Piled(l, k, s, r)
  BY DEF Fork
<1>2. PICK g \in {i, i + 1} :
        AvlWith(u, g, Held(l) \cup {e}) /\ (g = i + 1 /\ l # Nil => Leans(u, e))
  BY DEF Inserted
<1>3. AvlOf(u, g) /\ SortedTree(u) /\ Held(u) = Held(l) \cup {e}
  BY <1>1, <1>2 DEF AvlWith
<1>4. /\ g \in Nat /\ Height(u) = g /\ Height(r) = j /\ Height(l) = i
      /\ u \in Tree /\ r \in Tree /\ l \in Tree
  BY <1>1, <1>3, AvlInTree
<1>5. Piled(u, k, s, r)
  BY <1>1, <1>3 DEF Piled
<1>6. All(u, k, s, r) = All(l, k, s, r) \cup {e}
  BY <1>1, <1>3 DEF All
<1>7. CASE g - j \in -1..1
  <2>1. w = Joined(k, s, u, r)
    BY <1>1, <1>4, <1>7, GrownByMakes
  <2>2. 1 + Higher(g, j) \in {1 + Higher(i, j), 2 + Higher(i, j)} /\ 1 + Higher(g, j) <= Levels
    BY <1>1, <1>4, <1>7, LevelsNat DEF Higher
  <2>3. AvlOf(w, 1 + Higher(g, j))
    BY <1>1, <1>3, <1>7, <2>1, <2>2, AvlJoin
  <2>4. Between(w, u, k, s, r)
    BY <1>1, <1>4, <2>1, <2>3, AvlInTree, JoinedBetween
  <2>5. AvlWith(w, 1 + Higher(g, j), All(l, k, s, r) \cup {e})
    BY <1>1, <1>5, <1>6, <2>3, <2>4 DEF AvlWith, Between
  <2>6. ASSUME 1 + Higher(g, j) = 2 + Higher(i, j) PROVE Leans(w, e)
    <3>1. w.key = k /\ w.score = s /\ w.left = u /\ w.right = r
      BY <2>1, MadeNode DEF Joined
    <3>2. g = j + 1
      BY <1>1, <1>4, <1>7, <2>6 DEF Higher
    <3>3. Before(e, w)
      BY <1>1, <3>1, BeforeNode
    <3> QED BY <1>1, <1>4, <3>1, <3>2, <3>3 DEF Leans
  <2> QED BY <2>2, <2>5, <2>6
<1>8. CASE g - j \notin -1..1
  <2>1. g = j + 2 /\ i = j + 1 /\ g = i + 1 /\ Higher(i, j) = j + 1 /\ j + 3 <= Levels
    BY <1>1, <1>4, <1>8, LevelsNat DEF Higher
  <2>2. u # Nil /\ l # Nil
    BY <1>1, <1>4, <2>1, NilHeight
  <2>3. Leans(u, e)
    BY <1>1, <1>2, <2>1, <2>2
  <2>4. Before(e, u) <=> ~ Before(u, e)
    <3>1. Entry(u.key, u.score) \in TreeEntries
      BY <1>1, <1>3, <2>2, AvlParts
    <3>2. Before(e, u) \/ Before(u, e)
      BY <2>3 DEF Leans
    <3>3. ~ (Before(e, u) /\ Before(u, e))
      BY <1>1, <3>1, BeforeOrder, BeforeNode
    <3> QED BY <3>2, <3>3
  <2>5. CASE Before(e, u)
    <3>1. AvlOf(u.left, j + 1) /\ AvlOf(u.right, j)
      BY <1>1, <1>3, <2>1, <2>3, <2>4, <2>5, LeaningParts DEF Leans
    <3>2. w = RotateRight(Made(k, s, x, u, r))
      BY <1>1, <1>4, <2>1, <2>4, <2>5, GrownByMakes
    <3>3. AvlWith(w, j + 2, All(u, k, s, r))
      BY <1>1, <1>3, <1>5, <2>1, <3>1, <3>2, SingleRight
    <3>4. AvlWith(w, j + 2, All(l, k, s, r) \cup {e})
      BY <1>1, <1>6, <3>3
    <3> HIDE DEF w
    <3> QED BY <1>1, <2>1, <3>4
  <2>6. CASE Before(u, e)
    <3>1. AvlOf(u.left, j) /\ AvlOf(u.right, j + 1)
      BY <1>1, <1>3, <2>1, <2>3, <2>4, <2>6, LeaningParts DEF Leans
    <3>2. w = RotateRight(Made(k, s, x, RotateLeft(u), r))
      BY <1>1, <1>4, <2>1, <2>4, <2>6, GrownByMakes
    <3>3. AvlWith(w, j + 2, All(u, k, s, r))
      BY <1>1, <1>3, <1>5, <2>1, <3>1, <3>2, DoubleRight
    <3>4. AvlWith(w, j + 2, All(l, k, s, r) \cup {e})
      BY <1>1, <1>6, <3>3
    <3> HIDE DEF w
    <3> QED BY <1>1, <2>1, <3>4
  <2> QED BY <2>4, <2>5, <2>6
<1> QED BY <1>7, <1>8

\* After one on the right, likewise.
LEMMA GrownRight ==
    ASSUME NEW k, NEW s, NEW h, NEW l, NEW i, NEW r, NEW j, Fork(k, s, l, i, r, j),
           1 + Higher(i, j) < Levels,
           NEW e \in TreeEntries, Before(Entry(k, s), e), NEW u, Inserted(r, j, e, u)
    PROVE  Grew(GrownBy(e, Made(k, s, h, l, u)), 1 + Higher(i, j), All(l, k, s, r) \cup {e}, e)
<1> DEFINE w == GrownBy(e, Made(k, s, h, l, u))
           x == 1 + Higher(Height(l), Height(u))
<1> SUFFICES \E g \in {1 + Higher(i, j), 2 + Higher(i, j)} :
               AvlWith(w, g, All(l, k, s, r) \cup {e}) /\ (g = 2 + Higher(i, j) => Leans(w, e))
  <2>1. Higher(i, j) \in Nat
    BY DEF Fork, Higher
  <2>2. (1 + Higher(i, j)) + 1 = 2 + Higher(i, j)
    BY <2>1
  <2> HIDE DEF w
  <2> QED BY <2>2, Zenon DEF Grew, w
<1>1. /\ k \in Members /\ s \in Scores /\ i \in Nat /\ j \in Nat
      /\ AvlOf(l, i) /\ AvlOf(r, j) /\ i - j \in -1..1 /\ Piled(l, k, s, r)
  BY DEF Fork
<1>2. PICK g \in {j, j + 1} :
        AvlWith(u, g, Held(r) \cup {e}) /\ (g = j + 1 /\ r # Nil => Leans(u, e))
  BY DEF Inserted
<1>3. AvlOf(u, g) /\ SortedTree(u) /\ Held(u) = Held(r) \cup {e}
  BY <1>1, <1>2 DEF AvlWith
<1>4. /\ g \in Nat /\ Height(u) = g /\ Height(r) = j /\ Height(l) = i
      /\ u \in Tree /\ r \in Tree /\ l \in Tree
  BY <1>1, <1>3, AvlInTree
<1>5. Piled(l, k, s, u)
  BY <1>1, <1>3 DEF Piled
<1>6. All(l, k, s, u) = All(l, k, s, r) \cup {e}
  BY <1>1, <1>3 DEF All
<1>7. CASE i - g \in -1..1
  <2>1. w = Joined(k, s, l, u)
    BY <1>1, <1>4, <1>7, GrownByMakes
  <2>2. 1 + Higher(i, g) \in {1 + Higher(i, j), 2 + Higher(i, j)} /\ 1 + Higher(i, g) <= Levels
    BY <1>1, <1>4, <1>7, LevelsNat DEF Higher
  <2>3. AvlOf(w, 1 + Higher(i, g))
    BY <1>1, <1>3, <1>7, <2>1, <2>2, AvlJoin
  <2>4. Between(w, l, k, s, u)
    BY <1>1, <1>4, <2>1, <2>3, AvlInTree, JoinedBetween
  <2>5. AvlWith(w, 1 + Higher(i, g), All(l, k, s, r) \cup {e})
    BY <1>1, <1>5, <1>6, <2>3, <2>4 DEF AvlWith, Between
  <2>6. ASSUME 1 + Higher(i, g) = 2 + Higher(i, j) PROVE Leans(w, e)
    <3>1. w.key = k /\ w.score = s /\ w.left = l /\ w.right = u
      BY <2>1, MadeNode DEF Joined
    <3>2. g = i + 1
      BY <1>1, <1>4, <1>7, <2>6 DEF Higher
    <3>3. Before(w, e)
      BY <1>1, <3>1, BeforeNode
    <3> QED BY <1>1, <1>4, <3>1, <3>2, <3>3 DEF Leans
  <2> QED BY <2>2, <2>5, <2>6
<1>8. CASE i - g \notin -1..1
  <2>1. g = i + 2 /\ j = i + 1 /\ g = j + 1 /\ Higher(i, j) = i + 1 /\ i + 3 <= Levels
    BY <1>1, <1>4, <1>8, LevelsNat DEF Higher
  <2>2. u # Nil /\ r # Nil
    BY <1>1, <1>4, <2>1, NilHeight
  <2>3. Leans(u, e)
    BY <1>1, <1>2, <2>1, <2>2
  <2>4. Before(e, u) <=> ~ Before(u, e)
    <3>1. Entry(u.key, u.score) \in TreeEntries
      BY <1>1, <1>3, <2>2, AvlParts
    <3>2. Before(e, u) \/ Before(u, e)
      BY <2>3 DEF Leans
    <3>3. ~ (Before(e, u) /\ Before(u, e))
      BY <1>1, <3>1, BeforeOrder, BeforeNode
    <3> QED BY <3>2, <3>3
  <2>5. CASE Before(u, e)
    <3>1. AvlOf(u.right, i + 1) /\ AvlOf(u.left, i)
      BY <1>1, <1>3, <2>1, <2>3, <2>4, <2>5, LeaningParts DEF Leans
    <3>2. w = RotateLeft(Made(k, s, x, l, u))
      BY <1>1, <1>4, <2>1, <2>4, <2>5, GrownByMakes
    <3>3. AvlWith(w, i + 2, All(l, k, s, u))
      BY <1>1, <1>3, <1>5, <2>1, <3>1, <3>2, SingleLeft
    <3>4. AvlWith(w, i + 2, All(l, k, s, r) \cup {e})
      BY <1>1, <1>6, <3>3
    <3> HIDE DEF w
    <3> QED BY <1>1, <2>1, <3>4
  <2>6. CASE Before(e, u)
    <3>1. AvlOf(u.right, i) /\ AvlOf(u.left, i + 1)
      BY <1>1, <1>3, <2>1, <2>3, <2>4, <2>6, LeaningParts DEF Leans
    <3>2. w = RotateLeft(Made(k, s, x, l, RotateRight(u)))
      BY <1>1, <1>4, <2>1, <2>4, <2>6, GrownByMakes
    <3>3. AvlWith(w, i + 2, All(l, k, s, u))
      BY <1>1, <1>3, <1>5, <2>1, <3>1, <3>2, DoubleLeft
    <3>4. AvlWith(w, i + 2, All(l, k, s, r) \cup {e})
      BY <1>1, <1>6, <3>3
    <3> HIDE DEF w
    <3> QED BY <1>1, <2>1, <3>4
  <2> QED BY <2>4, <2>5, <2>6
<1> QED BY <1>7, <1>8

\* What inserting an entry in a node does.
LEMMA InsertNodeAt ==
    ASSUME NEW t \in Tree, t # Nil, NEW e \in TreeEntries
    PROVE  /\ Before(e, t) => InsertNode[t][e] = GrownBy(e, [t EXCEPT !.left = InsertNode[t.left][e]])
           /\ ~ Before(e, t) /\ Before(t, e)
                => InsertNode[t][e] = GrownBy(e, [t EXCEPT !.right = InsertNode[t.right][e]])
           /\ ~ Before(e, t) /\ ~ Before(t, e) => InsertNode[t][e] = t
<1> DEFINE B(f) == IF t = Nil
        THEN [key |-> f.key, score |-> f.score, height |-> 1, left |-> Nil, right |-> Nil]
        ELSE IF Before(f, t) THEN GrownBy(f, [t EXCEPT !.left = InsertNode[@][f]])
        ELSE IF Before(t, f) THEN GrownBy(f, [t EXCEPT !.right = InsertNode[@][f]])
        ELSE t
<1>1. InsertNode[t] = [f \in TreeEntries |-> B(f)]
  BY InsertNodeDef
<1>2. InsertNode[t][e] = B(e)
  <2> HIDE DEF B
  <2> QED BY <1>1
<1>3. /\ [t EXCEPT !.left = InsertNode[@][e]] = [t EXCEPT !.left = InsertNode[t.left][e]]
      /\ [t EXCEPT !.right = InsertNode[@][e]] = [t EXCEPT !.right = InsertNode[t.right][e]]
  OBVIOUS
<1>4. Before(e, t) => B(e) = GrownBy(e, [t EXCEPT !.left = InsertNode[t.left][e]])
  BY <1>3
<1>5. ~ Before(e, t) /\ Before(t, e)
                => B(e) = GrownBy(e, [t EXCEPT !.right = InsertNode[t.right][e]])
  BY <1>3
<1>6. ~ Before(e, t) /\ ~ Before(t, e) => B(e) = t
  OBVIOUS
<1> QED BY <1>2, <1>4, <1>5, <1>6

\* Inserting an entry in a tree that has room for one more level: the tree stays
\* balanced and sorted, holds one entry more and grows by one level at most.
LEMMA InsertWorks ==
    ASSUME NEW t, NEW h, AvlOf(t, h), SortedTree(t), h < Levels, NEW e \in TreeEntries
    PROVE  Inserted(t, h, e, InsertNode[t][e])
<1> DEFINE Works(v) == \A g \in Nat : AvlOf(v, g) /\ SortedTree(v) /\ g < Levels =>
                          \A f \in TreeEntries : Inserted(v, g, f, InsertNode[v][f])
           S == {v \in Tree : Works(v)}
<1>1. Nil \in S
  <2>1. SUFFICES ASSUME NEW g \in Nat, AvlOf(Nil, g), g < Levels, NEW f \in TreeEntries
                 PROVE  Inserted(Nil, g, f, InsertNode[Nil][f])
    BY AvlNil, AvlInTree
  <2> DEFINE u == Joined(f.key, f.score, Nil, Nil)
  <2>2. f.key \in Members /\ f.score \in Scores /\ f = Entry(f.key, f.score)
    BY DEF TreeEntries, Entry
  <2>3. Nil \in Tree /\ g = 0
    BY <2>1, AvlInTree, NilHeight
  <2>4. Higher(0, 0) = 0 /\ 1 + 0 = 1 /\ 1 <= Levels /\ 0 - 0 \in -1..1
    BY <2>1, <2>3, LevelsNat DEF Higher
  <2>5. InsertNode[Nil][f] = u
    <3>1. InsertNode[Nil][f] = [key |-> f.key, score |-> f.score, height |-> 1, left |-> Nil, right |-> Nil]
      BY <2>3, InsertNodeDef, ZenonT(30)
    <3> QED BY <2>4, <3>1, NilHeight DEF Joined, Made
  <2>6. AvlOf(u, 1)
    BY <2>2, <2>4, AvlNil, AvlJoin
  <2>7. Between(u, Nil, f.key, f.score, Nil)
    BY <2>2, <2>3, <2>6, AvlInTree, JoinedBetween
  <2>8. AvlWith(u, 1, Held(Nil) \cup {f})
    BY <2>2, <2>6, <2>7, NilHeld DEF AvlWith, Between, Piled, All
  <2> HIDE DEF u
  <2> QED BY <2>3, <2>5, <2>8 DEF Inserted
<1>2. ASSUME NEW v, NEW g0, AvlOf(v, g0), v # Nil, v.left \in S, v.right \in S PROVE v \in S
  <2>1. v \in Tree
    BY <1>2, AvlInTree
  <2>2. SUFFICES ASSUME NEW g \in Nat, AvlOf(v, g), SortedTree(v), g < Levels, NEW f \in TreeEntries
                 PROVE  Inserted(v, g, f, InsertNode[v][f])
    BY <2>1
  <2> DEFINE k == v.key
             s == v.score
             l == v.left
             r == v.right
  <2>3. k \in Members /\ s \in Scores /\ v = Joined(k, s, l, r)
    BY <1>2, <2>2, AvlSplit
  <2>4. PICK i, j \in Nat : AvlOf(l, i) /\ AvlOf(r, j) /\ i - j \in -1..1 /\ g = 1 + Higher(i, j)
    BY <1>2, <2>2, AvlSplit
  <2>5. i < Levels /\ j < Levels /\ 1 + Higher(i, j) < Levels
    BY <2>2, <2>4, LevelsNat DEF Higher
  <2>6. Held(v) = All(l, k, s, r) /\ Piled(l, k, s, r) /\ Entry(k, s) \in TreeEntries
    BY <1>2, <2>2, AvlParts
  <2>7. /\ Before(f, v) => InsertNode[v][f] = GrownBy(f, [v EXCEPT !.left = InsertNode[l][f]])
        /\ ~ Before(f, v) /\ Before(v, f)
             => InsertNode[v][f] = GrownBy(f, [v EXCEPT !.right = InsertNode[r][f]])
        /\ ~ Before(f, v) /\ ~ Before(v, f) => InsertNode[v][f] = v
    BY <1>2, <2>1, InsertNodeAt
  <2>8. PICK x : v = Made(k, s, x, l, r)
    BY <2>3 DEF Joined
  <2>9. /\ Inserted(l, i, f, InsertNode[l][f])
        /\ Inserted(r, j, f, InsertNode[r][f])
    <3>1. Works(l) /\ Works(r)
      BY <1>2
    <3>2. SortedTree(l) /\ SortedTree(r)
      BY <2>6 DEF Piled
    <3> HIDE DEF l, r
    <3> QED BY <2>4, <2>5, <3>1, <3>2
  <2> HIDE DEF k, s, l, r
  <2>10. (Before(f, v) <=> Before(f, Entry(k, s))) /\ (Before(v, f) <=> Before(Entry(k, s), f))
    BY BeforeNode DEF k, s
  <2>11. Fork(k, s, l, i, r, j)
    BY <2>3, <2>4, <2>6 DEF Fork
  <2>12. CASE Before(f, v)
    <3> DEFINE w == GrownBy(f, Made(k, s, x, InsertNode[l][f], r))
    <3>1. InsertNode[v][f] = w
      <4>1. [v EXCEPT !.left = InsertNode[l][f]] = Made(k, s, x, InsertNode[l][f], r)
        BY <2>8 DEF Made
      <4> QED BY <2>7, <2>12, <4>1
    <3>2. Grew(w, g, Held(v) \cup {f}, f)
      BY <2>4, <2>5, <2>6, <2>9, <2>10, <2>12, <2>11, GrownLeft
    <3> HIDE DEF w
    <3> QED BY <3>1, <3>2 DEF Inserted, Grew
  <2>13. CASE ~ Before(f, v) /\ Before(v, f)
    <3> DEFINE w == GrownBy(f, Made(k, s, x, l, InsertNode[r][f]))
    <3>1. InsertNode[v][f] = w
      <4>1. [v EXCEPT !.right = InsertNode[r][f]] = Made(k, s, x, l, InsertNode[r][f])
        BY <2>8 DEF Made
      <4> QED BY <2>7, <2>13, <4>1
    <3>2. Grew(w, g, Held(v) \cup {f}, f)
      BY <2>4, <2>5, <2>6, <2>9, <2>10, <2>13, <2>11, GrownRight
    <3> HIDE DEF w
    <3> QED BY <3>1, <3>2 DEF Inserted, Grew
  <2>14. CASE ~ Before(f, v) /\ ~ Before(v, f)
    <3>1. InsertNode[v][f] = v
      BY <2>7, <2>14
    <3>2. f = Entry(k, s)
      BY <2>6, <2>10, <2>14, BeforeOrder
    <3>3. Held(v) \cup {f} = Held(v)
      BY <2>6, <3>2 DEF All
    <3>4. AvlWith(v, g, Held(v) \cup {f}) /\ g # g + 1
      BY <2>2, <3>3 DEF AvlWith
    <3> QED BY <3>1, <3>4 DEF Inserted
  <2> QED BY <2>12, <2>13, <2>14
<1>3. t \in S
  <2> HIDE DEF S
  <2> QED BY <1>1, <1>2, AvlInduction
<1> QED BY <1>3, AvlInTree
-----------------------------------------------------------------------------
(***************************************************************************)
(* Deletion.                                                                *)
(***************************************************************************)
\* What the end of avl_delete_node makes of a node whose subtrees are l and r.
LEMMA ShrunkMakes ==
    ASSUME NEW k, NEW s, NEW h, NEW l, NEW r, Height(l) \in Nat, Height(r) \in Nat,
           Balance(l) \in Int, Balance(r) \in Int
    PROVE  LET x == 1 + Higher(Height(l), Height(r))
               d == Height(l) - Height(r)
               w == Shrunk(Made(k, s, h, l, r))
           IN  /\ d \in -1..1 => w = Joined(k, s, l, r)
               /\ d > 1 /\ Balance(l) >= 0 => w = RotateRight(Made(k, s, x, l, r))
               /\ d < -1 /\ Balance(r) <= 0 => w = RotateLeft(Made(k, s, x, l, r))
               /\ d > 1 /\ Balance(l) < 0 => w = RotateRight(Made(k, s, x, RotateLeft(l), r))
               /\ d < -1 /\ Balance(r) > 0 => w = RotateLeft(Made(k, s, x, l, RotateRight(r)))
<1> DEFINE x == 1 + Higher(Height(l), Height(r))
           d == Height(l) - Height(r)
           node == Made(k, s, x, l, r)
           old == Made(k, s, h, l, r)
           w == Shrunk(old)
<1>1. UpdateHeight(old) = node /\ node = Joined(k, s, l, r) /\ old # Nil
  BY MadeFields, MadeNode DEF Joined
<1>2. Balance(node) = d /\ d \in Int
  BY MadeFields
<1>3. node.left = l /\ node.right = r
  BY MadeNode
<1>4. /\ [node EXCEPT !.left = RotateLeft(@)] = Made(k, s, x, RotateLeft(l), r)
      /\ [node EXCEPT !.right = RotateRight(@)] = Made(k, s, x, l, RotateRight(r))
  BY DEF Made
<1> HIDE DEF node, d, x, old
<1>5. w = CASE d > 1 /\ Balance(l) >= 0 -> RotateRight(node)
            [] d > 1 /\ Balance(l) < 0 -> RotateRight(Made(k, s, x, RotateLeft(l), r))
            [] d < -1 /\ Balance(r) <= 0 -> RotateLeft(node)
            [] d < -1 /\ Balance(r) > 0 -> RotateLeft(Made(k, s, x, l, RotateRight(r)))
            [] OTHER -> node
  BY <1>1, <1>2, <1>3, <1>4 DEF Shrunk
<1> HIDE DEF w
<1>6. d \in -1..1 => w = node
  BY <1>2, <1>5
<1>7. d > 1 /\ Balance(l) >= 0 => w = RotateRight(node)
  BY <1>2, <1>5
<1>8. d < -1 /\ Balance(r) <= 0 => w = RotateLeft(node)
  BY <1>2, <1>5
<1>9. d > 1 /\ Balance(l) < 0 => w = RotateRight(Made(k, s, x, RotateLeft(l), r))
  BY <1>2, <1>5
<1>10. d < -1 /\ Balance(r) > 0 => w = RotateLeft(Made(k, s, x, l, RotateRight(r)))
  BY <1>2, <1>5
<1> QED BY <1>1, <1>6, <1>7, <1>8, <1>9, <1>10 DEF d, x, node, old, w

\* Parts of a sorted tree, of which one may have lost a level.
Lopsided(k, s, l, i, r, j) ==
    /\ k \in Members /\ s \in Scores /\ i \in Nat /\ j \in Nat
    /\ AvlOf(l, i) /\ AvlOf(r, j) /\ i - j \in -2..2 /\ Piled(l, k, s, r)

\* They are put together to a balanced tree.
Mended(w, S, i, j) ==
    \E g \in {Higher(i, j), 1 + Higher(i, j)} :
        AvlWith(w, g, S) /\ (i - j \in -1..1 => g = 1 + Higher(i, j))

\* get_balance of an AVL tree.
LEMMA BalanceIs ==
    ASSUME NEW t, NEW h, AvlOf(t, h)
    PROVE  /\ Balance(t) \in Int
           /\ t # Nil => Balance(t) = Height(t.left) - Height(t.right)
<1>1. CASE t = Nil
  BY <1>1 DEF Balance
<1>2. CASE t # Nil
  BY <1>2, AvlSplit, AvlInTree DEF Balance
<1> QED BY <1>1, <1>2

\* When a deletion has taken a level on one side, the rotations leave an AVL tree.
LEMMA ShrunkMends ==
    ASSUME NEW k, NEW s, NEW h, NEW l, NEW i, NEW r, NEW j, Lopsided(k, s, l, i, r, j),
           1 + Higher(i, j) <= Levels
    PROVE  Mended(Shrunk(Made(k, s, h, l, r)), All(l, k, s, r), i, j)
<1> DEFINE w == Shrunk(Made(k, s, h, l, r))
           x == 1 + Higher(Height(l), Height(r))
<1>1. /\ k \in Members /\ s \in Scores /\ i \in Nat /\ j \in Nat
      /\ AvlOf(l, i) /\ AvlOf(r, j) /\ i - j \in -2..2 /\ Piled(l, k, s, r)
  BY DEF Lopsided
<1>2. Height(l) = i /\ Height(r) = j /\ l \in Tree /\ r \in Tree
  BY <1>1, AvlInTree
<1>3. Balance(l) \in Int /\ Balance(r) \in Int
  BY <1>1, BalanceIs
<1>4. CASE i - j \in -1..1
  <2>1. w = Joined(k, s, l, r)
    BY <1>1, <1>2, <1>3, <1>4, ShrunkMakes
  <2>2. AvlOf(w, 1 + Higher(i, j))
    BY <1>1, <1>4, <2>1, AvlJoin
  <2>3. Between(w, l, k, s, r)
    BY <1>1, <1>2, <2>1, <2>2, AvlInTree, JoinedBetween
  <2>4. AvlWith(w, 1 + Higher(i, j), All(l, k, s, r))
    BY <1>1, <2>2, <2>3 DEF AvlWith, Between
  <2> HIDE DEF w
  <2>5. Mended(w, All(l, k, s, r), i, j)
    BY <2>4 DEF Mended
  <2> QED BY <2>5 DEF w
<1>5. CASE i - j = 2
  <2>1. i = j + 2 /\ Higher(i, j) = j + 2 /\ j + 3 <= Levels
    BY <1>1, <1>5, LevelsNat DEF Higher
  <2>2. l # Nil
    BY <1>1, <1>2, <2>1, NilHeight
  <2>3. Balance(l) = Height(l.left) - Height(l.right)
    BY <1>1, <2>2, BalanceIs
  <2>4. /\ Height(l.left) = Height(l.right) + 1 => AvlOf(l.left, j + 1) /\ AvlOf(l.right, j)
        /\ Height(l.right) = Height(l.left) + 1 => AvlOf(l.right, j + 1) /\ AvlOf(l.left, j)
        /\ Height(l.left) = Height(l.right) => AvlOf(l.left, j + 1) /\ AvlOf(l.right, j + 1)
        /\ Height(l.left) \in Nat /\ Height(l.right) \in Nat
        /\ Height(l.left) - Height(l.right) \in -1..1
    BY <1>1, <2>1, LeaningParts
  <2>5. CASE Height(l.left) = Height(l.right) + 1
    <3>1. w = RotateRight(Made(k, s, x, l, r))
      BY <1>1, <1>2, <1>3, <2>1, <2>3, <2>4, <2>5, ShrunkMakes
    <3>2. AvlWith(w, j + 2, All(l, k, s, r))
      BY <1>1, <2>1, <2>4, <2>5, <3>1, SingleRight
    <3> HIDE DEF w
    <3>3. Mended(w, All(l, k, s, r), i, j)
      BY <1>1, <2>1, <3>2 DEF Mended
    <3> QED BY <3>3 DEF w
  <2>6. CASE Height(l.left) = Height(l.right)
    <3>1. w = RotateRight(Made(k, s, x, l, r))
      BY <1>1, <1>2, <1>3, <2>1, <2>3, <2>4, <2>6, ShrunkMakes
    <3>2. AvlWith(w, (j + 1) + 2, All(l, k, s, r))
      BY <1>1, <2>1, <2>4, <2>6, <3>1, SingleRight
    <3> HIDE DEF w
    <3>3. Mended(w, All(l, k, s, r), i, j)
      BY <1>1, <2>1, <3>2 DEF Mended
    <3> QED BY <3>3 DEF w
  <2>7. CASE Height(l.right) = Height(l.left) + 1
    <3>1. w = RotateRight(Made(k, s, x, RotateLeft(l), r))
      BY <1>1, <1>2, <1>3, <2>1, <2>3, <2>4, <2>7, ShrunkMakes
    <3>2. AvlWith(w, j + 2, All(l, k, s, r))
      BY <1>1, <2>1, <2>4, <2>7, <3>1, DoubleRight
    <3> HIDE DEF w
    <3>3. Mended(w, All(l, k, s, r), i, j)
      BY <1>1, <2>1, <3>2 DEF Mended
    <3> QED BY <3>3 DEF w
  <2> QED BY <2>4, <2>5, <2>6, <2>7
<1>6. CASE i - j = -2
  <2>1. j = i + 2 /\ Higher(i, j) = i + 2 /\ i + 3 <= Levels
    BY <1>1, <1>6, LevelsNat DEF Higher
  <2>2. r # Nil
    BY <1>1, <1>2, <2>1, NilHeight
  <2>3. Balance(r) = Height(r.left) - Height(r.right)
    BY <1>1, <2>2, BalanceIs
  <2>4. /\ Height(r.left) = Height(r.right) + 1 => AvlOf(r.left, i + 1) /\ AvlOf(r.right, i)
        /\ Height(r.right) = Height(r.left) + 1 => AvlOf(r.right, i + 1) /\ AvlOf(r.left, i)
        /\ Height(r.left) = Height(r.right) => AvlOf(r.left, i + 1) /\ AvlOf(r.right, i + 1)
        /\ Height(r.left) \in Nat /\ Height(r.right) \in Nat
        /\ Height(r.left) - Height(r.right) \in -1..1
    BY <1>1, <2>1, LeaningParts
  <2>5. CASE Height(r.right) = Height(r.left) + 1
    <3>1. w = RotateLeft(Made(k, s, x, l, r))
      BY <1>1, <1>2, <1>3, <2>1, <2>3, <2>4, <2>5, ShrunkMakes
    <3>2. AvlWith(w, i + 2, All(l, k, s, r))
      BY <1>1, <2>1, <2>4, <2>5, <3>1, SingleLeft
    <3> HIDE DEF w
    <3>3. Mended(w, All(l, k, s, r), i, j)
      BY <1>1, <2>1, <3>2 DEF Mended
    <3> QED BY <3>3 DEF w
  <2>6. CASE Height(r.left) = Height(r.right)
    <3>1. w = RotateLeft(Made(k, s, x, l, r))
      BY <1>1, <1>2, <1>3, <2>1, <2>3, <2>4, <2>6, ShrunkMakes
    <3>2. AvlWith(w, (i + 1) + 2, All(l, k, s, r))
      BY <1>1, <2>1, <2>4, <2>6, <3>1, SingleLeft
    <3> HIDE DEF w
    <3>3. Mended(w, All(l, k, s, r), i, j)
      BY <1>1, <2>1, <3>2 DEF Mended
    <3> QED BY <3>3 DEF w
  <2>7. CASE Height(r.left) = Height(r.right) + 1
    <3>1. w = RotateLeft(Made(k, s, x, l, RotateRight(r)))
      BY <1>1, <1>2, <1>3, <2>1, <2>3, <2>4, <2>7, ShrunkMakes
    <3>2. AvlWith(w, i + 2, All(l, k, s, r))
      BY <1>1, <2>1, <2>4, <2>7, <3>1, DoubleLeft
    <3> HIDE DEF w
    <3>3. Mended(w, All(l, k, s, r), i, j)
      BY <1>1, <2>1, <3>2 DEF Mended
    <3> QED BY <3>3 DEF w
  <2> QED BY <2>4, <2>5, <2>6, <2>7
<1> QED BY <1>1, <1>4, <1>5, <1>6

\* A tree that has lost nothing is left as it is.
LEMMA ShrunkSame == ASSUME NEW t, NEW h, AvlOf(t, h) PROVE Shrunk(t) = t
<1>1. CASE t = Nil
  BY <1>1 DEF Shrunk
<1>2. CASE t # Nil
  <2> DEFINE k == t.key
             s == t.score
             l == t.left
             r == t.right
             x == 1 + Higher(Height(l), Height(r))
  <2>1. t = Joined(k, s, l, r)
    BY <1>2, AvlSplit
  <2>2. PICK i, j \in Nat : AvlOf(l, i) /\ AvlOf(r, j) /\ i - j \in -1..1
    BY <1>2, AvlSplit
  <2>3. Height(l) = i /\ Height(r) = j /\ Balance(l) \in Int /\ Balance(r) \in Int
    BY <2>2, AvlInTree, BalanceIs
  <2>4. Joined(k, s, l, r) = Made(k, s, x, l, r)
    BY DEF Joined
  <2> HIDE DEF k, s, l, r, x
  <2>5. Shrunk(Made(k, s, x, l, r)) = Joined(k, s, l, r)
    BY <2>2, <2>3, ShrunkMakes
  <2> QED BY <2>1, <2>4, <2>5
<1> QED BY <1>1, <1>2

\* The node min_value_node finds has the first entry of the tree.
LEMMA LeastWorks ==
    ASSUME NEW t, NEW h, AvlOf(t, h), t # Nil, SortedTree(t)
    PROVE  LET m == MinValueNode[t] IN
           /\ m.key \in Members /\ m.score \in Scores
           /\ Entry(m.key, m.score) \in Held(t)
           /\ \A y \in Held(t) : y = Entry(m.key, m.score) \/ Before(Entry(m.key, m.score), y)
<1> DEFINE First(v) == LET m == MinValueNode[v] IN
             /\ m.key \in Members /\ m.score \in Scores
             /\ Entry(m.key, m.score) \in Held(v)
             /\ \A y \in Held(v) : y = Entry(m.key, m.score) \/ Before(Entry(m.key, m.score), y)
           S == {v \in Tree : v # Nil /\ SortedTree(v) => First(v)}
<1>1. Nil \in S
  BY AvlNil, AvlInTree
<1>2. ASSUME NEW v, NEW g, AvlOf(v, g), v # Nil, v.left \in S, v.right \in S PROVE v \in S
  <2>1. v \in Tree
    BY <1>2, AvlInTree
  <2>2. SUFFICES ASSUME SortedTree(v) PROVE First(v)
    BY <2>1
  <2> DEFINE k == v.key
             s == v.score
             l == v.left
             r == v.right
             e == Entry(k, s)
  <2>3. /\ k \in Members /\ s \in Scores /\ l \in Tree /\ r \in Tree /\ e \in TreeEntries
        /\ Held(v) = All(l, k, s, r) /\ Piled(l, k, s, r)
    BY <1>2, <2>2, AvlSplit, AvlParts
  <2>4. MinValueNode[v] = IF l = Nil THEN v ELSE MinValueNode[l]
    BY <1>2, <2>1, MinValueNodeDef, Zenon
  <2>5. CASE l = Nil
    <3>1. MinValueNode[v] = v
      BY <2>4, <2>5
    <3>2. Held(l) = {}
      BY <2>5, NilHeld
    <3>3. \A y \in Held(v) : y = e \/ Before(e, y)
      BY <2>3, <3>2 DEF All, Piled
    <3>4. e \in Held(v)
      BY <2>3 DEF All
    <3> QED BY <2>3, <3>1, <3>3, <3>4
  <2>6. CASE l # Nil
    <3> DEFINE m == MinValueNode[l]
               f == Entry(m.key, m.score)
    <3>1. MinValueNode[v] = m
      BY <2>4, <2>6
    <3>2. SortedTree(l)
      BY <2>3 DEF Piled
    <3>3. /\ m.key \in Members /\ m.score \in Scores /\ f \in Held(l)
          /\ \A y \in Held(l) : y = f \/ Before(f, y)
      BY <1>2, <2>6, <3>2
    <3>4. f \in TreeEntries
      BY <3>3, EntryOf
    <3> HIDE DEF m, f, k, s, l, r, e
    <3>5. Before(f, e)
      BY <2>3, <3>3 DEF Piled, e
    <3>6. ASSUME NEW y \in Held(r) PROVE Before(f, y)
      <4>1. Before(e, y)
        BY <2>3 DEF Piled, e
      <4>2. y \in TreeEntries
        BY <2>3, HeldEntries
      <4> QED BY <2>3, <3>4, <3>5, <4>1, <4>2, BeforeOrder
    <3>7. \A y \in Held(v) : y = f \/ Before(f, y)
      BY <2>3, <3>3, <3>5, <3>6 DEF All, e
    <3>8. f \in Held(v)
      BY <2>3, <3>3 DEF All
    <3> QED BY <3>1, <3>3, <3>7, <3>8 DEF f
  <2> QED BY <2>5, <2>6
<1>3. t \in S
  <2> HIDE DEF S
  <2> QED BY <1>1, <1>2, AvlInduction
<1> QED BY <1>3

\* What deleting an entry from a node does.
LEMMA DeleteNodeAt ==
    ASSUME NEW t \in Tree, t # Nil, NEW e \in TreeEntries
    PROVE  LET m == MinValueNode[t.right] IN
           /\ Before(e, t) => DeleteNode[t][e] = Shrunk([t EXCEPT !.left = DeleteNode[t.left][e]])
           /\ ~ Before(e, t) /\ Before(t, e)
                => DeleteNode[t][e] = Shrunk([t EXCEPT !.right = DeleteNode[t.right][e]])
           /\ ~ Before(e, t) /\ ~ Before(t, e) /\ t.left = Nil
                => DeleteNode[t][e] = Shrunk(t.right)
           /\ ~ Before(e, t) /\ ~ Before(t, e) /\ t.left # Nil /\ t.right = Nil
                => DeleteNode[t][e] = Shrunk(t.left)
           /\ ~ Before(e, t) /\ ~ Before(t, e) /\ t.left # Nil /\ t.right # Nil
                => DeleteNode[t][e] =
                     Shrunk([t EXCEPT !.key = m.key, !.score = m.score,
                                      !.right = DeleteNode[t.right][Entry(m.key, m.score)]])
<1> DEFINE m == MinValueNode[t.right]
           B(f) == IF t = Nil THEN Nil
                   ELSE IF Before(f, t) THEN Shrunk([t EXCEPT !.left = DeleteNode[@][f]])
                   ELSE IF Before(t, f) THEN Shrunk([t EXCEPT !.right = DeleteNode[@][f]])
                   ELSE IF t.left = Nil THEN Shrunk(t.right)
                   ELSE IF t.right = Nil THEN Shrunk(t.left)
                   ELSE LET least == MinValueNode[t.right] IN
                        Shrunk([t EXCEPT !.key = least.key, !.score = least.score,
                                         !.right = DeleteNode[@][Entry(least.key, least.score)]])
<1>1. DeleteNode[t] = [f \in TreeEntries |-> B(f)]
  BY DeleteNodeDef
<1>2. DeleteNode[t][e] = B(e)
  <2> HIDE DEF B
  <2> QED BY <1>1
<1>3. Before(e, t) => B(e) = Shrunk([t EXCEPT !.left = DeleteNode[t.left][e]])
  OBVIOUS
<1>4. ~ Before(e, t) /\ Before(t, e) => B(e) = Shrunk([t EXCEPT !.right = DeleteNode[t.right][e]])
  OBVIOUS
<1>5. ~ Before(e, t) /\ ~ Before(t, e) /\ t.left = Nil => B(e) = Shrunk(t.right)
  OBVIOUS
<1>6. ~ Before(e, t) /\ ~ Before(t, e) /\ t.left # Nil /\ t.right = Nil => B(e) = Shrunk(t.left)
  OBVIOUS
<1>7. ~ Before(e, t) /\ ~ Before(t, e) /\ t.left # Nil /\ t.right # Nil
        => B(e) = Shrunk([t EXCEPT !.key = m.key, !.score = m.score,
                                   !.right = DeleteNode[t.right][Entry(m.key, m.score)]])
  OBVIOUS
<1> HIDE DEF B, m
<1> QED BY <1>2, <1>3, <1>4, <1>5, <1>6, <1>7 DEF m

\* u is what deleting e makes of the tree t of height h.
Removes(t, h, e, u) ==
    \E g \in {h - 1, h} : AvlWith(u, g, Held(t) \ {e})

\* Deleting an entry: the tree stays balanced and sorted, no longer holds the entry
\* and loses one level at most.
LEMMA DeleteWorks ==
    ASSUME NEW t, NEW h, AvlOf(t, h), SortedTree(t), NEW e \in TreeEntries
    PROVE  Removes(t, h, e, DeleteNode[t][e])
<1> DEFINE Works(v) == \A g \in Nat : AvlOf(v, g) /\ SortedTree(v) =>
                          \A f \in TreeEntries : Removes(v, g, f, DeleteNode[v][f])
           S == {v \in Tree : Works(v)}
<1>1. Nil \in S
  <2>1. SUFFICES ASSUME NEW g \in Nat, AvlOf(Nil, g), NEW f \in TreeEntries
                 PROVE  Removes(Nil, g, f, DeleteNode[Nil][f])
    BY AvlNil, AvlInTree
  <2>2. Nil \in Tree /\ g = 0
    BY <2>1, AvlInTree, NilHeight
  <2>3. DeleteNode[Nil][f] = Nil
    BY <2>2, DeleteNodeDef, Zenon
  <2>4. AvlWith(Nil, 0, Held(Nil) \ {f})
    BY AvlNil, NilHeld DEF AvlWith
  <2> QED BY <2>2, <2>3, <2>4 DEF Removes
<1>2. ASSUME NEW v, NEW g0, AvlOf(v, g0), v # Nil, v.left \in S, v.right \in S PROVE v \in S
  <2>1. v \in Tree
    BY <1>2, AvlInTree
  <2>2. SUFFICES ASSUME NEW g \in Nat, AvlOf(v, g), SortedTree(v), NEW f \in TreeEntries
                 PROVE  Removes(v, g, f, DeleteNode[v][f])
    BY <2>1
  <2> DEFINE k == v.key
             s == v.score
             l == v.left
             r == v.right
             m == MinValueNode[r]
  <2>3. k \in Members /\ s \in Scores /\ v = Joined(k, s, l, r)
    BY <1>2, <2>2, AvlSplit
  <2>4. PICK i, j \in Nat : AvlOf(l, i) /\ AvlOf(r, j) /\ i - j \in -1..1 /\ g = 1 + Higher(i, j)
    BY <1>2, <2>2, AvlSplit
  <2>5. Held(v) = All(l, k, s, r) /\ Piled(l, k, s, r) /\ Entry(k, s) \in TreeEntries
    BY <1>2, <2>2, AvlParts
  <2>6. /\ Before(f, v) => DeleteNode[v][f] = Shrunk([v EXCEPT !.left = DeleteNode[l][f]])
        /\ ~ Before(f, v) /\ Before(v, f)
             => DeleteNode[v][f] = Shrunk([v EXCEPT !.right = DeleteNode[r][f]])
        /\ ~ Before(f, v) /\ ~ Before(v, f) /\ l = Nil => DeleteNode[v][f] = Shrunk(r)
        /\ ~ Before(f, v) /\ ~ Before(v, f) /\ l # Nil /\ r = Nil => DeleteNode[v][f] = Shrunk(l)
        /\ ~ Before(f, v) /\ ~ Before(v, f) /\ l # Nil /\ r # Nil
             => DeleteNode[v][f] =
                  Shrunk([v EXCEPT !.key = m.key, !.score = m.score,
                                   !.right = DeleteNode[r][Entry(m.key, m.score)]])
    BY <1>2, <2>1, DeleteNodeAt
  <2>7. PICK x : v = Made(k, s, x, l, r)
    BY <2>3 DEF Joined
  <2>8. \A y \in TreeEntries : Removes(l, i, y, DeleteNode[l][y]) /\ Removes(r, j, y, DeleteNode[r][y])
    <3>1. Works(l) /\ Works(r)
      BY <1>2
    <3>2. SortedTree(l) /\ SortedTree(r)
      BY <2>5 DEF Piled
    <3> HIDE DEF l, r
    <3> QED BY <2>4, <3>1, <3>2
  <2>9. (Before(f, v) <=> Before(f, Entry(k, s))) /\ (Before(v, f) <=> Before(Entry(k, s), f))
    BY BeforeNode
  <2>10. g <= Levels /\ l \in Tree /\ r \in Tree /\ Height(l) = i /\ Height(r) = j
    BY <2>2, <2>4, AvlInTree
  <2>11. Held(l) \subseteq TreeEntries /\ Held(r) \subseteq TreeEntries
    BY <2>10, HeldEntries
  <2> DEFINE e0 == Entry(k, s)
             u == DeleteNode[v][f]
  <2>12. /\ \A y \in Held(l) : Before(y, e0) /\ y \in TreeEntries
         /\ \A y \in Held(r) : Before(e0, y) /\ y \in TreeEntries
         /\ SortedTree(l) /\ SortedTree(r)
    BY <2>5, <2>11 DEF Piled
  <2>13. ASSUME NEW p \in Nat, NEW q \in Nat, NEW S1, Mended(u, S1, p, q), S1 = Held(v) \ {f},
                (p \in {i - 1, i} /\ q = j) \/ (p = i /\ q \in {j - 1, j})
         PROVE  Removes(v, g, f, u)
    <3>1. PICK z \in {Higher(p, q), 1 + Higher(p, q)} :
            AvlWith(u, z, S1) /\ (p - q \in -1..1 => z = 1 + Higher(p, q))
      BY <2>13 DEF Mended
    <3>2. z \in {g - 1, g}
      BY <2>4, <2>13, <3>1 DEF Higher
    <3> HIDE DEF u
    <3> QED BY <2>13, <3>1, <3>2 DEF Removes
  <2> HIDE DEF k, s, l, r, m
  <2>14. CASE Before(f, v)
    <3>1. PICK p \in {i - 1, i} : AvlWith(DeleteNode[l][f], p, Held(l) \ {f})
      BY <2>8 DEF Removes
    <3> DEFINE n == DeleteNode[l][f]
    <3>2. AvlOf(n, p) /\ SortedTree(n) /\ Held(n) = Held(l) \ {f} /\ p \in Nat
      BY <3>1, AvlInTree DEF AvlWith
    <3>3. u = Shrunk(Made(k, s, x, n, r))
      <4>1. [v EXCEPT !.left = n] = Made(k, s, x, n, r)
        BY <2>7 DEF Made
      <4> QED BY <2>6, <2>14, <4>1
    <3> HIDE DEF n, u
    <3>4. Lopsided(k, s, n, p, r, j)
      <4>1. p - j \in -2..2
        BY <2>4, <3>1
      <4>2. Piled(n, k, s, r)
        BY <2>12, <3>2 DEF Piled
      <4> QED BY <2>3, <2>4, <3>2, <4>1, <4>2 DEF Lopsided
    <3>5. 1 + Higher(p, j) <= Levels
      BY <2>4, <2>10, <3>1, <3>2, LevelsNat DEF Higher
    <3>6. Mended(u, All(n, k, s, r), p, j)
      BY <3>3, <3>4, <3>5, ShrunkMends
    <3>7. All(n, k, s, r) = Held(v) \ {f}
      <4>1. f # e0
        BY <2>5, <2>9, <2>14, BeforeOrder
      <4>2. f \notin Held(r)
        BY <2>5, <2>9, <2>12, <2>14, BeforeOrder
      <4> QED BY <2>5, <3>2, <4>1, <4>2 DEF All
    <3> QED BY <2>13, <3>1, <3>2, <3>6, <3>7 DEF u
  <2>15. CASE ~ Before(f, v) /\ Before(v, f)
    <3>1. PICK q \in {j - 1, j} : AvlWith(DeleteNode[r][f], q, Held(r) \ {f})
      BY <2>8 DEF Removes
    <3> DEFINE n == DeleteNode[r][f]
    <3>2. AvlOf(n, q) /\ SortedTree(n) /\ Held(n) = Held(r) \ {f} /\ q \in Nat
      BY <3>1, AvlInTree DEF AvlWith
    <3>3. u = Shrunk(Made(k, s, x, l, n))
      <4>1. [v EXCEPT !.right = n] = Made(k, s, x, l, n)
        BY <2>7 DEF Made
      <4> QED BY <2>6, <2>15, <4>1
    <3> HIDE DEF n, u
    <3>4. Lopsided(k, s, l, i, n, q)
      <4>1. i - q \in -2..2
        BY <2>4, <3>1
      <4>2. Piled(l, k, s, n)
        BY <2>12, <3>2 DEF Piled
      <4> QED BY <2>3, <2>4, <3>2, <4>1, <4>2 DEF Lopsided
    <3>5. 1 + Higher(i, q) <= Levels
      BY <2>4, <2>10, <3>1, <3>2, LevelsNat DEF Higher
    <3>6. Mended(u, All(l, k, s, n), i, q)
      BY <3>3, <3>4, <3>5, ShrunkMends
    <3>7. All(l, k, s, n) = Held(v) \ {f}
      <4>1. f # e0
        BY <2>5, <2>9, <2>15, BeforeOrder
      <4>2. f \notin Held(l)
        BY <2>5, <2>9, <2>12, <2>15, BeforeOrder
      <4> QED BY <2>5, <3>2, <4>1, <4>2 DEF All
    <3> QED BY <2>13, <3>1, <3>2, <3>6, <3>7 DEF u
  <2>16. CASE ~ Before(f, v) /\ ~ Before(v, f)
    <3>1. f = e0
      BY <2>5, <2>9, <2>16, BeforeOrder
    <3>2. f \notin Held(l) /\ f \notin Held(r)
      BY <2>12, <3>1, BeforeOrder
    <3>3. Held(v) \ {f} = Held(l) \cup Held(r)
      BY <2>5, <3>1, <3>2 DEF All
    <3>4. CASE l = Nil
      <4>1. u = r
        BY <2>4, <2>6, <2>16, <3>4, ShrunkSame
      <4>2. Held(l) = {} /\ i = 0
        BY <2>10, <3>4, NilHeld, NilHeight
      <4>3. j \in {g - 1, g}
        BY <2>4, <4>2 DEF Higher
      <4>4. AvlWith(r, j, Held(v) \ {f})
        BY <2>4, <2>12, <3>3, <4>2 DEF AvlWith
      <4> HIDE DEF u
      <4> QED BY <4>1, <4>3, <4>4 DEF Removes, u
    <3>5. CASE l # Nil /\ r = Nil
      <4>1. u = l
        BY <2>4, <2>6, <2>16, <3>5, ShrunkSame
      <4>2. Held(r) = {} /\ j = 0
        BY <2>10, <3>5, NilHeld, NilHeight
      <4>3. i \in {g - 1, g}
        BY <2>4, <4>2 DEF Higher
      <4>4. AvlWith(l, i, Held(v) \ {f})
        BY <2>4, <2>12, <3>3, <4>2 DEF AvlWith
      <4> HIDE DEF u
      <4> QED BY <4>1, <4>3, <4>4 DEF Removes, u
    <3>6. CASE l # Nil /\ r # Nil
      <4> DEFINE f1 == Entry(m.key, m.score)
                 n == DeleteNode[r][f1]
      <4>1. /\ m.key \in Members /\ m.score \in Scores /\ f1 \in Held(r)
            /\ \A y \in Held(r) : y = f1 \/ Before(f1, y)
        BY <2>4, <2>12, <3>6, LeastWorks DEF m
      <4>2. f1 \in TreeEntries
        BY <4>1, EntryOf
      <4>3. PICK q \in {j - 1, j} : AvlWith(n, q, Held(r) \ {f1})
        BY <2>8, <4>2 DEF Removes
      <4>4. AvlOf(n, q) /\ SortedTree(n) /\ Held(n) = Held(r) \ {f1} /\ q \in Nat
        BY <4>3, AvlInTree DEF AvlWith
      <4>5. u = Shrunk(Made(m.key, m.score, x, l, n))
        <5>1. [v EXCEPT !.key = m.key, !.score = m.score, !.right = n] = Made(m.key, m.score, x, l, n)
          <6>1. [v EXCEPT !.key = m.key] = Made(m.key, s, x, l, r)
            BY <2>7 DEF Made
          <6>2. [Made(m.key, s, x, l, r) EXCEPT !.score = m.score] = Made(m.key, m.score, x, l, r)
            BY DEF Made
          <6>3. [Made(m.key, m.score, x, l, r) EXCEPT !.right = n] = Made(m.key, m.score, x, l, n)
            BY DEF Made
          <6> HIDE DEF n
          <6> QED BY <6>1, <6>2, <6>3
        <5> QED BY <2>6, <2>16, <3>6, <5>1
      <4> HIDE DEF f1, n, u
      <4>6. Lopsided(m.key, m.score, l, i, n, q)
        <5>1. i - q \in -2..2
          BY <2>4, <4>3
        <5>2. ASSUME NEW y \in Held(l) PROVE Before(y, f1)
          BY <2>5, <2>12, <4>1, <4>2, BeforeOrder
        <5>3. ASSUME NEW y \in Held(n) PROVE Before(f1, y)
          BY <4>1, <4>4
        <5>4. Piled(l, m.key, m.score, n)
          BY <2>12, <4>4, <5>2, <5>3 DEF Piled, f1
        <5> QED BY <2>4, <4>1, <4>4, <5>1, <5>4 DEF Lopsided
      <4>7. 1 + Higher(i, q) <= Levels
        BY <2>4, <2>10, <4>3, <4>4, LevelsNat DEF Higher
      <4>8. Mended(u, All(l, m.key, m.score, n), i, q)
        BY <4>5, <4>6, <4>7, ShrunkMends
      <4>9. All(l, m.key, m.score, n) = Held(v) \ {f}
        BY <3>3, <4>1, <4>4 DEF All, f1
      <4> QED BY <2>13, <4>3, <4>4, <4>8, <4>9 DEF u
    <3> QED BY <3>4, <3>5, <3>6
  <2> QED BY <2>14, <2>15, <2>16
<1>3. t \in S
  <2> HIDE DEF S
  <2> QED BY <1>1, <1>2, AvlInduction
<1> QED BY <1>3, AvlInTree
-----------------------------------------------------------------------------
(***************************************************************************)
(* Search, and how much a tree holds.                                       *)
(***************************************************************************)
\* What the search for an entry in a node does.
LEMMA FoundAt ==
    ASSUME NEW t \in Tree, t # Nil, NEW e \in TreeEntries
    PROVE  /\ Before(e, t) => Found[t][e] = Found[t.left][e]
           /\ ~ Before(e, t) /\ Before(t, e) => Found[t][e] = Found[t.right][e]
           /\ ~ Before(e, t) /\ ~ Before(t, e) => Found[t][e] = TRUE
<1> DEFINE B(f) == IF t = Nil THEN FALSE
                   ELSE IF Before(f, t) THEN Found[t.left][f]
                   ELSE IF Before(t, f) THEN Found[t.right][f]
                   ELSE TRUE
<1>1. Found[t] = [f \in TreeEntries |-> B(f)]
  BY FoundDef
<1>2. Found[t][e] = B(e)
  <2> HIDE DEF B
  <2> QED BY <1>1
<1> QED BY <1>2

\* A search finds what the tree holds.
LEMMA FoundWorks ==
    ASSUME NEW t, NEW h, AvlOf(t, h), SortedTree(t), NEW e \in TreeEntries
    PROVE  Found[t][e] = (e \in Held(t))
<1> DEFINE Works(v) == \A f \in TreeEntries : Found[v][f] = (f \in Held(v))
           S == {v \in Tree : SortedTree(v) => Works(v)}
<1>1. Nil \in S
  <2>1. Nil \in Tree
    BY AvlNil, AvlInTree
  <2>2. ASSUME NEW f \in TreeEntries PROVE Found[Nil][f] = FALSE
    BY <2>1, FoundDef, Zenon
  <2>3. ASSUME NEW f \in TreeEntries PROVE Found[Nil][f] = (f \in Held(Nil))
    <3>1. (f \in Held(Nil)) = FALSE
      BY NilHeld
    <3> QED BY <2>2, <3>1
  <2> QED BY <2>1, <2>3
<1>2. ASSUME NEW v, NEW g, AvlOf(v, g), v # Nil, v.left \in S, v.right \in S PROVE v \in S
  <2>1. v \in Tree
    BY <1>2, AvlInTree
  <2>2. SUFFICES ASSUME SortedTree(v), NEW f \in TreeEntries PROVE Found[v][f] = (f \in Held(v))
    BY <2>1
  <2> DEFINE l == v.left
             r == v.right
             x == Entry(v.key, v.score)
  <2>3. /\ l \in Tree /\ r \in Tree /\ x \in TreeEntries
        /\ Held(v) = Held(l) \cup {x} \cup Held(r)
        /\ Piled(l, v.key, v.score, r)
    BY <1>2, <2>2, AvlParts DEF All
  <2>4. /\ SortedTree(l) /\ SortedTree(r)
        /\ \A y \in Held(l) : Before(y, x) /\ y \in TreeEntries
        /\ \A y \in Held(r) : Before(x, y) /\ y \in TreeEntries
    BY <2>3, HeldEntries DEF Piled
  <2>5. (Before(f, v) <=> Before(f, x)) /\ (Before(v, f) <=> Before(x, f))
    BY BeforeNode
  <2>6. /\ Before(f, v) => Found[v][f] = Found[l][f]
        /\ ~ Before(f, v) /\ Before(v, f) => Found[v][f] = Found[r][f]
        /\ ~ Before(f, v) /\ ~ Before(v, f) => Found[v][f] = TRUE
    BY <1>2, <2>1, FoundAt
  <2>7. Found[l][f] = (f \in Held(l)) /\ Found[r][f] = (f \in Held(r))
    BY <1>2, <2>4
  <2> HIDE DEF l, r, x
  <2>8. CASE Before(f, v)
    <3>1. f # x /\ f \notin Held(r)
      BY <2>3, <2>4, <2>5, <2>8, BeforeOrder
    <3> QED BY <2>3, <2>6, <2>7, <2>8, <3>1
  <2>9. CASE ~ Before(f, v) /\ Before(v, f)
    <3>1. f # x /\ f \notin Held(l)
      BY <2>3, <2>4, <2>5, <2>9, BeforeOrder
    <3> QED BY <2>3, <2>6, <2>7, <2>9, <3>1
  <2>10. CASE ~ Before(f, v) /\ ~ Before(v, f)
    <3>1. f = x
      BY <2>3, <2>5, <2>10, BeforeOrder
    <3> QED BY <2>3, <2>6, <2>10, <3>1
  <2> QED BY <2>8, <2>9, <2>10
<1>3. t \in S
  <2> HIDE DEF S
  <2> QED BY <1>1, <1>2, AvlInduction
<1> QED BY <1>3

\* The first n entries of a sorted sequence are n.
LEMMA FirstOnes ==
    ASSUME NEW q \in Seq(TreeEntries), Sorted(q), NEW n \in 0..Len(q)
    PROVE  /\ IsFiniteSet({q[i] : i \in 1..n})
           /\ Cardinality({q[i] : i \in 1..n}) = n
<1> DEFINE T(m) == {q[i] : i \in 1..m}
           S == {m \in Nat : m <= Len(q) => IsFiniteSet(T(m)) /\ Cardinality(T(m)) = m}
<1>1. 0 \in S
  <2>1. T(0) = {}
    OBVIOUS
  <2> QED BY <2>1, FS_EmptySet
<1>2. ASSUME NEW m \in Nat, m \in S PROVE m + 1 \in S
  <2>1. SUFFICES ASSUME m + 1 <= Len(q) PROVE IsFiniteSet(T(m + 1)) /\ Cardinality(T(m + 1)) = m + 1
    OBVIOUS
  <2>2. IsFiniteSet(T(m)) /\ Cardinality(T(m)) = m
    BY <1>2, <2>1
  <2>3. T(m + 1) = T(m) \cup {q[m + 1]}
    OBVIOUS
  <2>4. ASSUME q[m + 1] \in T(m) PROVE FALSE
    <3>1. PICK i \in 1..m : q[m + 1] = q[i]
      BY <2>4
    <3>2. i \in 1..Len(q) /\ m + 1 \in 1..Len(q) /\ i < m + 1
      BY <2>1
    <3>3. Before(q[i], q[m + 1]) /\ q[i] \in TreeEntries
      BY <3>2 DEF Sorted
    <3> QED BY <3>1, <3>3, BeforeOrder
  <2> HIDE DEF T
  <2> QED BY <2>2, <2>3, <2>4, FS_AddElement
<1>3. Nat \subseteq S
  <2> HIDE DEF S
  <2> QED BY <1>1, <1>2, SetInduction
<1>4. n \in Nat /\ n <= Len(q)
  OBVIOUS
<1> QED BY <1>3, <1>4

\* A sorted tree visits each of its entries once.
LEMMA HeldSize ==
    ASSUME NEW t \in Tree, SortedTree(t)
    PROVE  IsFiniteSet(Held(t)) /\ Cardinality(Held(t)) = Len(InOrder[t])
<1>1. InOrder[t] \in Seq(TreeEntries)
  BY InOrderType
<1>2. Held(t) = {InOrder[t][i] : i \in 1..Len(InOrder[t])}
  BY ToSetIs DEF Held
<1>3. Len(InOrder[t]) \in 0..Len(InOrder[t])
  BY <1>1
<1> QED BY <1>1, <1>2, <1>3, FirstOnes DEF SortedTree

\* A balanced tree is no higher than the number of its entries.
LEMMA HeightBound ==
    ASSUME NEW t, NEW h, AvlOf(t, h)
    PROVE  h <= Len(InOrder[t])
<1> DEFINE S == {v \in Tree : \A g \in Nat : AvlOf(v, g) => g <= Len(InOrder[v])}
<1>1. Nil \in S
  <2>1. Len(<<>>) = 0
    OBVIOUS
  <2>2. \A g \in Nat : AvlOf(Nil, g) => g = 0
    BY AvlInTree, NilHeight
  <2> QED BY <2>1, <2>2, AvlNil, AvlInTree, NilHeld
<1>2. ASSUME NEW v, NEW g0, AvlOf(v, g0), v # Nil, v.left \in S, v.right \in S PROVE v \in S
  <2>1. SUFFICES ASSUME NEW g \in Nat, AvlOf(v, g) PROVE g <= Len(InOrder[v])
    BY <1>2, AvlInTree
  <2>2. PICK i, j \in Nat : AvlOf(v.left, i) /\ AvlOf(v.right, j) /\ i - j \in -1..1 /\ g = 1 + Higher(i, j)
    BY <1>2, <2>1, AvlSplit
  <2>3. /\ v.left \in Tree /\ v.right \in Tree /\ Entry(v.key, v.score) \in TreeEntries
        /\ InOrder[v] = InOrder[v.left] \o <<Entry(v.key, v.score)>> \o InOrder[v.right]
    BY <1>2, AvlParts
  <2>4. i <= Len(InOrder[v.left]) /\ j <= Len(InOrder[v.right])
    BY <1>2, <2>2
  <2>5. /\ InOrder[v.left] \in Seq(TreeEntries) /\ InOrder[v.right] \in Seq(TreeEntries)
        /\ Len(InOrder[v]) = Len(InOrder[v.left]) + 1 + Len(InOrder[v.right])
    BY <2>3, InOrderType, Pieces
  <2>6. Len(InOrder[v.left]) \in Nat /\ Len(InOrder[v.right]) \in Nat
    BY <2>5
  <2>7. 1 + Higher(i, j) <= Len(InOrder[v.left]) + 1 + Len(InOrder[v.right])
    <3> DEFINE a == Len(InOrder[v.left])
               b == Len(InOrder[v.right])
    <3>1. i \in Nat /\ j \in Nat /\ i <= a /\ j <= b /\ a \in Nat /\ b \in Nat
      BY <2>4, <2>6
    <3> HIDE DEF a, b
    <3>2. 1 + Higher(i, j) <= a + 1 + b
      BY <3>1 DEF Higher
    <3> QED BY <3>2 DEF a, b
  <2>8. Len(InOrder[v]) = Len(InOrder[v.left]) + 1 + Len(InOrder[v.right])
    BY <2>5
  <2> QED BY <2>2, <2>7, <2>8
<1>3. t \in S
  <2> HIDE DEF S
  <2> QED BY <1>1, <1>2, AvlInduction
<1> QED BY <1>3, AvlInTree

-----------------------------------------------------------------------------
(***************************************************************************)
(* A dictionary and a tree in step.                                         *)
(***************************************************************************)
\* The entries f stands for.
ScoredBy(f) == {Entry(m, f[m]) : m \in {n \in Members : f[n] # Absent}}

\* The tree tr is balanced and holds what the dictionary f has.
Stored(tr, f) ==
    /\ f \in [Members -> Scores \cup {Absent}]
    /\ tr = [root |-> tr.root, count |-> tr.count]
    /\ \E h \in 0..Levels : AvlOf(tr.root, h)
    /\ SortedTree(tr.root) /\ Held(tr.root) = ScoredBy(f)
    /\ tr.count = Cardinality(Held(tr.root))

\* What is stored of one member.
LEMMA ScoredOf ==
    ASSUME NEW f \in [Members -> Scores \cup {Absent}], NEW m \in Members, NEW s
    PROVE  /\ Entry(m, s) \in ScoredBy(f) <=> f[m] = s /\ s # Absent
           /\ ScoredBy(f) \subseteq TreeEntries
<1>1. ASSUME NEW n, NEW r, Entry(m, s) = Entry(n, r) PROVE m = n /\ s = r
  BY <1>1, EntryOf
<1>2. ScoredBy(f) \subseteq TreeEntries
  BY EntryOf DEF ScoredBy
<1>3. Entry(m, s) \in ScoredBy(f) <=> \E n \in Members : f[n] # Absent /\ Entry(m, s) = Entry(n, f[n])
  BY DEF ScoredBy
<1> QED BY <1>1, <1>2, <1>3

\* What another score, or none, makes of what is stored.
LEMMA ScoredExcept ==
    ASSUME NEW f \in [Members -> Scores \cup {Absent}], NEW m \in Members
    PROVE  /\ f[m] # Absent =>
                /\ [f EXCEPT ![m] = Absent] \in [Members -> Scores \cup {Absent}]
                /\ ScoredBy([f EXCEPT ![m] = Absent]) = ScoredBy(f) \ {Entry(m, f[m])}
           /\ \A s \in Scores : f[m] = Absent =>
                /\ [f EXCEPT ![m] = s] \in [Members -> Scores \cup {Absent}]
                /\ ScoredBy([f EXCEPT ![m] = s]) = ScoredBy(f) \cup {Entry(m, s)}
                /\ Entry(m, s) \notin ScoredBy(f)
<1>1. ASSUME NEW x \in Members, NEW y \in Members, NEW r, NEW s, Entry(x, r) = Entry(y, s)
      PROVE  x = y /\ r = s
  BY <1>1, EntryOf
<1>2. ASSUME f[m] # Absent
      PROVE  ScoredBy([f EXCEPT ![m] = Absent]) = ScoredBy(f) \ {Entry(m, f[m])}
  BY <1>1, <1>2 DEF ScoredBy
<1>3. ASSUME NEW s \in Scores, f[m] = Absent
      PROVE  ScoredBy([f EXCEPT ![m] = s]) = ScoredBy(f) \cup {Entry(m, s)}
  <2> DEFINE g == [f EXCEPT ![m] = s]
  <2>1. g[m] = s /\ s # Absent /\ \A n \in Members : n # m => g[n] = f[n]
    BY ZSetAssumption
  <2> HIDE DEF g
  <2>2. ScoredBy(g) = ScoredBy(f) \cup {Entry(m, s)}
    BY <1>1, <1>3, <2>1 DEF ScoredBy
  <2> QED BY <2>2 DEF g
<1>4. ASSUME NEW s \in Scores, f[m] = Absent PROVE Entry(m, s) \notin ScoredBy(f)
  BY <1>4, ScoredOf, ZSetAssumption
<1> QED BY <1>2, <1>3, <1>4

\* Without one of the members, a tree has room for one more level.
LEMMA RoomFor ==
    ASSUME NEW tr, NEW f, Stored(tr, f), NEW h, AvlOf(tr.root, h),
           NEW m \in Members, f[m] = Absent
    PROVE  h < Levels
<1> DEFINE R == Members \ {m}
           D == {n \in Members : f[n] # Absent}
           F == [n \in D |-> Entry(n, f[n])]
<1>1. IsFiniteSet(R) /\ Cardinality(R) = Levels - 1
  BY ZSetAssumption, FS_RemoveElement DEF Levels
<1>2. D \in SUBSET R
  OBVIOUS
<1>3. IsFiniteSet(D) /\ Cardinality(D) <= Cardinality(R)
  <2> HIDE DEF D, R
  <2> QED BY <1>1, <1>2, FS_Subset
<1>4. F \in Surjection(D, ScoredBy(f))
  BY DEF Surjection, ScoredBy
<1>5. Cardinality(ScoredBy(f)) <= Cardinality(D)
  <2> HIDE DEF D, F
  <2> QED BY <1>3, <1>4, FS_Surjection
<1>6. h <= Len(InOrder[tr.root]) /\ Len(InOrder[tr.root]) = Cardinality(ScoredBy(f))
  BY HeightBound, HeldSize, AvlInTree DEF Stored
<1>7. Cardinality(D) \in Nat /\ Cardinality(R) \in Int /\ Levels \in Nat /\ h \in Nat
  BY <1>1, <1>3, FS_CardinalityType, LevelsNat, AvlInTree
<1>8. Cardinality(ScoredBy(f)) \in Nat
  BY <1>6, HeldSize, FS_CardinalityType, AvlInTree DEF Stored
<1> HIDE DEF R, D, F
<1> QED BY <1>1, <1>3, <1>5, <1>6, <1>7, <1>8

\* ZADD of a new member.
LEMMA InsertStored ==
    ASSUME NEW tr, NEW f, Stored(tr, f), NEW m \in Members, NEW s \in Scores, f[m] = Absent
    PROVE  Stored(AvlInsert(tr, Entry(m, s)), [f EXCEPT ![m] = s])
<1> DEFINE e == Entry(m, s)
           u == InsertNode[tr.root][e]
           g == [f EXCEPT ![m] = s]
<1>1. PICK h : AvlOf(tr.root, h)
  BY DEF Stored
<1>2. h < Levels /\ e \in TreeEntries /\ SortedTree(tr.root) /\ f \in [Members -> Scores \cup {Absent}]
  BY <1>1, RoomFor, EntryOf DEF Stored
<1>3. Inserted(tr.root, h, e, u)
  BY <1>1, <1>2, InsertWorks
<1>4. PICK i : AvlWith(u, i, Held(tr.root) \cup {e})
  BY <1>3 DEF Inserted
<1>5. /\ g \in [Members -> Scores \cup {Absent}]
      /\ ScoredBy(g) = ScoredBy(f) \cup {e} /\ e \notin ScoredBy(f)
  BY <1>2, ScoredExcept
<1>6. AvlOf(u, i) /\ SortedTree(u) /\ Held(u) = Held(tr.root) \cup {e}
  BY <1>4 DEF AvlWith
<1>7. Held(tr.root) = ScoredBy(f) /\ tr.count = Cardinality(Held(tr.root))
  BY DEF Stored
<1>8. Found[tr.root][e] = FALSE
  <2>1. (e \in Held(tr.root)) = FALSE
    BY <1>5, <1>7
  <2> QED BY <1>1, <1>2, <2>1, FoundWorks
<1>9. AvlInsert(tr, e) = [root |-> u, count |-> tr.count + 1]
  BY <1>8 DEF AvlInsert
<1>10. IsFiniteSet(Held(tr.root))
  BY <1>1, <1>2, AvlInTree, HeldSize
<1>11. tr.count + 1 = Cardinality(Held(u))
  <2> HIDE DEF e, u, g
  <2>1. e \notin Held(tr.root)
    BY <1>5, <1>7
  <2>2. Cardinality(Held(tr.root) \cup {e}) = Cardinality(Held(tr.root)) + 1
    BY <1>10, <2>1, FS_AddElement
  <2> QED BY <1>6, <1>7, <2>2
<1>12. Stored([root |-> u, count |-> tr.count + 1], g)
  <2> HIDE DEF e, u, g
  <2>1. i \in 0..Levels
    BY <1>6 DEF AvlOf
  <2> QED BY <1>5, <1>6, <1>7, <1>11, <2>1 DEF Stored
<1> QED BY <1>9, <1>12

\* A member is taken out.
LEMMA DeleteStored ==
    ASSUME NEW tr, NEW f, Stored(tr, f), NEW m \in Members, f[m] # Absent
    PROVE  Stored(AvlDelete(tr, Entry(m, f[m])), [f EXCEPT ![m] = Absent])
<1> DEFINE e == Entry(m, f[m])
           u == DeleteNode[tr.root][e]
           g == [f EXCEPT ![m] = Absent]
<1>1. PICK h : AvlOf(tr.root, h)
  BY DEF Stored
<1>2. SortedTree(tr.root) /\ f \in [Members -> Scores \cup {Absent}]
  BY DEF Stored
<1>3. e \in TreeEntries /\ e \in ScoredBy(f)
  BY <1>2, ScoredOf
<1>4. Removes(tr.root, h, e, u)
  BY <1>1, <1>2, <1>3, DeleteWorks
<1>5. PICK i : AvlWith(u, i, Held(tr.root) \ {e})
  BY <1>4 DEF Removes
<1>6. g \in [Members -> Scores \cup {Absent}] /\ ScoredBy(g) = ScoredBy(f) \ {e}
  BY <1>2, ScoredExcept
<1>7. AvlOf(u, i) /\ SortedTree(u) /\ Held(u) = Held(tr.root) \ {e}
  BY <1>5 DEF AvlWith
<1>8. Held(tr.root) = ScoredBy(f) /\ tr.count = Cardinality(Held(tr.root))
  BY DEF Stored
<1>9. Found[tr.root][e] = TRUE
  <2>1. (e \in Held(tr.root)) = TRUE
    BY <1>3, <1>8
  <2> QED BY <1>1, <1>2, <1>3, <2>1, FoundWorks
<1>10. AvlDelete(tr, e) = [root |-> u, count |-> tr.count - 1]
  BY <1>9 DEF AvlDelete
<1>11. IsFiniteSet(Held(tr.root))
  BY <1>1, <1>2, AvlInTree, HeldSize
<1>12. tr.count - 1 = Cardinality(Held(u))
  <2> HIDE DEF e, u, g
  <2>1. e \in Held(tr.root)
    BY <1>3, <1>8
  <2>2. Cardinality(Held(tr.root) \ {e}) = Cardinality(Held(tr.root)) - 1
    BY <1>11, <2>1, FS_RemoveElement
  <2> QED BY <1>7, <1>8, <2>2
<1>13. Stored([root |-> u, count |-> tr.count - 1], g)
  <2> HIDE DEF e, u, g
  <2>1. i \in 0..Levels
    BY <1>7 DEF AvlOf
  <2> QED BY <1>6, <1>7, <1>8, <1>12, <2>1 DEF Stored
<1> QED BY <1>10, <1>13

\* zset_rem.
LEMMA WithoutStored ==
    ASSUME NEW z, Stored(z.tree, z.dict), NEW m \in Members
    PROVE  Stored(Without(z, m).tree, Without(z, m).dict)
<1>1. CASE z.dict[m] = Absent
  BY <1>1 DEF Without
<1>2. CASE z.dict[m] # Absent
  BY <1>2, DeleteStored DEF Without
<1> QED BY <1>1, <1>2

\* What a stored tree is like.
LEMMA StoredParts ==
    ASSUME NEW tr, NEW f, Stored(tr, f)
    PROVE  /\ tr.root \in Tree /\ IsBalanced[tr.root]
           /\ InOrder[tr.root] \in Seq(TreeEntries) /\ Sorted(InOrder[tr.root])
           /\ ToSet(InOrder[tr.root]) = ScoredBy(f)
           /\ tr.count \in 0..Cardinality(Members)
           /\ tr.count = Len(InOrder[tr.root]) /\ tr.count = Cardinality(ScoredBy(f))
<1>1. PICK h \in 0..Levels : AvlOf(tr.root, h)
  BY DEF Stored
<1>2. tr.root \in Tree /\ IsBalanced[tr.root] /\ SortedTree(tr.root) /\ Held(tr.root) = ScoredBy(f)
  BY <1>1, AvlInTree DEF Stored, AvlOf
<1>3. InOrder[tr.root] \in Seq(TreeEntries)
  BY <1>2, InOrderType
<1>4. tr.count = Cardinality(ScoredBy(f)) /\ tr.count = Len(InOrder[tr.root])
  BY <1>2, HeldSize DEF Stored
<1>5. tr.count \in 0..Cardinality(Members)
  <2> DEFINE D == {n \in Members : f[n] # Absent}
             F == [n \in D |-> Entry(n, f[n])]
  <2>1. IsFiniteSet(D) /\ Cardinality(D) <= Cardinality(Members)
    BY ZSetAssumption, FS_Subset
  <2>2. F \in Surjection(D, ScoredBy(f))
    BY DEF Surjection, ScoredBy
  <2>3. Cardinality(ScoredBy(f)) <= Cardinality(D)
    <3> HIDE DEF D, F
    <3> QED BY <2>1, <2>2, FS_Surjection
  <2>4. Cardinality(D) \in Nat /\ Cardinality(Members) \in Nat /\ tr.count \in Nat
    BY <1>3, <1>4, <2>1, ZSetAssumption, FS_CardinalityType
  <2> HIDE DEF D, F
  <2> QED BY <1>4, <2>1, <2>3, <2>4
<1> QED BY <1>2, <1>3, <1>4, <1>5 DEF SortedTree, Held
-----------------------------------------------------------------------------
(***************************************************************************)
(* The sorted set.                                                          *)
(***************************************************************************)
\* The tree is balanced and holds what a dictionary has: the set's own, unless the
\* server was killed between its two writes.
ZSetInv ==
    /\ dict \in [Members -> Scores \cup {Absent}] /\ alive \in BOOLEAN
    /\ \E f \in [Members -> Scores \cup {Absent}] : Stored(tree, f) /\ (alive => f = dict)

\* The empty set.
LEMMA InitStored == ZSetInit => ZSetInv
<1> SUFFICES ASSUME ZSetInit PROVE ZSetInv
  OBVIOUS
<1>1. tree = [root |-> Nil, count |-> 0] /\ tree.root = Nil /\ tree.count = 0
  BY DEF ZSetInit, AvlCreate
<1>2. dict \in [Members -> Scores \cup {Absent}] /\ alive = TRUE
  BY DEF ZSetInit
<1>3. ScoredBy(dict) = {}
  BY DEF ZSetInit, ScoredBy
<1>4. 0 \in 0..Levels /\ AvlOf(Nil, 0)
  BY AvlNil, LevelsNat
<1>5. Held(Nil) = {} /\ SortedTree(Nil) /\ Cardinality({}) = 0
  BY NilHeld, FS_EmptySet
<1>6. Stored(tree, dict)
  BY <1>1, <1>2, <1>3, <1>4, <1>5 DEF Stored
<1> QED BY <1>2, <1>6 DEF ZSetInv

\* ZADD.
LEMMA AddStored ==
    ASSUME ZSetInv, NEW m \in Members, NEW s \in Scores, ZAdd(m, s)
    PROVE  ZSetInv'
<1>1. /\ dict \in [Members -> Scores \cup {Absent}] /\ alive = TRUE /\ Stored(tree, dict)
  BY DEF ZSetInv, ZAdd
<1>2. [dict EXCEPT ![m] = s] \in [Members -> Scores \cup {Absent}]
  BY <1>1
<1>3. CASE dict[m] = s
  BY <1>3 DEF ZSetInv, ZAdd, Stored, zsetVars
<1>4. CASE dict[m] # s /\ dict[m] = Absent
  <2>1. Stored(AvlInsert(tree, Entry(m, s)), [dict EXCEPT ![m] = s])
    BY <1>1, <1>4, InsertStored
  <2>2. tree' = AvlInsert(tree, Entry(m, s)) /\ dict' = [dict EXCEPT ![m] = s] /\ alive' = alive
    BY <1>4 DEF ZAdd
  <2>3. Stored(tree', dict')
    BY <2>1, <2>2
  <2> QED BY <1>1, <1>2, <2>2, <2>3 DEF ZSetInv, Stored
<1>5. CASE dict[m] # s /\ dict[m] # Absent
  <2> DEFINE t == AvlDelete(tree, Entry(m, dict[m]))
             f == [dict EXCEPT ![m] = Absent]
             g == [dict EXCEPT ![m] = s]
  <2>1. Stored(t, f)
    BY <1>1, <1>5, DeleteStored
  <2>2. f[m] = Absent /\ [f EXCEPT ![m] = s] = g
    BY <1>1
  <2>3. Stored(AvlInsert(t, Entry(m, s)), g)
    <3> HIDE DEF t, f, g
    <3>1. Stored(AvlInsert(t, Entry(m, s)), [f EXCEPT ![m] = s])
      BY <2>1, <2>2, InsertStored
    <3> QED BY <2>2, <3>1
  <2>4. /\ tree' = AvlInsert(t, Entry(m, s))
        /\ (dict' = g /\ alive' = alive) \/ (dict' = dict /\ alive' = FALSE)
    BY <1>5 DEF ZAdd
  <2>5. g \in [Members -> Scores \cup {Absent}]
    BY <1>2
  <2> HIDE DEF t, f, g
  <2>6. Stored(tree', g)
    BY <2>3, <2>4
  <2> QED BY <1>1, <2>4, <2>5, <2>6 DEF ZSetInv, Stored
<1> QED BY <1>3, <1>4, <1>5

\* ZREM.
LEMMA RemoveStored ==
    ASSUME ZSetInv, NEW m \in Members, NEW n \in Members, ZRem(m, n)
    PROVE  ZSetInv'
<1> DEFINE x == [dict |-> dict, tree |-> tree]
           y == Without(x, m)
           z == Without(y, n)
<1>1. Stored(x.tree, x.dict) /\ alive = TRUE
  BY DEF ZSetInv, ZRem
<1>2. Stored(y.tree, y.dict)
  <2> HIDE DEF x
  <2> QED BY <1>1, WithoutStored
<1>3. Stored(z.tree, z.dict)
  <2> HIDE DEF y
  <2> QED BY <1>2, WithoutStored
<1>4. dict' = z.dict /\ tree' = z.tree /\ alive' = alive
  BY DEF ZRem
<1> HIDE DEF z
<1>5. Stored(tree', dict')
  BY <1>3, <1>4
<1> QED BY <1>1, <1>4, <1>5 DEF ZSetInv, Stored

\* The sorted set's dictionary and tree stay in step.
THEOREM SortedSetInStep == ZSetSpec => []ZSetInv
<1>1. ASSUME ZSetInv, [ZSetNext]_zsetVars PROVE ZSetInv'
  <2>1. ASSUME UNCHANGED zsetVars PROVE ZSetInv'
    BY <1>1, <2>1 DEF ZSetInv, Stored, zsetVars
  <2>2. ASSUME NEW m \in Members, NEW s \in Scores, ZAdd(m, s) PROVE ZSetInv'
    BY <1>1, <2>2, AddStored
  <2>3. ASSUME NEW m \in Members, NEW n \in Members, ZRem(m, n) PROVE ZSetInv'
    BY <1>1, <2>3, RemoveStored
  <2>4. ASSUME Crashed PROVE ZSetInv'
    BY <2>1, <2>4 DEF Crashed
  <2> QED BY <1>1, <2>1, <2>2, <2>3, <2>4 DEF ZSetNext
<1> QED BY <1>1, InitStored, PTL DEF ZSetSpec
-----------------------------------------------------------------------------
\* The types.
THEOREM SortedSetTypeOK == ZSetSpec => []TypeOK
<1>1. ZSetInv => TypeOK
  <2>1. SUFFICES ASSUME ZSetInv PROVE TypeOK
    OBVIOUS
  <2>2. PICK f : Stored(tree, f)
    BY <2>1 DEF ZSetInv
  <2>3. tree = [root |-> tree.root, count |-> tree.count]
    BY <2>2 DEF Stored
  <2>4. tree.root \in Tree /\ tree.count \in 0..Cardinality(Members)
    BY <2>2, StoredParts
  <2> QED BY <2>1, <2>3, <2>4 DEF TypeOK, ZSetInv
<1> QED BY <1>1, SortedSetInStep, PTL

\* Insertions and deletions leave the tree balanced, with the heights its nodes record.
THEOREM SortedSetBalanced == ZSetSpec => []Balanced
<1>1. ZSetInv => Balanced
  BY StoredParts DEF ZSetInv, Balanced
<1> QED BY <1>1, SortedSetInStep, PTL

\* A traversal of the tree visits what the dictionary has, once each and in order, and
\* the count that ZCARD answers is theirs.
THEOREM TreeAndDictionaryAgree == ZSetSpec => []InStep
<1>1. ZSetInv => InStep
  <2>1. SUFFICES ASSUME ZSetInv, alive PROVE InStep
    BY DEF InStep
  <2>2. Stored(tree, dict) /\ Scored = ScoredBy(dict)
    BY <2>1 DEF ZSetInv, Scored, ScoredBy
  <2> DEFINE q == InOrder[tree.root]
  <2>3. /\ q \in Seq(TreeEntries) /\ Sorted(q) /\ ToSet(q) = Scored
        /\ tree.count = Len(q) /\ tree.count = Cardinality(Scored)
    BY <2>2, StoredParts
  <2>4. ASSUME NEW i \in 1..(Len(q) - 1) PROVE Before(q[i], q[i + 1])
    <3> HIDE DEF q
    <3>1. Len(q) \in Nat
      BY <2>3, LenProperties
    <3>2. i \in 1..Len(q) /\ i + 1 \in 1..Len(q) /\ i < i + 1
      BY <3>1
    <3> QED BY <2>3, <3>2 DEF Sorted
  <2> QED BY <2>3, <2>4 DEF InStep, Card
<1> QED BY <1>1, SortedSetInStep, PTL

\* Where the entry of a member is, in a sequence that has the entries of f in order.
LEMMA PlaceOf ==
    ASSUME NEW f \in [Members -> Scores \cup {Absent}], NEW q \in Seq(TreeEntries),
           Sorted(q), ToSet(q) = ScoredBy(f), NEW m \in Members, f[m] # Absent
    PROVE  \E i \in 1..Len(q) :
              /\ q[i] = Entry(m, f[m])
              /\ {j \in 1..Len(q) : q[j].key = m} = {i}
              /\ Cardinality({e \in ScoredBy(f) : Before(e, q[i])}) = i - 1
<1>1. ToSet(q) = {q[i] : i \in 1..Len(q)}
  BY ToSetIs
<1>2. Entry(m, f[m]) \in ScoredBy(f)
  BY ScoredOf
<1>3. PICK i \in 1..Len(q) : q[i] = Entry(m, f[m])
  BY <1>1, <1>2
<1>4. \A j, k \in 1..Len(q) : /\ q[j] \in TreeEntries
                              /\ j < k => Before(q[j], q[k]) /\ ~ Before(q[k], q[j])
                              /\ ~ Before(q[j], q[j])
  BY BeforeOrder DEF Sorted
<1>5. ASSUME NEW j \in 1..Len(q), q[j].key = m PROVE j = i
  <2>1. q[j] \in ScoredBy(f)
    BY <1>1
  <2>2. PICK n \in Members : q[j] = Entry(n, f[n])
    BY <2>1 DEF ScoredBy
  <2>3. q[j] = q[i]
    BY <1>3, <1>5, <2>2, EntryOf
  <2> QED BY <1>4, <2>3
<1>6. q[i].key = m
  BY <1>3, EntryOf
<1>7. {e \in ScoredBy(f) : Before(e, q[i])} = {q[j] : j \in 1..(i - 1)}
  <2>1. ASSUME NEW j \in 1..(i - 1) PROVE j \in 1..Len(q) /\ q[j] \in ScoredBy(f) /\ Before(q[j], q[i])
    <3>1. j \in 1..Len(q) /\ j < i
      OBVIOUS
    <3> QED BY <1>1, <1>4, <3>1
  <2>2. ASSUME NEW e \in ScoredBy(f), Before(e, q[i]) PROVE \E j \in 1..(i - 1) : e = q[j]
    <3>1. PICK j \in 1..Len(q) : e = q[j]
      BY <1>1
    <3>2. j < i
      BY <1>4, <2>2, <3>1
    <3> QED BY <3>1, <3>2
  <2> QED BY <2>1, <2>2
<1>8. i - 1 \in 0..Len(q)
  OBVIOUS
<1>9. Cardinality({e \in ScoredBy(f) : Before(e, q[i])}) = i - 1
  BY <1>7, <1>8, FirstOnes
<1> QED BY <1>3, <1>5, <1>6, <1>9

\* One entry of a sequence.
LEMMA OneOf ==
    ASSUME NEW q \in Seq(TreeEntries), NEW i \in 1..Len(q)
    PROVE  SubSeq(q, i, i) = <<q[i]>>
<1>1. \A k \in i..i : q[k] \in TreeEntries
  OBVIOUS
<1>2. /\ SubSeq(q, i, i) \in Seq(TreeEntries) /\ Len(SubSeq(q, i, i)) = 1
      /\ SubSeq(q, i, i)[1] = q[i]
  BY <1>1, SubSeqProperties
<1> DEFINE s == SubSeq(q, i, i)
<1> HIDE DEF s
<1>3. s \in Seq(TreeEntries) /\ Len(s) = 1 /\ s[1] = q[i]
  BY <1>2 DEF s
<1>4. s = [k \in 1..Len(s) |-> s[k]]
  BY <1>3
<1>5. <<q[i]>> = [k \in 1..1 |-> q[i]]
  OBVIOUS
<1>6. s = <<q[i]>>
  BY <1>3, <1>4, <1>5
<1> QED BY <1>6 DEF s

\* ZRANGE, from an index to the same one.
LEMMA RangeOfOne ==
    ASSUME Card \in Nat, NEW a \in Int, NEW r \in Nat, FromEnd(a) = r, r < Card
    PROVE  ZRange(a, a) = SubSeq(InOrder[tree.root], r + 1, r + 1)
BY DEF ZRange

\* ZRANK, ZRANGE and avl_get_by_rank agree on where a member is.
THEOREM TheRanksAgree == ZSetSpec => []RanksAgree
<1>1. ZSetInv => RanksAgree
  <2>1. SUFFICES ASSUME ZSetInv, alive, NEW m \in Members
                 PROVE  LET rank == ZRank(m)  e == Entry(m, ZScore(m)) IN
                        IF dict[m] = Absent THEN rank = -1
                        ELSE /\ rank = Cardinality({f \in Scored : Before(f, e)})
                             /\ ZRange(rank, rank) = <<e>>
                             /\ ZRange(rank - Card, rank - Card) = <<e>>
                             /\ AvlGetByRank(tree, rank) = e
    BY DEF RanksAgree
  <2>2. CASE dict[m] = Absent
    BY <2>2 DEF ZRank
  <2>3. CASE dict[m] # Absent
    <3> DEFINE q == InOrder[tree.root]
               e == Entry(m, dict[m])
    <3>1. Stored(tree, dict) /\ Scored = ScoredBy(dict) /\ dict \in [Members -> Scores \cup {Absent}]
      BY <2>1 DEF ZSetInv, Scored, ScoredBy
    <3>2. /\ q \in Seq(TreeEntries) /\ Sorted(q) /\ ToSet(q) = ScoredBy(dict)
          /\ Card = Len(q)
      BY <3>1, StoredParts DEF Card
    <3>3. PICK i \in 1..Len(q) :
                /\ q[i] = e
                /\ {j \in 1..Len(q) : q[j].key = m} = {i}
                /\ Cardinality({f \in Scored : Before(f, q[i])}) = i - 1
      <4> HIDE DEF q, e
      <4>1. \E i \in 1..Len(q) :
              /\ q[i] = Entry(m, dict[m])
              /\ {j \in 1..Len(q) : q[j].key = m} = {i}
              /\ Cardinality({f \in ScoredBy(dict) : Before(f, q[i])}) = i - 1
        BY <2>3, <3>1, <3>2, PlaceOf
      <4> QED BY <3>1, <4>1, Zenon DEF e
    <3>4. Card \in Nat /\ i \in Nat /\ 1 <= i /\ i <= Card
      <4> HIDE DEF q
      <4> QED BY <3>2
    <3>5. ZRank(m) = i - 1
      <4>1. SelectInSeq(q, LAMBDA f : f.key = m) = i
        <5> HIDE DEF q
        <5> QED BY <3>3 DEF SelectInSeq, Min
      <4> QED BY <2>3, <4>1 DEF ZRank
    <3>6. i - 1 \in Nat /\ i - 1 < Card /\ (i - 1) + 1 = i /\ i - 1 - Card \in Int
      BY <3>4
    <3>7. ZRange(i - 1, i - 1) = SubSeq(q, i, i)
      <4>1. FromEnd(i - 1) = i - 1
        BY <3>4 DEF FromEnd
      <4> QED BY <3>4, <3>6, <4>1, RangeOfOne
    <3>8. ZRange(i - 1 - Card, i - 1 - Card) = SubSeq(q, i, i)
      <4>1. FromEnd(i - 1 - Card) = i - 1
        BY <3>4 DEF FromEnd
      <4> QED BY <3>4, <3>6, <4>1, RangeOfOne
    <3>9. AvlGetByRank(tree, i - 1) = q[i]
      BY <3>2 DEF AvlGetByRank, Card
    <3>10. SubSeq(q, i, i) = <<e>>
      BY <3>2, <3>3, OneOf
    <3> HIDE DEF q
    <3> QED BY <2>3, <3>3, <3>5, <3>7, <3>8, <3>9, <3>10 DEF ZScore
  <2> QED BY <2>2, <2>3
<1> QED BY <1>1, SortedSetInStep, PTL

\* ZRANGE sends as many members as it has announced, for all indexes.
THEOREM RangesAreFramed == ZSetSpec => []RangeIsFramed
<1>1. ZSetInv => RangeIsFramed
  <2>1. SUFFICES ASSUME ZSetInv, NEW start \in Indexes, NEW end \in Indexes
                 PROVE  Len(ZRange(start, end)) = ZRangeAnnounced(start, end)
    BY DEF RangeIsFramed
  <2> DEFINE q == InOrder[tree.root]
             first == IF FromEnd(start) < 0 THEN 0 ELSE FromEnd(start)
             last == IF FromEnd(end) >= Card THEN Card - 1 ELSE FromEnd(end)
  <2>2. q \in Seq(TreeEntries) /\ Card = Len(q) /\ Card \in Nat
    BY <2>1, StoredParts DEF ZSetInv, Card
  <2>3. FromEnd(start) \in Int /\ FromEnd(end) \in Int
    BY <2>2 DEF FromEnd, Indexes
  <2>4. first \in Nat /\ last \in Int /\ last < Card
    BY <2>2, <2>3
  <2>5. /\ ZRange(start, end) = IF first >= Card \/ FromEnd(end) < first THEN <<>>
                                ELSE SubSeq(q, first + 1, last + 1)
        /\ first >= Card \/ FromEnd(end) < first <=> last < first
    <3>1. (IF FromEnd(end) >= Card THEN Card ELSE FromEnd(end) + 1) = last + 1
      BY <2>2, <2>3
    <3>2. ZRange(start, end) = IF first >= Card \/ FromEnd(end) < first THEN <<>>
                               ELSE SubSeq(q, first + 1, last + 1)
      BY <3>1 DEF ZRange
    <3> QED BY <2>2, <2>3, <3>2
  <2>6. ZRangeAnnounced(start, end) = IF first <= last THEN last - first + 1 ELSE 0
    BY DEF ZRangeAnnounced
  <2> HIDE DEF q, first, last
  <2>7. CASE last < first
    <3>1. Len(<<>>) = 0
      OBVIOUS
    <3> QED BY <2>4, <2>5, <2>6, <2>7, <3>1
  <2>8. CASE first <= last
    <3>1. \A k \in (first + 1)..(last + 1) : q[k] \in TreeEntries
      BY <2>2, <2>4
    <3>2. Len(SubSeq(q, first + 1, last + 1)) = last - first + 1
      BY <2>4, <2>8, <3>1, SubSeqProperties
    <3> QED BY <2>4, <2>5, <2>6, <2>8, <3>2
  <2> QED BY <2>4, <2>7, <2>8
<1> QED BY <1>1, SortedSetInStep, PTL
=============================================================================
