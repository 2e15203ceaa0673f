-------------------------------- MODULE Avl --------------------------------
(***************************************************************************)
(* The AVL tree of backend/avl.c, as operators on trees.                    *)
(*                                                                          *)
(* Keys and scores are integers in the order sdscmp and < give them.  An    *)
(* entry has a key and a score; a node is an entry with a height and two    *)
(* subtrees.                                                                *)
(***************************************************************************)
EXTENDS Integers, Sequences, FiniteSets

CONSTANTS
    Members,    \* the keys: integers, in the order sdscmp gives them
    Scores      \* the scores atof returns: integers, for their order

Entry(key, score) == [key |-> key, score |-> score]

TreeEntries == [key : Members, score : Scores]

Nil == <<>>    \* a null pointer

\* Trees[n] has the trees of n levels or less.
Trees[n \in Nat] ==
    IF n = 0 THEN {Nil}
    ELSE {Nil} \cup [key : Members, score : Scores, height : Nat,
                     left : Trees[n - 1], right : Trees[n - 1]]

\* A tree has no member twice, and so no more levels than there are members.
Tree == Trees[Cardinality(Members)]

\* compare_nodes is negative.
Before(a, b) == a.score < b.score \/ (a.score = b.score /\ a.key < b.key)

Height(node) == IF node = Nil THEN 0 ELSE node.height

UpdateHeight(node) ==
    LET l == Height(node.left)  r == Height(node.right) IN
    [node EXCEPT !.height = 1 + (IF l > r THEN l ELSE r)]

Balance(node) == IF node = Nil THEN 0 ELSE Height(node.left) - Height(node.right)

RotateRight(y) ==
    UpdateHeight([y.left EXCEPT !.right = UpdateHeight([y EXCEPT !.left = y.left.right])])

RotateLeft(x) ==
    UpdateHeight([x.right EXCEPT !.left = UpdateHeight([x EXCEPT !.right = x.right.left])])

\* The end of avl_insert_node, above the place of the new entry e.
GrownBy(e, old) ==
    LET node == UpdateHeight(old)  balance == Balance(node) IN
    CASE balance > 1 /\ Before(e, node.left) -> RotateRight(node)
      [] balance < -1 /\ Before(node.right, e) -> RotateLeft(node)
      [] balance > 1 /\ Before(node.left, e) ->
            RotateRight([node EXCEPT !.left = RotateLeft(@)])
      [] balance < -1 /\ Before(e, node.right) ->
            RotateLeft([node EXCEPT !.right = RotateRight(@)])
      [] OTHER -> node

InsertNode[node \in Tree] == [e \in TreeEntries |->
    IF node = Nil
    THEN [key |-> e.key, score |-> e.score, height |-> 1, left |-> Nil, right |-> Nil]
    ELSE IF Before(e, node) THEN GrownBy(e, [node EXCEPT !.left = InsertNode[@][e]])
    ELSE IF Before(node, e) THEN GrownBy(e, [node EXCEPT !.right = InsertNode[@][e]])
    ELSE node]

\* Mutant of Shrunk: nothing is rotated after a deletion.
ShrunkOnly(old) == IF old = Nil THEN Nil ELSE UpdateHeight(old)
\* The end of avl_delete_node, for what is left of the subtree.
Shrunk(old) ==
    IF old = Nil THEN Nil
    ELSE LET node == UpdateHeight(old)  balance == Balance(node) IN
         CASE balance > 1 /\ Balance(node.left) >= 0 -> RotateRight(node)
           [] balance > 1 /\ Balance(node.left) < 0 ->
                RotateRight([node EXCEPT !.left = RotateLeft(@)])
           [] balance < -1 /\ Balance(node.right) <= 0 -> RotateLeft(node)
           [] balance < -1 /\ Balance(node.right) > 0 ->
                RotateLeft([node EXCEPT !.right = RotateRight(@)])
           [] OTHER -> node

MinValueNode[node \in Tree \ {Nil}] ==
    IF node.left = Nil THEN node ELSE MinValueNode[node.left]

DeleteNode[node \in Tree] == [e \in TreeEntries |->
    IF node = Nil THEN Nil
    ELSE IF Before(e, node) THEN Shrunk([node EXCEPT !.left = DeleteNode[@][e]])
    ELSE IF Before(node, e) THEN Shrunk([node EXCEPT !.right = DeleteNode[@][e]])
    ELSE IF node.left = Nil THEN Shrunk(node.right)
    ELSE IF node.right = Nil THEN Shrunk(node.left)
    ELSE LET least == MinValueNode[node.right] IN
         Shrunk([node EXCEPT !.key = least.key, !.score = least.score,
                             !.right = DeleteNode[@][Entry(least.key, least.score)]])]

\* What the flags inserted and deleted tell: a search ends at an equal entry.
Found[node \in Tree] == [e \in TreeEntries |->
    IF node = Nil THEN FALSE
    ELSE IF Before(e, node) THEN Found[node.left][e]
    ELSE IF Before(node, e) THEN Found[node.right][e]
    ELSE TRUE]

\* A tree is its root and count.
AvlCreate == [root |-> Nil, count |-> 0]

AvlInsert(tree, e) ==
    [root |-> InsertNode[tree.root][e],
     count |-> tree.count + (IF Found[tree.root][e] THEN 0 ELSE 1)]

AvlDelete(tree, e) ==
    [root |-> DeleteNode[tree.root][e],
     count |-> tree.count - (IF Found[tree.root][e] THEN 1 ELSE 0)]

\* What avl_traverse visits.
InOrder[node \in Tree] ==
    IF node = Nil THEN <<>>
    ELSE InOrder[node.left] \o <<Entry(node.key, node.score)>> \o InOrder[node.right]

\* avl_get_by_rank, which counts the visited nodes.
AvlGetByRank(tree, rank) ==
    IF rank >= tree.count THEN Nil ELSE InOrder[tree.root][rank + 1]

\* Heights are right, and those of two siblings differ by one at most.
IsBalanced[node \in Tree] ==
    \/ node = Nil
    \/ /\ node = UpdateHeight(node) /\ Balance(node) \in -1..1
       /\ IsBalanced[node.left] /\ IsBalanced[node.right]
=============================================================================
