-------------------------------- MODULE ZSet --------------------------------
(***************************************************************************)
(* A sorted set of the server: backend/zset.c, called by the commands ZADD, *)
(* ZREM, ZSCORE, ZCARD, ZRANK and ZRANGE of backend/server.c.  It keeps     *)
(* each member twice: with its score in a dictionary, and in a tree.        *)
(***************************************************************************)
EXTENDS Avl, SequencesExt

CONSTANT Absent    \* what the dictionary has for no member

ASSUME ZSetAssumption ==
    /\ IsFiniteSet(Members)
    /\ Members \subseteq Int /\ Scores \subseteq Int
    /\ Absent \notin Scores

VARIABLES
    dict,       \* z->dict
    tree,       \* z->tree
    alive       \* the server runs

zsetVars == <<dict, tree, alive>>
-----------------------------------------------------------------------------
ZSetInit ==
    /\ dict = [m \in Members |-> Absent]
    /\ tree = AvlCreate
    /\ alive = TRUE

\* Mutant of ZAdd: a changed score is written to the dictionary only.
ZAddDictOnly(m, score) ==
    /\ alive /\ UNCHANGED alive
    /\ dict' = [dict EXCEPT ![m] = score]
    /\ tree' = IF dict[m] = Absent THEN AvlInsert(tree, Entry(m, score)) ELSE tree
\* ZADD, for one member.  When the score changes, the first dict_put is given the
\* address of a double for a string and takes whatever lies before it for the length
\* (zset.c:41): the process reads on beyond its stack and is killed, or the second
\* dict_put puts it right.
ZAdd(m, score) ==
    /\ alive
    /\ IF dict[m] = score
       THEN UNCHANGED zsetVars
       ELSE IF dict[m] = Absent
       THEN /\ tree' = AvlInsert(tree, Entry(m, score))
            /\ dict' = [dict EXCEPT ![m] = score]
            /\ UNCHANGED alive
       ELSE /\ tree' = AvlInsert(AvlDelete(tree, Entry(m, dict[m])), Entry(m, score))
            /\ \/ dict' = [dict EXCEPT ![m] = score] /\ UNCHANGED alive
               \/ UNCHANGED dict /\ alive' = FALSE

\* zset_rem, of a sorted set with the two parts of z.
Without(z, m) ==
    IF z.dict[m] = Absent THEN z
    ELSE [dict |-> [z.dict EXCEPT ![m] = Absent],
          tree |-> AvlDelete(z.tree, Entry(m, z.dict[m]))]

\* ZREM, for two members or, when they are the same, for one.
ZRem(m, n) ==
    /\ alive
    /\ LET z == Without(Without([dict |-> dict, tree |-> tree], m), n) IN
       dict' = z.dict /\ tree' = z.tree
    /\ UNCHANGED alive

\* The server has been killed.
Crashed == ~alive /\ UNCHANGED zsetVars

ZSetNext ==
    \/ \E m \in Members, score \in Scores : ZAdd(m, score)
    \/ \E m, n \in Members : ZRem(m, n)
    \/ Crashed

ZSetSpec == ZSetInit /\ [][ZSetNext]_zsetVars
-----------------------------------------------------------------------------
(***************************************************************************)
(* The replies.                                                             *)
(***************************************************************************)
Card == tree.count

ZScore(m) == dict[m]

\* Mutant of ZRank: ranks begin with 1.
ZRankOne(m) ==
    IF dict[m] = Absent THEN -1
    ELSE SelectInSeq(InOrder[tree.root], LAMBDA e : e.key = m)
\* zset_rank.
ZRank(m) ==
    IF dict[m] = Absent THEN -1
    ELSE SelectInSeq(InOrder[tree.root], LAMBDA e : e.key = m) - 1

\* A negative index counts from the end.
FromEnd(i) == IF i < 0 THEN i + Card ELSE i

\* Mutant of ZRange: the last index is not included.
ZRangeExclusive(start, end) ==
    LET first == IF FromEnd(start) < 0 THEN 0 ELSE FromEnd(start) IN
    IF first >= Card \/ FromEnd(end) < first THEN <<>>
    ELSE SubSeq(InOrder[tree.root], first + 1,
                IF FromEnd(end) >= Card THEN Card ELSE FromEnd(end))
\* zset_range: the entries it passes to the callback.
ZRange(start, end) ==
    LET first == IF FromEnd(start) < 0 THEN 0 ELSE FromEnd(start) IN
    IF first >= Card \/ FromEnd(end) < first THEN <<>>
    ELSE SubSeq(InOrder[tree.root], first + 1,
                IF FromEnd(end) >= Card THEN Card ELSE FromEnd(end) + 1)

\* ZRANGE: how many entries the head of the reply announces.
ZRangeAnnounced(start, end) ==
    LET first == IF FromEnd(start) < 0 THEN 0 ELSE FromEnd(start)
        last == IF FromEnd(end) >= Card THEN Card - 1 ELSE FromEnd(end)
    IN  IF first <= last THEN last - first + 1 ELSE 0
-----------------------------------------------------------------------------
(***************************************************************************)
(* Properties.                                                              *)
(***************************************************************************)
TypeOK ==
    /\ dict \in [Members -> Scores \cup {Absent}]
    /\ tree \in [root : Tree, count : 0..Cardinality(Members)]
    /\ alive \in BOOLEAN

\* Insertions and deletions leave the tree balanced, with the heights its nodes
\* record, so that no operation takes more than logarithmic time.
Balanced == IsBalanced[tree.root]

\* The entries the dictionary stands for.
Scored == {Entry(m, dict[m]) : m \in {n \in Members : dict[n] # Absent}}

\* The two copies agree: what a traversal visits is what the dictionary has, once
\* each, by score and then by member, and the count ZCARD answers is right.
InStep ==
    alive =>
        LET visited == InOrder[tree.root] IN
        /\ ToSet(visited) = Scored
        /\ Len(visited) = Cardinality(Scored) /\ Card = Len(visited)
        /\ \A i \in 1..(Len(visited) - 1) : Before(visited[i], visited[i + 1])

\* ZRANK, ZRANGE and avl_get_by_rank agree on where a member is: as many are before
\* it as have a lower score, or the same and a lower name.
RanksAgree ==
    alive =>
        \A m \in Members :
            LET rank == ZRank(m)  e == Entry(m, ZScore(m)) IN
            IF dict[m] = Absent THEN rank = -1
            ELSE /\ rank = Cardinality({f \in Scored : Before(f, e)})
                 /\ ZRange(rank, rank) = <<e>>
                 /\ ZRange(rank - Card, rank - Card) = <<e>>
                 /\ AvlGetByRank(tree, rank) = e

\* The indexes a client may give: within the set, and beyond either end.
Indexes == (-1 - Card)..Card

\* ZRANGE sends as many members as it has announced, for all indexes: if not, the
\* client takes the rest of the reply for the replies to its next commands.
RangeIsFramed ==
    \A start, end \in Indexes :
        Len(ZRange(start, end)) = ZRangeAnnounced(start, end)

\* TESTING/test_zset.py expects the reply 0 when a member gets another score: the
\* server outlives a ZADD.
UpdateAnswered == alive
=============================================================================
