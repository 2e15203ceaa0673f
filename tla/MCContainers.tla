---------------------------- MODULE MCContainers ----------------------------
(***************************************************************************)
(* The containers of the backend for TLC: the sorted set, the expiry heap,   *)
(* the dictionary, the memory pool and the writer of the log.  They share   *)
(* nothing, so a behaviour is of one of them, chosen at the start.          *)
(*                                                                          *)
(* The dictionary has the five keys it takes to outgrow the first table of   *)
(* four buckets.  k1 and k2 collide in it and separate in the table of      *)
(* eight, k3 and k4 collide in both, and k5 is moved last.                  *)
(***************************************************************************)
EXTENDS ZSet, ExpHeap, Dict, MemPool, AofBuf

CONSTANTS k1, k2, k3, k4, k5

VARIABLE which

vars == <<zsetVars, heapVars, dictVars, poolVars, bufVars, which>>

MCHash == [k \in DictKeys |-> CASE k = k1 -> 0 [] k = k2 -> 4 [] k = k3 -> 2 [] k = k4 -> 10 [] k = k5 -> 7]

Init ==
    /\ ZSetInit /\ HeapInit /\ DictInit /\ PoolInit /\ BufInit
    /\ which \in {"zset", "heap", "dict", "pool", "aofbuf"}
    /\ which # "pool" => head = 0
    /\ which # "aofbuf" => policy = "no"

Next ==
    /\ UNCHANGED which
    /\ which = "zset" \/ UNCHANGED zsetVars
    /\ which = "heap" \/ UNCHANGED heapVars
    /\ which = "dict" \/ UNCHANGED dictVars
    /\ which = "pool" \/ UNCHANGED poolVars
    /\ which = "aofbuf" \/ UNCHANGED bufVars
    /\ \/ which = "zset" /\ ZSetNext
       \/ which = "heap" /\ HeapNext
       \/ which = "dict" /\ DictNext
       \/ which = "pool" /\ PoolNext
       \/ which = "aofbuf" /\ BufNext

Spec == Init /\ [][Next]_vars

\* The variables of the sorted set, the heap, the dictionary, the memory pool and the
\* writer of the log have their types.
TypesOK == TypeOK /\ HeapTypeOK /\ DictTypeOK /\ PoolTypeOK /\ BufTypeOK
=============================================================================
