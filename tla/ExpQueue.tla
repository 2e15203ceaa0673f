------------------------------ MODULE ExpQueue ------------------------------
(***************************************************************************)
(* What backend/expheap.h promises: a queue of keys with deadlines, from    *)
(* which the nearest deadline is taken first.  Nothing orders equal ones,   *)
(* and a key may be in it several times.                                    *)
(***************************************************************************)
EXTENDS Integers

CONSTANTS Keys, Deadlines, Nothing

Entries == [key : Keys, expire : Deadlines]

VARIABLES
    queue,      \* how many of each entry there are
    result      \* what the last pop returned

With(e) == [queue EXCEPT ![e] = @ + 1]
Minus(e) == [queue EXCEPT ![e] = @ - 1]

Push(key, deadline) ==
    /\ queue' = With([key |-> key, expire |-> deadline])
    /\ UNCHANGED result

Pop ==
    \/ /\ \A e \in Entries : queue[e] = 0
       /\ result' = Nothing /\ UNCHANGED queue
    \/ \E e \in Entries :
        /\ queue[e] > 0
        /\ \A f \in Entries : queue[f] > 0 => e.expire <= f.expire
        /\ queue' = Minus(e) /\ result' = e

Remove(key) ==
    /\ UNCHANGED result
    /\ \E d \in Deadlines :
        LET e == [key |-> key, expire |-> d] IN
        queue[e] > 0 /\ queue' = Minus(e)

Init == queue = [e \in Entries |-> 0] /\ result = Nothing

Next ==
    \/ \E key \in Keys, d \in Deadlines : Push(key, d)
    \/ Pop
    \/ \E key \in Keys : Remove(key)

Spec == Init /\ [][Next]_<<queue, result>>
=============================================================================
