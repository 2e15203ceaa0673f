------------------------------ MODULE ExpHeap ------------------------------
(***************************************************************************)
(* The array heap of backend/expheap.c.  The code's entries[i] is heap[i+1] *)
(* here, and its size is Len(heap).  The server pushes and pops only;       *)
(* expheap_remove has no caller yet.                                        *)
(***************************************************************************)
EXTENDS Integers, Sequences, FiniteSets, SequencesExt

CONSTANTS
    Keys, Deadlines,
    Nothing,        \* what popping an empty heap returns
    InitialCap,     \* expheap_init's argument
    MaxEntries      \* bound: entries in the heap

ASSUME ExpHeapAssumption ==
    /\ Deadlines \subseteq Int
    /\ InitialCap \in Nat /\ MaxEntries \in Nat

VARIABLES
    heap,
    capacity,       \* the entries there is memory for
    popped          \* what the last expheap_pop returned

heapVars == <<heap, capacity, popped>>
-----------------------------------------------------------------------------
Swapped(h, i, j) == [h EXCEPT ![i] = h[j], ![j] = h[i]]

\* A turn of sift_up's loop at idx, and the heap after it has ended: every turn but the
\* last halves idx.
Up(s) ==
    IF s.idx > 1 /\ s.h[s.idx].expire < s.h[s.idx \div 2].expire
    THEN [h |-> Swapped(s.h, s.idx, s.idx \div 2), idx |-> s.idx \div 2]
    ELSE s
SiftUp(h, i) ==
    LET turn[n \in 0..i] == IF n = 0 THEN [h |-> h, idx |-> i] ELSE Up(turn[n - 1])
    IN turn[i].h

\* The place of the least of entry i and its children, the first of them if equal.
Smallest(h, i) ==
    LET below == {j \in {i, 2 * i, 2 * i + 1} : j <= Len(h)} IN
    CHOOSE j \in below :
        \A k \in below : h[j].expire < h[k].expire \/ (h[j].expire = h[k].expire /\ j <= k)

\* A turn of sift_down's loop, and the heap after it has ended: every turn but the last
\* doubles idx.
Down(s) == [h |-> Swapped(s.h, s.idx, Smallest(s.h, s.idx)), idx |-> Smallest(s.h, s.idx)]
\* Mutant of SiftDown: one level only.
SiftDownOnce(h, i) == Swapped(h, i, Smallest(h, i))
SiftDown(h, i) ==
    LET turn[n \in 0..Len(h)] == IF n = 0 THEN [h |-> h, idx |-> i] ELSE Down(turn[n - 1])
    IN turn[Len(h)].h

HeapInit ==
    /\ heap = <<>>
    /\ capacity = IF InitialCap > 0 THEN InitialCap ELSE 16
    /\ popped = Nothing

\* Mutant of Grown: the array grows only when it is more than full.
GrownLate(cap, size) == IF size > cap THEN 2 * cap ELSE cap
\* The capacity before an entry is written.
Grown(cap, size) == IF size >= cap THEN 2 * cap ELSE cap

\* expheap_push.
HeapPush(key, deadline) ==
    /\ Len(heap) < MaxEntries
    /\ capacity' = Grown(capacity, Len(heap))
    /\ heap' = SiftUp(Append(heap, [key |-> key, expire |-> deadline]), Len(heap) + 1)
    /\ UNCHANGED popped

\* expheap_pop.
HeapPop ==
    /\ IF heap = <<>> THEN popped' = Nothing /\ UNCHANGED heap
       ELSE /\ popped' = heap[1]
            /\ heap' = IF Len(heap) = 1 THEN <<>>
                       ELSE SiftDown([Front(heap) EXCEPT ![1] = Last(heap)], 1)
    /\ UNCHANGED capacity

\* Mutant of Removed: what replaces the entry is sifted down only.
RemovedDown(h, i) ==
    IF i = Len(h) THEN Front(h) ELSE SiftDown([Front(h) EXCEPT ![i] = Last(h)], i)
\* The heap without its entry i.
Removed(h, i) ==
    IF i = Len(h) THEN Front(h)
    ELSE LET moved == [Front(h) EXCEPT ![i] = Last(h)] IN
         IF i > 1 /\ moved[i].expire < moved[i \div 2].expire
         THEN SiftUp(moved, i) ELSE SiftDown(moved, i)

\* expheap_remove: the first entry with that key, if there is one.
HeapRemove(key) ==
    /\ LET i == SelectInSeq(heap, LAMBDA e : e.key = key) IN
       heap' = IF i = 0 THEN heap ELSE Removed(heap, i)
    /\ UNCHANGED <<capacity, popped>>

HeapNext ==
    \/ \E key \in Keys, d \in Deadlines : HeapPush(key, d)
    \/ HeapPop
    \/ \E key \in Keys : HeapRemove(key)

HeapSpec == HeapInit /\ [][HeapNext]_heapVars
-----------------------------------------------------------------------------
\* The array has room for what is written to it.
HeapTypeOK ==
    /\ heap \in Seq([key : Keys, expire : Deadlines])
    /\ Len(heap) <= capacity
    /\ popped \in [key : Keys, expire : Deadlines] \cup {Nothing}

\* No entry is before its parent, after a removal from the middle too, which may have
\* to move its replacement up or down.
HeapOrdered == \A i \in 2..Len(heap) : heap[i \div 2].expire <= heap[i].expire

\* How many of each entry there are.
Count(h) ==
    [e \in [key : Keys, expire : Deadlines] |-> Cardinality({i \in 1..Len(h) : h[i] = e})]

\* The heap is the queue expheap.h promises: a pop returns a nearest deadline, and no
\* operation loses, doubles or changes another entry.
Queue == INSTANCE ExpQueue WITH queue <- Count(heap), result <- popped
ImplementsQueue == Queue!Init /\ [][Queue!Next]_heapVars
=============================================================================
