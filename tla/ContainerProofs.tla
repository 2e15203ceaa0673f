-------------------------- MODULE ContainerProofs --------------------------
(***************************************************************************)
(* Proofs about ExpHeap, MemPool, AofBuf and Dict, and the types of all the  *)
(* containers.  For any entries the array heap is in order and implements a *)
(* queue by deadline; for every size and number of chunks the pool's free   *)
(* list is sound; for every size of the buffer, every length of the log and *)
(* every number of seconds the log is a prefix of what was written and      *)
(* everysec keeps its promise; for any keys, values and hash function,      *)
(* through any number of rehash steps, every entry is in the bucket its     *)
(* hash selects, and the two tables implement the map of dict.h.            *)
(***************************************************************************)
EXTENDS MCContainers, ZSetProofs

(***************************************************************************)
(* The expiry heap                                                          *)
(***************************************************************************)
\* What the array holds.
HeapEntries == [key : Keys, expire : Deadlines]

\* The places of an entry.
At(h, e) == {i \in 1..Len(h) : h[i] = e}

\* Deadlines can be compared.
LEMMA Comparable ==
    ASSUME NEW h \in Seq(HeapEntries)
    PROVE  /\ Len(h) \in Nat
           /\ \A i \in 1..Len(h) : h[i] \in HeapEntries /\ h[i].expire \in Int
<1>1. \A e \in HeapEntries : e.expire \in Int
  BY ExpHeapAssumption DEF HeapEntries
<1>2. Len(h) \in Nat /\ \A i \in 1..Len(h) : h[i] \in HeapEntries
  OBVIOUS
<1> QED BY <1>1, <1>2

\* There are finitely many places.
LEMMA PlacesFinite ==
    ASSUME NEW h \in Seq(HeapEntries), NEW e
    PROVE  IsFiniteSet(At(h, e)) /\ Cardinality(At(h, e)) \in Nat
<1>1. At(h, e) \in SUBSET (1..Len(h)) /\ Len(h) \in Int
  BY DEF At
<1>2. IsFiniteSet(1..Len(h))
  BY <1>1, FS_Interval
<1> QED BY <1>1, <1>2, FS_Subset, FS_CardinalityType

\* The counts by the places.
LEMMA Counted ==
    ASSUME NEW h
    PROVE  Count(h) = [e \in HeapEntries |-> Cardinality(At(h, e))]
BY DEF Count, At, HeapEntries

\* r is h with entries i and j in each other's place, with e after the last, without
\* the last, and without entry i, in whose place is the last.
IsSwapped(r, h, i, j) ==
    /\ r \in Seq(HeapEntries) /\ Len(r) = Len(h) /\ r[i] = h[j] /\ r[j] = h[i]
    /\ \A k \in 1..Len(h) : k # i /\ k # j => r[k] = h[k]
    /\ Count(r) = Count(h)
IsAppended(r, h, e) ==
    /\ r \in Seq(HeapEntries) /\ Len(r) = Len(h) + 1 /\ r[Len(h) + 1] = e
    /\ \A k \in 1..Len(h) : r[k] = h[k]
    /\ Count(r) = [Count(h) EXCEPT ![e] = @ + 1]
IsFront(r, h) ==
    /\ r \in Seq(HeapEntries) /\ Len(r) = Len(h) - 1
    /\ \A k \in 1..(Len(h) - 1) : r[k] = h[k]
    /\ h[Len(h)] \in HeapEntries
    /\ Count(r) = [Count(h) EXCEPT ![h[Len(h)]] = @ - 1]
IsReplaced(r, h, i) ==
    /\ r \in Seq(HeapEntries) /\ Len(r) = Len(h) - 1 /\ r[i] = h[Len(h)]
    /\ \A k \in 1..(Len(h) - 1) : k # i => r[k] = h[k]
    /\ h[i] \in HeapEntries
    /\ Count(r) = [Count(h) EXCEPT ![h[i]] = @ - 1]

\* Two entries change places and nothing is lost.
LEMMA SwapKeeps ==
    ASSUME NEW h \in Seq(HeapEntries), NEW i \in 1..Len(h), NEW j \in 1..Len(h),
           NEW r, r = Swapped(h, i, j)
    PROVE  IsSwapped(r, h, i, j)
<1>1. /\ r \in Seq(HeapEntries) /\ Len(r) = Len(h) /\ r[i] = h[j] /\ r[j] = h[i]
      /\ \A k \in 1..Len(h) : k # i /\ k # j => r[k] = h[k]
  BY DEF Swapped
<1>2. ASSUME NEW e \in HeapEntries PROVE Cardinality(At(r, e)) = Cardinality(At(h, e))
  <2> DEFINE A == At(h, e)
             B == At(r, e)
             f == [k \in A |-> IF k = i THEN j ELSE IF k = j THEN i ELSE k]
  <2>1. \A k \in A : f[k] \in B
    BY <1>1 DEF At
  <2>2. \A k, l \in A : f[k] = f[l] => k = l
    OBVIOUS
  <2>3. ASSUME NEW b \in B PROVE \E k \in A : f[k] = b
    <3> DEFINE k == IF b = i THEN j ELSE IF b = j THEN i ELSE b
    <3>1. k \in A
      BY <1>1 DEF At
    <3>2. f[k] = b
      BY <3>1
    <3> QED BY <3>1, <3>2
  <2>4. f \in [A -> B] /\ DOMAIN f = A
    BY <2>1
  <2>5. IsFiniteSet(A)
    BY PlacesFinite
  <2> HIDE DEF f, A, B
  <2>6. f \in Bijection(A, B)
    BY <2>2, <2>3, <2>4 DEF Bijection, Injection, Surjection, IsInjective
  <2>7. ExistsBijection(A, B)
    BY <2>6 DEF ExistsBijection
  <2> QED BY <2>5, <2>7, FS_Bijection DEF A, B
<1>3. Count(r) = Count(h)
  BY <1>2, Counted
<1> QED BY <1>1, <1>3 DEF IsSwapped

\* The counts with an entry more, and with one less.
LEMMA AppendKeeps ==
    ASSUME NEW h \in Seq(HeapEntries), NEW e \in HeapEntries, NEW r, r = Append(h, e)
    PROVE  IsAppended(r, h, e)
<1>1. /\ r \in Seq(HeapEntries) /\ Len(r) = Len(h) + 1 /\ r[Len(r)] = e /\ Len(h) \in Nat
      /\ \A i \in 1..Len(h) : r[i] = h[i]
  OBVIOUS
<1>2. ASSUME NEW d \in HeapEntries
      PROVE  Cardinality(At(r, d)) = IF d = e THEN Cardinality(At(h, d)) + 1
                                     ELSE Cardinality(At(h, d))
  <2>1. CASE d = e
    <3>1. At(r, d) = At(h, d) \cup {Len(r)} /\ Len(r) \notin At(h, d)
      BY <1>1, <2>1 DEF At
    <3> QED BY ZenonT(30), <2>1, <3>1, PlacesFinite, FS_AddElement
  <2>2. CASE d # e
    <3>1. At(r, d) = At(h, d)
      BY <1>1, <2>2 DEF At
    <3> QED BY <2>2, <3>1
  <2> QED BY <2>1, <2>2
<1>3. Count(r) = [Count(h) EXCEPT ![e] = @ + 1]
  BY <1>2, Counted
<1> QED BY <1>1, <1>3 DEF IsAppended

\* The last entry is taken away.
LEMMA FrontKeeps ==
    ASSUME NEW h \in Seq(HeapEntries), h # <<>>, NEW r, r = Front(h)
    PROVE  IsFront(r, h)
<1>1. /\ r \in Seq(HeapEntries) /\ Len(r) = Len(h) - 1 /\ Len(h) \in Nat \ {0}
      /\ \A i \in 1..Len(r) : r[i] = h[i]
      /\ h[Len(h)] \in HeapEntries
  <2>1. Len(h) \in Nat \ {0} /\ h[Len(h)] \in HeapEntries
    OBVIOUS
  <2>2. r = SubSeq(h, 1, Len(h) - 1)
    BY DEF Front
  <2>3. /\ r \in Seq(HeapEntries) /\ Len(r) = Len(h) - 1
        /\ \A i \in 1..(Len(h) - 1) : r[i] = h[i]
    <3>1. PICK n \in Nat : n = Len(h) - 1
      BY <2>1
    <3>2. n <= Len(h) /\ r = SubSeq(h, 1, n)
      BY <2>1, <2>2, <3>1
    <3>3. Len(r) = n /\ \A i \in 1..n : r[i] = h[i]
      BY <3>2
    <3>4. r \in Seq(HeapEntries)
      BY <3>2
    <3> QED BY <3>1, <3>3, <3>4
  <2> QED BY <2>1, <2>3
<1>2. PICK e \in HeapEntries : e = h[Len(h)]
  BY <1>1
<1>3. ASSUME NEW d \in HeapEntries
      PROVE  Cardinality(At(r, d)) = IF d = e THEN Cardinality(At(h, d)) - 1
                                     ELSE Cardinality(At(h, d))
  <2>1. CASE d = e
    <3>1. At(r, d) = At(h, d) \ {Len(h)} /\ Len(h) \in At(h, d)
      BY <1>1, <1>2, <2>1 DEF At
    <3> QED BY <2>1, <3>1, PlacesFinite, FS_RemoveElement
  <2>2. CASE d # e
    <3>1. At(r, d) = At(h, d)
      BY <1>1, <1>2, <2>2 DEF At
    <3> QED BY <2>2, <3>1
  <2> QED BY <2>1, <2>2
<1>4. Count(r) = [Count(h) EXCEPT ![e] = @ - 1]
  BY <1>3, Counted
<1> QED BY <1>1, <1>2, <1>4 DEF IsFront

\* The parent of an entry is before it, and its children are two.
LEMMA Half ==
    ASSUME NEW j \in Nat, j >= 2
    PROVE  /\ j \div 2 \in 1..(j - 1)
           /\ \A i \in Nat : j \div 2 = i <=> j \in {2 * i, 2 * i + 1}
OBVIOUS

\* The parent of i is not after its children, so that i may go where its parent is, or
\* a child of it where it is.
Bridged(h, i) ==
    i > 1 => \A j \in 2..Len(h) : j \div 2 = i => h[i \div 2].expire <= h[j].expire

\* In order, but that i may be before its parent, or its children before i.
UpReady(h, i) ==
    /\ Bridged(h, i)
    /\ \A j \in 2..Len(h) : j # i => h[j \div 2].expire <= h[j].expire
DownReady(h, i) ==
    /\ Bridged(h, i)
    /\ \A j \in 2..Len(h) : j \div 2 # i => h[j \div 2].expire <= h[j].expire

\* A turn of sift_up leaves at most the parent out of order.
LEMMA UpTurn ==
    ASSUME NEW h \in Seq(HeapEntries), NEW i \in 1..Len(h), UpReady(h, i), i > 1,
           NEW p, p = i \div 2, h[i].expire < h[p].expire,
           NEW r, r = Swapped(h, i, p)
    PROVE  p \in 1..Len(h) /\ p < i /\ UpReady(r, p)
<1>1. Len(h) \in Nat /\ \A k \in 1..Len(h) : h[k].expire \in Int
  BY Comparable
<1>2. i \in 2..Len(h) /\ p \in 1..(i - 1) /\ p \in 1..Len(h) /\ p # i
  BY <1>1, Half
<1>3. /\ Len(r) = Len(h) /\ r[i] = h[p] /\ r[p] = h[i]
      /\ \A k \in 1..Len(h) : k # i /\ k # p => r[k] = h[k]
  BY <1>2 DEF Swapped
<1>4. \A j \in 2..Len(h) : j \in 1..Len(h) /\ j \div 2 \in 1..Len(h) /\ j \div 2 # j
  <2> TAKE j \in 2..Len(h)
  <2>1. j \in Nat /\ j >= 2
    BY <1>1
  <2>2. j \div 2 \in 1..(j - 1)
    BY <2>1, Half
  <2> QED BY <1>1, <2>1, <2>2
<1>5. /\ \A j \in 2..Len(h) : j # i => h[j \div 2].expire <= h[j].expire
      /\ \A j \in 2..Len(h) : j \div 2 = i => h[p].expire <= h[j].expire
  BY <1>2 DEF UpReady, Bridged
<1>6. ASSUME NEW j \in 2..Len(h), j # p PROVE r[j \div 2].expire <= r[j].expire
  <2> DEFINE q == j \div 2
  <2>1. j \in 1..Len(h) /\ q \in 1..Len(h) /\ q # j
    BY <1>4
  <2>2. (j # i => h[q].expire <= h[j].expire) /\ (q = i => h[p].expire <= h[j].expire)
    BY <1>5
  <2>3. j = i => q = p
    OBVIOUS
  <2> HIDE DEF q
  <2>4. r[q].expire <= r[j].expire
    BY SMTT(30), <1>1, <1>2, <1>3, <1>6, <2>1, <2>2, <2>3
  <2> QED BY <2>4 DEF q
<1>7. ASSUME p > 1, NEW j \in 2..Len(h), j \div 2 = p PROVE r[p \div 2].expire <= r[j].expire
  <2> DEFINE g == p \div 2
  <2>1. p \in 2..Len(h)
    BY <1>1, <1>2, <1>7
  <2>2. g \in 1..Len(h) /\ g # p /\ h[g].expire <= h[p].expire
    BY <1>2, <1>4, <1>5, <2>1
  <2>3. g # i
    <3>1. p \in Nat /\ p >= 2
      BY <2>1
    <3>2. g < p
      BY <3>1, Half
    <3> QED BY <1>2, <3>2
  <2>4. j \in 1..Len(h) /\ j # p /\ (j # i => h[p].expire <= h[j].expire)
    BY <1>4, <1>5, <1>7
  <2> HIDE DEF g
  <2>5. r[g].expire <= r[j].expire
    BY <1>1, <1>2, <1>3, <2>2, <2>3, <2>4
  <2> QED BY <2>5 DEF g
<1>8. UpReady(r, p)
  BY <1>3, <1>6, <1>7 DEF UpReady, Bridged
<1> QED BY <1>2, <1>8

\* The least of an entry and its children.
LEMMA SmallestIs ==
    ASSUME NEW h \in Seq(HeapEntries), NEW i \in 1..Len(h), NEW m, m = Smallest(h, i)
    PROVE  /\ m \in {i, 2 * i, 2 * i + 1} /\ m \in 1..Len(h)
           /\ \A k \in {i, 2 * i, 2 * i + 1} : k <= Len(h) => h[m].expire <= h[k].expire
<1>1. Len(h) \in Nat /\ \A k \in 1..Len(h) : h[k].expire \in Int
  BY Comparable
<1>2. PICK v \in [1..Len(h) -> Int] : \A k \in 1..Len(h) : v[k] = h[k].expire
  <2>1. [k \in 1..Len(h) |-> h[k].expire] \in [1..Len(h) -> Int]
    BY <1>1
  <2> QED BY <2>1
<1> DEFINE below == {j \in {i, 2 * i, 2 * i + 1} : j <= Len(h)}
           First(j) == \A k \in below : v[j] < v[k] \/ (v[j] = v[k] /\ j <= k)
<1>3. i \in below /\ below \subseteq 1..Len(h)
  BY <1>1
<1>4. \E j \in below : First(j)
  <2>1. \A k \in below : k \in {i, 2 * i, 2 * i + 1} /\ k \in Nat /\ v[k] \in Int
    BY <1>1, <1>2, <1>3
  <2>2. \/ First(i)
        \/ 2 * i \in below /\ First(2 * i)
        \/ 2 * i + 1 \in below /\ First(2 * i + 1)
    BY SMTT(30), <1>1, <1>3, <2>1
  <2> QED BY <1>3, <2>2
<1>5. \A j, k \in below : v[j] = h[j].expire /\ v[k] = h[k].expire
  BY <1>2, <1>3
<1>6. \E j \in below : \A k \in below :
         h[j].expire < h[k].expire \/ (h[j].expire = h[k].expire /\ j <= k)
  BY <1>4, <1>5
<1>7. /\ m \in below
      /\ \A k \in below : h[m].expire < h[k].expire \/ (h[m].expire = h[k].expire /\ m <= k)
  BY <1>6 DEF Smallest
<1>8. \A k \in below : h[m].expire <= h[k].expire
  BY <1>1, <1>3, <1>7
<1> QED BY <1>3, <1>7, <1>8

\* A turn of sift_down leaves at most the children of the next entry out of order.
LEMMA DownTurn ==
    ASSUME NEW h \in Seq(HeapEntries), NEW i \in 1..Len(h), DownReady(h, i),
           NEW m, m = Smallest(h, i), m # i,
           NEW r, r = Swapped(h, i, m)
    PROVE  m \in 1..Len(h) /\ m > i /\ DownReady(r, m)
<1>1. Len(h) \in Nat /\ \A k \in 1..Len(h) : h[k].expire \in Int
  BY Comparable
<1>2. /\ m \in {2 * i, 2 * i + 1} /\ m \in 1..Len(h)
      /\ \A k \in {i, 2 * i, 2 * i + 1} : k <= Len(h) => h[m].expire <= h[k].expire
  BY SMTT(30), SmallestIs
<1>3. m > i /\ m \in 2..Len(h) /\ m \div 2 = i
  <2>1. (m = 2 * i \/ m = 2 * i + 1) /\ m \in Nat /\ m <= Len(h) /\ i \in Nat /\ i >= 1
    BY <1>1, <1>2
  <2>2. m > i /\ m \in 2..Len(h) /\ m \in Nat /\ m >= 2 /\ i \in Nat
    BY <1>1, <2>1
  <2>3. m \div 2 = i <=> m \in {2 * i, 2 * i + 1}
    BY <2>2, Half
  <2> QED BY <1>2, <2>2, <2>3
<1>4. /\ Len(r) = Len(h) /\ r[i] = h[m] /\ r[m] = h[i]
      /\ \A k \in 1..Len(h) : k # i /\ k # m => r[k] = h[k]
  <2>1. m \in 1..Len(h)
    BY <1>2
  <2> QED BY <2>1 DEF Swapped
<1>5. \A j \in 2..Len(h) : /\ j \in 1..Len(h) /\ j \div 2 \in 1..Len(h) /\ j \div 2 # j
                           /\ j \div 2 = i => h[m].expire <= h[j].expire
                           /\ j \div 2 # i => h[j \div 2].expire <= h[j].expire
                           /\ i > 1 /\ j \div 2 = i => h[i \div 2].expire <= h[j].expire
  <2> TAKE j \in 2..Len(h)
  <2>1. j \in Nat /\ j >= 2 /\ i \in Nat
    BY <1>1
  <2>2. j \div 2 \in 1..(j - 1) /\ (j \div 2 = i <=> j \in {2 * i, 2 * i + 1})
    BY <2>1, Half
  <2>3. j \in 1..Len(h) /\ j \div 2 \in 1..Len(h) /\ j \div 2 # j
    BY <1>1, <2>1, <2>2
  <2>4. j \div 2 = i => h[m].expire <= h[j].expire
    BY <1>2, <2>2, <2>3
  <2> QED BY <2>3, <2>4 DEF DownReady, Bridged
<1>6. i \in 1..Len(h) /\ h[m].expire <= h[i].expire
  BY <1>1, <1>2
<1>7. ASSUME NEW j \in 2..Len(h), j \div 2 # m PROVE r[j \div 2].expire <= r[j].expire
  <2> DEFINE q == j \div 2
  <2>1. j \in 1..Len(h) /\ q \in 1..Len(h) /\ q # j /\ q # m
    BY <1>5, <1>7
  <2>2. (q = i => h[m].expire <= h[j].expire) /\ (q # i => h[q].expire <= h[j].expire)
    BY <1>5
  <2>3. j = i => h[q].expire <= h[m].expire /\ q # i
    BY <1>3, <1>5
  <2> HIDE DEF q
  <2>4. r[q].expire <= r[j].expire
    BY SMTT(30), <1>1, <1>2, <1>4, <1>6, <2>1, <2>2, <2>3
  <2> QED BY <2>4 DEF q
<1>8. ASSUME NEW j \in 2..Len(h), j \div 2 = m PROVE r[m \div 2].expire <= r[j].expire
  <2>1. j # m /\ j # i /\ h[m].expire <= h[j].expire /\ j \in 1..Len(h)
    <3>1. j \in Nat /\ j >= 2
      BY <1>1
    <3>2. j \div 2 \in 1..(j - 1)
      BY <3>1, Half
    <3>3. m < j
      BY <1>8, <3>1, <3>2
    <3>4. m \in Nat /\ j # m /\ j # i
      BY <1>1, <1>2, <1>3, <3>3
    <3> QED BY <1>3, <1>5, <1>8, <3>4
  <2> QED BY <1>3, <1>4, <2>1
<1>9. DownReady(r, m)
  BY <1>4, <1>7, <1>8 DEF DownReady, Bridged
<1> QED BY <1>2, <1>3, <1>9

\* n turns U of a loop that starts with base, where the turns stay within D.
Runs(t, n, D, base, U) ==
    t[0] = base /\ \A k \in 0..(n - 1) : t[k] \in D => t[k + 1] = U[t[k]]

\* Then every turn is in D.
LEMMA RunStays ==
    ASSUME NEW D, NEW base \in D, NEW U \in [D -> D], NEW n \in Nat, NEW t, Runs(t, n, D, base, U)
    PROVE  \A k \in 0..n : t[k] \in D
<1> DEFINE S == {k \in Nat : k <= n => t[k] \in D}
<1>1. 0 \in S
  BY DEF Runs
<1>2. ASSUME NEW k \in Nat, k \in S PROVE k + 1 \in S
  <2> SUFFICES ASSUME k + 1 <= n PROVE t[k + 1] \in D
    OBVIOUS
  <2>1. t[k] \in D /\ k \in 0..(n - 1)
    BY <1>2
  <2> QED BY <2>1 DEF Runs
<1>3. Nat \subseteq S
  <2> HIDE DEF S
  <2> QED BY <1>1, <1>2, SetInduction
<1> QED BY <1>3

\* There are such turns, as many as one likes.
Endless(g, D, base, U) ==
    g \in [Nat -> D] /\ g[0] = base /\ \A k \in Nat : g[k + 1] = U[g[k]]

\* From any state, by any function, turns can go on for ever.
LEMMA RunExists ==
    ASSUME NEW D, NEW base \in D, NEW U \in [D -> D]
    PROVE  \E g : Endless(g, D, base, U)
<1>1. PICK G : G = [n \in Nat |-> U]
  OBVIOUS
<1>2. G \in [Nat -> [D -> D]] /\ \A n \in Nat : G[n] = U
  BY <1>1
<1>3. PICK g : Continues(g, D, base, G)
  BY <1>2, FunctionExists
<1> QED BY <1>2, <1>3 DEF Continues, Endless

\* No entry is before its parent.
HeapInOrder(h) == \A j \in 2..Len(h) : h[j \div 2].expire <= h[j].expire

\* Where the loops can be with n entries, counted by c.
States(n, c) ==
    {s \in [h : Seq(HeapEntries), idx : Nat] :
        Len(s.h) = n /\ s.idx \in 1..n /\ Count(s.h) = c}
UpStates(n, c) == {s \in States(n, c) : UpReady(s.h, s.idx)}
DownStates(n, c) == {s \in States(n, c) : DownReady(s.h, s.idx)}

\* Whether sift_up goes on.
Climbs(s) == s.idx > 1 /\ s.h[s.idx].expire < s.h[s.idx \div 2].expire

\* A turn of sift_up.
LEMMA UpStays ==
    ASSUME NEW n \in Nat, NEW c, NEW s \in UpStates(n, c)
    PROVE  /\ Up(s) \in UpStates(n, c)
           /\ Climbs(s) => Up(s).idx < s.idx
           /\ ~ Climbs(s) => Up(s) = s /\ HeapInOrder(s.h)
<1>1. /\ s.h \in Seq(HeapEntries) /\ Len(s.h) = n /\ s.idx \in 1..n /\ Count(s.h) = c
      /\ UpReady(s.h, s.idx)
  BY DEF UpStates, States
<1>2. PICK h, i, p : h = s.h /\ i = s.idx /\ p = i \div 2
  OBVIOUS
<1>3. CASE Climbs(s)
  <2>1. PICK r : r = Swapped(h, i, p)
    OBVIOUS
  <2>2. h[i].expire < h[p].expire /\ i > 1
    BY <1>2, <1>3 DEF Climbs
  <2>3. p \in 1..Len(h) /\ p < i /\ UpReady(r, p)
    BY <1>1, <1>2, <2>1, <2>2, UpTurn
  <2>4. r \in Seq(HeapEntries) /\ Len(r) = Len(h) /\ Count(r) = Count(h)
    BY <1>1, <1>2, <2>1, <2>3, SwapKeeps DEF IsSwapped
  <2>5. Up(s) = [h |-> r, idx |-> p]
    BY <1>2, <1>3, <2>1 DEF Up, Climbs
  <2>6. p \in Nat
    BY <1>1, <1>2, <2>3
  <2> QED BY <1>1, <1>2, <1>3, <2>3, <2>4, <2>5, <2>6 DEF UpStates, States
<1>4. CASE ~ Climbs(s)
  <2>1. Up(s) = s
    BY <1>4 DEF Up, Climbs
  <2>2. ASSUME NEW j \in 2..Len(h) PROVE h[j \div 2].expire <= h[j].expire
    <3>1. CASE j # i
      BY <1>1, <1>2, <3>1 DEF UpReady
    <3>2. CASE j = i
      <4>1. j \in Nat /\ j >= 2 /\ j \in 1..Len(h) /\ Len(h) \in Nat
        BY <1>1, <1>2
      <4>2. j \div 2 \in 1..Len(h)
        BY <4>1, Half
      <4>3. h[j].expire \in Int /\ h[j \div 2].expire \in Int
        BY <1>1, <1>2, <4>1, <4>2, Comparable
      <4>4. ~ (h[j].expire < h[j \div 2].expire)
        BY <1>2, <1>4, <3>2, <4>1 DEF Climbs
      <4> QED BY <4>3, <4>4
    <3> QED BY <3>1, <3>2
  <2> QED BY <1>2, <1>4, <2>1, <2>2 DEF HeapInOrder
<1> QED BY <1>3, <1>4

\* A turn of sift_down, which stops where the least is the entry itself.
LEMMA DownStays ==
    ASSUME NEW n \in Nat, NEW c, NEW s \in DownStates(n, c)
    PROVE  /\ Down(s) \in DownStates(n, c)
           /\ Smallest(s.h, s.idx) # s.idx => Down(s).idx > s.idx
           /\ Smallest(s.h, s.idx) = s.idx => Down(s) = s /\ HeapInOrder(s.h)
<1>1. /\ s.h \in Seq(HeapEntries) /\ Len(s.h) = n /\ s.idx \in 1..n /\ Count(s.h) = c
      /\ DownReady(s.h, s.idx) /\ s = [h |-> s.h, idx |-> s.idx]
  BY DEF DownStates, States
<1>2. PICK h, i, m, r : h = s.h /\ i = s.idx /\ m = Smallest(h, i) /\ r = Swapped(h, i, m)
  OBVIOUS
<1>3. Down(s) = [h |-> r, idx |-> m]
  BY <1>2 DEF Down
<1>4. CASE m # i
  <2>1. m \in 1..Len(h) /\ m > i /\ DownReady(r, m)
    BY <1>1, <1>2, <1>4, DownTurn
  <2>2. r \in Seq(HeapEntries) /\ Len(r) = Len(h) /\ Count(r) = Count(h)
    BY <1>1, <1>2, <2>1, SwapKeeps DEF IsSwapped
  <2>3. m \in Nat
    BY <1>1, <1>2, <2>1
  <2> QED BY <1>1, <1>2, <1>3, <1>4, <2>1, <2>2, <2>3 DEF DownStates, States
<1>5. CASE m = i
  <2>1. r = h
    <3>1. r = [h EXCEPT ![i] = h[i]]
      BY <1>2, <1>5 DEF Swapped
    <3> QED BY <1>1, <1>2, <3>1
  <2>2. Down(s) = s
    BY <1>1, <1>2, <1>3, <1>5, <2>1
  <2>3. ASSUME NEW j \in 2..Len(h) PROVE h[j \div 2].expire <= h[j].expire
    <3>1. CASE j \div 2 # i
      BY <1>1, <1>2, <3>1 DEF DownReady
    <3>2. CASE j \div 2 = i
      <4>1. j \in Nat /\ j >= 2 /\ i \in Nat /\ j <= Len(h)
        BY <1>1, <1>2
      <4>2. j \in {2 * i, 2 * i + 1}
        BY <3>2, <4>1, Half
      <4>3. \A k \in {i, 2 * i, 2 * i + 1} : k <= Len(h) => h[m].expire <= h[k].expire
        BY <1>1, <1>2, SmallestIs
      <4> QED BY <1>5, <3>2, <4>1, <4>2, <4>3
    <3> QED BY <3>1, <3>2
  <2> QED BY <1>2, <1>5, <2>2, <2>3 DEF HeapInOrder
<1> QED BY <1>2, <1>4, <1>5

\* sift_up puts the heap in order.
LEMMA SiftUpOrders ==
    ASSUME NEW h \in Seq(HeapEntries), NEW i \in 1..Len(h), UpReady(h, i), NEW r, r = SiftUp(h, i)
    PROVE  /\ r \in Seq(HeapEntries) /\ Len(r) = Len(h) /\ Count(r) = Count(h)
           /\ HeapInOrder(r)
<1> DEFINE D == UpStates(Len(h), Count(h))
           base == [h |-> h, idx |-> i]
           U == [s \in D |-> Up(s)]
           Turn(f) == f = [n \in 0..i |-> IF n = 0 THEN base ELSE Up(f[n - 1])]
<1>1. i \in Nat /\ Len(h) \in Nat
  OBVIOUS
<1>2. base \in D
  BY <1>1 DEF UpStates, States
<1>3. U \in [D -> D] /\ \A s \in D : U[s] = Up(s)
  BY <1>1, UpStays
<1>4. \E f : Turn(f)
  <2> HIDE DEF D, base, U
  <2>1. PICK g : Endless(g, D, base, U)
    BY <1>2, <1>3, RunExists
  <2>2. g \in [Nat -> D] /\ g[0] = base /\ \A k \in Nat : g[k + 1] = U[g[k]]
    BY <2>1 DEF Endless
  <2>3. PICK f : f = [n \in 0..i |-> g[n]]
    OBVIOUS
  <2>4. ASSUME NEW n \in 0..i PROVE f[n] = IF n = 0 THEN base ELSE Up(f[n - 1])
    <3>1. CASE n = 0
      BY <2>2, <2>3, <3>1
    <3>2. CASE n # 0
      <4>1. n - 1 \in Nat /\ n - 1 \in 0..i /\ (n - 1) + 1 = n
        BY <1>1, <3>2
      <4>2. g[n] = Up(g[n - 1])
        BY <1>3, <2>2, <4>1
      <4> QED BY <2>3, <3>2, <4>1, <4>2
    <3> QED BY <3>1, <3>2
  <2>5. f = [n \in 0..i |-> IF n = 0 THEN base ELSE Up(f[n - 1])]
    BY <2>3, <2>4
  <2> QED BY <2>5
<1>5. PICK t : Turn(t) /\ r = t[i].h
  <2>1. PICK t : t = CHOOSE f : Turn(f)
    OBVIOUS
  <2>2. Turn(t)
    BY <1>4, <2>1
  <2>3. r = t[i].h
    BY <2>1 DEF SiftUp
  <2> QED BY <2>2, <2>3
<1>6. t[0] = base /\ \A k \in 0..(i - 1) : t[k + 1] = Up(t[k])
  <2>1. \A n \in 0..i : t[n] = IF n = 0 THEN base ELSE Up(t[n - 1])
    <3> HIDE DEF base
    <3>1. PICK f : f = [n \in 0..i |-> IF n = 0 THEN base ELSE Up(t[n - 1])]
      OBVIOUS
    <3>2. t = f
      BY <1>5, <3>1
    <3> QED BY <3>1, <3>2
  <2>2. \A k \in 0..(i - 1) : k + 1 \in 0..i /\ k + 1 # 0 /\ (k + 1) - 1 = k
    BY <1>1
  <2>3. 0 \in 0..i
    BY <1>1
  <2> HIDE DEF base
  <2> QED BY <2>1, <2>2, <2>3
<1> HIDE DEF D, base, U, Turn
<1>7. \A k \in 0..i : t[k] \in D
  <2>1. Runs(t, i, D, base, U)
    BY <1>3, <1>6 DEF Runs
  <2> QED BY <1>1, <1>2, <1>3, <2>1, RunStays
<1>8. \A s \in D : /\ s.idx \in Nat /\ s.idx > 0
                   /\ Climbs(s) => Up(s).idx < s.idx
                   /\ ~ Climbs(s) => Up(s) = s /\ HeapInOrder(s.h)
  <2>1. \A s \in D : s.idx \in Nat /\ s.idx > 0
    BY <1>1 DEF D, UpStates, States
  <2> QED BY <1>1, <2>1, UpStays DEF D
<1>9. ~ Climbs(t[i])
  <2> DEFINE S == {k \in Nat : k <= i => ~ Climbs(t[k]) \/ t[k].idx <= i - k}
  <2>1. 0 \in S
    BY <1>1, <1>6 DEF base
  <2>2. ASSUME NEW k \in Nat, k \in S PROVE k + 1 \in S
    <3> SUFFICES ASSUME k + 1 <= i, Climbs(t[k + 1]) PROVE t[k + 1].idx <= i - (k + 1)
      OBVIOUS
    <3>1. k \in 0..(i - 1) /\ k \in 0..i /\ k + 1 \in 0..i
      BY <1>1
    <3>2. t[k + 1] = Up(t[k]) /\ t[k] \in D /\ t[k + 1] \in D
      BY <1>6, <1>7, <3>1
    <3>3. Climbs(t[k])
      BY <1>8, <3>2
    <3>4. t[k].idx <= i - k /\ t[k + 1].idx < t[k].idx
      BY <1>8, <2>2, <3>1, <3>2, <3>3
    <3>5. t[k].idx \in Nat /\ t[k + 1].idx \in Nat
      BY <1>8, <3>2
    <3> QED BY <1>1, <3>4, <3>5
  <2>3. Nat \subseteq S
    <3> HIDE DEF S
    <3> QED BY <2>1, <2>2, SetInduction
  <2>4. i \in S /\ i \in 0..i
    BY <1>1, <2>3
  <2>5. t[i].idx \in Nat /\ t[i].idx > 0
    BY <1>7, <1>8, <2>4
  <2> QED BY <1>1, <2>4, <2>5
<1>10. t[i] \in D
  BY <1>1, <1>7
<1> QED BY <1>5, <1>8, <1>9, <1>10 DEF D, UpStates, States

\* So does sift_down.
LEMMA SiftDownOrders ==
    ASSUME NEW h \in Seq(HeapEntries), NEW i \in 1..Len(h), DownReady(h, i),
           NEW r, r = SiftDown(h, i)
    PROVE  /\ r \in Seq(HeapEntries) /\ Len(r) = Len(h) /\ Count(r) = Count(h)
           /\ HeapInOrder(r)
<1> DEFINE D == DownStates(Len(h), Count(h))
           base == [h |-> h, idx |-> i]
           U == [s \in D |-> Down(s)]
           Turn(f) == f = [n \in 0..Len(h) |-> IF n = 0 THEN base ELSE Down(f[n - 1])]
<1>1. i \in Nat /\ Len(h) \in Nat /\ i > 0
  OBVIOUS
<1>2. base \in D
  BY <1>1 DEF DownStates, States
<1>3. U \in [D -> D] /\ \A s \in D : U[s] = Down(s)
  BY <1>1, DownStays
<1>4. \E f : Turn(f)
  <2> HIDE DEF D, base, U
  <2>1. PICK g : Endless(g, D, base, U)
    BY <1>2, <1>3, RunExists
  <2>2. g \in [Nat -> D] /\ g[0] = base /\ \A k \in Nat : g[k + 1] = U[g[k]]
    BY <2>1 DEF Endless
  <2>3. PICK f : f = [n \in 0..Len(h) |-> g[n]]
    OBVIOUS
  <2>4. ASSUME NEW n \in 0..Len(h) PROVE f[n] = IF n = 0 THEN base ELSE Down(f[n - 1])
    <3>1. CASE n = 0
      BY <2>2, <2>3, <3>1
    <3>2. CASE n # 0
      <4>1. n - 1 \in Nat /\ n - 1 \in 0..Len(h) /\ (n - 1) + 1 = n
        BY <1>1, <3>2
      <4>2. g[n] = Down(g[n - 1])
        BY <1>3, <2>2, <4>1
      <4> QED BY <2>3, <3>2, <4>1, <4>2
    <3> QED BY <3>1, <3>2
  <2>5. f = [n \in 0..Len(h) |-> IF n = 0 THEN base ELSE Down(f[n - 1])]
    BY <2>3, <2>4
  <2> QED BY <2>5
<1>5. PICK t : Turn(t) /\ r = t[Len(h)].h
  <2>1. PICK t : t = CHOOSE f : Turn(f)
    OBVIOUS
  <2>2. Turn(t)
    BY <1>4, <2>1
  <2>3. r = t[Len(h)].h
    BY <2>1 DEF SiftDown
  <2> QED BY <2>2, <2>3
<1>6. t[0] = base /\ \A k \in 0..(Len(h) - 1) : t[k + 1] = Down(t[k])
  <2>1. \A n \in 0..Len(h) : t[n] = IF n = 0 THEN base ELSE Down(t[n - 1])
    <3> HIDE DEF base
    <3>1. PICK f : f = [n \in 0..Len(h) |-> IF n = 0 THEN base ELSE Down(t[n - 1])]
      OBVIOUS
    <3>2. t = f
      BY <1>5, <3>1
    <3> QED BY <3>1, <3>2
  <2>2. \A k \in 0..(Len(h) - 1) : k + 1 \in 0..Len(h) /\ k + 1 # 0 /\ (k + 1) - 1 = k
    BY <1>1
  <2>3. 0 \in 0..Len(h)
    BY <1>1
  <2> HIDE DEF base
  <2> QED BY <2>1, <2>2, <2>3
<1> HIDE DEF D, base, U, Turn
<1>7. \A k \in 0..Len(h) : t[k] \in D
  <2>1. Runs(t, Len(h), D, base, U)
    BY <1>3, <1>6 DEF Runs
  <2> QED BY <1>1, <1>2, <1>3, <2>1, RunStays
<1>8. \A s \in D : /\ s.idx \in 1..Len(h)
                   /\ Smallest(s.h, s.idx) # s.idx => Down(s).idx > s.idx
                   /\ Smallest(s.h, s.idx) = s.idx => Down(s) = s /\ HeapInOrder(s.h)
  <2>1. \A s \in D : s.idx \in 1..Len(h)
    BY <1>1 DEF D, DownStates, States
  <2> QED BY <1>1, <2>1, DownStays DEF D
<1> DEFINE Sinks(s) == Smallest(s.h, s.idx) # s.idx
<1>9. ~ Sinks(t[Len(h)])
  <2> DEFINE S == {k \in Nat : k <= Len(h) => ~ Sinks(t[k]) \/ t[k].idx > k}
  <2>1. \A s \in D : /\ Sinks(s) => Down(s).idx > s.idx
                     /\ ~ Sinks(s) => Down(s) = s
    BY <1>8
  <2> HIDE DEF Sinks
  <2>2. 0 \in S
    BY <1>1, <1>6 DEF base
  <2>3. ASSUME NEW k \in Nat, k \in S PROVE k + 1 \in S
    <3> SUFFICES ASSUME k + 1 <= Len(h), Sinks(t[k + 1]) PROVE t[k + 1].idx > k + 1
      OBVIOUS
    <3>1. k \in 0..(Len(h) - 1) /\ k \in 0..Len(h) /\ k + 1 \in 0..Len(h)
      BY <1>1
    <3>2. t[k + 1] = Down(t[k]) /\ t[k] \in D /\ t[k + 1] \in D
      BY <1>6, <1>7, <3>1
    <3>3. Sinks(t[k])
      BY <2>1, <3>2
    <3>4. t[k].idx > k /\ t[k + 1].idx > t[k].idx
      BY <2>1, <2>3, <3>1, <3>2, <3>3
    <3>5. t[k].idx \in Nat /\ t[k + 1].idx \in Nat
      BY <1>8, <3>2
    <3> QED BY <3>4, <3>5
  <2>4. Nat \subseteq S
    <3> HIDE DEF S
    <3> QED BY <2>2, <2>3, SetInduction
  <2>5. Len(h) \in S /\ Len(h) \in 0..Len(h)
    BY <1>1, <2>4
  <2>6. t[Len(h)].idx \in 1..Len(h)
    BY <1>7, <1>8, <2>5
  <2> QED BY <1>1, <2>5, <2>6
<1>10. t[Len(h)] \in D
  BY <1>1, <1>7
<1> QED BY <1>5, <1>8, <1>9, <1>10 DEF D, DownStates, States

\* The first entry has a nearest deadline.
LEMMA RootLeast ==
    ASSUME NEW h \in Seq(HeapEntries), HeapInOrder(h)
    PROVE  \A i \in 1..Len(h) : h[1].expire <= h[i].expire
<1>1. Len(h) \in Nat /\ \A i \in 1..Len(h) : h[i].expire \in Int
  BY Comparable
<1> DEFINE S == {n \in Nat : \A i \in 1..Len(h) : i <= n => h[1].expire <= h[i].expire}
<1>2. 0 \in S
  BY <1>1
<1>3. ASSUME NEW n \in Nat, n \in S PROVE n + 1 \in S
  <2> SUFFICES ASSUME NEW i \in 1..Len(h), i <= n + 1 PROVE h[1].expire <= h[i].expire
    OBVIOUS
  <2>1. CASE i <= n
    BY <1>3, <2>1
  <2>2. CASE i = 1
    BY <1>1, <2>2
  <2>3. CASE i > n /\ i # 1
    <3>1. i \in 2..Len(h) /\ i \in Nat /\ i >= 2 /\ i = n + 1
      BY <1>1, <2>3
    <3>2. PICK p : p = i \div 2
      OBVIOUS
    <3>3. p \in 1..n /\ p \in 1..Len(h)
      BY <1>1, <3>1, <3>2, Half
    <3>4. h[1].expire <= h[p].expire
      BY <1>3, <3>3
    <3>5. h[p].expire <= h[i].expire
      BY <3>1, <3>2 DEF HeapInOrder
    <3>6. h[1].expire \in Int /\ h[p].expire \in Int /\ h[i].expire \in Int
      BY <1>1, <3>3
    <3> QED BY <3>4, <3>5, <3>6
  <2> QED BY <1>1, <2>1, <2>2, <2>3
<1>4. Nat \subseteq S
  <2> HIDE DEF S
  <2> QED BY <1>2, <1>3, SetInduction
<1>5. Len(h) \in S
  BY <1>1, <1>4
<1> QED BY <1>1, <1>5

\* An entry is pushed.
LEMMA PushOrders ==
    ASSUME NEW h \in Seq(HeapEntries), HeapInOrder(h), NEW e \in HeapEntries,
           NEW r, r = SiftUp(Append(h, e), Len(h) + 1)
    PROVE  /\ r \in Seq(HeapEntries) /\ Len(r) = Len(h) + 1 /\ HeapInOrder(r)
           /\ Count(r) = [Count(h) EXCEPT ![e] = @ + 1]
<1>1. PICK a : a = Append(h, e)
  OBVIOUS
<1>2. /\ a \in Seq(HeapEntries) /\ Len(a) = Len(h) + 1
      /\ \A i \in 1..Len(h) : a[i] = h[i]
      /\ Count(a) = [Count(h) EXCEPT ![e] = @ + 1]
  <2>1. IsAppended(a, h, e)
    BY <1>1, AppendKeeps
  <2> QED BY <2>1 DEF IsAppended
<1>3. PICK n \in Nat : n = Len(h)
  OBVIOUS
<1>4. ASSUME NEW j \in 2..(n + 1)
      PROVE  /\ j # n + 1 => a[j \div 2].expire <= a[j].expire
             /\ j \div 2 # n + 1
  <2>1. j \in Nat /\ j >= 2
    OBVIOUS
  <2>2. PICK p : p = j \div 2
    OBVIOUS
  <2>3. p \in 1..(j - 1)
    BY <2>1, <2>2, Half
  <2>4. ASSUME j # n + 1 PROVE a[p].expire <= a[j].expire
    <3>1. j \in 2..n /\ j \in 1..n /\ p \in 1..n
      BY <2>3, <2>4
    <3>2. a[p] = h[p] /\ a[j] = h[j]
      BY <1>2, <1>3, <3>1
    <3> QED BY <1>3, <2>2, <3>1, <3>2 DEF HeapInOrder
  <2> QED BY <2>2, <2>3, <2>4
<1>5. UpReady(a, n + 1)
  BY <1>2, <1>3, <1>4 DEF UpReady, Bridged
<1>6. n + 1 \in 1..Len(a)
  BY <1>2, <1>3
<1>7. r = SiftUp(a, n + 1)
  BY <1>1, <1>3
<1>8. r \in Seq(HeapEntries) /\ Len(r) = Len(a) /\ Count(r) = Count(a) /\ HeapInOrder(r)
  BY <1>2, <1>5, <1>6, <1>7, SiftUpOrders
<1> QED BY <1>2, <1>8

\* The last entry is put in the place of another.
LEMMA ReplaceKeeps ==
    ASSUME NEW h \in Seq(HeapEntries), NEW i \in 1..(Len(h) - 1),
           NEW r, r = [Front(h) EXCEPT ![i] = Last(h)]
    PROVE  IsReplaced(r, h, i)
<1>1. PICK n \in Nat : n = Len(h) /\ i \in 1..n /\ n \in 1..n /\ i \in 1..(n - 1)
  <2>1. Len(h) \in Nat
    OBVIOUS
  <2> QED BY <2>1
<1>2. h # <<>> /\ h[i] \in HeapEntries
  BY <1>1
<1>3. PICK s : s = Swapped(h, i, n)
  OBVIOUS
<1>4. /\ s \in Seq(HeapEntries) /\ Len(s) = n /\ s[i] = h[n] /\ s[n] = h[i]
      /\ \A k \in 1..n : k # i /\ k # n => s[k] = h[k]
      /\ Count(s) = Count(h)
  <2>1. i \in 1..Len(h) /\ n \in 1..Len(h)
    BY <1>1
  <2>2. IsSwapped(s, h, i, n)
    BY <1>3, <2>1, SwapKeeps
  <2> QED BY <1>1, <2>2 DEF IsSwapped
<1>5. PICK f, g : f = Front(s) /\ g = Front(h)
  OBVIOUS
<1>6. s # <<>>
  BY <1>1, <1>4
<1>7. /\ f \in Seq(HeapEntries) /\ Len(f) = n - 1
      /\ \A j \in 1..(n - 1) : f[j] = s[j]
      /\ Count(f) = [Count(s) EXCEPT ![s[n]] = @ - 1]
  <2>1. IsFront(f, s)
    BY <1>4, <1>5, <1>6, FrontKeeps
  <2> QED BY <1>4, <2>1 DEF IsFront
<1>8. g \in Seq(HeapEntries) /\ Len(g) = n - 1 /\ \A j \in 1..(n - 1) : g[j] = h[j]
  <2>1. IsFront(g, h)
    BY <1>2, <1>5, FrontKeeps
  <2> QED BY <1>1, <2>1 DEF IsFront
<1>9. r = [g EXCEPT ![i] = h[n]]
  BY <1>1, <1>5 DEF Last
<1>10. f = r
  <2>1. f \in [1..(n - 1) -> HeapEntries] /\ g \in [1..(n - 1) -> HeapEntries]
    BY <1>1, <1>7, <1>8
  <2>2. ASSUME NEW j \in 1..(n - 1) PROVE f[j] = r[j]
    <3>1. CASE j = i
      BY <1>4, <1>7, <1>9, <2>1, <3>1
    <3>2. CASE j # i
      <4>1. j \in 1..n /\ j # n
        BY <1>1
      <4>2. f[j] = s[j] /\ s[j] = h[j] /\ g[j] = h[j]
        BY <1>4, <1>7, <1>8, <3>2, <4>1
      <4>3. r[j] = g[j]
        BY <1>9, <2>1, <3>2
      <4> QED BY <4>2, <4>3
    <3> QED BY <3>1, <3>2
  <2>3. DOMAIN r = 1..(n - 1) /\ r = [j \in 1..(n - 1) |-> r[j]]
    BY <1>9, <2>1
  <2> QED BY <2>1, <2>2, <2>3
<1>11. r[i] = h[n] /\ \A j \in 1..(n - 1) : j # i => r[j] = h[j]
  <2>1. ASSUME NEW j \in 1..(n - 1), j # i PROVE r[j] = h[j]
    <3>1. j \in 1..n /\ j # n
      BY <1>1
    <3> QED BY <1>4, <1>7, <1>10, <2>1, <3>1
  <2> QED BY <1>1, <1>4, <1>7, <1>10, <2>1
<1> QED BY <1>1, <1>2, <1>4, <1>7, <1>10, <1>11 DEF IsReplaced

\* An entry is taken out: what may go up is sifted up, what may not is sifted down.
LEMMA ReplacedReady ==
    ASSUME NEW h \in Seq(HeapEntries), HeapInOrder(h), NEW i \in 1..(Len(h) - 1),
           NEW r, IsReplaced(r, h, i)
    PROVE  /\ i > 1 /\ r[i].expire < r[i \div 2].expire => UpReady(r, i)
           /\ ~ (i > 1 /\ r[i].expire < r[i \div 2].expire) => DownReady(r, i)
<1>1. PICK n \in Nat : n = Len(h) /\ i \in 1..(n - 1)
  <2>1. Len(h) \in Nat
    OBVIOUS
  <2> QED BY <2>1
<1>2. /\ r \in Seq(HeapEntries) /\ Len(r) = n - 1
      /\ \A k \in 1..(n - 1) : k # i => r[k] = h[k]
  BY <1>1 DEF IsReplaced
<1>3. /\ \A k \in 1..n : h[k].expire \in Int
      /\ \A k \in 1..(n - 1) : r[k].expire \in Int
  BY <1>1, <1>2, Comparable
<1>4. ASSUME NEW j \in 2..(n - 1), NEW p, p = j \div 2
      PROVE  /\ j \in 1..(n - 1) /\ p \in 1..(n - 1) /\ p # j /\ p < j
             /\ h[p].expire <= h[j].expire
             /\ h[p].expire \in Int /\ h[j].expire \in Int
  <2>1. j \in Nat /\ j >= 2
    OBVIOUS
  <2>2. p \in 1..(j - 1)
    BY <1>4, <2>1, Half
  <2>3. j \in 2..n /\ j \in 1..n /\ j \in 1..(n - 1) /\ p \in 1..n /\ p \in 1..(n - 1) /\ p # j /\ p < j
    BY <2>2
  <2> QED BY <1>1, <1>3, <1>4, <2>3 DEF HeapInOrder
<1>5. PICK g : g = i \div 2
  OBVIOUS
<1>6. i > 1 => /\ g \in 1..(n - 1) /\ g # i /\ r[g] = h[g]
               /\ h[g].expire <= h[i].expire /\ h[g].expire \in Int /\ h[i].expire \in Int
  <2>1. i > 1 => i \in 2..(n - 1)
    BY <1>1
  <2> QED BY <1>2, <1>4, <1>5, <2>1
<1>7. Bridged(r, i)
  <2> SUFFICES ASSUME i > 1, NEW j \in 2..(n - 1), j \div 2 = i
               PROVE  r[g].expire <= r[j].expire
    BY <1>2, <1>5 DEF Bridged
  <2>1. j \in 1..(n - 1) /\ i # j /\ h[i].expire <= h[j].expire /\ h[j].expire \in Int
    BY <1>4
  <2>2. r[j] = h[j] /\ r[g] = h[g]
    BY <1>2, <1>6, <2>1
  <2> QED BY <1>6, <2>1, <2>2
<1>8. ASSUME i > 1, r[i].expire < r[g].expire, NEW j \in 2..(n - 1), j # i
      PROVE  r[j \div 2].expire <= r[j].expire
  <2>1. PICK p : p = j \div 2
    OBVIOUS
  <2>2. /\ j \in 1..(n - 1) /\ p \in 1..(n - 1) /\ h[p].expire <= h[j].expire
        /\ h[p].expire \in Int /\ h[j].expire \in Int
    BY <1>4, <2>1
  <2>3. r[j] = h[j]
    BY <1>2, <1>8, <2>2
  <2>4. CASE p # i
    BY <1>2, <2>1, <2>2, <2>3, <2>4
  <2>5. CASE p = i
    <3>1. r[i].expire \in Int /\ h[g].expire <= h[i].expire /\ h[g].expire \in Int
          /\ h[i].expire \in Int /\ r[g] = h[g] /\ h[i].expire <= h[j].expire
      BY <1>3, <1>6, <1>8, <2>2, <2>5
    <3>2. r[i].expire <= h[j].expire
      BY SMTT(30), <1>8, <2>2, <3>1
    <3> QED BY <2>1, <2>3, <2>5, <3>2
  <2> QED BY <2>4, <2>5
<1>9. ASSUME ~ (i > 1 /\ r[i].expire < r[g].expire), NEW j \in 2..(n - 1), j \div 2 # i
      PROVE  r[j \div 2].expire <= r[j].expire
  <2>1. PICK p : p = j \div 2
    OBVIOUS
  <2>2. /\ j \in 1..(n - 1) /\ p \in 1..(n - 1) /\ h[p].expire <= h[j].expire
        /\ h[p].expire \in Int /\ h[j].expire \in Int
    BY <1>4, <2>1
  <2>3. r[p] = h[p]
    BY <1>2, <1>9, <2>1, <2>2
  <2>4. CASE j # i
    BY <1>2, <2>1, <2>2, <2>3, <2>4
  <2>5. CASE j = i
    <3>1. p = g /\ i > 1 /\ r[i].expire \in Int /\ r[g].expire \in Int
      BY <1>3, <1>5, <2>1, <2>2, <2>5
    <3> QED BY <1>9, <2>1, <2>5, <3>1
  <2> QED BY <2>4, <2>5
<1> QED BY <1>2, <1>5, <1>7, <1>8, <1>9 DEF UpReady, DownReady

\* Then the heap is in order and lacks that entry.
IsWithout(r, h, i) ==
    /\ r \in Seq(HeapEntries) /\ Len(r) = Len(h) - 1 /\ HeapInOrder(r)
    /\ h[i] \in HeapEntries
    /\ Count(r) = [Count(h) EXCEPT ![h[i]] = @ - 1]

\* expheap_remove, having found the entry, takes it out and restores the order.
LEMMA RemovedOrders ==
    ASSUME NEW h \in Seq(HeapEntries), HeapInOrder(h), NEW i \in 1..Len(h),
           NEW r, r = Removed(h, i)
    PROVE  IsWithout(r, h, i)
<1>1. Len(h) \in Nat /\ h # <<>>
  OBVIOUS
<1>2. CASE i = Len(h)
  <2>1. r = Front(h)
    BY <1>2 DEF Removed
  <2>2. IsFront(r, h)
    BY <1>1, <2>1, FrontKeeps
  <2>3. HeapInOrder(r)
    <3> SUFFICES ASSUME NEW j \in 2..(Len(h) - 1) PROVE r[j \div 2].expire <= r[j].expire
      BY <2>2 DEF HeapInOrder, IsFront
    <3>1. PICK p : p = j \div 2
      OBVIOUS
    <3>2. j \in Nat /\ j >= 2 /\ j \in 2..Len(h) /\ j \in 1..(Len(h) - 1)
      BY <1>1
    <3>3. p \in 1..(j - 1)
      BY <3>1, <3>2, Half
    <3>4. p \in 1..(Len(h) - 1)
      BY <1>1, <3>2, <3>3
    <3>5. r[p] = h[p] /\ r[j] = h[j]
      BY <2>2, <3>2, <3>4 DEF IsFront
    <3> QED BY <3>1, <3>2, <3>5 DEF HeapInOrder
  <2> QED BY <1>2, <2>2, <2>3 DEF IsFront, IsWithout
<1>3. CASE i # Len(h)
  <2>1. i \in 1..(Len(h) - 1)
    BY <1>1, <1>3
  <2>2. PICK m : m = [Front(h) EXCEPT ![i] = Last(h)]
    OBVIOUS
  <2>3. IsReplaced(m, h, i)
    BY <2>1, <2>2, ReplaceKeeps
  <2>4. m \in Seq(HeapEntries) /\ Len(m) = Len(h) - 1 /\ i \in 1..Len(m)
    BY <2>1, <2>3 DEF IsReplaced
  <2>5. r = IF i > 1 /\ m[i].expire < m[i \div 2].expire THEN SiftUp(m, i) ELSE SiftDown(m, i)
    BY <1>3, <2>2 DEF Removed
  <2>6. /\ i > 1 /\ m[i].expire < m[i \div 2].expire => UpReady(m, i)
        /\ ~ (i > 1 /\ m[i].expire < m[i \div 2].expire) => DownReady(m, i)
    BY <2>1, <2>3, ReplacedReady
  <2>7. r \in Seq(HeapEntries) /\ Len(r) = Len(m) /\ Count(r) = Count(m) /\ HeapInOrder(r)
    <3>1. CASE i > 1 /\ m[i].expire < m[i \div 2].expire
      BY <2>4, <2>5, <2>6, <3>1, SiftUpOrders
    <3>2. CASE ~ (i > 1 /\ m[i].expire < m[i \div 2].expire)
      <4>1. r = SiftDown(m, i) /\ DownReady(m, i)
        BY <2>5, <2>6, <3>2
      <4> QED BY <2>4, <4>1, SiftDownOrders
    <3> QED BY <3>1, <3>2
  <2> QED BY <2>3, <2>4, <2>7 DEF IsReplaced, IsWithout
<1> QED BY <1>2, <1>3

\* A pop takes out the first.
LEMMA PopOrders ==
    ASSUME NEW h \in Seq(HeapEntries), HeapInOrder(h), h # <<>>,
           NEW r, r = IF Len(h) = 1 THEN <<>>
                      ELSE SiftDown([Front(h) EXCEPT ![1] = Last(h)], 1)
    PROVE  IsWithout(r, h, 1)
<1>1. Len(h) \in Nat /\ Len(h) >= 1 /\ 1 \in 1..Len(h)
  OBVIOUS
<1>2. PICK w : w = Removed(h, 1)
  OBVIOUS
<1>3. IsWithout(w, h, 1)
  BY <1>1, <1>2, RemovedOrders
<1>4. CASE Len(h) = 1
  <2>1. w \in Seq(HeapEntries) /\ Len(w) = 0
    BY <1>3, <1>4 DEF IsWithout
  <2>2. w = <<>>
    BY <2>1
  <2> QED BY <1>3, <1>4, <2>2
<1>5. CASE Len(h) # 1
  <2>1. w = r
    BY <1>2, <1>5 DEF Removed
  <2> QED BY <1>3, <2>1
<1> QED BY <1>4, <1>5

\* The entry expheap_remove finds.
Find(h, key) == SelectInSeq(h, LAMBDA e : e.key = key)

\* It is one of that key, if there is any.
LEMMA Selected ==
    ASSUME NEW h \in Seq(HeapEntries), NEW key, NEW i, i = Find(h, key)
    PROVE  i = 0 \/ (i \in 1..Len(h) /\ h[i].key = key)
<1> DEFINE I == {k \in 1..Len(h) : h[k].key = key}
<1>1. i = IF I # {} THEN Min(I) ELSE 0
  BY DEF Find, SelectInSeq
<1>2. CASE I # {}
  <2>1. I \in SUBSET Nat
    OBVIOUS
  <2>2. \E x \in I : \A y \in I : x <= y
    <3> HIDE DEF I
    <3> QED BY <1>2, <2>1, Lowest
  <2>3. Min(I) \in I
    BY <2>2 DEF Min
  <2> QED BY <1>1, <1>2, <2>3
<1> QED BY <1>1, <1>2

\* The heap is in order, and the array has room for it and is never of size 0, so that
\* doubling it makes room.
HeapInv ==
    /\ HeapTypeOK /\ HeapOrdered
    /\ capacity \in Nat \ {0}

\* What the steps keep, by the names of the proofs above.
LEMMA HeapInvIs ==
    HeapInv <=> /\ heap \in Seq(HeapEntries) /\ HeapInOrder(heap)
                /\ Len(heap) <= capacity /\ capacity \in Nat \ {0}
                /\ popped \in HeapEntries \cup {Nothing}
BY DEF HeapInv, HeapTypeOK, HeapOrdered, HeapInOrder, HeapEntries

\* The same of the next state.
LEMMA HeapInvNext ==
    HeapInv' <=> /\ heap' \in Seq(HeapEntries) /\ HeapInOrder(heap')
                 /\ Len(heap') <= capacity' /\ capacity' \in Nat \ {0}
                 /\ popped' \in HeapEntries \cup {Nothing}
BY DEF HeapInv, HeapTypeOK, HeapOrdered, HeapInOrder, HeapEntries

\* The heap starts empty.
LEMMA InitHeap == HeapInit => HeapInv /\ Queue!Init
<1> SUFFICES ASSUME HeapInit PROVE HeapInv /\ Queue!Init
  OBVIOUS
<1>1. heap = <<>> /\ Len(heap) = 0 /\ heap \in Seq(HeapEntries) /\ popped = Nothing
  BY DEF HeapInit
<1>2. capacity \in Nat \ {0}
  BY ExpHeapAssumption DEF HeapInit
<1>3. HeapInOrder(heap)
  BY <1>1 DEF HeapInOrder
<1>4. HeapInv
  BY <1>1, <1>2, <1>3, HeapInvIs
<1>5. Count(heap) = [e \in HeapEntries |-> 0]
  <2>1. ASSUME NEW e PROVE Cardinality(At(heap, e)) = 0
    <3>1. At(heap, e) = {}
      BY <1>1 DEF At
    <3> QED BY <3>1, FS_EmptySet
  <2> QED BY <2>1, Counted
<1>6. Queue!Init
  BY <1>1, <1>5 DEF Queue!Init, Queue!Entries, HeapEntries
<1> QED BY <1>4, <1>6

\* A push.
LEMMA PushStep ==
    ASSUME HeapInv, NEW key \in Keys, NEW d \in Deadlines, HeapPush(key, d)
    PROVE  HeapInv' /\ Queue!Push(key, d)
<1>1. /\ heap \in Seq(HeapEntries) /\ HeapInOrder(heap) /\ Len(heap) \in Nat
      /\ Len(heap) <= capacity /\ capacity \in Nat \ {0}
      /\ popped \in HeapEntries \cup {Nothing}
  BY HeapInvIs
<1>2. PICK h, e, r : h = heap /\ r = heap' /\ e = [key |-> key, expire |-> d]
  OBVIOUS
<1>3. h \in Seq(HeapEntries) /\ HeapInOrder(h) /\ e \in HeapEntries
  BY <1>1, <1>2 DEF HeapEntries
<1>4. r = SiftUp(Append(h, e), Len(h) + 1)
  BY <1>2 DEF HeapPush
<1>5. /\ r \in Seq(HeapEntries) /\ Len(r) = Len(h) + 1 /\ HeapInOrder(r)
      /\ Count(r) = [Count(h) EXCEPT ![e] = @ + 1]
  BY <1>3, <1>4, PushOrders
<1>6. Len(heap') <= capacity' /\ capacity' \in Nat \ {0}
  <2>1. capacity' = IF Len(heap) >= capacity THEN 2 * capacity ELSE capacity
    BY DEF HeapPush, Grown
  <2>2. Len(heap') = Len(heap) + 1
    BY <1>2, <1>5
  <2> QED BY <1>1, <2>1, <2>2
<1>7. popped' = popped
  BY DEF HeapPush
<1>8. HeapInv'
  BY <1>1, <1>2, <1>5, <1>6, <1>7, HeapInvNext
<1>9. Queue!Push(key, d)
  BY <1>2, <1>5, <1>7 DEF Queue!Push, Queue!With
<1> QED BY <1>8, <1>9

\* An entry that is in the heap is counted.
LEMMA InCount ==
    ASSUME NEW h \in Seq(HeapEntries), NEW e \in HeapEntries
    PROVE  /\ Count(h)[e] > 0 <=> \E i \in 1..Len(h) : h[i] = e
           /\ Count(h)[e] \in Nat
<1>1. Count(h)[e] = Cardinality(At(h, e))
  BY Counted
<1>2. IsFiniteSet(At(h, e)) /\ Cardinality(At(h, e)) \in Nat
  BY PlacesFinite
<1>3. Cardinality(At(h, e)) = 0 <=> At(h, e) = {}
  BY <1>2, FS_EmptySet
<1> QED BY <1>1, <1>2, <1>3 DEF At

\* A pop.
LEMMA PopStep == ASSUME HeapInv, HeapPop PROVE HeapInv' /\ Queue!Pop
<1>1. /\ heap \in Seq(HeapEntries) /\ HeapInOrder(heap) /\ Len(heap) \in Nat
      /\ Len(heap) <= capacity /\ capacity \in Nat \ {0}
      /\ popped \in HeapEntries \cup {Nothing}
  BY HeapInvIs
<1>2. PICK h, r : h = heap /\ r = heap'
  OBVIOUS
<1>3. CASE h = <<>>
  <2>1. popped' = Nothing /\ heap' = heap /\ capacity' = capacity
    BY <1>2, <1>3 DEF HeapPop
  <2>2. HeapInv'
    BY <1>1, <2>1, HeapInvNext
  <2>3. \A e \in HeapEntries : Count(h)[e] = 0
    <3> SUFFICES ASSUME NEW e \in HeapEntries PROVE Count(h)[e] = 0
      OBVIOUS
    <3>1. h \in Seq(HeapEntries) /\ Len(h) = 0
      BY <1>1, <1>2, <1>3
    <3>2. ~ \E i \in 1..Len(h) : h[i] = e
      BY <3>1
    <3>3. h \in Seq(HeapEntries)
      BY <3>1
    <3>4. ~ (Count(h)[e] > 0)
      BY <3>2, <3>3, InCount
    <3>5. Count(h)[e] \in Nat
      BY <3>3, InCount
    <3> QED BY <3>4, <3>5
  <2>4. Queue!Pop
    BY <1>2, <2>1, <2>3 DEF Queue!Pop, Queue!Entries, HeapEntries
  <2> QED BY <2>2, <2>4
<1>4. CASE h # <<>>
  <2>1. /\ popped' = h[1] /\ capacity' = capacity
        /\ r = IF Len(h) = 1 THEN <<>> ELSE SiftDown([Front(h) EXCEPT ![1] = Last(h)], 1)
    BY <1>2, <1>4 DEF HeapPop
  <2>2. IsWithout(r, h, 1)
    BY <1>1, <1>2, <1>4, <2>1, PopOrders
  <2>3. HeapInv'
    BY <1>1, <1>2, <2>1, <2>2, HeapInvNext DEF IsWithout
  <2>4. PICK e \in HeapEntries : e = h[1]
    BY <2>2 DEF IsWithout
  <2>5. 1 \in 1..Len(h) /\ h \in Seq(HeapEntries) /\ HeapInOrder(h)
    BY <1>1, <1>2, <1>4
  <2>6. Count(h)[e] > 0
    BY <2>4, <2>5, InCount
  <2>7. ASSUME NEW f \in HeapEntries, Count(h)[f] > 0 PROVE e.expire <= f.expire
    <3>1. PICK i \in 1..Len(h) : h[i] = f
      BY <2>5, <2>7, InCount
    <3> QED BY <2>4, <2>5, <3>1, RootLeast
  <2>8. Count(r) = [Count(h) EXCEPT ![e] = @ - 1]
    BY <2>2, <2>4 DEF IsWithout
  <2>9. Queue!Pop
    BY <1>2, <2>1, <2>4, <2>6, <2>7, <2>8 DEF Queue!Pop, Queue!Minus, Queue!Entries, HeapEntries
  <2> QED BY <2>3, <2>9
<1> QED BY <1>3, <1>4

\* A removal.
LEMMA RemoveStep ==
    ASSUME HeapInv, NEW key \in Keys, HeapRemove(key)
    PROVE  HeapInv' /\ (Queue!Remove(key) \/ UNCHANGED heapVars)
<1>1. /\ heap \in Seq(HeapEntries) /\ HeapInOrder(heap) /\ Len(heap) \in Nat
      /\ Len(heap) <= capacity /\ capacity \in Nat \ {0}
      /\ popped \in HeapEntries \cup {Nothing}
  BY HeapInvIs
<1>2. PICK h, r, i : h = heap /\ r = heap' /\ i = Find(h, key)
  OBVIOUS
<1>3. r = (IF i = 0 THEN h ELSE Removed(h, i)) /\ capacity' = capacity /\ popped' = popped
  BY <1>2 DEF HeapRemove, Find
<1>4. h \in Seq(HeapEntries) /\ HeapInOrder(h)
  BY <1>1, <1>2
<1>5. i = 0 \/ (i \in 1..Len(h) /\ h[i].key = key)
  BY <1>2, <1>4, Selected
<1>6. CASE i = 0
  BY <1>1, <1>2, <1>3, <1>6, HeapInvNext DEF heapVars
<1>7. CASE i # 0
  <2>1. i \in 1..Len(h) /\ h[i].key = key /\ r = Removed(h, i)
    BY <1>3, <1>5, <1>7
  <2>2. IsWithout(r, h, i)
    BY <1>4, <2>1, RemovedOrders
  <2>3. HeapInv'
    BY <1>1, <1>2, <1>3, <2>2, HeapInvNext DEF IsWithout
  <2>4. PICK e \in HeapEntries : e = h[i]
    BY <2>2 DEF IsWithout
  <2>5. Count(h)[e] > 0
    BY <1>4, <2>1, <2>4, InCount
  <2>6. PICK d \in Deadlines : e = [key |-> key, expire |-> d]
    BY <2>1, <2>4 DEF HeapEntries
  <2>7. Count(r) = [Count(h) EXCEPT ![e] = @ - 1]
    BY <2>2, <2>4 DEF IsWithout
  <2>8. Queue!Remove(key)
    BY <1>2, <1>3, <2>5, <2>6, <2>7 DEF Queue!Remove, Queue!Minus
  <2> QED BY <2>3, <2>8
<1> QED BY <1>6, <1>7

\* Every step keeps the invariant and is one of the queue.
LEMMA StepHeap == HeapInv /\ [HeapNext]_heapVars => HeapInv' /\ [Queue!Next]_heapVars
<1> SUFFICES ASSUME HeapInv, [HeapNext]_heapVars PROVE HeapInv' /\ [Queue!Next]_heapVars
  OBVIOUS
<1>1. ASSUME NEW key \in Keys, NEW d \in Deadlines, HeapPush(key, d)
      PROVE  HeapInv' /\ [Queue!Next]_heapVars
  BY <1>1, PushStep DEF Queue!Next
<1>2. CASE HeapPop
  BY <1>2, PopStep DEF Queue!Next
<1>3. ASSUME NEW key \in Keys, HeapRemove(key) PROVE HeapInv' /\ [Queue!Next]_heapVars
  BY <1>3, RemoveStep DEF Queue!Next
<1>4. CASE UNCHANGED heapVars
  <2>1. heap' = heap /\ capacity' = capacity /\ popped' = popped
    BY <1>4 DEF heapVars
  <2>2. HeapInv'
    BY <2>1, HeapInvIs, HeapInvNext
  <2> QED BY <1>4, <2>2
<1> QED BY <1>1, <1>2, <1>3, <1>4 DEF HeapNext

\* Whatever is pushed, popped and removed from the middle, no entry of the array is
\* before its parent.
THEOREM HeapOrderedAlways == HeapSpec => []HeapOrdered
<1>1. HeapInv => HeapOrdered
  BY DEF HeapInv
<1> QED BY <1>1, InitHeap, StepHeap, PTL DEF HeapSpec

\* The array has room for every entry that is written to it.
THEOREM HeapTypeCorrect == HeapSpec => []HeapTypeOK
<1>1. HeapInv => HeapTypeOK
  BY DEF HeapInv
<1> QED BY <1>1, InitHeap, StepHeap, PTL DEF HeapSpec

\* The array heap is a queue by deadline: a pop returns a nearest deadline, and every
\* other entry is still there after a push, a pop or a removal, as often as before.
THEOREM HeapIsQueue == HeapSpec => ImplementsQueue
BY InitHeap, StepHeap, PTL DEF HeapSpec, ImplementsQueue

(***************************************************************************)
(* The memory pool                                                          *)
(***************************************************************************)
\* s is the free list: it starts at h, is linked through nx, and has every block of
\* n chunks that is not in H, once.
FreeList(s, h, nx, n, H) ==
    /\ n \in Nat /\ H \subseteq Blocks(n)
    /\ nx \in [Blocks(n) -> 0..(n * ChunkSize)]
    /\ s \in Seq(Blocks(n)) /\ Len(s) \in Nat
    /\ \A i \in 1..Len(s) : s[i] \in Blocks(n) /\ s[i] \notin H
    /\ h = IF Len(s) = 0 THEN 0 ELSE s[1]
    /\ \A i \in 1..Len(s) : nx[s[i]] = IF i = Len(s) THEN 0 ELSE s[i + 1]
    /\ \A i, j \in 1..Len(s) : s[i] = s[j] => i = j
    /\ \A b \in Blocks(n) \ H : \E i \in 1..Len(s) : s[i] = b

\* The pool's, and the count of the blocks handed out.
PoolInv ==
    /\ \E s : FreeList(s, head, next, chunks, held)
    /\ inUse = Cardinality(held)

\* The blocks of a number of chunks are so many, and not NULL.
LEMMA BlocksAre ==
    ASSUME NEW n \in Nat
    PROVE  /\ n * ChunkSize \in Nat /\ (n + 1) * ChunkSize = n * ChunkSize + ChunkSize
           /\ Blocks(n) = 1..(n * ChunkSize) /\ 0 \notin Blocks(n)
           /\ IsFiniteSet(Blocks(n)) /\ Blocks(0) = {}
<1>1. n * ChunkSize \in Nat /\ (n + 1) * ChunkSize = n * ChunkSize + ChunkSize
  BY MemPoolAssumption
<1>2. 0 * ChunkSize = 0
  BY MemPoolAssumption
<1>3. Blocks(n) = 1..(n * ChunkSize) /\ Blocks(0) = {} /\ 0 \notin Blocks(n)
  BY <1>1, <1>2 DEF Blocks
<1>4. IsFiniteSet(1..(n * ChunkSize))
  BY <1>1, FS_Interval
<1> QED BY <1>1, <1>3, <1>4

\* A pool that has run out has a new chunk as its list, from the last block down.
LEMMA GrowList ==
    ASSUME NEW s, NEW nx, NEW n, NEW H, FreeList(s, 0, nx, n, H),
           NEW first, first = n * ChunkSize + 1,
           NEW nx1, nx1 = [b \in Blocks(n + 1) |->
                             IF b < first THEN nx[b] ELSE IF b = first THEN 0 ELSE b - 1]
    PROVE  FreeList([i \in 1..ChunkSize |-> first + ChunkSize - i],
                    first + ChunkSize - 1, nx1, n + 1, H)
<1> DEFINE r == [i \in 1..ChunkSize |-> first + ChunkSize - i]
           top == n * ChunkSize
<1>1. n \in Nat /\ H \subseteq Blocks(n) /\ nx \in [Blocks(n) -> 0..top] /\ Len(s) = 0
  <2>1. Len(s) # 0 => s[1] \in Blocks(n) /\ s[1] = 0
    BY DEF FreeList
  <2>2. n \in Nat /\ 0 \notin Blocks(n)
    BY BlocksAre DEF FreeList
  <2> QED BY <2>1, <2>2 DEF FreeList
<1>2. /\ top \in Nat /\ (n + 1) * ChunkSize = top + ChunkSize
      /\ Blocks(n) = 1..top /\ Blocks(n + 1) = 1..(top + ChunkSize)
      /\ first = top + 1 /\ ChunkSize \in Nat \ {0}
  <2>1. (n + 1) \in Nat
    BY <1>1
  <2> QED BY <1>1, <2>1, BlocksAre, MemPoolAssumption
<1> HIDE DEF top
<1>3. Blocks(n) \ H = {}
  BY <1>1 DEF FreeList
<1>4. H = 1..top
  BY <1>1, <1>2, <1>3
<1>5. nx1 \in [Blocks(n + 1) -> 0..((n + 1) * ChunkSize)]
  <2> SUFFICES ASSUME NEW b \in 1..(top + ChunkSize)
               PROVE  (IF b < first THEN nx[b] ELSE IF b = first THEN 0 ELSE b - 1)
                         \in 0..(top + ChunkSize)
    BY <1>2
  <2>1. b < first => nx[b] \in 0..top
    BY <1>1, <1>2
  <2> QED BY <1>2, <2>1
<1>6. /\ r \in Seq(Blocks(n + 1)) /\ Len(r) = ChunkSize
      /\ \A i \in 1..ChunkSize : r[i] = first + ChunkSize - i
  BY <1>2
<1>7. \A i \in 1..ChunkSize : r[i] \in Blocks(n + 1) /\ r[i] \notin H
  BY <1>2, <1>4, <1>6
<1>8. ASSUME NEW i \in 1..ChunkSize PROVE nx1[r[i]] = IF i = ChunkSize THEN 0 ELSE r[i + 1]
  <2>1. PICK b \in Blocks(n + 1) : b = r[i] /\ b = first + ChunkSize - i
    BY <1>6, <1>7
  <2>2. nx1[b] = IF b < first THEN nx[b] ELSE IF b = first THEN 0 ELSE b - 1
    OBVIOUS
  <2>3. CASE i = ChunkSize
    BY <1>2, <2>1, <2>2, <2>3
  <2>4. CASE i # ChunkSize
    <3>1. i + 1 \in 1..ChunkSize /\ b > first /\ b \in Int
      BY <1>2, <2>1, <2>4
    <3>2. nx1[b] = b - 1 /\ r[i + 1] = first + ChunkSize - (i + 1)
      BY <1>2, <1>6, <2>2, <3>1
    <3> QED BY SMTT(30), <1>2, <2>1, <2>4, <3>2
  <2> QED BY <2>3, <2>4
<1>9. ASSUME NEW b \in Blocks(n + 1) \ H PROVE \E i \in 1..ChunkSize : r[i] = b
  <2>1. first + ChunkSize - b \in 1..ChunkSize
    BY <1>2, <1>4
  <2> QED BY <1>2, <1>6, <2>1
<1>10. n + 1 \in Nat /\ H \subseteq Blocks(n + 1)
  BY <1>1, <1>2, <1>4
<1> HIDE DEF r
<1>11. first + ChunkSize - 1 = r[1] /\ ChunkSize # 0
  BY <1>2, <1>6
<1>12. \A i, j \in 1..ChunkSize : r[i] = r[j] => i = j
  BY <1>2, <1>6
<1>13. FreeList(r, first + ChunkSize - 1, nx1, n + 1, H)
  BY <1>2, <1>5, <1>6, <1>7, <1>8, <1>9, <1>10, <1>11, <1>12 DEF FreeList
<1> QED BY <1>13 DEF r

\* The first block is taken.
LEMMA TakeFirst ==
    ASSUME NEW s, NEW h, NEW nx, NEW n, NEW H, FreeList(s, h, nx, n, H), h # 0
    PROVE  h \in Blocks(n) \ H /\ FreeList(Tail(s), nx[h], nx, n, H \cup {h})
<1> DEFINE r == Tail(s)
<1>1. /\ s \in Seq(Blocks(n)) /\ Len(s) \in Nat /\ Len(s) # 0 /\ h = s[1]
      /\ n \in Nat /\ H \subseteq Blocks(n)
  BY DEF FreeList
<1>2. /\ r \in Seq(Blocks(n)) /\ Len(r) = Len(s) - 1
      /\ \A i \in 1..Len(r) : r[i] = s[i + 1] /\ i + 1 \in 1..Len(s)
  BY <1>1
<1> HIDE DEF r
<1>3. 1 \in 1..Len(s) /\ s[1] \in Blocks(n) /\ s[1] \notin H
  BY <1>1 DEF FreeList
<1>4. nx[h] = IF Len(r) = 0 THEN 0 ELSE r[1]
  <2>1. nx[s[1]] = IF 1 = Len(s) THEN 0 ELSE s[1 + 1]
    BY <1>3 DEF FreeList
  <2> QED BY <1>1, <1>2, <2>1
<1>5. ASSUME NEW i \in 1..Len(r)
      PROVE  /\ r[i] \in Blocks(n) /\ r[i] \notin H \cup {h}
             /\ nx[r[i]] = IF i = Len(r) THEN 0 ELSE r[i + 1]
             /\ \A j \in 1..Len(r) : r[i] = r[j] => i = j
  <2>1. s[i + 1] \in Blocks(n) /\ s[i + 1] \notin H /\ (s[i + 1] = s[1] => i + 1 = 1)
    BY <1>2, <1>3 DEF FreeList
  <2>2. nx[s[i + 1]] = IF i + 1 = Len(s) THEN 0 ELSE s[(i + 1) + 1]
    BY <1>2 DEF FreeList
  <2>3. \A j \in 1..Len(r) : s[i + 1] = s[j + 1] => i + 1 = j + 1
    BY <1>2 DEF FreeList
  <2> QED BY <1>1, <1>2, <2>1, <2>2, <2>3
<1>6. ASSUME NEW b \in Blocks(n) \ (H \cup {h}) PROVE \E i \in 1..Len(r) : r[i] = b
  <2>1. PICK i \in 1..Len(s) : s[i] = b
    BY DEF FreeList
  <2>2. i # 1
    BY <1>1, <2>1
  <2>3. i - 1 \in 1..Len(r) /\ r[i - 1] = s[i]
    BY <1>1, <1>2, <2>2
  <2> QED BY <2>1, <2>3
<1>7. H \cup {h} \subseteq Blocks(n) /\ Len(r) \in Nat
  BY <1>1, <1>2, <1>3
<1>8. FreeList(r, nx[h], nx, n, H \cup {h})
  <2>1. nx \in [Blocks(n) -> 0..(n * ChunkSize)]
    BY DEF FreeList
  <2> QED BY <1>1, <1>2, <1>4, <1>5, <1>6, <1>7, <2>1 DEF FreeList
<1> QED BY <1>1, <1>3, <1>8 DEF r

\* A block that is handed out may hold anything.
LEMMA OverwriteList ==
    ASSUME NEW s, NEW h, NEW nx, NEW n, NEW H, FreeList(s, h, nx, n, H),
           NEW b \in H, NEW v \in 0..(n * ChunkSize), NEW nx1, nx1 = [nx EXCEPT ![b] = v]
    PROVE  FreeList(s, h, nx1, n, H)
<1>1. nx \in [Blocks(n) -> 0..(n * ChunkSize)] /\ b \in Blocks(n)
  BY DEF FreeList
<1>2. nx1 \in [Blocks(n) -> 0..(n * ChunkSize)] /\ \A c \in Blocks(n) : c # b => nx1[c] = nx[c]
  BY <1>1
<1>3. \A i \in 1..Len(s) : nx1[s[i]] = nx[s[i]]
  BY <1>2 DEF FreeList
<1> QED BY <1>2, <1>3 DEF FreeList

\* A block that is freed is the first.
LEMMA FreeFirst ==
    ASSUME NEW s, NEW h, NEW nx, NEW n, NEW H, FreeList(s, h, nx, n, H),
           NEW b \in H, NEW nx1, nx1 = [nx EXCEPT ![b] = h]
    PROVE  FreeList(<<b>> \o s, b, nx1, n, H \ {b})
<1> DEFINE r == <<b>> \o s
<1>1. /\ nx \in [Blocks(n) -> 0..(n * ChunkSize)] /\ b \in Blocks(n)
      /\ s \in Seq(Blocks(n)) /\ Len(s) \in Nat /\ n \in Nat /\ H \subseteq Blocks(n)
      /\ h = IF Len(s) = 0 THEN 0 ELSE s[1]
  BY DEF FreeList
<1>2. /\ r \in Seq(Blocks(n)) /\ Len(r) = Len(s) + 1 /\ r[1] = b
      /\ \A i \in 1..Len(s) : r[i + 1] = s[i]
  BY <1>1
<1> HIDE DEF r
<1>3. \A i \in 1..Len(s) : s[i] \in Blocks(n) /\ s[i] # b /\ s[i] \notin H
  BY DEF FreeList
<1>4. h \in 0..(n * ChunkSize)
  <2>1. Blocks(n) = 1..(n * ChunkSize) /\ n * ChunkSize \in Nat
    BY <1>1, BlocksAre
  <2>2. Len(s) # 0 => s[1] \in Blocks(n)
    BY <1>1, <1>3
  <2> QED BY <1>1, <2>1, <2>2
<1>5. /\ nx1 \in [Blocks(n) -> 0..(n * ChunkSize)] /\ nx1[b] = h
      /\ \A c \in Blocks(n) : c # b => nx1[c] = nx[c]
  BY <1>1, <1>4
<1>6. ASSUME NEW j \in 1..Len(r), j # 1 PROVE j - 1 \in 1..Len(s) /\ r[j] = s[j - 1]
  <2>1. Len(s) \in Nat /\ Len(r) = Len(s) + 1
    BY <1>1, <1>2
  <2>2. j - 1 \in 1..Len(s) /\ (j - 1) + 1 = j
    BY <2>1, <1>6
  <2> QED BY <1>2, <2>2
<1>7. ASSUME NEW i \in 1..Len(r)
      PROVE  /\ r[i] \in Blocks(n) /\ r[i] \notin H \ {b}
             /\ nx1[r[i]] = IF i = Len(r) THEN 0 ELSE r[i + 1]
             /\ \A j \in 1..Len(r) : r[i] = r[j] => i = j
  <2>1. CASE i = 1
    <3>1. \A j \in 1..Len(r) : j # 1 => j - 1 \in 1..Len(s) /\ r[j] = s[j - 1]
      BY <1>6
    <3>2. nx1[r[i]] = IF i = Len(r) THEN 0 ELSE r[i + 1]
      BY <1>1, <1>2, <1>5, <2>1
    <3> QED BY <1>1, <1>2, <1>3, <2>1, <3>1, <3>2
  <2>2. CASE i # 1
    <3>1. PICK k \in 1..Len(s) : k = i - 1 /\ r[i] = s[k]
      BY <1>6, <2>2
    <3>2. nx1[s[k]] = nx[s[k]]
      BY <1>3, <1>5
    <3>3. nx[s[k]] = IF k = Len(s) THEN 0 ELSE s[k + 1]
      BY DEF FreeList
    <3>4. k # Len(s) => s[k + 1] = r[i + 1]
      <4>1. i = k + 1
        BY <1>1, <3>1
      <4>2. k # Len(s) => k + 1 \in 1..Len(s)
        BY <1>1
      <4> QED BY <1>2, <4>1, <4>2
    <3>5. ASSUME NEW j \in 1..Len(r), r[i] = r[j] PROVE i = j
      <4>1. CASE j = 1
        BY <1>2, <1>3, <3>1, <3>5, <4>1
      <4>2. CASE j # 1
        <5>1. PICK m \in 1..Len(s) : m = j - 1 /\ r[j] = s[m]
          BY <1>6, <4>2
        <5>2. k = m
          BY <3>1, <3>5, <5>1 DEF FreeList
        <5> QED BY <3>1, <5>1, <5>2
      <4> QED BY <4>1, <4>2
    <3> QED BY SMTT(30), <1>1, <1>2, <1>3, <3>1, <3>2, <3>3, <3>4, <3>5
  <2> QED BY <2>1, <2>2
<1>8. ASSUME NEW c \in Blocks(n) \ (H \ {b}) PROVE \E i \in 1..Len(r) : r[i] = c
  <2>1. CASE c = b
    BY <1>1, <1>2, <2>1
  <2>2. CASE c # b
    <3>1. PICK k \in 1..Len(s) : s[k] = c
      BY <2>2 DEF FreeList
    <3>2. k + 1 \in 1..Len(r) /\ r[k + 1] = c
      BY SMTT(30), <1>1, <1>2, <3>1
    <3> QED BY <3>2
  <2> QED BY <2>1, <2>2
<1>9. Len(r) \in Nat /\ Len(r) # 0 /\ H \ {b} \subseteq Blocks(n)
  BY <1>1, <1>2
<1>10. FreeList(r, b, nx1, n, H \ {b})
  BY <1>1, <1>2, <1>5, <1>7, <1>8, <1>9 DEF FreeList
<1> QED BY <1>10 DEF r

\* The pool starts with such a list.
LEMMA InitPool == PoolInit => PoolInv
<1> SUFFICES ASSUME PoolInit PROVE PoolInv
  OBVIOUS
<1>1. inUse = Cardinality(held) /\ held = {}
  BY FS_EmptySet DEF PoolInit
<1>2. FreeList(<<>>, 0, <<>>, 0, {})
  <2>1. Blocks(0) = {} /\ 0 * ChunkSize \in Nat
    BY BlocksAre
  <2>2. Len(<<>>) = 0 /\ <<>> \in Seq(Blocks(0)) /\ <<>> \in [{} -> 0..(0 * ChunkSize)]
    OBVIOUS
  <2> QED BY <2>1, <2>2 DEF FreeList
<1>3. CASE head = 0 /\ next = <<>> /\ chunks = 0
  BY <1>1, <1>2, <1>3 DEF PoolInv
<1>4. CASE head = ChunkSize /\ next = [b \in Blocks(1) |-> b - 1] /\ chunks = 1
  <2>1. PICK first, nx1 : /\ first = 0 * ChunkSize + 1
                          /\ nx1 = [b \in Blocks(0 + 1) |->
                               IF b < first THEN <<>>[b] ELSE IF b = first THEN 0 ELSE b - 1]
    OBVIOUS
  <2>2. FreeList([i \in 1..ChunkSize |-> first + ChunkSize - i],
                 first + ChunkSize - 1, nx1, 0 + 1, {})
    BY <1>2, <2>1, GrowList
  <2>3. first = 1 /\ 0 + 1 = 1 /\ first + ChunkSize - 1 = ChunkSize
    BY <2>1, MemPoolAssumption
  <2>4. nx1 = [b \in Blocks(1) |-> b - 1]
    <3>1. Blocks(1) \subseteq Nat \ {0}
      BY DEF Blocks
    <3>2. nx1 = [b \in Blocks(1) |-> IF b < 1 THEN <<>>[b] ELSE IF b = 1 THEN 0 ELSE b - 1]
      BY <2>1, <2>3
    <3>3. \A b \in Blocks(1) :
             (IF b < 1 THEN <<>>[b] ELSE IF b = 1 THEN 0 ELSE b - 1) = b - 1
      BY <3>1
    <3> QED BY <3>2, <3>3
  <2>5. \E s : FreeList(s, ChunkSize, nx1, 1, {})
    BY <2>2, <2>3
  <2> QED BY <1>1, <1>4, <2>4, <2>5 DEF PoolInv
<1> QED BY <1>3, <1>4 DEF PoolInit

\* Every operation keeps it, and so does its user.
LEMMA StepPool == PoolInv /\ [PoolNext]_poolVars => PoolInv'
<1> SUFFICES ASSUME PoolInv, [PoolNext]_poolVars PROVE PoolInv'
  OBVIOUS
<1>1. PICK s, h, nx, n, H : /\ FreeList(s, h, nx, n, H)
                            /\ h = head /\ nx = next /\ n = chunks /\ H = held
  BY DEF PoolInv
<1>2. IsFiniteSet(H) /\ inUse = Cardinality(H) /\ Cardinality(H) \in Nat /\ n \in Nat
  <2>1. n \in Nat /\ H \subseteq Blocks(n)
    BY <1>1 DEF FreeList
  <2>2. IsFiniteSet(H)
    BY <2>1, BlocksAre, FS_Subset
  <2> QED BY <1>1, <2>1, <2>2, FS_CardinalityType DEF PoolInv
<1>3. ASSUME Alloc PROVE PoolInv'
  <2>1. PICK p : /\ p \in Stocked /\ p.head # 0
                 /\ chunks' = p.chunks /\ next' = p.next /\ head' = p.next[p.head]
                 /\ inUse' = inUse + 1 /\ held' = held \cup {p.head}
    BY <1>3 DEF Alloc
  <2>2. PICK h1, nx1, n1 : h1 = p.head /\ nx1 = p.next /\ n1 = p.chunks
    OBVIOUS
  <2>3. \E r : FreeList(r, h1, nx1, n1, H)
    <3>1. CASE p = Pool
      BY <1>1, <2>2, <3>1 DEF Pool
    <3>2. CASE p # Pool
      <4>1. p = Grow /\ h = 0
        BY <1>1, <2>1, <3>2 DEF Stocked
      <4>2. PICK first : first = n * ChunkSize + 1
        OBVIOUS
      <4>3. /\ h1 = first + ChunkSize - 1 /\ n1 = n + 1
            /\ nx1 = [b \in Blocks(n + 1) |->
                        IF b < first THEN nx[b] ELSE IF b = first THEN 0 ELSE b - 1]
        BY <1>1, <2>2, <4>1, <4>2 DEF Grow
      <4> QED BY ZenonT(30), <1>1, <4>1, <4>2, <4>3, GrowList
    <3> QED BY <3>1, <3>2
  <2>4. PICK r : FreeList(r, h1, nx1, n1, H)
    BY <2>3
  <2>5. h1 \in Blocks(n1) \ H /\ FreeList(Tail(r), nx1[h1], nx1, n1, H \cup {h1})
    BY <2>1, <2>2, <2>4, TakeFirst
  <2>6. Cardinality(H \cup {h1}) = Cardinality(H) + 1
    BY <1>2, <2>5, FS_AddElement
  <2> QED BY <1>1, <1>2, <2>1, <2>2, <2>5, <2>6 DEF PoolInv
<1>4. ASSUME NEW b \in held, Overwrite(b) PROVE PoolInv'
  <2>1. PICK v, nx1 :
           /\ v \in 0..(n * ChunkSize) /\ nx1 = [nx EXCEPT ![b] = v] /\ next' = nx1
           /\ UNCHANGED <<head, chunks, inUse, held>>
    BY <1>1, <1>4 DEF Overwrite
  <2>2. FreeList(s, h, nx1, n, H)
    BY <1>1, <2>1, OverwriteList
  <2> QED BY <1>1, <1>2, <2>1, <2>2 DEF PoolInv
<1>5. ASSUME NEW b \in held, Free(b) PROVE PoolInv'
  <2>1. PICK nx1 : nx1 = [nx EXCEPT ![b] = h] /\ next' = nx1
                   /\ head' = b /\ held' = H \ {b} /\ inUse' = inUse - 1 /\ chunks' = chunks
    BY <1>1, <1>5 DEF Free
  <2>2. FreeList(<<b>> \o s, b, nx1, n, H \ {b})
    BY <1>1, <2>1, FreeFirst
  <2>3. Cardinality(H \ {b}) = Cardinality(H) - 1
    BY <1>1, <1>2, FS_RemoveElement
  <2> QED BY <1>1, <1>2, <2>1, <2>2, <2>3 DEF PoolInv
<1>6. ASSUME Destroy PROVE PoolInv'
  <2>1. /\ head' = 0 /\ next' = <<>> /\ chunks' = 0 /\ inUse' = 0 /\ held' = {}
    BY <1>6 DEF Destroy
  <2>2. Blocks(0) = {} /\ 0 * ChunkSize \in Nat
    BY BlocksAre
  <2>3. Len(<<>>) = 0 /\ <<>> \in Seq(Blocks(0)) /\ <<>> \in [{} -> 0..(0 * ChunkSize)]
    OBVIOUS
  <2>4. FreeList(<<>>, 0, <<>>, 0, {})
    BY <2>2, <2>3 DEF FreeList
  <2> QED BY <2>1, <2>4, FS_EmptySet DEF PoolInv
<1>7. CASE UNCHANGED poolVars
  BY <1>7 DEF PoolInv, poolVars
<1> QED BY <1>3, <1>4, <1>5, <1>6, <1>7 DEF PoolNext

\* The blocks that following m links from h leads to.
FollowedBy(at, h, nx, m) ==
    at = CHOOSE f : f = [i \in 0..m |->
           IF i = 0 THEN h ELSE IF f[i - 1] = 0 THEN 0 ELSE nx[f[i - 1]]]

\* What PoolSound finds by following the links is that list.
LEMMA Followed ==
    ASSUME NEW s, NEW h, NEW nx, NEW n, NEW H, FreeList(s, h, nx, n, H),
           NEW m, m = Cardinality(Blocks(n) \ H),
           NEW at, FollowedBy(at, h, nx, m)
    PROVE  /\ {at[i] : i \in 0..(m - 1)} = Blocks(n) \ H /\ at[m] = 0
<1> DEFINE free == Blocks(n) \ H
           w == [i \in 0..m |-> IF i < m THEN s[i + 1] ELSE 0]
           Links(f) == f = [i \in 0..m |->
                          IF i = 0 THEN h ELSE IF f[i - 1] = 0 THEN 0 ELSE nx[f[i - 1]]]
<1>1. /\ n \in Nat /\ Len(s) \in Nat /\ 0 \notin Blocks(n) /\ s \in Seq(Blocks(n))
      /\ \A i \in 1..Len(s) : s[i] \in free /\ s[i] # 0
      /\ \A b \in free : \E i \in 1..Len(s) : s[i] = b
      /\ h = IF Len(s) = 0 THEN 0 ELSE s[1]
      /\ \A i \in 1..Len(s) : nx[s[i]] = IF i = Len(s) THEN 0 ELSE s[i + 1]
  <2>1. n \in Nat /\ 0 \notin Blocks(n)
    BY BlocksAre DEF FreeList
  <2> QED BY <2>1 DEF FreeList
<1>2. m = Len(s)
  <2>1. s \in [1..Len(s) -> free] /\ \A i, j \in 1..Len(s) : s[i] = s[j] => i = j
    <3>1. s \in [1..Len(s) -> Blocks(n)]
      BY <1>1
    <3> QED BY <1>1, <3>1 DEF FreeList
  <2>2. s \in Injection(1..Len(s), free)
    BY <2>1 DEF Injection, IsInjective
  <2>3. s \in Surjection(1..Len(s), free)
    BY <1>1, <2>1 DEF Surjection
  <2>4. s \in Bijection(1..Len(s), free)
    BY <2>2, <2>3 DEF Bijection
  <2>5. ExistsBijection(1..Len(s), free)
    <3> HIDE DEF free
    <3> QED BY <2>4 DEF ExistsBijection
  <2> HIDE DEF free
  <2>6. Cardinality(free) = Len(s)
    BY <1>1, <2>5, FS_CountingElements
  <2> QED BY <2>6 DEF free
<1>3. Links(w)
  <2> SUFFICES ASSUME NEW i \in 0..m
               PROVE  w[i] = IF i = 0 THEN h ELSE IF w[i - 1] = 0 THEN 0 ELSE nx[w[i - 1]]
    OBVIOUS
  <2>1. CASE i = 0
    BY <1>1, <1>2, <2>1
  <2>2. CASE i # 0
    <3>1. i \in 1..Len(s) /\ i - 1 \in 0..m /\ i - 1 < m /\ (i - 1) + 1 = i
      BY <1>1, <1>2, <2>2
    <3>2. w[i - 1] = s[i] /\ s[i] # 0
      BY <1>1, <3>1
    <3>3. nx[s[i]] = IF i = Len(s) THEN 0 ELSE s[i + 1]
      BY <1>1, <3>1
    <3>4. w[i] = IF i < m THEN s[i + 1] ELSE 0
      OBVIOUS
    <3>5. i < m <=> i # Len(s)
      BY <1>1, <1>2, <3>1
    <3> HIDE DEF w
    <3> QED BY <2>2, <3>2, <3>3, <3>4, <3>5
  <2> QED BY <2>1, <2>2
<1>4. Links(at)
  <2> HIDE DEF w
  <2> QED BY <1>3 DEF FollowedBy
<1>5. \A i \in 0..m :
         /\ at[i] = IF i = 0 THEN h ELSE IF at[i - 1] = 0 THEN 0 ELSE nx[at[i - 1]]
         /\ w[i] = IF i = 0 THEN h ELSE IF w[i - 1] = 0 THEN 0 ELSE nx[w[i - 1]]
  <2> HIDE DEF w
  <2>1. PICK g : g = [i \in 0..m |-> IF i = 0 THEN h ELSE IF at[i - 1] = 0 THEN 0 ELSE nx[at[i - 1]]]
    OBVIOUS
  <2>2. at = g
    BY <1>4, <2>1
  <2>3. \A i \in 0..m : g[i] = IF i = 0 THEN h ELSE IF at[i - 1] = 0 THEN 0 ELSE nx[at[i - 1]]
    BY <2>1
  <2>4. \A i \in 0..m : w[i] = IF i = 0 THEN h ELSE IF w[i - 1] = 0 THEN 0 ELSE nx[w[i - 1]]
    BY <1>3
  <2> QED BY <2>2, <2>3, <2>4
<1>6. m \in Nat /\ \A i \in 0..m : w[i] = IF i < m THEN s[i + 1] ELSE 0
  BY <1>1, <1>2
<1> HIDE DEF w, Links
<1>7. PICK a : a = at
  OBVIOUS
<1>8. \A i \in 0..m : a[i] = w[i]
  <2> DEFINE S == {i \in Nat : i <= m => a[i] = w[i]}
  <2>1. 0 \in S
    BY <1>5, <1>6, <1>7
  <2>2. ASSUME NEW i \in Nat, i \in S PROVE i + 1 \in S
    <3> SUFFICES ASSUME i + 1 <= m PROVE a[i + 1] = w[i + 1]
      OBVIOUS
    <3>1. i + 1 \in 0..m /\ i + 1 # 0 /\ (i + 1) - 1 = i /\ i <= m
      BY <1>6
    <3>2. a[i] = w[i]
      BY <2>2, <3>1
    <3>3. a[i + 1] = IF a[(i + 1) - 1] = 0 THEN 0 ELSE nx[a[(i + 1) - 1]]
      BY <1>5, <1>7, <3>1
    <3>4. w[i + 1] = IF w[(i + 1) - 1] = 0 THEN 0 ELSE nx[w[(i + 1) - 1]]
      BY <1>5, <3>1
    <3> QED BY <3>1, <3>2, <3>3, <3>4
  <2>3. Nat \subseteq S
    <3> HIDE DEF S
    <3> QED BY <2>1, <2>2, SetInduction
  <2> QED BY <1>6, <2>3
<1>9. \A i \in 0..m : a[i] = IF i < m THEN s[i + 1] ELSE 0
  BY <1>6, <1>8
<1>10. a[m] = 0 /\ \A i \in 0..(m - 1) : a[i] = s[i + 1] /\ i + 1 \in 1..Len(s)
  <2>1. m \in 0..m /\ ~ (m < m)
    BY <1>6
  <2>2. ASSUME NEW i \in 0..(m - 1) PROVE a[i] = s[i + 1] /\ i + 1 \in 1..Len(s)
    <3>1. i \in 0..m /\ i < m /\ i + 1 \in 1..m
      BY <1>6
    <3> QED BY <1>2, <1>9, <3>1
  <2> QED BY <1>9, <2>1, <2>2
<1>11. ASSUME NEW b \in free PROVE \E i \in 0..(m - 1) : a[i] = b
  <2>1. PICK i \in 1..Len(s) : s[i] = b
    BY <1>1
  <2>2. i - 1 \in 0..(m - 1) /\ (i - 1) + 1 = i
    BY <1>1, <1>2
  <2> QED BY <1>10, <2>1, <2>2
<1>12. ASSUME NEW i \in 0..(m - 1) PROVE a[i] \in free
  <2>1. PICK j : j = i + 1
    OBVIOUS
  <2>2. j \in 1..Len(s) /\ a[i] = s[j]
    BY <1>10, <2>1
  <2>3. s[j] \in free
    BY <1>1, <2>2
  <2> HIDE DEF free
  <2> QED BY <2>2, <2>3
<1>13. {a[i] : i \in 0..(m - 1)} = free
  <2> HIDE DEF free
  <2> QED BY <1>11, <1>12
<1>14. {at[i] : i \in 0..(m - 1)} = free /\ at[m] = 0
  <2>1. at[m] = 0
    BY <1>7, <1>10
  <2>2. \A i \in 0..(m - 1) : at[i] = a[i]
    BY <1>7
  <2>3. {at[i] : i \in 0..(m - 1)} = {a[i] : i \in 0..(m - 1)}
    BY <2>2
  <2> HIDE DEF free
  <2> QED BY <1>13, <2>1, <2>3
<1> QED BY <1>14

\* Whatever the owners of blocks write into them, the free list ends, and every
\* block is on it once or handed out, never both: for every size of a chunk and
\* any number of chunks.
THEOREM PoolSoundAlways == PoolSpec => []PoolSound
<1>1. PoolInv => PoolSound
  <2> SUFFICES ASSUME PoolInv PROVE PoolSound
    OBVIOUS
  <2>1. PICK s, h, nx, n, H : /\ FreeList(s, h, nx, n, H)
                              /\ h = head /\ nx = next /\ n = chunks /\ H = held
    BY DEF PoolInv
  <2>2. PICK m, at : m = Cardinality(Blocks(n) \ H) /\ at = Nth
    OBVIOUS
  <2>3. {at[i] : i \in 0..(m - 1)} = Blocks(n) \ H /\ at[m] = 0
    <3>1. FollowedBy(at, h, nx, m)
      BY <2>1, <2>2 DEF FollowedBy, Nth, Available
    <3> QED BY <2>1, <2>2, <3>1, Followed
  <2>4. H \subseteq Blocks(n) /\ DOMAIN nx = Blocks(n)
    BY <2>1 DEF FreeList
  <2> QED BY <2>1, <2>2, <2>3, <2>4 DEF PoolInv, PoolSound, Available
<1> QED BY <1>1, InitPool, StepPool, PTL DEF PoolSpec

\* The pool's state has its type.
LEMMA PoolTypeCorrect == PoolSpec => []PoolTypeOK
<1>1. PoolInv => PoolTypeOK
  <2> SUFFICES ASSUME PoolInv PROVE PoolTypeOK
    OBVIOUS
  <2>1. PICK s : FreeList(s, head, next, chunks, held)
    BY DEF PoolInv
  <2>2. /\ chunks \in Nat /\ held \subseteq Blocks(chunks)
        /\ next \in [Blocks(chunks) -> 0..(chunks * ChunkSize)]
    BY <2>1 DEF FreeList
  <2>3. PICK m \in Nat : m = chunks * ChunkSize
    BY <2>2, BlocksAre
  <2>4. Blocks(chunks) = 1..m
    BY <2>3 DEF Blocks
  <2>5. inUse \in 0..m
    <3>1. Cardinality(1..m) = m /\ IsFiniteSet(1..m)
      <4>1. 1 \in Int /\ m \in Int
        BY <2>3
      <4>2. Cardinality(1..m) = (IF 1 > m THEN 0 ELSE m - 1 + 1) /\ IsFiniteSet(1..m)
        BY <4>1, FS_Interval
      <4> QED BY <2>3, <4>2
    <3>2. Cardinality(held) <= m /\ Cardinality(held) \in Nat
      BY <2>2, <2>4, <3>1, FS_Subset, FS_CardinalityType
    <3> QED BY <2>3, <3>2 DEF PoolInv
  <2>6. head \in 0..m
    <3>1. head = 0 \/ head \in Blocks(chunks)
      BY <2>1 DEF FreeList
    <3> QED BY <2>3, <2>4, <3>1
  <2> QED BY <2>2, <2>3, <2>5, <2>6 DEF PoolTypeOK
<1> QED BY <1>1, InitPool, StepPool, PTL DEF PoolSpec

(***************************************************************************)
(* The writer of the log                                                    *)
(***************************************************************************)
\* Where the bytes can be, and all of them in the order of the file.
Places == [buffer : Seq(Nat), stdio : Seq(Nat), file : Seq(Nat), synced : Nat, last : Nat]
AllBytes(s) == s.file \o s.stdio \o s.buffer

BufTypeInv ==
    /\ Bytes \in Places
    /\ stamps \in Seq(Nat) /\ size \in {0, BufSize} /\ time \in Nat /\ checked \in Nat
    /\ policy \in Policies

\* Bytes that are not on the disk were written in the second of the last fsync or
\* later, and that second is not before the one of serverCron's last call.
Recent ==
    /\ checked <= lastFsync /\ lastFsync <= time
    /\ \A i \in 1..Len(stamps) : stamps[i] <= time
    /\ \A i \in 1..Len(stamps) : synced < i => lastFsync <= stamps[i]

BufInv == BufTypeInv /\ Ordered /\ Recent

\* Data that waits in the writer's buffer, and data that goes around it.
IntoBuffer(s, d) == [s EXCEPT !.buffer = @ \o d]
IntoFile(s, d) == [s EXCEPT !.stdio = @ \o d]
\* n bytes after the n0 there are.
Following(n0, n) == [i \in 1..n |-> n0 + i]
Upto(n) == [i \in 1..n |-> i]
Stamped(q, n, now) == q \o [i \in 1..n |-> now]

\* An fsync or not: nothing changed about the disk, or n bytes and more are on it.
Synced(s, t, n) ==
    \/ t.synced = s.synced /\ t.last = s.last
    \/ t.synced >= n /\ t.last = time
-----------------------------------------------------------------------------
\* Sequences of numbers, as the provers need to be told.
LEMMA Concat ==
    ASSUME NEW a \in Seq(Nat), NEW b \in Seq(Nat)
    PROVE  /\ <<>> \in Seq(Nat) /\ a \o b \in Seq(Nat)
           /\ a \o <<>> = a /\ a \o b \o <<>> = a \o b
           /\ Len(a) \in Nat /\ Len(b) \in Nat /\ Len(a \o b) = Len(a) + Len(b)
OBVIOUS

\* Nothing is added by an empty sequence.
LEMMA Empty ==
    ASSUME NEW a \in Seq(Nat)
    PROVE  a \o <<>> \o <<>> = a /\ Len(a) \in Nat
OBVIOUS

\* Appending to the middle of three sequences.
LEMMA JoinedBytes ==
    ASSUME NEW a \in Seq(Nat), NEW b \in Seq(Nat), NEW c \in Seq(Nat)
    PROVE  /\ a \o (b \o c) = a \o b \o c
           /\ a \o (b \o c) \o <<>> = a \o b \o c
           /\ a \o b \o c \in Seq(Nat)
<1>1. a \o (b \o c) = a \o b \o c
  BY SMTT(60)
<1>2. a \o b \o c \in Seq(Nat)
  OBVIOUS
<1>3. a \o b \o c \o <<>> = a \o b \o c
  BY <1>2, Concat
<1> QED BY <1>1, <1>2, <1>3

\* Only the fields of a record matter.
LEMMA BytesMoved ==
    ASSUME NEW s \in Places, NEW a \in Seq(Nat), NEW b \in Seq(Nat), NEW c \in Seq(Nat),
           NEW n, NEW t, n \in Nat, t \in Nat
    PROVE  /\ [s EXCEPT !.file = a, !.stdio = b, !.synced = n, !.last = t] \in Places
           /\ [s EXCEPT !.stdio = b, !.buffer = c] \in Places
BY DEF Places

\* do_fsync of what the FILE and the kernel have.
LEMMA FsyncPlaces ==
    ASSUME NEW s \in Places, time \in Nat
    PROVE  /\ Fsync(s) \in Places
           /\ AllBytes(Fsync(s)) = AllBytes(s)
           /\ Fsync(s).buffer = s.buffer /\ Fsync(s).stdio = <<>>
           /\ Fsync(s).synced = Len(Fsync(s).file)
           /\ Fsync(s).last = time
<1>1. s.file \in Seq(Nat) /\ s.stdio \in Seq(Nat) /\ s.buffer \in Seq(Nat)
  BY DEF Places
<1> DEFINE f == s.file  g == s.stdio
<1>2. /\ f \o g \in Seq(Nat) /\ <<>> \in Seq(Nat)
      /\ Len(f) + Len(g) \in Nat
      /\ Len(f \o g) = Len(f) + Len(g)
      /\ f \o g \o <<>> = f \o g
  <2>1. f \in Seq(Nat) /\ g \in Seq(Nat)
    BY <1>1
  <2> HIDE DEF f, g
  <2> QED BY <2>1, Concat
<1>3. Fsync(s) \in Places
  BY <1>1, <1>2, BytesMoved DEF Fsync
<1>4. Fsync(s).file = s.file \o s.stdio
  BY DEF Fsync, Places
<1>5. Fsync(s).stdio = <<>>
  BY DEF Fsync, Places
<1>6. Fsync(s).buffer = s.buffer
  BY DEF Fsync, Places
<1>7. Fsync(s).synced = Len(s.file) + Len(s.stdio) /\ Fsync(s).last = time
  BY DEF Fsync, Places
<1> QED BY <1>2, <1>3, <1>4, <1>5, <1>6, <1>7 DEF AllBytes

\* It puts all on the disk if the writer's buffer is empty.
LEMMA FsyncAll ==
    ASSUME NEW s \in Places, time \in Nat, s.buffer = <<>>
    PROVE  /\ Fsync(s) \in Places /\ AllBytes(Fsync(s)) = AllBytes(s)
           /\ Fsync(s).buffer = <<>>
           /\ Fsync(s).synced = Len(AllBytes(s)) /\ Len(AllBytes(s)) \in Nat
           /\ Fsync(s).synced <= Len(Fsync(s).file)
           /\ Fsync(s).last = time
<1>1. /\ Fsync(s) \in Places /\ AllBytes(Fsync(s)) = AllBytes(s)
      /\ Fsync(s).buffer = <<>> /\ Fsync(s).stdio = <<>>
      /\ Fsync(s).synced = Len(Fsync(s).file) /\ Fsync(s).last = time
  BY FsyncPlaces
<1>2. Fsync(s).file \in Seq(Nat)
  BY <1>1 DEF Places
<1>3. Fsync(s).file \o <<>> \o <<>> = Fsync(s).file /\ Len(Fsync(s).file) \in Nat
  BY <1>2, Empty
<1>4. AllBytes(Fsync(s)) = Fsync(s).file
  BY <1>1, <1>3 DEF AllBytes
<1> QED BY <1>1, <1>3, <1>4

\* aofbuf_flush leaves its buffer empty.
LEMMA FlushPlaces ==
    ASSUME NEW s \in Places, time \in Nat, s.synced <= Len(s.file)
    PROVE  /\ Flush(s) \in Places
           /\ AllBytes(Flush(s)) = AllBytes(s)
           /\ Flush(s).buffer = <<>>
           /\ Flush(s).synced <= Len(Flush(s).file)
           /\ Synced(s, Flush(s), Len(AllBytes(s)))
<1>1. CASE s.buffer = <<>>
  BY <1>1 DEF Flush, Synced
<1>2. CASE s.buffer # <<>>
  <2> DEFINE t == [s EXCEPT !.stdio = @ \o s.buffer, !.buffer = <<>>]
  <2>1. s.file \in Seq(Nat) /\ s.stdio \in Seq(Nat) /\ s.buffer \in Seq(Nat)
    BY DEF Places
  <2> DEFINE f == s.file  g == s.stdio  b == s.buffer
  <2>2. /\ g \o b \in Seq(Nat) /\ <<>> \in Seq(Nat)
        /\ f \o (g \o b) = f \o g \o b
        /\ f \o (g \o b) \o <<>> = f \o (g \o b)
    <3>1. f \in Seq(Nat) /\ g \in Seq(Nat) /\ b \in Seq(Nat)
      BY <2>1
    <3> HIDE DEF f, g, b
    <3>2. g \o b \in Seq(Nat) /\ <<>> \in Seq(Nat)
      BY <3>1, Concat
    <3>3. f \o (g \o b) = f \o g \o b /\ f \o (g \o b) \o <<>> = f \o g \o b
      BY <3>1, JoinedBytes
    <3> QED BY <3>2, <3>3
  <2>3. t \in Places
    <3> DEFINE gb == g \o b  e == <<>>
    <3>1. gb \in Seq(Nat) /\ e \in Seq(Nat)
      BY <2>2
    <3>2. t = [s EXCEPT !.stdio = gb, !.buffer = e]
      OBVIOUS
    <3> HIDE DEF t, gb, e
    <3> QED BY <3>1, <3>2, BytesMoved
  <2>4. t.file = s.file /\ t.synced = s.synced /\ t.last = s.last
    BY DEF Places
  <2>5. t.stdio = s.stdio \o s.buffer
    BY DEF Places
  <2>6. t.buffer = <<>>
    BY DEF Places
  <2>7. AllBytes(t) = AllBytes(s)
    BY <2>2, <2>4, <2>5, <2>6 DEF AllBytes
  <2>8. Flush(s) = IF policy = "always" THEN Fsync(t) ELSE t
    BY <1>2 DEF Flush, Always
  <2> HIDE DEF t
  <2>9. CASE policy # "always"
    BY <2>3, <2>4, <2>6, <2>7, <2>8, <2>9 DEF Synced
  <2>10. CASE policy = "always"
    <3>1. /\ Fsync(t) \in Places /\ AllBytes(Fsync(t)) = AllBytes(t) /\ Fsync(t).buffer = <<>>
          /\ Fsync(t).synced = Len(AllBytes(t)) /\ Len(AllBytes(t)) \in Nat
          /\ Fsync(t).synced <= Len(Fsync(t).file) /\ Fsync(t).last = time
      BY <2>3, <2>6, FsyncAll
    <3> QED BY <2>7, <2>8, <2>10, <3>1 DEF Synced
  <2> QED BY <2>9, <2>10
<1> QED BY <1>1, <1>2
-----------------------------------------------------------------------------
\* Nothing was written.
LEMMA InitBufInv == BufInit => BufInv
<1> SUFFICES ASSUME BufInit PROVE BufInv
  OBVIOUS
<1> USE AofBufAssumption DEF BufInit
<1>1. <<>> \in Seq(Nat) /\ Len(<<>>) = 0
  OBVIOUS
<1>2. BufTypeInv
  BY <1>1 DEF BufTypeInv, Bytes, Places
<1>3. Ordered
  <2>1. <<>> \o <<>> \o <<>> = [i \in 1..Len(<<>>) |-> i]
    BY EmptySeq
  <2> QED BY <1>1, <2>1 DEF Ordered
<1>4. Recent
  BY <1>1 DEF Recent
<1> QED BY <1>2, <1>3, <1>4 DEF BufInv

\* A step after which the bytes are where t says, those that were written since
\* having the stamp of this second.
LEMMA Step ==
    ASSUME BufInv, NEW t \in Places, Becomes(t), stamps' \in Seq(Nat), size' \in {0, BufSize},
           Len(stamps) <= Len(stamps'),
           \A i \in 1..Len(stamps') : stamps'[i] = IF i <= Len(stamps) THEN stamps[i] ELSE time,
           AllBytes(t) = Upto(Len(stamps')),
           t.synced <= Len(t.file), Len(t.buffer) <= size',
           Synced(Bytes, t, Len(stamps)),
           policy' = policy, time' = time, checked' \in {checked, t.last}
    PROVE  BufInv'
<1> USE DEF BufInv
<1>1. /\ buffer' = t.buffer /\ stdio' = t.stdio /\ file' = t.file
      /\ synced' = t.synced /\ lastFsync' = t.last
  BY DEF Becomes
<1>2. BufTypeInv'
  <2>1. Bytes' \in Places
    BY <1>1 DEF Bytes, Places
  <2>2. t.last \in Nat /\ checked \in Nat
    BY DEF Places, BufTypeInv
  <2> QED BY <2>1, <2>2 DEF BufTypeInv
<1>3. Ordered'
  BY <1>1 DEF Ordered, AllBytes, Upto
<1>4. Recent'
  <2>1. /\ lastFsync \in Nat /\ synced \in Nat
    BY DEF BufTypeInv, Bytes, Places
  <2>2. /\ time \in Nat /\ Len(stamps) \in Nat /\ Len(stamps') \in Nat
        /\ \A i \in 1..Len(stamps) : stamps[i] \in Nat
    BY SMTT(60) DEF BufTypeInv
  <2>3. Bytes.synced = synced /\ Bytes.last = lastFsync
    BY DEF Bytes
  <2>4. /\ lastFsync' \in {lastFsync, time} /\ lastFsync' <= time'
        /\ checked' <= lastFsync'
    <3>1. t.last \in {lastFsync, time} /\ checked \in Nat
      BY <2>3 DEF Synced, BufTypeInv
    <3>2. checked <= lastFsync /\ lastFsync <= time
      BY DEF Recent
    <3> QED BY <1>1, <2>1, <2>2, <3>1, <3>2
  <2>5. ASSUME NEW i \in 1..Len(stamps')
        PROVE  stamps'[i] <= time' /\ (synced' < i => lastFsync' <= stamps'[i])
    <3>1. CASE i <= Len(stamps)
      <4>1. i \in 1..Len(stamps) /\ stamps'[i] = stamps[i]
        BY <2>2, <3>1
      <4>2. stamps'[i] <= time' /\ (synced < i => lastFsync <= stamps'[i])
        BY <4>1 DEF Recent
      <4>3. CASE t.synced = synced /\ t.last = lastFsync
        BY <1>1, <4>2, <4>3
      <4>4. CASE t.synced >= Len(stamps)
        <5>1. t.synced \in Nat
          BY DEF Places
        <5> QED BY <1>1, <2>2, <3>1, <4>2, <4>4, <5>1
      <4> QED BY <2>3, <4>3, <4>4 DEF Synced
    <3>2. CASE ~ (i <= Len(stamps))
      BY <2>2, <2>4, <3>2
    <3> QED BY <3>1, <3>2
  <2> QED BY <2>4, <2>5 DEF Recent
<1> QED BY <1>2, <1>3, <1>4

\* What flushing the writer's buffer gives in a reachable state.
LEMMA FlushNow ==
    ASSUME BufInv
    PROVE  /\ Bytes \in Places /\ time \in Nat
           /\ AllBytes(Bytes) = Upto(Len(stamps)) /\ Len(AllBytes(Bytes)) = Len(stamps)
           /\ Bytes.synced <= Len(Bytes.file) /\ Len(Bytes.buffer) <= size
           /\ Flush(Bytes) \in Places /\ AllBytes(Flush(Bytes)) = AllBytes(Bytes)
           /\ Flush(Bytes).buffer = <<>>
           /\ Flush(Bytes).synced <= Len(Flush(Bytes).file)
           /\ Synced(Bytes, Flush(Bytes), Len(stamps))
<1>1. /\ Bytes \in Places /\ time \in Nat /\ stamps \in Seq(Nat)
  BY DEF BufInv, BufTypeInv
<1>2. AllBytes(Bytes) = Upto(Len(stamps))
  BY DEF BufInv, Ordered, AllBytes, Bytes, Upto
<1>3. Bytes.synced <= Len(Bytes.file) /\ Len(Bytes.buffer) <= size
  BY DEF BufInv, Ordered, Bytes
<1>4. Len(AllBytes(Bytes)) = Len(stamps)
  <2>1. Len(stamps) \in Nat
    BY <1>1
  <2> QED BY <1>2, <2>1 DEF Upto
<1> QED BY <1>1, <1>2, <1>3, <1>4, FlushPlaces

\* aofbuf_destroy flushes, and syncs under the policy always only.
LEMMA CloseStep == ASSUME BufInv, CloseBuffer PROVE BufInv'
<1>1. /\ Becomes(Flush(Bytes)) /\ size' = 0
      /\ stamps' = stamps /\ policy' = policy /\ time' = time /\ checked' = checked
  BY DEF CloseBuffer
<1>2. stamps \in Seq(Nat) /\ Len(stamps) \in Nat
  BY DEF BufInv, BufTypeInv
<1>3. Len(Flush(Bytes).buffer) <= size'
  BY <1>1, FlushNow, EmptySeq
<1> QED BY <1>1, <1>2, <1>3, FlushNow, Step

\* aofbuf_periodic_fsync finds an fsync of this second, or makes one.
LEMMA PeriodicStep == ASSUME BufInv, PeriodicFsync PROVE BufInv'
<1> DEFINE f == Flush(Bytes)
<1>1. /\ stamps' = stamps /\ size' = size /\ policy' = policy /\ time' = time
      /\ checked' = IF policy = "everysec" THEN time ELSE checked
      /\ stamps \in Seq(Nat) /\ Len(stamps) \in Nat /\ size \in {0, BufSize}
  BY DEF PeriodicFsync, BufInv, BufTypeInv
<1>2. CASE ~ (policy = "everysec" /\ time - lastFsync >= 1)
  <2>1. Becomes(Bytes) /\ Synced(Bytes, Bytes, Len(stamps))
    BY <1>2 DEF PeriodicFsync, Synced
  <2>2. checked' \in {checked, Bytes.last}
    <3>1. CASE policy = "everysec"
      <4>1. lastFsync \in Nat /\ time \in Nat /\ lastFsync <= time
        BY DEF BufInv, BufTypeInv, Recent, Bytes, Places
      <4>2. Bytes.last = lastFsync
        BY DEF Bytes
      <4> QED BY <1>1, <1>2, <3>1, <4>1, <4>2
    <3> QED BY <1>1, <3>1
  <2> QED BY <1>1, <2>1, <2>2, FlushNow, Step
<1>3. CASE policy = "everysec" /\ time - lastFsync >= 1
  <2>1. Becomes(Fsync(f))
    BY <1>3 DEF PeriodicFsync
  <2>2. /\ f \in Places /\ f.buffer = <<>> /\ time \in Nat
        /\ AllBytes(f) = Upto(Len(stamps)) /\ Len(AllBytes(f)) = Len(stamps)
    BY FlushNow
  <2> HIDE DEF f
  <2>3. /\ Fsync(f) \in Places /\ AllBytes(Fsync(f)) = AllBytes(f) /\ Fsync(f).buffer = <<>>
        /\ Fsync(f).synced = Len(AllBytes(f)) /\ Len(AllBytes(f)) \in Nat
        /\ Fsync(f).synced <= Len(Fsync(f).file) /\ Fsync(f).last = time
    BY <2>2, FsyncAll
  <2>4. /\ Synced(Bytes, Fsync(f), Len(stamps)) /\ Len(Fsync(f).buffer) <= size'
        /\ checked' \in {checked, Fsync(f).last}
    BY <1>1, <1>3, <2>2, <2>3, AofBufAssumption, EmptySeq DEF Synced
  <2> QED BY <1>1, <2>1, <2>2, <2>3, <2>4, Step
<1> QED BY <1>2, <1>3
-----------------------------------------------------------------------------
\* Data of len bytes that follow the ones that were written, with their stamps.
LEMMA Numbered ==
    ASSUME NEW q \in Seq(Nat), NEW len \in Nat, NEW now \in Nat
    PROVE  /\ Following(Len(q), len) \in Seq(Nat) /\ Len(Following(Len(q), len)) = len
           /\ Stamped(q, len, now) \in Seq(Nat) /\ Len(Stamped(q, len, now)) = Len(q) + len
           /\ \A i \in 1..(Len(q) + len) :
                 Stamped(q, len, now)[i] = IF i <= Len(q) THEN q[i] ELSE now
           /\ Upto(Len(q)) \o Following(Len(q), len) = Upto(Len(q) + len)
<1> DEFINE data == Following(Len(q), len)
           all == Upto(Len(q))
           new == [i \in 1..len |-> now]
<1>1. Len(q) \in Nat /\ DOMAIN q = 1..Len(q)
  OBVIOUS
<1>2. data \in Seq(Nat) /\ Len(data) = len
  BY <1>1 DEF Following
<1>3. new \in Seq(Nat) /\ Len(new) = len
  OBVIOUS
<1>4. \A i \in 1..len : new[i] = now /\ data[i] = Len(q) + i
  BY DEF Following
<1>5. /\ all \in Seq(Nat) /\ Len(all) = Len(q)
      /\ \A i \in 1..Len(q) : all[i] = i
  BY <1>1 DEF Upto
<1> HIDE DEF data, new, all
<1>6. /\ q \o new \in Seq(Nat) /\ Len(q \o new) = Len(q) + len
      /\ \A i \in 1..(Len(q) + len) :
            (q \o new)[i] = IF i <= Len(q) THEN q[i] ELSE new[i - Len(q)]
  BY <1>1, <1>3, ConcatProperties
<1>7. /\ all \o data \in Seq(Nat) /\ Len(all \o data) = Len(q) + len
      /\ \A i \in 1..(Len(q) + len) :
            (all \o data)[i] = IF i <= Len(q) THEN all[i] ELSE data[i - Len(q)]
  <2>1. /\ all \o data \in Seq(Nat) /\ Len(all \o data) = Len(all) + Len(data)
        /\ \A i \in 1..(Len(all) + Len(data)) :
              (all \o data)[i] = IF i <= Len(all) THEN all[i] ELSE data[i - Len(all)]
    <3>1. all \in Seq(Nat) /\ data \in Seq(Nat)
      BY <1>2, <1>5
    <3> QED BY ONLY <3>1, ConcatProperties
  <2> QED BY <1>2, <1>5, <2>1
<1>8. \A i \in 1..(Len(q) + len) : i <= Len(q) \/ i - Len(q) \in 1..len
  BY <1>1
<1>9. all \o data = Upto(Len(q) + len)
  <2>1. all \o data = [i \in 1..(Len(q) + len) |-> (all \o data)[i]]
    <3> DEFINE ad == all \o data
    <3>1. ad \in Seq(Nat) /\ Len(ad) = Len(q) + len
      BY <1>7
    <3> HIDE DEF ad
    <3>2. ad = [i \in 1..(Len(q) + len) |-> ad[i]]
      BY <3>1
    <3> QED BY <3>2 DEF ad
  <2>2. \A i \in 1..(Len(q) + len) : (all \o data)[i] = i
    BY <1>1, <1>4, <1>5, <1>7, <1>8
  <2> QED BY <2>1, <2>2 DEF Upto
<1>10. \A i \in 1..(Len(q) + len) : (q \o new)[i] = IF i <= Len(q) THEN q[i] ELSE now
  BY <1>4, <1>6, <1>8
<1> QED BY <1>1, <1>2, <1>6, <1>9, <1>10 DEF data, new, all, Stamped

\* Data appended to the writer's buffer.
LEMMA Buffered ==
    ASSUME NEW s \in Places, NEW d \in Seq(Nat)
    PROVE  LET t == IntoBuffer(s, d)
           IN /\ t \in Places /\ AllBytes(t) = AllBytes(s) \o d
              /\ t.file = s.file /\ t.synced = s.synced /\ t.last = s.last
              /\ Len(t.buffer) = Len(s.buffer) + Len(d)
<1> DEFINE t == IntoBuffer(s, d)
           f == s.file  g == s.stdio  b == s.buffer  bd == b \o d
<1>1. f \in Seq(Nat) /\ g \in Seq(Nat) /\ b \in Seq(Nat)
  BY DEF Places, IntoBuffer
<1>2. t.file = f /\ t.stdio = g /\ t.synced = s.synced /\ t.last = s.last
  BY DEF Places, IntoBuffer
<1>3. t.buffer = bd
  BY DEF Places, IntoBuffer
<1>4. bd \in Seq(Nat) /\ Len(bd) = Len(b) + Len(d)
  <2> HIDE DEF f, g, b
  <2> QED BY <1>1, Concat
<1>5. t \in Places
  <2>1. t = [s EXCEPT !.buffer = bd]
    BY DEF IntoBuffer
  <2> HIDE DEF t, bd
  <2> QED BY <1>4, <2>1 DEF Places
<1>6. f \o g \o bd = f \o g \o b \o d
  <2> HIDE DEF f, g, b
  <2>1. f \o g \in Seq(Nat)
    BY <1>1, Concat
  <2> QED BY <1>1, <2>1, JoinedBytes
<1>7. AllBytes(t) = AllBytes(s) \o d
  BY <1>2, <1>3, <1>6 DEF AllBytes
<1> QED BY <1>2, <1>3, <1>4, <1>5, <1>7

\* Data that goes around the writer's buffer, which is empty.
LEMMA Around ==
    ASSUME NEW s \in Places, NEW d \in Seq(Nat), s.buffer = <<>>
    PROVE  LET t == IntoFile(s, d)
           IN /\ t \in Places /\ AllBytes(t) = AllBytes(s) \o d
              /\ t.file = s.file /\ t.synced = s.synced /\ t.last = s.last
              /\ t.buffer = <<>>
<1> DEFINE t == IntoFile(s, d)
           f == s.file  g == s.stdio  gd == g \o d
<1>1. f \in Seq(Nat) /\ g \in Seq(Nat)
  BY DEF Places, IntoFile
<1>2. t.file = f /\ t.buffer = <<>> /\ t.synced = s.synced /\ t.last = s.last
  BY DEF Places, IntoFile
<1>3. t.stdio = gd
  BY DEF Places, IntoFile
<1>4. gd \in Seq(Nat)
  <2> HIDE DEF f, g
  <2> QED BY <1>1, Concat
<1>5. t \in Places
  <2>1. t = [s EXCEPT !.stdio = gd]
    BY DEF IntoFile
  <2> HIDE DEF t, gd
  <2> QED BY <1>4, <2>1 DEF Places
<1>6. f \o gd \o <<>> = f \o g \o <<>> \o d
  <2> HIDE DEF f, g
  <2>1. f \o g \o <<>> = f \o g
    BY <1>1, Concat
  <2>2. f \o (g \o d) \o <<>> = f \o g \o d
    BY <1>1, JoinedBytes
  <2> QED BY <2>1, <2>2
<1>7. AllBytes(t) = AllBytes(s) \o d
  BY <1>2, <1>3, <1>6 DEF AllBytes
<1> QED BY <1>2, <1>5, <1>7

\* aofbuf_write, within the buffer or around it.
LEMMA WriteStep == ASSUME BufInv, NEW len \in Nat, Write(len) PROVE BufInv'
<1> DEFINE data == Following(Len(stamps), len)
           stamped == Stamped(stamps, len, time)
           f == Flush(Bytes)
           room == IF Len(buffer) + len > size THEN f ELSE Bytes
           w == IntoFile(f, data)
           b == IntoBuffer(room, data)
<1>1. /\ stamps' = stamped /\ size' = size /\ policy' = policy /\ time' = time
      /\ checked' = checked
      /\ Becomes(IF len >= size THEN Always(w) ELSE b)
  BY DEF Write, Following, Stamped, IntoFile, IntoBuffer
<1>2. /\ stamps \in Seq(Nat) /\ Len(stamps) \in Nat /\ time \in Nat
      /\ size \in {0, BufSize} /\ size \in Nat
  BY AofBufAssumption DEF BufInv, BufTypeInv
<1>3. /\ Bytes \in Places /\ f \in Places
      /\ AllBytes(Bytes) = Upto(Len(stamps)) /\ AllBytes(f) = AllBytes(Bytes)
      /\ f.buffer = <<>> /\ Len(f.buffer) = 0 /\ Len(Bytes.buffer) <= size
      /\ Bytes.synced <= Len(Bytes.file) /\ f.synced <= Len(f.file)
      /\ Synced(Bytes, f, Len(stamps)) /\ Synced(Bytes, Bytes, Len(stamps))
  BY FlushNow, EmptySeq DEF Synced
<1>4. /\ data \in Seq(Nat) /\ Len(data) = len
      /\ stamped \in Seq(Nat) /\ Len(stamped) \in Nat /\ Len(stamps) <= Len(stamped)
      /\ \A i \in 1..Len(stamped) : stamped[i] = IF i <= Len(stamps) THEN stamps[i] ELSE time
      /\ AllBytes(Bytes) \o data = Upto(Len(stamped))
  <2>1. AllBytes(Bytes) = Upto(Len(stamps))
    BY <1>3
  <2>2. /\ data \in Seq(Nat) /\ Len(data) = len
        /\ stamped \in Seq(Nat) /\ Len(stamped) = Len(stamps) + len
        /\ \A i \in 1..(Len(stamps) + len) :
              stamped[i] = IF i <= Len(stamps) THEN stamps[i] ELSE time
        /\ Upto(Len(stamps)) \o data = Upto(Len(stamps) + len)
    BY <1>2, Numbered
  <2> HIDE DEF data, stamped
  <2> QED BY <1>2, <2>1, <2>2
<1> HIDE DEF data, stamped, f
<1>5. CASE len >= size
  <2>1. /\ w \in Places /\ AllBytes(w) = AllBytes(Bytes) \o data
        /\ w.file = f.file /\ w.synced = f.synced /\ w.last = f.last /\ w.buffer = <<>>
    BY <1>3, <1>4, Around
  <2> HIDE DEF w
  <2>2. Len(<<>>) <= size
    BY <1>2, EmptySeq
  <2>3. CASE policy # "always"
    <3>1. Becomes(w) /\ Synced(Bytes, w, Len(stamps)) /\ w.synced <= Len(w.file)
      BY <1>1, <1>3, <1>5, <2>1, <2>3 DEF Always, Synced
    <3> QED BY <1>1, <1>2, <1>4, <2>1, <2>2, <3>1, Step
  <2>4. CASE policy = "always"
    <3>1. Becomes(Fsync(w))
      BY <1>1, <1>5, <2>4 DEF Always
    <3>2. /\ Fsync(w) \in Places /\ AllBytes(Fsync(w)) = AllBytes(w) /\ Fsync(w).buffer = <<>>
          /\ Fsync(w).synced = Len(AllBytes(w)) /\ Len(AllBytes(w)) \in Nat
          /\ Fsync(w).synced <= Len(Fsync(w).file) /\ Fsync(w).last = time
      BY <1>2, <2>1, FsyncAll
    <3>3. Len(AllBytes(w)) = Len(stamped)
      BY <1>4, <2>1 DEF Upto
    <3>4. Synced(Bytes, Fsync(w), Len(stamps))
      BY <1>2, <1>4, <3>2, <3>3 DEF Synced
    <3> QED BY <1>1, <1>2, <1>4, <2>1, <2>2, <3>1, <3>2, <3>4, Step
  <2> QED BY <2>3, <2>4
<1>6. CASE ~ (len >= size)
  <2>1. /\ room \in Places /\ AllBytes(room) = AllBytes(Bytes) /\ room.synced <= Len(room.file)
        /\ Synced(Bytes, room, Len(stamps))
    BY <1>3
  <2>2. Len(room.buffer) + len <= size
    <3>1. CASE Len(buffer) + len > size
      BY <1>2, <1>3, <1>6, <3>1
    <3>2. CASE ~ (Len(buffer) + len > size)
      <4>1. Bytes.buffer = buffer /\ Len(buffer) \in Nat
        BY <1>3 DEF Bytes, Places
      <4> QED BY <1>2, <3>2, <4>1
    <3> QED BY <3>1, <3>2
  <2> HIDE DEF room
  <2>3. /\ b \in Places /\ AllBytes(b) = AllBytes(Bytes) \o data
        /\ b.file = room.file /\ b.synced = room.synced /\ b.last = room.last
        /\ Len(b.buffer) <= size
    BY <1>4, <2>1, <2>2, Buffered
  <2> HIDE DEF b
  <2>4. Becomes(b) /\ Synced(Bytes, b, Len(stamps)) /\ b.synced <= Len(b.file)
    BY <1>1, <1>6, <2>1, <2>3 DEF Synced
  <2> QED BY <1>1, <1>2, <1>4, <2>3, <2>4, Step
<1> QED BY <1>5, <1>6

\* stdio passes on some of what it holds; the kernel writes some of its pages.
LEMMA SpillStep == ASSUME BufInv, Spill PROVE BufInv'
<1>1. PICK n \in 1..Len(stdio) :
          /\ file' = file \o SubSeq(stdio, 1, n) /\ stdio' = SubSeq(stdio, n + 1, Len(stdio))
          /\ UNCHANGED <<stamps, size, buffer, synced, policy, lastFsync, time, checked>>
  BY DEF Spill
<1>2. /\ file \in Seq(Nat) /\ stdio \in Seq(Nat) /\ buffer \in Seq(Nat) /\ synced \in Nat
  BY DEF BufInv, BufTypeInv, Bytes, Places
<1> DEFINE a == SubSeq(stdio, 1, n)  b == SubSeq(stdio, n + 1, Len(stdio))
<1>3. a \in Seq(Nat) /\ b \in Seq(Nat) /\ a \o b = stdio
  <2>1. /\ Len(stdio) \in Nat /\ n \in Nat /\ n <= Len(stdio)
        /\ \A i \in 1..Len(stdio) : stdio[i] \in Nat
    BY <1>2
  <2>2. a \in Seq(Nat)
    BY <2>1, SubSeqProperties
  <2>3. b \in Seq(Nat)
    BY <2>1, SubSeqProperties
  <2>4. a \o b = SubSeq(stdio, 1, Len(stdio))
    BY <1>2, <2>1, ConcatAdjacentSubSeq
  <2> QED BY <1>2, <2>2, <2>3, <2>4, SubSeqFull
<1> HIDE DEF a, b
<1>4. /\ file \o a \in Seq(Nat) /\ Len(file \o a) = Len(file) + Len(a)
      /\ Len(a) \in Nat /\ Len(file) \in Nat /\ file \o a \o b = file \o stdio
  <2>1. /\ file \o a \in Seq(Nat) /\ Len(file \o a) = Len(file) + Len(a)
        /\ Len(a) \in Nat /\ Len(file) \in Nat
    BY <1>2, <1>3, Concat
  <2>2. file \o (a \o b) = file \o a \o b
    BY ZenonT(30), <1>2, <1>3, JoinedBytes
  <2> QED BY <1>3, <2>1, <2>2
<1>5. file' = file \o a /\ stdio' = b
  BY <1>1 DEF a, b
<1>6. BufTypeInv'
  <2>1. Bytes' \in Places
    BY <1>1, <1>3, <1>4, <1>5 DEF BufInv, BufTypeInv, Bytes, Places
  <2> QED BY <1>1, <2>1 DEF BufInv, BufTypeInv
<1>7. Ordered'
  <2>1. file' \o stdio' \o buffer' = file \o stdio \o buffer
    BY <1>1, <1>4, <1>5
  <2>2. synced' <= Len(file')
    BY <1>1, <1>2, <1>4, <1>5 DEF BufInv, Ordered
  <2> QED BY <1>1, <2>1, <2>2 DEF BufInv, Ordered
<1>8. Recent'
  BY <1>1 DEF BufInv, Recent
<1> QED BY <1>6, <1>7, <1>8 DEF BufInv

\* The kernel writes some of its pages.
LEMMA WriteBackStep == ASSUME BufInv, WriteBack PROVE BufInv'
<1>1. /\ synced' \in synced..Len(file)
      /\ UNCHANGED <<stamps, size, buffer, stdio, file, policy, lastFsync, time, checked>>
  BY DEF WriteBack
<1>2. synced \in Nat /\ Len(file) \in Nat
  BY DEF BufInv, BufTypeInv, Bytes, Places
<1>3. synced' \in Nat /\ synced <= synced' /\ synced' <= Len(file)
  BY <1>1, <1>2
<1>4. BufTypeInv'
  <2>1. Bytes' \in Places
    BY <1>1, <1>3 DEF BufInv, BufTypeInv, Bytes, Places
  <2> QED BY <1>1, <2>1 DEF BufInv, BufTypeInv
<1>5. Ordered'
  BY <1>1, <1>3 DEF BufInv, Ordered
<1>6. Recent'
  <2>1. Len(stamps) \in Nat
    BY DEF BufInv, BufTypeInv
  <2>2. \A i \in 1..Len(stamps) : synced' < i => synced < i
    BY <1>2, <1>3, <2>1
  <2> QED BY <1>1, <2>2 DEF BufInv, Recent
<1> QED BY <1>4, <1>5, <1>6 DEF BufInv

\* The clock goes on: no stamp is ahead of it.
LEMMA SecondStep == ASSUME BufInv, Second PROVE BufInv'
<1>1. /\ time' = time + 1
      /\ UNCHANGED <<stamps, size, buffer, stdio, file, synced, policy, lastFsync, checked>>
  BY DEF Second
<1>2. time \in Nat /\ lastFsync \in Nat /\ checked \in Nat /\ \A i \in 1..Len(stamps) : stamps[i] \in Nat
  BY DEF BufInv, BufTypeInv, Bytes, Places
<1>3. BufTypeInv'
  BY <1>1, <1>2 DEF BufInv, BufTypeInv, Bytes
<1>4. Ordered'
  BY <1>1 DEF BufInv, Ordered
<1>5. Recent'
  BY <1>1, <1>2 DEF BufInv, Recent
<1> QED BY <1>3, <1>4, <1>5 DEF BufInv

\* The invariant does not depend on the policy.
LEMMA SetPolicyStep == ASSUME BufInv, SetPolicy \/ UNCHANGED bufVars PROVE BufInv'
<1>1. /\ UNCHANGED <<stamps, size, buffer, stdio, file, synced, lastFsync, time, checked>>
      /\ policy' \in Policies
  BY DEF SetPolicy, bufVars, BufInv, BufTypeInv
<1>2. BufTypeInv'
  BY <1>1 DEF BufInv, BufTypeInv, Bytes
<1> QED BY <1>1, <1>2 DEF BufInv, Ordered, Recent
-----------------------------------------------------------------------------
\* Every step keeps the invariant.
LEMMA NextIInv == BufInv /\ [BufNext]_bufVars => BufInv'
<1> SUFFICES ASSUME BufInv, [BufNext]_bufVars PROVE BufInv'
  OBVIOUS
<1>1. ASSUME NEW len \in 1..(BufSize + 1), Write(len) PROVE BufInv'
  BY <1>1, AofBufAssumption, WriteStep
<1>2. CASE PeriodicFsync
  BY <1>2, PeriodicStep
<1>3. CASE CloseBuffer
  BY <1>3, CloseStep
<1>4. CASE SetPolicy \/ UNCHANGED bufVars
  BY <1>4, SetPolicyStep
<1>5. CASE Spill
  BY <1>5, SpillStep
<1>6. CASE WriteBack
  BY <1>6, WriteBackStep
<1>7. CASE Second
  BY <1>7, SecondStep
<1> QED BY <1>1, <1>2, <1>3, <1>4, <1>5, <1>6, <1>7 DEF BufNext

\* For every size of the buffer, every mix of writes around it and into it, of policies
\* and of moments at which stdio and the kernel pass bytes on: the file is a prefix
\* of what was written.
THEOREM OrderedAlways == BufSpec => []Ordered
<1>1. BufInv => Ordered
  BY DEF BufInv
<1> QED BY <1>1, InitBufInv, NextIInv, PTL DEF BufSpec

\* Once serverCron has called aofbuf_periodic_fsync under everysec, what is not on the
\* disk was written in the second of the call or later: either the call has put all of
\* it there, or the last fsync was in that second, and what it left out came later.
THEOREM EverysecAlways == BufSpec => []EverysecHolds
<1>1. BufInv => EverysecHolds
  <2> SUFFICES ASSUME BufInv, NEW i \in (synced + 1)..Len(stamps)
               PROVE  stamps[i] >= checked
    BY DEF EverysecHolds
  <2>1. /\ synced \in Nat /\ lastFsync \in Nat /\ checked \in Nat /\ Len(stamps) \in Nat
        /\ \A j \in 1..Len(stamps) : stamps[j] \in Nat
    <3>1. Bytes \in Places /\ stamps \in Seq(Nat) /\ checked \in Nat
      BY DEF BufInv, BufTypeInv
    <3> QED BY SMTT(30), <3>1 DEF Bytes, Places
  <2>2. i \in 1..Len(stamps) /\ synced < i
    BY <2>1
  <2>3. checked <= lastFsync /\ lastFsync <= stamps[i]
    BY <2>2 DEF BufInv, Recent
  <2> QED BY <2>1, <2>2, <2>3
<1> QED BY <1>1, InitBufInv, NextIInv, PTL DEF BufSpec

\* A sequence is over whatever set its members are of.
LEMMA SeqOver ==
    ASSUME NEW q \in Seq(Nat), NEW S, \A i \in 1..Len(q) : q[i] \in S
    PROVE  q \in Seq(S)
OBVIOUS

\* Three sequences that follow one another are of numbers up to n if all they have is.
LEMMA PartsOf ==
    ASSUME NEW a \in Seq(Nat), NEW b \in Seq(Nat), NEW c \in Seq(Nat), NEW n \in Nat,
           a \o b \o c = Upto(n)
    PROVE  a \in Seq(1..n) /\ b \in Seq(1..n) /\ c \in Seq(1..n)
<1> DEFINE ab == a \o b
           N == 1..n
<1>1. Len(a) \in Nat /\ Len(b) \in Nat /\ Len(c) \in Nat
  OBVIOUS
<1>2. /\ ab \in Seq(Nat) /\ Len(ab) = Len(a) + Len(b)
      /\ \A i \in 1..(Len(a) + Len(b)) : ab[i] = IF i <= Len(a) THEN a[i] ELSE b[i - Len(a)]
  <2>1. a \in Seq(Nat) /\ b \in Seq(Nat)
    OBVIOUS
  <2> QED BY ONLY <2>1, ConcatProperties
<1> HIDE DEF ab
<1>3. /\ Len(ab \o c) = Len(ab) + Len(c)
      /\ \A i \in 1..(Len(ab) + Len(c)) :
            (ab \o c)[i] = IF i <= Len(ab) THEN ab[i] ELSE c[i - Len(ab)]
  <2>1. ab \in Seq(Nat) /\ c \in Seq(Nat)
    BY <1>2
  <2> QED BY ONLY <2>1, ConcatProperties
<1>4. ab \o c = Upto(n)
  BY DEF ab
<1>5. n = Len(a) + Len(b) + Len(c)
  BY <1>1, <1>2, <1>3, <1>4 DEF Upto
<1>6. \A i \in N : (ab \o c)[i] \in N
  BY <1>4 DEF Upto
<1>7. ASSUME NEW i \in 1..Len(a) PROVE a[i] \in N
  <2>1. i \in 1..(Len(a) + Len(b)) /\ i \in 1..(Len(ab) + Len(c)) /\ i \in N
        /\ i <= Len(a) /\ i <= Len(ab)
    <3>1. Len(ab) = Len(a) + Len(b)
      BY <1>2
    <3> QED BY ONLY <1>1, <1>5, <3>1, i \in 1..Len(a) DEF N
  <2>2. (ab \o c)[i] = a[i]
    BY <1>2, <1>3, <2>1
  <2> HIDE DEF N
  <2> QED BY <1>6, <2>1, <2>2
<1>8. ASSUME NEW i \in 1..Len(b) PROVE b[i] \in N
  <2>1. PICK j : j = Len(a) + i
    OBVIOUS
  <2>2. j \in 1..(Len(a) + Len(b)) /\ j \in 1..(Len(ab) + Len(c)) /\ j \in N
        /\ ~ (j <= Len(a)) /\ j <= Len(ab) /\ j - Len(a) = i
    <3>1. Len(ab) = Len(a) + Len(b)
      BY <1>2
    <3>2. \A x, y, z \in Nat : \A k \in 1..y :
             /\ x + k \in 1..(x + y) /\ x + k \in 1..((x + y) + z)
             /\ ~ (x + k <= x) /\ x + k <= x + y /\ (x + k) - x = k
      OBVIOUS
    <3> QED BY <1>1, <1>5, <2>1, <3>1, <3>2 DEF N
  <2>3. (ab \o c)[j] = b[i]
    BY <1>2, <1>3, <2>2
  <2> HIDE DEF N
  <2> QED BY <1>6, <2>2, <2>3
<1>9. ASSUME NEW i \in 1..Len(c) PROVE c[i] \in N
  <2>1. PICK j : j = Len(ab) + i
    OBVIOUS
  <2>2. j \in 1..(Len(ab) + Len(c)) /\ j \in N /\ ~ (j <= Len(ab)) /\ j - Len(ab) = i
    <3>1. Len(ab) = Len(a) + Len(b)
      BY <1>2
    <3>2. \A x, z \in Nat : \A k \in 1..z :
             x + k \in 1..(x + z) /\ ~ (x + k <= x) /\ (x + k) - x = k
      OBVIOUS
    <3>3. Len(ab) \in Nat
      BY <1>1, <3>1
    <3> QED BY <1>1, <1>5, <2>1, <3>1, <3>2, <3>3 DEF N
  <2>3. (ab \o c)[j] = c[i]
    BY <1>3, <2>2
  <2> HIDE DEF N
  <2> QED BY <1>6, <2>2, <2>3
<1>10. a \in Seq(N) /\ b \in Seq(N) /\ c \in Seq(N)
  <2> HIDE DEF N
  <2> QED BY <1>1, <1>7, <1>8, <1>9, SeqOver
<1> QED BY <1>10

\* The writer's state has its type, and no stamp and no fsync is of a second to come.
LEMMA BufTypeCorrect == BufSpec => []BufTypeOK
<1>1. BufInv => BufTypeOK
  <2> SUFFICES ASSUME BufInv PROVE BufTypeOK
    OBVIOUS
  <2>1. /\ buffer \in Seq(Nat) /\ stdio \in Seq(Nat) /\ file \in Seq(Nat)
        /\ synced \in Nat /\ lastFsync \in Nat /\ checked \in Nat /\ time \in Nat
        /\ stamps \in Seq(Nat) /\ size \in {0, BufSize} /\ policy \in Policies
    BY DEF BufInv, BufTypeInv, Bytes, Places
  <2>2. Len(stamps) \in Nat /\ Len(file) \in Nat
    BY <2>1
  <2>3. {buffer, stdio, file} \subseteq Seq(1..Len(stamps))
    <3>1. file \o stdio \o buffer = Upto(Len(stamps))
      BY DEF BufInv, Ordered, Upto
    <3>2. /\ file \in Seq(1..Len(stamps)) /\ stdio \in Seq(1..Len(stamps))
          /\ buffer \in Seq(1..Len(stamps))
      BY <2>1, <2>2, <3>1, PartsOf
    <3> QED BY <3>2
  <2>4. stamps \in Seq(0..time)
    <3>1. \A i \in 1..Len(stamps) : stamps[i] \in Nat
      BY <2>1
    <3>2. \A i \in 1..Len(stamps) : stamps[i] \in 0..time
      BY <2>1, <3>1 DEF BufInv, Recent
    <3> DEFINE S == 0..time
    <3> HIDE DEF S
    <3>3. stamps \in Seq(S)
      BY <2>1, <3>2, SeqOver DEF S
    <3> QED BY <3>3 DEF S
  <2>5. synced \in 0..Len(file)
    BY <2>1, <2>2 DEF BufInv, Ordered
  <2>6. {lastFsync, checked} \subseteq 0..time
    BY <2>1 DEF BufInv, Recent
  <2> QED BY <2>1, <2>3, <2>4, <2>5, <2>6 DEF BufTypeOK
<1> QED BY <1>1, InitBufInv, NextIInv, PTL DEF BufSpec

(***************************************************************************)
(* The dictionary                                                           *)
(***************************************************************************)
\* The entries of a table, and of a dictionary.
InTable(h) == UNION {h.table[i] : i \in DOMAIN h.table}
InDict(d) == InTable(d.ht[0]) \cup InTable(d.ht[1])

Tables == [size : Nat, used : Int, table : UNION {[0..(n - 1) -> SUBSET DictEntry] : n \in Nat}]

\* A table as it should be.
GoodTable(h) ==
    /\ h \in Tables /\ h.table \in [0..(h.size - 1) -> SUBSET DictEntry]
    /\ \A i \in 0..(h.size - 1) : \A e \in h.table[i] : Index(h, e.key) = i
    /\ IsFiniteSet(InTable(h)) /\ h.used = Cardinality(InTable(h))

\* A dictionary as it should be, but that the rehash may be at its end.
Passable(d) ==
    /\ d \in [ht : [{0, 1} -> Tables], rehashidx : Int]
    /\ GoodTable(d.ht[0]) /\ GoodTable(d.ht[1])
    /\ \A e, f \in InDict(d) : e.key = f.key => e = f
    /\ InTable(d.ht[0]) \cap InTable(d.ht[1]) = {}
    /\ d.rehashidx \in -1..d.ht[0].size
    /\ \A i \in 0..(d.rehashidx - 1) : d.ht[0].table[i] = {}
    /\ d.ht[1].size # 0 <=> d.rehashidx # -1

Good(d) == Passable(d) /\ d.rehashidx # d.ht[0].size
-----------------------------------------------------------------------------
(***************************************************************************)
(* Tables                                                                   *)
(***************************************************************************)
\* A key has a bucket in every table that has buckets.
LEMMA IndexIs ==
    ASSUME NEW h, h.size \in Nat, NEW k \in DictKeys
    PROVE  h.size # 0 => Index(h, k) \in 0..(h.size - 1)
<1>1. Hash[k] \in Nat
  BY DictAssumption
<1>2. ASSUME NEW m \in Nat, NEW n \in Nat, n # 0 PROVE m % n \in 0..(n - 1)
  BY <1>2
<1> QED BY <1>1, <1>2 DEF Index

\* Where an entry is.
LEMMA HeldIs ==
    ASSUME NEW h, GoodTable(h)
    PROVE  /\ \A i \in 0..(h.size - 1) : h.table[i] \subseteq InTable(h)
           /\ \A e \in InTable(h) : /\ e \in DictEntry
                                 /\ Index(h, e.key) \in 0..(h.size - 1)
                                 /\ e \in h.table[Index(h, e.key)]
           /\ h.size = 0 => InTable(h) = {}
           /\ h.used = 0 <=> InTable(h) = {}
           /\ h.used \in Nat
<1>1. /\ DOMAIN h.table = 0..(h.size - 1) /\ h.size \in Nat
      /\ \A i \in 0..(h.size - 1) : h.table[i] \subseteq DictEntry
      /\ \A i \in 0..(h.size - 1) : \A e \in h.table[i] : Index(h, e.key) = i
  BY DEF GoodTable, Tables
<1>2. h.used \in Nat /\ (h.used = 0 <=> InTable(h) = {})
  BY FS_CardinalityType, FS_EmptySet DEF GoodTable
<1>3. \A i \in 0..(h.size - 1) : h.table[i] \subseteq InTable(h)
  BY <1>1 DEF InTable
<1>4. ASSUME NEW e \in InTable(h)
      PROVE  /\ e \in DictEntry /\ Index(h, e.key) \in 0..(h.size - 1)
             /\ e \in h.table[Index(h, e.key)]
  <2>1. PICK i \in 0..(h.size - 1) : e \in h.table[i]
    BY <1>1 DEF InTable
  <2> QED BY <1>1, <2>1
<1>5. h.size = 0 => InTable(h) = {}
  BY <1>4
<1> QED BY <1>2, <1>3, <1>4, <1>5

\* An empty table.
LEMMA NewIs ==
    ASSUME NEW n \in Nat, NEW r, r = NewTable(n)
    PROVE  GoodTable(r) /\ InTable(r) = {} /\ r.size = n /\ r.used = 0
<1>1. /\ r.size = n /\ r.used = 0 /\ r.table = [i \in 0..(n - 1) |-> {}]
      /\ r = [size |-> r.size, used |-> r.used, table |-> r.table]
  BY DEF NewTable
<1>2. r.table \in [0..(n - 1) -> SUBSET DictEntry] /\ \A i \in 0..(n - 1) : r.table[i] = {}
  BY <1>1
<1>3. InTable(r) = {}
  BY <1>2 DEF InTable
<1>4. r \in Tables
  BY <1>1, <1>2 DEF Tables
<1> QED BY <1>1, <1>2, <1>3, <1>4, FS_EmptySet DEF GoodTable

\* r is h with other entries: those of C.
Becoming(r, h, C) == GoodTable(r) /\ r.size = h.size /\ InTable(r) = C
\* Only bucket x is different: it has b.
OnlyAt(r, h, x, b) == \A i \in 0..(h.size - 1) : r.table[i] = IF i = x THEN b ELSE h.table[i]

\* One entry more.
LEMMA AddToIs ==
    ASSUME NEW h, GoodTable(h), h.size # 0, NEW e \in DictEntry, e \notin InTable(h),
           NEW r, r = AddTo(h, e)
    PROVE  /\ Becoming(r, h, InTable(h) \cup {e})
           /\ OnlyAt(r, h, Index(h, e.key), h.table[Index(h, e.key)] \cup {e})
<1> DEFINE x == Index(h, e.key)
<1>1. h \in Tables /\ h.table \in [0..(h.size - 1) -> SUBSET DictEntry] /\ h.size \in Nat
  BY DEF GoodTable, Tables
<1>2. x \in 0..(h.size - 1) /\ e.key \in DictKeys
  <2>1. e.key \in DictKeys
    BY DEF DictEntry
  <2> QED BY <1>1, <2>1, IndexIs
<1>3. /\ r.size = h.size /\ r.used = h.used + 1 /\ r.table = [h.table EXCEPT ![x] = @ \cup {e}]
      /\ r = [size |-> r.size, used |-> r.used, table |-> r.table]
  BY <1>1 DEF AddTo, Tables
<1> HIDE DEF x
<1>4. r.table \in [0..(h.size - 1) -> SUBSET DictEntry]
  BY <1>1, <1>2, <1>3
<1>5. \A i \in 0..(h.size - 1) : r.table[i] = IF i = x THEN h.table[i] \cup {e} ELSE h.table[i]
  BY <1>1, <1>3
<1>6. \A k : Index(r, k) = Index(h, k)
  BY <1>3 DEF Index
<1>7. \A i \in 0..(h.size - 1) : \A f \in r.table[i] : Index(r, f.key) = i
  BY ZenonT(30), <1>5, <1>6 DEF GoodTable, x
<1>8. InTable(r) = InTable(h) \cup {e}
  <2>1. DOMAIN r.table = 0..(h.size - 1) /\ DOMAIN h.table = 0..(h.size - 1)
    BY <1>1, <1>4
  <2>2. /\ \A f : f \in InTable(r) <=> (\E i \in 0..(h.size - 1) : f \in r.table[i])
        /\ \A f : f \in InTable(h) <=> (\E i \in 0..(h.size - 1) : f \in h.table[i])
    BY <2>1 DEF InTable
  <2>3. ASSUME NEW f \in InTable(r), f # e PROVE f \in InTable(h)
    BY <1>5, <2>2, <2>3
  <2>4. ASSUME NEW f \in InTable(h) PROVE f \in InTable(r)
    <3>1. PICK i \in 0..(h.size - 1) : f \in h.table[i]
      BY <2>2
    <3>2. f \in r.table[i]
      BY <1>5, <3>1
    <3> QED BY <2>2, <3>2
  <2>5. e \in InTable(r)
    BY <1>2, <1>5, <2>2
  <2> QED BY <2>3, <2>4, <2>5
<1>9. IsFiniteSet(InTable(r)) /\ r.used = Cardinality(InTable(r))
  <2>1. IsFiniteSet(InTable(h)) /\ h.used = Cardinality(InTable(h))
    BY DEF GoodTable
  <2> QED BY <1>3, <1>8, <2>1, FS_AddElement
<1>10. r \in Tables
  BY <1>1, <1>3, <1>4 DEF Tables
<1>11. OnlyAt(r, h, x, h.table[x] \cup {e})
  BY <1>5 DEF OnlyAt
<1> QED BY <1>3, <1>4, <1>7, <1>8, <1>9, <1>10, <1>11 DEF Becoming, GoodTable, x

\* One entry less.
LEMMA TakeFromIs ==
    ASSUME NEW h, GoodTable(h), NEW x \in 0..(h.size - 1), NEW e \in h.table[x],
           NEW r, r = TakeFrom(h, x, e)
    PROVE  /\ Becoming(r, h, InTable(h) \ {e})
           /\ OnlyAt(r, h, x, h.table[x] \ {e})
<1>1. h \in Tables /\ h.table \in [0..(h.size - 1) -> SUBSET DictEntry] /\ h.size \in Nat
  BY DEF GoodTable, Tables
<1>2. /\ r.size = h.size /\ r.used = h.used - 1 /\ r.table = [h.table EXCEPT ![x] = @ \ {e}]
      /\ r = [size |-> r.size, used |-> r.used, table |-> r.table]
  BY <1>1 DEF TakeFrom, Tables
<1>3. r.table \in [0..(h.size - 1) -> SUBSET DictEntry]
  BY <1>1, <1>2
<1>4. \A i \in 0..(h.size - 1) : r.table[i] = IF i = x THEN h.table[i] \ {e} ELSE h.table[i]
  BY <1>1, <1>2
<1>5. \A k : Index(r, k) = Index(h, k)
  BY <1>2 DEF Index
<1>6. \A i \in 0..(h.size - 1) : \A f \in r.table[i] : Index(r, f.key) = i
  BY <1>4, <1>5 DEF GoodTable
<1>7. \A i \in 0..(h.size - 1) : e \in h.table[i] => i = x
  BY DEF GoodTable
<1>8. InTable(r) = InTable(h) \ {e}
  <2>1. DOMAIN r.table = 0..(h.size - 1) /\ DOMAIN h.table = 0..(h.size - 1)
    BY <1>1, <1>3
  <2>2. /\ \A f : f \in InTable(r) <=> (\E i \in 0..(h.size - 1) : f \in r.table[i])
        /\ \A f : f \in InTable(h) <=> (\E i \in 0..(h.size - 1) : f \in h.table[i])
    BY <2>1 DEF InTable
  <2>3. ASSUME NEW f PROVE f \in InTable(r) <=> f \in InTable(h) /\ f # e
    <3>1. \A i \in 0..(h.size - 1) : f \in r.table[i] <=> f \in h.table[i] /\ f # e
      BY <1>4, <1>7
    <3> QED BY <2>2, <3>1
  <2> QED BY <2>3
<1>9. IsFiniteSet(InTable(r)) /\ r.used = Cardinality(InTable(r))
  <2>1. IsFiniteSet(InTable(h)) /\ h.used = Cardinality(InTable(h)) /\ e \in InTable(h)
    BY HeldIs DEF GoodTable
  <2> QED BY <1>2, <1>8, <2>1, FS_RemoveElement
<1>10. r \in Tables
  BY <1>1, <1>2, <1>3 DEF Tables
<1>11. OnlyAt(r, h, x, h.table[x] \ {e})
  BY <1>4 DEF OnlyAt
<1> QED BY <1>2, <1>3, <1>6, <1>8, <1>9, <1>10, <1>11 DEF Becoming, GoodTable

\* The table that loses a bucket, and the one that gets its entries.
Emptied(h, i) == [h EXCEPT !.table[i] = {}, !.used = @ - Cardinality(h.table[i])]
Merged(h, b) ==
    [h EXCEPT !.table = [j \in DOMAIN @ |-> @[j] \cup {e \in b : Index(h, e.key) = j}],
              !.used = @ + Cardinality(b)]

\* A bucket loses its entries, and no other does.
LEMMA EmptiedIs ==
    ASSUME NEW h, GoodTable(h), NEW x \in 0..(h.size - 1), NEW r, r = Emptied(h, x)
    PROVE  /\ Becoming(r, h, InTable(h) \ h.table[x])
           /\ OnlyAt(r, h, x, {})
<1> DEFINE b == h.table[x]
<1>1. h \in Tables /\ h.table \in [0..(h.size - 1) -> SUBSET DictEntry] /\ h.size \in Nat
  BY DEF GoodTable, Tables
<1>2. /\ r.size = h.size /\ r.used = h.used - Cardinality(b) /\ r.table = [h.table EXCEPT ![x] = {}]
      /\ r = [size |-> r.size, used |-> r.used, table |-> r.table]
  BY <1>1 DEF Emptied, Tables
<1> HIDE DEF b
<1>3. r.table \in [0..(h.size - 1) -> SUBSET DictEntry]
  BY <1>1, <1>2
<1>4. \A i \in 0..(h.size - 1) : r.table[i] = IF i = x THEN {} ELSE h.table[i]
  BY <1>1, <1>2
<1>5. \A k : Index(r, k) = Index(h, k)
  BY <1>2 DEF Index
<1>6. \A i \in 0..(h.size - 1) : \A f \in r.table[i] : Index(r, f.key) = i
  BY <1>4, <1>5 DEF GoodTable
<1>7. b \subseteq InTable(h) /\ \A i \in 0..(h.size - 1) : i # x => \A f \in h.table[i] : f \notin b
  BY HeldIs DEF GoodTable, b
<1>8. InTable(r) = InTable(h) \ b
  <2>1. DOMAIN r.table = 0..(h.size - 1) /\ DOMAIN h.table = 0..(h.size - 1)
    BY <1>1, <1>3
  <2>2. /\ \A f : f \in InTable(r) <=> (\E i \in 0..(h.size - 1) : f \in r.table[i])
        /\ \A f : f \in InTable(h) <=> (\E i \in 0..(h.size - 1) : f \in h.table[i])
    BY <2>1 DEF InTable
  <2>3. ASSUME NEW f \in InTable(r) PROVE f \in InTable(h) /\ f \notin b
    <3>1. PICK i \in 0..(h.size - 1) : f \in r.table[i]
      BY <2>2
    <3> QED BY <1>4, <1>7, <2>2, <3>1
  <2>4. ASSUME NEW f \in InTable(h), f \notin b PROVE f \in InTable(r)
    <3>1. PICK i \in 0..(h.size - 1) : f \in h.table[i]
      BY <2>2
    <3>2. f \in r.table[i]
      BY <1>4, <2>4, <3>1 DEF b
    <3> QED BY <2>2, <3>2
  <2> QED BY <2>3, <2>4
<1>9. IsFiniteSet(InTable(r)) /\ r.used = Cardinality(InTable(r))
  <2>1. IsFiniteSet(InTable(h)) /\ h.used = Cardinality(InTable(h))
    BY DEF GoodTable
  <2>2. IsFiniteSet(b) /\ IsFiniteSet(InTable(r))
    BY <1>7, <1>8, <2>1, FS_Subset
  <2>3. Cardinality(InTable(h) \ b) = Cardinality(InTable(h)) - Cardinality(InTable(h) \cap b)
    BY <2>1, FS_Difference
  <2>4. InTable(h) \cap b = b
    BY <1>7
  <2> QED BY <1>2, <1>8, <2>1, <2>2, <2>3, <2>4
<1>10. r \in Tables
  <2>1. r.used \in Int
    BY <1>9, FS_CardinalityType
  <2> QED BY <1>1, <1>2, <1>3, <2>1 DEF Tables
<1>11. OnlyAt(r, h, x, {})
  BY <1>4 DEF OnlyAt
<1> QED BY <1>2, <1>3, <1>6, <1>8, <1>9, <1>10, <1>11 DEF Becoming, GoodTable, b

\* A table gets entries it does not have, each in the bucket of its hash.
LEMMA MergedIs ==
    ASSUME NEW h, GoodTable(h), h.size # 0,
           NEW b \in SUBSET DictEntry, IsFiniteSet(b), InTable(h) \cap b = {}, NEW r, r = Merged(h, b)
    PROVE  Becoming(r, h, InTable(h) \cup b)
<1> DEFINE In(i) == {e \in b : Index(h, e.key) = i}
<1>1. h \in Tables /\ h.table \in [0..(h.size - 1) -> SUBSET DictEntry] /\ h.size \in Nat
  BY DEF GoodTable, Tables
<1>2. /\ r.size = h.size /\ r.used = h.used + Cardinality(b)
      /\ r.table = [i \in 0..(h.size - 1) |-> h.table[i] \cup In(i)]
      /\ r = [size |-> r.size, used |-> r.used, table |-> r.table]
  <2>1. DOMAIN h.table = 0..(h.size - 1)
    BY <1>1
  <2> QED BY <1>1, <2>1 DEF Merged, Tables
<1>3. \A i \in 0..(h.size - 1) : \A e : e \in r.table[i] <=> e \in h.table[i] \/ (e \in b /\ Index(h, e.key) = i)
  BY <1>2
<1>4. r.table \in [0..(h.size - 1) -> SUBSET DictEntry]
  BY <1>1, <1>2
<1> HIDE DEF In
<1>5. \A k : Index(r, k) = Index(h, k)
  BY <1>2 DEF Index
<1>6. \A i \in 0..(h.size - 1) : \A f \in r.table[i] : Index(r, f.key) = i
  BY <1>3, <1>5 DEF GoodTable
<1>7. \A e \in b : Index(h, e.key) \in 0..(h.size - 1)
  <2>1. \A e \in b : e.key \in DictKeys
    BY DEF DictEntry
  <2> QED BY <1>1, <2>1, IndexIs
<1>8. InTable(r) = InTable(h) \cup b
  <2>1. DOMAIN r.table = 0..(h.size - 1) /\ DOMAIN h.table = 0..(h.size - 1)
    BY <1>1, <1>4
  <2>2. /\ \A f : f \in InTable(r) <=> (\E i \in 0..(h.size - 1) : f \in r.table[i])
        /\ \A f : f \in InTable(h) <=> (\E i \in 0..(h.size - 1) : f \in h.table[i])
    BY <2>1 DEF InTable
  <2>3. ASSUME NEW f \in InTable(r) PROVE f \in InTable(h) \/ f \in b
    BY <1>3, <2>2
  <2>4. ASSUME NEW f \in InTable(h) PROVE f \in InTable(r)
    <3>1. PICK i \in 0..(h.size - 1) : f \in h.table[i]
      BY <2>2
    <3>2. f \in r.table[i]
      BY <1>3, <3>1
    <3> QED BY <2>2, <3>2
  <2>5. ASSUME NEW f \in b PROVE f \in InTable(r)
    <3>1. f \in r.table[Index(h, f.key)]
      BY <1>3, <1>7
    <3> QED BY <1>7, <2>2, <3>1
  <2> QED BY <2>3, <2>4, <2>5
<1>9. IsFiniteSet(InTable(r)) /\ r.used = Cardinality(InTable(r))
  <2>1. IsFiniteSet(InTable(h)) /\ h.used = Cardinality(InTable(h))
    BY DEF GoodTable
  <2>2. IsFiniteSet(InTable(h) \cup b)
        /\ Cardinality(InTable(h) \cup b) = Cardinality(InTable(h)) + Cardinality(b) - Cardinality(InTable(h) \cap b)
    BY <2>1, FS_Union
  <2>3. Cardinality(InTable(h) \cap b) = 0
    BY FS_EmptySet
  <2>4. Cardinality(InTable(h)) \in Nat /\ Cardinality(b) \in Nat
    BY <2>1, FS_CardinalityType
  <2> QED BY <1>2, <1>8, <2>1, <2>2, <2>3, <2>4
<1>10. r \in Tables
  <2>1. r.used \in Int
    BY <1>9, FS_CardinalityType
  <2> QED BY <1>1, <1>2, <1>4, <2>1 DEF Tables
<1> QED BY <1>2, <1>4, <1>6, <1>8, <1>9, <1>10 DEF Becoming, GoodTable
-----------------------------------------------------------------------------
(***************************************************************************)
(* The steps of a dictionary                                                *)
(***************************************************************************)
\* The sizes of tables: none is 0, and one is enough for any number of entries.
LEMMA SizesAre == \A j \in Nat : Sizes[j] \in Nat /\ Sizes[j] > j
<1> DEFINE G == [j \in Nat |-> [m \in Nat |-> 2 * m]]
           Doubling(f) == f = [j \in Nat |-> IF j = 0 THEN 4 ELSE 2 * f[j - 1]]
<1>1. G \in [Nat -> [Nat -> Nat]] /\ \A j, m \in Nat : G[j][m] = 2 * m
  OBVIOUS
<1> HIDE DEF G
<1>2. PICK g : Continues(g, Nat, 4, G)
  BY <1>1, FunctionExists
<1>3. /\ g \in [Nat -> Nat] /\ g[0] = 4 /\ \A j \in Nat : g[j + 1] = 2 * g[j]
  BY <1>1, <1>2 DEF Continues
<1>4. Doubling(g)
  <2> SUFFICES ASSUME NEW j \in Nat PROVE g[j] = IF j = 0 THEN 4 ELSE 2 * g[j - 1]
    BY <1>3
  <2>1. j # 0 => j - 1 \in Nat /\ (j - 1) + 1 = j
    OBVIOUS
  <2> QED BY <1>3, <2>1
<1>5. Doubling(Sizes)
  BY <1>4 DEF Sizes
<1>6. \A j \in Nat : Sizes[j] = IF j = 0 THEN 4 ELSE 2 * Sizes[j - 1]
  <2>1. PICK s, f : s = Sizes /\ f = [j \in Nat |-> IF j = 0 THEN 4 ELSE 2 * s[j - 1]]
    OBVIOUS
  <2>2. s = f
    BY <1>5, <2>1
  <2> QED BY <2>1, <2>2
<1>7. PICK s : s = Sizes
  OBVIOUS
<1> DEFINE S == {j \in Nat : s[j] \in Nat /\ s[j] > j}
<1>8. 0 \in S
  BY <1>6, <1>7
<1>9. ASSUME NEW j \in Nat, j \in S PROVE j + 1 \in S
  <2>1. s[j + 1] = 2 * s[j]
    <3>1. j + 1 \in Nat /\ j + 1 # 0 /\ (j + 1) - 1 = j
      OBVIOUS
    <3> QED BY <1>6, <1>7, <3>1
  <2> QED BY <1>9, <2>1
<1>10. Nat \subseteq S
  <2> HIDE DEF S
  <2> QED BY <1>8, <1>9, SetInduction
<1> QED BY <1>7, <1>10

\* dict_expand finds a size, and it is enough.
LEMMA SizeForIs == ASSUME NEW n \in Nat PROVE SizeFor(n) \in Nat /\ SizeFor(n) # 0 /\ SizeFor(n) >= n
<1> DEFINE T == {j \in Nat : Sizes[j] >= n}
           P(j) == Sizes[j] >= n /\ \A i \in 0..(j - 1) : Sizes[i] < n
<1>1. \A j \in Nat : Sizes[j] \in Nat /\ Sizes[j] > j
  BY SizesAre
<1>2. n \in T /\ T \in SUBSET Nat
  BY <1>1
<1>3. PICK j \in T : \A i \in T : j <= i
  <2> HIDE DEF T
  <2> QED BY <1>2, Lowest
<1>4. j \in 0..n /\ P(j)
  <2>1. j \in Nat /\ j <= n
    BY <1>2, <1>3
  <2>2. ASSUME NEW i \in 0..(j - 1) PROVE Sizes[i] < n
    <3>1. i \in Nat /\ i < j /\ Sizes[i] \in Nat
      BY <1>1, <2>1
    <3> QED BY <1>3, <3>1
  <2> QED BY <1>3, <2>1, <2>2
<1>5. PICK c : c = CHOOSE i \in 0..n : P(i)
  OBVIOUS
<1>6. c \in 0..n /\ P(c) /\ SizeFor(n) = Sizes[c]
  BY <1>4, <1>5 DEF SizeFor
<1>7. c \in Nat /\ Sizes[c] \in Nat /\ Sizes[c] > c
  BY <1>1, <1>6
<1> QED BY <1>6, <1>7

\* dict_expand changes no entry, and there are buckets afterwards.
LEMMA ExpandedIs ==
    ASSUME NEW d, Good(d), NEW n \in Nat, NEW r, r = Expanded(d, n)
    PROVE  Good(r) /\ InDict(r) = InDict(d) /\ r.ht[0].size # 0
<1>1. /\ d \in [ht : [{0, 1} -> Tables], rehashidx : Int]
      /\ GoodTable(d.ht[0]) /\ GoodTable(d.ht[1]) /\ d.ht[0].size \in Nat /\ d.ht[1].size \in Nat
      /\ d.rehashidx \in -1..d.ht[0].size /\ d.rehashidx # d.ht[0].size
      /\ d.ht[1].size # 0 <=> d.rehashidx # -1
  BY DEF Good, Passable, GoodTable, Tables
<1>2. CASE d.rehashidx # -1
  BY <1>1, <1>2 DEF Expanded
<1>3. CASE d.rehashidx = -1
  <2>1. PICK t : t = NewTable(SizeFor(n))
    OBVIOUS
  <2>2. SizeFor(n) \in Nat /\ SizeFor(n) # 0
    BY SizeForIs
  <2>3. GoodTable(t) /\ InTable(t) = {} /\ t.size # 0 /\ t.size \in Nat /\ t \in Tables
    BY <2>1, <2>2, NewIs DEF GoodTable
  <2>4. InTable(d.ht[1]) = {} /\ d.ht[1].size = 0
    BY <1>1, <1>3, HeldIs
  <2>5. CASE d.ht[0].size = 0
    <3>1. InTable(d.ht[0]) = {}
      BY <1>1, <2>5, HeldIs
    <3>2. r = [d EXCEPT !.ht[0] = t]
      BY <1>3, <2>1, <2>5 DEF Expanded
    <3>3. /\ r \in [ht : [{0, 1} -> Tables], rehashidx : Int]
          /\ r.ht[0] = t /\ r.ht[1] = d.ht[1] /\ r.rehashidx = -1
      BY <1>1, <1>3, <2>3, <3>2
    <3>4. InDict(r) = {} /\ InDict(d) = {}
      BY <2>3, <2>4, <3>1, <3>3 DEF InDict
    <3> QED BY <1>1, <2>3, <2>4, <3>3, <3>4 DEF Good, Passable
  <2>6. CASE d.ht[0].size # 0
    <3>1. r = [d EXCEPT !.ht[1] = t, !.rehashidx = 0]
      BY <1>3, <2>1, <2>6 DEF Expanded
    <3>2. /\ r \in [ht : [{0, 1} -> Tables], rehashidx : Int]
          /\ r.ht[0] = d.ht[0] /\ r.ht[1] = t /\ r.rehashidx = 0
      <4>1. PICK H : H = [d.ht EXCEPT ![1] = t]
        OBVIOUS
      <4>2. H \in [{0, 1} -> Tables] /\ H[0] = d.ht[0] /\ H[1] = t
        BY <1>1, <2>3, <4>1
      <4>3. r = [d EXCEPT !.ht = H, !.rehashidx = 0]
        BY <3>1, <4>1
      <4>4. r.ht = H /\ r.rehashidx = 0 /\ r = [ht |-> H, rehashidx |-> 0]
        BY <1>1, <4>3
      <4> QED BY <4>2, <4>4
    <3>3. InDict(r) = InDict(d)
      BY <2>3, <2>4, <3>2 DEF InDict
    <3>4. \A e, f \in InDict(d) : e.key = f.key => e = f
      BY DEF Good, Passable
    <3> QED BY <1>1, <2>3, <2>6, <3>2, <3>3, <3>4 DEF Good, Passable
  <2> QED BY <2>5, <2>6
<1> QED BY <1>2, <1>3

\* A bucket's entries are moved: all that were in buckets before it had been already.
LEMMA MovedIs ==
    ASSUME NEW d, Good(d), d.rehashidx # -1,
           NEW x \in 0..(d.ht[0].size - 1), d.rehashidx <= x,
           \A i \in d.rehashidx..(x - 1) : d.ht[0].table[i] = {},
           NEW r, r = Moved(d, x)
    PROVE  /\ Passable(r) /\ InDict(r) = InDict(d) /\ r.rehashidx = x + 1
           /\ r.ht[0].size = d.ht[0].size
<1>1. /\ d \in [ht : [{0, 1} -> Tables], rehashidx : Int]
      /\ GoodTable(d.ht[0]) /\ GoodTable(d.ht[1]) /\ d.ht[0].size \in Nat /\ d.ht[1].size \in Nat
      /\ d.rehashidx \in -1..d.ht[0].size /\ d.ht[1].size # 0
      /\ InTable(d.ht[0]) \cap InTable(d.ht[1]) = {}
      /\ \A i \in 0..(d.rehashidx - 1) : d.ht[0].table[i] = {}
      /\ \A e, f \in InDict(d) : e.key = f.key => e = f
  BY DEF Good, Passable, GoodTable, Tables
<1>2. PICK old, new, b, r0, r1 :
         /\ old = d.ht[0] /\ new = d.ht[1] /\ b = old.table[x]
         /\ r0 = Emptied(old, x) /\ r1 = Merged(new, b)
  OBVIOUS
<1>3. b \subseteq InTable(old) /\ b \in SUBSET DictEntry /\ IsFiniteSet(b)
  <2>1. b \subseteq InTable(old) /\ IsFiniteSet(InTable(old)) /\ \A e \in InTable(old) : e \in DictEntry
    BY <1>1, <1>2, HeldIs DEF GoodTable
  <2> QED BY <2>1, FS_Subset
<1>4. /\ Becoming(r0, old, InTable(old) \ b)
      /\ \A i \in 0..(old.size - 1) : r0.table[i] = IF i = x THEN {} ELSE old.table[i]
  <2>1. GoodTable(old) /\ x \in 0..(old.size - 1)
    BY <1>1, <1>2
  <2>2. r0 = Emptied(old, x)
    BY <1>2
  <2>3. Becoming(r0, old, InTable(old) \ old.table[x])
    BY <2>1, <2>2, EmptiedIs
  <2>4. OnlyAt(r0, old, x, {})
    BY <2>1, <2>2, EmptiedIs
  <2> QED BY <1>2, <2>3, <2>4 DEF OnlyAt
<1>5. Becoming(r1, new, InTable(new) \cup b)
  <2>1. InTable(new) \cap b = {}
    BY <1>1, <1>2, <1>3
  <2> QED BY <1>1, <1>2, <1>3, <2>1, MergedIs
<1>6. r = [ht |-> [t \in {0, 1} |-> IF t = 0 THEN r0 ELSE r1], rehashidx |-> x + 1]
  BY <1>2 DEF Moved, Emptied, Merged
<1>7. /\ GoodTable(r0) /\ r0.size = old.size /\ InTable(r0) = InTable(old) \ b
      /\ GoodTable(r1) /\ r1.size = new.size /\ InTable(r1) = InTable(new) \cup b
      /\ r0 \in Tables /\ r1 \in Tables
  BY <1>4, <1>5 DEF Becoming, GoodTable
<1>8. /\ r \in [ht : [{0, 1} -> Tables], rehashidx : Int]
      /\ r.ht[0] = r0 /\ r.ht[1] = r1 /\ r.rehashidx = x + 1
  BY <1>6, <1>7
<1>9. InDict(r) = InDict(d) /\ InTable(r0) \cap InTable(r1) = {}
  BY <1>1, <1>2, <1>3, <1>7, <1>8 DEF InDict
<1>10. ASSUME NEW i \in 0..x PROVE r0.table[i] = {}
  <2>1. i \in 0..(old.size - 1) /\ i \in Int /\ d.rehashidx \in Int
    BY <1>1, <1>2
  <2>2. CASE i = x
    BY <1>4, <2>1, <2>2
  <2>3. CASE i # x
    <3>1. i \in 0..(d.rehashidx - 1) \/ i \in d.rehashidx..(x - 1)
      BY <2>1, <2>3
    <3>2. old.table[i] = {}
      BY <1>1, <1>2, <3>1
    <3> QED BY <1>4, <2>1, <2>3, <3>2
  <2> QED BY <2>2, <2>3
<1>11. x + 1 \in -1..old.size /\ x + 1 # -1 /\ (x + 1) - 1 = x
  BY <1>1, <1>2
<1>12. Passable(r)
  BY <1>1, <1>2, <1>7, <1>8, <1>9, <1>10, <1>11 DEF Passable
<1> QED BY <1>2, <1>7, <1>8, <1>9, <1>12

\* The rehash ends when nothing is left in the old table.
LEMMA EndedIs ==
    ASSUME NEW d, Passable(d), d.rehashidx # -1, NEW r, r = Ended(d)
    PROVE  Good(r) /\ InDict(r) = InDict(d) /\ r.ht[0].size # 0
<1>1. /\ d \in [ht : [{0, 1} -> Tables], rehashidx : Int]
      /\ GoodTable(d.ht[0]) /\ GoodTable(d.ht[1]) /\ d.ht[0].size \in Nat /\ d.ht[1].size \in Nat
      /\ d.rehashidx \in -1..d.ht[0].size /\ d.ht[1].size # 0
      /\ \A i \in 0..(d.rehashidx - 1) : d.ht[0].table[i] = {}
      /\ \A e, f \in InDict(d) : e.key = f.key => e = f
  BY DEF Passable, GoodTable, Tables
<1>2. CASE d.ht[0].used # 0
  <2>1. r = d
    BY <1>2 DEF Ended
  <2>2. PICK e : e \in InTable(d.ht[0])
    BY <1>1, <1>2, HeldIs
  <2>3. PICK i : i \in 0..(d.ht[0].size - 1) /\ e \in d.ht[0].table[i]
    BY <1>1, <2>2, HeldIs
  <2>4. d.rehashidx # d.ht[0].size /\ d.ht[0].size # 0
    BY <1>1, <2>3
  <2> QED BY <2>1, <2>4 DEF Good
<1>3. CASE d.ht[0].used = 0
  <2>1. PICK t : t = NoTable
    OBVIOUS
  <2>2. GoodTable(t) /\ InTable(t) = {} /\ t.size = 0 /\ t \in Tables
    BY <2>1, NewIs DEF NoTable, GoodTable
  <2>3. r = [ht |-> [n \in {0, 1} |-> IF n = 0 THEN d.ht[1] ELSE t], rehashidx |-> -1]
    BY <1>3, <2>1 DEF Ended
  <2>4. /\ r \in [ht : [{0, 1} -> Tables], rehashidx : Int]
        /\ r.ht[0] = d.ht[1] /\ r.ht[1] = t /\ r.rehashidx = -1
    BY <1>1, <2>2, <2>3
  <2>5. InTable(d.ht[0]) = {}
    BY <1>1, <1>3, HeldIs
  <2>6. InDict(r) = InDict(d) /\ InTable(r.ht[0]) \cap InTable(r.ht[1]) = {}
    BY <2>2, <2>4, <2>5 DEF InDict
  <2> QED BY <1>1, <2>2, <2>4, <2>6 DEF Good, Passable
<1> QED BY <1>2, <1>3

\* A step of the rehash changes no entry, and there are buckets if there were.
LEMMA SteppedIs ==
    ASSUME NEW d, Good(d), NEW r, r = Stepped(d)
    PROVE  Good(r) /\ InDict(r) = InDict(d) /\ (d.ht[0].size # 0 => r.ht[0].size # 0)
<1>1. /\ d \in [ht : [{0, 1} -> Tables], rehashidx : Int]
      /\ GoodTable(d.ht[0]) /\ d.ht[0].size \in Nat
      /\ d.rehashidx \in -1..d.ht[0].size /\ d.rehashidx \in Int
      /\ \A i \in 0..(d.rehashidx - 1) : d.ht[0].table[i] = {}
      /\ Passable(d)
  BY DEF Good, Passable, GoodTable, Tables
<1>2. CASE d.rehashidx = -1
  BY <1>2 DEF Stepped
<1>3. CASE d.rehashidx # -1 /\ (d.ht[0].used = 0 \/ Ahead(d) = {})
  <2>1. d.ht[0].used = 0
    <3>1. ASSUME Ahead(d) = {} PROVE InTable(d.ht[0]) = {}
      <4> SUFFICES ASSUME NEW e \in InTable(d.ht[0]) PROVE FALSE
        OBVIOUS
      <4>1. PICK i : i \in 0..(d.ht[0].size - 1) /\ e \in d.ht[0].table[i]
        BY <1>1, HeldIs
      <4>2. i \in d.rehashidx..(d.ht[0].size - 1)
        BY <1>1, <4>1
      <4> QED BY <3>1, <4>1, <4>2 DEF Ahead
    <3> QED BY <1>1, <1>3, <3>1, HeldIs
  <2>2. [d EXCEPT !.ht[0].used = 0] = d
    <3>1. [d.ht[0] EXCEPT !.used = 0] = d.ht[0]
      <4>1. d.ht[0] \in Tables
        BY <1>1
      <4> QED BY <2>1, <4>1 DEF Tables
    <3>2. [d.ht EXCEPT ![0] = [d.ht[0] EXCEPT !.used = 0]] = d.ht
      BY <1>1, <3>1
    <3>3. [d EXCEPT !.ht = [d.ht EXCEPT ![0] = [d.ht[0] EXCEPT !.used = 0]]] = d
      BY <1>1, <3>2
    <3> QED BY <3>3
  <2>3. r = Ended(d)
    BY <1>3, <2>2 DEF Stepped
  <2> QED BY <1>1, <1>3, <2>3, EndedIs
<1>4. CASE d.rehashidx # -1 /\ ~ (d.ht[0].used = 0 \/ Ahead(d) = {})
  <2>1. Ahead(d) \in SUBSET Nat /\ Ahead(d) # {}
    BY <1>1, <1>4 DEF Ahead
  <2>2. \E i \in Ahead(d) : \A j \in Ahead(d) : i <= j
    BY <2>1, Lowest
  <2>3. PICK x : x = CHOOSE i \in Ahead(d) : \A j \in Ahead(d) : i <= j
    OBVIOUS
  <2>4. x \in Ahead(d) /\ \A j \in Ahead(d) : x <= j
    BY <2>2, <2>3
  <2>5. x \in 0..(d.ht[0].size - 1) /\ d.rehashidx <= x
    BY <1>1, <1>4, <2>4 DEF Ahead
  <2>6. ASSUME NEW i \in d.rehashidx..(x - 1) PROVE d.ht[0].table[i] = {}
    <3>1. i \in d.rehashidx..(d.ht[0].size - 1) /\ ~ (x <= i)
      BY <1>1, <2>5
    <3> QED BY <2>4, <3>1 DEF Ahead
  <2>7. PICK m : m = Moved(d, x)
    OBVIOUS
  <2>8. Passable(m) /\ InDict(m) = InDict(d) /\ m.rehashidx = x + 1
    BY <1>4, <2>5, <2>6, <2>7, MovedIs
  <2>9. m.rehashidx # -1
    BY <2>5, <2>8
  <2>10. r = Ended(m)
    BY <1>4, <2>3, <2>7 DEF Stepped
  <2> QED BY <2>8, <2>9, <2>10, EndedIs
<1> QED BY <1>2, <1>3, <1>4

\* What is Good of a dictionary, table by table.
LEMMA GoodParts ==
    ASSUME NEW d, Good(d)
    PROVE  /\ d \in [ht : [{0, 1} -> Tables], rehashidx : Int]
           /\ \A t \in {0, 1} : GoodTable(d.ht[t]) /\ d.ht[t].size \in Nat
           /\ \A e, f \in InDict(d) : e.key = f.key => e = f
           /\ InTable(d.ht[0]) \cap InTable(d.ht[1]) = {}
           /\ \A i \in 0..(d.rehashidx - 1) : d.ht[0].table[i] = {}
           /\ d.ht[1].size # 0 <=> d.rehashidx # -1
           /\ d.rehashidx # -1 => d.ht[0].size # 0
<1>1. /\ GoodTable(d.ht[0]) /\ GoodTable(d.ht[1])
      /\ d \in [ht : [{0, 1} -> Tables], rehashidx : Int]
      /\ d.rehashidx \in -1..d.ht[0].size /\ d.rehashidx # d.ht[0].size
  BY DEF Good, Passable
<1>2. d.ht[0].size \in Nat /\ d.ht[1].size \in Nat
  BY <1>1 DEF GoodTable, Tables
<1>3. d.rehashidx # -1 => d.ht[0].size # 0
  BY <1>1, <1>2
<1> QED BY <1>1, <1>2, <1>3 DEF Good, Passable

\* h can take the place of table t, with the entries of C.
Fits(d, t, h, C) ==
    /\ Becoming(h, d.ht[t], C)
    /\ C \cap InTable(d.ht[1 - t]) = {}
    /\ \A e, f \in C \cup InTable(d.ht[1 - t]) : e.key = f.key => e = f
    /\ t = 0 => \A i \in 0..(d.rehashidx - 1) : h.table[i] = {}

\* d with h as its table t.
WithTable(d, t, h) == [d EXCEPT !.ht[t] = h]

\* One of the tables gets another content.
LEMMA TableSet ==
    ASSUME NEW d, Good(d), NEW t \in {0, 1}, NEW h, NEW C, Fits(d, t, h, C),
           NEW r, r = WithTable(d, t, h)
    PROVE  Good(r) /\ InDict(r) = C \cup InTable(d.ht[1 - t]) /\ r.ht[0].size = d.ht[0].size
<1>1. /\ d \in [ht : [{0, 1} -> Tables], rehashidx : Int]
      /\ GoodTable(d.ht[0]) /\ GoodTable(d.ht[1])
      /\ \A i \in 0..(d.rehashidx - 1) : d.ht[0].table[i] = {}
      /\ d.ht[1].size # 0 <=> d.rehashidx # -1
      /\ d.rehashidx \in -1..d.ht[0].size /\ d.rehashidx # d.ht[0].size
  BY DEF Good, Passable
<1>2. GoodTable(h) /\ h.size = d.ht[t].size /\ InTable(h) = C /\ h \in Tables
  BY DEF Becoming, GoodTable, Fits
<1>3. /\ r \in [ht : [{0, 1} -> Tables], rehashidx : Int]
      /\ r.ht[t] = h /\ r.ht[1 - t] = d.ht[1 - t] /\ r.rehashidx = d.rehashidx
  <2>1. PICK H : H = [d.ht EXCEPT ![t] = h]
    OBVIOUS
  <2>2. H \in [{0, 1} -> Tables] /\ H[t] = h /\ H[1 - t] = d.ht[1 - t]
    BY <1>1, <1>2, <2>1
  <2>3. r = [d EXCEPT !.ht = H]
    BY <2>1 DEF WithTable
  <2>4. r = [ht |-> H, rehashidx |-> d.rehashidx]
    BY <1>1, <2>3
  <2> QED BY <1>1, <2>2, <2>4
<1>4. CASE t = 0
  <2>1. r.ht[0] = h /\ r.ht[1] = d.ht[1] /\ h.size = d.ht[0].size
    BY <1>2, <1>3, <1>4
  <2>2. InDict(r) = C \cup InTable(d.ht[1 - t])
    BY <1>2, <1>4, <2>1 DEF InDict
  <2> QED BY <1>1, <1>2, <1>3, <1>4, <2>1, <2>2 DEF Good, Passable, Fits
<1>5. CASE t = 1
  <2>1. r.ht[1] = h /\ r.ht[0] = d.ht[0] /\ h.size = d.ht[1].size
    BY <1>2, <1>3, <1>5
  <2>2. InDict(r) = C \cup InTable(d.ht[1 - t])
    BY <1>2, <1>5, <2>1 DEF InDict
  <2> QED BY <1>1, <1>2, <1>3, <1>5, <2>1, <2>2 DEF Good, Passable, Fits
<1> QED BY <1>4, <1>5

\* d with f for e in bucket x of table t.
Exchanged(d, t, x, e, f) == WithTable(d, t, AddTo(TakeFrom(d.ht[t], x, e), f))

\* An entry is replaced by one of the same key, as dict_put and dict_set_expiry do.
LEMMA ReplacedIn ==
    ASSUME NEW d, Good(d), NEW t \in {0, 1}, NEW x \in 0..(d.ht[t].size - 1),
           NEW e \in d.ht[t].table[x], NEW f \in DictEntry, f.key = e.key,
           NEW r, r = Exchanged(d, t, x, e, f)
    PROVE  Good(r) /\ InDict(r) = (InDict(d) \ {e}) \cup {f} /\ r.ht[0].size = d.ht[0].size
<1>1. /\ GoodTable(d.ht[t]) /\ d.ht[t].size \in Nat
      /\ \A e1, e2 \in InDict(d) : e1.key = e2.key => e1 = e2
      /\ InTable(d.ht[0]) \cap InTable(d.ht[1]) = {}
      /\ \A i \in 0..(d.rehashidx - 1) : d.ht[0].table[i] = {}
      /\ d.rehashidx \in -1..d.ht[0].size
  BY GoodParts DEF Good, Passable
<1>2. PICK h, h1, h2, o : /\ h = d.ht[t] /\ h1 = TakeFrom(h, x, e) /\ h2 = AddTo(h1, f)
                          /\ o = InTable(d.ht[1 - t])
  OBVIOUS
<1>3. e \in InTable(h) /\ Index(h, e.key) = x /\ h.size # 0
  <2>1. e \in InTable(h)
    BY <1>1, <1>2, HeldIs
  <2>2. Index(h, e.key) = x
    BY <1>1, <1>2 DEF GoodTable
  <2> QED BY <1>1, <1>2, <2>1, <2>2
<1>4. InDict(d) = InTable(h) \cup o /\ InTable(h) \cap o = {}
  BY <1>1, <1>2 DEF InDict
<1>5. Becoming(h1, h, InTable(h) \ {e}) /\ OnlyAt(h1, h, x, h.table[x] \ {e})
  <2>1. GoodTable(h) /\ x \in 0..(h.size - 1) /\ e \in h.table[x]
    BY <1>1, <1>2
  <2> QED BY <1>2, <2>1, TakeFromIs
<1>6. /\ GoodTable(h1) /\ h1.size = h.size /\ InTable(h1) = InTable(h) \ {e}
      /\ Index(h1, f.key) = x
  BY <1>3, <1>5 DEF Becoming, Index
<1>7. f \notin InTable(h1) /\ f \notin o
  BY <1>1, <1>3, <1>4, <1>6
<1>8. /\ Becoming(h2, h1, InTable(h1) \cup {f})
      /\ OnlyAt(h2, h1, Index(h1, f.key), h1.table[Index(h1, f.key)] \cup {f})
  BY <1>2, <1>3, <1>6, <1>7, AddToIs
<1> DEFINE C == (InTable(h) \ {e}) \cup {f}
<1>9. Becoming(h2, h, C)
  BY <1>6, <1>8 DEF Becoming
<1>10. C \cap o = {}
  BY <1>4, <1>7
<1>11. \A e1, e2 \in C \cup o : e1.key = e2.key => e1 = e2
  BY <1>1, <1>3, <1>4
<1>12. ASSUME t = 0, NEW i \in 0..(d.rehashidx - 1) PROVE h2.table[i] = {}
  <2>1. i \in 0..(h.size - 1) /\ h.table[i] = {} /\ i # x
    BY <1>1, <1>2, <1>12
  <2>2. h1.table[i] = {}
    BY <1>5, <2>1 DEF OnlyAt
  <2>3. i \in 0..(h1.size - 1) /\ i # Index(h1, f.key)
    BY <1>6, <2>1
  <2> QED BY <1>8, <2>2, <2>3 DEF OnlyAt
<1>13. r = WithTable(d, t, h2)
  BY <1>2 DEF Exchanged
<1>14. PICK S : S = C
  OBVIOUS
<1>15. S \cup o = (InDict(d) \ {e}) \cup {f}
  BY <1>3, <1>4, <1>14
<1> HIDE DEF C
<1>16. Fits(d, t, h2, S)
  BY <1>2, <1>9, <1>10, <1>11, <1>12, <1>14 DEF Fits
<1>17. Good(r) /\ InDict(r) = S \cup o /\ r.ht[0].size = d.ht[0].size
  BY <1>2, <1>13, <1>16, TableSet
<1> QED BY <1>15, <1>17

\* An entry is deleted.
LEMMA TakenFrom ==
    ASSUME NEW d, Good(d), NEW t \in {0, 1}, NEW x \in 0..(d.ht[t].size - 1),
           NEW e \in d.ht[t].table[x],
           NEW r, r = WithTable(d, t, TakeFrom(d.ht[t], x, e))
    PROVE  Good(r) /\ InDict(r) = InDict(d) \ {e} /\ r.ht[0].size = d.ht[0].size
<1>1. /\ GoodTable(d.ht[t]) /\ d.ht[t].size \in Nat
      /\ \A e1, e2 \in InDict(d) : e1.key = e2.key => e1 = e2
      /\ InTable(d.ht[0]) \cap InTable(d.ht[1]) = {}
      /\ \A i \in 0..(d.rehashidx - 1) : d.ht[0].table[i] = {}
      /\ d.rehashidx \in -1..d.ht[0].size
  BY GoodParts DEF Good, Passable
<1>2. PICK h, h1, o : h = d.ht[t] /\ h1 = TakeFrom(h, x, e) /\ o = InTable(d.ht[1 - t])
  OBVIOUS
<1>3. e \in InTable(h)
  BY <1>1, <1>2, HeldIs
<1>4. InDict(d) = InTable(h) \cup o /\ InTable(h) \cap o = {}
  BY <1>1, <1>2 DEF InDict
<1> DEFINE C == InTable(h) \ {e}
<1>5. Becoming(h1, h, C) /\ OnlyAt(h1, h, x, h.table[x] \ {e})
  <2>1. GoodTable(h) /\ x \in 0..(h.size - 1) /\ e \in h.table[x]
    BY <1>1, <1>2
  <2> QED BY <1>2, <2>1, TakeFromIs
<1>6. C \cap o = {} /\ \A e1, e2 \in C \cup o : e1.key = e2.key => e1 = e2
  BY <1>1, <1>4
<1>7. ASSUME t = 0, NEW i \in 0..(d.rehashidx - 1) PROVE h1.table[i] = {}
  <2>1. i \in 0..(h.size - 1) /\ h.table[i] = {} /\ i # x
    BY <1>1, <1>2, <1>7
  <2> QED BY <1>5, <2>1 DEF OnlyAt
<1>8. r = WithTable(d, t, h1)
  BY <1>2
<1>9. PICK S : S = C
  OBVIOUS
<1>10. S \cup o = InDict(d) \ {e}
  BY <1>3, <1>4, <1>9
<1> HIDE DEF C
<1>11. Fits(d, t, h1, S)
  BY <1>2, <1>5, <1>6, <1>7, <1>9 DEF Fits
<1>12. Good(r) /\ InDict(r) = S \cup o /\ r.ht[0].size = d.ht[0].size
  BY <1>2, <1>8, <1>11, TableSet
<1> QED BY <1>10, <1>12
-----------------------------------------------------------------------------
(***************************************************************************)
(* Lookups                                                                  *)
(***************************************************************************)
\* The entries of key k in table n.
Matches(d, k, n) ==
    {<<n, Index(d.ht[n], k), e>> : e \in {e \in d.ht[n].table[Index(d.ht[n], k)] : e.key = k}}

\* F are places in d that hold entries of k, and there are none only if k has none.
Leads(d, k, F) ==
    /\ F = {} => \A e \in InDict(d) : e.key # k
    /\ \A x \in F : /\ x[1] \in {0, 1} /\ x[2] \in 0..(d.ht[x[1]].size - 1)
                    /\ x[3] \in d.ht[x[1]].table[x[2]] /\ x[3].key = k

\* A key is looked for in one bucket of a table that has buckets.
LEMMA MatchesAre ==
    ASSUME NEW d, NEW n \in {0, 1}, GoodTable(d.ht[n]), d.ht[n].size # 0,
           NEW k \in DictKeys
    PROVE  /\ Matches(d, k, n) = {} => \A e \in InTable(d.ht[n]) : e.key # k
           /\ \A x \in Matches(d, k, n) : /\ x[1] = n /\ x[2] \in 0..(d.ht[n].size - 1)
                                          /\ x[3] \in d.ht[n].table[x[2]] /\ x[3].key = k
<1>1. PICK h, i : h = d.ht[n] /\ i = Index(h, k)
  OBVIOUS
<1>2. h.size \in Nat /\ GoodTable(h) /\ h.size # 0
  BY <1>1 DEF GoodTable, Tables
<1>3. i \in 0..(h.size - 1)
  BY <1>1, <1>2, IndexIs
<1>4. \A x : x \in Matches(d, k, n) <=> (\E e \in h.table[i] : e.key = k /\ x = <<n, i, e>>)
  BY <1>1 DEF Matches
<1>5. ASSUME NEW e \in InTable(h), e.key = k PROVE <<n, i, e>> \in Matches(d, k, n)
  <2>1. e \in h.table[i]
    BY <1>1, <1>2, <1>5, HeldIs
  <2> QED BY <1>4, <1>5, <2>1
<1>6. ASSUME NEW x \in Matches(d, k, n)
      PROVE  x[1] = n /\ x[2] = i /\ x[3] \in h.table[i] /\ x[3].key = k
  <2>1. PICK e \in h.table[i] : e.key = k /\ x = <<n, i, e>>
    BY <1>4
  <2> QED BY <2>1
<1> QED BY <1>1, <1>3, <1>5, <1>6

\* What a lookup finds: an entry of the key, if there is one.
LEMMA FoundInIs ==
    ASSUME NEW d, Good(d), NEW k \in DictKeys, NEW F, F = FoundIn(d, k)
    PROVE  Leads(d, k, F)
<1>1. /\ \A t \in {0, 1} : GoodTable(d.ht[t]) /\ d.ht[t].size \in Nat
      /\ d.ht[1].size # 0 <=> d.rehashidx # -1
      /\ d.rehashidx # -1 => d.ht[0].size # 0
  BY GoodParts
<1>2. \A t \in {0, 1} : /\ d.ht[t].used \in Nat
                        /\ d.ht[t].used = 0 <=> InTable(d.ht[t]) = {}
                        /\ d.ht[t].size = 0 => InTable(d.ht[t]) = {}
  BY <1>1, HeldIs
<1>3. CASE Used(d) = 0
  <2>1. d.ht[0].used = 0 /\ d.ht[1].used = 0
    BY <1>2, <1>3 DEF Used
  <2>2. F = {} /\ InDict(d) = {}
    BY <1>2, <1>3, <2>1 DEF FoundIn, InDict
  <2> QED BY <2>2 DEF Leads
<1>4. CASE Used(d) # 0
  <2>1. d.ht[0].size # 0
    BY <1>1, <1>2, <1>4 DEF Used
  <2>2. F = IF Matches(d, k, 0) # {} THEN Matches(d, k, 0)
            ELSE UNION {Matches(d, k, n) : n \in Searched(d) \ {0}}
    BY <1>4 DEF FoundIn, Matches
  <2>3. /\ Matches(d, k, 0) = {} => \A e \in InTable(d.ht[0]) : e.key # k
        /\ \A x \in Matches(d, k, 0) : /\ x[1] = 0 /\ x[2] \in 0..(d.ht[0].size - 1)
                                       /\ x[3] \in d.ht[0].table[x[2]] /\ x[3].key = k
    BY <1>1, <2>1, MatchesAre
  <2>4. CASE Matches(d, k, 0) # {}
    BY <2>2, <2>3, <2>4 DEF Leads
  <2>5. CASE Matches(d, k, 0) = {} /\ d.rehashidx = -1
    <3>1. F = {} /\ InTable(d.ht[1]) = {}
      BY <1>1, <1>2, <2>2, <2>5 DEF Searched
    <3> QED BY <2>3, <2>5, <3>1 DEF Leads, InDict
  <2>6. CASE Matches(d, k, 0) = {} /\ d.rehashidx # -1
    <3>1. F = Matches(d, k, 1)
      <4>1. Searched(d) \ {0} = {1}
        BY <2>6 DEF Searched
      <4> QED BY <2>2, <2>6, <4>1
    <3>2. /\ Matches(d, k, 1) = {} => \A e \in InTable(d.ht[1]) : e.key # k
          /\ \A x \in Matches(d, k, 1) : /\ x[1] = 1 /\ x[2] \in 0..(d.ht[1].size - 1)
                                         /\ x[3] \in d.ht[1].table[x[2]] /\ x[3].key = k
      BY <1>1, <2>6, MatchesAre
    <3> QED BY <2>3, <2>6, <3>1, <3>2 DEF Leads, InDict
  <2> QED BY <2>4, <2>5, <2>6
<1> QED BY <1>3, <1>4

\* The entry a call goes on with.
LEMMA NodeIs ==
    ASSUME NEW d, Good(d), NEW k \in DictKeys, FoundIn(d, k) # {},
           NEW x, x = Node(d, k)
    PROVE  /\ x[1] \in {0, 1} /\ x[2] \in 0..(d.ht[x[1]].size - 1)
           /\ x[3] \in d.ht[x[1]].table[x[2]] /\ x[3].key = k
           /\ x[3] \in DictEntry /\ x[3] \in InDict(d)
           /\ \A e \in InDict(d) : e.key = k => e = x[3]
<1>1. PICK F : F = FoundIn(d, k)
  OBVIOUS
<1>2. x \in F
  BY <1>1 DEF Node
<1>3. Leads(d, k, F)
  BY <1>1, FoundInIs
<1>4. /\ x[1] \in {0, 1} /\ x[2] \in 0..(d.ht[x[1]].size - 1)
      /\ x[3] \in d.ht[x[1]].table[x[2]] /\ x[3].key = k
  BY <1>2, <1>3 DEF Leads
<1>5. PICK h : h = d.ht[x[1]]
  OBVIOUS
<1>6. GoodTable(h) /\ x[2] \in 0..(h.size - 1) /\ x[3] \in h.table[x[2]]
  BY <1>4, <1>5, GoodParts
<1>7. x[3] \in InTable(h) /\ x[3] \in DictEntry
  BY <1>6, HeldIs
<1>8. x[3] \in InDict(d)
  BY <1>4, <1>5, <1>7 DEF InDict
<1>9. \A e, f \in InDict(d) : e.key = f.key => e = f
  BY GoodParts
<1> QED BY <1>4, <1>7, <1>8, <1>9
-----------------------------------------------------------------------------
(***************************************************************************)
(* The calls' effects on a dictionary                                       *)
(***************************************************************************)
\* r is a good dictionary with the entries of C, and with buckets if d has them.
Leaves(d, r, C) == Good(r) /\ InDict(r) = C /\ (d.ht[0].size # 0 => r.ht[0].size # 0)

\* A lookup may take a step of the rehash.
LEMMA LookedUpIs ==
    ASSUME NEW d, Good(d), NEW r, r = LookedUp(d)
    PROVE  Leaves(d, r, InDict(d))
<1>1. CASE r = d
  BY <1>1 DEF Leaves
<1>2. CASE r = Stepped(d)
  BY <1>2, SteppedIs DEF Leaves
<1> QED BY <1>1, <1>2 DEF LookedUp

\* The entry of a key is replaced.
LEMMA ReplacedIs ==
    ASSUME NEW d, Good(d), NEW k \in DictKeys, FoundIn(d, k) # {},
           NEW e \in DictEntry, e.key = k, NEW r, r = Replaced(d, k, e)
    PROVE  Leaves(d, r, {f \in InDict(d) : f.key # k} \cup {e})
<1>1. PICK x, t, i, g : x = Node(d, k) /\ t = x[1] /\ i = x[2] /\ g = x[3]
  OBVIOUS
<1>2. /\ t \in {0, 1} /\ i \in 0..(d.ht[t].size - 1) /\ g \in d.ht[t].table[i] /\ g.key = k
      /\ g \in InDict(d) /\ \A f \in InDict(d) : f.key = k => f = g
  BY <1>1, NodeIs
<1>3. r = Exchanged(d, t, i, g, e)
  <2>1. r = [d EXCEPT !.ht[t] = AddTo(TakeFrom(@, i, g), e)]
    BY <1>1 DEF Replaced
  <2>2. d.ht \in [{0, 1} -> Tables] /\ d \in [ht : [{0, 1} -> Tables], rehashidx : Int]
    BY GoodParts
  <2> QED BY <1>2, <2>1, <2>2 DEF WithTable, Exchanged
<1>4. Good(r) /\ InDict(r) = (InDict(d) \ {g}) \cup {e} /\ r.ht[0].size = d.ht[0].size
  BY <1>2, <1>3, ReplacedIn
<1>5. InDict(d) \ {g} = {f \in InDict(d) : f.key # k}
  BY <1>2
<1> QED BY <1>4, <1>5 DEF Leaves

\* The entry of a new key is added, to the new table if there is one.
LEMMA AddedIs ==
    ASSUME NEW d, Good(d), d.ht[0].size # 0, NEW e \in DictEntry,
           \A f \in InDict(d) : f.key # e.key,
           NEW t, t = IF d.rehashidx = -1 THEN 0 ELSE 1,
           NEW r, r = WithTable(d, t, AddTo(d.ht[t], e))
    PROVE  Leaves(d, r, InDict(d) \cup {e})
<1>1. /\ \A u \in {0, 1} : GoodTable(d.ht[u])
      /\ \A f, g \in InDict(d) : f.key = g.key => f = g
      /\ InTable(d.ht[0]) \cap InTable(d.ht[1]) = {}
      /\ d.ht[1].size # 0 <=> d.rehashidx # -1
  BY GoodParts
<1>2. t \in {0, 1} /\ d.ht[t].size # 0 /\ (t = 0 => d.rehashidx = -1)
  BY <1>1
<1>3. PICK h, h1, o, C : /\ h = d.ht[t] /\ h1 = AddTo(h, e) /\ o = InTable(d.ht[1 - t])
                         /\ C = InTable(h) \cup {e}
  OBVIOUS
<1>4. InDict(d) = InTable(h) \cup o /\ InTable(h) \cap o = {} /\ e \notin InDict(d)
  BY <1>1, <1>2, <1>3 DEF InDict
<1>5. Becoming(h1, h, C)
  <2>1. GoodTable(h) /\ h.size # 0 /\ e \notin InTable(h)
    BY <1>1, <1>2, <1>3, <1>4
  <2> QED BY <1>3, <2>1, AddToIs
<1>6. C \cap o = {} /\ \A f, g \in C \cup o : f.key = g.key => f = g
  BY <1>1, <1>3, <1>4
<1>7. t = 0 => \A i \in 0..(d.rehashidx - 1) : h1.table[i] = {}
  BY <1>2
<1>8. Fits(d, t, h1, C)
  BY <1>3, <1>5, <1>6, <1>7 DEF Fits
<1>9. r = WithTable(d, t, h1)
  BY <1>3
<1>10. Good(r) /\ InDict(r) = C \cup o /\ r.ht[0].size = d.ht[0].size
  BY <1>2, <1>3, <1>8, <1>9, TableSet
<1> QED BY <1>3, <1>4, <1>10 DEF Leaves

\* dict_delete leaves no entry of the key and all the others.
LEMMA DeletedIs ==
    ASSUME NEW d, Good(d), NEW k \in DictKeys, NEW r, r = Deleted(d, k)
    PROVE  Leaves(d, r, {f \in InDict(d) : f.key # k})
<1>1. PICK s, F : s = LookedUp(d) /\ F = FoundIn(s, k)
  OBVIOUS
<1>2. Leaves(d, s, InDict(d))
  BY <1>1, LookedUpIs
<1>3. Good(s) /\ InDict(s) = InDict(d)
  BY <1>2 DEF Leaves
<1>4. CASE F = {}
  <2>1. r = s
    BY <1>1, <1>4 DEF Deleted
  <2>2. Leads(s, k, F)
    BY <1>1, <1>3, FoundInIs
  <2>3. \A e \in InDict(s) : e.key # k
    BY <1>4, <2>2 DEF Leads
  <2>4. {f \in InDict(d) : f.key # k} = InDict(d)
    BY <1>3, <2>3
  <2> QED BY <1>2, <2>1, <2>4
<1>5. CASE F # {}
  <2>1. PICK x, t, i, g : x = Node(s, k) /\ t = x[1] /\ i = x[2] /\ g = x[3]
    OBVIOUS
  <2>2. /\ t \in {0, 1} /\ i \in 0..(s.ht[t].size - 1) /\ g \in s.ht[t].table[i] /\ g.key = k
        /\ g \in InDict(s) /\ \A f \in InDict(s) : f.key = k => f = g
    BY <1>1, <1>3, <1>5, <2>1, NodeIs
  <2>3. r = WithTable(s, t, TakeFrom(s.ht[t], i, g))
    <3>1. r = [s EXCEPT !.ht[t] = TakeFrom(@, i, g)]
      BY <1>1, <1>5, <2>1 DEF Deleted
    <3>2. s.ht \in [{0, 1} -> Tables] /\ s \in [ht : [{0, 1} -> Tables], rehashidx : Int]
      BY <1>3, GoodParts
    <3> QED BY <2>2, <3>1, <3>2 DEF WithTable
  <2>4. Good(r) /\ InDict(r) = InDict(s) \ {g} /\ r.ht[0].size = s.ht[0].size
    BY <1>3, <2>2, <2>3, TakenFrom
  <2>5. InDict(s) \ {g} = {f \in InDict(d) : f.key # k}
    BY <1>3, <2>2
  <2> QED BY <1>2, <2>4, <2>5 DEF Leaves
<1> QED BY <1>4, <1>5

\* h without the entries of gone.
Rid(h, gone) ==
    [h EXCEPT !.table = [i \in DOMAIN @ |-> @[i] \ gone], !.used = @ - Cardinality(gone)]

\* Only entries of the table are dropped, and they are counted.
LEMMA WithoutIs ==
    ASSUME NEW h, GoodTable(h), NEW gone \in SUBSET InTable(h), NEW r, r = Rid(h, gone)
    PROVE  /\ Becoming(r, h, InTable(h) \ gone)
           /\ \A i \in 0..(h.size - 1) : h.table[i] = {} => r.table[i] = {}
<1>1. h \in Tables /\ h.table \in [0..(h.size - 1) -> SUBSET DictEntry] /\ h.size \in Nat
  BY DEF GoodTable, Tables
<1>2. /\ r.size = h.size /\ r.used = h.used - Cardinality(gone)
      /\ r.table = [i \in 0..(h.size - 1) |-> h.table[i] \ gone]
      /\ r = [size |-> r.size, used |-> r.used, table |-> r.table]
  <2>1. DOMAIN h.table = 0..(h.size - 1)
    BY <1>1
  <2> QED BY <1>1, <2>1 DEF Rid, Tables
<1>3. \A i \in 0..(h.size - 1) : r.table[i] = h.table[i] \ gone
  BY <1>2
<1>4. r.table \in [0..(h.size - 1) -> SUBSET DictEntry]
  BY <1>1, <1>2
<1>5. \A k : Index(r, k) = Index(h, k)
  BY <1>2 DEF Index
<1>6. \A i \in 0..(h.size - 1) : \A f \in r.table[i] : Index(r, f.key) = i
  BY <1>3, <1>5 DEF GoodTable
<1>7. InTable(r) = InTable(h) \ gone
  <2>1. DOMAIN r.table = 0..(h.size - 1) /\ DOMAIN h.table = 0..(h.size - 1)
    BY <1>1, <1>4
  <2>2. /\ \A f : f \in InTable(r) <=> (\E i \in 0..(h.size - 1) : f \in r.table[i])
        /\ \A f : f \in InTable(h) <=> (\E i \in 0..(h.size - 1) : f \in h.table[i])
    BY <2>1 DEF InTable
  <2>3. ASSUME NEW f PROVE f \in InTable(r) <=> f \in InTable(h) /\ f \notin gone
    BY <1>3, <2>2
  <2> QED BY <2>3
<1>8. IsFiniteSet(InTable(r)) /\ r.used = Cardinality(InTable(r))
  <2>1. IsFiniteSet(InTable(h)) /\ h.used = Cardinality(InTable(h))
    BY DEF GoodTable
  <2>2. IsFiniteSet(InTable(r))
    BY <1>7, <2>1, FS_Subset
  <2>3. Cardinality(InTable(h) \ gone) = Cardinality(InTable(h)) - Cardinality(InTable(h) \cap gone)
    BY <2>1, FS_Difference
  <2>4. InTable(h) \cap gone = gone
    OBVIOUS
  <2> QED BY <1>2, <1>7, <2>1, <2>2, <2>3, <2>4
<1>9. r \in Tables
  <2>1. r.used \in Int
    BY <1>8, FS_CardinalityType
  <2> QED BY <1>1, <1>2, <1>4, <2>1 DEF Tables
<1> QED BY <1>2, <1>3, <1>4, <1>6, <1>7, <1>8, <1>9 DEF Becoming, GoodTable

\* d without the entries of gone, which are in table t.
Thinned(d, t, gone) ==
    [d EXCEPT !.ht[t].table = [i \in DOMAIN @ |-> @[i] \ gone],
              !.ht[t].used = @ - Cardinality(gone)]

\* Entries of one table are dropped, as dict_active_expire does.
LEMMA DroppedIs ==
    ASSUME NEW d, Good(d), NEW t \in {0, 1}, NEW gone \in SUBSET InTable(d.ht[t]),
           NEW r, r = Thinned(d, t, gone)
    PROVE  Leaves(d, r, InDict(d) \ gone)
<1>1. /\ d \in [ht : [{0, 1} -> Tables], rehashidx : Int]
      /\ GoodTable(d.ht[t])
      /\ \A f, g \in InDict(d) : f.key = g.key => f = g
      /\ InTable(d.ht[0]) \cap InTable(d.ht[1]) = {}
      /\ \A i \in 0..(d.rehashidx - 1) : d.ht[0].table[i] = {}
      /\ d.rehashidx \in -1..d.ht[0].size /\ d.ht[0].size \in Nat
  BY GoodParts DEF Good, Passable
<1>2. PICK h, h1, o, C : /\ h = d.ht[t] /\ h1 = Rid(h, gone) /\ o = InTable(d.ht[1 - t])
                         /\ C = InTable(h) \ gone
  OBVIOUS
<1>3. InDict(d) = InTable(h) \cup o /\ InTable(h) \cap o = {}
  BY <1>1, <1>2 DEF InDict
<1>4. Becoming(h1, h, C) /\ \A i \in 0..(h.size - 1) : h.table[i] = {} => h1.table[i] = {}
  <2>1. GoodTable(h) /\ gone \in SUBSET InTable(h)
    BY <1>1, <1>2
  <2> QED BY <1>2, <2>1, WithoutIs
<1>5. C \cap o = {} /\ \A f, g \in C \cup o : f.key = g.key => f = g
  BY <1>1, <1>2, <1>3
<1>6. t = 0 => \A i \in 0..(d.rehashidx - 1) : h1.table[i] = {}
  <2> SUFFICES ASSUME t = 0, NEW i \in 0..(d.rehashidx - 1) PROVE h1.table[i] = {}
    OBVIOUS
  <2>1. i \in 0..(h.size - 1) /\ h.table[i] = {}
    BY <1>1, <1>2
  <2> QED BY <1>4, <2>1
<1>7. Fits(d, t, h1, C)
  BY <1>2, <1>4, <1>5, <1>6 DEF Fits
<1>8. r = WithTable(d, t, h1)
  <2>1. PICK T : T = [i \in DOMAIN h.table |-> h.table[i] \ gone]
    OBVIOUS
  <2>2. PICK g, H, e : g = [h EXCEPT !.table = T] /\ H = [d.ht EXCEPT ![t] = g] /\ e = [d EXCEPT !.ht = H]
    OBVIOUS
  <2>3. r = [e EXCEPT !.ht[t].used = @ - Cardinality(gone)]
    BY <1>1, <1>2, <2>1, <2>2 DEF Thinned
  <2>4. H[t] = g /\ e.ht = H /\ e.rehashidx = d.rehashidx
    BY <1>1, <1>2, <2>2
  <2>5. h1 = [g EXCEPT !.used = @ - Cardinality(gone)]
    BY <1>2, <2>1, <2>2 DEF Rid
  <2>6. r = [e EXCEPT !.ht = [H EXCEPT ![t] = h1]]
    BY <2>3, <2>4, <2>5
  <2>7. [H EXCEPT ![t] = h1] = [d.ht EXCEPT ![t] = h1]
    BY <1>1, <2>2
  <2> QED BY <1>1, <2>2, <2>6, <2>7 DEF WithTable
<1>9. Good(r) /\ InDict(r) = C \cup o /\ r.ht[0].size = d.ht[0].size
  BY <1>2, <1>7, <1>8, TableSet
<1>10. C \cup o = InDict(d) \ gone
  BY <1>2, <1>3
<1> QED BY <1>9, <1>10 DEF Leaves
-----------------------------------------------------------------------------
(***************************************************************************)
(* The invariant                                                            *)
(***************************************************************************)
Results == Vals \cup Expiry \cup {"set", None}
DictInv == Good(theDict) /\ ret \in Results

\* What the variables are after a call.
LEMMA AssignedIs ==
    ASSUME NEW d, Good(d), Assigned(d), ret' \in Results
    PROVE  theDict' = d /\ DictInv'
<1>1. d \in [ht : [{0, 1} -> Tables], rehashidx : Int]
  BY GoodParts
<1>2. theDict' = d
  BY <1>1 DEF Assigned, theDict
<1>3. Good(theDict)'
  BY <1>2
<1> QED BY <1>2, <1>3 DEF DictInv, Results

\* The map the tables stand for.
LEMMA MapIs == Entries(0) \cup Entries(1) = InDict(theDict)
BY DEF Entries, InDict, InTable, theDict

\* dict_init makes a good dictionary.
LEMMA DictInitIs == ASSUME DictInit PROVE DictInv /\ InDict(theDict) = {}
<1>1. PICK n : n = NoTable
  OBVIOUS
<1>2. GoodTable(n) /\ InTable(n) = {} /\ n.size = 0 /\ n \in Tables
  BY <1>1, NewIs DEF NoTable, GoodTable
<1>3. PICK d : d = [ht |-> [t \in {0, 1} |-> n], rehashidx |-> -1]
  OBVIOUS
<1>4. d.ht[0] = n /\ d.ht[1] = n /\ d.rehashidx = -1 /\ d \in [ht : [{0, 1} -> Tables], rehashidx : Int]
  BY <1>2, <1>3
<1>5. Good(d) /\ InDict(d) = {}
  BY <1>2, <1>4 DEF Good, Passable, InDict
<1>6. theDict = d
  BY <1>1, <1>3 DEF DictInit, theDict
<1>7. ret \in Results
  BY DEF DictInit, Results
<1> QED BY <1>5, <1>6, <1>7 DEF DictInv

\* The same after a call.
LEMMA MapBecomes ==
    ASSUME NEW d, Good(d), Assigned(d), ret' \in Results
    PROVE  DictInv' /\ Entries(0)' \cup Entries(1)' = InDict(d)
<1>1. theDict' = d /\ DictInv'
  BY AssignedIs
<1>2. Entries(0)' \cup Entries(1)' = InDict(theDict')
  BY DEF Entries, InDict, InTable, theDict
<1> QED BY <1>1, <1>2
-----------------------------------------------------------------------------
(***************************************************************************)
(* One lemma for each call                                                  *)
(***************************************************************************)
\* dict_put keeps the tables good and sets the key, whatever it does to the rehash.
LEMMA PutIs ==
    ASSUME DictInv, NEW k \in DictKeys, NEW v \in Vals, NEW x \in Expiry, Put(k, v, x)
    PROVE  DictInv' /\ Promised!Put(k, v, x)
<1>1. PICK d0, first, grown, s, d, new, target, r :
        /\ d0 = theDict
        /\ first = IF ht[0].size = 0 THEN Expanded(theDict, 4) ELSE theDict
        /\ grown = IF first.rehashidx = -1 /\ first.ht[0].used >= first.ht[0].size
                   THEN Expanded(first, 2 * first.ht[0].used) ELSE first
        /\ s = Stepped(grown) /\ d = LookedUp(s)
        /\ new = [key |-> k, val |-> v, expire |-> x]
        /\ target = IF d.rehashidx = -1 THEN 0 ELSE 1
        /\ r = IF FoundIn(d, k) = {} THEN [d EXCEPT !.ht[target] = AddTo(@, new)]
               ELSE Replaced(d, k, new)
  OBVIOUS
<1>2. Assigned(r) /\ ret' = None
  BY <1>1 DEF Put
<1>3. Good(d0) /\ d0.ht[0].size = ht[0].size
  BY <1>1 DEF DictInv, theDict
<1>4. Good(first) /\ InDict(first) = InDict(d0) /\ first.ht[0].size # 0
  BY <1>1, <1>3, ExpandedIs
<1>5. Good(grown) /\ InDict(grown) = InDict(d0) /\ grown.ht[0].size # 0
  <2>1. first.ht[0].used \in Nat
    BY <1>4, GoodParts, HeldIs
  <2>2. PICK n \in Nat : n = 2 * first.ht[0].used
    BY <2>1
  <2>3. grown = first \/ grown = Expanded(first, n)
    BY <1>1, <2>2
  <2> QED BY <1>4, <2>3, ExpandedIs
<1>6. Good(s) /\ InDict(s) = InDict(d0) /\ s.ht[0].size # 0
  BY <1>1, <1>5, SteppedIs
<1>7. Good(d) /\ InDict(d) = InDict(d0) /\ d.ht[0].size # 0
  <2>1. Leaves(s, d, InDict(s))
    BY <1>1, <1>6, LookedUpIs
  <2> QED BY <1>6, <2>1 DEF Leaves
<1>8. new \in DictEntry /\ new.key = k
  BY <1>1 DEF DictEntry
<1>9. Good(r) /\ InDict(r) = {f \in InDict(d0) : f.key # k} \cup {new}
  <2>1. CASE FoundIn(d, k) = {}
    <3>1. \A f \in InDict(d) : f.key # k
      <4>1. PICK F : F = FoundIn(d, k)
        OBVIOUS
      <4>2. Leads(d, k, F)
        BY <1>7, <4>1, FoundInIs
      <4> QED BY <2>1, <4>1, <4>2 DEF Leads
    <3>2. r = WithTable(d, target, AddTo(d.ht[target], new))
      <4>1. d \in [ht : [{0, 1} -> Tables], rehashidx : Int] /\ target \in {0, 1}
        BY <1>1, <1>7, GoodParts
      <4>2. r = [d EXCEPT !.ht[target] = AddTo(@, new)]
        BY <1>1, <2>1
      <4> QED BY <4>1, <4>2 DEF WithTable
    <3>3. Leaves(d, r, InDict(d) \cup {new})
      BY ZenonT(30), <1>1, <1>7, <1>8, <3>1, <3>2, AddedIs
    <3>4. {f \in InDict(d) : f.key # k} = InDict(d)
      BY <3>1
    <3> QED BY <1>7, <3>3, <3>4 DEF Leaves
  <2>2. CASE FoundIn(d, k) # {}
    <3>1. r = Replaced(d, k, new)
      BY <1>1, <2>2
    <3>2. Leaves(d, r, {f \in InDict(d) : f.key # k} \cup {new})
      BY <1>7, <1>8, <2>2, <3>1, ReplacedIs
    <3> QED BY <1>7, <3>2 DEF Leaves
  <2> QED BY <2>1, <2>2
<1>10. DictInv' /\ Entries(0)' \cup Entries(1)' = InDict(r)
  <2>1. ret' \in Results
    BY <1>2 DEF Results
  <2> QED BY <1>2, <1>9, <2>1, MapBecomes
<1>11. Entries(0) \cup Entries(1) = InDict(d0)
  BY <1>1, MapIs
<1>12. {f \in InDict(d0) : f.key # k} = InDict(d0) \ {f \in InDict(d0) : f.key = k}
  OBVIOUS
<1> QED BY <1>1, <1>2, <1>9, <1>10, <1>11, <1>12 DEF Promised!Put, Promised!Of

\* dict_get and dict_get_expiry return what is stored and not past its deadline, and
\* drop what is.
LEMMA ReadIs ==
    ASSUME DictInv, NEW k \in DictKeys, NEW field, NEW missing \in Results,
           (field = "val") \/ (field = "expire"), Read(k, field, missing)
    PROVE  DictInv' /\ Promised!Read(k, field, missing)
<1>1. PICK d0, d, F, g, r : /\ d0 = theDict /\ d = LookedUp(theDict) /\ F = FoundIn(d, k)
                            /\ g = Node(d, k)[3] /\ r = Deleted(d, k)
  OBVIOUS
<1>2. Good(d) /\ InDict(d) = InDict(d0)
  <2>1. Good(d0) /\ d = LookedUp(d0)
    BY <1>1 DEF DictInv
  <2>2. Leaves(d0, d, InDict(d0))
    BY <2>1, LookedUpIs
  <2> QED BY <2>2 DEF Leaves
<1>3. Entries(0) \cup Entries(1) = InDict(d0)
  BY <1>1, MapIs
<1>4. PICK A : A = {e \in InDict(d0) : e.key = k}
  OBVIOUS
<1>5. CASE F = {}
  <2>1. Assigned(d) /\ ret' = missing
    BY <1>1, <1>5 DEF Read
  <2>2. Leads(d, k, F)
    BY <1>1, <1>2, FoundInIs
  <2>3. A = {}
    BY <1>2, <1>4, <1>5, <2>2 DEF Leads
  <2>4. DictInv' /\ Entries(0)' \cup Entries(1)' = InDict(d0)
    BY <1>2, <2>1, MapBecomes
  <2> QED BY <1>3, <1>4, <2>1, <2>3, <2>4 DEF Promised!Read, Promised!Of, Promised!Past
<1>6. CASE F # {}
  <2>1. g \in DictEntry /\ g \in InDict(d0) /\ g.key = k /\ \A e \in InDict(d0) : e.key = k => e = g
    BY <1>1, <1>2, <1>6, NodeIs
  <2>2. A = {g}
    BY <1>4, <2>1
  <2>3. CASE g.expire = "past"
    <3>1. Assigned(r) /\ ret' = missing
      BY <1>1, <1>6, <2>3 DEF Read
    <3>2. Leaves(d, r, {f \in InDict(d) : f.key # k})
      BY <1>1, <1>2, DeletedIs
    <3>3. Good(r) /\ InDict(r) = {f \in InDict(d0) : f.key # k}
      BY <1>2, <3>2 DEF Leaves
    <3>4. DictInv' /\ Entries(0)' \cup Entries(1)' = InDict(r)
      BY <3>1, <3>3, MapBecomes
    <3>5. {f \in InDict(d0) : f.key # k} = InDict(d0) \ (A \cap {e \in InDict(d0) : e.expire = "past"})
      BY <1>4, <2>1, <2>3
    <3>6. A \subseteq {e \in InDict(d0) : e.expire = "past"}
      BY <2>1, <2>2, <2>3
    <3> QED BY <1>3, <1>4, <3>1, <3>3, <3>4, <3>5, <3>6 DEF Promised!Read, Promised!Of, Promised!Past
  <2>4. CASE g.expire # "past"
    <3>1. Assigned(d) /\ ret' = g[field]
      BY <1>1, <1>6, <2>4 DEF Read
    <3>2. ret' \in Results
      BY <2>1, <2>4, <3>1 DEF DictEntry, Results
    <3>3. DictInv' /\ Entries(0)' \cup Entries(1)' = InDict(d0)
      BY <1>2, <3>1, <3>2, MapBecomes
    <3>4. InDict(d0) = InDict(d0) \ (A \cap {e \in InDict(d0) : e.expire = "past"})
      BY <2>2, <2>4
    <3>5. ~ (A \subseteq {e \in InDict(d0) : e.expire = "past"}) /\ g \in A
      BY <2>2, <2>4
    <3> QED BY <1>3, <1>4, <3>1, <3>3, <3>4, <3>5 DEF Promised!Read, Promised!Of, Promised!Past
  <2> QED BY <2>3, <2>4
<1> QED BY <1>5, <1>6

\* dict_set_expiry changes the deadline of the entry, if there is one.
LEMMA SetExpiryIs ==
    ASSUME DictInv, NEW k \in DictKeys, NEW x \in Expiry, SetExpiry(k, x)
    PROVE  DictInv' /\ Promised!SetExpiry(k, x)
<1>1. PICK d0, d, F, g, f, r : /\ d0 = theDict /\ d = LookedUp(theDict) /\ F = FoundIn(d, k)
                               /\ g = Node(d, k)[3] /\ f = [g EXCEPT !.expire = x]
                               /\ r = Replaced(d, k, f)
  OBVIOUS
<1>2. Good(d) /\ InDict(d) = InDict(d0)
  <2>1. Good(d0) /\ d = LookedUp(d0)
    BY <1>1 DEF DictInv
  <2>2. Leaves(d0, d, InDict(d0))
    BY <2>1, LookedUpIs
  <2> QED BY <2>2 DEF Leaves
<1>3. Entries(0) \cup Entries(1) = InDict(d0)
  BY <1>1, MapIs
<1>4. PICK A : A = {e \in InDict(d0) : e.key = k}
  OBVIOUS
<1>5. CASE F = {}
  <2>1. Assigned(d) /\ ret' = None
    BY <1>1, <1>5 DEF SetExpiry
  <2>2. Leads(d, k, F)
    BY <1>1, <1>2, FoundInIs
  <2>3. A = {}
    BY <1>2, <1>4, <1>5, <2>2 DEF Leads
  <2>4. ret' \in Results
    BY <2>1 DEF Results
  <2>5. DictInv' /\ Entries(0)' \cup Entries(1)' = InDict(d0)
    BY <1>2, <2>1, <2>4, MapBecomes
  <2> QED BY <1>3, <1>4, <2>1, <2>3, <2>5 DEF Promised!SetExpiry, Promised!Of
<1>6. CASE F # {}
  <2>1. g \in DictEntry /\ g \in InDict(d0) /\ g.key = k /\ \A e \in InDict(d0) : e.key = k => e = g
    BY <1>1, <1>2, <1>6, NodeIs
  <2>2. A = {g}
    BY <1>4, <2>1
  <2>3. f \in DictEntry /\ f.key = k
    BY <1>1, <2>1 DEF DictEntry
  <2>4. Assigned(r) /\ ret' = "set"
    BY <1>1, <1>6 DEF SetExpiry
  <2>5. Leaves(d, r, {e \in InDict(d) : e.key # k} \cup {f})
    BY <1>1, <1>2, <1>6, <2>3, ReplacedIs
  <2>6. Good(r) /\ InDict(r) = {e \in InDict(d0) : e.key # k} \cup {f}
    BY <1>2, <2>5 DEF Leaves
  <2>7. ret' \in Results
    BY <2>4 DEF Results
  <2>8. DictInv' /\ Entries(0)' \cup Entries(1)' = InDict(r)
    BY <2>4, <2>6, <2>7, MapBecomes
  <2>9. {e \in InDict(d0) : e.key # k} = InDict(d0) \ A
    BY <1>4
  <2>10. {[e EXCEPT !.expire = x] : e \in A} = {f}
    BY <1>1, <2>2
  <2> QED BY <1>3, <1>4, <2>2, <2>4, <2>6, <2>8, <2>9, <2>10 DEF Promised!SetExpiry, Promised!Of
<1> QED BY <1>5, <1>6

\* dict_delete removes the key.
LEMMA DeleteIs ==
    ASSUME DictInv, NEW k \in DictKeys, Delete(k)
    PROVE  DictInv' /\ Promised!Delete(k)
<1>1. PICK d0, r : d0 = theDict /\ r = Deleted(d0, k)
  OBVIOUS
<1>2. Assigned(r) /\ ret' = None /\ Good(d0)
  BY <1>1 DEF Delete, DictInv
<1>3. Leaves(d0, r, {f \in InDict(d0) : f.key # k})
  BY <1>1, <1>2, DeletedIs
<1>4. Good(r) /\ InDict(r) = {f \in InDict(d0) : f.key # k}
  BY <1>3 DEF Leaves
<1>5. ret' \in Results
  BY <1>2 DEF Results
<1>6. DictInv' /\ Entries(0)' \cup Entries(1)' = InDict(r)
  BY <1>2, <1>4, <1>5, MapBecomes
<1>7. Entries(0) \cup Entries(1) = InDict(d0)
  BY <1>1, MapIs
<1>8. {f \in InDict(d0) : f.key # k} = InDict(d0) \ {f \in InDict(d0) : f.key = k}
  OBVIOUS
<1> QED BY <1>2, <1>4, <1>6, <1>7, <1>8 DEF Promised!Delete, Promised!Of

\* dict_clear leaves nothing.
LEMMA ClearIs == ASSUME DictInv, Clear PROVE DictInv' /\ Promised!Clear
<1>1. PICK n : n = NoTable
  OBVIOUS
<1>2. GoodTable(n) /\ InTable(n) = {} /\ n.size = 0 /\ n \in Tables
  BY <1>1, NewIs DEF NoTable, GoodTable
<1>3. PICK d : d = [ht |-> [t \in {0, 1} |-> n], rehashidx |-> -1]
  OBVIOUS
<1>4. d.ht[0] = n /\ d.ht[1] = n /\ d.rehashidx = -1 /\ d \in [ht : [{0, 1} -> Tables], rehashidx : Int]
  BY <1>2, <1>3
<1>5. Good(d) /\ InDict(d) = {}
  BY <1>2, <1>4 DEF Good, Passable, InDict
<1>6. Assigned(d) /\ ret' = None
  BY <1>1, <1>3 DEF Clear
<1>7. ret' \in Results
  BY <1>6 DEF Results
<1>8. DictInv' /\ Entries(0)' \cup Entries(1)' = {}
  BY <1>5, <1>6, <1>7, MapBecomes
<1> QED BY <1>6, <1>8 DEF Promised!Clear

\* dict_active_expire drops nothing but entries past their deadline.
LEMMA ActiveExpireIs ==
    ASSUME DictInv, ActiveExpire
    PROVE  DictInv' /\ Promised!ActiveExpire
<1> DEFINE now == Stepped(theDict)
<1>1. PICK t \in IF now.rehashidx = -1 THEN {0} ELSE {0, 1} :
        \E I \in SUBSET {i \in DOMAIN now.ht[t].table : Past(now.ht[t], i) # {}} :
            Assigned(Thinned(now, t, UNION {Past(now.ht[t], i) : i \in I}))
  BY DEF ActiveExpire, Thinned
<1>2. PICK I \in SUBSET {i \in DOMAIN now.ht[t].table : Past(now.ht[t], i) # {}} :
        Assigned(Thinned(now, t, UNION {Past(now.ht[t], i) : i \in I}))
  BY <1>1
<1>3. PICK gone : gone = UNION {Past(now.ht[t], i) : i \in I}
  OBVIOUS
<1>4. ret' = None /\ t \in {0, 1} /\ I \subseteq DOMAIN now.ht[t].table
  BY DEF ActiveExpire
<1>5. \A e \in gone : \E i \in DOMAIN now.ht[t].table : e \in Past(now.ht[t], i)
  BY <1>3, <1>4
<1>6. PICK d0, d, r : d0 = theDict /\ d = now /\ r = Thinned(now, t, gone)
  OBVIOUS
<1>7. d = Stepped(d0) /\ Good(d0)
  BY <1>6 DEF DictInv
<1>8. Assigned(r)
  BY <1>2, <1>3, <1>6
<1> HIDE DEF now
<1>9. r = Thinned(d, t, gone) /\ \A e \in gone : \E i \in DOMAIN d.ht[t].table : e \in Past(d.ht[t], i)
  BY <1>5, <1>6
<1>10. Good(d) /\ InDict(d) = InDict(d0)
  BY <1>7, SteppedIs
<1>11. gone \in SUBSET InTable(d.ht[t]) /\ gone \subseteq {e \in InDict(d) : e.expire = "past"}
  <2> SUFFICES ASSUME NEW e \in gone PROVE e \in InTable(d.ht[t]) /\ e.expire = "past" /\ e \in InDict(d)
    OBVIOUS
  <2>1. PICK i \in DOMAIN d.ht[t].table : e \in Past(d.ht[t], i)
    BY <1>9
  <2>2. e \in d.ht[t].table[i] /\ e.expire = "past"
    BY <2>1 DEF Past
  <2>3. e \in InTable(d.ht[t])
    BY <2>2 DEF InTable
  <2> QED BY <1>4, <2>2, <2>3 DEF InDict
<1>12. Leaves(d, r, InDict(d) \ gone)
  BY <1>4, <1>9, <1>10, <1>11, DroppedIs
<1>13. Good(r) /\ InDict(r) = InDict(d0) \ gone
  BY <1>10, <1>12 DEF Leaves
<1>14. ret' \in Results
  BY <1>4 DEF Results
<1>15. DictInv' /\ Entries(0)' \cup Entries(1)' = InDict(r)
  BY <1>8, <1>13, <1>14, MapBecomes
<1>16. Entries(0) \cup Entries(1) = InDict(d0)
  BY <1>6, MapIs
<1>17. InDict(r) \subseteq InDict(d0) /\ InDict(d0) \ InDict(r) \subseteq {e \in InDict(d0) : e.expire = "past"}
  BY <1>10, <1>11, <1>13
<1> QED BY <1>4, <1>15, <1>16, <1>17 DEF Promised!ActiveExpire, Promised!Past

\* A deadline passes: the entry stays where it is.
LEMMA LapseIs ==
    ASSUME DictInv, NEW k \in DictKeys, Lapse(k)
    PROVE  DictInv' /\ Promised!Lapse(k)
<1>1. PICK d0 : d0 = theDict
  OBVIOUS
<1>2. Good(d0) /\ d0.ht = ht /\ d0.rehashidx = rehashidx
  BY <1>1 DEF DictInv, theDict
<1>3. PICK t, i, e :
        /\ t \in {0, 1} /\ i \in DOMAIN d0.ht[t].table /\ e \in d0.ht[t].table[i]
        /\ e.key = k /\ e.expire = "later"
        /\ ht' = [d0.ht EXCEPT ![t].table[i] = (@ \ {e}) \cup {[e EXCEPT !.expire = "past"]}]
        /\ rehashidx' = d0.rehashidx /\ ret' = ret
  BY <1>2 DEF Lapse
<1>4. PICK f, h, h1, h2 : /\ f = [e EXCEPT !.expire = "past"] /\ h = d0.ht[t]
                          /\ h1 = TakeFrom(h, i, e) /\ h2 = AddTo(h1, f)
  OBVIOUS
<1>5. /\ d0 \in [ht : [{0, 1} -> Tables], rehashidx : Int]
      /\ GoodTable(h) /\ h \in Tables /\ h.table \in [0..(h.size - 1) -> SUBSET DictEntry]
      /\ \A e1, e2 \in InDict(d0) : e1.key = e2.key => e1 = e2
  <2>1. t \in {0, 1}
    BY <1>3
  <2> QED BY <1>2, <1>4, <2>1, GoodParts DEF GoodTable
<1>6. i \in 0..(h.size - 1) /\ e \in h.table[i] /\ Index(h, e.key) = i /\ e \in DictEntry /\ e \in InDict(d0)
  <2>1. i \in 0..(h.size - 1) /\ e \in h.table[i]
    BY <1>3, <1>4, <1>5
  <2>2. e \in InTable(h) /\ Index(h, e.key) = i
    BY <1>5, <2>1, HeldIs DEF GoodTable
  <2>3. e \in DictEntry /\ e \in InDict(d0)
    BY <1>3, <1>4, <1>5, <2>1, <2>2 DEF InDict
  <2> QED BY <2>1, <2>2, <2>3
<1>7. f \in DictEntry /\ f.key = e.key
  BY <1>4, <1>6 DEF DictEntry
<1>8. h2 = [h EXCEPT !.table[i] = (@ \ {e}) \cup {f}]
  <2>1. /\ h1.size = h.size /\ h1.used = h.used - 1 /\ h1.table = [h.table EXCEPT ![i] = @ \ {e}]
        /\ h1 = [size |-> h1.size, used |-> h1.used, table |-> h1.table]
    BY <1>4, <1>5 DEF TakeFrom, Tables
  <2>2. Index(h1, f.key) = i
    BY <1>6, <1>7, <2>1 DEF Index
  <2>3. /\ h2.size = h.size /\ h2.used = h1.used + 1 /\ h2.table = [h1.table EXCEPT ![i] = @ \cup {f}]
        /\ h2 = [size |-> h2.size, used |-> h2.used, table |-> h2.table]
    BY <1>4, <2>1, <2>2 DEF AddTo
  <2>4. h2.table = [h.table EXCEPT ![i] = (@ \ {e}) \cup {f}]
    BY <1>5, <1>6, <2>1, <2>3
  <2>5. h2.used = h.used
    BY <1>5, <2>1, <2>3 DEF Tables
  <2> QED BY <1>5, <2>3, <2>4, <2>5 DEF Tables
<1>9. PICK r : r = Exchanged(d0, t, i, e, f)
  OBVIOUS
<1>10. Assigned(r)
  <2>1. r.ht = [d0.ht EXCEPT ![t] = h2] /\ r.rehashidx = d0.rehashidx
    BY <1>4, <1>5, <1>9 DEF WithTable, Exchanged
  <2>2. ht' = [d0.ht EXCEPT ![t] = [h EXCEPT !.table[i] = (@ \ {e}) \cup {f}]]
    BY <1>3, <1>4, <1>5
  <2> QED BY <1>3, <1>8, <2>1, <2>2 DEF Assigned
<1>11. Good(r) /\ InDict(r) = (InDict(d0) \ {e}) \cup {f}
  <2>1. i \in 0..(d0.ht[t].size - 1) /\ e \in d0.ht[t].table[i]
    BY <1>4, <1>6
  <2>2. t \in {0, 1} /\ Good(d0)
    BY <1>2, <1>3
  <2>3. Good(r) /\ InDict(r) = (InDict(d0) \ {e}) \cup {f} /\ r.ht[0].size = d0.ht[0].size
    BY <1>7, <1>9, <2>1, <2>2, ReplacedIn
  <2> QED BY <2>3
<1>12. ret' \in Results
  BY <1>3 DEF DictInv
<1>13. DictInv' /\ Entries(0)' \cup Entries(1)' = InDict(r)
  BY <1>10, <1>11, <1>12, MapBecomes
<1>14. Entries(0) \cup Entries(1) = InDict(d0)
  BY <1>1, MapIs
<1> QED BY <1>3, <1>4, <1>6, <1>11, <1>13, <1>14 DEF Promised!Lapse, Promised!Of
-----------------------------------------------------------------------------
(***************************************************************************)
(* The theorems                                                             *)
(***************************************************************************)
\* Every step keeps the invariant, and is a step of the map of dict.h.
LEMMA DictNextIs == ASSUME DictInv, DictNext PROVE DictInv' /\ Promised!Next
<1>1. CASE Clear
  BY <1>1, ClearIs DEF Promised!Next
<1>2. CASE ActiveExpire
  BY <1>2, ActiveExpireIs DEF Promised!Next
<1>3. ASSUME NEW k \in DictKeys, Get(k) PROVE DictInv' /\ Promised!Next
  <2>1. Read(k, "val", None) /\ None \in Results
    BY <1>3 DEF Get, Results
  <2>2. DictInv' /\ Promised!Read(k, "val", None)
    BY <2>1, ReadIs
  <2> QED BY <2>2 DEF Promised!Next, Promised!Get
<1>4. ASSUME NEW k \in DictKeys, GetExpiry(k) PROVE DictInv' /\ Promised!Next
  <2>1. Read(k, "expire", "never") /\ "never" \in Results
    BY <1>4 DEF GetExpiry, Results, Expiry
  <2>2. DictInv' /\ Promised!Read(k, "expire", "never")
    BY <2>1, ReadIs
  <2> QED BY <2>2 DEF Promised!Next, Promised!GetExpiry
<1>5. ASSUME NEW k \in DictKeys, Delete(k) PROVE DictInv' /\ Promised!Next
  BY <1>5, DeleteIs DEF Promised!Next
<1>6. ASSUME NEW k \in DictKeys, Lapse(k) PROVE DictInv' /\ Promised!Next
  BY <1>6, LapseIs DEF Promised!Next
<1>7. ASSUME NEW k \in DictKeys, NEW x \in Expiry, SetExpiry(k, x) PROVE DictInv' /\ Promised!Next
  BY <1>7, SetExpiryIs DEF Promised!Next, Expiry
<1>8. ASSUME NEW k \in DictKeys, NEW x \in Expiry, NEW v \in Vals, Put(k, v, x) PROVE DictInv' /\ Promised!Next
  BY <1>8, PutIs DEF Promised!Next, Expiry
<1> QED BY <1>1, <1>2, <1>3, <1>4, <1>5, <1>6, <1>7, <1>8 DEF DictNext

\* The invariant holds in every state.
LEMMA DictInductive == DictSpec => []DictInv
<1>1. DictInit => DictInv
  BY DictInitIs
<1>2. DictInv /\ [DictNext]_dictVars => DictInv'
  <2>1. ASSUME DictInv, UNCHANGED dictVars PROVE DictInv'
    <3>1. theDict' = theDict /\ ret' = ret /\ Good(theDict)
      BY <2>1 DEF dictVars, theDict, DictInv
    <3>2. Good(theDict)'
      BY <3>1
    <3> QED BY <2>1, <3>1, <3>2 DEF DictInv, Results
  <2> QED BY <2>1, DictNextIs
<1> QED BY <1>1, <1>2, PTL DEF DictSpec

\* The variables have their types: buckets of entries, and a rehashidx that is a
\* bucket of the old table or -1.
THEOREM DictTypeCorrect == DictSpec => []DictTypeOK
<1>1. DictInv => DictTypeOK
  <2> SUFFICES ASSUME DictInv PROVE DictTypeOK
    OBVIOUS
  <2>1. /\ theDict \in [ht : [{0, 1} -> Tables], rehashidx : Int] /\ theDict.ht = ht /\ theDict.rehashidx = rehashidx
        /\ \A t \in {0, 1} : GoodTable(ht[t]) /\ ht[t].size \in Nat
        /\ rehashidx \in -1..ht[0].size /\ rehashidx # ht[0].size
    BY GoodParts DEF DictInv, Good, Passable, theDict
  <2>2. DOMAIN ht = {0, 1}
    BY <2>1
  <2>3. ASSUME NEW t \in {0, 1}
        PROVE  /\ ht[t].size \in Nat /\ ht[t].used \in Nat
               /\ DOMAIN ht[t].table = 0..(ht[t].size - 1)
               /\ \A i \in DOMAIN ht[t].table : ht[t].table[i] \subseteq DictEntry
    <3>1. PICK h : h = ht[t]
      OBVIOUS
    <3>2. GoodTable(h) /\ h.size \in Nat
      BY <2>1, <3>1
    <3>3. h.used \in Nat
      BY <3>2, HeldIs
    <3>4. h.table \in [0..(h.size - 1) -> SUBSET DictEntry]
      BY <3>2 DEF GoodTable
    <3> QED BY <3>1, <3>2, <3>3, <3>4
  <2>4. rehashidx \in -1..(ht[0].size - 1)
    BY <2>1
  <2>5. ret \in Vals \cup Expiry \cup {"set", None}
    BY DEF DictInv, Results
  <2> QED BY <2>2, <2>3, <2>4, <2>5 DEF DictTypeOK
<1> QED BY <1>1, DictInductive, PTL

\* Every entry is in its bucket and is counted, no key has two, and a rehash has left
\* nothing behind it, whatever calls came before.
THEOREM AlwaysPlaced == DictSpec => []Placed
<1>1. DictInv => Placed
  <2> SUFFICES ASSUME DictInv PROVE Placed
    OBVIOUS
  <2>1. theDict.ht = ht /\ theDict.rehashidx = rehashidx /\ Good(theDict)
    BY DEF DictInv, theDict
  <2>2. /\ \A t \in {0, 1} : GoodTable(ht[t])
        /\ \A e, f \in InDict(theDict) : e.key = f.key => e = f
        /\ InTable(ht[0]) \cap InTable(ht[1]) = {}
        /\ \A i \in 0..(rehashidx - 1) : ht[0].table[i] = {}
        /\ ht[1].size # 0 <=> rehashidx # -1
    BY <2>1, GoodParts
  <2>3. ASSUME NEW t \in {0, 1}
        PROVE  /\ \A i \in DOMAIN ht[t].table : \A e \in ht[t].table[i] : Index(ht[t], e.key) = i
               /\ ht[t].used = Cardinality(Entries(t))
    <3>1. GoodTable(ht[t]) /\ Entries(t) = InTable(ht[t])
      BY <2>2 DEF Entries, InTable
    <3>2. DOMAIN ht[t].table = 0..(ht[t].size - 1)
      BY <3>1 DEF GoodTable
    <3> QED BY <3>1, <3>2 DEF GoodTable
  <2>4. Entries(0) = InTable(ht[0]) /\ Entries(1) = InTable(ht[1]) /\ InDict(theDict) = InTable(ht[0]) \cup InTable(ht[1])
    BY <2>1 DEF Entries, InTable, InDict
  <2> QED BY <2>2, <2>3, <2>4 DEF Placed
<1> QED BY <1>1, DictInductive, PTL

\* Whatever the state of a rehash, a call does to the entries of the two tables what
\* dict.h promises, and nothing else changes them.
THEOREM IsMap == DictSpec => ImplementsMap
<1>1. DictInit => Promised!Init
  <2> SUFFICES ASSUME DictInit PROVE Promised!Init
    OBVIOUS
  <2>1. Entries(0) \cup Entries(1) = {}
    BY DictInitIs, MapIs
  <2> QED BY <2>1 DEF Promised!Init, DictInit
<1>2. DictInv /\ [DictNext]_dictVars => [Promised!Next]_(Promised!vars)
  <2>1. ASSUME UNCHANGED dictVars PROVE UNCHANGED Promised!vars
    BY <2>1 DEF dictVars, Promised!vars, Entries
  <2> QED BY <2>1, DictNextIs
<1> QED BY <1>1, <1>2, DictInductive, PTL DEF DictSpec, ImplementsMap, Promised!Spec
-----------------------------------------------------------------------------
(***************************************************************************)
(* All the containers                                                       *)
(***************************************************************************)
\* A behaviour of the containers together is one of each of them, so that the variables
\* of all five keep their types: the trees of the sorted set, the array of the heap,
\* the tables of the dictionary, the links of the pool and the bytes of the writer.
THEOREM ContainerTypes == Spec => []TypesOK
<1>1. Init => ZSetInit /\ HeapInit /\ DictInit /\ PoolInit /\ BufInit
  BY DEF Init
<1>2. [Next]_vars => /\ [ZSetNext]_zsetVars /\ [HeapNext]_heapVars /\ [DictNext]_dictVars
                     /\ [PoolNext]_poolVars /\ [BufNext]_bufVars
  BY DEF Next, vars
<1>3. Spec => ZSetSpec /\ HeapSpec /\ DictSpec /\ PoolSpec /\ BufSpec
  BY <1>1, <1>2, PTL DEF Spec, ZSetSpec, HeapSpec, DictSpec, PoolSpec, BufSpec
<1>4. TypeOK /\ HeapTypeOK /\ DictTypeOK /\ PoolTypeOK /\ BufTypeOK => TypesOK
  BY DEF TypesOK
<1> QED BY <1>3, <1>4, SortedSetTypeOK, HeapTypeCorrect, DictTypeCorrect, PoolTypeCorrect,
           BufTypeCorrect, PTL
=============================================================================
