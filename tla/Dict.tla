-------------------------------- MODULE Dict --------------------------------
(***************************************************************************)
(* The hash table of backend/dict.c.  It grows by incremental rehashing:    *)
(* a second table of twice the size is filled one bucket per operation,     *)
(* while lookups, insertions and deletions work on both.                    *)
(*                                                                          *)
(* A bucket is the set of its entries: their order in the chain makes no    *)
(* difference while keys are unique, which Placed checks.  The deadline of  *)
(* an entry is reduced to whether there is one and whether it has passed.   *)
(***************************************************************************)
EXTENDS Integers, FiniteSets

CONSTANTS
    DictKeys, Vals,
    None,       \* a null pointer
    Hash        \* hash_fn: a number for each key

ASSUME DictAssumption ==
    /\ Hash \in [DictKeys -> Nat]
    /\ None \notin Vals

VARIABLES
    ht,         \* d->ht[0] and d->ht[1]
    rehashidx,  \* d->rehashidx
    ret         \* what the last call returned

dictVars == <<ht, rehashidx, ret>>
-----------------------------------------------------------------------------
(***************************************************************************)
(* Tables, and a dictionary d == [ht, rehashidx] as the calls pass it on.   *)
(***************************************************************************)
Expiry == {"never", "later"}
DictEntry == [key : DictKeys, val : Vals, expire : Expiry \cup {"past"}]

\* calloc of n buckets.
NewTable(n) == [size |-> n, used |-> 0, table |-> [i \in 0..(n - 1) |-> {}]]
\* _dictReset: no buckets.
NoTable == NewTable(0)

\* The bucket of a key; sizes are powers of two, so the mask is a remainder.
Index(h, k) == Hash[k] % h.size

AddTo(h, e) ==
    [h EXCEPT !.used = @ + 1, !.table[Index(h, e.key)] = @ \cup {e}]
TakeFrom(h, i, e) ==
    [h EXCEPT !.used = @ - 1, !.table[i] = @ \ {e}]

\* The sizes a table can have, and the one dict_expand gives a table that is to hold
\* n entries: the first that is enough.
Sizes[j \in Nat] == IF j = 0 THEN 4 ELSE 2 * Sizes[j - 1]
SizeFor(n) ==
    Sizes[CHOOSE j \in 0..n : Sizes[j] >= n /\ \A i \in 0..(j - 1) : Sizes[i] < n]

\* dict_expand
Expanded(d, n) ==
    IF d.rehashidx # -1 THEN d
    ELSE IF d.ht[0].size = 0 THEN [d EXCEPT !.ht[0] = NewTable(SizeFor(n))]
    ELSE [d EXCEPT !.ht[1] = NewTable(SizeFor(n)), !.rehashidx = 0]

\* Mutant of Moved: entries go to the bucket number they had.
MovedAsIs(d, i) ==
    LET b == d.ht[0].table[i] IN
    [ht |-> [t \in {0, 1} |->
        IF t = 0 THEN [d.ht[0] EXCEPT !.table[i] = {}, !.used = @ - Cardinality(b)]
        ELSE [d.ht[1] EXCEPT !.table[i] = @ \cup b, !.used = @ + Cardinality(b)]],
     rehashidx |-> i + 1]
\* The entries of bucket i of the old table go to the new one.
Moved(d, i) ==
    LET b == d.ht[0].table[i]
        new == d.ht[1]
    IN [ht |-> [t \in {0, 1} |->
           IF t = 0 THEN [d.ht[0] EXCEPT !.table[i] = {}, !.used = @ - Cardinality(b)]
           ELSE [new EXCEPT !.table = [j \in DOMAIN @ |->
                                         @[j] \cup {e \in b : Index(new, e.key) = j}],
                            !.used = @ + Cardinality(b)]],
        rehashidx |-> i + 1]

\* end_rehash, once the old table is empty: the new one takes its place.
Ended(d) ==
    IF d.ht[0].used # 0 THEN d
    ELSE [ht |-> [t \in {0, 1} |-> IF t = 0 THEN d.ht[1] ELSE NoTable], rehashidx |-> -1]

\* The buckets still to be moved.
Ahead(d) == {i \in d.rehashidx..(d.ht[0].size - 1) : d.ht[0].table[i] # {}}

\* _dictRehashStep: the first bucket that is not empty is moved.
Stepped(d) ==
    IF d.rehashidx = -1 THEN d
    ELSE IF d.ht[0].used = 0 \/ Ahead(d) = {}
         THEN Ended([d EXCEPT !.ht[0].used = 0])
    ELSE Ended(Moved(d, CHOOSE i \in Ahead(d) : \A j \in Ahead(d) : i <= j))

Used(d) == d.ht[0].used + d.ht[1].used

\* Mutant of Searched: the second table is never looked at.
SearchedFirst(d) == {0}
\* The tables a lookup or deletion goes through.
Searched(d) == IF d.rehashidx = -1 THEN {0} ELSE {0, 1}

\* Where the entry of a key is found, with the older table first: at most one
\* <<table, bucket, entry>>.
FoundIn(d, k) ==
    LET at(n) == LET i == Index(d.ht[n], k) IN
                 {<<n, i, e>> : e \in {e \in d.ht[n].table[i] : e.key = k}}
    IN IF Used(d) = 0 THEN {}
       ELSE IF at(0) # {} THEN at(0) ELSE UNION {at(n) : n \in Searched(d) \ {0}}

\* The one dict_lookup_node returns, and its contents overwritten.
Node(d, k) == CHOOSE x \in FoundIn(d, k) : TRUE
Replaced(d, k, e) ==
    LET x == Node(d, k) IN [d EXCEPT !.ht[x[1]] = AddTo(TakeFrom(@, x[2], x[3]), e)]

\* dict_lookup_node's step, taken unless the dictionary is empty.
LookedUp(d) == IF Used(d) = 0 THEN d ELSE Stepped(d)

\* dict_delete
Deleted(d, k) ==
    LET s == LookedUp(d)
        x == Node(s, k)
    IN IF FoundIn(s, k) = {} THEN s ELSE [s EXCEPT !.ht[x[1]] = TakeFrom(@, x[2], x[3])]
-----------------------------------------------------------------------------
(***************************************************************************)
(* The calls.                                                               *)
(***************************************************************************)
theDict == [ht |-> ht, rehashidx |-> rehashidx]

Assigned(d) == ht' = d.ht /\ rehashidx' = d.rehashidx

DictTypeOK ==
    /\ DOMAIN ht = {0, 1}
    /\ \A t \in {0, 1} :
        /\ ht[t].size \in Nat /\ ht[t].used \in Nat
        /\ DOMAIN ht[t].table = 0..(ht[t].size - 1)
        /\ \A i \in DOMAIN ht[t].table : ht[t].table[i] \subseteq DictEntry
    /\ rehashidx \in -1..(ht[0].size - 1)
    /\ ret \in Vals \cup Expiry \cup {"set", None}

\* dict_init
DictInit ==
    /\ ht = [t \in {0, 1} |-> NoTable]
    /\ rehashidx = -1
    /\ ret = None

\* dict_put: it may start a rehash, and takes a step of its own and one of its
\* lookup, either of which may end the rehash.
Put(k, v, x) ==
    LET first == IF ht[0].size = 0 THEN Expanded(theDict, 4) ELSE theDict
        grown == IF first.rehashidx = -1 /\ first.ht[0].used >= first.ht[0].size
                 THEN Expanded(first, 2 * first.ht[0].used) ELSE first
        d == LookedUp(Stepped(grown))
        new == [key |-> k, val |-> v, expire |-> x]
        target == IF d.rehashidx = -1 THEN 0 ELSE 1
    IN /\ Assigned(IF FoundIn(d, k) = {} THEN [d EXCEPT !.ht[target] = AddTo(@, new)]
                  ELSE Replaced(d, k, new))
       /\ ret' = None

\* dict_get and dict_get_expiry, which delete an entry past its deadline: what is
\* returned is `missing`, or the field of the entry.
Read(k, field, missing) ==
    LET d == LookedUp(theDict) IN
    IF FoundIn(d, k) = {} THEN Assigned(d) /\ ret' = missing
    ELSE IF Node(d, k)[3].expire = "past" THEN Assigned(Deleted(d, k)) /\ ret' = missing
    ELSE Assigned(d) /\ ret' = Node(d, k)[3][field]

Get(k) == Read(k, "val", None)
GetExpiry(k) == Read(k, "expire", "never")

\* dict_set_expiry
SetExpiry(k, x) ==
    LET d == LookedUp(theDict) IN
    IF FoundIn(d, k) = {} THEN Assigned(d) /\ ret' = None
    ELSE Assigned(Replaced(d, k, [Node(d, k)[3] EXCEPT !.expire = x])) /\ ret' = "set"

\* dict_delete
Delete(k) == Assigned(Deleted(theDict, k)) /\ ret' = None

\* dict_clear
Clear ==
    /\ Assigned([ht |-> [t \in {0, 1} |-> NoTable], rehashidx |-> -1])
    /\ ret' = None

Past(h, i) == {e \in h.table[i] : e.expire = "past"}

\* dict_active_expire: random buckets of one table lose the entries that are past
\* their deadline.
ActiveExpire ==
    LET d == Stepped(theDict) IN
    /\ ht[0].size # 0
    /\ \E t \in IF d.rehashidx = -1 THEN {0} ELSE {0, 1} :
        \E I \in SUBSET {i \in DOMAIN d.ht[t].table : Past(d.ht[t], i) # {}} :
            LET gone == UNION {Past(d.ht[t], i) : i \in I} IN
            Assigned([d EXCEPT !.ht[t].table = [i \in DOMAIN @ |-> @[i] \ gone],
                              !.ht[t].used = @ - Cardinality(gone)])
    /\ ret' = None

\* An entry passes its deadline.
Lapse(k) ==
    /\ \E t \in {0, 1} : \E i \in DOMAIN ht[t].table : \E e \in ht[t].table[i] :
        /\ e.key = k /\ e.expire = "later"
        /\ ht' = [ht EXCEPT ![t].table[i] = (@ \ {e}) \cup {[e EXCEPT !.expire = "past"]}]
    /\ UNCHANGED <<rehashidx, ret>>

DictNext ==
    \/ Clear \/ ActiveExpire
    \/ \E k \in DictKeys : Get(k) \/ GetExpiry(k) \/ Delete(k) \/ Lapse(k)
    \/ \E k \in DictKeys, x \in Expiry : SetExpiry(k, x) \/ \E v \in Vals : Put(k, v, x)

DictSpec == DictInit /\ [][DictNext]_dictVars
-----------------------------------------------------------------------------
(***************************************************************************)
(* Properties.                                                              *)
(***************************************************************************)
Entries(t) == UNION {ht[t].table[i] : i \in DOMAIN ht[t].table}

\* The tables are what a lookup takes them for: every entry is in the bucket its
\* hash selects, no key has two entries, `used` counts the entries (a rehash
\* ends when it is 0, and would lose the rest), nothing is left behind
\* rehashidx, and there is a second table exactly during a rehash.
Placed ==
    /\ \A t \in {0, 1} :
        /\ \A i \in DOMAIN ht[t].table : \A e \in ht[t].table[i] : Index(ht[t], e.key) = i
        /\ ht[t].used = Cardinality(Entries(t))
    /\ \A e, f \in Entries(0) \cup Entries(1) : e.key = f.key => e = f
    /\ Entries(0) \cap Entries(1) = {}
    /\ \A i \in 0..(rehashidx - 1) : ht[0].table[i] = {}
    /\ ht[1].size # 0 <=> rehashidx # -1

\* Whatever the state of a rehash, the two tables implement the map of dict.h:
\* no call loses, revives, duplicates or overlooks an entry.
Promised == INSTANCE ExpiringMap WITH Keys <- DictKeys, map <- Entries(0) \cup Entries(1)
ImplementsMap == Promised!Spec
=============================================================================
