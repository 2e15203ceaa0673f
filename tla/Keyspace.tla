------------------------------ MODULE Keyspace ------------------------------
(***************************************************************************)
(* The keyspace of backend/server.c: the three dictionaries g_data, g_zsets *)
(* and g_hashes with the expiry times that dict.c keeps, the scheduling     *)
(* heap g_exp_heap, the wall clock, and the two things that change them:    *)
(* client commands (handle_command) and the periodic serverCron.            *)
(*                                                                          *)
(* The server is one thread, so a command is one action.  What is NOT       *)
(* atomic is time: a command calls time(NULL) several times and the second  *)
(* can change between two of the calls.  A command therefore takes its      *)
(* clock readings from Reads(n).  serverCron is a loop; its iterations are  *)
(* separate steps, between which only the clock can move.                   *)
(*                                                                          *)
(* Values, scores and fields are left out: which commands succeed, and what *)
(* they do to expiry times, depends only on which dictionary holds the key. *)
(***************************************************************************)
EXTENDS Integers

CONSTANTS
    Keys,       \* the keys clients use
    Ttls,       \* the ttl arguments of SET ... EX and EXPIRE (any integer)
    MaxTime,    \* bound: the clock and the deadlines stop there
    Slack,      \* bound: seconds the clock can advance within one command
    CronLimit   \* deletions after which serverCron's loop stops (20)

ASSUME KeyspaceAssumption ==
    /\ Ttls \subseteq Int
    /\ MaxTime \in Nat
    /\ Slack \in Nat
    /\ CronLimit \in Nat \ {0}

VARIABLES
    now,        \* time(NULL)
    data,       \* g_data: key -> expire field of its entry, or Absent
    zsets,      \* g_zsets: the same
    hashes,     \* g_hashes: the keys it holds (no code sets their expire)
    heap,       \* g_exp_heap: its entries <<key, expire>>
    cronNow,    \* serverCron's local `now`, or Idle outside of serverCron
    reaped      \* serverCron's local `expired_count`

vars == <<now, data, zsets, hashes, heap, cronNow, reaped>>
dicts == <<data, zsets, hashes>>
cron == <<cronNow, reaped>>

Absent == -1    \* the dictionary has no entry for the key
Never == 0      \* expire = 0: the entry has no deadline
Idle == -1
-----------------------------------------------------------------------------
(***************************************************************************)
(* Clock readings and the dictionary operations.                            *)
(***************************************************************************)

\* The n successive results of time(NULL) within one command.
Reads(n) ==
    {r \in [1..n -> now..(now + Slack)] :
        /\ \A i, j \in 1..n : i <= j => r[i] <= r[j]
        /\ r[n] <= MaxTime}

\* dict_get finds the entry: strictly later than its deadline it is dropped.
Live(e, t) == e # Absent /\ (e = Never \/ t <= e)

\* The dictionary after dict_get(d, k): an expired entry is deleted on access.
Looked(d, k, t) == IF Live(d[k], t) THEN d ELSE [d EXCEPT ![k] = Absent]

\* The expire field dict_put and dict_set_expiry write.
Deadline(ttl, t) == IF ttl > 0 THEN t + ttl ELSE Never

\* Mutant of Remaining: the last second of a deadline does not count.
RemainingLost(e, t) == IF e > t + 1 THEN e - t ELSE 0
\* The ttl INCR, DECR and APPEND give the rewritten entry: what is left at t.
Remaining(e, t) == IF e > t THEN e - t ELSE 0

\* Mutant of Due: the comparison is strict, as in dict_get.
DueStrict(e) == e > 0 /\ e < cronNow
\* serverCron's test of an expire field: a deadline, and no later than `now`.
Due(e) == e > 0 /\ e <= cronNow

\* Mutant of Reaped: a popped heap entry is taken for current without a look
\* at the deadline the dictionary holds.
ReapedUnchecked(d, k, t) == [d EXCEPT ![k] = IF @ = Never THEN Never ELSE Absent]
\* The dictionary after serverCron has dealt with popped key k: dict_get_expiry
\* at t drops an entry that is past its deadline, dict_delete one that is due.
Reaped(d, k, t) ==
    IF Live(d[k], t) /\ ~Due(d[k]) THEN d ELSE [d EXCEPT ![k] = Absent]

\* expired_count moves only for an entry that was still readable and due.
Counted(e, t) == IF Live(e, t) /\ Due(e) THEN 1 ELSE 0
-----------------------------------------------------------------------------
TypeOK ==
    /\ now \in Nat \ {0}
    /\ data \in [Keys -> Nat \cup {Absent}]
    /\ zsets \in [Keys -> Nat \cup {Absent}]
    /\ hashes \subseteq Keys
    /\ heap \subseteq (Keys \X Int)
    /\ cronNow \in Nat \cup {Idle}
    /\ reaped \in 0..CronLimit

\* main() before aeMain, with no AOF and no RDB file to load.
Init ==
    /\ now = 1
    /\ data = [k \in Keys |-> Absent]
    /\ zsets = [k \in Keys |-> Absent]
    /\ hashes = {}
    /\ heap = {}
    /\ cronNow = Idle
    /\ reaped = 0
-----------------------------------------------------------------------------
(***************************************************************************)
(* Client commands.  A command that is refused (WRONGTYPE, wrong number of  *)
(* arguments) leaves the dictionaries alone; its passing of time is a Tick. *)
(* A multi-key DEL or EXISTS is a sequence of the single-key one.           *)
(***************************************************************************)

\* The server is in its event loop, not inside serverCron.
Serving == cronNow = Idle

\* What delete_key leaves in g_zsets and g_hashes: only the first dictionary
\* that answers loses its entry.  One reading serves its lookups: a key is not
\* in both g_data and g_zsets (OneType), so at most one looks at a deadline.
ZsetsAfterDel(k, t) ==
    IF Live(data[k], t) THEN zsets ELSE [zsets EXCEPT ![k] = Absent]
HashesAfterDel(k, t) ==
    IF Live(data[k], t) \/ Live(zsets[k], t) THEN hashes ELSE hashes \ {k}

\* Mutant of SetKv: a key that has a heap entry already gets no second one.
SetKvOnceScheduled(k, ttl, t, tHeap) ==
    /\ data' = [data EXCEPT ![k] = Deadline(ttl, t)]
    /\ heap' = IF ttl > 0 /\ \A x \in heap : x[1] # k
               THEN heap \cup {<<k, tHeap + ttl>>} ELSE heap
\* set_kv: dict_put reads the clock, and the heap entry reads it again.
SetKv(k, ttl, t, tHeap) ==
    /\ data' = [data EXCEPT ![k] = Deadline(ttl, t)]
    /\ heap' = IF ttl > 0 THEN heap \cup {<<k, tHeap + ttl>>} ELSE heap

\* SET k v [EX ttl]: delete_key, then set_kv.
Set(k, ttl) ==
    /\ Serving
    /\ \E r \in Reads(3) :
        /\ r[3] + ttl <= MaxTime
        /\ SetKv(k, ttl, r[2], r[3])
        /\ zsets' = ZsetsAfterDel(k, r[1])
        /\ hashes' = HashesAfterDel(k, r[1])
        /\ now' = r[3]
    /\ UNCHANGED cron

\* SETNX k v: exists_key looks the key up in all three, and set_kv follows.
SetNx(k) ==
    /\ Serving
    /\ \E r \in Reads(2) :
        /\ ~Live(data[k], r[1]) /\ ~Live(zsets[k], r[2]) /\ k \notin hashes
        /\ SetKv(k, 0, r[2], r[2])
        /\ zsets' = Looked(zsets, k, r[2])
        /\ now' = r[2]
    /\ UNCHANGED <<hashes, cron>>

\* INCR, DECR, APPEND: get_kv, dict_get_expiry, time(NULL), set_kv with what is
\* left.  Only the zset check refuses; a hash of that name is not looked at.
Rewrite(k) ==
    /\ Serving
    /\ \E r \in Reads(4) :
        LET ttl == Remaining(data[k], r[2]) IN
        /\ ~Live(zsets[k], r[1])
        /\ r[4] + ttl <= MaxTime
        /\ SetKv(k, ttl, r[3], r[4])
        /\ zsets' = Looked(zsets, k, r[1])
        /\ now' = r[4]
    /\ UNCHANGED <<hashes, cron>>

\* GET k: g_zsets is asked first.
Get(k) ==
    /\ Serving
    /\ \E r \in Reads(2) :
        /\ zsets' = Looked(zsets, k, r[1])
        /\ data' = IF Live(zsets[k], r[1]) THEN data ELSE Looked(data, k, r[2])
        /\ now' = r[2]
    /\ UNCHANGED <<hashes, heap, cron>>

\* EXISTS, TTL, ZSCORE, ZRANGE, ZREM, ZCARD, ZRANK: g_data is asked first.
Lookup(k) ==
    /\ Serving
    /\ \E r \in Reads(2) :
        /\ data' = Looked(data, k, r[1])
        /\ zsets' = IF Live(data[k], r[1]) THEN zsets ELSE Looked(zsets, k, r[2])
        /\ now' = r[2]
    /\ UNCHANGED <<hashes, heap, cron>>

\* DEL k: delete_key.
Del(k) ==
    /\ Serving
    /\ \E r \in Reads(1) :
        /\ data' = [data EXCEPT ![k] = Absent]
        /\ zsets' = ZsetsAfterDel(k, r[1])
        /\ hashes' = HashesAfterDel(k, r[1])
        /\ now' = r[1]
    /\ UNCHANGED <<heap, cron>>

\* EXPIRE k ttl: dict_set_expiry does not ask whether the entry has expired.
\* Whatever the ttl, a heap entry is pushed.
Expire(k, ttl) ==
    /\ Serving
    /\ \E r \in Reads(2) :
        /\ r[2] + ttl <= MaxTime
        /\ \/ /\ data[k] # Absent
              /\ data' = [data EXCEPT ![k] = Deadline(ttl, r[1])]
              /\ UNCHANGED zsets
           \/ /\ data[k] = Absent /\ zsets[k] # Absent
              /\ zsets' = [zsets EXCEPT ![k] = Deadline(ttl, r[1])]
              /\ UNCHANGED data
        /\ heap' = heap \cup {<<k, r[2] + ttl>>}
        /\ now' = r[2]
    /\ UNCHANGED <<hashes, cron>>

\* Mutant of ZAdd: no WRONGTYPE check against g_data.
ZAddUnchecked(k) ==
    /\ Serving
    /\ \E r \in Reads(1) :
        /\ zsets' = [zsets EXCEPT ![k] = IF Live(@, r[1]) THEN @ ELSE Never]
        /\ now' = r[1]
    /\ UNCHANGED <<data, hashes, heap, cron>>
\* ZADD k score member: refused on a string; a missing zset is created with no
\* deadline, an existing one keeps its own.
ZAdd(k) ==
    /\ Serving
    /\ \E r \in Reads(2) :
        /\ ~Live(data[k], r[1])
        /\ data' = Looked(data, k, r[1])
        /\ zsets' = [zsets EXCEPT ![k] = IF Live(@, r[2]) THEN @ ELSE Never]
        /\ now' = r[2]
    /\ UNCHANGED <<hashes, heap, cron>>

\* HSET k field value: no other dictionary is looked at.
HSet(k) ==
    /\ Serving
    /\ hashes' = hashes \cup {k}
    /\ UNCHANGED <<now, data, zsets, heap, cron>>

\* FLUSHDB: dict_clear of g_data and g_zsets; the heap and g_hashes stay.
FlushDb ==
    /\ Serving
    /\ data' = [k \in Keys |-> Absent]
    /\ zsets' = [k \in Keys |-> Absent]
    /\ UNCHANGED <<now, hashes, heap, cron>>

Command ==
    \/ FlushDb
    \/ \E k \in Keys :
        \/ Get(k) \/ Lookup(k) \/ Del(k) \/ SetNx(k) \/ Rewrite(k)
        \/ ZAdd(k) \/ HSet(k)
        \/ \E ttl \in Ttls : Set(k, ttl) \/ Expire(k, ttl)
-----------------------------------------------------------------------------
(***************************************************************************)
(* serverCron, called by the event loop every 1000 ms.                      *)
(***************************************************************************)
CronStart ==
    /\ Serving
    /\ cronNow' = now
    /\ reaped' = 0
    /\ UNCHANGED <<now, dicts, heap>>

\* Mutant of CronMore: the comparison with the earliest deadline is strict.
CronMoreStrict == reaped < CronLimit /\ \E x \in heap : x[2] < cronNow
\* Mutant of CronMore: the loop has no limit.
CronMoreUnlimited == \E x \in heap : x[2] <= cronNow
\* The loop condition: the earliest heap entry is due, and the limit not met.
CronMore == reaped < CronLimit /\ \E x \in heap : x[2] <= cronNow

\* One iteration: pop the earliest entry.  Its key is reaped in the dictionary
\* that answers dict_get, if the deadline recorded THERE is due.
CronPop ==
    /\ cronNow # Idle /\ CronMore
    /\ \E x \in heap, r \in Reads(2) :
        LET k == x[1] IN
        /\ \A y \in heap : x[2] <= y[2]
        /\ heap' = heap \ {x}
        /\ \/ /\ Live(data[k], r[1])
              /\ data' = Reaped(data, k, r[2])
              /\ reaped' = reaped + Counted(data[k], r[2])
              /\ UNCHANGED zsets
           \/ /\ ~Live(data[k], r[1])
              /\ data' = Looked(data, k, r[1])
              /\ zsets' = Reaped(zsets, k, r[2])
              /\ reaped' = reaped + Counted(zsets[k], r[2])
        /\ now' = r[2]
    /\ UNCHANGED <<hashes, cronNow>>

\* The keys of d that are strictly past their deadline.
Expired(d, t) == {k \in Keys : d[k] > 0 /\ d[k] < t}

\* dict_active_expire: random buckets lose their expired entries.
Sampled(d, S) == [k \in Keys |-> IF k \in S THEN Absent ELSE d[k]]

\* After the loop, dict_active_expire on g_data and then on g_zsets.
CronEnd ==
    /\ cronNow # Idle /\ ~CronMore
    /\ \E r \in Reads(2) :
        /\ \E S \in SUBSET Expired(data, r[1]) : data' = Sampled(data, S)
        /\ \E S \in SUBSET Expired(zsets, r[2]) : zsets' = Sampled(zsets, S)
        /\ now' = r[2]
    /\ cronNow' = Idle
    /\ reaped' = 0
    /\ UNCHANGED <<hashes, heap>>

Cron == CronStart \/ CronPop \/ CronEnd

\* A second passes.
Tick ==
    /\ now < MaxTime
    /\ now' = now + 1
    /\ UNCHANGED <<dicts, heap, cron>>

Next == Command \/ Cron \/ Tick

\* Time goes on, and aeProcessEvents comes back to its time events after every
\* batch of file events, so serverCron is called again and runs to its end.
Fairness == WF_vars(Tick) /\ WF_vars(CronStart) /\ WF_vars(CronPop) /\ WF_vars(CronEnd)

Spec == Init /\ [][Next]_vars /\ Fairness
-----------------------------------------------------------------------------
(***************************************************************************)
(* Properties.                                                              *)
(***************************************************************************)

\* No key is a string and a sorted set at once, expired leftovers included:
\* every command that creates an entry has first emptied the other dictionary,
\* by deleting, by refusing, or by the lazy deletion inside its lookup.
OneType == \A k \in Keys : data[k] = Absent \/ zsets[k] = Absent

\* An entry with deadline e is scheduled at some h >= e.
Scheduled(k, e) == \E x \in heap : x[1] = k /\ e <= x[2] /\ x[2] <= e + Slack

\* Every deadline held by a dictionary has its own entry in g_exp_heap, no
\* earlier than the deadline (a pop that finds it not due would lose it) and no
\* later than one command's clock readings allow.  set_kv and EXPIRE read the
\* clock separately for the two structures, and nothing else keeps them in step.
HeapCovers ==
    \A k \in Keys : /\ data[k] > 0 => Scheduled(k, data[k])
                    /\ zsets[k] > 0 => Scheduled(k, zsets[k])

\* What one step removes from a dictionary.
Removed(d, k) == d[k] # Absent /\ d'[k] = Absent
\* Steps in which no client asked for a removal.
ReapStep == CronPop \/ CronEnd \/ \E k \in Keys : Get(k) \/ Lookup(k)

\* Neither serverCron, which acts on heap entries that may be stale, nor a lazy
\* deletion removes an entry without a deadline or before its deadline.
ReapsOnlyDue ==
    [][ReapStep => \A k \in Keys :
         /\ Removed(data, k) => data[k] > 0 /\ data[k] <= now'
         /\ Removed(zsets, k) => zsets[k] > 0 /\ zsets[k] <= now']_vars

\* INCR, DECR and APPEND rewrite a string that is still to expire with the same
\* deadline, off by at most the seconds that pass inside the command, and never
\* give a deadline to a string that has none.
RewriteKeepsDeadline ==
    [][\A k \in Keys : Rewrite(k) =>
         /\ data[k] > now' => data[k] <= data'[k] /\ data'[k] <= data[k] + Slack
         /\ data[k] = Never => data'[k] = Never]_vars

\* A serverCron call that ends with its limit unmet leaves no entry whose
\* deadline lies Slack seconds or more behind the call: the heap missed none.
CronMissesNone ==
    [][CronEnd /\ reaped < CronLimit => \A k \in Keys :
         /\ ~(data'[k] > 0 /\ data'[k] + Slack <= cronNow)
         /\ ~(zsets'[k] > 0 /\ zsets'[k] + Slack <= cronNow)]_vars

\* A deadline does not stay in memory for ever: every entry that has one is
\* reaped, or a client changes it, although each serverCron call stops after
\* CronLimit deletions.
Reclaimed ==
    \A k \in Keys, e \in 1..MaxTime :
        /\ data[k] = e ~> data[k] # e
        /\ zsets[k] = e ~> zsets[k] # e
=============================================================================
