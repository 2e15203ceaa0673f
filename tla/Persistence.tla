---------------------------- MODULE Persistence ----------------------------
(***************************************************************************)
(* What backend/server.c and backend/rdb.c keep on disk, and what a restart *)
(* makes of it: the append-only file, its rewriting, the RDB snapshot, the  *)
(* replay at startup, and crashes at every point where the process can be   *)
(* killed between a change of memory, the reply and the logging of it.      *)
(*                                                                          *)
(* The clock is reduced to what persistence can tell apart: a string or     *)
(* sorted set either has a deadline (vol) or not, and one that has may lapse *)
(* at any moment (Keyspace models when).  Lapsing is not logged.            *)
(*                                                                          *)
(* Left out: a replay that takes longer than a logged ttl; errors of fwrite *)
(* and fflush; a dump.rdb cut off inside the key of a sorted set or hash,   *)
(* on which rdb_load dereferences NULL and the server does not start.       *)
(***************************************************************************)
EXTENDS Naturals, Sequences, FiniteSets, SequencesExt

CONSTANTS
    Keys, Vals,     \* keys; string values
    Members,        \* members of sorted sets (their scores are left out)
    Fields,         \* fields of hashes (their values are left out)
    None,           \* no entry
    Scopes          \* bounds, one for each behaviour: the values written, the records in the
                    \* append-only file, the snapshots written, and whether the machine, and
                    \* not only the process, may fail

ASSUME PersistenceAssumption ==
    /\ IsFiniteSet(Keys)
    /\ Scopes \subseteq [vals : SUBSET Vals, log : Nat, saves : Nat, power : BOOLEAN]
    /\ None \notin Vals /\ \A S \in SUBSET Members : None # S

VARIABLES
    status,     \* "up", "stopped" (clean shutdown) or "crashed"
    mem,        \* the keyspace; when not up, what it was when the process ended
    pend,       \* what the running command has still to do
    aof,        \* the records of appendonly.aof up to its first unreadable byte
    aofExists,  \* whether appendonly.aof exists
    rdb,        \* the keyspace dump.rdb holds (an empty one: no file)
    saves,      \* how often it was written, for the bound only
    tainted,    \* history: keys the log need not reproduce, see LogReproducesMemory
    scope       \* which of Scopes

vars == <<status, mem, pend, aof, aofExists, rdb, saves, tainted, scope>>
disk == <<aof, aofExists, rdb, saves>>
-----------------------------------------------------------------------------
(***************************************************************************)
(* The keyspace, and what each logged command does to it.  A replay runs    *)
(* the same code (handle_command), so these operators serve both.           *)
(***************************************************************************)
Databases ==
    [data : [Keys -> Vals \cup {None}],
     zsets : [Keys -> {None} \cup SUBSET Members],
     hashes : [Keys -> SUBSET Fields],
     vol : SUBSET Keys]

Empty == [data |-> [k \in Keys |-> None], zsets |-> [k \in Keys |-> None],
          hashes |-> [k \in Keys |-> {}], vol |-> {}]

\* exists_key
Has(db, k) == db.data[k] # None \/ db.zsets[k] # None \/ db.hashes[k] # {}

\* Mutant of DelDb: a deleted sorted set leaves its deadline behind.
DelDbKeepsVol(db, k) ==
    IF db.data[k] # None THEN [db EXCEPT !.data[k] = None, !.vol = @ \ {k}]
    ELSE IF db.zsets[k] # None THEN [db EXCEPT !.zsets[k] = None]
    ELSE [db EXCEPT !.hashes[k] = {}]
\* delete_key: the first dictionary that has the key loses it.
DelDb(db, k) ==
    IF db.data[k] # None THEN [db EXCEPT !.data[k] = None, !.vol = @ \ {k}]
    ELSE IF db.zsets[k] # None THEN [db EXCEPT !.zsets[k] = None, !.vol = @ \ {k}]
    ELSE [db EXCEPT !.hashes[k] = {}]

\* dict_put on g_data, with a ttl if `dated`.
PutDb(db, k, v, dated) ==
    [db EXCEPT !.data[k] = v, !.vol = IF dated THEN @ \cup {k} ELSE @ \ {k}]

\* dict_set_expiry on g_data, else on g_zsets; a ttl of 0 or less clears.
ExpireDb(db, k, positive) ==
    IF db.data[k] = None /\ db.zsets[k] = None THEN db
    ELSE [db EXCEPT !.vol = IF positive THEN @ \cup {k} ELSE @ \ {k}]

\* The members of a sorted set; a missing one has none.
MembersOf(z) == IF z = None THEN {} ELSE z

\* Mutant of ZAddDb: no look at g_data.
ZAddDbUnchecked(db, k, m) == [db EXCEPT !.zsets[k] = MembersOf(@) \cup {m}]
\* ZADD: refused on a string, and creates a missing sorted set.
ZAddDb(db, k, m) ==
    IF db.data[k] # None THEN db ELSE [db EXCEPT !.zsets[k] = MembersOf(@) \cup {m}]

\* ZREM: the last member gone, the sorted set stays, empty.
ZRemDb(db, k, m) ==
    IF db.data[k] # None \/ db.zsets[k] = None THEN db
    ELSE [db EXCEPT !.zsets[k] = @ \ {m}]

\* HSET: the other dictionaries are not looked at.
HSetDb(db, k, F) == [db EXCEPT !.hashes[k] = @ \cup F]

\* FLUSHDB: g_data and g_zsets, not g_hashes.
FlushDb(db) == [Empty EXCEPT !.hashes = db.hashes]

\* An entry past its deadline goes, by lazy deletion or by serverCron.
LapseDb(db, k) ==
    [db EXCEPT !.data[k] = None, !.zsets[k] = None, !.vol = @ \ {k}]
-----------------------------------------------------------------------------
(***************************************************************************)
(* The append-only file.                                                    *)
(***************************************************************************)
\* Bytes resp_parse_array cannot read as a command: load_aof stops there.
Junk == [op |-> "junk"]

Record ==
    [op : {"SET"}, k : Keys, v : Vals]
    \cup [op : {"DEL"}, k : Keys]
    \cup [op : {"EXPIRE"}, k : Keys, positive : BOOLEAN]
    \cup [op : {"ZADD", "ZREM"}, k : Keys, m : Members]
    \cup [op : {"HSET"}, k : Keys, F : SUBSET Fields]
    \cup [op : {"FLUSHDB"}]
    \cup {Junk}

\* handle_command on a replayed record: aof is NULL, so nothing is logged.
Apply(db, r) ==
    CASE r.op = "SET"     -> PutDb(DelDb(db, r.k), r.k, r.v, FALSE)
      [] r.op = "DEL"     -> DelDb(db, r.k)
      [] r.op = "EXPIRE"  -> ExpireDb(db, r.k, r.positive)
      [] r.op = "ZADD"    -> ZAddDb(db, r.k, r.m)
      [] r.op = "ZREM"    -> ZRemDb(db, r.k, r.m)
      [] r.op = "HSET"    -> HSetDb(db, r.k, r.F)
      [] r.op = "FLUSHDB" -> FlushDb(db)
      [] OTHER            -> db

Clean(log) == \A i \in DOMAIN log : log[i] # Junk

\* load_aof: every record in order.  The log ends at its first Junk (Logged).
Replay(log) ==
    LET db[n \in 0..Len(log)] == IF n = 0 THEN Empty ELSE Apply(db[n - 1], log[n])
    IN db[Len(log)]

\* The log after recs are appended.  What follows unreadable bytes is never
\* read again, so it is not recorded.
Logged(log, recs) ==
    IF ~Clean(log) THEN log
    ELSE IF \E i \in DOMAIN recs : recs[i] = Junk
         THEN log \o SubSeq(recs, 1, CHOOSE i \in DOMAIN recs :
                    recs[i] = Junk /\ \A j \in 1..(i - 1) : recs[j] # Junk)
         ELSE log \o recs

\* Mutant of DelRecs: the third copy of the logging code is forgotten.
DelRecsNoHash(db, k) ==
    IF db.data[k] # None \/ db.zsets[k] # None
    THEN <<[op |-> "DEL", k |-> k]>> ELSE <<>>
\* What delete_key logs: nothing if it found nothing.
DelRecs(db, k) == IF Has(db, k) THEN <<[op |-> "DEL", k |-> k]>> ELSE <<>>

\* What rewrite_aof writes for a string: SET, and for one with a deadline an
\* EXPIRE whose seconds stand where the length of a bulk string is expected, so
\* that the reader takes the bytes behind them for the argument and is lost.
\* (Unless the seconds happen to be the length of the records that follow,
\* which are then skipped; the model leaves this coincidence out.)
StringRecs(db, k) ==
    IF db.data[k] = None THEN <<>>
    ELSE <<[op |-> "SET", k |-> k, v |-> db.data[k]]>> \o
         IF k \in db.vol THEN <<Junk>> ELSE <<>>

\* For a non-empty sorted set: a ZADD whose scores are not bulk strings.
ZSetRecs(db, k) == IF MembersOf(db.zsets[k]) = {} THEN <<>> ELSE <<Junk>>

\* Mutant of HashRecs: a key that is also a string is taken for written.
HashRecsOnce(db, k) ==
    IF db.hashes[k] = {} \/ db.data[k] # None THEN <<>>
    ELSE <<[op |-> "HSET", k |-> k, F |-> db.hashes[k]]>>
\* For a hash: one HSET with every field.
HashRecs(db, k) ==
    IF db.hashes[k] = {} THEN <<>>
    ELSE <<[op |-> "HSET", k |-> k, F |-> db.hashes[k]]>>

\* rewrite_aof's file: strings, then sorted sets, then hashes, each dictionary
\* in its own order; the string and sorted set of a key in `due` are skipped.
Rewritten(db, order, due) ==
    LET kept == [db EXCEPT !.data = [k \in Keys |-> IF k \in due THEN None ELSE @[k]],
                           !.zsets = [k \in Keys |-> IF k \in due THEN None ELSE @[k]]]
    IN Logged(<<>>,
              FlattenSeq([i \in DOMAIN order |-> StringRecs(kept, order[i])])
              \o FlattenSeq([i \in DOMAIN order |-> ZSetRecs(kept, order[i])])
              \o FlattenSeq([i \in DOMAIN order |-> HashRecs(kept, order[i])]))

\* Mutant of Snapshot: hashes are not written.
SnapshotNoHashes(db, due) ==
    [Empty EXCEPT !.data = [k \in Keys |-> IF k \in due THEN None ELSE db.data[k]],
                  !.zsets = [k \in Keys |-> IF k \in due THEN None ELSE db.zsets[k]]]
\* rdb_save followed by rdb_load: no deadline survives, and an entry that is
\* due is skipped.
Snapshot(db, due) ==
    [data |-> [k \in Keys |-> IF k \in due THEN None ELSE db.data[k]],
     zsets |-> [k \in Keys |-> IF k \in due THEN None ELSE db.zsets[k]],
     hashes |-> db.hashes,
     vol |-> {}]

\* What rdb_load finds in a dump.rdb cut off while it was written: some of the
\* strings; all of them and some sorted sets; or those and some hashes.  The
\* sorted set or hash being written, `last`, may have some of its elements.
CutOff(snap, s, z, h, last, part) ==
    LET started(k) == s = Keys /\ k = last
    IN [data |-> [k \in Keys |-> IF k \in s THEN snap.data[k] ELSE None],
        zsets |-> [k \in Keys |->
                     IF s = Keys /\ k \in z THEN snap.zsets[k]
                     ELSE IF started(k) /\ snap.zsets[k] # None
                          THEN snap.zsets[k] \cap part ELSE None],
        hashes |-> [k \in Keys |->
                     IF s # Keys \/ z # Keys THEN {}
                     ELSE IF k \in h THEN snap.hashes[k]
                     ELSE IF started(k) THEN snap.hashes[k] \cap part ELSE {}],
        vol |-> {}]
-----------------------------------------------------------------------------
NoPend == [op |-> "none"]

\* Keys whose log does not determine them: those with a deadline, and those
\* that are a hash and something else at once.
Ambiguous(db) ==
    db.vol \cup {k \in Keys : db.hashes[k] # {} /\ (db.data[k] # None \/ db.zsets[k] # None)}

\* No key is a string and a sorted set at once.
OneTypeDb(db) == \A k \in Keys : db.data[k] = None \/ db.zsets[k] = None

TypeOK ==
    /\ status \in {"up", "stopped", "crashed"}
    /\ mem \in Databases
    /\ \A k \in mem.vol : mem.data[k] # None \/ mem.zsets[k] # None
    /\ pend.op \in {"none", "SET", "HSET", "EXPIRE"}
    /\ aof \in Seq(Record) /\ Len(aof) <= scope.log
    /\ aofExists \in BOOLEAN
    /\ rdb \in Databases
    /\ saves \in 0..scope.saves
    /\ tainted \subseteq Keys

\* A fresh installation, before the server's first start.
Init ==
    /\ status = "stopped"
    /\ mem = Empty
    /\ pend = NoPend
    /\ aof = <<>>
    /\ aofExists = FALSE
    /\ rdb = Empty
    /\ saves = 0
    /\ tainted = {}
    /\ scope \in Scopes
-----------------------------------------------------------------------------
(***************************************************************************)
(* Commands.  SET logs twice, and HSET and EXPIRE log after they have       *)
(* replied; the second half of each is a step of its own (pend), before     *)
(* which the process can be killed but nothing else can run.                *)
(***************************************************************************)
Idle == status = "up" /\ pend = NoPend

\* Memory becomes db and the records are appended and flushed.
Change(db, recs) ==
    /\ mem' = db
    /\ aof' = Logged(aof, recs)
    /\ Len(aof') <= scope.log
    /\ tainted' = tainted \cup Ambiguous(db)
    /\ UNCHANGED <<status, aofExists, rdb, saves>>

\* SET k v [EX ttl]: delete_key, with its own record ...
Set(k, v, dated) ==
    /\ Idle
    /\ Change(DelDb(mem, k), DelRecs(mem, k))
    /\ pend' = [op |-> "SET", k |-> k, v |-> v, dated |-> dated]

\* ... and set_kv, whose record has no ttl; then the reply.
SetFinish ==
    /\ status = "up" /\ pend.op = "SET"
    /\ Change(PutDb(mem, pend.k, pend.v, pend.dated),
              <<[op |-> "SET", k |-> pend.k, v |-> pend.v]>>)
    /\ pend' = NoPend

\* SETNX k v
SetNx(k, v) ==
    /\ Idle /\ ~Has(mem, k)
    /\ Change(PutDb(mem, k, v, FALSE), <<[op |-> "SET", k |-> k, v |-> v]>>)
    /\ UNCHANGED pend

\* INCR, DECR, APPEND: the new value is logged as a SET.  An entry with a
\* deadline keeps it, unless the deadline is this very second.
Rewrite(k, v) ==
    /\ Idle /\ mem.zsets[k] = None
    /\ \E dated \in BOOLEAN :
        /\ dated => k \in mem.vol
        /\ Change(PutDb(mem, k, v, dated), <<[op |-> "SET", k |-> k, v |-> v]>>)
    /\ UNCHANGED pend

\* DEL k
Del(k) ==
    /\ Idle /\ Has(mem, k)
    /\ Change(DelDb(mem, k), DelRecs(mem, k))
    /\ UNCHANGED pend

\* ZADD k score m
ZAdd(k, m) ==
    /\ Idle /\ mem.data[k] = None
    /\ Change(ZAddDb(mem, k, m), <<[op |-> "ZADD", k |-> k, m |-> m]>>)
    /\ UNCHANGED pend

\* ZREM k m, of a member it has.
ZRem(k, m) ==
    /\ Idle /\ mem.data[k] = None /\ m \in MembersOf(mem.zsets[k])
    /\ Change(ZRemDb(mem, k, m), <<[op |-> "ZREM", k |-> k, m |-> m]>>)
    /\ UNCHANGED pend

\* HSET k f value: memory and the reply, then the log.
HSet(k, f) ==
    /\ Idle
    /\ Change(HSetDb(mem, k, {f}), <<>>)
    /\ pend' = [op |-> "HSET", k |-> k, F |-> {f}]

\* EXPIRE k ttl of a key it finds: memory and the reply, then the log.
Expire(k, positive) ==
    /\ Idle /\ (mem.data[k] # None \/ mem.zsets[k] # None)
    /\ Change(ExpireDb(mem, k, positive), <<>>)
    /\ pend' = [op |-> "EXPIRE", k |-> k, positive |-> positive]

LogFinish ==
    /\ status = "up" /\ pend.op \in {"HSET", "EXPIRE"}
    /\ Change(mem, <<pend>>)
    /\ pend' = NoPend

\* FLUSHDB: its record is followed by an empty line.
Flush ==
    /\ Idle
    /\ Change(FlushDb(mem), <<[op |-> "FLUSHDB"], Junk>>)
    /\ UNCHANGED pend

\* BGREWRITEAOF: the new file replaces the old one in one rename, so a crash
\* before it leaves the old one and a temporary file nobody reads.
BgRewrite ==
    /\ Idle
    /\ UNCHANGED <<status, mem, pend, aofExists, rdb, saves>>
    /\ tainted' = Ambiguous(mem)
    /\ \E order \in SetToSeqs(Keys), due \in SUBSET mem.vol :
        aof' = Rewritten(mem, order, due)
    /\ Len(aof') <= scope.log

WritesRdb == saves < scope.saves /\ saves' = saves + 1

\* SAVE: rdb_save overwrites dump.rdb in place.
Save ==
    /\ Idle
    /\ WritesRdb
    /\ \E due \in SUBSET mem.vol : rdb' = Snapshot(mem, due)
    /\ UNCHANGED <<status, mem, pend, aof, aofExists, tainted>>

\* A deadline passes; the log is not told.
Lapse(k) ==
    /\ Idle /\ k \in mem.vol
    /\ Change(LapseDb(mem, k), <<>>)
    /\ UNCHANGED pend

Command ==
    \/ SetFinish \/ LogFinish \/ Flush \/ BgRewrite \/ Save
    \/ \E k \in Keys :
        \/ Del(k) \/ Lapse(k)
        \/ \E v \in scope.vals : SetNx(k, v) \/ Rewrite(k, v)
        \/ \E v \in scope.vals, dated \in BOOLEAN : Set(k, v, dated)
        \/ \E m \in Members : ZAdd(k, m) \/ ZRem(k, m)
        \/ \E f \in Fields : HSet(k, f)
        \/ \E positive \in BOOLEAN : Expire(k, positive)
-----------------------------------------------------------------------------
(***************************************************************************)
(* The process ends and starts again.                                       *)
(***************************************************************************)

\* Mutant of Shutdown: main returns without the last rdb_save.
ShutdownUnsaved ==
    /\ Idle
    /\ status' = "stopped"
    /\ UNCHANGED <<mem, pend, disk, tainted>>
\* SHUTDOWN or SIGINT: aeMain returns and main saves a snapshot.
Shutdown ==
    /\ Idle
    /\ status' = "stopped"
    /\ WritesRdb
    /\ \E due \in SUBSET mem.vol : rdb' = Snapshot(mem, due)
    /\ UNCHANGED <<mem, pend, aof, aofExists, tainted>>

\* The process is killed: the command in progress is cut short.
Crash ==
    /\ status = "up"
    /\ status' = "crashed"
    /\ pend' = NoPend
    /\ UNCHANGED <<mem, disk, tainted>>

\* It is killed inside rdb_save.
CrashInSave ==
    /\ Idle
    /\ status' = "crashed"
    /\ WritesRdb
    /\ \E due \in SUBSET mem.vol, s \in SUBSET Keys, z \in SUBSET Keys, h \in SUBSET Keys,
          last \in Keys, part \in SUBSET (Members \cup Fields) :
        rdb' = CutOff(Snapshot(mem, due), s, z, h, last, part)
    /\ UNCHANGED <<mem, pend, aof, aofExists, tainted>>

\* The machine fails: nothing was ever fsynced, so the file may end anywhere,
\* also in the middle of a record.  No key is promised to survive, and what was
\* in memory is forgotten.
PowerFail ==
    /\ scope.power /\ status = "up"
    /\ status' = "crashed"
    /\ mem' = Empty
    /\ pend' = NoPend
    /\ tainted' = Keys
    /\ \E log \in Prefixes(aof) :
        aof' \in {log} \cup IF log = aof THEN {} ELSE {Logged(log, <<Junk>>)}
    /\ UNCHANGED <<aofExists, rdb, saves>>

\* An operator removes appendonly.aof, as the tests do, to load the snapshot.
RemoveAof ==
    /\ status # "up" /\ aofExists
    /\ aofExists' = FALSE
    /\ aof' = <<>>
    /\ UNCHANGED <<status, mem, pend, rdb, saves, tainted>>

\* main: the append-only file is replayed if it exists, be it empty; only if
\* there is none is the snapshot loaded.  Then the file is opened (or created)
\* for appending: what came from the snapshot is in no log.
Start ==
    /\ status # "up"
    /\ status' = "up"
    /\ mem' = IF aofExists THEN Replay(aof) ELSE rdb
    /\ aofExists' = TRUE
    /\ tainted' = IF aofExists THEN Ambiguous(mem') ELSE {k \in Keys : Has(mem', k)}
    /\ UNCHANGED <<pend, aof, rdb, saves>>

Next ==
    /\ UNCHANGED scope
    /\ Command \/ Shutdown \/ Crash \/ CrashInSave \/ PowerFail \/ RemoveAof \/ Start

Spec == Init /\ [][Next]_vars
-----------------------------------------------------------------------------
(***************************************************************************)
(* Properties.                                                              *)
(***************************************************************************)

\* Two keyspaces agree on a key; an empty sorted set counts as none.
Same(db1, db2, k) ==
    /\ db1.data[k] = db2.data[k]
    /\ MembersOf(db1.zsets[k]) = MembersOf(db2.zsets[k])
    /\ db1.hashes[k] = db2.hashes[k]

\* The log as a restart would read it gives back every key as it is in memory,
\* at every moment at which the process may be killed, except while an HSET has
\* replied and not yet logged.  It holds for a log without unreadable bytes and
\* for keys that, since the last rewrite or restart, had no deadline, were never
\* a hash and something else at once, and did not come from a snapshot: for
\* those the code logs less than it would take.
LogReproducesMemory ==
    status = "up" /\ Clean(aof) /\ pend.op # "HSET" =>
        \A k \in Keys \ tainted : Same(Replay(aof), mem, k)

\* Whatever is cut off, replayed or loaded, no key is a string and a sorted set
\* at once: not in memory, not in what a restart would make of the files.
OneTypeEverywhere == OneTypeDb(mem) /\ OneTypeDb(rdb) /\ OneTypeDb(Replay(aof))

\* BGREWRITEAOF over a keyspace without sorted sets and deadlines gives a log
\* from which a restart gets every key, also one that is a hash and a string at
\* once, which the log of the commands themselves need not do.
RewriteKeepsKeys ==
    [][BgRewrite /\ mem.vol = {} /\ (\A k \in Keys : MembersOf(mem.zsets[k]) = {}) =>
         \A k \in Keys : Same(Replay(aof'), mem, k)]_vars

\* A clean shutdown followed by a start without an append-only file brings back
\* every key that had no deadline, of whatever type.
ShutdownSaves ==
    [][Start /\ status = "stopped" /\ ~aofExists =>
         \A k \in Keys \ mem.vol : Same(mem', mem, k)]_vars

\* What a write acknowledged by a running server means: after a restart the key
\* is as it was, whatever commands were run before.  (LogReproducesMemory
\* without its condition on the log.)
AcknowledgedSurvives ==
    [][Start /\ aofExists => \A k \in Keys \ tainted : Same(mem', mem, k)]_vars

\* What BGREWRITEAOF means: no key is lost by it.
RewriteKeepsEveryKey ==
    [][BgRewrite => \A k \in Keys \ mem.vol : Same(Replay(aof'), mem, k)]_vars

\* What a TTL means: a string that has expired does not come back.
ExpiredStaysGone ==
    [][Start /\ aofExists => \A k \in Keys :
         mem.data[k] = None => mem'.data[k] = None]_vars
=============================================================================
