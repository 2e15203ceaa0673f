------------------------- MODULE PersistenceProofs -------------------------
(***************************************************************************)
(* Proofs about Persistence: for all keys, values, members, fields and       *)
(* bounds, what a restart makes of the append-only file and the snapshot.    *)
(***************************************************************************)
EXTENDS Persistence, RecursionTheorems, FiniteSetTheorems, SequenceTheorems, TLAPS

\* The keyspaces in which no key is of two types, and what has a deadline exists.
Sound ==
    {db \in Databases :
        /\ OneTypeDb(db)
        /\ \A k \in db.vol : db.data[k] # None \/ db.zsets[k] # None}
-----------------------------------------------------------------------------
(***************************************************************************)
(* What each command does to a keyspace, key by key.                        *)
(***************************************************************************)
\* The fields of a keyspace.
LEMMA Fields4 ==
    ASSUME NEW db \in Databases
    PROVE  /\ db.data \in [Keys -> Vals \cup {None}]
           /\ db.zsets \in [Keys -> {None} \cup SUBSET Members]
           /\ db.hashes \in [Keys -> SUBSET Fields]
           /\ db.vol \in SUBSET Keys
BY DEF Databases

\* The first dictionary that has k loses it.
Deleted(db, k, d) ==
    /\ d \in Databases
    /\ \A x \in Keys :
          /\ d.data[x] = IF x = k THEN None ELSE db.data[x]
          /\ d.zsets[x] = IF x = k /\ db.data[k] = None THEN None ELSE db.zsets[x]
          /\ d.hashes[x] = IF x = k /\ db.data[k] = None /\ db.zsets[k] = None
                           THEN {} ELSE db.hashes[x]
    /\ d.vol = IF db.data[k] # None \/ db.zsets[k] # None THEN db.vol \ {k} ELSE db.vol

\* delete_key does that.
LEMMA DelIs ==
    ASSUME NEW db \in Databases, NEW k \in Keys, NEW d, d = DelDb(db, k)
    PROVE  Deleted(db, k, d)
<1>1. CASE db.data[k] # None
  BY <1>1 DEF Deleted, DelDb, Databases
<1>2. CASE db.data[k] = None /\ db.zsets[k] # None
  BY <1>2 DEF Deleted, DelDb, Databases
<1>3. CASE db.data[k] = None /\ db.zsets[k] = None
  BY <1>3 DEF Deleted, DelDb, Databases
<1> QED BY <1>1, <1>2, <1>3

\* k is the string v.
Stored(db, k, v, dated, d) ==
    /\ d \in Databases
    /\ \A x \in Keys :
          /\ d.data[x] = IF x = k THEN v ELSE db.data[x]
          /\ d.zsets[x] = db.zsets[x] /\ d.hashes[x] = db.hashes[x]
    /\ d.vol = IF dated THEN db.vol \cup {k} ELSE db.vol \ {k}

\* dict_put on g_data.
LEMMA PutIs ==
    ASSUME NEW db \in Databases, NEW k \in Keys, NEW v \in Vals, NEW dated \in BOOLEAN,
           NEW d, d = PutDb(db, k, v, dated)
    PROVE  Stored(db, k, v, dated, d)
BY DEF Stored, PutDb, Databases

\* At most the deadline of k differs, which has one only if it is there.
Dated(db, k, d) ==
    /\ d \in Databases
    /\ d.data = db.data /\ d.zsets = db.zsets /\ d.hashes = db.hashes
    /\ d.vol \subseteq db.vol \cup
          (IF db.data[k] # None \/ db.zsets[k] # None THEN {k} ELSE {})

\* dict_set_expiry.
LEMMA ExpireIs ==
    ASSUME NEW db \in Databases, NEW k \in Keys, NEW positive \in BOOLEAN,
           NEW d, d = ExpireDb(db, k, positive)
    PROVE  Dated(db, k, d)
<1>1. CASE db.data[k] = None /\ db.zsets[k] = None
  BY <1>1 DEF Dated, ExpireDb
<1>2. CASE db.data[k] # None \/ db.zsets[k] # None
  BY <1>2 DEF Dated, ExpireDb, Databases
<1> QED BY <1>1, <1>2

\* The sorted set k, if k is no string, has m.
Added(db, k, m, d) ==
    /\ d \in Databases
    /\ d.data = db.data /\ d.hashes = db.hashes /\ d.vol = db.vol
    /\ \A x \in Keys : d.zsets[x] = IF x = k /\ db.data[k] = None
                                    THEN MembersOf(db.zsets[k]) \cup {m} ELSE db.zsets[x]

\* ZADD.
LEMMA ZAddIs ==
    ASSUME NEW db \in Databases, NEW k \in Keys, NEW m \in Members, NEW d, d = ZAddDb(db, k, m)
    PROVE  Added(db, k, m, d)
<1>1. CASE db.data[k] # None
  BY <1>1 DEF Added, ZAddDb
<1>2. CASE db.data[k] = None
  <2>1. MembersOf(db.zsets[k]) \cup {m} \in SUBSET Members
    BY DEF Added, MembersOf, Databases
  <2>2. d = [db EXCEPT !.zsets[k] = MembersOf(db.zsets[k]) \cup {m}]
    BY <1>2 DEF Added, ZAddDb
  <2> QED BY <1>2, <2>1, <2>2 DEF Added, Databases
<1> QED BY <1>1, <1>2

\* The sorted set k has not m.
Removed(db, k, m, d) ==
    /\ d \in Databases
    /\ d.data = db.data /\ d.hashes = db.hashes /\ d.vol = db.vol
    /\ \A x \in Keys : d.zsets[x] = IF x = k /\ db.data[k] = None /\ db.zsets[k] # None
                                    THEN db.zsets[k] \ {m} ELSE db.zsets[x]

\* ZREM.
LEMMA ZRemIs ==
    ASSUME NEW db \in Databases, NEW k \in Keys, NEW m \in Members, NEW d, d = ZRemDb(db, k, m)
    PROVE  Removed(db, k, m, d)
<1>1. CASE db.data[k] # None \/ db.zsets[k] = None
  BY <1>1 DEF Removed, ZRemDb
<1>2. CASE db.data[k] = None /\ db.zsets[k] # None
  <2>1. db.zsets[k] \ {m} \in SUBSET Members
    BY <1>2 DEF Removed, Databases
  <2> QED BY <1>2, <2>1 DEF Removed, ZRemDb, Databases
<1> QED BY <1>1, <1>2

\* The hash k has the fields F.
Hashed(db, k, F, d) ==
    /\ d \in Databases
    /\ d.data = db.data /\ d.zsets = db.zsets /\ d.vol = db.vol
    /\ \A x \in Keys : d.hashes[x] = IF x = k THEN db.hashes[k] \cup F ELSE db.hashes[x]

\* HSET.
LEMMA HSetIs ==
    ASSUME NEW db \in Databases, NEW k \in Keys, NEW F \in SUBSET Fields, NEW d, d = HSetDb(db, k, F)
    PROVE  Hashed(db, k, F, d)
BY DEF Hashed, HSetDb, Databases

\* Nothing is there to begin with.
LEMMA EmptyIs ==
    /\ Empty \in Sound
    /\ \A k \in Keys : Empty.data[k] = None /\ Empty.zsets[k] = None /\ Empty.hashes[k] = {}
    /\ Empty.vol = {}
BY DEF Empty, Sound, Databases, OneTypeDb

\* Only the hashes are left.
Flushed(db, d) ==
    /\ d \in Databases
    /\ \A x \in Keys : d.data[x] = None /\ d.zsets[x] = None
    /\ d.hashes = db.hashes /\ d.vol = {}

\* FLUSHDB.
LEMMA FlushIs ==
    ASSUME NEW db \in Databases, NEW d, d = FlushDb(db)
    PROVE  Flushed(db, d)
BY DEF Flushed, FlushDb, Empty, Databases

\* The string or sorted set k is gone.
Lapsed(db, k, d) ==
    /\ d \in Databases
    /\ \A x \in Keys :
          /\ d.data[x] = IF x = k THEN None ELSE db.data[x]
          /\ d.zsets[x] = IF x = k THEN None ELSE db.zsets[x]
    /\ d.hashes = db.hashes /\ d.vol = db.vol \ {k}

\* Lazy deletion, and serverCron's.
LEMMA LapseIs ==
    ASSUME NEW db \in Databases, NEW k \in Keys, NEW d, d = LapseDb(db, k)
    PROVE  Lapsed(db, k, d)
BY DEF Lapsed, LapseDb, Databases

\* A key that is deleted is free for a string, and no command puts two types
\* under one key.
LEMMA DelSound ==
    ASSUME NEW db \in Sound, NEW k \in Keys, NEW d, d = DelDb(db, k)
    PROVE  d \in Sound /\ d.data[k] = None /\ d.zsets[k] = None
<1>1. db \in Databases /\ db.vol \in SUBSET Keys
  BY Fields4 DEF Sound
<1>9. Deleted(db, k, d)
  BY <1>1, DelIs
<1> QED BY <1>1, <1>9 DEF Deleted, Sound, OneTypeDb

\* A string may be put where there is no sorted set.
LEMMA PutSound ==
    ASSUME NEW db \in Sound, NEW k \in Keys, NEW v \in Vals, NEW dated \in BOOLEAN,
           db.zsets[k] = None, NEW d, d = PutDb(db, k, v, dated)
    PROVE  d \in Sound
<1>1. db \in Databases /\ db.vol \in SUBSET Keys /\ v # None
  BY PersistenceAssumption, Fields4 DEF Sound
<1>9. Stored(db, k, v, dated, d)
  BY <1>1, PutIs
<1> QED BY <1>1, <1>9 DEF Stored, Sound, OneTypeDb

\* EXPIRE gives a deadline to what is there only.
LEMMA ExpireSound ==
    ASSUME NEW db \in Sound, NEW k \in Keys, NEW positive \in BOOLEAN,
           NEW d, d = ExpireDb(db, k, positive)
    PROVE  d \in Sound
<1>1. db \in Databases /\ db.vol \in SUBSET Keys
  BY Fields4 DEF Sound
<1>9. Dated(db, k, d)
  BY <1>1, ExpireIs
<1> QED BY <1>1, <1>9 DEF Dated, Sound, OneTypeDb

\* ZADD refuses a string.
LEMMA ZAddSound ==
    ASSUME NEW db \in Sound, NEW k \in Keys, NEW m \in Members, NEW d, d = ZAddDb(db, k, m)
    PROVE  d \in Sound
<1>1. db \in Databases /\ db.vol \in SUBSET Keys
  BY Fields4 DEF Sound
<1>2. MembersOf(db.zsets[k]) \cup {m} \in SUBSET Members
  BY <1>1, Fields4 DEF MembersOf
<1>3. MembersOf(db.zsets[k]) \cup {m} # None
  BY <1>2, PersistenceAssumption
<1>9. Added(db, k, m, d)
  BY <1>1, ZAddIs
<1> QED BY <1>1, <1>3, <1>9 DEF Added, Sound, OneTypeDb

\* ZREM leaves an empty sorted set behind, which may keep its deadline.
LEMMA ZRemSound ==
    ASSUME NEW db \in Sound, NEW k \in Keys, NEW m \in Members, NEW d, d = ZRemDb(db, k, m)
    PROVE  d \in Sound
<1>1. db \in Databases /\ db.vol \in SUBSET Keys
  BY Fields4 DEF Sound
<1>2. db.zsets[k] # None => db.zsets[k] \ {m} # None
  <2>1. db.zsets[k] # None => db.zsets[k] \ {m} \in SUBSET Members
    BY <1>1, Fields4
  <2> QED BY <2>1, PersistenceAssumption
<1>9. Removed(db, k, m, d)
  BY <1>1, ZRemIs
<1> QED BY <1>1, <1>2, <1>9 DEF Removed, Sound, OneTypeDb

\* HSET touches neither strings nor sorted sets.
LEMMA HSetSound ==
    ASSUME NEW db \in Sound, NEW k \in Keys, NEW F \in SUBSET Fields, NEW d, d = HSetDb(db, k, F)
    PROVE  d \in Sound
<1>1. db \in Databases /\ db.vol \in SUBSET Keys
  BY Fields4 DEF Sound
<1>9. Hashed(db, k, F, d)
  BY <1>1, HSetIs
<1> QED BY <1>1, <1>9 DEF Hashed, Sound, OneTypeDb

\* FLUSHDB removes every deadline with what had it.
LEMMA FlushSound ==
    ASSUME NEW db \in Sound, NEW d, d = FlushDb(db)
    PROVE  d \in Sound
<1>1. db \in Databases
  BY DEF Sound
<1>9. Flushed(db, d)
  BY <1>1, FlushIs
<1> QED BY <1>1, <1>9 DEF Flushed, Sound, OneTypeDb

\* So does a deadline that has passed.
LEMMA LapseSound ==
    ASSUME NEW db \in Sound, NEW k \in Keys, NEW d, d = LapseDb(db, k)
    PROVE  d \in Sound
<1>1. db \in Databases /\ db.vol \in SUBSET Keys
  BY Fields4 DEF Sound
<1>9. Lapsed(db, k, d)
  BY <1>1, LapseIs
<1> QED BY <1>1, <1>9 DEF Lapsed, Sound, OneTypeDb
-----------------------------------------------------------------------------
(***************************************************************************)
(* The replay of a log.                                                     *)
(***************************************************************************)
\* The records, by their command.
LEMMA RecordCases ==
    ASSUME NEW r \in Record
    PROVE  \/ r.op = "SET" /\ r.k \in Keys /\ r.v \in Vals
           \/ r.op = "DEL" /\ r.k \in Keys
           \/ r.op = "EXPIRE" /\ r.k \in Keys /\ r.positive \in BOOLEAN
           \/ r.op \in {"ZADD", "ZREM"} /\ r.k \in Keys /\ r.m \in Members
           \/ r.op = "HSET" /\ r.k \in Keys /\ r.F \in SUBSET Fields
           \/ r.op = "FLUSHDB"
           \/ r.op = "junk"
BY DEF Record, Junk

\* Any record, whatever came before it, leaves every key of one type.
LEMMA ApplySound ==
    ASSUME NEW db \in Sound, NEW r \in Record
    PROVE  Apply(db, r) \in Sound
<1>1. CASE r.op = "SET" /\ r.k \in Keys /\ r.v \in Vals
  <2>1. PICK d : d = DelDb(db, r.k)
    OBVIOUS
  <2>2. d \in Sound /\ d.zsets[r.k] = None
    BY <1>1, <2>1, DelSound
  <2>3. PutDb(d, r.k, r.v, FALSE) \in Sound
    BY <1>1, <2>2, PutSound
  <2> QED BY <1>1, <2>1, <2>3 DEF Apply
<1>2. CASE r.op = "DEL" /\ r.k \in Keys
  BY <1>2, DelSound DEF Apply
<1>3. CASE r.op = "EXPIRE" /\ r.k \in Keys /\ r.positive \in BOOLEAN
  BY <1>3, ExpireSound DEF Apply
<1>4. CASE r.op = "ZADD" /\ r.k \in Keys /\ r.m \in Members
  BY <1>4, ZAddSound DEF Apply
<1>5. CASE r.op = "ZREM" /\ r.k \in Keys /\ r.m \in Members
  BY <1>5, ZRemSound DEF Apply
<1>6. CASE r.op = "HSET" /\ r.k \in Keys /\ r.F \in SUBSET Fields
  BY <1>6, HSetSound DEF Apply
<1>7. CASE r.op = "FLUSHDB"
  BY <1>7, FlushSound DEF Apply
<1>8. CASE r.op = "junk"
  BY <1>8 DEF Apply
<1> QED BY <1>1, <1>2, <1>3, <1>4, <1>5, <1>6, <1>7, <1>8, RecordCases

\* The keyspaces that a log leads to, one after the other.
States(log, f) ==
    /\ f \in [0..Len(log) -> Sound]
    /\ f[0] = Empty
    /\ \A n \in 1..Len(log) : f[n] = Apply(f[n - 1], log[n])

\* Every log has them.
LEMMA StatesExist ==
    ASSUME NEW log \in Seq(Record)
    PROVE  \E f : States(log, f)
<1> DEFINE G == [n \in Nat |-> [db \in Sound |->
                    IF n + 1 \in 1..Len(log) THEN Apply(db, log[n + 1]) ELSE db]]
<1>1. G \in [Nat -> [Sound -> Sound]]
  <2> SUFFICES ASSUME NEW n \in Nat, NEW db \in Sound
               PROVE  (IF n + 1 \in 1..Len(log) THEN Apply(db, log[n + 1]) ELSE db) \in Sound
    OBVIOUS
  <2>1. CASE n + 1 \in 1..Len(log)
    <3>1. log[n + 1] \in Record
      BY <2>1
    <3> QED BY <2>1, <3>1, ApplySound
  <2> QED BY <2>1
<1>2. PICK f : Continues(f, Sound, Empty, G)
  <2>1. Empty \in Sound
    BY EmptyIs
  <2> HIDE DEF G
  <2> QED BY <1>1, <2>1, FunctionExists
<1> USE <1>2 DEF Continues
<1> DEFINE g == [n \in 0..Len(log) |-> f[n]]
<1>3. g \in [0..Len(log) -> Sound] /\ g[0] = Empty
  BY <1>2
<1>4. ASSUME NEW n \in 1..Len(log) PROVE g[n] = Apply(g[n - 1], log[n])
  <2>1. n - 1 \in Nat /\ (n - 1) + 1 = n /\ n \in 0..Len(log) /\ n - 1 \in 0..Len(log)
    OBVIOUS
  <2>2. f[n] = G[n - 1][f[n - 1]]
    BY <1>2, <2>1
  <2>3. f[n - 1] \in Sound
    BY <1>2, <2>1
  <2>4. f[n] = Apply(f[n - 1], log[n])
    BY <2>1, <2>2, <2>3
  <2> QED BY <2>1, <2>4
<1>5. States(log, g)
  <2> HIDE DEF g
  <2> QED BY <1>3, <1>4 DEF States
<1> QED BY <1>5

\* There is one such sequence, and Replay is its last keyspace.
LEMMA ReplayIs ==
    ASSUME NEW log \in Seq(Record), NEW f, States(log, f)
    PROVE  Replay(log) = f[Len(log)]
<1> DEFINE Runs(g) == g = [n \in 0..Len(log) |->
                             IF n = 0 THEN Empty ELSE Apply(g[n - 1], log[n])]
<1>1. Runs(f)
  <2>1. f = [n \in 0..Len(log) |-> f[n]]
    BY DEF States
  <2>2. ASSUME NEW n \in 0..Len(log)
        PROVE  f[n] = IF n = 0 THEN Empty ELSE Apply(f[n - 1], log[n])
    BY DEF States
  <2> QED BY <2>1, <2>2
<1> DEFINE h == CHOOSE g : Runs(g)
<1>2. Runs(h)
  <2> HIDE DEF Runs
  <2> QED BY <1>1
<1>3. Replay(log) = h[Len(log)]
  BY DEF Replay
<1> HIDE DEF h
<1> DEFINE S == {n \in Nat : n <= Len(log) => h[n] = f[n]}
<1>4. 0 \in S
  BY <1>1, <1>2
<1>5. ASSUME NEW n \in Nat, n \in S PROVE n + 1 \in S
  <2> SUFFICES ASSUME n + 1 <= Len(log) PROVE h[n + 1] = f[n + 1]
    OBVIOUS
  <2>1. n + 1 \in 0..Len(log) /\ n + 1 # 0 /\ (n + 1) - 1 = n /\ h[n] = f[n]
    BY <1>5
  <2> QED BY <1>1, <1>2, <2>1
<1>6. Nat \subseteq S
  <2> HIDE DEF S
  <2> QED BY <1>4, <1>5, SetInduction
<1> QED BY <1>3, <1>6

\* A log leads to a keyspace in which no key is of two types.
LEMMA ReplaySound ==
    ASSUME NEW log \in Seq(Record)
    PROVE  Replay(log) \in Sound
<1>1. PICK f : States(log, f)
  BY StatesExist
<1>2. Len(log) \in 0..Len(log)
  OBVIOUS
<1> QED BY <1>1, <1>2, ReplayIs DEF States

\* An empty log leads nowhere.
LEMMA ReplayEmpty == Replay(<<>>) = Empty
<1>1. <<>> \in Seq(Record) /\ Len(<<>>) = 0
  OBVIOUS
<1>2. PICK f : States(<<>>, f)
  BY <1>1, StatesExist
<1> QED BY <1>1, <1>2, ReplayIs DEF States

\* One record more is applied last.
LEMMA ReplayAppend ==
    ASSUME NEW log \in Seq(Record), NEW r \in Record
    PROVE  Replay(Append(log, r)) = Apply(Replay(log), r)
<1> DEFINE more == Append(log, r)
           n == Len(log)
<1>1. /\ more \in Seq(Record) /\ n \in Nat /\ Len(more) = n + 1
      /\ more[n + 1] = r /\ \A i \in 1..n : more[i] = log[i]
  OBVIOUS
<1> HIDE DEF more
<1>2. PICK f : States(more, f)
  BY <1>1, StatesExist
<1> DEFINE g == [i \in 0..n |-> f[i]]
<1>3. States(log, g)
  <2>1. \A i \in 0..n : i \in 0..Len(more)
    BY <1>1
  <2>2. g \in [0..Len(log) -> Sound] /\ g[0] = Empty
    BY <1>1, <1>2, <2>1 DEF States
  <2>3. ASSUME NEW i \in 1..n PROVE g[i] = Apply(g[i - 1], log[i])
    <3>1. i \in 1..Len(more) /\ i \in 0..n /\ i - 1 \in 0..n /\ more[i] = log[i]
      BY <1>1
    <3>2. f[i] = Apply(f[i - 1], more[i])
      BY <1>2, <3>1 DEF States
    <3> QED BY <3>1, <3>2
  <2> HIDE DEF g
  <2> QED BY <2>2, <2>3 DEF States
<1>4. Replay(log) = f[n]
  <2>1. g[n] = f[n]
    BY <1>1
  <2> HIDE DEF g
  <2> QED BY <1>3, <2>1, ReplayIs
<1>5. f[n + 1] = Apply(f[n], r)
  <2>1. n + 1 \in 1..Len(more) /\ (n + 1) - 1 = n
    BY <1>1
  <2> QED BY <1>1, <1>2, <2>1 DEF States
<1>6. Replay(more) = f[n + 1]
  BY <1>1, <1>2, ReplayIs
<1> QED BY <1>4, <1>5, <1>6 DEF more
-----------------------------------------------------------------------------
(***************************************************************************)
(* Logs without unreadable bytes.                                           *)
(***************************************************************************)
\* Of two parts, both are clean.
LEMMA CleanParts ==
    ASSUME NEW a \in Seq(Record), NEW b \in Seq(Record)
    PROVE  a \o b \in Seq(Record) /\ (Clean(a \o b) <=> Clean(a) /\ Clean(b))
<1> DEFINE c == a \o b
<1>1. /\ c \in Seq(Record) /\ Len(c) = Len(a) + Len(b)
      /\ \A i \in 1..Len(a) : c[i] = a[i]
      /\ \A i \in 1..Len(b) : c[i + Len(a)] = b[i]
  OBVIOUS
<1>2. Len(a) \in Nat /\ Len(b) \in Nat /\ DOMAIN c = 1..Len(c) /\ DOMAIN a = 1..Len(a) /\ DOMAIN b = 1..Len(b)
  BY <1>1
<1> HIDE DEF c
<1>3. ASSUME Clean(c) PROVE Clean(a) /\ Clean(b)
  <2>1. ASSUME NEW i \in 1..Len(a) PROVE a[i] # Junk
    <3>1. i \in 1..Len(c)
      BY <1>1, <1>2
    <3> QED BY <1>1, <1>2, <1>3, <3>1 DEF Clean
  <2>2. ASSUME NEW i \in 1..Len(b) PROVE b[i] # Junk
    <3>1. i + Len(a) \in 1..Len(c)
      BY <1>1, <1>2
    <3> QED BY <1>1, <1>2, <1>3, <3>1 DEF Clean
  <2> QED BY <1>2, <2>1, <2>2 DEF Clean
<1>4. ASSUME Clean(a), Clean(b) PROVE Clean(c)
  <2>1. ASSUME NEW i \in 1..Len(c) PROVE c[i] # Junk
    <3>1. CASE i \in 1..Len(a)
      BY <1>1, <1>2, <1>4, <3>1 DEF Clean
    <3>2. CASE i \notin 1..Len(a)
      <4>1. i - Len(a) \in 1..Len(b) /\ (i - Len(a)) + Len(a) = i
        BY <1>1, <1>2, <3>2
      <4>2. c[i] = b[i - Len(a)]
        BY <1>1, <4>1
      <4> QED BY <1>2, <1>4, <4>1, <4>2 DEF Clean
    <3> QED BY <3>1, <3>2
  <2> QED BY <1>2, <2>1 DEF Clean
<1> QED BY <1>1, <1>3, <1>4 DEF c

\* A log is clean after records are appended only if it was, and they are; it is
\* a log in any case, and no longer than both together.
LEMMA LoggedIs ==
    ASSUME NEW log \in Seq(Record), NEW recs \in Seq(Record)
    PROVE  /\ Logged(log, recs) \in Seq(Record)
           /\ Len(Logged(log, recs)) <= Len(log) + Len(recs)
           /\ Clean(Logged(log, recs)) <=> Clean(log) /\ Clean(recs)
           /\ Clean(log) /\ Clean(recs) => Logged(log, recs) = log \o recs
<1>1. CASE ~ Clean(log)
  BY <1>1 DEF Logged
<1>2. CASE Clean(log) /\ Clean(recs)
  <2>1. Logged(log, recs) = log \o recs
    BY <1>2 DEF Logged, Clean
  <2>2. Len(log \o recs) = Len(log) + Len(recs)
    OBVIOUS
  <2> QED BY <1>2, <2>1, <2>2, CleanParts
<1>3. CASE Clean(log) /\ ~ Clean(recs)
  <2> DEFINE First(i) == recs[i] = Junk /\ \A j \in 1..(i - 1) : recs[j] # Junk
             T == {i \in DOMAIN recs : recs[i] = Junk}
  <2>1. DOMAIN recs = 1..Len(recs) /\ Len(recs) \in Nat
    OBVIOUS
  <2>2. \E i \in DOMAIN recs : First(i)
    <3>1. T \in SUBSET Nat /\ T # {}
      BY <1>3, <2>1 DEF Clean
    <3>2. PICK i \in T : \A j \in T : i <= j
      <4> HIDE DEF T
      <4> QED BY <3>1, Lowest
    <3>3. ASSUME NEW j \in 1..(i - 1) PROVE recs[j] # Junk
      <4>1. j \in DOMAIN recs /\ ~ (i <= j)
        BY <2>1
      <4> QED BY <3>2, <4>1
    <3> QED BY <3>3
  <2> DEFINE m == CHOOSE i \in DOMAIN recs : First(i)
  <2>3. m \in DOMAIN recs /\ recs[m] = Junk
    BY <2>2
  <2>4. Logged(log, recs) = log \o SubSeq(recs, 1, m)
    BY <1>3 DEF Logged, Clean
  <2> HIDE DEF m
  <2>5. /\ SubSeq(recs, 1, m) \in Seq(Record) /\ Len(SubSeq(recs, 1, m)) = m
        /\ SubSeq(recs, 1, m)[m] = Junk
    BY <2>1, <2>3
  <2>6. PICK s \in Seq(Record) : s = SubSeq(recs, 1, m)
    BY <2>5
  <2>7. Len(s) = m /\ s[m] = Junk /\ m \in 1..Len(recs) /\ DOMAIN s = 1..m
    BY <2>1, <2>3, <2>5, <2>6
  <2>8. ~ Clean(s)
    BY <2>1, <2>7 DEF Clean
  <2>9. log \o s \in Seq(Record) /\ ~ Clean(log \o s)
    BY <2>8, CleanParts
  <2>10. Len(log \o s) = Len(log) + m /\ m <= Len(recs) /\ Len(log) \in Nat
    BY <2>1, <2>7
  <2>11. Logged(log, recs) = log \o s
    BY <2>4, <2>6
  <2> QED BY <1>3, <2>1, <2>7, <2>9, <2>10, <2>11
<1> QED BY <1>1, <1>2, <1>3
-----------------------------------------------------------------------------
(***************************************************************************)
(* The parts of a rewritten file: for each key in turn, its records.         *)
(***************************************************************************)
\* The records of the first keys, behind a log.
Flat(log, seqs, f) ==
    /\ f \in [0..Len(seqs) -> Seq(Record)]
    /\ f[0] = log
    /\ \A n \in 1..Len(seqs) : f[n] = f[n - 1] \o seqs[n]

\* Every sequence of parts has them.
LEMMA FlatExists ==
    ASSUME NEW seqs \in Seq(Seq(Record))
    PROVE  \E f : Flat(<<>>, seqs, f)
<1> DEFINE D == Seq(Record)
           G == [n \in Nat |-> [s \in D |->
                    IF n + 1 \in 1..Len(seqs) THEN s \o seqs[n + 1] ELSE s]]
<1>1. G \in [Nat -> [D -> D]]
  <2> SUFFICES ASSUME NEW n \in Nat, NEW s \in D
               PROVE  (IF n + 1 \in 1..Len(seqs) THEN s \o seqs[n + 1] ELSE s) \in D
    OBVIOUS
  <2>1. CASE n + 1 \in 1..Len(seqs)
    <3>1. seqs[n + 1] \in Seq(Record)
      BY <2>1
    <3> QED BY <2>1, <3>1
  <2> QED BY <2>1
<1>2. PICK f : Continues(f, D, <<>>, G)
  <2>1. <<>> \in D
    OBVIOUS
  <2> HIDE DEF G, D
  <2> QED BY <1>1, <2>1, FunctionExists
<1> DEFINE g == [n \in 0..Len(seqs) |-> f[n]]
<1>3. g \in [0..Len(seqs) -> Seq(Record)] /\ g[0] = <<>>
  BY <1>2 DEF Continues
<1>4. ASSUME NEW n \in 1..Len(seqs) PROVE g[n] = g[n - 1] \o seqs[n]
  <2>1. n - 1 \in Nat /\ (n - 1) + 1 = n /\ n \in 0..Len(seqs) /\ n - 1 \in 0..Len(seqs)
    OBVIOUS
  <2>2. f[n] = G[n - 1][f[n - 1]] /\ f[n - 1] \in D
    <3> HIDE DEF G, D
    <3> QED BY <1>2, <2>1 DEF Continues
  <2>3. f[n] = f[n - 1] \o seqs[n]
    BY <2>1, <2>2
  <2> QED BY <2>1, <2>3
<1>5. Flat(<<>>, seqs, g)
  <2> HIDE DEF g
  <2> QED BY <1>3, <1>4 DEF Flat
<1> QED BY <1>5

\* FlattenSeq is the last of them.
LEMMA FlattenIs ==
    ASSUME NEW seqs \in Seq(Seq(Record)), NEW f, Flat(<<>>, seqs, f)
    PROVE  FlattenSeq(seqs) = f[Len(seqs)]
<1>1. CASE Len(seqs) = 0
  <2>1. seqs = <<>> /\ FlattenSeq(seqs) = seqs
    BY <1>1 DEF FlattenSeq
  <2> QED BY <1>1, <2>1 DEF Flat
<1>2. CASE Len(seqs) # 0
  <2> DEFINE Runs(g) == g = [i \in 1..Len(seqs) |->
                               IF i = 1 THEN seqs[i] ELSE g[i - 1] \o seqs[i]]
             w == [i \in 1..Len(seqs) |-> f[i]]
             h == CHOOSE g : Runs(g)
  <2>1. Runs(w)
    <3> SUFFICES ASSUME NEW i \in 1..Len(seqs)
                 PROVE  f[i] = IF i = 1 THEN seqs[i] ELSE w[i - 1] \o seqs[i]
      OBVIOUS
    <3>1. f[i] = f[i - 1] \o seqs[i] /\ f[0] = <<>> /\ seqs[i] \in Seq(Record)
      BY DEF Flat
    <3>2. CASE i = 1
      <4>1. <<>> \o seqs[i] = seqs[i]
        BY <3>1
      <4>2. i - 1 = 0
        BY <3>2
      <4>3. f[i] = seqs[i]
        BY <3>1, <4>1, <4>2
      <4> QED BY <3>2, <4>3
    <3>3. CASE i # 1
      <4>1. i - 1 \in 1..Len(seqs)
        BY <3>3
      <4>2. w[i - 1] = f[i - 1]
        BY <4>1
      <4> HIDE DEF w
      <4> QED BY <3>1, <3>3, <4>2
    <3> QED BY <3>2, <3>3
  <2>2. Runs(h)
    <3> HIDE DEF Runs, w
    <3> QED BY <2>1
  <2>3. FlattenSeq(seqs) = h[Len(seqs)]
    BY <1>2 DEF FlattenSeq
  <2> HIDE DEF h
  <2> DEFINE S == {n \in Nat : n \in 1..Len(seqs) => h[n] = w[n]}
  <2>4. 0 \in S
    OBVIOUS
  <2>5. ASSUME NEW n \in Nat, n \in S PROVE n + 1 \in S
    <3> SUFFICES ASSUME n + 1 \in 1..Len(seqs) PROVE h[n + 1] = w[n + 1]
      OBVIOUS
    <3> HIDE DEF w
    <3>1. CASE n = 0
      BY <2>1, <2>2, <3>1
    <3>2. CASE n # 0
      <4>1. n \in 1..Len(seqs) /\ (n + 1) - 1 = n /\ n + 1 # 1 /\ h[n] = w[n]
        BY <2>5, <3>2
      <4>2. h[n + 1] = h[n] \o seqs[n + 1]
        BY <2>2, <4>1
      <4>3. w[n + 1] = w[n] \o seqs[n + 1]
        BY <2>1, <4>1
      <4> QED BY <4>1, <4>2, <4>3
    <3> QED BY <3>1, <3>2
  <2>6. Nat \subseteq S
    <3> HIDE DEF S
    <3> QED BY <2>4, <2>5, SetInduction
  <2>7. Len(seqs) \in 1..Len(seqs) /\ Len(seqs) \in Nat
    BY <1>2
  <2>8. h[Len(seqs)] = w[Len(seqs)]
    <3> HIDE DEF w
    <3> QED BY <2>6, <2>7
  <2> QED BY <2>3, <2>7, <2>8
<1> QED BY <1>1, <1>2

\* The whole is clean if each part is.
LEMMA FlatClean ==
    ASSUME NEW seqs \in Seq(Seq(Record)), NEW f, Flat(<<>>, seqs, f)
    PROVE  /\ f[Len(seqs)] \in Seq(Record)
           /\ Clean(f[Len(seqs)]) <=> \A i \in 1..Len(seqs) : Clean(seqs[i])
<1>0. Len(seqs) \in Nat /\ \A n \in 1..Len(seqs) : seqs[n] \in Seq(Record)
  OBVIOUS
<1> DEFINE S == {n \in Nat : n <= Len(seqs) =>
                    (Clean(f[n]) <=> \A i \in 1..n : Clean(seqs[i]))}
<1>1. 0 \in S
  <2>1. Clean(<<>>)
    BY DEF Clean
  <2> QED BY <2>1 DEF Flat
<1>2. ASSUME NEW n \in Nat, n \in S PROVE n + 1 \in S
  <2> SUFFICES ASSUME n + 1 <= Len(seqs)
               PROVE  Clean(f[n + 1]) <=> \A i \in 1..(n + 1) : Clean(seqs[i])
    OBVIOUS
  <2>1. /\ n + 1 \in 1..Len(seqs) /\ n \in 0..Len(seqs) /\ (n + 1) - 1 = n
        /\ \A i \in 1..(n + 1) : i \in 1..n \/ i = n + 1
        /\ \A i \in 1..n : i \in 1..(n + 1)
    BY <1>0
  <2>2. f[n + 1] = f[n] \o seqs[n + 1] /\ f[n] \in Seq(Record) /\ seqs[n + 1] \in Seq(Record)
    BY <1>0, <2>1 DEF Flat
  <2>3. Clean(f[n + 1]) <=> Clean(f[n]) /\ Clean(seqs[n + 1])
    BY <2>2, CleanParts
  <2>4. Clean(f[n]) <=> \A i \in 1..n : Clean(seqs[i])
    BY <1>0, <1>2
  <2> QED BY <2>1, <2>3, <2>4
<1>3. Nat \subseteq S
  <2> HIDE DEF S
  <2> QED BY <1>1, <1>2, SetInduction
<1>4. Len(seqs) \in S /\ Len(seqs) \in 0..Len(seqs)
  <2> HIDE DEF S
  <2> QED BY <1>0, <1>3
<1>5. f[Len(seqs)] \in Seq(Record)
  BY <1>4 DEF Flat
<1> QED BY <1>0, <1>4, <1>5

\* Nothing but empty parts make an empty whole.
LEMMA FlatNothing ==
    ASSUME NEW seqs \in Seq(Seq(Record)), NEW f, Flat(<<>>, seqs, f),
           \A i \in 1..Len(seqs) : seqs[i] = <<>>
    PROVE  f[Len(seqs)] = <<>>
<1> DEFINE S == {n \in Nat : n <= Len(seqs) => f[n] = <<>>}
<1>1. 0 \in S
  BY DEF Flat
<1>2. ASSUME NEW n \in Nat, n \in S PROVE n + 1 \in S
  <2> SUFFICES ASSUME n + 1 <= Len(seqs) PROVE f[n + 1] = <<>>
    OBVIOUS
  <2>1. n + 1 \in 1..Len(seqs) /\ (n + 1) - 1 = n /\ f[n] = <<>>
    BY <1>2
  <2>2. f[n + 1] = f[n] \o seqs[n + 1] /\ seqs[n + 1] = <<>>
    BY <2>1 DEF Flat
  <2>3. <<>> \o <<>> = <<>>
    OBVIOUS
  <2> QED BY <2>1, <2>2, <2>3
<1>3. Nat \subseteq S
  <2> HIDE DEF S
  <2> QED BY <1>1, <1>2, SetInduction
<1>4. Len(seqs) \in S
  <2>1. Len(seqs) \in Nat
    OBVIOUS
  <2> HIDE DEF S
  <2> QED BY <1>3, <2>1
<1> QED BY <1>4

\* A dictionary has each key once.
LEMMA OrderIs ==
    ASSUME NEW order \in SetToSeqs(Keys)
    PROVE  /\ DOMAIN order = 1..Cardinality(Keys) /\ Cardinality(Keys) \in Nat
           /\ \A i \in 1..Cardinality(Keys) : order[i] \in Keys
           /\ \A k \in Keys : \E i \in 1..Cardinality(Keys) : order[i] = k
           /\ \A i, j \in 1..Cardinality(Keys) : order[i] = order[j] => i = j
<1> DEFINE n == Cardinality(Keys)
<1>1. n \in Nat /\ IsFiniteSet(Keys)
  BY FS_CardinalityType, PersistenceAssumption
<1>2. order \in [1..n -> Keys] /\ \A i, j \in 1..n : order[i] = order[j] => i = j
  BY DEF SetToSeqs
<1>3. order \in Injection(1..n, Keys)
  BY <1>2 DEF Injection, IsInjective
<1>4. Cardinality(1..n) = n
  BY <1>1, FS_Interval
<1>5. order \in Surjection(1..n, Keys)
  BY <1>1, <1>3, <1>4, FS_Injection
<1> QED BY <1>1, <1>2, <1>5 DEF Surjection

\* One record is clean, unless it is unreadable.
LEMMA OneRecord ==
    /\ <<>> \in Seq(Record) /\ Clean(<<>>)
    /\ <<Junk>> \in Seq(Record) /\ ~ Clean(<<Junk>>)
    /\ \A r \in Record : r.op # "junk" => <<r>> \in Seq(Record) /\ Clean(<<r>>)
<1>1. Junk \in Record
  BY DEF Record
<1>2. ASSUME NEW r \in Record, r.op # "junk" PROVE <<r>> \in Seq(Record) /\ Clean(<<r>>)
  <2>1. r # Junk
    BY <1>2 DEF Junk
  <2> QED BY <2>1 DEF Clean
<1>3. Clean(<<>>) /\ ~ Clean(<<Junk>>)
  BY DEF Clean
<1> QED BY <1>1, <1>2, <1>3

\* What is written for a string: nothing, one record, or something unreadable.
LEMMA StringRecsIs ==
    ASSUME NEW db \in Databases, NEW k \in Keys, NEW recs, recs = StringRecs(db, k)
    PROVE  /\ recs \in Seq(Record)
           /\ Clean(recs) <=> (db.data[k] # None => k \notin db.vol)
           /\ Clean(recs) =>
                 recs = IF db.data[k] = None THEN <<>>
                        ELSE <<[op |-> "SET", k |-> k, v |-> db.data[k]]>>
<1>1. CASE db.data[k] = None
  BY <1>1, OneRecord DEF StringRecs
<1>2. CASE db.data[k] # None
  <2>1. PICK r : r = [op |-> "SET", k |-> k, v |-> db.data[k]]
    OBVIOUS
  <2>2. r \in Record /\ r.op # "junk"
    <3>1. db.data[k] \in Vals
      BY <1>2 DEF Databases
    <3> QED BY <2>1, <3>1 DEF Record
  <2>3. <<r>> \in Seq(Record) /\ Clean(<<r>>)
    BY <2>2, OneRecord
  <2>4. CASE k \in db.vol
    <3>1. recs = <<r>> \o <<Junk>>
      BY <1>2, <2>1, <2>4 DEF StringRecs
    <3>2. recs \in Seq(Record) /\ ~ Clean(recs)
      BY <2>3, <3>1, OneRecord, CleanParts
    <3> QED BY <1>2, <2>4, <3>2
  <2>5. CASE k \notin db.vol
    <3>1. recs = <<r>> \o <<>>
      BY <1>2, <2>1, <2>5 DEF StringRecs
    <3>2. recs = <<r>>
      BY <2>3, <3>1
    <3> QED BY <1>2, <2>1, <2>3, <2>5, <3>2
  <2> QED BY <2>4, <2>5
<1> QED BY <1>1, <1>2

\* For a sorted set: nothing, if it has no members.
LEMMA ZSetRecsIs ==
    ASSUME NEW db \in Databases, NEW k \in Keys, NEW recs, recs = ZSetRecs(db, k)
    PROVE  /\ recs \in Seq(Record)
           /\ Clean(recs) <=> MembersOf(db.zsets[k]) = {}
           /\ Clean(recs) => recs = <<>>
BY OneRecord DEF ZSetRecs

\* For a hash: at most one record.
LEMMA HashRecsIs ==
    ASSUME NEW db \in Databases, NEW k \in Keys, NEW recs, recs = HashRecs(db, k)
    PROVE  /\ recs \in Seq(Record) /\ Clean(recs)
           /\ recs = IF db.hashes[k] = {} THEN <<>>
                     ELSE <<[op |-> "HSET", k |-> k, F |-> db.hashes[k]]>>
<1>1. CASE db.hashes[k] = {}
  BY <1>1, OneRecord DEF HashRecs
<1>2. CASE db.hashes[k] # {}
  <2>1. PICK r : r = [op |-> "HSET", k |-> k, F |-> db.hashes[k]]
    OBVIOUS
  <2>2. r \in Record /\ r.op # "junk"
    <3>1. db.hashes[k] \in SUBSET Fields
      BY DEF Databases
    <3> QED BY <2>1, <3>1 DEF Record
  <2>3. recs = <<r>>
    BY <1>2, <2>1 DEF HashRecs
  <2> QED BY <1>2, <2>1, <2>2, <2>3, OneRecord
<1> QED BY <1>1, <1>2

\* The strings of the first keys, replayed.
LEMMA ReplayStrings ==
    ASSUME NEW db \in Databases, NEW order \in SetToSeqs(Keys),
           NEW seqs \in Seq(Seq(Record)), Len(seqs) = Cardinality(Keys),
           \A i \in 1..Len(seqs) : seqs[i] = StringRecs(db, order[i]) /\ Clean(seqs[i]),
           NEW f, Flat(<<>>, seqs, f)
    PROVE  \A k \in Keys : /\ Replay(f[Len(seqs)]).data[k] = db.data[k]
                           /\ Replay(f[Len(seqs)]).zsets[k] = None
                           /\ Replay(f[Len(seqs)]).hashes[k] = {}
<1> DEFINE n == Cardinality(Keys)
           Done(i) == {order[j] : j \in 1..i}
           Right(r, i) == \A k \in Keys : /\ r.data[k] = IF k \in Done(i) THEN db.data[k] ELSE None
                                          /\ r.zsets[k] = None /\ r.hashes[k] = {}
           S == {i \in Nat : i <= n => Right(Replay(f[i]), i)}
<1>1. /\ n \in Nat /\ \A i \in 1..n : order[i] \in Keys
      /\ \A i, j \in 1..n : order[i] = order[j] => i = j
      /\ \A k \in Keys : \E i \in 1..n : order[i] = k
  BY OrderIs
<1>2. 0 \in S
  <2>1. Replay(f[0]) = Empty /\ Done(0) = {}
    BY ReplayEmpty DEF Flat
  <2> QED BY <2>1, EmptyIs
<1>3. ASSUME NEW i \in Nat, i \in S PROVE i + 1 \in S
  <2> SUFFICES ASSUME i + 1 <= n PROVE Right(Replay(f[i + 1]), i + 1)
    OBVIOUS
  <2>1. PICK k0 \in Keys : k0 = order[i + 1]
    BY <1>1
  <2>2. Done(i + 1) = Done(i) \cup {k0} /\ k0 \notin Done(i)
    <3>1. \A j \in 1..(i + 1) : j \in 1..i \/ j = i + 1
      OBVIOUS
    <3>2. \A j \in 1..i : j \in 1..(i + 1) /\ j \in 1..n /\ j # i + 1
      BY <1>1
    <3>3. i + 1 \in 1..(i + 1) /\ i + 1 \in 1..n
      BY <1>1
    <3> QED BY <1>1, <2>1, <3>1, <3>2, <3>3
  <2> HIDE DEF Done
  <2>3. i + 1 \in 1..Len(seqs) /\ i \in 0..Len(seqs) /\ (i + 1) - 1 = i
    BY <1>1
  <2>4. f[i] \in Seq(Record) /\ f[i + 1] = f[i] \o seqs[i + 1]
    BY <2>3 DEF Flat
  <2>5. PICK r \in Sound : r = Replay(f[i])
    BY <2>4, ReplaySound
  <2>6. Right(r, i)
    BY <1>1, <1>3, <2>5
  <2>7. seqs[i + 1] = IF db.data[k0] = None THEN <<>>
                      ELSE <<[op |-> "SET", k |-> k0, v |-> db.data[k0]]>>
    BY <2>1, <2>3, StringRecsIs
  <2>8. CASE db.data[k0] = None
    <3>1. f[i + 1] = f[i]
      BY <2>4, <2>7, <2>8
    <3> QED BY <2>2, <2>5, <2>6, <2>8, <3>1
  <2>9. CASE db.data[k0] # None
    <3>1. PICK x : x = [op |-> "SET", k |-> k0, v |-> db.data[k0]]
      OBVIOUS
    <3>2. x \in Record /\ db.data[k0] \in Vals
      <4>1. db.data[k0] \in Vals
        BY <2>9 DEF Databases
      <4> QED BY <3>1, <4>1 DEF Record
    <3>3. f[i + 1] = Append(f[i], x)
      BY <2>4, <2>7, <2>9, <3>1
    <3>4. Replay(f[i + 1]) = Apply(r, x)
      BY <2>4, <2>5, <3>2, <3>3, ReplayAppend
    <3>5. PICK d : d = DelDb(r, k0)
      OBVIOUS
    <3>6. r \in Databases /\ Deleted(r, k0, d)
      BY <3>5, DelIs DEF Sound
    <3>7. Apply(r, x) = PutDb(d, k0, db.data[k0], FALSE)
      BY <3>1, <3>5 DEF Apply
    <3>8. PICK e : e = Replay(f[i + 1])
      OBVIOUS
    <3>9. Stored(d, k0, db.data[k0], FALSE, e)
      BY <3>2, <3>4, <3>6, <3>7, <3>8, PutIs DEF Deleted
    <3> QED BY <2>2, <2>6, <3>6, <3>8, <3>9 DEF Deleted, Stored
  <2> QED BY <2>8, <2>9
<1>4. Nat \subseteq S
  <2> HIDE DEF S
  <2> QED BY <1>2, <1>3, SetInduction
<1>5. Right(Replay(f[n]), n)
  <2> HIDE DEF Right
  <2> QED BY <1>1, <1>4
<1>6. \A k \in Keys : k \in Done(n)
  BY <1>1
<1> QED BY <1>5, <1>6

\* It does not matter which two of three logs are joined first.
Joined(a, b, c) == a \o (b \o c) = (a \o b) \o c

\* It never does.
LEMMA Associates ==
    ASSUME NEW a \in Seq(Record), NEW b \in Seq(Record), NEW c \in Seq(Record)
    PROVE  Joined(a, b, c)
<1>1. Len(a) \in Nat /\ Len(b) \in Nat /\ Len(c) \in Nat
  OBVIOUS
<1>2. a \o b \in Seq(Record) /\ b \o c \in Seq(Record)
  OBVIOUS
<1>3. Len(a \o b) = Len(a) + Len(b) /\ Len(b \o c) = Len(b) + Len(c)
  OBVIOUS
<1> QED BY <1>1, <1>2, <1>3 DEF Joined

\* The same records behind a log.
LEMMA FlatBehind ==
    ASSUME NEW seqs \in Seq(Seq(Record)), NEW f, Flat(<<>>, seqs, f), NEW log \in Seq(Record),
           NEW g, g = [i \in 0..Len(seqs) |-> log \o f[i]]
    PROVE  Flat(log, seqs, g)
<1>1. /\ Len(seqs) \in Nat /\ \A i \in 1..Len(seqs) : seqs[i] \in Seq(Record)
      /\ \A i \in 0..Len(seqs) : f[i] \in Seq(Record)
      /\ f[0] = <<>> /\ \A i \in 1..Len(seqs) : f[i] = f[i - 1] \o seqs[i]
  BY SMTT(30) DEF Flat
<1>2. g \in [0..Len(seqs) -> Seq(Record)]
  <2> SUFFICES ASSUME NEW i \in 0..Len(seqs) PROVE log \o f[i] \in Seq(Record)
    OBVIOUS
  <2>1. PICK r \in Seq(Record) : r = f[i]
    BY <1>1
  <2> QED BY <2>1
<1>3. g[0] = log
  <2>1. log \o <<>> = log /\ 0 \in 0..Len(seqs)
    BY <1>1
  <2> QED BY <1>1, <2>1
<1>4. ASSUME NEW i \in 1..Len(seqs) PROVE g[i] = g[i - 1] \o seqs[i]
  <2>1. i \in 0..Len(seqs) /\ i - 1 \in 0..Len(seqs)
    BY <1>1
  <2>2. g[i] = log \o f[i] /\ g[i - 1] = log \o f[i - 1]
    BY <2>1
  <2>3. PICK r \in Seq(Record), x \in Seq(Record) : r = f[i - 1] /\ x = seqs[i] /\ f[i] = r \o x
    BY <1>1, <2>1
  <2>4. Joined(log, r, x)
    BY Associates
  <2>6. log \o (r \o x) = (log \o r) \o x
    BY <2>4 DEF Joined
  <2> QED BY <2>2, <2>3, <2>6
<1> QED BY <1>2, <1>3, <1>4 DEF Flat

\* f has the hashes of db, record by record, after a log without hashes.
HashesFollow(db, order, seqs, log, f) ==
    /\ db \in Databases /\ order \in SetToSeqs(Keys)
    /\ seqs \in Seq(Seq(Record)) /\ Len(seqs) = Cardinality(Keys)
    /\ \A i \in 1..Len(seqs) : seqs[i] = HashRecs(db, order[i])
    /\ log \in Seq(Record) /\ Flat(log, seqs, f)
    /\ \A k \in Keys : Replay(log).hashes[k] = {}

\* The last of them leaves what the log had, and every hash.
LEMMA ReplayHashes ==
    ASSUME NEW db, NEW order, NEW seqs, NEW log, NEW f, HashesFollow(db, order, seqs, log, f)
    PROVE  \A k \in Keys :
              /\ Replay(f[Len(seqs)]).data[k] = Replay(log).data[k]
              /\ Replay(f[Len(seqs)]).zsets[k] = Replay(log).zsets[k]
              /\ Replay(f[Len(seqs)]).hashes[k] = db.hashes[k]
<1> USE DEF HashesFollow
<1> DEFINE n == Cardinality(Keys)
           Done(i) == {order[j] : j \in 1..i}
           Right(r, i) == \A k \in Keys :
                             /\ r.data[k] = Replay(log).data[k] /\ r.zsets[k] = Replay(log).zsets[k]
                             /\ r.hashes[k] = IF k \in Done(i) THEN db.hashes[k] ELSE {}
           S == {i \in Nat : i <= n => Right(Replay(f[i]), i)}
<1>1. /\ n \in Nat /\ \A i \in 1..n : order[i] \in Keys
      /\ \A i, j \in 1..n : order[i] = order[j] => i = j
      /\ \A k \in Keys : \E i \in 1..n : order[i] = k
  BY OrderIs
<1>2. 0 \in S
  <2>1. f[0] = log /\ Done(0) = {}
    BY DEF Flat
  <2> QED BY <2>1
<1>3. ASSUME NEW i \in Nat, i \in S PROVE i + 1 \in S
  <2> HIDE DEF Right
  <2> SUFFICES ASSUME i + 1 <= n PROVE Right(Replay(f[i + 1]), i + 1)
    OBVIOUS
  <2> USE DEF Right
  <2>1. PICK k0 \in Keys : k0 = order[i + 1]
    BY <1>1
  <2>2. Done(i + 1) = Done(i) \cup {k0} /\ k0 \notin Done(i)
    <3>1. \A j \in 1..(i + 1) : j \in 1..i \/ j = i + 1
      OBVIOUS
    <3>2. \A j \in 1..i : j \in 1..(i + 1) /\ j \in 1..n /\ j # i + 1
      BY <1>1
    <3>3. i + 1 \in 1..(i + 1) /\ i + 1 \in 1..n
      BY <1>1
    <3> QED BY <1>1, <2>1, <3>1, <3>2, <3>3
  <2> HIDE DEF Done
  <2>3. i + 1 \in 1..Len(seqs) /\ i \in 0..Len(seqs) /\ (i + 1) - 1 = i
    BY <1>1
  <2>4. f[i] \in Seq(Record) /\ f[i + 1] = f[i] \o seqs[i + 1]
    BY <2>3 DEF Flat
  <2>5. PICK r \in Sound : r = Replay(f[i])
    BY <2>4, ReplaySound
  <2>7. Right(r, i)
    BY <1>1, <1>3, <2>5
  <2>8. seqs[i + 1] = IF db.hashes[k0] = {} THEN <<>>
                      ELSE <<[op |-> "HSET", k |-> k0, F |-> db.hashes[k0]]>>
    BY <2>1, <2>3, HashRecsIs
  <2>9. CASE db.hashes[k0] = {}
    <3>1. f[i + 1] = f[i]
      BY <2>4, <2>8, <2>9
    <3> QED BY <2>2, <2>5, <2>7, <2>9, <3>1
  <2>10. CASE db.hashes[k0] # {}
    <3>1. PICK x : x = [op |-> "HSET", k |-> k0, F |-> db.hashes[k0]]
      OBVIOUS
    <3>2. x \in Record /\ db.hashes[k0] \in SUBSET Fields
      <4>1. db.hashes[k0] \in SUBSET Fields
        BY DEF Databases
      <4> QED BY <3>1, <4>1 DEF Record
    <3>3. f[i + 1] = Append(f[i], x)
      <4>1. PICK before \in Seq(Record) : before = f[i]
        BY <2>4
      <4>2. before \o <<x>> = Append(before, x)
        OBVIOUS
      <4> QED BY <2>4, <2>8, <2>10, <3>1, <4>1, <4>2
    <3>5. PICK e : e = Replay(f[i + 1])
      OBVIOUS
    <3>6. e = Apply(r, x)
      BY <2>4, <2>5, <3>2, <3>3, <3>5, ReplayAppend
    <3>7. e = HSetDb(r, k0, db.hashes[k0])
      BY <3>1, <3>6 DEF Apply
    <3>8. Hashed(r, k0, db.hashes[k0], e)
      BY <3>2, <3>7, HSetIs DEF Sound
    <3> QED BY <2>2, <2>7, <3>5, <3>8 DEF Hashed
  <2> QED BY <2>9, <2>10
<1>4. Nat \subseteq S
  <2> HIDE DEF S
  <2> QED BY <1>2, <1>3, SetInduction
<1>5. Right(Replay(f[n]), n)
  <2> HIDE DEF Right
  <2> QED BY <1>1, <1>4
<1>6. \A k \in Keys : k \in Done(n)
  BY SMTT(60), <1>1
<1> QED BY <1>5, <1>6

\* What rewrite_aof writes: strings and sorted sets past their deadline are skipped.
Kept(db, due) ==
    [db EXCEPT !.data = [k \in Keys |-> IF k \in due THEN None ELSE @[k]],
               !.zsets = [k \in Keys |-> IF k \in due THEN None ELSE @[k]]]

\* Only strings and sorted sets are skipped.
LEMMA KeptIs ==
    ASSUME NEW db \in Databases, NEW due, NEW d, d = Kept(db, due)
    PROVE  /\ d \in Databases /\ d.hashes = db.hashes /\ d.vol = db.vol
           /\ \A k \in Keys : /\ d.data[k] = IF k \in due THEN None ELSE db.data[k]
                              /\ d.zsets[k] = IF k \in due THEN None ELSE db.zsets[k]
BY DEF Kept, Databases

\* A keyspace that can be written so that it is read again.
Plain(db) ==
    \A k \in Keys : (db.data[k] # None => k \notin db.vol) /\ MembersOf(db.zsets[k]) = {}

\* rewrite_aof's file is a log; it is clean if there are no deadlines and sorted
\* sets, and it then has every string and hash, in whatever order the
\* dictionaries have them.
LEMMA RewrittenIs ==
    ASSUME NEW db \in Databases, NEW due, NEW order \in SetToSeqs(Keys),
           NEW log, log = Rewritten(db, order, due), NEW kept, kept = Kept(db, due)
    PROVE  /\ log \in Seq(Record)
           /\ Clean(log) <=> Plain(kept)
           /\ Clean(log) => \A k \in Keys : /\ Replay(log).data[k] = kept.data[k]
                                            /\ Replay(log).zsets[k] = None
                                            /\ Replay(log).hashes[k] = kept.hashes[k]
<1> DEFINE n == Cardinality(Keys)
<1>1. /\ n \in Nat /\ \A i \in 1..n : order[i] \in Keys
      /\ \A k \in Keys : \E i \in 1..n : order[i] = k
      /\ DOMAIN order = 1..n
  BY OrderIs
<1>2. kept \in Databases
  BY KeptIs
<1>3. PICK A : A = [i \in DOMAIN order |-> StringRecs(kept, order[i])]
  OBVIOUS
<1>4. PICK B : B = [i \in DOMAIN order |-> ZSetRecs(kept, order[i])]
  OBVIOUS
<1>5. PICK C : C = [i \in DOMAIN order |-> HashRecs(kept, order[i])]
  OBVIOUS
<1>6. log = Logged(<<>>, FlattenSeq(A) \o FlattenSeq(B) \o FlattenSeq(C))
  BY <1>3, <1>4, <1>5 DEF Rewritten, Kept
<1>7. /\ A \in Seq(Seq(Record)) /\ Len(A) = n
      /\ \A i \in 1..n : /\ A[i] = StringRecs(kept, order[i])
                         /\ Clean(A[i]) <=> (kept.data[order[i]] # None => order[i] \notin kept.vol)
  <2>0. A \in [1..n -> Seq(Record)]
    BY <1>1, <1>2, <1>3, StringRecsIs
  <2>1. A \in Seq(Seq(Record)) /\ Len(A) = n
    BY <1>1, <2>0
  <2>2. \A i \in 1..n : /\ A[i] = StringRecs(kept, order[i])
                        /\ Clean(A[i]) <=> (kept.data[order[i]] # None => order[i] \notin kept.vol)
    BY <1>1, <1>2, <1>3, StringRecsIs
  <2> QED BY <2>1, <2>2
<1>8. /\ B \in Seq(Seq(Record)) /\ Len(B) = n
      /\ \A i \in 1..n : /\ Clean(B[i]) <=> MembersOf(kept.zsets[order[i]]) = {}
                         /\ Clean(B[i]) => B[i] = <<>>
  <2>0. B \in [1..n -> Seq(Record)]
    BY <1>1, <1>2, <1>4, ZSetRecsIs
  <2>1. B \in Seq(Seq(Record)) /\ Len(B) = n
    BY <1>1, <2>0
  <2>2. \A i \in 1..n : /\ Clean(B[i]) <=> MembersOf(kept.zsets[order[i]]) = {}
                        /\ Clean(B[i]) => B[i] = <<>>
    BY <1>1, <1>2, <1>4, ZSetRecsIs
  <2> QED BY <2>1, <2>2
<1>9. /\ C \in Seq(Seq(Record)) /\ Len(C) = n
      /\ \A i \in 1..n : C[i] = HashRecs(kept, order[i]) /\ Clean(C[i])
  <2>0. C \in [1..n -> Seq(Record)]
    BY <1>1, <1>2, <1>5, HashRecsIs
  <2>1. C \in Seq(Seq(Record)) /\ Len(C) = n
    BY <1>1, <2>0
  <2>2. \A i \in 1..n : C[i] = HashRecs(kept, order[i]) /\ Clean(C[i])
    BY <1>1, <1>2, <1>5, HashRecsIs
  <2> QED BY <2>1, <2>2
<1>10. PICK fA : Flat(<<>>, A, fA)
  BY <1>7, FlatExists
<1>11. PICK fB : Flat(<<>>, B, fB)
  BY <1>8, FlatExists
<1>12. PICK fC : Flat(<<>>, C, fC)
  BY <1>9, FlatExists
<1>13. PICK a \in Seq(Record) : a = fA[n] /\ a = FlattenSeq(A)
                                /\ (Clean(a) <=> \A i \in 1..n : Clean(A[i]))
  BY <1>7, <1>10, FlattenIs, FlatClean
<1>14. PICK b \in Seq(Record) : b = fB[n] /\ b = FlattenSeq(B)
                                /\ (Clean(b) <=> \A i \in 1..n : Clean(B[i]))
  BY <1>8, <1>11, FlattenIs, FlatClean
<1>15. PICK c \in Seq(Record) : c = fC[n] /\ c = FlattenSeq(C)
                                /\ (Clean(c) <=> \A i \in 1..n : Clean(C[i]))
  BY <1>9, <1>12, FlattenIs, FlatClean
<1>16. PICK ab \in Seq(Record) : ab = a \o b /\ (Clean(ab) <=> Clean(a) /\ Clean(b))
  BY CleanParts
<1>17. PICK recs \in Seq(Record) : recs = ab \o c /\ (Clean(recs) <=> Clean(ab) /\ Clean(c))
  BY CleanParts
<1>18. /\ log \in Seq(Record)
       /\ Clean(log) <=> Clean(recs)
       /\ Clean(log) => log = recs
  <2>1. log = Logged(<<>>, recs) /\ Clean(<<>>) /\ <<>> \in Seq(Record)
    BY <1>6, <1>13, <1>14, <1>15, <1>16, <1>17, OneRecord
  <2>2. <<>> \o recs = recs
    OBVIOUS
  <2>3. /\ Logged(<<>>, recs) \in Seq(Record)
        /\ Clean(Logged(<<>>, recs)) <=> Clean(recs)
        /\ Clean(recs) => Logged(<<>>, recs) = <<>> \o recs
    BY <2>1, LoggedIs
  <2> QED BY <2>1, <2>2, <2>3
<1>19. Clean(recs) <=> Plain(kept)
  <2>1. Clean(a) <=> \A k \in Keys : kept.data[k] # None => k \notin kept.vol
    <3> DEFINE P(k) == kept.data[k] # None => k \notin kept.vol
    <3>1. Clean(a) <=> \A i \in 1..n : P(order[i])
      BY <1>7, <1>13
    <3> HIDE DEF P, n
    <3>2. (\A i \in 1..n : P(order[i])) <=> \A k \in Keys : P(k)
      BY <1>1
    <3> QED BY <3>1, <3>2 DEF P
  <2>2. Clean(b) <=> \A k \in Keys : MembersOf(kept.zsets[k]) = {}
    BY <1>1, <1>8, <1>14
  <2>3. Clean(c)
    BY <1>9, <1>15
  <2> QED BY <2>1, <2>2, <2>3, <1>16, <1>17 DEF Plain
<1>20. ASSUME Clean(recs), NEW k \in Keys
       PROVE  /\ Replay(recs).data[k] = kept.data[k]
              /\ Replay(recs).zsets[k] = None
              /\ Replay(recs).hashes[k] = kept.hashes[k]
  <2>1. Clean(a) /\ Clean(b)
    BY <1>16, <1>17, <1>20
  <2>2. b = <<>>
    <3>1. \A i \in 1..Len(B) : B[i] = <<>>
      BY <1>8, <1>14, <2>1
    <3> QED BY <1>8, <1>11, <1>14, <3>1, FlatNothing
  <2>3. recs = a \o c
    BY <1>16, <1>17, <2>2
  <2>4. \A i \in 1..Len(A) : A[i] = StringRecs(kept, order[i]) /\ Clean(A[i])
    BY <1>7, <1>13, <2>1
  <2>5. \A x \in Keys : /\ Replay(a).data[x] = kept.data[x] /\ Replay(a).zsets[x] = None
                        /\ Replay(a).hashes[x] = {}
    <3>1. \A x \in Keys : /\ Replay(fA[Len(A)]).data[x] = kept.data[x]
                          /\ Replay(fA[Len(A)]).zsets[x] = None
                          /\ Replay(fA[Len(A)]).hashes[x] = {}
      <4>1. A \in Seq(Seq(Record)) /\ Len(A) = Cardinality(Keys)
        BY <1>7
      <4> HIDE DEF n
      <4> QED BY ZenonT(30), <1>2, <1>10, <2>4, <4>1, ReplayStrings
    <3> QED BY <1>7, <1>13, <3>1
  <2>6. PICK g : g = [i \in 0..Len(C) |-> a \o fC[i]]
    OBVIOUS
  <2>7. Flat(a, C, g)
    BY <1>9, <1>12, <2>6, FlatBehind
  <2>8. g[Len(C)] = recs
    <3>1. n \in 0..n
      BY <1>1
    <3> HIDE DEF n
    <3>2. g[n] = a \o fC[n]
      BY <1>9, <2>6, <3>1
    <3> QED BY <1>9, <1>15, <2>3, <3>2
  <2>9. \A i \in 1..Len(C) : C[i] = HashRecs(kept, order[i])
    BY <1>9
  <2>10. /\ Replay(g[Len(C)]).data[k] = Replay(a).data[k]
         /\ Replay(g[Len(C)]).zsets[k] = Replay(a).zsets[k]
         /\ Replay(g[Len(C)]).hashes[k] = kept.hashes[k]
    <3>1. C \in Seq(Seq(Record)) /\ Len(C) = Cardinality(Keys)
      BY <1>9
    <3>2. \A x \in Keys : Replay(a).hashes[x] = {}
      BY <2>5
    <3>3. \A x \in Keys : /\ Replay(g[Len(C)]).data[x] = Replay(a).data[x]
                          /\ Replay(g[Len(C)]).zsets[x] = Replay(a).zsets[x]
                          /\ Replay(g[Len(C)]).hashes[x] = kept.hashes[x]
      <4>1. HashesFollow(kept, order, C, a, g)
        BY <1>2, <2>7, <2>9, <3>1, <3>2 DEF HashesFollow
      <4> QED BY <4>1, ReplayHashes
    <3> QED BY <1>20, <3>3
  <2> QED BY <2>5, <2>8, <2>10
<1> QED BY <1>18, <1>19, <1>20
-----------------------------------------------------------------------------
(***************************************************************************)
(* The log follows memory: a replay of it would give back every key outside *)
(* t, a superset of the keys for which the code logs too little.            *)
(***************************************************************************)
\* Same, with what a replay and memory may differ in made explicit.
Agrees(r, m, x) ==
    /\ r.data[x] = m.data[x] /\ r.hashes[x] = m.hashes[x]
    /\ r.zsets[x] = m.zsets[x] \/ (r.zsets[x] = None /\ m.zsets[x] = {})

\* r is what a replay of the log l is taken to give.
FollowsAs(r, m, l, t) ==
    /\ m \in Sound /\ l \in Seq(Record) /\ t \subseteq Keys /\ Ambiguous(m) \subseteq t
    /\ Clean(l) => \A x \in Keys \ t : Agrees(r, m, x)
Follows(m, l, t) == FollowsAs(Replay(l), m, l, t)

\* One more record in the log is one more command in its replay.
LEMMA LoggedOne ==
    ASSUME NEW l \in Seq(Record), NEW rec \in Record, rec.op # "junk",
           NEW l1, l1 = Logged(l, <<rec>>)
    PROVE  /\ l1 \in Seq(Record)
           /\ Clean(l1) => Clean(l) /\ Replay(l1) = Apply(Replay(l), rec)
<1>1. PICK recs \in Seq(Record) : recs = <<rec>> /\ Clean(recs)
  BY OneRecord
<1>2. /\ Logged(l, recs) \in Seq(Record)
      /\ Clean(Logged(l, recs)) <=> Clean(l) /\ Clean(recs)
      /\ Clean(l) /\ Clean(recs) => Logged(l, recs) = l \o recs
  BY LoggedIs
<1>3. l \o <<rec>> = Append(l, rec)
  OBVIOUS
<1>4. Replay(Append(l, rec)) = Apply(Replay(l), rec)
  BY ReplayAppend
<1> QED BY <1>1, <1>2, <1>3, <1>4

\* No record leaves the log as it is.
LEMMA LoggedNone ==
    ASSUME NEW l \in Seq(Record)
    PROVE  Logged(l, <<>>) = l
<1>1. DOMAIN <<>> = {} /\ l \o <<>> = l
  OBVIOUS
<1> QED BY <1>1 DEF Logged

\* A command that has logged its one record, if its effect on a replayed
\* keyspace is that on memory, wherever both are unambiguous.
LEMMA FollowsOne ==
    ASSUME NEW m, NEW l, NEW t, Follows(m, l, t), NEW rec \in Record, rec.op # "junk",
           NEW m1 \in Sound, NEW l1, l1 = Logged(l, <<rec>>),
           NEW t1, t1 = t \cup Ambiguous(m1),
           \A r \in Sound, x \in Keys :
              x \notin Ambiguous(m) /\ x \notin Ambiguous(m1) /\ Agrees(r, m, x)
                 => Agrees(Apply(r, rec), m1, x)
    PROVE  Follows(m1, l1, t1)
<1>1. /\ m \in Sound /\ l \in Seq(Record) /\ t \subseteq Keys /\ Ambiguous(m) \subseteq t
      /\ Clean(l) => \A x \in Keys \ t : Agrees(Replay(l), m, x)
  BY DEF Follows, FollowsAs
<1>2. /\ l1 \in Seq(Record)
      /\ Clean(l1) => Clean(l) /\ Replay(l1) = Apply(Replay(l), rec)
  BY <1>1, LoggedOne
<1>3. t1 \subseteq Keys /\ Ambiguous(m1) \subseteq t1 /\ t \subseteq t1
  <2>1. Ambiguous(m1) \subseteq Keys
    BY DEF Ambiguous, Sound, Databases
  <2> QED BY <1>1, <2>1
<1>4. ASSUME Clean(l1), NEW x \in Keys \ t1 PROVE Agrees(Replay(l1), m1, x)
  <2>1. Replay(l) \in Sound
    BY <1>1, ReplaySound
  <2>2. x \notin Ambiguous(m) /\ x \notin Ambiguous(m1) /\ Agrees(Replay(l), m, x)
    BY <1>1, <1>2, <1>3, <1>4
  <2>3. Agrees(Apply(Replay(l), rec), m1, x)
    BY <2>1, <2>2
  <2> QED BY <1>2, <1>4, <2>3
<1> QED BY <1>2, <1>3, <1>4 DEF Follows, FollowsAs

\* Keys that are not ambiguous are in one dictionary at most.
LEMMA Unambiguous ==
    ASSUME NEW m \in Sound, NEW x \in Keys, x \notin Ambiguous(m)
    PROVE  /\ x \notin m.vol
           /\ m.hashes[x] = {} \/ (m.data[x] = None /\ m.zsets[x] = None)
           /\ m.data[x] = None \/ m.zsets[x] = None
BY DEF Ambiguous, Sound, OneTypeDb

\* What replaying each record does.
LEMMA ApplyIs ==
    ASSUME NEW r
    PROVE  /\ \A k \in Keys, v \in Vals :
                 Apply(r, [op |-> "SET", k |-> k, v |-> v]) = PutDb(DelDb(r, k), k, v, FALSE)
           /\ \A k \in Keys : Apply(r, [op |-> "DEL", k |-> k]) = DelDb(r, k)
           /\ \A k \in Keys, positive \in BOOLEAN :
                 Apply(r, [op |-> "EXPIRE", k |-> k, positive |-> positive])
                   = ExpireDb(r, k, positive)
           /\ \A k \in Keys, m \in Members :
                 /\ Apply(r, [op |-> "ZADD", k |-> k, m |-> m]) = ZAddDb(r, k, m)
                 /\ Apply(r, [op |-> "ZREM", k |-> k, m |-> m]) = ZRemDb(r, k, m)
           /\ \A k \in Keys, F \in SUBSET Fields :
                 Apply(r, [op |-> "HSET", k |-> k, F |-> F]) = HSetDb(r, k, F)
BY DEF Apply

\* The deletion of a key with its record, the first half of SET and all of DEL.
LEMMA DelFollows ==
    ASSUME NEW m, NEW l, NEW t, Follows(m, l, t), NEW k \in Keys, NEW m1, m1 = DelDb(m, k),
           NEW l1, l1 = Logged(l, DelRecs(m, k)), NEW t1, t1 = t \cup Ambiguous(m1)
    PROVE  Follows(m1, l1, t1)
<1>1. m \in Sound /\ l \in Seq(Record) /\ m \in Databases /\ t \subseteq Keys /\ Ambiguous(m) \subseteq t
  BY DEF Follows, FollowsAs, Sound
<1>2. m1 \in Sound /\ Deleted(m, k, m1)
  BY <1>1, DelSound, DelIs
<1>3. CASE Has(m, k)
  <2>1. PICK rec : rec = [op |-> "DEL", k |-> k]
    OBVIOUS
  <2>2. rec \in Record /\ rec.op # "junk" /\ l1 = Logged(l, <<rec>>)
    BY <1>3, <2>1 DEF Record, DelRecs
  <2>3. ASSUME NEW r \in Sound, NEW x \in Keys,
               x \notin Ambiguous(m), x \notin Ambiguous(m1), Agrees(r, m, x)
        PROVE  Agrees(Apply(r, rec), m1, x)
    <3>1. PICK r1 : r1 = DelDb(r, k) /\ r1 = Apply(r, rec)
      BY <2>1, ApplyIs
    <3>2. Deleted(r, k, r1)
      BY <3>1, DelIs DEF Sound
    <3>3. /\ m.hashes[x] = {} \/ (m.data[x] = None /\ m.zsets[x] = None)
          /\ m.data[x] = None \/ m.zsets[x] = None
      BY <1>1, <2>3, Unambiguous
    <3>4. None # {}
      BY PersistenceAssumption
    <3>5. Agrees(r1, m1, x)
      BY ZenonT(30), <1>2, <2>3, <3>2, <3>3, <3>4 DEF Deleted, Agrees
    <3> QED BY <3>1, <3>5
  <2> QED BY <1>2, <2>2, <2>3, FollowsOne
<1>4. CASE ~Has(m, k)
  <2>1. l1 = l
    BY <1>1, <1>4, LoggedNone DEF DelRecs
  <2>2. \A x \in Keys : Agrees(Replay(l), m, x) => Agrees(Replay(l), m1, x)
    BY <1>2, <1>4 DEF Has, Deleted, Agrees
  <2>3. t1 \subseteq Keys /\ Ambiguous(m1) \subseteq t1 /\ t \subseteq t1
    <3>1. Ambiguous(m1) \subseteq Keys
      BY <1>2 DEF Ambiguous, Sound, Databases
    <3> QED BY <1>1, <3>1
  <2> QED BY <1>1, <1>2, <2>1, <2>2, <2>3 DEF Follows, FollowsAs
<1> QED BY <1>3, <1>4

\* A string is stored: the second half of SET, SETNX, INCR, DECR and APPEND.
LEMMA PutFollows ==
    ASSUME NEW m, NEW l, NEW t, Follows(m, l, t), NEW k \in Keys, NEW v \in Vals,
           NEW dated \in BOOLEAN, m.zsets[k] = None, NEW m1, m1 = PutDb(m, k, v, dated),
           NEW rec, rec = [op |-> "SET", k |-> k, v |-> v], NEW l1, l1 = Logged(l, <<rec>>),
           NEW t1, t1 = t \cup Ambiguous(m1)
    PROVE  Follows(m1, l1, t1)
<1>1. m \in Sound /\ m \in Databases
  BY DEF Follows, FollowsAs, Sound
<1>2. m1 \in Sound /\ Stored(m, k, v, dated, m1) /\ m1.data[k] # None
  <2>1. m1 \in Sound /\ Stored(m, k, v, dated, m1)
    BY <1>1, PutSound, PutIs
  <2> QED BY <2>1, PersistenceAssumption DEF Stored
<1>3. rec \in Record /\ rec.op # "junk"
  BY DEF Record
<1>4. ASSUME NEW r \in Sound, NEW x \in Keys,
             x \notin Ambiguous(m), x \notin Ambiguous(m1), Agrees(r, m, x)
      PROVE  Agrees(Apply(r, rec), m1, x)
  <2>0. PICK d : d = DelDb(r, k)
    OBVIOUS
  <2>1. Deleted(r, k, d) /\ d \in Databases
    <3>1. Deleted(r, k, d)
      BY <2>0, DelIs DEF Sound
    <3> QED BY <3>1 DEF Deleted
  <2>2. PICK e : e = PutDb(d, k, v, FALSE) /\ e = Apply(r, rec)
    BY <2>0, ApplyIs
  <2>3. Stored(d, k, v, FALSE, e)
    BY <2>1, <2>2, PutIs
  <2>4. m1.hashes[x] = {} \/ (m1.data[x] = None /\ m1.zsets[x] = None)
    BY <1>2, <1>4, Unambiguous
  <2>5. Agrees(e, m1, x)
    <3>1. CASE x # k
      BY <1>2, <1>4, <2>1, <2>3, <3>1 DEF Deleted, Stored, Agrees
    <3>2. CASE x = k
      <4>1. /\ e.data[k] = v /\ e.zsets[k] = d.zsets[k] /\ e.hashes[k] = d.hashes[k]
            /\ m1.data[k] = v /\ m1.zsets[k] = m.zsets[k] /\ m1.hashes[k] = m.hashes[k]
        BY <1>2, <2>3 DEF Stored
      <4>2. m1.hashes[k] = {}
        BY <1>2, <2>4, <3>2
      <4>3. r.zsets[k] = None /\ r.hashes[k] = {}
        BY <1>4, <3>2, <4>1, <4>2 DEF Agrees
      <4>4. d.zsets[k] = None /\ d.hashes[k] = {}
        BY <2>1, <4>3 DEF Deleted
      <4> QED BY <3>2, <4>1, <4>2, <4>4 DEF Agrees
    <3> QED BY <3>1, <3>2
  <2> QED BY <2>2, <2>5
<1> QED BY <1>2, <1>3, <1>4, FollowsOne

\* ZADD.
LEMMA ZAddFollows ==
    ASSUME NEW m, NEW l, NEW t, Follows(m, l, t), NEW k \in Keys, NEW z \in Members,
           m.data[k] = None, NEW m1, m1 = ZAddDb(m, k, z),
           NEW rec, rec = [op |-> "ZADD", k |-> k, m |-> z], NEW l1, l1 = Logged(l, <<rec>>),
           NEW t1, t1 = t \cup Ambiguous(m1)
    PROVE  Follows(m1, l1, t1)
<1>1. m \in Sound /\ m \in Databases
  BY DEF Follows, FollowsAs, Sound
<1>2. m1 \in Sound /\ Added(m, k, z, m1)
  BY <1>1, ZAddSound, ZAddIs
<1>3. rec \in Record /\ rec.op # "junk"
  BY DEF Record
<1>4. ASSUME NEW r \in Sound, NEW x \in Keys,
             x \notin Ambiguous(m), x \notin Ambiguous(m1), Agrees(r, m, x)
      PROVE  Agrees(Apply(r, rec), m1, x)
  <2>1. PICK e : e = ZAddDb(r, k, z) /\ e = Apply(r, rec)
    BY ApplyIs
  <2>2. Added(r, k, z, e)
    BY <2>1, ZAddIs DEF Sound
  <2>3. MembersOf(r.zsets[x]) = MembersOf(m.zsets[x])
    BY <1>4 DEF Agrees, MembersOf
  <2>4. Agrees(e, m1, x)
    BY <1>2, <1>4, <2>2, <2>3 DEF Added, Agrees
  <2> QED BY <2>1, <2>4
<1> QED BY <1>2, <1>3, <1>4, FollowsOne

\* ZREM of a member.
LEMMA ZRemFollows ==
    ASSUME NEW m, NEW l, NEW t, Follows(m, l, t), NEW k \in Keys, NEW z \in MembersOf(m.zsets[k]),
           m.data[k] = None, NEW m1, m1 = ZRemDb(m, k, z),
           NEW rec, rec = [op |-> "ZREM", k |-> k, m |-> z], NEW l1, l1 = Logged(l, <<rec>>),
           NEW t1, t1 = t \cup Ambiguous(m1)
    PROVE  Follows(m1, l1, t1)
<1>1. m \in Sound /\ m \in Databases
  BY DEF Follows, FollowsAs, Sound
<1>2. z \in Members
  <2>1. m.zsets[k] \in {None} \cup SUBSET Members
    BY <1>1, Fields4
  <2> QED BY <2>1 DEF MembersOf
<1>3. m1 \in Sound /\ Removed(m, k, z, m1)
  BY <1>1, <1>2, ZRemSound, ZRemIs
<1>4. rec \in Record /\ rec.op # "junk"
  BY <1>2 DEF Record
<1>5. ASSUME NEW r \in Sound, NEW x \in Keys,
             x \notin Ambiguous(m), x \notin Ambiguous(m1), Agrees(r, m, x)
      PROVE  Agrees(Apply(r, rec), m1, x)
  <2>1. PICK e : e = ZRemDb(r, k, z) /\ e = Apply(r, rec)
    BY <1>2, ApplyIs
  <2>2. Removed(r, k, z, e)
    BY <1>2, <2>1, ZRemIs DEF Sound
  <2>3. x = k => r.zsets[x] = m.zsets[x] /\ r.data[x] = m.data[x]
    BY <1>5 DEF Agrees, MembersOf
  <2>4. Agrees(e, m1, x)
    <3>1. CASE x = k
      BY <1>3, <1>5, <2>2, <2>3, <3>1 DEF Removed, Agrees
    <3>2. CASE x # k
      BY <1>3, <1>5, <2>2, <3>2 DEF Removed, Agrees
    <3> QED BY <3>1, <3>2
  <2> QED BY <2>1, <2>4
<1> QED BY <1>3, <1>4, <1>5, FollowsOne

\* A change of memory the log is not told, of keys it need not reproduce or of
\* deadlines only.
LEMMA UnloggedFollows ==
    ASSUME NEW m, NEW l, NEW t, Follows(m, l, t), NEW m1 \in Sound,
           NEW t1, t1 = t \cup Ambiguous(m1),
           \A x \in Keys \ t : /\ m1.data[x] = m.data[x] /\ m1.zsets[x] = m.zsets[x]
                               /\ m1.hashes[x] = m.hashes[x]
    PROVE  Follows(m1, l, t1)
<1>1. /\ l \in Seq(Record) /\ t \subseteq Keys
      /\ Clean(l) => \A x \in Keys \ t : Agrees(Replay(l), m, x)
  BY DEF Follows, FollowsAs
<1>2. t1 \subseteq Keys /\ Ambiguous(m1) \subseteq t1 /\ t \subseteq t1
  <2>1. Ambiguous(m1) \subseteq Keys
    BY DEF Ambiguous, Sound, Databases
  <2> QED BY <1>1, <2>1
<1>3. \A x \in Keys \ t : Agrees(Replay(l), m, x) => Agrees(Replay(l), m1, x)
  BY DEF Agrees
<1> QED BY <1>1, <1>2, <1>3 DEF Follows, FollowsAs

\* EXPIRE and the lapse of a deadline, before they are logged, if they are.
LEMMA DatesFollow ==
    ASSUME NEW m, NEW l, NEW t, Follows(m, l, t), NEW k \in Keys, NEW positive \in BOOLEAN,
           NEW m1, m1 = ExpireDb(m, k, positive) \/ (k \in m.vol /\ m1 = LapseDb(m, k)),
           NEW t1, t1 = t \cup Ambiguous(m1)
    PROVE  Follows(m1, l, t1)
<1>1. m \in Sound /\ m \in Databases /\ t \subseteq Keys /\ Ambiguous(m) \subseteq t
  BY DEF Follows, FollowsAs, Sound
<1>2. CASE m1 = ExpireDb(m, k, positive)
  <2>1. m1 \in Sound /\ Dated(m, k, m1)
    BY <1>1, <1>2, ExpireSound, ExpireIs
  <2> QED BY <1>1, <2>1, UnloggedFollows DEF Dated
<1>3. CASE k \in m.vol /\ m1 = LapseDb(m, k)
  <2>1. m1 \in Sound /\ Lapsed(m, k, m1)
    BY <1>1, <1>3, LapseSound, LapseIs
  <2>2. k \in t
    BY <1>1, <1>3 DEF Ambiguous
  <2> QED BY <1>1, <2>1, <2>2, UnloggedFollows DEF Lapsed
<1> QED BY <1>2, <1>3

\* The log is told of a deadline.
LEMMA DateLogged ==
    ASSUME NEW m, NEW l, NEW t, Follows(m, l, t), NEW k \in Keys, NEW positive \in BOOLEAN,
           NEW rec, rec = [op |-> "EXPIRE", k |-> k, positive |-> positive],
           NEW l1, l1 = Logged(l, <<rec>>), NEW t1, t1 = t \cup Ambiguous(m)
    PROVE  Follows(m, l1, t1)
<1>1. m \in Sound
  BY DEF Follows, FollowsAs
<1>2. rec \in Record /\ rec.op # "junk"
  BY DEF Record
<1>3. ASSUME NEW r \in Sound, NEW x \in Keys, Agrees(r, m, x) PROVE Agrees(Apply(r, rec), m, x)
  <2>1. PICK e : e = ExpireDb(r, k, positive) /\ e = Apply(r, rec)
    BY ApplyIs
  <2>2. Dated(r, k, e)
    BY <2>1, ExpireIs DEF Sound
  <2>3. Agrees(e, m, x)
    BY <1>3, <2>2 DEF Dated, Agrees
  <2> QED BY <2>1, <2>3
<1> QED BY <1>1, <1>2, <1>3, FollowsOne

\* HSET, before it is logged: the log lacks it.
LEMMA HSetOwes ==
    ASSUME NEW m, NEW l, NEW t, Follows(m, l, t), NEW k \in Keys, NEW F \in SUBSET Fields,
           NEW m1, m1 = HSetDb(m, k, F), NEW t1, t1 = t \cup Ambiguous(m1)
    PROVE  FollowsAs(HSetDb(Replay(l), k, F), m1, l, t1)
<1>1. /\ m \in Sound /\ l \in Seq(Record) /\ t \subseteq Keys
      /\ Clean(l) => \A x \in Keys \ t : Agrees(Replay(l), m, x)
  BY DEF Follows, FollowsAs
<1>2. m1 \in Sound /\ Hashed(m, k, F, m1)
  BY <1>1, HSetSound, HSetIs DEF Sound
<1>3. PICK r \in Databases : r = Replay(l)
  BY <1>1, ReplaySound DEF Sound
<1>4. PICK e : e = HSetDb(r, k, F)
  OBVIOUS
<1>5. Hashed(r, k, F, e)
  BY <1>4, HSetIs
<1>6. \A x \in Keys : Agrees(r, m, x) => Agrees(e, m1, x)
  BY <1>2, <1>5 DEF Hashed, Agrees
<1>7. t1 \subseteq Keys /\ Ambiguous(m1) \subseteq t1 /\ t \subseteq t1
  <2>1. Ambiguous(m1) \subseteq Keys
    BY <1>2 DEF Ambiguous, Sound, Databases
  <2> QED BY <1>1, <2>1
<1> QED BY <1>1, <1>2, <1>3, <1>4, <1>6, <1>7 DEF FollowsAs

\* And it is logged.
LEMMA HSetLogged ==
    ASSUME NEW m, NEW l, NEW t, NEW k \in Keys, NEW F \in SUBSET Fields,
           FollowsAs(HSetDb(Replay(l), k, F), m, l, t),
           NEW rec, rec = [op |-> "HSET", k |-> k, F |-> F],
           NEW l1, l1 = Logged(l, <<rec>>), NEW t1, t1 = t \cup Ambiguous(m)
    PROVE  Follows(m, l1, t1)
<1>1. /\ m \in Sound /\ l \in Seq(Record) /\ t \subseteq Keys /\ Ambiguous(m) \subseteq t
      /\ Clean(l) => \A x \in Keys \ t : Agrees(HSetDb(Replay(l), k, F), m, x)
  BY DEF FollowsAs
<1>2. rec \in Record /\ rec.op # "junk"
  BY DEF Record
<1>3. /\ l1 \in Seq(Record)
      /\ Clean(l1) => Clean(l) /\ Replay(l1) = Apply(Replay(l), rec)
  BY <1>1, <1>2, LoggedOne
<1>4. Apply(Replay(l), rec) = HSetDb(Replay(l), k, F)
  BY ApplyIs
<1> QED BY <1>1, <1>3, <1>4 DEF Follows, FollowsAs

\* FLUSHDB, whose record nothing after it is read of.
LEMMA FlushFollows ==
    ASSUME NEW m, NEW l, NEW t, Follows(m, l, t), NEW m1, m1 = FlushDb(m),
           NEW l1, l1 = Logged(l, <<[op |-> "FLUSHDB"], Junk>>),
           NEW t1, t1 = t \cup Ambiguous(m1)
    PROVE  Follows(m1, l1, t1)
<1>1. m \in Sound /\ l \in Seq(Record) /\ t \subseteq Keys
  BY DEF Follows, FollowsAs
<1>2. m1 \in Sound
  BY <1>1, FlushSound
<1>3. PICK recs \in Seq(Record) : recs = <<[op |-> "FLUSHDB"], Junk>> /\ ~Clean(recs)
  <2>1. PICK r \in Record : r = [op |-> "FLUSHDB"]
    BY DEF Record
  <2>2. Junk \in Record
    BY DEF Record
  <2>3. PICK recs : recs = <<r, Junk>>
    OBVIOUS
  <2>4. recs \in Seq(Record) /\ recs[2] = Junk /\ 2 \in DOMAIN recs
    BY <2>2, <2>3
  <2> QED BY <2>1, <2>3, <2>4 DEF Clean
<1>4. l1 \in Seq(Record) /\ ~Clean(l1)
  BY <1>1, <1>3, LoggedIs
<1>5. Ambiguous(m1) \subseteq Keys
  BY <1>2 DEF Ambiguous, Sound, Databases
<1> QED BY <1>1, <1>2, <1>4, <1>5 DEF Follows, FollowsAs

\* BGREWRITEAOF: what was logged too little before no longer matters.
LEMMA RewriteFollows ==
    ASSUME NEW m \in Sound, NEW order \in SetToSeqs(Keys), NEW due \in SUBSET m.vol,
           NEW l1, l1 = Rewritten(m, order, due), NEW t1, t1 = Ambiguous(m)
    PROVE  Follows(m, l1, t1)
<1>1. m \in Databases
  BY DEF Sound
<1>2. PICK kept : kept = Kept(m, due)
  OBVIOUS
<1>3. /\ kept \in Databases /\ kept.hashes = m.hashes /\ kept.vol = m.vol
      /\ \A k \in Keys : /\ kept.data[k] = IF k \in due THEN None ELSE m.data[k]
                         /\ kept.zsets[k] = IF k \in due THEN None ELSE m.zsets[k]
  BY <1>1, <1>2, KeptIs
<1>4. /\ l1 \in Seq(Record)
      /\ Clean(l1) <=> Plain(kept)
      /\ Clean(l1) => \A k \in Keys : /\ Replay(l1).data[k] = kept.data[k]
                                      /\ Replay(l1).zsets[k] = None
                                      /\ Replay(l1).hashes[k] = kept.hashes[k]
  BY <1>1, <1>2, RewrittenIs
<1>5. ASSUME Clean(l1), NEW x \in Keys \ t1 PROVE Agrees(Replay(l1), m, x)
  <2>1. x \notin due
    BY DEF Ambiguous
  <2>2. MembersOf(kept.zsets[x]) = {}
    BY <1>4, <1>5 DEF Plain
  <2>3. kept.zsets[x] = None \/ kept.zsets[x] = {}
    BY <2>2 DEF MembersOf
  <2> QED BY <1>3, <1>4, <1>5, <2>1, <2>3 DEF Agrees
<1>6. t1 \subseteq Keys
  BY <1>1 DEF Ambiguous, Databases
<1> QED BY <1>4, <1>5, <1>6 DEF Follows, FollowsAs

\* A restart from the log.
LEMMA ReplayFollows ==
    ASSUME NEW l \in Seq(Record), NEW m, m = Replay(l), NEW t, t = Ambiguous(m)
    PROVE  Follows(m, l, t)
<1>1. m \in Sound
  BY ReplaySound
<1>2. t \subseteq Keys
  BY <1>1 DEF Ambiguous, Sound, Databases
<1> QED BY <1>1, <1>2 DEF Follows, FollowsAs, Agrees

\* A restart from the snapshot, with an empty log.
LEMMA SnapshotFollows ==
    ASSUME NEW m \in Sound, NEW t, t = {k \in Keys : Has(m, k)}
    PROVE  Follows(m, <<>>, t)
<1>1. <<>> \in Seq(Record)
  OBVIOUS
<1>2. Ambiguous(m) \subseteq t
  BY DEF Ambiguous, Has, Sound, Databases
<1>3. \A x \in Keys \ t : Agrees(Replay(<<>>), m, x)
  BY ReplayEmpty, EmptyIs DEF Has, Agrees
<1> QED BY <1>1, <1>2, <1>3 DEF Follows, FollowsAs
-----------------------------------------------------------------------------
(***************************************************************************)
(* The snapshot, and the ends of the process.                               *)
(***************************************************************************)
\* What was saved and loaded again has all but the deadlines.
LEMMA SnapshotIs ==
    ASSUME NEW m \in Sound, NEW due \in SUBSET m.vol, NEW d, d = Snapshot(m, due)
    PROVE  d \in Sound /\ \A k \in Keys \ m.vol : Same(d, m, k)
<1>1. m \in Databases
  BY DEF Sound
<1>2. d \in Databases
  BY <1>1 DEF Snapshot, Databases
<1>3. d.vol = {} /\ d.hashes = m.hashes
      /\ \A k \in Keys : /\ d.data[k] = IF k \in due THEN None ELSE m.data[k]
                         /\ d.zsets[k] = IF k \in due THEN None ELSE m.zsets[k]
  BY DEF Snapshot
<1>4. d \in Sound
  BY <1>2, <1>3 DEF Sound, OneTypeDb
<1>5. \A k \in Keys \ m.vol : Same(d, m, k)
  BY <1>3 DEF Same
<1> QED BY <1>4, <1>5

\* A snapshot that was cut off has no key of two types either.
LEMMA CutOffIs ==
    ASSUME NEW snap \in Sound, NEW s, NEW z, NEW h, NEW last, NEW part,
           NEW d, d = CutOff(snap, s, z, h, last, part)
    PROVE  d \in Sound
<1>1. snap \in Databases
  BY DEF Sound
<1>2. /\ snap.data \in [Keys -> Vals \cup {None}]
      /\ snap.zsets \in [Keys -> {None} \cup SUBSET Members]
      /\ snap.hashes \in [Keys -> SUBSET Fields]
  BY <1>1, Fields4
<1>3. /\ d.data = [k \in Keys |-> IF k \in s THEN snap.data[k] ELSE None]
      /\ d.zsets = [k \in Keys |->
                      IF s = Keys /\ k \in z THEN snap.zsets[k]
                      ELSE IF (s = Keys /\ k = last) /\ snap.zsets[k] # None
                           THEN snap.zsets[k] \cap part ELSE None]
      /\ d.hashes = [k \in Keys |->
                       IF s # Keys \/ z # Keys THEN {}
                       ELSE IF k \in h THEN snap.hashes[k]
                       ELSE IF s = Keys /\ k = last THEN snap.hashes[k] \cap part ELSE {}]
      /\ d.vol = {}
      /\ d = [data |-> d.data, zsets |-> d.zsets, hashes |-> d.hashes, vol |-> {}]
  BY DEF CutOff
<1>4. d.data \in [Keys -> Vals \cup {None}]
  BY <1>2, <1>3
<1>5. d.zsets \in [Keys -> {None} \cup SUBSET Members]
  <2> SUFFICES ASSUME NEW k \in Keys PROVE d.zsets[k] \in {None} \cup SUBSET Members
    BY <1>3
  <2>1. snap.zsets[k] = None \/ snap.zsets[k] \in SUBSET Members
    BY <1>2
  <2>2. d.zsets[k] \in {snap.zsets[k], None}
        \/ (snap.zsets[k] # None /\ d.zsets[k] = snap.zsets[k] \cap part)
    BY <1>3
  <2> QED BY <2>1, <2>2
<1>6. d.hashes \in [Keys -> SUBSET Fields]
  <2> SUFFICES ASSUME NEW k \in Keys PROVE d.hashes[k] \in SUBSET Fields
    BY <1>3
  <2>1. snap.hashes[k] \in SUBSET Fields
    BY <1>2
  <2>2. d.hashes[k] \in {snap.hashes[k], {}} \/ d.hashes[k] = snap.hashes[k] \cap part
    BY <1>3
  <2> QED BY <2>1, <2>2
<1>7. d \in Databases
  BY <1>3, <1>4, <1>5, <1>6 DEF Databases
<1>8. OneTypeDb(d)
  <2> SUFFICES ASSUME NEW k \in Keys PROVE d.data[k] = None \/ d.zsets[k] = None
    BY DEF OneTypeDb
  <2>1. snap.data[k] = None \/ snap.zsets[k] = None
    BY DEF Sound, OneTypeDb
  <2> QED BY <1>3, <2>1
<1> QED BY <1>3, <1>7, <1>8 DEF Sound

\* Whatever is left of the log after the machine failed is a log, and no longer.
LEMMA LeftIs ==
    ASSUME NEW log \in Seq(Record), NEW left \in Prefixes(log),
           NEW l1, l1 \in {left} \cup IF left = log THEN {} ELSE {Logged(left, <<Junk>>)}
    PROVE  l1 \in Seq(Record) /\ Len(l1) <= Len(log)
<1>1. PICK n \in 0..Len(log) : left = SubSeq(log, 1, n)
  BY DEF Prefixes
<1>2. left \in Seq(Record) /\ Len(left) = n /\ Len(log) \in Nat
  BY <1>1
<1>3. n = Len(log) => left = log
  BY <1>1
<1>4. Logged(left, <<Junk>>) \in Seq(Record) /\ Len(Logged(left, <<Junk>>)) <= n + 1
  <2>1. PICK recs \in Seq(Record) : recs = <<Junk>> /\ Len(recs) = 1
    BY OneRecord
  <2> QED BY <1>2, <2>1, LoggedIs
<1>5. CASE l1 = left
  BY <1>2, <1>5
<1>6. CASE l1 # left
  <2>1. left # log /\ l1 = Logged(left, <<Junk>>)
    BY <1>6
  <2>2. n < Len(log)
    BY <1>2, <1>3, <2>1
  <2>3. Len(l1) \in Nat
    BY <1>4, <2>1
  <2> QED BY <1>2, <1>4, <2>1, <2>2, <2>3
<1> QED BY <1>5, <1>6
-----------------------------------------------------------------------------
(***************************************************************************)
(* The inductive invariant.                                                 *)
(***************************************************************************)
\* The running command: SET has deleted the key before it stores it.
Pending ==
    \/ pend = NoPend
    \/ /\ pend \in [op : {"SET"}, k : Keys, v : Vals, dated : BOOLEAN]
       /\ mem.data[pend.k] = None /\ mem.zsets[pend.k] = None
    \/ pend \in [op : {"HSET"}, k : Keys, F : SUBSET Fields]
    \/ pend \in [op : {"EXPIRE"}, k : Keys, positive : BOOLEAN]

\* Memory and the files are what the program can have made of them.
Files ==
    /\ status \in {"up", "stopped", "crashed"}
    /\ mem \in Sound /\ rdb \in Sound
    /\ aof \in Seq(Record) /\ Len(aof) <= scope.log
    /\ aofExists \in BOOLEAN
    /\ saves \in 0..scope.saves
    /\ tainted \subseteq Keys
    /\ scope \in Scopes

\* A process that has ended left no command behind; one that ended cleanly left
\* a snapshot of its memory.  A file that was removed has no records.
Ended ==
    /\ status # "up" => pend = NoPend
    /\ status = "stopped" => \A k \in Keys \ mem.vol : Same(rdb, mem, k)
    /\ ~aofExists => aof = <<>>

\* While the process runs the log follows its memory, but for the HSET that has
\* not been logged yet.
Mirrored ==
    status = "up" =>
        /\ aofExists
        /\ pend.op = "HSET" =>
              FollowsAs(HSetDb(Replay(aof), pend.k, pend.F), mem, aof, tainted)
        /\ pend.op # "HSET" => Follows(mem, aof, tainted)

IInv == Files /\ Pending /\ Ended /\ Mirrored

\* It holds of a fresh installation.
LEMMA InitInvariant == Init => IInv
<1> SUFFICES ASSUME Init PROVE IInv
  OBVIOUS
<1>1. scope.log \in Nat /\ scope.saves \in Nat
  <2>1. scope \in [vals : SUBSET Vals, log : Nat, saves : Nat, power : BOOLEAN]
    BY PersistenceAssumption DEF Init
  <2> QED BY <2>1
<1>2. aof \in Seq(Record) /\ Len(aof) = 0 /\ saves = 0
  BY DEF Init
<1>3. Empty \in Sound
  BY EmptyIs
<1>4. Files
  <2>1. aof \in Seq(Record) /\ Len(aof) <= scope.log /\ saves \in 0..scope.saves
    BY <1>1, <1>2
  <2>2. /\ status \in {"up", "stopped", "crashed"} /\ aofExists \in BOOLEAN
        /\ tainted \subseteq Keys /\ scope \in Scopes
    BY DEF Init
  <2>3. mem \in Sound /\ rdb \in Sound
    BY <1>3 DEF Init
  <2> QED BY <2>1, <2>2, <2>3 DEF Files
<1> QED BY <1>4 DEF IInv, Init, Pending, Ended, Mirrored, Same

\* What a step of the running process has to show.
LEMMA Running ==
    ASSUME IInv, status = "up", UNCHANGED <<status, aofExists, rdb, saves, scope>>,
           Len(aof') <= scope.log, Pending',
           pend'.op = "HSET" =>
              FollowsAs(HSetDb(Replay(aof'), pend'.k, pend'.F), mem', aof', tainted'),
           pend'.op # "HSET" => Follows(mem', aof', tainted')
    PROVE  IInv'
<1>1. mem' \in Sound /\ aof' \in Seq(Record) /\ tainted' \subseteq Keys
  BY DEF Follows, FollowsAs
<1>2. aofExists' /\ aofExists
  BY DEF IInv, Mirrored
<1>3. Files'
  BY <1>1, <1>2 DEF IInv, Files
<1>4. Ended'
  BY <1>2 DEF Ended
<1>5. Mirrored'
  BY <1>2 DEF Mirrored
<1> QED BY <1>3, <1>4, <1>5 DEF IInv

\* Every command keeps it.
LEMMA CommandInvariant ==
    ASSUME IInv, Command, UNCHANGED scope
    PROVE  IInv'
<1>1. /\ mem \in Sound /\ aof \in Seq(Record) /\ tainted \subseteq Keys
      /\ scope.vals \subseteq Vals
  <2>1. scope \in [vals : SUBSET Vals, log : Nat, saves : Nat, power : BOOLEAN]
    BY PersistenceAssumption DEF IInv, Files
  <2> QED BY <2>1 DEF IInv, Files
<1>2. PICK m \in Sound, l \in Seq(Record), t \in SUBSET Keys :
         m = mem /\ l = aof /\ t = tainted
  BY <1>1
<1>3. PICK m1, l1, t1, p : m1 = mem' /\ l1 = aof' /\ t1 = tainted' /\ p = pend
  OBVIOUS
<1>4. NoPend.op # "HSET"
  BY DEF NoPend
<1>5. Idle => Follows(m, l, t)
  BY <1>2, <1>4 DEF IInv, Mirrored, Idle
<1>6. status = "up" /\ pend.op \notin {"none", "HSET"} => Follows(m, l, t)
  BY <1>2 DEF IInv, Mirrored
<1>7. ASSUME status = "up", UNCHANGED <<status, aofExists, rdb, saves>>, pend' = NoPend,
             Len(aof') <= scope.log, Follows(m1, l1, t1)
      PROVE  IInv'
  BY <1>3, <1>4, <1>7, Running DEF Pending
<1>8. ASSUME SetFinish PROVE IInv'
  <2>1. /\ status = "up" /\ pend.op = "SET" /\ pend' = NoPend
        /\ Change(PutDb(mem, pend.k, pend.v, pend.dated),
                  <<[op |-> "SET", k |-> pend.k, v |-> pend.v]>>)
    BY <1>8 DEF SetFinish
  <2>2. PICK k \in Keys, v \in Vals, dated \in BOOLEAN :
           k = pend.k /\ v = pend.v /\ dated = pend.dated /\ m.zsets[k] = None
    BY <1>2, <1>4, <2>1 DEF IInv, Pending, NoPend
  <2>3. PICK rec : rec = [op |-> "SET", k |-> k, v |-> v]
    OBVIOUS
  <2>4. /\ m1 = PutDb(m, k, v, dated) /\ l1 = Logged(l, <<rec>>) /\ t1 = t \cup Ambiguous(m1)
        /\ UNCHANGED <<status, aofExists, rdb, saves>> /\ Len(aof') <= scope.log
    BY <1>2, <1>3, <2>1, <2>2, <2>3, <1>8 DEF Change
  <2>5. Follows(m1, l1, t1)
    BY <1>6, <2>1, <2>2, <2>3, <2>4, PutFollows
  <2> QED BY <1>7, <2>1, <2>4, <2>5
<1>9. ASSUME LogFinish PROVE IInv'
  <2>1. /\ status = "up" /\ pend.op \in {"HSET", "EXPIRE"} /\ pend' = NoPend
        /\ m1 = m /\ l1 = Logged(l, <<p>>) /\ t1 = t \cup Ambiguous(m)
        /\ UNCHANGED <<status, aofExists, rdb, saves>> /\ Len(aof') <= scope.log
    BY <1>2, <1>3, <1>9 DEF LogFinish, Change
  <2>2. CASE pend.op = "HSET"
    <3>1. p \in [op : {"HSET"}, k : Keys, F : SUBSET Fields]
      BY <1>3, <2>2 DEF IInv, Pending, NoPend
    <3>2. PICK k \in Keys, F \in SUBSET Fields :
             k = p.k /\ F = p.F /\ p = [op |-> "HSET", k |-> k, F |-> F]
      BY <3>1
    <3>3. FollowsAs(HSetDb(Replay(l), k, F), m, l, t)
      BY <1>2, <1>3, <2>1, <2>2, <3>2 DEF IInv, Mirrored
    <3>4. Follows(m, l1, t1)
      BY <2>1, <3>2, <3>3, HSetLogged
    <3> QED BY <1>7, <2>1, <3>4
  <2>3. CASE pend.op = "EXPIRE"
    <3>1. p \in [op : {"EXPIRE"}, k : Keys, positive : BOOLEAN]
      BY <1>3, <2>3 DEF IInv, Pending, NoPend
    <3>2. PICK k \in Keys, positive \in BOOLEAN :
             k = p.k /\ p = [op |-> "EXPIRE", k |-> k, positive |-> positive]
      BY <3>1
    <3>3. Follows(m, l, t)
      BY <1>6, <2>1, <2>3
    <3>4. Follows(m, l1, t1)
      BY <2>1, <3>2, <3>3, DateLogged
    <3> QED BY <1>7, <2>1, <3>4
  <2> QED BY <2>1, <2>2, <2>3
<1>10. ASSUME Flush PROVE IInv'
  <2>1. /\ Idle /\ status = "up" /\ pend' = NoPend
        /\ m1 = FlushDb(m) /\ l1 = Logged(l, <<[op |-> "FLUSHDB"], Junk>>)
        /\ t1 = t \cup Ambiguous(m1)
        /\ UNCHANGED <<status, aofExists, rdb, saves>> /\ Len(aof') <= scope.log
    BY <1>2, <1>3, <1>10 DEF Flush, Change, Idle
  <2>2. Follows(m1, l1, t1)
    BY <1>5, <2>1, FlushFollows
  <2> QED BY <1>7, <2>1, <2>2
<1>11. ASSUME BgRewrite PROVE IInv'
  <2>1. /\ Idle /\ status = "up" /\ pend' = NoPend
        /\ m1 = m /\ t1 = Ambiguous(m)
        /\ UNCHANGED <<status, aofExists, rdb, saves>> /\ Len(aof') <= scope.log
    BY <1>2, <1>3, <1>11 DEF BgRewrite, Idle
  <2>2. PICK order \in SetToSeqs(Keys), due \in SUBSET m.vol : l1 = Rewritten(m, order, due)
    BY <1>2, <1>3, <1>11 DEF BgRewrite
  <2>3. Follows(m, l1, t1)
    BY <2>1, <2>2, RewriteFollows
  <2> QED BY <1>7, <2>1, <2>3
<1>12. ASSUME Save PROVE IInv'
  <2>1. /\ Idle /\ UNCHANGED <<status, mem, pend, aof, aofExists, tainted>> /\ status = "up"
        /\ saves < scope.saves /\ saves' = saves + 1
    BY <1>12 DEF Save, WritesRdb, Idle
  <2>2. PICK due \in SUBSET m.vol : rdb' = Snapshot(m, due)
    BY <1>2, <1>12 DEF Save
  <2>3. rdb' \in Sound
    <3>1. PICK d : d = rdb'
      OBVIOUS
    <3>2. d \in Sound
      BY <2>2, <3>1, SnapshotIs
    <3> QED BY <3>1, <3>2
  <2>4. saves' \in 0..scope'.saves
    <3>1. scope \in [vals : SUBSET Vals, log : Nat, saves : Nat, power : BOOLEAN]
      BY PersistenceAssumption DEF IInv, Files
    <3>2. saves \in 0..scope.saves /\ scope' = scope /\ scope.saves \in Nat
      BY <3>1 DEF IInv, Files
    <3> QED BY <2>1, <3>2
  <2>5. Files'
    BY <2>1, <2>3, <2>4 DEF IInv, Files
  <2> QED BY <2>1, <2>5 DEF IInv, Pending, Ended, Mirrored
<1>13. ASSUME NEW k \in Keys, Del(k) PROVE IInv'
  <2>1. /\ Idle /\ status = "up" /\ pend' = NoPend
        /\ m1 = DelDb(m, k) /\ l1 = Logged(l, DelRecs(m, k)) /\ t1 = t \cup Ambiguous(m1)
        /\ UNCHANGED <<status, aofExists, rdb, saves>> /\ Len(aof') <= scope.log
    BY <1>2, <1>3, <1>13 DEF Del, Change, Idle
  <2>2. Follows(m1, l1, t1)
    BY <1>5, <2>1, DelFollows
  <2> QED BY <1>7, <2>1, <2>2
<1>14. ASSUME NEW k \in Keys, Lapse(k) PROVE IInv'
  <2>1. /\ Idle /\ status = "up" /\ pend' = NoPend /\ k \in m.vol
        /\ m1 = LapseDb(m, k) /\ l1 = Logged(l, <<>>) /\ t1 = t \cup Ambiguous(m1)
        /\ UNCHANGED <<status, aofExists, rdb, saves>> /\ Len(aof') <= scope.log
    BY <1>2, <1>3, <1>14 DEF Lapse, Change, Idle
  <2>2. l1 = l
    BY <2>1, LoggedNone
  <2>3. Follows(m1, l1, t1)
    BY <1>5, <2>1, <2>2, DatesFollow
  <2> QED BY <1>7, <2>1, <2>3
<1>15. ASSUME NEW k \in Keys, NEW v \in scope.vals, SetNx(k, v) \/ Rewrite(k, v) PROVE IInv'
  <2>0. v \in Vals
    BY <1>1
  <2>1. PICK rec : rec = [op |-> "SET", k |-> k, v |-> v]
    OBVIOUS
  <2>2. PICK dated \in BOOLEAN :
           /\ Idle /\ status = "up" /\ pend' = NoPend /\ m.zsets[k] = None
           /\ m1 = PutDb(m, k, v, dated) /\ l1 = Logged(l, <<rec>>)
           /\ t1 = t \cup Ambiguous(m1)
           /\ UNCHANGED <<status, aofExists, rdb, saves>> /\ Len(aof') <= scope.log
    BY <1>2, <1>3, <1>15, <2>1 DEF SetNx, Rewrite, Change, Idle, Has
  <2>3. Follows(m1, l1, t1)
    BY <1>5, <2>0, <2>1, <2>2, PutFollows
  <2> QED BY <1>7, <2>2, <2>3
<1>16. ASSUME NEW k \in Keys, NEW v \in scope.vals, NEW dated \in BOOLEAN, Set(k, v, dated)
       PROVE IInv'
  <2>1. /\ Idle /\ status = "up"
        /\ pend' = [op |-> "SET", k |-> k, v |-> v, dated |-> dated]
        /\ m1 = DelDb(m, k) /\ l1 = Logged(l, DelRecs(m, k)) /\ t1 = t \cup Ambiguous(m1)
        /\ UNCHANGED <<status, aofExists, rdb, saves>> /\ Len(aof') <= scope.log
    BY <1>2, <1>3, <1>16 DEF Set, Change, Idle
  <2>2. Follows(m1, l1, t1)
    BY <1>5, <2>1, DelFollows
  <2>3. m1.data[k] = None /\ m1.zsets[k] = None
    BY <2>1, DelSound
  <2>4. pend'.op # "HSET" /\ pend'.k = k
        /\ pend' \in [op : {"SET"}, k : Keys, v : Vals, dated : BOOLEAN]
    BY <1>1, <2>1
  <2>5. Pending'
    BY <1>3, <2>3, <2>4 DEF Pending
  <2> QED BY <1>3, <2>1, <2>2, <2>4, <2>5, Running
<1>17. ASSUME NEW k \in Keys, NEW z \in Members, ZAdd(k, z) PROVE IInv'
  <2>1. PICK rec : rec = [op |-> "ZADD", k |-> k, m |-> z]
    OBVIOUS
  <2>2. /\ Idle /\ status = "up" /\ pend' = NoPend /\ m.data[k] = None
        /\ m1 = ZAddDb(m, k, z) /\ l1 = Logged(l, <<rec>>) /\ t1 = t \cup Ambiguous(m1)
        /\ UNCHANGED <<status, aofExists, rdb, saves>> /\ Len(aof') <= scope.log
    BY <1>2, <1>3, <1>17, <2>1 DEF ZAdd, Change, Idle
  <2>3. Follows(m1, l1, t1)
    BY <1>5, <2>1, <2>2, ZAddFollows
  <2> QED BY <1>7, <2>2, <2>3
<1>18. ASSUME NEW k \in Keys, NEW z \in Members, ZRem(k, z) PROVE IInv'
  <2>1. PICK rec : rec = [op |-> "ZREM", k |-> k, m |-> z]
    OBVIOUS
  <2>2. /\ Idle /\ status = "up" /\ pend' = NoPend /\ m.data[k] = None
        /\ z \in MembersOf(m.zsets[k])
        /\ m1 = ZRemDb(m, k, z) /\ l1 = Logged(l, <<rec>>) /\ t1 = t \cup Ambiguous(m1)
        /\ UNCHANGED <<status, aofExists, rdb, saves>> /\ Len(aof') <= scope.log
    BY <1>2, <1>3, <1>18, <2>1 DEF ZRem, Change, Idle
  <2>3. Follows(m1, l1, t1)
    BY <1>5, <2>1, <2>2, ZRemFollows
  <2> QED BY <1>7, <2>2, <2>3
<1>19. ASSUME NEW k \in Keys, NEW f \in Fields, HSet(k, f) PROVE IInv'
  <2>0. PICK F \in SUBSET Fields : F = {f}
    OBVIOUS
  <2>1. /\ Idle /\ status = "up" /\ pend' = [op |-> "HSET", k |-> k, F |-> F]
        /\ m1 = HSetDb(m, k, F) /\ l1 = Logged(l, <<>>) /\ t1 = t \cup Ambiguous(m1)
        /\ UNCHANGED <<status, aofExists, rdb, saves>> /\ Len(aof') <= scope.log
    BY <1>2, <1>3, <1>19, <2>0 DEF HSet, Change, Idle
  <2>2. l1 = l
    BY <2>1, LoggedNone
  <2>3. FollowsAs(HSetDb(Replay(l1), k, F), m1, l1, t1)
    BY <1>5, <2>1, <2>2, HSetOwes
  <2>4. /\ pend'.op = "HSET" /\ pend'.k = k /\ pend'.F = F
        /\ pend' \in [op : {"HSET"}, k : Keys, F : SUBSET Fields]
    BY <2>1
  <2>5. Pending'
    BY <2>4 DEF Pending
  <2>6. FollowsAs(HSetDb(Replay(aof'), pend'.k, pend'.F), mem', aof', tainted')
    BY <1>3, <2>3, <2>4
  <2> QED BY <2>1, <2>4, <2>5, <2>6, Running
<1>20. ASSUME NEW k \in Keys, NEW positive \in BOOLEAN, Expire(k, positive) PROVE IInv'
  <2>1. /\ Idle /\ status = "up" /\ pend' = [op |-> "EXPIRE", k |-> k, positive |-> positive]
        /\ m1 = ExpireDb(m, k, positive) /\ l1 = Logged(l, <<>>) /\ t1 = t \cup Ambiguous(m1)
        /\ UNCHANGED <<status, aofExists, rdb, saves>> /\ Len(aof') <= scope.log
    BY <1>2, <1>3, <1>20 DEF Expire, Change, Idle
  <2>2. l1 = l
    BY <2>1, LoggedNone
  <2>3. Follows(m1, l1, t1)
    BY <1>5, <2>1, <2>2, DatesFollow
  <2>4. pend'.op # "HSET" /\ pend' \in [op : {"EXPIRE"}, k : Keys, positive : BOOLEAN]
    BY <2>1
  <2>5. Pending'
    BY <2>4 DEF Pending
  <2> QED BY <1>3, <2>1, <2>3, <2>4, <2>5, Running
<1> QED BY <1>8, <1>9, <1>10, <1>11, <1>12, <1>13, <1>14, <1>15, <1>16, <1>17, <1>18,
           <1>19, <1>20 DEF Command

\* So do the ends of the process and its starts.
LEMMA ProcessInvariant ==
    ASSUME IInv, Shutdown \/ Crash \/ CrashInSave \/ PowerFail \/ RemoveAof \/ Start,
           UNCHANGED scope
    PROVE  IInv'
<1>1. /\ mem \in Sound /\ rdb \in Sound /\ aof \in Seq(Record) /\ tainted \subseteq Keys
      /\ scope.saves \in Nat /\ scope.log \in Nat
  <2>1. scope \in [vals : SUBSET Vals, log : Nat, saves : Nat, power : BOOLEAN]
    BY PersistenceAssumption DEF IInv, Files
  <2> QED BY <2>1 DEF IInv, Files
<1>2. PICK m \in Sound, l \in Seq(Record), d \in Sound : m = mem /\ l = aof /\ d = rdb
  BY <1>1
<1>3. PICK m1, l1, d1 : m1 = mem' /\ l1 = aof' /\ d1 = rdb'
  OBVIOUS
<1>4. WritesRdb => saves' \in 0..scope'.saves
  <2>1. saves \in 0..scope.saves
    BY DEF IInv, Files
  <2> QED BY <1>1, <2>1 DEF WritesRdb
<1>5. ASSUME Shutdown PROVE IInv'
  <2>1. /\ pend' = NoPend /\ status' = "stopped" /\ saves' \in 0..scope'.saves
        /\ UNCHANGED <<mem, aof, aofExists, tainted>>
    BY <1>4, <1>5 DEF Shutdown, Idle
  <2>2. PICK due \in SUBSET m.vol : d1 = Snapshot(m, due)
    BY <1>2, <1>3, <1>5 DEF Shutdown
  <2>3. d1 \in Sound /\ \A k \in Keys \ m.vol : Same(d1, m, k)
    BY <2>2, SnapshotIs
  <2>4. Files'
    BY <1>3, <2>1, <2>3 DEF IInv, Files
  <2>5. Ended'
    BY <1>2, <1>3, <2>1, <2>3 DEF IInv, Ended
  <2> QED BY <2>1, <2>4, <2>5 DEF IInv, Pending, Mirrored
<1>6. ASSUME Crash PROVE IInv'
  <2>1. /\ pend' = NoPend /\ status' = "crashed"
        /\ UNCHANGED <<mem, aof, aofExists, rdb, saves, tainted>>
    BY <1>6 DEF Crash, disk
  <2> QED BY <2>1 DEF IInv, Files, Pending, Ended, Mirrored
<1>7. ASSUME CrashInSave PROVE IInv'
  <2>1. /\ pend' = NoPend /\ status' = "crashed" /\ saves' \in 0..scope'.saves
        /\ UNCHANGED <<mem, aof, aofExists, tainted>>
    BY <1>4, <1>7 DEF CrashInSave, Idle
  <2>2. PICK due \in SUBSET m.vol, s \in SUBSET Keys, z \in SUBSET Keys, h \in SUBSET Keys,
             last \in Keys, part \in SUBSET (Members \cup Fields) :
           d1 = CutOff(Snapshot(m, due), s, z, h, last, part)
    BY <1>2, <1>3, <1>7 DEF CrashInSave
  <2>3. PICK snap : snap = Snapshot(m, due)
    OBVIOUS
  <2>4. snap \in Sound
    BY <2>3, SnapshotIs
  <2>5. d1 \in Sound
    BY <2>2, <2>3, <2>4, CutOffIs
  <2>6. Files'
    BY <1>3, <2>1, <2>5 DEF IInv, Files
  <2> QED BY <2>1, <2>6 DEF IInv, Pending, Ended, Mirrored
<1>8. ASSUME PowerFail PROVE IInv'
  <2>1. /\ pend' = NoPend /\ status' = "crashed" /\ mem' = Empty /\ tainted' = Keys
        /\ status = "up" /\ UNCHANGED <<aofExists, rdb, saves>>
    BY <1>8 DEF PowerFail
  <2>2. PICK left \in Prefixes(l) :
           l1 \in {left} \cup IF left = l THEN {} ELSE {Logged(left, <<Junk>>)}
    BY <1>2, <1>3, <1>8 DEF PowerFail
  <2>3. l1 \in Seq(Record) /\ Len(l1) <= Len(l)
    BY <2>2, LeftIs
  <2>4. Len(aof') <= scope'.log
    <3>1. Len(l) <= scope.log
      BY <1>2 DEF IInv, Files
    <3>2. Len(l) \in Nat /\ Len(l1) \in Nat
      BY <2>3
    <3> QED BY <1>1, <1>3, <2>3, <3>1, <3>2
  <2>5. Empty \in Sound
    BY EmptyIs
  <2>6. Files'
    BY <1>3, <2>1, <2>3, <2>4, <2>5 DEF IInv, Files
  <2>7. aofExists
    BY <2>1 DEF IInv, Mirrored
  <2> QED BY <2>1, <2>6, <2>7 DEF IInv, Pending, Ended, Mirrored
<1>9. ASSUME RemoveAof PROVE IInv'
  <2>1. /\ status # "up" /\ aofExists' = FALSE /\ aof' = <<>>
        /\ UNCHANGED <<status, mem, pend, rdb, saves, tainted>>
    BY <1>9 DEF RemoveAof
  <2>2. aof' \in Seq(Record) /\ Len(aof') = 0
    BY <2>1
  <2>3. Files'
    <3>1. aof' \in Seq(Record) /\ Len(aof') <= scope'.log
      BY <1>1, <2>2
    <3>2. aofExists' \in BOOLEAN
      BY <2>1
    <3>3. UNCHANGED <<status, mem, rdb, saves, tainted, scope>>
      BY <2>1
    <3> QED BY <3>1, <3>2, <3>3 DEF IInv, Files
  <2>4. pend' = NoPend
    BY <2>1 DEF IInv, Ended
  <2>5. Ended'
    BY <2>1, <2>4 DEF IInv, Ended
  <2> QED BY <2>1, <2>3, <2>4, <2>5 DEF IInv, Pending, Mirrored
<1>10. ASSUME Start PROVE IInv'
  <2>1. /\ status # "up" /\ status' = "up" /\ aofExists' = TRUE
        /\ m1 = IF aofExists THEN Replay(l) ELSE d
        /\ tainted' = IF aofExists THEN Ambiguous(m1) ELSE {k \in Keys : Has(m1, k)}
        /\ UNCHANGED <<pend, aof, rdb, saves>>
    BY <1>2, <1>3, <1>10 DEF Start
  <2>2. pend' = NoPend /\ NoPend.op # "HSET" /\ NoPend.op = "none"
    BY <2>1 DEF IInv, Ended, NoPend
  <2>3. PICK t1 : t1 = tainted'
    OBVIOUS
  <2>4. Follows(m1, l, t1)
    <3>1. CASE aofExists
      BY <2>1, <2>3, <3>1, ReplayFollows
    <3>2. CASE ~aofExists
      <4>1. l = <<>>
        BY <1>2, <3>2 DEF IInv, Ended
      <4> QED BY <2>1, <2>3, <3>2, <4>1, SnapshotFollows
    <3> QED BY <3>1, <3>2
  <2>5. m1 \in Sound /\ t1 \subseteq Keys
    BY <2>4 DEF Follows, FollowsAs
  <2>6. Files'
    BY <1>2, <1>3, <2>1, <2>3, <2>5 DEF IInv, Files
  <2>7. Mirrored'
    BY <1>2, <1>3, <2>1, <2>2, <2>3, <2>4 DEF Mirrored
  <2> QED BY <2>1, <2>2, <2>6, <2>7 DEF IInv, Pending, Ended
<1> QED BY <1>5, <1>6, <1>7, <1>8, <1>9, <1>10

\* And so does a stuttering step.
LEMMA StepInvariant == IInv /\ [Next]_vars => IInv'
<1> SUFFICES ASSUME IInv, [Next]_vars PROVE IInv'
  OBVIOUS
<1>1. CASE Next
  BY <1>1, CommandInvariant, ProcessInvariant DEF Next
<1>2. CASE UNCHANGED vars
  BY <1>2 DEF vars, IInv, Files, Pending, Ended, Mirrored
<1> QED BY <1>1, <1>2

\* The inductive invariant holds.
LEMMA Invariant == Spec => []IInv
<1>1. Init => IInv
  BY InitInvariant
<1>2. IInv /\ [Next]_vars => IInv'
  BY StepInvariant
<1> QED BY <1>1, <1>2, PTL DEF Spec
-----------------------------------------------------------------------------
(***************************************************************************)
(* What it gives.                                                           *)
(***************************************************************************)
\* Whatever commands ran, wherever the process was killed and whichever bytes of
\* the files survived, memory is a keyspace in which what has a deadline exists,
\* and the log is a log within its bound.
THEOREM TypeCorrect == Spec => []TypeOK
<1>1. IInv => TypeOK
  <2> SUFFICES ASSUME IInv PROVE TypeOK
    OBVIOUS
  <2>1. pend.op \in {"none", "SET", "HSET", "EXPIRE"}
    BY DEF IInv, Pending, NoPend
  <2>2. Files
    BY DEF IInv
  <2> QED BY <2>1, <2>2 DEF Files, TypeOK, Sound
<1> QED BY <1>1, Invariant, PTL

\* No key is a string and a sorted set at once: not in memory, not in the
\* snapshot, and not in what a restart would make of the log, for every log a
\* sequence of commands and crashes can leave.
THEOREM OneTypeHolds == Spec => []OneTypeEverywhere
<1>1. IInv => OneTypeEverywhere
  <2> SUFFICES ASSUME IInv PROVE OneTypeEverywhere
    OBVIOUS
  <2>1. mem \in Sound /\ rdb \in Sound /\ aof \in Seq(Record)
    BY DEF IInv, Files
  <2>2. PICK l \in Seq(Record) : l = aof
    BY <2>1
  <2>3. Replay(l) \in Sound
    BY ReplaySound
  <2> QED BY <2>1, <2>2, <2>3 DEF OneTypeEverywhere, Sound
<1> QED BY <1>1, Invariant, PTL

\* A log without unreadable bytes gives back, at every moment, every key of
\* which the code logs enough, except while an HSET is not yet logged.
THEOREM LogReproducesHolds == Spec => []LogReproducesMemory
<1>1. IInv => LogReproducesMemory
  <2> SUFFICES ASSUME IInv, status = "up", Clean(aof), pend.op # "HSET",
                      NEW k \in Keys \ tainted
               PROVE  Same(Replay(aof), mem, k)
    BY DEF LogReproducesMemory
  <2>1. Agrees(Replay(aof), mem, k)
    BY DEF IInv, Mirrored, Follows, FollowsAs
  <2> QED BY <2>1 DEF Agrees, Same, MembersOf
<1> QED BY <1>1, Invariant, PTL

\* BGREWRITEAOF of a keyspace without sorted sets and deadlines keeps every key,
\* in whatever order the dictionaries give them.
THEOREM RewriteKeeps == Spec => RewriteKeepsKeys
<1> DEFINE Kept1 == BgRewrite /\ mem.vol = {} /\ (\A k \in Keys : MembersOf(mem.zsets[k]) = {})
                      => \A k \in Keys : Same(Replay(aof'), mem, k)
<1>1. IInv /\ [Next]_vars => [Kept1]_vars
  <2> SUFFICES ASSUME IInv, BgRewrite, mem.vol = {}, \A k \in Keys : MembersOf(mem.zsets[k]) = {},
                      NEW k \in Keys
               PROVE  Same(Replay(aof'), mem, k)
    OBVIOUS
  <2>1. PICK m \in Sound : m = mem
    BY DEF IInv, Files
  <2>2. PICK order \in SetToSeqs(Keys) : aof' = Rewritten(m, order, {})
    BY <2>1 DEF BgRewrite
  <2>3. PICK l : l = Rewritten(m, order, {})
    OBVIOUS
  <2>4. PICK kept : kept = Kept(m, {})
    OBVIOUS
  <2>5. /\ Clean(l) <=> Plain(kept)
        /\ Clean(l) => \A x \in Keys : /\ Replay(l).data[x] = kept.data[x]
                                       /\ Replay(l).zsets[x] = None
                                       /\ Replay(l).hashes[x] = kept.hashes[x]
    BY <2>3, <2>4, RewrittenIs DEF Sound
  <2>6. /\ kept.hashes = m.hashes /\ kept.vol = m.vol
        /\ \A x \in Keys : kept.data[x] = m.data[x] /\ kept.zsets[x] = m.zsets[x]
    BY <2>4, KeptIs DEF Sound
  <2>7. Clean(l)
    BY <2>1, <2>5, <2>6 DEF Plain
  <2> QED BY <2>1, <2>2, <2>3, <2>5, <2>6, <2>7 DEF Same, MembersOf
<1> QED BY <1>1, Invariant, PTL DEF Spec, RewriteKeepsKeys

\* A clean shutdown and a start without an append-only file bring back every key
\* that had no deadline.
THEOREM ShutdownKeeps == Spec => ShutdownSaves
<1> DEFINE Kept1 == Start /\ status = "stopped" /\ ~aofExists
                      => \A k \in Keys \ mem.vol : Same(mem', mem, k)
<1>1. IInv /\ [Next]_vars => [Kept1]_vars
  BY DEF IInv, Ended, Start
<1> QED BY <1>1, Invariant, PTL DEF Spec, ShutdownSaves
=============================================================================
