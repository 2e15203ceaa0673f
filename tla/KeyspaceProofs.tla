--------------------------- MODULE KeyspaceProofs ---------------------------
(***************************************************************************)
(* TLAPS proofs about Keyspace, for every set of keys, every set of ttls,   *)
(* every time horizon, every clock slack and every serverCron limit.        *)
(***************************************************************************)
EXTENDS Keyspace, TLAPS

\* serverCron's `now` is never ahead of the clock: what is due for it is due.
CronBehind == cronNow <= now

\* HeapCovers is not inductive alone.  When serverCron pops the entry that
\* covers a deadline it must delete the key from the dictionary that holds the
\* deadline; it does because the key is in one dictionary only (OneType) and
\* because the deadline, no later than the entry, is no later than the clock
\* (CronBehind).
IInv == TypeOK /\ OneType /\ HeapCovers /\ CronBehind
-----------------------------------------------------------------------------
\* The readings of the clock within a command are ordered and never go back.
LEMMA ReadsRange ==
    ASSUME TypeOK, NEW n \in 1..4, NEW r \in Reads(n)
    PROVE  /\ \A i \in 1..n : r[i] \in Nat /\ r[i] >= now /\ r[i] <= now + Slack
           /\ \A i, j \in 1..n : i <= j => r[i] <= r[j]
BY KeyspaceAssumption DEF TypeOK, Reads

\* The lookups and deletions of dict.c, and the expire field they write, stay
\* within the type of a dictionary.
LEMMA DictTypes ==
    ASSUME NEW d \in [Keys -> Nat \cup {Absent}], NEW k \in Keys, NEW t
    PROVE  /\ Looked(d, k, t) \in [Keys -> Nat \cup {Absent}]
           /\ Reaped(d, k, t) \in [Keys -> Nat \cup {Absent}]
BY DEF Looked, Reaped

\* A dictionary loses entries by lookups and deletions and changes no deadline.
LEMMA DictShrinks ==
    ASSUME NEW d \in [Keys -> Nat \cup {Absent}], NEW k \in Keys, NEW t,
           NEW j \in Keys
    PROVE  /\ Looked(d, k, t)[j] \in {d[j], Absent}
           /\ Reaped(d, k, t)[j] \in {d[j], Absent}
BY DEF Looked, Reaped
-----------------------------------------------------------------------------
\* The initial state: nothing is stored, nothing is scheduled.
LEMMA InitIInv == Init => IInv
BY KeyspaceAssumption DEF Init, IInv, TypeOK, OneType, HeapCovers, CronBehind, Absent, Idle

\* Every command, every iteration of serverCron and every second preserve the
\* type invariant.
LEMMA TypeStep == TypeOK /\ [Next]_vars => TypeOK'
<1> SUFFICES ASSUME TypeOK, [Next]_vars PROVE TypeOK'
  OBVIOUS
<1> USE KeyspaceAssumption DEF TypeOK
<1>1. ASSUME NEW k \in Keys, NEW ttl \in Ttls, Set(k, ttl) PROVE TypeOK'
  <2>1. PICK r \in Reads(3) : Set(k, ttl)!2!(r)
    BY <1>1 DEF Set
  <2>2. \A i \in 1..3 : r[i] \in Nat /\ r[i] >= now
    BY ReadsRange
  <2>3. data' \in [Keys -> Nat \cup {Absent}] /\ heap' \subseteq (Keys \X Int)
    BY <2>1, <2>2 DEF SetKv, Deadline, Never
  <2> QED BY <1>1, <2>1, <2>2, <2>3 DEF Set, ZsetsAfterDel, HashesAfterDel, cron
<1>2. ASSUME NEW k \in Keys, SetNx(k) PROVE TypeOK'
  <2>1. PICK r \in Reads(2) : SetNx(k)!2!(r)
    BY <1>2 DEF SetNx
  <2>2. \A i \in 1..2 : r[i] \in Nat /\ r[i] >= now
    BY ReadsRange
  <2> QED BY <1>2, <2>1, <2>2, DictTypes DEF SetNx, SetKv, Deadline, Never, cron
<1>3. ASSUME NEW k \in Keys, Rewrite(k) PROVE TypeOK'
  <2>1. PICK r \in Reads(4) : Rewrite(k)!2!(r)
    BY <1>3 DEF Rewrite
  <2>2. \A i \in 1..4 : r[i] \in Nat /\ r[i] >= now
    BY ReadsRange
  <2>3. Remaining(data[k], r[2]) \in Nat
    BY <2>2 DEF Remaining, Absent
  <2>4. data' \in [Keys -> Nat \cup {Absent}] /\ heap' \subseteq (Keys \X Int)
    BY <2>1, <2>2, <2>3 DEF SetKv, Deadline, Never
  <2> QED BY <1>3, <2>1, <2>2, <2>4, DictTypes DEF Rewrite, cron
<1>4. ASSUME NEW k \in Keys, Get(k) PROVE TypeOK'
  <2>1. PICK r \in Reads(2) : Get(k)!2!(r)
    BY <1>4 DEF Get
  <2>2. \A i \in 1..2 : r[i] \in Nat /\ r[i] >= now
    BY ReadsRange
  <2> QED BY <1>4, <2>1, <2>2, DictTypes DEF Get, cron
<1>5. ASSUME NEW k \in Keys, Lookup(k) PROVE TypeOK'
  <2>1. PICK r \in Reads(2) : Lookup(k)!2!(r)
    BY <1>5 DEF Lookup
  <2>2. \A i \in 1..2 : r[i] \in Nat /\ r[i] >= now
    BY ReadsRange
  <2> QED BY <1>5, <2>1, <2>2, DictTypes DEF Lookup, cron
<1>6. ASSUME NEW k \in Keys, Del(k) PROVE TypeOK'
  <2>1. PICK r \in Reads(1) : Del(k)!2!(r)
    BY <1>6 DEF Del
  <2>2. r[1] \in Nat /\ r[1] >= now
    BY ReadsRange
  <2> QED BY <1>6, <2>1, <2>2 DEF Del, ZsetsAfterDel, HashesAfterDel, cron
<1>7. ASSUME NEW k \in Keys, NEW ttl \in Ttls, Expire(k, ttl) PROVE TypeOK'
  <2>1. PICK r \in Reads(2) : Expire(k, ttl)!2!(r)
    BY <1>7 DEF Expire
  <2>2. \A i \in 1..2 : r[i] \in Nat /\ r[i] >= now
    BY ReadsRange
  <2>3. Deadline(ttl, r[1]) \in Nat /\ r[2] + ttl \in Int
    BY <2>2 DEF Deadline, Never
  <2> QED BY <1>7, <2>1, <2>2, <2>3 DEF Expire, cron
<1>8. ASSUME NEW k \in Keys, ZAdd(k) PROVE TypeOK'
  <2>1. PICK r \in Reads(2) : ZAdd(k)!2!(r)
    BY <1>8 DEF ZAdd
  <2>2. \A i \in 1..2 : r[i] \in Nat /\ r[i] >= now
    BY ReadsRange
  <2> QED BY <1>8, <2>1, <2>2, DictTypes DEF ZAdd, Never, cron
<1>9. ASSUME NEW k \in Keys, HSet(k) PROVE TypeOK'
  BY <1>9 DEF HSet, cron
<1>10. ASSUME FlushDb PROVE TypeOK'
  BY <1>10 DEF FlushDb, cron
<1>11. ASSUME CronStart PROVE TypeOK'
  BY <1>11 DEF CronStart, dicts
<1>12. ASSUME CronPop PROVE TypeOK'
  <2>1. PICK x \in heap, r \in Reads(2) : CronPop!2!(x, r)
    BY <1>12 DEF CronPop
  <2>2. \A i \in 1..2 : r[i] \in Nat /\ r[i] >= now
    BY ReadsRange
  <2>3. x[1] \in Keys
    OBVIOUS
  <2>4. reaped' \in 0..CronLimit
    BY <1>12, <2>1 DEF CronPop, CronMore, Counted
  <2>5. /\ data' \in {data, Looked(data, x[1], r[1]), Reaped(data, x[1], r[2])}
        /\ zsets' \in {zsets, Reaped(zsets, x[1], r[2])}
    BY <2>1
  <2>6. /\ data' \in [Keys -> Nat \cup {Absent}]
        /\ zsets' \in [Keys -> Nat \cup {Absent}]
    BY <2>2, <2>3, <2>5, DictTypes
  <2>7. now' = r[2] /\ heap' \subseteq heap
    BY <2>1
  <2> QED BY <1>12, <2>2, <2>4, <2>6, <2>7 DEF CronPop
<1>13. ASSUME CronEnd PROVE TypeOK'
  <2>1. PICK r \in Reads(2) : CronEnd!2!(r)
    BY <1>13 DEF CronEnd
  <2>2. \A i \in 1..2 : r[i] \in Nat /\ r[i] >= now
    BY ReadsRange
  <2>3. /\ \E S \in SUBSET Keys : data' = Sampled(data, S)
        /\ \E S \in SUBSET Keys : zsets' = Sampled(zsets, S)
    BY <2>1 DEF Expired
  <2>4. data' \in [Keys -> Nat \cup {Absent}] /\ zsets' \in [Keys -> Nat \cup {Absent}]
    BY <2>3 DEF Sampled
  <2> QED BY <1>13, <2>1, <2>2, <2>4 DEF CronEnd
<1>14. ASSUME Tick PROVE TypeOK'
  BY <1>14 DEF Tick, dicts, cron
<1>15. ASSUME UNCHANGED vars PROVE TypeOK'
  BY <1>15 DEF vars
<1> QED
  BY <1>1, <1>2, <1>3, <1>4, <1>5, <1>6, <1>7, <1>8, <1>9, <1>10, <1>11,
     <1>12, <1>13, <1>14, <1>15 DEF Next, Command, Cron
\* Type correctness of the specification.
THEOREM TypeCorrect == Spec => []TypeOK
<1>1. Init => TypeOK
  BY InitIInv DEF IInv
<1> QED BY <1>1, TypeStep, PTL DEF Spec
-----------------------------------------------------------------------------
\* A step that writes no deadline and takes nothing off the heap keeps every
\* deadline scheduled.
LEMMA NoNewDeadline ==
    ASSUME HeapCovers, heap \subseteq heap',
           \A k \in Keys : /\ data'[k] \in {data[k], Absent, Never}
                           /\ zsets'[k] \in {zsets[k], Absent, Never}
    PROVE  HeapCovers'
BY DEF HeapCovers, Scheduled, Absent, Never

\* set_kv schedules the deadline it writes: the heap entry's reading of the
\* clock is not earlier than dict_put's and at most Slack later.
LEMMA SetKvSchedules ==
    ASSUME TypeOK, HeapCovers, NEW k \in Keys, NEW ttl \in Int,
           NEW t \in Nat, NEW tHeap \in Nat, t <= tHeap, tHeap <= t + Slack,
           SetKv(k, ttl, t, tHeap),
           \A j \in Keys : zsets'[j] \in {zsets[j], Absent}
    PROVE  HeapCovers'
<1> USE KeyspaceAssumption DEF TypeOK
<1>1. heap \subseteq heap'
  BY DEF SetKv
<1>2. ASSUME NEW j \in Keys, zsets'[j] > 0 PROVE Scheduled(j, zsets[j])'
  BY <1>1, <1>2 DEF HeapCovers, Scheduled, Absent
<1>3. ASSUME NEW j \in Keys, data'[j] > 0, j # k PROVE Scheduled(j, data[j])'
  BY <1>1, <1>3 DEF HeapCovers, Scheduled, SetKv
<1>4. ASSUME data'[k] > 0 PROVE Scheduled(k, data[k])'
  <2>1. ttl > 0 /\ data'[k] = t + ttl /\ <<k, tHeap + ttl>> \in heap'
    BY <1>4 DEF SetKv, Deadline, Never
  <2> QED BY <2>1 DEF Scheduled
<1> QED BY <1>2, <1>3, <1>4 DEF HeapCovers

\* Popping keeps the deadlines scheduled: if the popped entry covers a deadline,
\* the dictionary that holds it answers the lookup and loses the key.
LEMMA CronPopCovers == IInv /\ CronPop => OneType' /\ HeapCovers'
<1> SUFFICES ASSUME IInv, CronPop PROVE OneType' /\ HeapCovers'
  OBVIOUS
<1> USE KeyspaceAssumption DEF IInv, TypeOK
<1>1. PICK x \in heap, r \in Reads(2) : CronPop!2!(x, r)
  BY DEF CronPop
<1>2. /\ r[1] \in Nat /\ r[2] \in Nat
      /\ now <= r[1] /\ r[1] <= r[2]
  BY ReadsRange
<1>3. x[1] \in Keys /\ x[2] \in Int /\ heap' = heap \ {x} /\ x = <<x[1], x[2]>>
  BY <1>1
<1>4. cronNow \in Nat /\ x[2] <= cronNow /\ cronNow <= now
  BY <1>1, <1>3 DEF CronPop, CronMore, CronBehind
<1>5. \A j \in Keys : data'[j] \in {data[j], Absent} /\ zsets'[j] \in {zsets[j], Absent}
  BY <1>1, <1>3, DictShrinks
<1>6. OneType'
  BY <1>5 DEF OneType
<1>7. ASSUME NEW j \in Keys, data'[j] > 0 PROVE Scheduled(j, data[j])'
  <2>1. data'[j] = data[j] /\ data[j] \in Nat
    BY <1>5, <1>7 DEF Absent
  <2>2. PICK y \in heap : y[1] = j /\ data[j] <= y[2] /\ y[2] <= data[j] + Slack
    BY <1>7, <2>1 DEF HeapCovers, Scheduled
  <2>3. CASE y # x
    BY <1>3, <2>1, <2>2, <2>3 DEF Scheduled
  <2>4. CASE y = x
    <3>1. x[1] = j /\ data[j] <= cronNow
      BY <1>3, <1>4, <2>1, <2>2, <2>4
    <3>2. CASE Live(data[j], r[1])
      BY <1>1, <1>2, <1>7, <2>1, <3>1, <3>2 DEF Reaped, Due, Absent
    <3>3. CASE ~Live(data[j], r[1])
      BY <1>1, <1>7, <3>1, <3>3 DEF Looked, Absent
    <3> QED BY <3>2, <3>3
  <2> QED BY <2>3, <2>4
<1>8. ASSUME NEW j \in Keys, zsets'[j] > 0 PROVE Scheduled(j, zsets[j])'
  <2>1. zsets'[j] = zsets[j] /\ zsets[j] \in Nat
    BY <1>5, <1>8 DEF Absent
  <2>2. PICK y \in heap : y[1] = j /\ zsets[j] <= y[2] /\ y[2] <= zsets[j] + Slack
    BY <1>8, <2>1 DEF HeapCovers, Scheduled
  <2>3. CASE y # x
    BY <1>3, <2>1, <2>2, <2>3 DEF Scheduled
  <2>4. CASE y = x
    <3>1. x[1] = j /\ zsets[j] <= cronNow
      BY <1>3, <1>4, <2>1, <2>2, <2>4
    <3>2. ~Live(data[j], r[1])
      BY <1>8, <2>1 DEF OneType, Live, Absent
    <3>3. zsets' = Reaped(zsets, j, r[2])
      BY <1>1, <3>1, <3>2
    <3> QED BY <1>8, <2>1, <3>1, <3>3 DEF Reaped, Due, Absent
  <2> QED BY <2>3, <2>4
<1> QED BY <1>6, <1>7, <1>8 DEF HeapCovers
\* IInv is inductive: one step per command, per part of serverCron, and Tick.
LEMMA IInvStep == IInv /\ [Next]_vars => IInv'
<1> SUFFICES ASSUME IInv, [Next]_vars PROVE OneType' /\ HeapCovers' /\ CronBehind'
  BY TypeStep DEF IInv
<1> USE KeyspaceAssumption DEF IInv, TypeOK
<1>0. ASSUME Serving, UNCHANGED cron PROVE CronBehind'
  BY <1>0, TypeStep DEF Serving, CronBehind, cron, Idle
<1>1. ASSUME NEW k \in Keys, NEW ttl \in Ttls, Set(k, ttl)
      PROVE  OneType' /\ HeapCovers' /\ CronBehind'
  <2>1. PICK r \in Reads(3) : Set(k, ttl)!2!(r)
    BY <1>1 DEF Set
  <2>2. \A i \in 1..3 : r[i] \in Nat /\ r[i] >= now /\ r[i] <= now + Slack
    BY ReadsRange
  <2>3. HeapCovers'
    <3>1. r[2] <= r[3] /\ r[3] <= r[2] + Slack
      BY <2>2, ReadsRange
    <3>2. \A j \in Keys : zsets'[j] \in {zsets[j], Absent}
      BY <2>1 DEF ZsetsAfterDel
    <3> QED BY <2>1, <2>2, <3>1, <3>2, SetKvSchedules
  <2>4. OneType'
    BY <2>1 DEF SetKv, ZsetsAfterDel, OneType, Live
  <2> QED BY <1>0, <1>1, <2>3, <2>4 DEF Set
<1>2. ASSUME NEW k \in Keys, SetNx(k) PROVE OneType' /\ HeapCovers' /\ CronBehind'
  <2>1. PICK r \in Reads(2) : SetNx(k)!2!(r)
    BY <1>2 DEF SetNx
  <2>2. \A i \in 1..2 : r[i] \in Nat /\ r[i] >= now /\ r[i] <= now + Slack
    BY ReadsRange
  <2>3. HeapCovers'
    BY <2>1, NoNewDeadline DEF SetKv, Deadline, Looked
  <2>4. OneType'
    BY <2>1 DEF SetKv, Looked, OneType
  <2> QED BY <1>0, <1>2, <2>3, <2>4 DEF SetNx
<1>3. ASSUME NEW k \in Keys, Rewrite(k) PROVE OneType' /\ HeapCovers' /\ CronBehind'
  <2>1. PICK r \in Reads(4) : Rewrite(k)!2!(r)
    BY <1>3 DEF Rewrite
  <2>2. \A i \in 1..4 : r[i] \in Nat /\ r[i] >= now /\ r[i] <= now + Slack
    BY ReadsRange
  <2>3. HeapCovers'
    <3>1. r[3] <= r[4] /\ r[4] <= r[3] + Slack
      BY <2>2, ReadsRange
    <3>2. \A j \in Keys : zsets'[j] \in {zsets[j], Absent}
      BY <2>1 DEF Looked
    <3>3. Remaining(data[k], r[2]) \in Int
      BY <2>2 DEF Remaining, Absent
    <3> QED BY <2>1, <2>2, <3>1, <3>2, <3>3, SetKvSchedules
  <2>4. OneType'
    BY <2>1 DEF SetKv, Looked, OneType
  <2> QED BY <1>0, <1>3, <2>3, <2>4 DEF Rewrite
<1>4. ASSUME NEW k \in Keys, Get(k) PROVE OneType' /\ HeapCovers' /\ CronBehind'
  <2>1. PICK r \in Reads(2) : Get(k)!2!(r)
    BY <1>4 DEF Get
  <2>2. \A j \in Keys : data'[j] \in {data[j], Absent} /\ zsets'[j] \in {zsets[j], Absent}
    BY <2>1, DictShrinks
  <2>3. HeapCovers'
    BY <1>4, <2>2, NoNewDeadline DEF Get
  <2>4. OneType'
    BY <2>2 DEF OneType
  <2> QED BY <1>0, <1>4, <2>3, <2>4 DEF Get
<1>5. ASSUME NEW k \in Keys, Lookup(k) PROVE OneType' /\ HeapCovers' /\ CronBehind'
  <2>1. PICK r \in Reads(2) : Lookup(k)!2!(r)
    BY <1>5 DEF Lookup
  <2>2. \A j \in Keys : data'[j] \in {data[j], Absent} /\ zsets'[j] \in {zsets[j], Absent}
    BY <2>1, DictShrinks
  <2>3. HeapCovers'
    BY <1>5, <2>2, NoNewDeadline DEF Lookup
  <2>4. OneType'
    BY <2>2 DEF OneType
  <2> QED BY <1>0, <1>5, <2>3, <2>4 DEF Lookup
<1>6. ASSUME NEW k \in Keys, Del(k) PROVE OneType' /\ HeapCovers' /\ CronBehind'
  <2>1. \A j \in Keys : data'[j] \in {data[j], Absent} /\ zsets'[j] \in {zsets[j], Absent}
    BY <1>6 DEF Del, ZsetsAfterDel
  <2>2. HeapCovers'
    BY <1>6, <2>1, NoNewDeadline DEF Del
  <2>3. OneType'
    BY <2>1 DEF OneType
  <2> QED BY <1>0, <1>6, <2>2, <2>3 DEF Del
<1>7. ASSUME NEW k \in Keys, NEW ttl \in Ttls, Expire(k, ttl)
      PROVE  OneType' /\ HeapCovers' /\ CronBehind'
  <2>1. PICK r \in Reads(2) : Expire(k, ttl)!2!(r)
    BY <1>7 DEF Expire
  <2>2. \A i \in 1..2 : r[i] \in Nat /\ r[i] >= now /\ r[i] <= now + Slack
    BY ReadsRange
  <2>3. /\ r[1] <= r[2] /\ r[2] <= r[1] + Slack
        /\ <<k, r[2] + ttl>> \in heap' /\ heap \subseteq heap'
    BY <2>1, <2>2, ReadsRange
  <2>4. ASSUME Deadline(ttl, r[1]) > 0 PROVE Scheduled(k, Deadline(ttl, r[1]))'
    <3>1. r[1] + ttl <= r[2] + ttl /\ r[2] + ttl <= r[1] + ttl + Slack
      BY <2>2, <2>3
    <3> QED BY <2>3, <2>4, <3>1 DEF Scheduled, Deadline, Never
  <2>5. \A j \in Keys :
          /\ j # k => data'[j] = data[j] /\ zsets'[j] = zsets[j]
          /\ data'[k] \in {data[k], Deadline(ttl, r[1])}
          /\ zsets'[k] \in {zsets[k], Deadline(ttl, r[1])}
    BY <2>1
  <2>6. \A j \in Keys, e \in Int : Scheduled(j, e) => Scheduled(j, e)'
    BY <2>3 DEF Scheduled
  <2>7. HeapCovers'
    BY <2>4, <2>5, <2>6 DEF HeapCovers, Absent
  <2>8. OneType'
    BY <2>1 DEF OneType
  <2> QED BY <1>0, <1>7, <2>7, <2>8 DEF Expire
<1>8. ASSUME NEW k \in Keys, ZAdd(k) PROVE OneType' /\ HeapCovers' /\ CronBehind'
  <2>1. PICK r \in Reads(2) : ZAdd(k)!2!(r)
    BY <1>8 DEF ZAdd
  <2>2. \A j \in Keys : /\ data'[j] \in {data[j], Absent}
                        /\ zsets'[j] \in {zsets[j], Never}
    BY <2>1 DEF Looked
  <2>3. HeapCovers'
    BY <1>8, <2>2, NoNewDeadline DEF ZAdd
  <2>4. OneType'
    BY <2>1 DEF Looked, OneType
  <2> QED BY <1>0, <1>8, <2>3, <2>4 DEF ZAdd
<1>9. ASSUME NEW k \in Keys, HSet(k) PROVE OneType' /\ HeapCovers' /\ CronBehind'
  BY <1>0, <1>9 DEF HSet, OneType, HeapCovers, Scheduled
<1>10. ASSUME FlushDb PROVE OneType' /\ HeapCovers' /\ CronBehind'
  BY <1>0, <1>10, NoNewDeadline DEF FlushDb, OneType
<1>11. ASSUME CronStart PROVE OneType' /\ HeapCovers' /\ CronBehind'
  BY <1>11 DEF CronStart, dicts, OneType, HeapCovers, Scheduled, CronBehind
<1>12. ASSUME CronPop PROVE OneType' /\ HeapCovers' /\ CronBehind'
  <2>1. PICK x \in heap, r \in Reads(2) : CronPop!2!(x, r)
    BY <1>12 DEF CronPop
  <2>2. r[2] \in Nat /\ r[2] >= now
    BY ReadsRange
  <2>3. CronBehind'
    BY <1>12, <2>1, <2>2 DEF CronPop, CronBehind
  <2> QED BY <1>12, <2>3, CronPopCovers
<1>13. ASSUME CronEnd PROVE OneType' /\ HeapCovers' /\ CronBehind'
  <2>1. PICK r \in Reads(2) : CronEnd!2!(r)
    BY <1>13 DEF CronEnd
  <2>2. \A j \in Keys : data'[j] \in {data[j], Absent} /\ zsets'[j] \in {zsets[j], Absent}
    BY <2>1 DEF Sampled
  <2>3. HeapCovers'
    BY <1>13, <2>2, NoNewDeadline DEF CronEnd
  <2>4. OneType'
    BY <2>2 DEF OneType
  <2>5. CronBehind'
    BY <1>13, <2>1, ReadsRange DEF CronEnd, CronBehind, Idle
  <2> QED BY <2>3, <2>4, <2>5
<1>14. ASSUME Tick PROVE OneType' /\ HeapCovers' /\ CronBehind'
  BY <1>14 DEF Tick, dicts, cron, OneType, HeapCovers, Scheduled, CronBehind, Idle
<1>15. ASSUME UNCHANGED vars PROVE OneType' /\ HeapCovers' /\ CronBehind'
  BY <1>15 DEF vars, OneType, HeapCovers, Scheduled, CronBehind
<1> QED
  BY <1>1, <1>2, <1>3, <1>4, <1>5, <1>6, <1>7, <1>8, <1>9, <1>10, <1>11,
     <1>12, <1>13, <1>14, <1>15 DEF Next, Command, Cron
-----------------------------------------------------------------------------
\* IInv holds throughout every execution.
THEOREM Inductive == Spec => []IInv
BY InitIInv, IInvStep, PTL DEF Spec

\* No key is a string and a sorted set at once.
THEOREM OneTypeHolds == Spec => []OneType
<1>1. IInv => OneType
  BY DEF IInv
<1> QED BY Inductive, <1>1, PTL

\* Every deadline in a dictionary has its own entry in the heap.
THEOREM HeapCoversHolds == Spec => []HeapCovers
<1>1. IInv => HeapCovers
  BY DEF IInv
<1> QED BY Inductive, <1>1, PTL

\* serverCron and the lazy deletions remove nothing before its deadline, however
\* stale the heap is.
THEOREM ReapsOnlyDueHolds == Spec => ReapsOnlyDue
<1> DEFINE Reaping(k) ==
      /\ Removed(data, k) => data[k] > 0 /\ data[k] <= now'
      /\ Removed(zsets, k) => zsets[k] > 0 /\ zsets[k] <= now'
<1>1. ASSUME IInv, NEW d \in [Keys -> Nat \cup {Absent}], NEW j \in Keys,
             NEW k \in Keys, NEW t \in Nat, t <= now', now' \in Nat
      PROVE  Looked(d, j, t)[k] = Absent /\ d[k] # Absent => d[k] > 0 /\ d[k] <= now'
  BY <1>1 DEF Looked, Live, Absent, Never
<1>2. ASSUME IInv, NEW d \in [Keys -> Nat \cup {Absent}], NEW j \in Keys,
             NEW k \in Keys, NEW t \in Nat, t <= now', now' \in Nat, cronNow <= now',
             cronNow \in Int
      PROVE  Reaped(d, j, t)[k] = Absent /\ d[k] # Absent => d[k] > 0 /\ d[k] <= now'
  BY <1>2 DEF Reaped, Live, Due, Absent, Never
<1>3. ASSUME IInv, NEW j \in Keys, Get(j) \/ Lookup(j), NEW k \in Keys PROVE Reaping(k)
  <2>1. PICK r \in Reads(2) :
          /\ data' = data \/ data' = Looked(data, j, r[1]) \/ data' = Looked(data, j, r[2])
          /\ zsets' = zsets \/ zsets' = Looked(zsets, j, r[1]) \/ zsets' = Looked(zsets, j, r[2])
          /\ now' = r[2]
    BY <1>3 DEF Get, Lookup
  <2>2. r[1] \in Nat /\ r[2] \in Nat /\ r[1] <= r[2]
    BY <1>3, ReadsRange DEF IInv
  <2> QED BY <1>1, <1>3, <2>1, <2>2 DEF IInv, TypeOK, Removed
<1>4. ASSUME IInv, CronPop, NEW k \in Keys PROVE Reaping(k)
  <2>1. PICK x \in heap, r \in Reads(2) : CronPop!2!(x, r)
    BY <1>4 DEF CronPop
  <2>2. r[1] \in Nat /\ r[2] \in Nat /\ now <= r[1] /\ r[1] <= r[2] /\ now \in Nat
    BY <1>4, ReadsRange DEF IInv, TypeOK
  <2>3. /\ x[1] \in Keys /\ now' = r[2] /\ cronNow <= now' /\ cronNow \in Int
        /\ data' \in {data, Looked(data, x[1], r[1]), Reaped(data, x[1], r[2])}
        /\ zsets' \in {zsets, Reaped(zsets, x[1], r[2])}
    BY <1>4, <2>1, <2>2 DEF IInv, TypeOK, CronBehind, Idle
  <2> QED BY SMTT(30), <1>1, <1>2, <1>4, <2>2, <2>3 DEF IInv, TypeOK, Removed
<1>5. ASSUME IInv, CronEnd, NEW k \in Keys PROVE Reaping(k)
  <2>1. PICK r \in Reads(2) : CronEnd!2!(r)
    BY <1>5 DEF CronEnd
  <2>2. r[1] \in Nat /\ r[2] \in Nat /\ r[1] <= r[2]
    BY <1>5, ReadsRange DEF IInv
  <2> QED BY <1>5, <2>1, <2>2 DEF IInv, TypeOK, Expired, Sampled, Removed
<1>6. IInv /\ [Next]_vars => [ReapStep => \A k \in Keys : Reaping(k)]_vars
  BY <1>3, <1>4, <1>5 DEF ReapStep
<1> QED BY Inductive, <1>6, PTL DEF Spec, ReapsOnlyDue

\* INCR, DECR and APPEND keep a deadline that lies ahead of them.
THEOREM RewriteKeepsDeadlineHolds == Spec => RewriteKeepsDeadline
<1> DEFINE Keeping(k) ==
      Rewrite(k) =>
        /\ data[k] > now' => data[k] <= data'[k] /\ data'[k] <= data[k] + Slack
        /\ data[k] = Never => data'[k] = Never
<1>1. ASSUME IInv, NEW k \in Keys, Rewrite(k) PROVE Keeping(k)
  <2>1. PICK r \in Reads(4) : Rewrite(k)!2!(r)
    BY <1>1 DEF Rewrite
  <2>2. /\ \A i \in 1..4 : r[i] \in Nat /\ r[i] >= now /\ r[i] <= now + Slack
        /\ r[2] <= r[3] /\ r[2] <= r[4] /\ now' = r[4]
    BY <1>1, <2>1, ReadsRange DEF IInv
  <2>3. data'[k] = Deadline(Remaining(data[k], r[2]), r[3])
    BY <1>1, <2>1 DEF SetKv, IInv, TypeOK
  <2>4. CASE data[k] > now'
    <3>1. data[k] \in Nat /\ Slack \in Nat /\ now \in Nat
      BY <1>1, <2>2, <2>4, KeyspaceAssumption DEF IInv, TypeOK, Absent
    <3>2. data'[k] = r[3] + (data[k] - r[2])
      BY <2>2, <2>3, <2>4, <3>1 DEF Deadline, Remaining
    <3> QED BY <2>2, <2>4, <3>1, <3>2 DEF Never
  <2>5. CASE data[k] = Never
    BY <1>1, <2>2, <2>3, <2>5 DEF Deadline, Remaining, Never, IInv, TypeOK
  <2> QED BY <2>2, <2>4, <2>5 DEF Never, IInv, TypeOK
<1>2. IInv /\ [Next]_vars => [\A k \in Keys : Keeping(k)]_vars
  BY <1>1
<1> QED BY Inductive, <1>2, PTL DEF Spec, RewriteKeepsDeadline

\* The heap misses no deadline: what a complete serverCron call leaves behind
\* is at most Slack seconds overdue.
THEOREM CronMissesNoneHolds == Spec => CronMissesNone
<1> DEFINE Missing(k) ==
      \/ data'[k] > 0 /\ data'[k] + Slack <= cronNow
      \/ zsets'[k] > 0 /\ zsets'[k] + Slack <= cronNow
<1>1. ASSUME IInv, CronEnd, reaped < CronLimit, NEW k \in Keys PROVE ~Missing(k)
  <2>1. PICK r \in Reads(2) : CronEnd!2!(r)
    BY <1>1 DEF CronEnd
  <2>2. data'[k] \in {data[k], Absent} /\ zsets'[k] \in {zsets[k], Absent}
    BY <1>1, <2>1 DEF Sampled, IInv, TypeOK
  <2>3. \A x \in heap : x[2] \in Int /\ x[2] > cronNow
    BY <1>1 DEF CronEnd, CronMore, IInv, TypeOK, Idle
  <2>4. \A e \in Nat : Scheduled(k, e) => e + Slack > cronNow
    BY <1>1, <2>3, KeyspaceAssumption DEF Scheduled, IInv, TypeOK, Idle
  <2>5. cronNow \in Int /\ Slack \in Nat
    BY <1>1, KeyspaceAssumption DEF IInv, TypeOK, Idle
  <2>6. data'[k] > 0 => data'[k] \in Nat /\ Scheduled(k, data'[k])
    BY <1>1, <2>2 DEF HeapCovers, IInv, TypeOK, Absent
  <2>7. zsets'[k] > 0 => zsets'[k] \in Nat /\ Scheduled(k, zsets'[k])
    BY <1>1, <2>2 DEF HeapCovers, IInv, TypeOK, Absent
  <2> QED
    BY <2>4, <2>5, <2>6, <2>7
<1>2. IInv /\ [Next]_vars =>
        [CronEnd /\ reaped < CronLimit => \A k \in Keys :
           /\ ~(data'[k] > 0 /\ data'[k] + Slack <= cronNow)
           /\ ~(zsets'[k] > 0 /\ zsets'[k] + Slack <= cronNow)]_vars
  BY <1>1
<1> QED BY Inductive, <1>2, PTL DEF Spec, CronMissesNone
=============================================================================
