------------------------------- MODULE AofBuf -------------------------------
(***************************************************************************)
(* The buffered writer of backend/aofbuf.c, below it stdio and the kernel,   *)
(* and serverCron, which calls it once or more in every second.             *)
(*                                                                          *)
(* A byte is its position in all that was written.  stdio passes on what it  *)
(* holds, and the kernel what it has, when they like.  fp is open, and       *)
(* fwrite and fsync succeed.                                                *)
(***************************************************************************)
EXTENDS Naturals, Sequences

CONSTANTS
    BufSize,        \* buf_size after aofbuf_init
    MaxBytes,       \* bound: bytes written
    MaxTime         \* bound: seconds that pass

ASSUME AofBufAssumption == BufSize \in Nat \ {0} /\ MaxBytes \in Nat /\ MaxTime \in Nat

VARIABLES
    stamps,     \* history: the second in which each byte was written
    size,       \* buf_size
    buffer,     \* the bytes in the writer's buffer
    stdio,      \* those in the FILE's
    file,       \* those the kernel has
    synced,     \* how many of them are on the disk
    policy, lastFsync, time,
    checked     \* history: the second of the last call of aofbuf_periodic_fsync under everysec

bufVars == <<stamps, size, buffer, stdio, file, synced, policy, lastFsync, time, checked>>

Policies == {"always", "everysec", "no"}

\* Where the bytes are.
Bytes == [buffer |-> buffer, stdio |-> stdio, file |-> file, synced |-> synced, last |-> lastFsync]
Becomes(s) ==
    /\ buffer' = s.buffer /\ stdio' = s.stdio /\ file' = s.file
    /\ synced' = s.synced /\ lastFsync' = s.last

\* do_fsync
Fsync(s) ==
    [s EXCEPT !.file = @ \o s.stdio, !.stdio = <<>>,
              !.synced = Len(s.file) + Len(s.stdio), !.last = time]
Always(s) == IF policy = "always" THEN Fsync(s) ELSE s

\* aofbuf_flush
Flush(s) ==
    IF s.buffer = <<>> THEN s
    ELSE Always([s EXCEPT !.stdio = @ \o s.buffer, !.buffer = <<>>])

\* Mutant of Write: large data overtakes what is in the buffer.
WriteOvertakes(len) ==
    LET data == [i \in 1..len |-> Len(stamps) + i]
        room == IF Len(buffer) + len > size THEN Flush(Bytes) ELSE Bytes
    IN /\ Len(stamps) + len <= MaxBytes
       /\ stamps' = stamps \o [i \in 1..len |-> time]
       /\ Becomes(IF len >= size THEN Always([Bytes EXCEPT !.stdio = @ \o data])
                  ELSE [room EXCEPT !.buffer = @ \o data])
       /\ UNCHANGED <<size, policy, time, checked>>
\* aofbuf_write: what is as large as the buffer goes around it.
Write(len) ==
    LET data == [i \in 1..len |-> Len(stamps) + i]
        room == IF Len(buffer) + len > size THEN Flush(Bytes) ELSE Bytes
    IN /\ Len(stamps) + len <= MaxBytes
       /\ stamps' = stamps \o [i \in 1..len |-> time]
       /\ Becomes(IF len >= size THEN Always([Flush(Bytes) EXCEPT !.stdio = @ \o data])
                  ELSE [room EXCEPT !.buffer = @ \o data])
       /\ UNCHANGED <<size, policy, time, checked>>

\* Mutant of PeriodicFsync: a second after the last fsync is not yet due.
PeriodicFsyncLate ==
    /\ Becomes(IF policy = "everysec" /\ time - lastFsync > 1 THEN Fsync(Flush(Bytes)) ELSE Bytes)
    /\ checked' = IF policy = "everysec" THEN time ELSE checked
    /\ UNCHANGED <<stamps, size, policy, time>>
\* aofbuf_periodic_fsync
PeriodicFsync ==
    /\ Becomes(IF policy = "everysec" /\ time - lastFsync >= 1 THEN Fsync(Flush(Bytes)) ELSE Bytes)
    /\ checked' = IF policy = "everysec" THEN time ELSE checked
    /\ UNCHANGED <<stamps, size, policy, time>>

\* CONFIG SET appendfsync
SetPolicy ==
    /\ policy' \in Policies
    /\ UNCHANGED <<stamps, size, buffer, stdio, file, synced, lastFsync, time, checked>>

\* aofbuf_destroy.  What is written later goes around the buffer there is no more.
CloseBuffer ==
    /\ Becomes(Flush(Bytes)) /\ size' = 0
    /\ UNCHANGED <<stamps, policy, time, checked>>

\* stdio's buffer is full; the kernel writes its pages.
Spill ==
    \E n \in 1..Len(stdio) :
        /\ file' = file \o SubSeq(stdio, 1, n) /\ stdio' = SubSeq(stdio, n + 1, Len(stdio))
        /\ UNCHANGED <<stamps, size, buffer, synced, policy, lastFsync, time, checked>>
WriteBack ==
    /\ synced' \in synced..Len(file)
    /\ UNCHANGED <<stamps, size, buffer, stdio, file, policy, lastFsync, time, checked>>

Second ==
    /\ time < MaxTime /\ time' = time + 1
    /\ UNCHANGED <<stamps, size, buffer, stdio, file, synced, policy, lastFsync, checked>>

BufInit ==
    /\ stamps = <<>> /\ size = BufSize /\ buffer = <<>> /\ stdio = <<>> /\ file = <<>>
    /\ synced = 0 /\ policy \in Policies /\ lastFsync = 0 /\ time = 0 /\ checked = 0

BufNext ==
    \/ \E len \in 1..(BufSize + 1) : Write(len)
    \/ PeriodicFsync \/ CloseBuffer \/ SetPolicy \/ Spill \/ WriteBack \/ Second

BufSpec == BufInit /\ [][BufNext]_bufVars
-----------------------------------------------------------------------------
\* The writer's state: nothing is stamped or synced in a second to come.
BufTypeOK ==
    /\ stamps \in Seq(0..time) /\ time \in Nat
    /\ {buffer, stdio, file} \subseteq Seq(1..Len(stamps))
    /\ size \in {0, BufSize} /\ synced \in 0..Len(file)
    /\ policy \in Policies /\ {lastFsync, checked} \subseteq 0..time

\* Through flushes, writes around the buffer and changes of the policy, the bytes are
\* in the file in the order in which they were written and none is lost: what a crash
\* leaves is a prefix of the log.
Ordered ==
    /\ file \o stdio \o buffer = [i \in 1..Len(stamps) |-> i]
    /\ synced <= Len(file) /\ Len(buffer) <= size

\* The policy everysec promises "fsync every second": once serverCron has called
\* aofbuf_periodic_fsync under it, whether that call found an fsync due or not, nothing
\* written before the second of the call is off the disk, whatever is written and
\* whichever policy is set since.
EverysecHolds == \A i \in (synced + 1)..Len(stamps) : stamps[i] >= checked
=============================================================================
