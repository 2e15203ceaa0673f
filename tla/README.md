# rediskrazy in TLA+

A verification project for rediskrazy, the small Redis-like server in
`src/src_c/backend`, its SQL front end in `src/src_c/query_processor` and their
clients. It holds TLA+ modules translated from the C code, TLC configurations
that check them on small instances, and TLAPS proofs of the invariants for every
value of the constants.

Contents: [the system](#the-system), [the modules](#the-modules),
[what the runs show](#what-the-runs-show), [bounds](#bounds),
[fairness](#fairness), [proofs](#proofs), [where code and documents
disagree](#where-code-and-documents-disagree), [not modelled](#not-modelled),
[plan](#plan).

## The system

| Part | Code | State it keeps | Operations | What is hard about it |
|---|---|---|---|---|
| Keyspace | `server.c`, `dict.c` | `g_data`, `g_zsets`, `g_hashes`: three dictionaries over one space of key names, each entry with an `expire` field | SET, SETNX, GET, DEL, EXISTS, INCR, DECR, APPEND, TTL, EXPIRE, Z\*, H\*, FLUSHDB | a key must be of one type; a command reads the clock several times; entries vanish inside lookups |
| Expiry | `server.c` `serverCron`, `expheap.c` | `g_exp_heap`, a min-heap of (key, deadline) that is only ever pushed and popped | push by SET EX, INCR, APPEND, EXPIRE; pop by `serverCron` | the heap is never corrected, so its entries go stale; two clock readings for one deadline |
| Persistence | `server.c`, `rdb.c` | `appendonly.aof`, `dump.rdb` | logging by each command, `rewrite_aof`, `rdb_save`, `load_aof`, `rdb_load` | kills between memory, reply and log; torn files; what is not logged |
| Event loop | `ae.c`, `ae_*.c` | file events by descriptor, a list of time events, `stop` | create, delete, process | descriptors reused during dispatch, the stop flag and SIGINT |
| Connections | `server.c` | none beyond the descriptor | accept, read, reply | a command split over reads, or several in one |
| RESP parser | `resp.c` | none | parse an array of bulk strings | incomplete and malformed input |
| Dictionary | `dict.c` | two hash tables and `rehashidx` | put, get, delete, clear, expire | each operation moves one bucket of an incremental rehash |
| Sorted set | `zset.c`, `avl.c` | a dictionary member -> score and an AVL tree by (score, member) | add, remove, score, rank, range | two structures in step, rotations |
| Thread pool | `tpool.c` | worker threads, mutex, condition variable, a linked list, `stop` | init, add_work, shutdown | real threads |
| Buffered log writer | `aofbuf.c` | a buffer, the policy, the last fsync | write, flush, periodic fsync, change of policy, destroy | bytes in three places (its buffer, stdio, the kernel), data that goes around the buffer, seconds as whole numbers |
| Memory pool | `mempool.c` | a free list threaded through the blocks | alloc, free, grow, destroy | owners overwrite the links |
| SQL front ends | `query_processor/*`, `UI/cli.c` | a catalogue of databases and tables, the one that is active | parse a statement, change the catalogue, send one command, show its reply | catalogue and rows in two processes; blocking reads; a command put together as a string and split again |

How they interact. One thread runs `aeMain`: it calls `readQueryFromClient` for
each readable descriptor, which parses one command and runs it to its end in
`handle_command`, and once a second `serverCron`. Commands change the
dictionaries, push to the expiry heap and append to the log, in that order,
with the reply before or after the logging. `BG_TASK` hands a task to the thread
pool; the tasks share nothing with the rest. At its start `main` replays the log
through the same `handle_command`, or loads the snapshot if there is no log; at
its end it saves a snapshot and shuts the pool down. The SQL server (`qp_server.c`) and
the console (`cli.c`) are processes of their own: each statement changes their catalogue
and becomes one command, sent to the server over a new connection; the reply replaces
parts of the answer. The buffered writer is called by `serverCron` with a flag that is
never set, and nothing is allocated from the memory pool.

What makes each part correct. Keyspace: one type per key, apart from hashes,
which the code lets coexist with the others; nothing removed before its
deadline; everything with a deadline removed in the end. Persistence: what a
restart reads is what was in memory. Thread pool: every task run once, in order,
all of them before the shutdown returns. Event loop: no event to a handler of a
closed connection. Dictionary and sorted set: they behave as a map and an
ordered set, whatever the state of the rehash or the tree. Buffered writer: the bytes
reach the file in order, and the policy keeps its word. Memory pool: no block is handed
out twice. SQL front ends: a statement changes what it names, and the client is told
what happened.

## The modules

| Module | Models | Extends |
|---|---|---|
| `Keyspace` | the dictionaries' keys and deadlines, the heap, the clock, commands, `serverCron` | |
| `RecursionTheorems` | induction over, and recursive functions on, the natural numbers | `TLAPS`, `WellFoundedInduction` |
| `KeyspaceProofs` | its theorems | `Keyspace`, `TLAPS` |
| `MCKeyspace` | the ttls for TLC | `Keyspace` |
| `Persistence` | keyspace contents, log, snapshot, crashes, restarts | |
| `PersistenceProofs` | its theorems | `Persistence`, `RecursionTheorems` |
| `MCPersistence` | symmetry and the scopes of the instance for TLC | `Persistence` |
| `ExpiringMap` | what `dict.h` promises: a map whose entries may pass a deadline | |
| `Dict` | `dict.c`: two tables and an incremental rehash; implements `ExpiringMap` | |
| `Avl` | `avl.c`: the tree, as operators | |
| `ZSet` | `zset.c` and the sorted-set commands on one key | `Avl` |
| `ZSetProofs` | theorems about the tree and the sorted set | `ZSet`, `RecursionTheorems` |
| `ExpQueue` | what `expheap.h` promises: a queue by deadline | |
| `ExpHeap` | `expheap.c`: the array heap; implements `ExpQueue` | |
| `MemPool` | `mempool.c`: the free list and the blocks handed out | |
| `AofBuf` | `aofbuf.c` over stdio and the kernel | |
| `ContainerProofs` | theorems about the heap, the pool, the writer and the dictionary, and the types of all five containers | `MCContainers`, `ZSetProofs` |
| `MCContainers` | one of these five for TLC, and the hash of each key | `ZSet`, `ExpHeap`, `Dict`, `MemPool`, `AofBuf` |
| `EventLoop` | `ae.c` over epoll, as `main` uses it | |
| `Connections` | the sockets, their handlers in `server.c`, and the clients | `EventLoop` |
| `ConnectionsProofs` | its theorems | `Connections`, `RecursionTheorems` |
| `MCConnections` | the instance for TLC | `Connections` |
| `Sql` | `sql_lexer.c`, `sql_parser_internal.c`: a statement from its tokens | |
| `Schema` | `schema_manager.c`: the catalogue and what changes it | |
| `Translator` | `sql_translator.c`: a statement's command and its answer | `Sql`, `Schema` |
| `QueryProcessor` | `qp_server.c` and `cli.c`, their clients, and the store with its kills | `Translator` |
| `QueryProcessorProofs` | theorems about answers, the catalogue and types | `QueryProcessor`, `RecursionTheorems` |
| `MCQueryProcessor` | the statements for TLC | `QueryProcessor` |
| `TaskPool` | what `tpool.c` gives its caller: an abstract queue of tasks | |
| `ThreadPool` | `tpool.c` step by step; implements `TaskPool` | |
| `ThreadPoolProofs` | its theorems | `ThreadPool`, `RecursionTheorems` |
| `MCThreadPool` | the instance for TLC | `ThreadPool` |

An operator whose comment begins with "Mutant of X" is X with a plausible bug.
No specification uses it; it documents what the properties are sensitive to:
put in place of X, it makes the property `PROJECT.json` pairs it with fail.

### Keyspace

| Variable | Code |
|---|---|
| `now` | what `time(NULL)` returns |
| `data`, `zsets` | per key, the `expire` field of its entry in `g_data`, `g_zsets`; `Absent` without an entry, `Never` for 0 |
| `hashes` | the keys of `g_hashes` |
| `heap` | the entries of `g_exp_heap`. A set: two equal entries act as one, as the second finds nothing the first has left |
| `cronNow`, `reaped` | `serverCron`'s locals `now` and `expired_count` |

Each command is an action, because one thread runs it to its end. The clock is
what is not atomic: a command that reads it n times takes a nondecreasing
sequence of readings from `Reads(n)`. The lazy deletion inside `dict_get` is part
of every action that looks a key up (`Looked`). INCR, DECR and APPEND are
`Rewrite`; EXISTS, TTL, ZSCORE, ZRANGE, ZREM, ZCARD and ZRANK differ only in their
replies and are `Lookup`. `serverCron` is `CronStart`, one `CronPop` per iteration
and `CronEnd` with the sampling of `dict_active_expire`, which removes some subset
of what is past its deadline. Between the iterations only the clock moves.

Points of the code the model keeps because properties depend on them: `dict_get`
drops an entry when the clock is *past* its deadline while `serverCron` takes it
*at* the deadline; `dict_set_expiry` does not look whether the entry has expired;
EXPIRE pushes a heap entry even for a ttl that clears the deadline; FLUSHDB leaves
the hashes and the heap; `expired_count` counts only entries that were still
readable, so the limit of 20 binds only for entries in their last second.

### Persistence

Strings have values, sorted sets members and hashes fields; a deadline is reduced
to its presence (`vol`), and a key that has one may lapse at any moment
(`Lapse`), unlogged as in the code. A command that changes memory, replies or
logs in separable steps is two actions: `Set` is `delete_key` with its own record
and then `set_kv`; `HSet` and `Expire` change memory and reply, and `LogFinish`
logs. `Crash` can come between any two actions.

The log is a sequence of records up to the first byte that `resp_parse_array`
cannot read, because `load_aof` stops there; such bytes are the record `Junk`,
which FLUSHDB, a rewrite with sorted sets or deadlines, and a torn tail after a
power failure produce. `Replay` folds `Apply` over the records; `Apply` uses the
operators of the commands (`DelDb`, `ZAddDb`, ...), as the replay runs the same
handlers. `Start` is `main`'s choice between log and snapshot.

`tainted` is a history variable with no counterpart in the code: the keys the
log is known not to determine, because they had a deadline, were a hash and
something else at once, or came from a snapshot. It makes the limits of
`LogReproducesMemory` explicit.

### Dict

`ht` holds the two tables as records (`size`, `used`, and the buckets `table`),
`rehashidx` is the field of that name. A bucket is the set of its entries. A call passes a dictionary from one
helper to the next as in the code: `Stepped` is `_dictRehashStep`, `LookedUp` the one
inside `dict_lookup_node`, so that `Put` moves two buckets and a `Get` that finds a
dead entry moves one in its lookup and one in its `dict_delete`. `ImplementsMap` maps the entries of
both tables to `ExpiringMap`, which has no tables. `Keyspace` and `Persistence` use a
dictionary as such a map.

### Sorted sets and the expiry heap

`Avl` has the tree as nested records and each function of `avl.c` as an operator or, where it
calls itself, as a recursive function on trees, with
the heights the nodes record and the conditions under which each rotation is chosen
(by comparison after an insertion, by balance after a deletion). A tree has no more levels
than there are members, which is what makes the set of all trees (`Tree`) definable; that an
insertion never needs one more is part of what is proved. `ZSet` is one sorted set:
`dict` (member to score, as `ExpiringMap` allows without deadlines), `tree`, and whether
the server is `alive`. ZADD and ZREM are actions, the latter for two members in one
command, or for one when the two are the same; ZSCORE, ZCARD, ZRANK and ZRANGE are operators, because they change nothing.
ZRANGE computes twice which indexes it is asked for, once for the head of its reply
(`ZRangeAnnounced`, in `server.c`) and once for the members (`ZRange`, in `zset.c`).
A change of a score is undefined behaviour (`zset.c:41`), so `ZAdd` has two outcomes then.

`ExpHeap` has the array as a sequence, its `capacity`, and in `popped` what the last pop
returned; `ExpQueue` counts how many there are of each entry. `Keyspace` uses the heap as
such a queue, reduced to a set.

### Memory pool and buffered log writer

`MemPool` has the free list as it is in memory: `head`, and in `next` the first word of each
block, which is a link while the block is free and whatever its owner wrote otherwise
(`Overwrite`). `held` is history. `mempool_grow` either succeeds or not.

`AofBuf` follows each byte, identified by its position in what was written, from `buffer`
through `stdio` and `file` (what the kernel has) to `synced` (how many bytes are on the
disk); `size`, `policy` and `lastFsync` are fields of `AofBuffer`. The functions of
`aofbuf.c` are operators from one such state to the next (`Flush`, `Fsync`, `Always`), so
that `Write` is the flush, the write around the buffer and the fsync of the policy in their
order. `Spill` and `WriteBack` are stdio and the kernel passing bytes on by themselves.
`stamps` and `checked` are history: the second in which each byte was written, and the second
of the last call of `aofbuf_periodic_fsync` under `everysec`, whether or not it found a second
gone by. A call that does not sync changes `checked` only, and it is that call which decides
whether the turn of the second is right.

`MCContainers` chooses one of the five at the start; they share nothing.

### EventLoop and Connections

| Variable | Code |
|---|---|
| `pc` | `main`: `boot`, `ready` to enter `aeMain`, waiting in the `poll`, in the `dispatch` of a batch, `leaving` the loop, `exited`; `killed` by SIGPIPE |
| `stop`, `maxfd` | the fields of the loop |
| `events`, `interest` | the descriptors with a mask in `eventLoop->events`, and those epoll watches: two sets that the code keeps equal through `epoll_ctl` |
| `fired` | what is left of the batch; each event with, as history, the connection it was polled for |
| `due` | serverCron's time has come |
| `conn` | what each descriptor is: the listener, a connection or nothing |
| `backlog`, `peer`, `wire`, `input` | connections to accept, the client's end, what TCP has not delivered yet, the receive buffer |
| `sent`, `answered` | commands sent and executed |

`FileEvent` is one handler, called for the next event of the batch if its descriptor still
has a mask: `Accept` takes the lowest free descriptor, which may be one closed in the same
batch, and ignores that it may be too high for the loop; `Close` and `Read` are the two
ends of `readQueryFromClient`. One `Read` takes some of the pieces in the buffer: a whole
command is one piece, or a head and a tail, and `Parsed` says what `resp_parse_array`
makes of what it got. Between any two handlers clients connect, send, hang up, and TCP
delivers. A SHUTDOWN is any command that sets `stop`; `Interrupt` is the SIGINT handler,
while `g_loop` points to the loop. serverCron takes less than a second, as no reading of
its next time is modelled.

### SQL front ends

| Variable | Code |
|---|---|
| `console` | whether the front end is `cli.c` or `qp_server.c` |
| `pc`, `client` | where its `main` is: blocked in `accept` or in `recv` of a line, in `execute_redis_cmd` before the connect or waiting for the reply, about to answer; and whom it serves |
| `schema` | `SchemaContext` |
| `query`, `result` | the `SQLQuery` and the `SQLResult` of the statement |
| `peer`, `backlog` | the clients' ends of their connections, and those that wait |
| `up`, `mem`, `disk` | whether the store runs, its strings and hashes, and what its log gives back |
| `requests`, `reply` | commands in the store's sockets, and what came back |
| `fate`, `effect` | history: what became of the command, what the statement changed |

A line is a sequence of tokens; a text is a sequence of words, because `sdssplitargs` splits
the command at spaces again and that decides how many arguments it has. `Parse` is
`parse_query` (a statement that is cut off or malformed gives what the parser leaves of it,
which is not always an error); `Translate` is `translate_query`, which gives the result and
the catalogue after the statement; `Process` is both. The catalogue changes here, before
anything is sent. `Send` and `Receive` are the halves of `execute_redis_cmd`, between which
the store runs, is killed, or answers only in part (`CutShort`: 10 ms without more of an
array are its end. An HSCANALL, or an HGETALL with one column, then has no more rows than were
announced, an HGETALL with several columns its one row, and a cell is what was sent, what an
earlier reply left in the buffer, or, where there are columns to fill, Null: `CutRows`). `Shown` says what the server makes of each kind of reply, `ShownByConsole`
the console. `Finish` ends a connection.

Of the store only the commands a statement can become are here (HSET, SET, DEL, HGETALL,
HSCANALL, PING), one action each with what `handle_command` checks of their arguments;
HSET is logged after its reply (`Log`), and a kill between the two loses it. `Crash` ends the
front end with its catalogue.

### ThreadPool

`pc[w]` is where worker `w` is: about to take the mutex (`lock`), holding it
(`held`), in `pthread_cond_wait` (`wait`), signalled but without the mutex yet
(`woken`), running a task (`run`), gone (`done`). `head`, `tail` and `next` are the
pointers of the list, so that a stale `tail` is expressible; `Listed` is the
sequence they stand for. What is done under the mutex is one step, taking the
mutex is another, and waiting, signalling, broadcasting, spurious wakeups and
joining are as POSIX defines them. `ImplementsTaskPool` maps this to `TaskPool`
with `pending <- Listed`.
That a shutdown waits for the tasks that remain is what `tpool.c` does; the comment at `tpool.h:14`
leaves it open.

## What the runs show

| Run | Instance | Shows |
|---|---|---|
| `keyspace` | 2 keys, ttls 0, 1, 2, 3 seconds, limit 1 | types, `OneType`, `HeapCovers`, `ReapsOnlyDue`, `RewriteKeepsDeadline`, `CronMissesNone`, and `Reclaimed` (liveness) |
| `persistence` | 2 keys; 2 values, 3 records, power failures, or 1 value, 2 records, 1 snapshot | types, `LogReproducesMemory`, `OneTypeEverywhere`, `RewriteKeepsKeys`, `ShutdownSaves` |
| `flush_loses_writes` | 1 key, strings only | counterexample to `AcknowledgedSurvives` |
| `rewrite_loses_zsets` | 2 keys | counterexample to `RewriteKeepsEveryKey` |
| `expired_returns` | 1 key, strings only | counterexample to `ExpiredStaysGone` |
| `containers` | a sorted set of 7 members and 2 scores; 6 heap entries of 2 keys and 2 deadlines; a dictionary of 5 keys with tables of 4 and 8 buckets; a pool of 2 chunks of 2 blocks; a writer with a buffer of 2 bytes | types (`TypesOK`), `Balanced`, `InStep`, `RanksAgree`, `RangeIsFramed`, `HeapOrdered`, `ImplementsQueue`, `Placed`, `ImplementsMap`, `PoolSound`, `Ordered`, `EverysecHolds` |
| `update_kills` | 2 members, 2 scores | counterexample to `UpdateAnswered` |
| `connections` | 3 connections, descriptors 0 to 3, a loop of size 3 | types, `Registered`, `RightConnection`, `Answered`, `CronRuns`, `Stops` |
| `pieces_are_lost` | 1 connection, 2 commands | counterexample to `ReceivedIsAnswered` |
| `query_processor` | 1 or 2 clients, 2 to 4 lines out of four sets of statements, 1 kill | types, `AnswerIsTrue`, `StatementIsLocal`, `Answered` |
| `deleted_row_stays` | 1 client, 4 lines about one row | counterexample to `DeletedIsGone` |
| `thread_pool` | 3 workers, 3 tasks, 1 spurious wakeup | types, `ListSound`, `AwakeWhenNeeded`, `PoolOutlivesWorkers`, `ImplementsTaskPool` (with its liveness), `ShutdownReturns` |

The properties, in words:

- `OneType`: no key is a string and a sorted set at once, leftovers past their
  deadline included. It rests on lazy deletions inside lookups.
- `HeapCovers`: each deadline has its own heap entry, not before it and at most
  one command's clock drift after it. Nothing in the code relates the two.
- `ReapsOnlyDue`: acting on stale heap entries never removes what is not due.
- `RewriteKeepsDeadline`: INCR and APPEND keep a deadline that lies ahead.
- `CronMissesNone`: a `serverCron` call that ends below its limit leaves nothing
  long overdue.
- `Reclaimed`: every deadline is met or changed in the end, with the limit.
- `LogReproducesMemory`: at every moment, replaying the log gives every untainted
  key as it is in memory, if no unreadable bytes are in the log.
- `OneTypeEverywhere`: nor does a cut-off log, snapshot or a replay mix types.
- `RewriteKeepsKeys`: BGREWRITEAOF without sorted sets and deadlines loses nothing.
- `ShutdownSaves`: clean shutdown, then start from the snapshot: nothing is lost
  that had no deadline.
- `Placed`: every entry is where a lookup looks for it, once, and the counters
  that decide when a table is freed are right.
- `ImplementsMap`: no call loses, doubles, revives or misses an entry, whatever the
  state of a rehash.
- `Balanced`: heights and balance are right after every insertion and deletion.
- `InStep`: tree, dictionary and count of a sorted set stand for the same members.
- `RanksAgree`: ZRANK, ZRANGE with one index from either end, and `avl_get_by_rank` agree
  with the definition of a rank.
- `RangeIsFramed`: ZRANGE sends as many members as it announces, for all indexes.
- `HeapOrdered`, `ImplementsQueue`: the array is a heap after removals from its middle
  too, and acts as a queue that returns a nearest deadline first.
- `PoolSound`: whatever owners write into their blocks, the free list ends, and every block
  is on it or handed out, never both.
- `Ordered`: the bytes of the log reach stdio and the kernel in the order in which they were
  written and none is lost, through writes around the buffer and changes of policy.
- `EverysecHolds`: once `serverCron` has called `aofbuf_periodic_fsync` under `everysec`, nothing
  written before the second of that call is off the disk, also if the call found no second gone
  by and did not sync, and whatever is written and whichever policy is set later.
- `Registered`: masks, epoll and the open sockets stay the same set through accepts,
  closes and descriptors used again, and `maxfd` is its highest.
- `RightConnection`: an event polled for one connection is never dispatched to another
  that got its descriptor since. It rests on a descriptor being in a batch once, and on
  a handler closing no descriptor but its own.
- `Answered`: a client that waits for each reply gets it, unless its descriptor is
  beyond the loop, it waits to be accepted when there is no descriptor left, or the server
  stops. `CronRuns`: file events never starve serverCron.
  `Stops`: a SHUTDOWN or a SIGINT that came after `aeMain` began ends the process.
- `AnswerIsTrue`: a client told of an error finds nothing changed, except for the catalogue of
  a front end that could not reach the store; what the store refused is told as an error; no
  answer goes out while the command may still run. It rests on the store checking a command
  before it does any part of it, and on the commands of CREATE, USE and DROP being such as it
  accepts.
- `StatementIsLocal`: a statement changes one database, although DROP shifts the array and the
  active database is an index into it.
- `Answered` (SQL): a client that sent its line and waits is answered, although clients are
  served one after the other, byte by byte, and the store may be killed in between.
- The type invariant of `QueryProcessor` holds the rows of an answer as wide as its headers, by
  which they are printed and freed, for replies of any shape.
- `ListSound`: head, tail and links agree; no node is in two places or freed
  while reachable.
- `AwakeWhenNeeded`: no lost wakeup. `PoolOutlivesWorkers`: no use after free.
- `ShutdownReturns`: `tpool_shutdown` returns once it has been called.

## Bounds

- `MaxTime` (3): the clock and all deadlines stop there. Three seconds let a key be
  set, renewed and expire while its first heap entry is still queued.
- `Slack` (1): seconds that pass inside one command. The proofs have it arbitrary.
- `CronLimit` (1 for 20): two keys due in one second already exceed it.
- `Scopes`: for each behaviour the values, the log's length, the number of snapshots written
  and whether the machine may fail. Three records hold a change of type around a rewrite; a
  rewrite empties the log again, so behaviours are not bounded in length. Snapshots are
  combined with a shorter log.
- Keys of the dictionary (5) with chosen hashes: the fifth is what overfills the
  first table; two keys collide before the rehash only, two before and after, and
  one is in the last bucket. One value is enough, as entries also differ in their
  deadlines. Nothing else bounds the tables.
- Members (7) and scores (2): the trees have up to four levels and all rotations of
  insertion and deletion, with ties of scores. Heap entries (6): the fewest from which a
  removal has to move its replacement up; the capacity (4) is exceeded once.
- `Fds` (0 to 3), `SetSize` (3 for 1024): the listener and two connections can be served,
  the third is beyond the loop. `MaxCommands`: one for the connection that waits, two for
  the one that streams, none for the third, which only takes up descriptors. A connection
  is not made again; the others use its descriptor again. As each of the three has a descriptor
  to get, `accept` never fails for want of one in this run, and `Answered` is checked without
  that exception; the theorems about `Connections` cover it.
- `ChunkSize`, `MaxChunks` (2 and 2): the pool grows from an empty list and with blocks handed
  out. `BufSize` (2), `MaxBytes` (3), `MaxTime` (2): data of one byte is buffered, of two and
  three goes around the buffer, after a byte that is in it.
- `Workloads`: which lines are sent, by how many clients, how many, and how many kills. The
  catalogue (databases created, used and dropped in every order, 4 lines), one row (3
  lines and a kill, values of one and of two words, a table that is dropped and created with
  fewer columns), two clients with a value of no word, and the statements that only show
  something.
- `MaxSpurious` (1): wakeups without a signal. It also keeps a worker from
  waking for ever, which no fairness could forbid.
- Workers (3 for 4) and tasks (3): two tasks run while the third is linked or
  its wakeup is stolen. Each node is used once; reuse by malloc after free is the
  same as a new node as long as `ListSound` holds.

A deadlock check is part of every passing run. Behaviours end only where the process
does: `Exited` of the thread pool, `Ended` of the connections, `Crashed` of a sorted set.

## Fairness

`Keyspace`: the clock advances, and `serverCron` is called again and its loop runs
on, since `aeProcessEvents` handles time events after every batch of file events.
Nothing is assumed of clients. `ThreadPool`: the operating system runs every thread
that can run, and tasks return (`bg_task_func` sleeps a given time); nothing is
assumed of the mutex beyond that, and nothing obliges the main thread to submit
or to shut down. `Connections`: the loop runs on (handlers are bounded pieces of work),
seconds pass, and TCP delivers what was sent; clients may stop sending at any moment.
`QueryProcessor`: the front end and the store run on, and a client that has connected sends
its line or hangs up; without the latter one silent client keeps all others waiting for ever,
as `recv` has no timeout. Neither process is ever obliged to start again: the store's death
ends the wait by closing the connection.
`Persistence` and the containers have no liveness property and assume nothing.

## Proofs

Every theorem is for all values of the constants that satisfy the named assumptions; TLC
evaluates those on the instances. What each invariant adds to the property it is for:

`KeyspaceProofs` (`KeyspaceAssumption`): all safety properties of the `keyspace` run. The
invariant `HeapCovers` is not inductive alone: when `serverCron` pops the entry that
covers a deadline, it must delete the key in the dictionary that has the deadline,
which needs `OneType` (the dictionaries are tried in order) and that its `now` is not
ahead of the clock (`CronBehind`); so `IInv` conjoins the three with the types.
The action properties follow from `IInv` action by action. `CronMissesNone` uses
`HeapCovers` at the step that ends the loop: an overdue entry would have a heap
entry that is due, and the loop would not have ended.

`PersistenceProofs` (`PersistenceAssumption`: finitely many keys, bounds that are numbers): all
properties of the `persistence` run, for logs of any length. The lemmas say, command by command,
what `Apply` does to one key, then that it keeps a keyspace `Sound`, then that the record a
command logs does to the replayed keyspace what the command did to memory. `Replay` folds
`Apply` over the log; that the fold of a log with one more record is one more `Apply`, and that
a fold keeps `Sound`, is shown by induction over its length. `IInv` has four parts.
`Files`: memory and snapshot are `Sound`, the log is a log. `Pending`: a SET
that is under way has emptied its key. `Ended`: a process that stopped cleanly left a snapshot
that equals memory where nothing has a deadline. `Mirrored`: what the log gives equals memory on
the untainted keys, once the fields of an HSET that is not logged yet are added to it; without
that clause the HSET's second half could not be shown to bring the two together again.
`RewriteKeeps` shows that the records of a rewrite, in any order, give back the keyspace,
because each key is named once among the strings and once among the
hashes, which come after them.

`ThreadPoolProofs` (`ThreadPoolAssumption`): all safety properties of the `thread_pool` run and
the safety part of the refinement. `TypeOK`, `AwakeWhenNeeded` and `PoolOutlivesWorkers` follow
from an `IInv` that adds mutual
exclusion (`Mutex`) and what the main thread's place says about the workers
(`Phases`). A worker waits only after it has seen an empty list and no `stop` while
holding the mutex, and both change only under the mutex, with a wakeup. For `ListSound`,
`ListInv` says that there is a sequence of distinct nodes that `head`, `tail` and the links stand
for (`Chain`), and that none of them is freed or with a thread (`Apart`); a critical section
leaves it alone, appends to it or takes its first, and the nodes nobody has have no link.
`ImplementsSafely` maps the same sequence to the queue of `TaskPool`: the mapping follows the links
by a recursive function, whose value on a `Chain` is that sequence.

`ContainerProofs`, in four parts, which `ContainerTypes` joins with the sorted set's types:

- The heap (`ExpHeapAssumption`), for arrays of any size: it stays within its capacity,
  `HeapOrdered`, and the refinement of `ExpQueue`. Inside a sift one entry is out of order;
  `UpReady` and `DownReady` are the loops' invariants (only entry i and its parent, or its
  children, and the parent and children of i are in order with each other), a turn keeps them
  and each entry as often as before, and a loop ends because the index halves or doubles.
  The root is earliest because each entry's parent has a smaller index.
- The pool (`MemPoolAssumption`), for chunks of any size and any number of them: `PoolSound`, and
  the pool's types, with its count within the number of blocks.
  `FreeList` says that there is a sequence of distinct blocks that `head` and the
  links stand for, and that exactly the blocks outside it are held; what an owner writes
  is outside it.
- The writer (`AofBufAssumption`), for every size of the buffer: its types, `Ordered` and
  `EverysecHolds`. The
  invariant that carries `EverysecHolds` is `Recent`: a byte that is not on the disk was written in
  the second of the last fsync or later, and that second is not before the one of `serverCron`'s
  last call. Each fsync finds the writer's buffer empty, and a call under `everysec` that does not
  sync is in the second of the last fsync, as less than one second has passed.
- The dictionary (`DictAssumption`: the hash of a key is a number, and no value is None): type
  correctness, `Placed`, and the refinement of
  `ExpiringMap`, for every set of keys and every hash function. `Good` is what a dictionary is between calls: in both
  tables each entry is in the bucket its hash selects and `used` is the number of entries
  (`GoodTable`); a key has one entry; the tables have none in common; nothing is left in the
  buckets before `rehashidx`, which is a bucket of the old table. Inside a call the last part fails
  for a moment, when the old table's last bucket has been moved and the table has not been freed
  yet; `Passable` is `Good` without it. One lemma for each helper of `dict.c`
  says which entries it leaves (`Leaves`) and that the result is `Good`, and one for each call
  composes them as the call does. That the loop of `dict_expand` finds a size at
  all is an induction over the sizes it tries (`SizesAre`).

`ZSetProofs` (`ZSetAssumption`: finitely many members, members and scores are integers): `Balanced`,
`InStep`, `RanksAgree` and `RangeIsFramed`, for trees of any size. Each recursive function of `Avl`
is first shown to satisfy its own equation on every tree, by constructing it level by level. Then
the rotations: `Held` is the set of entries a traversal visits, `Sorted` its order, and a
rotation of three subtrees and two entries (`SingleRight`, `DoubleRight` and their mirror images)
keeps both and has the heights it should. `InsertWorks` is an induction over the tree: the result
is an AVL tree with one entry more, at most one level higher, and if it is higher it leans to the
side of the new entry. The last part is what the code relies on, which after an insertion
chooses the rotation by comparing keys and not by looking at the balance of the child.
`DeleteWorks` is the same for a deletion, at most one level lower, with the least entry of the
right subtree moved up where there are two children. The invariant `ZSetInv` cannot say that the
tree holds what the dictionary has, because the server may be killed between the two (`zset.c:41`); it
says that there is some `f` from members to scores of which the tree holds the entries, and that
`f` is the dictionary while the server lives. It also has room for the next insertion: a
balanced tree is no higher than the number of its entries (`HeightBound`), and each member has
one at most.

`ConnectionsProofs` (`ConnectionsAssumption`, `EventLoopAssumption`): type correctness, `Registered`
and `RightConnection`. `IInv` has
three parts. `Sockets`: descriptor 0 and no other is the listener. `Masks`: the loop's masks and
epoll's are exactly the open descriptors below `SetSize`, before `aeMain` too. `Batch`: what is
left of a batch has each descriptor once, and the listener only while a connection waits, so
that `accept` succeeds. That a descriptor is in a batch once is what makes closing it safe:
its new owner cannot be in the rest of the batch. That `maxfd` is the highest needs the
existence of a highest element of a bounded set, which comes from `<` being well-founded.
That no more commands are answered than were sent, which the types say, needs `Counted`: the
answered ones and those that begin in the receive buffer are together at most the sent ones.

`QueryProcessorProofs` (`QueryProcessorAssumption`): `AnswerIsTrue`, `StatementIsLocal` and
`TypeOK`. `IInv` adds `Phases`,
what each place of the front end says about the statement: nothing is under way in `accept`,
`read` and `down`; in `wait` the request is either still `Asked` (no reply, and only the
catalogue has changed) or `Told` (no request of this statement is left, a refusal is a malformed
command, and such a command changed nothing). It uses that a translated statement which changes
the catalogue has a well-formed command (`Sound`). `CatalogueTyped` is the index of the active
database and unique names, as `TypeOK` says it. The catalogue is sequences of records;
lemmas say what appending and removing an entry does to the index of every name, and then what
each function of `schema_manager.c` keeps (`Keeps`: the tables of all other databases). That
lines are sequences of tokens gives that the name of a statement
is not NULL.

The types, among them that rows are as wide as their headers, follow from `RInv`, which
conjoins `IInv` with the catalogue's types, the clients, the store and `Shaped` of the result. The
parser's texts are sequences (where each of its loops over the tokens ends exists and is unique:
`MatchedIs`, `ListedIs`, `SkippedIs`), so a command is one, and each statement's rows are `Wide`: one lemma for each kind of statement. What a
reply makes of a result depends on the store: an HGETALL or HSCANALL of a hash with infinitely many
fields would be no sequence, so that the store is finite is part of the invariant, through a
DEL of many keys too, whose deletions are a fold (`DeletesIs`: after them the store is a part of
what it was). `ShownShaped` and `CutShaped` are about whole replies and those cut off. `ShapesKept`
states these parts of `RInv`; `TypeCorrect` what follows from it for the catalogue and the rows.

`RecursionTheorems` has what the inductions above rest on: a set that has 0 and with each number
the next one has all of them, and a recursion over the natural numbers defines a function. Both
come from the well-foundedness of `<`.

Only model-checked is liveness (`Reclaimed`, `ShutdownReturns`, `CronRuns`, `Stops`, both `Answered`,
and the liveness of `TaskPool` in `ImplementsTaskPool`), which needs fairness and ENABLED, beyond
these provers. Every invariant and every action property of a passing run is a theorem, as are
the refinements `ImplementsMap`, `ImplementsQueue` and the safety part of `ImplementsTaskPool`.

## Where code and documents disagree

Each is a run that TLC answers with a counterexample:

- `update_kills`: a ZADD that changes a member's score passes a double to `dict_put` as a
  string. Compiled with the Makefile's `-O2` the server is killed by SIGSEGV;
  `TESTING/test_zset.py:102` expects the reply 0.
- `pieces_are_lost`: commands that arrive together, or in pieces, are lost, as there is
  no buffer for each client.
- `flush_loses_writes`: FLUSHDB's record ends in an extra empty line, at which the
  replay stops; all later writes are lost at the next restart.
- `rewrite_loses_zsets`: the rewritten ZADD has unquoted scores (and members before
  scores) and cannot be read, nor can what follows it.
- `expired_returns`: a SET's ttl and the expiry are not logged.
- `deleted_row_stays`: an SQL UPDATE makes the row's key a string, an INSERT adds a hash under
  the same key, and a DELETE removes only the string and answers OK.

Met while modelling and kept in the model, without a run of their own: EXPIRE
does not look whether the entry has passed its deadline, and revives it; a connection
whose descriptor is 1024 or more is accepted and never served; a SIGINT before `aeMain`
is lost; a reply to a client that has hung up may end the server by SIGPIPE; the
rewritten EXPIRE gives its seconds as a string length with no string, so a rewrite
loses what follows the first string that has a deadline; INCR on a key that is also
a hash is replayed as a SET, which deletes the hash; a key loaded from a snapshot is
in no log, so the second restart loses it; INCR and APPEND in the very second of the
deadline make the key permanent; FLUSHDB keeps the hashes; a sorted set that
expires is not freed.

Of the SQL front ends: `sql_translator.c:187` has "Persist schema in Redis", but what is written
under `_sys` is never read, so that after a restart of the front end no table is known; a front
end has a catalogue of its own, which no other one sees; DROP removes no rows, and a table
created under the old name finds them again, under other columns; UPDATE turns the row's hash
into a string, after which SELECT of the row finds nothing; a SELECT of a row that is not there,
or one whose reply did not come, shows "PENDING"; a statement whose connection ended without a
reply is answered as a success; an array that pauses for 10 ms is taken as complete, in a static
buffer that still holds an earlier reply; a line that is cut off by a hang-up is executed as far
as it came; USE, DROP and LIST are sent with a PING whose PONG `qp_server.c` writes over the
first cell of their answer (`cli.c` does not); the database named `_sys` shows the catalogue's
hashes as rows; a value with spaces becomes several arguments.

Of the parts the server does not use yet: CONFIG SET appendfsync answers OK and sets nothing,
as `g_use_aof_buffer` stays 0; `aofbuf.h:16` says "fsync after every write" of the policy
`always`, but a write that fits into the buffer is neither written nor synced; `mempool_defrag`
is empty.

## Not modelled

Commands with fewer arguments than INCR, DECR and TTL take: `handle_command` looks up `argv[1]`
(`server.c:388`, `:414`) before INCR and DECR look at `argc`, which TTL never does.
Wording of replies, the values of fields in `Persistence`, disk errors, failed allocations
(except in the memory pool), the sizes of replies and buffers (`send_all` cuts off what the
socket does not take), and the Windows branches (the thread pool's have the same structure). Of
the event loop: writable events, `AE_BARRIER`, resizing, deleting time events, none of which the
server uses, and the backends other than epoll. A `dump.rdb` cut off inside the key of a sorted
set or hash, on which `rdb_load` dereferences NULL and the server does not start. Scores that
are not numbers (`atof` reads `nan`), for which `compare_nodes` is no order. A SIGINT between
`aeDeleteEventLoop` and the end of the process, which writes to the freed loop. Memory that is
leaked (keys of deleted tree nodes, sorted sets that expire).

Of the SQL front ends: values with quotes or `:`, commands longer than the 1024 bytes of the
translator's buffer, lines cut off inside a token, names that are keywords, the data types of
columns (which are parsed and not used), the texts of errors, of JSON and of HELP, and the
layout of tables. Of `sds.c` only how `sdssplitargs` splits a command is modelled, as strings are
values everywhere else. The Python client sends one line and reads the answer; it is part of
the environment of `QueryProcessor`. Tests and build scripts were read as documentation.

## Plan

Modelled and checked are all components but the ones above; what would add most from here is
`Persistence` and `Keyspace` composed: a replay that takes longer than a logged ttl.
