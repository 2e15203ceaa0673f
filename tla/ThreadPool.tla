----------------------------- MODULE ThreadPool -----------------------------
(***************************************************************************)
(* The thread pool of backend/tpool.c: worker threads, the mutex and the    *)
(* condition variable they share with the main thread, and the linked list  *)
(* of tasks between head and tail.  The main thread creates the pool,       *)
(* submits a task per BG_TASK command and shuts the pool down at the end of *)
(* main.                                                                    *)
(*                                                                          *)
(* What a thread does while it holds the mutex is one step; taking the      *)
(* mutex is a step of its own.  pthread_cond_wait may return without a      *)
(* signal, and a signalled worker has to take the mutex again before it     *)
(* looks at the list, which another may have emptied by then.               *)
(***************************************************************************)
EXTENDS Naturals, FiniteSets, Sequences, SequencesExt

CONSTANTS
    Workers,        \* the threads of the pool (4)
    Tasks,          \* the task_t nodes that tpool_add_work allocates
    Main,           \* the main thread
    Null,           \* a null pointer; as a holder of the mutex, nobody
    MaxSpurious     \* bound: wakeups without a signal

ASSUME ThreadPoolAssumption ==
    /\ Workers # {} /\ IsFiniteSet(Tasks)
    /\ Main \notin Workers
    /\ Null \notin Workers \cup Tasks \cup {Main}
    /\ MaxSpurious \in Nat

VARIABLES
    pc,         \* where each worker is
    main,       \* where the main thread is
    lock,       \* the holder of g_pool->lock
    head, tail, \* the list of tasks
    next,       \* its links
    stop,       \* g_pool->stop
    task,       \* a worker's local t; for Main, the node it is adding
    freed,      \* nodes that have been freed: their tasks have run
    pool,       \* whether g_pool points to a pool
    spurious    \* wakeups without a signal so far, for MaxSpurious only

list == <<head, tail, next>>
vars == <<pc, main, lock, list, stop, task, freed, pool, spurious>>

Threads == Workers \cup {Main}
Pointer == Tasks \cup {Null}

TypeOK ==
    /\ pc \in [Workers -> {"unborn", "lock", "wait", "woken", "held", "run", "done"}]
    /\ main \in {"init", "serve", "add", "stop", "join", "exited"}
    /\ lock \in Threads \cup {Null}
    /\ head \in Pointer /\ tail \in Pointer /\ next \in [Tasks -> Pointer]
    /\ stop \in BOOLEAN /\ pool \in BOOLEAN
    /\ task \in [Threads -> Pointer]
    /\ \A w \in Workers : pc[w] = "run" => task[w] # Null
    /\ main = "add" => task[Main] # Null
    /\ freed \subseteq Tasks
    /\ spurious \in 0..MaxSpurious

\* The node n links behind head.
Nth[n \in Nat] ==
    IF n = 0 THEN head ELSE IF Nth[n - 1] = Null THEN Null ELSE next[Nth[n - 1]]

\* The tasks in the list, in order: the nodes before the null pointer.
Listed ==
    LET n == CHOOSE n \in 0..Cardinality(Tasks) :
               Nth[n] = Null /\ \A i \in 0..(n - 1) : Nth[i] # Null
    IN [i \in 1..n |-> Nth[i - 1]]

\* tpool_init has set up the structure and is about to create the threads.
Init ==
    /\ pc = [w \in Workers |-> "unborn"]
    /\ main = "init"
    /\ lock = Null
    /\ head = Null /\ tail = Null /\ next = [t \in Tasks |-> Null]
    /\ stop = FALSE
    /\ task = [x \in Threads |-> Null]
    /\ freed = {}
    /\ pool = TRUE
    /\ spurious = 0
-----------------------------------------------------------------------------
(***************************************************************************)
(* A worker: worker_thread.                                                 *)
(***************************************************************************)

\* It takes the mutex, at the top of its loop or inside pthread_cond_wait.
Lock(w) ==
    /\ pc[w] \in {"lock", "woken"} /\ lock = Null
    /\ pc' = [pc EXCEPT ![w] = "held"]
    /\ lock' = w
    /\ UNCHANGED <<main, list, stop, task, freed, pool, spurious>>

\* Nothing to do: it gives the mutex up and waits.
Wait(w) ==
    /\ pc[w] = "held" /\ head = Null /\ ~stop
    /\ pc' = [pc EXCEPT ![w] = "wait"]
    /\ lock' = Null
    /\ UNCHANGED <<main, list, stop, task, freed, pool, spurious>>

\* Mutant of Exit: a worker leaves as soon as it sees stop.
ExitAtOnce(w) ==
    /\ pc[w] = "held" /\ stop
    /\ pc' = [pc EXCEPT ![w] = "done"]
    /\ lock' = Null
    /\ UNCHANGED <<main, list, stop, task, freed, pool, spurious>>
\* It leaves, once stop is set and the list is empty.
Exit(w) ==
    /\ pc[w] = "held" /\ stop /\ head = Null
    /\ pc' = [pc EXCEPT ![w] = "done"]
    /\ lock' = Null
    /\ UNCHANGED <<main, list, stop, task, freed, pool, spurious>>

\* Mutant of Take: after a wait the list is not looked at again.
TakeUnguarded(w) ==
    /\ pc[w] = "held"
    /\ task' = [task EXCEPT ![w] = head]
    /\ head' = IF head = Null THEN Null ELSE next[head]
    /\ tail' = IF head' = Null THEN Null ELSE tail
    /\ pc' = [pc EXCEPT ![w] = "run"]
    /\ lock' = Null
    /\ UNCHANGED <<main, next, stop, freed, pool, spurious>>
\* Mutant of Take: tail is left pointing to the last node taken.
TakeKeepsTail(w) ==
    /\ pc[w] = "held" /\ head # Null
    /\ task' = [task EXCEPT ![w] = head]
    /\ head' = next[head]
    /\ pc' = [pc EXCEPT ![w] = "run"]
    /\ lock' = Null
    /\ UNCHANGED <<main, tail, next, stop, freed, pool, spurious>>
\* It unlinks the first node.
Take(w) ==
    /\ pc[w] = "held" /\ head # Null
    /\ task' = [task EXCEPT ![w] = head]
    /\ head' = next[head]
    /\ tail' = IF head' = Null THEN Null ELSE tail
    /\ pc' = [pc EXCEPT ![w] = "run"]
    /\ lock' = Null
    /\ UNCHANGED <<main, next, stop, freed, pool, spurious>>

\* The task returns and its node is freed.
Finish(w) ==
    /\ pc[w] = "run"
    /\ freed' = freed \cup {task[w]}
    /\ task' = [task EXCEPT ![w] = Null]
    /\ pc' = [pc EXCEPT ![w] = "lock"]
    /\ UNCHANGED <<main, lock, list, stop, pool, spurious>>

\* pthread_cond_wait ends without a signal.
WakeSpuriously(w) ==
    /\ pc[w] = "wait" /\ spurious < MaxSpurious
    /\ pc' = [pc EXCEPT ![w] = "woken"]
    /\ spurious' = spurious + 1
    /\ UNCHANGED <<main, lock, list, stop, task, freed, pool>>

WorkerStep(w) == Lock(w) \/ Wait(w) \/ Exit(w) \/ Take(w) \/ Finish(w)
-----------------------------------------------------------------------------
(***************************************************************************)
(* The main thread.                                                         *)
(***************************************************************************)

\* tpool_init: the threads run as they are created.
CreateThread(w) ==
    /\ main = "init" /\ pc[w] = "unborn"
    /\ pc' = [pc EXCEPT ![w] = "lock"]
    /\ main' = IF \E x \in Workers : pc'[x] = "unborn" THEN "init" ELSE "serve"
    /\ UNCHANGED <<lock, list, stop, task, freed, pool, spurious>>

\* tpool_add_work allocates a node; its next is Null.
AddWork(t) ==
    /\ main = "serve"
    /\ t \notin freed \cup ToSet(Listed) \cup {task[w] : w \in Workers}
    /\ main' = "add"
    /\ task' = [task EXCEPT ![Main] = t]
    /\ UNCHANGED <<pc, lock, list, stop, freed, pool, spurious>>

\* tpool_shutdown is called, at the end of main.
Shutdown ==
    /\ main = "serve"
    /\ main' = "stop"
    /\ UNCHANGED <<pc, lock, list, stop, task, freed, pool, spurious>>

\* Either takes the mutex.
MainLock ==
    /\ main \in {"add", "stop"} /\ lock = Null
    /\ lock' = Main
    /\ UNCHANGED <<pc, main, list, stop, task, freed, pool, spurious>>

Waiting == {w \in Workers : pc[w] = "wait"}

\* pthread_cond_signal wakes one waiting thread, if there is any.
Signal ==
    \/ Waiting = {} /\ UNCHANGED pc
    \/ \E w \in Waiting : pc' = [pc EXCEPT ![w] = "woken"]

\* tpool_add_work links the node, signals, and gives the mutex up.
Link ==
    /\ tail' = task[Main]
    /\ IF tail # Null
       THEN next' = [next EXCEPT ![tail] = task[Main]] /\ UNCHANGED head
       ELSE head' = task[Main] /\ UNCHANGED next
    /\ task' = [task EXCEPT ![Main] = Null]
    /\ main' = "serve"
    /\ lock' = Null

\* Mutant of Enqueue: the workers are not told.
EnqueueSilently ==
    /\ main = "add" /\ lock = Main
    /\ Link
    /\ UNCHANGED <<pc, stop, freed, pool, spurious>>
Enqueue ==
    /\ main = "add" /\ lock = Main
    /\ Link
    /\ Signal
    /\ UNCHANGED <<stop, freed, pool, spurious>>

\* Mutant of Stop: one waiting worker is woken, not all.
StopSignals ==
    /\ main = "stop" /\ lock = Main
    /\ stop' = TRUE
    /\ Signal
    /\ main' = "join"
    /\ lock' = Null
    /\ UNCHANGED <<list, task, freed, pool, spurious>>
\* tpool_shutdown sets stop, wakes every waiting worker, and gives the mutex up.
Stop ==
    /\ main = "stop" /\ lock = Main
    /\ stop' = TRUE
    /\ pc' = [w \in Workers |-> IF w \in Waiting THEN "woken" ELSE pc[w]]
    /\ main' = "join"
    /\ lock' = Null
    /\ UNCHANGED <<list, task, freed, pool, spurious>>

\* Mutant of Join: the threads are not waited for.
JoinNone ==
    /\ main = "join"
    /\ main' = "exited"
    /\ pool' = FALSE
    /\ UNCHANGED <<pc, lock, list, stop, task, freed, spurious>>
\* The threads joined one after the other, it frees the pool.
Join ==
    /\ main = "join" /\ \A w \in Workers : pc[w] = "done"
    /\ main' = "exited"
    /\ pool' = FALSE
    /\ UNCHANGED <<pc, lock, list, stop, task, freed, spurious>>

MainStep == MainLock \/ Enqueue \/ Stop \/ Join \/ \E w \in Workers : CreateThread(w)

\* main has returned.
Exited == main = "exited" /\ UNCHANGED vars

Next ==
    \/ MainStep \/ Shutdown \/ Exited
    \/ \E t \in Tasks : AddWork(t)
    \/ \E w \in Workers : WorkerStep(w) \/ WakeSpuriously(w)

\* The operating system runs every thread that can run, and every task returns.
\* Nothing obliges a client to submit a task or to stop the server.
Spec == Init /\ [][Next]_vars /\ WF_vars(MainStep) /\ \A w \in Workers : WF_vars(WorkerStep(w))
-----------------------------------------------------------------------------
(***************************************************************************)
(* Properties.                                                              *)
(***************************************************************************)

Held == {w \in Workers : task[w] # Null}

\* The list is intact at every moment, although head, tail and the links are set
\* one by one by several threads: tail is the last node reachable from head, and
\* no node is reachable, run by a worker or freed at the same time as another of
\* these, nor run by two workers (a double free, a use after free).
ListSound ==
    /\ head = Null <=> tail = Null
    /\ Listed # <<>> => tail = Last(Listed) /\ next[tail] = Null
    /\ ToSet(Listed) \cap ({task[w] : w \in Held} \cup freed) = {}
    /\ {task[w] : w \in Held} \cap freed = {}
    /\ \A w, x \in Held : task[w] = task[x] => w = x

\* No wakeup is lost: while a task is in the list some worker is on its way to
\* it, and once stop is set no worker sleeps, however signals, spurious wakeups
\* and the taking of the mutex interleave.
AwakeWhenNeeded ==
    /\ head # Null => \E w \in Workers : pc[w] \in {"lock", "woken", "held", "run"}
    /\ stop => Waiting = {}

\* The pool is freed only when no thread can touch it any more and nobody holds
\* its mutex.
PoolOutlivesWorkers ==
    /\ (\E w \in Workers : pc[w] \notin {"unborn", "done"}) => pool
    /\ lock # Null => pool

\* The list, the threads and their local variables implement a queue of tasks
\* that are begun in order and run once, and that have all run when
\* tpool_shutdown returns.
Promised == INSTANCE TaskPool WITH
    pending <- Listed,
    running <- {task[w] : w \in Held},
    finished <- freed,
    open <- main # "exited"
ImplementsTaskPool == Promised!Spec

\* tpool_shutdown returns: no worker it joins sleeps for ever.
ShutdownReturns == main = "stop" ~> main = "exited"
=============================================================================
