------------------------------ MODULE TaskPool ------------------------------
(***************************************************************************)
(* What the thread pool of backend/tpool.c gives its caller, without        *)
(* threads, locks or pointers: tasks are begun in the order in which they   *)
(* were submitted, each is run once, and tpool_shutdown returns only when   *)
(* all have been.  The last is what the code does: the comment in tpool.h   *)
(* leaves open whether it waits for the tasks that remain.  ThreadPool is   *)
(* shown to implement this.                                                 *)
(***************************************************************************)
EXTENDS Sequences, SequencesExt

CONSTANT Tasks

VARIABLES
    pending,    \* the tasks submitted and not begun, in order
    running,    \* those that run
    finished,   \* those that have run
    open        \* tpool_shutdown has not returned

vars == <<pending, running, finished, open>>

Init ==
    /\ pending = <<>>
    /\ running = {}
    /\ finished = {}
    /\ open = TRUE

\* tpool_add_work(func, arg), each call with a task of its own.
Submit(t) ==
    /\ open
    /\ t \notin ToSet(pending) \cup running \cup finished
    /\ pending' = Append(pending, t)
    /\ UNCHANGED <<running, finished, open>>

\* A thread takes the oldest task.
Begin ==
    /\ pending # <<>>
    /\ running' = running \cup {Head(pending)}
    /\ pending' = Tail(pending)
    /\ UNCHANGED <<finished, open>>

\* The task returns.
Finish(t) ==
    /\ t \in running
    /\ running' = running \ {t}
    /\ finished' = finished \cup {t}
    /\ UNCHANGED <<pending, open>>

\* tpool_shutdown returns.
Close ==
    /\ open /\ pending = <<>> /\ running = {}
    /\ open' = FALSE
    /\ UNCHANGED <<pending, running, finished>>

Next == Begin \/ Close \/ \E t \in Tasks : Submit(t) \/ Finish(t)

\* Nothing submitted is forgotten; whether anything is submitted, and whether
\* the pool is ever closed, is up to the caller.
Spec == Init /\ [][Next]_vars /\ WF_vars(Begin) /\ \A t \in Tasks : WF_vars(Finish(t))
=============================================================================
