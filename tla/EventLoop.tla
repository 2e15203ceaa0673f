----------------------------- MODULE EventLoop -----------------------------
(***************************************************************************)
(* The event loop of backend/ae.c over epoll (ae_epoll.c), as main uses it: *)
(* readable events only, and one time event.  Connections gives it its      *)
(* descriptors and handlers.                                                *)
(***************************************************************************)
EXTENDS Integers, Sequences, FiniteSets

CONSTANTS
    Fds,        \* the descriptors the process may have for its sockets
    SetSize     \* aeCreateEventLoop's argument

ASSUME EventLoopAssumption == Fds \subseteq Nat /\ SetSize \in Nat

VARIABLES
    pc,         \* where main is
    stop,       \* eventLoop->stop
    events,     \* the descriptors whose events[fd].mask is AE_READABLE
    interest,   \* the descriptors epoll watches
    maxfd,      \* eventLoop->maxfd
    fired,      \* what is left of eventLoop->fired: a descriptor and, as history,
                \* the connection it was when polled
    due         \* serverCron's time has come

loopVars == <<pc, stop, events, interest, maxfd, fired, due>>

\* Within aeMain.
Looping == pc \in {"poll", "dispatch"}
\* The process has not ended.
Running == pc \notin {"exited", "killed"}
-----------------------------------------------------------------------------
\* Mutant of CanCreate: the size of the events array is not looked at.
CanCreateAny(fd) == fd \in events <=> fd \in interest
\* aeCreateFileEvent succeeds.  epoll_ctl is told to add or to modify, depending on
\* the mask, and refuses to add what it watches and to modify what it does not.
CanCreate(fd) == fd < SetSize /\ (fd \in events <=> fd \in interest)

\* Mutant of CreateFileEvent: maxfd is the last descriptor, not the highest.
CreateFileEventLast(fd) ==
    IF CanCreate(fd)
    THEN /\ events' = events \cup {fd}
         /\ interest' = interest \cup {fd}
         /\ maxfd' = fd
    ELSE UNCHANGED <<events, interest, maxfd>>
CreateFileEvent(fd) ==
    IF CanCreate(fd)
    THEN /\ events' = events \cup {fd}
         /\ interest' = interest \cup {fd}
         /\ maxfd' = IF fd > maxfd THEN fd ELSE maxfd
    ELSE UNCHANGED <<events, interest, maxfd>>

\* The highest of some descriptors.
Highest(S) == IF S = {} THEN -1 ELSE CHOOSE f \in S : \A g \in S : g <= f

\* Mutant of DeleteFileEvent: the mask stays, only closing tells epoll.
DeleteFileEventMissing(fd) ==
    /\ interest' = interest \ {fd}
    /\ UNCHANGED <<events, maxfd>>
\* aeDeleteFileEvent, for a descriptor that is then closed, which removes it from
\* epoll in any case.
DeleteFileEvent(fd) ==
    /\ events' = events \ {fd}
    /\ interest' = interest \ {fd}
    /\ maxfd' = IF fd \in events /\ fd = maxfd THEN Highest(events \ {fd}) ELSE maxfd

LoopInit ==
    /\ pc = "boot" /\ stop = FALSE
    /\ events = {} /\ interest = {} /\ maxfd = -1
    /\ fired = <<>> /\ due = FALSE

\* main, up to the registration of the listening socket.
Create(listener) ==
    /\ pc = "boot" /\ pc' = "ready"
    /\ CreateFileEvent(listener)
    /\ UNCHANGED <<stop, fired, due>>

\* aeMain begins, and clears stop.
Enter ==
    /\ pc = "ready" /\ pc' = "poll"
    /\ stop' = FALSE
    /\ UNCHANGED <<events, interest, maxfd, fired, due>>

\* The orders in which epoll_wait may report a set of descriptors.
Orders(S) ==
    {s \in [1..Cardinality(S) -> S] : \A i, j \in DOMAIN s : s[i] = s[j] => i = j}

\* Mutant of Awake: the wait has no timeout.
AwakeForFiles(ready) == ready # {}
\* epoll_wait returns: something is ready, or the nearest timer is.
Awake(ready) == ready # {} \/ due

\* aeApiPoll.
Poll(ready, owner) ==
    /\ pc = "poll" /\ pc' = "dispatch"
    /\ Awake(ready)
    /\ \E s \in Orders(ready) :
        fired' = [i \in DOMAIN s |-> [fd |-> s[i], to |-> owner[s[i]]]]
    /\ UNCHANGED <<stop, events, interest, maxfd, due>>

\* Mutant of TimeEvents: stop is cleared before every round.
TimeEventsUnstopped ==
    /\ pc = "dispatch" /\ fired = <<>>
    /\ due' = FALSE /\ stop' = FALSE
    /\ pc' = "poll"
    /\ UNCHANGED <<events, interest, maxfd, fired>>
\* processTimeEvents, and aeMain's test of stop.
TimeEvents ==
    /\ pc = "dispatch" /\ fired = <<>>
    /\ due' = FALSE
    /\ pc' = IF stop THEN "leaving" ELSE "poll"
    /\ UNCHANGED <<stop, events, interest, maxfd, fired>>

\* A second has passed since serverCron ran.  (In the middle of a batch it makes no
\* difference until the batch ends, as if it had passed before.)
Tick ==
    /\ pc = "poll" /\ ~due /\ due' = TRUE
    /\ UNCHANGED <<pc, stop, events, interest, maxfd, fired>>

\* sig_handler, while g_loop points to the loop: before, it does nothing, and after
\* aeMain stop is set already.  The signal also ends a wait.
Interrupt ==
    /\ pc \in {"ready", "poll", "dispatch"}
    /\ stop' = TRUE
    /\ pc' \in IF pc = "poll" THEN {"poll", "dispatch"} ELSE {pc}
    /\ UNCHANGED <<events, interest, maxfd, fired, due>>

\* The end of main: rdb_save, aeDeleteEventLoop and tpool_shutdown.
Leave ==
    /\ pc = "leaving" /\ pc' = "exited"
    /\ UNCHANGED <<stop, events, interest, maxfd, fired, due>>
=============================================================================
