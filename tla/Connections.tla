---------------------------- MODULE Connections ----------------------------
(***************************************************************************)
(* The server's sockets: acceptTcpHandler and readQueryFromClient of        *)
(* backend/server.c, called by the event loop, and the clients.             *)
(*                                                                          *)
(* The bytes of a command arrive as one piece, or as a head and a tail when *)
(* TCP, or the end of the read buffer, splits them.  A tail does not begin  *)
(* like a command.  Replies fit into the socket's buffer.                   *)
(***************************************************************************)
EXTENDS EventLoop

CONSTANTS
    Clients,    \* the connections made to the server
    Streaming,  \* those that send ahead of the replies, or commands in pieces
    Listener, None,
    MaxCommands \* bound: commands sent on each connection

ASSUME ConnectionsAssumption ==
    /\ 0 \in Fds
    /\ Streaming \subseteq Clients
    /\ Listener # None /\ {Listener, None} \cap Clients = {}
    /\ MaxCommands \in [Clients -> Nat]

VARIABLES
    conn,       \* what each descriptor is
    backlog,    \* the connections accept will return
    peer,       \* the client's end: "new", "open" or "closed"
    wire,       \* the rest of a command that has not arrived yet
    input,      \* the pieces in the socket's receive buffer
    sent,       \* how many commands a client has sent
    answered    \* how many were executed and answered

vars == <<pc, stop, events, interest, maxfd, fired, due,
          conn, backlog, peer, wire, input, sent, answered>>
-----------------------------------------------------------------------------
(***************************************************************************)
(* The clients and the network, until the server leaves its loop.            *)
(***************************************************************************)
Serving == pc \in {"ready", "poll", "dispatch"}

Connect(c) ==
    /\ Serving
    /\ peer[c] = "new" /\ peer' = [peer EXCEPT ![c] = "open"]
    /\ backlog' = Append(backlog, c)
    /\ UNCHANGED <<loopVars, conn, wire, input, sent, answered>>

\* The first piece of a command arrives.  A client that is not streaming has waited
\* for the reply to its last one.
Send(c, pieces) ==
    /\ Serving
    /\ peer[c] = "open" /\ sent[c] < MaxCommands[c] /\ wire[c] = <<>>
    /\ c \notin Streaming => Len(pieces) = 1 /\ answered[c] = sent[c]
    /\ input' = [input EXCEPT ![c] = Append(@, Head(pieces))]
    /\ wire' = [wire EXCEPT ![c] = Tail(pieces)]
    /\ sent' = [sent EXCEPT ![c] = @ + 1]
    /\ UNCHANGED <<loopVars, conn, backlog, peer, answered>>

\* The rest arrives.
Deliver(c) ==
    /\ Serving
    /\ wire[c] # <<>> /\ wire' = [wire EXCEPT ![c] = <<>>]
    /\ input' = [input EXCEPT ![c] = @ \o wire[c]]
    /\ UNCHANGED <<loopVars, conn, backlog, peer, sent, answered>>

HangUp(c) ==
    /\ Serving
    /\ peer[c] = "open" /\ peer' = [peer EXCEPT ![c] = "closed"]
    /\ UNCHANGED <<loopVars, conn, backlog, wire, input, sent, answered>>
-----------------------------------------------------------------------------
(***************************************************************************)
(* The server.                                                              *)
(***************************************************************************)
\* A read would return at once, with data or the end of file.
Readable(c) == input[c] # <<>> \/ (peer[c] = "closed" /\ wire[c] = <<>>)

Ready ==
    {fd \in interest : IF conn[fd] = Listener THEN backlog # <<>> ELSE Readable(conn[fd])}

Free == {fd \in Fds : conn[fd] = None}

\* acceptTcpHandler: accept returns the lowest free descriptor, and nothing if
\* there is none.  That it may not be registered is ignored.
Accept ==
    IF Free = {} THEN UNCHANGED <<conn, backlog, events, interest, maxfd>>
    ELSE LET fd == CHOOSE f \in Free : \A g \in Free : f <= g IN
         /\ conn' = [conn EXCEPT ![fd] = Head(backlog)]
         /\ backlog' = Tail(backlog)
         /\ CreateFileEvent(fd)

\* Mutant of Close: all connections that were hung up are closed at once.
CloseAll(fd) ==
    LET gone == {f \in Fds : conn[f] \in Clients /\ peer[conn[f]] = "closed"} IN
    /\ conn' = [f \in Fds |-> IF f \in gone THEN None ELSE conn[f]]
    /\ events' = events \ gone
    /\ interest' = interest \ gone
    /\ maxfd' = Highest(events \ gone)
\* readQueryFromClient at the end of file.
Close(fd) ==
    /\ conn' = [conn EXCEPT ![fd] = None]
    /\ DeleteFileEvent(fd)

\* resp_parse_array, for what one read returns: 1 if it begins with a command, 0 if
\* that is incomplete, and -1 if it is none.
Parsed(data) ==
    IF data[1] = "command" THEN 1
    ELSE IF data[1] = "tail" THEN -1
    ELSE IF Len(data) > 1 THEN 1 ELSE 0

\* readQueryFromClient: what one read returns is a command, of which what follows it
\* is thrown away, or it is thrown away.  The command may be SHUTDOWN.  A reply to a
\* client that has hung up may raise SIGPIPE, which nobody handles.
Read(c) ==
    \E n \in 1..Len(input[c]) :
        LET data == SubSeq(input[c], 1, n) IN
        /\ input' = [input EXCEPT ![c] = SubSeq(@, n + 1, Len(@))]
        /\ answered' = [answered EXCEPT ![c] = @ + (IF Parsed(data) = 1 THEN 1 ELSE 0)]
        /\ stop' \in IF Parsed(data) = 1 THEN {stop, TRUE} ELSE {stop}
        /\ pc' \in IF Parsed(data) # 0 /\ peer[c] = "closed" THEN {pc, "killed"} ELSE {pc}

\* aeProcessEvents: the next file event of the batch.
FileEvent ==
    /\ pc = "dispatch" /\ fired # <<>>
    /\ fired' = Tail(fired)
    /\ LET fd == Head(fired).fd IN
       IF fd \notin events
       THEN UNCHANGED <<pc, stop, events, interest, maxfd, conn, backlog, input, answered>>
       ELSE IF conn[fd] = Listener
       THEN Accept /\ UNCHANGED <<pc, stop, input, answered>>
       ELSE IF input[conn[fd]] = <<>>
       THEN Close(fd) /\ UNCHANGED <<pc, stop, backlog, input, answered>>
       ELSE Read(conn[fd]) /\ UNCHANGED <<events, interest, maxfd, conn, backlog>>
    /\ UNCHANGED <<due, peer, wire, sent>>

Init ==
    /\ LoopInit
    /\ conn = [fd \in Fds |-> IF fd = 0 THEN Listener ELSE None]
    /\ backlog = <<>>
    /\ peer = [c \in Clients |-> "new"]
    /\ wire = [c \in Clients |-> <<>>] /\ input = [c \in Clients |-> <<>>]
    /\ sent = [c \in Clients |-> 0] /\ answered = [c \in Clients |-> 0]

\* What main and the loop do by themselves.
Loop ==
    /\ Create(0) \/ Enter \/ Poll(Ready, conn) \/ TimeEvents \/ Leave
    /\ UNCHANGED <<conn, backlog, peer, wire, input, sent, answered>>

Environment ==
    /\ Tick \/ Interrupt
    /\ UNCHANGED <<conn, backlog, peer, wire, input, sent, answered>>

Next ==
    \/ Loop \/ FileEvent \/ Environment
    \/ \E c \in Clients :
        \/ Connect(c) \/ Deliver(c) \/ HangUp(c)
        \/ Send(c, <<"command">>) \/ Send(c, <<"head", "tail">>)

\* The process ended.
Ended == ~Running /\ UNCHANGED vars

\* The server runs on, seconds pass and TCP delivers.
Fairness ==
    /\ WF_vars(Loop \/ FileEvent)
    /\ WF_vars(Tick /\ UNCHANGED <<conn, backlog, peer, wire, input, sent, answered>>)
    /\ \A c \in Clients : WF_vars(Deliver(c))

Spec == Init /\ [][Next \/ Ended]_vars /\ Fairness
-----------------------------------------------------------------------------
(***************************************************************************)
(* Properties.                                                              *)
(***************************************************************************)
Pieces == {"command", "head", "tail"}

\* events[] is indexed within its size only.
TypeOK ==
    /\ pc \in {"boot", "ready", "poll", "dispatch", "leaving", "exited", "killed"}
    /\ stop \in BOOLEAN /\ due \in BOOLEAN
    /\ events \subseteq 0..(SetSize - 1) /\ interest \subseteq Fds
    /\ maxfd \in -1..(SetSize - 1)
    /\ fired \in Seq([fd : Fds, to : Clients \cup {Listener}])
    /\ conn \in [Fds -> Clients \cup {Listener, None}]
    /\ backlog \in Seq(Clients)
    /\ peer \in [Clients -> {"new", "open", "closed"}]
    /\ wire \in [Clients -> Seq(Pieces)] /\ input \in [Clients -> Seq(Pieces)]
    /\ \A c \in Clients : sent[c] \in 0..MaxCommands[c] /\ answered[c] \in 0..sent[c]

\* Through accepts, closes and descriptors used again, the loop's masks, epoll and
\* the open sockets within the loop's size stay the same set, and maxfd (which
\* bounds select) its highest.
Registered ==
    pc # "boot" =>
        /\ events = interest
        /\ events = {fd \in Fds : fd < SetSize /\ conn[fd] # None}
        /\ maxfd = Highest(events)

\* A handler runs for the connection its event was polled for, although descriptors
\* are closed and used again between the poll and the handler.
RightConnection == \A i \in DOMAIN fired : conn[fired[i].fd] = fired[i].to

\* Cannot be served: its descriptor is too high for the loop, or it waits to be
\* accepted and there is none.
Beyond(c) ==
    \/ \E fd \in Fds : conn[fd] = c /\ fd >= SetSize
    \/ Free = {} /\ \E i \in DOMAIN backlog : backlog[i] = c

\* Each command of a client that waits for its replies is executed and answered,
\* whatever the others do, unless the server stops.
Answered ==
    \A c \in Clients \ Streaming :
        (answered[c] < sent[c]) ~>
            (answered[c] = sent[c] \/ Beyond(c) \/ ~Looping)

\* serverCron is called, however many file events there are.
CronRuns == due ~> (~due \/ ~Looping)

\* Once aeMain sees stop, by SHUTDOWN or SIGINT, the process ends.
Stops == (Looping /\ stop) ~> ~Running

\* PROJECTREQUIREMENTS.md promises "Client input/output buffers": no command that
\* has been received completely goes unanswered.
Unread(c) == Len(SelectSeq(wire[c] \o input[c], LAMBDA p : p # "head"))
ReceivedIsAnswered ==
    \A c \in Clients : peer[c] = "open" => answered[c] + Unread(c) >= sent[c]
=============================================================================
