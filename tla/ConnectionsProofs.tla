-------------------------- MODULE ConnectionsProofs --------------------------
(***************************************************************************)
(* Proofs about Connections: for all clients, descriptors and sizes of the   *)
(* loop, the loop's masks are those of the open sockets, and an event goes    *)
(* to the connection it was polled for.                                      *)
(***************************************************************************)
EXTENDS Connections, RecursionTheorems, FiniteSetTheorems,
        SequenceTheorems, TLAPS

Sockets ==
    /\ conn \in [Fds -> Clients \cup {Listener, None}]
    /\ \A fd \in Fds : conn[fd] = Listener <=> fd = 0
    /\ backlog \in Seq(Clients)
    /\ pc = "boot" => \A fd \in Fds : conn[fd] # None => fd = 0

\* At any time, what Registered says once the listening socket has been registered.
Masks ==
    /\ events = interest
    /\ events = {fd \in Fds : fd < SetSize /\ conn[fd] # None /\ pc # "boot"}
    /\ maxfd = Highest(events)

\* The rest of a batch: each descriptor once, and the listening socket only while a
\* connection waits.
Batch ==
    /\ fired \in Seq([fd : Fds, to : Clients \cup {Listener}])
    /\ RightConnection
    /\ \A i, j \in DOMAIN fired : fired[i].fd = fired[j].fd => i = j
    /\ \A i \in DOMAIN fired : fired[i].to = Listener => backlog # <<>>

IInv == Sockets /\ Masks /\ Batch
-----------------------------------------------------------------------------
\* maxfd is the highest element of a set.
LEMMA HighestIs ==
    ASSUME NEW n \in Nat, NEW S \in SUBSET (0..(n - 1)), S # {}
    PROVE  Highest(S) \in S /\ \A g \in S : g <= Highest(S)
<1> DEFINE T == {n - x : x \in S}
<1>1. T \in SUBSET Nat /\ T # {}
  OBVIOUS
<1>2. PICK m \in T : \A y \in T : m <= y
  <2> HIDE DEF T
  <2> QED BY <1>1, Lowest
<1>3. PICK h \in S : m = n - h
  OBVIOUS
<1>4. \A g \in S : g <= h
  <2> SUFFICES ASSUME NEW g \in S PROVE g <= h
    OBVIOUS
  <2>1. n - g \in T
    OBVIOUS
  <2>2. m <= n - g
    BY <1>2, <2>1
  <2> QED BY <1>3, <2>2
<1> QED BY <1>4 DEF Highest

\* Where maxfd goes.
LEMMA HighestOf ==
    ASSUME NEW n \in Nat, NEW S \in SUBSET (0..(n - 1)), NEW fd \in 0..(n - 1)
    PROVE  Highest(S \cup {fd}) = IF fd > Highest(S) THEN fd ELSE Highest(S)
<1> DEFINE U == S \cup {fd}
<1>1. Highest(U) \in U /\ \A g \in U : g <= Highest(U)
  <2>1. U \in SUBSET (0..(n - 1)) /\ U # {}
    OBVIOUS
  <2> HIDE DEF U
  <2> QED BY <2>1, HighestIs
<1>2. CASE S = {}
  BY <1>1, <1>2 DEF Highest
<1>3. CASE S # {}
  <2>1. Highest(S) \in S /\ \A g \in S : g <= Highest(S)
    BY <1>3, HighestIs
  <2>2. Highest(U) \in 0..(n - 1) /\ Highest(S) \in 0..(n - 1)
    BY <1>1, <2>1
  <2>3. Highest(U) = fd \/ Highest(U) \in S
    BY <1>1
  <2>4. fd <= Highest(U) /\ Highest(S) <= Highest(U)
    BY <1>1, <2>1
  <2> HIDE DEF U
  <2>5. Highest(U) = IF fd > Highest(S) THEN fd ELSE Highest(S)
    BY <2>1, <2>2, <2>3, <2>4
  <2> QED BY <2>5 DEF U
<1> QED BY <1>2, <1>3

\* It stays where it is when a lower descriptor goes.
LEMMA HighestWithout ==
    ASSUME NEW n \in Nat, NEW S \in SUBSET (0..(n - 1)), NEW fd, fd # Highest(S)
    PROVE  Highest(S \ {fd}) = Highest(S)
<1>1. CASE S = {}
  <2>1. S \ {fd} = S
    BY <1>1
  <2> QED BY <2>1
<1>2. CASE S # {}
  <2>1. Highest(S) \in S /\ \A g \in S : g <= Highest(S)
    BY <1>2, HighestIs
  <2> DEFINE U == S \ {fd}
  <2>2. U \in SUBSET (0..(n - 1)) /\ U # {} /\ Highest(S) \in U
    BY <2>1
  <2> HIDE DEF U
  <2>3. Highest(U) \in U /\ \A g \in U : g <= Highest(U)
    BY <2>2, HighestIs
  <2>4. Highest(U) \in S
    BY <2>3 DEF U
  <2>5. Highest(U) <= Highest(S) /\ Highest(S) <= Highest(U)
    BY <2>1, <2>2, <2>3, <2>4
  <2>6. Highest(U) \in 0..(n - 1) /\ Highest(S) \in 0..(n - 1)
    BY <2>1, <2>4
  <2>7. Highest(U) = Highest(S)
    BY <2>5, <2>6
  <2> QED BY <2>7 DEF U
<1> QED BY <1>1, <1>2
-----------------------------------------------------------------------------
\* A step that leaves sockets, masks and batch alone.
LEMMA Quiet ==
    ASSUME IInv, UNCHANGED <<conn, backlog, events, interest, maxfd, fired>>,
           pc' = "boot" <=> pc = "boot"
    PROVE  IInv'
<1>1. Sockets'
  BY DEF IInv, Sockets
<1>2. Masks'
  BY DEF IInv, Masks
<1>3. Batch'
  BY DEF IInv, Batch, RightConnection
<1> QED BY <1>1, <1>2, <1>3 DEF IInv

\* Before aeMain only the listener is open.
LEMMA InitIInv == Init => IInv
<1> SUFFICES ASSUME Init PROVE IInv
  OBVIOUS
<1> USE ConnectionsAssumption, EventLoopAssumption DEF Init, LoopInit
<1>1. <<>> \in Seq(Clients) /\ <<>> \in Seq([fd : Fds, to : Clients \cup {Listener}]) /\ DOMAIN <<>> = {}
  BY EmptySeq
<1>2. Sockets
  BY <1>1 DEF Sockets
<1>3. Masks
  BY DEF Masks, Highest
<1>4. Batch
  BY <1>1 DEF Batch, RightConnection
<1> QED BY <1>2, <1>3, <1>4 DEF IInv

\* The masks are of descriptors, so there is a highest.
LEMMA EventsBounded ==
    ASSUME IInv
    PROVE  events \in SUBSET (0..(SetSize - 1)) /\ events \in SUBSET Fds /\ SetSize \in Nat
<1>1. events = {fd \in Fds : fd < SetSize /\ conn[fd] # None /\ pc # "boot"}
  BY DEF IInv, Masks
<1>2. Fds \subseteq Nat /\ SetSize \in Nat
  BY EventLoopAssumption
<1>3. \A fd \in events : fd \in Fds /\ fd \in Nat /\ fd < SetSize
  BY <1>1, <1>2
<1>4. \A fd \in events : fd \in 0..(SetSize - 1)
  BY <1>2, <1>3
<1> QED BY <1>2, <1>3, <1>4

\* main registers the listener.
LEMMA CreateStep ==
    ASSUME IInv, Create(0), UNCHANGED <<conn, backlog>>
    PROVE  IInv'
<1>1. pc = "boot" /\ pc' = "ready" /\ CreateFileEvent(0) /\ fired' = fired
  BY DEF Create
<1>2. /\ events = {} /\ interest = {} /\ maxfd = -1
      /\ \A fd \in Fds : conn[fd] # None <=> fd = 0
  BY <1>1, ConnectionsAssumption DEF IInv, Masks, Sockets, Highest
<1>3. Masks'
  <2>1. CASE 0 < SetSize
    <3>1. events' = {0} /\ interest' = {0} /\ maxfd' = 0
      BY <1>1, <1>2, <2>1 DEF CreateFileEvent, CanCreate
    <3>2. {fd \in Fds : fd < SetSize /\ conn[fd] # None} = {0}
      BY <1>2, <2>1, ConnectionsAssumption
    <3>3. Highest({0}) = 0
      BY DEF Highest
    <3> QED BY <1>1, <3>1, <3>2, <3>3 DEF Masks
  <2>2. CASE ~ (0 < SetSize)
    <3>1. events' = {} /\ interest' = {} /\ maxfd' = -1
      BY <1>1, <1>2, <2>2 DEF CreateFileEvent, CanCreate
    <3>2. {fd \in Fds : fd < SetSize /\ conn[fd] # None} = {}
      BY <1>2, <2>2
    <3> QED BY <1>1, <3>1, <3>2 DEF Masks, Highest
  <2> QED BY <2>1, <2>2
<1>4. Sockets' /\ Batch'
  BY <1>1 DEF IInv, Sockets, Batch, RightConnection
<1> QED BY <1>3, <1>4 DEF IInv

\* Each ready descriptor is in the batch once, with the connection it is.
LEMMA PollStep ==
    ASSUME IInv, Poll(Ready, conn), UNCHANGED <<conn, backlog>>
    PROVE  IInv'
<1>1. /\ pc = "poll" /\ pc' = "dispatch"
      /\ UNCHANGED <<events, interest, maxfd>>
  BY DEF Poll
<1>2. PICK s \in Orders(Ready) : fired' = [i \in DOMAIN s |-> [fd |-> s[i], to |-> conn[s[i]]]]
  BY DEF Poll
<1>3. \A fd \in Ready : /\ fd \in Fds /\ conn[fd] \in Clients \cup {Listener}
                        /\ conn[fd] = Listener => backlog # <<>>
  BY <1>1 DEF Ready, IInv, Masks, Sockets
<1>4. Cardinality(Ready) \in Nat
  <2>1. IsFiniteSet(0..(SetSize - 1))
    BY FS_Interval, EventLoopAssumption
  <2>2. Ready \subseteq 0..(SetSize - 1)
    BY EventsBounded DEF Ready, IInv, Masks
  <2> QED BY <2>1, <2>2, FS_Subset, FS_CardinalityType
<1> DEFINE n == Cardinality(Ready)
<1>5. /\ s \in [1..n -> Ready]
      /\ \A i, j \in DOMAIN s : s[i] = s[j] => i = j
  BY DEF Orders
<1> HIDE DEF n
<1>6. n \in Nat
  BY <1>4 DEF n
<1>7. /\ DOMAIN fired' = 1..n
      /\ \A i \in 1..n : fired'[i].fd = s[i] /\ fired'[i].to = conn[s[i]]
  BY <1>2, <1>5
<1>8. fired' \in Seq([fd : Fds, to : Clients \cup {Listener}])
  <2>1. \A i \in 1..n : [fd |-> s[i], to |-> conn[s[i]]] \in [fd : Fds, to : Clients \cup {Listener}]
    BY <1>3, <1>5
  <2> DEFINE E == [fd : Fds, to : Clients \cup {Listener}]
  <2>2. fired' \in [1..n -> E]
    BY <1>2, <1>5, <2>1
  <2> HIDE DEF E
  <2>3. fired' \in Seq(E)
    BY <1>6, <2>2
  <2> QED BY <2>3 DEF E
<1>9. Batch'
  <2>1. RightConnection'
    BY <1>7 DEF RightConnection
  <2>2. \A i \in 1..n : fired'[i].to = Listener => backlog # <<>>
    BY <1>3, <1>5, <1>7
  <2> QED BY <1>5, <1>7, <1>8, <2>1, <2>2 DEF Batch
<1>10. Sockets' /\ Masks'
  BY <1>1 DEF IInv, Sockets, Masks
<1> QED BY <1>9, <1>10 DEF IInv
-----------------------------------------------------------------------------
\* The rest of a batch is a batch.
LEMMA RestOfBatch ==
    ASSUME IInv, fired # <<>>
    PROVE  /\ Head(fired).fd \in Fds /\ conn[Head(fired).fd] = Head(fired).to
           /\ Head(fired).to \in Clients \cup {Listener}
           /\ Head(fired).to = Listener => backlog # <<>>
           /\ Tail(fired) \in Seq([fd : Fds, to : Clients \cup {Listener}])
           /\ \A i \in DOMAIN Tail(fired) :
                 /\ i + 1 \in DOMAIN fired /\ Tail(fired)[i] = fired[i + 1]
                 /\ fired[i + 1].fd # Head(fired).fd
                 /\ fired[i + 1].fd \in Fds /\ conn[fired[i + 1].fd] = fired[i + 1].to
                 /\ fired[i + 1].to \in Clients \cup {Listener}
           /\ \A i, j \in DOMAIN Tail(fired) : Tail(fired)[i].fd = Tail(fired)[j].fd => i = j
<1> DEFINE E == [fd : Fds, to : Clients \cup {Listener}]
           t == Tail(fired)
<1>1. fired \in Seq(E) /\ Len(fired) \in Nat \ {0}
  BY EmptySeq DEF IInv, Batch
<1>2. DOMAIN fired = 1..Len(fired) /\ \A i \in DOMAIN fired : fired[i] \in E
  <2> HIDE DEF E
  <2> QED BY <1>1, LenProperties
<1>3. Head(fired) = fired[1] /\ 1 \in DOMAIN fired
  BY <1>1, <1>2
<1>4. /\ t \in Seq(E) /\ DOMAIN t = 1..(Len(fired) - 1)
      /\ \A i \in 1..(Len(fired) - 1) : t[i] = fired[i + 1]
  <2> HIDE DEF E
  <2>1. /\ t \in Seq(E) /\ Len(t) = Len(fired) - 1
        /\ \A i \in 1..Len(t) : t[i] = fired[i + 1]
    BY <1>1, HeadTailProperties
  <2> HIDE DEF t
  <2>2. DOMAIN t = 1..Len(t)
    BY <2>1
  <2> QED BY <2>1, <2>2
<1> HIDE DEF t
<1>5. \A i \in DOMAIN t : i + 1 \in DOMAIN fired /\ i + 1 # 1 /\ i \in Nat
  BY <1>1, <1>2, <1>4
<1>6. /\ \A i, j \in DOMAIN fired : fired[i].fd = fired[j].fd => i = j
      /\ \A i \in DOMAIN fired : conn[fired[i].fd] = fired[i].to
      /\ \A i \in DOMAIN fired : fired[i].to = Listener => backlog # <<>>
  BY DEF IInv, Batch, RightConnection
<1>7. \A i \in DOMAIN fired : fired[i].fd \in Fds /\ fired[i].to \in Clients \cup {Listener}
  BY <1>2
<1>8. \A i \in DOMAIN t : fired[i + 1].fd # fired[1].fd
  BY <1>3, <1>5, <1>6
<1>9. \A i, j \in DOMAIN t : t[i].fd = t[j].fd => i = j
  <2> SUFFICES ASSUME NEW i \in DOMAIN t, NEW j \in DOMAIN t, t[i].fd = t[j].fd
               PROVE  i = j
    OBVIOUS
  <2>1. fired[i + 1].fd = fired[j + 1].fd
    BY <1>4
  <2>2. i + 1 \in DOMAIN fired /\ j + 1 \in DOMAIN fired
    BY <1>5
  <2>3. i + 1 = j + 1
    BY <1>6, <2>1, <2>2
  <2> QED BY <1>5, <2>3
<1> QED BY <1>3, <1>4, <1>5, <1>6, <1>7, <1>8, <1>9 DEF t

\* aeDeleteFileEvent keeps maxfd the highest.
LEMMA DeleteStep ==
    ASSUME IInv, NEW fd \in Fds, DeleteFileEvent(fd)
    PROVE  events' = events \ {fd} /\ interest' = events' /\ maxfd' = Highest(events')
<1>1. events = interest /\ maxfd = Highest(events) /\ events' = events \ {fd} /\ interest' = events'
  BY DEF IInv, Masks, DeleteFileEvent
<1>2. CASE fd \in events /\ fd = maxfd
  BY <1>1, <1>2 DEF DeleteFileEvent
<1>3. CASE fd \notin events
  <2>1. events \ {fd} = events /\ maxfd' = maxfd
    BY <1>3 DEF DeleteFileEvent
  <2> QED BY <1>1, <2>1
<1>4. CASE fd # maxfd
  <2>1. maxfd' = maxfd
    BY <1>4 DEF DeleteFileEvent
  <2>2. Highest(events \ {fd}) = Highest(events)
    BY <1>1, <1>4, EventsBounded, HighestWithout
  <2> QED BY <1>1, <2>1, <2>2
<1> QED BY <1>2, <1>3, <1>4

\* aeCreateFileEvent of a descriptor that was free.
LEMMA RegisterStep ==
    ASSUME IInv, NEW fd \in Fds, fd \notin events, CreateFileEvent(fd)
    PROVE  /\ events' = events \cup (IF fd < SetSize THEN {fd} ELSE {})
           /\ interest' = events' /\ maxfd' = Highest(events')
<1>1. events = interest /\ maxfd = Highest(events) /\ fd \in Nat
  BY EventLoopAssumption DEF IInv, Masks
<1>2. CASE fd < SetSize
  <2>1. /\ events' = events \cup {fd} /\ interest' = events \cup {fd}
        /\ maxfd' = IF fd > maxfd THEN fd ELSE maxfd
    BY <1>1, <1>2 DEF CreateFileEvent, CanCreate
  <2>2. fd \in 0..(SetSize - 1) /\ SetSize \in Nat
    BY <1>1, <1>2, EventLoopAssumption
  <2>3. Highest(events \cup {fd}) = IF fd > Highest(events) THEN fd ELSE Highest(events)
    BY <2>2, EventsBounded, HighestOf
  <2> QED BY <1>1, <1>2, <2>1, <2>3
<1>3. CASE ~ (fd < SetSize)
  <2>1. UNCHANGED <<events, interest, maxfd>>
    BY <1>3 DEF CreateFileEvent, CanCreate
  <2> QED BY <1>1, <1>3, <2>1
<1> QED BY <1>2, <1>3

\* What is left of the batch after its first event changed the socket of another
\* descriptor than the rest is about.
LEMMA BatchGoesOn ==
    ASSUME IInv, fired # <<>>, fired' = Tail(fired),
           \A i \in DOMAIN Tail(fired) : conn'[Tail(fired)[i].fd] = conn[Tail(fired)[i].fd],
           backlog' = backlog \/ Head(fired).to = Listener
    PROVE  Batch'
<1>1. Sockets
  BY DEF IInv
<1>2. \A i \in DOMAIN Tail(fired) : conn'[Tail(fired)[i].fd] = Tail(fired)[i].to
  BY RestOfBatch
<1>3. RightConnection'
  BY <1>2 DEF RightConnection
<1>4. \A i \in DOMAIN Tail(fired) : Tail(fired)[i].to = Listener => backlog' # <<>>
  <2> SUFFICES ASSUME NEW i \in DOMAIN Tail(fired), Tail(fired)[i].to = Listener
               PROVE  backlog' # <<>>
    OBVIOUS
  <2>1. /\ fired[i + 1].fd \in Fds /\ conn[fired[i + 1].fd] = Listener
        /\ fired[i + 1].fd # Head(fired).fd /\ fired[i + 1].to = Listener
        /\ i + 1 \in DOMAIN fired
    BY RestOfBatch
  <2>2. Head(fired).to # Listener
    BY <1>1, <2>1, RestOfBatch DEF Sockets
  <2>3. backlog # <<>>
    BY <2>1 DEF IInv, Batch
  <2> QED BY <2>2, <2>3
<1> QED BY <1>3, <1>4, RestOfBatch DEF Batch

\* A connection takes the lowest free descriptor, of this batch or not.
LEMMA AcceptStep ==
    ASSUME IInv, pc = "dispatch", pc' = pc, fired # <<>>, fired' = Tail(fired),
           conn[Head(fired).fd] = Listener, Accept
    PROVE  IInv'
<1>1. Head(fired).to = Listener /\ backlog # <<>>
  BY RestOfBatch
<1>2. CASE Free = {}
  <2>1. UNCHANGED <<conn, backlog, events, interest, maxfd>>
    BY <1>2 DEF Accept
  <2>2. Batch'
    BY <2>1, BatchGoesOn
  <2> QED BY <2>1, <2>2 DEF IInv, Sockets, Masks
<1>3. CASE Free # {}
  <2> DEFINE f == CHOOSE x \in Free : \A g \in Free : x <= g
  <2>1. f \in Free
    <3>1. Free \in SUBSET Nat
      BY EventLoopAssumption DEF Free
    <3>2. \E x \in Free : \A g \in Free : x <= g
      BY <1>3, <3>1, Lowest
    <3> QED BY <3>2
  <2>2. /\ conn' = [conn EXCEPT ![f] = Head(backlog)] /\ backlog' = Tail(backlog)
        /\ CreateFileEvent(f)
    BY <1>3 DEF Accept
  <2> HIDE DEF f
  <2>3. f \in Fds /\ conn[f] = None /\ f \notin events /\ f # 0
    BY <2>1, ConnectionsAssumption DEF Free, IInv, Masks, Sockets
  <2>4. Head(backlog) \in Clients /\ Tail(backlog) \in Seq(Clients)
    BY <1>1, HeadTailProperties DEF IInv, Sockets
  <2>5. Head(backlog) # None /\ Head(backlog) # Listener
    BY <2>4, ConnectionsAssumption
  <2>6. /\ conn' \in [Fds -> Clients \cup {Listener, None}]
        /\ \A fd \in Fds : conn'[fd] = IF fd = f THEN Head(backlog) ELSE conn[fd]
    BY <2>2, <2>3, <2>4 DEF IInv, Sockets
  <2>7. Sockets'
    BY <2>2, <2>3, <2>4, <2>5, <2>6 DEF IInv, Sockets
  <2>8. Masks'
    <3>1. /\ events' = events \cup (IF f < SetSize THEN {f} ELSE {})
          /\ interest' = events' /\ maxfd' = Highest(events')
      BY <2>2, <2>3, RegisterStep
    <3>2. events = {fd \in Fds : fd < SetSize /\ conn[fd] # None}
      BY DEF IInv, Masks
    <3>3. events' = {fd \in Fds : fd < SetSize /\ conn'[fd] # None}
      BY <2>3, <2>5, <2>6, <3>1, <3>2
    <3> QED BY <3>1, <3>3 DEF Masks
  <2>9. Batch'
    <3>1. ASSUME NEW i \in DOMAIN Tail(fired)
          PROVE  conn'[Tail(fired)[i].fd] = conn[Tail(fired)[i].fd]
      <4>1. Tail(fired)[i].fd \in Fds /\ conn[Tail(fired)[i].fd] \in Clients \cup {Listener}
        BY RestOfBatch
      <4>2. Tail(fired)[i].fd # f
        BY <2>3, <4>1, ConnectionsAssumption
      <4> QED BY <2>6, <4>1, <4>2
    <3> QED BY <1>1, <3>1, BatchGoesOn
  <2> QED BY <2>7, <2>8, <2>9 DEF IInv
<1> QED BY <1>2, <1>3

\* A handler closes its own descriptor.
LEMMA CloseStep ==
    ASSUME IInv, pc = "dispatch", pc' = pc, fired # <<>>, fired' = Tail(fired),
           conn[Head(fired).fd] # Listener, Close(Head(fired).fd), backlog' = backlog
    PROVE  IInv'
<1> DEFINE fd == Head(fired).fd
<1>1. fd \in Fds /\ fd # 0
  BY RestOfBatch DEF IInv, Sockets
<1>2. conn' = [conn EXCEPT ![fd] = None] /\ DeleteFileEvent(fd)
  BY DEF Close
<1> HIDE DEF fd
<1>3. /\ conn' \in [Fds -> Clients \cup {Listener, None}]
      /\ \A x \in Fds : conn'[x] = IF x = fd THEN None ELSE conn[x]
  BY <1>1, <1>2 DEF IInv, Sockets
<1>4. Sockets'
  BY <1>1, <1>3, ConnectionsAssumption DEF IInv, Sockets
<1>5. Masks'
  <2>1. events' = events \ {fd} /\ interest' = events' /\ maxfd' = Highest(events')
    BY <1>1, <1>2, DeleteStep
  <2>2. events = {x \in Fds : x < SetSize /\ conn[x] # None}
    BY DEF IInv, Masks
  <2>3. events' = {x \in Fds : x < SetSize /\ conn'[x] # None}
    BY <1>3, <2>1, <2>2
  <2> QED BY <2>1, <2>3 DEF Masks
<1>6. Batch'
  <2>1. ASSUME NEW i \in DOMAIN Tail(fired)
        PROVE  conn'[Tail(fired)[i].fd] = conn[Tail(fired)[i].fd]
    BY <1>3, RestOfBatch DEF fd
  <2> QED BY <2>1, BatchGoesOn
<1> QED BY <1>4, <1>5, <1>6 DEF IInv

\* Any handler of the batch.
LEMMA FileEventStep == ASSUME IInv, FileEvent PROVE IInv'
<1>1. pc = "dispatch" /\ fired # <<>> /\ fired' = Tail(fired)
  BY DEF FileEvent
<1>2. ASSUME UNCHANGED <<events, interest, maxfd, conn, backlog>>, pc' # "boot" PROVE IInv'
  <2>1. Batch'
    BY <1>1, <1>2, BatchGoesOn
  <2> QED BY <1>1, <1>2, <2>1 DEF IInv, Sockets, Masks
<1> DEFINE fd == Head(fired).fd
<1>3. CASE fd \notin events
  BY <1>1, <1>2, <1>3 DEF FileEvent
<1>4. CASE fd \in events /\ conn[fd] = Listener
  BY <1>1, <1>4, AcceptStep DEF FileEvent
<1>5. CASE fd \in events /\ conn[fd] # Listener /\ input[conn[fd]] = <<>>
  BY <1>1, <1>5, CloseStep DEF FileEvent
<1>6. CASE fd \in events /\ conn[fd] # Listener /\ input[conn[fd]] # <<>>
  <2>1. Read(conn[fd]) /\ UNCHANGED <<events, interest, maxfd, conn, backlog>>
    BY <1>6 DEF FileEvent
  <2>2. pc' \in {pc, "killed"}
    BY <2>1 DEF Read
  <2> QED BY <1>1, <1>2, <2>1, <2>2
<1> QED BY <1>3, <1>4, <1>5, <1>6
-----------------------------------------------------------------------------
\* Every step keeps the invariant.
LEMMA NextIInv == IInv /\ [Next \/ Ended]_vars => IInv'
<1> SUFFICES ASSUME IInv, [Next \/ Ended]_vars PROVE IInv'
  OBVIOUS
<1> DEFINE Same == /\ UNCHANGED <<conn, backlog, events, interest, maxfd, fired>>
                   /\ pc' = "boot" <=> pc = "boot"
<1>1. CASE Loop
  <2>1. CASE Create(0)
    BY <1>1, <2>1, CreateStep DEF Loop
  <2>2. CASE Poll(Ready, conn)
    BY <1>1, <2>2, PollStep DEF Loop
  <2>3. CASE Enter \/ TimeEvents \/ Leave
    <3>1. Same
      BY <1>1, <2>3 DEF Loop, Enter, TimeEvents, Leave
    <3> QED BY <3>1, Quiet
  <2> QED BY <1>1, <2>1, <2>2, <2>3 DEF Loop
<1>2. CASE FileEvent
  BY <1>2, FileEventStep
<1>3. CASE Environment \/ Ended \/ UNCHANGED vars
  <2>1. Same
    BY <1>3 DEF Environment, Tick, Interrupt, Ended, vars
  <2> QED BY <2>1, Quiet
<1>4. ASSUME NEW c \in Clients, Connect(c) PROVE IInv'
  <2>1. /\ UNCHANGED <<pc, events, interest, maxfd, fired, conn>>
        /\ backlog' = Append(backlog, c)
    BY <1>4 DEF Connect, loopVars
  <2>2. backlog' \in Seq(Clients) /\ backlog' # <<>>
    <3>1. backlog \in Seq(Clients)
      BY DEF IInv, Sockets
    <3>2. Len(Append(backlog, c)) = Len(backlog) + 1 /\ Len(backlog) \in Nat
      BY <3>1, AppendProperties
    <3> QED BY <2>1, <3>1, <3>2, AppendProperties, EmptySeq
  <2> QED BY <2>1, <2>2 DEF IInv, Sockets, Masks, Batch, RightConnection
<1>5. ASSUME NEW c, NEW p, Send(c, p) \/ Deliver(c) \/ HangUp(c) PROVE IInv'
  <2>1. Same
    BY <1>5 DEF Send, Deliver, HangUp, loopVars
  <2> QED BY <2>1, Quiet
<1> QED BY <1>1, <1>2, <1>3, <1>4, <1>5 DEF Next

\* For all clients, descriptors and sizes: whatever is accepted, closed and used again,
\* the loop's masks, epoll and the open sockets are the same set.
THEOREM RegisteredAlways == Spec => []Registered
<1>1. IInv => Registered
  BY DEF IInv, Masks, Registered
<1> QED BY <1>1, InitIInv, NextIInv, PTL DEF Spec

\* No event of a batch is handled for another connection than it was polled for: a
\* descriptor that is closed, and may be used again, is not in the rest of the batch.
THEOREM RightConnectionAlways == Spec => []RightConnection
<1>1. IInv => RightConnection
  BY DEF IInv, Batch
<1> QED BY <1>1, InitIInv, NextIInv, PTL DEF Spec
-----------------------------------------------------------------------------
(***************************************************************************)
(* What has been answered was sent: a command that is executed is one piece   *)
(* of the input at least, which is read once.                                *)
(***************************************************************************)
\* The pieces that begin a command.
Begins(s) == {i \in 1..Len(s) : s[i] # "tail"}

\* What may be left of a command.
Tails == {<<>>, <<"tail">>}

Counted ==
    /\ wire \in [Clients -> Tails] /\ input \in [Clients -> Seq(Pieces)]
    /\ sent \in [Clients -> Nat] /\ answered \in [Clients -> Nat]
    /\ \A c \in Clients :
          /\ answered[c] + Cardinality(Begins(input[c])) <= sent[c]
          /\ sent[c] <= MaxCommands[c]

\* There are finitely many.
LEMMA BeginsFinite ==
    ASSUME NEW s \in Seq(Pieces)
    PROVE  IsFiniteSet(Begins(s)) /\ Cardinality(Begins(s)) \in Nat
<1>1. IsFiniteSet(1..Len(s)) /\ Begins(s) \subseteq 1..Len(s)
  BY FS_Interval DEF Begins
<1> QED BY <1>1, FS_Subset, FS_CardinalityType

\* One more with the piece that arrives.
LEMMA BeginsAppend ==
    ASSUME NEW s \in Seq(Pieces), NEW p \in Pieces
    PROVE  /\ Append(s, p) \in Seq(Pieces)
           /\ Cardinality(Begins(Append(s, p))) <= Cardinality(Begins(s)) + 1
           /\ p = "tail" => Begins(Append(s, p)) = Begins(s)
<1> DEFINE r == Append(s, p)
           n == Len(s)
<1>1. /\ r \in Seq(Pieces) /\ n \in Nat /\ Len(r) = n + 1
      /\ r[n + 1] = p /\ \A i \in 1..n : r[i] = s[i]
  OBVIOUS
<1> HIDE DEF r
<1>2. Begins(r) \subseteq Begins(s) \cup {n + 1}
  BY <1>1 DEF Begins
<1>3. p = "tail" => Begins(r) = Begins(s)
  BY <1>1 DEF Begins
<1>4. n + 1 \notin Begins(s) /\ IsFiniteSet(Begins(s)) /\ Cardinality(Begins(s)) \in Nat
  BY <1>1, BeginsFinite DEF Begins
<1>5. /\ IsFiniteSet(Begins(s) \cup {n + 1})
      /\ Cardinality(Begins(s) \cup {n + 1}) = Cardinality(Begins(s)) + 1
  BY <1>4, FS_AddElement
<1>6. Cardinality(Begins(r)) <= Cardinality(Begins(s)) + 1
  BY <1>2, <1>5, FS_Subset
<1> QED BY <1>1, <1>3, <1>6 DEF r

\* One less, if it begins a command, when the first pieces are read.
LEMMA BeginsRead ==
    ASSUME NEW s \in Seq(Pieces), NEW n \in 1..Len(s)
    PROVE  LET r == SubSeq(s, n + 1, Len(s)) IN
           /\ r \in Seq(Pieces)
           /\ Cardinality(Begins(r)) <= Cardinality(Begins(s))
           /\ s[1] # "tail" => Cardinality(Begins(r)) < Cardinality(Begins(s))
<1> DEFINE r == SubSeq(s, n + 1, Len(s))
           m == Len(s)
           shift == [i \in Begins(r) |-> i + n]
<1>1. /\ r \in Seq(Pieces) /\ m \in Nat /\ n \in Nat /\ Len(r) = m - n
      /\ \A i \in 1..(m - n) : r[i] = s[i + n]
  <2>1. r \in Seq(Pieces) /\ Len(r) = m - n
    OBVIOUS
  <2>2. ASSUME NEW i \in 1..(m - n) PROVE r[i] = s[i + n]
    OBVIOUS
  <2> QED BY <2>1, <2>2
<1> HIDE DEF r, m
<1>2. \A i \in Begins(r) : i \in Nat /\ i + n \in Begins(s) \ {1}
  BY <1>1 DEF Begins, m
<1>3. IsFiniteSet(Begins(s)) /\ Cardinality(Begins(s)) \in Nat /\ Cardinality(Begins(r)) \in Nat
  BY <1>1, BeginsFinite
<1>4. Cardinality(Begins(r)) <= Cardinality(Begins(s) \ {1})
  <2>1. shift \in Injection(Begins(r), Begins(s) \ {1})
    BY <1>1, <1>2 DEF Injection, IsInjective
  <2>2. IsFiniteSet(Begins(s) \ {1})
    BY <1>3, FS_Subset
  <2> QED BY <2>1, <2>2, FS_Injection
<1>5. s[1] # "tail" => 1 \in Begins(s)
  BY <1>1 DEF Begins, m
<1>6. Cardinality(Begins(s) \ {1}) = IF 1 \in Begins(s) THEN Cardinality(Begins(s)) - 1
                                     ELSE Cardinality(Begins(s))
  BY <1>3, FS_RemoveElement
<1> QED BY <1>1, <1>3, <1>4, <1>5, <1>6 DEF r, m

\* A step reads no command twice.
LEMMA CountedStep == IInv /\ Counted /\ [Next \/ Ended]_vars => Counted'
<1> SUFFICES ASSUME IInv, Counted, [Next \/ Ended]_vars PROVE Counted'
  OBVIOUS
<1> USE ConnectionsAssumption
<1>1. CASE UNCHANGED <<wire, input, sent, answered>>
  BY <1>1 DEF Counted
<1>2. ASSUME NEW c \in Clients, NEW p, p \in {<<"command">>, <<"head", "tail">>}, Send(c, p)
      PROVE  Counted'
  <2>1. Head(p) \in Pieces /\ Tail(p) \in Tails
    <3>1. CASE p = <<"command">>
      <4>1. Head(p) = "command" /\ Tail(p) = <<>>
        BY <3>1
      <4> QED BY <4>1 DEF Pieces, Tails
    <3>2. CASE p = <<"head", "tail">>
      <4>1. Head(p) = "head" /\ Tail(p) = <<"tail">>
        BY <3>2
      <4> QED BY <4>1 DEF Pieces, Tails
    <3> QED BY <1>2, <3>1, <3>2
  <2>2. input[c] \in Seq(Pieces)
    BY DEF Counted
  <2>3. /\ Append(input[c], Head(p)) \in Seq(Pieces)
        /\ Cardinality(Begins(Append(input[c], Head(p)))) <= Cardinality(Begins(input[c])) + 1
        /\ Cardinality(Begins(Append(input[c], Head(p)))) \in Nat
        /\ Cardinality(Begins(input[c])) \in Nat
    BY <2>1, <2>2, BeginsAppend, BeginsFinite
  <2>4. /\ input' = [input EXCEPT ![c] = Append(input[c], Head(p))]
        /\ wire' = [wire EXCEPT ![c] = Tail(p)] /\ sent' = [sent EXCEPT ![c] = @ + 1]
        /\ answered' = answered /\ sent[c] < MaxCommands[c]
    BY <1>2 DEF Send
  <2>5. /\ wire' \in [Clients -> Tails] /\ input' \in [Clients -> Seq(Pieces)]
        /\ sent' \in [Clients -> Nat] /\ answered' \in [Clients -> Nat]
    BY <2>1, <2>3, <2>4 DEF Counted
  <2>6. ASSUME NEW d \in Clients
        PROVE  /\ answered'[d] + Cardinality(Begins(input'[d])) <= sent'[d]
               /\ sent'[d] <= MaxCommands[d]
    <3>1. CASE d = c
      <4>1. /\ input'[d] = Append(input[c], Head(p)) /\ sent'[d] = sent[c] + 1
            /\ answered'[d] = answered[c] /\ sent[c] \in Nat /\ answered[c] \in Nat
            /\ answered[c] + Cardinality(Begins(input[c])) <= sent[c]
            /\ MaxCommands[c] \in Nat
        BY <2>4, <3>1 DEF Counted
      <4> QED BY <2>3, <2>4, <3>1, <4>1
    <3>2. CASE d # c
      BY <2>4, <3>2 DEF Counted
    <3> QED BY <3>1, <3>2
  <2> QED BY <2>5, <2>6 DEF Counted
<1>3. ASSUME NEW c \in Clients, Deliver(c) PROVE Counted'
  <2>1. wire[c] = <<"tail">> /\ "tail" \in Pieces /\ input[c] \in Seq(Pieces)
    BY <1>3 DEF Counted, Deliver, Pieces, Tails
  <2>2. input[c] \o wire[c] = Append(input[c], "tail")
    BY <2>1
  <2>3. PICK r \in Seq(Pieces) : r = Append(input[c], "tail") /\ Begins(r) = Begins(input[c])
    BY <2>1, BeginsAppend
  <2>4. /\ input' = [input EXCEPT ![c] = r]
        /\ wire' = [wire EXCEPT ![c] = <<>>] /\ UNCHANGED <<sent, answered>>
    BY <1>3, <2>2, <2>3 DEF Deliver
  <2>5. /\ wire' \in [Clients -> Tails] /\ input' \in [Clients -> Seq(Pieces)]
    <3>1. <<>> \in Tails
      BY DEF Tails
    <3> QED BY <2>3, <2>4, <3>1 DEF Counted
  <2>6. \A d \in Clients : Begins(input'[d]) = Begins(input[d])
    BY <2>3, <2>4 DEF Counted
  <2> QED BY <2>4, <2>5, <2>6 DEF Counted
<1>4. ASSUME NEW c \in Clients, input[c] # <<>>, Read(c), UNCHANGED <<wire, sent>>
      PROVE  Counted'
  <2>1. PICK n \in 1..Len(input[c]) :
          /\ input' = [input EXCEPT ![c] = SubSeq(input[c], n + 1, Len(input[c]))]
          /\ answered' = [answered EXCEPT ![c] =
                @ + (IF Parsed(SubSeq(input[c], 1, n)) = 1 THEN 1 ELSE 0)]
    BY <1>4 DEF Read
  <2>2. input[c] \in Seq(Pieces)
    BY DEF Counted
  <2> DEFINE r == SubSeq(input[c], n + 1, Len(input[c]))
             k == IF Parsed(SubSeq(input[c], 1, n)) = 1 THEN 1 ELSE 0
  <2>3. SubSeq(input[c], 1, n)[1] = input[c][1]
    BY <2>2
  <2>4. k \in {0, 1} /\ (k = 1 => input[c][1] # "tail")
    BY <2>3 DEF Parsed
  <2>5. /\ r \in Seq(Pieces)
        /\ Cardinality(Begins(r)) + k <= Cardinality(Begins(input[c]))
        /\ Cardinality(Begins(r)) \in Nat /\ Cardinality(Begins(input[c])) \in Nat
    <3>1. r \in Seq(Pieces) /\ Cardinality(Begins(r)) <= Cardinality(Begins(input[c]))
          /\ (input[c][1] # "tail" => Cardinality(Begins(r)) < Cardinality(Begins(input[c])))
      BY <2>2, BeginsRead
    <3> HIDE DEF r, k
    <3>2. Cardinality(Begins(r)) \in Nat /\ Cardinality(Begins(input[c])) \in Nat
      BY <2>2, <3>1, BeginsFinite
    <3> QED BY <2>4, <3>1, <3>2
  <2>6. input' = [input EXCEPT ![c] = r] /\ answered' = [answered EXCEPT ![c] = @ + k]
    BY <2>1
  <2> HIDE DEF r, k
  <2>7. input' \in [Clients -> Seq(Pieces)] /\ answered' \in [Clients -> Nat]
    BY <2>4, <2>5, <2>6 DEF Counted
  <2>8. ASSUME NEW d \in Clients
        PROVE  /\ answered'[d] + Cardinality(Begins(input'[d])) <= sent'[d]
               /\ sent'[d] <= MaxCommands[d]
    <3>1. CASE d = c
      <4>1. /\ input'[d] = r /\ sent'[d] = sent[c] /\ answered'[d] = answered[c] + k
            /\ sent[c] \in Nat /\ answered[c] \in Nat /\ sent[c] <= MaxCommands[c]
            /\ answered[c] + Cardinality(Begins(input[c])) <= sent[c]
        BY <1>4, <2>6, <3>1 DEF Counted
      <4> QED BY <2>4, <2>5, <3>1, <4>1
    <3>2. CASE d # c
      BY <1>4, <2>6, <3>2 DEF Counted
    <3> QED BY <3>1, <3>2
  <2> QED BY <1>4, <2>7, <2>8 DEF Counted
<1>5. CASE FileEvent
  <2> DEFINE fd == Head(fired).fd
  <2>1. UNCHANGED <<wire, sent>>
    BY <1>5 DEF FileEvent
  <2>2. CASE fd \in events /\ conn[fd] # Listener /\ input[conn[fd]] # <<>>
    <3>1. Read(conn[fd])
      BY <1>5, <2>2 DEF FileEvent
    <3>2. PICK c : c = conn[fd]
      OBVIOUS
    <3>3. c \in Clients
      BY <1>5, <2>2, <3>2, RestOfBatch DEF FileEvent
    <3> QED BY <1>4, <2>1, <2>2, <3>1, <3>2, <3>3
  <2>3. CASE ~ (fd \in events /\ conn[fd] # Listener /\ input[conn[fd]] # <<>>)
    <3>1. UNCHANGED <<input, answered>>
      BY <1>5, <2>3 DEF FileEvent
    <3> QED BY <1>1, <2>1, <3>1
  <2> QED BY <2>2, <2>3
<1>6. CASE Loop \/ Environment \/ Ended \/ UNCHANGED vars
  BY <1>1, <1>6 DEF Loop, Environment, Ended, vars
<1>7. ASSUME NEW c \in Clients, Connect(c) \/ HangUp(c) PROVE Counted'
  BY <1>1, <1>7 DEF Connect, HangUp
<1> QED BY <1>2, <1>3, <1>5, <1>6, <1>7 DEF Next

\* Nothing has been sent at first.
LEMMA InitCounted == Init => Counted
<1> SUFFICES ASSUME Init, NEW c \in Clients
             PROVE  Cardinality(Begins(input[c])) = 0 /\ MaxCommands[c] \in Nat
  BY ConnectionsAssumption DEF Init, Counted, Tails
<1>1. Begins(input[c]) = {}
  BY DEF Init, Begins
<1> QED BY <1>1, FS_EmptySet, ConnectionsAssumption

\* The rest of what the type says.
Rest ==
    /\ pc \in {"boot", "ready", "poll", "dispatch", "leaving", "exited", "killed"}
    /\ stop \in BOOLEAN /\ due \in BOOLEAN
    /\ peer \in [Clients -> {"new", "open", "closed"}]

\* Every step keeps it.
LEMMA RestStep == Rest /\ [Next \/ Ended]_vars => Rest'
<1> SUFFICES ASSUME Rest, [Next \/ Ended]_vars PROVE Rest'
  OBVIOUS
<1> USE DEF Rest
<1>1. CASE Loop
  BY <1>1 DEF Loop, Create, Enter, Poll, TimeEvents, Leave
<1>2. CASE FileEvent
  BY <1>2 DEF FileEvent, Read
<1>3. CASE Environment \/ Ended \/ UNCHANGED vars
  BY <1>3 DEF Environment, Tick, Interrupt, Ended, vars
<1>4. ASSUME NEW c \in Clients, NEW p, Connect(c) \/ Deliver(c) \/ HangUp(c) \/ Send(c, p)
      PROVE  Rest'
  BY <1>4 DEF Connect, Deliver, HangUp, Send, loopVars
<1> QED BY <1>1, <1>2, <1>3, <1>4 DEF Next

\* Together they are the type.
LEMMA TypeFrom == IInv /\ Counted /\ Rest => TypeOK
<1> SUFFICES ASSUME IInv, Counted, Rest PROVE TypeOK
  OBVIOUS
<1>1. /\ events \subseteq 0..(SetSize - 1) /\ interest \subseteq Fds /\ SetSize \in Nat
      /\ maxfd = Highest(events)
  BY EventsBounded DEF IInv, Masks
<1>2. maxfd \in -1..(SetSize - 1)
  <2>1. CASE events = {}
    BY <1>1, <2>1 DEF Highest
  <2>2. CASE events # {}
    <3>1. maxfd \in events
      BY <1>1, <2>2, HighestIs
    <3> QED BY <1>1, <3>1
  <2> QED BY <2>1, <2>2
<1>3. wire \in [Clients -> Seq(Pieces)]
  <2>1. <<>> \in Seq(Pieces) /\ <<"tail">> \in Seq(Pieces)
    BY DEF Pieces
  <2> QED BY <2>1 DEF Counted, Tails
<1>4. ASSUME NEW c \in Clients PROVE sent[c] \in 0..MaxCommands[c] /\ answered[c] \in 0..sent[c]
  <2>1. /\ Cardinality(Begins(input[c])) \in Nat /\ MaxCommands[c] \in Nat
        /\ sent[c] \in Nat /\ answered[c] \in Nat /\ sent[c] <= MaxCommands[c]
        /\ answered[c] + Cardinality(Begins(input[c])) <= sent[c]
    BY BeginsFinite, ConnectionsAssumption DEF Counted
  <2> QED BY <2>1
<1> QED BY <1>1, <1>2, <1>3, <1>4 DEF TypeOK, IInv, Sockets, Batch, Counted, Rest

\* No command is answered that was not sent, nor one twice, wherever the network and
\* the reads cut the bytes, and events[] is indexed within its size.
THEOREM TypeCorrect == Spec => []TypeOK
<1>1. Init => Rest
  BY DEF Init, LoopInit, Rest
<1> QED
  BY <1>1, InitIInv, InitCounted, NextIInv, CountedStep, RestStep, TypeFrom, PTL DEF Spec
=============================================================================
