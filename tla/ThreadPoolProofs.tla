-------------------------- MODULE ThreadPoolProofs --------------------------
(***************************************************************************)
(* Proofs about ThreadPool: for any number of workers and tasks the mutex   *)
(* excludes, no wakeup is lost, and the pool is not freed under a thread.   *)
(***************************************************************************)
EXTENDS ThreadPool, RecursionTheorems, FiniteSetTheorems, TLAPS

\* A worker is between its taking and its giving up of the mutex exactly if it
\* holds it; the main thread holds it only to add a task or to stop the pool.
Mutex ==
    /\ \A w \in Workers : pc[w] = "held" <=> lock = w
    /\ lock = Main => main \in {"add", "stop"}

\* What the main thread's place says about the workers.
Phases ==
    /\ pool <=> main # "exited"
    /\ stop <=> main \in {"join", "exited"}
    /\ main = "init" => head = Null
    /\ main = "exited" => \A w \in Workers : pc[w] = "done"
    /\ \A w \in Workers : pc[w] = "unborn" => main = "init"
    /\ \A w \in Workers : pc[w] = "done" => stop /\ head = Null

IInv == TypeOK /\ Mutex /\ Phases /\ AwakeWhenNeeded /\ PoolOutlivesWorkers
-----------------------------------------------------------------------------
\* The initial state: no thread has been created.
LEMMA InitIInv == Init => IInv
<1> SUFFICES ASSUME Init PROVE IInv
  OBVIOUS
<1> USE ThreadPoolAssumption DEF Init
<1>1. TypeOK
  <2>1. pc \in [Workers -> {"unborn"}] /\ \A w \in Workers : pc[w] # "run"
    OBVIOUS
  <2>2. next \in [Tasks -> Pointer] /\ task \in [Threads -> Pointer]
    BY DEF Pointer
  <2>3. spurious \in 0..MaxSpurious
    OBVIOUS
  <2> QED BY <2>1, <2>2, <2>3 DEF TypeOK, Pointer
<1>2. Mutex
  BY DEF Mutex
<1>3. Phases
  BY DEF Phases
<1>4. AwakeWhenNeeded
  BY DEF AwakeWhenNeeded
<1>5. PoolOutlivesWorkers
  BY DEF PoolOutlivesWorkers
<1> QED BY <1>1, <1>2, <1>3, <1>4, <1>5 DEF IInv

\* The type invariant, one action at a time.
LEMMA TypeStep == TypeOK /\ [Next]_vars => TypeOK'
<1> SUFFICES ASSUME TypeOK, [Next]_vars PROVE TypeOK'
  OBVIOUS
<1> USE ThreadPoolAssumption DEF TypeOK, Threads, Pointer, list
<1>1. CASE UNCHANGED vars
  BY <1>1 DEF vars
<1>2. ASSUME NEW w \in Workers, WorkerStep(w) PROVE TypeOK'
  <2>1. CASE Lock(w)
    BY <2>1 DEF Lock
  <2>2. CASE Wait(w)
    BY <2>2 DEF Wait
  <2>3. CASE Exit(w)
    BY <2>3 DEF Exit
  <2>4. CASE Take(w)
    BY <2>4 DEF Take
  <2>5. CASE Finish(w)
    BY <2>5 DEF Finish
  <2> QED BY <1>2, <2>1, <2>2, <2>3, <2>4, <2>5 DEF WorkerStep
<1>3. ASSUME NEW w \in Workers, WakeSpuriously(w) PROVE TypeOK'
  BY <1>3 DEF WakeSpuriously
<1>4. ASSUME NEW w \in Workers, CreateThread(w) PROVE TypeOK'
  BY <1>4 DEF CreateThread
<1>5. ASSUME NEW t \in Tasks, AddWork(t) PROVE TypeOK'
  BY <1>5 DEF AddWork
<1>6. CASE Shutdown
  BY <1>6 DEF Shutdown
<1>7. CASE MainLock
  BY <1>7 DEF MainLock
<1>8. CASE Enqueue
  <2>1. pc' \in [Workers -> {"unborn", "lock", "wait", "woken", "held", "run", "done"}]
        /\ \A w \in Workers : pc'[w] = "run" => pc[w] = "run"
    BY <1>8 DEF Enqueue, Signal, Waiting
  <2>2. task[Main] \in Tasks
    BY <1>8 DEF Enqueue
  <2>3. head' \in Pointer /\ tail' \in Pointer /\ next' \in [Tasks -> Pointer]
    BY <1>8, <2>2 DEF Enqueue, Link
  <2>4. task' \in [Threads -> Pointer] /\ \A w \in Workers : task'[w] = task[w]
    BY <1>8 DEF Enqueue, Link
  <2> QED BY <1>8, <2>1, <2>3, <2>4 DEF Enqueue, Link
<1>9. CASE Stop
  BY <1>9 DEF Stop, Waiting
<1>10. CASE Join
  BY <1>10 DEF Join
<1> QED BY <1>1, <1>2, <1>3, <1>4, <1>5, <1>6, <1>7, <1>8, <1>9, <1>10
        DEF Next, MainStep, Exited

\* The mutual exclusion, one action at a time.
LEMMA MutexStep == TypeOK /\ Mutex /\ [Next]_vars => Mutex'
<1> SUFFICES ASSUME TypeOK, Mutex, [Next]_vars PROVE Mutex'
  OBVIOUS
<1> USE ThreadPoolAssumption DEF TypeOK, Mutex, Threads
<1>1. CASE UNCHANGED vars
  BY <1>1 DEF vars
<1>2. ASSUME NEW w \in Workers, WorkerStep(w) PROVE Mutex'
  BY <1>2 DEF WorkerStep, Lock, Wait, Exit, Take, Finish
<1>3. ASSUME NEW w \in Workers, WakeSpuriously(w) \/ CreateThread(w) PROVE Mutex'
  BY <1>3 DEF WakeSpuriously, CreateThread
<1>4. ASSUME NEW t \in Tasks, AddWork(t) PROVE Mutex'
  BY <1>4 DEF AddWork
<1>5. CASE Shutdown \/ MainLock \/ Join
  BY <1>5 DEF Shutdown, MainLock, Join
<1>6. CASE Enqueue
  BY <1>6 DEF Enqueue, Link, Signal, Waiting
<1>7. CASE Stop
  BY <1>7 DEF Stop, Waiting
<1> QED BY <1>1, <1>2, <1>3, <1>4, <1>5, <1>6, <1>7 DEF Next, MainStep, Exited

\* The main thread's place and the workers', one action at a time.  A worker
\* that leaves has seen stop and an empty list, and nothing is added any more.
LEMMA PhasesStep == TypeOK /\ Phases /\ [Next]_vars => Phases'
<1> SUFFICES ASSUME TypeOK, Phases, [Next]_vars PROVE Phases'
  OBVIOUS
<1> USE ThreadPoolAssumption DEF TypeOK, Phases, Threads, list
<1>1. CASE UNCHANGED vars
  BY <1>1 DEF vars
<1>2. ASSUME NEW w \in Workers, WorkerStep(w) PROVE Phases'
  <2>1. CASE Lock(w) \/ Wait(w) \/ Finish(w)
    BY <2>1 DEF Lock, Wait, Finish
  <2>2. CASE Exit(w)
    BY <2>2 DEF Exit
  <2>3. CASE Take(w)
    BY <2>3 DEF Take
  <2> QED BY <1>2, <2>1, <2>2, <2>3 DEF WorkerStep
<1>3. ASSUME NEW w \in Workers, WakeSpuriously(w) PROVE Phases'
  BY <1>3 DEF WakeSpuriously
<1>4. ASSUME NEW w \in Workers, CreateThread(w) PROVE Phases'
  BY <1>4 DEF CreateThread
<1>5. ASSUME NEW t \in Tasks, AddWork(t) PROVE Phases'
  BY <1>5 DEF AddWork
<1>6. CASE Shutdown \/ MainLock \/ Join
  BY <1>6 DEF Shutdown, MainLock, Join
<1>7. CASE Enqueue
  BY <1>7 DEF Enqueue, Link, Signal, Waiting
<1>8. CASE Stop
  BY <1>8 DEF Stop, Waiting
<1> QED BY <1>1, <1>2, <1>3, <1>4, <1>5, <1>6, <1>7, <1>8 DEF Next, MainStep, Exited

\* A worker that waits has found the list empty and stop unset, holding the
\* mutex; whoever changes either wakes one or all before giving the mutex up.
LEMMA AwakeStep ==
    TypeOK /\ Phases /\ AwakeWhenNeeded /\ [Next]_vars => AwakeWhenNeeded'
<1> SUFFICES ASSUME TypeOK, Phases, AwakeWhenNeeded, [Next]_vars
             PROVE  AwakeWhenNeeded'
  OBVIOUS
<1> USE ThreadPoolAssumption DEF TypeOK, AwakeWhenNeeded, Waiting, list
<1>1. CASE UNCHANGED vars
  BY <1>1 DEF vars
<1>2. ASSUME NEW w \in Workers, WorkerStep(w) PROVE AwakeWhenNeeded'
  <2>1. CASE Lock(w)
    BY <2>1 DEF Lock
  <2>2. CASE Wait(w)
    BY <2>2 DEF Wait
  <2>3. CASE Exit(w)
    BY <2>3 DEF Exit
  <2>4. CASE Take(w)
    BY <2>4 DEF Take
  <2>5. CASE Finish(w)
    BY <2>5 DEF Finish
  <2> QED BY <1>2, <2>1, <2>2, <2>3, <2>4, <2>5 DEF WorkerStep
<1>3. ASSUME NEW w \in Workers, WakeSpuriously(w) PROVE AwakeWhenNeeded'
  BY <1>3 DEF WakeSpuriously
<1>4. ASSUME NEW w \in Workers, CreateThread(w) PROVE AwakeWhenNeeded'
  BY <1>4 DEF CreateThread
<1>5. ASSUME NEW t \in Tasks, AddWork(t) PROVE AwakeWhenNeeded'
  BY <1>5 DEF AddWork
<1>6. CASE Shutdown \/ MainLock \/ Join
  BY <1>6 DEF Shutdown, MainLock, Join
<1>7. CASE Enqueue
  <2>1. ~stop /\ ~stop' /\ \A w \in Workers : pc[w] \notin {"unborn", "done"}
    BY <1>7 DEF Enqueue, Phases
  <2>2. CASE Waiting = {} /\ UNCHANGED pc
    BY <2>1, <2>2
  <2>3. ASSUME NEW w \in Waiting, pc' = [pc EXCEPT ![w] = "woken"]
        PROVE  AwakeWhenNeeded'
    BY <2>1, <2>3
  <2> QED BY <1>7, <2>2, <2>3 DEF Enqueue, Signal
<1>8. CASE Stop
  BY <1>8 DEF Stop
<1> QED BY <1>1, <1>2, <1>3, <1>4, <1>5, <1>6, <1>7, <1>8 DEF Next, MainStep, Exited

\* Phases and Mutex leave no moment for a use of the pool after its free.
LEMMA PoolOutlives == TypeOK /\ Mutex /\ Phases => PoolOutlivesWorkers
<1> SUFFICES ASSUME TypeOK, Mutex, Phases PROVE PoolOutlivesWorkers
  OBVIOUS
<1>1. (\E w \in Workers : pc[w] \notin {"unborn", "done"}) => pool
  BY DEF Phases
<1>2. lock # Null => pool
  BY DEF TypeOK, Threads, Mutex, Phases
<1> QED BY <1>1, <1>2 DEF PoolOutlivesWorkers

\* Every step of a thread keeps it.
LEMMA IInvStep == IInv /\ [Next]_vars => IInv'
<1> SUFFICES ASSUME IInv, [Next]_vars PROVE IInv'
  OBVIOUS
<1>1. TypeOK'
  BY TypeStep DEF IInv
<1>2. Mutex'
  BY MutexStep DEF IInv
<1>3. Phases'
  BY PhasesStep DEF IInv
<1>4. AwakeWhenNeeded'
  BY AwakeStep DEF IInv
<1>5. PoolOutlivesWorkers'
  BY <1>1, <1>2, <1>3, PoolOutlives, PTL
<1> QED BY <1>1, <1>2, <1>3, <1>4, <1>5 DEF IInv
-----------------------------------------------------------------------------
\* The inductive invariant holds of every run.
THEOREM Inductive == Spec => []IInv
<1>1. Init => IInv
  BY InitIInv
<1>2. IInv /\ [Next]_vars => IInv'
  BY IInvStep
<1> QED BY <1>1, <1>2, PTL DEF Spec

\* The variables of tpool.c keep their types: in particular no worker runs a
\* null task.
THEOREM TypeCorrect == Spec => []TypeOK
BY Inductive, PTL DEF IInv

\* Between any two critical sections of add_work, shutdown and the workers no
\* wakeup is lost.
THEOREM AwakeWhenNeededHolds == Spec => []AwakeWhenNeeded
BY Inductive, PTL DEF IInv

\* tpool_shutdown frees the pool only after the last use of it.
THEOREM PoolOutlivesWorkersHolds == Spec => []PoolOutlivesWorkers
BY Inductive, PTL DEF IInv
-----------------------------------------------------------------------------
(***************************************************************************)
(* The list.  The pointers stand for a sequence of nodes, each of which is   *)
(* there once, and which has no node in common with what the threads hold.  *)
(***************************************************************************)
Chain(s) ==
    /\ s \in Seq(Tasks)
    /\ \A i, j \in 1..Len(s) : s[i] = s[j] => i = j
    /\ head = IF s = <<>> THEN Null ELSE s[1]
    /\ tail = IF s = <<>> THEN Null ELSE s[Len(s)]
    /\ \A i \in 1..Len(s) : next[s[i]] = IF i = Len(s) THEN Null ELSE s[i + 1]

\* The nodes that nobody has yet have no link.
Apart(s) ==
    /\ \A x, y \in Threads : task[x] = task[y] /\ task[x] # Null => x = y
    /\ \A x \in Threads : task[x] \notin freed
    /\ \A i \in 1..Len(s) : s[i] \notin freed /\ \A x \in Threads : s[i] # task[x]
    /\ \A t \in Tasks \ freed :
          (\A i \in 1..Len(s) : s[i] # t) /\ (\A w \in Workers : task[w] # t) => next[t] = Null
    /\ \A w \in Workers : task[w] # Null => pc[w] = "run"
    /\ task[Main] # Null => main = "add"

\* A sequence without repetitions is no longer than the set is large.
LEMMA NoLonger ==
    ASSUME NEW s \in Seq(Tasks), \A i, j \in 1..Len(s) : s[i] = s[j] => i = j
    PROVE  Len(s) \in 0..Cardinality(Tasks)
<1>1. s \in Injection(1..Len(s), Tasks)
  <2>1. s \in [1..Len(s) -> Tasks] /\ DOMAIN s = 1..Len(s)
    OBVIOUS
  <2> QED BY <2>1 DEF Injection, IsInjective
<1>2. Cardinality(1..Len(s)) = Len(s)
  BY FS_Interval
<1>3. Cardinality(1..Len(s)) <= Cardinality(Tasks) /\ Cardinality(Tasks) \in Nat
  BY <1>1, FS_Injection, FS_CardinalityType, ThreadPoolAssumption
<1> QED BY <1>2, <1>3

\* Listed is that sequence.
LEMMA ListedIs == \A s : Chain(s) => Listed = s
<1> SUFFICES ASSUME NEW s, Chain(s) PROVE Listed = s
  OBVIOUS
<1> USE ThreadPoolAssumption
<1> DEFINE g == [n \in Nat |-> IF n < Len(s) THEN s[n + 1] ELSE Null]
           Links(f) == f = [n \in Nat |-> IF n = 0 THEN head
                                          ELSE IF f[n - 1] = Null THEN Null ELSE next[f[n - 1]]]
<1>1. s \in Seq(Tasks) /\ Len(s) \in Nat
  BY DEF Chain
<1>2. Links(g)
  <2> SUFFICES ASSUME NEW n \in Nat
               PROVE  g[n] = IF n = 0 THEN head
                             ELSE IF g[n - 1] = Null THEN Null ELSE next[g[n - 1]]
    OBVIOUS
  <2>1. CASE n = 0
    BY <1>1, <2>1 DEF Chain
  <2>2. CASE n # 0 /\ n <= Len(s)
    <3>1. g[n - 1] = s[n] /\ s[n] \in Tasks /\ n \in 1..Len(s)
      BY <1>1, <2>2
    <3>2. next[s[n]] = IF n = Len(s) THEN Null ELSE s[n + 1]
      BY <3>1 DEF Chain
    <3> QED BY <2>2, <3>1, <3>2
  <2>3. CASE n > Len(s)
    BY <1>1, <2>3
  <2> QED BY <1>1, <2>1, <2>2, <2>3
<1>3. Links(Nth)
  <2> HIDE DEF g
  <2> QED BY <1>2 DEF Nth
<1>4. Nth = g
  <2> DEFINE S == {n \in Nat : Nth[n] = g[n]}
           Following(f) == \A n \in Nat : f[n + 1] = IF f[n] = Null THEN Null ELSE next[f[n]]
  <2>1. 0 \in S
    BY <1>2, <1>3
  <2>2. ASSUME NEW n \in Nat, n \in S PROVE n + 1 \in S
    <3>1. ASSUME NEW f, Links(f) PROVE Following(f)
      <4> SUFFICES ASSUME NEW m \in Nat PROVE f[m + 1] = IF f[m] = Null THEN Null ELSE next[f[m]]
        OBVIOUS
      <4>1. m + 1 \in Nat /\ m + 1 # 0 /\ (m + 1) - 1 = m
        OBVIOUS
      <4> QED BY <3>1, <4>1
    <3>2. Following(Nth) /\ Following(g)
      <4> HIDE DEF g, Links, Following
      <4> QED BY <1>2, <1>3, <3>1
    <3>3. Nth[n] = g[n]
      BY <2>2
    <3>4. Nth[n + 1] = g[n + 1]
      <4> HIDE DEF g
      <4> QED BY <3>2, <3>3
    <3> QED BY <3>4
  <2>3. Nat \subseteq S
    <3> HIDE DEF S
    <3> QED BY <2>1, <2>2, SetInduction
  <2> QED BY <1>2, <1>3, <2>3
<1>5. Len(s) \in 0..Cardinality(Tasks)
  BY NoLonger DEF Chain
<1>6. Nth[Len(s)] = Null /\ \A i \in 0..(Len(s) - 1) : Nth[i] = s[i + 1] /\ Nth[i] # Null
  BY <1>1, <1>4
<1> DEFINE End(n) == Nth[n] = Null /\ \A i \in 0..(n - 1) : Nth[i] # Null
<1>7. ASSUME NEW n \in 0..Cardinality(Tasks), End(n) PROVE n = Len(s)
  BY <1>1, <1>5, <1>6, <1>7
<1>8. (CHOOSE n \in 0..Cardinality(Tasks) : End(n)) = Len(s)
  BY <1>5, <1>6, <1>7
<1>9. Listed = [i \in 1..Len(s) |-> Nth[i - 1]]
  BY <1>8 DEF Listed
<1> QED BY <1>1, <1>6, <1>9

\* A list that a step leaves alone, with what the threads hold.
LEMMA SameList ==
    ASSUME NEW s, Chain(s), Apart(s), UNCHANGED <<list, task, freed>>,
           \A w \in Workers : task[w] # Null => pc'[w] = pc[w],
           task[Main] # Null => main' = main
    PROVE  Chain(s)' /\ Apart(s)'
BY DEF Chain, Apart, list

\* A new node is in nobody's hands.
LEMMA AddWorkList ==
    ASSUME TypeOK, NEW s, Chain(s), Apart(s), NEW t \in Tasks, AddWork(t)
    PROVE  Chain(s)' /\ Apart(s)'
<1> USE ThreadPoolAssumption DEF Threads
<1>1. t \notin freed /\ (\A i \in 1..Len(s) : s[i] # t) /\ \A w \in Workers : task[w] # t
  <2>1. Listed = s /\ DOMAIN s = 1..Len(s)
    BY ListedIs DEF Chain
  <2> QED BY <2>1 DEF AddWork, ToSet
<1>2. /\ \A w \in Workers : task'[w] = task[w]
      /\ task'[Main] = t /\ main' = "add" /\ t # Null
      /\ UNCHANGED <<pc, head, tail, next, freed>>
  BY DEF AddWork, TypeOK, list
<1>3. Chain(s)'
  BY <1>2 DEF Chain
<1>4. Apart(s)'
  BY <1>1, <1>2 DEF Apart
<1> QED BY <1>3, <1>4

\* The first node leaves the list.
LEMMA TakeList ==
    ASSUME TypeOK, NEW s, Chain(s), Apart(s), NEW w \in Workers, Take(w)
    PROVE  s # <<>> /\ task'[w] = s[1] /\ Chain(Tail(s))' /\ Apart(Tail(s))'
<1> USE ThreadPoolAssumption DEF Threads
<1> DEFINE r == Tail(s)
<1>1. s \in Seq(Tasks) /\ s # <<>> /\ head = s[1] /\ Len(s) \in Nat \ {0}
  BY DEF Chain, Take
<1>2. r \in Seq(Tasks) /\ Len(r) = Len(s) - 1 /\ \A i \in 1..Len(r) : r[i] = s[i + 1]
  BY <1>1
<1>3. /\ task'[w] = s[1] /\ \A x \in Threads : x # w => task'[x] = task[x]
      /\ task[w] = Null /\ pc'[w] = "run" /\ \A x \in Workers : x # w => pc'[x] = pc[x]
      /\ head' = next[s[1]] /\ tail' = (IF head' = Null THEN Null ELSE tail)
      /\ UNCHANGED <<next, freed, main>>
  BY <1>1 DEF Take, TypeOK, Apart
<1>4. next[s[1]] = IF Len(s) = 1 THEN Null ELSE s[2]
  <2>1. 1 \in 1..Len(s) /\ 1 + 1 = 2
    BY <1>1
  <2>2. next[s[1]] = IF 1 = Len(s) THEN Null ELSE s[1 + 1]
    BY <2>1 DEF Chain
  <2> QED BY <2>1, <2>2
<1>5. \A i \in 1..Len(s) : s[i] \in Tasks
  BY <1>1
<1> HIDE DEF r
<1>6. Chain(r)'
  <2>1. head' = IF r = <<>> THEN Null ELSE r[1]
    BY <1>1, <1>2, <1>3, <1>4
  <2>2. tail' = IF r = <<>> THEN Null ELSE r[Len(r)]
    BY <1>1, <1>2, <1>3, <1>4, <1>5 DEF Chain
  <2>3. \A i \in 1..Len(r) : next'[r[i]] = IF i = Len(r) THEN Null ELSE r[i + 1]
    BY <1>1, <1>2, <1>3 DEF Chain
  <2>4. \A i, j \in 1..Len(r) : r[i] = r[j] => i = j
    <3> SUFFICES ASSUME NEW i \in 1..Len(r), NEW j \in 1..Len(r), r[i] = r[j] PROVE i = j
      OBVIOUS
    <3>1. s[i + 1] = s[j + 1] /\ i + 1 \in 1..Len(s) /\ j + 1 \in 1..Len(s)
      BY <1>1, <1>2
    <3>2. i + 1 = j + 1
      BY <3>1 DEF Chain
    <3> QED BY <3>2
  <2> QED BY <1>2, <2>1, <2>2, <2>3, <2>4 DEF Chain
<1>7. Apart(r)'
  <2>1. \A x, y \in Threads : task'[x] = task'[y] /\ task'[x] # Null => x = y
    BY <1>1, <1>3 DEF Apart
  <2>2. \A x \in Threads : task'[x] \notin freed'
    BY <1>1, <1>3 DEF Apart
  <2>3. \A i \in 1..Len(r) : r[i] \notin freed' /\ \A x \in Threads : r[i] # task'[x]
    <3> SUFFICES ASSUME NEW i \in 1..Len(r)
                 PROVE  r[i] \notin freed' /\ \A x \in Threads : r[i] # task'[x]
      OBVIOUS
    <3>1. r[i] = s[i + 1] /\ i + 1 \in 1..Len(s) /\ i + 1 # 1
      BY <1>1, <1>2
    <3>2. s[i + 1] # s[1]
      BY <1>1, <3>1 DEF Chain
    <3> QED BY <1>3, <3>1, <3>2 DEF Apart
  <2>4. ASSUME NEW t \in Tasks \ freed', \A i \in 1..Len(r) : r[i] # t,
               \A x \in Workers : task'[x] # t
        PROVE  next'[t] = Null
    <3>1. \A i \in 1..Len(s) : s[i] # t
      <4> SUFFICES ASSUME NEW i \in 1..Len(s) PROVE s[i] # t
        OBVIOUS
      <4>1. CASE i = 1
        BY <1>3, <2>4, <4>1
      <4>2. CASE i # 1
        <5>1. i - 1 \in 1..Len(r) /\ r[i - 1] = s[i]
          BY <1>1, <1>2, <4>2
        <5> QED BY <2>4, <5>1
      <4> QED BY <4>1, <4>2
    <3>2. \A x \in Workers : task[x] # t
      BY <1>3, <2>4
    <3> QED BY <1>3, <2>4, <3>1, <3>2 DEF Apart
  <2>5. \A x \in Workers : task'[x] # Null => pc'[x] = "run"
    BY <1>3 DEF Apart
  <2>6. task'[Main] # Null => main' = "add"
    BY <1>3 DEF Apart
  <2> QED BY <2>1, <2>2, <2>3, <2>4, <2>5, <2>6 DEF Apart
<1> QED BY <1>1, <1>3, <1>6, <1>7 DEF r

\* The node that has run is freed.
LEMMA FinishList ==
    ASSUME TypeOK, NEW s, Chain(s), Apart(s), NEW w \in Workers, Finish(w)
    PROVE  Chain(s)' /\ Apart(s)'
<1> USE ThreadPoolAssumption DEF Threads
<1>1. /\ freed' = freed \cup {task[w]} /\ task[w] # Null
      /\ task'[w] = Null /\ \A x \in Threads : x # w => task'[x] = task[x]
      /\ \A x \in Workers : x # w => pc'[x] = pc[x]
      /\ UNCHANGED <<head, tail, next, main>> /\ freed \subseteq Tasks
  BY DEF Finish, TypeOK, list
<1>2. Chain(s)'
  BY <1>1 DEF Chain
<1>3. Apart(s)'
  <2>1. \A x \in Threads : task'[x] \notin freed'
    BY <1>1 DEF Apart
  <2>2. \A i \in 1..Len(s) : s[i] \notin freed' /\ \A x \in Threads : s[i] # task'[x]
    <3>1. \A i \in 1..Len(s) : s[i] \in Tasks
      BY DEF Chain
    <3> QED BY <1>1, <3>1 DEF Apart
  <2> QED BY <1>1, <2>1, <2>2 DEF Apart
<1> QED BY <1>2, <1>3

\* The main thread's node is linked behind the last.
LEMMA EnqueueList ==
    ASSUME TypeOK, NEW s, Chain(s), Apart(s), Enqueue, NEW r, r = Append(s, task[Main])
    PROVE  task[Main] \in Tasks /\ Chain(r)' /\ Apart(r)'
<1> USE ThreadPoolAssumption DEF Threads
<1> DEFINE t == task[Main]
           n == Len(s)
<1>1. s \in Seq(Tasks) /\ n \in Nat /\ \A i \in 1..n : s[i] \in Tasks
  BY DEF Chain
<1>2. t \in Tasks /\ t # Null
  BY DEF Enqueue, TypeOK, Pointer
<1>3. /\ r \in Seq(Tasks) /\ Len(r) = n + 1 /\ r[n + 1] = t /\ r # <<>>
      /\ \A i \in 1..n : r[i] = s[i]
  BY <1>1, <1>2
<1>4. /\ tail' = t /\ task'[Main] = Null /\ \A w \in Workers : task'[w] = task[w]
      /\ \A w \in Workers : pc[w] = "run" => pc'[w] = "run"
      /\ UNCHANGED freed
  BY DEF Enqueue, Link, Signal, Waiting, TypeOK
<1>5. t \notin freed /\ (\A i \in 1..n : s[i] # t) /\ \A w \in Workers : task[w] # t
  BY <1>2 DEF Apart
<1>6. next[t] = Null
  BY <1>2, <1>5 DEF Apart
<1>7. CASE s = <<>>
  <2>1. head' = t /\ next' = next /\ n = 0 /\ Len(r) = 1 /\ r[1] = t
    BY <1>1, <1>3, <1>7 DEF Chain, Enqueue, Link
  <2>2. Chain(r)'
    BY <1>3, <1>4, <1>6, <2>1 DEF Chain
  <2>3. \A i \in 1..Len(r) : r[i] \notin freed' /\ \A x \in Threads : r[i] # task'[x]
    BY <1>2, <1>4, <1>5, <2>1
  <2>4. ASSUME NEW x \in Tasks \ freed', \A i \in 1..Len(r) : r[i] # x,
               \A w \in Workers : task'[w] # x
        PROVE  next'[x] = Null
    BY <1>4, <1>7, <2>1, <2>4 DEF Apart
  <2>5. \A x, y \in Threads : task'[x] = task'[y] /\ task'[x] # Null => x = y
    BY <1>4 DEF Apart
  <2>6. \A x \in Threads : task'[x] \notin freed'
    BY <1>4 DEF Apart, TypeOK
  <2>7. \A w \in Workers : task'[w] # Null => pc'[w] = "run"
    BY <1>4 DEF Apart
  <2>8. Apart(r)'
    BY <1>4, <2>3, <2>4, <2>5, <2>6, <2>7 DEF Apart
  <2> QED BY <1>2, <2>2, <2>8
<1>8. CASE s # <<>>
  <2>1. n > 0 /\ tail = s[n] /\ head = s[1] /\ s[n] \in Tasks
    BY <1>1, <1>8 DEF Chain
  <2>2. head' = head /\ next' = [next EXCEPT ![s[n]] = t]
    BY <2>1 DEF Enqueue, Link
  <2>3. next'[s[n]] = t /\ \A x \in Tasks : x # s[n] => next'[x] = next[x]
    BY <2>1, <2>2 DEF TypeOK
  <2>4. \A i, j \in 1..Len(r) : r[i] = r[j] => i = j
    <3> SUFFICES ASSUME NEW i \in 1..Len(r), NEW j \in 1..Len(r), r[i] = r[j] PROVE i = j
      OBVIOUS
    <3>1. CASE i \in 1..n /\ j \in 1..n
      BY <1>3, <3>1 DEF Chain
    <3>2. CASE i = n + 1 \/ j = n + 1
      <4>1. i \in 1..n \/ i = n + 1
        BY <1>1, <1>3
      <4>2. j \in 1..n \/ j = n + 1
        BY <1>1, <1>3
      <4> QED BY <1>3, <1>5, <3>2, <4>1, <4>2
    <3> QED BY <1>1, <1>3, <3>1, <3>2
  <2>5. \A i \in 1..Len(r) : next'[r[i]] = IF i = Len(r) THEN Null ELSE r[i + 1]
    <3> SUFFICES ASSUME NEW i \in 1..(n + 1)
                 PROVE  next'[r[i]] = IF i = n + 1 THEN Null ELSE r[i + 1]
      BY <1>3
    <3>1. CASE i = n + 1
      BY <1>2, <1>3, <1>5, <1>6, <2>1, <2>3, <3>1
    <3>2. CASE i = n
      BY <1>1, <1>3, <2>1, <2>3, <3>2
    <3>3. CASE i \in 1..(n - 1)
      <4>1. i \in 1..n /\ i + 1 \in 1..n /\ i # n /\ n \in 1..n
        BY <1>1, <3>3
      <4>2. s[i] # s[n]
        BY <4>1 DEF Chain
      <4>3. next[s[i]] = s[i + 1]
        BY <4>1 DEF Chain
      <4>4. next'[s[i]] = s[i + 1]
        BY <1>1, <2>3, <4>1, <4>2, <4>3
      <4>5. r[i] = s[i] /\ r[i + 1] = s[i + 1] /\ i # n + 1
        BY <1>1, <1>3, <4>1
      <4> QED BY <4>4, <4>5
    <3> QED BY <1>1, <3>1, <3>2, <3>3
  <2>6. Chain(r)'
    <3>1. head' = r[1] /\ tail' = r[Len(r)]
      BY <1>1, <1>3, <1>4, <2>1, <2>2
    <3> QED BY <1>3, <2>4, <2>5, <3>1 DEF Chain
  <2>7. \A i \in 1..Len(r) : r[i] \notin freed' /\ \A x \in Threads : r[i] # task'[x]
    <3> SUFFICES ASSUME NEW i \in 1..(n + 1)
                 PROVE  r[i] \notin freed' /\ \A x \in Threads : r[i] # task'[x]
      BY <1>3
    <3>1. CASE i = n + 1
      BY <1>2, <1>3, <1>4, <1>5, <3>1
    <3>2. CASE i \in 1..n
      BY <1>1, <1>3, <1>4, <3>2 DEF Apart
    <3> QED BY <1>1, <3>1, <3>2
  <2>8. ASSUME NEW x \in Tasks \ freed', \A i \in 1..Len(r) : r[i] # x,
               \A w \in Workers : task'[w] # x
        PROVE  next'[x] = Null
    <3>1. \A i \in 1..n : s[i] # x
      BY <1>1, <1>3, <2>8
    <3>2. x # s[n] /\ \A w \in Workers : task[w] # x
      BY <1>4, <2>1, <2>8, <3>1
    <3>3. next[x] = Null
      BY <1>4, <2>8, <3>1, <3>2 DEF Apart
    <3> QED BY <2>3, <3>2, <3>3
  <2>9. Apart(r)'
    <3>1. \A x, y \in Threads : task'[x] = task'[y] /\ task'[x] # Null => x = y
      BY <1>4 DEF Apart
    <3>2. \A x \in Threads : task'[x] \notin freed'
      BY <1>4 DEF Apart, TypeOK
    <3>3. \A w \in Workers : task'[w] # Null => pc'[w] = "run"
      BY <1>4 DEF Apart
    <3> QED BY <1>4, <2>7, <2>8, <3>1, <3>2, <3>3 DEF Apart
  <2> QED BY <1>2, <2>6, <2>9
<1> QED BY <1>7, <1>8
\* The pool starts with an empty list.
LEMMA InitList == Init => Chain(<<>>) /\ Apart(<<>>)
BY ThreadPoolAssumption DEF Init, Chain, Apart, Threads

\* There is such a sequence at every moment, whatever the order in which the
\* threads take the mutex.
ListInv == \E s : Chain(s) /\ Apart(s)

\* What a step of the pool does to the list: it leaves it alone, links a node
\* behind its last, or takes its first.
LEMMA ListStep ==
    ASSUME TypeOK, [Next]_vars, NEW s, Chain(s), Apart(s)
    PROVE  \E r : Chain(r)' /\ Apart(r)'
<1> USE ThreadPoolAssumption
<1>1. CASE \E t \in Tasks : AddWork(t)
  BY <1>1, AddWorkList
<1>2. CASE \E w \in Workers : Take(w)
  BY <1>2, TakeList
<1>3. CASE \E w \in Workers : Finish(w)
  BY <1>3, FinishList
<1>4. CASE Enqueue
  BY <1>4, EnqueueList
<1>5. CASE \E w \in Workers : Lock(w) \/ Wait(w) \/ Exit(w)
                                \/ WakeSpuriously(w) \/ CreateThread(w)
  <2>1. PICK w \in Workers : Lock(w) \/ Wait(w) \/ Exit(w)
                              \/ WakeSpuriously(w) \/ CreateThread(w)
    BY <1>5
  <2>2. /\ UNCHANGED <<list, task, freed>> /\ (main = "add" => main' = main)
        /\ pc[w] # "run" /\ \A x \in Workers : x # w => pc'[x] = pc[x]
    BY <2>1 DEF Lock, Wait, Exit, WakeSpuriously, CreateThread, TypeOK
  <2>3. /\ \A x \in Workers : task[x] # Null => pc'[x] = pc[x]
        /\ task[Main] # Null => main' = main
    BY <2>2 DEF Apart
  <2> QED BY <2>2, <2>3, SameList
<1>6. CASE MainLock \/ Shutdown \/ Join \/ UNCHANGED vars
  <2>1. UNCHANGED <<list, task, freed, pc>> /\ (main = "add" => main' = main)
    BY <1>6 DEF MainLock, Shutdown, Join, vars
  <2>2. task[Main] # Null => main' = main
    BY <2>1 DEF Apart
  <2> QED BY <2>1, <2>2, SameList
<1>7. CASE Stop
  <2>1. /\ UNCHANGED <<list, task, freed>> /\ main # "add"
        /\ \A x \in Workers : pc[x] = "run" => pc'[x] = pc[x]
    BY <1>7 DEF Stop, Waiting
  <2>2. /\ \A x \in Workers : task[x] # Null => pc'[x] = pc[x]
        /\ task[Main] # Null => main' = main
    BY <2>1 DEF Apart
  <2> QED BY <2>1, <2>2, SameList
<1> QED
  BY <1>1, <1>2, <1>3, <1>4, <1>5, <1>6, <1>7 DEF Next, MainStep, WorkerStep, Exited

\* A list of this kind is what the property asks for.
LEMMA ChainSound == TypeOK /\ ListInv => ListSound
<1> SUFFICES ASSUME TypeOK, NEW s, Chain(s), Apart(s) PROVE ListSound
  BY DEF ListInv
<1> USE ThreadPoolAssumption DEF Threads
<1>1. Listed = s /\ s \in Seq(Tasks) /\ Len(s) \in Nat /\ DOMAIN s = 1..Len(s)
  BY ListedIs DEF Chain
<1>2. s # <<>> => /\ 1 \in 1..Len(s) /\ Len(s) \in 1..Len(s)
                  /\ s[1] \in Tasks /\ s[Len(s)] \in Tasks
  BY <1>1
<1>3. head = Null <=> tail = Null
  BY <1>1, <1>2 DEF Chain
<1>4. s # <<>> => tail = Last(s) /\ next[tail] = Null
  BY <1>1, <1>2 DEF Chain, Last
<1>5. ToSet(s) \cap ({task[w] : w \in Held} \cup freed) = {}
  BY <1>1 DEF Apart, ToSet, Held
<1>6. {task[w] : w \in Held} \cap freed = {}
  BY DEF Apart, Held
<1>7. \A w, x \in Held : task[w] = task[x] => w = x
  BY DEF Apart, Held
<1> QED BY <1>1, <1>3, <1>4, <1>5, <1>6, <1>7 DEF ListSound

\* The list is one of this kind after any number of steps.
THEOREM ListInductive == Spec => []ListInv
<1>1. Init => ListInv
  BY InitList DEF ListInv
<1>2. TypeOK /\ ListInv /\ [Next]_vars => ListInv'
  <2> SUFFICES ASSUME TypeOK, ListInv, [Next]_vars PROVE ListInv'
    OBVIOUS
  <2>1. PICK s : Chain(s) /\ Apart(s)
    BY DEF ListInv
  <2>2. \E r : Chain(r)' /\ Apart(r)'
    BY <2>1, ListStep
  <2> QED BY <2>2 DEF ListInv
<1> QED BY <1>1, <1>2, TypeCorrect, PTL DEF Spec

\* The list is intact, whatever the threads do with it one after the other: a
\* task is run once and freed once, and none is lost with the node before it.
THEOREM ListSoundHolds == Spec => []ListSound
BY ListInductive, TypeCorrect, ChainSound, PTL
-----------------------------------------------------------------------------
(***************************************************************************)
(* The queue of tasks that the pool implements: every step of a thread is a  *)
(* step of the queue or none.                                               *)
(***************************************************************************)
\* The pool starts as an empty queue that is open.
LEMMA InitPromised == Init => Promised!Init
<1> SUFFICES ASSUME Init PROVE Promised!Init
  OBVIOUS
<1>1. Listed = <<>>
  BY InitList, ListedIs
<1>2. {task[w] : w \in Held} = {}
  BY DEF Init, Held, Threads
<1>3. freed = {} /\ (main # "exited") = TRUE
  BY DEF Init
<1> QED BY <1>1, <1>2, <1>3 DEF Promised!Init

\* A step that neither links, takes nor finishes a task, nor ends the shutdown,
\* is none of the queue.
LEMMA QuietStep ==
    ASSUME NEW s, Chain(s), (\A r : Chain(r) => Listed = r)', UNCHANGED <<list, freed>>,
           \A w \in Workers : task'[w] = task[w], main # "exited" <=> main' # "exited"
    PROVE  UNCHANGED Promised!vars
<1>1. Listed = s /\ Listed' = s
  BY ListedIs DEF Chain, list
<1>2. {task[w] : w \in Held}' = {task[w] : w \in Held}
  BY DEF Held
<1>3. freed' = freed /\ (main # "exited")' = (main # "exited")
  OBVIOUS
<1> QED BY <1>1, <1>2, <1>3 DEF Promised!vars

\* Each action of the pool is one of the queue: linking a node submits its task,
\* taking it begins the task, freeing it ends it, and the last join closes.
LEMMA PromisedStep ==
    ASSUME IInv, ListInv, (\A r : Chain(r) => Listed = r)', [Next]_vars
    PROVE  [Promised!Next]_(Promised!vars)
<1> USE ThreadPoolAssumption DEF Threads
<1>1. PICK s : Chain(s) /\ Apart(s)
  BY DEF ListInv
<1>2. Listed = s /\ s \in Seq(Tasks) /\ TypeOK /\ Len(s) \in Nat /\ DOMAIN s = 1..Len(s)
  BY <1>1, ListedIs DEF Chain, IInv
<1>3. ASSUME NEW w \in Workers, Take(w) PROVE Promised!Begin
  <2>1. s # <<>> /\ task'[w] = s[1] /\ Chain(Tail(s))'
    BY <1>1, <1>2, <1>3, TakeList
  <2>2. Listed' = Tail(s)
    BY <2>1
  <2>3. task[w] = Null /\ s[1] # Null /\ \A x \in Workers : x # w => task'[x] = task[x]
    BY <1>1, <1>2, <1>3, <2>1 DEF Apart, Take, TypeOK
  <2>4. {task[x] : x \in Held}' = {task[x] : x \in Held} \cup {s[1]}
    BY <2>1, <2>3 DEF Held
  <2>5. freed' = freed /\ (main # "exited")' = (main # "exited")
    BY <1>3 DEF Take
  <2>6. Listed # <<>> /\ Head(Listed) = s[1] /\ Listed' = Tail(Listed)
    BY <1>2, <2>1, <2>2
  <2> HIDE DEF Listed
  <2> QED BY <2>4, <2>5, <2>6 DEF Promised!Begin
<1>4. ASSUME NEW w \in Workers, Finish(w) PROVE \E t \in Tasks : Promised!Finish(t)
  <2>1. task[w] \in Tasks /\ w \in Held
    BY <1>2, <1>4 DEF Finish, TypeOK, Held, Pointer
  <2>2. task'[w] = Null /\ \A x \in Workers : x # w => task'[x] = task[x] /\ task[x] # task[w]
    BY <1>1, <1>2, <1>4, <2>1 DEF Finish, TypeOK, Apart
  <2>3. {task[x] : x \in Held}' = {task[x] : x \in Held} \ {task[w]}
    BY <2>1, <2>2 DEF Held
  <2>4. Chain(s)'
    BY <1>1, <1>2, <1>4, FinishList
  <2>5. Listed' = Listed /\ freed' = freed \cup {task[w]} /\ (main # "exited")' = (main # "exited")
    BY <1>2, <1>4, <2>4 DEF Finish
  <2>6. PICK t \in Tasks : t = task[w]
    BY <2>1
  <2>7. Promised!Finish(t)
    <3>1. t \in {task[x] : x \in Held}
      BY <2>1, <2>6
    <3> QED BY <2>3, <2>5, <2>6, <3>1 DEF Promised!Finish
  <2> QED BY <2>7
<1>5. ASSUME Enqueue PROVE \E t \in Tasks : Promised!Submit(t)
  <2>1. PICK r : r = Append(s, task[Main])
    OBVIOUS
  <2>2. task[Main] \in Tasks /\ Chain(r)'
    BY <1>1, <1>2, <1>5, <2>1, EnqueueList
  <2>3. Listed' = Append(Listed, task[Main])
    BY <1>2, <2>1, <2>2
  <2>4. /\ \A w \in Workers : task'[w] = task[w]
        /\ freed' = freed /\ (main # "exited") = TRUE /\ (main # "exited")' = TRUE
    BY <1>2, <1>5 DEF Enqueue, Link, TypeOK
  <2>5. {task[x] : x \in Held}' = {task[x] : x \in Held}
    BY <2>4 DEF Held
  <2>6. task[Main] \notin ToSet(Listed) \cup {task[x] : x \in Held} \cup freed
    BY <1>1, <1>2, <2>2 DEF Apart, ToSet, Held
  <2>7. Promised!Submit(task[Main])
    BY <2>3, <2>4, <2>5, <2>6 DEF Promised!Submit, Promised!ToSet, ToSet
  <2> QED BY <2>2, <2>7
<1>6. ASSUME Join PROVE Promised!Close
  <2>1. \A w \in Workers : pc[w] = "done"
    BY <1>6 DEF Join
  <2>2. head = Null
    BY <2>1 DEF IInv, AwakeWhenNeeded
  <2>3. s = <<>>
    <3>1. s # <<>> => s[1] \in Tasks
      BY <1>2
    <3> QED BY <1>1, <2>2, <3>1 DEF Chain
  <2>4. {task[x] : x \in Held} = {}
    BY <1>1, <2>1 DEF Apart, Held
  <2>5. Listed' = s
    <3>1. Chain(s)'
      BY <1>1, <1>6 DEF Join, Chain, list
    <3> QED BY <3>1
  <2>6. {task[x] : x \in Held}' = {task[x] : x \in Held} /\ freed' = freed
    BY <1>6 DEF Join, Held
  <2>7. (main # "exited") = TRUE /\ (main # "exited")' = FALSE
    BY <1>6 DEF Join
  <2> QED BY <1>2, <2>3, <2>4, <2>5, <2>6, <2>7 DEF Promised!Close
<1>7. ASSUME Next, \A w \in Workers : ~ Take(w) /\ ~ Finish(w), ~ Enqueue, ~ Join
      PROVE  UNCHANGED Promised!vars
  <2>1. /\ UNCHANGED <<list, freed>> /\ (main # "exited" <=> main' # "exited")
        /\ \A w \in Workers : task'[w] = task[w]
    BY <1>2, <1>7
    DEF Next, MainStep, WorkerStep, Exited, vars, TypeOK, Lock, Wait, Exit, WakeSpuriously,
        CreateThread, AddWork, Shutdown, MainLock, Stop
  <2> QED BY <1>1, <2>1, QuietStep
<1>8. CASE UNCHANGED vars
  <2>1. /\ UNCHANGED <<list, freed>> /\ (main # "exited" <=> main' # "exited")
        /\ \A w \in Workers : task'[w] = task[w]
    BY <1>8 DEF vars
  <2> QED BY <1>1, <2>1, QuietStep
<1> QED BY <1>3, <1>4, <1>5, <1>6, <1>7, <1>8 DEF Promised!Next

\* The pool implements the queue: tasks are begun in the order in which they were
\* submitted, each is run once, and tpool_shutdown returns only when all have
\* been, however the threads interleave.
THEOREM ImplementsSafely == Spec => Promised!Init /\ [][Promised!Next]_(Promised!vars)
<1>1. \A r : Chain(r) => Listed = r
  BY ListedIs
<1>2. (\A r : Chain(r) => Listed = r)'
  BY <1>1, PTL
<1>3. IInv /\ ListInv /\ [Next]_vars => [Promised!Next]_(Promised!vars)
  BY <1>2, PromisedStep
<1> QED BY <1>3, InitPromised, Inductive, ListInductive, PTL DEF Spec
=============================================================================
