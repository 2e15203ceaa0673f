------------------------ MODULE QueryProcessorProofs ------------------------
(***************************************************************************)
(* Proofs about QueryProcessor: for all clients, all lines they may send     *)
(* and any number of faults, an answer is true; for as many databases and    *)
(* tables as there may be, names are unique, the index of the active         *)
(* database is within the array, and a statement is local; and whatever      *)
(* lines and replies come, results keep rows as wide as their headers.       *)
(***************************************************************************)
EXTENDS QueryProcessor, RecursionTheorems, FiniteSetTheorems, SequenceTheorems, TLAPS

Statements ==
    {"SELECT", "INSERT", "DELETE", "UPDATE", "CREATE_DB", "CREATE_TABLE", "USE", "LIST",
     "DROP", "CLEAR", "HELP"}

\* What a statement that is refused does not do, and one the store refuses did not.
Sound(r, s) ==
    /\ {"schema", "cmd", "error", "rows"} \subseteq DOMAIN r
    /\ r.error => r.schema = s
    /\ r.schema # s => ~Malformed(r.cmd)

\* The request is not answered yet, or it is.
Asked ==
    /\ reply = Null /\ effect \subseteq {"schema"}
    /\ Malformed(result.cmd) => effect = {}
    /\ \A r \in requests : r.mine => r.cmd = result.cmd
Told ==
    /\ \A r \in requests : ~r.mine
    /\ reply.kind = "-" => Malformed(result.cmd)
    /\ Malformed(result.cmd) => reply.kind \in {"-", "closed"} /\ effect = {}

Phases ==
    /\ pc \in {"accept", "read", "down"} => effect = {} /\ fate = "none"
    /\ pc = "connect" => /\ fate = "none" /\ ~result.error /\ effect \subseteq {"schema"}
                         /\ Malformed(result.cmd) => effect = {}
    /\ pc = "wait" => ~result.error /\ fate = "none" /\ (Asked \/ Told)
    /\ pc # "wait" /\ pc # "answer" => reply = Null
    /\ pc # "wait" => \A r \in requests : ~r.mine

IInv ==
    /\ pc \in {"accept", "read", "connect", "wait", "answer", "down"}
    /\ {"cmd", "error", "rows"} \subseteq DOMAIN result
    /\ \A r \in requests : r = [cmd |-> r.cmd, mine |-> r.mine] /\ r.mine \in BOOLEAN
    /\ Phases /\ AnswerIsTrue
-----------------------------------------------------------------------------
\* parse_query sets an error or finds one of the statements.
LEMMA ParseTypes ==
    ASSUME NEW ts
    PROVE  Parse(ts).error \/ Parse(ts).type \in Statements
<1>1. Failed.error
  BY DEF Failed, NoQuery
<1>2. Select(ts).error \/ Select(ts).type \in Statements
  BY <1>1 DEF Select, NoQuery, Statements
<1>3. Insert(ts).error \/ Insert(ts).type \in Statements
  BY <1>1 DEF Insert, NoQuery, Statements
<1>4. Update(ts).type \in Statements /\ Delete(ts).type \in Statements
  BY DEF Update, Delete, NoQuery, Statements
<1>5. Create(ts).error \/ Create(ts).type \in Statements
  BY <1>1 DEF Create, NoQuery, Statements
<1>6. /\ Use(ts).error \/ Use(ts).type \in Statements
      /\ List(ts).error \/ List(ts).type \in Statements
      /\ Drop(ts).error \/ Drop(ts).type \in Statements
  BY <1>1 DEF Use, List, Drop, NoQuery, Statements
<1>7. /\ [NoQuery EXCEPT !.type = "CLEAR"].type \in Statements
      /\ [NoQuery EXCEPT !.type = "HELP"].type \in Statements
  BY DEF NoQuery, Statements
<1> QED BY <1>1, <1>2, <1>3, <1>4, <1>5, <1>6, <1>7 DEF Parse

\* The commands that go with a change of the catalogue are well-formed.
LEMMA WellFormed ==
    ASSUME NEW k, NEW f, NEW v
    PROVE  ~Malformed(<< <<"HSET">>, k, f, v >>) /\ ~Malformed(Ping)
BY DEF Malformed, Is, Ping

\* A refusal changes nothing.
LEMMA RefusedSound == ASSUME NEW s PROVE Sound(Refused(s), s)
BY DEF Sound, Refused, Result

\* Nor does an answer with the catalogue as it was.
LEMMA SameSound == ASSUME NEW s, NEW c, NEW h, NEW w PROVE Sound(Result(s, c, h, w), s)
BY DEF Sound, Result

\* A change of the catalogue goes with a command that is well-formed.
LEMMA ChangedSound ==
    ASSUME NEW s, NEW t, NEW c, NEW h, NEW w, ~Malformed(c)
    PROVE  Sound(Result(t, c, h, w), s)
BY DEF Sound, Result

\* Both hold of whatever a statement is translated to.
LEMMA TranslateSound ==
    ASSUME NEW q, NEW s, q.error \/ q.type \in Statements
    PROVE  Sound(Translate(q, s), s)
<1>1. Sound(Refused(s), s)
  BY RefusedSound
<1>2. Sound(SelectRows(q, s), s)
  BY <1>1, SameSound DEF SelectRows
<1>3. Sound(InsertValues(q, s), s)
  <2>1. Sound(InsertRow(q, s), s)
    BY <1>1, SameSound DEF InsertRow, Status
  <2> QED BY <1>1, <2>1, SameSound DEF InsertValues, Status
<1>4. Sound(DeleteRow(q, s), s) /\ Sound(UpdateRow(q, s), s)
  BY <1>1, SameSound DEF DeleteRow, UpdateRow, Status
<1>5. Sound(CreateDb(q, s), s)
  BY <1>1, ChangedSound, WellFormed DEF CreateDb, Status
<1>6. Sound(CreateTbl(q, s), s)
  BY <1>1, ChangedSound, WellFormed DEF CreateTbl, Status
<1>7. Sound(UseDb(q, s), s)
  BY <1>1, ChangedSound, WellFormed DEF UseDb, Status
<1>8. Sound(ListNames(q, s), s)
  BY <1>1, SameSound DEF ListNames, Listing
<1>9. Sound(DropNamed(q, s), s)
  BY <1>1, ChangedSound, WellFormed DEF DropNamed, Status
<1>10. /\ Sound(Result(s, <<>>, <<"Action">>, << << <<"CLEAR_SCREEN">> >> >>), s)
       /\ Sound(Result(s, <<>>, <<"Command", "Description">>, <<>>), s)
  BY SameSound
<1> QED BY <1>1, <1>2, <1>3, <1>4, <1>5, <1>6, <1>7, <1>8, <1>9, <1>10 DEF Translate, Statements
-----------------------------------------------------------------------------
\* A step that leaves alone what the invariant is about.
LEMMA Unrelated ==
    ASSUME IInv, UNCHANGED <<pc, result, requests, reply, fate, effect>>
    PROVE  IInv'
BY DEF IInv, Phases, AnswerIsTrue, Asked, Told

\* Before the first line nothing is under way.
LEMMA InitIInv == Init => IInv
<1> SUFFICES ASSUME Init PROVE IInv
  OBVIOUS
<1>1. {"cmd", "error", "rows"} \subseteq DOMAIN NoResult
  BY DEF NoResult, Refused, Result
<1> QED BY <1>1 DEF Init, IInv, Phases, AnswerIsTrue

\* The end of a connection, or of the front end: nothing is under way.
LEMMA NothingUnderWay ==
    ASSUME IInv, pc' \in {"accept", "down"}, result' = NoResult, reply' = Null,
           fate' = "none", effect' = {},
           \A r \in requests' :
               r = [cmd |-> r.cmd, mine |-> r.mine] /\ r.mine \in BOOLEAN /\ ~r.mine
    PROVE  IInv'
<1>1. {"cmd", "error", "rows"} \subseteq DOMAIN result'
  BY DEF NoResult, Refused, Result
<1> QED BY <1>1 DEF IInv, Phases, AnswerIsTrue

\* A connection that ends, after its answer or without a line.
LEMMA FinishStep == ASSUME IInv, Finish, pc \in {"read", "answer"}, requests' = requests PROVE IInv'
<1>1. \A r \in requests :
          r = [cmd |-> r.cmd, mine |-> r.mine] /\ r.mine \in BOOLEAN /\ ~r.mine
  BY DEF IInv, Phases
<1>2. pc' \in {"accept", "down"}
  BY DEF Finish
<1> QED BY <1>1, <1>2, NothingUnderWay DEF Finish

\* The front end is killed: its requests are nobody's.
LEMMA CrashStep == ASSUME IInv, Crash PROVE IInv'
<1>1. ASSUME NEW x \in requests'
      PROVE  x = [cmd |-> x.cmd, mine |-> x.mine] /\ x.mine \in BOOLEAN /\ ~x.mine
  <2>1. PICK r \in requests : x = [r EXCEPT !.mine = FALSE]
    BY <1>1 DEF Crash
  <2>2. r = [cmd |-> r.cmd, mine |-> r.mine]
    BY DEF IInv
  <2>3. x = [cmd |-> r.cmd, mine |-> FALSE]
    BY <2>1, <2>2
  <2> QED BY <2>3
<1> QED BY <1>1, NothingUnderWay DEF Crash

\* A line becomes an answer or a command that waits to be sent.
LEMMA ProcessStep ==
    ASSUME IInv, pc = "read", NEW ts, Process(ts), requests' = requests
    PROVE  IInv'
<1>1. /\ result' = Translate(query', schema) /\ schema' = result'.schema
      /\ query'.error \/ query'.type \in Statements
  BY ParseTypes DEF Process
<1>2. Sound(result', schema)
  BY <1>1, TranslateSound
<1>3. /\ pc' = IF result'.error \/ result'.cmd = <<>> THEN "answer" ELSE "connect"
      /\ effect' = IF schema' # schema THEN {"schema"} ELSE {}
      /\ reply' = Null /\ fate' = "none" /\ \A r \in requests : ~r.mine
  BY DEF Process, IInv, Phases
<1>4. /\ result'.error => effect' = {}
      /\ Malformed(result'.cmd) => effect' = {}
      /\ effect' \subseteq {"schema"}
  BY <1>1, <1>2, <1>3 DEF Sound
<1>5. {"cmd", "error", "rows"} \subseteq DOMAIN result'
  BY <1>2 DEF Sound
<1>6. Phases'
  BY <1>3, <1>4 DEF Phases
<1>7. AnswerIsTrue'
  BY <1>3, <1>4 DEF AnswerIsTrue
<1> QED BY <1>3, <1>5, <1>6, <1>7 DEF IInv

\* One line is read, whole or cut.
LEMMA ReadStep == ASSUME IInv, NEW line, Read(line) PROVE IInv'
<1>1. PICK n : IF n = 0 THEN Finish ELSE Process(SubSeq(line, 1, n))
  BY DEF Read
<1>2. pc = "read" /\ requests' = requests
  BY DEF Read
<1> QED BY <1>1, <1>2, FinishStep, ProcessStep

\* The command is sent, or there is no store.
LEMMA SendStep == ASSUME IInv, Send PROVE IInv'
<1>1. /\ pc = "connect" /\ fate = "none" /\ ~result.error /\ effect \subseteq {"schema"}
      /\ Malformed(result.cmd) => effect = {}
      /\ reply = Null /\ \A r \in requests : ~r.mine
  BY DEF Send, IInv, Phases
<1>2. effect' = effect /\ reply' = reply
  BY DEF Send
<1>3. CASE up
  <2> DEFINE r0 == [cmd |-> result.cmd, mine |-> TRUE]
  <2>1. pc' = "wait" /\ requests' = requests \cup {r0} /\ result' = result /\ fate' = fate
    BY <1>3 DEF Send
  <2>2. r0.cmd = result.cmd /\ r0.mine = TRUE
    OBVIOUS
  <2>3. Asked'
    BY <1>1, <1>2, <2>1, <2>2 DEF Asked
  <2>4. Phases' /\ AnswerIsTrue'
    BY <1>1, <2>1, <2>3 DEF Phases, AnswerIsTrue
  <2>5. r0 = [cmd |-> r0.cmd, mine |-> r0.mine] /\ r0.mine \in BOOLEAN
    OBVIOUS
  <2>6. {"cmd", "error", "rows"} \subseteq DOMAIN result'
    BY <2>1 DEF IInv
  <2>7. \A r \in requests' : r = [cmd |-> r.cmd, mine |-> r.mine] /\ r.mine \in BOOLEAN
    <3> HIDE DEF r0
    <3> QED BY <2>1, <2>5 DEF IInv
  <2> QED BY <2>1, <2>4, <2>6, <2>7 DEF IInv
<1>4. CASE ~up
  <2>1. /\ pc' = "answer" /\ result' = [result EXCEPT !.error = TRUE]
        /\ fate' = "unreachable" /\ requests' = requests
    BY <1>4 DEF Send
  <2>2. {"cmd", "error", "rows"} \subseteq DOMAIN result'
    BY <2>1 DEF IInv
  <2>3. AnswerIsTrue'
    BY <1>1, <1>2, <2>1 DEF AnswerIsTrue
  <2>4. Phases'
    BY <1>1, <2>1 DEF Phases
  <2> QED BY <2>1, <2>2, <2>3, <2>4 DEF IInv
<1> QED BY <1>3, <1>4

\* What the front ends make of a reply changes neither the command nor, but for "-",
\* the error.
LEMMA ShownKeeps ==
    ASSUME NEW res, NEW r, {"cmd", "error", "rows"} \subseteq DOMAIN res
    PROVE  /\ DOMAIN Shown(res, r) = DOMAIN res
           /\ Shown(res, r).cmd = res.cmd
           /\ r.kind = "-" => Shown(res, r).error
           /\ r.kind # "-" => Shown(res, r).error = res.error
<1>1. CASE r.kind = "*"
  <2> DEFINE new == Rows(res, r.rows)
  <2>1. Shown(res, r) = [res EXCEPT !.rows = new]
    BY <1>1 DEF Shown
  <2> HIDE DEF new
  <2> QED BY <1>1, <2>1
<1>2. CASE r.kind = "+"
  <2>1. \/ Shown(res, r) = res
        \/ \E v : Shown(res, r) = [res EXCEPT !.rows[1][1] = v]
    BY <1>2 DEF Shown
  <2>2. ASSUME NEW v, Shown(res, r) = [res EXCEPT !.rows[1][1] = v]
        PROVE  /\ DOMAIN Shown(res, r) = DOMAIN res
               /\ Shown(res, r).cmd = res.cmd
               /\ Shown(res, r).error = res.error
    BY <2>2
  <2> QED BY <1>2, <2>1, <2>2
<1>3. CASE r.kind = "-"
  BY <1>3 DEF Shown
<1>4. CASE r.kind \notin {"*", "+", "-"}
  BY <1>4 DEF Shown
<1> QED BY <1>1, <1>2, <1>3, <1>4

\* PING needs no argument.
LEMMA PingWellFormed == ASSUME NEW cmd, Is(cmd, "PING") PROVE ~Malformed(cmd)
BY DEF Is, Malformed

\* The reply is taken over: only then the statement is answered.
LEMMA ReceiveStep == ASSUME IInv, Receive PROVE IInv'
<1> DEFINE res == IF console THEN ShownByConsole(result, reply) ELSE Shown(result, reply)
<1>1. /\ pc = "wait" /\ reply # Null /\ pc' = "answer"
      /\ UNCHANGED <<requests, reply, effect>>
      /\ \/ result' = res /\ fate' = IF reply.kind = "closed" THEN "severed" ELSE "replied"
         \/ result' \in CutShort(res) /\ fate' = "cut"
  BY DEF Receive
<1>2. Told /\ ~result.error /\ {"cmd", "error", "rows"} \subseteq DOMAIN result
  BY <1>1 DEF IInv, Phases, Asked
<1>3. /\ DOMAIN res = DOMAIN result /\ res.cmd = result.cmd
      /\ reply.kind = "-" => res.error
      /\ reply.kind # "-" => res.error = result.error
  <2>1. CASE console /\ Is(result.cmd, "PING")
    BY <1>2, <2>1, PingWellFormed DEF ShownByConsole, Told
  <2>2. CASE ~ (console /\ Is(result.cmd, "PING"))
    <3>1. res = Shown(result, reply)
      BY <2>2 DEF ShownByConsole
    <3> HIDE DEF res
    <3> QED BY <1>2, <3>1, ShownKeeps
  <2> QED BY <2>1, <2>2
<1> HIDE DEF res
<1>4. /\ {"cmd", "error", "rows"} \subseteq DOMAIN result' /\ result'.cmd = result.cmd
      /\ result'.error = res.error
  <2>1. CASE result' = res
    BY <1>2, <1>3, <2>1
  <2>2. CASE result' \in CutShort(res)
    <3>1. PICK v : result' = [res EXCEPT !.rows = v]
      BY <2>2 DEF CutShort
    <3> QED BY <1>2, <1>3, <3>1
  <2> QED BY <1>1, <2>1, <2>2
<1>5. AnswerIsTrue'
  <2>1. result'.error => effect = {}
    BY <1>2, <1>3, <1>4 DEF Told
  <2>2. fate' = "replied" /\ Malformed(result.cmd) => result'.error
    BY <1>1, <1>2, <1>3, <1>4 DEF Told
  <2> QED BY <1>1, <1>2, <1>4, <2>1, <2>2 DEF AnswerIsTrue, Told
<1>6. Phases'
  BY <1>1, <1>2 DEF Phases, Told
<1> QED BY <1>1, <1>4, <1>5, <1>6 DEF IInv

\* The answer ends the connection.
LEMMA AnswerStep == ASSUME IInv, Answer PROVE IInv'
BY FinishStep DEF Answer
-----------------------------------------------------------------------------
\* What the store does with a request.
LEMMA ReplyKind ==
    ASSUME NEW db, NEW cmd
    PROVE  /\ Reply(db, cmd).kind = "-" => Malformed(cmd)
           /\ Malformed(cmd) => Reply(db, cmd).kind = "-" /\ Apply(db, cmd) = db
BY DEF Reply, Apply

\* The store executes a request, of this statement or of a dead front end.
LEMMA ExecuteStep == ASSUME IInv, NEW r \in requests, Execute(r) PROVE IInv'
<1>1. /\ requests' = requests \ {r} /\ UNCHANGED <<pc, result, fate>>
      /\ mem' = Apply(mem, r.cmd)
      /\ reply' = IF r.mine THEN Reply(mem, r.cmd) ELSE reply
      /\ effect' = IF r.mine /\ mem' # mem THEN effect \cup {"store"} ELSE effect
  BY DEF Execute, front
<1>2. /\ {"cmd", "error", "rows"} \subseteq DOMAIN result'
      /\ \A x \in requests' : x = [cmd |-> x.cmd, mine |-> x.mine] /\ x.mine \in BOOLEAN
  BY <1>1 DEF IInv
<1>3. CASE ~r.mine
  <2>1. reply' = reply /\ effect' = effect /\ requests' \subseteq requests
    BY <1>1, <1>3
  <2>2. (Asked => Asked') /\ (Told => Told')
    BY <1>1, <2>1 DEF Asked, Told
  <2>3. Phases' /\ AnswerIsTrue'
    BY <1>1, <2>1, <2>2 DEF IInv, Phases, AnswerIsTrue
  <2> QED BY <1>1, <1>2, <2>3 DEF IInv
<1>4. CASE r.mine
  <2>1. pc = "wait" /\ ~result.error /\ fate = "none" /\ Asked /\ r.cmd = result.cmd
    BY <1>4 DEF IInv, Phases, AnswerIsTrue, Asked, Told
  <2>2. \A x \in requests' : ~x.mine
    <3> SUFFICES ASSUME NEW x \in requests, x.mine PROVE x = r
      BY <1>1
    <3>1. x.cmd = r.cmd /\ x.mine = TRUE /\ r.mine = TRUE
      BY <1>4, <2>1 DEF Asked, IInv
    <3> QED BY <3>1 DEF IInv
  <2>3. Told'
    <3>1. reply' = Reply(mem, result.cmd)
      BY <1>1, <1>4, <2>1
    <3>2. Malformed(result.cmd) => effect' = {}
      BY <1>1, <2>1, ReplyKind DEF Asked
    <3> QED BY <1>1, <2>2, <3>1, <3>2, ReplyKind DEF Told
  <2>4. Phases' /\ AnswerIsTrue'
    BY <1>1, <2>1, <2>3 DEF Phases, AnswerIsTrue
  <2> QED BY <1>1, <1>2, <2>4 DEF IInv
<1> QED BY <1>3, <1>4

\* The store is killed, and with it every request.
LEMMA KillStep == ASSUME IInv, Kill PROVE IInv'
<1>1. /\ requests' = {} /\ UNCHANGED <<pc, result, fate, effect>>
      /\ reply' = IF \E r \in requests : r.mine THEN Closed ELSE reply
  BY DEF Kill, front, history
<1>2. CASE \E r \in requests : r.mine
  <2>1. /\ pc = "wait" /\ ~result.error /\ fate = "none" /\ Asked
    BY <1>2 DEF IInv, Phases, AnswerIsTrue, Told
  <2>2. Told'
    BY <1>1, <1>2, <2>1 DEF Told, Asked, Closed
  <2>3. Phases' /\ AnswerIsTrue'
    BY <1>1, <2>1, <2>2 DEF Phases, AnswerIsTrue
  <2> QED BY <1>1, <2>3 DEF IInv
<1>3. CASE ~ \E r \in requests : r.mine
  <2>1. reply' = reply
    BY <1>1, <1>3
  <2>2. (Asked => Asked') /\ (Told => Told')
    BY <1>1, <2>1 DEF Asked, Told
  <2>3. Phases' /\ AnswerIsTrue'
    BY <1>1, <2>1, <2>2 DEF IInv, Phases, AnswerIsTrue
  <2> QED BY <1>1, <2>3 DEF IInv
<1> QED BY <1>2, <1>3
-----------------------------------------------------------------------------
\* Every step keeps the invariant.
LEMMA NextIInv == IInv /\ [Next]_vars => IInv'
<1> SUFFICES ASSUME IInv, [Next]_vars PROVE IInv'
  OBVIOUS
<1> DEFINE Same == UNCHANGED <<pc, result, requests, reply, fate, effect>>
<1>1. ASSUME FrontEnd PROVE IInv'
  <2>1. CASE Accept
    <3>1. pc' = "read" /\ pc = "accept" /\ UNCHANGED <<result, requests, reply, fate, effect>>
      BY <2>1 DEF Accept, history
    <3> QED BY <3>1 DEF IInv, Phases, AnswerIsTrue
  <2> QED BY <1>1, <2>1, ReadStep, SendStep, ReceiveStep, AnswerStep DEF FrontEnd
<1>2. CASE Crash
  BY <1>2, CrashStep
<1>3. CASE Start
  <2>1. pc' = "accept" /\ pc = "down" /\ UNCHANGED <<result, requests, reply, fate, effect>>
    BY <1>3 DEF Start, history
  <2> QED BY <2>1 DEF IInv, Phases, AnswerIsTrue
<1>4. ASSUME Store PROVE IInv'
  <2>1. CASE Log
    <3>1. Same
      BY <2>1 DEF Log, front, history
    <3> QED BY <3>1, Unrelated
  <2> QED BY <1>4, <2>1, ExecuteStep DEF Store
<1>5. CASE Kill
  BY <1>5, KillStep
<1>6. CASE Restart \/ Idle \/ UNCHANGED vars
  <2>1. Same
    BY <1>6 DEF Restart, Idle, vars, front, history
  <2> QED BY <2>1, Unrelated
<1>7. ASSUME NEW c, Connect(c) \/ SendLine(c) \/ HangUp(c) \/ GiveUp(c) PROVE IInv'
  <2>1. Same
    BY <1>7 DEF Connect, SendLine, HangUp, GiveUp, Leaves, front, history
  <2> QED BY <2>1, Unrelated
<1> QED BY <1>1, <1>2, <1>3, <1>4, <1>5, <1>6, <1>7 DEF Next

\* For all clients, lines and faults: an error is told only when nothing changed but,
\* perhaps, the catalogue of a front end that could not reach the store; the store's
\* refusal is told; and the command is over when the answer goes out.
THEOREM AnswersAreTrue == Spec => []AnswerIsTrue
<1>1. IInv => AnswerIsTrue
  BY DEF IInv
<1> QED BY <1>1, InitIInv, NextIInv, PTL DEF Spec
-----------------------------------------------------------------------------
(***************************************************************************)
(* The catalogue                                                            *)
(***************************************************************************)
IsSeq(seq) == Len(seq) \in Nat /\ seq = [i \in 1..Len(seq) |-> seq[i]]

\* Databases and tables have one name each, and a table its columns.
TablesOK(seq) == IsSeq(seq) /\ Distinct(seq) /\ \A i \in DOMAIN seq : IsSeq(seq[i].cols)
DatabasesOK(seq) ==
    /\ IsSeq(seq) /\ Distinct(seq)
    /\ \A i \in DOMAIN seq : {"name", "tables"} \subseteq DOMAIN seq[i] /\ TablesOK(seq[i].tables)
CatalogueOK(s) ==
    /\ {"databases", "current"} \subseteq DOMAIN s
    /\ DatabasesOK(s.databases)
    /\ s.current \in 0..Len(s.databases)

\* Nothing happened to the tables of any database but x.
Keeps(x, s, t) == \A db : db # x => Tables(t, db) = Tables(s, db)
-----------------------------------------------------------------------------
\* A name is found where it is.
LEMMA Index ==
    ASSUME NEW seq, IsSeq(seq), Distinct(seq), NEW i \in DOMAIN seq
    PROVE  IndexOf(seq, seq[i].name) = i
<1>1. DOMAIN seq = 1..Len(seq) /\ Len(seq) \in Nat
  BY DEF IsSeq
<1>2. \A j \in DOMAIN seq : seq[j].name = seq[i].name <=> j = i
  BY DEF Distinct
<1> QED BY <1>1, <1>2 DEF IndexOf

\* IndexOf finds an entry whose name is in the sequence.
LEMMA IndexNamed ==
    ASSUME NEW seq, IsSeq(seq), Distinct(seq), NEW name, Named(seq, name)
    PROVE  IndexOf(seq, name) \in DOMAIN seq /\ seq[IndexOf(seq, name)].name = name
<1>1. PICK i \in DOMAIN seq : seq[i].name = name
  BY DEF Named
<1> QED BY <1>1, Index

\* What is a sequence has the domain of one.
LEMMA Domain == ASSUME NEW seq, IsSeq(seq) PROVE DOMAIN seq = 1..Len(seq) /\ Len(seq) \in Nat
BY DEF IsSeq

\* A new entry at the end.
LEMMA Appended ==
    ASSUME NEW seq, IsSeq(seq), NEW e
    PROVE  LET new == Append(seq, e)
           IN /\ IsSeq(new) /\ Len(new) = Len(seq) + 1
              /\ \A i \in DOMAIN seq : i \in DOMAIN new /\ new[i] = seq[i]
              /\ new[Len(seq) + 1] = e
<1> DEFINE S == {seq[i] : i \in 1..Len(seq)} \cup {e}
<1>1. seq \in Seq(S) /\ e \in S /\ Len(seq) \in Nat
  BY DEF IsSeq
<1> HIDE DEF S
<1>2. /\ Append(seq, e) \in Seq(S) /\ Len(Append(seq, e)) = Len(seq) + 1
      /\ \A i \in 1..Len(seq) : Append(seq, e)[i] = seq[i]
      /\ Append(seq, e)[Len(seq) + 1] = e
  BY <1>1, AppendProperties
<1> DEFINE new == Append(seq, e)
<1> HIDE DEF new
<1>3. DOMAIN new = 1..(Len(seq) + 1) /\ new = [i \in 1..Len(new) |-> new[i]]
  <2>1. new \in Seq(S) /\ Len(new) = Len(seq) + 1
    BY <1>2 DEF new
  <2>2. new \in [1..Len(new) -> S]
    BY <2>1, LenProperties
  <2> QED BY <2>1, <2>2
<1> QED BY <1>1, <1>2, <1>3, Domain DEF IsSeq, new

\* Names stay unique when a new one is appended.
LEMMA AppendedDistinct ==
    ASSUME NEW seq, IsSeq(seq), Distinct(seq), NEW e, ~Named(seq, e.name)
    PROVE  Distinct(Append(seq, e))
<1> DEFINE new == Append(seq, e)
<1>1. /\ IsSeq(new) /\ Len(new) = Len(seq) + 1
      /\ \A i \in DOMAIN seq : i \in DOMAIN new /\ new[i] = seq[i]
      /\ new[Len(seq) + 1] = e
  BY Appended
<1>2. DOMAIN seq = 1..Len(seq) /\ Len(seq) \in Nat /\ DOMAIN new = 1..(Len(seq) + 1)
  BY <1>1, Domain
<1> HIDE DEF new
<1>3. \A i \in DOMAIN new : i \in DOMAIN seq \/ i = Len(seq) + 1
  BY <1>2
<1>4. \A i \in DOMAIN seq : new[i].name # e.name
  BY <1>1 DEF Named
<1>5. Distinct(new)
  BY <1>1, <1>3, <1>4 DEF Distinct
<1> QED BY <1>5 DEF new

\* An entry is gone, and each of the others is where it was or one before.
LEMMA Removed ==
    ASSUME NEW seq, IsSeq(seq), Distinct(seq), NEW k \in DOMAIN seq
    PROVE  LET new == Without(seq, k)
           IN /\ IsSeq(new) /\ Len(new) = Len(seq) - 1 /\ Distinct(new)
              /\ \A j \in DOMAIN new :
                    \E i \in DOMAIN seq : i # k /\ new[j] = seq[i]
              /\ \A i \in DOMAIN seq : i < k => i \in DOMAIN new /\ new[i] = seq[i]
              /\ \A i \in DOMAIN seq : i > k => i - 1 \in DOMAIN new /\ new[i - 1] = seq[i]
<1> DEFINE new == Without(seq, k)
<1>1. DOMAIN seq = 1..Len(seq) /\ Len(seq) \in Nat
  BY Domain
<1>2. k \in Nat /\ 1 <= k /\ k <= Len(seq)
  BY <1>1
<1>3. /\ Len(new) = Len(seq) - 1 /\ DOMAIN new = 1..(Len(seq) - 1)
      /\ \A j \in DOMAIN new : new[j] = IF j < k THEN seq[j] ELSE seq[j + 1]
  BY <1>1, <1>2 DEF Without
<1>4. new = [i \in 1..Len(new) |-> new[i]]
  BY <1>1, <1>2, <1>3 DEF Without
<1> HIDE DEF new
<1>5. IsSeq(new)
  BY <1>1, <1>2, <1>3, <1>4 DEF IsSeq
<1>6. \A j \in DOMAIN new : \E i \in DOMAIN seq : i # k /\ new[j] = seq[i]
  BY <1>1, <1>2, <1>3
<1>7. \A i \in DOMAIN seq : i < k => i \in DOMAIN new /\ new[i] = seq[i]
  BY <1>1, <1>2, <1>3
<1>8. \A i \in DOMAIN seq : i > k => i - 1 \in DOMAIN new /\ new[i - 1] = seq[i]
  BY <1>1, <1>2, <1>3
<1>9. Distinct(new)
  <2> SUFFICES ASSUME NEW i \in DOMAIN new, NEW j \in DOMAIN new, new[i].name = new[j].name
               PROVE  i = j
    BY DEF Distinct
  <2> DEFINE a == IF i < k THEN i ELSE i + 1
             b == IF j < k THEN j ELSE j + 1
  <2>1. a \in DOMAIN seq /\ b \in DOMAIN seq /\ new[i] = seq[a] /\ new[j] = seq[b]
    BY <1>1, <1>2, <1>3
  <2>2. a = b
    <3> HIDE DEF a, b
    <3> QED BY <2>1 DEF Distinct
  <2> QED BY <1>1, <1>2, <1>3, <2>2
<1> QED BY <1>3, <1>5, <1>6, <1>7, <1>8, <1>9 DEF new
-----------------------------------------------------------------------------
(***************************************************************************)
(* What is asked of a catalogue.                                            *)
(***************************************************************************)
\* The tables of a database that is at position i.
LEMMA TablesAt ==
    ASSUME NEW s, CatalogueOK(s), NEW i \in DOMAIN s.databases
    PROVE  Tables(s, s.databases[i].name) = {s.databases[i].tables}
<1>1. IndexOf(s.databases, s.databases[i].name) = i
  BY Index DEF CatalogueOK, DatabasesOK
<1>2. s.databases[i].name \in Databases(s)
  BY DEF Databases
<1> QED BY <1>1, <1>2 DEF Tables, TablesOf

\* A database that is not there has none.
LEMMA TablesNone ==
    ASSUME NEW s, NEW db, \A i \in DOMAIN s.databases : s.databases[i].name # db
    PROVE  Tables(s, db) = {}
BY DEF Tables, Databases

\* Each database but x is in both catalogues, with the same tables, or in none.
LEMMA SameTables ==
    ASSUME NEW s, CatalogueOK(s), NEW t, CatalogueOK(t), NEW x,
           \A i \in DOMAIN s.databases : s.databases[i].name # x =>
               \E j \in DOMAIN t.databases : /\ t.databases[j].name = s.databases[i].name
                                             /\ t.databases[j].tables = s.databases[i].tables,
           \A j \in DOMAIN t.databases : t.databases[j].name # x =>
               \E i \in DOMAIN s.databases : t.databases[j].name = s.databases[i].name
    PROVE  Keeps(x, s, t)
<1> SUFFICES ASSUME NEW db, db # x PROVE Tables(t, db) = Tables(s, db)
  BY DEF Keeps
<1>1. CASE \E i \in DOMAIN s.databases : s.databases[i].name = db
  <2>1. PICK i \in DOMAIN s.databases : s.databases[i].name = db
    BY <1>1
  <2>2. PICK j \in DOMAIN t.databases : /\ t.databases[j].name = db
                                        /\ t.databases[j].tables = s.databases[i].tables
    BY <2>1
  <2>3. Tables(s, db) = {s.databases[i].tables}
    BY <2>1, TablesAt
  <2>4. Tables(t, db) = {t.databases[j].tables}
    BY <2>2, TablesAt
  <2> QED BY <2>2, <2>3, <2>4
<1>2. CASE ~ \E i \in DOMAIN s.databases : s.databases[i].name = db
  <2>1. \A j \in DOMAIN t.databases : t.databases[j].name # db
    BY <1>2
  <2>2. \A i \in DOMAIN s.databases : s.databases[i].name # db
    BY <1>2
  <2>3. Tables(t, db) = {}
    BY <2>1, TablesNone
  <2>4. Tables(s, db) = {}
    BY <2>2, TablesNone
  <2> QED BY <2>3, <2>4
<1> QED BY <1>1, <1>2
-----------------------------------------------------------------------------
(***************************************************************************)
(* The functions that change it.                                            *)
(***************************************************************************)
\* create_database adds one database and touches no other.
LEMMA CreateDatabaseKeeps ==
    ASSUME NEW s, CatalogueOK(s), NEW x
    PROVE  LET t == CreateDatabase(s, x)
           IN CatalogueOK(t) /\ Keeps(x, s, t) /\ ActiveName(t) = ActiveName(s)
<1>1. CASE Named(s.databases, x)
  BY <1>1 DEF CreateDatabase, Keeps
<1>2. CASE ~Named(s.databases, x)
  <2> DEFINE e == [name |-> x, tables |-> <<>>]
             dbs == s.databases
             new == Append(dbs, e)
             t == CreateDatabase(s, x)
  <2>1. t = [s EXCEPT !.databases = new]
    BY <1>2 DEF CreateDatabase
  <2>2. /\ {"databases", "current"} \subseteq DOMAIN s /\ IsSeq(dbs) /\ Distinct(dbs)
        /\ s.current \in 0..Len(dbs)
        /\ \A i \in DOMAIN dbs : {"name", "tables"} \subseteq DOMAIN dbs[i] /\ TablesOK(dbs[i].tables)
    BY DEF CatalogueOK, DatabasesOK
  <2>3. e.name = x /\ e.tables = <<>> /\ {"name", "tables"} \subseteq DOMAIN e
    OBVIOUS
  <2>4. TablesOK(e.tables)
    <3>1. <<>> = [i \in 1..Len(<<>>) |-> <<>>[i]] /\ Len(<<>>) = 0 /\ DOMAIN <<>> = {}
      BY EmptySeq
    <3> QED BY <2>3, <3>1 DEF TablesOK, IsSeq, Distinct
  <2> HIDE DEF e, t, dbs
  <2>5. /\ IsSeq(new) /\ Len(new) = Len(dbs) + 1
        /\ \A i \in DOMAIN dbs : i \in DOMAIN new /\ new[i] = dbs[i]
        /\ new[Len(dbs) + 1] = e
    BY <2>2, Appended
  <2>6. Distinct(new)
    BY <1>2, <2>2, <2>3, AppendedDistinct DEF dbs
  <2>7. DOMAIN dbs = 1..Len(dbs) /\ Len(dbs) \in Nat /\ DOMAIN new = 1..(Len(dbs) + 1)
    BY <2>2, <2>5, Domain
  <2> HIDE DEF new
  <2>8. \A i \in DOMAIN new : i \in DOMAIN dbs \/ i = Len(dbs) + 1
    BY <2>7
  <2>9. t.databases = new /\ t.current = s.current /\ {"databases", "current"} \subseteq DOMAIN t
    BY <2>1, <2>2
  <2>10. DatabasesOK(new)
    BY <2>2, <2>3, <2>4, <2>5, <2>6, <2>8 DEF DatabasesOK
  <2>11. CatalogueOK(t)
    BY <2>2, <2>5, <2>7, <2>9, <2>10 DEF CatalogueOK
  <2>12. Keeps(x, s, t)
    BY <2>3, <2>5, <2>8, <2>9, <2>11, SameTables DEF dbs
  <2>13. ActiveName(t) = ActiveName(s)
    BY <2>2, <2>5, <2>7, <2>9 DEF ActiveName, dbs
  <2> QED BY <2>11, <2>12, <2>13 DEF t
<1> QED BY <1>1, <1>2

\* The tables of one database are others.
LEMMA TablesReplaced ==
    ASSUME NEW s, CatalogueOK(s), NEW k \in DOMAIN s.databases, NEW tables, TablesOK(tables)
    PROVE  LET t == [s EXCEPT !.databases[k].tables = tables]
           IN /\ CatalogueOK(t) /\ Keeps(s.databases[k].name, s, t)
              /\ ActiveName(t) = ActiveName(s)
<1> DEFINE dbs == s.databases
           d == [dbs[k] EXCEPT !.tables = tables]
           new == [dbs EXCEPT ![k] = d]
           t == [s EXCEPT !.databases[k].tables = tables]
<1>1. /\ {"databases", "current"} \subseteq DOMAIN s /\ IsSeq(dbs) /\ Distinct(dbs)
      /\ s.current \in 0..Len(dbs)
      /\ \A i \in DOMAIN dbs : {"name", "tables"} \subseteq DOMAIN dbs[i] /\ TablesOK(dbs[i].tables)
  BY DEF CatalogueOK, DatabasesOK
<1>2. t = [s EXCEPT !.databases = new]
  OBVIOUS
<1>3. d.tables = tables /\ d.name = dbs[k].name /\ {"name", "tables"} \subseteq DOMAIN d
  BY <1>1
<1>4. DOMAIN dbs = 1..Len(dbs) /\ Len(dbs) \in Nat
  BY <1>1, Domain
<1>5. DOMAIN new = DOMAIN dbs /\ \A i \in DOMAIN dbs : new[i] = IF i = k THEN d ELSE dbs[i]
  OBVIOUS
<1>6. Len(new) = Len(dbs) /\ IsSeq(new)
  <2>1. Len(new) = Len(dbs)
    BY <1>4, <1>5
  <2>2. new = [i \in 1..Len(dbs) |-> new[i]]
    BY <1>4
  <2> QED BY <1>4, <2>1, <2>2 DEF IsSeq
<1> HIDE DEF d, new, t
<1>7. \A i \in DOMAIN dbs : new[i].name = dbs[i].name
  BY <1>3, <1>5
<1>8. DatabasesOK(new)
  <2>1. Distinct(new)
    BY <1>1, <1>5, <1>7 DEF Distinct
  <2> QED BY <1>1, <1>3, <1>5, <1>6, <2>1 DEF DatabasesOK
<1>9. t.databases = new /\ t.current = s.current /\ {"databases", "current"} \subseteq DOMAIN t
  BY <1>1, <1>2
<1>10. CatalogueOK(t)
  BY <1>1, <1>6, <1>8, <1>9 DEF CatalogueOK
<1>11. Keeps(dbs[k].name, s, t)
  BY <1>5, <1>7, <1>9, <1>10, SameTables
<1>12. ActiveName(t) = ActiveName(s)
  BY <1>1, <1>4, <1>7, <1>9 DEF ActiveName
<1> QED BY <1>10, <1>11, <1>12 DEF t

\* create_table changes the tables of its database only.
LEMMA CreateTableKeeps ==
    ASSUME NEW s, CatalogueOK(s), NEW x, NEW table, NEW cols, IsSeq(cols)
    PROVE  LET t == CreateTable(s, x, table, cols)
           IN CatalogueOK(t) /\ Keeps(x, s, t) /\ ActiveName(t) = ActiveName(s)
<1>1. CASE ~Named(s.databases, x) \/ HasTable(s, x, table)
  BY <1>1 DEF CreateTable, Keeps
<1>2. CASE Named(s.databases, x) /\ ~HasTable(s, x, table)
  <2> DEFINE k == IndexOf(s.databases, x)
             old == s.databases[k].tables
             e == [name |-> table, cols |-> cols]
             tables == Append(old, e)
  <2>1. k \in DOMAIN s.databases /\ s.databases[k].name = x
    BY <1>2, IndexNamed DEF CatalogueOK, DatabasesOK
  <2>2. IsSeq(old) /\ Distinct(old) /\ \A i \in DOMAIN old : IsSeq(old[i].cols)
    BY <2>1 DEF CatalogueOK, DatabasesOK, TablesOK
  <2>3. ~Named(old, e.name)
    BY <1>2 DEF HasTable, TablesOf
  <2>4. CreateTable(s, x, table, cols) = [s EXCEPT !.databases[k].tables = tables]
    BY <1>2 DEF CreateTable
  <2>5. IsSeq(e.cols)
    OBVIOUS
  <2> HIDE DEF k, old, e
  <2>6. TablesOK(tables)
    <3>1. /\ IsSeq(tables) /\ Len(tables) = Len(old) + 1
          /\ \A i \in DOMAIN old : i \in DOMAIN tables /\ tables[i] = old[i]
          /\ tables[Len(old) + 1] = e
      BY <2>2, Appended
    <3>2. Distinct(tables)
      BY <2>2, <2>3, AppendedDistinct
    <3>3. /\ DOMAIN old = 1..Len(old) /\ Len(old) \in Nat
          /\ DOMAIN tables = 1..Len(tables)
      BY <2>2, <3>1, Domain
    <3> HIDE DEF tables
    <3>4. ASSUME NEW i \in DOMAIN tables PROVE IsSeq(tables[i].cols)
      <4>1. i \in DOMAIN old \/ i = Len(old) + 1
        BY <3>1, <3>3
      <4> QED BY <2>2, <2>5, <3>1, <4>1
    <3> QED BY <3>1, <3>2, <3>4 DEF TablesOK
  <2> HIDE DEF tables
  <2> QED BY <2>1, <2>4, <2>6, TablesReplaced
<1> QED BY <1>1, <1>2

\* So does drop_table.
LEMMA DropTableKeeps ==
    ASSUME NEW s, CatalogueOK(s), NEW x, NEW table
    PROVE  LET t == DropTable(s, x, table)
           IN CatalogueOK(t) /\ Keeps(x, s, t) /\ ActiveName(t) = ActiveName(s)
<1>1. CASE ~HasTable(s, x, table)
  BY <1>1 DEF DropTable, Keeps
<1>2. CASE HasTable(s, x, table)
  <2> DEFINE k == IndexOf(s.databases, x)
             old == s.databases[k].tables
             i == IndexOf(old, table)
             tables == Without(old, i)
  <2>1. k \in DOMAIN s.databases /\ s.databases[k].name = x
    BY <1>2, IndexNamed DEF CatalogueOK, DatabasesOK, HasTable
  <2>2. IsSeq(old) /\ Distinct(old) /\ \A j \in DOMAIN old : IsSeq(old[j].cols)
    BY <2>1 DEF CatalogueOK, DatabasesOK, TablesOK
  <2>3. i \in DOMAIN old
    BY <1>2, <2>2, IndexNamed DEF HasTable, TablesOf
  <2>4. DropTable(s, x, table) = [s EXCEPT !.databases[k].tables = tables]
    BY <1>2 DEF DropTable
  <2> HIDE DEF k, old, i
  <2>5. TablesOK(tables)
    BY <2>2, <2>3, Removed DEF TablesOK
  <2> HIDE DEF tables
  <2> QED BY <2>1, <2>4, <2>5, TablesReplaced
<1> QED BY <1>1, <1>2

\* The active database stays the one it was, where the shift has put it, or is none
\* if it is the one that is dropped.
LEMMA DropDatabaseKeeps ==
    ASSUME NEW s, CatalogueOK(s), NEW x
    PROVE  LET t == DropDatabase(s, x)
           IN /\ CatalogueOK(t) /\ Keeps(x, s, t)
              /\ \/ ActiveName(t) = ActiveName(s)
                 \/ ActiveName(s) = x /\ ActiveName(t) = Null
<1>1. CASE ~Named(s.databases, x)
  BY <1>1 DEF DropDatabase, Keeps
<1>2. CASE Named(s.databases, x)
  <2> DEFINE dbs == s.databases
             k == IndexOf(dbs, x)
             new == Without(dbs, k)
             t == DropDatabase(s, x)
  <2>1. /\ IsSeq(dbs) /\ Distinct(dbs) /\ s.current \in 0..Len(dbs)
        /\ \A i \in DOMAIN dbs : {"name", "tables"} \subseteq DOMAIN dbs[i] /\ TablesOK(dbs[i].tables)
    BY DEF CatalogueOK, DatabasesOK
  <2>2. k \in DOMAIN dbs /\ dbs[k].name = x
    BY <1>2, <2>1, IndexNamed
  <2>3. /\ t.databases = new /\ {"databases", "current"} \subseteq DOMAIN t
        /\ t.current = IF s.current = k THEN 0
                       ELSE IF s.current > k THEN s.current - 1 ELSE s.current
    BY <1>2 DEF DropDatabase
  <2> HIDE DEF dbs, k, t
  <2>4. /\ IsSeq(new) /\ Len(new) = Len(dbs) - 1 /\ Distinct(new)
        /\ \A j \in DOMAIN new : \E i \in DOMAIN dbs : i # k /\ new[j] = dbs[i]
        /\ \A i \in DOMAIN dbs : i < k => i \in DOMAIN new /\ new[i] = dbs[i]
        /\ \A i \in DOMAIN dbs : i > k => i - 1 \in DOMAIN new /\ new[i - 1] = dbs[i]
    BY <2>1, <2>2, Removed
  <2> HIDE DEF new
  <2>5. DOMAIN dbs = 1..Len(dbs) /\ Len(dbs) \in Nat /\ DOMAIN new = 1..Len(new)
    BY <2>1, <2>4, Domain
  <2>6. k \in Nat /\ 1 <= k /\ k <= Len(dbs)
    BY <2>2, <2>5
  <2>7. CatalogueOK(t)
    <3>1. DatabasesOK(new)
      BY <2>1, <2>4 DEF DatabasesOK
    <3>2. t.current \in 0..Len(new)
      BY <2>1, <2>3, <2>4, <2>5, <2>6
    <3> QED BY <2>3, <3>1, <3>2 DEF CatalogueOK
  <2>8. Keeps(x, s, t)
    <3>1. \A i \in DOMAIN dbs : dbs[i].name # x =>
              \E j \in DOMAIN new : new[j].name = dbs[i].name /\ new[j].tables = dbs[i].tables
      <4> SUFFICES ASSUME NEW i \in DOMAIN dbs, dbs[i].name # x
                   PROVE  \E j \in DOMAIN new : new[j] = dbs[i]
        OBVIOUS
      <4>1. i < k \/ i > k
        BY <2>2, <2>5, <2>6
      <4> QED BY <2>4, <4>1
    <3>2. \A j \in DOMAIN new : new[j].name # x =>
              \E i \in DOMAIN dbs : new[j].name = dbs[i].name
      BY <2>4
    <3> QED BY <2>3, <2>7, <3>1, <3>2, SameTables DEF dbs
  <2>9. \/ ActiveName(t) = ActiveName(s)
        \/ ActiveName(s) = x /\ ActiveName(t) = Null
    <3>1. CASE s.current = 0
      BY <2>3, <2>6, <3>1 DEF ActiveName
    <3>2. CASE s.current = k
      <4>1. t.current = 0
        BY <2>3, <3>2
      <4>2. ActiveName(t) = Null
        BY <4>1 DEF ActiveName
      <4>3. ActiveName(s) = x
        BY <2>2, <2>6, <3>2 DEF ActiveName, dbs
      <4> QED BY <4>2, <4>3
    <3>3. CASE s.current # 0 /\ s.current < k
      <4>1. s.current \in DOMAIN dbs /\ t.current = s.current
        BY <2>1, <2>3, <2>5, <2>6, <3>3
      <4>2. new[s.current] = dbs[s.current]
        BY <2>4, <3>3, <4>1
      <4> QED BY <2>3, <4>1, <4>2 DEF ActiveName, dbs
    <3>4. CASE s.current > k
      <4>1. s.current \in DOMAIN dbs /\ t.current = s.current - 1 /\ t.current # 0
        BY <2>1, <2>3, <2>5, <2>6, <3>4
      <4>2. new[s.current - 1] = dbs[s.current]
        BY <2>4, <3>4, <4>1
      <4>3. s.current # 0
        BY <2>6, <3>4
      <4> QED BY <2>3, <4>1, <4>2, <4>3 DEF ActiveName, dbs
    <3> QED BY <2>1, <2>5, <2>6, <3>1, <3>2, <3>3, <3>4
  <2> QED BY <2>7, <2>8, <2>9 DEF t
<1> QED BY <1>1, <1>2

\* set_active_database changes no table.
LEMMA SetActiveKeeps ==
    ASSUME NEW s, CatalogueOK(s), NEW x, Named(s.databases, x), NEW y
    PROVE  LET t == SetActive(s, x)
           IN CatalogueOK(t) /\ Keeps(y, s, t) /\ ActiveName(t) = x
<1> DEFINE k == IndexOf(s.databases, x)
           t == SetActive(s, x)
<1>1. k \in DOMAIN s.databases /\ s.databases[k].name = x
  BY IndexNamed DEF CatalogueOK, DatabasesOK
<1>2. t = [s EXCEPT !.current = k]
  BY DEF SetActive
<1>3. DOMAIN s.databases = 1..Len(s.databases) /\ Len(s.databases) \in Nat
  BY Domain DEF CatalogueOK, DatabasesOK
<1> HIDE DEF k, t
<1>4. t.databases = s.databases /\ t.current = k /\ {"databases", "current"} \subseteq DOMAIN t
  BY <1>2 DEF CatalogueOK
<1>5. CatalogueOK(t)
  BY <1>1, <1>3, <1>4 DEF CatalogueOK
<1>6. Keeps(y, s, t)
  BY <1>4 DEF Keeps, Tables, Databases, TablesOf
<1>7. ActiveName(t) = x
  BY <1>1, <1>3, <1>4 DEF ActiveName
<1> QED BY <1>5, <1>6, <1>7 DEF t
-----------------------------------------------------------------------------
(***************************************************************************)
(* What the parser finds.  Its loops are stated as choices, which exist.     *)
(***************************************************************************)
\* A set of numbers with a bound has a highest one.
LEMMA Highest ==
    ASSUME NEW T \in SUBSET Nat, T # {}, NEW n \in Nat, \A x \in T : x <= n
    PROVE  \E x \in T : \A y \in T : y <= x
<1> DEFINE U == {k \in Nat : k <= n /\ n - k \in T}
<1>1. U \in SUBSET Nat /\ U # {}
  <2>1. PICK x \in T : TRUE
    OBVIOUS
  <2>2. n - x \in Nat /\ n - x <= n /\ n - (n - x) = x
    BY <2>1
  <2>3. n - x \in U
    BY <2>1, <2>2
  <2> QED BY <2>3
<1>2. PICK k \in U : \A y \in U : k <= y
  <2> HIDE DEF U
  <2> QED BY <1>1, Lowest
<1>3. ASSUME NEW y \in T PROVE y <= n - k
  <2>1. y \in Nat /\ y <= n /\ n - (n - y) = y /\ n - y \in Nat /\ n - y <= n
    OBVIOUS
  <2>2. n - y \in U
    BY <2>1
  <2>3. k <= n - y /\ k \in Nat
    BY <1>2, <2>2
  <2> QED BY <2>1, <2>3
<1>4. n - k \in T
  BY <1>2
<1> QED BY <1>3, <1>4

\* A member of Seq is a sequence.
LEMMA SeqIs ==
    ASSUME NEW S, NEW q \in Seq(S)
    PROVE  IsSeq(q) /\ DOMAIN q = 1..Len(q) /\ \A i \in DOMAIN q : q[i] \in S
<1>1. q \in [1..Len(q) -> S] /\ Len(q) \in Nat
  BY LenProperties
<1> QED BY <1>1 DEF IsSeq

\* And one is a member of the Seq of what it has.
LEMMA InSeqOf ==
    ASSUME NEW q, IsSeq(q), NEW S, \A i \in DOMAIN q : q[i] \in S
    PROVE  q \in Seq(S)
<1>1. Len(q) \in Nat /\ DOMAIN q = 1..Len(q) /\ q = [i \in 1..Len(q) |-> q[i]]
  BY DEF IsSeq
<1> QED BY <1>1

\* A function from the positions of a sequence is one.
LEMMA BuiltSeq ==
    ASSUME NEW n \in Nat, NEW f, f = [i \in 1..n |-> f[i]]
    PROVE  IsSeq(f) /\ Len(f) = n
<1>1. f \in Seq({f[i] : i \in 1..n}) /\ DOMAIN f = 1..n
  OBVIOUS
<1>2. Len(f) = n
  BY <1>1
<1> QED BY <1>2 DEF IsSeq

\* The empty sequence.
LEMMA EmptyIsSeq == IsSeq(<<>>) /\ Len(<<>>) = 0 /\ DOMAIN <<>> = {}
<1>1. <<>> = [i \in 1..Len(<<>>) |-> <<>>[i]] /\ Len(<<>>) = 0 /\ DOMAIN <<>> = {}
  BY EmptySeq
<1> QED BY <1>1 DEF IsSeq

\* One sequence behind the other.
LEMMA Joins ==
    ASSUME NEW a, IsSeq(a), NEW b, IsSeq(b)
    PROVE  /\ IsSeq(a \o b) /\ Len(a \o b) = Len(a) + Len(b)
           /\ \A i \in DOMAIN (a \o b) : \/ i \in DOMAIN a /\ (a \o b)[i] = a[i]
                                         \/ i - Len(a) \in DOMAIN b /\ (a \o b)[i] = b[i - Len(a)]
<1> DEFINE S == {a[i] : i \in DOMAIN a} \cup {b[i] : i \in DOMAIN b}
<1>1. a \in Seq(S) /\ b \in Seq(S)
  BY InSeqOf
<1>2. DOMAIN a = 1..Len(a) /\ DOMAIN b = 1..Len(b) /\ Len(a) \in Nat /\ Len(b) \in Nat
  BY Domain
<1> HIDE DEF S
<1>3. /\ a \o b \in Seq(S) /\ Len(a \o b) = Len(a) + Len(b)
      /\ \A i \in 1..(Len(a) + Len(b)) : (a \o b)[i] = IF i <= Len(a) THEN a[i] ELSE b[i - Len(a)]
  BY <1>1, ConcatProperties
<1>4. IsSeq(a \o b) /\ DOMAIN (a \o b) = 1..Len(a \o b)
  BY <1>3, SeqIs
<1>5. ASSUME NEW i \in DOMAIN (a \o b)
      PROVE  \/ i \in DOMAIN a /\ (a \o b)[i] = a[i]
             \/ i - Len(a) \in DOMAIN b /\ (a \o b)[i] = b[i - Len(a)]
  <2>1. i \in 1..(Len(a) + Len(b)) /\ i \in Nat
    BY <1>2, <1>3, <1>4
  <2>2. (a \o b)[i] = IF i <= Len(a) THEN a[i] ELSE b[i - Len(a)]
    BY <1>3, <2>1
  <2>3. CASE i <= Len(a)
    BY <1>2, <2>1, <2>2, <2>3
  <2>4. CASE ~ (i <= Len(a))
    <3>1. i - Len(a) \in 1..Len(b)
      BY <1>2, <2>1, <2>4
    <3> QED BY <1>2, <2>2, <2>4, <3>1
  <2> QED BY <2>3, <2>4
<1> QED BY <1>3, <1>4, <1>5

\* The text of a token is a sequence.
LEMMA TextIsSeq ==
    ASSUME NEW ts, ts \in Seq(Token), NEW i \in DOMAIN ts
    PROVE  IsSeq(ts[i].text)
<1>1. ts[i] \in Token
  BY SeqIs
<1>2. ts[i].text \in Seq(STRING)
  BY <1>1 DEF Token
<1> QED BY <1>2, SeqIs

\* Matched counts tokens of the types that were expected.
LEMMA MatchedIs ==
    ASSUME NEW ts, NEW i \in Nat, NEW expected, IsSeq(expected)
    PROVE  /\ Matched(ts, i, expected) \in 0..Len(expected)
           /\ \A j \in 1..Matched(ts, i, expected) : At(ts, i + j - 1, expected[j])
<1> DEFINE Fits(n) == /\ \A j \in 1..n : At(ts, i + j - 1, expected[j])
                      /\ n < Len(expected) => ~At(ts, i + n, expected[n + 1])
           T == {n \in 0..Len(expected) : n = Len(expected) \/ ~At(ts, i + n, expected[n + 1])}
<1>1. Len(expected) \in Nat
  BY DEF IsSeq
<1>2. T \in SUBSET Nat /\ T # {}
  BY <1>1
<1>3. PICK n \in T : \A m \in T : n <= m
  <2> HIDE DEF T
  <2> QED BY <1>2, Lowest
<1>4. n \in 0..Len(expected) /\ n \in Nat
  BY <1>1, <1>3
<1>5. ASSUME NEW j \in 1..n PROVE At(ts, i + j - 1, expected[j])
  <2>1. j - 1 \in 0..Len(expected) /\ j - 1 < n /\ j - 1 # Len(expected) /\ (j - 1) + 1 = j
        /\ i + (j - 1) = i + j - 1
    BY <1>1, <1>4
  <2>2. j - 1 \notin T
    <3> HIDE DEF T
    <3> QED BY <1>3, <1>4, <2>1
  <2>3. At(ts, i + (j - 1), expected[(j - 1) + 1])
    BY <2>1, <2>2
  <2> QED BY <2>1, <2>3
<1>6. Fits(n)
  BY <1>3, <1>5
<1>7. Matched(ts, i, expected) = CHOOSE m \in 0..Len(expected) : Fits(m)
  BY DEF Matched
<1>8. Matched(ts, i, expected) \in 0..Len(expected) /\ Fits(Matched(ts, i, expected))
  <2> HIDE DEF Fits
  <2> QED BY <1>4, <1>6, <1>7
<1> QED BY <1>8

\* A list of tokens.
LEMMA ListedIs ==
    ASSUME NEW ts, ts \in Seq(Token), NEW i \in Nat, i >= 1, NEW types
    PROVE  /\ IsSeq(Listed(ts, i, types))
           /\ \A k \in DOMAIN Listed(ts, i, types) :
                 \E j \in DOMAIN ts : Listed(ts, i, types)[k] = ts[j] /\ ts[j].type \in types
<1> DEFINE Items(m) == \A j \in 1..m : At(ts, i + 2 * j - 2, types)
           Commas(m) == \A j \in 1..(m - 1) : At(ts, i + 2 * j - 1, {","})
           More(m) == At(ts, i + 2 * m, types) /\ (m = 0 \/ At(ts, i + 2 * m - 1, {","}))
           Ends(m) == Items(m) /\ Commas(m) /\ ~More(m)
           T == {m \in 0..Len(ts) : Items(m) /\ Commas(m)}
           n == CHOOSE m \in 0..Len(ts) : Ends(m)
<1>1. Len(ts) \in Nat /\ DOMAIN ts = 1..Len(ts)
  BY SeqIs, LenProperties
<1>2. Items(0) /\ Commas(0)
  <2>1. \A j \in 1..0 : FALSE
    OBVIOUS
  <2>2. \A j \in 1..(0 - 1) : FALSE
    OBVIOUS
  <2>3. Items(0)
    BY <2>1
  <2>4. Commas(0)
    BY <2>2
  <2> QED BY <2>3, <2>4
<1>3. T \in SUBSET Nat /\ T # {} /\ \A m \in T : m <= Len(ts)
  <2> HIDE DEF Items, Commas
  <2>1. 0 \in T
    BY <1>1, <1>2
  <2> QED BY <1>1, <2>1
<1>4. PICK m \in T : \A y \in T : y <= m
  <2> HIDE DEF T
  <2> QED BY <1>1, <1>3, Highest
<1>5. m \in Nat /\ m \in 0..Len(ts)
  <2> HIDE DEF Items, Commas
  <2> QED BY <1>1, <1>4
<1>6. Items(m) /\ Commas(m)
  <2> HIDE DEF Items, Commas
  <2> QED BY <1>4
<1> HIDE DEF T
<1>7. ASSUME More(m) PROVE FALSE
  <2>1. At(ts, i + 2 * m, types) /\ (m = 0 \/ At(ts, i + 2 * m - 1, {","}))
    BY <1>7
  <2>2. i + 2 * m \in 1..Len(ts)
    BY <1>1, <2>1 DEF At
  <2>3. m + 1 \in 0..Len(ts) /\ m + 1 \in Nat
    BY <1>1, <1>5, <2>2
  <2>4. ASSUME NEW j \in 1..(m + 1) PROVE At(ts, i + 2 * j - 2, types)
    <3>1. CASE j = m + 1
      <4>1. i + 2 * j - 2 = i + 2 * m
        BY <1>5, <3>1
      <4> QED BY <2>1, <4>1
    <3>2. CASE j # m + 1
      <4>1. j \in 1..m
        BY <1>5, <3>2
      <4>2. Items(m)
        BY <1>6
      <4> QED BY <4>1, <4>2
    <3> QED BY <3>1, <3>2
  <2>5. ASSUME NEW j \in 1..((m + 1) - 1) PROVE At(ts, i + 2 * j - 1, {","})
    <3>1. j \in 1..m /\ m # 0
      BY <1>5
    <3>2. CASE j = m
      BY <2>1, <3>1, <3>2
    <3>3. CASE j # m
      <4>1. j \in 1..(m - 1)
        BY <1>5, <3>1, <3>3
      <4>2. Commas(m)
        BY <1>6
      <4> QED BY <4>1, <4>2
    <3> QED BY <3>2, <3>3
  <2>6. Items(m + 1)
    BY <2>4
  <2>7. Commas(m + 1)
    BY <2>5
  <2>8. m + 1 \in T
    <3> HIDE DEF Items, Commas
    <3> QED BY <2>3, <2>6, <2>7 DEF T
  <2>9. m + 1 <= m
    BY <1>4, <2>8
  <2> HIDE DEF Items, Commas, More
  <2> QED BY <1>5, <2>9
<1>8. Ends(m)
  <2> HIDE DEF Items, Commas, More
  <2> QED BY <1>6, <1>7, <1>5
<1>9. n \in 0..Len(ts) /\ Ends(n)
  <2> HIDE DEF Ends
  <2> QED BY <1>6, <1>8, <1>5
<1> DEFINE L == Listed(ts, i, types)
<1>10. L = [j \in 1..n |-> ts[i + 2 * j - 2]]
  BY DEF Listed
<1>11. Items(n) /\ n \in Nat
  <2> HIDE DEF Items, Commas, More, n
  <2> QED BY <1>1, <1>9
<1> HIDE DEF n, L
<1>12. DOMAIN L = 1..n /\ IsSeq(L)
  <2>1. L = [j \in 1..n |-> L[j]] /\ DOMAIN L = 1..n
    BY <1>10
  <2> QED BY <1>11, <2>1, BuiltSeq
<1>13. ASSUME NEW k \in DOMAIN L
       PROVE  \E j \in DOMAIN ts : L[k] = ts[j] /\ ts[j].type \in types
  <2>1. k \in 1..n
    BY <1>12
  <2>2. L[k] = ts[i + 2 * k - 2]
    BY <1>10, <2>1
  <2>3. At(ts, i + 2 * k - 2, types)
    BY <1>11, <2>1
  <2> QED BY <2>2, <2>3 DEF At
<1> QED BY <1>12, <1>13 DEF L

\* What Skipped passes over ends within the line or at its end.
LEMMA SkippedIs ==
    ASSUME NEW ts, ts \in Seq(Token), NEW i \in Nat, i >= 1
    PROVE  Skipped(ts, i) \in Nat /\ Skipped(ts, i) >= 1
<1>1. CASE ~At(ts, i, {"("})
  BY <1>1 DEF Skipped
<1>2. CASE At(ts, i, {"("})
  <2> DEFINE Stops(j) == /\ j = Len(ts) + 1 \/ At(ts, j - 1, {")"})
                         /\ \A k \in (i + 1)..(j - 2) : ~At(ts, k, {")"})
             T == {j \in i..(Len(ts) + 1) : j = Len(ts) + 1 \/ At(ts, j - 1, {")"})}
  <2>1. Len(ts) \in Nat /\ DOMAIN ts = 1..Len(ts)
    BY SeqIs, LenProperties
  <2>2. i <= Len(ts)
    BY <1>2, <2>1 DEF At
  <2>3. T \in SUBSET Nat /\ T # {}
    <3>1. Len(ts) + 1 \in T
      BY <2>1, <2>2
    <3> QED BY <2>1, <3>1
  <2>4. PICK j \in T : \A y \in T : j <= y
    <3> HIDE DEF T
    <3> QED BY <2>3, Lowest
  <2>5. ASSUME NEW k \in (i + 1)..(j - 2) PROVE ~At(ts, k, {")"})
    <3>1. k + 1 \in i..(Len(ts) + 1) /\ k + 1 < j /\ (k + 1) - 1 = k /\ k + 1 # Len(ts) + 1
      BY <2>1, <2>4
    <3>2. k + 1 \notin T
      <4> HIDE DEF T
      <4>1. j \in Nat
        BY <2>3, <2>4
      <4> QED BY <2>4, <3>1, <4>1
    <3> QED BY <3>1, <3>2
  <2>6. j \in i..(Len(ts) + 1) /\ Stops(j)
    BY <2>4, <2>5
  <2>7. Skipped(ts, i) = CHOOSE y \in i..(Len(ts) + 1) : Stops(y)
    BY <1>2 DEF Skipped
  <2>8. Skipped(ts, i) \in i..(Len(ts) + 1)
    <3> HIDE DEF Stops
    <3> QED BY <2>6, <2>7
  <2> QED BY <2>1, <2>8
<1> QED BY <1>1, <1>2

\* A sequence of one and of four.
LEMMA Literals ==
    ASSUME NEW a, NEW b, NEW c, NEW d
    PROVE  /\ IsSeq(<<a>>) /\ Len(<<a>>) = 1
           /\ IsSeq(<<a, b, c, d>>) /\ Len(<<a, b, c, d>>) = 4
<1>1. <<a>> \in Seq({a}) /\ <<a, b, c, d>> \in Seq({a, b, c, d})
  OBVIOUS
<1> QED BY <1>1, SeqIs

\* The text of a token that was matched.
LEMMA TextAt ==
    ASSUME NEW ts \in Seq(Token), NEW i, NEW types, At(ts, i, types)
    PROVE  IsSeq(ts[i].text)
BY TextIsSeq DEF At

\* The last of four tokens that were matched.
LEMMA FourthAt ==
    ASSUME NEW ts \in Seq(Token), NEW i \in Nat, NEW a, NEW b, NEW c, NEW d,
           Matched(ts, i, <<a, b, c, d>>) = 4
    PROVE  IsSeq(ts[i + 3].text)
<1> DEFINE e == <<a, b, c, d>>
<1>1. IsSeq(e)
  BY Literals
<1> HIDE DEF e
<1>2. \A j \in 1..4 : At(ts, i + j - 1, e[j])
  BY <1>1, MatchedIs DEF e
<1>3. i + 4 - 1 = i + 3 /\ 4 \in 1..4
  OBVIOUS
<1>4. At(ts, i + 3, e[4])
  BY <1>2, <1>3
<1> QED BY <1>4, TextAt

\* How many tokens are matched.
LEMMA MatchedNumber ==
    ASSUME NEW ts, NEW i \in Nat, NEW a, NEW b, NEW c, NEW d
    PROVE  /\ Matched(ts, i, <<a>>) \in Nat
           /\ Matched(ts, i, <<a, b>>) \in Nat
           /\ Matched(ts, i, <<a, b, c, d>>) \in Nat
<1>1. <<a, b>> \in Seq({a, b})
  OBVIOUS
<1>2. IsSeq(<<a, b>>) /\ Len(<<a, b>>) = 2
  BY <1>1, SeqIs
<1>3. Matched(ts, i, <<a>>) \in 0..1 /\ Matched(ts, i, <<a, b>>) \in 0..2
      /\ Matched(ts, i, <<a, b, c, d>>) \in 0..4
  BY <1>2, Literals, MatchedIs
<1> QED BY <1>3

\* The key of a WHERE clause.
LEMMA KeyAtIs ==
    ASSUME NEW ts \in Seq(Token), NEW i \in Nat
    PROVE  KeyAt(ts, i) = Null \/ IsSeq(KeyAt(ts, i))
BY FourthAt DEF KeyAt, Where

\* What a statement has is a sequence.
TextsOK(q) ==
    /\ q.key = Null \/ IsSeq(q.key)
    /\ q.val = Null \/ IsSeq(q.val)
    /\ IsSeq(q.vals) /\ \A i \in DOMAIN q.vals : IsSeq(q.vals[i])
    /\ q.vals # <<>> => IsSeq(q.key)
    /\ IsSeq(q.cols)

\* A statement without values and columns.
LEMMA KeyOnly ==
    ASSUME NEW q, q.key = Null \/ IsSeq(q.key), q.val = Null \/ IsSeq(q.val),
           q.vals = <<>>, q.cols = <<>>
    PROVE  TextsOK(q)
BY EmptyIsSeq DEF TextsOK

\* INSERT: the key is the first of the values.
LEMMA InsertTexts == ASSUME NEW ts \in Seq(Token) PROVE TextsOK(Insert(ts))
<1> DEFINE i == 3 + Matched(ts, 3, <<{"IDENT"}>>)
           j == Skipped(ts, i)
           vals == IF At(ts, j + 1, {"("}) THEN Listed(ts, j + 2, Value) ELSE <<>>
           texts == [k \in DOMAIN vals |-> vals[k].text]
<1>1. i \in Nat /\ i >= 1
  <2>1. Matched(ts, 3, <<{"IDENT"}>>) \in Nat
    BY MatchedNumber
  <2> QED BY <2>1
<1>2. j \in Nat /\ j >= 1
  <2> HIDE DEF i
  <2> QED BY <1>1, SkippedIs
<1>3. IsSeq(vals) /\ \A k \in DOMAIN vals : IsSeq(vals[k].text)
  <2> HIDE DEF i, j
  <2>1. CASE At(ts, j + 1, {"("})
    <3>1. j + 2 \in Nat /\ j + 2 >= 1
      BY <1>2
    <3> DEFINE n == j + 2
    <3> HIDE DEF n
    <3>2. IsSeq(Listed(ts, n, Value))
          /\ \A k \in DOMAIN Listed(ts, n, Value) : \E m \in DOMAIN ts : Listed(ts, n, Value)[k] = ts[m]
      BY <3>1, ListedIs DEF n
    <3>3. vals = Listed(ts, n, Value)
      BY <2>1 DEF n
    <3> HIDE DEF vals
    <3> QED BY <3>2, <3>3, TextIsSeq
  <2>2. CASE ~At(ts, j + 1, {"("})
    BY <2>2, EmptyIsSeq
  <2> QED BY <2>1, <2>2
<1>4. Len(vals) \in Nat /\ DOMAIN vals = 1..Len(vals)
  <2> HIDE DEF vals
  <2> QED BY <1>3, Domain
<1>5. CASE ~At(ts, 2, {"INTO"}) \/ ~At(ts, j, {"VALUES"})
  <2>1. Insert(ts) = Failed
    BY <1>5 DEF Insert
  <2>2. TextsOK(Failed)
    BY KeyOnly DEF Failed, NoQuery
  <2> QED BY <2>1, <2>2
<1>6. CASE ~(~At(ts, 2, {"INTO"}) \/ ~At(ts, j, {"VALUES"}))
  <2>1. /\ Insert(ts).vals = texts /\ Insert(ts).cols = <<>>
        /\ Insert(ts).key = (IF Len(vals) >= 1 THEN vals[1].text ELSE Null)
        /\ Insert(ts).val = (IF Len(vals) >= 2 THEN vals[2].text ELSE Null)
    BY <1>6 DEF Insert, NoQuery
  <2> HIDE DEF vals
  <2>2. IsSeq(texts) /\ Len(texts) = Len(vals)
    <3>1. texts = [k \in 1..Len(vals) |-> texts[k]]
      BY <1>4
    <3> HIDE DEF texts
    <3> QED BY <1>4, <3>1, BuiltSeq
  <2>3. \A k \in DOMAIN texts : IsSeq(texts[k])
    BY <1>3
  <2>4. texts # <<>> => Len(vals) >= 1
    <3>1. Len(vals) = 0 => texts = <<>>
      BY <1>4
    <3> QED BY <1>4, <3>1
  <2>5. /\ Len(vals) >= 1 => IsSeq(vals[1].text)
        /\ Len(vals) >= 2 => IsSeq(vals[2].text)
    BY <1>3, <1>4
  <2> HIDE DEF texts
  <2> QED BY <2>1, <2>2, <2>3, <2>4, <2>5, EmptyIsSeq DEF TextsOK
<1> QED BY <1>5, <1>6

\* CREATE: the columns are those of the list.
LEMMA CreateTexts == ASSUME NEW ts \in Seq(Token) PROVE TextsOK(Create(ts))
<1> DEFINE cols == IF At(ts, 4, {"("}) THEN Listed(ts, 5, Column) ELSE <<>>
           C == [k \in DOMAIN cols |-> [name |-> Head(cols[k].text),
                                        primary |-> cols[k].type = "PKCOLUMN"]]
<1>1. IsSeq(cols)
  BY ListedIs, EmptyIsSeq
<1>2. IsSeq(C)
  <2> HIDE DEF cols
  <2>1. DOMAIN cols = 1..Len(cols) /\ Len(cols) \in Nat
    BY <1>1, Domain
  <2>2. C = [k \in 1..Len(cols) |-> C[k]]
    BY <2>1
  <2> HIDE DEF C
  <2> QED BY <2>1, <2>2, BuiltSeq
<1>3. TextsOK(Failed)
  BY KeyOnly DEF Failed, NoQuery
<1>4. CASE At(ts, 2, {"DATABASE"}) /\ At(ts, 3, {"IDENT"})
  <2>1. IsSeq(ts[3].text)
    BY <1>4, TextAt
  <2> QED BY <1>4, <2>1, KeyOnly DEF Create, NoQuery
<1>5. CASE ~At(ts, 2, {"DATABASE"}) /\ At(ts, 2, {"TABLE"}) /\ At(ts, 3, {"IDENT"})
  <2>1. /\ Create(ts).cols = C /\ Create(ts).vals = <<>>
        /\ Create(ts).key = Null /\ Create(ts).val = Null
    BY <1>5 DEF Create, NoQuery
  <2> HIDE DEF C
  <2> QED BY <1>2, <2>1, EmptyIsSeq DEF TextsOK
<1>6. CASE ~(/\ At(ts, 2, {"DATABASE"}) \/ At(ts, 2, {"TABLE"})
             /\ At(ts, 3, {"IDENT"}))
  BY <1>3, <1>6 DEF Create
<1> QED BY <1>4, <1>5, <1>6

\* Every statement.
LEMMA ParseTexts == ASSUME NEW ts \in Seq(Token) PROVE TextsOK(Parse(ts))
<1>1. TextsOK(Failed)
  BY KeyOnly DEF Failed, NoQuery
<1>2. TextsOK(Select(ts))
  <2>1. KeyAt(ts, 5) = Null \/ IsSeq(KeyAt(ts, 5))
    BY KeyAtIs
  <2> QED BY <1>1, <2>1, KeyOnly DEF Select, NoQuery
<1>3. TextsOK(Update(ts))
  <2> DEFINE i == 2 + Matched(ts, 2, <<{"IDENT"}>>)
             n == Matched(ts, i, <<{"SET"}, {"VAL"}, {"="}, Value>>)
  <2>1. i \in Nat
    <3>1. Matched(ts, 2, <<{"IDENT"}>>) \in Nat
      BY MatchedNumber
    <3> QED BY <3>1
  <2>2. n \in Nat /\ (n = 4 => IsSeq(ts[i + 3].text))
    <3> HIDE DEF i
    <3> QED BY <2>1, MatchedNumber, FourthAt
  <2>3. /\ Update(ts).val = (IF n = 4 THEN ts[i + 3].text ELSE Null)
        /\ Update(ts).key = KeyAt(ts, i + n)
        /\ Update(ts).vals = <<>> /\ Update(ts).cols = <<>>
    BY DEF Update, NoQuery
  <2> HIDE DEF i, n
  <2>4. i + n \in Nat
    BY <2>1, <2>2
  <2> QED BY <2>2, <2>3, <2>4, KeyAtIs, KeyOnly
<1>4. TextsOK(Delete(ts))
  <2> DEFINE n == Matched(ts, 2, <<{"FROM"}, {"IDENT"}>>)
  <2>1. n \in Nat
    BY MatchedNumber
  <2>2. /\ Delete(ts).val = Null /\ Delete(ts).key = KeyAt(ts, 2 + n)
        /\ Delete(ts).vals = <<>> /\ Delete(ts).cols = <<>>
    BY DEF Delete, NoQuery
  <2> HIDE DEF n
  <2>3. 2 + n \in Nat
    BY <2>1
  <2> QED BY <2>2, <2>3, KeyAtIs, KeyOnly
<1>5. TextsOK(Use(ts)) /\ TextsOK(Drop(ts))
  BY <1>1, TextAt, KeyOnly DEF Use, Drop, NoQuery
<1>6. TextsOK(List(ts))
  BY <1>1, Literals, KeyOnly DEF List, NoQuery
<1>7. /\ TextsOK([NoQuery EXCEPT !.type = "CLEAR"])
      /\ TextsOK([NoQuery EXCEPT !.type = "HELP"])
  BY KeyOnly DEF NoQuery
<1> QED BY <1>1, <1>2, <1>3, <1>4, <1>5, <1>6, <1>7, InsertTexts, CreateTexts DEF Parse
-----------------------------------------------------------------------------
(***************************************************************************)
(* Statements.                                                              *)
(***************************************************************************)
\* What CREATE names, and what it is made of.
QueryOK(q) ==
    /\ TextsOK(q)
    /\ q.error \/ q.type \in Statements
    /\ ~q.error /\ q.type = "CREATE_DB" => q.table = Null
    /\ ~q.error /\ q.type = "CREATE_TABLE" => q.table # Null

\* A name is not a NULL pointer.
LEMMA NameIsNotNull ==
    ASSUME NEW ts, \A i \in DOMAIN ts : ts[i] \in Token, NEW i, At(ts, i, {"IDENT"})
    PROVE  Head(ts[i].text) # Null
<1>1. ts[i] \in Token /\ ts[i].type = "IDENT"
  BY DEF At
<1>2. ts[i].text \in Seq(STRING) /\ Len(ts[i].text) = 1
  BY <1>1 DEF Token, Column
<1>3. Head(ts[i].text) \in STRING
  BY <1>2, EmptySeq, HeadTailProperties
<1> QED BY <1>3, NullAssumption

\* A statement that is no error has what its translation takes for granted.
LEMMA ParseOK == ASSUME NEW ts \in Seq(Token) PROVE QueryOK(Parse(ts))
<1> DEFINE Fits(q) == /\ q.error \/ q.type \in Statements
                      /\ ~q.error /\ q.type = "CREATE_DB" => q.table = Null
                      /\ ~q.error /\ q.type = "CREATE_TABLE" => q.table # Null
<1>1. Fits(Failed)
  BY DEF Failed, NoQuery
<1>2. Fits(Select(ts))
  BY <1>1 DEF Select, NoQuery, Statements
<1>3. Fits(Insert(ts))
  BY <1>1 DEF Insert, NoQuery, Statements
<1>4. Fits(Update(ts)) /\ Fits(Delete(ts))
  BY DEF Update, Delete, NoQuery, Statements
<1>5. Fits(Create(ts))
  <2>1. CASE At(ts, 2, {"DATABASE"}) /\ At(ts, 3, {"IDENT"})
    BY <2>1 DEF Create, NoQuery, Statements
  <2>2. CASE ~ (At(ts, 2, {"DATABASE"}) /\ At(ts, 3, {"IDENT"})) /\ At(ts, 3, {"IDENT"})
    <3>1. \A i \in DOMAIN ts : ts[i] \in Token
      BY SeqIs
    <3>2. Head(ts[3].text) # Null
      BY <2>2, <3>1, NameIsNotNull
    <3> QED BY <1>1, <2>2, <3>2 DEF Create, NoQuery, Statements
  <2>3. CASE ~At(ts, 3, {"IDENT"})
    BY <1>1, <2>3 DEF Create
  <2> QED BY <2>1, <2>2, <2>3
<1>6. Fits(Use(ts)) /\ Fits(List(ts)) /\ Fits(Drop(ts))
  BY <1>1 DEF Use, List, Drop, NoQuery, Statements
<1>7. /\ Fits([NoQuery EXCEPT !.type = "CLEAR"])
      /\ Fits([NoQuery EXCEPT !.type = "HELP"])
  BY DEF NoQuery, Statements
<1> HIDE DEF Fits
<1>8. Fits(Parse(ts))
  BY <1>1, <1>2, <1>3, <1>4, <1>5, <1>6, <1>7 DEF Parse
<1> QED BY <1>8, ParseTexts DEF QueryOK, Fits

\* What Local says follows from what happened to the tables and the active database.
LEMMA LocalFrom ==
    ASSUME NEW q, NEW s, NEW t, NEW x, x = (IF q.table = Null THEN Head(q.key) ELSE DbName(s)),
           Keeps(x, s, t),
           \/ ActiveName(t) = ActiveName(s)
           \/ q.type = "USE" /\ ActiveName(t) = Head(q.key)
           \/ q.type = "DROP" /\ ActiveName(s) = Head(q.key) /\ ActiveName(t) = Null
    PROVE  Local(q, s, t)
BY DEF Local, Keeps

\* A catalogue that stays as it was.
LEMMA SameIsLocal == ASSUME NEW q, NEW s PROVE Local(q, s, s)
BY DEF Local

\* CREATE TABLE, which may create the default database first.
LEMMA CreateTblLocal ==
    ASSUME NEW q, NEW s, CatalogueOK(s), q.table # Null, IsSeq(q.cols)
    PROVE  LET t == CreateTbl(q, s).schema IN CatalogueOK(t) /\ Local(q, s, t)
<1> DEFINE base == IF s.current = 0 THEN CreateDatabase(s, "default") ELSE s
           x == DbName(s)
           t == CreateTable(base, x, q.table, q.cols)
<1>1. CreateTbl(q, s).schema \in {s, t}
  BY DEF CreateTbl, Status, Refused, Result
<1>2. CatalogueOK(base) /\ Keeps(x, s, base) /\ ActiveName(base) = ActiveName(s)
  <2>1. CASE s.current = 0
    BY <2>1, CreateDatabaseKeeps DEF DbName
  <2>2. CASE s.current # 0
    BY <2>2 DEF Keeps
  <2> QED BY <2>1, <2>2
<1> HIDE DEF base, x
<1>3. CatalogueOK(t) /\ Keeps(x, base, t) /\ ActiveName(t) = ActiveName(base)
  BY <1>2, CreateTableKeeps
<1> HIDE DEF t
<1>4. Keeps(x, s, t)
  BY <1>2, <1>3 DEF Keeps
<1>5. Local(q, s, t)
  BY <1>2, <1>3, <1>4, LocalFrom DEF x
<1> QED BY <1>1, <1>3, <1>5, SameIsLocal

\* Every statement changes what it names.
LEMMA TranslateLocal ==
    ASSUME NEW q, NEW s, CatalogueOK(s), QueryOK(q)
    PROVE  LET t == Translate(q, s).schema IN CatalogueOK(t) /\ Local(q, s, t)
<1> DEFINE OK(t) == CatalogueOK(t) /\ Local(q, s, t)
<1>1. OK(s)
  BY SameIsLocal
<1>2. Refused(s).schema = s /\ \A c, h, w : Result(s, c, h, w).schema = s
  BY DEF Refused, Result
<1>3. /\ SelectRows(q, s).schema = s /\ DeleteRow(q, s).schema = s
      /\ UpdateRow(q, s).schema = s /\ ListNames(q, s).schema = s
  BY <1>2 DEF SelectRows, DeleteRow, UpdateRow, ListNames, Listing, Status
<1>4. InsertValues(q, s).schema = s
  <2>1. InsertRow(q, s).schema = s
    BY <1>2 DEF InsertRow, Status
  <2> QED BY <1>2, <2>1 DEF InsertValues, Status
<1>5. ASSUME ~q.error, q.type = "CREATE_DB" PROVE OK(CreateDb(q, s).schema)
  <2> DEFINE t == CreateDatabase(s, Head(q.key))
  <2>1. CreateDb(q, s).schema \in {s, t}
    BY <1>2 DEF CreateDb, Status, Result
  <2>2. CatalogueOK(t) /\ Keeps(Head(q.key), s, t) /\ ActiveName(t) = ActiveName(s)
    BY CreateDatabaseKeeps
  <2> HIDE DEF t
  <2>3. q.table = Null
    BY <1>5 DEF QueryOK
  <2> QED BY <1>1, <2>1, <2>2, <2>3, LocalFrom
<1>6. ASSUME ~q.error, q.type = "CREATE_TABLE" PROVE OK(CreateTbl(q, s).schema)
  BY <1>6, CreateTblLocal DEF QueryOK, TextsOK
<1>7. ASSUME q.type = "USE" PROVE OK(UseDb(q, s).schema)
  <2> DEFINE t == SetActive(s, Head(q.key))
             x == IF q.table = Null THEN Head(q.key) ELSE DbName(s)
  <2>1. CASE ~Named(s.databases, Head(q.key))
    BY <1>1, <1>2, <2>1 DEF UseDb
  <2>2. CASE Named(s.databases, Head(q.key))
    <3>1. UseDb(q, s).schema = t
      BY <2>2 DEF UseDb, Status, Result
    <3>2. CatalogueOK(t) /\ Keeps(x, s, t) /\ ActiveName(t) = Head(q.key)
      BY <2>2, SetActiveKeeps
    <3> HIDE DEF t
    <3> QED BY <1>7, <3>1, <3>2, LocalFrom
  <2> QED BY <2>1, <2>2
<1>8. ASSUME q.type = "DROP" PROVE OK(DropNamed(q, s).schema)
  <2>1. CASE q.table = Null
    <3> DEFINE t == DropDatabase(s, Head(q.key))
    <3>1. DropNamed(q, s).schema \in {s, t}
      BY <1>2, <2>1 DEF DropNamed, Status, Result
    <3>2. /\ CatalogueOK(t) /\ Keeps(Head(q.key), s, t)
          /\ \/ ActiveName(t) = ActiveName(s)
             \/ ActiveName(s) = Head(q.key) /\ ActiveName(t) = Null
      BY DropDatabaseKeeps
    <3> HIDE DEF t
    <3> QED BY <1>1, <1>8, <2>1, <3>1, <3>2, LocalFrom
  <2>2. CASE q.table # Null
    <3> DEFINE x == DbName(s)
               t == DropTable(s, x, q.table)
    <3>1. DropNamed(q, s).schema \in {s, t}
      BY <1>2, <2>2 DEF DropNamed, Status, Result
    <3>2. CatalogueOK(t) /\ Keeps(x, s, t) /\ ActiveName(t) = ActiveName(s)
      BY DropTableKeeps
    <3> HIDE DEF t
    <3> QED BY <1>1, <2>2, <3>1, <3>2, LocalFrom
  <2> QED BY <2>1, <2>2
<1> HIDE DEF OK
<1>9. OK(Translate(q, s).schema)
  <2>1. CASE q.error
    BY <1>1, <1>2, <2>1 DEF Translate, QueryOK, Statements
  <2>2. CASE ~q.error
    <3>1. CASE q.type = "CREATE_DB"
      BY <1>5, <2>2, <3>1 DEF Translate
    <3>2. CASE q.type = "CREATE_TABLE"
      BY <1>6, <2>2, <3>2 DEF Translate
    <3>3. CASE q.type = "USE"
      BY <1>7, <2>2, <3>3 DEF Translate
    <3>4. CASE q.type = "DROP"
      BY <1>8, <2>2, <3>4 DEF Translate
    <3>5. CASE q.type \in Statements \ {"CREATE_DB", "CREATE_TABLE", "USE", "DROP"}
      <4>1. Translate(q, s).schema = s
        BY <1>2, <1>3, <1>4, <2>2, <3>5 DEF Translate, Statements
      <4> QED BY <1>1, <4>1
    <3> QED BY <2>2, <3>1, <3>2, <3>3, <3>4, <3>5 DEF QueryOK
  <2> QED BY <2>1, <2>2
<1> QED BY <1>9 DEF OK
-----------------------------------------------------------------------------
(***************************************************************************)
(* Results: a command that is a sequence of words, and rows as wide as the   *)
(* headers.                                                                 *)
(***************************************************************************)
Wide(headers, rows) ==
    /\ IsSeq(headers) /\ IsSeq(rows)
    /\ \A i \in DOMAIN rows : DOMAIN rows[i] = DOMAIN headers
Shaped(r) ==
    /\ {"headers", "rows", "cmd", "error"} \subseteq DOMAIN r
    /\ Wide(r.headers, r.rows) /\ IsSeq(r.cmd)

\* A sequence that has a value for each entry of another one.
LEMMA MappedSeq ==
    ASSUME NEW seq, IsSeq(seq), NEW f, f = [i \in DOMAIN seq |-> f[i]]
    PROVE  IsSeq(f) /\ Len(f) = Len(seq) /\ DOMAIN f = DOMAIN seq
<1>1. DOMAIN seq = 1..Len(seq) /\ Len(seq) \in Nat
  BY Domain
<1>2. f = [i \in 1..Len(seq) |-> f[i]]
  BY <1>1
<1>3. IsSeq(f) /\ Len(f) = Len(seq)
  BY <1>1, <1>2, BuiltSeq
<1> QED BY <1>1, <1>3, Domain

\* What is behind the first entry.
LEMMA TailSeq == ASSUME NEW seq, IsSeq(seq), seq # <<>> PROVE IsSeq(Tail(seq))
<1> DEFINE S == {seq[i] : i \in DOMAIN seq}
<1>1. seq \in Seq(S)
  BY InSeqOf
<1> HIDE DEF S
<1>2. Tail(seq) \in Seq(S)
  BY <1>1, HeadTailProperties
<1> QED BY <1>2, SeqIs

\* What is behind some entries of a sequence, and the first of them.
LEMMA RestSeq ==
    ASSUME NEW seq, IsSeq(seq), NEW m \in Nat, m >= 1
    PROVE  IsSeq(SubSeq(seq, m, Len(seq)))
<1> DEFINE S == {seq[i] : i \in DOMAIN seq}
<1>1. seq \in Seq(S) /\ Len(seq) \in Nat /\ DOMAIN seq = 1..Len(seq)
  BY InSeqOf, Domain
<1>2. \A i \in 1..Len(seq) : seq[i] \in S
  BY <1>1
<1> HIDE DEF S
<1>3. SubSeq(seq, m, Len(seq)) \in Seq(S)
  BY <1>1, <1>2, SubSeqProperties
<1> QED BY <1>3, SeqIs

\* The words of a text, and a key made of it.
LEMMA WordsSeq == ASSUME NEW text, IsSeq(text) PROVE IsSeq(Words(text))
<1> DEFINE w == Words(text)
<1>1. w = [i \in DOMAIN text |-> w[i]]
  BY DEF Words
<1> QED BY <1>1, MappedSeq

\* What sprintf puts before a word leaves a text.
LEMMA GluedSeq == ASSUME NEW prefix, NEW text, IsSeq(text) PROVE IsSeq(Glued(prefix, text))
<1>1. CASE text = <<>>
  BY <1>1, Literals DEF Glued
<1>2. CASE text # <<>>
  <2>1. IsSeq(Words(Tail(text)))
    BY <1>2, TailSeq, WordsSeq
  <2>2. IsSeq(<<Append(prefix, Head(text))>>)
    BY Literals
  <2>3. IsSeq(<<Append(prefix, Head(text))>> \o Words(Tail(text)))
    BY <2>1, <2>2, Joins
  <2> QED BY <1>2, <2>3 DEF Glued
<1> QED BY <1>1, <1>2

\* The key of a row is a text.
LEMMA KeySeq == ASSUME NEW s, NEW q, NEW text, IsSeq(text) PROVE IsSeq(Key(s, q, text))
BY WordsSeq, GluedSeq DEF Key

\* A command of a name and a key, with or without more words.
LEMMA CommandSeq ==
    ASSUME NEW name, NEW a, IsSeq(a), NEW b, IsSeq(b)
    PROVE  /\ IsSeq(<<name>> \o a)
           /\ IsSeq(<<name>> \o a \o b)
<1>1. IsSeq(<<name>>)
  BY Literals
<1>2. IsSeq(<<name>> \o a)
  BY <1>1, Joins
<1> QED BY <1>2, Joins

\* The parts of a sequence of sequences, one behind the other.
LEMMA FlattenSeqIs ==
    ASSUME NEW seqs, IsSeq(seqs), \A i \in DOMAIN seqs : IsSeq(seqs[i])
    PROVE  IsSeq(FlattenSeq(seqs))
<1> DEFINE N == Len(seqs)
           S == UNION {{seqs[i][j] : j \in DOMAIN seqs[i]} : i \in DOMAIN seqs}
           D == Seq(S)
           Runs(g) == g = [i \in 1..N |-> IF i = 1 THEN seqs[i] ELSE g[i - 1] \o seqs[i]]
           h == CHOOSE g : Runs(g)
<1>1. N \in Nat /\ DOMAIN seqs = 1..N
  BY Domain
<1>2. ASSUME NEW i \in 1..N PROVE seqs[i] \in D
  <2>1. i \in DOMAIN seqs /\ IsSeq(seqs[i])
    BY <1>1
  <2>2. \A j \in DOMAIN seqs[i] : seqs[i][j] \in S
    BY <2>1
  <2> HIDE DEF S
  <2> QED BY <2>1, <2>2, InSeqOf
<1>3. \A a, b \in D : a \o b \in D
  <2> HIDE DEF S
  <2> QED OBVIOUS
<1>4. <<>> \in D
  OBVIOUS
<1> HIDE DEF S, D
<1>5. CASE N = 0
  BY <1>5 DEF FlattenSeq
<1>6. CASE N # 0
  <2> DEFINE G == [n \in Nat |-> [a \in D |->
                      IF n + 1 \notin 1..N THEN a ELSE IF n = 0 THEN seqs[1] ELSE a \o seqs[n + 1]]]
  <2>1. G \in [Nat -> [D -> D]]
    <3> SUFFICES ASSUME NEW n \in Nat, NEW a \in D
                 PROVE  (IF n + 1 \notin 1..N THEN a
                         ELSE IF n = 0 THEN seqs[1] ELSE a \o seqs[n + 1]) \in D
      OBVIOUS
    <3>1. CASE n + 1 \in 1..N
      <4>1. seqs[n + 1] \in D /\ 0 + 1 = 1
        BY <1>2, <3>1
      <4> QED BY <1>3, <3>1, <4>1
    <3> QED BY <3>1
  <2>2. PICK f : Continues(f, D, <<>>, G)
    <3> HIDE DEF G
    <3> QED BY <1>4, <2>1, FunctionExists
  <2> DEFINE w == [i \in 1..N |-> f[i]]
  <2>3. ASSUME NEW i \in 1..N
        PROVE  w[i] = (IF i = 1 THEN seqs[i] ELSE w[i - 1] \o seqs[i])
    <3>1. i - 1 \in Nat /\ (i - 1) + 1 = i /\ i \in Nat
      BY <1>1
    <3>2. f[i] = G[i - 1][f[i - 1]] /\ f[i - 1] \in D
      <4> HIDE DEF G
      <4> QED BY <2>2, <3>1 DEF Continues
    <3>3. f[i] = IF i - 1 = 0 THEN seqs[1] ELSE f[i - 1] \o seqs[i]
      BY <3>1, <3>2
    <3>4. CASE i = 1
      BY <3>3, <3>4
    <3>5. CASE i # 1
      <4>1. i - 1 # 0 /\ i - 1 \in 1..N
        BY <1>1, <3>1, <3>5
      <4> QED BY <3>3, <3>5, <4>1
    <3> QED BY <3>4, <3>5
  <2>4. Runs(w)
    BY <2>3
  <2>5. Runs(h)
    <3> HIDE DEF Runs, w
    <3> QED BY <2>4
  <2>6. FlattenSeq(seqs) = h[N]
    BY <1>6 DEF FlattenSeq
  <2> HIDE DEF h
  <2> DEFINE T == {n \in Nat : n \in 1..N => h[n] \in D}
  <2>7. 0 \in T
    OBVIOUS
  <2>8. ASSUME NEW n \in Nat, n \in T PROVE n + 1 \in T
    <3> SUFFICES ASSUME n + 1 \in 1..N PROVE h[n + 1] \in D
      OBVIOUS
    <3>1. h[n + 1] = IF n + 1 = 1 THEN seqs[n + 1] ELSE h[(n + 1) - 1] \o seqs[n + 1]
      BY <2>5
    <3>2. seqs[n + 1] \in D
      BY <1>2
    <3>3. CASE n = 0
      BY <3>1, <3>2, <3>3
    <3>4. CASE n # 0
      <4>1. n \in 1..N /\ (n + 1) - 1 = n /\ n + 1 # 1
        BY <1>1, <3>4
      <4>2. h[n] \in D
        BY <2>8, <4>1
      <4> QED BY <1>3, <3>1, <3>2, <4>1, <4>2
    <3> QED BY <3>3, <3>4
  <2>9. Nat \subseteq T
    <3> HIDE DEF T
    <3> QED BY <2>7, <2>8, SetInduction
  <2>10. N \in 1..N /\ N \in Nat
    BY <1>1, <1>6
  <2>11. h[N] \in D
    BY <2>9, <2>10
  <2> QED BY <2>6, <2>11, SeqIs DEF D
<1> QED BY <1>5, <1>6

\* The three kinds of answers without rows of data.
LEMMA StatusShaped ==
    ASSUME NEW s, NEW cmd, IsSeq(cmd), NEW word
    PROVE  Shaped(Status(s, cmd, word))
<1>1. /\ IsSeq(<<"Status">>) /\ Len(<<"Status">>) = 1
      /\ IsSeq(<< <<word>> >>) /\ Len(<< <<word>> >>) = 1
      /\ IsSeq(<< << <<word>> >> >>) /\ Len(<< << <<word>> >> >>) = 1
  BY Literals
<1>2. DOMAIN <<"Status">> = 1..1 /\ DOMAIN << << <<word>> >> >> = 1..1 /\ DOMAIN << <<word>> >> = 1..1
  BY <1>1, Domain
<1>3. << << <<word>> >> >>[1] = << <<word>> >>
  OBVIOUS
<1>4. Wide(<<"Status">>, << << <<word>> >> >>)
  BY <1>1, <1>2, <1>3 DEF Wide
<1> QED BY <1>4 DEF Status, Result, Shaped

\* A refused statement has no rows.
LEMMA RefusedShaped == ASSUME NEW s PROVE Shaped(Refused(s))
<1>1. Wide(<<>>, <<>>)
  BY EmptyIsSeq DEF Wide
<1> QED BY <1>1, EmptyIsSeq DEF Refused, Result, Shaped

\* The rows of a LIST have one cell, as has its header.
LEMMA ListingShaped ==
    ASSUME NEW header, NEW seq, IsSeq(seq), NEW s
    PROVE  Shaped(Listing(header, seq, s))
<1> DEFINE rows == [i \in DOMAIN seq |-> << <<seq[i].name>> >>]
<1>1. IsSeq(rows) /\ DOMAIN rows = DOMAIN seq
  <2>1. rows = [i \in DOMAIN seq |-> rows[i]]
    OBVIOUS
  <2> HIDE DEF rows
  <2> QED BY <2>1, MappedSeq
<1>2. IsSeq(<<header>>) /\ DOMAIN <<header>> = 1..1 /\ IsSeq(Ping)
  BY Literals, Domain DEF Ping
<1>3. ASSUME NEW i \in DOMAIN rows PROVE DOMAIN rows[i] = 1..1
  <2>1. rows[i] = << <<seq[i].name>> >>
    BY <1>1
  <2>2. DOMAIN << <<seq[i].name>> >> = 1..1
    BY Literals, Domain
  <2> QED BY <2>1, <2>2
<1> HIDE DEF rows
<1>4. Wide(<<header>>, rows)
  BY <1>1, <1>2, <1>3 DEF Wide
<1> QED BY <1>2, <1>4 DEF Listing, Result, Shaped, rows

\* The columns of a table that is known, and their names.
LEMMA KnownColumns ==
    ASSUME NEW s, CatalogueOK(s), NEW table, Known(s, table)
    PROVE  /\ IsSeq(Columns(s, table)) /\ IsSeq(Headers(Columns(s, table)))
           /\ DOMAIN Headers(Columns(s, table)) = DOMAIN Columns(s, table)
<1> DEFINE dbs == s.databases
           k == IndexOf(dbs, DbName(s))
           tables == dbs[k].tables
           i == IndexOf(tables, table)
           cols == Columns(s, table)
<1>1. Named(dbs, DbName(s)) /\ Named(tables, table)
  BY DEF Known, HasTable, TablesOf
<1>2. k \in DOMAIN dbs
  BY <1>1, IndexNamed DEF CatalogueOK, DatabasesOK
<1>3. TablesOK(tables)
  BY <1>2 DEF CatalogueOK, DatabasesOK
<1>4. cols = tables[i].cols
  BY DEF Columns, ColumnsOf, TablesOf
<1> HIDE DEF k, tables
<1>5. i \in DOMAIN tables
  BY <1>1, <1>3, IndexNamed DEF TablesOK
<1> HIDE DEF i
<1>6. IsSeq(cols)
  BY <1>3, <1>4, <1>5 DEF TablesOK
<1> HIDE DEF cols
<1> DEFINE h == Headers(cols)
<1>7. h = [j \in DOMAIN cols |-> h[j]]
  BY DEF Headers
<1> HIDE DEF h
<1>8. IsSeq(h) /\ DOMAIN h = DOMAIN cols
  BY <1>6, <1>7, MappedSeq
<1> QED BY <1>6, <1>8 DEF h, cols

\* SELECT: one row that is pending, or none yet.
LEMMA SelectShaped ==
    ASSUME NEW q, NEW s, CatalogueOK(s), TextsOK(q)
    PROVE  Shaped(SelectRows(q, s))
<1> DEFINE h == Headers(Columns(s, q.table))
           row == [i \in DOMAIN h |-> Pending]
<1>1. CASE q.key = Null
  <2> DEFINE headers == IF Known(s, q.table) THEN h ELSE <<"Key">>
             key == <<DbName(s), q.table, "*">>
             cmd == << <<"HSCANALL">>, key >>
  <2>1. SelectRows(q, s) = Result(s, cmd, headers, <<>>)
    BY <1>1 DEF SelectRows
  <2>2. IsSeq(headers)
    BY KnownColumns, Literals
  <2> HIDE DEF headers, key
  <2>3. IsSeq(cmd)
    <3>1. cmd \in Seq({<<"HSCANALL">>, key})
      OBVIOUS
    <3> QED BY <3>1, SeqIs
  <2> HIDE DEF cmd
  <2>4. Wide(headers, <<>>)
    BY <2>2, EmptyIsSeq DEF Wide
  <2> QED BY <2>1, <2>3, <2>4 DEF Result, Shaped
<1>2. CASE q.key # Null /\ ~Known(s, q.table)
  BY <1>2, RefusedShaped DEF SelectRows
<1>3. CASE q.key # Null /\ Known(s, q.table)
  <2> DEFINE cmd == << <<"HGETALL">> >> \o Key(s, q, q.key)
  <2>1. SelectRows(q, s) = Result(s, cmd, h, <<row>>)
    BY <1>3 DEF SelectRows
  <2>2. IsSeq(cmd)
    <3>1. IsSeq(Key(s, q, q.key))
      BY <1>3, KeySeq DEF TextsOK
    <3> QED BY <3>1, CommandSeq
  <2>3. IsSeq(h)
    BY <1>3, KnownColumns
  <2> HIDE DEF h, cmd
  <2>4. DOMAIN row = DOMAIN h
    OBVIOUS
  <2> HIDE DEF row
  <2>5. IsSeq(<<row>>) /\ DOMAIN <<row>> = 1..1 /\ <<row>>[1] = row
    BY Literals, Domain
  <2>6. Wide(h, <<row>>)
    BY <2>3, <2>4, <2>5 DEF Wide
  <2> QED BY <2>1, <2>2, <2>6 DEF Result, Shaped
<1> QED BY <1>1, <1>2, <1>3

\* The column of the key is one of the columns, or the first of none.
LEMMA KeyColumnIs ==
    ASSUME NEW cols, IsSeq(cols)
    PROVE  KeyColumn(cols) = 1 \/ KeyColumn(cols) \in DOMAIN cols
<1>1. CASE \A i \in DOMAIN cols : ~cols[i].primary
  BY <1>1 DEF KeyColumn
<1>2. CASE ~ \A i \in DOMAIN cols : ~cols[i].primary
  <2> DEFINE T == {i \in DOMAIN cols : cols[i].primary}
             P(i) == cols[i].primary /\ \A j \in DOMAIN cols : cols[j].primary => j <= i
  <2>1. DOMAIN cols = 1..Len(cols) /\ Len(cols) \in Nat
    BY Domain
  <2>2. T \in SUBSET Nat /\ T # {} /\ \A i \in T : i <= Len(cols)
    BY <1>2, <2>1
  <2>3. PICK i \in T : \A j \in T : j <= i
    <3> HIDE DEF T
    <3> QED BY <2>1, <2>2, Highest
  <2>4. i \in DOMAIN cols /\ P(i)
    BY <2>3
  <2>5. KeyColumn(cols) = CHOOSE j \in DOMAIN cols : P(j)
    BY <1>2 DEF KeyColumn
  <2> HIDE DEF P
  <2> QED BY <2>4, <2>5
<1> QED BY <1>1, <1>2

\* INSERT: the command has the key and what the columns get.
LEMMA InsertRowShaped ==
    ASSUME NEW q, NEW s, CatalogueOK(s), TextsOK(q), Known(s, q.table)
    PROVE  Shaped(InsertRow(q, s))
<1> DEFINE cols == Columns(s, q.table)
           keyed == Len(q.vals) > Len(cols)
           offset == IF keyed THEN 1 ELSE 0
           at == IF keyed THEN 1 ELSE KeyColumn(cols)
           n == IF keyed THEN Len(cols) ELSE Len(q.vals)
           parts == [i \in 1..n |-> << <<cols[i].name>> >> \o Words(q.vals[i + offset])]
           cmd == << <<"HSET">> >> \o Key(s, q, q.vals[at]) \o FlattenSeq(parts)
<1>1. CASE Len(q.vals) < at
  BY <1>1, RefusedShaped DEF InsertRow
<1>2. CASE ~(Len(q.vals) < at)
  <2>1. InsertRow(q, s) = Status(s, cmd, "OK")
    BY <1>2 DEF InsertRow
  <2>2. IsSeq(cols) /\ DOMAIN cols = 1..Len(cols) /\ Len(cols) \in Nat
    BY KnownColumns, Domain
  <2>3. DOMAIN q.vals = 1..Len(q.vals) /\ Len(q.vals) \in Nat
        /\ \A i \in DOMAIN q.vals : IsSeq(q.vals[i])
    BY Domain DEF TextsOK
  <2>4. at = 1 \/ at \in DOMAIN cols
    BY <2>2, KeyColumnIs
  <2> HIDE DEF cols
  <2>5. at \in DOMAIN q.vals
    <3> HIDE DEF at
    <3> QED BY <1>2, <2>2, <2>3, <2>4
  <2>6. IsSeq(Key(s, q, q.vals[at]))
    <3> HIDE DEF at
    <3> QED BY <2>3, <2>5, KeySeq
  <2>7. n \in Nat /\ \A i \in 1..n : i + offset \in DOMAIN q.vals
    BY <2>2, <2>3
  <2> HIDE DEF n, offset, at
  <2>8. ASSUME NEW i \in 1..n PROVE IsSeq(parts[i])
    <3>1. parts[i] = << <<cols[i].name>> >> \o Words(q.vals[i + offset])
      OBVIOUS
    <3>2. IsSeq(Words(q.vals[i + offset]))
      BY <2>3, <2>7, WordsSeq
    <3> QED BY <3>1, <3>2, CommandSeq
  <2>9. IsSeq(parts) /\ DOMAIN parts = 1..n
    <3>1. parts = [i \in 1..n |-> parts[i]]
      OBVIOUS
    <3> HIDE DEF parts
    <3>2. IsSeq(parts) /\ Len(parts) = n
      BY <2>7, <3>1, BuiltSeq
    <3> QED BY <3>2, Domain
  <2> HIDE DEF parts
  <2>10. IsSeq(FlattenSeq(parts))
    BY <2>8, <2>9, FlattenSeqIs
  <2>11. IsSeq(cmd)
    BY <2>6, <2>10, CommandSeq
  <2> HIDE DEF cmd
  <2> QED BY <2>1, <2>11, StatusShaped
<1> QED BY <1>1, <1>2

\* Whatever a statement is translated to.
LEMMA TranslateShaped ==
    ASSUME NEW q, NEW s, CatalogueOK(s), QueryOK(q)
    PROVE  Shaped(Translate(q, s))
<1>1. TextsOK(q) /\ Shaped(Refused(s))
  BY RefusedShaped DEF QueryOK
<1>2. Shaped(SelectRows(q, s))
  BY <1>1, SelectShaped
<1>3. Shaped(InsertValues(q, s))
  <2>1. CASE q.vals = <<>> \/ (~Known(s, q.table) /\ (q.table # Null \/ q.val = Null))
    BY <1>1, <2>1 DEF InsertValues
  <2>2. CASE q.vals # <<>> /\ Known(s, q.table)
    BY <1>1, <2>2, InsertRowShaped DEF InsertValues
  <2>3. CASE q.vals # <<>> /\ ~Known(s, q.table) /\ ~(q.table # Null \/ q.val = Null)
    <3>1. IsSeq(Words(q.key)) /\ IsSeq(Words(q.val))
      BY <1>1, <2>3, WordsSeq DEF TextsOK
    <3>2. IsSeq(<< <<"SET">> >> \o Words(q.key) \o Words(q.val))
      BY <3>1, CommandSeq
    <3> QED BY <2>3, <3>2, StatusShaped DEF InsertValues
  <2> QED BY <2>1, <2>2, <2>3
<1>4. Shaped(DeleteRow(q, s))
  <2>1. CASE q.key = Null \/ ~(q.table = Null \/ Known(s, q.table))
    BY <1>1, <2>1 DEF DeleteRow
  <2>2. CASE ~(q.key = Null \/ ~(q.table = Null \/ Known(s, q.table)))
    <3>1. IsSeq(Key(s, q, q.key))
      BY <1>1, <2>2, KeySeq DEF TextsOK
    <3>2. IsSeq(<< <<"DEL">> >> \o Key(s, q, q.key))
      BY <3>1, CommandSeq
    <3> QED BY <2>2, <3>2, StatusShaped DEF DeleteRow
  <2> QED BY <2>1, <2>2
<1>5. Shaped(UpdateRow(q, s))
  <2>1. CASE q.key = Null \/ q.val = Null \/ ~(q.table = Null \/ Known(s, q.table))
    BY <1>1, <2>1 DEF UpdateRow
  <2>2. CASE ~(q.key = Null \/ q.val = Null \/ ~(q.table = Null \/ Known(s, q.table)))
    <3>1. IsSeq(Key(s, q, q.key)) /\ IsSeq(Words(q.val))
      BY <1>1, <2>2, KeySeq, WordsSeq DEF TextsOK
    <3>2. IsSeq(<< <<"SET">> >> \o Key(s, q, q.key) \o Words(q.val))
      BY <3>1, CommandSeq
    <3> QED BY <2>2, <3>2, StatusShaped DEF UpdateRow
  <2> QED BY <2>1, <2>2
<1>6. IsSeq(Ping)
  BY Literals DEF Ping
<1>7. Shaped(CreateDb(q, s)) /\ Shaped(CreateTbl(q, s))
  <2>1. IsSeq(<< <<"HSET">>, <<"_sys", "db", Head(q.key)>>, <<"created">>, <<"1">> >>)
    BY Literals
  <2>2. IsSeq(<< <<"HSET">>, <<"_sys", "schema", DbName(s), q.table>>, <<"cols">>,
                 Headers(q.cols) >>)
    BY Literals
  <2> QED BY <1>1, <2>1, <2>2, StatusShaped DEF CreateDb, CreateTbl
<1>8. Shaped(UseDb(q, s)) /\ Shaped(DropNamed(q, s))
  BY <1>1, <1>6, StatusShaped DEF UseDb, DropNamed
<1>9. Shaped(ListNames(q, s))
  <2>1. IsSeq(s.databases)
    BY DEF CatalogueOK, DatabasesOK
  <2>2. s.current # 0 => IsSeq(s.databases[s.current].tables)
    <3> SUFFICES ASSUME s.current # 0 PROVE s.current \in DOMAIN s.databases
      BY DEF CatalogueOK, DatabasesOK, TablesOK
    <3>1. DOMAIN s.databases = 1..Len(s.databases) /\ Len(s.databases) \in Nat
      BY <2>1, Domain
    <3> QED BY <3>1 DEF CatalogueOK
  <2> QED BY <1>1, <2>1, <2>2, ListingShaped DEF ListNames
<1>10. Shaped(Result(s, <<>>, <<"Action">>, << << <<"CLEAR_SCREEN">> >> >>))
  <2>1. /\ IsSeq(<<"Action">>) /\ DOMAIN <<"Action">> = 1..1
        /\ IsSeq(<< << <<"CLEAR_SCREEN">> >> >>) /\ DOMAIN << << <<"CLEAR_SCREEN">> >> >> = 1..1
        /\ DOMAIN << <<"CLEAR_SCREEN">> >> = 1..1
    BY Literals, Domain
  <2>2. << << <<"CLEAR_SCREEN">> >> >>[1] = << <<"CLEAR_SCREEN">> >>
    OBVIOUS
  <2>3. Wide(<<"Action">>, << << <<"CLEAR_SCREEN">> >> >>)
    BY <2>1, <2>2 DEF Wide
  <2> QED BY <2>3, EmptyIsSeq DEF Result, Shaped
<1>11. Shaped(Result(s, <<>>, <<"Command", "Description">>, <<>>))
  <2>1. <<"Command", "Description">> \in Seq({"Command", "Description"})
    OBVIOUS
  <2>2. IsSeq(<<"Command", "Description">>)
    BY <2>1, SeqIs
  <2>3. Wide(<<"Command", "Description">>, <<>>)
    BY <2>2, EmptyIsSeq DEF Wide
  <2> QED BY <2>3, EmptyIsSeq DEF Result, Shaped
<1>12. CASE q.error
  BY <1>1, <1>12 DEF Translate
<1>13. CASE ~q.error
  BY <1>2, <1>3, <1>4, <1>5, <1>7, <1>8, <1>9, <1>10, <1>11, <1>13 DEF Translate, QueryOK, Statements
<1> QED BY <1>12, <1>13
-----------------------------------------------------------------------------
(***************************************************************************)
(* The store has finitely many hashes of finitely many fields, so that what  *)
(* a reply carries is a sequence.                                           *)
(***************************************************************************)
IsFcn(f) == f = [x \in DOMAIN f |-> f[x]]
FiniteHashes(h) == /\ IsFcn(h) /\ IsFiniteSet(DOMAIN h)
                   /\ \A k \in DOMAIN h : IsFiniteSet(DOMAIN h[k])
FiniteStore(db) ==
    /\ db = [strings |-> db.strings, hashes |-> db.hashes]
    /\ IsFcn(db.strings) /\ FiniteHashes(db.hashes)

\* A store that has no more than another one.
LEMMA PartOf ==
    ASSUME NEW db, FiniteStore(db), NEW A, NEW B \in SUBSET DOMAIN db.hashes
    PROVE  FiniteStore([strings |-> [x \in A |-> db.strings[x]],
                        hashes |-> [x \in B |-> db.hashes[x]]])
<1> DEFINE f == [x \in A |-> db.strings[x]]
           h == [x \in B |-> db.hashes[x]]
<1>1. IsFcn(f) /\ IsFcn(h)
  BY DEF IsFcn
<1>2. DOMAIN h = B /\ \A k \in B : h[k] = db.hashes[k]
  OBVIOUS
<1>3. IsFiniteSet(B)
  BY FS_Subset DEF FiniteStore, FiniteHashes
<1>4. FiniteHashes(h)
  <2> HIDE DEF h
  <2> QED BY <1>1, <1>2, <1>3 DEF FiniteStore, FiniteHashes
<1> HIDE DEF f, h
<1>5. FiniteStore([strings |-> f, hashes |-> h])
  BY <1>1, <1>4 DEF FiniteStore
<1> QED BY <1>5 DEF f, h

\* The stores with no more than db, and delete_key stays among them.
Parts(db) == {[strings |-> [x \in A |-> db.strings[x]], hashes |-> [x \in B |-> db.hashes[x]]] :
                A \in SUBSET DOMAIN db.strings, B \in SUBSET DOMAIN db.hashes}

\* Deletions from a part of a store leave a part of it.
LEMMA DeleteParts ==
    ASSUME NEW db, FiniteStore(db)
    PROVE  /\ db \in Parts(db)
           /\ \A d \in Parts(db) : FiniteStore(d) /\ \A k : DeleteKey(d, k) \in Parts(db)
<1> DEFINE P(A, B) == [strings |-> [x \in A |-> db.strings[x]], hashes |-> [x \in B |-> db.hashes[x]]]
<1>1. db = P(DOMAIN db.strings, DOMAIN db.hashes)
  BY DEF FiniteStore, FiniteHashes, IsFcn
<1>2. db \in Parts(db)
  BY <1>1 DEF Parts
<1>3. ASSUME NEW A \in SUBSET DOMAIN db.strings, NEW B \in SUBSET DOMAIN db.hashes
      PROVE  FiniteStore(P(A, B))
  BY PartOf
<1>4. ASSUME NEW A \in SUBSET DOMAIN db.strings, NEW B \in SUBSET DOMAIN db.hashes, NEW k
      PROVE  DeleteKey(P(A, B), k) \in {P(A \ {k}, B), P(A, B \ {k})}
  <2>1. /\ P(A, B).strings = [x \in A |-> db.strings[x]]
        /\ P(A, B).hashes = [x \in B |-> db.hashes[x]]
    OBVIOUS
  <2>2. CASE k \in A
    <3>1. DeleteKey(P(A, B), k) = [P(A, B) EXCEPT !.strings = Lose(@, k)]
      BY <2>1, <2>2 DEF DeleteKey
    <3>2. Lose([x \in A |-> db.strings[x]], k) = [x \in A \ {k} |-> db.strings[x]]
      BY DEF Lose, Restrict
    <3> QED BY <3>1, <3>2
  <2>3. CASE k \notin A
    <3>1. DeleteKey(P(A, B), k) = [P(A, B) EXCEPT !.hashes = Lose(@, k)]
      BY <2>1, <2>3 DEF DeleteKey
    <3>2. Lose([x \in B |-> db.hashes[x]], k) = [x \in B \ {k} |-> db.hashes[x]]
      BY DEF Lose, Restrict
    <3> QED BY <3>1, <3>2
  <2> QED BY <2>2, <2>3
<1>5. ASSUME NEW d \in Parts(db) PROVE FiniteStore(d) /\ \A k : DeleteKey(d, k) \in Parts(db)
  <2>1. PICK A \in SUBSET DOMAIN db.strings, B \in SUBSET DOMAIN db.hashes : d = P(A, B)
    BY DEF Parts
  <2>2. ASSUME NEW C \in SUBSET DOMAIN db.strings, NEW E \in SUBSET DOMAIN db.hashes
        PROVE  P(C, E) \in Parts(db)
    <3>1. Parts(db) = {P(A1, B1) : A1 \in SUBSET DOMAIN db.strings, B1 \in SUBSET DOMAIN db.hashes}
      BY DEF Parts
    <3> HIDE DEF P
    <3> QED BY <3>1
  <2>3. FiniteStore(d)
    BY <1>3, <2>1
  <2>4. ASSUME NEW k PROVE DeleteKey(d, k) \in Parts(db)
    <3>1. DeleteKey(d, k) \in {P(A \ {k}, B), P(A, B \ {k})}
      BY <1>4, <2>1
    <3>2. A \ {k} \in SUBSET DOMAIN db.strings /\ B \ {k} \in SUBSET DOMAIN db.hashes
      BY <2>1
    <3>3. P(A \ {k}, B) \in Parts(db) /\ P(A, B \ {k}) \in Parts(db)
      BY <2>2, <3>2
    <3> HIDE DEF P
    <3> QED BY <3>1, <3>3
  <2> QED BY <2>3, <2>4
<1> QED BY <1>2, <1>5

\* The highest of some positions.
LEMMA MaxIs ==
    ASSUME NEW n \in Nat, NEW x \in SUBSET (1..n), x # {}
    PROVE  Max(x) \in x /\ \A y \in x : y <= Max(x)
<1>1. x \in SUBSET Nat /\ \A y \in x : y <= n /\ y \in Nat
  OBVIOUS
<1>2. PICK m \in x : \A y \in x : y <= m
  BY <1>1, Highest
<1>3. \A y \in x : m >= y
  BY <1>1, <1>2
<1>4. Max(x) \in x /\ \A y \in x : Max(x) >= y
  BY <1>3 DEF Max
<1> QED BY <1>1, <1>4

\* Deleting several keys, one after the other.
LEMMA DeletesIs ==
    ASSUME NEW db, FiniteStore(db), NEW keys, IsSeq(keys)
    PROVE  FiniteStore(FoldLeft(DeleteKey, db, keys))
<1> DEFINE N == Len(keys)
           D == Parts(db)
           Runs(it) == it = [x \in SUBSET (1..N) |->
                               IF x = {} THEN db ELSE DeleteKey(it[x \ {Max(x)}], keys[Max(x)])]
           h == CHOOSE it : Runs(it)
<1>1. N \in Nat /\ DOMAIN keys = 1..N
  BY Domain
<1>2. db \in D /\ \A d \in D : FiniteStore(d) /\ \A k : DeleteKey(d, k) \in D
  BY DeleteParts
<1>3. FoldLeft(DeleteKey, db, keys) = h[1..N]
  <2>1. FoldLeft(DeleteKey, db, keys) =
          (CHOOSE it : it = [x \in SUBSET DOMAIN keys |->
             IF x = {} THEN db ELSE DeleteKey(it[x \ {Max(x)}], keys[Max(x)])])[DOMAIN keys]
    BY DEF FoldLeft, MapThenFoldSet
  <2> QED BY <1>1, <2>1
<1> HIDE DEF N, D
<1>4. \E it : Runs(it)
  <2> DEFINE F == [SUBSET (1..N) -> D]
             base == [x \in SUBSET (1..N) |-> db]
             step(n, g) == [x \in SUBSET (1..N) |->
                              IF n + 1 \in x THEN DeleteKey(g[x \ {n + 1}], keys[n + 1]) ELSE g[x]]
             G == [n \in Nat |-> [g \in F |-> step(n, g)]]
  <2>1. base \in F
    BY <1>2
  <2>2. ASSUME NEW n \in Nat, NEW g \in F PROVE step(n, g) \in F
    <3> SUFFICES ASSUME NEW x \in SUBSET (1..N)
                 PROVE  (IF n + 1 \in x THEN DeleteKey(g[x \ {n + 1}], keys[n + 1]) ELSE g[x]) \in D
      OBVIOUS
    <3>1. g[x] \in D /\ g[x \ {n + 1}] \in D
      BY <2>2
    <3> QED BY <1>2, <3>1
  <2> HIDE DEF step, F, base
  <2>3. G \in [Nat -> [F -> F]]
    BY <2>2
  <2>4. PICK f : Continues(f, F, base, G)
    <3> HIDE DEF G
    <3> QED BY <2>1, <2>3, FunctionExists
  <2>5. ASSUME NEW n \in Nat
        PROVE  /\ f[n] \in F /\ f[n + 1] = step(n, f[n])
    BY <2>4 DEF Continues
  <2>6. f[0] = base
    BY <2>4 DEF Continues
  <2> HIDE DEF G
  <2> DEFINE Right(n, x) == f[n][x] = IF x = {} THEN db
                                        ELSE DeleteKey(f[n][x \ {Max(x)}], keys[Max(x)])
             Fits(n) == \A x \in SUBSET (1..N) : x \subseteq 1..n => Right(n, x)
             S == {n \in Nat : Fits(n)}
  <2>7. 0 \in S
    <3> SUFFICES ASSUME NEW x \in SUBSET (1..N), x \subseteq 1..0 PROVE f[0][x] = db /\ x = {}
      OBVIOUS
    <3> QED BY <2>6 DEF base
  <2>8. ASSUME NEW n \in Nat, n \in S PROVE n + 1 \in S
    <3> SUFFICES ASSUME NEW x \in SUBSET (1..N), x \subseteq 1..(n + 1)
                 PROVE  Right(n + 1, x)
      <4> HIDE DEF Right
      <4> QED OBVIOUS
    <3>1. \A y \in SUBSET (1..N) : f[n + 1][y] =
             IF n + 1 \in y THEN DeleteKey(f[n][y \ {n + 1}], keys[n + 1]) ELSE f[n][y]
      BY <2>5 DEF step
    <3>2. CASE n + 1 \in x
      <4>1. Max(x) \in x /\ \A y \in x : y <= Max(x)
        BY <1>1, <3>2, MaxIs
      <4>2. Max(x) = n + 1
        <5> DEFINE m == Max(x)
        <5> HIDE DEF m
        <5>1. m \in x /\ \A y \in x : y <= m
          BY <4>1 DEF m
        <5>2. m \in 1..(n + 1) /\ n + 1 <= m
          BY <3>2, <5>1
        <5> QED BY <5>2 DEF m
      <4>3. x \ {n + 1} \in SUBSET (1..N) /\ n + 1 \notin x \ {n + 1} /\ x # {}
        BY <3>2
      <4>4. f[n + 1][x \ {n + 1}] = f[n][x \ {n + 1}]
        BY <3>1, <4>3
      <4> QED BY <3>1, <3>2, <4>2, <4>3, <4>4
    <3>3. CASE n + 1 \notin x
      <4>1. x \subseteq 1..n
        BY <3>3
      <4>2. f[n][x] = IF x = {} THEN db ELSE DeleteKey(f[n][x \ {Max(x)}], keys[Max(x)])
        BY <2>8, <4>1
      <4>3. x \ {Max(x)} \in SUBSET (1..N) /\ n + 1 \notin x \ {Max(x)}
        BY <3>3
      <4> QED BY <3>1, <3>3, <4>2, <4>3
    <3> QED BY <3>2, <3>3
  <2>9. Nat \subseteq S
    <3> HIDE DEF S
    <3> QED BY <2>7, <2>8, SetInduction
  <2>10. Fits(N)
    <3> HIDE DEF Fits
    <3> QED BY <1>1, <2>9
  <2>11. f[N] \in F
    BY <1>1, <2>5
  <2> DEFINE w == f[N]
  <2>12. w = [x \in SUBSET (1..N) |-> w[x]]
    BY <2>11 DEF F
  <2>13. \A x \in SUBSET (1..N) :
           w[x] = IF x = {} THEN db ELSE DeleteKey(w[x \ {Max(x)}], keys[Max(x)])
    BY <2>10
  <2> HIDE DEF w
  <2>14. Runs(w)
    BY <2>12, <2>13
  <2> HIDE DEF Runs
  <2> QED BY <2>14
<1>5. Runs(h)
  <2> HIDE DEF Runs
  <2> QED BY <1>4
<1> HIDE DEF h
<1>6. \A x \in SUBSET (1..N) :
        h[x] = IF x = {} THEN db ELSE DeleteKey(h[x \ {Max(x)}], keys[Max(x)])
  BY <1>5
<1> DEFINE S == {n \in Nat : \A x \in SUBSET (1..N) : x \subseteq 1..n => h[x] \in D}
<1>7. 0 \in S
  <2> SUFFICES ASSUME NEW x \in SUBSET (1..N), x \subseteq 1..0 PROVE h[x] \in D
    OBVIOUS
  <2>1. x = {}
    OBVIOUS
  <2> QED BY <1>2, <1>6, <2>1
<1>8. ASSUME NEW n \in Nat, n \in S PROVE n + 1 \in S
  <2> SUFFICES ASSUME NEW x \in SUBSET (1..N), x \subseteq 1..(n + 1) PROVE h[x] \in D
    OBVIOUS
  <2>1. CASE x = {}
    BY <1>2, <1>6, <2>1
  <2>2. CASE x # {}
    <3>1. Max(x) \in x /\ \A y \in x : y <= Max(x)
      BY <1>1, <2>2, MaxIs
    <3>2. \A y \in x : y \in 1..(n + 1) /\ (y # Max(x) => y \in 1..n)
      <4> DEFINE m == Max(x)
      <4> HIDE DEF m
      <4>1. m \in x /\ \A y \in x : y <= m
        BY <3>1 DEF m
      <4>2. m \in 1..(n + 1)
        BY <4>1
      <4>3. \A y \in x : y \in 1..(n + 1) /\ (y # m => y \in 1..n)
        BY <4>1, <4>2
      <4> QED BY <4>3 DEF m
    <3>3. x \ {Max(x)} \subseteq 1..n /\ x \ {Max(x)} \in SUBSET (1..N)
      BY <3>2
    <3>4. h[x \ {Max(x)}] \in D
      BY <1>8, <3>3
    <3>5. h[x] = DeleteKey(h[x \ {Max(x)}], keys[Max(x)])
      BY <1>6, <2>2
    <3> QED BY <1>2, <3>4, <3>5
  <2> QED BY <2>1, <2>2
<1>9. Nat \subseteq S
  <2> HIDE DEF S
  <2> QED BY <1>7, <1>8, SetInduction
<1>10. h[1..N] \in D
  <2>1. N \in S
    <3> HIDE DEF S
    <3> QED BY <1>1, <1>9
  <2>2. 1..N \in SUBSET (1..N) /\ 1..N \subseteq 1..N
    OBVIOUS
  <2> QED BY <2>1, <2>2
<1> QED BY <1>2, <1>3, <1>10

\* The fields an HSET names.
LEMMA FieldsFinite ==
    ASSUME NEW args, IsSeq(args)
    PROVE  IsFiniteSet(DOMAIN Fields(args))
<1> DEFINE n == Len(args) \div 2
           T == {args[2 * i - 1] : i \in 1..n}
           f == [i \in 1..n |-> args[2 * i - 1]]
<1>1. n \in Nat
  BY DEF IsSeq
<1>2. DOMAIN Fields(args) = T
  BY DEF Fields
<1> HIDE DEF n
<1>3. f \in Surjection(1..n, T)
  BY DEF Surjection
<1>4. IsFiniteSet(1..n)
  BY <1>1, FS_Interval
<1> HIDE DEF f, T
<1>5. IsFiniteSet(T)
  BY <1>3, <1>4, FS_Surjection
<1> QED BY <1>2, <1>5

\* A value that is put there.
LEMMA PutIs ==
    ASSUME NEW f, NEW k, NEW v
    PROVE  /\ IsFcn(Put(f, k, v)) /\ DOMAIN Put(f, k, v) = DOMAIN f \cup {k}
           /\ \A x \in DOMAIN Put(f, k, v) : Put(f, k, v)[x] = IF x = k THEN v ELSE f[x]
BY DEF Put, Over, IsFcn

\* Every command leaves the store finite.
LEMMA ApplyFinite ==
    ASSUME NEW db, FiniteStore(db), NEW cmd, IsSeq(cmd)
    PROVE  FiniteStore(Apply(db, cmd))
<1> DEFINE args(m) == SubSeq(cmd, m, Len(cmd))
<1>1. IsSeq(args(2)) /\ IsSeq(args(3))
  BY RestSeq
<1>2. ASSUME NEW k, NEW v PROVE FiniteStore(SetKey(db, k, v))
  <2> DEFINE d == DeleteKey(db, k)
             f == Put(d.strings, k, v)
  <2>1. FiniteStore(d)
    BY DeleteParts
  <2>2. SetKey(db, k, v) = [d EXCEPT !.strings = f]
    BY DEF SetKey
  <2> HIDE DEF d
  <2>3. IsFcn(f)
    BY PutIs
  <2> HIDE DEF f
  <2>4. [d EXCEPT !.strings = f] = [strings |-> f, hashes |-> d.hashes]
    BY <2>1 DEF FiniteStore
  <2> QED BY <2>1, <2>2, <2>3, <2>4 DEF FiniteStore
<1>3. ASSUME NEW k, NEW a, IsSeq(a) PROVE FiniteStore(PutFields(db, k, a))
  <2> DEFINE v == Over(Fields(a), HashAt(db, k))
             h == Put(db.hashes, k, v)
  <2>1. PutFields(db, k, a) = [strings |-> db.strings, hashes |-> h]
    BY DEF PutFields, FiniteStore
  <2>2. IsFiniteSet(DOMAIN v)
    <3>1. IsFiniteSet(DOMAIN Fields(a))
      BY <1>3, FieldsFinite
    <3>2. IsFiniteSet(DOMAIN HashAt(db, k))
      <4>1. DOMAIN NoFields = {}
        BY EmptyIsSeq DEF NoFields
      <4>2. IsFiniteSet(DOMAIN NoFields)
        BY <4>1, FS_EmptySet
      <4> QED BY <4>2 DEF HashAt, FiniteStore, FiniteHashes
    <3>3. DOMAIN v = DOMAIN HashAt(db, k) \cup DOMAIN Fields(a)
      BY DEF Over
    <3> QED BY <3>1, <3>2, <3>3, FS_Union
  <2> HIDE DEF v
  <2>3. /\ IsFcn(h) /\ DOMAIN h = DOMAIN db.hashes \cup {k}
        /\ \A x \in DOMAIN h : h[x] = IF x = k THEN v ELSE db.hashes[x]
    BY DEF Put, Over, IsFcn
  <2> HIDE DEF h
  <2>4. FiniteHashes(h)
    <3>1. IsFiniteSet(DOMAIN db.hashes) /\ IsFiniteSet({k})
      BY FS_Singleton DEF FiniteStore, FiniteHashes
    <3>2. IsFiniteSet(DOMAIN h)
      BY ZenonT(30), <2>3, <3>1, FS_Union
    <3>3. ASSUME NEW x \in DOMAIN h PROVE IsFiniteSet(DOMAIN h[x])
      <4>1. CASE x = k
        BY <2>2, <2>3, <4>1
      <4>2. CASE x # k
        <5>1. x \in DOMAIN db.hashes /\ h[x] = db.hashes[x]
          BY <2>3, <4>2
        <5> QED BY <5>1 DEF FiniteStore, FiniteHashes
      <4> QED BY <4>1, <4>2
    <3> QED BY <2>3, <3>2, <3>3 DEF FiniteHashes
  <2> QED BY <2>1, <2>4 DEF FiniteStore
<1>4. FiniteStore(FoldLeft(DeleteKey, db, args(2)))
  BY <1>1, DeletesIs
<1> QED BY <1>1, <1>2, <1>3, <1>4 DEF Apply

\* The members of a finite set as a sequence.
LEMMA SetToSeqIs ==
    ASSUME NEW S, IsFiniteSet(S)
    PROVE  IsSeq(SetToSeq(S)) /\ \A i \in DOMAIN SetToSeq(S) : SetToSeq(S)[i] \in S
<1> DEFINE n == Cardinality(S)
<1>1. n \in Nat /\ ExistsBijection(1..n, S)
  BY FS_CardinalityType
<1> HIDE DEF n
<1>2. PICK f : f \in Bijection(1..n, S)
  BY <1>1 DEF ExistsBijection
<1>3. f \in [1..n -> S] /\ IsInjective(f)
  BY <1>2 DEF Bijection, Injection
<1>4. SetToSeq(S) = CHOOSE g \in [1..n -> S] : IsInjective(g)
  BY DEF SetToSeq, n
<1>5. SetToSeq(S) \in [1..n -> S]
  <2> DEFINE F == [1..n -> S]
  <2> HIDE DEF F
  <2>1. \E g \in F : IsInjective(g)
    BY <1>3 DEF F
  <2>2. (CHOOSE g \in F : IsInjective(g)) \in F
    BY <2>1
  <2> QED BY <1>4, <2>2 DEF F
<1> DEFINE s == SetToSeq(S)
<1>6. s = [i \in 1..n |-> s[i]] /\ DOMAIN s = 1..n /\ \A i \in 1..n : s[i] \in S
  BY <1>5
<1> HIDE DEF s
<1>7. IsSeq(s)
  BY <1>1, <1>6, BuiltSeq
<1> QED BY <1>6, <1>7 DEF s

\* A reply carries a sequence of hashes that are finite.
ReplyOK(r) == IsSeq(r.rows) /\ \A i \in DOMAIN r.rows : IsFiniteSet(DOMAIN r.rows[i])

\* A reply is a sequence of rows with finitely many fields.
LEMMA ReplyFinite ==
    ASSUME NEW db, FiniteStore(db), NEW cmd
    PROVE  ReplyOK(Reply(db, cmd)) /\ ReplyOK(Closed)
<1>1. ReplyOK(Closed)
  BY EmptyIsSeq DEF Closed, ReplyOK
<1> DEFINE keys == IF Is(cmd, "HGETALL") THEN DOMAIN db.hashes \cap {cmd[2]}
                   ELSE {x \in DOMAIN db.hashes : Len(x) >= Len(cmd[2]) /\ IsPrefix(Front(cmd[2]), x)}
           order == SetToSeq(keys)
           rows == [i \in DOMAIN order |-> db.hashes[order[i]]]
<1>2. keys \in SUBSET DOMAIN db.hashes
  OBVIOUS
<1>3. Found(db, cmd) = rows
  BY DEF Found
<1> HIDE DEF keys
<1>4. IsFiniteSet(keys)
  BY <1>2, FS_Subset DEF FiniteStore, FiniteHashes
<1>5. IsSeq(order) /\ \A i \in DOMAIN order : order[i] \in keys
  BY <1>4, SetToSeqIs
<1> HIDE DEF order
<1>6. /\ IsSeq(rows) /\ DOMAIN rows = DOMAIN order
      /\ \A i \in DOMAIN rows : IsFiniteSet(DOMAIN rows[i])
  <2>1. rows = [i \in DOMAIN order |-> rows[i]] /\ DOMAIN rows = DOMAIN order
    OBVIOUS
  <2>2. \A i \in DOMAIN order : IsFiniteSet(DOMAIN rows[i])
    BY <1>2, <1>5 DEF FiniteStore, FiniteHashes
  <2> HIDE DEF rows
  <2> QED BY <1>5, <2>1, <2>2, MappedSeq
<1> HIDE DEF rows
<1>7. ReplyOK(Reply(db, cmd))
  <2>1. Reply(db, cmd).rows = rows \/ Reply(db, cmd).rows = <<>>
    BY <1>3 DEF Reply
  <2> QED BY <1>6, <2>1, EmptyIsSeq DEF ReplyOK
<1> QED BY <1>1, <1>7
-----------------------------------------------------------------------------
(***************************************************************************)
(* What the front end makes of a reply is as wide as its headers.            *)
(***************************************************************************)
\* Other rows of the same width.
LEMMA RowsReplaced ==
    ASSUME NEW res, Shaped(res), NEW rows, Wide(res.headers, rows)
    PROVE  Shaped([res EXCEPT !.rows = rows])
BY DEF Shaped

\* One row.
LEMMA OneRow ==
    ASSUME NEW headers, IsSeq(headers), NEW row, DOMAIN row = DOMAIN headers
    PROVE  Wide(headers, <<row>>)
<1>1. IsSeq(<<row>>) /\ DOMAIN <<row>> = 1..1
  BY Literals, Domain
<1>2. <<row>>[1] = row
  OBVIOUS
<1> QED BY <1>1, <1>2 DEF Wide

\* The rows an array becomes.
LEMMA RowsWide ==
    ASSUME NEW res, Shaped(res), NEW hashes, IsSeq(hashes),
           \A i \in DOMAIN hashes : IsFiniteSet(DOMAIN hashes[i])
    PROVE  Wide(res.headers, Rows(res, hashes))
<1> DEFINE headers == res.headers
           h == IF hashes = <<>> THEN NoFields ELSE hashes[1]
<1>1. IsSeq(headers) /\ Wide(headers, res.rows)
  BY DEF Shaped, Wide
<1>2. \A g : DOMAIN Row(headers, g) = DOMAIN headers
  BY DEF Row
<1> HIDE DEF headers
<1>3. CASE Is(res.cmd, "HSCANALL")
  <2> DEFINE rows == [i \in DOMAIN hashes |-> Row(headers, hashes[i])]
  <2>1. Rows(res, hashes) = rows
    BY <1>3 DEF Rows, headers
  <2>2. rows = [i \in DOMAIN hashes |-> rows[i]]
        /\ \A i \in DOMAIN hashes : DOMAIN rows[i] = DOMAIN headers
    BY <1>2
  <2> HIDE DEF rows
  <2>3. IsSeq(rows) /\ DOMAIN rows = DOMAIN hashes
    BY <2>2, MappedSeq
  <2> QED BY <1>1, <2>1, <2>2, <2>3 DEF Wide, headers
<1>4. CASE ~Is(res.cmd, "HSCANALL") /\ Len(headers) # 1
  <2>1. Rows(res, hashes) = <<Row(headers, h)>>
    BY <1>4 DEF Rows, headers
  <2> QED BY <1>1, <1>2, <2>1, OneRow DEF headers
<1>5. CASE ~Is(res.cmd, "HSCANALL") /\ Len(headers) = 1 /\ hashes = <<>>
  <2>1. Rows(res, hashes) = res.rows
    BY <1>5 DEF Rows, headers
  <2> QED BY <1>1, <2>1 DEF headers
<1>6. CASE ~Is(res.cmd, "HSCANALL") /\ Len(headers) = 1 /\ hashes # <<>>
  <2> DEFINE fields == SetToSeq(DOMAIN h)
             rows == Elements(h)
  <2>1. Rows(res, hashes) = rows
    BY <1>6 DEF Rows, headers
  <2>2. 1 \in DOMAIN hashes
    <3>1. DOMAIN hashes = 1..Len(hashes) /\ Len(hashes) \in Nat
      BY Domain
    <3>2. Len(hashes) # 0
      <4> SUFFICES ASSUME Len(hashes) = 0 PROVE hashes = <<>>
        BY <1>6
      <4>1. hashes = [i \in 1..0 |-> hashes[i]]
        BY DEF IsSeq
      <4>2. 1..0 = {}
        OBVIOUS
      <4>3. <<>> = [i \in 1..0 |-> <<>>[i]]
        BY EmptySeq
      <4>4. \A i \in 1..0 : hashes[i] = <<>>[i]
        BY <4>2
      <4> QED BY <4>1, <4>3, <4>4
    <3> QED BY <3>1, <3>2
  <2>3. IsFiniteSet(DOMAIN h)
    BY <1>6, <2>2
  <2> HIDE DEF h
  <2>4. Len(fields) \in Nat
    BY <2>3, SetToSeqIs DEF IsSeq
  <2>5. /\ rows = [i \in 1..(2 * Len(fields)) |-> rows[i]]
        /\ \A i \in 1..(2 * Len(fields)) : \E v : rows[i] = <<v>>
    BY DEF Elements
  <2> DEFINE n == 2 * Len(fields)
  <2>6. n \in Nat
    BY <2>4
  <2> HIDE DEF fields, n
  <2>7. rows = [i \in 1..n |-> rows[i]] /\ \A i \in 1..n : \E v : rows[i] = <<v>>
    BY <2>5 DEF n
  <2> HIDE DEF rows
  <2>8. IsSeq(rows) /\ DOMAIN rows = 1..n
    BY <2>6, <2>7, BuiltSeq, Domain
  <2>9. DOMAIN headers = 1..1 /\ \A v : DOMAIN <<v>> = 1..1
    BY <1>1, <1>6, Literals, Domain
  <2>10. ASSUME NEW i \in DOMAIN rows PROVE DOMAIN rows[i] = DOMAIN headers
    <3>1. PICK v : rows[i] = <<v>>
      BY <2>7, <2>8
    <3> QED BY <2>9, <3>1
  <2>11. Wide(headers, rows)
    BY <1>1, <2>8, <2>10 DEF Wide
  <2> QED BY <2>1, <2>11 DEF headers
<1> QED BY <1>3, <1>4, <1>5, <1>6

\* Whatever the store answers.
LEMMA ShownShaped ==
    ASSUME NEW res, Shaped(res), NEW r, ReplyOK(r)
    PROVE  Shaped(Shown(res, r)) /\ Shaped(ShownByConsole(res, r))
<1>1. Shaped(Shown(res, r))
  <2>1. CASE r.kind = "*"
    <3>1. Shown(res, r) = [res EXCEPT !.rows = Rows(res, r.rows)]
      BY <2>1 DEF Shown
    <3>2. Wide(res.headers, Rows(res, r.rows))
      BY RowsWide DEF ReplyOK
    <3> QED BY <3>1, <3>2, RowsReplaced
  <2>2. CASE r.kind = "+"
    <3>1. CASE res.rows = <<>> \/ res.headers = <<>>
      BY <2>2, <3>1 DEF Shown
    <3>2. CASE ~(res.rows = <<>> \/ res.headers = <<>>)
      <4> DEFINE v == IF Is(res.cmd, "PING") THEN <<"PONG">> ELSE <<"OK">>
                 rows == [res.rows EXCEPT ![1][1] = v]
      <4>1. Shown(res, r) = [res EXCEPT !.rows = rows]
        BY <2>2, <3>2 DEF Shown
      <4> HIDE DEF v
      <4>2. /\ rows = [i \in DOMAIN res.rows |-> rows[i]] /\ DOMAIN rows = DOMAIN res.rows
            /\ \A i \in DOMAIN res.rows : DOMAIN rows[i] = DOMAIN res.rows[i]
        OBVIOUS
      <4> HIDE DEF rows
      <4>3. IsSeq(rows)
        BY <4>2, MappedSeq DEF Shaped, Wide
      <4>4. Wide(res.headers, rows)
        BY <4>2, <4>3 DEF Shaped, Wide
      <4> QED BY <4>1, <4>4, RowsReplaced
    <3> QED BY <3>1, <3>2
  <2>3. CASE r.kind = "-"
    <3>1. Shown(res, r) = [res EXCEPT !.error = TRUE]
      BY <2>3 DEF Shown
    <3> QED BY <3>1 DEF Shaped
  <2>4. CASE r.kind \notin {"*", "+", "-"}
    BY <2>4 DEF Shown
  <2> QED BY <2>1, <2>2, <2>3, <2>4
<1> QED BY <1>1 DEF ShownByConsole

\* And what is read of it when it is cut short.
LEMMA CutShaped ==
    ASSUME NEW res, Shaped(res), NEW cut \in CutShort(res)
    PROVE  Shaped(cut)
<1> DEFINE headers == res.headers
<1>1. PICK rows \in CutRows(res) : cut = [res EXCEPT !.rows = rows]
  BY DEF CutShort
<1>2. Wide(headers, res.rows) /\ Len(res.rows) \in Nat /\ DOMAIN res.rows = 1..Len(res.rows)
  BY Domain DEF Shaped, Wide
<1>3. PICK lost, n, S : /\ n \in 0..Len(res.rows) /\ rows \in [1..n -> S]
                        /\ \A i \in 1..n : rows[i] \in Partly(res.rows[i], lost)
  <2> DEFINE one == ~Is(res.cmd, "HSCANALL") /\ Len(headers) = 1
             what == IF one THEN {<<"stale">>} ELSE {Null, <<"stale">>}
             least == IF Is(res.cmd, "HSCANALL") \/ one THEN 0 ELSE Len(res.rows)
  <2>1. PICK n \in least..Len(res.rows) :
           /\ rows \in [1..n -> UNION {Partly(res.rows[i], what) : i \in 1..n}]
           /\ \A i \in 1..n : rows[i] \in Partly(res.rows[i], what)
    BY <1>1 DEF CutRows
  <2>2. n \in 0..Len(res.rows)
    <3>1. least \in {0, Len(res.rows)}
      OBVIOUS
    <3> HIDE DEF least
    <3> QED BY <1>2, <2>1, <3>1
  <2> QED BY <2>1, <2>2
<1>4. n \in Nat /\ \A i \in 1..n : i \in DOMAIN res.rows
  BY <1>2, <1>3
<1>5. IsSeq(rows) /\ DOMAIN rows = 1..n
  BY <1>3, <1>4, BuiltSeq
<1>6. ASSUME NEW i \in 1..n PROVE DOMAIN rows[i] = DOMAIN headers
  <2>1. rows[i] \in Partly(res.rows[i], lost)
    BY <1>3
  <2>2. DOMAIN rows[i] = DOMAIN res.rows[i]
    BY <2>1 DEF Partly
  <2> QED BY <1>2, <1>4, <2>2 DEF Wide
<1>7. Wide(headers, rows)
  BY <1>2, <1>5, <1>6 DEF Wide
<1> QED BY <1>1, <1>7, RowsReplaced
-----------------------------------------------------------------------------
CInv == workload \in DOMAIN Workloads /\ CatalogueOK(schema)

\* The catalogue of a front end that has just started.
LEMMA EmptyOK == CatalogueOK(NoSchema)
<1>1. <<>> = [i \in 1..Len(<<>>) |-> <<>>[i]] /\ Len(<<>>) = 0 /\ DOMAIN <<>> = {}
  BY EmptySeq
<1>2. NoSchema.databases = <<>> /\ NoSchema.current = 0
  BY DEF NoSchema
<1>3. {"databases", "current"} \subseteq DOMAIN NoSchema
  BY DEF NoSchema
<1>4. DatabasesOK(<<>>)
  BY <1>1 DEF DatabasesOK, IsSeq, Distinct
<1> QED BY <1>1, <1>2, <1>3, <1>4 DEF CatalogueOK

\* The lines of a workload are sequences of tokens.
LEMMA LinesTyped == ASSUME CInv PROVE Workloads[workload].lines \in SUBSET Seq(Token)
<1> DEFINE T == Token
           R == [lines : SUBSET Seq(T), clients : SUBSET Clients, max : Nat, faults : Nat]
<1>1. Workloads \in Seq(R)
  BY QueryProcessorAssumption
<1> HIDE DEF T
<1>2. Workloads[workload] \in R
  <2> HIDE DEF R
  <2>1. Workloads \in [1..Len(Workloads) -> R] /\ DOMAIN Workloads = 1..Len(Workloads)
    BY <1>1, LenProperties
  <2> QED BY <2>1 DEF CInv
<1>3. Workloads[workload].lines \in SUBSET Seq(T)
  BY <1>2
<1> QED BY <1>3 DEF T

\* The tokens of a line that may be sent.
LEMMA LineOK ==
    ASSUME CInv, NEW line \in Workloads[workload].lines, NEW n \in 1..Len(line)
    PROVE  SubSeq(line, 1, n) \in Seq(Token)
<1>1. Workloads[workload].lines \in SUBSET Seq(Token)
  BY LinesTyped
<1>2. line \in Seq(Token)
  BY <1>1
<1>3. Len(line) \in Nat /\ \A i \in 1..Len(line) : line[i] \in Token
  BY <1>2
<1>4. n \in Nat /\ n <= Len(line)
  BY <1>3
<1> QED BY <1>3, <1>4, SubSeqProperties

\* A line changes the catalogue as its statement says.
LEMMA ReadLocal ==
    ASSUME CInv, NEW line \in Workloads[workload].lines, Read(line)
    PROVE  CatalogueOK(schema') /\ (schema' # schema /\ pc' # "down" => Local(query', schema, schema'))
<1>1. PICK n \in 0..Len(line) : IF n = 0 THEN Finish ELSE Process(SubSeq(line, 1, n))
  <2>1. Workloads[workload].lines \in SUBSET Seq(Token)
    BY LinesTyped
  <2>2. line \in Seq(Token)
    BY <2>1
  <2>3. Len(line) \in Nat
    BY <2>2
  <2> QED BY <2>3 DEF Read
<1>2. CASE n = 0
  <2>1. schema' = IF pc' = "down" THEN NoSchema ELSE schema
    BY <1>1, <1>2 DEF Finish
  <2> QED BY <2>1, EmptyOK DEF CInv
<1>3. CASE n # 0
  <2>1. /\ query' = Parse(SubSeq(line, 1, n))
        /\ schema' = Translate(query', schema).schema
    BY <1>1, <1>3 DEF Process
  <2>2. n \in 1..Len(line)
    BY <1>1, <1>3
  <2>3. QueryOK(query')
    BY <2>1, <2>2, LineOK, ParseOK
  <2> QED BY <2>1, <2>3, TranslateLocal DEF CInv
<1> QED BY <1>2, <1>3

\* Every step keeps the catalogue well-formed.
LEMMA NextCatalogue ==
    ASSUME CInv, [Next]_vars
    PROVE  CInv' /\ (schema' # schema /\ pc' # "down" => Local(query', schema, schema'))
<1> DEFINE Goal == /\ CatalogueOK(schema')
                   /\ schema' # schema /\ pc' # "down" => Local(query', schema, schema')
<1>1. workload' = workload
  BY DEF Next, FrontEnd, Store, Accept, Read, Send, Receive, Answer, Crash, Start, Log, Execute,
         Kill, Restart, Idle, Connect, SendLine, HangUp, GiveUp, Leaves, vars
<1> SUFFICES Goal
  BY <1>1 DEF CInv
<1>2. ASSUME schema' = schema PROVE Goal
  BY <1>2 DEF CInv
<1>3. CASE FrontEnd
  <2>1. CASE Accept \/ Send \/ Receive
    BY <1>2, <2>1 DEF Accept, Send, Receive
  <2>2. CASE Answer
    <3>1. schema' = IF pc' = "down" THEN NoSchema ELSE schema
      BY <2>2 DEF Answer, Finish
    <3> QED BY <3>1, EmptyOK DEF CInv
  <2> QED BY <1>3, <2>1, <2>2, ReadLocal DEF FrontEnd
<1>4. CASE Crash
  BY <1>4, EmptyOK DEF Crash
<1>5. CASE Start \/ Store \/ Kill \/ Restart \/ Idle \/ UNCHANGED vars
  BY <1>2, <1>5 DEF Start, Store, Log, Execute, Kill, Restart, Idle, vars, front
<1>6. ASSUME NEW c, Connect(c) \/ SendLine(c) \/ HangUp(c) \/ GiveUp(c) PROVE Goal
  BY <1>2, <1>6 DEF Connect, SendLine, HangUp, GiveUp, Leaves, front
<1> QED BY <1>3, <1>4, <1>5, <1>6 DEF Next

\* The first catalogue is empty.
LEMMA InitCatalogue == Init => CInv
BY EmptyOK DEF Init, CInv

\* For all lines and faults, and as many databases and tables as they make: the index
\* of the active database is within the array, and names are unique.
CatalogueTyped ==
    /\ schema.current \in 0..Len(schema.databases)
    /\ Distinct(schema.databases)
    /\ \A i \in DOMAIN schema.databases : Distinct(schema.databases[i].tables)
\* The catalogue keeps its type, whatever is created, used and dropped.
THEOREM CatalogueIsTyped == Spec => []CatalogueTyped
<1>1. CInv => CatalogueTyped
  BY DEF CInv, CatalogueTyped, CatalogueOK, DatabasesOK, TablesOK
<1>2. CInv /\ [Next]_vars => CInv'
  BY NextCatalogue
<1> QED BY <1>1, <1>2, InitCatalogue, PTL DEF Spec

\* A statement changes no other database than its own, although entries are shifted
\* over the one that is dropped, and never makes another one the active one unasked.
THEOREM StatementsAreLocal == Spec => StatementIsLocal
<1> DEFINE A == schema' # schema /\ pc' # "down" => Local(query', schema, schema')
<1>1. CInv /\ [Next]_vars => CInv' /\ [A]_vars
  BY NextCatalogue
<1> QED BY <1>1, InitCatalogue, PTL DEF Spec, StatementIsLocal
-----------------------------------------------------------------------------
(***************************************************************************)
(* The type of the whole.  That the rows are as wide as the headers rests on *)
(* what is in the store and on the way to it and back.                      *)
(***************************************************************************)
ClientsOK ==
    /\ peer \in [Clients -> {"new", "open", "sent", "cut", "gone"}]
    /\ backlog \in Seq(Clients)
    /\ client \in Clients \cup {Null}
    /\ (client = Null) = (pc \in {"accept", "down"})

StoresOK ==
    /\ FiniteStore(mem) /\ FiniteStore(disk)
    /\ \A r \in requests : IsSeq(r.cmd)
    /\ reply # Null => ReplyOK(reply)

RInv == IInv /\ CInv /\ ClientsOK /\ StoresOK /\ Shaped(result)

\* The store is empty at first, and so is the answer.
LEMMA NothingShaped == Shaped(NoResult) /\ FiniteStore(NoStore)
<1>1. Shaped(NoResult)
  BY RefusedShaped DEF NoResult
<1>2. FiniteHashes(<<>>) /\ IsFcn(<<>>)
  <2>1. DOMAIN <<>> = {} /\ <<>> = [i \in 1..0 |-> <<>>[i]] /\ 1..0 = {}
    BY EmptySeq
  <2>2. <<>> = [i \in DOMAIN <<>> |-> <<>>[i]]
    BY <2>1
  <2> QED BY <2>1, <2>2, FS_EmptySet DEF FiniteHashes, IsFcn
<1>3. FiniteStore(NoStore)
  BY <1>2 DEF FiniteStore, NoStore
<1> QED BY <1>1, <1>3

\* At the start nothing has been asked, and store and catalogue are empty.
LEMMA InitRInv == Init => RInv
<1> SUFFICES ASSUME Init PROVE RInv
  OBVIOUS
<1>1. IInv /\ CInv
  BY InitIInv, InitCatalogue
<1>2. ClientsOK
  BY DEF Init, ClientsOK
<1>3. StoresOK /\ Shaped(result)
  BY NothingShaped DEF Init, StoresOK
<1> QED BY <1>1, <1>2, <1>3 DEF RInv

\* The clients of a workload are clients.
LEMMA WorkloadClients == ASSUME CInv PROVE Workloads[workload].clients \in SUBSET Clients
<1> DEFINE L == SUBSET Seq(Token)
           R == [lines : L, clients : SUBSET Clients, max : Nat, faults : Nat]
<1>1. Workloads \in Seq(R)
  BY QueryProcessorAssumption
<1> HIDE DEF L
<1>2. Workloads[workload] \in R
  <2> HIDE DEF R
  <2>1. Workloads \in [1..Len(Workloads) -> R] /\ DOMAIN Workloads = 1..Len(Workloads)
    BY <1>1, LenProperties
  <2> QED BY <2>1 DEF CInv
<1> QED BY <1>2

\* The end of a connection and of the front end.
LEMMA FinishTyped ==
    ASSUME RInv, Finish, pc \in {"read", "answer"}
    PROVE  /\ peer' \in [Clients -> {"new", "open", "sent", "cut", "gone"}]
           /\ client' \in Clients \cup {Null} /\ (client' = Null) = (pc' \in {"accept", "down"})
           /\ Shaped(result') /\ (reply' # Null => ReplyOK(reply'))
BY NothingShaped DEF RInv, ClientsOK, Finish

\* The steps of the clients.
LEMMA ClientsTyped ==
    ASSUME RInv, NEW c \in Clients, Connect(c) \/ SendLine(c) \/ HangUp(c) \/ GiveUp(c)
    PROVE  ClientsOK' /\ StoresOK' /\ Shaped(result)'
<1>1. UNCHANGED <<mem, disk, requests, reply, result, pc, client>>
  BY DEF Connect, SendLine, HangUp, GiveUp, Leaves, front, store
<1>2. StoresOK' /\ Shaped(result)'
  BY <1>1 DEF RInv, StoresOK
<1>3. ClientsOK'
  <2>1. \E state \in {"new", "open", "sent", "cut", "gone"} : peer' = [peer EXCEPT ![c] = state]
    BY DEF Connect, SendLine, HangUp, GiveUp, Leaves
  <2>2. peer' \in [Clients -> {"new", "open", "sent", "cut", "gone"}]
    BY <2>1 DEF RInv, ClientsOK
  <2>3. backlog' = backlog \/ backlog' = Append(backlog, c)
    BY DEF Connect, SendLine, HangUp, GiveUp, Leaves
  <2>4. backlog' \in Seq(Clients)
    BY <2>3 DEF RInv, ClientsOK
  <2> QED BY <1>1, <2>2, <2>4 DEF RInv, ClientsOK
<1> QED BY <1>2, <1>3

\* The steps of the front end.
LEMMA FrontEndTyped ==
    ASSUME RInv, FrontEnd \/ Crash \/ Start
    PROVE  ClientsOK' /\ StoresOK' /\ Shaped(result)'
<1>1. CASE Accept
  <2>1. UNCHANGED <<mem, disk, requests, reply, result, peer>>
    BY <1>1 DEF Accept, store
  <2>2. client' \in Clients /\ backlog' \in Seq(Clients) /\ pc' = "read"
    BY <1>1 DEF Accept, RInv, ClientsOK
  <2>3. client' # Null
    BY <2>2, QueryProcessorAssumption
  <2> QED BY <2>1, <2>2, <2>3 DEF RInv, ClientsOK, StoresOK
<1>2. ASSUME NEW line \in Workloads[workload].lines, Read(line)
      PROVE  ClientsOK' /\ StoresOK' /\ Shaped(result)'
  <2>1. /\ UNCHANGED <<backlog, mem, disk, requests>> /\ pc = "read"
        /\ client \in Clients /\ client # Null
    BY <1>2 DEF Read, store, RInv, ClientsOK
  <2>2. PICK n \in 0..Len(line) : IF n = 0 THEN Finish ELSE Process(SubSeq(line, 1, n))
    <3>1. Workloads[workload].lines \in SUBSET Seq(Token)
      BY LinesTyped DEF RInv
    <3>2. line \in Seq(Token)
      BY <1>2, <3>1
    <3>3. Len(line) \in Nat
      BY <3>2
    <3> QED BY <1>2, <3>3 DEF Read
  <2>3. CASE n = 0
    BY <2>1, <2>2, <2>3, FinishTyped DEF RInv, ClientsOK, StoresOK
  <2>4. CASE n # 0
    <3>1. /\ query' = Parse(SubSeq(line, 1, n)) /\ result' = Translate(query', schema)
          /\ pc' \in {"answer", "connect"} /\ UNCHANGED <<peer, client, reply>>
      BY <2>2, <2>4 DEF Process
    <3>2. n \in 1..Len(line)
      BY <2>2, <2>4
    <3>3. QueryOK(query')
      BY <1>2, <3>1, <3>2, LineOK, ParseOK DEF RInv
    <3>4. Shaped(result')
      BY <3>1, <3>3, TranslateShaped DEF RInv, CInv
    <3> QED BY <2>1, <3>1, <3>4 DEF RInv, ClientsOK, StoresOK
  <2> QED BY <2>3, <2>4
<1>3. CASE Send
  <2>1. UNCHANGED <<backlog, mem, disk, reply, peer, client>>
        /\ pc = "connect" /\ pc' \in {"wait", "answer"}
    BY <1>3 DEF Send, store
  <2>2. IsSeq(result.cmd)
    BY DEF RInv, Shaped
  <2>3. \A r \in requests' : IsSeq(r.cmd)
    <3>1. requests' \subseteq requests \cup {[cmd |-> result.cmd, mine |-> TRUE]}
      BY <1>3 DEF Send
    <3> QED BY <2>2, <3>1 DEF RInv, StoresOK
  <2>4. Shaped(result')
    <3>1. result' = result \/ result' = [result EXCEPT !.error = TRUE]
      BY <1>3 DEF Send
    <3> QED BY <3>1 DEF RInv, Shaped
  <2> QED BY <2>1, <2>3, <2>4 DEF RInv, ClientsOK, StoresOK
<1>4. CASE Receive
  <2>1. UNCHANGED <<backlog, mem, disk, requests, reply, peer, client>>
        /\ pc = "wait" /\ pc' = "answer" /\ reply # Null
    BY <1>4 DEF Receive, store
  <2> DEFINE res == IF console THEN ShownByConsole(result, reply) ELSE Shown(result, reply)
  <2>2. ReplyOK(reply) /\ Shaped(result)
    BY <2>1 DEF RInv, StoresOK
  <2>3. Shaped(res)
    BY <2>2, ShownShaped
  <2>4. result' = res \/ result' \in CutShort(res)
    BY <1>4 DEF Receive
  <2> HIDE DEF res
  <2>5. Shaped(result')
    BY <2>3, <2>4, CutShaped
  <2> QED BY <2>1, <2>5 DEF RInv, ClientsOK, StoresOK
<1>5. CASE Answer
  BY <1>5, FinishTyped DEF Answer, store, RInv, ClientsOK, StoresOK
<1>6. CASE Crash
  <2>1. UNCHANGED <<mem, disk>> /\ reply' = Null /\ result' = NoResult
    BY <1>6 DEF Crash, store
  <2>2. ASSUME NEW r \in requests' PROVE IsSeq(r.cmd)
    <3>1. PICK old \in requests : r = [old EXCEPT !.mine = FALSE]
      BY <1>6 DEF Crash
    <3>2. old = [cmd |-> old.cmd, mine |-> old.mine] /\ IsSeq(old.cmd)
      BY DEF RInv, IInv, StoresOK
    <3>3. r.cmd = old.cmd
      BY <3>1, <3>2
    <3> QED BY <3>2, <3>3
  <2>3. ClientsOK'
    BY <1>6 DEF Crash, ClientsOK
  <2> QED BY <2>1, <2>2, <2>3, NothingShaped DEF RInv, StoresOK
<1>7. CASE Start
  BY <1>7 DEF Start, store, RInv, ClientsOK, StoresOK
<1> QED BY <1>1, <1>2, <1>3, <1>4, <1>5, <1>6, <1>7 DEF FrontEnd

\* The steps of the store.
LEMMA StoreTyped ==
    ASSUME RInv, Store \/ Kill \/ Restart
    PROVE  ClientsOK' /\ StoresOK' /\ Shaped(result)'
<1>1. UNCHANGED <<peer, backlog, pc, client, result>>
  BY DEF Store, Log, Execute, Kill, Restart, front
<1>2. ClientsOK' /\ Shaped(result)'
  BY <1>1 DEF RInv, ClientsOK
<1>3. ASSUME NEW r \in requests, Execute(r) PROVE StoresOK'
  <2>1. FiniteStore(Apply(mem, r.cmd)) /\ ReplyOK(Reply(mem, r.cmd))
    BY ApplyFinite, ReplyFinite DEF RInv, StoresOK
  <2>2. /\ mem' = Apply(mem, r.cmd) /\ disk' \in {disk, mem'}
        /\ requests' \subseteq requests /\ reply' \in {reply, Reply(mem, r.cmd)}
    BY <1>3 DEF Execute
  <2> QED BY <2>1, <2>2 DEF RInv, StoresOK
<1>4. CASE Log
  BY <1>2, <1>4 DEF Log, RInv, StoresOK
<1>5. CASE Kill
  <2>1. ReplyOK(Closed)
    BY ReplyFinite DEF RInv, StoresOK
  <2>2. /\ mem' = disk /\ disk' = disk /\ requests' = {} /\ reply' \in {reply, Closed}
    BY <1>5 DEF Kill
  <2> QED BY <1>2, <2>1, <2>2 DEF RInv, StoresOK
<1>6. CASE Restart
  BY <1>2, <1>6 DEF Restart, RInv, StoresOK
<1> QED BY <1>2, <1>3, <1>4, <1>5, <1>6 DEF Store

\* Every step keeps the type.
LEMMA NextRInv == RInv /\ [Next]_vars => RInv'
<1> SUFFICES ASSUME RInv, [Next]_vars PROVE RInv'
  OBVIOUS
<1>1. IInv' /\ CInv'
  BY NextIInv, NextCatalogue DEF RInv
<1> SUFFICES ClientsOK' /\ StoresOK' /\ Shaped(result)'
  BY <1>1 DEF RInv
<1>2. CASE UNCHANGED vars
  BY <1>2 DEF vars, front, store, RInv, ClientsOK, StoresOK
<1>3. CASE Idle
  BY <1>2, <1>3 DEF Idle
<1>4. ASSUME NEW c \in Workloads[workload].clients, Connect(c)
      PROVE  ClientsOK' /\ StoresOK' /\ Shaped(result)'
  <2>1. c \in Clients
    BY <1>4, WorkloadClients DEF RInv
  <2> QED BY <1>4, <2>1, ClientsTyped
<1>5. ASSUME NEW c \in Clients, SendLine(c) \/ HangUp(c) \/ GiveUp(c)
      PROVE  ClientsOK' /\ StoresOK' /\ Shaped(result)'
  BY <1>5, ClientsTyped
<1> QED BY <1>2, <1>3, <1>4, <1>5, FrontEndTyped, StoreTyped DEF Next

\* Whatever statements are typed or cut off, and however much of a reply is received:
\* commands are sequences of words, the store and its disk hold finitely many hashes
\* of finitely many fields, a reply carries a sequence of them, and a result has a
\* row's cell for each of its headers.
THEOREM ShapesKept == Spec => [](ClientsOK /\ StoresOK /\ Shaped(result))
<1>1. RInv => ClientsOK /\ StoresOK /\ Shaped(result)
  BY DEF RInv
<1> QED BY <1>1, InitRInv, NextRInv, PTL DEF Spec

\* Whoever is served is a client, the active database is one of the catalogue's, no two
\* databases, and no two tables of one, have the same name, and every row of a result
\* is as wide as its headers.
THEOREM TypeCorrect == Spec => []TypeOK
<1>1. RInv => TypeOK
  BY DEF RInv, IInv, CInv, ClientsOK, CatalogueOK, DatabasesOK, TablesOK, Shaped, Wide, TypeOK
<1> QED BY <1>1, InitRInv, NextRInv, PTL DEF Spec
=============================================================================
