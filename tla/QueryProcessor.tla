--------------------------- MODULE QueryProcessor ---------------------------
(***************************************************************************)
(* The SQL front ends and the store they send commands to:                  *)
(* query_processor/qp_server.c, which serves one client after the other, or *)
(* UI/cli.c, whose one client types at a terminal; and of backend/server.c   *)
(* the commands a statement can become.                                     *)
(*                                                                          *)
(* The store runs one command at a time, logs it (an HSET after the reply)  *)
(* and restarts with what was logged.  Nobody else writes to it.  A client  *)
(* may hang up within its line, between two tokens, or after it.  There are  *)
(* fewer clients than listen has room for.                                  *)
(***************************************************************************)
EXTENDS Translator

CONSTANTS
    Clients,        \* those that connect to the front end
    Workloads       \* bound: what happens in a behaviour: which lines are sent, by whom,
                    \* how many, and how often the store or the front end is killed

ASSUME QueryProcessorAssumption ==
    /\ Null \notin Clients
    /\ Workloads \in Seq([lines : SUBSET Seq(Token),
                         clients : SUBSET Clients, max : Nat, faults : Nat])

VARIABLES
    console,    \* whether the front end is cli.c
    workload,   \* which of Workloads
    peer,       \* a client: "new", "open", "sent" its line, "cut" it, or "gone" after it
    backlog,    \* the connections accept will return
    pc,         \* the front end: "accept", "read", "connect", "wait", "answer" or "down"
    client,     \* whom it serves
    schema,     \* its catalogue
    query,      \* the statement
    result,     \* its SQLResult
    up,         \* whether the store runs
    mem, disk,  \* the store's strings and hashes; what a restart finds
    requests,   \* the commands that wait in the store's sockets
    reply,      \* what came back to the front end
    fate,       \* history: what became of the statement's command
    effect,     \* history: what the statement changed
    count       \* lines and faults so far, for the bounds only

front == <<pc, client, schema, query, result>>
store == <<up, mem, disk>>
history == <<fate, effect>>
vars == <<console, workload, peer, backlog, front, store, requests, reply, history, count>>
-----------------------------------------------------------------------------
(***************************************************************************)
(* The store.                                                               *)
(***************************************************************************)
NoStore == [strings |-> <<>>, hashes |-> <<>>]
NoFields == <<>>

Lose(f, k) == Restrict(f, DOMAIN f \ {k})

\* f, and over it the values of g.
Over(g, f) == [x \in DOMAIN f \cup DOMAIN g |-> IF x \in DOMAIN g THEN g[x] ELSE f[x]]
Put(f, k, v) == Over([x \in {k} |-> v], f)

\* delete_key: the first dictionary that has the key loses it.
DeleteKey(db, k) ==
    IF k \in DOMAIN db.strings THEN [db EXCEPT !.strings = Lose(@, k)]
    ELSE [db EXCEPT !.hashes = Lose(@, k)]

HashAt(db, k) == IF k \in DOMAIN db.hashes THEN db.hashes[k] ELSE NoFields

\* SET: the hash of that key goes, unless there is a string too.
SetKey(db, k, v) == [DeleteKey(db, k) EXCEPT !.strings = Put(@, k, v)]

\* The value of a field is the last one given for it.
Fields(args) ==
    LET pairs == 1..(Len(args) \div 2)
        last(f) == CHOOSE i \in pairs : /\ args[2 * i - 1] = f
                                        /\ \A j \in pairs : args[2 * j - 1] = f => j <= i
    IN [f \in {args[2 * i - 1] : i \in pairs} |-> args[2 * last(f)]]

PutFields(db, k, args) ==
    [db EXCEPT !.hashes = Put(@, k, Over(Fields(args), HashAt(db, k)))]

Is(cmd, name) == cmd[1] = <<name>>

\* The wrong number of arguments.
Malformed(cmd) ==
    \/ Is(cmd, "SET") /\ Len(cmd) < 3
    \/ Is(cmd, "HSET") /\ (Len(cmd) < 4 \/ Len(cmd) % 2 = 1)
    \/ Len(cmd) < 2 /\ ~Is(cmd, "PING")

\* Mutant of Apply: HSET stores the complete pairs of what it refuses.
ApplyPairs(db, cmd) ==
    IF Is(cmd, "HSET") /\ Len(cmd) >= 4 THEN PutFields(db, cmd[2], SubSeq(cmd, 3, Len(cmd)))
    ELSE IF Malformed(cmd) THEN db
    ELSE IF Is(cmd, "SET") THEN SetKey(db, cmd[2], cmd[3])
    ELSE IF Is(cmd, "DEL") THEN FoldLeft(DeleteKey, db, SubSeq(cmd, 2, Len(cmd)))
    ELSE db
\* handle_command, for the commands of a statement.
Apply(db, cmd) ==
    IF Malformed(cmd) THEN db
    ELSE IF Is(cmd, "SET") THEN SetKey(db, cmd[2], cmd[3])
    ELSE IF Is(cmd, "HSET") THEN PutFields(db, cmd[2], SubSeq(cmd, 3, Len(cmd)))
    ELSE IF Is(cmd, "DEL") THEN FoldLeft(DeleteKey, db, SubSeq(cmd, 2, Len(cmd)))
    ELSE db

\* The hashes HGETALL returns, and those HSCANALL finds under a prefix.
Found(db, cmd) ==
    LET k == cmd[2]
        prefix == Front(k)
        keys == IF Is(cmd, "HGETALL") THEN DOMAIN db.hashes \cap {k}
                ELSE {x \in DOMAIN db.hashes : Len(x) >= Len(k) /\ IsPrefix(prefix, x)}
    IN LET order == SetToSeq(keys) IN [i \in DOMAIN order |-> db.hashes[order[i]]]

\* The first byte of the reply, and the hashes it carries.
Reply(db, cmd) ==
    [kind |-> IF Malformed(cmd) THEN "-"
              ELSE IF Is(cmd, "PING") \/ Is(cmd, "SET") THEN "+"
              ELSE IF Is(cmd, "HSET") \/ Is(cmd, "DEL") THEN ":"
              ELSE "*",
     rows |-> IF Is(cmd, "HGETALL") \/ Is(cmd, "HSCANALL") THEN Found(db, cmd) ELSE <<>>]

\* The connection ended without one.
Closed == [kind |-> "closed", rows |-> <<>>]
-----------------------------------------------------------------------------
(***************************************************************************)
(* What the front ends make of a reply.                                     *)
(***************************************************************************)
\* Each field under the first column of its name.
Row(headers, h) ==
    [c \in DOMAIN headers |->
        IF <<headers[c]>> \in DOMAIN h /\ \A b \in 1..(c - 1) : headers[b] # headers[c]
        THEN h[<<headers[c]>>] ELSE Null]

\* With one column, each element of the array becomes a row.
Elements(h) ==
    LET fields == SetToSeq(DOMAIN h) IN
    [i \in 1..(2 * Len(fields)) |->
        << IF i % 2 = 1 THEN fields[(i + 1) \div 2] ELSE h[fields[i \div 2]] >>]

Rows(res, hashes) ==
    IF Is(res.cmd, "HSCANALL") THEN [i \in DOMAIN hashes |-> Row(res.headers, hashes[i])]
    ELSE LET h == IF hashes = <<>> THEN NoFields ELSE hashes[1] IN
         IF Len(res.headers) # 1 THEN <<Row(res.headers, h)>>
         ELSE IF hashes = <<>> THEN res.rows ELSE Elements(h)

\* execute_redis_cmd of qp_server.c.  PONG replaces what a PING only accompanied.
\* Without a reply, or with a number, the result stays as translated.
Shown(res, r) ==
    CASE r.kind = "*" -> [res EXCEPT !.rows = Rows(res, r.rows)]
      [] r.kind = "+" -> IF res.rows = <<>> \/ res.headers = <<>> THEN res
                         ELSE [res EXCEPT !.rows[1][1] =
                                  IF Is(res.cmd, "PING") THEN <<"PONG">> ELSE <<"OK">>]
      [] r.kind = "-" -> [res EXCEPT !.error = TRUE]
      [] OTHER -> res

\* execute_redis_cmd of cli.c is the same but for PING.
ShownByConsole(res, r) == IF Is(res.cmd, "PING") THEN res ELSE Shown(res, r)

\* 10 ms without more of an array is taken for its end.  What is missing of a row is
\* Null, or what an earlier reply left in the buffer, and so may the rows after it be.
\* The one row of several columns is always made; an element of one column is never
\* Null.
Partly(row, lost) ==
    {cut \in [DOMAIN row -> {row[c] : c \in DOMAIN row} \cup lost] :
        \A c \in DOMAIN row : cut[c] \in {row[c]} \cup lost}
CutRows(res) ==
    LET scan == Is(res.cmd, "HSCANALL")
        one == ~scan /\ Len(res.headers) = 1
        lost == IF one THEN {<<"stale">>} ELSE {Null, <<"stale">>}
        least == IF scan \/ one THEN 0 ELSE Len(res.rows)
    IN UNION {{rows \in [1..n -> UNION {Partly(res.rows[i], lost) : i \in 1..n}] :
                  \A i \in 1..n : rows[i] \in Partly(res.rows[i], lost)} :
              n \in least..Len(res.rows)}
CutShort(res) == {[res EXCEPT !.rows = rows] : rows \in CutRows(res)}
-----------------------------------------------------------------------------
(***************************************************************************)
(* Clients.  A terminal has one line at a time, and its client waits.        *)
(***************************************************************************)
Connect(c) ==
    /\ pc # "down" /\ count.lines < Workloads[workload].max
    /\ peer[c] = "new"
    /\ console => \A d \in Clients : peer[d] = "new"
    /\ peer' = [peer EXCEPT ![c] = "open"] /\ backlog' = Append(backlog, c)
    /\ count' = [count EXCEPT !.lines = @ + 1]
    /\ UNCHANGED <<console, workload, front, store, requests, reply, history>>

\* The line is sent, or the client ends before it is complete, or does not wait (the
\* Python client stops after five seconds).
Leaves(c, from, to) ==
    /\ peer[c] = from /\ peer' = [peer EXCEPT ![c] = to]
    /\ UNCHANGED <<console, workload, backlog, front, store, requests, reply, history, count>>
SendLine(c) == Leaves(c, "open", "sent")
HangUp(c) == Leaves(c, "open", "cut")
GiveUp(c) == ~console /\ Leaves(c, "sent", "gone")
-----------------------------------------------------------------------------
(***************************************************************************)
(* The front end.                                                           *)
(***************************************************************************)
NoResult == Refused(NoSchema)

Accept ==
    /\ pc = "accept" /\ backlog # <<>>
    /\ client' = Head(backlog) /\ backlog' = Tail(backlog) /\ pc' = "read"
    /\ UNCHANGED <<console, workload, peer, schema, query, result, store, requests, reply,
                   history, count>>

\* The connection is closed, or the next line typed.  A terminal at its end ends cli.c.
Finish ==
    /\ pc' = IF console /\ peer[client] = "cut" THEN "down" ELSE "accept"
    /\ schema' = IF pc' = "down" THEN NoSchema ELSE schema
    /\ peer' = [peer EXCEPT ![client] = "new"]
    /\ client' = Null /\ query' = NoQuery /\ result' = NoResult
    /\ reply' = Null /\ fate' = "none" /\ effect' = {}

\* process_sql, for the tokens that came before the end of the line or of the
\* connection.
Process(tokens) ==
    /\ query' = Parse(tokens)
    /\ result' = Translate(query', schema)
    /\ schema' = result'.schema
    /\ pc' = IF result'.error \/ result'.cmd = <<>> THEN "answer" ELSE "connect"
    /\ effect' = IF schema' # schema THEN {"schema"} ELSE {}
    /\ UNCHANGED <<peer, client, reply, fate>>

\* Mutant of Read: the end of a connection is not the end of its line.
ReadWhole(line) ==
    /\ pc = "read" /\ peer[client] \in {"sent", "gone"}
    /\ Process(line)
    /\ UNCHANGED <<console, workload, backlog, store, requests, count>>
\* The line is read byte by byte, for as long as the client takes.
Read(line) ==
    /\ pc = "read" /\ peer[client] \in {"sent", "gone", "cut"}
    /\ \E n \in IF peer[client] = "cut" THEN 0..Len(line) ELSE {Len(line)} :
         IF n = 0 THEN Finish ELSE Process(SubSeq(line, 1, n))
    /\ UNCHANGED <<console, workload, backlog, store, requests, count>>

\* connect and send of execute_redis_cmd.
Send ==
    /\ pc = "connect"
    /\ IF up
       THEN /\ pc' = "wait" /\ requests' = requests \cup {[cmd |-> result.cmd, mine |-> TRUE]}
            /\ UNCHANGED <<result, fate>>
       ELSE /\ pc' = "answer" /\ result' = [result EXCEPT !.error = TRUE]
            /\ fate' = "unreachable" /\ UNCHANGED requests
    /\ UNCHANGED <<console, workload, peer, backlog, client, schema, query, store, reply,
                   effect, count>>

\* recv and the rest of execute_redis_cmd.
Receive ==
    /\ pc = "wait" /\ reply # Null
    /\ LET res == IF console THEN ShownByConsole(result, reply) ELSE Shown(result, reply) IN
       \/ result' = res /\ fate' = IF reply.kind = "closed" THEN "severed" ELSE "replied"
       \/ /\ reply.kind = "*" /\ reply.rows # <<>>
          /\ result' \in CutShort(res) /\ fate' = "cut"
    /\ pc' = "answer"
    /\ UNCHANGED <<console, workload, peer, backlog, client, schema, query, store, requests,
                   reply, effect, count>>

Answer ==
    /\ pc = "answer" /\ Finish
    /\ UNCHANGED <<console, workload, backlog, store, requests, count>>

\* The process ends, and with it the catalogue and every connection.
Crash ==
    /\ pc # "down" /\ count.faults < Workloads[workload].faults
    /\ count' = [count EXCEPT !.faults = @ + 1]
    /\ pc' = "down" /\ schema' = NoSchema /\ backlog' = <<>>
    /\ peer' = [c \in Clients |-> "new"]
    /\ client' = Null /\ query' = NoQuery /\ result' = NoResult
    /\ requests' = {[r EXCEPT !.mine = FALSE] : r \in requests}
    /\ reply' = Null /\ fate' = "none" /\ effect' = {}
    /\ UNCHANGED <<console, workload, store>>

\* main: schema_init is all it does about the catalogue.
Start ==
    /\ pc = "down" /\ pc' = "accept"
    /\ UNCHANGED <<console, workload, peer, backlog, client, schema, query, result, store,
                   requests, reply, history, count>>
-----------------------------------------------------------------------------
(***************************************************************************)
(* The store's steps.                                                       *)
(***************************************************************************)
\* readQueryFromClient and handle_command.
Execute(r) ==
    /\ up /\ disk = mem
    /\ r \in requests /\ requests' = requests \ {r}
    /\ mem' = Apply(mem, r.cmd) /\ disk' = IF Is(r.cmd, "HSET") THEN disk ELSE mem'
    /\ reply' = IF r.mine THEN Reply(mem, r.cmd) ELSE reply
    /\ effect' = IF r.mine /\ mem' # mem THEN effect \cup {"store"} ELSE effect
    /\ UNCHANGED <<console, workload, peer, backlog, front, up, fate, count>>

\* The end of HSET's handler.
Log ==
    /\ up /\ disk # mem /\ disk' = mem
    /\ UNCHANGED <<console, workload, peer, backlog, front, up, mem, requests, reply, history,
                   count>>

Kill ==
    /\ up /\ count.faults < Workloads[workload].faults /\ count' = [count EXCEPT !.faults = @ + 1]
    /\ up' = FALSE /\ mem' = disk /\ requests' = {}
    /\ reply' = IF \E r \in requests : r.mine THEN Closed ELSE reply
    /\ UNCHANGED <<console, workload, peer, backlog, front, disk, history>>

Restart ==
    /\ ~up /\ up' = TRUE
    /\ UNCHANGED <<console, workload, peer, backlog, front, mem, disk, requests, reply, history,
                   count>>
-----------------------------------------------------------------------------
Init ==
    /\ console \in BOOLEAN /\ workload \in DOMAIN Workloads
    /\ peer = [c \in Clients |-> "new"] /\ backlog = <<>>
    /\ pc = "accept" /\ client = Null /\ schema = NoSchema
    /\ query = NoQuery /\ result = NoResult
    /\ up = TRUE /\ mem = NoStore /\ disk = NoStore
    /\ requests = {} /\ reply = Null
    /\ fate = "none" /\ effect = {}
    /\ count = [lines |-> 0, faults |-> 0]

FrontEnd == Accept \/ (\E line \in Workloads[workload].lines : Read(line)) \/ Send \/ Receive \/ Answer
Store == Log \/ \E r \in requests : Execute(r)

\* The front end is blocked in accept or recv, and the store in its loop.
Idle == pc \in {"accept", "read", "wait"} /\ requests = {} /\ UNCHANGED vars

Next ==
    \/ FrontEnd \/ Crash \/ Start \/ Store \/ Kill \/ Restart \/ Idle
    \/ \E c \in Workloads[workload].clients : Connect(c)
    \/ \E c \in Clients : SendLine(c) \/ HangUp(c) \/ GiveUp(c)

\* Both processes run on; who has connected sends a line or hangs up.
Fairness ==
    /\ WF_vars(FrontEnd) /\ WF_vars(Store)
    /\ \A c \in Clients : WF_vars(SendLine(c) \/ HangUp(c))

Spec == Init /\ [][Next]_vars /\ Fairness
-----------------------------------------------------------------------------
(***************************************************************************)
(* Properties.                                                              *)
(***************************************************************************)
Databases(s) == {s.databases[i].name : i \in DOMAIN s.databases}
Tables(s, db) == IF db \in Databases(s) THEN {TablesOf(s, db)} ELSE {}
ActiveName(s) == IF s.current = 0 THEN Null ELSE s.databases[s.current].name

Distinct(seq) == \A i, j \in DOMAIN seq : seq[i].name = seq[j].name => i = j

\* The active database's index is within the array, names are unique, and every row
\* is as wide as its headers, by which it is printed and freed.
TypeOK ==
    /\ pc \in {"accept", "read", "connect", "wait", "answer", "down"}
    /\ peer \in [Clients -> {"new", "open", "sent", "cut", "gone"}]
    /\ client \in Clients \cup {Null}
    /\ (client = Null) = (pc \in {"accept", "down"})
    /\ schema.current \in 0..Len(schema.databases)
    /\ Distinct(schema.databases)
    /\ \A i \in DOMAIN schema.databases : Distinct(schema.databases[i].tables)
    /\ \A i \in DOMAIN result.rows : DOMAIN result.rows[i] = DOMAIN result.headers

\* A statement changes the catalogue of the one database it is about, and the active
\* one is another only by USE, or none by its own DROP.
Local(q, s, t) ==
    /\ \A db \in Databases(s) \cup Databases(t) :
          db # (IF q.table = Null THEN Head(q.key) ELSE DbName(s)) =>
              Tables(t, db) = Tables(s, db)
    /\ ActiveName(t) # ActiveName(s) =>
          \/ q.type = "USE" /\ ActiveName(t) = Head(q.key)
          \/ q.type = "DROP" /\ ActiveName(s) = Head(q.key) /\ ActiveName(t) = Null
StatementIsLocal ==
    [][schema' # schema /\ pc' # "down" => Local(query', schema, schema')]_vars

\* A client that is told of an error finds nothing changed, but for the catalogue when
\* the store could not be reached; what the store refused is no success; and no answer
\* goes out while the command may still be executed.
AnswerIsTrue ==
    pc = "answer" =>
        /\ result.error => effect = {} \/ (fate = "unreachable" /\ effect = {"schema"})
        /\ \A r \in requests : ~r.mine
        /\ fate = "replied" /\ Malformed(result.cmd) => result.error

\* A client that sent its line and waits gets an answer, although one client is
\* served at a time and the store is killed, if those before it do send or hang up.
Answered == \A c \in Clients : peer[c] = "sent" ~> peer[c] # "sent"

\* server.c says that delete_key returns "1 if deleted, 0 if not found": the row of a
\* DELETE that was executed is in the store no more.
DeletedIsGone ==
    pc = "answer" /\ query.type = "DELETE" /\ fate = "replied" /\ ~result.error =>
        result.cmd[2] \notin DOMAIN mem.hashes \cup DOMAIN mem.strings
=============================================================================
