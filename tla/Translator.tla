----------------------------- MODULE Translator -----------------------------
(***************************************************************************)
(* translate_query of query_processor/sql_translator.c: what a statement    *)
(* does to the catalogue, the command it becomes for the store, and the      *)
(* table that answers it unless the store's reply replaces it.              *)
(*                                                                          *)
(* A command is the sequence of its words as sdssplitargs (backend/sds.c)   *)
(* splits the line: a string of several words becomes several arguments, an *)
(* empty one none.  A word is a sequence of the parts that ":" separates.    *)
(* Values hold no ":" and no quotes.                                        *)
(***************************************************************************)
EXTENDS Sql, Schema, SequencesExt

Words(text) == [i \in DOMAIN text |-> <<text[i]>>]

\* "prefix:text": the first word of the text is part of the key.
Glued(prefix, text) ==
    IF text = <<>> THEN <<Append(prefix, "")>>
    ELSE <<Append(prefix, Head(text))>> \o Words(Tail(text))

Pending == <<"PENDING">>

\* An SQLResult.  No command: the front end answers by itself.
Result(s, cmd, headers, rows) ==
    [schema |-> s, cmd |-> cmd, error |-> FALSE, headers |-> headers, rows |-> rows]
Refused(s) == [Result(s, <<>>, <<>>, <<>>) EXCEPT !.error = TRUE]
Status(s, cmd, word) == Result(s, cmd, <<"Status">>, << << <<word>> >> >>)
Ping == << <<"PING">> >>

\* The active database, or the one named default, which need not exist.
DbName(s) == IF s.current # 0 THEN s.databases[s.current].name ELSE "default"
Known(s, table) == table # Null /\ HasTable(s, DbName(s), table)
Columns(s, table) == ColumnsOf(s, DbName(s), table)
Headers(cols) == [i \in DOMAIN cols |-> cols[i].name]

\* The key of a row, or of a string if no table was named.
Key(s, q, text) ==
    IF q.table = Null THEN Words(text) ELSE Glued(<<DbName(s), q.table>>, text)

\* All hashes under the table's prefix, known or not, or the one of the row.
SelectRows(q, s) ==
    IF q.key = Null
    THEN Result(s, << <<"HSCANALL">>, <<DbName(s), q.table, "*">> >>,
                IF Known(s, q.table) THEN Headers(Columns(s, q.table)) ELSE <<"Key">>, <<>>)
    ELSE IF ~Known(s, q.table) THEN Refused(s)
    ELSE LET headers == Headers(Columns(s, q.table)) IN
         Result(s, << <<"HGETALL">> >> \o Key(s, q, q.key), headers,
                << [i \in DOMAIN headers |-> Pending] >>)

\* The last column that is a primary key, or the first column.
KeyColumn(cols) ==
    IF \A i \in DOMAIN cols : ~cols[i].primary THEN 1
    ELSE CHOOSE i \in DOMAIN cols :
           cols[i].primary /\ \A j \in DOMAIN cols : cols[j].primary => j <= i

\* With more values than columns, the first is the key and no column's.
InsertRow(q, s) ==
    LET cols == Columns(s, q.table)
        keyed == Len(q.vals) > Len(cols)
        offset == IF keyed THEN 1 ELSE 0
        at == IF keyed THEN 1 ELSE KeyColumn(cols)
        n == IF keyed THEN Len(cols) ELSE Len(q.vals)
    IN IF Len(q.vals) < at THEN Refused(s)
       ELSE Status(s, << <<"HSET">> >> \o Key(s, q, q.vals[at])
                      \o FlattenSeq([i \in 1..n |->
                             << <<cols[i].name>> >> \o Words(q.vals[i + offset])]), "OK")

InsertValues(q, s) ==
    IF q.vals = <<>> THEN Refused(s)
    ELSE IF Known(s, q.table) THEN InsertRow(q, s)
    ELSE IF q.table # Null \/ q.val = Null THEN Refused(s)
    ELSE Status(s, << <<"SET">> >> \o Words(q.key) \o Words(q.val), "OK")

DeleteRow(q, s) ==
    IF q.key = Null \/ ~(q.table = Null \/ Known(s, q.table)) THEN Refused(s)
    ELSE Status(s, << <<"DEL">> >> \o Key(s, q, q.key), "OK")

UpdateRow(q, s) ==
    IF q.key = Null \/ q.val = Null \/ ~(q.table = Null \/ Known(s, q.table)) THEN Refused(s)
    ELSE Status(s, << <<"SET">> >> \o Key(s, q, q.key) \o Words(q.val), "OK")

CreateDb(q, s) ==
    IF Named(s.databases, Head(q.key)) THEN Refused(s)
    ELSE Status(CreateDatabase(s, Head(q.key)),
                << <<"HSET">>, <<"_sys", "db", Head(q.key)>>, <<"created">>, <<"1">> >>,
                "Database Created")

\* The default database is created when no other is active.
CreateTbl(q, s) ==
    LET base == IF s.current = 0 THEN CreateDatabase(s, "default") ELSE s IN
    IF Known(s, q.table) THEN Refused(s)
    ELSE Status(CreateTable(base, DbName(s), q.table, q.cols),
                << <<"HSET">>, <<"_sys", "schema", DbName(s), q.table>>,
                   <<"cols">>, Headers(q.cols) >>, "Table Created")

UseDb(q, s) ==
    IF ~Named(s.databases, Head(q.key)) THEN Refused(s)
    ELSE Status(SetActive(s, Head(q.key)), Ping, "Database changed")

Listing(header, seq, s) ==
    Result(s, Ping, <<header>>, [i \in DOMAIN seq |-> << <<seq[i].name>> >>])
ListNames(q, s) ==
    IF q.key = <<"DATABASES">> THEN Listing("Database", s.databases, s)
    ELSE IF s.current = 0 THEN Refused(s)
    ELSE Listing("Table", s.databases[s.current].tables, s)

\* The rows of what is dropped stay in the store.
DropNamed(q, s) ==
    IF q.table = Null
    THEN IF ~Named(s.databases, Head(q.key)) THEN Refused(s)
         ELSE Status(DropDatabase(s, Head(q.key)), Ping, "Database Dropped")
    ELSE IF ~Known(s, q.table) THEN Refused(s)
    ELSE Status(DropTable(s, DbName(s), q.table), Ping, "Table Dropped")

Translate(q, s) ==
    IF q.error THEN Refused(s)
    ELSE CASE q.type = "SELECT" -> SelectRows(q, s)
           [] q.type = "INSERT" -> InsertValues(q, s)
           [] q.type = "DELETE" -> DeleteRow(q, s)
           [] q.type = "UPDATE" -> UpdateRow(q, s)
           [] q.type = "CREATE_DB" -> CreateDb(q, s)
           [] q.type = "CREATE_TABLE" -> CreateTbl(q, s)
           [] q.type = "USE" -> UseDb(q, s)
           [] q.type = "LIST" -> ListNames(q, s)
           [] q.type = "DROP" -> DropNamed(q, s)
           [] q.type = "CLEAR" ->
                Result(s, <<>>, <<"Action">>, << << <<"CLEAR_SCREEN">> >> >>)
           [] q.type = "HELP" -> Result(s, <<>>, <<"Command", "Description">>, <<>>)
=============================================================================
