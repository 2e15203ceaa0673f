-------------------------------- MODULE Sql --------------------------------
(***************************************************************************)
(* The SQL statements of query_processor: parse_query of                    *)
(* sql_parser_internal.c over the tokens of sql_lexer.c.                    *)
(*                                                                          *)
(* A token is a record of its type and its text.  A text is a sequence of   *)
(* words: an identifier is one word, a quoted string is any number of them, *)
(* because what tells them apart later is where the command is split.  The  *)
(* name and the PRIMARY KEY of a column are one token, its data type is     *)
(* left out.                                                                *)
(***************************************************************************)
EXTENDS Naturals, Sequences

CONSTANT Null   \* a NULL pointer: what the statement does not have

ASSUME NullAssumption == Null \notin STRING
-----------------------------------------------------------------------------
\* What lexer_next makes of a keyword or a sign, a name, a quoted string.
Sign(type) == [type |-> type, text |-> <<>>]
Name(word) == [type |-> "IDENT", text |-> <<word>>]
Quoted(words) == [type |-> "STRING", text |-> words]
Col(word, primary) == [type |-> IF primary THEN "PKCOLUMN" ELSE "COLUMN", text |-> <<word>>]

Value == {"STRING", "IDENT"}
Column == {"COLUMN", "PKCOLUMN"}

\* A name has at least one character.
Token == {t \in [type : STRING, text : Seq(STRING)] :
             t.type \in {"IDENT"} \cup Column => Len(t.text) = 1}

\* The token at position i is one of these types.
At(ts, i, types) == i \in DOMAIN ts /\ ts[i].type \in types

\* How many of the expected types, one after the other, are there from i on.
Matched(ts, i, expected) ==
    CHOOSE n \in 0..Len(expected) :
        /\ \A j \in 1..n : At(ts, i + j - 1, expected[j])
        /\ n < Len(expected) => ~At(ts, i + n, expected[n + 1])

\* The texts of a list whose items are separated by commas.
Listed(ts, i, types) ==
    LET n == CHOOSE m \in 0..Len(ts) :
               /\ \A j \in 1..m : At(ts, i + 2 * j - 2, types)
               /\ \A j \in 1..(m - 1) : At(ts, i + 2 * j - 1, {","})
               /\ ~(At(ts, i + 2 * m, types) /\ (m = 0 \/ At(ts, i + 2 * m - 1, {","})))
    IN [j \in 1..n |-> ts[i + 2 * j - 2]]

\* SQLQuery, as memset leaves it, and parser.error.
NoQuery == [type |-> "NONE", key |-> Null, val |-> Null, table |-> Null,
            vals |-> <<>>, cols |-> <<>>, error |-> FALSE]
Failed == [NoQuery EXCEPT !.error = TRUE]

\* WHERE key = value, the only condition there is.
Where == <<{"WHERE"}, {"KEY"}, {"="}, Value>>
KeyAt(ts, i) == IF Matched(ts, i, Where) = 4 THEN ts[i + 3].text ELSE Null

Select(ts) ==
    IF Matched(ts, 2, <<{"*"}, {"FROM"}, {"IDENT"}>>) < 3 THEN Failed
    ELSE [NoQuery EXCEPT !.type = "SELECT", !.table = Head(ts[4].text),
             !.key = KeyAt(ts, 5),
             !.error = At(ts, 5, {"WHERE"}) /\ KeyAt(ts, 5) = Null]

\* After a "(" at i, if there is one: beyond the next ")", or the end.
Skipped(ts, i) ==
    IF ~At(ts, i, {"("}) THEN i
    ELSE CHOOSE j \in i..(Len(ts) + 1) :
           /\ j = Len(ts) + 1 \/ At(ts, j - 1, {")"})
           /\ \A k \in (i + 1)..(j - 2) : ~At(ts, k, {")"})

\* The table is optional, its list of columns is skipped, and so is what follows
\* the values.
Insert(ts) ==
    LET i == 3 + Matched(ts, 3, <<{"IDENT"}>>)
        j == Skipped(ts, i)
        vals == IF At(ts, j + 1, {"("}) THEN Listed(ts, j + 2, Value) ELSE <<>>
    IN IF ~At(ts, 2, {"INTO"}) \/ ~At(ts, j, {"VALUES"}) THEN Failed
       ELSE [NoQuery EXCEPT !.type = "INSERT",
                !.table = IF i = 4 THEN Head(ts[3].text) ELSE Null,
                !.vals = [k \in DOMAIN vals |-> vals[k].text],
                !.key = IF Len(vals) >= 1 THEN vals[1].text ELSE Null,
                !.val = IF Len(vals) >= 2 THEN vals[2].text ELSE Null]

\* SET knows the column val only.  What is missing is no error here.
Update(ts) ==
    LET i == 2 + Matched(ts, 2, <<{"IDENT"}>>)
        n == Matched(ts, i, <<{"SET"}, {"VAL"}, {"="}, Value>>)
    IN [NoQuery EXCEPT !.type = "UPDATE",
           !.table = IF i = 3 THEN Head(ts[2].text) ELSE Null,
           !.val = IF n = 4 THEN ts[i + 3].text ELSE Null,
           !.key = KeyAt(ts, i + n)]

Delete(ts) ==
    LET n == Matched(ts, 2, <<{"FROM"}, {"IDENT"}>>) IN
    [NoQuery EXCEPT !.type = "DELETE",
        !.table = IF n = 2 THEN Head(ts[3].text) ELSE Null,
        !.key = KeyAt(ts, 2 + n)]

Create(ts) ==
    LET named == At(ts, 3, {"IDENT"})
        cols == IF At(ts, 4, {"("}) THEN Listed(ts, 5, Column) ELSE <<>>
    IN IF At(ts, 2, {"DATABASE"}) /\ named
       THEN [NoQuery EXCEPT !.type = "CREATE_DB", !.key = ts[3].text]
       ELSE IF At(ts, 2, {"TABLE"}) /\ named
       THEN [NoQuery EXCEPT !.type = "CREATE_TABLE", !.table = Head(ts[3].text),
                !.cols = [k \in DOMAIN cols |->
                            [name |-> Head(cols[k].text),
                             primary |-> cols[k].type = "PKCOLUMN"]]]
       ELSE Failed

Use(ts) ==
    IF At(ts, 2, {"IDENT"}) THEN [NoQuery EXCEPT !.type = "USE", !.key = ts[2].text] ELSE Failed

List(ts) ==
    IF At(ts, 2, {"DATABASES", "TABLES"})
    THEN [NoQuery EXCEPT !.type = "LIST", !.key = <<ts[2].type>>] ELSE Failed

Drop(ts) ==
    IF At(ts, 2, {"DATABASE"}) /\ At(ts, 3, {"IDENT"})
    THEN [NoQuery EXCEPT !.type = "DROP", !.key = ts[3].text]
    ELSE IF At(ts, 2, {"TABLE"}) /\ At(ts, 3, {"IDENT"})
    THEN [NoQuery EXCEPT !.type = "DROP", !.table = Head(ts[3].text)]
    ELSE Failed

\* parse_query.  Tokens behind a complete statement are not looked at.
Parse(ts) ==
    IF At(ts, 1, {"SELECT"}) THEN Select(ts)
    ELSE IF At(ts, 1, {"INSERT"}) THEN Insert(ts)
    ELSE IF At(ts, 1, {"UPDATE"}) THEN Update(ts)
    ELSE IF At(ts, 1, {"DELETE"}) THEN Delete(ts)
    ELSE IF At(ts, 1, {"CREATE"}) THEN Create(ts)
    ELSE IF At(ts, 1, {"USE"}) THEN Use(ts)
    ELSE IF At(ts, 1, {"LIST"}) THEN List(ts)
    ELSE IF At(ts, 1, {"CLEAR", "CLS"}) THEN [NoQuery EXCEPT !.type = "CLEAR"]
    ELSE IF At(ts, 1, {"DROP"}) THEN Drop(ts)
    ELSE IF At(ts, 1, {"HELP"}) THEN [NoQuery EXCEPT !.type = "HELP"]
    ELSE Failed
=============================================================================
