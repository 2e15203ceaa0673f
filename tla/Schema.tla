------------------------------- MODULE Schema -------------------------------
(***************************************************************************)
(* The catalogue of query_processor/schema_manager.c: the databases and     *)
(* their tables, and which database is active.  It is in the memory of one   *)
(* front end, and another one has its own.                                  *)
(*                                                                          *)
(* The functions that change it return -1 where theirs is the schema as it   *)
(* was: what they look for is stated apart (Named, HasTable).               *)
(***************************************************************************)
EXTENDS Naturals, Sequences

\* SchemaContext after schema_init.  `current` is current_db_idx + 1: 0 for none.
NoSchema == [databases |-> <<>>, current |-> 0]

\* One of these databases (or tables) has the name, and the first that has.
Named(seq, name) == \E i \in DOMAIN seq : seq[i].name = name
IndexOf(seq, name) ==
    CHOOSE i \in DOMAIN seq :
        seq[i].name = name /\ \A j \in DOMAIN seq : seq[j].name = name => i <= j

\* The rest of the array is shifted over entry i.
Without(seq, i) == [j \in 1..(Len(seq) - 1) |-> IF j < i THEN seq[j] ELSE seq[j + 1]]

TablesOf(s, db) == s.databases[IndexOf(s.databases, db)].tables
HasTable(s, db, table) == Named(s.databases, db) /\ Named(TablesOf(s, db), table)
ColumnsOf(s, db, table) == TablesOf(s, db)[IndexOf(TablesOf(s, db), table)].cols

SetActive(s, name) ==
    IF ~Named(s.databases, name) THEN s
    ELSE [s EXCEPT !.current = IndexOf(s.databases, name)]

CreateDatabase(s, name) ==
    IF Named(s.databases, name) THEN s
    ELSE [s EXCEPT !.databases = Append(@, [name |-> name, tables |-> <<>>])]

CreateTable(s, db, table, cols) ==
    IF ~Named(s.databases, db) \/ HasTable(s, db, table) THEN s
    ELSE [s EXCEPT !.databases[IndexOf(s.databases, db)].tables =
             Append(@, [name |-> table, cols |-> cols])]

\* Mutant of DropDatabase: whatever is dropped, the active database moves up.
DropShifts(s, name) ==
    IF ~Named(s.databases, name) THEN s
    ELSE LET i == IndexOf(s.databases, name) IN
         [databases |-> Without(s.databases, i),
          current |-> IF s.current = i \/ s.current = 0 THEN 0 ELSE s.current - 1]
\* Mutant of DropDatabase: the active database is dropped and stays active.
DropKeepsActive(s, name) ==
    IF ~Named(s.databases, name) THEN s
    ELSE LET i == IndexOf(s.databases, name) IN
         [databases |-> Without(s.databases, i),
          current |-> IF s.current > i THEN s.current - 1 ELSE s.current]
\* The active database may be the one that is dropped, or one of those shifted.
DropDatabase(s, name) ==
    IF ~Named(s.databases, name) THEN s
    ELSE LET i == IndexOf(s.databases, name) IN
         [databases |-> Without(s.databases, i),
          current |-> IF s.current = i THEN 0
                      ELSE IF s.current > i THEN s.current - 1
                      ELSE s.current]

DropTable(s, db, table) ==
    IF ~HasTable(s, db, table) THEN s
    ELSE [s EXCEPT !.databases[IndexOf(s.databases, db)].tables =
             Without(@, IndexOf(@, table))]
=============================================================================
