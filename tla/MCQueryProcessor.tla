-------------------------- MODULE MCQueryProcessor --------------------------
(***************************************************************************)
(* QueryProcessor for TLC: two clients, and lines about the catalogue or    *)
(* about the rows of a table.                                               *)
(***************************************************************************)
EXTENDS QueryProcessor

CONSTANTS c1, c2

Signs(types) == [i \in DOMAIN types |-> Sign(types[i])]
At_(words) == Signs(<<"WHERE", "KEY", "=">>) \o <<Quoted(words)>>
Values(a, b) == Signs(<<"VALUES", "(">>) \o <<Quoted(a), Sign(","), Quoted(b), Sign(")")>>

CreateT == Signs(<<"CREATE", "TABLE">>) \o <<Name("t"), Sign("("), Col("a", TRUE), Sign(","),
                                             Col("b", FALSE), Sign(")")>>
CreateNarrow == Signs(<<"CREATE", "TABLE">>) \o <<Name("t"), Sign("("), Col("b", FALSE), Sign(")")>>
SelectT == Signs(<<"SELECT", "*", "FROM">>) \o <<Name("t")>>
DeleteT == Signs(<<"DELETE", "FROM">>) \o <<Name("t")>>
UpdateT(words) ==
    Signs(<<"UPDATE">>) \o <<Name("t")>> \o Signs(<<"SET", "VAL", "=">>) \o <<Quoted(words)>>
DropT == Signs(<<"DROP", "TABLE">>) \o <<Name("t")>>
OnDb(types, d) == Signs(types) \o <<Name(d)>>
InsertT(a, b) == Signs(<<"INSERT", "INTO">>) \o <<Name("t")>> \o Values(a, b)

Catalogue ==
    {OnDb(<<"CREATE", "DATABASE">>, "d1"), OnDb(<<"CREATE", "DATABASE">>, "d2"),
     OnDb(<<"USE">>, "d2"), OnDb(<<"DROP", "DATABASE">>, "d1"),
     OnDb(<<"DROP", "DATABASE">>, "d2"), CreateT, DropT}

RowLines ==
    {CreateT, CreateNarrow, DropT, InsertT(<<"k">>, <<"v", "w">>),
     InsertT(<<"k">>, <<"v">>), SelectT \o At_(<<"k">>), SelectT,
     UpdateT(<<"w">>) \o At_(<<"k">>), DeleteT \o At_(<<"k">>)}

Mixed ==
    {CreateT, InsertT(<<"k">>, <<>>), Signs(<<"INSERT", "INTO">>) \o Values(<<"k">>, <<"v">>)}

Others ==
    {CreateT, Signs(<<"LIST", "DATABASES">>), Signs(<<"LIST", "TABLES">>), Signs(<<"HELP">>),
     Signs(<<"CLEAR">>), Signs(<<"=">>)}

MCWorkloads ==
    <<[lines |-> Catalogue, clients |-> {c1}, max |-> 4, faults |-> 0],
      [lines |-> RowLines, clients |-> {c1}, max |-> 3, faults |-> 1],
      [lines |-> Mixed, clients |-> {c1, c2}, max |-> 3, faults |-> 1],
      [lines |-> Others, clients |-> {c1}, max |-> 2, faults |-> 1]>>

\* A row that is updated and inserted again before it is deleted.
MCDeletes ==
    <<[lines |-> {CreateT, UpdateT(<<"w">>) \o At_(<<"k">>), InsertT(<<"k">>, <<"v">>),
                  DeleteT \o At_(<<"k">>)},
       clients |-> {c1}, max |-> 4, faults |-> 0]>>
=============================================================================
