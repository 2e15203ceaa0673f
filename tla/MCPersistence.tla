--------------------------- MODULE MCPersistence ---------------------------
(***************************************************************************)
(* Persistence with two keys and a log of a few records: enough for a key   *)
(* to be created, changed in type, deleted and created again around a       *)
(* rewrite, a snapshot or a crash, while another key is not to be disturbed.*)
(***************************************************************************)
EXTENDS Persistence, TLC

\* Keys and values are interchangeable; no property is a liveness property.
Symmetry == Permutations(Keys) \cup Permutations(Vals)

\* Longer logs without snapshots, and snapshots with shorter logs and one value.
MCScopes ==
    {[vals |-> Vals, log |-> 3, saves |-> 0, power |-> TRUE]} \cup
    {[vals |-> {v}, log |-> 2, saves |-> 1, power |-> FALSE] : v \in Vals}

\* For the behaviours of the log alone.
LogOnly == {[vals |-> Vals, log |-> 4, saves |-> 0, power |-> FALSE]}
=============================================================================
