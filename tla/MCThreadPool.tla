---------------------------- MODULE MCThreadPool ----------------------------
(***************************************************************************)
(* ThreadPool with three workers and three tasks: two tasks may run while   *)
(* the third is linked behind one of them or into an emptied list, and a    *)
(* signal may wake a worker whose task another has taken meanwhile.         *)
(***************************************************************************)
EXTENDS ThreadPool
=============================================================================
