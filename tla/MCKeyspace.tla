----------------------------- MODULE MCKeyspace -----------------------------
(***************************************************************************)
(* Keyspace with two keys and a clock of three seconds.  Two keys can expire *)
(* in the same second, which a CronLimit of 1 splits over two serverCron     *)
(* calls; in three seconds a key can be set, renewed and expire while the    *)
(* heap entry of its first deadline is still queued, or expire unnoticed and *)
(* be written again.                                                         *)
(***************************************************************************)
EXTENDS Keyspace

MCTtls == {0, 1, 2}
=============================================================================
