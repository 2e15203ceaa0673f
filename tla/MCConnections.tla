--------------------------- MODULE MCConnections ---------------------------
(***************************************************************************)
(* Connections for TLC: one connection waits for its reply, one sends two   *)
(* commands, which may be read at once, and one sends nothing but takes up  *)
(* descriptors.                                                             *)
(***************************************************************************)
EXTENDS Connections

CONSTANTS polite, streaming, idle

MCMaxCommands == [c \in Clients |-> CASE c = polite -> 1 [] c = streaming -> 2 [] c = idle -> 0]
=============================================================================
