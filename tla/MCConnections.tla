--------------------------- MODULE MCConnections ---------------------------
(***************************************************************************)
(* Connections for TLC: three threads on as many connections, a directory, *)
(* two sizes of buffers, and up to two calls that fail.                    *)
(***************************************************************************)
EXTENDS Connections

CONSTANTS t1, t2, t3

Threads == {t1, t2, t3}
Sizes   == {2, 3}
=============================================================================
