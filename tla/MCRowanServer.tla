--------------------------- MODULE MCRowanServer ---------------------------
(***************************************************************************)
(* RowanServer for TLC.  The payload of a message does not matter to the   *)
(* server: its first byte is the magic number clients send, its size in    *)
(* strides ranges over 1 .. MaxSize.                                       *)
(***************************************************************************)
EXTENDS RowanServer

CONSTANT MaxSize

MCMessage == [magic : {1}, size : 1 .. MaxSize]
=============================================================================
