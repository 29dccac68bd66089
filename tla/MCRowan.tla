------------------------------ MODULE MCRowan ------------------------------
(***************************************************************************)
(* Rowan for TLC.  Two segments of two strides, two clients: the ring is   *)
(* recycled over and over, and a client may find the server not ready.     *)
(***************************************************************************)
EXTENDS Rowan

CONSTANTS c1, c2

One == {c1}
Two == {c1, c2}
=============================================================================
