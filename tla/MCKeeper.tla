------------------------------ MODULE MCKeeper ------------------------------
(***************************************************************************)
(* Keeper for TLC: two servers and two clients that start in any order.    *)
(***************************************************************************)
EXTENDS Keeper

CONSTANTS s1, s2, c1, c2

FourNodes  == {s1, s2, c1, c2}
TwoClients == {c1, c2}
=============================================================================
