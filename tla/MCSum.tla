------------------------------- MODULE MCSum -------------------------------
(***************************************************************************)
(* Sum for TLC: four nodes, numbered as Keeper::serverEnter numbers them.  *)
(***************************************************************************)
EXTENDS Sum

Nodes    == 0 .. 3
LastNode == {3}
=============================================================================
