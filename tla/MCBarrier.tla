----------------------------- MODULE MCBarrier -----------------------------
(***************************************************************************)
(* Barrier for TLC: called by every thread of two machines, as rpc_test    *)
(* does.                                                                   *)
(***************************************************************************)
EXTENDS Barrier

CONSTANTS n0t0, n0t1, n1t0, n1t1  \* two threads on each of two machines

Threads     == {n0t0, n0t1, n1t0, n1t1}
LastThreads == {n1t0, n1t1}
=============================================================================
