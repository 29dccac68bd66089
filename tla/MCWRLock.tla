------------------------------ MODULE MCWRLock ------------------------------
(***************************************************************************)
(* WRLock for TLC: as many threads as a word of three bits can count.      *)
(***************************************************************************)
EXTENDS WRLock

CONSTANTS t1, t2, t3

ThreeThreads == {t1, t2, t3}
=============================================================================
