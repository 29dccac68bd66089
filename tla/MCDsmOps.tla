------------------------------ MODULE MCDsmOps ------------------------------
(***************************************************************************)
(* DsmOps for TLC: a thread t1 of one node that uses both nodes and        *)
(* buffers, may overrun its completion queue of two entries and may be     *)
(* refused an atomic or a write, and a thread t2 of the other node that    *)
(* changes a word t1 works on.                                             *)
(***************************************************************************)
EXTENDS DsmOps

CONSTANTS t1, t2, n1, n2, b1, b2

MCThread == {t1, t2}
MCNode   == {n1, n2}
MCBuffer == {b1, b2}

MCHome == [t \in MCThread |-> IF t = t1 THEN n1 ELSE n2]

Calling(kind, node, buf) == [kind |-> kind, node |-> node, buf |-> buf]

MCCalls ==
  [t \in MCThread |->
     IF t = t1
     THEN {Calling("cas", n1, b1), Calling("write", n2, b2)}
     ELSE {Calling("faa", n1, b1)}]

MCMaxPosted == [t \in MCThread |-> IF t = t1 THEN 3 ELSE 1]

MCFragile == {<<t1, n1>>}
=============================================================================
