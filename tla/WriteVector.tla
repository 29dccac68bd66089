---------------------------- MODULE WriteVector ----------------------------
(***************************************************************************)
(* rdmaWriteVector (Operation.cpp): pieces of local memory are written to  *)
(* remote memory as one stretch.  They are packed into work requests of at *)
(* most sgePerWr pieces, chained by their next field; the NIC executes the *)
(* chain from its head.                                                    *)
(***************************************************************************)
EXTENDS Naturals, SequencesExt

CONSTANT NullWr  \* the nullptr that ends a chain

ASSUME NullAssumption == NullWr \notin Nat

\* Seeded fault: a piece is counted before its work request is set up.
AccSizeEarly(source_list, i) == Len(FlattenSeq(SubSeq(source_list, 1, i + 1)))

\* A source list is a sequence of pieces, a piece the sequence of its bytes.
\* The bytes of the pieces before the i-th, counted from 0.
acc_size(source_list, i) == Len(FlattenSeq(SubSeq(source_list, 1, i)))

kCntWr(source_list, sgePerWr) == (Len(source_list) + sgePerWr - 1) \div sgePerWr

\* The last work request has the pieces that are left.
NumSge(source_list, sgePerWr, req_id) ==
  LET left == Len(source_list) - req_id * sgePerWr IN
  IF left < sgePerWr THEN left ELSE sgePerWr

\* The work requests, numbered from 0; the first piece of each sets it up, the
\* last piece of all ends the chain and asks for the completion.
WriteRequests(source_list, dest, sgePerWr) ==
  LET last == kCntWr(source_list, sgePerWr) - 1 IN
  [r \in 0 .. last |->
     [sg_list     |-> r * sgePerWr,
      num_sge     |-> NumSge(source_list, sgePerWr, r),
      remote_addr |-> dest + acc_size(source_list, r * sgePerWr),
      next        |-> IF r = last THEN NullWr ELSE r + 1,
      signaled    |-> r = last]]

-----------------------------------------------------------------------------
(***************************************************************************)
(* The NIC.                                                                *)
(***************************************************************************)

\* The array of scatter elements behind the list is zeroed: no bytes.
Gathered(source_list, wr) ==
  FlattenSeq([s \in 1 .. wr.num_sge |->
    IF wr.sg_list + s <= Len(source_list) THEN source_list[wr.sg_list + s] ELSE <<>>])

\* memory with data at address addr.
Written(memory, addr, data) ==
  [a \in DOMAIN memory |->
     IF a >= addr /\ a < addr + Len(data) THEN data[a - addr + 1] ELSE memory[a]]

\* The chain from work request 0, and the memory after it.
Executed(source_list, wrs, memory) ==
  LET then[r \in DOMAIN wrs] ==
        IF wrs[r].next = NullWr THEN <<r>> ELSE <<r>> \o then[wrs[r].next]
      after[n \in 0 .. Len(then[0])] ==
        IF n = 0 THEN memory
        ELSE LET wr == wrs[then[0][n]]
             IN  Written(after[n - 1], wr.remote_addr, Gathered(source_list, wr))
  IN  [order |-> then[0], memory |-> after[Len(then[0])]]

(***************************************************************************)
(* However the pieces fall into work requests, the remote memory ends with *)
(* the bytes of all pieces, one behind the other, from dest on, and with   *)
(* nothing else changed; and one completion comes, the one of the work     *)
(* request executed last, so that polling it means everything is written.  *)
(***************************************************************************)
VectorWritten(source_list, dest, sgePerWr, memory) ==
  LET wrs  == WriteRequests(source_list, dest, sgePerWr)
      done == Executed(source_list, wrs, memory)
  IN  /\ done.memory = Written(memory, dest, FlattenSeq(source_list))
      /\ \A n \in 1 .. Len(done.order) :
           wrs[done.order[n]].signaled <=> n = Len(done.order)
=============================================================================
