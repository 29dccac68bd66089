------------------------------- MODULE Rowan -------------------------------
(***************************************************************************)
(* Rowan: client threads (RowanClient) that append to the segments of one  *)
(* server (RowanServer).  The two meet in one place, the network: what the *)
(* NIC of a client reads from a send buffer, the NIC of the server places  *)
(* at the end of the log.  Neither program learns of that step: the client *)
(* sees a completion some time later, the server a byte that is not zero.  *)
(*                                                                         *)
(* The module extends that of the clients, whose names it keeps, and takes *)
(* in the server as Srv; its own specification is RowanSpec.               *)
(***************************************************************************)
EXTENDS RowanClient, SequencesExt

CONSTANTS SrqBufferCnt, WqeCnt, NumStrides, DmaDepth  \* of the server

VARIABLES
  pc, k, head, mlx5_srq_head, srqHead, srqTail, nextWqe, wqeBuf,
  nicAvail, nicNext, nicSeg, nicOff, dma, firstByte, mem, kept

\* A request as the server finds it.
Message == [client : Client, seq : 0 .. SeqCnt - 1, magic : {1}, size : 1 .. MaxLen + 1]

Srv == INSTANCE RowanServer

serverVars == <<pc, k, head, mlx5_srq_head, srqHead, srqTail, nextWqe, wqeBuf,
                nicAvail, nicNext, nicSeg, nicOff, dma, firstByte, mem, kept>>
rowanVars  == <<serverVars, clientVars>>

\* A message fits in an empty segment.
ASSUME FitsAssumption == MaxLen + 1 <= NumStrides

\* The sizes RowanServer asks for.
ASSUME ServerAssumption ==
  /\ SrqBufferCnt \in Nat /\ SrqBufferCnt >= 2
  /\ WqeCnt \in Nat /\ WqeCnt > SrqBufferCnt
  /\ NumStrides \in Nat \ {0}
  /\ DmaDepth \in Nat \ {0}

RowanInit == Srv!Init /\ Init

Server      == Srv!Server /\ UNCHANGED clientVars
DmaWrite    == Srv!DmaWrite /\ UNCHANGED clientVars
InClient(c) == (Thread(c) \/ Complete(c)) /\ UNCHANGED serverVars

\* A send is transmitted and placed; a receiver that is not ready keeps the
\* sender retrying, so that the step waits for room.
Deliver(c) == Transmit(c) /\ Srv!Place(WireMessage(c))

RowanNext ==
  \/ Server
  \/ DmaWrite
  \/ \E c \in Client : InClient(c) \/ Deliver(c)

(***************************************************************************)
(* Threads spin and NICs do the work they have; of the senders that retry, *)
(* some one gets through when there is room, not any one in particular.    *)
(***************************************************************************)
RowanFairness ==
  /\ WF_rowanVars(Server) /\ WF_rowanVars(DmaWrite)
  /\ WF_rowanVars(\E c \in Client : Deliver(c))
  /\ \A c \in Client : /\ WF_rowanVars(Thread(c) /\ UNCHANGED serverVars)
                      /\ WF_rowanVars(Complete(c) /\ UNCHANGED serverVars)

RowanSpec     == RowanInit /\ [][RowanNext]_rowanVars
RowanFairSpec == RowanSpec /\ RowanFairness

-----------------------------------------------------------------------------
(***************************************************************************)
(* Properties.                                                             *)
(***************************************************************************)

\* The message a work request stands for: what the caller had prepared.
AsPosted(c, wr) ==
  [client |-> c, seq |-> wr.req.seq, magic |-> wr.req.magic, size |-> wr.req.len + 1]

\* The server never leaves all clients waiting: messages are appended for ever.
AppendsGoOn == []<><<\E c \in Client : Deliver(c)>>_rowanVars

-----------------------------------------------------------------------------
(***************************************************************************)
(* Rowan implements the log of AppendLog.  A message enters it when it is  *)
(* placed; the log is what the segments hold from the oldest on, followed  *)
(* by the writes under way.                                                *)
(***************************************************************************)

segments == [i \in 1 .. SrqBufferCnt |-> mem[(head + i - 1) % SrqBufferCnt]]
inFlight == [i \in 1 .. Len(dma) |-> dma[i].msg]
messages == FlattenSeq(segments) \o inFlight

\* What client c posted in q behind the n work requests that are transmitted.
Posted(c, q, n) == [i \in 1 .. Len(q) - n |-> AsPosted(c, q[n + i])]

toPlace  == [c \in Client |-> Posted(c, sq[c], sent[c])]
toReport == [c \in Client |-> sent[c] + cq[c]]

Log == INSTANCE AppendLog WITH log <- messages, handed <- toPlace, appended <- toReport

\* Every request is appended once, unchanged, in the order of its client and
\* before it is reported; only a proper prefix is ever given up.
ImplementsAppendLog == Log!Spec
=============================================================================
