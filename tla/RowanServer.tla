---------------------------- MODULE RowanServer ----------------------------
(***************************************************************************)
(* The receiving half of Rowan: the control thread of RowanServer, the     *)
(* multi-packet shared receive queue (SRQ) it manages behind the driver's  *)
(* back, and the receiving side of the RDMA NIC.                           *)
(*                                                                         *)
(* The buffer is cut into segments.  The control thread clears the first   *)
(* byte of a segment and posts it to the SRQ; the NIC pops a posted        *)
(* segment, packs incoming messages into it stride after stride, and pops  *)
(* the next one when a message does not fit.  No completion is ever read:  *)
(* the thread polls the first byte of the segment AFTER the oldest one,    *)
(* and takes a non-zero byte to mean that the NIC has left the oldest      *)
(* segment, which it then recycles.                                        *)
(*                                                                         *)
(* The NIC places a message (chooses segment and stride) before the bytes  *)
(* reach memory; its DMA writes reach memory in order.                     *)
(***************************************************************************)
EXTENDS Integers, Sequences

CONSTANTS
  SrqBufferCnt,  \* kSrqBufferCnt: number of segments
  WqeCnt,        \* entries of the SRQ, a power of two above kMpSrqSize: 2 * kMpSrqSize
  NumStrides,    \* 2 ^ kLogNumStrides: strides of a segment
  DmaDepth,      \* bound: DMA writes the NIC may have in flight
  Message        \* records with the fields magic (first byte) and size (in strides)

(***************************************************************************)
(* Two segments at least, as the thread looks at the one after the oldest; *)
(* one WQE more than segments, as the SRQ is full when head meets tail;    *)
(* and messages whose first byte is not the kFree of an empty segment.     *)
(***************************************************************************)
ASSUME SizesAssumption ==
  /\ SrqBufferCnt \in Nat /\ SrqBufferCnt >= 2
  /\ WqeCnt \in Nat /\ WqeCnt > SrqBufferCnt
  /\ NumStrides \in Nat \ {0}
  /\ DmaDepth \in Nat \ {0}

ASSUME MessageAssumption ==
  \A m \in Message : m.magic \in 1 .. 255 /\ m.size \in 1 .. NumStrides

VARIABLES
  pc,             \* where the control thread is in raw_manage_srq
  k,              \* loop variable of the initial posting loop
  head,           \* oldest segment in the hands of the NIC
  mlx5_srq_head,  \* WQE the thread believes to hold that segment
  srqHead,        \* mlx5_srq.head: first free WQE
  srqTail,        \* mlx5_srq.tail: last free WQE
  nextWqe,        \* next_wqe_index of every WQE
  wqeBuf,         \* segment whose address is written in every WQE
  nicAvail,       \* WQEs announced to the NIC by doorbell and not yet popped
  nicNext,        \* WQE the NIC pops next
  nicSeg,         \* segment the NIC is filling, or NoSeg
  nicOff,         \* strides used in it
  dma,            \* writes placed by the NIC that have not reached memory
  firstByte,      \* first byte of every segment, in memory
  mem,            \* messages in memory, per segment, since it was cleared
  kept            \* strides of every segment that these messages lie in

threadVars == <<pc, k, head, mlx5_srq_head>>
srqVars    == <<srqHead, srqTail, nextWqe, wqeBuf>>
nicVars    == <<nicAvail, nicNext, nicSeg, nicOff>>
memVars    == <<firstByte, mem, kept>>
vars       == <<threadVars, srqVars, nicVars, dma, memVars>>

Segment == 0 .. SrqBufferCnt - 1
Wqe     == 0 .. WqeCnt - 1
NoSeg   == SrqBufferCnt
kFree   == 0

NextSegment(s) == (s + 1) % SrqBufferCnt
NextIndex(w)   == (w + 1) % WqeCnt

Write == [seg : Segment, off : 0 .. NumStrides - 1, msg : Message]

\* The SRQ as create_mp_srq leaves it: every WQE free and none announced.
InitSrq ==
  /\ srqHead = 0 /\ srqTail = WqeCnt - 1
  /\ nextWqe = [w \in Wqe |-> NextIndex(w)]
  /\ wqeBuf = [w \in Wqe |-> NoSeg]
  /\ nicAvail = 0 /\ nicNext = 0 /\ nicSeg = NoSeg /\ nicOff = 0

\* The buffer comes from mmap, which fills it with zeros.
Init ==
  /\ pc = "init_clear" /\ k = 0
  /\ head = 0 /\ mlx5_srq_head = 0
  /\ InitSrq
  /\ dma = << >>
  /\ firstByte = [s \in Segment |-> kFree]
  /\ mem = [s \in Segment |-> << >>]
  /\ kept = [s \in Segment |-> {}]

-----------------------------------------------------------------------------
(***************************************************************************)
(* The shared receive queue.                                               *)
(***************************************************************************)

SrqFull == srqHead = srqTail

\* ibv_post_srq_recv: the first free WQE takes the address and is announced;
\* a full queue refuses it, which recv() does not report to its caller.
PostSrqRecv(seg) ==
  IF SrqFull
  THEN UNCHANGED <<srqHead, wqeBuf, nicAvail>>
  ELSE /\ wqeBuf' = [wqeBuf EXCEPT ![srqHead] = seg]
       /\ srqHead' = nextWqe[srqHead]
       /\ nicAvail' = nicAvail + 1

\* Seeded faults: mlx5_free_srq_wqe does nothing; it does not move the tail.
FreeSrqWqeForgotten(ind) == UNCHANGED <<nextWqe, srqTail>>
FreeSrqWqeKeepsTail(ind) ==
  nextWqe' = [nextWqe EXCEPT ![srqTail] = ind] /\ UNCHANGED srqTail

\* mlx5_free_srq_wqe: WQE ind is linked behind the last free one.
FreeSrqWqe(ind) ==
  /\ nextWqe' = [nextWqe EXCEPT ![srqTail] = ind]
  /\ srqTail' = ind

\* Seeded fault: the segment is not cleared.
ClearSegmentForgotten(seg) == UNCHANGED memVars

\* *seg = 0: the segment no longer counts as used and its messages are given up.
ClearSegment(seg) ==
  /\ firstByte' = [firstByte EXCEPT ![seg] = kFree]
  /\ mem' = [mem EXCEPT ![seg] = << >>]
  /\ kept' = [kept EXCEPT ![seg] = {}]

-----------------------------------------------------------------------------
(***************************************************************************)
(* The control thread, raw_manage_srq.                                     *)
(***************************************************************************)

InitClear ==
  /\ pc = "init_clear"
  /\ ClearSegment(k)
  /\ pc' = "init_post"
  /\ UNCHANGED <<k, head, mlx5_srq_head, srqVars, nicVars, dma>>

\* Seeded fault: the loop posts one segment too few.
InitPostOneShort ==
  /\ pc = "init_post"
  /\ PostSrqRecv(k)
  /\ k' = k + 1
  /\ pc' = IF k + 1 < SrqBufferCnt - 1 THEN "init_clear" ELSE "poll"
  /\ UNCHANGED <<head, mlx5_srq_head, srqTail, nextWqe,
                 nicNext, nicSeg, nicOff, dma, memVars>>

InitPost ==
  /\ pc = "init_post"
  /\ PostSrqRecv(k)
  /\ k' = k + 1
  /\ pc' = IF k + 1 < SrqBufferCnt THEN "init_clear" ELSE "poll"
  /\ UNCHANGED <<head, mlx5_srq_head, srqTail, nextWqe,
                 nicNext, nicSeg, nicOff, dma, memVars>>

\* Seeded fault: the thread polls the oldest segment itself.
PollUsedHead ==
  /\ pc = "poll"
  /\ firstByte[head] # kFree
  /\ pc' = "free"
  /\ UNCHANGED <<k, head, mlx5_srq_head, srqVars, nicVars, dma, memVars>>

\* The poll that finds the next segment in use; a poll that finds it free
\* changes nothing.
PollUsed ==
  /\ pc = "poll"
  /\ firstByte[NextSegment(head)] # kFree
  /\ pc' = "free"
  /\ UNCHANGED <<k, head, mlx5_srq_head, srqVars, nicVars, dma, memVars>>

\* Seeded fault: mlx5_srq_head wraps with the segments.
FreeWqeWrapsEarly ==
  /\ pc = "free"
  /\ FreeSrqWqe(mlx5_srq_head)
  /\ mlx5_srq_head' = NextSegment(mlx5_srq_head)
  /\ pc' = "clear"
  /\ UNCHANGED <<k, head, srqHead, wqeBuf, nicVars, dma, memVars>>

FreeWqe ==
  /\ pc = "free"
  /\ FreeSrqWqe(mlx5_srq_head)
  /\ mlx5_srq_head' = NextIndex(mlx5_srq_head)
  /\ pc' = "clear"
  /\ UNCHANGED <<k, head, srqHead, wqeBuf, nicVars, dma, memVars>>

\* Seeded fault: the segment polled is cleared, not the oldest.
ClearNext ==
  /\ pc = "clear"
  /\ ClearSegment(NextSegment(head))
  /\ pc' = "post"
  /\ UNCHANGED <<k, head, mlx5_srq_head, srqVars, nicVars, dma>>

Clear ==
  /\ pc = "clear"
  /\ ClearSegment(head)
  /\ pc' = "post"
  /\ UNCHANGED <<k, head, mlx5_srq_head, srqVars, nicVars, dma>>

Repost ==
  /\ pc = "post"
  /\ PostSrqRecv(head)
  /\ head' = NextSegment(head)
  /\ pc' = "poll"
  /\ UNCHANGED <<k, mlx5_srq_head, srqTail, nextWqe,
                 nicNext, nicSeg, nicOff, dma, memVars>>

Server == InitClear \/ InitPost \/ PollUsed \/ FreeWqe \/ Clear \/ Repost

-----------------------------------------------------------------------------
(***************************************************************************)
(* The receiving NIC.  With neither room in the open segment nor a posted  *)
(* WQE the sender is told "receiver not ready" and retries for ever, so    *)
(* placing is then simply not enabled.                                     *)
(***************************************************************************)

Fits(m) == nicSeg # NoSeg /\ nicOff + m.size <= NumStrides

PlaceInOpen(m) ==
  /\ Len(dma) < DmaDepth
  /\ Fits(m)
  /\ dma' = Append(dma, [seg |-> nicSeg, off |-> nicOff, msg |-> m])
  /\ nicOff' = nicOff + m.size
  /\ UNCHANGED <<threadVars, srqVars, nicAvail, nicNext, nicSeg, memVars>>

PlaceInNext(m) ==
  /\ Len(dma) < DmaDepth
  /\ ~Fits(m)
  /\ nicAvail > 0
  /\ dma' = Append(dma, [seg |-> wqeBuf[nicNext], off |-> 0, msg |-> m])
  /\ nicSeg' = wqeBuf[nicNext]
  /\ nicOff' = m.size
  /\ nicNext' = nextWqe[nicNext]
  /\ nicAvail' = nicAvail - 1
  /\ UNCHANGED <<threadVars, srqVars, memVars>>

Place(m) == PlaceInOpen(m) \/ PlaceInNext(m)

\* The strides a write covers.
Extent(e) == e.off .. e.off + e.msg.size - 1

\* The oldest placed message reaches memory; one at stride 0 sets the first byte.
DmaWrite ==
  /\ dma # << >>
  /\ LET e == Head(dma) IN
       /\ firstByte' = IF e.off = 0
                       THEN [firstByte EXCEPT ![e.seg] = e.msg.magic]
                       ELSE firstByte
       /\ mem' = [mem EXCEPT ![e.seg] = Append(@, e.msg)]
       /\ kept' = [kept EXCEPT ![e.seg] = @ \cup Extent(e)]
  /\ dma' = Tail(dma)
  /\ UNCHANGED <<threadVars, srqVars, nicVars>>

Next == Server \/ (\E m \in Message : Place(m)) \/ DmaWrite

(***************************************************************************)
(* The thread spins without blocking and the NIC completes its writes;     *)
(* nothing obliges a client to send.                                       *)
(***************************************************************************)
Fairness == WF_vars(Server) /\ WF_vars(DmaWrite)

Spec     == Init /\ [][Next]_vars
FairSpec == Spec /\ Fairness

-----------------------------------------------------------------------------
(***************************************************************************)
(* Properties.                                                             *)
(***************************************************************************)

PostPc    == {"init_post", "post"}
RecyclePc == {"free", "clear", "post"}

\* Every variable has its type: indices stay inside the rings they index, and
\* nicSeg is a segment or NoSeg (RowanServer.cpp, the wrap of both counters).
TypeOK ==
  /\ pc \in {"init_clear", "init_post", "poll", "free", "clear", "post"}
  /\ k \in 0 .. SrqBufferCnt
  /\ head \in Segment
  /\ mlx5_srq_head \in Wqe
  /\ srqHead \in Wqe /\ srqTail \in Wqe
  /\ nextWqe \in [Wqe -> Wqe]
  /\ wqeBuf \in [Wqe -> Segment \cup {NoSeg}]
  /\ nicAvail \in 0 .. SrqBufferCnt
  /\ nicNext \in Wqe
  /\ nicSeg \in Segment \cup {NoSeg}
  /\ nicOff \in 0 .. NumStrides
  /\ dma \in Seq(Write)
  /\ firstByte \in [Segment -> 0 .. 255]
  /\ mem \in [Segment -> Seq(Message)]
  /\ kept \in [Segment -> SUBSET Nat]

\* The posted WQEs: those the NIC pops next, along the list it follows.
popOrder[n \in Nat] == IF n = 0 THEN nicNext ELSE nextWqe[popOrder[n - 1]]
postedWqes == {popOrder[n] : n \in 0 .. nicAvail - 1}

\* From the moment the thread takes a segment for finished until it has posted
\* it again, the NIC is not filling it, has no write to it under way and has no
\* posted WQE for it: the byte of the next segment tells the truth.
RecycleQuiescent ==
  pc \in RecyclePc =>
    /\ nicSeg # head
    /\ \A i \in 1 .. Len(dma) : dma[i].seg # head
    /\ \A w \in postedWqes : wqeBuf[w] # head

\* recv() drops a post that finds the SRQ full and nobody looks: it never does.
PostsAccepted == pc \in PostPc => ~SrqFull

\* The thread tracks by itself which WQE the NIC used for the oldest segment:
\* the WQE it links back into the free list is the one that held that segment.
FreedWqeHoldsHead == pc = "free" => wqeBuf[mlx5_srq_head] = head

\* A segment counts as used exactly when it has messages: no message lands in a
\* segment that was cleared after its first message went in.
FlagTellsUse == \A s \in Segment : firstByte[s] = kFree <=> mem[s] = << >>

\* The WQE the NIC pops next carries a segment that is empty.
NextPoppedIsEmpty == nicAvail > 0 => /\ wqeBuf[nicNext] \in Segment
                                     /\ firstByte[wqeBuf[nicNext]] = kFree

\* The NIC destroys no message: a write under way stays inside its segment, and
\* hits neither a stride that holds a message received since the thread cleared
\* the segment, nor a stride of another write under way.
KeepsReceived ==
  \A i \in 1 .. Len(dma) :
    /\ Extent(dma[i]) \subseteq 0 .. NumStrides - 1
    /\ Extent(dma[i]) \cap kept[dma[i].seg] = {}
    /\ \A j \in 1 .. Len(dma) :
         i # j /\ dma[i].seg = dma[j].seg => Extent(dma[i]) \cap Extent(dma[j]) = {}

\* A NIC that has run out of WQEs, whose clients are stalled by "receiver not
\* ready", is given a new one.
RnrEnds == nicAvail = 0 ~> nicAvail > 0

-----------------------------------------------------------------------------
(***************************************************************************)
(* The inductive invariant.  Both rings are read relative to the oldest    *)
(* element: Pos(s) of segment s from head, Lag(w) of WQE w from the oldest *)
(* WQE not yet reposted.  The n posted segments then sit at positions      *)
(* 0 .. n - 1 of both, and the NIC has opened the first `opened' of them.  *)
(***************************************************************************)

Dist(n, a, b) == IF b >= a THEN b - a ELSE b - a + n

InitPc  == {"init_clear", "init_post"}
posted  == IF pc \in InitPc THEN k ELSE SrqBufferCnt
opened  == posted - nicAvail
oldest  == IF pc \notin {"clear", "post"} THEN mlx5_srq_head
           ELSE IF mlx5_srq_head = 0 THEN WqeCnt - 1 ELSE mlx5_srq_head - 1
Pos(s)  == Dist(SrqBufferCnt, head, s)
Lag(w)  == Dist(WqeCnt, oldest, w)

\* The posting loop has not run past its end, and nothing is recycled in it.
LoopInv == pc \in InitPc => k < SrqBufferCnt /\ head = 0 /\ mlx5_srq_head = 0

\* WQEs are used round robin, so the list of free WQEs is a stretch of the ring.
RingInv ==
  /\ \A w \in Wqe : nextWqe[w] = NextIndex(w)
  /\ Lag(srqHead) = posted
  /\ Lag(srqTail) = IF pc \in {"clear", "post"} THEN 0 ELSE WqeCnt - 1
  /\ \A w \in Wqe : Lag(w) < posted => wqeBuf[w] \in Segment /\ Pos(wqeBuf[w]) = Lag(w)

\* The NIC pops them in order and fills the last one it popped.
NicInv ==
  /\ opened >= 0
  /\ Lag(nicNext) = opened
  /\ nicSeg = NoSeg <=> opened = 0
  /\ opened > 0 => Pos(nicSeg) = opened - 1 /\ nicOff > 0
  /\ pc \in RecyclePc => opened >= 2

\* Writes under way are ordered by segment, then by stride, behind the NIC.
DmaInv ==
  /\ \A i \in 1 .. Len(dma) :
       /\ Pos(dma[i].seg) < opened
       /\ dma[i].seg = nicSeg => dma[i].off < nicOff
       /\ pc \in RecyclePc => Pos(dma[i].seg) > 0
  /\ \A i, j \in 1 .. Len(dma) :
       i < j => /\ Pos(dma[i].seg) <= Pos(dma[j].seg)
                /\ dma[i].seg = dma[j].seg => dma[i].off < dma[j].off

\* A used segment is opened, and no write to an older one or to its first byte
\* is still under way.
FlagInv ==
  /\ \A s \in Segment : firstByte[s] # kFree =>
       /\ Pos(s) < opened
       /\ \A i \in 1 .. Len(dma) :
            Pos(dma[i].seg) >= Pos(s) /\ (dma[i].seg = s => dma[i].off > 0)
  /\ pc = "post" => firstByte[head] = kFree

IInv == TypeOK /\ LoopInv /\ RingInv /\ NicInv /\ DmaInv /\ FlagInv

\* What memory and the writes under way say of a segment agree: a used one has
\* messages, and the write of a message is preceded by that of the first of its
\* segment, as is every write to come; the segment that was polled is in use.
Used(n) ==
  {s \in Segment : firstByte[s] # kFree \/ \E j \in 1 .. n : dma[j].seg = s /\ dma[j].off = 0}

MemInv ==
  /\ FlagTellsUse
  /\ \A i \in 1 .. Len(dma) : dma[i].off > 0 => dma[i].seg \in Used(i - 1)
  /\ nicSeg # NoSeg => nicSeg \in Used(Len(dma))
  /\ pc \in RecyclePc => firstByte[NextSegment(head)] # kFree

\* In a segment the messages in memory, the writes under way and what the NIC has
\* left lie one behind the other, and a segment that is free holds nothing.
End(e) == e.off + e.msg.size

KeptInv ==
  /\ \A s \in Segment :
       /\ firstByte[s] = kFree => kept[s] = {}
       /\ s = nicSeg => \A x \in kept[s] : x < nicOff
  /\ \A i \in 1 .. Len(dma) :
       /\ End(dma[i]) <= NumStrides
       /\ dma[i].seg = nicSeg => End(dma[i]) <= nicOff
       /\ \A x \in kept[dma[i].seg] : x < dma[i].off
  /\ \A i, j \in 1 .. Len(dma) :
       i < j /\ dma[i].seg = dma[j].seg => End(dma[i]) <= dma[j].off

\* Rings, NIC and writes under way, and what memory holds, stay in step
\* (RowanServer.cpp, raw_manage_srq; Driver.cpp, mlx5_free_srq_wqe).
ServerInv == IInv /\ MemInv /\ KeptInv
=============================================================================
