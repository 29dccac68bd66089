---------------------------- MODULE RowanClient ----------------------------
(***************************************************************************)
(* The sending half of Rowan: client threads that append to the server's   *)
(* log with signaled RDMA sends over a reliable connection each.           *)
(*                                                                         *)
(* A thread owns a ring of send buffers.  It first posts a batch of sends, *)
(* then for every completion it polls it prepares and posts one more.      *)
(* Posting copies nothing: the NIC reads the buffer when it transmits, and *)
(* again when it has to retransmit, until the receiver has acknowledged.   *)
(*                                                                         *)
(* The benchmark's requests have no payload; here each carries the number  *)
(* of the request, as a user of the library would put data in it, so that  *)
(* a reused buffer can be told from an untouched one.                      *)
(***************************************************************************)
EXTENDS Integers, Sequences

CONSTANTS
  Client,     \* the client threads
  BatchSize,  \* kBatchSize of test_rowan: requests a thread keeps going
  BufferCnt,  \* RowanClient::kBufferCnt: send buffers of a thread
  SqDepth,    \* work requests the send queue of a queue pair takes
  CqDepth,    \* RPC_QUEUE_SIZE: entries of a thread's completion queue
  MaxLen,     \* bound: payload of a request, in strides
  SeqCnt      \* bound: request numbers are taken modulo SeqCnt

\* A batch of one at least, no larger than the ring of buffers and the queues.
ASSUME BatchAssumption ==
  /\ BatchSize \in Nat \ {0}
  /\ BufferCnt \in Nat /\ BatchSize <= BufferCnt
  /\ SqDepth \in Nat /\ BatchSize <= SqDepth
  /\ CqDepth \in Nat /\ BatchSize <= CqDepth
  /\ MaxLen \in Nat
  /\ SeqCnt \in Nat \ {0}

VARIABLES
  cpc,      \* where each thread is in test_rowan
  batch,    \* requests posted in the first loop
  seq,      \* number of the request the thread prepares
  curSend,  \* cur_send: buffer get_send_buf returns next
  slot,     \* buffer returned last: `request' of the thread
  buf,      \* contents of the buffers
  sq,       \* work requests posted and not yet acknowledged
  sent,     \* how many of them are transmitted
  cq        \* completions not yet polled

threadVars == <<cpc, batch, seq, curSend, slot, buf>>
qpVars     == <<sq, sent, cq>>
clientVars == <<threadVars, qpVars>>

Slot == 0 .. BufferCnt - 1

\* A buffer holds what counts of an RpcMessage: magic, msg_size (in strides) and
\* the payload.  It lies in memory that page_alloc maps, all zeros.
EmptyBuffer == [magic |-> 0, len |-> 0, seq |-> 0]

\* A work request names the buffer and the size to send; req is the content at
\* the time of posting, which no code reads: it says what the caller meant.
fillSgeWr(c) ==
  LET request == buf[c][slot[c]] IN
    [slot |-> slot[c], size |-> request.len + 1, req |-> request]

Init ==
  /\ cpc = [c \in Client |-> "get"]
  /\ batch = [c \in Client |-> 0]
  /\ seq = [c \in Client |-> 0]
  /\ curSend = [c \in Client |-> 0]
  /\ slot = [c \in Client |-> 0]
  /\ buf = [c \in Client |-> [s \in Slot |-> EmptyBuffer]]
  /\ sq = [c \in Client |-> << >>]
  /\ sent = [c \in Client |-> 0]
  /\ cq = [c \in Client |-> 0]

-----------------------------------------------------------------------------
(***************************************************************************)
(* The thread, test_rowan.                                                 *)
(***************************************************************************)

\* Seeded fault: cur_send does not advance.
GetSendBufSame(c) ==
  /\ cpc[c] = "get"
  /\ slot' = [slot EXCEPT ![c] = curSend[c]]
  /\ buf' = [buf EXCEPT ![c][curSend[c]].len = 0]
  /\ cpc' = [cpc EXCEPT ![c] = "fill"]
  /\ UNCHANGED <<batch, seq, curSend, qpVars>>

\* get_send_buf: the next buffer of the ring, with its message size reset.
GetSendBuf(c) ==
  /\ cpc[c] = "get"
  /\ slot' = [slot EXCEPT ![c] = curSend[c]]
  /\ curSend' = [curSend EXCEPT ![c] = (@ + 1) % BufferCnt]
  /\ buf' = [buf EXCEPT ![c][curSend[c]].len = 0]
  /\ cpc' = [cpc EXCEPT ![c] = "fill"]
  /\ UNCHANGED <<batch, seq, qpVars>>

\* Seeded fault: a request whose first byte is that of a free segment.
FillZeroMagic(c) ==
  /\ cpc[c] = "fill"
  /\ \E len \in 0 .. MaxLen :
       buf' = [buf EXCEPT ![c][slot[c]] = [magic |-> 0, len |-> len, seq |-> seq[c]]]
  /\ cpc' = [cpc EXCEPT ![c] = "send"]
  /\ UNCHANGED <<batch, seq, curSend, slot, qpVars>>

\* The request is written into the buffer: magic 1 and a payload of len.
Fill(c) ==
  /\ cpc[c] = "fill"
  /\ \E len \in 0 .. MaxLen :
       buf' = [buf EXCEPT ![c][slot[c]] = [magic |-> 1, len |-> len, seq |-> seq[c]]]
  /\ cpc' = [cpc EXCEPT ![c] = "send"]
  /\ UNCHANGED <<batch, seq, curSend, slot, qpVars>>

\* The driver counts a work request until its completion is polled.
HasRoom(c) == Len(sq[c]) + cq[c] < SqDepth

\* Seeded fault: the first loop posts one request too many.
SendOneMore(c) ==
  /\ cpc[c] = "send"
  /\ sq' = IF HasRoom(c)
           THEN [sq EXCEPT ![c] = Append(@, fillSgeWr(c))] ELSE sq
  /\ seq' = [seq EXCEPT ![c] = (@ + 1) % SeqCnt]
  /\ batch' = [batch EXCEPT ![c] = IF @ < BatchSize THEN @ + 1 ELSE @]
  /\ cpc' = [cpc EXCEPT ![c] = IF batch[c] < BatchSize THEN "get" ELSE "poll"]
  /\ UNCHANGED <<curSend, slot, buf, sent, cq>>

\* dsm->send, signaled.  A send queue that is full refuses the work request;
\* the caller does not look.  The second loop runs for ever.
Send(c) ==
  /\ cpc[c] = "send"
  /\ sq' = IF HasRoom(c)
           THEN [sq EXCEPT ![c] = Append(@, fillSgeWr(c))] ELSE sq
  /\ seq' = [seq EXCEPT ![c] = (@ + 1) % SeqCnt]
  /\ batch' = [batch EXCEPT ![c] = IF @ < BatchSize THEN @ + 1 ELSE @]
  /\ cpc' = [cpc EXCEPT ![c] = IF batch'[c] < BatchSize THEN "get" ELSE "poll"]
  /\ UNCHANGED <<curSend, slot, buf, sent, cq>>

\* Seeded fault: the completion queue is polled once, as by poll_rdma_cq_once,
\* and an empty one is not noticed.
PollCqOnce(c) ==
  /\ cpc[c] = "poll"
  /\ cq' = [cq EXCEPT ![c] = IF @ > 0 THEN @ - 1 ELSE 0]
  /\ cpc' = [cpc EXCEPT ![c] = "get"]
  /\ UNCHANGED <<batch, seq, curSend, slot, buf, sq, sent>>

\* poll_rdma_cq(1): spins until there is a completion and takes it.
PollCq(c) ==
  /\ cpc[c] = "poll"
  /\ cq[c] > 0
  /\ cq' = [cq EXCEPT ![c] = @ - 1]
  /\ cpc' = [cpc EXCEPT ![c] = "get"]
  /\ UNCHANGED <<batch, seq, curSend, slot, buf, sq, sent>>

Thread(c) == GetSendBuf(c) \/ Fill(c) \/ Send(c) \/ PollCq(c)

-----------------------------------------------------------------------------
(***************************************************************************)
(* The sending NIC.  A reliable connection delivers the work requests of a *)
(* queue pair once and in the order they were posted, and completes them   *)
(* in that order.                                                          *)
(***************************************************************************)

Pending(c) == sent[c] < Len(sq[c])

\* What goes over the wire: the buffer as it is now, as long as requested.
WireMessage(c) ==
  LET wr == sq[c][sent[c] + 1]
      b  == buf[c][wr.slot]
  IN  [client |-> c, seq |-> b.seq, magic |-> b.magic, size |-> wr.size]

Transmit(c) ==
  /\ Pending(c)
  /\ sent' = [sent EXCEPT ![c] = @ + 1]
  /\ UNCHANGED <<threadVars, sq, cq>>

\* The receiver has acknowledged the oldest one and its completion is reported;
\* a completion queue that is full loses it.
Complete(c) ==
  /\ sent[c] > 0
  /\ sq' = [sq EXCEPT ![c] = Tail(@)]
  /\ sent' = [sent EXCEPT ![c] = @ - 1]
  /\ cq' = [cq EXCEPT ![c] = IF @ < CqDepth THEN @ + 1 ELSE @]
  /\ UNCHANGED threadVars

Step(c) == Thread(c) \/ Transmit(c) \/ Complete(c)

Next == \E c \in Client : Step(c)

Spec == Init /\ [][Next]_clientVars

-----------------------------------------------------------------------------
(***************************************************************************)
(* Properties.                                                             *)
(***************************************************************************)

\* A buffer is not touched while the NIC may still read it, to transmit or to
\* retransmit: get_send_buf comes round to it only after its acknowledgement.
BufferStable ==
  \A c \in Client : \A i \in 1 .. Len(sq[c]) :
    buf[c][sq[c][i].slot] = sq[c][i].req

\* The window of a thread: a completion, polled or to come, for every request
\* of the batch, save the one that is polled and not yet replaced.  A thread
\* thus never spins for a completion that cannot come.
WindowKept ==
  \A c \in Client :
    Len(sq[c]) + cq[c] =
      IF batch[c] = BatchSize /\ cpc[c] # "poll" THEN BatchSize - 1 ELSE batch[c]

\* The send queue has room whenever a thread posts, so that the result of
\* ibv_post_send that DSM::send drops is never a failure.
SendsAccepted == \A c \in Client : cpc[c] = "send" => HasRoom(c)
=============================================================================
