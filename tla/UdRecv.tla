------------------------------- MODULE UdRecv -------------------------------
(***************************************************************************)
(* The receiving side of the datagram RPC of a thread: ud_rpc_wait with    *)
(* AbstractMessageConnection.                                              *)
(*                                                                         *)
(* A ring of MessageNR buffers is posted in BatchCount batches.  The NIC   *)
(* fills posted buffers in order and drops datagrams when there is none.   *)
(* The thread takes the k-th completion to be for the k-th buffer of the   *)
(* ring without looking at it, and reposts a batch as soon as it hands out *)
(* its last buffer: the caller then still reads a buffer that is posted.   *)
(***************************************************************************)
EXTENDS MessageConnection, SequencesExt

CONSTANTS
  BatchCount,  \* kBatchCount, which divides MessageNR (AbstractMessageConnection)
  MaxBacklog   \* datagrams that are received and not yet waited for

ASSUME BatchAssumption ==
  /\ BatchCount \in Nat \ {0}
  /\ MessageNR \in Nat \ {0} /\ MessageNR % BatchCount = 0
  /\ MaxBacklog \in 1 .. MessageNR - 1
  /\ MsgCnt \in Nat \ {0}

VARIABLES
  rpc,          \* where the thread is in ud_rpc_wait
  curMessage,   \* buffer getMessage hands out next
  rq,           \* buffers posted, in order
  rcq,          \* completions of ud_cq: the buffer filled, and with what
  messagePool,  \* contents of the buffers
  arriving,     \* the next datagram from the network
  held          \* buffer the caller reads, and the message it waited for

recvVars == <<rpc, curMessage, rq, rcq, messagePool, arriving, held>>

subNR == MessageNR \div BatchCount

\* A completion is for the buffer that was posted first; it does not say which one
\* that was, and slot and msg are read by no code.  ud_cq is the queue of receives
\* alone: sends complete in the connection's send_cq.
Completion(s, m) == [opcode |-> "recv", slot |-> s, msg |-> m]
NoMessage == Completion(MessageNR, MsgCnt)

\* recvs[b]: the buffers of batch b.
Batch(b) == [i \in 1 .. subNR |-> b * subNR + i - 1]

\* initRecv posts all batches.
RecvInit ==
  /\ rpc = "idle" /\ curMessage = 0
  /\ rq = FlattenSeq([b \in 1 .. BatchCount |-> Batch(b - 1)])
  /\ rcq = << >>
  /\ messagePool = [s \in Slot |-> 0]
  /\ arriving = 0
  /\ held = NoMessage

\* ud_rpc_wait: the caller is done with the message before, and a completion is
\* polled; unless it is that of a receive, ud_rpc_wait returns nullptr.
PollRecvCq ==
  /\ rpc = "idle"
  /\ rcq # << >>
  /\ rcq' = Tail(rcq)
  /\ LET wc == Head(rcq) IN
     IF wc.opcode = "recv"
     THEN held' = wc /\ rpc' = "get"
     ELSE held' = NoMessage /\ rpc' = "idle"
  /\ UNCHANGED <<curMessage, rq, messagePool, arriving>>

\* Seeded faults: the wrong batch is reposted; a batch is reposted with its
\* first buffer; no batch is reposted.
GetMessageNextBatch ==
  /\ rpc = "get"
  /\ held' = [held EXCEPT !.slot = curMessage]
  /\ curMessage' = (curMessage + 1) % MessageNR
  /\ rq' = IF curMessage' % subNR = 0 THEN rq \o Batch(curMessage' \div subNR) ELSE rq
  /\ rpc' = "idle"
  /\ UNCHANGED <<rcq, messagePool, arriving>>

GetMessageFirstOfBatch ==
  /\ rpc = "get"
  /\ held' = [held EXCEPT !.slot = curMessage]
  /\ curMessage' = (curMessage + 1) % MessageNR
  /\ rq' = IF curMessage % subNR = 0 THEN rq \o Batch(curMessage \div subNR) ELSE rq
  /\ rpc' = "idle"
  /\ UNCHANGED <<rcq, messagePool, arriving>>

GetMessageNoRepost ==
  /\ rpc = "get"
  /\ held' = [held EXCEPT !.slot = curMessage]
  /\ curMessage' = (curMessage + 1) % MessageNR
  /\ rpc' = "idle"
  /\ UNCHANGED <<rq, rcq, messagePool, arriving>>

\* getMessage: hands out a buffer, and reposts the batch that ends with it.
GetMessage ==
  /\ rpc = "get"
  /\ held' = [held EXCEPT !.slot = curMessage]
  /\ curMessage' = (curMessage + 1) % MessageNR
  /\ rq' = IF curMessage' % subNR = 0
           THEN rq \o Batch((curMessage' \div subNR + BatchCount - 1) % BatchCount)
           ELSE rq
  /\ rpc' = "idle"
  /\ UNCHANGED <<rcq, messagePool, arriving>>

\* A datagram arrives; senders keep to MaxBacklog.
Receive ==
  /\ Len(rcq) < MaxBacklog
  /\ IF rq = << >>
     THEN UNCHANGED <<rq, rcq, messagePool>>
     ELSE /\ messagePool' = [messagePool EXCEPT ![Head(rq)] = arriving]
          /\ rcq' = Append(rcq, Completion(Head(rq), arriving))
          /\ rq' = Tail(rq)
  /\ arriving' = (arriving + 1) % MsgCnt
  /\ UNCHANGED <<rpc, curMessage, held>>

RecvNext == PollRecvCq \/ GetMessage \/ Receive

RecvSpec == RecvInit /\ [][RecvNext]_recvVars

-----------------------------------------------------------------------------
(***************************************************************************)
(* Properties.                                                             *)
(***************************************************************************)

\* What the caller reads is the message whose completion it polled, until it
\* waits for the next one, even though the buffer may be posted again.
HeldIntact ==
  rpc = "idle" /\ held # NoMessage => messagePool[held.slot] = held.msg

\* Every buffer is in one place: posted, filled and waiting, or handed out and
\* to be reposted with its batch; and in the order of the ring.
BuffersAccounted ==
  /\ IsInjective(rq \o [i \in 1 .. Len(rcq) |-> rcq[i].slot])
  /\ Len(rq) + Len(rcq) + (IF rpc = "get" THEN 1 ELSE 0)
       = MessageNR - (curMessage % subNR)

\* With no more than all batches but one waiting, no datagram is dropped.
NoneDropped ==
  Len(rcq) < MessageNR - subNR => rq # << >>
=============================================================================
