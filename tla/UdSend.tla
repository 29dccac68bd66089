------------------------------- MODULE UdSend -------------------------------
(***************************************************************************)
(* The sending side of the datagram RPC of a thread: ud_rpc_call with      *)
(* RawMessageConnection and AbstractMessageConnection.                     *)
(*                                                                         *)
(* A call copies the message into the next buffer of a ring and posts an   *)
(* unreliable send.  Only one send in SignalBatch asks for a completion,   *)
(* and the thread polls it one batch later; a work request keeps its place *)
(* in the send queue until a completion at or behind it has been polled.   *)
(* The NIC reads the buffer when it gets to the work request, unless the   *)
(* message was small enough to be copied into the work request itself.     *)
(***************************************************************************)
EXTENDS MessageConnection, SequencesExt

CONSTANTS
  SignalBatch,  \* SIGNAL_BATCH + 1, a power of two
  Inline        \* bound: whether messages up to kMaxInlineData are sent, or others

\* A ring of two batches, so that the one in use is never the one under way.
ASSUME RingAssumption ==
  /\ SignalBatch \in Nat \ {0}
  /\ MessageNR \in Nat /\ MessageNR >= 2 * SignalBatch
  /\ Inline \subseteq BOOLEAN
  /\ MsgCnt \in Nat \ {0}

VARIABLES
  spc,          \* where the thread is in ud_rpc_call
  curSend,      \* buffer getSendPool returns next
  slot,         \* buffer of this call
  sendCounter,  \* sends so far; see Count
  nextMsg,      \* the message of the next call
  sendPool,     \* contents of the buffers
  ssq,          \* send queue: work requests that have not been retired
  sent,         \* how many of them the NIC has executed
  scq           \* completions in send_cq

threadVars == <<spc, curSend, slot, sendCounter, nextMsg, sendPool>>
sendVars   == <<threadVars, ssq, sent, scq>>

\* The work request for the buffer of this call.  Asking for a completion
\* overwrites the inline flag.  msg is the content at the time of posting.
fillSgeWr(signaled, small) ==
  [slot     |-> slot,
   msg      |-> sendPool[slot],
   signaled |-> signaled,
   inline   |-> small /\ ~signaled]

\* The send queue with one more work request; a full one refuses it.
Posted(wr) == IF Len(ssq) < MessageNR THEN Append(ssq, wr) ELSE ssq

\* The 64-bit counter is only tested for 0 and for multiples of SignalBatch, so
\* that after the first batch it is kept between SignalBatch and its double.
Count(n) == IF n + 1 = 2 * SignalBatch THEN SignalBatch ELSE n + 1

Signaled == sendCounter % SignalBatch = 0

SendInit ==
  /\ spc = "idle" /\ curSend = 0 /\ slot = 0 /\ sendCounter = 0 /\ nextMsg = 0
  /\ sendPool = [s \in Slot |-> 0]
  /\ ssq = << >> /\ sent = 0 /\ scq = 0

\* Seeded faults: curSend wraps after a batch; no completion is polled.
CopyRingOfOneBatch ==
  /\ spc = "idle"
  /\ slot' = curSend
  /\ curSend' = (curSend + 1) % SignalBatch
  /\ sendPool' = [sendPool EXCEPT ![curSend] = nextMsg]
  /\ spc' = IF Signaled /\ sendCounter > 0 THEN "poll" ELSE "post"
  /\ UNCHANGED <<sendCounter, nextMsg, ssq, sent, scq>>

CopyNeverPolls ==
  /\ spc = "idle"
  /\ slot' = curSend
  /\ curSend' = (curSend + 1) % MessageNR
  /\ sendPool' = [sendPool EXCEPT ![curSend] = nextMsg]
  /\ spc' = "post"
  /\ UNCHANGED <<sendCounter, nextMsg, ssq, sent, scq>>

\* ud_rpc_call: getSendPool and memcpy; sendRawMessage has to poll first when a
\* batch is complete.
Copy ==
  /\ spc = "idle"
  /\ slot' = curSend
  /\ curSend' = (curSend + 1) % MessageNR
  /\ sendPool' = [sendPool EXCEPT ![curSend] = nextMsg]
  /\ spc' = IF Signaled /\ sendCounter > 0 THEN "poll" ELSE "post"
  /\ UNCHANGED <<sendCounter, nextMsg, ssq, sent, scq>>

\* Polling a completion retires the work requests up to the one it is for.
PollSendCq ==
  /\ spc = "poll"
  /\ scq > 0
  /\ scq' = scq - 1
  /\ LET n == SelectInSeq(ssq, LAMBDA wr : wr.signaled) IN
       /\ ssq' = SubSeq(ssq, n + 1, Len(ssq))
       /\ sent' = sent - n
  /\ spc' = "post"
  /\ UNCHANGED <<curSend, slot, sendCounter, nextMsg, sendPool>>

\* Seeded faults: only the first send, or every send, asks for a completion.
PostFirstSignaled ==
  /\ spc = "post"
  /\ \E small \in Inline : ssq' = Posted(fillSgeWr(sendCounter = 0, small))
  /\ sendCounter' = Count(sendCounter)
  /\ nextMsg' = (nextMsg + 1) % MsgCnt
  /\ spc' = "idle"
  /\ UNCHANGED <<curSend, slot, sendPool, sent, scq>>

PostAllSignaled ==
  /\ spc = "post"
  /\ ssq' = Posted(fillSgeWr(TRUE, FALSE))
  /\ sendCounter' = Count(sendCounter)
  /\ nextMsg' = (nextMsg + 1) % MsgCnt
  /\ spc' = "idle"
  /\ UNCHANGED <<curSend, slot, sendPool, sent, scq>>

\* rdmaSend for datagrams.  The result of posting is not looked at: a message that
\* a full queue refuses is not sent.
Post ==
  /\ spc = "post"
  /\ \E small \in Inline : ssq' = Posted(fillSgeWr(Signaled, small))
  /\ sendCounter' = Count(sendCounter)
  /\ nextMsg' = (nextMsg + 1) % MsgCnt
  /\ spc' = "idle"
  /\ UNCHANGED <<curSend, slot, sendPool, sent, scq>>

\* The NIC executes the oldest work request left.
Execute ==
  /\ sent < Len(ssq)
  /\ sent' = sent + 1
  /\ scq' = IF ssq[sent + 1].signaled THEN scq + 1 ELSE scq
  /\ UNCHANGED <<threadVars, ssq>>

Thread == Copy \/ PollSendCq \/ Post

SendNext == Thread \/ Execute

\* The thread calls over and over, and the NIC works off its queue.
SendFairness == WF_sendVars(Thread) /\ WF_sendVars(Execute)

SendSpec     == SendInit /\ [][SendNext]_sendVars
SendFairSpec == SendSpec /\ SendFairness

-----------------------------------------------------------------------------
(***************************************************************************)
(* Properties.                                                             *)
(***************************************************************************)

\* A buffer is not overwritten before the NIC has read it, although most sends
\* are never reported as done.
SentAsCopied ==
  \A i \in sent + 1 .. Len(ssq) :
    ~ssq[i].inline => sendPool[ssq[i].slot] = ssq[i].msg

\* The send queue has room for every call: polling once in a batch retires
\* work requests fast enough.
SendsAccepted == spc = "post" => Len(ssq) < MessageNR

\* At most one completion is ever waiting, so that send_cq cannot overflow.
CompletionsPolled == scq <= 1

\* A call that waits for the completion of the batch before gets it.
PollReturns == spc = "poll" ~> spc = "post"
=============================================================================
