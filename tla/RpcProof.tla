------------------------------ MODULE RpcProof ------------------------------
(***************************************************************************)
(* The safety of the datagram RPC of a thread.  First the sending side, for *)
(* every ring of at least two batches; then the receiving side, for every  *)
(* ring, number of batches and backlog.  The inductive invariant of each is *)
(* shown with one lemma per action, and implies the properties.            *)
(***************************************************************************)
EXTENDS UdSend, UdRecv, SharedLemmas

-----------------------------------------------------------------------------
(***************************************************************************)
(* The inductive invariant.  The buffers in the send queue are a stretch   *)
(* of the ring that ends just before the one posted next, and one of the   *)
(* work requests, if any, asks for a completion: the first of all, until   *)
(* it is retired, and then that at place SignalBatch.                      *)
(***************************************************************************)

WorkRequest == [slot : Slot, msg : 0 .. MsgCnt - 1, signaled : BOOLEAN, inline : BOOLEAN]

SendTypeOK ==
  /\ spc \in {"idle", "poll", "post"}
  /\ curSend \in Slot /\ slot \in Slot
  /\ sendCounter \in 0 .. 2 * SignalBatch - 1
  /\ nextMsg \in 0 .. MsgCnt - 1
  /\ sendPool \in [Slot -> 0 .. MsgCnt - 1]
  /\ ssq \in Seq(WorkRequest)
  /\ sent \in 0 .. Len(ssq) /\ scq \in Nat

\* The buffer posted next, and how far buffer s lies behind buffer u in the ring.
upcoming     == IF spc = "idle" THEN curSend ELSE slot
Behind(u, s) == IF s < u THEN u - s ELSE (u + MessageNR) - s

SendRingInv ==
  /\ spc # "idle" => curSend = (slot + 1) % MessageNR /\ sendPool[slot] = nextMsg
  /\ \A i \in 1 .. Len(ssq) :
       /\ Behind(upcoming, ssq[i].slot) = Len(ssq) + 1 - i
       /\ sendPool[ssq[i].slot] = ssq[i].msg

\* The work request that asks for a completion, or 0: none does before the first
\* call, and between the poll of one completion and the request for the next.
signal == IF sendCounter = 0 \/ (spc = "post" /\ sendCounter = SignalBatch) THEN 0
          ELSE IF Len(ssq) = sendCounter THEN 1 ELSE SignalBatch

SendQueueInv ==
  /\ spc = "poll" => sendCounter = SignalBatch
  /\ sendCounter < SignalBatch => Len(ssq) = sendCounter
  /\ sendCounter > SignalBatch => Len(ssq) = sendCounter - 1
  /\ sendCounter = SignalBatch =>
       IF spc = "post" THEN Len(ssq) = SignalBatch - 1
       ELSE Len(ssq) \in {SignalBatch, 2 * SignalBatch - 1}
  /\ \A i \in 1 .. Len(ssq) : ssq[i].signaled <=> i = signal
  /\ scq = IF signal > 0 /\ sent >= signal THEN 1 ELSE 0

SendInv == SendTypeOK /\ SendRingInv /\ SendQueueInv

\* The numbers, with the types of the variables.
LEMMA SendFacts ==
  ASSUME SendInv
  PROVE  /\ SignalBatch \in Nat \ {0} /\ MessageNR \in Nat \ {0}
         /\ 2 * SignalBatch <= MessageNR /\ MsgCnt \in Nat \ {0}
         /\ curSend \in Slot /\ slot \in Slot /\ upcoming \in Slot
         /\ sendCounter \in 0 .. 2 * SignalBatch - 1 /\ nextMsg \in 0 .. MsgCnt - 1
         /\ ssq \in Seq(WorkRequest) /\ Len(ssq) \in Nat /\ sent \in 0 .. Len(ssq)
         /\ \A i \in 1 .. Len(ssq) : ssq[i] \in WorkRequest /\ ssq[i].slot \in Slot
         /\ Len(ssq) < 2 * SignalBatch
         /\ spc = "post" => Len(ssq) + 1 < 2 * SignalBatch
<1>1. /\ SignalBatch \in Nat \ {0} /\ MessageNR \in Nat \ {0}
      /\ 2 * SignalBatch <= MessageNR /\ MsgCnt \in Nat \ {0}
  BY RingAssumption
<1>2. /\ curSend \in Slot /\ slot \in Slot /\ spc \in {"idle", "poll", "post"}
      /\ sendCounter \in 0 .. 2 * SignalBatch - 1 /\ nextMsg \in 0 .. MsgCnt - 1
      /\ ssq \in Seq(WorkRequest) /\ sent \in 0 .. Len(ssq)
  BY DEF SendInv, SendTypeOK
<1>3. upcoming \in Slot
  BY <1>2 DEF upcoming
<1>4. Len(ssq) \in Nat /\ \A i \in 1 .. Len(ssq) : ssq[i] \in WorkRequest
  BY <1>2
<1>5. \A wr \in WorkRequest : wr.slot \in Slot
  BY DEF WorkRequest
<1>6. Len(ssq) < 2 * SignalBatch /\ (spc = "post" => Len(ssq) + 1 < 2 * SignalBatch)
  BY <1>1, <1>2, <1>4 DEF SendInv, SendQueueInv
<1> QED
  BY <1>1, <1>2, <1>3, <1>4, <1>5, <1>6

\* The buffer used next is not one of those in the send queue: these lie behind it
\* by less than the whole ring.
LEMMA UpcomingFree ==
  ASSUME SendInv, NEW i \in 1 .. Len(ssq)
  PROVE  ssq[i].slot # upcoming
<1> SUFFICES ASSUME ssq[i].slot = upcoming PROVE FALSE
  OBVIOUS
<1>1. upcoming \in 0 .. MessageNR - 1 /\ MessageNR \in Nat
  BY SendFacts DEF Slot
<1>2. Behind(upcoming, upcoming) = MessageNR
  BY <1>1 DEF Behind
<1>3. Behind(upcoming, ssq[i].slot) = Len(ssq) + 1 - i
  BY DEF SendInv, SendRingInv
<1> QED
  BY <1>2, <1>3, SendFacts

-----------------------------------------------------------------------------

LEMMA InitSendInv == SendInit => SendInv
<1> SUFFICES ASSUME SendInit PROVE SendInv
  OBVIOUS
<1>1. 0 \in Slot /\ 0 \in 0 .. MsgCnt - 1 /\ 0 \in 0 .. 2 * SignalBatch - 1
  BY RingAssumption DEF Slot
<1>2. ssq \in Seq(WorkRequest) /\ Len(ssq) = 0
  BY DEF SendInit
<1>3. SendTypeOK
  BY <1>1, <1>2 DEF SendInit, SendTypeOK
<1>4. SendRingInv
  BY <1>2 DEF SendInit, SendRingInv
<1>5. SendQueueInv
  BY <1>2, RingAssumption DEF SendInit, SendQueueInv, signal
<1> QED
  BY <1>3, <1>4, <1>5 DEF SendInv

LEMMA CopyInv == SendInv /\ Copy => SendInv'
<1> SUFFICES ASSUME SendInv, Copy PROVE SendInv'
  OBVIOUS
<1>1. /\ spc = "idle" /\ slot' = curSend /\ curSend' = (curSend + 1) % MessageNR
      /\ sendPool' = [sendPool EXCEPT ![curSend] = nextMsg]
      /\ UNCHANGED <<sendCounter, nextMsg, ssq, sent, scq>>
  BY DEF Copy
<1>2. upcoming = curSend /\ upcoming' = curSend
  <2>1. spc' # "idle"
    BY DEF Copy
  <2> QED
    BY <1>1, <2>1 DEF upcoming
<1>3. spc' = IF sendCounter = SignalBatch THEN "poll" ELSE "post"
  <2>1. sendCounter % SignalBatch = 0 <=> sendCounter = 0 \/ sendCounter = SignalBatch
    BY SendFacts, BatchMod
  <2>2. Signaled /\ sendCounter > 0 <=> sendCounter = SignalBatch
    BY <2>1, SendFacts DEF Signaled
  <2> QED
    BY <2>2 DEF Copy
<1>4. (curSend + 1) % MessageNR \in Slot
  BY SendFacts, NextMod, SMTT(30) DEF Slot
<1>5. SendTypeOK'
  BY <1>1, <1>3, <1>4, SendFacts DEF SendInv, SendTypeOK
<1>6. \A i \in 1 .. Len(ssq) : sendPool'[ssq[i].slot] = sendPool[ssq[i].slot]
  BY <1>1, <1>2, UpcomingFree, SendFacts DEF SendInv, SendTypeOK
<1>7. sendPool'[curSend] = nextMsg
  BY <1>1, SendFacts DEF SendInv, SendTypeOK
<1>8. SendRingInv'
  BY <1>1, <1>2, <1>6, <1>7 DEF SendInv, SendRingInv, Behind
<1>9. signal' = signal
  BY <1>1, <1>3, SendFacts DEF signal
<1>10. SendQueueInv'
  <2>1. sendCounter = SignalBatch => Len(ssq) \in {SignalBatch, 2 * SignalBatch - 1}
    BY <1>1 DEF SendInv, SendQueueInv
  <2>2. /\ sendCounter < SignalBatch => Len(ssq) = sendCounter
        /\ sendCounter > SignalBatch => Len(ssq) = sendCounter - 1
        /\ \A i \in 1 .. Len(ssq) : ssq[i].signaled <=> i = signal
        /\ scq = IF signal > 0 /\ sent >= signal THEN 1 ELSE 0
    BY DEF SendInv, SendQueueInv
  <2> QED
    BY <1>1, <1>3, <1>9, <2>1, <2>2 DEF SendQueueInv
<1> QED
  BY <1>5, <1>8, <1>10 DEF SendInv

\* What is polled is the one completion there is, for the work request at signal.
LEMMA PollSendCqInv == SendInv /\ PollSendCq => SendInv'
<1> SUFFICES ASSUME SendInv, PollSendCq PROVE SendInv'
  OBVIOUS
<1> DEFINE n == signal
<1>1. /\ spc = "poll" /\ spc' = "post" /\ scq > 0 /\ scq' = scq - 1
      /\ UNCHANGED <<curSend, slot, sendCounter, nextMsg, sendPool>>
  BY DEF PollSendCq
<1>2. /\ sendCounter = SignalBatch /\ Len(ssq) \in {SignalBatch, 2 * SignalBatch - 1}
      /\ \A i \in 1 .. Len(ssq) : ssq[i].signaled <=> i = n
      /\ scq = IF n > 0 /\ sent >= n THEN 1 ELSE 0
  BY <1>1 DEF SendInv, SendQueueInv
<1>3. n \in 1 .. Len(ssq) /\ Len(ssq) - n = SignalBatch - 1 /\ sent >= n
  <2>1. n = IF Len(ssq) = SignalBatch THEN 1 ELSE SignalBatch
    BY <1>1, <1>2, SendFacts DEF signal
  <2> QED
    BY <1>1, <1>2, <2>1, SendFacts
<1> HIDE DEF n
<1>4. ssq' = SubSeq(ssq, n + 1, Len(ssq)) /\ sent' = sent - n
  <2> DEFINE I == {i \in 1 .. Len(ssq) : ssq[i].signaled}
  <2>1. I = {n}
    BY <1>2, <1>3
  <2>2. Min(I) = n
    BY <1>3, <2>1, SendFacts DEF Min
  <2>3. SelectInSeq(ssq, LAMBDA wr : wr.signaled) = IF I # {} THEN Min(I) ELSE 0
    BY DEF SelectInSeq
  <2> HIDE DEF I
  <2>4. SelectInSeq(ssq, LAMBDA wr : wr.signaled) = n
    BY <2>1, <2>2, <2>3
  <2> QED
    BY <2>4 DEF PollSendCq
<1>5. /\ ssq' \in Seq(WorkRequest) /\ Len(ssq') = Len(ssq) - n
      /\ \A i \in 1 .. Len(ssq') : i + n \in 1 .. Len(ssq) /\ ssq'[i] = ssq[i + n]
  <2>1. n + 1 \in Int /\ Len(ssq) \in Int /\ \A i \in n + 1 .. Len(ssq) : ssq[i] \in WorkRequest
    BY <1>3, SendFacts
  <2>2. /\ SubSeq(ssq, n + 1, Len(ssq)) \in Seq(WorkRequest)
        /\ Len(SubSeq(ssq, n + 1, Len(ssq)))
             = IF n + 1 <= Len(ssq) THEN Len(ssq) - (n + 1) + 1 ELSE 0
        /\ \A i \in 1 .. Len(ssq) - (n + 1) + 1 :
             SubSeq(ssq, n + 1, Len(ssq))[i] = ssq[(n + 1) + i - 1]
    BY <2>1, SubSeqProperties
  <2>3. Len(ssq') = Len(ssq) - n
    BY <1>3, <1>4, <2>2, SendFacts
  <2>4. ASSUME NEW i \in 1 .. Len(ssq')
        PROVE  i + n \in 1 .. Len(ssq) /\ ssq'[i] = ssq[i + n]
    <3>1. i \in 1 .. Len(ssq) - (n + 1) + 1 /\ (n + 1) + i - 1 = i + n
      BY <1>3, <2>3, SendFacts
    <3>2. ssq'[i] = ssq[i + n]
      BY <1>4, <2>2, <3>1
    <3> QED
      BY <1>3, <2>3, <3>2, SendFacts
  <2> QED
    BY <1>4, <2>2, <2>3, <2>4
<1>6. SendTypeOK'
  <2>1. sent' \in 0 .. Len(ssq')
    BY <1>3, <1>4, <1>5, SendFacts, SMTT(30)
  <2>2. scq' \in Nat
    BY <1>1 DEF SendInv, SendTypeOK
  <2> QED
    BY <1>1, <1>5, <2>1, <2>2, SendFacts DEF SendInv, SendTypeOK
<1>7. upcoming = slot /\ upcoming' = slot
  BY <1>1 DEF upcoming
<1>8. ASSUME NEW i \in 1 .. Len(ssq')
      PROVE  Behind(upcoming, ssq'[i].slot) = Len(ssq') + 1 - i
  <2>1. Behind(upcoming, ssq[i + n].slot) = Len(ssq) + 1 - (i + n)
    BY <1>5 DEF SendInv, SendRingInv
  <2>2. Len(ssq) + 1 - (i + n) = Len(ssq') + 1 - i
    BY <1>3, <1>5, SendFacts
  <2> QED
    BY <1>5, <2>1, <2>2
<1>9. SendRingInv'
  <2>1. \A i \in 1 .. Len(ssq') : sendPool[ssq'[i].slot] = ssq'[i].msg
    BY <1>5 DEF SendInv, SendRingInv
  <2>2. curSend = (slot + 1) % MessageNR
    BY <1>1 DEF SendInv, SendRingInv
  <2>3. sendPool[slot] = nextMsg
    BY <1>1 DEF SendInv, SendRingInv
  <2> QED
    BY <1>1, <1>7, <1>8, <2>1, <2>2, <2>3 DEF SendRingInv, Behind
<1>10. signal' = 0
  BY <1>1, <1>2 DEF signal
<1>11. SendQueueInv'
  <2>1. \A i \in 1 .. Len(ssq') : ~ssq'[i].signaled
    <3> SUFFICES ASSUME NEW i \in 1 .. Len(ssq') PROVE ~ssq'[i].signaled
      OBVIOUS
    <3>1. i + n # n
      BY <1>3, <1>5, SendFacts
    <3> QED
      BY <1>2, <1>5, <3>1
  <2>2. scq' = 0
    BY <1>1, <1>2
  <2>3. Len(ssq') = SignalBatch - 1
    BY <1>3, <1>5
  <2>4. \A i \in 1 .. Len(ssq') : i # 0
    BY <1>5, SendFacts
  <2>5. \A i \in 1 .. Len(ssq') : ssq'[i].signaled <=> i = signal'
    BY <1>10, <2>1, <2>4
  <2>6. sendCounter' = SignalBatch
    BY <1>1, <1>2
  <2>7. scq' = IF signal' > 0 /\ sent' >= signal' THEN 1 ELSE 0
    BY <1>10, <2>2
  <2> QED
    BY <1>1, <2>3, <2>5, <2>6, <2>7, SendFacts DEF SendQueueInv
<1> QED
  BY <1>6, <1>9, <1>11 DEF SendInv

\* The work request posted comes right behind the buffer posted next; it asks for a
\* completion when a batch begins.
LEMMA PostInv == SendInv /\ Post => SendInv'
<1> SUFFICES ASSUME SendInv, Post PROVE SendInv'
  OBVIOUS
<1>1. PICK small \in Inline :
        /\ spc = "post" /\ spc' = "idle"
        /\ ssq' = Append(ssq, fillSgeWr(Signaled, small))
        /\ sendCounter' = Count(sendCounter) /\ nextMsg' = (nextMsg + 1) % MsgCnt
        /\ UNCHANGED <<curSend, slot, sendPool, sent, scq>>
  <2>1. spc = "post"
    BY DEF Post
  <2>2. Len(ssq) < MessageNR
    BY <2>1, SendFacts
  <2> QED
    BY <2>1, <2>2 DEF Post, Posted
<1> DEFINE wr == fillSgeWr(Signaled, small)
<1>2. wr \in WorkRequest /\ wr.slot = slot /\ wr.msg = sendPool[slot] /\ (wr.signaled <=> Signaled)
  <2>1. sendPool[slot] \in 0 .. MsgCnt - 1
    BY SendFacts DEF SendInv, SendTypeOK
  <2>2. small \in BOOLEAN /\ Signaled \in BOOLEAN
    BY RingAssumption DEF Signaled
  <2>3. (small /\ ~Signaled) \in BOOLEAN
    OBVIOUS
  <2> QED
    BY <2>1, <2>2, <2>3, SendFacts DEF fillSgeWr, WorkRequest
<1> HIDE DEF wr
<1>3. /\ ssq' \in Seq(WorkRequest) /\ Len(ssq') = Len(ssq) + 1
      /\ \A i \in 1 .. Len(ssq) : ssq'[i] = ssq[i]
      /\ ssq'[Len(ssq) + 1] = wr
  BY <1>1, <1>2, SendFacts, AppendProperties DEF wr
<1>4. sendCounter' = IF sendCounter + 1 = 2 * SignalBatch THEN SignalBatch ELSE sendCounter + 1
  BY <1>1 DEF Count
<1>5. SendTypeOK'
  <2>1. sendCounter' \in 0 .. 2 * SignalBatch - 1
    <3> DEFINE b == SignalBatch
               k == sendCounter
    <3>1. b \in Nat \ {0} /\ k \in 0 .. 2 * b - 1
      BY SendFacts
    <3> HIDE DEF b, k
    <3>2. (IF k + 1 = 2 * b THEN b ELSE k + 1) \in 0 .. 2 * b - 1
      BY <3>1
    <3> QED
      BY <1>4, <3>2 DEF b, k
  <2>2. nextMsg' \in 0 .. MsgCnt - 1
    BY <1>1, SendFacts, NextMod
  <2>3. sent' \in 0 .. Len(ssq')
    BY <1>1, <1>3, SendFacts
  <2> QED
    BY <1>1, <1>3, <2>1, <2>2, <2>3, SendFacts DEF SendInv, SendTypeOK
<1>6. /\ upcoming = slot /\ upcoming' = (slot + 1) % MessageNR
  BY <1>1 DEF upcoming, SendInv, SendRingInv
<1>7. /\ Behind(upcoming', slot) = 1
      /\ \A s \in Slot : Behind(slot, s) < MessageNR => Behind(upcoming', s) = Behind(slot, s) + 1
  <2>1. MessageNR \in Nat \ {0} /\ slot \in 0 .. MessageNR - 1
    BY SendFacts DEF Slot
  <2>2. upcoming' = IF slot + 1 = MessageNR THEN 0 ELSE slot + 1
    BY <1>6, <2>1, NextMod
  <2>3. Behind(upcoming', slot) = 1
    BY <2>1, <2>2, RingAssumption DEF Behind
  <2>4. ASSUME NEW s \in Slot, Behind(slot, s) < MessageNR
        PROVE  Behind(upcoming', s) = Behind(slot, s) + 1
    <3>1. s \in 0 .. MessageNR - 1
      BY DEF Slot
    <3> QED
      BY <2>1, <2>2, <2>4, <3>1 DEF Behind
  <2> QED
    BY <2>3, <2>4
<1>8. ASSUME NEW i \in 1 .. Len(ssq')
      PROVE  Behind(upcoming', ssq'[i].slot) = Len(ssq') + 1 - i
  <2>1. CASE i \in 1 .. Len(ssq)
    <3>1. Behind(slot, ssq[i].slot) = Len(ssq) + 1 - i /\ ssq[i].slot \in Slot
      BY <1>6, <2>1, SendFacts DEF SendInv, SendRingInv
    <3>2. Len(ssq) + 1 - i < MessageNR
      BY <2>1, SendFacts
    <3> QED
      BY <1>3, <1>7, <2>1, <3>1, <3>2, SendFacts, SMTT(30)
  <2>2. CASE i = Len(ssq) + 1
    BY <1>2, <1>3, <1>7, <2>2, SendFacts
  <2>3. i \in 1 .. Len(ssq) \/ i = Len(ssq) + 1
    BY <1>3, SendFacts
  <2> QED
    BY <2>1, <2>2, <2>3
<1>9. SendRingInv'
  <2>1. \A i \in 1 .. Len(ssq') : sendPool[ssq'[i].slot] = ssq'[i].msg
    <3> SUFFICES ASSUME NEW i \in 1 .. Len(ssq') PROVE sendPool[ssq'[i].slot] = ssq'[i].msg
      OBVIOUS
    <3>1. CASE i \in 1 .. Len(ssq)
      BY <1>3, <3>1 DEF SendInv, SendRingInv
    <3>2. CASE i = Len(ssq) + 1
      BY <1>2, <1>3, <3>2
    <3> QED
      BY <1>3, <3>1, <3>2, SendFacts
  <2> QED
    BY <1>1, <1>8, <2>1 DEF SendRingInv, Behind
<1>10. Signaled <=> sendCounter = 0 \/ sendCounter = SignalBatch
  BY SendFacts, BatchMod DEF Signaled
<1>11. /\ sendCounter < SignalBatch => Len(ssq) = sendCounter
       /\ sendCounter > SignalBatch => Len(ssq) = sendCounter - 1
       /\ sendCounter = SignalBatch => Len(ssq) = SignalBatch - 1
       /\ \A i \in 1 .. Len(ssq) : ssq[i].signaled <=> i = signal
       /\ scq = IF signal > 0 /\ sent >= signal THEN 1 ELSE 0
  BY <1>1 DEF SendInv, SendQueueInv
<1>12. Len(ssq') = IF sendCounter < SignalBatch THEN sendCounter + 1
                   ELSE IF sendCounter = SignalBatch THEN SignalBatch ELSE sendCounter
  BY <1>3, <1>11, SendFacts
<1>13. signal' = IF Signaled THEN Len(ssq') ELSE signal
  <2>1. signal' = IF sendCounter' = 0 THEN 0 ELSE IF Len(ssq') = sendCounter' THEN 1 ELSE SignalBatch
    BY <1>1 DEF signal
  <2>2. signal = IF sendCounter = 0 \/ sendCounter = SignalBatch THEN 0
                 ELSE IF Len(ssq) = sendCounter THEN 1 ELSE SignalBatch
    BY <1>1 DEF signal
  <2>3. CASE sendCounter < SignalBatch
    BY <1>4, <1>10, <1>11, <1>12, <2>1, <2>2, <2>3, SendFacts
  <2>4. CASE sendCounter = SignalBatch
    BY <1>4, <1>10, <1>11, <1>12, <2>1, <2>2, <2>4, SendFacts
  <2>5. CASE sendCounter > SignalBatch
    BY <1>4, <1>10, <1>11, <1>12, <2>1, <2>2, <2>5, SendFacts
  <2> QED
    BY <2>3, <2>4, <2>5, SendFacts
<1>14. Signaled => signal = 0
  BY <1>1, <1>10 DEF signal
<1>15. signal \in 0 .. Len(ssq)
  BY <1>1, <1>11, SendFacts DEF signal
<1>16. \A i \in 1 .. Len(ssq') : ssq'[i].signaled <=> i = signal'
  <2> SUFFICES ASSUME NEW i \in 1 .. Len(ssq') PROVE ssq'[i].signaled <=> i = signal'
    OBVIOUS
  <2>1. CASE i \in 1 .. Len(ssq)
    <3>1. ssq'[i].signaled <=> i = signal
      BY <1>3, <1>11, <2>1
    <3>2. i # 0 /\ i # Len(ssq')
      BY <1>3, <2>1, SendFacts
    <3> QED
      BY <1>13, <1>14, <3>1, <3>2
  <2>2. CASE i = Len(ssq) + 1
    <3>1. ssq'[i].signaled <=> Signaled
      BY <1>2, <1>3, <2>2
    <3>2. i = Len(ssq') /\ i # signal
      BY <1>3, <1>15, <2>2, SendFacts
    <3> QED
      BY <1>13, <3>1, <3>2
  <2> QED
    BY <1>3, <2>1, <2>2, SendFacts
<1>17. scq' = IF signal' > 0 /\ sent' >= signal' THEN 1 ELSE 0
  <2>1. CASE Signaled
    <3>1. signal' = Len(ssq) + 1 /\ scq = 0
      BY <1>3, <1>11, <1>13, <1>14, <2>1
    <3> QED
      BY <1>1, <3>1, SendFacts
  <2>2. CASE ~Signaled
    BY <1>1, <1>11, <1>13, <2>2
  <2> QED
    BY <2>1, <2>2
<1>18. SendQueueInv'
  <2>1. /\ spc' # "poll" /\ spc' # "post"
        /\ sendCounter' < SignalBatch => Len(ssq') = sendCounter'
        /\ sendCounter' > SignalBatch => Len(ssq') = sendCounter' - 1
        /\ sendCounter' = SignalBatch => Len(ssq') \in {SignalBatch, 2 * SignalBatch - 1}
    BY <1>1, <1>4, <1>12, SendFacts
  <2> QED
    BY <1>16, <1>17, <2>1 DEF SendQueueInv
<1> QED
  BY <1>5, <1>9, <1>18 DEF SendInv

LEMMA ExecuteInv == SendInv /\ Execute => SendInv'
<1> SUFFICES ASSUME SendInv, Execute PROVE SendInv'
  OBVIOUS
<1>1. /\ sent < Len(ssq) /\ sent' = sent + 1
      /\ scq' = IF ssq[sent + 1].signaled THEN scq + 1 ELSE scq
      /\ UNCHANGED <<spc, curSend, slot, sendCounter, nextMsg, sendPool, ssq>>
  BY DEF Execute, threadVars
<1>2. SendTypeOK'
  <2>1. sent' \in 0 .. Len(ssq')
    BY <1>1, SendFacts
  <2>2. scq' \in Nat
    BY <1>1 DEF SendInv, SendTypeOK
  <2> QED
    BY <1>1, <2>1, <2>2 DEF SendInv, SendTypeOK
<1>3. SendRingInv'
  BY <1>1 DEF SendInv, SendRingInv, Behind, upcoming
<1>4. signal' = signal
  BY <1>1 DEF signal
<1>5. scq' = IF signal > 0 /\ sent' >= signal THEN 1 ELSE 0
  <2>1. scq = IF signal > 0 /\ sent >= signal THEN 1 ELSE 0
    BY DEF SendInv, SendQueueInv
  <2>2. ssq[sent + 1].signaled <=> sent + 1 = signal
    <3>1. sent + 1 \in 1 .. Len(ssq)
      BY <1>1, SendFacts
    <3> QED
      BY <3>1 DEF SendInv, SendQueueInv
  <2>3. signal \in Nat
    BY SendFacts DEF signal
  <2> HIDE DEF signal
  <2> QED
    BY <1>1, <2>1, <2>2, <2>3, SendFacts
<1>6. SendQueueInv'
  BY <1>1, <1>4, <1>5 DEF SendInv, SendQueueInv
<1> QED
  BY <1>2, <1>3, <1>6 DEF SendInv

\* Every step preserves SendInv.
LEMMA NextSendInv == SendInv /\ [SendNext]_sendVars => SendInv'
<1> SUFFICES ASSUME SendInv, [SendNext]_sendVars PROVE SendInv'
  OBVIOUS
<1>1. CASE UNCHANGED sendVars
  BY <1>1 DEF sendVars, threadVars, SendInv, SendTypeOK, SendRingInv, SendQueueInv, Behind, upcoming, signal
<1> QED
  BY <1>1, CopyInv, PollSendCqInv, PostInv, ExecuteInv DEF SendNext, Thread

-----------------------------------------------------------------------------

\* The inductive invariant of ud_rpc_call: the send queue holds the buffers just
\* behind the one used next, and a single work request that asks for a completion.
THEOREM SendInvariance == SendSpec => []SendInv
<1> QED
  BY InitSendInv, NextSendInv, PTL DEF SendSpec

\* A buffer is not overwritten before the NIC has read it, though only one send in a
\* batch is reported as done.
THEOREM BuffersReadFirst == SendSpec => []SentAsCopied
<1>1. SendInv => SentAsCopied
  <2> SUFFICES ASSUME SendInv, NEW i \in sent + 1 .. Len(ssq)
               PROVE  sendPool[ssq[i].slot] = ssq[i].msg
    BY DEF SentAsCopied
  <2>1. i \in 1 .. Len(ssq)
    BY SendFacts
  <2> QED
    BY <2>1 DEF SendInv, SendRingInv
<1> QED
  BY <1>1, SendInvariance, PTL

\* The send queue of a thread always has room for the call it makes, so that
\* rdmaSend, whose result nobody looks at, succeeds.
THEOREM CallsAccepted == SendSpec => []SendsAccepted
<1>1. SendInv => SendsAccepted
  BY SendFacts DEF SendsAccepted
<1> QED
  BY <1>1, SendInvariance, PTL

\* At most one completion waits in send_cq at any time.
THEOREM OneCompletion == SendSpec => []CompletionsPolled
<1>1. SendInv => CompletionsPolled
  BY DEF SendInv, SendQueueInv, CompletionsPolled
<1> QED
  BY <1>1, SendInvariance, PTL

-----------------------------------------------------------------------------
(***************************************************************************)
(* The inductive invariant.  The buffers filled and waiting, and behind    *)
(* them those posted, are a stretch of the ring that begins at the buffer  *)
(* handed out next; the one before it is what the caller reads.            *)
(***************************************************************************)

Message == [opcode : {"recv"}, slot : Slot, msg : 0 .. MsgCnt - 1]

RecvTypeOK ==
  /\ rpc \in {"idle", "get"}
  /\ curMessage \in Slot
  /\ rq \in Seq(Slot) /\ rcq \in Seq(Message)
  /\ messagePool \in [Slot -> 0 .. MsgCnt - 1]
  /\ arriving \in 0 .. MsgCnt - 1
  /\ held \in Message \cup {NoMessage}

\* The buffer of the next completion that is polled.
first == IF rpc = "get" THEN curMessage + 1 ELSE curMessage

RecvRingInv ==
  /\ \A i \in 1 .. Len(rcq) : rcq[i].slot = ((first + i) - 1) % MessageNR
  /\ \A i \in 1 .. Len(rq) : rq[i] = ((first + Len(rcq) + i) - 1) % MessageNR
  /\ first + Len(rcq) + Len(rq) = (curMessage - (curMessage % subNR)) + MessageNR

MessageInv ==
  /\ \A i \in 1 .. Len(rcq) : messagePool[rcq[i].slot] = rcq[i].msg
  /\ rpc = "get" => held # NoMessage
  /\ held # NoMessage =>
       /\ held.slot = ((first + MessageNR) - 1) % MessageNR
       /\ messagePool[held.slot] = held.msg

RecvInv == RecvTypeOK /\ RecvRingInv /\ MessageInv

-----------------------------------------------------------------------------
(***************************************************************************)
(* Numbers.                                                                *)
(***************************************************************************)

\* The ring consists of BatchCount batches of subNR buffers.
LEMMA Product ==
  /\ MessageNR \in Nat \ {0} /\ BatchCount \in Nat \ {0} /\ subNR \in Nat \ {0}
  /\ MessageNR = subNR * BatchCount /\ subNR <= MessageNR
<1>1. /\ MessageNR \in Nat \ {0} /\ BatchCount \in Nat \ {0} /\ MessageNR % BatchCount = 0
      /\ MaxBacklog \in Nat /\ MaxBacklog < MessageNR /\ MsgCnt \in Nat \ {0}
  BY BatchAssumption
<1>2. subNR \in Nat /\ MessageNR = BatchCount * subNR
  BY <1>1 DEF subNR
<1> HIDE DEF subNR
<1>3. subNR # 0
  BY <1>1, <1>2
<1>4. subNR * BatchCount = BatchCount * subNR
  BY <1>1, <1>2
<1>5. subNR <= BatchCount * subNR
  BY <1>1, <1>2, <1>3
<1> QED
  BY <1>1, <1>2, <1>3, <1>4, <1>5

\* The constants, without the product.
LEMMA Sizes ==
  /\ MessageNR \in Nat \ {0} /\ BatchCount \in Nat \ {0}
  /\ subNR \in Nat \ {0} /\ subNR <= MessageNR
  /\ MaxBacklog \in Nat /\ MaxBacklog < MessageNR /\ MsgCnt \in Nat \ {0}
BY Product, BatchAssumption

\* The batch that ends just before buffer c, the first of a batch.
LEMMA BatchBefore ==
  ASSUME NEW c \in Slot, c % subNR = 0,
         NEW i \in 1 .. subNR
  PROVE  ((c \div subNR + BatchCount - 1) % BatchCount) * subNR + i - 1
           = ((c + (MessageNR - subNR) + i) - 1) % MessageNR
<1> DEFINE k == subNR
           b == BatchCount
           n == MessageNR
           d == c \div k
<1>1. k \in Nat \ {0} /\ b \in Nat \ {0} /\ n = k * b /\ i \in 1 .. k /\ n \in Nat \ {0} /\ k <= n
  BY Product
<1>2. c \in 0 .. n - 1
  BY DEF Slot
<1> HIDE DEF k, b, n
<1>3. d \in Nat /\ c = k * d
  <2>1. c % k = 0
    BY DEF k
  <2> QED
    BY <1>1, <1>2, <2>1
<1> HIDE DEF d
<1>4. d \in 0 .. b - 1
  <2> SUFFICES ASSUME d >= b PROVE FALSE
    BY <1>1, <1>3
  <2>1. k * d >= k * b
    BY <1>1, <1>3
  <2> QED
    BY <1>1, <1>2, <1>3, <2>1
<1>5. (d + b - 1) % b = IF d = 0 THEN b - 1 ELSE d - 1
  <2>1. d + b - 1 \in 0 .. 2 * b - 1
    BY <1>1, <1>4
  <2>2. (d + b - 1) % b = IF d + b - 1 < b THEN d + b - 1 ELSE (d + b - 1) - b
    BY <1>1, <2>1, RingMod
  <2> QED
    BY <1>1, <1>4, <2>2
<1>6. ((c + (n - k) + i) - 1) % n = IF d = 0 THEN (n - k) + i - 1 ELSE (c - k) + i - 1
  <2>1. d # 0 => c >= k
    BY <1>1, <1>3, <1>4
  <2>2. d = 0 => c = 0
    BY <1>1, <1>3
  <2> DEFINE x == (c + (n - k) + i) - 1
  <2>3. x \in 0 .. 2 * n - 1
    BY <1>1, <1>2
  <2>4. x % n = IF x < n THEN x ELSE x - n
    BY <1>1, <2>3, RingMod
  <2>5. CASE d = 0
    <3>1. x < n /\ x = (n - k) + i - 1
      BY <1>1, <2>2, <2>5
    <3> HIDE DEF x
    <3>2. x % n = (n - k) + i - 1
      BY <2>4, <3>1
    <3> QED
      BY <2>5, <3>2 DEF x
  <2>6. CASE d # 0
    <3>1. ~(x < n) /\ x - n = (c - k) + i - 1
      BY <1>1, <1>2, <2>1, <2>6
    <3> HIDE DEF x
    <3>2. x % n = (c - k) + i - 1
      BY <2>4, <3>1
    <3> QED
      BY <2>6, <3>2 DEF x
  <2> QED
    BY <2>5, <2>6
<1>7. CASE d = 0
  <2>1. (b - 1) * k = n - k
    BY <1>1
  <2> QED
    BY <1>1, <1>5, <1>6, <1>7, <2>1 DEF k, b, n, d
<1>8. CASE d # 0
  <2>1. (d - 1) * k = c - k
    BY <1>1, <1>3, <1>4
  <2> QED
    BY <1>1, <1>2, <1>5, <1>6, <1>8, <2>1 DEF k, b, n, d
<1> QED
  BY <1>7, <1>8

-----------------------------------------------------------------------------
(***************************************************************************)
(* initRecv: the batches one after the other are the buffers in order.     *)
(***************************************************************************)

\* The first m buffers of the ring.
UpTo(m) == [i \in 1 .. m |-> i - 1]

LEMMA UpToLonger ==
  ASSUME NEW m \in Nat, NEW k \in Nat
  PROVE  UpTo(m) \o [i \in 1 .. k |-> m + i - 1] = UpTo(m + k)
<1> DEFINE u == UpTo(m)
           v == [i \in 1 .. k |-> m + i - 1]
           w == u \o v
<1>1. u \in Seq(Int) /\ v \in Seq(Int) /\ Len(u) = m /\ Len(v) = k
  BY DEF UpTo
<1>2. /\ w \in Seq(Int) /\ Len(w) = m + k
      /\ \A i \in 1 .. m + k : w[i] = IF i <= m THEN u[i] ELSE v[i - m]
  <2> HIDE DEF u, v
  <2> QED
    BY <1>1
<1>3. \A i \in 1 .. m + k : w[i] = i - 1
  <2> TAKE i \in 1 .. m + k
  <2>1. CASE i <= m
    <3>1. u[i] = i - 1
      BY <2>1 DEF UpTo
    <3> QED
      BY <1>2, <2>1, <3>1
  <2>2. CASE ~(i <= m)
    <3>1. v[i - m] = i - 1
      BY <2>2
    <3> QED
      BY <1>2, <2>2, <3>1
  <2> QED
    BY <2>1, <2>2
<1> HIDE DEF u, v, w
<1>4. w = [i \in 1 .. m + k |-> i - 1]
  BY <1>2, <1>3
<1> QED
  BY <1>4 DEF u, v, w, UpTo

LEMMA BatchesInOrder == FlattenSeq([b \in 1 .. BatchCount |-> Batch(b - 1)]) = UpTo(MessageNR)
<1> DEFINE B == BatchCount
           q == [b \in 1 .. B |-> Batch(b - 1)]
           c == CHOOSE h : h = [b \in 1 .. B |-> IF b = 1 THEN q[b] ELSE h[b - 1] \o q[b]]
           g == [b \in 1 .. B |-> UpTo(b * subNR)]
           step(b) == IF b = 1 THEN q[b] ELSE g[b - 1] \o q[b]
<1>1. B \in Nat \ {0} /\ subNR \in Nat \ {0} /\ MessageNR = subNR * B
  BY Product
<1> HIDE DEF B
<1>2. ASSUME NEW b \in 1 .. B PROVE g[b] = step(b)
  <2>1. q[b] = [i \in 1 .. subNR |-> (b - 1) * subNR + i - 1]
    BY DEF Batch
  <2>2. CASE b = 1
    <3>1. UpTo(1 * subNR) = [i \in 1 .. subNR |-> i - 1]
      BY <1>1 DEF UpTo
    <3>2. q[b] = [i \in 1 .. subNR |-> i - 1]
      BY <1>1, <2>1, <2>2
    <3> QED
      BY <2>2, <3>1, <3>2
  <2>3. CASE b # 1
    <3>1. b - 1 \in 1 .. B /\ (b - 1) * subNR \in Nat /\ (b - 1) * subNR + subNR = b * subNR
      BY <1>1, <2>3
    <3>2. UpTo((b - 1) * subNR) \o [i \in 1 .. subNR |-> (b - 1) * subNR + i - 1]
            = UpTo((b - 1) * subNR + subNR)
      BY <1>1, <3>1, UpToLonger
    <3>3. g[b - 1] = UpTo((b - 1) * subNR) /\ g[b] = UpTo(b * subNR)
      BY <3>1
    <3> HIDE DEF q, g
    <3> QED
      BY <2>1, <2>3, <3>1, <3>2, <3>3
  <2> QED
    BY <2>2, <2>3
<1>3. g = [b \in 1 .. B |-> IF b = 1 THEN q[b] ELSE g[b - 1] \o q[b]]
  <2> HIDE DEF step
  <2>1. g = [b \in 1 .. B |-> step(b)]
    BY <1>2
  <2> QED
    BY <2>1 DEF step
<1>4. c = [b \in 1 .. B |-> IF b = 1 THEN q[b] ELSE c[b - 1] \o q[b]]
  <2> HIDE DEF g, q
  <2> QED
    BY <1>3, Zenon
<1>5. FlattenSeq(q) = c[B]
  <2>1. Len(q) = B /\ B # 0
    BY <1>1
  <2> HIDE DEF q
  <2> QED
    BY <2>1 DEF FlattenSeq
<1> HIDE DEF c
<1>6. \A b \in 1 .. B : c[b] = g[b]
  <2> DEFINE D == {b \in Nat : b \in 1 .. B => c[b] = g[b]}
  <2>1. 0 \in D
    OBVIOUS
  <2> HIDE DEF q, g
  <2>2. ASSUME NEW b \in Nat, b \in D PROVE b + 1 \in D
    <3> SUFFICES ASSUME b + 1 \in 1 .. B PROVE c[b + 1] = g[b + 1]
      OBVIOUS
    <3>1. c[b + 1] = IF b + 1 = 1 THEN q[b + 1] ELSE c[(b + 1) - 1] \o q[b + 1]
      BY <1>4
    <3>2. g[b + 1] = IF b + 1 = 1 THEN q[b + 1] ELSE g[(b + 1) - 1] \o q[b + 1]
      BY <1>2
    <3>3. b + 1 # 1 => b \in 1 .. B /\ (b + 1) - 1 = b
      BY <1>1
    <3> QED
      BY <2>2, <3>1, <3>2, <3>3
  <2> HIDE DEF D
  <2>3. Nat \subseteq D
    BY <2>1, <2>2, NatSetInduction
  <2> QED
    BY <1>1, <2>3 DEF D
<1>7. g[B] = UpTo(MessageNR)
  <2>1. B \in 1 .. B /\ B * subNR = MessageNR
    BY <1>1
  <2> QED
    BY <2>1
<1> QED
  <2>1. c[B] = g[B]
    BY <1>1, <1>6
  <2> QED
    BY <1>5, <1>7, <2>1 DEF B

-----------------------------------------------------------------------------

\* How many buffers of its batch have been handed out.
handedOut == curMessage % subNR

\* The numbers, with the types of the variables.
LEMMA RecvFacts ==
  ASSUME RecvInv
  PROVE  /\ rpc \in {"idle", "get"} /\ curMessage \in 0 .. MessageNR - 1
         /\ rq \in Seq(Slot) /\ rcq \in Seq(Message)
         /\ Len(rq) \in Nat /\ Len(rcq) \in Nat
         /\ \A i \in 1 .. Len(rq) : rq[i] \in Slot
         /\ \A i \in 1 .. Len(rcq) : rcq[i] \in Message /\ rcq[i].slot \in Slot
         /\ first \in 0 .. MessageNR /\ Len(rcq) + Len(rq) <= MessageNR
         /\ handedOut \in 0 .. subNR - 1
         /\ first + Len(rcq) + Len(rq) = (curMessage - handedOut) + MessageNR
<1>1. /\ rpc \in {"idle", "get"} /\ curMessage \in 0 .. MessageNR - 1
      /\ rq \in Seq(Slot) /\ rcq \in Seq(Message)
  BY DEF RecvInv, RecvTypeOK, Slot
<1>2. /\ Len(rq) \in Nat /\ Len(rcq) \in Nat
      /\ \A i \in 1 .. Len(rq) : rq[i] \in Slot
      /\ \A i \in 1 .. Len(rcq) : rcq[i] \in Message
  BY <1>1
<1>3. \A m \in Message : m.slot \in Slot
  BY DEF Message
<1>4. first \in 0 .. MessageNR /\ first >= curMessage
  BY <1>1, Sizes DEF first
<1>5. handedOut \in 0 .. subNR - 1
  <2>1. curMessage \in Nat
    BY <1>1
  <2> QED
    BY <2>1, Sizes, BatchStep DEF handedOut
<1>6. first + Len(rcq) + Len(rq) = (curMessage - handedOut) + MessageNR
  BY DEF RecvInv, RecvRingInv, handedOut
<1>7. Len(rcq) + Len(rq) <= MessageNR
  BY <1>1, <1>2, <1>4, <1>5, <1>6, Sizes
<1> QED
  BY <1>1, <1>2, <1>3, <1>4, <1>5, <1>6, <1>7

\* No message of the program is NoMessage.
LEMMA NoMessageApart == NoMessage \notin Message
<1>1. MessageNR \notin Slot
  BY Sizes DEF Slot
<1> QED
  BY <1>1 DEF Message, NoMessage, Completion

LEMMA InitRecvInv == RecvInit => RecvInv
<1> SUFFICES ASSUME RecvInit PROVE RecvInv
  OBVIOUS
<1>1. /\ rpc = "idle" /\ curMessage = 0 /\ rcq = << >> /\ arriving = 0 /\ held = NoMessage
      /\ messagePool = [s \in Slot |-> 0]
  BY DEF RecvInit
<1>2. rq = [i \in 1 .. MessageNR |-> i - 1]
  BY BatchesInOrder DEF RecvInit, UpTo
<1>3. rq \in Seq(Slot) /\ Len(rq) = MessageNR /\ \A i \in 1 .. MessageNR : rq[i] = i - 1
  BY <1>2, Sizes DEF Slot
<1>4. 0 \in Slot /\ 0 \in 0 .. MsgCnt - 1
  BY Sizes DEF Slot
<1>5. rcq \in Seq(Message) /\ Len(rcq) = 0 /\ first = 0
  BY <1>1 DEF first
<1>6. RecvTypeOK
  BY <1>1, <1>3, <1>4, <1>5 DEF RecvTypeOK
<1>7. RecvRingInv
  <2>1. \A i \in 1 .. Len(rq) : rq[i] = ((first + Len(rcq) + i) - 1) % MessageNR
    <3> TAKE i \in 1 .. Len(rq)
    <3>1. i - 1 \in 0 .. MessageNR - 1 /\ rq[i] = i - 1
      BY <1>3, Sizes
    <3>2. (i - 1) % MessageNR = i - 1
      <4>1. i - 1 \in 0 .. 2 * MessageNR - 1 /\ i - 1 < MessageNR
        BY <3>1, Sizes
      <4> QED
        BY <4>1, Sizes, RingMod
    <3>3. (first + Len(rcq) + i) - 1 = i - 1
      BY <1>5, <3>1
    <3> QED
      BY <3>1, <3>2, <3>3
  <2>2. 0 % subNR = 0
    BY Sizes
  <2> QED
    BY <1>1, <1>3, <1>5, <2>1, <2>2, Sizes DEF RecvRingInv
<1>8. MessageInv
  BY <1>1, <1>5 DEF MessageInv
<1> QED
  BY <1>6, <1>7, <1>8 DEF RecvInv

LEMMA PollRecvCqInv == RecvInv /\ PollRecvCq => RecvInv'
<1> SUFFICES ASSUME RecvInv, PollRecvCq PROVE RecvInv'
  OBVIOUS
<1>0. rcq # << >> => Head(rcq) \in Message /\ Head(rcq).opcode = "recv"
  <2>1. rcq # << >> => Head(rcq) \in Message
    BY DEF RecvInv, RecvTypeOK
  <2> QED
    BY <2>1 DEF Message
<1>1. /\ rpc = "idle" /\ rpc' = "get" /\ rcq # << >> /\ held' = Head(rcq) /\ rcq' = Tail(rcq)
      /\ UNCHANGED <<curMessage, rq, messagePool, arriving>>
  BY <1>0 DEF PollRecvCq
<1>2. /\ held' = rcq[1] /\ rcq' \in Seq(Message) /\ Len(rcq') = Len(rcq) - 1 /\ Len(rcq) >= 1
      /\ \A i \in 1 .. Len(rcq') : i + 1 \in 1 .. Len(rcq) /\ rcq'[i] = rcq[i + 1]
  BY <1>1, RecvFacts, HeadTailProperties
<1>3. first = curMessage /\ first' = curMessage + 1
  BY <1>1 DEF first
<1>4. held' \in Message /\ held' # NoMessage
  BY <1>2, RecvFacts, NoMessageApart
<1>5. RecvTypeOK'
  BY <1>1, <1>2, <1>4 DEF RecvInv, RecvTypeOK
<1>6. RecvRingInv'
  <2>1. ASSUME NEW i \in 1 .. Len(rcq')
        PROVE  rcq'[i].slot = ((first' + i) - 1) % MessageNR
    <3>1. rcq[i + 1].slot = ((first + (i + 1)) - 1) % MessageNR
      BY <1>2 DEF RecvInv, RecvRingInv
    <3>2. (first + (i + 1)) - 1 = (first' + i) - 1
      BY <1>3, RecvFacts
    <3> QED
      BY <1>2, <3>1, <3>2
  <2>2. ASSUME NEW i \in 1 .. Len(rq')
        PROVE  rq'[i] = ((first' + Len(rcq') + i) - 1) % MessageNR
    <3>1. rq[i] = ((first + Len(rcq) + i) - 1) % MessageNR
      BY <1>1 DEF RecvInv, RecvRingInv
    <3>2. (first + Len(rcq) + i) - 1 = (first' + Len(rcq') + i) - 1
      BY <1>2, <1>3, RecvFacts
    <3> QED
      BY <1>1, <3>1, <3>2
  <2>3. first' + Len(rcq') + Len(rq') = first + Len(rcq) + Len(rq)
    BY <1>1, <1>2, <1>3, RecvFacts
  <2>4. first' + Len(rcq') + Len(rq') = (curMessage' - (curMessage' % subNR)) + MessageNR
    BY <1>1, <2>3 DEF RecvInv, RecvRingInv
  <2> QED
    BY <2>1, <2>2, <2>4 DEF RecvRingInv
<1>7. MessageInv'
  <2>1. held'.slot = ((first' + MessageNR) - 1) % MessageNR
    <3>1. rcq[1].slot = ((first + 1) - 1) % MessageNR
      BY <1>2, RecvFacts DEF RecvInv, RecvRingInv
    <3>2. (first + 1) - 1 = curMessage /\ curMessage \in 0 .. MessageNR - 1
      BY <1>3, RecvFacts
    <3>3. curMessage % MessageNR = curMessage
      BY <3>2, Sizes, RingMod
    <3>4. (first' + MessageNR) - 1 = curMessage + MessageNR
      BY <1>3, RecvFacts, Sizes
    <3>5. (curMessage + MessageNR) % MessageNR = curMessage
      <4>1. curMessage + MessageNR \in 0 .. 2 * MessageNR - 1 /\ ~(curMessage + MessageNR < MessageNR)
        BY <3>2, Sizes
      <4>2. (curMessage + MessageNR) % MessageNR = (curMessage + MessageNR) - MessageNR
        BY <4>1, Sizes, RingMod
      <4> QED
        BY <3>2, <4>2, Sizes
    <3> QED
      BY <1>2, <3>1, <3>2, <3>3, <3>4, <3>5
  <2>2. messagePool'[held'.slot] = held'.msg
    BY <1>1, <1>2, RecvFacts DEF RecvInv, MessageInv
  <2>3. \A i \in 1 .. Len(rcq') : messagePool'[rcq'[i].slot] = rcq'[i].msg
    BY <1>1, <1>2 DEF RecvInv, MessageInv
  <2> QED
    BY <1>4, <2>1, <2>2, <2>3 DEF MessageInv
<1> QED
  BY <1>5, <1>6, <1>7 DEF RecvInv

\* The completion was for the buffer handed out, and the batch reposted comes right
\* behind the buffers posted.
LEMMA GetMessageInv == RecvInv /\ GetMessage => RecvInv'
<1> SUFFICES ASSUME RecvInv, GetMessage PROVE RecvInv'
  OBVIOUS
<1> DEFINE c == (curMessage + 1) % MessageNR
           b == (c \div subNR + BatchCount - 1) % BatchCount
<1>1. /\ rpc = "get" /\ rpc' = "idle" /\ held' = [held EXCEPT !.slot = curMessage]
      /\ curMessage' = c
      /\ rq' = IF c % subNR = 0 THEN rq \o Batch(b) ELSE rq
      /\ UNCHANGED <<rcq, messagePool, arriving>>
  BY DEF GetMessage
<1>2. first = curMessage + 1 /\ first' = c
  BY <1>1 DEF first
<1>3. c = IF first < MessageNR THEN first ELSE 0
  <2>1. first \in 0 .. 2 * MessageNR - 1 /\ first <= MessageNR
    BY RecvFacts, Sizes
  <2>2. first % MessageNR = IF first < MessageNR THEN first ELSE first - MessageNR
    BY <2>1, Sizes, RingMod
  <2> QED
    BY <1>2, <2>1, <2>2, Sizes
<1>4. c \in Slot
  BY <1>3, RecvFacts, Sizes, SMTT(30) DEF Slot
<1> HIDE DEF c
<1>5. c % subNR = IF handedOut = subNR - 1 THEN 0 ELSE handedOut + 1
  <2>1. (curMessage + 1) % subNR = IF handedOut = subNR - 1 THEN 0 ELSE handedOut + 1
    <3>1. curMessage \in Nat
      BY RecvFacts
    <3> QED
      BY <3>1, Sizes, BatchStep DEF handedOut
  <2>2. CASE first < MessageNR
    BY <1>2, <1>3, <2>1, <2>2, Zenon
  <2>3. CASE ~(first < MessageNR)
    <3>1. first = MessageNR /\ c = 0
      BY <1>3, <2>3, RecvFacts, Sizes
    <3>2. MessageNR % subNR = 0 /\ 0 % subNR = 0
      BY Product
    <3> QED
      BY <1>2, <2>1, <3>1, <3>2
  <2> QED
    BY <2>2, <2>3
\* The same place counted from c instead of first, which may be the whole ring.
<1>6. ASSUME NEW x \in 0 .. MessageNR - 1
      PROVE  (c + x) % MessageNR = (first + x) % MessageNR
  <2>1. CASE first < MessageNR
    BY <1>3, <2>1
  <2>2. CASE ~(first < MessageNR)
    <3>1. first = MessageNR /\ c = 0
      BY <1>3, <2>2, RecvFacts, Sizes
    <3>2. /\ x \in 0 .. 2 * MessageNR - 1 /\ first + x \in 0 .. 2 * MessageNR - 1
          /\ x < MessageNR /\ ~(first + x < MessageNR) /\ (first + x) - MessageNR = x
          /\ c + x = x
      BY <3>1, Sizes
    <3>3. x % MessageNR = x
      BY <3>2, Sizes, RingMod
    <3>4. (first + x) % MessageNR = (first + x) - MessageNR
      BY <3>2, Sizes, RingMod
    <3> QED
      BY <3>2, <3>3, <3>4
  <2> QED
    BY <2>1, <2>2
<1>7. held.slot = curMessage /\ held \in Message /\ messagePool[held.slot] = held.msg /\ held # NoMessage
  <2>1. held # NoMessage /\ held.slot = ((first + MessageNR) - 1) % MessageNR
    BY <1>1 DEF RecvInv, MessageInv
  <2>2. (first + MessageNR) - 1 = curMessage + MessageNR /\ curMessage \in 0 .. MessageNR - 1
    BY <1>2, RecvFacts, Sizes, SMTT(30)
  <2>3. /\ curMessage + MessageNR \in 0 .. 2 * MessageNR - 1
        /\ ~(curMessage + MessageNR < MessageNR)
        /\ (curMessage + MessageNR) - MessageNR = curMessage
    BY <2>2, Sizes
  <2>4. (curMessage + MessageNR) % MessageNR = (curMessage + MessageNR) - MessageNR
    BY <2>3, Sizes, RingMod
  <2>5. held \in Message
    BY <2>1 DEF RecvInv, RecvTypeOK
  <2> QED
    BY <2>1, <2>2, <2>3, <2>4, <2>5 DEF RecvInv, MessageInv
<1>8. held' = held
  BY <1>1, <1>7 DEF Message
<1>9. \A i \in 1 .. Len(rcq) : rcq[i].slot = ((first' + i) - 1) % MessageNR
  <2> TAKE i \in 1 .. Len(rcq)
  <2>1. i - 1 \in 0 .. MessageNR - 1
    BY RecvFacts, Sizes
  <2>2. (first + i) - 1 = first + (i - 1) /\ (c + i) - 1 = c + (i - 1)
    BY <1>4, RecvFacts, Sizes DEF Slot
  <2> HIDE DEF c
  <2>3. rcq[i].slot = ((first + i) - 1) % MessageNR
    BY DEF RecvInv, RecvRingInv
  <2> QED
    BY <1>2, <1>6, <2>1, <2>2, <2>3
<1>10. \A i \in 1 .. Len(rq) : rq[i] = ((first' + Len(rcq) + i) - 1) % MessageNR
  <2> TAKE i \in 1 .. Len(rq)
  <2>1. Len(rcq) + (i - 1) \in 0 .. MessageNR - 1
    BY RecvFacts, Sizes
  <2>2. /\ (first + Len(rcq) + i) - 1 = first + (Len(rcq) + (i - 1))
        /\ (c + Len(rcq) + i) - 1 = c + (Len(rcq) + (i - 1))
    BY <1>4, RecvFacts, Sizes DEF Slot
  <2>3. rq[i] = ((first + Len(rcq) + i) - 1) % MessageNR
    BY DEF RecvInv, RecvRingInv
  <2> QED
    BY <1>2, <1>6, <2>1, <2>2, <2>3
<1>11. CASE c % subNR # 0
  <2>1. rq' = rq
    BY <1>1, <1>11
  <2>2. first' + Len(rcq) + Len(rq) = (c - (c % subNR)) + MessageNR
    <3>1. first < MessageNR
      <4> SUFFICES ASSUME ~(first < MessageNR) PROVE FALSE
        OBVIOUS
      <4>1. c = 0
        BY <1>3
      <4>2. 0 % subNR = 0
        BY Sizes
      <4> QED
        BY <1>11, <4>1, <4>2
    <3>2. c % subNR = handedOut + 1 /\ c = first
      BY <1>3, <1>5, <1>11, <3>1, Zenon
    <3> QED
      BY <1>2, <3>2, RecvFacts, Sizes
  <2>3. RecvRingInv'
    BY <1>1, <1>9, <1>10, <2>1, <2>2 DEF RecvRingInv
  <2>4. RecvTypeOK'
    BY <1>1, <1>4, <1>8, <2>1 DEF RecvInv, RecvTypeOK
  <2>5. first' + (MessageNR - 1) = (first' + MessageNR) - 1 /\ first + (MessageNR - 1) = (first + MessageNR) - 1
    BY <1>2, <1>4, RecvFacts, Sizes DEF Slot
  <2>6. MessageNR - 1 \in 0 .. MessageNR - 1
    BY Sizes
  <2>7. held'.slot = ((first' + MessageNR) - 1) % MessageNR
    BY <1>2, <1>6, <1>7, <1>8, <2>5, <2>6 DEF RecvInv, MessageInv
  <2>8. MessageInv'
    BY <1>1, <1>7, <1>8, <2>7 DEF RecvInv, MessageInv
  <2> QED
    BY <2>3, <2>4, <2>8 DEF RecvInv
<1>12. CASE c % subNR = 0
  <2> DEFINE bt == Batch(b)
  <2>1. /\ Len(bt) = subNR /\ bt \in Seq(Slot)
        /\ \A i \in 1 .. subNR : bt[i] = ((c + (MessageNR - subNR) + i) - 1) % MessageNR
    <3>1. \A i \in 1 .. subNR : b * subNR + i - 1 = ((c + (MessageNR - subNR) + i) - 1) % MessageNR
      BY <1>4, <1>12, BatchBefore
    <3>2. \A i \in 1 .. subNR : ((c + (MessageNR - subNR) + i) - 1) % MessageNR \in Slot
      <4> TAKE i \in 1 .. subNR
      <4>1. (c + (MessageNR - subNR) + i) - 1 \in Int
        BY <1>4, Sizes DEF Slot
      <4> QED
        BY <4>1, Sizes DEF Slot
    <3> HIDE DEF b
    <3>3. bt = [i \in 1 .. subNR |-> b * subNR + i - 1]
      BY DEF Batch
    <3> HIDE DEF bt
    <3>4. \A i \in 1 .. subNR : bt[i] = ((c + (MessageNR - subNR) + i) - 1) % MessageNR
      BY <3>1, <3>3
    <3>5. bt = [i \in 1 .. subNR |-> bt[i]] /\ \A i \in 1 .. subNR : bt[i] \in Slot
      BY <3>2, <3>3, <3>4
    <3> QED
      BY <3>4, <3>5, Sizes
  <2> HIDE DEF b
  <2>2. rq' = rq \o bt
    BY <1>1, <1>12
  <2> HIDE DEF bt
  <2>3. /\ rq' \in Seq(Slot) /\ Len(rq') = Len(rq) + subNR
        /\ \A i \in 1 .. Len(rq) : rq'[i] = rq[i]
        /\ \A i \in Len(rq) + 1 .. Len(rq) + subNR : rq'[i] = bt[i - Len(rq)]
    <3>1. /\ rq' \in Seq(Slot) /\ Len(rq') = Len(rq) + Len(bt)
          /\ \A i \in 1 .. Len(rq) + Len(bt) :
               rq'[i] = IF i <= Len(rq) THEN rq[i] ELSE bt[i - Len(rq)]
      BY <2>1, <2>2, RecvFacts, ConcatProperties
    <3>2. Len(bt) = subNR /\ subNR \in Nat /\ Len(rq) \in Nat
      BY <2>1, RecvFacts, Sizes
    <3> QED
      BY <3>1, <3>2
  <2>4. Len(rcq) + Len(rq) = MessageNR - subNR
    <3>1. handedOut = subNR - 1
      <4>1. handedOut + 1 # 0
        BY RecvFacts
      <4> QED
        BY <1>5, <1>12, <4>1, Zenon
    <3>2. /\ Len(rcq) \in Nat /\ Len(rq) \in Nat /\ MessageNR \in Nat /\ subNR \in Nat
          /\ curMessage \in Nat /\ first = curMessage + 1
          /\ first + Len(rcq) + Len(rq) = (curMessage - handedOut) + MessageNR
      BY <1>2, RecvFacts, Sizes
    <3> QED
      BY <3>1, <3>2
  <2>5. ASSUME NEW i \in 1 .. Len(rq')
        PROVE  rq'[i] = ((first' + Len(rcq) + i) - 1) % MessageNR
    <3>1. CASE i \in 1 .. Len(rq)
      BY <1>10, <2>3, <3>1
    <3>2. CASE i \in Len(rq) + 1 .. Len(rq) + subNR
      <4>1. i - Len(rq) \in 1 .. subNR
        BY <3>2, RecvFacts, Sizes
      <4>2. (c + (MessageNR - subNR) + (i - Len(rq))) - 1 = (c + Len(rcq) + i) - 1
        <5>1. c \in Nat /\ Len(rq) \in Nat /\ Len(rcq) \in Nat /\ i \in Nat
          BY <1>4, <3>2, RecvFacts DEF Slot
        <5> QED
          BY <2>4, <5>1, Sizes
      <4>3. bt[i - Len(rq)] = ((c + (MessageNR - subNR) + (i - Len(rq))) - 1) % MessageNR
        BY <2>1, <4>1
      <4> QED
        BY <1>2, <2>3, <3>2, <4>2, <4>3
    <3>3. i \in 1 .. Len(rq) \/ i \in Len(rq) + 1 .. Len(rq) + subNR
      BY <2>3, RecvFacts, Sizes
    <3> QED
      BY <3>1, <3>2, <3>3
  <2>6. first' + Len(rcq) + Len(rq') = (c - (c % subNR)) + MessageNR
    <3>1. c \in Nat /\ Len(rq) \in Nat /\ Len(rcq) \in Nat /\ first' = c
      BY <1>2, <1>4, RecvFacts DEF Slot
    <3>2. c - (c % subNR) = c
      BY <1>12, <3>1
    <3>3. subNR \in Nat /\ MessageNR \in Nat
      BY Sizes
    <3>4. first' + Len(rcq) + Len(rq') = c + MessageNR
      BY <2>3, <2>4, <3>1, <3>3, SMTT(30)
    <3> QED
      BY <3>2, <3>4
  <2>7. RecvRingInv'
    BY <1>1, <1>9, <2>5, <2>6 DEF RecvRingInv
  <2>8. RecvTypeOK'
    BY <1>1, <1>4, <1>8, <2>3 DEF RecvInv, RecvTypeOK
  <2>9. first' + (MessageNR - 1) = (first' + MessageNR) - 1 /\ first + (MessageNR - 1) = (first + MessageNR) - 1
    BY <1>2, <1>4, RecvFacts, Sizes DEF Slot
  <2>10. MessageNR - 1 \in 0 .. MessageNR - 1
    BY Sizes
  <2>11. held'.slot = ((first' + MessageNR) - 1) % MessageNR
    BY <1>2, <1>6, <1>7, <1>8, <2>9, <2>10 DEF RecvInv, MessageInv
  <2>12. MessageInv'
    BY <1>1, <1>7, <1>8, <2>11 DEF RecvInv, MessageInv
  <2> QED
    BY <2>7, <2>8, <2>12 DEF RecvInv
<1> QED
  BY <1>11, <1>12

\* The buffer filled is neither waiting nor, as long as senders keep to the backlog,
\* the one the caller still reads.
LEMMA ReceiveInv == RecvInv /\ Receive => RecvInv'
<1> SUFFICES ASSUME RecvInv, Receive PROVE RecvInv'
  OBVIOUS
<1>1. /\ Len(rcq) < MaxBacklog /\ arriving' = (arriving + 1) % MsgCnt
      /\ UNCHANGED <<rpc, curMessage, held>>
  BY DEF Receive
<1>2. arriving \in 0 .. MsgCnt - 1 /\ arriving' \in 0 .. MsgCnt - 1
  <2>1. arriving \in 0 .. MsgCnt - 1
    BY DEF RecvInv, RecvTypeOK
  <2>2. arriving + 1 \in Int
    BY <2>1, Sizes
  <2> QED
    BY <1>1, <2>1, <2>2, Sizes
<1>3. first' = first
  BY <1>1 DEF first
<1>4. CASE rq = << >>
  <2>1. UNCHANGED <<rq, rcq, messagePool>>
    BY <1>4 DEF Receive
  <2>2. RecvTypeOK'
    BY <1>1, <1>2, <2>1 DEF RecvInv, RecvTypeOK
  <2> QED
    BY <1>1, <1>3, <2>1, <2>2 DEF RecvInv, RecvRingInv, MessageInv
<1>5. CASE rq # << >>
  <2> DEFINE h == Head(rq)
             m == Completion(h, arriving)
             n == Len(rcq)
  <2>1. /\ messagePool' = [messagePool EXCEPT ![h] = arriving]
        /\ rcq' = Append(rcq, m) /\ rq' = Tail(rq)
    BY <1>5 DEF Receive
  <2>2. /\ h = rq[1] /\ 1 \in 1 .. Len(rq) /\ h \in Slot
        /\ rq' \in Seq(Slot) /\ Len(rq') = Len(rq) - 1
        /\ \A i \in 1 .. Len(rq') : i + 1 \in 1 .. Len(rq) /\ rq'[i] = rq[i + 1]
    BY <1>5, <2>1, RecvFacts, HeadTailProperties
  <2>3. h = (first + n) % MessageNR
    <3>1. rq[1] = ((first + n + 1) - 1) % MessageNR
      BY <2>2 DEF RecvInv, RecvRingInv
    <3>2. (first + n + 1) - 1 = first + n
      BY RecvFacts, Sizes
    <3> QED
      BY <2>2, <3>1, <3>2
  <2>4. m \in Message /\ m.slot = h /\ m.msg = arriving
    BY <1>2, <2>2 DEF Message, Completion
  <2> HIDE DEF h, m
  <2>5. /\ rcq' \in Seq(Message) /\ Len(rcq') = n + 1 /\ rcq'[n + 1] = m
        /\ \A i \in 1 .. n : rcq'[i] = rcq[i]
    BY <2>1, <2>4, RecvFacts, AppendProperties
  <2>6. n + 1 < MessageNR /\ n \in 0 .. MessageNR - 1
    BY <1>1, RecvFacts, Sizes
  <2>7. \A i \in 1 .. n : rcq[i].slot # h
    <3> SUFFICES ASSUME NEW i \in 1 .. n, rcq[i].slot = h PROVE FALSE
      OBVIOUS
    <3>1. rcq[i].slot = ((first + i) - 1) % MessageNR
      BY DEF RecvInv, RecvRingInv
    <3>2. (first + i) - 1 = first + (i - 1) /\ i - 1 \in 0 .. MessageNR - 1 /\ i - 1 # n
      BY <2>6, RecvFacts, Sizes
    <3>3. (first + (i - 1)) % MessageNR = (first + n) % MessageNR
      BY <2>3, <3>1, <3>2
    <3> QED
      BY <2>6, <3>2, <3>3, RecvFacts, Sizes, RingApart
  <2>8. held # NoMessage => held.slot # h
    <3> SUFFICES ASSUME held # NoMessage, held.slot = h PROVE FALSE
      OBVIOUS
    <3>1. held.slot = ((first + MessageNR) - 1) % MessageNR
      BY DEF RecvInv, MessageInv
    <3>2. /\ (first + MessageNR) - 1 = first + (MessageNR - 1)
          /\ MessageNR - 1 \in 0 .. MessageNR - 1 /\ MessageNR - 1 # n
      BY <2>6, RecvFacts, Sizes
    <3>3. (first + (MessageNR - 1)) % MessageNR = (first + n) % MessageNR
      BY <2>3, <3>1, <3>2
    <3> QED
      BY <2>6, <3>2, <3>3, RecvFacts, Sizes, RingApart
  <2>9. /\ messagePool' \in [Slot -> 0 .. MsgCnt - 1] /\ messagePool'[h] = arriving
        /\ \A s \in Slot : s # h => messagePool'[s] = messagePool[s]
    BY <1>2, <2>1, <2>2 DEF RecvInv, RecvTypeOK
  <2>10. RecvTypeOK'
    BY <1>1, <1>2, <2>2, <2>5, <2>9 DEF RecvInv, RecvTypeOK
  <2>11. ASSUME NEW i \in 1 .. Len(rcq')
         PROVE  /\ rcq'[i].slot = ((first + i) - 1) % MessageNR
                /\ messagePool'[rcq'[i].slot] = rcq'[i].msg
    <3>1. CASE i \in 1 .. n
      <4>1. rcq[i].slot \in Slot /\ rcq[i].slot # h /\ rcq'[i] = rcq[i]
        BY <2>5, <2>7, <3>1, RecvFacts
      <4>2. messagePool[rcq[i].slot] = rcq[i].msg /\ rcq[i].slot = ((first + i) - 1) % MessageNR
        BY <3>1 DEF RecvInv, MessageInv, RecvRingInv
      <4> QED
        BY <2>9, <4>1, <4>2
    <3>2. CASE i = n + 1
      <4>1. (first + i) - 1 = first + n
        BY <2>6, <3>2, RecvFacts
      <4> QED
        BY <2>3, <2>4, <2>5, <2>9, <3>2, <4>1
    <3> QED
      BY <2>5, <2>6, <3>1, <3>2
  <2>12. ASSUME NEW i \in 1 .. Len(rq')
         PROVE  rq'[i] = ((first + Len(rcq') + i) - 1) % MessageNR
    <3>1. rq[i + 1] = ((first + n + (i + 1)) - 1) % MessageNR
      BY <2>2 DEF RecvInv, RecvRingInv
    <3>2. (first + n + (i + 1)) - 1 = (first + Len(rcq') + i) - 1
      BY <2>5, <2>6, RecvFacts
    <3> QED
      BY <2>2, <3>1, <3>2
  <2>13. first + Len(rcq') + Len(rq') = first + Len(rcq) + Len(rq)
    BY <2>2, <2>5, RecvFacts
  <2>14. RecvRingInv'
    <3>1. first' + Len(rcq') + Len(rq') = (curMessage' - (curMessage' % subNR)) + MessageNR
      BY <1>1, <1>3, <2>13 DEF RecvInv, RecvRingInv
    <3> QED
      BY <1>3, <2>11, <2>12, <3>1 DEF RecvRingInv
  <2>15. held # NoMessage => held.slot \in Slot /\ messagePool'[held.slot] = held.msg
    <3>1. held # NoMessage => held \in Message
      BY DEF RecvInv, RecvTypeOK
    <3>2. held # NoMessage => held.slot \in Slot
      BY <3>1 DEF Message
    <3> QED
      BY <2>8, <2>9, <3>2 DEF RecvInv, MessageInv
  <2>16. MessageInv'
    <3>1. rpc' = "get" => held' # NoMessage
      BY <1>1 DEF RecvInv, MessageInv
    <3>2. held' # NoMessage => held'.slot = ((first' + MessageNR) - 1) % MessageNR
      BY <1>1, <1>3 DEF RecvInv, MessageInv
    <3> QED
      BY <1>1, <2>11, <2>15, <3>1, <3>2 DEF MessageInv
  <2> QED
    BY <2>10, <2>14, <2>16 DEF RecvInv
<1> QED
  BY <1>4, <1>5

\* Every step preserves RecvInv.
LEMMA NextRecvInv == RecvInv /\ [RecvNext]_recvVars => RecvInv'
<1> SUFFICES ASSUME RecvInv, [RecvNext]_recvVars PROVE RecvInv'
  OBVIOUS
<1>1. CASE UNCHANGED recvVars
  BY <1>1 DEF recvVars, RecvInv, RecvTypeOK, RecvRingInv, MessageInv, first
<1> QED
  BY <1>1, PollRecvCqInv, GetMessageInv, ReceiveInv DEF RecvNext

-----------------------------------------------------------------------------

\* The inductive invariant of ud_rpc_wait: the buffers filled and those posted are
\* the ring from the buffer handed out next to the end of the batch before it.
THEOREM ReceiveInvariance == RecvSpec => []RecvInv
<1> QED
  BY InitRecvInv, NextRecvInv, PTL DEF RecvSpec

\* The message a caller of ud_rpc_wait reads is the one whose completion it polled,
\* and stays so until the next call, though its buffer may be posted again.
THEOREM HeldStaysIntact == RecvSpec => []HeldIntact
<1>1. RecvInv => HeldIntact
  BY DEF RecvInv, MessageInv, HeldIntact
<1> QED
  BY <1>1, ReceiveInvariance, PTL

\* Every receive buffer is in exactly one place, none is lost or posted twice.
THEOREM NoBufferTwice == RecvSpec => []BuffersAccounted
<1>1. ASSUME RecvInv PROVE BuffersAccounted
  <2> DEFINE u == [i \in 1 .. Len(rcq) |-> rcq[i].slot]
             w == rq \o u
  <2>1. u \in Seq(Slot) /\ Len(u) = Len(rcq)
    BY <1>1, RecvFacts
  <2>2. /\ DOMAIN w = 1 .. Len(rq) + Len(rcq)
        /\ \A i \in 1 .. Len(rq) : w[i] = rq[i]
        /\ \A i \in Len(rq) + 1 .. Len(rq) + Len(rcq) : w[i] = u[i - Len(rq)]
    <3> HIDE DEF u
    <3>1. /\ w \in Seq(Slot) /\ Len(w) = Len(rq) + Len(u)
          /\ \A i \in 1 .. Len(rq) + Len(u) : w[i] = IF i <= Len(rq) THEN rq[i] ELSE u[i - Len(rq)]
      <4>1. rq \in Seq(Slot) /\ u \in Seq(Slot)
        BY <1>1, <2>1, RecvFacts
      <4> HIDE DEF w
      <4>2. w = rq \o u
        BY DEF w
      <4> QED
        BY <4>1, <4>2, ConcatProperties, ZenonT(40)
    <3>2. Len(u) = Len(rcq) /\ Len(rcq) \in Nat /\ Len(rq) \in Nat
      BY <1>1, <2>1, RecvFacts
    <3> HIDE DEF w
    <3> QED
      BY <3>1, <3>2
  <2> DEFINE off(i) == IF i <= Len(rq) THEN Len(rcq) + (i - 1) ELSE (i - Len(rq)) - 1
  <2>3. ASSUME NEW i \in 1 .. Len(rq) + Len(rcq)
        PROVE  w[i] = (first + off(i)) % MessageNR /\ off(i) \in 0 .. MessageNR - 1
    <3>1. CASE i <= Len(rq)
      <4>1. w[i] = rq[i] /\ rq[i] = ((first + Len(rcq) + i) - 1) % MessageNR
        BY <1>1, <2>2, <3>1, RecvFacts DEF RecvInv, RecvRingInv
      <4>2. (first + Len(rcq) + i) - 1 = first + off(i) /\ off(i) \in 0 .. MessageNR - 1
        BY <1>1, <3>1, RecvFacts, Sizes
      <4> QED
        BY <4>1, <4>2
    <3>2. CASE ~(i <= Len(rq))
      <4>1. i - Len(rq) \in 1 .. Len(rcq) /\ i \in Len(rq) + 1 .. Len(rq) + Len(rcq)
        BY <1>1, <3>2, RecvFacts
      <4>2. w[i] = rcq[i - Len(rq)].slot
        BY <2>2, <4>1
      <4>3. rcq[i - Len(rq)].slot = ((first + (i - Len(rq))) - 1) % MessageNR
        BY <1>1, <4>1 DEF RecvInv, RecvRingInv
      <4>4. (first + (i - Len(rq))) - 1 = first + off(i) /\ off(i) \in 0 .. MessageNR - 1
        BY <1>1, <3>2, <4>1, RecvFacts, Sizes
      <4> HIDE DEF off, w
      <4> QED
        BY <4>2, <4>3, <4>4
    <3> QED
      BY <3>1, <3>2
  <2>4. ASSUME NEW i \in 1 .. Len(rq) + Len(rcq), NEW j \in 1 .. Len(rq) + Len(rcq), off(i) = off(j)
        PROVE  i = j
    BY <1>1, <2>4, RecvFacts
  <2> HIDE DEF off, w
  <2>5. ASSUME NEW i \in DOMAIN w, NEW j \in DOMAIN w, w[i] = w[j]
        PROVE  i = j
    <3>1. (first + off(i)) % MessageNR = (first + off(j)) % MessageNR
      BY <2>2, <2>3, <2>5
    <3>2. off(i) = off(j)
      BY <1>1, <2>2, <2>3, <3>1, RecvFacts, Sizes, RingApart
    <3> QED
      BY <2>2, <2>4, <3>2
  <2>6. IsInjective(w)
    BY <2>5 DEF IsInjective
  <2>7. Len(rq) + Len(rcq) + (IF rpc = "get" THEN 1 ELSE 0) = MessageNR - (curMessage % subNR)
    <3>1. first = curMessage + (IF rpc = "get" THEN 1 ELSE 0)
      BY <1>1, RecvFacts DEF first
    <3>2. /\ Len(rq) \in Nat /\ Len(rcq) \in Nat /\ curMessage \in Nat
          /\ handedOut \in Nat /\ MessageNR \in Nat
          /\ first + Len(rcq) + Len(rq) = (curMessage - handedOut) + MessageNR
      BY <1>1, RecvFacts, Sizes
    <3> HIDE DEF first, handedOut
    <3>3. Len(rq) + Len(rcq) + (IF rpc = "get" THEN 1 ELSE 0) = MessageNR - handedOut
      BY <3>1, <3>2
    <3> QED
      BY <3>3 DEF handedOut
  <2> QED
    BY <2>6, <2>7 DEF BuffersAccounted, u, w
<1> QED
  BY <1>1, ReceiveInvariance, PTL

\* With at most all batches but one waiting a datagram always finds a buffer posted.
THEOREM NoDatagramDropped == RecvSpec => []NoneDropped
<1>1. ASSUME RecvInv PROVE NoneDropped
  <2> SUFFICES ASSUME Len(rcq) < MessageNR - subNR, rq = << >> PROVE FALSE
    BY DEF NoneDropped
  <2>1. Len(rq) = 0
    OBVIOUS
  <2>2. first <= curMessage + 1
    BY <1>1, RecvFacts DEF first
  <2> QED
    BY <1>1, <2>1, <2>2, RecvFacts, Sizes
<1> QED
  BY <1>1, ReceiveInvariance, PTL
=============================================================================
