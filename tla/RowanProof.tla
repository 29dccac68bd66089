----------------------------- MODULE RowanProof -----------------------------
(***************************************************************************)
(* The proofs about Rowan, for every number of clients, segments, buffers, *)
(* WQEs, strides and requests under way: first the safety of RowanClient,  *)
(* which it extends, from the assumptions of RowanClient alone; then that  *)
(* Rowan implements AppendLog.                                             *)
(***************************************************************************)
EXTENDS Rowan, SharedLemmas

-----------------------------------------------------------------------------
(***************************************************************************)
(* The inductive invariant.  The buffers under way are a stretch of the    *)
(* ring that ends just before the one that is posted next.                 *)
(***************************************************************************)

\* What a prepared request looks like, and a work request for it.
Request     == [magic : {1}, len : 0 .. MaxLen, seq : 0 .. SeqCnt - 1]
WorkRequest == {wr \in [slot : Slot, size : 1 .. MaxLen + 1, req : Request] :
                  wr.size = wr.req.len + 1}

\* Every variable has its type; all that was posted is a prepared request.
TypeOK ==
  /\ cpc \in [Client -> {"get", "fill", "send", "poll"}]
  /\ batch \in [Client -> 0 .. BatchSize]
  /\ seq \in [Client -> 0 .. SeqCnt - 1]
  /\ curSend \in [Client -> Slot]
  /\ slot \in [Client -> Slot]
  /\ buf \in [Client -> [Slot -> [magic : {0, 1}, len : 0 .. MaxLen, seq : 0 .. SeqCnt - 1]]]
  /\ sq \in [Client -> Seq(WorkRequest)]
  /\ sent \in [Client -> Nat]
  /\ cq \in [Client -> Nat]

\* The buffer posted next, and how far buffer s lies behind buffer u in the ring.
upcoming(c)  == IF cpc[c] \in {"get", "poll"} THEN curSend[c] ELSE slot[c]
Behind(u, s) == IF s < u THEN u - s ELSE u - s + BufferCnt

RingInv ==
  \A c \in Client :
    /\ cpc[c] \in {"fill", "send"} => curSend[c] = (slot[c] + 1) % BufferCnt
    /\ cpc[c] = "send" => buf[c][slot[c]] \in Request
    /\ cpc[c] = "poll" => batch[c] = BatchSize
    /\ sent[c] <= Len(sq[c])
    /\ \A i \in 1 .. Len(sq[c]) : Behind(upcoming(c), sq[c][i].slot) = Len(sq[c]) + 1 - i

IInv == TypeOK /\ RingInv /\ WindowKept /\ BufferStable

-----------------------------------------------------------------------------
(***************************************************************************)
(* The clients.  IInv of RowanClient is inductive (one lemma per action)   *)
(* and implies the properties.  All that IInv says of a client depends on  *)
(* the state of that client alone, so that each lemma looks at the client  *)
(* that takes the step.                                                    *)
(***************************************************************************)

\* What RingInv, WindowKept and BufferStable say of one client.
ClientInv(c) ==
  /\ cpc[c] \in {"fill", "send"} => curSend[c] = (slot[c] + 1) % BufferCnt
  /\ cpc[c] = "send" => buf[c][slot[c]] \in Request
  /\ cpc[c] = "poll" => batch[c] = BatchSize
  /\ sent[c] <= Len(sq[c])
  /\ \A i \in 1 .. Len(sq[c]) : Behind(upcoming(c), sq[c][i].slot) = Len(sq[c]) + 1 - i
  /\ Len(sq[c]) + cq[c] =
       IF batch[c] = BatchSize /\ cpc[c] # "poll" THEN BatchSize - 1 ELSE batch[c]
  /\ \A i \in 1 .. Len(sq[c]) : buf[c][sq[c][i].slot] = sq[c][i].req

\* The variables of one client.
Of(c) == <<cpc[c], batch[c], seq[c], curSend[c], slot[c], buf[c], sq[c], sent[c], cq[c]>>

LEMMA Split == IInv <=> TypeOK /\ \A c \in Client : ClientInv(c)
BY DEF IInv, RingInv, WindowKept, BufferStable, ClientInv

\* A step of one client leaves the others alone.
LEMMA OneClient ==
  ASSUME IInv, TypeOK', NEW c \in Client, ClientInv(c)',
         \A d \in Client \ {c} : Of(d)' = Of(d)
  PROVE  IInv'
<1>1. \A d \in Client \ {c} : ClientInv(d)'
  <2> SUFFICES ASSUME NEW d \in Client \ {c} PROVE ClientInv(d)'
    OBVIOUS
  <2>1. ClientInv(d)
    BY Split
  <2> QED
    BY <2>1 DEF Of, ClientInv, Behind, upcoming
<1>2. \A d \in Client : ClientInv(d)'
  BY <1>1
<1> QED
  BY <1>2 DEF IInv, RingInv, WindowKept, BufferStable, ClientInv

\* What IInv says of one client, with the types of its variables.
LEMMA ClientFacts ==
  ASSUME IInv, NEW c \in Client
  PROVE  /\ TypeOK /\ ClientInv(c)
         /\ batch[c] \in 0 .. BatchSize /\ curSend[c] \in Slot /\ slot[c] \in Slot
         /\ sq[c] \in Seq(WorkRequest) /\ Len(sq[c]) \in Nat
         /\ sent[c] \in Nat /\ cq[c] \in Nat
         /\ \A i \in 1 .. Len(sq[c]) : sq[c][i] \in WorkRequest /\ sq[c][i].slot \in Slot
         /\ Len(sq[c]) <= BatchSize /\ (cpc[c] # "poll" => Len(sq[c]) < BatchSize)
         /\ BatchSize \in Nat \ {0} /\ BufferCnt \in Nat \ {0}
         /\ BatchSize <= BufferCnt /\ BatchSize <= SqDepth /\ SqDepth \in Nat
<1>1. TypeOK /\ ClientInv(c)
  BY Split
<1>2. /\ batch[c] \in 0 .. BatchSize /\ curSend[c] \in Slot /\ slot[c] \in Slot
      /\ sq[c] \in Seq(WorkRequest) /\ sent[c] \in Nat /\ cq[c] \in Nat
  BY <1>1 DEF TypeOK
<1>3. Len(sq[c]) \in Nat /\ \A i \in 1 .. Len(sq[c]) : sq[c][i] \in WorkRequest
  BY <1>2
<1>4. \A wr \in WorkRequest : wr.slot \in Slot
  BY DEF WorkRequest
<1>5. /\ BatchSize \in Nat \ {0} /\ BufferCnt \in Nat \ {0}
      /\ BatchSize <= BufferCnt /\ BatchSize <= SqDepth /\ SqDepth \in Nat
  BY BatchAssumption
<1>6. Len(sq[c]) <= BatchSize /\ (cpc[c] # "poll" => Len(sq[c]) < BatchSize)
  BY <1>1, <1>2, <1>3, <1>5 DEF ClientInv
<1> QED
  BY <1>1, <1>2, <1>3, <1>4, <1>5, <1>6

\* Neither queue is ever full when it is needed.
LEMMA QueueRoom ==
  ASSUME IInv, NEW c \in Client
  PROVE  (cpc[c] = "send" => HasRoom(c)) /\ (sent[c] > 0 => cq[c] < CqDepth)
<1>1. ClientInv(c) /\ BatchSize \in Nat \ {0} /\ BatchSize <= SqDepth /\ SqDepth \in Nat
  BY ClientFacts
<1>2. batch[c] \in 0 .. BatchSize /\ Len(sq[c]) \in Nat /\ sent[c] \in Nat /\ cq[c] \in Nat
  BY ClientFacts
<1>3. CqDepth \in Nat /\ BatchSize <= CqDepth
  BY BatchAssumption
<1>4. Len(sq[c]) + cq[c] <= BatchSize /\ (cpc[c] # "poll" => Len(sq[c]) + cq[c] < BatchSize)
  BY <1>1, <1>2 DEF ClientInv
<1>5. sent[c] <= Len(sq[c])
  BY <1>1 DEF ClientInv
<1> QED
  BY <1>1, <1>2, <1>3, <1>4, <1>5 DEF HasRoom

-----------------------------------------------------------------------------

LEMMA InitIInv == Init => IInv
<1> SUFFICES ASSUME Init PROVE IInv
  OBVIOUS
<1>1. 0 \in Slot /\ EmptyBuffer \in [magic : {0, 1}, len : 0 .. MaxLen, seq : 0 .. SeqCnt - 1]
  BY BatchAssumption DEF Slot, EmptyBuffer
<1>2. TypeOK
  BY <1>1, BatchAssumption DEF Init, TypeOK
<1>3. ASSUME NEW c \in Client PROVE ClientInv(c)
  BY BatchAssumption DEF Init, ClientInv
<1> QED
  BY <1>2, <1>3, Split

\* The buffer handed out is not one of those under way: these lie behind it by
\* less than the whole ring.
LEMMA GetSendBufIInv ==
  ASSUME IInv, NEW c \in Client, GetSendBuf(c)
  PROVE  IInv'
<1>1. TypeOK /\ ClientInv(c)
  BY ClientFacts
<1>2. /\ cpc[c] = "get" /\ cpc' = [cpc EXCEPT ![c] = "fill"]
      /\ slot' = [slot EXCEPT ![c] = curSend[c]]
      /\ curSend' = [curSend EXCEPT ![c] = (@ + 1) % BufferCnt]
      /\ buf' = [buf EXCEPT ![c][curSend[c]].len = 0]
      /\ UNCHANGED <<batch, seq, qpVars>>
  BY DEF GetSendBuf
<1>3. (curSend[c] + 1) % BufferCnt \in Slot
  BY ClientFacts, NextMod DEF Slot
<1>4. [buf[c][curSend[c]] EXCEPT !.len = 0] \in [magic : {0, 1}, len : 0 .. MaxLen, seq : 0 .. SeqCnt - 1]
  <2> DEFINE b == buf[c][curSend[c]]
  <2>1. b \in [magic : {0, 1}, len : 0 .. MaxLen, seq : 0 .. SeqCnt - 1]
    BY <1>1, ClientFacts DEF TypeOK
  <2>2. 0 \in 0 .. MaxLen
    BY BatchAssumption
  <2> HIDE DEF b
  <2>3. [b EXCEPT !.len = 0] \in [magic : {0, 1}, len : 0 .. MaxLen, seq : 0 .. SeqCnt - 1]
    BY <2>1, <2>2
  <2> QED
    BY <2>3 DEF b
<1>5. TypeOK'
  BY <1>1, <1>2, <1>3, <1>4, ClientFacts DEF TypeOK, qpVars
<1>6. /\ cpc'[c] = "fill" /\ slot'[c] = curSend[c] /\ curSend'[c] = (curSend[c] + 1) % BufferCnt
      /\ \A s \in Slot \ {curSend[c]} : buf'[c][s] = buf[c][s]
      /\ batch'[c] = batch[c] /\ sq'[c] = sq[c] /\ sent'[c] = sent[c] /\ cq'[c] = cq[c]
  BY <1>1, <1>2, ClientFacts DEF TypeOK, qpVars
<1>7. upcoming(c) = curSend[c] /\ upcoming(c)' = curSend[c]
  BY <1>2, <1>6 DEF upcoming
<1>9. \A i \in 1 .. Len(sq[c]) : sq[c][i].slot # curSend[c]
  <2> SUFFICES ASSUME NEW i \in 1 .. Len(sq[c]), sq[c][i].slot = curSend[c] PROVE FALSE
    OBVIOUS
  <2>1. Behind(curSend[c], curSend[c]) = BufferCnt
    BY ClientFacts DEF Behind, Slot
  <2>2. Behind(curSend[c], sq[c][i].slot) = Len(sq[c]) + 1 - i
    BY <1>1, <1>7 DEF ClientInv
  <2>3. Len(sq[c]) < BufferCnt
    BY <1>2, ClientFacts
  <2> QED
    BY <2>1, <2>2, <2>3, ClientFacts
<1>10. ClientInv(c)'
  BY <1>1, <1>2, <1>6, <1>7, <1>9, ClientFacts DEF ClientInv
<1>11. \A d \in Client \ {c} : Of(d)' = Of(d)
  BY <1>1, <1>2 DEF Of, TypeOK, qpVars
<1> QED
  BY <1>5, <1>10, <1>11, OneClient

\* Neither does the request written into it disturb them.
LEMMA FillIInv ==
  ASSUME IInv, NEW c \in Client, Fill(c)
  PROVE  IInv'
<1>1. TypeOK /\ ClientInv(c)
  BY ClientFacts
<1>2. PICK r \in Request : /\ cpc[c] = "fill" /\ cpc' = [cpc EXCEPT ![c] = "send"]
                           /\ buf' = [buf EXCEPT ![c][slot[c]] = r]
                           /\ UNCHANGED <<batch, seq, curSend, slot, qpVars>>
  <2>1. seq[c] \in 0 .. SeqCnt - 1
    BY <1>1 DEF TypeOK
  <2> QED
    BY <2>1 DEF Fill, Request
<1>3. TypeOK'
  <2>1. r \in [magic : {0, 1}, len : 0 .. MaxLen, seq : 0 .. SeqCnt - 1]
    BY DEF Request
  <2> QED
    BY <1>1, <1>2, <2>1, ClientFacts DEF TypeOK, qpVars
<1>4. /\ cpc'[c] = "send" /\ slot'[c] = slot[c] /\ curSend'[c] = curSend[c]
      /\ buf'[c][slot[c]] = r /\ \A s \in Slot \ {slot[c]} : buf'[c][s] = buf[c][s]
      /\ batch'[c] = batch[c] /\ sq'[c] = sq[c] /\ sent'[c] = sent[c] /\ cq'[c] = cq[c]
  BY <1>1, <1>2, ClientFacts DEF TypeOK, qpVars
<1>5. upcoming(c) = slot[c] /\ upcoming(c)' = slot[c]
  BY <1>2, <1>4 DEF upcoming
<1>7. \A i \in 1 .. Len(sq[c]) : sq[c][i].slot # slot[c]
  <2> SUFFICES ASSUME NEW i \in 1 .. Len(sq[c]), sq[c][i].slot = slot[c] PROVE FALSE
    OBVIOUS
  <2>1. Behind(slot[c], slot[c]) = BufferCnt
    BY ClientFacts DEF Behind, Slot
  <2>2. Behind(slot[c], sq[c][i].slot) = Len(sq[c]) + 1 - i
    BY <1>1, <1>5 DEF ClientInv
  <2>3. Len(sq[c]) < BufferCnt
    BY <1>2, ClientFacts
  <2> QED
    BY <2>1, <2>2, <2>3, ClientFacts
<1>8. ClientInv(c)'
  BY <1>1, <1>2, <1>4, <1>5, <1>7, ClientFacts DEF ClientInv
<1>9. \A d \in Client \ {c} : Of(d)' = Of(d)
  BY <1>1, <1>2 DEF Of, TypeOK, qpVars
<1> QED
  BY <1>3, <1>8, <1>9, OneClient

\* The request posted comes right behind the buffer posted next.
LEMMA SendIInv ==
  ASSUME IInv, NEW c \in Client, Send(c)
  PROVE  IInv'
<1> DEFINE wr == fillSgeWr(c)
<1>1. TypeOK /\ ClientInv(c)
  BY ClientFacts
<1>2. /\ cpc[c] = "send"
      /\ sq' = [sq EXCEPT ![c] = Append(@, wr)]
      /\ seq' = [seq EXCEPT ![c] = (@ + 1) % SeqCnt]
      /\ batch' = [batch EXCEPT ![c] = IF @ < BatchSize THEN @ + 1 ELSE @]
      /\ cpc' = [cpc EXCEPT ![c] = IF batch'[c] < BatchSize THEN "get" ELSE "poll"]
      /\ UNCHANGED <<curSend, slot, buf, sent, cq>>
  <2>1. cpc[c] = "send"
    BY DEF Send
  <2>2. HasRoom(c)
    BY <2>1, QueueRoom
  <2> QED
    BY <2>1, <2>2 DEF Send
<1>3. /\ wr \in WorkRequest /\ wr.slot = slot[c] /\ wr.req = buf[c][slot[c]]
  <2>1. buf[c][slot[c]] \in Request
    BY <1>1, <1>2 DEF ClientInv
  <2>2. buf[c][slot[c]].len \in 0 .. MaxLen
    BY <2>1 DEF Request
  <2>3. buf[c][slot[c]].len + 1 \in 1 .. MaxLen + 1
    BY <2>2, BatchAssumption
  <2>4. wr = [slot |-> slot[c], size |-> buf[c][slot[c]].len + 1, req |-> buf[c][slot[c]]]
    BY DEF fillSgeWr
  <2>5. slot[c] \in Slot
    BY ClientFacts
  <2> HIDE DEF wr
  <2>6. wr.slot = slot[c] /\ wr.size = wr.req.len + 1 /\ wr.req = buf[c][slot[c]]
    BY <2>4
  <2>7. wr \in [slot : Slot, size : 1 .. MaxLen + 1, req : Request]
    BY <2>1, <2>3, <2>4, <2>5
  <2> QED
    BY <2>6, <2>7 DEF WorkRequest
<1> HIDE DEF wr
<1>4. TypeOK'
  <2>1. (seq[c] + 1) % SeqCnt \in 0 .. SeqCnt - 1
    BY <1>1, BatchAssumption, NextMod DEF TypeOK
  <2>2. batch'[c] \in 0 .. BatchSize /\ batch' \in [Client -> 0 .. BatchSize]
    BY <1>1, <1>2, ClientFacts DEF TypeOK
  <2>3. sq' \in [Client -> Seq(WorkRequest)]
    BY <1>1, <1>2, <1>3 DEF TypeOK
  <2> QED
    BY <1>1, <1>2, <2>1, <2>2, <2>3 DEF TypeOK
<1>5. /\ cpc'[c] = IF batch'[c] < BatchSize THEN "get" ELSE "poll"
      /\ batch'[c] = IF batch[c] < BatchSize THEN batch[c] + 1 ELSE batch[c]
      /\ curSend'[c] = curSend[c] /\ slot'[c] = slot[c] /\ buf'[c] = buf[c]
      /\ sent'[c] = sent[c] /\ cq'[c] = cq[c] /\ sq'[c] = Append(sq[c], wr)
  BY <1>1, <1>2 DEF TypeOK
<1>6. /\ Len(sq'[c]) = Len(sq[c]) + 1
      /\ \A i \in 1 .. Len(sq[c]) : sq'[c][i] = sq[c][i]
      /\ sq'[c][Len(sq[c]) + 1] = wr
  BY <1>3, <1>5, ClientFacts, AppendProperties
<1>7. upcoming(c) = slot[c] /\ upcoming(c)' = (slot[c] + 1) % BufferCnt
  BY <1>1, <1>2, <1>5 DEF upcoming, ClientInv
<1>8. /\ Behind(upcoming(c)', slot[c]) = 1
      /\ \A s \in Slot : Behind(slot[c], s) < BufferCnt =>
           Behind(upcoming(c)', s) = Behind(slot[c], s) + 1
  <2>1. upcoming(c)' = IF slot[c] + 1 = BufferCnt THEN 0 ELSE slot[c] + 1
    BY <1>7, ClientFacts, NextMod DEF Slot
  <2>2. BufferCnt \in Nat \ {0} /\ slot[c] \in 0 .. BufferCnt - 1
    BY ClientFacts DEF Slot
  <2>3. Behind(upcoming(c)', slot[c]) = 1
    BY <2>1, <2>2 DEF Behind
  <2>4. ASSUME NEW s \in Slot, Behind(slot[c], s) < BufferCnt
        PROVE  Behind(upcoming(c)', s) = Behind(slot[c], s) + 1
    <3>1. s \in 0 .. BufferCnt - 1
      BY DEF Slot
    <3> QED
      BY <2>1, <2>2, <2>4, <3>1 DEF Behind
  <2> QED
    BY <2>3, <2>4
<1>9. \A i \in 1 .. Len(sq'[c]) : Behind(upcoming(c)', sq'[c][i].slot) = Len(sq'[c]) + 1 - i
  <2> SUFFICES ASSUME NEW i \in 1 .. Len(sq'[c])
               PROVE  Behind(upcoming(c)', sq'[c][i].slot) = Len(sq'[c]) + 1 - i
    OBVIOUS
  <2>1. CASE i \in 1 .. Len(sq[c])
    <3>1. Behind(slot[c], sq[c][i].slot) = Len(sq[c]) + 1 - i /\ sq[c][i].slot \in Slot
      BY <1>1, <1>7, <2>1, ClientFacts DEF ClientInv
    <3>2. Len(sq[c]) + 1 - i < BufferCnt
      BY <1>2, <2>1, ClientFacts
    <3> QED
      BY <1>6, <1>8, <2>1, <3>1, <3>2, ClientFacts
  <2>2. CASE i = Len(sq[c]) + 1
    BY <1>3, <1>6, <1>8, <2>2, ClientFacts
  <2> QED
    BY <1>6, <2>1, <2>2, ClientFacts, SMTT(30)
<1>10. \A i \in 1 .. Len(sq'[c]) : buf'[c][sq'[c][i].slot] = sq'[c][i].req
  BY <1>1, <1>3, <1>5, <1>6, ClientFacts DEF ClientInv
<1>11. Len(sq'[c]) + cq'[c] =
         IF batch'[c] = BatchSize /\ cpc'[c] # "poll" THEN BatchSize - 1 ELSE batch'[c]
  <2>1. Len(sq[c]) + cq[c] = IF batch[c] = BatchSize THEN BatchSize - 1 ELSE batch[c]
    BY <1>1, <1>2 DEF ClientInv
  <2>2. /\ batch[c] \in 0 .. BatchSize /\ BatchSize \in Nat \ {0}
        /\ Len(sq[c]) \in Nat /\ cq[c] \in Nat
    BY ClientFacts
  <2>3. batch'[c] < BatchSize <=> cpc'[c] # "poll"
    BY <1>5
  <2>4. /\ Len(sq'[c]) = Len(sq[c]) + 1 /\ cq'[c] = cq[c]
        /\ batch'[c] = IF batch[c] < BatchSize THEN batch[c] + 1 ELSE batch[c]
    BY <1>5, <1>6
  <2>5. CASE batch[c] < BatchSize
    BY <2>1, <2>2, <2>3, <2>4, <2>5
  <2>6. CASE batch[c] = BatchSize
    BY <2>1, <2>2, <2>3, <2>4, <2>6
  <2> QED
    BY <2>2, <2>5, <2>6
<1>12. ClientInv(c)'
  <2>1. cpc'[c] \in {"get", "poll"} /\ (cpc'[c] = "poll" => batch'[c] = BatchSize)
    BY <1>5, ClientFacts
  <2>2. sent'[c] <= Len(sq'[c])
    BY <1>1, <1>5, <1>6, ClientFacts DEF ClientInv
  <2> QED
    BY <1>9, <1>10, <1>11, <2>1, <2>2 DEF ClientInv
<1>13. \A d \in Client \ {c} : Of(d)' = Of(d)
  BY <1>1, <1>2 DEF Of, TypeOK
<1> QED
  BY <1>4, <1>12, <1>13, OneClient

LEMMA PollCqIInv ==
  ASSUME IInv, NEW c \in Client, PollCq(c)
  PROVE  IInv'
<1>1. TypeOK /\ ClientInv(c)
  BY ClientFacts
<1>2. /\ cpc[c] = "poll" /\ cq[c] > 0
      /\ cq' = [cq EXCEPT ![c] = @ - 1] /\ cpc' = [cpc EXCEPT ![c] = "get"]
      /\ UNCHANGED <<batch, seq, curSend, slot, buf, sq, sent>>
  BY DEF PollCq
<1>3. TypeOK'
  BY <1>1, <1>2, ClientFacts, SMTT(30) DEF TypeOK
<1>4. cpc'[c] = "get" /\ cq'[c] = cq[c] - 1
  BY <1>1, <1>2 DEF TypeOK
<1>5. upcoming(c)' = upcoming(c)
  BY <1>2, <1>4 DEF upcoming
<1>6. ClientInv(c)'
  BY <1>1, <1>2, <1>4, <1>5, ClientFacts, SMTT(30) DEF ClientInv
<1>7. \A d \in Client \ {c} : Of(d)' = Of(d)
  BY <1>1, <1>2 DEF Of, TypeOK
<1> QED
  BY <1>3, <1>6, <1>7, OneClient

LEMMA TransmitIInv ==
  ASSUME IInv, NEW c \in Client, Transmit(c)
  PROVE  IInv'
<1>1. TypeOK /\ ClientInv(c)
  BY ClientFacts
<1>2. /\ sent[c] < Len(sq[c]) /\ sent' = [sent EXCEPT ![c] = @ + 1]
      /\ UNCHANGED <<threadVars, sq, cq>>
  BY DEF Transmit, Pending
<1>3. TypeOK'
  BY <1>1, <1>2, ClientFacts, SMTT(30) DEF TypeOK, threadVars
<1>4. sent'[c] = sent[c] + 1
  BY <1>1, <1>2 DEF TypeOK
<1>5. ClientInv(c)'
  <2>1. upcoming(c)' = upcoming(c)
    BY <1>2 DEF upcoming, threadVars
  <2>2. sent'[c] <= Len(sq[c])
    BY <1>2, <1>4, ClientFacts
  <2>3. \A i \in 1 .. Len(sq[c]) : Behind(upcoming(c)', sq'[c][i].slot) = Len(sq[c]) + 1 - i
    BY <1>1, <1>2, <2>1 DEF ClientInv
  <2> QED
    BY <1>1, <1>2, <2>2, <2>3 DEF ClientInv, threadVars
<1>6. \A d \in Client \ {c} : Of(d)' = Of(d)
  BY <1>1, <1>2 DEF Of, TypeOK, threadVars
<1> QED
  BY <1>3, <1>5, <1>6, OneClient

\* The oldest work request leaves the stretch at its far end.
LEMMA CompleteIInv ==
  ASSUME IInv, NEW c \in Client, Complete(c)
  PROVE  IInv'
<1>1. TypeOK /\ ClientInv(c)
  BY ClientFacts
<1>2. /\ sent[c] > 0
      /\ sq' = [sq EXCEPT ![c] = Tail(@)]
      /\ sent' = [sent EXCEPT ![c] = @ - 1] /\ cq' = [cq EXCEPT ![c] = @ + 1]
      /\ UNCHANGED threadVars
  BY <1>1, QueueRoom DEF Complete, TypeOK
<1>3. Len(sq[c]) > 0 /\ sq[c] # << >>
  BY <1>1, <1>2, ClientFacts DEF ClientInv
<1>4. /\ sq'[c] = Tail(sq[c]) /\ sent'[c] = sent[c] - 1 /\ cq'[c] = cq[c] + 1
  BY <1>1, <1>2 DEF TypeOK
<1>5. /\ sq'[c] \in Seq(WorkRequest) /\ Len(sq'[c]) = Len(sq[c]) - 1
      /\ \A i \in 1 .. Len(sq'[c]) : i + 1 \in 1 .. Len(sq[c]) /\ sq'[c][i] = sq[c][i + 1]
  BY <1>3, <1>4, ClientFacts, HeadTailProperties
<1>6. TypeOK'
  <2>1. Tail(sq[c]) \in Seq(WorkRequest) /\ sent[c] - 1 \in Nat /\ cq[c] + 1 \in Nat
    BY <1>2, <1>4, <1>5, ClientFacts
  <2>2. sq' \in [Client -> Seq(WorkRequest)]
    BY <1>1, <1>2, <2>1 DEF TypeOK
  <2>3. sent' \in [Client -> Nat] /\ cq' \in [Client -> Nat]
    BY <1>1, <1>2, <2>1 DEF TypeOK
  <2> QED
    BY <1>1, <1>2, <2>2, <2>3 DEF TypeOK, threadVars
<1>7. upcoming(c)' = upcoming(c)
  BY <1>2 DEF upcoming, threadVars
<1>8. \A i \in 1 .. Len(sq'[c]) : Behind(upcoming(c)', sq'[c][i].slot) = Len(sq'[c]) + 1 - i
  <2> SUFFICES ASSUME NEW i \in 1 .. Len(sq'[c])
               PROVE  Behind(upcoming(c)', sq'[c][i].slot) = Len(sq'[c]) + 1 - i
    OBVIOUS
  <2>1. Behind(upcoming(c), sq[c][i + 1].slot) = Len(sq[c]) + 1 - (i + 1)
    BY <1>1, <1>5, ClientFacts DEF ClientInv
  <2>2. Len(sq[c]) + 1 - (i + 1) = Len(sq'[c]) + 1 - i
    <3> DEFINE m == Len(sq[c])
               n == Len(sq'[c])
    <3>1. n = m - 1 /\ m \in Nat
      BY <1>5, ClientFacts
    <3>2. i \in 1 .. n
      OBVIOUS
    <3> HIDE DEF m, n
    <3>3. m + 1 - (i + 1) = n + 1 - i
      BY <3>1, <3>2
    <3> QED
      BY <3>3 DEF m, n
  <2> QED
    BY <1>5, <1>7, <2>1, <2>2
<1>9. \A i \in 1 .. Len(sq'[c]) : buf'[c][sq'[c][i].slot] = sq'[c][i].req
  BY <1>1, <1>2, <1>5 DEF ClientInv, threadVars
<1>10. ClientInv(c)'
  <2>1. sent'[c] <= Len(sq'[c]) /\ Len(sq'[c]) + cq'[c] = Len(sq[c]) + cq[c]
    BY <1>1, <1>2, <1>4, <1>5, ClientFacts DEF ClientInv
  <2> QED
    BY <1>1, <1>2, <1>8, <1>9, <2>1 DEF ClientInv, threadVars
<1>11. \A d \in Client \ {c} : Of(d)' = Of(d)
  BY <1>1, <1>2 DEF Of, TypeOK, threadVars
<1> QED
  BY <1>6, <1>10, <1>11, OneClient

-----------------------------------------------------------------------------

\* Every step preserves IInv.
LEMMA NextIInv == IInv /\ [Next]_clientVars => IInv'
<1> SUFFICES ASSUME IInv, [Next]_clientVars PROVE IInv'
  OBVIOUS
<1>1. ASSUME NEW c \in Client, Step(c) PROVE IInv'
  BY <1>1, GetSendBufIInv, FillIInv, SendIInv, PollCqIInv, TransmitIInv, CompleteIInv
  DEF Step, Thread
<1>2. CASE UNCHANGED clientVars
  BY <1>2 DEF clientVars, threadVars, qpVars, IInv, TypeOK, RingInv, WindowKept,
     BufferStable, Behind, upcoming
<1> QED
  BY <1>1, <1>2 DEF Next

\* The buffers under way stay a stretch of the ring (RowanClient.h, get_send_buf).
THEOREM ClientInvariance == Spec => []IInv
<1>1. Init => IInv
  BY InitIInv
<1>2. IInv /\ [Next]_clientVars => IInv'
  BY NextIInv
<1> QED
  BY <1>1, <1>2, PTL DEF Spec

\* No buffer is touched while its work request is under way, for any number of
\* buffers that is at least that of the requests of a batch.
THEOREM BuffersUntouched == Spec => []BufferStable
<1>1. IInv => BufferStable
  BY DEF IInv
<1> QED
  BY <1>1, ClientInvariance, PTL

\* A thread always has a completion to come for all but one of its batch.
THEOREM WindowExact == Spec => []WindowKept
<1>1. IInv => WindowKept
  BY DEF IInv
<1> QED
  BY <1>1, ClientInvariance, PTL

\* No send of a client is ever refused by its send queue.
THEOREM NoSendRefused == Spec => []SendsAccepted
<1>1. IInv => SendsAccepted
  BY QueueRoom DEF SendsAccepted
<1> QED
  BY <1>1, ClientInvariance, PTL

-----------------------------------------------------------------------------
(***************************************************************************)
(* Rowan and AppendLog.                                                    *)
(***************************************************************************)

\* The server of Rowan once more, with what is proved of it.
SrvP == INSTANCE RowanServerProof

-----------------------------------------------------------------------------
(***************************************************************************)
(* The invariants of the parts hold of the whole.                          *)
(***************************************************************************)

\* The server gets constants as it asks for: its two assumptions.
LEMMA ServerSizes ==
  /\ SrqBufferCnt \in Nat /\ SrqBufferCnt >= 2
  /\ WqeCnt \in Nat /\ WqeCnt > SrqBufferCnt
  /\ NumStrides \in Nat \ {0}
  /\ DmaDepth \in Nat \ {0}
BY ServerAssumption

LEMMA ServerMessages ==
  \A m \in Message : m.magic \in 1 .. 255 /\ m.size \in 1 .. NumStrides
BY BatchAssumption, FitsAssumption, ServerAssumption DEF Message

\* Srv and SrvP are the same server.
LEMMA SameInit == Srv!Init => SrvP!Init
BY DEF Srv!Init, Srv!InitSrq, Srv!Segment, Srv!Wqe, Srv!NextIndex, Srv!NoSeg, Srv!kFree,
   SrvP!Init, SrvP!InitSrq, SrvP!Segment, SrvP!Wqe, SrvP!NextIndex, SrvP!NoSeg, SrvP!kFree

LEMMA SameServer == Srv!Server => SrvP!Server
BY DEF Srv!Server, Srv!InitClear, Srv!InitPost, Srv!PollUsed, Srv!FreeWqe, Srv!Clear,
   Srv!Repost, Srv!ClearSegment, Srv!PostSrqRecv, Srv!SrqFull, Srv!FreeSrqWqe, Srv!NextIndex,
   Srv!NextSegment, Srv!kFree, Srv!srqVars, Srv!nicVars, Srv!memVars,
   SrvP!Server, SrvP!InitClear, SrvP!InitPost, SrvP!PollUsed, SrvP!FreeWqe, SrvP!Clear,
   SrvP!Repost, SrvP!ClearSegment, SrvP!PostSrqRecv, SrvP!SrqFull, SrvP!FreeSrqWqe, SrvP!NextIndex,
   SrvP!NextSegment, SrvP!kFree, SrvP!srqVars, SrvP!nicVars, SrvP!memVars

LEMMA SameDmaWrite == Srv!DmaWrite => SrvP!DmaWrite
BY DEF Srv!DmaWrite, Srv!Extent, Srv!threadVars, Srv!srqVars, Srv!nicVars,
   SrvP!DmaWrite, SrvP!Extent, SrvP!threadVars, SrvP!srqVars, SrvP!nicVars

LEMMA SamePlace == ASSUME NEW m PROVE Srv!Place(m) => SrvP!Place(m)
BY DEF Srv!Place, Srv!PlaceInOpen, Srv!PlaceInNext, Srv!Fits, Srv!NoSeg, Srv!threadVars,
   Srv!srqVars, Srv!memVars,
   SrvP!Place, SrvP!PlaceInOpen, SrvP!PlaceInNext, SrvP!Fits, SrvP!NoSeg, SrvP!threadVars,
   SrvP!srqVars, SrvP!memVars

LEMMA SameInv ==
  /\ Srv!IInv <=> SrvP!IInv
  /\ Srv!MemInv <=> SrvP!MemInv
<1>1. Srv!IInv <=> SrvP!IInv
  BY DEF Srv!IInv, Srv!TypeOK, Srv!LoopInv, Srv!RingInv, Srv!NicInv, Srv!DmaInv, Srv!FlagInv,
     Srv!Segment, Srv!Wqe, Srv!NoSeg, Srv!Write, Srv!InitPc, Srv!RecyclePc, Srv!NextIndex,
     Srv!kFree, Srv!Lag, Srv!Pos, Srv!Dist, Srv!posted, Srv!opened, Srv!oldest,
     SrvP!IInv, SrvP!TypeOK, SrvP!LoopInv, SrvP!RingInv, SrvP!NicInv, SrvP!DmaInv, SrvP!FlagInv,
     SrvP!Segment, SrvP!Wqe, SrvP!NoSeg, SrvP!Write, SrvP!InitPc, SrvP!RecyclePc, SrvP!NextIndex,
     SrvP!kFree, SrvP!Lag, SrvP!Pos, SrvP!Dist, SrvP!posted, SrvP!opened, SrvP!oldest
<1>2. Srv!MemInv <=> SrvP!MemInv
  BY DEF Srv!MemInv, Srv!FlagTellsUse, Srv!Used, Srv!Segment, Srv!NoSeg, Srv!RecyclePc,
     Srv!NextSegment, Srv!kFree,
     SrvP!MemInv, SrvP!FlagTellsUse, SrvP!Used, SrvP!Segment, SrvP!NoSeg, SrvP!RecyclePc,
     SrvP!NextSegment, SrvP!kFree
<1> QED
  BY <1>1, <1>2

\* What goes over the wire is the message as its client posted it.
LEMMA WireAsPosted ==
  ASSUME IInv, NEW c \in Client, Pending(c)
  PROVE  /\ WireMessage(c) = AsPosted(c, sq[c][sent[c] + 1])
         /\ WireMessage(c) \in Message
<1> DEFINE wr == sq[c][sent[c] + 1]
<1>1. sent[c] + 1 \in 1 .. Len(sq[c])
  BY ClientFacts DEF Pending
<1>2. wr \in WorkRequest /\ buf[c][wr.slot] = wr.req
  BY <1>1, ClientFacts DEF IInv, BufferStable
<1>3. /\ wr.req.magic = 1 /\ wr.req.seq \in 0 .. SeqCnt - 1
      /\ wr.size = wr.req.len + 1 /\ wr.size \in 1 .. MaxLen + 1
  BY <1>2 DEF WorkRequest, Request
<1> HIDE DEF wr
<1>4. WireMessage(c) = [client |-> c, seq |-> wr.req.seq, magic |-> wr.req.magic, size |-> wr.size]
  BY <1>2 DEF WireMessage, wr
<1> QED
  BY <1>3, <1>4 DEF AsPosted, Message, wr

\* The rings of both sides stay in step when they run together, and the server
\* never misjudges a segment: what the parts keep, with all clients sending
\* (RowanServer.cpp, the poll; RowanClient.h, get_send_buf).
RowanInv == IInv /\ Srv!IInv /\ Srv!MemInv

LEMMA InitRowanInv == RowanInit => RowanInv
<1> SUFFICES ASSUME RowanInit PROVE IInv /\ SrvP!IInv /\ SrvP!MemInv
  BY SameInv DEF RowanInv
<1>1. IInv
  BY InitIInv DEF RowanInit
<1>2. SrvP!Init
  BY SameInit DEF RowanInit
<1>3. SrvP!IInv
  BY <1>2, SrvP!InitIInv, ServerSizes, ServerMessages
<1>4. SrvP!MemInv
  BY <1>2 DEF SrvP!Init, SrvP!InitSrq, SrvP!MemInv, SrvP!FlagTellsUse, SrvP!RecyclePc
<1> QED
  BY <1>1, <1>3, <1>4

\* The steps of Rowan are steps of the clients and of the server.
LEMMA PartSteps ==
  ASSUME IInv, [RowanNext]_rowanVars
  PROVE  [Next]_clientVars /\ [SrvP!Next]_SrvP!vars
<1>1. CASE Server
  BY <1>1, SameServer DEF Server, SrvP!Next
<1>2. CASE DmaWrite
  BY <1>2, SameDmaWrite DEF DmaWrite, SrvP!Next
<1>3. ASSUME NEW c \in Client, InClient(c) PROVE [Next]_clientVars /\ [SrvP!Next]_SrvP!vars
  <2>1. Next
    BY <1>3 DEF InClient, Next, Step
  <2>2. UNCHANGED SrvP!vars
    BY <1>3 DEF InClient, serverVars, SrvP!vars, SrvP!threadVars, SrvP!srqVars, SrvP!nicVars,
       SrvP!memVars
  <2> QED
    BY <2>1, <2>2
<1>4. ASSUME NEW c \in Client, Deliver(c) PROVE [Next]_clientVars /\ [SrvP!Next]_SrvP!vars
  <2>1. Next
    BY <1>4 DEF Deliver, Next, Step
  <2>2. WireMessage(c) \in Message
    BY <1>4, WireAsPosted DEF Deliver, Transmit
  <2>3. SrvP!Place(WireMessage(c))
    BY <1>4, SamePlace DEF Deliver
  <2> QED
    BY <2>1, <2>2, <2>3 DEF SrvP!Next
<1>5. CASE UNCHANGED rowanVars
  BY <1>5 DEF rowanVars, serverVars, SrvP!vars, SrvP!threadVars, SrvP!srqVars, SrvP!nicVars,
     SrvP!memVars
<1> QED
  BY <1>1, <1>2, <1>3, <1>4, <1>5 DEF RowanNext

LEMMA NextRowanInv == RowanInv /\ [RowanNext]_rowanVars => RowanInv'
<1> SUFFICES ASSUME RowanInv, [RowanNext]_rowanVars PROVE RowanInv'
  OBVIOUS
<1>1. IInv /\ SrvP!IInv /\ SrvP!MemInv
  BY SameInv DEF RowanInv
<1>2. [Next]_clientVars /\ [SrvP!Next]_SrvP!vars
  BY <1>1, PartSteps
<1>3. IInv'
  BY <1>1, <1>2, NextIInv
<1>4. SrvP!IInv'
  BY <1>1, <1>2, SrvP!NextIInv, ServerSizes, ServerMessages
<1>5. SrvP!MemInv'
  BY <1>1, <1>2, SrvP!NextMemInv, ServerSizes, ServerMessages
<1>6. (Srv!IInv <=> SrvP!IInv)' /\ (Srv!MemInv <=> SrvP!MemInv)'
  BY SameInv, PTL
<1> QED
  BY <1>3, <1>4, <1>5, <1>6 DEF RowanInv

\* Clients and server keep each their invariant while they run together.
THEOREM RowanInvariance == RowanSpec => []RowanInv
<1>1. RowanInit => RowanInv
  BY InitRowanInv
<1>2. RowanInv /\ [RowanNext]_rowanVars => RowanInv'
  BY NextRowanInv
<1> QED
  BY <1>1, <1>2, PTL DEF RowanSpec
-----------------------------------------------------------------------------
(***************************************************************************)
(* The segments as the log has them, from the oldest one on.               *)
(***************************************************************************)

\* The i-th segment of the ring from h on.
InRing(h, i) == (h + i - 1) % SrqBufferCnt

LEMMA SeqFromFunction ==
  ASSUME NEW S, NEW n \in Nat, NEW f \in [1 .. n -> S]
  PROVE  f \in Seq(S) /\ Len(f) = n
OBVIOUS

LEMMA ModTwo ==
  ASSUME NEW n \in Nat \ {0}, NEW a \in 0 .. 2 * n - 1
  PROVE  a % n = IF a < n THEN a ELSE a - n
<1>1. CASE a < n
  BY <1>1
<1>2. CASE a >= n
  BY <1>2
<1> QED
  BY <1>1, <1>2

LEMMA InRingAt ==
  ASSUME NEW h \in 0 .. SrqBufferCnt - 1, NEW i \in 1 .. SrqBufferCnt
  PROVE  InRing(h, i) = IF h + i - 1 < SrqBufferCnt THEN h + i - 1
                        ELSE (h + i - 1) - SrqBufferCnt
<1>1. SrqBufferCnt \in Nat \ {0}
  BY ServerSizes
<1> DEFINE a == h + i - 1
<1>2. a \in 0 .. 2 * SrqBufferCnt - 1
  BY <1>1
<1>3. a % SrqBufferCnt = IF a < SrqBufferCnt THEN a ELSE a - SrqBufferCnt
  <2> HIDE DEF a
  <2> QED
    BY <1>1, <1>2, ModTwo
<1> QED
  BY <1>3, Zenon DEF InRing

\* Positions in the ring and places in the log are the same up to one.
LEMMA RingFacts ==
  ASSUME SrvP!TypeOK
  PROVE  /\ SrqBufferCnt \in Nat /\ SrqBufferCnt >= 2 /\ head \in SrvP!Segment
         /\ InRing(head, 1) = head
         /\ \A i \in 1 .. SrqBufferCnt : /\ InRing(head, i) \in SrvP!Segment
                                         /\ SrvP!Pos(InRing(head, i)) = i - 1
         /\ \A s \in SrvP!Segment : /\ SrvP!Pos(s) + 1 \in 1 .. SrqBufferCnt
                                    /\ InRing(head, SrvP!Pos(s) + 1) = s
<1>1. SrqBufferCnt \in Nat \ {0, 1} /\ head \in 0 .. SrqBufferCnt - 1
  BY ServerSizes DEF SrvP!TypeOK, SrvP!Segment
<1>2. ASSUME NEW i \in 1 .. SrqBufferCnt
      PROVE  InRing(head, i) = IF head + i - 1 < SrqBufferCnt THEN head + i - 1
                               ELSE (head + i - 1) - SrqBufferCnt
  BY <1>1, InRingAt
<1>3. InRing(head, 1) = head
  BY <1>1, <1>2
<1>4. ASSUME NEW i \in 1 .. SrqBufferCnt
      PROVE  InRing(head, i) \in SrvP!Segment /\ SrvP!Pos(InRing(head, i)) = i - 1
  BY <1>1, <1>2 DEF SrvP!Segment, SrvP!Pos, SrvP!Dist
<1>5. ASSUME NEW s \in SrvP!Segment
      PROVE  SrvP!Pos(s) + 1 \in 1 .. SrqBufferCnt /\ InRing(head, SrvP!Pos(s) + 1) = s
  <2>1. s \in 0 .. SrqBufferCnt - 1
    BY DEF SrvP!Segment
  <2>2. SrvP!Pos(s) = IF s >= head THEN s - head ELSE s - head + SrqBufferCnt
    BY DEF SrvP!Pos, SrvP!Dist
  <2>3. SrvP!Pos(s) + 1 \in 1 .. SrqBufferCnt
    BY <1>1, <2>1, <2>2
  <2> QED
    BY <1>1, <1>2, <2>1, <2>2, <2>3
<1> QED
  BY <1>1, <1>3, <1>4, <1>5 DEF SrvP!Segment

SegmentsRead ==
  /\ segments \in Lists(Message, SrqBufferCnt)
  /\ \A i \in 1 .. SrqBufferCnt : segments[i] = mem[InRing(head, i)]

LEMMA SegmentsType == SrvP!TypeOK => SegmentsRead
<1> SUFFICES ASSUME SrvP!TypeOK PROVE SegmentsRead
  OBVIOUS
<1>1. mem \in [SrvP!Segment -> Seq(Message)]
  BY DEF SrvP!TypeOK
<1>2. \A i \in 1 .. SrqBufferCnt : segments[i] = mem[InRing(head, i)]
  BY DEF segments, InRing
<1>3. segments = [i \in 1 .. SrqBufferCnt |-> mem[InRing(head, i)]]
  BY DEF segments, InRing
<1>4. \A i \in 1 .. SrqBufferCnt : mem[InRing(head, i)] \in Seq(Message)
  BY <1>1, RingFacts
<1>5. segments \in [1 .. SrqBufferCnt -> Seq(Message)] /\ SrqBufferCnt \in Nat
  BY <1>3, <1>4, RingFacts
<1>6. segments \in Seq(Seq(Message)) /\ Len(segments) = SrqBufferCnt
  BY <1>5, SeqFromFunction
<1> QED
  BY <1>2, <1>6 DEF Lists, SegmentsRead

LEMMA SegmentsNext == SrvP!TypeOK' => SegmentsRead'
BY SegmentsType, PTL

\* Both, ready to be cited.
LEMMA SegmentsFacts ==
  ASSUME SrvP!TypeOK, SrvP!TypeOK'
  PROVE  /\ segments \in Lists(Message, SrqBufferCnt)
         /\ segments' \in Lists(Message, SrqBufferCnt)
         /\ \A i \in 1 .. SrqBufferCnt : segments[i] = mem[InRing(head, i)]
         /\ \A i \in 1 .. SrqBufferCnt : segments'[i] = mem'[InRing(head', i)]
<1>1. SegmentsRead /\ SegmentsRead'
  BY SegmentsType, SegmentsNext
<1> QED
  BY <1>1 DEF SegmentsRead

\* The oldest segment is emptied while another has messages: its messages leave
\* the log, which is not empty without them.
LEMMA ClearSegments ==
  ASSUME SrvP!TypeOK, SrvP!TypeOK', head' = head, mem' = [mem EXCEPT ![head] = << >>],
         mem[SrvP!NextSegment(head)] # << >>
  PROVE  /\ FlattenSeq(segments) = mem[head] \o FlattenSeq(segments')
         /\ FlattenSeq(segments') # << >>
<1>1. /\ SrqBufferCnt \in Nat /\ SrqBufferCnt # 0 /\ 1 \in 1 .. SrqBufferCnt
      /\ 2 \in 1 .. SrqBufferCnt /\ head \in SrvP!Segment
  BY RingFacts
<1>2. mem \in [SrvP!Segment -> Seq(Message)]
  BY DEF SrvP!TypeOK
<1>3. segments[1] = mem[head] /\ segments'[1] = << >>
  BY <1>1, <1>2, SegmentsFacts, RingFacts
<1>4. ASSUME NEW i \in 1 .. SrqBufferCnt, i # 1 PROVE segments'[i] = segments[i]
  <2>1. InRing(head, i) \in SrvP!Segment /\ SrvP!Pos(InRing(head, i)) # SrvP!Pos(InRing(head, 1))
    BY <1>1, <1>4, RingFacts
  <2>2. InRing(head, i) # head
    BY <2>1, RingFacts
  <2>3. mem'[InRing(head, i)] = mem[InRing(head, i)]
    BY <1>2, <2>1, <2>2
  <2> QED
    BY <2>3, SegmentsFacts
<1>5. FlattenSeq(segments) = segments[1] \o FlattenSeq(segments')
  <2>1. Emptied(segments, segments', SrqBufferCnt)
    BY <1>3, <1>4 DEF Emptied
  <2> QED
    BY <1>1, <2>1, SegmentsFacts, FlattenDropFirst
<1>6. segments'[2] # << >>
  <2>1. InRing(head, 2) = SrvP!NextSegment(head)
    BY <1>1 DEF InRing, SrvP!NextSegment, SrvP!Segment
  <2>2. segments[2] # << >>
    BY <1>1, <2>1, SegmentsFacts
  <2> QED
    BY <1>1, <1>4, <2>2
<1>7. FlattenSeq(segments') # << >>
  BY <1>1, <1>6, SegmentsFacts, FlattenNonempty
<1> QED
  BY <1>3, <1>5, <1>7

\* The oldest segment, an empty one, becomes the youngest: the log is the same.
LEMMA RepostSegments ==
  ASSUME SrvP!TypeOK, SrvP!TypeOK', head' = SrvP!NextSegment(head), mem' = mem, mem[head] = << >>
  PROVE  FlattenSeq(segments') = FlattenSeq(segments)
<1> DEFINE n == SrqBufferCnt
<1>1. n \in Nat /\ n >= 2 /\ head \in 0 .. n - 1
  BY RingFacts DEF SrvP!Segment
<1>2. head' \in 0 .. n - 1 /\ head' = IF head + 1 < n THEN head + 1 ELSE 0
  <2>1. (head + 1) % n = IF head + 1 = n THEN 0 ELSE head + 1
    <3>1. n \in Nat \ {0}
      BY <1>1
    <3> HIDE DEF n
    <3> QED
      BY <1>1, <3>1, NextMod
  <2> QED
    BY <1>1, <2>1 DEF SrvP!NextSegment
<1>3. ASSUME NEW i \in 1 .. n - 1 PROVE InRing(head', i) = InRing(head, i + 1)
  <2>1. i \in 1 .. n /\ i + 1 \in 1 .. n
    BY <1>1
  <2>2. InRing(head', i) = IF head' + i - 1 < n THEN head' + i - 1 ELSE (head' + i - 1) - n
    BY <1>2, <2>1, InRingAt
  <2>3. InRing(head, i + 1) = IF head + (i + 1) - 1 < n THEN head + (i + 1) - 1
                              ELSE (head + (i + 1) - 1) - n
    BY <1>1, <2>1, InRingAt
  <2> QED
    BY <1>1, <1>2, <2>1, <2>2, <2>3
<1>4. InRing(head', n) = head
  <2>1. InRing(head', n) = IF head' + n - 1 < n THEN head' + n - 1 ELSE (head' + n - 1) - n
    BY <1>1, <1>2, InRingAt
  <2> QED
    BY <1>1, <1>2, <2>1
<1>5. segments[1] = << >>
  BY <1>1, SegmentsFacts, RingFacts
<1>6. segments'[n] = << >>
  BY <1>1, <1>4, SegmentsFacts
<1>7. \A i \in 1 .. n - 1 : segments'[i] = segments[i + 1]
  BY <1>1, <1>3, SegmentsFacts
<1>8. Rotated(segments, segments', n)
  BY <1>5, <1>6, <1>7 DEF Rotated
<1> QED
  BY <1>1, <1>8, SegmentsFacts, FlattenRotate

\* A message goes to the end of the last segment that has any, or of one behind
\* it: it is the last in memory.
LEMMA WriteSegments ==
  ASSUME SrvP!TypeOK, SrvP!TypeOK', head' = head, NEW s \in SrvP!Segment, NEW m \in Message,
         mem' = [mem EXCEPT ![s] = Append(@, m)],
         \A t \in SrvP!Segment : SrvP!Pos(t) > SrvP!Pos(s) => mem[t] = << >>
  PROVE  FlattenSeq(segments') = Append(FlattenSeq(segments), m)
<1> DEFINE j == SrvP!Pos(s) + 1
<1>1. SrqBufferCnt \in Nat /\ j \in 1 .. SrqBufferCnt /\ InRing(head, j) = s
  BY RingFacts
<1>2. mem \in [SrvP!Segment -> Seq(Message)]
  BY DEF SrvP!TypeOK
<1>3. segments'[j] = Append(segments[j], m)
  BY <1>1, <1>2, SegmentsFacts
<1>4. ASSUME NEW i \in 1 .. SrqBufferCnt, i # j PROVE segments'[i] = segments[i]
  <2>1. InRing(head, i) \in SrvP!Segment /\ SrvP!Pos(InRing(head, i)) # SrvP!Pos(s)
    BY <1>1, <1>4, RingFacts
  <2>2. mem'[InRing(head, i)] = mem[InRing(head, i)]
    BY <1>2, <2>1
  <2> QED
    BY <2>2, SegmentsFacts
<1>5. ASSUME NEW i \in 1 .. SrqBufferCnt, i > j PROVE segments[i] = << >>
  <2>1. InRing(head, i) \in SrvP!Segment /\ SrvP!Pos(InRing(head, i)) > SrvP!Pos(s)
    BY <1>1, <1>5, RingFacts
  <2> QED
    BY <2>1, SegmentsFacts
<1> HIDE DEF j
<1>6. Extended(segments, segments', SrqBufferCnt, j, m)
  BY <1>3, <1>4, <1>5 DEF Extended
<1> QED
  BY <1>1, <1>6, SegmentsFacts, FlattenAppend

-----------------------------------------------------------------------------
(***************************************************************************)
(* The log, step by step.                                                  *)
(***************************************************************************)

\* The messages of a sequence of writes.
Payload(d) == [i \in 1 .. Len(d) |-> d[i].msg]

LEMMA PayloadFacts ==
  ASSUME NEW M, NEW W, \A e \in W : e.msg \in M, NEW d \in Seq(W)
  PROVE  /\ Payload(d) \in Seq(M) /\ Len(Payload(d)) = Len(d) /\ Len(d) \in Nat
         /\ \A i \in 1 .. Len(d) : Payload(d)[i] = d[i].msg
<1>1. Len(d) \in Nat /\ \A i \in 1 .. Len(d) : d[i].msg \in M
  BY ElementOfSeq
<1>2. Payload(d) \in [1 .. Len(d) -> M]
  BY <1>1 DEF Payload
<1>3. Payload(d) \in Seq(M) /\ Len(Payload(d)) = Len(d)
  BY <1>1, <1>2, SeqFromFunction
<1> QED
  BY <1>1, <1>3 DEF Payload

LEMMA PayloadAppend ==
  ASSUME NEW M, NEW W, \A e \in W : e.msg \in M, NEW d \in Seq(W), NEW e \in W
  PROVE  Payload(Append(d, e)) = Append(Payload(d), e.msg)
<1>1. /\ Append(d, e) \in Seq(W) /\ Len(Append(d, e)) = Len(d) + 1 /\ Len(d) \in Nat
      /\ Append(d, e)[Len(d) + 1] = e /\ \A i \in 1 .. Len(d) : Append(d, e)[i] = d[i]
  OBVIOUS
<1>2. /\ Payload(d) \in Seq(M) /\ Len(Payload(d)) = Len(d)
      /\ \A i \in 1 .. Len(d) : Payload(d)[i] = d[i].msg
  BY PayloadFacts, ZenonT(40)
<1>3. /\ Payload(Append(d, e)) \in Seq(M) /\ Len(Payload(Append(d, e))) = Len(d) + 1
      /\ \A i \in 1 .. Len(d) + 1 : Payload(Append(d, e))[i] = Append(d, e)[i].msg
  BY <1>1, PayloadFacts
<1>4. e.msg \in M
  OBVIOUS
<1>5. /\ Append(Payload(d), e.msg) \in Seq(M) /\ Len(Append(Payload(d), e.msg)) = Len(d) + 1
      /\ Append(Payload(d), e.msg)[Len(d) + 1] = e.msg
      /\ \A i \in 1 .. Len(d) : Append(Payload(d), e.msg)[i] = Payload(d)[i]
  BY <1>2, <1>4
<1>6. \A i \in 1 .. Len(d) + 1 : Payload(Append(d, e))[i] = Append(Payload(d), e.msg)[i]
  <2> TAKE i \in 1 .. Len(d) + 1
  <2>1. CASE i = Len(d) + 1
    <3>1. Payload(Append(d, e))[i] = Append(d, e)[i].msg
      BY <1>3
    <3> QED
      BY <1>1, <1>5, <2>1, <3>1, Zenon
  <2>2. CASE i \in 1 .. Len(d)
    <3>1. Payload(Append(d, e))[i] = Append(d, e)[i].msg
      BY <1>3
    <3>2. Append(d, e)[i] = d[i] /\ Payload(d)[i] = d[i].msg
          /\ Append(Payload(d), e.msg)[i] = Payload(d)[i]
      BY <1>1, <1>2, <1>5, <2>2, Zenon
    <3> QED
      BY <3>1, <3>2, Zenon
  <2>3. i = Len(d) + 1 \/ i \in 1 .. Len(d)
    BY <1>1
  <2> QED
    BY <2>1, <2>2, <2>3, Zenon
<1> QED
  BY <1>3, <1>5, <1>6, SeqEqual

LEMMA PayloadTail ==
  ASSUME NEW M, NEW W, \A e \in W : e.msg \in M, NEW d \in Seq(W), d # << >>
  PROVE  /\ Payload(Tail(d)) = Tail(Payload(d))
         /\ Head(Payload(d)) = Head(d).msg /\ Payload(d) # << >>
<1>1. /\ Tail(d) \in Seq(W) /\ Len(Tail(d)) = Len(d) - 1 /\ Len(d) \in Nat \ {0}
      /\ Head(d) = d[1] /\ \A i \in 1 .. Len(d) - 1 : Tail(d)[i] = d[i + 1]
  OBVIOUS
<1>2. /\ Payload(d) \in Seq(M) /\ Len(Payload(d)) = Len(d)
      /\ \A i \in 1 .. Len(d) : Payload(d)[i] = d[i].msg
  BY PayloadFacts, ZenonT(40)
<1>3. /\ Payload(Tail(d)) \in Seq(M) /\ Len(Payload(Tail(d))) = Len(d) - 1
      /\ \A i \in 1 .. Len(d) - 1 : Payload(Tail(d))[i] = Tail(d)[i].msg
  BY <1>1, PayloadFacts
<1>4. Payload(d) # << >>
  BY <1>1, <1>2
<1>5. /\ Tail(Payload(d)) \in Seq(M) /\ Len(Tail(Payload(d))) = Len(d) - 1
      /\ Head(Payload(d)) = Payload(d)[1]
      /\ \A i \in 1 .. Len(d) - 1 : Tail(Payload(d))[i] = Payload(d)[i + 1]
  BY <1>1, <1>2, <1>4
<1>6. \A i \in 1 .. Len(d) - 1 : Payload(Tail(d))[i] = Tail(Payload(d))[i]
  <2> TAKE i \in 1 .. Len(d) - 1
  <2>1. i + 1 \in 1 .. Len(d)
    BY <1>1
  <2> QED
    BY <1>1, <1>2, <1>3, <1>5, <2>1
<1>7. Payload(Tail(d)) = Tail(Payload(d))
  BY <1>3, <1>5, <1>6, SeqEqual
<1> QED
  BY <1>1, <1>2, <1>4, <1>5, <1>7

LEMMA LogType ==
  ASSUME SrvP!TypeOK
  PROVE  /\ FlattenSeq(segments) \in Seq(Message) /\ inFlight \in Seq(Message)
         /\ messages \in Seq(Message) /\ inFlight = Payload(dma)
         /\ dma \in Seq(SrvP!Write) /\ \A e \in SrvP!Write : e.msg \in Message
<1>1. dma \in Seq(SrvP!Write) /\ \A e \in SrvP!Write : e.msg \in Message
  BY DEF SrvP!TypeOK, SrvP!Write
<1>2. inFlight = Payload(dma) /\ inFlight \in Seq(Message)
  BY <1>1, PayloadFacts DEF inFlight, Payload
<1>3. FlattenSeq(segments) \in Seq(Message)
  BY SegmentsType, RingFacts, FlattenType DEF SegmentsRead
<1> QED
  BY <1>1, <1>2, <1>3, ConcatProperties DEF messages

\* What is left without a first part that is neither nothing nor all.
LEMMA SuffixOfConcat ==
  ASSUME NEW S, NEW u \in Seq(S), NEW v \in Seq(S), u # << >>, v # << >>
  PROVE  \E n \in 1 .. Len(u \o v) - 1 : v = SubSeq(u \o v, n + 1, Len(u \o v))
<1>1. /\ Len(u) \in Nat \ {0} /\ Len(v) \in Nat \ {0} /\ Len(u \o v) = Len(u) + Len(v)
      /\ \A i \in 1 .. Len(v) : (u \o v)[Len(u) + i] = v[i]
      /\ u \o v \in Seq(S)
  OBVIOUS
<1> DEFINE w == SubSeq(u \o v, Len(u) + 1, Len(u \o v))
<1>2. /\ w \in Seq(S) /\ Len(w) = Len(v)
      /\ \A i \in 1 .. Len(v) : w[i] = (u \o v)[Len(u) + 1 + i - 1]
  BY <1>1
<1>3. v = w
  BY <1>1, <1>2, SeqEqual
<1>4. Len(u) \in 1 .. Len(u \o v) - 1
  BY <1>1
<1> QED
  BY <1>3, <1>4, Zenon

\* The control thread leaves the log alone, or gives up a proper prefix.
LEMMA ServerLog ==
  ASSUME SrvP!IInv, SrvP!MemInv, SrvP!Server, SrvP!TypeOK'
  PROVE  \/ messages' = messages
         \/ \E n \in 1 .. Len(messages) - 1 : messages' = SubSeq(messages, n + 1, Len(messages))
<1>1. SrvP!TypeOK
  BY DEF SrvP!IInv
<1>2. inFlight' = inFlight
  BY SrvP!ServerLogStep, ServerSizes, ServerMessages DEF inFlight
<1>3. CASE head' = head /\ mem' = mem
  BY <1>2, <1>3 DEF messages, segments
<1>4. CASE /\ head' = head /\ mem' = [mem EXCEPT ![head] = << >>]
           /\ mem[SrvP!NextSegment(head)] # << >>
  <2>1. /\ FlattenSeq(segments) = mem[head] \o FlattenSeq(segments')
        /\ FlattenSeq(segments') # << >>
    BY <1>1, <1>4, ClearSegments
  <2>2. mem[head] \in Seq(Message) /\ FlattenSeq(segments) \in Seq(Message)
        /\ inFlight \in Seq(Message)
    BY <1>1, LogType DEF SrvP!TypeOK
  <2>3. FlattenSeq(segments') \in Seq(Message)
    BY <1>1, SegmentsFacts, RingFacts, FlattenType
  <2>4. messages' = FlattenSeq(segments') \o inFlight
    BY <1>2 DEF messages
  <2>5. messages = mem[head] \o messages' /\ messages' \in Seq(Message) /\ messages' # << >>
    <3>1. \A t, u, v \in Seq(Message) : (t \o u) \o v = t \o (u \o v)
      BY ConcatAssociative
    <3>2. messages = (mem[head] \o FlattenSeq(segments')) \o inFlight
      BY <2>1 DEF messages
    <3>3. messages = mem[head] \o messages'
      BY <2>2, <2>3, <2>4, <3>1, <3>2, Zenon
    <3>4. \A u, v \in Seq(Message) : u # << >> => u \o v \in Seq(Message) /\ u \o v # << >>
      BY ConcatProperties, ConcatEqualIffEmpty
    <3>5. messages' \in Seq(Message) /\ messages' # << >>
      BY <2>1, <2>2, <2>3, <2>4, <3>4, Zenon
    <3> QED
      BY <3>3, <3>5, Zenon
  <2>6. CASE mem[head] = << >>
    BY <2>5, <2>6, ConcatEmptySeq
  <2>7. CASE mem[head] # << >>
    BY <2>2, <2>5, <2>7, SuffixOfConcat
  <2> QED
    BY <2>6, <2>7
<1>5. CASE head' = SrvP!NextSegment(head) /\ mem' = mem /\ mem[head] = << >>
  BY <1>1, <1>2, <1>5, RepostSegments DEF messages
<1> QED
  BY <1>3, <1>4, <1>5, SrvP!ServerLogStep, ServerSizes, ServerMessages

\* A write that reaches memory only moves in the log from one part to the other.
LEMMA DmaWriteLog ==
  ASSUME SrvP!IInv, SrvP!MemInv, SrvP!DmaWrite, SrvP!TypeOK'
  PROVE  messages' = messages
<1> DEFINE e == Head(dma)
<1>1. SrvP!TypeOK
  BY DEF SrvP!IInv
<1>2. /\ dma # << >> /\ e \in SrvP!Write /\ dma' = Tail(dma) /\ head' = head
      /\ mem' = [mem EXCEPT ![e.seg] = Append(@, e.msg)]
      /\ \A s \in SrvP!Segment : SrvP!Pos(s) > SrvP!Pos(e.seg) => mem[s] = << >>
  BY SrvP!DmaWriteLogStep, ServerSizes, ServerMessages
<1>3. e.seg \in SrvP!Segment /\ e.msg \in Message
  BY <1>2 DEF SrvP!Write
<1>4. FlattenSeq(segments') = Append(FlattenSeq(segments), e.msg)
  BY <1>1, <1>2, <1>3, WriteSegments
<1>5. inFlight' = Payload(Tail(dma))
  BY <1>2 DEF inFlight, Payload
<1>6. /\ inFlight # << >> /\ inFlight' = Tail(inFlight) /\ Head(inFlight) = e.msg
      /\ inFlight \in Seq(Message) /\ FlattenSeq(segments) \in Seq(Message)
  BY <1>1, <1>2, <1>5, LogType, PayloadTail
<1>7. \A u, v \in Seq(Message) : v # << >> => Append(u, Head(v)) \o Tail(v) = u \o v
  OBVIOUS
<1> HIDE DEF e
<1>8. Append(FlattenSeq(segments), e.msg) \o Tail(inFlight) = FlattenSeq(segments) \o inFlight
  BY <1>6, <1>7, Zenon
<1> QED
  BY <1>4, <1>6, <1>8 DEF messages

\* A message that is placed is the last of the log.
LEMMA PlaceLog ==
  ASSUME SrvP!IInv, NEW m \in Message, SrvP!Place(m), SrvP!TypeOK'
  PROVE  messages' = Append(messages, m)
<1>1. SrvP!TypeOK
  BY DEF SrvP!IInv
<1>2. PICK e : dma' = Append(dma, e) /\ e.msg = m /\ head' = head /\ mem' = mem
  BY SrvP!PlaceLogStep, ServerSizes, ServerMessages
<1>3. dma \in Seq(SrvP!Write) /\ dma' \in Seq(SrvP!Write)
  BY DEF SrvP!IInv, SrvP!TypeOK
<1>4. e \in SrvP!Write
  <2>1. dma'[Len(dma) + 1] = e /\ Len(dma') = Len(dma) + 1 /\ Len(dma) \in Nat
    BY <1>2, <1>3
  <2>2. Len(dma) + 1 \in 1 .. Len(dma')
    BY <2>1
  <2> QED
    BY <1>3, <2>1, <2>2, ElementOfSeq
<1>5. inFlight' = Payload(Append(dma, e))
  BY <1>2 DEF inFlight, Payload
<1>6. inFlight' = Append(inFlight, m)
  <2>1. inFlight = Payload(dma) /\ \A w \in SrvP!Write : w.msg \in Message
    BY <1>1, LogType
  <2>2. Payload(Append(dma, e)) = Append(Payload(dma), e.msg)
    BY <1>3, <1>4, <2>1, PayloadAppend
  <2> QED
    BY <1>2, <1>5, <2>1, <2>2, Zenon
<1>7. segments' = segments
  BY <1>2 DEF segments
<1>8. Append(FlattenSeq(segments) \o inFlight, m) = FlattenSeq(segments) \o Append(inFlight, m)
  <2>1. FlattenSeq(segments) \in Seq(Message) /\ inFlight \in Seq(Message)
    BY <1>1, LogType
  <2>2. \A u, v \in Seq(Message) : Append(u \o v, m) = u \o Append(v, m)
    BY AppendConcat
  <2> QED
    BY <2>1, <2>2, Zenon
<1> QED
  BY <1>6, <1>7, <1>8 DEF messages

-----------------------------------------------------------------------------
(***************************************************************************)
(* The queues of the clients, step by step.                                *)
(***************************************************************************)

LEMMA AsPostedType ==
  ASSUME NEW c \in Client, NEW wr \in WorkRequest
  PROVE  AsPosted(c, wr) \in Message
<1>1. wr.req \in Request /\ wr.size = wr.req.len + 1 /\ wr.size \in 1 .. MaxLen + 1
  BY DEF WorkRequest
<1>2. wr.req.magic = 1 /\ wr.req.seq \in 0 .. SeqCnt - 1 /\ wr.req.len + 1 \in 1 .. MaxLen + 1
  BY <1>1 DEF Request
<1> QED
  BY <1>2 DEF AsPosted, Message

LEMMA PostedFacts ==
  ASSUME NEW c \in Client, NEW q \in Seq(WorkRequest), NEW n \in 0 .. Len(q)
  PROVE  /\ Posted(c, q, n) \in Seq(Message) /\ Len(Posted(c, q, n)) = Len(q) - n
         /\ Len(q) \in Nat /\ Len(q) - n \in Nat
         /\ \A i \in 1 .. Len(q) - n : Posted(c, q, n)[i] = AsPosted(c, q[n + i])
<1>1. Len(q) \in Nat /\ Len(q) - n \in Nat
  OBVIOUS
<1>2. \A i \in 1 .. Len(q) - n : AsPosted(c, q[n + i]) \in Message
  <2> TAKE i \in 1 .. Len(q) - n
  <2>1. n + i \in 1 .. Len(q)
    BY <1>1
  <2>2. q[n + i] \in WorkRequest
    BY <2>1, ElementOfSeq
  <2> QED
    BY <2>2, AsPostedType
<1>3. Posted(c, q, n) \in [1 .. Len(q) - n -> Message]
  BY <1>2 DEF Posted
<1>4. Posted(c, q, n) \in Seq(Message) /\ Len(Posted(c, q, n)) = Len(q) - n
  BY <1>1, <1>3, SeqFromFunction
<1> QED
  BY <1>1, <1>4 DEF Posted

\* A work request that is posted is the last to be placed.
LEMMA PostedAppend ==
  ASSUME NEW c \in Client, NEW q \in Seq(WorkRequest), NEW n \in 0 .. Len(q), NEW wr \in WorkRequest
  PROVE  Posted(c, Append(q, wr), n) = Append(Posted(c, q, n), AsPosted(c, wr))
<1> DEFINE r == Append(q, wr)
           l == Len(q) - n
           p == Posted(c, q, n)
           a == AsPosted(c, wr)
<1>1. /\ r \in Seq(WorkRequest) /\ Len(r) = Len(q) + 1 /\ Len(q) \in Nat /\ n \in 0 .. Len(r)
      /\ r[Len(q) + 1] = wr /\ \A i \in 1 .. Len(q) : r[i] = q[i]
  OBVIOUS
<1>2. /\ p \in Seq(Message) /\ Len(p) = l /\ l \in Nat
      /\ \A i \in 1 .. l : p[i] = AsPosted(c, q[n + i])
  BY PostedFacts
<1> HIDE DEF r, p, a
<1>3. /\ Posted(c, r, n) \in Seq(Message) /\ Len(Posted(c, r, n)) = l + 1
      /\ \A i \in 1 .. l + 1 : Posted(c, r, n)[i] = AsPosted(c, r[n + i])
  <2>1. Len(r) - n = l + 1
    BY <1>1
  <2> QED
    BY <1>1, <2>1, PostedFacts
<1>4. a \in Message
  BY AsPostedType DEF a
<1>5. /\ Append(p, a) \in Seq(Message) /\ Len(Append(p, a)) = l + 1
      /\ Append(p, a)[l + 1] = a /\ \A i \in 1 .. l : Append(p, a)[i] = p[i]
  BY <1>2, <1>4
<1>6. ASSUME NEW i \in 1 .. l + 1 PROVE Posted(c, r, n)[i] = Append(p, a)[i]
  <2>1. Posted(c, r, n)[i] = AsPosted(c, r[n + i])
    BY <1>3
  <2>2. CASE i = l + 1
    <3>1. n + i = Len(q) + 1
      BY <1>1, <2>2
    <3> QED
      BY <1>1, <1>5, <2>1, <2>2, <3>1, Zenon DEF a
  <2>3. CASE i \in 1 .. l
    <3>1. n + i \in 1 .. Len(q)
      BY <1>1, <2>3
    <3> QED
      BY <1>1, <1>2, <1>5, <2>1, <2>3, <3>1, Zenon
  <2>4. i = l + 1 \/ i \in 1 .. l
    BY <1>2
  <2> QED
    BY <2>2, <2>3, <2>4, Zenon
<1>7. Posted(c, r, n) = Append(p, a)
  BY <1>3, <1>5, <1>6, SeqEqual
<1> QED
  BY <1>7 DEF r, p, a

\* The one transmitted next is the first to be placed.
LEMMA PostedNext ==
  ASSUME NEW c \in Client, NEW q \in Seq(WorkRequest), NEW n \in 0 .. Len(q), n < Len(q)
  PROVE  /\ Posted(c, q, n) # << >> /\ Head(Posted(c, q, n)) = AsPosted(c, q[n + 1])
         /\ Posted(c, q, n + 1) = Tail(Posted(c, q, n))
<1> DEFINE l == Len(q) - n
           p == Posted(c, q, n)
           r == Posted(c, q, n + 1)
<1>1. Len(q) \in Nat /\ n + 1 \in 0 .. Len(q) /\ l \in Nat /\ l >= 1 /\ Len(q) - (n + 1) = l - 1
  OBVIOUS
<1>2. /\ p \in Seq(Message) /\ Len(p) = l
      /\ \A i \in 1 .. l : p[i] = AsPosted(c, q[n + i])
  BY PostedFacts
<1>3. /\ r \in Seq(Message) /\ Len(r) = Len(q) - (n + 1)
      /\ \A i \in 1 .. Len(q) - (n + 1) : r[i] = AsPosted(c, q[n + 1 + i])
  BY <1>1, PostedFacts
<1> HIDE DEF p, r, l
<1>4. /\ p # << >> /\ Head(p) = p[1] /\ Tail(p) \in Seq(Message) /\ Len(Tail(p)) = l - 1
      /\ \A i \in 1 .. l - 1 : Tail(p)[i] = p[i + 1]
  BY <1>1, <1>2
<1>5. ASSUME NEW i \in 1 .. l - 1 PROVE r[i] = Tail(p)[i]
  <2>1. i + 1 \in 1 .. l /\ n + 1 + i = n + (i + 1)
    BY <1>1
  <2>2. r[i] = AsPosted(c, q[n + (i + 1)])
    BY <1>1, <1>3, <2>1
  <2> QED
    BY <1>2, <1>4, <2>1, <2>2, Zenon
<1>6. r = Tail(p)
  BY <1>1, <1>3, <1>4, <1>5, SeqEqual
<1>7. Head(p) = AsPosted(c, q[n + 1])
  <2>1. 1 \in 1 .. l
    BY <1>1
  <2> QED
    BY <1>2, <1>4, <2>1, Zenon
<1> QED
  BY <1>4, <1>6, <1>7 DEF p, r

\* One that is acknowledged was transmitted before: nothing changes.
LEMMA PostedTail ==
  ASSUME NEW c \in Client, NEW q \in Seq(WorkRequest), NEW n \in 1 .. Len(q)
  PROVE  Posted(c, Tail(q), n - 1) = Posted(c, q, n)
<1> DEFINE l == Len(q) - n
           p == Posted(c, q, n)
           r == Posted(c, Tail(q), n - 1)
<1>1. /\ Len(q) \in Nat \ {0} /\ n \in 0 .. Len(q) /\ l \in Nat
      /\ Tail(q) \in Seq(WorkRequest) /\ Len(Tail(q)) = Len(q) - 1 /\ n - 1 \in 0 .. Len(Tail(q))
      /\ \A i \in 1 .. Len(q) - 1 : Tail(q)[i] = q[i + 1]
      /\ Len(Tail(q)) - (n - 1) = l
  OBVIOUS
<1>2. /\ p \in Seq(Message) /\ Len(p) = l
      /\ \A i \in 1 .. l : p[i] = AsPosted(c, q[n + i])
  BY <1>1, PostedFacts
<1>3. /\ r \in Seq(Message) /\ Len(r) = Len(Tail(q)) - (n - 1)
      /\ \A i \in 1 .. Len(Tail(q)) - (n - 1) : r[i] = AsPosted(c, Tail(q)[n - 1 + i])
  BY <1>1, PostedFacts
<1> HIDE DEF p, r
<1>4. ASSUME NEW i \in 1 .. l PROVE r[i] = p[i]
  <2>1. n - 1 + i \in 1 .. Len(q) - 1 /\ (n - 1 + i) + 1 = n + i
    BY <1>1
  <2>2. Tail(q)[n - 1 + i] = q[n + i]
    BY <1>1, <2>1
  <2>3. r[i] = AsPosted(c, Tail(q)[n - 1 + i])
    BY <1>1, <1>3
  <2> QED
    BY <1>2, <2>2, <2>3, Zenon
<1>5. r = p
  BY <1>1, <1>2, <1>3, <1>4, SeqEqual, SMTT(30)
<1> QED
  BY <1>5 DEF p, r

\* A client that posts hands one message over: the send queue takes it.
LEMMA SendHandsOver ==
  ASSUME IInv, IInv', NEW c \in Client, Send(c)
  PROVE  /\ toReport' = toReport
         /\ \E m \in Message : toPlace' = [toPlace EXCEPT ![c] = Append(@, m)]
<1> DEFINE wr == fillSgeWr(c)
<1>1. /\ sq[c] \in Seq(WorkRequest) /\ Len(sq[c]) \in Nat /\ sent[c] \in 0 .. Len(sq[c])
      /\ HasRoom(c)
  <2>1. cpc[c] = "send"
    BY DEF Send
  <2> QED
    BY <2>1, ClientFacts, QueueRoom DEF ClientInv
<1>2. sq' = [sq EXCEPT ![c] = Append(@, wr)] /\ sent' = sent /\ cq' = cq
  BY <1>1 DEF Send
<1>3. sq \in [Client -> Seq(WorkRequest)] /\ sq' \in [Client -> Seq(WorkRequest)]
  BY DEF IInv, TypeOK
<1> HIDE DEF wr
<1>4. sq'[c] = Append(sq[c], wr) /\ \A d \in Client \ {c} : sq'[d] = sq[d]
  BY <1>2, <1>3
<1>5. wr \in WorkRequest
  <2>1. sq'[c] \in Seq(WorkRequest)
    BY <1>3
  <2>2. Len(sq'[c]) = Len(sq[c]) + 1 /\ sq'[c][Len(sq[c]) + 1] = wr
    BY <1>1, <1>4
  <2>3. Len(sq[c]) + 1 \in 1 .. Len(sq'[c])
    BY <1>1, <2>2
  <2> QED
    BY <2>1, <2>2, <2>3, ElementOfSeq
<1>6. AsPosted(c, wr) \in Message
  BY <1>5, AsPostedType
<1>7. Posted(c, sq'[c], sent'[c]) = Append(Posted(c, sq[c], sent[c]), AsPosted(c, wr))
  BY <1>1, <1>2, <1>4, <1>5, PostedAppend
<1>8. \A d \in Client \ {c} : Posted(d, sq'[d], sent'[d]) = Posted(d, sq[d], sent[d])
  BY <1>2, <1>4
<1>9. toPlace' = [toPlace EXCEPT ![c] = Append(@, AsPosted(c, wr))]
  BY <1>7, <1>8 DEF toPlace
<1>10. toReport' = toReport
  BY <1>2 DEF toReport
<1> QED
  BY <1>6, <1>9, <1>10

\* What is transmitted is the first to be placed and becomes one to report.
LEMMA TransmitTakes ==
  ASSUME IInv, NEW c \in Client, Transmit(c)
  PROVE  /\ toPlace[c] # << >> /\ Head(toPlace[c]) = WireMessage(c)
         /\ toPlace' = [toPlace EXCEPT ![c] = Tail(@)]
         /\ toReport' = [toReport EXCEPT ![c] = @ + 1]
<1>1. /\ sq[c] \in Seq(WorkRequest) /\ Len(sq[c]) \in Nat /\ sent[c] \in 0 .. Len(sq[c])
      /\ sent[c] < Len(sq[c]) /\ cq[c] \in Nat
  BY ClientFacts DEF Transmit, Pending
<1>2. sent' = [sent EXCEPT ![c] = @ + 1] /\ sq' = sq /\ cq' = cq
  BY DEF Transmit
<1>3. sent \in [Client -> Nat] /\ cq \in [Client -> Nat]
  BY DEF IInv, TypeOK
<1>4. sent'[c] = sent[c] + 1 /\ \A d \in Client \ {c} : sent'[d] = sent[d]
  BY <1>2, <1>3
<1>5. toPlace[c] = Posted(c, sq[c], sent[c])
  BY DEF toPlace
<1>6. /\ Posted(c, sq[c], sent[c]) # << >>
      /\ Head(Posted(c, sq[c], sent[c])) = AsPosted(c, sq[c][sent[c] + 1])
      /\ Posted(c, sq[c], sent[c] + 1) = Tail(Posted(c, sq[c], sent[c]))
  BY <1>1, PostedNext
<1>7. Head(toPlace[c]) = WireMessage(c)
  BY <1>5, <1>6, WireAsPosted DEF Transmit
<1>8. toPlace' = [toPlace EXCEPT ![c] = Tail(@)]
  <2>1. Posted(c, sq'[c], sent'[c]) = Tail(Posted(c, sq[c], sent[c]))
    BY <1>2, <1>4, <1>6
  <2>2. \A d \in Client \ {c} : Posted(d, sq'[d], sent'[d]) = Posted(d, sq[d], sent[d])
    BY <1>2, <1>4
  <2> QED
    BY <2>1, <2>2 DEF toPlace
<1>9. toReport' = [toReport EXCEPT ![c] = @ + 1]
  <2>1. sent'[c] + cq'[c] = (sent[c] + cq[c]) + 1
    BY <1>1, <1>2, <1>4
  <2>2. \A d \in Client \ {c} : sent'[d] + cq'[d] = sent[d] + cq[d]
    BY <1>2, <1>4
  <2> QED
    BY <2>1, <2>2 DEF toReport
<1> QED
  BY <1>5, <1>6, <1>7, <1>8, <1>9

\* An acknowledgement and a completion are not seen in the log.
LEMMA CompleteKeeps ==
  ASSUME IInv, NEW c \in Client, Complete(c)
  PROVE  toPlace' = toPlace /\ toReport' = toReport
<1>1. /\ sq[c] \in Seq(WorkRequest) /\ Len(sq[c]) \in Nat /\ sent[c] \in 1 .. Len(sq[c])
      /\ cq[c] \in Nat
  BY ClientFacts DEF Complete, ClientInv
<1>2. /\ sq' = [sq EXCEPT ![c] = Tail(@)] /\ sent' = [sent EXCEPT ![c] = @ - 1]
      /\ cq' = [cq EXCEPT ![c] = @ + 1]
  BY QueueRoom DEF Complete, IInv, TypeOK
<1>3. sent \in [Client -> Nat] /\ cq \in [Client -> Nat] /\ sq \in [Client -> Seq(WorkRequest)]
  BY DEF IInv, TypeOK
<1>4. /\ sent'[c] = sent[c] - 1 /\ cq'[c] = cq[c] + 1 /\ sq'[c] = Tail(sq[c])
      /\ \A d \in Client \ {c} : sent'[d] = sent[d] /\ cq'[d] = cq[d] /\ sq'[d] = sq[d]
  BY <1>2, <1>3
<1>5. toPlace' = toPlace
  <2>1. Posted(c, sq'[c], sent'[c]) = Posted(c, sq[c], sent[c])
    BY <1>1, <1>4, PostedTail
  <2>2. \A d \in Client : Posted(d, sq'[d], sent'[d]) = Posted(d, sq[d], sent[d])
    BY <1>4, <2>1
  <2> QED
    BY <2>2 DEF toPlace
<1>6. toReport' = toReport
  <2>1. sent'[c] + cq'[c] = sent[c] + cq[c]
    BY <1>1, <1>4, SMTT(30)
  <2>2. \A d \in Client : sent'[d] + cq'[d] = sent[d] + cq[d]
    BY <1>4, <2>1
  <2> QED
    BY <2>2 DEF toReport
<1> QED
  BY <1>5, <1>6

\* A client that polls learns of one message more.
LEMMA PollReports ==
  ASSUME IInv, NEW c \in Client, PollCq(c)
  PROVE  /\ toPlace' = toPlace /\ toReport[c] > 0
         /\ toReport' = [toReport EXCEPT ![c] = @ - 1]
<1>1. sent[c] \in Nat /\ cq[c] \in Nat /\ cq[c] > 0
  BY ClientFacts DEF PollCq
<1>2. cq' = [cq EXCEPT ![c] = @ - 1] /\ sq' = sq /\ sent' = sent
  BY DEF PollCq
<1>3. sent \in [Client -> Nat] /\ cq \in [Client -> Nat]
  BY DEF IInv, TypeOK
<1>4. toPlace' = toPlace
  BY <1>2 DEF toPlace
<1>5. toReport[c] > 0
  BY <1>1 DEF toReport
<1>6. toReport' = [toReport EXCEPT ![c] = @ - 1]
  <2>1. sent'[c] + cq'[c] = (sent[c] + cq[c]) - 1
    BY <1>1, <1>2, <1>3
  <2>2. \A d \in Client \ {c} : sent'[d] + cq'[d] = sent[d] + cq[d]
    BY <1>2, <1>3
  <2> QED
    BY <2>1, <2>2 DEF toReport
<1> QED
  BY <1>4, <1>5, <1>6

LEMMA QueuesSame ==
  ASSUME UNCHANGED <<sq, sent, cq>>
  PROVE  toPlace' = toPlace /\ toReport' = toReport
BY DEF toPlace, toReport

LEMMA ServerSame ==
  ASSUME UNCHANGED <<head, dma, mem>>
  PROVE  messages' = messages
BY DEF messages, segments, inFlight

-----------------------------------------------------------------------------
(***************************************************************************)
(* The refinement.                                                         *)
(***************************************************************************)

LEMMA InitLog == RowanInit => Log!Init
<1> SUFFICES ASSUME RowanInit PROVE Log!Init
  OBVIOUS
<1>1. /\ \A c \in Client : sq[c] = << >> /\ sent[c] = 0 /\ cq[c] = 0
      /\ head = 0 /\ dma = << >> /\ mem = [s \in SrvP!Segment |-> << >>]
  BY SameInit DEF RowanInit, Init, SrvP!Init
<1>2. toPlace = [c \in Client |-> << >>]
  <2>1. ASSUME NEW c \in Client PROVE Posted(c, sq[c], sent[c]) = << >>
    <3>1. sq[c] \in Seq(WorkRequest) /\ sent[c] \in 0 .. Len(sq[c]) /\ Len(sq[c]) - sent[c] = 0
      <4>1. sq[c] = << >> /\ sent[c] = 0
        BY <1>1, Zenon
      <4> QED
        BY <4>1, EmptySeq
    <3>2. /\ Posted(c, sq[c], sent[c]) \in Seq(Message)
          /\ Len(Posted(c, sq[c], sent[c])) = Len(sq[c]) - sent[c]
      BY <3>1, PostedFacts
    <3> QED
      BY <3>1, <3>2
  <2> QED
    BY <2>1 DEF toPlace
<1>3. toReport = [c \in Client |-> 0]
  BY <1>1 DEF toReport
<1>4. messages = << >>
  <2>1. SrvP!TypeOK
    BY InitRowanInv, SameInv DEF RowanInv, SrvP!IInv
  <2>2. segments \in Lists(Message, SrqBufferCnt)
        /\ \A i \in 1 .. SrqBufferCnt : segments[i] = << >>
    BY <1>1, <2>1, SegmentsType, RingFacts DEF SegmentsRead
  <2>3. SrqBufferCnt \in Nat
    BY ServerSizes
  <2>4. FlattenSeq(segments) = << >>
    BY <2>2, <2>3, FlattenEmpty
  <2>5. inFlight = << >>
    BY <1>1 DEF inFlight
  <2> QED
    BY <2>4, <2>5 DEF messages
<1> QED
  BY <1>2, <1>3, <1>4 DEF Log!Init

LEMMA Typed == RowanInv => SrvP!TypeOK
BY SameInv DEF RowanInv, SrvP!IInv

LEMMA NextTyped == RowanInv' => SrvP!TypeOK'
BY Typed, PTL

\* Every step of Rowan is a step of the log, or is not seen there.
LEMMA NextLog ==
  ASSUME RowanInv, RowanInv', [RowanNext]_rowanVars
  PROVE  [Log!Next]_Log!vars
<1>1. /\ IInv /\ SrvP!IInv /\ SrvP!MemInv /\ SrvP!TypeOK
  BY SameInv DEF RowanInv, SrvP!IInv
<1>2. IInv' /\ SrvP!TypeOK'
  BY NextTyped DEF RowanInv
<1>3. CASE Server
  <2>1. UNCHANGED <<sq, sent, cq>> /\ SrvP!Server
    BY <1>3, SameServer DEF Server, clientVars, qpVars
  <2>2. toPlace' = toPlace /\ toReport' = toReport
    BY <2>1, QueuesSame
  <2>3. \/ messages' = messages
        \/ \E n \in 1 .. Len(messages) - 1 : messages' = SubSeq(messages, n + 1, Len(messages))
    BY <1>1, <1>2, <2>1, ServerLog
  <2> QED
    BY <2>2, <2>3 DEF Log!Next, Log!Recycle, Log!vars
<1>4. CASE DmaWrite
  <2>1. UNCHANGED <<sq, sent, cq>> /\ SrvP!DmaWrite
    BY <1>4, SameDmaWrite DEF DmaWrite, clientVars, qpVars
  <2> QED
    BY <1>1, <1>2, <2>1, QueuesSame, DmaWriteLog DEF Log!vars
<1>5. ASSUME NEW c \in Client, InClient(c) PROVE [Log!Next]_Log!vars
  <2>1. messages' = messages
    BY <1>5, ServerSame DEF InClient, serverVars
  <2>2. CASE Send(c)
    BY <1>1, <1>2, <2>1, <2>2, SendHandsOver DEF Log!Next, Log!HandOver
  <2>3. CASE PollCq(c)
    BY <1>1, <2>1, <2>3, PollReports DEF Log!Next, Log!Report
  <2>4. CASE Complete(c)
    BY <1>1, <2>1, <2>4, CompleteKeeps DEF Log!vars
  <2>5. CASE GetSendBuf(c) \/ Fill(c)
    BY <2>1, <2>5, QueuesSame DEF GetSendBuf, Fill, qpVars, Log!vars
  <2> QED
    BY <1>5, <2>2, <2>3, <2>4, <2>5 DEF InClient, Thread
<1>6. ASSUME NEW c \in Client, Deliver(c) PROVE [Log!Next]_Log!vars
  <2>1. Transmit(c) /\ SrvP!Place(WireMessage(c)) /\ WireMessage(c) \in Message
    BY <1>1, <1>6, SamePlace, WireAsPosted DEF Deliver, Transmit
  <2>2. messages' = Append(messages, WireMessage(c))
    BY <1>1, <1>2, <2>1, PlaceLog
  <2>3. /\ toPlace[c] # << >> /\ Head(toPlace[c]) = WireMessage(c)
        /\ toPlace' = [toPlace EXCEPT ![c] = Tail(@)]
        /\ toReport' = [toReport EXCEPT ![c] = @ + 1]
    BY <1>1, <2>1, TransmitTakes
  <2>4. Log!AppendNext(c)
    BY <2>2, <2>3 DEF Log!AppendNext
  <2> QED
    BY <2>4 DEF Log!Next
<1>7. CASE UNCHANGED rowanVars
  BY <1>7, QueuesSame, ServerSame DEF rowanVars, serverVars, clientVars, qpVars, Log!vars
<1> QED
  BY <1>3, <1>4, <1>5, <1>6, <1>7 DEF RowanNext

\* Rowan implements its log: every request is appended once, as it was posted,
\* in the order of its client and before it is reported, and the server gives up
\* none but the oldest, for any number of clients, segments, buffers, WQEs,
\* strides, writes and requests under way (RowanServer.cpp, RowanClient.cpp).
THEOREM RowanRefines == RowanSpec => ImplementsAppendLog
<1>1. RowanInit => Log!Init
  BY InitLog
<1>2. RowanInv /\ RowanInv' /\ [RowanNext]_rowanVars => [Log!Next]_Log!vars
  BY NextLog
<1> QED
  BY <1>1, <1>2, RowanInvariance, PTL DEF RowanSpec, ImplementsAppendLog, Log!Spec

\* The properties of the clients hold with the server at work: buffers stay as
\* posted, no thread waits for a completion that cannot come, no send is refused.
THEOREM RowanKeepsWindow == RowanSpec => [](BufferStable /\ WindowKept /\ SendsAccepted)
<1>1. RowanInv => BufferStable /\ WindowKept /\ SendsAccepted
  BY QueueRoom DEF RowanInv, IInv, SendsAccepted
<1> QED
  BY <1>1, RowanInvariance, PTL
=============================================================================
