-------------------------- MODULE RowanServerProof --------------------------
(***************************************************************************)
(* The safety of RowanServer for every number of segments, WQEs, strides   *)
(* and writes under way: IInv of RowanServer is inductive (one lemma per   *)
(* action) and implies the properties.                                     *)
(***************************************************************************)
EXTENDS RowanServer, SharedLemmas

\* Positions number the segments from head on; the next segment is at 1.
LEMMA PosFacts ==
  ASSUME TypeOK
  PROVE  /\ \A s \in Segment : Pos(s) \in 0 .. SrqBufferCnt - 1
         /\ \A s \in Segment : Pos(s) = 0 <=> s = head
         /\ \A s, t \in Segment : Pos(s) = Pos(t) => s = t
         /\ NextSegment(head) \in Segment /\ Pos(NextSegment(head)) = 1
<1>1. head \in 0 .. SrqBufferCnt - 1 /\ SrqBufferCnt \in Nat \ {0, 1}
  BY SizesAssumption DEF TypeOK, Segment
<1>2. NextSegment(head) = IF head + 1 = SrqBufferCnt THEN 0 ELSE head + 1
  BY <1>1, NextMod DEF NextSegment
<1> QED
  BY <1>1, <1>2 DEF Pos, Dist, Segment

\* The oldest WQE is a WQE.
LEMMA OldestType == TypeOK => oldest \in Wqe
<1>1. TypeOK => mlx5_srq_head \in Wqe
  BY DEF TypeOK
<1> QED
  BY <1>1, SizesAssumption DEF oldest, Wqe

\* Lags number the WQEs from the oldest on; the successor of a WQE has the next
\* lag, but for the last one, whose successor is the oldest.
LEMMA LagFacts ==
  ASSUME TypeOK
  PROVE  /\ \A w \in Wqe : Lag(w) \in 0 .. WqeCnt - 1
         /\ \A v, w \in Wqe : Lag(v) = Lag(w) => v = w
         /\ \A w \in Wqe : NextIndex(w) \in Wqe
         /\ \A w \in Wqe : Lag(NextIndex(w)) =
              IF Lag(w) = WqeCnt - 1 THEN 0 ELSE Lag(w) + 1
<1>1. oldest \in 0 .. WqeCnt - 1 /\ WqeCnt \in Nat \ {0}
  BY OldestType, SizesAssumption DEF Wqe
<1>2. \A w \in 0 .. WqeCnt - 1 :
        /\ NextIndex(w) = IF w + 1 = WqeCnt THEN 0 ELSE w + 1
        /\ NextIndex(w) \in Wqe
  BY <1>1, NextMod DEF NextIndex, Wqe
<1> QED
  BY <1>1, <1>2 DEF Lag, Dist, Wqe

\* Initially nothing is posted and all WQEs are free.
LEMMA InitIInv == Init => IInv
<1>1. SUFFICES ASSUME Init PROVE IInv
  OBVIOUS
<1>2. TypeOK
  BY <1>1, SizesAssumption, NextMod DEF Init, InitSrq, TypeOK, Segment, Wqe, NextIndex, kFree, NoSeg
<1>3. posted = 0 /\ opened = 0 /\ oldest = 0
  BY <1>1 DEF Init, InitSrq, posted, opened, oldest, InitPc
<1>4. LoopInv
  BY <1>1, SizesAssumption DEF Init, InitSrq, LoopInv
<1>5. RingInv
  <2>1. \A w \in Wqe : Lag(w) = w
    BY <1>3 DEF Lag, Dist, Wqe
  <2>2. srqHead = 0 /\ srqTail = WqeCnt - 1 /\ srqHead \in Wqe /\ srqTail \in Wqe
    BY <1>1, SizesAssumption DEF Init, InitSrq, Wqe
  <2>3. pc \notin {"clear", "post"} /\ \A w \in Wqe : nextWqe[w] = NextIndex(w)
    BY <1>1 DEF Init, InitSrq
  <2> QED
    BY <2>1, <2>2, <2>3, <1>3 DEF RingInv, Wqe
<1>6. NicInv
  BY <1>1, <1>3, SizesAssumption DEF Init, InitSrq, NicInv, Lag, Dist, RecyclePc
<1>7. DmaInv /\ FlagInv
  BY <1>1 DEF Init, InitSrq, DmaInv, FlagInv, Segment
<1> QED
  BY <1>2, <1>4, <1>5, <1>6, <1>7 DEF IInv

\* A step of the NIC moves neither ring: posted, positions and lags stay.
LEMMA SameFrame ==
  ASSUME pc' = pc, k' = k, head' = head, mlx5_srq_head' = mlx5_srq_head
  PROVE  /\ posted' = posted /\ oldest' = oldest
         /\ \A s \in Segment : Pos(s)' = Pos(s)
         /\ \A w \in Wqe : Lag(w)' = Lag(w)
BY DEF posted, oldest, InitPc, Pos, Lag, Dist, Segment, Wqe

\* The numbers of posted and of opened segments are bounded by the ring.
LEMMA Counts ==
  ASSUME IInv
  PROVE  /\ posted \in 0 .. SrqBufferCnt
         /\ opened = posted - nicAvail
         /\ opened \in 0 .. posted
         /\ nicAvail \in 0 .. SrqBufferCnt
         /\ SrqBufferCnt \in Nat /\ WqeCnt \in Nat /\ WqeCnt > SrqBufferCnt
<1>1. k \in 0 .. SrqBufferCnt /\ nicAvail \in 0 .. SrqBufferCnt /\ opened >= 0
  BY DEF IInv, TypeOK, NicInv
<1>2. SrqBufferCnt \in Nat /\ WqeCnt \in Nat /\ WqeCnt > SrqBufferCnt
  BY SizesAssumption
<1>3. posted \in 0 .. SrqBufferCnt
  BY <1>1, <1>2 DEF posted
<1> QED
  BY <1>1, <1>2, <1>3 DEF opened

\* Placing a message preserves the type of every variable.
LEMMA PlaceType ==
  ASSUME IInv, NEW m \in Message, Place(m)
  PROVE  TypeOK'
<1>1. TypeOK /\ NicInv
  BY DEF IInv
<1>2. m.size \in 1 .. NumStrides /\ nicOff \in 0 .. NumStrides
  BY <1>1, MessageAssumption DEF TypeOK
<1>3. CASE PlaceInOpen(m)
  <2>1. nicSeg \in Segment /\ nicOff + m.size <= NumStrides
    BY <1>1, <1>3 DEF PlaceInOpen, Fits, TypeOK
  <2>2. [seg |-> nicSeg, off |-> nicOff, msg |-> m] \in Write
    BY <1>2, <2>1, SizesAssumption DEF Write
  <2>3. dma' \in Seq(Write)
    BY <1>1, <1>3, <2>2 DEF PlaceInOpen, TypeOK
  <2>4. nicOff' \in 0 .. NumStrides
    BY <1>2, <1>3, <2>1, SizesAssumption DEF PlaceInOpen
  <2> QED
    BY <1>1, <1>3, <2>3, <2>4 DEF PlaceInOpen, TypeOK, threadVars, srqVars, memVars
<1>4. CASE PlaceInNext(m)
  <2>1. Lag(nicNext) < posted /\ wqeBuf[nicNext] \in Segment
    <3>1. nicNext \in Wqe /\ nicAvail > 0 /\ Lag(nicNext) = opened
      BY <1>1, <1>4 DEF NicInv, PlaceInNext, TypeOK
    <3>2. Lag(nicNext) < posted
      BY <3>1, Counts
    <3> QED
      BY <3>1, <3>2 DEF IInv, RingInv
  <2>2. [seg |-> wqeBuf[nicNext], off |-> 0, msg |-> m] \in Write
    BY <2>1, SizesAssumption DEF Write
  <2>3. dma' \in Seq(Write)
    BY <1>1, <1>4, <2>2 DEF PlaceInNext, TypeOK
  <2>4. nicOff' \in 0 .. NumStrides /\ nicAvail' \in 0 .. SrqBufferCnt
    BY <1>1, <1>2, <1>4, SizesAssumption DEF PlaceInNext, TypeOK
  <2>5. nicNext' \in Wqe
    BY <1>1, <1>4 DEF PlaceInNext, TypeOK
  <2> QED
    BY <1>1, <1>4, <2>1, <2>3, <2>4, <2>5
    DEF PlaceInNext, TypeOK, threadVars, srqVars, memVars
<1> QED
  BY <1>3, <1>4 DEF Place

\* So does a write that reaches memory.
LEMMA DmaType ==
  ASSUME TypeOK
  PROVE  /\ Len(dma) \in Nat
         /\ \A i \in 1 .. Len(dma) :
              dma[i] \in Write /\ dma[i].seg \in Segment /\ dma[i].off \in Nat
<1>1. dma \in Seq(Write) /\ NumStrides \in Nat
  BY SizesAssumption DEF TypeOK
<1>2. Len(dma) \in Nat /\ \A i \in 1 .. Len(dma) : dma[i] \in Write
  BY <1>1
<1>3. \A x \in Write : x.seg \in Segment /\ x.off \in Nat
  BY <1>1 DEF Write
<1> QED
  BY <1>2, <1>3

\* Where a write under way ends.
LEMMA WriteEnd ==
  ASSUME TypeOK, NEW i \in 1 .. Len(dma)
  PROVE  /\ dma[i].msg.size \in Nat /\ End(dma[i]) \in Nat
         /\ dma[i].off < End(dma[i])
<1>1. dma[i].msg \in Message /\ dma[i].off \in Nat
  <2>1. dma[i] \in Write /\ dma[i].off \in Nat
    BY DmaType
  <2> QED
    BY <2>1 DEF Write
<1>2. dma[i].msg.size \in 1 .. NumStrides
  BY <1>1, MessageAssumption
<1> QED
  BY <1>1, <1>2, SizesAssumption DEF End

LEMMA ExtentEnd ==
  ASSUME TypeOK, NEW i \in 1 .. Len(dma)
  PROVE  \A x \in Extent(dma[i]) : x \in Nat /\ dma[i].off <= x /\ x < End(dma[i])
<1>1. dma[i].off \in Nat /\ dma[i].msg.size \in Nat
  BY DmaType, WriteEnd
<1> QED
  BY <1>1 DEF Extent, End

\* The elements of a sequence with one more at its end.
LEMMA AppendFacts ==
  ASSUME NEW S, NEW q \in Seq(S), NEW e \in S
  PROVE  /\ Len(Append(q, e)) = Len(q) + 1 /\ Len(q) \in Nat
         /\ \A i \in 1 .. Len(q) : Append(q, e)[i] = q[i]
         /\ Append(q, e)[Len(q) + 1] = e
OBVIOUS

\* A message placed in the open segment comes behind all writes under way.
LEMMA PlaceInOpenIInv ==
  ASSUME IInv, NEW m \in Message, PlaceInOpen(m)
  PROVE  IInv'
<1> DEFINE e == [seg |-> nicSeg, off |-> nicOff, msg |-> m]
<1>1. TypeOK /\ LoopInv /\ RingInv /\ NicInv /\ DmaInv /\ FlagInv
  BY DEF IInv
<1>2. TypeOK'
  BY PlaceType DEF Place
<1>3. UNCHANGED <<threadVars, srqVars, nicAvail, nicNext, nicSeg, memVars>>
  BY DEF PlaceInOpen
<1>4. /\ posted' = posted /\ oldest' = oldest
      /\ \A s \in Segment : Pos(s)' = Pos(s)
      /\ \A w \in Wqe : Lag(w)' = Lag(w)
  BY <1>3, SameFrame DEF threadVars
<1>5. opened' = opened
  BY <1>3, <1>4 DEF opened
<1>6. /\ nicSeg \in Segment /\ nicOff' = nicOff + m.size
      /\ dma' = Append(dma, e)
  BY <1>1 DEF PlaceInOpen, Fits, TypeOK
<1>7. nicOff \in Nat /\ m.size \in Nat /\ m.size > 0
  BY <1>1, MessageAssumption, SizesAssumption DEF TypeOK
<1>8. opened > 0 /\ Pos(nicSeg) = opened - 1 /\ nicOff > 0
  <2>1. nicSeg # NoSeg
    BY DEF PlaceInOpen, Fits
  <2> QED
    BY <1>1, <2>1, Counts DEF NicInv
<1>9. LoopInv'
  BY <1>1, <1>3 DEF LoopInv, threadVars
<1>10. RingInv'
  BY <1>1, <1>3, <1>4 DEF RingInv, TypeOK, threadVars, srqVars
<1>11. NicInv'
  BY <1>1, <1>3, <1>4, <1>5, <1>6, <1>7, <1>8 DEF NicInv, TypeOK, threadVars
<1>12. /\ Len(dma) \in Nat /\ Len(dma') = Len(dma) + 1
       /\ \A i \in 1 .. Len(dma) : dma'[i] = dma[i] /\ dma[i].seg \in Segment /\ dma[i].off \in Nat
       /\ dma'[Len(dma) + 1] = e
  <2>1. e \in Write /\ dma \in Seq(Write)
    BY <1>1, <1>6, <1>7, SizesAssumption DEF TypeOK, Write, PlaceInOpen, Fits
  <2> QED
    BY <1>1, <1>6, <2>1, AppendFacts, DmaType
<1>13. DmaInv'
  <2>1. \A i \in 1 .. Len(dma') :
          i \in 1 .. Len(dma) \/ (i = Len(dma) + 1 /\ dma'[i] = e)
    BY <1>12
  <2>2. e.seg = nicSeg /\ e.off = nicOff
    OBVIOUS
  <2> HIDE DEF e
  <2>3. \A i \in 1 .. Len(dma) :
          /\ Pos(dma[i].seg) < opened
          /\ dma[i].seg = nicSeg => dma[i].off < nicOff
          /\ pc \in RecyclePc => Pos(dma[i].seg) > 0
          /\ Pos(dma[i].seg) <= opened - 1
    BY <1>1, <1>12, PosFacts, Counts, SMTT(30) DEF DmaInv
  <2>4. pc \in RecyclePc => Pos(nicSeg) > 0
    BY <1>1, <1>8, Counts DEF NicInv
  <2>5. head' = head /\ pc' = pc
    BY <1>3 DEF threadVars
  <2>6. \A i \in 1 .. Len(dma') :
          /\ Pos(dma'[i].seg) < opened
          /\ dma'[i].seg = nicSeg => dma'[i].off < nicOff + m.size
          /\ pc \in RecyclePc => Pos(dma'[i].seg) > 0
    <3> TAKE i \in 1 .. Len(dma')
    <3>1. CASE i \in 1 .. Len(dma)
      <4>1. dma'[i] = dma[i] /\ dma[i].off \in Nat
        BY <3>1, <1>12
      <4>2. dma[i].off < nicOff => dma[i].off < nicOff + m.size
        BY <4>1, <1>7
      <4> QED
        BY <3>1, <4>1, <4>2, <2>3
    <3>2. CASE dma'[i] = e
      BY <3>2, <1>7, <1>8, <2>2, <2>4, Counts
    <3> QED
      BY <3>1, <3>2, <2>1
  <2>7. \A i, j \in 1 .. Len(dma') :
          i < j => /\ Pos(dma'[i].seg) <= Pos(dma'[j].seg)
                   /\ dma'[i].seg = dma'[j].seg => dma'[i].off < dma'[j].off
    BY <1>1, <1>8, <1>12, <2>1, <2>2, <2>3 DEF DmaInv
  <2> QED
    BY <1>3, <1>5, <1>6, <2>5, <2>6, <2>7 DEF DmaInv, Pos
<1>14. FlagInv'
  <2>1. \A s \in Segment : firstByte[s] # kFree =>
          /\ Pos(s) < opened
          /\ \A i \in 1 .. Len(dma') :
               Pos(dma'[i].seg) >= Pos(s) /\ (dma'[i].seg = s => dma'[i].off > 0)
    <3> TAKE s \in Segment
    <3> HAVE firstByte[s] # kFree
    <3>1. Pos(s) < opened /\ Pos(s) <= opened - 1
      BY <1>1, PosFacts, Counts DEF FlagInv
    <3>2. \A i \in 1 .. Len(dma) :
            Pos(dma[i].seg) >= Pos(s) /\ (dma[i].seg = s => dma[i].off > 0)
      BY <1>1 DEF FlagInv
    <3> QED
      BY <1>8, <1>12, <3>1, <3>2
  <2> QED
    BY <1>1, <1>3, <1>5, <2>1 DEF FlagInv, Pos, threadVars, memVars
<1> QED
  BY <1>2, <1>9, <1>10, <1>11, <1>13, <1>14 DEF IInv

\* A message that opens the next segment does so at the position after the last.
LEMMA PlaceInNextIInv ==
  ASSUME IInv, NEW m \in Message, PlaceInNext(m)
  PROVE  IInv'
<1> DEFINE g == wqeBuf[nicNext]
           e == [seg |-> g, off |-> 0, msg |-> m]
<1>1. TypeOK /\ LoopInv /\ RingInv /\ NicInv /\ DmaInv /\ FlagInv
  BY DEF IInv
<1>2. TypeOK'
  BY PlaceType DEF Place
<1>3. /\ UNCHANGED <<threadVars, srqVars, memVars>>
      /\ nicAvail > 0 /\ nicAvail' = nicAvail - 1
      /\ nicSeg' = g /\ nicOff' = m.size /\ nicNext' = nextWqe[nicNext]
      /\ dma' = Append(dma, e)
  BY DEF PlaceInNext
<1>4. /\ posted' = posted /\ oldest' = oldest
      /\ \A s \in Segment : Pos(s)' = Pos(s)
      /\ \A w \in Wqe : Lag(w)' = Lag(w)
      /\ head' = head /\ pc' = pc
  BY <1>3, SameFrame DEF threadVars
<1>5. opened' = opened + 1 /\ opened < posted
  BY <1>3, <1>4, Counts DEF opened
<1>6. nicNext \in Wqe /\ Lag(nicNext) = opened
  BY <1>1 DEF TypeOK, NicInv
<1>7. g \in Segment /\ Pos(g) = opened
  BY <1>1, <1>5, <1>6 DEF RingInv
<1>8. m.size \in Nat /\ m.size > 0
  BY MessageAssumption, SizesAssumption
<1>9. LoopInv'
  BY <1>1, <1>3 DEF LoopInv, threadVars
<1>10. RingInv'
  BY <1>1, <1>3, <1>4 DEF RingInv, TypeOK, threadVars, srqVars
<1>11. NicInv'
  <2>1. nicNext' \in Wqe /\ Lag(nicNext') = opened + 1
    <3>1. nextWqe[nicNext] = NextIndex(nicNext)
      BY <1>1, <1>6 DEF RingInv
    <3>2. opened # WqeCnt - 1
      BY <1>5, Counts
    <3> QED
      BY <1>1, <1>3, <1>6, <3>1, <3>2, LagFacts
  <2>2. Lag(nicNext)' = opened'
    BY <1>4, <1>5, <2>1 DEF Lag
  <2>3. nicSeg' # NoSeg
    BY <1>3, <1>7, SizesAssumption DEF Segment, NoSeg
  <2>4. Pos(nicSeg)' = opened' - 1
    BY <1>3, <1>4, <1>5, <1>7, Counts DEF Pos
  <2>5. opened' \in Nat /\ opened' > 0 /\ (opened >= 2 => opened' >= 2)
    BY <1>5, Counts
  <2>6. pc \in RecyclePc => opened >= 2
    BY <1>1 DEF NicInv
  <2>7. nicOff' > 0
    BY <1>3, <1>8
  <2> QED
    BY <1>4, <2>2, <2>3, <2>4, <2>5, <2>6, <2>7 DEF NicInv
<1>12. /\ Len(dma) \in Nat /\ Len(dma') = Len(dma) + 1
       /\ \A i \in 1 .. Len(dma) : dma'[i] = dma[i] /\ dma[i].seg \in Segment /\ dma[i].off \in Nat
       /\ dma'[Len(dma) + 1] = e
  <2>1. e \in Write /\ dma \in Seq(Write)
    BY <1>1, <1>7, SizesAssumption DEF TypeOK, Write
  <2> QED
    BY <1>1, <1>3, <2>1, AppendFacts, DmaType
<1>13. \A i \in 1 .. Len(dma') :
         \/ i \in 1 .. Len(dma) /\ dma'[i] = dma[i]
         \/ i = Len(dma) + 1 /\ dma'[i] = e
  BY <1>12
<1>14. e.seg = g /\ e.off = 0
  OBVIOUS
<1> HIDE DEF e, g
<1>15. DmaInv'
  <2>1. \A i \in 1 .. Len(dma) :
          /\ Pos(dma[i].seg) < opened
          /\ dma[i].seg # g
          /\ pc \in RecyclePc => Pos(dma[i].seg) > 0
    BY <1>1, <1>7, <1>12, PosFacts, Counts DEF DmaInv
  <2>2. pc \in RecyclePc => opened > 0
    BY <1>1, Counts DEF NicInv
  <2>3. \A i \in 1 .. Len(dma') :
          /\ Pos(dma'[i].seg) < opened + 1
          /\ dma'[i].seg = g => dma'[i].off < m.size
          /\ pc \in RecyclePc => Pos(dma'[i].seg) > 0
    <3> TAKE i \in 1 .. Len(dma')
    <3>1. CASE i \in 1 .. Len(dma) /\ dma'[i] = dma[i]
      <4>1. Pos(dma[i].seg) < opened /\ Pos(dma[i].seg) \in 0 .. SrqBufferCnt - 1
        BY <1>1, <1>12, <2>1, <3>1, PosFacts
      <4> QED
        BY <2>1, <3>1, <4>1, Counts
    <3>2. CASE dma'[i] = e
      BY <1>7, <1>8, <1>14, <2>2, <3>2, Counts
    <3> QED
      BY <1>13, <3>1, <3>2
  <2>4. \A i, j \in 1 .. Len(dma') :
          i < j => /\ Pos(dma'[i].seg) <= Pos(dma'[j].seg)
                   /\ dma'[i].seg = dma'[j].seg => dma'[i].off < dma'[j].off
    <3>1. \A i, j \in 1 .. Len(dma) :
            i < j => /\ Pos(dma[i].seg) <= Pos(dma[j].seg)
                     /\ dma[i].seg = dma[j].seg => dma[i].off < dma[j].off
      BY <1>1 DEF DmaInv
    <3>2. \A i \in 1 .. Len(dma) : Pos(dma[i].seg) <= Pos(g)
      BY <1>1, <1>7, <1>12, <2>1, PosFacts, Counts
    <3> QED
      BY <1>12, <1>13, <1>14, <2>1, <3>1, <3>2
  <2> QED
    BY <1>3, <1>4, <1>5, <2>3, <2>4 DEF DmaInv, Pos
<1>16. FlagInv'
  <2>1. \A s \in Segment : firstByte[s] # kFree =>
          /\ Pos(s) < opened + 1
          /\ \A i \in 1 .. Len(dma') :
               Pos(dma'[i].seg) >= Pos(s) /\ (dma'[i].seg = s => dma'[i].off > 0)
    <3> TAKE s \in Segment
    <3> HAVE firstByte[s] # kFree
    <3>1. Pos(s) < opened /\ Pos(s) <= opened /\ Pos(s) < opened + 1
      BY <1>1, PosFacts, Counts DEF FlagInv
    <3>2. \A i \in 1 .. Len(dma) :
            Pos(dma[i].seg) >= Pos(s) /\ (dma[i].seg = s => dma[i].off > 0)
      BY <1>1 DEF FlagInv
    <3>3. g # s
      BY <1>7, <3>1, Counts
    <3> QED
      BY <1>7, <1>13, <1>14, <3>1, <3>2, <3>3
  <2> QED
    BY <1>1, <1>3, <1>4, <1>5, <2>1 DEF FlagInv, Pos, memVars
<1> QED
  BY <1>2, <1>9, <1>10, <1>11, <1>15, <1>16 DEF IInv

\* The elements of a sequence without its first.
LEMMA TailFacts ==
  ASSUME NEW S, NEW q \in Seq(S), q # << >>
  PROVE  /\ Len(q) \in Nat /\ Len(q) > 0
         /\ Head(q) = q[1] /\ q[1] \in S
         /\ Tail(q) \in Seq(S) /\ Len(Tail(q)) = Len(q) - 1
         /\ \A i \in 1 .. Len(Tail(q)) : i + 1 \in 1 .. Len(q) /\ Tail(q)[i] = q[i + 1]
OBVIOUS

\* The oldest write reaches memory: what is still under way is not older.
LEMMA DmaWriteIInv ==
  ASSUME IInv, DmaWrite
  PROVE  IInv'
<1> DEFINE e == Head(dma)
<1>1. TypeOK /\ LoopInv /\ RingInv /\ NicInv /\ DmaInv /\ FlagInv
  BY DEF IInv
<1>2. /\ UNCHANGED <<threadVars, srqVars, nicVars>>
      /\ dma # << >> /\ dma' = Tail(dma)
      /\ firstByte' = IF e.off = 0 THEN [firstByte EXCEPT ![e.seg] = e.msg.magic] ELSE firstByte
      /\ mem' = [mem EXCEPT ![e.seg] = Append(@, e.msg)]
  BY DEF DmaWrite
<1>3. /\ Len(dma) \in Nat /\ Len(dma) > 0 /\ e = dma[1] /\ e \in Write
      /\ dma' \in Seq(Write)
      /\ \A i \in 1 .. Len(dma') : i + 1 \in 1 .. Len(dma) /\ dma'[i] = dma[i + 1]
  BY <1>1, <1>2, TailFacts DEF TypeOK
<1>4. e.seg \in Segment /\ e.off \in Nat /\ e.msg \in Message
  BY <1>3, SizesAssumption DEF Write
<1> HIDE DEF e
<1>5. TypeOK'
  <2>1. e.msg.magic \in 0 .. 255
    BY <1>4, MessageAssumption
  <2>2. firstByte' \in [Segment -> 0 .. 255]
    BY <1>1, <1>2, <1>4, <2>1 DEF TypeOK
  <2>3. mem' \in [Segment -> Seq(Message)]
    BY <1>1, <1>2, <1>4 DEF TypeOK
  <2>4. kept' \in [Segment -> SUBSET Nat]
    <3>1. e.msg.size \in Nat
      BY <1>4, MessageAssumption, SizesAssumption
    <3>2. Extent(e) \subseteq Nat
      BY <1>4, <3>1 DEF Extent
    <3>3. kept' = [kept EXCEPT ![e.seg] = @ \cup Extent(e)]
      BY DEF DmaWrite, e
    <3> QED
      BY <1>1, <1>4, <3>2, <3>3 DEF TypeOK
  <2> QED
    BY <1>1, <1>2, <1>3, <2>2, <2>3, <2>4 DEF TypeOK, threadVars, srqVars, nicVars
<1>6. /\ posted' = posted /\ oldest' = oldest /\ opened' = opened
      /\ \A s \in Segment : Pos(s)' = Pos(s)
      /\ \A w \in Wqe : Lag(w)' = Lag(w)
      /\ head' = head /\ pc' = pc
  BY <1>2, SameFrame DEF threadVars, nicVars, opened
<1>7. LoopInv' /\ RingInv' /\ NicInv'
  <2>1. LoopInv'
    BY <1>1, <1>2 DEF LoopInv, threadVars
  <2>2. RingInv'
    BY <1>1, <1>2, <1>6 DEF RingInv, TypeOK, threadVars, srqVars
  <2>3. NicInv'
    BY <1>1, <1>2, <1>6 DEF NicInv, nicVars, Lag, Pos
  <2> QED
    BY <2>1, <2>2, <2>3
<1>8. DmaInv'
  <2>1. \A i \in 1 .. Len(dma') :
          /\ Pos(dma'[i].seg) < opened
          /\ dma'[i].seg = nicSeg => dma'[i].off < nicOff
          /\ pc \in RecyclePc => Pos(dma'[i].seg) > 0
    BY <1>1, <1>3 DEF DmaInv
  <2>2. \A i, j \in 1 .. Len(dma') :
          i < j => /\ Pos(dma'[i].seg) <= Pos(dma'[j].seg)
                   /\ dma'[i].seg = dma'[j].seg => dma'[i].off < dma'[j].off
    <3> TAKE i, j \in 1 .. Len(dma')
    <3> HAVE i < j
    <3>1. i + 1 < j + 1 /\ i + 1 \in 1 .. Len(dma) /\ j + 1 \in 1 .. Len(dma)
      BY <1>3
    <3>2. dma'[i] = dma[i + 1] /\ dma'[j] = dma[j + 1]
      BY <1>3
    <3> QED
      BY <1>1, <3>1, <3>2 DEF DmaInv
  <2> QED
    BY <1>2, <1>6, <2>1, <2>2 DEF DmaInv, Pos, nicVars
<1>9. FlagInv'
  <2>1. \A i \in 1 .. Len(dma') :
          Pos(dma'[i].seg) >= Pos(e.seg) /\ (dma'[i].seg = e.seg => dma'[i].off > e.off)
    <3> TAKE i \in 1 .. Len(dma')
    <3>1. 1 < i + 1 /\ 1 \in 1 .. Len(dma) /\ i + 1 \in 1 .. Len(dma) /\ dma'[i] = dma[i + 1]
      BY <1>3
    <3>2. Pos(e.seg) <= Pos(dma'[i].seg) /\ (dma'[i].seg = e.seg => e.off < dma'[i].off)
      BY <1>1, <1>3, <3>1 DEF DmaInv
    <3> QED
      BY <3>2
  <2>2. Pos(e.seg) < opened /\ (pc \in RecyclePc => Pos(e.seg) > 0)
    BY <1>1, <1>3 DEF DmaInv
  <2>3. \A s \in Segment : firstByte'[s] # kFree =>
          /\ Pos(s) < opened
          /\ \A i \in 1 .. Len(dma') :
               Pos(dma'[i].seg) >= Pos(s) /\ (dma'[i].seg = s => dma'[i].off > 0)
    <3> TAKE s \in Segment
    <3> HAVE firstByte'[s] # kFree
    <3>1. CASE e.off = 0 /\ s = e.seg
      BY <2>1, <2>2, <3>1
    <3>2. CASE ~(e.off = 0 /\ s = e.seg)
      <4>1. firstByte[s] # kFree
        BY <1>1, <1>2, <1>4, <3>2 DEF TypeOK
      <4> QED
        BY <1>1, <1>3, <4>1 DEF FlagInv
    <3> QED
      BY <3>1, <3>2
  <2>4. pc = "post" => firstByte'[head] = kFree
    <3>1. pc = "post" => e.seg # head
      BY <1>1, <1>4, <2>2, PosFacts DEF RecyclePc
    <3> QED
      BY <1>1, <1>2, <1>4, <3>1 DEF FlagInv, TypeOK
  <2> QED
    BY <1>2, <1>6, <2>3, <2>4 DEF FlagInv, Pos
<1> QED
  BY <1>5, <1>7, <1>8, <1>9 DEF IInv

\* A ring of more WQEs than segments is not full when fewer than all segments
\* are posted.
LEMMA NotFull ==
  ASSUME IInv, pc \in PostPc
  PROVE  ~SrqFull
<1>1. pc = "init_post" => posted = k /\ k < SrqBufferCnt
  BY DEF IInv, LoopInv, posted, InitPc
<1>2. pc = "post" => posted = SrqBufferCnt
  BY DEF posted, InitPc
<1>3. /\ Lag(srqHead) = posted
      /\ Lag(srqTail) = IF pc \in {"clear", "post"} THEN 0 ELSE WqeCnt - 1
  BY DEF IInv, RingInv
<1>4. Lag(srqHead) # Lag(srqTail)
  BY <1>1, <1>2, <1>3, Counts, SizesAssumption DEF PostPc
<1> QED
  BY <1>4 DEF SrqFull

\* Clearing a segment makes no other segment free or used.
LEMMA ClearFacts ==
  ASSUME TypeOK, NEW s \in Segment, ClearSegment(s)
  PROVE  /\ firstByte' \in [Segment -> 0 .. 255]
         /\ mem' \in [Segment -> Seq(Message)]
         /\ kept' \in [Segment -> SUBSET Nat]
         /\ firstByte'[s] = kFree
         /\ \A t \in Segment : firstByte'[t] # kFree => firstByte[t] # kFree
BY DEF TypeOK, ClearSegment, kFree

\* The posting loop clears a segment that is not posted yet.
LEMMA InitClearIInv ==
  ASSUME IInv, InitClear
  PROVE  IInv'
<1>1. TypeOK /\ LoopInv /\ RingInv /\ NicInv /\ DmaInv /\ FlagInv
  BY DEF IInv
<1>2. /\ pc = "init_clear" /\ pc' = "init_post" /\ ClearSegment(k)
      /\ UNCHANGED <<k, head, mlx5_srq_head, srqVars, nicVars, dma>>
  BY DEF InitClear
<1>3. k \in Segment
  BY <1>1, <1>2, SizesAssumption DEF LoopInv, TypeOK, Segment, InitPc
<1>4. TypeOK'
  BY <1>1, <1>2, <1>3, ClearFacts DEF TypeOK, srqVars, nicVars
<1>5. /\ posted' = posted /\ oldest' = oldest /\ opened' = opened
      /\ \A w \in Wqe : Lag(w)' = Lag(w)
  BY <1>2 DEF posted, oldest, InitPc, opened, nicVars, Lag
<1>6. LoopInv'
  BY <1>1, <1>2 DEF LoopInv, InitPc
<1>7. RingInv'
  BY <1>1, <1>2, <1>5 DEF RingInv, TypeOK, srqVars, Lag, Pos
<1>8. NicInv'
  BY <1>1, <1>2, <1>5 DEF NicInv, nicVars, Lag, Pos, RecyclePc
<1>9. DmaInv'
  BY <1>1, <1>2, <1>5 DEF DmaInv, nicVars, Pos, RecyclePc
<1>10. FlagInv'
  BY <1>1, <1>2, <1>3, <1>5, ClearFacts DEF FlagInv, Pos
<1> QED
  BY <1>4, <1>6, <1>7, <1>8, <1>9, <1>10 DEF IInv

\* The crux: a used next segment was opened, and its first write has reached
\* memory, after which no older write is under way, so the oldest one is done.
LEMMA PollUsedIInv ==
  ASSUME IInv, PollUsed
  PROVE  IInv'
<1>1. TypeOK /\ LoopInv /\ RingInv /\ NicInv /\ DmaInv /\ FlagInv
  BY DEF IInv
<1>2. /\ pc = "poll" /\ pc' = "free" /\ firstByte[NextSegment(head)] # kFree
      /\ UNCHANGED <<k, head, mlx5_srq_head, srqVars, nicVars, dma, memVars>>
  BY DEF PollUsed
<1>3. /\ posted' = posted /\ oldest' = oldest /\ opened' = opened
      /\ \A w \in Wqe : Lag(w)' = Lag(w)
  BY <1>2 DEF posted, oldest, InitPc, opened, nicVars, Lag
<1>4. /\ opened >= 2
      /\ \A i \in 1 .. Len(dma) : Pos(dma[i].seg) > 0
  <2>1. NextSegment(head) \in Segment /\ Pos(NextSegment(head)) = 1
    BY <1>1, PosFacts
  <2>2. 1 < opened /\ \A i \in 1 .. Len(dma) : Pos(dma[i].seg) >= 1
    BY <1>1, <1>2, <2>1 DEF FlagInv
  <2>3. \A i \in 1 .. Len(dma) : Pos(dma[i].seg) \in Int
    BY <1>1, DmaType, PosFacts, SizesAssumption
  <2> QED
    BY <2>2, <2>3, Counts
<1>5. TypeOK'
  BY <1>1, <1>2 DEF TypeOK, srqVars, nicVars, memVars
<1>6. LoopInv'
  BY <1>2 DEF LoopInv, InitPc
<1>7. RingInv'
  BY <1>1, <1>2, <1>3 DEF RingInv, TypeOK, srqVars, Lag, Pos
<1>8. NicInv'
  BY <1>1, <1>2, <1>3, <1>4 DEF NicInv, nicVars, Lag, Pos
<1>9. DmaInv'
  BY <1>1, <1>2, <1>3, <1>4 DEF DmaInv, nicVars, Pos
<1>10. FlagInv'
  BY <1>1, <1>2, <1>3 DEF FlagInv, Pos, memVars
<1> QED
  BY <1>5, <1>6, <1>7, <1>8, <1>9, <1>10 DEF IInv

\* Linking the oldest WQE behind the free ones makes the next WQE the oldest.
LEMMA FreeWqeIInv ==
  ASSUME IInv, FreeWqe
  PROVE  IInv'
<1>1. TypeOK /\ LoopInv /\ RingInv /\ NicInv /\ DmaInv /\ FlagInv
  BY DEF IInv
<1>2. /\ pc = "free" /\ pc' = "clear"
      /\ nextWqe' = [nextWqe EXCEPT ![srqTail] = mlx5_srq_head]
      /\ srqTail' = mlx5_srq_head
      /\ mlx5_srq_head' = NextIndex(mlx5_srq_head)
      /\ UNCHANGED <<k, head, srqHead, wqeBuf, nicVars, dma, memVars>>
  BY DEF FreeWqe, FreeSrqWqe
<1>3. /\ oldest = mlx5_srq_head /\ mlx5_srq_head \in Wqe
      /\ NextIndex(mlx5_srq_head) \in Wqe /\ srqTail \in Wqe
  BY <1>1, <1>2, LagFacts DEF oldest, TypeOK
<1>4. NextIndex(mlx5_srq_head) =
        IF mlx5_srq_head = WqeCnt - 1 THEN 0 ELSE mlx5_srq_head + 1
  BY <1>3, NextMod, SizesAssumption DEF NextIndex, Wqe
<1>5. /\ posted' = posted /\ opened' = opened /\ oldest' = oldest
      /\ \A w \in Wqe : Lag(w)' = Lag(w)
  <2>1. posted' = posted /\ opened' = opened
    BY <1>2 DEF posted, opened, InitPc, nicVars
  <2>2. oldest' = IF mlx5_srq_head' = 0 THEN WqeCnt - 1 ELSE mlx5_srq_head' - 1
    BY <1>2 DEF oldest
  <2>3. oldest' = oldest
    BY <1>2, <1>3, <1>4, <2>2, SizesAssumption DEF Wqe
  <2> QED
    BY <2>1, <2>3 DEF Lag
<1>6. NextIndex(srqTail) = mlx5_srq_head
  <2>1. Lag(srqTail) = WqeCnt - 1
    BY <1>1, <1>2 DEF RingInv
  <2>2. Lag(NextIndex(srqTail)) = 0 /\ NextIndex(srqTail) \in Wqe
    BY <1>1, <1>3, <2>1, LagFacts
  <2>3. Lag(mlx5_srq_head) = 0
    BY <1>3, SizesAssumption DEF Lag, Dist, Wqe
  <2> QED
    BY <1>1, <1>3, <2>2, <2>3, LagFacts
<1>7. nextWqe' = nextWqe
  BY <1>1, <1>2, <1>3, <1>6 DEF RingInv, TypeOK
<1>8. TypeOK'
  BY <1>1, <1>2, <1>3, <1>7 DEF TypeOK, nicVars, memVars
<1>9. LoopInv'
  BY <1>2 DEF LoopInv, InitPc
<1>10. RingInv'
  <2>1. Lag(srqTail)' = 0
    BY <1>2, <1>3, <1>5, SizesAssumption DEF Lag, Dist, Wqe
  <2>2. Lag(srqHead)' = posted'
    BY <1>1, <1>2, <1>5 DEF RingInv, Lag
  <2>3. \A w \in Wqe : Lag(w)' < posted' => wqeBuf'[w] \in Segment /\ Pos(wqeBuf[w])' = Lag(w)'
    BY <1>1, <1>2, <1>5 DEF RingInv, Pos
  <2> QED
    BY <1>1, <1>2, <1>7, <2>1, <2>2, <2>3 DEF RingInv
<1>11. NicInv'
  BY <1>1, <1>2, <1>5 DEF NicInv, nicVars, Lag, Pos, RecyclePc
<1>12. DmaInv'
  BY <1>1, <1>2, <1>5 DEF DmaInv, nicVars, Pos, RecyclePc
<1>13. FlagInv'
  BY <1>1, <1>2, <1>5 DEF FlagInv, Pos, memVars
<1> QED
  BY <1>8, <1>9, <1>10, <1>11, <1>12, <1>13 DEF IInv

\* The oldest segment is cleared while it is quiescent.
LEMMA ClearIInv ==
  ASSUME IInv, Clear
  PROVE  IInv'
<1>1. TypeOK /\ LoopInv /\ RingInv /\ NicInv /\ DmaInv /\ FlagInv
  BY DEF IInv
<1>2. /\ pc = "clear" /\ pc' = "post" /\ ClearSegment(head) /\ head \in Segment
      /\ UNCHANGED <<k, head, mlx5_srq_head, srqVars, nicVars, dma>>
  BY <1>1 DEF Clear, TypeOK
<1>3. TypeOK'
  BY <1>1, <1>2, ClearFacts DEF TypeOK, srqVars, nicVars
<1>4. /\ posted' = posted /\ oldest' = oldest /\ opened' = opened
      /\ \A w \in Wqe : Lag(w)' = Lag(w)
  BY <1>2 DEF posted, oldest, InitPc, opened, nicVars, Lag
<1>5. LoopInv'
  BY <1>2 DEF LoopInv, InitPc
<1>6. RingInv'
  BY <1>1, <1>2, <1>4 DEF RingInv, TypeOK, srqVars, Lag, Pos
<1>7. NicInv'
  BY <1>1, <1>2, <1>4 DEF NicInv, nicVars, Lag, Pos, RecyclePc
<1>8. DmaInv'
  BY <1>1, <1>2, <1>4 DEF DmaInv, nicVars, Pos, RecyclePc
<1>9. FlagInv'
  BY <1>1, <1>2, <1>4, ClearFacts DEF FlagInv, Pos
<1> QED
  BY <1>3, <1>5, <1>6, <1>7, <1>8, <1>9 DEF IInv

\* What an accepted post does to the queue, for the segment seg.
LEMMA PostFacts ==
  ASSUME IInv, pc \in PostPc, NEW seg \in Segment, PostSrqRecv(seg)
  PROVE  /\ nicAvail' = nicAvail + 1
         /\ srqHead \in Wqe /\ srqHead' \in Wqe
         /\ Lag(srqHead) = posted
         /\ Lag(srqHead') = IF posted = WqeCnt - 1 THEN 0 ELSE posted + 1
         /\ wqeBuf' \in [Wqe -> Segment \cup {NoSeg}]
         /\ wqeBuf'[srqHead] = seg
         /\ \A w \in Wqe : w # srqHead => wqeBuf'[w] = wqeBuf[w]
<1>1. TypeOK /\ RingInv
  BY DEF IInv
<1>2. /\ wqeBuf' = [wqeBuf EXCEPT ![srqHead] = seg]
      /\ srqHead' = nextWqe[srqHead]
      /\ nicAvail' = nicAvail + 1
  BY NotFull DEF PostSrqRecv
<1>3. srqHead \in Wqe /\ Lag(srqHead) = posted /\ nextWqe[srqHead] = NextIndex(srqHead)
  BY <1>1 DEF TypeOK, RingInv
<1> QED
  BY <1>1, <1>2, <1>3, LagFacts DEF TypeOK

\* The posting loop appends segment k to the posted ones.
LEMMA InitPostIInv ==
  ASSUME IInv, InitPost
  PROVE  IInv'
<1>1. TypeOK /\ LoopInv /\ RingInv /\ NicInv /\ DmaInv /\ FlagInv
  BY DEF IInv
<1>2. /\ pc = "init_post" /\ PostSrqRecv(k) /\ k' = k + 1
      /\ pc' = IF k + 1 < SrqBufferCnt THEN "init_clear" ELSE "poll"
      /\ UNCHANGED <<head, mlx5_srq_head, srqTail, nextWqe,
                     nicNext, nicSeg, nicOff, dma, memVars>>
  BY DEF InitPost
<1>3. /\ k \in 0 .. SrqBufferCnt - 1 /\ k \in Segment
      /\ head = 0 /\ mlx5_srq_head = 0 /\ posted = k
  BY <1>1, <1>2, SizesAssumption DEF LoopInv, TypeOK, Segment, InitPc, posted
<1>4. /\ nicAvail' = nicAvail + 1
      /\ srqHead \in Wqe /\ srqHead' \in Wqe
      /\ Lag(srqHead) = posted /\ Lag(srqHead') = posted + 1
      /\ wqeBuf' \in [Wqe -> Segment \cup {NoSeg}]
      /\ wqeBuf'[srqHead] = k
      /\ \A w \in Wqe : w # srqHead => wqeBuf'[w] = wqeBuf[w]
  <2>1. posted # WqeCnt - 1
    BY <1>3, Counts
  <2> QED
    BY <1>2, <1>3, <2>1, PostFacts DEF PostPc
<1>5. posted' = posted + 1
  <2>1. posted' = IF k + 1 < SrqBufferCnt THEN k + 1 ELSE SrqBufferCnt
    BY <1>2 DEF posted, InitPc
  <2> QED
    BY <1>3, <2>1, SizesAssumption
<1>6. /\ opened' = opened /\ oldest' = oldest
      /\ \A w \in Wqe : Lag(w)' = Lag(w)
  <2>1. opened' = opened
    BY <1>4, <1>5, Counts DEF opened
  <2>2. oldest' = oldest
    BY <1>2 DEF oldest
  <2> QED
    BY <2>1, <2>2 DEF Lag
<1>7. TypeOK'
  <2>1. k' \in 0 .. SrqBufferCnt
    BY <1>2, <1>3, SizesAssumption
  <2>2. nicAvail' \in 0 .. SrqBufferCnt
    BY <1>3, <1>4, Counts
  <2>3. pc' \in {"init_clear", "init_post", "poll", "free", "clear", "post"}
    BY <1>2
  <2> QED
    BY <1>1, <1>2, <1>4, <2>1, <2>2, <2>3 DEF TypeOK, memVars
<1>8. LoopInv'
  BY <1>2, <1>3 DEF LoopInv, InitPc
<1>9. RingInv'
  <2>1. Lag(srqHead)' = posted' /\ Lag(srqTail)' = WqeCnt - 1
    BY <1>1, <1>2, <1>4, <1>5, <1>6 DEF RingInv, Lag, TypeOK
  <2>2. Pos(k) = posted
    BY <1>3 DEF Pos, Dist
  <2>3. \A w \in Wqe : Lag(w) < posted + 1 => wqeBuf'[w] \in Segment /\ Pos(wqeBuf'[w]) = Lag(w)
    <3> TAKE w \in Wqe
    <3> HAVE Lag(w) < posted + 1
    <3>1. CASE w = srqHead
      BY <1>3, <1>4, <2>2, <3>1
    <3>2. CASE w # srqHead
      <4>1. Lag(w) # posted
        BY <1>1, <1>4, <3>2, LagFacts
      <4>2. Lag(w) \in Int
        BY <1>1, LagFacts, SizesAssumption
      <4>3. Lag(w) < posted
        BY <4>1, <4>2, Counts
      <4> QED
        BY <1>1, <1>4, <3>2, <4>3 DEF RingInv
    <3> QED
      BY <3>1, <3>2
  <2> QED
    BY <1>1, <1>2, <1>5, <1>6, <2>1, <2>3 DEF RingInv, Pos
<1>10. NicInv'
  BY <1>1, <1>2, <1>6 DEF NicInv, Lag, Pos, RecyclePc
<1>11. DmaInv'
  BY <1>1, <1>2, <1>6 DEF DmaInv, Pos, RecyclePc
<1>12. FlagInv'
  BY <1>1, <1>2, <1>6 DEF FlagInv, Pos, memVars
<1> QED
  BY <1>7, <1>8, <1>9, <1>10, <1>11, <1>12 DEF IInv

\* Reposting the oldest segment makes it the newest: all others move up by one.
LEMMA RepostIInv ==
  ASSUME IInv, Repost
  PROVE  IInv'
<1>1. TypeOK /\ LoopInv /\ RingInv /\ NicInv /\ DmaInv /\ FlagInv
  BY DEF IInv
<1>2. /\ pc = "post" /\ pc' = "poll" /\ PostSrqRecv(head) /\ head' = NextSegment(head)
      /\ UNCHANGED <<k, mlx5_srq_head, srqTail, nextWqe,
                     nicNext, nicSeg, nicOff, dma, memVars>>
  BY DEF Repost
<1>3. /\ head \in Segment /\ posted = SrqBufferCnt /\ opened >= 2
      /\ opened = SrqBufferCnt - nicAvail
  BY <1>1, <1>2 DEF TypeOK, NicInv, RecyclePc, posted, InitPc, opened
<1>4. /\ nicAvail' = nicAvail + 1
      /\ srqHead \in Wqe /\ srqHead' \in Wqe
      /\ Lag(srqHead) = SrqBufferCnt
      /\ Lag(srqHead') = IF SrqBufferCnt = WqeCnt - 1 THEN 0 ELSE SrqBufferCnt + 1
      /\ wqeBuf' \in [Wqe -> Segment \cup {NoSeg}]
      /\ wqeBuf'[srqHead] = head
      /\ \A w \in Wqe : w # srqHead => wqeBuf'[w] = wqeBuf[w]
  BY <1>2, <1>3, PostFacts DEF PostPc
<1>5. /\ oldest \in Wqe /\ \A w \in Wqe : Lag(w) = 0 <=> w = oldest
      /\ \A w \in Wqe : Lag(w)' = IF w = oldest THEN WqeCnt - 1 ELSE Lag(w) - 1
  <2>1. oldest' = mlx5_srq_head /\ mlx5_srq_head \in Wqe
    BY <1>1, <1>2 DEF oldest, TypeOK
  <2>2. oldest = IF mlx5_srq_head = 0 THEN WqeCnt - 1 ELSE mlx5_srq_head - 1
    BY <1>2 DEF oldest
  <2> QED
    BY <2>1, <2>2, SizesAssumption DEF Lag, Dist, Wqe
<1>6. \A s \in Segment : Pos(s)' = IF s = head THEN SrqBufferCnt - 1 ELSE Pos(s) - 1
  <2>1. head' = IF head = SrqBufferCnt - 1 THEN 0 ELSE head + 1
    BY <1>2, <1>3, NextMod, SizesAssumption DEF NextSegment, Segment
  <2> QED
    BY <1>3, <2>1, SizesAssumption DEF Pos, Dist, Segment
<1>7. posted' = SrqBufferCnt /\ opened' = opened - 1 /\ nicAvail \in Int
  <2>1. posted' = SrqBufferCnt
    BY <1>2 DEF posted, InitPc
  <2> QED
    BY <1>3, <1>4, <2>1, Counts DEF opened
<1>8. TypeOK'
  <2>1. nicAvail' \in 0 .. SrqBufferCnt
    BY <1>3, <1>4, Counts
  <2>2. head' \in Segment
    BY <1>1, <1>2, PosFacts
  <2> QED
    BY <1>1, <1>2, <1>4, <2>1, <2>2 DEF TypeOK, memVars
<1>9. LoopInv'
  BY <1>2 DEF LoopInv, InitPc
<1>10. RingInv'
  <2>1. Dist(WqeCnt, oldest', srqHead') = SrqBufferCnt
    BY <1>4, <1>5, SizesAssumption DEF Lag
  <2>2. Lag(srqTail)' = WqeCnt - 1
    BY <1>1, <1>2, <1>5 DEF RingInv, TypeOK, Lag
  <2>3. \A w \in Wqe : Lag(w)' < SrqBufferCnt =>
          wqeBuf'[w] \in Segment /\ Dist(SrqBufferCnt, head', wqeBuf'[w]) = Lag(w)'
    <3> TAKE w \in Wqe
    <3> HAVE Lag(w)' < SrqBufferCnt
    <3>1. Lag(w) \in 0 .. WqeCnt - 1
      BY <1>1, LagFacts
    <3>2. w # oldest /\ Lag(w)' = Lag(w) - 1 /\ Lag(w) > 0 /\ Lag(w) <= SrqBufferCnt
      BY <1>5, <3>1, SizesAssumption
    <3>3. CASE w = srqHead
      BY <1>3, <1>4, <1>6, <3>2, <3>3 DEF Pos
    <3>4. CASE w # srqHead
      <4>1. Lag(w) < SrqBufferCnt
        BY <1>1, <1>4, <3>1, <3>2, <3>4, LagFacts, SizesAssumption
      <4>2. wqeBuf[w] \in Segment /\ Pos(wqeBuf[w]) = Lag(w)
        BY <1>1, <1>3, <4>1 DEF RingInv
      <4>3. wqeBuf[w] # head
        BY <1>1, <3>2, <4>2, PosFacts
      <4> QED
        BY <1>4, <1>6, <3>2, <3>4, <4>2, <4>3 DEF Pos
    <3> QED
      BY <3>3, <3>4
  <2> QED
    BY <1>1, <1>2, <1>7, <2>1, <2>2, <2>3 DEF RingInv, Pos, Lag
<1>11. NicInv'
  <2>1. nicNext \in Wqe /\ Lag(nicNext) = opened /\ nicNext # oldest
    BY <1>1, <1>3, <1>5 DEF TypeOK, NicInv
  <2>2. nicSeg \in Segment /\ Pos(nicSeg) = opened - 1 /\ nicSeg # head /\ nicOff > 0
    BY <1>1, <1>3, Counts, PosFacts, SMTT(30) DEF TypeOK, NicInv
  <2>3. Lag(nicNext)' = opened' /\ Pos(nicSeg)' = opened' - 1
    BY <1>2, <1>5, <1>6, <1>7, <2>1, <2>2 DEF Lag, Pos
  <2>4. opened' > 0 /\ opened' \in Int
    BY <1>3, <1>7, Counts
  <2>5. nicSeg # NoSeg
    BY <2>2, SizesAssumption DEF Segment, NoSeg
  <2> QED
    BY <1>2, <2>2, <2>3, <2>4, <2>5 DEF NicInv, RecyclePc
<1>12. \A i \in 1 .. Len(dma) :
         dma[i].seg \in Segment /\ dma[i].seg # head /\ Pos(dma[i].seg)' = Pos(dma[i].seg) - 1
  <2> TAKE i \in 1 .. Len(dma)
  <2>1. dma[i].seg \in Segment /\ Pos(dma[i].seg) > 0
    BY <1>1, <1>2, DmaType DEF DmaInv, RecyclePc
  <2>2. dma[i].seg # head
    BY <1>1, <2>1, PosFacts
  <2> QED
    BY <1>2, <1>6, <2>1, <2>2 DEF Pos
<1>13. DmaInv'
  <2>1. \A i \in 1 .. Len(dma) : Dist(SrqBufferCnt, head', dma[i].seg) = Pos(dma[i].seg) - 1
    BY <1>6, <1>12 DEF Pos
  <2>2. \A i \in 1 .. Len(dma) : Pos(dma[i].seg) \in Int
    BY <1>1, <1>12, PosFacts, SizesAssumption
  <2>3. \A i \in 1 .. Len(dma) : Dist(SrqBufferCnt, head', dma[i].seg) < opened - 1
    BY <1>1, <2>1, <2>2, Counts DEF DmaInv
  <2>4. \A i, j \in 1 .. Len(dma) :
          i < j => /\ Dist(SrqBufferCnt, head', dma[i].seg) <= Dist(SrqBufferCnt, head', dma[j].seg)
                   /\ dma[i].seg = dma[j].seg => dma[i].off < dma[j].off
    BY <1>1, <2>1, <2>2 DEF DmaInv
  <2>5. pc' \notin RecyclePc
    BY <1>2 DEF RecyclePc
  <2> QED
    BY <1>1, <1>2, <1>7, <2>3, <2>4, <2>5 DEF DmaInv, Pos
<1>14. FlagInv'
  <2>1. \A s \in Segment : firstByte[s] # kFree =>
          /\ Dist(SrqBufferCnt, head', s) < opened - 1
          /\ \A i \in 1 .. Len(dma) :
               /\ Dist(SrqBufferCnt, head', dma[i].seg) >= Dist(SrqBufferCnt, head', s)
               /\ dma[i].seg = s => dma[i].off > 0
    <3> TAKE s \in Segment
    <3> HAVE firstByte[s] # kFree
    <3>1. s # head
      BY <1>1, <1>2 DEF FlagInv
    <3>2. Dist(SrqBufferCnt, head', s) = Pos(s) - 1 /\ Pos(s) \in Int
      BY <1>1, <1>6, <3>1, PosFacts, SizesAssumption DEF Pos
    <3>3. Pos(s) < opened /\ opened \in Int
      BY <1>1, Counts DEF FlagInv
    <3>4. \A i \in 1 .. Len(dma) :
            /\ Pos(dma[i].seg) \in Int /\ Dist(SrqBufferCnt, head', dma[i].seg) = Pos(dma[i].seg) - 1
            /\ Pos(dma[i].seg) >= Pos(s) /\ (dma[i].seg = s => dma[i].off > 0)
      BY <1>1, <1>6, <1>12, PosFacts, SizesAssumption DEF FlagInv, Pos
    <3> QED
      BY <3>2, <3>3, <3>4
  <2> QED
    BY <1>2, <1>7, <2>1 DEF FlagInv, Pos, memVars
<1> QED
  BY <1>8, <1>9, <1>10, <1>11, <1>13, <1>14 DEF IInv

-----------------------------------------------------------------------------

\* Every step preserves IInv.
LEMMA NextIInv == IInv /\ [Next]_vars => IInv'
<1> SUFFICES ASSUME IInv, [Next]_vars PROVE IInv'
  OBVIOUS
<1>1. CASE Server
  BY <1>1, InitClearIInv, InitPostIInv, PollUsedIInv, FreeWqeIInv, ClearIInv, RepostIInv
  DEF Server
<1>2. ASSUME NEW m \in Message, Place(m) PROVE IInv'
  BY <1>2, PlaceInOpenIInv, PlaceInNextIInv DEF Place
<1>3. CASE DmaWrite
  BY <1>3, DmaWriteIInv
<1>4. CASE UNCHANGED vars
  BY <1>4 DEF vars, threadVars, srqVars, nicVars, memVars, IInv, TypeOK, LoopInv,
     RingInv, NicInv, DmaInv, FlagInv, posted, opened, oldest, Pos, Lag
<1> QED
  BY <1>1, <1>2, <1>3, <1>4 DEF Next

-----------------------------------------------------------------------------
(***************************************************************************)
(* Memory: MemInv holds along with IInv.                                   *)
(***************************************************************************)

\* A cleared segment is not one that MemInv calls used.
LEMMA ClearMemInv ==
  ASSUME IInv, MemInv, NEW g \in Segment, ClearSegment(g),
         UNCHANGED <<nicVars, dma, head>>,
         nicSeg # g, \A i \in 1 .. Len(dma) : dma[i].seg # g,
         pc' \in RecyclePc => pc \in RecyclePc /\ NextSegment(head) # g
  PROVE  MemInv'
<1>1. TypeOK
  BY DEF IInv
<1>2. /\ \A s \in Segment : s # g => firstByte'[s] = firstByte[s] /\ mem'[s] = mem[s]
      /\ firstByte'[g] = kFree /\ mem'[g] = << >>
  BY <1>1 DEF ClearSegment, TypeOK
<1>3. FlagTellsUse'
  BY <1>2 DEF MemInv, FlagTellsUse
<1>4. /\ Len(dma) \in Nat /\ \A i \in 1 .. Len(dma) : dma[i].seg \in Segment
      /\ NextSegment(head) \in Segment /\ nicSeg \in Segment \cup {NoSeg}
  BY <1>1, DmaType, PosFacts DEF TypeOK
<1>5. \A i \in 1 .. Len(dma) : dma[i].off > 0 => dma[i].seg \in Used(i - 1)'
  <2> SUFFICES ASSUME NEW i \in 1 .. Len(dma), dma[i].off > 0
               PROVE  dma[i].seg \in Used(i - 1)'
    OBVIOUS
  <2>1. dma[i].seg \in Used(i - 1) /\ firstByte'[dma[i].seg] = firstByte[dma[i].seg]
    BY <1>2, <1>4 DEF MemInv
  <2> QED
    BY <2>1 DEF Used
<1>6. nicSeg # NoSeg => nicSeg' \in Used(Len(dma))'
  BY <1>2, <1>4 DEF MemInv, Used, nicVars
<1>7. pc' \in RecyclePc => firstByte'[NextSegment(head)] # kFree
  BY <1>2, <1>4 DEF MemInv
<1> QED
  BY <1>3, <1>5, <1>6, <1>7 DEF MemInv, Used, nicVars

\* The posted WQEs follow the opened ones in the ring.
LEMMA PostedLag ==
  ASSUME IInv
  PROVE  \A w \in postedWqes : w \in Wqe /\ Lag(w) \in opened .. posted - 1
<1>1. TypeOK /\ RingInv /\ NicInv
  BY DEF IInv
<1>2. /\ nicNext \in Wqe /\ nextWqe \in [Wqe -> Wqe]
      /\ Lag(nicNext) = opened
      /\ \A w \in Wqe : nextWqe[w] = NextIndex(w)
  BY <1>1 DEF TypeOK, NicInv, RingInv
<1>3. PICK f : Iterates(Wqe, nicNext, nextWqe, f)
  BY <1>2, NatRecursion
<1>4. f = [n \in Nat |-> IF n = 0 THEN nicNext ELSE nextWqe[f[n - 1]]]
  <2> DEFINE at(n) == IF n = 0 THEN nicNext ELSE nextWqe[f[n - 1]]
  <2>1. ASSUME NEW n \in Nat PROVE f[n] = at(n)
    <3>1. n # 0 => n - 1 \in Nat /\ (n - 1) + 1 = n
      OBVIOUS
    <3> QED
      BY <1>3, <3>1 DEF Iterates
  <2> HIDE DEF at
  <2>2. f = [n \in Nat |-> at(n)]
    BY <1>3, <2>1 DEF Iterates
  <2> QED
    BY <2>2 DEF at
<1> DEFINE g == CHOOSE h : h = [n \in Nat |-> IF n = 0 THEN nicNext ELSE nextWqe[h[n - 1]]]
<1>5. g = [n \in Nat |-> IF n = 0 THEN nicNext ELSE nextWqe[g[n - 1]]]
  BY <1>4, Zenon
<1>6. popOrder = g
  BY DEF popOrder
<1> HIDE DEF g
<1>7. \A n \in Nat : popOrder[n] = IF n = 0 THEN nicNext ELSE nextWqe[popOrder[n - 1]]
  BY <1>5, <1>6
<1>8. nicAvail \in Nat /\ nicAvail = posted - opened /\ opened \in Nat
      /\ posted \in Nat /\ posted < WqeCnt /\ WqeCnt \in Nat
  BY Counts
<1> DEFINE D == {n \in Nat : n < nicAvail => popOrder[n] \in Wqe /\ Lag(popOrder[n]) = opened + n}
<1>9. 0 \in D
  BY <1>2, <1>7, <1>8
<1>10. ASSUME NEW n \in Nat, n \in D PROVE n + 1 \in D
  <2> SUFFICES ASSUME n + 1 < nicAvail
               PROVE  popOrder[n + 1] \in Wqe /\ Lag(popOrder[n + 1]) = opened + (n + 1)
    OBVIOUS
  <2>1. popOrder[n] \in Wqe /\ Lag(popOrder[n]) = opened + n
    BY <1>8, <1>10
  <2>2. n + 1 # 0 /\ (n + 1) - 1 = n /\ n + 1 \in Nat
    OBVIOUS
  <2>3. popOrder[n + 1] = NextIndex(popOrder[n])
    BY <1>2, <1>7, <2>1, <2>2
  <2>4. opened + n # WqeCnt - 1
    BY <1>8
  <2> QED
    BY <1>1, <1>8, <2>1, <2>3, <2>4, LagFacts
<1> HIDE DEF D
<1>11. Nat \subseteq D
  BY <1>9, <1>10, NatSetInduction
<1>12. ASSUME NEW n \in 0 .. nicAvail - 1
       PROVE  popOrder[n] \in Wqe /\ Lag(popOrder[n]) \in opened .. posted - 1
  <2>1. n \in D /\ n \in Nat /\ n < nicAvail
    BY <1>8, <1>11
  <2>2. popOrder[n] \in Wqe /\ Lag(popOrder[n]) = opened + n
    BY <2>1 DEF D
  <2> QED
    BY <1>8, <2>1, <2>2
<1> QED
  BY <1>12 DEF postedWqes

\* While the thread recycles the oldest segment the NIC is done with it.
LEMMA Quiescent == IInv => RecycleQuiescent
<1> SUFFICES ASSUME IInv, pc \in RecyclePc
             PROVE  /\ nicSeg # head
                    /\ \A i \in 1 .. Len(dma) : dma[i].seg # head
                    /\ \A w \in postedWqes : wqeBuf[w] # head
  BY DEF RecycleQuiescent
<1>1. TypeOK /\ RingInv /\ NicInv /\ DmaInv
  BY DEF IInv
<1>2. \A i \in 1 .. Len(dma) : dma[i].seg # head
  BY <1>1, DmaType, PosFacts DEF DmaInv
<1>3. nicSeg # head
  BY <1>1, PosFacts, Counts, SMTT(30) DEF NicInv, TypeOK
<1>4. \A w \in postedWqes : wqeBuf[w] # head
  <2> SUFFICES ASSUME NEW w \in postedWqes PROVE wqeBuf[w] # head
    OBVIOUS
  <2>1. w \in Wqe /\ Lag(w) \in opened .. posted - 1
    BY PostedLag
  <2>2. Lag(w) < posted /\ Lag(w) # 0
    BY <1>1, <2>1, Counts DEF NicInv
  <2>3. wqeBuf[w] \in Segment /\ Pos(wqeBuf[w]) # 0
    BY <1>1, <2>1, <2>2 DEF RingInv
  <2> QED
    BY <1>1, <2>3, PosFacts
<1> QED
  BY <1>2, <1>3, <1>4

\* The posting loop is ahead of the NIC: segment k is neither open nor written.
LEMMA LoopAhead ==
  ASSUME IInv, pc = "init_clear"
  PROVE  /\ k \in Segment /\ firstByte[k] = kFree /\ nicSeg # k
         /\ \A i \in 1 .. Len(dma) : dma[i].seg # k
<1>1. TypeOK /\ LoopInv /\ NicInv /\ DmaInv /\ FlagInv
  BY DEF IInv
<1>2. k \in Segment /\ posted = k /\ Pos(k) = k
  BY <1>1, SizesAssumption DEF LoopInv, InitPc, TypeOK, Segment, posted, Pos, Dist
<1>3. Pos(k) >= opened
  BY <1>2, Counts
<1>4. firstByte[k] = kFree
  BY <1>1, <1>2, <1>3, Counts DEF FlagInv
<1>5. nicSeg # k
  BY <1>1, <1>2, <1>3, Counts, SizesAssumption DEF NicInv, Segment, NoSeg
<1>6. \A i \in 1 .. Len(dma) : dma[i].seg # k
  BY <1>1, <1>2, <1>3, Counts DEF DmaInv
<1> QED
  BY <1>2, <1>4, <1>5, <1>6

\* The steps of the control thread.
LEMMA ServerMemInv ==
  ASSUME IInv, MemInv, Server
  PROVE  MemInv'
<1>1. CASE InitClear
  BY <1>1, LoopAhead, ClearMemInv DEF InitClear, RecyclePc
<1>2. CASE Clear
  <2>1. NextSegment(head) # head /\ head \in Segment
    BY PosFacts DEF IInv, TypeOK
  <2> QED
    BY <1>2, <2>1, Quiescent, ClearMemInv DEF Clear, RecycleQuiescent, RecyclePc
<1>3. CASE PollUsed
  BY <1>3 DEF PollUsed, MemInv, FlagTellsUse, Used, nicVars, memVars, NextSegment
<1>4. CASE InitPost \/ FreeWqe \/ Repost
  <2>1. /\ UNCHANGED <<nicSeg, dma, memVars>>
        /\ pc' \in RecyclePc => pc \in RecyclePc /\ head' = head
    BY <1>4 DEF InitPost, FreeWqe, Repost, RecyclePc, nicVars
  <2> QED
    BY <2>1 DEF MemInv, FlagTellsUse, Used, memVars, NextSegment
<1> QED
  BY <1>1, <1>2, <1>3, <1>4 DEF Server

\* The WQE at the head of the queue carries a segment that is empty.
LEMMA PoppedEmpty == IInv => NextPoppedIsEmpty
<1> SUFFICES ASSUME IInv, nicAvail > 0
             PROVE  wqeBuf[nicNext] \in Segment /\ firstByte[wqeBuf[nicNext]] = kFree
  BY DEF NextPoppedIsEmpty
<1>1. TypeOK /\ RingInv /\ NicInv /\ FlagInv
  BY DEF IInv
<1>2. nicNext \in Wqe /\ Lag(nicNext) = opened /\ opened < posted
  BY <1>1, Counts DEF TypeOK, NicInv
<1>3. wqeBuf[nicNext] \in Segment /\ Pos(wqeBuf[nicNext]) = opened
  BY <1>1, <1>2 DEF RingInv
<1> QED
  BY <1>1, <1>3, Counts DEF FlagInv

\* The steps of the NIC that place a message: what is at its stride 0 opens the
\* segment, what is behind it finds it opened.
LEMMA PlaceMemInv ==
  ASSUME IInv, MemInv, NEW m \in Message, Place(m)
  PROVE  MemInv'
<1>1. TypeOK /\ NicInv
  BY DEF IInv
<1>2. /\ UNCHANGED <<threadVars, memVars>>
      /\ dma' = Append(dma, [seg |-> nicSeg', off |-> IF PlaceInOpen(m) THEN nicOff ELSE 0, msg |-> m])
      /\ PlaceInOpen(m) => nicSeg' = nicSeg /\ nicSeg # NoSeg
      /\ ~PlaceInOpen(m) => PlaceInNext(m)
  BY DEF Place, PlaceInOpen, PlaceInNext, Fits
<1> DEFINE e == [seg |-> nicSeg', off |-> IF PlaceInOpen(m) THEN nicOff ELSE 0, msg |-> m]
<1>3. /\ Len(dma) \in Nat /\ Len(dma') = Len(dma) + 1
      /\ \A i \in 1 .. Len(dma) : dma'[i] = dma[i]
      /\ dma'[Len(dma) + 1] = e
  <2>1. dma \in Seq(Write \cup {e}) /\ e \in Write \cup {e}
    BY <1>1 DEF TypeOK
  <2> HIDE DEF e
  <2> QED
    BY <1>2, <2>1, AppendFacts DEF e
<1>4. FlagTellsUse'
  BY <1>2 DEF MemInv, FlagTellsUse, memVars
<1>5. firstByte' = firstByte /\ head' = head /\ pc' = pc
  BY <1>2 DEF memVars, threadVars
<1>6. nicSeg' \in Segment
  BY <1>1, <1>2, PoppedEmpty DEF TypeOK, NextPoppedIsEmpty, PlaceInNext
<1>7. \A n \in 0 .. Len(dma) : Used(n) \subseteq Used(n)'
  BY <1>3, <1>5 DEF Used
<1>8. \A i \in 1 .. Len(dma) : dma'[i].off > 0 => dma'[i].seg \in Used(i - 1)'
  BY <1>3, <1>7 DEF MemInv
<1>9. PlaceInOpen(m) => nicSeg' = nicSeg /\ nicSeg \in Used(Len(dma))
  BY <1>2 DEF MemInv
<1>10. dma'[Len(dma) + 1].off > 0 => PlaceInOpen(m) /\ dma'[Len(dma) + 1].seg = nicSeg
  BY <1>3, <1>9
<1>11. \A i \in 1 .. Len(dma') : dma'[i].off > 0 => dma'[i].seg \in Used(i - 1)'
  <2> SUFFICES ASSUME NEW i \in 1 .. Len(dma'), dma'[i].off > 0
               PROVE  dma'[i].seg \in Used(i - 1)'
    OBVIOUS
  <2>1. CASE i \in 1 .. Len(dma)
    BY <1>8, <2>1
  <2>2. CASE i = Len(dma) + 1
    <3>1. dma'[i].seg \in Used(i - 1) /\ i - 1 \in 0 .. Len(dma)
      BY <1>3, <1>9, <1>10, <2>2
    <3> QED
      BY <1>7, <3>1
  <2> QED
    BY <1>3, <2>1, <2>2
<1>12. nicSeg' \in Used(Len(dma))'
  <2>1. CASE PlaceInOpen(m)
    BY <1>3, <1>5, <1>9, <2>1 DEF Used
  <2>2. CASE ~PlaceInOpen(m)
    <3>1. /\ Len(dma') \in 1 .. Len(dma')
          /\ dma'[Len(dma')].seg = nicSeg' /\ dma'[Len(dma')].off = 0
      BY <1>3, <2>2
    <3> QED
      BY <1>6, <3>1 DEF Used
  <2> QED
    BY <2>1, <2>2
<1> QED
  BY <1>4, <1>5, <1>11, <1>12 DEF MemInv, NextSegment

\* The oldest write reaches memory: it is the first of its segment, or finds it
\* in use.
LEMMA DmaWriteMemInv ==
  ASSUME IInv, MemInv, DmaWrite
  PROVE  MemInv'
<1> DEFINE e == Head(dma)
<1>1. TypeOK
  BY DEF IInv
<1>2. /\ UNCHANGED <<threadVars, nicVars>>
      /\ dma # << >> /\ dma' = Tail(dma)
      /\ firstByte' = IF e.off = 0 THEN [firstByte EXCEPT ![e.seg] = e.msg.magic] ELSE firstByte
      /\ mem' = [mem EXCEPT ![e.seg] = Append(@, e.msg)]
  BY DEF DmaWrite
<1>3. /\ Len(dma) \in Nat /\ Len(dma) > 0 /\ e = dma[1] /\ e \in Write
      /\ Len(dma') = Len(dma) - 1
      /\ \A i \in 1 .. Len(dma') : i + 1 \in 1 .. Len(dma) /\ dma'[i] = dma[i + 1]
  BY <1>1, <1>2, TailFacts DEF TypeOK
<1>4. e.seg \in Segment /\ e.off \in Nat /\ e.msg \in Message /\ e.msg.magic # kFree
  <2> HIDE DEF e
  <2>1. e.seg \in Segment /\ e.off \in Nat /\ e.msg \in Message
    BY <1>3, SizesAssumption DEF Write
  <2> QED
    BY <2>1, MessageAssumption DEF kFree
<1>5. firstByte'[e.seg] # kFree /\ mem'[e.seg] # << >>
  <2>1. mem'[e.seg] = Append(mem[e.seg], e.msg) /\ mem[e.seg] \in Seq(Message)
    BY <1>1, <1>2, <1>4 DEF TypeOK
  <2>2. mem'[e.seg] # << >>
    BY <1>4, <2>1, AppendProperties
  <2> HIDE DEF e
  <2>3. CASE e.off = 0
    BY <1>1, <1>2, <1>4, <2>2, <2>3 DEF TypeOK
  <2>4. CASE e.off > 0
    <3>1. e.seg \in Used(0)
      BY <1>3, <2>4 DEF MemInv
    <3> QED
      BY <1>2, <2>2, <2>4, <3>1 DEF Used
  <2> QED
    BY <1>4, <2>3, <2>4
<1>6. \A s \in Segment : s # e.seg => firstByte'[s] = firstByte[s] /\ mem'[s] = mem[s]
  BY <1>1, <1>2, <1>4 DEF TypeOK
<1> HIDE DEF e
<1>7. FlagTellsUse'
  BY <1>5, <1>6 DEF MemInv, FlagTellsUse
<1>8. \A s \in Segment, n \in 1 .. Len(dma) :
        s \in Used(n) => s \in Used(n - 1)'
  <2> SUFFICES ASSUME NEW s \in Segment, NEW n \in 1 .. Len(dma), s \in Used(n)
               PROVE  s \in Used(n - 1)'
    OBVIOUS
  <2>1. CASE s = e.seg
    BY <1>5, <2>1 DEF Used
  <2>2. CASE s # e.seg /\ firstByte[s] # kFree
    BY <1>6, <2>2 DEF Used
  <2>3. CASE s # e.seg /\ \E j \in 1 .. n : dma[j].seg = s /\ dma[j].off = 0
    <3>1. PICK j \in 1 .. n : dma[j].seg = s /\ dma[j].off = 0
      BY <2>3
    <3>2. j - 1 \in 1 .. n - 1 /\ j - 1 \in 1 .. Len(dma')
      BY <1>3, <2>3, <3>1
    <3>3. dma'[j - 1] = dma[j]
      BY <1>3, <3>2
    <3> QED
      BY <3>1, <3>2, <3>3 DEF Used
  <2> QED
    BY <2>1, <2>2, <2>3 DEF Used
<1>9. \A i \in 1 .. Len(dma') : dma'[i].off > 0 => dma'[i].seg \in Used(i - 1)'
  <2> SUFFICES ASSUME NEW i \in 1 .. Len(dma'), dma'[i].off > 0
               PROVE  dma'[i].seg \in Used(i - 1)'
    OBVIOUS
  <2>1. i + 1 \in 1 .. Len(dma) /\ i \in 1 .. Len(dma) /\ dma'[i] = dma[i + 1]
    BY <1>3
  <2>2. dma[i + 1].seg \in Used(i) /\ dma[i + 1].seg \in Segment
    BY <1>1, <2>1, DmaType DEF MemInv
  <2>3. dma[i + 1].seg \in Used(i - 1)'
    BY <1>8, <2>1, <2>2
  <2> QED
    BY <2>1, <2>3 DEF Used
<1>10. nicSeg' # NoSeg => nicSeg' \in Used(Len(dma))'
  <2>1. nicSeg' = nicSeg /\ nicSeg \in Segment \cup {NoSeg} /\ Len(dma) \in 1 .. Len(dma)
    BY <1>1, <1>2, <1>3 DEF nicVars, TypeOK
  <2> QED
    BY <1>3, <1>8, <2>1 DEF MemInv, Used
<1>11. pc' \in RecyclePc => firstByte'[NextSegment(head')] # kFree
  <2>1. pc' = pc /\ head' = head /\ NextSegment(head) \in Segment
    BY <1>1, <1>2, PosFacts DEF threadVars
  <2> QED
    BY <1>5, <1>6, <2>1 DEF MemInv
<1> QED
  BY <1>7, <1>9, <1>10, <1>11 DEF MemInv, NextSegment

\* Every step preserves MemInv.
LEMMA NextMemInv == IInv /\ MemInv /\ [Next]_vars => MemInv'
<1> SUFFICES ASSUME IInv, MemInv, [Next]_vars PROVE MemInv'
  OBVIOUS
<1>1. CASE UNCHANGED vars
  BY <1>1 DEF vars, threadVars, nicVars, memVars, MemInv, FlagTellsUse, Used,
     NextSegment
<1> QED
  BY <1>1, ServerMemInv, PlaceMemInv, DmaWriteMemInv DEF Next

-----------------------------------------------------------------------------
(***************************************************************************)
(* Strides: KeptInv holds along with IInv and MemInv.                      *)
(***************************************************************************)

\* The control thread empties segments and touches nothing else.
LEMMA ServerKeptInv ==
  ASSUME IInv, KeptInv, Server
  PROVE  KeptInv'
<1>1. TypeOK
  BY DEF IInv
<1>2. ASSUME NEW g \in Segment, ClearSegment(g), UNCHANGED <<nicVars, dma>> PROVE KeptInv'
  <2>1. /\ \A s \in Segment : s # g => firstByte'[s] = firstByte[s] /\ kept'[s] = kept[s]
        /\ kept'[g] = {} /\ nicSeg' = nicSeg /\ nicOff' = nicOff /\ dma' = dma
    BY <1>1, <1>2 DEF ClearSegment, TypeOK, nicVars
  <2>2. \A s \in Segment : kept'[s] \subseteq kept[s]
    BY <2>1
  <2>3. \A i \in 1 .. Len(dma) : dma[i].seg \in Segment
    BY <1>1, DmaType
  <2> QED
    BY <2>1, <2>2, <2>3 DEF KeptInv
<1>3. CASE InitClear
  BY <1>2, <1>3, LoopAhead DEF InitClear
<1>4. CASE Clear
  BY <1>1, <1>2, <1>4 DEF Clear, TypeOK
<1>5. CASE InitPost \/ PollUsed \/ FreeWqe \/ Repost
  <2>1. nicSeg' = nicSeg /\ nicOff' = nicOff /\ dma' = dma /\ firstByte' = firstByte /\ kept' = kept
    BY <1>5 DEF InitPost, PollUsed, FreeWqe, Repost, nicVars, memVars
  <2> QED
    BY <2>1 DEF KeptInv
<1> QED
  BY <1>3, <1>4, <1>5 DEF Server

\* What is placed in the open segment lies behind all that is in it.
LEMMA PlaceInOpenKeptInv ==
  ASSUME IInv, KeptInv, NEW m \in Message, PlaceInOpen(m)
  PROVE  KeptInv'
<1> DEFINE e == [seg |-> nicSeg, off |-> nicOff, msg |-> m]
<1>1. TypeOK
  BY DEF IInv
<1>2. /\ nicSeg \in Segment /\ nicOff + m.size <= NumStrides
      /\ nicSeg' = nicSeg /\ nicOff' = nicOff + m.size /\ dma' = Append(dma, e)
      /\ firstByte' = firstByte /\ kept' = kept
  BY <1>1 DEF PlaceInOpen, Fits, TypeOK, memVars
<1>3. nicOff \in Nat /\ m.size \in Nat /\ m.size > 0 /\ NumStrides \in Nat
  BY <1>1, MessageAssumption, SizesAssumption DEF TypeOK
<1>4. e.seg = nicSeg /\ e.off = nicOff /\ End(e) = nicOff + m.size
  BY DEF End
<1>5. /\ Len(dma) \in Nat /\ Len(dma') = Len(dma) + 1
      /\ \A i \in 1 .. Len(dma) : dma'[i] = dma[i]
      /\ dma'[Len(dma) + 1] = e
  <2>1. e \in Write \cup {e} /\ dma \in Seq(Write \cup {e})
    BY <1>1 DEF TypeOK
  <2> HIDE DEF e
  <2> QED
    BY <1>2, <2>1, AppendFacts
<1> HIDE DEF e
<1>6. \A i \in 1 .. Len(dma') : i \in 1 .. Len(dma) \/ (i = Len(dma) + 1 /\ dma'[i] = e)
  BY <1>5
<1>7. \A s \in Segment : \A x \in kept[s] : x \in Nat
  BY <1>1 DEF TypeOK
<1>8. \A i \in 1 .. Len(dma) :
        dma[i].seg \in Segment /\ End(dma[i]) \in Nat
  BY <1>1, DmaType, WriteEnd
<1>9. \A s \in Segment :
        /\ firstByte'[s] = kFree => kept'[s] = {}
        /\ s = nicSeg' => \A x \in kept'[s] : x < nicOff'
  <2> TAKE s \in Segment
  <2>1. firstByte'[s] = kFree => kept'[s] = {}
    BY <1>2 DEF KeptInv
  <2>2. ASSUME s = nicSeg, NEW x \in kept[s] PROVE x < nicOff + m.size
    <3>1. x < nicOff /\ x \in Nat
      BY <1>7, <2>2 DEF KeptInv
    <3> QED
      BY <1>3, <3>1
  <2> QED
    BY <1>2, <2>1, <2>2
<1>10. \A i \in 1 .. Len(dma') :
         /\ End(dma'[i]) <= NumStrides
         /\ dma'[i].seg = nicSeg' => End(dma'[i]) <= nicOff'
         /\ \A x \in kept'[dma'[i].seg] : x < dma'[i].off
  <2> TAKE i \in 1 .. Len(dma')
  <2>1. CASE i \in 1 .. Len(dma)
    <3>1. End(dma[i]) <= nicOff => End(dma[i]) <= nicOff + m.size
      BY <1>3, <1>8, <2>1
    <3> QED
      BY <1>2, <1>5, <2>1, <3>1 DEF KeptInv
  <2>2. CASE dma'[i] = e
    <3>1. \A x \in kept[nicSeg] : x < nicOff
      BY <1>2 DEF KeptInv
    <3> QED
      BY <1>2, <1>3, <1>4, <2>2, <3>1
  <2> QED
    BY <1>6, <2>1, <2>2
<1>11. \A i, j \in 1 .. Len(dma') :
         i < j /\ dma'[i].seg = dma'[j].seg => End(dma'[i]) <= dma'[j].off
  <2> SUFFICES ASSUME NEW i \in 1 .. Len(dma'), NEW j \in 1 .. Len(dma'),
                      i < j, dma'[i].seg = dma'[j].seg
               PROVE  End(dma'[i]) <= dma'[j].off
    OBVIOUS
  <2>1. i \in 1 .. Len(dma) /\ dma'[i] = dma[i]
    BY <1>5
  <2>2. CASE j \in 1 .. Len(dma)
    BY <1>5, <2>1, <2>2 DEF KeptInv
  <2>3. CASE dma'[j] = e
    BY <1>4, <2>1, <2>3 DEF KeptInv
  <2> QED
    BY <1>6, <2>2, <2>3
<1> QED
  BY <1>9, <1>10, <1>11 DEF KeptInv

\* What opens a segment finds it empty, with no write to it under way.
LEMMA PlaceInNextKeptInv ==
  ASSUME IInv, KeptInv, NEW m \in Message, PlaceInNext(m)
  PROVE  KeptInv'
<1> DEFINE g == wqeBuf[nicNext]
           e == [seg |-> g, off |-> 0, msg |-> m]
<1>1. TypeOK /\ RingInv /\ NicInv /\ DmaInv
  BY DEF IInv
<1>2. /\ nicAvail > 0 /\ nicSeg' = g /\ nicOff' = m.size /\ dma' = Append(dma, e)
      /\ firstByte' = firstByte /\ kept' = kept
  BY DEF PlaceInNext, memVars
<1>3. m.size \in Nat /\ m.size > 0 /\ m.size <= NumStrides /\ NumStrides \in Nat
  BY MessageAssumption, SizesAssumption
<1>4. e.seg = g /\ e.off = 0 /\ End(e) = m.size
  BY <1>3 DEF End
<1>5. g \in Segment /\ kept[g] = {}
  BY <1>2, PoppedEmpty DEF NextPoppedIsEmpty, KeptInv
<1>6. \A i \in 1 .. Len(dma) : dma[i].seg # g
  <2>1. nicNext \in Wqe /\ Lag(nicNext) = opened /\ opened < posted
    BY <1>1, <1>2, Counts DEF TypeOK, NicInv
  <2>2. Pos(g) = opened
    BY <1>1, <2>1 DEF RingInv
  <2> QED
    BY <1>1, <2>2, Counts DEF DmaInv
<1>7. /\ Len(dma) \in Nat /\ Len(dma') = Len(dma) + 1
      /\ \A i \in 1 .. Len(dma) : dma'[i] = dma[i]
      /\ dma'[Len(dma) + 1] = e
  <2>1. e \in Write \cup {e} /\ dma \in Seq(Write \cup {e})
    BY <1>1 DEF TypeOK
  <2> HIDE DEF e
  <2> QED
    BY <1>2, <2>1, AppendFacts
<1> HIDE DEF e, g
<1>8. \A i \in 1 .. Len(dma') : i \in 1 .. Len(dma) \/ (i = Len(dma) + 1 /\ dma'[i] = e)
  BY <1>7
<1>9. \A s \in Segment :
        /\ firstByte'[s] = kFree => kept'[s] = {}
        /\ s = nicSeg' => \A x \in kept'[s] : x < nicOff'
  BY <1>2, <1>5 DEF KeptInv
<1>10. \A i \in 1 .. Len(dma') :
         /\ End(dma'[i]) <= NumStrides
         /\ dma'[i].seg = nicSeg' => End(dma'[i]) <= nicOff'
         /\ \A x \in kept'[dma'[i].seg] : x < dma'[i].off
  <2> TAKE i \in 1 .. Len(dma')
  <2>1. CASE i \in 1 .. Len(dma)
    BY <1>2, <1>6, <1>7, <2>1 DEF KeptInv
  <2>2. CASE dma'[i] = e
    BY <1>2, <1>3, <1>4, <1>5, <2>2
  <2> QED
    BY <1>8, <2>1, <2>2
<1>11. \A i, j \in 1 .. Len(dma') :
         i < j /\ dma'[i].seg = dma'[j].seg => End(dma'[i]) <= dma'[j].off
  <2> SUFFICES ASSUME NEW i \in 1 .. Len(dma'), NEW j \in 1 .. Len(dma'),
                      i < j, dma'[i].seg = dma'[j].seg
               PROVE  End(dma'[i]) <= dma'[j].off
    OBVIOUS
  <2>1. i \in 1 .. Len(dma) /\ dma'[i] = dma[i]
    BY <1>7
  <2>2. dma'[j] # e
    BY <1>4, <1>6, <2>1
  <2> QED
    BY <1>7, <1>8, <2>1, <2>2 DEF KeptInv
<1> QED
  BY <1>9, <1>10, <1>11 DEF KeptInv

\* The oldest write moves from those under way to memory, in front of the others.
LEMMA DmaWriteKeptInv ==
  ASSUME IInv, MemInv, KeptInv, DmaWrite
  PROVE  KeptInv'
<1> DEFINE e == Head(dma)
<1>1. TypeOK /\ TypeOK'
  BY DmaWriteIInv DEF IInv
<1>2. /\ nicSeg' = nicSeg /\ nicOff' = nicOff /\ dma # << >> /\ dma' = Tail(dma)
      /\ kept' = [kept EXCEPT ![e.seg] = @ \cup Extent(e)]
  BY DEF DmaWrite, nicVars
<1>3. /\ Len(dma) \in Nat /\ Len(dma) > 0 /\ e = dma[1]
      /\ Len(dma') = Len(dma) - 1
      /\ \A i \in 1 .. Len(dma') : i + 1 \in 1 .. Len(dma) /\ dma'[i] = dma[i + 1]
  BY <1>1, <1>2, TailFacts DEF TypeOK
<1>4. e.seg \in Segment /\ e.off \in Nat /\ End(e) \in Nat
  BY <1>1, <1>3, DmaType, WriteEnd
<1>5. \A x \in Extent(e) : x \in Nat /\ x < End(e)
  BY <1>1, <1>3, ExtentEnd
<1>6. \A s \in Segment : s # e.seg => kept'[s] = kept[s] /\ firstByte'[s] = firstByte[s]
  BY <1>1, <1>4 DEF TypeOK, DmaWrite
<1>7. kept'[e.seg] = kept[e.seg] \cup Extent(e)
  BY <1>1, <1>2, <1>4 DEF TypeOK
<1>8. firstByte'[e.seg] # kFree
  <2>1. MemInv' /\ mem'[e.seg] = Append(mem[e.seg], e.msg) /\ mem[e.seg] \in Seq(Message)
    BY <1>1, <1>4, DmaWriteMemInv DEF DmaWrite, TypeOK
  <2>2. mem'[e.seg] # << >>
    BY <1>4, <2>1, AppendProperties
  <2> QED
    BY <1>4, <2>1, <2>2 DEF MemInv, FlagTellsUse
<1> HIDE DEF e
<1>9. \A i \in 1 .. Len(dma') : dma'[i].seg = e.seg => End(e) <= dma'[i].off
  BY <1>3 DEF KeptInv
<1>10. e.seg = nicSeg => End(e) <= nicOff
  BY <1>3 DEF KeptInv
<1>11. \A s \in Segment :
         /\ firstByte'[s] = kFree => kept'[s] = {}
         /\ s = nicSeg' => \A x \in kept'[s] : x < nicOff'
  <2> TAKE s \in Segment
  <2>1. CASE s = e.seg
    <3>1. s = nicSeg => \A x \in Extent(e) : x < nicOff
      <4>1. nicOff \in Nat
        BY <1>1, SizesAssumption DEF TypeOK
      <4> QED
        BY <1>4, <1>5, <1>10, <2>1, <4>1
    <3> QED
      BY <1>2, <1>7, <1>8, <2>1, <3>1 DEF KeptInv
  <2>2. CASE s # e.seg
    BY <1>2, <1>6, <2>2 DEF KeptInv
  <2> QED
    BY <2>1, <2>2
<1>12. \A i \in 1 .. Len(dma') :
         /\ End(dma'[i]) <= NumStrides
         /\ dma'[i].seg = nicSeg' => End(dma'[i]) <= nicOff'
         /\ \A x \in kept'[dma'[i].seg] : x < dma'[i].off
  <2> TAKE i \in 1 .. Len(dma')
  <2>1. i + 1 \in 1 .. Len(dma) /\ dma'[i] = dma[i + 1]
    BY <1>3
  <2>2. dma'[i].seg \in Segment /\ dma'[i].off \in Nat
    BY <1>1, <2>1, DmaType
  <2>3. \A x \in kept[dma'[i].seg] : x < dma'[i].off
    BY <2>1 DEF KeptInv
  <2>4. dma'[i].seg = e.seg => \A x \in Extent(e) : x < dma'[i].off
    BY <1>4, <1>5, <1>9, <2>2
  <2>5. \A x \in kept'[dma'[i].seg] : x < dma'[i].off
    BY <1>6, <1>7, <2>2, <2>3, <2>4
  <2> QED
    BY <1>2, <2>1, <2>5 DEF KeptInv
<1>13. \A i, j \in 1 .. Len(dma') :
         i < j /\ dma'[i].seg = dma'[j].seg => End(dma'[i]) <= dma'[j].off
  <2> SUFFICES ASSUME NEW i \in 1 .. Len(dma'), NEW j \in 1 .. Len(dma'),
                      i < j, dma'[i].seg = dma'[j].seg
               PROVE  End(dma'[i]) <= dma'[j].off
    OBVIOUS
  <2>1. i + 1 \in 1 .. Len(dma) /\ j + 1 \in 1 .. Len(dma) /\ i + 1 < j + 1
    BY <1>3
  <2>2. dma'[i] = dma[i + 1] /\ dma'[j] = dma[j + 1]
    BY <1>3
  <2> QED
    BY <2>1, <2>2 DEF KeptInv
<1> QED
  BY <1>11, <1>12, <1>13 DEF KeptInv

\* Every step preserves KeptInv.
LEMMA NextKeptInv == IInv /\ MemInv /\ KeptInv /\ [Next]_vars => KeptInv'
<1> SUFFICES ASSUME IInv, MemInv, KeptInv, [Next]_vars PROVE KeptInv'
  OBVIOUS
<1>1. CASE UNCHANGED vars
  BY <1>1 DEF vars, nicVars, memVars, KeptInv
<1> QED
  BY <1>1, ServerKeptInv, PlaceInOpenKeptInv, PlaceInNextKeptInv, DmaWriteKeptInv DEF Next, Place

-----------------------------------------------------------------------------

\* The rings of the server never get out of step (RowanServer.cpp, the loop).
THEOREM Invariance == Spec => []IInv
<1>1. Init => IInv
  BY InitIInv
<1>2. IInv /\ [Next]_vars => IInv'
  BY NextIInv
<1> QED
  BY <1>1, <1>2, PTL DEF Spec

\* Every variable keeps its type, for any number of segments and WQEs.
THEOREM TypeCorrect == Spec => []TypeOK
BY Invariance, PTL DEF IInv

\* While the thread recycles the oldest segment the NIC is done with it, for
\* any number of segments, WQEs, strides and writes under way.
THEOREM RecycleSafe == Spec => []RecycleQuiescent
BY Quiescent, Invariance, PTL

\* No post of the control thread is ever refused by the SRQ.
THEOREM NoPostRefused == Spec => []PostsAccepted
<1>1. IInv => PostsAccepted
  BY NotFull DEF PostsAccepted
<1> QED
  BY <1>1, Invariance, PTL

\* mlx5_srq_head names the WQE of the oldest segment whenever it is freed.
THEOREM FreesTheRightWqe == Spec => []FreedWqeHoldsHead
<1>1. IInv => FreedWqeHoldsHead
  <2> SUFFICES ASSUME IInv, pc = "free" PROVE wqeBuf[mlx5_srq_head] = head
    BY DEF FreedWqeHoldsHead
  <2>1. TypeOK /\ oldest = mlx5_srq_head /\ mlx5_srq_head \in Wqe /\ posted = SrqBufferCnt
    BY DEF IInv, TypeOK, oldest, posted, InitPc
  <2>2. Lag(mlx5_srq_head) = 0
    BY <2>1, SizesAssumption DEF Lag, Dist, Wqe
  <2>3. wqeBuf[mlx5_srq_head] \in Segment /\ Pos(wqeBuf[mlx5_srq_head]) = 0
    BY <2>1, <2>2, SizesAssumption DEF IInv, RingInv
  <2> QED
    BY <2>1, <2>3, PosFacts
<1> QED
  BY <1>1, Invariance, PTL

\* Memory never contradicts the writes under way (RowanServer.cpp, the poll).
THEOREM MemoryInvariance == Spec => []ServerInv
<1>1. Init => MemInv
  BY DEF Init, InitSrq, MemInv, FlagTellsUse, RecyclePc
<1>2. MemInv /\ IInv /\ [Next]_vars => MemInv'
  BY NextMemInv
<1>3. Init => KeptInv
  BY DEF Init, KeptInv
<1>4. KeptInv /\ MemInv /\ IInv /\ [Next]_vars => KeptInv'
  BY NextKeptInv
<1> QED
  BY <1>1, <1>2, <1>3, <1>4, Invariance, PTL DEF Spec, ServerInv

\* A segment whose first byte is free has no messages, and one whose first byte
\* is not has some, for any number of segments, WQEs, strides and writes.
THEOREM FlagHonest == Spec => []FlagTellsUse
<1>1. ServerInv => FlagTellsUse
  BY DEF ServerInv, MemInv
<1> QED
  BY <1>1, MemoryInvariance, PTL

\* The NIC never opens a segment that still has messages.
THEOREM OpensEmptySegment == Spec => []NextPoppedIsEmpty
BY PoppedEmpty, Invariance, PTL

\* No write of the NIC hits a message received since its segment was cleared, for
\* any number of segments, WQEs, strides and writes under way.
THEOREM MessagesKept == Spec => []KeepsReceived
<1>1. ServerInv => KeepsReceived
  <2> SUFFICES ASSUME ServerInv, NEW i \in 1 .. Len(dma)
               PROVE  /\ Extent(dma[i]) \subseteq 0 .. NumStrides - 1
                      /\ Extent(dma[i]) \cap kept[dma[i].seg] = {}
                      /\ \A j \in 1 .. Len(dma) : i # j /\ dma[i].seg = dma[j].seg =>
                           Extent(dma[i]) \cap Extent(dma[j]) = {}
    BY DEF KeepsReceived
  <2>1. TypeOK /\ KeptInv
    BY DEF ServerInv, IInv
  <2>2. \A j \in 1 .. Len(dma) : \A x \in Extent(dma[j]) :
          x \in Nat /\ dma[j].off <= x /\ x < End(dma[j])
    BY <2>1, ExtentEnd
  <2>3. \A j \in 1 .. Len(dma) :
          dma[j].seg \in Segment /\ dma[j].off \in Nat /\ End(dma[j]) \in Nat
    BY <2>1, DmaType, WriteEnd
  <2>4. Extent(dma[i]) \subseteq 0 .. NumStrides - 1
    <3>1. End(dma[i]) <= NumStrides
      BY <2>1 DEF KeptInv
    <3> QED
      BY <2>2, <2>3, <3>1, SizesAssumption
  <2>5. Extent(dma[i]) \cap kept[dma[i].seg] = {}
    <3>1. \A x \in kept[dma[i].seg] : x < dma[i].off
      BY <2>1 DEF KeptInv
    <3>2. ASSUME NEW x \in Extent(dma[i]), x \in kept[dma[i].seg] PROVE FALSE
      <4>1. x \in Nat /\ dma[i].off \in Nat /\ dma[i].off <= x
        BY <2>2, <2>3, <3>2
      <4>2. x < dma[i].off
        BY <3>1, <3>2
      <4> QED
        BY <4>1, <4>2
    <3> QED
      BY <3>2
  <2>6. ASSUME NEW j \in 1 .. Len(dma), i # j, dma[i].seg = dma[j].seg
        PROVE  Extent(dma[i]) \cap Extent(dma[j]) = {}
    <3>1. End(dma[i]) <= dma[j].off \/ End(dma[j]) <= dma[i].off
      BY <2>1, <2>6 DEF KeptInv
    <3>2. ASSUME NEW x \in Extent(dma[i]), x \in Extent(dma[j]) PROVE FALSE
      <4>1. /\ x \in Nat /\ dma[i].off <= x /\ x < End(dma[i])
            /\ dma[j].off <= x /\ x < End(dma[j])
        BY <2>2, <3>2
      <4>2. /\ dma[i].off \in Nat /\ End(dma[i]) \in Nat
            /\ dma[j].off \in Nat /\ End(dma[j]) \in Nat
        BY <2>3
      <4> QED
        BY <3>1, <4>1, <4>2
    <3> QED
      BY <3>2
  <2> QED
    BY <2>4, <2>5, <2>6
<1> QED
  BY <1>1, MemoryInvariance, PTL

-----------------------------------------------------------------------------
(***************************************************************************)
(* What a step does to the log, for the proof that Rowan implements        *)
(* AppendLog: the messages in memory from the oldest segment on, and the   *)
(* writes under way behind them.                                           *)
(***************************************************************************)

\* The steps of the control thread either leave the log alone, or empty the
\* oldest segment while the next one has messages, or pass over an empty one.
LEMMA ServerLogStep ==
  ASSUME IInv, MemInv, Server
  PROVE  /\ dma' = dma
         /\ \/ head' = head /\ mem' = mem
            \/ /\ head' = head /\ mem' = [mem EXCEPT ![head] = << >>]
               /\ mem[NextSegment(head)] # << >>
            \/ head' = NextSegment(head) /\ mem' = mem /\ mem[head] = << >>
<1>1. TypeOK /\ FlagInv /\ FlagTellsUse
  BY DEF IInv, MemInv
<1>2. CASE InitClear
  <2>1. k \in Segment /\ firstByte[k] = kFree /\ ClearSegment(k)
        /\ dma' = dma /\ head' = head
    BY <1>2, LoopAhead DEF InitClear
  <2>2. mem[k] = << >>
    BY <1>1, <2>1 DEF FlagTellsUse
  <2>3. mem' = mem
    BY <1>1, <2>1, <2>2 DEF ClearSegment, TypeOK
  <2> QED
    BY <2>1, <2>3
<1>3. CASE Clear
  <2>1. pc \in RecyclePc /\ mem' = [mem EXCEPT ![head] = << >>] /\ dma' = dma /\ head' = head
    BY <1>3 DEF Clear, ClearSegment, RecyclePc
  <2>2. NextSegment(head) \in Segment /\ firstByte[NextSegment(head)] # kFree
    BY <1>1, <2>1, PosFacts DEF MemInv
  <2> QED
    BY <1>1, <2>1, <2>2 DEF FlagTellsUse
<1>4. CASE Repost
  <2>1. pc = "post" /\ head \in Segment /\ head' = NextSegment(head) /\ mem' = mem /\ dma' = dma
    BY <1>1, <1>4 DEF Repost, memVars, TypeOK
  <2>2. mem[head] = << >>
    BY <1>1, <2>1 DEF FlagInv, FlagTellsUse
  <2> QED
    BY <2>1, <2>2
<1>5. CASE InitPost \/ PollUsed \/ FreeWqe
  BY <1>5 DEF InitPost, PollUsed, FreeWqe, memVars
<1> QED
  BY <1>2, <1>3, <1>4, <1>5 DEF Server

\* A write that reaches memory goes to the last segment that has messages, or to
\* one behind it: all segments behind its own are empty.
LEMMA DmaWriteLogStep ==
  ASSUME IInv, MemInv, DmaWrite
  PROVE  /\ dma # << >> /\ Head(dma) \in Write /\ dma' = Tail(dma) /\ head' = head
         /\ mem' = [mem EXCEPT ![Head(dma).seg] = Append(@, Head(dma).msg)]
         /\ \A s \in Segment : Pos(s) > Pos(Head(dma).seg) => mem[s] = << >>
<1>1. TypeOK /\ FlagInv /\ FlagTellsUse
  BY DEF IInv, MemInv
<1>2. /\ dma # << >> /\ dma' = Tail(dma) /\ head' = head
      /\ mem' = [mem EXCEPT ![Head(dma).seg] = Append(@, Head(dma).msg)]
  BY DEF DmaWrite, threadVars
<1>3. Head(dma) \in Write /\ Head(dma) = dma[1] /\ 1 \in 1 .. Len(dma)
  BY <1>1, <1>2, TailFacts DEF TypeOK
<1>4. ASSUME NEW s \in Segment, Pos(s) > Pos(Head(dma).seg) PROVE mem[s] = << >>
  <2>1. Pos(dma[1].seg) \in Int /\ Pos(s) \in Int
    BY <1>1, <1>3, DmaType, PosFacts
  <2>2. firstByte[s] = kFree
    BY <1>1, <1>3, <1>4, <2>1 DEF FlagInv
  <2> QED
    BY <1>1, <2>2 DEF FlagTellsUse
<1> QED
  BY <1>2, <1>3, <1>4

\* A message that is placed is the last write under way.
LEMMA PlaceLogStep ==
  ASSUME NEW m, Place(m)
  PROVE  /\ head' = head /\ mem' = mem
         /\ \E e : dma' = Append(dma, e) /\ e.msg = m
<1>1. CASE PlaceInOpen(m)
  <2> DEFINE e == [seg |-> nicSeg, off |-> nicOff, msg |-> m]
  <2>1. dma' = Append(dma, e) /\ e.msg = m /\ head' = head /\ mem' = mem
    BY <1>1 DEF PlaceInOpen, threadVars, memVars
  <2> QED
    BY <2>1
<1>2. CASE PlaceInNext(m)
  <2> DEFINE e == [seg |-> wqeBuf[nicNext], off |-> 0, msg |-> m]
  <2>1. dma' = Append(dma, e) /\ e.msg = m /\ head' = head /\ mem' = mem
    BY <1>2 DEF PlaceInNext, threadVars, memVars
  <2> QED
    BY <2>1
<1> QED
  BY <1>1, <1>2 DEF Place
=============================================================================
