-------------------------- MODULE AlgorithmsProof --------------------------
(***************************************************************************)
(* Proofs about Algorithms: for buffers, vectors and messages of every     *)
(* length and content, the checksum is the CRC-32C of the buffer, a vector *)
(* is written as one stretch, and a message arrives whole.                 *)
(***************************************************************************)
EXTENDS Algorithms, SharedLemmas

-----------------------------------------------------------------------------
(***************************************************************************)
(* Write vectors (WriteVector).                                            *)
(***************************************************************************)

\* A list of pieces of S is packed s at a time.
Packable(S, list, s) == list \in Seq(Seq(S)) /\ list # << >> /\ s \in Nat \ {0}

\* Work request r has the pieces from r * s on, s of them or what is left.
LEMMA WrCount ==
  ASSUME NEW L \in Nat \ {0}, NEW s \in Nat \ {0}
  PROVE  LET K == (L + s - 1) \div s IN
         K \in Nat \ {0} /\ (K - 1) * s < L /\ L <= K * s
<1> DEFINE K == (L + s - 1) \div s
           rest == (L + s - 1) % s
<1>1. L + s - 1 = s * K + rest /\ rest \in 0 .. s - 1 /\ K \in Int
  OBVIOUS
<1> HIDE DEF K, rest
<1>2. (K - 1) * s = s * K - s /\ K * s = s * K
  BY <1>1
<1>3. s * K \in Int
  BY <1>1
<1>4. s * K < L + s /\ s * K >= L
  BY <1>1, <1>3
<1>5. K > 0
  <2>1. K <= 0 => s * K <= 0
    BY <1>1
  <2> QED
    BY <1>1, <1>3, <1>4, <2>1
<1> QED
  BY <1>1, <1>2, <1>3, <1>4, <1>5 DEF K

\* The pieces in the first n work requests.
Packed(list, s, n) == IF n * s < Len(list) THEN n * s ELSE Len(list)

\* How far the first n work requests reach into the list.
LEMMA PackedFacts ==
  ASSUME NEW S, NEW list, NEW s, Packable(S, list, s)
  PROVE  /\ Len(list) \in Nat \ {0} /\ kCntWr(list, s) \in Nat \ {0}
         /\ Packed(list, s, 0) = 0 /\ Packed(list, s, kCntWr(list, s)) = Len(list)
         /\ \A r \in 0 .. kCntWr(list, s) - 1 :
              /\ r * s \in 0 .. Len(list) - 1
              /\ Packed(list, s, r) = r * s
              /\ NumSge(list, s, r) \in Nat \ {0}
              /\ Packed(list, s, r + 1) = r * s + NumSge(list, s, r)
              /\ Packed(list, s, r + 1) \in 0 .. Len(list)
<1> DEFINE L == Len(list)
           K == kCntWr(list, s)
<1>1. L \in Nat \ {0} /\ s \in Nat \ {0}
  BY DEF Packable
<1> HIDE DEF L
<1>2. K \in Nat \ {0} /\ (K - 1) * s < L /\ L <= K * s
  BY <1>1, WrCount DEF kCntWr, L
<1>3. Packed(list, s, 0) = 0 /\ Packed(list, s, K) = L
  <2>1. 0 * s = 0 /\ K * s \in Nat
    BY <1>1, <1>2
  <2> QED
    BY <1>1, <1>2, <2>1 DEF Packed, L
<1> HIDE DEF K
<1>4. ASSUME NEW r \in 0 .. K - 1
      PROVE  /\ r * s \in 0 .. L - 1
             /\ Packed(list, s, r) = r * s
             /\ NumSge(list, s, r) \in Nat \ {0}
             /\ Packed(list, s, r + 1) = r * s + NumSge(list, s, r)
             /\ Packed(list, s, r + 1) \in 0 .. L
  <2>1. r * s \in Nat /\ (r + 1) * s = r * s + s
    BY <1>1, <1>2
  <2>2. r * s <= (K - 1) * s /\ (K - 1) * s \in Nat
    <3>1. K - 1 \in Nat /\ r \in Nat /\ r <= K - 1
      BY <1>2
    <3> HIDE DEF K
    <3>2. PICK d \in Nat : K - 1 = r + d
      <4>1. (K - 1) - r \in Nat /\ K - 1 = r + ((K - 1) - r)
        BY <3>1
      <4> QED
        BY <4>1
    <3>3. (r + d) * s = r * s + d * s /\ d * s \in Nat
      BY <1>1, <3>1, <3>2
    <3> QED
      BY <2>1, <3>2, <3>3
  <2>3. r * s < L
    BY <1>1, <1>2, <2>1, <2>2
  <2>4. NumSge(list, s, r) = IF L - r * s < s THEN L - r * s ELSE s
    BY DEF NumSge, L
  <2>5. Packed(list, s, r + 1) = IF r * s + s < L THEN r * s + s ELSE L
    BY <2>1 DEF Packed, L
  <2>6. Packed(list, s, r) = r * s
    BY <2>3 DEF Packed, L
  <2> HIDE DEF L
  <2> DEFINE p == r * s
  <2> HIDE DEF p
  <2> QED
    BY <1>1, <2>1, <2>3, <2>4, <2>5, <2>6 DEF p
<1> QED
  BY <1>1, <1>2, <1>3, <1>4 DEF K, L

\* Nothing is written with no data.
LEMMA WrittenNone ==
  ASSUME NEW memory, memory = [a \in DOMAIN memory |-> memory[a]],
         DOMAIN memory \subseteq Nat, NEW addr \in Nat
  PROVE  Written(memory, addr, << >>) = memory
<1>1. \A a \in DOMAIN memory : ~(a >= addr /\ a < addr + Len(<< >>))
  OBVIOUS
<1>2. Written(memory, addr, << >>) = [a \in DOMAIN memory |-> memory[a]]
  BY <1>1 DEF Written
<1> QED
  BY <1>2

\* Data written behind data.
LEMMA WrittenTwice ==
  ASSUME NEW S, NEW memory, DOMAIN memory \subseteq Nat, NEW addr \in Nat,
         NEW u \in Seq(S), NEW w \in Seq(S)
  PROVE  Written(Written(memory, addr, u), addr + Len(u), w) = Written(memory, addr, u \o w)
<1> DEFINE first == Written(memory, addr, u)
           m == Len(u)
           n == Len(w)
<1>1. m \in Nat /\ n \in Nat /\ Len(u \o w) = m + n
  OBVIOUS
<1>2. DOMAIN first = DOMAIN memory
  BY DEF Written
<1>3. ASSUME NEW a \in DOMAIN memory
      PROVE  (IF a >= addr + m /\ a < (addr + m) + n THEN w[a - (addr + m) + 1] ELSE first[a])
               = (IF a >= addr /\ a < addr + Len(u \o w) THEN (u \o w)[a - addr + 1] ELSE memory[a])
  <2>1. a \in Nat
    OBVIOUS
  <2>2. first[a] = IF a >= addr /\ a < addr + m THEN u[a - addr + 1] ELSE memory[a]
    BY DEF Written
  <2>3. \A i \in 1 .. m + n : (u \o w)[i] = IF i <= m THEN u[i] ELSE w[i - m]
    BY ConcatProperties
  <2> DEFINE i == a - addr + 1
             both == u \o w
  <2> HIDE DEF first, m, n, both
  <2>4. CASE a >= addr /\ a < addr + m
    <3>1. i \in 1 .. m + n /\ i <= m /\ ~(a >= addr + m)
      BY <1>1, <2>1, <2>4
    <3>2. both[i] = u[i]
      BY <2>3, <3>1 DEF both
    <3> QED
      BY <1>1, <2>1, <2>2, <2>4, <3>1, <3>2 DEF both
  <2>5. CASE a >= addr + m /\ a < (addr + m) + n
    <3>1. i \in 1 .. m + n /\ ~(i <= m) /\ i - m = a - (addr + m) + 1
      BY <1>1, <2>1, <2>5
    <3>2. both[i] = w[i - m]
      BY <2>3, <3>1 DEF both
    <3> QED
      BY <1>1, <2>1, <2>5, <3>1, <3>2 DEF both
  <2>6. CASE a < addr \/ a >= (addr + m) + n
    <3>1. ~(a >= addr /\ a < addr + m) /\ ~(a >= addr + m /\ a < (addr + m) + n)
      BY <1>1, <2>1, <2>6
    <3>2. ~(a >= addr /\ a < addr + (m + n))
      BY <1>1, <2>1, <2>6
    <3> QED
      BY <1>1, <2>2, <3>1, <3>2
  <2> QED
    BY <1>1, <2>1, <2>4, <2>5, <2>6
<1>4. Written(first, addr + m, w)
        = [a \in DOMAIN memory |->
             IF a >= addr + m /\ a < (addr + m) + n THEN w[a - (addr + m) + 1] ELSE first[a]]
  BY <1>2 DEF Written
<1> HIDE DEF first
<1>5. Written(memory, addr, u \o w)
        = [a \in DOMAIN memory |->
             IF a >= addr /\ a < addr + Len(u \o w) THEN (u \o w)[a - addr + 1] ELSE memory[a]]
  BY DEF Written
<1> QED
  BY <1>3, <1>4, <1>5 DEF first

\* The first n pieces.
FirstPieces(list, n) == SubSeq(list, 1, n)

\* They are a list of pieces again.
LEMMA FirstPiecesType ==
  ASSUME NEW S, NEW list \in Seq(Seq(S)), NEW n \in 0 .. Len(list)
  PROVE  FirstPieces(list, n) \in Lists(S, n)
<1>1. SubSeq(list, 1, n) \in Seq(Seq(S)) /\ Len(SubSeq(list, 1, n)) = n
  BY SubSeqProperties
<1> QED
  BY <1>1 DEF FirstPieces, Lists

\* The bytes in the first n work requests.
DataOf(list, s, n) == FlattenSeq(FirstPieces(list, Packed(list, s, n)))

\* The pieces of a work request extend those before it, and are gathered.
Extends(S, list, dest, s, r) ==
  LET wr == WriteRequests(list, dest, s)[r] IN
  /\ DataOf(list, s, r) \in Seq(S) /\ Gathered(list, wr) \in Seq(S)
  /\ wr.remote_addr = dest + Len(DataOf(list, s, r))
  /\ DataOf(list, s, r + 1) = DataOf(list, s, r) \o Gathered(list, wr)

\* A work request starts where the ones before it end, and adds its pieces.
LEMMA RequestPieces ==
  ASSUME NEW S, NEW list, NEW dest \in Nat, NEW s, Packable(S, list, s),
         NEW r \in 0 .. kCntWr(list, s) - 1
  PROVE  Extends(S, list, dest, s, r)
<1> DEFINE L == Len(list)
           K == kCntWr(list, s)
           p == Packed(list, s, r)
           q == Packed(list, s, r + 1)
           num == NumSge(list, s, r)
           wr == WriteRequests(list, dest, s)[r]
           piece == [t \in 1 .. num |-> list[p + t]]
<1>1. /\ L \in Nat \ {0} /\ p \in 0 .. L - 1 /\ p = r * s /\ num \in Nat \ {0}
      /\ q = p + num /\ q \in 0 .. L
  BY PackedFacts
<1>2. list \in Seq(Seq(S))
  BY DEF Packable
<1>3. wr.sg_list = p /\ wr.num_sge = num /\ wr.remote_addr = dest + acc_size(list, p)
  BY <1>1 DEF WriteRequests
<1> HIDE DEF L, K, p, q, num, wr
<1>4. piece \in Lists(S, num)
  <2>1. \A t \in 1 .. num : list[p + t] \in Seq(S)
    <3> TAKE t \in 1 .. num
    <3>1. p + t \in 1 .. L
      BY <1>1
    <3> QED
      BY <1>2, <3>1 DEF L
  <2>2. piece \in [1 .. num -> Seq(S)]
    BY <2>1
  <2>3. piece \in Seq(Seq(S)) /\ Len(piece) = num
    BY <1>1, <2>2
  <2> QED
    BY <2>3 DEF Lists
<1>5. Gathered(list, wr) = FlattenSeq(piece)
  <2>1. \A t \in 1 .. num : p + t <= Len(list)
    BY <1>1 DEF L
  <2>2. piece = [t \in 1 .. num |-> IF p + t <= Len(list) THEN list[p + t] ELSE << >>]
    BY <2>1
  <2> HIDE DEF piece
  <2> QED
    BY <1>3, <2>2 DEF Gathered
<1>6. FirstPieces(list, p) \in Lists(S, p) /\ FirstPieces(list, q) \in Lists(S, q)
  <2>1. p \in 0 .. Len(list) /\ q \in 0 .. Len(list)
    BY <1>1 DEF L
  <2> QED
    BY <1>2, <2>1, FirstPiecesType
<1>7. FirstPieces(list, q) = FirstPieces(list, p) \o piece
  <2> DEFINE u == FirstPieces(list, p)
             w == FirstPieces(list, q)
  <2>1. u \in Seq(Seq(S)) /\ Len(u) = p /\ w \in Seq(Seq(S)) /\ Len(w) = q
    BY <1>6 DEF Lists
  <2>2. piece \in Seq(Seq(S)) /\ Len(piece) = num
    BY <1>4 DEF Lists
  <2>3. \A i \in 1 .. p : u[i] = list[i]
    BY <1>1, <1>2 DEF FirstPieces
  <2>4. \A i \in 1 .. q : w[i] = list[i]
    BY <1>1, <1>2 DEF FirstPieces
  <2>5. \A i \in 1 .. num : piece[i] = list[p + i]
    OBVIOUS
  <2> HIDE DEF u, w, piece
  <2>6. u \o piece \in Seq(Seq(S)) /\ Len(u \o piece) = q
    BY <1>1, <2>1, <2>2, ConcatProperties
  <2>7. ASSUME NEW i \in 1 .. q PROVE (u \o piece)[i] = w[i]
    <3>1. (u \o piece)[i] = IF i <= p THEN u[i] ELSE piece[i - p]
      BY <1>1, <2>1, <2>2, ConcatProperties
    <3>2. CASE i <= p
      BY <1>1, <2>3, <2>4, <3>1, <3>2
    <3>3. CASE ~(i <= p)
      <4>1. i - p \in 1 .. num /\ p + (i - p) = i
        BY <1>1, <3>3
      <4> QED
        BY <2>4, <2>5, <3>1, <3>3, <4>1
    <3> QED
      BY <3>2, <3>3
  <2>8. u \o piece = w
    BY <2>1, <2>6, <2>7, SeqEqual
  <2> QED
    BY <2>8 DEF u, w
<1> HIDE DEF piece
<1>8. FlattenSeq(FirstPieces(list, p) \o piece) = FlattenSeq(FirstPieces(list, p)) \o FlattenSeq(piece)
  <2>1. p \in Nat /\ num \in Nat
    BY <1>1
  <2>2. \A u \in Lists(S, p), w \in Lists(S, num) :
          FlattenSeq(u \o w) = FlattenSeq(u) \o FlattenSeq(w)
    BY <2>1, FlattenConcat
  <2> QED
    BY <1>4, <1>6, <2>2, Zenon
<1>9. FlattenSeq(FirstPieces(list, p)) \in Seq(S) /\ FlattenSeq(piece) \in Seq(S)
  <2>1. p \in Nat /\ num \in Nat
    BY <1>1
  <2> QED
    BY <1>4, <1>6, <2>1, FlattenType
<1>10. acc_size(list, p) = Len(FlattenSeq(FirstPieces(list, p)))
  BY DEF acc_size, FirstPieces
<1> QED
  BY <1>3, <1>5, <1>7, <1>8, <1>9, <1>10 DEF p, q, wr, DataOf, Extends

\* The chain leads from each work request through all behind it.
ChainOf(wrs) ==
  CHOOSE then : then = [r \in DOMAIN wrs |->
    IF wrs[r].next = NullWr THEN <<r>> ELSE <<r>> \o then[wrs[r].next]]

\* A chain that goes from each work request to the next is executed in order.
LEMMA ChainOrder ==
  ASSUME NEW K \in Nat \ {0}, NEW wrs, DOMAIN wrs = 0 .. K - 1,
         \A r \in 0 .. K - 1 : wrs[r].next = IF r = K - 1 THEN NullWr ELSE r + 1
  PROVE  ChainOf(wrs)[0] = [i \in 1 .. K |-> i - 1]
<1> DEFINE from(r) == [i \in 1 .. K - r |-> (r + i) - 1]
           whole == [r \in DOMAIN wrs |-> from(r)]
           then == ChainOf(wrs)
           D == {n \in 0 .. K - 1 : then[(K - 1) - n] = from((K - 1) - n)}
<1>1. from(K - 1) = <<K - 1>>
  <2>1. K - (K - 1) = 1 /\ ((K - 1) + 1) - 1 = K - 1
    OBVIOUS
  <2>2. from(K - 1) = [i \in 1 .. 1 |-> K - 1]
    BY <2>1
  <2> QED
    BY <2>2
<1>2. ASSUME NEW r \in 0 .. K - 2 PROVE from(r) = <<r>> \o from(r + 1)
  <2> DEFINE u == from(r + 1)
             w == <<r>> \o u
  <2>1. u \in Seq(Int) /\ Len(u) = (K - r) - 1
    <3>1. (K - r) - 1 \in Nat /\ u = [i \in 1 .. (K - r) - 1 |-> r + i]
      OBVIOUS
    <3> QED
      BY <3>1
  <2>2. \A i \in 1 .. (K - r) - 1 : u[i] = r + i
    OBVIOUS
  <2> HIDE DEF u
  <2>3. <<r>> \in Seq(Int) /\ Len(<<r>>) = 1 /\ <<r>>[1] = r
    OBVIOUS
  <2>4. w \in Seq(Int) /\ Len(w) = K - r
    BY <2>1, <2>3, ConcatProperties
  <2>5. from(r) \in Seq(Int) /\ Len(from(r)) = K - r
    OBVIOUS
  <2>6. ASSUME NEW i \in 1 .. K - r PROVE w[i] = from(r)[i]
    <3>1. w[i] = IF i <= 1 THEN <<r>>[i] ELSE u[i - 1]
      BY <2>1, <2>3, ConcatProperties
    <3>2. from(r)[i] = (r + i) - 1
      OBVIOUS
    <3>3. i # 1 => u[i - 1] = r + (i - 1)
      BY <2>2
    <3> HIDE DEF w, from
    <3> QED
      BY <2>3, <3>1, <3>2, <3>3
  <2> HIDE DEF w, from
  <2>7. w = from(r)
    BY <2>4, <2>5, <2>6, SeqEqual
  <2> QED
    BY <2>7 DEF w, u
<1> HIDE DEF from
<1>3. whole = [r \in DOMAIN wrs |->
        IF wrs[r].next = NullWr THEN <<r>> ELSE <<r>> \o whole[wrs[r].next]]
  <2>1. ASSUME NEW r \in 0 .. K - 1
        PROVE from(r) = IF wrs[r].next = NullWr THEN <<r>> ELSE <<r>> \o whole[wrs[r].next]
    <3>1. CASE r = K - 1
      BY <1>1, <3>1
    <3>2. CASE r # K - 1
      <4>1. r \in 0 .. K - 2 /\ r + 1 \in 0 .. K - 1 /\ wrs[r].next = r + 1
        BY <3>2
      <4>2. wrs[r].next # NullWr
        BY <4>1, NullAssumption
      <4>3. whole[r + 1] = from(r + 1)
        BY <4>1
      <4> QED
        BY <1>2, <4>1, <4>2, <4>3
    <3> QED
      BY <3>1, <3>2
  <2> QED
    BY <2>1
<1> HIDE DEF whole
<1>4. then = [r \in DOMAIN wrs |->
        IF wrs[r].next = NullWr THEN <<r>> ELSE <<r>> \o then[wrs[r].next]]
  BY <1>3, Zenon DEF ChainOf
<1> HIDE DEF then
<1>5. 0 \in D
  <2>1. (K - 1) - 0 = K - 1 /\ K - 1 \in DOMAIN wrs /\ 0 \in 0 .. K - 1
    OBVIOUS
  <2>2. then[K - 1] = <<K - 1>>
    BY <1>4, <2>1
  <2> QED
    BY <1>1, <2>1, <2>2
<1>6. ASSUME NEW n \in 1 .. K - 1, n - 1 \in D PROVE n \in D
  <2> DEFINE r == (K - 1) - n
  <2>1. /\ r \in 0 .. K - 2 /\ r \in DOMAIN wrs /\ (K - 1) - (n - 1) = r + 1
        /\ wrs[r].next = r + 1 /\ n \in 0 .. K - 1
    OBVIOUS
  <2>2. wrs[r].next # NullWr
    BY <2>1, NullAssumption
  <2>3. then[r + 1] = from(r + 1)
    BY <1>6, <2>1
  <2> HIDE DEF r
  <2>4. then[r] = <<r>> \o then[r + 1]
    BY <1>4, <2>1, <2>2
  <2>5. then[r] = from(r)
    BY <1>2, <2>1, <2>3, <2>4
  <2> QED
    BY <2>1, <2>5 DEF r
<1> HIDE DEF D
<1>7. 0 .. K - 1 \subseteq D
  <2>1. K - 1 \in Nat
    OBVIOUS
  <2> QED
    BY <1>5, <1>6, <2>1, RangeInduction
<1>8. then[0] = from(0)
  <2>1. K - 1 \in D /\ (K - 1) - (K - 1) = 0
    BY <1>7
  <2> QED
    BY <2>1 DEF D
<1>9. from(0) = [i \in 1 .. K |-> i - 1]
  BY DEF from
<1> QED
  BY <1>8, <1>9 DEF then

\* What the chain leaves in memory, work request by work request.
MemoryAfter(list, wrs, order, memory) ==
  CHOOSE after : after = [n \in 0 .. Len(order) |->
    IF n = 0 THEN memory
    ELSE LET wr == wrs[order[n]]
         IN  Written(after[n - 1], wr.remote_addr, Gathered(list, wr))]

\* Executed is that chain and the memory after it.
LEMMA ExecutedChain ==
  ASSUME NEW list, NEW wrs, NEW memory
  PROVE  LET order == ChainOf(wrs)[0] IN
         Executed(list, wrs, memory)
           = [order |-> order, memory |-> MemoryAfter(list, wrs, order, memory)[Len(order)]]
BY DEF Executed, ChainOf, MemoryAfter

\* After all work requests all pieces are written.
LEMMA ChainMemory ==
  ASSUME NEW S, NEW list, NEW dest \in Nat, NEW s, Packable(S, list, s),
         NEW memory, memory = [a \in DOMAIN memory |-> memory[a]], DOMAIN memory \subseteq Nat
  PROVE  LET K     == kCntWr(list, s)
             order == [i \in 1 .. K |-> i - 1]
         IN  MemoryAfter(list, WriteRequests(list, dest, s), order, memory)[K]
               = Written(memory, dest, FlattenSeq(list))
<1> DEFINE K == kCntWr(list, s)
           wrs == WriteRequests(list, dest, s)
           order == [i \in 1 .. K |-> i - 1]
           data(n) == DataOf(list, s, n)
           upTo == [n \in 0 .. K |-> Written(memory, dest, data(n))]
           after == MemoryAfter(list, wrs, order, memory)
           D == {n \in 0 .. K : after[n] = Written(memory, dest, data(n))}
<1>1. K \in Nat \ {0} /\ Packed(list, s, 0) = 0 /\ Packed(list, s, K) = Len(list)
  BY PackedFacts
<1>2. list \in Seq(Seq(S))
  BY DEF Packable
<1>3. ASSUME NEW r \in 0 .. K - 1
      PROVE  /\ data(r) \in Seq(S) /\ Gathered(list, wrs[r]) \in Seq(S)
             /\ wrs[r].remote_addr = dest + Len(data(r))
             /\ data(r + 1) = data(r) \o Gathered(list, wrs[r])
  <2>1. Extends(S, list, dest, s, r)
    BY RequestPieces
  <2> QED
    BY <2>1 DEF Extends
<1>4. data(0) = << >>
  <2>1. 0 \in 0 .. Len(list) /\ 0 \in Nat
    BY <1>2
  <2>2. FirstPieces(list, 0) \in Lists(S, 0)
    BY <1>2, <2>1, FirstPiecesType
  <2>3. FlattenSeq(FirstPieces(list, 0)) = << >>
    <3>1. \A i \in 1 .. 0 : FirstPieces(list, 0)[i] = << >>
      OBVIOUS
    <3> QED
      BY <2>1, <2>2, <3>1, FlattenEmpty
  <2> QED
    BY <1>1, <2>3 DEF DataOf
<1>5. data(K) = FlattenSeq(list)
  <2>1. FirstPieces(list, Len(list)) = list
    BY <1>2 DEF FirstPieces
  <2> QED
    BY <1>1, <2>1 DEF DataOf
<1>6. Len(order) = K /\ \A n \in 1 .. K : order[n] = n - 1 /\ n - 1 \in 0 .. K - 1
  BY <1>1
<1> HIDE DEF K, wrs, order, data
<1>7. Written(memory, dest, data(0)) = memory
  BY <1>4, WrittenNone
<1>8. ASSUME NEW n \in 1 .. K
      PROVE  Written(memory, dest, data(n))
               = LET wr == wrs[order[n]]
                 IN  Written(Written(memory, dest, data(n - 1)), wr.remote_addr, Gathered(list, wr))
  <2> DEFINE r == n - 1
  <2>1. r \in 0 .. K - 1 /\ n = r + 1 /\ order[n] = r
    BY <1>1, <1>6
  <2> HIDE DEF r
  <2>2. /\ data(r) \in Seq(S) /\ Gathered(list, wrs[r]) \in Seq(S)
        /\ wrs[r].remote_addr = dest + Len(data(r))
        /\ data(n) = data(r) \o Gathered(list, wrs[r])
    BY <1>3, <2>1
  <2>3. Written(Written(memory, dest, data(r)), dest + Len(data(r)), Gathered(list, wrs[r]))
          = Written(memory, dest, data(r) \o Gathered(list, wrs[r]))
    <3>1. \A u, w \in Seq(S) :
            Written(Written(memory, dest, u), dest + Len(u), w) = Written(memory, dest, u \o w)
      BY WrittenTwice
    <3> QED
      BY <2>2, <3>1, Zenon
  <2> QED
    BY <2>1, <2>2, <2>3 DEF r
<1>9. upTo = [n \in 0 .. Len(order) |->
        IF n = 0 THEN memory
        ELSE LET wr == wrs[order[n]]
             IN  Written(upTo[n - 1], wr.remote_addr, Gathered(list, wr))]
  <2>1. ASSUME NEW n \in 0 .. K
        PROVE  Written(memory, dest, data(n))
                 = IF n = 0 THEN memory
                   ELSE LET wr == wrs[order[n]]
                        IN  Written(upTo[n - 1], wr.remote_addr, Gathered(list, wr))
    <3>1. CASE n = 0
      BY <1>7, <3>1
    <3>2. CASE n # 0
      <4>1. n \in 1 .. K /\ n - 1 \in 0 .. K
        BY <1>1, <3>2
      <4>2. upTo[n - 1] = Written(memory, dest, data(n - 1))
        BY <4>1
      <4> QED
        BY <1>8, <3>2, <4>1, <4>2
    <3> QED
      BY <3>1, <3>2
  <2> QED
    BY <1>6, <2>1
<1> HIDE DEF upTo
<1>10. after = [n \in 0 .. Len(order) |->
        IF n = 0 THEN memory
        ELSE LET wr == wrs[order[n]]
             IN  Written(after[n - 1], wr.remote_addr, Gathered(list, wr))]
  BY <1>9, Zenon DEF MemoryAfter
<1> HIDE DEF after
<1>11. 0 \in D
  BY <1>1, <1>6, <1>7, <1>10
<1>12. ASSUME NEW n \in 1 .. K, n - 1 \in D PROVE n \in D
  <2>1. n \in 0 .. K /\ n # 0 /\ after[n - 1] = Written(memory, dest, data(n - 1))
    BY <1>1, <1>12
  <2>2. after[n] = LET wr == wrs[order[n]]
                   IN  Written(after[n - 1], wr.remote_addr, Gathered(list, wr))
    BY <1>6, <1>10, <2>1
  <2> QED
    BY <1>8, <2>1, <2>2
<1> HIDE DEF D
<1>13. 0 .. K \subseteq D
  BY <1>1, <1>11, <1>12, RangeInduction
<1>14. after[K] = Written(memory, dest, data(K))
  <2>1. K \in D
    BY <1>1, <1>13
  <2> QED
    BY <2>1 DEF D
<1> QED
  BY <1>5, <1>14 DEF after, order, wrs, K

\* However the pieces are packed, they are written as one stretch, and the last
\* work request executed is the one whose completion is polled
\* (Operation.cpp, rdmaWriteVector).
THEOREM StretchWritten ==
  ASSUME NEW S, NEW list, NEW dest \in Nat, NEW s, Packable(S, list, s),
         NEW memory, memory = [a \in DOMAIN memory |-> memory[a]], DOMAIN memory \subseteq Nat
  PROVE  VectorWritten(list, dest, s, memory)
<1> DEFINE K == kCntWr(list, s)
           wrs == WriteRequests(list, dest, s)
           order == [i \in 1 .. K |-> i - 1]
           done == Executed(list, wrs, memory)
<1>1. K \in Nat \ {0}
  BY PackedFacts
<1>2. /\ DOMAIN wrs = 0 .. K - 1
      /\ \A r \in 0 .. K - 1 : /\ wrs[r].next = IF r = K - 1 THEN NullWr ELSE r + 1
                               /\ wrs[r].signaled <=> r = K - 1
  BY DEF WriteRequests
<1> HIDE DEF K, wrs
<1>3. ChainOf(wrs)[0] = order /\ Len(order) = K /\ \A n \in 1 .. K : order[n] = n - 1
  BY <1>1, <1>2, ChainOrder
<1> HIDE DEF order
<1>4. done = [order |-> order, memory |-> MemoryAfter(list, wrs, order, memory)[K]]
  BY <1>3, ExecutedChain
<1>5. done.order = order /\ done.memory = MemoryAfter(list, wrs, order, memory)[K]
  BY <1>4
<1> HIDE DEF done
<1>6. done.memory = Written(memory, dest, FlattenSeq(list))
  BY <1>5, ChainMemory DEF K, wrs, order
<1>7. ASSUME NEW n \in 1 .. Len(done.order)
      PROVE  wrs[done.order[n]].signaled <=> n = Len(done.order)
  <2>1. n \in 1 .. K /\ n - 1 \in 0 .. K - 1 /\ done.order[n] = n - 1
    BY <1>1, <1>3, <1>5
  <2> QED
    BY <1>1, <1>2, <1>3, <1>5, <2>1
<1> QED
  BY <1>6, <1>7 DEF VectorWritten, done, wrs

-----------------------------------------------------------------------------
(***************************************************************************)
(* Messages (RpcMessage).                                                  *)
(***************************************************************************)

\* A byte in memory, of a value or of the length of a string.
Cell == (Value \cup Nat) \X Nat

\* The bytes of a value.
LEMMA BytesType ==
  ASSUME NEW v \in Value \cup Nat, NEW n \in Nat
  PROVE  Bytes(v, n) \in Seq(Cell) /\ Len(Bytes(v, n)) = n
BY DEF Bytes, Cell

\* The length of a string is read back from its bytes.
LEMMA BytesNumber ==
  ASSUME NEW n \in Nat
  PROVE  Number(Bytes(n, Uint32)) = n
<1>1. Uint32 \in Nat \ {0}
  BY SlotAssumption
<1>2. Bytes(n, Uint32) # << >> /\ Head(Bytes(n, Uint32)) = <<n, 1>>
  BY <1>1 DEF Bytes
<1> QED
  BY <1>2 DEF Number

\* What a field puts into the message.
FieldBytes(f) ==
  IF f.kind = "string" THEN Bytes(f.size, Uint32) \o Bytes(f.v, f.size) ELSE Bytes(f.v, f.size)

\* How many bytes that is.
LEMMA FieldBytesType ==
  ASSUME NEW f \in FieldInput
  PROVE  /\ FieldBytes(f) \in Seq(Cell)
         /\ Len(FieldBytes(f)) = (IF f.kind = "string" THEN Uint32 ELSE 0) + f.size
<1>1. f.v \in Value /\ f.size \in Nat /\ Uint32 \in Nat
  BY SlotAssumption DEF FieldInput
<1>2. Bytes(f.v, f.size) \in Seq(Cell) /\ Len(Bytes(f.v, f.size)) = f.size
  BY <1>1, BytesType
<1>3. Bytes(f.size, Uint32) \in Seq(Cell) /\ Len(Bytes(f.size, Uint32)) = Uint32
  BY <1>1, BytesType
<1>4. /\ Bytes(f.size, Uint32) \o Bytes(f.v, f.size) \in Seq(Cell)
      /\ Len(Bytes(f.size, Uint32) \o Bytes(f.v, f.size)) = Uint32 + f.size
  <2>1. \A t, u \in Seq(Cell) : t \o u \in Seq(Cell) /\ Len(t \o u) = Len(t) + Len(u)
    BY ConcatProperties
  <2> QED
    BY <1>2, <1>3, <2>1
<1> QED
  BY <1>1, <1>2, <1>4 DEF FieldBytes

Message(node, thread, content) == [node_id |-> node, t_id |-> thread, msg |-> content]

\* AddField puts them at the end of the message.
LEMMA AddFieldBytes ==
  ASSUME NEW node, NEW thread, NEW content \in Seq(Cell), NEW f \in FieldInput
  PROVE  AddField(Message(node, thread, content), f)
           = Message(node, thread, content \o FieldBytes(f))
<1>1. /\ f.kind \in {"value", "string", "bytes"} /\ f.v \in Value
      /\ f.size \in Nat /\ Uint32 \in Nat
  BY SlotAssumption DEF FieldInput
<1>2. \A c, w : [Message(node, thread, c) EXCEPT !.msg = @ \o w] = Message(node, thread, c \o w)
  <2> TAKE c, w
  <2> DEFINE m == Message(node, thread, c)
             x == c \o w
  <2>1. m.msg \o w = x
    BY DEF Message
  <2> HIDE DEF x
  <2>2. [[node_id |-> node, t_id |-> thread, msg |-> c] EXCEPT !.msg = x]
          = [node_id |-> node, t_id |-> thread, msg |-> x]
    OBVIOUS
  <2>3. [m EXCEPT !.msg = x] = Message(node, thread, x)
    BY <2>2, Zenon DEF Message
  <2> HIDE DEF m
  <2>4. [m EXCEPT !.msg = @ \o w] = Message(node, thread, x)
    BY <2>1, <2>3, Zenon
  <2> QED
    BY <2>4 DEF m, x
<1>3. CASE f.kind = "string"
  <2>1. Bytes(f.v, f.size) \in Seq(Cell) /\ Bytes(f.size, Uint32) \in Seq(Cell)
    BY <1>1, BytesType
  <2>2. AddField(Message(node, thread, content), f)
          = Message(node, thread, (content \o Bytes(f.size, Uint32)) \o Bytes(f.v, f.size))
    BY <1>2, <1>3 DEF AddField, add_string, add, add_string_wo_size
  <2>3. (content \o Bytes(f.size, Uint32)) \o Bytes(f.v, f.size) = content \o FieldBytes(f)
    <3>1. \A t, u, w \in Seq(Cell) : t \o (u \o w) = (t \o u) \o w
      BY ConcatAssociative, SMTT(30)
    <3> QED
      BY <1>3, <2>1, <3>1, Zenon DEF FieldBytes
  <2> QED
    BY <2>2, <2>3
<1>4. CASE f.kind # "string"
  <2>1. AddField(Message(node, thread, content), f)
          = Message(node, thread, content \o Bytes(f.v, f.size))
    BY <1>1, <1>2, <1>4 DEF AddField, add, add_string_wo_size
  <2> QED
    BY <1>4, <2>1 DEF FieldBytes
<1> QED
  BY <1>3, <1>4

\* The first n fields in memory.
Content(fields, n) == FlattenSeq([i \in 1 .. n |-> FieldBytes(fields[i])])

\* The bytes of b fields behind the first a are a list of sequences.
LEMMA ContentList ==
  ASSUME NEW fields \in Seq(FieldInput), NEW a \in Nat, NEW b \in 0 .. Len(fields) - a
  PROVE  [i \in 1 .. b |-> FieldBytes(fields[a + i])] \in Lists(Cell, b)
<1>1. b \in Nat /\ \A i \in 1 .. b : a + i \in 1 .. Len(fields)
  OBVIOUS
<1>2. \A i \in 1 .. b : FieldBytes(fields[a + i]) \in Seq(Cell)
  BY <1>1, FieldBytesType
<1>3. [i \in 1 .. b |-> FieldBytes(fields[a + i])] \in [1 .. b -> Seq(Cell)]
  BY <1>2
<1> QED
  BY <1>1, <1>3, SMTT(30) DEF Lists

\* What is in memory are bytes.
LEMMA ContentType ==
  ASSUME NEW fields \in Seq(FieldInput), NEW n \in 0 .. Len(fields)
  PROVE  Content(fields, n) \in Seq(Cell)
<1>1. [i \in 1 .. n |-> FieldBytes(fields[0 + i])] \in Lists(Cell, n)
  <2>1. 0 \in Nat /\ n \in 0 .. Len(fields) - 0
    OBVIOUS
  <2> QED
    BY <2>1, ContentList, ZenonT(30)
<1>2. [i \in 1 .. n |-> FieldBytes(fields[0 + i])] = [i \in 1 .. n |-> FieldBytes(fields[i])]
  OBVIOUS
<1> QED
  BY <1>1, <1>2, FlattenType DEF Content

\* Without a field there are none.
LEMMA ContentNone ==
  ASSUME NEW fields \in Seq(FieldInput)
  PROVE  Content(fields, 0) = << >>
<1> DEFINE q == [i \in 1 .. 0 |-> FieldBytes(fields[i])]
<1>1. q \in Lists(Cell, 0) /\ \A i \in 1 .. 0 : q[i] = << >>
  <2>1. q = << >>
    OBVIOUS
  <2> QED
    BY <2>1 DEF Lists
<1> HIDE DEF q
<1>2. FlattenSeq(q) = << >>
  <2>1. 0 \in Nat
    OBVIOUS
  <2> QED
    BY <1>1, <2>1, FlattenEmpty
<1> QED
  BY <1>2 DEF q, Content

\* What is in memory is what the first fields put there, and then the others.
LEMMA ContentSplit ==
  ASSUME NEW fields \in Seq(FieldInput), NEW a \in Nat, NEW b \in 0 .. Len(fields) - a
  PROVE  Content(fields, a + b)
           = Content(fields, a) \o FlattenSeq([i \in 1 .. b |-> FieldBytes(fields[a + i])])
<1> DEFINE u == [i \in 1 .. a |-> FieldBytes(fields[i])]
           w == [i \in 1 .. b |-> FieldBytes(fields[a + i])]
           q == [i \in 1 .. a + b |-> FieldBytes(fields[i])]
<1>0. a \in Nat /\ b \in Nat /\ a + b \in Nat
  OBVIOUS
<1>1. w \in Lists(Cell, b)
  BY ContentList
<1>2. u \in Lists(Cell, a)
  <2>1. 0 \in Nat /\ a \in 0 .. Len(fields) - 0
    OBVIOUS
  <2>2. [i \in 1 .. a |-> FieldBytes(fields[0 + i])] \in Lists(Cell, a)
    BY <2>1, ContentList
  <2>3. [i \in 1 .. a |-> FieldBytes(fields[0 + i])] = u
    OBVIOUS
  <2> QED
    BY <2>2, <2>3
<1>3. q \in Lists(Cell, a + b)
  <2>1. 0 \in Nat /\ a + b \in 0 .. Len(fields) - 0
    OBVIOUS
  <2>2. [i \in 1 .. a + b |-> FieldBytes(fields[0 + i])] \in Lists(Cell, a + b)
    BY <2>1, ContentList
  <2>3. [i \in 1 .. a + b |-> FieldBytes(fields[0 + i])] = q
    OBVIOUS
  <2> QED
    BY <2>2, <2>3
<1>4. /\ \A i \in 1 .. a : q[i] = u[i]
      /\ \A i \in 1 .. b : q[a + i] = w[i]
  OBVIOUS
<1>5. Content(fields, a) = FlattenSeq(u) /\ Content(fields, a + b) = FlattenSeq(q)
  BY DEF Content
<1> HIDE DEF u, w, q
<1>6. q = u \o w
  <2>1. /\ u \in Seq(Seq(Cell)) /\ Len(u) = a /\ w \in Seq(Seq(Cell)) /\ Len(w) = b
        /\ q \in Seq(Seq(Cell)) /\ Len(q) = a + b
    BY <1>1, <1>2, <1>3 DEF Lists
  <2>2. u \o w \in Seq(Seq(Cell)) /\ Len(u \o w) = a + b
    BY <2>1, ConcatProperties
  <2>3. ASSUME NEW i \in 1 .. a + b PROVE q[i] = (u \o w)[i]
    <3>1. (u \o w)[i] = IF i <= a THEN u[i] ELSE w[i - a]
      BY <2>1, ConcatProperties
    <3>2. CASE i <= a
      BY <1>4, <3>1, <3>2
    <3>3. CASE ~(i <= a)
      <4>1. i - a \in 1 .. b /\ a + (i - a) = i
        BY <1>0, <3>3
      <4>2. q[a + (i - a)] = w[i - a]
        BY <1>4, <4>1
      <4> QED
        BY <3>1, <3>3, <4>1, <4>2
    <3> QED
      BY <3>2, <3>3
  <2> QED
    BY <2>1, <2>2, <2>3, SeqEqual
<1>7. FlattenSeq(u \o w) = FlattenSeq(u) \o FlattenSeq(w)
  BY <1>0, <1>1, <1>2, FlattenConcat
<1> QED
  BY <1>5, <1>6, <1>7 DEF w

\* One sequence is its own elements.
LEMMA FlattenOne ==
  ASSUME NEW S, NEW x \in Seq(S), NEW q \in Lists(S, 1), q[1] = x
  PROVE  FlattenSeq(q) = x
<1> DEFINE f == [i \in 0 .. 1 |-> IF i = 0 THEN << >> ELSE x]
<1>1. << >> \o x = x
  BY ConcatEmptySeq
<1>2. f \in [0 .. 1 -> Seq(S)] /\ f[0] = << >> /\ f[1] = x
  OBVIOUS
<1>3. \A i \in 1 .. 1 : f[i] = f[i - 1] \o q[i]
  <2> TAKE i \in 1 .. 1
  <2>1. i = 1 /\ i - 1 = 0
    OBVIOUS
  <2> HIDE DEF f
  <2> QED
    BY <1>1, <1>2, <2>1
<1> HIDE DEF f
<1>4. Partial(S, q, 1, f)
  BY <1>2, <1>3 DEF Partial
<1>5. f[1] = FlattenSeq(q)
  <2>1. 1 \in Nat
    OBVIOUS
  <2> QED
    BY <1>4, <2>1, PartialIsFlatten
<1> QED
  BY <1>2, <1>5

\* Field by field.
LEMMA ContentStep ==
  ASSUME NEW fields \in Seq(FieldInput), NEW n \in 1 .. Len(fields)
  PROVE  Content(fields, n) = Content(fields, n - 1) \o FieldBytes(fields[n])
<1> DEFINE q == [i \in 1 .. 1 |-> FieldBytes(fields[(n - 1) + i])]
<1>1. n - 1 \in Nat /\ 1 \in 0 .. Len(fields) - (n - 1) /\ (n - 1) + 1 = n
  OBVIOUS
<1>2. q \in Lists(Cell, 1)
  BY <1>1, ContentList
<1>3. q[1] = FieldBytes(fields[n])
  BY <1>1
<1>4. Content(fields, (n - 1) + 1) = Content(fields, n - 1) \o FlattenSeq(q)
  BY <1>1, ContentSplit
<1>5. FieldBytes(fields[n]) \in Seq(Cell)
  BY FieldBytesType
<1> HIDE DEF q
<1>6. FlattenSeq(q) = FieldBytes(fields[n])
  BY <1>2, <1>3, <1>5, FlattenOne
<1> QED
  BY <1>1, <1>4, <1>6

\* What a caller has filled in.
LEMMA FilledContent ==
  ASSUME NEW fields \in Seq(FieldInput)
  PROVE  Filled(fields) = Message(Nothing, Nothing, Content(fields, Len(fields)))
<1> DEFINE N == Len(fields)
           want(n) == Message(Nothing, Nothing, Content(fields, n))
           whole == [n \in 0 .. N |-> want(n)]
           filled == CHOOSE filled : filled = [n \in 0 .. N |->
             IF n = 0 THEN [node_id |-> Nothing, t_id |-> Nothing, msg |-> << >>]
                      ELSE AddField(filled[n - 1], fields[n])]
           D == {n \in 0 .. N : filled[n] = want(n)}
<1>1. N \in Nat
  OBVIOUS
<1>2. want(0) = [node_id |-> Nothing, t_id |-> Nothing, msg |-> << >>]
  BY ContentNone DEF Message
<1>3. ASSUME NEW n \in 1 .. N PROVE want(n) = AddField(want(n - 1), fields[n])
  <2>1. n - 1 \in 0 .. Len(fields) /\ fields[n] \in FieldInput
    OBVIOUS
  <2>2. Content(fields, n - 1) \in Seq(Cell)
    BY <2>1, ContentType
  <2>3. Content(fields, n) = Content(fields, n - 1) \o FieldBytes(fields[n])
    BY ContentStep
  <2> QED
    BY <2>1, <2>2, <2>3, AddFieldBytes
<1>4. Filled(fields) = filled[N]
  BY DEF Filled
<1> HIDE DEF N, want
<1>5. whole = [n \in 0 .. N |->
        IF n = 0 THEN [node_id |-> Nothing, t_id |-> Nothing, msg |-> << >>]
                 ELSE AddField(whole[n - 1], fields[n])]
  <2>1. ASSUME NEW n \in 0 .. N
        PROVE want(n) = IF n = 0 THEN [node_id |-> Nothing, t_id |-> Nothing, msg |-> << >>]
                                 ELSE AddField(whole[n - 1], fields[n])
    <3>1. CASE n = 0
      BY <1>2, <3>1
    <3>2. CASE n # 0
      <4>1. n \in 1 .. N /\ n - 1 \in 0 .. N
        BY <1>1, <3>2
      <4>2. whole[n - 1] = want(n - 1)
        BY <4>1
      <4> QED
        BY <1>3, <3>2, <4>1, <4>2
    <3> QED
      BY <3>1, <3>2
  <2> QED
    BY <2>1
<1> HIDE DEF whole
<1>6. filled = [n \in 0 .. N |->
        IF n = 0 THEN [node_id |-> Nothing, t_id |-> Nothing, msg |-> << >>]
                 ELSE AddField(filled[n - 1], fields[n])]
  BY <1>5, Zenon
<1> HIDE DEF filled
<1>7. 0 \in D
  BY <1>1, <1>2, <1>6
<1>8. ASSUME NEW n \in 1 .. N, n - 1 \in D PROVE n \in D
  <2>1. n \in 0 .. N /\ n # 0 /\ filled[n - 1] = want(n - 1)
    BY <1>1, <1>8
  <2> QED
    BY <1>3, <1>6, <2>1
<1> HIDE DEF D
<1>9. 0 .. N \subseteq D
  BY <1>1, <1>7, <1>8, RangeInduction
<1>10. filled[N] = want(N)
  <2>1. N \in D
    BY <1>1, <1>9
  <2> QED
    BY <2>1 DEF D
<1> QED
  BY <1>4, <1>10 DEF want, N

\* The first bytes behind t.
LEMMA MemoryAt ==
  ASSUME NEW m, NEW t \in Seq(Cell), NEW u \in Seq(Cell), NEW rest \in Seq(Cell),
         m.msg = (t \o u) \o rest
  PROVE  Memory(m, Len(t), Len(u)) = u
<1> DEFINE a == Len(t)
           n == Len(u)
           k == Len(rest)
           c == (t \o u) \o rest
<1>1. a \in Nat /\ n \in Nat /\ k \in Nat
  OBVIOUS
<1>2. t \o u \in Seq(Cell) /\ Len(t \o u) = a + n
  BY ConcatProperties
<1>3. c \in Seq(Cell) /\ Len(c) = (a + n) + k
  BY <1>2, ConcatProperties
<1>4. ASSUME NEW i \in 1 .. n PROVE c[a + i] = u[i]
  <2>1. a + i \in 1 .. a + n /\ a + i \in 1 .. (a + n) + k /\ ~(a + i <= a) /\ (a + i) - a = i
    BY <1>1
  <2>2. c[a + i] = (t \o u)[a + i]
    BY <1>2, <2>1, ConcatProperties
  <2>3. (t \o u)[a + i] = u[(a + i) - a]
    BY <2>1, ConcatProperties
  <2> QED
    BY <2>1, <2>2, <2>3
<1>5. m.msg = c
  OBVIOUS
<1> HIDE DEF c
<1>6. Memory(m, a, n) = SubSeq(c, a + 1, a + n)
  BY <1>1, <1>3, <1>5 DEF Memory
<1>7. SubSeq(c, a + 1, a + n) = u
  <2> DEFINE w == SubSeq(c, a + 1, a + n)
  <2>1. w \in Seq(Cell) /\ Len(w) = n /\ \A i \in 1 .. n : w[i] = c[a + i]
    <3> HIDE DEF a, n, k
    <3> QED
      BY <1>1, <1>3
  <2> HIDE DEF w
  <2>2. w = u
    BY <1>4, <2>1, SeqEqual
  <2> QED
    BY <2>2 DEF w
<1> QED
  BY <1>6, <1>7

\* Concatenation of bytes is associative.
LEMMA CellsAssociative ==
  \A x, y, z \in Seq(Cell) : x \o (y \o z) = (x \o y) \o z
BY ConcatAssociative

\* The receiver that is at a field finds it, and is behind it then.
LEMMA FieldFound ==
  ASSUME NEW m, NEW t \in Seq(Cell), NEW f \in FieldInput, NEW rest \in Seq(Cell),
         m.msg = (t \o FieldBytes(f)) \o rest
  PROVE  GetField(m, Len(t), f)
           = [bytes |-> Bytes(f.v, f.size), cur |-> Len(t) + Len(FieldBytes(f))]
<1>1. /\ f.kind \in {"value", "string", "bytes"} /\ f.v \in Value
      /\ f.size \in Nat /\ Uint32 \in Nat /\ Len(t) \in Nat
  BY SlotAssumption DEF FieldInput
<1> DEFINE a == Bytes(f.size, Uint32)
           b == Bytes(f.v, f.size)
<1>2. a \in Seq(Cell) /\ Len(a) = Uint32 /\ b \in Seq(Cell) /\ Len(b) = f.size
  BY <1>1, BytesType
<1>3. CASE f.kind = "string"
  <2>1. FieldBytes(f) = a \o b /\ Len(FieldBytes(f)) = Uint32 + f.size
    BY <1>3, FieldBytesType DEF FieldBytes
  <2> HIDE DEF a, b
  <2>2. b \o rest \in Seq(Cell) /\ t \o a \in Seq(Cell) /\ Len(t \o a) = Len(t) + Uint32
    BY <1>2, ConcatProperties
  <2>3. m.msg = (t \o a) \o (b \o rest) /\ m.msg = ((t \o a) \o b) \o rest
    <3>1. \A x, y, z \in Seq(Cell) : x \o (y \o z) = (x \o y) \o z
      BY CellsAssociative, Zenon
    <3>2. m.msg = (t \o (a \o b)) \o rest
      BY <2>1
    <3>3. t \o (a \o b) = (t \o a) \o b
      BY <1>2, <3>1, Zenon
    <3>4. (t \o a) \o (b \o rest) = ((t \o a) \o b) \o rest
      BY <1>2, <2>2, <3>1, ZenonT(40)
    <3> QED
      BY <3>2, <3>3, <3>4, Zenon
  <2>4. Memory(m, Len(t), Uint32) = a
    BY <1>2, <2>2, <2>3, MemoryAt
  <2>5. Memory(m, Len(t) + Uint32, f.size) = b
    <3>1. Memory(m, Len(t \o a), Len(b)) = b
      BY <1>2, <2>2, <2>3, MemoryAt
    <3> QED
      BY <1>2, <2>2, <3>1
  <2>6. Number(a) = f.size
    BY <1>1, BytesNumber DEF a
  <2>7. GetField(m, Len(t), f) = [bytes |-> b, cur |-> (Len(t) + Uint32) + f.size]
    BY <1>3, <2>4, <2>5, <2>6 DEF GetField, get_string, get, get_string_wo_size
  <2>8. (Len(t) + Uint32) + f.size = Len(t) + Len(FieldBytes(f))
    BY <1>1, <2>1
  <2> QED
    BY <2>7, <2>8 DEF b
<1>4. CASE f.kind # "string"
  <2>1. FieldBytes(f) = b
    BY <1>4 DEF FieldBytes
  <2> HIDE DEF a, b
  <2>2. Memory(m, Len(t), f.size) = b
    BY <1>2, <2>1, MemoryAt
  <2>3. GetField(m, Len(t), f) = [bytes |-> b, cur |-> Len(t) + f.size]
    BY <1>1, <1>4, <2>2 DEF GetField, get, get_string_wo_size
  <2> QED
    BY <1>2, <2>1, <2>3 DEF b
<1> QED
  BY <1>3, <1>4

\* What the receiver holds after n fields.
Held(sent, n) ==
  [found |-> [i \in 1 .. n |-> Bytes(sent[i].v, sent[i].size)], cur |-> Len(Content(sent, n))]

\* One field more.
LEMMA HeldNext ==
  ASSUME NEW sent \in Seq(FieldInput), NEW m, m.msg = Content(sent, Len(sent)),
         NEW n \in 1 .. Len(sent)
  PROVE  LET got == GetField(m, Held(sent, n - 1).cur, sent[n])
         IN  Held(sent, n) = [found |-> Append(Held(sent, n - 1).found, got.bytes), cur |-> got.cur]
<1> DEFINE N == Len(sent)
           f == sent[n]
           t == Content(sent, n - 1)
           rest == FlattenSeq([i \in 1 .. N - n |-> FieldBytes(sent[n + i])])
           B(i) == Bytes(sent[i].v, sent[i].size)
           before == [i \in 1 .. n - 1 |-> B(i)]
           after == [i \in 1 .. n |-> B(i)]
<1>1. /\ N \in Nat /\ n \in Nat /\ n - 1 \in 0 .. N /\ N - n \in 0 .. N - n
      /\ N - n \in Nat /\ n + (N - n) = N /\ f \in FieldInput
  OBVIOUS
<1>2. t \in Seq(Cell) /\ FieldBytes(f) \in Seq(Cell)
  BY <1>1, ContentType, FieldBytesType
<1>3. rest \in Seq(Cell)
  <2>1. [i \in 1 .. N - n |-> FieldBytes(sent[n + i])] \in Lists(Cell, N - n)
    BY <1>1, ContentList
  <2> QED
    BY <1>1, <2>1, FlattenType
<1>4. Content(sent, n) = t \o FieldBytes(f)
  BY ContentStep
<1>5. Content(sent, n + (N - n)) = Content(sent, n) \o rest
  BY <1>1, ContentSplit
<1>6. \A i \in 1 .. n : B(i) \in Seq(Cell)
  <2> TAKE i \in 1 .. n
  <2>1. sent[i] \in FieldInput
    OBVIOUS
  <2>2. sent[i].v \in Value /\ sent[i].size \in Nat
    BY <2>1 DEF FieldInput
  <2> QED
    BY <2>2, BytesType
<1>7. m.msg = Content(sent, N)
  OBVIOUS
<1>8. Held(sent, n - 1) = [found |-> before, cur |-> Len(t)]
  BY DEF Held
<1>9. Held(sent, n) = [found |-> after, cur |-> Len(Content(sent, n))]
  BY DEF Held
<1>10. B(n) = Bytes(f.v, f.size)
  OBVIOUS
<1> HIDE DEF N, f, t, rest, B
<1>11. m.msg = (t \o FieldBytes(f)) \o rest
  BY <1>1, <1>4, <1>5, <1>7
<1>12. GetField(m, Len(t), f) = [bytes |-> B(n), cur |-> Len(t) + Len(FieldBytes(f))]
  BY <1>1, <1>2, <1>3, <1>10, <1>11, FieldFound
<1>13. Append(before, B(n)) = after
  <2>1. before \in Seq(Seq(Cell)) /\ Len(before) = n - 1 /\ \A i \in 1 .. n - 1 : before[i] = B(i)
    BY <1>1, <1>6
  <2>2. after \in Seq(Seq(Cell)) /\ Len(after) = n /\ \A i \in 1 .. n : after[i] = B(i)
    BY <1>1, <1>6
  <2>3. B(n) \in Seq(Cell)
    BY <1>1, <1>6
  <2> HIDE DEF before, after
  <2>4. Append(before, B(n)) \in Seq(Seq(Cell)) /\ Len(Append(before, B(n))) = n
    BY <1>1, <2>1, <2>3
  <2>5. \A i \in 1 .. n : Append(before, B(n))[i] = B(i)
    BY <1>1, <2>1, <2>3
  <2>6. \A i \in 1 .. n : Append(before, B(n))[i] = after[i]
    BY <2>2, <2>5
  <2> QED
    BY <1>1, <2>2, <2>4, <2>6, SeqEqual
<1>14. Len(Content(sent, n)) = Len(t) + Len(FieldBytes(f))
  BY <1>2, <1>4, ConcatProperties
<1> HIDE DEF before, after
<1>15. sent[n] = f
  BY DEF f
<1>16. Held(sent, n - 1).cur = Len(t) /\ Held(sent, n - 1).found = before
  BY <1>8
<1>17. GetField(m, Held(sent, n - 1).cur, sent[n])
         = [bytes |-> B(n), cur |-> Len(t) + Len(FieldBytes(f))]
  BY <1>12, <1>15, <1>16
<1> DEFINE got == GetField(m, Held(sent, n - 1).cur, sent[n])
<1>18. got.bytes = B(n) /\ got.cur = Len(t) + Len(FieldBytes(f))
  BY <1>17
<1> HIDE DEF got
<1>19. Append(Held(sent, n - 1).found, got.bytes) = after /\ got.cur = Len(Content(sent, n))
  BY <1>13, <1>14, <1>16, <1>18
<1>20. Held(sent, n) = [found |-> Append(Held(sent, n - 1).found, got.bytes), cur |-> got.cur]
  BY <1>9, <1>19
<1> QED
  BY <1>20 DEF got

\* The receiver finds every field.
LEMMA TakenFound ==
  ASSUME NEW sent \in Seq(FieldInput), NEW m, m.msg = Content(sent, Len(sent))
  PROVE  Taken(m, sent) = [i \in 1 .. Len(sent) |-> Bytes(sent[i].v, sent[i].size)]
<1> DEFINE N == Len(sent)
           want(n) == Held(sent, n)
           Got(r, n) == GetField(m, r.cur, sent[n])
           Then(r, n) == [found |-> Append(r.found, Got(r, n).bytes), cur |-> Got(r, n).cur]
           whole == [n \in 0 .. N |-> want(n)]
           taken == CHOOSE taken : taken = [n \in 0 .. N |->
             IF n = 0 THEN [found |-> << >>, cur |-> 0]
             ELSE LET got == GetField(m, taken[n - 1].cur, sent[n])
                  IN  [found |-> Append(taken[n - 1].found, got.bytes), cur |-> got.cur]]
           D == {n \in 0 .. N : taken[n] = want(n)}
<1>1. N \in Nat
  OBVIOUS
<1>2. want(0) = [found |-> << >>, cur |-> 0]
  <2>1. Content(sent, 0) = << >>
    BY ContentNone
  <2>2. [i \in 1 .. 0 |-> Bytes(sent[i].v, sent[i].size)] = << >>
    OBVIOUS
  <2> QED
    BY <2>1, <2>2 DEF Held
<1>3. ASSUME NEW n \in 1 .. N PROVE want(n) = Then(want(n - 1), n)
  BY HeldNext
<1>4. Taken(m, sent) = taken[N].found
  BY DEF Taken
<1>5. want(N).found = [i \in 1 .. Len(sent) |-> Bytes(sent[i].v, sent[i].size)]
  BY DEF Held
<1> HIDE DEF N, want
<1>6. whole = [n \in 0 .. N |->
        IF n = 0 THEN [found |-> << >>, cur |-> 0] ELSE Then(whole[n - 1], n)]
  <2>1. ASSUME NEW n \in 0 .. N
        PROVE want(n) = IF n = 0 THEN [found |-> << >>, cur |-> 0] ELSE Then(whole[n - 1], n)
    <3>1. CASE n = 0
      BY <1>2, <3>1
    <3>2. CASE n # 0
      <4>1. n \in 1 .. N /\ n - 1 \in 0 .. N
        BY <1>1, <3>2
      <4>2. whole[n - 1] = want(n - 1)
        BY <4>1
      <4> HIDE DEF whole, Then
      <4> QED
        BY <1>3, <3>2, <4>1, <4>2
    <3> QED
      BY <3>1, <3>2
  <2> HIDE DEF Then
  <2> QED
    BY <2>1
<1> HIDE DEF whole
<1>7. taken = [n \in 0 .. N |->
        IF n = 0 THEN [found |-> << >>, cur |-> 0] ELSE Then(taken[n - 1], n)]
  BY <1>6, Zenon
<1> HIDE DEF taken, Then
<1>8. 0 \in D
  BY <1>1, <1>2, <1>7
<1>9. ASSUME NEW n \in 1 .. N, n - 1 \in D PROVE n \in D
  <2>1. n \in 0 .. N /\ n # 0 /\ taken[n - 1] = want(n - 1)
    BY <1>1, <1>9
  <2> QED
    BY <1>3, <1>7, <2>1
<1> HIDE DEF D
<1>10. 0 .. N \subseteq D
  BY <1>1, <1>8, <1>9, RangeInduction
<1>11. taken[N] = want(N)
  <2>1. N \in D
    BY <1>1, <1>10
  <2> QED
    BY <2>1 DEF D
<1> QED
  BY <1>4, <1>5, <1>11

\* One more field at the end of the message.
LEMMA ContentAppend ==
  ASSUME NEW fields \in Seq(FieldInput), NEW f \in FieldInput
  PROVE  Content(Append(fields, f), Len(Append(fields, f)))
           = Content(fields, Len(fields)) \o FieldBytes(f)
<1> DEFINE N == Len(fields)
           sent == Append(fields, f)
<1>1. /\ N \in Nat /\ sent \in Seq(FieldInput) /\ Len(sent) = N + 1 /\ sent[N + 1] = f
      /\ \A i \in 1 .. N : sent[i] = fields[i]
  OBVIOUS
<1> HIDE DEF sent
<1>2. N + 1 \in 1 .. Len(sent) /\ (N + 1) - 1 = N
  BY <1>1
<1>3. Content(sent, N + 1) = Content(sent, (N + 1) - 1) \o FieldBytes(sent[N + 1])
  BY <1>1, <1>2, ContentStep
<1>4. [i \in 1 .. N |-> FieldBytes(sent[i])] = [i \in 1 .. N |-> FieldBytes(fields[i])]
  BY <1>1
<1>5. Content(sent, N) = Content(fields, N)
  BY <1>4 DEF Content
<1> QED
  BY <1>1, <1>2, <1>3, <1>5 DEF sent

\* A number below the modulus is its own remainder.
LEMMA SmallMod ==
  ASSUME NEW n \in Nat, NEW i \in Nat, i < n
  PROVE  i % n = i
<1>1. n \in Nat \ {0} /\ i \in 0 .. 2 * n - 1
  OBVIOUS
<1> QED
  BY <1>1, RingMod

\* The count of what was added does not wrap within a slot.
LEMMA SizeOf ==
  ASSUME NEW m, Len(m.msg) \in Nat, Header + Len(m.msg) <= MESSAGE_SIZE
  PROVE  size(m) = Header + Len(m.msg)
<1>1. /\ Header \in Nat /\ Header > 0 /\ MESSAGE_SIZE \in Nat
      /\ SizeCnt \in Nat /\ MESSAGE_SIZE <= SizeCnt
  BY SlotAssumption
<1>2. Len(m.msg) < SizeCnt
  BY <1>1
<1>3. Len(m.msg) % SizeCnt = Len(m.msg)
  BY <1>1, <1>2, SmallMod
<1> QED
  BY <1>3 DEF size, msg_size

\* A message that fits its slot arrives as it was sent.
LEMMA ReceivedWhole ==
  ASSUME NEW node, NEW thread, NEW content \in Seq(Cell),
         Header + Len(content) + Padding <= MESSAGE_SIZE
  PROVE  Message(node, thread, content) \in Received(Message(node, thread, content))
<1> DEFINE m == Message(node, thread, content)
<1>1. Header \in Nat /\ Len(content) \in Nat /\ Padding \in Nat /\ MESSAGE_SIZE \in Nat
  BY SlotAssumption
<1>2. m.msg = content
  BY DEF Message
<1>3. SubSeq(content, 1, Len(content)) = content
  <2>1. /\ SubSeq(content, 1, Len(content)) \in Seq(Cell)
        /\ Len(SubSeq(content, 1, Len(content))) = Len(content)
        /\ \A i \in 1 .. Len(content) : SubSeq(content, 1, Len(content))[i] = content[i]
    OBVIOUS
  <2> QED
    BY <2>1, SeqEqual
<1>4. [[node_id |-> node, t_id |-> thread, msg |-> content] EXCEPT !.msg = content]
        = [node_id |-> node, t_id |-> thread, msg |-> content]
  OBVIOUS
<1>5. [m EXCEPT !.msg = content] = m
  BY <1>4, Zenon DEF Message
<1> HIDE DEF m
<1>6. size(m) = Header + Len(content) /\ size(m) - Header = Len(content)
  BY <1>1, <1>2, SizeOf
<1>7. SubSeq(m.msg, 1, size(m) - Header) = content
  BY <1>2, <1>3, <1>6
<1>8. [m EXCEPT !.msg = SubSeq(@, 1, size(m) - Header)] = m
  BY <1>5, <1>7, Zenon
<1>9. size(m) + Padding <= MESSAGE_SIZE
  BY <1>6
<1> QED
  BY <1>8, <1>9 DEF Received, m

\* ud_rpc_call puts the sender's address into the message.
AddressedBy(m, node, thread) == [m EXCEPT !.node_id = node, !.t_id = thread]

\* The content is left as it is.
LEMMA Addressed ==
  ASSUME NEW a, NEW b, NEW c, NEW node, NEW thread
  PROVE  AddressedBy(Message(a, b, c), node, thread) = Message(node, thread, c)
<1> DEFINE r == [node_id |-> a, t_id |-> b, msg |-> c]
           q == [node_id |-> node, t_id |-> b, msg |-> c]
           p == [node_id |-> node, t_id |-> thread, msg |-> c]
<1>1. [r EXCEPT !.node_id = node] = q
  <2>1. [r EXCEPT !.node_id = node]
          = [x \in DOMAIN r |-> IF x = "node_id" THEN node ELSE r[x]]
    OBVIOUS
  <2>2. q = [x \in DOMAIN r |-> IF x = "node_id" THEN node ELSE r[x]]
    OBVIOUS
  <2> QED
    BY <2>1, <2>2
<1>2. [q EXCEPT !.t_id = thread] = p
  OBVIOUS
<1>3. [r EXCEPT !.node_id = node, !.t_id = thread]
        = [[r EXCEPT !.node_id = node] EXCEPT !.t_id = thread]
  OBVIOUS
<1>4. [r EXCEPT !.node_id = node, !.t_id = thread] = p
  BY <1>1, <1>2, <1>3, Zenon
<1> QED
  BY <1>4, Zenon DEF AddressedBy, Message

\* Every message that passes the assertion of ud_rpc_call, with extra data only
\* where it fits, is found whole by the receiver (RpcMessage.h; DSM.h,
\* ud_rpc_call).
THEOREM MessageArrives ==
  ASSUME NEW fields \in Seq(FieldInput), NEW me, me.node_id \in Nat, me.t_id \in Nat,
         NEW extra \in {Nothing} \cup [kind : {"string"}, v : Value, size : Nat]
  PROVE  RoundTrip(fields, me, extra)
<1> DEFINE m == Filled(fields)
           content == Content(fields, Len(fields))
           sent == IF extra = Nothing THEN fields ELSE Append(fields, extra)
           all == Content(sent, Len(sent))
           mm == Message(me.node_id, me.t_id, all)
           fits == extra = Nothing
                     \/ size(m) + Uint32 + extra.size + Padding <= MESSAGE_SIZE
<1> SUFFICES ASSUME Header + Len(m.msg) <= MESSAGE_SIZE,
                    me.node_id < IdCnt, me.t_id < IdCnt, Accepted(m), fits
             PROVE  \E x \in Received(ud_rpc_call(m, me, extra)) :
                    /\ x.node_id = me.node_id /\ x.t_id = me.t_id
                    /\ Taken(x, sent) = [i \in DOMAIN sent |-> Bytes(sent[i].v, sent[i].size)]
  BY DEF RoundTrip
<1>1. /\ Header \in Nat /\ Padding \in Nat /\ MESSAGE_SIZE \in Nat /\ Uint32 \in Nat
      /\ Len(fields) \in Nat /\ Len(fields) \in 0 .. Len(fields)
  BY SlotAssumption
<1>2. content \in Seq(Cell)
  BY <1>1, ContentType
<1>3. m = Message(Nothing, Nothing, content)
  BY FilledContent
<1>4. size(m) = Header + Len(content) /\ Len(content) \in Nat
  BY <1>2, <1>3, SizeOf DEF Message
<1>5. extra # Nothing => extra \in FieldInput /\ extra.kind = "string" /\ extra.size \in Nat
  BY DEF FieldInput
<1>6. sent \in Seq(FieldInput)
  BY <1>5
<1>7. all \in Seq(Cell)
  <2>1. Len(sent) \in 0 .. Len(sent)
    BY <1>6
  <2> QED
    BY <1>6, <2>1, ContentType
<1>8. all = IF extra = Nothing THEN content ELSE content \o FieldBytes(extra)
  BY <1>5, ContentAppend
<1>9. Header + Len(all) + Padding <= MESSAGE_SIZE
  <2>1. CASE extra = Nothing
    BY <1>1, <1>4, <1>8, <2>1 DEF Accepted
  <2>2. CASE extra # Nothing
    <3>1. FieldBytes(extra) \in Seq(Cell) /\ Len(FieldBytes(extra)) = Uint32 + extra.size
      BY <1>5, <2>2, FieldBytesType
    <3>2. Len(all) = Len(content) + (Uint32 + extra.size)
      BY <1>2, <1>8, <2>2, <3>1, ConcatProperties
    <3> QED
      BY <1>1, <1>4, <1>5, <2>2, <3>2
  <2> QED
    BY <2>1, <2>2
<1>10. ud_rpc_call(m, me, extra) = mm
  <2> DEFINE buffer == [m EXCEPT !.node_id = me.node_id % IdCnt, !.t_id = me.t_id % IdCnt]
  <2>0. me.node_id % IdCnt = me.node_id /\ me.t_id % IdCnt = me.t_id
    BY SlotAssumption, SmallMod
  <2>1. buffer = Message(me.node_id, me.t_id, content)
    <3>1. AddressedBy(Message(Nothing, Nothing, content), me.node_id, me.t_id)
            = Message(me.node_id, me.t_id, content)
      BY Addressed
    <3>2. buffer = AddressedBy(m, me.node_id, me.t_id)
      BY <2>0 DEF AddressedBy
    <3> QED
      BY <1>3, <3>1, <3>2
  <2>2. CASE extra = Nothing
    BY <1>8, <2>1, <2>2 DEF ud_rpc_call
  <2>3. CASE extra # Nothing
    <3>1. ud_rpc_call(m, me, extra) = add_string(buffer, extra.v, extra.size)
      BY <2>3 DEF ud_rpc_call
    <3> HIDE DEF buffer, content, m, all
    <3>2. AddField(buffer, extra) = add_string(buffer, extra.v, extra.size)
      BY <1>5, <2>3 DEF AddField
    <3>3. AddField(Message(me.node_id, me.t_id, content), extra)
            = Message(me.node_id, me.t_id, content \o FieldBytes(extra))
      BY <1>2, <1>5, <2>3, AddFieldBytes
    <3> QED
      BY <1>8, <2>1, <2>3, <3>1, <3>2, <3>3
  <2> QED
    BY <2>2, <2>3
<1>11. mm \in Received(mm)
  BY <1>7, <1>9, ReceivedWhole
<1>12. mm.node_id = me.node_id /\ mm.t_id = me.t_id /\ mm.msg = all
  BY DEF Message
<1>13. Taken(mm, sent) = [i \in 1 .. Len(sent) |-> Bytes(sent[i].v, sent[i].size)]
  <2> HIDE DEF mm, sent
  <2> QED
    BY <1>6, <1>12, TakenFound
<1>14. DOMAIN sent = 1 .. Len(sent)
  BY <1>6
<1> HIDE DEF mm, sent, m
<1> QED
  BY <1>10, <1>11, <1>12, <1>13, <1>14

-----------------------------------------------------------------------------
(***************************************************************************)
(* Checksums (Crc32c).                                                     *)
(***************************************************************************)

\* A register.
Words == SUBSET Word

\* One bit of a sum.
LEMMA SumBit ==
  ASSUME NEW x, NEW y, NEW i
  PROVE  i \in x ++ y <=> ~(i \in x <=> i \in y)
BY DEF ++, SymDiff

\* Sums of words: the laws of exclusive or.
LEMMA SumType ==
  ASSUME NEW x \in Words, NEW y \in Words
  PROVE  x ++ y \in Words
BY DEF ++, SymDiff, Words

LEMMA SumZero ==
  ASSUME NEW x
  PROVE  x ++ {} = x
BY DEF ++, SymDiff

LEMMA SumCommutes ==
  ASSUME NEW x, NEW y
  PROVE  x ++ y = y ++ x
BY DEF ++, SymDiff

\* The words the code starts from.
LEMMA ByteWords ==
  Byte \subseteq Words /\ {} \in Words /\ Word \in Words /\ POLY \in Words /\ {31} \in Words
BY DEF Byte, Words, Word, POLY

\* The complement is a sum.
LEMMA NotSum ==
  ASSUME NEW x \in Words
  PROVE  Not(x) = Word ++ x
BY DEF Words, Not, ++, SymDiff

-----------------------------------------------------------------------------
\* Shifting.

\* The bits of a shifted word.
LEMMA ShiftType ==
  ASSUME NEW x \in Words, NEW n \in Nat
  PROVE  ShiftRight(x, n) \in Words
BY DEF ShiftRight, Words, Word

LEMMA ShiftBit ==
  ASSUME NEW x \in Words, NEW n \in Nat, NEW i \in Int
  PROVE  i \in ShiftRight(x, n) <=> i >= 0 /\ i + n \in x
<1>1. ASSUME i \in ShiftRight(x, n) PROVE i >= 0 /\ i + n \in x
  <2>1. PICK j \in {j \in x : j >= n} : i = j - n
    BY <1>1 DEF ShiftRight
  <2>2. j \in Int
    BY DEF Words, Word
  <2> QED
    BY <2>1, <2>2
<1>2. ASSUME i >= 0, i + n \in x PROVE i \in ShiftRight(x, n)
  <2>1. i + n \in {j \in x : j >= n} /\ i = (i + n) - n
    BY <1>2
  <2> QED
    BY <2>1 DEF ShiftRight
<1> QED
  BY <1>1, <1>2

\* Words are equal when their bits are.
LEMMA WordBits ==
  ASSUME NEW x \in Words, NEW i \in x
  PROVE  i \in Int /\ 0 <= i /\ i <= 31
BY DEF Words, Word

LEMMA WordEqual ==
  ASSUME NEW x \in Words, NEW y \in Words, \A i \in Word : i \in x <=> i \in y
  PROVE  x = y
BY DEF Words

\* Shifting is linear.
LEMMA ShiftSum ==
  ASSUME NEW x \in Words, NEW y \in Words, NEW n \in Nat
  PROVE  ShiftRight(x ++ y, n) = ShiftRight(x, n) ++ ShiftRight(y, n)
<1>1. /\ ShiftRight(x ++ y, n) \in Words
      /\ ShiftRight(x, n) ++ ShiftRight(y, n) \in Words
  BY SumType, ShiftType
<1>2. ASSUME NEW i \in Word
      PROVE  i \in ShiftRight(x ++ y, n) <=> i \in ShiftRight(x, n) ++ ShiftRight(y, n)
  <2>1. i \in Int /\ i >= 0
    BY DEF Word
  <2>2. /\ i \in ShiftRight(x ++ y, n) <=> i + n \in x ++ y
        /\ i \in ShiftRight(x, n) <=> i + n \in x
        /\ i \in ShiftRight(y, n) <=> i + n \in y
    BY <2>1, SumType, ShiftBit
  <2> QED
    BY <2>2, SumBit
<1> QED
  BY <1>1, <1>2, WordEqual

-----------------------------------------------------------------------------
\* Dividing by x.

\* Dividing a word by one more bit gives a word, and is linear.
LEMMA DivideType ==
  ASSUME NEW x \in Words
  PROVE  DivideBit(x) \in Words
BY ShiftType, SumType, ByteWords DEF DivideBit

LEMMA DivideNone == DivideBit({}) = {}
BY DEF DivideBit, ShiftRight

LEMMA DivideSum ==
  ASSUME NEW x \in Words, NEW y \in Words
  PROVE  DivideBit(x ++ y) = DivideBit(x) ++ DivideBit(y)
<1> DEFINE u == ShiftRight(x, 1)
           v == ShiftRight(y, 1)
<1>1. ShiftRight(x ++ y, 1) = u ++ v
  BY ShiftSum
<1>2. 0 \in x ++ y <=> ~(0 \in x <=> 0 \in y)
  BY SumBit
<1>3. /\ DivideBit(x) = IF 0 \in x THEN u ++ POLY ELSE u
      /\ DivideBit(y) = IF 0 \in y THEN v ++ POLY ELSE v
      /\ DivideBit(x ++ y) = IF 0 \in x ++ y THEN (u ++ v) ++ POLY ELSE u ++ v
  BY <1>1 DEF DivideBit
<1> HIDE DEF u, v
<1>4. /\ (u ++ v) ++ POLY = (u ++ POLY) ++ v
      /\ (u ++ v) ++ POLY = u ++ (v ++ POLY)
      /\ u ++ v = (u ++ POLY) ++ (v ++ POLY)
  BY DEF ++, SymDiff
<1> QED
  BY <1>2, <1>3, <1>4

\* x after n more zero bits.
DivideStep == [x \in Words |-> DivideBit(x)]
Appended(n, x) == (CHOOSE f : Iterates(Words, x, DivideStep, f))[n]

\* The recursion has a solution: its start, its step and its type.
LEMMA AfterIterates ==
  ASSUME NEW x \in Words
  PROVE  Iterates(Words, x, DivideStep, CHOOSE f : Iterates(Words, x, DivideStep, f))
<1>1. DivideStep \in [Words -> Words]
  BY DivideType DEF DivideStep
<1> QED
  BY <1>1, NatRecursion, Zenon

LEMMA AfterType ==
  ASSUME NEW x \in Words, NEW n \in Nat
  PROVE  Appended(n, x) \in Words
BY AfterIterates DEF Appended, Iterates

LEMMA AfterNone ==
  ASSUME NEW x \in Words
  PROVE  Appended(0, x) = x
BY AfterIterates DEF Appended, Iterates

LEMMA AfterNext ==
  ASSUME NEW x \in Words, NEW n \in Nat
  PROVE  Appended(n + 1, x) = DivideBit(Appended(n, x))
<1>1. Appended(n + 1, x) = DivideStep[Appended(n, x)]
  BY AfterIterates DEF Appended, Iterates
<1> QED
  BY <1>1, AfterType DEF DivideStep

\* Appending zeros is linear.
LEMMA AfterSum ==
  ASSUME NEW x \in Words, NEW y \in Words, NEW n \in Nat
  PROVE  Appended(n, x ++ y) = Appended(n, x) ++ Appended(n, y)
<1> DEFINE D == {k \in Nat : Appended(k, x ++ y) = Appended(k, x) ++ Appended(k, y)}
<1>1. x ++ y \in Words
  BY SumType
<1>2. 0 \in D
  BY <1>1, AfterNone
<1>3. ASSUME NEW k \in Nat, k \in D PROVE k + 1 \in D
  <2>1. Appended(k, x ++ y) = Appended(k, x) ++ Appended(k, y)
    BY <1>3
  <2>2. Appended(k, x) \in Words /\ Appended(k, y) \in Words
    BY AfterType
  <2>3. DivideBit(Appended(k, x) ++ Appended(k, y))
          = DivideBit(Appended(k, x)) ++ DivideBit(Appended(k, y))
    BY <2>2, DivideSum
  <2>4. Appended(k + 1, x ++ y) = DivideBit(Appended(k, x ++ y))
    BY <1>1, AfterNext
  <2>5. Appended(k + 1, x) = DivideBit(Appended(k, x)) /\ Appended(k + 1, y) = DivideBit(Appended(k, y))
    BY AfterNext
  <2> QED
    BY <2>1, <2>3, <2>4, <2>5
<1> HIDE DEF D
<1>4. Nat \subseteq D
  BY <1>2, <1>3, NatSetInduction
<1>5. n \in D
  BY <1>4
<1> QED
  BY <1>5 DEF D

\* First m zeros, then n.
LEMMA AfterAfter ==
  ASSUME NEW x \in Words, NEW m \in Nat, NEW n \in Nat
  PROVE  Appended(n, Appended(m, x)) = Appended(m + n, x)
<1> DEFINE y == Appended(m, x)
           D == {k \in Nat : Appended(k, y) = Appended(m + k, x)}
<1>1. y \in Words
  BY AfterType
<1>2. 0 \in D
  BY <1>1, AfterNone
<1>3. ASSUME NEW k \in Nat, k \in D PROVE k + 1 \in D
  <2>1. Appended(k, y) = Appended(m + k, x) /\ m + k \in Nat /\ m + (k + 1) = (m + k) + 1
    BY <1>3
  <2>2. Appended(k + 1, y) = DivideBit(Appended(k, y))
    BY <1>1, AfterNext
  <2>3. Appended((m + k) + 1, x) = DivideBit(Appended(m + k, x))
    BY <2>1, AfterNext
  <2> QED
    BY <2>1, <2>2, <2>3
<1> HIDE DEF D
<1>4. Nat \subseteq D
  BY <1>2, <1>3, NatSetInduction
<1>5. n \in D
  BY <1>4
<1> QED
  BY <1>5 DEF D

\* Zeros after nothing are nothing.
LEMMA AfterZero ==
  ASSUME NEW n \in Nat
  PROVE  Appended(n, {}) = {}
<1> DEFINE D == {k \in Nat : Appended(k, {}) = {}}
<1>1. 0 \in D
  BY AfterNone, ByteWords
<1>2. ASSUME NEW k \in Nat, k \in D PROVE k + 1 \in D
  BY <1>2, AfterNext, DivideNone, ByteWords
<1> HIDE DEF D
<1>3. Nat \subseteq D
  BY <1>1, <1>2, NatSetInduction
<1>4. n \in D
  BY <1>3
<1> QED
  BY <1>4 DEF D

\* Bits that do not reach the bottom are only shifted.
LEMMA AfterShift ==
  ASSUME NEW x \in Words, NEW n \in Nat, \A i \in x : i >= n
  PROVE  Appended(n, x) = ShiftRight(x, n)
<1> DEFINE D == {k \in 0 .. n : Appended(k, x) = ShiftRight(x, k)}
<1>1. 0 \in D
  <2>1. ShiftRight(x, 0) \in Words
    BY ShiftType
  <2>2. ASSUME NEW i \in Word PROVE i \in ShiftRight(x, 0) <=> i \in x
    <3>1. i \in Int /\ i >= 0 /\ i + 0 = i
      BY DEF Word
    <3> QED
      BY <3>1, ShiftBit
  <2>3. ShiftRight(x, 0) = x
    BY <2>1, <2>2, WordEqual
  <2> QED
    BY <2>3, AfterNone
<1>2. ASSUME NEW k \in 1 .. n, k - 1 \in D PROVE k \in D
  <2> DEFINE y == ShiftRight(x, k - 1)
  <2>1. k - 1 \in Nat /\ (k - 1) + 1 = k /\ k \in Nat /\ k \in 0 .. n
    OBVIOUS
  <2>2. Appended(k - 1, x) = y
    BY <1>2
  <2>3. Appended(k, x) = DivideBit(y)
    BY <2>1, <2>2, AfterNext
  <2>4. y \in Words
    BY <2>1, ShiftType
  <2>5. 0 \notin y
    <3>1. 0 \in y => 0 + (k - 1) \in x
      BY <2>1, ShiftBit
    <3> QED
      BY <3>1
  <2>6. \A i \in Int : i >= 0 => (i \in y <=> i + (k - 1) \in x)
    BY <2>1, ShiftBit
  <2> HIDE DEF y
  <2>7. DivideBit(y) = ShiftRight(y, 1)
    BY <2>5 DEF DivideBit
  <2>8. ShiftRight(y, 1) = ShiftRight(x, k)
    <3>1. ShiftRight(y, 1) \in Words /\ ShiftRight(x, k) \in Words
      BY <2>1, <2>4, ShiftType
    <3>2. ASSUME NEW i \in Word PROVE i \in ShiftRight(y, 1) <=> i \in ShiftRight(x, k)
      <4>1. i \in Int /\ i >= 0 /\ i + 1 \in Int /\ i + 1 >= 0 /\ (i + 1) + (k - 1) = i + k
        BY DEF Word
      <4>2. i \in ShiftRight(y, 1) <=> i + 1 \in y
        BY <2>4, <4>1, ShiftBit
      <4>3. i \in ShiftRight(x, k) <=> i + k \in x
        BY <2>1, <4>1, ShiftBit
      <4>4. i + 1 \in y <=> (i + 1) + (k - 1) \in x
        BY <2>6, <4>1
      <4> QED
        BY <4>1, <4>2, <4>3, <4>4
    <3> QED
      BY <3>1, <3>2, WordEqual
  <2> QED
    BY <2>1, <2>3, <2>7, <2>8
<1> HIDE DEF D
<1>3. 0 .. n \subseteq D
  BY <1>1, <1>2, RangeInduction
<1>4. n \in D
  BY <1>3
<1> QED
  BY <1>4 DEF D

-----------------------------------------------------------------------------
\* A byte of zeros.

\* DivideByte appends eight.
LEMMA EightSteps ==
  ASSUME NEW x \in Words
  PROVE  DivideByte(x) = Appended(8, x)
<1> DEFINE whole == [n \in 0 .. 8 |-> Appended(n, x)]
           after == CHOOSE after :
             after = [n \in 0 .. 8 |-> IF n = 0 THEN x ELSE DivideBit(after[n - 1])]
           D == {n \in 0 .. 8 : after[n] = Appended(n, x)}
<1>1. DivideByte(x) = IF x = {} THEN {} ELSE after[8]
  BY DEF DivideByte
<1>2. ASSUME NEW n \in 1 .. 8 PROVE Appended(n, x) = DivideBit(Appended(n - 1, x))
  <2>1. n - 1 \in Nat /\ (n - 1) + 1 = n
    OBVIOUS
  <2> QED
    BY <2>1, AfterNext
<1>3. whole = [n \in 0 .. 8 |-> IF n = 0 THEN x ELSE DivideBit(whole[n - 1])]
  <2>1. ASSUME NEW n \in 0 .. 8
        PROVE  Appended(n, x) = IF n = 0 THEN x ELSE DivideBit(whole[n - 1])
    <3>1. CASE n = 0
      BY <3>1, AfterNone
    <3>2. CASE n # 0
      <4>1. n \in 1 .. 8 /\ n - 1 \in 0 .. 8
        BY <3>2
      <4>2. whole[n - 1] = Appended(n - 1, x)
        BY <4>1
      <4> QED
        BY <1>2, <3>2, <4>1, <4>2
    <3> QED
      BY <3>1, <3>2
  <2> QED
    BY <2>1
<1> HIDE DEF whole
<1>4. after = [n \in 0 .. 8 |-> IF n = 0 THEN x ELSE DivideBit(after[n - 1])]
  BY <1>3, Zenon
<1> HIDE DEF after
<1>5. 0 \in D
  BY <1>4, AfterNone
<1>6. ASSUME NEW n \in 1 .. 8, n - 1 \in D PROVE n \in D
  <2>1. n \in 0 .. 8 /\ n # 0 /\ after[n - 1] = Appended(n - 1, x)
    BY <1>6
  <2> QED
    BY <1>2, <1>4, <2>1
<1> HIDE DEF D
<1>7. 0 .. 8 \subseteq D
  BY <1>5, <1>6, RangeInduction
<1>8. after[8] = Appended(8, x)
  <2>1. 8 \in D
    BY <1>7
  <2> QED
    BY <2>1 DEF D
<1>9. x = {} => Appended(8, x) = {}
  BY AfterZero
<1> QED
  BY <1>1, <1>8, <1>9

\* The lowest byte, and the bits above it.
High(x) == {i \in x : i >= 8}

\* Together they are the word.
LEMMA LowHigh ==
  ASSUME NEW x \in Words
  PROVE  /\ ByteOf(x, 0) \in Byte /\ ByteOf(x, 0) \in Words /\ High(x) \in Words
         /\ \A i \in ByteOf(x, 0) : i \in x /\ i < 8
         /\ High(x) ++ ByteOf(x, 0) = x
<1>1. ByteOf(x, 0) = {i \in x : i < 8}
  <2>1. \A i \in x : i \in Int /\ 0 <= i /\ i <= 31
    BY WordBits
  <2>2. ByteOf(x, 0) = {i - 0 : i \in x \cap (0 .. 7)}
    BY DEF ByteOf
  <2>3. \A i \in x \cap (0 .. 7) : i - 0 = i
    OBVIOUS
  <2>4. \A i \in x : i \in 0 .. 7 <=> i < 8
    BY <2>1
  <2> QED
    BY <2>2, <2>3, <2>4
<1>2. \A i \in x : i \in Int /\ 0 <= i /\ i <= 31
  BY WordBits
<1>3. ByteOf(x, 0) \in Byte /\ ByteOf(x, 0) \in Words /\ High(x) \in Words
  BY <1>1, <1>2 DEF Byte, Words, High
<1>4. High(x) ++ ByteOf(x, 0) = x
  BY <1>1, <1>2 DEF High, ++, SymDiff
<1> QED
  BY <1>1, <1>3, <1>4

\* The high bits are only shifted.
LEMMA ShiftHigh ==
  ASSUME NEW x \in Words
  PROVE  ShiftRight(x, 8) = Appended(8, High(x))
<1>1. High(x) \in Words /\ \A i \in High(x) : i >= 8
  BY LowHigh DEF High
<1>2. Appended(8, High(x)) = ShiftRight(High(x), 8)
  BY <1>1, AfterShift
<1>3. ShiftRight(High(x), 8) = ShiftRight(x, 8)
  BY DEF ShiftRight, High
<1> QED
  BY <1>2, <1>3

\* Append0 appends eight zero bits.
LEMMA Append0Appends ==
  ASSUME NEW x \in Words
  PROVE  Append0(x) = Appended(8, x)
<1>1. /\ ByteOf(x, 0) \in Words /\ High(x) \in Words
      /\ High(x) ++ ByteOf(x, 0) = x
  BY LowHigh
<1>2. DivideByte(ByteOf(x, 0)) = Appended(8, ByteOf(x, 0))
  BY <1>1, EightSteps
<1>3. Appended(8, High(x) ++ ByteOf(x, 0)) = Appended(8, High(x)) ++ Appended(8, ByteOf(x, 0))
  BY <1>1, AfterSum
<1> QED
  BY <1>1, <1>2, <1>3, ShiftHigh DEF Append0

-----------------------------------------------------------------------------
\* The remainders after each byte.

Remainders(w, bytes, f) ==
  /\ f \in [0 .. Len(bytes) -> Words] /\ f[0] = w
  /\ \A n \in 1 .. Len(bytes) : f[n] = Appended(8, f[n - 1] ++ bytes[n])

\* There are such remainders, and Divide is the last of them.
LEMMA RemaindersExist ==
  ASSUME NEW w \in Words, NEW bytes \in Seq(Byte)
  PROVE  \E f : Remainders(w, bytes, f)
<1> DEFINE N == Len(bytes)
           step == [p \in (1 .. N) \X Words |-> Appended(8, p[2] ++ bytes[p[1]])]
<1>1. N \in Nat /\ \A n \in 1 .. N : bytes[n] \in Words
  BY ByteWords
<1>2. step \in Stepping(Words, N)
  <2>1. ASSUME NEW p \in (1 .. N) \X Words PROVE Appended(8, p[2] ++ bytes[p[1]]) \in Words
    <3>1. p[2] \in Words /\ bytes[p[1]] \in Words
      BY <1>1
    <3> QED
      BY <3>1, SumType, AfterType
  <2> QED
    BY <2>1 DEF Stepping
<1>3. \A n \in 1 .. N, x \in Words : step[<<n, x>>] = Appended(8, x ++ bytes[n])
  OBVIOUS
<1> HIDE DEF step
<1>4. PICK f : Recurses(Words, w, N, step, f)
  BY <1>1, <1>2, Recursion
<1>5. f \in [0 .. N -> Words] /\ f[0] = w /\ \A n \in 1 .. N : f[n] = step[<<n, f[n - 1]>>]
  BY <1>4 DEF Recurses
<1>6. \A n \in 1 .. N : f[n - 1] \in Words
  BY <1>5
<1>7. Remainders(w, bytes, f)
  BY <1>3, <1>5, <1>6 DEF Remainders
<1> QED
  BY <1>7

LEMMA DivideRemainders ==
  ASSUME NEW w \in Words, NEW bytes \in Seq(Byte), NEW f, Remainders(w, bytes, f)
  PROVE  Divide(w, bytes) = f[Len(bytes)]
<1> DEFINE N == Len(bytes)
           after == CHOOSE after : after = [n \in 0 .. N |->
             IF n = 0 THEN w ELSE DivideByte(after[n - 1] ++ bytes[n])]
           D == {n \in 0 .. N : after[n] = f[n]}
<1>1. N \in Nat /\ \A n \in 1 .. N : bytes[n] \in Words
  BY ByteWords
<1>2. Divide(w, bytes) = after[N]
  BY DEF Divide
<1>3. /\ f \in [0 .. N -> Words] /\ f[0] = w
      /\ \A n \in 1 .. N : f[n] = Appended(8, f[n - 1] ++ bytes[n])
  BY DEF Remainders
<1> HIDE DEF N
<1>4. \A n \in 1 .. N : f[n] = DivideByte(f[n - 1] ++ bytes[n])
  <2> TAKE n \in 1 .. N
  <2>1. f[n - 1] \in Words
    <3>1. n - 1 \in 0 .. N
      BY <1>1
    <3> QED
      BY <1>3, <3>1
  <2>2. f[n - 1] ++ bytes[n] \in Words
    BY <1>1, <2>1, SumType
  <2> QED
    BY <1>3, <2>2, EightSteps
<1>5. f = [n \in 0 .. N |-> IF n = 0 THEN w ELSE DivideByte(f[n - 1] ++ bytes[n])]
  <2>1. \A n \in 0 .. N : f[n] = IF n = 0 THEN w ELSE DivideByte(f[n - 1] ++ bytes[n])
    BY <1>1, <1>3, <1>4
  <2> QED
    BY <1>3, <2>1
<1>6. after = [n \in 0 .. N |-> IF n = 0 THEN w ELSE DivideByte(after[n - 1] ++ bytes[n])]
  BY <1>5, Zenon
<1> HIDE DEF after
<1>7. 0 \in D
  BY <1>1, <1>3, <1>6
<1>8. ASSUME NEW n \in 1 .. N, n - 1 \in D PROVE n \in D
  <2>1. n \in 0 .. N /\ n # 0 /\ after[n - 1] = f[n - 1]
    BY <1>1, <1>8
  <2> QED
    BY <1>4, <1>6, <2>1
<1> HIDE DEF D
<1>9. 0 .. N \subseteq D
  BY <1>1, <1>7, <1>8, RangeInduction
<1>10. after[N] = f[N]
  <2>1. N \in D
    BY <1>1, <1>9
  <2> QED
    BY <2>1 DEF D
<1> QED
  BY <1>2, <1>10 DEF N

\* The remainder is a word.
LEMMA DivideWords ==
  ASSUME NEW w \in Words, NEW bytes \in Seq(Byte)
  PROVE  Divide(w, bytes) \in Words
<1>1. PICK f : Remainders(w, bytes, f)
  BY RemaindersExist
<1>2. Divide(w, bytes) = f[Len(bytes)]
  BY <1>1, DivideRemainders
<1>3. f \in [0 .. Len(bytes) -> Words] /\ Len(bytes) \in 0 .. Len(bytes)
  BY <1>1 DEF Remainders
<1> QED
  BY <1>2, <1>3

\* A part in the middle takes the remainder before it to the one behind it.
LEMMA DividePart ==
  ASSUME NEW w \in Words, NEW bytes \in Seq(Byte), NEW f, Remainders(w, bytes, f),
         NEW b \in 0 .. Len(bytes), NEW a \in 0 .. b
  PROVE  Divide(f[a], SubSeq(bytes, a + 1, b)) = f[b]
<1> DEFINE part == SubSeq(bytes, a + 1, b)
           g == [n \in 0 .. b - a |-> f[a + n]]
<1>1. /\ f \in [0 .. Len(bytes) -> Words]
      /\ \A n \in 1 .. Len(bytes) : f[n] = Appended(8, f[n - 1] ++ bytes[n])
  BY DEF Remainders
<1>2. /\ part \in Seq(Byte) /\ Len(part) = b - a
      /\ \A n \in 1 .. b - a : part[n] = bytes[a + n]
  OBVIOUS
<1>3. /\ b - a \in Nat /\ a + 0 = a /\ a + (b - a) = b /\ a \in 0 .. Len(bytes)
      /\ \A n \in 0 .. b - a : a + n \in 0 .. Len(bytes)
  OBVIOUS
<1>4. /\ g \in [0 .. b - a -> Words] /\ g[0] = f[a] /\ g[b - a] = f[b]
      /\ \A n \in 0 .. b - a : g[n] = f[a + n]
  <2>1. \A n \in 0 .. b - a : f[a + n] \in Words
    BY <1>1, <1>3
  <2>2. g \in [0 .. b - a -> Words] /\ \A n \in 0 .. b - a : g[n] = f[a + n]
    BY <2>1
  <2>3. 0 \in 0 .. b - a /\ b - a \in 0 .. b - a
    BY <1>3
  <2> HIDE DEF g
  <2> QED
    BY <1>3, <2>2, <2>3
<1> HIDE DEF g, part
<1>5. ASSUME NEW n \in 1 .. b - a PROVE g[n] = Appended(8, g[n - 1] ++ part[n])
  <2>1. /\ n \in 0 .. b - a /\ n - 1 \in 0 .. b - a /\ a + n \in 1 .. Len(bytes)
        /\ (a + n) - 1 = a + (n - 1)
    BY <1>3
  <2>2. f[a + n] = Appended(8, f[a + (n - 1)] ++ bytes[a + n])
    BY <1>1, <2>1
  <2>3. g[n] = f[a + n] /\ g[n - 1] = f[a + (n - 1)] /\ part[n] = bytes[a + n]
    BY <1>2, <1>4, <2>1
  <2> QED
    BY <2>2, <2>3
<1>6. Remainders(f[a], part, g)
  BY <1>2, <1>4, <1>5 DEF Remainders
<1>7. f[a] \in Words
  BY <1>1, <1>3
<1>8. Divide(f[a], part) = g[Len(part)]
  BY <1>2, <1>6, <1>7, DivideRemainders
<1> QED
  BY <1>2, <1>4, <1>8 DEF part

\* What stands in the register before is shifted past the bytes.
LEMMA DivideAdds ==
  ASSUME NEW w \in Words, NEW x \in Words, NEW bytes \in Seq(Byte)
  PROVE  Divide(w ++ x, bytes) = Divide(w, bytes) ++ Appended(8 * Len(bytes), x)
<1> DEFINE N == Len(bytes)
<1>0. N \in Nat /\ \A n \in 1 .. N : bytes[n] \in Words
  BY ByteWords
<1>1. PICK f : Remainders(w, bytes, f)
  BY RemaindersExist
<1>2. /\ f \in [0 .. N -> Words] /\ f[0] = w
      /\ \A n \in 1 .. N : f[n] = Appended(8, f[n - 1] ++ bytes[n])
  BY <1>1 DEF Remainders
<1> HIDE DEF N
<1> DEFINE g == [n \in 0 .. N |-> f[n] ++ Appended(8 * n, x)]
<1>3. ASSUME NEW n \in 0 .. N PROVE f[n] ++ Appended(8 * n, x) \in Words
  <2>1. 8 * n \in Nat /\ f[n] \in Words
    BY <1>0, <1>2
  <2> QED
    BY <2>1, AfterType, SumType
<1>4. g \in [0 .. N -> Words] /\ \A n \in 0 .. N : g[n] = f[n] ++ Appended(8 * n, x)
  BY <1>3
<1> HIDE DEF g
<1>5. g[0] = w ++ x
  <2>1. 0 \in 0 .. N /\ 8 * 0 = 0
    BY <1>0
  <2> QED
    BY <1>2, <1>4, <2>1, AfterNone
<1>6. ASSUME NEW n \in 1 .. N PROVE g[n] = Appended(8, g[n - 1] ++ bytes[n])
  <2> DEFINE y == f[n - 1]
             z == Appended(8 * (n - 1), x)
             c == bytes[n]
  <2>1. n \in 0 .. N /\ n - 1 \in 0 .. N /\ 8 * (n - 1) \in Nat /\ 8 * (n - 1) + 8 = 8 * n
    BY <1>0
  <2>2. y \in Words /\ z \in Words /\ c \in Words
    BY <1>0, <1>2, <2>1, AfterType
  <2>3. g[n] = Appended(8, y ++ c) ++ Appended(8 * n, x) /\ g[n - 1] = y ++ z
    BY <1>2, <1>4, <2>1
  <2>4. Appended(8, z) = Appended(8 * n, x)
    BY <2>1, AfterAfter
  <2> HIDE DEF y, z, c
  <2>5. Appended(8, (y ++ c) ++ z) = Appended(8, y ++ c) ++ Appended(8, z)
    BY <2>2, AfterSum, SumType
  <2>6. (y ++ z) ++ c = (y ++ c) ++ z
    BY DEF ++, SymDiff
  <2>7. g[n] = Appended(8, (y ++ z) ++ c)
    BY <2>3, <2>4, <2>5, <2>6
  <2> QED
    BY <2>3, <2>7 DEF c
<1>7. Remainders(w ++ x, bytes, g)
  BY <1>4, <1>5, <1>6 DEF Remainders, N
<1>8. Divide(w ++ x, bytes) = g[N]
  BY <1>7, SumType, DivideRemainders DEF N
<1>9. Divide(w, bytes) = f[N]
  BY <1>1, DivideRemainders DEF N
<1>10. N \in 0 .. N
  BY <1>0
<1> QED
  BY <1>4, <1>8, <1>9, <1>10 DEF N

-----------------------------------------------------------------------------
\* The instructions of the processor.

\* The remainder after one byte, and what crc32b makes.
LEMMA OneByte ==
  ASSUME NEW w \in Words, NEW bytes \in Seq(Byte), Len(bytes) = 1
  PROVE  Divide(w, bytes) = Appended(8, w ++ bytes[1])
<1>1. PICK f : Remainders(w, bytes, f)
  BY RemaindersExist
<1>2. f[0] = w /\ f[1] = Appended(8, f[1 - 1] ++ bytes[1])
  <2>1. 1 \in 1 .. Len(bytes)
    OBVIOUS
  <2> QED
    BY <1>1, <2>1 DEF Remainders
<1>3. Divide(w, bytes) = f[1]
  BY <1>1, DivideRemainders
<1>4. 1 - 1 = 0
  OBVIOUS
<1> QED
  BY <1>2, <1>3, <1>4

LEMMA HardwareByte ==
  ASSUME NEW w \in Words, NEW bytes \in Seq(Byte), Len(bytes) = 1
  PROVE  crc32b(w, bytes[1]) = Divide(w, bytes)
<1>1. bytes[1] \in Words
  BY ByteWords
<1>2. w ++ bytes[1] \in Words
  BY <1>1, SumType
<1> QED
  BY <1>2, OneByte, Append0Appends DEF crc32b

\* crc32q divides by eight bytes.
LEMMA HardwareUnit ==
  ASSUME NEW w \in Words, NEW unit \in Seq(Byte), Len(unit) = 8
  PROVE  crc32q(w, unit) = Divide(w, unit)
<1>0. \A n \in 1 .. Len(unit) : unit[n] \in Byte
  BY ElementOfSeq
<1> DEFINE after == CHOOSE after : after = [n \in 0 .. 8 |->
                      IF n = 0 THEN w ELSE crc32b(after[n - 1], unit[n])]
<1>1. PICK f : Remainders(w, unit, f)
  BY RemaindersExist
<1>2. /\ f \in [0 .. 8 -> Words] /\ f[0] = w
      /\ \A n \in 1 .. 8 : f[n] = Appended(8, f[n - 1] ++ unit[n])
  BY <1>1 DEF Remainders
<1> DEFINE D == {n \in 0 .. 8 : after[n] = f[n]}
<1>3. crc32q(w, unit) = after[8]
  BY DEF crc32q
<1>4. ASSUME NEW n \in 1 .. 8 PROVE f[n] = crc32b(f[n - 1], unit[n])
  <2>1. n \in 1 .. Len(unit) /\ n - 1 \in 0 .. 8
    OBVIOUS
  <2>2. f[n - 1] \in Words /\ unit[n] \in Words
    <3>1. unit[n] \in Byte
      BY <1>0, <2>1, Zenon
    <3>2. f[n - 1] \in Words
      BY <1>2, <2>1
    <3> QED
      BY <3>1, <3>2, ByteWords
  <2>3. f[n - 1] ++ unit[n] \in Words
    BY <2>2, SumType
  <2> QED
    BY <1>2, <2>3, Append0Appends DEF crc32b
<1>5. f = [n \in 0 .. 8 |-> IF n = 0 THEN w ELSE crc32b(f[n - 1], unit[n])]
  <2>1. \A n \in 0 .. 8 : f[n] = IF n = 0 THEN w ELSE crc32b(f[n - 1], unit[n])
    BY <1>2, <1>4
  <2> QED
    BY <1>2, <2>1
<1>6. after = [n \in 0 .. 8 |-> IF n = 0 THEN w ELSE crc32b(after[n - 1], unit[n])]
  BY <1>5, Zenon
<1> HIDE DEF after
<1>7. 0 \in D
  BY <1>2, <1>6
<1>8. ASSUME NEW n \in 1 .. 8, n - 1 \in D PROVE n \in D
  <2>1. n \in 0 .. 8 /\ n # 0 /\ after[n - 1] = f[n - 1]
    BY <1>8
  <2> QED
    BY <1>4, <1>6, <2>1
<1> HIDE DEF D
<1>9. 0 .. 8 \subseteq D
  BY <1>7, <1>8, RangeInduction
<1>10. after[8] = f[8]
  <2>1. 8 \in D
    BY <1>9
  <2> QED
    BY <2>1 DEF D
<1>11. Divide(w, unit) = f[8]
  BY <1>1, DivideRemainders
<1> QED
  BY <1>3, <1>10, <1>11

\* A stream divides by all its units.
LEMMA HardwareStream ==
  ASSUME NEW w \in Words, NEW bytes \in Seq(Byte), Len(bytes) % 8 = 0
  PROVE  Stream(w, bytes) = Divide(w, bytes)
<1> DEFINE N == Len(bytes) \div 8
           Unit(n) == SubSeq(bytes, 8 * n - 7, 8 * n)
           after == CHOOSE after : after = [n \in 0 .. N |->
                      IF n = 0 THEN w ELSE crc32q(after[n - 1], Unit(n))]
<1>1. PICK f : Remainders(w, bytes, f)
  BY RemaindersExist
<1>2. f \in [0 .. Len(bytes) -> Words] /\ f[0] = w
  BY <1>1 DEF Remainders
<1> DEFINE g == [n \in 0 .. N |-> f[8 * n]]
           D == {n \in 0 .. N : after[n] = g[n]}
<1>3. Stream(w, bytes) = after[N]
  BY DEF Stream
<1>4. N \in Nat /\ Len(bytes) = 8 * N
  OBVIOUS
<1>5. ASSUME NEW n \in 1 .. N PROVE f[8 * n] = crc32q(f[8 * (n - 1)], Unit(n))
  <2> DEFINE a == 8 * (n - 1)
             b == 8 * n
  <2>1. a \in 0 .. b /\ b \in 0 .. Len(bytes) /\ a + 1 = 8 * n - 7 /\ b - a = 8
    <3> HIDE DEF N
    <3> QED
      BY <1>4
  <2>2. f[a] \in Words
    BY <1>2, <2>1
  <2>3. SubSeq(bytes, a + 1, b) \in Seq(Byte) /\ Len(SubSeq(bytes, a + 1, b)) = 8
    <3> HIDE DEF N, a, b
    <3> QED
      BY <2>1
  <2>4. Unit(n) = SubSeq(bytes, a + 1, b)
    BY <2>1
  <2> HIDE DEF a, b, Unit
  <2>5. crc32q(f[a], SubSeq(bytes, a + 1, b)) = Divide(f[a], SubSeq(bytes, a + 1, b))
    BY <2>2, <2>3, HardwareUnit
  <2>6. Divide(f[a], SubSeq(bytes, a + 1, b)) = f[b]
    BY <1>1, <2>1, DividePart
  <2> QED
    BY <2>4, <2>5, <2>6 DEF a, b
<1> HIDE DEF N, Unit
<1>6. \A n \in 1 .. N : g[n] = crc32q(g[n - 1], Unit(n))
  <2> TAKE n \in 1 .. N
  <2>1. n \in 0 .. N /\ n - 1 \in 0 .. N
    BY <1>4
  <2> QED
    BY <1>5, <2>1
<1>7. g[0] = w /\ g[N] = f[Len(bytes)]
  <2>1. 0 \in 0 .. N /\ N \in 0 .. N /\ 8 * 0 = 0
    BY <1>4
  <2> QED
    BY <1>2, <1>4, <2>1
<1>8. g = [n \in 0 .. N |-> IF n = 0 THEN w ELSE crc32q(g[n - 1], Unit(n))]
  <2>1. \A n \in 0 .. N : f[8 * n] = IF n = 0 THEN w ELSE crc32q(g[n - 1], Unit(n))
    <3> TAKE n \in 0 .. N
    <3>1. n # 0 => n \in 1 .. N
      BY <1>4
    <3>2. g[n] = f[8 * n]
      OBVIOUS
    <3> HIDE DEF g
    <3> QED
      BY <1>6, <1>7, <3>1, <3>2
  <2> QED
    BY <2>1
<1> HIDE DEF g
<1>9. after = [n \in 0 .. N |-> IF n = 0 THEN w ELSE crc32q(after[n - 1], Unit(n))]
  BY <1>8, Zenon
<1> HIDE DEF after
<1>10. 0 \in D
  BY <1>4, <1>7, <1>9
<1>11. ASSUME NEW n \in 1 .. N, n - 1 \in D PROVE n \in D
  <2>1. n \in 0 .. N /\ n # 0 /\ after[n - 1] = g[n - 1]
    BY <1>4, <1>11
  <2> QED
    BY <1>6, <1>9, <2>1
<1> HIDE DEF D
<1>12. 0 .. N \subseteq D
  BY <1>4, <1>10, <1>11, RangeInduction
<1>13. after[N] = g[N]
  <2>1. N \in D
    BY <1>4, <1>12
  <2> QED
    BY <2>1 DEF D
<1>14. Divide(w, bytes) = f[Len(bytes)]
  BY <1>1, DivideRemainders
<1> QED
  BY <1>3, <1>7, <1>13, <1>14

-----------------------------------------------------------------------------
\* Products.

\* Horner's rule, step by step.
Horner(v, w, f) ==
  /\ f \in [0 .. 32 -> Words] /\ f[0] = {}
  /\ \A k \in 1 .. 32 : f[k] = DivideBit(f[k - 1]) ++ (IF k - 1 \in v THEN w ELSE {})

\* There are such sums, and Times is the last of them.
LEMMA HornerExists ==
  ASSUME NEW v \in Words, NEW w \in Words
  PROVE  \E f : Horner(v, w, f)
<1> DEFINE step == [p \in (1 .. 32) \X Words |->
                      DivideBit(p[2]) ++ (IF p[1] - 1 \in v THEN w ELSE {})]
<1>1. step \in Stepping(Words, 32)
  <2>1. ASSUME NEW p \in (1 .. 32) \X Words
        PROVE  DivideBit(p[2]) ++ (IF p[1] - 1 \in v THEN w ELSE {}) \in Words
    <3>1. p[2] \in Words /\ (IF p[1] - 1 \in v THEN w ELSE {}) \in Words
      BY ByteWords
    <3> QED
      BY <3>1, SumType, DivideType
  <2> QED
    BY <2>1 DEF Stepping
<1>2. \A k \in 1 .. 32, x \in Words :
        step[<<k, x>>] = DivideBit(x) ++ (IF k - 1 \in v THEN w ELSE {})
  OBVIOUS
<1> HIDE DEF step
<1>3. PICK f : Recurses(Words, {}, 32, step, f)
  BY <1>1, Recursion, ByteWords
<1>4. f \in [0 .. 32 -> Words] /\ f[0] = {} /\ \A k \in 1 .. 32 : f[k] = step[<<k, f[k - 1]>>]
  BY <1>3 DEF Recurses
<1>5. \A k \in 1 .. 32 : f[k - 1] \in Words
  BY <1>4
<1>6. Horner(v, w, f)
  BY <1>2, <1>4, <1>5 DEF Horner
<1> QED
  BY <1>6

LEMMA TimesHorner ==
  ASSUME NEW v \in Words, NEW w \in Words, NEW f, Horner(v, w, f)
  PROVE  Times(v, w) = f[32]
<1> DEFINE sum == CHOOSE sum : sum = [k \in 0 .. 32 |->
                    IF k = 0 THEN {} ELSE DivideBit(sum[k - 1]) ++ (IF k - 1 \in v THEN w ELSE {})]
           D == {k \in 0 .. 32 : sum[k] = f[k]}
           Z == {k \in 0 .. 32 : f[k] = {}}
<1>1. Times(v, w) = IF v = {} \/ w = {} THEN {} ELSE sum[32]
  BY DEF Times
<1>2. /\ f \in [0 .. 32 -> Words] /\ f[0] = {}
      /\ \A k \in 1 .. 32 : f[k] = DivideBit(f[k - 1]) ++ (IF k - 1 \in v THEN w ELSE {})
  BY DEF Horner
<1>3. f = [k \in 0 .. 32 |->
             IF k = 0 THEN {} ELSE DivideBit(f[k - 1]) ++ (IF k - 1 \in v THEN w ELSE {})]
  BY <1>2
<1>4. sum = [k \in 0 .. 32 |->
               IF k = 0 THEN {} ELSE DivideBit(sum[k - 1]) ++ (IF k - 1 \in v THEN w ELSE {})]
  BY <1>3, Zenon
<1> HIDE DEF sum
<1>5. 0 \in D
  BY <1>2, <1>4
<1>6. ASSUME NEW k \in 1 .. 32, k - 1 \in D PROVE k \in D
  <2>1. k \in 0 .. 32 /\ k # 0 /\ sum[k - 1] = f[k - 1]
    BY <1>6
  <2> QED
    BY <1>2, <1>4, <2>1
<1>7. sum[32] = f[32]
  <2> HIDE DEF D
  <2>1. 0 .. 32 \subseteq D
    BY <1>5, <1>6, RangeInduction
  <2>2. 32 \in D
    BY <2>1
  <2> QED
    BY <2>2 DEF D
<1>8. ASSUME v = {} \/ w = {} PROVE f[32] = {}
  <2>1. 0 \in Z
    BY <1>2
  <2>2. ASSUME NEW k \in 1 .. 32, k - 1 \in Z PROVE k \in Z
    <3>1. f[k - 1] = {} /\ (IF k - 1 \in v THEN w ELSE {}) = {}
      BY <1>8, <2>2
    <3>2. f[k] = {} ++ {}
      BY <1>2, <3>1, DivideNone
    <3> QED
      BY <3>2, SumZero
  <2> HIDE DEF Z
  <2>3. 0 .. 32 \subseteq Z
    BY <2>1, <2>2, RangeInduction
  <2>4. 32 \in Z
    BY <2>3
  <2> QED
    BY <2>4 DEF Z
<1> QED
  BY <1>1, <1>7, <1>8

\* x^0 is one.
LEMMA TimesOne ==
  ASSUME NEW v \in Words
  PROVE  Times(v, {31}) = v
<1>1. PICK f : Horner(v, {31}, f)
  BY HornerExists, ByteWords
<1>2. /\ f \in [0 .. 32 -> Words] /\ f[0] = {}
      /\ \A k \in 1 .. 32 : f[k] = DivideBit(f[k - 1]) ++ (IF k - 1 \in v THEN {31} ELSE {})
  BY <1>1 DEF Horner
\* The first k bits of v, at the top.
<1> DEFINE Top(k, i) == i \in Word /\ i >= 32 - k /\ i - (32 - k) \in v
           D == {k \in 0 .. 32 : \A i \in Word : i \in f[k] <=> Top(k, i)}
<1>3. 0 \in D
  BY <1>2 DEF Word
<1>4. ASSUME NEW k \in 1 .. 32, k - 1 \in D PROVE k \in D
  <2> DEFINE y == f[k - 1]
             bit == IF k - 1 \in v THEN {31} ELSE {}
  <2>1. y \in Words /\ \A i \in Word : i \in y <=> Top(k - 1, i)
    BY <1>2, <1>4
  <2>2. f[k] = DivideBit(y) ++ bit
    BY <1>2
  <2>3. 0 \notin y
    BY <2>1 DEF Word
  <2> HIDE DEF y, bit
  <2>4. DivideBit(y) = ShiftRight(y, 1)
    BY <2>3 DEF DivideBit
  <2>5. ASSUME NEW i \in Word PROVE i \in f[k] <=> Top(k, i)
    <3>1. i \in Int /\ 0 <= i /\ i <= 31
      BY DEF Word
    <3>2. i \in ShiftRight(y, 1) <=> i + 1 \in y
      BY <2>1, <3>1, ShiftBit
    <3>3. CASE i = 31
      <4>1. 32 \notin y
        BY <2>1 DEF Words, Word
      <4>2. i \notin ShiftRight(y, 1)
        BY <3>2, <3>3, <4>1
      <4>3. i \in f[k] <=> i \in bit
        BY <2>2, <2>4, <4>2, SumBit
      <4>4. i \in bit <=> k - 1 \in v
        BY <3>3 DEF bit
      <4>5. Top(k, i) <=> k - 1 \in v
        <5>1. i - (32 - k) = k - 1 /\ i >= 32 - k
          BY <3>3
        <5> QED
          BY <5>1
      <4> QED
        BY <4>3, <4>4, <4>5
    <3>4. CASE i # 31
      <4>1. i + 1 \in Word /\ (i + 1) - (32 - (k - 1)) = i - (32 - k)
        BY <3>1, <3>4 DEF Word
      <4>2. i \notin bit
        BY <3>4 DEF bit
      <4>3. i \in f[k] <=> i + 1 \in y
        BY <2>2, <2>4, <3>2, <4>2, SumBit
      <4>4. i + 1 \in y <=> Top(k - 1, i + 1)
        BY <2>1, <4>1
      <4>5. Top(k - 1, i + 1) <=> Top(k, i)
        BY <3>1, <4>1
      <4> QED
        BY <4>3, <4>4, <4>5
    <3> QED
      BY <3>3, <3>4
  <2>6. k \in 0 .. 32
    OBVIOUS
  <2> HIDE DEF Top
  <2> QED
    BY <2>5, <2>6
<1>5. 32 \in D
  <2> HIDE DEF D
  <2>1. 0 .. 32 \subseteq D
    BY <1>3, <1>4, RangeInduction
  <2> QED
    BY <2>1
<1>6. f[32] = v
  <2>1. f[32] \in Words
    BY <1>2
  <2>2. \A i \in Word : i \in f[32] <=> i \in v
    BY <1>5 DEF Word
  <2> QED
    BY <2>1, <2>2, WordEqual
<1>7. Times(v, {31}) = f[32]
  BY <1>1, TimesHorner, ByteWords
<1> QED
  BY <1>6, <1>7

\* Times x.
LEMMA TimesBit ==
  ASSUME NEW v \in Words, NEW w \in Words
  PROVE  Times(v, DivideBit(w)) = DivideBit(Times(v, w))
<1>1. PICK f : Horner(v, w, f)
  BY HornerExists
<1>2. /\ f \in [0 .. 32 -> Words] /\ f[0] = {}
      /\ \A k \in 1 .. 32 : f[k] = DivideBit(f[k - 1]) ++ (IF k - 1 \in v THEN w ELSE {})
  BY <1>1 DEF Horner
<1> DEFINE g == [k \in 0 .. 32 |-> DivideBit(f[k])]
<1>3. g \in [0 .. 32 -> Words] /\ \A k \in 0 .. 32 : g[k] = DivideBit(f[k])
  BY <1>2, DivideType
<1> HIDE DEF g
<1>4. g[0] = {}
  BY <1>2, <1>3, DivideNone
<1>5. ASSUME NEW k \in 1 .. 32
      PROVE  g[k] = DivideBit(g[k - 1]) ++ (IF k - 1 \in v THEN DivideBit(w) ELSE {})
  <2> DEFINE bit == IF k - 1 \in v THEN w ELSE {}
  <2>1. k \in 0 .. 32 /\ k - 1 \in 0 .. 32
    OBVIOUS
  <2>2. bit \in Words
    BY ByteWords
  <2>3. DivideBit(bit) = IF k - 1 \in v THEN DivideBit(w) ELSE {}
    BY DivideNone
  <2>4. f[k] = DivideBit(f[k - 1]) ++ bit
    BY <1>2
  <2> HIDE DEF bit
  <2>5. DivideBit(f[k - 1]) \in Words
    <3>1. f[k - 1] \in Words
      BY <1>2, <2>1
    <3> QED
      BY <3>1, DivideType
  <2>6. DivideBit(f[k]) = DivideBit(DivideBit(f[k - 1])) ++ DivideBit(bit)
    BY <2>2, <2>4, <2>5, DivideSum
  <2> QED
    BY <1>3, <2>1, <2>3, <2>6
<1>6. DivideBit(w) \in Words
  BY DivideType
<1>7. Horner(v, DivideBit(w), g)
  BY <1>3, <1>4, <1>5 DEF Horner
<1>8. Times(v, DivideBit(w)) = g[32]
  BY <1>6, <1>7, TimesHorner
<1>9. Times(v, w) = f[32]
  BY <1>1, TimesHorner
<1> QED
  BY <1>3, <1>8, <1>9

\* The product with x^n appends n zero bits.
LEMMA TimesPower ==
  ASSUME NEW v \in Words, NEW n \in Nat
  PROVE  Times(v, Appended(n, {31})) = Appended(n, v)
<1> DEFINE D == {k \in Nat : Times(v, Appended(k, {31})) = Appended(k, v)}
<1>1. 0 \in D
  BY AfterNone, TimesOne, ByteWords
<1>2. ASSUME NEW k \in Nat, k \in D PROVE k + 1 \in D
  <2>1. Times(v, Appended(k, {31})) = Appended(k, v)
    BY <1>2
  <2>2. Appended(k, {31}) \in Words
    BY AfterType, ByteWords
  <2>3. Appended(k + 1, {31}) = DivideBit(Appended(k, {31}))
    BY AfterNext, ByteWords
  <2>4. Appended(k + 1, v) = DivideBit(Appended(k, v))
    BY AfterNext
  <2>5. Times(v, DivideBit(Appended(k, {31}))) = DivideBit(Times(v, Appended(k, {31})))
    BY <2>2, TimesBit
  <2> QED
    BY <2>1, <2>3, <2>4, <2>5
<1> HIDE DEF D
<1>3. Nat \subseteq D
  BY <1>1, <1>2, NatSetInduction
<1>4. n \in D
  BY <1>3
<1> QED
  BY <1>4 DEF D

-----------------------------------------------------------------------------
\* The tables that append zeros.

\* x^(8n), by squaring.
Powers(f) ==
  f = [n \in Nat |->
         IF n = 0 THEN {31}
         ELSE LET half == f[n \div 2]
              IN  IF n % 2 = 0 THEN Times(half, half) ELSE Append0(Times(half, half))]

\* The powers satisfy the recursion, and so are what ZeroBytes holds.
LEMMA PowersExist ==
  Powers([n \in Nat |-> Appended(8 * n, {31})])
<1> DEFINE f == [n \in Nat |-> Appended(8 * n, {31})]
           Step(n) == IF n = 0 THEN {31}
                      ELSE LET half == f[n \div 2]
                           IN  IF n % 2 = 0 THEN Times(half, half) ELSE Append0(Times(half, half))
<1>1. ASSUME NEW n \in Nat PROVE Appended(8 * n, {31}) = Step(n)
  <2>1. CASE n = 0
    <3>1. 8 * n = 0
      BY <2>1
    <3> QED
      BY <2>1, <3>1, AfterNone, ByteWords
  <2>2. CASE n # 0
    <3> DEFINE h == n \div 2
               half == Appended(8 * h, {31})
    <3>1. h \in Nat /\ 8 * h \in Nat /\ (n % 2 = 0 => n = 2 * h) /\ (n % 2 # 0 => n = 2 * h + 1)
      OBVIOUS
    <3>2. f[h] = half
      BY <3>1
    <3> HIDE DEF h, f
    <3>3. half \in Words
      BY <3>1, AfterType, ByteWords
    <3>4. Times(half, half) = Appended(8 * h, half)
      BY <3>1, <3>3, TimesPower
    <3>5. Appended(8 * h, half) = Appended(8 * h + 8 * h, {31})
      BY <3>1, AfterAfter, ByteWords
    <3>6. CASE n % 2 = 0
      <4>1. Step(n) = Times(half, half)
        BY <2>2, <3>2, <3>6 DEF h
      <4>2. 8 * n = 8 * h + 8 * h
        BY <3>1, <3>6
      <4> QED
        BY <3>4, <3>5, <4>1, <4>2
    <3>7. CASE n % 2 # 0
      <4>1. Step(n) = Append0(Times(half, half))
        BY <2>2, <3>2, <3>7 DEF h
      <4>2. 8 * n = (8 * h + 8 * h) + 8 /\ 8 * h + 8 * h \in Nat
        BY <3>1, <3>7
      <4>3. Append0(Times(half, half)) = Appended(8, Appended(8 * h + 8 * h, {31}))
        BY <3>4, <3>5, <4>2, Append0Appends, AfterType, ByteWords
      <4>4. Appended(8, Appended(8 * h + 8 * h, {31})) = Appended((8 * h + 8 * h) + 8, {31})
        BY <4>2, AfterAfter, ByteWords
      <4> QED
        BY <4>1, <4>2, <4>3, <4>4
    <3> QED
      BY <3>6, <3>7
  <2> QED
    BY <2>1, <2>2
<1>2. f = [n \in Nat |-> Step(n)]
  BY <1>1
<1> QED
  BY <1>2 DEF Powers

LEMMA PowersAre ==
  ASSUME NEW n \in Nat
  PROVE  ZeroBytes[n] = Appended(8 * n, {31})
<1> DEFINE f == [k \in Nat |-> Appended(8 * k, {31})]
           D == {k \in Nat : \A j \in 0 .. k : ZeroBytes[j] = f[j]}
<1>1. Powers(f)
  BY PowersExist
<1>2. Powers(ZeroBytes)
  <2>1. ZeroBytes = CHOOSE g : Powers(g)
    BY DEF ZeroBytes, Powers
  <2> HIDE DEF f
  <2> QED
    BY <1>1, <2>1, Zenon
<1> HIDE DEF f
<1>3. ASSUME NEW k \in Nat \ {0}, ZeroBytes[k \div 2] = f[k \div 2]
      PROVE  ZeroBytes[k] = f[k]
  BY <1>1, <1>2, <1>3 DEF Powers
<1>4. 0 \in D
  BY <1>1, <1>2 DEF Powers
<1>5. ASSUME NEW k \in Nat, k \in D PROVE k + 1 \in D
  <2>1. k + 1 \in Nat \ {0} /\ (k + 1) \div 2 \in 0 .. k
    OBVIOUS
  <2>2. ZeroBytes[(k + 1) \div 2] = f[(k + 1) \div 2]
    BY <1>5, <2>1
  <2>3. ZeroBytes[k + 1] = f[k + 1]
    BY <1>3, <2>1, <2>2
  <2> QED
    BY <1>5, <2>3
<1> HIDE DEF D
<1>6. Nat \subseteq D
  BY <1>4, <1>5, NatSetInduction
<1>7. ZeroBytes[n] = f[n]
  <2>1. n \in D /\ n \in 0 .. n
    BY <1>6
  <2> QED
    BY <2>1 DEF D
<1> QED
  BY <1>7 DEF f

\* A word is its four bytes.
LEMMA FourBytes ==
  ASSUME NEW w \in Words
  PROVE  /\ \A k \in 0 .. 3 : ByteOf(w, k) \in Byte /\ Placed(ByteOf(w, k), k) \in Words
         /\ ((Placed(ByteOf(w, 0), 0) ++ Placed(ByteOf(w, 1), 1))
              ++ Placed(ByteOf(w, 2), 2)) ++ Placed(ByteOf(w, 3), 3) = w
<1>1. \A i \in w : i \in Int /\ 0 <= i /\ i <= 31
  BY WordBits
<1>2. ASSUME NEW k \in 0 .. 3
      PROVE  /\ ByteOf(w, k) \in Byte
             /\ Placed(ByteOf(w, k), k) = {i \in w : 8 * k <= i /\ i <= 8 * k + 7}
  <2>1. \A i \in w \cap (8 * k .. 8 * k + 7) : i - 8 * k \in 0 .. 7 /\ (i - 8 * k) + 8 * k = i
    BY <1>1
  <2>2. ByteOf(w, k) \in Byte
    BY <2>1 DEF ByteOf, Byte
  <2>3. Placed(ByteOf(w, k), k) = w \cap (8 * k .. 8 * k + 7)
    BY <2>1 DEF ByteOf, Placed
  <2>4. w \cap (8 * k .. 8 * k + 7) = {i \in w : 8 * k <= i /\ i <= 8 * k + 7}
    BY <1>1
  <2> QED
    BY <2>2, <2>3, <2>4
<1>3. \A k \in 0 .. 3 : Placed(ByteOf(w, k), k) \in Words
  BY <1>2 DEF Words
<1> DEFINE p(k) == Placed(ByteOf(w, k), k)
<1>4. \A i : i \in ((p(0) ++ p(1)) ++ p(2)) ++ p(3) <=> i \in w
  <2>1. \A k \in 0 .. 3 : \A i : i \in p(k) <=> i \in w /\ 8 * k <= i /\ i <= 8 * k + 7
    BY <1>2
  <2> HIDE DEF p
  <2>2. \A i :
          /\ i \in p(0) <=> (i \in w /\ 0 <= i /\ i <= 7)
          /\ i \in p(1) <=> (i \in w /\ 8 <= i /\ i <= 15)
          /\ i \in p(2) <=> (i \in w /\ 16 <= i /\ i <= 23)
          /\ i \in p(3) <=> (i \in w /\ 24 <= i /\ i <= 31)
    BY <2>1
  <2> QED
    BY <1>1, <2>2 DEF ++, SymDiff
<1> HIDE DEF p
<1>5. ((p(0) ++ p(1)) ++ p(2)) ++ p(3) = w
  <2>1. ((p(0) ++ p(1)) ++ p(2)) ++ p(3) = {i \in p(0) \cup p(1) \cup p(2) \cup p(3) :
                                          i \in ((p(0) ++ p(1)) ++ p(2)) ++ p(3)}
    BY DEF ++, SymDiff
  <2> QED
    BY <1>4
<1> QED
  BY <1>2, <1>3, <1>5 DEF p

\* crc32c_shift appends the zeros its table stands for.
LEMMA ShiftAppends ==
  ASSUME NEW w \in Words, NEW n \in Nat
  PROVE  crc32c_shift(ZerosTable(n), w) = Appended(8 * n, w)
<1> DEFINE p(k) == Placed(ByteOf(w, k), k)
           z(x) == Appended(8 * n, x)
<1>1. /\ \A k \in 0 .. 3 : ByteOf(w, k) \in Byte /\ p(k) \in Words
      /\ ((p(0) ++ p(1)) ++ p(2)) ++ p(3) = w
  BY FourBytes
<1>2. 8 * n \in Nat
  OBVIOUS
<1>3. ASSUME NEW k \in 0 .. 3 PROVE ZerosTable(n)[k][ByteOf(w, k)] = z(p(k))
  <2>1. ZerosTable(n)[k][ByteOf(w, k)] = Times(p(k), ZeroBytes[n])
    BY <1>1 DEF ZerosTable
  <2> HIDE DEF p
  <2>2. Times(p(k), Appended(8 * n, {31})) = Appended(8 * n, p(k))
    BY <1>1, <1>2, TimesPower
  <2> QED
    BY <2>1, <2>2, PowersAre
<1>4. crc32c_shift(ZerosTable(n), w) = ((z(p(0)) ++ z(p(1))) ++ z(p(2))) ++ z(p(3))
  BY <1>3 DEF crc32c_shift
<1>5. p(0) \in Words /\ p(1) \in Words /\ p(2) \in Words /\ p(3) \in Words
  BY <1>1
<1> HIDE DEF p
<1>6. p(0) ++ p(1) \in Words /\ (p(0) ++ p(1)) ++ p(2) \in Words
  BY <1>5, SumType
<1>7. /\ z(p(0) ++ p(1)) = z(p(0)) ++ z(p(1))
      /\ z((p(0) ++ p(1)) ++ p(2)) = z(p(0) ++ p(1)) ++ z(p(2))
      /\ z(((p(0) ++ p(1)) ++ p(2)) ++ p(3)) = z((p(0) ++ p(1)) ++ p(2)) ++ z(p(3))
  BY <1>2, <1>5, <1>6, AfterSum
<1> QED
  BY <1>1, <1>4, <1>7

\* The three streams of a block make one.
LEMMA HardwareBlock ==
  ASSUME NEW w \in Words, NEW block \in Seq(Byte), NEW n \in Nat, n % 8 = 0,
         Len(block) = 3 * n
  PROVE  Block(w, block, n, ZerosTable(n)) = Divide(w, block)
<1> DEFINE s(k) == SubSeq(block, k * n + 1, (k + 1) * n)
           shift(x) == crc32c_shift(ZerosTable(n), x)
<1>1. PICK f : Remainders(w, block, f)
  BY RemaindersExist
<1>2. f \in [0 .. Len(block) -> Words] /\ f[0] = w
  BY <1>1 DEF Remainders
<1>3. ASSUME NEW k \in 0 .. 2
      PROVE  /\ k * n \in 0 .. Len(block) /\ s(k) \in Seq(Byte) /\ Len(s(k)) = n
             /\ f[k * n] \in Words
             /\ Divide(f[k * n], s(k)) = f[(k + 1) * n]
  <2> DEFINE a == k * n
             b == (k + 1) * n
  <2>1. a \in Nat /\ b \in 0 .. Len(block) /\ a \in 0 .. b /\ b - a = n /\ a \in 0 .. Len(block)
    <3>1. CASE k = 0
      BY <3>1
    <3>2. CASE k = 1
      BY <3>2
    <3>3. CASE k = 2
      BY <3>3
    <3> QED
      BY <3>1, <3>2, <3>3
  <2> HIDE DEF a, b
  <2>2. SubSeq(block, a + 1, b) \in Seq(Byte) /\ Len(SubSeq(block, a + 1, b)) = n
    BY <2>1
  <2>3. Divide(f[a], SubSeq(block, a + 1, b)) = f[b]
    BY <1>1, <2>1, DividePart
  <2>4. f[a] \in Words
    BY <1>2, <2>1
  <2> QED
    BY <2>1, <2>2, <2>3, <2>4 DEF a, b
<1> HIDE DEF s
<1>4. \A k \in 0 .. 2, x \in Words : Stream(x, s(k)) = Divide(x, s(k))
  BY <1>3, HardwareStream
<1>5. ASSUME NEW k \in 0 .. 2
      PROVE  f[(k + 1) * n] = shift(f[k * n]) ++ Stream({}, s(k))
  <2> DEFINE x == f[k * n]
  <2>1. /\ x \in Words /\ s(k) \in Seq(Byte) /\ Len(s(k)) = n
        /\ Divide(x, s(k)) = f[(k + 1) * n]
    BY <1>3
  <2> HIDE DEF x
  <2>2. Divide({} ++ x, s(k)) = Divide({}, s(k)) ++ Appended(8 * n, x)
    BY <2>1, DivideAdds, ByteWords
  <2>3. {} ++ x = x /\ Divide({}, s(k)) ++ Appended(8 * n, x) = Appended(8 * n, x) ++ Divide({}, s(k))
    BY SumZero, SumCommutes
  <2>4. shift(x) = Appended(8 * n, x)
    BY <2>1, ShiftAppends
  <2>5. Stream({}, s(k)) = Divide({}, s(k))
    BY <1>4, ByteWords
  <2> QED
    BY <2>1, <2>2, <2>3, <2>4, <2>5 DEF x
<1>6. /\ s(0) = SubSeq(block, 1, n) /\ s(1) = SubSeq(block, n + 1, 2 * n)
      /\ s(2) = SubSeq(block, 2 * n + 1, 3 * n)
  BY DEF s
<1>7. Stream(w, s(0)) = f[n]
  <2>1. 0 * n = 0 /\ (0 + 1) * n = n
    OBVIOUS
  <2>2. Divide(f[0 * n], s(0)) = f[(0 + 1) * n]
    BY <1>3
  <2> QED
    BY <1>2, <1>4, <2>1, <2>2
<1>8. f[2 * n] = shift(f[n]) ++ Stream({}, s(1)) /\ f[3 * n] = shift(f[2 * n]) ++ Stream({}, s(2))
  <2>1. 1 * n = n /\ (1 + 1) * n = 2 * n /\ (2 + 1) * n = 3 * n
    OBVIOUS
  <2>2. f[(1 + 1) * n] = shift(f[1 * n]) ++ Stream({}, s(1))
    BY <1>5
  <2>3. f[(2 + 1) * n] = shift(f[2 * n]) ++ Stream({}, s(2))
    BY <1>5
  <2> QED
    BY <2>1, <2>2, <2>3
<1>9. Block(w, block, n, ZerosTable(n))
        = shift(shift(Stream(w, s(0))) ++ Stream({}, s(1))) ++ Stream({}, s(2))
  BY <1>6 DEF Block
<1>10. Divide(w, block) = f[3 * n]
  BY <1>1, DivideRemainders
<1> QED
  BY <1>7, <1>8, <1>9, <1>10

-----------------------------------------------------------------------------
\* The tables of the software.

Row(k) == [b \in Byte |-> Appended(8 * k, Word) ++ Appended(8 * k + 8, Word ++ b)]

\* What crc32c_table holds.
LEMMA TableRows ==
  crc32c_table = [k \in 0 .. 7 |-> Row(k)]
<1> DEFINE whole == [k \in 0 .. 7 |-> Row(k)]
           row == CHOOSE row : row = [k \in 0 .. 7 |->
                    IF k = 0 THEN [b \in Byte |-> Not(Append0(Not(b)))]
                             ELSE [b \in Byte |-> Append0(row[k - 1][b])]]
           D == {k \in 0 .. 7 : row[k] = Row(k)}
<1>1. crc32c_table = row
  BY DEF crc32c_table
<1>2. Row(0) = [b \in Byte |-> Not(Append0(Not(b)))]
  <2>1. ASSUME NEW b \in Byte
        PROVE Appended(8 * 0, Word) ++ Appended(8 * 0 + 8, Word ++ b) = Not(Append0(Not(b)))
    <3>1. b \in Words /\ Word ++ b \in Words /\ 8 * 0 = 0 /\ 8 * 0 + 8 = 8
      BY ByteWords, SumType
    <3>2. Append0(Not(b)) = Appended(8, Word ++ b)
      BY <3>1, NotSum, Append0Appends
    <3>3. Appended(8, Word ++ b) \in Words
      BY <3>1, AfterType
    <3>4. Not(Append0(Not(b))) = Word ++ Appended(8, Word ++ b)
      BY <3>2, <3>3, NotSum
    <3>5. Appended(0, Word) = Word
      BY AfterNone, ByteWords
    <3> QED
      BY <3>1, <3>4, <3>5
  <2> QED
    BY <2>1 DEF Row
<1>3. ASSUME NEW k \in 1 .. 7 PROVE Row(k) = [b \in Byte |-> Append0(Row(k - 1)[b])]
  <2>1. ASSUME NEW b \in Byte
        PROVE  Append0(Row(k - 1)[b]) = Appended(8 * k, Word) ++ Appended(8 * k + 8, Word ++ b)
    <3> DEFINE m == 8 * (k - 1)
               x == Word ++ b
    <3>1. m \in Nat /\ m + 8 \in Nat /\ m + 8 = 8 * k /\ (m + 8) + 8 = 8 * k + 8
      OBVIOUS
    <3>2. x \in Words /\ Word \in Words
      BY ByteWords, SumType
    <3>3. Row(k - 1)[b] = Appended(m, Word) ++ Appended(m + 8, x)
      BY DEF Row
    <3> HIDE DEF m, x
    <3>4. Appended(m, Word) \in Words /\ Appended(m + 8, x) \in Words
      BY <3>1, <3>2, AfterType
    <3>5. Append0(Row(k - 1)[b]) = Appended(8, Appended(m, Word) ++ Appended(m + 8, x))
      BY <3>3, <3>4, SumType, Append0Appends
    <3>6. Appended(8, Appended(m, Word) ++ Appended(m + 8, x))
            = Appended(8, Appended(m, Word)) ++ Appended(8, Appended(m + 8, x))
      BY <3>4, AfterSum
    <3>7. Appended(8, Appended(m, Word)) = Appended(m + 8, Word)
      BY <3>1, <3>2, AfterAfter
    <3>8. Appended(8, Appended(m + 8, x)) = Appended((m + 8) + 8, x)
      BY <3>1, <3>2, AfterAfter
    <3> QED
      BY <3>1, <3>5, <3>6, <3>7, <3>8 DEF x
  <2> QED
    BY <2>1 DEF Row
<1>4. whole = [k \in 0 .. 7 |->
                 IF k = 0 THEN [b \in Byte |-> Not(Append0(Not(b)))]
                          ELSE [b \in Byte |-> Append0(whole[k - 1][b])]]
  <2>1. ASSUME NEW k \in 0 .. 7
        PROVE  Row(k) = IF k = 0 THEN [b \in Byte |-> Not(Append0(Not(b)))]
                                 ELSE [b \in Byte |-> Append0(whole[k - 1][b])]
    <3>1. CASE k = 0
      BY <1>2, <3>1
    <3>2. CASE k # 0
      <4>1. k \in 1 .. 7 /\ k - 1 \in 0 .. 7
        BY <3>2
      <4>2. whole[k - 1] = Row(k - 1)
        BY <4>1
      <4> HIDE DEF whole
      <4> QED
        BY <1>3, <3>2, <4>1, <4>2
    <3> QED
      BY <3>1, <3>2
  <2> QED
    BY <2>1
<1> HIDE DEF whole
<1>5. row = [k \in 0 .. 7 |->
                 IF k = 0 THEN [b \in Byte |-> Not(Append0(Not(b)))]
                          ELSE [b \in Byte |-> Append0(row[k - 1][b])]]
  BY <1>4, Zenon
<1> HIDE DEF row
<1>6. 0 \in D
  BY <1>2, <1>5
<1>7. ASSUME NEW k \in 1 .. 7, k - 1 \in D PROVE k \in D
  <2>1. k \in 0 .. 7 /\ k # 0 /\ row[k - 1] = Row(k - 1)
    BY <1>7
  <2> QED
    BY <1>3, <1>5, <2>1
<1>8. \A k \in 0 .. 7 : row[k] = Row(k)
  <2> HIDE DEF D
  <2>1. 0 .. 7 \subseteq D
    BY <1>6, <1>7, RangeInduction
  <2> QED
    BY <2>1 DEF D
<1>9. row = [k \in 0 .. 7 |-> row[k]]
  BY <1>5
<1> QED
  BY <1>1, <1>8, <1>9

LEMMA TableEntry ==
  ASSUME NEW k \in 0 .. 7, NEW b \in Byte
  PROVE  crc32c_table[k][b] = Appended(8 * k, Word) ++ Appended(8 * k + 8, Word ++ b)
BY TableRows DEF Row

\* One byte.
LEMMA SoftwareByte ==
  ASSUME NEW d \in Words, NEW bytes \in Seq(Byte), Len(bytes) = 1
  PROVE  SwByte(Not(d), bytes[1]) = Not(Divide(d, bytes))
<1> DEFINE c == bytes[1]
           x == (Word ++ d) ++ c
           lo == ByteOf(x, 0)
           hi == High(x)
           z(y) == Appended(8, y)
<1>1. c \in Byte /\ c \in Words /\ Word \in Words
  BY ByteWords
<1>2. Not(d) = Word ++ d /\ Word ++ d \in Words
  BY NotSum, SumType, ByteWords
<1>3. Divide(d, bytes) = z(d ++ c)
  BY OneByte
<1> HIDE DEF c
<1>4. x \in Words /\ d ++ c \in Words
  BY <1>1, <1>2, SumType
<1>5. lo \in Byte /\ lo \in Words /\ hi \in Words /\ hi ++ lo = x
  BY <1>4, LowHigh
<1>6. ShiftRight(Word ++ d, 8) = z(hi)
  <2>1. High(x) = High(Word ++ d)
    <3>1. \A i \in c : i \in Int /\ i < 8
      BY <1>1 DEF Byte
    <3>2. \A i : i >= 8 => (i \in x <=> i \in Word ++ d)
      <4> TAKE i
      <4>1. i >= 8 => i \notin c
        BY <3>1
      <4> QED
        BY <4>1, SumBit
    <3>3. x \subseteq (Word ++ d) \cup c
      BY DEF ++, SymDiff
    <3>4. \A i : i \in High(x) <=> i \in High(Word ++ d)
      BY <3>2 DEF High
    <3> QED
      BY <3>4
  <2> QED
    BY <1>2, <2>1, ShiftHigh
<1>7. crc32c_table[0][lo] = Word ++ z(Word ++ lo)
  <2>1. 0 \in 0 .. 7 /\ 8 * 0 = 0 /\ 8 * 0 + 8 = 8
    OBVIOUS
  <2>2. crc32c_table[0][lo] = Appended(8 * 0, Word) ++ Appended(8 * 0 + 8, Word ++ lo)
    BY <1>5, <2>1, TableEntry
  <2> QED
    BY <1>1, <2>1, <2>2, AfterNone
<1>8. SwByte(Not(d), c) = z(hi) ++ (Word ++ z(Word ++ lo))
  BY <1>2, <1>6, <1>7 DEF SwByte
<1>9. d ++ c = hi ++ (Word ++ lo)
  <2>1. d ++ c = Word ++ x
    BY DEF ++, SymDiff
  <2>2. Word ++ (hi ++ lo) = hi ++ (Word ++ lo)
    BY DEF ++, SymDiff
  <2> QED
    BY <1>5, <2>1, <2>2
<1>10. Word ++ lo \in Words
  BY <1>1, <1>5, SumType
<1> HIDE DEF lo, hi, x
<1>11. z(hi ++ (Word ++ lo)) = z(hi) ++ z(Word ++ lo)
  BY <1>5, <1>10, AfterSum
<1>12. z(d ++ c) \in Words
  BY <1>4, AfterType
<1> HIDE DEF z
<1>13. z(hi) ++ (Word ++ z(Word ++ lo)) = Word ++ (z(hi) ++ z(Word ++ lo))
  BY DEF ++, SymDiff
<1>14. Not(z(d ++ c)) = Word ++ z(d ++ c)
  BY <1>12, NotSum
<1> QED
  BY <1>3, <1>8, <1>9, <1>11, <1>13, <1>14 DEF c

\* A byte in its place, shifted down.
LEMMA PlacedShifts ==
  ASSUME NEW b \in Byte, NEW k \in 0 .. 3, Placed(b, k) \in Words
  PROVE  Appended(8 * k, Placed(b, k)) = b
<1> DEFINE p == Placed(b, k)
<1>1. \A i \in b : i \in Int /\ 0 <= i
  BY DEF Byte
<1>2. 8 * k \in Nat /\ \A i \in p : i >= 8 * k
  BY <1>1 DEF Placed
<1>3. Appended(8 * k, p) = ShiftRight(p, 8 * k)
  BY <1>2, AfterShift
<1>4. ShiftRight(p, 8 * k) = {j - 8 * k : j \in p}
  BY <1>2 DEF ShiftRight
<1>5. {j - 8 * k : j \in p} = b
  <2>1. \A i \in b : i + 8 * k \in p /\ (i + 8 * k) - 8 * k = i
    BY <1>1 DEF Placed
  <2>2. \A j \in p : j - 8 * k \in b
    <3> TAKE j \in p
    <3>1. PICK i \in b : j = i + 8 * k
      BY DEF Placed
    <3> QED
      BY <1>1, <3>1
  <2> HIDE DEF p
  <2> QED
    BY <2>1, <2>2
<1> QED
  BY <1>3, <1>4, <1>5

\* What a term of the sum over a unit is made of.
LEMMA UnitTerm ==
  ASSUME NEW j \in 1 .. 8, NEW c \in Byte
  PROVE  crc32c_table[8 - j][c]
           = Appended(8 * (8 - j), Word)
               ++ (Appended(8 * (8 - (j - 1)), Word) ++ Appended(8 * (8 - (j - 1)), c))
<1>1. /\ 8 - j \in 0 .. 7 /\ 8 * (8 - j) + 8 = 8 * (8 - (j - 1))
      /\ 8 * (8 - (j - 1)) \in Nat
  OBVIOUS
<1>2. crc32c_table[8 - j][c]
        = Appended(8 * (8 - j), Word) ++ Appended(8 * (8 - j) + 8, Word ++ c)
  BY <1>1, TableEntry
<1>3. Word \in Words /\ c \in Words
  BY ByteWords
<1>4. Appended(8 * (8 - (j - 1)), Word ++ c)
        = Appended(8 * (8 - (j - 1)), Word) ++ Appended(8 * (8 - (j - 1)), c)
  BY <1>1, <1>3, AfterSum
<1> QED
  BY <1>1, <1>2, <1>4

\* Neighbours cancel.
LEMMA TermCancels ==
  ASSUME NEW k0, NEW k, NEW kk, NEW f, NEW v, NEW q, NEW r
  PROVE  ((k ++ k0) ++ (f ++ q)) ++ (kk ++ (k ++ (v ++ r)))
           = (kk ++ k0) ++ ((f ++ v) ++ (q ++ r))
BY DEF ++, SymDiff

LEMMA TermCancelsShort ==
  ASSUME NEW k0, NEW k, NEW kk, NEW f, NEW v, NEW q
  PROVE  ((k ++ k0) ++ (f ++ q)) ++ (kk ++ (k ++ v)) = (kk ++ k0) ++ ((f ++ v) ++ q)
BY DEF ++, SymDiff

\* The sum starts with the first term.
LEMMA FirstTerm ==
  ASSUME NEW k0, NEW kk, NEW v, NEW r
  PROVE  kk ++ (k0 ++ (v ++ r)) = (kk ++ k0) ++ (v ++ r)
BY DEF ++, SymDiff

\* Eight bytes.
LEMMA SoftwareUnit ==
  ASSUME NEW d \in Words, NEW unit \in Seq(Byte), Len(unit) = 8
  PROVE  SwUnit(Not(d), unit) = Not(Divide(d, unit))
<1> DEFINE w == Word ++ d
           p(j) == Placed(ByteOf(w, j - 1), j - 1)
           K(j) == Appended(8 * (8 - j), Word)
           V(j) == Appended(8 * (8 - (j - 1)), unit[j])
           Q(j) == Appended(64, p(j))
           low(j) == unit[j] ++ ByteOf(w, j - 1)
<1>0. \A j \in 1 .. Len(unit) : unit[j] \in Byte
  BY ElementOfSeq
<1>1. \A j \in 1 .. 8 : unit[j] \in Byte /\ unit[j] \in Words
  BY <1>0, ByteWords
<1>2. Not(d) = w /\ w \in Words
  BY NotSum, SumType, ByteWords
<1> HIDE DEF w
<1>3. /\ \A j \in 1 .. 4 : ByteOf(w, j - 1) \in Byte /\ p(j) \in Words
      /\ ((p(1) ++ p(2)) ++ p(3)) ++ p(4) = w
  <2>1. \A j \in 1 .. 4 : j - 1 \in 0 .. 3
    OBVIOUS
  <2>2. 1 - 1 = 0 /\ 2 - 1 = 1 /\ 3 - 1 = 2 /\ 4 - 1 = 3
    OBVIOUS
  <2> QED
    BY <1>2, <2>1, <2>2, FourBytes
<1>4. PICK f : Remainders({}, unit, f)
  BY RemaindersExist, ByteWords
<1>5. /\ f \in [0 .. 8 -> Words] /\ f[0] = {}
      /\ \A j \in 1 .. 8 : f[j] = Appended(8, f[j - 1] ++ unit[j])
  BY <1>4 DEF Remainders
<1> DEFINE F(j) == Appended(8 * (8 - j), f[j])
\* The terms.
<1>6. ASSUME NEW j \in 5 .. 8
      PROVE  crc32c_table[8 - j][unit[j]] = K(j) ++ (K(j - 1) ++ V(j))
  BY <1>1, UnitTerm
<1>7. ASSUME NEW j \in 1 .. 4
      PROVE  crc32c_table[8 - j][low(j)] = K(j) ++ (K(j - 1) ++ (V(j) ++ Q(j)))
  <2> DEFINE b == ByteOf(w, j - 1)
             u == unit[j]
             m == 8 * (8 - (j - 1))
             n == 8 * (j - 1)
  <2>1. b \in Byte /\ b \in Words /\ u \in Byte /\ u \in Words /\ p(j) \in Words
    BY <1>1, <1>3, ByteWords
  <2>2. m \in Nat /\ n \in Nat /\ n + m = 64 /\ j - 1 \in 0 .. 3
    OBVIOUS
  <2>3. Appended(n, p(j)) = b
    BY <2>1, <2>2, PlacedShifts
  <2>4. u ++ b \in Byte
    BY <2>1 DEF ++, SymDiff, Byte
  <2>5. crc32c_table[8 - j][u ++ b] = K(j) ++ (K(j - 1) ++ Appended(m, u ++ b))
    BY <2>4, UnitTerm
  <2> HIDE DEF b, u, m, n, p
  <2>6. Appended(m, u ++ b) = Appended(m, u) ++ Appended(m, b)
    BY <2>1, <2>2, AfterSum
  <2>7. Appended(m, Appended(n, p(j))) = Appended(n + m, p(j))
    BY <2>1, <2>2, AfterAfter
  <2>8. Appended(m, b) = Q(j)
    BY <2>2, <2>3, <2>7
  <2> QED
    BY <2>5, <2>6, <2>8 DEF b, u, m
<1>8. ASSUME NEW j \in 1 .. 8 PROVE F(j) = F(j - 1) ++ V(j)
  <2> DEFINE m == 8 * (8 - j)
             x == f[j - 1]
             u == unit[j]
  <2>1. m \in Nat /\ 8 + m = 8 * (8 - (j - 1)) /\ 8 + m \in Nat /\ j - 1 \in 0 .. 8
    OBVIOUS
  <2>2. x \in Words /\ u \in Words
    BY <1>1, <1>5, <2>1
  <2>3. f[j] = Appended(8, x ++ u)
    BY <1>5
  <2> HIDE DEF m, x, u
  <2>4. x ++ u \in Words
    BY <2>2, SumType
  <2>5. Appended(m, Appended(8, x ++ u)) = Appended(8 + m, x ++ u)
    BY <2>1, <2>4, AfterAfter
  <2>6. Appended(8 + m, x ++ u) = Appended(8 + m, x) ++ Appended(8 + m, u)
    BY <2>1, <2>2, AfterSum
  <2> QED
    BY <2>1, <2>3, <2>5, <2>6 DEF m, x, u
<1>9. F(0) = {} /\ F(8) = Divide({}, unit) /\ K(8) = Word /\ K(0) = Appended(64, Word)
  <2>1. 8 * (8 - 0) = 64 /\ 8 * (8 - 8) = 0
    OBVIOUS
  <2>2. Divide({}, unit) = f[8]
    <3>1. {} \in Words /\ unit \in Seq(Byte) /\ Len(unit) = 8
      BY ByteWords
    <3> HIDE DEF Remainders
    <3>2. Divide({}, unit) = f[Len(unit)]
      BY <1>4, <3>1, DivideRemainders, ZenonT(40)
    <3> QED
      BY <3>1, <3>2
  <2>3. f[8] \in Words
    BY <1>5
  <2> QED
    BY <1>5, <2>1, <2>2, <2>3, AfterNone, AfterZero, ByteWords
\* The sums.
<1> DEFINE q1 == Q(1)
           q2 == q1 ++ Q(2)
           q3 == q2 ++ Q(3)
           q4 == q3 ++ Q(4)
           S(j, q) == (K(j) ++ K(0)) ++ (F(j) ++ q)
<1>10. q4 = Appended(64, w)
  <2>1. p(1) \in Words /\ p(2) \in Words /\ p(3) \in Words /\ p(4) \in Words
    BY <1>3
  <2> HIDE DEF p
  <2>2. p(1) ++ p(2) \in Words /\ (p(1) ++ p(2)) ++ p(3) \in Words
    BY <2>1, SumType
  <2>3. /\ Appended(64, p(1) ++ p(2)) = Q(1) ++ Q(2)
        /\ Appended(64, (p(1) ++ p(2)) ++ p(3)) = Appended(64, p(1) ++ p(2)) ++ Q(3)
        /\ Appended(64, ((p(1) ++ p(2)) ++ p(3)) ++ p(4))
             = Appended(64, (p(1) ++ p(2)) ++ p(3)) ++ Q(4)
    BY <2>1, <2>2, AfterSum
  <2> QED
    BY <1>3, <2>3
<1> DEFINE t(j) == IF j <= 4 THEN crc32c_table[8 - j][low(j)] ELSE crc32c_table[8 - j][unit[j]]
<1>11. SwUnit(w, unit)
         = ((((((t(1) ++ t(2)) ++ t(3)) ++ t(4)) ++ t(5)) ++ t(6)) ++ t(7)) ++ t(8)
  <2>1. /\ t(1) = crc32c_table[7][unit[1] ++ ByteOf(w, 0)]
        /\ t(2) = crc32c_table[6][unit[2] ++ ByteOf(w, 1)]
        /\ t(3) = crc32c_table[5][unit[3] ++ ByteOf(w, 2)]
        /\ t(4) = crc32c_table[4][unit[4] ++ ByteOf(w, 3)]
        /\ t(5) = crc32c_table[3][unit[5]] /\ t(6) = crc32c_table[2][unit[6]]
        /\ t(7) = crc32c_table[1][unit[7]] /\ t(8) = crc32c_table[0][unit[8]]
    OBVIOUS
  <2> HIDE DEF t
  <2> QED
    BY <2>1 DEF SwUnit
<1>12. /\ \A j \in 1 .. 4 : t(j) = K(j) ++ (K(j - 1) ++ (V(j) ++ Q(j)))
       /\ \A j \in 5 .. 8 : t(j) = K(j) ++ (K(j - 1) ++ V(j))
  <2>1. ASSUME NEW j \in 1 .. 4 PROVE t(j) = K(j) ++ (K(j - 1) ++ (V(j) ++ Q(j)))
    BY <1>7
  <2>2. ASSUME NEW j \in 5 .. 8 PROVE t(j) = K(j) ++ (K(j - 1) ++ V(j))
    BY <1>6
  <2> QED
    BY <2>1, <2>2
<1> HIDE DEF t, K, V, Q, F, low, p
<1>13. t(1) = S(1, q1)
  <2>1. 1 - 1 = 0
    OBVIOUS
  <2>2. F(1) = V(1)
    <3>1. F(1) = F(0) ++ V(1)
      <4>1. 1 \in 1 .. 8
        OBVIOUS
      <4> QED
        BY <1>8, <2>1, <4>1
    <3>2. F(0) ++ V(1) = V(1)
      BY <1>9, SumZero, SumCommutes
    <3> QED
      BY <3>1, <3>2
  <2>3. t(1) = K(1) ++ (K(0) ++ (V(1) ++ Q(1)))
    BY <1>12, <2>1
  <2> QED
    BY <2>2, <2>3, FirstTerm
<1>14. ASSUME NEW j \in 2 .. 4, NEW q PROVE S(j - 1, q) ++ t(j) = S(j, q ++ Q(j))
  <2>1. t(j) = K(j) ++ (K(j - 1) ++ (V(j) ++ Q(j)))
    BY <1>12
  <2>2. F(j) = F(j - 1) ++ V(j)
    BY <1>8
  <2> QED
    BY <2>1, <2>2, TermCancels
<1>15. ASSUME NEW j \in 5 .. 8, NEW q PROVE S(j - 1, q) ++ t(j) = S(j, q)
  <2>1. t(j) = K(j) ++ (K(j - 1) ++ V(j))
    BY <1>12
  <2>2. F(j) = F(j - 1) ++ V(j)
    BY <1>8
  <2> QED
    BY <2>1, <2>2, TermCancelsShort
<1> HIDE DEF S, q1, q2, q3, q4
<1>16. SwUnit(w, unit) = S(8, q4)
  <2>1. S(1, q1) ++ t(2) = S(2, q2)
    <3>1. 2 - 1 = 1
      OBVIOUS
    <3> QED
      BY <1>14, <3>1 DEF q2
  <2>2. S(2, q2) ++ t(3) = S(3, q3)
    <3>1. 3 - 1 = 2
      OBVIOUS
    <3> QED
      BY <1>14, <3>1 DEF q3
  <2>3. S(3, q3) ++ t(4) = S(4, q4)
    <3>1. 4 - 1 = 3
      OBVIOUS
    <3> QED
      BY <1>14, <3>1 DEF q4
  <2>4. /\ S(4, q4) ++ t(5) = S(5, q4) /\ S(5, q4) ++ t(6) = S(6, q4)
        /\ S(6, q4) ++ t(7) = S(7, q4) /\ S(7, q4) ++ t(8) = S(8, q4)
    <3>1. 5 - 1 = 4 /\ 6 - 1 = 5 /\ 7 - 1 = 6 /\ 8 - 1 = 7
      OBVIOUS
    <3> QED
      BY <1>15, <3>1
  <2> QED
    BY <1>11, <1>13, <2>1, <2>2, <2>3, <2>4
<1>17. Appended(64, w) = Appended(64, Word) ++ Appended(64, d)
  BY AfterSum, ByteWords DEF w
<1>18. Divide(d, unit) = Divide({}, unit) ++ Appended(64, d)
  <2>1. {} ++ d = d /\ 8 * Len(unit) = 64
    BY SumZero, SumCommutes
  <2>2. Divide({} ++ d, unit) = Divide({}, unit) ++ Appended(8 * Len(unit), d)
    BY DivideAdds, ByteWords
  <2> QED
    BY <2>1, <2>2
<1>19. Not(Divide(d, unit)) = Word ++ Divide(d, unit)
  BY DivideWords, NotSum
<1> DEFINE a == Divide({}, unit)
           z == Appended(64, d)
           o == Appended(64, Word)
<1>20. SwUnit(w, unit) = (Word ++ o) ++ (a ++ (o ++ z))
  BY <1>9, <1>10, <1>16, <1>17 DEF S
<1> HIDE DEF a, z, o
<1>21. (Word ++ o) ++ (a ++ (o ++ z)) = Word ++ (a ++ z)
  BY DEF ++, SymDiff
<1> QED
  BY <1>2, <1>18, <1>19, <1>20, <1>21 DEF a, z

-----------------------------------------------------------------------------
(***************************************************************************)
(* The register carries the remainder of the bytes taken, complemented in  *)
(* crc32c_sw; only crc32c_hw is ever in the loops over blocks.             *)
(***************************************************************************)
BytesTaken == SubSeq(buf.data, 1, next)

CrcInv ==
  /\ hw \in BOOLEAN /\ buf \in Buffers
  /\ loop \in {"leading", "long", "short", "units", "trailing", "done"}
  /\ next \in 0 .. Len(buf.data)
  /\ divided \in Words
  /\ divided = Divide(Not(Seed), BytesTaken)
  /\ crc = IF hw THEN divided ELSE Not(divided)
  /\ loop \in {"long", "short"} => hw
  /\ loop = "done" => next = Len(buf.data)

\* The seed and its complement are words.
LEMMA SeedWord ==
  Seed \in Words /\ Not(Seed) \in Words /\ Not(Not(Seed)) = Seed
BY DEF Seed, Not, Words, Word

\* What is taken is taken from a sequence of bytes.
LEMMA BufferType ==
  ASSUME CrcInv
  PROVE  buf.data \in Seq(Byte) /\ Len(buf.data) \in Nat /\ next \in Nat
<1>1. buf \in [align : Nat, data : Seq(Byte)]
  BY BufferAssumption DEF CrcInv
<1> QED
  BY <1>1 DEF CrcInv

\* At the start nothing is taken.
LEMMA InitCrcInv == Init => CrcInv
<1> SUFFICES ASSUME Init PROVE CrcInv
  OBVIOUS
<1>1. buf \in Buffers /\ buf \in [align : Nat, data : Seq(Byte)]
  BY BufferAssumption DEF Init
<1>2. buf.data \in Seq(Byte) /\ Len(buf.data) \in Nat
  BY <1>1
<1>3. Not(Seed) = Divide(Not(Seed), BytesTaken)
  <2>1. BytesTaken \in Seq(Byte) /\ Len(BytesTaken) = 0
    BY <1>2 DEF BytesTaken, Init
  <2>2. PICK f : Remainders(Not(Seed), BytesTaken, f)
    BY <2>1, SeedWord, RemaindersExist
  <2>3. Divide(Not(Seed), BytesTaken) = f[0]
    BY <2>1, <2>2, SeedWord, DivideRemainders
  <2> QED
    BY <2>2, <2>3 DEF Remainders
<1> QED
  BY <1>1, <1>2, <1>3, SeedWord DEF Init, CrcInv

\* The next n bytes.
Coming(n) == SubSeq(buf.data, next + 1, next + n)

\* There are n of them.
LEMMA ComingBytes ==
  ASSUME CrcInv, NEW n \in Nat, next + n <= Len(buf.data)
  PROVE  Coming(n) \in Seq(Byte) /\ Len(Coming(n)) = n
<1> DEFINE a == next + 1
           b == next + n
           data == buf.data
<1>1. data \in Seq(Byte) /\ Len(data) \in Nat /\ next \in Nat
  BY BufferType
<1>2. a \in Nat /\ b \in Nat /\ 1 <= a /\ b <= Len(data) /\ b - a + 1 = n /\ a <= b + 1
  BY <1>1
<1> HIDE DEF a, b, data
<1>3. SubSeq(data, a, b) \in Seq(Byte) /\ Len(SubSeq(data, a, b)) = n
  BY <1>1, <1>2
<1> QED
  BY <1>3 DEF Coming, a, b, data

\* A turn that takes n bytes, and carries on the remainder.
LEMMA TurnKeeps ==
  ASSUME CrcInv, NEW n \in Nat, next + n <= Len(buf.data),
         crc' = IF hw THEN Divide(divided, Coming(n)) ELSE Not(Divide(divided, Coming(n))),
         next' = next + n, divided' = Divide(divided, Coming(n)),
         loop # "done", UNCHANGED <<hw, buf, loop>>
  PROVE  CrcInv'
<1>1. /\ buf.data \in Seq(Byte) /\ Len(buf.data) \in Nat /\ next \in Nat
      /\ next' \in 0 .. Len(buf.data)
  BY BufferType
<1>2. divided \in Words /\ divided = Divide(Not(Seed), BytesTaken)
  BY DEF CrcInv
<1>3. divided' \in Words
  BY <1>2, ComingBytes, DivideWords
<1>4. PICK f : Remainders(Not(Seed), buf.data, f)
  BY <1>1, SeedWord, RemaindersExist
<1>5. f[0] = Not(Seed)
  BY <1>4 DEF Remainders
<1>6. ASSUME NEW m \in 0 .. Len(buf.data)
      PROVE  Divide(Not(Seed), SubSeq(buf.data, 1, m)) = f[m]
  <2>1. 0 \in 0 .. m /\ 0 + 1 = 1
    OBVIOUS
  <2>2. Divide(f[0], SubSeq(buf.data, 0 + 1, m)) = f[m]
    BY <1>1, <1>4, <2>1, SeedWord, DividePart
  <2> QED
    BY <1>5, <2>1, <2>2
<1>7. divided = f[next]
  <2>1. next \in 0 .. Len(buf.data)
    BY DEF CrcInv
  <2> QED
    BY <1>2, <1>6, <2>1 DEF BytesTaken
<1>8. Divide(f[next], Coming(n)) = f[next + n]
  <2>1. next + n \in 0 .. Len(buf.data) /\ next \in 0 .. next + n
    BY <1>1
  <2> QED
    BY <1>1, <1>4, <2>1, SeedWord, DividePart DEF Coming
<1>9. divided' = Divide(Not(Seed), SubSeq(buf.data, 1, next'))
  BY <1>1, <1>6, <1>7, <1>8
<1>10. BytesTaken' = SubSeq(buf.data, 1, next')
  BY DEF BytesTaken
<1> QED
  BY <1>1, <1>3, <1>9, <1>10 DEF CrcInv

\* Leaving a loop changes nothing that has been computed.
LEMMA LeaveKeeps ==
  ASSUME CrcInv, NEW l \in {"leading", "long", "short", "units", "trailing"}, loop = l,
         l = "trailing" => ~(len > 0), loop' = After(l),
         UNCHANGED <<hw, buf, next, crc, divided>>
  PROVE  CrcInv'
<1>1. BytesTaken' = BytesTaken
  BY DEF BytesTaken
<1>2. /\ loop' \in {"leading", "long", "short", "units", "trailing", "done"}
      /\ loop' \in {"long", "short"} => hw
      /\ loop' = "done" => l = "trailing"
  BY DEF After, CrcInv
<1>3. loop' = "done" => next = Len(buf.data)
  BY <1>2, BufferType DEF len, CrcInv
<1> QED
  BY <1>1, <1>2, <1>3 DEF CrcInv

\* What a turn makes of the register is the remainder of the bytes it takes.
LEMMA TakesByte ==
  ASSUME CrcInv, next + 1 <= Len(buf.data)
  PROVE  TakeByte(crc, Coming(1))
           = IF hw THEN Divide(divided, Coming(1)) ELSE Not(Divide(divided, Coming(1)))
<1>1. Coming(1) \in Seq(Byte) /\ Len(Coming(1)) = 1
  BY ComingBytes
<1>2. divided \in Words /\ hw \in BOOLEAN /\ crc = IF hw THEN divided ELSE Not(divided)
  BY DEF CrcInv
<1> QED
  BY <1>1, <1>2, HardwareByte, SoftwareByte DEF TakeByte

LEMMA TakesUnit ==
  ASSUME CrcInv, next + 8 <= Len(buf.data)
  PROVE  TakeUnit(crc, Coming(8))
           = IF hw THEN Divide(divided, Coming(8)) ELSE Not(Divide(divided, Coming(8)))
<1>1. Coming(8) \in Seq(Byte) /\ Len(Coming(8)) = 8
  BY ComingBytes
<1>2. divided \in Words /\ hw \in BOOLEAN /\ crc = IF hw THEN divided ELSE Not(divided)
  BY DEF CrcInv
<1> QED
  BY <1>1, <1>2, HardwareUnit, SoftwareUnit DEF TakeUnit

LEMMA TakesBlock ==
  ASSUME CrcInv, hw, NEW n \in Nat, n % 8 = 0, next + 3 * n <= Len(buf.data)
  PROVE  Block(crc, Coming(3 * n), n, ZerosTable(n))
           = Divide(divided, Coming(3 * n))
<1>1. 3 * n \in Nat
  OBVIOUS
<1>2. Coming(3 * n) \in Seq(Byte) /\ Len(Coming(3 * n)) = 3 * n
  BY <1>1, ComingBytes
<1>3. divided \in Words /\ crc = divided
  BY DEF CrcInv
<1> QED
  BY <1>2, <1>3, HardwareBlock

\* Every turn of every loop preserves the invariant.
LEMMA NextCrcInv ==
  ASSUME CrcInv, [Next]_vars
  PROVE  CrcInv'
<1>1. /\ hw \in BOOLEAN /\ next \in Nat /\ Len(buf.data) \in Nat
      /\ next <= Len(buf.data)
  BY BufferType DEF CrcInv
<1>2. /\ LONG \in Nat /\ LONG % 8 = 0 /\ SHORT \in Nat /\ SHORT % 8 = 0
      /\ 3 * LONG \in Nat /\ 3 * SHORT \in Nat
  BY BlockAssumption
<1>3. CASE Leading
  <2>1. ASSUME Turn("leading", len > 0 /\ (buf.align + next) % 8 # 0, 1, TakeByte) PROVE CrcInv'
    <3>1. /\ loop = "leading" /\ len > 0
          /\ crc' = TakeByte(crc, Coming(1)) /\ next' = next + 1
          /\ divided' = Divide(divided, Coming(1)) /\ UNCHANGED <<hw, buf, loop>>
      BY <2>1 DEF Turn, Coming
    <3>2. next + 1 <= Len(buf.data)
      BY <1>1, <3>1 DEF len
    <3> QED
      BY <3>1, <3>2, TakesByte, TurnKeeps
  <2>2. ASSUME Leave("leading", len > 0 /\ (buf.align + next) % 8 # 0) PROVE CrcInv'
    BY <2>2, LeaveKeeps DEF Leave
  <2> QED
    BY <1>3, <2>1, <2>2 DEF Leading, Loop
<1>4. CASE Long
  <2>1. ASSUME Turn("long", len >= 3 * LONG, 3 * LONG, TakeLong) PROVE CrcInv'
    <3>1. /\ loop = "long" /\ len >= 3 * LONG
          /\ crc' = TakeLong(crc, Coming(3 * LONG)) /\ next' = next + 3 * LONG
          /\ divided' = Divide(divided, Coming(3 * LONG)) /\ UNCHANGED <<hw, buf, loop>>
      BY <2>1 DEF Turn, Coming
    <3>2. next + 3 * LONG <= Len(buf.data)
      BY <1>1, <1>2, <3>1 DEF len
    <3>3. hw
      BY <3>1 DEF CrcInv
    <3>4. crc' = Divide(divided, Coming(3 * LONG))
      BY <1>2, <3>1, <3>2, <3>3, TakesBlock DEF TakeLong, crc32c_long
    <3> QED
      BY <1>2, <3>1, <3>2, <3>3, <3>4, TurnKeeps
  <2>2. ASSUME Leave("long", len >= 3 * LONG) PROVE CrcInv'
    BY <2>2, LeaveKeeps DEF Leave
  <2> QED
    BY <1>4, <2>1, <2>2 DEF Long, Loop
<1>5. CASE Short
  <2>1. ASSUME Turn("short", len >= 3 * SHORT, 3 * SHORT, TakeShort) PROVE CrcInv'
    <3>1. /\ loop = "short" /\ len >= 3 * SHORT
          /\ crc' = TakeShort(crc, Coming(3 * SHORT)) /\ next' = next + 3 * SHORT
          /\ divided' = Divide(divided, Coming(3 * SHORT)) /\ UNCHANGED <<hw, buf, loop>>
      BY <2>1 DEF Turn, Coming
    <3>2. next + 3 * SHORT <= Len(buf.data)
      BY <1>1, <1>2, <3>1 DEF len
    <3>3. hw
      BY <3>1 DEF CrcInv
    <3>4. crc' = Divide(divided, Coming(3 * SHORT))
      BY <1>2, <3>1, <3>2, <3>3, TakesBlock DEF TakeShort, crc32c_short
    <3> QED
      BY <1>2, <3>1, <3>2, <3>3, <3>4, TurnKeeps
  <2>2. ASSUME Leave("short", len >= 3 * SHORT) PROVE CrcInv'
    BY <2>2, LeaveKeeps DEF Leave
  <2> QED
    BY <1>5, <2>1, <2>2 DEF Short, Loop
<1>6. CASE Units
  <2>1. ASSUME Turn("units", len >= 8, 8, TakeUnit) PROVE CrcInv'
    <3>1. /\ loop = "units" /\ len >= 8
          /\ crc' = TakeUnit(crc, Coming(8)) /\ next' = next + 8
          /\ divided' = Divide(divided, Coming(8)) /\ UNCHANGED <<hw, buf, loop>>
      BY <2>1 DEF Turn, Coming
    <3>2. next + 8 <= Len(buf.data)
      BY <1>1, <3>1 DEF len
    <3> QED
      BY <3>1, <3>2, TakesUnit, TurnKeeps
  <2>2. ASSUME Leave("units", len >= 8) PROVE CrcInv'
    BY <2>2, LeaveKeeps DEF Leave
  <2> QED
    BY <1>6, <2>1, <2>2 DEF Units, Loop
<1>7. CASE Trailing
  <2>1. ASSUME Turn("trailing", len > 0, 1, TakeByte) PROVE CrcInv'
    <3>1. /\ loop = "trailing" /\ len > 0
          /\ crc' = TakeByte(crc, Coming(1)) /\ next' = next + 1
          /\ divided' = Divide(divided, Coming(1)) /\ UNCHANGED <<hw, buf, loop>>
      BY <2>1 DEF Turn, Coming
    <3>2. next + 1 <= Len(buf.data)
      BY <1>1, <3>1 DEF len
    <3> QED
      BY <3>1, <3>2, TakesByte, TurnKeeps
  <2>2. ASSUME Leave("trailing", len > 0) PROVE CrcInv'
    BY <2>2, LeaveKeeps DEF Leave
  <2> QED
    BY <1>7, <2>1, <2>2 DEF Trailing, Loop
<1>8. CASE UNCHANGED vars
  BY <1>8 DEF vars, CrcInv, BytesTaken
<1> QED
  BY <1>3, <1>4, <1>5, <1>6, <1>7, <1>8 DEF Next

\* The invariant implies what is claimed.
LEMMA CrcHolds ==
  ASSUME CrcInv
  PROVE  CrcAgrees
<1>1. buf.data \in Seq(Byte) /\ Len(buf.data) \in Nat /\ next \in Nat
  BY BufferType
<1>2. result = Not(divided)
  BY DEF result, CrcInv
<1>3. loop = "done" => BytesTaken = buf.data
  <2> SUFFICES ASSUME loop = "done" PROVE BytesTaken = buf.data
    OBVIOUS
  <2>1. next = Len(buf.data)
    BY DEF CrcInv
  <2> DEFINE data == buf.data
             part == SubSeq(data, 1, Len(data))
  <2>2. data \in Seq(Byte)
    BY <1>1
  <2> HIDE DEF data
  <2>3. /\ part \in Seq(Byte) /\ Len(part) = Len(data)
        /\ \A i \in 1 .. Len(data) : part[i] = data[i]
    BY <2>2
  <2> HIDE DEF part
  <2>4. part = data
    BY <2>2, <2>3, SeqEqual
  <2> QED
    BY <2>1, <2>4 DEF BytesTaken, part, data
<1> QED
  BY <1>2, <1>3 DEF CrcAgrees, CrcInv

-----------------------------------------------------------------------------
(***************************************************************************)
(* The results, of every behaviour of Algorithms.                          *)
(***************************************************************************)

AlgorithmsInv ==
  /\ CrcInv
  /\ Tried => input \in Vectors \cup Messages

\* Checksums are computed where nothing is tried; inputs stay what they are.
LEMMA InitAlgorithms == AlgorithmsInit => AlgorithmsInv
BY InitCrcInv DEF AlgorithmsInit, AlgorithmsInv, Tried

LEMMA NextAlgorithms ==
  ASSUME AlgorithmsInv, [AlgorithmsNext]_<<vars, input>>
  PROVE  AlgorithmsInv'
<1>1. CrcInv /\ [Next]_vars /\ input' = input
  BY DEF AlgorithmsInv, AlgorithmsNext
<1>2. CrcInv'
  BY <1>1, NextCrcInv
<1> QED
  BY <1>1, <1>2 DEF AlgorithmsInv, Tried

\* Both implementations carry, after every turn of every loop, the remainder of
\* the bytes taken, and the word they return is the CRC-32C of the whole buffer
\* (CRC32.cpp, crc32c_sw and crc32c_hw).
THEOREM ChecksumsAgree == AlgorithmsSpec => []CrcAgrees
<1>1. AlgorithmsInv => CrcAgrees
  BY CrcHolds DEF AlgorithmsInv
<1> QED
  BY <1>1, InitAlgorithms, NextAlgorithms, PTL DEF AlgorithmsSpec

\* Every vector tried is written as one stretch, and the completion polled is
\* the last (Operation.cpp, rdmaWriteVector).
THEOREM EveryVectorWritten == AlgorithmsSpec => []VectorsWritten
<1>1. AlgorithmsInv => VectorsWritten
  <2> SUFFICES ASSUME AlgorithmsInv, Tried, input.kind = "vector"
               PROVE  VectorWritten(input.list, input.dest, input.sgePerWr, Remote)
    BY DEF VectorsWritten
  <2>1. input \in Vectors
    <3>1. \A x \in Messages : x.kind = "message"
      BY InputAssumption DEF MessageInput
    <3> QED
      BY <3>1 DEF AlgorithmsInv
  <2>2. input \in VectorInput /\ input.list # << >>
    BY <2>1, InputAssumption
  <2>3. Packable(Octet, input.list, input.sgePerWr) /\ input.dest \in Nat
    BY <2>2 DEF VectorInput, Packable
  <2>4. Remote = [a \in DOMAIN Remote |-> Remote[a]] /\ DOMAIN Remote \subseteq Nat
    BY InputAssumption
  <2> QED
    BY <2>3, <2>4, StretchWritten
<1> QED
  BY <1>1, InitAlgorithms, NextAlgorithms, PTL DEF AlgorithmsSpec

\* Every message tried is found whole by its receiver (RpcMessage.h, add and
\* get; DSM.h, ud_rpc_call).
THEOREM EveryMessageArrives == AlgorithmsSpec => []MessagesArrive
<1>1. AlgorithmsInv => MessagesArrive
  <2> SUFFICES ASSUME AlgorithmsInv, Tried, input.kind = "message",
                      NEW n \in 0 .. IdCnt - 1, NEW t \in 0 .. IdCnt - 1
               PROVE  RoundTrip(input.fields, [node_id |-> n, t_id |-> t], input.extra)
    BY DEF MessagesArrive
  <2>1. input \in Messages
    <3>1. \A x \in Vectors : x.kind = "vector"
      BY InputAssumption DEF VectorInput
    <3> QED
      BY <3>1 DEF AlgorithmsInv
  <2>2. input \in MessageInput
    BY <2>1, InputAssumption
  <2>3. input.fields \in Seq(FieldInput) /\ input.extra \in ExtraInput
    BY <2>2 DEF MessageInput
  <2> DEFINE me == [node_id |-> n, t_id |-> t]
  <2>4. me.node_id \in Nat /\ me.t_id \in Nat
    BY SlotAssumption
  <2> HIDE DEF me
  <2>5. RoundTrip(input.fields, me, input.extra)
    BY <2>3, <2>4, MessageArrives DEF ExtraInput
  <2> QED
    BY <2>5 DEF me
<1> QED
  BY <1>1, InitAlgorithms, NextAlgorithms, PTL DEF AlgorithmsSpec
=============================================================================
