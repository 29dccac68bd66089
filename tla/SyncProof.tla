----------------------------- MODULE SyncProof ------------------------------
(***************************************************************************)
(* The proofs about what processes and threads agree by: the collective    *)
(* operations of DSMKeeper, which are the barrier and the sum, and the     *)
(* reader-writer lock.                                                     *)
(***************************************************************************)
EXTENDS Sum, WRLock, SharedLemmas

-----------------------------------------------------------------------------
(***************************************************************************)
(* The barrier, which Sum extends, from the assumptions of Barrier alone:  *)
(* for any set of callers, any number of which may reset the counter, and  *)
(* any number expected, nobody leaves before as many have come as are      *)
(* expected.  When these are all the callers, one on each node as          *)
(* DSM::barrier believes, this is what a barrier promises.                 *)
(***************************************************************************)

LEMMA InitBarrierInv == Init => BarrierInv
<1> SUFFICES ASSUME Init PROVE BarrierInv
  OBVIOUS
<1>1. Arrived \subseteq Caller
  BY DEF Arrived
<1>2. Cardinality(Arrived) \in Nat
  BY <1>1, CallerAssumption, FS_Subset, FS_CardinalityType
<1>3. 0 \in 0 .. Cardinality(Arrived)
  BY <1>2
<1>4. /\ bpc \in [Caller -> {"out", "set", "add", "spin", "left"}]
      /\ \A c \in Caller : bpc[c] # "left"
      /\ created \in BOOLEAN /\ counter = 0
  BY DEF Init
<1> QED
  BY <1>3, <1>4 DEF BarrierInv

\* A step that leaves the set of those who have come as it is.
LEMMA SameArrived ==
  ASSUME bpc \in [Caller -> {"out", "set", "add", "spin", "left"}],
         NEW c \in Caller, NEW to \in {"out", "set", "add", "spin", "left"},
         bpc' = [bpc EXCEPT ![c] = to],
         bpc[c] \in {"spin", "left"} <=> to \in {"spin", "left"}
  PROVE  /\ bpc' \in [Caller -> {"out", "set", "add", "spin", "left"}]
         /\ Arrived' = Arrived
BY DEF Arrived

\* Every step of a caller preserves the invariant: a counter that is reset
\* counts too few, never too many.
LEMMA NextBarrierInv == BarrierInv /\ [Next]_barrierVars => BarrierInv'
<1> SUFFICES ASSUME BarrierInv, [Next]_barrierVars PROVE BarrierInv'
  OBVIOUS
<1>1. /\ bpc \in [Caller -> {"out", "set", "add", "spin", "left"}]
      /\ created \in BOOLEAN /\ counter \in 0 .. Cardinality(Arrived)
      /\ (\E c \in Caller : bpc[c] = "left") => Cardinality(Arrived) >= Expected
  BY DEF BarrierInv
<1>2. IsFiniteSet(Arrived) /\ Cardinality(Arrived) \in Nat
  <2>1. Arrived \subseteq Caller
    BY DEF Arrived
  <2> QED
    BY <2>1, CallerAssumption, FS_Subset, FS_CardinalityType
<1>3. ASSUME NEW c \in Caller, Call(c, c \in Creator) PROVE BarrierInv'
  <2> DEFINE to == IF c \in Creator THEN "set" ELSE "add"
  <2>1. bpc[c] = "out" /\ bpc' = [bpc EXCEPT ![c] = to] /\ UNCHANGED <<created, counter>>
    BY <1>3 DEF Call
  <2>2. to \in {"set", "add"}
    OBVIOUS
  <2> HIDE DEF to
  <2>3. /\ bpc' \in [Caller -> {"out", "set", "add", "spin", "left"}]
        /\ Arrived' = Arrived
    BY <1>1, <2>1, <2>2, SameArrived
  <2>4. \A d \in Caller : bpc'[d] = "left" => bpc[d] = "left"
    BY <1>1, <2>1, <2>2
  <2> QED
    BY <1>1, <2>1, <2>3, <2>4 DEF BarrierInv
<1>4. ASSUME NEW c \in Caller, SetZero(c) PROVE BarrierInv'
  <2>1. /\ bpc[c] = "set" /\ bpc' = [bpc EXCEPT ![c] = "add"]
        /\ created' = TRUE /\ counter' = 0
    BY <1>4 DEF SetZero
  <2>2. /\ bpc' \in [Caller -> {"out", "set", "add", "spin", "left"}]
        /\ Arrived' = Arrived
    BY <1>1, <2>1, SameArrived
  <2>3. \A d \in Caller : bpc'[d] = "left" => bpc[d] = "left"
    BY <1>1, <2>1
  <2> QED
    BY <1>1, <1>2, <2>1, <2>2, <2>3 DEF BarrierInv
<1>5. ASSUME NEW c \in Caller, FetchAndAdd(c) PROVE BarrierInv'
  <2>1. /\ bpc[c] = "add" /\ bpc' = [bpc EXCEPT ![c] = "spin"]
        /\ created' = created /\ counter' = counter + 1
    BY <1>5 DEF FetchAndAdd
  <2>2. bpc' \in [Caller -> {"out", "set", "add", "spin", "left"}]
    BY <1>1, <2>1
  <2>3. Arrived' = Arrived \cup {c} /\ c \notin Arrived
    BY <1>1, <2>1 DEF Arrived
  <2>4. Cardinality(Arrived') = Cardinality(Arrived) + 1
    BY <1>2, <2>3, FS_AddElement
  <2>5. \A d \in Caller : bpc'[d] = "left" => bpc[d] = "left"
    BY <1>1, <2>1
  <2>6. Cardinality(Arrived) >= Expected => Cardinality(Arrived) + 1 >= Expected
    BY <1>2, ExpectedAssumption
  <2>7. counter + 1 \in 0 .. Cardinality(Arrived) + 1
    BY <1>1, <1>2
  <2> QED
    BY <1>1, <2>1, <2>2, <2>4, <2>5, <2>6, <2>7 DEF BarrierInv
<1>6. ASSUME NEW c \in Caller, Leave(c) PROVE BarrierInv'
  <2>1. /\ bpc[c] = "spin" /\ bpc' = [bpc EXCEPT ![c] = "left"] /\ counter = Expected
        /\ UNCHANGED <<created, counter>>
    BY <1>6 DEF Leave
  <2>2. /\ bpc' \in [Caller -> {"out", "set", "add", "spin", "left"}]
        /\ Arrived' = Arrived
    BY <1>1, <2>1, SameArrived
  <2>3. Cardinality(Arrived) >= Expected
    BY <1>1, <1>2, <2>1, ExpectedAssumption
  <2> QED
    BY <1>1, <2>1, <2>2, <2>3 DEF BarrierInv
<1>7. CASE UNCHANGED barrierVars
  BY <1>1, <1>7 DEF barrierVars, BarrierInv, Arrived
<1> QED
  BY <1>3, <1>4, <1>5, <1>6, <1>7 DEF Next, Inside

\* With as many expected as there are callers, those who have come when one has
\* left are all.
LEMMA AllArrived ==
  ASSUME BarrierInv, Expected = Cardinality(Caller)
  PROVE  BarrierHolds
<1> SUFFICES ASSUME NEW c \in Caller, bpc[c] = "left"
             PROVE  \A d \in Caller : bpc[d] \in {"spin", "left"}
  BY DEF BarrierHolds
<1>1. Arrived \subseteq Caller /\ Cardinality(Arrived) >= Cardinality(Caller)
  BY DEF BarrierInv, Arrived
<1>2. /\ IsFiniteSet(Arrived) /\ Cardinality(Arrived) \in Nat /\ Cardinality(Caller) \in Nat
      /\ Cardinality(Arrived) <= Cardinality(Caller)
      /\ Cardinality(Arrived) = Cardinality(Caller) => Arrived = Caller
  BY <1>1, CallerAssumption, FS_Subset, FS_CardinalityType
<1>3. Arrived = Caller
  BY <1>1, <1>2
<1> QED
  BY <1>3 DEF Arrived

\* The counter never exceeds the number of callers it has counted, and nobody has
\* left the barrier before as many came as DSMKeeper::barrier was told to expect.
THEOREM NoneTooEarly == Spec => []BarrierInv
BY InitBarrierInv, NextBarrierInv, PTL DEF Spec

\* DSMKeeper::barrier called once for each that is expected: nobody is past it
\* before everybody has come.
THEOREM BarrierSafe ==
  ASSUME Expected = Cardinality(Caller)
  PROVE  Spec => []BarrierHolds
<1>1. BarrierInv => BarrierHolds
  BY AllArrived
<1> QED
  BY <1>1, NoneTooEarly, PTL

-----------------------------------------------------------------------------
(***************************************************************************)
(* The inductive invariant: a node is in the barrier between its sums, and *)
(* what it has stored and added up tells how far it has come.              *)
(***************************************************************************)

SumTypeOK ==
  /\ spc \in [Caller -> {"out", "set", "get"}]
  /\ round \in [Caller -> 0 .. 2]
  /\ stored \in [Caller -> (Caller \X {1, 2}) \cup {NoValue}]
  /\ added \in [Caller -> [{1, 2} -> Seq(Caller \X {1, 2})]]

\* Node n has stored the value of its second sum.
SecondStored(n) == round[n] = 2 \/ (round[n] = 1 /\ spc[n] = "get")

SumInv ==
  /\ BarrierInv
  /\ SumTypeOK
  /\ \A n \in Caller :
       /\ bpc[n] # "out" => round[n] > 0
       /\ round[n] = 2 \/ (round[n] = 1 /\ spc[n] # "out") => bpc[n] = "left"
       /\ round[n] = 2 => spc[n] = "out"
       /\ stored[n] \in {NoValue, <<n, 1>>, <<n, 2>>}
       /\ (SecondStored(n) <=> stored[n] = <<n, 2>>)
  /\ SumExact

-----------------------------------------------------------------------------
(***************************************************************************)
(* The sums.  For any number of nodes, the first is exact and the second   *)
(* never counts an old value of the node itself.  A value of the second    *)
(* sum is stored by a node that has left the barrier, and by then, as the  *)
(* barrier holds, no node is in its first sum any more.                    *)
(***************************************************************************)

\* One caller on each of ServerNR nodes is as many as the barrier expects.
LEMMA NodeFacts ==
  /\ Caller = 0 .. ServerNR - 1 /\ ServerNR \in Nat \ {0}
  /\ Expected = Cardinality(Caller)
<1>1. /\ Caller = 0 .. ServerNR - 1 /\ ServerNR \in Nat \ {0} /\ Expected = ServerNR
  BY NodeAssumption
<1>2. Cardinality(0 .. ServerNR - 1) = ServerNR
  BY <1>1, FS_Interval
<1> QED
  BY <1>1, <1>2

\* What SumInv says of a node.
NodeInv(n) ==
  /\ bpc[n] # "out" => round[n] > 0
  /\ round[n] = 2 \/ (round[n] = 1 /\ spc[n] # "out") => bpc[n] = "left"
  /\ round[n] = 2 => spc[n] = "out"
  /\ stored[n] \in {NoValue, <<n, 1>>, <<n, 2>>}
  /\ (SecondStored(n) <=> stored[n] = <<n, 2>>)

\* The sequences that SumExact allows for the two sums of node n.
FirstExact(s)     == \A i \in DOMAIN s : s[i] = <<i - 1, 1>>
SecondExact(n, s) == /\ \A i \in DOMAIN s : s[i] \in {<<i - 1, 1>>, <<i - 1, 2>>}
                     /\ Len(s) > n => s[n + 1] = <<n, 2>>

LEMMA SplitExact ==
  SumExact <=> \A n \in Caller : FirstExact(added[n][1]) /\ SecondExact(n, added[n][2])
BY DEF SumExact, FirstExact, SecondExact

LEMMA SplitSum ==
  SumInv <=> BarrierInv /\ SumTypeOK /\ (\A n \in Caller : NodeInv(n)) /\ SumExact
BY DEF SumInv, NodeInv

LEMMA InitSumInv == SumInit => SumInv
<1> SUFFICES ASSUME SumInit PROVE SumInv
  OBVIOUS
<1>1. BarrierInv
  BY InitBarrierInv DEF SumInit
<1>2. SumTypeOK
  BY DEF SumInit, SumTypeOK
<1>3. ASSUME NEW n \in Caller PROVE NodeInv(n)
  <2>1. NoValue # <<n, 2>>
    BY DEF NoValue
  <2> QED
    BY <2>1 DEF SumInit, Init, NodeInv, SecondStored
<1>4. SumExact
  <2>1. \A n \in Caller : added[n][1] = << >> /\ added[n][2] = << >>
    BY DEF SumInit
  <2>2. ASSUME NEW n \in Caller PROVE FirstExact(<< >>) /\ SecondExact(n, << >>)
    <3>1. ~(0 > n)
      BY NodeFacts
    <3> QED
      BY <3>1 DEF FirstExact, SecondExact
  <2> QED
    BY <2>1, <2>2, SplitExact
<1> QED
  BY <1>1, <1>2, <1>3, <1>4, SplitSum

\* While a node is in its first sum, no node has stored a value of the second.
LEMMA FirstSumUndisturbed ==
  ASSUME SumInv, NEW n \in Caller, round[n] = 0, NEW i \in Caller
  PROVE  stored[i] \in {NoValue, <<i, 1>>}
<1>1. BarrierHolds
  BY AllArrived, NodeFacts DEF SumInv
<1>2. NodeInv(n) /\ NodeInv(i)
  BY SplitSum
<1>3. bpc[n] = "out"
  BY <1>2 DEF NodeInv
<1>4. bpc[i] # "left"
  BY <1>1, <1>3 DEF BarrierHolds
<1>5. ~SecondStored(i)
  BY <1>2, <1>4 DEF NodeInv, SecondStored
<1> QED
  BY <1>2, <1>5 DEF NodeInv

LEMMA EnterSumInv ==
  ASSUME SumInv, NEW n \in Caller, Enter(n)
  PROVE  SumInv'
<1>1. BarrierInv /\ SumTypeOK /\ (\A m \in Caller : NodeInv(m)) /\ SumExact
  BY SplitSum
<1>2. /\ spc[n] = "out" /\ spc' = [spc EXCEPT ![n] = "set"]
      /\ round[n] = 0 \/ (round[n] = 1 /\ bpc[n] = "left")
      /\ bpc' = bpc /\ created' = created /\ counter' = counter
      /\ round' = round /\ stored' = stored /\ added' = added
  BY DEF Enter, barrierVars
<1>3. BarrierInv' /\ SumExact'
  BY <1>1, <1>2 DEF BarrierInv, Arrived, SumExact
<1>4. SumTypeOK'
  BY <1>1, <1>2 DEF SumTypeOK
<1>5. ASSUME NEW m \in Caller PROVE NodeInv(m)'
  <2>1. NodeInv(m)
    BY <1>1
  <2>2. spc'[m] = IF m = n THEN "set" ELSE spc[m]
    BY <1>1, <1>2 DEF SumTypeOK
  <2> QED
    BY <1>2, <2>1, <2>2 DEF NodeInv, SecondStored, NoValue
<1> QED
  BY <1>3, <1>4, <1>5 DEF SumInv, NodeInv

LEMMA StoreValueSumInv ==
  ASSUME SumInv, NEW n \in Caller, StoreValue(n)
  PROVE  SumInv'
<1>1. BarrierInv /\ SumTypeOK /\ (\A m \in Caller : NodeInv(m)) /\ SumExact
  BY SplitSum
<1>2. /\ spc[n] = "set" /\ spc' = [spc EXCEPT ![n] = "get"]
      /\ stored' = [stored EXCEPT ![n] = <<n, round[n] + 1>>]
      /\ bpc' = bpc /\ created' = created /\ counter' = counter
      /\ round' = round /\ added' = added
  BY DEF StoreValue, barrierVars
<1>3. BarrierInv' /\ SumExact'
  BY <1>1, <1>2 DEF BarrierInv, Arrived, SumExact
<1>4. round[n] \in {0, 1}
  BY <1>1, <1>2 DEF SumTypeOK, NodeInv
<1>5. SumTypeOK'
  BY <1>1, <1>2, <1>4 DEF SumTypeOK
<1>6. ASSUME NEW m \in Caller PROVE NodeInv(m)'
  <2>1. NodeInv(m)
    BY <1>1
  <2>2. /\ spc'[m] = IF m = n THEN "get" ELSE spc[m]
        /\ stored'[m] = IF m = n THEN <<n, round[n] + 1>> ELSE stored[m]
    BY <1>1, <1>2 DEF SumTypeOK
  <2> QED
    BY <1>2, <1>4, <2>1, <2>2 DEF NodeInv, SecondStored
<1> QED
  BY <1>3, <1>5, <1>6 DEF SumInv, NodeInv

\* The value read next is that of the node whose turn it is.
LEMMA AddValueSumInv ==
  ASSUME SumInv, NEW n \in Caller, AddValue(n)
  PROVE  SumInv'
<1>1. BarrierInv /\ SumTypeOK /\ (\A m \in Caller : NodeInv(m)) /\ SumExact
  BY SplitSum
<1> DEFINE r == round[n] + 1
           s == added[n][r]
           i == Len(s)
           value == stored[i]
<1>2. /\ spc[n] = "get" /\ i < ServerNR /\ value # NoValue
      /\ added' = [added EXCEPT ![n][r] = Append(@, value)]
      /\ bpc' = bpc /\ created' = created /\ counter' = counter
      /\ spc' = spc /\ round' = round /\ stored' = stored
  BY DEF AddValue, barrierVars
<1>3. BarrierInv'
  BY <1>1, <1>2 DEF BarrierInv, Arrived
<1>4. r \in {1, 2} /\ round[n] = r - 1
  <2>1. round[n] \in 0 .. 2 /\ round[n] # 2
    BY <1>1, <1>2 DEF SumTypeOK, NodeInv
  <2> QED
    BY <2>1
<1>5. /\ s \in Seq(Caller \X {1, 2}) /\ i \in Nat /\ i \in Caller
      /\ value \in {<<i, 1>>, <<i, 2>>} /\ value \in Caller \X {1, 2}
  <2>1. s \in Seq(Caller \X {1, 2})
    BY <1>1, <1>4 DEF SumTypeOK
  <2>2. i \in Nat
    BY <2>1
  <2>3. i \in Caller
    BY <1>2, <2>2, NodeFacts
  <2> QED
    BY <1>1, <1>2, <2>1, <2>2, <2>3 DEF NodeInv
<1>6. r = 1 => value = <<i, 1>>
  BY <1>2, <1>4, <1>5, FirstSumUndisturbed
<1>7. r = 2 /\ i = n => value = <<n, 2>>
  BY <1>1, <1>2, <1>4 DEF NodeInv, SecondStored
<1>8. \A j \in DOMAIN Append(s, value) :
         Append(s, value)[j] = IF j = i + 1 THEN value ELSE s[j]
  BY <1>5, AppendProperties
<1>9. DOMAIN Append(s, value) = 1 .. i + 1 /\ Len(Append(s, value)) = i + 1 /\ DOMAIN s = 1 .. i
  BY <1>5, AppendProperties
<1>10. /\ added' \in [Caller -> [{1, 2} -> Seq(Caller \X {1, 2})]]
       /\ \A m \in Caller, q \in {1, 2} :
            added'[m][q] = IF m = n /\ q = r THEN Append(s, value) ELSE added[m][q]
  <2>1. Append(s, value) \in Seq(Caller \X {1, 2})
    BY <1>5, AppendProperties
  <2>2. added \in [Caller -> [{1, 2} -> Seq(Caller \X {1, 2})]]
    BY <1>1 DEF SumTypeOK
  <2>3. added' = [added EXCEPT ![n][r] = Append(s, value)]
    BY <1>2
  <2> HIDE DEF s, value, r
  <2> QED
    BY <1>4, <2>1, <2>2, <2>3
<1>11. SumTypeOK'
  BY <1>1, <1>2, <1>10 DEF SumTypeOK
<1>12. \A m \in Caller : NodeInv(m)'
  BY <1>1, <1>2 DEF NodeInv, SecondStored, NoValue
<1> HIDE DEF s, value, i, r
<1>13. ASSUME r = 1 PROVE FirstExact(Append(s, value))
  <2>1. FirstExact(s)
    BY <1>1, <1>13, SplitExact DEF s
  <2>2. (i + 1) - 1 = i
    BY <1>5
  <2> QED
    BY <1>5, <1>6, <1>8, <1>9, <1>13, <2>1, <2>2 DEF FirstExact
<1>14. ASSUME r = 2 PROVE SecondExact(n, Append(s, value))
  <2>1. SecondExact(n, s)
    BY <1>1, <1>14, SplitExact DEF s
  <2>2. (i + 1) - 1 = i
    BY <1>5
  <2>3. \A j \in DOMAIN Append(s, value) : Append(s, value)[j] \in {<<j - 1, 1>>, <<j - 1, 2>>}
    BY <1>5, <1>8, <1>9, <2>1, <2>2 DEF SecondExact
  <2>4. ASSUME i + 1 > n PROVE Append(s, value)[n + 1] = <<n, 2>>
    <3>1. n \in Nat /\ n + 1 \in 1 .. i + 1
      BY <1>5, <2>4, NodeFacts
    <3>2. CASE i = n
      <4>1. value = <<n, 2>>
        BY <1>7, <1>14, <3>2
      <4>2. Append(s, value)[n + 1] = value
        BY <1>8, <1>9, <3>1, <3>2
      <4> QED
        BY <4>1, <4>2
    <3>3. CASE i > n
      <4>1. n + 1 # i + 1 /\ s[n + 1] = <<n, 2>>
        BY <1>5, <2>1, <3>1, <3>3 DEF SecondExact, i
      <4> QED
        BY <1>8, <1>9, <3>1, <4>1
    <3>4. i = n \/ i > n
      <4>1. i \in Nat /\ n \in Nat
        BY <1>5, <3>1
      <4> QED
        BY <2>4, <4>1
    <3> QED
      BY <3>2, <3>3, <3>4
  <2> QED
    BY <1>9, <2>3, <2>4 DEF SecondExact
<1>15. SumExact'
  <2>1. ASSUME NEW m \in Caller PROVE FirstExact(added'[m][1]) /\ SecondExact(m, added'[m][2])
    <3>1. FirstExact(added[m][1]) /\ SecondExact(m, added[m][2])
      BY <1>1, SplitExact
    <3>2. added'[m][1] = IF m = n /\ r = 1 THEN Append(s, value) ELSE added[m][1]
      BY <1>10
    <3>3. added'[m][2] = IF m = n /\ r = 2 THEN Append(s, value) ELSE added[m][2]
      BY <1>10
    <3> QED
      BY <1>13, <1>14, <3>1, <3>2, <3>3
  <2> QED
    BY <2>1 DEF SumExact, FirstExact, SecondExact
<1> QED
  BY <1>3, <1>11, <1>12, <1>15 DEF SumInv, NodeInv

\* A sum that has returned leaves its round behind, the first for the barrier.
LEMMA ReturnSumSumInv ==
  ASSUME SumInv, NEW n \in Caller, ReturnSum(n)
  PROVE  SumInv'
<1>1. BarrierInv /\ SumTypeOK /\ (\A m \in Caller : NodeInv(m)) /\ SumExact
  BY SplitSum
<1>2. /\ spc[n] = "get" /\ spc' = [spc EXCEPT ![n] = "out"]
      /\ round' = [round EXCEPT ![n] = @ + 1]
      /\ bpc' = bpc /\ created' = created /\ counter' = counter
      /\ stored' = stored /\ added' = added
  BY DEF ReturnSum, barrierVars
<1>3. BarrierInv' /\ SumExact'
  BY <1>1, <1>2 DEF BarrierInv, Arrived, SumExact
<1>4. round[n] \in {0, 1}
  BY <1>1, <1>2 DEF SumTypeOK, NodeInv
<1>5. SumTypeOK'
  BY <1>1, <1>2, <1>4 DEF SumTypeOK
<1>6. ASSUME NEW m \in Caller PROVE NodeInv(m)'
  <2>1. NodeInv(m)
    BY <1>1
  <2>2. /\ spc'[m] = IF m = n THEN "out" ELSE spc[m]
        /\ round'[m] = IF m = n THEN round[n] + 1 ELSE round[m]
    BY <1>1, <1>2 DEF SumTypeOK
  <2> QED
    BY <1>2, <1>4, <2>1, <2>2 DEF NodeInv, SecondStored
<1> QED
  BY <1>3, <1>5, <1>6 DEF SumInv, NodeInv

\* A node is in the barrier only between its sums.
LEMMA InBarrierSumInv ==
  ASSUME SumInv, NEW n \in Caller, InBarrier(n)
  PROVE  SumInv'
<1>1. BarrierInv /\ SumTypeOK /\ (\A m \in Caller : NodeInv(m)) /\ SumExact
  BY SplitSum
<1>2. spc' = spc /\ round' = round /\ stored' = stored /\ added' = added
  BY DEF InBarrier, sumVars
<1>3. BarrierInv'
  <2>1. [Next]_barrierVars
    BY DEF InBarrier, Next
  <2> QED
    BY <1>1, <2>1, NextBarrierInv
<1>4. SumTypeOK' /\ SumExact'
  BY <1>1, <1>2 DEF SumTypeOK, SumExact
<1>5. PICK to \in {"set", "add", "spin", "left"} :
         /\ bpc' = [bpc EXCEPT ![n] = to] /\ bpc[n] # "left"
         /\ bpc[n] # "out" \/ (round[n] = 1 /\ to # "left")
  BY DEF InBarrier, Call, Inside, SetZero, FetchAndAdd, Leave
<1>6. ASSUME NEW m \in Caller PROVE NodeInv(m)'
  <2>1. NodeInv(m)
    BY <1>1
  <2>2. bpc'[m] = IF m = n THEN to ELSE bpc[m]
    BY <1>1, <1>5 DEF BarrierInv
  <2> QED
    BY <1>2, <1>5, <2>1, <2>2 DEF NodeInv, SecondStored, NoValue
<1> QED
  BY <1>3, <1>4, <1>6 DEF SumInv, NodeInv

LEMMA NextSumInv == SumInv /\ [SumNext]_allVars => SumInv'
<1> SUFFICES ASSUME SumInv, [SumNext]_allVars PROVE SumInv'
  OBVIOUS
<1>1. ASSUME NEW n \in Caller, InSum(n) \/ InBarrier(n) PROVE SumInv'
  BY <1>1, EnterSumInv, StoreValueSumInv, AddValueSumInv, ReturnSumSumInv, InBarrierSumInv
  DEF InSum
<1>2. CASE UNCHANGED allVars
  BY <1>2 DEF allVars, barrierVars, sumVars, SumInv, BarrierInv, Arrived, SumTypeOK,
     SecondStored, SumExact, NoValue
<1> QED
  BY <1>1, <1>2 DEF SumNext

\* A node is in the barrier only between its sums, and the values it has stored
\* and added up tell how far it has come (DSMKeeper::sum and DSMKeeper::barrier).
THEOREM SumInvariance == SumSpec => []SumInv
BY InitSumInv, NextSumInv, PTL DEF SumSpec

\* The first sum is exact on every node, the second counts no old value of its
\* own node, for any number of nodes and however fast each of them is.
THEOREM SumsExact == SumSpec => []SumExact
<1>1. SumInv => SumExact
  BY DEF SumInv
<1> QED
  BY <1>1, SumInvariance, PTL

\* With the nodes summing before and after, nobody leaves the barrier early.
THEOREM SumBarrierSafe == SumSpec => []BarrierHolds
<1>1. SumInv => BarrierHolds
  BY AllArrived, NodeFacts DEF SumInv
<1> QED
  BY <1>1, SumInvariance, PTL

-----------------------------------------------------------------------------
(***************************************************************************)
(* The reader-writer lock excludes, for any finite number of threads that  *)
(* the word can count: LockInv is inductive.                               *)
(***************************************************************************)

\* A set of threads is finite, small enough for the word, and grows or shrinks
\* by one with a member.
LEMMA CountThreads ==
  ASSUME NEW S \in SUBSET Thread
  PROVE  /\ IsFiniteSet(S) /\ Cardinality(S) \in Nat
         /\ 2 * Cardinality(S) < WordSize
         /\ S = {} <=> Cardinality(S) = 0
         /\ \A t \in Thread \ S : Cardinality(S \cup {t}) = Cardinality(S) + 1
         /\ \A t \in S : Cardinality(S \ {t}) = Cardinality(S) - 1
<1>1. IsFiniteSet(Thread)
  BY WordAssumption
<1>2. IsFiniteSet(S) /\ Cardinality(S) <= Cardinality(Thread)
  BY <1>1, FS_Subset
<1>3. Cardinality(S) \in Nat /\ Cardinality(Thread) \in Nat
  BY <1>1, <1>2, FS_CardinalityType
<1>4. 2 * Cardinality(S) < WordSize
  BY <1>2, <1>3, WordAssumption
<1>5. S = {} <=> Cardinality(S) = 0
  BY <1>2, FS_EmptySet
<1>6. \A t \in Thread \ S : Cardinality(S \cup {t}) = Cardinality(S) + 1
  BY <1>2, FS_AddElement
<1>7. \A t \in S : Cardinality(S \ {t}) = Cardinality(S) - 1
  BY <1>2, FS_RemoveElement
<1> QED
  BY <1>2, <1>3, <1>4, <1>5, <1>6, <1>7

\* The initial state: nobody holds the lock and the word is UNLOCKED.
LEMMA InitLockInv == LockInit => LockInv
<1> SUFFICES ASSUME LockInit PROVE LockInv
  OBVIOUS
<1>1. LockTypeOK
  BY WordAssumption DEF LockInit, LockTypeOK, Pc, UNLOCKED
<1>2. Writers = {} /\ Readers = {}
  BY DEF LockInit, Writers, Readers
<1>3. l = 2 * Cardinality(Readers)
  BY <1>2, CountThreads DEF LockInit, UNLOCKED
<1> QED
  BY <1>1, <1>2, <1>3 DEF LockInit, LockInv

\* How a step of a thread changes who holds the lock.
LEMMA GotoHolders ==
  ASSUME LockTypeOK, NEW t \in Thread, NEW from \in Pc, NEW to \in Pc, Goto(t, from, to)
  PROVE  /\ tpc' \in [Thread -> Pc]
         /\ tpc[t] = from /\ tpc'[t] = to
         /\ \A u \in Thread \ {t} : tpc'[u] = tpc[u]
         /\ Writers' = IF to = "wHeld" THEN Writers \cup {t} ELSE Writers \ {t}
         /\ Readers' = IF to \in {"rHeld", "rUnlockCas"} THEN Readers \cup {t}
                                                         ELSE Readers \ {t}
<1>1. tpc' = [tpc EXCEPT ![t] = to] /\ tpc \in [Thread -> Pc] /\ tpc[t] = from
  BY DEF Goto, LockTypeOK
<1>2. tpc'[t] = to /\ \A u \in Thread \ {t} : tpc'[u] = tpc[u]
  BY <1>1
<1>3. Writers' = IF to = "wHeld" THEN Writers \cup {t} ELSE Writers \ {t}
  BY <1>2 DEF Writers
<1>4. Readers' = IF to \in {"rHeld", "rUnlockCas"} THEN Readers \cup {t} ELSE Readers \ {t}
  BY <1>2 DEF Readers
<1> QED
  BY <1>1, <1>2, <1>3, <1>4

\* A step that leaves the word and the holders alone preserves LockInv, provided
\* that a reader about to swap has read a word other than LOCKED.
LEMMA SameHolders ==
  ASSUME LockInv, LockTypeOK', l' = l, Writers' = Writers, Readers' = Readers,
         \A t \in Thread : tpc'[t] = "rCas" => v'[t] # LOCKED
  PROVE  LockInv'
  BY DEF LockInv

\* LockInv is inductive.
LEMMA NextLockInv == LockInv /\ [LockNext]_lockVars => LockInv'
<1> SUFFICES ASSUME LockInv, [LockNext]_lockVars PROVE LockInv'
  OBVIOUS
<1>t. LockTypeOK
  BY DEF LockInv
<1>w. WordSize \in Nat /\ WordSize > 1
  BY WordAssumption
<1>r. Readers \in SUBSET Thread /\ Writers \in SUBSET Thread
  BY DEF Readers, Writers
<1>1. CASE UNCHANGED lockVars
  BY <1>1 DEF LockInv, LockTypeOK, Readers, Writers, lockVars
<1>2. ASSUME NEW t \in Thread, CallLock(t) PROVE LockInv'
  <2>1. PICK to \in {"wLoad", "rLoad"} : Goto(t, "out", to)
    BY <1>2 DEF CallLock
  <2>2. try' \in [Thread -> BOOLEAN] /\ l' = l /\ v' = v
    BY <1>2, <1>t DEF CallLock, LockTypeOK
  <2>3. /\ tpc' \in [Thread -> Pc] /\ tpc[t] = "out" /\ tpc'[t] = to
        /\ \A u \in Thread \ {t} : tpc'[u] = tpc[u]
        /\ Writers' = Writers \ {t} /\ Readers' = Readers \ {t}
    BY <2>1, <1>t, GotoHolders DEF Pc
  <2>4. Writers' = Writers /\ Readers' = Readers
    BY <2>3 DEF Writers, Readers
  <2>5. LockTypeOK'
    BY <2>2, <2>3, <1>t DEF LockTypeOK
  <2> QED
    BY <2>1, <2>2, <2>3, <2>4, <2>5, SameHolders DEF LockInv
<1>3. ASSUME NEW t \in Thread, ReturnFalse(t) PROVE LockInv'
  <2>1. PICK from \in {"wLoad", "wCas", "rLoad"} : Goto(t, from, "out")
    BY <1>3 DEF ReturnFalse
  <2>2. l' = l /\ try' = try /\ v' = v
    BY <1>3 DEF ReturnFalse
  <2>3. /\ tpc' \in [Thread -> Pc] /\ tpc[t] = from /\ tpc'[t] = "out"
        /\ \A u \in Thread \ {t} : tpc'[u] = tpc[u]
        /\ Writers' = Writers \ {t} /\ Readers' = Readers \ {t}
    BY <2>1, <1>t, GotoHolders DEF Pc
  <2>4. Writers' = Writers /\ Readers' = Readers
    BY <2>1, <2>3 DEF Writers, Readers
  <2>5. LockTypeOK'
    BY <2>2, <2>3, <1>t DEF LockTypeOK
  <2> QED
    BY <2>2, <2>3, <2>4, <2>5, SameHolders DEF LockInv
<1>4. ASSUME NEW t \in Thread, WLoad(t) PROVE LockInv'
  <2>1. Goto(t, "wLoad", "wCas") /\ l' = l /\ try' = try /\ v' = v
    BY <1>4 DEF WLoad
  <2>2. /\ tpc' \in [Thread -> Pc] /\ tpc[t] = "wLoad" /\ tpc'[t] = "wCas"
        /\ \A u \in Thread \ {t} : tpc'[u] = tpc[u]
        /\ Writers' = Writers \ {t} /\ Readers' = Readers \ {t}
    BY <2>1, <1>t, GotoHolders DEF Pc
  <2>3. Writers' = Writers /\ Readers' = Readers
    BY <2>2 DEF Writers, Readers
  <2>4. LockTypeOK'
    BY <2>1, <2>2, <1>t DEF LockTypeOK
  <2> QED
    BY <2>1, <2>2, <2>3, <2>4, SameHolders DEF LockInv
<1>5. ASSUME NEW t \in Thread, WCas(t) PROVE LockInv'
  <2>1. try' = try /\ v' = v
    BY <1>5 DEF WCas
  <2>2. CASE l = UNLOCKED
    <3>1. Goto(t, "wCas", "wHeld") /\ l' = LOCKED
      BY <1>5, <2>2 DEF WCas
    <3>2. /\ tpc' \in [Thread -> Pc] /\ tpc[t] = "wCas" /\ tpc'[t] = "wHeld"
          /\ \A u \in Thread \ {t} : tpc'[u] = tpc[u]
          /\ Writers' = Writers \cup {t} /\ Readers' = Readers \ {t}
      BY <3>1, <1>t, GotoHolders DEF Pc
    <3>3. Writers = {} /\ Readers = {}
      BY <2>2, <1>r, CountThreads DEF LockInv, UNLOCKED, LOCKED
    <3>4. Writers' = {t} /\ Readers' = {}
      BY <3>2, <3>3
    <3>5. LockTypeOK'
      BY <2>1, <3>1, <3>2, <1>t, <1>w DEF LockTypeOK, LOCKED
    <3> QED
      BY <2>1, <3>1, <3>2, <3>4, <3>5 DEF LockInv
  <2>3. CASE l # UNLOCKED
    <3>1. Goto(t, "wCas", "wLoad") /\ l' = l
      BY <1>5, <2>3 DEF WCas
    <3>2. /\ tpc' \in [Thread -> Pc] /\ tpc[t] = "wCas" /\ tpc'[t] = "wLoad"
          /\ \A u \in Thread \ {t} : tpc'[u] = tpc[u]
          /\ Writers' = Writers \ {t} /\ Readers' = Readers \ {t}
      BY <3>1, <1>t, GotoHolders DEF Pc
    <3>3. Writers' = Writers /\ Readers' = Readers
      BY <3>2 DEF Writers, Readers
    <3>4. LockTypeOK'
      BY <2>1, <3>1, <3>2, <1>t DEF LockTypeOK
    <3> QED
      BY <2>1, <3>1, <3>2, <3>3, <3>4, SameHolders DEF LockInv
  <2> QED
    BY <2>2, <2>3
<1>6. ASSUME NEW t \in Thread, RLoad(t) PROVE LockInv'
  <2>1. /\ Goto(t, "rLoad", "rCas") /\ l # LOCKED
        /\ l' = l /\ try' = try /\ v' = [v EXCEPT ![t] = l]
    BY <1>6 DEF RLoad
  <2>2. /\ tpc' \in [Thread -> Pc] /\ tpc[t] = "rLoad" /\ tpc'[t] = "rCas"
        /\ \A u \in Thread \ {t} : tpc'[u] = tpc[u]
        /\ Writers' = Writers \ {t} /\ Readers' = Readers \ {t}
    BY <2>1, <1>t, GotoHolders DEF Pc
  <2>3. Writers' = Writers /\ Readers' = Readers
    BY <2>2 DEF Writers, Readers
  <2>4. LockTypeOK'
    BY <2>1, <2>2, <1>t DEF LockTypeOK
  <2>5. \A u \in Thread : tpc'[u] = "rCas" => v'[u] # LOCKED
    BY <2>1, <2>2, <1>t DEF LockInv, LockTypeOK
  <2> QED
    BY <2>1, <2>3, <2>4, <2>5, SameHolders
<1>7. ASSUME NEW t \in Thread, RCas(t) PROVE LockInv'
  <2>1. try' = try /\ v' = v
    BY <1>7 DEF RCas
  <2>2. CASE l = v[t]
    <3>1. Goto(t, "rCas", "rHeld") /\ l' = (l + 2) % WordSize
      BY <1>7, <2>2 DEF RCas
    <3>2. /\ tpc' \in [Thread -> Pc] /\ tpc[t] = "rCas" /\ tpc'[t] = "rHeld"
          /\ \A u \in Thread \ {t} : tpc'[u] = tpc[u]
          /\ Writers' = Writers \ {t} /\ Readers' = Readers \cup {t}
      BY <3>1, <1>t, GotoHolders DEF Pc
    <3>3. Writers = {} /\ l = 2 * Cardinality(Readers)
      BY <2>2, <3>2 DEF LockInv
    <3>4. Readers' \in SUBSET Thread /\ Cardinality(Readers') = Cardinality(Readers) + 1
      <4>1. t \notin Readers
        BY <3>2 DEF Readers
      <4> QED
        BY <4>1, <3>2, <1>r, CountThreads
    <3>5. l' = 2 * Cardinality(Readers') /\ l' \in 0 .. WordSize - 1
      <4>1. Cardinality(Readers) \in Nat /\ 2 * (Cardinality(Readers) + 1) < WordSize
        BY <1>r, <3>4, CountThreads
      <4>2. l + 2 \in 0 .. WordSize - 1
        BY <4>1, <3>3, <1>w
      <4>3. (l + 2) % WordSize = l + 2
        BY <4>2, <1>w
      <4> QED
        BY <4>1, <4>2, <4>3, <3>1, <3>3, <3>4
    <3>6. LockTypeOK'
      BY <2>1, <3>2, <3>5, <1>t DEF LockTypeOK
    <3> QED
      BY <2>1, <3>2, <3>3, <3>5, <3>6 DEF LockInv
  <2>3. CASE l # v[t]
    <3>1. Goto(t, "rCas", "rLoad") /\ l' = l
      BY <1>7, <2>3 DEF RCas
    <3>2. /\ tpc' \in [Thread -> Pc] /\ tpc[t] = "rCas" /\ tpc'[t] = "rLoad"
          /\ \A u \in Thread \ {t} : tpc'[u] = tpc[u]
          /\ Writers' = Writers \ {t} /\ Readers' = Readers \ {t}
      BY <3>1, <1>t, GotoHolders DEF Pc
    <3>3. Writers' = Writers /\ Readers' = Readers
      BY <3>2 DEF Writers, Readers
    <3>4. LockTypeOK'
      BY <2>1, <3>1, <3>2, <1>t DEF LockTypeOK
    <3> QED
      BY <2>1, <3>1, <3>2, <3>3, <3>4, SameHolders DEF LockInv
  <2> QED
    BY <2>2, <2>3
<1>8. ASSUME NEW t \in Thread, RUnlockLoad(t) PROVE LockInv'
  <2>1. Goto(t, "rHeld", "rUnlockCas") /\ l' = l /\ try' = try /\ v' = [v EXCEPT ![t] = l]
    BY <1>8 DEF RUnlockLoad
  <2>2. /\ tpc' \in [Thread -> Pc] /\ tpc[t] = "rHeld" /\ tpc'[t] = "rUnlockCas"
        /\ \A u \in Thread \ {t} : tpc'[u] = tpc[u]
        /\ Writers' = Writers \ {t} /\ Readers' = Readers \cup {t}
    BY <2>1, <1>t, GotoHolders DEF Pc
  <2>3. Writers' = Writers /\ Readers' = Readers
    BY <2>2 DEF Writers, Readers
  <2>4. LockTypeOK'
    BY <2>1, <2>2, <1>t DEF LockTypeOK
  <2>5. \A u \in Thread : tpc'[u] = "rCas" => v'[u] # LOCKED
    BY <2>1, <2>2, <1>t DEF LockInv, LockTypeOK
  <2> QED
    BY <2>1, <2>3, <2>4, <2>5, SameHolders
<1>9. ASSUME NEW t \in Thread, RUnlockCas(t) PROVE LockInv'
  <2>1. try' = try /\ v' = v
    BY <1>9 DEF RUnlockCas
  <2>2. CASE l = v[t]
    <3>1. Goto(t, "rUnlockCas", "out") /\ l' = (l + WordSize - 2) % WordSize
      BY <1>9, <2>2 DEF RUnlockCas
    <3>2. /\ tpc' \in [Thread -> Pc] /\ tpc[t] = "rUnlockCas" /\ tpc'[t] = "out"
          /\ \A u \in Thread \ {t} : tpc'[u] = tpc[u]
          /\ Writers' = Writers \ {t} /\ Readers' = Readers \ {t}
      BY <3>1, <1>t, GotoHolders DEF Pc
    <3>3. t \in Readers
      BY <3>2 DEF Readers
    <3>4. Writers = {} /\ l = 2 * Cardinality(Readers)
      BY <3>3 DEF LockInv
    <3>5. Cardinality(Readers') = Cardinality(Readers) - 1
      BY <3>2, <3>3, <1>r, CountThreads
    <3>6. l' = 2 * Cardinality(Readers') /\ l' \in 0 .. WordSize - 1
      <4>1. Cardinality(Readers) \in Nat \ {0} /\ 2 * Cardinality(Readers) < WordSize
        BY <1>r, <3>3, CountThreads
      <4>2. l - 2 \in 0 .. WordSize - 1
        BY <4>1, <3>4, <1>w
      <4>3. (l + WordSize - 2) % WordSize = l - 2
        <5> DEFINE n == l - 2
        <5>1. (n + WordSize) % WordSize = n
          BY <4>2, <1>w
        <5>2. l + WordSize - 2 = n + WordSize
          BY <4>1, <3>4, <1>w
        <5> QED
          BY <5>1, <5>2
      <4> QED
        BY <4>1, <4>2, <4>3, <3>1, <3>4, <3>5
    <3>7. LockTypeOK'
      BY <2>1, <3>2, <3>6, <1>t DEF LockTypeOK
    <3> QED
      BY <2>1, <3>2, <3>4, <3>6, <3>7 DEF LockInv
  <2>3. CASE l # v[t]
    <3>1. Goto(t, "rUnlockCas", "rHeld") /\ l' = l
      BY <1>9, <2>3 DEF RUnlockCas
    <3>2. /\ tpc' \in [Thread -> Pc] /\ tpc[t] = "rUnlockCas" /\ tpc'[t] = "rHeld"
          /\ \A u \in Thread \ {t} : tpc'[u] = tpc[u]
          /\ Writers' = Writers \ {t} /\ Readers' = Readers \cup {t}
      BY <3>1, <1>t, GotoHolders DEF Pc
    <3>3. Writers' = Writers /\ Readers' = Readers
      BY <3>2 DEF Writers, Readers
    <3>4. LockTypeOK'
      BY <2>1, <3>1, <3>2, <1>t DEF LockTypeOK
    <3> QED
      BY <2>1, <3>1, <3>2, <3>3, <3>4, SameHolders DEF LockInv
  <2> QED
    BY <2>2, <2>3
<1>10. ASSUME NEW t \in Thread, WUnlock(t) PROVE LockInv'
  <2>1. Goto(t, "wHeld", "out") /\ l' = UNLOCKED /\ try' = try /\ v' = v
    BY <1>10 DEF WUnlock
  <2>2. /\ tpc' \in [Thread -> Pc] /\ tpc[t] = "wHeld" /\ tpc'[t] = "out"
        /\ \A u \in Thread \ {t} : tpc'[u] = tpc[u]
        /\ Writers' = Writers \ {t} /\ Readers' = Readers \ {t}
    BY <2>1, <1>t, GotoHolders DEF Pc
  <2>3. t \in Writers
    BY <2>2 DEF Writers
  <2>4. Writers' = {} /\ Readers' = {}
    BY <2>2, <2>3 DEF LockInv
  <2>5. l' = 2 * Cardinality(Readers')
    BY <2>1, <2>4, FS_EmptySet DEF UNLOCKED
  <2>6. LockTypeOK'
    BY <2>1, <2>2, <1>t, <1>w DEF LockTypeOK, UNLOCKED
  <2> QED
    BY <2>1, <2>2, <2>4, <2>5, <2>6 DEF LockInv
<1> QED
  BY <1>1, <1>2, <1>3, <1>4, <1>5, <1>6, <1>7, <1>8, <1>9, <1>10
  DEF LockNext, Acquire, Release

\* The word always tells who holds the lock.
THEOREM WordTellsHolders == LockSpec => []LockInv
<1>1. LockInit => LockInv
  BY InitLockInv
<1>2. LockInv /\ [LockNext]_lockVars => LockInv'
  BY NextLockInv
<1> QED
  BY <1>1, <1>2, PTL DEF LockSpec

\* A writer is alone with the lock.
THEOREM WriterAlone == LockSpec => []MutualExclusion
<1>1. LockInv => MutualExclusion
  BY DEF LockInv, MutualExclusion, Writers
<1> QED
  BY <1>1, WordTellsHolders, PTL

\* When everybody is out of the lock, it is free.
THEOREM LockFreed == LockSpec => []NobodyLeftBehind
<1>1. LockInv => NobodyLeftBehind
  <2> SUFFICES ASSUME LockInv, \A t \in Thread : tpc[t] = "out" PROVE l = UNLOCKED
    BY DEF NobodyLeftBehind
  <2>1. Writers = {} /\ Readers = {}
    BY DEF Writers, Readers
  <2> QED
    BY <2>1, FS_EmptySet DEF LockInv, UNLOCKED
<1> QED
  BY <1>1, WordTellsHolders, PTL
=============================================================================
