----------------------------- MODULE DsmOpsProof -----------------------------
(***************************************************************************)
(* The safety of DSM's one-sided operations for any threads, nodes and     *)
(* buffers, any depth of the send and completion queues, and queue pairs   *)
(* that fail at any time: DsmInv is inductive, CompletionsOwed is part of  *)
(* it, and a step                                                          *)
(* from a state where it holds is one that SyncAtomic allows.  A thread's  *)
(* part of DsmInv depends on the thread's own state alone, so that each    *)
(* lemma looks at the thread that takes the step.                          *)
(***************************************************************************)
EXTENDS DsmOps, SharedLemmas

-----------------------------------------------------------------------------
(***************************************************************************)
(* Why CompletionsOwed and SyncAtomic hold.  Requests are told apart by    *)
(* their ids, so that the requests with a completion to come can be        *)
(* counted.  A _sync call of a drained caller then has the only signaled   *)
(* request of its thread, and the only one that uses its buffer: a         *)
(* completion that reports success can be none but its own.                *)
(***************************************************************************)

WorkRequest == [kind : Kind, buf : Buffer, signaled : BOOLEAN, id : Nat,
                old : Word \cup {None.old}]
Completion  == [ok : BOOLEAN, node : Node, places : Nat]
SyncCall    == [kind : Kind, buf : Buffer, want : Nat, ok : BOOLEAN, clean : BOOLEAN]
PollCall    == [kind : {"poll"}, want : Nat, ok : BOOLEAN]

TypeOK ==
  /\ mem \in [Node -> Word] /\ alive \in [Node -> BOOLEAN]
  /\ osq \in [Thread -> [Node -> Seq(WorkRequest)]]
  /\ silent \in [Thread -> [Node -> Nat]]
  /\ up \in [Thread -> [Node -> BOOLEAN]]
  /\ ocq \in [Thread -> Seq(Completion)]
  /\ lost \in [Thread -> Nat] /\ crowded \in [Thread -> BOOLEAN]
  /\ rbuf \in [Thread -> [Buffer -> Word]]
  /\ call \in [Thread -> {Idle} \cup PollCall \cup SyncCall]
  /\ owed \in [Thread -> Nat] /\ refused \in [Thread -> Nat] /\ posted \in [Thread -> Nat]
  /\ effect \in [Thread -> {None} \cup [old : Word, new : Word]]

\* No id is given to two requests.
IdInv ==
  \A t \in Thread :
    /\ \A wr \in Requests(t) : wr.id < posted[t]
    /\ \A n, m \in Node : \A i \in 1 .. Len(osq[t][n]), j \in 1 .. Len(osq[t][m]) :
         osq[t][n][i].id = osq[t][m][j].id => n = m /\ i = j

\* The signaled requests can be counted, nobody polls for more than is owed, and
\* whoever is owed more than the completion queue holds is noted.
OwedInv ==
  \A t \in Thread :
    /\ IsFiniteSet(Signaled(t))
    /\ owed[t] > CqDepth => crowded[t]
    /\ call[t] # Idle => call[t].want <= owed[t]
    /\ call[t].kind \in Kind => call[t].want <= 1

\* The operation of the _sync call thread t is in has completed, for good.
Done(t) ==
  /\ \A wr \in Requests(t) : wr.id # posted[t] - 1
  /\ effect[t] # None
  /\ call[t].kind = "write" => effect[t].new = WriteVal
  /\ Fetches(call[t].kind) => rbuf[t][call[t].buf] = effect[t].old

\* What holds of the request of a _sync call until then.
Pending(t, wr) ==
  /\ wr.kind = call[t].kind /\ wr.buf = call[t].buf
  /\ wr.old = None.old => (call[t].kind = "write" => rbuf[t][call[t].buf] = WriteVal)
  /\ wr.old # None.old => /\ effect[t] # None /\ effect[t].old = wr.old
                          /\ call[t].kind = "write" => effect[t].new = WriteVal

SyncInv ==
  \A t \in Thread :
    (call[t].kind \in Kind /\ call[t].clean) =>
      /\ \A wr \in Requests(t) :
           IF wr.id = posted[t] - 1 THEN Pending(t, wr)
                                    ELSE ~wr.signaled /\ wr.buf # call[t].buf
      /\ IF call[t].want = 1 THEN (\E c \in ToSet(ocq[t]) : c.ok) => Done(t)
                             ELSE call[t].ok => Done(t)

\* The inductive invariant.
DsmInv == TypeOK /\ IdInv /\ OwedInv /\ CompletionsOwed /\ SyncInv

-----------------------------------------------------------------------------
(***************************************************************************)
(* The send queues of a thread, and the requests in them.                  *)
(***************************************************************************)

Queues == [Node -> Seq(WorkRequest)]

Held(q) == UNION {ToSet(q[n]) : n \in Node}

Distinct(q) ==
  \A n, m \in Node : \A i \in 1 .. Len(q[n]), j \in 1 .. Len(q[m]) :
    q[n][i].id = q[m][j].id => n = m /\ i = j

LEMMA InHeld ==
  ASSUME NEW q \in Queues
  PROVE  \A wr : wr \in Held(q) <=> \E n \in Node : \E i \in 1 .. Len(q[n]) : wr = q[n][i]
<1>1. \A n \in Node : ToSet(q[n]) = {q[n][i] : i \in 1 .. Len(q[n])}
  BY DEF Queues, ToSet
<1>2. \A wr : wr \in Held(q) <=> \E n \in Node : wr \in ToSet(q[n])
  BY DEF Held
<1>3. \A wr : \A n \in Node : wr \in ToSet(q[n]) <=> \E i \in 1 .. Len(q[n]) : wr = q[n][i]
  BY <1>1
<1> QED
  BY <1>2, <1>3

LEMMA HeldType ==
  ASSUME NEW q \in Queues
  PROVE  /\ Held(q) \subseteq WorkRequest
         /\ \A n \in Node : q[n] \in Seq(WorkRequest) /\ Len(q[n]) \in Nat
         /\ \A n \in Node : \A i \in 1 .. Len(q[n]) : q[n][i] \in Held(q)
<1>1. \A n \in Node : q[n] \in Seq(WorkRequest)
  BY DEF Queues
<1>2. \A n \in Node : Len(q[n]) \in Nat /\ \A i \in 1 .. Len(q[n]) : q[n][i] \in WorkRequest
  BY <1>1
<1> QED
  BY <1>1, <1>2, InHeld

\* A request with a new id goes to the end of a queue.
LEMMA HeldAppend ==
  ASSUME NEW q \in Queues, NEW n \in Node, NEW wr \in WorkRequest, Distinct(q),
         \A r \in Held(q) : r.id # wr.id
  PROVE  LET p == [q EXCEPT ![n] = Append(@, wr)]
         IN p \in Queues /\ Distinct(p) /\ Held(p) = Held(q) \cup {wr}
<1> DEFINE p == [q EXCEPT ![n] = Append(@, wr)]
<1>1. q[n] \in Seq(WorkRequest) /\ Len(q[n]) \in Nat
  BY HeldType
<1>2. /\ Append(q[n], wr) \in Seq(WorkRequest) /\ Len(Append(q[n], wr)) = Len(q[n]) + 1
      /\ \A i \in 1 .. Len(q[n]) : Append(q[n], wr)[i] = q[n][i]
      /\ Append(q[n], wr)[Len(q[n]) + 1] = wr
  BY <1>1, AppendProperties
<1>3. p \in Queues /\ p[n] = Append(q[n], wr) /\ \A m \in Node \ {n} : p[m] = q[m]
  BY <1>2 DEF Queues
<1> HIDE DEF p
<1>4. \A m \in Node : \A i \in 1 .. Len(p[m]) :
        \/ i \in 1 .. Len(q[m]) /\ p[m][i] = q[m][i]
        \/ m = n /\ i = Len(q[n]) + 1 /\ p[m][i] = wr
  BY <1>1, <1>2, <1>3
<1>5. Distinct(p)
  <2> SUFFICES ASSUME NEW m \in Node, NEW o \in Node,
                      NEW i \in 1 .. Len(p[m]), NEW j \in 1 .. Len(p[o]),
                      p[m][i].id = p[o][j].id
               PROVE  m = o /\ i = j
    BY DEF Distinct
  <2>1. CASE i \in 1 .. Len(q[m]) /\ p[m][i] = q[m][i]
    <3>1. q[m][i] \in Held(q)
      BY <2>1, HeldType
    <3>2. j \in 1 .. Len(q[o]) /\ p[o][j] = q[o][j]
      BY <1>4, <2>1, <3>1
    <3> QED
      BY <2>1, <3>2 DEF Distinct
  <2>2. CASE m = n /\ i = Len(q[n]) + 1 /\ p[m][i] = wr
    <3>1. ~(j \in 1 .. Len(q[o]) /\ p[o][j] = q[o][j])
      BY <2>2, HeldType
    <3> QED
      BY <1>4, <2>2, <3>1
  <2> QED
    BY <1>4, <2>1, <2>2
<1>6. Held(p) = Held(q) \cup {wr}
  <2>1. \A r \in Held(p) : r \in Held(q) \cup {wr}
    BY <1>3, <1>4, InHeld
  <2>2. \A m \in Node : \A i \in 1 .. Len(q[m]) : i \in 1 .. Len(p[m]) /\ q[m][i] = p[m][i]
    BY <1>1, <1>2, <1>3
  <2>3. \A r \in Held(q) : r \in Held(p)
    BY <1>3, <2>2, InHeld
  <2>4. Len(q[n]) + 1 \in 1 .. Len(p[n]) /\ p[n][Len(q[n]) + 1] = wr
    BY <1>1, <1>2, <1>3
  <2>5. wr \in Held(p)
    BY <1>3, <2>4, InHeld
  <2> QED
    BY <2>1, <2>3, <2>5
<1> QED
  BY <1>3, <1>5, <1>6 DEF p

\* The first request of a queue leaves it.
LEMMA HeldTail ==
  ASSUME NEW q \in Queues, NEW n \in Node, q[n] # << >>, Distinct(q)
  PROVE  LET p == [q EXCEPT ![n] = Tail(@)]
         IN /\ p \in Queues /\ Distinct(p) /\ Held(p) = Held(q) \ {Head(q[n])}
            /\ Head(q[n]) \in Held(q) /\ \A r \in Held(p) : r.id # Head(q[n]).id
<1> DEFINE p == [q EXCEPT ![n] = Tail(@)]
<1>1. q[n] \in Seq(WorkRequest) /\ Len(q[n]) \in Nat \ {0}
  BY HeldType
<1>2. /\ Tail(q[n]) \in Seq(WorkRequest) /\ Len(Tail(q[n])) = Len(q[n]) - 1
      /\ \A i \in 1 .. Len(Tail(q[n])) : Tail(q[n])[i] = q[n][i + 1]
      /\ Head(q[n]) = q[n][1]
  BY <1>1, HeadTailProperties
<1>3. p \in Queues /\ p[n] = Tail(q[n]) /\ \A m \in Node \ {n} : p[m] = q[m]
  BY <1>2 DEF Queues
<1> HIDE DEF p
\* Where the requests are that stay.
<1> DEFINE k(m) == IF m = n THEN 1 ELSE 0
<1>4. \A m \in Node : \A i \in 1 .. Len(p[m]) :
        i + k(m) \in 1 .. Len(q[m]) /\ p[m][i] = q[m][i + k(m)]
  <2> SUFFICES ASSUME NEW m \in Node, NEW i \in 1 .. Len(p[m])
               PROVE  i + k(m) \in 1 .. Len(q[m]) /\ p[m][i] = q[m][i + k(m)]
    OBVIOUS
  <2>1. CASE m = n
    <3>1. i \in 1 .. Len(q[n]) - 1 /\ p[n][i] = q[n][i + 1]
      BY <1>2, <1>3, <2>1
    <3> QED
      BY <1>1, <2>1, <3>1
  <2>2. CASE m # n
    <3>1. p[m] = q[m] /\ i + k(m) = i
      BY <1>3, <2>2
    <3> QED
      BY <3>1
  <2> QED
    BY <2>1, <2>2
<1>5. \A m \in Node : k(m) \in Nat
  OBVIOUS
<1>6. Distinct(p)
  <2> SUFFICES ASSUME NEW m \in Node, NEW o \in Node,
                      NEW i \in 1 .. Len(p[m]), NEW j \in 1 .. Len(p[o]),
                      p[m][i].id = p[o][j].id
               PROVE  m = o /\ i = j
    BY DEF Distinct
  <2>1. /\ i + k(m) \in 1 .. Len(q[m]) /\ j + k(o) \in 1 .. Len(q[o])
        /\ q[m][i + k(m)].id = q[o][j + k(o)].id
    BY <1>4
  <2>2. m = o /\ i + k(m) = j + k(o)
    BY <2>1 DEF Distinct
  <2> QED
    BY <1>5, <2>2
<1>7. 1 \in 1 .. Len(q[n]) /\ Head(q[n]) \in Held(q)
  BY <1>1, <1>2, HeldType
<1>8. \A r \in Held(p) : r \in Held(q) /\ r.id # Head(q[n]).id
  <2> SUFFICES ASSUME NEW r \in Held(p) PROVE r \in Held(q) /\ r.id # Head(q[n]).id
    OBVIOUS
  <2>0. PICK m \in Node : \E i \in 1 .. Len(p[m]) : r = p[m][i]
    BY <1>3, InHeld
  <2>1. PICK i \in 1 .. Len(p[m]) : r = p[m][i]
    BY <2>0
  <2>2. i + k(m) \in 1 .. Len(q[m]) /\ r = q[m][i + k(m)]
    BY <1>4, <2>1
  <2>3. r \in Held(q)
    BY <2>2, HeldType
  <2>4. m = n => i + k(m) # 1
    OBVIOUS
  <2>5. r.id = q[n][1].id => m = n /\ i + k(m) = 1
    BY <1>7, <2>2 DEF Distinct
  <2> QED
    BY <1>2, <2>3, <2>4, <2>5
<1>9. \A r \in Held(q) \ {Head(q[n])} : r \in Held(p)
  <2> SUFFICES ASSUME NEW r \in Held(q), r # Head(q[n]) PROVE r \in Held(p)
    OBVIOUS
  <2>0. PICK m \in Node : \E i \in 1 .. Len(q[m]) : r = q[m][i]
    BY InHeld
  <2>1. PICK i \in 1 .. Len(q[m]) : r = q[m][i]
    BY <2>0
  <2>2. i - k(m) \in 1 .. Len(p[m]) /\ (i - k(m)) + k(m) = i
    <3>1. CASE m = n
      <4>1. i # 1
        BY <1>2, <2>1, <3>1
      <4>2. Len(p[m]) = Len(q[m]) - 1 /\ Len(q[m]) \in Nat /\ k(m) = 1
        BY <1>1, <1>2, <1>3, <3>1
      <4> QED
        BY <2>1, <3>1, <4>1, <4>2
    <3>2. CASE m # n
      <4>1. p[m] = q[m] /\ k(m) = 0
        BY <1>3, <3>2
      <4> QED
        BY <2>1, <4>1
    <3> QED
      BY <3>1, <3>2
  <2>3. r = p[m][i - k(m)]
    BY <1>4, <2>1, <2>2
  <2> QED
    BY <1>3, <2>2, <2>3, InHeld
<1>10. Held(p) = Held(q) \ {Head(q[n])}
  BY <1>8, <1>9
<1> QED
  BY <1>3, <1>6, <1>7, <1>8, <1>10 DEF p

\* A request of a queue has taken effect.
Answered(w, v)      == [w EXCEPT !.old = v]
Effected(q, n, i, v) == [q EXCEPT ![n][i].old = v]

LEMMA HeldEffect ==
  ASSUME NEW q \in Queues, NEW n \in Node, NEW i \in 1 .. Len(q[n]), NEW v \in Word, Distinct(q)
  PROVE  LET p  == Effected(q, n, i, v)
             w  == q[n][i]
             w2 == Answered(w, v)
         IN /\ p \in Queues /\ Distinct(p) /\ Held(p) = (Held(q) \ {w}) \cup {w2}
            /\ w \in Held(q) /\ \A r \in Held(q) \ {w} : r.id # w.id
            /\ w2 \in WorkRequest /\ w2.old = v /\ w2.kind = w.kind /\ w2.buf = w.buf
            /\ w2.signaled = w.signaled /\ w2.id = w.id
<1> DEFINE p  == [q EXCEPT ![n][i].old = v]
           w  == q[n][i]
           w2 == [w EXCEPT !.old = v]
<1>1. q[n] \in Seq(WorkRequest) /\ Len(q[n]) \in Nat /\ w \in Held(q) /\ w \in WorkRequest
  BY HeldType
<1>2. /\ w2 \in WorkRequest /\ w2.old = v /\ w2.kind = w.kind /\ w2.buf = w.buf
      /\ w2.signaled = w.signaled /\ w2.id = w.id
  <2> HIDE DEF w
  <2> QED
    BY <1>1 DEF WorkRequest
<1>3. p = [q EXCEPT ![n] = [q[n] EXCEPT ![i] = w2]]
  OBVIOUS
<1> HIDE DEF w, w2
<1>4. /\ [q[n] EXCEPT ![i] = w2] \in Seq(WorkRequest)
      /\ Len([q[n] EXCEPT ![i] = w2]) = Len(q[n])
      /\ [q[n] EXCEPT ![i] = w2][i] = w2
      /\ \A j \in 1 .. Len(q[n]) : j # i => [q[n] EXCEPT ![i] = w2][j] = q[n][j]
  BY <1>1, <1>2, ExceptSeq
<1>5. /\ p \in Queues /\ p[n] = [q[n] EXCEPT ![i] = w2]
      /\ \A m \in Node \ {n} : p[m] = q[m]
  BY <1>3, <1>4 DEF Queues
<1> HIDE DEF p
<1>6. \A m \in Node : Len(p[m]) = Len(q[m])
  BY <1>4, <1>5
<1>7. \A m \in Node : \A j \in 1 .. Len(q[m]) :
        IF m = n /\ j = i THEN p[m][j] = w2 ELSE p[m][j] = q[m][j]
  BY <1>4, <1>5
<1>8. \A m \in Node : \A j \in 1 .. Len(q[m]) : p[m][j].id = q[m][j].id
  BY <1>2, <1>7 DEF w
<1>9. Distinct(p)
  BY <1>6, <1>8 DEF Distinct
<1>10. \A r \in Held(q) \ {w} : r.id # w.id
  BY InHeld DEF Distinct, w
<1>11. \A r \in Held(p) : r \in (Held(q) \ {w}) \cup {w2}
  <2> SUFFICES ASSUME NEW r \in Held(p), r # w2 PROVE r \in Held(q) /\ r # w
    OBVIOUS
  <2>0. PICK m \in Node : \E j \in 1 .. Len(q[m]) : r = p[m][j]
    BY <1>5, <1>6, InHeld
  <2>1. PICK j \in 1 .. Len(q[m]) : r = p[m][j]
    BY <2>0
  <2>2. r = q[m][j] /\ ~(m = n /\ j = i)
    BY <1>7, <2>1
  <2> QED
    BY <2>2, HeldType DEF Distinct, w
<1>12. w2 \in Held(p)
  BY <1>5, <1>6, <1>7, InHeld
<1>13. \A r \in Held(q) \ {w} : r \in Held(p)
  <2> SUFFICES ASSUME NEW r \in Held(q), r # w PROVE r \in Held(p)
    OBVIOUS
  <2>0. PICK m \in Node : \E j \in 1 .. Len(q[m]) : r = q[m][j]
    BY InHeld
  <2>1. PICK j \in 1 .. Len(q[m]) : r = q[m][j]
    BY <2>0
  <2>2. ~(m = n /\ j = i)
    BY <2>1 DEF w
  <2> QED
    BY <1>5, <1>6, <1>7, <2>1, <2>2, InHeld
<1>14. Held(p) = (Held(q) \ {w}) \cup {w2}
  BY <1>11, <1>12, <1>13
<1> QED
  BY <1>1, <1>2, <1>5, <1>9, <1>10, <1>14 DEF p, w, w2, Effected, Answered

-----------------------------------------------------------------------------
(***************************************************************************)
(* The requests that ask for a completion.                                 *)
(***************************************************************************)

Asking(R) == {r \in R : r.signaled}

LEMMA CountAdd ==
  ASSUME NEW R, IsFiniteSet(Asking(R)), NEW w, w \notin R, w.signaled \in BOOLEAN
  PROVE  /\ IsFiniteSet(Asking(R \cup {w}))
         /\ Cardinality(Asking(R \cup {w})) =
              Cardinality(Asking(R)) + (IF w.signaled THEN 1 ELSE 0)
<1>1. Cardinality(Asking(R)) \in Nat
  BY FS_CardinalityType
<1>2. CASE w.signaled
  <2>1. Asking(R \cup {w}) = Asking(R) \cup {w} /\ w \notin Asking(R)
    BY <1>2 DEF Asking
  <2>2. /\ IsFiniteSet(Asking(R) \cup {w})
        /\ Cardinality(Asking(R) \cup {w}) = Cardinality(Asking(R)) + 1
    BY <2>1, FS_AddElement
  <2> QED
    BY <1>2, <2>1, <2>2
<1>3. CASE ~w.signaled
  <2>1. Asking(R \cup {w}) = Asking(R)
    BY <1>3 DEF Asking
  <2> QED
    BY <1>1, <1>3, <2>1
<1> QED
  BY <1>2, <1>3

LEMMA CountRemove ==
  ASSUME NEW R, IsFiniteSet(Asking(R)), NEW w \in R, w.signaled \in BOOLEAN
  PROVE  /\ IsFiniteSet(Asking(R \ {w}))
         /\ Cardinality(Asking(R)) =
              Cardinality(Asking(R \ {w})) + (IF w.signaled THEN 1 ELSE 0)
<1>1. Asking(R \ {w}) \subseteq Asking(R)
  BY DEF Asking
<1>2. IsFiniteSet(Asking(R \ {w}))
  BY <1>1, FS_Subset
<1>3. w \notin R \ {w} /\ (R \ {w}) \cup {w} = R
  OBVIOUS
<1> QED
  BY <1>2, <1>3, CountAdd

LEMMA CountSwap ==
  ASSUME NEW R, IsFiniteSet(Asking(R)), NEW w \in R, w.signaled \in BOOLEAN,
         NEW w2, w2 \notin R \ {w}, w2.signaled = w.signaled
  PROVE  /\ IsFiniteSet(Asking((R \ {w}) \cup {w2}))
         /\ Cardinality(Asking((R \ {w}) \cup {w2})) = Cardinality(Asking(R))
<1>1. /\ IsFiniteSet(Asking(R \ {w}))
      /\ Cardinality(Asking(R)) =
           Cardinality(Asking(R \ {w})) + (IF w.signaled THEN 1 ELSE 0)
  BY CountRemove
<1>2. /\ IsFiniteSet(Asking((R \ {w}) \cup {w2}))
      /\ Cardinality(Asking((R \ {w}) \cup {w2})) =
           Cardinality(Asking(R \ {w})) + (IF w2.signaled THEN 1 ELSE 0)
  <2> DEFINE Q == R \ {w}
  <2>1. IsFiniteSet(Asking(Q)) /\ w2 \notin Q /\ w2.signaled \in BOOLEAN
    BY <1>1
  <2> HIDE DEF Q
  <2>2. /\ IsFiniteSet(Asking(Q \cup {w2}))
        /\ Cardinality(Asking(Q \cup {w2})) =
             Cardinality(Asking(Q)) + (IF w2.signaled THEN 1 ELSE 0)
    BY <2>1, CountAdd
  <2> QED
    BY <2>2 DEF Q
<1> QED
  BY <1>1, <1>2

-----------------------------------------------------------------------------
(***************************************************************************)
(* DsmInv, thread by thread.                                               *)
(***************************************************************************)

ThreadType(t) ==
  /\ osq[t] \in Queues /\ silent[t] \in [Node -> Nat] /\ up[t] \in [Node -> BOOLEAN]
  /\ ocq[t] \in Seq(Completion) /\ rbuf[t] \in [Buffer -> Word]
  /\ lost[t] \in Nat /\ crowded[t] \in BOOLEAN
  /\ call[t] \in {Idle} \cup PollCall \cup SyncCall
  /\ owed[t] \in Nat /\ refused[t] \in Nat /\ posted[t] \in Nat
  /\ effect[t] \in {None} \cup [old : Word, new : Word]

IdOf(t) == (\A wr \in Requests(t) : wr.id < posted[t]) /\ Distinct(osq[t])

WantOf(t) == /\ call[t] # Idle => call[t].want <= owed[t]
             /\ call[t].kind \in Kind => call[t].want <= 1

Coming(t) == Len(ocq[t]) + Cardinality(Signaled(t)) + refused[t] + lost[t]

CrowdOf(t) == owed[t] > CqDepth => crowded[t]

OwedOf(t) == /\ IsFiniteSet(Signaled(t)) /\ Len(ocq[t]) <= CqDepth
             /\ IF \A n \in Node : up[t][n]
                THEN owed[t] = Coming(t) /\ (lost[t] > 0 => crowded[t])
                ELSE owed[t] <= Coming(t)

RequestsOf(t) ==
  \A wr \in Requests(t) :
    IF wr.id = posted[t] - 1 THEN Pending(t, wr)
                             ELSE ~wr.signaled /\ wr.buf # call[t].buf

DoneOf(t) == IF call[t].want = 1 THEN (\E c \in ToSet(ocq[t]) : c.ok) => Done(t)
                                 ELSE call[t].ok => Done(t)

SyncOf(t) == (call[t].kind \in Kind /\ call[t].clean) => RequestsOf(t) /\ DoneOf(t)

ThreadInv(t) == IdOf(t) /\ WantOf(t) /\ CrowdOf(t) /\ OwedOf(t) /\ SyncOf(t)

LEMMA Split == DsmInv <=> TypeOK /\ \A t \in Thread : ThreadInv(t)
<1>1. IdInv <=> \A t \in Thread : IdOf(t)
  BY DEF IdInv, IdOf, Distinct
<1>2. OwedInv /\ CompletionsOwed <=> \A t \in Thread : WantOf(t) /\ CrowdOf(t) /\ OwedOf(t)
  BY DEF OwedInv, CompletionsOwed, WantOf, CrowdOf, OwedOf, Coming
<1>3. SyncInv <=> \A t \in Thread : SyncOf(t)
  BY DEF SyncInv, SyncOf, RequestsOf, DoneOf
<1> QED
  BY <1>1, <1>2, <1>3 DEF DsmInv, ThreadInv

LEMMA Facts ==
  ASSUME DsmInv, NEW t \in Thread
  PROVE  /\ TypeOK /\ ThreadType(t) /\ ThreadInv(t)
         /\ Requests(t) = Held(osq[t]) /\ Signaled(t) = Asking(Requests(t))
         /\ Requests(t) \subseteq WorkRequest
         /\ Cardinality(Signaled(t)) \in Nat /\ Len(ocq[t]) \in Nat
<1>1. TypeOK /\ ThreadInv(t)
  BY Split
<1>2. ThreadType(t)
  BY <1>1 DEF TypeOK, ThreadType, Queues
<1>3. Requests(t) = Held(osq[t]) /\ Signaled(t) = Asking(Requests(t))
  BY DEF Requests, Held, Signaled, Asking
<1>4. Requests(t) \subseteq WorkRequest
  BY <1>2, <1>3, HeldType DEF ThreadType
<1>5. Cardinality(Signaled(t)) \in Nat /\ Len(ocq[t]) \in Nat
  BY <1>1, <1>2, FS_CardinalityType DEF ThreadInv, OwedOf, ThreadType
<1> QED
  BY <1>1, <1>2, <1>3, <1>4, <1>5

\* w is v but for the thread t.
But(v, w, t) == w = [v EXCEPT ![t] = w[t]]

\* A step of thread t or its queue pairs leaves the other threads alone.
Only(t) ==
  /\ But(osq, osq', t) /\ But(silent, silent', t) /\ But(up, up', t) /\ But(ocq, ocq', t)
  /\ But(lost, lost', t) /\ But(crowded, crowded', t)
  /\ But(rbuf, rbuf', t) /\ But(call, call', t) /\ But(owed, owed', t)
  /\ But(refused, refused', t) /\ But(posted, posted', t) /\ But(effect, effect', t)

\* What the threads share keeps its type.
Shared == mem \in [Node -> Word] /\ alive \in [Node -> BOOLEAN]

LEMMA OneThread ==
  ASSUME DsmInv, NEW t \in Thread, Only(t), Shared',
         ThreadType(t)', ThreadInv(t)'
  PROVE  DsmInv'
<1>1. TypeOK
  BY Split
<1>2. TypeOK'
  <2>1. /\ osq' \in [Thread -> [Node -> Seq(WorkRequest)]]
        /\ silent' \in [Thread -> [Node -> Nat]] /\ up' \in [Thread -> [Node -> BOOLEAN]]
    BY <1>1 DEF TypeOK, ThreadType, Only, But, Queues
  <2>2. /\ ocq' \in [Thread -> Seq(Completion)] /\ rbuf' \in [Thread -> [Buffer -> Word]]
        /\ call' \in [Thread -> {Idle} \cup PollCall \cup SyncCall]
    BY <1>1 DEF TypeOK, ThreadType, Only, But
  <2>3. /\ owed' \in [Thread -> Nat] /\ refused' \in [Thread -> Nat]
        /\ posted' \in [Thread -> Nat]
        /\ effect' \in [Thread -> {None} \cup [old : Word, new : Word]]
    BY <1>1 DEF TypeOK, ThreadType, Only, But
  <2>4. lost' \in [Thread -> Nat] /\ crowded' \in [Thread -> BOOLEAN]
    BY <1>1 DEF TypeOK, ThreadType, Only, But
  <2> QED
    BY <2>1, <2>2, <2>3, <2>4 DEF TypeOK, Shared
<1>3. ASSUME NEW s \in Thread, s # t PROVE ThreadInv(s)'
  <2>1. ThreadInv(s)
    BY Split
  <2>2. /\ osq'[s] = osq[s] /\ up'[s] = up[s] /\ ocq'[s] = ocq[s] /\ rbuf'[s] = rbuf[s]
        /\ call'[s] = call[s] /\ owed'[s] = owed[s] /\ refused'[s] = refused[s]
        /\ posted'[s] = posted[s] /\ effect'[s] = effect[s]
        /\ lost'[s] = lost[s] /\ crowded'[s] = crowded[s]
    BY <1>1, <1>3 DEF TypeOK, Only, But
  <2>3. Requests(s)' = Requests(s)
    BY <2>2 DEF Requests
  <2>4. Signaled(s)' = Signaled(s)
    BY <2>3 DEF Signaled
  <2>5. IdOf(s)' /\ WantOf(s)' /\ CrowdOf(s)' /\ OwedOf(s)'
    BY <2>1, <2>2, <2>3, <2>4 DEF ThreadInv, IdOf, WantOf, CrowdOf, OwedOf, Coming, Distinct
  <2>6. \A wr : Pending(s, wr)' <=> Pending(s, wr)
    BY <2>2 DEF Pending
  <2>7. Done(s)' <=> Done(s)
    BY <2>2, <2>3 DEF Done
  <2>8. SyncOf(s)'
    BY <2>1, <2>2, <2>3, <2>6, <2>7 DEF ThreadInv, SyncOf, RequestsOf, DoneOf
  <2> QED
    BY <2>5, <2>8 DEF ThreadInv
<1>4. \A s \in Thread : ThreadInv(s)'
  BY <1>3
<1>5. IdInv'
  BY <1>4 DEF ThreadInv, IdInv, IdOf, Distinct
<1>6. OwedInv' /\ CompletionsOwed'
  BY <1>4 DEF ThreadInv, OwedInv, CompletionsOwed, WantOf, CrowdOf, OwedOf, Coming
<1>7. SyncInv'
  BY <1>4 DEF ThreadInv, SyncInv, SyncOf, RequestsOf, DoneOf
<1> QED
  BY <1>2, <1>5, <1>6, <1>7 DEF DsmInv

-----------------------------------------------------------------------------
(***************************************************************************)
(* The steps of the threads.                                               *)
(***************************************************************************)

LEMMA InitDsmInv == Init => DsmInv
<1> SUFFICES ASSUME Init PROVE DsmInv
  OBVIOUS
<1>1. 0 \in Word
  BY WordAssumption DEF Word
<1>2. TypeOK
  BY <1>1 DEF Init, TypeOK
<1>3. ASSUME NEW t \in Thread PROVE ThreadInv(t)
  <2>1. Requests(t) = {}
    BY DEF Init, Requests, ToSet
  <2>2. Signaled(t) = {}
    BY <2>1 DEF Signaled
  <2>3. call[t] = Idle /\ Idle.kind \notin Kind
    BY DEF Init, Idle, Kind
  <2>4. IdOf(t)
    BY <2>1 DEF Init, IdOf, Distinct
  <2>5. OwedOf(t) /\ CrowdOf(t)
    <3>1. IsFiniteSet(Signaled(t)) /\ Cardinality(Signaled(t)) = 0
      BY <2>2, FS_EmptySet
    <3> QED
      BY <3>1, CallsAssumption DEF Init, OwedOf, CrowdOf, Coming
  <2> QED
    BY <2>3, <2>4, <2>5 DEF ThreadInv, WantOf, SyncOf
<1> QED
  BY <1>2, <1>3, Split

\* What a post does to the thread's own state, whether the queue takes the
\* request or refuses it.
LEMMA PostFacts ==
  ASSUME DsmInv, NEW t \in Thread, NEW op \in Op, NEW signal \in BOOLEAN, Post(t, op, signal)
  PROVE  /\ But(osq, osq', t) /\ But(rbuf, rbuf', t) /\ But(owed, owed', t)
         /\ But(refused, refused', t) /\ But(posted, posted', t)
         /\ But(crowded, crowded', t) /\ crowded'[t] \in BOOLEAN
         /\ CrowdOf(t)' /\ (crowded[t] => crowded'[t])
         /\ alive' \in [Node -> BOOLEAN]
         /\ osq'[t] \in Queues /\ rbuf'[t] \in [Buffer -> Word] /\ refused'[t] \in Nat
         /\ posted'[t] = posted[t] + 1
         /\ owed'[t] = owed[t] + (IF signal THEN 1 ELSE 0)
         /\ IdOf(t)'
         /\ IsFiniteSet(Signaled(t)') /\ Cardinality(Signaled(t)') \in Nat
         /\ Cardinality(Signaled(t)') + refused'[t] =
              Cardinality(Signaled(t)) + refused[t] + (IF signal THEN 1 ELSE 0)
         /\ Requests(t)' \subseteq Requests(t) \cup {Request(t, op, signal)}
         /\ op.kind = "write" => rbuf'[t][op.buf] = WriteVal
<1> DEFINE wr == Request(t, op, signal)
           n  == op.node
<1>1. /\ TypeOK /\ ThreadType(t) /\ IdOf(t) /\ CrowdOf(t) /\ OwedOf(t)
      /\ Requests(t) = Held(osq[t]) /\ Signaled(t) = Asking(Requests(t))
      /\ Cardinality(Signaled(t)) \in Nat
  BY Facts DEF ThreadInv
<1>2. n \in Node /\ op.kind \in Kind /\ op.buf \in Buffer
  BY DEF Op
<1>3. /\ wr \in WorkRequest /\ wr.id = posted[t] /\ wr.signaled = signal
  BY <1>1, <1>2 DEF Request, WorkRequest, None, ThreadType
<1>4. /\ posted' = [posted EXCEPT ![t] = @ + 1] /\ Enqueue(t, op, wr)
      /\ rbuf' = IF op.kind = "write" THEN [rbuf EXCEPT ![t][op.buf] = WriteVal] ELSE rbuf
      /\ owed' = [owed EXCEPT ![t] = @ + (IF signal THEN 1 ELSE 0)]
      /\ crowded' = [crowded EXCEPT ![t] = @ \/ owed[t] + (IF signal THEN 1 ELSE 0) > CqDepth]
  BY DEF Post, Owe
<1>9. /\ But(crowded, crowded', t) /\ crowded'[t] \in BOOLEAN
      /\ CrowdOf(t)' /\ (crowded[t] => crowded'[t])
  <2> DEFINE more == owed[t] + (IF signal THEN 1 ELSE 0)
  <2>1. /\ crowded'[t] = (crowded[t] \/ more > CqDepth) /\ crowded[t] \in BOOLEAN
        /\ But(crowded, crowded', t) /\ owed'[t] = more
    BY <1>1, <1>4 DEF TypeOK, But
  <2> HIDE DEF more
  <2> QED
    BY <2>1 DEF CrowdOf
<1>10. alive' \in [Node -> BOOLEAN]
  <2>1. \/ alive' = alive \/ alive' = [alive EXCEPT ![Home[t]] = FALSE]
    BY <1>4 DEF Enqueue
  <2> QED
    BY <1>1, <2>1 DEF TypeOK
<1>11. IF Used(t, n) < SqDepth
       THEN osq' = [osq EXCEPT ![t][n] = Append(@, wr)] /\ refused' = refused
       ELSE /\ osq' = osq
            /\ refused' = [refused EXCEPT ![t] = @ + (IF wr.signaled THEN 1 ELSE 0)]
  BY <1>4 DEF Enqueue
<1> HIDE DEF wr, n
<1>5. /\ But(posted, posted', t) /\ posted'[t] = posted[t] + 1
      /\ But(owed, owed', t) /\ owed'[t] = owed[t] + (IF signal THEN 1 ELSE 0)
  BY <1>1, <1>4 DEF TypeOK, But
<1>6. /\ But(rbuf, rbuf', t) /\ rbuf'[t] \in [Buffer -> Word]
      /\ op.kind = "write" => rbuf'[t][op.buf] = WriteVal
  <2>1. WriteVal \in Word
    BY WordAssumption
  <2>2. CASE op.kind = "write"
    <3>1. rbuf' = [rbuf EXCEPT ![t] = [rbuf[t] EXCEPT ![op.buf] = WriteVal]]
      BY <1>4, <2>2
    <3>2. rbuf'[t] = [rbuf[t] EXCEPT ![op.buf] = WriteVal]
      BY <1>1, <3>1 DEF TypeOK
    <3> QED
      BY <1>1, <1>2, <2>1, <3>1, <3>2 DEF TypeOK, ThreadType, But
  <2>3. CASE op.kind # "write"
    BY <1>1, <1>4, <2>3 DEF TypeOK, ThreadType, But
  <2> QED
    BY <2>2, <2>3
<1>7. CASE Used(t, n) < SqDepth
  <2>1. osq' = [osq EXCEPT ![t] = [osq[t] EXCEPT ![n] = Append(@, wr)]] /\ refused' = refused
    BY <1>7, <1>11
  <2>2. osq'[t] = [osq[t] EXCEPT ![n] = Append(@, wr)] /\ But(osq, osq', t)
    BY <1>1, <2>1 DEF TypeOK, But
  <2>3. refused'[t] = refused[t] /\ refused'[t] \in Nat /\ But(refused, refused', t)
    BY <1>1, <2>1 DEF TypeOK, But
  <2>4. osq[t] \in Queues /\ Distinct(osq[t]) /\ \A r \in Held(osq[t]) : r.id # wr.id
    BY <1>1, <1>3 DEF ThreadType, IdOf
  <2>5. osq'[t] \in Queues /\ Distinct(osq'[t]) /\ Held(osq'[t]) = Held(osq[t]) \cup {wr}
    <3> DEFINE q == osq[t]
    <3>1. n \in Node /\ wr \in WorkRequest
      BY <1>2, <1>3
    <3>2. q \in Queues /\ Distinct(q) /\ \A r \in Held(q) : r.id # wr.id
      BY <2>4
    <3>3. osq'[t] = [q EXCEPT ![n] = Append(@, wr)]
      BY <2>2
    <3> HIDE DEF q
    <3> DEFINE p == [q EXCEPT ![n] = Append(@, wr)]
    <3>4. p \in Queues /\ Distinct(p) /\ Held(p) = Held(q) \cup {wr}
      BY <3>1, <3>2, HeldAppend
    <3>5. osq'[t] = p
      BY <3>3
    <3> HIDE DEF p
    <3> QED
      BY <3>4, <3>5 DEF q
  <2>6. Requests(t)' = Requests(t) \cup {wr} /\ Signaled(t)' = Asking(Requests(t)')
    BY <1>1, <2>5 DEF Requests, Held, Signaled, Asking
  <2>7. IdOf(t)'
    <3>1. \A r \in Requests(t) : r.id < posted[t] /\ r.id \in Nat
      BY <1>1, Facts DEF IdOf, WorkRequest
    <3>2. posted[t] \in Nat
      BY <1>1 DEF ThreadType
    <3> QED
      BY <1>3, <1>5, <2>5, <2>6, <3>1, <3>2 DEF IdOf
  <2>8. /\ IsFiniteSet(Signaled(t)')
        /\ Cardinality(Signaled(t)') = Cardinality(Signaled(t)) + (IF signal THEN 1 ELSE 0)
    <3>1. IsFiniteSet(Asking(Requests(t))) /\ wr \notin Requests(t)
      BY <1>1, <2>4 DEF OwedOf
    <3> DEFINE R == Requests(t)
    <3>2. IsFiniteSet(Asking(R)) /\ wr \notin R /\ wr.signaled \in BOOLEAN
      BY <1>3, <3>1
    <3> HIDE DEF R
    <3>3. /\ IsFiniteSet(Asking(R \cup {wr}))
          /\ Cardinality(Asking(R \cup {wr})) =
               Cardinality(Asking(R)) + (IF wr.signaled THEN 1 ELSE 0)
      BY <3>2, CountAdd
    <3> QED
      BY <1>1, <1>3, <2>6, <3>3 DEF R
  <2>9. /\ Cardinality(Signaled(t)') \in Nat
        /\ Cardinality(Signaled(t)') + refused'[t] =
             Cardinality(Signaled(t)) + refused[t] + (IF signal THEN 1 ELSE 0)
    BY <1>1, <2>3, <2>8
  <2> QED
    BY <1>5, <1>6, <1>9, <1>10, <2>2, <2>3, <2>5, <2>6, <2>7, <2>8, <2>9 DEF wr
<1>8. CASE ~(Used(t, n) < SqDepth)
  <2>1. /\ osq' = osq
        /\ refused' = [refused EXCEPT ![t] = @ + (IF wr.signaled THEN 1 ELSE 0)]
    BY <1>8, <1>11
  <2>2. osq'[t] = osq[t] /\ But(osq, osq', t) /\ osq'[t] \in Queues
    BY <1>1, <2>1 DEF TypeOK, ThreadType, But
  <2>3. /\ refused'[t] = refused[t] + (IF signal THEN 1 ELSE 0) /\ refused'[t] \in Nat
        /\ But(refused, refused', t)
    BY <1>1, <1>3, <2>1 DEF TypeOK, But
  <2>4. Requests(t)' = Requests(t) /\ Signaled(t)' = Signaled(t)
    BY <2>2 DEF Requests, Signaled
  <2>5. IdOf(t)'
    <3>1. \A r \in Requests(t) : r.id < posted[t] /\ r.id \in Nat
      BY <1>1, Facts DEF IdOf, WorkRequest
    <3>2. posted[t] \in Nat
      BY <1>1 DEF ThreadType
    <3> QED
      BY <1>1, <1>5, <2>2, <2>4, <3>1, <3>2 DEF IdOf
  <2>6. IsFiniteSet(Signaled(t)') /\ Cardinality(Signaled(t)') = Cardinality(Signaled(t))
    BY <1>1, <2>4 DEF OwedOf
  <2>7. refused[t] \in Nat
    BY <1>1 DEF ThreadType
  <2>8. Cardinality(Signaled(t)') + refused'[t] =
             Cardinality(Signaled(t)) + refused[t] + (IF signal THEN 1 ELSE 0)
    BY <1>1, <2>3, <2>6, <2>7
  <2> QED
    BY <1>1, <1>5, <1>6, <1>9, <1>10, <2>2, <2>3, <2>4, <2>5, <2>6, <2>8
<1> QED
  BY <1>7, <1>8

\* A completion asked for is one to come: so the balance is kept.
LEMMA PostOwed ==
  ASSUME DsmInv, NEW t \in Thread, NEW op \in Op, NEW signal \in BOOLEAN, Post(t, op, signal),
         ocq' = ocq, lost' = lost, up' = up
  PROVE  OwedOf(t)'
<1>1. OwedOf(t) /\ Cardinality(Signaled(t)) \in Nat /\ Len(ocq[t]) \in Nat
  BY Facts DEF ThreadInv
<1>2. refused[t] \in Nat /\ owed[t] \in Nat /\ lost[t] \in Nat
  BY Facts DEF ThreadType
<1>3. /\ IsFiniteSet(Signaled(t)') /\ refused'[t] \in Nat /\ Cardinality(Signaled(t)') \in Nat
      /\ owed'[t] = owed[t] + (IF signal THEN 1 ELSE 0)
      /\ Cardinality(Signaled(t)') + refused'[t] =
           Cardinality(Signaled(t)) + refused[t] + (IF signal THEN 1 ELSE 0)
      /\ crowded[t] => crowded'[t]
  BY PostFacts
<1>4. Coming(t)' = Coming(t) + (IF signal THEN 1 ELSE 0) /\ Coming(t) \in Nat
  <2> DEFINE l == Len(ocq[t])
             a == Cardinality(Signaled(t))
             b == Cardinality(Signaled(t)')
             r == refused[t]
             u == refused'[t]
             x == lost[t]
  <2>1. Coming(t) = l + a + r + x /\ Coming(t)' = l + b + u + x
    BY DEF Coming
  <2>2. /\ x \in Nat /\ l \in Nat /\ a \in Nat /\ b \in Nat /\ r \in Nat /\ u \in Nat
        /\ b + u = a + r + (IF signal THEN 1 ELSE 0)
    BY <1>1, <1>2, <1>3
  <2> HIDE DEF a, b, l, r, u, x
  <2>3. l + b + u + x = l + a + r + x + (IF signal THEN 1 ELSE 0) /\ l + a + r + x \in Nat
    BY <2>2
  <2> QED
    BY <2>1, <2>3
<1> QED
  BY <1>1, <1>2, <1>3, <1>4 DEF OwedOf

LEMMA AsyncInv ==
  ASSUME DsmInv, NEW t \in Thread, NEW op \in Op, NEW signal \in BOOLEAN, Async(t, op, signal)
  PROVE  DsmInv'
<1>1. /\ call[t] = Idle /\ Post(t, op, signal)
      /\ UNCHANGED <<mem, silent, up, ocq, lost, call, effect>>
  BY DEF Async
<1>2. TypeOK /\ ThreadType(t)
  BY Facts
<1>3. Only(t) /\ Shared'
  BY <1>1, <1>2, PostFacts DEF TypeOK, Shared, Only, But
<1>4. ThreadType(t)'
  <2>1. /\ osq'[t] \in Queues /\ rbuf'[t] \in [Buffer -> Word]
        /\ owed'[t] \in Nat /\ posted'[t] \in Nat /\ refused'[t] \in Nat
        /\ crowded'[t] \in BOOLEAN
    BY <1>1, <1>2, PostFacts DEF ThreadType
  <2> QED
    BY <1>1, <1>2, <2>1 DEF ThreadType
<1>5. OwedOf(t)' /\ CrowdOf(t)' /\ IdOf(t)'
  BY <1>1, PostOwed, PostFacts
<1>6. call'[t] = Idle /\ Idle.kind \notin Kind
  BY <1>1 DEF Idle, Kind
<1>7. ThreadInv(t)'
  BY <1>5, <1>6 DEF ThreadInv, WantOf, SyncOf
<1> QED
  BY <1>3, <1>4, <1>7, OneThread

\* The request of a _sync call of a drained caller is the only one that asks for
\* a completion, or uses its buffer.
LEMMA SyncCallInv ==
  ASSUME DsmInv, NEW t \in Thread, NEW op \in Op, Sync(t, op)
  PROVE  DsmInv'
<1> DEFINE c == [kind |-> op.kind, buf |-> op.buf, want |-> 1, ok |-> TRUE,
                 clean |-> Drained(t, op)]
<1>1. /\ call[t] = Idle /\ Post(t, op, TRUE) /\ call' = [call EXCEPT ![t] = c]
      /\ UNCHANGED <<mem, silent, up, ocq, lost, effect>>
  BY DEF Sync
<1>2. TypeOK /\ ThreadType(t)
  BY Facts
<1>3. c \in SyncCall /\ c.kind = op.kind /\ c.buf = op.buf /\ c.want = 1 /\ c.clean = Drained(t, op)
  <2>1. Drained(t, op) \in BOOLEAN
    BY DEF Drained
  <2> QED
    BY <2>1 DEF Op, SyncCall
<1> HIDE DEF c
<1>4. call'[t] = c /\ But(call, call', t)
  BY <1>1, <1>2 DEF TypeOK, But
<1>5. Only(t) /\ Shared'
  BY <1>1, <1>2, <1>4, PostFacts DEF TypeOK, Shared, Only, But
<1>6. posted'[t] = posted[t] + 1 /\ owed'[t] = owed[t] + 1
  BY <1>1, PostFacts
<1>7. ThreadType(t)'
  <2>1. /\ osq'[t] \in Queues /\ rbuf'[t] \in [Buffer -> Word] /\ refused'[t] \in Nat
        /\ crowded'[t] \in BOOLEAN
    BY <1>1, PostFacts
  <2>2. owed'[t] \in Nat /\ posted'[t] \in Nat
    BY <1>2, <1>6 DEF ThreadType
  <2>3. /\ silent'[t] = silent[t] /\ up'[t] = up[t] /\ ocq'[t] = ocq[t] /\ effect'[t] = effect[t]
        /\ lost'[t] = lost[t]
    BY <1>1
  <2> QED
    BY <1>2, <1>3, <1>4, <2>1, <2>2, <2>3 DEF ThreadType
<1>8. OwedOf(t)' /\ CrowdOf(t)' /\ IdOf(t)'
  BY <1>1, PostOwed, PostFacts
<1>9. WantOf(t)'
  BY <1>2, <1>3, <1>4, <1>6 DEF ThreadType, WantOf
<1>10. SyncOf(t)'
  <2> SUFFICES ASSUME Drained(t, op) PROVE RequestsOf(t)' /\ DoneOf(t)'
    BY <1>3, <1>4 DEF SyncOf
  <2>1. /\ owed[t] = 0 /\ \A wr \in Requests(t) : wr.buf # op.buf
        /\ \A n \in Node : up[t][n]
    BY DEF Drained
  <2>2. Coming(t) = 0
    BY <2>1, Facts DEF ThreadInv, OwedOf
  <2>3. Len(ocq[t]) = 0 /\ Cardinality(Signaled(t)) = 0
    BY <2>2, Facts DEF Coming, ThreadType
  <2>4. Signaled(t) = {}
    BY <2>3, Facts, FS_EmptySet DEF ThreadInv, OwedOf
  <2>5. ocq[t] = << >>
    BY <1>2, <2>3, EmptySeq DEF ThreadType
  <2>6. DoneOf(t)'
    BY <1>1, <1>3, <1>4, <2>5 DEF DoneOf, ToSet
  <2>7. ASSUME NEW wr \in Requests(t)'
        PROVE  IF wr.id = posted'[t] - 1 THEN Pending(t, wr)'
                                         ELSE ~wr.signaled /\ wr.buf # call'[t].buf
    <3>1. wr \in Requests(t) \cup {Request(t, op, TRUE)}
      BY <1>1, PostFacts
    <3>2. posted[t] \in Nat /\ posted'[t] - 1 = posted[t]
      BY <1>2, <1>6 DEF ThreadType
    <3>3. CASE wr = Request(t, op, TRUE)
      <4>1. /\ wr.id = posted[t] /\ wr.kind = op.kind /\ wr.buf = op.buf /\ wr.old = None.old
        BY <3>3 DEF Request
      <4>2. op.kind = "write" => rbuf'[t][op.buf] = WriteVal
        BY <1>1, PostFacts
      <4> QED
        BY <1>3, <1>4, <3>2, <4>1, <4>2 DEF Pending
    <3>4. CASE wr \in Requests(t)
      <4>1. wr.id < posted[t] /\ wr.id \in Nat
        BY <3>4, Facts DEF ThreadInv, IdOf, WorkRequest
      <4>2. ~wr.signaled
        BY <2>4, <3>4 DEF Signaled
      <4> QED
        BY <1>3, <1>4, <2>1, <3>2, <3>4, <4>1, <4>2
    <3> QED
      BY <3>1, <3>3, <3>4
  <2>8. RequestsOf(t)'
    BY <2>7 DEF RequestsOf
  <2> QED
    BY <2>6, <2>8
<1>11. ThreadInv(t)'
  BY <1>8, <1>9, <1>10 DEF ThreadInv
<1> QED
  BY <1>5, <1>7, <1>11, OneThread

LEMMA PollRdmaCqInv ==
  ASSUME DsmInv, NEW t \in Thread, NEW count \in Nat, PollRdmaCq(t, count)
  PROVE  DsmInv'
<1> DEFINE c == [kind |-> "poll", want |-> count, ok |-> TRUE]
<1>1. /\ count \in 1 .. owed[t] /\ call' = [call EXCEPT ![t] = c]
      /\ UNCHANGED <<mem, alive, osq, silent, up, ocq, lost, rbuf, owed, refused, crowded, posted,
                     effect>>
  BY DEF PollRdmaCq
<1>2. c \in PollCall /\ c.want = count /\ c.kind \notin Kind
  BY DEF PollCall, Kind
<1> HIDE DEF c
<1>3. TypeOK /\ ThreadType(t) /\ ThreadInv(t)
  BY Facts
<1>4. call'[t] = c /\ Only(t) /\ Shared'
  BY <1>1, <1>3 DEF TypeOK, Shared, Only, But
<1>5. ThreadType(t)'
  BY <1>1, <1>2, <1>3, <1>4 DEF ThreadType
<1>6. Requests(t)' = Requests(t) /\ Signaled(t)' = Signaled(t)
  BY <1>1 DEF Requests, Signaled
<1>7. IdOf(t)' /\ CrowdOf(t)' /\ OwedOf(t)'
  BY <1>1, <1>3, <1>6 DEF ThreadInv, IdOf, CrowdOf, OwedOf, Coming, Distinct
<1>8. WantOf(t)' /\ SyncOf(t)'
  <2>1. count <= owed'[t]
    BY <1>1, <1>3 DEF ThreadType
  <2> QED
    BY <1>2, <1>4, <2>1 DEF WantOf, SyncOf
<1>9. ThreadInv(t)'
  BY <1>7, <1>8 DEF ThreadInv
<1> QED
  BY <1>4, <1>5, <1>9, OneThread

\* A call that polls keeps all but how many it wants and what was reported.
Polled(c, w, b) == [c EXCEPT !.want = w, !.ok = b]

LEMMA CallPolls ==
  ASSUME NEW c \in {Idle} \cup PollCall \cup SyncCall, c # Idle,
         NEW w \in Nat, NEW b \in BOOLEAN
  PROVE  /\ Polled(c, w, b) \in {Idle} \cup PollCall \cup SyncCall
         /\ Polled(c, w, b).kind = c.kind /\ Polled(c, w, b).want = w
         /\ Polled(c, w, b).ok = b /\ Polled(c, w, b).kind # "idle"
         /\ c.kind \in Kind => /\ Polled(c, w, b).buf = c.buf
                               /\ Polled(c, w, b).clean = c.clean
<1>1. CASE c \in PollCall
  BY <1>1 DEF PollCall, Kind, Polled
<1>2. CASE c \in SyncCall
  BY <1>2 DEF SyncCall, Kind, Polled
<1> QED
  BY <1>1, <1>2

LEMMA CallKinds ==
  ASSUME NEW c \in {Idle} \cup PollCall \cup SyncCall
  PROVE  /\ c.kind \in Kind => c # Idle /\ c \in SyncCall /\ c.buf \in Buffer
         /\ c # Idle => c.want \in Nat
         /\ c.kind = "idle" <=> c = Idle
BY DEF Idle, PollCall, SyncCall, Kind

\* The one completion polled for reports success only if it is the call's own.
LEMMA PollWithCQInv ==
  ASSUME DsmInv, NEW t \in Thread, PollWithCQ(t)
  PROVE  DsmInv'
<1> DEFINE h == Head(ocq[t])
           w == call[t].want - 1
           d == [call[t] EXCEPT !.want = w, !.ok = h.ok]
<1>1. /\ call[t] # Idle /\ call[t].want > 0 /\ ocq[t] # << >>
      /\ ocq' = [ocq EXCEPT ![t] = Tail(@)]
      /\ call' = [call EXCEPT ![t].want = @ - 1, ![t].ok = h.ok]
      /\ owed' = [owed EXCEPT ![t] = @ - 1]
      /\ UNCHANGED <<mem, alive, osq, silent, up, lost, rbuf, refused, crowded, posted, effect>>
  BY DEF PollWithCQ
<1>2. TypeOK /\ ThreadType(t) /\ ThreadInv(t) /\ Cardinality(Signaled(t)) \in Nat
  BY Facts
<1>3. /\ Tail(ocq[t]) \in Seq(Completion) /\ Len(Tail(ocq[t])) = Len(ocq[t]) - 1
      /\ Len(ocq[t]) \in Nat \ {0} /\ h \in Completion /\ h \in ToSet(ocq[t])
      /\ ToSet(Tail(ocq[t])) \subseteq ToSet(ocq[t])
  <2>1. ocq[t] \in Seq(Completion) /\ Len(ocq[t]) \in Nat \ {0}
    BY <1>1, <1>2 DEF ThreadType
  <2>2. /\ Tail(ocq[t]) \in Seq(Completion) /\ Len(Tail(ocq[t])) = Len(ocq[t]) - 1
        /\ \A i \in 1 .. Len(Tail(ocq[t])) : Tail(ocq[t])[i] = ocq[t][i + 1]
        /\ h = ocq[t][1] /\ h \in Completion
    BY <1>1, <2>1, HeadTailProperties
  <2>3. /\ DOMAIN ocq[t] = 1 .. Len(ocq[t])
        /\ DOMAIN Tail(ocq[t]) = 1 .. Len(Tail(ocq[t]))
    BY <2>1, <2>2
  <2>4. h \in ToSet(ocq[t])
    BY <2>1, <2>2, <2>3 DEF ToSet
  <2>5. \A i \in 1 .. Len(Tail(ocq[t])) : i + 1 \in 1 .. Len(ocq[t])
    BY <2>1, <2>2
  <2>6. ToSet(Tail(ocq[t])) \subseteq ToSet(ocq[t])
    <3> SUFFICES ASSUME NEW x \in ToSet(Tail(ocq[t])) PROVE x \in ToSet(ocq[t])
      OBVIOUS
    <3>1. PICK i \in 1 .. Len(Tail(ocq[t])) : x = Tail(ocq[t])[i]
      BY <2>3 DEF ToSet
    <3>2. x = ocq[t][i + 1] /\ i + 1 \in DOMAIN ocq[t]
      BY <2>2, <2>3, <2>5, <3>1
    <3> QED
      BY <3>2 DEF ToSet
  <2> QED
    BY <2>1, <2>2, <2>4, <2>6
<1>4. h.ok \in BOOLEAN
  BY <1>3 DEF Completion
<1> HIDE DEF h
<1>5. call[t].want \in Nat \ {0} /\ w \in Nat
  <2>1. call[t].want \in Nat
    BY <1>1, <1>2, CallKinds DEF ThreadType
  <2> QED
    BY <1>1, <2>1
<1>6. call' = [call EXCEPT ![t] = d]
  BY <1>1
<1>7. /\ d \in {Idle} \cup PollCall \cup SyncCall
      /\ d.kind = call[t].kind /\ d.want = w /\ d.ok = h.ok /\ d.kind # "idle"
      /\ call[t].kind \in Kind => d.buf = call[t].buf /\ d.clean = call[t].clean
  <2> DEFINE c == call[t]
             b == h.ok
             e == Polled(c, w, b)
  <2>1. c \in {Idle} \cup PollCall \cup SyncCall /\ c # Idle /\ b \in BOOLEAN /\ w \in Nat
    BY <1>1, <1>2, <1>4, <1>5 DEF ThreadType
  <2>2. d = e
    BY DEF Polled
  <2> HIDE DEF b, c, d, w
  <2>3. /\ e \in {Idle} \cup PollCall \cup SyncCall
        /\ e.kind = c.kind /\ e.want = w /\ e.ok = b /\ e.kind # "idle"
        /\ c.kind \in Kind => e.buf = c.buf /\ e.clean = c.clean
    BY <2>1, CallPolls
  <2> HIDE DEF e
  <2> QED
    BY <2>2, <2>3 DEF b, c
<1> HIDE DEF d
<1>8. call'[t] = d /\ ocq'[t] = Tail(ocq[t]) /\ owed'[t] = owed[t] - 1
  BY <1>1, <1>2, <1>6 DEF TypeOK
<1>9. Only(t) /\ Shared'
  BY <1>1, <1>2, <1>6, <1>8 DEF TypeOK, Shared, Only, But
<1>10. call[t].want <= owed[t] /\ owed[t] \in Nat /\ refused[t] \in Nat /\ lost[t] \in Nat
  BY <1>1, <1>2 DEF ThreadInv, WantOf, ThreadType
<1>11. ThreadType(t)'
  <2>1. owed'[t] \in Nat
    BY <1>5, <1>8, <1>10
  <2> QED
    BY <1>1, <1>2, <1>3, <1>7, <1>8, <2>1 DEF ThreadType
<1>12. Requests(t)' = Requests(t) /\ Signaled(t)' = Signaled(t)
  BY <1>1 DEF Requests, Signaled
<1>13. IdOf(t)'
  BY <1>1, <1>2, <1>12 DEF ThreadInv, IdOf, Distinct
<1>14. OwedOf(t)'
  <2> DEFINE l == Len(ocq[t])
             m == Len(ocq'[t])
             a == Cardinality(Signaled(t))
             r == refused[t]
             x == lost[t]
  <2>1. Coming(t) = l + a + r + x /\ Coming(t)' = m + a + r + x
    BY <1>1, <1>12 DEF Coming
  <2>2. m = l - 1 /\ l \in Nat \ {0} /\ a \in Nat /\ r \in Nat /\ x \in Nat
    BY <1>2, <1>3, <1>8, <1>10
  <2>8. l <= CqDepth => m <= CqDepth
    BY <2>2, CallsAssumption
  <2>9. Len(ocq'[t]) <= CqDepth
    BY <1>2, <2>8 DEF ThreadInv, OwedOf
  <2> HIDE DEF l, m, a, r, x
  <2>3. Coming(t)' = Coming(t) - 1 /\ Coming(t) \in Nat
    BY <2>1, <2>2
  <2>4. up'[t] = up[t] /\ lost'[t] = lost[t] /\ crowded'[t] = crowded[t]
    BY <1>1
  <2>5. IsFiniteSet(Signaled(t)')
    BY <1>2, <1>12 DEF ThreadInv, OwedOf
  <2>6. /\ IF \A n \in Node : up[t][n] THEN owed[t] = Coming(t) ELSE owed[t] <= Coming(t)
        /\ (\A n \in Node : up[t][n]) => (lost[t] > 0 => crowded[t])
    BY <1>2 DEF ThreadInv, OwedOf
  <2>7. IF \A n \in Node : up[t][n] THEN owed'[t] = Coming(t)' ELSE owed'[t] <= Coming(t)'
    BY <1>8, <1>10, <2>3, <2>6
  <2> QED
    BY <2>4, <2>5, <2>6, <2>7, <2>9 DEF OwedOf
<1>15. WantOf(t)'
  <2>1. w <= owed[t] - 1
    BY <1>5, <1>10
  <2>2. call[t].kind \in Kind => w <= 1
    BY <1>2, <1>5 DEF ThreadInv, WantOf
  <2> QED
    BY <1>7, <1>8, <2>1, <2>2 DEF WantOf
<1>16. SyncOf(t)'
  <2> SUFFICES ASSUME call[t].kind \in Kind, call[t].clean PROVE RequestsOf(t)' /\ DoneOf(t)'
    BY <1>7, <1>8 DEF SyncOf
  <2>1. RequestsOf(t) /\ DoneOf(t)
    BY <1>2 DEF ThreadInv, SyncOf
  <2>2. call[t].want = 1 /\ w = 0
    BY <1>2, <1>5 DEF ThreadInv, WantOf
  <2>3. /\ call'[t].kind = call[t].kind /\ call'[t].buf = call[t].buf
        /\ call'[t].want = 0 /\ call'[t].ok = h.ok
    BY <1>7, <1>8, <2>2
  <2>4. \A wr : Pending(t, wr)' <=> Pending(t, wr)
    BY <1>1, <2>3 DEF Pending
  <2>5. Done(t)' <=> Done(t)
    BY <1>1, <1>12, <2>3 DEF Done
  <2>6. RequestsOf(t)'
    BY <1>1, <1>12, <2>1, <2>3, <2>4 DEF RequestsOf
  <2>7. h.ok => Done(t)
    BY <1>3, <2>1, <2>2 DEF DoneOf
  <2> QED
    BY <2>3, <2>5, <2>6, <2>7 DEF DoneOf
<1>17. CrowdOf(t)'
  <2>1. owed'[t] > CqDepth => owed[t] > CqDepth
    BY <1>8, <1>10, CallsAssumption
  <2> QED
    BY <1>1, <1>2, <2>1 DEF ThreadInv, CrowdOf
<1>18. ThreadInv(t)'
  BY <1>13, <1>14, <1>15, <1>16, <1>17 DEF ThreadInv
<1> QED
  BY <1>9, <1>11, <1>18, OneThread

LEMMA ReturnInv ==
  ASSUME DsmInv, NEW t \in Thread, Return(t)
  PROVE  DsmInv'
<1>1. /\ call' = [call EXCEPT ![t] = Idle] /\ effect' = [effect EXCEPT ![t] = None]
      /\ UNCHANGED <<mem, alive, osq, silent, up, ocq, lost, rbuf, owed, refused, crowded, posted>>
  BY DEF Return
<1>2. TypeOK /\ ThreadType(t) /\ ThreadInv(t)
  BY Facts
<1>3. call'[t] = Idle /\ effect'[t] = None /\ Only(t) /\ Shared'
  BY <1>1, <1>2 DEF TypeOK, Shared, Only, But
<1>4. ThreadType(t)'
  BY <1>1, <1>2, <1>3 DEF ThreadType
<1>5. Requests(t)' = Requests(t) /\ Signaled(t)' = Signaled(t)
  BY <1>1 DEF Requests, Signaled
<1>6. IdOf(t)' /\ CrowdOf(t)' /\ OwedOf(t)'
  BY <1>1, <1>2, <1>5 DEF ThreadInv, IdOf, CrowdOf, OwedOf, Coming, Distinct
<1>7. Idle.kind \notin Kind
  BY DEF Idle, Kind
<1>8. ThreadInv(t)'
  BY <1>3, <1>6, <1>7 DEF ThreadInv, WantOf, SyncOf
<1> QED
  BY <1>3, <1>4, <1>8, OneThread

-----------------------------------------------------------------------------
(***************************************************************************)
(* The steps of the transport.                                             *)
(***************************************************************************)

\* The request that Execute takes has not taken effect yet.
LEMMA FirstFound ==
  ASSUME NEW S, NEW q \in Seq(S), SelectInSeq(q, LAMBDA r : r.old = None.old) > 0
  PROVE  LET i == SelectInSeq(q, LAMBDA r : r.old = None.old)
         IN i \in 1 .. Len(q) /\ q[i].old = None.old
<1> DEFINE I == {i \in 1 .. Len(q) : q[i].old = None.old}
<1>1. SelectInSeq(q, LAMBDA r : r.old = None.old) = IF I # {} THEN Min(I) ELSE 0
  BY DEF SelectInSeq
<1>2. I # {}
  BY <1>1
<1>3. Min(I) \in I
  <2>1. Len(q) \in Nat /\ I \in SUBSET (1 .. Len(q))
    OBVIOUS
  <2> HIDE DEF I
  <2> QED
    BY <1>2, <2>1, LeastPlace
<1> QED
  BY <1>1, <1>2, <1>3

LEMMA NewWordType ==
  ASSUME NEW kind, NEW v \in Word, NEW source \in Word
  PROVE  NewWord(kind, v, source) \in Word /\ (kind = "write" => NewWord(kind, v, source) = source)
<1>1. (v + Add) % WordCnt \in Word /\ CasVal \in Word
  BY WordAssumption DEF Word
<1> QED
  BY <1>1 DEF NewWord

\* A request that takes effect keeps its id, and still asks for its completion.
LEMMA ExecuteInv ==
  ASSUME DsmInv, NEW t \in Thread, NEW n \in Node, Execute(t, n)
  PROVE  DsmInv'
<1> DEFINE i   == SelectInSeq(osq[t][n], LAMBDA r : r.old = None.old)
           w   == osq[t][n][i]
           new == NewWord(w.kind, mem[n], rbuf[t][w.buf])
           w2  == [w EXCEPT !.old = mem[n]]
           q2  == [osq[t] EXCEPT ![n][i].old = mem[n]]
<1>1. /\ up[t][n] /\ i > 0
      /\ osq' = [osq EXCEPT ![t][n][i].old = mem[n]]
      /\ mem' = [mem EXCEPT ![n] = new]
      /\ effect' = IF w.id = posted[t] - 1 /\ call[t].kind \in Kind
                   THEN [effect EXCEPT ![t] = [old |-> mem[n], new |-> new]] ELSE effect
      /\ UNCHANGED <<alive, silent, up, ocq, lost, rbuf, call, owed, refused, crowded, posted>>
  BY DEF Execute
<1>2. TypeOK /\ ThreadType(t) /\ ThreadInv(t)
  BY Facts
<1>3. mem[n] \in Word /\ osq[t] \in Queues /\ Distinct(osq[t])
  BY <1>2 DEF TypeOK, ThreadType, ThreadInv, IdOf
<1>4. i \in 1 .. Len(osq[t][n]) /\ w.old = None.old
  <2>1. osq[t][n] \in Seq(WorkRequest)
    BY <1>3, HeldType
  <2> QED
    BY <1>1, <2>1, FirstFound
<1> HIDE DEF i
<1>5. /\ q2 \in Queues /\ Distinct(q2) /\ Held(q2) = (Held(osq[t]) \ {w}) \cup {w2}
      /\ w \in Held(osq[t]) /\ \A r \in Held(osq[t]) \ {w} : r.id # w.id
      /\ w2 \in WorkRequest /\ w2.old = mem[n] /\ w2.kind = w.kind /\ w2.buf = w.buf
      /\ w2.signaled = w.signaled /\ w2.id = w.id
  <2> DEFINE q == osq[t]
             v == mem[n]
             x == q[n][i]
             y == Answered(x, v)
             p == Effected(q, n, i, v)
  <2>1. q \in Queues /\ Distinct(q) /\ i \in 1 .. Len(q[n]) /\ v \in Word
    BY <1>3, <1>4
  <2>2. w = x /\ w2 = y /\ q2 = p
    BY DEF Answered, Effected
  <2> HIDE DEF q, v, w, w2, q2
  <2>3. /\ p \in Queues /\ Distinct(p) /\ Held(p) = (Held(q) \ {x}) \cup {y}
        /\ x \in Held(q) /\ \A r \in Held(q) \ {x} : r.id # x.id
        /\ y \in WorkRequest /\ y.old = v /\ y.kind = x.kind /\ y.buf = x.buf
        /\ y.signaled = x.signaled /\ y.id = x.id
    BY <2>1, HeldEffect
  <2> HIDE DEF p, x, y
  <2> QED
    BY <2>2, <2>3 DEF q, v
<1>6. osq' = [osq EXCEPT ![t] = q2]
  BY <1>1
<1> HIDE DEF w, w2, q2
<1>7. osq'[t] = q2 /\ But(osq, osq', t)
  BY <1>2, <1>6 DEF TypeOK, But
<1>8. /\ Requests(t) = Held(osq[t]) /\ Requests(t)' = (Requests(t) \ {w}) \cup {w2}
      /\ w \in Requests(t) /\ w2 \notin Requests(t) \ {w}
      /\ Signaled(t) = Asking(Requests(t)) /\ Signaled(t)' = Asking(Requests(t)')
      /\ w \in WorkRequest
  <2>1. /\ Requests(t) = Held(osq[t]) /\ Signaled(t) = Asking(Requests(t))
        /\ Requests(t) \subseteq WorkRequest
    BY Facts
  <2>2. Requests(t)' = Held(osq'[t]) /\ Signaled(t)' = Asking(Requests(t)')
    BY DEF Requests, Held, Signaled, Asking
  <2> QED
    BY <1>5, <1>7, <2>1, <2>2
<1>9. /\ w.kind \in Kind /\ w.buf \in Buffer /\ w.signaled \in BOOLEAN /\ w.id \in Nat
      /\ mem[n] # None.old
  BY <1>3, <1>8 DEF WorkRequest, None, Word
<1>10. new \in Word /\ (w.kind = "write" => new = rbuf[t][w.buf])
  <2>1. rbuf[t][w.buf] \in Word
    BY <1>2, <1>9 DEF ThreadType
  <2> QED
    BY <1>3, <2>1, NewWordType
<1> HIDE DEF new
<1>11. Shared'
  BY <1>1, <1>2, <1>10 DEF TypeOK, Shared
<1> DEFINE own == w.id = posted[t] - 1 /\ call[t].kind \in Kind
           e   == [old |-> mem[n], new |-> new]
<1>12. /\ e \in [old : Word, new : Word] /\ e.old = mem[n] /\ e.new = new /\ e # None
  <2>1. e \in [old : Word, new : Word] /\ e.old = mem[n] /\ e.new = new
    BY <1>3, <1>10
  <2> HIDE DEF e
  <2> QED
    BY <1>9, <2>1
<1>13. /\ effect'[t] = IF own THEN e ELSE effect[t]
       /\ But(effect, effect', t)
  <2>1. effect' = IF own THEN [effect EXCEPT ![t] = e] ELSE effect
    BY <1>1
  <2> HIDE DEF own, e
  <2> QED
    BY <1>2, <2>1 DEF TypeOK, But
<1> HIDE DEF e
<1>14. Only(t)
  BY <1>1, <1>2, <1>7, <1>13 DEF TypeOK, Shared, Only, But
<1>15. ThreadType(t)'
  <2>1. effect'[t] \in {None} \cup [old : Word, new : Word]
    <3> HIDE DEF own
    <3> QED
      BY <1>2, <1>12, <1>13 DEF ThreadType
  <2> QED
    BY <1>1, <1>2, <1>5, <1>7, <2>1 DEF ThreadType
<1>16. IdOf(t)'
  BY <1>1, <1>2, <1>5, <1>7, <1>8 DEF ThreadInv, IdOf
<1>17. OwedOf(t)'
  <2> DEFINE R == Requests(t)
  <2>1. /\ IsFiniteSet(Asking(R)) /\ w \in R /\ w.signaled \in BOOLEAN
        /\ w2 \notin R \ {w} /\ w2.signaled = w.signaled
    BY <1>2, <1>5, <1>8, <1>9 DEF ThreadInv, OwedOf
  <2> HIDE DEF R
  <2>2. /\ IsFiniteSet(Asking((R \ {w}) \cup {w2}))
        /\ Cardinality(Asking((R \ {w}) \cup {w2})) = Cardinality(Asking(R))
    BY <2>1, CountSwap
  <2>3. IsFiniteSet(Signaled(t)') /\ Cardinality(Signaled(t)') = Cardinality(Signaled(t))
    BY <1>8, <2>2 DEF R
  <2>4. Coming(t)' = Coming(t)
    BY <1>1, <2>3 DEF Coming
  <2> QED
    BY <1>1, <1>2, <2>3, <2>4 DEF ThreadInv, OwedOf
<1>18. WantOf(t)' /\ CrowdOf(t)'
  BY <1>1, <1>2 DEF ThreadInv, WantOf, CrowdOf
<1>19. SyncOf(t)'
  <2> SUFFICES ASSUME call[t].kind \in Kind, call[t].clean PROVE RequestsOf(t)' /\ DoneOf(t)'
    BY <1>1 DEF SyncOf
  <2>1. RequestsOf(t) /\ DoneOf(t)
    BY <1>2 DEF ThreadInv, SyncOf
  <2>2. \A r \in Requests(t)' \ {w2} : r \in Requests(t) /\ r # w /\ r.id # w.id
    BY <1>5, <1>8
  <2>3. CASE w.id = posted[t] - 1
    <3>1. Pending(t, w)
      BY <1>8, <2>1, <2>3 DEF RequestsOf
    <3>3. RequestsOf(t)'
      <4> SUFFICES ASSUME NEW r \in Requests(t)'
                   PROVE  IF r.id = posted'[t] - 1 THEN Pending(t, r)'
                                                   ELSE ~r.signaled /\ r.buf # call'[t].buf
        BY DEF RequestsOf
      <4>1. CASE r = w2
        <5>1. effect'[t] = e
          BY <1>13, <2>3
        <5>2. call[t].kind = "write" => new = WriteVal
          BY <1>4, <1>10, <3>1 DEF Pending
        <5>3. /\ r.kind = call[t].kind /\ r.buf = call[t].buf /\ r.old = mem[n]
              /\ r.id = posted[t] - 1
          BY <1>5, <2>3, <3>1, <4>1 DEF Pending
        <5> QED
          BY <1>1, <1>9, <1>12, <5>1, <5>2, <5>3 DEF Pending
      <4>2. CASE r # w2
        <5>1. r \in Requests(t) /\ r.id # posted[t] - 1
          BY <2>2, <2>3, <4>2
        <5> QED
          BY <1>1, <2>1, <5>1 DEF RequestsOf
      <4> QED
        BY <4>1, <4>2
    <3>4. ~Done(t)
      BY <1>8, <2>3 DEF Done
    <3>5. DoneOf(t)'
      BY <1>1, <2>1, <3>4 DEF DoneOf
    <3> QED
      BY <3>3, <3>5
  <2>4. CASE w.id # posted[t] - 1
    <3>1. effect'[t] = effect[t]
      BY <1>13, <2>4
    <3>2. \A r : Pending(t, r)' <=> Pending(t, r)
      BY <1>1, <3>1 DEF Pending
    <3>3. ~w2.signaled /\ w2.buf # call[t].buf
      BY <1>5, <1>8, <2>1, <2>4 DEF RequestsOf
    <3>4. RequestsOf(t)'
      <4> SUFFICES ASSUME NEW r \in Requests(t)'
                   PROVE  IF r.id = posted'[t] - 1 THEN Pending(t, r)'
                                                   ELSE ~r.signaled /\ r.buf # call'[t].buf
        BY DEF RequestsOf
      <4>1. CASE r = w2
        BY <1>1, <1>5, <2>4, <3>3, <4>1
      <4>2. CASE r # w2
        BY <1>1, <2>1, <2>2, <3>2, <4>2 DEF RequestsOf
      <4> QED
        BY <4>1, <4>2
    <3>5. Done(t) => Done(t)'
      <4> SUFFICES ASSUME Done(t) PROVE Done(t)'
        OBVIOUS
      <4>1. \A r \in Requests(t)' : r.id # posted[t] - 1
        BY <1>5, <2>2, <2>4 DEF Done
      <4> QED
        BY <1>1, <3>1, <4>1 DEF Done
    <3>6. DoneOf(t)'
      BY <1>1, <2>1, <3>5 DEF DoneOf
    <3> QED
      BY <3>4, <3>6
  <2> QED
    BY <2>3, <2>4
<1>20. ThreadInv(t)'
  BY <1>16, <1>17, <1>18, <1>19 DEF ThreadInv
<1> QED
  BY <1>11, <1>14, <1>15, <1>20, OneThread

\* What a thread's requests are without the first of a queue.
LEMMA LeaveFacts ==
  ASSUME DsmInv, NEW t \in Thread, NEW n \in Node, osq[t][n] # << >>,
         osq' = [osq EXCEPT ![t][n] = Tail(@)], posted' = posted
  PROVE  /\ But(osq, osq', t) /\ osq'[t] \in Queues /\ IdOf(t)'
         /\ Head(osq[t][n]) \in Requests(t) /\ Head(osq[t][n]) \in WorkRequest
         /\ Requests(t)' = Requests(t) \ {Head(osq[t][n])}
         /\ \A r \in Requests(t)' : r.id # Head(osq[t][n]).id
         /\ IsFiniteSet(Signaled(t)') /\ Cardinality(Signaled(t)') \in Nat
         /\ Cardinality(Signaled(t)) =
              Cardinality(Signaled(t)') + (IF Head(osq[t][n]).signaled THEN 1 ELSE 0)
<1> DEFINE q == osq[t]
           h == Head(q[n])
           p == [q EXCEPT ![n] = Tail(@)]
<1>1. /\ TypeOK /\ q \in Queues /\ Distinct(q) /\ Requests(t) = Held(q)
      /\ Signaled(t) = Asking(Requests(t)) /\ IsFiniteSet(Signaled(t))
      /\ Requests(t) \subseteq WorkRequest /\ \A r \in Requests(t) : r.id < posted[t]
  BY Facts DEF ThreadType, ThreadInv, IdOf, OwedOf
<1>2. osq' = [osq EXCEPT ![t] = p]
  OBVIOUS
<1>3. q[n] # << >>
  OBVIOUS
<1>4. osq'[t] = p
  BY <1>1, <1>2 DEF TypeOK
<1>5. But(osq, osq', t)
  BY <1>2, <1>4 DEF But
<1> HIDE DEF q
<1>6. /\ p \in Queues /\ Distinct(p) /\ Held(p) = Held(q) \ {h}
      /\ h \in Held(q) /\ \A r \in Held(p) : r.id # h.id
  BY <1>1, <1>3, HeldTail
<1> HIDE DEF p, h
<1>7. /\ Requests(t)' = Requests(t) \ {h} /\ h \in Requests(t) /\ h \in WorkRequest
      /\ \A r \in Requests(t)' : r.id # h.id
      /\ Signaled(t)' = Asking(Requests(t)')
  <2>1. Requests(t)' = Held(osq'[t]) /\ Signaled(t)' = Asking(Requests(t)')
    BY DEF Requests, Held, Signaled, Asking
  <2> QED
    BY <1>1, <1>4, <1>6, <2>1
<1>8. IdOf(t)'
  BY <1>1, <1>4, <1>6, <1>7 DEF IdOf
<1>9. /\ IsFiniteSet(Signaled(t)')
      /\ Cardinality(Signaled(t)) = Cardinality(Signaled(t)') + (IF h.signaled THEN 1 ELSE 0)
  <2> DEFINE R == Requests(t)
  <2>1. IsFiniteSet(Asking(R)) /\ h \in R /\ h.signaled \in BOOLEAN
    BY <1>1, <1>7 DEF WorkRequest
  <2> HIDE DEF R
  <2>2. /\ IsFiniteSet(Asking(R \ {h}))
        /\ Cardinality(Asking(R)) = Cardinality(Asking(R \ {h})) + (IF h.signaled THEN 1 ELSE 0)
    BY <2>1, CountRemove
  <2> QED
    BY <1>1, <1>7, <2>2 DEF R
<1>10. Cardinality(Signaled(t)') \in Nat
  BY <1>9, FS_CardinalityType
<1> QED
  BY <1>4, <1>5, <1>6, <1>7, <1>8, <1>9, <1>10 DEF q, h

\* A completion goes to the queue or is lost, which happens to a queue that is full or
\* has been.
LEMMA ReportFacts ==
  ASSUME DsmInv, NEW t \in Thread, NEW n \in Node, NEW ok \in BOOLEAN, Report(t, n, ok)
  PROVE  /\ But(ocq, ocq', t) /\ ocq'[t] \in Seq(Completion)
         /\ But(silent, silent', t) /\ silent'[t] \in [Node -> Nat]
         /\ But(lost, lost', t) /\ lost'[t] \in Nat
         /\ Len(ocq'[t]) \in Nat /\ Len(ocq'[t]) <= CqDepth
         /\ Len(ocq'[t]) + lost'[t] = Len(ocq[t]) + lost[t] + 1
         /\ lost'[t] > 0 => lost[t] > 0 \/ Len(ocq[t]) >= CqDepth
         /\ \A c \in ToSet(ocq'[t]) : c \in ToSet(ocq[t]) \/ c.ok = ok
<1> DEFINE e == [ok |-> ok, node |-> n, places |-> silent[t][n] + 1]
<1>1. TypeOK /\ ThreadType(t) /\ Len(ocq[t]) <= CqDepth /\ CqDepth \in Nat
  BY Facts, CallsAssumption DEF ThreadInv, OwedOf
<1>2. /\ ocq[t] \in Seq(Completion) /\ Len(ocq[t]) \in Nat /\ lost[t] \in Nat
      /\ silent[t][n] + 1 \in Nat
  BY <1>1 DEF ThreadType
<1>3. e \in Completion /\ e.ok = ok
  BY <1>2 DEF Completion
<1>4. CASE Len(ocq[t]) < CqDepth /\ lost[t] = 0
  <2>1. /\ ocq' = [ocq EXCEPT ![t] = Append(@, e)] /\ lost' = lost
        /\ silent' = [silent EXCEPT ![t] = [silent[t] EXCEPT ![n] = 0]]
    BY <1>4 DEF Report
  <2> HIDE DEF e
  <2>2. ocq'[t] = Append(ocq[t], e) /\ But(ocq, ocq', t)
    BY <1>1, <2>1 DEF TypeOK, But
  <2>3. silent'[t] = [silent[t] EXCEPT ![n] = 0] /\ But(silent, silent', t)
    BY <1>1, <2>1 DEF TypeOK, But
  <2>4. silent'[t] \in [Node -> Nat]
    BY <1>1, <2>3 DEF ThreadType
  <2>5. lost'[t] = lost[t] /\ But(lost, lost', t)
    BY <1>1, <2>1 DEF TypeOK, But
  <2>6. /\ ocq'[t] \in Seq(Completion) /\ Len(ocq'[t]) = Len(ocq[t]) + 1
        /\ \A i \in 1 .. Len(ocq[t]) : ocq'[t][i] = ocq[t][i]
        /\ ocq'[t][Len(ocq[t]) + 1] = e
    BY <1>2, <1>3, <2>2, AppendProperties
  <2>7. ASSUME NEW c \in ToSet(ocq'[t]) PROVE c \in ToSet(ocq[t]) \/ c.ok = ok
    <3>1. DOMAIN ocq'[t] = 1 .. Len(ocq[t]) + 1 /\ DOMAIN ocq[t] = 1 .. Len(ocq[t])
      BY <1>2, <2>6
    <3>2. PICK i \in 1 .. Len(ocq[t]) + 1 : c = ocq'[t][i]
      BY <2>7, <3>1 DEF ToSet
    <3>3. CASE i \in 1 .. Len(ocq[t])
      BY <2>6, <3>1, <3>2, <3>3 DEF ToSet
    <3>4. CASE i = Len(ocq[t]) + 1
      BY <1>3, <2>6, <3>2, <3>4
    <3> QED
      BY <1>2, <3>2, <3>3, <3>4
  <2>8. /\ Len(ocq'[t]) \in Nat /\ Len(ocq'[t]) <= CqDepth
        /\ Len(ocq'[t]) + lost'[t] = Len(ocq[t]) + lost[t] + 1
        /\ ~(lost'[t] > 0)
    BY <1>1, <1>2, <1>4, <2>5, <2>6
  <2> QED
    BY <1>2, <2>2, <2>3, <2>4, <2>5, <2>6, <2>7, <2>8
<1>5. CASE ~(Len(ocq[t]) < CqDepth /\ lost[t] = 0)
  <2>1. /\ ocq' = ocq /\ lost' = [lost EXCEPT ![t] = @ + 1]
        /\ silent' = [silent EXCEPT ![t] = [silent[t] EXCEPT ![n] = @ + 1]]
    BY <1>5 DEF Report
  <2>2. ocq'[t] = ocq[t] /\ But(ocq, ocq', t)
    BY <1>1, <2>1 DEF TypeOK, But
  <2>3. silent'[t] = [silent[t] EXCEPT ![n] = silent[t][n] + 1] /\ But(silent, silent', t)
    BY <1>1, <2>1 DEF TypeOK, But
  <2>4. silent'[t] \in [Node -> Nat]
    BY <1>1, <1>2, <2>3 DEF ThreadType
  <2>5. lost'[t] = lost[t] + 1 /\ But(lost, lost', t)
    BY <1>1, <2>1 DEF TypeOK, But
  <2> QED
    BY <1>1, <1>2, <1>5, <2>2, <2>3, <2>4, <2>5
<1> QED
  BY <1>4, <1>5

\* The requests that stay are none of the calls's own, if it was that which left,
\* and otherwise nothing has changed for them.
LEMMA LeaveRequests ==
  ASSUME NEW t, RequestsOf(t), NEW h, Requests(t)' = Requests(t) \ {h},
         \A r \in Requests(t)' : r.id # h.id,
         call'[t] = call[t], posted'[t] = posted[t], effect'[t] = effect[t],
         h.id # posted[t] - 1 => rbuf'[t][call[t].buf] = rbuf[t][call[t].buf]
  PROVE  RequestsOf(t)'
<1> SUFFICES ASSUME NEW r \in Requests(t)'
             PROVE  IF r.id = posted'[t] - 1 THEN Pending(t, r)'
                                             ELSE ~r.signaled /\ r.buf # call'[t].buf
  BY DEF RequestsOf
<1>1. r \in Requests(t) /\ r.id # h.id
  OBVIOUS
<1>2. CASE r.id = posted[t] - 1
  <2>1. Pending(t, r)
    BY <1>1, <1>2 DEF RequestsOf
  <2>2. rbuf'[t][call[t].buf] = rbuf[t][call[t].buf]
    BY <1>1, <1>2
  <2>3. Pending(t, r)'
    BY <2>1, <2>2 DEF Pending
  <2> QED
    BY <1>2, <2>3
<1>3. CASE r.id # posted[t] - 1
  BY <1>1, <1>3 DEF RequestsOf
<1> QED
  BY <1>2, <1>3

\* The completion of a _sync call's own request leaves in the buffer what it found.
LEMMA CompleteInv ==
  ASSUME DsmInv, NEW t \in Thread, NEW n \in Node, Complete(t, n)
  PROVE  DsmInv'
<1> DEFINE h == Head(osq[t][n])
<1>1. /\ osq[t][n] # << >> /\ h.old # None.old
      /\ osq' = [osq EXCEPT ![t][n] = Tail(@)]
      /\ rbuf' = IF Fetches(h.kind) THEN [rbuf EXCEPT ![t][h.buf] = h.old] ELSE rbuf
      /\ IF h.signaled
         THEN Report(t, n, TRUE)
         ELSE silent' = [silent EXCEPT ![t][n] = @ + 1] /\ UNCHANGED <<ocq, lost>>
      /\ UNCHANGED <<mem, alive, up, call, owed, refused, crowded, posted, effect>>
  BY DEF Complete
<1>2. /\ TypeOK /\ ThreadType(t) /\ ThreadInv(t) /\ Cardinality(Signaled(t)) \in Nat
      /\ Len(ocq[t]) \in Nat
  BY Facts
<1>3. /\ But(osq, osq', t) /\ osq'[t] \in Queues /\ IdOf(t)'
      /\ h \in Requests(t) /\ h \in WorkRequest /\ Requests(t)' = Requests(t) \ {h}
      /\ \A r \in Requests(t)' : r.id # h.id
      /\ IsFiniteSet(Signaled(t)') /\ Cardinality(Signaled(t)') \in Nat
      /\ Cardinality(Signaled(t)) = Cardinality(Signaled(t)') + (IF h.signaled THEN 1 ELSE 0)
  BY <1>1, LeaveFacts
<1> HIDE DEF h
<1>4. h.kind \in Kind /\ h.buf \in Buffer /\ h.signaled \in BOOLEAN /\ h.old \in Word
  BY <1>1, <1>3 DEF WorkRequest
<1>5. /\ But(rbuf, rbuf', t) /\ rbuf'[t] \in [Buffer -> Word]
      /\ Fetches(h.kind) => rbuf'[t][h.buf] = h.old
      /\ \A b \in Buffer : b = h.buf \/ rbuf'[t][b] = rbuf[t][b]
  <2>1. CASE Fetches(h.kind)
    <3>1. rbuf' = [rbuf EXCEPT ![t] = [rbuf[t] EXCEPT ![h.buf] = h.old]]
      BY <1>1, <2>1
    <3>2. rbuf'[t] = [rbuf[t] EXCEPT ![h.buf] = h.old] /\ But(rbuf, rbuf', t)
      BY <1>2, <3>1 DEF TypeOK, But
    <3>3. rbuf[t] \in [Buffer -> Word]
      BY <1>2 DEF ThreadType
    <3> QED
      BY <1>4, <3>2, <3>3
  <2>2. CASE ~Fetches(h.kind)
    BY <1>1, <1>2, <2>2 DEF TypeOK, ThreadType, But
  <2> QED
    BY <2>1, <2>2
<1>6. /\ But(ocq, ocq', t) /\ ocq'[t] \in Seq(Completion)
      /\ But(silent, silent', t) /\ silent'[t] \in [Node -> Nat]
      /\ But(lost, lost', t) /\ lost'[t] \in Nat
      /\ Len(ocq'[t]) \in Nat /\ Len(ocq'[t]) <= CqDepth
      /\ Len(ocq'[t]) + lost'[t] = Len(ocq[t]) + lost[t] + (IF h.signaled THEN 1 ELSE 0)
      /\ lost'[t] > 0 => lost[t] > 0 \/ (h.signaled /\ Len(ocq[t]) >= CqDepth)
      /\ ~h.signaled => ocq'[t] = ocq[t]
  <2>1. CASE h.signaled
    BY <1>1, <2>1, ReportFacts
  <2>2. CASE ~h.signaled
    <3>1. /\ ocq' = ocq /\ lost' = lost
          /\ silent' = [silent EXCEPT ![t] = [silent[t] EXCEPT ![n] = @ + 1]]
      BY <1>1, <2>2
    <3>2. silent'[t] = [silent[t] EXCEPT ![n] = @ + 1] /\ But(silent, silent', t)
      BY <1>2, <3>1 DEF TypeOK, But
    <3>3. silent'[t] \in [Node -> Nat]
      BY <1>2, <3>2 DEF ThreadType
    <3>4. But(ocq, ocq', t) /\ ocq'[t] \in Seq(Completion) /\ ocq'[t] = ocq[t]
      BY <1>2, <3>1 DEF TypeOK, ThreadType, But
    <3>5. But(lost, lost', t) /\ lost'[t] = lost[t] /\ lost[t] \in Nat
      BY <1>2, <3>1 DEF TypeOK, ThreadType, But
    <3>6. Len(ocq[t]) <= CqDepth
      BY <1>2 DEF ThreadInv, OwedOf
    <3> QED
      BY <1>2, <2>2, <3>2, <3>3, <3>4, <3>5, <3>6
  <2> QED
    BY <2>1, <2>2
<1>7. Only(t) /\ Shared'
  BY <1>1, <1>2, <1>3, <1>5, <1>6 DEF TypeOK, Shared, Only, But
<1>8. ThreadType(t)'
  BY <1>1, <1>2, <1>3, <1>5, <1>6 DEF ThreadType
<1>9. OwedOf(t)'
  <2> DEFINE l == Len(ocq[t])
             m == Len(ocq'[t])
             a == Cardinality(Signaled(t))
             b == Cardinality(Signaled(t)')
             r == refused[t]
             s == IF h.signaled THEN 1 ELSE 0
             x == lost[t]
             y == lost'[t]
  <2>1. Coming(t) = l + a + r + x /\ Coming(t)' = m + b + r + y
    BY <1>1 DEF Coming
  <2>2. /\ m + y = l + x + s /\ a = b + s /\ l \in Nat /\ m \in Nat /\ b \in Nat
        /\ r \in Nat /\ s \in Nat /\ x \in Nat /\ y \in Nat
    BY <1>2, <1>3, <1>6 DEF ThreadType
  <2>3. h.signaled => a >= 1
    BY <2>2
  <2> HIDE DEF l, m, a, b, r, s, x, y
  <2>4. Coming(t)' = Coming(t)
    BY <2>1, <2>2
  \* The request that completes was owed, besides all that fill the queue.
  <2>5. (\A k \in Node : up[t][k]) => (lost'[t] > 0 => crowded[t])
    <3> SUFFICES ASSUME \A k \in Node : up[t][k], lost'[t] > 0, ~(lost[t] > 0)
                 PROVE  owed[t] > CqDepth
      BY <1>2 DEF ThreadInv, CrowdOf, OwedOf
    <3>1. owed[t] = Coming(t)
      BY <1>2 DEF ThreadInv, OwedOf
    <3>2. a >= 1 /\ l >= CqDepth
      BY <1>6, <2>3 DEF l
    <3> QED
      BY <2>1, <2>2, <3>1, <3>2, CallsAssumption
  <2>6. /\ up'[t] = up[t] /\ owed'[t] = owed[t] /\ crowded'[t] = crowded[t]
        /\ IsFiniteSet(Signaled(t)') /\ Len(ocq'[t]) <= CqDepth
    BY <1>1, <1>3, <1>6
  <2>7. IF \A k \in Node : up[t][k] THEN owed[t] = Coming(t) ELSE owed[t] <= Coming(t)
    BY <1>2 DEF ThreadInv, OwedOf
  <2> QED
    BY <2>4, <2>5, <2>6, <2>7 DEF OwedOf
<1>10. WantOf(t)' /\ CrowdOf(t)'
  BY <1>1, <1>2 DEF ThreadInv, WantOf, CrowdOf
<1>11. SyncOf(t)'
  <2> SUFFICES ASSUME call[t].kind \in Kind, call[t].clean PROVE RequestsOf(t)' /\ DoneOf(t)'
    BY <1>1 DEF SyncOf
  <2>1. RequestsOf(t) /\ DoneOf(t) /\ call[t].buf \in Buffer
    BY <1>2, CallKinds DEF ThreadInv, SyncOf, ThreadType
  <2>2. h.id # posted[t] - 1 => ~h.signaled /\ h.buf # call[t].buf
    BY <1>3, <2>1 DEF RequestsOf
  <2>3. h.id # posted[t] - 1 => rbuf'[t][call[t].buf] = rbuf[t][call[t].buf]
    BY <1>5, <2>1, <2>2
  <2>4. RequestsOf(t)'
    BY <1>1, <1>3, <2>1, <2>3, LeaveRequests
  <2>5. CASE h.id = posted[t] - 1
    <3>1. Pending(t, h)
      BY <1>3, <2>1, <2>5 DEF RequestsOf
    <3>2. Done(t)'
      BY <1>1, <1>3, <1>5, <2>5, <3>1 DEF Pending, Done
    <3> QED
      BY <2>4, <3>2 DEF DoneOf
  <2>6. CASE h.id # posted[t] - 1
    <3>1. ocq'[t] = ocq[t]
      BY <1>6, <2>2, <2>6
    <3>2. Done(t) => Done(t)'
      BY <1>1, <1>3, <2>3, <2>6 DEF Done
    <3>3. DoneOf(t)'
      BY <1>1, <2>1, <3>1, <3>2 DEF DoneOf
    <3> QED
      BY <2>4, <3>3
  <2> QED
    BY <2>5, <2>6
<1>12. ThreadInv(t)'
  BY <1>3, <1>9, <1>10, <1>11 DEF ThreadInv
<1> QED
  BY <1>7, <1>8, <1>12, OneThread

\* A broken queue pair may only add completions that were not asked for.
LEMMA BreakInv ==
  ASSUME DsmInv, NEW t \in Thread, NEW n \in Node, Break(t, n)
  PROVE  DsmInv'
<1>1. /\ up' = [up EXCEPT ![t] = [up[t] EXCEPT ![n] = FALSE]]
      /\ UNCHANGED <<mem, alive, osq, silent, ocq, lost, rbuf, call, owed, refused, crowded,
                     posted, effect>>
  BY DEF Break
<1>2. TypeOK /\ ThreadType(t) /\ ThreadInv(t)
  BY Facts
<1>3. up'[t] = [up[t] EXCEPT ![n] = FALSE] /\ Only(t) /\ Shared'
  BY <1>1, <1>2 DEF TypeOK, Shared, Only, But
<1>4. up'[t] \in [Node -> BOOLEAN] /\ ~up'[t][n]
  BY <1>2, <1>3 DEF ThreadType
<1>5. ThreadType(t)'
  BY <1>1, <1>2, <1>4 DEF ThreadType
<1>6. Requests(t)' = Requests(t) /\ Signaled(t)' = Signaled(t)
  BY <1>1 DEF Requests, Signaled
<1>7. IdOf(t)' /\ WantOf(t)' /\ CrowdOf(t)'
  BY <1>1, <1>2, <1>6 DEF ThreadInv, IdOf, WantOf, CrowdOf, Distinct
<1>8. OwedOf(t)'
  <2>1. /\ Coming(t)' = Coming(t) /\ owed'[t] = owed[t] /\ IsFiniteSet(Signaled(t)')
        /\ Len(ocq'[t]) <= CqDepth
    BY <1>1, <1>2, <1>6 DEF ThreadInv, OwedOf, Coming
  <2>2. owed[t] <= Coming(t)
    <3>1. owed[t] \in Nat
      BY <1>2 DEF ThreadType
    <3>2. owed[t] = Coming(t) \/ owed[t] <= Coming(t)
      BY <1>2 DEF ThreadInv, OwedOf
    <3> QED
      BY <3>1, <3>2
  <2> QED
    BY <1>4, <2>1, <2>2 DEF OwedOf
<1>9. SyncOf(t)'
  <2>1. \A r : Pending(t, r)' <=> Pending(t, r)
    BY <1>1 DEF Pending
  <2>2. Done(t)' <=> Done(t)
    BY <1>1, <1>6 DEF Done
  <2> QED
    BY <1>1, <1>2, <1>6, <2>1, <2>2 DEF ThreadInv, SyncOf, RequestsOf, DoneOf
<1>10. ThreadInv(t)'
  BY <1>7, <1>8, <1>9 DEF ThreadInv
<1> QED
  BY <1>3, <1>5, <1>10, OneThread

\* These report an error, so that a _sync call polls no success for them.
LEMMA FlushInv ==
  ASSUME DsmInv, NEW t \in Thread, NEW n \in Node, Flush(t, n)
  PROVE  DsmInv'
<1> DEFINE h == Head(osq[t][n])
<1>1. /\ ~up[t][n] /\ osq[t][n] # << >>
      /\ osq' = [osq EXCEPT ![t][n] = Tail(@)] /\ Report(t, n, FALSE)
      /\ UNCHANGED <<mem, alive, up, rbuf, call, owed, refused, crowded, posted, effect>>
  BY DEF Flush
<1>2. /\ TypeOK /\ ThreadType(t) /\ ThreadInv(t) /\ Cardinality(Signaled(t)) \in Nat
      /\ Len(ocq[t]) \in Nat
  BY Facts
<1>3. /\ But(osq, osq', t) /\ osq'[t] \in Queues /\ IdOf(t)'
      /\ h \in Requests(t) /\ Requests(t)' = Requests(t) \ {h}
      /\ \A r \in Requests(t)' : r.id # h.id
      /\ IsFiniteSet(Signaled(t)') /\ Cardinality(Signaled(t)') \in Nat
      /\ Cardinality(Signaled(t)) = Cardinality(Signaled(t)') + (IF h.signaled THEN 1 ELSE 0)
  BY <1>1, LeaveFacts
<1> HIDE DEF h
<1>4. /\ But(ocq, ocq', t) /\ ocq'[t] \in Seq(Completion)
      /\ But(silent, silent', t) /\ silent'[t] \in [Node -> Nat]
      /\ But(lost, lost', t) /\ lost'[t] \in Nat
      /\ Len(ocq'[t]) \in Nat /\ Len(ocq'[t]) <= CqDepth
      /\ Len(ocq'[t]) + lost'[t] = Len(ocq[t]) + lost[t] + 1
      /\ \A c \in ToSet(ocq'[t]) : c.ok => c \in ToSet(ocq[t])
  BY <1>1, ReportFacts
<1>5. Only(t) /\ Shared'
  BY <1>1, <1>2, <1>3, <1>4 DEF TypeOK, Shared, Only, But
<1>6. ThreadType(t)'
  BY <1>1, <1>2, <1>3, <1>4 DEF ThreadType
<1>7. OwedOf(t)'
  <2> DEFINE l == Len(ocq[t])
             m == Len(ocq'[t])
             a == Cardinality(Signaled(t))
             b == Cardinality(Signaled(t)')
             r == refused[t]
             x == lost[t]
             y == lost'[t]
  <2>1. Coming(t) = l + a + r + x /\ Coming(t)' = m + b + r + y
    BY <1>1 DEF Coming
  <2>2. /\ m + y = l + x + 1 /\ (a = b \/ a = b + 1) /\ l \in Nat /\ m \in Nat
        /\ b \in Nat /\ r \in Nat /\ x \in Nat /\ y \in Nat
    BY <1>2, <1>3, <1>4 DEF ThreadType
  <2>3. owed[t] <= Coming(t) /\ owed[t] \in Nat
    BY <1>1, <1>2 DEF ThreadInv, OwedOf, ThreadType
  <2> HIDE DEF l, m, a, b, r, x, y
  <2>4. owed[t] <= Coming(t)'
    BY <2>1, <2>2, <2>3
  <2> QED
    BY <1>1, <1>3, <1>4, <2>4 DEF OwedOf
<1>8. WantOf(t)' /\ CrowdOf(t)'
  BY <1>1, <1>2 DEF ThreadInv, WantOf, CrowdOf
<1>9. SyncOf(t)'
  <2> SUFFICES ASSUME call[t].kind \in Kind, call[t].clean PROVE RequestsOf(t)' /\ DoneOf(t)'
    BY <1>1 DEF SyncOf
  <2>1. RequestsOf(t) /\ DoneOf(t)
    BY <1>2 DEF ThreadInv, SyncOf
  <2>2. RequestsOf(t)'
    BY <1>1, <1>3, <2>1, LeaveRequests
  <2>3. Done(t) => Done(t)'
    BY <1>1, <1>3 DEF Done
  <2>4. DoneOf(t)'
    BY <1>1, <1>4, <2>1, <2>3 DEF DoneOf
  <2> QED
    BY <2>2, <2>4
<1>10. ThreadInv(t)'
  BY <1>3, <1>7, <1>8, <1>9 DEF ThreadInv
<1> QED
  BY <1>5, <1>6, <1>10, OneThread

-----------------------------------------------------------------------------

\* Every step preserves DsmInv.
LEMMA NextDsmInv == DsmInv /\ [Next]_opVars => DsmInv'
<1> SUFFICES ASSUME DsmInv, [Next]_opVars PROVE DsmInv'
  OBVIOUS
<1>1. CASE Next
  <2>1. PICK t \in Thread :
          \/ \E op \in Calls[t] : (\E signal \in BOOLEAN : Async(t, op, signal)) \/ Sync(t, op)
          \/ \E count \in 1 .. MaxPosted[t] : PollRdmaCq(t, count)
          \/ Finish(t)
          \/ \E n \in Node : Transport(t, n) \/ Break(t, n)
    BY <1>1 DEF Next
  <2>2. Calls[t] \subseteq Op /\ \A count \in 1 .. MaxPosted[t] : count \in Nat
    BY CallsAssumption
  <2>3. CASE \E op \in Calls[t] : \E signal \in BOOLEAN : Async(t, op, signal)
    BY <2>2, <2>3, AsyncInv
  <2>4. CASE \E op \in Calls[t] : Sync(t, op)
    BY <2>2, <2>4, SyncCallInv
  <2>5. CASE \E count \in 1 .. MaxPosted[t] : PollRdmaCq(t, count)
    BY <2>2, <2>5, PollRdmaCqInv
  <2>6. CASE Finish(t)
    BY <2>6, PollWithCQInv, ReturnInv DEF Finish
  <2>7. CASE \E n \in Node : Transport(t, n) \/ Break(t, n)
    BY <2>7, ExecuteInv, CompleteInv, FlushInv, BreakInv DEF Transport
  <2> QED
    BY <2>1, <2>3, <2>4, <2>5, <2>6, <2>7
<1>2. CASE UNCHANGED opVars
  <2>1. ASSUME NEW t \in Thread PROVE ThreadInv(t)' /\ ThreadType(t)'
    <3>1. ThreadInv(t) /\ ThreadType(t)
      BY Facts
    <3>2. Requests(t)' = Requests(t) /\ Signaled(t)' = Signaled(t)
      BY <1>2 DEF opVars, Requests, Signaled
    <3>3. (\A r : Pending(t, r)' <=> Pending(t, r)) /\ (Done(t)' <=> Done(t))
      BY <1>2, <3>2 DEF opVars, Pending, Done
    <3> QED
      BY <1>2, <3>1, <3>2, <3>3 DEF opVars, ThreadInv, ThreadType, IdOf, WantOf, CrowdOf, OwedOf,
         SyncOf, Distinct, Coming, RequestsOf, DoneOf
  <2>2. TypeOK'
    BY <1>2 DEF opVars, DsmInv, TypeOK
  <2>3. IdInv'
    BY <2>1 DEF ThreadInv, IdInv, IdOf, Distinct
  <2>4. OwedInv' /\ CompletionsOwed'
    BY <2>1 DEF ThreadInv, OwedInv, CompletionsOwed, WantOf, CrowdOf, OwedOf, Coming
  <2>5. SyncInv'
    BY <2>1 DEF ThreadInv, SyncInv, SyncOf, RequestsOf, DoneOf
  <2> QED
    BY <2>2, <2>3, <2>4, <2>5 DEF DsmInv
<1> QED
  BY <1>1, <1>2

\* The requests of a thread are told apart by their ids, and while a _sync call
\* of a drained caller is under way, no other of them asks for a completion or
\* uses its buffer (DSM.cpp, the _sync operations and poll_rdma_cq).
THEOREM DsmInvariance == Spec => []DsmInv
<1>1. Init => DsmInv
  BY InitDsmInv
<1>2. DsmInv /\ [Next]_opVars => DsmInv'
  BY NextDsmInv
<1> QED
  BY <1>1, <1>2, PTL DEF Spec

\* Every completion a thread waits for is in its queue, or under way, or was refused
\* with its request or lost to the full completion queue, whichever queue pairs fail;
\* none is lost to a thread that never waited for more than the queue holds, unless
\* a queue pair failed.
THEOREM CompletionsConserved == Spec => []CompletionsOwed
<1>1. DsmInv => CompletionsOwed
  BY DEF DsmInv
<1> QED
  BY <1>1, DsmInvariance, PTL

\* A _sync call that a drained caller sees succeed has taken effect, with its own
\* operands and its own result, though it polled a queue it shares with every
\* other operation of its thread.
THEOREM SyncTakesEffect == Spec => SyncAtomic
<1> DEFINE A == \A t \in Thread :
       LET c == call[t] IN
       (c.kind \in Kind /\ call'[t] = Idle /\ c.clean /\ c.ok) =>
         /\ effect[t] # None
         /\ c.kind = "write" => effect[t].new = WriteVal
         /\ Fetches(c.kind) => rbuf[t][c.buf] = effect[t].old
         /\ c.kind = "cas" => (Swapped(t) <=> effect[t].old = CasEqual)
<1>1. DsmInv /\ [Next]_opVars => [A]_opVars
  <2> SUFFICES ASSUME DsmInv, Next, NEW t \in Thread,
                      call[t].kind \in Kind, call'[t] = Idle, call[t].clean, call[t].ok
               PROVE  /\ effect[t] # None
                      /\ call[t].kind = "write" => effect[t].new = WriteVal
                      /\ Fetches(call[t].kind) => rbuf[t][call[t].buf] = effect[t].old
                      /\ call[t].kind = "cas" => (Swapped(t) <=> effect[t].old = CasEqual)
    OBVIOUS
  <2>1. TypeOK /\ ThreadType(t) /\ ThreadInv(t)
    BY Facts
  <2>2. call[t] # Idle
    BY <2>1, CallKinds DEF ThreadType
  \* Only the return ends a call.
  <2>3. Return(t)
    <3>1. PICK s \in Thread :
            \/ \E op \in Calls[s] : (\E signal \in BOOLEAN : Async(s, op, signal)) \/ Sync(s, op)
            \/ \E count \in 1 .. MaxPosted[s] : PollRdmaCq(s, count)
            \/ Finish(s)
            \/ \E n \in Node : Transport(s, n) \/ Break(s, n)
      BY DEF Next
    <3>2. call' # call
      BY <2>2
    <3>3. \/ \E op \in Calls[s] : Sync(s, op)
          \/ \E count \in 1 .. MaxPosted[s] : PollRdmaCq(s, count)
          \/ PollWithCQ(s) \/ Return(s)
      BY <3>1, <3>2 DEF Async, Finish, Transport, Execute, Complete, Flush, Break
    <3>4. \/ call[s] = Idle /\ \A u \in Thread \ {s} : call'[u] = call[u]
          \/ PollWithCQ(s) \/ Return(s)
      BY <2>1, <3>3 DEF Sync, PollRdmaCq, TypeOK
    <3>5. PollWithCQ(s) => s # t
      <4> SUFFICES ASSUME PollWithCQ(t) PROVE FALSE
        OBVIOUS
      <4>1. /\ call[t].want > 0 /\ ocq[t] # << >>
            /\ call' = [call EXCEPT ![t] = Polled(call[t], call[t].want - 1, Head(ocq[t]).ok)]
        BY DEF PollWithCQ, Polled
      <4>2. call[t].want - 1 \in Nat /\ Head(ocq[t]).ok \in BOOLEAN
        <5>1. call[t].want \in Nat
          BY <2>1, <2>2, CallKinds DEF ThreadType
        <5>2. Head(ocq[t]) \in Completion
          BY <2>1, <4>1 DEF ThreadType
        <5> QED
          BY <4>1, <5>1, <5>2 DEF Completion
      <4>3. call'[t] = Polled(call[t], call[t].want - 1, Head(ocq[t]).ok)
        BY <2>1, <4>1 DEF TypeOK
      <4>4. call'[t].kind = call[t].kind
        BY <2>1, <2>2, <4>2, <4>3, CallPolls DEF ThreadType
      <4> QED
        BY <4>4 DEF Idle, Kind
    <3>6. (PollWithCQ(s) \/ Return(s)) => \A u \in Thread \ {s} : call'[u] = call[u]
      BY <2>1 DEF PollWithCQ, Return, TypeOK
    <3> QED
      BY <2>2, <3>4, <3>5, <3>6
  <2>4. call[t].want = 0
    BY <2>3 DEF Return
  <2>5. Done(t)
    BY <2>1, <2>4 DEF ThreadInv, SyncOf, DoneOf
  <2>6. call[t].kind = "cas" => Fetches(call[t].kind)
    BY DEF Fetches
  <2> QED
    BY <2>5, <2>6 DEF Done, Swapped
<1> HIDE DEF A
<1>2. Spec => [][A]_opVars
  BY <1>1, DsmInvariance, PTL DEF Spec
<1> QED
  BY <1>2 DEF SyncAtomic, A
=============================================================================
