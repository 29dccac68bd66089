------------------------------- MODULE DsmOps -------------------------------
(***************************************************************************)
(* The one-sided operations of DSM: read, write, cas and faa on one word   *)
(* of the memory of each node, and send, which leaves that memory alone.   *)
(*                                                                         *)
(* A thread has a reliable queue pair for each node and one completion     *)
(* queue for all of them, which has fewer entries than their send queues   *)
(* have places.  An asynchronous operation is only posted; its completion, *)
(* if it asks for one, stays in the queue until poll_rdma_cq, or is lost   *)
(* if the queue has no room.                                               *)
(* The _sync operations post, poll ONE completion and return, whatever it  *)
(* belonged to, and do not look at the status pollWithCQ reports.          *)
(***************************************************************************)
EXTENDS Integers, SequencesExt

CONSTANTS
  Thread, Node,                      \* Node: the machines, with one process each
  Home,                              \* the node of each thread
  Buffer,                            \* the places operations fetch to and write from
  WordCnt,                           \* a word of memory is kept modulo WordCnt
  WriteVal, CasEqual, CasVal, Add,   \* the arguments operations are called with
  SqDepth,                           \* places of the send queue of a queue pair
  CqDepth,                           \* entries of a completion queue: RPC_QUEUE_SIZE
  Calls,                             \* bound: the operations each thread calls
  MaxPosted,                         \* bound: how many each thread posts
  Fragile                            \* bound: the queue pairs that may fail

Word == 0 .. WordCnt - 1

Kind == {"read", "write", "cas", "faa", "send"}
Op   == [kind : Kind, node : Node, buf : Buffer]

ASSUME WordAssumption ==
  WordCnt \in Nat \ {0} /\ {WriteVal, CasEqual, CasVal, Add} \subseteq Word
ASSUME CallsAssumption ==
  /\ Calls \in [Thread -> SUBSET Op] /\ MaxPosted \in [Thread -> Nat]
  /\ Home \in [Thread -> Node] /\ Fragile \subseteq Thread \X Node
  /\ SqDepth \in Nat \ {0} /\ CqDepth \in Nat \ {0}

VARIABLES
  mem,     \* the word of each node
  alive,   \* the process of each node runs
  osq,     \* work requests of each thread for each node that have not completed
  silent,  \* how many have completed since the last completion, unreported
  up,      \* the queue pair works
  ocq,     \* completion queue of each thread: [ok |-> status, node |-> whose, places
           \* |-> how many places of the send queue are free when it is polled]
  lost,    \* completions that found the queue full
  rbuf,    \* the buffers of each thread
  call,    \* the call of DSM each thread is in
  \* Kept for the properties only:
  owed,    \* completions it has asked for and not polled
  refused, \* completions it has asked for with a post that was refused
  crowded, \* it has owed more completions at once than the queue has entries
  posted,  \* operations it has posted
  effect   \* the word before and after the operation of its _sync call took effect

opVars == <<mem, alive, osq, silent, up, ocq, lost, rbuf, call, owed, refused, crowded,
            posted, effect>>

Idle == [kind |-> "idle"]
None == [old |-> -1, new |-> -1]

Requests(t)   == UNION {ToSet(osq[t][n]) : n \in Node}
Signaled(t)   == {wr \in Requests(t) : wr.signaled}
Fetches(kind) == kind \in {"read", "cas", "faa"}
Running(t)    == alive[Home[t]]

\* The places taken in a send queue: a request keeps its own until a completion
\* at or behind it is polled.
Used(t, n) ==
  LET polling == SelectSeq(ocq[t], LAMBDA c : c.node = n) IN
  Len(osq[t][n]) + silent[t][n] + FoldLeft(LAMBDA sum, c : sum + c.places, 0, polling)

\* What an operation that finds v leaves there.
NewWord(kind, v, source) ==
  CASE kind = "write" -> source
    [] kind = "cas"   -> IF v = CasEqual THEN CasVal ELSE v
    [] kind = "faa"   -> (v + Add) % WordCnt
    [] OTHER          -> v

Init ==
  /\ mem = [n \in Node |-> 0]
  /\ alive = [n \in Node |-> TRUE]
  /\ osq = [t \in Thread |-> [n \in Node |-> << >>]]
  /\ silent = [t \in Thread |-> [n \in Node |-> 0]]
  /\ up = [t \in Thread |-> [n \in Node |-> TRUE]]
  /\ ocq = [t \in Thread |-> << >>]
  /\ lost = [t \in Thread |-> 0]
  /\ rbuf = [t \in Thread |-> [b \in Buffer |-> 0]]
  /\ call = [t \in Thread |-> Idle]
  /\ owed = [t \in Thread |-> 0]
  /\ refused = [t \in Thread |-> 0]
  /\ crowded = [t \in Thread |-> FALSE]
  /\ posted = [t \in Thread |-> 0]
  /\ effect = [t \in Thread |-> None]

-----------------------------------------------------------------------------
(***************************************************************************)
(* The threads.                                                            *)
(***************************************************************************)

Request(t, op, signaled) ==
  [kind |-> op.kind, buf |-> op.buf, signaled |-> signaled, id |-> posted[t], old |-> None.old]

\* ibv_post_send refuses the request when the send queue is full.  A read, an
\* atomic or a send is then dropped, and DSM does not look; a write ends the process.
Enqueue(t, op, wr) ==
  IF Used(t, op.node) < SqDepth
  THEN /\ osq' = [osq EXCEPT ![t][op.node] = Append(@, wr)]
       /\ UNCHANGED <<refused, alive>>
  ELSE /\ refused' = [refused EXCEPT ![t] = @ + (IF wr.signaled THEN 1 ELSE 0)]
       /\ alive' = IF op.kind = "write" THEN [alive EXCEPT ![Home[t]] = FALSE] ELSE alive
       /\ UNCHANGED osq

\* The caller now waits for that many completions.
Owe(t, count) ==
  /\ owed' = [owed EXCEPT ![t] = @ + count]
  /\ crowded' = [crowded EXCEPT ![t] = @ \/ owed[t] + count > CqDepth]

\* Seeded fault: a cas never asks for a completion.
PostAtomicUnsignaled(t, op, signal) ==
  /\ posted[t] < MaxPosted[t]
  /\ posted' = [posted EXCEPT ![t] = @ + 1]
  /\ Enqueue(t, op, Request(t, op, signal /\ op.kind # "cas"))
  /\ rbuf' = IF op.kind = "write" THEN [rbuf EXCEPT ![t][op.buf] = WriteVal] ELSE rbuf
  /\ Owe(t, IF signal THEN 1 ELSE 0)

\* rdmaRead, rdmaWrite, rdmaCompareAndSwap, rdmaFetchAndAdd and rdmaSend fill a
\* work request and post it.  The caller has put what it writes into its buffer;
\* the buffers of operations that only fetch keep what they held.
Post(t, op, signal) ==
  /\ posted[t] < MaxPosted[t]
  /\ posted' = [posted EXCEPT ![t] = @ + 1]
  /\ Enqueue(t, op, Request(t, op, signal))
  /\ rbuf' = IF op.kind = "write" THEN [rbuf EXCEPT ![t][op.buf] = WriteVal] ELSE rbuf
  /\ Owe(t, IF signal THEN 1 ELSE 0)

\* read, write, cas, faa, send.
Async(t, op, signal) ==
  /\ Running(t) /\ call[t] = Idle
  /\ Post(t, op, signal)
  /\ UNCHANGED <<mem, silent, up, ocq, lost, call, effect>>

\* Whether the caller has polled every completion it asked for, uses no buffer of
\* an operation under way, and has seen no queue pair fail.
Drained(t, op) ==
  /\ owed[t] = 0
  /\ \A wr \in Requests(t) : wr.buf # op.buf
  /\ \A n \in Node : up[t][n]

\* The _sync operations up to their poll.
Sync(t, op) ==
  /\ Running(t) /\ call[t] = Idle
  /\ Post(t, op, TRUE)
  /\ call' = [call EXCEPT ![t] = [kind |-> op.kind, buf |-> op.buf, want |-> 1,
                                  ok |-> TRUE, clean |-> Drained(t, op)]]
  /\ UNCHANGED <<mem, silent, up, ocq, lost, effect>>

\* Seeded fault: the loop of pollWithCQ goes on until count exceeds pollNumber.
PollRdmaCqOneMore(t, count) ==
  /\ Running(t) /\ call[t] = Idle
  /\ count \in 1 .. owed[t]
  /\ call' = [call EXCEPT ![t] = [kind |-> "poll", want |-> count + 1, ok |-> TRUE]]
  /\ UNCHANGED <<mem, alive, osq, silent, up, ocq, lost, rbuf, owed, refused, crowded, posted,
                 effect>>

\* poll_rdma_cq, called for completions the caller has asked for.
PollRdmaCq(t, count) ==
  /\ Running(t) /\ call[t] = Idle
  /\ count \in 1 .. owed[t]
  /\ call' = [call EXCEPT ![t] = [kind |-> "poll", want |-> count, ok |-> TRUE]]
  /\ UNCHANGED <<mem, alive, osq, silent, up, ocq, lost, rbuf, owed, refused, crowded, posted,
                 effect>>

\* Seeded fault: the queue is polled once, and an empty queue counts as done.
PollOnce(t) ==
  /\ Running(t) /\ call[t] # Idle /\ call[t].want > 0
  /\ ocq' = [ocq EXCEPT ![t] = IF @ = << >> THEN @ ELSE Tail(@)]
  /\ call' = [call EXCEPT ![t].want = @ - 1]
  /\ owed' = [owed EXCEPT ![t] = @ - 1]
  /\ UNCHANGED <<mem, alive, osq, silent, up, lost, rbuf, refused, crowded, posted, effect>>

\* One round of pollWithCQ that finds a completion; only the status of the last
\* one it polls is reported.
PollWithCQ(t) ==
  /\ Running(t) /\ call[t] # Idle /\ call[t].want > 0
  /\ ocq[t] # << >>
  /\ ocq' = [ocq EXCEPT ![t] = Tail(@)]
  /\ call' = [call EXCEPT ![t].want = @ - 1, ![t].ok = Head(ocq[t]).ok]
  /\ owed' = [owed EXCEPT ![t] = @ - 1]
  /\ UNCHANGED <<mem, alive, osq, silent, up, lost, rbuf, refused, crowded, posted, effect>>

\* What cas_sync returns: the comparison of what is in its buffer by then.
Swapped(t) == rbuf[t][call[t].buf] = CasEqual

\* The call returns.
Return(t) ==
  /\ Running(t) /\ call[t] # Idle /\ call[t].want = 0
  /\ call' = [call EXCEPT ![t] = Idle]
  /\ effect' = [effect EXCEPT ![t] = None]
  /\ UNCHANGED <<mem, alive, osq, silent, up, ocq, lost, rbuf, owed, refused, crowded, posted>>

Finish(t) == PollWithCQ(t) \/ Return(t)

-----------------------------------------------------------------------------
(***************************************************************************)
(* The reliable transport.                                                 *)
(***************************************************************************)

\* The next request of a queue pair takes effect at its node, in order, if only
\* after the process that posted it has ended.  What is written is what the buffer
\* holds by then.
Execute(t, n) ==
  LET i  == SelectInSeq(osq[t][n], LAMBDA r : r.old = None.old)
      wr == osq[t][n][i]
      new == NewWord(wr.kind, mem[n], rbuf[t][wr.buf])
  IN /\ alive[n] /\ up[t][n] /\ i > 0
     /\ osq' = [osq EXCEPT ![t][n][i].old = mem[n]]
     /\ mem' = [mem EXCEPT ![n] = new]
     /\ effect' = IF wr.id = posted[t] - 1 /\ call[t].kind \in Kind
                  THEN [effect EXCEPT ![t] = [old |-> mem[n], new |-> new]] ELSE effect
     /\ UNCHANGED <<alive, silent, up, ocq, lost, rbuf, call, owed, refused, crowded, posted>>

\* A completion, which accounts for all requests up to its own.  It is lost if the
\* queue is full, and an overrun queue takes no more.
Report(t, n, ok) ==
  IF Len(ocq[t]) < CqDepth /\ lost[t] = 0
  THEN /\ ocq' = [ocq EXCEPT ![t] = Append(@, [ok |-> ok, node |-> n,
                                               places |-> silent[t][n] + 1])]
       /\ silent' = [silent EXCEPT ![t][n] = 0]
       /\ UNCHANGED lost
  ELSE /\ lost' = [lost EXCEPT ![t] = @ + 1]
       /\ silent' = [silent EXCEPT ![t][n] = @ + 1]
       /\ UNCHANGED ocq

\* Its answer arrives: the fetched word goes to the buffer, and then there is a
\* completion if one was asked for.
Complete(t, n) ==
  LET wr == Head(osq[t][n])
  IN /\ Running(t) /\ up[t][n] /\ osq[t][n] # << >> /\ wr.old # None.old
     /\ osq' = [osq EXCEPT ![t][n] = Tail(@)]
     /\ rbuf' = IF Fetches(wr.kind) THEN [rbuf EXCEPT ![t][wr.buf] = wr.old] ELSE rbuf
     /\ IF wr.signaled
        THEN Report(t, n, TRUE)
        ELSE silent' = [silent EXCEPT ![t][n] = @ + 1] /\ UNCHANGED <<ocq, lost>>
     /\ UNCHANGED <<mem, alive, up, call, owed, refused, crowded, posted, effect>>

\* The queue pair goes to the error state: the peer stops answering, or the overrun
\* of its completion queue stops it.
Break(t, n) ==
  /\ Running(t) /\ up[t][n]
  /\ <<t, n>> \in Fragile \/ ~alive[n] \/ lost[t] > 0
  /\ up' = [up EXCEPT ![t][n] = FALSE]
  /\ UNCHANGED <<mem, alive, osq, silent, ocq, lost, rbuf, call, owed, refused, crowded, posted,
                 effect>>

\* A request of a broken queue pair completes with an error, asked for or not.
Flush(t, n) ==
  /\ Running(t) /\ ~up[t][n] /\ osq[t][n] # << >>
  /\ osq' = [osq EXCEPT ![t][n] = Tail(@)]
  /\ Report(t, n, FALSE)
  /\ UNCHANGED <<mem, alive, up, rbuf, call, owed, refused, crowded, posted, effect>>

\* The transport serves a request, or gives up on a node whose process has ended.
Transport(t, n) ==
  Execute(t, n) \/ Complete(t, n) \/ Flush(t, n) \/ (~alive[n] /\ Break(t, n))

Next ==
  \E t \in Thread :
    \/ \E op \in Calls[t] : (\E signal \in BOOLEAN : Async(t, op, signal)) \/ Sync(t, op)
    \/ \E count \in 1 .. MaxPosted[t] : PollRdmaCq(t, count)
    \/ Finish(t)
    \/ \E n \in Node : Transport(t, n) \/ Break(t, n)

\* A thread in a call polls on, and the transport delivers or gives up.
Fairness == \A t \in Thread :
  WF_opVars(Finish(t)) /\ \A n \in Node : WF_opVars(Transport(t, n))

Spec     == Init /\ [][Next]_opVars
FairSpec == Spec /\ Fairness

-----------------------------------------------------------------------------
(***************************************************************************)
(* Properties.                                                             *)
(***************************************************************************)

\* A _sync call of a caller that has drained its completions, if its poll reports
\* success, has taken effect when it returns, with the value written that was in
\* the buffer at the call; what it fetched is in the buffer, and cas_sync tells
\* whether the word was swapped.  The poll may then have taken no other
\* operation's completion, though all share the queue.
SyncAtomic ==
  [][\A t \in Thread :
       LET c == call[t] IN
       (c.kind \in Kind /\ call'[t] = Idle /\ c.clean /\ c.ok) =>
         /\ effect[t] # None
         /\ c.kind = "write" => effect[t].new = WriteVal
         /\ Fetches(c.kind) => rbuf[t][c.buf] = effect[t].old
         /\ c.kind = "cas" => (Swapped(t) <=> effect[t].old = CasEqual)]_opVars

\* No completion is invented or forgotten: what a thread has asked for and not
\* polled is in its queue, or comes from a request under way, or was asked for with
\* a request the full send queue refused, or was lost to a full completion queue;
\* the last two never come.  A queue is overrun only if its thread has owed more
\* than it holds, or a queue pair has failed.  Errors may only add to what is owed.
CompletionsOwed ==
  \A t \in Thread :
    LET coming == Len(ocq[t]) + Cardinality(Signaled(t)) + refused[t] + lost[t] IN
    /\ Len(ocq[t]) <= CqDepth
    /\ IF \A n \in Node : up[t][n]
       THEN owed[t] = coming /\ (lost[t] > 0 => crowded[t])
       ELSE owed[t] <= coming

\* Every call returns, if only with an error, even when a _sync call before it
\* took a completion that was not its own; all but those of a process that has
\* ended, or of a thread that was refused a signaled request or lost a completion,
\* for which it may poll without end.
CallsReturn ==
  \A t \in Thread :
    call[t] # Idle ~>
      (call[t] = Idle \/ refused[t] > 0 \/ lost[t] > 0 \/ ~Running(t))
=============================================================================
