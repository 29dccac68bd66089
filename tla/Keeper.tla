------------------------------- MODULE Keeper -------------------------------
(***************************************************************************)
(* How the machines of a run find and connect each other: the constructor  *)
(* of DSM with Keeper and DSMKeeper, through a memcached server.           *)
(*                                                                         *)
(* A process takes a node id by incrementing serverNum, then polls that    *)
(* counter and exchanges with every other id it covers, in increasing      *)
(* order, a record of its queue pairs: it stores its own under "me-peer"   *)
(* and waits for "peer-me".  It connects its queue pairs for the peer from *)
(* what it reads, last of all those to itself, and goes through the        *)
(* barrier "DSM-init".  With them it saves what its operations and its     *)
(* messages need of the peer.                                              *)
(*                                                                         *)
(* Between a thread of one node and a directory of another (or the same)   *)
(* there are two queue pairs, the thread's and the directory's, which have *)
(* to be connected to each other.                                          *)
(***************************************************************************)
EXTENDS Integers, FiniteSets

CONSTANTS
  Process,        \* the processes that are started
  Clients,        \* those started as NodeType::CLIENT
  ServerCnt,      \* cluster_info.server_cnt: ids below it belong to servers
  MaxNetThread,   \* config::kMaxNetThread
  NrDirectory     \* NR_DIRECTORY

ASSUME ProcessAssumption ==
  /\ IsFiniteSet(Process) /\ Process # {}
  /\ Clients \subseteq Process
  /\ ServerCnt = Cardinality(Process \ Clients)
ASSUME ThreadAssumption ==
  MaxNetThread \in Nat \ {0} /\ NrDirectory \in Nat \ {0}

MachineCnt == Cardinality(Process)
Node       == 0 .. MachineCnt - 1
NoNode     == MachineCnt
NetThread  == 0 .. MaxNetThread - 1
Directory  == 0 .. NrDirectory - 1

VARIABLES
  kpc,        \* where each process is
  myNodeID,   \* its node id
  curServer,  \* ids below it have been handled
  seen,       \* its copy of serverNum
  peer,       \* loop variable k of serverConnect
  localMeta,  \* the record of queue pairs it hands out
  qp,         \* state and destination of every queue pair
  remoteCon,  \* of every node, by peer: the node whose memory, keys, UD queue
              \* pairs and address are saved
  serverNum,  \* in memcached: ids given out
  stored,     \* in memcached: the record of i for j, under the key "i-j"
  bpc, created, counter  \* the barrier, see module Barrier

procVars    == <<kpc, myNodeID, curServer, seen, peer, localMeta>>
storeVars   == <<serverNum, stored>>
meetingVars == <<bpc, created, counter>>
linkVars    == <<qp, remoteCon>>
keeperVars  == <<procVars, linkVars, storeVars, meetingVars>>

Meeting == INSTANCE Barrier WITH
  Caller <- Process, Creator <- {}, Expected <- MachineCnt

-----------------------------------------------------------------------------
(***************************************************************************)
(* Queue pairs.                                                            *)
(***************************************************************************)

\* RCMapping: the directory every thread is served by.
TargetDir(node, thread) == (node * MaxNetThread + thread) % NrDirectory

\* ThreadConnection and DirectoryConnection create one queue pair for each
\* thread and its directory, on the side of the thread and of the directory.
QP == [side : {"app", "dir"}, node : Node, peer : Node, thread : NetThread, dir : Directory]

Exists(q) ==
  q.dir = TargetDir(IF q.side = "app" THEN q.node ELSE q.peer, q.thread)

QueuePair == {q \in QP : Exists(q)}
NoQP      == [side |-> "none"]

AppQP(n, t, d, r) == [side |-> "app", node |-> n, peer |-> r, thread |-> t, dir |-> d]
DirQP(n, t, d, r) == [side |-> "dir", node |-> n, peer |-> r, thread |-> t, dir |-> d]
Number(q)         == IF Exists(q) THEN q ELSE NoQP

\* createQueuePair leaves it in the reset state, connected to nothing.
NewQP == [state |-> "reset", dest |-> NoQP]

\* ibv_modify_qp refuses a transition from any state but the one before; the
\* callers do not look.
ModifyQPtoInit(s) == IF s.state = "reset" THEN [s EXCEPT !.state = "init"] ELSE s
ModifyQPtoRTR(s, dest) ==
  IF s.state = "init" THEN [state |-> "rtr", dest |-> dest] ELSE s
ModifyQPtoRTS(s) == IF s.state = "rtr" THEN [s EXCEPT !.state = "rts"] ELSE s

Connect(s, dest) == ModifyQPtoRTS(ModifyQPtoRTR(ModifyQPtoInit(s), dest))

\* Seeded fault: the numbers of the queue pairs for the node itself are handed out.
SetDataToRemoteOwn(n, r) ==
  [app |-> [t \in NetThread |-> [d \in Directory |-> Number(AppQP(n, t, d, n))]],
   dir |-> [d \in Directory |-> [t \in NetThread |-> Number(DirQP(n, t, d, n))]],
   own |-> n]

\* setDataToRemote: the numbers of the queue pairs node n has for r, in a record
\* that names n itself (initLocalMeta): its memory, keys, UD queue pairs, address.
SetDataToRemote(n, r) ==
  [app |-> [t \in NetThread |-> [d \in Directory |-> Number(AppQP(n, t, d, r))]],
   dir |-> [d \in Directory |-> [t \in NetThread |-> Number(DirQP(n, t, d, r))]],
   own |-> n]

\* setDataFromRemote: node n connects its queue pairs for r, a directory's to
\* the thread's and a thread's to the directory's, and saves the rest.
SetDataFromRemote(n, r, meta) ==
  /\ qp' = [q \in QueuePair |->
              IF q.node # n \/ q.peer # r THEN qp[q]
              ELSE Connect(qp[q], IF q.side = "dir" THEN meta.app[q.thread][q.dir]
                                                    ELSE meta.dir[q.dir][q.thread])]
  /\ remoteCon' = [remoteCon EXCEPT ![n][r] = meta.own]

NoRecord == [app |-> << >>]

-----------------------------------------------------------------------------

Init ==
  /\ kpc = [p \in Process |-> "enter"]
  /\ myNodeID = [p \in Process |-> NoNode]
  /\ curServer = [p \in Process |-> 0]
  /\ seen = [p \in Process |-> 0]
  /\ peer = [p \in Process |-> 0]
  /\ localMeta = [p \in Process |-> NoRecord]
  /\ qp = [q \in QueuePair |-> NewQP]
  /\ remoteCon = [n \in Node |-> [r \in Node |-> NoNode]]
  /\ serverNum = 0
  /\ stored = [i \in Node |-> [j \in Node |-> NoRecord]]
  /\ Meeting!Init

\* connectMemcached fails (no memcached.conf, no such server): the constructor
\* returns without an id, and the process never gets through to the others.
ConnectMemcachedFails(p) ==
  /\ kpc[p] = "enter"
  /\ kpc' = [kpc EXCEPT ![p] = "lost"]
  /\ UNCHANGED <<myNodeID, curServer, seen, peer, localMeta, linkVars, storeVars, meetingVars>>

\* serverEnter, and the check a client makes of the id it was given.
ServerEnter(p) ==
  /\ kpc[p] = "enter"
  /\ serverNum' = serverNum + 1
  /\ myNodeID' = [myNodeID EXCEPT ![p] = serverNum]
  /\ kpc' = [kpc EXCEPT ![p] = IF p \in Clients /\ serverNum < ServerCnt
                               THEN "exited" ELSE "poll"]
  /\ UNCHANGED <<curServer, seen, peer, localMeta, linkVars, stored, meetingVars>>

\* The first id from k on that is not the process's own.
NotMe(p, k) == IF k = myNodeID[p] THEN k + 1 ELSE k

\* Seeded fault: the loop runs only once.
MoveOnOnce(p, k, limit) ==
  IF k < limit
  THEN /\ kpc' = [kpc EXCEPT ![p] = "set"]
       /\ peer' = [peer EXCEPT ![p] = k]
       /\ UNCHANGED curServer
  ELSE /\ kpc' = [kpc EXCEPT ![p] = "self"]
       /\ curServer' = [curServer EXCEPT ![p] = limit]
       /\ UNCHANGED peer

\* The loop of serverConnect moves on to id k, to the next poll of serverNum
\* when it has handled those below its copy, or out when there are no more.
MoveOn(p, k, limit) ==
  IF k < limit
  THEN /\ kpc' = [kpc EXCEPT ![p] = "set"]
       /\ peer' = [peer EXCEPT ![p] = k]
       /\ UNCHANGED curServer
  ELSE /\ kpc' = [kpc EXCEPT ![p] = IF limit < MachineCnt THEN "poll" ELSE "self"]
       /\ curServer' = [curServer EXCEPT ![p] = limit]
       /\ UNCHANGED peer

\* A poll of serverNum that finds new nodes.
PollServerNum(p) ==
  /\ kpc[p] = "poll"
  /\ serverNum > curServer[p]
  /\ seen' = [seen EXCEPT ![p] = serverNum]
  /\ MoveOn(p, NotMe(p, curServer[p]), serverNum)
  /\ UNCHANGED <<myNodeID, localMeta, linkVars, storeVars, meetingVars>>

\* connectNode up to its memSet.
StoreRecord(p) ==
  /\ kpc[p] = "set"
  /\ localMeta' = [localMeta EXCEPT ![p] = SetDataToRemote(myNodeID[p], peer[p])]
  /\ stored' = [stored EXCEPT ![myNodeID[p]][peer[p]] = localMeta'[p]]
  /\ kpc' = [kpc EXCEPT ![p] = "get"]
  /\ UNCHANGED <<myNodeID, curServer, seen, peer, linkVars, serverNum, meetingVars>>

\* The memGet of connectNode, which waits for the peer's record, and the rest.
FetchRecord(p) ==
  /\ kpc[p] = "get"
  /\ stored[peer[p]][myNodeID[p]] # NoRecord
  /\ SetDataFromRemote(myNodeID[p], peer[p], stored[peer[p]][myNodeID[p]])
  /\ MoveOn(p, NotMe(p, peer[p] + 1), seen[p])
  /\ UNCHANGED <<myNodeID, seen, localMeta, storeVars, meetingVars>>

\* Seeded fault: a process does not connect to itself.
ConnectMySelfForgotten(p) ==
  /\ kpc[p] = "self"
  /\ localMeta' = [localMeta EXCEPT ![p] = SetDataToRemote(myNodeID[p], myNodeID[p])]
  /\ kpc' = [kpc EXCEPT ![p] = "connected"]
  /\ UNCHANGED <<myNodeID, curServer, seen, peer, linkVars, storeVars, meetingVars>>

ConnectMySelf(p) ==
  /\ kpc[p] = "self"
  /\ localMeta' = [localMeta EXCEPT ![p] = SetDataToRemote(myNodeID[p], myNodeID[p])]
  /\ SetDataFromRemote(myNodeID[p], myNodeID[p], localMeta'[p])
  /\ kpc' = [kpc EXCEPT ![p] = "connected"]
  /\ UNCHANGED <<myNodeID, curServer, seen, peer, storeVars, meetingVars>>

\* barrier("DSM-init", machine_cnt)
MeetAll(p) ==
  /\ kpc[p] = "connected"
  /\ \/ Meeting!Call(p, myNodeID[p] = MachineCnt - 1)
     \/ Meeting!Inside(p)
  /\ UNCHANGED <<procVars, linkVars, storeVars>>

Start(p) == \/ ConnectMemcachedFails(p) \/ ServerEnter(p) \/ PollServerNum(p)
            \/ StoreRecord(p) \/ FetchRecord(p) \/ ConnectMySelf(p) \/ MeetAll(p)

Next == \E p \in Process : Start(p)

\* Every process runs, and retries what failed.
Fairness == \A p \in Process : WF_keeperVars(Start(p))

Spec     == Init /\ [][Next]_keeperVars
FairSpec == Spec /\ Fairness

-----------------------------------------------------------------------------
(***************************************************************************)
(* Properties.                                                             *)
(***************************************************************************)

\* The queue pair at the other end.
Mirror(q) == [q EXCEPT !.side = IF q.side = "app" THEN "dir" ELSE "app",
                       !.node = q.peer, !.peer = q.node]

Ready(q) == qp[q] = [state |-> "rts", dest |-> Mirror(q)]

\* A queue pair is untouched or ready, and then connected to the one made for
\* it at the other end (the two asserts of setDataFromRemote hold).
QpsPaired ==
  \A q \in QueuePair : qp[q] = NewQP \/ Ready(q)

Up(p) == bpc[p] = "left"

\* Once a process is through its constructor and may send, every queue pair of
\* every node is ready, those at the other ends too, and every node has saved of
\* every node what it published, not what another did.
UpMeansConnected ==
  (\E p \in Process : Up(p)) =>
    /\ \A q \in QueuePair : Ready(q)
    /\ \A n, r \in Node : remoteCon[n][r] = r

\* The pairwise exchanges wait on each other, yet everybody comes up, in
\* whatever order they start, if no client took the id of a server and all found
\* the memcached server.
StartupCompletes ==
  <>((\A p \in Process : Up(p)) \/ (\E p \in Process : kpc[p] \in {"exited", "lost"}))
=============================================================================
