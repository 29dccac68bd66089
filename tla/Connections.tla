---------------------------- MODULE Connections ----------------------------
(***************************************************************************)
(* The resources of a process of DSM: what its constructor builds between  *)
(* the node id and the exchange with the other nodes, and how threads then *)
(* take a share of it (register_thread).                                   *)
(*                                                                         *)
(* A connection is built from a context (createContext, which cleans up    *)
(* after itself) and of parts created one after the other.  Any call to    *)
(* libibverbs may fail.  Hardly any result is looked at: a part that could *)
(* not be created is a null pointer, and it is the first use of it that    *)
(* stops the process.  The question is which failures are noticed before   *)
(* the process announces its queue pairs to the others.                    *)
(***************************************************************************)
EXTENDS Naturals, Sequences, FiniteSets

CONSTANTS
  NetThreadCnt,  \* kMaxNetThread: connections for threads
  DirectoryCnt,  \* NR_DIRECTORY: connections for directories
  AppThread,     \* the threads that register
  Size,          \* the sizes of buffers they ask for
  MaxFailures    \* bound: calls that fail

ASSUME CountAssumption ==
  /\ NetThreadCnt \in Nat \ {0} /\ DirectoryCnt \in Nat \ {0}
  /\ IsFiniteSet(AppThread) /\ Cardinality(AppThread) <= NetThreadCnt
  /\ Size \subseteq Nat \ {0}
  /\ MaxFailures \in Nat

VARIABLES
  pc,        \* where the process is in the constructor
  failures,  \* calls that have failed
  pools,     \* memory mapped: "dsm" and "buf"
  cur,       \* the connection under construction
  step,      \* the part of it that is next
  local,     \* the pointers of createContext that are not NULL
  open,      \* per connection: what createContext holds from libibverbs
  held,      \* per connection: "context" and the parts that are not NULL
  appID,     \* ids given to threads
  tpc,       \* where each thread is in register_thread
  thread_id, \* its id, thCon[thread_id] being its connection; -1 is NetThreadCnt
  asked,     \* all sizes it has asked for
  buffer     \* its share of the buffer memory: first byte and size

buildVars  == <<pc, failures, pools, cur, step, local, open, held>>
threadVars == <<appID, tpc, thread_id, asked, buffer>>
setupVars  == <<buildVars, threadVars>>

Connection == 1 .. NetThreadCnt + DirectoryCnt

\* The parts of a connection, in the order they are created: ThreadConnection
\* with its RawMessageConnection, and DirectoryConnection.
ThreadParts == <<"cq", "ud_cq", "send_cq", "ud_qp", "ud_rts", "pool", "message_mr",
                 "cache_mr", "rc_qps">>
DirectoryParts == <<"cq", "dsm_mr", "cache_mr", "recv_cq", "overrun", "srq", "rc_qps">>

Parts(c) == IF c <= NetThreadCnt THEN ThreadParts ELSE DirectoryParts

\* What the creation of a part dereferences: null pointers there end the process.
Uses(p) ==
  CASE p = "pool"    -> {}
    [] p = "ud_qp"   -> {"context", "send_cq", "ud_cq"}
    [] p = "ud_rts"  -> {"ud_qp"}
    [] p = "overrun" -> {"recv_cq"}
    [] p = "srq"     -> {"context", "recv_cq"}
    [] p = "rc_qps"  -> {"context", "cq"}
    [] OTHER         -> {"context"}

\* Seeded fault: the key of a region is read only if there is a region.
KeyReadIfAny(p) == FALSE

\* The key of a region is read on the line after its creation.
KeyRead(p) == p \in {"message_mr", "cache_mr", "dsm_mr"}

\* A region is registered only if its memory was mapped.
Mapped(p) ==
  CASE p = "message_mr" -> "pool" \in held[cur]
    [] p = "cache_mr"   -> "buf" \in pools
    [] p = "dsm_mr"     -> "dsm" \in pools
    [] OTHER            -> TRUE

\* The outcomes of a call that may fail.
Outcome == IF failures < MaxFailures THEN BOOLEAN ELSE {TRUE}

Counted(ok) == failures' = IF ok THEN failures ELSE failures + 1

SetupInit ==
  /\ pc = "map" /\ failures = 0 /\ pools = {} /\ cur = 1 /\ step = 1
  /\ local = {}
  /\ open = [c \in Connection |-> {}] /\ held = [c \in Connection |-> {}]
  /\ appID = 0
  /\ tpc = [t \in AppThread |-> "out"]
  /\ thread_id = [t \in AppThread |-> NetThreadCnt]
  /\ asked = [t \in AppThread |-> {}]
  /\ buffer = [t \in AppThread |-> <<0, 0>>]

-----------------------------------------------------------------------------
(***************************************************************************)
(* The constructor.                                                        *)
(***************************************************************************)

\* page_alloc of dsm_addr and buf_addr; a failure is only logged.
MapPools ==
  /\ pc = "map"
  /\ \E okDsm, okBuf \in Outcome :
       /\ pools' = (IF okDsm THEN {"dsm"} ELSE {}) \cup (IF okBuf THEN {"buf"} ELSE {})
       /\ failures' = failures + Cardinality({"dsm", "buf"} \ pools')
       /\ failures' <= MaxFailures
  /\ pc' = "list"
  /\ UNCHANGED <<cur, step, local, open, held, threadVars>>

\* createContext, a call that yields resource r or fails.
Acquire(at, r, next) ==
  /\ pc = at
  /\ \E ok \in Outcome :
       /\ Counted(ok)
       /\ local' = IF ok THEN local \cup {r} ELSE local
       /\ open' = IF ok THEN [open EXCEPT ![cur] = @ \cup {r}] ELSE open
       /\ pc' = IF ok THEN next ELSE "cleanup"
  /\ UNCHANGED <<pools, cur, step, held, threadVars>>

\* createContext, a call that yields nothing to release or fails: no device of
\* that name, ibv_query_port, ibv_query_gid.
Query(at, next) ==
  /\ pc = at
  /\ \E ok \in Outcome : Counted(ok) /\ pc' = IF ok THEN next ELSE "cleanup"
  /\ UNCHANGED <<pools, cur, step, local, open, held, threadVars>>

\* Seeded fault: deviceList is not set to NULL when it is freed.
FreeListDangling ==
  /\ pc = "free"
  /\ open' = [open EXCEPT ![cur] = @ \ {"list"}]
  /\ pc' = "port"
  /\ UNCHANGED <<failures, pools, cur, step, local, held, threadVars>>

\* The device is open: the list is freed and its pointer reset.
FreeList ==
  /\ pc = "free"
  /\ open' = [open EXCEPT ![cur] = @ \ {"list"}]
  /\ local' = local \ {"list"}
  /\ pc' = "port"
  /\ UNCHANGED <<failures, pools, cur, step, held, threadVars>>

\* Success: the context gets its fields.
SetContext ==
  /\ pc = "set"
  /\ held' = [held EXCEPT ![cur] = {"context"}]
  /\ local' = {}
  /\ pc' = "parts"
  /\ UNCHANGED <<failures, pools, cur, step, open, threadVars>>

\* CreateResourcesExit: what has a pointer is released; the caller does not look
\* at the result, false.
Cleanup ==
  /\ pc = "cleanup"
  /\ open' = [open EXCEPT ![cur] = @ \ local]
  /\ local' = {}
  /\ pc' = "parts"
  /\ UNCHANGED <<failures, pools, cur, step, held, threadVars>>

createContext ==
  \/ Acquire("list", "list", "find") \/ Query("find", "open")
  \/ Acquire("open", "ctx", "free") \/ FreeList \/ Query("port", "pd")
  \/ Acquire("pd", "pd", "gid") \/ Query("gid", "set") \/ SetContext \/ Cleanup

\* The next part: a crash on a null pointer, a part, or a null pointer more.
CreatePart ==
  LET p == Parts(cur)[step] IN
    /\ pc = "parts"
    /\ step <= Len(Parts(cur))
    /\ IF Uses(p) \subseteq held[cur]
       THEN \E ok \in IF Mapped(p) THEN Outcome ELSE {FALSE} :
              /\ failures' = IF ok \/ ~Mapped(p) THEN failures ELSE failures + 1
              /\ held' = IF ok THEN [held EXCEPT ![cur] = @ \cup {p}] ELSE held
              /\ pc' = IF KeyRead(p) /\ ~ok THEN "crashed" ELSE pc
       ELSE pc' = "crashed" /\ UNCHANGED <<failures, held>>
    /\ step' = step + 1
    /\ UNCHANGED <<pools, cur, local, open, threadVars>>

\* initRDMAConnection: the connections one after the other, then keeper->run().
NextConnection ==
  /\ pc = "parts"
  /\ step > Len(Parts(cur))
  /\ IF cur + 1 \in Connection
     THEN cur' = cur + 1 /\ step' = 1 /\ pc' = "list"
     ELSE pc' = "announce" /\ UNCHANGED <<cur, step>>
  /\ UNCHANGED <<failures, pools, local, open, held, threadVars>>

\* setDataToRemote and memSet: the process hands out the numbers of its queue
\* pairs, 0 for one that is missing, and everybody may connect to the others.
Announce ==
  /\ pc = "announce"
  /\ pc' = "announced"
  /\ UNCHANGED <<failures, pools, cur, step, local, open, held, threadVars>>

\* connectMySelf: a missing queue pair is skipped on its own side and a number 0
\* ends the process on the other, and so does an address handle that fails.
ConnectToSelf ==
  /\ pc = "announced"
  /\ \E appAh \in Outcome :
       /\ Counted(appAh)
       /\ pc' \in IF ~appAh THEN {"crashed"}
                 ELSE IF \A c \in Connection : "rc_qps" \in held[c] THEN {"up"}
                 ELSE {"up", "crashed"}
  /\ UNCHANGED <<pools, cur, step, local, open, held, threadVars>>

Construct ==
  \/ MapPools \/ createContext \/ CreatePart \/ NextConnection
  \/ Announce \/ ConnectToSelf

-----------------------------------------------------------------------------
(***************************************************************************)
(* register_thread, called by every thread, and called again by some.      *)
(***************************************************************************)

\* Seeded fault: appID is read and written in two steps.
FetchAddSplit(t, size) ==
  /\ pc = "up"
  /\ \/ /\ tpc[t] = "out"
        /\ thread_id' = [thread_id EXCEPT ![t] = appID]
        /\ asked' = [asked EXCEPT ![t] = {size}]
        /\ tpc' = [tpc EXCEPT ![t] = "read"]
        /\ UNCHANGED appID
     \/ /\ tpc[t] = "read"
        /\ appID' = thread_id[t] + 1
        /\ tpc' = [tpc EXCEPT ![t] = "id"]
        /\ UNCHANGED <<thread_id, asked>>
  /\ UNCHANGED <<buffer, buildVars>>

\* thread_id = appID.fetch_add(1)
FetchAdd(t, size) ==
  /\ pc = "up" /\ tpc[t] = "out"
  /\ thread_id' = [thread_id EXCEPT ![t] = appID]
  /\ appID' = appID + 1
  /\ asked' = [asked EXCEPT ![t] = {size}]
  /\ tpc' = [tpc EXCEPT ![t] = "id"]
  /\ UNCHANGED <<buffer, buildVars>>

\* rdma_buffer = buf_addr + thread_id * per_thread_buf_size
PlaceBuffer(t) ==
  /\ tpc[t] = "id"
  /\ \E size \in asked[t] : buffer' = [buffer EXCEPT ![t] = <<thread_id[t] * size, size>>]
  /\ tpc' = [tpc EXCEPT ![t] = "registered"]
  /\ UNCHANGED <<appID, thread_id, asked, buildVars>>

\* A registered thread asks again, as a RowanClient does whatever the thread did
\* before: it keeps what it has.
RegisterAgain(t, size) ==
  /\ tpc[t] = "registered"
  /\ asked' = [asked EXCEPT ![t] = @ \cup {size}]
  /\ UNCHANGED <<appID, tpc, thread_id, buffer, buildVars>>

register_thread(t) ==
  PlaceBuffer(t) \/ \E size \in Size : FetchAdd(t, size) \/ RegisterAgain(t, size)

SetupNext == Construct \/ \E t \in AppThread : register_thread(t)

SetupSpec == SetupInit /\ [][SetupNext]_setupVars

-----------------------------------------------------------------------------
(***************************************************************************)
(* Properties.                                                             *)
(***************************************************************************)

\* createContext leaves nothing behind when it fails, and keeps no pointer to
\* what it has released (its cleanup would release it twice); when it succeeds,
\* the context has its device and its protection domain, and the list is freed.
ContextWhole ==
  /\ local \subseteq open[cur]
  /\ \A c \in Connection :
       c < cur \/ (c = cur /\ pc \notin {"list", "find", "open", "free", "port", "pd",
                                        "gid", "set", "cleanup"})
         => open[c] = IF "context" \in held[c] THEN {"ctx", "pd"} ELSE {}

\* Results that nobody checks and no later step of the process need trip over.
Unchecked == {"ud_rts", "overrun", "srq", "rc_qps"}

\* A process that has announced itself has all it needs, whatever failed: a null
\* pointer is used, and ends the process, before anybody can connect to it.  The
\* exceptions are the results in Unchecked: without its shared receive queue, for
\* one, a directory accepts connections that can never deliver, and a reliable
\* queue pair that is missing is announced as number 0, which ends the peer.
AnnouncedWhole ==
  pc \in {"announced", "up"} =>
    /\ pools = {"dsm", "buf"}
    /\ \A c \in Connection : \A i \in DOMAIN Parts(c) :
         Parts(c)[i] \in held[c] \cup Unchecked

\* The threads' connections are their own, and as long as all ask for one size,
\* once or more often, so are their buffers.
ThreadsApart ==
  \A t, u \in AppThread :
    t # u /\ tpc[t] = "registered" /\ tpc[u] = "registered" =>
      /\ thread_id[t] # thread_id[u]
      /\ thread_id[t] < NetThreadCnt
      /\ Cardinality(asked[t] \cup asked[u]) = 1 =>
           \/ buffer[t][1] + buffer[t][2] <= buffer[u][1]
           \/ buffer[u][1] + buffer[u][2] <= buffer[t][1]
=============================================================================
