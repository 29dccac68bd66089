--------------------------- MODULE StartupProof ----------------------------
(***************************************************************************)
(* The safety of startup.  First Connections: what one process holds from  *)
(* libibverbs and what its threads take of it, for any number of           *)
(* connections, threads, sizes and failing calls.  Then Keeper, for any    *)
(* set of processes, any number of clients among them, of threads and of   *)
(* directories: KeeperInv is inductive (one lemma per action) and implies  *)
(* that the queue pairs are connected in pairs, all of them before the     *)
(* first process is up.                                                    *)
(***************************************************************************)
EXTENDS Keeper, Connections, SharedLemmas

-----------------------------------------------------------------------------
(***************************************************************************)
(* The inductive invariants behind the three: what createContext holds at  *)
(* each of its stages; that the parts created so far had what they use,    *)
(* or the process would have ended; ids as many as threads that took one.  *)
(***************************************************************************)

Building == {"list", "find", "open", "free", "port", "pd", "gid", "set", "cleanup"}

BuildTypeOK ==
  /\ pc \in Building \cup {"map", "parts", "announce", "announced", "up", "crashed"}
  /\ failures \in Nat /\ pools \subseteq {"dsm", "buf"}
  /\ cur \in Connection /\ step \in Nat \ {0}
  /\ local \subseteq {"list", "ctx", "pd"}
  /\ open \in [Connection -> SUBSET {"list", "ctx", "pd"}]
  /\ DOMAIN held = Connection

\* What a stage of createContext finds acquired.
StageInv ==
  CASE pc = "list"            -> local = {}
    [] pc \in {"find", "open"} -> local = {"list"}
    [] pc = "free"            -> local = {"list", "ctx"}
    [] pc \in {"port", "pd"}   -> local = {"ctx"}
    [] pc \in {"gid", "set"}   -> local = {"ctx", "pd"}
    [] pc = "cleanup"         -> TRUE
    [] OTHER                  -> local = {}

ContextInv ==
  /\ StageInv
  /\ pc \in Building => local = open[cur]
  /\ \A c \in Connection :
       /\ c > cur \/ (c = cur /\ pc \in Building \cup {"map"}) => held[c] = {}
       /\ c > cur \/ (c = cur /\ pc = "map") => open[c] = {}
  /\ ContextWhole

\* The parts of connection c that have been attempted.
Attempted(c) ==
  IF c < cur THEN DOMAIN Parts(c)
  ELSE IF c = cur /\ pc \in {"parts", "announce", "announced", "up"} THEN 1 .. step - 1 ELSE {}

\* The process has survived the creation of part p of connection c.
Survived(c, p) ==
  /\ Uses(p) \subseteq held[c]
  /\ KeyRead(p) => p \in held[c]
  /\ p = "message_mr" => "pool" \in held[c]
  /\ p = "cache_mr" => "buf" \in pools
  /\ p = "dsm_mr" => "dsm" \in pools

PartsInv ==
  /\ pc = "map" => cur = 1
  /\ pc \in Building \cup {"map"} => step = 1
  /\ pc = "parts" => step <= Len(Parts(cur)) + 1
  /\ pc \in {"announce", "announced", "up"} => cur = NetThreadCnt + DirectoryCnt /\ step = Len(Parts(cur)) + 1
  /\ pc # "crashed" =>
       \A c \in Connection : \A i \in Attempted(c) : Survived(c, Parts(c)[i])

Registering == {t \in AppThread : tpc[t] # "out"}

ThreadInv ==
  /\ appID = Cardinality(Registering)
  /\ tpc \in [AppThread -> {"out", "id", "registered"}]
  /\ thread_id \in [AppThread -> Nat]
  /\ asked \in [AppThread -> SUBSET Size]
  /\ buffer \in [AppThread -> Nat \X Nat]
  /\ \A t \in AppThread :
       /\ IsFiniteSet(asked[t])
       /\ tpc[t] # "out" => thread_id[t] < appID
       /\ tpc[t] = "registered" =>
            \E size \in asked[t] : buffer[t] = <<thread_id[t] * size, size>>
  /\ \A t, u \in Registering : thread_id[t] = thread_id[u] => t = u

SetupInv == BuildTypeOK /\ ContextInv /\ PartsInv /\ ThreadInv

-----------------------------------------------------------------------------
(***************************************************************************)
(* Connections: what holds of the resources of one process and of its      *)
(* threads, for any number of connections, threads, sizes and failures.    *)
(***************************************************************************)

BuildInv == BuildTypeOK /\ ContextInv /\ PartsInv

\* The stages of createContext, one by one.
LEMMA StageAt ==
  /\ pc \in {"list", "map", "parts", "announce", "announced", "up", "crashed"} /\ StageInv => local = {}
  /\ pc \in {"find", "open"} /\ StageInv => local = {"list"}
  /\ pc = "free" /\ StageInv => local = {"list", "ctx"}
  /\ pc \in {"port", "pd"} /\ StageInv => local = {"ctx"}
  /\ pc \in {"gid", "set"} /\ StageInv => local = {"ctx", "pd"}
BY DEF StageInv

LEMMA StageAtNext ==
  /\ pc' \in {"list", "map", "parts", "announce", "announced", "up", "crashed"} /\ local' = {} => StageInv'
  /\ pc' \in {"find", "open"} /\ local' = {"list"} => StageInv'
  /\ pc' = "free" /\ local' = {"list", "ctx"} => StageInv'
  /\ pc' \in {"port", "pd"} /\ local' = {"ctx"} => StageInv'
  /\ pc' \in {"gid", "set"} /\ local' = {"ctx", "pd"} => StageInv'
  /\ pc' = "cleanup" => StageInv'
BY DEF StageInv

\* The lists of parts.
LEMMA PartFacts ==
  ASSUME NEW c \in Connection
  PROVE  /\ Len(Parts(c)) \in Nat \ {0} /\ DOMAIN Parts(c) = 1 .. Len(Parts(c))
         /\ \A i \in DOMAIN Parts(c) : Parts(c)[i] # "context"
         /\ Parts(c)[Len(Parts(c))] = "rc_qps"
<1>1. /\ Len(ThreadParts) = 9 /\ DOMAIN ThreadParts = 1 .. 9
      /\ Len(DirectoryParts) = 7 /\ DOMAIN DirectoryParts = 1 .. 7
  BY DEF ThreadParts, DirectoryParts
<1>2. ThreadParts[9] = "rc_qps" /\ DirectoryParts[7] = "rc_qps"
  BY DEF ThreadParts, DirectoryParts
<1>3. \A i \in 1 .. 9 : ThreadParts[i] # "context"
  <2>1. /\ ThreadParts[1] # "context" /\ ThreadParts[2] # "context" /\ ThreadParts[3] # "context"
        /\ ThreadParts[4] # "context" /\ ThreadParts[5] # "context" /\ ThreadParts[6] # "context"
        /\ ThreadParts[7] # "context" /\ ThreadParts[8] # "context" /\ ThreadParts[9] # "context"
    BY DEF ThreadParts
  <2> QED
    BY <2>1
<1>4. \A i \in 1 .. 7 : DirectoryParts[i] # "context"
  <2>1. /\ DirectoryParts[1] # "context" /\ DirectoryParts[2] # "context"
        /\ DirectoryParts[3] # "context" /\ DirectoryParts[4] # "context"
        /\ DirectoryParts[5] # "context" /\ DirectoryParts[6] # "context"
        /\ DirectoryParts[7] # "context"
    BY DEF DirectoryParts
  <2> QED
    BY <2>1
<1>5. CASE c <= NetThreadCnt
  <2>1. Parts(c) = ThreadParts
    BY <1>5 DEF Parts
  <2>2. Len(Parts(c)) = 9 /\ DOMAIN Parts(c) = 1 .. 9
    BY <1>1, <2>1
  <2>3. \A i \in DOMAIN Parts(c) : Parts(c)[i] # "context"
    BY <1>3, <2>1, <2>2
  <2>4. Parts(c)[9] = "rc_qps"
    BY <1>2, <2>1
  <2> QED
    BY <2>2, <2>3, <2>4
<1>6. CASE ~(c <= NetThreadCnt)
  <2>1. Parts(c) = DirectoryParts
    BY <1>6 DEF Parts
  <2>2. Len(Parts(c)) = 7 /\ DOMAIN Parts(c) = 1 .. 7
    BY <1>1, <2>1
  <2>3. \A i \in DOMAIN Parts(c) : Parts(c)[i] # "context"
    BY <1>4, <2>1, <2>2
  <2>4. Parts(c)[7] = "rc_qps"
    BY <1>2, <2>1
  <2> QED
    BY <2>2, <2>3, <2>4
<1> QED
  BY <1>5, <1>6

LEMMA ConnectionFacts ==
  /\ NetThreadCnt \in Nat /\ DirectoryCnt \in Nat
  /\ 1 \in Connection /\ NetThreadCnt + DirectoryCnt \in Connection
  /\ \A c \in Connection : c \in Nat /\ c >= 1 /\ c <= NetThreadCnt + DirectoryCnt
  /\ \A c \in Connection : c < NetThreadCnt + DirectoryCnt <=> c + 1 \in Connection
BY CountAssumption DEF Connection

\* A step from one stage of createContext to another.
LEMMA StageStep ==
  ASSUME BuildInv, pc \in Building, pc' \in Building, pc' # "list", failures' \in Nat,
         UNCHANGED <<cur, step, held, pools>>,
         local' \subseteq {"list", "ctx", "pd"}, StageInv',
         open' = [open EXCEPT ![cur] = local']
  PROVE  BuildInv'
<1>1. BuildTypeOK'
  BY DEF BuildInv, BuildTypeOK
<1>2. local' = open'[cur] /\ \A c \in Connection : c # cur => open'[c] = open[c]
  BY DEF BuildInv, BuildTypeOK
<1>3. \A c \in Connection : c > cur => c # cur
  BY ConnectionFacts DEF BuildInv, BuildTypeOK
<1>4. \A c \in Connection : c < cur => c # cur
  BY ConnectionFacts DEF BuildInv, BuildTypeOK
<1>5. pc' # "map" /\ pc' # "parts" /\ pc' \notin {"announce", "announced", "up"}
  BY DEF Building
<1>6. ContextWhole'
  BY <1>2, <1>4 DEF BuildInv, ContextInv, ContextWhole, Building
<1>7. ContextInv'
  BY <1>2, <1>3, <1>5, <1>6 DEF BuildInv, ContextInv
<1>8. PartsInv'
  <2>1. pc # "crashed" /\ pc # "map" /\ pc # "parts" /\ pc \notin {"announce", "announced", "up"}
    BY DEF Building
  <2>2. \A c \in Connection : Attempted(c)' = Attempted(c)
    BY <1>5, <2>1 DEF Attempted, Parts
  <2>3. \A c, p : Survived(c, p)' = Survived(c, p)
    BY DEF Survived
  <2>4. step = 1 /\ \A c \in Connection : \A i \in Attempted(c) : Survived(c, Parts(c)[i])
    BY <2>1 DEF BuildInv, PartsInv
  <2>5. \A c \in Connection : \A i \in Attempted(c)' : Survived(c, Parts(c)[i])'
    BY <2>2, <2>3, <2>4
  <2> QED
    BY <1>5, <2>4, <2>5 DEF PartsInv, Parts
<1> QED
  BY <1>1, <1>7, <1>8 DEF BuildInv

\* What a stage finds in place.
LEMMA StageOpen ==
  ASSUME BuildInv, pc \in Building
  PROVE  /\ local = open[cur] /\ open = [open EXCEPT ![cur] = local]
         /\ cur \in Connection /\ failures \in Nat /\ StageInv
         /\ local \subseteq {"list", "ctx", "pd"}
BY DEF BuildInv, BuildTypeOK, ContextInv

LEMMA OutcomeFacts ==
  ASSUME NEW ok \in Outcome, failures \in Nat, Counted(ok)
  PROVE  failures' \in Nat
BY DEF Outcome, Counted

\* A call of createContext, whether it succeeds or not.
LEMMA AcquireInv ==
  ASSUME BuildInv,
         \/ Acquire("list", "list", "find") \/ Acquire("open", "ctx", "free")
         \/ Acquire("pd", "pd", "gid")
  PROVE  BuildInv'
<1>1. PICK at \in {"list", "open", "pd"}, r \in {"list", "ctx", "pd"}, next \in {"find", "free", "gid"} :
        /\ Acquire(at, r, next)
        /\ \/ at = "list" /\ r = "list" /\ next = "find"
           \/ at = "open" /\ r = "ctx" /\ next = "free"
           \/ at = "pd" /\ r = "pd" /\ next = "gid"
  OBVIOUS
<1>2. pc = at /\ pc \in Building /\ UNCHANGED <<cur, step, held, pools>>
  BY <1>1 DEF Acquire, Building
<1>3. PICK ok \in Outcome :
        /\ Counted(ok)
        /\ local' = IF ok THEN local \cup {r} ELSE local
        /\ open' = IF ok THEN [open EXCEPT ![cur] = @ \cup {r}] ELSE open
        /\ pc' = IF ok THEN next ELSE "cleanup"
  BY <1>1 DEF Acquire
<1>4. /\ local = open[cur] /\ open = [open EXCEPT ![cur] = local]
      /\ local \subseteq {"list", "ctx", "pd"} /\ failures' \in Nat /\ StageInv
  BY <1>2, <1>3, StageOpen, OutcomeFacts
<1>5. open' = [open EXCEPT ![cur] = local'] /\ local' \subseteq {"list", "ctx", "pd"}
  BY <1>3, <1>4
<1>6. pc' \in Building /\ pc' # "list"
  BY <1>3 DEF Building
<1>7. StageInv'
  BY <1>1, <1>2, <1>3, <1>4, StageAt, StageAtNext
<1> QED
  BY <1>2, <1>4, <1>5, <1>6, <1>7, StageStep

LEMMA QueryInv ==
  ASSUME BuildInv, Query("find", "open") \/ Query("port", "pd") \/ Query("gid", "set")
  PROVE  BuildInv'
<1>1. PICK at \in {"find", "port", "gid"}, next \in {"open", "pd", "set"} :
        /\ Query(at, next)
        /\ \/ at = "find" /\ next = "open"
           \/ at = "port" /\ next = "pd"
           \/ at = "gid" /\ next = "set"
  OBVIOUS
<1>2. pc = at /\ pc \in Building /\ UNCHANGED <<cur, step, held, pools, local, open>>
  BY <1>1 DEF Query, Building
<1>3. PICK ok \in Outcome : Counted(ok) /\ pc' = IF ok THEN next ELSE "cleanup"
  BY <1>1 DEF Query
<1>4. /\ open = [open EXCEPT ![cur] = local]
      /\ local \subseteq {"list", "ctx", "pd"} /\ failures' \in Nat /\ StageInv
  BY <1>2, <1>3, StageOpen, OutcomeFacts
<1>5. pc' \in Building /\ pc' # "list"
  BY <1>3 DEF Building
<1>6. StageInv'
  BY <1>1, <1>2, <1>3, <1>4, StageAt, StageAtNext
<1> QED
  BY <1>2, <1>4, <1>5, <1>6, StageStep

LEMMA FreeListInv ==
  ASSUME BuildInv, FreeList
  PROVE  BuildInv'
<1>1. /\ pc = "free" /\ pc \in Building /\ UNCHANGED <<cur, step, held, pools, failures>>
      /\ pc' = "port" /\ local' = local \ {"list"}
      /\ open' = [open EXCEPT ![cur] = @ \ {"list"}]
  BY DEF FreeList, Building
<1>2. local = {"list", "ctx"} /\ local = open[cur] /\ failures' \in Nat
  BY <1>1, StageOpen, StageAt
<1>3. local' = {"ctx"} /\ open' = [open EXCEPT ![cur] = local']
  BY <1>1, <1>2
<1>4. StageInv' /\ pc' \in Building /\ pc' # "list" /\ local' \subseteq {"list", "ctx", "pd"}
  BY <1>1, <1>3, StageAtNext DEF Building
<1> QED
  BY <1>1, <1>2, <1>3, <1>4, StageStep

LEMMA SetContextInv ==
  ASSUME BuildInv, SetContext
  PROVE  BuildInv'
<1>1. /\ pc = "set" /\ pc \in Building /\ UNCHANGED <<cur, step, pools, failures, open>>
      /\ pc' = "parts" /\ local' = {} /\ held' = [held EXCEPT ![cur] = {"context"}]
  BY DEF SetContext, Building
<1>2. open[cur] = {"ctx", "pd"} /\ cur \in Connection /\ step = 1
  BY <1>1, StageOpen, StageAt DEF BuildInv, PartsInv
<1>3. BuildTypeOK'
  BY <1>1 DEF BuildInv, BuildTypeOK
<1>4. /\ held'[cur] = {"context"}
      /\ \A c \in Connection : c # cur => held'[c] = held[c]
  BY <1>1, <1>2 DEF BuildInv, BuildTypeOK
<1>5. cur \in Nat /\ \A c \in Connection : (c > cur => c # cur) /\ (c < cur => c # cur)
  BY <1>2, ConnectionFacts
<1>6. ContextWhole'
  BY <1>1, <1>2, <1>4, <1>5 DEF BuildInv, ContextInv, ContextWhole
<1>7. ContextInv'
  BY <1>1, <1>4, <1>5, <1>6, StageAtNext DEF BuildInv, ContextInv, Building
<1>8. PartsInv'
  <2>1. \A c \in Connection : Attempted(c)' = Attempted(c) /\ (c = cur => Attempted(c) = {})
    BY <1>1, <1>2, <1>5 DEF Attempted, Parts
  <2>2. \A c \in Connection : \A i \in Attempted(c) : Survived(c, Parts(c)[i]) /\ c # cur
    BY <1>1, <2>1 DEF BuildInv, PartsInv
  <2>3. \A c \in Connection : \A p : c # cur => Survived(c, p)' = Survived(c, p)
    BY <1>1, <1>4 DEF Survived
  <2>4. \A c \in Connection : \A i \in Attempted(c)' : Survived(c, Parts(c)[i])'
    BY <2>1, <2>2, <2>3
  <2>5. step' <= Len(Parts(cur)) + 1
    BY <1>1, <1>2, PartFacts
  <2> QED
    BY <1>1, <2>4, <2>5 DEF PartsInv, Parts, Building
<1> QED
  BY <1>3, <1>7, <1>8 DEF BuildInv

LEMMA CleanupInv ==
  ASSUME BuildInv, Cleanup
  PROVE  BuildInv'
<1>1. /\ pc = "cleanup" /\ pc \in Building /\ UNCHANGED <<cur, step, pools, failures, held>>
      /\ pc' = "parts" /\ local' = {} /\ open' = [open EXCEPT ![cur] = @ \ local]
  BY DEF Cleanup, Building
<1>2. open[cur] = local /\ cur \in Connection /\ step = 1 /\ held[cur] = {}
  BY <1>1, StageOpen DEF BuildInv, PartsInv, ContextInv
<1>3. BuildTypeOK'
  BY <1>1, <1>2 DEF BuildInv, BuildTypeOK
<1>4. /\ open'[cur] = {}
      /\ \A c \in Connection : c # cur => open'[c] = open[c]
  BY <1>1, <1>2 DEF BuildInv, BuildTypeOK
<1>5. cur \in Nat /\ \A c \in Connection : (c > cur => c # cur) /\ (c < cur => c # cur)
  BY <1>2, ConnectionFacts
<1>6. ContextWhole'
  BY <1>1, <1>2, <1>4, <1>5 DEF BuildInv, ContextInv, ContextWhole
<1>7. ContextInv'
  BY <1>1, <1>4, <1>5, <1>6, StageAtNext DEF BuildInv, ContextInv, Building
<1>8. PartsInv'
  <2>1. \A c \in Connection : Attempted(c)' = Attempted(c)
    BY <1>1, <1>2, <1>5 DEF Attempted, Parts
  <2>2. \A c \in Connection : \A i \in Attempted(c) : Survived(c, Parts(c)[i])
    BY <1>1 DEF BuildInv, PartsInv
  <2>3. \A c, p : Survived(c, p)' = Survived(c, p)
    BY <1>1 DEF Survived
  <2>4. \A c \in Connection : \A i \in Attempted(c)' : Survived(c, Parts(c)[i])'
    BY <2>1, <2>2, <2>3
  <2>5. step' <= Len(Parts(cur)) + 1
    BY <1>1, <1>2, PartFacts
  <2> QED
    BY <1>1, <2>4, <2>5 DEF PartsInv, Parts, Building
<1> QED
  BY <1>3, <1>7, <1>8 DEF BuildInv

\* page_alloc of the two pools.
LEMMA MapPoolsInv ==
  ASSUME BuildInv, MapPools
  PROVE  BuildInv'
<1>1. /\ pc = "map" /\ pc' = "list" /\ UNCHANGED <<cur, step, local, open, held>>
      /\ pools' \subseteq {"dsm", "buf"}
      /\ failures' = failures + Cardinality({"dsm", "buf"} \ pools')
  BY DEF MapPools
<1>2. failures' \in Nat
  <2>1. IsFiniteSet({"dsm", "buf"} \ pools')
    <3>1. IsFiniteSet({"dsm"} \cup {"buf"})
      BY FS_Singleton, FS_AddElement
    <3>2. {"dsm", "buf"} \ pools' \subseteq {"dsm"} \cup {"buf"}
      OBVIOUS
    <3> QED
      BY <3>1, <3>2, FS_Subset
  <2> QED
    BY <1>1, <2>1, FS_CardinalityType DEF BuildInv, BuildTypeOK
<1>3. BuildTypeOK'
  BY <1>1, <1>2 DEF BuildInv, BuildTypeOK, Building
<1>4. /\ local = {} /\ cur = 1 /\ cur \in Connection /\ open[cur] = {} /\ held[cur] = {}
      /\ step = 1
  <2>1. cur = 1 /\ step = 1 /\ cur \in Connection
    BY <1>1 DEF BuildInv, BuildTypeOK, PartsInv
  <2>2. local = {} /\ open[cur] = {} /\ held[cur] = {}
    BY <1>1, <2>1, StageAt DEF BuildInv, ContextInv
  <2> QED
    BY <2>1, <2>2
<1>5. \A c \in Connection : ~(c < cur)
  BY <1>4, ConnectionFacts
<1>6. ContextWhole'
  BY <1>1, <1>4, <1>5 DEF ContextWhole
<1>7. ContextInv'
  BY <1>1, <1>4, <1>6, StageAtNext DEF BuildInv, ContextInv, Building
<1>8. \A c \in Connection : Attempted(c)' = {}
  BY <1>1, <1>5 DEF Attempted
<1>9. PartsInv'
  BY <1>1, <1>4, <1>8 DEF PartsInv
<1> QED
  BY <1>3, <1>7, <1>9 DEF BuildInv

\* The next part of a connection.
LEMMA CreatePartInv ==
  ASSUME BuildInv, CreatePart
  PROVE  BuildInv'
<1>0. PICK p : p = Parts(cur)[step]
  OBVIOUS
<1>1. /\ pc = "parts" /\ step' = step + 1 /\ step <= Len(Parts(cur))
      /\ UNCHANGED <<pools, cur, local, open>>
  BY DEF CreatePart
<1>2. /\ cur \in Connection /\ step \in Nat \ {0} /\ step \in DOMAIN Parts(cur)
      /\ Len(Parts(cur)) \in Nat /\ local = {}
      /\ p # "context"
  BY <1>0, <1>1, PartFacts, StageAt DEF BuildInv, BuildTypeOK, ContextInv
<1>3. /\ pc' \in {"parts", "crashed"} /\ failures' \in Nat
      /\ \/ held' = held
         \/ held' = [held EXCEPT ![cur] = @ \cup {p}]
      /\ pc' = "parts" =>
           /\ Uses(p) \subseteq held[cur]
           /\ KeyRead(p) => Mapped(p) /\ held' = [held EXCEPT ![cur] = @ \cup {p}]
  <2>1. CASE Uses(p) \subseteq held[cur]
    <3>1. PICK ok \in IF Mapped(p) THEN Outcome ELSE {FALSE} :
            /\ failures' = IF ok \/ ~Mapped(p) THEN failures ELSE failures + 1
            /\ held' = IF ok THEN [held EXCEPT ![cur] = @ \cup {p}] ELSE held
            /\ pc' = IF KeyRead(p) /\ ~ok THEN "crashed" ELSE pc
      BY <1>0, <2>1 DEF CreatePart
    <3>2. failures' \in Nat
      BY <3>1 DEF BuildInv, BuildTypeOK
    <3> QED
      BY <1>1, <2>1, <3>1, <3>2
  <2>2. CASE ~(Uses(p) \subseteq held[cur])
    BY <1>0, <2>2 DEF CreatePart, BuildInv, BuildTypeOK
  <2> QED
    BY <2>1, <2>2
<1>4. BuildTypeOK'
  BY <1>1, <1>2, <1>3 DEF BuildInv, BuildTypeOK
<1>5. /\ held[cur] \subseteq held'[cur] /\ ("context" \in held'[cur] <=> "context" \in held[cur])
      /\ \A c \in Connection : c # cur => held'[c] = held[c]
      /\ held' = [held EXCEPT ![cur] = @ \cup {p}] => p \in held'[cur]
  BY <1>2, <1>3 DEF BuildInv, BuildTypeOK
<1>6. cur \in Nat /\ \A c \in Connection : (c > cur => c # cur) /\ (c < cur => c # cur)
  BY <1>2, ConnectionFacts
<1>7. ContextWhole'
  BY <1>1, <1>3, <1>5, <1>6 DEF BuildInv, ContextInv, ContextWhole
<1>8. ContextInv'
  BY <1>1, <1>2, <1>3, <1>5, <1>6, <1>7, StageAtNext DEF BuildInv, ContextInv, Building
<1>9. ASSUME pc' = "parts"
      PROVE  \A c \in Connection : \A i \in Attempted(c)' : Survived(c, Parts(c)[i])'
  <2>1. SUFFICES ASSUME NEW c \in Connection, NEW i \in Attempted(c)'
                 PROVE  Survived(c, Parts(c)[i])'
    BY DEF Parts
  <2>2. \A q : Survived(c, q) => Survived(c, q)'
    BY <1>1, <1>5 DEF Survived
  <2>3. CASE i \in Attempted(c)
    BY <1>1, <2>2, <2>3 DEF BuildInv, PartsInv, Parts
  <2>4. CASE i \notin Attempted(c)
    <3>1. c = cur /\ i = step
      BY <1>1, <1>2, <1>6, <1>9, <2>4 DEF Attempted, Parts
    <3>2. Parts(c)[i] = p
      BY <1>0, <3>1
    <3>3. Uses(p) \subseteq held'[cur] /\ (KeyRead(p) => p \in held'[cur])
      BY <1>3, <1>5, <1>9
    <3>4. /\ p = "message_mr" => "pool" \in held'[cur]
          /\ p = "cache_mr" => "buf" \in pools
          /\ p = "dsm_mr" => "dsm" \in pools
      BY <1>3, <1>5, <1>9 DEF KeyRead, Mapped
    <3>5. Survived(c, p)'
      BY <1>1, <3>1, <3>3, <3>4 DEF Survived
    <3> QED
      BY <3>2, <3>5 DEF Parts
  <2> QED
    BY <2>3, <2>4
<1>10. PartsInv'
  BY <1>1, <1>2, <1>3, <1>9 DEF PartsInv, Parts, Building
<1> QED
  BY <1>4, <1>8, <1>10 DEF BuildInv

\* On to the next connection, or to the exchange with the other nodes.
LEMMA NextConnectionInv ==
  ASSUME BuildInv, NextConnection
  PROVE  BuildInv'
<1>1. /\ pc = "parts" /\ step > Len(Parts(cur))
      /\ UNCHANGED <<failures, pools, local, open, held>>
      /\ IF cur + 1 \in Connection
         THEN cur' = cur + 1 /\ step' = 1 /\ pc' = "list"
         ELSE pc' = "announce" /\ cur' = cur /\ step' = step
  BY DEF NextConnection
<1>2. /\ cur \in Connection /\ cur \in Nat /\ step \in Nat \ {0}
      /\ Len(Parts(cur)) \in Nat /\ local = {} /\ step = Len(Parts(cur)) + 1
      /\ DOMAIN Parts(cur) = 1 .. step - 1
  BY <1>1, PartFacts, ConnectionFacts, StageAt
     DEF BuildInv, BuildTypeOK, ContextInv, PartsInv
<1>3. BuildTypeOK'
  BY <1>1, <1>2 DEF BuildInv, BuildTypeOK, Building
<1>4. \A c \in Connection :
        /\ c \in Nat
        /\ c < cur' => c < cur \/ c = cur
        /\ c >= cur' => c = cur \/ c > cur
        /\ c = cur /\ pc' = "list" => c < cur'
        /\ c > cur' => c > cur
  BY <1>1, <1>2, ConnectionFacts
<1>5. cur' # cur => pc' = "list" /\ cur' > cur /\ cur' \in Connection
  BY <1>1, <1>2
<1>6. ContextWhole'
  BY <1>1, <1>2, <1>3, <1>4, <1>5 DEF BuildInv, ContextInv, ContextWhole
<1>7. ContextInv'
  BY <1>1, <1>2, <1>4, <1>5, <1>6, StageAtNext DEF BuildInv, ContextInv, Building
<1>8. \A c \in Connection : Attempted(c)' = Attempted(c)
  BY <1>1, <1>2, <1>4, <1>5 DEF Attempted, Parts
<1>9. \A c, p : Survived(c, p)' = Survived(c, p)
  BY <1>1 DEF Survived
<1>10. \A c \in Connection : \A i \in Attempted(c)' : Survived(c, Parts(c)[i])'
  BY <1>1, <1>8, <1>9 DEF BuildInv, PartsInv
<1>11. pc' = "announce" => cur' = NetThreadCnt + DirectoryCnt /\ step' = Len(Parts(cur')) + 1
  BY <1>1, <1>2, ConnectionFacts
<1>12. PartsInv'
  BY <1>1, <1>10, <1>11 DEF PartsInv, Parts, Building
<1> QED
  BY <1>3, <1>7, <1>12 DEF BuildInv

\* Neither do the last steps touch what the process has.
LEMMA AnnounceInv ==
  ASSUME BuildInv, Announce \/ ConnectToSelf
  PROVE  BuildInv'
<1>1. /\ pc \in {"announce", "announced"} /\ pc' \in {"announced", "up", "crashed"}
      /\ UNCHANGED <<pools, cur, step, local, open, held>> /\ failures' \in Nat
  <2>1. CASE Announce
    BY <2>1 DEF Announce, BuildInv, BuildTypeOK
  <2>2. CASE ConnectToSelf
    <3>1. PICK appAh \in Outcome : Counted(appAh)
      BY <2>2 DEF ConnectToSelf
    <3>2. failures' \in Nat
      BY <3>1 DEF Counted, BuildInv, BuildTypeOK
    <3>3. /\ pc = "announced" /\ pc' \in {"up", "crashed"}
          /\ UNCHANGED <<pools, cur, step, local, open, held>>
      BY <2>2 DEF ConnectToSelf
    <3> QED
      BY <3>2, <3>3
  <2> QED
    BY <2>1, <2>2
<1>2. BuildTypeOK'
  BY <1>1 DEF BuildInv, BuildTypeOK
<1>3. local = {}
  BY <1>1, StageAt DEF BuildInv, ContextInv
<1>4. ContextWhole'
  BY <1>1 DEF BuildInv, ContextInv, ContextWhole
<1>5. ContextInv'
  BY <1>1, <1>3, <1>4, StageAtNext DEF BuildInv, ContextInv, Building
<1>6. pc' # "crashed" => \A c \in Connection : Attempted(c)' = Attempted(c)
  BY <1>1 DEF Attempted, Parts
<1>7. \A c, p : Survived(c, p)' = Survived(c, p)
  BY <1>1 DEF Survived
<1>8. PartsInv'
  BY <1>1, <1>6, <1>7 DEF BuildInv, PartsInv, Parts, Building
<1> QED
  BY <1>2, <1>5, <1>8 DEF BuildInv

\* register_thread leaves all that alone.
LEMMA SameBuild ==
  ASSUME BuildInv, UNCHANGED buildVars
  PROVE  BuildInv'
<1>1. UNCHANGED <<pc, failures, pools, cur, step, local, open, held>>
  BY DEF buildVars
<1>2. BuildTypeOK' /\ ContextInv'
  BY <1>1 DEF BuildInv, BuildTypeOK, ContextInv, StageInv, ContextWhole
<1>3. PartsInv'
  BY <1>1 DEF BuildInv, PartsInv, Attempted, Survived, Parts
<1> QED
  BY <1>2, <1>3 DEF BuildInv

-----------------------------------------------------------------------------
\* Threads.

LEMMA SameThreads ==
  ASSUME ThreadInv, UNCHANGED threadVars
  PROVE  ThreadInv'
BY DEF threadVars, ThreadInv, Registering

\* A thread takes the next id, which no other has.
LEMMA FetchAddInv ==
  ASSUME ThreadInv, NEW t \in AppThread, NEW size \in Size, FetchAdd(t, size)
  PROVE  ThreadInv'
<1>1. /\ tpc[t] = "out" /\ UNCHANGED buffer
      /\ thread_id' = [thread_id EXCEPT ![t] = appID]
      /\ appID' = appID + 1
      /\ asked' = [asked EXCEPT ![t] = {size}]
      /\ tpc' = [tpc EXCEPT ![t] = "id"]
  BY DEF FetchAdd
<1>2. Registering' = Registering \cup {t} /\ t \notin Registering
  BY <1>1 DEF ThreadInv, Registering
<1>3. IsFiniteSet(Registering)
  BY CountAssumption, FS_Subset DEF Registering
<1>4. appID \in Nat /\ appID' = Cardinality(Registering')
  BY <1>1, <1>2, <1>3, FS_AddElement, FS_CardinalityType DEF ThreadInv
<1>5. /\ tpc' \in [AppThread -> {"out", "id", "registered"}]
      /\ thread_id' \in [AppThread -> Nat]
      /\ asked' \in [AppThread -> SUBSET Size]
      /\ buffer' \in [AppThread -> Nat \X Nat]
  BY <1>1, <1>4 DEF ThreadInv
<1>6. ASSUME NEW u \in AppThread
      PROVE  /\ IsFiniteSet(asked'[u])
             /\ tpc'[u] # "out" => thread_id'[u] < appID'
             /\ tpc'[u] = "registered" =>
                  \E z \in asked'[u] : buffer'[u] = <<thread_id'[u] * z, z>>
  <2>1. CASE u = t
    <3>1. asked'[u] = {size} /\ tpc'[u] = "id" /\ thread_id'[u] = appID
      BY <1>1, <2>1 DEF ThreadInv
    <3>2. IsFiniteSet(asked'[u])
      BY <3>1, FS_Singleton
    <3>3. thread_id'[u] < appID'
      BY <1>1, <1>4, <3>1
    <3>4. tpc'[u] # "registered"
      BY <3>1
    <3> QED
      BY <3>2, <3>3, <3>4
  <2>2. CASE u # t
    <3>1. /\ asked'[u] = asked[u] /\ tpc'[u] = tpc[u] /\ thread_id'[u] = thread_id[u]
          /\ buffer'[u] = buffer[u] /\ thread_id[u] \in Nat
      BY <1>1, <2>2 DEF ThreadInv
    <3>2. /\ IsFiniteSet(asked[u]) /\ (tpc[u] # "out" => thread_id[u] < appID)
          /\ tpc[u] = "registered" =>
               \E z \in asked[u] : buffer[u] = <<thread_id[u] * z, z>>
      BY DEF ThreadInv
    <3>3. tpc[u] # "out" => thread_id[u] < appID'
      BY <1>1, <1>4, <3>1, <3>2
    <3>4. ASSUME tpc'[u] = "registered"
          PROVE  \E z \in asked'[u] : buffer'[u] = <<thread_id'[u] * z, z>>
      <4>1. PICK z \in asked[u] : buffer[u] = <<thread_id[u] * z, z>>
        BY <3>1, <3>2, <3>4
      <4>2. z \in asked'[u] /\ buffer'[u] = <<thread_id'[u] * z, z>>
        BY <3>1, <4>1
      <4> QED
        BY <4>2
    <3> QED
      BY <3>1, <3>2, <3>3, <3>4
  <2> QED
    BY <2>1, <2>2
<1>7. \A u, w \in Registering' : thread_id'[u] = thread_id'[w] => u = w
  <2>1. thread_id'[t] = appID
    BY <1>1 DEF ThreadInv
  <2>2. \A u \in Registering : thread_id'[u] = thread_id[u] /\ thread_id[u] \in Nat /\ thread_id[u] < appID
    BY <1>1, <1>2 DEF ThreadInv, Registering
  <2>3. \A u, w \in Registering : thread_id[u] = thread_id[w] => u = w
    BY DEF ThreadInv
  <2> QED
    BY <1>2, <1>4, <2>1, <2>2, <2>3
<1> QED
  BY <1>4, <1>5, <1>6, <1>7 DEF ThreadInv

\* Its buffer lies at its id times the size it has asked for.
LEMMA PlaceBufferInv ==
  ASSUME ThreadInv, NEW t \in AppThread, PlaceBuffer(t)
  PROVE  ThreadInv'
<1>1. /\ tpc[t] = "id" /\ UNCHANGED <<appID, thread_id, asked>>
      /\ tpc' = [tpc EXCEPT ![t] = "registered"]
  BY DEF PlaceBuffer
<1>2. PICK size \in asked[t] : buffer' = [buffer EXCEPT ![t] = <<thread_id[t] * size, size>>]
  BY DEF PlaceBuffer
<1>3. Registering' = Registering
  BY <1>1 DEF ThreadInv, Registering
<1>4. size \in Nat /\ thread_id[t] \in Nat
  BY CountAssumption DEF ThreadInv
<1>5. thread_id[t] * size \in Nat
  BY <1>4
<1>6. /\ tpc' \in [AppThread -> {"out", "id", "registered"}]
      /\ buffer' \in [AppThread -> Nat \X Nat]
  BY <1>1, <1>2, <1>4, <1>5 DEF ThreadInv
<1>7. ASSUME NEW u \in AppThread
      PROVE  /\ tpc'[u] # "out" => thread_id[u] < appID
             /\ tpc'[u] = "registered" =>
                  \E z \in asked[u] : buffer'[u] = <<thread_id[u] * z, z>>
  <2>1. CASE u = t
    BY <1>1, <1>2, <2>1 DEF ThreadInv
  <2>2. CASE u # t
    BY <1>1, <1>2, <2>2 DEF ThreadInv
  <2> QED
    BY <2>1, <2>2
<1> QED
  BY <1>1, <1>3, <1>6, <1>7 DEF ThreadInv

\* A thread that registers again keeps what it has.
LEMMA RegisterAgainInv ==
  ASSUME ThreadInv, NEW t \in AppThread, NEW size \in Size, RegisterAgain(t, size)
  PROVE  ThreadInv'
<1>1. /\ asked' = [asked EXCEPT ![t] = @ \cup {size}]
      /\ UNCHANGED <<appID, tpc, thread_id, buffer>>
  BY DEF RegisterAgain
<1>2. Registering' = Registering
  BY <1>1 DEF Registering
<1>3. asked' \in [AppThread -> SUBSET Size]
  BY <1>1 DEF ThreadInv
<1>4. \A u \in AppThread : asked[u] \subseteq asked'[u] /\ IsFiniteSet(asked'[u])
  <2>1. IsFiniteSet(asked[t] \cup {size})
    BY FS_AddElement DEF ThreadInv
  <2> QED
    BY <1>1, <2>1 DEF ThreadInv
<1>5. \A u \in AppThread : tpc[u] = "registered" =>
        \E z \in asked'[u] : buffer[u] = <<thread_id[u] * z, z>>
  BY <1>4 DEF ThreadInv
<1> QED
  BY <1>1, <1>2, <1>3, <1>4, <1>5 DEF ThreadInv

-----------------------------------------------------------------------------
\* The initial states.
LEMMA InitSetupInv == SetupInit => SetupInv
<1> SUFFICES ASSUME SetupInit PROVE SetupInv
  OBVIOUS
<1>1. BuildTypeOK
  BY ConnectionFacts DEF SetupInit, BuildTypeOK
<1>2. \A c \in Connection : c \in Nat /\ c >= 1
  BY ConnectionFacts
<1>3. ContextWhole
  BY <1>1, <1>2 DEF SetupInit, ContextWhole, BuildTypeOK
<1>4. StageInv
  BY DEF SetupInit, StageInv
<1>5. ContextInv
  BY <1>1, <1>2, <1>3, <1>4 DEF SetupInit, ContextInv, Building, BuildTypeOK
<1>6. \A c \in Connection : Attempted(c) = {}
  BY <1>2 DEF SetupInit, Attempted
<1>7. PartsInv
  BY <1>6 DEF SetupInit, PartsInv
<1>8. Registering = {} /\ Cardinality({}) = 0 /\ IsFiniteSet({})
  BY FS_EmptySet DEF SetupInit, Registering
<1>9. ThreadInv
  BY <1>8, CountAssumption DEF SetupInit, ThreadInv
<1> QED
  BY <1>1, <1>5, <1>7, <1>9 DEF SetupInv

\* Every step.
LEMMA NextSetupInv == SetupInv /\ [SetupNext]_setupVars => SetupInv'
<1> SUFFICES ASSUME SetupInv, [SetupNext]_setupVars PROVE SetupInv'
  OBVIOUS
<1>1. BuildInv /\ ThreadInv
  BY DEF SetupInv, BuildInv
<1>2. CASE Construct
  <2>1. UNCHANGED threadVars
    BY <1>2 DEF Construct, MapPools, createContext, Acquire, Query, FreeList, SetContext, Cleanup,
       CreatePart, NextConnection, Announce, ConnectToSelf
  <2>2. BuildInv'
    BY <1>1, <1>2, MapPoolsInv, AcquireInv, QueryInv, FreeListInv, SetContextInv, CleanupInv,
       CreatePartInv, NextConnectionInv, AnnounceInv DEF Construct, createContext
  <2> QED
    BY <1>1, <2>1, <2>2, SameThreads DEF SetupInv, BuildInv
<1>3. ASSUME NEW t \in AppThread, register_thread(t)
      PROVE  SetupInv'
  <2>1. UNCHANGED buildVars
    BY <1>3 DEF register_thread, FetchAdd, PlaceBuffer, RegisterAgain
  <2>2. ThreadInv'
    BY <1>1, <1>3, FetchAddInv, PlaceBufferInv, RegisterAgainInv DEF register_thread
  <2> QED
    BY <1>1, <2>1, <2>2, SameBuild DEF SetupInv, BuildInv
<1>4. CASE UNCHANGED setupVars
  BY <1>1, <1>4, SameBuild, SameThreads DEF setupVars, SetupInv, BuildInv
<1> QED
  BY <1>2, <1>3, <1>4 DEF SetupNext

\* The constructor's bookkeeping of what it holds, and ids that are all different
\* (Resource.cpp, createContext; DSM.cpp, register_thread).
THEOREM SetupInvariance == SetupSpec => []SetupInv
BY InitSetupInv, NextSetupInv, PTL DEF SetupSpec

\* createContext releases all it holds when it fails, once, and returns with what
\* it promises when it succeeds, for any number of connections and failures.
THEOREM ContextsWhole == SetupSpec => []ContextWhole
<1>1. SetupInv => ContextWhole
  BY DEF SetupInv, ContextInv
<1> QED
  BY <1>1, SetupInvariance, PTL

\* The parts of a process that is through with them.
LEMMA AllSurvived ==
  ASSUME SetupInv, pc \in {"announced", "up"}, NEW c \in Connection
  PROVE  \A i \in DOMAIN Parts(c) : Survived(c, Parts(c)[i])
<1>1. cur = NetThreadCnt + DirectoryCnt /\ step = Len(Parts(cur)) + 1 /\ cur \in Connection
  BY ConnectionFacts DEF SetupInv, PartsInv
<1>2. c \in Nat /\ c <= cur /\ cur \in Nat
  BY <1>1, ConnectionFacts
<1>3. Len(Parts(cur)) \in Nat /\ DOMAIN Parts(cur) = 1 .. Len(Parts(cur))
  BY <1>1, PartFacts
<1>4. Attempted(c) = DOMAIN Parts(c)
  BY <1>1, <1>2, <1>3 DEF Attempted
<1> QED
  BY <1>4 DEF SetupInv, PartsInv

\* Whatever call failed, a process that announces itself has all the resources
\* whose loss anybody could notice; a null pointer has ended it otherwise.
THEOREM AnnouncedHasAll == SetupSpec => []AnnouncedWhole
<1>1. ASSUME SetupInv, pc \in {"announced", "up"} PROVE AnnouncedWhole
  <2>1. \A c \in Connection : \A i \in DOMAIN Parts(c) : Survived(c, Parts(c)[i])
    BY <1>1, AllSurvived
  <2>2. ASSUME NEW c \in Connection, c <= NetThreadCnt
        PROVE  /\ "buf" \in pools
               /\ \A i \in DOMAIN Parts(c) : Parts(c)[i] \in held[c] \cup Unchecked
    <3>1. Parts(c) = ThreadParts /\ DOMAIN ThreadParts = 1 .. 9
      BY <2>2 DEF Parts, ThreadParts
    <3>2. /\ Survived(c, "ud_qp") /\ Survived(c, "ud_rts") /\ Survived(c, "message_mr")
          /\ Survived(c, "cache_mr") /\ Survived(c, "rc_qps")
      BY <2>1, <3>1 DEF ThreadParts
    <3>3. {"cq", "ud_cq", "send_cq", "ud_qp", "pool", "message_mr", "cache_mr"} \subseteq held[c]
      BY <2>1, <3>2 DEF Survived, Uses, KeyRead
    <3>4. \A i \in 1 .. 9 : ThreadParts[i] \in held[c] \cup Unchecked
      BY <3>3 DEF ThreadParts, Unchecked
    <3> QED
      BY <3>1, <3>2, <3>4 DEF Survived
  <2>3. ASSUME NEW c \in Connection, ~(c <= NetThreadCnt)
        PROVE  /\ "dsm" \in pools
               /\ \A i \in DOMAIN Parts(c) : Parts(c)[i] \in held[c] \cup Unchecked
    <3>1. Parts(c) = DirectoryParts /\ DOMAIN DirectoryParts = 1 .. 7
      BY <2>3 DEF Parts, DirectoryParts
    <3>2. /\ Survived(c, "dsm_mr") /\ Survived(c, "cache_mr") /\ Survived(c, "overrun")
          /\ Survived(c, "rc_qps")
      BY <2>1, <3>1 DEF DirectoryParts
    <3>3. {"cq", "dsm_mr", "cache_mr", "recv_cq"} \subseteq held[c]
      BY <2>1, <3>2 DEF Survived, Uses, KeyRead
    <3>4. \A i \in 1 .. 7 : DirectoryParts[i] \in held[c] \cup Unchecked
      BY <3>3 DEF DirectoryParts, Unchecked
    <3> QED
      BY <3>1, <3>2, <3>4 DEF Survived
  <2>4. 1 <= NetThreadCnt /\ ~(NetThreadCnt + DirectoryCnt <= NetThreadCnt)
    BY CountAssumption
  <2>5. pools = {"dsm", "buf"}
    BY <1>1, <2>2, <2>3, <2>4, ConnectionFacts DEF SetupInv, BuildTypeOK
  <2> QED
    BY <2>2, <2>3, <2>5 DEF AnnouncedWhole
<1>2. SetupInv => AnnouncedWhole
  BY <1>1 DEF AnnouncedWhole
<1> QED
  BY <1>2, SetupInvariance, PTL

\* A multiple of a size and the next one.
LEMMA SharesApart ==
  ASSUME NEW a \in Nat, NEW b \in Nat, NEW z \in Nat, a < b
  PROVE  a * z + z <= b * z
<1>1. PICK d \in Nat : b = a + 1 + d
  <2>1. b - a - 1 \in Nat /\ b = a + 1 + (b - a - 1)
    OBVIOUS
  <2> QED
    BY <2>1
<1>2. d * z \in Nat /\ (a + 1 + d) * z = a * z + z + d * z /\ a * z \in Nat
  OBVIOUS
<1> QED
  BY <1>1, <1>2

\* Threads that registered have different ids, below the number of connections,
\* and disjoint buffers if all ever asked for one size, for any number of threads.
THEOREM ThreadsKeptApart == SetupSpec => []ThreadsApart
<1>1. ASSUME SetupInv, NEW t \in AppThread, NEW u \in AppThread, t # u,
             tpc[t] = "registered", tpc[u] = "registered"
      PROVE  /\ thread_id[t] # thread_id[u]
             /\ thread_id[t] < NetThreadCnt
             /\ Cardinality(asked[t] \cup asked[u]) = 1 =>
                  \/ buffer[t][1] + buffer[t][2] <= buffer[u][1]
                  \/ buffer[u][1] + buffer[u][2] <= buffer[t][1]
  <2>1. /\ thread_id[t] \in Nat /\ thread_id[u] \in Nat /\ thread_id[t] < appID
        /\ thread_id[t] # thread_id[u]
    BY <1>1 DEF SetupInv, ThreadInv, Registering
  <2>2. appID \in Nat /\ appID <= NetThreadCnt
    <3>1. Registering \in SUBSET AppThread
      BY DEF Registering
    <3>2. /\ IsFiniteSet(Registering) /\ Cardinality(Registering) <= Cardinality(AppThread)
          /\ Cardinality(Registering) \in Nat /\ Cardinality(AppThread) \in Nat
      BY <3>1, CountAssumption, FS_Subset, FS_CardinalityType
    <3> QED
      BY <1>1, <3>2, CountAssumption DEF SetupInv, ThreadInv
  <2>3. ASSUME Cardinality(asked[t] \cup asked[u]) = 1
        PROVE  \/ buffer[t][1] + buffer[t][2] <= buffer[u][1]
               \/ buffer[u][1] + buffer[u][2] <= buffer[t][1]
    <3>1. IsFiniteSet(asked[t] \cup asked[u])
      BY <1>1, FS_Union DEF SetupInv, ThreadInv
    <3>2. PICK z : asked[t] \cup asked[u] = {z}
      BY <2>3, <3>1, FS_Singleton
    <3>3. buffer[t] = <<thread_id[t] * z, z>> /\ buffer[u] = <<thread_id[u] * z, z>>
      BY <1>1, <3>2 DEF SetupInv, ThreadInv
    <3>4. z \in Nat
      BY <1>1, <3>2, CountAssumption DEF SetupInv, ThreadInv
    <3>5. /\ thread_id[t] < thread_id[u] => thread_id[t] * z + z <= thread_id[u] * z
          /\ thread_id[u] < thread_id[t] => thread_id[u] * z + z <= thread_id[t] * z
      BY <2>1, <3>4, SharesApart
    <3>6. thread_id[t] < thread_id[u] \/ thread_id[u] < thread_id[t]
      BY <2>1
    <3> QED
      BY <3>3, <3>5, <3>6
  <2>4. thread_id[t] < NetThreadCnt
    BY <2>1, <2>2, CountAssumption
  <2> QED
    BY <2>1, <2>3, <2>4
<1>2. SetupInv => ThreadsApart
  BY <1>1 DEF ThreadsApart
<1> QED
  BY <1>2, SetupInvariance, PTL

-----------------------------------------------------------------------------
(***************************************************************************)
(* The inductive invariant: the ids are given out one by one, a record in  *)
(* memcached is the one its node makes for the peer, a process has         *)
(* connected exactly the queue pairs its loop has passed and saved what    *)
(* their peers published, and it comes to the barrier when these are all.  *)
(***************************************************************************)

Entered == {p \in Process : kpc[p] \notin {"enter", "lost"}}

TypeOK ==
  /\ kpc \in [Process -> {"enter", "lost", "exited", "poll", "set", "get", "self", "connected"}]
  /\ myNodeID \in [Process -> 0 .. MachineCnt]
  /\ curServer \in [Process -> 0 .. MachineCnt]
  /\ seen \in [Process -> 0 .. MachineCnt]
  /\ peer \in [Process -> 0 .. MachineCnt]
  /\ DOMAIN localMeta = Process
  /\ DOMAIN qp = QueuePair
  /\ DOMAIN remoteCon = Node /\ \A i \in Node : DOMAIN remoteCon[i] = Node
  /\ DOMAIN stored = Node /\ \A i \in Node : DOMAIN stored[i] = Node

IdInv ==
  /\ serverNum = Cardinality(Entered)
  /\ \A p \in Entered : myNodeID[p] \in 0 .. serverNum - 1
  /\ \A n \in 0 .. serverNum - 1 : \E p \in Entered : myNodeID[p] = n
  /\ \A p, r \in Entered : myNodeID[p] = myNodeID[r] => p = r

StoreInv == \A i, j \in Node : stored[i][j] \in {NoRecord, SetDataToRemote(i, j)}

LoopInv ==
  \A p \in Process :
    /\ kpc[p] = "enter" => curServer[p] = 0
    /\ kpc[p] = "poll" => curServer[p] < MachineCnt
    /\ kpc[p] \in {"set", "get"} =>
         /\ peer[p] # myNodeID[p] /\ peer[p] < seen[p]
         /\ seen[p] <= serverNum

\* The nodes a process has connected its queue pairs to.
Handled(p) ==
  CASE kpc[p] = "poll"           -> 0 .. curServer[p] - 1 \ {myNodeID[p]}
    [] kpc[p] \in {"set", "get"} -> 0 .. peer[p] - 1 \ {myNodeID[p]}
    [] kpc[p] = "self"           -> Node \ {myNodeID[p]}
    [] kpc[p] = "connected"      -> Node
    [] OTHER                     -> {}

Linked(q) == \E p \in Entered : q.node = myNodeID[p] /\ q.peer \in Handled(p)

ConnectInv == \A q \in QueuePair : IF Linked(q) THEN Ready(q) ELSE qp[q] = NewQP

SavedInv == \A p \in Entered : \A r \in Handled(p) : remoteCon[myNodeID[p]][r] = r

MeetInv ==
  /\ Meeting!BarrierInv
  /\ \A p \in Process : bpc[p] # "out" => kpc[p] = "connected"

KeeperInv ==
  TypeOK /\ IdInv /\ StoreInv /\ LoopInv /\ ConnectInv /\ SavedInv /\ MeetInv

-----------------------------------------------------------------------------
(***************************************************************************)
(* Keeper.                                                                 *)
(***************************************************************************)

PC == {"enter", "lost", "exited", "poll", "set", "get", "self", "connected"}

\* The module of finite sets comes twice, once by way of Barrier.
LEMMA SameCardinality == \A S : Meeting!Cardinality(S) = Cardinality(S)
BY DEF Cardinality, Meeting!Cardinality

LEMMA Counts ==
  /\ IsFiniteSet(Process) /\ MachineCnt \in Nat \ {0}
  /\ \A S \in SUBSET Process :
       IsFiniteSet(S) /\ Cardinality(S) \in 0 .. MachineCnt /\ (Cardinality(S) = MachineCnt => S = Process)
<1>1. IsFiniteSet(Process) /\ Process # {}
  BY ProcessAssumption
<1>2. MachineCnt \in Nat /\ MachineCnt # 0
  BY <1>1, FS_CardinalityType, FS_EmptySet DEF MachineCnt
<1>3. ASSUME NEW S \in SUBSET Process
      PROVE  /\ IsFiniteSet(S) /\ Cardinality(S) \in 0 .. MachineCnt
             /\ Cardinality(S) = MachineCnt => S = Process
  <2>1. /\ IsFiniteSet(S) /\ Cardinality(S) <= Cardinality(Process)
        /\ Cardinality(S) = Cardinality(Process) => S = Process
    BY <1>1, FS_Subset
  <2>2. Cardinality(S) \in Nat
    BY <2>1, FS_CardinalityType
  <2> QED
    BY <1>2, <2>1, <2>2 DEF MachineCnt
<1> QED
  BY <1>1, <1>2, <1>3

\* The numbers, with the types of the variables of a process.
LEMMA Facts ==
  ASSUME KeeperInv, NEW p \in Process
  PROVE  /\ MachineCnt \in Nat \ {0} /\ Node = 0 .. MachineCnt - 1
         /\ kpc \in [Process -> PC] /\ kpc[p] \in PC
         /\ serverNum = Cardinality(Entered) /\ serverNum \in 0 .. MachineCnt
         /\ curServer[p] \in 0 .. MachineCnt /\ seen[p] \in 0 .. MachineCnt
         /\ peer[p] \in 0 .. MachineCnt
         /\ p \in Entered <=> kpc[p] \notin {"enter", "lost"}
         /\ p \in Entered => myNodeID[p] \in Node /\ myNodeID[p] < serverNum
<1>1. MachineCnt \in Nat \ {0} /\ Node = 0 .. MachineCnt - 1
  BY Counts DEF Node
<1>2. Entered \in SUBSET Process
  BY DEF Entered
<1>3. serverNum = Cardinality(Entered) /\ serverNum \in 0 .. MachineCnt
  BY <1>2, Counts DEF KeeperInv, IdInv
<1>4. /\ kpc \in [Process -> PC] /\ kpc[p] \in PC
      /\ curServer[p] \in 0 .. MachineCnt /\ seen[p] \in 0 .. MachineCnt
      /\ peer[p] \in 0 .. MachineCnt
  BY DEF KeeperInv, TypeOK, PC
<1>5. p \in Entered <=> kpc[p] \notin {"enter", "lost"}
  BY DEF Entered
<1>6. p \in Entered => myNodeID[p] \in 0 .. serverNum - 1
  BY DEF KeeperInv, IdInv
<1>7. p \in Entered => myNodeID[p] \in Node /\ myNodeID[p] < serverNum
  BY <1>1, <1>3, <1>6
<1> QED
  BY <1>1, <1>3, <1>4, <1>5, <1>7

\* Handled, place by place.
LEMMA HandledAt ==
  ASSUME NEW p
  PROVE  /\ kpc[p] = "poll" => Handled(p) = (0 .. curServer[p] - 1) \ {myNodeID[p]}
         /\ kpc[p] \in {"set", "get"} => Handled(p) = (0 .. peer[p] - 1) \ {myNodeID[p]}
         /\ kpc[p] = "self" => Handled(p) = Node \ {myNodeID[p]}
         /\ kpc[p] = "connected" => Handled(p) = Node
         /\ kpc[p] \in {"enter", "lost", "exited"} => Handled(p) = {}
BY DEF Handled

LEMMA HandledAtNext ==
  ASSUME NEW p
  PROVE  /\ kpc'[p] = "poll" => Handled(p)' = (0 .. curServer'[p] - 1) \ {myNodeID'[p]}
         /\ kpc'[p] \in {"set", "get"} => Handled(p)' = (0 .. peer'[p] - 1) \ {myNodeID'[p]}
         /\ kpc'[p] = "self" => Handled(p)' = Node \ {myNodeID'[p]}
         /\ kpc'[p] = "connected" => Handled(p)' = Node
         /\ kpc'[p] \in {"enter", "lost", "exited"} => Handled(p)' = {}
BY DEF Handled

LEMMA HandledNodes ==
  ASSUME KeeperInv, NEW p \in Process
  PROVE  Handled(p) \subseteq Node
<1>1. /\ MachineCnt \in Nat \ {0} /\ Node = 0 .. MachineCnt - 1 /\ kpc[p] \in PC
      /\ curServer[p] \in 0 .. MachineCnt /\ peer[p] \in 0 .. MachineCnt
  BY Facts
<1>2. 0 .. curServer[p] - 1 \subseteq Node /\ 0 .. peer[p] - 1 \subseteq Node
  BY <1>1
<1> QED
  BY <1>1, <1>2, HandledAt DEF PC

\* The id of a process is its own.
LEMMA LinkedOf ==
  ASSUME KeeperInv, NEW p \in Entered, NEW q \in QueuePair, q.node = myNodeID[p]
  PROVE  Linked(q) <=> q.peer \in Handled(p)
BY DEF KeeperInv, IdInv, Linked

-----------------------------------------------------------------------------
(***************************************************************************)
(* Queue pairs.                                                            *)
(***************************************************************************)

LEMMA QpFields ==
  ASSUME NEW q \in QueuePair
  PROVE  /\ q.side \in {"app", "dir"} /\ q.node \in Node /\ q.peer \in Node
         /\ q.thread \in NetThread /\ q.dir \in Directory /\ Exists(q)
         /\ q = [side |-> q.side, node |-> q.node, peer |-> q.peer, thread |-> q.thread, dir |-> q.dir]
BY DEF QueuePair, QP

LEMMA MirrorFields ==
  ASSUME NEW q \in QueuePair
  PROVE  Mirror(q) = [side |-> IF q.side = "app" THEN "dir" ELSE "app", node |-> q.peer,
                      peer |-> q.node, thread |-> q.thread, dir |-> q.dir]
<1> DEFINE s == IF q.side = "app" THEN "dir" ELSE "app"
           a == q.peer
           b == q.node
           e == [q EXCEPT !.side = s, !.node = a, !.peer = b]
<1>1. q \in QP /\ s \in {"app", "dir"} /\ a \in Node /\ b \in Node
  BY DEF QueuePair, QP
<1> HIDE DEF s, a, b
<1>2. /\ e \in QP /\ e.side = s /\ e.node = a /\ e.peer = b
      /\ e.thread = q.thread /\ e.dir = q.dir
  BY <1>1 DEF QP
<1> HIDE DEF e
<1>3. e = [side |-> e.side, node |-> e.node, peer |-> e.peer, thread |-> e.thread, dir |-> e.dir]
  BY <1>2 DEF QP
<1>4. e = [side |-> s, node |-> a, peer |-> b, thread |-> q.thread, dir |-> q.dir]
  BY <1>2, <1>3
<1> QED
  BY <1>4 DEF Mirror, e, s, a, b

\* A new queue pair that is connected gets to the state rts.
LEMMA ConnectNew ==
  \A d : Connect(NewQP, d) = [state |-> "rts", dest |-> d]
BY DEF Connect, NewQP, ModifyQPtoInit, ModifyQPtoRTR, ModifyQPtoRTS

\* The number that a queue pair finds in the record of its peer is that of the queue
\* pair made for it there.
LEMMA OtherEnd ==
  ASSUME NEW q \in QueuePair
  PROVE  (IF q.side = "dir" THEN SetDataToRemote(q.peer, q.node).app[q.thread][q.dir]
                            ELSE SetDataToRemote(q.peer, q.node).dir[q.dir][q.thread]) = Mirror(q)
<1>1. CASE q.side = "dir"
  <2> DEFINE m == AppQP(q.peer, q.thread, q.dir, q.node)
  <2>1. SetDataToRemote(q.peer, q.node).app[q.thread][q.dir] = Number(m)
    BY QpFields DEF SetDataToRemote
  <2>2. m = Mirror(q)
    BY <1>1, MirrorFields DEF AppQP
  <2>3. Exists(m)
    BY <1>1, QpFields DEF Exists, AppQP
  <2> QED
    BY <1>1, <2>1, <2>2, <2>3 DEF Number
<1>2. CASE q.side = "app"
  <2> DEFINE m == DirQP(q.peer, q.thread, q.dir, q.node)
  <2>1. SetDataToRemote(q.peer, q.node).dir[q.dir][q.thread] = Number(m)
    BY QpFields DEF SetDataToRemote
  <2>2. m = Mirror(q)
    BY <1>2, MirrorFields DEF DirQP
  <2>3. Exists(m)
    BY <1>2, QpFields DEF Exists, DirQP
  <2> QED
    BY <1>2, <2>1, <2>2, <2>3 DEF Number
<1> QED
  BY <1>1, <1>2, QpFields

\* setDataFromRemote with the record the peer made for the node: the queue pairs for
\* that peer, if they were new, are ready, and the others are what they were.
LEMMA Connected ==
  ASSUME NEW n \in Node, NEW r \in Node,
         SetDataFromRemote(n, r, SetDataToRemote(r, n)),
         \A q \in QueuePair : q.node = n /\ q.peer = r => qp[q] = NewQP
  PROVE  /\ DOMAIN qp' = QueuePair
         /\ \A q \in QueuePair : IF q.node = n /\ q.peer = r THEN Ready(q)' ELSE qp'[q] = qp[q]
         /\ remoteCon' = [remoteCon EXCEPT ![n][r] = r]
<1> DEFINE meta == SetDataToRemote(r, n)
           end(q) == IF q.side = "dir" THEN meta.app[q.thread][q.dir] ELSE meta.dir[q.dir][q.thread]
<1>1. qp' = [q \in QueuePair |-> IF q.node # n \/ q.peer # r THEN qp[q] ELSE Connect(qp[q], end(q))]
  BY DEF SetDataFromRemote
<1>2. \A q \in QueuePair : q.node = n /\ q.peer = r => end(q) = Mirror(q)
  BY OtherEnd
<1> HIDE DEF end, meta
<1>3. ASSUME NEW q \in QueuePair, q.node = n, q.peer = r PROVE Ready(q)'
  <2>1. qp'[q] = Connect(NewQP, Mirror(q))
    BY <1>1, <1>2, <1>3
  <2> QED
    BY <2>1, ConnectNew DEF Ready
<1>4. ASSUME NEW q \in QueuePair, ~(q.node = n /\ q.peer = r) PROVE qp'[q] = qp[q]
  BY <1>1, <1>4
<1>5. DOMAIN qp' = QueuePair
  BY <1>1
<1>6. SetDataToRemote(r, n).own = r
  BY DEF SetDataToRemote
<1>7. remoteCon' = [remoteCon EXCEPT ![n][r] = r]
  BY <1>6 DEF SetDataFromRemote
<1> QED
  BY <1>3, <1>4, <1>5, <1>7

-----------------------------------------------------------------------------
(***************************************************************************)
(* What most steps leave alone.                                            *)
(***************************************************************************)

LEMMA SameHandled ==
  ASSUME NEW r, kpc'[r] = kpc[r], curServer'[r] = curServer[r], peer'[r] = peer[r],
         myNodeID'[r] = myNodeID[r]
  PROVE  Handled(r)' = Handled(r)
BY DEF Handled

LEMMA SameIds ==
  ASSUME KeeperInv, UNCHANGED <<serverNum, myNodeID>>,
         \A r \in Process : kpc'[r] \in {"enter", "lost"} <=> kpc[r] \in {"enter", "lost"}
  PROVE  Entered' = Entered /\ IdInv'
<1>1. Entered' = Entered
  BY DEF Entered
<1> QED
  BY <1>1 DEF KeeperInv, IdInv

LEMMA SameStore ==
  ASSUME KeeperInv, UNCHANGED stored
  PROVE  StoreInv'
BY DEF KeeperInv, StoreInv, SetDataToRemote, Number, Exists, TargetDir, AppQP, DirQP

LEMMA SameLinks ==
  ASSUME KeeperInv, Entered' = Entered,
         UNCHANGED <<kpc, myNodeID, curServer, peer, qp, remoteCon>>
  PROVE  ConnectInv' /\ SavedInv'
<1>1. \A r \in Process : Handled(r)' = Handled(r)
  BY SameHandled
<1>2. Entered \subseteq Process
  BY DEF Entered
<1>3. \A q \in QueuePair : (Linked(q)' <=> Linked(q)) /\ (Ready(q)' <=> Ready(q))
  BY <1>1, <1>2 DEF Linked, Ready
<1>4. ConnectInv'
  BY <1>3 DEF KeeperInv, ConnectInv
<1>5. SavedInv'
  BY <1>1, <1>2 DEF KeeperInv, SavedInv
<1> QED
  BY <1>4, <1>5

LEMMA SameMeeting ==
  ASSUME KeeperInv, UNCHANGED meetingVars,
         \A r \in Process : kpc[r] = "connected" => kpc'[r] = "connected"
  PROVE  MeetInv'
BY DEF KeeperInv, MeetInv, meetingVars, Meeting!BarrierInv, Meeting!Arrived

\* A step in which process p connects its queue pairs for the nodes in S, which were
\* new, and no other process connects any.
LEMMA Linking ==
  ASSUME KeeperInv, NEW p \in Entered, Entered' = Entered, myNodeID' = myNodeID,
         \A r \in Process \ {p} : Handled(r)' = Handled(r),
         NEW S, Handled(p)' = Handled(p) \cup S,
         \A q \in QueuePair : IF q.node = myNodeID[p] /\ q.peer \in S THEN Ready(q)'
                              ELSE qp'[q] = qp[q]
  PROVE  ConnectInv'
<1> SUFFICES ASSUME NEW q \in QueuePair PROVE IF Linked(q)' THEN Ready(q)' ELSE qp'[q] = NewQP
  BY DEF ConnectInv, NewQP, Ready, Mirror
<1>1. IF Linked(q) THEN Ready(q) ELSE qp[q] = NewQP
  BY DEF KeeperInv, ConnectInv
<1>2. qp'[q] = qp[q] => Ready(q)' = Ready(q)
  BY DEF Ready
<1>3. Linked(q)' <=> \E r \in Entered : q.node = myNodeID[r] /\ q.peer \in Handled(r)'
  BY DEF Linked
<1>4. Entered \subseteq Process
  BY DEF Entered
<1>5. CASE q.node = myNodeID[p]
  <2>1. \A r \in Entered : q.node = myNodeID[r] => r = p
    BY <1>5 DEF KeeperInv, IdInv
  <2>2. Linked(q)' <=> q.peer \in Handled(p) \/ q.peer \in S
    BY <1>3, <1>5, <2>1
  <2>3. Linked(q) <=> q.peer \in Handled(p)
    BY <1>5, LinkedOf
  <2> QED
    BY <1>1, <1>2, <1>5, <2>2, <2>3
<1>6. CASE q.node # myNodeID[p]
  <2>1. \A r \in Entered : q.node = myNodeID[r] => Handled(r)' = Handled(r)
    BY <1>4, <1>6
  <2>2. Linked(q)' <=> Linked(q)
    BY <1>3, <2>1 DEF Linked
  <2> QED
    BY <1>1, <1>2, <1>6, <2>2
<1> QED
  BY <1>5, <1>6

\* What process p saves, in a step in which it handles the nodes in S.
LEMMA Saving ==
  ASSUME KeeperInv, NEW p \in Entered, Entered' = Entered, myNodeID' = myNodeID,
         \A r \in Process \ {p} : Handled(r)' = Handled(r),
         NEW S, Handled(p)' = Handled(p) \cup S,
         \A r \in S : remoteCon'[myNodeID[p]][r] = r,
         \A i, r \in Node : i # myNodeID[p] \/ r \notin S => remoteCon'[i][r] = remoteCon[i][r]
  PROVE  SavedInv'
<1> SUFFICES ASSUME NEW s \in Entered, NEW r \in Handled(s)'
             PROVE  remoteCon'[myNodeID[s]][r] = r
  BY DEF SavedInv
<1>1. s \in Process
  BY DEF Entered
<1>2. CASE s = p /\ r \in S
  BY <1>2
<1>3. CASE ~(s = p /\ r \in S)
  <2>1. r \in Handled(s)
    BY <1>1, <1>3
  <2>2. remoteCon[myNodeID[s]][r] = r
    BY <2>1 DEF KeeperInv, SavedInv
  <2>3. r \in Node /\ myNodeID[s] \in Node
    BY <1>1, <2>1, HandledNodes, Facts
  <2>4. myNodeID[s] # myNodeID[p] \/ r \notin S
    BY <1>3 DEF KeeperInv, IdInv
  <2> QED
    BY <2>2, <2>3, <2>4
<1> QED
  BY <1>2, <1>3

\* The loop of serverConnect moves on when it has handled the ids below k, up to limit.
LEMMA MoveOnHandled ==
  ASSUME KeeperInv, NEW p \in Entered, NEW k \in Nat, NEW limit \in 1 .. serverNum, k <= limit,
         MoveOn(p, NotMe(p, k), limit),
         myNodeID' = myNodeID, seen'[p] = limit, serverNum' = serverNum
  PROVE  /\ kpc' \in [Process -> PC] /\ kpc'[p] \in {"set", "poll", "self"}
         /\ \A r \in Process \ {p} : /\ kpc'[r] = kpc[r] /\ curServer'[r] = curServer[r]
                                     /\ peer'[r] = peer[r]
         /\ curServer' \in [Process -> 0 .. MachineCnt] /\ peer' \in [Process -> 0 .. MachineCnt]
         /\ kpc'[p] = "poll" => curServer'[p] < MachineCnt
         /\ kpc'[p] = "set" => peer'[p] # myNodeID[p] /\ peer'[p] < seen'[p]
         /\ Handled(p)' = (0 .. k - 1) \ {myNodeID[p]}
<1> DEFINE id == myNodeID[p]
           j == NotMe(p, k)
<1>1. /\ p \in Process /\ id \in Nat
      /\ MachineCnt \in Nat \ {0} /\ limit \in 1 .. MachineCnt
      /\ Node = 0 .. MachineCnt - 1
  <2>1. p \in Process
    BY DEF Entered
  <2> QED
    BY <2>1, Facts
<1>2. j = IF k = id THEN k + 1 ELSE k
  BY DEF NotMe
<1>3. /\ kpc \in [Process -> PC] /\ curServer \in [Process -> 0 .. MachineCnt]
      /\ peer \in [Process -> 0 .. MachineCnt]
  BY DEF KeeperInv, TypeOK, PC
<1> HIDE DEF id, j
<1>4. CASE j < limit
  <2>1. /\ kpc' = [kpc EXCEPT ![p] = "set"] /\ peer' = [peer EXCEPT ![p] = j]
        /\ curServer' = curServer
    BY <1>4 DEF MoveOn, j
  <2>2. j \in 0 .. MachineCnt
    BY <1>1, <1>2, <1>4
  <2>3. /\ kpc' \in [Process -> PC] /\ kpc'[p] = "set" /\ peer'[p] = j
        /\ peer' \in [Process -> 0 .. MachineCnt]
        /\ \A r \in Process \ {p} : kpc'[r] = kpc[r] /\ peer'[r] = peer[r]
    BY <1>1, <1>3, <2>1, <2>2 DEF PC
  <2>4. Handled(p)' = (0 .. j - 1) \ {id}
    BY <2>3, HandledAtNext DEF id
  <2>5. (0 .. j - 1) \ {id} = (0 .. k - 1) \ {id}
    BY <1>1, <1>2
  <2>6. j # id
    BY <1>1, <1>2
  <2> QED
    BY <1>3, <1>4, <2>1, <2>3, <2>4, <2>5, <2>6 DEF id
<1>5. CASE ~(j < limit)
  <2> DEFINE l == IF limit < MachineCnt THEN "poll" ELSE "self"
  <2>1. /\ kpc' = [kpc EXCEPT ![p] = l]
        /\ curServer' = [curServer EXCEPT ![p] = limit] /\ peer' = peer
    BY <1>5 DEF MoveOn, j
  <2>2. l \in {"poll", "self"} /\ (l = "poll" <=> limit < MachineCnt)
    OBVIOUS
  <2> HIDE DEF l
  <2>3. /\ kpc' \in [Process -> PC] /\ kpc'[p] = l /\ curServer'[p] = limit
        /\ curServer' \in [Process -> 0 .. MachineCnt]
        /\ \A r \in Process \ {p} : kpc'[r] = kpc[r] /\ curServer'[r] = curServer[r]
    BY <1>1, <1>3, <2>1, <2>2 DEF PC
  <2>4. Handled(p)' = (0 .. limit - 1) \ {id}
    <3>1. CASE l = "poll"
      BY <2>3, <3>1, HandledAtNext DEF id
    <3>2. CASE l = "self"
      <4>1. limit = MachineCnt
        BY <1>1, <2>2, <3>2
      <4> QED
        BY <1>1, <2>3, <3>2, <4>1, HandledAtNext DEF id
    <3> QED
      BY <2>2, <3>1, <3>2
  <2>5. (0 .. limit - 1) \ {id} = (0 .. k - 1) \ {id}
    BY <1>1, <1>2, <1>5
  <2> QED
    BY <1>3, <2>1, <2>2, <2>3, <2>4, <2>5 DEF id
<1> QED
  BY <1>4, <1>5

-----------------------------------------------------------------------------

LEMMA InitKeeperInv == Init => KeeperInv
<1> SUFFICES ASSUME Init PROVE KeeperInv
  OBVIOUS
<1>1. MachineCnt \in Nat \ {0}
  BY Counts
<1>2. Entered = {}
  BY DEF Init, Entered
<1>3. TypeOK
  BY <1>1 DEF Init, TypeOK, NoNode
<1>4. IdInv
  BY <1>2, FS_EmptySet DEF Init, IdInv
<1>5. StoreInv
  BY DEF Init, StoreInv
<1>6. LoopInv
  BY DEF Init, LoopInv
<1>7. ConnectInv
  BY <1>2 DEF Init, ConnectInv, Linked
<1>9. SavedInv
  BY <1>2 DEF SavedInv
<1>8. MeetInv
  <2>1. Meeting!Arrived = {}
    BY DEF Init, Meeting!Init, Meeting!Arrived
  <2>2. Cardinality(Meeting!Arrived) = 0
    BY <2>1, FS_EmptySet
  <2>3. bpc = [p \in Process |-> "out"] /\ created = FALSE /\ counter = 0
    BY DEF Init, Meeting!Init
  <2>4. 0 \in 0 .. Cardinality(Meeting!Arrived)
    BY <2>2
  <2>5. /\ bpc \in [Process -> {"out", "set", "add", "spin", "left"}]
        /\ \A p \in Process : bpc[p] # "left"
        /\ created \in BOOLEAN
    BY <2>3
  <2>6. Meeting!BarrierInv
    BY <2>3, <2>4, <2>5, SameCardinality DEF Meeting!BarrierInv
  <2> QED
    BY <2>3, <2>6 DEF MeetInv
<1> QED
  BY <1>3, <1>4, <1>5, <1>6, <1>7, <1>8, <1>9 DEF KeeperInv

\* A process that finds no memcached has no id, as before.
LEMMA ConnectMemcachedFailsInv ==
  ASSUME KeeperInv, NEW p \in Process, ConnectMemcachedFails(p)
  PROVE  KeeperInv'
<1>1. /\ kpc[p] = "enter" /\ kpc' = [kpc EXCEPT ![p] = "lost"]
      /\ UNCHANGED <<myNodeID, curServer, seen, peer, localMeta, qp, remoteCon, serverNum, stored,
                     meetingVars>>
  BY DEF ConnectMemcachedFails, linkVars, storeVars
<1>2. /\ kpc' \in [Process -> PC] /\ kpc'[p] = "lost"
      /\ \A r \in Process \ {p} : kpc'[r] = kpc[r]
  BY <1>1, Facts DEF PC
<1>3. TypeOK'
  BY <1>1, <1>2 DEF KeeperInv, TypeOK, PC
<1>4. Entered' = Entered /\ IdInv'
  <2>1. \A r \in Process : kpc'[r] \in {"enter", "lost"} <=> kpc[r] \in {"enter", "lost"}
    BY <1>1, <1>2
  <2> QED
    BY <1>1, <2>1, SameIds
<1>5. StoreInv'
  BY <1>1, SameStore
<1>6. LoopInv'
  BY <1>1, <1>2 DEF KeeperInv, LoopInv
<1>7. \A r \in Entered : Handled(r)' = Handled(r)
  <2>1. \A r \in Entered : r \in Process \ {p}
    BY <1>1 DEF Entered
  <2> QED
    BY <1>1, <1>2, <2>1, SameHandled
<1>8. ConnectInv'
  <2>1. \A q \in QueuePair : (Linked(q)' <=> Linked(q)) /\ (Ready(q)' <=> Ready(q))
    BY <1>1, <1>4, <1>7 DEF Linked, Ready
  <2> QED
    BY <1>1, <2>1 DEF KeeperInv, ConnectInv
<1>9. SavedInv'
  BY <1>1, <1>4, <1>7 DEF KeeperInv, SavedInv
<1>10. MeetInv'
  <2>1. \A r \in Process : kpc[r] = "connected" => kpc'[r] = "connected"
    BY <1>1, <1>2
  <2> QED
    BY <1>1, <2>1, SameMeeting
<1> QED
  BY <1>3, <1>4, <1>5, <1>6, <1>8, <1>9, <1>10 DEF KeeperInv

\* The new id is the next one.
LEMMA ServerEnterInv ==
  ASSUME KeeperInv, NEW p \in Process, ServerEnter(p)
  PROVE  KeeperInv'
<1> DEFINE l == IF p \in Clients /\ serverNum < ServerCnt THEN "exited" ELSE "poll"
<1>1. /\ kpc[p] = "enter" /\ serverNum' = serverNum + 1
      /\ myNodeID' = [myNodeID EXCEPT ![p] = serverNum]
      /\ kpc' = [kpc EXCEPT ![p] = l]
      /\ UNCHANGED <<curServer, seen, peer, localMeta, qp, remoteCon, stored, meetingVars>>
  BY DEF ServerEnter, linkVars
<1>2. l \in {"exited", "poll"}
  OBVIOUS
<1> HIDE DEF l
<1>3. /\ kpc \in [Process -> PC] /\ myNodeID \in [Process -> 0 .. MachineCnt]
      /\ serverNum \in 0 .. MachineCnt /\ MachineCnt \in Nat \ {0}
      /\ Node = 0 .. MachineCnt - 1
  BY Facts DEF KeeperInv, TypeOK
<1>4. /\ kpc'[p] = l /\ kpc' \in [Process -> PC] /\ myNodeID'[p] = serverNum
      /\ myNodeID' \in [Process -> 0 .. MachineCnt]
      /\ \A r \in Process \ {p} : kpc'[r] = kpc[r] /\ myNodeID'[r] = myNodeID[r]
  BY <1>1, <1>2, <1>3 DEF PC
<1>5. Entered' = Entered \cup {p} /\ p \notin Entered /\ Entered \subseteq Process
  BY <1>1, <1>2, <1>4 DEF Entered
<1>6. TypeOK'
  BY <1>1, <1>4 DEF KeeperInv, TypeOK, PC
<1>7. IdInv'
  <2>1. IsFiniteSet(Entered) /\ serverNum = Cardinality(Entered)
    BY <1>5, Counts DEF KeeperInv, IdInv
  <2>2. serverNum' = Cardinality(Entered')
    BY <1>1, <1>5, <2>1, FS_AddElement
  <2>3. \A r \in Entered : r # p /\ myNodeID'[r] = myNodeID[r] /\ myNodeID[r] \in 0 .. serverNum - 1
    BY <1>4, <1>5 DEF KeeperInv, IdInv
  <2>4. \A r \in Entered' : myNodeID'[r] \in 0 .. serverNum' - 1
    BY <1>1, <1>3, <1>4, <1>5, <2>3
  <2>5. ASSUME NEW n \in 0 .. serverNum' - 1 PROVE \E r \in Entered' : myNodeID'[r] = n
    <3>1. CASE n = serverNum
      BY <1>4, <1>5, <3>1
    <3>2. CASE n \in 0 .. serverNum - 1
      <4>1. PICK r \in Entered : myNodeID[r] = n
        BY <3>2 DEF KeeperInv, IdInv
      <4> QED
        BY <1>5, <2>3, <4>1
    <3> QED
      BY <1>1, <1>3, <3>1, <3>2
  <2>6. ASSUME NEW r \in Entered', NEW s \in Entered', myNodeID'[r] = myNodeID'[s] PROVE r = s
    <3>1. \A t \in Entered : myNodeID'[t] # serverNum
      BY <1>3, <2>3
    <3>2. CASE r \in Entered /\ s \in Entered
      BY <2>3, <2>6, <3>2 DEF KeeperInv, IdInv
    <3> QED
      BY <1>4, <1>5, <2>6, <3>1, <3>2
  <2> QED
    BY <2>2, <2>4, <2>5, <2>6 DEF IdInv
<1>8. StoreInv'
  BY <1>1, SameStore
<1>9. LoopInv'
  <2> SUFFICES ASSUME NEW r \in Process
               PROVE  /\ kpc'[r] = "enter" => curServer'[r] = 0
                      /\ kpc'[r] = "poll" => curServer'[r] < MachineCnt
                      /\ kpc'[r] \in {"set", "get"} =>
                           /\ peer'[r] # myNodeID'[r] /\ peer'[r] < seen'[r]
                           /\ seen'[r] <= serverNum'
    BY DEF LoopInv
  <2>1. CASE r = p
    BY <1>1, <1>2, <1>3, <1>4, <2>1 DEF KeeperInv, LoopInv
  <2>2. CASE r # p
    BY <1>1, <1>3, <1>4, <2>2, Facts DEF KeeperInv, LoopInv
  <2> QED
    BY <2>1, <2>2
<1>10. ConnectInv'
  <2>1. Handled(p)' = {}
    <3>1. curServer'[p] = 0
      BY <1>1 DEF KeeperInv, LoopInv
    <3> QED
      BY <1>2, <1>4, <3>1, HandledAtNext
  <2>2. \A r \in Process \ {p} : Handled(r)' = Handled(r)
    BY <1>1, <1>4, SameHandled
  <2>3. \A q \in QueuePair : Linked(q)' <=> Linked(q)
    BY <1>4, <1>5, <2>1, <2>2 DEF Linked
  <2>4. \A q \in QueuePair : Ready(q)' <=> Ready(q)
    BY <1>1 DEF Ready
  <2> QED
    BY <1>1, <2>3, <2>4 DEF KeeperInv, ConnectInv
<1>11. SavedInv'
  <2> SUFFICES ASSUME NEW r \in Entered', NEW k \in Handled(r)'
               PROVE  remoteCon'[myNodeID'[r]][k] = k
    BY DEF SavedInv
  <2>1. r # p
    <3>1. curServer'[p] = 0
      BY <1>1 DEF KeeperInv, LoopInv
    <3>2. Handled(p)' = {}
      BY <1>2, <1>4, <3>1, HandledAtNext
    <3> QED
      BY <3>2
  <2>2. r \in Entered /\ myNodeID'[r] = myNodeID[r] /\ Handled(r)' = Handled(r)
    BY <1>1, <1>4, <1>5, <2>1, SameHandled
  <2> QED
    BY <1>1, <2>2 DEF KeeperInv, SavedInv
<1>12. MeetInv'
  <2>1. \A r \in Process : kpc[r] = "connected" => kpc'[r] = "connected"
    BY <1>1, <1>4
  <2> QED
    BY <1>1, <2>1, SameMeeting
<1> QED
  BY <1>6, <1>7, <1>8, <1>9, <1>10, <1>11, <1>12 DEF KeeperInv

LEMMA PollServerNumInv ==
  ASSUME KeeperInv, NEW p \in Process, PollServerNum(p)
  PROVE  KeeperInv'
<1>1. /\ kpc[p] = "poll" /\ serverNum > curServer[p]
      /\ seen' = [seen EXCEPT ![p] = serverNum]
      /\ MoveOn(p, NotMe(p, curServer[p]), serverNum)
      /\ UNCHANGED <<myNodeID, localMeta, qp, remoteCon, serverNum, stored, meetingVars>>
  BY DEF PollServerNum, storeVars, linkVars
<1>2. /\ p \in Entered /\ curServer[p] \in Nat /\ serverNum \in 1 .. serverNum /\ curServer[p] <= serverNum
      /\ serverNum \in 0 .. MachineCnt
  BY <1>1, Facts
<1>3. /\ seen' \in [Process -> 0 .. MachineCnt] /\ seen'[p] = serverNum
      /\ \A r \in Process \ {p} : seen'[r] = seen[r]
  BY <1>1, <1>2 DEF KeeperInv, TypeOK
<1>4. /\ kpc' \in [Process -> PC] /\ kpc'[p] \in {"set", "poll", "self"}
      /\ \A r \in Process \ {p} : /\ kpc'[r] = kpc[r] /\ curServer'[r] = curServer[r]
                                  /\ peer'[r] = peer[r]
      /\ curServer' \in [Process -> 0 .. MachineCnt] /\ peer' \in [Process -> 0 .. MachineCnt]
      /\ kpc'[p] = "poll" => curServer'[p] < MachineCnt
      /\ kpc'[p] = "set" => peer'[p] # myNodeID[p] /\ peer'[p] < seen'[p]
      /\ Handled(p)' = (0 .. curServer[p] - 1) \ {myNodeID[p]}
  BY <1>1, <1>2, <1>3, MoveOnHandled
<1>5. TypeOK'
  BY <1>1, <1>3, <1>4 DEF KeeperInv, TypeOK, PC
<1>6. Entered' = Entered /\ IdInv'
  <2>1. \A r \in Process : kpc'[r] \in {"enter", "lost"} <=> kpc[r] \in {"enter", "lost"}
    BY <1>1, <1>4
  <2> QED
    BY <1>1, <2>1, SameIds
<1>7. StoreInv'
  BY <1>1, SameStore
<1>8. LoopInv'
  <2> SUFFICES ASSUME NEW r \in Process
               PROVE  /\ kpc'[r] = "enter" => curServer'[r] = 0
                      /\ kpc'[r] = "poll" => curServer'[r] < MachineCnt
                      /\ kpc'[r] \in {"set", "get"} =>
                           /\ peer'[r] # myNodeID'[r] /\ peer'[r] < seen'[r]
                           /\ seen'[r] <= serverNum'
    BY DEF LoopInv
  <2>1. CASE r = p
    BY <1>1, <1>2, <1>3, <1>4, <2>1
  <2>2. CASE r # p
    BY <1>1, <1>3, <1>4, <2>2 DEF KeeperInv, LoopInv
  <2> QED
    BY <2>1, <2>2
<1>9. ConnectInv' /\ SavedInv'
  <2> DEFINE none == {}
  <2>1. Handled(p)' = Handled(p) \cup none
    BY <1>1, <1>4, HandledAt
  <2>2. \A r \in Process \ {p} : Handled(r)' = Handled(r)
    BY <1>1, <1>4, SameHandled
  <2>3. \A q \in QueuePair : IF q.node = myNodeID[p] /\ q.peer \in none THEN Ready(q)'
                             ELSE qp'[q] = qp[q]
    BY <1>1
  <2>4. /\ \A r \in none : remoteCon'[myNodeID[p]][r] = r
        /\ \A i, r \in Node : remoteCon'[i][r] = remoteCon[i][r]
    BY <1>1
  <2> HIDE DEF none
  <2> QED
    BY <1>1, <1>2, <1>6, <2>1, <2>2, <2>3, <2>4, Linking, Saving
<1>10. MeetInv'
  <2>1. \A r \in Process : kpc[r] = "connected" => kpc'[r] = "connected"
    BY <1>1, <1>4
  <2> QED
    BY <1>1, <2>1, SameMeeting
<1> QED
  BY <1>5, <1>6, <1>7, <1>8, <1>9, <1>10 DEF KeeperInv

LEMMA StoreRecordInv ==
  ASSUME KeeperInv, NEW p \in Process, StoreRecord(p)
  PROVE  KeeperInv'
<1> DEFINE id == myNodeID[p]
           meta == SetDataToRemote(id, peer[p])
<1>1. /\ kpc[p] = "set" /\ kpc' = [kpc EXCEPT ![p] = "get"]
      /\ localMeta' = [localMeta EXCEPT ![p] = meta]
      /\ stored' = [stored EXCEPT ![id][peer[p]] = localMeta'[p]]
      /\ UNCHANGED <<myNodeID, curServer, seen, peer, qp, remoteCon, serverNum, meetingVars>>
  BY DEF StoreRecord, linkVars
<1>2. p \in Entered /\ id \in Node /\ peer[p] \in Node
  BY <1>1, Facts DEF KeeperInv, LoopInv
<1>3. /\ kpc' \in [Process -> PC] /\ kpc'[p] = "get"
      /\ \A r \in Process \ {p} : kpc'[r] = kpc[r]
  BY <1>1, Facts DEF PC
<1>4. localMeta'[p] = meta /\ DOMAIN localMeta' = Process
  BY <1>1 DEF KeeperInv, TypeOK
<1>5. TypeOK'
  <2>1. DOMAIN stored' = Node /\ \A i \in Node : DOMAIN stored'[i] = Node
    BY <1>1, <1>2 DEF KeeperInv, TypeOK
  <2> QED
    BY <1>1, <1>3, <1>4, <2>1 DEF KeeperInv, TypeOK, PC
<1>6. Entered' = Entered /\ IdInv'
  <2>1. \A r \in Process : kpc'[r] \in {"enter", "lost"} <=> kpc[r] \in {"enter", "lost"}
    BY <1>1, <1>3
  <2> QED
    BY <1>1, <2>1, SameIds
<1>7. StoreInv'
  <2> SUFFICES ASSUME NEW i \in Node, NEW j \in Node
               PROVE  stored'[i][j] \in {NoRecord, SetDataToRemote(i, j)}
    BY DEF StoreInv, SetDataToRemote, Number, Exists, TargetDir, AppQP, DirQP
  <2>1. CASE i = id /\ j = peer[p]
    <3>1. stored'[i][j] = meta
      BY <1>1, <1>2, <1>4, <2>1 DEF KeeperInv, TypeOK
    <3> QED
      BY <2>1, <3>1
  <2>2. CASE ~(i = id /\ j = peer[p])
    <3>1. stored'[i][j] = stored[i][j]
      BY <1>1, <1>2, <2>2 DEF KeeperInv, TypeOK
    <3> QED
      BY <3>1 DEF KeeperInv, StoreInv
  <2> QED
    BY <2>1, <2>2
<1>8. LoopInv'
  BY <1>1, <1>3 DEF KeeperInv, LoopInv
<1>9. ConnectInv' /\ SavedInv'
  <2> DEFINE none == {}
  <2>1. Handled(p)' = Handled(p) \cup none
    <3>1. Handled(p) = (0 .. peer[p] - 1) \ {myNodeID[p]}
      BY <1>1, HandledAt
    <3>2. Handled(p)' = (0 .. peer'[p] - 1) \ {myNodeID'[p]}
      BY <1>3, HandledAtNext
    <3> QED
      BY <1>1, <3>1, <3>2
  <2>2. \A r \in Process \ {p} : Handled(r)' = Handled(r)
    BY <1>1, <1>3, SameHandled
  <2>3. \A q \in QueuePair : IF q.node = myNodeID[p] /\ q.peer \in none THEN Ready(q)'
                             ELSE qp'[q] = qp[q]
    BY <1>1
  <2>4. /\ \A r \in none : remoteCon'[myNodeID[p]][r] = r
        /\ \A i, r \in Node : remoteCon'[i][r] = remoteCon[i][r]
    BY <1>1
  <2> HIDE DEF none
  <2> QED
    BY <1>1, <1>2, <1>6, <2>1, <2>2, <2>3, <2>4, Linking, Saving
<1>10. MeetInv'
  <2>1. \A r \in Process : kpc[r] = "connected" => kpc'[r] = "connected"
    BY <1>1, <1>3
  <2> QED
    BY <1>1, <2>1, SameMeeting
<1> QED
  BY <1>5, <1>6, <1>7, <1>8, <1>9, <1>10 DEF KeeperInv

\* The record fetched is the one the peer made for this node; the queue pairs for
\* the peer were new.
LEMMA FetchRecordInv ==
  ASSUME KeeperInv, NEW p \in Process, FetchRecord(p)
  PROVE  KeeperInv'
<1> DEFINE id == myNodeID[p]
           k == peer[p]
<1>1. /\ kpc[p] = "get" /\ stored[k][id] # NoRecord
      /\ SetDataFromRemote(id, k, stored[k][id])
      /\ MoveOn(p, NotMe(p, k + 1), seen[p])
      /\ UNCHANGED <<myNodeID, seen, localMeta, serverNum, stored, meetingVars>>
  BY DEF FetchRecord, storeVars
<1>2. /\ p \in Entered /\ id \in Node /\ k \in Node /\ k # id /\ k \in Nat /\ k + 1 \in Nat
      /\ k + 1 <= seen[p] /\ seen[p] \in 1 .. serverNum
  BY <1>1, Facts DEF KeeperInv, LoopInv
<1>3. stored[k][id] = SetDataToRemote(k, id)
  BY <1>1, <1>2 DEF KeeperInv, StoreInv
<1>4. Handled(p) = (0 .. k - 1) \ {id}
  BY <1>1, HandledAt
<1>5. \A q \in QueuePair : q.node = id /\ q.peer = k => qp[q] = NewQP
  <2> SUFFICES ASSUME NEW q \in QueuePair, q.node = id, q.peer = k PROVE qp[q] = NewQP
    OBVIOUS
  <2>1. ~Linked(q)
    BY <1>2, <1>4, LinkedOf
  <2> QED
    BY <2>1 DEF KeeperInv, ConnectInv
<1>6. /\ DOMAIN qp' = QueuePair
      /\ \A q \in QueuePair : IF q.node = id /\ q.peer = k THEN Ready(q)' ELSE qp'[q] = qp[q]
      /\ remoteCon' = [remoteCon EXCEPT ![id][k] = k]
  BY <1>1, <1>2, <1>3, <1>5, Connected
<1>7. /\ kpc' \in [Process -> PC] /\ kpc'[p] \in {"set", "poll", "self"}
      /\ \A r \in Process \ {p} : /\ kpc'[r] = kpc[r] /\ curServer'[r] = curServer[r]
                                  /\ peer'[r] = peer[r]
      /\ curServer' \in [Process -> 0 .. MachineCnt] /\ peer' \in [Process -> 0 .. MachineCnt]
      /\ kpc'[p] = "poll" => curServer'[p] < MachineCnt
      /\ kpc'[p] = "set" => peer'[p] # myNodeID[p] /\ peer'[p] < seen'[p]
      /\ Handled(p)' = (0 .. (k + 1) - 1) \ {myNodeID[p]}
  BY <1>1, <1>2, MoveOnHandled
<1>8. TypeOK'
  <2>1. DOMAIN remoteCon' = Node /\ \A i \in Node : DOMAIN remoteCon'[i] = Node
    BY <1>2, <1>6 DEF KeeperInv, TypeOK
  <2> QED
    BY <1>1, <1>6, <1>7, <2>1 DEF KeeperInv, TypeOK, PC
<1>9. Entered' = Entered /\ IdInv'
  <2>1. \A r \in Process : kpc'[r] \in {"enter", "lost"} <=> kpc[r] \in {"enter", "lost"}
    BY <1>1, <1>7
  <2> QED
    BY <1>1, <2>1, SameIds
<1>10. StoreInv'
  BY <1>1, SameStore
<1>11. LoopInv'
  <2> SUFFICES ASSUME NEW r \in Process
               PROVE  /\ kpc'[r] = "enter" => curServer'[r] = 0
                      /\ kpc'[r] = "poll" => curServer'[r] < MachineCnt
                      /\ kpc'[r] \in {"set", "get"} =>
                           /\ peer'[r] # myNodeID'[r] /\ peer'[r] < seen'[r]
                           /\ seen'[r] <= serverNum'
    BY DEF LoopInv
  <2>1. CASE r = p
    BY <1>1, <1>2, <1>7, <2>1
  <2>2. CASE r # p
    BY <1>1, <1>7, <2>2 DEF KeeperInv, LoopInv
  <2> QED
    BY <2>1, <2>2
<1>12. ConnectInv' /\ SavedInv'
  <2>1. Handled(p)' = Handled(p) \cup {k}
    BY <1>2, <1>4, <1>7
  <2>2. \A r \in Process \ {p} : Handled(r)' = Handled(r)
    BY <1>1, <1>7, SameHandled
  <2>3. \A q \in QueuePair : IF q.node = myNodeID[p] /\ q.peer \in {k} THEN Ready(q)'
                             ELSE qp'[q] = qp[q]
    BY <1>6
  <2>4. /\ \A r \in {k} : remoteCon'[myNodeID[p]][r] = r
        /\ \A i, r \in Node : i # myNodeID[p] \/ r \notin {k} => remoteCon'[i][r] = remoteCon[i][r]
    BY <1>2, <1>6 DEF KeeperInv, TypeOK
  <2> QED
    BY <1>1, <1>2, <1>9, <2>1, <2>2, <2>3, <2>4, Linking, Saving
<1>13. MeetInv'
  <2>1. \A r \in Process : kpc[r] = "connected" => kpc'[r] = "connected"
    BY <1>1, <1>7
  <2> QED
    BY <1>1, <2>1, SameMeeting
<1> QED
  BY <1>8, <1>9, <1>10, <1>11, <1>12, <1>13 DEF KeeperInv

LEMMA ConnectMySelfInv ==
  ASSUME KeeperInv, NEW p \in Process, ConnectMySelf(p)
  PROVE  KeeperInv'
<1> DEFINE id == myNodeID[p]
<1>1. /\ kpc[p] = "self" /\ kpc' = [kpc EXCEPT ![p] = "connected"]
      /\ localMeta' = [localMeta EXCEPT ![p] = SetDataToRemote(id, id)]
      /\ SetDataFromRemote(id, id, localMeta'[p])
      /\ UNCHANGED <<myNodeID, curServer, seen, peer, serverNum, stored, meetingVars>>
  BY DEF ConnectMySelf, storeVars
<1>2. p \in Entered /\ id \in Node
  BY <1>1, Facts
<1>3. localMeta'[p] = SetDataToRemote(id, id) /\ DOMAIN localMeta' = Process
  BY <1>1 DEF KeeperInv, TypeOK
<1>4. Handled(p) = Node \ {id}
  BY <1>1, HandledAt
<1>5. \A q \in QueuePair : q.node = id /\ q.peer = id => qp[q] = NewQP
  <2> SUFFICES ASSUME NEW q \in QueuePair, q.node = id, q.peer = id PROVE qp[q] = NewQP
    OBVIOUS
  <2>1. ~Linked(q)
    BY <1>2, <1>4, LinkedOf
  <2> QED
    BY <2>1 DEF KeeperInv, ConnectInv
<1>6. /\ DOMAIN qp' = QueuePair
      /\ \A q \in QueuePair : IF q.node = id /\ q.peer = id THEN Ready(q)' ELSE qp'[q] = qp[q]
      /\ remoteCon' = [remoteCon EXCEPT ![id][id] = id]
  BY <1>1, <1>2, <1>3, <1>5, Connected
<1>7. /\ kpc' \in [Process -> PC] /\ kpc'[p] = "connected"
      /\ \A r \in Process \ {p} : kpc'[r] = kpc[r]
  BY <1>1, Facts DEF PC
<1>8. TypeOK'
  <2>1. DOMAIN remoteCon' = Node /\ \A i \in Node : DOMAIN remoteCon'[i] = Node
    BY <1>2, <1>6 DEF KeeperInv, TypeOK
  <2> QED
    BY <1>1, <1>3, <1>6, <1>7, <2>1 DEF KeeperInv, TypeOK, PC
<1>9. Entered' = Entered /\ IdInv'
  <2>1. \A r \in Process : kpc'[r] \in {"enter", "lost"} <=> kpc[r] \in {"enter", "lost"}
    BY <1>1, <1>7
  <2> QED
    BY <1>1, <2>1, SameIds
<1>10. StoreInv'
  BY <1>1, SameStore
<1>11. LoopInv'
  BY <1>1, <1>7 DEF KeeperInv, LoopInv
<1>12. ConnectInv' /\ SavedInv'
  <2>1. Handled(p)' = Handled(p) \cup {id}
    <3>1. Handled(p)' = Node
      BY <1>7, HandledAtNext
    <3> QED
      BY <1>2, <1>4, <3>1
  <2>2. \A r \in Process \ {p} : Handled(r)' = Handled(r)
    BY <1>1, <1>7, SameHandled
  <2>3. \A q \in QueuePair : IF q.node = myNodeID[p] /\ q.peer \in {id} THEN Ready(q)'
                             ELSE qp'[q] = qp[q]
    BY <1>6
  <2>4. /\ \A r \in {id} : remoteCon'[myNodeID[p]][r] = r
        /\ \A i, r \in Node : i # myNodeID[p] \/ r \notin {id} => remoteCon'[i][r] = remoteCon[i][r]
    BY <1>2, <1>6 DEF KeeperInv, TypeOK
  <2> QED
    BY <1>1, <1>2, <1>9, <2>1, <2>2, <2>3, <2>4, Linking, Saving
<1>13. MeetInv'
  <2>1. \A r \in Process : kpc[r] = "connected" => kpc'[r] = "connected"
    BY <1>1, <1>7
  <2> QED
    BY <1>1, <2>1, SameMeeting
<1> QED
  BY <1>8, <1>9, <1>10, <1>11, <1>12, <1>13 DEF KeeperInv

-----------------------------------------------------------------------------
(***************************************************************************)
(* The barrier, with a process as a caller that may set the counter or not *)
(* according to its id.                                                    *)
(***************************************************************************)

LEMMA MeetAllBarrier ==
  ASSUME Meeting!BarrierInv, NEW p \in Process, NEW last,
         Meeting!Call(p, last) \/ Meeting!Inside(p)
  PROVE  /\ Meeting!BarrierInv'
         /\ \A r \in Process \ {p} : bpc'[r] = bpc[r]
<1> DEFINE A == Meeting!Arrived
           L == {"out", "set", "add", "spin", "left"}
<1>1. /\ bpc \in [Process -> L] /\ created \in BOOLEAN /\ counter \in 0 .. Cardinality(A)
      /\ (\E r \in Process : bpc[r] = "left") => Cardinality(A) >= MachineCnt
  BY SameCardinality DEF Meeting!BarrierInv
<1>2. /\ A \subseteq Process /\ IsFiniteSet(A) /\ Cardinality(A) \in Nat
      /\ A = {r \in Process : bpc[r] \in {"spin", "left"}}
      /\ A' = {r \in Process : bpc'[r] \in {"spin", "left"}}
      /\ MachineCnt \in Nat
  <2>1. A \subseteq Process
    BY DEF Meeting!Arrived
  <2>2. IsFiniteSet(A) /\ Cardinality(A) \in 0 .. MachineCnt /\ MachineCnt \in Nat
    BY <2>1, Counts
  <2>3. /\ A = {r \in Process : bpc[r] \in {"spin", "left"}}
        /\ A' = {r \in Process : bpc'[r] \in {"spin", "left"}}
    BY DEF Meeting!Arrived
  <2> QED
    BY <2>1, <2>2, <2>3
<1> HIDE DEF A
\* The invariant of the next state, from what each step changes.
<1>3. ASSUME NEW l \in L, bpc' = [bpc EXCEPT ![p] = l],
             created' \in BOOLEAN, counter' \in 0 .. Cardinality(A'),
             (\E r \in Process : bpc'[r] = "left") => Cardinality(A') >= MachineCnt
      PROVE  /\ Meeting!BarrierInv'
             /\ \A r \in Process \ {p} : bpc'[r] = bpc[r]
  <2>1. bpc' \in [Process -> L] /\ \A r \in Process \ {p} : bpc'[r] = bpc[r]
    BY <1>1, <1>3
  <2> QED
    BY <1>3, <2>1, SameCardinality DEF Meeting!BarrierInv, A
<1>4. CASE Meeting!Call(p, last)
  <2> DEFINE l == IF last THEN "set" ELSE "add"
  <2>1. bpc[p] = "out" /\ bpc' = [bpc EXCEPT ![p] = l] /\ UNCHANGED <<created, counter>>
    BY <1>4 DEF Meeting!Call
  <2>2. l \in {"set", "add"}
    OBVIOUS
  <2> HIDE DEF l
  <2>3. A' = A
    BY <1>1, <1>2, <2>1, <2>2
  <2>4. \A r \in Process : bpc'[r] = "left" => bpc[r] = "left"
    BY <1>1, <2>1, <2>2
  <2> QED
    BY <1>1, <1>3, <2>1, <2>2, <2>3, <2>4
<1>5. CASE Meeting!SetZero(p)
  <2>1. bpc[p] = "set" /\ bpc' = [bpc EXCEPT ![p] = "add"] /\ created' = TRUE /\ counter' = 0
    BY <1>5 DEF Meeting!SetZero
  <2>2. A' = A
    BY <1>1, <1>2, <2>1
  <2>3. \A r \in Process : bpc'[r] = "left" => bpc[r] = "left"
    BY <1>1, <2>1
  <2>4. counter' \in 0 .. Cardinality(A')
    BY <1>2, <2>1, <2>2
  <2> QED
    BY <1>1, <1>3, <2>1, <2>2, <2>3, <2>4
<1>6. CASE Meeting!FetchAndAdd(p)
  <2>1. /\ bpc[p] = "add" /\ bpc' = [bpc EXCEPT ![p] = "spin"]
        /\ created' = created /\ counter' = counter + 1
    BY <1>6 DEF Meeting!FetchAndAdd
  <2>2. A' = A \cup {p} /\ p \notin A
    BY <1>1, <1>2, <2>1
  <2>3. Cardinality(A') = Cardinality(A) + 1
    BY <1>2, <2>2, FS_AddElement
  <2>4. \A r \in Process : bpc'[r] = "left" => bpc[r] = "left"
    BY <1>1, <2>1
  <2>5. counter' \in 0 .. Cardinality(A')
    BY <1>1, <1>2, <2>1, <2>3
  <2>6. Cardinality(A) >= MachineCnt => Cardinality(A') >= MachineCnt
    BY <1>2, <2>3
  <2> QED
    BY <1>1, <1>3, <2>1, <2>4, <2>5, <2>6
<1>7. CASE Meeting!Leave(p)
  <2>1. /\ bpc[p] = "spin" /\ bpc' = [bpc EXCEPT ![p] = "left"] /\ counter = MachineCnt
        /\ UNCHANGED <<created, counter>>
    BY <1>7 DEF Meeting!Leave
  <2>2. A' = A
    BY <1>1, <1>2, <2>1
  <2>3. Cardinality(A) >= MachineCnt
    BY <1>1, <1>2, <2>1
  <2> QED
    BY <1>1, <1>3, <2>1, <2>2, <2>3
<1> QED
  BY <1>4, <1>5, <1>6, <1>7 DEF Meeting!Inside

LEMMA MeetAllInv ==
  ASSUME KeeperInv, NEW p \in Process, MeetAll(p)
  PROVE  KeeperInv'
<1>1. /\ kpc[p] = "connected"
      /\ UNCHANGED <<kpc, myNodeID, curServer, seen, peer, localMeta, qp, remoteCon, serverNum,
                     stored>>
  BY DEF MeetAll, procVars, storeVars, linkVars
<1>2. TypeOK'
  BY <1>1 DEF KeeperInv, TypeOK
<1>3. Entered' = Entered /\ IdInv'
  BY <1>1, SameIds
<1>4. StoreInv'
  BY <1>1, SameStore
<1>5. LoopInv'
  BY <1>1 DEF KeeperInv, LoopInv
<1>6. ConnectInv' /\ SavedInv'
  BY <1>1, <1>3, SameLinks
<1>7. MeetInv'
  <2>1. Meeting!BarrierInv /\ \A r \in Process : bpc[r] # "out" => kpc[r] = "connected"
    BY DEF KeeperInv, MeetInv
  <2>2. Meeting!BarrierInv' /\ \A r \in Process \ {p} : bpc'[r] = bpc[r]
    <3>1. Meeting!Call(p, myNodeID[p] = MachineCnt - 1) \/ Meeting!Inside(p)
      BY DEF MeetAll
    <3> QED
      BY <2>1, <3>1, MeetAllBarrier
  <2>3. \A r \in Process : bpc'[r] # "out" => kpc'[r] = "connected"
    BY <1>1, <2>1, <2>2
  <2> QED
    BY <2>2, <2>3 DEF MeetInv
<1> QED
  BY <1>2, <1>3, <1>4, <1>5, <1>6, <1>7 DEF KeeperInv

LEMMA StutterInv ==
  ASSUME KeeperInv, UNCHANGED keeperVars
  PROVE  KeeperInv'
<1>1. /\ UNCHANGED <<kpc, myNodeID, curServer, seen, peer, localMeta, qp, remoteCon, serverNum,
                     stored>>
      /\ UNCHANGED meetingVars
  BY DEF keeperVars, procVars, storeVars, linkVars
<1>2. TypeOK'
  BY <1>1 DEF KeeperInv, TypeOK
<1>3. Entered' = Entered /\ IdInv'
  BY <1>1, SameIds
<1>4. StoreInv'
  BY <1>1, SameStore
<1>5. LoopInv'
  BY <1>1 DEF KeeperInv, LoopInv
<1>6. ConnectInv' /\ SavedInv'
  BY <1>1, <1>3, SameLinks
<1>7. MeetInv'
  BY <1>1, SameMeeting
<1> QED
  BY <1>2, <1>3, <1>4, <1>5, <1>6, <1>7 DEF KeeperInv

\* Every step preserves KeeperInv.
LEMMA NextKeeperInv == KeeperInv /\ [Next]_keeperVars => KeeperInv'
<1> SUFFICES ASSUME KeeperInv, [Next]_keeperVars PROVE KeeperInv'
  OBVIOUS
<1>1. ASSUME NEW p \in Process, Start(p) PROVE KeeperInv'
  BY <1>1, ConnectMemcachedFailsInv, ServerEnterInv, PollServerNumInv, StoreRecordInv,
     FetchRecordInv, ConnectMySelfInv, MeetAllInv DEF Start
<1>2. CASE UNCHANGED keeperVars
  BY <1>2, StutterInv
<1> QED
  BY <1>1, <1>2 DEF Next

-----------------------------------------------------------------------------

\* The inductive invariant of the constructor of DSM: ids, records and queue pairs
\* are as far as each process has come, and it meets the others when it has done.
THEOREM KeeperInvariance == Spec => []KeeperInv
<1> QED
  BY InitKeeperInv, NextKeeperInv, PTL DEF Spec

\* serverConnect connects every queue pair once, to the one its peer made for it: the
\* record fetched is never that of another pair of nodes.
THEOREM PairedAlways == Spec => []QpsPaired
<1>1. KeeperInv => QpsPaired
  BY DEF KeeperInv, ConnectInv, QpsPaired
<1> QED
  BY <1>1, KeeperInvariance, PTL

\* Behind the barrier "DSM-init" every queue pair of every node is ready and every
\* node has saved what every node published, so that a process that is through its
\* constructor can send to any node.
THEOREM ConnectedWhenUp == Spec => []UpMeansConnected
<1>1. ASSUME KeeperInv PROVE UpMeansConnected
  <2> SUFFICES ASSUME NEW p \in Process, Up(p)
               PROVE  /\ \A q \in QueuePair : Ready(q)
                      /\ \A n, r \in Node : remoteCon[n][r] = r
    BY DEF UpMeansConnected
  <2> DEFINE A == Meeting!Arrived
  <2>1. A \subseteq Process /\ \A r \in A : bpc[r] # "out"
    BY DEF Meeting!Arrived
  <2>2. Cardinality(A) >= MachineCnt
    BY <1>1, SameCardinality DEF Up, KeeperInv, MeetInv, Meeting!BarrierInv
  <2> HIDE DEF A
  <2>3. A = Process
    <3>1. Cardinality(A) \in 0 .. MachineCnt /\ MachineCnt \in Nat
      BY <2>1, Counts
    <3>2. Cardinality(A) = MachineCnt
      BY <2>2, <3>1
    <3> QED
      BY <2>1, <3>2, Counts
  <2>4. \A r \in Process : kpc[r] = "connected"
    BY <1>1, <2>1, <2>3 DEF KeeperInv, MeetInv
  <2>5. Entered = Process
    BY <2>4 DEF Entered
  <2>6. serverNum = MachineCnt
    BY <1>1, <2>5 DEF KeeperInv, IdInv, MachineCnt
  <2>7. ASSUME NEW n \in Node
        PROVE  \E r \in Entered : myNodeID[r] = n /\ Handled(r) = Node
    <3>1. n \in 0 .. serverNum - 1
      BY <2>6 DEF Node
    <3>2. PICK r \in Entered : myNodeID[r] = n
      BY <1>1, <3>1 DEF KeeperInv, IdInv
    <3>3. Handled(r) = Node
      BY <2>4, <2>5, HandledAt
    <3> QED
      BY <3>2, <3>3
  <2>8. ASSUME NEW q \in QueuePair PROVE Ready(q)
    <3>1. q.node \in Node /\ q.peer \in Node
      BY QpFields
    <3>2. Linked(q)
      BY <2>7, <3>1 DEF Linked
    <3> QED
      BY <1>1, <3>2 DEF KeeperInv, ConnectInv
  <2>9. ASSUME NEW n \in Node, NEW r \in Node PROVE remoteCon[n][r] = r
    <3>1. PICK s \in Entered : myNodeID[s] = n /\ Handled(s) = Node
      BY <2>7
    <3> QED
      BY <1>1, <3>1 DEF KeeperInv, SavedInv
  <2> QED
    BY <2>8, <2>9
<1> QED
  BY <1>1, KeeperInvariance, PTL
=============================================================================
