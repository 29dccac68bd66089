# Rowan in TLA+

A formal model of [Rowan](../src/README.md) (remote write aggregation): TLA+
modules translated from the C++ sources, TLC runs that check them on small
instances, and TLAPS proofs that hold for every size.  Paths below are relative
to the repository; `PROJECT.json` maps every definition to its source lines.

## 1. Inventory

| Component | State | Operations | What makes it correct |
|---|---|---|---|
| `RowanServer` (`src/rowan/RowanServer.cpp`), driver glue (`src/rdma/Driver.cpp`), SRQ of `DirectoryConnection` | `head`, `mlx5_srq_head`; the driver's `srq->head/tail`, WQE free list; the segments in memory | `raw_manage_srq`: clear and post all segments, then poll, free the WQE, clear, post again | a segment is recycled only when the NIC has left it; no post is refused; the WQE freed is the one that held the segment; received messages survive until recycled |
| `RowanClient` (`src/rowan/RowanClient.cpp`, `test/rowan_client.cpp`) | ring of 8 send buffers, `cur_send`; send queue and completion queue of its QP | `get_send_buf`, `DSM::send`, `poll_rdma_cq` | a buffer is not reused while the NIC may read it; the send queue never refuses; a thread never waits for a completion that cannot come |
| Client and server together | the log the segments make up | a send is placed in the server's memory without its CPU | every request appended once, unchanged, in its client's order; appending never stops for ever |
| `DSMKeeper::barrier`, `sum` (`src/dsm/DSMKeeper.cpp`) | a counter and values in memcached | set to 0 by the last node, increment, poll; store a value, add up those of all | nobody leaves early, everybody leaves; a sum has one value of each node, of this sum |
| Startup: `Keeper`, `DSMKeeper`, the constructor of `DSM`, `RCMapping`, `ThreadConnection`, `DirectoryConnection`, `StateTrans.cpp` | node id, `curServer`, records in memcached, state of all queue pairs | `serverEnter`, `serverConnect`, `connectNode`, `connectMySelf`, `barrier("DSM-init")` | queue pairs are connected in pairs, before anybody uses them; servers have the low ids; everybody comes up |
| Datagram RPC, sending (`RawMessageConnection`, `AbstractMessageConnection`, `DSM::ud_rpc_call`) | `curSend`, `sendCounter`, send pool, send queue, `send_cq` | `getSendPool`, `sendRawMessage` | selective signaling neither overwrites unread buffers nor overfills a queue |
| Datagram RPC, receiving (`getMessage`, `initRecv`, `DSM::ud_rpc_wait`) | `curMessage`, receive ring, `ud_cq` | poll, hand out, repost a batch | what the caller reads is the message it waited for |
| `WRLock` (`include/utility/WRLock.h`) | one 16-bit word | `wLock`, `rLock`, `try_*`, `rUnlock`, `wUnlock` | mutual exclusion, no lost unlock |
| `DSM` one-sided operations (`read`, `write`, `cas`, `faa` and `_sync`) | completion queue of the thread | post, poll | a `_sync` call returns after its own operation |
| Resources: `createContext`, `ThreadConnection`, `DirectoryConnection`, `page_alloc`, `DSM::register_thread` | objects of libibverbs, null or not; `appID`, buffer of each thread | acquire in stages, clean up at one label; take an id and a share of the buffer memory | nothing leaks or is released twice; a process that comes up has what it needs; threads' shares do not overlap |
| `RpcMessage` | a byte buffer, a cursor | `add`, `add_string`, `get`, `get_string`, ... | the receiver finds what was added |
| `rdmaWriteVector` (`src/rdma/Operation.cpp`) | - | cut a source list into chained work requests | remote memory gets all of it, one completion tells |
| CRC32 (`src/utility/CRC32.cpp`) | a register | loops over bytes, units, blocks | both variants compute CRC-32C |
| `BitMap`, MurmurHash2, Zipf, Debug, Timer, System, Asm | - | - | utilities and third-party code |

**Interaction.**  A process builds one `DSM`: it gets a node id and exchanges
queue pair numbers through memcached (startup, barrier).  Each thread of a
client then has one reliable connection to a directory of the server.  A client
thread and the server's control thread never exchange a message at the level
of the program: the client's NIC reads a send buffer, the server's NIC picks
the segment (a posted WQE of the shared receive queue) and the offset, and the
server's thread finds out by looking at single bytes of memory.

**What is hard here.**

* The control thread reads no completion.  "The next segment has a first byte"
  stands for "the NIC is done with the oldest segment".  That is true only
  because segments are used in the order they are posted, DMA writes reach
  memory in order, and the byte was cleared before the segment was posted.
* The thread edits the free list of the mlx5 driver, whose other end the driver
  uses, and tracks by itself which WQE goes with which segment, in two rings of
  different length (36 and 128).
* Errors are dropped: a refused post to a receive or send queue loses a segment
  or a request silently.  That this cannot happen is an invariant of distant code.
* Buffers are reused on the strength of a window of the caller (`RowanClient`)
  or of one completion in 32 sends (datagram RPC).
* Startup waits pairwise, on copies of a counter that moves.
* Setup drops nearly every result: which failure stops a process, and which goes
  unnoticed, depends on what null pointer is used next.

`PROJECT.json` lists these as hazards, each at its line, with the properties
that would catch it.

## 2. Modules

| Module | Models | Extends / composes |
|---|---|---|
| `RowanServer` | control thread, SRQ, receiving NIC | - |
| `RowanClient` | client threads, sending NIC | - |
| `Rowan` | both, meeting in the network | extends `RowanClient`, `INSTANCE` of `RowanServer` |
| `AppendLog` | what Rowan promises (abstract) | instantiated by `Rowan` |
| `Barrier` | one use of `DSMKeeper::barrier` | - |
| `Sum` | two uses of `DSMKeeper::sum` around a barrier | extends `Barrier` |
| `Connections` | resources of a process, with failing calls; `register_thread` | - |
| `Keeper` | startup of all processes | `INSTANCE` of `Barrier` |
| `MessageConnection` | the rings of buffers both halves of the datagram RPC use | - |
| `UdSend`, `UdRecv` | the two halves of the datagram RPC of a thread | extend `MessageConnection` |
| `DsmOps` | one-sided operations of the threads of `DSM` and their completion queues | - |
| `WRLock` | the reader-writer spin lock | - |
| `Crc32c` | `calculate_crc32` | - |
| `WriteVector` | `rdmaWriteVector` | - |
| `RpcMessage` | the message codec and `ud_rpc_call` | - |
| `Algorithms` | behaviours that compute a checksum, or try a vector or a message | extends the last three |
| `MC*` | model values for TLC | the module they name |
| `RowanServerProof`, `DsmOpsProof`, `AlgorithmsProof` | theorems about the module they name | that module, `SharedLemmas` |
| `RowanProof` | theorems about `RowanClient`, then about `Rowan` and `AppendLog` | `Rowan`; `RowanServerProof` as `SrvP` |
| `SyncProof` | theorems about `Barrier`, then about `Sum`, then about `WRLock` | `Sum`, `WRLock` |
| `StartupProof` | theorems about `Connections`, then about `Keeper` | `Connections`, `Keeper` |
| `RpcProof` | theorems about `UdSend`, then about `UdRecv` | both |
| `SharedLemmas` | lemmas several of these need | TLAPS, the library's theorems |

### RowanServer

`pc` walks through `raw_manage_srq`: `init_clear`/`init_post` are lines 17-22
of the loop that posts all segments; `PollUsed` is the poll of line 29 that
finds a byte; `FreeWqe`, `Clear`, `Repost` are lines 30-31, 33-34 and 37-38,
separate actions because the NIC runs between them.  `mlx5_free_srq_wqe` is
`FreeSrqWqe`, translated from `Driver.cpp`.  External and modelled from their
use: `ibv_post_srq_recv` (`PostSrqRecv`: takes the first free WQE, refuses when
head meets tail) and the NIC.  The NIC *places* a message, in the open segment
if it fits (`PlaceInOpen`) or in the next posted one (`PlaceInNext`), some time
before the bytes reach memory (`DmaWrite`); writes reach memory in the order
they were placed, which is what PCIe gives posted writes and what the design
relies on.  A message occupies `size` strides; only its first byte matters to
the server.  `mem` records which messages a segment holds and `kept` the strides they
lie in since the segment was last cleared; no code reads either.  `KeepsReceived` says
that no write, under way or arriving, covers a stride that is kept: the NIC may open a
segment again only after its messages were given up.  `RecycleQuiescent` asks of the
segment that is recycled that the NIC does not fill it, has no write to it under way, and
that none of the WQEs still posted (`postedWqes`, along the list the NIC follows) names it.

### RowanClient

`GetSendBuf`, `Fill`, `Send`, `PollCq` are the statements of `test_rowan`, the
only user of the client, with the library functions they call.  The send queue
`sq` holds what is posted and not acknowledged, of which `sent` are transmitted.
The NIC reads the buffer at `Transmit`, not at `Send`.  A request keeps its place in the
send queue until its completion is polled (`HasRoom`), and a completion that finds the
completion queue full is lost (`CqDepth`, `RPC_QUEUE_SIZE` in the code); neither happens to
`test_rowan`, whose batch of 6 fits both.  `Rowan` extends the
module and checks its properties (`rowan_batch`).  The benchmark's requests
are empty; the model gives each a number, so that an overwritten buffer can be
told from an intact one.

### Rowan and AppendLog

`Rowan!Deliver` is the joint step: the client's NIC reads the buffer and the
server's NIC places what it read.  If no segment is posted, the step waits (RNR,
retried without end: `rnr_retry` is 7, `StateTrans.cpp:88`).  `AppendLog` is the
abstract specification: clients hand over messages, one is appended at a time,
the completion is reported later, and the server gives up prefixes, never the
whole log.  The refinement mapping takes as the log the segments from `head` on,
followed by the writes under way.

### Barrier and Keeper

memcached is external: `created`, `counter`, `serverNum`, `stored` are its keys,
cleared before a run (README of the repository, `script/restartMemc.sh`), its
commands atomic.  Retries after a failed command are the action not being enabled
yet.  `Keeper` follows the constructor of `DSM`: `ServerEnter` (with the check of
`DSM.cpp:29`), then `PollServerNum` / `StoreRecord` / `FetchRecord` around the
loops of `serverConnect` (the copy of `serverNum` is `seen`), `ConnectMySelf`, and
the barrier of module `Barrier`.  Every queue pair is a variable with the state
machine of `ibv_modify_qp`.  The id check of `rowan_server.cpp` (id 0) is
the test's; that servers have the low ids is what the check of `ServerEnter` says,
and a client that fails it exits, and the servers wait for a node that is gone.  A process that
cannot reach memcached gets no id and never joins (`ConnectMemcachedFails`).  These are the
two exceptions `StartupCompletes` makes.  With its queue pairs a process saves what it needs
of the peer, of which `remoteCon` keeps whose it is.  In this module no call of libibverbs
fails; `Connections` is about those.

### Sum

`Sum` extends `Barrier` with `sum()`: `StoreValue` is the `memSet` of line 139, `AddValue`
one turn of the loop with its `memGet`, which retries until the key is there.  Nodes sum,
pass the barrier and sum again under the same name.  A value is the node and the round it
was stored in, so that `SumExact` can tell an old value from a new one: the barrier
protects the first sum from values of the second, nothing protects the second from
values of the first.

### Connections

`createContext` is followed stage by stage: `Acquire` and `Query` fail or not, `FreeList`
is lines 50-52, `Cleanup` the label.  `local` are the pointers that are set, `open` what
the process holds, and `ContextWhole` relates the two.  The rest of a connection is a list
of parts in the order they are created (`ThreadParts`, with those of
`AbstractMessageConnection`, and `DirectoryParts`).  A part that fails is a null pointer;
`Uses` says which pointers the creation of the next part follows, where a null one ends
the process, and `KeyRead` that the key of a region is read at once.  `Announce` publishes
the numbers of all queue pairs, 0 for a reliable one that is missing
(`DSMKeeper.cpp:47,55`), and the process goes on to connect to itself (`ConnectToSelf`),
where it skips its null queue pairs and stops only on a number 0 of the other side or an
address handle that cannot be created; other nodes' assertions fail instead
(`DSMKeeper.cpp:71,89`).  What nothing trips over before is named in `Unchecked`: the
reliable queue pairs, and among the rest the shared receive queue, for which a null pointer
has a meaning of its own.  The queue pairs of a connection are one part, and `new` never fails.

### Crc32c, WriteVector, RpcMessage

The checksum is a state machine whose steps are the turns of the loops of `crc32c_hw` or
`crc32c_sw`; `divided` is the remainder computed bit by bit, and `CrcAgrees` says of all
loops at once that the register is that remainder, and that the word returned is the
CRC-32C of the buffer.  A word is the set of its 1 bits, as TLC has no unsigned 32-bit
integers.  The tables are defined by what they hold: `crc32c_table` each row from the one before it,
`crc32c_long` and `crc32c_short` as products with the power of x that appends their zeros
(`ZerosTable`), `LONG` and `SHORT` being parameters;
`TablesAsInSource` evaluates them at 8192 and 256 and compares an entry of every row with
the literal of `CRC32.h`.  The instructions `crc32b` and `crc32q` are external.

`WriteRequests` is the chain the loop of `rdmaWriteVector` leaves, `Executed` the NIC that
follows it.  An empty list is left out: the code would post a work request that was never
set up.  `RpcMessage` follows the fields of a message to the receiver; bytes are marked
with the value they are part of and their place in it, so that a field taken from
the wrong place is noticed.  `msg_size` is a field of 16 bits (`SizeCnt`), and the ids of node
and thread are bytes in the header (`IdCnt`) while `DSM` counts nodes with more.
`MessagesArrive` asks that the message was filled within its buffer, that the ids fit, and that
extra data fits, which `ud_rpc_call` does not check: nothing is claimed where one of these
fails.

### UdSend and UdRecv

`sendCounter` is 64 bits wide; only its remainder and whether it is 0 matter, so
`Count` keeps it below twice the batch.  A work request keeps its place in
the send queue until a completion at or behind it is polled.  `rdmaSend` for
datagrams overwrites the inline flag of a signaled send (`Operation.cpp:88-93`),
and so does `Post`.  `ud_rpc_wait` looks at the opcode of its completion (`PollRecvCq`), though
only receives complete in `ud_cq`.  In `UdRecv` the order of `getMessage` is kept: the batch is
reposted while the caller still reads its last buffer.  `MaxBacklog` says how many
datagrams may wait: up to all buffers but one, the largest value for which the
caller's buffer is safe; the benchmark's call-and-answer traffic keeps far below
(at most one call of each peer thread).

### DsmOps

A thread posts to one queue pair per node; the completions of all arrive in one
queue, in order per node, in any order between nodes.  `Async` posts; `Sync` posts
and then polls one completion, of whatever operation, and `Return` reads the result
buffer: three separate steps of the thread, with the transport in between.  A request
takes effect at its node (`Execute`) before its answer is here (`Complete`); a broken
queue pair (`Break`) completes what it holds with errors (`Flush`), signaled or not.
`pollWithCQ` reports the status of the last completion and `DSM` ignores it, so the
model keeps it in `call` for the properties alone.  A `_sync` call means what its name
says only to a caller that has polled everything it asked for, shares no buffer with an
operation under way, and is told of no error: `Drained` is that condition, and
`SyncAtomic` says what holds under it.  Without it the call may return early, with the
buffer as it was before; `CompletionsOwed` and `CallsReturn` hold all the same.  Memory
is one word per node: reads and writes of more than a word are not atomic on this
hardware and nothing in the code expects it.

A send queue has `SqDepth` places (1024 in the code).  A request keeps its place until a
completion at or behind it is polled (`Used`), so unsignaled operations in a row fill the
queue.  What happens to a post beyond that depends on the operation: a write ends the
process (`assert(0)`, `Operation.cpp:257-260`; the build defines no `NDEBUG`), which stops all
threads of its node (`alive`, `Home`) while requests already posted may still take effect at
others; the rest are dropped, which `DSM` does not notice (`DSM.cpp:98` and the others drop the
result).  `refused` counts the completions lost that way.

The completion queue of a thread has `CqDepth` entries, 128 in the code
(`ThreadConnection.cpp:11`; a driver may round up), for all its queue pairs.  A completion that
finds it full is lost, counted in `lost`, and an overrun queue takes no more; its queue pairs
may then fail.  `CompletionsOwed` says where every completion is: polled, queued, to come,
refused or lost, and that none is lost unless the thread has owed more than the queue holds
(`crowded`) or a queue pair has failed.  `CallsReturn` excepts just the threads that were
refused or lost one, which may poll for ever, and those whose process has ended.

### WRLock

Every load and every compare-and-swap is a step.  `ReturnFalse` covers the ways
in which `try_wLock` and `try_rLock` fail; a failed swap of `try_rLock` starts
again, as in the code.

### Seeded faults

Operators introduced by "Seeded fault" are plausible bugs of the definition that
follows them.  No specification uses them: `PROJECT.json` ("mutants") says which one
to put in place of which definition to see a property violated.

## 3. Runs

| Run | Instance | Shows |
|---|---|---|
| `server_small` | 3 segments, 5 WQEs, 2 strides, sizes 1-2, 3 writes in flight | all interleavings of thread, NIC and DMA keep the safety properties and `ServerInv`; a stalled NIC gets a WQE (`RnrEnds`) |
| `rowan_two_clients` | 2 clients, 2 segments of 2 strides, sizes 1-2 | refinement of `AppendLog`; appending goes on for ever although clients exhaust the segments |
| `rowan_batch` | 1 client, batch = buffers = both queues = 2, 3 segments | order and integrity within a client; buffers, queues and window in the tightest case the assumptions allow |
| `sum` | 4 nodes, 2 sums, a barrier | the first sum is exact, the barrier holds, all get through |
| `barrier_threads` | 2 machines x 2 threads, k = 2 | **violated**: see Findings |
| `startup` | 2 servers, 2 clients, any order, 2 directories | queue pairs pairwise connected; usable only when all are ready and all is saved; all come up that can |
| `setup` | 4 connections (3 of threads, 1 directory), 2 failing calls, 3 threads, 2 sizes | nothing leaks; what a process that comes up has; threads keep apart |
| `algorithms` | see below | checksum, work requests and messages against their definitions |
| `ud_send` | 8 buffers, one completion in 4, inline or not | two batches of buffers suffice, one would not |
| `ud_recv` | 6 buffers, 3 batches, 5 waiting | the reposted buffer is safe to read; nothing dropped while a batch is free |
| `dsm_ops` | 2 threads of 2 nodes, 2 buffers; one thread posts up to 3 operations (`cas` to its own node, `write` to the other), the other thread 1 `faa`; send queues of 2, completion queues of 2; one queue pair may fail | what a `_sync` call is worth to a caller that has drained its completions; completions are counted exactly, through refusals, overruns and the end of a process; which calls may hang |
| `wrlock` | 3 threads, 3-bit word | exclusion, no lost unlock, and `LockInv` |

The runs of the server and of the lock check the inductive invariant of the proof too.  The
other inductive invariants are defined in the proof modules, next to the argument they
carry; TLC checked each on the instances above before it was proved, which is how an
invariant that is too strong shows up.  To check one again, put its definition in the `MC`
module and add it to the INVARIANTS of that run; it adds nothing to the theorem.

**Bounds.**  `DmaDepth` limits the writes in flight; 3 is more than the messages of
one segment, so that writes of several segments are in flight.  Two segments are
the smallest ring the algorithm allows (it looks at the segment after the oldest);
three separate "next" from "previous".  `SeqCnt` (numbers of requests) and
`MsgCnt` exceed the buffers of the instance, so that no two messages that could be
confused have one number.  `MaxLen` and `NumStrides` are such that a message fits
exactly, does not fit, and fits with room left.  Four processes are the fewest with a
node that is neither first nor last among servers or among clients.

Four nodes let a sum mix values of nodes before and behind the one that adds.  Two
failures let a second one hit the cleanup of the first, or a directory after a thread.  In
`algorithms` streams have 16 and 8 bytes: buffers of up to 135 bytes then have two large
blocks, up to two small ones, units, and up to seven bytes at either end, starting at
three offsets.  Source lists have up to four pieces, of 0 to 2 bytes, in work requests of
1 to 3: full, with one piece left, and with empty pieces.  Messages have up to three
fields in a slot of 24 bytes, half of which is header and padding, so that some are
refused by the assertion and some extra data does not fit; sizes are counted modulo 24, the
least that is a slot, and the ids of three nodes and threads modulo 3.

**Deadlock** is checked but for `sum`, `setup`, `algorithms` and `startup`, which end, and
`dsm_ops`, where the bound on the operations (`MaxPosted`) ends the run.  Three operations are the fewest
in which a call comes after one that took another's completion, and the fewest that
exceed a send queue of two places (with three writes, say, which ends the process) or overrun a
completion queue of two entries (with requests to both nodes).  `read` and `send`, which differ
from these operations in fetching without a change and in neither, are left to the proof, which
covers all operations.

**Fairness.**  Threads spin and are never blocked: weak fairness of a thread's
steps.  NICs finish what was posted: weak fairness of `DmaWrite` and `Complete`.  In `Rowan` a transmission may be turned away
while no segment is posted, and then only *some* sender gets through: weak fairness
of the disjunction (`RowanFairness`).  Hence `AppendsGoOn` says that appending as a whole goes on; that
no single client starves is not implied by the code, nor claimed.  Nothing obliges a
client to send in `RowanServer`, where `RnrEnds` therefore says only that a NIC
without WQEs is given one.  In `DsmOps` a thread in a
call goes on polling and the transport answers or gives up; nobody has to call.  In
`WRLock` holders release; a single writer may starve
and nothing claims otherwise.

## 4. Proofs

Every theorem holds for all values of the constants that satisfy the assumptions of the
module it is about; `PROJECT.json` lists the theorems.  A proof has one lemma per action
("the action keeps the invariant"), and its theorems follow from the invariant alone.  None
of the safety properties below is inductive by itself; what each invariant adds is the
reason why the code works.

| Module | Proved | Inductive invariant | Assumes |
|---|---|---|---|
| `RowanServerProof` | `RecycleSafe`, `NoPostRefused`, `FreesTheRightWqe`, `FlagHonest`, `OpensEmptySegment`, `MessagesKept` | `ServerInv`, which is `RowanServer!IInv`, `MemInv` and `KeptInv` | 2 segments or more, more WQEs than segments, messages that fit a segment and start with a byte that is not 0 |
| `RowanProof` (clients) | `BuffersUntouched`, `WindowExact`, `NoSendRefused` | `IInv` | a batch no larger than the ring of buffers and the two queues |
| `RowanProof` (all) | `RowanRefines`: `Rowan` implements `AppendLog`; `RowanKeepsWindow` | `RowanInv` | both, and that the largest request fits a segment |
| `SyncProof` (barrier) | `BarrierSafe` | `BarrierInv` | as many callers as are expected, a finite set |
| `SyncProof` (sum) | `SumsExact`, `SumBarrierSafe` | `SumInv` | nodes `0 .. ServerNR - 1`, the last one creates the counter |
| `StartupProof` (resources) | `ContextsWhole`, `AnnouncedHasAll`, `ThreadsKeptApart` | `SetupInv` | a directory at least (`NR_DIRECTORY` is 1), no more threads than connections, sizes that are not 0 |
| `StartupProof` (all) | `PairedAlways`, `ConnectedWhenUp` | `KeeperInv` | as many servers as `ServerCnt` says, a finite set of processes |
| `RpcProof` (sending) | `BuffersReadFirst`, `CallsAccepted`, `OneCompletion` | `SendInv` | two batches of buffers or more |
| `RpcProof` (receiving) | `HeldStaysIntact`, `NoBufferTwice`, `NoDatagramDropped` | `RecvInv` | batches of equal size, fewer datagrams waiting than buffers |
| `DsmOpsProof` | `CompletionsConserved`, the action property `SyncTakesEffect` | `DsmInv` | - (threads, nodes, words, calls: any) |
| `SyncProof` (lock) | `WriterAlone`, `LockFreed` | `LockInv` | finitely many threads, no more than the word can count |
| `AlgorithmsProof` (checksum) | `ChecksumsAgree` | `CrcInv` | blocks of whole eight-byte units, buffers of bytes |
| `AlgorithmsProof` (vectors) | `StretchWritten`, `EveryVectorWritten` | - | a list that is not empty, a null that is no work request |
| `AlgorithmsProof` (messages) | `MessageArrives`, `EveryMessageArrives` | - | a slot longer than padding and header, and no longer than 16 bits count |

**The server.**  That the NIC has left a segment when the next one has a first byte
depends on everything in flight.  `IInv` reads both rings relative to their oldest element
(`Pos` for segments, `Lag` for WQEs), so that one step of the thread shifts all positions
by one:

* `RingInv`: the free list is a stretch of the ring, and the n-th posted WQE holds the
  n-th segment;
* `NicInv`: the NIC has opened a prefix of the posted segments and fills the last of it;
  during recycling it has opened at least two;
* `DmaInv`: writes in flight are sorted by segment, then stride;
* `FlagInv`: a segment with a first byte is opened, and no write to an older one is in
  flight: its own first write has already arrived.

`FlagInv` and `DmaInv` give the crux (`PollUsedIInv`): when the poll succeeds nothing is in
flight for the oldest segment.  `MemInv` adds what memory holds: a segment with a message
has a first byte, or the write of that byte is ahead of all others in flight to it.
`KeptInv` adds where messages lie: in a segment those in memory end where the writes in flight
begin, these follow one another and end where the NIC goes on, and a free segment holds none.
Hence no write goes over a message (`MessagesKept`); that the segment the NIC opens next is free
is `FlagInv` with the positions of both rings.  For `RecycleSafe` the lemma `PostedLag` finds every
WQE the NIC still has in front of it behind the opened ones, so that none of them holds the
oldest segment.

**Clients.**  A buffer is safe because the ones under way are a stretch of the ring that
ends just behind the buffer posted next (`RingInv`), of no more requests than a batch;
together with the completions not yet polled they are still no more than a batch
(`QueueRoom`), which is why neither queue is ever full.

**The refinement.**  `RowanRefines` maps every step: placing a message is `AppendNext`,
posting one `HandOver`, polling a completion `Report`, `Clear` is `Recycle`, and every
other step stutters.  The log is `FlattenSeq` of the segments in ring order, followed by
the writes in flight.  Four facts about it are needed: clearing the oldest segment drops the first
list; moving an empty list to the end changes nothing; a DMA write, which `DmaInv` says goes
to the last list that is not empty or to the one behind it, moves its message across the
border between memory and flight; placing adds at the end.  That `Recycle` never gives up the
whole log uses `MemInv`: the polled segment has a message.  The facts about `FlattenSeq`, which
the library defines by recursion, are lemmas of `SharedLemmas`.  The
server's theorems are used through `SrvP`, an instance of `RowanServerProof`, whose
assumptions `ServerSizes` and `ServerMessages` prove; `Srv` and `SrvP` are the same
formulas (`SameInit`, `SameServer`, ...).

**Barrier and sum.**  `BarrierInv`: the counter never exceeds the number of callers it has
counted, however often it is reset, so somebody who has left has seen enough of them.
`SumInv`: who stores a value of the second sum has left the barrier, so everybody has
finished the first.  The theorems about `Barrier` use only its own assumptions, though
`SyncProof` sees those of `Sum` and `WRLock` too; likewise for the parts of the other
modules that prove about several: each uses the assumptions of its own component.

**Resources.**  `SetupInv`: at every stage of `createContext` the pointers that are set are
what is open, and which these are follows from the stage (`StageInv`); a part that has been
attempted found what it uses, and a region whose key was read is there (`Survived`), or the
process would have ended.  A process that has announced itself has attempted all parts, so that
all is there but what no later part uses.  Without a directory nobody would notice that the memory
of the node was not mapped, hence the assumption.  Ids are as many as threads that took one
(`ThreadInv`); shares of one size at different multiples of it do not overlap.

**Startup.**  `KeeperInv`: ids are given out without gaps, records of a pair are stored as
made or not at all, and exactly the queue pairs a process has come past in its loop are
connected (`Handled`, `ConnectInv`); hence a process in the barrier has connected all, and
who leaves it follows everybody else.  `SavedInv` says the same of what is saved of each peer.  `BarrierInv` is used again through the instance
`Meeting`.

**Datagrams.**  `SendRingInv` says how far each buffer under way lies behind the next,
and `SendQueueInv` which request in the queue is signaled, as a function of `sendCounter`.  That
`sendPool` agrees with the requests is part of it, and that the buffer of a call under way
holds what the call is going to post: without the latter the former is not inductive.
`RecvRingInv` lays the completions not polled and the posted buffers around the
ring without a gap, which is why the buffer in the caller's hands, the one just before, is
posted again only when a batch of others stands in front of it.

**One-sided operations.**  Requests have distinct ids (`IdInv`), so those signaled and not
completed can be counted (`OwedInv`, `CompletionsOwed`); every step adds one, removes one or
exchanges one for its completion (`CountAdd`, `CountRemove`, `CountSwap`), which is queued or, if
the queue is full, lost: then it and the queued ones alone are more than the queue holds, and
all of them are owed (`CrowdOf`).  A `_sync` call of
a drained caller has the only signaled request of its thread and the only one that uses its
buffer (`SyncInv`, `Pending`): a completion that reports success can be none but its own,
and from then on nothing touches the buffer (`Done`).

**Checksums.**  `CrcInv` says that the register is the remainder of the bytes taken; what
carries the proof is what one turn of a loop makes of it.  `Appended(n, w)` is a word after n
more zero bits: it is linear (`AfterSum`), composes (`AfterAfter`), and is a shift while no
bit reaches the bottom (`AfterShift`).  Three consequences cover the five loops:

* *Blocks*: dividing from a register is dividing from zero, plus the register appended past
  the bytes (`DivideAdds`); so three streams computed apart are one division if the first
  two are shifted past what follows them (`HardwareBlock`).
* *Tables of zeros*: the product with x^n appends n zero bits (`TimesPower`), the powers come
  by squaring (`PowersAre`), and a word is the sum of its four bytes (`FourBytes`), so that
  `crc32c_shift` appends what its table stands for (`ShiftAppends`).
* *Tables of the software*: row k is a byte appended past k + 1 bytes, plus the two
  inversions built into row 0 carried along (`TableRows`).  In the sum over eight bytes the
  inversions of neighbouring rows cancel, all but the last, which is the inversion of the
  register (`SoftwareUnit`).

**Work requests and messages.**  `StretchWritten` follows the chain: after n work requests
the memory is the stretch of the first n of them, since the address of each is where the
one before ends (`FlattenConcat`).  `MessageArrives` keeps, field by field, that the cursor of
the receiver stands where the sender's pointer stood when it added the field, and that what
is added later does not touch it.

**Recursion.**  The library's induction takes an operator as parameter, which the provers
cannot instantiate.  `SharedLemmas` states induction for sets (`NatSetInduction`,
`RangeInduction`) and proves that a function defined step by step over numbers exists and
satisfies its definition (`Recursion`, `NatRecursion`, `RecursiveExists`); every recursive
function of the models is handled through these.

**Only model-checked.**  Liveness (`RnrEnds`, `PollReturns`, `AppendsGoOn`, `CallsReturn`,
`SumsReturn`, `StartupCompletes`, `SomebodyEnters`) and ENABLED, which the prover does not do.
That the literals of `CRC32.h` are the tables the proof is about is checked by TLC for an
entry of every row (`TablesAsInSource`).  Every safety invariant, every action property and
the refinement a run checks are proved.

## 5. Findings

`DSMKeeper::barrier` is not usable by several threads of a machine, although
`test/rpc_test.cpp:26` calls it from each of `thread_nr` threads.
Every caller increments the counter and every caller on the last machine resets it,
but the expected value is the number of machines and is compared for equality
(`DSMKeeper.cpp:129`).  Run `barrier_threads` shows a counter that passes 2, after
which nobody leaves.  With one thread per machine (run `sum`, module `Keeper`) it works.

## 6. Not modelled

* Failed completions and broken connections, except in `DsmOps`: `pollWithCQ` reports
  the status of the last completion and all callers ignore it.
* A memcached server that fails once a process has reached it; failing calls of libibverbs
  while nodes exchange records (`Connections` covers them before).
* Loss of datagrams: `ud_rpc_wait` has neither timeout nor retry, so an RPC whose
  datagram is lost never returns; nothing promises otherwise.
* Failures and restarts of a process: the code keeps no persistent state and has
  no recovery; a run starts from a cleared memcached.
* What libibverbs does behind its calls, logging, timing, core binding.
* `sendRawMessageWithData`, `getMessageAddr`, `destoryContext`, `BitMap` and the arrays of
  messages have no caller.
* MurmurHash2 and Zipf are not called; a hash has no property but its definition, and Zipf
  computes with floating point.
* In `Sum` a key belongs to one sum and one node, as the names the repository uses make it.

## 7. What could come next

The components of section 1 but the utilities are modelled, and every safety property a
run checks is proved for every size.  Two extensions are worth the work when the code moves:

1. Loss of datagrams and failed completions in the composition of client and server: today
   the code has no answer to either, so there is nothing to prove but that it waits.
2. The safety part of progress (what makes a waiting thread's step possible), which would
   reduce each liveness property to fairness alone.
