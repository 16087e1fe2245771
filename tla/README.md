# TLA+ verification of Sherman

Sherman (SIGMOD'22) is a write-optimised distributed B+ tree on disaggregated
memory.  Compute threads read and write the pages of the tree with one-sided
RDMA; memory nodes only run a *directory* thread that serves two kinds of
messages.  This directory holds TLA+ models of the parts of the code in which
threads of several machines interact, the TLC runs that check them on small
instances, and TLAPS proofs for every instance.  Paths below are relative to
the root of the repository.

## 1. Inventory

| Part | Code | State | Operations | Interacts with |
|---|---|---|---|---|
| hierarchical lock | `src/Tree.cpp` 205-321, 1119-1173, `include/Tree.h` LocalLockNode | lock word per page hash on the memory node's NIC; per compute node a 64-bit word of two 32-bit tickets, `hand_over`, `hand_time` | acquire_local_lock, try_lock_addr, lock_and_read_page, write_page_and_unlock, unlock_addr, can_hand_over, releases_local_lock | RDMA CAS and writes on one queue pair per thread and memory node |
| B+ tree | `src/Tree.cpp` 27-203, 323-1057, `include/Tree.h` pages | internal and leaf pages with fences and sibling links; root pointer in memory node 0; `g_root_ptr`, `g_root_level` per node; path stack per coroutine | insert, search, del, range_query, page_search, leaf_page_store, internal_page_store, leaf_page_del, update_new_root | lock, allocator, NEW_ROOT messages, index cache |
| two-level versions | `include/Tree.h` 170-335 | `front_version`/`rear_version` per page, `f_version`/`r_version` per leaf entry | set_consistent, check_consistent, leaf_page_search | readers without locks |
| index cache | `include/IndexCache.h`, `CacheEntry.h` | skip list of key ranges, page pointers, free-page counter, delayed-free list | add_to_cache, search_from_cache, search_range_from_cache, invalidate, evict_one | all threads of a node |
| directory | `src/Directory.cpp` | `chunckAlloc`, the node's root variables | process_message: MALLOC, NEW_ROOT | datagrams |
| allocation | `include/GlobalAllocator.h`, `LocalAllocator.h`, `DSM.h` 178-224 | bitmap and tail per directory; `head`, `cur`, target per thread | alloc, alloc_chunck, malloc, set_chunck | directory |
| DSM | `src/DSM.cpp`, `src/rdma/Operation.cpp` | queue pairs, completion queues | read, write, write_batch, write_faa, write_cas, cas, cas_mask, faa, and the `_dm` and `_sync` forms | NIC |
| message connections | `src/*Connection.cpp` | rings of receive and send buffers | getMessage, getSendPool, sendMessage2Dir, sendMessage2App | NIC |
| RDMA buffers | `include/RdmaBuffer.h` | rings of 8 CAS, page and sibling buffers per coroutine | get_*_buffer | asynchronous writes of the same coroutine |
| coroutines | `src/Tree.cpp` 1059-1118, 1175-1185 | hot wait queue, busy-waiting queue | run_coroutine, coro_worker, coro_master | completion queue |
| bootstrap | `src/Keeper.cpp`, `src/DSMKeeper.cpp` | keys in memcached | serverEnter, serverConnect, barrier, sum | memcached |
| reader-writer lock | `include/WRLock.h` | one 16-bit word: 1 for a writer, 2 for each reader | rLock, wLock, try*, unlock | index cache |
| resources, utilities, vendored code, tests | `src/rdma/`, `src/Debug.cpp`, `src/Common.cpp`, `include/third_party/`, `test/` | none of the protocol's | | |

What is hard here, and is listed line by line under `hazards` in PROJECT.json: a
lock whose local half is released while the remote half and the page are still on
their way; buffers that are used again while the NIC may still read them; operations
that start at a page a stale copy names; splits that are three separate writes on
two memory nodes, seen by readers that take no lock; root growth announced by
datagrams that may be lost; a ticket counter that wraps; assertions that stop a
process while it holds locks; readers that pass over a page while a split of it
arrives; cached pages that are freed after a delay and not after their last reader
has left.

What makes each part correct:

* lock: one holder in the cluster, a holder sees every earlier holder's page,
  a node cannot keep the lock for ever, every waiter is served;
* tree: the pages are a B-link tree at every moment, operations are
  linearizable, an acknowledged key that nobody deletes is never lost, every root
  pointer a node may hold still reaches every leaf, no assertion fails,
  operations return;
* allocation: pages never overlap, never leave their chunk, never touch the
  chunk of the root pointer;
* versions: a value that is found was there, a key that is there is found;
* cache: every page copy is in one place and freed once, the budget is exact, a
  lookup prefers the narrowest range, nobody reads a freed page;
* messages: a buffer is not reused before the NIC is done with it, none is
  missing when a datagram arrives unless too many ask one directory at once,
  answers reach their callers;
* coroutines: a posted write keeps its contents as far as queue pairs and ring
  lengths can see to it, each suspended coroutine is woken exactly once, every
  request ends;
* bootstrap: queue pairs are connected to the peer's own, nobody passes a
  barrier early, all pass, a sum is of this round's values;
* reader-writer lock: a writer is alone, the word tells who is in.

## 2. Modules

| Module | Contents |
|---|---|
| `HierLock` | one lock word, one page, all nodes and threads |
| `LockedPage` | abstract lock: one owner, released modifications in place at once |
| `HierLockProofs` | proofs about `HierLock` |
| `Tree` | the B-link tree operations, with the index cache |
| `TreeProofs` | proofs about `Tree` |
| `KVStore` | abstract map: each operation takes effect in one step between call and return |
| `Alloc` | DSM::alloc, both allocators and the MALLOC messages |
| `AllocProofs` | proofs about `Alloc` |
| `LeafRead` | one leaf page written and read cache line by cache line |
| `IndexCache` | a compute node's cache of internal pages |
| `IndexCacheProofs` | proofs about `IndexCache` |
| `Keeper` | node numbers, connection, barrier and sum over memcached |
| `KeeperProofs` | proofs about `Keeper` |
| `MessageRing` | connections between threads and directories: send and receive rings |
| `MessageRingProofs` | proofs about `MessageRing` |
| `CoroIO` | coroutines, RDMA buffer rings, posted and signalled requests |
| `CoroIOProofs` | proofs about `CoroIO` |
| `WRLock` | the reader-writer spin lock |
| `WRLockProofs` | proofs about `WRLock` |
| `MC*` | constants for TLC |

The modules are separate because the code keeps the parts apart: `Tree` uses
the lock through what `HierLock` is shown to implement (`LockedPage`), takes
addresses as `Alloc` hands them out (each once), reads pages whole, which
`LeafRead` examines, and uses the cache one call at a time, whose insides
`IndexCache` examines.  `MessageRing` is below the datagrams of `Tree` and
`Alloc`, `CoroIO` below the requests of `HierLock`: it shows that coroutines
that share queue pairs, completion queues and buffers implement `LockedPage` as
the threads of `HierLock` do.

### HierLock

A thread goes through `FetchTicket` (the `fetch_add` of acquire_local_lock),
`Spin`, `Enter` (which reads `hand_over` and counts `hand_time`), then, unless
the lock was handed over, `CasSucceeds` or `CasFails` until `Watchdog` stops its
process, `ReadPage`, and `BeginUnlock` or `Unlock`, where can_hand_over is
evaluated, the writes are posted and, for a hand-over, only the page is written.
`ReleaseLocal` is releases_local_lock; it waits for the completions unless the
unlock was asynchronous.  Posted writes sit in `qp` and reach memory in order
(`DeliverPage`, `DeliverUnlock`); other threads of the node use other queue
pairs, so their CAS can overtake.  The two halves of `ticket_lock` are counters
modulo `TicketMod` with the carry of the real `fetch_add`.

Abstractions: one lock word (others are independent); the page is a
version number, one higher after every critical section; the coroutine yields of
acquire_local_lock are `Spin`.  `kRetryLimit` stands for the 1000000 of the
watchdog, `MaxTickets` bounds the acquisitions.

### Tree

A workload is a tree and, for each client, a sequence of sets of operations.
`Start` looks the key up in the cache (search_from_cache) or reads the root
pointer; `Descend`, `TurnRight`, `ReachLeaf` and `ReadLeaf` are page_search on an
internal page or a leaf, and `Visit` is the part of it that adds a level-1 page to
the cache.  `StaleSearch` and `StaleStore` are what happens when the leaf that a
copy named does not hold the key: the copy is invalidated and the operation
starts again at the root.
`LockAndRead`, `RetryLock` and `MoveRight` are the first half of the store
functions, `StoreEntry`, `DeleteEntry` and `Split` their three outcomes,
`UpdateNewRoot` the CAS on the root pointer with the broadcast, `StoreUp` the
call of internal_page_store with the parent of the path stack, `InsertInternal`
the descent that finds the parent when the operation came through the cache,
`NoUpLevel` the assertions that fail without one, `Return` the end.
Asynchronous writes wait in the writer's queue per memory node (`Deliver`).
`DirNewRoot` and `LoseMessage` are what happens to a broadcast.  `RangeLeaves`
is search_range_from_cache with the loop of range_query that collects leaves.

Abstractions: a page is one value, read and written at once (`LeafRead` looks
below that); records are a function from keys; a page is full at
`kLeafCardinality` or `kInternalCardinality` entries; the lock of a page is a
word that `HierLock` shows to be a correct lock with in-order writes; a call of
the cache is one step, and the page that an eviction takes is any.  The cache is
on when the node's root has `kCacheLevel` (3 in Directory.cpp).  A tree of that
height with cached pages takes many inserts, so that one workload starts from a
loaded tree and the instances set the level to 2.  `acked` and `deleted` are
history: the keys of the loaded tree and of returned inserts, and the keys for
which del was called.

`WorkloadAssumption` says what a workload may be: its tree is any B-link tree at
rest (each page well linked, the pages of a level apart, every page but the root
and those a sibling or parent leads to accounted for), and its calls name keys of
`Key`.  TLC evaluates it for the trees of the instances, and the proofs need no
more.  `TreeAssumption` has the rest: an internal page has room for three
records and a leaf for two, so that both halves of a split hold something, and
two pages that share a lock word are on the same memory node, as the lock table
is per memory node in the code.

### Alloc

`AllocLocal` is DSM::alloc within the current chunk, `RequestChunk` its MALLOC
call, `Grant` and `RunOut` process_message with alloc_chunck, `Receive` the
return from rpc_wait with the second malloc, `Poll` the wait. Requests and
replies are datagrams; those of the threads in `Lossy` may be lost. `pages`,
`owner` and `count` are history. Addresses are a chunk and an offset.

### LeafRead

`Update`, `Insert`, `Split` and `Delete` are the outcomes of leaf_page_store and
leaf_page_del for one leaf page; each sends the entry or, for a split, the
page.  `Arrive` brings the next cache line of the write into memory, `ReadLine`
the next cache line into the reader's buffer; that both the NIC's write and its
read go through the lines in the order of addresses is an assumption about the
hardware, as favourable to the code as it can be.  At the end of the buffer
`ReRead`, `TurnRight` or `SearchLeaf` is what page_search and leaf_page_search
do with it.  Fields are the fences and versions of the header and the four
fields of each slot; `LineOf` lays them over the lines, so that entries straddle
two of them as the 18-byte entries of the code do.  Writers exclude each other
(`HierLock`), so one write is on its way at a time.  `current` is history: the
values the key has had since the read began; `rd.over` is what was written
while the page was read.

### IndexCache

The skip list is the set of listed ranges with the order of
CacheEntryComparator; nodes are never removed.  The steps lie between the atomic
operations: `AddEntry` (copy and InsertConcurrently), `FillEntry` or `DropCopy`
(the conflicted branch), `CountPage` (the charge that decides on an eviction),
`PickVictim`, `TakeVictim`, `RetryVictim` (evict_one), `LoadPtr`, `ClearPtr`,
`DelayFree` (invalidate), `LoadEntry`, `FinishSearch`, `SearchFails`
(search_from_cache), `FreePage`, `Refund`, `PopFreed` (the leader's delayed
free).  `UseHit` is the caller, who may find the address stale.  The less used
of two random entries is any cached entry.  `Grace` is the assumption behind the
delay of 30000 cycles: with it, a page is freed only when nobody is inside it.

### MessageRing

A connection is a ring of send buffers (`curSend`, `sendPool`), the sends posted
to the NIC (`sq`), the completions of those that were signalled (`send_cq`), a
ring of receive buffers (`curMessage`, `messagePool`), those that are posted
(`rq`) and the messages that have arrived (`cq`).  `Call` and `rpc_call_dir` are
the thread's side: MALLOC to one directory in turn, NEW_ROOT to all.  The message
is copied to its buffer before `sendRawMessage` polls for an earlier signalled
send; `Transmit` is the NIC, which reads the buffer only then and drops a
datagram that finds no receive buffer.  `getMessage` posts a whole batch again
with its last message, which `process_message` or `TakeReply` reads afterwards.

One assumption is about the sizes: a ring has two signal periods
(`messageNR >= 2 * kSignal`; 96 or 128 buffers and a period of 32 in the code).
How many threads ask one directory at once is not limited, as in the code, whose
constants allow 8 machines of 26 threads for the 128 buffers of a directory.
`Crowd(d)` counts the threads that wait for an answer of `d`, and the new roots.
What comes of it depends on two numbers:

* as long as the crowd is at most `messageNR - subNR + 1` (128 - 32 + 1 = 97), no
  datagram is dropped, although a batch is only posted again with its last
  message;
* beyond that a request may be dropped, and its thread waits for ever.  Nothing
  else goes wrong up to `messageNR`;
* beyond `messageNR` (`Bearable` is false) a datagram can take the buffer of the
  message that the directory is handling: with rings of four and a crowd of five
  TLC finds `HandlesItsMessage` violated.

`LostOnlyInCrowd` is the first, and says too that answers are never dropped;
`CallsReturn` claims that calls return while the crowd is no larger.

### CoroIO

`coro_master` starts the workers, then takes a completion and a waiting coroutine
in turn.  A worker makes searches (`Search`, `EndSearch`) and stores: `Store`
takes buffers and a ticket, `Wait` puts the coroutine in the hot wait queue,
`Enter` and `TestCas` are try_lock_addr and lock_and_read_page, `Unlock` is
write_page_and_unlock or unlock_addr, synchronous or not, `Release` the local
lock.  Every synchronous request yields to the master.  `Execute` is the memory
node: it reads or fills the buffer at that moment, and a signalled request leaves
the coroutine's number in the completion queue.  A buffer is known by the number
of the call that took it, and `Slot` says where in the ring it is.

A thread has a queue pair per memory node.  Each executes in order and at any
speed, and two of them are not ordered with each other, so `Mem` has a lock word
and a page on each memory node.  Nobody asks the NIC whether a posted write still
waits when its buffer comes round again.  Two things can protect it:

* the queue pair, against the coroutine's later requests to the same memory node,
  since it waits for them and they complete after the write;
* the length of the ring, against requests to other memory nodes.  `away` is
  history: the buffers that a coroutine took for those since it last unlocked on
  this one.

`PostedIntact` says that together they protect a write as long as `away` is less
than a ring, and nothing is assumed of the NICs' speed.  `BuffersSafe` says it
without the condition, as the constants of `RdmaBuffer.h` do ("async, buffer
safty").  With one memory node it is true for rings of any length, with two it is
false: in `coro_io` the run that goes round its rings overwrites what was posted on
the other node, and with the code's rings of eight TLC finds a page write to one
memory node filled by the eighth read from the other.  It takes a queue pair that
lags behind eight round trips of another; nothing in the code bounds that.

### Keeper

Each process runs `serverEnter`, then serverConnect as one step per memcached
command (publish the ExchangeMeta for a peer, wait for the peer's, connect),
then the calls of `Calls`: barriers (node 0 creates and resets the counter,
everybody increments and polls) and sums.  An ExchangeMeta is whose queue pairs
it describes and for whom.  A command that fails is taken to have had no effect
and is repeated.

### WRLock

One step per load and per compare-and-swap of the four lock calls and the two
unlocks, on a word of `WordMod` values.  A thread may make `MaxCalls` calls.

## 3. Runs

| Run | Instance | Shows |
|---|---|---|
| `lock` | 2 nodes, 3 threads (2+1), 3 acquisitions on the first node and 1 on the second, hand-over limit 2, watchdog 1, fair | exclusion, no lost update, hand-over limit, refinement of `LockedPage`, the inductive invariant; every waiter enters or was stopped by the watchdog; the lock word is zeroed |
| `tree_lin` | 2 writers on 2 nodes, 1 memory node, from an empty tree to three levels and from a loaded tree with cached pages, NEW_ROOT late or lost | linearizability with deletes, overwrites, splits, root growth and stale copies; every known root reaches the leaves; a range query fetches every leaf that a lookup in the range is sent to |
| `tree_spread` | 2 writers on 2 nodes, 2 memory nodes, both kinds of tree, fair | B-link structure at every moment; posted splits overtaken by their parents lose nothing; no assertion but the two of the finding fails, also where a parent is ahead of its leaf; every operation returns |
| `tree_lateroot` | 1 writer with a late NEW_ROOT | violation: it splits the old root a second time, loses the CAS on the root pointer and fails the assertion at `src/Tree.cpp:824` |
| `alloc` | 3 threads on 2 nodes, 2 chunks per node, pages of 1 and 2 in chunks of 3, one thread's messages may be lost, fair | pages disjoint, inside their chunk, the inductive invariant; allocations return unless a node ran out |
| `leaf_read` | 3 keys in 3 slots over 3 cache lines, 4 writes, 2-bit entry versions | only a split or a write of the same key disturbs a search; without a split a found value was the key's; pages read under the lock are consistent |
| `cache_safety` | 3 threads, 3 ranges, budget of 1 page, 3 copies, `Grace` | each page in one place, exact budget, narrowest range, no use after free |
| `cache_freed` | one range, 2 copies, no `Grace` | violation: "check if it is freed" does not notice it |
| `keeper` | 3 processes, the calls of the benchmark, fair | connected pairs, barriers, sums; every process gets through |
| `message_ring` | 2 threads, 2 directories, rings of 4 buffers in 2 batches, every second send signalled, 9 calls of one thread or 6 of two, 2 new roots, fair | send buffers keep their message, datagrams are dropped only where more ask at once than there are buffers outside of a batch, a reposted buffer is still intact when it is read, answers are the caller's, every call returns if there is no such crowd |
| `coro_io` | 3 coroutines of 2 threads on 2 nodes, 2 memory nodes, rings of 3 CAS and 2 page buffers, up to 3 requests, hand-over limit 2, fair | a posted write is safe until a ring of buffers is taken for the other memory node, one wakeup each, refinement of `LockedPage`, every request ends |
| `wrlock` | 3 threads, 2 calls each, a word for 3 readers, fair | exclusion, the word counts; every call and unlock returns |

Why the bounds are enough: three threads on two nodes are the least with a local
queue and a remote rival, and three acquisitions with a hand-over limit of two force
hand-over, its limit and the remote competition (the theorems cover every other
number).  In the tree a page of two or three entries splits after the second or
third insert, so that three levels, moves to the right, splits of a page another
thread holds an address of, and two growths of the root all happen.  In the loaded
tree a client caches pages above leaves that the other splits, up to the root, so
that every level of a copy goes stale.  In the allocator two chunks per node for
three threads run out.  In a leaf over three cache lines a reader can be overtaken
before, inside and after an entry; with four writes and four values an entry version
wraps, but a reader cannot sleep until it meets an old version again over a live
entry, which the code's 16 values do not exclude either (a hazard without a
property).  Three page copies and a budget of one make pages conflict, replace each
other and be evicted while a third thread reads.  With three processes a node meets
peers that connect before, with and after it.  The message rings are the smallest
that the signalling allows and nine calls of one thread go round all of them.  Two
threads and two new roots are one more than a directory's buffers outside of a
batch, so that datagrams are dropped. Two coroutines of one thread meet in the
completion queue and the local lock.  A workload says how many requests a coroutine
makes to each memory node: three go round the rings, and two after a posted write on
the other node overtake it there, where the refinement, which is about the page of
`Home`, does not look.

The violations are findings about the code, described in PROJECT.json:

* a node that missed or has not yet got NEW_ROOT starts at the old root.  If it
  splits it a second time it loses the CAS on the root pointer, if it moves right
  and splits the sibling it tries none, and in both cases its path has no page
  above and it ends in `assert(false)`.  In the same way, of two writers that both
  saw the leaf root the loser of the root CAS fails `assert(from_cache)`
  (`test/benchmark.cpp` 236-240 preloads from one thread, which avoids it);
* search_from_cache tests that `entry->ptr` is set, not that it is the page that
  was read, so a page freed and replaced meanwhile is not noticed.

Three limits of the promises are in the statements of the properties, not in
findings, because the repository makes no claim beyond them:

* its `README.md` says that the two-level version may induce inconsistency in
  some concurrent cases.  `LeafRead` shows which.  leaf_page_search skips an
  entry whose versions differ instead of reading the leaf again, so a search can
  miss a key that an update is just overwriting; and a split moves entries to
  other slots with their versions while equal page versions do not show that the
  lines between them belong together, so a search overtaken by a split can
  return another key's value.  `OthersDoNotDisturb` and `FoundValueIsCurrent`
  hold in all other cases and fail if either exception is dropped;
* an insert that splits a leaf returns once the parent is updated.  If leaf and
  parent are on different memory nodes, the posted left half may still be on
  its way, and another client that reads the old leaf misses a key whose insert
  was acknowledged.  So `Linearizable` is checked with one memory node, where
  the queue pair orders the two, and fails with two; `AckedKeysSurvive` counts
  the posted write;
* range_query fetches only leaves that cached pages name, reads each once without
  a look at the page's versions and does not follow siblings.  A range no cached
  page covers is left out (a FIXME in the code), and a leaf that split after its
  parent was cached gives half of its entries.  `RangeCovers` says what is left:
  a range query fetches every leaf that a lookup of a key in the range is sent to.

A process that fails an assertion stops for good, and its locks stay taken.  Its
memory stays there, as if memory nodes were processes of their own; in the code the
pages of the node are gone with it. The passing runs of the tree contain such
behaviours where the calls allow them: the structure and linearizability hold
throughout, and what says that an operation returns claims nothing once a process
has stopped, since others may then wait for its locks.

### Fairness

Only weak fairness is assumed.  Threads run on cores of their own and poll, and
RDMA delivers what is posted.

* `HierLock`: each thread's steps, and the delivery of its writes while its
  process lives.  The watchdog bounds the failed attempts, so progress is
  claimed up to a watchdog stop.
* `Tree`: each thread's steps and delivery.  NEW_ROOT messages need no
  fairness: they may be lost.
* `Alloc`: clients and directories.  Return is claimed for threads whose
  messages are not lost, as the code has no retransmission.
* `MessageRing`: each connection's thread and its NIC.  The fabric loses nothing
  here; calls whose datagrams are lost do not return (`Alloc`).
* `CoroIO`: each thread, whichever coroutine runs, and each queue pair.
* `Keeper`: each process.
* `WRLock`: each thread's steps after a call; the calls are finitely many, since
  readers that keep coming can starve a writer.

## 4. Proofs

`HierLockProofs` proves, for all nodes, threads, hand-over and watchdog limits,
`LockInv`, type correctness, mutual exclusion, the absence of lost updates, the
hand-over limit and the refinement of `LockedPage`, each under the hypothesis
`TicketsFit`: no node draws as many tickets as `TicketMod`. The hypothesis is
needed: with a modulus of 4 and five tickets TLC shows a waiting thread
overtaken, since `fetch_add(1)` on the packed word carries from the ticket half
into `current` (after 2^32 acquisitions in the code). Mutual exclusion
is not inductive: that a thread may skip the CAS depends on a flag another
thread wrote, and that the lock word is set depends on a zero still on its way.
`LockInv` adds

* `TicketInv`: tickets are distinct and between `current` and `ticket`, so one
  thread of a node is served at a time;
* `OwnerInv`: the lock word is set exactly while one node has a holder, a
  pending unlock, or a hand-over to its next thread;
* `DataInv`: the page plus what is posted before the next reader can read is
  everything ever modified;
* `HandInv`: `hand_time` counts the critical sections since the last CAS and
  stays within the limit.

`AllocProofs` proves `AllocInv`, `PagesDisjoint`, `PagesInside` and
`TailIsFree` for all constants, with and without loss.  Disjointness follows
from ownership: a chunk is given out once (`BitmapInv`: the bitmap is what is
below the tail, and each of its chunks has one owner), a chunk on its way is
untouched (`MessageInv`, `FlightInv`), and pages of the current chunk are below
`cur` (`PageInv`).

`WRLockProofs` proves exclusion and the meaning of the lock word for every
finite set of threads with `2 * |Thread| < WordMod`. Exclusion is not
inductive: a compare-and-swap decides by the word alone, so the invariant
`WRInv` adds that the word counts the readers (`WordCounts`) and that a reader
never carries LOCKED into its compare-and-swap (a part of `TypeOK`).

`KeeperProofs` proves, for any finite set of processes and any sequence of
calls, that queue pairs are connected in pairs (`PairsConnected`), that barriers
hold (`BarriersHold`) and that sums are totals (`SumsAreTotals`).  `KeeperInv`
says that a process that has entered has a number below `serverNum` and nobody
else has the same (`NumberInv`), and where a process is in the loops
(`PlaceInv`).  On top of it

* `MetaInv`: what is under a key of memcached is what its writer means by it,
  which is what a process that reads it connects to;
* `CounterInv`: the counter of a barrier is there once node 0 has been through
  its reset, and counts the arrivals from then on.  A poller sees the number of
  processes only when all have arrived.  This takes the hypothesis
  `KeysDistinct`: a second barrier with the same key would reset the counter;
* `SumInv`: what is published for a sum is the value of this round, and what a
  process has in hand is the first `k` values added up.

`SumsAddUp` says "added up" by the partial sums (`AddsUp`), since the fold that
`SumIsTotal` compares with can only be evaluated, not unfolded, by the provers:
that both give the same number is induction over data.

`IndexCacheProofs` proves, for any finite set of threads, any page ranges and any
number of copies, `OnePlace`, `NoUseAfterFree`, `BudgetExact` and
`NarrowestFound`.  `CacheInv` adds to `OnePlace` that what a thread works with is
a listed entry and a page, and that the leader works on the head of the list
(`HoldsInv`), that a page in hand is in one hand and nobody has read one that was
never listed (`OwnInv`), and that each page waits once (`ListInv`).
`NoUseAfterFree` is a part of the induction: a page that is cleared from its
entry may still be read, and only `Grace` keeps the leader from freeing it.  The
budget follows by counting, step by step, what enters and leaves the cached
pages, the list and the two places where a thread is between the page and the
counter.  `NarrowestFound` needs `RangesNest`: of two pages' ranges, one holds the
other or they are apart, as a page keeps its range until it is split.  For ranges
that overlap otherwise, the skip list's order puts no narrowest first.

`CoroIOProofs` proves, for any threads, coroutines, memory nodes and rings, and
for NICs of any speed, `PostedIntact` and `OneWakeup`, and for one memory node
`BuffersSafe` (`OneMemNodeSafe`).  `CoroInv` has

* `TeamInv`: a thread's lists and queue pairs name its own coroutines only;
* `WakeInv`: a coroutine runs, is done, or is named in exactly one place of
  exactly one of the start list, the hot wait queue, the completion queue and the
  signalled requests;
* `QueueInv`: a request that a coroutine waits for is its last one in that queue,
  so when it is woken nothing of its own is left there.  This is what the order
  of the queue pair is good for;
* `PostInv`: a request that will be filled has the buffer its coroutine took
  last; one that is yet to be read is older, by no more calls than `away` counts,
  and unchanged while these are less than a ring.

That two buffers less than a ring apart have different slots is the arithmetic of
the ring (`Division`, `RingApart`).  With one memory node `away` stays 0
(`StaysHome`), so that no ring is too short.

`MessageRingProofs` proves, for any threads, directories and rings of two signal
periods, `SentAsPosted`, `LostOnlyInCrowd` and `HandlesItsMessage`, under the
hypothesis `[]Bearable`: no directory is ever asked by more at once than it has
buffers.  The threads are not limited by what is posted, and the steps that drop a
request are part of the induction (`LossStep`).  The hypothesis is needed (section
2): with more, a datagram takes the buffer of the message being handled, the
directory then answers somebody else, and with that all the bookkeeping of requests
and answers, on which the other two rest, is lost.  `RingInv` has

* `SendInv`: the sends that the NIC has yet to make are those since the last
  signalled one, and at most one period before them; its completion is there
  exactly when it was made.  With `messageNR >= 2 * kSignal` the buffer taken
  next is none of theirs;
* `RecvInv`: the buffers posted are, in order, the ones after those received and
  not yet taken, all of the ring but for the started batch;
* `LoadInv`: which messages a connection carries;
* `FlowInv` and `ReplyInv`: a request is under way to a directory once, its
  answer takes its place and is under way once, and the thread waits meanwhile. A
  request that was dropped is under way nowhere, and its thread waits on;
* `RootInv`: the new roots under way to a directory are at most those announced.

The last three bound what is on its way to a directory by its crowd (`Loads`).  If
a datagram finds no buffer posted, messages not yet taken fill all of the ring but
at most one batch less one buffer, and they and the datagram are in the crowd.  A
thread has at most one answer on its way, and always a buffer for it.

`TreeProofs` is about the tree with its caches, for any clients, nodes, keys, page
sizes, bounds, loaded trees and calls.  For any layout of memory it proves
`BLinkTree`, `AssertionsHold` and `RangeCovers`, from the invariant `Inv`:

* `PagesInv`, `PostedInv`: pages in memory and posted halves are well linked, and
  a posted half has the low fence, level and leftmost child of the page it
  replaces;
* `DisjointInv`: pages of a level in the tree (`Live`, all pages but the roots
  whose compare-and-swap failed) do not overlap, where a page with a posted half
  counts with the half's fences;
* `LockInv`: a client that holds a lock and has not written yet has in its buffer
  what is in memory, and a posted half keeps the lock of its page, alone, for the
  client that posted it;
* `ThreadInv`, `PathInv`: a client is right of the low fence of its page and on the
  level it expects, and so is its path stack, level by level;
* `PendingInv`: a client that carries a separator has a page that begins at the
  separator and that no page, in memory or posted, points to yet;
* `CacheInv`, `RootInv`: a cached copy is a well linked page of level 1, however
  old, and every root pointer known anywhere or in a message is a root of the past,
  with the fence kKeyMin.

Why so much is needed: `BLinkTree` is about memory, and what keeps it is that the
buffer a holder writes back is current, that the separator it stores begins a page
nobody else has entered, and that an address a client took from a stale page, a
path stack or a cache long ago is still the address of a page of that level that
begins no further right.

The other four results are for one memory node (`OneNode`: all pages and the root
pointer, the layout of `tree_lin`), because with two they are different or false
(section 3).  There a client's posted half is in memory before anything the client
does later.  Four layers lead to them:

* `HideInv` (theorem `HideHolds`): a page that a split has added is hidden, which
  means that no root, page, path stack, client or cached copy leads to it, until
  the shrunk left half is in memory.  `UnseenInv` says it, `OwnerInv` that the
  client that posted the half still has the separator in hand, and `LeavesInv`
  that no failed root is a leaf;
* walks: of the leaves in sight, one at most holds a key (`SightDisjoint`), so
  `Target(k)` is defined.  `LeafFrom` is a recursive function, whose value TLAPS
  does not unfold without a solution of its equation.  `Ends` is one, in closed
  form (`WalksExist`), and every solution agrees with `Target` on the pages a
  root leads to, by a least counterexample of the rank level plus distance to the
  right (`WalkEnds`).  `RootsReachLeaves` follows (`RootsReach`);
* `DataInv`: a posted leaf and the leaf split off it hold together the records of
  the old one and the insert that is under way (`Content`), and a client's
  operation has taken effect when it returns, and not while it still looks for its
  leaf (`CallOk`);
* effects: each step leaves what the leaves hold alone, or is one client's call,
  return or effect (`StepEffect`): an insert stores its pair when the leaf is
  written in place, when both halves are written at once, or when the posted half
  arrives; a del when the record is cleared; a search when it reads its leaf.

From the last, `AckedKeysSurvive` (`AckedSurvive`) by the invariant `AckedInv`,
and `Linearizable` (`TreeLinearizable`): every step is a step of `KVStore` or
changes nothing there.

Only model-checked:

* liveness, which is out of the prover's reach;
* `AckedKeysSurvive` with two memory nodes (`tree_spread`): a client may come to a
  page whose left neighbour does not lead to it yet, so that the posted halves
  take part in the walk.  The structure and the assertions are proved for it;
* leaf versions (`LeafRead`);
* the refinement of `LockedPage` by `CoroIO`, which needs the lock invariant of
  `HierLockProofs` again for coroutines;
* `SumIsTotal` as a fold (see above);
* the behaviour after the ticket wraps.

## 5. Plan

Done: lock, tree with index cache, allocation, bootstrap, leaf versions, the
cache's own steps, reader-writer lock, message rings, coroutines with buffer
rings, and the proofs above.  Next, in this order:

1. proofs: `OthersDoNotDisturb`, `FoundValueIsCurrent` and
   `LockedReadConsistent` of the leaf versions; the refinement of `LockedPage` by
   `CoroIO`; `AckedKeysSurvive` for several memory nodes;
2. page arrays as sequences: internal_page_store's shift and split and the leaf
   sort, against the set-based operators of `Tree`; versions of internal pages;
3. the fetching half of range_query.

Known and without a property: a barrier key used twice can leave a slow node
waiting (the callers use different keys; with one key twice `AllFinish` is
false); a memcached command that fails after it took effect is repeated; lost
MALLOC messages; a retry in the eviction that ends only with luck; the legal range
of keys and values.

## 6. Not modelled

* The fetching half of range_query: it promises nothing that could be stated
  beyond `RangeCovers` (section 3).  Its buffer is the page ring from the start
  on (get_range_buffer), so that it relies on the coroutine's asynchronous page
  writes having left, without the margin that the ring gives other requests.
* Creation of RDMA resources (`src/rdma/Resource.cpp`, `StateTrans.cpp`,
  `Utility.cpp`) and of queue pairs in the constructors of the connections: calls
  to the verbs library that keep no state the protocol depends on.
* DSM calls that the tree does not make: `faa_boundary`, `cas_mask`, `cas_read`,
  `write_faa`, `write_cas`.
* Logging, timing, core binding, mapping of memory, statistics of the cache, the
  vendored skip list (a set with its comparator's order here) and the test
  drivers, which are read for how the library is called.
