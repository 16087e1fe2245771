------------------------------- MODULE Tree -------------------------------
(***************************************************************************)
(* Sherman's B-link tree (Tree.cpp) on disaggregated memory: insert,       *)
(* search and del with lock-free descent, page locks, splits whose write   *)
(* is posted asynchronously, growth of the root by compare-and-swap, and   *)
(* the NEW_ROOT broadcast to every node's directory.  Once the root is     *)
(* high enough, a node keeps copies of level-1 pages in its index cache,   *)
(* and operations start at the leaf a copy names; IndexCache models the    *)
(* cache's own interleavings, here a lookup or an update is one step.      *)
(*                                                                         *)
(* A page is read and written whole: a reader repeats a read whose         *)
(* versions differ (page_search's re_read).  Taking a page's lock and      *)
(* reading the page is one step, as HierLock implements it.  The slots of  *)
(* a page are abstracted to the function from keys to what they map to.    *)
(***************************************************************************)
EXTENDS Integers, Sequences, FiniteSets

CONSTANTS
  Thread,        \* clients
  Node,          \* compute nodes, each with a directory
  NodeOf,        \* the node a client runs on
  Workloads,     \* bound: what a behaviour starts from, by name: the pages
                 \* and the root of the tree that was loaded before, and for
                 \* each client a sequence of sets of operations [op, k, v];
                 \* its i-th operation is one of the i-th set
  Key,           \* keys, strictly between kKeyMin and kKeyMax
  kKeyMin, kKeyMax,
  kValueNull,
  kLeafCardinality, kInternalCardinality,
  MaxPages,      \* bound: pages allocated
  MaxLevel,      \* bound: level of the root (kMaxLevelOfTree is 7)
  MemNode,       \* the memory node of each page address
  RootNode,      \* the memory node that stores the root pointer
  LockOf,        \* the lock word a page address hashes to, on its memory node
  kCacheLevel,   \* the root level that turns the cache on (3 in Directory)
  kCachePages,   \* pages an index cache holds (all_page_cnt)
  NoCall, Free, NoEntry

Null == 0                       \* GlobalAddress::Null()
Addr == 1..MaxPages
FirstLeaf == 1                  \* the page the constructor installs as root
Level == 0..MaxLevel
Lock == {LockOf[a] : a \in Addr}
MemNodes == {MemNode[a] : a \in Addr} \cup {RootNode}

ASSUME TreeAssumption ==
  /\ NodeOf \in [Thread -> Node]
  /\ MaxPages \in Nat /\ MaxLevel \in Nat
  /\ kKeyMin \in Int /\ kKeyMax \in Int
  /\ Key \subseteq (kKeyMin + 1)..(kKeyMax - 1)
  /\ kLeafCardinality \in Nat /\ kLeafCardinality >= 2
  /\ kInternalCardinality \in Nat /\ kInternalCardinality >= 3
  /\ \A a, b \in Addr : LockOf[a] = LockOf[b] => MemNode[a] = MemNode[b]
  /\ kCacheLevel \in Nat /\ kCacheLevel >= 2
  /\ Free \notin Thread

VARIABLES
  work,     \* the workload, chosen at the start
  mem,      \* pages in remote memory
  lock,     \* the holder of each lock word
  rootPtr,  \* the remote root pointer (root_ptr_ptr)
  next,     \* the next address the allocator hands out
  posted,   \* page writes, each with its unlock, posted but not executed
  gRoot,    \* g_root_ptr and g_root_level of each node
  msgs,     \* NEW_ROOT messages on their way to a directory
  cache,    \* each node's index cache: entries [from, to, page]
  th,       \* the local state of each client
  ops,      \* history: operations called per client (bounded by the workload)
  acked,    \* history: keys whose insert has returned
  deleted,  \* history: keys whose del has been called
  aborted   \* the nodes whose process failed an assertion, and which one

hist == <<work, ops, acked, deleted>>
others == <<cache, hist, aborted>>  \* what most steps leave alone
vars == <<work, mem, lock, rootPtr, next, posted, gRoot, msgs, cache, th, ops,
          acked, deleted, aborted>>

-----------------------------------------------------------------------------
(* Pages                                                                   *)

NoPage == [level |-> -1]

LeafPage == [level |-> 0, leftmost |-> Null, sibling |-> Null,
             lowest |-> kKeyMin, highest |-> kKeyMax, recs |-> <<>>]

\* InternalPage(left, key, right, level): a new root.
RootPage(left, key, right, level) ==
  [level |-> level, leftmost |-> left, sibling |-> Null,
   lowest |-> kKeyMin, highest |-> kKeyMax, recs |-> [k \in {key} |-> right]]

IsLeaf(pg) == pg.leftmost = Null

InPage(pg, k) == pg.lowest <= k /\ k < pg.highest

\* The key with m smaller ones in S: records[m].key of a sorted page.
NthKey(S, m) == CHOOSE k \in S : Cardinality({j \in S : j < k}) = m

Only(f, S) == [k \in S |-> f[k]]

\* internal_page_search
ChildFor(pg, k) ==
  LET below == {j \in DOMAIN pg.recs : j <= k} IN
  IF below = {} THEN pg.leftmost
  ELSE pg.recs[CHOOSE j \in below : \A i \in below : i <= j]

\* leaf_page_search
ValueIn(pg, k) == IF k \in DOMAIN pg.recs THEN pg.recs[k] ELSE kValueNull

With(f, k, v) == [j \in DOMAIN f \cup {k} |-> IF j = k THEN v ELSE f[j]]

\* The page with the record stored, before any split.
Stored(pg, k, v) == [pg EXCEPT !.recs = With(@, k, v)]

Full(pg) ==
  Cardinality(DOMAIN pg.recs) =
    IF IsLeaf(pg) THEN kLeafCardinality ELSE kInternalCardinality

SplitKey(pg) ==
  LET keys == DOMAIN pg.recs IN NthKey(keys, Cardinality(keys) \div 2)

\* The two halves of a full page; an internal page moves the record of the
\* split key up and keeps its pointer as the sibling's leftmost.
LeftHalf(pg, sib) ==
  LET s == SplitKey(pg) IN
  [pg EXCEPT !.highest = s, !.sibling = sib,
             !.recs = Only(pg.recs, {k \in DOMAIN pg.recs : k < s})]

\* Mutant: the sibling keeps the low fence of the split page.
RightHalfOldFence(pg) ==
  LET s == SplitKey(pg) IN
  [pg EXCEPT !.leftmost = IF IsLeaf(pg) THEN Null ELSE pg.recs[s],
             !.recs = Only(pg.recs, {k \in DOMAIN pg.recs :
                IF IsLeaf(pg) THEN k >= s ELSE k > s})]

\* Mutant: a leaf moves the records from m + 1 on, as an internal page does.
RightHalfDropsKey(pg) ==
  LET s == SplitKey(pg) IN
  [pg EXCEPT !.lowest = s,
             !.leftmost = IF IsLeaf(pg) THEN Null ELSE pg.recs[s],
             !.recs = Only(pg.recs, {k \in DOMAIN pg.recs : k > s})]

\* Mutant: off by one, the pointer after the split key becomes the leftmost.
RightHalfNextPtr(pg) ==
  LET s == SplitKey(pg)
      up == {k \in DOMAIN pg.recs : k > s} IN
  [pg EXCEPT !.lowest = s,
             !.leftmost = IF IsLeaf(pg) THEN Null ELSE pg.recs[NthKey(up, 0)],
             !.recs = Only(pg.recs, IF IsLeaf(pg) THEN up \cup {s} ELSE up)]

RightHalf(pg) ==
  LET s == SplitKey(pg) IN
  [pg EXCEPT !.lowest = s,
             !.leftmost = IF IsLeaf(pg) THEN Null ELSE pg.recs[s],
             !.recs = Only(pg.recs, {k \in DOMAIN pg.recs :
                IF IsLeaf(pg) THEN k >= s ELSE k > s})]

IsPageIn(M, a) == a \in Addr /\ M[a] # NoPage

\* How a page hangs together with the pages of memory M: fences bound the
\* records, its sibling continues where it ends, and a separator is the low
\* fence of the child it points to, one level down.
Linked(M, pg) ==
  /\ pg.lowest < pg.highest
  /\ \A k \in DOMAIN pg.recs : InPage(pg, k)
  /\ Cardinality(DOMAIN pg.recs) <
       IF IsLeaf(pg) THEN kLeafCardinality ELSE kInternalCardinality
  /\ IF pg.highest = kKeyMax THEN pg.sibling = Null
     ELSE /\ IsPageIn(M, pg.sibling)
          /\ M[pg.sibling].level = pg.level
          /\ M[pg.sibling].lowest = pg.highest
  /\ (pg.level = 0) = IsLeaf(pg)
  /\ ~IsLeaf(pg) =>
       /\ DOMAIN pg.recs # {}
       /\ IsPageIn(M, pg.leftmost)
       /\ M[pg.leftmost].level = pg.level - 1
       /\ M[pg.leftmost].lowest = pg.lowest
       /\ \A k \in DOMAIN pg.recs :
            /\ k > pg.lowest
            /\ IsPageIn(M, pg.recs[k])
            /\ M[pg.recs[k]].level = pg.level - 1
            /\ M[pg.recs[k]].lowest = k

IsPageRecord(pg) ==
  /\ pg = [level |-> pg.level, leftmost |-> pg.leftmost,
           sibling |-> pg.sibling, lowest |-> pg.lowest,
           highest |-> pg.highest, recs |-> pg.recs]
  /\ pg.level \in Level
  /\ pg.leftmost \in Addr \cup {Null}
  /\ pg.sibling \in Addr \cup {Null}
  /\ pg.lowest \in kKeyMin..kKeyMax
  /\ pg.highest \in kKeyMin..kKeyMax
  /\ DOMAIN pg.recs \subseteq kKeyMin..kKeyMax
  /\ pg.recs = Only(pg.recs, DOMAIN pg.recs)

\* Memory after the pages of a sequence have been written.
Loaded(tree) == [x \in Addr |-> IF x <= Len(tree) THEN tree[x] ELSE NoPage]

\* A workload starts from any B-link tree that is at rest: the pages of a level
\* do not overlap, and all but the leftmost of the top level, the root, have a
\* page to their left or above them.
ASSUME WorkloadAssumption ==
  \A name \in DOMAIN Workloads :
    LET w == Workloads[name]
        page == Loaded(w.tree)
        pages == 1..Len(w.tree) IN
    /\ Len(w.tree) \in Nat /\ Len(w.tree) <= MaxPages
    /\ \A x \in pages : IsPageRecord(page[x]) /\ Linked(page, page[x])
    /\ \A x, y \in pages :
         (x # y /\ page[x].level = page[y].level
            /\ page[x].lowest <= page[y].lowest)
           => page[x].highest <= page[y].lowest
    /\ w.root \in pages /\ page[w.root].lowest = kKeyMin
    /\ FirstLeaf \in pages /\ page[FirstLeaf].level = 0
    /\ page[FirstLeaf].lowest = kKeyMin
    /\ \A x \in pages :
         /\ page[x].level <= page[w.root].level
         /\ \/ x = w.root
            \/ page[x].lowest # kKeyMin
            \/ \E y \in pages : page[y].leftmost = x
    /\ \A t \in Thread :
         /\ Len(w.calls[t]) \in Nat
         /\ \A i \in 1..Len(w.calls[t]) : \A c \in w.calls[t][i] :
              c.op \in {"insert", "search", "del"} /\ c.k \in Key

-----------------------------------------------------------------------------
(* The index cache of a node: entries ordered as the skip list is; an      *)
(* invalidated entry stays listed, without a page.                         *)

\* CacheEntryComparator
Before(e, f) == e.to < f.to \/ (e.to = f.to /\ e.from > f.from)

\* find_entry: the first entry that is not before [k, k].
find_entry(C, k) ==
  LET at == {e \in C : ~Before(e, [from |-> k, to |-> k])} IN
  {e \in at : \A f \in at : f = e \/ Before(e, f)}

\* search_from_cache
search_from_cache(C, k) ==
  {e \in find_entry(C, k) : e.page # NoPage /\ e.from <= k /\ k <= e.to}

\* invalidate: the entry loses its page.
Cleared(C, from, to) ==
  {IF e.from = from /\ e.to = to THEN [e EXCEPT !.page = NoPage] ELSE e :
     e \in C}

\* add_to_cache: list the page, or fill its entry if that lost its page; a
\* copy that is there is kept.  A full cache evicts one that a lookup finds.
add_to_cache(C, pg) ==
  LET new == [from |-> pg.lowest, to |-> pg.highest - 1, page |-> pg]
      same == {e \in C : e.from = new.from /\ e.to = new.to}
      D == (C \ same) \cup {new} IN
  IF \E e \in same : e.page # NoPage THEN {C}
  ELSE IF Cardinality({e \in D : e.page # NoPage}) <= kCachePages THEN {D}
  ELSE {Cleared(D, e.from, e.to) :
          e \in UNION {search_from_cache(D, k) : k \in kKeyMin..kKeyMax - 1}}

\* The separators of a page with its low fence, and where a child ends.
Starts(pg) == {pg.lowest} \cup DOMAIN pg.recs
EndOf(pg, s) ==
  LET up == {j \in Starts(pg) : j > s} IN
  IF up = {} THEN pg.highest ELSE CHOOSE j \in up : \A i \in up : j <= i

\* search_range_from_cache: the pages from the first entry that is not before
\* [from, from] up to the first page that begins after `to`.
search_range_from_cache(C, from, to) ==
  LET at == {e \in C : /\ e.page # NoPage
                       /\ ~Before(e, [from |-> from, to |-> from])} IN
  {e.page : e \in {e \in at : \A f \in at :
                      f.from > to => f # e /\ ~Before(f, e)}}

\* Mutant: a child is fetched only when its range begins below `to`.
RangeLeavesBelow(C, from, to) ==
  UNION {{ChildFor(pg, s) : s \in {s \in Starts(pg) :
                                     from <= EndOf(pg, s) /\ s < to}} :
           pg \in search_range_from_cache(C, from, to)}

\* range_query: the leaves it fetches, from the cached pages alone.
RangeLeaves(C, from, to) ==
  UNION {{ChildFor(pg, s) : s \in {s \in Starts(pg) :
                                     from <= EndOf(pg, s) /\ s <= to}} :
           pg \in search_range_from_cache(C, from, to)}

-----------------------------------------------------------------------------
NoPath == [l \in 0..MaxLevel+1 |-> Null]

Idle == [pc |-> "idle", call |-> NoCall, k |-> kKeyMin, v |-> kValueNull,
         root |-> Null, p |-> Null, level |-> 0, path |-> NoPath,
         entry |-> NoEntry, buf |-> NoPage, landed |-> FALSE,
         res |-> kValueNull]

\* The tree of the workload has been loaded and its root broadcast.
Init ==
  /\ work \in DOMAIN Workloads
  /\ LET w == Workloads[work]
         tree == w.tree IN
     /\ mem = Loaded(tree)
     /\ rootPtr = w.root
     /\ next = Len(tree) + 1
     /\ gRoot = [n \in Node |->
                   IF tree[w.root].level = 0 THEN [ptr |-> Null, level |-> -1]
                   ELSE [ptr |-> w.root, level |-> tree[w.root].level]]
     /\ acked = UNION {DOMAIN tree[x].recs :
                         x \in {y \in 1..Len(tree) : tree[y].level = 0}}
  /\ lock = [l \in Lock |-> Free]
  /\ posted = {}
  /\ msgs = {}
  /\ cache = [n \in Node |-> {}]
  /\ th = [t \in Thread |-> Idle]
  /\ ops = [t \in Thread |-> 0]
  /\ deleted = {}
  /\ aborted = [n \in Node |-> "no"]

At(t, s) == th[t].pc = s /\ aborted[NodeOf[t]] = "no"

Calls(t) == Workloads[work].calls[t]

\* Operations of one client to one memory node execute in the order posted.
Drained(t, m) == \A w \in posted : w.t = t => MemNode[w.addr] # m

\* get_root_ptr: the node's copy or, while that is Null, remote memory.
RootFor(n) == IF gRoot[n].ptr = Null THEN rootPtr ELSE gRoot[n].ptr

\* enable_cache: Directory sets it with the root level, which only grows.
CacheOn(n) == gRoot[n].level >= kCacheLevel

\* insert, search, del: before_operation and get_root_ptr; on a cache hit the
\* operation goes to the leaf the cached page names.
Start(t) ==
  LET n == NodeOf[t] IN
  /\ At(t, "idle")
  /\ ops[t] < Len(Calls(t))
  /\ gRoot[n].ptr = Null => Drained(t, RootNode)
  /\ \E c \in Calls(t)[ops[t] + 1] :
       LET from_root == [Idle EXCEPT !.pc = "search", !.call = c, !.k = c.k,
                           !.v = c.v, !.root = RootFor(n), !.p = RootFor(n)]
           hit == {e \in search_from_cache(cache[n], c.k) : CacheOn(n)} IN
       /\ \/ /\ hit = {}
             /\ th' = [th EXCEPT ![t] = from_root]
          \/ \E e \in hit :
               th' = [th EXCEPT ![t] =
                  [from_root EXCEPT
                     !.pc = IF c.op = "search" THEN "search" ELSE "store",
                     !.p = ChildFor(e.page, c.k),
                     !.entry = [from |-> e.from, to |-> e.to]]]
       /\ deleted' = IF c.op = "del" THEN deleted \cup {c.k} ELSE deleted
  /\ ops' = [ops EXCEPT ![t] = @ + 1]
  /\ UNCHANGED <<mem, lock, rootPtr, next, posted, gRoot, msgs, cache, work,
                 acked, aborted>>

FromCache(t) == th[t].entry # NoEntry

\* page_search reads page p and notes it in the path stack.
Reads(t) ==
  /\ At(t, "search")
  /\ Drained(t, MemNode[th[t].p])

\* A level-1 page that was read goes to the cache.
Visit(t, pc, p) ==
  LET pg == mem[th[t].p]
      n == NodeOf[t] IN
  /\ th' = [th EXCEPT ![t].pc = pc, ![t].p = p,
                      ![t].path[pg.level] = th[t].p]
  /\ IF pg.level = 1 /\ CacheOn(n)
       THEN \E C \in add_to_cache(cache[n], pg) :
              cache' = [cache EXCEPT ![n] = C]
       ELSE UNCHANGED cache
  /\ UNCHANGED <<mem, lock, rootPtr, next, posted, gRoot, msgs, hist, aborted>>

\* "should turn right"; insert and del do so on a leaf only under the lock.
TurnRight(t) ==
  LET pg == mem[th[t].p] IN
  /\ Reads(t)
  /\ th[t].k >= pg.highest
  /\ ~IsLeaf(pg) \/ (th[t].call.op = "search" /\ ~FromCache(t))
  /\ Visit(t, "search", pg.sibling)

\* insert and del stop above the leaf, insert_internal above level 1.
Descend(t) ==
  LET pg == mem[th[t].p] IN
  /\ Reads(t)
  /\ ~IsLeaf(pg)
  /\ InPage(pg, th[t].k)
  /\ Visit(t, IF th[t].call.op # "search" /\ pg.level = th[t].level + 1
                THEN "store" ELSE "search",
           ChildFor(pg, th[t].k))

\* insert and del find that the root they start from is a leaf.
ReachLeaf(t) ==
  LET pg == mem[th[t].p] IN
  /\ Reads(t)
  /\ IsLeaf(pg)
  /\ th[t].call.op # "search"
  /\ th[t].k >= pg.lowest
  /\ Visit(t, "store", th[t].p)

\* search ends at the leaf whose fences contain the key.
ReadLeaf(t) ==
  LET pg == mem[th[t].p] IN
  /\ Reads(t)
  /\ IsLeaf(pg)
  /\ th[t].call.op = "search"
  /\ InPage(pg, th[t].k)
  /\ th' = [th EXCEPT ![t].pc = "return", ![t].landed = TRUE,
                      ![t].res = ValueIn(pg, th[t].k)]
  /\ UNCHANGED <<mem, lock, rootPtr, next, posted, gRoot, msgs, others>>

\* Mutant: a stale hit is taken for a miss.
TrustHit(t) ==
  /\ Reads(t)
  /\ FromCache(t)
  /\ IsLeaf(mem[th[t].p])
  /\ ~InPage(mem[th[t].p], th[t].k)
  /\ th' = [th EXCEPT ![t].pc = "return", ![t].landed = TRUE]
  /\ UNCHANGED <<mem, lock, rootPtr, next, posted, gRoot, msgs, others>>

\* invalidate(entry) and, with the entry forgotten, on from the root.
Restart(t, root) ==
  LET e == th[t].entry IN
  /\ cache' = [cache EXCEPT ![NodeOf[t]] = Cleared(@, e.from, e.to)]
  /\ th' = [th EXCEPT ![t].pc = "search", ![t].root = root, ![t].p = root,
                      ![t].entry = NoEntry, ![t].buf = NoPage]

\* search: the leaf the cache named does not hold the key's range any more.
StaleSearch(t) ==
  /\ Reads(t)
  /\ FromCache(t)
  /\ ~InPage(mem[th[t].p], th[t].k)
  /\ Restart(t, th[t].root)
  /\ UNCHANGED <<mem, lock, rootPtr, next, posted, gRoot, msgs, hist, aborted>>

\* try_lock_addr's CAS finds the lock word of page p free.
LockFree(p) == lock[LockOf[p]] = Free

\* try_lock_addr: the CAS fails and is retried.
RetryLock(t) ==
  /\ At(t, "store")
  /\ ~LockFree(th[t].p)
  /\ UNCHANGED vars

\* lock_and_read_page
LockAndRead(t) ==
  LET p == th[t].p IN
  /\ At(t, "store")
  /\ Drained(t, MemNode[p])
  /\ LockFree(p)
  /\ lock' = [lock EXCEPT ![LockOf[p]] = t]
  /\ th' = [th EXCEPT ![t].pc = "modify", ![t].buf = mem[p]]
  /\ UNCHANGED <<mem, rootPtr, next, posted, gRoot, msgs, others>>

\* Mutant: the lock is not released.
KeepLock(p) == UNCHANGED lock

\* unlock_addr, or the second write of write_page_and_unlock.
Release(p) == lock' = [lock EXCEPT ![LockOf[p]] = Free]

\* leaf_page_store, internal_page_store, leaf_page_del: the page was split
\* meanwhile; unlock and try its sibling.
MoveRight(t) ==
  LET p == th[t].p IN
  /\ At(t, "modify")
  /\ ~FromCache(t)
  /\ th[t].k >= th[t].buf.highest
  /\ Release(p)
  /\ th' = [th EXCEPT ![t].pc = "store", ![t].p = th[t].buf.sibling]
  /\ UNCHANGED <<mem, rootPtr, next, posted, gRoot, msgs, others>>

\* leaf_page_store and leaf_page_del from the cache: the key is outside the
\* fences; unlock, and the caller starts again from the root.
StaleStore(t) ==
  /\ At(t, "modify")
  /\ FromCache(t)
  /\ ~InPage(th[t].buf, th[t].k)
  /\ Release(th[t].p)
  /\ Restart(t, RootFor(NodeOf[t]))
  /\ UNCHANGED <<mem, rootPtr, next, posted, gRoot, msgs, hist, aborted>>

\* leaf_page_del: clear the record if there is one, and unlock.
DeleteEntry(t) ==
  LET p == th[t].p IN
  /\ At(t, "modify")
  /\ th[t].call.op = "del"
  /\ InPage(th[t].buf, th[t].k)
  /\ mem' = [mem EXCEPT ![p].recs = Only(@, DOMAIN @ \ {th[t].k})]
  /\ Release(p)
  /\ th' = [th EXCEPT ![t].pc = "return", ![t].landed = TRUE]
  /\ UNCHANGED <<rootPtr, next, posted, gRoot, msgs, others>>

\* leaf_page_store and internal_page_store without a split: the entry (the
\* page, when internal) is written and the lock released synchronously.
StoreEntry(t) ==
  LET p == th[t].p
      pg == Stored(th[t].buf, th[t].k, th[t].v) IN
  /\ At(t, "modify")
  /\ th[t].call.op = "insert"
  /\ InPage(th[t].buf, th[t].k)
  /\ ~Full(pg)
  /\ mem' = [mem EXCEPT ![p] =
               IF IsLeaf(pg) THEN Stored(@, th[t].k, th[t].v) ELSE pg]
  /\ Release(p)
  /\ th' = [th EXCEPT ![t].pc = "return", ![t].landed = @ \/ IsLeaf(pg)]
  /\ UNCHANGED <<rootPtr, next, posted, gRoot, msgs, others>>

\* leaf_page_store and internal_page_store with a split: the sibling is
\* written synchronously; the shrunk page and the unlock are posted as one
\* batch (async), or written synchronously when the lock is handed over.
Split(t, async) ==
  LET p == th[t].p
      pg == Stored(th[t].buf, th[t].k, th[t].v)
      sib == next
      left == LeftHalf(pg, sib) IN
  /\ At(t, "modify")
  /\ th[t].call.op = "insert"
  /\ InPage(th[t].buf, th[t].k)
  /\ Full(pg)
  /\ sib \in Addr
  /\ Drained(t, MemNode[sib])
  /\ next' = next + 1
  /\ IF async
       THEN /\ mem' = [mem EXCEPT ![sib] = RightHalf(pg)]
            /\ posted' = posted \cup {[t |-> t, op |-> ops[t], addr |-> p,
                                   page |-> left]}
            /\ UNCHANGED lock
       ELSE /\ mem' = [mem EXCEPT ![sib] = RightHalf(pg), ![p] = left]
            /\ Release(p)
            /\ UNCHANGED posted
  /\ th' = [th EXCEPT ![t].pc = "grow", ![t].k = SplitKey(pg), ![t].v = sib,
                      ![t].buf = NoPage,
                      ![t].landed = @ \/ (~async /\ IsLeaf(pg))]
  /\ UNCHANGED <<rootPtr, gRoot, msgs, others>>

\* update_new_root, when the page that was split is the root the operation
\* started from: write the new root, compare-and-swap the root pointer, and
\* on success broadcast NEW_ROOT to the directory of every node.
UpdateNewRoot(t) ==
  LET new == next
      level == th[t].level + 1 IN
  /\ At(t, "grow")
  /\ th[t].p = th[t].root
  /\ new \in Addr /\ level \in Level
  /\ Drained(t, MemNode[new])
  /\ Drained(t, RootNode)
  /\ next' = next + 1
  /\ mem' = [mem EXCEPT ![new] = RootPage(th[t].p, th[t].k, th[t].v, level)]
  /\ IF rootPtr = th[t].root
       THEN /\ rootPtr' = new
            /\ msgs' = msgs \cup
                 {[to |-> n, addr |-> new, level |-> level] : n \in Node}
            /\ th' = [th EXCEPT ![t].pc = "return"]
       ELSE /\ th' = [th EXCEPT ![t].pc = "up"]    \* "cas root fail"
            /\ UNCHANGED <<rootPtr, msgs>>
  /\ UNCHANGED <<lock, posted, gRoot, others>>

\* Insert the separator one level up, into the page of the path stack.
Splitting(t) ==
  At(t, "up") \/ (At(t, "grow") /\ th[t].p # th[t].root)

\* Mutant: off by one in the path stack.
SameLevel(t) == th[t].path[th[t].level]

UpLevel(t) == th[t].path[th[t].level + 1]

StoreUp(t) ==
  /\ Splitting(t)
  /\ UpLevel(t) # Null
  /\ th' = [th EXCEPT ![t].pc = "store", ![t].p = UpLevel(t),
                      ![t].level = @ + 1]
  /\ UNCHANGED <<mem, lock, rootPtr, next, posted, gRoot, msgs, others>>

\* insert_internal, for a leaf that was reached through the cache: a descent
\* of its own, for the separator, down to a page of level 1.
InsertInternal(t) ==
  /\ Splitting(t)
  /\ UpLevel(t) = Null
  /\ FromCache(t)
  /\ th' = [th EXCEPT ![t].pc = "search", ![t].level = th[t].level + 1,
                      ![t].root = RootFor(NodeOf[t]),
                      ![t].p = RootFor(NodeOf[t]), ![t].entry = NoEntry]
  /\ UNCHANGED <<mem, lock, rootPtr, next, posted, gRoot, msgs, others>>

\* No page above is known: assert(from_cache) in leaf_page_store, assert(false)
\* in internal_page_store.  The process of the node is gone.
NoUpLevel(t) ==
  /\ Splitting(t)
  /\ UpLevel(t) = Null
  /\ ~FromCache(t)
  /\ aborted' = [aborted EXCEPT ![NodeOf[t]] =
                   IF th[t].level = 0 THEN "from_cache" ELSE "no_parent"]
  /\ UNCHANGED <<mem, lock, rootPtr, next, posted, gRoot, msgs, cache, th,
                 hist>>

Return(t) ==
  /\ At(t, "return")
  /\ th' = [th EXCEPT ![t] = Idle]
  /\ acked' = IF th[t].call.op = "insert" THEN acked \cup {th[t].call.k}
                                          ELSE acked
  /\ UNCHANGED <<mem, lock, rootPtr, next, posted, gRoot, msgs, cache, work,
                 ops, deleted, aborted>>

\* The memory node executes a posted batch: page write, then unlock.
Deliver(w) ==
  /\ mem' = [mem EXCEPT ![w.addr] = w.page]
  /\ Release(w.addr)
  /\ posted' = posted \ {w}
  /\ th' = [th EXCEPT ![w.t].landed =
                @ \/ (IsLeaf(w.page) /\ w.op = ops[w.t])]
  /\ UNCHANGED <<rootPtr, next, gRoot, msgs, others>>

\* Directory::process_message: only a higher root is taken.
TakesRoot(m) == gRoot[m.to].level < m.level

\* Directory::process_message, NEW_ROOT
DirNewRoot(m) ==
  /\ aborted[m.to] = "no"
  /\ msgs' = msgs \ {m}
  /\ gRoot' = IF TakesRoot(m)
                THEN [gRoot EXCEPT ![m.to] =
                        [ptr |-> m.addr, level |-> m.level]]
                ELSE gRoot
  /\ UNCHANGED <<mem, lock, rootPtr, next, posted, th, others>>

\* The message is an unreliable datagram.
LoseMessage(m) ==
  /\ msgs' = msgs \ {m}
  /\ UNCHANGED <<mem, lock, rootPtr, next, posted, gRoot, th, others>>

Step(t) ==
  \/ Start(t) \/ TurnRight(t) \/ Descend(t) \/ ReachLeaf(t) \/ ReadLeaf(t)
  \/ StaleSearch(t)
  \/ LockAndRead(t) \/ RetryLock(t) \/ MoveRight(t) \/ StaleStore(t)
  \/ DeleteEntry(t) \/ StoreEntry(t)
  \/ (\E async \in BOOLEAN : Split(t, async))
  \/ UpdateNewRoot(t) \/ StoreUp(t) \/ InsertInternal(t)
  \/ NoUpLevel(t) \/ Return(t)

Finished ==
  /\ \A t \in Thread : \/ aborted[NodeOf[t]] # "no"
                       \/ th[t].pc = "idle" /\ ops[t] = Len(Calls(t))
  /\ UNCHANGED vars

Next ==
  \/ \E t \in Thread : Step(t)
  \/ \E w \in posted : Deliver(w)
  \/ \E m \in msgs : DirNewRoot(m) \/ LoseMessage(m)
  \/ Finished

Spec == Init /\ [][Next]_vars

\* Threads are scheduled and retry; the NIC executes what is posted.
FairSpec ==
  /\ Spec
  /\ \A t \in Thread : WF_vars(Step(t))
  /\ WF_vars(\E w \in posted : Deliver(w))

-----------------------------------------------------------------------------
IsPage(a) == IsPageIn(mem, a)

\* The pages always form a B-link tree, at every moment of every split: fences
\* bound the records, a sibling continues where a page ends, and a separator is
\* the low fence of the child it points to, one level down.
BLinkTree == \A a \in Addr : IsPage(a) => Linked(mem, mem[a])

\* The assertions of page_search and of the store and delete functions: no
\* client ever stands left of the page it reads or locks, or on a page of the
\* wrong level, and turning right never leaves the tree; a cached address is
\* a leaf's, and insert_internal ends before it reaches a leaf.
AssertionsHold ==
  \A t \in Thread :
    LET c == th[t] IN
    /\ c.pc \in {"search", "store"} => c.k >= mem[c.p].lowest
    /\ c.pc \in {"search", "store", "modify"} /\ FromCache(t)
         => mem[c.p].level = 0
    /\ c.pc = "search" /\ c.level > 0 => mem[c.p].level # 0
    /\ c.pc \in {"store", "modify"} => mem[c.p].level = c.level
    /\ c.pc = "modify" => /\ c.buf.level = c.level
                          /\ c.k >= c.buf.lowest
                          /\ c.k >= c.buf.highest => c.buf.sibling # Null

\* Where a client that alone used the tree now would end, from page a.
LeafFrom(a, k) ==
  LET walk[b \in {c \in Addr : IsPage(c)}] ==
        IF k >= mem[b].highest THEN walk[mem[b].sibling]
        ELSE IF IsLeaf(mem[b]) THEN b
        ELSE walk[ChildFor(mem[b], k)]
  IN walk[a]

\* A key whose insert has returned and that nobody ever deleted is found from
\* the root, or its page is in a posted write: no interleaving of splits and
\* stores loses it.
AckedKeysSurvive ==
  \A k \in acked \ deleted :
    \/ k \in DOMAIN mem[LeafFrom(rootPtr, k)].recs
    \/ \E w \in posted : IsLeaf(w.page) /\ k \in DOMAIN w.page.recs

\* From every root a client may start from, whatever NEW_ROOT messages were
\* lost, late or reordered, the descent ends in the leaf that scanning the
\* leaves from the left finds.
RootsReachLeaves ==
  \A r \in ({rootPtr} \cup {gRoot[n].ptr : n \in Node}) \ {Null} :
    \A k \in Key : LeafFrom(r, k) = LeafFrom(FirstLeaf, k)

\* What a range query finds agrees with point lookups, whatever mix of current,
\* outdated and invalidated entries the cache holds: the leaf that a lookup of
\* a key in the range is sent to is among the leaves range_query fetches.
RangeCovers ==
  \A n \in Node : \A from, to \in Key :
    \A k \in Key : from <= k /\ k <= to =>
      \A e \in search_from_cache(cache[n], k) :
        ChildFor(e.page, k) \in RangeLeaves(cache[n], from, to)

\* Every operation returns, unless an assertion stopped a process.
OperationsReturn ==
  \A t \in Thread :
    th[t].pc # "idle"
      ~> (th[t].pc = "idle" \/ \E n \in Node : aborted[n] # "no")

\* internal_page_store's final assert(false): a split internal page has a
\* parent on the path stack, or is the root.
AssertParentKnown == \A n \in Node : aborted[n] # "no_parent"

-----------------------------------------------------------------------------
Abstract == INSTANCE KVStore WITH
  kv <- [k \in Key |-> ValueIn(mem[LeafFrom(FirstLeaf, k)], k)],
  call <- [t \in Thread |-> th[t].call],
  phase <- [t \in Thread |-> IF th[t].pc = "idle" THEN "idle"
                             ELSE IF th[t].landed THEN "done" ELSE "called"],
  res <- [t \in Thread |-> th[t].res]

\* Operations on the tree are linearizable: an insert takes effect when its
\* leaf write executes, a search when it reads its last leaf.
Linearizable == Abstract!Spec
=============================================================================
