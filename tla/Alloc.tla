------------------------------- MODULE Alloc -------------------------------
(***************************************************************************)
(* Allocation of remote pages (DSM::alloc): each client thread carves      *)
(* pages out of a chunk of its own (LocalAllocator); when the chunk is     *)
(* used up it asks the directory of the next memory node for another one   *)
(* (MALLOC), which the directory's GlobalAllocator takes from its bitmap.  *)
(* Request and reply are unreliable datagrams and nobody retransmits.      *)
(* NR_DIRECTORY is 1: one directory per memory node.                       *)
(***************************************************************************)
EXTENDS Integers, Sequences

CONSTANTS
  Thread,        \* client threads
  machineNR,     \* number of nodes: each runs clients and one directory
  NodeOf,        \* the node a thread runs on
  FirstTarget,   \* (getMyThreadID() + getMyNodeID()) % machineNR
  kChunkSize,    \* size of a chunk
  Size,          \* the sizes that are allocated
  bitmap_len,    \* chunks of a memory node
  NoChunk, NoOwner,
  Lossy,         \* the threads whose datagrams may be lost
  MaxAllocs      \* bound: allocations per thread

Node == 0..machineNR-1
Chunk == [node : Node, idx : 0..bitmap_len-1]

ASSUME AllocAssumption ==
  /\ machineNR \in Nat \ {0}
  /\ NodeOf \in [Thread -> Node]
  /\ FirstTarget \in [Thread -> Node]
  /\ kChunkSize \in Nat
  /\ Size \subseteq 1..kChunkSize
  /\ bitmap_len \in Nat /\ bitmap_len > 1
  /\ NoChunk \notin Chunk
  /\ NoOwner \notin Thread
  /\ Lossy \subseteq Thread
  /\ MaxAllocs \in Nat

VARIABLES
  bitmap,       \* chunks given out or reserved
  bitmap_tail,  \* the next chunk of each directory
  head,         \* LocalAllocator::head: each thread's chunk
  cur,          \* LocalAllocator::cur: how much of it is used
  target,       \* next_target_node
  want,         \* the size a thread is waiting to allocate, 0 if none
  requests,     \* MALLOC requests on their way: [from, to]
  replies,      \* replies on their way: [to, chunk]
  aborted,      \* nodes whose process failed an assertion
  pages,        \* history: the pages handed out, in order
  owner,        \* history: the thread a chunk was given to
  count         \* history: allocations per thread (MaxAllocs bounds it)

vars == <<bitmap, bitmap_tail, head, cur, target, want, requests, replies,
          aborted, pages, owner, count>>

\* Mutant: chunk 0, which holds the root pointer, is given out too.
InitialTail == 0

\* GlobalAllocator reserves chunk 0 ("null ptr").
FirstChunk == 1

Init ==
  /\ bitmap = [node : Node, idx : {0}]
  /\ bitmap_tail = [n \in Node |-> FirstChunk]
  /\ head = [t \in Thread |-> NoChunk]
  /\ cur = [t \in Thread |-> 0]
  /\ target = FirstTarget
  /\ want = [t \in Thread |-> 0]
  /\ requests = {}
  /\ replies = {}
  /\ aborted = {}
  /\ pages = <<>>
  /\ owner = [c \in Chunk |-> NoOwner]
  /\ count = [t \in Thread |-> 0]

Live(t) == NodeOf[t] \notin aborted

Page(t, c, off, s) == [t |-> t, chunk |-> c, off |-> off, size |-> s]

\* Mutant: the page may start anywhere inside the chunk.
StartFits(t, s) == head[t] # NoChunk /\ cur[t] < kChunkSize

\* LocalAllocator::malloc: the current chunk has room.
Fits(t, s) == head[t] # NoChunk /\ cur[t] + s <= kChunkSize

\* DSM::alloc from the thread's own chunk.
AllocLocal(t, s) ==
  /\ Live(t)
  /\ want[t] = 0
  /\ count[t] < MaxAllocs
  /\ Fits(t, s)
  /\ pages' = Append(pages, Page(t, head[t], cur[t], s))
  /\ cur' = [cur EXCEPT ![t] = @ + s]
  /\ count' = [count EXCEPT ![t] = @ + 1]
  /\ UNCHANGED <<bitmap, bitmap_tail, head, target, want, requests, replies,
                 aborted, owner>>

\* DSM::alloc: need_chunk, a MALLOC request to the next target.
RequestChunk(t, s) ==
  /\ Live(t)
  /\ want[t] = 0
  /\ count[t] < MaxAllocs
  /\ ~Fits(t, s)
  /\ want' = [want EXCEPT ![t] = s]
  /\ requests' = requests \cup {[from |-> t, to |-> target[t]]}
  /\ UNCHANGED <<bitmap, bitmap_tail, head, cur, target, replies, aborted,
                 pages, owner, count>>

\* alloc_chunck: bitmap_tail++
AdvanceTail(n) == bitmap_tail' = [bitmap_tail EXCEPT ![n] = @ + 1]

\* Mutant: the directory takes the chunk and never answers.
NoReply(t, c) == UNCHANGED replies

\* sendMessage2App: the chunk's address goes back to the caller.
Reply(t, c) == replies' = replies \cup {[to |-> t, chunk |-> c]}

\* Directory::process_message, MALLOC: alloc_chunck and the reply.
Grant(m) ==
  LET n == m.to
      c == [node |-> n, idx |-> bitmap_tail[n]] IN
  /\ n \notin aborted
  /\ bitmap_tail[n] < bitmap_len
  /\ bitmap' = bitmap \cup {c}
  /\ AdvanceTail(n)
  /\ owner' = [owner EXCEPT ![c] = m.from]
  /\ requests' = requests \ {m}
  /\ Reply(m.from, c)
  /\ UNCHANGED <<head, cur, target, want, aborted, pages, count>>

\* alloc_chunck: assert(false), "shared memory space run out".
RunOut(m) ==
  /\ m.to \notin aborted
  /\ bitmap_tail[m.to] >= bitmap_len
  /\ aborted' = aborted \cup {m.to}
  /\ requests' = requests \ {m}
  /\ UNCHANGED <<bitmap, bitmap_tail, head, cur, target, want, replies, pages,
                 owner, count>>

\* Mutant: the page is the head of the chunk and `cur` is not moved past it.
CurAtHead(t) == 0

\* The second malloc of DSM::alloc: `cur`, just set to the head, moves on.
CurAfterRetry(t) == want[t]

\* DSM::alloc after rpc_wait: set_chunck, next target, malloc again.
Receive(r) ==
  LET t == r.to IN
  /\ Live(t)
  /\ head' = [head EXCEPT ![t] = r.chunk]
  /\ cur' = [cur EXCEPT ![t] = CurAfterRetry(t)]
  /\ target' = [target EXCEPT ![t] = (@ + 1) % machineNR]
  /\ pages' = Append(pages, Page(t, r.chunk, 0, want[t]))
  /\ want' = [want EXCEPT ![t] = 0]
  /\ count' = [count EXCEPT ![t] = @ + 1]
  /\ replies' = replies \ {r}
  /\ UNCHANGED <<bitmap, bitmap_tail, requests, aborted, owner>>

\* rpc_wait polls its completion queue in vain.
Poll(t) ==
  /\ Live(t)
  /\ want[t] # 0
  /\ \A r \in replies : r.to # t
  /\ UNCHANGED vars

LoseRequest(m) ==
  /\ m.from \in Lossy
  /\ requests' = requests \ {m}
  /\ UNCHANGED <<bitmap, bitmap_tail, head, cur, target, want, replies,
                 aborted, pages, owner, count>>

LoseReply(r) ==
  /\ r.to \in Lossy
  /\ replies' = replies \ {r}
  /\ UNCHANGED <<bitmap, bitmap_tail, head, cur, target, want, requests,
                 aborted, pages, owner, count>>

Finished ==
  /\ \A t \in Thread : ~Live(t) \/ (want[t] = 0 /\ count[t] = MaxAllocs)
  /\ UNCHANGED vars

Client(t) ==
  \/ \E s \in Size : AllocLocal(t, s) \/ RequestChunk(t, s)
  \/ \E r \in replies : r.to = t /\ Receive(r)
  \/ Poll(t)

Directory(n) == \E m \in requests : m.to = n /\ (Grant(m) \/ RunOut(m))

Loss == \/ \E m \in requests : LoseRequest(m)
        \/ \E r \in replies : LoseReply(r)

Next ==
  \/ \E t \in Thread : Client(t)
  \/ \E n \in Node : Directory(n)
  \/ Loss
  \/ Finished

Spec == Init /\ [][Next]_vars

\* Clients and directory threads poll in a loop.
FairSpec ==
  /\ Spec
  /\ \A t \in Thread : WF_vars(Client(t))
  /\ \A n \in Node : WF_vars(Directory(n))

-----------------------------------------------------------------------------
PageType ==
  [t : Thread, chunk : Chunk, off : 0..kChunkSize, size : 1..kChunkSize]

TypeOK ==
  /\ bitmap \in SUBSET Chunk
  /\ bitmap_tail \in [Node -> 0..bitmap_len]
  /\ head \in [Thread -> Chunk \cup {NoChunk}]
  /\ cur \in [Thread -> 0..kChunkSize]
  /\ target \in [Thread -> Node]
  /\ want \in [Thread -> Size \cup {0}]
  /\ requests \in SUBSET [from : Thread, to : Node]
  /\ replies \in SUBSET [to : Thread, chunk : Chunk]
  /\ aborted \in SUBSET Node
  /\ pages \in Seq(PageType)
  /\ owner \in [Chunk -> Thread \cup {NoOwner}]
  /\ count \in [Thread -> Nat]

Overlap(p, q) ==
  /\ p.chunk = q.chunk
  /\ p.off < q.off + q.size
  /\ q.off < p.off + p.size

\* No two pages handed out by DSM::alloc overlap, whatever threads and nodes
\* they went to and whatever messages were lost or delayed.
PagesDisjoint ==
  \A i, j \in DOMAIN pages : i # j => ~Overlap(pages[i], pages[j])

\* A page lies inside one chunk and never in chunk 0, in whose middle the
\* root pointer of the tree is stored (kRootPointerStoreOffest).
PagesInside ==
  \A i \in DOMAIN pages :
    /\ pages[i].off + pages[i].size <= kChunkSize
    /\ pages[i].chunk.idx # 0

\* alloc_chunck's second assertion: the chunk at the tail is free.
TailIsFree ==
  \A n \in Node : bitmap_tail[n] < bitmap_len =>
    [node |-> n, idx |-> bitmap_tail[n]] \notin bitmap

\* A thread that waits for a chunk and whose messages are not lost gets it,
\* unless a memory node has run out and its process is gone.
AllocReturns ==
  \A t \in Thread \ Lossy : want[t] # 0 ~> (want[t] = 0 \/ aborted # {})

\* The chunks given out are the ones below the tail, and each of them but
\* chunk 0 was given to one thread.
BitmapInv ==
  /\ \A n \in Node : bitmap_tail[n] > 0
  /\ \A c \in Chunk : c \in bitmap <=> c.idx < bitmap_tail[c.node]
  /\ \A c \in Chunk : owner[c] # NoOwner <=> (c \in bitmap /\ c.idx # 0)
  /\ \A t \in Thread : head[t] # NoChunk => owner[head[t]] = t

\* At most one message of a thread is on its way, and only while the thread
\* waits for it.
MessageInv ==
  /\ \A m \in requests :
       /\ want[m.from] # 0
       /\ \A l \in requests : l.from = m.from => l = m
  /\ \A r \in replies :
       /\ want[r.to] # 0
       /\ \A m \in requests : m.from # r.to
       /\ \A q \in replies : q.to = r.to => q = r

\* A chunk on its way is its receiver's and untouched.
FlightInv ==
  \A r \in replies :
    /\ owner[r.chunk] = r.to
    /\ head[r.to] # r.chunk
    /\ \A i \in DOMAIN pages : pages[i].chunk # r.chunk

\* A page is in a chunk of its thread, below `cur` if that is the current one.
PageInv ==
  \A i \in DOMAIN pages :
    /\ owner[pages[i].chunk] = pages[i].t
    /\ head[pages[i].t] = pages[i].chunk =>
         pages[i].off + pages[i].size <= cur[pages[i].t]

\* The inductive invariant behind PagesDisjoint: no chunk is given out twice,
\* and no thread carves a page where it or another thread did before.
AllocInv ==
  /\ TypeOK
  /\ BitmapInv
  /\ MessageInv
  /\ FlightInv
  /\ PageInv
  /\ PagesDisjoint
  /\ PagesInside
=============================================================================
