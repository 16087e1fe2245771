---------------------------- MODULE AllocProofs ----------------------------
(***************************************************************************)
(* Proofs about Alloc, for every number of nodes and threads, every chunk  *)
(* size, set of page sizes and bitmap length, with and without loss.       *)
(***************************************************************************)
EXTENDS Alloc, TLAPS

-----------------------------------------------------------------------------
\* next_target_node stays a node.
LEMMA NextTarget ==
  ASSUME NEW x \in Nat, NEW k \in Nat \ {0}
  PROVE  (x + 1) % k \in 0..k-1
  OBVIOUS

\* What appending a page to the history does to its elements.
LEMMA Appended ==
  ASSUME NEW S, NEW s \in Seq(S), NEW p \in S
  PROVE  /\ Append(s, p) \in Seq(S)
         /\ DOMAIN Append(s, p) = DOMAIN s \cup {Len(s) + 1}
         /\ Len(s) + 1 \notin DOMAIN s
         /\ \A i \in DOMAIN s : Append(s, p)[i] = s[i]
         /\ Append(s, p)[Len(s) + 1] = p
  OBVIOUS

\* A new page that overlaps no earlier one, on either side, keeps the pages
\* of DSM::alloc disjoint.
LEMMA StillDisjoint ==
  ASSUME TypeOK, PagesDisjoint, NEW p \in PageType,
         pages' = Append(pages, p),
         \A i \in DOMAIN pages :
           ~Overlap(pages[i], p) /\ ~Overlap(p, pages[i])
  PROVE  PagesDisjoint'
<1>1. /\ DOMAIN pages' = DOMAIN pages \cup {Len(pages) + 1}
      /\ \A i \in DOMAIN pages : pages'[i] = pages[i]
      /\ pages'[Len(pages) + 1] = p
  BY Appended DEF TypeOK
<1>2. SUFFICES ASSUME NEW i \in DOMAIN pages', NEW j \in DOMAIN pages',
                      i # j
               PROVE  ~Overlap(pages'[i], pages'[j])
  BY DEF PagesDisjoint, Overlap
<1>3. CASE i \in DOMAIN pages /\ j \in DOMAIN pages
  BY <1>1, <1>2, <1>3 DEF PagesDisjoint
<1>4. CASE i = Len(pages) + 1
  BY <1>1, <1>2, <1>4
<1>5. CASE j = Len(pages) + 1
  BY <1>1, <1>2, <1>5
<1>. QED
  BY <1>1, <1>3, <1>4, <1>5

\* GlobalAllocator and Directory start in the invariant.
LEMMA AllocInitially == Init => AllocInv
<1> USE AllocAssumption
<1> SUFFICES ASSUME Init PROVE AllocInv
  OBVIOUS
<1>1. TypeOK
  BY DEF Init, FirstChunk, TypeOK, Chunk, Node
<1>2. BitmapInv
  BY DEF Init, FirstChunk, BitmapInv, Chunk, Node
<1>3. MessageInv /\ FlightInv
  BY DEF Init, MessageInv, FlightInv
<1>4. pages = <<>>
  BY DEF Init
<1>5. PageInv /\ PagesDisjoint /\ PagesInside
  BY <1>4 DEF PageInv, PagesDisjoint, PagesInside
<1>. QED
  BY <1>1, <1>2, <1>3, <1>5 DEF AllocInv

\* LocalAllocator::malloc in the thread's own chunk.
LEMMA AllocLocalStep ==
  ASSUME AllocInv, NEW t \in Thread, NEW s \in Size, AllocLocal(t, s)
  PROVE  AllocInv'
<1> USE AllocAssumption
<1> DEFINE p == Page(t, head[t], cur[t], s)
<1>1. head[t] \in Chunk /\ cur[t] \in Nat /\ s \in Nat \ {0}
  BY DEF AllocLocal, Fits, AllocInv, TypeOK
<1>2. cur[t] + s <= kChunkSize
  BY DEF AllocLocal, Fits
<1>3. p \in PageType
  BY <1>1, <1>2 DEF Page, PageType
<1>4. pages' = Append(pages, p)
  BY DEF AllocLocal
<1>5. /\ pages' \in Seq(PageType)
      /\ DOMAIN pages' = DOMAIN pages \cup {Len(pages) + 1}
      /\ \A i \in DOMAIN pages : pages'[i] = pages[i]
      /\ pages'[Len(pages) + 1] = p
  BY <1>3, <1>4, Appended DEF AllocInv, TypeOK
<1>6. \A i \in DOMAIN pages : pages[i] \in PageType
  BY DEF AllocInv, TypeOK
<1>7. owner[head[t]] = t /\ head[t].idx # 0
  BY <1>1 DEF AllocInv, BitmapInv, TypeOK
<1>8. TypeOK'
  <2>1. cur' \in [Thread -> 0..kChunkSize] /\ count' \in [Thread -> Nat]
    BY <1>1, <1>2, SMTT(30) DEF AllocLocal, AllocInv, TypeOK
  <2>. QED
    BY <1>5, <2>1 DEF AllocLocal, AllocInv, TypeOK
<1>9. BitmapInv' /\ MessageInv'
  BY DEF AllocLocal, AllocInv, BitmapInv, MessageInv
<1>10. FlightInv'
  <2> SUFFICES ASSUME NEW r \in replies, NEW i \in DOMAIN pages'
               PROVE  pages'[i].chunk # r.chunk
    BY DEF AllocLocal, AllocInv, FlightInv
  <2>1. p.chunk = head[t] /\ r.to \in Thread
    BY DEF Page, AllocInv, TypeOK
  <2>2. head[t] # r.chunk
    BY <1>7, <2>1 DEF AllocInv, FlightInv
  <2>. QED
    BY <1>5, <2>1, <2>2 DEF AllocInv, FlightInv
<1>11. PageInv'
  <2> SUFFICES ASSUME NEW i \in DOMAIN pages'
               PROVE  /\ owner[pages'[i].chunk] = pages'[i].t
                      /\ head[pages'[i].t] = pages'[i].chunk =>
                           pages'[i].off + pages'[i].size
                             <= cur'[pages'[i].t]
    BY DEF AllocLocal, PageInv
  <2>1. cur' = [cur EXCEPT ![t] = cur[t] + s]
    BY DEF AllocLocal
  <2>2. CASE i \in DOMAIN pages
    <3> DEFINE q == pages[i]
    <3>1. q.t \in Thread /\ q.off \in Nat /\ q.size \in Nat /\ pages'[i] = q
      BY <1>5, <1>6, <2>2 DEF PageType
    <3>2. cur \in [Thread -> 0..kChunkSize]
      BY DEF AllocInv, TypeOK
    <3>3. cur[q.t] \in Nat /\ cur'[q.t] \in Nat /\ cur[q.t] <= cur'[q.t]
      BY <1>1, <2>1, <3>1, <3>2
    <3>. QED
      BY <2>2, <3>1, <3>3 DEF AllocInv, PageInv
  <2>3. CASE i = Len(pages) + 1
    BY <1>1, <1>5, <1>7, <2>1, <2>3 DEF Page, AllocInv, TypeOK
  <2>. QED
    BY <1>5, <2>2, <2>3
<1>12. PagesDisjoint'
  <2> SUFFICES ASSUME NEW i \in DOMAIN pages
               PROVE  ~Overlap(pages[i], p) /\ ~Overlap(p, pages[i])
    BY <1>3, <1>4, StillDisjoint DEF AllocInv
  <2>1. pages[i].chunk = head[t] => pages[i].t = t
    BY <1>7 DEF AllocInv, PageInv
  <2>2. pages[i].chunk = head[t] => pages[i].off + pages[i].size <= cur[t]
    BY <2>1 DEF AllocInv, PageInv
  <2>. QED
    BY <1>1, <1>6, <2>2 DEF Overlap, Page, PageType
<1>13. PagesInside'
  BY <1>1, <1>2, <1>5, <1>7 DEF AllocInv, PagesInside, Page
<1>. QED
  BY <1>8, <1>9, <1>10, <1>11, <1>12, <1>13 DEF AllocInv

\* DSM::alloc sends a MALLOC request.
LEMMA RequestChunkStep ==
  ASSUME AllocInv, NEW t \in Thread, NEW s \in Size, RequestChunk(t, s)
  PROVE  AllocInv'
<1> USE AllocAssumption
<1>1. s # 0 /\ want[t] = 0 /\ target[t] \in Node
  BY DEF RequestChunk, AllocInv, TypeOK
<1>2. /\ requests' = requests \cup {[from |-> t, to |-> target[t]]}
      /\ want' = [want EXCEPT ![t] = s]
  BY DEF RequestChunk
<1>3. TypeOK'
  <2>1. requests' \in SUBSET [from : Thread, to : Node]
    BY <1>1, <1>2 DEF AllocInv, TypeOK
  <2>2. want' \in [Thread -> Size \cup {0}]
    BY <1>2 DEF AllocInv, TypeOK
  <2>. QED
    BY <2>1, <2>2 DEF RequestChunk, AllocInv, TypeOK
<1>4. MessageInv'
  BY <1>1, <1>2, SMTT(30) DEF RequestChunk, AllocInv, TypeOK, MessageInv
<1>. QED
  BY <1>3, <1>4 DEF RequestChunk, AllocInv, BitmapInv, FlightInv, PageInv,
       PagesDisjoint, PagesInside

\* alloc_chunck takes the chunk at the tail and the directory replies: the
\* chunk was nobody's, so no page is in it and no other reply carries it.
LEMMA GrantStep ==
  ASSUME AllocInv, NEW m \in requests, Grant(m)
  PROVE  AllocInv'
<1> USE AllocAssumption
<1> DEFINE n == m.to
           c == [node |-> n, idx |-> bitmap_tail[n]]
           r == [to |-> m.from, chunk |-> c]
<1>1. m.from \in Thread /\ n \in Node
  BY DEF AllocInv, TypeOK
<1>2. bitmap_tail \in [Node -> 0..bitmap_len] /\ bitmap_tail[n] > 0
  BY <1>1 DEF AllocInv, TypeOK, BitmapInv
<1>3. c \in Chunk /\ bitmap_tail[n] < bitmap_len
  BY <1>1, <1>2 DEF Grant, Chunk
<1>4. c \notin bitmap /\ owner[c] = NoOwner
  <2>1. c.node = n /\ c.idx = bitmap_tail[n] /\ bitmap_tail[n] \in Nat
    BY <1>1, <1>2
  <2>2. c \notin bitmap
    BY <1>3, <2>1 DEF AllocInv, BitmapInv
  <2>. QED
    BY <1>3, <2>2 DEF AllocInv, BitmapInv
<1>5. /\ bitmap' = bitmap \cup {c}
      /\ bitmap_tail' = [bitmap_tail EXCEPT ![n] = bitmap_tail[n] + 1]
      /\ owner' = [owner EXCEPT ![c] = m.from]
      /\ requests' = requests \ {m}
      /\ replies' = replies \cup {r}
  BY DEF Grant, AdvanceTail, Reply
<1>6. owner \in [Chunk -> Thread \cup {NoOwner}] /\ bitmap \in SUBSET Chunk
  BY DEF AllocInv, TypeOK
<1>7. TypeOK'
  <2>1. bitmap_tail' \in [Node -> 0..bitmap_len]
    BY <1>1, <1>2, <1>3, <1>5
  <2>2. owner' \in [Chunk -> Thread \cup {NoOwner}]
    BY <1>1, <1>5, <1>6
  <2>3. replies' \in SUBSET [to : Thread, chunk : Chunk]
    BY <1>1, <1>3, <1>5, SMTT(30) DEF AllocInv, TypeOK
  <2>. QED
    BY <1>3, <1>5, <1>6, <2>1, <2>2, <2>3 DEF Grant, AllocInv, TypeOK
<1>8. BitmapInv'
  <2>1. \A k \in Node : bitmap_tail'[k] > 0
    BY <1>1, <1>2, <1>5 DEF AllocInv, BitmapInv
  <2>2. \A d \in Chunk : d \in bitmap' <=> d.idx < bitmap_tail'[d.node]
    <3> SUFFICES ASSUME NEW d \in Chunk
                 PROVE  d \in bitmap' <=> d.idx < bitmap_tail'[d.node]
      OBVIOUS
    <3>1. /\ d.node \in Node /\ d.idx \in Nat
          /\ d = [node |-> d.node, idx |-> d.idx]
      BY DEF Chunk
    <3>2. d \in bitmap <=> d.idx < bitmap_tail[d.node]
      BY DEF AllocInv, BitmapInv
    <3>. QED
      BY <1>1, <1>2, <1>5, <3>1, <3>2
  <2>3. \A d \in Chunk :
          owner'[d] # NoOwner <=> (d \in bitmap' /\ d.idx # 0)
    <3> SUFFICES ASSUME NEW d \in Chunk
                 PROVE  owner'[d] # NoOwner <=> (d \in bitmap' /\ d.idx # 0)
      OBVIOUS
    <3>1. owner[d] # NoOwner <=> (d \in bitmap /\ d.idx # 0)
      BY DEF AllocInv, BitmapInv
    <3>2. c.idx # 0 /\ m.from # NoOwner
      BY <1>1, <1>2
    <3>. QED
      BY <1>3, <1>5, <1>6, <3>1, <3>2
  <2>4. \A t \in Thread : head[t] # NoChunk => owner'[head[t]] = t
    <3> SUFFICES ASSUME NEW t \in Thread, head[t] # NoChunk
                 PROVE  owner'[head[t]] = t
      OBVIOUS
    <3>1. head[t] \in Chunk /\ owner[head[t]] = t
      BY DEF AllocInv, TypeOK, BitmapInv
    <3>. QED
      BY <1>4, <1>5, <1>6, <3>1
  <2>5. head' = head
    BY DEF Grant
  <2>. QED
    BY <2>1, <2>2, <2>3, <2>4, <2>5 DEF BitmapInv
<1>9. MessageInv'
  BY <1>5 DEF Grant, AllocInv, MessageInv
<1>10. \A i \in DOMAIN pages :
         /\ pages[i].chunk \in Chunk
         /\ pages[i].chunk # c
         /\ owner'[pages[i].chunk] = owner[pages[i].chunk]
  <2> SUFFICES ASSUME NEW i \in DOMAIN pages
               PROVE  /\ pages[i].chunk \in Chunk
                      /\ pages[i].chunk # c
                      /\ owner'[pages[i].chunk] = owner[pages[i].chunk]
    OBVIOUS
  <2>0. pages[i] \in PageType
    BY DEF AllocInv, TypeOK
  <2>1. pages[i].chunk \in Chunk /\ pages[i].t \in Thread
    BY <2>0 DEF PageType
  <2>2. owner[pages[i].chunk] = pages[i].t
    BY DEF AllocInv, PageInv
  <2>. QED
    BY <1>4, <1>5, <1>6, <2>1, <2>2
<1>11. FlightInv'
  <2>1. head' = head /\ pages' = pages
    BY DEF Grant
  <2>2. /\ owner'[c] = m.from
        /\ head[m.from] # c
    BY <1>1, <1>3, <1>4, <1>5, <1>6 DEF AllocInv, TypeOK, BitmapInv
  <2>3. \A q \in replies : owner'[q.chunk] = q.to
    BY <1>4, <1>5, <1>6 DEF AllocInv, TypeOK, FlightInv
  <2>. QED
    BY <1>5, <1>10, <2>1, <2>2, <2>3 DEF AllocInv, FlightInv
<1>12. PageInv' /\ PagesDisjoint' /\ PagesInside'
  BY <1>10 DEF Grant, AllocInv, PageInv, PagesDisjoint, PagesInside
<1>. QED
  BY <1>7, <1>8, <1>9, <1>11, <1>12 DEF AllocInv

\* DSM::alloc gets its chunk and cuts the first page off it.
LEMMA ReceiveStep ==
  ASSUME AllocInv, NEW r \in replies, Receive(r)
  PROVE  AllocInv'
<1> USE AllocAssumption
<1> DEFINE t == r.to
           c == r.chunk
           s == want[t]
           p == Page(t, c, 0, s)
<1>1. t \in Thread /\ c \in Chunk
  BY DEF AllocInv, TypeOK
<1>2. s \in Size /\ s \in 1..kChunkSize
  BY <1>1 DEF AllocInv, TypeOK, MessageInv
<1>3. p \in PageType
  BY <1>1, <1>2 DEF Page, PageType
<1>4. /\ pages' = Append(pages, p)
      /\ head' = [head EXCEPT ![t] = c]
      /\ cur' = [cur EXCEPT ![t] = s]
      /\ want' = [want EXCEPT ![t] = 0]
      /\ replies' = replies \ {r}
      /\ UNCHANGED <<bitmap, bitmap_tail, requests, aborted, owner>>
  BY DEF Receive, CurAfterRetry
<1>5. /\ pages' \in Seq(PageType)
      /\ DOMAIN pages' = DOMAIN pages \cup {Len(pages) + 1}
      /\ \A i \in DOMAIN pages : pages'[i] = pages[i]
      /\ pages'[Len(pages) + 1] = p
  BY <1>3, <1>4, Appended DEF AllocInv, TypeOK
<1>6. \A i \in DOMAIN pages : pages[i] \in PageType
  BY DEF AllocInv, TypeOK
<1>7. /\ owner[c] = t
      /\ c.idx # 0
      /\ \A i \in DOMAIN pages : pages[i].chunk # c
  BY <1>1 DEF AllocInv, BitmapInv, FlightInv
<1>8. p.t = t /\ p.chunk = c /\ p.off = 0 /\ p.size = s
  BY DEF Page
<1>9. TypeOK'
  <2>1. head' \in [Thread -> Chunk \cup {NoChunk}]
    BY <1>1, <1>4 DEF AllocInv, TypeOK
  <2>2. cur' \in [Thread -> 0..kChunkSize]
    BY <1>1, <1>2, <1>4 DEF AllocInv, TypeOK
  <2>3. want' \in [Thread -> Size \cup {0}]
    BY <1>1, <1>4 DEF AllocInv, TypeOK
  <2>4. target' \in [Thread -> Node]
    <3>1. target[t] \in Nat
      BY <1>1 DEF AllocInv, TypeOK, Node
    <3>2. (target[t] + 1) % machineNR \in Node
      BY <3>1, NextTarget DEF Node
    <3>. QED
      BY <1>1, <3>2 DEF Receive, AllocInv, TypeOK
  <2>5. count' \in [Thread -> Nat]
    BY <1>1 DEF Receive, AllocInv, TypeOK
  <2>. QED
    BY <1>4, <1>5, <2>1, <2>2, <2>3, <2>4, <2>5 DEF AllocInv, TypeOK
<1>10. BitmapInv'
  BY <1>1, <1>4, <1>7 DEF AllocInv, TypeOK, BitmapInv
<1>11. MessageInv'
  <2>1. \A m \in requests : m.from # t
    BY DEF AllocInv, MessageInv
  <2>2. \A q \in replies' : q.to # t
    BY <1>4 DEF AllocInv, MessageInv
  <2>3. \A u \in Thread : u # t => want'[u] = want[u]
    BY <1>4 DEF AllocInv, TypeOK
  <2>. QED
    BY <1>4, <2>1, <2>2, <2>3 DEF AllocInv, TypeOK, MessageInv
<1>12. FlightInv'
  <2> SUFFICES ASSUME NEW q \in replies'
               PROVE  /\ owner[q.chunk] = q.to
                      /\ head'[q.to] # q.chunk
                      /\ \A i \in DOMAIN pages' :
                           pages'[i].chunk # q.chunk
    BY <1>4 DEF FlightInv
  <2>1. q \in replies /\ q.to \in Thread /\ q.to # t
    BY <1>4 DEF AllocInv, TypeOK, MessageInv
  <2>2. owner[q.chunk] = q.to /\ q.chunk # c
    BY <1>7, <2>1 DEF AllocInv, FlightInv
  <2>3. head'[q.to] = head[q.to]
    BY <1>4, <2>1 DEF AllocInv, TypeOK
  <2>. QED
    BY <1>5, <1>8, <2>1, <2>2, <2>3 DEF AllocInv, FlightInv
<1>13. PageInv'
  <2> SUFFICES ASSUME NEW i \in DOMAIN pages'
               PROVE  /\ owner[pages'[i].chunk] = pages'[i].t
                      /\ head'[pages'[i].t] = pages'[i].chunk =>
                           pages'[i].off + pages'[i].size
                             <= cur'[pages'[i].t]
    BY <1>4 DEF PageInv
  <2>1. /\ head'[t] = c /\ cur'[t] = s
        /\ \A u \in Thread : u # t => head'[u] = head[u] /\ cur'[u] = cur[u]
    BY <1>1, <1>4 DEF AllocInv, TypeOK
  <2>2. CASE i \in DOMAIN pages
    <3>1. pages'[i] = pages[i] /\ pages[i].t \in Thread
      BY <1>5, <1>6, <2>2 DEF PageType
    <3>. QED
      BY <1>7, <2>1, <2>2, <3>1 DEF AllocInv, PageInv
  <2>3. CASE i = Len(pages) + 1
    BY <1>2, <1>5, <1>7, <1>8, <2>1, <2>3
  <2>. QED
    BY <1>5, <2>2, <2>3
<1>14. PagesDisjoint'
  BY <1>3, <1>4, <1>7, <1>8, StillDisjoint DEF AllocInv, Overlap
<1>15. PagesInside'
  BY <1>2, <1>5, <1>7, <1>8 DEF AllocInv, PagesInside
<1>. QED
  BY <1>9, <1>10, <1>11, <1>12, <1>13, <1>14, <1>15 DEF AllocInv

\* Messages that vanish, and a directory that aborts, leave the pages alone.
LEMMA MessageGone ==
  ASSUME AllocInv,
         requests' \subseteq requests, replies' \subseteq replies,
         aborted' \in SUBSET Node,
         UNCHANGED <<bitmap, bitmap_tail, head, cur, target, want, pages,
                     owner, count>>
  PROVE  AllocInv'
<1>1. TypeOK'
  BY DEF AllocInv, TypeOK
<1>2. BitmapInv' /\ PageInv' /\ PagesDisjoint' /\ PagesInside'
  BY DEF AllocInv, BitmapInv, PageInv, PagesDisjoint, PagesInside
<1>3. MessageInv' /\ FlightInv'
  BY DEF AllocInv, MessageInv, FlightInv
<1>. QED
  BY <1>1, <1>2, <1>3 DEF AllocInv

-----------------------------------------------------------------------------
\* AllocInv is an invariant of DSM::alloc and the directories' allocators.
THEOREM AllocInvariant == Spec => []AllocInv
<1> USE AllocAssumption
<1>1. AllocInv /\ [Next]_vars => AllocInv'
  <2> SUFFICES ASSUME AllocInv, [Next]_vars PROVE AllocInv'
    OBVIOUS
  <2>1. ASSUME NEW t \in Thread, Client(t) PROVE AllocInv'
    <3>1. ASSUME NEW s \in Size, AllocLocal(t, s) PROVE AllocInv'
      BY <3>1, AllocLocalStep
    <3>2. ASSUME NEW s \in Size, RequestChunk(t, s) PROVE AllocInv'
      BY <3>2, RequestChunkStep
    <3>3. ASSUME NEW r \in replies, Receive(r) PROVE AllocInv'
      BY <3>3, ReceiveStep
    <3>4. CASE Poll(t)
      BY <3>4, MessageGone DEF Poll, vars, AllocInv, TypeOK
    <3>. QED
      BY <2>1, <3>1, <3>2, <3>3, <3>4 DEF Client
  <2>2. ASSUME NEW m \in requests, Grant(m) PROVE AllocInv'
    BY <2>2, GrantStep
  <2>3. ASSUME NEW m \in requests, RunOut(m) PROVE AllocInv'
    <3>1. aborted' \in SUBSET Node
      BY <2>3 DEF RunOut, AllocInv, TypeOK
    <3>. QED
      BY <2>3, <3>1, MessageGone DEF RunOut
  <2>4. ASSUME NEW m \in requests, LoseRequest(m) PROVE AllocInv'
    BY <2>4, MessageGone DEF LoseRequest, AllocInv, TypeOK
  <2>5. ASSUME NEW r \in replies, LoseReply(r) PROVE AllocInv'
    BY <2>5, MessageGone DEF LoseReply, AllocInv, TypeOK
  <2>6. CASE Finished
    BY <2>6, MessageGone DEF Finished, vars, AllocInv, TypeOK
  <2>7. CASE UNCHANGED vars
    BY <2>7, MessageGone DEF vars, AllocInv, TypeOK
  <2>. QED
    BY <2>1, <2>2, <2>3, <2>4, <2>5, <2>6, <2>7 DEF Next, Directory, Loss
<1>. QED
  BY <1>1, AllocInitially, PTL DEF Spec

\* No two pages that DSM::alloc hands out overlap, for any number of threads,
\* nodes and chunks and whatever messages are lost.
THEOREM PagesDisjointHolds == Spec => []PagesDisjoint
<1>1. AllocInv => PagesDisjoint
  BY DEF AllocInv
<1>. QED
  BY <1>1, AllocInvariant, PTL

\* Every page lies inside one chunk and never in the reserved chunk 0.
THEOREM PagesInsideHolds == Spec => []PagesInside
<1>1. AllocInv => PagesInside
  BY DEF AllocInv
<1>. QED
  BY <1>1, AllocInvariant, PTL

\* The second assertion of alloc_chunck never fails: the chunk at the tail of
\* the bitmap is free.
THEOREM TailIsFreeHolds == Spec => []TailIsFree
<1>1. AllocInv => TailIsFree
  <2> SUFFICES ASSUME AllocInv, NEW n \in Node,
                      bitmap_tail[n] < bitmap_len
               PROVE  [node |-> n, idx |-> bitmap_tail[n]] \notin bitmap
    BY DEF TailIsFree
  <2>1. bitmap_tail[n] \in 0..bitmap_len-1
    BY AllocAssumption DEF AllocInv, TypeOK
  <2>2. [node |-> n, idx |-> bitmap_tail[n]] \in Chunk
    BY <2>1 DEF Chunk
  <2>. QED
    BY <2>1, <2>2 DEF AllocInv, BitmapInv
<1>. QED
  BY <1>1, AllocInvariant, PTL
=============================================================================
