---------------------------- MODULE TreeProofs ----------------------------
(***************************************************************************)
(* Proofs about Tree, for every number of clients, nodes, pages and keys   *)
(* and every workload: the pages are a B-link tree at every moment, no     *)
(* assertion on a client's position fails and range queries agree with     *)
(* lookups.  When the pages and the root pointer are on one memory node,   *)
(* every root leads to the leaf of a key, returned inserts stay, and the   *)
(* tree implements the map KVStore.                                        *)
(***************************************************************************)
EXTENDS Tree, FiniteSetTheorems, WellFoundedInduction, TLAPS

-----------------------------------------------------------------------------
(* Finite sets of keys                                                     *)

\* A nonempty set of natural numbers has a least element.
LEMMA LeastNat ==
  ASSUME NEW T \in SUBSET Nat, T # {}
  PROVE  \E x \in T : \A y \in T : x <= y
<1>1. PICK x \in T : \A y \in T : ~(<<y, x>> \in OpToRel(<, Nat))
  BY NatLessThanWellFounded, WFMin
<1>2. \A y \in T : ~(y < x)
  BY <1>1 DEF OpToRel
<1> QED  BY <1>2

\* The fences are integers.
LEMMA KeyInts ==
  kKeyMin \in Int /\ kKeyMax \in Int
BY TreeAssumption

\* A set of keys, and every part of it, is finite.
LEMMA FiniteKeys ==
  ASSUME NEW S \in SUBSET (kKeyMin..kKeyMax)
  PROVE  IsFiniteSet(S) /\ Cardinality(S) \in Nat
<1>1. IsFiniteSet(kKeyMin..kKeyMax)
  BY KeyInts, FS_Interval
<1> QED  BY <1>1, FS_Subset, FS_CardinalityType

\* A nonempty set of keys has a greatest element.
LEMMA MaxKey ==
  ASSUME NEW S \in SUBSET (kKeyMin..kKeyMax), S # {}
  PROVE  \E x \in S : \A y \in S : y <= x
<1> DEFINE T == {kKeyMax - y : y \in S}
<1>1. T \in SUBSET Nat /\ T # {}
  <2>1. ASSUME NEW y \in S  PROVE  kKeyMax - y \in Nat
    BY KeyInts
  <2> QED  BY <2>1
<1>2. PICK d \in T : \A e \in T : d <= e
  BY <1>1, LeastNat
<1>3. PICK x \in S : d = kKeyMax - x
  OBVIOUS
<1>4. ASSUME NEW y \in S  PROVE  y <= x
  <2>1. d <= kKeyMax - y
    BY <1>2
  <2> QED  BY <1>3, <2>1, KeyInts
<1> QED  BY <1>4

\* A nonempty set of keys has a least element.
LEMMA MinKey ==
  ASSUME NEW S \in SUBSET (kKeyMin..kKeyMax), S # {}
  PROVE  \E x \in S : \A y \in S : x <= y
<1> DEFINE T == {y - kKeyMin : y \in S}
<1>1. T \in SUBSET Nat /\ T # {}
  <2>1. ASSUME NEW y \in S  PROVE  y - kKeyMin \in Nat
    BY KeyInts
  <2> QED  BY <2>1
<1>2. PICK d \in T : \A e \in T : d <= e
  BY <1>1, LeastNat
<1>3. PICK x \in S : d = x - kKeyMin
  OBVIOUS
<1>4. ASSUME NEW y \in S  PROVE  x <= y
  <2>1. d <= y - kKeyMin
    BY <1>2
  <2> QED  BY <1>3, <2>1, KeyInts
<1> QED  BY <1>4

Below(S, k) == {j \in S : j < k}

\* Among sorted keys there is one with m smaller ones, for every m below their
\* number: records[m] exists, and NthKey is its key.
LEMMA NthKeyFound ==
  ASSUME NEW S \in SUBSET (kKeyMin..kKeyMax), NEW m \in Nat,
         m < Cardinality(S)
  PROVE  NthKey(S, m) \in S /\ Cardinality(Below(S, NthKey(S, m))) = m
<1> DEFINE rank(k) == Cardinality(Below(S, k))
           T == {c \in Nat : m <= c /\ \E k \in S : rank(k) = c}
<1>0. \A k \in S : Below(S, k) \in SUBSET (kKeyMin..kKeyMax)
                   /\ rank(k) \in Nat /\ IsFiniteSet(Below(S, k))
  BY FiniteKeys DEF Below
<1>1. T # {}
  <2>1. S # {}
    BY FS_EmptySet
  <2>2. PICK x \in S : \A y \in S : y <= x
    BY <2>1, MaxKey
  <2>3. \A j \in S : j < x <=> j # x
    BY <2>2, KeyInts
  <2>31. Below(S, x) = S \ {x}
    BY <2>3, Zenon DEF Below
  <2>4. Cardinality(S \ {x}) = Cardinality(S) - 1
    BY FS_RemoveElement, FiniteKeys
  <2>5. rank(x) >= m
    BY <2>31, <2>4, FiniteKeys
  <2> QED  BY <1>0, <2>5
<1>2. PICK c \in T : \A d \in T : c <= d
  BY <1>1, LeastNat
<1>3. PICK k \in S : rank(k) = c
  OBVIOUS
<1>4. c = m
  <2> SUFFICES ASSUME c > m  PROVE FALSE
    OBVIOUS
  <2>1. Below(S, k) # {}
    BY <1>3, FS_EmptySet
  <2>2. PICK j \in Below(S, k) : \A y \in Below(S, k) : y <= j
    BY <1>0, <2>1, MaxKey
  <2>3. j \in S
    BY DEF Below
  <2>31. j < k /\ ~(j < j)
    BY <2>3, KeyInts DEF Below
  <2>32. \A y \in S : y < k <=> (y < j \/ y = j)
    <3> SUFFICES ASSUME NEW y \in S  PROVE y < k <=> (y < j \/ y = j)
      OBVIOUS
    <3>1. y < k => y <= j
      BY <2>2 DEF Below
    <3> QED  BY <2>3, <2>31, <3>1, KeyInts
  <2>4. Below(S, k) = Below(S, j) \cup {j} /\ j \notin Below(S, j)
    BY <2>3, <2>31, <2>32, Zenon DEF Below
  <2>5. rank(k) = rank(j) + 1
    BY <1>0, <2>3, <2>4, FS_AddElement
  <2>6. rank(j) \in T
    BY <1>0, <1>3, <2>3, <2>5
  <2> QED  BY <1>0, <1>2, <1>3, <2>3, <2>5, <2>6
<1>5. \E k1 \in S : Cardinality({j \in S : j < k1}) = m
  BY <1>3, <1>4 DEF Below
<1> QED  BY <1>5 DEF NthKey, Below

-----------------------------------------------------------------------------
(* The operations on a page                                                *)

KeyRange == kKeyMin..kKeyMax

\* Storing a record changes the records of a page and nothing else.
LEMMA StoredFields ==
  ASSUME NEW pg, NEW k \in KeyRange, NEW v, IsPageRecord(pg)
  PROVE  LET q == Stored(pg, k, v) IN
         /\ q.level = pg.level /\ q.leftmost = pg.leftmost
         /\ q.sibling = pg.sibling /\ q.lowest = pg.lowest
         /\ q.highest = pg.highest
         /\ q.recs = With(pg.recs, k, v)
         /\ DOMAIN q.recs = DOMAIN pg.recs \cup {k}
         /\ q.recs[k] = v
         /\ \A j \in DOMAIN pg.recs : j # k => q.recs[j] = pg.recs[j]
         /\ IsPageRecord(q)
<1> DEFINE q == Stored(pg, k, v)
<1>1. q = [level |-> pg.level, leftmost |-> pg.leftmost,
           sibling |-> pg.sibling, lowest |-> pg.lowest,
           highest |-> pg.highest, recs |-> With(pg.recs, k, v)]
  BY DEF IsPageRecord, Stored
<1>2. /\ q.level = pg.level /\ q.leftmost = pg.leftmost
      /\ q.sibling = pg.sibling /\ q.lowest = pg.lowest
      /\ q.highest = pg.highest
      /\ q.recs = With(pg.recs, k, v)
  BY <1>1
<1>3. /\ DOMAIN q.recs = DOMAIN pg.recs \cup {k}
      /\ q.recs[k] = v
      /\ \A j \in DOMAIN pg.recs : j # k => q.recs[j] = pg.recs[j]
      /\ q.recs = Only(q.recs, DOMAIN q.recs)
  BY <1>2 DEF With, Only
<1>4. IsPageRecord(q)
  BY <1>1, <1>2, <1>3 DEF IsPageRecord, KeyRange
<1> QED  BY <1>2, <1>3, <1>4

PageOf(q) ==
  [level |-> q.level, leftmost |-> q.leftmost, sibling |-> q.sibling,
   lowest |-> q.lowest, highest |-> q.highest, recs |-> q.recs]

\* The fences of a page are integers.
LEMMA RecordInts ==
  ASSUME NEW pg, IsPageRecord(pg)
  PROVE  pg.lowest \in Int /\ pg.highest \in Int
BY KeyInts DEF IsPageRecord

\* The left half of a split page.
LEMMA LeftHalfFields ==
  ASSUME NEW pg, NEW sib \in Addr, IsPageRecord(pg),
         SplitKey(pg) \in KeyRange
  PROVE  LET s == SplitKey(pg)
             q == LeftHalf(pg, sib) IN
         /\ q.level = pg.level /\ q.leftmost = pg.leftmost
         /\ q.sibling = sib /\ q.lowest = pg.lowest /\ q.highest = s
         /\ DOMAIN q.recs = Below(DOMAIN pg.recs, s)
         /\ \A j \in DOMAIN q.recs : q.recs[j] = pg.recs[j]
         /\ IsPageRecord(q)
<1> DEFINE s == SplitKey(pg)
           q == LeftHalf(pg, sib)
           f == Only(pg.recs, {k \in DOMAIN pg.recs : k < s})
<1>1. q = PageOf(q)
  <2>1. q = [pg EXCEPT !.highest = s, !.sibling = sib, !.recs = f]
    BY Zenon DEF LeftHalf
  <2> HIDE DEF q, s, f
  <2> QED  BY <2>1 DEF IsPageRecord, PageOf
<1>2. /\ q.level = pg.level /\ q.leftmost = pg.leftmost
      /\ q.sibling = sib /\ q.lowest = pg.lowest /\ q.highest = s
      /\ q.recs = f
  BY DEF IsPageRecord, LeftHalf
<1>3. /\ DOMAIN f = Below(DOMAIN pg.recs, s)
      /\ \A j \in DOMAIN f : f[j] = pg.recs[j]
      /\ f = Only(f, DOMAIN f)
  BY DEF Only, Below
<1>4. IsPageRecord(q)
  BY <1>1, <1>2, <1>3 DEF IsPageRecord, KeyRange, PageOf, Below
<1> QED  BY <1>2, <1>3, <1>4

\* The keys that go to the right half.
Above(pg) ==
  LET s == SplitKey(pg) IN
  {k \in DOMAIN pg.recs : IF IsLeaf(pg) THEN k >= s ELSE k > s}

\* The right half of a split page.
LEMMA RightHalfFields ==
  ASSUME NEW pg, IsPageRecord(pg), SplitKey(pg) \in KeyRange,
         ~IsLeaf(pg) => pg.recs[SplitKey(pg)] \in Addr
  PROVE  LET s == SplitKey(pg)
             q == RightHalf(pg) IN
         /\ q.level = pg.level
         /\ q.leftmost = IF IsLeaf(pg) THEN Null ELSE pg.recs[s]
         /\ q.sibling = pg.sibling /\ q.lowest = s /\ q.highest = pg.highest
         /\ DOMAIN q.recs = Above(pg)
         /\ \A j \in DOMAIN q.recs : q.recs[j] = pg.recs[j]
         /\ IsPageRecord(q)
<1> DEFINE s == SplitKey(pg)
           q == RightHalf(pg)
           f == Only(pg.recs, Above(pg))
           left == IF IsLeaf(pg) THEN Null ELSE pg.recs[s]
<1>1. q = PageOf(q)
  <2>1. q = [pg EXCEPT !.lowest = s, !.leftmost = left, !.recs = f]
    BY Zenon DEF RightHalf, Above
  <2> HIDE DEF q, s, f, left
  <2> QED  BY <2>1 DEF IsPageRecord, PageOf
<1>2. /\ q.level = pg.level /\ q.leftmost = left
      /\ q.sibling = pg.sibling /\ q.lowest = s /\ q.highest = pg.highest
      /\ q.recs = f
  BY DEF IsPageRecord, RightHalf, Above
<1>3. /\ DOMAIN f = Above(pg)
      /\ \A j \in DOMAIN f : f[j] = pg.recs[j]
      /\ f = Only(f, DOMAIN f)
  BY DEF Only, Above
<1>4. IsPageRecord(q)
  BY <1>1, <1>2, <1>3 DEF IsPageRecord, KeyRange, PageOf, Above
<1> QED  BY <1>2, <1>3, <1>4

\* The page of a new root.
LEMMA RootPageFields ==
  ASSUME NEW left \in Addr, NEW k \in KeyRange, NEW right,
         NEW level \in Level
  PROVE  LET q == RootPage(left, k, right, level) IN
         /\ q.level = level /\ q.leftmost = left /\ q.sibling = Null
         /\ q.lowest = kKeyMin /\ q.highest = kKeyMax
         /\ DOMAIN q.recs = {k} /\ q.recs[k] = right
         /\ kKeyMin <= kKeyMax => IsPageRecord(q)
BY KeyInts DEF RootPage, IsPageRecord, Only, KeyRange

\* The split key of a full page is one of its keys, not the least, and each
\* half has fewer records than the page had, and an internal one has some.
LEMMA SplitSizes ==
  ASSUME NEW pg, IsPageRecord(pg), Full(pg)
  PROVE  LET S == DOMAIN pg.recs
             s == SplitKey(pg)
             cap == IF IsLeaf(pg) THEN kLeafCardinality
                                  ELSE kInternalCardinality IN
         /\ s \in S
         /\ Below(S, s) # {} /\ Cardinality(Below(S, s)) < cap
         /\ Cardinality(Above(pg)) < cap
         /\ ~IsLeaf(pg) => Above(pg) # {}
<1> DEFINE S == DOMAIN pg.recs
           s == SplitKey(pg)
           n == Cardinality(S)
           m == n \div 2
<1>1. /\ S \in SUBSET (kKeyMin..kKeyMax) /\ IsFiniteSet(S) /\ n \in Nat
      /\ n >= 2 /\ (~IsLeaf(pg) => n >= 3)
      /\ n = IF IsLeaf(pg) THEN kLeafCardinality ELSE kInternalCardinality
  BY FiniteKeys, TreeAssumption DEF Full, IsPageRecord
<1>2. m \in Nat /\ m >= 1 /\ m < n /\ (~IsLeaf(pg) => n - m >= 2)
  BY <1>1
<1>3. s \in S /\ Cardinality(Below(S, s)) = m
  BY <1>1, <1>2, NthKeyFound DEF SplitKey
<1>4. Below(S, s) # {}
  BY <1>2, <1>3, FS_EmptySet
<1>5. IsFiniteSet(Below(S, s)) /\ Below(S, s) \subseteq S
  BY <1>1, FS_Subset DEF Below
<1>6. Cardinality(S \ Below(S, s)) = n - m
  <2>1. S \cap Below(S, s) = Below(S, s)
    BY <1>5
  <2>2. Cardinality(S \ Below(S, s)) = n - Cardinality(S \cap Below(S, s))
    BY <1>1, FS_Difference
  <2> QED  BY <1>3, <2>1, <2>2
<1>7. CASE IsLeaf(pg)
  <2>1. \A k \in S : k >= s <=> ~(k < s)
    BY <1>1, <1>3, KeyInts
  <2>2. Above(pg) = S \ Below(S, s)
    BY <1>7, <2>1, Zenon DEF Above, Below
  <2> QED  BY <1>1, <1>2, <1>3, <1>4, <1>6, <1>7, <2>2
<1>8. CASE ~IsLeaf(pg)
  <2>1. \A k \in S : k > s <=> (~(k < s) /\ k # s)
    BY <1>1, <1>3, KeyInts
  <2>2. Above(pg) = (S \ Below(S, s)) \ {s}
    BY <1>8, <2>1, Zenon DEF Above, Below
  <2>3. s \in S \ Below(S, s)
    BY <1>1, <1>3, KeyInts DEF Below
  <2>4. IsFiniteSet(S \ Below(S, s))
    BY <1>1, FS_Subset
  <2>5. Cardinality(Above(pg)) = n - m - 1
    <3>1. Cardinality((S \ Below(S, s)) \ {s})
            = Cardinality(S \ Below(S, s)) - 1
      BY <2>3, <2>4, FS_RemoveElement
    <3> QED  BY <1>6, <2>2, <3>1
  <2>6. Above(pg) # {}
    <3>1. Cardinality(Above(pg)) # 0
      BY <1>1, <1>2, <1>8, <2>5
    <3> QED  BY <3>1, FS_EmptySet
  <2> QED  BY <1>1, <1>2, <1>3, <1>4, <1>8, <2>5, <2>6
<1> QED  BY <1>7, <1>8

-----------------------------------------------------------------------------
(* The inductive invariant                                                 *)

Low(a) == mem[a].lowest
Lev(a) == mem[a].level

\* The pages that belong to the tree.  A page with the lowest fence kKeyMin
\* that is neither the root nor a leftmost child is a root whose
\* compare-and-swap failed: written, and never pointed to.
LiveIn(M, r) ==
  {a \in Addr : /\ IsPageIn(M, a)
                /\ \/ M[a].lowest # kKeyMin
                   \/ a = r
                   \/ \E b \in Addr : IsPageIn(M, b) /\ M[b].leftmost = a}
Live == LiveIn(mem, rootPtr)

IsThreadRecord(r) ==
  /\ r = [pc |-> r.pc, call |-> r.call, k |-> r.k, v |-> r.v,
          root |-> r.root, p |-> r.p, level |-> r.level, path |-> r.path,
          entry |-> r.entry, buf |-> r.buf, landed |-> r.landed,
          res |-> r.res]
  /\ r.pc \in {"idle", "search", "store", "modify", "grow", "up", "return"}
  /\ r.level \in Level
  /\ r.path \in [0..MaxLevel + 1 -> Addr \cup {Null}]
  /\ r.landed \in BOOLEAN

IsWrite(w) ==
  /\ w = [t |-> w.t, op |-> w.op, addr |-> w.addr, page |-> w.page]
  /\ w.t \in Thread /\ w.addr \in Addr

TypeInv ==
  /\ work \in DOMAIN Workloads
  /\ mem = [a \in Addr |-> mem[a]]
  /\ lock \in [Lock -> Thread \cup {Free}]
  /\ rootPtr \in Addr
  /\ next \in 1..MaxPages + 1
  /\ \A w \in posted : IsWrite(w)
  /\ gRoot \in [Node -> [ptr : Addr \cup {Null}, level : Level \cup {-1}]]
  /\ msgs \subseteq [to : Node, addr : Addr, level : Level]
  /\ cache = [n \in Node |-> cache[n]]
  /\ th = [t \in Thread |-> th[t]]
  /\ \A t \in Thread : IsThreadRecord(th[t])
  /\ ops \in [Thread -> Nat]

PagesInv ==
  \A a \in Addr :
    /\ IsPage(a) <=> a < next
    /\ IsPage(a) => IsPageRecord(mem[a]) /\ Linked(mem, mem[a])

\* A posted page is the page in memory with a lower high fence.
PostedInv ==
  \A w \in posted :
    /\ w.addr \in Live
    /\ IsPageRecord(w.page)
    /\ Linked(mem, w.page)
    /\ w.page.level = Lev(w.addr)
    /\ w.page.lowest = Low(w.addr)
    /\ w.page.leftmost = mem[w.addr].leftmost

LeftOf(a, b) == a # b /\ Lev(a) = Lev(b) /\ Low(a) <= Low(b)

DisjointInv ==
  \A a, b \in Live : LeftOf(a, b) =>
    /\ (\A w \in posted : w.addr # a) => mem[a].highest <= Low(b)
    /\ \A w \in posted : w.addr = a => w.page.highest <= Low(b)

IsRoot(a) == a \in Live /\ Low(a) = kKeyMin

RootInv ==
  /\ IsRoot(rootPtr)
  /\ IsRoot(FirstLeaf) /\ Lev(FirstLeaf) = 0
  /\ \A a \in Live : Lev(a) <= Lev(rootPtr)
  /\ \A n \in Node :
       \/ gRoot[n].ptr = Null /\ gRoot[n].level = -1
       \/ IsRoot(gRoot[n].ptr) /\ Lev(gRoot[n].ptr) = gRoot[n].level
  /\ \A m \in msgs : IsRoot(m.addr) /\ Lev(m.addr) = m.level

LockInv ==
  /\ \A t \in Thread : th[t].pc = "modify" =>
       /\ lock[LockOf[th[t].p]] = t
       /\ th[t].buf = mem[th[t].p]
       /\ \A w \in posted : LockOf[w.addr] # LockOf[th[t].p]
  /\ \A w \in posted :
       /\ lock[LockOf[w.addr]] = w.t
       /\ \A x \in posted : LockOf[w.addr] = LockOf[x.addr] => w = x

Busy(t) == th[t].pc \in {"search", "store", "modify", "grow", "up"}
Carries(t) == th[t].pc \in {"grow", "up"}

\* Where a client in the middle of an operation stands.
Placed(t) ==
  LET c == th[t] IN
  /\ IsRoot(c.root)
  /\ c.p \in Live
  /\ c.k \in kKeyMin + 1..kKeyMax - 1
  /\ c.call.op \in {"insert", "search", "del"}
  /\ c.level > 0 \/ Carries(t) => c.call.op = "insert"
  /\ Low(c.p) <= c.k
  /\ Carries(t) => Low(c.p) < c.k
  /\ c.pc # "search" => Lev(c.p) = c.level
  /\ c.pc = "search" /\ c.level > 0 => Lev(c.p) > c.level
  /\ FromCache(t) => /\ Lev(c.p) = 0
                     /\ c.path = NoPath
                     /\ c.level = 0
                     /\ CacheOn(NodeOf[t])
                     /\ c.pc = "search" => c.call.op = "search"

ThreadInv == \A t \in Thread : Busy(t) => Placed(t)

PathLevel == 0..MaxLevel + 1

\* The path stack leads down to the page a client is at.
PathDown(t) ==
  LET c == th[t] IN
  /\ \A l \in PathLevel : c.path[l] # Null =>
       c.path[l] \in Live /\ Lev(c.path[l]) = l
  /\ \A l \in PathLevel : l > Lev(c.p) /\ c.path[l] # Null =>
       Low(c.path[l]) <= Low(c.p)
  /\ \A l, m \in PathLevel :
       l > Lev(c.p) /\ m > l /\ c.path[l] # Null /\ c.path[m] # Null =>
         Low(c.path[m]) <= Low(c.path[l])

PathInv == \A t \in Thread : Busy(t) => PathDown(t)

\* A client that has split a page and not yet stored the separator above.
Pending(t) == Carries(t) \/ (Busy(t) /\ th[t].level > 0)
PendingLevel(t) == IF Carries(t) THEN th[t].level ELSE th[t].level - 1

ChildOf(pg, v) ==
  ~IsLeaf(pg) /\ (pg.leftmost = v \/ \E k \in DOMAIN pg.recs : pg.recs[k] = v)

\* The new page is in the tree and has no parent yet, in memory or posted.
Fresh(t) ==
  LET v == th[t].v IN
  /\ v \in Live
  /\ Lev(v) = PendingLevel(t)
  /\ Low(v) = th[t].k

Orphan(v) ==
  /\ \A a \in Live : ~ChildOf(mem[a], v)
  /\ \A w \in posted : ~ChildOf(w.page, v)

PendingInv ==
  \A t \in Thread : Pending(t) =>
    /\ Fresh(t)
    /\ Orphan(th[t].v)
    /\ \A u \in Thread : u # t /\ Pending(u) => th[u].v # th[t].v

\* A cached page is the copy of a page of level 1, which may be outdated.
Copy(e) ==
  /\ IsPageRecord(e.page)
  /\ Linked(mem, e.page)
  /\ e.page.level = 1
  /\ e.page.leftmost \in Live
  /\ e.from = e.page.lowest
  /\ e.to = e.page.highest - 1

IsEntry(e) == e = [from |-> e.from, to |-> e.to, page |-> e.page]

CacheInv ==
  \A n \in Node : \A e \in cache[n] :
    IsEntry(e) /\ (e.page # NoPage => Copy(e))

Inv ==
  /\ TypeInv /\ PagesInv /\ PostedInv /\ DisjointInv /\ RootInv /\ LockInv
  /\ ThreadInv /\ PathInv /\ PendingInv /\ CacheInv

-----------------------------------------------------------------------------
(* What a change of memory leaves in place                                 *)

\* Pages stay, with their level and their fence on the left.
Grows ==
  /\ \A a \in Addr : IsPageIn(mem, a) =>
       /\ IsPageIn(mem', a)
       /\ mem'[a].level = mem[a].level
       /\ mem'[a].lowest = mem[a].lowest
  /\ Live \subseteq LiveIn(mem', rootPtr')

\* A page that hung together with memory still does when memory grows.
LEMMA LinkedKept ==
  ASSUME Grows, NEW pg, Linked(mem, pg)
  PROVE  Linked(mem', pg)
<1>1. \A a \in Addr : IsPageIn(mem, a) =>
        /\ IsPageIn(mem', a)
        /\ mem'[a].level = mem[a].level
        /\ mem'[a].lowest = mem[a].lowest
  BY DEF Grows
<1>2. \A a : IsPageIn(mem, a) => a \in Addr
  BY DEF IsPageIn
<1> QED  BY <1>1, <1>2 DEF Linked

\* Memory that does not change grows.
LEMMA SameGrows ==
  ASSUME UNCHANGED <<mem, rootPtr>>
  PROVE  Grows
BY DEF Grows, Live

\* Live pages are pages.
LEMMA LivePage ==
  ASSUME NEW a \in Live
  PROVE  a \in Addr /\ IsPage(a)
BY DEF Live, LiveIn, IsPage

\* A live page stays live, at its level and with its low fence.
LEMMA LiveKept ==
  ASSUME Grows, NEW a \in Live
  PROVE  a \in Live' /\ Lev(a)' = Lev(a) /\ Low(a)' = Low(a)
BY LivePage DEF Grows, Live, Low, Lev, IsPage

\* A root stays one when memory grows.
LEMMA RootKept ==
  ASSUME Grows, NEW a, IsRoot(a)
  PROVE  IsRoot(a)' /\ Lev(a)' = Lev(a)
BY LiveKept DEF IsRoot

\* A node's cache stays on: root levels only grow.
CachesStayOn == \A n \in Node : CacheOn(n) => CacheOn(n)'

\* A client that does not step stands where it stood.
LEMMA PlacedKept ==
  ASSUME Grows, CachesStayOn, NEW t \in Thread, th'[t] = th[t], Placed(t)
  PROVE  Placed(t)'
<1> DEFINE c == th[t]
<1>1. c.p \in Live' /\ Lev(c.p)' = Lev(c.p) /\ Low(c.p)' = Low(c.p)
  BY LiveKept DEF Placed
<1>2. IsRoot(c.root)'
  BY RootKept DEF Placed
<1>3. CacheOn(NodeOf[t]) => CacheOn(NodeOf[t])'
  BY TreeAssumption DEF CachesStayOn
<1> QED  BY <1>1, <1>2, <1>3 DEF Placed, Carries, FromCache

\* So does its path stack.
LEMMA PathKept ==
  ASSUME Grows, NEW t \in Thread, th'[t] = th[t], PathDown(t),
         th[t].p \in Live
  PROVE  PathDown(t)'
<1>1. /\ th[t].p \in Live' /\ Lev(th[t].p)' = Lev(th[t].p)
      /\ Low(th[t].p)' = Low(th[t].p)
  BY LiveKept
<1>2. \A l \in PathLevel : th[t].path[l] # Null =>
        /\ th[t].path[l] \in Live' /\ Lev(th[t].path[l])' = l
        /\ Low(th[t].path[l])' = Low(th[t].path[l])
  BY LiveKept DEF PathDown
<1> QED  BY <1>1, <1>2 DEF PathDown

\* And the page it has added to the tree.
LEMMA FreshKept ==
  ASSUME Grows, NEW t \in Thread, th'[t] = th[t], Fresh(t)
  PROVE  Fresh(t)'
BY LiveKept DEF Fresh, PendingLevel, Carries

\* A cached copy stays one.
LEMMA CopyKept ==
  ASSUME Grows, NEW e, Copy(e)
  PROVE  Copy(e)'
<1>1. Linked(mem', e.page)
  BY LinkedKept DEF Copy
<1>2. e.page.leftmost \in Live'
  BY LiveKept DEF Copy
<1> QED  BY <1>1, <1>2 DEF Copy

\* And the root and the NEW_ROOT messages a node has.
LEMMA RootsKept ==
  ASSUME Grows, RootInv, UNCHANGED <<gRoot, msgs, rootPtr>>,
         \A a \in Live' : a \notin Live => \E b \in Live : Lev(b) = Lev(a)'
  PROVE  RootInv'
<1>1. IsRoot(rootPtr)' /\ Lev(rootPtr)' = Lev(rootPtr)
  BY RootKept DEF RootInv
<1>2. IsRoot(FirstLeaf)' /\ Lev(FirstLeaf)' = 0
  BY RootKept DEF RootInv
<1>3. \A a \in Live' : Lev(a)' <= Lev(rootPtr)'
  BY <1>1, LiveKept DEF RootInv
<1>4. \A n \in Node : gRoot[n].ptr # Null \/ gRoot[n].level # -1 =>
        /\ IsRoot(gRoot[n].ptr)'
        /\ Lev(gRoot[n].ptr)' = gRoot[n].level
  BY RootKept DEF RootInv
<1>5. \A m \in msgs : IsRoot(m.addr)' /\ Lev(m.addr)' = m.level
  BY RootKept DEF RootInv
<1> QED  BY <1>1, <1>2, <1>3, <1>4, <1>5 DEF RootInv

-----------------------------------------------------------------------------
(* What each step does to the record of the client that takes it           *)

RecordOf(r) ==
  [pc |-> r.pc, call |-> r.call, k |-> r.k, v |-> r.v, root |-> r.root,
   p |-> r.p, level |-> r.level, path |-> r.path, entry |-> r.entry,
   buf |-> r.buf, landed |-> r.landed, res |-> r.res]

Pcs == {"idle", "search", "store", "modify", "grow", "up", "return"}

Fields == {"pc", "call", "k", "v", "root", "p", "level", "path", "entry",
           "buf", "landed", "res"}

\* The fields outside S keep their values.
Keeps(t, S) == \A f \in Fields \ S : th'[t][f] = th[t][f]

\* Only the record of t changes.
Moves(t) ==
  /\ th' = [u \in Thread |-> th'[u]]
  /\ \A u \in Thread : u # t => th'[u] = th[u]
  /\ IsThreadRecord(th'[t])

\* Shared by the lemmas below: a record whose fields are typed.
LEMMA ThreadRecordIntro ==
  ASSUME NEW r, r = RecordOf(r), r.pc \in Pcs, r.level \in Level,
         r.path \in [PathLevel -> Addr \cup {Null}], r.landed \in BOOLEAN
  PROVE  IsThreadRecord(r)
BY DEF IsThreadRecord, RecordOf, Pcs, PathLevel

\* The type of a client's record.
LEMMA ThreadRecordElim ==
  ASSUME TypeInv, NEW t \in Thread
  PROVE  LET r == th[t] IN
         /\ th = [u \in Thread |-> th[u]]
         /\ r = RecordOf(r) /\ r.pc \in Pcs /\ r.level \in Level
         /\ r.path \in [PathLevel -> Addr \cup {Null}] /\ r.landed \in BOOLEAN
BY DEF TypeInv, IsThreadRecord, RecordOf, Pcs, PathLevel

\* A page that is visited is noted in the path stack.
LEMMA VisitMoves ==
  ASSUME TypeInv, NEW t \in Thread, NEW pc \in Pcs, NEW p,
         Visit(t, pc, p), th[t].p \in Addr
  PROVE  LET c == th[t]
             d == th'[t] IN
         /\ Moves(t)
         /\ d.pc = pc /\ d.p = p
         /\ d.path = [c.path EXCEPT ![mem[c.p].level] = c.p]
         /\ Keeps(t, {"pc", "p", "path"})
<1> DEFINE c == th[t]
           d == th'[t]
<1>1. th' = [th EXCEPT ![t].pc = pc, ![t].p = p,
                      ![t].path[mem[th[t].p].level] = th[t].p]
  BY DEF Visit
<1>2. /\ th = [u \in Thread |-> th[u]]
      /\ c = RecordOf(c) /\ c.pc \in Pcs /\ c.level \in Level
      /\ c.path \in [PathLevel -> Addr \cup {Null}] /\ c.landed \in BOOLEAN
  BY ThreadRecordElim
<1>3. /\ th' = [u \in Thread |-> th'[u]]
      /\ \A u \in Thread : u # t => th'[u] = th[u]
  BY <1>1, <1>2
<1>4. /\ d.pc = pc /\ d.p = p
      /\ d.path = [c.path EXCEPT ![mem[c.p].level] = c.p]
      /\ Keeps(t, {"pc", "p", "path"})
  BY <1>1, <1>2 DEF RecordOf, Keeps, Fields
<1>5. d = RecordOf(d)
  BY <1>1, <1>2 DEF RecordOf
<1>6. IsThreadRecord(d)
  <2>1. d.path \in [PathLevel -> Addr \cup {Null}]
    BY <1>2, <1>4
  <2> QED
    BY <1>2, <1>4, <1>5, <2>1, ThreadRecordIntro DEF Keeps, Fields
<1> QED  BY <1>3, <1>4, <1>6 DEF Moves

\* search ends.
LEMMA ReadLeafMoves ==
  ASSUME TypeInv, NEW t \in Thread, ReadLeaf(t)
  PROVE  LET c == th[t]
             d == th'[t] IN
         /\ Moves(t)
         /\ d.pc = "return" /\ d.landed = TRUE
         /\ d.res = ValueIn(mem[c.p], c.k)
         /\ Keeps(t, {"pc", "landed", "res"})
<1> DEFINE c == th[t]
           d == th'[t]
<1>1. th' = [th EXCEPT ![t].pc = "return", ![t].landed = TRUE,
                      ![t].res = ValueIn(mem[th[t].p], th[t].k)]
  BY DEF ReadLeaf
<1>2. /\ th = [u \in Thread |-> th[u]]
      /\ c = RecordOf(c) /\ c.pc \in Pcs /\ c.level \in Level
      /\ c.path \in [PathLevel -> Addr \cup {Null}] /\ c.landed \in BOOLEAN
  BY ThreadRecordElim
<1>3. /\ th' = [u \in Thread |-> th'[u]]
      /\ \A u \in Thread : u # t => th'[u] = th[u]
  BY <1>1, <1>2
<1>4. /\ d.pc = "return" /\ d.landed = TRUE
      /\ d.res = ValueIn(mem[c.p], c.k)
      /\ Keeps(t, {"pc", "landed", "res"})
  BY <1>1, <1>2 DEF RecordOf, Keeps, Fields
<1>5. d = RecordOf(d)
  BY <1>1, <1>2 DEF RecordOf
<1>6. IsThreadRecord(d)
  BY <1>2, <1>4, <1>5, ThreadRecordIntro DEF Pcs, Keeps, Fields
<1> QED  BY <1>3, <1>4, <1>6 DEF Moves

\* A client starts again from a root.
LEMMA RestartMoves ==
  ASSUME TypeInv, NEW t \in Thread, NEW root, Restart(t, root)
  PROVE  LET c == th[t]
             d == th'[t] IN
         /\ Moves(t)
         /\ d.pc = "search" /\ d.root = root /\ d.p = root
         /\ d.entry = NoEntry
         /\ Keeps(t, {"pc", "root", "p", "entry", "buf"})
<1> DEFINE c == th[t]
           d == th'[t]
<1>1. th' = [th EXCEPT ![t].pc = "search", ![t].root = root, ![t].p = root,
                      ![t].entry = NoEntry, ![t].buf = NoPage]
  BY DEF Restart
<1>2. /\ th = [u \in Thread |-> th[u]]
      /\ c = RecordOf(c) /\ c.pc \in Pcs /\ c.level \in Level
      /\ c.path \in [PathLevel -> Addr \cup {Null}] /\ c.landed \in BOOLEAN
  BY ThreadRecordElim
<1>3. /\ th' = [u \in Thread |-> th'[u]]
      /\ \A u \in Thread : u # t => th'[u] = th[u]
  BY <1>1, <1>2
<1>4. /\ d.pc = "search" /\ d.root = root /\ d.p = root
      /\ d.entry = NoEntry
      /\ Keeps(t, {"pc", "root", "p", "entry", "buf"})
  BY <1>1, <1>2 DEF RecordOf, Keeps, Fields
<1>5. d = RecordOf(d)
  BY <1>1, <1>2 DEF RecordOf
<1>6. IsThreadRecord(d)
  BY <1>2, <1>4, <1>5, ThreadRecordIntro DEF Pcs, Keeps, Fields
<1> QED  BY <1>3, <1>4, <1>6 DEF Moves

\* try_lock_addr and the read under the lock.
LEMMA LockAndReadMoves ==
  ASSUME TypeInv, NEW t \in Thread, LockAndRead(t)
  PROVE  LET c == th[t]
             d == th'[t] IN
         /\ Moves(t)
         /\ d.pc = "modify" /\ d.buf = mem[c.p]
         /\ Keeps(t, {"pc", "buf"})
<1> DEFINE c == th[t]
           d == th'[t]
<1>1. th' = [th EXCEPT ![t].pc = "modify", ![t].buf = mem[th[t].p]]
  BY DEF LockAndRead
<1>2. /\ th = [u \in Thread |-> th[u]]
      /\ c = RecordOf(c) /\ c.pc \in Pcs /\ c.level \in Level
      /\ c.path \in [PathLevel -> Addr \cup {Null}] /\ c.landed \in BOOLEAN
  BY ThreadRecordElim
<1>3. /\ th' = [u \in Thread |-> th'[u]]
      /\ \A u \in Thread : u # t => th'[u] = th[u]
  BY <1>1, <1>2
<1>4. /\ d.pc = "modify" /\ d.buf = mem[c.p]
      /\ Keeps(t, {"pc", "buf"})
  BY <1>1, <1>2 DEF RecordOf, Keeps, Fields
<1>5. d = RecordOf(d)
  BY <1>1, <1>2 DEF RecordOf
<1>6. IsThreadRecord(d)
  BY <1>2, <1>4, <1>5, ThreadRecordIntro DEF Pcs, Keeps, Fields
<1> QED  BY <1>3, <1>4, <1>6 DEF Moves

\* A client moves on to the sibling.
LEMMA MoveRightMoves ==
  ASSUME TypeInv, NEW t \in Thread, MoveRight(t)
  PROVE  LET c == th[t]
             d == th'[t] IN
         /\ Moves(t)
         /\ d.pc = "store" /\ d.p = c.buf.sibling
         /\ Keeps(t, {"pc", "p"})
<1> DEFINE c == th[t]
           d == th'[t]
<1>1. th' = [th EXCEPT ![t].pc = "store", ![t].p = th[t].buf.sibling]
  BY DEF MoveRight
<1>2. /\ th = [u \in Thread |-> th[u]]
      /\ c = RecordOf(c) /\ c.pc \in Pcs /\ c.level \in Level
      /\ c.path \in [PathLevel -> Addr \cup {Null}] /\ c.landed \in BOOLEAN
  BY ThreadRecordElim
<1>3. /\ th' = [u \in Thread |-> th'[u]]
      /\ \A u \in Thread : u # t => th'[u] = th[u]
  BY <1>1, <1>2
<1>4. /\ d.pc = "store" /\ d.p = c.buf.sibling
      /\ Keeps(t, {"pc", "p"})
  BY <1>1, <1>2 DEF RecordOf, Keeps, Fields
<1>5. d = RecordOf(d)
  BY <1>1, <1>2 DEF RecordOf
<1>6. IsThreadRecord(d)
  BY <1>2, <1>4, <1>5, ThreadRecordIntro DEF Pcs, Keeps, Fields
<1> QED  BY <1>3, <1>4, <1>6 DEF Moves

\* del has cleared the record.
LEMMA DeleteEntryMoves ==
  ASSUME TypeInv, NEW t \in Thread, DeleteEntry(t)
  PROVE  LET c == th[t]
             d == th'[t] IN
         /\ Moves(t)
         /\ d.pc = "return" /\ d.landed = TRUE
         /\ Keeps(t, {"pc", "landed"})
<1> DEFINE c == th[t]
           d == th'[t]
<1>1. th' = [th EXCEPT ![t].pc = "return", ![t].landed = TRUE]
  BY DEF DeleteEntry
<1>2. /\ th = [u \in Thread |-> th[u]]
      /\ c = RecordOf(c) /\ c.pc \in Pcs /\ c.level \in Level
      /\ c.path \in [PathLevel -> Addr \cup {Null}] /\ c.landed \in BOOLEAN
  BY ThreadRecordElim
<1>3. /\ th' = [u \in Thread |-> th'[u]]
      /\ \A u \in Thread : u # t => th'[u] = th[u]
  BY <1>1, <1>2
<1>4. /\ d.pc = "return" /\ d.landed = TRUE
      /\ Keeps(t, {"pc", "landed"})
  BY <1>1, <1>2 DEF RecordOf, Keeps, Fields
<1>5. d = RecordOf(d)
  BY <1>1, <1>2 DEF RecordOf
<1>6. IsThreadRecord(d)
  BY <1>2, <1>4, <1>5, ThreadRecordIntro DEF Pcs, Keeps, Fields
<1> QED  BY <1>3, <1>4, <1>6 DEF Moves

\* insert has stored the entry.
LEMMA StoreEntryMoves ==
  ASSUME TypeInv, NEW t \in Thread, StoreEntry(t)
  PROVE  LET c == th[t]
             d == th'[t] IN
         /\ Moves(t)
         /\ d.pc = "return"
         /\ d.landed = (c.landed \/ IsLeaf(Stored(c.buf, c.k, c.v)))
         /\ Keeps(t, {"pc", "landed"})
<1> DEFINE c == th[t]
           d == th'[t]
<1>1. th' = [th EXCEPT ![t].pc = "return",
                      ![t].landed = @ \/ IsLeaf(Stored(th[t].buf, th[t].k,
                                                         th[t].v))]
  BY DEF StoreEntry
<1>2. /\ th = [u \in Thread |-> th[u]]
      /\ c = RecordOf(c) /\ c.pc \in Pcs /\ c.level \in Level
      /\ c.path \in [PathLevel -> Addr \cup {Null}] /\ c.landed \in BOOLEAN
  BY ThreadRecordElim
<1>3. /\ th' = [u \in Thread |-> th'[u]]
      /\ \A u \in Thread : u # t => th'[u] = th[u]
  BY <1>1, <1>2
<1>4. /\ d.pc = "return"
      /\ d.landed = (c.landed \/ IsLeaf(Stored(c.buf, c.k, c.v)))
      /\ Keeps(t, {"pc", "landed"})
  BY <1>1, <1>2 DEF RecordOf, Keeps, Fields
<1>5. d = RecordOf(d)
  BY <1>1, <1>2 DEF RecordOf
<1>6. IsThreadRecord(d)
  BY <1>2, <1>4, <1>5, ThreadRecordIntro DEF Pcs, Keeps, Fields
<1> QED  BY <1>3, <1>4, <1>6 DEF Moves

\* insert has split the page.
LEMMA SplitMoves ==
  ASSUME TypeInv, NEW t \in Thread, NEW async \in BOOLEAN, Split(t, async)
  PROVE  LET c == th[t]
             d == th'[t] IN
         /\ Moves(t)
         /\ d.pc = "grow" /\ d.v = next
         /\ d.k = SplitKey(Stored(c.buf, c.k, c.v))
         /\ d.landed = (c.landed
                         \/ (~async /\ IsLeaf(Stored(c.buf, c.k, c.v))))
         /\ Keeps(t, {"pc", "k", "v", "buf", "landed"})
<1> DEFINE c == th[t]
           d == th'[t]
<1>1. th' = [th EXCEPT
         ![t].pc = "grow",
         ![t].k = SplitKey(Stored(th[t].buf, th[t].k, th[t].v)),
         ![t].v = next, ![t].buf = NoPage,
         ![t].landed = @ \/ (~async /\ IsLeaf(Stored(th[t].buf, th[t].k,
                                                       th[t].v)))]
  BY DEF Split
<1>2. /\ th = [u \in Thread |-> th[u]]
      /\ c = RecordOf(c) /\ c.pc \in Pcs /\ c.level \in Level
      /\ c.path \in [PathLevel -> Addr \cup {Null}] /\ c.landed \in BOOLEAN
  BY ThreadRecordElim
<1>3. /\ th' = [u \in Thread |-> th'[u]]
      /\ \A u \in Thread : u # t => th'[u] = th[u]
  BY <1>1, <1>2
<1>4. /\ d.pc = "grow" /\ d.v = next
      /\ d.k = SplitKey(Stored(c.buf, c.k, c.v))
      /\ d.landed = (c.landed \/ (~async /\ IsLeaf(Stored(c.buf, c.k, c.v))))
      /\ Keeps(t, {"pc", "k", "v", "buf", "landed"})
  BY <1>1, <1>2 DEF RecordOf, Keeps, Fields
<1>5. d = RecordOf(d)
  BY <1>1, <1>2 DEF RecordOf
<1>6. IsThreadRecord(d)
  BY <1>2, <1>4, <1>5, ThreadRecordIntro DEF Pcs, Keeps, Fields
<1> QED  BY <1>3, <1>4, <1>6 DEF Moves

\* The separator goes to the page of the path stack.
LEMMA StoreUpMoves ==
  ASSUME TypeInv, NEW t \in Thread, StoreUp(t),
         th[t].level + 1 \in Level
  PROVE  LET c == th[t]
             d == th'[t] IN
         /\ Moves(t)
         /\ d.pc = "store" /\ d.p = UpLevel(t) /\ d.level = c.level + 1
         /\ Keeps(t, {"pc", "p", "level"})
<1> DEFINE c == th[t]
           d == th'[t]
<1>1. th' = [th EXCEPT ![t].pc = "store", ![t].p = UpLevel(t),
                      ![t].level = @ + 1]
  BY DEF StoreUp
<1>2. /\ th = [u \in Thread |-> th[u]]
      /\ c = RecordOf(c) /\ c.pc \in Pcs /\ c.level \in Level
      /\ c.path \in [PathLevel -> Addr \cup {Null}] /\ c.landed \in BOOLEAN
  BY ThreadRecordElim
<1>3. /\ th' = [u \in Thread |-> th'[u]]
      /\ \A u \in Thread : u # t => th'[u] = th[u]
  BY <1>1, <1>2
<1>4. /\ d.pc = "store" /\ d.p = UpLevel(t) /\ d.level = c.level + 1
      /\ Keeps(t, {"pc", "p", "level"})
  BY <1>1, <1>2 DEF RecordOf, Keeps, Fields
<1>5. d = RecordOf(d)
  BY <1>1, <1>2 DEF RecordOf
<1>6. IsThreadRecord(d)
  BY <1>2, <1>4, <1>5, ThreadRecordIntro DEF Pcs, Keeps, Fields
<1> QED  BY <1>3, <1>4, <1>6 DEF Moves

\* The separator goes to a page that a descent of its own finds.
LEMMA InsertInternalMoves ==
  ASSUME TypeInv, NEW t \in Thread, InsertInternal(t),
         th[t].level + 1 \in Level
  PROVE  LET c == th[t]
             d == th'[t] IN
         /\ Moves(t)
         /\ d.pc = "search" /\ d.level = c.level + 1
         /\ d.root = RootFor(NodeOf[t]) /\ d.p = RootFor(NodeOf[t])
         /\ d.entry = NoEntry
         /\ Keeps(t, {"pc", "level", "root", "p", "entry"})
<1> DEFINE c == th[t]
           d == th'[t]
<1>1. th' = [th EXCEPT
         ![t].pc = "search", ![t].level = th[t].level + 1,
         ![t].root = RootFor(NodeOf[t]), ![t].p = RootFor(NodeOf[t]),
         ![t].entry = NoEntry]
  BY DEF InsertInternal
<1>2. /\ th = [u \in Thread |-> th[u]]
      /\ c = RecordOf(c) /\ c.pc \in Pcs /\ c.level \in Level
      /\ c.path \in [PathLevel -> Addr \cup {Null}] /\ c.landed \in BOOLEAN
  BY ThreadRecordElim
<1>3. /\ th' = [u \in Thread |-> th'[u]]
      /\ \A u \in Thread : u # t => th'[u] = th[u]
  BY <1>1, <1>2
<1>4. /\ d.pc = "search" /\ d.level = c.level + 1
      /\ d.root = RootFor(NodeOf[t]) /\ d.p = RootFor(NodeOf[t])
      /\ d.entry = NoEntry
      /\ Keeps(t, {"pc", "level", "root", "p", "entry"})
  BY <1>1, <1>2 DEF RecordOf, Keeps, Fields
<1>5. d = RecordOf(d)
  BY <1>1, <1>2 DEF RecordOf
<1>6. IsThreadRecord(d)
  BY <1>2, <1>4, <1>5, ThreadRecordIntro DEF Pcs, Keeps, Fields
<1> QED  BY <1>3, <1>4, <1>6 DEF Moves

\* update_new_root ends the operation, or the compare-and-swap fails.
LEMMA UpdateNewRootMoves ==
  ASSUME TypeInv, NEW t \in Thread, UpdateNewRoot(t)
  PROVE  LET c == th[t]
             d == th'[t] IN
         /\ Moves(t)
         /\ d.pc = IF rootPtr = c.root THEN "return" ELSE "up"
         /\ Keeps(t, {"pc"})
<1> DEFINE c == th[t]
           d == th'[t]
<1>1. th' = [th EXCEPT
               ![t].pc = IF rootPtr = th[t].root THEN "return" ELSE "up"]
  BY DEF UpdateNewRoot
<1>2. /\ th = [u \in Thread |-> th[u]]
      /\ c = RecordOf(c) /\ c.pc \in Pcs /\ c.level \in Level
      /\ c.path \in [PathLevel -> Addr \cup {Null}] /\ c.landed \in BOOLEAN
  BY ThreadRecordElim
<1>3. /\ th' = [u \in Thread |-> th'[u]]
      /\ \A u \in Thread : u # t => th'[u] = th[u]
  BY <1>1, <1>2
<1>4. /\ d.pc = IF rootPtr = c.root THEN "return" ELSE "up"
      /\ Keeps(t, {"pc"})
  BY <1>1, <1>2 DEF RecordOf, Keeps, Fields
<1>5. d = RecordOf(d)
  BY <1>1, <1>2 DEF RecordOf
<1>6. IsThreadRecord(d)
  BY <1>2, <1>4, <1>5, ThreadRecordIntro DEF Pcs, Keeps, Fields
<1> QED  BY <1>3, <1>4, <1>6 DEF Moves

\* The memory node has written a page of t's.
LEMMA DeliverMoves ==
  ASSUME TypeInv, NEW t \in Thread, NEW w \in posted, w.t = t, Deliver(w)
  PROVE  LET c == th[t]
             d == th'[t] IN
         /\ Moves(t)
         /\ d.landed = (c.landed \/ (IsLeaf(w.page) /\ w.op = ops[w.t]))
         /\ Keeps(t, {"landed"})
<1> DEFINE c == th[t]
           d == th'[t]
<1>1. th' = [th EXCEPT ![t].landed =
                @ \/ (IsLeaf(w.page) /\ w.op = ops[w.t])]
  BY DEF Deliver
<1>2. /\ th = [u \in Thread |-> th[u]]
      /\ c = RecordOf(c) /\ c.pc \in Pcs /\ c.level \in Level
      /\ c.path \in [PathLevel -> Addr \cup {Null}] /\ c.landed \in BOOLEAN
  BY ThreadRecordElim
<1>3. /\ th' = [u \in Thread |-> th'[u]]
      /\ \A u \in Thread : u # t => th'[u] = th[u]
  BY <1>1, <1>2
<1>4. /\ d.landed = (c.landed \/ (IsLeaf(w.page) /\ w.op = ops[w.t]))
      /\ Keeps(t, {"landed"})
  BY <1>1, <1>2 DEF RecordOf, Keeps, Fields
<1>5. d = RecordOf(d)
  BY <1>1, <1>2 DEF RecordOf
<1>6. IsThreadRecord(d)
  BY <1>2, <1>4, <1>5, ThreadRecordIntro DEF Pcs, Keeps, Fields
<1> QED  BY <1>3, <1>4, <1>6 DEF Moves

\* A record between two operations.
LEMMA IdleRecord ==
  IsThreadRecord(Idle)
<1>1. 0 \in Level /\ NoPath \in [PathLevel -> Addr \cup {Null}]
  BY TreeAssumption DEF Level, NoPath, PathLevel, Addr, Null
<1>2. Idle = RecordOf(Idle)
  BY DEF Idle, RecordOf
<1> QED  BY <1>1, <1>2, ThreadRecordIntro DEF Idle, Pcs

\* An operation returns.
LEMMA ReturnMoves ==
  ASSUME TypeInv, NEW t \in Thread, Return(t)
  PROVE  Moves(t) /\ th'[t] = Idle
<1>1. th' = [th EXCEPT ![t] = Idle]
  BY DEF Return
<1>2. th = [u \in Thread |-> th[u]]
  BY ThreadRecordElim
<1> QED  BY <1>1, <1>2, IdleRecord DEF Moves

\* A client at the start of operation c, at page p.
Begun(t, c, root, p, pc) ==
  LET d == th'[t] IN
  /\ d.pc = pc /\ d.call = c /\ d.k = c.k /\ d.v = c.v
  /\ d.root = root /\ d.p = p
  /\ d.level = 0 /\ d.path = NoPath /\ d.landed = FALSE
  /\ d.res = kValueNull

\* An operation begins at the root, or at the leaf a cached page names.
LEMMA StartMoves ==
  ASSUME TypeInv, NEW t \in Thread, Start(t)
  PROVE  /\ Moves(t)
         /\ \E c \in Calls(t)[ops[t] + 1] :
              LET r == RootFor(NodeOf[t])
                  C == cache[NodeOf[t]] IN
              /\ deleted' = IF c.op = "del" THEN deleted \cup {c.k}
                                           ELSE deleted
              /\ \/ /\ Begun(t, c, r, r, "search")
                    /\ th'[t].entry = NoEntry
                 \/ /\ CacheOn(NodeOf[t])
                    /\ \E e \in search_from_cache(C, c.k) :
                         Begun(t, c, r, ChildFor(e.page, c.k),
                                 IF c.op = "search" THEN "search"
                                                    ELSE "store")
<1> DEFINE n == NodeOf[t]
           r == RootFor(n)
           new(c) == [Idle EXCEPT !.pc = "search", !.call = c, !.k = c.k,
                           !.v = c.v, !.root = r, !.p = r]
           hit(c) == {e \in search_from_cache(cache[n], c.k) : CacheOn(n)}
           at(c, e) == [new(c) EXCEPT
                          !.pc = IF c.op = "search" THEN "search"
                                                    ELSE "store",
                          !.p = ChildFor(e.page, c.k),
                          !.entry = [from |-> e.from, to |-> e.to]]
<1>1. PICK c \in Calls(t)[ops[t] + 1] :
        /\ deleted' = IF c.op = "del" THEN deleted \cup {c.k} ELSE deleted
        /\ \/ th' = [th EXCEPT ![t] = new(c)]
           \/ \E e \in hit(c) : th' = [th EXCEPT ![t] = at(c, e)]
  BY DEF Start
<1>2. th = [u \in Thread |-> th[u]]
  BY ThreadRecordElim
<1>3. 0 \in Level /\ NoPath \in [PathLevel -> Addr \cup {Null}]
  BY TreeAssumption DEF Level, NoPath, PathLevel, Addr, Null
<1>4. CASE th' = [th EXCEPT ![t] = new(c)]
  <2>1. th'[t] = new(c)
    BY <1>2, <1>4
  <2>2. /\ Begun(t, c, r, r, "search")
        /\ th'[t].entry = NoEntry
    BY <2>1 DEF Idle, Begun
  <2>3. th'[t] = RecordOf(th'[t])
    BY <2>1 DEF Idle, RecordOf
  <2>4. Moves(t)
    BY <1>2, <1>3, <1>4, <2>2, <2>3, ThreadRecordIntro
       DEF Moves, Begun, Pcs
  <2> QED  BY <1>1, <2>2, <2>4
<1>5. CASE \E e \in hit(c) : th' = [th EXCEPT ![t] = at(c, e)]
  <2>0. PICK e \in hit(c) : th' = [th EXCEPT ![t] = at(c, e)]
    BY <1>5
  <2>1. th'[t] = at(c, e)
    BY <1>2, <2>0
  <2>2. Begun(t, c, r, ChildFor(e.page, c.k),
                IF c.op = "search" THEN "search" ELSE "store")
    BY <2>1 DEF Idle, Begun
  <2>3. th'[t] = RecordOf(th'[t])
    BY <2>1 DEF Idle, RecordOf
  <2>4. Moves(t)
    BY <1>2, <1>3, <2>0, <2>2, <2>3, ThreadRecordIntro, ZenonT(30)
       DEF Moves, Begun, Pcs
  <2>5. e \in search_from_cache(cache[n], c.k) /\ CacheOn(n)
    BY <2>0
  <2> QED  BY <1>1, <2>2, <2>4, <2>5
<1> QED  BY <1>1, <1>4, <1>5

-----------------------------------------------------------------------------
(* Steps that leave memory alone                                           *)

\* The child that a page names for a key is one level down and begins at or
\* before the key.
LEMMA ChildFound ==
  ASSUME NEW M, NEW pg, IsPageRecord(pg), Linked(M, pg), ~IsLeaf(pg),
         NEW k \in KeyRange, pg.lowest <= k
  PROVE  LET c == ChildFor(pg, k) IN
         /\ IsPageIn(M, c) /\ M[c].level = pg.level - 1
         /\ M[c].lowest <= k /\ pg.lowest <= M[c].lowest
         /\ c = pg.leftmost \/ M[c].lowest > pg.lowest
         /\ ChildOf(pg, c)
<1> DEFINE S == {j \in DOMAIN pg.recs : j <= k}
<1>0. pg.lowest \in Int
  BY KeyInts DEF IsPageRecord
<1>1. CASE S = {}
  <2>1. ChildFor(pg, k) = pg.leftmost
    BY <1>1 DEF ChildFor
  <2> QED  BY <1>0, <2>1 DEF Linked, ChildOf
<1>2. CASE S # {}
  <2> DEFINE j == CHOOSE x \in S : \A i \in S : i <= x
  <2>1. S \in SUBSET (kKeyMin..kKeyMax)
    BY DEF IsPageRecord
  <2>2. j \in S
    BY <1>2, <2>1, MaxKey
  <2>3. ChildFor(pg, k) = pg.recs[j]
    BY <1>2 DEF ChildFor
  <2> HIDE DEF j
  <2>4. j \in Int /\ j \in DOMAIN pg.recs /\ j <= k
    BY <2>1, <2>2, KeyInts
  <2> QED  BY <1>0, <2>3, <2>4 DEF Linked, ChildOf
<1> QED  BY <1>1, <1>2

\* Where a page in memory or a cached copy leads is in the tree.
LEMMA ChildLive ==
  ASSUME NEW pg, IsPageRecord(pg), Linked(mem, pg), ~IsLeaf(pg),
         pg.leftmost \in Live, NEW k \in KeyRange, pg.lowest <= k
  PROVE  LET c == ChildFor(pg, k) IN
         c \in Live /\ Lev(c) = pg.level - 1 /\ Low(c) <= k
         /\ pg.lowest <= Low(c)
<1> DEFINE c == ChildFor(pg, k)
<1>1. /\ IsPageIn(mem, c) /\ mem[c].level = pg.level - 1
      /\ mem[c].lowest <= k /\ pg.lowest <= mem[c].lowest
      /\ c = pg.leftmost \/ mem[c].lowest > pg.lowest
  BY ChildFound
<1>2. c \in Live
  <2>1. CASE c = pg.leftmost
    BY <2>1
  <2>2. CASE mem[c].lowest > pg.lowest
    <3>1. mem[c].lowest # kKeyMin
      BY <2>2, KeyInts DEF IsPageRecord
    <3>2. c \in Addr
      BY <1>1 DEF IsPageIn
    <3> QED  BY <1>1, <3>1, <3>2 DEF Live, LiveIn
  <2> QED  BY <1>1, <2>1, <2>2
<1> QED  BY <1>1, <1>2 DEF Low, Lev

\* So is the sibling of a page.
LEMMA SiblingLive ==
  ASSUME NEW pg, IsPageRecord(pg), Linked(mem, pg), pg.highest # kKeyMax
  PROVE  LET c == pg.sibling IN
         c \in Live /\ Lev(c) = pg.level /\ Low(c) = pg.highest
<1> DEFINE c == pg.sibling
<1>1. IsPageIn(mem, c) /\ Lev(c) = pg.level /\ Low(c) = pg.highest
  BY DEF Linked, Low, Lev
<1>2. Low(c) # kKeyMin
  BY <1>1, KeyInts DEF Linked, IsPageRecord
<1> QED  BY <1>1, <1>2 DEF Live, LiveIn, IsPageIn, Low

\* And the leftmost child of a page in memory.
LEMMA LeftmostLive ==
  ASSUME PagesInv, NEW a, IsPage(a), ~IsLeaf(mem[a])
  PROVE  mem[a].leftmost \in Live
<1>1. a \in Addr /\ IsPageIn(mem, mem[a].leftmost)
  BY DEF PagesInv, Linked, IsPage, IsPageIn
<1> QED  BY <1>1 DEF Live, LiveIn, IsPage, IsPageIn

\* An invalidated entry has lost its page.
LEMMA ClearedEntries ==
  ASSUME NEW C, \A e \in C : IsEntry(e), NEW from, NEW to,
         NEW f \in Cleared(C, from, to)
  PROVE  IsEntry(f) /\ (f \in C \/ f.page = NoPage)
<1>1. PICK e \in C : f = IF e.from = from /\ e.to = to
                         THEN [e EXCEPT !.page = NoPage] ELSE e
  BY DEF Cleared
<1>2. IsEntry(e)
  OBVIOUS
<1> QED  BY <1>1, <1>2 DEF IsEntry

\* add_to_cache lists a page and may evict others.
LEMMA AddedEntries ==
  ASSUME NEW C, \A e \in C : IsEntry(e), NEW pg,
         NEW D \in add_to_cache(C, pg), NEW f \in D
  PROVE  /\ IsEntry(f)
         /\ \/ f \in C \/ f.page = NoPage
            \/ f = [from |-> pg.lowest, to |-> pg.highest - 1, page |-> pg]
<1> DEFINE new == [from |-> pg.lowest, to |-> pg.highest - 1, page |-> pg]
           same == {e \in C : e.from = new.from /\ e.to = new.to}
           E == (C \ same) \cup {new}
<1>1. IsEntry(new)
  BY DEF IsEntry
<1>2. \A e \in E : IsEntry(e) /\ (e \in C \/ e = new)
  BY <1>1
<1>3. \/ D = C \/ D = E
      \/ \E e : D = Cleared(E, e.from, e.to)
  BY DEF add_to_cache
<1> HIDE DEF new, same, E
<1>4. CASE D = C
  BY <1>4
<1>5. CASE D = E
  BY <1>2, <1>5 DEF new
<1>6. CASE \E e : D = Cleared(E, e.from, e.to)
  <2>1. IsEntry(f) /\ (f \in E \/ f.page = NoPage)
    BY <1>2, <1>6, ClearedEntries
  <2> QED  BY <1>2, <2>1 DEF new
<1> QED  BY <1>3, <1>4, <1>5, <1>6

\* The cached copies stay copies, and a page just read is one.
LEMMA CachesKept ==
  ASSUME Inv, Grows,
         \A n \in Node : \A e \in cache'[n] :
           IsEntry(e) /\ (e \in cache[n] \/ e.page = NoPage \/ Copy(e)')
  PROVE  CacheInv'
<1> SUFFICES ASSUME NEW n \in Node, NEW e \in cache'[n]
             PROVE  IsEntry(e) /\ (e.page # NoPage => Copy(e)')
  BY DEF CacheInv
<1>1. e \in cache[n] /\ e.page # NoPage => Copy(e)
  BY DEF Inv, CacheInv
<1> QED  BY <1>1, CopyKept

\* The other clients keep their places when memory grows.
LEMMA OthersPlaced ==
  ASSUME Inv, Grows, CachesStayOn, NEW t \in Thread, Moves(t),
         Busy(t)' => Placed(t)' /\ PathDown(t)'
  PROVE  ThreadInv' /\ PathInv'
<1>1. ASSUME NEW u \in Thread, u # t, Busy(u)'
      PROVE  Placed(u)' /\ PathDown(u)'
  <2>1. th'[u] = th[u]
    BY <1>1 DEF Moves
  <2>2. Busy(u)
    BY <1>1, <2>1 DEF Busy
  <2>3. Placed(u) /\ PathDown(u) /\ th[u].p \in Live
    BY <2>2 DEF Inv, ThreadInv, PathInv, Placed
  <2> QED  BY <2>1, <2>3, PlacedKept, PathKept
<1> QED  BY <1>1 DEF ThreadInv, PathInv

\* The other clients' separators stay fresh, and apart from t's.
LEMMA OthersPending ==
  ASSUME Inv, Grows, NEW t \in Thread, Moves(t),
         \A u \in Thread : u # t /\ Pending(u) => Orphan(th[u].v)',
         Pending(t)' =>
           /\ Fresh(t)' /\ Orphan(th[t].v)'
           /\ \A u \in Thread : u # t /\ Pending(u) => th[u].v # th'[t].v
  PROVE  PendingInv'
<1>1. \A u \in Thread : u # t =>
        /\ th'[u] = th[u]
        /\ Pending(u)' <=> Pending(u)
  BY DEF Moves, Pending, Carries, Busy
<1>2. ASSUME NEW u \in Thread, u # t, Pending(u)'
      PROVE  /\ Fresh(u)' /\ Orphan(th[u].v)'
             /\ \A x \in Thread : x # u /\ Pending(x)' => th'[x].v # th'[u].v
  <2>1. Pending(u) /\ th'[u] = th[u]
    BY <1>1, <1>2
  <2>2. Fresh(u)'
    BY <2>1, FreshKept DEF Inv, PendingInv
  <2>3. Orphan(th[u].v)'
    BY <1>2, <2>1
  <2>4. ASSUME NEW x \in Thread, x # u, Pending(x)'
        PROVE  th'[x].v # th'[u].v
    <3>1. CASE x = t
      BY <1>2, <2>1, <2>4, <3>1
    <3>2. CASE x # t
      BY <1>1, <2>1, <2>4, <3>2 DEF Inv, PendingInv
    <3> QED  BY <3>1, <3>2
  <2> QED  BY <2>2, <2>3, <2>4
<1>3. ASSUME Pending(t)'
      PROVE  /\ Fresh(t)' /\ Orphan(th[t].v)'
             /\ \A x \in Thread : x # t /\ Pending(x)' => th'[x].v # th'[t].v
  BY <1>1, <1>3
<1> QED  BY <1>2, <1>3 DEF PendingInv

\* A client outside the critical section moves and takes no lock.
LEMMA LockUntouched ==
  ASSUME Inv, NEW t \in Thread, Moves(t), th'[t].pc # "modify",
         UNCHANGED <<mem, lock, posted>>
  PROVE  LockInv'
BY DEF Inv, LockInv, Moves

\* t releases the lock of the page it has modified, if it has.
LEMMA LockReleased ==
  ASSUME Inv, NEW t \in Thread, th[t].pc = "modify", Moves(t),
         Release(th[t].p), th'[t].pc # "modify", UNCHANGED posted,
         \A a \in Addr : IsPage(a) /\ a # th[t].p => mem'[a] = mem[a]
  PROVE  LockInv'
<1> DEFINE p == th[t].p
<1>1. /\ lock' = [lock EXCEPT ![LockOf[p]] = Free]
      /\ lock \in [Lock -> Thread \cup {Free}]
  BY DEF Release, Inv, TypeInv
<1>2. lock[LockOf[p]] = t /\ \A w \in posted : LockOf[w.addr] # LockOf[p]
  BY DEF Inv, LockInv
<1>3. ASSUME NEW u \in Thread, th'[u].pc = "modify"
      PROVE  /\ lock'[LockOf[th'[u].p]] = u
             /\ th'[u].buf = mem'[th'[u].p]
             /\ \A w \in posted' : LockOf[w.addr] # LockOf[th'[u].p]
  <2>1. u # t /\ th'[u] = th[u]
    BY <1>3 DEF Moves
  <2>2. /\ lock[LockOf[th[u].p]] = u
        /\ th[u].buf = mem[th[u].p]
        /\ \A w \in posted : LockOf[w.addr] # LockOf[th[u].p]
    BY <1>3, <2>1 DEF Inv, LockInv
  <2>3. LockOf[th[u].p] # LockOf[p] /\ th[u].p # p
    BY <1>2, <2>1, <2>2
  <2>4. th[u].p \in Addr /\ IsPage(th[u].p)
    BY <1>3, <2>1, LivePage DEF Inv, ThreadInv, Placed, Busy
  <2>5. LockOf[th[u].p] \in Lock
    BY <2>4 DEF Lock
  <2> QED  BY <1>1, <2>1, <2>2, <2>3, <2>4, <2>5
<1>4. ASSUME NEW w \in posted
      PROVE  lock'[LockOf[w.addr]] = w.t
  <2>1. LockOf[w.addr] \in Lock /\ lock[LockOf[w.addr]] = w.t
    BY DEF Inv, TypeInv, IsWrite, LockInv, Lock
  <2> QED  BY <1>1, <1>2, <2>1
<1>5. \A w, x \in posted : LockOf[w.addr] = LockOf[x.addr] => w = x
  BY DEF Inv, LockInv
<1> QED  BY <1>3, <1>4, <1>5 DEF LockInv

\* A step of t that changes neither memory nor what is posted.
LEMMA Quiet ==
  ASSUME Inv, NEW t \in Thread, Moves(t),
         UNCHANGED <<work, mem, rootPtr, next, posted, gRoot, msgs>>,
         ops' \in [Thread -> Nat],
         lock' \in [Lock -> Thread \cup {Free}],
         cache' = [n \in Node |-> cache'[n]],
         Busy(t)' => Placed(t)' /\ PathDown(t)',
         Pending(t)' => Pending(t) /\ th'[t].v = th[t].v /\ Fresh(t)',
         LockInv', CacheInv'
  PROVE  Inv'
<1>1. Grows /\ CachesStayOn
  BY SameGrows DEF CachesStayOn, CacheOn
<1>2. TypeInv'
  <2>1. \A u \in Thread : IsThreadRecord(th'[u])
    BY DEF Moves, Inv, TypeInv
  <2> QED  BY <2>1 DEF Moves, Inv, TypeInv
<1>3. PagesInv'
  BY DEF Inv, PagesInv, IsPage
<1>4. PostedInv' /\ DisjointInv'
  BY DEF Inv, PostedInv, DisjointInv, Live, Low, Lev, LeftOf
<1>5. RootInv'
  BY DEF Inv, RootInv, IsRoot, Live, Low, Lev
<1>6. ThreadInv' /\ PathInv'
  BY <1>1, OthersPlaced
<1>7. \A u \in Thread : Pending(u) => Orphan(th[u].v)
  BY DEF Inv, PendingInv
<1>8. \A v : Orphan(v) => Orphan(v)'
  BY DEF Orphan, Live
<1>9. PendingInv'
  <2>1. ASSUME NEW u \in Thread, u # t, Pending(u)
        PROVE  Orphan(th[u].v)'
    BY <1>7, <1>8, <2>1 DEF Moves
  <2>2. ASSUME Pending(t)'
        PROVE  /\ Fresh(t)' /\ Orphan(th[t].v)'
               /\ \A u \in Thread : u # t /\ Pending(u) =>
                    th[u].v # th'[t].v
    BY <1>7, <1>8, <2>2 DEF Inv, PendingInv
  <2> QED  BY <1>1, <2>1, <2>2, OthersPending
<1> QED  BY <1>2, <1>3, <1>4, <1>5, <1>6, <1>9 DEF Inv

\* Leaves are the pages of level 0.
LEMMA LeafLevel ==
  ASSUME NEW M, NEW pg, Linked(M, pg)
  PROVE  IsLeaf(pg) <=> pg.level = 0
BY DEF Linked, IsLeaf

\* The types of what a live page holds.
LEMMA LiveTypes ==
  ASSUME Inv, NEW a \in Live
  PROVE  /\ a \in Addr /\ IsPage(a)
         /\ IsPageRecord(mem[a]) /\ Linked(mem, mem[a])
         /\ Low(a) \in Int /\ Low(a) \in KeyRange
         /\ Lev(a) \in Nat /\ Lev(a) \in Level
         /\ mem[a].highest \in Int
<1>1. a \in Addr /\ IsPage(a)
  BY LivePage
<1>2. IsPageRecord(mem[a]) /\ Linked(mem, mem[a])
  BY <1>1 DEF Inv, PagesInv
<1>3. /\ mem[a].lowest \in kKeyMin..kKeyMax
      /\ mem[a].highest \in kKeyMin..kKeyMax
      /\ mem[a].level \in Level
  BY <1>2 DEF IsPageRecord
<1> QED  BY <1>1, <1>2, <1>3, KeyInts DEF Low, Lev, Level, KeyRange

\* The facts about the page a client stands at.
LEMMA AtPage ==
  ASSUME Inv, NEW t \in Thread, Busy(t)
  PROVE  LET pg == mem[th[t].p] IN
         /\ Placed(t) /\ PathDown(t)
         /\ th[t].p \in Live /\ th[t].p \in Addr /\ IsPage(th[t].p)
         /\ IsPageRecord(pg) /\ Linked(mem, pg)
         /\ pg.level = Lev(th[t].p) /\ pg.lowest = Low(th[t].p)
         /\ pg.level \in Level /\ pg.level \in Nat /\ pg.level \in PathLevel
         /\ pg.lowest \in Int /\ pg.highest \in Int
         /\ th[t].k \in Int /\ th[t].k \in KeyRange
         /\ kKeyMin < th[t].k /\ th[t].k < kKeyMax
<1>1. Placed(t) /\ PathDown(t)
  BY DEF Inv, ThreadInv, PathInv
<1>2. th[t].p \in Live /\ th[t].p \in Addr /\ IsPage(th[t].p)
  BY <1>1, LivePage DEF Placed
<1>3. IsPageRecord(mem[th[t].p]) /\ Linked(mem, mem[th[t].p])
  BY <1>2 DEF Inv, PagesInv
<1>4. mem[th[t].p].level \in Nat /\ mem[th[t].p].level \in PathLevel
  BY <1>3, TreeAssumption DEF IsPageRecord, Level, PathLevel
<1>5. /\ mem[th[t].p].lowest \in Int /\ mem[th[t].p].highest \in Int
      /\ mem[th[t].p].level \in Level
  BY <1>3, KeyInts DEF IsPageRecord
<1>6. /\ th[t].k \in Int /\ th[t].k \in KeyRange
      /\ kKeyMin < th[t].k /\ th[t].k < kKeyMax
  BY <1>1, KeyInts DEF Placed, KeyRange
<1> QED  BY <1>1, <1>2, <1>3, <1>4, <1>5, <1>6 DEF Low, Lev

\* The roots a client may start from.
LEMMA RootForIsRoot ==
  ASSUME Inv, NEW n \in Node
  PROVE  /\ IsRoot(RootFor(n))
         /\ CacheOn(n) => Lev(RootFor(n)) >= 2 /\ 1 \in Level
<1>1. kCacheLevel \in Nat /\ kCacheLevel >= 2 /\ MaxLevel \in Nat
  BY TreeAssumption
<1>2. Null \notin Live
  BY LivePage DEF Null, Addr
<1>3. gRoot[n].level \in Level \cup {-1}
  BY DEF Inv, TypeInv
<1>4. CASE gRoot[n].ptr = Null
  <2>1. ~CacheOn(n)
    BY <1>1, <1>2, <1>4 DEF Inv, RootInv, CacheOn, IsRoot
  <2> QED  BY <1>4, <2>1 DEF Inv, RootInv, RootFor
<1>5. CASE gRoot[n].ptr # Null
  <2>1. /\ RootFor(n) = gRoot[n].ptr /\ IsRoot(gRoot[n].ptr)
        /\ Lev(gRoot[n].ptr) = gRoot[n].level
    BY <1>5 DEF Inv, RootInv, RootFor
  <2> QED  BY <1>1, <1>3, <2>1 DEF CacheOn, Level
<1> QED  BY <1>4, <1>5

\* A step of page_search, down or to the right.
LEMMA VisitKeeps ==
  ASSUME Inv, NEW t \in Thread, th[t].pc = "search", ~FromCache(t),
         NEW pc \in {"search", "store"}, NEW p, Visit(t, pc, p),
         p \in Live, Low(th[t].p) <= Low(p), Low(p) <= th[t].k,
         Lev(p) = Lev(th[t].p) \/ Lev(p) = Lev(th[t].p) - 1,
         pc = "store" => Lev(p) = th[t].level,
         pc = "search" /\ th[t].level > 0 => Lev(p) > th[t].level
  PROVE  Inv'
<1> DEFINE c == th[t]
           d == th'[t]
           pg == mem[c.p]
<1>0. Busy(t)
  BY DEF Busy
<1>1. /\ Placed(t) /\ PathDown(t)
      /\ c.p \in Live /\ c.p \in Addr /\ IsPage(c.p)
      /\ IsPageRecord(pg) /\ Linked(mem, pg)
      /\ pg.level = Lev(c.p) /\ pg.lowest = Low(c.p)
      /\ pg.level \in Nat /\ pg.level \in PathLevel
      /\ pg.lowest \in Int
  BY <1>0, AtPage
<1>2. /\ Moves(t)
      /\ d.pc = pc /\ d.p = p
      /\ d.path = [c.path EXCEPT ![pg.level] = c.p]
      /\ Keeps(t, {"pc", "p", "path"})
  <2>1. TypeInv /\ pc \in Pcs
    BY DEF Inv, Pcs
  <2> QED  BY <1>1, <2>1, VisitMoves
<1>3. /\ d.call = c.call /\ d.k = c.k /\ d.v = c.v /\ d.root = c.root
      /\ d.level = c.level /\ d.entry = c.entry
  BY <1>2 DEF Keeps, Fields
<1>4. UNCHANGED <<work, mem, lock, rootPtr, next, posted, gRoot, msgs, ops>>
  BY DEF Visit, hist
<1>5. Grows /\ Live' = Live /\ \A a : Low(a)' = Low(a) /\ Lev(a)' = Lev(a)
  BY <1>4, SameGrows DEF Live, Low, Lev
<1>6. Placed(t)'
  <2>1. IsRoot(c.root)' /\ ~FromCache(t)' /\ ~Carries(t)'
    BY <1>1, <1>2, <1>3, <1>5, RootKept DEF Placed, FromCache, Carries
  <2> QED  BY <1>1, <1>2, <1>3, <1>5, <2>1 DEF Placed
<1>7. PathDown(t)'
  <2>0. p \in Live /\ Low(p) \in Int /\ Lev(p) \in Nat
    BY LiveTypes
  <2>1. c.path \in [PathLevel -> Addr \cup {Null}]
    BY ThreadRecordElim DEF Inv
  <2>2. \A l \in PathLevel : c.path[l] # Null =>
          /\ c.path[l] \in Live /\ Lev(c.path[l]) = l
          /\ Low(c.path[l]) \in Int
    BY <1>1, LiveTypes DEF PathDown
  <2>3. \A l \in PathLevel :
          d.path[l] = IF l = pg.level THEN c.p ELSE c.path[l]
    BY <1>2, <2>1
  <2>4. \A l \in PathLevel : d.path[l] # Null =>
          d.path[l] \in Live /\ Lev(d.path[l]) = l
    BY <1>1, <2>2, <2>3
  <2>5. \A l \in PathLevel : l > Lev(p) /\ d.path[l] # Null =>
          Low(d.path[l]) <= Low(p)
    <3> SUFFICES ASSUME NEW l \in PathLevel, l > Lev(p), d.path[l] # Null
                 PROVE  Low(d.path[l]) <= Low(p)
      OBVIOUS
    <3>1. CASE l = pg.level
      BY <2>3, <3>1
    <3>2. CASE l # pg.level
      <4>1. l > Lev(c.p)
        BY <1>1, <2>0, <3>2 DEF PathLevel
      <4>2. Low(c.path[l]) <= Low(c.p)
        BY <1>1, <2>3, <3>2, <4>1 DEF PathDown
      <4> QED  BY <1>1, <2>0, <2>2, <2>3, <3>2, <4>2
    <3> QED  BY <3>1, <3>2
  <2>6. \A l, m \in PathLevel :
          l > Lev(p) /\ m > l /\ d.path[l] # Null /\ d.path[m] # Null =>
            Low(d.path[m]) <= Low(d.path[l])
    <3> SUFFICES ASSUME NEW l \in PathLevel, NEW m \in PathLevel, l > Lev(p),
                        m > l, d.path[l] # Null, d.path[m] # Null
                 PROVE  Low(d.path[m]) <= Low(d.path[l])
      OBVIOUS
    <3>1. m > Lev(c.p) /\ d.path[m] = c.path[m]
      BY <1>1, <2>0, <2>3 DEF PathLevel
    <3>2. CASE l = pg.level
      BY <1>1, <2>3, <3>1, <3>2 DEF PathDown
    <3>3. CASE l # pg.level
      <4>1. l > Lev(c.p) /\ d.path[l] = c.path[l]
        BY <1>1, <2>0, <2>3, <3>3 DEF PathLevel
      <4> QED  BY <1>1, <3>1, <4>1 DEF PathDown
    <3> QED  BY <3>2, <3>3
  <2> QED  BY <1>2, <1>5, <2>4, <2>5, <2>6 DEF PathDown
<1>8. ASSUME Pending(t)'
      PROVE  Pending(t) /\ d.v = c.v /\ Fresh(t)'
  <2>1. Pending(t) /\ ~Carries(t) /\ ~Carries(t)'
    BY <1>2, <1>3, <1>8 DEF Pending, Carries, Busy
  <2>2. Fresh(t)
    BY <2>1 DEF Inv, PendingInv
  <2> QED  BY <1>3, <1>5, <2>1, <2>2 DEF Fresh, PendingLevel
<1>9. LockInv'
  BY <1>2, <1>4, LockUntouched
<1>10. cache' = [n \in Node |-> cache'[n]] /\ CacheInv'
  <2>0. cache = [n \in Node |-> cache[n]] /\ NodeOf[t] \in Node
    BY TreeAssumption DEF Inv, TypeInv
  <2>1. CASE UNCHANGED cache
    <3>1. \A n \in Node : \A e \in cache'[n] : IsEntry(e) /\ e \in cache[n]
      BY <2>1 DEF Inv, CacheInv
    <3> QED  BY <1>5, <2>0, <2>1, <3>1, CachesKept
  <2>2. CASE /\ pg.level = 1
             /\ \E C \in add_to_cache(cache[NodeOf[t]], pg) :
                  cache' = [cache EXCEPT ![NodeOf[t]] = C]
    <3>1. PICK C \in add_to_cache(cache[NodeOf[t]], pg) :
                 cache' = [cache EXCEPT ![NodeOf[t]] = C]
      BY <2>2
    <3> DEFINE new == [from |-> pg.lowest, to |-> pg.highest - 1, page |-> pg]
    <3>2. ASSUME NEW e, e = new  PROVE Copy(e)'
      <4>1. ~IsLeaf(pg)
        BY <1>1, <2>2, LeafLevel
      <4>2. pg.leftmost \in Live
        BY <1>1, <4>1, LeftmostLive DEF Inv
      <4>3. /\ e.page = pg /\ e.from = pg.lowest
            /\ e.to = pg.highest - 1
        BY <3>2
      <4>4. Copy(e)
        BY <1>1, <2>2, <4>2, <4>3 DEF Copy
      <4> QED  BY <1>5, <4>4, CopyKept
    <3>3. ASSUME NEW n \in Node, NEW e \in cache'[n]
          PROVE  IsEntry(e) /\ (e \in cache[n] \/ e.page = NoPage
                                \/ Copy(e)')
      <4>0. \A f \in cache[n] : IsEntry(f)
        BY DEF Inv, CacheInv
      <4>1. CASE n # NodeOf[t]
        BY <2>0, <3>1, <4>0, <4>1
      <4>2. CASE n = NodeOf[t]
        <5>1. e \in C
          BY <2>0, <3>1, <4>2
        <5>2. IsEntry(e) /\ (e \in cache[n] \/ e.page = NoPage \/ e = new)
          BY <3>1, <4>0, <4>2, <5>1, AddedEntries
        <5> QED  BY <3>2, <5>2
      <4> QED  BY <4>1, <4>2
    <3> QED  BY <1>5, <2>0, <3>1, <3>3, CachesKept
  <2> QED  BY <2>1, <2>2 DEF Visit
<1>11. ops' \in [Thread -> Nat] /\ lock' \in [Lock -> Thread \cup {Free}]
  BY <1>4 DEF Inv, TypeInv
<1> QED
  BY <1>2, <1>4, <1>6, <1>7, <1>8, <1>9, <1>10, <1>11, Quiet

\* page_search turns right.
LEMMA TurnRightKeeps ==
  ASSUME Inv, NEW t \in Thread, TurnRight(t)
  PROVE  Inv'
<1> DEFINE c == th[t]
           pg == mem[c.p]
<1>0. th[t].pc = "search" /\ Busy(t)
  BY DEF TurnRight, Reads, At, Busy
<1>1. /\ Placed(t)
      /\ c.p \in Live /\ IsPageRecord(pg) /\ Linked(mem, pg)
      /\ pg.level = Lev(c.p) /\ pg.lowest = Low(c.p)
      /\ pg.lowest \in Int /\ pg.highest \in Int /\ pg.level \in Nat
      /\ c.k \in Int /\ c.k < kKeyMax
  BY <1>0, AtPage
<1>2. /\ Visit(t, "search", pg.sibling) /\ c.k >= pg.highest
      /\ ~IsLeaf(pg) \/ ~FromCache(t)
  BY DEF TurnRight
<1>3. ~FromCache(t)
  BY <1>1, <1>2, LeafLevel DEF Placed
<1>4. pg.highest # kKeyMax
  BY <1>1, <1>2, KeyInts
<1>5. /\ pg.sibling \in Live /\ Lev(pg.sibling) = pg.level
      /\ Low(pg.sibling) = pg.highest
  BY <1>1, <1>4, SiblingLive
<1>6. Low(c.p) <= Low(pg.sibling) /\ Low(pg.sibling) <= c.k
  <2>1. pg.lowest < pg.highest
    BY <1>1 DEF Linked
  <2> QED  BY <1>1, <1>2, <1>5, <2>1
<1>7. c.level > 0 => Lev(pg.sibling) > c.level
  BY <1>0, <1>1, <1>5 DEF Placed
<1> QED  BY <1>0, <1>1, <1>2, <1>3, <1>5, <1>6, <1>7, VisitKeeps

\* page_search goes down.
LEMMA DescendKeeps ==
  ASSUME Inv, NEW t \in Thread, Descend(t)
  PROVE  Inv'
<1> DEFINE c == th[t]
           pg == mem[c.p]
           x == ChildFor(pg, c.k)
           pc == IF c.call.op # "search" /\ pg.level = c.level + 1
                   THEN "store" ELSE "search"
<1>0. th[t].pc = "search" /\ Busy(t)
  BY DEF Descend, Reads, At, Busy
<1>1. /\ Placed(t) /\ IsPage(c.p)
      /\ c.p \in Live /\ IsPageRecord(pg) /\ Linked(mem, pg)
      /\ pg.level = Lev(c.p) /\ pg.lowest = Low(c.p)
      /\ pg.lowest \in Int /\ pg.highest \in Int /\ pg.level \in Nat
      /\ c.k \in Int /\ c.k \in KeyRange
  BY <1>0, AtPage
<1>2. Visit(t, pc, x) /\ InPage(pg, c.k) /\ ~IsLeaf(pg)
  BY DEF Descend
<1>3. ~FromCache(t)
  BY <1>1, <1>2, LeafLevel DEF Placed
<1>4. pg.leftmost \in Live
  BY <1>1, <1>2, LeftmostLive DEF Inv
<1>5. /\ x \in Live /\ Lev(x) = pg.level - 1
      /\ Low(x) <= c.k /\ Low(c.p) <= Low(x)
  BY <1>1, <1>2, <1>4, ChildLive DEF InPage
<1>6. c.level \in Nat
  BY ThreadRecordElim, TreeAssumption DEF Inv, Level
<1>7. pc = "store" => Lev(x) = c.level
  BY <1>1, <1>5, <1>6
<1>8. pc = "search" /\ c.level > 0 => Lev(x) > c.level
  BY <1>0, <1>1, <1>5, <1>6 DEF Placed
<1> HIDE DEF x, pc
<1>9. pc \in {"search", "store"}
  BY DEF pc
<1> QED
  BY <1>0, <1>1, <1>2, <1>3, <1>5, <1>7, <1>8, <1>9, VisitKeeps

\* insert and del find that the root is a leaf.
LEMMA ReachLeafKeeps ==
  ASSUME Inv, NEW t \in Thread, ReachLeaf(t)
  PROVE  Inv'
<1> DEFINE c == th[t]
           pg == mem[c.p]
<1>0. th[t].pc = "search" /\ Busy(t)
  BY DEF ReachLeaf, Reads, At, Busy
<1>1. /\ Placed(t)
      /\ c.p \in Live /\ Linked(mem, pg)
      /\ pg.level = Lev(c.p) /\ pg.lowest = Low(c.p)
      /\ pg.lowest \in Int
  BY <1>0, AtPage
<1>2. Visit(t, "store", c.p) /\ IsLeaf(pg) /\ c.call.op # "search"
  BY DEF ReachLeaf
<1>3. ~FromCache(t)
  BY <1>0, <1>1, <1>2 DEF Placed
<1>4. c.level \in Nat
  BY ThreadRecordElim, TreeAssumption DEF Inv, Level
<1>5. Lev(c.p) = 0
  BY <1>1, <1>2, LeafLevel
<1>6. Lev(c.p) = c.level
  BY <1>0, <1>1, <1>4, <1>5 DEF Placed
<1>7. Low(c.p) <= Low(c.p) /\ Low(c.p) <= c.k
  BY <1>1 DEF Placed
<1> QED  BY <1>0, <1>1, <1>2, <1>3, <1>6, <1>7, VisitKeeps

\* The caches, when none changes.
LEMMA CachesSame ==
  ASSUME Inv, Grows, UNCHANGED cache
  PROVE  cache' = [n \in Node |-> cache'[n]] /\ CacheInv'
<1>1. \A n \in Node : \A e \in cache'[n] : IsEntry(e) /\ e \in cache[n]
  BY DEF Inv, CacheInv
<1>2. cache = [n \in Node |-> cache[n]]
  BY DEF Inv, TypeInv
<1> QED  BY <1>1, <1>2, CachesKept

\* The caches, when one loses a page.
LEMMA CachesCleared ==
  ASSUME Inv, Grows, NEW n \in Node, NEW from, NEW to,
         cache' = [cache EXCEPT ![n] = Cleared(@, from, to)]
  PROVE  cache' = [m \in Node |-> cache'[m]] /\ CacheInv'
<1>1. cache = [m \in Node |-> cache[m]]
  BY DEF Inv, TypeInv
<1>2. ASSUME NEW m \in Node, NEW e \in cache'[m]
      PROVE  IsEntry(e) /\ (e \in cache[m] \/ e.page = NoPage)
  <2>1. \A f \in cache[m] : IsEntry(f)
    BY DEF Inv, CacheInv
  <2>2. CASE m # n
    BY <1>1, <2>1, <2>2
  <2>3. CASE m = n
    <3>1. e \in Cleared(cache[m], from, to)
      BY <1>1, <2>3
    <3> QED  BY <2>1, <3>1, ClearedEntries
  <2> QED  BY <2>2, <2>3
<1> QED  BY <1>1, <1>2, CachesKept

\* search has read its leaf.
LEMMA ReadLeafKeeps ==
  ASSUME Inv, NEW t \in Thread, ReadLeaf(t)
  PROVE  Inv'
<1>1. Moves(t) /\ th'[t].pc = "return"
  BY ReadLeafMoves DEF Inv
<1>2. UNCHANGED <<work, mem, lock, rootPtr, next, posted, gRoot, msgs, cache,
                  ops>>
  BY DEF ReadLeaf, others, hist
<1>3. ~Busy(t)' /\ ~Pending(t)'
  BY <1>1 DEF Busy, Pending, Carries
<1>4. LockInv'
  BY <1>1, <1>2, LockUntouched
<1>5. cache' = [n \in Node |-> cache'[n]] /\ CacheInv'
  BY <1>2, SameGrows, CachesSame
<1>6. ops' \in [Thread -> Nat] /\ lock' \in [Lock -> Thread \cup {Free}]
  BY <1>2 DEF Inv, TypeInv
<1> QED  BY <1>1, <1>2, <1>3, <1>4, <1>5, <1>6, Quiet

\* An operation returns.
LEMMA ReturnKeeps ==
  ASSUME Inv, NEW t \in Thread, Return(t)
  PROVE  Inv'
<1>1. Moves(t) /\ th'[t].pc = "idle"
  BY ReturnMoves DEF Inv, Idle
<1>2. UNCHANGED <<work, mem, lock, rootPtr, next, posted, gRoot, msgs, cache,
                  ops>>
  BY DEF Return
<1>3. ~Busy(t)' /\ ~Pending(t)'
  BY <1>1 DEF Busy, Pending, Carries
<1>4. LockInv'
  BY <1>1, <1>2, LockUntouched
<1>5. cache' = [n \in Node |-> cache'[n]] /\ CacheInv'
  BY <1>2, SameGrows, CachesSame
<1>6. ops' \in [Thread -> Nat] /\ lock' \in [Lock -> Thread \cup {Free}]
  BY <1>2 DEF Inv, TypeInv
<1> QED  BY <1>1, <1>2, <1>3, <1>4, <1>5, <1>6, Quiet

\* A client that starts again from a root, without a path.
LEMMA RestartPlaced ==
  ASSUME Inv, NEW t \in Thread, Busy(t), FromCache(t), NEW root, IsRoot(root),
         Restart(t, root), UNCHANGED <<mem, rootPtr>>
  PROVE  Moves(t) /\ th'[t].pc = "search" /\ Placed(t)' /\ PathDown(t)'
         /\ ~Pending(t)'
<1> DEFINE c == th[t]
           d == th'[t]
<1>1. /\ Moves(t) /\ d.pc = "search" /\ d.root = root /\ d.p = root
      /\ d.entry = NoEntry /\ Keeps(t, {"pc", "root", "p", "entry", "buf"})
  BY RestartMoves DEF Inv
<1>2. d.call = c.call /\ d.k = c.k /\ d.level = c.level /\ d.path = c.path
  BY <1>1 DEF Keeps, Fields
<1>3. /\ Placed(t) /\ c.level = 0 /\ c.path = NoPath
      /\ kKeyMin < c.k /\ c.k \in Int
  BY AtPage DEF Placed
<1>4. IsRoot(root)' /\ Live' = Live /\ root \in Live
      /\ Low(root)' = kKeyMin
  BY SameGrows, RootKept DEF Live, IsRoot
<1>5. ~FromCache(t)' /\ ~Carries(t)' /\ ~Pending(t)'
  BY <1>1, <1>2, <1>3 DEF FromCache, Carries, Pending
<1>6. Placed(t)'
  BY <1>1, <1>2, <1>3, <1>4, <1>5, KeyInts DEF Placed
<1>7. PathDown(t)'
  BY <1>2, <1>3 DEF PathDown, NoPath, PathLevel
<1> QED  BY <1>1, <1>5, <1>6, <1>7

\* search finds that the leaf the cache named is not the key's any more.
LEMMA StaleSearchKeeps ==
  ASSUME Inv, NEW t \in Thread, StaleSearch(t)
  PROVE  Inv'
<1>0. Busy(t) /\ FromCache(t) /\ Restart(t, th[t].root) /\ IsRoot(th[t].root)
  BY AtPage DEF StaleSearch, Reads, At, Busy, Placed
<1>1. UNCHANGED <<work, mem, lock, rootPtr, next, posted, gRoot, msgs, ops>>
  BY DEF StaleSearch, hist
<1>2. /\ Moves(t) /\ th'[t].pc = "search" /\ Placed(t)' /\ PathDown(t)'
      /\ ~Pending(t)'
  BY <1>0, <1>1, RestartPlaced
<1>3. LockInv'
  BY <1>1, <1>2, LockUntouched
<1>4. cache' = [n \in Node |-> cache'[n]] /\ CacheInv'
  BY <1>0, <1>1, SameGrows, CachesCleared, TreeAssumption DEF Restart
<1>5. ops' \in [Thread -> Nat] /\ lock' \in [Lock -> Thread \cup {Free}]
  BY <1>1 DEF Inv, TypeInv
<1> QED  BY <1>1, <1>2, <1>3, <1>4, <1>5, Quiet

\* The type of the locks, when one is released.
LEMMA LockTypeReleased ==
  ASSUME Inv, NEW p, Release(p)
  PROVE  lock' \in [Lock -> Thread \cup {Free}]
BY DEF Inv, TypeInv, Release

\* insert or del finds the same under the lock.
LEMMA StaleStoreKeeps ==
  ASSUME Inv, NEW t \in Thread, StaleStore(t)
  PROVE  Inv'
<1>0. /\ th[t].pc = "modify" /\ Busy(t) /\ FromCache(t)
      /\ Restart(t, RootFor(NodeOf[t])) /\ Release(th[t].p)
  BY DEF StaleStore, At, Busy
<1>1. UNCHANGED <<work, mem, rootPtr, next, posted, gRoot, msgs, ops>>
  BY DEF StaleStore, hist
<1>2. /\ Moves(t) /\ th'[t].pc = "search" /\ Placed(t)' /\ PathDown(t)'
      /\ ~Pending(t)'
  BY <1>0, <1>1, RestartPlaced, RootForIsRoot, TreeAssumption
<1>3. LockInv'
  BY <1>0, <1>1, <1>2, LockReleased
<1>4. cache' = [n \in Node |-> cache'[n]] /\ CacheInv'
  BY <1>0, <1>1, SameGrows, CachesCleared, TreeAssumption DEF Restart
<1>5. ops' \in [Thread -> Nat] /\ lock' \in [Lock -> Thread \cup {Free}]
  BY <1>0, <1>1, LockTypeReleased DEF Inv, TypeInv
<1> QED  BY <1>1, <1>2, <1>3, <1>4, <1>5, Quiet

\* A client that keeps its page and its key stays placed.
LEMMA SamePlace ==
  ASSUME Inv, NEW t \in Thread, Busy(t), UNCHANGED <<mem, rootPtr, gRoot>>,
         th[t].pc = "store", th'[t].pc = "modify", Keeps(t, {"pc", "buf"})
  PROVE  /\ Placed(t)' /\ PathDown(t)'
         /\ Pending(t)' => Pending(t) /\ th'[t].v = th[t].v /\ Fresh(t)'
<1> DEFINE c == th[t]
           d == th'[t]
<1>1. /\ d.call = c.call /\ d.k = c.k /\ d.v = c.v /\ d.root = c.root
      /\ d.level = c.level /\ d.entry = c.entry /\ d.path = c.path
      /\ d.p = c.p
  BY DEF Keeps, Fields
<1>2. Grows /\ Live' = Live /\ \A a : Low(a)' = Low(a) /\ Lev(a)' = Lev(a)
  BY SameGrows DEF Live, Low, Lev
<1>3. Placed(t) /\ PathDown(t)
  BY AtPage
<1>4. /\ IsRoot(c.root)' /\ ~Carries(t) /\ ~Carries(t)'
      /\ FromCache(t)' <=> FromCache(t)
  BY <1>1, <1>2, <1>3, RootKept DEF Placed, FromCache, Carries
<1>5. CacheOn(NodeOf[t])' <=> CacheOn(NodeOf[t])
  BY DEF CacheOn
<1>6. Placed(t)'
  BY <1>1, <1>2, <1>3, <1>4, <1>5 DEF Placed
<1>7. PathDown(t)'
  BY <1>1, <1>2, <1>3 DEF PathDown
<1>8. ASSUME Pending(t)'  PROVE Pending(t) /\ d.v = c.v /\ Fresh(t)'
  <2>1. Pending(t)
    BY <1>1, <1>4, <1>8 DEF Pending, Busy
  <2>2. Fresh(t)
    BY <2>1 DEF Inv, PendingInv
  <2> QED  BY <1>1, <1>2, <1>4, <2>1, <2>2 DEF Fresh, PendingLevel
<1> QED  BY <1>6, <1>7, <1>8

\* A client takes the lock of a page and reads the page.
LEMMA LockAndReadKeeps ==
  ASSUME Inv, NEW t \in Thread, LockAndRead(t)
  PROVE  Inv'
<1> DEFINE c == th[t]
           d == th'[t]
<1>0. c.pc = "store" /\ Busy(t) /\ lock[LockOf[c.p]] = Free
  BY DEF LockAndRead, At, Busy, LockFree
<1>1. /\ Moves(t) /\ d.pc = "modify" /\ d.buf = mem[c.p]
      /\ Keeps(t, {"pc", "buf"})
  BY LockAndReadMoves DEF Inv
<1>2. UNCHANGED <<work, mem, rootPtr, next, posted, gRoot, msgs, cache, ops>>
  BY DEF LockAndRead, others, hist
<1>3. /\ Placed(t)' /\ PathDown(t)'
      /\ Pending(t)' => Pending(t) /\ th'[t].v = th[t].v /\ Fresh(t)'
  BY <1>0, <1>1, <1>2, SamePlace
<1>4. /\ lock' = [lock EXCEPT ![LockOf[c.p]] = t]
      /\ lock \in [Lock -> Thread \cup {Free}]
  BY DEF LockAndRead, Inv, TypeInv
<1>5. c.p \in Addr /\ LockOf[c.p] \in Lock /\ d.p = c.p
  BY <1>0, <1>1, AtPage DEF Lock, Keeps, Fields
<1>6. LockInv'
  <2>1. \A u \in Thread : th[u].pc = "modify" =>
          LockOf[th[u].p] # LockOf[c.p] /\ u # Free
    BY <1>0, TreeAssumption DEF Inv, LockInv
  <2>2. \A w \in posted : /\ LockOf[w.addr] # LockOf[c.p]
                          /\ LockOf[w.addr] \in Lock
    BY <1>0, TreeAssumption DEF Inv, LockInv, TypeInv, IsWrite, Lock
  <2>3. ASSUME NEW u \in Thread, u # t, th'[u].pc = "modify"
        PROVE  /\ lock'[LockOf[th'[u].p]] = u
               /\ th'[u].buf = mem'[th'[u].p]
               /\ \A w \in posted' : LockOf[w.addr] # LockOf[th'[u].p]
    <3>1. th'[u] = th[u]
      BY <1>1, <2>3 DEF Moves
    <3>2. LockOf[th[u].p] \in Lock
      BY <2>3, <3>1, AtPage DEF Busy, Lock
    <3> QED  BY <1>2, <1>4, <2>1, <2>3, <3>1, <3>2 DEF Inv, LockInv
  <2>4. /\ lock'[LockOf[th'[t].p]] = t
        /\ th'[t].buf = mem'[th'[t].p]
        /\ \A w \in posted' : LockOf[w.addr] # LockOf[th'[t].p]
    BY <1>1, <1>2, <1>4, <1>5, <2>2
  <2>5. \A w \in posted : lock'[LockOf[w.addr]] = w.t
    BY <1>4, <2>2 DEF Inv, LockInv
  <2> QED  BY <1>2, <2>3, <2>4, <2>5 DEF Inv, LockInv
<1>7. cache' = [n \in Node |-> cache'[n]] /\ CacheInv'
  BY <1>2, SameGrows, CachesSame
<1>8. ops' \in [Thread -> Nat] /\ lock' \in [Lock -> Thread \cup {Free}]
  BY <1>2, <1>4 DEF Inv, TypeInv
<1> QED  BY <1>1, <1>2, <1>3, <1>6, <1>7, <1>8, Quiet

\* What a client that holds a page's lock knows of it.
LEMMA HoldsPage ==
  ASSUME Inv, NEW t \in Thread, th[t].pc = "modify"
  PROVE  LET c == th[t] IN
         /\ Busy(t) /\ Placed(t) /\ c.buf = mem[c.p]
         /\ c.p \in Live /\ c.p \in Addr
         /\ IsPageRecord(c.buf) /\ Linked(mem, c.buf)
         /\ c.buf.level = c.level /\ c.buf.lowest = Low(c.p)
         /\ c.buf.level = Lev(c.p)
         /\ c.level \in Nat /\ c.level \in Level
         /\ c.buf.lowest \in Int /\ c.buf.highest \in Int
         /\ c.buf.lowest <= c.k
         /\ c.k \in Int /\ c.k \in KeyRange
         /\ kKeyMin < c.k /\ c.k < kKeyMax
         /\ \A w \in posted : w.addr # c.p
<1>1. Busy(t) /\ th[t].buf = mem[th[t].p] /\ \A w \in posted : w.addr # th[t].p
  BY DEF Busy, Inv, LockInv
<1> QED  BY <1>1, AtPage DEF Placed

\* A client unlocks a page and goes to its sibling.
LEMMA MoveRightKeeps ==
  ASSUME Inv, NEW t \in Thread, MoveRight(t)
  PROVE  Inv'
<1> DEFINE c == th[t]
           d == th'[t]
           x == c.buf.sibling
<1>0. c.pc = "modify" /\ ~FromCache(t) /\ c.k >= c.buf.highest
  BY DEF MoveRight, At
<1>1. /\ Moves(t) /\ d.pc = "store" /\ d.p = x /\ Keeps(t, {"pc", "p"})
  BY MoveRightMoves DEF Inv
<1>2. /\ d.call = c.call /\ d.k = c.k /\ d.v = c.v /\ d.root = c.root
      /\ d.level = c.level /\ d.entry = c.entry /\ d.path = c.path
  BY <1>1 DEF Keeps, Fields
<1>3. UNCHANGED <<work, mem, rootPtr, next, posted, gRoot, msgs, cache, ops>>
  BY DEF MoveRight, others, hist
<1>4. Grows /\ Live' = Live /\ \A a : Low(a)' = Low(a) /\ Lev(a)' = Lev(a)
  BY <1>3, SameGrows DEF Live, Low, Lev
<1>5. /\ Busy(t) /\ Placed(t) /\ c.p \in Live
      /\ IsPageRecord(c.buf) /\ Linked(mem, c.buf)
      /\ c.buf.level = c.level /\ c.buf.lowest = Low(c.p)
      /\ c.buf.level = Lev(c.p)
      /\ c.buf.lowest \in Int /\ c.buf.highest \in Int
      /\ c.k \in Int /\ c.k < kKeyMax
  BY <1>0, HoldsPage
<1>6. x \in Live /\ Lev(x) = Lev(c.p) /\ Low(x) = c.buf.highest
  BY <1>0, <1>5, SiblingLive, KeyInts
<1>7. Low(c.p) < Low(x) /\ Low(x) <= c.k /\ Low(x) \in Int
  BY <1>0, <1>5, <1>6 DEF Linked
<1>8. Placed(t)'
  <2>1. IsRoot(c.root)' /\ ~FromCache(t)' /\ ~Carries(t)'
    BY <1>0, <1>1, <1>2, <1>4, <1>5, RootKept DEF Placed, FromCache, Carries
  <2> QED  BY <1>1, <1>2, <1>4, <1>5, <1>6, <1>7, <2>1 DEF Placed
<1>9. PathDown(t)'
  <2>1. PathDown(t)
    BY <1>5, AtPage
  <2>2. \A l \in PathLevel : c.path[l] # Null => Low(c.path[l]) \in Int
    BY <2>1, LiveTypes DEF PathDown
  <2>3. \A l \in PathLevel : l > Lev(x) /\ c.path[l] # Null =>
          Low(c.path[l]) <= Low(x)
    BY <1>5, <1>6, <1>7, <2>1, <2>2 DEF PathDown
  <2> QED  BY <1>1, <1>2, <1>4, <1>6, <2>1, <2>3 DEF PathDown
<1>10. ASSUME Pending(t)'  PROVE Pending(t) /\ d.v = c.v /\ Fresh(t)'
  <2>1. Pending(t) /\ ~Carries(t) /\ ~Carries(t)'
    BY <1>0, <1>1, <1>2, <1>10 DEF Pending, Busy, Carries
  <2>2. Fresh(t)
    BY <2>1 DEF Inv, PendingInv
  <2> QED  BY <1>2, <1>4, <2>1, <2>2 DEF Fresh, PendingLevel
<1>11. LockInv'
  BY <1>0, <1>1, <1>3, LockReleased DEF MoveRight
<1>12. cache' = [n \in Node |-> cache'[n]] /\ CacheInv'
  BY <1>3, <1>4, CachesSame
<1>13. ops' \in [Thread -> Nat] /\ lock' \in [Lock -> Thread \cup {Free}]
  BY <1>3, LockTypeReleased DEF Inv, TypeInv, MoveRight
<1> QED
  BY <1>1, <1>3, <1>8, <1>9, <1>10, <1>11, <1>12, <1>13, Quiet

\* The separator goes to the page above, of the path stack.
LEMMA StoreUpKeeps ==
  ASSUME Inv, NEW t \in Thread, StoreUp(t)
  PROVE  Inv'
<1> DEFINE c == th[t]
           d == th'[t]
           x == c.path[c.level + 1]
<1>0. Carries(t) /\ Busy(t) /\ Pending(t) /\ x # Null
  BY DEF StoreUp, Splitting, At, Carries, Busy, Pending, UpLevel
<1>1. /\ Placed(t) /\ PathDown(t) /\ c.p \in Live /\ c.k \in Int
  BY <1>0, AtPage
<1>2. c.level \in Level /\ c.level \in Nat /\ c.level + 1 \in PathLevel
  BY ThreadRecordElim, TreeAssumption DEF Inv, Level, PathLevel
<1>3. /\ x \in Live /\ Lev(x) = c.level + 1 /\ Low(x) <= Low(c.p)
      /\ Lev(c.p) = c.level /\ Low(c.p) < c.k
  BY <1>0, <1>1, <1>2 DEF PathDown, Placed, Carries
<1>4. Low(x) \in Int /\ Low(c.p) \in Int /\ c.level + 1 \in Level
  BY <1>1, <1>3, LiveTypes
<1>5. /\ Moves(t) /\ d.pc = "store" /\ d.p = x /\ d.level = c.level + 1
      /\ Keeps(t, {"pc", "p", "level"})
  BY <1>4, StoreUpMoves DEF Inv, UpLevel
<1>6. /\ d.call = c.call /\ d.k = c.k /\ d.v = c.v /\ d.root = c.root
      /\ d.entry = c.entry /\ d.path = c.path
  BY <1>5 DEF Keeps, Fields
<1>7. UNCHANGED <<work, mem, lock, rootPtr, next, posted, gRoot, msgs, cache,
                  ops>>
  BY DEF StoreUp, others, hist
<1>8. Grows /\ Live' = Live /\ \A a : Low(a)' = Low(a) /\ Lev(a)' = Lev(a)
  BY <1>7, SameGrows DEF Live, Low, Lev
<1>9. Placed(t)'
  <2>1. ~FromCache(t)
    BY <1>0, <1>1, <1>2 DEF Placed, NoPath, PathLevel
  <2>2. IsRoot(c.root)' /\ ~FromCache(t)' /\ ~Carries(t)'
    BY <1>1, <1>5, <1>6, <1>8, <2>1, RootKept DEF Placed, FromCache, Carries
  <2>3. c.call.op = "insert" /\ Low(x) <= c.k
    BY <1>0, <1>1, <1>3, <1>4 DEF Placed
  <2> QED  BY <1>1, <1>3, <1>5, <1>6, <1>8, <2>2, <2>3 DEF Placed
<1>10. PathDown(t)'
  <2>1. \A l \in PathLevel : l > Lev(x) => l > Lev(c.p) /\ l > c.level + 1
    BY <1>2, <1>3 DEF PathLevel
  <2>2. \A l \in PathLevel : l > Lev(x) /\ c.path[l] # Null =>
          Low(c.path[l]) <= Low(x)
    BY <1>0, <1>1, <1>2, <1>3, <2>1 DEF PathDown
  <2> QED  BY <1>1, <1>5, <1>6, <1>8, <2>1, <2>2 DEF PathDown
<1>11. Pending(t) /\ d.v = c.v /\ Fresh(t)'
  <2>1. Fresh(t)
    BY <1>0 DEF Inv, PendingInv
  <2>2. ~Carries(t)'
    BY <1>5 DEF Carries
  <2> QED  BY <1>0, <1>2, <1>5, <1>6, <1>8, <2>1, <2>2 DEF Fresh, PendingLevel
<1>12. LockInv'
  BY <1>5, <1>7, LockUntouched
<1>13. cache' = [n \in Node |-> cache'[n]] /\ CacheInv'
  BY <1>7, <1>8, CachesSame
<1>14. ops' \in [Thread -> Nat] /\ lock' \in [Lock -> Thread \cup {Free}]
  BY <1>7 DEF Inv, TypeInv
<1> QED
  BY <1>5, <1>7, <1>9, <1>10, <1>11, <1>12, <1>13, <1>14, Quiet

\* The separator goes to a page that a descent from a root will find.
LEMMA InsertInternalKeeps ==
  ASSUME Inv, NEW t \in Thread, InsertInternal(t)
  PROVE  Inv'
<1> DEFINE c == th[t]
           d == th'[t]
           x == RootFor(NodeOf[t])
<1>0. Carries(t) /\ Busy(t) /\ Pending(t) /\ FromCache(t) /\ NodeOf[t] \in Node
  BY TreeAssumption
     DEF InsertInternal, Splitting, At, Carries, Busy, Pending
<1>1. /\ Placed(t) /\ c.k \in Int /\ kKeyMin < c.k
      /\ c.level = 0 /\ c.path = NoPath /\ c.call.op = "insert"
  BY <1>0, AtPage DEF Placed
<1>2. IsRoot(x) /\ Lev(x) >= 2 /\ 1 \in Level
  BY <1>0, <1>1, RootForIsRoot DEF Placed
<1>3. /\ Moves(t) /\ d.pc = "search" /\ d.level = 1 /\ d.root = x /\ d.p = x
      /\ d.entry = NoEntry
      /\ Keeps(t, {"pc", "level", "root", "p", "entry"})
  <2>1. c.level + 1 = 1
    BY <1>1
  <2> QED  BY <1>2, <2>1, InsertInternalMoves DEF Inv
<1>4. d.call = c.call /\ d.k = c.k /\ d.v = c.v /\ d.path = c.path
  BY <1>3 DEF Keeps, Fields
<1>5. UNCHANGED <<work, mem, lock, rootPtr, next, posted, gRoot, msgs, cache,
                  ops>>
  BY DEF InsertInternal, others, hist
<1>6. Grows /\ Live' = Live /\ \A a : Low(a)' = Low(a) /\ Lev(a)' = Lev(a)
  BY <1>5, SameGrows DEF Live, Low, Lev
<1>7. ~FromCache(t)' /\ ~Carries(t)'
  BY <1>3 DEF FromCache, Carries
<1> HIDE DEF x
<1>8. IsRoot(x) /\ x \in Live /\ Low(x) = kKeyMin /\ Lev(x) \in Nat
  BY <1>2, LiveTypes DEF IsRoot
<1>9. Placed(t)'
  <2>1. IsRoot(th[t].root)'
    BY <1>3, <1>6, <1>8 DEF IsRoot
  <2> QED  BY <1>1, <1>2, <1>3, <1>4, <1>6, <1>7, <1>8, <2>1, KeyInts
           DEF Placed
<1>10. PathDown(t)'
  BY <1>1, <1>4 DEF PathDown, NoPath, PathLevel
<1>11. Pending(t) /\ d.v = c.v /\ Fresh(t)'
  <2>1. Fresh(t)
    BY <1>0 DEF Inv, PendingInv
  <2> QED  BY <1>0, <1>1, <1>3, <1>4, <1>6, <1>7, <2>1 DEF Fresh, PendingLevel
<1>12. LockInv'
  BY <1>3, <1>5, LockUntouched
<1>13. cache' = [n \in Node |-> cache'[n]] /\ CacheInv'
  BY <1>5, <1>6, CachesSame
<1>14. ops' \in [Thread -> Nat] /\ lock' \in [Lock -> Thread \cup {Free}]
  BY <1>5 DEF Inv, TypeInv
<1> QED
  BY <1>3, <1>5, <1>9, <1>10, <1>11, <1>12, <1>13, <1>14, Quiet

\* The operations of a workload.
LEMMA CallIsOperation ==
  ASSUME Inv, NEW t \in Thread, ops[t] < Len(Calls(t)),
         NEW c \in Calls(t)[ops[t] + 1]
  PROVE  /\ c.op \in {"insert", "search", "del"} /\ c.k \in Key
         /\ c.k \in kKeyMin + 1..kKeyMax - 1
<1> DEFINE w == Workloads[work]
<1>1. work \in DOMAIN Workloads /\ ops[t] \in Nat
  BY DEF Inv, TypeInv
<1>2. /\ Len(w.calls[t]) \in Nat
      /\ \A i \in 1..Len(w.calls[t]) : \A x \in w.calls[t][i] :
           x.op \in {"insert", "search", "del"} /\ x.k \in Key
  BY <1>1, WorkloadAssumption
<1>3. ops[t] + 1 \in 1..Len(w.calls[t]) /\ c \in w.calls[t][ops[t] + 1]
  BY <1>1, <1>2 DEF Calls
<1>4. c.op \in {"insert", "search", "del"} /\ c.k \in Key
  BY <1>2, <1>3
<1> QED  BY <1>4, TreeAssumption

\* A cache hit names a leaf of the tree that begins at or before the key.
LEMMA HitPlaced ==
  ASSUME Inv, NEW n \in Node, NEW k \in KeyRange,
         NEW e \in search_from_cache(cache[n], k)
  PROVE  LET c == ChildFor(e.page, k) IN
         c \in Live /\ Lev(c) = 0 /\ Low(c) <= k
<1>1. e \in cache[n] /\ e.page # NoPage /\ e.from <= k
  BY DEF search_from_cache, find_entry
<1>2. Copy(e)
  BY <1>1 DEF Inv, CacheInv
<1>3. ~IsLeaf(e.page)
  BY <1>2, LeafLevel DEF Copy
<1>4. /\ ChildFor(e.page, k) \in Live
      /\ Lev(ChildFor(e.page, k)) = e.page.level - 1
      /\ Low(ChildFor(e.page, k)) <= k
  BY <1>1, <1>2, <1>3, ChildLive DEF Copy
<1> QED  BY <1>2, <1>4 DEF Copy

\* An operation begins.
LEMMA StartKeeps ==
  ASSUME Inv, NEW t \in Thread, Start(t)
  PROVE  Inv'
<1> DEFINE d == th'[t]
           n == NodeOf[t]
           r == RootFor(n)
<1>0. n \in Node /\ ops[t] < Len(Calls(t)) /\ ops' = [ops EXCEPT ![t] = @ + 1]
  BY TreeAssumption DEF Start
<1>1. UNCHANGED <<work, mem, lock, rootPtr, next, posted, gRoot, msgs, cache>>
  BY DEF Start
<1>2. Grows /\ Live' = Live /\ \A a : Low(a)' = Low(a) /\ Lev(a)' = Lev(a)
  BY <1>1, SameGrows DEF Live, Low, Lev
<1>3. Moves(t)
  BY StartMoves DEF Inv
<1>4. PICK c \in Calls(t)[ops[t] + 1] :
        \/ /\ Begun(t, c, r, r, "search")
           /\ d.entry = NoEntry
        \/ /\ CacheOn(n)
           /\ \E e \in search_from_cache(cache[n], c.k) :
                Begun(t, c, r, ChildFor(e.page, c.k),
                      IF c.op = "search" THEN "search" ELSE "store")
  BY StartMoves DEF Inv
<1>5. /\ c.op \in {"insert", "search", "del"}
      /\ c.k \in kKeyMin + 1..kKeyMax - 1
      /\ c.k \in Int /\ kKeyMin <= c.k /\ c.k \in KeyRange
  BY <1>0, CallIsOperation, KeyInts DEF KeyRange
<1>6. IsRoot(r)
  BY <1>0, RootForIsRoot
<1>7. PICK x \in Live :
        /\ d.call = c /\ d.k = c.k /\ d.root = r /\ d.p = x /\ d.level = 0
        /\ d.path = NoPath /\ Low(x) <= c.k
        /\ d.pc \in {"search", "store"}
        /\ d.pc = "store" => Lev(x) = 0
        /\ d.entry # NoEntry =>
             /\ Lev(x) = 0 /\ CacheOn(n)
             /\ d.pc = "search" => c.op = "search"
  <2>1. CASE Begun(t, c, r, r, "search") /\ d.entry = NoEntry
    BY <1>5, <1>6, <2>1 DEF Begun, IsRoot
  <2>2. CASE /\ CacheOn(n)
             /\ \E e \in search_from_cache(cache[n], c.k) :
                  Begun(t, c, r, ChildFor(e.page, c.k),
                        IF c.op = "search" THEN "search" ELSE "store")
    <3>1. PICK e \in search_from_cache(cache[n], c.k) :
            Begun(t, c, r, ChildFor(e.page, c.k),
                  IF c.op = "search" THEN "search" ELSE "store")
      BY <2>2
    <3>2. /\ ChildFor(e.page, c.k) \in Live
          /\ Lev(ChildFor(e.page, c.k)) = 0
          /\ Low(ChildFor(e.page, c.k)) <= c.k
      BY <1>0, <1>5, HitPlaced
    <3> QED  BY <2>2, <3>1, <3>2 DEF Begun
  <2> QED  BY <1>4, <2>1, <2>2
<1>8. ~Carries(t)' /\ ~Pending(t)' /\ CacheOn(n)' = CacheOn(n)
  BY <1>1, <1>7 DEF Carries, Pending, CacheOn
<1> HIDE DEF r
<1>9. Placed(t)'
  <2>1. IsRoot(th[t].root)'
    BY <1>2, <1>6, <1>7 DEF IsRoot
  <2>2. FromCache(t)' => d.entry # NoEntry
    BY DEF FromCache
  <2> QED  BY <1>2, <1>5, <1>7, <1>8, <2>1, <2>2 DEF Placed
<1>10. PathDown(t)'
  BY <1>7 DEF PathDown, NoPath, PathLevel
<1>11. LockInv'
  BY <1>1, <1>3, <1>7, LockUntouched
<1>12. cache' = [m \in Node |-> cache'[m]] /\ CacheInv'
  BY <1>1, <1>2, CachesSame
<1>13. ops' \in [Thread -> Nat] /\ lock' \in [Lock -> Thread \cup {Free}]
  BY <1>0, <1>1 DEF Inv, TypeInv
<1> QED
  BY <1>1, <1>3, <1>8, <1>9, <1>10, <1>11, <1>12, <1>13, Quiet

\* A step that touches none of this.
LEMMA StutterKeeps ==
  ASSUME Inv, UNCHANGED <<work, mem, lock, rootPtr, next, posted, gRoot, msgs,
                          cache, th, ops>>
  PROVE  Inv'
<1>0. TypeInv' /\ PagesInv'
  BY DEF Inv, TypeInv, PagesInv, IsPage
<1>1. PostedInv' /\ DisjointInv'
  BY DEF Inv, PostedInv, DisjointInv, Live, Low, Lev, LeftOf
<1>2. RootInv' /\ LockInv'
  BY DEF Inv, RootInv, IsRoot, Live, Low, Lev, LockInv
<1>3. ThreadInv' /\ PathInv'
  BY DEF Inv, ThreadInv, PathInv, Busy, Placed, PathDown, IsRoot, Live, Low,
         Lev, Carries, FromCache, CacheOn
<1>4. PendingInv'
  BY DEF Inv, PendingInv, Pending, Carries, Busy, Fresh, PendingLevel, Orphan,
         Live, Low, Lev
<1>5. CacheInv'
  BY DEF Inv, CacheInv, Copy, Live
<1> QED  BY <1>0, <1>1, <1>2, <1>3, <1>4, <1>5 DEF Inv

\* A node's directory takes a NEW_ROOT message, or the message is lost.
LEMMA MessageKeeps ==
  ASSUME Inv, NEW m \in msgs, DirNewRoot(m) \/ LoseMessage(m)
  PROVE  Inv'
<1>1. /\ UNCHANGED <<work, mem, lock, rootPtr, next, posted, cache, th, ops>>
      /\ msgs' = msgs \ {m}
  BY DEF DirNewRoot, LoseMessage, others, hist
<1>2. \/ gRoot' = gRoot
      \/ /\ gRoot[m.to].level < m.level
         /\ gRoot' = [gRoot EXCEPT ![m.to] =
                        [ptr |-> m.addr, level |-> m.level]]
  BY DEF DirNewRoot, LoseMessage, TakesRoot
<1>3. /\ gRoot \in [Node -> [ptr : Addr \cup {Null}, level : Level \cup {-1}]]
      /\ m \in [to : Node, addr : Addr, level : Level]
      /\ IsRoot(m.addr) /\ Lev(m.addr) = m.level
  BY DEF Inv, TypeInv, RootInv
<1>4. Grows /\ Live' = Live /\ \A a : Low(a)' = Low(a) /\ Lev(a)' = Lev(a)
  BY <1>1, SameGrows DEF Live, Low, Lev
<1>5. CachesStayOn
  <2> SUFFICES ASSUME NEW n \in Node, CacheOn(n)
               PROVE  CacheOn(n)'
    BY DEF CachesStayOn
  <2>1. gRoot[n].level \in Int /\ m.level \in Int /\ kCacheLevel \in Int
    BY <1>3, TreeAssumption DEF Level
  <2>2. gRoot'[n].level >= gRoot[n].level /\ gRoot'[n].level \in Int
    BY <1>2, <1>3, <2>1
  <2> QED  BY <2>1, <2>2 DEF CacheOn
<1>6. gRoot' \in [Node -> [ptr : Addr \cup {Null}, level : Level \cup {-1}]]
  BY <1>2, <1>3
<1>7. TypeInv'
  BY <1>1, <1>6 DEF Inv, TypeInv
<1>8. PagesInv' /\ PostedInv' /\ DisjointInv' /\ LockInv'
  BY <1>1 DEF Inv, PagesInv, IsPage, PostedInv, DisjointInv, Live, Low, Lev,
              LeftOf, LockInv
<1>9. RootInv'
  <2>1. \A a : IsRoot(a)' <=> IsRoot(a)
    BY <1>4 DEF IsRoot
  <2>2. \A n \in Node :
          \/ gRoot'[n] = gRoot[n]
          \/ gRoot'[n].ptr = m.addr /\ gRoot'[n].level = m.level
    BY <1>2, <1>3
  <2>3. \A n \in Node :
          \/ gRoot'[n].ptr = Null /\ gRoot'[n].level = -1
          \/ /\ IsRoot(gRoot'[n].ptr)
             /\ Lev(gRoot'[n].ptr) = gRoot'[n].level
    BY <1>3, <2>2 DEF Inv, RootInv
  <2>4. \A x \in msgs' : IsRoot(x.addr) /\ Lev(x.addr) = x.level
    BY <1>1 DEF Inv, RootInv
  <2>5. /\ IsRoot(rootPtr) /\ IsRoot(FirstLeaf) /\ Lev(FirstLeaf) = 0
        /\ \A a \in Live : Lev(a) <= Lev(rootPtr)
    BY DEF Inv, RootInv
  <2> QED  BY <1>1, <1>4, <2>1, <2>3, <2>4, <2>5 DEF RootInv
<1>10. ThreadInv' /\ PathInv'
  <2>1. ASSUME NEW u \in Thread, Busy(u)'
        PROVE  Placed(u)' /\ PathDown(u)'
    <3>1. Busy(u) /\ th'[u] = th[u]
      BY <1>1, <2>1 DEF Busy
    <3>2. Placed(u) /\ PathDown(u) /\ th[u].p \in Live
      BY <3>1, AtPage
    <3> QED  BY <1>4, <1>5, <3>1, <3>2, PlacedKept, PathKept
  <2> QED  BY <2>1 DEF ThreadInv, PathInv
<1>11. PendingInv'
  BY <1>1 DEF Inv, PendingInv, Pending, Carries, Busy, Fresh, PendingLevel,
              Orphan, Live, Low, Lev
<1>12. CacheInv'
  BY <1>1 DEF Inv, CacheInv, Copy, Live
<1> QED
  BY <1>7, <1>8, <1>9, <1>10, <1>11, <1>12 DEF Inv

-----------------------------------------------------------------------------
(* Steps that write pages                                                  *)

\* A page is not NoPage.
LEMMA PageIsPage ==
  ASSUME NEW q, IsPageRecord(q)
  PROVE  q # NoPage
<1>1. q.level \in Nat
  BY TreeAssumption DEF IsPageRecord, Level
<1>2. NoPage.level = -1
  BY DEF NoPage
<1> QED  BY <1>1, <1>2

\* What stays of memory when page p is overwritten in place by q.
LEMMA Overwritten ==
  ASSUME Inv, NEW p \in Live, NEW q, IsPageRecord(q), q.level = Lev(p),
         q.lowest = Low(p), q.leftmost = mem[p].leftmost,
         mem' = [mem EXCEPT ![p] = q], UNCHANGED rootPtr
  PROVE  /\ \A a : IsPageIn(mem', a) <=> IsPageIn(mem, a)
         /\ \A a \in Addr : a # p => mem'[a] = mem[a]
         /\ mem'[p] = q
         /\ mem' = [a \in Addr |-> mem'[a]]
         /\ Live' = Live
         /\ \A a \in Live : Low(a)' = Low(a) /\ Lev(a)' = Lev(a)
         /\ Grows
<1>1. /\ p \in Addr /\ IsPageIn(mem, p) /\ q # NoPage
      /\ mem = [a \in Addr |-> mem[a]]
  BY LivePage, PageIsPage DEF Inv, TypeInv, IsPage
<1>2. /\ mem'[p] = q
      /\ \A a \in Addr : a # p => mem'[a] = mem[a]
      /\ mem' = [a \in Addr |-> mem'[a]]
  BY <1>1
<1>3. \A a : IsPageIn(mem', a) <=> IsPageIn(mem, a)
  BY <1>1, <1>2 DEF IsPageIn
<1>4. \A a \in Addr : /\ mem'[a].level = mem[a].level
                      /\ mem'[a].lowest = mem[a].lowest
                      /\ mem'[a].leftmost = mem[a].leftmost
  BY <1>1, <1>2 DEF Low, Lev
<1>5. Live' = Live
  <2> DEFINE L(M, a) == \E b \in Addr : IsPageIn(M, b) /\ M[b].leftmost = a
  <2>1. \A a : L(mem', a) <=> L(mem, a)
    BY <1>3, <1>4
  <2> HIDE DEF L
  <2>2. \A M, r, a : a \in LiveIn(M, r) <=>
          a \in Addr /\ IsPageIn(M, a)
          /\ (M[a].lowest # kKeyMin \/ a = r \/ L(M, a))
    BY DEF LiveIn, L
  <2>3. \A a : a \in LiveIn(mem', rootPtr) <=> a \in LiveIn(mem, rootPtr)
    <3> SUFFICES ASSUME NEW a \in Addr
                 PROVE  a \in LiveIn(mem', rootPtr)
                          <=> a \in LiveIn(mem, rootPtr)
      BY <2>2
    <3>1. /\ IsPageIn(mem', a) <=> IsPageIn(mem, a)
          /\ mem'[a].lowest = mem[a].lowest
          /\ L(mem', a) <=> L(mem, a)
      BY <1>3, <1>4, <2>1
    <3>2. a \in LiveIn(mem', rootPtr) <=>
            IsPageIn(mem', a) /\ (mem'[a].lowest # kKeyMin \/ a = rootPtr
                                  \/ L(mem', a))
      BY <2>2
    <3>3. a \in LiveIn(mem, rootPtr) <=>
            IsPageIn(mem, a) /\ (mem[a].lowest # kKeyMin \/ a = rootPtr
                                 \/ L(mem, a))
      BY <2>2
    <3> QED  BY <3>1, <3>2, <3>3
  <2>4. LiveIn(mem', rootPtr) = LiveIn(mem, rootPtr)
    BY <2>3
  <2> QED  BY <2>4 DEF Live
<1>6. \A a \in Live : Low(a)' = Low(a) /\ Lev(a)' = Lev(a)
  BY <1>4, LivePage DEF Low, Lev
<1>7. Grows
  BY <1>3, <1>4, <1>5 DEF Grows, Live
<1> QED  BY <1>1, <1>2, <1>3, <1>5, <1>6, <1>7

\* The records of the page a client has locked are changed in place, and the
\* page is unlocked.
LEMMA StoredInPlace ==
  ASSUME Inv, NEW t \in Thread, th[t].pc = "modify", Moves(t),
         th'[t].pc = "return", NEW q, IsPageRecord(q), Linked(mem, q),
         q.level = Lev(th[t].p), q.lowest = Low(th[t].p),
         q.leftmost = mem[th[t].p].leftmost,
         q.highest = mem[th[t].p].highest,
         mem' = [mem EXCEPT ![th[t].p] = q], Release(th[t].p),
         UNCHANGED <<work, rootPtr, next, posted, gRoot, msgs, cache, ops>>,
         \A u \in Thread : u # t /\ Pending(u) => ~ChildOf(q, th[u].v)
  PROVE  Inv'
<1> DEFINE p == th[t].p
<1>0. p \in Live /\ p \in Addr
  BY HoldsPage
<1>1. /\ \A a : IsPageIn(mem', a) <=> IsPageIn(mem, a)
      /\ \A a \in Addr : a # p => mem'[a] = mem[a]
      /\ mem'[p] = q
      /\ mem' = [a \in Addr |-> mem'[a]]
      /\ Live' = Live
      /\ \A a \in Live : Low(a)' = Low(a) /\ Lev(a)' = Lev(a)
      /\ Grows
  BY <1>0, Overwritten
<1> HIDE DEF p
<1>2. CachesStayOn
  BY DEF CachesStayOn, CacheOn
<1>3. TypeInv'
  <2>1. \A u \in Thread : IsThreadRecord(th'[u])
    BY DEF Moves, Inv, TypeInv
  <2>2. lock' \in [Lock -> Thread \cup {Free}]
    BY LockTypeReleased
  <2> QED  BY <1>1, <2>1, <2>2 DEF Moves, Inv, TypeInv
<1>4. PagesInv'
  <2>1. \A a \in Addr : IsPageIn(mem', a) <=> a < next
    BY <1>1 DEF Inv, PagesInv, IsPage
  <2>2. ASSUME NEW a \in Addr, IsPageIn(mem', a)
        PROVE  IsPageRecord(mem'[a]) /\ Linked(mem, mem'[a])
    BY <1>0, <1>1, <2>2 DEF Inv, PagesInv, IsPage
  <2>3. ASSUME NEW a \in Addr, IsPageIn(mem', a)
        PROVE  Linked(mem', mem'[a])
    BY <1>1, <2>2, <2>3, LinkedKept
  <2> QED  BY <2>1, <2>2, <2>3 DEF PagesInv, IsPage
<1>5. PostedInv'
  <2> SUFFICES ASSUME NEW w \in posted
               PROVE  /\ w.addr \in Live'
                      /\ IsPageRecord(w.page)
                      /\ Linked(mem', w.page)
                      /\ w.page.level = mem'[w.addr].level
                      /\ w.page.lowest = mem'[w.addr].lowest
                      /\ w.page.leftmost = mem'[w.addr].leftmost
    BY DEF PostedInv, Low, Lev
  <2>1. w.addr # p /\ w.addr \in Addr
    BY HoldsPage DEF Inv, TypeInv, IsWrite, p
  <2>2. Linked(mem', w.page)
    BY <1>1, LinkedKept DEF Inv, PostedInv
  <2> QED  BY <1>1, <2>1, <2>2 DEF Inv, PostedInv, Low, Lev
<1>6. DisjointInv'
  <2>1. \A a \in Live : mem'[a].highest = mem[a].highest
    BY <1>0, <1>1, LivePage DEF p
  <2> QED  BY <1>1, <2>1 DEF Inv, DisjointInv, LeftOf
<1>7. RootInv'
  BY <1>1, RootsKept DEF Inv
<1>8. LockInv'
  BY <1>1, LockReleased DEF p
<1>9. ~Busy(t)' /\ ~Pending(t)'
  BY DEF Busy, Pending, Carries
<1>10. ThreadInv' /\ PathInv'
  BY <1>1, <1>2, <1>9, OthersPlaced
<1>11. PendingInv'
  <2>1. ASSUME NEW u \in Thread, u # t, Pending(u)
        PROVE  Orphan(th[u].v)'
    <3>1. th'[u] = th[u]
      BY <2>1 DEF Moves
    <3>2. Orphan(th[u].v) /\ ~ChildOf(q, th[u].v)
      BY <2>1 DEF Inv, PendingInv
    <3>3. \A a \in Live : mem'[a] = mem[a] \/ mem'[a] = q
      BY <1>1, LivePage
    <3> QED  BY <1>1, <3>1, <3>2, <3>3 DEF Orphan
  <2> QED  BY <1>1, <1>9, <2>1, OthersPending
<1>12. CacheInv'
  BY <1>1, CachesSame
<1> QED
  BY <1>3, <1>4, <1>5, <1>6, <1>7, <1>8, <1>10, <1>11, <1>12 DEF Inv

\* Linked, for a page that may be full.
Hangs(M, pg) ==
  /\ pg.lowest < pg.highest
  /\ \A k \in DOMAIN pg.recs : InPage(pg, k)
  /\ IF pg.highest = kKeyMax THEN pg.sibling = Null
     ELSE /\ IsPageIn(M, pg.sibling)
          /\ M[pg.sibling].level = pg.level
          /\ M[pg.sibling].lowest = pg.highest
  /\ IsLeaf(pg) <=> pg.level = 0
  /\ ~IsLeaf(pg) =>
       /\ IsPageIn(M, pg.leftmost)
       /\ M[pg.leftmost].level = pg.level - 1
       /\ M[pg.leftmost].lowest = pg.lowest
       /\ \A k \in DOMAIN pg.recs :
            /\ k > pg.lowest
            /\ IsPageIn(M, pg.recs[k])
            /\ M[pg.recs[k]].level = pg.level - 1
            /\ M[pg.recs[k]].lowest = k

Capacity(pg) ==
  IF IsLeaf(pg) THEN kLeafCardinality ELSE kInternalCardinality

\* Linked is Hangs and the number of records.
LEMMA LinkedHangs ==
  ASSUME NEW M, NEW pg
  PROVE  Linked(M, pg) <=>
           /\ Hangs(M, pg)
           /\ Cardinality(DOMAIN pg.recs) < Capacity(pg)
           /\ ~IsLeaf(pg) => DOMAIN pg.recs # {}
<1>1. (pg.level = 0) = IsLeaf(pg) <=> (IsLeaf(pg) <=> pg.level = 0)
  BY DEF IsLeaf
<1> QED  BY <1>1 DEF Linked, Hangs, Capacity

\* Two live pages of a level begin at different keys.
LEMMA LowUnique ==
  ASSUME Inv, NEW a \in Live, NEW b \in Live, Lev(a) = Lev(b), Low(a) = Low(b)
  PROVE  a = b
<1> SUFFICES ASSUME a # b PROVE FALSE
  OBVIOUS
<1>1. /\ Low(a) \in Int /\ Low(b) \in Int /\ mem[a].highest \in Int
      /\ Linked(mem, mem[a])
  BY LiveTypes
<1>2. LeftOf(a, b)
  BY <1>1 DEF LeftOf
<1>3. CASE \A w \in posted : w.addr # a
  <2>1. mem[a].highest <= Low(b)
    BY <1>2, <1>3 DEF Inv, DisjointInv
  <2> QED  BY <1>1, <2>1 DEF Linked, Low
<1>4. CASE \E w \in posted : w.addr = a
  <2>1. PICK w \in posted : w.addr = a
    BY <1>4
  <2>2. w.page.highest <= Low(b) /\ w.page.lowest = Low(a)
    BY <1>2, <2>1 DEF Inv, DisjointInv, PostedInv
  <2>3. IsPageRecord(w.page) /\ Linked(mem, w.page)
    BY DEF Inv, PostedInv
  <2>4. w.page.lowest < w.page.highest /\ w.page.highest \in Int
    BY <2>3, KeyInts DEF Linked, IsPageRecord
  <2> QED  BY <1>1, <2>2, <2>4
<1> QED  BY <1>3, <1>4

\* The separator a client stores is above the low fence of the page, and its
\* new page one level below.
LEMMA SeparatorFits ==
  ASSUME Inv, NEW t \in Thread, th[t].pc = "modify", ~IsLeaf(th[t].buf)
  PROVE  LET c == th[t] IN
         /\ Pending(t) /\ c.buf.lowest < c.k
         /\ IsPageIn(mem, c.v) /\ mem[c.v].level = c.buf.level - 1
         /\ mem[c.v].lowest = c.k /\ c.v \in Live /\ c.v \in Addr
<1> DEFINE c == th[t]
           x == c.buf.leftmost
<1>1. /\ Busy(t) /\ Placed(t) /\ c.buf = mem[c.p]
      /\ c.p \in Live
      /\ IsPageRecord(c.buf) /\ Linked(mem, c.buf)
      /\ c.buf.level = c.level /\ c.level \in Nat
      /\ c.buf.lowest \in Int /\ c.buf.lowest <= c.k /\ c.k \in Int
  BY HoldsPage
<1>2. c.level > 0
  BY <1>1, LeafLevel
<1>3. Pending(t) /\ ~Carries(t)
  BY <1>1, <1>2 DEF Pending, Carries
<1>4. Fresh(t) /\ Orphan(c.v)
  BY <1>3 DEF Inv, PendingInv
<1>5. c.v \in Live /\ Lev(c.v) = c.level - 1 /\ Low(c.v) = c.k
  BY <1>3, <1>4 DEF Fresh, PendingLevel
<1>6. x \in Live /\ Lev(x) = c.level - 1 /\ Low(x) = c.buf.lowest
  <2>1. x \in Live
    BY <1>1, LivePage, LeftmostLive DEF Inv
  <2> QED  BY <1>1, <2>1 DEF Linked, Low, Lev
<1>7. c.v # x
  BY <1>1, <1>4 DEF Orphan, ChildOf
<1>8. c.buf.lowest # c.k
  BY <1>5, <1>6, <1>7, LowUnique
<1>9. IsPageIn(mem, c.v) /\ c.v \in Addr
  BY <1>5, LivePage DEF IsPage
<1> QED  BY <1>1, <1>3, <1>5, <1>8, <1>9 DEF Low, Lev

\* The page with the record stored hangs together with memory.
LEMMA StoredHangs ==
  ASSUME Inv, NEW t \in Thread, th[t].pc = "modify",
         InPage(th[t].buf, th[t].k)
  PROVE  LET c == th[t]
             q == Stored(c.buf, c.k, c.v) IN
         /\ Hangs(mem, q) /\ IsPageRecord(q)
         /\ IsLeaf(q) <=> IsLeaf(c.buf)
         /\ q.level = c.buf.level /\ q.lowest = c.buf.lowest
         /\ q.highest = c.buf.highest /\ q.leftmost = c.buf.leftmost
         /\ q.sibling = c.buf.sibling
         /\ DOMAIN q.recs = DOMAIN c.buf.recs \cup {c.k}
         /\ \A x : ChildOf(q, x) => ChildOf(c.buf, x) \/ x = c.v
<1> DEFINE c == th[t]
           q == Stored(c.buf, c.k, c.v)
<1>1. /\ IsPageRecord(c.buf) /\ Linked(mem, c.buf) /\ c.k \in KeyRange
      /\ c.k \in Int
  BY HoldsPage
<1>2. Hangs(mem, c.buf)
  BY <1>1, LinkedHangs
<1>3. /\ q.level = c.buf.level /\ q.leftmost = c.buf.leftmost
      /\ q.sibling = c.buf.sibling /\ q.lowest = c.buf.lowest
      /\ q.highest = c.buf.highest
      /\ DOMAIN q.recs = DOMAIN c.buf.recs \cup {c.k}
      /\ q.recs[c.k] = c.v
      /\ \A j \in DOMAIN c.buf.recs : j # c.k => q.recs[j] = c.buf.recs[j]
      /\ IsPageRecord(q)
  BY <1>1, StoredFields
<1> HIDE DEF q
<1>4. IsLeaf(q) <=> IsLeaf(c.buf)
  BY <1>3 DEF IsLeaf
<1>5. ~IsLeaf(q) =>
        /\ c.buf.lowest < c.k
        /\ IsPageIn(mem, c.v) /\ mem[c.v].level = c.buf.level - 1
        /\ mem[c.v].lowest = c.k
  BY <1>4, SeparatorFits
<1>6. \A j \in DOMAIN q.recs : InPage(q, j)
  BY <1>2, <1>3 DEF Hangs, InPage
<1>7. ~IsLeaf(q) => \A j \in DOMAIN q.recs :
        /\ j > q.lowest
        /\ IsPageIn(mem, q.recs[j])
        /\ mem[q.recs[j]].level = q.level - 1
        /\ mem[q.recs[j]].lowest = j
  <2> SUFFICES ASSUME ~IsLeaf(q), NEW j \in DOMAIN q.recs
               PROVE  /\ j > q.lowest
                      /\ IsPageIn(mem, q.recs[j])
                      /\ mem[q.recs[j]].level = q.level - 1
                      /\ mem[q.recs[j]].lowest = j
    OBVIOUS
  <2>1. CASE j = c.k
    BY <1>1, <1>3, <1>5, <2>1, KeyInts DEF IsPageRecord
  <2>2. CASE j # c.k
    BY <1>2, <1>3, <1>4, <2>2 DEF Hangs
  <2> QED  BY <2>1, <2>2
<1>8. Hangs(mem, q)
  BY <1>2, <1>3, <1>4, <1>6, <1>7 DEF Hangs
<1>9. \A x : ChildOf(q, x) => ChildOf(c.buf, x) \/ x = c.v
  BY <1>3, <1>4 DEF ChildOf
<1> QED  BY <1>3, <1>4, <1>8, <1>9 DEF q

\* del clears a record.
LEMMA DeleteEntryKeeps ==
  ASSUME Inv, NEW t \in Thread, DeleteEntry(t)
  PROVE  Inv'
<1> DEFINE c == th[t]
           pg == mem[c.p]
           q == [pg EXCEPT !.recs = Only(pg.recs, DOMAIN pg.recs \ {c.k})]
<1>0. c.pc = "modify" /\ c.call.op = "del" /\ Release(c.p)
  BY DEF DeleteEntry, At
<1>1. /\ Placed(t) /\ c.p \in Live /\ c.p \in Addr
      /\ IsPageRecord(pg) /\ Linked(mem, pg) /\ pg.level = c.level
      /\ c.level \in Nat /\ pg.level = Lev(c.p) /\ pg.lowest = Low(c.p)
  BY <1>0, HoldsPage
<1>2. Moves(t) /\ th'[t].pc = "return"
  BY DeleteEntryMoves DEF Inv
<1>3. /\ UNCHANGED <<work, rootPtr, next, posted, gRoot, msgs, cache, ops>>
      /\ mem' = [mem EXCEPT ![c.p] = q]
  BY DEF DeleteEntry, others, hist
<1>4. q = [level |-> pg.level, leftmost |-> pg.leftmost,
           sibling |-> pg.sibling, lowest |-> pg.lowest,
           highest |-> pg.highest,
           recs |-> Only(pg.recs, DOMAIN pg.recs \ {c.k})]
  BY <1>1 DEF IsPageRecord
<1>5. /\ q.level = pg.level /\ q.leftmost = pg.leftmost
      /\ q.sibling = pg.sibling /\ q.lowest = pg.lowest
      /\ q.highest = pg.highest
      /\ q.recs = Only(pg.recs, DOMAIN pg.recs \ {c.k})
      /\ DOMAIN q.recs = DOMAIN pg.recs \ {c.k}
  BY <1>4 DEF Only
<1> HIDE DEF q
<1>6. IsPageRecord(q)
  BY <1>1, <1>4, <1>5 DEF IsPageRecord, Only
<1>7. IsLeaf(pg) /\ IsLeaf(q)
  <2>1. c.level = 0
    BY <1>0, <1>1 DEF Placed
  <2> QED  BY <1>1, <1>5, <2>1, LeafLevel DEF IsLeaf
<1>8. Cardinality(DOMAIN q.recs) < Capacity(q)
  <2>1. /\ IsFiniteSet(DOMAIN pg.recs) /\ Cardinality(DOMAIN pg.recs) \in Nat
        /\ Cardinality(DOMAIN q.recs) \in Nat
    BY <1>1, <1>6, FiniteKeys DEF IsPageRecord
  <2>2. Cardinality(DOMAIN q.recs) <= Cardinality(DOMAIN pg.recs)
    BY <1>5, <2>1, FS_Subset
  <2>3. Cardinality(DOMAIN pg.recs) < kLeafCardinality
    BY <1>1, <1>7 DEF Linked
  <2> QED  BY <1>7, <2>1, <2>2, <2>3, TreeAssumption DEF Capacity
<1>9. Linked(mem, q)
  <2>1. Hangs(mem, pg)
    BY <1>1, LinkedHangs
  <2>2. Hangs(mem, q)
    BY <1>5, <1>7, <2>1 DEF Hangs, InPage
  <2> QED  BY <1>7, <1>8, <2>2, LinkedHangs
<1>10. \A u \in Thread : u # t /\ Pending(u) => ~ChildOf(q, th[u].v)
  BY <1>7 DEF ChildOf
<1> QED
  BY <1>0, <1>1, <1>2, <1>3, <1>5, <1>6, <1>9, <1>10, StoredInPlace

\* insert stores an entry, or a separator, without a split.
LEMMA StoreEntryKeeps ==
  ASSUME Inv, NEW t \in Thread, StoreEntry(t)
  PROVE  Inv'
<1> DEFINE c == th[t]
           q == Stored(c.buf, c.k, c.v)
<1>0. /\ c.pc = "modify" /\ Release(c.p) /\ InPage(c.buf, c.k) /\ ~Full(q)
  BY DEF StoreEntry, At
<1>1. /\ Placed(t) /\ c.p \in Live /\ c.p \in Addr /\ c.buf = mem[c.p]
      /\ IsPageRecord(c.buf) /\ Linked(mem, c.buf)
      /\ c.buf.level = Lev(c.p) /\ c.buf.lowest = Low(c.p)
  BY <1>0, HoldsPage
<1>2. Moves(t) /\ th'[t].pc = "return"
  BY StoreEntryMoves DEF Inv
<1>3. /\ UNCHANGED <<work, rootPtr, next, posted, gRoot, msgs, cache, ops>>
      /\ mem' = [mem EXCEPT ![c.p] = q]
  <2>1. mem' = [mem EXCEPT ![c.p] =
                  IF IsLeaf(q) THEN Stored(mem[c.p], c.k, c.v) ELSE q]
    BY DEF StoreEntry
  <2> QED  BY <1>1, <2>1 DEF StoreEntry, others, hist
<1>4. /\ Hangs(mem, q) /\ IsPageRecord(q)
      /\ IsLeaf(q) <=> IsLeaf(c.buf)
      /\ q.level = c.buf.level /\ q.lowest = c.buf.lowest
      /\ q.highest = c.buf.highest /\ q.leftmost = c.buf.leftmost
      /\ DOMAIN q.recs = DOMAIN c.buf.recs \cup {c.k}
      /\ \A x : ChildOf(q, x) => ChildOf(c.buf, x) \/ x = c.v
  BY <1>0, StoredHangs
<1> HIDE DEF q
<1>5. Cardinality(DOMAIN q.recs) < Capacity(q)
  <2>1. /\ IsFiniteSet(DOMAIN c.buf.recs)
        /\ Cardinality(DOMAIN c.buf.recs) \in Nat
        /\ Cardinality(DOMAIN q.recs) \in Nat
    BY <1>1, <1>4, FiniteKeys DEF IsPageRecord
  <2>2. Cardinality(DOMAIN q.recs) <= Cardinality(DOMAIN c.buf.recs) + 1
    <3> DEFINE S == DOMAIN c.buf.recs
    <3>1. Cardinality(S \cup {c.k}) =
            IF c.k \in S THEN Cardinality(S) ELSE Cardinality(S) + 1
      BY <2>1, FS_AddElement
    <3> HIDE DEF S
    <3>2. Cardinality(S) \in Nat
      BY <2>1 DEF S
    <3>3. Cardinality(S \cup {c.k}) <= Cardinality(S) + 1
      BY <3>1, <3>2
    <3> QED  BY <1>4, <3>3 DEF S
  <2>3. Cardinality(DOMAIN c.buf.recs) < Capacity(q) /\ Capacity(q) \in Nat
    BY <1>1, <1>4, LinkedHangs, TreeAssumption DEF Capacity
  <2>4. Cardinality(DOMAIN q.recs) # Capacity(q)
    BY <1>0 DEF Full, Capacity
  <2> QED  BY <2>1, <2>2, <2>3, <2>4
<1>6. Linked(mem, q)
  BY <1>4, <1>5, LinkedHangs
<1>7. \A u \in Thread : u # t /\ Pending(u) => ~ChildOf(q, th[u].v)
  <2> SUFFICES ASSUME NEW u \in Thread, u # t, Pending(u)
               PROVE  ~ChildOf(q, th[u].v)
    OBVIOUS
  <2>1. ~ChildOf(c.buf, th[u].v)
    BY <1>1 DEF Inv, PendingInv, Orphan
  <2>2. CASE IsLeaf(q)
    BY <2>2 DEF ChildOf
  <2>3. CASE ~IsLeaf(q)
    <3>1. Pending(t)
      BY <1>0, <1>4, <2>3, SeparatorFits
    <3>2. th[u].v # c.v
      BY <3>1 DEF Inv, PendingInv
    <3> QED  BY <1>4, <2>1, <3>2
  <2> QED  BY <2>2, <2>3
<1>8. /\ IsPageRecord(q) /\ q.level = Lev(c.p) /\ q.lowest = Low(c.p)
      /\ q.leftmost = mem[c.p].leftmost /\ q.highest = mem[c.p].highest
  BY <1>1, <1>4
<1>9. c.pc = "modify" /\ Release(c.p)
  BY <1>0
<1> QED
  BY <1>2, <1>3, <1>6, <1>7, <1>8, <1>9, StoredInPlace

\* What stays of memory when the sibling of a page p is added, and p may
\* already have been overwritten by its left half.
LEMMA Added ==
  ASSUME Inv, NEW p \in Live, next \in Addr, NEW left, NEW right,
         IsPageRecord(left), IsPageRecord(right), left.level = Lev(p),
         left.lowest = Low(p), left.leftmost = mem[p].leftmost,
         right.lowest # kKeyMin,
         right.leftmost = Null \/ right.leftmost \in Live,
         UNCHANGED rootPtr,
         \/ mem' = [mem EXCEPT ![next] = right]
         \/ mem' = [mem EXCEPT ![next] = right, ![p] = left]
  PROVE  /\ p # next /\ next \notin Live /\ ~IsPageIn(mem, next)
         /\ \A a : IsPageIn(mem', a) <=> (IsPageIn(mem, a) \/ a = next)
         /\ \A a \in Addr : a # p /\ a # next => mem'[a] = mem[a]
         /\ mem'[next] = right
         /\ mem'[p] = mem[p] \/ mem'[p] = left
         /\ mem' = [a \in Addr |-> mem'[a]]
         /\ Live' = Live \cup {next}
         /\ \A a \in Live : Low(a)' = Low(a) /\ Lev(a)' = Lev(a)
         /\ Grows
<1>1. /\ p \in Addr /\ IsPageIn(mem, p) /\ left # NoPage /\ right # NoPage
      /\ mem = [a \in Addr |-> mem[a]]
  BY LivePage, PageIsPage DEF Inv, TypeInv, IsPage
<1>2. ~IsPageIn(mem, next)
  <2>1. next \in Int
    BY TreeAssumption DEF Addr
  <2> QED  BY <2>1 DEF Inv, PagesInv, IsPage
<1>3. p # next /\ next \notin Live
  BY <1>1, <1>2, LivePage DEF IsPage
<1>4. /\ mem'[next] = right
      /\ mem'[p] = mem[p] \/ mem'[p] = left
      /\ \A a \in Addr : a # p /\ a # next => mem'[a] = mem[a]
      /\ mem' = [a \in Addr |-> mem'[a]]
  BY <1>1, <1>3
<1>5. \A a : IsPageIn(mem', a) <=> (IsPageIn(mem, a) \/ a = next)
  BY <1>1, <1>4 DEF IsPageIn
<1>6. \A a \in Addr : a # next => /\ mem'[a].level = mem[a].level
                                  /\ mem'[a].lowest = mem[a].lowest
                                  /\ mem'[a].leftmost = mem[a].leftmost
  BY <1>1, <1>4 DEF Low, Lev
<1>7. \A a : a \in LiveIn(mem', rootPtr) <=> a \in Live \cup {next}
  <2> DEFINE L(M, a) == \E b \in Addr : IsPageIn(M, b) /\ M[b].leftmost = a
  <2>1. \A a : L(mem', a) <=> (L(mem, a) \/ a = right.leftmost)
    BY <1>2, <1>4, <1>5, <1>6
  <2> HIDE DEF L
  <2>2. \A M, r, a : a \in LiveIn(M, r) <=>
          a \in Addr /\ IsPageIn(M, a)
          /\ (M[a].lowest # kKeyMin \/ a = r \/ L(M, a))
    BY DEF LiveIn, L
  <2> SUFFICES ASSUME NEW a \in Addr
               PROVE  a \in LiveIn(mem', rootPtr)
                        <=> (a \in LiveIn(mem, rootPtr) \/ a = next)
    BY <2>2 DEF Live
  <2>3. CASE a = next
    BY <1>4, <1>5, <2>2, <2>3
  <2>4. CASE a # next
    <3>1. /\ IsPageIn(mem', a) <=> IsPageIn(mem, a)
          /\ mem'[a].lowest = mem[a].lowest
          /\ L(mem', a) <=> (L(mem, a) \/ a = right.leftmost)
      BY <1>5, <1>6, <2>1, <2>4
    <3>2. a \in LiveIn(mem', rootPtr) <=>
            IsPageIn(mem', a) /\ (mem'[a].lowest # kKeyMin \/ a = rootPtr
                                  \/ L(mem', a))
      BY <2>2
    <3>3. a \in LiveIn(mem, rootPtr) <=>
            IsPageIn(mem, a) /\ (mem[a].lowest # kKeyMin \/ a = rootPtr
                                 \/ L(mem, a))
      BY <2>2
    <3>4. a = right.leftmost => a \in LiveIn(mem, rootPtr)
      BY DEF Live, Null, Addr
    <3> QED  BY <2>4, <3>1, <3>2, <3>3, <3>4
  <2> QED  BY <2>3, <2>4
<1>8. Live' = Live \cup {next}
  <2>1. LiveIn(mem', rootPtr) = Live \cup {next}
    BY <1>7
  <2> QED  BY <2>1 DEF Live
<1>9. \A a \in Live : Low(a)' = Low(a) /\ Lev(a)' = Lev(a)
  BY <1>3, <1>6, LivePage DEF Low, Lev
<1>10. Grows
  BY <1>2, <1>5, <1>6, <1>8 DEF Grows, Live
<1> QED
  BY <1>2, <1>3, <1>4, <1>5, <1>8, <1>9, <1>10

\* The two halves of the full page, and how they hang together in a memory M
\* that has grown by the right half.
LEMMA SplitHalves ==
  ASSUME Inv, NEW t \in Thread, th[t].pc = "modify",
         InPage(th[t].buf, th[t].k), NEW q,
         q = Stored(th[t].buf, th[t].k, th[t].v), Full(q),
         NEW sib \in Addr, NEW M,
         \A a \in Addr : IsPageIn(mem, a) =>
           /\ IsPageIn(M, a)
           /\ M[a].level = mem[a].level /\ M[a].lowest = mem[a].lowest,
         IsPageRecord(RightHalf(q)) => IsPageIn(M, sib),
         M[sib] = RightHalf(q)
  PROVE  LET s == SplitKey(q)
             left == LeftHalf(q, sib)
             right == RightHalf(q) IN
         /\ s \in Int /\ q.lowest < s /\ s < q.highest
         /\ left.level = q.level /\ left.lowest = q.lowest
         /\ left.leftmost = q.leftmost /\ left.highest = s
         /\ right.level = q.level /\ right.lowest = s
         /\ right.highest = q.highest
         /\ IsPageRecord(left) /\ IsPageRecord(right)
         /\ Linked(M, left) /\ Linked(M, right)
         /\ right.leftmost = Null \/ right.leftmost \in Live
         /\ \A x : ChildOf(left, x) \/ ChildOf(right, x) => ChildOf(q, x)
<1> DEFINE s == SplitKey(q)
           left == LeftHalf(q, sib)
           right == RightHalf(q)
<1>1. Hangs(mem, q) /\ IsPageRecord(q)
  BY StoredHangs
<1>2. /\ s \in DOMAIN q.recs
      /\ Below(DOMAIN q.recs, s) # {}
      /\ Cardinality(Below(DOMAIN q.recs, s)) < Capacity(q)
      /\ Cardinality(Above(q)) < Capacity(q)
      /\ ~IsLeaf(q) => Above(q) # {}
  BY <1>1, SplitSizes DEF Capacity
<1>3. /\ DOMAIN q.recs \subseteq KeyRange /\ s \in KeyRange /\ s \in Int
      /\ q.lowest \in KeyRange /\ q.lowest \in Int
      /\ q.highest \in KeyRange /\ q.highest \in Int
      /\ \A j \in KeyRange : j \in Int /\ kKeyMin <= j /\ j <= kKeyMax
      /\ kKeyMin \in Int /\ kKeyMax \in Int
  BY <1>1, <1>2, KeyInts, SMTT(30) DEF IsPageRecord, KeyRange
<1>4. q.lowest < s /\ s < q.highest
  <2>1. PICK j \in DOMAIN q.recs : j < s
    BY <1>2 DEF Below
  <2>2. q.lowest <= j /\ s < q.highest /\ j \in Int
    BY <1>1, <1>2, <1>3 DEF Hangs, InPage
  <2> QED  BY <1>3, <2>1, <2>2
<1>5. ~IsLeaf(q) =>
        /\ IsPageIn(mem, q.recs[s]) /\ q.recs[s] \in Addr
        /\ mem[q.recs[s]].lowest = s /\ mem[q.recs[s]].level = q.level - 1
  BY <1>1, <1>2 DEF Hangs, IsPageIn
<1>6. /\ left.level = q.level /\ left.leftmost = q.leftmost
      /\ left.sibling = sib /\ left.lowest = q.lowest /\ left.highest = s
      /\ DOMAIN left.recs = Below(DOMAIN q.recs, s)
      /\ \A j \in DOMAIN left.recs : left.recs[j] = q.recs[j]
      /\ IsPageRecord(left)
  BY <1>1, <1>3, LeftHalfFields
<1>7. /\ right.level = q.level
      /\ right.leftmost = IF IsLeaf(q) THEN Null ELSE q.recs[s]
      /\ right.sibling = q.sibling /\ right.lowest = s
      /\ right.highest = q.highest
      /\ DOMAIN right.recs = Above(q)
      /\ \A j \in DOMAIN right.recs : right.recs[j] = q.recs[j]
      /\ IsPageRecord(right)
  BY <1>1, <1>3, <1>5, RightHalfFields
<1>8. /\ \A j \in DOMAIN left.recs : j \in DOMAIN q.recs /\ j < s
      /\ \A j \in DOMAIN right.recs :
           /\ j \in DOMAIN q.recs /\ j >= s
           /\ ~IsLeaf(q) => j > s
  <2>1. \A j \in DOMAIN q.recs : j > s => j >= s
    BY <1>3
  <2> QED  BY <1>6, <1>7, <2>1 DEF Below, Above
<1> HIDE DEF s, left, right
<1>9. IsLeaf(left) <=> IsLeaf(q)
  BY <1>6 DEF IsLeaf
<1>10. IsLeaf(right) <=> IsLeaf(q)
  BY <1>5, <1>7, SMTT(30) DEF IsLeaf, Null, Addr
<1>11. \A a : IsPageIn(mem, a) =>
         /\ IsPageIn(M, a)
         /\ M[a].level = mem[a].level /\ M[a].lowest = mem[a].lowest
  BY DEF IsPageIn
<1>12. Hangs(M, q)
  <2>1. ASSUME ~IsLeaf(q), NEW k \in DOMAIN q.recs
        PROVE  /\ k > q.lowest
               /\ IsPageIn(M, q.recs[k])
               /\ M[q.recs[k]].level = q.level - 1
               /\ M[q.recs[k]].lowest = k
    <3>1. /\ k > q.lowest /\ IsPageIn(mem, q.recs[k])
          /\ mem[q.recs[k]].level = q.level - 1
          /\ mem[q.recs[k]].lowest = k
      BY <1>1, <2>1 DEF Hangs
    <3> QED  BY <1>11, <3>1
  <2>2. ASSUME ~IsLeaf(q)
        PROVE  /\ IsPageIn(M, q.leftmost)
               /\ M[q.leftmost].level = q.level - 1
               /\ M[q.leftmost].lowest = q.lowest
    BY <1>1, <1>11, <2>2 DEF Hangs
  <2>3. IF q.highest = kKeyMax THEN q.sibling = Null
        ELSE /\ IsPageIn(M, q.sibling)
             /\ M[q.sibling].level = q.level
             /\ M[q.sibling].lowest = q.highest
    BY <1>1, <1>11 DEF Hangs
  <2>4. /\ q.lowest < q.highest
        /\ \A k \in DOMAIN q.recs : InPage(q, k)
        /\ IsLeaf(q) <=> q.level = 0
    BY <1>1 DEF Hangs
  <2> QED  BY <2>1, <2>2, <2>3, <2>4 DEF Hangs
<1>13. Linked(M, left)
  <2>1. \A j \in DOMAIN left.recs : InPage(left, j)
    BY <1>3, <1>6, <1>8, <1>12 DEF Hangs, InPage
  <2>2. M[sib] = right /\ IsPageIn(M, sib)
    BY <1>7 DEF right
  <2>3. /\ left.highest # kKeyMax /\ IsPageIn(M, left.sibling)
        /\ M[left.sibling].level = left.level
        /\ M[left.sibling].lowest = left.highest
    BY <1>3, <1>4, <1>6, <1>7, <2>2, SMTT(30)
  <2>4. ~IsLeaf(left) =>
          /\ IsPageIn(M, left.leftmost)
          /\ M[left.leftmost].level = left.level - 1
          /\ M[left.leftmost].lowest = left.lowest
          /\ \A k \in DOMAIN left.recs :
               /\ k > left.lowest
               /\ IsPageIn(M, left.recs[k])
               /\ M[left.recs[k]].level = left.level - 1
               /\ M[left.recs[k]].lowest = k
    <3>1. ASSUME ~IsLeaf(q), NEW k \in DOMAIN left.recs
          PROVE  /\ k > left.lowest
                 /\ IsPageIn(M, left.recs[k])
                 /\ M[left.recs[k]].level = left.level - 1
                 /\ M[left.recs[k]].lowest = k
      <4>1. k \in DOMAIN q.recs /\ left.recs[k] = q.recs[k]
        BY <1>6, <1>8
      <4> QED  BY <1>6, <1>12, <3>1, <4>1, ZenonT(30) DEF Hangs
    <3>2. ~IsLeaf(q) =>
            /\ IsPageIn(M, left.leftmost)
            /\ M[left.leftmost].level = left.level - 1
            /\ M[left.leftmost].lowest = left.lowest
      BY <1>6, <1>12 DEF Hangs
    <3> QED  BY <1>9, <3>1, <3>2
  <2>5. left.lowest < left.highest /\ (IsLeaf(left) <=> left.level = 0)
    BY <1>4, <1>6, <1>9, <1>12 DEF Hangs
  <2>6. Hangs(M, left)
    BY <2>1, <2>3, <2>4, <2>5 DEF Hangs
  <2>7. /\ Cardinality(DOMAIN left.recs) < Capacity(left)
        /\ DOMAIN left.recs # {}
    BY <1>2, <1>6, <1>9 DEF Capacity
  <2> QED  BY <2>6, <2>7, LinkedHangs
<1>14. Linked(M, right)
  <2>1. \A j \in DOMAIN right.recs : InPage(right, j)
    BY <1>3, <1>7, <1>8, <1>12 DEF Hangs, InPage
  <2>3. IF right.highest = kKeyMax THEN right.sibling = Null
        ELSE /\ IsPageIn(M, right.sibling)
             /\ M[right.sibling].level = right.level
             /\ M[right.sibling].lowest = right.highest
    BY <1>7, <1>12 DEF Hangs
  <2>4. ~IsLeaf(right) =>
          /\ IsPageIn(M, right.leftmost)
          /\ M[right.leftmost].level = right.level - 1
          /\ M[right.leftmost].lowest = right.lowest
          /\ \A k \in DOMAIN right.recs :
               /\ k > right.lowest
               /\ IsPageIn(M, right.recs[k])
               /\ M[right.recs[k]].level = right.level - 1
               /\ M[right.recs[k]].lowest = k
    <3>1. ~IsLeaf(right) =>
            /\ IsPageIn(M, q.recs[s])
            /\ M[q.recs[s]].level = q.level - 1
            /\ M[q.recs[s]].lowest = s
      BY <1>5, <1>10, <1>11
    <3>2. ASSUME ~IsLeaf(q), NEW k \in DOMAIN right.recs
          PROVE  /\ k > right.lowest
                 /\ IsPageIn(M, right.recs[k])
                 /\ M[right.recs[k]].level = right.level - 1
                 /\ M[right.recs[k]].lowest = k
      <4>1. k \in DOMAIN q.recs /\ right.recs[k] = q.recs[k] /\ k > s
        BY <1>7, <1>8, <3>2
      <4>2. /\ IsPageIn(M, q.recs[k])
            /\ M[q.recs[k]].level = q.level - 1
            /\ M[q.recs[k]].lowest = k
        BY <1>12, <3>2, <4>1 DEF Hangs
      <4>3. right.level = q.level /\ right.lowest = s
        BY <1>7
      <4> QED  BY <4>1, <4>2, <4>3
    <3> QED  BY <1>7, <1>10, <3>1, <3>2
  <2>5. right.lowest < right.highest /\ (IsLeaf(right) <=> right.level = 0)
    BY <1>4, <1>7, <1>10, <1>12 DEF Hangs
  <2>6. Hangs(M, right)
    BY <2>1, <2>3, <2>4, <2>5 DEF Hangs
  <2>7. /\ Cardinality(DOMAIN right.recs) < Capacity(right)
        /\ ~IsLeaf(right) => DOMAIN right.recs # {}
    BY <1>2, <1>7, <1>10 DEF Capacity
  <2> QED  BY <2>6, <2>7, LinkedHangs
<1>15. right.leftmost = Null \/ right.leftmost \in Live
  <2>1. s # kKeyMin
    BY <1>3, <1>4
  <2> QED  BY <1>5, <1>7, <2>1 DEF Live, LiveIn
<1>16. \A x : ChildOf(left, x) \/ ChildOf(right, x) => ChildOf(q, x)
  <2>1. \A x : ChildOf(left, x) => ChildOf(q, x)
    BY <1>6, <1>8, <1>9 DEF ChildOf
  <2>2. s \in DOMAIN q.recs
    BY <1>2 DEF s
  <2>3. \A x : ChildOf(right, x) => ChildOf(q, x)
    BY <1>7, <1>8, <1>10, <2>2 DEF ChildOf
  <2> QED  BY <2>1, <2>3
<1> QED
  BY <1>3, <1>4, <1>6, <1>7, <1>13, <1>14, <1>15, <1>16 DEF s, left, right

\* The pages of a level stay apart when page p is cut at s and its right half
\* is added at x: `high` is where a page ends once what is posted is written.
LEMMA CutDisjoint ==
  ASSUME Inv, NEW t \in Thread, th[t].pc = "modify", NEW p, p = th[t].p,
         NEW x \in Addr, x \notin Live, NEW s \in Int,
         Low(p) < s, s < mem[p].highest,
         Live' = Live \cup {x},
         \A a \in Live : Low(a)' = Low(a) /\ Lev(a)' = Lev(a),
         Low(x)' = s, Lev(x)' = Lev(p),
         mem'[x].highest = mem[p].highest,
         \A a \in Live : a # p => mem'[a].highest = mem[a].highest,
         \/ UNCHANGED posted /\ mem'[p].highest = s
         \/ \E w : /\ posted' = posted \cup {w}
                   /\ w.addr = p /\ w.page.highest = s
  PROVE  DisjointInv'
<1> DEFINE Free1(a) == \A w \in posted' : w.addr # a
<1> SUFFICES ASSUME NEW a \in Live', NEW b \in Live', LeftOf(a, b)'
             PROVE  /\ Free1(a) => mem'[a].highest <= Low(b)'
                    /\ \A w \in posted' : w.addr = a =>
                         w.page.highest <= Low(b)'
  BY DEF DisjointInv
<1>1. /\ p \in Live /\ p # x /\ \A w \in posted : w.addr # p
      /\ \A c \in Live : Low(c) \in Int /\ mem[c].highest \in Int
  BY HoldsPage, LiveTypes
<1>2. \A w \in posted : w.addr \in Live
  BY DEF Inv, PostedInv
<1>3. \A c, d \in Live : LeftOf(c, d) =>
        /\ (\A w \in posted : w.addr # c) => mem[c].highest <= Low(d)
        /\ \A w \in posted : w.addr = c => w.page.highest <= Low(d)
  BY DEF Inv, DisjointInv
<1>4. \A d \in Live : d # p /\ Lev(d) = Lev(p) /\ Low(p) <= Low(d) =>
        mem[p].highest <= Low(d)
  BY <1>1, <1>3 DEF LeftOf
<1>5. CASE a = x
  <2>1. b \in Live /\ Lev(b) = Lev(p) /\ s <= Low(b)
    BY <1>1, <1>5 DEF LeftOf
  <2>2. mem[p].highest <= Low(b)
    BY <1>1, <1>4, <2>1
  <2>3. \A w \in posted' : w.addr # x
    BY <1>1, <1>2
  <2> QED  BY <1>5, <2>1, <2>2, <2>3
<1>6. CASE a = p
  <2>1. s <= Low(b)'
    <3>1. CASE b = x
      BY <3>1
    <3>2. CASE b # x
      <4>1. b \in Live /\ Lev(b) = Lev(p) /\ Low(p) <= Low(b) /\ b # p
        BY <1>1, <1>6, <3>2 DEF LeftOf
      <4>2. mem[p].highest <= Low(b) /\ Low(b)' = Low(b) /\ Low(b) \in Int
        BY <1>1, <1>4, <4>1
      <4> QED  BY <1>1, <4>2
    <3> QED  BY <3>1, <3>2
  <2> QED  BY <1>1, <1>6, <2>1
<1>7. CASE a # x /\ a # p
  <2>1. a \in Live /\ mem'[a].highest = mem[a].highest
    BY <1>7
  <2>2. \A w \in posted' : w.addr = a => w \in posted
    BY <1>7
  <2>3. posted \subseteq posted'
    OBVIOUS
  <2>4. CASE b # x
    <3>1. b \in Live /\ LeftOf(a, b) /\ Low(b)' = Low(b)
      BY <2>1, <2>4 DEF LeftOf
    <3> QED  BY <1>3, <2>1, <2>2, <2>3, <3>1
  <2>5. CASE b = x
    <3>1. Low(a) <= s /\ Lev(a) = Lev(p) /\ Low(b)' = s
      BY <2>1, <2>5 DEF LeftOf
    <3>2. Low(a) <= Low(p)
      <4>1. Low(p) <= Low(a) => mem[p].highest <= Low(a)
        BY <1>4, <1>7, <2>1, <3>1
      <4> QED  BY <1>1, <2>1, <3>1, <4>1
    <3>3. LeftOf(a, p)
      BY <1>7, <3>1, <3>2 DEF LeftOf
    <3>4. /\ (\A w \in posted : w.addr # a) => mem[a].highest <= Low(p)
          /\ \A w \in posted : w.addr = a => w.page.highest <= Low(p)
      BY <1>1, <1>3, <2>1, <3>3
    <3>5. \A w \in posted : w.addr = a => w.page.highest \in Int
      <4>1. \A w \in posted : IsPageRecord(w.page)
        BY DEF Inv, PostedInv
      <4> QED  BY <4>1, RecordInts
    <3> QED  BY <1>1, <2>1, <2>2, <2>3, <3>1, <3>4, <3>5
  <2> QED  BY <2>4, <2>5
<1> QED  BY <1>5, <1>6, <1>7

\* The state after t has cut page p at s, at x the right half.
LEMMA CutKeeps ==
  ASSUME Inv, NEW t \in Thread, th[t].pc = "modify", th[t].call.op = "insert",
         Moves(t), NEW p, p = th[t].p, NEW x, x = next, x \in Addr,
         NEW s \in Int, Low(p) < s, s < mem[p].highest,
         th'[t].pc = "grow", th'[t].k = s, th'[t].v = x,
         Keeps(t, {"pc", "k", "v", "buf", "landed"}),
         NEW left, NEW right, IsPageRecord(left), IsPageRecord(right),
         left.level = Lev(p), left.lowest = Low(p),
         left.leftmost = mem[p].leftmost, left.highest = s,
         right.level = Lev(p), right.lowest = s,
         right.highest = mem[p].highest,
         right.leftmost = Null \/ right.leftmost \in Live,
         Linked(mem', left), Linked(mem', right),
         \A v : ChildOf(left, v) \/ ChildOf(right, v) => IsPageIn(mem, v),
         \A u \in Thread : u # t /\ Pending(u) =>
           ~ChildOf(left, th[u].v) /\ ~ChildOf(right, th[u].v),
         UNCHANGED <<work, rootPtr, gRoot, msgs, cache, ops>>,
         next' = next + 1,
         \/ /\ mem' = [mem EXCEPT ![x] = right]
            /\ posted' = posted \cup {[t |-> t, op |-> ops[t], addr |-> p,
                                       page |-> left]}
            /\ UNCHANGED lock
         \/ /\ mem' = [mem EXCEPT ![x] = right, ![p] = left]
            /\ Release(p) /\ UNCHANGED posted
  PROVE  Inv'
<1> DEFINE c == th[t]
           d == th'[t]
           new == [t |-> t, op |-> ops[t], addr |-> p, page |-> left]
<1>1. /\ Busy(t) /\ Placed(t) /\ PathDown(t) /\ p \in Live /\ p \in Addr
      /\ Lev(p) = c.level /\ c.level \in Nat /\ Low(p) \in Int
      /\ \A w \in posted : w.addr # p
  BY HoldsPage, LiveTypes, AtPage
<1>2. /\ kKeyMin < s /\ s < kKeyMax /\ s \in kKeyMin + 1..kKeyMax - 1
      /\ right.lowest # kKeyMin
  BY <1>1, LiveTypes, KeyInts DEF IsPageRecord, KeyRange
<1>3. /\ p # x /\ x \notin Live /\ ~IsPageIn(mem, x)
      /\ \A a : IsPageIn(mem', a) <=> (IsPageIn(mem, a) \/ a = x)
      /\ \A a \in Addr : a # p /\ a # x => mem'[a] = mem[a]
      /\ mem'[x] = right
      /\ mem'[p] = mem[p] \/ mem'[p] = left
      /\ mem' = [a \in Addr |-> mem'[a]]
      /\ Live' = Live \cup {x}
      /\ \A a \in Live : Low(a)' = Low(a) /\ Lev(a)' = Lev(a)
      /\ Grows
  BY <1>1, <1>2, Added
<1>4. /\ d.call = c.call /\ d.root = c.root /\ d.level = c.level
      /\ d.entry = c.entry /\ d.path = c.path /\ d.p = p
  BY DEF Keeps, Fields
<1>5. CachesStayOn
  BY DEF CachesStayOn, CacheOn
<1>6. \A w \in posted' : w \in posted \/ w = new
  OBVIOUS
<1>7. TypeInv'
  <2>1. \A u \in Thread : IsThreadRecord(th'[u])
    BY DEF Moves, Inv, TypeInv
  <2>2. lock' \in [Lock -> Thread \cup {Free}]
    BY LockTypeReleased DEF Inv, TypeInv
  <2>3. next' \in 1..MaxPages + 1
    BY TreeAssumption DEF Addr
  <2>4. \A w \in posted' : IsWrite(w)
    BY <1>1, <1>6 DEF Inv, TypeInv, IsWrite
  <2> QED  BY <1>3, <2>1, <2>2, <2>3, <2>4 DEF Moves, Inv, TypeInv
<1>8. PagesInv'
  <2>1. \A a \in Addr : IsPageIn(mem', a) <=> a < next'
    <3> SUFFICES ASSUME NEW a \in Addr
                 PROVE  IsPageIn(mem', a) <=> a < next + 1
      OBVIOUS
    <3>1. a \in Int /\ next \in Int
      BY TreeAssumption DEF Addr
    <3>2. IsPageIn(mem, a) <=> a < next
      BY DEF Inv, PagesInv, IsPage
    <3> QED  BY <1>3, <3>1, <3>2
  <2>2. ASSUME NEW a \in Addr, IsPageIn(mem', a)
        PROVE  IsPageRecord(mem'[a]) /\ Linked(mem', mem'[a])
    <3>1. IsPageIn(mem, a) => IsPageRecord(mem[a]) /\ Linked(mem, mem[a])
      BY DEF Inv, PagesInv, IsPage
    <3>2. IsPageIn(mem, a) => IsPageRecord(mem[a]) /\ Linked(mem', mem[a])
      BY <1>3, <3>1, LinkedKept
    <3> QED  BY <1>3, <2>2, <3>2
  <2> QED  BY <2>1, <2>2 DEF PagesInv, IsPage
<1>9. PostedInv'
  <2> SUFFICES ASSUME NEW w \in posted'
               PROVE  /\ w.addr \in Live'
                      /\ IsPageRecord(w.page)
                      /\ Linked(mem', w.page)
                      /\ w.page.level = mem'[w.addr].level
                      /\ w.page.lowest = mem'[w.addr].lowest
                      /\ w.page.leftmost = mem'[w.addr].leftmost
    BY DEF PostedInv, Low, Lev
  <2>1. CASE w \in posted
    <3>1. w.addr # p /\ w.addr \in Addr /\ w.addr # x /\ w.addr \in Live
      BY <1>1, <1>3, <2>1, LivePage DEF Inv, PostedInv
    <3>2. Linked(mem', w.page)
      BY <1>3, <2>1, LinkedKept DEF Inv, PostedInv
    <3> QED  BY <1>3, <2>1, <3>1, <3>2 DEF Inv, PostedInv, Low, Lev
  <2>2. CASE w = new
    BY <1>1, <1>3, <2>2 DEF Low, Lev
  <2> QED  BY <1>6, <2>1, <2>2
<1>10. DisjointInv'
  <2>1. \A a \in Live : a # p => mem'[a].highest = mem[a].highest
    BY <1>3, LivePage
  <2>2. mem'[x].lowest = s /\ mem'[x].level = Lev(p)
        /\ mem'[x].highest = mem[p].highest
    BY <1>3
  <2>3. Low(x)' = s /\ Lev(x)' = Lev(p)
    BY <2>2 DEF Low, Lev
  <2>4. \/ UNCHANGED posted /\ mem'[p].highest = s
        \/ \E w : /\ posted' = posted \cup {w}
                  /\ w.addr = p /\ w.page.highest = s
    <3>1. CASE posted' = posted \cup {new}
      <4>1. new.addr = p /\ new.page.highest = s
        OBVIOUS
      <4> QED  BY <3>1, <4>1
    <3>2. CASE UNCHANGED posted /\ mem' = [mem EXCEPT ![x] = right,
                                                      ![p] = left]
      <4>1. mem'[p] = left
        BY <1>1, <1>3, <3>2 DEF Inv, TypeInv
      <4> QED  BY <3>2, <4>1
    <3> QED  BY <3>1, <3>2
  <2> QED  BY <1>3, <2>1, <2>2, <2>3, <2>4, CutDisjoint
<1>11. RootInv'
  <2>1. \A a \in Live' : a \notin Live => \E b \in Live : Lev(b) = Lev(a)'
    <3>1. Lev(x)' = Lev(p)
      BY <1>3 DEF Lev
    <3> QED  BY <1>1, <1>3, <3>1
  <2> QED  BY <1>3, <2>1, RootsKept DEF Inv
<1>12. LockInv'
  <2>1. \A a \in Addr : IsPage(a) /\ a # p => mem'[a] = mem[a]
    BY <1>3 DEF IsPage
  <2>2. CASE Release(p) /\ UNCHANGED posted
    BY <2>1, <2>2, LockReleased
  <2>3. CASE posted' = posted \cup {new} /\ UNCHANGED lock
    <3>1. lock[LockOf[p]] = t /\ \A w \in posted : LockOf[w.addr] # LockOf[p]
      BY DEF Inv, LockInv
    <3>2. ASSUME NEW u \in Thread, th'[u].pc = "modify"
          PROVE  /\ lock'[LockOf[th'[u].p]] = u
                 /\ th'[u].buf = mem'[th'[u].p]
                 /\ \A w \in posted' : LockOf[w.addr] # LockOf[th'[u].p]
      <4>1. u # t /\ th'[u] = th[u]
        BY <3>2 DEF Moves
      <4>2. /\ lock[LockOf[th[u].p]] = u /\ th[u].buf = mem[th[u].p]
            /\ \A w \in posted : LockOf[w.addr] # LockOf[th[u].p]
        BY <3>2, <4>1 DEF Inv, LockInv
      <4>3. th[u].p \in Addr /\ IsPage(th[u].p)
        BY <3>2, <4>1, HoldsPage, LivePage
      <4>4. LockOf[th[u].p] # LockOf[p]
        BY <3>1, <4>1, <4>2
      <4> QED  BY <2>1, <2>3, <4>1, <4>2, <4>3, <4>4
    <3>3. ASSUME NEW w \in posted'
          PROVE  /\ lock'[LockOf[w.addr]] = w.t
                 /\ \A y \in posted' : LockOf[w.addr] = LockOf[y.addr] => w = y
      <4>1. \A y, z \in posted : LockOf[y.addr] = LockOf[z.addr] => y = z
        BY DEF Inv, LockInv
      <4>2. \A y \in posted : lock[LockOf[y.addr]] = y.t
        BY DEF Inv, LockInv
      <4>3. new.addr = p /\ new.t = t
        OBVIOUS
      <4> HIDE DEF new
      <4> QED  BY <2>3, <3>1, <4>1, <4>2, <4>3
    <3> QED  BY <3>2, <3>3 DEF LockInv
  <2> QED  BY <2>2, <2>3
<1>13. Carries(t)' /\ Busy(t)' /\ Pending(t)'
  BY DEF Carries, Busy, Pending
<1>14. Placed(t)'
  <2>1. IsRoot(c.root)' /\ (FromCache(t)' <=> FromCache(t))
    BY <1>1, <1>3, <1>4, RootKept DEF Placed, FromCache
  <2>2. CacheOn(NodeOf[t])' <=> CacheOn(NodeOf[t])
    BY DEF CacheOn
  <2>3. p \in Live' /\ Low(p)' = Low(p) /\ Lev(p)' = Lev(p)
    BY <1>1, <1>3
  <2> QED  BY <1>1, <1>2, <1>4, <2>1, <2>2, <2>3 DEF Placed
<1>15. PathDown(t)'
  <2>1. /\ p \in Live' /\ Lev(p)' = Lev(p) /\ Low(p)' = Low(p)
    BY <1>1, <1>3
  <2>2. \A l \in PathLevel : c.path[l] # Null =>
          /\ c.path[l] \in Live' /\ Lev(c.path[l])' = l
          /\ Low(c.path[l])' = Low(c.path[l])
    BY <1>1, <1>3, <1>4 DEF PathDown
  <2> QED  BY <1>1, <1>4, <2>1, <2>2 DEF PathDown
<1>16. ThreadInv' /\ PathInv'
  BY <1>3, <1>5, <1>14, <1>15, OthersPlaced
<1>17. \A a \in Live' : \/ a \in Live /\ mem'[a] = mem[a]
                        \/ mem'[a] = left \/ mem'[a] = right
  BY <1>3, LivePage
<1>18. \A w \in posted' : w \in posted \/ w.page = left
  BY <1>6
<1>19. PendingInv'
  <2>1. ASSUME NEW u \in Thread, u # t, Pending(u)
        PROVE  Orphan(th[u].v)'
    <3>1. th'[u] = th[u]
      BY <2>1 DEF Moves
    <3>2. /\ Orphan(th[u].v)
          /\ ~ChildOf(left, th[u].v) /\ ~ChildOf(right, th[u].v)
      BY <2>1 DEF Inv, PendingInv
    <3> QED  BY <1>17, <1>18, <3>1, <3>2 DEF Orphan
  <2>2. Fresh(t)'
    <3>1. x \in Live' /\ Lev(x)' = c.level /\ Low(x)' = s
      BY <1>1, <1>3 DEF Lev, Low
    <3>2. PendingLevel(t)' = c.level
      BY <1>4, <1>13 DEF PendingLevel
    <3> QED  BY <3>1, <3>2 DEF Fresh
  <2>3. Orphan(th[t].v)'
    <3>1. ASSUME NEW pg, Linked(mem, pg), NEW v, ChildOf(pg, v)
          PROVE  IsPageIn(mem, v)
      BY <3>1 DEF Linked, ChildOf
    <3>2. \A a \in Live : ~ChildOf(mem[a], x)
      BY <1>3, <3>1, LiveTypes
    <3>3. \A w \in posted : ~ChildOf(w.page, x)
      BY <1>3, <3>1 DEF Inv, PostedInv
    <3>4. ~ChildOf(left, x) /\ ~ChildOf(right, x)
      BY <1>3
    <3> QED  BY <1>17, <1>18, <3>2, <3>3, <3>4 DEF Orphan
  <2>4. \A u \in Thread : u # t /\ Pending(u) => th[u].v # th'[t].v
    BY <1>3 DEF Inv, PendingInv, Fresh
  <2> QED  BY <1>3, <2>1, <2>2, <2>3, <2>4, OthersPending
<1>20. CacheInv'
  BY <1>3, CachesSame
<1> QED
  BY <1>7, <1>8, <1>9, <1>10, <1>11, <1>12, <1>16, <1>19, <1>20 DEF Inv

\* insert splits the page it has locked.
LEMMA SplitKeeps ==
  ASSUME Inv, NEW t \in Thread, NEW async \in BOOLEAN, Split(t, async)
  PROVE  Inv'
<1> DEFINE c == th[t]
           q == Stored(c.buf, c.k, c.v)
           s == SplitKey(q)
           left == LeftHalf(q, next)
           right == RightHalf(q)
           M == [a \in Addr |-> IF a = next THEN right ELSE mem[a]]
<1>0. /\ c.pc = "modify" /\ c.call.op = "insert" /\ InPage(c.buf, c.k)
      /\ Full(q) /\ next \in Addr /\ next' = next + 1
      /\ UNCHANGED <<work, rootPtr, gRoot, msgs, cache, ops>>
  BY DEF Split, At, others, hist
<1>1. \/ /\ mem' = [mem EXCEPT ![next] = right]
         /\ posted' = posted \cup {[t |-> t, op |-> ops[t], addr |-> c.p,
                                    page |-> left]}
         /\ UNCHANGED lock
      \/ /\ mem' = [mem EXCEPT ![next] = right, ![c.p] = left]
         /\ Release(c.p) /\ UNCHANGED posted
  BY DEF Split
<1>2. /\ Moves(t) /\ th'[t].pc = "grow" /\ th'[t].v = next /\ th'[t].k = s
      /\ Keeps(t, {"pc", "k", "v", "buf", "landed"})
  BY SplitMoves DEF Inv
<1>3. /\ Placed(t) /\ c.p \in Live /\ c.p \in Addr /\ c.buf = mem[c.p]
      /\ IsPageRecord(c.buf) /\ Linked(mem, c.buf)
      /\ c.buf.level = Lev(c.p) /\ c.buf.lowest = Low(c.p)
  BY <1>0, HoldsPage
<1>4. /\ Hangs(mem, q)
      /\ IsLeaf(q) <=> IsLeaf(c.buf)
      /\ q.level = c.buf.level /\ q.lowest = c.buf.lowest
      /\ q.highest = c.buf.highest /\ q.leftmost = c.buf.leftmost
      /\ \A v : ChildOf(q, v) => ChildOf(c.buf, v) \/ v = c.v
  BY <1>0, StoredHangs
<1>5. mem = [a \in Addr |-> mem[a]] /\ c.p # next /\ ~IsPageIn(mem, next)
  <2>1. next \in Int
    BY <1>0, TreeAssumption DEF Addr
  <2>2. ~IsPageIn(mem, next)
    BY <1>0, <2>1 DEF Inv, PagesInv, IsPage
  <2> QED  BY <1>3, <2>2, LivePage DEF Inv, TypeInv, IsPage
<1>6. /\ s \in Int /\ q.lowest < s /\ s < q.highest
      /\ left.level = q.level /\ left.lowest = q.lowest
      /\ left.leftmost = q.leftmost /\ left.highest = s
      /\ right.level = q.level /\ right.lowest = s
      /\ right.highest = q.highest
      /\ IsPageRecord(left) /\ IsPageRecord(right)
      /\ right.leftmost = Null \/ right.leftmost \in Live
      /\ \A v : ChildOf(left, v) \/ ChildOf(right, v) => ChildOf(q, v)
  <2>1. \A a \in Addr : IsPageIn(mem, a) =>
          /\ IsPageIn(M, a)
          /\ M[a].level = mem[a].level /\ M[a].lowest = mem[a].lowest
    BY <1>5 DEF IsPageIn
  <2>2. M[next] = RightHalf(q)
    BY <1>0
  <2>3. IsPageRecord(RightHalf(q)) => IsPageIn(M, next)
    BY <1>0, <2>2, PageIsPage DEF IsPageIn
  <2> HIDE DEF M
  <2> QED  BY <1>0, <2>1, <2>2, <2>3, SplitHalves
<1>7. Linked(mem', left) /\ Linked(mem', right)
  <2>1. mem'[next] = right /\ (mem'[c.p] = mem[c.p] \/ mem'[c.p] = left)
    BY <1>0, <1>1, <1>3, <1>5
  <2>2. \A a \in Addr : a # c.p /\ a # next => mem'[a] = mem[a]
    BY <1>0, <1>1, <1>3, <1>5
  <2>3. left # NoPage /\ right # NoPage
    BY <1>6, PageIsPage
  <2> HIDE DEF left, right, q
  <2>4. \A a \in Addr : IsPageIn(mem, a) =>
          /\ IsPageIn(mem', a)
          /\ mem'[a].level = mem[a].level /\ mem'[a].lowest = mem[a].lowest
    <3> SUFFICES ASSUME NEW a \in Addr, IsPageIn(mem, a)
                 PROVE  /\ IsPageIn(mem', a)
                        /\ mem'[a].level = mem[a].level
                        /\ mem'[a].lowest = mem[a].lowest
      OBVIOUS
    <3>1. a # next
      BY <1>5
    <3>2. CASE a = c.p
      BY <1>3, <1>4, <1>6, <2>1, <2>3, <3>2 DEF IsPageIn
    <3>3. CASE a # c.p
      BY <2>2, <3>1, <3>3 DEF IsPageIn
    <3> QED  BY <3>2, <3>3
  <2>5. IsPageIn(mem', next)
    BY <1>0, <2>1, <2>3 DEF IsPageIn
  <2>6. mem'[next] = RightHalf(q)
    BY <2>1 DEF right
  <2>7. Full(q) /\ q = Stored(th[t].buf, th[t].k, th[t].v)
    BY <1>0 DEF q
  <2>8. Linked(mem', LeftHalf(q, next)) /\ Linked(mem', RightHalf(q))
    BY <1>0, <2>4, <2>5, <2>6, <2>7, SplitHalves
  <2> QED  BY <2>8 DEF left, right
<1>8. \A v : ChildOf(q, v) => IsPageIn(mem, v)
  BY <1>4 DEF Hangs, ChildOf
<1>9. \A u \in Thread : u # t /\ Pending(u) => ~ChildOf(q, th[u].v)
  <2> SUFFICES ASSUME NEW u \in Thread, u # t, Pending(u)
               PROVE  ~ChildOf(q, th[u].v)
    OBVIOUS
  <2>1. ~ChildOf(c.buf, th[u].v)
    BY <1>3 DEF Inv, PendingInv, Orphan
  <2>2. CASE IsLeaf(q)
    BY <2>2 DEF ChildOf
  <2>3. CASE ~IsLeaf(q)
    <3>1. Pending(t)
      BY <1>0, <1>4, <2>3, SeparatorFits
    <3>2. th[u].v # c.v
      BY <3>1 DEF Inv, PendingInv
    <3> QED  BY <1>4, <2>1, <3>2
  <2> QED  BY <2>2, <2>3
<1> HIDE DEF q, s, left, right
<1>10. /\ Low(c.p) < s /\ s < mem[c.p].highest
       /\ left.level = Lev(c.p) /\ left.lowest = Low(c.p)
       /\ left.leftmost = mem[c.p].leftmost
       /\ right.level = Lev(c.p) /\ right.highest = mem[c.p].highest
  BY <1>3, <1>4, <1>6
<1>11. \A v : ChildOf(left, v) \/ ChildOf(right, v) => IsPageIn(mem, v)
  BY <1>6, <1>8
<1>12. \A u \in Thread : u # t /\ Pending(u) =>
         ~ChildOf(left, th[u].v) /\ ~ChildOf(right, th[u].v)
  BY <1>6, <1>9
<1> QED
  BY <1>0, <1>1, <1>2, <1>6, <1>7, <1>10, <1>11, <1>12, CutKeeps

\* What stays of memory when a new root is written, whether or not the root
\* pointer moves to it.
LEMMA RootAdded ==
  ASSUME Inv, NEW p \in Live, next \in Addr, NEW q,
         IsPageRecord(q), q.lowest = kKeyMin, q.leftmost = p,
         mem' = [mem EXCEPT ![next] = q],
         (rootPtr = p /\ rootPtr' = next) \/ UNCHANGED rootPtr
  PROVE  /\ p # next /\ next \notin Live /\ ~IsPageIn(mem, next)
         /\ \A a : IsPageIn(mem', a) <=> (IsPageIn(mem, a) \/ a = next)
         /\ \A a \in Addr : a # next => mem'[a] = mem[a]
         /\ mem'[next] = q
         /\ mem' = [a \in Addr |-> mem'[a]]
         /\ Live' = IF rootPtr' = next THEN Live \cup {next} ELSE Live
         /\ \A a \in Live : Low(a)' = Low(a) /\ Lev(a)' = Lev(a)
         /\ Grows
<1>1. /\ p \in Addr /\ IsPageIn(mem, p) /\ q # NoPage
      /\ mem = [a \in Addr |-> mem[a]]
  BY LivePage, PageIsPage DEF Inv, TypeInv, IsPage
<1>2. ~IsPageIn(mem, next)
  <2>1. next \in Int
    BY TreeAssumption DEF Addr
  <2> QED  BY <2>1 DEF Inv, PagesInv, IsPage
<1>3. p # next /\ next \notin Live
  BY <1>1, <1>2, LivePage DEF IsPage
<1>4. /\ mem'[next] = q
      /\ \A a \in Addr : a # next => mem'[a] = mem[a]
      /\ mem' = [a \in Addr |-> mem'[a]]
  BY <1>1
<1>5. \A a : IsPageIn(mem', a) <=> (IsPageIn(mem, a) \/ a = next)
  BY <1>1, <1>4 DEF IsPageIn
<1>6. \A b \in Addr : IsPageIn(mem, b) => mem[b].leftmost # next
  <2> SUFFICES ASSUME NEW b \in Addr, IsPageIn(mem, b)
               PROVE  mem[b].leftmost # next
    OBVIOUS
  <2>1. Linked(mem, mem[b])
    BY DEF Inv, PagesInv, IsPage
  <2> QED  BY <1>2, <2>1 DEF Linked, IsLeaf, Null, Addr
<1>7. \A a : a \in LiveIn(mem', rootPtr') <=>
               (a \in Live \/ (a = next /\ rootPtr' = next))
  <2> DEFINE L(M, a) == \E b \in Addr : IsPageIn(M, b) /\ M[b].leftmost = a
  <2>1. \A a : L(mem', a) <=> (L(mem, a) \/ a = p)
    BY <1>2, <1>4, <1>5
  <2>11. ~L(mem, next)
    BY <1>6
  <2> HIDE DEF L
  <2>2. \A M, r, a : a \in LiveIn(M, r) <=>
          a \in Addr /\ IsPageIn(M, a)
          /\ (M[a].lowest # kKeyMin \/ a = r \/ L(M, a))
    BY DEF LiveIn, L
  <2> SUFFICES ASSUME NEW a \in Addr
               PROVE  a \in LiveIn(mem', rootPtr') <=>
                        \/ a \in LiveIn(mem, rootPtr)
                        \/ a = next /\ rootPtr' = next
    BY <2>2 DEF Live
  <2>3. CASE a = next
    <3>1. a \notin LiveIn(mem, rootPtr)
      BY <1>3, <2>3 DEF Live
    <3>2. a \in LiveIn(mem', rootPtr') <=> a = rootPtr'
      BY <1>3, <1>4, <1>5, <2>1, <2>11, <2>2, <2>3
    <3> QED  BY <2>3, <3>1, <3>2
  <2>4. CASE a # next
    <3>1. /\ IsPageIn(mem', a) <=> IsPageIn(mem, a)
          /\ mem'[a] = mem[a]
          /\ L(mem', a) <=> (L(mem, a) \/ a = p)
      BY <1>4, <1>5, <2>1, <2>4
    <3>2. a \in LiveIn(mem', rootPtr') <=>
            IsPageIn(mem', a) /\ (mem'[a].lowest # kKeyMin \/ a = rootPtr'
                                  \/ L(mem', a))
      BY <2>2
    <3>3. a \in LiveIn(mem, rootPtr) <=>
            IsPageIn(mem, a) /\ (mem[a].lowest # kKeyMin \/ a = rootPtr
                                 \/ L(mem, a))
      BY <2>2
    <3>4. a = p => a \in LiveIn(mem, rootPtr)
      BY DEF Live
    <3> QED  BY <2>4, <3>1, <3>2, <3>3, <3>4
  <2> QED  BY <2>3, <2>4
<1>8. Live' = IF rootPtr' = next THEN Live \cup {next} ELSE Live
  <2>1. LiveIn(mem', rootPtr') = IF rootPtr' = next THEN Live \cup {next}
                                 ELSE Live
    BY <1>7
  <2> QED  BY <2>1 DEF Live
<1>9. \A a \in Live : Low(a)' = Low(a) /\ Lev(a)' = Lev(a)
  BY <1>3, <1>4, LivePage DEF Low, Lev
<1>10. Grows
  BY <1>2, <1>4, <1>5, <1>8 DEF Grows, Live
<1> QED
  BY <1>2, <1>3, <1>4, <1>5, <1>8, <1>9, <1>10

\* The new root hangs together with the two halves of the old one.
LEMMA NewRootLinked ==
  ASSUME Inv, NEW t \in Thread, th[t].pc = "grow", th[t].p = th[t].root,
         NEW level, level = th[t].level + 1, level \in Level
  PROVE  LET c == th[t]
             q == RootPage(c.p, c.k, c.v, level) IN
         /\ IsPageRecord(q) /\ Linked(mem, q) /\ q.level = level
         /\ q.lowest = kKeyMin /\ q.leftmost = c.p
         /\ \A v : ChildOf(q, v) => v = c.p \/ v = c.v
         /\ c.p \in Live /\ Low(c.p) = kKeyMin /\ Lev(c.p) = c.level
         /\ c.level \in Nat
<1> DEFINE c == th[t]
           q == RootPage(c.p, c.k, c.v, level)
<1>1. Busy(t) /\ Carries(t) /\ Pending(t)
  BY DEF Busy, Carries, Pending
<1>2. /\ c.p \in Live /\ c.p \in Addr /\ IsPage(c.p) /\ Low(c.p) = kKeyMin
      /\ Lev(c.p) = c.level /\ c.k \in Int /\ c.k \in KeyRange
      /\ kKeyMin < c.k /\ c.k < kKeyMax
  BY <1>1, AtPage DEF Placed, IsRoot
<1>3. /\ c.v \in Live /\ Lev(c.v) = c.level /\ Low(c.v) = c.k
  BY <1>1 DEF Inv, PendingInv, Fresh, PendingLevel
<1>4. IsPage(c.v) /\ c.v \in Addr
  BY <1>3, LivePage
<1>5. c.level \in Nat /\ kKeyMin \in Int /\ kKeyMax \in Int
  BY <1>2, LiveTypes, KeyInts
<1>6. /\ q.level = level /\ q.leftmost = c.p /\ q.sibling = Null
      /\ q.lowest = kKeyMin /\ q.highest = kKeyMax
      /\ DOMAIN q.recs = {c.k} /\ q.recs[c.k] = c.v
      /\ IsPageRecord(q)
  BY <1>2, <1>5, RootPageFields
<1> HIDE DEF q
<1>7. ~IsLeaf(q)
  BY <1>2, <1>6 DEF IsLeaf, Null, Addr
<1>8. Hangs(mem, q)
  BY <1>2, <1>3, <1>4, <1>5, <1>6, <1>7 DEF Hangs, InPage, IsPage, Low, Lev
<1>9. Cardinality(DOMAIN q.recs) < Capacity(q) /\ DOMAIN q.recs # {}
  <2>1. Cardinality({c.k}) = 1
    BY FS_Singleton
  <2>2. 1 < kInternalCardinality
    BY TreeAssumption
  <2> QED  BY <1>6, <1>7, <2>1, <2>2 DEF Capacity
<1>10. Linked(mem, q)
  BY <1>8, <1>9, LinkedHangs
<1>11. \A v : ChildOf(q, v) => v = c.p \/ v = c.v
  BY <1>6 DEF ChildOf
<1> QED  BY <1>2, <1>5, <1>6, <1>10, <1>11 DEF q

\* update_new_root writes a new root above the page that was split.
LEMMA UpdateNewRootKeeps ==
  ASSUME Inv, NEW t \in Thread, UpdateNewRoot(t)
  PROVE  Inv'
<1> SUFFICES ASSUME NEW x, x = next, NEW q, NEW level,
                    level = th[t].level + 1, NEW p, p = th[t].p,
                    q = RootPage(th[t].p, th[t].k, th[t].v, level)
             PROVE  Inv'
  OBVIOUS
<1> DEFINE c == th[t]
           d == th'[t]
<1>0. /\ c.pc = "grow" /\ p = c.root /\ x \in Addr /\ level \in Level
      /\ next' = next + 1 /\ mem' = [mem EXCEPT ![x] = q]
      /\ UNCHANGED <<work, lock, posted, gRoot, cache, ops>>
  BY DEF UpdateNewRoot, At, others, hist
<1>1. \/ /\ rootPtr = p /\ rootPtr' = x
         /\ msgs' = msgs \cup
              {[to |-> n, addr |-> x, level |-> level] : n \in Node}
      \/ rootPtr # p /\ UNCHANGED <<rootPtr, msgs>>
  BY <1>0 DEF UpdateNewRoot
<1>2. /\ Moves(t) /\ d.pc = IF rootPtr = p THEN "return" ELSE "up"
      /\ Keeps(t, {"pc"})
  BY <1>0, UpdateNewRootMoves DEF Inv
<1>3. /\ IsPageRecord(q) /\ Linked(mem, q) /\ q.level = level
      /\ q.lowest = kKeyMin /\ q.leftmost = p
      /\ \A v : ChildOf(q, v) => v = p \/ v = c.v
      /\ p \in Live /\ Low(p) = kKeyMin /\ Lev(p) = c.level
      /\ c.level \in Nat
  BY <1>0, NewRootLinked
<1>4. /\ p # x /\ x \notin Live /\ ~IsPageIn(mem, x)
      /\ \A a : IsPageIn(mem', a) <=> (IsPageIn(mem, a) \/ a = x)
      /\ \A a \in Addr : a # x => mem'[a] = mem[a]
      /\ mem'[x] = q
      /\ mem' = [a \in Addr |-> mem'[a]]
      /\ Live' = IF rootPtr' = x THEN Live \cup {x} ELSE Live
      /\ \A a \in Live : Low(a)' = Low(a) /\ Lev(a)' = Lev(a)
      /\ Grows
  <2>1. (rootPtr = p /\ rootPtr' = x) \/ UNCHANGED rootPtr
    BY <1>1
  <2>2. x \in Addr /\ mem' = [mem EXCEPT ![x] = q]
    BY <1>0
  <2>3. IsPageRecord(q) /\ q.lowest = kKeyMin /\ q.leftmost = p /\ p \in Live
    BY <1>3
  <2> QED  BY <2>1, <2>2, <2>3, RootAdded
<1>5. rootPtr' = x <=> rootPtr = p
  BY <1>1, <1>4 DEF Inv, RootInv, IsRoot
<1>6. CachesStayOn
  BY <1>0 DEF CachesStayOn, CacheOn
<1>7. TypeInv'
  <2>1. \A u \in Thread : IsThreadRecord(th'[u])
    BY <1>2 DEF Moves, Inv, TypeInv
  <2>2. next' \in 1..MaxPages + 1
    BY <1>0, TreeAssumption DEF Addr
  <2>3. rootPtr' \in Addr
    BY <1>0, <1>1 DEF Inv, TypeInv
  <2>4. msgs' \subseteq [to : Node, addr : Addr, level : Level]
    BY <1>0, <1>1 DEF Inv, TypeInv
  <2> QED
    BY <1>0, <1>2, <1>4, <2>1, <2>2, <2>3, <2>4 DEF Moves, Inv, TypeInv
<1>8. PagesInv'
  <2>1. \A a \in Addr : IsPageIn(mem', a) <=> a < next'
    <3> SUFFICES ASSUME NEW a \in Addr
                 PROVE  IsPageIn(mem', a) <=> a < next + 1
      BY <1>0
    <3>1. a \in Int /\ next \in Int
      BY <1>0, TreeAssumption DEF Addr
    <3>2. IsPageIn(mem, a) <=> a < next
      BY DEF Inv, PagesInv, IsPage
    <3> QED  BY <1>4, <3>1, <3>2
  <2>2. ASSUME NEW a \in Addr, IsPageIn(mem', a)
        PROVE  IsPageRecord(mem'[a]) /\ Linked(mem', mem'[a])
    <3>1. IsPageIn(mem, a) => IsPageRecord(mem[a]) /\ Linked(mem, mem[a])
      BY DEF Inv, PagesInv, IsPage
    <3>2. IsPageRecord(mem'[a]) /\ Linked(mem, mem'[a])
      BY <1>3, <1>4, <2>2, <3>1
    <3> QED  BY <1>4, <3>2, LinkedKept
  <2> QED  BY <2>1, <2>2 DEF PagesInv, IsPage
<1>9. PostedInv'
  <2> SUFFICES ASSUME NEW w \in posted
               PROVE  /\ w.addr \in Live'
                      /\ IsPageRecord(w.page)
                      /\ Linked(mem', w.page)
                      /\ w.page.level = mem'[w.addr].level
                      /\ w.page.lowest = mem'[w.addr].lowest
                      /\ w.page.leftmost = mem'[w.addr].leftmost
    BY <1>0 DEF PostedInv, Low, Lev
  <2>1. w.addr \in Addr /\ w.addr # x /\ w.addr \in Live
    BY <1>4, LivePage DEF Inv, PostedInv
  <2>2. Linked(mem', w.page)
    BY <1>4, LinkedKept DEF Inv, PostedInv
  <2> QED  BY <1>4, <2>1, <2>2 DEF Inv, PostedInv, Low, Lev
<1>10. Lev(x)' = level /\ Low(x)' = kKeyMin
  BY <1>3, <1>4 DEF Low, Lev
<1>11. rootPtr = p => \A a \in Live : Lev(a) < level /\ Lev(a) \in Int
  <2>1. rootPtr = p => \A a \in Live : Lev(a) <= c.level
    BY <1>3 DEF Inv, RootInv
  <2> QED  BY <1>3, <2>1, LiveTypes
<1>12. DisjointInv'
  <2> SUFFICES ASSUME NEW a \in Live', NEW b \in Live', LeftOf(a, b)'
               PROVE  /\ (\A w \in posted : w.addr # a) =>
                            mem'[a].highest <= Low(b)'
                      /\ \A w \in posted : w.addr = a =>
                            w.page.highest <= Low(b)'
    BY <1>0 DEF DisjointInv
  <2>1. a # b /\ Lev(a)' = Lev(b)'
    BY DEF LeftOf
  <2>2. a \in Live /\ b \in Live
    <3>1. a = x => b \in Live
      BY <1>4, <2>1
    <3>2. b = x => a \in Live
      BY <1>4, <2>1
    <3>3. a = x => FALSE
      BY <1>4, <1>5, <1>10, <1>11, <2>1, <3>1
    <3>4. b = x => FALSE
      BY <1>4, <1>5, <1>10, <1>11, <2>1, <3>2
    <3> QED  BY <1>4, <3>3, <3>4
  <2>3. LeftOf(a, b) /\ Low(b)' = Low(b) /\ mem'[a] = mem[a]
    BY <1>4, <2>2, LivePage DEF LeftOf
  <2> QED  BY <2>2, <2>3 DEF Inv, DisjointInv
<1>13. RootInv'
  <2>1. CASE rootPtr # p
    <3>1. UNCHANGED <<gRoot, msgs, rootPtr>> /\ Live' = Live
      BY <1>0, <1>1, <1>4, <1>5, <2>1
    <3> QED  BY <1>4, <3>1, RootsKept DEF Inv
  <2>2. CASE rootPtr = p
    <3>1. rootPtr' = x /\ IsRoot(x)' /\ Lev(x)' = level
      BY <1>4, <1>5, <1>10, <2>2 DEF IsRoot
    <3>2. IsRoot(FirstLeaf)' /\ Lev(FirstLeaf)' = 0
      BY <1>4, RootKept DEF Inv, RootInv
    <3>3. \A a \in Live' : Lev(a)' <= level
      BY <1>3, <1>4, <1>10, <1>11, <2>2
    <3>4. \A n \in Node : gRoot[n].ptr # Null \/ gRoot[n].level # -1 =>
            /\ IsRoot(gRoot[n].ptr)'
            /\ Lev(gRoot[n].ptr)' = gRoot[n].level
      BY <1>0, <1>4, RootKept DEF Inv, RootInv
    <3>5. \A m \in msgs : IsRoot(m.addr)' /\ Lev(m.addr)' = m.level
      BY <1>4, RootKept DEF Inv, RootInv
    <3>6. \A m \in msgs' : m \in msgs \/ (m.addr = x /\ m.level = level)
      BY <1>1
    <3>7. \A m \in msgs' : IsRoot(m.addr)' /\ Lev(m.addr)' = m.level
      BY <3>1, <3>5, <3>6
    <3>8. IsRoot(rootPtr)' /\ Lev(rootPtr)' = level
      BY <3>1 DEF IsRoot, Lev, Low
    <3> QED  BY <1>0, <3>2, <3>3, <3>4, <3>7, <3>8 DEF RootInv
  <2> QED  BY <2>1, <2>2
<1>14. LockInv'
  <2>1. ASSUME NEW u \in Thread, th'[u].pc = "modify"
        PROVE  /\ lock'[LockOf[th'[u].p]] = u
               /\ th'[u].buf = mem'[th'[u].p]
               /\ \A w \in posted' : LockOf[w.addr] # LockOf[th'[u].p]
    <3>1. u # t /\ th'[u] = th[u]
      BY <1>2, <2>1 DEF Moves
    <3>2. /\ lock[LockOf[th[u].p]] = u /\ th[u].buf = mem[th[u].p]
          /\ \A w \in posted : LockOf[w.addr] # LockOf[th[u].p]
      BY <2>1, <3>1 DEF Inv, LockInv
    <3>3. th[u].p \in Addr /\ th[u].p # x
      BY <1>4, <2>1, <3>1, HoldsPage
    <3> QED  BY <1>0, <1>4, <3>1, <3>2, <3>3
  <2> QED  BY <1>0, <2>1 DEF Inv, LockInv
<1>15. Busy(t) /\ Carries(t) /\ Pending(t) /\ Placed(t) /\ PathDown(t)
  BY <1>0, AtPage DEF Busy, Carries, Pending
<1>16. /\ d.call = c.call /\ d.k = c.k /\ d.v = c.v /\ d.root = c.root
       /\ d.level = c.level /\ d.entry = c.entry /\ d.path = c.path
       /\ d.p = p
  BY <1>2 DEF Keeps, Fields
<1>17. ASSUME Busy(t)'  PROVE Placed(t)' /\ PathDown(t)' /\ Carries(t)'
  <2>1. d.pc = "up"
    BY <1>2, <1>17 DEF Busy
  <2>2. IsRoot(c.root)' /\ (FromCache(t)' <=> FromCache(t)) /\ Carries(t)'
    BY <1>4, <1>15, <1>16, <2>1, RootKept DEF Placed, FromCache, Carries
  <2>3. CacheOn(NodeOf[t])' <=> CacheOn(NodeOf[t])
    BY <1>0 DEF CacheOn
  <2>4. p \in Live' /\ Low(p)' = Low(p) /\ Lev(p)' = Lev(p)
    BY <1>3, <1>4, <1>16
  <2>5. Placed(t)'
    BY <1>0, <1>3, <1>15, <1>16, <2>1, <2>2, <2>3, <2>4 DEF Placed
  <2>6. \A l \in PathLevel : c.path[l] # Null =>
          /\ c.path[l] \in Live' /\ Lev(c.path[l])' = l
          /\ Low(c.path[l])' = Low(c.path[l])
    BY <1>4, <1>15, <1>16 DEF PathDown
  <2>7. PathDown(t)'
    BY <1>15, <1>16, <2>4, <2>6 DEF PathDown
  <2> QED  BY <2>2, <2>5, <2>7
<1>18. ThreadInv' /\ PathInv'
  BY <1>2, <1>4, <1>6, <1>17, OthersPlaced
<1>19. \A a \in Live' : \/ a \in Live /\ mem'[a] = mem[a]
                        \/ mem'[a] = q /\ rootPtr = p
  BY <1>4, <1>5, LivePage
<1>20. PendingInv'
  <2>1. ASSUME NEW u \in Thread, u # t, Pending(u)
        PROVE  Orphan(th[u].v)'
    <3>1. th'[u] = th[u] /\ Busy(u)
      BY <1>2, <2>1 DEF Moves, Pending, Carries, Busy
    <3>2. Orphan(th[u].v) /\ th[u].v # c.v /\ Low(th[u].v) = th[u].k
      BY <1>15, <2>1 DEF Inv, PendingInv, Fresh
    <3>3. th[u].k # kKeyMin
      BY <3>1, AtPage, KeyInts
    <3>4. ~ChildOf(q, th[u].v)
      BY <1>3, <3>2, <3>3
    <3> QED  BY <1>0, <1>19, <3>1, <3>2, <3>4 DEF Orphan
  <2>2. ASSUME Pending(t)'
        PROVE  /\ Fresh(t)' /\ Orphan(th[t].v)'
               /\ \A u \in Thread : u # t /\ Pending(u) =>
                    th[u].v # th'[t].v
    <3>1. Busy(t)' /\ Carries(t)' /\ rootPtr # p
      BY <1>2, <1>17, <2>2 DEF Pending, Carries, Busy
    <3>2. /\ Fresh(t) /\ Orphan(c.v)
          /\ \A u \in Thread : u # t /\ Pending(u) => th[u].v # c.v
      BY <1>15 DEF Inv, PendingInv
    <3>3. Fresh(t)'
      BY <1>4, <1>15, <1>16, <3>1, <3>2 DEF Fresh, PendingLevel
    <3>4. Orphan(th[t].v)'
      BY <1>0, <1>16, <1>19, <3>1, <3>2 DEF Orphan
    <3> QED  BY <1>16, <3>2, <3>3, <3>4
  <2> QED  BY <1>2, <1>4, <2>1, <2>2, OthersPending
<1>21. CacheInv'
  BY <1>0, <1>4, CachesSame
<1> QED
  BY <1>7, <1>8, <1>9, <1>12, <1>13, <1>14, <1>18, <1>20, <1>21 DEF Inv

\* The memory node executes a posted batch.
LEMMA DeliverKeeps ==
  ASSUME Inv, NEW w \in posted, Deliver(w)
  PROVE  Inv'
<1> SUFFICES ASSUME NEW t, t = w.t, NEW p, p = w.addr, NEW q, q = w.page
             PROVE  Inv'
  OBVIOUS
<1> DEFINE c == th[t]
           d == th'[t]
<1>0. /\ mem' = [mem EXCEPT ![p] = q] /\ Release(p) /\ posted' = posted \ {w}
      /\ UNCHANGED <<work, rootPtr, next, gRoot, msgs, cache, ops>>
  BY DEF Deliver, others, hist
<1>1. /\ t \in Thread /\ p \in Live /\ p \in Addr /\ IsPageRecord(q)
      /\ Linked(mem, q) /\ q.level = Lev(p) /\ q.lowest = Low(p)
      /\ q.leftmost = mem[p].leftmost
      /\ lock[LockOf[p]] = t
  BY DEF Inv, PostedInv, TypeInv, IsWrite, LockInv
<1>2. Moves(t) /\ Keeps(t, {"landed"})
  BY <1>1, DeliverMoves DEF Inv
<1>3. /\ d.call = c.call /\ d.k = c.k /\ d.v = c.v /\ d.root = c.root
      /\ d.level = c.level /\ d.entry = c.entry /\ d.path = c.path
      /\ d.p = c.p /\ d.pc = c.pc /\ d.buf = c.buf
  BY <1>2 DEF Keeps, Fields
<1>4. /\ \A a : IsPageIn(mem', a) <=> IsPageIn(mem, a)
      /\ \A a \in Addr : a # p => mem'[a] = mem[a]
      /\ mem'[p] = q
      /\ mem' = [a \in Addr |-> mem'[a]]
      /\ Live' = Live
      /\ \A a \in Live : Low(a)' = Low(a) /\ Lev(a)' = Lev(a)
      /\ Grows
  BY <1>0, <1>1, Overwritten
<1>5. CachesStayOn
  BY <1>0 DEF CachesStayOn, CacheOn
<1>6. \A x \in posted' : x \in posted /\ LockOf[x.addr] # LockOf[p]
  BY <1>0 DEF Inv, LockInv
<1>7. TypeInv'
  <2>1. \A u \in Thread : IsThreadRecord(th'[u])
    BY <1>1, <1>2 DEF Moves, Inv, TypeInv
  <2>2. lock' \in [Lock -> Thread \cup {Free}]
    BY <1>0, LockTypeReleased
  <2> QED  BY <1>0, <1>2, <1>4, <1>6, <2>1, <2>2 DEF Moves, Inv, TypeInv
<1>8. PagesInv'
  <2>1. \A a \in Addr : IsPageIn(mem', a) <=> a < next'
    BY <1>0, <1>4 DEF Inv, PagesInv, IsPage
  <2>2. ASSUME NEW a \in Addr, IsPageIn(mem', a)
        PROVE  IsPageRecord(mem'[a]) /\ Linked(mem, mem'[a])
    BY <1>1, <1>4, <2>2 DEF Inv, PagesInv, IsPage
  <2>3. ASSUME NEW a \in Addr, IsPageIn(mem', a)
        PROVE  Linked(mem', mem'[a])
    BY <1>4, <2>2, <2>3, LinkedKept
  <2> QED  BY <2>1, <2>2, <2>3 DEF PagesInv, IsPage
<1>9. PostedInv'
  <2> SUFFICES ASSUME NEW x \in posted'
               PROVE  /\ x.addr \in Live'
                      /\ IsPageRecord(x.page)
                      /\ Linked(mem', x.page)
                      /\ x.page.level = mem'[x.addr].level
                      /\ x.page.lowest = mem'[x.addr].lowest
                      /\ x.page.leftmost = mem'[x.addr].leftmost
    BY DEF PostedInv, Low, Lev
  <2>1. x \in posted /\ x.addr # p /\ x.addr \in Addr
    BY <1>6, LivePage DEF Inv, PostedInv
  <2>2. Linked(mem', x.page)
    BY <1>4, <2>1, LinkedKept DEF Inv, PostedInv
  <2> QED  BY <1>4, <2>1, <2>2 DEF Inv, PostedInv, Low, Lev
<1>10. DisjointInv'
  <2> SUFFICES ASSUME NEW a \in Live, NEW b \in Live, LeftOf(a, b)'
               PROVE  /\ (\A x \in posted' : x.addr # a) =>
                            mem'[a].highest <= Low(b)'
                      /\ \A x \in posted' : x.addr = a =>
                            x.page.highest <= Low(b)'
    BY <1>4 DEF DisjointInv
  <2>1. LeftOf(a, b) /\ Low(b)' = Low(b)
    BY <1>4 DEF LeftOf
  <2>2. /\ (\A x \in posted : x.addr # a) => mem[a].highest <= Low(b)
        /\ \A x \in posted : x.addr = a => x.page.highest <= Low(b)
    BY <2>1 DEF Inv, DisjointInv
  <2>3. CASE a = p
    BY <1>4, <1>6, <2>1, <2>2, <2>3
  <2>4. CASE a # p
    <3>1. mem'[a] = mem[a]
      BY <1>4, <2>4, LivePage
    <3>2. (\A x \in posted' : x.addr # a) => \A x \in posted : x.addr # a
      BY <1>0, <2>4
    <3> QED  BY <1>6, <2>1, <2>2, <3>1, <3>2
  <2> QED  BY <2>3, <2>4
<1>11. RootInv'
  BY <1>0, <1>4, RootsKept DEF Inv
<1>12. LockInv'
  <2>1. /\ lock' = [lock EXCEPT ![LockOf[p]] = Free]
        /\ lock \in [Lock -> Thread \cup {Free}]
    BY <1>0 DEF Release, Inv, TypeInv
  <2>2. ASSUME NEW u \in Thread, th'[u].pc = "modify"
        PROVE  /\ lock'[LockOf[th'[u].p]] = u
               /\ th'[u].buf = mem'[th'[u].p]
               /\ \A x \in posted' : LockOf[x.addr] # LockOf[th'[u].p]
    <3>1. /\ th'[u].pc = th[u].pc /\ th'[u].p = th[u].p
          /\ th'[u].buf = th[u].buf
      BY <1>2, <1>3 DEF Moves
    <3>2. /\ lock[LockOf[th[u].p]] = u /\ th[u].buf = mem[th[u].p]
          /\ \A x \in posted : LockOf[x.addr] # LockOf[th[u].p]
      BY <2>2, <3>1 DEF Inv, LockInv
    <3>3. th[u].p \in Addr /\ LockOf[th[u].p] \in Lock
      BY <2>2, <3>1, HoldsPage DEF Lock
    <3>4. LockOf[p] # LockOf[th[u].p]
      BY <3>2
    <3> QED  BY <1>4, <1>6, <2>1, <3>1, <3>2, <3>3, <3>4
  <2>3. ASSUME NEW x \in posted'
        PROVE  lock'[LockOf[x.addr]] = x.t
    <3>1. /\ x \in posted /\ LockOf[x.addr] # LockOf[p]
          /\ LockOf[x.addr] \in Lock /\ lock[LockOf[x.addr]] = x.t
      BY <1>6 DEF Inv, TypeInv, IsWrite, LockInv, Lock
    <3> QED  BY <2>1, <3>1
  <2>4. \A x, y \in posted' : LockOf[x.addr] = LockOf[y.addr] => x = y
    BY <1>6 DEF Inv, LockInv
  <2> QED  BY <2>2, <2>3, <2>4 DEF LockInv
<1>13. /\ Busy(t)' <=> Busy(t)
       /\ Carries(t)' <=> Carries(t)
       /\ Pending(t)' <=> Pending(t)
       /\ FromCache(t)' <=> FromCache(t)
  BY <1>3 DEF Busy, Carries, Pending, FromCache
<1>14. ASSUME Busy(t)'  PROVE Placed(t)' /\ PathDown(t)'
  <2>1. Placed(t) /\ PathDown(t)
    BY <1>1, <1>13, <1>14, AtPage
  <2>2. c.p \in Live' /\ Low(c.p)' = Low(c.p) /\ Lev(c.p)' = Lev(c.p)
    BY <1>3, <1>4, <2>1 DEF Placed
  <2>3. IsRoot(c.root)'
    BY <1>3, <1>4, <2>1, RootKept DEF Placed
  <2>4. CacheOn(NodeOf[t])' <=> CacheOn(NodeOf[t])
    BY <1>0 DEF CacheOn
  <2>5. Placed(t)'
    BY <1>3, <1>13, <2>1, <2>2, <2>3, <2>4 DEF Placed
  <2>6. \A l \in PathLevel : c.path[l] # Null =>
          /\ c.path[l] \in Live' /\ Lev(c.path[l])' = l
          /\ Low(c.path[l])' = Low(c.path[l])
    BY <1>3, <1>4, <2>1 DEF PathDown
  <2>7. PathDown(t)'
    BY <1>3, <2>1, <2>2, <2>6 DEF PathDown
  <2> QED  BY <2>5, <2>7
<1>15. ThreadInv' /\ PathInv'
  BY <1>1, <1>2, <1>4, <1>5, <1>14, OthersPlaced
<1>16. \A v : Orphan(v) => Orphan(v)'
  <2>1. \A a \in Live : mem'[a] = mem[a] \/ mem'[a] = q
    BY <1>4, LivePage
  <2>2. \A v : Orphan(v) => ~ChildOf(q, v)
    BY DEF Orphan
  <2> QED  BY <1>4, <1>6, <2>1, <2>2 DEF Orphan
<1>17. PendingInv'
  <2>1. ASSUME NEW u \in Thread, Pending(u)
        PROVE  Orphan(th[u].v)'
    <3>1. th'[u].v = th[u].v
      BY <1>2, <1>3 DEF Moves
    <3>2. Orphan(th[u].v)
      BY <2>1 DEF Inv, PendingInv
    <3> QED  BY <1>16, <3>1, <3>2
  <2>2. ASSUME Pending(t)'
        PROVE  /\ Fresh(t)' /\ Orphan(th[t].v)'
               /\ \A u \in Thread : u # t /\ Pending(u) =>
                    th[u].v # th'[t].v
    <3>1. Fresh(t) /\ \A u \in Thread : u # t /\ Pending(u) => th[u].v # c.v
      BY <1>1, <1>13, <2>2 DEF Inv, PendingInv
    <3>2. Fresh(t)'
      BY <1>3, <1>4, <1>13, <3>1 DEF Fresh, PendingLevel
    <3> QED  BY <1>1, <1>3, <1>13, <2>1, <2>2, <3>1, <3>2
  <2> QED  BY <1>1, <1>2, <1>4, <2>1, <2>2, OthersPending
<1>18. CacheInv'
  BY <1>0, <1>4, CachesSame
<1> QED
  BY <1>7, <1>8, <1>9, <1>10, <1>11, <1>12, <1>15, <1>17, <1>18 DEF Inv

-----------------------------------------------------------------------------
(* The invariant holds in every reachable state                            *)

\* The tree that a workload starts from.
LEMMA InitInv ==
  ASSUME Init
  PROVE  Inv
<1> DEFINE w == Workloads[work]
           pages == 1..Len(w.tree)
<1>0. /\ work \in DOMAIN Workloads /\ mem = Loaded(w.tree)
      /\ rootPtr = w.root /\ next = Len(w.tree) + 1
      /\ gRoot = [n \in Node |->
                    IF w.tree[w.root].level = 0
                    THEN [ptr |-> Null, level |-> -1]
                    ELSE [ptr |-> w.root, level |-> w.tree[w.root].level]]
      /\ lock = [l \in Lock |-> Free] /\ posted = {} /\ msgs = {}
      /\ cache = [n \in Node |-> {}] /\ th = [t \in Thread |-> Idle]
      /\ ops = [t \in Thread |-> 0]
  BY DEF Init
<1>1. /\ Len(w.tree) \in Nat /\ Len(w.tree) <= MaxPages
      /\ \A x \in pages : IsPageRecord(mem[x]) /\ Linked(mem, mem[x])
      /\ \A x, y \in pages :
           (x # y /\ mem[x].level = mem[y].level
              /\ mem[x].lowest <= mem[y].lowest)
             => mem[x].highest <= mem[y].lowest
      /\ w.root \in pages /\ mem[w.root].lowest = kKeyMin
      /\ FirstLeaf \in pages /\ mem[FirstLeaf].level = 0
      /\ mem[FirstLeaf].lowest = kKeyMin
      /\ \A x \in pages :
           /\ mem[x].level <= mem[w.root].level
           /\ \/ x = w.root
              \/ mem[x].lowest # kKeyMin
              \/ \E y \in pages : mem[y].leftmost = x
  BY <1>0, WorkloadAssumption
<1>2. /\ pages \subseteq Addr /\ mem = [a \in Addr |-> mem[a]]
      /\ \A a \in Addr : a <= Len(w.tree) <=> a \in pages
      /\ \A a \in Addr : a \in pages => mem[a] = w.tree[a]
      /\ \A a \in Addr : a \notin pages => mem[a] = NoPage
  BY <1>0, <1>1, TreeAssumption DEF Loaded, Addr
<1> HIDE DEF pages
<1>3. \A a : IsPageIn(mem, a) <=> a \in pages
  BY <1>1, <1>2, PageIsPage DEF IsPageIn
<1>4. Live = pages
  <2>1. \A a : a \in Live => a \in pages
    BY <1>3, LivePage DEF IsPage
  <2>2. ASSUME NEW a \in pages  PROVE a \in Live
    BY <1>0, <1>1, <1>2, <1>3 DEF Live, LiveIn
  <2> QED  BY <2>1, <2>2
<1>5. \A t \in Thread : ~Busy(t) /\ ~Pending(t) /\ th[t].pc # "modify"
  BY <1>0 DEF Busy, Pending, Carries, Idle
<1>6. TypeInv
  <2>1. \A t \in Thread : IsThreadRecord(th[t])
    BY <1>0, IdleRecord
  <2>2. next \in 1..MaxPages + 1
    BY <1>0, <1>1, TreeAssumption
  <2>3. gRoot \in [Node -> [ptr : Addr \cup {Null}, level : Level \cup {-1}]]
    <3>1. w.root \in Addr /\ w.tree[w.root].level \in Level
      BY <1>1, <1>2 DEF IsPageRecord
    <3> QED  BY <1>0, <3>1
  <2> QED  BY <1>0, <1>1, <1>2, <2>1, <2>2, <2>3 DEF TypeInv
<1>7. PagesInv
  <2>1. \A a \in Addr : a < next <=> a <= Len(w.tree)
    BY <1>0, <1>1 DEF Addr
  <2> QED  BY <1>1, <1>2, <1>3, <2>1 DEF PagesInv, IsPage
<1>8. PostedInv /\ LockInv /\ ThreadInv /\ PathInv /\ PendingInv /\ CacheInv
  BY <1>0, <1>5 DEF PostedInv, LockInv, ThreadInv, PathInv, PendingInv,
                    CacheInv
<1>9. DisjointInv
  BY <1>0, <1>1, <1>4 DEF DisjointInv, LeftOf, Low, Lev
<1>10. RootInv
  <2>1. IsRoot(rootPtr) /\ IsRoot(FirstLeaf) /\ Lev(FirstLeaf) = 0
    BY <1>0, <1>1, <1>4 DEF IsRoot, Low, Lev
  <2>2. \A a \in Live : Lev(a) <= Lev(rootPtr)
    BY <1>0, <1>1, <1>4 DEF Lev
  <2>3. w.tree[w.root] = mem[w.root]
    BY <1>1, <1>2
  <2>4. \A n \in Node :
          \/ gRoot[n].ptr = Null /\ gRoot[n].level = -1
          \/ IsRoot(gRoot[n].ptr) /\ Lev(gRoot[n].ptr) = gRoot[n].level
    BY <1>0, <2>1, <2>3 DEF Lev
  <2> QED  BY <1>0, <2>1, <2>2, <2>4 DEF RootInv
<1> QED
  BY <1>6, <1>7, <1>8, <1>9, <1>10 DEF Inv

\* Every step keeps the invariant.
LEMMA NextKeeps ==
  ASSUME Inv, Next
  PROVE  Inv'
<1>1. ASSUME NEW t \in Thread, Step(t)
      PROVE  Inv'
  <2>1. CASE Start(t) \/ Return(t)
    BY <2>1, StartKeeps, ReturnKeeps
  <2>2. CASE TurnRight(t) \/ Descend(t) \/ ReachLeaf(t)
    BY <2>2, TurnRightKeeps, DescendKeeps, ReachLeafKeeps
  <2>3. CASE ReadLeaf(t) \/ StaleSearch(t)
    BY <2>3, ReadLeafKeeps, StaleSearchKeeps
  <2>4. CASE LockAndRead(t) \/ MoveRight(t) \/ StaleStore(t)
    BY <2>4, LockAndReadKeeps, MoveRightKeeps, StaleStoreKeeps
  <2>5. CASE DeleteEntry(t) \/ StoreEntry(t)
    BY <2>5, DeleteEntryKeeps, StoreEntryKeeps
  <2>6. CASE \E async \in BOOLEAN : Split(t, async)
    BY <2>6, SplitKeeps
  <2>7. CASE UpdateNewRoot(t) \/ StoreUp(t) \/ InsertInternal(t)
    BY <2>7, UpdateNewRootKeeps, StoreUpKeeps, InsertInternalKeeps
  <2>8. CASE RetryLock(t) \/ NoUpLevel(t)
    BY <2>8, StutterKeeps DEF RetryLock, NoUpLevel, vars, hist
  <2> QED
    BY <1>1, <2>1, <2>2, <2>3, <2>4, <2>5, <2>6, <2>7, <2>8 DEF Step
<1>2. ASSUME NEW w \in posted, Deliver(w)
      PROVE  Inv'
  BY <1>2, DeliverKeeps
<1>3. ASSUME NEW m \in msgs, DirNewRoot(m) \/ LoseMessage(m)
      PROVE  Inv'
  BY <1>3, MessageKeeps
<1>4. CASE Finished
  BY <1>4, StutterKeeps DEF Finished, vars
<1> QED  BY <1>1, <1>2, <1>3, <1>4 DEF Next

\* The invariant holds of every behaviour of the tree.
THEOREM InvHolds == Spec => []Inv
<1>1. Init => Inv
  BY InitInv
<1>2. Inv /\ [Next]_vars => Inv'
  <2>1. ASSUME Inv, UNCHANGED vars  PROVE Inv'
    BY <2>1, StutterKeeps DEF vars
  <2> QED  BY <2>1, NextKeeps
<1> QED  BY <1>1, <1>2, PTL DEF Spec

\* The pages form a B-link tree at every moment of every split, for any number
\* of clients, nodes, pages and levels, whatever the fan-out and the workload.
THEOREM BLinkTreeHolds == Spec => []BLinkTree
<1>1. Inv => BLinkTree
  BY DEF Inv, PagesInv, BLinkTree
<1> QED  BY <1>1, InvHolds, PTL

\* The assertions of page_search and of the store and delete functions never
\* fail.
THEOREM AssertionsNeverFail == Spec => []AssertionsHold
<1>1. ASSUME Inv, NEW t \in Thread
      PROVE  LET c == th[t] IN
        /\ c.pc \in {"search", "store"} => c.k >= mem[c.p].lowest
        /\ c.pc \in {"search", "store", "modify"} /\ FromCache(t)
             => mem[c.p].level = 0
        /\ c.pc = "search" /\ c.level > 0 => mem[c.p].level # 0
        /\ c.pc \in {"store", "modify"} => mem[c.p].level = c.level
        /\ c.pc = "modify" => /\ c.buf.level = c.level
                              /\ c.k >= c.buf.lowest
                              /\ c.k >= c.buf.highest =>
                                   c.buf.sibling # Null
  <2> DEFINE c == th[t]
  <2>1. CASE ~(c.pc \in {"search", "store", "modify"})
    BY <2>1
  <2>2. CASE c.pc \in {"search", "store"}
    <3>1. Busy(t)
      BY <2>2 DEF Busy
    <3>2. /\ Placed(t) /\ mem[c.p].level = Lev(c.p)
          /\ mem[c.p].lowest = Low(c.p) /\ c.k \in Int
          /\ mem[c.p].lowest \in Int
      BY <1>1, <3>1, AtPage
    <3>3. c.level \in Nat /\ Lev(c.p) \in Nat
      <4>1. c.level \in Level
        BY <1>1, ThreadRecordElim DEF Inv
      <4>2. c.p \in Live
        BY <3>2 DEF Placed
      <4> QED  BY <1>1, <4>1, <4>2, LiveTypes, TreeAssumption DEF Level
    <3> QED  BY <2>2, <3>2, <3>3 DEF Placed
  <2>3. CASE c.pc = "modify"
    <3>1. /\ Placed(t) /\ c.buf = mem[c.p] /\ c.buf.level = c.level
          /\ c.buf.level = Lev(c.p)
          /\ IsPageRecord(c.buf) /\ Linked(mem, c.buf)
          /\ c.buf.lowest \in Int /\ c.buf.highest \in Int
          /\ c.buf.lowest <= c.k /\ c.k \in Int /\ c.k < kKeyMax
      BY <1>1, <2>3, HoldsPage
    <3>2. ASSUME c.k >= c.buf.highest  PROVE c.buf.sibling # Null
      <4>1. c.buf.highest # kKeyMax
        BY <3>1, <3>2, KeyInts
      <4>2. IsPageIn(mem, c.buf.sibling)
        BY <3>1, <4>1 DEF Linked
      <4> QED  BY <4>2 DEF IsPageIn, Addr, Null
    <3> QED  BY <2>3, <3>1, <3>2 DEF Placed
  <2> QED  BY <2>1, <2>2, <2>3
<1>2. Inv => AssertionsHold
  BY <1>1 DEF AssertionsHold
<1> QED  BY <1>2, InvHolds, PTL

\* The range a cached page gives the child that a lookup of k is sent to.
LEMMA ChildRange ==
  ASSUME NEW M, NEW pg, IsPageRecord(pg), Linked(M, pg), NEW k \in KeyRange,
         pg.lowest <= k, k < pg.highest
  PROVE  \E s \in Starts(pg) : /\ s <= k /\ k < EndOf(pg, s)
                               /\ s \in Int /\ EndOf(pg, s) \in Int
                               /\ ChildFor(pg, s) = ChildFor(pg, k)
<1> DEFINE S == {j \in Starts(pg) : j <= k}
<1>1. /\ Starts(pg) \in SUBSET (kKeyMin..kKeyMax)
      /\ \A j \in kKeyMin..kKeyMax : j \in Int
      /\ pg.lowest \in S /\ k \in Int /\ pg.highest \in Int
  BY KeyInts DEF Starts, IsPageRecord, KeyRange
<1>2. PICK s \in S : \A i \in S : i <= s
  <2>1. S \in SUBSET (kKeyMin..kKeyMax) /\ S # {}
    BY <1>1
  <2> HIDE DEF S
  <2> QED  BY <2>1, MaxKey
<1>3. s \in Starts(pg) /\ s <= k /\ s \in Int
  BY <1>1
<1>4. \A j \in Starts(pg) : j > s => j > k
  BY <1>1, <1>2, <1>3
<1>5. k < EndOf(pg, s) /\ EndOf(pg, s) \in Int
  <2> DEFINE up == {j \in Starts(pg) : j > s}
  <2>1. CASE up = {}
    BY <1>1, <2>1 DEF EndOf
  <2>2. CASE up # {}
    <3> DEFINE m == CHOOSE j \in up : \A i \in up : j <= i
    <3>1. up \in SUBSET (kKeyMin..kKeyMax)
      BY <1>1
    <3>2. m \in up
      BY <2>2, <3>1, MinKey
    <3>3. EndOf(pg, s) = m
      BY <2>2 DEF EndOf
    <3> HIDE DEF m
    <3> QED  BY <1>1, <1>4, <3>1, <3>2, <3>3
  <2> QED  BY <2>1, <2>2
<1>6. {j \in DOMAIN pg.recs : j <= s} = {j \in DOMAIN pg.recs : j <= k}
  <2>1. \A j \in DOMAIN pg.recs : j \in Starts(pg) /\ j \in Int
    BY <1>1 DEF Starts
  <2>2. \A j \in DOMAIN pg.recs : j <= s <=> j <= k
    BY <1>1, <1>2, <1>3, <2>1
  <2> QED  BY <2>2, Zenon
<1>7. ChildFor(pg, s) = ChildFor(pg, k)
  <2> DEFINE last(B) == IF B = {} THEN pg.leftmost
                        ELSE pg.recs[CHOOSE j \in B : \A i \in B : i <= j]
  <2>1. \A x : ChildFor(pg, x) = last({j \in DOMAIN pg.recs : j <= x})
    BY Zenon DEF ChildFor
  <2> HIDE DEF last
  <2> QED  BY <1>6, <2>1
<1> QED  BY <1>3, <1>5, <1>7

\* What a range query finds agrees with point lookups, whatever mix of current,
\* outdated and invalidated entries the caches hold.
THEOREM RangeAgrees == Spec => []RangeCovers
<1> SUFFICES Inv => RangeCovers
  BY InvHolds, PTL
<1> SUFFICES ASSUME Inv, NEW n \in Node, NEW from \in Key, NEW to \in Key,
                    NEW k \in Key, from <= k, k <= to,
                    NEW e \in search_from_cache(cache[n], k)
             PROVE  ChildFor(e.page, k) \in RangeLeaves(cache[n], from, to)
  BY DEF RangeCovers
<1> DEFINE C == cache[n]
<1>1. /\ from \in Int /\ to \in Int /\ k \in Int /\ k \in KeyRange
  BY KeyInts, TreeAssumption DEF KeyRange
<1>2. /\ e \in find_entry(C, k) /\ e \in C /\ e.page # NoPage
      /\ e.from <= k /\ k <= e.to
  BY DEF search_from_cache, find_entry
<1>3. ASSUME NEW f \in C, f.page # NoPage
      PROVE  /\ IsPageRecord(f.page) /\ Linked(mem, f.page)
             /\ f.from = f.page.lowest /\ f.to = f.page.highest - 1
             /\ f.from \in Int /\ f.to \in Int /\ f.from <= f.to
  <2>1. Copy(f)
    BY <1>3 DEF Inv, CacheInv
  <2>2. f.page.lowest \in Int /\ f.page.highest \in Int
    BY <2>1, RecordInts DEF Copy
  <2> QED  BY <2>1, <2>2 DEF Copy, Linked
<1>4. e.page \in search_range_from_cache(C, from, to)
  <2> DEFINE at == {f \in C : /\ f.page # NoPage
                              /\ ~Before(f, [from |-> from, to |-> from])}
  <2>1. e \in at
    BY <1>1, <1>2, <1>3 DEF Before
  <2>2. ASSUME NEW f \in at, f.from > to
        PROVE  f # e /\ ~Before(f, e)
    <3>1. /\ f.from \in Int /\ f.to \in Int /\ f.from <= f.to
          /\ e.from \in Int /\ e.to \in Int
      BY <1>2, <1>3
    <3>2. f # e
      BY <1>1, <1>2, <2>2, <3>1
    <3>3. ~Before(f, [from |-> k, to |-> k])
      BY <1>1, <2>2, <3>1 DEF Before
    <3>4. Before(e, f)
      BY <1>2, <2>2, <3>2, <3>3 DEF find_entry
    <3> QED  BY <3>1, <3>2, <3>4 DEF Before
  <2>3. search_range_from_cache(C, from, to) =
          {g.page : g \in {g \in at : \A f \in at :
                              f.from > to => f # g /\ ~Before(f, g)}}
    BY DEF search_range_from_cache
  <2> HIDE DEF at
  <2> QED  BY <2>1, <2>2, <2>3
<1>5. PICK s \in Starts(e.page) :
         /\ s <= k /\ k < EndOf(e.page, s)
         /\ s \in Int /\ EndOf(e.page, s) \in Int
         /\ ChildFor(e.page, s) = ChildFor(e.page, k)
  <2>1. /\ IsPageRecord(e.page) /\ Linked(mem, e.page)
        /\ e.page.lowest <= k /\ k <= e.page.highest - 1
        /\ e.page.highest \in Int
    BY <1>2, <1>3, RecordInts
  <2>2. k < e.page.highest
    BY <1>1, <2>1
  <2> QED  BY <1>1, <2>1, <2>2, ChildRange
<1>6. from <= EndOf(e.page, s) /\ s <= to
  BY <1>1, <1>5
<1> QED  BY <1>4, <1>5, <1>6 DEF RangeLeaves

-----------------------------------------------------------------------------
(* One memory node: a page that a split has added stays out of reach until *)
(* the shrunk page is in memory.                                           *)

\* Pages and root pointer are on one memory node, so that a client's page
\* write and its later reads, writes and compare-and-swaps take place in order.
OneNode == \A a \in Addr : MemNode[a] = RootNode

\* The pages that were split off pages whose new version is still posted.
Hidden == {w.page.sibling : w \in posted}

\* The client that has posted a page waits with the separator.
OwnerInv ==
  \A w \in posted :
    /\ Pending(w.t) /\ th[w.t].v = w.page.sibling
    /\ th[w.t].pc \in {"grow", "store", "search"}
    /\ \A x \in posted : x.t = w.t => x = w
    /\ w.page.highest # kKeyMax
    /\ mem[w.page.sibling].highest = mem[w.addr].highest
    /\ w.addr \notin Hidden

\* A page that leads to no page of S.
Avoids(pg, S) ==
  pg.sibling \notin S /\ \A v \in S : ~ChildOf(pg, v)

\* No page, client or cached copy leads to a hidden page.
UnseenInv ==
  /\ \A a \in Addr : IsPage(a) => Avoids(mem[a], Hidden)
  /\ \A t \in Thread : Busy(t) =>
       /\ th[t].p \notin Hidden
       /\ \A l \in PathLevel : th[t].path[l] \notin Hidden
  /\ \A n \in Node : \A e \in cache[n] : e.page # NoPage =>
       \A v \in Hidden : ~ChildOf(e.page, v)

\* A root whose compare-and-swap failed is not a leaf.
LeavesInv == \A a \in Addr : IsPage(a) /\ Lev(a) = 0 => a \in Live

\* The hidden pages, with one memory node.
HideInv == OwnerInv /\ UnseenInv /\ LeavesInv

\* A hidden page is in the tree, right of its left neighbour.
LEMMA HiddenLive ==
  ASSUME Inv, OwnerInv, NEW v \in Hidden
  PROVE  /\ v \in Live /\ v \in Addr /\ IsPage(v) /\ v # Null
         /\ Low(v) # kKeyMin
         /\ \E t \in Thread : Pending(t) /\ th[t].v = v
<1>1. PICK w \in posted : v = w.page.sibling
  BY DEF Hidden
<1>2. Pending(w.t) /\ th[w.t].v = v /\ w.t \in Thread /\ Busy(w.t)
  BY <1>1 DEF OwnerInv, Inv, TypeInv, IsWrite, Pending, Carries, Busy
<1>3. v \in Live /\ Low(v) = th[w.t].k
  BY <1>2 DEF Inv, PendingInv, Fresh
<1>4. Low(v) # kKeyMin
  BY <1>2, <1>3, AtPage, KeyInts
<1> QED  BY <1>2, <1>3, <1>4, LivePage DEF Addr, Null

\* A root is not hidden.
LEMMA RootNotHidden ==
  ASSUME Inv, OwnerInv, NEW a, IsRoot(a)
  PROVE  a \notin Hidden
BY HiddenLive DEF IsRoot

\* With one memory node a client that reads, locks or writes has nothing
\* posted.
LEMMA NothingPosted ==
  ASSUME Inv, OneNode, NEW t \in Thread, NEW m,
         Drained(t, m), m = RootNode \/ \E a \in Addr : m = MemNode[a]
  PROVE  \A w \in posted : w.t # t
BY DEF OneNode, Drained, Inv, TypeInv, IsWrite

\* Neither has one that is between the lock and the write, or is done.
LEMMA HolderPostedNothing ==
  ASSUME OwnerInv, NEW t \in Thread,
         ~(th[t].pc \in {"grow", "store", "search"})
  PROVE  \A w \in posted : w.t # t
BY DEF OwnerInv

\* A step that neither writes memory nor posts.
LEMMA HideQuiet ==
  ASSUME Inv, HideInv, NEW t \in Thread, Moves(t),
         UNCHANGED <<mem, posted, rootPtr>>,
         (\E w \in posted : w.t = t) =>
           /\ Pending(t)' /\ th'[t].v = th[t].v
           /\ th'[t].pc \in {"grow", "store", "search"},
         Busy(t)' =>
           /\ th'[t].p \notin Hidden
           /\ \A l \in PathLevel : th'[t].path[l] \notin Hidden,
         \A n \in Node : \A e \in cache'[n] :
           \/ e \in cache[n] \/ e.page = NoPage
           \/ \A v \in Hidden : ~ChildOf(e.page, v)
  PROVE  HideInv'
<1>1. Hidden' = Hidden
  BY DEF Hidden
<1>2. OwnerInv'
  <2> SUFFICES ASSUME NEW w \in posted
               PROVE  /\ Pending(w.t)' /\ th'[w.t].v = th[w.t].v
                      /\ th'[w.t].pc \in {"grow", "store", "search"}
    BY <1>1 DEF HideInv, OwnerInv
  <2>1. /\ w.t \in Thread /\ Pending(w.t)
        /\ th[w.t].pc \in {"grow", "store", "search"}
    BY DEF Inv, TypeInv, IsWrite, HideInv, OwnerInv
  <2>2. CASE w.t = t
    BY <2>2
  <2>3. CASE w.t # t
    <3>1. th'[w.t] = th[w.t]
      BY <2>1, <2>3 DEF Moves
    <3> QED  BY <2>1, <3>1 DEF Pending, Carries, Busy
  <2> QED  BY <2>2, <2>3
<1>3. UnseenInv'
  <2>1. \A a \in Addr : IsPageIn(mem', a) => Avoids(mem'[a], Hidden)
    BY DEF HideInv, UnseenInv, IsPage
  <2>2. ASSUME NEW u \in Thread, Busy(u)'
        PROVE  /\ th'[u].p \notin Hidden
               /\ \A l \in PathLevel : th'[u].path[l] \notin Hidden
    <3>1. CASE u = t
      BY <2>2, <3>1
    <3>2. CASE u # t
      <4>1. th'[u] = th[u] /\ Busy(u)
        BY <2>2, <3>2 DEF Moves, Busy
      <4> QED  BY <4>1 DEF HideInv, UnseenInv
    <3> QED  BY <3>1, <3>2
  <2>3. ASSUME NEW n \in Node, NEW e \in cache'[n], e.page # NoPage,
               NEW v \in Hidden
        PROVE  ~ChildOf(e.page, v)
    BY <2>3 DEF HideInv, UnseenInv
  <2> QED  BY <1>1, <2>1, <2>2, <2>3 DEF UnseenInv, IsPage
<1>4. LeavesInv'
  BY DEF HideInv, LeavesInv, IsPage, Live, Lev
<1> QED  BY <1>2, <1>3, <1>4 DEF HideInv

\* A step of page_search.
LEMMA VisitHides ==
  ASSUME Inv, HideInv, OneNode, NEW t \in Thread, NEW pc \in Pcs, NEW p,
         Reads(t), Visit(t, pc, p), p \notin Hidden
  PROVE  HideInv'
<1> DEFINE c == th[t]
           d == th'[t]
           pg == mem[c.p]
<1>0. c.pc = "search" /\ Busy(t) /\ Drained(t, MemNode[c.p])
  BY DEF Reads, At, Busy
<1>1. c.p \in Addr /\ IsPage(c.p)
  BY <1>0, AtPage
<1>2. \A w \in posted : w.t # t
  BY <1>0, <1>1, NothingPosted
<1>3. Moves(t) /\ d.p = p /\ d.path = [c.path EXCEPT ![pg.level] = c.p]
  BY <1>1, VisitMoves DEF Inv
<1>4. UNCHANGED <<mem, posted, rootPtr>>
  BY DEF Visit
<1>5. \A l \in PathLevel : d.path[l] \notin Hidden
  <2>1. c.path \in [PathLevel -> Addr \cup {Null}]
    BY ThreadRecordElim DEF Inv
  <2>2. \A l \in PathLevel : d.path[l] = c.path[l] \/ d.path[l] = c.p
    BY <1>3, <2>1
  <2>3. c.p \notin Hidden /\ \A l \in PathLevel : c.path[l] \notin Hidden
    BY <1>0 DEF HideInv, UnseenInv
  <2> QED  BY <2>2, <2>3
<1>6. \A v \in Hidden : ~ChildOf(pg, v)
  BY <1>1 DEF HideInv, UnseenInv, Avoids
<1>7. ASSUME NEW n \in Node, NEW e \in cache'[n]
      PROVE  \/ e \in cache[n] \/ e.page = NoPage
             \/ \A v \in Hidden : ~ChildOf(e.page, v)
  <2>1. CASE UNCHANGED cache
    BY <2>1
  <2>2. CASE \E C \in add_to_cache(cache[NodeOf[t]], pg) :
               cache' = [cache EXCEPT ![NodeOf[t]] = C]
    <3>1. PICK C \in add_to_cache(cache[NodeOf[t]], pg) :
            cache' = [cache EXCEPT ![NodeOf[t]] = C]
      BY <2>2
    <3>2. cache = [m \in Node |-> cache[m]] /\ NodeOf[t] \in Node
      BY TreeAssumption DEF Inv, TypeInv
    <3>3. CASE n # NodeOf[t]
      BY <3>1, <3>2, <3>3
    <3>4. CASE n = NodeOf[t]
      <4>1. e \in C
        BY <3>1, <3>2, <3>4
      <4>2. \A f \in cache[n] : IsEntry(f)
        BY DEF Inv, CacheInv
      <4>3. \/ e \in cache[n] \/ e.page = NoPage
            \/ e = [from |-> pg.lowest, to |-> pg.highest - 1, page |-> pg]
        BY <3>1, <3>4, <4>1, <4>2, AddedEntries
      <4> QED  BY <1>6, <4>3
    <3> QED  BY <3>3, <3>4
  <2> QED  BY <2>1, <2>2 DEF Visit
<1> QED  BY <1>2, <1>3, <1>4, <1>5, <1>7, HideQuiet

\* The steps of page_search, down or to the right.
LEMMA SearchHides ==
  ASSUME Inv, HideInv, OneNode, NEW t \in Thread,
         TurnRight(t) \/ Descend(t) \/ ReachLeaf(t)
  PROVE  HideInv'
<1> DEFINE c == th[t]
           pg == mem[c.p]
<1>0. Reads(t) /\ c.pc = "search" /\ Busy(t)
  BY DEF TurnRight, Descend, ReachLeaf, Reads, At, Busy
<1>1. /\ c.p \in Addr /\ IsPage(c.p) /\ IsPageRecord(pg) /\ Linked(mem, pg)
      /\ c.k \in KeyRange
  BY <1>0, AtPage
<1>2. Avoids(pg, Hidden) /\ c.p \notin Hidden
  BY <1>0, <1>1 DEF HideInv, UnseenInv
<1>3. CASE TurnRight(t)
  <2>1. Visit(t, "search", pg.sibling) /\ "search" \in Pcs
    BY <1>3 DEF TurnRight, Pcs
  <2>2. pg.sibling \notin Hidden
    BY <1>2 DEF Avoids
  <2> QED  BY <1>0, <2>1, <2>2, VisitHides
<1>4. CASE Descend(t)
  <2> DEFINE x == ChildFor(pg, c.k)
             pc == IF c.call.op # "search" /\ pg.level = c.level + 1
                     THEN "store" ELSE "search"
  <2>1. Visit(t, pc, x) /\ pc \in Pcs /\ ~IsLeaf(pg) /\ pg.lowest <= c.k
    BY <1>4 DEF Descend, Pcs, InPage
  <2> HIDE DEF pc
  <2>2. ChildOf(pg, x)
    BY <1>1, <2>1, ChildFound
  <2>3. x \notin Hidden
    BY <1>2, <2>2 DEF Avoids
  <2> QED  BY <1>0, <2>1, <2>3, VisitHides
<1>5. CASE ReachLeaf(t)
  <2>1. Visit(t, "store", c.p) /\ "store" \in Pcs
    BY <1>5 DEF ReachLeaf, Pcs
  <2> QED  BY <1>0, <1>2, <2>1, VisitHides
<1> QED  BY <1>3, <1>4, <1>5

\* Where t is and where it came from are out of sight of hidden pages.
LEMMA PathUnseen ==
  ASSUME HideInv, NEW t \in Thread, Busy(t)
  PROVE  /\ th[t].p \notin Hidden
         /\ \A l \in PathLevel : th[t].path[l] \notin Hidden
BY DEF HideInv, UnseenInv

\* The caches, when one loses a page.
LEMMA ClearedHides ==
  ASSUME Inv, NEW m \in Node, NEW from, NEW to,
         cache' = [cache EXCEPT ![m] = Cleared(@, from, to)],
         NEW n \in Node, NEW e \in cache'[n]
  PROVE  e \in cache[n] \/ e.page = NoPage
<1>1. cache = [x \in Node |-> cache[x]]
  BY DEF Inv, TypeInv
<1>2. CASE n # m
  BY <1>1, <1>2
<1>3. CASE n = m
  <2>1. e \in Cleared(cache[n], from, to)
    BY <1>1, <1>3
  <2>2. \A f \in cache[n] : IsEntry(f)
    BY DEF Inv, CacheInv
  <2> QED  BY <2>1, <2>2, ClearedEntries
<1> QED  BY <1>2, <1>3

\* search and Return end, or begin again at a root.
LEMMA EndHides ==
  ASSUME Inv, HideInv, OneNode, NEW t \in Thread,
         ReadLeaf(t) \/ Return(t)
  PROVE  HideInv'
<1>1. /\ Moves(t) /\ ~Busy(t)'
      /\ UNCHANGED <<mem, posted, rootPtr, cache>>
  <2>1. CASE ReadLeaf(t)
    BY <2>1, ReadLeafMoves DEF Inv, Busy, ReadLeaf, others
  <2>2. CASE Return(t)
    <3>1. Moves(t) /\ th'[t] = Idle
      BY <2>2, ReturnMoves DEF Inv
    <3>2. th'[t].pc = "idle"
      BY <3>1 DEF Idle
    <3>3. ~Busy(t)'
      BY <3>2 DEF Busy
    <3>4. UNCHANGED <<mem, posted, rootPtr, cache>>
      BY <2>2 DEF Return
    <3> QED  BY <3>1, <3>3, <3>4
  <2> QED  BY <2>1, <2>2
<1>2. \A w \in posted : w.t # t
  <2>1. CASE ReadLeaf(t)
    <3>1. Drained(t, MemNode[th[t].p]) /\ Busy(t)
      BY <2>1 DEF ReadLeaf, Reads, At, Busy
    <3> QED  BY <3>1, AtPage, NothingPosted
  <2>2. CASE Return(t)
    BY <2>2, HolderPostedNothing DEF HideInv, Return, At
  <2> QED  BY <2>1, <2>2
<1> QED  BY <1>1, <1>2, HideQuiet

\* A hit of the cache turns out to be stale.
LEMMA StaleHides ==
  ASSUME Inv, HideInv, OneNode, NEW t \in Thread,
         StaleSearch(t) \/ StaleStore(t)
  PROVE  HideInv'
<1> DEFINE c == th[t]
           d == th'[t]
<1>0. PICK r : /\ Restart(t, r)
               /\ (r = c.root \/ r = RootFor(NodeOf[t]))
               /\ UNCHANGED <<mem, posted, rootPtr>>
               /\ Busy(t)
  BY DEF StaleSearch, StaleStore, Reads, At, Busy
<1>1. Restart(t, r) /\ UNCHANGED <<mem, posted, rootPtr>> /\ Busy(t)
  BY <1>0
<1>2. IsRoot(r)
  BY <1>0, <1>1, RootForIsRoot, AtPage, TreeAssumption DEF Placed
<1>3. Moves(t) /\ d.p = r /\ Keeps(t, {"pc", "root", "p", "entry", "buf"})
  BY <1>1, RestartMoves DEF Inv
<1>4. d.path = c.path
  BY <1>3 DEF Keeps, Fields
<1>5. \A w \in posted : w.t # t
  <2>1. CASE StaleSearch(t)
    <3>1. Drained(t, MemNode[c.p])
      BY <2>1 DEF StaleSearch, Reads
    <3> QED  BY <1>1, <3>1, AtPage, NothingPosted
  <2>2. CASE StaleStore(t)
    BY <2>2, HolderPostedNothing DEF HideInv, StaleStore, At
  <2> QED  BY <2>1, <2>2
<1>6. r \notin Hidden /\ \A l \in PathLevel : d.path[l] \notin Hidden
  BY <1>1, <1>2, <1>4, RootNotHidden, PathUnseen DEF HideInv
<1>7. \A n \in Node : \A e \in cache'[n] : e \in cache[n] \/ e.page = NoPage
  BY <1>1, ClearedHides, TreeAssumption DEF Restart
<1> QED  BY <1>1, <1>3, <1>5, <1>6, <1>7, HideQuiet

\* A client locks a page, or unlocks it and goes right.
LEMMA LockHides ==
  ASSUME Inv, HideInv, OneNode, NEW t \in Thread,
         LockAndRead(t) \/ MoveRight(t)
  PROVE  HideInv'
<1> DEFINE c == th[t]
           d == th'[t]
<1>0. Busy(t) /\ UNCHANGED <<mem, posted, rootPtr, cache>>
  BY DEF LockAndRead, MoveRight, At, Busy, others
<1>1. c.p \in Addr /\ IsPage(c.p)
  BY <1>0, AtPage
<1>2. CASE LockAndRead(t)
  <2>1. Moves(t) /\ Keeps(t, {"pc", "buf"})
    BY <1>2, LockAndReadMoves DEF Inv
  <2>2. d.p = c.p /\ d.path = c.path
    BY <2>1 DEF Keeps, Fields
  <2>3. \A w \in posted : w.t # t
    BY <1>1, <1>2, NothingPosted DEF LockAndRead
  <2> QED  BY <1>0, <2>1, <2>2, <2>3, PathUnseen, HideQuiet
<1>3. CASE MoveRight(t)
  <2>0. c.pc = "modify"
    BY <1>3 DEF MoveRight, At
  <2>1. Moves(t) /\ d.p = c.buf.sibling /\ Keeps(t, {"pc", "p"})
    BY <1>3, MoveRightMoves DEF Inv
  <2>2. d.path = c.path
    BY <2>1 DEF Keeps, Fields
  <2>3. \A w \in posted : w.t # t
    BY <2>0, HolderPostedNothing DEF HideInv
  <2>4. c.buf = mem[c.p]
    BY <2>0, HoldsPage
  <2>5. c.buf.sibling \notin Hidden
    BY <1>1, <2>4 DEF HideInv, UnseenInv, Avoids
  <2> QED  BY <1>0, <2>1, <2>2, <2>3, <2>5, PathUnseen, HideQuiet
<1> QED  BY <1>2, <1>3

\* An operation begins.
LEMMA StartHides ==
  ASSUME Inv, HideInv, OneNode, NEW t \in Thread, Start(t)
  PROVE  HideInv'
<1> DEFINE d == th'[t]
           n == NodeOf[t]
           r == RootFor(n)
<1>0. n \in Node /\ ops[t] < Len(Calls(t)) /\ th[t].pc = "idle"
  BY TreeAssumption DEF Start, At
<1>1. UNCHANGED <<mem, posted, rootPtr, cache>>
  BY DEF Start
<1>2. Moves(t)
  BY StartMoves DEF Inv
<1>3. PICK c \in Calls(t)[ops[t] + 1] :
        \/ /\ Begun(t, c, r, r, "search")
           /\ d.entry = NoEntry
        \/ /\ CacheOn(n)
           /\ \E e \in search_from_cache(cache[n], c.k) :
                Begun(t, c, r, ChildFor(e.page, c.k),
                      IF c.op = "search" THEN "search" ELSE "store")
  BY StartMoves DEF Inv
<1>4. c.k \in KeyRange /\ c.k \in Int
  BY <1>0, CallIsOperation, KeyInts DEF KeyRange
<1>5. r \notin Hidden
  BY <1>0, RootForIsRoot, RootNotHidden DEF HideInv
<1>6. d.p \notin Hidden /\ d.path = NoPath
  <2>1. CASE Begun(t, c, r, r, "search")
    BY <1>5, <2>1 DEF Begun
  <2>2. CASE \E e \in search_from_cache(cache[n], c.k) :
               Begun(t, c, r, ChildFor(e.page, c.k),
                     IF c.op = "search" THEN "search" ELSE "store")
    <3>1. PICK e \in search_from_cache(cache[n], c.k) :
            Begun(t, c, r, ChildFor(e.page, c.k),
                  IF c.op = "search" THEN "search" ELSE "store")
      BY <2>2
    <3>2. e \in cache[n] /\ e.page # NoPage /\ e.from <= c.k
      BY DEF search_from_cache, find_entry
    <3>3. Copy(e)
      BY <1>0, <3>2 DEF Inv, CacheInv
    <3>4. /\ IsPageRecord(e.page) /\ Linked(mem, e.page) /\ ~IsLeaf(e.page)
          /\ e.page.lowest <= c.k
      BY <3>2, <3>3, LeafLevel DEF Copy
    <3>5. ChildOf(e.page, ChildFor(e.page, c.k))
      BY <1>4, <3>4, ChildFound
    <3>6. ChildFor(e.page, c.k) \notin Hidden
      BY <1>0, <3>2, <3>5 DEF HideInv, UnseenInv
    <3>7. d.p = ChildFor(e.page, c.k) /\ d.path = NoPath
      BY <3>1 DEF Begun
    <3> QED  BY <3>6, <3>7
  <2> QED  BY <1>3, <2>1, <2>2
<1>7. \A l \in PathLevel : d.path[l] \notin Hidden
  <2>1. \A l \in PathLevel : d.path[l] = Null
    BY <1>6 DEF NoPath, PathLevel
  <2>2. Null \notin Hidden
    BY HiddenLive DEF HideInv
  <2> QED  BY <2>1, <2>2
<1>8. \A w \in posted : w.t # t
  BY <1>0, HolderPostedNothing DEF HideInv
<1> QED  BY <1>1, <1>2, <1>6, <1>7, <1>8, HideQuiet

\* The separator goes one level up.
LEMMA UpHides ==
  ASSUME Inv, HideInv, OneNode, NEW t \in Thread,
         StoreUp(t) \/ InsertInternal(t)
  PROVE  HideInv'
<1> DEFINE c == th[t]
           d == th'[t]
<1>0. Carries(t) /\ Busy(t) /\ Pending(t)
  BY DEF StoreUp, InsertInternal, Splitting, At, Carries, Busy, Pending
<1>1. UNCHANGED <<mem, posted, rootPtr, cache>>
  BY DEF StoreUp, InsertInternal, others
<1>2. c.level \in Level /\ c.level \in Nat /\ c.level + 1 \in PathLevel
  BY ThreadRecordElim, TreeAssumption DEF Inv, Level, PathLevel
<1>3. c.p \notin Hidden /\ \A l \in PathLevel : c.path[l] \notin Hidden
  BY <1>0, PathUnseen
<1>4. CASE StoreUp(t)
  <2>1. UpLevel(t) = c.path[c.level + 1] /\ UpLevel(t) # Null
    BY <1>4 DEF StoreUp, UpLevel
  <2>2. c.path[c.level + 1] \in Live /\ Lev(c.path[c.level + 1]) = c.level + 1
    BY <1>0, <1>2, <2>1, AtPage DEF PathDown
  <2>3. c.level + 1 \in Level
    BY <2>2, LiveTypes
  <2>4. /\ Moves(t) /\ d.pc = "store" /\ d.p = c.path[c.level + 1]
        /\ d.level = c.level + 1 /\ Keeps(t, {"pc", "p", "level"})
    BY <1>4, <2>1, <2>3, StoreUpMoves DEF Inv
  <2>5. d.path = c.path /\ d.v = c.v
    BY <2>4 DEF Keeps, Fields
  <2>6. Pending(t)'
    BY <1>2, <2>4 DEF Pending, Busy
  <2> QED  BY <1>1, <1>2, <1>3, <2>4, <2>5, <2>6, HideQuiet
<1>5. CASE InsertInternal(t)
  <2>1. c.level + 1 \in Level
    <3>1. FromCache(t)
      BY <1>5 DEF InsertInternal
    <3>2. c.level = 0 /\ CacheOn(NodeOf[t])
      BY <1>0, <3>1, AtPage DEF Placed
    <3> QED  BY <3>2, RootForIsRoot, TreeAssumption
  <2>2. /\ Moves(t) /\ d.pc = "search" /\ d.level = c.level + 1
        /\ d.p = RootFor(NodeOf[t])
        /\ Keeps(t, {"pc", "level", "root", "p", "entry"})
    BY <1>5, <2>1, InsertInternalMoves DEF Inv
  <2>3. d.path = c.path /\ d.v = c.v
    BY <2>2 DEF Keeps, Fields
  <2>4. Pending(t)'
    BY <1>2, <2>2 DEF Pending, Busy
  <2>5. RootFor(NodeOf[t]) \notin Hidden
    BY RootForIsRoot, RootNotHidden, TreeAssumption DEF HideInv
  <2> QED  BY <1>1, <1>3, <2>2, <2>3, <2>4, <2>5, HideQuiet
<1> QED  BY <1>4, <1>5

\* A step that leaves all of this alone.
LEMMA StutterHides ==
  ASSUME HideInv, UNCHANGED <<mem, posted, rootPtr, cache, th>>
  PROVE  HideInv'
<1>1. Hidden' = Hidden
  BY DEF Hidden
<1>2. OwnerInv'
  BY <1>1 DEF HideInv, OwnerInv, Pending, Carries, Busy
<1>3. UnseenInv'
  BY <1>1 DEF HideInv, UnseenInv, IsPage, Busy
<1>4. LeavesInv'
  BY DEF HideInv, LeavesInv, IsPage, Live, Lev
<1> QED  BY <1>2, <1>3, <1>4 DEF HideInv

\* A step of a client with nothing posted, that posts nothing.
LEMMA HideWritten ==
  ASSUME Inv, HideInv, NEW t \in Thread, Moves(t),
         UNCHANGED <<posted, cache>>,
         \A w \in posted : w.t # t,
         \A a \in Addr : IsPageIn(mem, a)
             /\ (a \in Hidden \/ \E w \in posted : w.addr = a) =>
               mem'[a].highest = mem[a].highest,
         \A a \in Addr : IsPageIn(mem', a) =>
           \/ IsPageIn(mem, a) /\ mem'[a] = mem[a]
           \/ Avoids(mem'[a], Hidden),
         \A a \in Addr : IsPageIn(mem', a) /\ mem'[a].level = 0 =>
           a \in Live',
         Busy(t)' =>
           /\ th'[t].p \notin Hidden
           /\ \A l \in PathLevel : th'[t].path[l] \notin Hidden
  PROVE  HideInv'
<1>1. Hidden' = Hidden
  BY DEF Hidden
<1>2. OwnerInv'
  <2> SUFFICES ASSUME NEW w \in posted
               PROVE  /\ Pending(w.t)' /\ th'[w.t].v = th[w.t].v
                      /\ th'[w.t].pc \in {"grow", "store", "search"}
                      /\ mem'[w.page.sibling].highest = mem'[w.addr].highest
    BY <1>1 DEF HideInv, OwnerInv
  <2>1. /\ w.t \in Thread /\ Pending(w.t) /\ w.t # t
        /\ th[w.t].pc \in {"grow", "store", "search"}
    BY DEF Inv, TypeInv, IsWrite, HideInv, OwnerInv
  <2>2. th'[w.t] = th[w.t]
    BY <2>1 DEF Moves
  <2>3. w.page.sibling \in Hidden
    BY DEF Hidden
  <2>4. /\ w.page.sibling \in Addr /\ IsPageIn(mem, w.page.sibling)
        /\ w.addr \in Addr /\ IsPageIn(mem, w.addr)
    BY <2>3, HiddenLive, LivePage DEF HideInv, Inv, PostedInv, IsPage
  <2>5. mem[w.page.sibling].highest = mem[w.addr].highest
    BY DEF HideInv, OwnerInv
  <2> QED  BY <2>1, <2>2, <2>3, <2>4, <2>5 DEF Pending, Carries, Busy
<1>3. UnseenInv'
  <2>1. \A a \in Addr : IsPageIn(mem', a) => Avoids(mem'[a], Hidden)
    BY DEF HideInv, UnseenInv, IsPage
  <2>2. ASSUME NEW u \in Thread, Busy(u)'
        PROVE  /\ th'[u].p \notin Hidden
               /\ \A l \in PathLevel : th'[u].path[l] \notin Hidden
    <3>1. CASE u = t
      BY <2>2, <3>1
    <3>2. CASE u # t
      <4>1. th'[u] = th[u] /\ Busy(u)
        BY <2>2, <3>2 DEF Moves, Busy
      <4> QED  BY <4>1 DEF HideInv, UnseenInv
    <3> QED  BY <3>1, <3>2
  <2>3. ASSUME NEW n \in Node, NEW e \in cache'[n], e.page # NoPage,
               NEW v \in Hidden
        PROVE  ~ChildOf(e.page, v)
    BY <2>3 DEF HideInv, UnseenInv
  <2> QED  BY <1>1, <2>1, <2>2, <2>3 DEF UnseenInv, IsPage
<1>4. LeavesInv'
  BY DEF LeavesInv, IsPage, Lev
<1> QED  BY <1>2, <1>3, <1>4 DEF HideInv

\* What del writes.
LEMMA DeleteEntryDoes ==
  ASSUME Inv, NEW t \in Thread, DeleteEntry(t)
  PROVE  LET p == th[t].p
             pg == mem[p]
             q == mem'[p] IN
         /\ IsLeaf(pg) /\ IsLeaf(q) /\ IsPageRecord(q)
         /\ q.level = pg.level /\ q.leftmost = pg.leftmost
         /\ q.sibling = pg.sibling /\ q.lowest = pg.lowest
         /\ q.highest = pg.highest
         /\ DOMAIN q.recs = DOMAIN pg.recs \ {th[t].k}
         /\ \A j \in DOMAIN q.recs : q.recs[j] = pg.recs[j]
         /\ mem' = [mem EXCEPT ![p] = q]
<1> DEFINE c == th[t]
           pg == mem[c.p]
           q == [pg EXCEPT !.recs = Only(pg.recs, DOMAIN pg.recs \ {c.k})]
<1>0. c.pc = "modify" /\ c.call.op = "del"
  BY DEF DeleteEntry, At
<1>1. /\ Placed(t) /\ c.p \in Addr /\ mem = [a \in Addr |-> mem[a]]
      /\ IsPageRecord(pg) /\ Linked(mem, pg) /\ pg.level = c.level
      /\ c.level \in Nat
  BY <1>0, HoldsPage DEF Inv, TypeInv
<1>2. mem' = [mem EXCEPT ![c.p] = q]
  BY DEF DeleteEntry
<1>3. q = [level |-> pg.level, leftmost |-> pg.leftmost,
           sibling |-> pg.sibling, lowest |-> pg.lowest,
           highest |-> pg.highest,
           recs |-> Only(pg.recs, DOMAIN pg.recs \ {c.k})]
  <2>1. pg = [level |-> pg.level, leftmost |-> pg.leftmost,
              sibling |-> pg.sibling, lowest |-> pg.lowest,
              highest |-> pg.highest, recs |-> pg.recs]
    BY <1>1 DEF IsPageRecord
  <2> HIDE DEF pg
  <2> QED  BY <2>1
<1>4. /\ q.level = pg.level /\ q.leftmost = pg.leftmost
      /\ q.sibling = pg.sibling /\ q.lowest = pg.lowest
      /\ q.highest = pg.highest
      /\ q.recs = Only(pg.recs, DOMAIN pg.recs \ {c.k})
      /\ DOMAIN q.recs = DOMAIN pg.recs \ {c.k}
      /\ \A j \in DOMAIN q.recs : q.recs[j] = pg.recs[j]
  BY <1>3 DEF Only
<1> HIDE DEF q
<1>5. IsPageRecord(q)
  BY <1>1, <1>3, <1>4 DEF IsPageRecord, Only
<1>6. IsLeaf(pg) /\ IsLeaf(q)
  <2>1. c.level = 0
    BY <1>0, <1>1 DEF Placed
  <2> QED  BY <1>1, <1>4, <2>1, LeafLevel DEF IsLeaf
<1>7. mem'[c.p] = q
  BY <1>1, <1>2
<1> QED  BY <1>2, <1>4, <1>5, <1>6, <1>7

\* What insert writes when there is room.
LEMMA StoreEntryDoes ==
  ASSUME Inv, NEW t \in Thread, StoreEntry(t)
  PROVE  LET p == th[t].p
             pg == mem[p]
             q == mem'[p] IN
         /\ InPage(pg, th[t].k)
         /\ (IsLeaf(q) <=> IsLeaf(pg)) /\ IsPageRecord(q)
         /\ q.level = pg.level /\ q.leftmost = pg.leftmost
         /\ q.sibling = pg.sibling /\ q.lowest = pg.lowest
         /\ q.highest = pg.highest
         /\ DOMAIN q.recs = DOMAIN pg.recs \cup {th[t].k}
         /\ q.recs[th[t].k] = th[t].v
         /\ \A j \in DOMAIN pg.recs : j # th[t].k => q.recs[j] = pg.recs[j]
         /\ \A x : ChildOf(q, x) => ChildOf(pg, x) \/ x = th[t].v
         /\ mem' = [mem EXCEPT ![p] = q]
         /\ IsLeaf(Stored(th[t].buf, th[t].k, th[t].v)) <=> IsLeaf(pg)
<1> DEFINE c == th[t]
           q == Stored(c.buf, c.k, c.v)
<1>0. c.pc = "modify" /\ InPage(c.buf, c.k)
  BY DEF StoreEntry, At
<1>1. /\ c.p \in Addr /\ c.buf = mem[c.p] /\ IsPageRecord(c.buf)
      /\ c.k \in KeyRange /\ mem = [a \in Addr |-> mem[a]]
  BY <1>0, HoldsPage DEF Inv, TypeInv
<1>2. mem' = [mem EXCEPT ![c.p] = q]
  <2>1. mem' = [mem EXCEPT ![c.p] =
                  IF IsLeaf(q) THEN Stored(mem[c.p], c.k, c.v) ELSE q]
    BY DEF StoreEntry
  <2> QED  BY <1>1, <2>1
<1>3. mem'[c.p] = q
  BY <1>1, <1>2
<1>4. /\ q.level = c.buf.level /\ q.leftmost = c.buf.leftmost
      /\ q.sibling = c.buf.sibling /\ q.lowest = c.buf.lowest
      /\ q.highest = c.buf.highest
      /\ DOMAIN q.recs = DOMAIN c.buf.recs \cup {c.k}
      /\ q.recs[c.k] = c.v
      /\ \A j \in DOMAIN c.buf.recs : j # c.k => q.recs[j] = c.buf.recs[j]
      /\ IsPageRecord(q)
  BY <1>1, StoredFields, SMTT(30)
<1>5. /\ IsLeaf(q) <=> IsLeaf(c.buf)
      /\ \A x : ChildOf(q, x) => ChildOf(c.buf, x) \/ x = c.v
  BY <1>0, StoredHangs
<1> HIDE DEF q
<1> QED  BY <1>0, <1>1, <1>2, <1>3, <1>4, <1>5 DEF q

\* What a split writes and posts: the two halves of the page with the record.
LEMMA SplitDoes ==
  ASSUME Inv, NEW t \in Thread, NEW async \in BOOLEAN, Split(t, async)
  PROVE  LET c == th[t]
             pg == mem[c.p]
             q == Stored(c.buf, c.k, c.v)
             left == LeftHalf(q, next)
             right == RightHalf(q) IN
         /\ c.buf = pg /\ InPage(pg, c.k) /\ next \in Addr
         /\ IsLeaf(q) <=> IsLeaf(pg)
         /\ left.level = pg.level /\ left.lowest = pg.lowest
         /\ left.leftmost = pg.leftmost /\ left.highest = SplitKey(q)
         /\ left.sibling = next
         /\ right.level = pg.level /\ right.lowest = SplitKey(q)
         /\ right.highest = pg.highest /\ right.sibling = pg.sibling
         /\ right.leftmost = Null \/ right.leftmost \in Live
         /\ IsLeaf(right) <=> IsLeaf(pg)
         /\ SplitKey(q) \in Int
         /\ pg.lowest < SplitKey(q) /\ SplitKey(q) < pg.highest
         /\ IsPageRecord(left) /\ IsPageRecord(right)
         /\ \A x : ChildOf(left, x) \/ ChildOf(right, x) =>
                     ChildOf(pg, x) \/ x = c.v
         /\ DOMAIN q.recs = DOMAIN pg.recs \cup {c.k}
         /\ q.recs[c.k] = c.v
         /\ \A j \in DOMAIN pg.recs : j # c.k => q.recs[j] = pg.recs[j]
         /\ DOMAIN left.recs = Below(DOMAIN q.recs, SplitKey(q))
         /\ \A j \in DOMAIN left.recs : left.recs[j] = q.recs[j]
         /\ DOMAIN right.recs = Above(q)
         /\ \A j \in DOMAIN right.recs : right.recs[j] = q.recs[j]
<1> DEFINE c == th[t]
           q == Stored(c.buf, c.k, c.v)
           s == SplitKey(q)
           left == LeftHalf(q, next)
           right == RightHalf(q)
           M == [a \in Addr |-> IF a = next THEN right ELSE mem[a]]
<1>0. /\ c.pc = "modify" /\ InPage(c.buf, c.k) /\ Full(q) /\ next \in Addr
  BY DEF Split, At
<1>1. /\ c.p \in Live /\ c.p \in Addr /\ c.buf = mem[c.p]
      /\ IsPageRecord(c.buf) /\ c.k \in KeyRange
  BY <1>0, HoldsPage
<1>2. /\ q.level = c.buf.level /\ q.leftmost = c.buf.leftmost
      /\ q.sibling = c.buf.sibling /\ q.lowest = c.buf.lowest
      /\ q.highest = c.buf.highest
      /\ DOMAIN q.recs = DOMAIN c.buf.recs \cup {c.k}
      /\ q.recs[c.k] = c.v
      /\ \A j \in DOMAIN c.buf.recs : j # c.k => q.recs[j] = c.buf.recs[j]
      /\ IsPageRecord(q)
  BY <1>1, StoredFields
<1>3. /\ Hangs(mem, q)
      /\ IsLeaf(q) <=> IsLeaf(c.buf)
      /\ \A x : ChildOf(q, x) => ChildOf(c.buf, x) \/ x = c.v
  BY <1>0, StoredHangs
<1>4. ~IsPageIn(mem, next)
  <2>1. next \in Int
    BY <1>0, TreeAssumption DEF Addr
  <2> QED  BY <1>0, <2>1 DEF Inv, PagesInv, IsPage
<1>5. /\ s \in Int /\ q.lowest < s /\ s < q.highest
      /\ left.level = q.level /\ left.lowest = q.lowest
      /\ left.leftmost = q.leftmost /\ left.highest = s
      /\ right.level = q.level /\ right.lowest = s
      /\ right.highest = q.highest
      /\ IsPageRecord(left) /\ IsPageRecord(right)
      /\ right.leftmost = Null \/ right.leftmost \in Live
      /\ \A x : ChildOf(left, x) \/ ChildOf(right, x) => ChildOf(q, x)
  <2>1. \A a \in Addr : IsPageIn(mem, a) =>
          /\ IsPageIn(M, a)
          /\ M[a].level = mem[a].level /\ M[a].lowest = mem[a].lowest
    BY <1>4 DEF IsPageIn
  <2>2. M[next] = RightHalf(q)
    BY <1>0
  <2>3. IsPageRecord(RightHalf(q)) => IsPageIn(M, next)
    BY <1>0, <2>2, PageIsPage DEF IsPageIn
  <2> HIDE DEF M
  <2> HIDE DEF q
  <2>4. q = Stored(th[t].buf, th[t].k, th[t].v)
    BY DEF q
  <2> QED  BY <1>0, <2>1, <2>2, <2>3, <2>4, SplitHalves
<1> HIDE DEF M
<1>6. s \in DOMAIN q.recs /\ s \in KeyRange
  BY <1>0, <1>2, SplitSizes DEF IsPageRecord, KeyRange
<1>7. ~IsLeaf(q) => q.recs[s] \in Addr
  BY <1>3, <1>6 DEF Hangs, IsPageIn
<1>8. /\ left.sibling = next /\ DOMAIN left.recs = Below(DOMAIN q.recs, s)
      /\ \A j \in DOMAIN left.recs : left.recs[j] = q.recs[j]
  BY <1>0, <1>2, <1>6, LeftHalfFields
<1>9. /\ right.sibling = q.sibling /\ DOMAIN right.recs = Above(q)
      /\ \A j \in DOMAIN right.recs : right.recs[j] = q.recs[j]
  BY <1>2, <1>6, <1>7, RightHalfFields
<1>10. IsLeaf(right) <=> IsLeaf(q)
  <2>1. right.leftmost = IF IsLeaf(q) THEN Null ELSE q.recs[s]
    BY <1>2, <1>6, <1>7, RightHalfFields
  <2> QED  BY <1>7, <2>1 DEF IsLeaf, Addr, Null
<1> HIDE DEF q, s, left, right
<1> QED
  BY <1>0, <1>1, <1>2, <1>3, <1>5, <1>8, <1>9, <1>10
     DEF q, s, left, right

\* A page is written in place.
LEMMA InPlaceHides ==
  ASSUME Inv, HideInv, OneNode, NEW t \in Thread,
         DeleteEntry(t) \/ StoreEntry(t)
  PROVE  HideInv'
<1> SUFFICES ASSUME NEW p, p = th[t].p, NEW q, q = mem'[p]
             PROVE  HideInv'
  OBVIOUS
<1>0. /\ th[t].pc = "modify" /\ UNCHANGED <<posted, cache, rootPtr>>
  BY DEF DeleteEntry, StoreEntry, At, others
<1>1. /\ p \in Live /\ p \in Addr /\ p \notin Hidden
      /\ mem[p].level = Lev(p) /\ mem[p].lowest = Low(p)
  BY <1>0, HoldsPage, PathUnseen
<1>2. Moves(t) /\ th'[t].pc = "return"
  BY DeleteEntryMoves, StoreEntryMoves DEF Inv
<1>3. /\ IsPageRecord(q) /\ q.level = mem[p].level
      /\ q.leftmost = mem[p].leftmost /\ q.sibling = mem[p].sibling
      /\ q.lowest = mem[p].lowest /\ q.highest = mem[p].highest
      /\ mem' = [mem EXCEPT ![p] = q]
      /\ \A x : ChildOf(q, x) =>
           ChildOf(mem[p], x) \/ (~IsLeaf(mem[p]) /\ x = th[t].v)
  <2>1. CASE DeleteEntry(t)
    BY <2>1, DeleteEntryDoes DEF ChildOf
  <2>2. CASE StoreEntry(t)
    BY <2>2, StoreEntryDoes, SMTT(30) DEF ChildOf
  <2> QED  BY <2>1, <2>2
<1>4. /\ \A a : IsPageIn(mem', a) <=> IsPageIn(mem, a)
      /\ \A a \in Addr : a # p => mem'[a] = mem[a]
      /\ Live' = Live
  BY <1>0, <1>1, <1>3, Overwritten, ZenonT(30)
<1>5. \A w \in posted : w.t # t
  BY <1>0, HolderPostedNothing DEF HideInv
<1>6. Avoids(q, Hidden)
  <2>1. Avoids(mem[p], Hidden)
    BY <1>1, LivePage DEF HideInv, UnseenInv
  <2>2. ASSUME NEW v \in Hidden, ChildOf(q, v)  PROVE FALSE
    <3>1. ~IsLeaf(mem[p]) /\ v = th[t].v
      BY <1>3, <2>1, <2>2 DEF Avoids
    <3>2. Pending(t)
      BY <1>0, <3>1, HoldsPage, SeparatorFits
    <3>3. PICK w \in posted : v = w.page.sibling
      BY DEF Hidden
    <3>4. w.t \in Thread /\ Pending(w.t) /\ th[w.t].v = v /\ w.t # t
      BY <1>5, <3>3 DEF HideInv, OwnerInv, Inv, TypeInv, IsWrite
    <3> QED  BY <3>1, <3>2, <3>4 DEF Inv, PendingInv
  <2> QED  BY <1>3, <2>1, <2>2 DEF Avoids
<1>7. \A a \in Addr : IsPageIn(mem, a) => mem'[a].highest = mem[a].highest
  BY <1>3, <1>4
<1>8. \A a \in Addr : IsPageIn(mem', a) =>
        \/ IsPageIn(mem, a) /\ mem'[a] = mem[a]
        \/ Avoids(mem'[a], Hidden)
  BY <1>4, <1>6
<1>9. \A a \in Addr : IsPageIn(mem', a) /\ mem'[a].level = 0 => a \in Live'
  <2>1. \A a \in Addr : IsPageIn(mem, a) /\ mem[a].level = 0 => a \in Live
    BY DEF HideInv, LeavesInv, IsPage, Lev
  <2> QED  BY <1>1, <1>4, <2>1
<1>10. ~Busy(t)'
  BY <1>2 DEF Busy
<1> QED
  BY <1>0, <1>2, <1>5, <1>7, <1>8, <1>9, <1>10, HideWritten

\* A new root, whether the tree gets it or not.
LEMMA NewRootHides ==
  ASSUME Inv, HideInv, OneNode, NEW t \in Thread, UpdateNewRoot(t)
  PROVE  HideInv'
<1> SUFFICES ASSUME NEW q, NEW level,
                    level = th[t].level + 1, NEW p, p = th[t].p,
                    q = RootPage(th[t].p, th[t].k, th[t].v, level)
             PROVE  HideInv'
  OBVIOUS
<1> DEFINE c == th[t]
           d == th'[t]
<1>0. /\ c.pc = "grow" /\ p = c.root /\ next \in Addr /\ level \in Level
      /\ mem' = [mem EXCEPT ![next] = q] /\ Drained(t, RootNode)
      /\ UNCHANGED <<posted, cache>>
  BY DEF UpdateNewRoot, At, others
<1>1. (rootPtr = p /\ rootPtr' = next) \/ UNCHANGED rootPtr
  BY <1>0 DEF UpdateNewRoot
<1>2. Moves(t) /\ Keeps(t, {"pc"})
  BY <1>0, UpdateNewRootMoves DEF Inv
<1>3. /\ IsPageRecord(q) /\ q.level = level
      /\ q.lowest = kKeyMin /\ q.leftmost = p
      /\ \A v : ChildOf(q, v) => v = p \/ v = c.v
      /\ p \in Live /\ c.level \in Nat
  BY <1>0, NewRootLinked
<1>4. q.sibling = Null
  BY DEF RootPage
<1>5. /\ ~IsPageIn(mem, next)
      /\ \A a : IsPageIn(mem', a) <=> (IsPageIn(mem, a) \/ a = next)
      /\ \A a \in Addr : a # next => mem'[a] = mem[a]
      /\ mem'[next] = q
      /\ Live' = IF rootPtr' = next THEN Live \cup {next} ELSE Live
  BY <1>0, <1>1, <1>3, RootAdded
<1>6. \A w \in posted : w.t # t
  BY <1>0, NothingPosted
<1>7. Busy(t) /\ Pending(t)
  BY <1>0 DEF Busy, Pending, Carries
<1>8. c.v \notin Hidden
  <2> SUFFICES ASSUME NEW w \in posted, c.v = w.page.sibling  PROVE FALSE
    BY DEF Hidden
  <2>1. w.t \in Thread /\ Pending(w.t) /\ th[w.t].v = c.v /\ w.t # t
    BY <1>6 DEF HideInv, OwnerInv, Inv, TypeInv, IsWrite
  <2> QED  BY <1>7, <2>1 DEF Inv, PendingInv
<1>9. Avoids(q, Hidden)
  <2>1. Null \notin Hidden
    BY HiddenLive DEF HideInv
  <2>2. p \notin Hidden
    BY <1>7, PathUnseen
  <2> QED  BY <1>3, <1>4, <1>8, <2>1, <2>2 DEF Avoids
<1>10. \A a \in Addr : IsPageIn(mem, a) => mem'[a].highest = mem[a].highest
  BY <1>5
<1>11. \A a \in Addr : IsPageIn(mem', a) =>
        \/ IsPageIn(mem, a) /\ mem'[a] = mem[a]
        \/ Avoids(mem'[a], Hidden)
  BY <1>5, <1>9
<1>12. \A a \in Addr : IsPageIn(mem', a) /\ mem'[a].level = 0 => a \in Live'
  <2>1. \A a \in Addr : IsPageIn(mem, a) /\ mem[a].level = 0 => a \in Live
    BY DEF HideInv, LeavesInv, IsPage, Lev
  <2>2. level # 0
    BY <1>3
  <2> QED  BY <1>3, <1>5, <2>1, <2>2
<1>13. d.p = c.p /\ d.path = c.path
  BY <1>2 DEF Keeps, Fields
<1>14. c.p \notin Hidden /\ \A l \in PathLevel : c.path[l] \notin Hidden
  BY <1>7, PathUnseen
<1> QED
  BY <1>0, <1>2, <1>6, <1>10, <1>11, <1>12, <1>13, <1>14, HideWritten

\* Pages lead to pages.
LEMMA LeadsToPages ==
  ASSUME NEW pg, Linked(mem, pg), NEW x, x # Null, ~IsPageIn(mem, x)
  PROVE  pg.sibling # x /\ ~ChildOf(pg, x)
BY DEF Linked, ChildOf

\* A split: the new page stays hidden until the shrunk page is written.
LEMMA SplitHides ==
  ASSUME Inv, HideInv, OneNode, NEW t \in Thread, NEW async \in BOOLEAN,
         Split(t, async)
  PROVE  HideInv'
<1> SUFFICES ASSUME NEW p, p = th[t].p, NEW q,
                    q = Stored(th[t].buf, th[t].k, th[t].v),
                    NEW left, left = LeftHalf(q, next),
                    NEW right, right = RightHalf(q)
             PROVE  HideInv'
  OBVIOUS
<1> DEFINE c == th[t]
           d == th'[t]
           pg == mem[p]
           w0 == [t |-> t, op |-> ops[t], addr |-> p, page |-> left]
<1>0. /\ c.pc = "modify" /\ UNCHANGED <<rootPtr, cache>>
  BY DEF Split, At, others
<1>1. \/ /\ mem' = [mem EXCEPT ![next] = right]
         /\ posted' = posted \cup {w0}
      \/ /\ mem' = [mem EXCEPT ![next] = right, ![p] = left]
         /\ UNCHANGED posted
  BY DEF Split
<1>2. /\ Moves(t) /\ d.pc = "grow" /\ d.v = next
      /\ Keeps(t, {"pc", "k", "v", "buf", "landed"})
  BY SplitMoves DEF Inv
<1>3. d.p = p /\ d.path = c.path
  BY <1>2 DEF Keeps, Fields
<1>4. /\ Busy(t) /\ p \in Live /\ p \in Addr /\ c.buf = pg /\ IsPage(p)
      /\ IsPageRecord(pg) /\ Linked(mem, pg)
      /\ pg.level = Lev(p) /\ pg.lowest = Low(p)
      /\ \A w \in posted : w.addr # p
  BY <1>0, HoldsPage, LivePage
<1>5. /\ next \in Addr
      /\ left.level = pg.level /\ left.lowest = pg.lowest
      /\ left.leftmost = pg.leftmost /\ left.highest = SplitKey(q)
      /\ left.sibling = next
      /\ right.level = pg.level /\ right.lowest = SplitKey(q)
      /\ right.highest = pg.highest /\ right.sibling = pg.sibling
      /\ right.leftmost = Null \/ right.leftmost \in Live
      /\ IsLeaf(right) <=> IsLeaf(pg)
      /\ SplitKey(q) \in Int
      /\ pg.lowest < SplitKey(q) /\ SplitKey(q) < pg.highest
      /\ IsPageRecord(left) /\ IsPageRecord(right)
      /\ \A x : ChildOf(left, x) \/ ChildOf(right, x) =>
                  ChildOf(pg, x) \/ x = c.v
  BY SplitDoes, SMTT(30)
<1>6. /\ SplitKey(q) # kKeyMax /\ SplitKey(q) # kKeyMin
      /\ right.lowest # kKeyMin
  <2>1. pg.lowest \in kKeyMin..kKeyMax /\ pg.highest \in kKeyMin..kKeyMax
    BY <1>4 DEF IsPageRecord
  <2> HIDE DEF pg
  <2> QED  BY <1>5, <2>1, KeyInts
<1>7. /\ p # next /\ next \notin Live /\ ~IsPageIn(mem, next)
      /\ \A a : IsPageIn(mem', a) <=> (IsPageIn(mem, a) \/ a = next)
      /\ \A a \in Addr : a # p /\ a # next => mem'[a] = mem[a]
      /\ mem'[next] = right
      /\ mem'[p] = mem[p] \/ mem'[p] = left
      /\ Live' = Live \cup {next}
  <2>1. \/ mem' = [mem EXCEPT ![next] = right]
        \/ mem' = [mem EXCEPT ![next] = right, ![p] = left]
    BY <1>1
  <2> QED  BY <1>0, <1>4, <1>5, <1>6, <2>1, Added, SMTT(30)
<1>8. \A w \in posted : w.t # t
  BY <1>0, HolderPostedNothing DEF HideInv
<1>9. /\ p \notin Hidden /\ \A l \in PathLevel : c.path[l] \notin Hidden
      /\ next \notin Hidden /\ next # Null /\ Null \notin Hidden
  BY <1>4, <1>5, <1>7, PathUnseen, HiddenLive, SMTT(30) DEF HideInv, Addr, Null
<1>10. ~IsLeaf(pg) => Pending(t) /\ c.v \notin Hidden /\ c.v # next
  <2> SUFFICES ASSUME ~IsLeaf(pg)
               PROVE  Pending(t) /\ c.v \notin Hidden /\ c.v # next
    OBVIOUS
  <2>1. Pending(t) /\ c.v \in Live
    BY <1>0, <1>4, SeparatorFits
  <2>2. ASSUME NEW w \in posted, c.v = w.page.sibling  PROVE FALSE
    <3>1. w.t \in Thread /\ Pending(w.t) /\ th[w.t].v = c.v /\ w.t # t
      BY <1>8, <2>2 DEF HideInv, OwnerInv, Inv, TypeInv, IsWrite
    <3> QED  BY <2>1, <3>1 DEF Inv, PendingInv
  <2> QED  BY <1>7, <2>1, <2>2 DEF Hidden
<1>11. Avoids(pg, Hidden) /\ pg.sibling # next /\ ~ChildOf(pg, next)
  BY <1>4, <1>7, <1>9, LeadsToPages DEF HideInv, UnseenInv, IsPage
<1>12. \A v \in Hidden \cup {next} : ~ChildOf(left, v) /\ ~ChildOf(right, v)
  <2> SUFFICES ASSUME NEW v \in Hidden \cup {next},
                      ChildOf(left, v) \/ ChildOf(right, v)
               PROVE  FALSE
    OBVIOUS
  <2>1. ~IsLeaf(pg)
    BY <1>5 DEF ChildOf, IsLeaf
  <2>2. ~ChildOf(pg, v) /\ v # c.v
    BY <1>10, <1>11, <2>1 DEF Avoids
  <2> QED  BY <1>5, <2>2
<1>13. Avoids(right, Hidden \cup {next}) /\ Avoids(left, Hidden)
  BY <1>5, <1>9, <1>11, <1>12 DEF Avoids
<1>14. \A a \in Addr : IsPageIn(mem', a) /\ mem'[a].level = 0 => a \in Live'
  <2>1. \A a \in Addr : IsPageIn(mem, a) /\ mem[a].level = 0 => a \in Live
    BY DEF HideInv, LeavesInv, IsPage, Lev
  <2> QED  BY <1>4, <1>7, <2>1
<1>15. CASE /\ mem' = [mem EXCEPT ![next] = right, ![p] = left]
            /\ UNCHANGED posted
  <2>1. \A a \in Addr : IsPageIn(mem', a) =>
          \/ IsPageIn(mem, a) /\ mem'[a] = mem[a]
          \/ Avoids(mem'[a], Hidden)
    BY <1>7, <1>13 DEF Avoids
  <2>2. \A a \in Addr : IsPageIn(mem, a)
            /\ (a \in Hidden \/ \E w \in posted : w.addr = a) =>
              mem'[a].highest = mem[a].highest
    BY <1>4, <1>7, <1>9
  <2> QED
    BY <1>0, <1>2, <1>3, <1>8, <1>9, <1>14, <1>15, <2>1, <2>2, HideWritten
<1>16. CASE /\ mem' = [mem EXCEPT ![next] = right]
            /\ posted' = posted \cup {w0}
  <2>1. Hidden' = Hidden \cup {next}
    <3>1. w0.page.sibling = next
      BY <1>5
    <3> HIDE DEF w0
    <3> QED  BY <1>16, <3>1 DEF Hidden
  <2>2. \A a \in Addr : IsPageIn(mem, a) => a # next /\ mem'[a] = mem[a]
    BY <1>7, <1>16 DEF IsPageIn, Inv, TypeInv
  <2>3. OwnerInv'
    <3> SUFFICES ASSUME NEW w \in posted'
                 PROVE  /\ Pending(w.t)' /\ th'[w.t].v = w.page.sibling
                        /\ th'[w.t].pc \in {"grow", "store", "search"}
                        /\ \A x \in posted' : x.t = w.t => x = w
                        /\ w.page.highest # kKeyMax
                        /\ mem'[w.page.sibling].highest
                             = mem'[w.addr].highest
                        /\ w.addr \notin Hidden \cup {next}
      BY <2>1 DEF OwnerInv
    <3>1. CASE w = w0
      <4>1. /\ w.t = t /\ w.page = left /\ w.addr = p
        BY <3>1
      <4>2. Pending(t)'
        BY <1>2 DEF Pending, Carries
      <4>3. \A x \in posted' : x.t = t => x = w
        BY <1>8, <1>16, <3>1
      <4>4. mem'[p] = mem[p]
        BY <1>4, <2>2 DEF IsPage
      <4> QED
        BY <1>2, <1>5, <1>6, <1>7, <1>9, <4>1, <4>2, <4>3, <4>4, SMTT(30)
    <3>2. CASE w \in posted
      <4>1. /\ w.t \in Thread /\ Pending(w.t) /\ w.t # t
            /\ th[w.t].v = w.page.sibling
            /\ th[w.t].pc \in {"grow", "store", "search"}
            /\ \A x \in posted : x.t = w.t => x = w
            /\ w.page.highest # kKeyMax /\ w.addr \notin Hidden
            /\ mem[w.page.sibling].highest = mem[w.addr].highest
        BY <1>8, <3>2 DEF Inv, TypeInv, IsWrite, HideInv, OwnerInv
      <4>2. th'[w.t] = th[w.t] /\ Pending(w.t)'
        BY <1>2, <4>1 DEF Moves, Pending, Carries, Busy
      <4>3. w.page.sibling \in Hidden
        BY <3>2 DEF Hidden
      <4>4. /\ w.page.sibling \in Addr /\ IsPageIn(mem, w.page.sibling)
            /\ w.addr \in Addr /\ IsPageIn(mem, w.addr)
        BY <3>2, <4>3, HiddenLive, LivePage DEF HideInv, Inv, PostedInv, IsPage
      <4>5. \A x \in posted' : x.t = w.t => x = w
        <5>1. w0.t = t
          OBVIOUS
        <5> QED  BY <1>16, <4>1, <5>1
      <4> QED  BY <2>2, <4>1, <4>2, <4>4, <4>5
    <3> QED  BY <1>16, <3>1, <3>2
  <2>4. UnseenInv'
    <3>1. ASSUME NEW a \in Addr, IsPageIn(mem', a)
          PROVE  Avoids(mem'[a], Hidden \cup {next})
      <4>1. CASE a = next
        BY <1>7, <1>13, <4>1
      <4>2. CASE a # next
        <5>1. IsPageIn(mem, a) /\ mem'[a] = mem[a]
          BY <1>7, <2>2, <3>1, <4>2
        <5>2. Avoids(mem[a], Hidden) /\ Linked(mem, mem[a])
          BY <5>1 DEF HideInv, UnseenInv, IsPage, Inv, PagesInv
        <5>3. mem[a].sibling # next /\ ~ChildOf(mem[a], next)
          BY <1>7, <1>9, <5>2, LeadsToPages
        <5> QED  BY <5>1, <5>2, <5>3 DEF Avoids
      <4> QED  BY <4>1, <4>2
    <3>2. ASSUME NEW u \in Thread, Busy(u)'
          PROVE  /\ th'[u].p \notin Hidden \cup {next}
                 /\ \A l \in PathLevel :
                      th'[u].path[l] \notin Hidden \cup {next}
      <4>1. Busy(u) /\ th'[u].p = th[u].p /\ th'[u].path = th[u].path
        BY <1>2, <1>3, <1>4, <3>2 DEF Moves, Busy
      <4>2. th[u].p \in Live
        BY <4>1, AtPage
      <4>3. \A l \in PathLevel : th[u].path[l] # Null => th[u].path[l] \in Live
        BY <4>1, AtPage DEF PathDown
      <4>4. /\ th[u].p \notin Hidden
            /\ \A l \in PathLevel : th[u].path[l] \notin Hidden
        BY <4>1, PathUnseen
      <4> QED  BY <1>7, <1>9, <4>1, <4>2, <4>3, <4>4
    <3>3. ASSUME NEW n \in Node, NEW e \in cache'[n], e.page # NoPage,
                 NEW v \in Hidden \cup {next}
          PROVE  ~ChildOf(e.page, v)
      <4>1. e \in cache[n]
        BY <1>0
      <4>2. Linked(mem, e.page)
        BY <3>3, <4>1 DEF Inv, CacheInv, Copy
      <4>3. \A x \in Hidden : ~ChildOf(e.page, x)
        BY <3>3, <4>1 DEF HideInv, UnseenInv
      <4> QED  BY <1>7, <1>9, <4>2, <4>3, LeadsToPages
    <3> QED  BY <2>1, <3>1, <3>2, <3>3 DEF UnseenInv, IsPage
  <2>5. LeavesInv'
    BY <1>14 DEF LeavesInv, IsPage, Lev
  <2> QED  BY <2>3, <2>4, <2>5 DEF HideInv
<1> QED  BY <1>1, <1>15, <1>16

\* A posted page arrives: the page split off it is in sight.
LEMMA DeliverHides ==
  ASSUME Inv, HideInv, OneNode, NEW w \in posted, Deliver(w)
  PROVE  HideInv'
<1> SUFFICES ASSUME NEW t, t = w.t, NEW p, p = w.addr, NEW q, q = w.page,
                    NEW sib, sib = q.sibling
             PROVE  HideInv'
  OBVIOUS
<1> DEFINE c == th[t]
           d == th'[t]
<1>0. /\ mem' = [mem EXCEPT ![p] = q] /\ posted' = posted \ {w}
      /\ UNCHANGED <<rootPtr, cache>>
  BY DEF Deliver, others
<1>1. /\ t \in Thread /\ p \in Live /\ p \in Addr /\ IsPageRecord(q)
      /\ Linked(mem, q) /\ q.level = Lev(p) /\ q.lowest = Low(p)
      /\ q.leftmost = mem[p].leftmost
  BY DEF Inv, PostedInv, TypeInv, IsWrite
<1>2. Moves(t) /\ Keeps(t, {"landed"})
  BY <1>1, DeliverMoves DEF Inv
<1>3. /\ d.v = c.v /\ d.level = c.level /\ d.path = c.path
      /\ d.p = c.p /\ d.pc = c.pc
  BY <1>2 DEF Keeps, Fields
<1>4. /\ \A a : IsPageIn(mem', a) <=> IsPageIn(mem, a)
      /\ \A a \in Addr : a # p => mem'[a] = mem[a]
      /\ mem'[p] = q
      /\ Live' = Live
  BY <1>0, <1>1, Overwritten
<1>5. Pending(t) /\ c.v = sib /\ \A x \in posted : x.t = t => x = w
  BY DEF HideInv, OwnerInv
<1>6. \A x \in posted' : /\ x \in posted /\ x.t # t /\ x.t \in Thread
                         /\ x.page.sibling # sib
                         /\ x.addr # p
  <2> SUFFICES ASSUME NEW x \in posted, x # w
               PROVE  /\ x.t # t /\ x.t \in Thread /\ x.page.sibling # sib
                      /\ x.addr # p
    BY <1>0
  <2>1. x.t # t /\ x.t \in Thread /\ Pending(x.t)
        /\ th[x.t].v = x.page.sibling
    BY <1>5 DEF HideInv, OwnerInv, Inv, TypeInv, IsWrite
  <2>2. x.page.sibling # sib
    BY <1>1, <1>5, <2>1 DEF Inv, PendingInv
  <2>3. x.addr # p
    BY DEF Inv, LockInv
  <2> QED  BY <2>1, <2>2, <2>3
<1>7. Hidden' \subseteq Hidden /\ sib \notin Hidden'
  BY <1>0, <1>6 DEF Hidden
<1>8. p \notin Hidden
  BY DEF HideInv, OwnerInv
<1>9. OwnerInv'
  <2> SUFFICES ASSUME NEW x \in posted'
               PROVE  /\ Pending(x.t)' /\ th'[x.t].v = x.page.sibling
                      /\ th'[x.t].pc \in {"grow", "store", "search"}
                      /\ \A y \in posted' : y.t = x.t => y = x
                      /\ x.page.highest # kKeyMax
                      /\ mem'[x.page.sibling].highest
                           = mem'[x.addr].highest
                      /\ x.addr \notin Hidden'
    BY DEF OwnerInv
  <2>1. x \in posted /\ x.t # t /\ x.t \in Thread /\ x.addr # p
    BY <1>6
  <2>2. /\ Pending(x.t) /\ th[x.t].v = x.page.sibling
        /\ th[x.t].pc \in {"grow", "store", "search"}
        /\ \A y \in posted : y.t = x.t => y = x
        /\ x.page.highest # kKeyMax /\ x.addr \notin Hidden
        /\ mem[x.page.sibling].highest = mem[x.addr].highest
    BY <2>1 DEF HideInv, OwnerInv
  <2>3. th'[x.t] = th[x.t] /\ Pending(x.t)'
    BY <1>2, <2>1, <2>2 DEF Moves, Pending, Carries, Busy
  <2>4. x.page.sibling \in Hidden
    BY <2>1 DEF Hidden
  <2>5. x.page.sibling \in Addr /\ x.addr \in Addr /\ x.page.sibling # p
    BY <1>8, <2>1, <2>4, HiddenLive, LivePage DEF HideInv, Inv, PostedInv
  <2> QED  BY <1>4, <1>6, <1>7, <2>1, <2>2, <2>3, <2>5
<1>10. UnseenInv'
  <2>1. Avoids(q, Hidden')
    <3>1. ASSUME NEW v \in Hidden'  PROVE ~ChildOf(q, v)
      <4>1. PICK x \in posted' : v = x.page.sibling
        BY DEF Hidden
      <4>2. x \in posted /\ x.t \in Thread /\ Pending(x.t) /\ th[x.t].v = v
        BY <1>6, <4>1 DEF HideInv, OwnerInv
      <4> QED  BY <4>2 DEF Inv, PendingInv, Orphan
    <3> QED  BY <1>7, <3>1 DEF Avoids
  <2>2. ASSUME NEW a \in Addr, IsPageIn(mem', a)
        PROVE  Avoids(mem'[a], Hidden')
    <3>1. IsPageIn(mem, a)
      BY <1>4, <2>2
    <3>2. Avoids(mem[a], Hidden')
      BY <1>7, <3>1 DEF HideInv, UnseenInv, IsPage, Avoids
    <3> QED  BY <1>4, <2>1, <3>2
  <2>3. ASSUME NEW u \in Thread, Busy(u)'
        PROVE  /\ th'[u].p \notin Hidden'
               /\ \A l \in PathLevel : th'[u].path[l] \notin Hidden'
    <3>1. Busy(u) /\ th'[u].p = th[u].p /\ th'[u].path = th[u].path
      BY <1>2, <1>3, <2>3 DEF Moves, Busy
    <3> QED  BY <1>7, <3>1, PathUnseen
  <2>4. ASSUME NEW n \in Node, NEW e \in cache'[n], e.page # NoPage,
               NEW v \in Hidden'
        PROVE  ~ChildOf(e.page, v)
    BY <1>0, <1>7, <2>4 DEF HideInv, UnseenInv
  <2> QED  BY <2>2, <2>3, <2>4 DEF UnseenInv, IsPage
<1>11. LeavesInv'
  <2>1. ASSUME NEW a \in Addr, IsPageIn(mem', a), mem'[a].level = 0
        PROVE  a \in Live'
    <3>1. mem[a].level = 0
      BY <1>1, <1>4, <2>1 DEF Lev
    <3> QED  BY <1>4, <2>1, <3>1 DEF HideInv, LeavesInv, IsPage, Lev
  <2> QED  BY <2>1 DEF LeavesInv, IsPage, Lev
<1> QED  BY <1>9, <1>10, <1>11 DEF HideInv

\* At the start nothing is posted.
LEMMA InitHides ==
  ASSUME Init
  PROVE  HideInv
<1>1. Hidden = {} /\ OwnerInv
  BY DEF Init, Hidden, OwnerInv
<1>2. UnseenInv
  BY <1>1 DEF UnseenInv, Avoids
<1>3. LeavesInv
  <2> SUFFICES ASSUME NEW a \in Addr, IsPage(a)  PROVE a \in Live
    BY DEF LeavesInv
  <2> DEFINE w == Workloads[work]
             pages == 1..Len(w.tree)
  <2>1. work \in DOMAIN Workloads /\ mem = Loaded(w.tree) /\ rootPtr = w.root
    BY DEF Init
  <2>2. /\ Len(w.tree) \in Nat /\ Len(w.tree) <= MaxPages
        /\ \A x \in pages : \/ x = w.root
                            \/ mem[x].lowest # kKeyMin
                            \/ \E y \in pages : mem[y].leftmost = x
        /\ \A x \in pages : IsPageRecord(mem[x])
    BY <2>1, WorkloadAssumption
  <2>3. pages \subseteq Addr /\ a \in pages
    BY <2>1, <2>2, TreeAssumption DEF Addr, Loaded, IsPage, IsPageIn
  <2>4. \A y \in pages : IsPageIn(mem, y)
    BY <2>2, <2>3, PageIsPage DEF IsPageIn
  <2> HIDE DEF w, pages
  <2> QED  BY <2>1, <2>2, <2>3, <2>4 DEF Live, LiveIn
<1> QED  BY <1>1, <1>2, <1>3 DEF HideInv

\* With one memory node, no step shows a page before its left neighbour
\* leads to it.
LEMMA NextHides ==
  ASSUME Inv, HideInv, OneNode, Next
  PROVE  HideInv'
<1>1. ASSUME NEW t \in Thread, Step(t)  PROVE HideInv'
  <2>1. CASE StaleSearch(t) \/ StaleStore(t)
    BY <2>1, StaleHides
  <2>2. CASE TurnRight(t) \/ Descend(t) \/ ReachLeaf(t)
    BY <2>2, SearchHides
  <2>3. CASE ReadLeaf(t) \/ Return(t)
    BY <2>3, EndHides
  <2>4. CASE LockAndRead(t) \/ MoveRight(t)
    BY <2>4, LockHides
  <2>5. CASE Start(t)
    BY <2>5, StartHides
  <2>6. CASE StoreUp(t) \/ InsertInternal(t)
    BY <2>6, UpHides
  <2>7. CASE DeleteEntry(t) \/ StoreEntry(t)
    BY <2>7, InPlaceHides
  <2>8. CASE \E async \in BOOLEAN : Split(t, async)
    BY <2>8, SplitHides
  <2>9. CASE UpdateNewRoot(t)
    BY <2>9, NewRootHides
  <2>10. CASE RetryLock(t) \/ NoUpLevel(t)
    BY <2>10, StutterHides DEF RetryLock, NoUpLevel, vars
  <2> QED
    BY <1>1, <2>1, <2>2, <2>3, <2>4, <2>5, <2>6, <2>7, <2>8, <2>9, <2>10
       DEF Step
<1>2. ASSUME NEW w \in posted, Deliver(w)  PROVE HideInv'
  BY <1>2, DeliverHides
<1>3. ASSUME NEW m \in msgs, DirNewRoot(m) \/ LoseMessage(m)  PROVE HideInv'
  BY <1>3, StutterHides DEF DirNewRoot, LoseMessage, others
<1>4. ASSUME Finished  PROVE HideInv'
  BY <1>4, StutterHides DEF Finished, vars
<1> QED  BY <1>1, <1>2, <1>3, <1>4 DEF Next

\* With one memory node, what a split adds stays hidden until the shrunk page
\* is written: no root, page, path stack or cached copy leads to it.
THEOREM HideHolds ==
  ASSUME OneNode
  PROVE  Spec => []HideInv
<1>1. Init => HideInv
  BY InitHides
<1>2. OneNode /\ Inv /\ HideInv /\ [Next]_vars => HideInv'
  <2>1. ASSUME HideInv, UNCHANGED vars  PROVE HideInv'
    BY <2>1, StutterHides DEF vars
  <2> QED  BY <2>1, NextHides
<1> QED  BY <1>1, <1>2, InvHolds, OneNode, PTL DEF Spec

-----------------------------------------------------------------------------
(* The walk of a client that has the tree for itself.                      *)

\* The leaf for k: the one in sight whose fences hold k.
Holds(a, k) == a \in Live \ Hidden /\ Lev(a) = 0 /\ InPage(mem[a], k)
Target(k) == CHOOSE a : Holds(a, k)

\* Of the pages of a level in sight, one at most has k between its fences.
LEMMA SightDisjoint ==
  ASSUME Inv, HideInv, NEW a \in Live \ Hidden, NEW b \in Live \ Hidden,
         Lev(a) = Lev(b), NEW k \in Int, InPage(mem[a], k), InPage(mem[b], k)
  PROVE  a = b
<1>1. ASSUME NEW x \in Live \ Hidden, NEW y \in Live \ Hidden, LeftOf(x, y),
             InPage(mem[x], k), InPage(mem[y], k)
      PROVE  FALSE
  <2>1. /\ Low(x) \in Int /\ Low(y) \in Int /\ mem[x].highest \in Int
        /\ k < mem[x].highest /\ Low(y) <= k
    BY <1>1, LiveTypes DEF InPage, Low
  <2>2. CASE \A w \in posted : w.addr # x
    BY <1>1, <2>1, <2>2 DEF Inv, DisjointInv
  <2>3. CASE \E w \in posted : w.addr = x
    <3>1. PICK w \in posted : w.addr = x
      BY <2>3
    <3> DEFINE s == w.page.sibling
    <3>2. /\ IsPageRecord(w.page) /\ Linked(mem, w.page)
          /\ w.page.level = Lev(x) /\ w.page.highest <= Low(y)
      BY <1>1, <3>1 DEF Inv, PostedInv, DisjointInv
    <3>3. /\ w.page.highest # kKeyMax /\ mem[s].highest = mem[x].highest
          /\ \A z \in posted : z.addr # s
      BY <3>1 DEF HideInv, OwnerInv, Hidden
    <3>4. s \in Live /\ Lev(s) = Lev(x) /\ Low(s) = w.page.highest
      BY <3>2, <3>3, SiblingLive
    <3>5. s # y
      BY DEF Hidden
    <3>6. LeftOf(s, y)
      BY <1>1, <3>2, <3>4, <3>5 DEF LeftOf
    <3>7. mem[s].highest <= Low(y)
      BY <1>1, <3>3, <3>4, <3>6 DEF Inv, DisjointInv
    <3> QED  BY <2>1, <3>3, <3>7
  <2> QED  BY <2>2, <2>3
<1>2. Low(a) \in Int /\ Low(b) \in Int
  BY LiveTypes
<1>3. a # b => LeftOf(a, b) \/ LeftOf(b, a)
  BY <1>2 DEF LeftOf
<1> QED  BY <1>1, <1>3

\* So a leaf in sight that holds k is the leaf for k.
LEMMA TargetIs ==
  ASSUME Inv, HideInv, NEW k \in Int, NEW a, Holds(a, k)
  PROVE  Target(k) = a
<1>1. Holds(Target(k), k)
  BY DEF Target
<1> QED  BY <1>1, SightDisjoint DEF Holds

\* What a record may have as its key.
UserKey == kKeyMin..kKeyMax - 1

\* The keys clients use are among them.
LEMMA KeysAreUserKeys == \A k \in Key : k \in UserKey /\ k \in Int
BY TreeAssumption DEF UserKey

\* The pages in memory.
InMem == {c \in Addr : IsPage(c)}

\* The equation of LeafFrom.
Walks(f, k) ==
  f = [b \in InMem |->
         IF k >= mem[b].highest THEN f[mem[b].sibling]
         ELSE IF IsLeaf(mem[b]) THEN b
         ELSE f[ChildFor(mem[b], k)]]

\* LeafFrom is a function that satisfies its equation, if there is one.
LEMMA LeafFromWalks ==
  ASSUME NEW a, NEW k
  PROVE  LeafFrom(a, k) = (CHOOSE f : Walks(f, k))[a]
BY DEF LeafFrom, Walks, InMem

\* Where a walk goes from a page: to a page that is nearer to its end.
LEMMA WalkStep ==
  ASSUME Inv, HideInv, NEW k \in UserKey, NEW b \in InMem
  PROVE  LET pg == mem[b]
             c == IF k >= pg.highest THEN pg.sibling ELSE ChildFor(pg, k) IN
         /\ k \in Int /\ k < kKeyMax /\ k \in KeyRange
         /\ pg.highest \in Int /\ Low(b) \in Int /\ Low(b) < pg.highest
         /\ Lev(b) \in Nat /\ (IsLeaf(pg) <=> Lev(b) = 0)
         /\ Low(b) <= kKeyMax
         /\ Low(b) <= k /\ (k >= pg.highest \/ ~IsLeaf(pg)) =>
              /\ c \in InMem /\ c \notin Hidden /\ Low(c) <= k
              /\ Low(c) \in Int /\ Lev(c) \in Nat
              /\ k >= pg.highest => Low(c) > Low(b) /\ Lev(c) = Lev(b)
              /\ k < pg.highest => Low(c) >= Low(b) /\ Lev(c) = Lev(b) - 1
         /\ Low(b) > k /\ ~IsLeaf(pg) =>
              ChildFor(pg, k) = pg.leftmost /\ pg.leftmost \in InMem
              /\ Low(pg.leftmost) = Low(b)
<1> DEFINE pg == mem[b]
           c == IF k >= pg.highest THEN pg.sibling ELSE ChildFor(pg, k)
<1>1. b \in Addr /\ IsPage(b) /\ IsPageRecord(pg) /\ Linked(mem, pg)
  BY DEF InMem, Inv, PagesInv
<1>2. /\ k \in Int /\ k < kKeyMax /\ k \in KeyRange
  BY KeyInts DEF KeyRange, UserKey
<1>3. /\ pg.highest \in Int /\ Low(b) \in Int /\ Low(b) < pg.highest
      /\ Low(b) <= kKeyMax
  BY <1>1, KeyInts DEF IsPageRecord, Linked, Low
<1>4. Lev(b) \in Nat /\ (IsLeaf(pg) <=> Lev(b) = 0)
  BY <1>1, LeafLevel, TreeAssumption DEF IsPageRecord, Level, Lev
<1>5. Avoids(pg, Hidden)
  BY <1>1 DEF HideInv, UnseenInv
<1>6. ASSUME Low(b) <= k, k >= pg.highest
      PROVE  /\ c \in InMem /\ c \notin Hidden /\ Low(c) <= k
             /\ Low(c) \in Int /\ Lev(c) \in Nat
             /\ Low(c) > Low(b) /\ Lev(c) = Lev(b)
  <2>1. c = pg.sibling /\ pg.highest # kKeyMax
    BY <1>2, <1>3, <1>6, KeyInts
  <2>2. IsPageIn(mem, c) /\ Lev(c) = Lev(b) /\ Low(c) = pg.highest
    BY <1>1, <2>1 DEF Linked, Lev, Low
  <2>3. c \notin Hidden
    BY <1>5, <2>1 DEF Avoids
  <2> HIDE DEF c
  <2> QED  BY <1>3, <1>4, <1>6, <2>2, <2>3 DEF InMem, IsPage, IsPageIn
<1>7. ASSUME Low(b) <= k, k < pg.highest, ~IsLeaf(pg)
      PROVE  /\ c \in InMem /\ c \notin Hidden /\ Low(c) <= k
             /\ Low(c) \in Int /\ Lev(c) \in Nat
             /\ Low(c) >= Low(b) /\ Lev(c) = Lev(b) - 1
  <2>1. c = ChildFor(pg, k)
    BY <1>2, <1>3, <1>7
  <2>2. pg.lowest <= k
    BY <1>7 DEF Low
  <2> HIDE DEF c
  <2>3. /\ IsPageIn(mem, c) /\ mem[c].level = pg.level - 1
        /\ mem[c].lowest <= k /\ pg.lowest <= mem[c].lowest
        /\ ChildOf(pg, c)
    BY <1>1, <1>2, <1>7, <2>1, <2>2, ChildFound
  <2>4. c \notin Hidden
    BY <1>5, <2>3 DEF Avoids
  <2>5. c \in InMem /\ IsPageRecord(mem[c])
    BY <2>3 DEF InMem, IsPage, IsPageIn, Inv, PagesInv
  <2>6. Low(c) \in Int
    BY <2>5, RecordInts DEF Low
  <2>7. pg.level = Lev(b) /\ pg.lowest = Low(b)
    BY DEF Lev, Low
  <2> QED  BY <1>4, <1>7, <2>3, <2>4, <2>5, <2>6, <2>7 DEF Low, Lev
<1>8. ASSUME Low(b) > k, ~IsLeaf(pg)
      PROVE  /\ ChildFor(pg, k) = pg.leftmost /\ pg.leftmost \in InMem
             /\ Low(pg.leftmost) = Low(b)
  <2>1. /\ IsPageIn(mem, pg.leftmost) /\ Low(pg.leftmost) = Low(b)
        /\ \A j \in DOMAIN pg.recs : j > Low(b) /\ j \in Int
    BY <1>1, <1>8, KeyInts DEF Linked, Low, IsPageRecord
  <2>2. {j \in DOMAIN pg.recs : j <= k} = {}
    BY <1>2, <1>3, <1>8, <2>1
  <2> QED  BY <2>1, <2>2 DEF ChildFor, InMem, IsPage, IsPageIn
<1> QED  BY <1>2, <1>3, <1>4, <1>6, <1>7, <1>8

\* The leftmost leaf below a page that begins right of k.
LeafAt(low) == CHOOSE x : x \in Live /\ Lev(x) = 0 /\ Low(x) = low

\* Where walks end, said without recursion.
Ends(k) ==
  [b \in InMem |->
     IF Low(b) > k THEN LeafAt(Low(b))
     ELSE IF b \in Hidden /\ IsLeaf(mem[b]) /\ k < mem[b].highest THEN b
     ELSE Target(k)]

\* The equation of LeafFrom has a solution.
LEMMA WalksExist ==
  ASSUME Inv, HideInv, NEW k \in UserKey
  PROVE  Walks(Ends(k), k)
<1> SUFFICES ASSUME NEW b \in InMem
             PROVE  Ends(k)[b] =
                      IF k >= mem[b].highest THEN Ends(k)[mem[b].sibling]
                      ELSE IF IsLeaf(mem[b]) THEN b
                      ELSE Ends(k)[ChildFor(mem[b], k)]
  <2> DEFINE F(b) == IF k >= mem[b].highest THEN Ends(k)[mem[b].sibling]
                     ELSE IF IsLeaf(mem[b]) THEN b
                     ELSE Ends(k)[ChildFor(mem[b], k)]
  <2>1. Ends(k) = [b \in InMem |-> Ends(k)[b]]
    BY DEF Ends
  <2>2. \A b \in InMem : Ends(k)[b] = F(b)
    OBVIOUS
  <2>3. Ends(k) = [b \in InMem |-> F(b)]
    BY <2>1, <2>2
  <2> QED  BY <2>3 DEF Walks
<1> DEFINE pg == mem[b]
           c == IF k >= pg.highest THEN pg.sibling ELSE ChildFor(pg, k)
<1>1. /\ k \in Int /\ pg.highest \in Int /\ Low(b) \in Int
      /\ Low(b) < pg.highest /\ (IsLeaf(pg) <=> Lev(b) = 0)
      /\ Low(b) <= k /\ (k >= pg.highest \/ ~IsLeaf(pg)) =>
           c \in InMem /\ c \notin Hidden /\ Low(c) <= k /\ Low(c) \in Int
      /\ Low(b) > k /\ ~IsLeaf(pg) =>
           /\ ChildFor(pg, k) = pg.leftmost /\ pg.leftmost \in InMem
           /\ Low(pg.leftmost) = Low(b)
  BY WalkStep
<1>2. \A x \in InMem :
        Ends(k)[x] =
          IF Low(x) > k THEN LeafAt(Low(x))
          ELSE IF x \in Hidden /\ IsLeaf(mem[x]) /\ k < mem[x].highest THEN x
          ELSE Target(k)
  BY DEF Ends
<1>3. \A x \in InMem : x \notin Hidden /\ Low(x) <= k /\ Low(x) \in Int =>
        Ends(k)[x] = Target(k)
  BY <1>1, <1>2
<1>4. IsLeaf(pg) => b \in Live /\ Lev(b) = 0
  BY <1>1 DEF HideInv, LeavesInv, InMem
<1>5. CASE Low(b) > k /\ IsLeaf(pg)
  <2>1. LeafAt(Low(b)) = b
    <3>1. b \in Live /\ Lev(b) = 0
      BY <1>4, <1>5
    <3>2. /\ LeafAt(Low(b)) \in Live /\ Lev(LeafAt(Low(b))) = 0
          /\ Low(LeafAt(Low(b))) = Low(b)
      BY <3>1 DEF LeafAt
    <3> QED  BY <3>1, <3>2, LowUnique
  <2>2. Ends(k)[b] = b
    BY <1>2, <1>5, <2>1
  <2> QED  BY <1>1, <1>5, <2>2
<1>6. CASE Low(b) > k /\ ~IsLeaf(pg)
  <2>1. Ends(k)[b] = LeafAt(Low(b)) /\ ~(k >= pg.highest)
    BY <1>1, <1>2, <1>6
  <2>2. Ends(k)[ChildFor(pg, k)] = LeafAt(Low(b))
    BY <1>1, <1>2, <1>6
  <2> QED  BY <1>6, <2>1, <2>2
<1>7. CASE Low(b) <= k /\ (k >= pg.highest \/ ~IsLeaf(pg))
  <2>1. Ends(k)[b] = Target(k)
    BY <1>1, <1>2, <1>7
  <2>2. c \in InMem /\ c \notin Hidden /\ Low(c) <= k /\ Low(c) \in Int
    BY <1>1, <1>7
  <2>3. Ends(k)[c] = Target(k)
    BY <1>3, <2>2
  <2> QED  BY <1>7, <2>1, <2>3
<1>8. CASE Low(b) <= k /\ k < pg.highest /\ IsLeaf(pg)
  <2>1. b \notin Hidden => Target(k) = b
    <3>1. b \notin Hidden => Holds(b, k)
      BY <1>4, <1>8 DEF Holds, InPage, Low
    <3> QED  BY <1>1, <3>1, TargetIs
  <2>2. Ends(k)[b] = b
    BY <1>1, <1>2, <1>8, <2>1
  <2> QED  BY <1>1, <1>8, <2>2
<1> QED  BY <1>1, <1>5, <1>6, <1>7, <1>8

\* How far a page is from the end of every walk.
Rank(a) == Lev(a) + (kKeyMax - Low(a))

\* From every page in sight that does not begin right of k, a client that has
\* the tree for itself finds the leaf for k.
LEMMA WalkEnds ==
  ASSUME Inv, HideInv, NEW k \in UserKey, NEW a \in InMem, a \notin Hidden,
         Low(a) <= k
  PROVE  Holds(Target(k), k) /\ LeafFrom(a, k) = Target(k)
<1> DEFINE f == CHOOSE g : Walks(g, k)
           Start0 == {b \in InMem : b \notin Hidden /\ Low(b) <= k}
           Bad == {b \in Start0 : ~Holds(f[b], k)}
           T == {Rank(b) : b \in Bad}
<1>1. Walks(f, k)
  BY WalksExist
<1> HIDE DEF f
<1>2. \A b \in InMem :
        f[b] = IF k >= mem[b].highest THEN f[mem[b].sibling]
               ELSE IF IsLeaf(mem[b]) THEN b
               ELSE f[ChildFor(mem[b], k)]
  BY <1>1 DEF Walks
<1>3. \A b \in InMem : Rank(b) \in Nat
  <2> SUFFICES ASSUME NEW b \in InMem  PROVE Rank(b) \in Nat
    OBVIOUS
  <2>1. Lev(b) \in Nat /\ Low(b) \in Int /\ Low(b) <= kKeyMax
    BY WalkStep
  <2> QED  BY <2>1, KeyInts DEF Rank
<1>4. Bad = {}
  <2> SUFFICES ASSUME Bad # {}  PROVE FALSE
    OBVIOUS
  <2>1. T \in SUBSET Nat /\ T # {}
    BY <1>3
  <2>2. PICK m \in T : \A n \in T : m <= n
    BY <2>1, LeastNat
  <2>3. PICK b \in Bad : m = Rank(b)
    OBVIOUS
  <2> DEFINE pg == mem[b]
             c == IF k >= pg.highest THEN pg.sibling ELSE ChildFor(pg, k)
  <2>4. /\ b \in InMem /\ b \notin Hidden /\ Low(b) <= k /\ ~Holds(f[b], k)
    OBVIOUS
  <2>5. /\ k \in Int /\ pg.highest \in Int /\ Low(b) \in Int /\ Lev(b) \in Nat
        /\ (IsLeaf(pg) <=> Lev(b) = 0)
        /\ (k >= pg.highest \/ ~IsLeaf(pg)) =>
              /\ c \in InMem /\ c \notin Hidden /\ Low(c) <= k
              /\ Low(c) \in Int /\ Lev(c) \in Nat
              /\ k >= pg.highest => Low(c) > Low(b) /\ Lev(c) = Lev(b)
              /\ k < pg.highest => Low(c) >= Low(b) /\ Lev(c) = Lev(b) - 1
    BY <2>4, WalkStep
  <2>6. CASE k < pg.highest /\ IsLeaf(pg)
    <3>1. f[b] = b
      BY <1>2, <2>4, <2>5, <2>6
    <3>2. b \in Live
      BY <2>4, <2>5, <2>6 DEF HideInv, LeavesInv, InMem
    <3>3. Holds(b, k)
      BY <2>4, <2>5, <2>6, <3>2 DEF Holds, InPage, Low
    <3> QED  BY <2>4, <3>1, <3>3
  <2>7. CASE k >= pg.highest \/ ~IsLeaf(pg)
    <3>1. f[b] = f[c]
      BY <1>2, <2>4, <2>7
    <3>2. c \in Bad
      BY <2>4, <2>5, <2>7, <3>1
    <3>3. Rank(c) < Rank(b)
      BY <2>5, <2>7, KeyInts DEF Rank
    <3>4. Rank(c) \in T
      BY <3>2
    <3> QED  BY <1>3, <2>2, <2>3, <2>4, <2>5, <2>7, <3>3, <3>4
  <2> QED  BY <2>5, <2>6, <2>7
<1>5. Holds(f[a], k) /\ k \in Int
  BY <1>4, WalkStep
<1>6. Target(k) = f[a]
  BY <1>5, TargetIs
<1>7. LeafFrom(a, k) = f[a]
  BY LeafFromWalks DEF f
<1> QED  BY <1>5, <1>6, <1>7

\* From every root.
LEMMA RootWalkEnds ==
  ASSUME Inv, HideInv, NEW k \in UserKey, NEW r, IsRoot(r)
  PROVE  Holds(Target(k), k) /\ LeafFrom(r, k) = Target(k)
<1>1. r \in InMem /\ r \notin Hidden /\ Low(r) = kKeyMin
  BY LivePage, RootNotHidden DEF IsRoot, InMem, HideInv
<1>2. Low(r) <= k
  BY <1>1, KeyInts DEF UserKey
<1> QED  BY <1>1, <1>2, WalkEnds

\* RootsReachLeaves, with one memory node: from every root a client may start
\* from, whatever became of the NEW_ROOT messages, get_root_ptr and the
\* descent lead to the leaf that scanning the leaves from the left finds.
THEOREM RootsReach ==
  ASSUME OneNode
  PROVE  Spec => []RootsReachLeaves
<1>1. Inv /\ HideInv => RootsReachLeaves
  <2> SUFFICES ASSUME Inv, HideInv, NEW k \in Key,
                      NEW r \in ({rootPtr} \cup {gRoot[n].ptr : n \in Node})
                                  \ {Null}
               PROVE  LeafFrom(r, k) = LeafFrom(FirstLeaf, k)
    BY DEF RootsReachLeaves
  <2>1. IsRoot(r) /\ IsRoot(FirstLeaf)
    BY DEF Inv, RootInv
  <2>2. k \in UserKey
    BY TreeAssumption DEF UserKey
  <2> QED  BY <2>1, <2>2, RootWalkEnds
<1> QED  BY <1>1, InvHolds, HideHolds, PTL

\* What the walks say about a state, as one formula.
Found ==
  /\ \A k \in UserKey : \A a : Holds(a, k) => Target(k) = a
  /\ \A k \in UserKey : /\ Holds(Target(k), k)
                        /\ LeafFrom(FirstLeaf, k) = Target(k)
                        /\ LeafFrom(rootPtr, k) = Target(k)

\* The walks end where the leaf for the key is.
LEMMA FoundHolds == Inv /\ HideInv => Found
<1> SUFFICES ASSUME Inv, HideInv, NEW k \in UserKey
             PROVE  /\ \A a : Holds(a, k) => Target(k) = a
                    /\ Holds(Target(k), k)
                    /\ LeafFrom(FirstLeaf, k) = Target(k)
                    /\ LeafFrom(rootPtr, k) = Target(k)
  BY DEF Found
<1>1. k \in Int
  BY KeyInts DEF UserKey
<1>2. IsRoot(FirstLeaf) /\ IsRoot(rootPtr)
  BY DEF Inv, RootInv
<1> QED  BY <1>1, <1>2, TargetIs, RootWalkEnds

\* The same in the next state.
LEMMA FoundNext == Inv' /\ HideInv' => Found'
BY FoundHolds, PTL

-----------------------------------------------------------------------------
(* What the leaves hold, and what clients may say about it.                *)

\* A client between call and return: its operation has taken effect when it
\* returns, has not before it reaches its leaf, and, while it goes up with a
\* separator, has or is in a posted leaf.
CallOk(t) ==
  LET c == th[t] IN
  /\ c.pc = "idle" => c = Idle
  /\ c.pc # "idle" => c.call.k \in Key
  /\ c.pc = "return" => c.landed
  /\ Busy(t) /\ ~Pending(t) =>
       ~c.landed /\ c.k = c.call.k /\ c.v = c.call.v
  /\ Pending(t) => c.landed \/ \E w \in posted : w.t = t /\ IsLeaf(w.page)

\* left and right hold the records of old, and the one of an insert.
Divided(left, right, old, call) ==
  /\ \A j : (j \in DOMAIN left \/ j \in DOMAIN right) <=>
              (j \in DOMAIN old \/ j = call.k)
  /\ \A j \in DOMAIN left :
       left[j] = IF j = call.k THEN call.v ELSE old[j]
  /\ \A j \in DOMAIN right :
       right[j] = IF j = call.k THEN call.v ELSE old[j]

\* A posted leaf and the leaf split off it hold the old records and the one
\* that was inserted.
Content(w) ==
  /\ w.op = ops[w.t]
  /\ ~th[w.t].landed
  /\ InPage(mem[w.addr], th[w.t].call.k)
  /\ Divided(w.page.recs, mem[w.page.sibling].recs, mem[w.addr].recs,
             th[w.t].call)

\* All clients and all posted leaves.
DataInv ==
  /\ \A t \in Thread : CallOk(t)
  /\ \A w \in posted : IsLeaf(w.page) => Content(w)

\* A step that posts nothing and leaves the posted leaves alone.
LEMMA DataQuiet ==
  ASSUME Inv, HideInv, DataInv, NEW t \in Thread, Moves(t), UNCHANGED posted,
         \A w \in posted :
           /\ mem'[w.addr] = mem[w.addr]
           /\ mem'[w.page.sibling] = mem[w.page.sibling]
           /\ ops'[w.t] = ops[w.t],
         (\E w \in posted : w.t = t) =>
           th'[t].landed = th[t].landed /\ th'[t].call = th[t].call,
         CallOk(t)'
  PROVE  DataInv'
<1>1. ASSUME NEW u \in Thread  PROVE CallOk(u)'
  <2>1. CASE u = t
    BY <2>1
  <2>2. CASE u # t
    <3>1. th'[u] = th[u] /\ CallOk(u)
      BY <2>2 DEF Moves, DataInv
    <3>2. (Busy(u)' <=> Busy(u)) /\ (Pending(u)' <=> Pending(u))
      BY <3>1 DEF Busy, Pending, Carries
    <3> QED  BY <3>1, <3>2 DEF CallOk
  <2> QED  BY <2>1, <2>2
<1>2. ASSUME NEW w \in posted, IsLeaf(w.page)  PROVE Content(w)'
  <2>1. Content(w) /\ w.t \in Thread
    BY <1>2 DEF DataInv, Inv, TypeInv, IsWrite
  <2>2. th'[w.t].landed = th[w.t].landed /\ th'[w.t].call = th[w.t].call
    BY <2>1 DEF Moves
  <2> QED  BY <2>1, <2>2 DEF Content
<1> QED  BY <1>1, <1>2 DEF DataInv

\* Memory is the same, and so is the call.
LEMMA DataSame ==
  ASSUME Inv, HideInv, DataInv, NEW t \in Thread, Moves(t),
         UNCHANGED <<posted, mem, ops>>, Busy(t), Busy(t)',
         ~Carries(t)', th'[t].call = th[t].call, th'[t].k = th[t].k,
         th'[t].v = th[t].v, th'[t].landed = th[t].landed,
         Pending(t)' <=> Pending(t)
  PROVE  DataInv'
<1>1. CallOk(t)
  BY DEF DataInv
<1>2. CallOk(t)'
  BY <1>1 DEF CallOk, Busy
<1> QED  BY <1>2, DataQuiet

\* The steps of a search, and of a client on its way to the lock.
LEMMA SearchData ==
  ASSUME Inv, HideInv, DataInv, NEW t \in Thread,
         \/ TurnRight(t) \/ Descend(t) \/ ReachLeaf(t)
         \/ StaleSearch(t) \/ StaleStore(t)
         \/ LockAndRead(t) \/ MoveRight(t)
  PROVE  DataInv'
<1> DEFINE c == th[t]
           d == th'[t]
<1>1. /\ Busy(t) /\ ~Carries(t)
      /\ UNCHANGED <<posted, mem, ops>>
  <2>1. CASE TurnRight(t) \/ Descend(t) \/ ReachLeaf(t)
    BY <2>1 DEF TurnRight, Descend, ReachLeaf, Reads, At, Busy, Carries, Visit,
                hist
  <2>2. CASE StaleSearch(t) \/ StaleStore(t)
    BY <2>2 DEF StaleSearch, StaleStore, Reads, At, Busy, Carries, hist
  <2>3. CASE LockAndRead(t) \/ MoveRight(t)
    BY <2>3 DEF LockAndRead, MoveRight, At, Busy, Carries, others, hist
  <2> QED  BY <2>1, <2>2, <2>3
<1>2. c.p \in Addr
  BY <1>1, AtPage
<1>3. /\ Moves(t) /\ d.pc \in {"search", "store", "modify"}
      /\ Keeps(t, {"pc", "p", "path", "root", "entry", "buf"})
  <2>1. CASE TurnRight(t) \/ Descend(t) \/ ReachLeaf(t)
    <3>1. PICK pc \in {"search", "store"} : \E p : Visit(t, pc, p)
      BY <2>1 DEF TurnRight, Descend, ReachLeaf
    <3>2. PICK p : Visit(t, pc, p)
      BY <3>1
    <3>3. pc \in Pcs
      BY DEF Pcs
    <3>4. Moves(t) /\ d.pc = pc /\ Keeps(t, {"pc", "p", "path"})
      BY <1>2, <3>2, <3>3, VisitMoves DEF Inv
    <3> QED  BY <3>4 DEF Keeps
  <2>2. CASE StaleSearch(t) \/ StaleStore(t)
    <3>1. PICK r : Restart(t, r)
      BY <2>2 DEF StaleSearch, StaleStore
    <3>2. /\ Moves(t) /\ d.pc = "search"
          /\ Keeps(t, {"pc", "root", "p", "entry", "buf"})
      BY <3>1, RestartMoves DEF Inv
    <3> QED  BY <3>2 DEF Keeps
  <2>3. CASE LockAndRead(t)
    BY <2>3, LockAndReadMoves DEF Inv, Keeps
  <2>4. CASE MoveRight(t)
    BY <2>4, MoveRightMoves DEF Inv, Keeps
  <2> QED  BY <2>1, <2>2, <2>3, <2>4
<1>4. /\ d.call = c.call /\ d.k = c.k /\ d.v = c.v /\ d.landed = c.landed
      /\ d.level = c.level
  BY <1>3 DEF Keeps, Fields
<1>5. Busy(t)' /\ ~Carries(t)' /\ (Pending(t)' <=> Pending(t))
  BY <1>1, <1>3, <1>4 DEF Busy, Carries, Pending
<1> QED  BY <1>1, <1>3, <1>4, <1>5, DataSame

\* The separator goes up.
LEMMA UpData ==
  ASSUME Inv, HideInv, DataInv, NEW t \in Thread,
         StoreUp(t) \/ InsertInternal(t)
  PROVE  DataInv'
<1> DEFINE c == th[t]
           d == th'[t]
<1>0. Carries(t) /\ Busy(t) /\ Pending(t)
  BY DEF StoreUp, InsertInternal, Splitting, At, Carries, Busy, Pending
<1>1. UNCHANGED <<mem, posted, ops>>
  BY DEF StoreUp, InsertInternal, others, hist
<1>2. c.level \in Nat /\ c.level + 1 \in PathLevel
  BY ThreadRecordElim, TreeAssumption DEF Inv, Level, PathLevel
<1>3. c.level + 1 \in Level
  <2>1. CASE StoreUp(t)
    <3>1. c.path[c.level + 1] # Null
      BY <2>1 DEF StoreUp, UpLevel
    <3>2. /\ c.path[c.level + 1] \in Live
          /\ Lev(c.path[c.level + 1]) = c.level + 1
      BY <1>0, <1>2, <3>1, AtPage DEF PathDown
    <3> QED  BY <3>2, LiveTypes
  <2>2. CASE InsertInternal(t)
    <3>1. FromCache(t)
      BY <2>2 DEF InsertInternal
    <3>2. c.level = 0 /\ CacheOn(NodeOf[t])
      BY <1>0, <3>1, AtPage DEF Placed
    <3> QED  BY <3>2, RootForIsRoot, TreeAssumption
  <2> QED  BY <2>1, <2>2
<1>4. /\ Moves(t) /\ d.pc \in {"store", "search"} /\ d.level = c.level + 1
      /\ Keeps(t, {"pc", "level", "root", "p", "entry"})
  <2>1. CASE StoreUp(t)
    BY <1>3, <2>1, StoreUpMoves DEF Inv, Keeps
  <2>2. CASE InsertInternal(t)
    BY <1>3, <2>2, InsertInternalMoves DEF Inv, Keeps
  <2> QED  BY <2>1, <2>2
<1>5. /\ d.call = c.call /\ d.k = c.k /\ d.v = c.v /\ d.landed = c.landed
  BY <1>4 DEF Keeps, Fields
<1>6. Busy(t)' /\ ~Carries(t)' /\ Pending(t)'
  BY <1>2, <1>4 DEF Busy, Carries, Pending
<1> QED  BY <1>0, <1>1, <1>4, <1>5, <1>6, DataSame

\* An operation begins or returns.
LEMMA CallData ==
  ASSUME Inv, HideInv, DataInv, NEW t \in Thread, Start(t) \/ Return(t)
  PROVE  DataInv'
<1> DEFINE d == th'[t]
<1>1. UNCHANGED <<posted, mem>> /\ th[t].pc \in {"idle", "return"}
  BY DEF Start, Return, At
<1>2. \A w \in posted : w.t # t
  BY <1>1, HolderPostedNothing DEF HideInv
<1>3. \A u \in Thread : u # t => ops'[u] = ops[u]
  <2>1. ops \in [Thread -> Nat]
    BY DEF Inv, TypeInv
  <2> QED  BY <2>1 DEF Start, Return
<1>4. \A w \in posted : ops'[w.t] = ops[w.t]
  BY <1>2, <1>3 DEF Inv, TypeInv, IsWrite
<1>5. Moves(t) /\ CallOk(t)'
  <2>1. CASE Start(t)
    <3> DEFINE n == NodeOf[t]
               r == RootFor(n)
    <3>1. PICK c \in Calls(t)[ops[t] + 1] :
            \/ Begun(t, c, r, r, "search")
            \/ \E e \in search_from_cache(cache[n], c.k) :
                 Begun(t, c, r, ChildFor(e.page, c.k),
                       IF c.op = "search" THEN "search" ELSE "store")
      BY <2>1, StartMoves DEF Inv
    <3>2. /\ d.pc \in {"search", "store"} /\ d.call = c /\ d.k = c.k
          /\ d.v = c.v /\ d.level = 0 /\ d.landed = FALSE
      BY <3>1 DEF Begun
    <3>3. c.k \in Key
      BY <2>1, CallIsOperation DEF Start
    <3>4. ~Pending(t)'
      BY <3>2 DEF Pending, Carries
    <3>5. Moves(t)
      BY <2>1, StartMoves DEF Inv
    <3> QED  BY <3>2, <3>3, <3>4, <3>5 DEF CallOk
  <2>2. CASE Return(t)
    <3>1. Moves(t) /\ d = Idle
      BY <2>2, ReturnMoves DEF Inv
    <3>2. d.pc = "idle"
      BY <3>1 DEF Idle
    <3>3. ~Busy(t)' /\ ~Pending(t)'
      BY <3>2 DEF Busy, Pending, Carries
    <3> QED  BY <3>1, <3>2, <3>3 DEF CallOk
  <2> QED  BY <2>1, <2>2
<1> QED  BY <1>1, <1>2, <1>4, <1>5, DataQuiet

\* A client that has something above its leaf to do, and nothing posted, has
\* its record in the tree.
LEMMA HolderLanded ==
  ASSUME DataInv, NEW t \in Thread, Pending(t), \A w \in posted : w.t # t
  PROVE  th[t].landed
BY DEF DataInv, CallOk

\* A client that holds a leaf has not stored its record.
LEMMA LeafHolder ==
  ASSUME Inv, HideInv, DataInv, NEW t \in Thread,
         th[t].pc \in {"search", "store", "modify"}, th[t].level = 0
  PROVE  LET c == th[t] IN
         /\ Busy(t) /\ ~Pending(t) /\ ~c.landed
         /\ c.k = c.call.k /\ c.v = c.call.v
         /\ c.call.k \in Key
<1>1. Busy(t) /\ ~Pending(t)
  BY DEF Busy, Pending, Carries
<1> QED  BY <1>1 DEF DataInv, CallOk

\* Where posted pages and those split off them are.
LEMMA PostedPlaces ==
  ASSUME Inv, HideInv, NEW w \in posted
  PROVE  /\ w.t \in Thread /\ Pending(w.t)
         /\ w.addr \in Live /\ w.addr \in Addr /\ IsPageIn(mem, w.addr)
         /\ w.addr \notin Hidden
         /\ w.page.sibling \in Addr /\ IsPageIn(mem, w.page.sibling)
         /\ w.page.sibling \in Live /\ w.page.sibling \in Hidden
         /\ IsPageRecord(w.page) /\ Linked(mem, w.page)
         /\ w.page.level = Lev(w.addr) /\ w.page.lowest = Low(w.addr)
         /\ w.page.leftmost = mem[w.addr].leftmost
         /\ Lev(w.page.sibling) = Lev(w.addr)
         /\ Low(w.page.sibling) = w.page.highest
         /\ mem[w.page.sibling].highest = mem[w.addr].highest
<1>1. w.page.sibling \in Hidden
  BY DEF Hidden
<1>2. /\ w.t \in Thread /\ Pending(w.t) /\ w.addr \notin Hidden
      /\ w.page.highest # kKeyMax
      /\ mem[w.page.sibling].highest = mem[w.addr].highest
  BY DEF Inv, TypeInv, IsWrite, HideInv, OwnerInv
<1>3. /\ w.addr \in Live /\ w.addr \in Addr /\ IsPageIn(mem, w.addr)
      /\ IsPageRecord(w.page) /\ Linked(mem, w.page)
      /\ w.page.level = Lev(w.addr) /\ w.page.lowest = Low(w.addr)
      /\ w.page.leftmost = mem[w.addr].leftmost
  BY LivePage DEF Inv, PostedInv, IsPage
<1>4. /\ w.page.sibling \in Live /\ Lev(w.page.sibling) = w.page.level
      /\ Low(w.page.sibling) = w.page.highest
  BY <1>2, <1>3, SiblingLive
<1>5. w.page.sibling \in Addr /\ IsPageIn(mem, w.page.sibling)
  BY <1>4, LivePage DEF IsPage
<1> QED  BY <1>1, <1>2, <1>3, <1>4, <1>5

\* search ends, or a page is written in place.
LEMMA LeafData ==
  ASSUME Inv, HideInv, DataInv, OneNode, NEW t \in Thread,
         ReadLeaf(t) \/ DeleteEntry(t) \/ StoreEntry(t)
  PROVE  DataInv'
<1> SUFFICES ASSUME NEW p, p = th[t].p  PROVE DataInv'
  OBVIOUS
<1> DEFINE c == th[t]
           d == th'[t]
<1>1. /\ c.pc \in {"search", "modify"} /\ Busy(t)
      /\ ReadLeaf(t) => c.pc = "search" /\ Drained(t, MemNode[p])
      /\ ~ReadLeaf(t) => c.pc = "modify"
      /\ UNCHANGED <<posted, ops>>
  BY DEF ReadLeaf, Reads, DeleteEntry, StoreEntry, At, others, hist, Busy
<1>2. p \in Live /\ p \in Addr /\ p \notin Hidden
  BY <1>1, AtPage, PathUnseen
<1>3. \A w \in posted : w.t # t
  <2>1. CASE ReadLeaf(t)
    BY <1>1, <1>2, <2>1, NothingPosted
  <2>2. CASE ~ReadLeaf(t)
    BY <1>1, <2>2, HolderPostedNothing DEF HideInv
  <2> QED  BY <2>1, <2>2
<1>4. \A w \in posted : /\ mem'[w.addr] = mem[w.addr]
                        /\ mem'[w.page.sibling] = mem[w.page.sibling]
  <2> SUFFICES ASSUME NEW w \in posted
               PROVE  /\ mem'[w.addr] = mem[w.addr]
                      /\ mem'[w.page.sibling] = mem[w.page.sibling]
    OBVIOUS
  <2>1. CASE ReadLeaf(t)
    BY <2>1 DEF ReadLeaf
  <2>2. CASE ~ReadLeaf(t)
    <3>1. mem' = [mem EXCEPT ![p] = mem'[p]]
      BY <2>2, DeleteEntryDoes, StoreEntryDoes
    <3>2. w.addr # p
      BY <1>1, <2>2, HoldsPage
    <3>3. w.addr \in Addr /\ w.page.sibling \in Addr /\ w.page.sibling # p
      BY <1>2, PostedPlaces
    <3>4. mem = [a \in Addr |-> mem[a]]
      BY DEF Inv, TypeInv
    <3> QED  BY <3>1, <3>2, <3>3, <3>4
  <2> QED  BY <2>1, <2>2
<1>5. Moves(t) /\ d.pc = "return" /\ d.call = c.call
  <2>1. CASE ReadLeaf(t)
    BY <2>1, ReadLeafMoves DEF Inv, Keeps, Fields
  <2>2. CASE DeleteEntry(t)
    BY <2>2, DeleteEntryMoves DEF Inv, Keeps, Fields
  <2>3. CASE StoreEntry(t)
    BY <2>3, StoreEntryMoves DEF Inv, Keeps, Fields
  <2> QED  BY <2>1, <2>2, <2>3
<1>6. d.landed
  <2>1. CASE ReadLeaf(t)
    BY <2>1, ReadLeafMoves DEF Inv
  <2>2. CASE DeleteEntry(t)
    BY <2>2, DeleteEntryMoves DEF Inv
  <2>3. CASE StoreEntry(t)
    <3>0. c.pc = "modify"
      BY <2>3 DEF StoreEntry, At
    <3>1. /\ d.landed = (c.landed \/ IsLeaf(Stored(c.buf, c.k, c.v)))
          /\ IsLeaf(Stored(c.buf, c.k, c.v)) <=> IsLeaf(mem[p])
      BY <2>3, StoreEntryMoves, StoreEntryDoes DEF Inv
    <3>2. CASE IsLeaf(mem[p])
      BY <3>1, <3>2
    <3>3. CASE ~IsLeaf(mem[p])
      <4>1. Pending(t)
        BY <3>0, <3>3, HoldsPage, SeparatorFits
      <4>2. c.landed
        BY <1>3, <4>1, HolderLanded
      <4> QED  BY <3>1, <4>2
    <3> QED  BY <3>2, <3>3
  <2> QED  BY <2>1, <2>2, <2>3
<1>7. CallOk(t)'
  <2>1. c.call.k \in Key
    BY <1>1 DEF DataInv, CallOk
  <2>2. ~Busy(t)' /\ ~Pending(t)'
    BY <1>5 DEF Busy, Pending, Carries
  <2> QED  BY <1>5, <1>6, <2>1, <2>2 DEF CallOk
<1> QED  BY <1>1, <1>3, <1>4, <1>5, <1>7, DataQuiet

\* A new root.
LEMMA NewRootData ==
  ASSUME Inv, HideInv, DataInv, OneNode, NEW t \in Thread, UpdateNewRoot(t)
  PROVE  DataInv'
<1> DEFINE c == th[t]
           d == th'[t]
<1>1. /\ c.pc = "grow" /\ next \in Addr /\ Drained(t, RootNode)
      /\ \A a \in Addr : a # next => mem'[a] = mem[a]
      /\ UNCHANGED <<posted, ops>>
  BY DEF UpdateNewRoot, At, others, hist, Inv, TypeInv
<1>2. \A w \in posted : w.t # t
  BY <1>1, NothingPosted
<1>3. Pending(t) /\ c.landed
  BY <1>1, <1>2, HolderLanded DEF Pending, Carries
<1>4. ~IsPageIn(mem, next)
  <2>1. next \in Int
    BY <1>1, TreeAssumption DEF Addr
  <2> QED  BY <1>1, <2>1 DEF Inv, PagesInv, IsPage
<1>5. \A w \in posted : /\ mem'[w.addr] = mem[w.addr]
                        /\ mem'[w.page.sibling] = mem[w.page.sibling]
  BY <1>1, <1>4, PostedPlaces
<1>6. Moves(t) /\ d.pc \in {"return", "up"} /\ Keeps(t, {"pc"})
  BY UpdateNewRootMoves DEF Inv
<1>7. d.call = c.call /\ d.landed = c.landed
  BY <1>6 DEF Keeps, Fields
<1>8. CallOk(t)'
  <2>1. c.call.k \in Key
    BY <1>1 DEF DataInv, CallOk
  <2>2. Busy(t)' => Pending(t)'
    BY <1>6 DEF Busy, Pending, Carries
  <2> QED  BY <1>3, <1>6, <1>7, <2>1, <2>2 DEF CallOk
<1> QED  BY <1>1, <1>2, <1>5, <1>6, <1>8, DataQuiet

\* Memory and what is posted after a split.
LEMMA SplitMem ==
  ASSUME Inv, NEW t \in Thread, NEW async \in BOOLEAN, Split(t, async)
  PROVE  LET p == th[t].p
             q == Stored(th[t].buf, th[t].k, th[t].v)
             left == LeftHalf(q, next)
             right == RightHalf(q) IN
         /\ p \in Live /\ p \in Addr
         /\ p # next /\ next \notin Live /\ ~IsPageIn(mem, next)
         /\ \A a \in Addr : a # p /\ a # next => mem'[a] = mem[a]
         /\ mem'[next] = right
         /\ mem'[p] = IF async THEN mem[p] ELSE left
         /\ Live' = Live \cup {next}
         /\ posted' = IF async
                        THEN posted \cup {[t |-> t, op |-> ops[t],
                                           addr |-> p, page |-> left]}
                        ELSE posted
<1> SUFFICES ASSUME NEW p, p = th[t].p, NEW q,
                    q = Stored(th[t].buf, th[t].k, th[t].v),
                    NEW left, left = LeftHalf(q, next),
                    NEW right, right = RightHalf(q)
             PROVE  /\ p \in Live /\ p \in Addr
                    /\ p # next /\ next \notin Live /\ ~IsPageIn(mem, next)
                    /\ \A a \in Addr : a # p /\ a # next => mem'[a] = mem[a]
                    /\ mem'[next] = right
                    /\ mem'[p] = IF async THEN mem[p] ELSE left
                    /\ Live' = Live \cup {next}
                    /\ posted' =
                         IF async
                           THEN posted \cup {[t |-> t, op |-> ops[t],
                                              addr |-> p, page |-> left]}
                           ELSE posted
  OBVIOUS
<1> DEFINE pg == mem[p]
<1>0. th[t].pc = "modify" /\ UNCHANGED rootPtr
  BY DEF Split, At
<1>1. /\ mem' = IF async THEN [mem EXCEPT ![next] = right]
                ELSE [mem EXCEPT ![next] = right, ![p] = left]
      /\ posted' =
           IF async THEN posted \cup {[t |-> t, op |-> ops[t],
                                       addr |-> p, page |-> left]}
           ELSE posted
  BY DEF Split
<1>2. /\ p \in Live /\ p \in Addr /\ pg.level = Lev(p) /\ pg.lowest = Low(p)
      /\ IsPageRecord(pg)
  BY <1>0, HoldsPage
<1>3. /\ next \in Addr /\ left.level = pg.level /\ left.lowest = pg.lowest
      /\ left.leftmost = pg.leftmost /\ IsPageRecord(left)
      /\ IsPageRecord(right) /\ right.lowest = SplitKey(q)
      /\ right.leftmost = Null \/ right.leftmost \in Live
      /\ SplitKey(q) \in Int /\ pg.lowest < SplitKey(q)
  BY SplitDoes, SMTT(30)
<1>4. right.lowest # kKeyMin
  <2>1. pg.lowest \in kKeyMin..kKeyMax
    BY <1>2 DEF IsPageRecord
  <2> HIDE DEF pg
  <2> QED  BY <1>3, <2>1, KeyInts
<1>5. /\ p # next /\ next \notin Live /\ ~IsPageIn(mem, next)
      /\ \A a \in Addr : a # p /\ a # next => mem'[a] = mem[a]
      /\ mem'[next] = right
      /\ Live' = Live \cup {next}
  <2>1. \/ mem' = [mem EXCEPT ![next] = right]
        \/ mem' = [mem EXCEPT ![next] = right, ![p] = left]
    BY <1>1
  <2> QED  BY <1>0, <1>2, <1>3, <1>4, <2>1, Added
<1>6. mem'[p] = IF async THEN mem[p] ELSE left
  BY <1>1, <1>2, <1>3, <1>5 DEF Inv, TypeInv
<1> QED  BY <1>1, <1>2, <1>5, <1>6

\* The halves of a split leaf hold its records and the one of the insert, each
\* half those on its side of the split key.
LEMMA SplitDivides ==
  ASSUME Inv, HideInv, DataInv, NEW t \in Thread, NEW async \in BOOLEAN,
         Split(t, async), IsLeaf(mem[th[t].p])
  PROVE  LET c == th[t]
             q == Stored(c.buf, c.k, c.v)
             left == LeftHalf(q, next)
             right == RightHalf(q) IN
         /\ Divided(left.recs, right.recs, mem[c.p].recs, c.call)
         /\ \A j \in DOMAIN left.recs : j \in Int /\ j < SplitKey(q)
         /\ \A j \in DOMAIN right.recs : j \in Int /\ SplitKey(q) <= j
<1> SUFFICES ASSUME NEW c, c = th[t], NEW pg, pg = mem[c.p],
                    NEW q, q = Stored(c.buf, c.k, c.v),
                    NEW s, s = SplitKey(q),
                    NEW left, left = LeftHalf(q, next).recs,
                    NEW right, right = RightHalf(q).recs
             PROVE  /\ Divided(left, right, pg.recs, c.call)
                    /\ \A j \in DOMAIN left : j \in Int /\ j < s
                    /\ \A j \in DOMAIN right : j \in Int /\ s <= j
  OBVIOUS
<1>0. c.pc = "modify"
  BY DEF Split, At
<1>1. /\ IsLeaf(q) /\ s \in Int
      /\ DOMAIN q.recs = DOMAIN pg.recs \cup {c.k}
      /\ q.recs[c.k] = c.v
      /\ \A j \in DOMAIN pg.recs : j # c.k => q.recs[j] = pg.recs[j]
      /\ DOMAIN left = Below(DOMAIN q.recs, s)
      /\ \A j \in DOMAIN left : left[j] = q.recs[j]
      /\ DOMAIN right = Above(q)
      /\ \A j \in DOMAIN right : right[j] = q.recs[j]
  BY SplitDoes, SMTT(30)
<1>2. c.k = c.call.k /\ c.v = c.call.v
  <2>1. c.level = 0
    BY <1>0, HoldsPage, LeafLevel
  <2> QED  BY <1>0, <2>1, LeafHolder
<1>3. \A j \in DOMAIN q.recs : j \in Int
  <2>1. IsPageRecord(pg) /\ c.k \in Int
    BY <1>0, HoldsPage
  <2>2. DOMAIN pg.recs \subseteq kKeyMin..kKeyMax
    BY <2>1 DEF IsPageRecord
  <2>3. \A j \in DOMAIN pg.recs : j \in Int
    BY <2>2, KeyInts
  <2> QED  BY <1>1, <2>1, <2>3
<1>4. /\ \A j : j \in DOMAIN left <=> j \in DOMAIN q.recs /\ j < s
      /\ \A j : j \in DOMAIN right <=> j \in DOMAIN q.recs /\ j >= s
  <2>1. Above(q) = {j \in DOMAIN q.recs : j >= s}
    BY <1>1 DEF Above
  <2> QED  BY <1>1, <2>1 DEF Below
<1>5. \A j : (j \in DOMAIN left \/ j \in DOMAIN right) <=>
               (j \in DOMAIN pg.recs \/ j = c.k)
  <2>1. \A j : j \in DOMAIN q.recs <=> j \in DOMAIN pg.recs \/ j = c.k
    BY <1>1
  <2>2. s \in Int
    BY <1>1
  <2> QED  BY <1>3, <1>4, <2>1, <2>2
<1>6. /\ \A j \in DOMAIN left :
           left[j] = IF j = c.k THEN c.v ELSE pg.recs[j]
      /\ \A j \in DOMAIN right :
           right[j] = IF j = c.k THEN c.v ELSE pg.recs[j]
  <2>1. \A j \in DOMAIN q.recs :
          q.recs[j] = IF j = c.k THEN c.v ELSE pg.recs[j]
    BY <1>1
  <2>2. /\ \A j \in DOMAIN left : left[j] = q.recs[j]
        /\ \A j \in DOMAIN right : right[j] = q.recs[j]
    BY <1>1
  <2> QED  BY <1>4, <2>1, <2>2, SMTT(30)
<1>7. Divided(left, right, pg.recs, c.call)
  <2>1. \A j : (j \in DOMAIN left \/ j \in DOMAIN right) <=>
                 (j \in DOMAIN pg.recs \/ j = c.call.k)
    BY <1>2, <1>5
  <2>2. ASSUME NEW j \in DOMAIN left
        PROVE  left[j] = IF j = c.call.k THEN c.call.v ELSE pg.recs[j]
    <3>1. left[j] = IF j = c.k THEN c.v ELSE pg.recs[j]
      BY <1>6
    <3> QED  BY <1>2, <3>1
  <2>3. ASSUME NEW j \in DOMAIN right
        PROVE  right[j] = IF j = c.call.k THEN c.call.v ELSE pg.recs[j]
    <3>1. right[j] = IF j = c.k THEN c.v ELSE pg.recs[j]
      BY <1>6
    <3> QED  BY <1>2, <3>1
  <2> QED  BY <2>1, <2>2, <2>3 DEF Divided
<1>8. /\ \A j \in DOMAIN left : j \in Int /\ j < s
      /\ \A j \in DOMAIN right : j \in Int /\ s <= j
  <2>1. s \in Int
    BY <1>1
  <2> QED  BY <1>3, <1>4, <2>1
<1> QED  BY <1>7, <1>8

\* A split.
LEMMA SplitData ==
  ASSUME Inv, HideInv, DataInv, NEW t \in Thread, NEW async \in BOOLEAN,
         Split(t, async)
  PROVE  DataInv'
<1> SUFFICES ASSUME NEW p, p = th[t].p, NEW q,
                    q = Stored(th[t].buf, th[t].k, th[t].v),
                    NEW left, left = LeftHalf(q, next),
                    NEW right, right = RightHalf(q), NEW w0,
                    w0 = [t |-> t, op |-> ops[t], addr |-> p, page |-> left]
             PROVE  DataInv'
  OBVIOUS
<1> DEFINE c == th[t]
           d == th'[t]
           pg == mem[p]
<1>0. /\ c.pc = "modify" /\ UNCHANGED ops
  BY DEF Split, At, others, hist
<1>1. /\ p \in Live /\ p \in Addr /\ p # next /\ ~IsPageIn(mem, next)
      /\ \A a \in Addr : a # p /\ a # next => mem'[a] = mem[a]
      /\ mem'[next] = right
      /\ mem'[p] = IF async THEN mem[p] ELSE left
      /\ posted' = IF async THEN posted \cup {w0} ELSE posted
  BY SplitMem
<1>2. /\ Moves(t) /\ d.pc = "grow"
      /\ d.landed = (c.landed \/ (~async /\ IsLeaf(q)))
      /\ Keeps(t, {"pc", "k", "v", "buf", "landed"})
  BY SplitMoves DEF Inv
<1>3. d.call = c.call
  BY <1>2 DEF Keeps, Fields
<1>4. /\ InPage(pg, c.k) /\ (IsLeaf(q) <=> IsLeaf(pg))
      /\ left.leftmost = pg.leftmost /\ left.sibling = next
      /\ DOMAIN q.recs = DOMAIN pg.recs \cup {c.k}
      /\ q.recs[c.k] = c.v
      /\ \A j \in DOMAIN pg.recs : j # c.k => q.recs[j] = pg.recs[j]
      /\ DOMAIN left.recs = Below(DOMAIN q.recs, SplitKey(q))
      /\ \A j \in DOMAIN left.recs : left.recs[j] = q.recs[j]
      /\ DOMAIN right.recs = Above(q)
      /\ \A j \in DOMAIN right.recs : right.recs[j] = q.recs[j]
      /\ SplitKey(q) \in Int
  BY SplitDoes, ZenonT(30)
<1>5. \A w \in posted : w.t # t /\ w.addr # p /\ w.addr # next
                        /\ w.page.sibling # p /\ w.page.sibling # next
  <2>1. p \notin Hidden
    BY <1>0, HoldsPage, PathUnseen
  <2> QED
    BY <1>0, <1>1, <2>1, HolderPostedNothing, HoldsPage, PostedPlaces
       DEF HideInv
<1>6. \A w \in posted : /\ mem'[w.addr] = mem[w.addr]
                        /\ mem'[w.page.sibling] = mem[w.page.sibling]
  BY <1>1, <1>5, PostedPlaces
<1>7. IsLeaf(pg) => /\ ~c.landed /\ c.k = c.call.k /\ c.v = c.call.v
  <2>1. IsLeaf(pg) => c.level = 0
    BY <1>0, HoldsPage, LeafLevel
  <2> QED  BY <1>0, <2>1, LeafHolder
<1>8. ~IsLeaf(pg) => c.landed
  BY <1>0, <1>5, HoldsPage, SeparatorFits, HolderLanded
<1>9. c.call.k \in Key
  BY <1>0 DEF DataInv, CallOk
<1>10. Pending(t)'
  BY <1>2 DEF Pending, Carries
<1>11. CASE ~async
  <2>1. CallOk(t)'
    BY <1>2, <1>3, <1>4, <1>8, <1>9, <1>10, <1>11 DEF CallOk
  <2> QED  BY <1>0, <1>1, <1>2, <1>5, <1>6, <1>11, <2>1, DataQuiet
<1>12. CASE async
  <2>1. CallOk(t)'
    <3>1. CASE IsLeaf(pg)
      <4>1. w0 \in posted' /\ w0.t = t /\ w0.page = left
        BY <1>1, <1>12
      <4>2. IsLeaf(left)
        BY <1>4, <3>1 DEF IsLeaf
      <4> QED  BY <1>2, <1>3, <1>9, <1>10, <4>1, <4>2 DEF CallOk
    <3>2. CASE ~IsLeaf(pg)
      BY <1>2, <1>3, <1>8, <1>9, <1>10, <3>2 DEF CallOk
    <3> QED  BY <3>1, <3>2
  <2>2. ASSUME NEW u \in Thread, u # t  PROVE CallOk(u)'
    <3>1. th'[u] = th[u] /\ CallOk(u)
      BY <1>2, <2>2 DEF Moves, DataInv
    <3>2. (Busy(u)' <=> Busy(u)) /\ (Pending(u)' <=> Pending(u))
      BY <3>1 DEF Busy, Pending, Carries
    <3>3. posted \subseteq posted'
      BY <1>1, <1>12
    <3> QED  BY <3>1, <3>2, <3>3 DEF CallOk
  <2>3. ASSUME NEW w \in posted, IsLeaf(w.page)  PROVE Content(w)'
    <3>1. Content(w) /\ w.t \in Thread /\ w.t # t
      BY <1>5, <2>3 DEF DataInv, Inv, TypeInv, IsWrite
    <3>2. th'[w.t] = th[w.t]
      BY <1>2, <3>1 DEF Moves
    <3> QED  BY <1>0, <1>6, <3>1, <3>2 DEF Content
  <2>4. ASSUME IsLeaf(left)  PROVE Content(w0)'
    <3>1. IsLeaf(pg) /\ IsLeaf(q)
      BY <1>4, <2>4 DEF IsLeaf
    <3>2. ~d.landed /\ c.k = c.call.k /\ c.v = c.call.v
      BY <1>2, <1>7, <1>12, <3>1
    <3>5. /\ w0.t = t /\ w0.op = ops[t] /\ w0.addr = p /\ w0.page = left
      OBVIOUS
    <3>6. mem'[p] = pg /\ mem'[w0.page.sibling] = right
      BY <1>1, <1>4, <1>12, <3>5
    <3>7. /\ w0.op = ops'[w0.t] /\ ~th'[w0.t].landed
          /\ th'[w0.t].call = c.call /\ InPage(mem'[w0.addr], c.call.k)
          /\ w0.page = left /\ mem'[w0.page.sibling] = right
          /\ mem'[w0.addr] = pg
      BY <1>0, <1>3, <1>4, <3>2, <3>5, <3>6
    <3>8. Divided(left.recs, right.recs, pg.recs, c.call)
      BY <3>1, SplitDivides
    <3> HIDE DEF c, pg
    <3> QED  BY <3>7, <3>8 DEF Content
  <2>5. \A w \in posted' : w \in posted \/ (w = w0 /\ w.page = left)
    BY <1>1, <1>12
  <2> QED  BY <2>1, <2>2, <2>3, <2>4, <2>5 DEF DataInv
<1> QED  BY <1>11, <1>12

\* A posted page arrives.
LEMMA DeliverData ==
  ASSUME Inv, HideInv, DataInv, NEW w \in posted, Deliver(w)
  PROVE  DataInv'
<1> SUFFICES ASSUME NEW t, t = w.t  PROVE DataInv'
  OBVIOUS
<1> DEFINE c == th[t]
           d == th'[t]
<1>0. /\ posted' = posted \ {w} /\ UNCHANGED ops
      /\ mem' = [mem EXCEPT ![w.addr] = w.page]
  BY DEF Deliver, others, hist
<1>1. /\ t \in Thread /\ Pending(t) /\ w.addr \notin Hidden /\ w.addr \in Addr
      /\ mem = [a \in Addr |-> mem[a]]
  BY PostedPlaces DEF Inv, TypeInv
<1>2. /\ Moves(t) /\ Keeps(t, {"landed"})
      /\ d.landed = (c.landed \/ (IsLeaf(w.page) /\ w.op = ops[w.t]))
  BY <1>1, DeliverMoves DEF Inv
<1>3. /\ d.call = c.call /\ d.pc = c.pc /\ d.level = c.level
  BY <1>2 DEF Keeps, Fields
<1>4. \A x \in posted : x.t = t => x = w
  BY DEF HideInv, OwnerInv
<1>5. CallOk(t)'
  <2>1. CallOk(t) /\ (IsLeaf(w.page) => w.op = ops[w.t])
    BY <1>1 DEF DataInv, Content
  <2>2. d.landed
    BY <1>1, <1>2, <1>4, <2>1 DEF CallOk
  <2>3. Pending(t)' /\ c.pc \in {"grow", "store", "search"}
    BY <1>1, <1>3 DEF Pending, Carries, Busy, HideInv, OwnerInv
  <2> QED  BY <1>3, <2>1, <2>2, <2>3 DEF CallOk
<1>6. ASSUME NEW u \in Thread, u # t  PROVE CallOk(u)'
  <2>1. th'[u] = th[u] /\ CallOk(u)
    BY <1>2, <1>6 DEF Moves, DataInv
  <2>2. (Busy(u)' <=> Busy(u)) /\ (Pending(u)' <=> Pending(u))
    BY <2>1 DEF Busy, Pending, Carries
  <2>3. \A x \in posted : x.t = u => x \in posted'
    BY <1>0, <1>6
  <2> QED  BY <2>1, <2>2, <2>3 DEF CallOk
<1>7. ASSUME NEW x \in posted', IsLeaf(x.page)  PROVE Content(x)'
  <2>1. x \in posted /\ Content(x) /\ x.t \in Thread /\ x.t # t
    BY <1>0, <1>4, <1>7 DEF DataInv, Inv, TypeInv, IsWrite
  <2>2. th'[x.t] = th[x.t]
    BY <1>2, <2>1 DEF Moves
  <2>3. x.addr # w.addr /\ x.addr \in Addr
    BY <1>0, <2>1, PostedPlaces DEF Inv, LockInv
  <2>4. x.page.sibling # w.addr /\ x.page.sibling \in Addr
    BY <1>1, <2>1, PostedPlaces
  <2>5. /\ mem'[x.addr] = mem[x.addr]
        /\ mem'[x.page.sibling] = mem[x.page.sibling]
    BY <1>0, <1>1, <2>3, <2>4
  <2> QED  BY <1>0, <2>1, <2>2, <2>5 DEF Content
<1> QED  BY <1>5, <1>6, <1>7 DEF DataInv

\* A step that leaves all of this alone.
LEMMA StutterData ==
  ASSUME DataInv, UNCHANGED <<mem, posted, th, ops>>
  PROVE  DataInv'
<1>1. \A t \in Thread : CallOk(t)'
  BY DEF DataInv, CallOk, Busy, Pending, Carries
<1>2. \A w \in posted : IsLeaf(w.page) => Content(w)'
  BY DEF DataInv, Content
<1> QED  BY <1>1, <1>2 DEF DataInv

\* At the start.
LEMMA InitData ==
  ASSUME Init
  PROVE  DataInv
<1>1. posted = {} /\ \A t \in Thread : th[t] = Idle
  BY DEF Init
<1>2. Idle.pc = "idle"
  BY DEF Idle
<1> QED  BY <1>1, <1>2 DEF DataInv, CallOk, Busy, Pending, Carries

\* The invariant holds after every step.
LEMMA NextData ==
  ASSUME Inv, HideInv, DataInv, OneNode, Next
  PROVE  DataInv'
<1>1. ASSUME NEW t \in Thread, Step(t)  PROVE DataInv'
  <2>1. CASE \/ TurnRight(t) \/ Descend(t) \/ ReachLeaf(t)
             \/ StaleSearch(t) \/ StaleStore(t)
             \/ LockAndRead(t) \/ MoveRight(t)
    BY <2>1, SearchData
  <2>2. CASE Start(t) \/ Return(t)
    BY <2>2, CallData
  <2>3. CASE ReadLeaf(t) \/ DeleteEntry(t) \/ StoreEntry(t)
    BY <2>3, LeafData
  <2>4. CASE StoreUp(t) \/ InsertInternal(t)
    BY <2>4, UpData
  <2>5. CASE \E async \in BOOLEAN : Split(t, async)
    BY <2>5, SplitData
  <2>6. CASE UpdateNewRoot(t)
    BY <2>6, NewRootData
  <2>7. CASE RetryLock(t) \/ NoUpLevel(t)
    BY <2>7, StutterData DEF RetryLock, NoUpLevel, vars, hist
  <2> QED  BY <1>1, <2>1, <2>2, <2>3, <2>4, <2>5, <2>6, <2>7 DEF Step
<1>2. ASSUME NEW w \in posted, Deliver(w)  PROVE DataInv'
  BY <1>2, DeliverData
<1>3. ASSUME NEW m \in msgs, DirNewRoot(m) \/ LoseMessage(m)  PROVE DataInv'
  BY <1>3, StutterData DEF DirNewRoot, LoseMessage, others, hist
<1>4. ASSUME Finished  PROVE DataInv'
  BY <1>4, StutterData DEF Finished, vars
<1> QED  BY <1>1, <1>2, <1>3, <1>4 DEF Next

-----------------------------------------------------------------------------
(* The map that the leaves stand for, and what the steps do to it.         *)

\* Whether k has a record, and what a search for it finds.
In(k) == k \in DOMAIN mem[Target(k)].recs
Val(k) == ValueIn(mem[Target(k)], k)

\* A step that leaves the map alone, stores a value, removes a key.
Untouched == \A k \in UserKey : (In(k)' <=> In(k)) /\ Val(k)' = Val(k)

Puts(j, v) ==
  \A k \in UserKey :
    /\ In(k)' <=> (In(k) \/ k = j)
    /\ Val(k)' = IF k = j THEN v ELSE Val(k)

Removes(j) ==
  \A k \in UserKey :
    /\ In(k)' <=> (In(k) /\ k # j)
    /\ Val(k)' = IF k = j THEN kValueNull ELSE Val(k)

\* The leaves in sight stay as they are.
LEMMA LeavesStay ==
  ASSUME Found, Found',
         \A a \in Live \ Hidden : Lev(a) = 0 =>
           a \in Live' /\ a \notin Hidden' /\ mem'[a] = mem[a]
  PROVE  Untouched
<1> SUFFICES ASSUME NEW k \in UserKey, NEW x, x = Target(k)
             PROVE  (In(k)' <=> In(k)) /\ Val(k)' = Val(k)
  BY DEF Untouched
<1>1. Holds(x, k)
  BY DEF Found
<1>2. mem'[x] = mem[x] /\ x \in Live' /\ x \notin Hidden'
  BY <1>1 DEF Holds
<1>3. Holds(x, k)'
  BY <1>1, <1>2 DEF Holds, Lev
<1>4. Target(k)' = x
  BY <1>3 DEF Found
<1>5. mem'[Target(k)'] = mem[Target(k)]
  BY <1>2, <1>4
<1> QED  BY <1>5 DEF In, Val

\* Memory and what is posted do not change.
LEMMA SameLeaves ==
  ASSUME Found, Found', UNCHANGED <<mem, posted, rootPtr>>
  PROVE  Untouched
<1>1. Live' = Live /\ Hidden' = Hidden
  BY DEF Live, Hidden
<1> QED  BY <1>1, LeavesStay

\* One leaf gets other records, between the same fences.
LEMMA LeafRewritten ==
  ASSUME Found, Found', NEW p, Live' = Live, Hidden' = Hidden,
         \A a \in Live : a # p => mem'[a] = mem[a],
         mem'[p].level = mem[p].level, mem'[p].lowest = mem[p].lowest,
         mem'[p].highest = mem[p].highest
  PROVE  \A k \in UserKey : Target(k)' = Target(k)
<1> SUFFICES ASSUME NEW k \in UserKey, NEW x, x = Target(k)
             PROVE  Target(k)' = x
  OBVIOUS
<1>1. Holds(x, k)
  BY DEF Found
<1>2. x \in Live' /\ x \notin Hidden'
  BY <1>1 DEF Holds
<1>3. /\ mem'[x].level = mem[x].level /\ mem'[x].lowest = mem[x].lowest
      /\ mem'[x].highest = mem[x].highest
  BY <1>1 DEF Holds
<1>4. Holds(x, k)'
  BY <1>1, <1>2, <1>3 DEF Holds, Lev, InPage
<1> QED  BY <1>4 DEF Found

\* One leaf becomes two, and they hold its records and a new one.
LEMMA LeafDivided ==
  ASSUME Found, Found', NEW p, NEW y, NEW s \in Int, NEW call,
         Holds(p, call.k), call.k \in UserKey,
         \A a \in Live \ Hidden : Lev(a) = 0 /\ a # p =>
           a \in Live' /\ a \notin Hidden' /\ mem'[a] = mem[a],
         p \in Live' /\ p \notin Hidden' /\ y \in Live' /\ y \notin Hidden',
         mem'[p].level = 0, mem'[p].lowest = mem[p].lowest,
         mem'[p].highest = s,
         mem'[y].level = 0, mem'[y].lowest = s,
         mem'[y].highest = mem[p].highest,
         Divided(mem'[p].recs, mem'[y].recs, mem[p].recs, call),
         \A j \in DOMAIN mem'[p].recs : j \in Int /\ j < s,
         \A j \in DOMAIN mem'[y].recs : j \in Int /\ s <= j
  PROVE  Puts(call.k, call.v)
<1> SUFFICES ASSUME NEW k \in UserKey, NEW x, x = Target(k)
             PROVE  /\ In(k)' <=> (In(k) \/ k = call.k)
                    /\ Val(k)' = IF k = call.k THEN call.v ELSE Val(k)
  BY DEF Puts
<1>0. k \in Int /\ Target(call.k) = p
  BY KeyInts DEF UserKey, Found
<1>1. Holds(x, k)
  BY DEF Found
<1>2. CASE x # p
  <2>1. mem'[x] = mem[x] /\ x \in Live' /\ x \notin Hidden'
    BY <1>1, <1>2 DEF Holds
  <2>2. Holds(x, k)'
    BY <1>1, <2>1 DEF Holds, Lev
  <2>3. Target(k)' = x
    BY <2>2 DEF Found
  <2>4. mem'[Target(k)'] = mem[Target(k)] /\ k # call.k
    BY <1>0, <1>2, <2>1, <2>3
  <2> QED  BY <2>4 DEF In, Val
<1>3. CASE x = p
  <2>1. PICK z \in {p, y} : /\ Target(k)' = z
                            /\ k \in DOMAIN mem'[z].recs <=>
                                 k \in DOMAIN mem[p].recs \/ k = call.k
    <3>1. CASE k < s
      <4>1. Holds(p, k)'
        BY <1>1, <1>3, <3>1 DEF Holds, Lev, InPage
      <4>2. Target(k)' = p
        BY <4>1 DEF Found
      <4>3. k \notin DOMAIN mem'[y].recs
        BY <1>0, <3>1
      <4> QED  BY <4>2, <4>3 DEF Divided
    <3>2. CASE s <= k
      <4>1. Holds(y, k)'
        BY <1>1, <1>3, <3>2 DEF Holds, Lev, InPage
      <4>2. Target(k)' = y
        BY <4>1 DEF Found
      <4>3. k \notin DOMAIN mem'[p].recs
        BY <1>0, <3>2
      <4> QED  BY <4>2, <4>3 DEF Divided
    <3> QED  BY <1>0, <3>1, <3>2
  <2>2. k \in DOMAIN mem'[z].recs =>
          mem'[z].recs[k] = IF k = call.k THEN call.v ELSE mem[p].recs[k]
    BY DEF Divided
  <2>3. ValueIn(mem'[z], k) =
          IF k = call.k THEN call.v ELSE ValueIn(mem[p], k)
    BY <2>1, <2>2 DEF ValueIn
  <2>4. Val(k) = ValueIn(mem[p], k) /\ (In(k) <=> k \in DOMAIN mem[p].recs)
    BY <1>3 DEF Val, In
  <2>5. /\ Val(k)' = ValueIn(mem'[z], k)
        /\ In(k)' <=> k \in DOMAIN mem'[z].recs
    BY <2>1 DEF Val, In
  <2> QED  BY <2>1, <2>3, <2>4, <2>5
<1> QED  BY <1>2, <1>3

\* How a client looks from outside.
Same(u) ==
  /\ th'[u].call = th[u].call
  /\ th'[u].landed = th[u].landed
  /\ th'[u].res = th[u].res
  /\ th'[u].pc = "idle" <=> th[u].pc = "idle"

\* A step of one client leaves the others as they look.
LEMMA OthersSame ==
  ASSUME NEW t, Moves(t)
  PROVE  \A u \in Thread : u # t => Same(u)
BY DEF Moves, Same

\* Nothing happens that a client could see.
Stutters ==
  /\ Untouched
  /\ \A u \in Thread : Same(u)
  /\ UNCHANGED <<acked, deleted>>

\* A client calls an operation.
Invokes(t) ==
  /\ Untouched
  /\ \A u \in Thread : u # t => Same(u)
  /\ th[t] = Idle
  /\ th'[t].pc # "idle" /\ ~th'[t].landed /\ th'[t].res = kValueNull
  /\ th'[t].call.k \in Key
  /\ UNCHANGED acked
  /\ deleted' = IF th'[t].call.op = "del" THEN deleted \cup {th'[t].call.k}
                                          ELSE deleted

\* The operation takes effect.
Commits(t) ==
  LET c == th[t].call IN
  /\ \A u \in Thread : u # t => Same(u)
  /\ th[t].pc # "idle" /\ th'[t].pc # "idle"
  /\ th'[t].call = c /\ c.k \in Key
  /\ ~th[t].landed /\ th'[t].landed
  /\ \/ c.op = "insert" /\ Puts(c.k, c.v) /\ th'[t].res = th[t].res
     \/ c.op = "del" /\ Removes(c.k) /\ th'[t].res = th[t].res
     \/ c.op = "search" /\ Untouched /\ th'[t].res = Val(c.k)
  /\ UNCHANGED <<acked, deleted>>

\* The operation returns.
Returns(t) ==
  /\ Untouched
  /\ \A u \in Thread : u # t => Same(u)
  /\ th[t].pc # "idle" /\ th[t].landed /\ th[t].call.k \in Key
  /\ th'[t] = Idle
  /\ acked' = IF th[t].call.op = "insert" THEN acked \cup {th[t].call.k}
                                          ELSE acked
  /\ UNCHANGED deleted

\* The steps that only look, wait or carry the separator.
LEMMA LookEffect ==
  ASSUME Inv, HideInv, Found, Found', NEW t \in Thread,
         \/ TurnRight(t) \/ Descend(t) \/ ReachLeaf(t)
         \/ StaleSearch(t) \/ StaleStore(t)
         \/ LockAndRead(t) \/ MoveRight(t)
         \/ StoreUp(t) \/ InsertInternal(t)
  PROVE  Stutters
<1> DEFINE c == th[t]
           d == th'[t]
<1>1. /\ Busy(t)
      /\ UNCHANGED <<posted, mem, rootPtr, acked, deleted>>
  <2>1. CASE TurnRight(t) \/ Descend(t) \/ ReachLeaf(t)
    BY <2>1 DEF TurnRight, Descend, ReachLeaf, Reads, At, Busy, Visit, hist
  <2>2. CASE StaleSearch(t) \/ StaleStore(t)
    BY <2>2 DEF StaleSearch, StaleStore, Reads, At, Busy, hist
  <2>3. CASE LockAndRead(t) \/ MoveRight(t)
    BY <2>3 DEF LockAndRead, MoveRight, At, Busy, others, hist
  <2>4. CASE StoreUp(t) \/ InsertInternal(t)
    BY <2>4 DEF StoreUp, InsertInternal, Splitting, At, Busy, others, hist
  <2> QED  BY <2>1, <2>2, <2>3, <2>4
<1>2. c.p \in Addr /\ th = [u \in Thread |-> th[u]] /\ c = RecordOf(c)
  BY <1>1, AtPage, ThreadRecordElim DEF Inv
<1>3. /\ \A u \in Thread : u # t => th'[u] = th[u]
      /\ d.pc # "idle" /\ d.call = c.call /\ d.landed = c.landed
      /\ d.res = c.res
  <2>1. CASE TurnRight(t) \/ Descend(t) \/ ReachLeaf(t)
    <3>1. PICK pc \in {"search", "store"} : \E p : Visit(t, pc, p)
      BY <2>1 DEF TurnRight, Descend, ReachLeaf
    <3>2. PICK p : Visit(t, pc, p)
      BY <3>1
    <3>3. pc \in Pcs
      BY DEF Pcs
    <3>4. Moves(t) /\ d.pc = pc /\ Keeps(t, {"pc", "p", "path"})
      BY <1>2, <3>2, <3>3, VisitMoves DEF Inv
    <3> QED  BY <3>4 DEF Keeps, Fields, Moves
  <2>2. CASE StaleSearch(t) \/ StaleStore(t)
    <3>1. PICK r : Restart(t, r)
      BY <2>2 DEF StaleSearch, StaleStore
    <3>2. /\ Moves(t) /\ d.pc = "search"
          /\ Keeps(t, {"pc", "root", "p", "entry", "buf"})
      BY <3>1, RestartMoves DEF Inv
    <3> QED  BY <3>2 DEF Keeps, Fields, Moves
  <2>3. CASE LockAndRead(t)
    <3>1. Moves(t) /\ d.pc = "modify" /\ Keeps(t, {"pc", "buf"})
      BY <2>3, LockAndReadMoves DEF Inv
    <3> QED  BY <3>1 DEF Keeps, Fields, Moves
  <2>4. CASE MoveRight(t)
    <3>1. Moves(t) /\ d.pc = "store" /\ Keeps(t, {"pc", "p"})
      BY <2>4, MoveRightMoves DEF Inv
    <3> QED  BY <3>1 DEF Keeps, Fields, Moves
  <2>5. CASE StoreUp(t)
    <3>1. th' = [th EXCEPT ![t] = [c EXCEPT !.pc = "store",
                   !.p = UpLevel(t), !.level = c.level + 1]]
      BY <1>2, <2>5 DEF StoreUp
    <3>2. d = [c EXCEPT !.pc = "store", !.p = UpLevel(t),
                 !.level = c.level + 1]
      BY <1>2, <3>1
    <3>3. d.pc = "store" /\ d.call = c.call /\ d.landed = c.landed
          /\ d.res = c.res
      BY <1>2, <3>2 DEF RecordOf
    <3> QED  BY <1>2, <3>1, <3>3
  <2>6. CASE InsertInternal(t)
    <3>1. th' = [th EXCEPT ![t] = [c EXCEPT !.pc = "search",
                   !.level = c.level + 1, !.root = RootFor(NodeOf[t]),
                   !.p = RootFor(NodeOf[t]), !.entry = NoEntry]]
      BY <1>2, <2>6 DEF InsertInternal
    <3>2. d = [c EXCEPT !.pc = "search",
                   !.level = c.level + 1, !.root = RootFor(NodeOf[t]),
                   !.p = RootFor(NodeOf[t]), !.entry = NoEntry]
      BY <1>2, <3>1
    <3>3. d.pc = "search" /\ d.call = c.call /\ d.landed = c.landed
          /\ d.res = c.res
      BY <1>2, <3>2 DEF RecordOf
    <3> QED  BY <1>2, <3>1, <3>3
  <2> QED  BY <2>1, <2>2, <2>3, <2>4, <2>5, <2>6
<1>4. \A u \in Thread : Same(u)
  BY <1>1, <1>3 DEF Same, Busy
<1>5. Untouched
  BY <1>1, SameLeaves
<1> QED  BY <1>1, <1>4, <1>5 DEF Stutters

\* A call.
LEMMA StartEffect ==
  ASSUME Inv, HideInv, DataInv, Found, Found', NEW t \in Thread, Start(t)
  PROVE  Invokes(t)
<1> DEFINE d == th'[t]
           n == NodeOf[t]
           r == RootFor(n)
<1>1. /\ UNCHANGED <<mem, posted, rootPtr, acked>> /\ th[t].pc = "idle"
  BY DEF Start, At
<1>2. PICK c \in Calls(t)[ops[t] + 1] :
        /\ deleted' = IF c.op = "del" THEN deleted \cup {c.k} ELSE deleted
        /\ \/ Begun(t, c, r, r, "search")
           \/ \E e \in search_from_cache(cache[n], c.k) :
                Begun(t, c, r, ChildFor(e.page, c.k),
                      IF c.op = "search" THEN "search" ELSE "store")
  BY StartMoves DEF Inv
<1>3. /\ d.pc \in {"search", "store"} /\ d.call = c /\ d.landed = FALSE
      /\ d.res = kValueNull
  BY <1>2 DEF Begun
<1>4. c.k \in Key
  BY CallIsOperation DEF Start
<1>5. \A u \in Thread : u # t => Same(u)
  BY StartMoves, OthersSame DEF Inv
<1>6. Untouched
  BY <1>1, SameLeaves
<1>7. th[t] = Idle
  BY <1>1 DEF DataInv, CallOk
<1> QED  BY <1>1, <1>2, <1>3, <1>4, <1>5, <1>6, <1>7 DEF Invokes

\* A return.
LEMMA ReturnEffect ==
  ASSUME Inv, HideInv, DataInv, Found, Found', NEW t \in Thread, Return(t)
  PROVE  Returns(t)
<1>1. /\ UNCHANGED <<mem, posted, rootPtr, deleted>> /\ th[t].pc = "return"
      /\ acked' = IF th[t].call.op = "insert" THEN acked \cup {th[t].call.k}
                                              ELSE acked
  BY DEF Return, At
<1>2. Moves(t) /\ th'[t] = Idle
  BY ReturnMoves DEF Inv
<1>3. th[t].landed /\ th[t].call.k \in Key
  BY <1>1 DEF DataInv, CallOk
<1>4. Untouched
  BY <1>1, SameLeaves
<1>5. \A u \in Thread : u # t => Same(u)
  BY <1>2, OthersSame
<1> QED  BY <1>1, <1>2, <1>3, <1>4, <1>5 DEF Returns

\* search reads its leaf.
LEMMA ReadEffect ==
  ASSUME Inv, HideInv, DataInv, Found, Found', NEW t \in Thread, ReadLeaf(t)
  PROVE  Commits(t)
<1> SUFFICES ASSUME NEW p, p = th[t].p  PROVE Commits(t)
  OBVIOUS
<1> DEFINE c == th[t]
           d == th'[t]
<1>1. /\ c.pc = "search" /\ c.call.op = "search" /\ IsLeaf(mem[p])
      /\ InPage(mem[p], c.k) /\ Busy(t)
      /\ UNCHANGED <<mem, posted, rootPtr, acked, deleted>>
  BY DEF ReadLeaf, Reads, At, others, hist, Busy
<1>2. /\ Moves(t) /\ d.pc = "return" /\ d.landed = TRUE
      /\ d.res = ValueIn(mem[p], c.k) /\ d.call = c.call
  BY ReadLeafMoves DEF Inv, Keeps, Fields
<1>3. c.level = 0 /\ Placed(t) /\ p \in Live /\ Linked(mem, mem[p])
  <2>1. Placed(t) /\ p \in Live /\ Linked(mem, mem[p])
    BY <1>1, AtPage
  <2>2. c.level \in Nat
    BY ThreadRecordElim, TreeAssumption DEF Inv, Level
  <2> QED  BY <1>1, <2>1, <2>2 DEF Placed
<1>4. /\ ~c.landed /\ c.k = c.call.k /\ c.call.k \in Key
  BY <1>1, <1>3, LeafHolder
<1>5. Holds(p, c.k)
  <2>1. p \notin Hidden
    BY <1>1, PathUnseen
  <2>2. Lev(p) = 0
    BY <1>1, <1>3, LeafLevel DEF Lev
  <2> QED  BY <1>1, <1>3, <2>1, <2>2 DEF Holds
<1>6. c.call.k \in UserKey
  BY <1>4, KeysAreUserKeys
<1>7. Target(c.call.k) = p
  BY <1>4, <1>5, <1>6 DEF Found
<1>8. d.res = Val(c.call.k)
  BY <1>2, <1>4, <1>7 DEF Val
<1>9. Untouched
  BY <1>1, SameLeaves
<1>10. \A u \in Thread : u # t => Same(u)
  BY <1>2, OthersSame
<1> QED  BY <1>1, <1>2, <1>4, <1>8, <1>9, <1>10 DEF Commits

\* del clears its record.
LEMMA DeleteEffect ==
  ASSUME Inv, HideInv, DataInv, Found, Found', NEW t \in Thread,
         DeleteEntry(t)
  PROVE  Commits(t)
<1> SUFFICES ASSUME NEW p, p = th[t].p  PROVE Commits(t)
  OBVIOUS
<1> DEFINE c == th[t]
           d == th'[t]
           pg == mem[p]
           q == mem'[p]
<1>1. /\ c.pc = "modify" /\ c.call.op = "del" /\ InPage(c.buf, c.k)
      /\ UNCHANGED <<posted, rootPtr, acked, deleted>>
  BY DEF DeleteEntry, At, others, hist
<1>2. /\ Moves(t) /\ d.pc = "return" /\ d.landed = TRUE
      /\ d.call = c.call /\ d.res = c.res
  BY DeleteEntryMoves DEF Inv, Keeps, Fields
<1>3. /\ IsLeaf(pg) /\ IsPageRecord(q)
      /\ q.level = pg.level /\ q.leftmost = pg.leftmost
      /\ q.lowest = pg.lowest /\ q.highest = pg.highest
      /\ DOMAIN q.recs = DOMAIN pg.recs \ {c.k}
      /\ \A j \in DOMAIN q.recs : q.recs[j] = pg.recs[j]
      /\ mem' = [mem EXCEPT ![p] = q]
  BY DeleteEntryDoes
<1>4. /\ p \in Live /\ p \in Addr /\ c.buf = pg /\ Linked(mem, pg)
      /\ pg.level = Lev(p) /\ pg.lowest = Low(p) /\ pg.level = c.level
      /\ p \notin Hidden
  BY <1>1, HoldsPage, PathUnseen
<1>5. c.level = 0 /\ Lev(p) = 0
  BY <1>3, <1>4, LeafLevel
<1>6. /\ ~c.landed /\ c.k = c.call.k /\ c.call.k \in Key
  BY <1>1, <1>5, LeafHolder
<1>7. c.k \in UserKey
  BY <1>6, KeysAreUserKeys
<1>8. Target(c.k) = p
  BY <1>1, <1>4, <1>5, <1>7 DEF Found, Holds
<1>9. Live' = Live /\ Hidden' = Hidden
      /\ \A a \in Live : a # p => mem'[a] = mem[a]
  <2> HIDE DEF q
  <2>1. /\ Live' = Live
        /\ \A a \in Addr : a # p => mem'[a] = mem[a]
    BY <1>1, <1>3, <1>4, Overwritten
  <2> QED  BY <1>1, <2>1, LivePage DEF Hidden
<1>10. \A k \in UserKey : Target(k)' = Target(k)
  BY <1>3, <1>9, LeafRewritten
<1>11. Removes(c.call.k)
  <2> SUFFICES ASSUME NEW k \in UserKey, NEW x, x = Target(k)
               PROVE  /\ In(k)' <=> (In(k) /\ k # c.k)
                      /\ Val(k)' = IF k = c.k THEN kValueNull ELSE Val(k)
    BY <1>6 DEF Removes
  <2>1. Target(k)' = x /\ x \in Live
    BY <1>10 DEF Found, Holds
  <2>2. /\ In(k)' <=> k \in DOMAIN mem'[x].recs
        /\ Val(k)' = ValueIn(mem'[x], k)
        /\ In(k) <=> k \in DOMAIN mem[x].recs
        /\ Val(k) = ValueIn(mem[x], k)
    BY <2>1 DEF In, Val
  <2>3. CASE x # p
    <3>1. mem'[x] = mem[x] /\ k # c.k
      BY <1>8, <1>9, <2>1, <2>3
    <3> QED  BY <2>2, <3>1
  <2>4. CASE x = p
    <3>1. k \in DOMAIN mem'[x].recs <=> k \in DOMAIN mem[x].recs /\ k # c.k
      BY <1>3, <2>4
    <3>2. ValueIn(mem'[x], k) =
            IF k = c.k THEN kValueNull ELSE ValueIn(mem[x], k)
      BY <1>3, <2>4, <3>1 DEF ValueIn
    <3> QED  BY <2>2, <3>1, <3>2
  <2> QED  BY <2>3, <2>4
<1>12. \A u \in Thread : u # t => Same(u)
  BY <1>2, OthersSame
<1> QED  BY <1>1, <1>2, <1>6, <1>11, <1>12 DEF Commits

\* insert stores its record, or a separator.
LEMMA StoreEffect ==
  ASSUME Inv, HideInv, DataInv, Found, Found', NEW t \in Thread,
         StoreEntry(t)
  PROVE  Commits(t) \/ Stutters
<1> SUFFICES ASSUME NEW p, p = th[t].p  PROVE Commits(t) \/ Stutters
  OBVIOUS
<1> DEFINE c == th[t]
           d == th'[t]
           pg == mem[p]
           q == mem'[p]
<1>1. /\ c.pc = "modify" /\ c.call.op = "insert"
      /\ UNCHANGED <<posted, rootPtr, acked, deleted>>
  BY DEF StoreEntry, At, others, hist
<1>2. /\ Moves(t) /\ d.pc = "return" /\ d.call = c.call /\ d.res = c.res
      /\ d.landed = (c.landed \/ IsLeaf(Stored(c.buf, c.k, c.v)))
  BY StoreEntryMoves DEF Inv, Keeps, Fields
<1>3. /\ InPage(pg, c.k) /\ IsPageRecord(q)
      /\ q.level = pg.level /\ q.leftmost = pg.leftmost
      /\ q.lowest = pg.lowest /\ q.highest = pg.highest
      /\ DOMAIN q.recs = DOMAIN pg.recs \cup {c.k}
      /\ q.recs[c.k] = c.v
      /\ \A j \in DOMAIN pg.recs : j # c.k => q.recs[j] = pg.recs[j]
      /\ mem' = [mem EXCEPT ![p] = q]
      /\ IsLeaf(Stored(c.buf, c.k, c.v)) <=> IsLeaf(pg)
  BY StoreEntryDoes
<1>4. /\ p \in Live /\ p \in Addr /\ c.buf = pg /\ Linked(mem, pg)
      /\ pg.level = Lev(p) /\ pg.lowest = Low(p) /\ pg.level = c.level
      /\ p \notin Hidden
  BY <1>1, HoldsPage, PathUnseen
<1>5. Live' = Live /\ Hidden' = Hidden
      /\ \A a \in Live : a # p => mem'[a] = mem[a]
  <2> HIDE DEF q
  <2>1. /\ Live' = Live
        /\ \A a \in Addr : a # p => mem'[a] = mem[a]
    BY <1>1, <1>3, <1>4, Overwritten, ZenonT(30)
  <2> QED  BY <1>1, <2>1, LivePage DEF Hidden
<1>6. \A u \in Thread : u # t => Same(u)
  BY <1>2, OthersSame
<1>7. CASE IsLeaf(pg)
  <2>1. c.level = 0 /\ Lev(p) = 0
    BY <1>4, <1>7, LeafLevel
  <2>2. /\ ~c.landed /\ c.k = c.call.k /\ c.v = c.call.v /\ c.call.k \in Key
    BY <1>1, <2>1, LeafHolder
  <2>3. c.k \in UserKey
    BY <2>2, KeysAreUserKeys
  <2>4. Target(c.k) = p
    BY <1>3, <1>4, <2>1, <2>3 DEF Found, Holds
  <2>5. \A k \in UserKey : Target(k)' = Target(k)
    BY <1>3, <1>5, LeafRewritten, SMTT(30)
  <2>6. Puts(c.call.k, c.call.v)
    <3> SUFFICES ASSUME NEW k \in UserKey, NEW x, x = Target(k)
                 PROVE  /\ In(k)' <=> (In(k) \/ k = c.k)
                        /\ Val(k)' = IF k = c.k THEN c.v ELSE Val(k)
      BY <2>2 DEF Puts
    <3>1. Target(k)' = x /\ x \in Live
      BY <2>5 DEF Found, Holds
    <3>2. /\ In(k)' <=> k \in DOMAIN mem'[x].recs
          /\ Val(k)' = ValueIn(mem'[x], k)
          /\ In(k) <=> k \in DOMAIN mem[x].recs
          /\ Val(k) = ValueIn(mem[x], k)
      BY <3>1 DEF In, Val
    <3>3. CASE x # p
      <4>1. mem'[x] = mem[x] /\ k # c.k
        BY <1>5, <2>4, <3>1, <3>3
      <4> QED  BY <3>2, <4>1
    <3>4. CASE x = p
      <4>1. k \in DOMAIN mem'[x].recs <=> k \in DOMAIN mem[x].recs \/ k = c.k
        BY <1>3, <3>4
      <4>2. ValueIn(mem'[x], k) =
              IF k = c.k THEN c.v ELSE ValueIn(mem[x], k)
        BY <1>3, <3>4, <4>1 DEF ValueIn
      <4> QED  BY <3>2, <4>1, <4>2
    <3> QED  BY <3>3, <3>4
  <2>7. d.landed
    BY <1>2, <1>3, <1>7
  <2> QED  BY <1>1, <1>2, <1>6, <2>2, <2>6, <2>7 DEF Commits
<1>8. CASE ~IsLeaf(pg)
  <2>1. Lev(p) # 0
    BY <1>4, <1>8, LeafLevel
  <2>2. Untouched
    BY <1>5, <2>1, LeavesStay
  <2>3. c.landed \in BOOLEAN
    BY ThreadRecordElim DEF Inv
  <2>4. Same(t)
    BY <1>1, <1>2, <1>3, <1>8, <2>3 DEF Same
  <2> QED  BY <1>1, <1>6, <2>2, <2>4 DEF Stutters
<1> QED  BY <1>7, <1>8

\* A split: the map changes when a leaf is written at once.
LEMMA SplitEffect ==
  ASSUME Inv, HideInv, DataInv, Found, Found', NEW t \in Thread,
         NEW async \in BOOLEAN, Split(t, async)
  PROVE  Commits(t) \/ Stutters
<1> SUFFICES ASSUME NEW p, p = th[t].p, NEW q,
                    q = Stored(th[t].buf, th[t].k, th[t].v),
                    NEW left, left = LeftHalf(q, next),
                    NEW right, right = RightHalf(q), NEW w0,
                    w0 = [t |-> t, op |-> ops[t], addr |-> p, page |-> left]
             PROVE  Commits(t) \/ Stutters
  OBVIOUS
<1> DEFINE c == th[t]
           d == th'[t]
           pg == mem[p]
<1>0. /\ c.pc = "modify" /\ c.call.op = "insert"
      /\ UNCHANGED <<acked, deleted>>
  BY DEF Split, At, others, hist
<1>1. /\ p \in Live /\ p \in Addr /\ p # next /\ next \notin Live
      /\ \A a \in Addr : a # p /\ a # next => mem'[a] = mem[a]
      /\ mem'[next] = right
      /\ mem'[p] = IF async THEN mem[p] ELSE left
      /\ Live' = Live \cup {next}
      /\ posted' = IF async THEN posted \cup {w0} ELSE posted
  BY SplitMem
<1>2. /\ Moves(t) /\ d.pc = "grow"
      /\ d.landed = (c.landed \/ (~async /\ IsLeaf(q)))
      /\ d.call = c.call /\ d.res = c.res
  BY SplitMoves DEF Inv, Keeps, Fields
<1>3. /\ InPage(pg, c.k) /\ (IsLeaf(q) <=> IsLeaf(pg))
      /\ left.level = pg.level /\ left.lowest = pg.lowest
      /\ left.highest = SplitKey(q) /\ left.sibling = next
      /\ right.level = pg.level /\ right.lowest = SplitKey(q)
      /\ right.highest = pg.highest
      /\ SplitKey(q) \in Int
  BY SplitDoes, SMTT(30)
<1>4. /\ c.level = pg.level /\ Lev(p) = pg.level /\ Linked(mem, pg)
      /\ p \notin Hidden
  BY <1>0, HoldsPage, PathUnseen
<1>5. next \notin Hidden /\ Hidden' = IF async THEN Hidden \cup {next}
                                      ELSE Hidden
  <2>1. next \notin Hidden
    BY <1>1, HiddenLive DEF HideInv
  <2>2. w0.page.sibling = next
    BY <1>3
  <2> QED  BY <1>1, <2>1, <2>2 DEF Hidden
<1>6. \A a \in Live \ Hidden : a # p =>
        a \in Live' /\ a \notin Hidden' /\ mem'[a] = mem[a]
  BY <1>1, <1>5, LivePage
<1>7. \A u \in Thread : u # t => Same(u)
  BY <1>2, OthersSame
<1>8. CASE async \/ ~IsLeaf(pg)
  <2>1. \A a \in Live \ Hidden : Lev(a) = 0 =>
          a \in Live' /\ a \notin Hidden' /\ mem'[a] = mem[a]
    <3>1. CASE async
      BY <1>1, <1>4, <1>5, <1>6, <3>1
    <3>2. CASE ~IsLeaf(pg)
      <4>1. Lev(p) # 0
        BY <1>4, <3>2, LeafLevel
      <4> QED  BY <1>6, <4>1
    <3> QED  BY <1>8, <3>1, <3>2
  <2>2. Untouched
    BY <2>1, LeavesStay
  <2>3. c.landed \in BOOLEAN
    BY ThreadRecordElim DEF Inv
  <2>4. Same(t)
    BY <1>0, <1>2, <1>3, <1>8, <2>3 DEF Same
  <2> QED  BY <1>0, <1>7, <2>2, <2>4 DEF Stutters
<1>9. CASE ~async /\ IsLeaf(pg)
  <2>1. c.level = 0 /\ Lev(p) = 0
    BY <1>4, <1>9, LeafLevel
  <2>2. /\ ~c.landed /\ c.k = c.call.k /\ c.call.k \in Key
    BY <1>0, <2>1, LeafHolder
  <2>3. c.call.k \in UserKey
    BY <2>2, KeysAreUserKeys
  <2>4. Holds(p, c.call.k)
    BY <1>1, <1>3, <1>4, <2>1, <2>2 DEF Holds
  <2>5. /\ Divided(left.recs, right.recs, pg.recs, c.call)
        /\ \A j \in DOMAIN left.recs : j \in Int /\ j < SplitKey(q)
        /\ \A j \in DOMAIN right.recs : j \in Int /\ SplitKey(q) <= j
    BY <1>9, SplitDivides
  <2>6. mem'[p] = left /\ mem'[next] = right
    BY <1>1, <1>9
  <2>7. /\ p \in Live' /\ p \notin Hidden'
        /\ next \in Live' /\ next \notin Hidden'
    BY <1>1, <1>4, <1>5, <1>9
  <2>8. left.level = 0 /\ right.level = 0
    BY <1>3, <1>4, <2>1
  <2>9. Puts(c.call.k, c.call.v)
    <3> HIDE DEF c
    <3> QED
      BY <1>3, <1>6, <2>3, <2>4, <2>5, <2>6, <2>7, <2>8, LeafDivided, SMTT(30)
  <2>10. d.landed
    BY <1>2, <1>3, <1>9
  <2> QED  BY <1>0, <1>2, <1>7, <2>2, <2>9, <2>10 DEF Commits
<1> QED  BY <1>8, <1>9

\* A new root.
LEMMA NewRootEffect ==
  ASSUME Inv, HideInv, DataInv, Found, Found', NEW t \in Thread,
         UpdateNewRoot(t)
  PROVE  Stutters
<1> SUFFICES ASSUME NEW q, q = RootPage(th[t].p, th[t].k, th[t].v,
                                        th[t].level + 1)
             PROVE  Stutters
  OBVIOUS
<1> DEFINE c == th[t]
           d == th'[t]
<1>0. /\ c.pc = "grow" /\ c.p = c.root /\ next \in Addr
      /\ c.level + 1 \in Level /\ mem' = [mem EXCEPT ![next] = q]
      /\ UNCHANGED <<posted, acked, deleted>>
  BY DEF UpdateNewRoot, At, others, hist
<1>1. (rootPtr = c.p /\ rootPtr' = next) \/ UNCHANGED rootPtr
  BY <1>0 DEF UpdateNewRoot
<1>2. /\ Moves(t) /\ d.pc \in {"return", "up"}
      /\ d.call = c.call /\ d.landed = c.landed /\ d.res = c.res
  BY UpdateNewRootMoves DEF Inv, Keeps, Fields
<1>3. /\ IsPageRecord(q) /\ q.lowest = kKeyMin /\ q.leftmost = c.p
      /\ c.p \in Live
  BY <1>0, NewRootLinked
<1>4. /\ ~IsPageIn(mem, next)
      /\ \A a \in Addr : a # next => mem'[a] = mem[a]
      /\ Live' = IF rootPtr' = next THEN Live \cup {next} ELSE Live
  BY <1>0, <1>1, <1>3, RootAdded
<1>5. \A a \in Live \ Hidden : Lev(a) = 0 =>
        a \in Live' /\ a \notin Hidden' /\ mem'[a] = mem[a]
  BY <1>0, <1>4, LivePage DEF Hidden, IsPage
<1>6. Untouched
  BY <1>5, LeavesStay
<1>7. \A u \in Thread : Same(u)
  BY <1>0, <1>2, OthersSame DEF Same
<1> QED  BY <1>0, <1>6, <1>7 DEF Stutters

\* A posted page arrives: with a leaf, an insert takes effect.
LEMMA DeliverEffect ==
  ASSUME Inv, HideInv, DataInv, Found, Found', NEW w \in posted, Deliver(w)
  PROVE  Commits(w.t) \/ Stutters
<1> SUFFICES ASSUME NEW t, t = w.t, NEW p, p = w.addr, NEW q, q = w.page,
                    NEW y, y = q.sibling
             PROVE  Commits(t) \/ Stutters
  OBVIOUS
<1> DEFINE c == th[t]
           d == th'[t]
<1>0. /\ mem' = [mem EXCEPT ![p] = q] /\ posted' = posted \ {w}
      /\ UNCHANGED <<rootPtr, acked, deleted>>
  BY DEF Deliver, others, hist
<1>1. /\ t \in Thread /\ Pending(t) /\ p \in Live /\ p \in Addr
      /\ p \notin Hidden /\ y \in Live /\ y \in Addr /\ y \in Hidden
      /\ IsPageRecord(q) /\ Linked(mem, q)
      /\ q.level = Lev(p) /\ q.lowest = Low(p)
      /\ q.leftmost = mem[p].leftmost
      /\ Lev(y) = Lev(p) /\ Low(y) = q.highest
      /\ mem[y].highest = mem[p].highest
  BY PostedPlaces
<1>2. /\ Moves(t) /\ d.call = c.call /\ d.res = c.res /\ d.pc = c.pc
      /\ d.landed = (c.landed \/ (IsLeaf(q) /\ w.op = ops[t]))
  BY <1>1, DeliverMoves DEF Inv, Keeps, Fields
<1>3. /\ \A a \in Addr : a # p => mem'[a] = mem[a]
      /\ mem'[p] = q /\ Live' = Live
  BY <1>0, <1>1, Overwritten
<1>4. Hidden' \subseteq Hidden /\ y \notin Hidden'
  <2>1. ASSUME NEW x \in posted, x # w  PROVE x.page.sibling # y
    <3>1. x.t \in Thread /\ Pending(x.t) /\ th[x.t].v = x.page.sibling
          /\ x.t # t
      BY <2>1 DEF HideInv, OwnerInv, Inv, TypeInv, IsWrite
    <3>2. c.v = y
      BY DEF HideInv, OwnerInv
    <3> QED  BY <1>1, <3>1, <3>2 DEF Inv, PendingInv
  <2> QED  BY <1>0, <2>1 DEF Hidden
<1>5. \A a \in Live \ Hidden : a # p =>
        a \in Live' /\ a \notin Hidden' /\ mem'[a] = mem[a]
  BY <1>3, <1>4, LivePage
<1>6. \A u \in Thread : u # t => Same(u)
  BY <1>2, OthersSame
<1>7. /\ c.pc # "idle" /\ c.call.op = "insert" /\ c.landed \in BOOLEAN
  <2>1. Busy(t)
    BY <1>1 DEF Pending, Carries, Busy
  <2>2. c.landed \in BOOLEAN /\ c.level \in Nat
    BY <1>1, ThreadRecordElim, TreeAssumption DEF Inv, Level
  <2>3. c.call.op = "insert"
    BY <1>1, <2>1, <2>2, AtPage DEF Placed, Pending
  <2> QED  BY <2>1, <2>2, <2>3 DEF Busy
<1>8. CASE ~IsLeaf(q)
  <2>1. Lev(p) # 0
    BY <1>1, <1>8, LeafLevel
  <2>2. Untouched
    BY <1>5, <2>1, LeavesStay
  <2>3. Same(t)
    BY <1>2, <1>7, <1>8 DEF Same
  <2> QED  BY <1>0, <1>6, <2>2, <2>3 DEF Stutters
<1>9. CASE IsLeaf(q)
  <2>1. Lev(p) = 0 /\ q.level = 0
    BY <1>1, <1>9, LeafLevel
  <2>2. /\ w.op = ops[t] /\ ~c.landed /\ InPage(mem[p], c.call.k)
        /\ Divided(q.recs, mem[y].recs, mem[p].recs, c.call)
    BY <1>9 DEF DataInv, Content
  <2>3. c.call.k \in Key /\ c.call.k \in UserKey
    BY <1>1, <1>7, KeysAreUserKeys DEF DataInv, CallOk
  <2>4. Holds(p, c.call.k)
    BY <1>1, <2>1, <2>2 DEF Holds
  <2>5. mem'[y] = mem[y] /\ mem[y].level = 0 /\ mem[y].lowest = q.highest
    BY <1>1, <1>3, <2>1 DEF Lev, Low
  <2>6. q.highest \in Int
    BY <1>1, RecordInts
  <2>7. \A j \in DOMAIN q.recs : j \in Int /\ j < q.highest
    <3>1. DOMAIN q.recs \subseteq kKeyMin..kKeyMax
      BY <1>1 DEF IsPageRecord
    <3>2. \A j \in DOMAIN q.recs : j < q.highest
      BY <1>1 DEF Linked, InPage
    <3> QED  BY <3>1, <3>2, KeyInts
  <2>8. \A j \in DOMAIN mem[y].recs : j \in Int /\ q.highest <= j
    <3>1. IsPageRecord(mem[y]) /\ Linked(mem, mem[y])
      BY <1>1, LiveTypes
    <3>2. DOMAIN mem[y].recs \subseteq kKeyMin..kKeyMax
      BY <3>1 DEF IsPageRecord
    <3>3. \A j \in DOMAIN mem[y].recs : q.highest <= j
      BY <2>5, <3>1 DEF Linked, InPage
    <3> QED  BY <3>2, <3>3, KeyInts
  <2>9. /\ p \in Live' /\ p \notin Hidden' /\ y \in Live' /\ y \notin Hidden'
        /\ mem'[p].lowest = mem[p].lowest
    BY <1>1, <1>3, <1>4 DEF Low
  <2>10. Puts(c.call.k, c.call.v)
    <3> HIDE DEF c
    <3> QED
      BY <1>1, <1>3, <1>5, <2>1, <2>2, <2>3, <2>4, <2>5, <2>6, <2>7, <2>8,
         <2>9, LeafDivided
  <2>11. d.landed
    BY <1>2, <1>9, <2>2
  <2> QED
    BY <1>0, <1>2, <1>6, <1>7, <2>2, <2>3, <2>10, <2>11 DEF Commits
<1> QED  BY <1>8, <1>9

\* Every step of the tree is, seen from outside, a call, an effect or a
\* return of one client, or nothing.
LEMMA StepEffect ==
  ASSUME Inv, HideInv, DataInv, Found, Found', [Next]_vars
  PROVE  \/ Stutters
         \/ \E t \in Thread : Invokes(t) \/ Commits(t) \/ Returns(t)
<1> DEFINE Goal == \/ Stutters
                   \/ \E t \in Thread : Invokes(t) \/ Commits(t) \/ Returns(t)
<1>1. ASSUME UNCHANGED <<mem, posted, rootPtr, th, acked, deleted>>
      PROVE  Goal
  BY <1>1, SameLeaves DEF Stutters, Same
<1>2. ASSUME NEW t \in Thread, Step(t)  PROVE Goal
  <2>1. CASE \/ TurnRight(t) \/ Descend(t) \/ ReachLeaf(t)
             \/ StaleSearch(t) \/ StaleStore(t)
             \/ LockAndRead(t) \/ MoveRight(t)
             \/ StoreUp(t) \/ InsertInternal(t)
    BY <2>1, LookEffect
  <2>2. CASE Start(t)
    BY <2>2, StartEffect
  <2>3. CASE Return(t)
    BY <2>3, ReturnEffect
  <2>4. CASE ReadLeaf(t)
    BY <2>4, ReadEffect
  <2>5. CASE DeleteEntry(t)
    BY <2>5, DeleteEffect
  <2>6. CASE StoreEntry(t)
    BY <2>6, StoreEffect
  <2>7. CASE \E async \in BOOLEAN : Split(t, async)
    BY <2>7, SplitEffect
  <2>8. CASE UpdateNewRoot(t)
    BY <2>8, NewRootEffect
  <2>9. CASE RetryLock(t) \/ NoUpLevel(t)
    BY <1>1, <2>9 DEF RetryLock, NoUpLevel, vars, hist
  <2> HIDE DEF Goal
  <2> QED
    BY <1>2, <2>1, <2>2, <2>3, <2>4, <2>5, <2>6, <2>7, <2>8, <2>9 DEF Step
<1>3. ASSUME NEW w \in posted, Deliver(w)  PROVE Goal
  <2>1. w.t \in Thread
    BY DEF Inv, TypeInv, IsWrite
  <2> QED  BY <1>3, <2>1, DeliverEffect
<1>4. ASSUME NEW m \in msgs, DirNewRoot(m) \/ LoseMessage(m)  PROVE Goal
  BY <1>1, <1>4 DEF DirNewRoot, LoseMessage, others, hist
<1>5. ASSUME Finished \/ UNCHANGED vars  PROVE Goal
  BY <1>1, <1>5 DEF Finished, vars
<1> HIDE DEF Goal
<1>6. Goal
  BY <1>2, <1>3, <1>4, <1>5 DEF Next
<1> QED  BY <1>6 DEF Goal

\* The keys with a record in the leaf for them.
Present == {k \in UserKey : In(k)}

\* The keys of the loaded tree and of returned inserts are present, and so are
\* those of inserts that have taken effect, unless a del was called.
AckedInv ==
  /\ acked \subseteq UserKey
  /\ acked \subseteq deleted \cup Present
  /\ \A t \in Thread : th[t].pc # "idle" =>
       /\ th[t].call.op = "del" => th[t].call.k \in deleted
       /\ th[t].call.op = "insert" /\ th[t].landed =>
            th[t].call.k \in deleted \cup Present

\* At the start, acked is what the leaves hold.
LEMMA InitAcked ==
  ASSUME Init, Inv, HideInv
  PROVE  AckedInv
<1> DEFINE w == Workloads[work]
           pages == 1..Len(w.tree)
<1>1. /\ work \in DOMAIN Workloads /\ mem = Loaded(w.tree) /\ posted = {}
      /\ acked = UNION {DOMAIN w.tree[x].recs :
                          x \in {y \in pages : w.tree[y].level = 0}}
      /\ \A t \in Thread : th[t].pc = "idle"
  BY DEF Init, Idle
<1>2. Len(w.tree) \in Nat /\ Len(w.tree) <= MaxPages
  BY <1>1, WorkloadAssumption
<1>3. \A x \in pages : x \in Addr /\ mem[x] = w.tree[x]
  BY <1>1, <1>2, TreeAssumption DEF Addr, Loaded
<1>4. \A x \in pages : IsPageRecord(mem[x])
  BY <1>1, WorkloadAssumption
<1>5. ASSUME NEW k \in acked  PROVE k \in UserKey /\ In(k)
  <2>1. PICK x \in pages : mem[x].level = 0 /\ k \in DOMAIN mem[x].recs
    BY <1>1, <1>3
  <2>2. x \in Addr /\ IsPage(x) /\ IsPageRecord(mem[x])
    BY <1>3, <1>4, PageIsPage DEF IsPage, IsPageIn
  <2>3. x \in Live /\ Linked(mem, mem[x])
    BY <2>1, <2>2 DEF HideInv, LeavesInv, Lev, Inv, PagesInv
  <2>4. Hidden = {}
    BY <1>1 DEF Hidden
  <2>5. k \in kKeyMin..kKeyMax /\ mem[x].highest \in kKeyMin..kKeyMax
        /\ InPage(mem[x], k)
    BY <2>1, <2>2, <2>3 DEF IsPageRecord, Linked
  <2>6. k \in Int /\ k \in UserKey
    BY <2>5, KeyInts DEF UserKey, InPage
  <2>7. Holds(x, k)
    BY <2>1, <2>3, <2>4, <2>5 DEF Holds, Lev
  <2>8. Target(k) = x
    BY <2>6, <2>7, TargetIs
  <2> QED  BY <2>1, <2>6, <2>8 DEF In
<1> QED  BY <1>1, <1>5 DEF AckedInv, Present

\* The invariant holds after every step.
LEMMA NextAcked ==
  ASSUME AckedInv,
         \/ Stutters
         \/ \E t \in Thread : Invokes(t) \/ Commits(t) \/ Returns(t)
  PROVE  AckedInv'
<1>1. Untouched => Present' = Present
  BY DEF Untouched, Present
<1>2. ASSUME Stutters  PROVE AckedInv'
  BY <1>1, <1>2 DEF Stutters, Same, AckedInv
<1>3. ASSUME NEW t \in Thread, Invokes(t)  PROVE AckedInv'
  <2> SUFFICES ASSUME NEW call, call = th'[t].call  PROVE AckedInv'
    OBVIOUS
  <2>1. /\ Present' = Present /\ UNCHANGED acked /\ ~th'[t].landed
        /\ deleted' = IF call.op = "del" THEN deleted \cup {call.k}
                                        ELSE deleted
        /\ \A u \in Thread : u # t => Same(u)
    BY <1>1, <1>3 DEF Invokes
  <2>2. ASSUME NEW u \in Thread, th'[u].pc # "idle"
        PROVE  /\ th'[u].call.op = "del" => th'[u].call.k \in deleted'
               /\ th'[u].call.op = "insert" /\ th'[u].landed =>
                    th'[u].call.k \in deleted' \cup Present'
    <3>1. CASE u = t
      BY <2>1, <3>1
    <3>2. CASE u # t
      BY <2>1, <2>2, <3>2 DEF AckedInv, Same
    <3> QED  BY <3>1, <3>2
  <2> QED  BY <2>1, <2>2 DEF AckedInv
<1>4. ASSUME NEW t \in Thread, Commits(t)  PROVE AckedInv'
  <2> SUFFICES ASSUME NEW call, call = th[t].call  PROVE AckedInv'
    OBVIOUS
  <2>1. /\ UNCHANGED <<acked, deleted>> /\ th'[t].call = call
        /\ th[t].pc # "idle" /\ call.k \in UserKey
        /\ \A u \in Thread : u # t => Same(u)
        /\ call.op \in {"insert", "del", "search"}
    BY <1>4, KeysAreUserKeys DEF Commits
  <2>2. /\ call.op = "insert" => Present' = Present \cup {call.k}
        /\ call.op = "del" => Present' = Present \ {call.k}
        /\ call.op = "search" => Present' = Present
    BY <1>1, <1>4, <2>1 DEF Commits, Puts, Removes, Present
  <2>3. call.op = "del" => call.k \in deleted
    BY <2>1 DEF AckedInv
  <2>4. deleted \cup Present \subseteq deleted \cup Present'
    BY <2>1, <2>2, <2>3
  <2>5. ASSUME NEW u \in Thread, th'[u].pc # "idle"
        PROVE  /\ th'[u].call.op = "del" => th'[u].call.k \in deleted
               /\ th'[u].call.op = "insert" /\ th'[u].landed =>
                    th'[u].call.k \in deleted \cup Present'
    <3>1. CASE u = t
      BY <2>1, <2>2, <2>3, <3>1
    <3>2. CASE u # t
      BY <2>1, <2>4, <2>5, <3>2 DEF AckedInv, Same
    <3> QED  BY <3>1, <3>2
  <2> QED  BY <2>1, <2>4, <2>5 DEF AckedInv
<1>5. ASSUME NEW t \in Thread, Returns(t)  PROVE AckedInv'
  <2> SUFFICES ASSUME NEW call, call = th[t].call  PROVE AckedInv'
    OBVIOUS
  <2>1. /\ Present' = Present /\ UNCHANGED deleted
        /\ th[t].pc # "idle" /\ th[t].landed /\ call.k \in UserKey
        /\ acked' = IF call.op = "insert" THEN acked \cup {call.k} ELSE acked
        /\ \A u \in Thread : u # t => Same(u)
        /\ th'[t].pc = "idle"
    BY <1>1, <1>5, KeysAreUserKeys DEF Returns, Idle
  <2>2. acked' \subseteq UserKey /\ acked' \subseteq deleted \cup Present
    BY <2>1 DEF AckedInv
  <2>3. \A u \in Thread : th'[u].pc # "idle" =>
          /\ th'[u].call.op = "del" => th'[u].call.k \in deleted
          /\ th'[u].call.op = "insert" /\ th'[u].landed =>
               th'[u].call.k \in deleted \cup Present
    BY <2>1 DEF AckedInv, Same
  <2> QED  BY <2>1, <2>2, <2>3 DEF AckedInv
<1> QED  BY <1>2, <1>3, <1>4, <1>5

\* All of it holds in every state.
LEMMA AckedHolds ==
  ASSUME OneNode
  PROVE  Spec => [](Inv /\ HideInv /\ DataInv /\ AckedInv)
<1>1. Init => DataInv
  BY InitData
<1>2. Init /\ Inv /\ HideInv => AckedInv
  BY InitAcked
<1>3. OneNode /\ Inv /\ HideInv /\ DataInv /\ [Next]_vars => DataInv'
  <2>1. ASSUME DataInv, UNCHANGED vars  PROVE DataInv'
    BY <2>1, StutterData DEF vars
  <2> QED  BY <2>1, NextData
<1>4. Inv /\ HideInv /\ DataInv /\ AckedInv /\ Inv' /\ HideInv'
        /\ [Next]_vars => AckedInv'
  <2> SUFFICES ASSUME Inv, HideInv, DataInv, AckedInv, Inv', HideInv',
                      [Next]_vars
               PROVE  AckedInv'
    OBVIOUS
  <2>1. Found /\ Found'
    BY FoundHolds, FoundNext
  <2> QED  BY <2>1, StepEffect, NextAcked
<1> QED
  BY <1>1, <1>2, <1>3, <1>4, InvHolds, HideHolds, OneNode, PTL DEF Spec

\* AckedKeysSurvive, with one memory node: what insert stored is found from
\* the root when insert has returned, whatever splits and stores of other
\* clients interleave, unless somebody calls del for it.
THEOREM AckedSurvive ==
  ASSUME OneNode
  PROVE  Spec => []AckedKeysSurvive
<1>1. Inv /\ HideInv /\ AckedInv => AckedKeysSurvive
  <2> SUFFICES ASSUME Inv, HideInv, AckedInv, NEW k \in acked \ deleted
               PROVE  k \in DOMAIN mem[LeafFrom(rootPtr, k)].recs
    BY DEF AckedKeysSurvive
  <2>1. k \in UserKey /\ In(k)
    BY DEF AckedInv, Present
  <2>2. LeafFrom(rootPtr, k) = Target(k)
    BY <2>1, FoundHolds DEF Found
  <2> QED  BY <2>1, <2>2 DEF In
<1> QED  BY <1>1, AckedHolds, OneNode, PTL

-----------------------------------------------------------------------------
(* The tree implements the map.                                            *)

\* What the refinement mapping of Tree gives the variables of KVStore.
MapNow == [k \in Key |-> ValueIn(mem[LeafFrom(FirstLeaf, k)], k)]
CallNow == [t \in Thread |-> th[t].call]
PhaseOf(c) ==
  IF c.pc = "idle" THEN "idle" ELSE IF c.landed THEN "done" ELSE "called"
PhaseNow == [t \in Thread |-> PhaseOf(th[t])]
ResNow == [t \in Thread |-> th[t].res]

\* The steps of KVStore, on these.
MapInvoke(t) ==
  /\ PhaseNow[t] = "idle"
  /\ PhaseNow' = [PhaseNow EXCEPT ![t] = "called"]
  /\ CallNow' = [CallNow EXCEPT ![t] = CallNow'[t]]
  /\ UNCHANGED <<MapNow, ResNow>>

MapCommit(t) ==
  LET c == CallNow[t] IN
  /\ PhaseNow[t] = "called"
  /\ PhaseNow' = [PhaseNow EXCEPT ![t] = "done"]
  /\ \/ /\ c.op = "insert" /\ MapNow' = [MapNow EXCEPT ![c.k] = c.v]
        /\ UNCHANGED ResNow
     \/ /\ c.op = "del" /\ MapNow' = [MapNow EXCEPT ![c.k] = kValueNull]
        /\ UNCHANGED ResNow
     \/ /\ c.op = "search" /\ ResNow' = [ResNow EXCEPT ![t] = MapNow[c.k]]
        /\ UNCHANGED MapNow
  /\ UNCHANGED CallNow

MapRespond(t) ==
  /\ PhaseNow[t] = "done"
  /\ PhaseNow' = [PhaseNow EXCEPT ![t] = "idle"]
  /\ CallNow' = [CallNow EXCEPT ![t] = NoCall]
  /\ ResNow' = [ResNow EXCEPT ![t] = kValueNull]
  /\ UNCHANGED MapNow

\* The map is what the leaves for the keys hold.
LEMMA MapIsVal ==
  ASSUME Found
  PROVE  MapNow = [k \in Key |-> Val(k)]
BY KeysAreUserKeys DEF MapNow, Val, Found

\* What the effects do to the map.
LEMMA MapEffects ==
  ASSUME Found, Found'
  PROVE  /\ Untouched => UNCHANGED MapNow
         /\ \A j \in Key : \A v :
              Puts(j, v) => MapNow' = [MapNow EXCEPT ![j] = v]
         /\ \A j \in Key :
              Removes(j) => MapNow' = [MapNow EXCEPT ![j] = kValueNull]
<1>1. MapNow = [k \in Key |-> Val(k)]
  BY MapIsVal
<1>2. MapNow' = [k \in Key |-> Val(k)']
  BY KeysAreUserKeys DEF MapNow, Val, Found
<1>3. \A k \in Key : k \in UserKey
  BY KeysAreUserKeys
<1>4. Untouched => UNCHANGED MapNow
  BY <1>1, <1>2, <1>3 DEF Untouched
<1>5. ASSUME NEW j \in Key, NEW v, Puts(j, v)
      PROVE  MapNow' = [MapNow EXCEPT ![j] = v]
  BY <1>1, <1>2, <1>3, <1>5 DEF Puts
<1>6. ASSUME NEW j \in Key, Removes(j)
      PROVE  MapNow' = [MapNow EXCEPT ![j] = kValueNull]
  BY <1>1, <1>2, <1>3, <1>6 DEF Removes
<1> QED  BY <1>4, <1>5, <1>6

\* A client that looks the same has the same call, phase and result.
LEMMA SamePhase ==
  ASSUME NEW u \in Thread, Same(u)
  PROVE  /\ PhaseOf(th'[u]) = PhaseOf(th[u])
         /\ th'[u].call = th[u].call /\ th'[u].res = th[u].res
BY DEF Same, PhaseOf

\* What a client does is a step of the map.
LEMMA MapStep ==
  ASSUME Found, Found',
         \/ Stutters
         \/ \E t \in Thread : Invokes(t) \/ Commits(t) \/ Returns(t)
  PROVE  \/ UNCHANGED <<MapNow, CallNow, PhaseNow, ResNow>>
         \/ \E t \in Thread : MapInvoke(t) \/ MapCommit(t) \/ MapRespond(t)
<1>1. ASSUME Stutters
      PROVE  UNCHANGED <<MapNow, CallNow, PhaseNow, ResNow>>
  BY <1>1, MapEffects, SamePhase DEF Stutters, CallNow, PhaseNow, ResNow
<1>2. ASSUME NEW t \in Thread, NEW c, NEW d, c = th[t], d = th'[t],
             \A u \in Thread : u # t => Same(u)
      PROVE  /\ PhaseNow[t] = PhaseOf(c)
             /\ PhaseNow' = [PhaseNow EXCEPT ![t] = PhaseOf(d)]
             /\ CallNow[t] = c.call /\ CallNow'[t] = d.call
             /\ CallNow' = [CallNow EXCEPT ![t] = d.call]
             /\ ResNow' = [ResNow EXCEPT ![t] = d.res]
             /\ d.call = c.call => UNCHANGED CallNow
             /\ d.res = c.res => UNCHANGED ResNow
  <2>1. \A u \in Thread : u # t =>
          /\ PhaseOf(th'[u]) = PhaseOf(th[u])
          /\ th'[u].call = th[u].call /\ th'[u].res = th[u].res
    BY <1>2, SamePhase
  <2>2. /\ PhaseNow[t] = PhaseOf(c) /\ CallNow[t] = c.call
        /\ CallNow'[t] = d.call
    BY <1>2 DEF PhaseNow, CallNow
  <2>3. PhaseNow' = [PhaseNow EXCEPT ![t] = PhaseOf(d)]
    BY <1>2, <2>1 DEF PhaseNow
  <2>4. /\ CallNow' = [CallNow EXCEPT ![t] = d.call]
        /\ d.call = c.call => UNCHANGED CallNow
    BY <1>2, <2>1 DEF CallNow
  <2>5. /\ ResNow' = [ResNow EXCEPT ![t] = d.res]
        /\ d.res = c.res => UNCHANGED ResNow
    BY <1>2, <2>1 DEF ResNow
  <2> QED  BY <2>2, <2>3, <2>4, <2>5
<1>3. ASSUME NEW t \in Thread, Invokes(t)  PROVE MapInvoke(t)
  <2>1. /\ \A u \in Thread : u # t => Same(u)
        /\ PhaseOf(th[t]) = "idle" /\ PhaseOf(th'[t]) = "called"
        /\ th[t].res = kValueNull /\ th'[t].res = kValueNull
    BY <1>3 DEF Invokes, PhaseOf, Idle
  <2>2. UNCHANGED MapNow
    BY <1>3, MapEffects DEF Invokes
  <2> QED  BY <1>2, <2>1, <2>2 DEF MapInvoke
<1>4. ASSUME NEW t \in Thread, Commits(t)  PROVE MapCommit(t)
  <2> SUFFICES ASSUME NEW call, call = th[t].call  PROVE MapCommit(t)
    OBVIOUS
  <2>1. /\ \A u \in Thread : u # t => Same(u)
        /\ PhaseOf(th[t]) = "called" /\ PhaseOf(th'[t]) = "done"
        /\ th'[t].call = call /\ call.k \in Key
        /\ \/ /\ call.op = "insert" /\ Puts(call.k, call.v)
              /\ th'[t].res = th[t].res
           \/ call.op = "del" /\ Removes(call.k) /\ th'[t].res = th[t].res
           \/ call.op = "search" /\ Untouched /\ th'[t].res = Val(call.k)
    BY <1>4 DEF Commits, PhaseOf
  <2>2. /\ PhaseNow[t] = "called"
        /\ PhaseNow' = [PhaseNow EXCEPT ![t] = "done"]
        /\ CallNow[t] = call /\ UNCHANGED CallNow
        /\ ResNow' = [ResNow EXCEPT ![t] = th'[t].res]
        /\ th'[t].res = th[t].res => UNCHANGED ResNow
    BY <1>2, <2>1
  <2>3. CASE call.op = "insert" /\ Puts(call.k, call.v)
             /\ th'[t].res = th[t].res
    <3>1. MapNow' = [MapNow EXCEPT ![call.k] = call.v]
      BY <2>1, <2>3, MapEffects
    <3> QED  BY <2>2, <2>3, <3>1 DEF MapCommit
  <2>4. CASE call.op = "del" /\ Removes(call.k) /\ th'[t].res = th[t].res
    <3>1. MapNow' = [MapNow EXCEPT ![call.k] = kValueNull]
      BY <2>1, <2>4, MapEffects
    <3> QED  BY <2>2, <2>4, <3>1 DEF MapCommit
  <2>5. CASE call.op = "search" /\ Untouched /\ th'[t].res = Val(call.k)
    <3>1. UNCHANGED MapNow /\ MapNow[call.k] = Val(call.k)
      BY <2>1, <2>5, MapEffects, MapIsVal
    <3> QED  BY <2>2, <2>5, <3>1 DEF MapCommit
  <2> QED  BY <2>1, <2>3, <2>4, <2>5
<1>5. ASSUME NEW t \in Thread, Returns(t)  PROVE MapRespond(t)
  <2>1. /\ \A u \in Thread : u # t => Same(u)
        /\ PhaseOf(th[t]) = "done" /\ PhaseOf(th'[t]) = "idle"
        /\ th'[t].call = NoCall /\ th'[t].res = kValueNull
    BY <1>5 DEF Returns, PhaseOf, Idle
  <2>2. UNCHANGED MapNow
    BY <1>5, MapEffects DEF Returns
  <2> QED  BY <1>2, <2>1, <2>2 DEF MapRespond
<1> QED  BY <1>1, <1>3, <1>4, <1>5

\* At the start no operation is under way.
LEMMA MapInit ==
  ASSUME Init
  PROVE  /\ DOMAIN MapNow = Key
         /\ CallNow = [t \in Thread |-> NoCall]
         /\ PhaseNow = [t \in Thread |-> "idle"]
         /\ ResNow = [t \in Thread |-> kValueNull]
<1>1. /\ \A t \in Thread : th[t] = Idle
      /\ Idle.pc = "idle" /\ Idle.call = NoCall /\ Idle.res = kValueNull
  BY DEF Init, Idle
<1> QED  BY <1>1 DEF MapNow, CallNow, PhaseNow, PhaseOf, ResNow

\* Linearizable, with one memory node: insert, search and del take effect
\* atomically at one moment between call and return, whatever splits, posted
\* writes, stale caches and late NEW_ROOT messages interleave.
THEOREM TreeLinearizable ==
  ASSUME OneNode
  PROVE  Spec => Linearizable
<1>1. Init => Abstract!Init
  BY MapInit
     DEF Abstract!Init, MapNow, CallNow, PhaseNow, PhaseOf, ResNow
<1>2. Inv /\ HideInv /\ DataInv /\ Inv' /\ HideInv' /\ [Next]_vars
        => [Abstract!Next]_(Abstract!vars)
  <2> SUFFICES ASSUME Inv, HideInv, DataInv, Inv', HideInv', [Next]_vars
               PROVE  [Abstract!Next]_(Abstract!vars)
    OBVIOUS
  <2>1. Found /\ Found'
    BY FoundHolds, FoundNext
  <2>2. \/ UNCHANGED <<MapNow, CallNow, PhaseNow, ResNow>>
        \/ \E t \in Thread : MapInvoke(t) \/ MapCommit(t) \/ MapRespond(t)
    BY <2>1, StepEffect, MapStep
  <2>3. CASE UNCHANGED <<MapNow, CallNow, PhaseNow, ResNow>>
    BY <2>3 DEF Abstract!vars, MapNow, CallNow, PhaseNow, PhaseOf, ResNow
  <2>4. ASSUME NEW t \in Thread, MapInvoke(t)
        PROVE  Abstract!Invoke(t, CallNow'[t])
    BY <2>4 DEF Abstract!Invoke, MapInvoke, MapNow, CallNow, PhaseNow,
                PhaseOf, ResNow
  <2>5. ASSUME NEW t \in Thread, MapCommit(t)  PROVE Abstract!Commit(t)
    BY <2>5 DEF Abstract!Commit, MapCommit, MapNow, CallNow, PhaseNow,
                PhaseOf, ResNow
  <2>6. ASSUME NEW t \in Thread, MapRespond(t)  PROVE Abstract!Respond(t)
    BY <2>6 DEF Abstract!Respond, MapRespond, MapNow, CallNow, PhaseNow,
                PhaseOf, ResNow
  <2> QED  BY <2>2, <2>3, <2>4, <2>5, <2>6 DEF Abstract!Next, CallNow
<1> QED
  BY <1>1, <1>2, AckedHolds, OneNode, PTL
     DEF Spec, Linearizable, Abstract!Spec

=============================================================================
