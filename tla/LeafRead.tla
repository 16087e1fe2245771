------------------------------ MODULE LeafRead ------------------------------
(***************************************************************************)
(* The two-level versions of a leaf page (Tree.h): front_version and       *)
(* rear_version around the page, f_version and r_version around every      *)
(* entry.  Readers take no lock: the NIC reads the page cache line by      *)
(* cache line while a writer's RDMA write arrives cache line by cache      *)
(* line, both in the order of addresses.  Writers exclude each other       *)
(* (HierLock), so one write is on its way at a time.                       *)
(***************************************************************************)
EXTENDS Integers, FiniteSets, FiniteSetsExt

CONSTANTS
  Key, Value,   \* Value[k]: the values stored under key k
  kKeyMax, kValueNull,
  kLeafCardinality,
  VersionMod,   \* 16: entry versions have four bits
  PageMod,      \* 256: page versions have eight bits
  LineOf,       \* the cache line of each field
  MaxWrites     \* bound: writes in a behaviour

Slot == 1..kLeafCardinality
SlotField == Slot \X {"f", "key", "val", "r"}
PageField == {"front", "highest", "rear"}
Field == ({0} \X PageField) \cup SlotField
Line == {LineOf[x] : x \in Field}

ASSUME LeafAssumption ==
  /\ Key \subseteq 1..kKeyMax-1
  /\ \A k \in Key : kValueNull \notin Value[k]
  /\ kLeafCardinality \in Nat /\ kLeafCardinality >= 2
  /\ VersionMod \in Nat \ {0} /\ PageMod \in Nat \ {0}
  /\ LineOf \in [Field -> Nat]
  /\ \A i \in Slot : LineOf[i, "f"] <= LineOf[i, "key"]
                     /\ LineOf[i, "key"] <= LineOf[i, "val"]
                     /\ LineOf[i, "val"] <= LineOf[i, "r"]
  /\ \A x \in Field : LineOf[0, "front"] <= LineOf[x]
                      /\ LineOf[x] <= LineOf[0, "rear"]

VARIABLES
  mem,      \* the page in remote memory, field by field
  sent,     \* the page as its writer sent it (mem when nothing is sent)
  todo,     \* the cache lines of the write that have not arrived
  before,   \* history: the keys' values before the write on its way ...
  after,    \* ... and after it
  writing,  \* history: the key of the last write, Whole for a split
  rd,       \* the reader: pc, k, buf, lines still to read, res; history over:
            \* what was written since it began to read the page
  current,  \* history: the values its key had since the read began
  writes    \* history: number of writes (MaxWrites bounds it)

vars == <<mem, sent, todo, before, after, writing, rd, current, writes>>

Whole == 0

Empty == [x \in Field |->
            IF x[2] = "highest" THEN kKeyMax
            ELSE IF x[2] \in {"front", "rear"} THEN 1
            ELSE IF x[2] = "val" THEN kValueNull ELSE 0]

Init ==
  /\ mem = Empty
  /\ sent = Empty
  /\ todo = {}
  /\ before = [k \in Key |-> kValueNull]
  /\ after = before
  /\ rd = [pc |-> "idle", k |-> 0, buf |-> Empty, lines |-> {},
           res |-> kValueNull, over |-> {}]
  /\ writing = Whole
  /\ current = {}
  /\ writes = 0

-----------------------------------------------------------------------------
(* Writers.                                                                *)

Used(pg) == {i \in Slot : pg[i, "val"] # kValueNull}
SlotOf(pg, k) == {i \in Used(pg) : pg[i, "key"] = k}

\* Mutant: an entry is changed without a new version.
SameVersion(v) == v

\* f_version++ on four bits.
NextVersion(v) == (v + 1) % VersionMod

\* The entry of slot i rewritten, its two versions moved on.
WithEntry(pg, i, k, v) ==
  [pg EXCEPT ![i, "key"] = k, ![i, "val"] = v,
             ![i, "f"] = NextVersion(@),
             ![i, "r"] = NextVersion(pg[i, "f"])]

\* Mutant: rear_version keeps its value.
FrontOnly(pg) == [pg EXCEPT ![0, "front"] = (@ + 1) % PageMod]

set_consistent(pg) ==
  [pg EXCEPT ![0, "front"] = (@ + 1) % PageMod,
             ![0, "rear"] = (pg[0, "front"] + 1) % PageMod]

\* The slots of a full page in the order of their keys (std::sort).
Rank(pg, i) == Cardinality({j \in Slot : pg[j, "key"] < pg[i, "key"]}) + 1
SortedFrom(pg, i) == CHOOSE j \in Slot : Rank(pg, j) = i

\* Mutant: the high fence stays.
OldFence(pg, m) == pg[0, "highest"]

\* page->hdr.highest = split_key.
NewFence(pg, m) == pg[SortedFrom(pg, m + 1), "key"]

\* The left half: entries keep their versions when they change slots, and the
\* slots from m on are emptied without a new one.
LeftHalf(pg) ==
  LET m == kLeafCardinality \div 2
      sorted(i, x) == pg[SortedFrom(pg, i), x] IN
  set_consistent(
    [y \in Field |->
       IF y = <<0, "highest">> THEN NewFence(pg, m)
       ELSE IF y[1] = 0 THEN pg[y]
       ELSE IF y[1] > m /\ y[2] = "key" THEN 0
       ELSE IF y[1] > m /\ y[2] = "val" THEN kValueNull
       ELSE sorted(y[1], y[2])])

\* The lines of the fields that a write covers.
LinesOf(X) == {LineOf[x] : x \in X}

\* write_page_and_unlock: the write starts; `kv` is what the tree holds then.
Send(pg, X, kv, what) ==
  /\ sent' = pg
  /\ todo' = LinesOf(X)
  /\ after' = kv
  /\ current' = IF rd.pc = "idle" THEN current ELSE current \cup {kv[rd.k]}
  /\ writing' = what
  /\ rd' = [rd EXCEPT !.over = IF rd.pc = "idle" THEN {} ELSE @ \cup {what}]
  /\ writes' = writes + 1
  /\ UNCHANGED <<mem, before>>

EntryOf(i) == {i} \X {"f", "key", "val", "r"}

MayWrite(k) == todo = {} /\ writes < MaxWrites /\ k < mem[0, "highest"]

\* leaf_page_store of a key that is there.
Update(k, v) ==
  /\ MayWrite(k)
  /\ \E i \in SlotOf(mem, k) :
       Send(WithEntry(mem, i, k, v), EntryOf(i), [after EXCEPT ![k] = v], k)

\* leaf_page_store of a new key, the first free slot, no split.
Insert(k, v) ==
  LET free == Slot \ Used(mem) IN
  /\ MayWrite(k)
  /\ SlotOf(mem, k) = {}
  /\ Cardinality(free) > 1
  /\ Send(WithEntry(mem, Min(free), k, v), EntryOf(Min(free)),
          [after EXCEPT ![k] = v], k)

\* leaf_page_store of a new key into the last free slot: the whole page is
\* written (its sibling is in place already).
Split(k, v) ==
  LET free == Slot \ Used(mem) IN
  /\ MayWrite(k)
  /\ SlotOf(mem, k) = {}
  /\ Cardinality(free) = 1
  /\ Send(LeftHalf(WithEntry(mem, Min(free), k, v)), Field,
          [after EXCEPT ![k] = v], Whole)

\* leaf_page_del.
Delete(k) ==
  /\ MayWrite(k)
  /\ \E i \in SlotOf(mem, k) :
       Send(WithEntry(mem, i, k, kValueNull), EntryOf(i),
            [after EXCEPT ![k] = kValueNull], k)

\* The next cache line of the write arrives; after the last one the lock is
\* released.
Arrive ==
  LET l == Min(todo) IN
  /\ todo # {}
  /\ mem' = [x \in Field |-> IF LineOf[x] = l THEN sent[x] ELSE mem[x]]
  /\ todo' = todo \ {l}
  /\ before' = IF todo' = {} THEN after ELSE before
  /\ UNCHANGED <<sent, after, writing, rd, current, writes>>

-----------------------------------------------------------------------------
(* A reader: search, page_search and leaf_page_search.                     *)

\* The write that a read beginning now meets.
OnItsWay == IF todo = {} THEN {} ELSE {writing}

StartSearch(k) ==
  /\ rd.pc = "idle"
  /\ rd' = [pc |-> "read", k |-> k, buf |-> Empty, lines |-> Line,
            res |-> kValueNull, over |-> OnItsWay]
  /\ current' = {before[k], after[k]}
  /\ UNCHANGED <<mem, sent, todo, before, after, writing, writes>>

ReadLine ==
  LET l == Min(rd.lines) IN
  /\ rd.pc = "read"
  /\ rd.lines # {}
  /\ rd' = [rd EXCEPT !.lines = @ \ {l},
              !.buf = [x \in Field |->
                         IF LineOf[x] = l THEN mem[x] ELSE @[x]]]
  /\ UNCHANGED <<mem, sent, todo, before, after, writing, current, writes>>

check_consistent(pg) == pg[0, "front"] = pg[0, "rear"]

AtEnd == rd.pc = "read" /\ rd.lines = {}

\* page_search: goto re_read.
ReRead ==
  /\ AtEnd
  /\ ~check_consistent(rd.buf)
  /\ rd' = [rd EXCEPT !.lines = Line, !.over = OnItsWay]
  /\ UNCHANGED <<mem, sent, todo, before, after, writing, current, writes>>

\* page_search: the key is in the sibling now.
TurnRight ==
  /\ AtEnd
  /\ check_consistent(rd.buf)
  /\ rd.k >= rd.buf[0, "highest"]
  /\ rd' = [rd EXCEPT !.pc = "right"]
  /\ UNCHANGED <<mem, sent, todo, before, after, writing, current, writes>>

\* Mutant: the versions of the entry are not compared.
KeyMatches(pg, i, k) == pg[i, "key"] = k /\ pg[i, "val"] # kValueNull

\* leaf_page_search's test.
Matches(pg, i, k) ==
  /\ pg[i, "key"] = k
  /\ pg[i, "val"] # kValueNull
  /\ pg[i, "f"] = pg[i, "r"]

leaf_page_search(pg, k) ==
  LET found == {i \in Slot : Matches(pg, i, k)} IN
  IF found = {} THEN kValueNull ELSE pg[Min(found), "val"]

SearchLeaf ==
  /\ AtEnd
  /\ check_consistent(rd.buf)
  /\ rd.k < rd.buf[0, "highest"]
  /\ rd' = [rd EXCEPT !.pc = "done", !.res = leaf_page_search(rd.buf, rd.k)]
  /\ UNCHANGED <<mem, sent, todo, before, after, writing, current, writes>>

Return ==
  /\ rd.pc \in {"done", "right"}
  /\ rd' = [pc |-> "idle", k |-> 0, buf |-> Empty, lines |-> {},
            res |-> kValueNull, over |-> {}]
  /\ current' = {}
  /\ UNCHANGED <<mem, sent, todo, before, after, writing, writes>>

Write == \E k \in Key : \/ \E v \in Value[k] : \/ Update(k, v)
                                               \/ Insert(k, v)
                                               \/ Split(k, v)
                        \/ Delete(k)

Read == (\E k \in Key : StartSearch(k)) \/ ReadLine \/ ReRead \/ TurnRight
          \/ SearchLeaf \/ Return

Next == Write \/ Arrive \/ Read

Spec == Init /\ [][Next]_vars

-----------------------------------------------------------------------------
\* assert(page->check_consistent()) of leaf_page_store and leaf_page_del: a
\* page read under the lock has equal page versions.
LockedReadConsistent == todo = {} => check_consistent(mem)

\* A search gives the value of its key, or turns right if a split has moved
\* the key, unless a split or a write of this very key overlaps the last read
\* of the page: writes of other entries never disturb it, nor do earlier
\* splits, deletions and slots used again.  (A write of the key can make search
\* miss it: leaf_page_search skips an entry whose versions differ.)
OthersDoNotDisturb ==
  rd.over \cap {rd.k, Whole} = {} =>
    /\ rd.pc = "done" => rd.res = after[rd.k]
    /\ rd.pc = "right" => rd.k >= mem[0, "highest"]

\* Unless a split overlaps, a search that finds a value found one that its key
\* had at some moment of the search: never half of one entry and half of
\* another, never one that was gone before it began.
FoundValueIsCurrent ==
  rd.pc = "done" /\ rd.res # kValueNull /\ Whole \notin rd.over
    => rd.res \in current
=============================================================================
