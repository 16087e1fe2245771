----------------------------- MODULE IndexCache -----------------------------
(***************************************************************************)
(* A compute node's cache of internal pages (IndexCache.h): a skip list of *)
(* key ranges, each with a pointer to a heap copy of a page that threads   *)
(* fill and clear by compare-and-swap, pages waiting to be freed, and the  *)
(* budget free_page_cnt.  Nodes of the skip list are never removed.  All   *)
(* threads of the node use the cache; thread 0 frees the delayed pages.    *)
(***************************************************************************)
EXTENDS Integers, Sequences, FiniteSets

CONSTANTS
  Thread,
  Leader,        \* thread 0
  PageRange,     \* [from, to] of the pages that are cached, `to` included
  Key,
  all_page_cnt,  \* pages the cache may hold
  MaxPages,      \* bound: pages that are copied (malloc)
  NoNode,        \* the range is not in the skip list
  Null,
  Grace          \* whether no reader outlasts the delay of 30000 cycles

Page == 1..MaxPages

ASSUME CacheAssumption ==
  /\ IsFiniteSet(Thread) /\ Leader \in Thread
  /\ PageRange \subseteq [from : Int, to : Int] /\ Key \subseteq Int
  /\ \A r \in PageRange : r.from <= r.to
  /\ all_page_cnt \in Nat /\ MaxPages \in Nat
  /\ NoNode \notin Page /\ Null \notin Page /\ NoNode # Null
  /\ Grace \in BOOLEAN

\* A page keeps its range until it is split in two.
ASSUME RangesNest ==
  \A r, s \in PageRange :
    \/ r.to < s.from \/ s.to < r.from
    \/ r.from <= s.from /\ s.to <= r.to
    \/ s.from <= r.from /\ r.to <= s.to

VARIABLES
  ptr,              \* CacheEntry::ptr of each range, NoNode if not listed
  free_page_cnt,
  delay_free_list,
  freed,            \* pages given back to the heap
  next,             \* the next page malloc returns
  th                \* each thread: pc, entry e, page p

vars == <<ptr, free_page_cnt, delay_free_list, freed, next, th>>

Idle == [pc |-> "idle", e |-> Null, p |-> Null]

Init ==
  /\ ptr = [r \in PageRange |-> NoNode]
  /\ free_page_cnt = all_page_cnt
  /\ delay_free_list = <<>>
  /\ freed = {}
  /\ next = 1
  /\ th = [t \in Thread |-> Idle]

At(t, l) == th[t].pc = l
Goto(t, l) == th' = [th EXCEPT ![t].pc = l]
Become(t, l, e, p) == th' = [th EXCEPT ![t] = [pc |-> l, e |-> e, p |-> p]]

-----------------------------------------------------------------------------
(* Lookup.                                                                 *)

\* Mutant: ranges with the same end in ascending order of their start.
WideFirst(r, s) == r.to < s.to \/ (r.to = s.to /\ r.from < s.from)

\* CacheEntryComparator: by end, then by descending start.
Before(r, s) == r.to < s.to \/ (r.to = s.to /\ r.from > s.from)

Listed == {r \in PageRange : ptr[r] # NoNode}

\* find_entry: Seek to the first node that is not before [k, k].
find_entry(k) ==
  LET at == {r \in Listed : ~Before(r, [from |-> k, to |-> k])} IN
  {r \in at : \A s \in at : s = r \/ Before(r, s)}

\* search_from_cache up to the load of entry->ptr.
LoadEntry(t, k) ==
  /\ At(t, "idle")
  /\ \E e \in find_entry(k) :
       /\ ptr[e] # Null
       /\ e.from <= k /\ k <= e.to
       /\ Become(t, "found", e, ptr[e])
  /\ UNCHANGED <<ptr, free_page_cnt, delay_free_list, freed, next>>

\* The page is searched and `entry->ptr` is looked at again: "check if it is
\* freed".  The caller may then find the address stale and call invalidate.
FinishSearch(t) ==
  /\ At(t, "found")
  /\ ptr[th[t].e] # Null
  /\ Goto(t, "hit")
  /\ UNCHANGED <<ptr, free_page_cnt, delay_free_list, freed, next>>

SearchFails(t) ==
  /\ At(t, "found")
  /\ ptr[th[t].e] = Null
  /\ Become(t, "idle", Null, Null)
  /\ UNCHANGED <<ptr, free_page_cnt, delay_free_list, freed, next>>

UseHit(t) ==
  /\ At(t, "hit")
  /\ \/ Become(t, "idle", Null, Null)
     \/ Become(t, "invalidate", th[t].e, Null)
  /\ UNCHANGED <<ptr, free_page_cnt, delay_free_list, freed, next>>

-----------------------------------------------------------------------------
(* add_to_cache.                                                           *)

\* malloc, memcpy and InsertConcurrently.
AddEntry(t, r) ==
  /\ At(t, "idle")
  /\ next \in Page
  /\ next' = next + 1
  /\ IF ptr[r] = NoNode
       THEN /\ ptr' = [ptr EXCEPT ![r] = next]
            /\ Become(t, "count", Null, Null)
       ELSE /\ Become(t, "conflicted", r, next)
            /\ UNCHANGED ptr
  /\ UNCHANGED <<free_page_cnt, delay_free_list, freed>>

\* The range is listed: fill its pointer if it is clear, else drop the copy.
FillEntry(t) ==
  LET e == th[t].e IN
  /\ At(t, "conflicted")
  /\ ptr[e] = Null
  /\ ptr' = [ptr EXCEPT ![e] = th[t].p]
  /\ Become(t, "count", Null, Null)
  /\ UNCHANGED <<free_page_cnt, delay_free_list, freed, next>>

DropCopy(t) ==
  /\ At(t, "conflicted")
  /\ ptr[th[t].e] # Null
  /\ freed' = freed \cup {th[t].p}
  /\ Become(t, "idle", Null, Null)
  /\ UNCHANGED <<ptr, free_page_cnt, delay_free_list, next>>

\* Mutant: the page is not charged to the budget.
NoCharge == UNCHANGED free_page_cnt

\* free_page_cnt.fetch_add(-1)
Charge == free_page_cnt' = free_page_cnt - 1

CountPage(t) ==
  /\ At(t, "count")
  /\ Charge
  /\ Goto(t, IF free_page_cnt <= 0 THEN "evict" ELSE "idle")
  /\ UNCHANGED <<ptr, delay_free_list, freed, next>>

-----------------------------------------------------------------------------
(* Eviction, invalidation and the delayed free.                            *)

\* evict_one takes the less used of two random entries, so any that is cached.
\* get_a_random_entry reads index_cache_freq in the page behind the entry ...
PickVictim(t) ==
  /\ At(t, "evict")
  /\ \E e \in Listed : ptr[e] # Null /\ Become(t, "freq", e, ptr[e])
  /\ UNCHANGED <<ptr, free_page_cnt, delay_free_list, freed, next>>

\* ... and looks whether the page is still the one behind the entry.
TakeVictim(t) ==
  /\ At(t, "freq")
  /\ IF ptr[th[t].e] = th[t].p THEN Become(t, "invalidate", th[t].e, Null)
                               ELSE Become(t, "evict", Null, Null)
  /\ UNCHANGED <<ptr, free_page_cnt, delay_free_list, freed, next>>

\* goto retry: the random key hits no cached page.
RetryVictim(t) ==
  /\ At(t, "evict")
  /\ \A e \in Listed : ptr[e] = Null
  /\ UNCHANGED vars

\* invalidate: if (ptr == nullptr) return false
AlreadyClear(p) == p = Null

LoadPtr(t) ==
  LET p == ptr[th[t].e] IN
  /\ At(t, "invalidate")
  /\ IF AlreadyClear(p) THEN Become(t, "idle", Null, Null)
                        ELSE Become(t, "clear", th[t].e, p)
  /\ UNCHANGED <<ptr, free_page_cnt, delay_free_list, freed, next>>

\* Mutant: a plain store instead of the compare-and-swap.
Overwrite(t) == TRUE

\* __sync_bool_compare_and_swap(&(entry->ptr), ptr, 0)
StillThere(t) == ptr[th[t].e] = th[t].p

ClearPtr(t) ==
  /\ At(t, "clear")
  /\ IF StillThere(t)
       THEN /\ ptr' = [ptr EXCEPT ![th[t].e] = Null]
            /\ Become(t, "delay", Null, th[t].p)
       ELSE /\ Become(t, "idle", Null, Null)
            /\ UNCHANGED ptr
  /\ UNCHANGED <<free_page_cnt, delay_free_list, freed, next>>

\* delay_free_list.push under free_lock.
DelayFree(t) ==
  /\ At(t, "delay")
  /\ delay_free_list' = Append(delay_free_list, th[t].p)
  /\ Become(t, "idle", Null, Null)
  /\ UNCHANGED <<ptr, free_page_cnt, freed, next>>

\* Mutant: pages are freed at once.
AtOnce(p) == TRUE

\* The front of the list is older than the delay.
OldEnough(p) ==
  Grace => \A t \in Thread : th[t].pc \in {"found", "freq"} => th[t].p # p

\* search_from_cache of the leader, before it looks for its key.
FreePage(t) ==
  /\ t = Leader
  /\ At(t, "idle")
  /\ delay_free_list # <<>>
  /\ OldEnough(Head(delay_free_list))
  /\ freed' = freed \cup {Head(delay_free_list)}
  /\ Become(t, "refund", Null, Head(delay_free_list))
  /\ UNCHANGED <<ptr, free_page_cnt, delay_free_list, next>>

Refund(t) ==
  /\ At(t, "refund")
  /\ free_page_cnt' = free_page_cnt + 1
  /\ Goto(t, "pop")
  /\ UNCHANGED <<ptr, delay_free_list, freed, next>>

PopFreed(t) ==
  /\ At(t, "pop")
  /\ delay_free_list' = Tail(delay_free_list)
  /\ Become(t, "idle", Null, Null)
  /\ UNCHANGED <<ptr, free_page_cnt, freed, next>>

Step(t) ==
  \/ \E k \in Key : LoadEntry(t, k)
  \/ FinishSearch(t) \/ SearchFails(t) \/ UseHit(t)
  \/ \E r \in PageRange : AddEntry(t, r)
  \/ FillEntry(t) \/ DropCopy(t) \/ CountPage(t)
  \/ PickVictim(t) \/ TakeVictim(t) \/ RetryVictim(t)
  \/ LoadPtr(t) \/ ClearPtr(t) \/ DelayFree(t)
  \/ FreePage(t) \/ Refund(t) \/ PopFreed(t)

Finished ==
  /\ next \notin Page
  /\ \A t \in Thread : th[t].pc = "idle"
  /\ UNCHANGED vars

Next == (\E t \in Thread : Step(t)) \/ Finished

Spec == Init /\ [][Next]_vars

-----------------------------------------------------------------------------
InList == {delay_free_list[i] : i \in DOMAIN delay_free_list}
Cached == {ptr[r] : r \in PageRange} \ {NoNode, Null}
Doing(l) == {t \in Thread : th[t].pc = l}
Own == {th[t].p : t \in Doing("conflicted") \cup Doing("delay")}

\* The page the leader has freed and is about to take off the list.
BeingPopped == {th[t].p : t \in Doing("refund") \cup Doing("pop")}

\* Every page copied so far is in exactly one place: behind an entry, in a
\* thread's hands, waiting to be freed, or freed.  So nothing leaks, nothing is
\* freed twice and no entry points to a page that waits to be freed.
OnePlace ==
  /\ 1..next-1 = Cached \cup Own \cup InList \cup freed
  /\ Cached \cap (Own \cup InList \cup freed) = {}
  /\ Own \cap (InList \cup freed) = {}
  /\ InList \cap freed = BeingPopped
  /\ \A r, s \in PageRange : ptr[r] \in Page /\ ptr[r] = ptr[s] => r = s
  /\ Cardinality(InList) = Len(delay_free_list)

\* free_page_cnt is the budget minus the pages that are cached or wait to be
\* freed, but for the steps a thread is just between: whatever fails, conflicts
\* or is evicted, the budget neither leaks nor grows.
BudgetExact ==
  free_page_cnt = all_page_cnt
                  - (Cardinality(Cached) + Len(delay_free_list)
                       + Cardinality(Doing("delay")))
                  + Cardinality(Doing("count")) + Cardinality(Doing("pop"))

\* If no reader outlasts the delay, neither a search nor an eviction reads a
\* page that was freed.
NoUseAfterFree ==
  Grace => \A t \in Doing("found") \cup Doing("freq") : th[t].p \notin freed

\* find_entry gives the narrowest listed range around a key, so a page that was
\* split is not found once its halves are listed.
NarrowestFound ==
  \A k \in Key : \A e \in find_entry(k) :
    e.from <= k => \A r \in Listed :
      r.from <= k /\ k <= r.to => r.from <= e.from /\ e.to <= r.to

\* "check if it is freed": when the page a search is reading has been freed,
\* the second look at entry->ptr finds it clear.
FreedIsNoticed ==
  \A t \in Doing("found") : th[t].p \in freed => ptr[th[t].e] = Null
=============================================================================
