-------------------------- MODULE IndexCacheProofs --------------------------
(***************************************************************************)
(* The index cache neither leaks a page nor frees one twice, keeps its     *)
(* budget, reads no freed page if the delay is respected, and finds the    *)
(* narrowest range, for any number of threads, ranges and pages.           *)
(***************************************************************************)
EXTENDS IndexCache, FiniteSetTheorems, SequenceTheorems, TLAPS

Places == {"idle", "found", "hit", "conflicted", "count", "evict", "freq",
           "invalidate", "clear", "delay", "refund", "pop"}

TypeOK ==
  /\ ptr \in [PageRange -> Page \cup {NoNode, Null}]
  /\ free_page_cnt \in Int
  /\ delay_free_list \in Seq(Page)
  /\ freed \in SUBSET Page
  /\ next \in 1..MaxPages+1
  /\ th \in [Thread -> [pc : Places, e : PageRange \cup {Null},
                        p : Page \cup {Null}]]

\* What a thread holds at each place.
HoldsInv ==
  \A t \in Thread :
    /\ th[t].pc \in {"found", "hit", "conflicted", "freq", "invalidate",
                     "clear"}
         => th[t].e \in Listed
    /\ th[t].pc \in {"found", "conflicted", "freq", "clear", "delay", "refund",
                     "pop"}
         => th[t].p \in Page
    /\ th[t].pc \in {"refund", "pop"}
         => /\ t = Leader
            /\ delay_free_list # <<>>
            /\ th[t].p = Head(delay_free_list)

\* A copy belongs to one thread, and nobody has read a copy that was never
\* listed.
OwnInv ==
  /\ \A t, u \in Doing("conflicted") \cup Doing("delay") :
       th[t].p = th[u].p => t = u
  /\ \A t \in Doing("found") \cup Doing("freq") \cup Doing("clear") :
       \A u \in Doing("conflicted") : th[t].p # th[u].p
  /\ \A t \in Doing("found") \cup Doing("freq") \cup Doing("clear") :
       th[t].p < next

\* Each page waits once.
ListInv ==
  \A i, j \in DOMAIN delay_free_list :
    delay_free_list[i] = delay_free_list[j] => i = j

\* OnePlace without the count of the list, which follows from ListInv.
PlaceInv ==
  /\ 1..next-1 = Cached \cup Own \cup InList \cup freed
  /\ Cached \cap (Own \cup InList \cup freed) = {}
  /\ Own \cap (InList \cup freed) = {}
  /\ InList \cap freed = BeingPopped
  /\ \A r, s \in PageRange : ptr[r] \in Page /\ ptr[r] = ptr[s] => r = s

CacheInv ==
  TypeOK /\ HoldsInv /\ OwnInv /\ ListInv /\ PlaceInv /\ NoUseAfterFree

-----------------------------------------------------------------------------
(* Facts about the sets of the invariants.                                 *)

\* Only thread t has moved.
Moves(t) ==
  /\ th' \in [Thread -> [pc : Places, e : PageRange \cup {Null},
                         p : Page \cup {Null}]]
  /\ \A u \in Thread \ {t} : th'[u] = th[u]

Owns(t) == th[t].pc \in {"conflicted", "delay"}
Pops(t) == th[t].pc \in {"refund", "pop"}

\* Goto moves one thread and keeps what it holds.
LEMMA GotoMoves ==
  ASSUME TypeOK, NEW t \in Thread, NEW l \in Places, Goto(t, l)
  PROVE  /\ Moves(t)
         /\ th'[t].pc = l /\ th'[t].e = th[t].e /\ th'[t].p = th[t].p
BY DEF TypeOK, Goto, Moves

\* Become moves one thread and gives it an entry and a page.
LEMMA BecomeMoves ==
  ASSUME TypeOK, NEW t \in Thread, NEW l \in Places,
         NEW e \in PageRange \cup {Null}, NEW p \in Page \cup {Null},
         Become(t, l, e, p)
  PROVE  Moves(t) /\ th'[t].pc = l /\ th'[t].e = e /\ th'[t].p = p
BY DEF TypeOK, Become, Moves

\* Own does not change with a thread that keeps what it owns.
LEMMA OwnSame ==
  ASSUME NEW t \in Thread, Moves(t), Owns(t) <=> Owns(t)',
         Owns(t) => th'[t].p = th[t].p
  PROVE  Own' = Own
BY DEF Moves, Own, Owns, Doing

\* A thread takes a page.
LEMMA OwnTakes ==
  ASSUME NEW t \in Thread, Moves(t), ~Owns(t), Owns(t)'
  PROVE  Own' = Own \cup {th'[t].p}
BY DEF Moves, Own, Owns, Doing

\* A thread gives up the only page it owns.
LEMMA OwnGives ==
  ASSUME NEW t \in Thread, Moves(t), Owns(t), ~Owns(t)', OwnInv
  PROVE  Own' = Own \ {th[t].p} /\ th[t].p \in Own
BY DEF Moves, Own, Owns, Doing, OwnInv

\* BeingPopped does not change with a thread that goes on popping.
LEMMA PoppedSame ==
  ASSUME NEW t \in Thread, Moves(t), Pops(t) <=> Pops(t)',
         Pops(t) => th'[t].p = th[t].p
  PROVE  BeingPopped' = BeingPopped
BY DEF Moves, BeingPopped, Pops, Doing

\* Only the leader pops, and only the head of the list.
LEMMA PoppedSet ==
  ASSUME CacheInv
  PROVE  BeingPopped = IF Pops(Leader) THEN {Head(delay_free_list)} ELSE {}
BY CacheAssumption DEF CacheInv, HoldsInv, BeingPopped, Pops, Doing

\* A page is put in an empty entry.
LEMMA CachedFill ==
  ASSUME TypeOK, NEW r \in PageRange, NEW p \in Page,
         ptr[r] \in {NoNode, Null}, ptr' = [ptr EXCEPT ![r] = p]
  PROVE  Cached' = Cached \cup {p}
<1>1. p \notin {NoNode, Null}
  BY CacheAssumption
<1>2. \A s \in PageRange : ptr'[s] = IF s = r THEN p ELSE ptr[s]
  BY DEF TypeOK
<1>3. ASSUME NEW x
      PROVE  x \in Cached' <=> x \in Cached \cup {p}
  BY <1>1, <1>2 DEF Cached
<1> QED
  BY <1>3

\* The page of an entry is taken out.
LEMMA CachedClear ==
  ASSUME TypeOK, PlaceInv, NEW r \in PageRange, ptr[r] \in Page,
         ptr' = [ptr EXCEPT ![r] = Null]
  PROVE  Cached' = Cached \ {ptr[r]} /\ ptr[r] \in Cached
<1>1. ptr[r] \notin {NoNode, Null}
  BY CacheAssumption
<1>2. \A s \in PageRange : ptr'[s] = IF s = r THEN Null ELSE ptr[s]
  BY DEF TypeOK
<1>3. \A s \in PageRange : ptr[s] = ptr[r] => s = r
  BY DEF PlaceInv
<1>4. ASSUME NEW x
      PROVE  x \in Cached' <=> x \in Cached \ {ptr[r]}
  BY <1>1, <1>2, <1>3 DEF Cached
<1>5. ptr[r] \in Cached
  BY <1>1 DEF Cached
<1> QED
  BY <1>4, <1>5

\* Cached pages are pages.
LEMMA CachedPages ==
  ASSUME TypeOK
  PROVE  Cached \subseteq Page
BY DEF TypeOK, Cached

\* A page is put on the delay_free_list.
LEMMA ListAppend ==
  ASSUME TypeOK, NEW p \in Page, delay_free_list' = Append(delay_free_list, p)
  PROVE  /\ InList' = InList \cup {p}
         /\ delay_free_list' \in Seq(Page)
         /\ ListInv /\ p \notin InList => ListInv'
         /\ delay_free_list # <<>>
              => Head(delay_free_list') = Head(delay_free_list)
<1> DEFINE s == delay_free_list
<1>1. /\ s \in Seq(Page) /\ s' \in Seq(Page) /\ Len(s') = Len(s) + 1
      /\ Len(s) \in Nat
      /\ \A i \in 1..Len(s) : s'[i] = s[i]
      /\ s'[Len(s) + 1] = p
  BY DEF TypeOK
<1>2. DOMAIN s = 1..Len(s) /\ DOMAIN s' = 1..Len(s) + 1
  BY <1>1
<1>3. InList' = InList \cup {p}
  BY <1>1, <1>2 DEF InList
<1>4. ASSUME ListInv, p \notin InList
      PROVE  ListInv'
  <2>1. ASSUME NEW i \in 1..Len(s) + 1, NEW j \in 1..Len(s) + 1, s'[i] = s'[j]
        PROVE  i = j
    <3>1. \A x \in 1..Len(s) : s[x] # p
      BY <1>2, <1>4 DEF InList
    <3> QED
      BY <1>1, <1>2, <1>4, <2>1, <3>1 DEF ListInv
  <2> QED
    BY <1>2, <2>1 DEF ListInv
<1>5. s # <<>> => Head(s') = Head(s)
  BY <1>1
<1> QED
  BY <1>1, <1>3, <1>4, <1>5

\* The head is taken off the delay_free_list.
LEMMA ListTail ==
  ASSUME TypeOK, ListInv, delay_free_list # <<>>,
         delay_free_list' = Tail(delay_free_list)
  PROVE  /\ InList' = InList \ {Head(delay_free_list)}
         /\ Head(delay_free_list) \in InList
         /\ Head(delay_free_list) \in Page
         /\ delay_free_list' \in Seq(Page)
         /\ Len(delay_free_list') = Len(delay_free_list) - 1
         /\ ListInv'
<1> DEFINE s == delay_free_list
<1>1. /\ s \in Seq(Page) /\ s' \in Seq(Page) /\ Len(s') = Len(s) - 1
      /\ Len(s) \in Nat /\ Len(s) >= 1
      /\ \A i \in 1..Len(s) - 1 : s'[i] = s[i + 1]
      /\ Head(s) = s[1]
  BY DEF TypeOK
<1>2. DOMAIN s = 1..Len(s) /\ DOMAIN s' = 1..Len(s) - 1
  BY <1>1
<1>3. \A i, j \in 1..Len(s) : s[i] = s[j] => i = j
  BY <1>2 DEF ListInv
<1> HIDE DEF s
<1>4. ASSUME NEW x
      PROVE  x \in InList' <=> x \in InList \ {Head(s)}
  <2>1. ASSUME x \in InList'
        PROVE  x \in InList \ {Head(s)}
    <3>1. PICK i \in 1..Len(s) - 1 : x = s[i + 1]
      BY <1>1, <1>2, <2>1 DEF InList, s
    <3>2. i + 1 \in 1..Len(s) /\ i + 1 # 1
      BY <1>1, <3>1
    <3> QED
      BY <1>1, <1>2, <1>3, <3>1, <3>2 DEF InList, s
  <2>2. ASSUME x \in InList \ {Head(s)}
        PROVE  x \in InList'
    <3>1. PICK i \in 1..Len(s) : x = s[i]
      BY <1>2, <2>2 DEF InList, s
    <3>2. i - 1 \in 1..Len(s) - 1 /\ (i - 1) + 1 = i
      BY <1>1, <2>2, <3>1
    <3>3. s'[i - 1] = x
      BY <1>1, <3>1, <3>2
    <3> QED
      BY <1>2, <3>2, <3>3 DEF InList, s
  <2> QED
    BY <2>1, <2>2
<1>5. ListInv'
  <2>1. ASSUME NEW i \in 1..Len(s) - 1, NEW j \in 1..Len(s) - 1, s'[i] = s'[j]
        PROVE  i = j
    <3>1. i + 1 \in 1..Len(s) /\ j + 1 \in 1..Len(s) /\ s[i + 1] = s[j + 1]
      BY <1>1, <2>1
    <3> QED
      BY <1>3, <3>1
  <2> QED
    BY <1>2, <2>1 DEF ListInv, s
<1>6. Head(s) \in InList /\ Head(s) \in Page
  BY <1>1, <1>2 DEF InList, s
<1> QED
  BY <1>1, <1>4, <1>5, <1>6 DEF s

-----------------------------------------------------------------------------
(* The steps that move no page.                                            *)

Reads(t) == th[t].pc \in {"found", "freq", "clear"}

\* What HoldsInv says of one thread.
Holds(t) ==
  /\ th[t].pc \in {"found", "hit", "conflicted", "freq", "invalidate", "clear"}
       => th[t].e \in Listed
  /\ th[t].pc \in {"found", "conflicted", "freq", "clear", "delay", "refund",
                   "pop"}
       => th[t].p \in Page
  /\ Pops(t) => /\ t = Leader
                /\ delay_free_list # <<>>
                /\ th[t].p = Head(delay_free_list)

\* A step that moves one thread and no page keeps the invariant.
LEMMA QuietStep ==
  ASSUME CacheInv, NEW t \in Thread, Moves(t),
         UNCHANGED <<ptr, delay_free_list, freed, next>>,
         free_page_cnt' \in Int,
         ~Owns(t), ~Owns(t)', Pops(t) <=> Pops(t)',
         Pops(t) => th'[t].p = th[t].p,
         Holds(t)',
         Reads(t)' => \/ th'[t].p \in Cached
                      \/ Reads(t) /\ th'[t].p = th[t].p
                           /\ (th'[t].pc = "clear" \/ th[t].pc # "clear")
  PROVE  CacheInv'
<1>t. TypeOK /\ HoldsInv /\ OwnInv /\ ListInv /\ PlaceInv /\ NoUseAfterFree
  BY DEF CacheInv
<1>1. TypeOK'
  BY <1>t DEF TypeOK, Moves
<1>2. HoldsInv'
  BY <1>t DEF HoldsInv, Holds, Pops, Moves, Listed
<1>3. Own' = Own /\ BeingPopped' = BeingPopped /\ Cached' = Cached
      /\ InList' = InList
  BY OwnSame, PoppedSame DEF Cached, InList
<1>4. PlaceInv'
  BY <1>t, <1>3 DEF PlaceInv
<1>5. ListInv'
  BY <1>t DEF ListInv
<1>6. /\ \A u \in Doing("conflicted") : th[u].p \in Own
      /\ \A u \in Doing("conflicted")' :
           th'[u] = th[u] /\ u \in Doing("conflicted")
      /\ \A u \in Doing("delay")' : th'[u] = th[u] /\ u \in Doing("delay")
  BY DEF Own, Doing, Moves, Owns
<1>7. \A u \in Cached : u \notin Own /\ u < next
  BY <1>t DEF PlaceInv, TypeOK
<1>8. OwnInv'
  <2>1. \A u, v \in Doing("conflicted")' \cup Doing("delay")' :
          th'[u].p = th'[v].p => u = v
    BY <1>t, <1>6 DEF OwnInv
  <2>2. ASSUME NEW u \in Thread, Reads(u)'
        PROVE  /\ \A v \in Doing("conflicted")' : th'[u].p # th'[v].p
               /\ th'[u].p < next
    BY <1>t, <1>6, <1>7, <2>2 DEF OwnInv, Reads, Doing, Moves
  <2> QED
    BY <2>1, <2>2 DEF OwnInv, Reads, Doing
<1>9. NoUseAfterFree'
  <2>1. ASSUME NEW u \in Thread, th'[u].pc \in {"found", "freq"}, Grace
        PROVE  th'[u].p \notin freed
    <3>1. CASE u = t
      BY <1>t, <2>1, <3>1 DEF NoUseAfterFree, Reads, Doing, PlaceInv
    <3>2. CASE u # t
      BY <1>t, <2>1, <3>2 DEF NoUseAfterFree, Doing, Moves
    <3> QED
      BY <3>1, <3>2
  <2> QED
    BY <2>1 DEF NoUseAfterFree, Doing
<1> QED
  BY <1>1, <1>2, <1>4, <1>5, <1>8, <1>9 DEF CacheInv

\* What a listed entry points to is cached.
LEMMA CachedPage ==
  ASSUME TypeOK, NEW e \in Listed, ptr[e] # Null
  PROVE  ptr[e] \in Page /\ ptr[e] \in Cached
BY DEF TypeOK, Listed, Cached

\* The steps that move no page.
LEMMA QuietSteps ==
  ASSUME CacheInv, NEW t \in Thread,
         \/ \E k \in Key : LoadEntry(t, k)
         \/ FinishSearch(t) \/ SearchFails(t) \/ UseHit(t) \/ CountPage(t)
         \/ PickVictim(t) \/ TakeVictim(t) \/ LoadPtr(t) \/ Refund(t)
         \/ ClearPtr(t) /\ ~StillThere(t)
  PROVE  CacheInv'
<1> USE DEF Places, At
<1>t. TypeOK /\ HoldsInv
  BY DEF CacheInv
<1>h. Holds(t)
  BY <1>t DEF HoldsInv, Holds, Pops
<1>f. free_page_cnt \in Int
  BY <1>t DEF TypeOK
<1>1. ASSUME NEW k \in Key, LoadEntry(t, k)
      PROVE  CacheInv'
  <2>1. PICK e \in find_entry(k) :
          ptr[e] # Null /\ Become(t, "found", e, ptr[e])
    BY <1>1 DEF LoadEntry
  <2>2. e \in Listed /\ e \in PageRange
    BY DEF find_entry, Listed
  <2>3. ptr[e] \in Page /\ ptr[e] \in Cached
    BY <1>t, <2>1, <2>2, CachedPage
  <2>4. Moves(t) /\ th'[t].pc = "found" /\ th'[t].e = e /\ th'[t].p = ptr[e]
    BY <1>t, <2>1, <2>2, <2>3, BecomeMoves
  <2>5. Listed' = Listed
    BY <1>1 DEF LoadEntry, Listed
  <2>6. Holds(t)' /\ ~Owns(t) /\ ~Owns(t)' /\ ~Pops(t) /\ ~Pops(t)'
    BY <1>1, <2>2, <2>3, <2>4, <2>5 DEF Holds, Owns, Pops, LoadEntry
  <2> QED
    BY <1>1, <1>f, <2>3, <2>4, <2>6, QuietStep DEF LoadEntry
<1>2. ASSUME FinishSearch(t)
      PROVE  CacheInv'
  <2>1. Moves(t) /\ th'[t].pc = "hit" /\ th'[t].e = th[t].e
    BY <1>t, <1>2, GotoMoves DEF FinishSearch
  <2>2. Listed' = Listed
    BY <1>2 DEF FinishSearch, Listed
  <2> QED
    BY <1>h, <1>f, <1>2, <2>1, <2>2, QuietStep
       DEF FinishSearch, Holds, Owns, Pops, Reads
<1>3. ASSUME SearchFails(t)
      PROVE  CacheInv'
  <2>1. Moves(t) /\ th'[t].pc = "idle"
    BY <1>t, <1>3, BecomeMoves DEF SearchFails
  <2> QED
    BY <1>f, <1>3, <2>1, QuietStep DEF SearchFails, Holds, Owns, Pops, Reads
<1>4. ASSUME UseHit(t)
      PROVE  CacheInv'
  <2>1. th[t].e \in PageRange /\ th[t].e \in Listed /\ Listed' = Listed
    BY <1>h, <1>4 DEF UseHit, Holds, Listed
  <2>2. /\ Moves(t)
        /\ \/ th'[t].pc = "idle"
           \/ th'[t].pc = "invalidate" /\ th'[t].e = th[t].e
    <3>1. \/ Become(t, "idle", Null, Null)
          \/ Become(t, "invalidate", th[t].e, Null)
      BY <1>4 DEF UseHit
    <3>2. CASE Become(t, "idle", Null, Null)
      BY <1>t, <3>2, BecomeMoves
    <3>3. CASE Become(t, "invalidate", th[t].e, Null)
      BY <1>t, <2>1, <3>3, BecomeMoves
    <3> QED
      BY <3>1, <3>2, <3>3
  <2> QED
    BY <1>f, <1>4, <2>1, <2>2, QuietStep DEF UseHit, Holds, Owns, Pops, Reads
<1>5. ASSUME CountPage(t)
      PROVE  CacheInv'
  <2>1. Moves(t) /\ th'[t].pc \in {"evict", "idle"}
    BY <1>t, <1>5, GotoMoves DEF CountPage
  <2>2. free_page_cnt' \in Int
    BY <1>f, <1>5 DEF CountPage, Charge
  <2> QED
    BY <1>5, <2>1, <2>2, QuietStep DEF CountPage, Holds, Owns, Pops, Reads
<1>6. ASSUME PickVictim(t)
      PROVE  CacheInv'
  <2>1. PICK e \in Listed : ptr[e] # Null /\ Become(t, "freq", e, ptr[e])
    BY <1>6 DEF PickVictim
  <2>2. e \in PageRange
    BY DEF Listed
  <2>3. ptr[e] \in Page /\ ptr[e] \in Cached
    BY <1>t, <2>1, CachedPage
  <2>4. Moves(t) /\ th'[t].pc = "freq" /\ th'[t].e = e /\ th'[t].p = ptr[e]
    BY <1>t, <2>1, <2>2, <2>3, BecomeMoves
  <2>5. Listed' = Listed
    BY <1>6 DEF PickVictim, Listed
  <2>6. Holds(t)' /\ ~Owns(t) /\ ~Owns(t)' /\ ~Pops(t) /\ ~Pops(t)'
    BY <1>6, <2>3, <2>4, <2>5 DEF Holds, Owns, Pops, PickVictim
  <2> QED
    BY <1>6, <1>f, <2>3, <2>4, <2>6, QuietStep DEF PickVictim
<1>7. ASSUME TakeVictim(t)
      PROVE  CacheInv'
  <2>1. th[t].e \in PageRange /\ th[t].e \in Listed /\ Listed' = Listed
    BY <1>h, <1>7 DEF TakeVictim, Holds, Listed
  <2>2. /\ Moves(t)
        /\ \/ th'[t].pc = "evict"
           \/ th'[t].pc = "invalidate" /\ th'[t].e = th[t].e
    <3>1. \/ Become(t, "evict", Null, Null)
          \/ Become(t, "invalidate", th[t].e, Null)
      BY <1>7 DEF TakeVictim
    <3>2. CASE Become(t, "evict", Null, Null)
      BY <1>t, <3>2, BecomeMoves
    <3>3. CASE Become(t, "invalidate", th[t].e, Null)
      BY <1>t, <2>1, <3>3, BecomeMoves
    <3> QED
      BY <3>1, <3>2, <3>3
  <2> QED
    BY <1>f, <1>7, <2>1, <2>2, QuietStep
       DEF TakeVictim, Holds, Owns, Pops, Reads
<1>8. ASSUME LoadPtr(t)
      PROVE  CacheInv'
  <2>1. th[t].e \in PageRange /\ th[t].e \in Listed /\ Listed' = Listed
    BY <1>h, <1>8 DEF LoadPtr, Holds, Listed
  <2>2. CASE AlreadyClear(ptr[th[t].e])
    <3>1. Moves(t) /\ th'[t].pc = "idle"
      BY <1>t, <1>8, <2>2, BecomeMoves DEF LoadPtr
    <3> QED
      BY <1>f, <1>8, <3>1, QuietStep DEF LoadPtr, Holds, Owns, Pops, Reads
  <2>3. CASE ~AlreadyClear(ptr[th[t].e])
    <3>1. ptr[th[t].e] \in Page /\ ptr[th[t].e] \in Cached
      BY <1>t, <2>1, <2>3, CachedPage DEF AlreadyClear
    <3>2. /\ Moves(t) /\ th'[t].pc = "clear" /\ th'[t].e = th[t].e
          /\ th'[t].p = ptr[th[t].e]
      BY <1>t, <1>8, <2>1, <2>3, <3>1, BecomeMoves DEF LoadPtr
    <3> QED
      BY <1>f, <1>8, <2>1, <3>1, <3>2, QuietStep
         DEF LoadPtr, Holds, Owns, Pops, Reads
  <2> QED
    BY <2>2, <2>3
<1>9. ASSUME Refund(t)
      PROVE  CacheInv'
  <2>1. Moves(t) /\ th'[t].pc = "pop" /\ th'[t].p = th[t].p
    BY <1>t, <1>9, GotoMoves DEF Refund
  <2>2. free_page_cnt' \in Int
    BY <1>f, <1>9 DEF Refund
  <2> QED
    BY <1>h, <1>9, <2>1, <2>2, QuietStep DEF Refund, Holds, Owns, Pops, Reads
<1>10. ASSUME ClearPtr(t), ~StillThere(t)
       PROVE  CacheInv'
  <2>1. Moves(t) /\ th'[t].pc = "idle"
    BY <1>t, <1>10, BecomeMoves DEF ClearPtr
  <2> QED
    BY <1>f, <1>10, <2>1, QuietStep DEF ClearPtr, Holds, Owns, Pops, Reads
<1> QED
  BY <1>1, <1>2, <1>3, <1>4, <1>5, <1>6, <1>7, <1>8, <1>9, <1>10

-----------------------------------------------------------------------------
(* The steps that move a page.                                             *)

\* HoldsInv of the others outlasts a step that lists ranges at most and keeps
\* the head of the list while it is being freed.
LEMMA OthersHold ==
  ASSUME CacheInv, NEW t \in Thread, Moves(t), Listed \subseteq Listed',
         Holds(t)',
         \A u \in Thread \ {t} : Pops(u) =>
           /\ delay_free_list' # <<>>
           /\ Head(delay_free_list') = Head(delay_free_list)
  PROVE  HoldsInv'
<1>1. ASSUME NEW u \in Thread
      PROVE  Holds(u)'
  <2>1. CASE u = t
    BY <2>1
  <2>2. CASE u # t
    <3>1. th'[u] = th[u] /\ Holds(u)
      BY <2>2 DEF Moves, CacheInv, HoldsInv, Holds, Pops
    <3> QED
      BY <2>2, <3>1 DEF Holds, Pops
  <2> QED
    BY <2>1, <2>2
<1> QED
  BY <1>1 DEF HoldsInv, Holds, Pops

\* OwnInv, one thread having moved.
LEMMA OwnStep ==
  ASSUME CacheInv, NEW t \in Thread, Moves(t), next' \in Int, next <= next',
         ~Reads(t)',
         Owns(t)' =>
           th'[t].p \notin {th[u].p : u \in {v \in Thread \ {t} : Owns(v)}},
         th'[t].pc = "conflicted" =>
           th'[t].p \notin {th[u].p : u \in {v \in Thread \ {t} : Reads(v)}}
  PROVE  OwnInv'
<1>1. \A u \in Thread \ {t} : th'[u] = th[u]
  BY DEF Moves
<1>2. /\ \A u, v \in Thread : Owns(u) /\ Owns(v) /\ th[u].p = th[v].p => u = v
      /\ \A u, v \in Thread :
           Reads(u) /\ th[v].pc = "conflicted" => th[u].p # th[v].p
      /\ \A u \in Thread : Reads(u) => th[u].p < next
  BY DEF CacheInv, OwnInv, Doing, Owns, Reads
<1>3. \A u \in Thread : Reads(u) => th[u].p \in Int
  BY DEF CacheInv, HoldsInv, Reads, Page
<1>4. next \in Int
  BY DEF CacheInv, TypeOK
<1>5. ASSUME NEW u \in Thread, NEW v \in Thread, Owns(u)', Owns(v)',
             th'[u].p = th'[v].p
      PROVE  u = v
  BY <1>1, <1>2, <1>5 DEF Owns
<1>6. ASSUME NEW u \in Thread, NEW v \in Thread, Reads(u)',
             th'[v].pc = "conflicted"
      PROVE  th'[u].p # th'[v].p
  BY <1>1, <1>2, <1>6 DEF Reads
<1>7. ASSUME NEW u \in Thread, Reads(u)'
      PROVE  th'[u].p < next'
  <2>1. u # t /\ th'[u] = th[u] /\ Reads(u)
    BY <1>1, <1>7 DEF Reads
  <2> QED
    BY <1>2, <1>3, <1>4, <2>1
<1> QED
  BY <1>5, <1>6, <1>7 DEF OwnInv, Doing, Owns, Reads

\* NoUseAfterFree, one thread having moved to a place where it does not read.
LEMMA UseStep ==
  ASSUME CacheInv, NEW t \in Thread, Moves(t), ~Reads(t)',
         Grace => \A u \in Thread \ {t} :
           th[u].pc \in {"found", "freq"} => th[u].p \notin freed' \ freed
  PROVE  NoUseAfterFree'
BY DEF CacheInv, NoUseAfterFree, Moves, Reads, Doing

\* add_to_cache: a copy is made and the range is listed.
LEMMA AddEntryStep ==
  ASSUME CacheInv, NEW t \in Thread, NEW r \in PageRange, AddEntry(t, r)
  PROVE  CacheInv'
<1>t. TypeOK /\ HoldsInv /\ OwnInv /\ ListInv /\ PlaceInv /\ NoUseAfterFree
  BY DEF CacheInv
<1>1. /\ next \in Page /\ next' = next + 1 /\ th[t].pc = "idle"
      /\ UNCHANGED <<free_page_cnt, delay_free_list, freed>>
  BY DEF AddEntry, At
<1>n. next \in Int /\ next' \in 1..MaxPages+1 /\ next >= 1
  BY <1>t, <1>1, CacheAssumption DEF Page
<1>2. next \notin Cached \cup Own \cup InList \cup freed
  BY <1>t, <1>n DEF PlaceInv
<1>3. \A u \in Thread : Reads(u) => th[u].p # next
  BY <1>t, <1>n DEF OwnInv, Reads, Doing, HoldsInv
<1>i. 1..next'-1 = (1..next-1) \cup {next}
  BY <1>1, <1>n
<1>4. CASE ptr[r] = NoNode
  <2>1. ptr' = [ptr EXCEPT ![r] = next] /\ Become(t, "count", Null, Null)
    BY <1>4 DEF AddEntry
  <2>2. Moves(t) /\ th'[t].pc = "count"
    BY <1>t, <2>1, BecomeMoves DEF Places
  <2>3. ~Owns(t) /\ ~Owns(t)' /\ ~Pops(t) /\ ~Pops(t)' /\ ~Reads(t)'
    BY <1>1, <2>2 DEF Owns, Pops, Reads
  <2>4. Cached' = Cached \cup {next}
    BY <1>t, <1>1, <1>4, <2>1, CachedFill
  <2>5. Own' = Own /\ BeingPopped' = BeingPopped /\ InList' = InList
    BY <1>1, <2>2, <2>3, OwnSame, PoppedSame DEF InList
  <2>6. \A s, q \in PageRange : ptr'[s] \in Page /\ ptr'[s] = ptr'[q] => s = q
    <3>1. \A s \in PageRange : ptr'[s] = IF s = r THEN next ELSE ptr[s]
      BY <1>t, <2>1 DEF TypeOK
    <3>2. \A s \in PageRange : ptr[s] # next
      BY <1>1, <1>2, CacheAssumption DEF Cached
    <3> QED
      BY <1>t, <3>1, <3>2 DEF PlaceInv
  <2>7. PlaceInv'
    BY <1>t, <1>1, <1>2, <1>i, <2>4, <2>5, <2>6 DEF PlaceInv
  <2>8. TypeOK'
    BY <1>t, <1>1, <1>n, <2>1, <2>2 DEF TypeOK, Moves
  <2>9. Listed \subseteq Listed'
    BY <1>t, <1>1, <2>1, CacheAssumption DEF TypeOK, Listed
  <2>10. HoldsInv'
    <3>1. Holds(t)'
      BY <2>2, <2>3 DEF Holds
    <3>2. \A u \in Thread \ {t} : Pops(u) => delay_free_list # <<>>
      BY <1>t DEF HoldsInv, Pops
    <3> QED
      BY <1>1, <2>2, <2>9, <3>1, <3>2, OthersHold
  <2>11. OwnInv'
    BY <1>1, <1>n, <2>2, <2>3, OwnStep
  <2>12. ListInv'
    BY <1>t, <1>1 DEF ListInv
  <2>13. NoUseAfterFree'
    BY <1>1, <2>2, <2>3, UseStep
  <2> QED
    BY <2>7, <2>8, <2>10, <2>11, <2>12, <2>13 DEF CacheInv
<1>5. CASE ptr[r] # NoNode
  <2>1. UNCHANGED ptr /\ Become(t, "conflicted", r, next)
    BY <1>5 DEF AddEntry
  <2>2. /\ Moves(t) /\ th'[t].pc = "conflicted" /\ th'[t].e = r
        /\ th'[t].p = next
    BY <1>t, <1>1, <2>1, BecomeMoves DEF Places
  <2>3. ~Owns(t) /\ Owns(t)' /\ ~Pops(t) /\ ~Pops(t)' /\ ~Reads(t)'
    BY <1>1, <2>2 DEF Owns, Pops, Reads
  <2>4. Own' = Own \cup {next}
    BY <2>2, <2>3, OwnTakes
  <2>5. Cached' = Cached /\ BeingPopped' = BeingPopped /\ InList' = InList
    BY <1>1, <2>1, <2>2, <2>3, PoppedSame DEF InList, Cached
  <2>7. PlaceInv'
    BY <1>t, <1>1, <1>2, <1>i, <2>1, <2>4, <2>5 DEF PlaceInv
  <2>8. TypeOK'
    BY <1>t, <1>1, <1>n, <2>1, <2>2 DEF TypeOK, Moves
  <2>9. Listed' = Listed /\ r \in Listed
    BY <1>5, <2>1 DEF Listed
  <2>10. HoldsInv'
    <3>1. Holds(t)'
      BY <1>1, <2>2, <2>3, <2>9 DEF Holds
    <3>2. \A u \in Thread \ {t} : Pops(u) => delay_free_list # <<>>
      BY <1>t DEF HoldsInv, Pops
    <3> QED
      BY <1>1, <2>2, <2>9, <3>1, <3>2, OthersHold
  <2>11. OwnInv'
    <3>1. \A u \in Thread : Owns(u) => th[u].p \in Own
      BY DEF Owns, Own, Doing
    <3> QED
      BY <1>1, <1>2, <1>3, <1>n, <2>2, <2>3, <3>1, OwnStep
  <2>12. ListInv'
    BY <1>t, <1>1 DEF ListInv
  <2>13. NoUseAfterFree'
    BY <1>1, <2>2, <2>3, UseStep
  <2> QED
    BY <2>7, <2>8, <2>10, <2>11, <2>12, <2>13 DEF CacheInv
<1> QED
  BY <1>4, <1>5

\* The conflicted branch: the compare-and-swap on an empty entry.
LEMMA FillEntryStep ==
  ASSUME CacheInv, NEW t \in Thread, FillEntry(t)
  PROVE  CacheInv'
<1>t. TypeOK /\ HoldsInv /\ OwnInv /\ ListInv /\ PlaceInv /\ NoUseAfterFree
  BY DEF CacheInv
<1> DEFINE e == th[t].e
           p == th[t].p
<1>1. /\ th[t].pc = "conflicted" /\ ptr[e] = Null
      /\ ptr' = [ptr EXCEPT ![e] = p] /\ Become(t, "count", Null, Null)
      /\ UNCHANGED <<free_page_cnt, delay_free_list, freed, next>>
  BY DEF FillEntry, At
<1>2. e \in Listed /\ e \in PageRange /\ p \in Page
  BY <1>t, <1>1 DEF HoldsInv, Listed
<1>3. Moves(t) /\ th'[t].pc = "count"
  BY <1>t, <1>1, BecomeMoves DEF Places
<1>4. Owns(t) /\ ~Owns(t)' /\ ~Pops(t) /\ ~Pops(t)' /\ ~Reads(t)'
  BY <1>1, <1>3 DEF Owns, Pops, Reads
<1> HIDE DEF e
<1>5. Own' = Own \ {p} /\ p \in Own
  BY <1>t, <1>3, <1>4, OwnGives
<1> HIDE DEF p
<1>6. Cached' = Cached \cup {p}
  BY <1>t, <1>1, <1>2, CachedFill
<1>7. BeingPopped' = BeingPopped /\ InList' = InList
  BY <1>1, <1>3, <1>4, PoppedSame DEF InList
<1>8. \A s, q \in PageRange : ptr'[s] \in Page /\ ptr'[s] = ptr'[q] => s = q
  <2>1. \A s \in PageRange : ptr'[s] = IF s = e THEN p ELSE ptr[s]
    BY <1>t, <1>1 DEF TypeOK
  <2>2. \A s \in PageRange : ptr[s] # p
    BY <1>t, <1>2, <1>5, CacheAssumption DEF Cached, PlaceInv
  <2> QED
    BY <1>t, <2>1, <2>2 DEF PlaceInv
<1>9. PlaceInv'
  BY <1>t, <1>1, <1>5, <1>6, <1>7, <1>8 DEF PlaceInv
<1>10. TypeOK'
  BY <1>t, <1>1, <1>2, <1>3 DEF TypeOK, Moves
<1>11. Listed \subseteq Listed'
  BY <1>t, <1>1, <1>2, CacheAssumption DEF TypeOK, Listed
<1>12. HoldsInv'
  <2>1. Holds(t)'
    BY <1>3, <1>4 DEF Holds
  <2>2. \A u \in Thread \ {t} : Pops(u) => delay_free_list # <<>>
    BY <1>t DEF HoldsInv, Pops
  <2> QED
    BY <1>1, <1>3, <1>11, <2>1, <2>2, OthersHold
<1>13. OwnInv'
  BY <1>t, <1>1, <1>3, <1>4, OwnStep DEF TypeOK
<1>14. ListInv'
  BY <1>t, <1>1 DEF ListInv
<1>15. NoUseAfterFree'
  BY <1>1, <1>3, <1>4, UseStep
<1> QED
  BY <1>9, <1>10, <1>12, <1>13, <1>14, <1>15 DEF CacheInv

\* The conflicted branch: the copy is freed, the entry was taken.
LEMMA DropCopyStep ==
  ASSUME CacheInv, NEW t \in Thread, DropCopy(t)
  PROVE  CacheInv'
<1>t. TypeOK /\ HoldsInv /\ OwnInv /\ ListInv /\ PlaceInv /\ NoUseAfterFree
  BY DEF CacheInv
<1> DEFINE p == th[t].p
<1>1. /\ th[t].pc = "conflicted" /\ freed' = freed \cup {p}
      /\ Become(t, "idle", Null, Null)
      /\ UNCHANGED <<ptr, free_page_cnt, delay_free_list, next>>
  BY DEF DropCopy, At
<1>2. p \in Page
  BY <1>t, <1>1 DEF HoldsInv
<1>3. Moves(t) /\ th'[t].pc = "idle"
  BY <1>t, <1>1, BecomeMoves DEF Places
<1>4. Owns(t) /\ ~Owns(t)' /\ ~Pops(t) /\ ~Pops(t)' /\ ~Reads(t)'
  BY <1>1, <1>3 DEF Owns, Pops, Reads
<1>5. Own' = Own \ {p} /\ p \in Own
  BY <1>t, <1>3, <1>4, OwnGives
<1>6. BeingPopped' = BeingPopped /\ InList' = InList /\ Cached' = Cached
  BY <1>1, <1>3, <1>4, PoppedSame DEF InList, Cached
<1>7. \A u \in Thread : Reads(u) => th[u].p # p
  BY <1>t, <1>1 DEF OwnInv, Reads, Doing
<1> HIDE DEF p
<1>8. PlaceInv'
  BY <1>t, <1>1, <1>5, <1>6 DEF PlaceInv
<1>9. TypeOK'
  BY <1>t, <1>1, <1>2, <1>3 DEF TypeOK, Moves
<1>10. HoldsInv'
  <2>1. Holds(t)'
    BY <1>3, <1>4 DEF Holds
  <2>2. \A u \in Thread \ {t} : Pops(u) => delay_free_list # <<>>
    BY <1>t DEF HoldsInv, Pops
  <2>3. Listed' = Listed
    BY <1>1 DEF Listed
  <2> QED
    BY <1>1, <1>3, <2>1, <2>2, <2>3, OthersHold
<1>11. OwnInv'
  BY <1>t, <1>1, <1>3, <1>4, OwnStep DEF TypeOK
<1>12. ListInv'
  BY <1>t, <1>1 DEF ListInv
<1>13. NoUseAfterFree'
  BY <1>1, <1>3, <1>4, <1>7, UseStep DEF Reads
<1> QED
  BY <1>8, <1>9, <1>10, <1>11, <1>12, <1>13 DEF CacheInv

\* invalidate: the compare-and-swap that empties the entry succeeds.
LEMMA ClearPtrStep ==
  ASSUME CacheInv, NEW t \in Thread, ClearPtr(t), StillThere(t)
  PROVE  CacheInv'
<1>t. TypeOK /\ HoldsInv /\ OwnInv /\ ListInv /\ PlaceInv /\ NoUseAfterFree
  BY DEF CacheInv
<1> DEFINE e == th[t].e
           p == th[t].p
<1>1. /\ th[t].pc = "clear" /\ ptr[e] = p
      /\ ptr' = [ptr EXCEPT ![e] = Null] /\ Become(t, "delay", Null, p)
      /\ UNCHANGED <<free_page_cnt, delay_free_list, freed, next>>
  BY DEF ClearPtr, StillThere, At
<1>2. e \in Listed /\ e \in PageRange /\ p \in Page
  BY <1>t, <1>1 DEF HoldsInv, Listed
<1>3. Moves(t) /\ th'[t].pc = "delay" /\ th'[t].p = p
  BY <1>t, <1>1, <1>2, BecomeMoves DEF Places
<1>4. ~Owns(t) /\ Owns(t)' /\ ~Pops(t) /\ ~Pops(t)' /\ ~Reads(t)'
  BY <1>1, <1>3 DEF Owns, Pops, Reads
<1> HIDE DEF e
<1>5. Own' = Own \cup {p}
  BY <1>3, <1>4, OwnTakes
<1> HIDE DEF p
<1>6. Cached' = Cached \ {p} /\ p \in Cached
  BY <1>t, <1>1, <1>2, CachedClear
<1>7. BeingPopped' = BeingPopped /\ InList' = InList
  BY <1>1, <1>3, <1>4, PoppedSame DEF InList
<1>8. \A s, q \in PageRange : ptr'[s] \in Page /\ ptr'[s] = ptr'[q] => s = q
  <2>1. \A s \in PageRange : ptr'[s] = IF s = e THEN Null ELSE ptr[s]
    BY <1>t, <1>1 DEF TypeOK
  <2> QED
    BY <1>t, <2>1, CacheAssumption DEF PlaceInv
<1>9. PlaceInv'
  BY <1>t, <1>1, <1>5, <1>6, <1>7, <1>8 DEF PlaceInv
<1>10. TypeOK'
  BY <1>t, <1>1, <1>2, <1>3 DEF TypeOK, Moves
<1>11. Listed \subseteq Listed'
  BY <1>t, <1>1, <1>2, CacheAssumption DEF TypeOK, Listed
<1>12. HoldsInv'
  <2>1. Holds(t)'
    BY <1>2, <1>3, <1>4 DEF Holds
  <2>2. \A u \in Thread \ {t} : Pops(u) => delay_free_list # <<>>
    BY <1>t DEF HoldsInv, Pops
  <2> QED
    BY <1>1, <1>3, <1>11, <2>1, <2>2, OthersHold
<1>13. OwnInv'
  <2>1. \A u \in Thread : Owns(u) => th[u].p \in Own
    BY DEF Owns, Own, Doing
  <2>2. p \notin Own
    BY <1>t, <1>6 DEF PlaceInv
  <2> QED
    BY <1>t, <1>1, <1>3, <1>4, <2>1, <2>2, OwnStep DEF TypeOK
<1>14. ListInv'
  BY <1>t, <1>1 DEF ListInv
<1>15. NoUseAfterFree'
  BY <1>1, <1>3, <1>4, UseStep
<1> QED
  BY <1>9, <1>10, <1>12, <1>13, <1>14, <1>15 DEF CacheInv

\* invalidate: the page goes to the delay_free_list.
LEMMA DelayFreeStep ==
  ASSUME CacheInv, NEW t \in Thread, DelayFree(t)
  PROVE  CacheInv'
<1>t. TypeOK /\ HoldsInv /\ OwnInv /\ ListInv /\ PlaceInv /\ NoUseAfterFree
  BY DEF CacheInv
<1> DEFINE p == th[t].p
<1>1. /\ th[t].pc = "delay" /\ delay_free_list' = Append(delay_free_list, p)
      /\ Become(t, "idle", Null, Null)
      /\ UNCHANGED <<ptr, free_page_cnt, freed, next>>
  BY DEF DelayFree, At
<1>2. p \in Page
  BY <1>t, <1>1 DEF HoldsInv
<1>3. Moves(t) /\ th'[t].pc = "idle"
  BY <1>t, <1>1, BecomeMoves DEF Places
<1>4. Owns(t) /\ ~Owns(t)' /\ ~Pops(t) /\ ~Pops(t)' /\ ~Reads(t)'
  BY <1>1, <1>3 DEF Owns, Pops, Reads
<1>5. Own' = Own \ {p} /\ p \in Own
  BY <1>t, <1>3, <1>4, OwnGives
<1> HIDE DEF p
<1>6. BeingPopped' = BeingPopped /\ Cached' = Cached
  BY <1>1, <1>3, <1>4, PoppedSame DEF Cached
<1>7. p \notin InList /\ p \notin freed
  BY <1>t, <1>5 DEF PlaceInv
<1>8. /\ InList' = InList \cup {p} /\ delay_free_list' \in Seq(Page)
      /\ ListInv'
      /\ delay_free_list # <<>>
           => Head(delay_free_list') = Head(delay_free_list)
  BY <1>t, <1>1, <1>2, <1>7, ListAppend
<1>9. PlaceInv'
  BY <1>t, <1>1, <1>5, <1>6, <1>7, <1>8 DEF PlaceInv
<1>10. TypeOK'
  BY <1>t, <1>1, <1>3, <1>8 DEF TypeOK, Moves
<1>11. HoldsInv'
  <2>1. Holds(t)'
    BY <1>3, <1>4 DEF Holds
  <2>2. \A u \in Thread \ {t} : Pops(u) => delay_free_list # <<>>
    BY <1>t DEF HoldsInv, Pops
  <2>3. Listed' = Listed
    BY <1>1 DEF Listed
  <2>4. delay_free_list' # <<>>
    BY <1>t, <1>1, <1>2 DEF TypeOK
  <2> QED
    BY <1>3, <1>8, <2>1, <2>2, <2>3, <2>4, OthersHold
<1>12. OwnInv'
  BY <1>t, <1>1, <1>3, <1>4, OwnStep DEF TypeOK
<1>13. NoUseAfterFree'
  BY <1>1, <1>3, <1>4, UseStep
<1> QED
  BY <1>8, <1>9, <1>10, <1>11, <1>12, <1>13 DEF CacheInv

\* The leader frees the head of the delay_free_list.
LEMMA FreePageStep ==
  ASSUME CacheInv, NEW t \in Thread, FreePage(t)
  PROVE  CacheInv'
<1>t. TypeOK /\ HoldsInv /\ OwnInv /\ ListInv /\ PlaceInv /\ NoUseAfterFree
  BY DEF CacheInv
<1> DEFINE p == Head(delay_free_list)
<1>1. /\ t = Leader /\ th[t].pc = "idle" /\ delay_free_list # <<>>
      /\ OldEnough(p) /\ freed' = freed \cup {p}
      /\ Become(t, "refund", Null, p)
      /\ UNCHANGED <<ptr, free_page_cnt, delay_free_list, next>>
  BY DEF FreePage, At
<1>2. p \in Page /\ p \in InList
  BY <1>t, <1>1 DEF TypeOK, InList
<1>3. Moves(t) /\ th'[t].pc = "refund" /\ th'[t].p = p
  BY <1>t, <1>1, <1>2, BecomeMoves DEF Places
<1>4. ~Owns(t) /\ ~Owns(t)' /\ ~Pops(t) /\ Pops(t)' /\ ~Reads(t)'
  BY <1>1, <1>3 DEF Owns, Pops, Reads
<1>5. BeingPopped = {} /\ BeingPopped' = {p}
  BY <1>t, <1>1, <1>3, <1>4 DEF BeingPopped, Pops, Doing, Moves, HoldsInv
<1> HIDE DEF p
<1>6. Own' = Own /\ InList' = InList /\ Cached' = Cached
  BY <1>1, <1>3, <1>4, OwnSame DEF InList, Cached
<1>8. PlaceInv'
  BY <1>t, <1>1, <1>2, <1>5, <1>6 DEF PlaceInv
<1>9. TypeOK'
  BY <1>t, <1>1, <1>2, <1>3 DEF TypeOK, Moves
<1>10. HoldsInv'
  <2>1. Holds(t)'
    BY <1>1, <1>2, <1>3, <1>4 DEF Holds, p
  <2>2. \A u \in Thread \ {t} : Pops(u) => delay_free_list # <<>>
    BY <1>t DEF HoldsInv, Pops
  <2>3. Listed' = Listed
    BY <1>1 DEF Listed
  <2> QED
    BY <1>1, <1>3, <2>1, <2>2, <2>3, OthersHold
<1>11. OwnInv'
  BY <1>t, <1>1, <1>3, <1>4, OwnStep DEF TypeOK
<1>12. ListInv'
  BY <1>t, <1>1 DEF ListInv
<1>13. NoUseAfterFree'
  BY <1>1, <1>3, <1>4, UseStep DEF OldEnough
<1> QED
  BY <1>8, <1>9, <1>10, <1>11, <1>12, <1>13 DEF CacheInv

\* The leader takes it off the list.
LEMMA PopFreedStep ==
  ASSUME CacheInv, NEW t \in Thread, PopFreed(t)
  PROVE  CacheInv'
<1>t. TypeOK /\ HoldsInv /\ OwnInv /\ ListInv /\ PlaceInv /\ NoUseAfterFree
  BY DEF CacheInv
<1> DEFINE p == Head(delay_free_list)
<1>1. /\ th[t].pc = "pop" /\ delay_free_list' = Tail(delay_free_list)
      /\ Become(t, "idle", Null, Null)
      /\ UNCHANGED <<ptr, free_page_cnt, freed, next>>
  BY DEF PopFreed, At
<1>2. t = Leader /\ delay_free_list # <<>> /\ th[t].p = p
  BY <1>t, <1>1 DEF HoldsInv
<1>3. Moves(t) /\ th'[t].pc = "idle"
  BY <1>t, <1>1, BecomeMoves DEF Places
<1>4. ~Owns(t) /\ ~Owns(t)' /\ Pops(t) /\ ~Pops(t)' /\ ~Reads(t)'
  BY <1>1, <1>3 DEF Owns, Pops, Reads
<1>5. BeingPopped = {p} /\ BeingPopped' = {}
  BY <1>t, <1>2, <1>3, <1>4 DEF BeingPopped, Pops, Doing, Moves, HoldsInv
<1>6. Own' = Own /\ Cached' = Cached
  BY <1>1, <1>3, <1>4, OwnSame DEF Cached
<1>7. /\ InList' = InList \ {p} /\ delay_free_list' \in Seq(Page)
      /\ ListInv'
  BY <1>t, <1>1, <1>2, ListTail
<1> HIDE DEF p
<1>8. PlaceInv'
  BY <1>t, <1>1, <1>5, <1>6, <1>7 DEF PlaceInv
<1>9. TypeOK'
  BY <1>t, <1>1, <1>3, <1>7 DEF TypeOK, Moves
<1>10. HoldsInv'
  <2>1. Holds(t)'
    BY <1>3, <1>4 DEF Holds
  <2>2. \A u \in Thread \ {t} : ~Pops(u)
    BY <1>t, <1>2 DEF HoldsInv, Pops
  <2>3. Listed' = Listed
    BY <1>1 DEF Listed
  <2> QED
    BY <1>3, <2>1, <2>2, <2>3, OthersHold
<1>11. OwnInv'
  BY <1>t, <1>1, <1>3, <1>4, OwnStep DEF TypeOK
<1>12. NoUseAfterFree'
  BY <1>1, <1>3, <1>4, UseStep
<1> QED
  BY <1>7, <1>8, <1>9, <1>10, <1>11, <1>12 DEF CacheInv

-----------------------------------------------------------------------------
(* The invariant.                                                          *)

\* The initial states satisfy the invariant.
LEMMA CacheInit == Init => CacheInv
<1> SUFFICES ASSUME Init PROVE CacheInv
  OBVIOUS
<1>1. /\ ptr = [r \in PageRange |-> NoNode] /\ free_page_cnt = all_page_cnt
      /\ delay_free_list = <<>> /\ freed = {} /\ next = 1
      /\ \A t \in Thread : th[t].pc = "idle"
  BY DEF Init, Idle
<1>2. TypeOK
  BY CacheAssumption DEF Init, Idle, TypeOK, Places
<1>3. Cached = {} /\ Own = {} /\ InList = {} /\ BeingPopped = {}
  BY <1>1 DEF Cached, Own, InList, BeingPopped, Doing
<1>4. PlaceInv
  BY <1>1, <1>3, CacheAssumption DEF PlaceInv
<1>5. HoldsInv /\ OwnInv /\ ListInv /\ NoUseAfterFree
  BY <1>1 DEF HoldsInv, OwnInv, ListInv, NoUseAfterFree, Doing
<1> QED
  BY <1>2, <1>4, <1>5 DEF CacheInv

\* Nothing happens.
LEMMA CacheStutter ==
  ASSUME CacheInv, UNCHANGED vars
  PROVE  CacheInv'
<1>1. /\ ptr' = ptr /\ free_page_cnt' = free_page_cnt /\ freed' = freed
      /\ delay_free_list' = delay_free_list /\ next' = next /\ th' = th
  BY DEF vars
<1>2. TypeOK' /\ HoldsInv' /\ ListInv'
  BY <1>1 DEF CacheInv, TypeOK, HoldsInv, ListInv, Listed
<1>3. OwnInv' /\ NoUseAfterFree'
  BY <1>1 DEF CacheInv, OwnInv, NoUseAfterFree, Doing
<1>4. PlaceInv'
  BY <1>1 DEF CacheInv, PlaceInv, Cached, Own, InList, BeingPopped, Doing
<1> QED
  BY <1>2, <1>3, <1>4 DEF CacheInv

\* The invariant is inductive.
LEMMA CacheNext ==
  ASSUME CacheInv, [Next]_vars
  PROVE  CacheInv'
<1>1. ASSUME NEW t \in Thread, Step(t)
      PROVE  CacheInv'
  <2>1. CASE \E r \in PageRange : AddEntry(t, r)
    BY <2>1, AddEntryStep
  <2>2. CASE \/ \E k \in Key : LoadEntry(t, k)
             \/ FinishSearch(t) \/ SearchFails(t) \/ UseHit(t)
             \/ CountPage(t) \/ PickVictim(t) \/ TakeVictim(t) \/ LoadPtr(t)
             \/ Refund(t)
             \/ ClearPtr(t) /\ ~StillThere(t)
    BY <2>2, QuietSteps
  <2>3. CASE ClearPtr(t) /\ StillThere(t)
    BY <2>3, ClearPtrStep
  <2>4. CASE RetryVictim(t)
    BY <2>4, CacheStutter DEF RetryVictim
  <2>5. CASE FillEntry(t)
    BY <2>5, FillEntryStep
  <2>6. CASE DropCopy(t)
    BY <2>6, DropCopyStep
  <2>7. CASE DelayFree(t)
    BY <2>7, DelayFreeStep
  <2>8. CASE FreePage(t)
    BY <2>8, FreePageStep
  <2>9. CASE PopFreed(t)
    BY <2>9, PopFreedStep
  <2> QED
    BY <1>1, <2>1, <2>2, <2>3, <2>4, <2>5, <2>6, <2>7, <2>8, <2>9 DEF Step
<1>2. CASE Finished
  BY <1>2, CacheStutter DEF Finished
<1> QED
  BY <1>1, <1>2, CacheStutter DEF Next

\* Pages, threads and the list stay consistent: the invariant behind the
\* others.
THEOREM CacheInvHolds == Spec => []CacheInv
<1>1. Init => CacheInv
  BY CacheInit
<1>2. CacheInv /\ [Next]_vars => CacheInv'
  BY CacheNext
<1> QED
  BY <1>1, <1>2, PTL DEF Spec

\* The list holds each page once.
LEMMA ListCount ==
  ASSUME TypeOK, ListInv
  PROVE  Cardinality(InList) = Len(delay_free_list)
<1> DEFINE s == delay_free_list
           n == Len(s)
<1>1. n \in Nat /\ DOMAIN s = 1..n /\ InList = {s[i] : i \in 1..n}
  BY DEF TypeOK, InList
<1>2. [i \in 1..n |-> s[i]] \in Surjection(1..n, InList)
  BY <1>1 DEF Surjection
<1>3. [i \in 1..n |-> s[i]] \in Injection(1..n, InList)
  BY <1>1 DEF Injection, ListInv, IsInjective
<1>4. IsFiniteSet(1..n) /\ Cardinality(1..n) = n
  <2>1. IsFiniteSet(1..n)
    BY <1>1, FS_Interval
  <2>2. Cardinality(1..n) = IF 1 > n THEN 0 ELSE n - 1 + 1
    BY <1>1, FS_Interval, SMTT(30)
  <2> QED
    BY <1>1, <2>1, <2>2
<1> QED
  BY <1>2, <1>3, <1>4, FS_Surjection

\* add_to_cache, invalidate and the delayed free hand pages over without
\* losing or doubling one.
THEOREM OnePlaceHolds == Spec => []OnePlace
<1>1. CacheInv => OnePlace
  BY ListCount DEF CacheInv, PlaceInv, OnePlace
<1> QED
  BY <1>1, CacheInvHolds, PTL

\* With the delay of 30000 cycles respected, searches and evictions read no
\* page that free was called for.
THEOREM NoFreedPageIsRead == Spec => []NoUseAfterFree
<1>1. CacheInv => NoUseAfterFree
  BY DEF CacheInv
<1> QED
  BY <1>1, CacheInvHolds, PTL

-----------------------------------------------------------------------------
(* The budget.                                                             *)

\* A thread that moves counts where it comes to and not where it was.
LEMMA DoingCount ==
  ASSUME NEW t \in Thread, \A u \in Thread \ {t} : th'[u].pc = th[u].pc, NEW l
  PROVE  /\ Cardinality(Doing(l)) \in Nat
         /\ Cardinality(Doing(l)') =
              Cardinality(Doing(l)) + (IF th'[t].pc = l THEN 1 ELSE 0)
                                    - (IF th[t].pc = l THEN 1 ELSE 0)
<1>1. IsFiniteSet(Doing(l)) /\ IsFiniteSet(Doing(l)')
  BY CacheAssumption, FS_Subset DEF Doing
<1>2. Cardinality(Doing(l)) \in Nat
  BY <1>1, FS_CardinalityType
<1>3. t \in Doing(l) <=> th[t].pc = l
  BY DEF Doing
<1>4. CASE th'[t].pc = l
  <2>1. Doing(l)' = Doing(l) \cup {t}
    BY <1>4 DEF Doing
  <2> QED
    BY <1>1, <1>2, <1>3, <1>4, <2>1, FS_AddElement
<1>5. CASE th'[t].pc # l
  <2>1. Doing(l)' = Doing(l) \ {t}
    BY <1>5 DEF Doing
  <2> QED
    BY <1>1, <1>2, <1>3, <1>5, <2>1, FS_RemoveElement
<1> QED
  BY <1>4, <1>5

\* Thread t moves alone; `cached` pages are listed and `len` put on the list,
\* and free_page_cnt follows, but for the places where a thread is in between.
BudgetMove(t, cached, len) ==
  /\ \A u \in Thread \ {t} : th'[u].pc = th[u].pc
  /\ Cardinality(Cached') = Cardinality(Cached) + cached
  /\ Len(delay_free_list') = Len(delay_free_list) + len
  /\ free_page_cnt' = free_page_cnt - cached - len
       - (IF th'[t].pc = "delay" THEN 1 ELSE 0)
       + (IF th[t].pc = "delay" THEN 1 ELSE 0)
       + (IF th'[t].pc = "count" THEN 1 ELSE 0)
       - (IF th[t].pc = "count" THEN 1 ELSE 0)
       + (IF th'[t].pc = "pop" THEN 1 ELSE 0)
       - (IF th[t].pc = "pop" THEN 1 ELSE 0)

\* The same, the numbers named: BudgetExact follows by arithmetic.
LEMMA ChargedCount ==
  ASSUME NEW t \in Thread, BudgetExact, NEW cached \in Int, NEW len \in Int,
         Cardinality(Cached) \in Int, Len(delay_free_list) \in Int,
         free_page_cnt \in Int, all_page_cnt \in Int,
         BudgetMove(t, cached, len)
  PROVE  BudgetExact'
<1> USE DEF BudgetMove
<1> DEFINE d(l) == (IF th'[t].pc = l THEN 1 ELSE 0)
                   - (IF th[t].pc = l THEN 1 ELSE 0)
           c == Cardinality(Cached)
           n == Len(delay_free_list)
           x == Cardinality(Doing("delay"))
           y == Cardinality(Doing("count"))
           z == Cardinality(Doing("pop"))
           dx == d("delay")
           dy == d("count")
           dz == d("pop")
<1>1. \A l : /\ Cardinality(Doing(l)) \in Nat
             /\ Cardinality(Doing(l)') = Cardinality(Doing(l)) + d(l)
  BY DoingCount
<1>2. /\ Cardinality(Doing("delay")') = x + dx
      /\ Cardinality(Doing("count")') = y + dy
      /\ Cardinality(Doing("pop")') = z + dz
      /\ x \in Int /\ y \in Int /\ z \in Int
  BY <1>1
<1>3. dx \in Int /\ dy \in Int /\ dz \in Int
  OBVIOUS
<1>4. free_page_cnt' = free_page_cnt - cached - len - dx + dy + dz
  OBVIOUS
<1>5. free_page_cnt = all_page_cnt - (c + n + x) + y + z
  BY DEF BudgetExact
<1>6. c \in Int /\ n \in Int /\ Cardinality(Cached') = c + cached
      /\ Len(delay_free_list') = n + len
  OBVIOUS
<1> HIDE DEF d, c, n, x, y, z, dx, dy, dz, BudgetMove
<1>7. free_page_cnt' = all_page_cnt - ((c + cached) + (n + len) + (x + dx))
                         + (y + dy) + (z + dz)
  BY <1>2, <1>3, <1>4, <1>5, <1>6
<1> QED
  BY <1>2, <1>6, <1>7 DEF BudgetExact

\* Both ways to move change one place only.
LEMMA PcMoves ==
  ASSUME TypeOK, NEW t \in Thread, NEW l, NEW e, NEW p,
         Become(t, l, e, p) \/ Goto(t, l)
  PROVE  th'[t].pc = l /\ \A u \in Thread \ {t} : th'[u].pc = th[u].pc
BY DEF TypeOK, Become, Goto

Charged == {"count", "delay", "pop"}

\* A thread moves between places that BudgetExact does not name.
LEMMA BudgetSame ==
  ASSUME BudgetExact, NEW t \in Thread, th[t].pc \notin Charged,
         th'[t].pc \notin Charged,
         \A u \in Thread \ {t} : th'[u].pc = th[u].pc,
         UNCHANGED <<ptr, free_page_cnt, delay_free_list>>
  PROVE  BudgetExact'
<1>1. \A l \in Charged : Doing(l)' = Doing(l)
  BY DEF Doing
<1>2. Cached' = Cached
  BY DEF Cached
<1> QED
  BY <1>1, <1>2 DEF BudgetExact, Charged

\* There are as many cached pages as ranges, at most.
LEMMA CachedFinite ==
  ASSUME TypeOK
  PROVE  IsFiniteSet(Cached) /\ Cardinality(Cached) \in Nat
<1>1. IsFiniteSet(Page)
  BY CacheAssumption, FS_Interval DEF Page
<1>2. IsFiniteSet(Cached)
  BY <1>1, CachedPages, FS_Subset
<1> QED
  BY <1>2, FS_CardinalityType

\* free_page_cnt and the pages charged to it move together.
LEMMA BudgetStep ==
  ASSUME CacheInv, BudgetExact, NEW t \in Thread, Step(t)
  PROVE  BudgetExact'
<1>t. TypeOK /\ HoldsInv /\ PlaceInv
  BY DEF CacheInv
<1>n. /\ Cardinality(Cached) \in Nat /\ IsFiniteSet(Cached)
      /\ free_page_cnt \in Int /\ all_page_cnt \in Int
      /\ Len(delay_free_list) \in Nat
  BY <1>t, CachedFinite, CacheAssumption DEF TypeOK
<1>s. \A l : \A u \in Doing(l) : th[u].pc = l
  BY DEF Doing
<1> USE DEF Charged, At
<1>1. CASE \E k \in Key : LoadEntry(t, k)
  <2>1. PICK e : Become(t, "found", e, ptr[e])
    BY <1>1 DEF LoadEntry
  <2> QED
    BY <1>t, <1>1, <2>1, PcMoves, BudgetSame DEF LoadEntry
<1>2. CASE FinishSearch(t)
  BY <1>t, <1>2, PcMoves, BudgetSame DEF FinishSearch
<1>3. CASE SearchFails(t)
  BY <1>t, <1>3, PcMoves, BudgetSame DEF SearchFails
<1>4. CASE UseHit(t)
  <2>1. PICK l \in {"idle", "invalidate"} :
          Become(t, l, Null, Null) \/ Become(t, l, th[t].e, Null)
    BY <1>4 DEF UseHit
  <2> QED
    BY <1>t, <1>4, <2>1, PcMoves, BudgetSame DEF UseHit
<1>5. CASE \E r \in PageRange : AddEntry(t, r)
  <2>1. PICK r \in PageRange : AddEntry(t, r)
    BY <1>5
  <2>2. CASE ptr[r] = NoNode
    <3>1. /\ next \in Page /\ ptr' = [ptr EXCEPT ![r] = next]
          /\ Become(t, "count", Null, Null) /\ th[t].pc = "idle"
          /\ UNCHANGED <<free_page_cnt, delay_free_list, freed>>
      BY <2>1, <2>2 DEF AddEntry
    <3>2. th'[t].pc = "count" /\ \A u \in Thread \ {t} : th'[u].pc = th[u].pc
      BY <1>t, <3>1, PcMoves
    <3>3. Cached' = Cached \cup {next} /\ next \notin Cached
      <4>1. next \in Int /\ next \notin 1..next-1
        BY <1>t, CacheAssumption DEF TypeOK
      <4>2. Cached' = Cached \cup {next}
        BY <1>t, <2>2, <3>1, CachedFill
      <4> QED
        BY <1>t, <4>1, <4>2 DEF PlaceInv
    <3>4. Cardinality(Cached') = Cardinality(Cached) + 1
      BY <1>n, <3>3, FS_AddElement
    <3>9. BudgetMove(t, 1, 0)
      BY <1>n, <3>1, <3>2, <3>4 DEF BudgetMove
    <3> QED
      BY <1>n, <3>9, ChargedCount
  <2>3. CASE ptr[r] # NoNode
    <3>1. Become(t, "conflicted", r, next)
      BY <2>1, <2>3 DEF AddEntry
    <3> QED
      BY <1>t, <2>1, <2>3, <3>1, PcMoves, BudgetSame DEF AddEntry
  <2> QED
    BY <2>2, <2>3
<1>6. CASE FillEntry(t)
  <2> DEFINE e == th[t].e
             p == th[t].p
  <2>1. /\ th[t].pc = "conflicted" /\ ptr[e] = Null
        /\ ptr' = [ptr EXCEPT ![e] = p] /\ Become(t, "count", Null, Null)
        /\ UNCHANGED <<free_page_cnt, delay_free_list>>
    BY <1>6 DEF FillEntry
  <2>2. e \in PageRange /\ p \in Page /\ p \notin Cached
    BY <1>t, <2>1 DEF HoldsInv, Listed, PlaceInv, Own, Doing
  <2>3. th'[t].pc = "count" /\ \A u \in Thread \ {t} : th'[u].pc = th[u].pc
    BY <1>t, <2>1, PcMoves
  <2>4. Cardinality(Cached') = Cardinality(Cached) + 1
    BY <1>t, <1>n, <2>1, <2>2, CachedFill, FS_AddElement
  <2>9. BudgetMove(t, 1, 0)
    BY <1>n, <2>1, <2>3, <2>4 DEF BudgetMove
  <2> QED
    BY <1>n, <2>9, ChargedCount
<1>7. CASE DropCopy(t)
  BY <1>t, <1>7, PcMoves, BudgetSame DEF DropCopy
<1>8. CASE CountPage(t)
  <2>1. /\ th[t].pc = "count" /\ free_page_cnt' = free_page_cnt - 1
        /\ Goto(t, IF free_page_cnt <= 0 THEN "evict" ELSE "idle")
        /\ UNCHANGED <<ptr, delay_free_list>>
    BY <1>8 DEF CountPage, Charge
  <2>2. /\ th'[t].pc \in {"evict", "idle"}
        /\ \A u \in Thread \ {t} : th'[u].pc = th[u].pc
    BY <1>t, <2>1, PcMoves
  <2>3. Cached' = Cached
    BY <2>1 DEF Cached
  <2>9. BudgetMove(t, 0, 0)
    BY <1>n, <2>1, <2>2, <2>3 DEF BudgetMove
  <2> QED
    BY <1>n, <2>9, ChargedCount
<1>9. CASE PickVictim(t)
  <2>1. PICK e : Become(t, "freq", e, ptr[e])
    BY <1>9 DEF PickVictim
  <2> QED
    BY <1>t, <1>9, <2>1, PcMoves, BudgetSame DEF PickVictim
<1>10. CASE TakeVictim(t)
  <2>1. PICK l \in {"evict", "invalidate"} :
          Become(t, l, Null, Null) \/ Become(t, l, th[t].e, Null)
    BY <1>10 DEF TakeVictim
  <2> QED
    BY <1>t, <1>10, <2>1, PcMoves, BudgetSame DEF TakeVictim
<1>11. CASE LoadPtr(t)
  <2>1. PICK l \in {"idle", "clear"} :
          \/ Become(t, l, Null, Null)
          \/ Become(t, l, th[t].e, ptr[th[t].e])
    BY <1>11 DEF LoadPtr
  <2> QED
    BY <1>t, <1>11, <2>1, PcMoves, BudgetSame DEF LoadPtr
<1>12. CASE ClearPtr(t)
  <2>1. CASE StillThere(t)
    <3> DEFINE e == th[t].e
               p == th[t].p
    <3>1. /\ th[t].pc = "clear" /\ ptr[e] = p
          /\ ptr' = [ptr EXCEPT ![e] = Null] /\ Become(t, "delay", Null, p)
          /\ UNCHANGED <<free_page_cnt, delay_free_list>>
      BY <1>12, <2>1 DEF ClearPtr, StillThere
    <3>2. e \in PageRange /\ p \in Page
      BY <1>t, <3>1 DEF HoldsInv, Listed
    <3>3. th'[t].pc = "delay" /\ \A u \in Thread \ {t} : th'[u].pc = th[u].pc
      BY <1>t, <3>1, PcMoves
    <3>4. Cardinality(Cached') = Cardinality(Cached) - 1
      <4>1. Cached' = Cached \ {ptr[e]} /\ ptr[e] \in Cached
        BY <1>t, <3>1, <3>2, CachedClear
      <4> QED
        BY <1>n, <4>1, FS_RemoveElement
    <3>9. BudgetMove(t, -1, 0)
      BY <1>n, <3>1, <3>3, <3>4 DEF BudgetMove
    <3> QED
      BY <1>n, <3>9, ChargedCount
  <2>2. CASE ~StillThere(t)
    <3>1. Become(t, "idle", Null, Null) /\ UNCHANGED ptr
      BY <1>12, <2>2 DEF ClearPtr
    <3> QED
      BY <1>t, <1>12, <3>1, PcMoves, BudgetSame DEF ClearPtr
  <2> QED
    BY <2>1, <2>2
<1>13. CASE DelayFree(t)
  <2>1. /\ th[t].pc = "delay"
        /\ delay_free_list' = Append(delay_free_list, th[t].p)
        /\ Become(t, "idle", Null, Null) /\ UNCHANGED <<ptr, free_page_cnt>>
    BY <1>13 DEF DelayFree
  <2>2. Len(delay_free_list') = Len(delay_free_list) + 1
    BY <1>t, <2>1 DEF TypeOK, HoldsInv
  <2>3. th'[t].pc = "idle" /\ \A u \in Thread \ {t} : th'[u].pc = th[u].pc
    BY <1>t, <2>1, PcMoves
  <2>4. Cached' = Cached
    BY <2>1 DEF Cached
  <2>5. th[t].pc = "delay" /\ free_page_cnt' = free_page_cnt
    BY <2>1
  <2>6. /\ Cardinality(Cached') = Cardinality(Cached) + 0
        /\ free_page_cnt' = free_page_cnt - 0 - 1
             - (IF th'[t].pc = "delay" THEN 1 ELSE 0)
             + (IF th[t].pc = "delay" THEN 1 ELSE 0)
             + (IF th'[t].pc = "count" THEN 1 ELSE 0)
             - (IF th[t].pc = "count" THEN 1 ELSE 0)
             + (IF th'[t].pc = "pop" THEN 1 ELSE 0)
             - (IF th[t].pc = "pop" THEN 1 ELSE 0)
    BY <1>n, <2>3, <2>4, <2>5
  <2>9. BudgetMove(t, 0, 1)
    BY <1>n, <2>2, <2>3, <2>6 DEF BudgetMove
  <2> QED
    BY <1>n, <2>9, ChargedCount
<1>14. CASE FreePage(t)
  BY <1>t, <1>14, PcMoves, BudgetSame DEF FreePage
<1>15. CASE Refund(t)
  <2>1. /\ th[t].pc = "refund" /\ free_page_cnt' = free_page_cnt + 1
        /\ Goto(t, "pop") /\ UNCHANGED <<ptr, delay_free_list>>
    BY <1>15 DEF Refund
  <2>2. th'[t].pc = "pop" /\ \A u \in Thread \ {t} : th'[u].pc = th[u].pc
    BY <1>t, <2>1, PcMoves
  <2>3. Cached' = Cached
    BY <2>1 DEF Cached
  <2>9. BudgetMove(t, 0, 0)
    BY <1>n, <2>1, <2>2, <2>3 DEF BudgetMove
  <2> QED
    BY <1>n, <2>9, ChargedCount
<1>16. CASE PopFreed(t)
  <2>1. /\ th[t].pc = "pop" /\ delay_free_list' = Tail(delay_free_list)
        /\ Become(t, "idle", Null, Null) /\ UNCHANGED <<ptr, free_page_cnt>>
    BY <1>16 DEF PopFreed
  <2>2. Len(delay_free_list') = Len(delay_free_list) - 1
    BY <1>t, <2>1 DEF TypeOK, HoldsInv
  <2>3. th'[t].pc = "idle" /\ \A u \in Thread \ {t} : th'[u].pc = th[u].pc
    BY <1>t, <2>1, PcMoves
  <2>4. Cached' = Cached
    BY <2>1 DEF Cached
  <2>5. /\ th[t].pc = "pop" /\ free_page_cnt' = free_page_cnt
        /\ Cardinality(Cached') = Cardinality(Cached) + 0
        /\ Len(delay_free_list') = Len(delay_free_list) + (-1)
    BY <1>n, <2>1, <2>2, <2>4
  <2>9. BudgetMove(t, 0, -1)
    BY <1>n, <2>3, <2>5 DEF BudgetMove
  <2> QED
    BY <1>n, <2>9, ChargedCount
<1>17. CASE RetryVictim(t)
  BY <1>17 DEF RetryVictim, vars, BudgetExact, Cached, Doing
<1> QED
  BY <1>1, <1>2, <1>3, <1>4, <1>5, <1>6, <1>7, <1>8, <1>9, <1>10, <1>11,
     <1>12, <1>13, <1>14, <1>15, <1>16, <1>17 DEF Step

\* Whatever is copied, refused, evicted, cleared and freed, free_page_cnt stays
\* the budget less the pages in use, so the cache neither shrinks nor grows.
THEOREM BudgetHolds == Spec => []BudgetExact
<1>1. Init => BudgetExact
  <2>1. ASSUME Init
        PROVE  BudgetExact
    <3>1. /\ Cached = {} /\ Doing("delay") = {}
          /\ Doing("count") = {} /\ Doing("pop") = {}
      BY <2>1 DEF Init, Idle, Cached, Doing
    <3>2. Len(delay_free_list) = 0 /\ free_page_cnt = all_page_cnt
      BY <2>1 DEF Init
    <3>3. Cardinality({}) = 0 /\ all_page_cnt \in Int
      BY FS_EmptySet, CacheAssumption
    <3>4. /\ Cardinality(Cached) = 0 /\ Cardinality(Doing("delay")) = 0
          /\ Cardinality(Doing("count")) = 0 /\ Cardinality(Doing("pop")) = 0
      BY <3>1, <3>3
    <3> QED
      BY <3>2, <3>3, <3>4 DEF BudgetExact
  <2> QED
    BY <2>1
<1>2. CacheInv /\ BudgetExact /\ [Next]_vars => BudgetExact'
  <2>1. ASSUME BudgetExact, UNCHANGED vars
        PROVE  BudgetExact'
    BY <2>1 DEF vars, BudgetExact, Cached, Doing
  <2> QED
    BY <2>1, BudgetStep DEF Next, Finished
<1> QED
  BY <1>1, <1>2, CacheInvHolds, PTL DEF Spec

-----------------------------------------------------------------------------
(* The search.                                                             *)

\* Of nested ranges the comparator puts the narrowest first, so find_entry
\* gives it.
THEOREM NarrowestIsFound == Spec => []NarrowestFound
<1>1. ASSUME NEW k \in Key, NEW e \in find_entry(k), e.from <= k,
             NEW r \in Listed, r.from <= k, k <= r.to
      PROVE  r.from <= e.from /\ e.to <= r.to
  <2>1. e \in PageRange /\ r \in PageRange
    BY DEF find_entry, Listed
  <2>2. /\ k \in Int /\ e.from \in Int /\ e.to \in Int
        /\ r.from \in Int /\ r.to \in Int
    BY <2>1, CacheAssumption
  <2>3. k <= e.to
    BY <2>2 DEF find_entry, Before
  <2>4. r = e \/ Before(e, r)
    BY <1>1, <2>2 DEF find_entry, Before
  <2> QED
    BY <1>1, <2>1, <2>2, <2>3, <2>4, RangesNest DEF Before
<1>2. NarrowestFound
  BY <1>1 DEF NarrowestFound
<1> QED
  BY <1>2, PTL
=============================================================================
