------------------------------ MODULE CoroIO ------------------------------
(***************************************************************************)
(* How a client thread does I/O: its coroutines post RDMA operations and   *)
(* yield, and the master coroutine resumes whoever a completion names      *)
(* (wr_id is the coroutine) or whoever waits for a local lock.  The        *)
(* operations are those of searches and of stores to the page that a lock  *)
(* protects, one page on each memory node, and their data goes through     *)
(* RdmaBuffer: rings of registered buffers whose cursors advance without   *)
(* asking whether the NIC still needs the old contents.                    *)
(*                                                                         *)
(* A thread has a reliable-connected queue pair per memory node, which     *)
(* executes in order; queue pairs are not ordered with each other.  So a   *)
(* write that nobody waits for is protected from the coroutine's later     *)
(* requests to the same memory node by the queue pair, and from those to   *)
(* other memory nodes by the length of the ring only.                      *)
(***************************************************************************)
EXTENDS Integers, Sequences, SequencesExt, FiniteSets

CONSTANTS
  Thread, Node, NodeOf,    \* client threads and their compute nodes
  Workers,                 \* the coroutines of each thread, in starting order
  Mem, Home,               \* memory nodes, each with a lock and its page;
                           \* the refinement looks at the page of Home
  kCasBufferCnt, kPageBufferCnt,
  kMaxHandOverTime,
  Plans,                   \* bound: numbers of requests to each memory node,
                           \* to choose from
  Master, NoTag            \* the master coroutine; lock word 0

Coro == UNION {Range(Workers[t]) : t \in Thread}
ThreadOf(c) == CHOOSE t \in Thread : c \in Range(Workers[t])

BufferCnt == [cas |-> kCasBufferCnt, page |-> kPageBufferCnt]

ASSUME CoroAssumption ==
  /\ NodeOf \in [Thread -> Node] /\ Home \in Mem
  \* Each coroutine is started once.
  /\ Workers \in [Thread -> Seq(Coro)]
  /\ \A t \in Thread : IsInjective(Workers[t])
  /\ \A t, u \in Thread :
       t # u => Range(Workers[t]) \cap Range(Workers[u]) = {}
  /\ Master \notin Coro /\ NoTag \notin Thread
  /\ Plans \subseteq [Coro -> [Mem -> Nat]] /\ kMaxHandOverTime \in 1..255
  /\ kCasBufferCnt \in Nat \ {0} /\ kPageBufferCnt \in Nat \ {0}

VARIABLES
  running,          \* per thread, the coroutine that runs
  poll,             \* per thread, whether the master polls cq next
  starts,           \* per thread, the workers the master has yet to start
  hot_wait_queue, cq,
  qp,               \* per thread and memory node, the work requests posted:
                    \* [op, coro, n, signal, data]
  co,               \* per coroutine: pc, the memory node of its request,
                    \* buffers, ticket, requests to make at each node
  taken,            \* per coroutine, calls of get_cas_buffer, get_page_buffer;
                    \* a buffer is known by the number n of its call
  buffer,           \* per coroutine, the contents of its rings
  word, page,       \* per memory node, the lock word and the page
  local,            \* per compute node and memory node, the LocalLockNode
  got,              \* history: the page each coroutine last locked or wrote,
                    \* per memory node
  away              \* history: buffers that a coroutine took for requests to
                    \* other memory nodes since it last unlocked this one

client == <<running, poll, starts, hot_wait_queue, cq>>
memory == <<word, page>>
history == <<got, away>>
vars == <<client, qp, co, taken, buffer, memory, local, history>>

Init ==
  /\ running = [t \in Thread |-> Master]
  /\ poll = [t \in Thread |-> TRUE]
  /\ starts = Workers
  /\ hot_wait_queue = [t \in Thread |-> <<>>]
  /\ cq = [t \in Thread |-> <<>>]
  /\ qp = [t \in Thread |-> [m \in Mem |-> <<>>]]
  /\ \E p \in Plans :
       co = [c \in Coro |-> [pc |-> "idle", at |-> Home, cas |-> 0, page |-> 0,
                             my |-> 0, left |-> p[c]]]
  /\ taken = [c \in Coro |-> [cas |-> 0, page |-> 0]]
  /\ buffer = [c \in Coro |->
                 [cas |-> [i \in 0..kCasBufferCnt - 1 |-> NoTag],
                  page |-> [i \in 0..kPageBufferCnt - 1 |-> 0]]]
  /\ word = [m \in Mem |-> NoTag]
  /\ page = [m \in Mem |-> 0]
  /\ local = [n \in Node |-> [m \in Mem |->
                [ticket |-> 0, current |-> 0, hand_over |-> FALSE,
                 hand_time |-> 0]]]
  /\ got = [c \in Coro |-> [m \in Mem |-> 0]]
  /\ away = [c \in Coro |-> [m \in Mem |-> [cas |-> 0, page |-> 0]]]

-----------------------------------------------------------------------------
(* RdmaBuffer.                                                             *)

\* Mutant: a ring that is one buffer short.
ShortRing(k, n) == n % (BufferCnt[k] - 1)

\* Where the buffer of the n-th call is: the cursor advances, then it is used.
Slot(k, n) == n % BufferCnt[k]

InFlight(c) ==
  UNION {Range(qp[ThreadOf(c)][m]) : m \in Mem}

KindOf(op) == IF op \in {"cas", "unlock"} THEN "cas" ELSE "page"

\* get_cas_buffer, get_page_buffer.
NextBuffer(c, k) == taken[c][k] + 1

\* Buffers x.cas and x.page more, as the other memory nodes than m see it.
Elsewhere(c, m, x) ==
  [away EXCEPT ![c] = [l \in Mem |->
     IF l = m THEN @[l] ELSE [cas |-> @[l].cas + x.cas,
                              page |-> @[l].page + x.page]]]

\* A request of c to memory node m takes x.cas and x.page buffers.
Take(c, m, x) ==
  /\ taken' = [taken EXCEPT ![c] = [cas |-> @.cas + x.cas,
                                    page |-> @.page + x.page]]
  /\ away' = Elsewhere(c, m, x)

Contents(c, k, n) == buffer[c][k][Slot(k, n)]

-----------------------------------------------------------------------------
(* DSM: a work request, and who waits for it.                              *)

Request(c, op, n, signal, data) ==
  [op |-> op, coro |-> c, n |-> n, signal |-> signal, data |-> data]

Post(c, m, ws) == qp' = [qp EXCEPT ![ThreadOf(c)][m] = @ \o ws]

\* The coroutine yields to the master, or runs on.
YieldIf(c, waits) ==
  running' = IF waits THEN [running EXCEPT ![ThreadOf(c)] = Master]
                      ELSE running

At(c, pc) == running[ThreadOf(c)] = c /\ co[c].pc = pc

Goto(c, pc) == co' = [co EXCEPT ![c].pc = pc]

\* read_sync and cas_dm_sync with a coroutine context.
Sync(c, m, op, n) ==
  /\ Post(c, m, <<Request(c, op, n, TRUE, NoTag)>>)
  /\ YieldIf(c, TRUE)

\* The memory node executes the oldest request of a queue pair; a signalled
\* one leaves its wr_id in the completion queue.
Execute(t, m) ==
  LET w == Head(qp[t][m])
      k == KindOf(w.op)
      b == Contents(w.coro, k, w.n)
      Fill(v) == buffer' = [buffer EXCEPT ![w.coro][k][Slot(k, w.n)] = v] IN
  /\ qp[t][m] # <<>>
  /\ qp' = [qp EXCEPT ![t][m] = Tail(@)]
  /\ cq' = IF w.signal THEN [cq EXCEPT ![t] = Append(@, w.coro)] ELSE cq
  /\ \/ w.op = "cas" /\ Fill(word[m]) /\ UNCHANGED <<page, got>>
        /\ word' = [word EXCEPT ![m] = IF @ = NoTag THEN t ELSE @]
     \/ w.op = "read" /\ Fill(page[m]) /\ UNCHANGED memory
        /\ got' = [got EXCEPT ![w.coro][m] = page[m]]
     \/ w.op = "search" /\ Fill(page[m]) /\ UNCHANGED <<memory, got>>
     \/ w.op = "write" /\ page' = [page EXCEPT ![m] = b]
        /\ UNCHANGED <<word, buffer, got>>
     \/ w.op = "unlock" /\ word' = [word EXCEPT ![m] = b]
        /\ UNCHANGED <<page, buffer, got>>
  /\ UNCHANGED <<running, poll, starts, hot_wait_queue, co, taken, local,
                 away>>

-----------------------------------------------------------------------------
(* coro_master.                                                            *)

\* Mutant: completions are polled only when nobody waits for a local lock.
HotFirst(t) == poll[t] /\ hot_wait_queue[t] = <<>>

PollsCQ(t) == poll[t]

\* One turn: first the workers are started; then a completion and a waiting
\* coroutine are taken in turn.
coro_master(t) ==
  /\ running[t] = Master
  /\ \/ /\ starts[t] # <<>>
        /\ running' = [running EXCEPT ![t] = Head(starts[t])]
        /\ starts' = [starts EXCEPT ![t] = Tail(@)]
        /\ UNCHANGED <<poll, cq, hot_wait_queue>>
     \/ /\ starts[t] = <<>>
        /\ poll' = [poll EXCEPT ![t] = ~@]
        /\ LET q == IF PollsCQ(t) THEN cq[t]
                    ELSE IF poll[t] THEN <<>> ELSE hot_wait_queue[t] IN
           /\ running' = IF q = <<>> THEN running
                                     ELSE [running EXCEPT ![t] = Head(q)]
           /\ cq' = IF PollsCQ(t) /\ q # <<>>
                      THEN [cq EXCEPT ![t] = Tail(@)] ELSE cq
           /\ hot_wait_queue' =
                IF ~PollsCQ(t) /\ q # <<>>
                  THEN [hot_wait_queue EXCEPT ![t] = Tail(@)]
                  ELSE hot_wait_queue
        /\ UNCHANGED starts
  /\ UNCHANGED <<qp, co, taken, buffer, memory, local, history>>

-----------------------------------------------------------------------------
(* A worker: coro_worker's loop over searches and stores.                  *)

\* What c has left to do after one more request to m.
Left(c, m) == [co[c].left EXCEPT ![m] = @ - 1]

\* A page is read without the lock (page_search).
Search(c, m) ==
  /\ At(c, "idle") /\ co[c].left[m] > 0
  /\ Take(c, m, [cas |-> 0, page |-> 1])
  /\ Sync(c, m, "search", NextBuffer(c, "page"))
  /\ co' = [co EXCEPT ![c].pc = "search", ![c].at = m,
                      ![c].page = NextBuffer(c, "page"),
                      ![c].left = Left(c, m)]
  /\ UNCHANGED <<poll, starts, hot_wait_queue, cq, buffer, memory, local, got>>

EndSearch(c) ==
  /\ At(c, "search")
  /\ Goto(c, "idle")
  /\ UNCHANGED <<client, qp, taken, buffer, memory, local, history>>

\* A store takes its buffers and draws a ticket of the local lock.
Store(c, m) ==
  LET n == NodeOf[ThreadOf(c)] IN
  /\ At(c, "idle") /\ co[c].left[m] > 0
  /\ Take(c, m, [cas |-> 1, page |-> 1])
  /\ co' = [co EXCEPT ![c] = [pc |-> "spin", at |-> m,
                              cas |-> NextBuffer(c, "cas"),
                              page |-> NextBuffer(c, "page"),
                              my |-> local[n][m].ticket,
                              left |-> Left(c, m)]]
  /\ local' = [local EXCEPT ![n][m].ticket = @ + 1]
  /\ UNCHANGED <<client, qp, buffer, memory, got>>

\* The LocalLockNode of the lock that c works on.
LocalLock(c) == local[NodeOf[ThreadOf(c)]][co[c].at]

\* acquire_local_lock: not served yet, so the master will come back.
Wait(c) ==
  LET t == ThreadOf(c) IN
  /\ At(c, "spin")
  /\ co[c].my # LocalLock(c).current
  /\ hot_wait_queue' = [hot_wait_queue EXCEPT ![t] = Append(@, c)]
  /\ YieldIf(c, TRUE)
  /\ UNCHANGED <<poll, starts, cq, qp, co, taken, buffer, memory, local,
                 history>>

\* try_lock_addr's CAS and lock_and_read_page's read.
Ask(c, op) == Goto(c, op) /\ Sync(c, co[c].at, op, co[c][KindOf(op)])

\* acquire_local_lock returns; a hand-over skips the CAS (try_lock_addr) and
\* the page is read (lock_and_read_page).
Enter(c) ==
  /\ At(c, "spin")
  /\ co[c].my = LocalLock(c).current
  /\ local' = [local EXCEPT ![NodeOf[ThreadOf(c)]][co[c].at].hand_time = @ + 1]
  /\ Ask(c, IF LocalLock(c).hand_over THEN "read" ELSE "cas")
  /\ UNCHANGED <<poll, starts, hot_wait_queue, cq, taken, buffer, memory,
                 history>>

\* try_lock_addr: what the CAS left in the buffer tells whether it succeeded.
TestCas(c) ==
  /\ At(c, "cas")
  /\ Ask(c, IF Contents(c, "cas", co[c].cas) = NoTag THEN "read" ELSE "cas")
  /\ UNCHANGED <<poll, starts, hot_wait_queue, cq, taken, buffer, memory,
                 local, history>>

\* can_hand_over's decision.
CanHandOver(c) ==
  /\ LocalLock(c).ticket > LocalLock(c).current + 1
  /\ LocalLock(c).hand_time < kMaxHandOverTime

\* Mutant: an asynchronous request is signalled.
AlwaysSignal(async) == TRUE

\* Only a request that the coroutine waits for is signalled.
SignalFlag(async) == ~async

\* Mutant: the lock word is written first.
UnlockFirst(w, u) == u \o w

\* write_page_and_unlock's batch.
Batch(w, u) == w \o u

\* unlock_addr (write FALSE), and write_page_and_unlock after the page was
\* modified in its buffer, up to the release of the local lock.
Unlock(c, write, async) ==
  LET n == NodeOf[ThreadOf(c)]
      m == co[c].at
      hand == CanHandOver(c)
      s == NextBuffer(c, "cas")
      new == Contents(c, "page", co[c].page) + 1
      waits == IF hand THEN write ELSE ~async
      w == IF write
             THEN <<Request(c, "write", co[c].page, hand, new)>> ELSE <<>>
      u == <<Request(c, "unlock", s, SignalFlag(async), NoTag)>> IN
  /\ At(c, "read")
  /\ local' = [local EXCEPT ![n][m].hand_over = hand,
                            ![n][m].hand_time = IF hand THEN @ ELSE 0]
  /\ taken' = IF hand THEN taken ELSE [taken EXCEPT ![c].cas = @ + 1]
  /\ away' = [Elsewhere(c, m, [cas |-> IF hand THEN 0 ELSE 1, page |-> 0])
                EXCEPT ![c][m] = [cas |-> 0, page |-> 0]]
  /\ buffer' = [buffer EXCEPT ![c] =
                  [cas |-> IF hand THEN @.cas
                           ELSE [@.cas EXCEPT ![Slot("cas", s)] = NoTag],
                   page |-> IF write
                     THEN [@.page EXCEPT ![Slot("page", co[c].page)] = new]
                     ELSE @.page]]
  /\ got' = IF write THEN [got EXCEPT ![c][m] = @ + 1] ELSE got
  /\ Post(c, m, IF hand THEN w ELSE Batch(w, u))
  /\ Goto(c, "release")
  /\ YieldIf(c, waits)
  /\ UNCHANGED <<poll, starts, hot_wait_queue, cq, memory>>

\* releases_local_lock, and the worker's next turn.
Release(c) ==
  /\ At(c, "release")
  /\ local' = [local EXCEPT ![NodeOf[ThreadOf(c)]][co[c].at].current = @ + 1]
  /\ Goto(c, "idle")
  /\ UNCHANGED <<client, qp, taken, buffer, memory, history>>

\* A worker that has used up the bound gives way.
Rest(c) ==
  /\ At(c, "idle") /\ \A m \in Mem : co[c].left[m] = 0
  /\ Goto(c, "done")
  /\ YieldIf(c, TRUE)
  /\ UNCHANGED <<poll, starts, hot_wait_queue, cq, qp, taken, buffer, memory,
                 local, history>>

Worker(c) ==
  \/ \E m \in Mem : Search(c, m) \/ Store(c, m)
  \/ EndSearch(c) \/ Wait(c) \/ Enter(c) \/ TestCas(c)
  \/ \E write, async \in BOOLEAN : Unlock(c, write, async)
  \/ Release(c) \/ Rest(c)

Step(t) == coro_master(t) \/ \E c \in Range(Workers[t]) : Worker(c)

Next == \E t \in Thread : Step(t) \/ \E m \in Mem : Execute(t, m)

\* A thread never blocks, and a memory node executes what is posted.
Spec ==
  /\ Init /\ [][Next]_vars
  /\ \A t \in Thread :
       WF_vars(Step(t)) /\ \A m \in Mem : WF_vars(Execute(t, m))

-----------------------------------------------------------------------------
\* What the NIC has yet to read, although nobody may be waiting for it.
Unread(c, m) ==
  {w \in Range(qp[ThreadOf(c)][m]) :
     w.coro = c /\ w.op \in {"write", "unlock"}}

Intact(w) == Contents(w.coro, KindOf(w.op), w.n) = w.data

\* A buffer that the NIC has yet to read holds what was posted, as long as its
\* coroutine has taken less than a ring of buffers for other memory nodes: no
\* request to the same memory node harms it, and no other one too early.
PostedIntact ==
  \A c \in Coro, m \in Mem : \A w \in Unread(c, m) :
    away[c][m][KindOf(w.op)] < BufferCnt[KindOf(w.op)] => Intact(w)

\* "async, buffer safty" without a condition: so it is with one memory node,
\* and not with two.
BuffersSafe == \A c \in Coro, m \in Mem : \A w \in Unread(c, m) : Intact(w)

Indices(q, c) == {i \in DOMAIN q : q[i] = c}
Signalled(q, c) == {i \in DOMAIN q : q[i].coro = c /\ q[i].signal}

\* Where the wakeups under way for a coroutine are: in the hot wait queue, in
\* the completion queue, or to come with a signalled request.
Wakeups(c) ==
  LET t == ThreadOf(c) IN
  {<<"start", Home, i>> : i \in Indices(starts[t], c)}
    \cup {<<"hot", Home, i>> : i \in Indices(hot_wait_queue[t], c)}
    \cup {<<"cq", Home, i>> : i \in Indices(cq[t], c)}
    \cup UNION {{<<"qp", m, i>> : i \in Signalled(qp[t][m], c)} : m \in Mem}

\* A suspended worker has one wakeup under way and the running one has none:
\* no completion resumes a coroutine that still waits for another operation,
\* and none is lost.
OneWakeup ==
  \A c \in Coro :
    Cardinality(Wakeups(c)) =
      IF running[ThreadOf(c)] = c \/ co[c].pc = "done" THEN 0 ELSE 1

\* Every request ends: no coroutine starves while others spin for local locks
\* or while the master polls.
RequestsReturn ==
  \A c \in Coro : co[c].pc # "idle" ~> co[c].pc \in {"idle", "done"}

-----------------------------------------------------------------------------
\* A coroutine owns the page from the execution of its locked read.
Owns(c) ==
  /\ co[c].pc = "read" /\ co[c].at = Home
  /\ \A w \in InFlight(c) : ~(w.coro = c /\ w.op = "read")

Owner == IF \E c \in Coro : Owns(c) THEN CHOOSE c \in Coro : Owns(c) ELSE NoTag

Writes ==
  UNION {{w \in Range(qp[t][Home]) : w.op = "write"} : t \in Thread}

NewestPage ==
  IF Writes = {} THEN page[Home] ELSE (CHOOSE w \in Writes : TRUE).data

Abstract == INSTANCE LockedPage
  WITH Thread <- Coro, NoOne <- NoTag, owner <- Owner, value <- NewestPage,
       got <- [c \in Coro |-> got[c][Home]]

\* Coroutines that share queue pairs, completion queues and buffer rings
\* implement a page with one owner at a time that always gets the newest page.
ImplementsLockedPage == Abstract!Spec
=============================================================================
