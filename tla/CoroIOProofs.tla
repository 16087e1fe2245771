---------------------------- MODULE CoroIOProofs ----------------------------
(***************************************************************************)
(* A coroutine is resumed exactly once for what it waits for; a buffer     *)
(* holds what was posted until the NIC has read it unless the coroutine    *)
(* has gone round the ring for other memory nodes, so always if there is   *)
(* but one.  For any threads, coroutines, memory nodes and rings.          *)
(***************************************************************************)
EXTENDS CoroIO, FiniteSetTheorems, SequenceTheorems, TLAPS

Pcs == {"idle", "search", "spin", "cas", "read", "release", "done"}
Ops == {"cas", "read", "search", "write", "unlock"}

\* A work request.
WR == [op : Ops, coro : Coro, n : Nat, signal : BOOLEAN,
       data : Int \cup {NoTag}]

Team(t) == Range(Workers[t])

\* A coroutine, and a LocalLockNode.
CR == [pc : Pcs, at : Mem, cas : Nat, page : Nat, my : Nat,
       left : [Mem -> Nat]]
LR == [ticket : Nat, current : Nat, hand_over : BOOLEAN, hand_time : Nat]

Counts == [cas : Nat, page : Nat]
Rings == [cas : [0..kCasBufferCnt-1 -> Thread \cup {NoTag}],
          page : [0..kPageBufferCnt-1 -> Int]]

TypeOK ==
  /\ running \in [Thread -> Coro \cup {Master}]
  /\ poll \in [Thread -> BOOLEAN]
  /\ starts \in [Thread -> Seq(Coro)]
  /\ hot_wait_queue \in [Thread -> Seq(Coro)]
  /\ cq \in [Thread -> Seq(Coro)]
  /\ qp \in [Thread -> [Mem -> Seq(WR)]]
  /\ co \in [Coro -> CR]
  /\ taken \in [Coro -> Counts]
  /\ buffer \in [Coro -> Rings]
  /\ word \in [Mem -> Thread \cup {NoTag}]
  /\ page \in [Mem -> Int]
  /\ local \in [Node -> [Mem -> LR]]
  /\ got \in [Coro -> [Mem -> Int]]
  /\ away \in [Coro -> [Mem -> Counts]]

\* A thread resumes and posts for its own coroutines only.
TeamInv ==
  \A t \in Thread :
    /\ running[t] \in Team(t) \cup {Master}
    /\ Range(starts[t]) \cup Range(hot_wait_queue[t]) \cup Range(cq[t])
         \subseteq Team(t)
    /\ \A m \in Mem : \A w \in Range(qp[t][m]) : w.coro \in Team(t)

Unique(S) == \A i, j \in S : i = j
Once(q, c) == Unique(Indices(q, c))
OnceAsked(q, c) == Unique(Signalled(q, c))
Asked(t, c) == \E m \in Mem : Signalled(qp[t][m], c) # {}

\* What a coroutine waits for: exactly one of its thread's lists names it, or
\* it runs, or it is done.
Turns(t, c) ==
  (IF Indices(starts[t], c) # {} THEN 1 ELSE 0)
    + (IF Indices(hot_wait_queue[t], c) # {} THEN 1 ELSE 0)
    + (IF Indices(cq[t], c) # {} THEN 1 ELSE 0)
    + (IF Asked(t, c) THEN 1 ELSE 0)
    + (IF running[t] = c THEN 1 ELSE 0)
    + (IF co[c].pc = "done" THEN 1 ELSE 0)

WakeOK(t, c) ==
  /\ Once(starts[t], c) /\ Once(hot_wait_queue[t], c) /\ Once(cq[t], c)
  /\ \A m \in Mem : OnceAsked(qp[t][m], c)
  /\ \A m, l \in Mem :
       Signalled(qp[t][m], c) # {} /\ Signalled(qp[t][l], c) # {} => m = l
  /\ Turns(t, c) = 1

WakeInv == \A t \in Thread : \A c \in Team(t) : WakeOK(t, c)

Waits == {"cas", "read", "search"}

Unwaited == {"write", "unlock"}
Active == {"spin"} \cup Waits

\* A request that its coroutine waits for fills the buffer that was taken for
\* it.  One that the NIC has yet to read is older than what its coroutine works
\* with, by no more calls than those for other memory nodes, and unchanged
\* while these are less than a ring.
PostedOK(m, w) ==
  LET c == w.coro
      k == KindOf(w.op) IN
  /\ w.op \in Waits =>
       w.signal /\ co[c].pc = w.op /\ co[c].at = m /\ w.n = co[c][k]
  /\ w.op \in Unwaited =>
       /\ w.n <= taken[c][k]
       /\ co[c].pc \in Active /\ (co[c].pc = "search" => k = "page")
            => w.n < co[c][k]
       /\ ~(co[c].pc \in Active /\ co[c].at = m)
            => taken[c][k] - w.n <= away[c][m][k]
       /\ away[c][m][k] < BufferCnt[k] => Intact(w)

PostInv ==
  /\ \A t \in Thread : \A m \in Mem : \A w \in Range(qp[t][m]) : PostedOK(m, w)
  /\ \A c \in Coro :
       /\ co[c].pc \in Active => co[c].page = taken[c].page
       /\ co[c].pc \in Active \ {"search"} => co[c].cas = taken[c].cas

\* A request that is waited for is the last of its coroutine in its queue, and
\* whoever waits for one has no other request left there once it is executed.
LastAsked(q) ==
  \A i, j \in DOMAIN q :
    i < j /\ q[i].coro = q[j].coro => q[i].op \notin Waits

Has(q, c) == \E w \in Range(q) : w.coro = c
HasAsked(q, c) == \E w \in Range(q) : w.coro = c /\ w.op \in Waits

QueueInv ==
  /\ \A t \in Thread, m \in Mem : LastAsked(qp[t][m])
  /\ \A t \in Thread, c \in Coro :
       co[c].pc \in Waits /\ Has(qp[t][co[c].at], c)
         => HasAsked(qp[t][co[c].at], c)

CoroInv == TypeOK /\ TeamInv /\ WakeInv /\ PostInv /\ QueueInv

-----------------------------------------------------------------------------
(* Rings and queues.                                                       *)

\* Division with remainder, which the solvers do not find by themselves.
LEMMA Division ==
  ASSUME NEW n \in Nat \ {0}, NEW k \in Nat
  PROVE  \E q \in Nat, r \in 0..n-1 : k = n * q + r /\ k % n = r
<1>1. PICK r : r = k % n
  OBVIOUS
<1>2. r \in 0..n-1
  BY <1>1
<1>3. PICK q \in Nat : q = k \div n
  OBVIOUS
<1>4. k - r = n * q
  BY <1>1, <1>3
<1>5. k = n * q + r
  BY <1>2, <1>3, <1>4
<1> QED
  BY <1>1, <1>2, <1>3, <1>5

\* Fewer than n calls apart, two buffers of a ring of n differ.
LEMMA RingApart ==
  ASSUME NEW n \in Nat \ {0}, NEW i \in Nat, NEW j \in Nat, i < j, j - i < n
  PROVE  i % n # j % n
<1>1. PICK q \in Nat, r \in 0..n-1 : i = n * q + r /\ i % n = r
  BY Division
<1>2. PICK p \in Nat, s \in 0..n-1 : j = n * p + s /\ j % n = s
  BY Division
<1>3. SUFFICES ASSUME r = s PROVE FALSE
  BY <1>1, <1>2
<1>4. j - i = n * p - n * q
  BY <1>1, <1>2, <1>3
<1>5. p > q
  BY <1>1, <1>2, <1>3
<1>6. p - q >= 1 /\ n * p - n * q = n * (p - q)
  BY <1>5
<1>7. n * (p - q) >= n
  BY <1>6
<1> QED
  BY <1>4, <1>6, <1>7

\* The places of c in a queue, and its members, after an append.
LEMMA IndicesAppend ==
  ASSUME NEW S, NEW q \in Seq(S), NEW x \in S, NEW c
  PROVE  /\ Indices(Append(q, x), c) =
              Indices(q, c) \cup (IF x = c THEN {Len(q) + 1} ELSE {})
         /\ Range(Append(q, x)) = Range(q) \cup {x}
<1>1. /\ DOMAIN q = 1..Len(q) /\ Len(q) \in Nat
      /\ DOMAIN Append(q, x) = 1..Len(q) + 1
      /\ \A i \in 1..Len(q) : Append(q, x)[i] = q[i]
      /\ Append(q, x)[Len(q) + 1] = x
  OBVIOUS
<1>2. 1..Len(q) + 1 = (1..Len(q)) \cup {Len(q) + 1}
  BY <1>1
<1>3. Indices(Append(q, x), c) =
        Indices(q, c) \cup (IF x = c THEN {Len(q) + 1} ELSE {})
  BY <1>1, <1>2 DEF Indices
<1>4. Range(Append(q, x)) = Range(q) \cup {x}
  BY <1>1, <1>2 DEF Range
<1> QED
  BY <1>3, <1>4

\* A coroutine that was not in the queue is in it once after an append.
LEMMA OnceAppend ==
  ASSUME NEW S, NEW q \in Seq(S), NEW x \in S, NEW c, Once(q, c),
         x = c => Indices(q, c) = {}
  PROVE  /\ Once(Append(q, x), c)
         /\ Indices(Append(q, x), c) # {} <=> Indices(q, c) # {} \/ x = c
BY IndicesAppend DEF Once, Unique

\* The first of a queue is taken.
LEMMA OnceTail ==
  ASSUME NEW S, NEW q \in Seq(S), q # <<>>, NEW c, Once(q, c)
  PROVE  /\ Once(Tail(q), c)
         /\ Head(q) = c => /\ Indices(q, c) # {}
                           /\ Indices(Tail(q), c) = {}
         /\ Head(q) # c =>
              (Indices(Tail(q), c) # {} <=> Indices(q, c) # {})
         /\ Range(Tail(q)) \subseteq Range(q)
         /\ Head(q) \in Range(q)
<1>1. /\ DOMAIN q = 1..Len(q) /\ Len(q) \in Nat /\ Len(q) >= 1
      /\ Tail(q) \in Seq(S) /\ Len(Tail(q)) = Len(q) - 1
      /\ \A i \in 1..Len(q) - 1 : Tail(q)[i] = q[i + 1]
      /\ Head(q) = q[1]
  OBVIOUS
<1>2. DOMAIN Tail(q) = 1..Len(q) - 1
  BY <1>1
<1>3. ASSUME NEW i \in 1..Len(q) - 1
      PROVE  i + 1 \in 1..Len(q) /\ i + 1 # 1 /\ Tail(q)[i] = q[i + 1]
  BY <1>1
<1>4. ASSUME NEW i \in Indices(Tail(q), c)
      PROVE  i + 1 \in Indices(q, c) /\ i \in Int /\ i + 1 # 1
  BY <1>1, <1>2, <1>3 DEF Indices
<1>5. Once(Tail(q), c)
  <2>1. ASSUME NEW i \in Indices(Tail(q), c), NEW j \in Indices(Tail(q), c)
        PROVE  i = j
    <3>1. i + 1 = j + 1 /\ i \in Int /\ j \in Int
      BY <1>4 DEF Once, Unique
    <3> QED
      BY <3>1
  <2> QED
    BY <2>1 DEF Once, Unique
<1>6. ASSUME Head(q) = c
      PROVE  Indices(q, c) # {} /\ Indices(Tail(q), c) = {}
  <2>1. 1 \in Indices(q, c)
    BY <1>1, <1>6 DEF Indices
  <2> QED
    BY <1>4, <2>1 DEF Once, Unique
<1>7. ASSUME Head(q) # c, NEW i \in Indices(q, c)
      PROVE  Indices(Tail(q), c) # {}
  <2>1. i \in 1..Len(q) /\ i # 1 /\ q[i] = c
    BY <1>1, <1>7 DEF Indices
  <2>2. i - 1 \in 1..Len(q) - 1 /\ (i - 1) + 1 = i
    BY <1>1, <2>1
  <2>3. Tail(q)[i - 1] = c
    BY <1>1, <2>1, <2>2
  <2> QED
    BY <1>2, <2>2, <2>3 DEF Indices
<1>8. Range(Tail(q)) \subseteq Range(q) /\ Head(q) \in Range(q)
  BY <1>1, <1>2, <1>3 DEF Range
<1>9. Indices(Tail(q), c) # {} => Indices(q, c) # {}
  BY <1>4
<1> QED
  BY <1>5, <1>6, <1>7, <1>8, <1>9

\* What Execute takes from the head of a queue pair is the only signalled
\* request of its coroutine there.
LEMMA AskedTail ==
  ASSUME NEW S, NEW q \in Seq(S), q # <<>>, NEW c, OnceAsked(q, c)
  PROVE  /\ OnceAsked(Tail(q), c)
         /\ Head(q).coro = c /\ Head(q).signal =>
              Signalled(q, c) # {} /\ Signalled(Tail(q), c) = {}
         /\ ~(Head(q).coro = c /\ Head(q).signal) =>
              (Signalled(Tail(q), c) # {} <=> Signalled(q, c) # {})
         /\ Range(Tail(q)) \subseteq Range(q)
         /\ Head(q) \in Range(q)
<1>1. /\ DOMAIN q = 1..Len(q) /\ Len(q) \in Nat /\ Len(q) >= 1
      /\ Tail(q) \in Seq(S) /\ Len(Tail(q)) = Len(q) - 1
      /\ \A i \in 1..Len(q) - 1 : Tail(q)[i] = q[i + 1]
      /\ Head(q) = q[1]
  OBVIOUS
<1>2. DOMAIN Tail(q) = 1..Len(q) - 1
  BY <1>1
<1>3. ASSUME NEW i \in 1..Len(q) - 1
      PROVE  i + 1 \in 1..Len(q) /\ i + 1 # 1 /\ Tail(q)[i] = q[i + 1]
  BY <1>1
<1>4. ASSUME NEW i \in Signalled(Tail(q), c)
      PROVE  i + 1 \in Signalled(q, c) /\ i \in Int /\ i + 1 # 1
  BY <1>1, <1>2, <1>3 DEF Signalled
<1>5. OnceAsked(Tail(q), c)
  <2>1. ASSUME NEW i \in Signalled(Tail(q), c), NEW j \in Signalled(Tail(q), c)
        PROVE  i = j
    <3>1. i + 1 = j + 1 /\ i \in Int /\ j \in Int
      BY <1>4 DEF OnceAsked, Unique
    <3> QED
      BY <3>1
  <2> QED
    BY <2>1 DEF OnceAsked, Unique
<1>6. ASSUME Head(q).coro = c, Head(q).signal
      PROVE  Signalled(q, c) # {} /\ Signalled(Tail(q), c) = {}
  <2>1. 1 \in Signalled(q, c)
    BY <1>1, <1>6 DEF Signalled
  <2> QED
    BY <1>4, <2>1 DEF OnceAsked, Unique
<1>7. ASSUME ~(Head(q).coro = c /\ Head(q).signal), NEW i \in Signalled(q, c)
      PROVE  Signalled(Tail(q), c) # {}
  <2>1. i \in 1..Len(q) /\ i # 1 /\ q[i].coro = c /\ q[i].signal
    BY <1>1, <1>7 DEF Signalled
  <2>2. i - 1 \in 1..Len(q) - 1 /\ (i - 1) + 1 = i
    BY <1>1, <2>1
  <2>3. Tail(q)[i - 1] = q[i]
    BY <1>1, <2>1, <2>2
  <2> QED
    BY <1>2, <2>1, <2>2, <2>3 DEF Signalled
<1>8. Range(Tail(q)) \subseteq Range(q) /\ Head(q) \in Range(q)
  BY <1>1, <1>2, <1>3 DEF Range
<1>9. Signalled(Tail(q), c) # {} => Signalled(q, c) # {}
  BY <1>4
<1> QED
  BY <1>5, <1>6, <1>7, <1>8, <1>9

Apart(q, ws, c) == Signalled(q, c) = {} \/ Signalled(ws, c) = {}

Joined(q, ws, z, c) ==
  /\ OnceAsked(z, c)
  /\ Signalled(z, c) # {} <=> Signalled(q, c) # {} \/ Signalled(ws, c) # {}
  /\ Range(z) = Range(q) \cup Range(ws)

\* Requests posted behind a queue that has no signalled request of the same
\* coroutine.
LEMMA AskedConcat ==
  ASSUME NEW S, NEW q \in Seq(S), NEW ws \in Seq(S), NEW z, z = q \o ws,
         NEW c, OnceAsked(q, c), OnceAsked(ws, c), Apart(q, ws, c)
  PROVE  Joined(q, ws, z, c)
<1> DEFINE n == Len(q)
           l == Len(ws)
<1>1. /\ DOMAIN q = 1..n /\ n \in Nat /\ DOMAIN ws = 1..l /\ l \in Nat
      /\ z \in Seq(S) /\ DOMAIN z = 1..n + l
      /\ \A i \in 1..n : z[i] = q[i]
      /\ \A i \in n+1..n+l : z[i] = ws[i - n]
  OBVIOUS
<1> HIDE DEF n, l
<1>2. \A i \in 1..l : i + n \in 1..n+l /\ z[i + n] = ws[i]
  BY <1>1
<1>3. ASSUME NEW i \in 1..n + l
      PROVE  i \in 1..n \/ (i - n \in 1..l /\ i \in n+1..n+l)
  BY <1>1
<1>4. ASSUME NEW i
      PROVE  i \in Signalled(z, c) <=>
               \/ i \in Signalled(q, c)
               \/ i \in n+1..n+l /\ i - n \in Signalled(ws, c)
  BY <1>1, <1>2, <1>3, SMTT(30) DEF Signalled
<1>5. ASSUME NEW i \in Signalled(ws, c)
      PROVE  i + n \in Signalled(z, c)
  BY <1>1, <1>2, <1>5 DEF Signalled
<1>6. ASSUME NEW i \in Signalled(z, c), NEW j \in Signalled(z, c)
      PROVE  i = j
  <2>1. CASE i \in Signalled(q, c) /\ j \in Signalled(q, c)
    BY <2>1 DEF OnceAsked, Unique
  <2>2. CASE Signalled(q, c) = {}
    <3>1. /\ i \in n+1..n+l /\ i - n \in Signalled(ws, c)
          /\ j \in n+1..n+l /\ j - n \in Signalled(ws, c)
      BY <1>4, <2>2
    <3>2. i - n = j - n
      BY <3>1 DEF OnceAsked, Unique
    <3> QED
      BY <1>1, <3>1, <3>2
  <2> QED
    BY <1>4, <2>1, <2>2 DEF Apart
<1>7. Range(z) = Range(q) \cup Range(ws)
  <2>1. Range(z) \subseteq Range(q) \cup Range(ws)
    BY <1>1, <1>3 DEF Range
  <2>2. Range(q) \subseteq Range(z)
    BY <1>1 DEF Range
  <2>3. ASSUME NEW i \in 1..l
        PROVE  ws[i] \in Range(z)
    BY <1>1, <1>2 DEF Range
  <2>4. Range(ws) \subseteq Range(z)
    BY <1>1, <2>3 DEF Range
  <2> QED
    BY <2>1, <2>2, <2>4
<1>8. OnceAsked(z, c)
  BY <1>6 DEF OnceAsked, Unique
<1>9. Signalled(z, c) # {} <=> Signalled(q, c) # {} \/ Signalled(ws, c) # {}
  BY <1>4, <1>5
<1> QED
  BY <1>7, <1>8, <1>9 DEF Joined

-----------------------------------------------------------------------------
(* Who is resumed.                                                         *)

\* ThreadOf finds the thread a coroutine works for.
LEMMA TeamOf ==
  ASSUME NEW t \in Thread, NEW c \in Team(t)
  PROVE  ThreadOf(c) = t /\ c \in Coro /\ c # Master
<1>1. c \in Coro
  BY DEF Coro, Team
<1>2. \A u \in Thread : c \in Range(Workers[u]) => u = t
  BY CoroAssumption DEF Team
<1>3. ThreadOf(c) = t
  BY <1>2 DEF ThreadOf, Team
<1> QED
  BY <1>1, <1>3, CoroAssumption

\* Every coroutine works for a thread.
LEMMA InTeam ==
  ASSUME NEW c \in Coro
  PROVE  ThreadOf(c) \in Thread /\ c \in Team(ThreadOf(c))
BY DEF Coro, ThreadOf, Team

\* A step that leaves the queues of a thread alone keeps its wakeups.
LEMMA WakeSame ==
  ASSUME NEW t \in Thread, NEW c \in Team(t), WakeOK(t, c),
         starts'[t] = starts[t], hot_wait_queue'[t] = hot_wait_queue[t],
         cq'[t] = cq[t], qp'[t] = qp[t],
         running'[t] = c <=> running[t] = c,
         co'[c].pc = "done" <=> co[c].pc = "done"
  PROVE  WakeOK(t, c)'
BY DEF WakeOK, Turns, Asked

\* The running coroutine has no wakeup under way.
LEMMA RunningAlone ==
  ASSUME NEW t \in Thread, NEW c \in Team(t), WakeOK(t, c), running[t] = c
  PROVE  /\ Indices(starts[t], c) = {} /\ Indices(hot_wait_queue[t], c) = {}
         /\ Indices(cq[t], c) = {} /\ ~Asked(t, c) /\ co[c].pc # "done"
BY DEF WakeOK, Turns

RunningOnly(t, c) ==
  /\ Indices(starts[t], c) = {} /\ Indices(hot_wait_queue[t], c) = {}
  /\ Indices(cq[t], c) = {} /\ ~Asked(t, c) /\ co[c].pc # "done"

\* Nobody is done in this step.
DoneSame == \A d \in Coro : co'[d].pc = "done" <=> co[d].pc = "done"

\* Requests ws are posted to the queue pair of thread t and memory node m.
Posts(t, m, ws) ==
  /\ qp' \in [Thread -> [Mem -> Seq(WR)]]
  /\ \A u \in Thread \ {t} : qp'[u] = qp[u]
  /\ \A l \in Mem \ {m} : qp'[t][l] = qp[t][l]
  /\ qp'[t][m] = qp[t][m] \o ws

\* Thread t goes on with x, which is the same coroutine or the master.
Runs(t, x) ==
  /\ running' \in [Thread -> Coro \cup {Master}]
  /\ \A u \in Thread \ {t} : running'[u] = running[u]
  /\ running'[t] = x

\* Post, connection by connection.
LEMMA PostIs ==
  ASSUME TypeOK, NEW t \in Thread, NEW c \in Team(t), NEW m \in Mem,
         NEW ws \in Seq(WR), Post(c, m, ws)
  PROVE  Posts(t, m, ws)
<1>1. qp \in [Thread -> [Mem -> Seq(WR)]]
  BY DEF TypeOK
<1>2. qp' = [qp EXCEPT ![t][m] = @ \o ws]
  BY TeamOf DEF Post
<1>3. qp'[t] = [qp[t] EXCEPT ![m] = @ \o ws] /\ qp[t] \in [Mem -> Seq(WR)]
  BY <1>1, <1>2
<1>4. /\ \A l \in Mem \ {m} : qp'[t][l] = qp[t][l]
      /\ qp'[t][m] = qp[t][m] \o ws
  BY <1>3
<1>5. \A u \in Thread \ {t} : qp'[u] = qp[u]
  BY <1>1, <1>2
<1>6. qp' \in [Thread -> [Mem -> Seq(WR)]]
  BY <1>1, <1>2
<1> QED
  BY <1>4, <1>5, <1>6 DEF Posts

\* YieldIf, as the coroutine that runs afterwards.
LEMMA YieldIs ==
  ASSUME TypeOK, NEW t \in Thread, NEW c \in Team(t), running[t] = c,
         NEW waits \in BOOLEAN, YieldIf(c, waits)
  PROVE  Runs(t, IF waits THEN Master ELSE c)
<1>1. running \in [Thread -> Coro \cup {Master}]
  BY DEF TypeOK
<1>2. ThreadOf(c) = t
  BY TeamOf
<1> QED
  BY <1>1, <1>2 DEF YieldIf, Runs

AllOf(ws, c) == \A w \in Range(ws) : w.coro = c

SameLists == UNCHANGED <<starts, hot_wait_queue, cq>>

Goes(t, c, ws) == Runs(t, IF Signalled(ws, c) # {} THEN Master ELSE c)

\* Nothing but ws is new in the queue pairs.
Grown(t, m, ws) ==
  \A u \in Thread, l \in Mem : Range(qp'[u][l]) =
    Range(qp[u][l]) \cup (IF u = t /\ l = m THEN Range(ws) ELSE {})

\* A worker posts requests and yields exactly if one of them is signalled.
LEMMA PostWake ==
  ASSUME CoroInv, NEW t \in Thread, NEW c \in Team(t), running[t] = c,
         NEW m \in Mem, NEW ws \in Seq(WR),
         AllOf(ws, c), OnceAsked(ws, c), Posts(t, m, ws), SameLists,
         Goes(t, c, ws), DoneSame
  PROVE  TeamInv' /\ WakeInv' /\ Grown(t, m, ws)
<1>t. TypeOK /\ TeamInv /\ WakeInv
  BY DEF CoroInv
<1>l. UNCHANGED <<starts, hot_wait_queue, cq>>
  BY DEF SameLists
<1>q. /\ \A u \in Thread, l \in Mem : qp[u][l] \in Seq(WR)
      /\ \A u \in Thread \ {t} : qp'[u] = qp[u]
      /\ \A l \in Mem \ {m} : qp'[t][l] = qp[t][l]
      /\ qp'[t][m] = qp[t][m] \o ws
      /\ running \in [Thread -> Coro \cup {Master}]
  BY <1>t, SMTT(30) DEF TypeOK, Posts
<1> DEFINE q == qp[t][m]
           z == qp'[t][m]
<1>m. q \in Seq(WR) /\ z = q \o ws
  BY <1>q
<1> HIDE DEF q, z
<1>z. ASSUME NEW d, OnceAsked(q, d), OnceAsked(ws, d),
             Signalled(q, d) = {} \/ Signalled(ws, d) = {}
      PROVE  /\ OnceAsked(z, d)
             /\ Signalled(z, d) # {} <=>
                  Signalled(q, d) # {} \/ Signalled(ws, d) # {}
             /\ Range(z) = Range(q) \cup Range(ws)
  <2>1. Apart(q, ws, d)
    BY <1>z DEF Apart
  <2>2. Joined(q, ws, z, d)
    BY <1>m, <1>z, <2>1, AskedConcat
  <2> QED
    BY <2>2 DEF Joined
<1>r. /\ running' \in [Thread -> Coro \cup {Master}]
      /\ \A u \in Thread \ {t} : running'[u] = running[u]
      /\ running'[t] = IF Signalled(ws, c) # {} THEN Master ELSE c
  BY DEF Goes, Runs
<1>d. \A d \in Coro : co'[d].pc = "done" <=> co[d].pc = "done"
  BY DEF DoneSame
<1>c. ThreadOf(c) = t /\ c \in Coro /\ c # Master
  BY TeamOf
<1>a. WakeOK(t, c) /\ ~Asked(t, c)
  BY <1>t, RunningAlone DEF WakeInv
<1>b. \A d : d # c => Signalled(ws, d) = {}
  BY DEF AllOf, Signalled, Range
<1>1. ASSUME NEW d \in Team(t), d # c
      PROVE  WakeOK(t, d)'
  <2>1. WakeOK(t, d)
    BY <1>t DEF WakeInv
  <2>2. /\ OnceAsked(qp'[t][m], d)
        /\ Signalled(qp'[t][m], d) # {} <=> Signalled(qp[t][m], d) # {}
    <3>1. OnceAsked(qp[t][m], d) /\ OnceAsked(ws, d) /\ Signalled(ws, d) = {}
      BY <1>1, <1>b, <2>1 DEF WakeOK, OnceAsked, Unique
    <3> QED
      BY <1>z, <3>1 DEF q, z
  <2>3. Asked(t, d)' <=> Asked(t, d)
    BY <1>q, <2>2 DEF Asked
  <2>4. running[t] # d /\ running'[t] # d /\ d \in Coro
    BY <1>1, <1>r, TeamOf
  <2>5. Turns(t, d)' = Turns(t, d)
    BY <1>d, <1>l, <2>3, <2>4 DEF Turns
  <2>6. /\ \A l \in Mem : OnceAsked(qp'[t][l], d)
        /\ \A l, k \in Mem :
             Signalled(qp'[t][l], d) # {} /\ Signalled(qp'[t][k], d) # {}
               => l = k
    BY <1>q, <2>1, <2>2 DEF WakeOK
  <2> QED
    BY <1>l, <2>1, <2>5, <2>6 DEF WakeOK
<1>2. WakeOK(t, c)'
  <2>1. \A l \in Mem : Signalled(qp[t][l], c) = {}
    BY <1>a DEF Asked
  <2>2. /\ OnceAsked(qp'[t][m], c)
        /\ Signalled(qp'[t][m], c) # {} <=> Signalled(ws, c) # {}
    <3>1. /\ OnceAsked(qp[t][m], c) /\ Signalled(qp[t][m], c) = {}
          /\ OnceAsked(ws, c)
      BY <1>a, <2>1 DEF WakeOK
    <3> QED
      BY <1>z, <3>1 DEF q, z
  <2>3. Asked(t, c)' <=> Signalled(ws, c) # {}
    BY <1>q, <2>1, <2>2 DEF Asked
  <2>4. running'[t] = c <=> Signalled(ws, c) = {}
    BY <1>c, <1>r
  <2>5. Turns(t, c)' = 1
    <3>1. /\ Indices(starts[t], c) = {} /\ Indices(cq[t], c) = {}
          /\ Indices(hot_wait_queue[t], c) = {} /\ co[c].pc # "done"
      BY <1>a, RunningAlone
    <3> QED
      BY <1>c, <1>d, <1>l, <2>3, <2>4, <3>1 DEF Turns
  <2>6. /\ \A l \in Mem : OnceAsked(qp'[t][l], c)
        /\ \A l, k \in Mem :
             Signalled(qp'[t][l], c) # {} /\ Signalled(qp'[t][k], c) # {}
               => l = k
    BY <1>a, <1>q, <2>1, <2>2 DEF WakeOK
  <2> QED
    BY <1>a, <1>l, <2>5, <2>6 DEF WakeOK
<1>3. ASSUME NEW u \in Thread, NEW d \in Team(u), u # t
      PROVE  WakeOK(u, d)'
  BY <1>3, <1>t, <1>q, <1>r, <1>d, <1>l, TeamOf, WakeSame DEF WakeInv
<1>4. WakeInv'
  BY <1>1, <1>2, <1>3 DEF WakeInv
<1>5. Range(qp'[t][m]) = Range(qp[t][m]) \cup Range(ws)
  <2>1. OnceAsked(qp[t][m], c) /\ Signalled(qp[t][m], c) = {}
    BY <1>a DEF WakeOK, Asked
  <2> QED
    BY <1>z, <2>1 DEF q, z
<1>7. \A u \in Thread, l \in Mem : Range(qp'[u][l]) =
        Range(qp[u][l]) \cup (IF u = t /\ l = m THEN Range(ws) ELSE {})
  BY <1>5, <1>q
<1>8. TeamInv'
  <2>1. ASSUME NEW u \in Thread, NEW l \in Mem, NEW w \in Range(qp'[u][l])
        PROVE  w.coro \in Team(u)
    BY <1>t, <1>7, <2>1 DEF TeamInv, AllOf
  <2>2. \A u \in Thread : running'[u] \in Team(u) \cup {Master}
    BY <1>t, <1>r DEF TeamInv
  <2> QED
    BY <1>t, <1>l, <2>1, <2>2 DEF TeamInv
<1> QED
  BY <1>4, <1>7, <1>8 DEF Grown

\* Nothing is posted and no buffer touched.
LEMMA PostsKept ==
  ASSUME CoroInv, UNCHANGED <<qp, co, taken, buffer, away>>
  PROVE  PostInv' /\ QueueInv'
<1>1. \A m, w : PostedOK(m, w)' <=> PostedOK(m, w)
  BY DEF PostedOK, Intact, Contents
<1>2. PostInv'
  BY <1>1 DEF CoroInv, PostInv
<1>3. QueueInv'
  BY DEF CoroInv, QueueInv, LastAsked, Has, HasAsked
<1> QED
  BY <1>2, <1>3

\* The master takes the first of a list and resumes it.
LEMMA ResumeWake ==
  ASSUME NEW t \in Thread, NEW d \in Team(t), WakeOK(t, d),
         running[t] = Master, NEW q \in Seq(Coro), q # <<>>,
         running'[t] = Head(q), qp'[t] = qp[t], co'[d].pc = co[d].pc,
         \/ /\ q = starts[t] /\ starts'[t] = Tail(q)
            /\ hot_wait_queue'[t] = hot_wait_queue[t] /\ cq'[t] = cq[t]
         \/ /\ q = hot_wait_queue[t] /\ hot_wait_queue'[t] = Tail(q)
            /\ starts'[t] = starts[t] /\ cq'[t] = cq[t]
         \/ /\ q = cq[t] /\ cq'[t] = Tail(q)
            /\ hot_wait_queue'[t] = hot_wait_queue[t] /\ starts'[t] = starts[t]
  PROVE  WakeOK(t, d)'
<1>1. d # Master
  BY TeamOf
<1>2. Once(q, d)
  BY DEF WakeOK
<1>3. /\ Once(Tail(q), d)
      /\ Head(q) = d => Indices(q, d) # {} /\ Indices(Tail(q), d) = {}
      /\ Head(q) # d => (Indices(Tail(q), d) # {} <=> Indices(q, d) # {})
  BY <1>2, OnceTail
<1>4. Asked(t, d)' <=> Asked(t, d)
  BY DEF Asked
<1>5. Turns(t, d) = 1
  BY DEF WakeOK
<1>6. Head(q) = d => Indices(q, d) # {}
  BY <1>3
<1>7. Turns(t, d)' = 1
  <2>1. CASE q = starts[t] /\ starts'[t] = Tail(q)
             /\ hot_wait_queue'[t] = hot_wait_queue[t] /\ cq'[t] = cq[t]
    BY <1>1, <1>3, <1>4, <1>5, <2>1 DEF Turns
  <2>2. CASE q = hot_wait_queue[t] /\ hot_wait_queue'[t] = Tail(q)
             /\ starts'[t] = starts[t] /\ cq'[t] = cq[t]
    BY <1>1, <1>3, <1>4, <1>5, <2>2 DEF Turns
  <2>3. CASE q = cq[t] /\ cq'[t] = Tail(q)
             /\ hot_wait_queue'[t] = hot_wait_queue[t]
             /\ starts'[t] = starts[t]
    BY <1>1, <1>3, <1>4, <1>5, <2>3 DEF Turns
  <2> QED
    BY <2>1, <2>2, <2>3
<1> QED
  BY <1>3, <1>7 DEF WakeOK

\* coro_master: a wakeup is taken from its queue and the coroutine runs.
LEMMA MasterStep ==
  ASSUME CoroInv, NEW t \in Thread, coro_master(t)
  PROVE  CoroInv'
<1>t. TypeOK /\ TeamInv /\ WakeInv /\ PostInv
  BY DEF CoroInv
<1>u. /\ running[t] = Master
      /\ UNCHANGED <<qp, co, taken, buffer, memory, local, got, away>>
  BY DEF coro_master, history
<1>s. /\ running \in [Thread -> Coro \cup {Master}]
      /\ starts \in [Thread -> Seq(Coro)] /\ cq \in [Thread -> Seq(Coro)]
      /\ hot_wait_queue \in [Thread -> Seq(Coro)]
      /\ poll \in [Thread -> BOOLEAN]
  BY <1>t DEF TypeOK
<1>p. PostInv' /\ QueueInv'
  BY <1>u, PostsKept
<1>x. /\ qp \in [Thread -> [Mem -> Seq(WR)]]
      /\ co \in [Coro -> CR]
      /\ taken \in [Coro -> Counts]
      /\ buffer \in [Coro -> Rings]
      /\ word \in [Mem -> Thread \cup {NoTag}] /\ page \in [Mem -> Int]
      /\ local \in [Node -> [Mem -> LR]]
      /\ got \in [Coro -> [Mem -> Int]]
      /\ away \in [Coro -> [Mem -> Counts]]
  BY <1>t DEF TypeOK
<1>c. \/ starts[t] # <<>> /\ running' = [running EXCEPT ![t] = Head(starts[t])]
           /\ starts' = [starts EXCEPT ![t] = Tail(@)]
           /\ UNCHANGED <<poll, cq, hot_wait_queue>>
      \/ cq[t] # <<>> /\ running' = [running EXCEPT ![t] = Head(cq[t])]
           /\ cq' = [cq EXCEPT ![t] = Tail(@)]
           /\ UNCHANGED <<starts, hot_wait_queue>>
           /\ poll' = [poll EXCEPT ![t] = ~@]
      \/ hot_wait_queue[t] # <<>>
           /\ running' = [running EXCEPT ![t] = Head(hot_wait_queue[t])]
           /\ hot_wait_queue' = [hot_wait_queue EXCEPT ![t] = Tail(@)]
           /\ UNCHANGED <<starts, cq>>
           /\ poll' = [poll EXCEPT ![t] = ~@]
      \/ UNCHANGED <<starts, cq, hot_wait_queue, running>>
           /\ poll' = [poll EXCEPT ![t] = ~@]
  BY DEF coro_master, PollsCQ
<1>1. CASE UNCHANGED <<starts, cq, hot_wait_queue, running>>
             /\ poll' = [poll EXCEPT ![t] = ~@]
  <2>1. WakeInv'
    BY <1>t, <1>u, <1>1, WakeSame DEF WakeInv
  <2>2. TeamInv'
    BY <1>t, <1>u, <1>1 DEF TeamInv
  <2>3. TypeOK'
    BY <1>s, <1>x, <1>u, <1>1 DEF TypeOK, memory
  <2> QED
    BY <1>p, <2>1, <2>2, <2>3 DEF CoroInv
<1>2. ASSUME NEW q \in Seq(Coro), q # <<>>, Range(q) \subseteq Team(t),
             running' = [running EXCEPT ![t] = Head(q)],
             poll' \in [Thread -> BOOLEAN],
             \/ /\ q = starts[t] /\ starts' = [starts EXCEPT ![t] = Tail(@)]
                /\ UNCHANGED <<cq, hot_wait_queue>>
             \/ /\ q = cq[t] /\ cq' = [cq EXCEPT ![t] = Tail(@)]
                /\ UNCHANGED <<starts, hot_wait_queue>>
             \/ /\ q = hot_wait_queue[t]
                /\ hot_wait_queue' = [hot_wait_queue EXCEPT ![t] = Tail(@)]
                /\ UNCHANGED <<starts, cq>>
      PROVE  CoroInv'
  <2>1. /\ Head(q) \in Team(t) /\ Head(q) \in Coro /\ Tail(q) \in Seq(Coro)
        /\ Range(Tail(q)) \subseteq Team(t)
    <3>1. /\ DOMAIN q = 1..Len(q) /\ Len(q) \in Nat /\ Len(q) >= 1
          /\ Head(q) = q[1] /\ Tail(q) \in Seq(Coro)
          /\ DOMAIN Tail(q) = 1..Len(q) - 1
          /\ \A i \in 1..Len(q) - 1 : Tail(q)[i] = q[i + 1]
      BY <1>2
    <3>2. \A i \in 1..Len(q) - 1 : i + 1 \in 1..Len(q)
      BY <3>1
    <3>3. Head(q) \in Range(q) /\ Range(Tail(q)) \subseteq Range(q)
      BY <3>1, <3>2 DEF Range
    <3> QED
      BY <1>2, <3>1, <3>3, TeamOf
  <2>2. /\ running' \in [Thread -> Coro \cup {Master}]
        /\ running'[t] = Head(q)
        /\ \A u \in Thread \ {t} : running'[u] = running[u]
    BY <1>s, <1>2, <2>1
  <2>3. /\ starts' \in [Thread -> Seq(Coro)] /\ cq' \in [Thread -> Seq(Coro)]
        /\ hot_wait_queue' \in [Thread -> Seq(Coro)]
        /\ \A u \in Thread \ {t} : /\ starts'[u] = starts[u] /\ cq'[u] = cq[u]
                                   /\ hot_wait_queue'[u] = hot_wait_queue[u]
        /\ \/ /\ q = starts[t] /\ starts'[t] = Tail(q)
              /\ hot_wait_queue'[t] = hot_wait_queue[t] /\ cq'[t] = cq[t]
           \/ /\ q = hot_wait_queue[t] /\ hot_wait_queue'[t] = Tail(q)
              /\ starts'[t] = starts[t] /\ cq'[t] = cq[t]
           \/ /\ q = cq[t] /\ cq'[t] = Tail(q)
              /\ hot_wait_queue'[t] = hot_wait_queue[t]
              /\ starts'[t] = starts[t]
    <3>1. CASE q = starts[t] /\ starts' = [starts EXCEPT ![t] = Tail(@)]
               /\ UNCHANGED <<cq, hot_wait_queue>>
      BY <1>s, <2>1, <3>1
    <3>2. CASE q = cq[t] /\ cq' = [cq EXCEPT ![t] = Tail(@)]
               /\ UNCHANGED <<starts, hot_wait_queue>>
      BY <1>s, <2>1, <3>2
    <3>3. CASE q = hot_wait_queue[t]
               /\ hot_wait_queue' = [hot_wait_queue EXCEPT ![t] = Tail(@)]
               /\ UNCHANGED <<starts, cq>>
      BY <1>s, <2>1, <3>3
    <3> QED
      BY <1>2, <3>1, <3>2, <3>3
  <2>4. TypeOK'
    BY <1>2, <1>x, <1>u, <2>2, <2>3 DEF TypeOK, memory
  <2>5. TeamInv'
    BY <1>t, <1>u, <2>1, <2>2, <2>3 DEF TeamInv
  <2>6. ASSUME NEW d \in Team(t)
        PROVE  WakeOK(t, d)'
    BY <1>t, <1>u, <1>2, <2>2, <2>3, ResumeWake DEF WakeInv
  <2>7. ASSUME NEW u \in Thread \ {t}, NEW d \in Team(u)
        PROVE  WakeOK(u, d)'
    BY <1>t, <1>u, <2>2, <2>3, WakeSame DEF WakeInv
  <2>8. WakeInv'
    BY <2>6, <2>7 DEF WakeInv
  <2> QED
    BY <1>p, <2>4, <2>5, <2>8 DEF CoroInv
<1>3. /\ starts[t] \in Seq(Coro) /\ Range(starts[t]) \subseteq Team(t)
      /\ cq[t] \in Seq(Coro) /\ Range(cq[t]) \subseteq Team(t)
      /\ hot_wait_queue[t] \in Seq(Coro)
      /\ Range(hot_wait_queue[t]) \subseteq Team(t)
  BY <1>t, <1>s DEF TeamInv
<1>4. (poll' = poll \/ poll' = [poll EXCEPT ![t] = ~@])
        => poll' \in [Thread -> BOOLEAN]
  BY <1>s
<1> QED
  BY <1>c, <1>1, <1>2, <1>3, <1>4

-----------------------------------------------------------------------------
(* What is posted.                                                         *)

\* The sizes of the buffer rings.
LEMMA BufferCounts ==
  /\ BufferCnt["cas"] = kCasBufferCnt /\ BufferCnt["page"] = kPageBufferCnt
  /\ kCasBufferCnt \in Nat \ {0} /\ kPageBufferCnt \in Nat \ {0}
BY CoroAssumption DEF BufferCnt

\* What a running coroutine has under way it does not wait for, and where it
\* has just waited it has nothing left.
LEMMA RunningPosted ==
  ASSUME CoroInv, NEW t \in Thread, NEW c \in Team(t), running[t] = c,
         NEW u \in Thread, NEW l \in Mem, NEW w \in Range(qp[u][l]),
         w.coro = c
  PROVE  /\ u = t /\ w \in WR /\ w.op \in Unwaited /\ PostedOK(l, w)
         /\ co[c].pc \in Waits => co[c].at # l
<1>1. u = t /\ ThreadOf(c) = t /\ c \in Coro
  BY TeamOf DEF CoroInv, TeamInv
<1>2. qp[t][l] \in Seq(WR)
  BY DEF CoroInv, TypeOK
<1>3. ASSUME NEW x \in Range(qp[t][l]), x.coro = c
      PROVE  x \in WR /\ PostedOK(l, x) /\ x.op \notin Waits
  <2>1. PICK i \in DOMAIN qp[t][l] : x = qp[t][l][i]
    BY DEF Range
  <2>2. x \in WR
    BY <1>2, <2>1
  <2>3. ~x.signal
    <3>1. ~Asked(t, c)
      BY RunningAlone DEF CoroInv, WakeInv
    <3> QED
      BY <1>3, <2>1, <3>1 DEF Asked, Signalled
  <2>4. PostedOK(l, x)
    BY DEF CoroInv, PostInv
  <2>5. x.op \notin Waits
    BY <2>3, <2>4 DEF PostedOK
  <2> QED
    BY <2>2, <2>4, <2>5
<1>4. w \in WR /\ PostedOK(l, w) /\ w.op \notin Waits
  BY <1>1, <1>3
<1>5. w.op \in Unwaited
  BY <1>4 DEF WR, Ops, Waits, Unwaited
<1>6. ASSUME co[c].pc \in Waits, co[c].at = l
      PROVE  FALSE
  <2>1. Has(qp[t][l], c)
    BY <1>1 DEF Has
  <2>2. HasAsked(qp[t][l], c)
    BY <1>1, <1>6, <2>1 DEF CoroInv, QueueInv
  <2> QED
    BY <1>3, <2>2 DEF HasAsked
<1> QED
  BY <1>1, <1>4, <1>5, <1>6

\* Only coroutine c has moved.
Alone(c) ==
  \A d \in Coro \ {c} : /\ co'[d] = co[d] /\ taken'[d] = taken[d]
                        /\ buffer'[d] = buffer[d] /\ away'[d] = away[d]

\* What it does not wait for stays all right.
OldOK(c) ==
  \A l \in Mem : \A w \in WR :
    (/\ w.coro = c /\ w.op \in Unwaited /\ PostedOK(l, w)
     /\ co[c].pc \in Waits => co[c].at # l) => PostedOK(l, w)'

NewOK ==
  \A u \in Thread, l \in Mem : \A w \in Range(qp'[u][l]) :
    w \in Range(qp[u][l]) \/ PostedOK(l, w)'

\* The buffers that a coroutine works with are the last it took.
LastTaken(c) ==
  /\ co'[c].pc \in Active => co'[c].page = taken'[c].page
  /\ co'[c].pc \in Active \ {"search"} => co'[c].cas = taken'[c].cas

\* A step of the running coroutine.
LEMMA PostStep ==
  ASSUME CoroInv, NEW t \in Thread, NEW c \in Team(t), running[t] = c,
         Alone(c), NewOK, OldOK(c), LastTaken(c)
  PROVE  PostInv'
<1>1. ASSUME NEW u \in Thread, NEW l \in Mem, NEW w \in Range(qp'[u][l])
      PROVE  PostedOK(l, w)'
  <2>1. CASE w \notin Range(qp[u][l])
    BY <1>1, <2>1 DEF NewOK
  <2>2. CASE w \in Range(qp[u][l]) /\ w.coro = c
    <3>1. /\ w \in WR /\ w.op \in Unwaited /\ PostedOK(l, w)
          /\ co[c].pc \in Waits => co[c].at # l
      BY <2>2, RunningPosted
    <3> QED
      BY <2>2, <3>1 DEF OldOK
  <2>3. CASE w \in Range(qp[u][l]) /\ w.coro # c
    <3>1. PostedOK(l, w)
      BY <2>3 DEF CoroInv, PostInv
    <3>2. w.coro \in Coro
      BY <2>3, TeamOf DEF CoroInv, TeamInv
    <3>3. /\ co'[w.coro] = co[w.coro] /\ taken'[w.coro] = taken[w.coro]
          /\ buffer'[w.coro] = buffer[w.coro] /\ away'[w.coro] = away[w.coro]
      BY <2>3, <3>2 DEF Alone
    <3> QED
      BY <3>1, <3>3 DEF PostedOK, Intact, Contents
  <2> QED
    BY <1>1, <2>1, <2>2, <2>3
<1>2. ASSUME NEW d \in Coro
      PROVE  LastTaken(d)
  <2>1. CASE d = c
    BY <2>1
  <2>2. CASE d # c
    BY <2>2 DEF Alone, LastTaken, CoroInv, PostInv
  <2> QED
    BY <2>1, <2>2
<1> QED
  BY <1>1, <1>2 DEF PostInv, LastTaken

\* A step of the running coroutine that posts nothing and waits for nothing.
LEMMA QueueQuiet ==
  ASSUME CoroInv, NEW c \in Coro, qp' = qp,
         \A d \in Coro \ {c} : co'[d] = co[d],
         co'[c].pc \in Waits => co'[c] = co[c]
  PROVE  QueueInv'
<1>1. \A t \in Thread, m \in Mem : LastAsked(qp'[t][m])
  BY DEF CoroInv, QueueInv
<1>2. ASSUME NEW t \in Thread, NEW d \in Coro, co'[d].pc \in Waits,
             Has(qp'[t][co'[d].at], d)
      PROVE  HasAsked(qp'[t][co'[d].at], d)
  <2>1. co'[d] = co[d]
    BY <1>2
  <2> QED
    BY <1>2, <2>1 DEF CoroInv, QueueInv
<1> QED
  BY <1>1, <1>2 DEF QueueInv, LastAsked, Has, HasAsked

\* A step of the running coroutine that posts requests.
LEMMA QueuePosts ==
  ASSUME CoroInv, NEW t \in Thread, NEW c \in Team(t), running[t] = c,
         NEW m \in Mem, NEW ws \in Seq(WR), AllOf(ws, c), LastAsked(ws),
         Posts(t, m, ws), Grown(t, m, ws),
         \A d \in Coro \ {c} : co'[d] = co[d],
         co'[c].pc \in Waits => co'[c].at = m /\ HasAsked(ws, c)
  PROVE  QueueInv'
<1>q. /\ \A u \in Thread, l \in Mem : qp[u][l] \in Seq(WR)
      /\ \A u \in Thread \ {t} : qp'[u] = qp[u]
      /\ \A l \in Mem \ {m} : qp'[t][l] = qp[t][l]
      /\ qp'[t][m] = qp[t][m] \o ws
  BY SMTT(30) DEF CoroInv, TypeOK, Posts
<1>o. PICK q \in Seq(WR) : q = qp[t][m]
  BY <1>q
<1>s. q \o ws \in Seq(WR)
  OBVIOUS
<1>m. PICK z \in Seq(WR) : q = qp[t][m] /\ z = qp'[t][m] /\ z = q \o ws
  BY <1>q, <1>o, <1>s
<1>n. PICK n \in Nat, k \in Nat : n = Len(q) /\ k = Len(ws)
  OBVIOUS
<1>d. /\ DOMAIN q = 1..n /\ DOMAIN ws = 1..k /\ DOMAIN z = 1..n + k
      /\ \A i \in 1..n : z[i] = q[i]
      /\ \A i \in n+1..n+k : i - n \in 1..k /\ z[i] = ws[i - n]
  BY <1>m, <1>n
<1>1. ASSUME NEW i \in 1..n + k, NEW j \in 1..n + k, i < j,
             z[i].coro = z[j].coro
      PROVE  z[i].op \notin Waits
  <2>1. CASE j \in 1..n
    <3>1. i \in 1..n /\ z[i] = q[i] /\ z[j] = q[j]
      BY <1>1, <1>d, <2>1
    <3>2. LastAsked(q)
      BY <1>m DEF CoroInv, QueueInv
    <3> QED
      BY <1>1, <1>d, <2>1, <3>1, <3>2 DEF LastAsked
  <2>2. CASE i \in 1..n /\ j \in n+1..n+k
    <3>1. z[i] = q[i] /\ z[j] \in Range(ws)
      BY <1>d, <2>2 DEF Range
    <3>2. q[i] \in Range(qp[t][m]) /\ q[i].coro = c
      BY <1>1, <1>d, <1>m, <2>2, <3>1 DEF Range, AllOf
    <3>3. q[i].op \in Unwaited
      BY <3>2, RunningPosted
    <3> QED
      BY <3>1, <3>3 DEF Unwaited, Waits
  <2>3. CASE i \in n+1..n+k /\ j \in n+1..n+k
    <3>1. i - n < j - n
      BY <1>1
    <3> QED
      BY <1>1, <1>d, <2>3, <3>1 DEF LastAsked
  <2> QED
    BY <1>1, <2>1, <2>2, <2>3
<1>2. LastAsked(z)
  BY <1>1, <1>d DEF LastAsked
<1>3. ASSUME NEW u \in Thread, NEW l \in Mem
      PROVE  LastAsked(qp'[u][l])
  <2>1. CASE u = t /\ l = m
    BY <1>2, <1>m, <2>1
  <2>2. CASE ~(u = t /\ l = m)
    BY <1>q, <2>2 DEF CoroInv, QueueInv
  <2> QED
    BY <2>1, <2>2
<1>4. ASSUME NEW u \in Thread, NEW d \in Coro, co'[d].pc \in Waits,
             Has(qp'[u][co'[d].at], d), co'[d].at \in Mem
      PROVE  HasAsked(qp'[u][co'[d].at], d)
  <2>1. PICK w \in Range(qp'[u][co'[d].at]) : w.coro = d
    BY <1>4 DEF Has
  <2>2. CASE d = c
    <3>1. co'[c].at = m /\ HasAsked(ws, c)
      BY <1>4, <2>2
    <3>2. CASE u = t
      <4>1. Range(ws) \subseteq Range(qp'[t][m])
        BY DEF Grown
      <4> QED
        BY <2>2, <3>1, <3>2, <4>1 DEF HasAsked
    <3>3. CASE u # t
      <4>1. w \in Range(qp[u][m])
        BY <1>q, <2>1, <2>2, <3>1, <3>3
      <4> QED
        BY <2>1, <2>2, <3>3, <4>1, RunningPosted
    <3> QED
      BY <3>2, <3>3
  <2>3. CASE d # c
    <3>1. co'[d] = co[d] /\ w \notin Range(ws)
      BY <2>1, <2>3 DEF AllOf
    <3>2. w \in Range(qp[u][co[d].at])
      BY <1>4, <2>1, <3>1 DEF Grown
    <3>3. HasAsked(qp[u][co[d].at], d)
      BY <1>4, <2>1, <3>1, <3>2 DEF CoroInv, QueueInv, Has
    <3>4. Range(qp[u][co[d].at]) \subseteq Range(qp'[u][co[d].at])
      BY <1>4, <3>1 DEF Grown
    <3> QED
      BY <3>1, <3>3, <3>4 DEF HasAsked
  <2> QED
    BY <2>2, <2>3
<1>5. \A d \in Coro : co'[d].pc \in Waits => co'[d].at \in Mem
  BY DEF CoroInv, TypeOK, CR
<1> QED
  BY <1>3, <1>4, <1>5 DEF QueueInv, LastAsked, Has, HasAsked

\* A signalled request is posted, and its coroutine waits.
Synced(c, m, op, n) ==
  /\ TeamInv' /\ WakeInv' /\ QueueInv'
  /\ qp' \in [Thread -> [Mem -> Seq(WR)]]
  /\ running' \in [Thread -> Coro \cup {Master}]
  /\ \A u \in Thread, l \in Mem : Range(qp'[u][l]) \subseteq
       Range(qp[u][l])
         \cup (IF l = m THEN {Request(c, op, n, TRUE, NoTag)} ELSE {})

\* Only coroutine c has gone on, to memory node m.
Moves(c, m) == co'[c].at = m /\ \A d \in Coro \ {c} : co'[d] = co[d]

\* read_sync and cas_dm_sync: one signalled request, and the yield.
LEMMA SyncStep ==
  ASSUME CoroInv, NEW t \in Thread, NEW c \in Team(t), running[t] = c,
         NEW m \in Mem, NEW op \in Waits, NEW n \in Nat, Sync(c, m, op, n),
         SameLists, DoneSame, Moves(c, m)
  PROVE  Synced(c, m, op, n)
<1> DEFINE w == Request(c, op, n, TRUE, NoTag)
           ws == <<w>>
<1>1. ThreadOf(c) = t /\ c \in Coro
  BY TeamOf
<1>2. w \in WR /\ w.coro = c /\ w.signal /\ w.op = op
  BY <1>1 DEF Request, WR, Ops, Waits
<1>3. Post(c, m, ws) /\ Runs(t, Master)
  BY YieldIs DEF Sync, CoroInv
<1> HIDE DEF w
<1>4. /\ ws \in Seq(WR) /\ Range(ws) = {w} /\ Signalled(ws, c) = {1}
      /\ DOMAIN ws = {1}
  BY <1>2 DEF Range, Signalled
<1>5. /\ OnceAsked(ws, c) /\ Signalled(ws, c) # {}
      /\ AllOf(ws, c) /\ LastAsked(ws) /\ HasAsked(ws, c)
  BY <1>2, <1>4 DEF OnceAsked, Unique, AllOf, LastAsked, HasAsked
<1> HIDE DEF ws
<1>r. Goes(t, c, ws)
  BY <1>3, <1>5 DEF Goes
<1>p. Posts(t, m, ws)
  BY <1>3, <1>4, PostIs DEF CoroInv
<1>6. TeamInv' /\ WakeInv' /\ Grown(t, m, ws)
  BY <1>4, <1>5, <1>r, <1>p, PostWake
<1>7. \A u \in Thread, l \in Mem :
        Range(qp'[u][l]) \subseteq
          Range(qp[u][l]) \cup (IF l = m THEN {w} ELSE {})
  BY <1>4, <1>6 DEF Grown
<1>8. QueueInv'
  BY <1>4, <1>5, <1>p, <1>6, QueuePosts DEF Moves
<1> QED
  BY <1>3, <1>p, <1>6, <1>7, <1>8 DEF w, Posts, Runs, Synced

\* Elsewhere counts the buffers for the other memory nodes and no others.
LEMMA ElsewhereIs ==
  ASSUME TypeOK, NEW c \in Coro, NEW m \in Mem, NEW a \in Nat, NEW b \in Nat,
         NEW f, f = Elsewhere(c, m, [cas |-> a, page |-> b])
  PROVE  /\ f \in [Coro -> [Mem -> Counts]]
         /\ \A d \in Coro \ {c} : f[d] = away[d]
         /\ f[c][m] = away[c][m]
         /\ \A l \in Mem \ {m} : /\ f[c][l]["cas"] = away[c][l]["cas"] + a
                                 /\ f[c][l]["page"] = away[c][l]["page"] + b
<1>1. away \in [Coro -> [Mem -> Counts]]
  BY DEF TypeOK
<1>2. PICK g : g = [l \in Mem |-> IF l = m THEN away[c][l] ELSE
                      [cas |-> away[c][l].cas + a,
                       page |-> away[c][l].page + b]]
  OBVIOUS
<1>3. f = [away EXCEPT ![c] = g]
  BY <1>2 DEF Elsewhere
<1>4. ASSUME NEW l \in Mem
      PROVE  away[c][l].cas \in Nat /\ away[c][l].page \in Nat
  BY <1>1 DEF Counts
<1>5. g \in [Mem -> Counts]
  BY <1>1, <1>2, <1>4 DEF Counts
<1>6. f[c] = g /\ f \in [Coro -> [Mem -> Counts]]
      /\ \A d \in Coro \ {c} : f[d] = away[d]
  BY <1>1, <1>3, <1>5
<1> QED
  BY <1>2, <1>6

\* A request takes its buffers.
LEMMA TakeIs ==
  ASSUME TypeOK, NEW c \in Coro, NEW m \in Mem, NEW a \in Nat, NEW b \in Nat,
         Take(c, m, [cas |-> a, page |-> b])
  PROVE  /\ taken' \in [Coro -> Counts]
         /\ taken[c]["cas"] \in Nat /\ taken[c]["page"] \in Nat
         /\ taken'[c]["cas"] = taken[c]["cas"] + a
         /\ taken'[c]["page"] = taken[c]["page"] + b
         /\ \A d \in Coro \ {c} : taken'[d] = taken[d] /\ away'[d] = away[d]
         /\ away' \in [Coro -> [Mem -> Counts]]
         /\ away'[c][m] = away[c][m]
         /\ \A l \in Mem \ {m} :
              /\ away'[c][l]["cas"] = away[c][l]["cas"] + a
              /\ away'[c][l]["page"] = away[c][l]["page"] + b
<1>1. /\ taken \in [Coro -> Counts]
      /\ taken[c].cas \in Nat /\ taken[c].page \in Nat
  BY DEF TypeOK, Counts
<1>2. taken' = [taken EXCEPT ![c] = [cas |-> taken[c].cas + a,
                                     page |-> taken[c].page + b]]
  BY DEF Take
<1>3. /\ taken' \in [Coro -> Counts]
      /\ \A d \in Coro \ {c} : taken'[d] = taken[d]
      /\ taken'[c] = [cas |-> taken[c].cas + a, page |-> taken[c].page + b]
  BY <1>1, <1>2 DEF Counts
<1>4. away' = Elsewhere(c, m, [cas |-> a, page |-> b])
  BY DEF Take
<1> QED
  BY <1>1, <1>3, <1>4, ElsewhereIs

\* The requests under way are not touched by what takes new buffers.
LEMMA TakeOld ==
  ASSUME TypeOK, NEW c \in Coro, NEW m \in Mem, NEW a \in Nat, NEW b \in Nat,
         Take(c, m, [cas |-> a, page |-> b]), UNCHANGED buffer,
         co[c].pc = "idle", co'[c].pc \in {"search", "spin"}, co'[c].at = m,
         co'[c]["page"] = taken[c]["page"] + 1,
         co'[c].pc = "spin" => co'[c]["cas"] = taken[c]["cas"] + 1
  PROVE  OldOK(c)
<1>a. /\ taken[c]["cas"] \in Nat /\ taken[c]["page"] \in Nat
      /\ taken'[c]["cas"] = taken[c]["cas"] + a
      /\ taken'[c]["page"] = taken[c]["page"] + b
      /\ away'[c][m] = away[c][m]
      /\ \A l \in Mem \ {m} :
           /\ away'[c][l]["cas"] = away[c][l]["cas"] + a
           /\ away'[c][l]["page"] = away[c][l]["page"] + b
  BY TakeIs
<1>n. \A l \in Mem : away[c][l]["cas"] \in Nat /\ away[c][l]["page"] \in Nat
  BY DEF TypeOK, Counts
<1>1. ASSUME NEW l \in Mem, NEW w \in WR, w.coro = c, w.op \in Unwaited,
             PostedOK(l, w)
      PROVE  PostedOK(l, w)'
  <2>1. w.n \in Nat /\ w.op \notin Waits
    BY <1>1 DEF WR, Unwaited, Waits
  <2>2. Intact(w)' <=> Intact(w)
    BY DEF Intact, Contents
  <2>3. CASE w.op = "write"
    <3>1. KindOf(w.op) = "page"
      BY <2>3 DEF KindOf
    <3>2. /\ w.n <= taken[c]["page"]
          /\ taken[c]["page"] - w.n <= away[c][l]["page"]
          /\ away[c][l]["page"] < BufferCnt["page"] => Intact(w)
      BY <1>1, <3>1 DEF PostedOK, Active, Waits
    <3>3. /\ w.n <= taken'[c]["page"] /\ w.n < co'[c]["page"]
          /\ l # m => taken'[c]["page"] - w.n <= away'[c][l]["page"]
          /\ away'[c][l]["page"] >= away[c][l]["page"]
      BY <1>a, <1>n, <2>1, <3>2
    <3>4. away'[c][l]["page"] < BufferCnt["page"] => Intact(w)'
      BY <1>a, <1>n, <2>2, <3>2, <3>3, BufferCounts
    <3> QED
      BY <1>1, <2>1, <3>1, <3>3, <3>4 DEF PostedOK, Active, Waits
  <2>4. CASE w.op = "unlock"
    <3>1. KindOf(w.op) = "cas"
      BY <2>4 DEF KindOf
    <3>2. /\ w.n <= taken[c]["cas"]
          /\ taken[c]["cas"] - w.n <= away[c][l]["cas"]
          /\ away[c][l]["cas"] < BufferCnt["cas"] => Intact(w)
      BY <1>1, <3>1 DEF PostedOK, Active, Waits
    <3>3. /\ w.n <= taken'[c]["cas"]
          /\ co'[c].pc # "search" => w.n < co'[c]["cas"]
          /\ l # m => taken'[c]["cas"] - w.n <= away'[c][l]["cas"]
          /\ away'[c][l]["cas"] >= away[c][l]["cas"]
      BY <1>a, <1>n, <2>1, <3>2
    <3>4. away'[c][l]["cas"] < BufferCnt["cas"] => Intact(w)'
      BY <1>a, <1>n, <2>2, <3>2, <3>3, BufferCounts
    <3> QED
      BY <1>1, <2>1, <3>1, <3>3, <3>4 DEF PostedOK, Active, Waits
  <2> QED
    BY <1>1, <2>3, <2>4 DEF Unwaited
<1> QED
  BY <1>1 DEF OldOK

\* Search: a page buffer is taken and a signalled read posted.
LEMMA SearchStep ==
  ASSUME CoroInv, NEW t \in Thread, NEW c \in Team(t), NEW m \in Mem,
         Search(c, m)
  PROVE  CoroInv'
<1>t. TypeOK
  BY DEF CoroInv
<1>c. ThreadOf(c) = t /\ c \in Coro
  BY TeamOf
<1>n. PICK n \in Nat : n = taken[c].page + 1
  BY <1>t, <1>c DEF TypeOK, Counts
<1>1. /\ running[t] = c /\ co[c].pc = "idle" /\ co[c].left[m] > 0
      /\ Take(c, m, [cas |-> 0, page |-> 1])
      /\ Sync(c, m, "search", n)
      /\ co' = [co EXCEPT ![c].pc = "search", ![c].at = m, ![c].page = n,
                          ![c].left = Left(c, m)]
      /\ UNCHANGED <<poll, starts, hot_wait_queue, cq, buffer, memory, local,
                     got>>
  BY <1>c, <1>n DEF Search, At, NextBuffer
<1>2. /\ co' \in [Coro -> CR]
      /\ co'[c].pc = "search" /\ co'[c].at = m /\ co'[c].page = n
      /\ co'[c]["page"] = n
      /\ \A d \in Coro \ {c} : co'[d] = co[d]
  <2>1. co \in [Coro -> CR]
    BY <1>t DEF TypeOK
  <2>2. Left(c, m) \in [Mem -> Nat]
    BY <1>c, <1>1, <2>1 DEF CR, Left
  <2>3. PICK r : r = [co[c] EXCEPT !.pc = "search", !.at = m, !.page = n,
                                   !.left = Left(c, m)]
    OBVIOUS
  <2>4. r \in CR /\ r.pc = "search" /\ r.at = m /\ r.page = n
    BY <1>c, <2>1, <2>2, <2>3 DEF CR, Pcs
  <2>5. co' = [co EXCEPT ![c] = r]
    BY <1>1, <2>3
  <2> QED
    BY <1>c, <2>1, <2>4, <2>5
<1>3. /\ taken' \in [Coro -> Counts] /\ away' \in [Coro -> [Mem -> Counts]]
      /\ taken'[c]["page"] = n /\ taken[c]["page"] = n - 1
      /\ \A d \in Coro \ {c} : taken'[d] = taken[d] /\ away'[d] = away[d]
  <2>1. Take(c, m, [cas |-> 0, page |-> 1])
    BY <1>1
  <2>2. /\ taken' \in [Coro -> Counts] /\ away' \in [Coro -> [Mem -> Counts]]
        /\ taken'[c]["page"] = taken[c]["page"] + 1
        /\ taken[c]["page"] \in Nat
        /\ \A d \in Coro \ {c} : taken'[d] = taken[d] /\ away'[d] = away[d]
    BY <1>c, <1>t, <2>1, TakeIs
  <2>3. PICK k \in Nat : k = taken[c]["page"]
    BY <2>2
  <2>4. n = k + 1
    BY <1>n, <2>3
  <2>5. n = taken[c]["page"] + 1 /\ k = n - 1
    BY <2>3, <2>4
  <2>6. taken'[c]["page"] = n
    BY <2>2, <2>5
  <2>7. taken[c]["page"] = n - 1
    BY <2>3, <2>5
  <2> QED
    BY <2>2, <2>6, <2>7
<1>s. Synced(c, m, "search", n)
  <2>1. DoneSame /\ SameLists /\ Moves(c, m)
    BY <1>1, <1>2 DEF DoneSame, SameLists, Moves
  <2>2. "search" \in Waits
    BY DEF Waits
  <2> QED
    BY <1>n, <1>1, <2>1, <2>2, SyncStep
<1>4. /\ TeamInv' /\ WakeInv' /\ QueueInv'
      /\ qp' \in [Thread -> [Mem -> Seq(WR)]]
      /\ running' \in [Thread -> Coro \cup {Master}]
      /\ \A u \in Thread, l \in Mem : Range(qp'[u][l]) \subseteq
           Range(qp[u][l]) \cup
             (IF l = m THEN {Request(c, "search", n, TRUE, NoTag)} ELSE {})
  BY <1>s DEF Synced
<1>5. TypeOK'
  BY <1>t, <1>1, <1>2, <1>3, <1>4 DEF TypeOK, memory
<1>6. OldOK(c)
  BY <1>c, <1>n, <1>t, <1>1, <1>2, <1>3, TakeOld
<1>7. PostedOK(m, Request(c, "search", n, TRUE, NoTag))'
  <2> DEFINE w == Request(c, "search", n, TRUE, NoTag)
  <2>1. w.coro = c /\ w.op = "search" /\ w.n = n /\ w.signal
    BY DEF Request
  <2>2. KindOf(w.op) = "page"
    BY <2>1 DEF KindOf
  <2> HIDE DEF w
  <2>3. PostedOK(m, w)'
    BY <1>2, <2>1, <2>2 DEF PostedOK, Waits, Unwaited
  <2> QED
    BY <2>3 DEF w
<1>8. Alone(c)
  BY <1>1, <1>2, <1>3 DEF Alone
<1>9. NewOK
  BY <1>4, <1>7 DEF NewOK
<1>l. LastTaken(c)
  BY <1>2, <1>3 DEF LastTaken
<1>10. PostInv'
  BY <1>1, <1>6, <1>8, <1>9, <1>l, PostStep
<1> QED
  BY <1>4, <1>5, <1>10 DEF CoroInv

\* A worker runs on without posting anything.
LEMMA QuietStep ==
  ASSUME CoroInv, UNCHANGED <<client, qp>>, DoneSame
  PROVE  TeamInv' /\ WakeInv'
<1>1. UNCHANGED <<running, starts, hot_wait_queue, cq, qp>>
  BY DEF client
<1>2. ASSUME NEW t \in Thread, NEW c \in Team(t)
      PROVE  WakeOK(t, c)'
  BY <1>1, TeamOf, WakeSame DEF CoroInv, WakeInv, DoneSame
<1>3. TeamInv'
  BY <1>1 DEF CoroInv, TeamInv
<1> QED
  BY <1>2, <1>3 DEF WakeInv

\* A coroutine that gives up its buffers.
LEMMA LeaveStep ==
  ASSUME CoroInv, NEW t \in Thread, NEW c \in Team(t), running[t] = c,
         NEW pc \in {"idle", "done"}, Goto(c, pc),
         UNCHANGED <<qp, taken, buffer, away>>,
         co[c].pc \in Active => co[c].pc \in Waits
  PROVE  /\ PostInv' /\ QueueInv' /\ co' \in [Coro -> CR]
         /\ co'[c].pc = pc /\ \A d \in Coro \ {c} : co'[d] = co[d]
<1>c. c \in Coro
  BY TeamOf
<1>1. /\ co' \in [Coro -> CR] /\ co'[c].pc = pc
      /\ \A d \in Coro \ {c} : co'[d] = co[d]
  <2>1. co \in [Coro -> CR]
    BY DEF CoroInv, TypeOK
  <2>2. PICK r : r = [co[c] EXCEPT !.pc = pc]
    OBVIOUS
  <2>3. r \in CR /\ r.pc = pc
    BY <1>c, <2>1, <2>2 DEF CR, Pcs
  <2>4. co' = [co EXCEPT ![c] = r]
    BY <2>2 DEF Goto
  <2> QED
    BY <1>c, <2>1, <2>3, <2>4
<1>2. QueueInv'
  BY <1>c, <1>1, QueueQuiet DEF Waits
<1>3. ASSUME NEW l \in Mem, NEW w \in WR, w.coro = c, w.op \in Unwaited,
             PostedOK(l, w), co[c].pc \in Waits => co[c].at # l
      PROVE  PostedOK(l, w)'
  <2>1. ~(co[c].pc \in Active /\ co[c].at = l)
    BY <1>3
  <2>2. Intact(w)' <=> Intact(w)
    BY DEF Intact, Contents
  <2>3. w.op \notin Waits /\ co'[c].pc \notin Active
    BY <1>1, <1>3 DEF Unwaited, Waits, Active
  <2> QED
    BY <1>3, <2>1, <2>2, <2>3 DEF PostedOK
<1>4. OldOK(c)
  BY <1>3 DEF OldOK
<1>5. NewOK /\ Alone(c) /\ LastTaken(c)
  BY <1>1 DEF NewOK, Alone, LastTaken, Active, Waits
<1>6. PostInv'
  BY <1>4, <1>5, PostStep
<1> QED
  BY <1>1, <1>2, <1>6

\* A worker ends a request.
LEMMA GotoIdle ==
  ASSUME CoroInv, NEW t \in Thread, NEW c \in Team(t), running[t] = c,
         Goto(c, "idle"),
         UNCHANGED <<client, qp, taken, buffer, memory, history>>,
         local' \in [Node -> [Mem -> LR]],
         co[c].pc \in {"search", "release"}
  PROVE  CoroInv'
<1>t. TypeOK
  BY DEF CoroInv
<1>u. UNCHANGED <<qp, taken, buffer, got, away>>
  BY DEF history
<1>2. /\ PostInv' /\ QueueInv' /\ co' \in [Coro -> CR]
      /\ co'[c].pc = "idle" /\ \A d \in Coro \ {c} : co'[d] = co[d]
  BY <1>u, LeaveStep DEF Active, Waits
<1>3. DoneSame
  BY <1>2 DEF DoneSame
<1>4. TeamInv' /\ WakeInv'
  BY <1>3, QuietStep
<1>5. TypeOK'
  BY <1>t, <1>u, <1>2 DEF TypeOK, memory, client
<1> QED
  BY <1>2, <1>4, <1>5 DEF CoroInv

\* The search has its page.
LEMMA EndSearchStep ==
  ASSUME CoroInv, NEW t \in Thread, NEW c \in Team(t), EndSearch(c)
  PROVE  CoroInv'
<1>1. /\ running[t] = c /\ co[c].pc = "search" /\ Goto(c, "idle")
      /\ UNCHANGED <<client, qp, taken, buffer, memory, local, history>>
  BY TeamOf DEF EndSearch, At
<1>2. local' \in [Node -> [Mem -> LR]]
  BY <1>1 DEF CoroInv, TypeOK
<1> QED
  BY <1>1, <1>2, GotoIdle

\* A field of a LocalLockNode changes.
LEMMA LocalIs ==
  ASSUME TypeOK, NEW n \in Node, NEW m \in Mem, NEW r \in LR,
         local' = [local EXCEPT ![n][m] = r]
  PROVE  local' \in [Node -> [Mem -> LR]]
<1>1. local \in [Node -> [Mem -> LR]]
  BY DEF TypeOK
<1>2. [local[n] EXCEPT ![m] = r] \in [Mem -> LR]
  BY <1>1
<1>3. local' = [local EXCEPT ![n] = [local[n] EXCEPT ![m] = r]]
  OBVIOUS
<1> QED
  BY <1>1, <1>2, <1>3

\* releases_local_lock after the unlock.
LEMMA ReleaseStep ==
  ASSUME CoroInv, NEW t \in Thread, NEW c \in Team(t), Release(c)
  PROVE  CoroInv'
<1>c. /\ ThreadOf(c) = t /\ c \in Coro /\ NodeOf[t] \in Node
      /\ co[c].at \in Mem
  BY TeamOf, CoroAssumption DEF CoroInv, TypeOK, CR
<1>1. /\ running[t] = c /\ co[c].pc = "release" /\ Goto(c, "idle")
      /\ UNCHANGED <<client, qp, taken, buffer, memory, history>>
      /\ local' = [local EXCEPT ![NodeOf[t]][co[c].at].current = @ + 1]
  BY <1>c DEF Release, At
<1>2. local' \in [Node -> [Mem -> LR]]
  <2>1. local[NodeOf[t]][co[c].at] \in LR
    BY <1>c DEF CoroInv, TypeOK
  <2>2. PICK r : r = [local[NodeOf[t]][co[c].at] EXCEPT
                        !.current = local[NodeOf[t]][co[c].at].current + 1]
    OBVIOUS
  <2>3. r \in LR
    BY <2>1, <2>2 DEF LR
  <2>4. local' = [local EXCEPT ![NodeOf[t]][co[c].at] = r]
    BY <1>1, <2>2
  <2> QED
    BY <1>c, <2>3, <2>4, LocalIs DEF CoroInv
<1> QED
  BY <1>1, <1>2, GotoIdle

\* A store takes its buffers and a ticket.
LEMMA StoreStep ==
  ASSUME CoroInv, NEW t \in Thread, NEW c \in Team(t), NEW m \in Mem,
         Store(c, m)
  PROVE  CoroInv'
<1>t. TypeOK
  BY DEF CoroInv
<1>c. ThreadOf(c) = t /\ c \in Coro /\ NodeOf[t] \in Node
  BY TeamOf, CoroAssumption
<1>l. local[NodeOf[t]][m] \in LR
  BY <1>c, <1>t DEF TypeOK
<1>n. PICK p \in Nat, s \in Nat : p = taken[c].page + 1 /\ s = taken[c].cas + 1
  <2>1. taken[c].page + 1 \in Nat /\ taken[c].cas + 1 \in Nat
    BY <1>t, <1>c DEF TypeOK, Counts
  <2> QED
    BY <2>1
<1>1. /\ running[t] = c /\ co[c].pc = "idle" /\ co[c].left[m] > 0
      /\ Take(c, m, [cas |-> 1, page |-> 1])
      /\ co' = [co EXCEPT ![c] = [pc |-> "spin", at |-> m, cas |-> s,
                                  page |-> p,
                                  my |-> local[NodeOf[t]][m].ticket,
                                  left |-> Left(c, m)]]
      /\ local' = [local EXCEPT ![NodeOf[t]][m].ticket = @ + 1]
      /\ UNCHANGED <<client, qp, buffer, memory, got>>
  BY <1>c, <1>n DEF Store, At, NextBuffer
<1>2. /\ co' \in [Coro -> CR]
      /\ co'[c].pc = "spin" /\ co'[c].at = m
      /\ co'[c].cas = s /\ co'[c].page = p
      /\ \A d \in Coro \ {c} : co'[d] = co[d]
  <2>1. co \in [Coro -> CR]
    BY <1>t DEF TypeOK
  <2>2. Left(c, m) \in [Mem -> Nat]
    BY <1>c, <1>1, <2>1 DEF CR, Left
  <2>3. local[NodeOf[t]][m].ticket \in Nat
    BY <1>l DEF LR
  <2>4. PICK r : r = [pc |-> "spin", at |-> m, cas |-> s, page |-> p,
                      my |-> local[NodeOf[t]][m].ticket,
                      left |-> Left(c, m)]
    OBVIOUS
  <2>5. r \in CR /\ r.pc = "spin" /\ r.at = m /\ r.cas = s /\ r.page = p
    BY <1>n, <2>2, <2>3, <2>4 DEF CR, Pcs
  <2>6. co' = [co EXCEPT ![c] = r]
    BY <1>1, <2>4
  <2> QED
    BY <1>c, <2>1, <2>5, <2>6
<1>3. /\ taken' \in [Coro -> Counts] /\ away' \in [Coro -> [Mem -> Counts]]
      /\ taken'[c]["page"] = p /\ taken'[c]["cas"] = s
      /\ \A d \in Coro \ {c} : taken'[d] = taken[d] /\ away'[d] = away[d]
  BY <1>c, <1>n, <1>t, <1>1, TakeIs
<1>4. TeamInv' /\ WakeInv'
  <2>1. DoneSame
    BY <1>1, <1>2 DEF DoneSame
  <2> QED
    BY <1>1, <2>1, QuietStep
<1>q. QueueInv'
  <2>1. qp' = qp /\ co'[c].pc \notin Waits
    BY <1>1, <1>2 DEF Waits
  <2> QED
    BY <1>c, <1>2, <2>1, QueueQuiet
<1>5. TypeOK'
  <2>1. PICK r : r = [local[NodeOf[t]][m] EXCEPT
                        !.ticket = local[NodeOf[t]][m].ticket + 1]
    OBVIOUS
  <2>2. r \in LR
    BY <1>l, <2>1 DEF LR
  <2>3. local' = [local EXCEPT ![NodeOf[t]][m] = r]
    BY <1>1, <2>1
  <2>4. local' \in [Node -> [Mem -> LR]]
    BY <1>c, <1>t, <2>2, <2>3, LocalIs
  <2> QED
    BY <1>t, <1>1, <1>2, <1>3, <2>4 DEF TypeOK, memory, client
<1>6. OldOK(c)
  <2>1. /\ co'[c]["page"] = taken[c]["page"] + 1
        /\ co'[c]["cas"] = taken[c]["cas"] + 1
    BY <1>n, <1>2
  <2> QED
    BY <1>c, <1>t, <1>1, <1>2, <2>1, TakeOld
<1>7. Alone(c)
  BY <1>1, <1>2, <1>3 DEF Alone
<1>8. NewOK /\ LastTaken(c)
  BY <1>1, <1>2, <1>3 DEF NewOK, LastTaken
<1>9. PostInv'
  BY <1>1, <1>6, <1>7, <1>8, PostStep
<1> QED
  BY <1>4, <1>5, <1>9, <1>q DEF CoroInv

\* lock_and_read_page's CAS and read, in the buffers that the store took.
LEMMA AskStep ==
  ASSUME CoroInv, NEW t \in Thread, NEW c \in Team(t), running[t] = c,
         NEW op \in {"cas", "read"}, Ask(c, op), co[c].pc \in {"spin", "cas"},
         UNCHANGED <<poll, starts, hot_wait_queue, cq, taken, buffer, memory,
                     history>>,
         local' \in [Node -> [Mem -> LR]]
  PROVE  CoroInv'
<1>t. TypeOK /\ PostInv
  BY DEF CoroInv
<1>c. ThreadOf(c) = t /\ c \in Coro /\ co[c] \in CR
  BY <1>t, TeamOf DEF TypeOK
<1>u. UNCHANGED <<taken, buffer, got, away>>
  BY DEF history
<1>m. PICK m \in Mem : m = co[c].at
  BY <1>c DEF CR
<1>n. PICK n \in Nat : n = co[c][KindOf(op)]
  BY <1>c DEF CR, KindOf
<1>1. Goto(c, op) /\ Sync(c, m, op, n)
  BY <1>m, <1>n DEF Ask
<1>2. /\ co' \in [Coro -> CR]
      /\ co'[c].pc = op /\ co'[c].at = m
      /\ co'[c].cas = co[c].cas /\ co'[c].page = co[c].page
      /\ \A d \in Coro \ {c} : co'[d] = co[d]
  <2>1. co \in [Coro -> CR]
    BY <1>t DEF TypeOK
  <2>2. PICK r : r = [co[c] EXCEPT !.pc = op]
    OBVIOUS
  <2>3. /\ r \in CR /\ r.pc = op /\ r.at = m
        /\ r.cas = co[c].cas /\ r.page = co[c].page
    BY <1>c, <1>m, <2>2 DEF CR, Pcs
  <2>4. co' = [co EXCEPT ![c] = r]
    BY <1>1, <2>2 DEF Goto
  <2> QED
    BY <1>c, <2>1, <2>3, <2>4
<1>3. co[c].cas = taken[c].cas /\ co[c].page = taken[c].page
  BY <1>c, <1>t DEF PostInv, Active, Waits
<1>s. Synced(c, m, op, n)
  <2>1. DoneSame /\ Moves(c, m) /\ SameLists
    BY <1>2 DEF DoneSame, Moves, SameLists
  <2>2. op \in Waits
    BY DEF Waits
  <2> QED
    BY <1>1, <2>1, <2>2, SyncStep
<1>4. /\ TeamInv' /\ WakeInv' /\ QueueInv'
      /\ qp' \in [Thread -> [Mem -> Seq(WR)]]
      /\ running' \in [Thread -> Coro \cup {Master}]
      /\ \A u \in Thread, l \in Mem : Range(qp'[u][l]) \subseteq
           Range(qp[u][l]) \cup
             (IF l = m THEN {Request(c, op, n, TRUE, NoTag)} ELSE {})
  BY <1>s DEF Synced
<1>5. TypeOK'
  BY <1>t, <1>u, <1>2, <1>4 DEF TypeOK, memory
<1>6. ASSUME NEW l \in Mem, NEW w \in WR, w.coro = c, w.op \in Unwaited,
             PostedOK(l, w)
      PROVE  PostedOK(l, w)'
  <2>1. w.op \notin Waits /\ (Intact(w)' <=> Intact(w))
    BY <1>u, <1>6 DEF Unwaited, Waits, Intact, Contents
  <2>2. KindOf(w.op) \in {"cas", "page"}
    BY DEF KindOf
  <2>3. /\ co'[c]["cas"] = co[c]["cas"] /\ co'[c]["page"] = co[c]["page"]
        /\ co[c].pc \in Active \ {"search"}
        /\ co'[c].pc \in Active \ {"search"}
        /\ co'[c].at = co[c].at
    BY <1>2, <1>m DEF Active, Waits
  <2>4. co'[c][KindOf(w.op)] = co[c][KindOf(w.op)]
    BY <2>2, <2>3
  <2> QED
    BY <1>u, <1>6, <2>1, <2>3, <2>4 DEF PostedOK
<1>7. PostedOK(m, Request(c, op, n, TRUE, NoTag))'
  <2> DEFINE w == Request(c, op, n, TRUE, NoTag)
  <2>1. w.coro = c /\ w.op = op /\ w.n = n /\ w.signal
    BY DEF Request
  <2>2. n = co'[c][KindOf(op)] /\ op \notin Unwaited
    BY <1>2, <1>n DEF KindOf, Unwaited
  <2> HIDE DEF w
  <2>3. PostedOK(m, w)'
    BY <1>2, <2>1, <2>2 DEF PostedOK
  <2> QED
    BY <2>3 DEF w
<1>8. Alone(c) /\ OldOK(c)
  BY <1>u, <1>2, <1>6 DEF Alone, OldOK
<1>9. NewOK /\ LastTaken(c)
  BY <1>u, <1>2, <1>3, <1>4, <1>7 DEF NewOK, LastTaken
<1>10. PostInv'
  BY <1>8, <1>9, PostStep
<1> QED
  BY <1>4, <1>5, <1>10 DEF CoroInv

\* acquire_local_lock has succeeded, and the lock is taken or was handed over.
LEMMA EnterStep ==
  ASSUME CoroInv, NEW t \in Thread, NEW c \in Team(t), Enter(c)
  PROVE  CoroInv'
<1>c. /\ ThreadOf(c) = t /\ c \in Coro /\ NodeOf[t] \in Node
      /\ co[c].at \in Mem
  BY TeamOf, CoroAssumption DEF CoroInv, TypeOK, CR
<1>1. /\ running[t] = c /\ co[c].pc = "spin"
      /\ local' = [local EXCEPT ![NodeOf[t]][co[c].at].hand_time = @ + 1]
      /\ Ask(c, "read") \/ Ask(c, "cas")
      /\ UNCHANGED <<poll, starts, hot_wait_queue, cq, taken, buffer, memory,
                     history>>
  BY <1>c DEF Enter, At
<1>2. local' \in [Node -> [Mem -> LR]]
  <2>1. local[NodeOf[t]][co[c].at] \in LR
    BY <1>c DEF CoroInv, TypeOK
  <2>2. PICK r : r = [local[NodeOf[t]][co[c].at] EXCEPT
                        !.hand_time = local[NodeOf[t]][co[c].at].hand_time + 1]
    OBVIOUS
  <2>3. r \in LR
    BY <2>1, <2>2 DEF LR
  <2>4. local' = [local EXCEPT ![NodeOf[t]][co[c].at] = r]
    BY <1>1, <2>2
  <2> QED
    BY <1>c, <2>3, <2>4, LocalIs DEF CoroInv
<1> QED
  BY <1>1, <1>2, AskStep

\* try_lock_addr looks at what its CAS returned.
LEMMA TestCasStep ==
  ASSUME CoroInv, NEW t \in Thread, NEW c \in Team(t), TestCas(c)
  PROVE  CoroInv'
<1>1. /\ running[t] = c /\ co[c].pc = "cas"
      /\ Ask(c, "read") \/ Ask(c, "cas")
      /\ UNCHANGED <<poll, starts, hot_wait_queue, cq, taken, buffer, memory,
                     local, history>>
  BY TeamOf DEF TestCas, At
<1>2. local' \in [Node -> [Mem -> LR]]
  BY <1>1 DEF CoroInv, TypeOK
<1> QED
  BY <1>1, <1>2, AskStep

\* A coroutine that has to wait yields through the hot wait queue.
LEMMA WaitStep ==
  ASSUME CoroInv, NEW t \in Thread, NEW c \in Team(t), Wait(c)
  PROVE  CoroInv'
<1>t. TypeOK /\ TeamInv /\ WakeInv /\ PostInv
  BY DEF CoroInv
<1>c. ThreadOf(c) = t /\ c \in Coro /\ c # Master
  BY TeamOf
<1>1. /\ running[t] = c /\ co[c].pc = "spin"
      /\ hot_wait_queue' = [hot_wait_queue EXCEPT ![t] = Append(@, c)]
      /\ YieldIf(c, TRUE)
      /\ UNCHANGED <<poll, starts, cq, qp, co, taken, buffer, memory, local,
                     got, away>>
  BY <1>c DEF Wait, At, history
<1>2. Runs(t, Master)
  BY <1>t, <1>1, YieldIs
<1>3. /\ hot_wait_queue[t] \in Seq(Coro)
      /\ hot_wait_queue' \in [Thread -> Seq(Coro)]
      /\ hot_wait_queue'[t] = Append(hot_wait_queue[t], c)
      /\ \A u \in Thread \ {t} : hot_wait_queue'[u] = hot_wait_queue[u]
  <2>1. hot_wait_queue \in [Thread -> Seq(Coro)]
    BY <1>t DEF TypeOK
  <2> QED
    BY <1>c, <1>1, <2>1
<1>4. TypeOK'
  BY <1>t, <1>1, <1>2, <1>3 DEF TypeOK, memory, Runs
<1>5. TeamInv'
  <2>1. Range(hot_wait_queue'[t]) = Range(hot_wait_queue[t]) \cup {c}
    <3>1. PICK q \in Seq(Coro) : q = hot_wait_queue[t]
      BY <1>3
    <3>2. Range(Append(q, c)) = Range(q) \cup {c}
      BY <1>c, IndicesAppend
    <3> QED
      BY <1>3, <3>1, <3>2
  <2> QED
    BY <1>t, <1>1, <1>2, <1>3, <2>1 DEF TeamInv, Runs
<1>6. ASSUME NEW d \in Team(t)
      PROVE  WakeOK(t, d)'
  <2>1. WakeOK(t, d) /\ (d = c => RunningOnly(t, c))
    BY <1>1, <1>t, RunningAlone DEF WakeInv, RunningOnly
  <2>2. /\ Once(hot_wait_queue'[t], d)
        /\ Indices(hot_wait_queue'[t], d) # {} <=>
             Indices(hot_wait_queue[t], d) # {} \/ c = d
    BY <1>c, <1>3, <2>1, OnceAppend DEF WakeOK, RunningOnly
  <2>3. Asked(t, d)' <=> Asked(t, d)
    BY <1>1 DEF Asked
  <2>4. running'[t] = Master /\ d # Master
    BY <1>2, TeamOf DEF Runs
  <2>5. Turns(t, d)' = 1
    <3>1. CASE d = c
      BY <1>1, <2>1, <2>2, <2>3, <2>4, <3>1 DEF Turns, RunningOnly
    <3>2. CASE d # c
      <4>1. Turns(t, d) = 1
        BY <2>1 DEF WakeOK
      <4> QED
        BY <1>1, <2>2, <2>3, <2>4, <3>2, <4>1 DEF Turns
    <3> QED
      BY <3>1, <3>2
  <2> QED
    BY <1>1, <2>1, <2>2, <2>5 DEF WakeOK
<1>7. ASSUME NEW u \in Thread \ {t}, NEW d \in Team(u)
      PROVE  WakeOK(u, d)'
  BY <1>t, <1>1, <1>2, <1>3, WakeSame DEF WakeInv, Runs
<1>8. WakeInv'
  BY <1>6, <1>7 DEF WakeInv
<1>9. PostInv' /\ QueueInv'
  BY <1>1, PostsKept
<1> QED
  BY <1>4, <1>5, <1>8, <1>9 DEF CoroInv

\* A coroutine without work left ends.
LEMMA RestStep ==
  ASSUME CoroInv, NEW t \in Thread, NEW c \in Team(t), Rest(c)
  PROVE  CoroInv'
<1>t. TypeOK /\ TeamInv /\ WakeInv /\ PostInv
  BY DEF CoroInv
<1>c. ThreadOf(c) = t /\ c \in Coro /\ c # Master
  BY TeamOf
<1>1. /\ running[t] = c /\ co[c].pc = "idle"
      /\ YieldIf(c, TRUE) /\ Goto(c, "done")
      /\ UNCHANGED <<poll, starts, hot_wait_queue, cq, qp, taken, buffer,
                     memory, local, got, away>>
  BY <1>c DEF Rest, At, history
<1>2. Runs(t, Master)
  BY <1>t, <1>1, YieldIs
<1>3. /\ PostInv' /\ QueueInv' /\ co' \in [Coro -> CR]
      /\ co'[c].pc = "done" /\ \A d \in Coro \ {c} : co'[d] = co[d]
  BY <1>1, LeaveStep DEF Active, Waits
<1>4. TypeOK'
  BY <1>t, <1>1, <1>2, <1>3 DEF TypeOK, memory, Runs
<1>5. TeamInv'
  BY <1>t, <1>1, <1>2 DEF TeamInv, Runs
<1>6. ASSUME NEW d \in Team(t)
      PROVE  WakeOK(t, d)'
  <2>1. WakeOK(t, d) /\ (d = c => RunningOnly(t, c))
    BY <1>1, <1>t, RunningAlone DEF WakeInv, RunningOnly
  <2>2. Asked(t, d)' <=> Asked(t, d)
    BY <1>1 DEF Asked
  <2>3. running'[t] = Master /\ d # Master /\ d \in Coro
    BY <1>2, TeamOf DEF Runs
  <2>4. Turns(t, d)' = 1
    <3>1. CASE d = c
      BY <1>1, <1>3, <2>1, <2>2, <2>3, <3>1 DEF Turns, RunningOnly
    <3>2. CASE d # c
      <4>1. Turns(t, d) = 1
        BY <2>1 DEF WakeOK
      <4> QED
        BY <1>1, <1>3, <2>2, <2>3, <3>2, <4>1 DEF Turns
    <3> QED
      BY <3>1, <3>2
  <2> QED
    BY <1>1, <2>1, <2>4 DEF WakeOK
<1>7. ASSUME NEW u \in Thread \ {t}, NEW d \in Team(u)
      PROVE  WakeOK(u, d)'
  <2>1. d \in Coro /\ d # c
    BY <1>c, TeamOf
  <2> QED
    BY <1>t, <1>1, <1>2, <1>3, <2>1, WakeSame DEF WakeInv, Runs
<1>8. WakeInv'
  BY <1>6, <1>7 DEF WakeInv
<1> QED
  BY <1>3, <1>4, <1>5, <1>8 DEF CoroInv

BatchOK(ws, c, hand, write, async, W, U) ==
  /\ ws \in Seq(WR) /\ AllOf(ws, c) /\ OnceAsked(ws, c)
  /\ Signalled(ws, c) # {} <=> IF hand THEN write ELSE ~async
  /\ \A x \in Range(ws) : (x = W /\ write) \/ (x = U /\ ~hand)

\* The requests of an unlock: a signalled one exactly if the worker yields.
LEMMA UnlockBatch ==
  ASSUME NEW c \in Coro, NEW hand \in BOOLEAN, NEW write \in BOOLEAN,
         NEW async \in BOOLEAN, NEW W \in WR, NEW U \in WR,
         W.coro = c, W.signal = hand, U.coro = c, U.signal = ~async,
         NEW ws,
         ws = IF hand THEN IF write THEN <<W>> ELSE <<>>
              ELSE IF write THEN <<W, U>> ELSE <<U>>
  PROVE  BatchOK(ws, c, hand, write, async, W, U)
<1>1. CASE hand /\ write
  <2>1. ws = <<W>> /\ DOMAIN ws = {1} /\ ws[1] = W
    BY <1>1
  <2>2. Signalled(ws, c) = {1} /\ Range(ws) = {W}
    BY <1>1, <2>1 DEF Signalled, Range
  <2> QED
    BY <1>1, <2>1, <2>2 DEF BatchOK, AllOf, OnceAsked, Unique
<1>2. CASE hand /\ ~write
  <2>1. ws = <<>> /\ Signalled(ws, c) = {} /\ Range(ws) = {}
    BY <1>2 DEF Signalled, Range
  <2> QED
    BY <1>2, <2>1 DEF BatchOK, AllOf, OnceAsked, Unique
<1>3. CASE ~hand /\ ~write
  <2>1. ws = <<U>> /\ DOMAIN ws = {1} /\ ws[1] = U
    BY <1>3
  <2>2. Signalled(ws, c) = (IF async THEN {} ELSE {1}) /\ Range(ws) = {U}
    BY <1>3, <2>1 DEF Signalled, Range
  <2> QED
    BY <1>3, <2>1, <2>2 DEF BatchOK, AllOf, OnceAsked, Unique
<1>4. CASE ~hand /\ write
  <2>1. ws = <<W, U>> /\ DOMAIN ws = {1, 2} /\ ws[1] = W /\ ws[2] = U
    BY <1>4
  <2>2. /\ Signalled(ws, c) = IF async THEN {} ELSE {2}
        /\ Range(ws) = {W, U}
    BY <1>4, <2>1 DEF Signalled, Range
  <2> QED
    BY <1>4, <2>1, <2>2 DEF BatchOK, AllOf, OnceAsked, Unique
<1> QED
  BY <1>1, <1>2, <1>3, <1>4

\* The two requests of write_batch as a concatenation.
LEMMA Joins ==
  ASSUME NEW x \in WR, NEW y \in WR
  PROVE  <<x>> \o <<y>> = <<x, y>> /\ <<>> \o <<y>> = <<y>>
<1>1. <<x>> \in Seq(WR) /\ <<y>> \in Seq(WR) /\ <<>> \in Seq(WR)
  OBVIOUS
<1>2. <<x>> \o <<y>> = <<x, y>>
  <2>1. PICK z : z = <<x>> \o <<y>>
    OBVIOUS
  <2>2. z \in Seq(WR) /\ Len(z) = 2 /\ z[1] = x /\ z[2] = y
    BY <1>1, <2>1
  <2>3. /\ <<x, y>> \in Seq(WR) /\ Len(<<x, y>>) = 2
        /\ <<x, y>>[1] = x /\ <<x, y>>[2] = y
    OBVIOUS
  <2>4. \A i \in 1..2 : i = 1 \/ i = 2
    OBVIOUS
  <2>5. z = <<x, y>>
    BY <2>2, <2>3, <2>4, SeqEqual
  <2> QED
    BY <2>1, <2>5
<1>3. <<>> \o <<y>> = <<y>>
  BY <1>1
<1> QED
  BY <1>2, <1>3

\* The buffers that an unlock takes, and what it counts.
UnlockTakes(c, m, hand, p, s) ==
  /\ taken' \in [Coro -> Counts] /\ away' \in [Coro -> [Mem -> Counts]]
  /\ taken'[c]["page"] = p /\ taken[c]["page"] = p
  /\ taken[c]["cas"] = s - 1
  /\ taken'[c]["cas"] = (IF hand THEN s - 1 ELSE s)
  /\ \A d \in Coro \ {c} : taken'[d] = taken[d] /\ away'[d] = away[d]
  /\ away'[c][m]["cas"] = 0 /\ away'[c][m]["page"] = 0
  /\ \A l \in Mem \ {m} :
       /\ away'[c][l]["cas"] = away[c][l]["cas"] + (IF hand THEN 0 ELSE 1)
       /\ away'[c][l]["page"] = away[c][l]["page"]

\* An unlock that does not hand over takes one more word.
LEMMA UnlockTakesIts ==
  ASSUME TypeOK, NEW c \in Coro, NEW m \in Mem, NEW hand \in BOOLEAN,
         NEW p \in Nat, p = taken[c].page, NEW s \in Nat, s = taken[c].cas + 1,
         taken' = IF hand THEN taken ELSE [taken EXCEPT ![c].cas = @ + 1],
         away' = [Elsewhere(c, m, [cas |-> IF hand THEN 0 ELSE 1, page |-> 0])
                    EXCEPT ![c][m] = [cas |-> 0, page |-> 0]]
  PROVE  UnlockTakes(c, m, hand, p, s)
<1>1. /\ taken \in [Coro -> Counts] /\ taken[c].cas = s - 1
      /\ taken[c] = [cas |-> s - 1, page |-> p] /\ s - 1 \in Nat
  <2>1. taken \in [Coro -> Counts] /\ taken[c] \in Counts
    BY DEF TypeOK
  <2>2. taken[c].cas \in Nat
    BY <2>1 DEF Counts
  <2>3. taken[c].cas = s - 1
    BY <2>2
  <2>4. taken[c] = [cas |-> taken[c].cas, page |-> taken[c].page]
    BY <2>1 DEF Counts
  <2> QED
    BY <2>1, <2>2, <2>3, <2>4
<1>2. PICK k \in Nat : k = (IF hand THEN s - 1 ELSE s)
  BY <1>1
<1>3. taken' = [taken EXCEPT ![c] = [cas |-> k, page |-> p]]
  <2>1. CASE hand
    BY <1>1, <1>2, <2>1
  <2>2. CASE ~hand
    <3>1. taken' = [taken EXCEPT ![c] =
                      [taken[c] EXCEPT !.cas = taken[c].cas + 1]]
      BY <2>2
    <3>2. [taken[c] EXCEPT !.cas = taken[c].cas + 1] =
             [cas |-> s, page |-> p]
      BY <1>1
    <3> QED
      BY <1>2, <2>2, <3>1, <3>2
  <2> QED
    BY <2>1, <2>2
<1>4. /\ taken' \in [Coro -> Counts] /\ taken'[c] = [cas |-> k, page |-> p]
      /\ \A d \in Coro \ {c} : taken'[d] = taken[d]
  BY <1>1, <1>3 DEF Counts
<1>5. PICK a \in Nat : a = (IF hand THEN 0 ELSE 1)
  OBVIOUS
<1>6. PICK f : f = Elsewhere(c, m, [cas |-> a, page |-> 0])
  OBVIOUS
<1>7. /\ f \in [Coro -> [Mem -> Counts]]
      /\ \A d \in Coro \ {c} : f[d] = away[d]
      /\ \A l \in Mem \ {m} : /\ f[c][l]["cas"] = away[c][l]["cas"] + a
                              /\ f[c][l]["page"] = away[c][l]["page"] + 0
  BY <1>6, ElsewhereIs
<1>8. PICK z : z = [cas |-> 0, page |-> 0]
  OBVIOUS
<1>9. z \in Counts /\ z["cas"] = 0 /\ z["page"] = 0
  BY <1>8 DEF Counts
<1>10. PICK g : g = [f[c] EXCEPT ![m] = z]
  OBVIOUS
<1>11. away' = [f EXCEPT ![c] = g]
  BY <1>5, <1>6, <1>8, <1>10
<1>12. /\ g \in [Mem -> Counts] /\ g[m] = z
       /\ \A l \in Mem \ {m} : g[l] = f[c][l]
  BY <1>7, <1>9, <1>10
<1>13. /\ away' \in [Coro -> [Mem -> Counts]] /\ away'[c] = g
       /\ \A d \in Coro \ {c} : away'[d] = f[d]
  BY <1>7, <1>11, <1>12
<1>14. \A l \in Mem : away[c][l]["page"] \in Nat
  BY DEF TypeOK, Counts
<1>15. ASSUME NEW l \in Mem \ {m}
       PROVE  /\ away'[c][l]["cas"] =
                   away[c][l]["cas"] + (IF hand THEN 0 ELSE 1)
              /\ away'[c][l]["page"] = away[c][l]["page"]
  BY <1>5, <1>7, <1>12, <1>13, <1>14
<1> QED
  BY <1>1, <1>2, <1>4, <1>7, <1>9, <1>12, <1>13, <1>15 DEF UnlockTakes

\* unlock_addr and write_page_and_unlock.
LEMMA UnlockStep ==
  ASSUME CoroInv, NEW t \in Thread, NEW c \in Team(t),
         NEW write \in BOOLEAN, NEW async \in BOOLEAN,
         Unlock(c, write, async)
  PROVE  CoroInv'
<1>t. TypeOK /\ PostInv
  BY DEF CoroInv
<1>b. buffer \in [Coro -> Rings] /\ co \in [Coro -> CR]
      /\ local \in [Node -> [Mem -> LR]] /\ got \in [Coro -> [Mem -> Int]]
  BY <1>t DEF TypeOK
<1>c. ThreadOf(c) = t /\ c \in Coro /\ NodeOf[t] \in Node
  BY TeamOf, CoroAssumption
<1>m. PICK m \in Mem : m = co[c].at
  BY <1>b, <1>c DEF CR
<1>h. PICK hand \in BOOLEAN : hand = CanHandOver(c)
  BY DEF CanHandOver
<1>0. running[t] = c /\ co[c].pc = "read"
  BY <1>c DEF Unlock, At
<1>p. PICK p \in Nat : p = co[c].page /\ p = taken[c].page
  <2>1. co[c].page \in Nat /\ co[c].page = taken[c].page
    BY <1>0, <1>b, <1>c, <1>t DEF PostInv, Active, Waits, CR
  <2> QED
    BY <2>1
<1>s. PICK s \in Nat : s = taken[c].cas + 1
  BY <1>t, <1>c DEF TypeOK, Counts
<1>i. PICK i, j : i = Slot("cas", s) /\ j = Slot("page", p)
  OBVIOUS
<1>j. i \in 0..kCasBufferCnt-1 /\ j \in 0..kPageBufferCnt-1
  BY <1>i, <1>p, <1>s, BufferCounts DEF Slot
<1>v. /\ buffer[c].cas \in [0..kCasBufferCnt-1 -> Thread \cup {NoTag}]
      /\ buffer[c].page \in [0..kPageBufferCnt-1 -> Int]
      /\ buffer[c]["cas"] = buffer[c].cas /\ buffer[c]["page"] = buffer[c].page
  BY <1>b, <1>c DEF Rings
<1>w. PICK new \in Int : new = buffer[c].page[j] + 1
  <2>1. buffer[c].page[j] \in Int
    BY <1>j, <1>v
  <2> QED
    BY <2>1
<1>n. Contents(c, "page", co[c].page) + 1 = new
  BY <1>i, <1>p, <1>v, <1>w DEF Contents
<1> DEFINE W == Request(c, "write", p, hand, new)
           U == Request(c, "unlock", s, ~async, NoTag)
<1>r. /\ W \in WR /\ W.op = "write" /\ W.coro = c /\ W.n = p
      /\ W.signal = hand /\ W.data = new
      /\ U \in WR /\ U.op = "unlock" /\ U.coro = c /\ U.n = s
      /\ U.signal = ~async /\ U.data = NoTag
  BY <1>c DEF Request, WR, Ops
<1>ws. PICK ws : ws = IF hand THEN IF write THEN <<W>> ELSE <<>>
                      ELSE IF write THEN <<W, U>> ELSE <<U>>
  OBVIOUS
<1>1. /\ local' = [local EXCEPT ![NodeOf[t]][m].hand_over = hand,
                     ![NodeOf[t]][m].hand_time = IF hand THEN @ ELSE 0]
      /\ taken' = IF hand THEN taken ELSE [taken EXCEPT ![c].cas = @ + 1]
      /\ away' = [Elsewhere(c, m, [cas |-> IF hand THEN 0 ELSE 1, page |-> 0])
                    EXCEPT ![c][m] = [cas |-> 0, page |-> 0]]
      /\ got' = IF write THEN [got EXCEPT ![c][m] = @ + 1] ELSE got
      /\ Goto(c, "release")
      /\ YieldIf(c, IF hand THEN write ELSE ~async)
      /\ UNCHANGED <<poll, starts, hot_wait_queue, cq, memory>>
  BY <1>c, <1>h, <1>m DEF Unlock
<1>2. buffer' = [buffer EXCEPT ![c] =
        [cas |-> IF hand THEN buffer[c].cas
                 ELSE [buffer[c].cas EXCEPT ![i] = NoTag],
         page |-> IF write THEN [buffer[c].page EXCEPT ![j] = new]
                  ELSE buffer[c].page]]
  BY <1>b, <1>c, <1>h, <1>i, <1>p, <1>s, <1>n DEF Unlock, NextBuffer
<1>3. Post(c, m, ws)
  <2>1. Post(c, m, IF hand THEN IF write THEN <<W>> ELSE <<>>
                   ELSE (IF write THEN <<W>> ELSE <<>>) \o <<U>>)
    BY <1>c, <1>h, <1>m, <1>p, <1>s, <1>n
       DEF Unlock, NextBuffer, Batch, SignalFlag
  <2>2. <<W>> \o <<U>> = <<W, U>> /\ <<>> \o <<U>> = <<U>>
    BY <1>r, Joins
  <2> QED
    BY <1>ws, <2>1, <2>2
<1> HIDE DEF W, U
<1>4. /\ ws \in Seq(WR) /\ AllOf(ws, c) /\ OnceAsked(ws, c)
      /\ Signalled(ws, c) # {} <=> IF hand THEN write ELSE ~async
      /\ \A x \in Range(ws) : (x = W /\ write) \/ (x = U /\ ~hand)
  <2>1. BatchOK(ws, c, hand, write, async, W, U)
    BY <1>c, <1>r, <1>ws, UnlockBatch
  <2> QED
    BY <2>1 DEF BatchOK
<1>5. /\ co' \in [Coro -> CR] /\ co'[c].pc = "release"
      /\ \A d \in Coro \ {c} : co'[d] = co[d]
  <2>1. PICK r : r = [co[c] EXCEPT !.pc = "release"]
    OBVIOUS
  <2>2. r \in CR /\ r.pc = "release"
    BY <1>b, <1>c, <2>1 DEF CR, Pcs
  <2>3. co' = [co EXCEPT ![c] = r]
    BY <1>1, <2>1 DEF Goto
  <2> QED
    BY <1>b, <1>c, <2>2, <2>3
<1>6. /\ TeamInv' /\ WakeInv' /\ QueueInv' /\ Grown(t, m, ws)
      /\ qp' \in [Thread -> [Mem -> Seq(WR)]]
      /\ running' \in [Thread -> Coro \cup {Master}]
  <2>1. Posts(t, m, ws)
    BY <1>c, <1>t, <1>3, <1>4, PostIs
  <2>2. PICK waits \in BOOLEAN : waits = IF hand THEN write ELSE ~async
    OBVIOUS
  <2>3. Runs(t, IF waits THEN Master ELSE c)
    BY <1>0, <1>1, <1>t, <2>2, YieldIs
  <2>4. Goes(t, c, ws)
    BY <1>4, <2>2, <2>3 DEF Goes
  <2>5. SameLists /\ DoneSame
    BY <1>0, <1>1, <1>5 DEF SameLists, DoneSame
  <2>6. TeamInv' /\ WakeInv' /\ Grown(t, m, ws)
    BY <1>0, <1>c, <1>4, <2>1, <2>4, <2>5, PostWake
  <2>7. LastAsked(ws)
    <3>1. \A x \in Range(ws) : x.op \notin Waits
      BY <1>4, <1>r DEF Waits
    <3> QED
      BY <3>1 DEF LastAsked, Range
  <2>8. QueueInv'
    BY <1>0, <1>4, <1>5, <2>1, <2>6, <2>7, QueuePosts DEF Waits
  <2> QED
    BY <2>1, <2>3, <2>6, <2>8 DEF Posts, Runs
<1>u. UnlockTakes(c, m, hand, p, s)
  BY <1>1, <1>c, <1>p, <1>s, <1>t, UnlockTakesIts
<1>7. /\ taken' \in [Coro -> Counts] /\ away' \in [Coro -> [Mem -> Counts]]
      /\ taken'[c]["page"] = p /\ taken[c]["page"] = p
      /\ taken[c]["cas"] = s - 1
      /\ taken'[c]["cas"] = (IF hand THEN s - 1 ELSE s)
      /\ \A d \in Coro \ {c} : taken'[d] = taken[d] /\ away'[d] = away[d]
      /\ away'[c][m]["cas"] = 0 /\ away'[c][m]["page"] = 0
      /\ \A l \in Mem \ {m} :
           /\ away'[c][l]["cas"] = away[c][l]["cas"] + (IF hand THEN 0 ELSE 1)
           /\ away'[c][l]["page"] = away[c][l]["page"]
  BY <1>u DEF UnlockTakes
<1>8. /\ buffer' \in [Coro -> Rings]
      /\ \A d \in Coro \ {c} : buffer'[d] = buffer[d]
      /\ buffer'[c]["cas"] = IF hand THEN buffer[c]["cas"]
                             ELSE [buffer[c]["cas"] EXCEPT ![i] = NoTag]
      /\ buffer'[c]["page"] = IF write
                              THEN [buffer[c]["page"] EXCEPT ![j] = new]
                              ELSE buffer[c]["page"]
  <2>1. PICK bc, bp :
          /\ bc = IF hand THEN buffer[c].cas
                  ELSE [buffer[c].cas EXCEPT ![i] = NoTag]
          /\ bp = IF write THEN [buffer[c].page EXCEPT ![j] = new]
                  ELSE buffer[c].page
    OBVIOUS
  <2>2. /\ bc \in [0..kCasBufferCnt-1 -> Thread \cup {NoTag}]
        /\ bp \in [0..kPageBufferCnt-1 -> Int]
    BY <1>j, <1>v, <2>1
  <2>3. PICK r : r = [cas |-> bc, page |-> bp]
    OBVIOUS
  <2>4. r \in Rings /\ r["cas"] = bc /\ r["page"] = bp
    BY <2>2, <2>3 DEF Rings
  <2>5. buffer' = [buffer EXCEPT ![c] = r]
    BY <1>2, <2>1, <2>3
  <2>6. /\ buffer' \in [Coro -> Rings] /\ buffer'[c] = r
        /\ \A d \in Coro \ {c} : buffer'[d] = buffer[d]
    BY <1>b, <1>c, <2>4, <2>5
  <2> QED
    BY <1>v, <2>1, <2>4, <2>6
<1>9. TypeOK'
  <2>1. local' \in [Node -> [Mem -> LR]]
    <3>1. local[NodeOf[t]][m] \in LR
      BY <1>b, <1>c
    <3>2. PICK ht \in Nat :
            ht = IF hand THEN local[NodeOf[t]][m].hand_time ELSE 0
      BY <3>1 DEF LR
    <3>3. PICK r : r = [local[NodeOf[t]][m] EXCEPT !.hand_over = hand,
                                                  !.hand_time = ht]
      OBVIOUS
    <3>4. r \in LR
      BY <3>1, <3>2, <3>3 DEF LR
    <3>5. local' = [local EXCEPT ![NodeOf[t]][m] = r]
      BY <1>1, <1>b, <1>c, <3>2, <3>3
    <3> QED
      BY <1>c, <1>t, <3>4, <3>5, LocalIs
  <2>2. got' \in [Coro -> [Mem -> Int]]
    <3>1. [got[c] EXCEPT ![m] = @ + 1] \in [Mem -> Int]
      BY <1>b, <1>c
    <3>2. write => got' = [got EXCEPT ![c] = [got[c] EXCEPT ![m] = @ + 1]]
      BY <1>1
    <3> QED
      BY <1>1, <1>b, <1>c, <3>1, <3>2
  <2> QED
    BY <1>t, <1>1, <1>5, <1>6, <1>7, <1>8, <2>1, <2>2 DEF TypeOK, memory
<1>10. ASSUME NEW l \in Mem \ {m}, NEW w \in WR, w.coro = c,
              w.op \in Unwaited, PostedOK(l, w)
       PROVE  PostedOK(l, w)'
  <2>1. w.n \in Nat /\ w.op \notin Waits /\ co'[c].pc \notin Active
    BY <1>5, <1>10 DEF WR, Unwaited, Waits, Active
  <2>n. away[c][l]["cas"] \in Nat /\ away[c][l]["page"] \in Nat
    BY <1>c, <1>t DEF TypeOK, Counts
  <2>2. CASE w.op = "write"
    <3>k. KindOf(w.op) = "page"
      BY <2>2 DEF KindOf
    <3>1. /\ w.n < p /\ p - w.n <= away[c][l]["page"]
          /\ away[c][l]["page"] < kPageBufferCnt =>
               Contents(c, "page", w.n) = w.data
      <4>1. /\ w.n < co[c]["page"]
            /\ taken[c]["page"] - w.n <= away[c][l]["page"]
            /\ away[c][l]["page"] < BufferCnt["page"] =>
                 Contents(c, "page", w.n) = w.data
        BY <1>0, <1>10, <1>m, <3>k DEF PostedOK, Active, Waits, Intact
      <4> QED
        BY <1>7, <1>p, <4>1, BufferCounts
    <3>2. ASSUME away[c][l]["page"] < kPageBufferCnt
          PROVE  Contents(c, "page", w.n)' = w.data
      <4>1. w.n % kPageBufferCnt # p % kPageBufferCnt
        <5>1. p - w.n < kPageBufferCnt
          BY <2>1, <2>n, <3>1, <3>2, BufferCounts
        <5> QED
          BY <2>1, <3>1, <5>1, BufferCounts, RingApart
      <4>2. PICK x : x = Slot("page", w.n)
        OBVIOUS
      <4>3. x # j /\ x \in 0..kPageBufferCnt-1
        BY <1>i, <2>1, <4>1, <4>2, BufferCounts DEF Slot
      <4>4. buffer'[c]["page"][x] = buffer[c]["page"][x]
        BY <1>8, <1>v, <4>3
      <4> QED
        BY <3>1, <3>2, <4>2, <4>4 DEF Contents, Slot
    <3>3. /\ w.n <= taken'[c]["page"]
          /\ taken'[c]["page"] - w.n <= away'[c][l]["page"]
          /\ away'[c][l]["page"] < BufferCnt["page"] => Intact(w)'
      BY <1>7, <1>10, <2>1, <3>k, <3>1, <3>2, BufferCounts DEF Intact
    <3> QED
      BY <1>10, <2>1, <3>k, <3>3 DEF PostedOK
  <2>3. CASE w.op = "unlock"
    <3>k. KindOf(w.op) = "cas"
      BY <2>3 DEF KindOf
    <3>1. /\ w.n < s /\ s - 1 - w.n <= away[c][l]["cas"]
          /\ away[c][l]["cas"] < kCasBufferCnt =>
               Contents(c, "cas", w.n) = w.data
      <4>1. /\ w.n <= taken[c]["cas"]
            /\ taken[c]["cas"] - w.n <= away[c][l]["cas"]
            /\ away[c][l]["cas"] < BufferCnt["cas"] =>
                 Contents(c, "cas", w.n) = w.data
        BY <1>10, <1>m, <3>k DEF PostedOK, Intact
      <4> QED
        BY <1>7, <2>1, <4>1, BufferCounts
    <3>2. ASSUME away'[c][l]["cas"] < kCasBufferCnt
          PROVE  Contents(c, "cas", w.n)' = w.data
      <4>1. CASE hand
        <5>1. Contents(c, "cas", w.n)' = Contents(c, "cas", w.n)
          BY <1>8, <4>1 DEF Contents, Slot
        <5> QED
          BY <1>7, <2>n, <3>1, <3>2, <4>1, <5>1
      <4>2. CASE ~hand
        <5>1. s - w.n < kCasBufferCnt /\ away[c][l]["cas"] < kCasBufferCnt
          BY <1>7, <2>1, <2>n, <3>1, <3>2, <4>2, BufferCounts
        <5>2. w.n % kCasBufferCnt # s % kCasBufferCnt
          BY <2>1, <3>1, <5>1, BufferCounts, RingApart
        <5>3. PICK x : x = Slot("cas", w.n)
          OBVIOUS
        <5>4. x # i /\ x \in 0..kCasBufferCnt-1
          BY <1>i, <2>1, <5>2, <5>3, BufferCounts DEF Slot
        <5>5. buffer'[c]["cas"][x] = buffer[c]["cas"][x]
          BY <1>8, <1>v, <4>2, <5>4
        <5> QED
          BY <3>1, <5>1, <5>3, <5>5 DEF Contents, Slot
      <4> QED
        BY <4>1, <4>2
    <3>3. /\ w.n <= taken'[c]["cas"]
          /\ taken'[c]["cas"] - w.n <= away'[c][l]["cas"]
          /\ away'[c][l]["cas"] < BufferCnt["cas"] => Intact(w)'
      <4>1. w.n <= s - 1
        BY <2>1, <3>1
      <4>2. /\ w.n <= taken'[c]["cas"]
            /\ taken'[c]["cas"] - w.n <= away'[c][l]["cas"]
        BY <1>7, <2>1, <2>n, <3>1, <4>1
      <4>3. away'[c][l]["cas"] < BufferCnt["cas"] => Intact(w)'
        BY <1>10, <3>k, <3>2, BufferCounts DEF Intact
      <4> QED
        BY <4>2, <4>3
    <3> QED
      BY <1>10, <2>1, <3>k, <3>3 DEF PostedOK
  <2> QED
    BY <1>10, <2>2, <2>3 DEF Unwaited
<1>11. ASSUME write
       PROVE  PostedOK(m, W)'
  <2>1. buffer'[c]["page"][j] = new
    BY <1>8, <1>11, <1>j, <1>v
  <2>2. KindOf(W.op) = "page"
    BY <1>r DEF KindOf
  <2>3. Intact(W)'
    BY <1>i, <1>r, <2>1, <2>2 DEF Intact, Contents, Slot
  <2>4. p <= taken'[c]["page"] /\ taken'[c]["page"] - p <= away'[c][m]["page"]
    BY <1>7
  <2> QED
    BY <1>5, <1>r, <2>2, <2>3, <2>4 DEF PostedOK, Waits, Active
<1>12. ASSUME ~hand
       PROVE  PostedOK(m, U)'
  <2>1. buffer'[c]["cas"][i] = NoTag
    BY <1>8, <1>12, <1>j, <1>v
  <2>2. KindOf(U.op) = "cas"
    BY <1>r DEF KindOf
  <2>3. Intact(U)'
    BY <1>i, <1>r, <2>1, <2>2 DEF Intact, Contents, Slot
  <2>4. s <= taken'[c]["cas"] /\ taken'[c]["cas"] - s <= away'[c][m]["cas"]
    BY <1>7, <1>12
  <2> QED
    BY <1>5, <1>r, <2>2, <2>3, <2>4 DEF PostedOK, Waits, Active
<1>13. Alone(c)
  BY <1>5, <1>7, <1>8 DEF Alone
<1>14. NewOK
  <2>1. ASSUME NEW u \in Thread, NEW l \in Mem, NEW w \in Range(qp'[u][l]),
               w \notin Range(qp[u][l])
        PROVE  PostedOK(l, w)'
    <3>1. w \in Range(ws) /\ l = m
      <4>1. Range(qp'[u][l]) = Range(qp[u][l]) \cup
              (IF u = t /\ l = m THEN Range(ws) ELSE {})
        BY <1>6 DEF Grown
      <4> QED
        BY <2>1, <4>1
    <3>2. (w = W /\ write) \/ (w = U /\ ~hand)
      BY <1>4, <3>1
    <3> QED
      BY <1>11, <1>12, <3>1, <3>2
  <2> QED
    BY <2>1 DEF NewOK
<1>15. OldOK(c) /\ LastTaken(c)
  BY <1>0, <1>5, <1>10, <1>m DEF OldOK, LastTaken, Waits, Active
<1>16. PostInv'
  BY <1>0, <1>13, <1>14, <1>15, PostStep
<1> QED
  BY <1>6, <1>9, <1>16 DEF CoroInv

-----------------------------------------------------------------------------
(* The memory node executes a request.                                     *)

\* What is behind the oldest request of a queue pair.
LEMMA LastTail ==
  ASSUME NEW q \in Seq(WR), q # <<>>, LastAsked(q)
  PROVE  /\ LastAsked(Tail(q)) /\ Range(q) = {Head(q)} \cup Range(Tail(q))
         /\ \A x \in Range(Tail(q)) :
              x.coro = Head(q).coro => Head(q).op \notin Waits
<1>1. /\ DOMAIN q = 1..Len(q) /\ Len(q) \in Nat /\ Len(q) >= 1
      /\ Len(Tail(q)) = Len(q) - 1 /\ Head(q) = q[1]
      /\ \A i \in 1..Len(q) - 1 : Tail(q)[i] = q[i + 1]
      /\ DOMAIN Tail(q) = 1..Len(q) - 1
  OBVIOUS
<1>2. ASSUME NEW i \in 1..Len(q) - 1
      PROVE  i + 1 \in 1..Len(q) /\ 1 < i + 1 /\ Tail(q)[i] = q[i + 1]
  BY <1>1
<1>3. LastAsked(Tail(q))
  <2>1. ASSUME NEW i \in 1..Len(q) - 1, NEW j \in 1..Len(q) - 1, i < j,
               Tail(q)[i].coro = Tail(q)[j].coro
        PROVE  Tail(q)[i].op \notin Waits
    <3>1. i + 1 < j + 1
      BY <2>1
    <3> QED
      BY <1>1, <1>2, <2>1, <3>1 DEF LastAsked
  <2> QED
    BY <1>1, <2>1 DEF LastAsked
<1>4. ASSUME NEW x \in Range(Tail(q)), x.coro = Head(q).coro
      PROVE  Head(q).op \notin Waits
  <2>1. PICK i \in 1..Len(q) - 1 : x = Tail(q)[i]
    BY <1>1 DEF Range
  <2>2. 1 \in 1..Len(q)
    BY <1>1
  <2> QED
    BY <1>1, <1>2, <1>4, <2>1, <2>2 DEF LastAsked
<1>5. Range(q) = {Head(q)} \cup Range(Tail(q))
  <2>1. \A i \in 1..Len(q) : i = 1 \/ (i - 1 \in 1..Len(q) - 1
                                        /\ (i - 1) + 1 = i)
    BY <1>1
  <2>2. ASSUME NEW i \in 1..Len(q), i # 1
        PROVE  q[i] \in Range(Tail(q))
    <3>1. q[i] = Tail(q)[i - 1] /\ i - 1 \in DOMAIN Tail(q)
      BY <1>1, <2>1, <2>2
    <3> QED
      BY <3>1 DEF Range
  <2>3. \A i \in 1..Len(q) - 1 : Tail(q)[i] \in Range(q)
    BY <1>1, <1>2 DEF Range
  <2>4. Head(q) \in Range(q)
    BY <1>1 DEF Range
  <2> QED
    BY <1>1, <2>2, <2>3, <2>4 DEF Range
<1> QED
  BY <1>3, <1>4, <1>5

\* What lands in a buffer that a coroutine waits for spoils nothing posted to
\* another memory node, while less than a ring of buffers has been taken.
LEMMA FillApart ==
  ASSUME CoroInv, NEW m \in Mem, NEW w \in WR, PostedOK(m, w), w.op \in Waits,
         NEW l \in Mem, l # m, NEW x \in WR, PostedOK(l, x), x.coro = w.coro,
         x.op \in Unwaited, NEW k \in {"cas", "page"}, k = KindOf(w.op),
         k = KindOf(x.op), away[w.coro][l][k] < BufferCnt[k]
  PROVE  Slot(k, x.n) # Slot(k, w.n)
<1>1. w.coro \in Coro /\ w.n \in Nat /\ x.n \in Nat
  BY DEF WR
<1>c. PICK c \in Coro : c = w.coro
  BY <1>1
<1>2. co[c].pc = w.op /\ co[c].at = m /\ w.n = co[c][k]
  BY <1>c DEF PostedOK
<1>3. co[c].pc \in Active /\ (co[c].pc = "search" => k = "page")
  BY <1>2 DEF Active, KindOf
<1>4. x.n < w.n /\ taken[c][k] - x.n <= away[c][l][k]
  BY <1>2, <1>3, <1>c DEF PostedOK
<1>5. w.n = taken[c][k]
  <2>1. /\ co[c]["page"] = taken[c]["page"]
        /\ k = "cas" => co[c]["cas"] = taken[c]["cas"]
    BY <1>3 DEF CoroInv, PostInv
  <2> QED
    BY <1>2, <2>1
<1>6. away[c][l]["cas"] \in Nat /\ away[c][l]["page"] \in Nat
  BY DEF CoroInv, TypeOK, Counts
<1>7. BufferCnt[k] \in Nat \ {0}
  BY BufferCounts
<1>8. w.n - x.n < BufferCnt[k]
  BY <1>1, <1>4, <1>5, <1>6, <1>7, <1>c
<1>9. x.n % BufferCnt[k] # w.n % BufferCnt[k]
  BY <1>1, <1>4, <1>7, <1>8, RingApart
<1> QED
  BY <1>9 DEF Slot

\* The buffer of request w, and nothing else, is filled with a value of its
\* kind.
Fills(w) ==
  \E v : /\ v \in IF KindOf(w.op) = "cas" THEN Thread \cup {NoTag} ELSE Int
         /\ buffer' = [buffer EXCEPT
                         ![w.coro][KindOf(w.op)][Slot(KindOf(w.op), w.n)] = v]

\* A read or a CAS fills its own buffer and no other.
LEMMA FilledOnly ==
  ASSUME TypeOK, NEW w \in WR, Fills(w)
  PROVE  /\ buffer' \in [Coro -> Rings]
         /\ \A d \in Coro, k \in {"cas", "page"}, n \in Nat :
              (d = w.coro /\ k = KindOf(w.op) => Slot(k, n) # Slot(k, w.n))
                => Contents(d, k, n)' = Contents(d, k, n)
<1>b. buffer \in [Coro -> Rings]
  BY DEF TypeOK
<1>c. PICK c \in Coro, a \in Nat : c = w.coro /\ a = w.n
  BY DEF WR
<1>1. PICK v :
        /\ v \in IF KindOf(w.op) = "cas" THEN Thread \cup {NoTag} ELSE Int
        /\ buffer' = [buffer EXCEPT ![c][KindOf(w.op)][Slot(KindOf(w.op), a)]
                                      = v]
  BY <1>c DEF Fills
<1>2. PICK bc, bp : bc = buffer[c].cas /\ bp = buffer[c].page
  OBVIOUS
<1>3. /\ bc \in [0..kCasBufferCnt-1 -> Thread \cup {NoTag}]
      /\ bp \in [0..kPageBufferCnt-1 -> Int]
      /\ buffer[c] = [cas |-> bc, page |-> bp]
  BY <1>b, <1>2 DEF Rings
<1>4. CASE KindOf(w.op) = "cas"
  <2>1. PICK i : i = Slot("cas", a)
    OBVIOUS
  <2>2. i \in 0..kCasBufferCnt-1
    BY <2>1, BufferCounts DEF Slot
  <2>3. PICK nc : nc = [bc EXCEPT ![i] = v]
    OBVIOUS
  <2>4. nc \in [0..kCasBufferCnt-1 -> Thread \cup {NoTag}]
    BY <1>1, <1>3, <1>4, <2>2, <2>3
  <2>5. buffer' = [buffer EXCEPT ![c] = [cas |-> nc, page |-> bp]]
    <3>1. buffer' = [buffer EXCEPT ![c] = [buffer[c] EXCEPT !["cas"] = nc]]
      BY <1>1, <1>2, <1>4, <1>b, <2>1, <2>3
    <3>2. [buffer[c] EXCEPT !["cas"] = nc] = [cas |-> nc, page |-> bp]
      BY <1>3
    <3> QED
      BY <3>1, <3>2
  <2>6. /\ buffer'[c] = [cas |-> nc, page |-> bp]
        /\ \A d \in Coro \ {c} : buffer'[d] = buffer[d]
        /\ buffer' \in [Coro -> Rings]
    <3>1. [cas |-> nc, page |-> bp] \in Rings
      BY <1>3, <2>4 DEF Rings
    <3> QED
      BY <1>b, <2>5, <3>1
  <2>7. ASSUME NEW n \in Nat, Slot("cas", n) # Slot("cas", a)
        PROVE  nc[Slot("cas", n)] = bc[Slot("cas", n)]
    <3>1. Slot("cas", n) \in 0..kCasBufferCnt-1
      BY BufferCounts DEF Slot
    <3> QED
      BY <1>3, <2>1, <2>3, <2>7, <3>1
  <2>8. ASSUME NEW d \in Coro, NEW k \in {"cas", "page"}, NEW n \in Nat,
               (d = w.coro /\ k = KindOf(w.op)) => Slot(k, n) # Slot(k, w.n)
        PROVE  Contents(d, k, n)' = Contents(d, k, n)
    <3>1. Contents(d, k, n)' = buffer'[d][k][Slot(k, n)]
      BY DEF Contents
    <3>2. buffer'[d][k][Slot(k, n)] = buffer[d][k][Slot(k, n)]
      <4>1. CASE d # c
        BY <2>6, <4>1
      <4>2. CASE d = c /\ k = "page"
        BY <1>3, <2>6, <4>2
      <4>3. CASE d = c /\ k = "cas"
        <5>1. Slot("cas", n) # Slot("cas", a)
          BY <1>4, <1>c, <2>8, <4>3
        <5>2. nc[Slot("cas", n)] = bc[Slot("cas", n)]
          BY <2>7, <5>1
        <5>3. buffer'[d][k] = nc /\ buffer[d][k] = bc
          BY <1>3, <2>6, <4>3
        <5> QED
          BY <4>3, <5>2, <5>3
      <4> QED
        BY <4>1, <4>2, <4>3
    <3> QED
      BY <3>1, <3>2 DEF Contents
  <2> QED
    BY <2>6, <2>8
<1>5. CASE KindOf(w.op) = "page"
  <2>1. PICK i : i = Slot("page", a)
    OBVIOUS
  <2>2. i \in 0..kPageBufferCnt-1
    BY <2>1, BufferCounts DEF Slot
  <2>3. PICK nc : nc = [bp EXCEPT ![i] = v]
    OBVIOUS
  <2>4. nc \in [0..kPageBufferCnt-1 -> Int]
    BY <1>1, <1>3, <1>5, <2>2, <2>3
  <2>5. buffer' = [buffer EXCEPT ![c] = [cas |-> bc, page |-> nc]]
    <3>1. buffer' = [buffer EXCEPT ![c] = [buffer[c] EXCEPT !["page"] = nc]]
      BY <1>1, <1>2, <1>5, <1>b, <2>1, <2>3
    <3>2. [buffer[c] EXCEPT !["page"] = nc] = [cas |-> bc, page |-> nc]
      BY <1>3
    <3> QED
      BY <3>1, <3>2
  <2>6. /\ buffer'[c] = [cas |-> bc, page |-> nc]
        /\ \A d \in Coro \ {c} : buffer'[d] = buffer[d]
        /\ buffer' \in [Coro -> Rings]
    <3>1. [cas |-> bc, page |-> nc] \in Rings
      BY <1>3, <2>4 DEF Rings
    <3> QED
      BY <1>b, <2>5, <3>1
  <2>7. ASSUME NEW n \in Nat, Slot("page", n) # Slot("page", a)
        PROVE  nc[Slot("page", n)] = bp[Slot("page", n)]
    <3>1. Slot("page", n) \in 0..kPageBufferCnt-1
      BY BufferCounts DEF Slot
    <3> QED
      BY <1>3, <2>1, <2>3, <2>7, <3>1
  <2>8. ASSUME NEW d \in Coro, NEW k \in {"cas", "page"}, NEW n \in Nat,
               (d = w.coro /\ k = KindOf(w.op)) => Slot(k, n) # Slot(k, w.n)
        PROVE  Contents(d, k, n)' = Contents(d, k, n)
    <3>1. Contents(d, k, n)' = buffer'[d][k][Slot(k, n)]
      BY DEF Contents
    <3>2. buffer'[d][k][Slot(k, n)] = buffer[d][k][Slot(k, n)]
      <4>1. CASE d # c
        BY <2>6, <4>1
      <4>2. CASE d = c /\ k = "cas"
        BY <1>3, <2>6, <4>2
      <4>3. CASE d = c /\ k = "page"
        <5>1. Slot("page", n) # Slot("page", a)
          BY <1>5, <1>c, <2>8, <4>3
        <5>2. nc[Slot("page", n)] = bp[Slot("page", n)]
          BY <2>7, <5>1
        <5>3. buffer'[d][k] = nc /\ buffer[d][k] = bp
          BY <1>3, <2>6, <4>3
        <5> QED
          BY <4>3, <5>2, <5>3
      <4> QED
        BY <4>1, <4>2, <4>3
    <3> QED
      BY <3>1, <3>2 DEF Contents
  <2> QED
    BY <2>6, <2>8
<1> QED
  BY <1>4, <1>5 DEF KindOf

\* The memory node executes the oldest request of a queue pair.
LEMMA ExecuteStep ==
  ASSUME CoroInv, NEW t \in Thread, NEW m \in Mem, Execute(t, m)
  PROVE  CoroInv'
<1>t. TypeOK /\ TeamInv /\ WakeInv /\ PostInv /\ QueueInv
  BY DEF CoroInv
<1>q. PICK q : q = qp[t][m]
  OBVIOUS
<1>w. PICK w : w = Head(q)
  OBVIOUS
<1>1. /\ q # <<>> /\ qp' = [qp EXCEPT ![t][m] = Tail(@)]
      /\ cq' = IF w.signal THEN [cq EXCEPT ![t] = Append(@, w.coro)] ELSE cq
      /\ UNCHANGED <<running, poll, starts, hot_wait_queue, co, taken, local,
                     away>>
  BY <1>q, <1>w, Zenon DEF Execute
<1>2. qp \in [Thread -> [Mem -> Seq(WR)]] /\ q \in Seq(WR)
  BY <1>q, <1>t DEF TypeOK
<1>3. /\ w \in Range(q) /\ w \in WR /\ Tail(q) \in Seq(WR)
      /\ Range(Tail(q)) \subseteq Range(q)
  <2>1. /\ DOMAIN q = 1..Len(q) /\ Len(q) \in Nat /\ Len(q) >= 1
        /\ w = q[1] /\ Tail(q) \in Seq(WR)
        /\ DOMAIN Tail(q) = 1..Len(q) - 1
        /\ \A i \in 1..Len(q) - 1 : Tail(q)[i] = q[i + 1]
    BY <1>1, <1>2, <1>w
  <2>2. \A i \in 1..Len(q) - 1 : i + 1 \in 1..Len(q)
    BY <2>1
  <2>3. w \in WR
    BY <1>2, <2>1
  <2> QED
    BY <2>1, <2>2, <2>3 DEF Range
<1>4. /\ qp' \in [Thread -> [Mem -> Seq(WR)]]
      /\ qp'[t][m] = Tail(q)
      /\ \A l \in Mem \ {m} : qp'[t][l] = qp[t][l]
      /\ \A u \in Thread \ {t} : qp'[u] = qp[u]
  <2>1. qp' = [qp EXCEPT ![t] = [qp[t] EXCEPT ![m] = Tail(q)]]
    BY <1>1, <1>2, <1>q
  <2>2. [qp[t] EXCEPT ![m] = Tail(q)] \in [Mem -> Seq(WR)]
    BY <1>2, <1>3
  <2> QED
    BY <1>2, <2>1, <2>2
<1>5. \A u \in Thread, l \in Mem : Range(qp'[u][l]) \subseteq Range(qp[u][l])
  BY <1>3, <1>4, <1>q
<1>c. PICK c : c = w.coro
  OBVIOUS
<1>6. c \in Team(t) /\ c \in Coro
  BY <1>3, <1>c, <1>q, <1>t, TeamOf DEF TeamInv
<1>7. PostedOK(m, w)
  BY <1>3, <1>q, <1>t DEF PostInv
<1>8. /\ cq[t] \in Seq(Coro) /\ cq' \in [Thread -> Seq(Coro)]
      /\ cq'[t] = IF w.signal THEN Append(cq[t], c) ELSE cq[t]
      /\ \A u \in Thread \ {t} : cq'[u] = cq[u]
  <2>1. cq \in [Thread -> Seq(Coro)]
    BY <1>t DEF TypeOK
  <2> QED
    BY <1>1, <1>6, <1>c, <2>1
<1>9. /\ word' \in [Mem -> Thread \cup {NoTag}] /\ page' \in [Mem -> Int]
      /\ got' \in [Coro -> [Mem -> Int]]
      /\ (w.op \in Waits /\ Fills(w)) \/ buffer' = buffer
  <2>1. /\ word \in [Mem -> Thread \cup {NoTag}] /\ page \in [Mem -> Int]
        /\ got \in [Coro -> [Mem -> Int]]
        /\ word[m] \in Thread \cup {NoTag} /\ page[m] \in Int
    BY <1>t DEF TypeOK
  <2>2. PICK k : k = KindOf(w.op)
    OBVIOUS
  <2>3. \/ w.op = "cas" /\ UNCHANGED <<page, got>>
             /\ buffer' = [buffer EXCEPT ![w.coro][k][Slot(k, w.n)] = word[m]]
             /\ word' = [word EXCEPT ![m] = IF @ = NoTag THEN t ELSE @]
        \/ w.op = "read" /\ UNCHANGED memory
             /\ buffer' = [buffer EXCEPT ![w.coro][k][Slot(k, w.n)] = page[m]]
             /\ got' = [got EXCEPT ![w.coro][m] = page[m]]
        \/ w.op = "search" /\ UNCHANGED <<memory, got>>
             /\ buffer' = [buffer EXCEPT ![w.coro][k][Slot(k, w.n)] = page[m]]
        \/ w.op = "write"
             /\ page' = [page EXCEPT ![m] = Contents(w.coro, k, w.n)]
             /\ UNCHANGED <<word, buffer, got>>
        \/ w.op = "unlock"
             /\ word' = [word EXCEPT ![m] = Contents(w.coro, k, w.n)]
             /\ UNCHANGED <<page, buffer, got>>
    BY <1>q, <1>w, <2>2, Zenon DEF Execute
  <2>4. /\ buffer[c].cas \in [0..kCasBufferCnt-1 -> Thread \cup {NoTag}]
        /\ buffer[c].page \in [0..kPageBufferCnt-1 -> Int] /\ w.n \in Nat
    BY <1>3, <1>6, <1>t DEF TypeOK, WR, Rings
  <2>5. CASE w.op = "cas" /\ UNCHANGED <<page, got>>
             /\ buffer' = [buffer EXCEPT ![w.coro][k][Slot(k, w.n)] = word[m]]
             /\ word' = [word EXCEPT ![m] = IF @ = NoTag THEN t ELSE @]
    BY <2>1, <2>2, <2>5 DEF Fills, Waits, KindOf
  <2>6. CASE w.op = "read" /\ UNCHANGED memory
             /\ buffer' = [buffer EXCEPT ![w.coro][k][Slot(k, w.n)] = page[m]]
             /\ got' = [got EXCEPT ![w.coro][m] = page[m]]
    <3>1. PICK g : g = [got[c] EXCEPT ![m] = page[m]]
      OBVIOUS
    <3>2. g \in [Mem -> Int]
      BY <1>6, <2>1, <3>1
    <3>3. got' = [got EXCEPT ![c] = g]
      BY <1>c, <2>6, <3>1
    <3>4. got' \in [Coro -> [Mem -> Int]]
      BY <1>6, <2>1, <3>2, <3>3
    <3> QED
      BY <2>1, <2>2, <2>6, <3>4 DEF Fills, Waits, KindOf, memory
  <2>7. CASE w.op = "search" /\ UNCHANGED <<memory, got>>
             /\ buffer' = [buffer EXCEPT ![w.coro][k][Slot(k, w.n)] = page[m]]
    BY <2>1, <2>2, <2>7 DEF Fills, Waits, KindOf, memory
  <2>8. CASE w.op = "write"
             /\ page' = [page EXCEPT ![m] = Contents(w.coro, k, w.n)]
             /\ UNCHANGED <<word, buffer, got>>
    <3>1. k = "page" /\ Slot(k, w.n) \in 0..kPageBufferCnt-1
      BY <2>2, <2>4, <2>8, BufferCounts DEF KindOf, Slot
    <3>2. Contents(w.coro, k, w.n) \in Int
      BY <1>c, <2>4, <3>1 DEF Contents
    <3> QED
      BY <2>1, <2>8, <3>2
  <2>9. CASE w.op = "unlock"
             /\ word' = [word EXCEPT ![m] = Contents(w.coro, k, w.n)]
             /\ UNCHANGED <<page, buffer, got>>
    <3>1. k = "cas" /\ Slot(k, w.n) \in 0..kCasBufferCnt-1
      BY <2>2, <2>4, <2>9, BufferCounts DEF KindOf, Slot
    <3>2. Contents(w.coro, k, w.n) \in Thread \cup {NoTag}
      BY <1>c, <2>4, <3>1 DEF Contents
    <3> QED
      BY <2>1, <2>9, <3>2
  <2> QED
    BY <2>3, <2>5, <2>6, <2>7, <2>8, <2>9
<1>10. TypeOK'
  <2>1. buffer' \in [Coro -> Rings]
    BY <1>3, <1>9, <1>t, FilledOnly DEF TypeOK
  <2> QED
    BY <1>1, <1>4, <1>8, <1>9, <1>t, <2>1 DEF TypeOK
<1>11. TeamInv'
  <2>1. Range(cq'[t]) \subseteq Team(t)
    <3>1. PICK r \in Seq(Coro) : r = cq[t]
      BY <1>8
    <3>2. Range(Append(r, c)) = Range(r) \cup {c}
      BY <1>6, IndicesAppend
    <3>3. Range(r) \subseteq Team(t)
      BY <1>t, <3>1 DEF TeamInv
    <3> QED
      BY <1>6, <1>8, <3>1, <3>2, <3>3
  <2> QED
    BY <1>1, <1>5, <1>8, <1>t, <2>1 DEF TeamInv
<1>12. ASSUME NEW d \in Team(t)
       PROVE  WakeOK(t, d)'
  <2>1. WakeOK(t, d) /\ d \in Coro
    BY <1>t, TeamOf DEF WakeInv
  <2>2. OnceAsked(q, d) /\ Once(cq[t], d) /\ Turns(t, d) = 1
    BY <1>q, <2>1 DEF WakeOK
  <2>3. /\ OnceAsked(Tail(q), d)
        /\ c = d /\ w.signal =>
             Signalled(q, d) # {} /\ Signalled(Tail(q), d) = {}
        /\ ~(c = d /\ w.signal) =>
             (Signalled(Tail(q), d) # {} <=> Signalled(q, d) # {})
    BY <1>1, <1>2, <1>c, <1>w, <2>2, AskedTail
  <2>4. /\ \A l \in Mem : OnceAsked(qp'[t][l], d)
        /\ \A l, k \in Mem :
             Signalled(qp'[t][l], d) # {} /\ Signalled(qp'[t][k], d) # {}
               => l = k
    BY <1>4, <1>q, <2>1, <2>3 DEF WakeOK
  <2>5. CASE c = d /\ w.signal
    <3>1. Signalled(q, d) # {} /\ Signalled(Tail(q), d) = {}
      BY <2>3, <2>5
    <3>2. Asked(t, d)
      BY <1>q, <3>1 DEF Asked
    <3>3. ~Asked(t, d)'
      BY <1>4, <1>q, <2>1, <3>1 DEF Asked, WakeOK
    <3>4. Indices(cq[t], d) = {}
      BY <2>2, <3>2 DEF Turns
    <3>5. Once(cq'[t], d) /\ Indices(cq'[t], d) # {}
      BY <1>6, <1>8, <2>2, <2>5, <3>4, OnceAppend
    <3>6. Turns(t, d)' = 1
      BY <1>1, <2>2, <3>2, <3>3, <3>4, <3>5 DEF Turns
    <3> QED
      BY <1>1, <2>1, <2>4, <3>5, <3>6 DEF WakeOK
  <2>6. CASE ~(c = d /\ w.signal)
    <3>1. Asked(t, d)' <=> Asked(t, d)
      BY <1>4, <1>q, <2>3, <2>6 DEF Asked
    <3>2. /\ Once(cq'[t], d)
          /\ Indices(cq'[t], d) # {} <=> Indices(cq[t], d) # {}
      <4>1. CASE w.signal
        BY <1>6, <1>8, <2>2, <2>6, <4>1, OnceAppend
      <4>2. CASE ~w.signal
        BY <1>8, <2>2, <4>2
      <4> QED
        BY <4>1, <4>2
    <3>3. Turns(t, d)' = 1
      BY <1>1, <2>2, <3>1, <3>2 DEF Turns
    <3> QED
      BY <1>1, <2>1, <2>4, <3>2, <3>3 DEF WakeOK
  <2> QED
    BY <2>5, <2>6
<1>13. ASSUME NEW u \in Thread \ {t}, NEW d \in Team(u)
       PROVE  WakeOK(u, d)'
  BY <1>1, <1>4, <1>8, <1>t, WakeSame DEF WakeInv
<1>14. WakeInv'
  BY <1>12, <1>13 DEF WakeInv
<1>l. /\ LastAsked(Tail(q)) /\ Range(q) = {w} \cup Range(Tail(q))
      /\ \A x \in Range(Tail(q)) : x.coro = c => w.op \notin Waits
  <2>1. LastAsked(q)
    BY <1>q, <1>t DEF QueueInv
  <2> QED
    BY <1>1, <1>2, <1>c, <1>w, <2>1, LastTail
<1>15. ASSUME NEW u \in Thread, NEW l \in Mem, NEW x \in Range(qp'[u][l])
       PROVE  PostedOK(l, x)'
  <2>1. x \in Range(qp[u][l]) /\ PostedOK(l, x)
    BY <1>5, <1>t DEF PostInv
  <2>2. x \in WR
    BY <1>2, <2>1 DEF Range
  <2>3. x.coro \in Coro /\ x.n \in Nat /\ KindOf(x.op) \in {"cas", "page"}
    BY <2>2 DEF WR, KindOf
  <2>4. ASSUME x.op \in Unwaited,
               away[x.coro][l][KindOf(x.op)] < BufferCnt[KindOf(x.op)]
        PROVE  Intact(x)'
    <3>1. Intact(x)
      BY <2>1, <2>4 DEF PostedOK
    <3>2. CASE w.op \in Waits /\ Fills(w)
      <4>1. CASE x.coro = w.coro /\ KindOf(x.op) = KindOf(w.op)
        <5>1. l # m
          <6>1. SUFFICES ASSUME l = m PROVE FALSE
            OBVIOUS
          <6>2. u = t
            BY <1>6, <1>c, <1>t, <2>1, <4>1, TeamOf DEF TeamInv
          <6>3. x \in Range(Tail(q))
            BY <1>4, <1>15, <6>1, <6>2
          <6> QED
            BY <1>c, <1>l, <3>2, <4>1, <6>3
        <5>2. Slot(KindOf(x.op), x.n) # Slot(KindOf(x.op), w.n)
          BY <1>3, <1>7, <2>1, <2>2, <2>3, <2>4, <3>2, <4>1, <5>1, FillApart
        <5>3. Contents(x.coro, KindOf(x.op), x.n)'
                = Contents(x.coro, KindOf(x.op), x.n)
          BY <1>3, <1>t, <2>3, <3>2, <4>1, <5>2, FilledOnly
        <5> QED
          BY <3>1, <5>3 DEF Intact
      <4>2. CASE ~(x.coro = w.coro /\ KindOf(x.op) = KindOf(w.op))
        <5>1. Contents(x.coro, KindOf(x.op), x.n)'
                = Contents(x.coro, KindOf(x.op), x.n)
          BY <1>3, <1>t, <2>3, <3>2, <4>2, FilledOnly
        <5> QED
          BY <3>1, <5>1 DEF Intact
      <4> QED
        BY <4>1, <4>2
    <3>3. CASE buffer' = buffer
      BY <3>1, <3>3 DEF Intact, Contents
    <3> QED
      BY <1>9, <3>2, <3>3
  <2> QED
    BY <1>1, <2>1, <2>4 DEF PostedOK
<1>16. PostInv'
  BY <1>1, <1>15, <1>t DEF PostInv
<1>17. ASSUME NEW u \in Thread, NEW l \in Mem
       PROVE  LastAsked(qp'[u][l])
  BY <1>4, <1>l, <1>t DEF QueueInv
<1>18. ASSUME NEW u \in Thread, NEW d \in Coro, co[d].pc \in Waits,
              Has(qp'[u][co[d].at], d)
       PROVE  HasAsked(qp'[u][co[d].at], d)
  <2>l. PICK l \in Mem : l = co[d].at
    BY <1>t DEF TypeOK, CR
  <2>1. PICK x \in Range(qp'[u][l]) : x.coro = d
    BY <1>18, <2>l DEF Has
  <2>2. PICK y \in Range(qp[u][l]) : y.coro = d /\ y.op \in Waits
    <3>1. Has(qp[u][l], d)
      BY <1>5, <2>1 DEF Has
    <3> QED
      BY <1>18, <1>t, <2>l, <3>1 DEF QueueInv, HasAsked
  <2>3. y \in Range(qp'[u][l])
    <3>1. CASE u = t /\ l = m
      <4>1. x \in Range(Tail(q)) /\ y \in Range(q)
        BY <1>4, <1>q, <2>1, <2>2, <3>1
      <4>2. y # w
        BY <1>c, <1>l, <2>1, <2>2, <4>1
      <4> QED
        BY <1>4, <1>l, <3>1, <4>1, <4>2
    <3>2. CASE ~(u = t /\ l = m)
      BY <1>4, <2>2, <3>2
    <3> QED
      BY <3>1, <3>2
  <2> QED
    BY <2>2, <2>3, <2>l DEF HasAsked
<1>19. QueueInv'
  BY <1>1, <1>17, <1>18 DEF QueueInv, LastAsked, Has, HasAsked
<1> QED
  BY <1>10, <1>11, <1>14, <1>16, <1>19 DEF CoroInv

-----------------------------------------------------------------------------
\* The initial states satisfy the invariant.
LEMMA CoroInit == Init => CoroInv
<1> SUFFICES ASSUME Init PROVE CoroInv
  OBVIOUS
<1>1. Workers \in [Thread -> Seq(Coro)] /\ Home \in Mem
  BY CoroAssumption
<1>p. PICK p \in Plans :
        co = [c \in Coro |-> [pc |-> "idle", at |-> Home, cas |-> 0,
                             page |-> 0, my |-> 0, left |-> p[c]]]
  BY DEF Init
<1>c. co \in [Coro -> CR] /\ \A c \in Coro : co[c].pc = "idle"
  <2>1. p \in [Coro -> [Mem -> Nat]]
    BY CoroAssumption
  <2> QED
    BY <1>1, <1>p, <2>1 DEF Pcs, CR
<1>q. \A t \in Thread, m \in Mem : qp[t][m] = <<>>
  BY DEF Init
<1>2. TypeOK
  <2>1. buffer \in [Coro -> Rings]
    BY DEF Init, Rings
  <2>2. /\ qp \in [Thread -> [Mem -> Seq(WR)]] /\ taken \in [Coro -> Counts]
        /\ away \in [Coro -> [Mem -> Counts]]
    BY DEF Init, Counts
  <2>3. /\ word \in [Mem -> Thread \cup {NoTag}] /\ page \in [Mem -> Int]
        /\ got \in [Coro -> [Mem -> Int]]
        /\ local \in [Node -> [Mem -> LR]]
    BY DEF Init, LR
  <2>4. /\ running \in [Thread -> Coro \cup {Master}]
        /\ poll \in [Thread -> BOOLEAN] /\ starts \in [Thread -> Seq(Coro)]
        /\ hot_wait_queue \in [Thread -> Seq(Coro)]
        /\ cq \in [Thread -> Seq(Coro)]
    BY <1>1 DEF Init
  <2> QED
    BY <1>c, <2>1, <2>2, <2>3, <2>4 DEF TypeOK
<1>3. TeamInv
  BY <1>q DEF Init, TeamInv, Team, Range
<1>4. ASSUME NEW t \in Thread, NEW c \in Team(t)
      PROVE  WakeOK(t, c)
  <2>1. c \in Coro /\ c # Master
    BY TeamOf
  <2>2. PICK s \in Seq(Coro) : s = Workers[t]
    BY <1>1
  <2>3. IsInjective(s) /\ c \in Range(s)
    BY <2>2, CoroAssumption DEF Team
  <2>4. Once(s, c) /\ Indices(s, c) # {}
    BY <2>3 DEF Once, Unique, Indices, IsInjective, Range
  <2>5. /\ starts[t] = s /\ hot_wait_queue[t] = <<>> /\ cq[t] = <<>>
        /\ running[t] = Master
    BY <2>2 DEF Init
  <2>6. Indices(<<>>, c) = {} /\ Signalled(<<>>, c) = {}
    BY DEF Indices, Signalled
  <2>7. ~Asked(t, c)
    BY <1>q, <2>6 DEF Asked
  <2>8. Turns(t, c) = 1
    BY <1>c, <2>1, <2>4, <2>5, <2>6, <2>7 DEF Turns
  <2> QED
    BY <1>q, <2>4, <2>5, <2>6, <2>8 DEF WakeOK, Once, OnceAsked, Unique
<1>5. PostInv
  BY <1>c, <1>q DEF PostInv, Range, Active, Waits
<1>6. QueueInv
  BY <1>c, <1>q DEF QueueInv, LastAsked, Waits
<1> QED
  BY <1>2, <1>3, <1>4, <1>5, <1>6 DEF CoroInv, WakeInv

\* Every step of a worker keeps the invariant.
LEMMA WorkerStep ==
  ASSUME CoroInv, NEW t \in Thread, NEW c \in Range(Workers[t]), Worker(c)
  PROVE  CoroInv'
<1>1. c \in Team(t)
  BY DEF Team
<1> QED
  BY <1>1, SearchStep, EndSearchStep, StoreStep, WaitStep, EnterStep,
     TestCasStep, UnlockStep, ReleaseStep, RestStep DEF Worker

\* The invariant is inductive.
LEMMA CoroNext == CoroInv /\ [Next]_vars => CoroInv'
<1> SUFFICES ASSUME CoroInv, [Next]_vars PROVE CoroInv'
  OBVIOUS
<1>1. CASE UNCHANGED vars
  <2>1. UNCHANGED <<running, poll, starts, hot_wait_queue, cq, qp, co, taken,
                    buffer, word, page, local, got, away>>
    BY <1>1 DEF vars, client, memory, history
  <2>2. TypeOK'
    BY <2>1 DEF CoroInv, TypeOK
  <2>3. TeamInv' /\ WakeInv'
    BY <2>1, QuietStep DEF client, DoneSame
  <2>4. PostInv' /\ QueueInv'
    BY <2>1, PostsKept
  <2> QED
    BY <2>2, <2>3, <2>4 DEF CoroInv
<1>2. ASSUME NEW t \in Thread, coro_master(t)
      PROVE  CoroInv'
  BY <1>2, MasterStep
<1>3. ASSUME NEW t \in Thread, NEW c \in Range(Workers[t]), Worker(c)
      PROVE  CoroInv'
  BY <1>3, WorkerStep
<1>4. ASSUME NEW t \in Thread, NEW m \in Mem, Execute(t, m)
      PROVE  CoroInv'
  BY <1>4, ExecuteStep
<1> QED
  BY <1>1, <1>2, <1>3, <1>4 DEF Next, Step

\* The coroutines, their wakeups and their buffers keep the invariant of this
\* module, whatever threads, coroutines, memory nodes and ring sizes.
THEOREM CoroInvHolds == Spec => []CoroInv
BY CoroInit, CoroNext, PTL DEF Spec

\* What is known of a request that the NIC has yet to read.
LEMMA UnreadOK ==
  ASSUME CoroInv, NEW c \in Coro, NEW m \in Mem, NEW w \in Unread(c, m)
  PROVE  away[c][m][KindOf(w.op)] < BufferCnt[KindOf(w.op)] => Intact(w)
<1>1. /\ ThreadOf(c) \in Thread /\ w \in Range(qp[ThreadOf(c)][m])
      /\ w.coro = c /\ w.op \in Unwaited
  BY InTeam DEF Unread, Unwaited
<1>2. PostedOK(m, w)
  BY <1>1 DEF CoroInv, PostInv
<1> QED
  BY <1>1, <1>2 DEF PostedOK

\* RdmaBuffer hands a buffer out again only after the NIC has read what was
\* posted from it, unless a coroutine takes a whole ring of buffers for other
\* memory nodes meanwhile.  The queue pairs alone give this: nothing is assumed
\* of how fast they are.
THEOREM BuffersIntact == Spec => []PostedIntact
<1>1. CoroInv => PostedIntact
  BY UnreadOK DEF PostedIntact
<1> QED
  BY <1>1, CoroInvHolds, PTL

NothingAway ==
  \A c \in Coro, k \in {"cas", "page"} : away[c][Home][k] = 0

\* With one memory node no buffer is ever taken for another one.
LEMMA StaysHome ==
  ASSUME Mem = {Home}, CoroInv, NothingAway, [Next]_vars
  PROVE  NothingAway'
<1>t. TypeOK
  BY DEF CoroInv
<1>k. UNCHANGED away => NothingAway'
  BY DEF NothingAway
<1>1. CASE UNCHANGED vars
  BY <1>1, <1>k DEF vars, history
<1>2. ASSUME NEW t \in Thread, coro_master(t)
      PROVE  NothingAway'
  BY <1>2, <1>k DEF coro_master, history
<1>3. ASSUME NEW t \in Thread, NEW m \in Mem, Execute(t, m)
      PROVE  NothingAway'
  BY <1>3, <1>k, Zenon DEF Execute
<1>4. ASSUME NEW t \in Thread, NEW c \in Team(t), Worker(c)
      PROVE  NothingAway'
  <2>c. c \in Coro
    BY TeamOf
  <2>1. ASSUME NEW m \in Mem, NEW a \in Nat, NEW b \in Nat,
               Take(c, m, [cas |-> a, page |-> b])
        PROVE  NothingAway'
    <3>1. /\ \A d \in Coro \ {c} : away'[d] = away[d]
          /\ away'[c][m] = away[c][m] /\ m = Home
      BY <1>t, <2>c, <2>1, TakeIs
    <3> QED
      BY <2>c, <3>1 DEF NothingAway
  <2>2. ASSUME NEW m \in Mem, Search(c, m) \/ Store(c, m)
        PROVE  NothingAway'
    BY <2>1, <2>2 DEF Search, Store
  <2>3. ASSUME NEW write \in BOOLEAN, NEW async \in BOOLEAN,
               Unlock(c, write, async)
        PROVE  NothingAway'
    <3>m. PICK m \in Mem : m = co[c].at /\ m = Home
      BY <1>t, <2>c DEF TypeOK, CR
    <3>h. PICK hand \in BOOLEAN : hand = CanHandOver(c)
      BY DEF CanHandOver
    <3>p. PICK p \in Nat, s \in Nat : p = taken[c].page /\ s = taken[c].cas + 1
      <4>1. taken[c].page \in Nat /\ taken[c].cas + 1 \in Nat
        BY <1>t, <2>c DEF TypeOK, Counts
      <4> QED
        BY <4>1
    <3>1. /\ taken' = IF hand THEN taken ELSE [taken EXCEPT ![c].cas = @ + 1]
          /\ away' =
               [Elsewhere(c, m, [cas |-> IF hand THEN 0 ELSE 1, page |-> 0])
                  EXCEPT ![c][m] = [cas |-> 0, page |-> 0]]
      BY <2>3, <3>h, <3>m DEF Unlock
    <3>2. UnlockTakes(c, m, hand, p, s)
      BY <1>t, <2>c, <3>1, <3>p, UnlockTakesIts
    <3> QED
      BY <2>c, <3>2, <3>m DEF UnlockTakes, NothingAway
  <2>4. CASE EndSearch(c) \/ Wait(c) \/ Enter(c) \/ TestCas(c) \/ Release(c)
               \/ Rest(c)
    BY <1>k, <2>4, Zenon
       DEF EndSearch, Wait, Enter, TestCas, Release, Rest, history
  <2> QED
    BY <1>4, <2>2, <2>3, <2>4 DEF Worker
<1> QED
  BY <1>1, <1>2, <1>3, <1>4 DEF Next, Step, Team

\* "async, buffer safty": with one memory node, whose queue pair executes in
\* order, no ring however short hands out a buffer that the NIC has yet to
\* read.
THEOREM OneMemNodeSafe ==
  ASSUME Mem = {Home}
  PROVE  Spec => []BuffersSafe
<1>1. Init => NothingAway
  BY DEF Init, NothingAway
<1>2. CoroInv /\ NothingAway /\ [Next]_vars => NothingAway'
  BY StaysHome
<1>3. Spec => []NothingAway
  BY <1>1, <1>2, CoroInvHolds, PTL DEF Spec
<1>4. CoroInv /\ NothingAway => BuffersSafe
  <2> SUFFICES ASSUME CoroInv, NothingAway, NEW c \in Coro, NEW m \in Mem,
                      NEW w \in Unread(c, m)
               PROVE  Intact(w)
    BY DEF BuffersSafe
  <2>1. KindOf(w.op) \in {"cas", "page"}
    BY DEF KindOf
  <2>2. away[c][m][KindOf(w.op)] = 0 /\ 0 < BufferCnt[KindOf(w.op)]
    BY <2>1, BufferCounts DEF NothingAway
  <2> QED
    BY <2>2, UnreadOK
<1> QED
  BY <1>3, <1>4, CoroInvHolds, PTL

\* coro_master resumes a coroutine once for what it waits for: a suspended
\* worker has one wakeup under way, a running one none.
THEOREM WokenOnce == Spec => []OneWakeup
<1>1. ASSUME CoroInv, NEW c \in Coro
      PROVE  Cardinality(Wakeups(c)) =
               IF running[ThreadOf(c)] = c \/ co[c].pc = "done" THEN 0 ELSE 1
  <2>t. PICK t \in Thread : t = ThreadOf(c) /\ c \in Team(t)
    BY InTeam
  <2>w. WakeOK(t, c)
    BY <1>1, <2>t DEF CoroInv, WakeInv
  <2> DEFINE A == Indices(starts[t], c)
             B == Indices(hot_wait_queue[t], c)
             C == Indices(cq[t], c)
             S(m) == Signalled(qp[t][m], c)
  <2>1. Wakeups(c) = {<<"start", Home, i>> : i \in A}
                       \cup {<<"hot", Home, i>> : i \in B}
                       \cup {<<"cq", Home, i>> : i \in C}
                       \cup UNION {{<<"qp", m, i>> : i \in S(m)} : m \in Mem}
    BY <2>t DEF Wakeups
  <2>2. /\ (IF A # {} THEN 1 ELSE 0) + (IF B # {} THEN 1 ELSE 0)
             + (IF C # {} THEN 1 ELSE 0)
             + (IF \E m \in Mem : S(m) # {} THEN 1 ELSE 0)
             + (IF running[t] = c THEN 1 ELSE 0)
             + (IF co[c].pc = "done" THEN 1 ELSE 0) = 1
        /\ \A i, j \in A : i = j
        /\ \A i, j \in B : i = j
        /\ \A i, j \in C : i = j
        /\ \A m \in Mem : \A i, j \in S(m) : i = j
        /\ \A m, l \in Mem : S(m) # {} /\ S(l) # {} => m = l
    BY <2>w DEF WakeOK, Turns, Asked, Once, OnceAsked, Unique
  <2> HIDE DEF A, B, C, S
  <2>3. CASE running[t] = c \/ co[c].pc = "done"
    <3>1. A = {} /\ B = {} /\ C = {} /\ \A m \in Mem : S(m) = {}
      BY <2>2, <2>3
    <3>2. Wakeups(c) = {}
      BY <2>1, <3>1
    <3> QED
      BY <2>3, <2>t, <3>2, FS_EmptySet
  <2>4. CASE ~(running[t] = c \/ co[c].pc = "done")
    <3>1. \/ A # {} /\ B = {} /\ C = {} /\ (\A m \in Mem : S(m) = {})
          \/ A = {} /\ B # {} /\ C = {} /\ (\A m \in Mem : S(m) = {})
          \/ A = {} /\ B = {} /\ C # {} /\ (\A m \in Mem : S(m) = {})
          \/ A = {} /\ B = {} /\ C = {} /\ (\E m \in Mem : S(m) # {})
      BY <2>2, <2>4
    <3>2. \E x : Wakeups(c) = {x}
      <4>1. CASE A # {} /\ B = {} /\ C = {} /\ (\A m \in Mem : S(m) = {})
        <5>1. PICK i : i \in A /\ A = {i}
          BY <2>2, <4>1
        <5>2. Wakeups(c) = {<<"start", Home, i>>}
          BY <2>1, <4>1, <5>1
        <5> QED
          BY <5>2
      <4>2. CASE A = {} /\ B # {} /\ C = {} /\ (\A m \in Mem : S(m) = {})
        <5>1. PICK i : i \in B /\ B = {i}
          BY <2>2, <4>2
        <5>2. Wakeups(c) = {<<"hot", Home, i>>}
          BY <2>1, <4>2, <5>1
        <5> QED
          BY <5>2
      <4>3. CASE A = {} /\ B = {} /\ C # {} /\ (\A m \in Mem : S(m) = {})
        <5>1. PICK i : i \in C /\ C = {i}
          BY <2>2, <4>3
        <5>2. Wakeups(c) = {<<"cq", Home, i>>}
          BY <2>1, <4>3, <5>1
        <5> QED
          BY <5>2
      <4>4. CASE A = {} /\ B = {} /\ C = {} /\ (\E m \in Mem : S(m) # {})
        <5>0. PICK l \in Mem : S(l) # {}
          BY <4>4
        <5>1. PICK i : i \in S(l)
          BY <5>0
        <5>2. S(l) = {i} /\ \A m \in Mem \ {l} : S(m) = {}
          BY <2>2, <5>1
        <5>3. Wakeups(c) = {<<"qp", l, i>>}
          BY <2>1, <4>4, <5>1, <5>2
        <5> QED
          BY <5>3
      <4> QED
        BY <3>1, <4>1, <4>2, <4>3, <4>4
    <3> QED
      BY <2>4, <2>t, <3>2, FS_Singleton
  <2> QED
    BY <2>3, <2>4
<1>2. CoroInv => OneWakeup
  BY <1>1 DEF OneWakeup
<1> QED
  BY <1>2, CoroInvHolds, PTL
=============================================================================
