------------------------- MODULE MessageRingProofs -------------------------
(***************************************************************************)
(* A send buffer is not overwritten before the NIC has read it, a datagram *)
(* is lost only at a directory that more ask at once than its ring has     *)
(* buffers outside of one batch, and a handler reads the message that was  *)
(* received, for any number of threads and directories, any rings and any  *)
(* signalling period.  The number of threads is not limited by the rings:  *)
(* Bearable, which the theorems assume of the run, says that a directory   *)
(* is never asked by more at once than it has buffers at all.              *)
(***************************************************************************)
EXTENDS MessageRing, FiniteSetTheorems, SequenceTheorems, TLAPS

-----------------------------------------------------------------------------
(* The ring of send buffers, as a relation of its parts.                   *)

\* k places before x in a ring of N.
Back(x, k, N) == IF x >= k THEN x - k ELSE x - k + N

\* The sends since the last signalled one, of S sends.
Since(S) == IF S % kSignal = 0 THEN kSignal - 1 ELSE (S % kSignal) - 1

\* S sends were posted, the sends of q are still in the send queue, b is the
\* buffer after the last one posted, and w completions are to be polled: the
\* sends of q use the buffers before b, the last signalled one is done if its
\* completion is there, and pool holds what was posted.
SendOK(N, S, b, q, w, pool) ==
  /\ Len(q) <= Since(S) + kSignal
  /\ S = 0 => Len(q) = 0
  /\ w = IF S > 0 /\ Len(q) <= Since(S) THEN 1 ELSE 0
  /\ \A i \in 1..Len(q) :
       /\ q[i].slot = Back(b, Len(q) - i + 1, N)
       /\ q[i].signal <=> Len(q) - i = Since(S)
       /\ pool[q[i].slot] = q[i].m

-----------------------------------------------------------------------------
(* The ring of receive buffers.                                            *)

\* j places after x in a ring of N (j may be -1).
Fwd(x, j, N) ==
  IF x + j < 0 THEN x + j + N ELSE IF x + j < N THEN x + j ELSE x + j - N

\* Buffer cur is polled next, those of r are posted, k completions are to be
\* polled, and h is 1 while the message before cur is handled: what is posted
\* follows what was received, and pool holds the messages that are due.
RecvOK(N, s, cur, r, k, h, d, pool) ==
  /\ Len(r) + k = N - (cur % s)
  /\ \A i \in 1..Len(r) : r[i] = Fwd(cur, k + i - 1, N)
  /\ Len(d) = k + h
  /\ \A i \in 1..Len(d) : pool[Fwd(cur, i - 1 - h, N)] = d[i]

-----------------------------------------------------------------------------
(* The system.                                                             *)

Types == {"MALLOC", "NEW_ROOT", "REPLY"}
Msg == [type : Types, app : App, n : Nat]
Send == [slot : Nat, to : Conn, signal : BOOLEAN, m : Msg]
Pcs == {"idle", "call", "send", "wait", "handle", "poll"}
Thr == [pc : Pcs, slot : Nat, type : Types \cup {"NOP"}, to : Conn, last : Dir]
Pool(c) == [Slots(c) -> Msg \cup {Empty}]
Pools == UNION {Pool(c) : c \in Conn}

TypeOK ==
  /\ sendCounter \in [Conn -> Nat]
  /\ curSend \in [Conn -> Nat] /\ \A c \in Conn : curSend[c] \in Slots(c)
  /\ sendPool \in [Conn -> Pools] /\ \A c \in Conn : sendPool[c] \in Pool(c)
  /\ sq \in [Conn -> Seq(Send)]
  /\ send_cq \in [Conn -> Nat]
  /\ curMessage \in [Conn -> Nat]
  /\ \A c \in Conn : curMessage[c] \in Slots(c)
  /\ messagePool \in [Conn -> Pools]
  /\ \A c \in Conn : messagePool[c] \in Pool(c)
  /\ rq \in [Conn -> Seq(Nat)]
  /\ cq \in [Conn -> Nat]
  /\ due \in [Conn -> Seq(Msg)]
  /\ th \in [Conn -> Thr]
  /\ \A t \in App : th[t].pc # "poll"
  /\ \A d \in Dir : th[d].pc \in {"poll", "handle", "send"}
  /\ calls \in [App -> Nat]
  /\ roots \in 0..MaxRoots
  /\ next_target_node \in [App -> Dir]

\* The buffer after the last send posted.
Base(c) == IF At(c, "send") THEN th[c].slot ELSE curSend[c]

SendC(c) ==
  /\ SendOK(messageNR[c], sendCounter[c], Base(c), sq[c], send_cq[c],
            sendPool[c])
  /\ At(c, "send") =>
       th[c].slot \in Slots(c)
         /\ curSend[c] = AddRound(th[c].slot, messageNR[c])

SendInv == \A c \in Conn : SendC(c)

Handles(c) == IF At(c, "handle") THEN 1 ELSE 0

RecvC(c) ==
  /\ RecvOK(messageNR[c], subNR(c), curMessage[c], rq[c], cq[c],
            Handles(c), due[c], messagePool[c])
  /\ At(c, "handle") => th[c].slot = Fwd(curMessage[c], -1, messageNR[c])

RecvInv == \A c \in Conn : RecvC(c)

MyReq(t) == [type |-> "MALLOC", app |-> t, n |-> calls[t]]
MyReply(t) == [type |-> "REPLY", app |-> t, n |-> calls[t]]

\* What the connections carry.
LoadApp(t) ==
  /\ \A i \in DOMAIN sq[t] :
       sq[t][i].m.app = t /\ sq[t][i].to \in Dir /\ sq[t][i].m.type # "REPLY"
  /\ At(t, "send") =>
       sendPool[t][th[t].slot] =
         [type |-> th[t].type, app |-> t, n |-> calls[t]]
  /\ th[t].pc \in {"call", "send"} =>
       /\ th[t].type \in {"MALLOC", "NEW_ROOT"}
       /\ th[t].to \in Dir /\ th[t].to <= th[t].last
       /\ th[t].type = "MALLOC" => th[t].to = th[t].last
  /\ At(t, "wait") => th[t].type = "MALLOC"

LoadDir(d) ==
  /\ \A i \in DOMAIN sq[d] :
       sq[d][i].to \in App /\ sq[d][i].m = MyReply(sq[d][i].to)
  /\ \A i \in DOMAIN due[d] : due[d][i].type # "REPLY"
  /\ At(d, "send") =>
       th[d].to \in App /\ sendPool[d][th[d].slot] = MyReply(th[d].to)

LoadInv == (\A t \in App : LoadApp(t)) /\ (\A d \in Dir : LoadDir(d))

Places(q, E) == {i \in DOMAIN q : q[i] \in E}
Unique(S) == \A i, j \in S : i = j

Sends(m, d) == {w \in Send : w.m = m /\ w.to = d}
Sent(m, d) == Places(sq[m.app], Sends(m, d)) # {}
Got(m, d) == Places(due[d], {m}) # {}

\* Thread t has yet to send its call to directory d.
Unsent(t, d) == th[t].pc \in {"call", "send"} /\ d \in th[t].to..th[t].last

Req == {m \in Msg : m.type # "REPLY"}

\* A request is under way to a directory once, belongs to a call that was made
\* and was sent by it, and for memory the thread waits.
FlowOK(m, d) ==
  /\ Unique(Places(sq[m.app], Sends(m, d))) /\ Unique(Places(due[d], {m}))
  /\ ~(Sent(m, d) /\ Got(m, d))
  /\ Sent(m, d) \/ Got(m, d) =>
       /\ m.n >= calls[m.app]
       /\ m.n = calls[m.app] => ~Unsent(m.app, d)
       /\ m.type = "MALLOC" =>
            At(m.app, "wait") /\ m.n = calls[m.app] /\ d = th[m.app].to

FlowInv == \A m \in Req, d \in Dir : FlowOK(m, d)

Asked(t) == Sent(MyReq(t), th[t].to) \/ Got(MyReq(t), th[t].to)

To(t) == {w \in Send : w.to = t}
Sending(d, t) == At(d, "send") /\ th[d].to = t
Answered(d, t) == Places(sq[d], To(t)) # {}

\* An answer is under way to a thread once, instead of the request.
ReplyOK(t) ==
  /\ \A d \in Dir :
       /\ Unique(Places(sq[d], To(t)))
       /\ ~(Sending(d, t) /\ Answered(d, t))
       /\ Sending(d, t) \/ Answered(d, t) =>
            /\ At(t, "wait") /\ d = th[t].to
            /\ ~Asked(t) /\ due[t] = <<>>
  /\ due[t] # <<>> =>
       /\ Len(due[t]) = 1 /\ due[t][1] = MyReply(t)
       /\ ~Asked(t) /\ th[t].pc \in {"wait", "handle"}

ReplyInv == \A t \in App : ReplyOK(t)

\* The NEW_ROOTs that directory d has yet to take.
Roots(d) ==
  {m \in Msg :
     /\ m.type = "NEW_ROOT"
     /\ \/ Sent(m, d) \/ Got(m, d)
        \/ /\ Unsent(m.app, d) /\ th[m.app].type = "NEW_ROOT"
           /\ m.n = calls[m.app]}

RootInv ==
  \A d \in Dir : IsFiniteSet(Roots(d)) /\ Cardinality(Roots(d)) <= roots

RingInv ==
  /\ TypeOK /\ SendInv /\ RecvInv /\ LoadInv /\ FlowInv /\ ReplyInv
  /\ RootInv

-----------------------------------------------------------------------------
(* Arithmetic of rings.                                                    *)

\* Division with remainder, which the solvers do not find by themselves.
LEMMA Division ==
  ASSUME NEW n \in Nat \ {0}, NEW k \in Nat
  PROVE  \E q \in Nat, r \in 0..n-1 : k = n * q + r /\ k % n = r
<1>1. PICK r : r = k % n
  OBVIOUS
<1>2. r \in 0..n-1
  BY <1>1
<1>3. PICK q \in Nat : q = k \div n
  OBVIOUS
<1>4. k - r = n * q
  BY <1>1, <1>3
<1>5. k = n * q + r
  BY <1>2, <1>3, <1>4
<1> QED
  BY <1>1, <1>2, <1>3, <1>5

\* The remainder is unique.
LEMMA DivisionIs ==
  ASSUME NEW n \in Nat \ {0}, NEW k \in Nat, NEW q \in Int, NEW r \in 0..n-1,
         k = n * q + r
  PROVE  k % n = r
OBVIOUS

\* The remainder of the next number.
LEMMA Successor ==
  ASSUME NEW n \in Nat \ {0}, NEW k \in Nat
  PROVE  (k + 1) % n = IF k % n = n - 1 THEN 0 ELSE (k % n) + 1
<1>1. PICK q \in Nat, r \in 0..n-1 : k = n * q + r /\ k % n = r
  BY Division
<1>2. CASE r = n - 1
  <2>1. k + 1 = n * (q + 1) + 0
    BY <1>1, <1>2
  <2>2. k + 1 \in Nat /\ q + 1 \in Int /\ 0 \in 0..n-1
    OBVIOUS
  <2>3. (k + 1) % n = 0
    BY <2>1, <2>2, DivisionIs
  <2> QED
    BY <1>1, <1>2, <2>3
<1>3. CASE r # n - 1
  <2>1. k + 1 = n * q + (r + 1) /\ r + 1 \in 0..n-1
    BY <1>1, <1>3
  <2>2. k + 1 \in Nat /\ q \in Int
    OBVIOUS
  <2>3. (k + 1) % n = r + 1
    BY <2>1, <2>2, DivisionIs
  <2> QED
    BY <1>1, <1>3, <2>3
<1> QED
  BY <1>2, <1>3

\* ADD_ROUND in a ring.
LEMMA AddRoundIs ==
  ASSUME NEW N \in Nat \ {0}, NEW x \in 0..N-1
  PROVE  /\ AddRound(x, N) \in 0..N-1
         /\ AddRound(x, N) = IF x = N - 1 THEN 0 ELSE x + 1
<1>1. x = N * 0 + x /\ x \in Nat /\ 0 \in Int
  OBVIOUS
<1>2. x % N = x
  BY <1>1, DivisionIs
<1>3. (x + 1) % N = IF x = N - 1 THEN 0 ELSE x + 1
  BY <1>1, <1>2, Successor
<1> QED
  BY <1>3 DEF AddRound

\* The sends since the last signalled one, after one more.
LEMMA SinceNext ==
  ASSUME NEW S \in Nat
  PROVE  /\ Since(S) \in 0..kSignal-1
         /\ S % kSignal = 0 => Since(S) = kSignal - 1 /\ Since(S + 1) = 0
         /\ S % kSignal # 0 => Since(S + 1) = Since(S) + 1
<1>1. kSignal \in Nat \ {0}
  BY RingAssumption
<1>2. PICK r \in 0..kSignal-1 : r = S % kSignal
  BY <1>1
<1>3. (S + 1) % kSignal = IF r = kSignal - 1 THEN 0 ELSE r + 1
  BY <1>1, <1>2, Successor
<1> QED
  BY <1>1, <1>2, <1>3 DEF Since

\* Places before the next buffer of a ring.
LEMMA BackStep ==
  ASSUME NEW N \in Nat \ {0}, NEW b \in 0..N-1, NEW k \in 1..N-1
  PROVE  /\ Back(b, k, N) \in 0..N-1 /\ Back(b, k, N) # b
         /\ Back(AddRound(b, N), k + 1, N) = Back(b, k, N)
         /\ Back(AddRound(b, N), 1, N) = b
<1>1. PICK a : a = AddRound(b, N)
  OBVIOUS
<1>2. a = IF b = N - 1 THEN 0 ELSE b + 1
  BY <1>1, AddRoundIs
<1>3. Back(b, k, N) \in 0..N-1 /\ Back(b, k, N) # b
  BY DEF Back
<1>4. Back(a, k + 1, N) = Back(b, k, N)
  BY <1>2 DEF Back
<1>5. Back(a, 1, N) = b
  BY <1>2 DEF Back
<1> QED
  BY <1>1, <1>3, <1>4, <1>5

-----------------------------------------------------------------------------
(* Sending.                                                                *)

\* What sendRawMessage polls.
Polls(S, w, v) ==
  IF S % kSignal = 0 /\ S > 0 THEN w > 0 /\ v = w - 1 ELSE v = w

\* A send is posted from buffer b.
LEMMA SendPush ==
  ASSUME NEW N \in Nat \ {0}, 2 * kSignal <= N, NEW S \in Nat,
         NEW b \in 0..N-1, NEW q \in Seq(Send), NEW w \in Nat, NEW pool,
         SendOK(N, S, b, q, w, pool), NEW e \in Send, e.slot = b,
         e.signal <=> S % kSignal = 0, e.m = pool[b], NEW v, Polls(S, w, v)
  PROVE  SendOK(N, S + 1, AddRound(b, N), Append(q, e), v, pool)
<1>d. PICK L, M, n, a, z :
        /\ L = Since(S) /\ M = Since(S + 1) /\ n = Len(q)
        /\ a = AddRound(b, N) /\ z = Append(q, e)
  OBVIOUS
<1>k. kSignal \in Nat \ {0}
  BY RingAssumption
<1>1. /\ L \in 0..kSignal-1 /\ n \in Nat /\ M \in 0..kSignal-1
      /\ S % kSignal = 0 => L = kSignal - 1 /\ M = 0
      /\ S % kSignal # 0 => M = L + 1
  <2>1. S + 1 \in Nat /\ Len(q) \in Nat
    OBVIOUS
  <2> QED
    BY <1>d, <2>1, SinceNext
<1>2. /\ Len(z) = n + 1 /\ \A i \in 1..n : z[i] = q[i]
      /\ z[n + 1] = e
  BY <1>d
<1>3. /\ n <= L + kSignal /\ (S = 0 => n = 0)
      /\ w = (IF S > 0 /\ n <= L THEN 1 ELSE 0)
      /\ \A i \in 1..n : /\ q[i].slot = Back(b, n - i + 1, N)
                         /\ q[i].signal <=> n - i = L
                         /\ pool[q[i].slot] = q[i].m
  BY <1>d DEF SendOK
<1>4. /\ S % kSignal = 0 => n <= kSignal - 1 /\ v = 0
      /\ S % kSignal # 0 => v = w /\ S > 0
  <2>1. 0 % kSignal = 0
    <3>1. 0 = kSignal * 0 + 0 /\ 0 \in 0..kSignal-1 /\ 0 \in Nat /\ 0 \in Int
      BY <1>k
    <3> QED
      BY <1>k, <3>1, DivisionIs
  <2>2. S % kSignal # 0 => S > 0
    BY <2>1
  <2> QED
    BY <1>1, <1>3, <1>k, <2>2 DEF Polls
<1>5. n + 1 <= M + kSignal
  BY <1>1, <1>3, <1>4, <1>k
<1>6. v = IF S + 1 > 0 /\ n + 1 <= M THEN 1 ELSE 0
  BY <1>1, <1>3, <1>4, <1>k
<1>7. ASSUME NEW i \in 1..n+1
      PROVE  /\ z[i].slot = Back(a, n + 1 - i + 1, N)
             /\ z[i].signal <=> n + 1 - i = M
             /\ pool[z[i].slot] = z[i].m
  <2>1. CASE i = n + 1
    <3>1. Back(a, 1, N) = b
      <4>1. a = IF b = N - 1 THEN 0 ELSE b + 1
        BY <1>d, AddRoundIs
      <4> QED
        BY <4>1 DEF Back
    <3>2. n + 1 - i + 1 = 1 /\ n + 1 - i = 0
      BY <1>1, <2>1
    <3>3. S % kSignal = 0 <=> M = 0
      BY <1>1
    <3> QED
      BY <1>2, <2>1, <3>1, <3>2, <3>3
  <2>2. CASE i \in 1..n
    <3>0. n <= N - 1
      BY <1>1, <1>3, <1>k
    <3>1. z[i] = q[i] /\ n - i + 1 \in 1..N-1
      BY <1>1, <1>2, <2>2, <3>0
    <3>2. Back(a, (n - i + 1) + 1, N) = Back(b, n - i + 1, N)
      BY <1>d, <3>1, BackStep
    <3>3. n + 1 - i + 1 = (n - i + 1) + 1
      BY <1>1, <2>2
    <3>4. n - i = L <=> n + 1 - i = M
      BY <1>1, <1>4, <2>2
    <3> QED
      BY <1>3, <2>2, <3>1, <3>2, <3>3, <3>4
  <2> QED
    BY <1>1, <2>1, <2>2
<1>8. S + 1 # 0
  OBVIOUS
<1> QED
  BY <1>2, <1>5, <1>6, <1>7, <1>8, <1>d DEF SendOK

\* The NIC takes the oldest send.
LEMMA SendPop ==
  ASSUME NEW N \in Nat \ {0}, NEW S \in Nat, NEW b \in 0..N-1,
         NEW q \in Seq(Send), q # <<>>, NEW w \in Nat, NEW pool,
         SendOK(N, S, b, q, w, pool)
  PROVE  /\ SendOK(N, S, b, Tail(q), IF Head(q).signal THEN w + 1 ELSE w, pool)
         /\ pool[Head(q).slot] = Head(q).m
<1>d. PICK L, n, z : L = Since(S) /\ n = Len(q) /\ z = Tail(q)
  OBVIOUS
<1>k. kSignal \in Nat \ {0}
  BY RingAssumption
<1>1. L \in 0..kSignal-1 /\ n \in Nat /\ n >= 1
  <2>1. Len(q) \in Nat /\ Len(q) >= 1
    OBVIOUS
  <2> QED
    BY <1>d, <2>1, SinceNext
<1>2. /\ Len(z) = n - 1 /\ \A i \in 1..n-1 : z[i] = q[i + 1]
      /\ Head(q) = q[1]
  BY <1>d
<1>3. /\ n <= L + kSignal /\ (S = 0 => n = 0)
      /\ w = (IF S > 0 /\ n <= L THEN 1 ELSE 0)
      /\ \A i \in 1..n : /\ q[i].slot = Back(b, n - i + 1, N)
                         /\ q[i].signal <=> n - i = L
                         /\ pool[q[i].slot] = q[i].m
  BY <1>d DEF SendOK
<1>4. Head(q).signal <=> n - 1 = L
  BY <1>1, <1>2, <1>3
<1>5. (IF Head(q).signal THEN w + 1 ELSE w)
        = IF S > 0 /\ n - 1 <= L THEN 1 ELSE 0
  BY <1>1, <1>3, <1>4
<1>6. ASSUME NEW i \in 1..n-1
      PROVE  /\ z[i].slot = Back(b, n - 1 - i + 1, N)
             /\ z[i].signal <=> n - 1 - i = L
             /\ pool[z[i].slot] = z[i].m
  <2>1. z[i] = q[i + 1] /\ i + 1 \in 1..n /\ n - (i + 1) = n - 1 - i
    BY <1>1, <1>2
  <2> QED
    BY <1>3, <2>1
<1>7. pool[Head(q).slot] = Head(q).m
  BY <1>1, <1>2, <1>3
<1>8. n - 1 <= L + kSignal /\ (S = 0 => n - 1 = 0)
  BY <1>1, <1>3, <1>k
<1>9. PICK v : v = IF Head(q).signal THEN w + 1 ELSE w
  OBVIOUS
<1>10. SendOK(N, S, b, z, v, pool)
  BY <1>2, <1>5, <1>6, <1>8, <1>9, <1>d DEF SendOK
<1> QED
  BY <1>7, <1>9, <1>10, <1>d

\* A message is copied to buffer b: no send of the queue uses it.
LEMMA SendFill ==
  ASSUME NEW N \in Nat \ {0}, 2 * kSignal <= N, NEW S \in Nat,
         NEW b \in 0..N-1, NEW q \in Seq(Send), NEW w \in Nat,
         NEW V, NEW pool \in [0..N-1 -> V], NEW v \in V,
         SendOK(N, S, b, q, w, pool)
  PROVE  SendOK(N, S, b, q, w, [pool EXCEPT ![b] = v])
<1>k. kSignal \in Nat \ {0}
  BY RingAssumption
<1>1. Since(S) \in 0..kSignal-1 /\ Len(q) \in Nat
  BY SinceNext
<1>2. Len(q) <= Since(S) + kSignal
  BY DEF SendOK
<1>3. ASSUME NEW i \in 1..Len(q)
      PROVE  q[i].slot \in 0..N-1 /\ q[i].slot # b
  <2>1. Len(q) - i + 1 \in 1..N-1
    BY <1>1, <1>2, <1>k
  <2>2. q[i].slot = Back(b, Len(q) - i + 1, N)
    BY DEF SendOK
  <2> QED
    BY <2>1, <2>2, BackStep
<1> QED
  BY <1>3 DEF SendOK

-----------------------------------------------------------------------------
(* Receiving.                                                              *)

\* A ring is kBatchCount batches of at least one buffer.
LEMMA Sizes ==
  ASSUME NEW c \in Conn
  PROVE  /\ messageNR[c] \in Nat \ {0} /\ subNR(c) \in Nat \ {0}
         /\ kBatchCount \in Nat \ {0} /\ messageNR[c] = subNR(c) * kBatchCount
         /\ subNR(c) <= messageNR[c] /\ 2 * kSignal <= messageNR[c]
         /\ kSignal \in Nat \ {0}
<1>1. /\ messageNR[c] \in Nat \ {0} /\ kBatchCount \in Nat \ {0}
      /\ messageNR[c] = kBatchCount * subNR(c) /\ kSignal \in Nat \ {0}
      /\ messageNR[c] >= 2 * kSignal
  BY RingAssumption
<1>2. subNR(c) \in Nat
  BY <1>1 DEF subNR
<1>3. subNR(c) # 0
  BY <1>1, <1>2
<1>4. kBatchCount * subNR(c) >= subNR(c)
  BY <1>1, <1>2
<1> QED
  BY <1>1, <1>2, <1>3, <1>4

\* curMessage and the place in its batch.
LEMMA RingMod ==
  ASSUME NEW s \in Nat \ {0}, NEW B \in Nat \ {0}, NEW N \in Nat \ {0},
         N = s * B, NEW x \in 0..N-1
  PROVE  /\ x % s \in 0..s-1
         /\ AddRound(x, N) % s = IF x % s = s - 1 THEN 0 ELSE (x % s) + 1
<1>1. x \in Nat /\ x % s \in 0..s-1
  OBVIOUS
<1>2. AddRound(x, N) = IF x = N - 1 THEN 0 ELSE x + 1
  BY AddRoundIs
<1>3. (x + 1) % s = IF x % s = s - 1 THEN 0 ELSE (x % s) + 1
  BY <1>1, Successor
<1>4. CASE x = N - 1
  <2>1. N - 1 = s * (B - 1) + (s - 1)
    OBVIOUS
  <2>2. N - 1 \in Nat /\ B - 1 \in Int /\ s - 1 \in 0..s-1
    OBVIOUS
  <2>3. x % s = s - 1
    BY <1>4, <2>1, <2>2, DivisionIs
  <2>4. 0 = s * 0 + 0 /\ 0 \in 0..s-1 /\ 0 \in Nat /\ 0 \in Int
    OBVIOUS
  <2>5. 0 % s = 0
    BY <2>4, DivisionIs
  <2> QED
    BY <1>1, <1>2, <1>4, <2>3, <2>5
<1> QED
  BY <1>1, <1>2, <1>3, <1>4

\* The batch posted again is the one before the buffer that is polled next.
LEMMA DoneBatchIs ==
  ASSUME NEW c \in Conn, NEW x \in 0..messageNR[c]-1, x % subNR(c) = 0
  PROVE  /\ x = 0 \/ x >= subNR(c)
         /\ DoneBatch(c, x) * subNR(c)
              = IF x = 0 THEN messageNR[c] - subNR(c) ELSE x - subNR(c)
<1>d. PICK s, B, N : s = subNR(c) /\ B = kBatchCount /\ N = messageNR[c]
  OBVIOUS
<1>s. /\ s \in Nat \ {0} /\ B \in Nat \ {0} /\ N \in Nat \ {0} /\ N = s * B
      /\ x \in 0..N-1
  BY <1>d, Sizes
<1>1. PICK k \in Nat : k = x \div s
  BY <1>s
<1>2. x = s * k
  <2>1. x % s = 0
    BY <1>d
  <2>2. x - (x % s) = s * (x \div s)
    BY <1>s
  <2> QED
    BY <1>1, <1>s, <2>1, <2>2
<1>3. DoneBatch(c, x) = (k - 1 + B) % B
  BY <1>1, <1>d DEF DoneBatch
<1>4. CASE k = 0
  <2>1. B - 1 = B * 0 + (B - 1) /\ B - 1 \in 0..B-1 /\ B - 1 \in Nat
    BY <1>s
  <2>2. (k - 1 + B) % B = B - 1
    BY <1>4, <1>s, <2>1, DivisionIs
  <2>3. (B - 1) * s = N - s /\ x = 0
    BY <1>2, <1>4, <1>s
  <2> QED
    BY <1>3, <1>d, <2>2, <2>3
<1>5. CASE k # 0
  <2>1. k < B
    <3>1. SUFFICES ASSUME k >= B PROVE FALSE
      BY <1>s
    <3>2. s * k >= s * B
      BY <1>s, <3>1
    <3> QED
      BY <1>2, <1>s, <3>2
  <2>2. /\ k - 1 + B = B * 1 + (k - 1) /\ k - 1 \in 0..B-1
        /\ k - 1 + B \in Nat /\ 1 \in Int
    BY <1>5, <1>s, <2>1
  <2>3. (k - 1 + B) % B = k - 1
    BY <1>s, <2>2, DivisionIs
  <2>4. (k - 1) * s = x - s
    BY <1>2, <1>s
  <2>5. s * k >= s
    BY <1>5, <1>s
  <2> QED
    BY <1>2, <1>3, <1>d, <1>s, <2>3, <2>4, <2>5
<1> QED
  BY <1>4, <1>5

\* Places after the next buffer of a ring; different places are different
\* buffers.
LEMMA FwdStep ==
  ASSUME NEW N \in Nat \ {0}, NEW x \in 0..N-1, NEW j \in -1..N-1
  PROVE  /\ Fwd(x, j, N) \in 0..N-1
         /\ j >= 0 => Fwd(AddRound(x, N), j - 1, N) = Fwd(x, j, N)
         /\ Fwd(x, 0, N) = x
         /\ \A l \in -1..N-1 : l # j /\ j - l < N /\ l - j < N =>
              Fwd(x, l, N) # Fwd(x, j, N)
<1>1. PICK a : a = AddRound(x, N)
  OBVIOUS
<1>2. a = IF x = N - 1 THEN 0 ELSE x + 1
  BY <1>1, AddRoundIs
<1>3. Fwd(x, j, N) \in 0..N-1 /\ Fwd(x, 0, N) = x
  BY DEF Fwd
<1>4. j >= 0 => Fwd(a, j - 1, N) = Fwd(x, j, N)
  BY <1>2 DEF Fwd
<1>5. \A l \in -1..N-1 : l # j /\ j - l < N /\ l - j < N =>
        Fwd(x, l, N) # Fwd(x, j, N)
  BY DEF Fwd
<1> QED
  BY <1>1, <1>3, <1>4, <1>5

\* A datagram arrives in the first buffer posted.
LEMMA RecvArrive ==
  ASSUME NEW N \in Nat \ {0}, NEW s \in Nat \ {0}, NEW cur \in 0..N-1,
         NEW r \in Seq(Nat), r # <<>>, NEW k \in Nat, NEW h \in 0..1,
         NEW d \in Seq(Msg), NEW V, NEW pool \in [0..N-1 -> V], NEW m \in Msg,
         m \in V, RecvOK(N, s, cur, r, k, h, d, pool), k + h < N
  PROVE  /\ RecvOK(N, s, cur, Tail(r), k + 1, h, Append(d, m),
                   [pool EXCEPT ![Head(r)] = m])
         /\ Head(r) \in 0..N-1
<1>d. PICK n, z, a, y, l, e :
        /\ n = Len(r) /\ z = Tail(r) /\ a = Append(d, m) /\ y = Head(r)
        /\ l = Len(d) /\ e = cur % s
  OBVIOUS
<1>1. /\ n \in Nat /\ n >= 1 /\ Len(z) = n - 1 /\ y = r[1]
      /\ \A i \in 1..n-1 : z[i] = r[i + 1]
  <2>1. Len(r) \in Nat /\ Len(r) >= 1
    OBVIOUS
  <2> QED
    BY <1>d, <2>1
<1>2. /\ l \in Nat /\ Len(a) = l + 1 /\ a[l + 1] = m
      /\ \A i \in 1..l : a[i] = d[i]
  BY <1>d, SMTT(30)
<1>3. /\ n + k = N - e /\ e \in Nat
      /\ \A i \in 1..n : r[i] = Fwd(cur, k + i - 1, N)
      /\ l = k + h
      /\ \A i \in 1..l : pool[Fwd(cur, i - 1 - h, N)] = d[i]
  BY <1>d DEF RecvOK
<1>4. y = Fwd(cur, k, N)
  <2>1. r[1] = Fwd(cur, k + 1 - 1, N)
    BY <1>1, <1>3
  <2>2. k + 1 - 1 = k
    OBVIOUS
  <2> QED
    BY <1>1, <2>1, <2>2
<1>5. k \in -1..N-1
  OBVIOUS
<1>6. y \in 0..N-1
  BY <1>4, <1>5, FwdStep
<1>7. ASSUME NEW i \in 1..n-1
      PROVE  z[i] = Fwd(cur, (k + 1) + i - 1, N)
  <2>1. i + 1 \in 1..n /\ k + (i + 1) - 1 = (k + 1) + i - 1
    BY <1>1
  <2> QED
    BY <1>1, <1>3, <2>1
<1>8. ASSUME NEW i \in 1..l+1
      PROVE  [pool EXCEPT ![y] = m][Fwd(cur, i - 1 - h, N)] = a[i]
  <2>0. i - 1 - h \in -1..N-1
    BY <1>2, <1>3, SMTT(30)
  <2>1. Fwd(cur, i - 1 - h, N) \in 0..N-1
    BY <2>0, FwdStep
  <2>2. CASE i = l + 1
    <3>1. i - 1 - h = k
      BY <1>2, <1>3, <2>2
    <3> QED
      BY <1>2, <1>4, <1>6, <2>2, <3>1
  <2>3. CASE i \in 1..l
    <3>0. l = k + h /\ l \in Nat
      BY <1>2, <1>3
    <3>1. i - 1 - h # k /\ k - (i - 1 - h) < N /\ (i - 1 - h) - k < N
      BY <2>3, <3>0
    <3>2. Fwd(cur, i - 1 - h, N) # y
      BY <1>4, <1>5, <2>0, <3>1, FwdStep
    <3> QED
      BY <1>2, <1>3, <1>6, <2>1, <2>3, <3>2
  <2> QED
    BY <1>2, <2>2, <2>3
<1>9. (n - 1) + (k + 1) = N - e /\ l + 1 = (k + 1) + h
  BY <1>1, <1>2, <1>3
<1> QED
  BY <1>1, <1>2, <1>6, <1>7, <1>8, <1>9, <1>d DEF RecvOK

\* getMessage.
LEMMA RecvTake ==
  ASSUME NEW c \in Conn, NEW cur \in 0..messageNR[c]-1, NEW r \in Seq(Nat),
         NEW k \in Nat \ {0}, NEW d, NEW pool,
         RecvOK(messageNR[c], subNR(c), cur, r, k, 0, d, pool),
         NEW x, x = AddRound(cur, messageNR[c]), NEW z,
         z = IF BatchDone(c, x) THEN r \o Batch(c, DoneBatch(c, x)) ELSE r
  PROVE  /\ RecvOK(messageNR[c], subNR(c), x, z, k - 1, 1, d, pool)
         /\ cur = Fwd(x, -1, messageNR[c])
         /\ z \in Seq(Nat) /\ x \in 0..messageNR[c]-1
<1>d. PICK s, B, N : s = subNR(c) /\ B = kBatchCount /\ N = messageNR[c]
  OBVIOUS
<1>b. B \in Nat \ {0} /\ N = s * B
  BY <1>d, Sizes
<1>s. /\ s \in Nat \ {0} /\ N \in Nat \ {0} /\ cur \in 0..N-1 /\ s <= N
  BY <1>d, Sizes
<1>n. PICK n, l, e, f : n = Len(r) /\ l = Len(d) /\ e = cur % s /\ f = x % s
  OBVIOUS
<1>1. /\ x = (IF cur = N - 1 THEN 0 ELSE cur + 1) /\ x \in 0..N-1
      /\ x = AddRound(cur, N)
  BY <1>d, <1>s, AddRoundIs
<1>2. e \in 0..s-1 /\ f = IF e = s - 1 THEN 0 ELSE e + 1
  <2>1. /\ cur % s \in 0..s-1
        /\ AddRound(cur, N) % s = IF cur % s = s - 1 THEN 0 ELSE (cur % s) + 1
    BY <1>b, <1>s, RingMod
  <2> QED
    BY <1>1, <1>n, <2>1
<1>3. /\ n + k = N - e /\ n \in Nat
      /\ \A i \in 1..n : r[i] = Fwd(cur, k + i - 1, N)
      /\ l = k + 0
      /\ \A i \in 1..l : pool[Fwd(cur, i - 1 - 0, N)] = d[i]
  BY <1>d, <1>n DEF RecvOK
<1>4. ASSUME NEW i \in 1..n
      PROVE  r[i] = Fwd(x, k - 1 + i - 1, N)
  <2>1. k + i - 1 \in 0..N-1 /\ (k + i - 1) - 1 = k - 1 + i - 1
    BY <1>2, <1>3, <1>s, SMTT(30)
  <2>2. Fwd(x, (k + i - 1) - 1, N) = Fwd(cur, k + i - 1, N)
    <3>1. PICK j \in -1..N-1 : j = k + i - 1 /\ j >= 0
      BY <1>s, <2>1
    <3>2. Fwd(AddRound(cur, N), j - 1, N) = Fwd(cur, j, N)
      BY <1>s, <3>1, FwdStep
    <3> QED
      BY <1>1, <3>1, <3>2
  <2> QED
    BY <1>3, <2>1, <2>2
<1>5. ASSUME NEW i \in 1..l
      PROVE  pool[Fwd(x, i - 1 - 1, N)] = d[i]
  <2>1. i - 1 \in 0..N-1 /\ i - 1 - 0 = i - 1
    BY <1>2, <1>3, <1>s
  <2>2. Fwd(x, (i - 1) - 1, N) = Fwd(cur, i - 1, N)
    <3>1. PICK j \in -1..N-1 : j = i - 1 /\ j >= 0
      BY <1>s, <2>1
    <3>2. Fwd(AddRound(cur, N), j - 1, N) = Fwd(cur, j, N)
      BY <1>s, <3>1, FwdStep
    <3> QED
      BY <1>1, <3>1, <3>2
  <2> QED
    BY <1>3, <2>1, <2>2
<1>l. l = (k - 1) + 1 /\ n \in Nat
  BY <1>3
<1>6. cur = Fwd(x, -1, N)
  BY <1>1, <1>s DEF Fwd
<1>7. CASE ~BatchDone(c, x)
  <2>1. z = r /\ f # 0
    BY <1>7, <1>d, <1>n DEF BatchDone
  <2>2. n + (k - 1) = N - f
    BY <1>2, <1>3, <1>s, <2>1
  <2> QED
    <3>1. RecvOK(N, s, x, r, k - 1, 1, d, pool)
      BY <1>4, <1>5, <1>l, <1>n, <2>2 DEF RecvOK
    <3> QED
      BY <1>1, <1>6, <1>d, <2>1, <3>1
<1>8. CASE BatchDone(c, x)
  <2>1. z = r \o Batch(c, DoneBatch(c, x)) /\ f = 0
    BY <1>8, <1>d, <1>n DEF BatchDone
  <2>2. PICK b, y : b = Batch(c, DoneBatch(c, x)) /\ y = DoneBatch(c, x) * s
    OBVIOUS
  <2>3. (x = 0 \/ x >= s) /\ y = IF x = 0 THEN N - s ELSE x - s
    BY <1>1, <1>d, <1>n, <2>1, <2>2, DoneBatchIs
  <2>4. b = [i \in 1..s |-> y + i - 1]
    BY <1>d, <2>2 DEF Batch
  <2>5. b \in Seq(Nat) /\ Len(b) = s
    <3>1. y \in Nat
      BY <1>1, <1>s, <2>3
    <3>2. \A i \in 1..s : y + i - 1 \in Nat
      BY <3>1
    <3>3. b \in [1..s -> Nat]
      BY <2>4, <3>2
    <3> QED
      BY <1>s, <3>3
  <2>6. /\ z \in Seq(Nat) /\ Len(z) = n + s
        /\ \A i \in 1..n : z[i] = r[i]
        /\ \A i \in n+1..n+s : z[i] = b[i - n]
    BY <1>n, <2>1, <2>2, <2>5, SMTT(30)
  <2>7. n + s + (k - 1) = N - f /\ (k - 1) + n = N - s
    BY <1>2, <1>3, <1>s, <2>1
  <2>8. ASSUME NEW i \in 1..n+s
        PROVE  z[i] = Fwd(x, k - 1 + i - 1, N)
    <3>1. CASE i \in 1..n
      BY <1>4, <2>6, <3>1
    <3>2. CASE i \in n+1..n+s
      <4>1. PICK j \in 1..s : j = i - n
        BY <1>3, <1>s, <3>2
      <4>2. z[i] = y + j - 1
        BY <2>4, <2>6, <3>2, <4>1
      <4>3. k - 1 + i - 1 = N - s + j - 1
        BY <1>3, <1>s, <2>7, <4>1
      <4>4. Fwd(x, N - s + j - 1, N) = y + j - 1
        <5>1. CASE x = 0
          BY <1>s, <2>3, <4>1, <5>1 DEF Fwd
        <5>2. CASE x # 0
          BY <1>1, <1>s, <2>3, <4>1, <5>2, SMTT(30) DEF Fwd
        <5> QED
          BY <5>1, <5>2
      <4> QED
        BY <4>2, <4>3, <4>4
    <3>3. i \in 1..n \/ i \in n+1..n+s
      BY <1>l, <1>s
    <3> QED
      BY <3>1, <3>2, <3>3
  <2> QED
    <3>1. RecvOK(N, s, x, z, k - 1, 1, d, pool)
      BY <1>5, <1>l, <1>n, <2>6, <2>7, <2>8 DEF RecvOK
    <3> QED
      BY <1>1, <1>6, <1>d, <2>6, <3>1
<1> QED
  BY <1>7, <1>8

\* The message was handled.
LEMMA RecvDone ==
  ASSUME NEW N \in Nat \ {0}, NEW s \in Nat \ {0}, NEW cur \in 0..N-1,
         NEW r, NEW k \in Nat, NEW d \in Seq(Msg), NEW pool,
         RecvOK(N, s, cur, r, k, 1, d, pool)
  PROVE  /\ RecvOK(N, s, cur, r, k, 0, Tail(d), pool) /\ d # <<>>
         /\ pool[Fwd(cur, -1, N)] = d[1] /\ Head(d) = d[1]
<1>1. /\ Len(d) = k + 1 /\ Len(d) \in Nat
      /\ \A i \in 1..Len(d) : pool[Fwd(cur, i - 1 - 1, N)] = d[i]
  BY DEF RecvOK
<1>2. d # <<>>
  BY <1>1
<1>3. PICK z : z = Tail(d)
  OBVIOUS
<1>4. /\ Len(z) = k /\ \A i \in 1..k : z[i] = d[i + 1]
      /\ Head(d) = d[1]
  BY <1>1, <1>2, <1>3
<1>5. ASSUME NEW i \in 1..k
      PROVE  pool[Fwd(cur, i - 1 - 0, N)] = z[i]
  <2>1. i + 1 \in 1..Len(d) /\ (i + 1) - 1 - 1 = i - 1 - 0
    BY <1>1
  <2> QED
    BY <1>1, <1>4, <2>1
<1>6. pool[Fwd(cur, -1, N)] = d[1]
  <2>1. 1 \in 1..Len(d) /\ 1 - 1 - 1 = -1
    BY <1>1
  <2> QED
    BY <1>1, <2>1
<1> QED
  BY <1>2, <1>3, <1>4, <1>5, <1>6 DEF RecvOK

-----------------------------------------------------------------------------
(* Queues.                                                                 *)

\* z is q with x appended, or without its first entry, as far as E goes.
Grew(q, z, x, E) ==
  /\ Unique(Places(z, E))
  /\ Places(z, E) # {} <=> Places(q, E) # {} \/ x \in E

Shrank(q, z, E) ==
  /\ Unique(Places(z, E))
  /\ Head(q) \in E => Places(q, E) # {} /\ Places(z, E) = {}
  /\ Head(q) \notin E => (Places(z, E) # {} <=> Places(q, E) # {})

\* What was not in a queue is in it once after an append.
LEMMA OnceAppend ==
  ASSUME NEW S, NEW q \in Seq(S), NEW x \in S, NEW E, Unique(Places(q, E)),
         x \in E => Places(q, E) = {}
  PROVE  Grew(q, Append(q, x), x, E)
<1>1. /\ DOMAIN q = 1..Len(q) /\ Len(q) \in Nat
      /\ DOMAIN Append(q, x) = 1..Len(q) + 1
      /\ \A i \in 1..Len(q) : Append(q, x)[i] = q[i]
      /\ Append(q, x)[Len(q) + 1] = x
  OBVIOUS
<1>2. 1..Len(q) + 1 = (1..Len(q)) \cup {Len(q) + 1}
  BY <1>1
<1>3. Places(Append(q, x), E) =
        Places(q, E) \cup (IF x \in E THEN {Len(q) + 1} ELSE {})
  BY <1>1, <1>2 DEF Places
<1> QED
  BY <1>3 DEF Grew, Unique

\* What is taken from a queue that has it once is no longer there.
LEMMA OnceTail ==
  ASSUME NEW S, NEW q \in Seq(S), q # <<>>, NEW E, Unique(Places(q, E))
  PROVE  Shrank(q, Tail(q), E)
<1>1. /\ DOMAIN q = 1..Len(q) /\ Len(q) \in Nat /\ Len(q) >= 1
      /\ Tail(q) \in Seq(S) /\ Len(Tail(q)) = Len(q) - 1
      /\ \A i \in 1..Len(q) - 1 : Tail(q)[i] = q[i + 1]
      /\ Head(q) = q[1]
  OBVIOUS
<1>2. DOMAIN Tail(q) = 1..Len(q) - 1
  BY <1>1
<1>3. ASSUME NEW i \in 1..Len(q) - 1
      PROVE  i + 1 \in 1..Len(q) /\ i + 1 # 1 /\ Tail(q)[i] = q[i + 1]
  BY <1>1
<1>4. ASSUME NEW i \in Places(Tail(q), E)
      PROVE  i + 1 \in Places(q, E) /\ i \in Int /\ i + 1 # 1
  BY <1>1, <1>2, <1>3 DEF Places
<1>5. Unique(Places(Tail(q), E))
  <2>1. ASSUME NEW i \in Places(Tail(q), E), NEW j \in Places(Tail(q), E)
        PROVE  i = j
    <3>1. i + 1 = j + 1 /\ i \in Int /\ j \in Int
      BY <1>4 DEF Unique
    <3> QED
      BY <3>1
  <2> QED
    BY <2>1 DEF Unique
<1>6. ASSUME Head(q) \in E
      PROVE  Places(q, E) # {} /\ Places(Tail(q), E) = {}
  <2>1. 1 \in Places(q, E)
    BY <1>1, <1>6 DEF Places
  <2> QED
    BY <1>4, <2>1 DEF Unique
<1>7. ASSUME Head(q) \notin E, NEW i \in Places(q, E)
      PROVE  Places(Tail(q), E) # {}
  <2>1. i \in 1..Len(q) /\ i # 1 /\ q[i] \in E
    BY <1>1, <1>7 DEF Places
  <2>2. i - 1 \in 1..Len(q) - 1 /\ (i - 1) + 1 = i
    BY <1>1, <2>1
  <2>3. Tail(q)[i - 1] \in E
    BY <1>1, <2>1, <2>2
  <2> QED
    BY <1>2, <2>2, <2>3 DEF Places
<1>8. Places(Tail(q), E) # {} => Places(q, E) # {}
  BY <1>4
<1> QED
  BY <1>5, <1>6, <1>7, <1>8 DEF Shrank

-----------------------------------------------------------------------------
(* There is room for what is under way.                                    *)

\* Threads and directories are different connections.
LEMMA Conns == /\ \A t \in App : t \in Conn /\ t \notin Dir
               /\ \A d \in Dir : d \in Conn /\ d \notin App
BY RingAssumption DEF Conn

\* The requests for memory under way to a directory are at most as many as the
\* threads that ask it.
LEMMA MallocsBound ==
  ASSUME NEW d
  PROVE  LET M == {MyReq(t) : t \in Asking(d)} IN
         /\ IsFiniteSet(M) /\ Cardinality(M) <= Cardinality(Asking(d))
         /\ Cardinality(Asking(d)) \in Nat
<1>1. PICK A, M : A = Asking(d) /\ M = {MyReq(t) : t \in A}
  OBVIOUS
<1>2. PICK f : f = [t \in A |-> MyReq(t)]
  OBVIOUS
<1>3. f \in Surjection(A, M)
  BY <1>1, <1>2 DEF Surjection
<1>4. IsFiniteSet(A)
  <2>1. IsFiniteSet(App) /\ A \subseteq App
    BY <1>1, RingAssumption DEF Asking
  <2> QED
    BY <2>1, FS_Subset
<1> QED
  BY <1>1, <1>3, <1>4, FS_Surjection, FS_CardinalityType

\* A request that is sent to a directory and those it has got are requests for
\* memory of different threads, and new roots.
LEMMA DirRoom ==
  ASSUME RingInv, NEW d \in Dir, NEW m \in Req, Sent(m, d)
  PROVE  Len(due[d]) + 1 <= Crowd(d)
<1>t. /\ FlowInv /\ RootInv /\ LoadInv /\ due[d] \in Seq(Msg)
      /\ roots \in 0..MaxRoots /\ MaxRoots \in Nat
  BY Conns, RingAssumption DEF RingInv, TypeOK
<1>1. PICK A, M, R, q : /\ A = Asking(d) /\ M = {MyReq(t) : t \in A}
                        /\ R = Roots(d) /\ q = due[d]
  OBVIOUS
<1>2. /\ IsFiniteSet(M) /\ Cardinality(M) <= Cardinality(A)
      /\ IsFiniteSet(R) /\ Cardinality(R) <= roots
      /\ Cardinality(A) \in Nat
  <2>1. /\ IsFiniteSet(M) /\ Cardinality(M) <= Cardinality(A)
        /\ Cardinality(A) \in Nat
    BY <1>1, MallocsBound
  <2>2. IsFiniteSet(R) /\ Cardinality(R) <= roots
    BY <1>1, <1>t DEF RootInv
  <2> QED
    BY <2>1, <2>2
<1>3. ASSUME NEW x \in Req, Sent(x, d) \/ Got(x, d)
      PROVE  x \in M \cup R
  <2>1. FlowOK(x, d) /\ x \in Msg
    BY <1>t DEF FlowInv, Req
  <2>2. CASE x.type = "MALLOC"
    <3>1. x.n = calls[x.app] /\ At(x.app, "wait") /\ th[x.app].to = d
      BY <1>3, <2>1, <2>2 DEF FlowOK
    <3>2. x = MyReq(x.app) /\ x.app \in Asking(d)
      BY <2>1, <2>2, <3>1 DEF MyReq, Msg, Asking
    <3> QED
      BY <1>1, <3>2
  <2>3. CASE x.type = "NEW_ROOT"
    BY <1>1, <1>3, <2>1, <2>3 DEF Roots
  <2> QED
    BY <2>1, <2>2, <2>3 DEF Msg, Types, Req
<1>4. PICK n \in Nat : n = Len(q)
  BY <1>1, <1>t
<1>5. ASSUME NEW i \in 1..n
      PROVE  q[i] \in Req /\ Got(q[i], d) /\ q[i] # m
  <2>1. q[i] \in Msg /\ i \in DOMAIN q
    BY <1>1, <1>4, <1>t
  <2>2. q[i] \in Req
    BY <1>1, <1>t, <2>1 DEF LoadInv, LoadApp, LoadDir, Req
  <2>3. Got(q[i], d)
    BY <1>1, <2>1 DEF Got, Places
  <2> QED
    BY <1>t, <2>2, <2>3 DEF FlowInv, FlowOK
<1>6. ASSUME NEW i \in 1..n, NEW j \in 1..n, q[i] = q[j]
      PROVE  i = j
  <2>1. /\ i \in Places(due[d], {q[i]}) /\ j \in Places(due[d], {q[i]})
    BY <1>1, <1>4, <1>6, <1>t DEF Places
  <2>2. FlowOK(q[i], d)
    BY <1>5, <1>t DEF FlowInv
  <2>3. Unique(Places(due[d], {q[i]}))
    BY <2>2 DEF FlowOK
  <2> QED
    BY <2>1, <2>3 DEF Unique
<1>7. PICK f : f = [i \in 1..n+1 |-> IF i \in 1..n THEN q[i] ELSE m]
  OBVIOUS
<1>8. f \in [1..n+1 -> M \cup R]
  BY <1>3, <1>5, <1>7
<1>9. \A i \in 1..n+1 : i \in 1..n \/ i = n + 1
  OBVIOUS
<1>10. \A i, j \in 1..n+1 : f[i] = f[j] => i = j
  BY <1>5, <1>6, <1>7, <1>9
<1>11. f \in Injection(1..n+1, M \cup R)
  BY <1>8, <1>10 DEF Injection, IsInjective
<1>12. /\ IsFiniteSet(M \cup R)
       /\ Cardinality(M \cup R) <= Cardinality(M) + Cardinality(R)
  <2>1. /\ IsFiniteSet(M \cup R)
        /\ Cardinality(M \cup R)
             = Cardinality(M) + Cardinality(R) - Cardinality(M \cap R)
    BY <1>2, FS_Union
  <2>2. IsFiniteSet(M \cap R)
    BY <1>2, FS_Intersection
  <2>3. /\ Cardinality(M) \in Nat /\ Cardinality(R) \in Nat
        /\ Cardinality(M \cap R) \in Nat
    BY <1>2, <2>2, FS_CardinalityType
  <2> QED
    BY <2>1, <2>3
<1>13. Cardinality(1..n+1) <= Cardinality(M \cup R)
  BY <1>11, <1>12, FS_Injection
<1>14. Cardinality(1..n+1) = n + 1
  BY FS_Interval
<1>15. /\ Cardinality(M) \in Nat /\ Cardinality(R) \in Nat
       /\ Cardinality(M \cup R) \in Nat
  BY <1>2, <1>12, FS_CardinalityType
<1>16. n + 1 <= Cardinality(A) + roots /\ Crowd(d) = Cardinality(A) + roots
  BY <1>1, <1>2, <1>12, <1>13, <1>14, <1>15, <1>t DEF Crowd
<1> QED
  BY <1>1, <1>4, <1>16

\* A send of a thread goes to a directory, one of a directory to a thread that
\* received nothing.
LEMMA HeadIs ==
  ASSUME RingInv, NEW c \in Conn, sq[c] # <<>>
  PROVE  /\ Head(sq[c]) \in Send /\ Tail(sq[c]) \in Seq(Send)
         /\ 1 \in DOMAIN sq[c] /\ Head(sq[c]) = sq[c][1]
         /\ c \in App => /\ Head(sq[c]).to \in Dir
                         /\ Head(sq[c]).m \in Req /\ Head(sq[c]).m.app = c
                         /\ Sent(Head(sq[c]).m, Head(sq[c]).to)
         /\ c \in Dir => /\ Head(sq[c]).to \in App
                         /\ Head(sq[c]).m = MyReply(Head(sq[c]).to)
                         /\ Answered(c, Head(sq[c]).to)
<1>1. sq[c] \in Seq(Send) /\ LoadInv
  BY DEF RingInv, TypeOK
<1>2. PICK w : w = Head(sq[c])
  OBVIOUS
<1>3. /\ w \in Send /\ 1 \in DOMAIN sq[c] /\ w = sq[c][1]
      /\ Tail(sq[c]) \in Seq(Send)
  BY <1>1, <1>2
<1>4. w.m \in Msg
  BY <1>3 DEF Send
<1>5. ASSUME c \in App
      PROVE  w.to \in Dir /\ w.m \in Req /\ w.m.app = c /\ Sent(w.m, w.to)
  <2>1. w.m.app = c /\ w.to \in Dir /\ w.m.type # "REPLY"
    <3>1. LoadApp(c)
      BY <1>1, <1>5 DEF LoadInv
    <3> QED
      BY <1>3, <3>1 DEF LoadApp
  <2>2. 1 \in Places(sq[w.m.app], Sends(w.m, w.to))
    BY <1>3, <2>1 DEF Places, Sends
  <2> QED
    BY <1>4, <2>1, <2>2 DEF Sent, Req
<1>6. ASSUME c \in Dir
      PROVE  w.to \in App /\ w.m = MyReply(w.to) /\ Answered(c, w.to)
  <2>1. w.to \in App /\ w.m = MyReply(w.to)
    <3>1. LoadDir(c)
      BY <1>1, <1>6 DEF LoadInv
    <3> QED
      BY <1>3, <3>1 DEF LoadDir
  <2>2. 1 \in Places(sq[c], To(w.to))
    BY <1>3 DEF Places, To
  <2> QED
    BY <2>1, <2>2 DEF Answered
<1> QED
  BY <1>2, <1>3, <1>5, <1>6

\* What the receive ring of a destination holds, in numbers: messages that
\* wait, and the one being handled, are within what is under way.
LEMMA Loads ==
  ASSUME RingInv, NEW c \in Conn, sq[c] # <<>>, NEW d, d = Head(sq[c]).to
  PROVE  \E N, s \in Nat \ {0} : \E k, n \in Nat, e \in 0..s-1 :
           /\ N = messageNR[d] /\ s = subNR(d) /\ s <= N
           /\ k = cq[d] /\ n = Len(rq[d]) /\ n + k = N - e
           /\ Handles(d) \in 0..1
           /\ \/ d \in App /\ k = 0 /\ Handles(d) = 0
              \/ d \in Dir /\ k + Handles(d) + 1 <= Crowd(d)
           /\ d \in Conn
<1>d. d \in Conn
  BY HeadIs, Conns DEF Conn
<1>n. PICK N, s, k, h, n, e, l :
        /\ N = messageNR[d] /\ s = subNR(d) /\ k = cq[d] /\ h = Handles(d)
        /\ n = Len(rq[d]) /\ e = curMessage[d] % s /\ l = Len(due[d])
  OBVIOUS
<1>1. /\ N \in Nat \ {0} /\ s \in Nat \ {0} /\ s <= N
      /\ curMessage[d] \in 0..N-1
  BY <1>d, <1>n, Sizes DEF RingInv, TypeOK, Slots
<1>2. e \in 0..s-1
  BY <1>1, <1>n
<1>3. k \in Nat /\ h \in 0..1 /\ n \in Nat /\ l \in Nat
  <2>1. cq[d] \in Nat /\ rq[d] \in Seq(Nat) /\ due[d] \in Seq(Msg)
    BY <1>d DEF RingInv, TypeOK
  <2> QED
    BY <1>n, <2>1, SMTT(30) DEF Handles
<1>4. n + k = N - e /\ l = k + h
  BY <1>d, <1>n DEF RingInv, RecvInv, RecvC, RecvOK
<1>5. (d \in App /\ k = 0 /\ h = 0) \/ (d \in Dir /\ k + h + 1 <= Crowd(d))
  <2>1. CASE c \in App
    <3>1. d \in Dir /\ Head(sq[c]).m \in Req /\ Sent(Head(sq[c]).m, d)
      BY <2>1, HeadIs
    <3>2. Len(due[d]) + 1 <= Crowd(d)
      BY <3>1, DirRoom
    <3> QED
      BY <1>4, <1>n, <3>1, <3>2
  <2>2. CASE c \in Dir
    <3>1. d \in App /\ Answered(c, d)
      BY <2>2, HeadIs
    <3>2. due[d] = <<>>
      BY <2>2, <3>1 DEF RingInv, ReplyInv, ReplyOK
    <3>3. l = 0
      BY <1>n, <3>2
    <3> QED
      BY <1>3, <1>4, <3>1, <3>3
  <2> QED
    BY <2>1, <2>2 DEF Conn
<1>6. Handles(d) \in 0..1 /\ k = cq[d] /\ n = Len(rq[d])
  BY <1>3, <1>n
<1>7. (d \in App /\ k = 0 /\ Handles(d) = 0)
        \/ (d \in Dir /\ k + Handles(d) + 1 <= Crowd(d))
  BY <1>5, <1>n
<1>8. N = messageNR[d] /\ s = subNR(d)
  BY <1>n
<1> QED
  BY <1>1, <1>2, <1>3, <1>4, <1>6, <1>7, <1>8, <1>d

\* The numbers of threads and new roots are numbers.
LEMMA CrowdType ==
  ASSUME RingInv, NEW d \in Dir
  PROVE  Crowd(d) \in Nat
<1>1. Cardinality(Asking(d)) \in Nat
  BY MallocsBound
<1>2. roots \in Nat
  BY RingAssumption DEF RingInv, TypeOK
<1> QED
  BY <1>1, <1>2 DEF Crowd

\* A datagram that finds a buffer does not find the one that is handled.
LEMMA Room ==
  ASSUME RingInv, Bearable, NEW c \in Conn, sq[c] # <<>>,
         NEW d, d = Head(sq[c]).to
  PROVE  d \in Conn /\ cq[d] + Handles(d) < messageNR[d]
<1>1. PICK N \in Nat \ {0}, s \in Nat \ {0} : \E k, n \in Nat, e \in 0..s-1 :
           /\ N = messageNR[d] /\ s = subNR(d) /\ s <= N
           /\ k = cq[d] /\ n = Len(rq[d]) /\ n + k = N - e
           /\ Handles(d) \in 0..1
           /\ \/ d \in App /\ k = 0 /\ Handles(d) = 0
              \/ d \in Dir /\ k + Handles(d) + 1 <= Crowd(d)
           /\ d \in Conn
  BY Loads
<1>2. PICK k \in Nat : k = cq[d]
  BY <1>1
<1>3. PICK h \in 0..1 : h = Handles(d)
  BY <1>1
<1>4. CASE d \in App /\ k = 0 /\ h = 0
  BY <1>1, <1>2, <1>3, <1>4
<1>5. CASE d \in Dir /\ k + h + 1 <= Crowd(d)
  <2>1. PICK x \in Nat : x = Crowd(d)
    BY <1>5, CrowdType
  <2>2. x <= N
    BY <1>1, <1>5, <2>1 DEF Bearable
  <2>3. k + h < N
    BY <1>5, <2>1, <2>2
  <2> QED
    BY <1>1, <1>2, <1>3, <2>3
<1> QED
  BY <1>1, <1>2, <1>3, <1>4, <1>5

\* A datagram that finds no buffer goes to a directory, and that is asked by
\* more than its ring has buffers outside of the batch that is not back.
LEMMA RoomOutsideBatch ==
  ASSUME RingInv, NEW c \in Conn, Overruns(c), NEW d, d = Head(sq[c]).to
  PROVE  d \in Dir /\ Crowd(d) > messageNR[d] - subNR(d) + 1
<1>1. sq[c] # <<>> /\ rq[d] = <<>>
  BY DEF Overruns
<1>2. PICK N \in Nat \ {0}, s \in Nat \ {0} : \E k, n \in Nat, e \in 0..s-1 :
           /\ N = messageNR[d] /\ s = subNR(d) /\ s <= N
           /\ k = cq[d] /\ n = Len(rq[d]) /\ n + k = N - e
           /\ Handles(d) \in 0..1
           /\ \/ d \in App /\ k = 0 /\ Handles(d) = 0
              \/ d \in Dir /\ k + Handles(d) + 1 <= Crowd(d)
           /\ d \in Conn
  BY <1>1, Loads
<1>3. PICK k \in Nat, n \in Nat, e \in 0..s-1 :
           /\ n = Len(rq[d]) /\ n + k = N - e /\ s <= N
           /\ Handles(d) \in 0..1
           /\ \/ d \in App /\ k = 0
              \/ d \in Dir /\ k + Handles(d) + 1 <= Crowd(d)
  BY <1>2
<1>4. n = 0
  BY <1>1, <1>3
<1>5. k = N - e /\ k >= N - s + 1 /\ k > 0
  BY <1>3, <1>4
<1>6. d \in Dir /\ k + Handles(d) + 1 <= Crowd(d)
  BY <1>3, <1>5
<1>7. PICK x \in Nat, h \in 0..1 : x = Crowd(d) /\ h = Handles(d)
  BY <1>3, <1>6, CrowdType
<1>8. x > N - s + 1
  BY <1>3, <1>5, <1>6, <1>7
<1> QED
  BY <1>2, <1>6, <1>7, <1>8

-----------------------------------------------------------------------------
(* What a step leaves alone.                                               *)

SendKept(c) ==
  /\ sendCounter'[c] = sendCounter[c] /\ curSend'[c] = curSend[c]
  /\ sendPool'[c] = sendPool[c] /\ sq'[c] = sq[c]
  /\ send_cq'[c] = send_cq[c]

RecvKept(c) ==
  /\ curMessage'[c] = curMessage[c] /\ messagePool'[c] = messagePool[c]
  /\ rq'[c] = rq[c] /\ cq'[c] = cq[c] /\ due'[c] = due[c]

\* A step that leaves the send side of a connection alone.
LEMMA SendSame ==
  ASSUME NEW c \in Conn, SendC(c), SendKept(c),
         th'[c] = th[c] \/ (th[c].pc # "send" /\ th'[c].pc # "send")
  PROVE  SendC(c)'
BY DEF SendC, SendKept, Base, At

\* A step that leaves the receive side of a connection alone.
LEMMA RecvSame ==
  ASSUME NEW c \in Conn, RecvC(c), RecvKept(c),
         th'[c] = th[c] \/ (th[c].pc # "handle" /\ th'[c].pc # "handle")
  PROVE  RecvC(c)'
BY DEF RecvC, RecvKept, Handles, At

\* A step that leaves a thread and its sends alone.
LEMMA LoadAppSame ==
  ASSUME NEW t \in App, LoadApp(t), th'[t] = th[t], calls'[t] = calls[t],
         sq'[t] = sq[t], sendPool'[t] = sendPool[t]
  PROVE  LoadApp(t)'
BY DEF LoadApp, At

\* The threads that a directory answers are where they were.
LEMMA LoadDirSame ==
  ASSUME NEW d \in Dir, LoadDir(d), th'[d] = th[d], sq'[d] = sq[d],
         sendPool'[d] = sendPool[d], due'[d] = due[d],
         \A t \in App :
           Sending(d, t) \/ Answered(d, t) => calls'[t] = calls[t],
         sq[d] \in Seq(Send)
  PROVE  LoadDir(d)'
<1>1. ASSUME NEW i \in DOMAIN sq[d]
      PROVE  sq[d][i].to \in App /\ sq[d][i].m = MyReply(sq[d][i].to)'
  <2>1. sq[d][i].to \in App /\ sq[d][i].m = MyReply(sq[d][i].to)
    BY DEF LoadDir
  <2>2. sq[d][i] \in Send
    OBVIOUS
  <2>3. Answered(d, sq[d][i].to)
    BY <2>2 DEF Answered, Places, To
  <2> QED
    BY <2>1, <2>3 DEF MyReply
<1>2. ASSUME At(d, "send")
      PROVE  /\ th[d].to \in App
             /\ sendPool[d][th[d].slot] = MyReply(th[d].to)'
  <2>1. th[d].to \in App /\ sendPool[d][th[d].slot] = MyReply(th[d].to)
    BY <1>2 DEF LoadDir
  <2>2. Sending(d, th[d].to)
    BY <1>2 DEF Sending
  <2> QED
    BY <2>1, <2>2 DEF MyReply
<1>3. \A i \in DOMAIN due[d] : due[d][i].type # "REPLY"
  BY DEF LoadDir
<1> QED
  BY <1>1, <1>2, <1>3 DEF LoadDir, At, MyReply

\* A step that puts no request under way, and wakes no thread that waits for
\* one.
LEMMA FlowSame ==
  ASSUME NEW m \in Req, NEW d \in Dir, FlowOK(m, d),
         Unique(Places(sq[m.app], Sends(m, d)))',
         Unique(Places(due[d], {m}))', ~(Sent(m, d) /\ Got(m, d))',
         (Sent(m, d) \/ Got(m, d))' => Sent(m, d) \/ Got(m, d),
         calls'[m.app] = calls[m.app], Unsent(m.app, d)' => Unsent(m.app, d),
         m.type = "MALLOC" /\ At(m.app, "wait") =>
           At(m.app, "wait")' /\ th'[m.app].to = th[m.app].to
  PROVE  FlowOK(m, d)'
<1>1. m.type = "MALLOC" /\ (Sent(m, d) \/ Got(m, d)) =>
        At(m.app, "wait")' /\ m.n = calls[m.app] /\ d = th'[m.app].to
  BY DEF FlowOK
<1> QED
  BY <1>1 DEF FlowOK

\* The queues are left alone.
LEMMA PlacesSame ==
  ASSUME NEW m \in Req, NEW d \in Dir, FlowOK(m, d), sq'[m.app] = sq[m.app],
         due'[d] = due[d]
  PROVE  /\ Unique(Places(sq[m.app], Sends(m, d)))'
         /\ Unique(Places(due[d], {m}))' /\ ~(Sent(m, d) /\ Got(m, d))'
         /\ Sent(m, d)' <=> Sent(m, d)
         /\ Got(m, d)' <=> Got(m, d)
BY DEF FlowOK, Sent, Got, Places, Unique, Sends

\* A step that puts no answer under way.
LEMMA ReplySame ==
  ASSUME NEW t \in App, ReplyOK(t), th'[t] = th[t], calls'[t] = calls[t],
         due'[t] = due[t], Asked(t)' => Asked(t),
         \A d \in Dir :
           /\ Unique(Places(sq[d], To(t)))'
           /\ ~(Sending(d, t) /\ Answered(d, t))'
           /\ (Sending(d, t) \/ Answered(d, t))' =>
                Sending(d, t) \/ Answered(d, t)
  PROVE  ReplyOK(t)'
<1>1. ASSUME NEW d \in Dir, (Sending(d, t) \/ Answered(d, t))'
      PROVE  (At(t, "wait") /\ d = th[t].to /\ ~Asked(t) /\ due[t] = <<>>)'
  BY <1>1 DEF ReplyOK, At
<1>2. ASSUME due'[t] # <<>>
      PROVE  (/\ Len(due[t]) = 1 /\ due[t][1] = MyReply(t)
              /\ ~Asked(t) /\ th[t].pc \in {"wait", "handle"})'
  BY <1>2 DEF ReplyOK, MyReply
<1> QED
  BY <1>1, <1>2 DEF ReplyOK

\* No answer is under way.
Quiet(t) ==
  /\ \A d \in Dir : ~Sending(d, t) /\ ~Answered(d, t)
  /\ due[t] = <<>>

\* Without an answer under way there is nothing to show.
LEMMA ReplyQuiet ==
  ASSUME NEW t \in App, Quiet(t)'
  PROVE  ReplyOK(t)'
BY DEF Quiet, ReplyOK, Answered, Unique

\* Only a thread that waits for an answer, or handles it, has one under way.
LEMMA QuietIf ==
  ASSUME NEW t \in App, ReplyOK(t), ~At(t, "wait"), ~At(t, "handle")
  PROVE  Quiet(t)
BY DEF Quiet, ReplyOK, At

\* Directories and the answers they have sent are left alone.
LEMMA QuietStays ==
  ASSUME NEW t \in App, Quiet(t), due'[t] = due[t],
         \A d \in Dir : th'[d] = th[d] /\ sq'[d] = sq[d]
  PROVE  Quiet(t)'
BY DEF Quiet, Sending, Answered, At, Places, To

\* Fewer new roots under way need no more than were made.
LEMMA RootsShrink ==
  ASSUME RootInv, NEW d \in Dir, NEW R, R \subseteq Roots(d),
         roots' >= roots, roots \in Nat, roots' \in Nat
  PROVE  IsFiniteSet(R) /\ Cardinality(R) <= roots'
<1>1. IsFiniteSet(Roots(d)) /\ Cardinality(Roots(d)) <= roots
  BY DEF RootInv
<1>2. /\ IsFiniteSet(R) /\ Cardinality(R) <= Cardinality(Roots(d))
      /\ Cardinality(R) \in Nat /\ Cardinality(Roots(d)) \in Nat
  BY <1>1, FS_Subset, FS_CardinalityType
<1> QED
  BY <1>1, <1>2

\* A step that leaves a thread, its sends and what a directory got alone.
LEMMA FlowFrame ==
  ASSUME NEW m \in Req, NEW d \in Dir, FlowOK(m, d), sq'[m.app] = sq[m.app],
         due'[d] = due[d], calls'[m.app] = calls[m.app],
         th'[m.app] = th[m.app]
  PROVE  FlowOK(m, d)'
<1>1. /\ Unsent(m.app, d)' => Unsent(m.app, d)
      /\ At(m.app, "wait") =>
           At(m.app, "wait")' /\ th'[m.app].to = th[m.app].to
  BY DEF Unsent, At
<1> QED
  BY <1>1, PlacesSame, FlowSame

\* The answers that a directory sends to thread t are left alone.
DirKept(t) ==
  \A d \in Dir :
    /\ Unique(Places(sq[d], To(t)))'
    /\ ~(Sending(d, t) /\ Answered(d, t))'
    /\ (Sending(d, t) \/ Answered(d, t))' => Sending(d, t) \/ Answered(d, t)

\* A step after which no directory sends that did not before.
LEMMA DirFrame ==
  ASSUME NEW t \in App, ReplyOK(t),
         \A d \in Dir :
           /\ sq'[d] = sq[d]
           /\ th'[d] = th[d] \/ th'[d].pc # "send"
  PROVE  DirKept(t)
BY DEF DirKept, ReplyOK, Unique, Places, To, Sending, Answered, At

\* A step that makes no new root.
LEMMA RootsKept ==
  ASSUME RootInv, TypeOK, roots' = roots, calls' = calls,
         \A d \in Dir, m \in Req :
           (Sent(m, d) \/ Got(m, d))' =>
             Sent(m, d) \/ Got(m, d) \/ m.type # "NEW_ROOT" \/ m \in Roots(d),
         \A d \in Dir, t \in App :
           Unsent(t, d)' => Unsent(t, d) /\ th'[t].type = th[t].type
  PROVE  RootInv'
<1>1. ASSUME NEW d \in Dir
      PROVE  (IsFiniteSet(Roots(d)) /\ Cardinality(Roots(d)) <= roots)'
  <2>1. PICK R : R = Roots(d)'
    OBVIOUS
  <2>2. ASSUME NEW m \in R PROVE m \in Roots(d)
    <3>1. /\ m \in Msg /\ m.type = "NEW_ROOT" /\ m.app \in App /\ m \in Req
          /\ \/ (Sent(m, d) \/ Got(m, d))'
             \/ /\ Unsent(m.app, d)' /\ th'[m.app].type = "NEW_ROOT"
                /\ m.n = calls'[m.app]
      BY <2>1 DEF Roots, Msg, Req
    <3>2. CASE (Sent(m, d) \/ Got(m, d))'
      <4>1. Sent(m, d) \/ Got(m, d) \/ m \in Roots(d)
        BY <3>1, <3>2
      <4> QED
        BY <3>1, <4>1 DEF Roots
    <3>3. CASE /\ Unsent(m.app, d)' /\ th'[m.app].type = "NEW_ROOT"
               /\ m.n = calls'[m.app]
      BY <3>1, <3>3 DEF Roots
    <3> QED
      BY <3>1, <3>2, <3>3
  <2>3. roots \in Nat /\ roots' >= roots /\ roots' \in Nat
    BY RingAssumption DEF TypeOK
  <2>4. IsFiniteSet(R) /\ Cardinality(R) <= roots'
    BY <2>2, <2>3, RootsShrink
  <2> QED
    BY <2>1, <2>4
<1> QED
  BY <1>1 DEF RootInv

-----------------------------------------------------------------------------
(* A thread makes a call.                                                  *)

\* Call: the number of the call is new, so that nothing of it is under way.
LEMMA CallStep ==
  ASSUME RingInv, NEW t \in App, NEW type \in {"MALLOC", "NEW_ROOT"},
         Call(t, type)
  PROVE  RingInv'
<1>t. /\ TypeOK /\ SendInv /\ RecvInv /\ LoadInv /\ FlowInv /\ ReplyInv
      /\ RootInv
  BY DEF RingInv
<1>c. t \in Conn /\ t \notin Dir /\ machineNR \in Nat \ {0}
  BY Conns, RingAssumption
<1>u. /\ sendCounter' = sendCounter /\ curSend' = curSend
      /\ sendPool' = sendPool /\ sq' = sq /\ send_cq' = send_cq
      /\ curMessage' = curMessage /\ messagePool' = messagePool /\ rq' = rq
      /\ cq' = cq /\ due' = due /\ next_target_node' = next_target_node
  BY DEF Call, send, recv
<1>1. PICK first, last :
        /\ first = IF type = "MALLOC" THEN next_target_node[t] ELSE 0
        /\ last = IF type = "MALLOC" THEN first ELSE machineNR - 1
  OBVIOUS
<1>2. /\ first \in Dir /\ last \in Dir /\ first <= last
      /\ type = "MALLOC" => first = last
  <2>1. next_target_node[t] \in Dir /\ 0 \in Dir /\ machineNR - 1 \in Dir
    BY <1>t, <1>c DEF TypeOK, Dir
  <2> QED
    BY <1>1, <1>c, <2>1 DEF Dir
<1>3. PICK r : r = [th[t] EXCEPT !.pc = "call", !.type = type, !.to = first,
                                 !.last = last]
  OBVIOUS
<1>4. th[t] \in Thr /\ th[t].pc = "idle" /\ calls[t] \in Nat /\ calls[t] > 0
  BY <1>t, <1>c DEF Call, At, TypeOK
<1>5. /\ r \in Thr /\ r.pc = "call" /\ r.type = type /\ r.to = first
      /\ r.last = last
  BY <1>2, <1>3, <1>4, Conns DEF Thr, Pcs, Types
<1>6. th' = [th EXCEPT ![t] = r]
  BY <1>1, <1>3, <1>t, <1>c DEF Call, TypeOK
<1>7. /\ th' \in [Conn -> Thr] /\ th'[t] = r
      /\ \A x \in Conn : x # t => th'[x] = th[x]
  BY <1>5, <1>6, <1>t, <1>c DEF TypeOK
<1>8. /\ calls' \in [App -> Nat] /\ calls'[t] = calls[t] - 1
      /\ \A x \in App : x # t => calls'[x] = calls[x]
  <2>1. calls' = [calls EXCEPT ![t] = calls[t] - 1]
    BY DEF Call
  <2> QED
    BY <1>4, <1>t, <2>1 DEF TypeOK
<1>9. /\ roots \in Nat /\ roots' \in 0..MaxRoots /\ roots' \in Nat
      /\ type = "MALLOC" => roots' = roots
      /\ type = "NEW_ROOT" => roots' = roots + 1
  BY <1>t, RingAssumption DEF Call, TypeOK
<1>q. Quiet(t)
  <2>1. ReplyOK(t)
    BY <1>t DEF ReplyInv
  <2> QED
    BY <1>4, <2>1, QuietIf DEF At
<1>10. TypeOK'
  <2>1. \A x \in App : th'[x].pc # "poll"
    BY <1>5, <1>7, <1>t, Conns DEF TypeOK
  <2>2. \A x \in Dir : th'[x].pc \in {"poll", "handle", "send"}
    BY <1>7, <1>c, <1>t, Conns DEF TypeOK
  <2> QED
    BY <1>7, <1>8, <1>9, <1>t, <1>u, <2>1, <2>2 DEF TypeOK
<1>11. SendInv'
  <2>1. ASSUME NEW x \in Conn PROVE SendC(x)'
    <3>1. SendC(x) /\ SendKept(x)
      BY <1>t, <1>u DEF SendInv, SendKept
    <3>2. th'[x] = th[x] \/ (th[x].pc # "send" /\ th'[x].pc # "send")
      BY <1>4, <1>5, <1>7
    <3> QED
      BY <3>1, <3>2, SendSame
  <2> QED
    BY <2>1 DEF SendInv
<1>12. RecvInv'
  <2>1. ASSUME NEW x \in Conn PROVE RecvC(x)'
    <3>1. RecvC(x) /\ RecvKept(x)
      BY <1>t, <1>u DEF RecvInv, RecvKept
    <3>2. th'[x] = th[x] \/ (th[x].pc # "handle" /\ th'[x].pc # "handle")
      BY <1>4, <1>5, <1>7
    <3> QED
      BY <3>1, <3>2, RecvSame
  <2> QED
    BY <2>1 DEF RecvInv
<1>13. LoadInv'
  <2>1. ASSUME NEW x \in App PROVE LoadApp(x)'
    <3>0. LoadApp(x)
      BY <1>t DEF LoadInv
    <3>1. CASE x # t
      BY <1>7, <1>8, <1>u, <3>0, <3>1, Conns, LoadAppSame
    <3>2. CASE x = t
      BY <1>2, <1>5, <1>7, <1>u, <3>0, <3>2 DEF LoadApp, At
    <3> QED
      BY <3>1, <3>2
  <2>2. ASSUME NEW d \in Dir PROVE LoadDir(d)'
    <3>1. LoadDir(d) /\ d \in Conn /\ d # t /\ sq[d] \in Seq(Send)
      BY <1>c, <1>t, Conns DEF LoadInv, TypeOK
    <3>2. \A x \in App :
            Sending(d, x) \/ Answered(d, x) => calls'[x] = calls[x]
      BY <1>8, <1>q DEF Quiet
    <3> QED
      BY <1>7, <1>u, <3>1, <3>2, LoadDirSame
  <2> QED
    BY <2>1, <2>2 DEF LoadInv
<1>14. FlowInv'
  <2>1. ASSUME NEW m \in Req, NEW d \in Dir PROVE FlowOK(m, d)'
    <3>0. FlowOK(m, d) /\ m.app \in App /\ m.app \in Conn /\ m.n \in Nat
      BY <1>t, Conns DEF FlowInv, Req, Msg
    <3>1. /\ Unique(Places(sq[m.app], Sends(m, d)))'
          /\ Unique(Places(due[d], {m}))' /\ ~(Sent(m, d) /\ Got(m, d))'
          /\ Sent(m, d)' <=> Sent(m, d)
          /\ Got(m, d)' <=> Got(m, d)
      BY <1>u, <3>0, PlacesSame
    <3>2. CASE m.app # t
      <4>1. th'[m.app] = th[m.app] /\ calls'[m.app] = calls[m.app]
        BY <1>7, <1>8, <3>0, <3>2
      <4>2. /\ Unsent(m.app, d)' => Unsent(m.app, d)
            /\ At(m.app, "wait") =>
                 At(m.app, "wait")' /\ th'[m.app].to = th[m.app].to
        BY <4>1 DEF Unsent, At
      <4> QED
        BY <3>0, <3>1, <4>1, <4>2, FlowSame
    <3>3. CASE m.app = t
      <4>1. Sent(m, d) \/ Got(m, d) => m.n >= calls[t] /\ m.type # "MALLOC"
        BY <1>4, <3>0, <3>3 DEF FlowOK, At
      <4>2. Sent(m, d) \/ Got(m, d) => m.n >= calls'[t] /\ m.n # calls'[t]
        BY <1>4, <1>8, <3>0, <4>1
      <4> QED
        BY <3>1, <3>3, <4>1, <4>2 DEF FlowOK
    <3> QED
      BY <3>2, <3>3
  <2> QED
    BY <2>1 DEF FlowInv
<1>15. ReplyInv'
  <2>0. \A d \in Dir : th'[d] = th[d]
    BY <1>7, <1>c, Conns
  <2>1. ASSUME NEW x \in App PROVE ReplyOK(x)'
    <3>0. ReplyOK(x) /\ x \in Conn
      BY <1>t, Conns DEF ReplyInv
    <3>1. CASE x # t
      <4>1. th'[x] = th[x] /\ calls'[x] = calls[x]
        BY <1>7, <1>8, <3>0, <3>1
      <4>2. Asked(x)' => Asked(x)
        BY <1>u, <4>1 DEF Asked, Sent, Got, MyReq, Places, Sends
      <4>3. ASSUME NEW d \in Dir
            PROVE  /\ Unique(Places(sq[d], To(x)))'
                   /\ ~(Sending(d, x) /\ Answered(d, x))'
                   /\ (Sending(d, x) \/ Answered(d, x))' =>
                        Sending(d, x) \/ Answered(d, x)
        BY <1>u, <2>0, <3>0
           DEF ReplyOK, Unique, Places, To, Sending, Answered, At
      <4> QED
        BY <1>u, <3>0, <4>1, <4>2, <4>3, ReplySame
    <3>2. CASE x = t
      BY <1>q, <1>u, <2>0, <3>2, QuietStays, ReplyQuiet
    <3> QED
      BY <3>1, <3>2
  <2> QED
    BY <2>1 DEF ReplyInv
<1>16. RootInv'
  <2>1. ASSUME NEW d \in Dir
        PROVE  (IsFiniteSet(Roots(d)) /\ Cardinality(Roots(d)) <= roots)'
    <3>1. PICK y, R : /\ y = [type |-> "NEW_ROOT", app |-> t, n |-> calls'[t]]
                      /\ R = Roots(d)'
      OBVIOUS
    <3>2. ASSUME NEW m \in R
          PROVE  m \in Roots(d) \/ (type = "NEW_ROOT" /\ m = y)
      <4>0. /\ m \in Msg /\ m.type = "NEW_ROOT" /\ m.app \in App
            /\ m.app \in Conn
            /\ \/ Sent(m, d)' \/ Got(m, d)'
               \/ /\ Unsent(m.app, d)' /\ th'[m.app].type = "NEW_ROOT"
                  /\ m.n = calls'[m.app]
        BY <3>1, Conns DEF Roots, Msg
      <4>1. (Sent(m, d)' <=> Sent(m, d)) /\ (Got(m, d)' <=> Got(m, d))
        BY <1>u DEF Sent, Got, Places, Sends
      <4>2. CASE Sent(m, d) \/ Got(m, d)
        BY <4>0, <4>2 DEF Roots
      <4>3. CASE ~(Sent(m, d) \/ Got(m, d)) /\ m.app # t
        <5>1. th'[m.app] = th[m.app] /\ calls'[m.app] = calls[m.app]
          BY <1>7, <1>8, <4>0, <4>3
        <5> QED
          BY <4>0, <4>1, <4>3, <5>1 DEF Roots, Unsent
      <4>4. CASE ~(Sent(m, d) \/ Got(m, d)) /\ m.app = t
        <5>1. type = "NEW_ROOT" /\ m.n = calls'[t]
          BY <1>5, <1>7, <4>0, <4>1, <4>4
        <5> QED
          BY <3>1, <4>0, <4>4, <5>1 DEF Msg
      <4> QED
        BY <4>2, <4>3, <4>4
    <3>3. CASE type = "MALLOC"
      <4>1. R \subseteq Roots(d)
        BY <3>2, <3>3
      <4>2. IsFiniteSet(R) /\ Cardinality(R) <= roots'
        BY <1>9, <1>t, <3>3, <4>1, RootsShrink
      <4> QED
        BY <3>1, <4>2
    <3>4. CASE type = "NEW_ROOT"
      <4>1. PICK Z : Z = Roots(d) \cup {y}
        OBVIOUS
      <4>2. IsFiniteSet(Roots(d)) /\ Cardinality(Roots(d)) <= roots
        BY <1>t DEF RootInv
      <4>3. /\ IsFiniteSet(Z)
            /\ \/ Cardinality(Z) = Cardinality(Roots(d))
               \/ Cardinality(Z) = Cardinality(Roots(d)) + 1
            /\ Cardinality(Roots(d)) \in Nat
        BY <4>1, <4>2, FS_AddElement, FS_CardinalityType
      <4>4. R \subseteq Z
        BY <3>2, <4>1
      <4>5. /\ IsFiniteSet(R) /\ Cardinality(R) <= Cardinality(Z)
            /\ Cardinality(R) \in Nat /\ Cardinality(Z) \in Nat
        BY <4>3, <4>4, FS_Subset, FS_CardinalityType
      <4>6. Cardinality(R) <= roots'
        BY <1>9, <3>4, <4>2, <4>3, <4>5
      <4> QED
        BY <3>1, <4>5, <4>6
    <3> QED
      BY <3>3, <3>4
  <2> QED
    BY <2>1 DEF RootInv
<1> QED
  BY <1>10, <1>11, <1>12, <1>13, <1>14, <1>15, <1>16 DEF RingInv

-----------------------------------------------------------------------------
(* A message is copied to a send buffer.                                   *)

Filled(c, m) ==
  /\ sendPool' \in [Conn -> Pools]
  /\ \A x \in Conn : sendPool'[x] \in Pool(x)
  /\ sendPool'[c] = [sendPool[c] EXCEPT ![curSend[c]] = m]
  /\ sendPool'[c][curSend[c]] = m
  /\ \A x \in Conn : x # c => sendPool'[x] = sendPool[x]
  /\ curSend' \in [Conn -> Nat] /\ \A x \in Conn : curSend'[x] \in Slots(x)
  /\ curSend'[c] = AddRound(curSend[c], messageNR[c])
  /\ \A x \in Conn : x # c => curSend'[x] = curSend[x]

\* getSendPool, connection by connection.
LEMMA Fills ==
  ASSUME TypeOK, NEW c \in Conn, NEW m \in Msg, getSendPool(c, m)
  PROVE  Filled(c, m)
<1>1. PICK p, b, N : p = sendPool[c] /\ b = curSend[c] /\ N = messageNR[c]
  OBVIOUS
<1>2. /\ N \in Nat \ {0} /\ b \in 0..N-1 /\ b \in Slots(c)
      /\ p \in [Slots(c) -> Msg \cup {Empty}]
  BY <1>1, RingAssumption DEF TypeOK, Slots, Pool
<1>3. PICK q : q = [p EXCEPT ![b] = m]
  OBVIOUS
<1>4. q \in Pool(c) /\ q[b] = m
  BY <1>2, <1>3 DEF Pool
<1>5. sendPool' = [sendPool EXCEPT ![c] = q]
  BY <1>1, <1>3 DEF getSendPool
<1>6. PICK a : a = AddRound(b, N)
  OBVIOUS
<1>7. a \in 0..N-1 /\ a \in Slots(c) /\ a \in Nat
  BY <1>1, <1>2, <1>6, AddRoundIs DEF Slots
<1>8. curSend' = [curSend EXCEPT ![c] = a]
  BY <1>1, <1>6 DEF getSendPool
<1>9. q \in Pools
  BY <1>4 DEF Pools
<1>10. /\ sendPool' \in [Conn -> Pools] /\ sendPool'[c] = q
       /\ \A x \in Conn : x # c => sendPool'[x] = sendPool[x]
  BY <1>5, <1>9 DEF TypeOK
<1>11. /\ curSend' \in [Conn -> Nat] /\ curSend'[c] = a
       /\ \A x \in Conn : x # c => curSend'[x] = curSend[x]
  BY <1>7, <1>8 DEF TypeOK
<1>12. /\ \A x \in Conn : sendPool'[x] \in Pool(x)
       /\ \A x \in Conn : curSend'[x] \in Slots(x)
  BY <1>4, <1>7, <1>10, <1>11 DEF TypeOK
<1> QED
  BY <1>1, <1>3, <1>4, <1>6, <1>10, <1>11, <1>12 DEF Filled

\* The buffer that getSendPool returns is used by no send of the queue.
LEMMA FilledSend ==
  ASSUME TypeOK, NEW c \in Conn, NEW m \in Msg, Filled(c, m), SendC(c),
         th[c].pc # "send", th'[c].pc = "send", th'[c].slot = curSend[c],
         sendCounter' = sendCounter, sq' = sq, send_cq' = send_cq
  PROVE  SendC(c)'
<1>1. PICK p, b, N, q, S, w, V :
        /\ p = sendPool[c] /\ b = curSend[c] /\ N = messageNR[c] /\ q = sq[c]
        /\ S = sendCounter[c] /\ w = send_cq[c] /\ V = Msg \cup {Empty}
  OBVIOUS
<1>2. /\ N \in Nat \ {0} /\ b \in 0..N-1 /\ b \in Slots(c)
      /\ p \in [0..N-1 -> V] /\ m \in V /\ S \in Nat /\ q \in Seq(Send)
      /\ w \in Nat /\ 2 * kSignal <= N
  <2>1. messageNR[c] >= 2 * kSignal /\ kSignal \in Nat /\ N \in Nat \ {0}
    BY <1>1, RingAssumption
  <2>2. 2 * kSignal <= N
    BY <1>1, <2>1
  <2> QED
    BY <1>1, <2>1, <2>2 DEF TypeOK, Slots, Pool
<1>3. SendOK(N, S, b, q, w, p)
  BY <1>1 DEF SendC, Base, At
<1>4. SendOK(N, S, b, q, w, [p EXCEPT ![b] = m])
  BY <1>2, <1>3, SendFill
<1>5. Base(c)' = b /\ sendPool'[c] = [p EXCEPT ![b] = m]
  BY <1>1 DEF Base, At, Filled
<1>6. SendOK(messageNR[c], sendCounter[c], Base(c), sq[c], send_cq[c],
             sendPool[c])'
  BY <1>1, <1>4, <1>5
<1>7. th'[c].slot \in Slots(c) /\ curSend'[c] = AddRound(th'[c].slot, N)
  BY <1>1, <1>2 DEF Filled
<1> QED
  BY <1>1, <1>6, <1>7 DEF SendC

\* rpc_call_dir: a thread fills a send buffer.
LEMMA FillStep ==
  ASSUME RingInv, NEW t \in App, rpc_call_dir(t)
  PROVE  RingInv'
<1>t. /\ TypeOK /\ SendInv /\ RecvInv /\ LoadInv /\ FlowInv /\ ReplyInv
      /\ RootInv
  BY DEF RingInv
<1>c. t \in Conn /\ t \notin Dir
  BY Conns
<1>u. /\ sendCounter' = sendCounter /\ sq' = sq /\ send_cq' = send_cq
      /\ curMessage' = curMessage /\ messagePool' = messagePool /\ rq' = rq
      /\ cq' = cq /\ due' = due /\ next_target_node' = next_target_node
      /\ calls' = calls /\ roots' = roots
  BY DEF rpc_call_dir, recv, work
<1>1. PICK m : m = Request(t, th[t].type)
  OBVIOUS
<1>2. /\ th[t] \in Thr /\ th[t].pc = "call" /\ curSend[t] \in Nat
      /\ calls[t] \in Nat /\ LoadApp(t)
  BY <1>t, <1>c DEF rpc_call_dir, At, TypeOK, LoadInv
<1>3. m \in Msg /\ m = [type |-> th[t].type, app |-> t, n |-> calls[t]]
  BY <1>1, <1>2 DEF Request, Msg, Types, LoadApp
<1>4. Filled(t, m)
  <2>1. getSendPool(t, m)
    BY <1>1 DEF rpc_call_dir
  <2> QED
    BY <1>3, <1>c, <1>t, <2>1, Fills
<1>5. PICK r : r = [th[t] EXCEPT !.pc = "send", !.slot = curSend[t]]
  OBVIOUS
<1>6. /\ r \in Thr /\ r.pc = "send" /\ r.slot = curSend[t]
      /\ r.type = th[t].type /\ r.to = th[t].to /\ r.last = th[t].last
  BY <1>2, <1>5 DEF Thr, Pcs
<1>7. th' = [th EXCEPT ![t] = r]
  BY <1>5, <1>t, <1>c DEF rpc_call_dir, TypeOK
<1>8. /\ th' \in [Conn -> Thr] /\ th'[t] = r
      /\ \A x \in Conn : x # t => th'[x] = th[x]
  BY <1>6, <1>7, <1>t, <1>c DEF TypeOK
<1>d. \A d \in Dir : th'[d] = th[d]
  BY <1>8, <1>c, Conns
<1>10. TypeOK'
  <2>1. \A x \in App : th'[x].pc # "poll"
    BY <1>6, <1>8, <1>t, Conns DEF TypeOK
  <2>2. \A x \in Dir : th'[x].pc \in {"poll", "handle", "send"}
    BY <1>d, <1>t DEF TypeOK
  <2> QED
    BY <1>4, <1>8, <1>t, <1>u, <2>1, <2>2 DEF TypeOK, Filled
<1>11. SendInv'
  <2>1. ASSUME NEW x \in Conn PROVE SendC(x)'
    <3>1. SendC(x)
      BY <1>t DEF SendInv
    <3>2. CASE x # t
      <4>1. SendKept(x) /\ th'[x] = th[x]
        BY <1>4, <1>8, <1>u, <3>2 DEF SendKept, Filled
      <4> QED
        BY <3>1, <4>1, SendSame
    <3>3. CASE x = t
      BY <1>2, <1>3, <1>4, <1>6, <1>8, <1>c, <1>t, <1>u, <3>1, <3>3,
         FilledSend
    <3> QED
      BY <3>2, <3>3
  <2> QED
    BY <2>1 DEF SendInv
<1>12. RecvInv'
  <2>1. ASSUME NEW x \in Conn PROVE RecvC(x)'
    <3>1. RecvC(x) /\ RecvKept(x)
      BY <1>t, <1>u DEF RecvInv, RecvKept
    <3>2. th'[x] = th[x] \/ (th[x].pc # "handle" /\ th'[x].pc # "handle")
      BY <1>2, <1>6, <1>8
    <3> QED
      BY <3>1, <3>2, RecvSame
  <2> QED
    BY <2>1 DEF RecvInv
<1>13. LoadInv'
  <2>1. ASSUME NEW x \in App PROVE LoadApp(x)'
    <3>0. LoadApp(x) /\ x \in Conn
      BY <1>t, Conns DEF LoadInv
    <3>1. CASE x # t
      BY <1>4, <1>8, <1>u, <3>0, <3>1, LoadAppSame DEF Filled
    <3>2. CASE x = t
      <4>1. sendPool'[t][th'[t].slot] = m
        BY <1>4, <1>6, <1>8 DEF Filled
      <4> QED
        BY <1>2, <1>3, <1>6, <1>8, <1>u, <3>2, <4>1 DEF LoadApp, At
    <3> QED
      BY <3>1, <3>2
  <2>2. ASSUME NEW d \in Dir PROVE LoadDir(d)'
    <3>1. /\ LoadDir(d) /\ d \in Conn /\ d # t /\ sq[d] \in Seq(Send)
          /\ sendPool'[d] = sendPool[d]
      BY <1>4, <1>c, <1>t, Conns DEF LoadInv, TypeOK, Filled
    <3> QED
      BY <1>d, <1>u, <3>1, LoadDirSame
  <2> QED
    BY <2>1, <2>2 DEF LoadInv
<1>w. /\ \A x \in App : At(x, "wait") =>
           At(x, "wait")' /\ th'[x].to = th[x].to
      /\ \A d \in Dir, x \in App :
           Unsent(x, d)' => Unsent(x, d) /\ th'[x].type = th[x].type
  BY <1>2, <1>6, <1>8, Conns DEF At, Unsent
<1>14. FlowInv'
  <2>1. ASSUME NEW x \in Req, NEW d \in Dir PROVE FlowOK(x, d)'
    <3>0. FlowOK(x, d) /\ x.app \in App
      BY <1>t DEF FlowInv, Req, Msg
    <3> QED
      BY <1>u, <1>w, <3>0, PlacesSame, FlowSame
  <2> QED
    BY <2>1 DEF FlowInv
<1>15. ReplyInv'
  <2>1. ASSUME NEW x \in App PROVE ReplyOK(x)'
    <3>0. ReplyOK(x) /\ x \in Conn
      BY <1>t, Conns DEF ReplyInv
    <3>1. CASE x # t
      <4>1. th'[x] = th[x]
        BY <1>8, <3>0, <3>1
      <4>2. Asked(x)' => Asked(x)
        BY <1>u, <4>1 DEF Asked, Sent, Got, MyReq, Places, Sends
      <4>3. DirKept(x)
        BY <1>d, <1>u, <3>0, DirFrame
      <4> QED
        BY <1>u, <3>0, <4>1, <4>2, <4>3, ReplySame DEF DirKept
    <3>2. CASE x = t
      <4>1. Quiet(t)
        BY <1>2, <3>0, <3>2, QuietIf DEF At
      <4> QED
        BY <1>d, <1>u, <3>2, <4>1, QuietStays, ReplyQuiet
    <3> QED
      BY <3>1, <3>2
  <2> QED
    BY <2>1 DEF ReplyInv
<1>16. RootInv'
  <2>1. \A d \in Dir, x \in Req : (Sent(x, d) \/ Got(x, d))' =>
                                   Sent(x, d) \/ Got(x, d)
    BY <1>u DEF Sent, Got, Places, Sends
  <2> QED
    BY <1>t, <1>u, <1>w, <2>1, RootsKept
<1> QED
  BY <1>10, <1>11, <1>12, <1>13, <1>14, <1>15, <1>16 DEF RingInv

-----------------------------------------------------------------------------
(* A send is posted.                                                       *)

Posted(c, w) ==
  /\ w \in Send /\ w.to = th[c].to /\ w.m = sendPool[c][th[c].slot]
  /\ sq' \in [Conn -> Seq(Send)] /\ sq'[c] = Append(sq[c], w)
  /\ \A x \in Conn : x # c => SendKept(x) /\ th'[x] = th[x]
  /\ send_cq' \in [Conn -> Nat] /\ sendCounter' \in [Conn -> Nat]
  /\ curSend' = curSend /\ sendPool' = sendPool
  /\ th'[c] = AfterSend(c)
  /\ curMessage' = curMessage /\ messagePool' = messagePool /\ rq' = rq
  /\ cq' = cq /\ due' = due /\ next_target_node' = next_target_node
  /\ calls' = calls /\ roots' = roots

\* sendRawMessage: a send is posted from the buffer that was filled.
LEMMA Posts ==
  ASSUME TypeOK, SendInv, NEW c \in Conn, sendRawMessage(c),
         sendPool[c][th[c].slot] \in Msg, AfterSend(c).pc # "send"
  PROVE  \E w : Posted(c, w) /\ SendInv'
<1>1. PICK p, b, N, q, S, k, w :
        /\ p = sendPool[c] /\ b = th[c].slot /\ N = messageNR[c] /\ q = sq[c]
        /\ S = sendCounter[c] /\ k = send_cq[c]
        /\ w = [slot |-> b, to |-> th[c].to, signal |-> SignalFlag(c),
                m |-> p[b]]
  OBVIOUS
<1>2. /\ N \in Nat \ {0} /\ S \in Nat /\ q \in Seq(Send) /\ k \in Nat
      /\ 2 * kSignal <= N /\ th[c] \in Thr /\ th[c].pc = "send" /\ SendC(c)
      /\ b \in Nat /\ th[c].to \in Conn
  <2>1. messageNR[c] >= 2 * kSignal /\ kSignal \in Nat /\ N \in Nat \ {0}
    BY <1>1, RingAssumption
  <2>2. 2 * kSignal <= N
    BY <1>1, <2>1
  <2>3. th[c] \in Thr
    BY DEF TypeOK
  <2> QED
    BY <1>1, <2>1, <2>2, <2>3 DEF TypeOK, SendInv, sendRawMessage, At, Thr
<1>3. /\ b \in 0..N-1 /\ SendOK(N, S, b, q, k, p)
      /\ curSend[c] = AddRound(b, N)
  BY <1>1, <1>2 DEF SendC, At, Base, Slots
<1>4. SignalFlag(c) \in BOOLEAN /\ (SignalFlag(c) <=> S % kSignal = 0)
  BY <1>1 DEF SignalFlag, Signals
<1>5. /\ w \in Send /\ w.slot = b /\ w.to = th[c].to /\ w.m = p[b]
      /\ (w.signal <=> S % kSignal = 0)
  <2>1. p[b] \in Msg
    BY <1>1
  <2> QED
    BY <1>1, <1>2, <1>4, <2>1 DEF Send
<1>6. PICK v : v = IF S % kSignal = 0 /\ S > 0 THEN k - 1 ELSE k
  OBVIOUS
<1>7. Polls(S, k, v) /\ send_cq' = [send_cq EXCEPT ![c] = v] /\ v \in Nat
  <2>1. PollSend(c)
    BY DEF sendRawMessage
  <2>2. CASE S % kSignal = 0 /\ S > 0
    BY <1>1, <1>2, <1>6, <2>1, <2>2 DEF PollSend, Signals, Polls
  <2>3. CASE ~(S % kSignal = 0 /\ S > 0)
    BY <1>1, <1>2, <1>6, <2>1, <2>3 DEF PollSend, Signals, Polls, TypeOK
  <2> QED
    BY <2>2, <2>3
<1>8. SendOK(N, S + 1, AddRound(b, N), Append(q, w), v, p)
  BY <1>1, <1>2, <1>3, <1>5, <1>7, SendPush
<1>9. PICK z, y : z = Append(q, w) /\ y = AfterSend(c)
  OBVIOUS
<1>10. /\ sq' = [sq EXCEPT ![c] = z] /\ z \in Seq(Send)
       /\ sendCounter' = [sendCounter EXCEPT ![c] = S + 1]
       /\ th' = [th EXCEPT ![c] = y] /\ curSend' = curSend
       /\ sendPool' = sendPool
  BY <1>1, <1>2, <1>5, <1>9 DEF sendRawMessage
<1>11. /\ sq' \in [Conn -> Seq(Send)] /\ sq'[c] = z
       /\ \A x \in Conn : x # c => sq'[x] = sq[x]
  BY <1>10 DEF TypeOK
<1>12. /\ sendCounter' \in [Conn -> Nat] /\ sendCounter'[c] = S + 1
       /\ \A x \in Conn : x # c => sendCounter'[x] = sendCounter[x]
  BY <1>2, <1>10 DEF TypeOK
<1>13. /\ send_cq' \in [Conn -> Nat] /\ send_cq'[c] = v
       /\ \A x \in Conn : x # c => send_cq'[x] = send_cq[x]
  BY <1>7 DEF TypeOK
<1>14. th'[c] = y /\ \A x \in Conn : x # c => th'[x] = th[x]
  BY <1>10 DEF TypeOK
<1>15. \A x \in Conn : x # c => SendKept(x) /\ th'[x] = th[x]
  BY <1>10, <1>11, <1>12, <1>13, <1>14 DEF SendKept
<1>16. Posted(c, w)
  <2>1. /\ curMessage' = curMessage /\ messagePool' = messagePool /\ rq' = rq
        /\ cq' = cq /\ due' = due /\ next_target_node' = next_target_node
        /\ calls' = calls /\ roots' = roots
    BY DEF sendRawMessage, recv, work
  <2> QED
    BY <1>1, <1>5, <1>9, <1>10, <1>11, <1>12, <1>13, <1>14, <1>15, <2>1
       DEF Posted
<1>17. SendC(c)'
  <2>1. Base(c)' = AddRound(b, N) /\ th'[c].pc # "send"
    BY <1>3, <1>9, <1>10, <1>14 DEF Base, At
  <2>2. SendOK(messageNR[c], sendCounter[c], Base(c), sq[c], send_cq[c],
               sendPool[c])'
    BY <1>1, <1>8, <1>9, <1>10, <1>11, <1>12, <1>13, <2>1
  <2> QED
    BY <2>1, <2>2 DEF SendC, At
<1>18. SendInv'
  <2>1. ASSUME NEW x \in Conn, x # c PROVE SendC(x)'
    BY <1>15, <2>1, SendSame DEF SendInv
  <2> QED
    BY <1>17, <2>1 DEF SendInv
<1> QED
  BY <1>16, <1>18

\* sendRawMessage of a thread: the request is under way, and not to be sent
\* again.
LEMMA AppSendStep ==
  ASSUME RingInv, NEW t \in App, sendRawMessage(t)
  PROVE  RingInv'
<1>t. /\ TypeOK /\ SendInv /\ RecvInv /\ LoadInv /\ FlowInv /\ ReplyInv
      /\ RootInv
  BY DEF RingInv
<1>c. t \in Conn /\ t \notin Dir /\ machineNR \in Nat
  BY Conns, RingAssumption
<1>1. /\ th[t] \in Thr /\ th[t].pc = "send" /\ LoadApp(t) /\ calls[t] \in Nat
      /\ sq[t] \in Seq(Send)
  BY <1>c, <1>t DEF sendRawMessage, At, TypeOK, LoadInv
<1>2. PICK m, e, r : m = sendPool[t][th[t].slot] /\ e = th[t].to
                     /\ r = AfterSend(t)
  OBVIOUS
<1>3. /\ m = [type |-> th[t].type, app |-> t, n |-> calls[t]]
      /\ th[t].type \in {"MALLOC", "NEW_ROOT"} /\ e \in Dir
      /\ e <= th[t].last /\ (th[t].type = "MALLOC" => e = th[t].last)
  BY <1>1, <1>2 DEF LoadApp, At
<1>4. /\ m \in Msg /\ m \in Req /\ m.app = t /\ m.type = th[t].type
      /\ m.n = calls[t]
  BY <1>1, <1>3 DEF Msg, Types, Req
<1>5. /\ r \in Thr /\ r.pc \in {"call", "wait", "idle"} /\ r.type = th[t].type
      /\ r.last = th[t].last
      /\ r.pc = "call" => r.to = e + 1 /\ e < r.last /\ r.to \in Dir
      /\ r.pc = "wait" => r.to = e /\ r.type = "MALLOC"
      /\ r.type = "MALLOC" => r.pc = "wait"
  <2>1. th[t].last \in Dir
    BY <1>1 DEF Thr
  <2>2. CASE e < th[t].last
    <3>1. r = [th[t] EXCEPT !.pc = "call", !.to = e + 1]
      BY <1>2, <1>c, <2>2 DEF AfterSend
    <3>2. e + 1 \in Dir
      BY <1>3, <1>c, <2>1, <2>2 DEF Dir
    <3>3. th[t].type # "MALLOC" /\ e + 1 \in Conn
      BY <1>3, <2>2, <3>2, <2>1, Conns DEF Dir
    <3> QED
      BY <1>1, <1>3, <2>2, <3>1, <3>2, <3>3 DEF Thr, Pcs
  <2>3. CASE ~(e < th[t].last)
    <3>1. r = [th[t] EXCEPT
                 !.pc = IF th[t].type = "MALLOC" THEN "wait" ELSE "idle"]
      BY <1>2, <1>c, <2>3 DEF AfterSend
    <3> QED
      BY <1>1, <1>2, <1>3, <3>1 DEF Thr, Pcs
  <2> QED
    BY <2>2, <2>3
<1>6. PICK w : Posted(t, w) /\ SendInv'
  <2>1. AfterSend(t).pc # "send" /\ sendPool[t][th[t].slot] \in Msg
    BY <1>2, <1>4, <1>5
  <2> QED
    BY <1>c, <1>t, <2>1, Posts
<1>u. /\ curSend' = curSend /\ sendPool' = sendPool
      /\ curMessage' = curMessage /\ messagePool' = messagePool /\ rq' = rq
      /\ cq' = cq /\ due' = due /\ next_target_node' = next_target_node
      /\ calls' = calls /\ roots' = roots
  BY <1>6 DEF Posted
<1>7. /\ w \in Send /\ w.to = e /\ w.m = m
      /\ sq'[t] = Append(sq[t], w) /\ th'[t] = r
      /\ \A x \in Conn : x # t => th'[x] = th[x] /\ sq'[x] = sq[x]
  BY <1>2, <1>6 DEF Posted, SendKept
<1>8. th' \in [Conn -> Thr]
  <2>1. th' = [th EXCEPT ![t] = r]
    BY <1>2 DEF sendRawMessage
  <2> QED
    BY <1>5, <1>c, <1>t, <2>1 DEF TypeOK
<1>d. \A d \in Dir : d # t /\ d \in Conn /\ th'[d] = th[d] /\ sq'[d] = sq[d]
  BY <1>7, <1>c, Conns
<1>10. TypeOK'
  <2>1. \A x \in App : th'[x].pc # "poll"
    BY <1>5, <1>7, <1>t, Conns DEF TypeOK
  <2>2. \A x \in Dir : th'[x].pc \in {"poll", "handle", "send"}
    BY <1>d, <1>t DEF TypeOK
  <2> QED
    BY <1>6, <1>8, <1>t, <1>u, <2>1, <2>2 DEF TypeOK, Posted
<1>12. RecvInv'
  <2>1. ASSUME NEW x \in Conn PROVE RecvC(x)'
    <3>1. RecvC(x) /\ RecvKept(x)
      BY <1>t, <1>u DEF RecvInv, RecvKept
    <3>2. th'[x] = th[x] \/ (th[x].pc # "handle" /\ th'[x].pc # "handle")
      BY <1>1, <1>5, <1>7
    <3> QED
      BY <3>1, <3>2, RecvSame
  <2> QED
    BY <2>1 DEF RecvInv
<1>13. LoadInv'
  <2>1. ASSUME NEW x \in App PROVE LoadApp(x)'
    <3>0. LoadApp(x) /\ x \in Conn
      BY <1>t, Conns DEF LoadInv
    <3>1. CASE x # t
      BY <1>7, <1>u, <3>0, <3>1, LoadAppSame
    <3>2. CASE x = t
      <4>1. ASSUME NEW i \in DOMAIN sq'[t]
            PROVE  /\ sq'[t][i].m.app = t /\ sq'[t][i].to \in Dir
                   /\ sq'[t][i].m.type # "REPLY"
        <5>1. (i \in DOMAIN sq[t] /\ sq'[t][i] = sq[t][i]) \/ sq'[t][i] = w
          BY <1>1, <1>7
        <5> QED
          BY <1>1, <1>3, <1>4, <1>7, <5>1 DEF LoadApp
      <4>2. ~At(t, "send")'
        BY <1>5, <1>7 DEF At
      <4>3. r.pc \in {"call", "send"} =>
              /\ r.type \in {"MALLOC", "NEW_ROOT"} /\ r.to \in Dir
              /\ r.to <= r.last /\ (r.type = "MALLOC" => r.to = r.last)
        <5>1. r.last \in Int /\ e \in Int
          BY <1>3, <1>5 DEF Thr, Dir
        <5> QED
          BY <1>3, <1>5, <5>1
      <4> QED
        BY <1>5, <1>7, <3>2, <4>1, <4>2, <4>3 DEF LoadApp, At
    <3> QED
      BY <3>1, <3>2
  <2>2. ASSUME NEW d \in Dir PROVE LoadDir(d)'
    <3>1. LoadDir(d) /\ sq[d] \in Seq(Send)
      BY <1>d, <1>t DEF LoadInv, TypeOK
    <3> QED
      BY <1>d, <1>u, <3>1, LoadDirSame
  <2> QED
    BY <2>1, <2>2 DEF LoadInv
<1>w. \A d \in Dir, x \in App :
        Unsent(x, d)' => Unsent(x, d) /\ th'[x].type = th[x].type
  <2>1. ASSUME NEW d \in Dir, Unsent(t, d)' PROVE Unsent(t, d)
    <3>1. r.pc = "call" /\ d \in r.to..r.last
      BY <1>5, <1>7, <2>1 DEF Unsent
    <3>2. d \in e..th[t].last
      <4>1. e \in Int /\ th[t].last \in Int /\ d \in Int
        BY <1>1, <1>3 DEF Thr, Dir
      <4> QED
        BY <1>5, <3>1, <4>1
    <3> QED
      BY <1>1, <1>2, <3>2 DEF Unsent
  <2> QED
    BY <1>5, <1>7, <2>1, Conns DEF Unsent
<1>un. Unsent(t, e)
  <2>1. e \in Int /\ th[t].last \in Int
    BY <1>1, <1>3 DEF Thr, Dir
  <2>2. e \in e..th[t].last
    BY <1>3, <2>1
  <2> QED
    BY <1>1, <1>2, <2>2 DEF Unsent
<1>no. ~Unsent(t, e)'
  <2>1. e \in Int /\ th[t].last \in Int
    BY <1>1, <1>3 DEF Thr, Dir
  <2> QED
    BY <1>5, <1>7, <2>1 DEF Unsent
<1>g. ASSUME NEW x \in Req, NEW d \in Dir, x.app = t
      PROVE  Grew(sq[t], sq'[t], w, Sends(x, d))
             /\ (w \in Sends(x, d) <=> x = m /\ d = e)
             /\ (x = m /\ d = e => ~Sent(x, d) /\ ~Got(x, d))
  <2>1. FlowOK(x, d)
    BY <1>t DEF FlowInv
  <2>2. w \in Sends(x, d) <=> x = m /\ d = e
    BY <1>7 DEF Sends
  <2>3. x = m /\ d = e => ~Sent(x, d) /\ ~Got(x, d)
    BY <1>4, <1>un, <2>1 DEF FlowOK
  <2>4. PICK E : E = Sends(x, d)
    OBVIOUS
  <2>5. Unique(Places(sq[t], E)) /\ (w \in E => Places(sq[t], E) = {})
    BY <1>g, <2>1, <2>2, <2>3, <2>4 DEF FlowOK, Sent
  <2>6. Grew(sq[t], Append(sq[t], w), w, E)
    BY <1>1, <1>7, <2>5, OnceAppend
  <2> QED
    BY <1>7, <2>2, <2>3, <2>4, <2>6
<1>14. FlowInv'
  <2>1. ASSUME NEW x \in Req, NEW d \in Dir PROVE FlowOK(x, d)'
    <3>0. FlowOK(x, d) /\ x.app \in App /\ x.app \in Conn
      BY <1>t, Conns DEF FlowInv, Req, Msg
    <3>1. CASE x.app # t
      BY <1>7, <1>u, <3>0, <3>1, FlowFrame
    <3>2. CASE x.app = t
      <4>1. PICK E : E = Sends(x, d)
        OBVIOUS
      <4>2. /\ Unique(Places(sq'[t], E))
            /\ Places(sq'[t], E) # {} <=>
                  Places(sq[t], E) # {} \/ (x = m /\ d = e)
        BY <1>g, <3>2, <4>1 DEF Grew
      <4>3. /\ Unique(Places(sq[x.app], Sends(x, d)))'
            /\ Sent(x, d)' <=> Sent(x, d) \/ (x = m /\ d = e)
        <5>1. E = Sends(x, d)'
          BY <4>1 DEF Sends
        <5> QED
          BY <3>2, <4>1, <4>2, <5>1 DEF Sent
      <4>4. (Got(x, d)' <=> Got(x, d)) /\ Unique(Places(due[d], {x}))'
        BY <1>u, <3>0 DEF FlowOK, Got
      <4>5. ~(Sent(x, d) /\ Got(x, d))'
        BY <1>g, <3>0, <3>2, <4>3, <4>4 DEF FlowOK
      <4>6. CASE x = m /\ d = e
        <5>1. x.n = calls[t] /\ ~Unsent(t, d)' /\ x.n >= calls[t]
          BY <1>1, <1>4, <1>no, <4>6
        <5>2. x.type = "MALLOC" => At(t, "wait")' /\ d = th'[t].to
          BY <1>4, <1>5, <1>7, <4>6 DEF At
        <5> QED
          BY <1>u, <3>2, <4>3, <4>4, <4>5, <5>1, <5>2 DEF FlowOK
      <4>7. CASE ~(x = m /\ d = e)
        <5>1. ~At(x.app, "wait") /\ (Unsent(x.app, d)' => Unsent(x.app, d))
          BY <1>1, <1>w, <3>0, <3>2 DEF At
        <5> QED
          BY <1>u, <3>0, <4>3, <4>4, <4>5, <4>7, <5>1, FlowSame
      <4> QED
        BY <4>6, <4>7
    <3> QED
      BY <3>1, <3>2
  <2> QED
    BY <2>1 DEF FlowInv
<1>15. ReplyInv'
  <2>1. ASSUME NEW x \in App PROVE ReplyOK(x)'
    <3>0. ReplyOK(x) /\ x \in Conn
      BY <1>t, Conns DEF ReplyInv
    <3>1. CASE x # t
      <4>1. th'[x] = th[x] /\ sq'[x] = sq[x]
        BY <1>7, <3>0, <3>1
      <4>2. Asked(x)' => Asked(x)
        BY <1>u, <4>1 DEF Asked, Sent, Got, MyReq, Places, Sends
      <4>3. DirKept(x)
        BY <1>d, <1>u, <3>0, DirFrame
      <4> QED
        BY <1>u, <3>0, <4>1, <4>2, <4>3, ReplySame DEF DirKept
    <3>2. CASE x = t
      <4>1. Quiet(t)
        BY <1>1, <3>0, <3>2, QuietIf DEF At
      <4> QED
        BY <1>d, <1>u, <3>2, <4>1, QuietStays, ReplyQuiet
    <3> QED
      BY <3>1, <3>2
  <2> QED
    BY <2>1 DEF ReplyInv
<1>16. RootInv'
  <2>1. ASSUME NEW d \in Dir, NEW x \in Req, (Sent(x, d) \/ Got(x, d))'
        PROVE  \/ Sent(x, d) \/ Got(x, d) \/ x.type # "NEW_ROOT"
               \/ x \in Roots(d)
    <3>0. x.app \in App /\ x.app \in Conn
      BY Conns DEF Req, Msg
    <3>1. Got(x, d)' <=> Got(x, d)
      BY <1>u DEF Got, Places
    <3>2. CASE x.app # t
      BY <1>7, <2>1, <3>0, <3>1, <3>2 DEF Sent, Places, Sends
    <3>3. CASE x.app = t
      <4>0. PICK E : E = Sends(x, d) /\ E = Sends(x, d)'
        BY DEF Sends
      <4>1. Sent(x, d)' <=> Sent(x, d) \/ (x = m /\ d = e)
        <5>1. Places(sq'[t], E) # {} <=>
                Places(sq[t], E) # {} \/ (x = m /\ d = e)
          BY <1>g, <3>3, <4>0 DEF Grew
        <5> QED
          BY <3>3, <4>0, <5>1 DEF Sent
      <4>2. x = m /\ d = e /\ x.type = "NEW_ROOT" => x \in Roots(d)
        BY <1>4, <1>un, <3>3 DEF Roots
      <4> QED
        BY <2>1, <3>1, <4>1, <4>2
    <3> QED
      BY <3>2, <3>3
  <2> QED
    BY <1>t, <1>u, <1>w, <2>1, RootsKept
<1> QED
  BY <1>6, <1>10, <1>12, <1>13, <1>14, <1>15, <1>16 DEF RingInv

\* sendRawMessage of a directory: the answer is under way.
LEMMA DirSendStep ==
  ASSUME RingInv, NEW c \in Dir, sendRawMessage(c)
  PROVE  RingInv'
<1>t. /\ TypeOK /\ SendInv /\ RecvInv /\ LoadInv /\ FlowInv /\ ReplyInv
      /\ RootInv
  BY DEF RingInv
<1>c. c \in Conn /\ c \notin App
  BY Conns
<1>1. /\ th[c] \in Thr /\ th[c].pc = "send" /\ LoadDir(c)
      /\ sq[c] \in Seq(Send)
  BY <1>c, <1>t DEF sendRawMessage, At, TypeOK, LoadInv
<1>2. PICK m, u, r : m = sendPool[c][th[c].slot] /\ u = th[c].to
                     /\ r = AfterSend(c)
  OBVIOUS
<1>3. u \in App /\ m = MyReply(u)
  BY <1>1, <1>2 DEF LoadDir, At
<1>4. m \in Msg
  BY <1>3, <1>t DEF MyReply, Msg, Types, TypeOK
<1>5. r \in Thr /\ r.pc = "poll"
  <2>1. r = [th[c] EXCEPT !.pc = "poll"]
    BY <1>2 DEF AfterSend
  <2> QED
    BY <1>1, <2>1 DEF Thr, Pcs
<1>6. PICK w : Posted(c, w) /\ SendInv'
  <2>1. AfterSend(c).pc # "send" /\ sendPool[c][th[c].slot] \in Msg
    BY <1>2, <1>4, <1>5
  <2> QED
    BY <1>c, <1>t, <2>1, Posts
<1>u. /\ curSend' = curSend /\ sendPool' = sendPool
      /\ curMessage' = curMessage /\ messagePool' = messagePool /\ rq' = rq
      /\ cq' = cq /\ due' = due /\ next_target_node' = next_target_node
      /\ calls' = calls /\ roots' = roots
  BY <1>6 DEF Posted
<1>7. /\ w \in Send /\ w.to = u /\ w.m = m
      /\ sq'[c] = Append(sq[c], w) /\ th'[c] = r
      /\ \A x \in Conn : x # c => th'[x] = th[x] /\ sq'[x] = sq[x]
  BY <1>2, <1>6 DEF Posted, SendKept
<1>8. th' \in [Conn -> Thr]
  <2>1. th' = [th EXCEPT ![c] = r]
    BY <1>2 DEF sendRawMessage
  <2> QED
    BY <1>5, <1>c, <1>t, <2>1 DEF TypeOK
<1>a. \A t \in App : t # c /\ t \in Conn /\ th'[t] = th[t] /\ sq'[t] = sq[t]
  BY <1>7, <1>c, Conns
<1>10. TypeOK'
  <2>1. \A x \in App : th'[x].pc # "poll"
    BY <1>a, <1>t DEF TypeOK
  <2>2. \A x \in Dir : th'[x].pc \in {"poll", "handle", "send"}
    BY <1>5, <1>7, <1>t, Conns DEF TypeOK
  <2> QED
    BY <1>6, <1>8, <1>t, <1>u, <2>1, <2>2 DEF TypeOK, Posted
<1>12. RecvInv'
  <2>1. ASSUME NEW x \in Conn PROVE RecvC(x)'
    <3>1. RecvC(x) /\ RecvKept(x)
      BY <1>t, <1>u DEF RecvInv, RecvKept
    <3>2. th'[x] = th[x] \/ (th[x].pc # "handle" /\ th'[x].pc # "handle")
      BY <1>1, <1>5, <1>7
    <3> QED
      BY <3>1, <3>2, RecvSame
  <2> QED
    BY <2>1 DEF RecvInv
<1>13. LoadInv'
  <2>1. ASSUME NEW x \in App PROVE LoadApp(x)'
    BY <1>a, <1>t, <1>u, LoadAppSame DEF LoadInv
  <2>2. ASSUME NEW d \in Dir PROVE LoadDir(d)'
    <3>1. LoadDir(d) /\ sq[d] \in Seq(Send) /\ d \in Conn
      BY <1>t, Conns DEF LoadInv, TypeOK
    <3>2. CASE d # c
      BY <1>7, <1>u, <3>1, <3>2, LoadDirSame
    <3>3. CASE d = c
      <4>1. ASSUME NEW i \in DOMAIN sq'[c]
            PROVE  sq'[c][i].to \in App /\ sq'[c][i].m = MyReply(sq'[c][i].to)
        <5>1. (i \in DOMAIN sq[c] /\ sq'[c][i] = sq[c][i]) \/ sq'[c][i] = w
          BY <1>1, <1>7
        <5> QED
          BY <1>1, <1>3, <1>7, <5>1 DEF LoadDir
      <4>2. \A i \in DOMAIN due'[c] : due'[c][i].type # "REPLY"
        BY <1>1, <1>u DEF LoadDir
      <4>3. ~At(c, "send")'
        BY <1>5, <1>7 DEF At
      <4> QED
        BY <1>u, <3>3, <4>1, <4>2, <4>3 DEF LoadDir, MyReply
    <3> QED
      BY <3>2, <3>3
  <2> QED
    BY <2>1, <2>2 DEF LoadInv
<1>14. FlowInv'
  <2>1. ASSUME NEW x \in Req, NEW d \in Dir PROVE FlowOK(x, d)'
    <3>0. FlowOK(x, d) /\ x.app \in App
      BY <1>t DEF FlowInv, Req, Msg
    <3> QED
      BY <1>a, <1>u, <3>0, FlowFrame
  <2> QED
    BY <2>1 DEF FlowInv
<1>15. ReplyInv'
  <2>1. ASSUME NEW t \in App PROVE ReplyOK(t)'
    <3>0. ReplyOK(t) /\ th'[t] = th[t] /\ sq'[t] = sq[t]
      BY <1>a, <1>t DEF ReplyInv
    <3>1. Asked(t)' => Asked(t)
      BY <1>u, <3>0 DEF Asked, Sent, Got, MyReq, Places, Sends
    <3>2. ASSUME NEW d \in Dir
          PROVE  /\ Unique(Places(sq[d], To(t)))'
                 /\ ~(Sending(d, t) /\ Answered(d, t))'
                 /\ (Sending(d, t) \/ Answered(d, t))' =>
                      Sending(d, t) \/ Answered(d, t)
      <4>1. CASE d # c
        BY <1>7, <3>0, <4>1, Conns
           DEF ReplyOK, Unique, Places, To, Sending, Answered, At
      <4>2. CASE d = c
        <5>0. PICK E : E = To(t) /\ E = To(t)'
          BY DEF To
        <5>1. w \in E <=> t = u
          BY <1>7, <5>0 DEF To
        <5>2. w \in E => Sending(c, t) /\ Places(sq[c], E) = {}
          BY <1>1, <1>2, <3>0, <5>0, <5>1 DEF Sending, Answered, At, ReplyOK
        <5>3. Unique(Places(sq[c], E))
          BY <3>0, <5>0 DEF ReplyOK
        <5>4. Grew(sq[c], sq'[c], w, E)
          BY <1>1, <1>7, <5>2, <5>3, OnceAppend
        <5>5. ~Sending(c, t)'
          BY <1>5, <1>7 DEF Sending, At
        <5> QED
          BY <4>2, <5>0, <5>2, <5>4, <5>5 DEF Answered, Grew
      <4> QED
        BY <4>1, <4>2
    <3> QED
      BY <1>u, <3>0, <3>1, <3>2, ReplySame
  <2> QED
    BY <2>1 DEF ReplyInv
<1>16. RootInv'
  <2>1. \A d \in Dir, x \in Req : (Sent(x, d) \/ Got(x, d))' =>
                                   Sent(x, d) \/ Got(x, d)
    BY <1>a, <1>u DEF Sent, Got, Places, Sends, Req, Msg
  <2>2. \A d \in Dir, t \in App :
          Unsent(t, d)' => Unsent(t, d) /\ th'[t].type = th[t].type
    BY <1>a DEF Unsent
  <2> QED
    BY <1>t, <1>u, <2>1, <2>2, RootsKept
<1> QED
  BY <1>6, <1>10, <1>12, <1>13, <1>14, <1>15, <1>16 DEF RingInv

-----------------------------------------------------------------------------
(* The NIC sends a datagram.                                               *)

Moved(c, w) ==
  /\ w = Head(sq[c]) /\ sq[c] # <<>> /\ w \in Send /\ w.to \in Conn
  /\ sq'[c] = Tail(sq[c]) /\ \A x \in Conn : x # c => sq'[x] = sq[x]
  /\ due'[w.to] = Append(due[w.to], w.m)
  /\ \A x \in Conn : x # w.to => due'[x] = due[x]
  /\ sendPool' = sendPool /\ th' = th
  /\ calls' = calls /\ roots' = roots

\* Transmit: the datagram carries the message posted and finds a buffer.
LEMMA Moves ==
  ASSUME RingInv, Bearable, NEW c \in Conn, Transmit(c), ~Overruns(c)
  PROVE  \E w : Moved(c, w) /\ TypeOK' /\ SendInv' /\ RecvInv'
<1>t. TypeOK /\ SendInv /\ RecvInv
  BY DEF RingInv
<1>1. PICK w, d, m : w = Head(sq[c]) /\ d = w.to /\ m = w.m
  OBVIOUS
<1>2. sq[c] # <<>> /\ sq[c] \in Seq(Send)
  BY <1>t DEF Transmit, TypeOK
<1>3. /\ w \in Send /\ d \in Conn /\ m \in Msg /\ Tail(sq[c]) \in Seq(Send)
      /\ w.signal \in BOOLEAN
  BY <1>1, <1>2, HeadIs DEF Send
<1>4. rq[d] # <<>> /\ cq[d] + Handles(d) < messageNR[d]
  BY <1>1, <1>2, Room DEF Overruns
<1>5. PICK v : v = IF w.signal THEN send_cq[c] + 1 ELSE send_cq[c]
  OBVIOUS
<1>b. PICK N, S, b, q, p, k : /\ N = messageNR[c] /\ S = sendCounter[c]
        /\ b = Base(c) /\ q = sq[c] /\ p = sendPool[c] /\ k = send_cq[c]
  OBVIOUS
<1>bt. /\ N \in Nat \ {0} /\ S \in Nat /\ b \in 0..N-1 /\ q \in Seq(Send)
       /\ k \in Nat /\ SendOK(N, S, b, q, k, p)
  <2>1. SendC(c) /\ curSend[c] \in Slots(c)
    BY <1>t DEF SendInv, TypeOK
  <2>2. b \in Slots(c)
    BY <1>b, <2>1 DEF SendC, Base
  <2> QED
    BY <1>2, <1>b, <1>t, <2>1, <2>2, RingAssumption DEF TypeOK, SendC, Slots
<1>6. SendOK(N, S, b, Tail(q), v, p) /\ p[w.slot] = m
  <2>1. w = Head(q) /\ q # <<>> /\ v = IF Head(q).signal THEN k + 1 ELSE k
    BY <1>1, <1>2, <1>5, <1>b
  <2>2. SendOK(N, S, b, Tail(q), IF Head(q).signal THEN k + 1 ELSE k, p)
        /\ p[Head(q).slot] = Head(q).m
    BY <1>bt, <2>1, SendPop
  <2> QED
    BY <1>1, <2>1, <2>2
<1>7. /\ sq' = [sq EXCEPT ![c] = Tail(q)]
      /\ send_cq' = [send_cq EXCEPT ![c] = v]
      /\ messagePool' = [messagePool EXCEPT ![d][Head(rq[d])] = m]
      /\ rq' = [rq EXCEPT ![d] = Tail(rq[d])]
      /\ cq' = [cq EXCEPT ![d] = cq[d] + 1]
      /\ due' = [due EXCEPT ![d] = Append(due[d], m)]
      /\ sendCounter' = sendCounter /\ curSend' = curSend
      /\ sendPool' = sendPool /\ curMessage' = curMessage /\ th' = th
      /\ calls' = calls /\ roots' = roots
      /\ next_target_node' = next_target_node
  <2>1. sendPool[c][w.slot] = m
    BY <1>6, <1>b
  <2> QED
    BY <1>1, <1>4, <1>5, <1>b, <2>1 DEF Transmit, work
<1>8. /\ sq' \in [Conn -> Seq(Send)] /\ sq'[c] = Tail(q)
      /\ \A x \in Conn : x # c => sq'[x] = sq[x]
  BY <1>3, <1>7, <1>b, <1>t DEF TypeOK
<1>9. /\ send_cq' \in [Conn -> Nat] /\ send_cq'[c] = v
      /\ \A x \in Conn : x # c => send_cq'[x] = send_cq[x]
  <2>1. v \in Nat
    BY <1>5, <1>b, <1>bt
  <2> QED
    BY <1>7, <1>t, <2>1 DEF TypeOK
<1>10. PICK M, s, cur, r, kk, h, z, y, V :
        /\ M = messageNR[d] /\ s = subNR(d) /\ cur = curMessage[d]
        /\ r = rq[d] /\ kk = cq[d] /\ h = Handles(d) /\ z = due[d]
        /\ y = messagePool[d] /\ V = Msg \cup {Empty}
  OBVIOUS
<1>11. /\ M \in Nat \ {0} /\ s \in Nat \ {0} /\ cur \in 0..M-1
       /\ r \in Seq(Nat) /\ r # <<>> /\ kk \in Nat /\ h \in 0..1
       /\ z \in Seq(Msg) /\ y \in [0..M-1 -> V] /\ m \in V
       /\ kk + h < M
  <2>1. M \in Nat \ {0} /\ s \in Nat \ {0}
    BY <1>3, <1>10, Sizes
  <2>2. h \in 0..1
    BY <1>10 DEF Handles
  <2>3. /\ curMessage[d] \in Slots(d) /\ rq[d] \in Seq(Nat) /\ cq[d] \in Nat
        /\ due[d] \in Seq(Msg) /\ messagePool[d] \in Pool(d)
    BY <1>3, <1>t DEF TypeOK
  <2> QED
    BY <1>3, <1>4, <1>10, <2>1, <2>2, <2>3 DEF Slots, Pool
<1>12. RecvOK(M, s, cur, r, kk, h, z, y)
  BY <1>3, <1>10, <1>t DEF RecvInv, RecvC
<1>13. PICK g : g = [y EXCEPT ![Head(r)] = m]
  OBVIOUS
<1>14. /\ RecvOK(M, s, cur, Tail(r), kk + 1, h, Append(z, m), g)
       /\ Head(r) \in 0..M-1
  BY <1>3, <1>11, <1>12, <1>13, RecvArrive
<1>15. g \in Pool(d) /\ g \in Pools
  <2>1. g \in [0..M-1 -> V]
    BY <1>11, <1>13, <1>14
  <2> QED
    BY <1>3, <1>10, <2>1 DEF Pool, Pools, Slots
<1>16. /\ messagePool' \in [Conn -> Pools] /\ messagePool'[d] = g
       /\ \A x \in Conn : x # d => messagePool'[x] = messagePool[x]
       /\ \A x \in Conn : messagePool'[x] \in Pool(x)
  <2>1. messagePool' = [messagePool EXCEPT ![d] = g]
    BY <1>7, <1>10, <1>13
  <2> QED
    BY <1>3, <1>15, <1>t, <2>1 DEF TypeOK
<1>17. /\ rq' \in [Conn -> Seq(Nat)] /\ rq'[d] = Tail(r)
       /\ \A x \in Conn : x # d => rq'[x] = rq[x]
  <2>1. Tail(r) \in Seq(Nat)
    BY <1>11
  <2> QED
    BY <1>3, <1>7, <1>10, <1>t, <2>1 DEF TypeOK
<1>18. /\ cq' \in [Conn -> Nat] /\ cq'[d] = kk + 1
       /\ \A x \in Conn : x # d => cq'[x] = cq[x]
  <2>1. PICK kn \in Nat : kn = kk + 1
    BY <1>11
  <2>2. cq' = [cq EXCEPT ![d] = kn]
    BY <1>7, <1>10, <2>1
  <2>3. cq \in [Conn -> Nat]
    BY <1>t DEF TypeOK
  <2> QED
    BY <1>3, <2>1, <2>2, <2>3
<1>19. /\ due' \in [Conn -> Seq(Msg)] /\ due'[d] = Append(z, m)
       /\ \A x \in Conn : x # d => due'[x] = due[x]
  <2>1. Append(z, m) \in Seq(Msg)
    BY <1>3, <1>11
  <2> QED
    BY <1>3, <1>7, <1>10, <1>t, <2>1 DEF TypeOK
<1>20. TypeOK'
  BY <1>7, <1>8, <1>9, <1>16, <1>17, <1>18, <1>19, <1>t DEF TypeOK
<1>21. SendInv'
  <2>1. ASSUME NEW x \in Conn PROVE SendC(x)'
    <3>1. SendC(x)
      BY <1>t DEF SendInv
    <3>2. CASE x # c
      BY <1>7, <1>8, <1>9, <3>1, <3>2, SendSame DEF SendKept
    <3>3. CASE x = c
      <4>1. Base(c)' = Base(c)
        BY <1>7 DEF Base, At
      <4>2. SendOK(messageNR[c], sendCounter[c], Base(c), sq[c], send_cq[c],
                   sendPool[c])'
        BY <1>6, <1>7, <1>8, <1>9, <1>b, <4>1
      <4> QED
        BY <1>7, <3>1, <3>3, <4>2 DEF SendC, At
    <3> QED
      BY <3>2, <3>3
  <2> QED
    BY <2>1 DEF SendInv
<1>22. RecvInv'
  <2>1. ASSUME NEW x \in Conn PROVE RecvC(x)'
    <3>1. RecvC(x)
      BY <1>t DEF RecvInv
    <3>2. CASE x # d
      BY <1>7, <1>16, <1>17, <1>18, <1>19, <3>1, <3>2, RecvSame DEF RecvKept
    <3>3. CASE x = d
      <4>1. Handles(d)' = Handles(d)
        BY <1>7 DEF Handles, At
      <4>2. RecvOK(messageNR[d], subNR(d), curMessage[d], rq[d], cq[d],
                   Handles(d), due[d], messagePool[d])'
        BY <1>7, <1>10, <1>14, <1>16, <1>17, <1>18, <1>19, <4>1 DEF subNR
      <4> QED
        BY <1>7, <3>1, <3>3, <4>2 DEF RecvC, At
    <3> QED
      BY <3>2, <3>3
  <2> QED
    BY <2>1 DEF RecvInv
<1>23. Moved(c, w)
  BY <1>1, <1>2, <1>3, <1>7, <1>8, <1>10, <1>19, <1>b DEF Moved
<1> QED
  BY <1>20, <1>21, <1>22, <1>23

\* Transmit of a thread's request: what was sent to the directory it has got.
LEMMA AppMoveStep ==
  ASSUME RingInv, Bearable, NEW t \in App, Transmit(t), ~Overruns(t)
  PROVE  RingInv'
<1>t. /\ TypeOK /\ SendInv /\ RecvInv /\ LoadInv /\ FlowInv /\ ReplyInv
      /\ RootInv
  BY DEF RingInv
<1>c. t \in Conn /\ t \notin Dir
  BY Conns
<1>1. PICK w : Moved(t, w) /\ TypeOK' /\ SendInv' /\ RecvInv'
  BY <1>c, Moves
<1>2. PICK e, m : e = w.to /\ m = w.m
  OBVIOUS
<1>3. /\ w = Head(sq[t]) /\ sq[t] # <<>> /\ w \in Send
      /\ sq'[t] = Tail(sq[t]) /\ \A x \in Conn : x # t => sq'[x] = sq[x]
      /\ due'[e] = Append(due[e], m)
      /\ \A x \in Conn : x # e => due'[x] = due[x]
  BY <1>1, <1>2 DEF Moved
<1>u. /\ sendPool' = sendPool /\ th' = th /\ calls' = calls
      /\ roots' = roots
  BY <1>1 DEF Moved
<1>4. e \in Dir /\ m \in Req /\ m.app = t /\ Sent(m, e) /\ m.type # "REPLY"
  BY <1>2, <1>3, <1>c, HeadIs DEF Req
<1>5. sq[t] \in Seq(Send) /\ due[e] \in Seq(Msg) /\ m \in Msg /\ e \in Conn
  BY <1>4, <1>c, <1>t, Conns DEF TypeOK, Req
<1>d. \A d \in Dir : d \in Conn /\ sq'[d] = sq[d]
  BY <1>3, <1>c, Conns
<1>a. \A x \in App : x \in Conn /\ due'[x] = due[x]
  BY <1>3, <1>4, Conns
\* What was sent to a directory it has now got.
<1>6. ASSUME NEW x \in Req, NEW d \in Dir
      PROVE  /\ Unique(Places(sq[x.app], Sends(x, d)))'
             /\ Unique(Places(due[d], {x}))'
             /\ ~(Sent(x, d) /\ Got(x, d))'
             /\ (Sent(x, d) \/ Got(x, d))' <=> Sent(x, d) \/ Got(x, d)
  <2>0. FlowOK(x, d) /\ x.app \in App /\ x.app \in Conn
    BY <1>t, Conns DEF FlowInv, Req, Msg
  <2>1. PICK E : E = Sends(x, d) /\ E = Sends(x, d)'
    BY DEF Sends
  <2>2. /\ Unique(Places(sq[x.app], E)) /\ Unique(Places(due[d], {x}))
        /\ ~(Sent(x, d) /\ Got(x, d))
    BY <2>0, <2>1 DEF FlowOK
  <2>3. /\ Unique(Places(sq[x.app], E))'
        /\ x = m /\ d = e => Sent(x, d) /\ ~Sent(x, d)'
        /\ ~(x = m /\ d = e) => (Sent(x, d)' <=> Sent(x, d))
    <3>1. CASE x.app # t
      <4>1. sq'[x.app] = sq[x.app] /\ x # m
        BY <1>3, <1>4, <2>0, <3>1
      <4> QED
        BY <2>1, <2>2, <4>1 DEF Sent, Unique, Places
    <3>2. CASE x.app = t
      <4>1. w \in E <=> x = m /\ d = e
        BY <1>2, <1>3, <2>1 DEF Sends
      <4>2. Shrank(sq[t], Tail(sq[t]), E)
        BY <1>3, <1>5, <2>2, <3>2, OnceTail
      <4>3. /\ Unique(Places(sq'[t], E))
            /\ w \in E => Places(sq[t], E) # {} /\ Places(sq'[t], E) = {}
            /\ w \notin E => (Places(sq'[t], E) # {} <=> Places(sq[t], E) # {})
        BY <1>3, <4>2 DEF Shrank
      <4> QED
        BY <2>1, <3>2, <4>1, <4>3 DEF Sent
    <3> QED
      BY <3>1, <3>2
  <2>4. /\ Unique(Places(due[d], {x}))'
        /\ x = m /\ d = e => Got(x, d)'
        /\ ~(x = m /\ d = e) => (Got(x, d)' <=> Got(x, d))
    <3>1. CASE d # e
      <4>1. due'[d] = due[d]
        BY <1>3, <1>d, <3>1
      <4> QED
        BY <2>2, <3>1, <4>1 DEF Got
    <3>2. CASE d = e
      <4>1. PICK F : F = {x}
        OBVIOUS
      <4>2. Unique(Places(due[e], F)) /\ (m \in F <=> x = m)
        BY <2>2, <3>2, <4>1
      <4>3. m \in F => Places(due[e], F) = {}
        BY <1>4, <2>2, <3>2, <4>1, <4>2 DEF Got
      <4>4. Grew(due[e], Append(due[e], m), m, F)
        BY <1>5, <4>2, <4>3, OnceAppend
      <4> QED
        BY <1>3, <3>2, <4>1, <4>2, <4>4 DEF Grew, Got
    <3> QED
      BY <3>1, <3>2
  <2> QED
    BY <2>1, <2>2, <2>3, <2>4
<1>13. LoadInv'
  <2>1. ASSUME NEW x \in App PROVE LoadApp(x)'
    <3>0. LoadApp(x)
      BY <1>t DEF LoadInv
    <3>1. CASE x # t
      BY <1>3, <1>a, <1>u, <3>0, <3>1, LoadAppSame
    <3>2. CASE x = t
      <4>1. ASSUME NEW i \in DOMAIN sq'[t]
            PROVE  /\ sq'[t][i].m.app = t /\ sq'[t][i].to \in Dir
                   /\ sq'[t][i].m.type # "REPLY"
        <5>1. i + 1 \in DOMAIN sq[t] /\ sq'[t][i] = sq[t][i + 1]
          BY <1>3, <1>5
        <5> QED
          BY <3>0, <3>2, <5>1 DEF LoadApp
      <4> QED
        BY <1>u, <3>0, <3>2, <4>1 DEF LoadApp, At
    <3> QED
      BY <3>1, <3>2
  <2>2. ASSUME NEW d \in Dir PROVE LoadDir(d)'
    <3>1. LoadDir(d) /\ sq[d] \in Seq(Send) /\ d \in Conn
      BY <1>d, <1>t DEF LoadInv, TypeOK
    <3>2. CASE d # e
      BY <1>3, <1>d, <1>u, <3>1, <3>2, LoadDirSame
    <3>3. CASE d = e
      <4>1. ASSUME NEW i \in DOMAIN due'[e]
            PROVE  due'[e][i].type # "REPLY"
        <5>1. (i \in DOMAIN due[e] /\ due'[e][i] = due[e][i]) \/ due'[e][i] = m
          BY <1>3, <1>5
        <5> QED
          BY <1>4, <3>1, <3>3, <5>1 DEF LoadDir
      <4> QED
        BY <1>d, <1>u, <3>1, <3>3, <4>1 DEF LoadDir, At, MyReply
    <3> QED
      BY <3>2, <3>3
  <2> QED
    BY <2>1, <2>2 DEF LoadInv
<1>14. FlowInv'
  <2>1. ASSUME NEW x \in Req, NEW d \in Dir PROVE FlowOK(x, d)'
    <3>0. FlowOK(x, d)
      BY <1>t DEF FlowInv
    <3>1. /\ Unsent(x.app, d)' => Unsent(x.app, d)
          /\ At(x.app, "wait") => At(x.app, "wait")'
      BY <1>u DEF Unsent, At
    <3> QED
      BY <1>6, <1>u, <3>0, <3>1, FlowSame
  <2> QED
    BY <2>1 DEF FlowInv
<1>15. ReplyInv'
  <2>1. ASSUME NEW x \in App PROVE ReplyOK(x)'
    <3>0. ReplyOK(x) /\ calls[x] \in Nat /\ LoadApp(x)
      BY <1>t DEF ReplyInv, TypeOK, LoadInv
    <3>1. CASE due[x] = <<>> /\ ~\E d \in Dir : Sending(d, x) \/ Answered(d, x)
      <4>1. Quiet(x)
        BY <3>1 DEF Quiet
      <4> QED
        BY <1>a, <1>d, <1>u, <4>1, QuietStays, ReplyQuiet
    <3>2. CASE due[x] # <<>> \/ \E d \in Dir : Sending(d, x) \/ Answered(d, x)
      <4>1. ~Asked(x)
        BY <3>0, <3>2 DEF ReplyOK
      <4>2. ~Asked(x)'
        <5>1. CASE th[x].to \in Dir
          <6>1. MyReq(x) \in Req /\ MyReq(x)' = MyReq(x)
            BY <1>u, <3>0 DEF MyReq, Req, Msg, Types
          <6>2. PICK y \in Req, d \in Dir : y = MyReq(x) /\ d = th[x].to
            BY <5>1, <6>1
          <6>3. ~(Sent(y, d) \/ Got(y, d))
            BY <4>1, <6>2 DEF Asked
          <6>4. ~(Sent(y, d) \/ Got(y, d))'
            BY <1>6, <6>3
          <6>5. MyReq(x)' = y /\ th'[x].to = d
            BY <1>u, <6>1, <6>2
          <6> QED
            BY <6>4, <6>5 DEF Asked, Sent, Got
        <5>2. CASE th[x].to \notin Dir
          <6>1. ~Sent(MyReq(x), th[x].to)'
            <7>1. ASSUME NEW i \in DOMAIN sq'[x] PROVE sq'[x][i].to \in Dir
              BY <1>13, <7>1 DEF LoadInv, LoadApp
            <7>2. MyReq(x)'.app = x
              BY DEF MyReq
            <7> QED
              BY <1>u, <5>2, <7>1, <7>2 DEF Sent, Places, Sends
          <6>2. ~Got(MyReq(x), th[x].to)'
            <7>1. CASE th[x].to \in App
              <8>1. due'[th[x].to] = due[th[x].to]
                BY <1>a, <7>1
              <8>2. MyReq(x)' = MyReq(x) /\ ~Got(MyReq(x), th[x].to)
                BY <1>u, <4>1 DEF MyReq, Asked
              <8> QED
                BY <1>u, <8>1, <8>2 DEF Got
            <7>2. CASE th[x].to \notin App
              BY <1>a, <1>t, <5>2, <7>2 DEF TypeOK, Thr, Conn
            <7> QED
              BY <7>1, <7>2
          <6> QED
            BY <6>1, <6>2 DEF Asked
        <5> QED
          BY <5>1, <5>2
      <4>3. DirKept(x)
        BY <1>d, <1>u, <3>0, DirFrame
      <4> QED
        BY <1>a, <1>u, <3>0, <4>2, <4>3, ReplySame DEF DirKept
    <3> QED
      BY <3>1, <3>2
  <2> QED
    BY <2>1 DEF ReplyInv
<1>16. RootInv'
  <2>1. \A d \in Dir, x \in App :
          Unsent(x, d)' => Unsent(x, d) /\ th'[x].type = th[x].type
    BY <1>u DEF Unsent
  <2> QED
    BY <1>6, <1>t, <1>u, <2>1, RootsKept
<1> QED
  BY <1>1, <1>13, <1>14, <1>15, <1>16 DEF RingInv

\* Transmit of an answer: it is the only one that the thread has got.
LEMMA DirMoveStep ==
  ASSUME RingInv, Bearable, NEW c \in Dir, Transmit(c), ~Overruns(c)
  PROVE  RingInv'
<1>t. /\ TypeOK /\ SendInv /\ RecvInv /\ LoadInv /\ FlowInv /\ ReplyInv
      /\ RootInv
  BY DEF RingInv
<1>c. c \in Conn /\ c \notin App
  BY Conns
<1>1. PICK w : Moved(c, w) /\ TypeOK' /\ SendInv' /\ RecvInv'
  BY <1>c, Moves
<1>2. PICK t, m : t = w.to /\ m = w.m
  OBVIOUS
<1>3. /\ w = Head(sq[c]) /\ sq[c] # <<>> /\ w \in Send
      /\ sq'[c] = Tail(sq[c]) /\ \A x \in Conn : x # c => sq'[x] = sq[x]
      /\ due'[t] = Append(due[t], m)
      /\ \A x \in Conn : x # t => due'[x] = due[x]
  BY <1>1, <1>2 DEF Moved
<1>u. /\ sendPool' = sendPool /\ th' = th /\ calls' = calls
      /\ roots' = roots
  BY <1>1 DEF Moved
<1>4. t \in App /\ m = MyReply(t) /\ Answered(c, t)
  BY <1>2, <1>3, <1>c, HeadIs
<1>5. sq[c] \in Seq(Send)
  BY <1>c, <1>t DEF TypeOK
<1>d. \A d \in Dir : d \in Conn /\ due'[d] = due[d]
  BY <1>3, <1>4, Conns
<1>a. \A x \in App : x \in Conn /\ sq'[x] = sq[x]
  BY <1>3, <1>c, Conns
<1>13. LoadInv'
  <2>1. ASSUME NEW x \in App PROVE LoadApp(x)'
    BY <1>a, <1>t, <1>u, LoadAppSame DEF LoadInv
  <2>2. ASSUME NEW d \in Dir PROVE LoadDir(d)'
    <3>1. LoadDir(d) /\ sq[d] \in Seq(Send) /\ d \in Conn
      BY <1>d, <1>t DEF LoadInv, TypeOK
    <3>2. CASE d # c
      BY <1>3, <1>d, <1>u, <3>1, <3>2, LoadDirSame
    <3>3. CASE d = c
      <4>1. ASSUME NEW i \in DOMAIN sq'[c]
            PROVE  sq'[c][i].to \in App /\ sq'[c][i].m = MyReply(sq'[c][i].to)
        <5>1. i + 1 \in DOMAIN sq[c] /\ sq'[c][i] = sq[c][i + 1]
          BY <1>3, <1>5
        <5> QED
          BY <3>1, <3>3, <5>1 DEF LoadDir
      <4> QED
        BY <1>d, <1>u, <3>1, <3>3, <4>1 DEF LoadDir, At, MyReply
    <3> QED
      BY <3>2, <3>3
  <2> QED
    BY <2>1, <2>2 DEF LoadInv
<1>14. FlowInv'
  <2>1. ASSUME NEW x \in Req, NEW d \in Dir PROVE FlowOK(x, d)'
    <3>0. FlowOK(x, d) /\ x.app \in App
      BY <1>t DEF FlowInv, Req, Msg
    <3> QED
      BY <1>a, <1>d, <1>u, <3>0, FlowFrame
  <2> QED
    BY <2>1 DEF FlowInv
<1>6. ASSUME NEW x \in App, NEW d \in Dir
      PROVE  /\ Unique(Places(sq[d], To(x)))'
             /\ Sending(d, x)' <=> Sending(d, x)
             /\ Answered(d, x)' => Answered(d, x) /\ ~(d = c /\ x = t)
  <2>0. ReplyOK(x) /\ (Sending(d, x)' <=> Sending(d, x))
    BY <1>t, <1>u DEF ReplyInv, Sending, At
  <2>1. PICK E : E = To(x) /\ E = To(x)'
    BY DEF To
  <2>2. Unique(Places(sq[d], E))
    BY <2>0, <2>1 DEF ReplyOK
  <2>3. CASE d # c
    <3>1. sq'[d] = sq[d]
      BY <1>3, <1>d, <2>3
    <3> QED
      BY <2>0, <2>1, <2>2, <2>3, <3>1 DEF Answered
  <2>4. CASE d = c
    <3>1. w \in E <=> x = t
      BY <1>2, <1>3, <2>1 DEF To
    <3>2. Shrank(sq[c], Tail(sq[c]), E)
      BY <1>3, <1>5, <2>2, <2>4, OnceTail
    <3>3. /\ Unique(Places(sq'[c], E))
          /\ w \in E => Places(sq'[c], E) = {}
          /\ w \notin E => (Places(sq'[c], E) # {} <=> Places(sq[c], E) # {})
      BY <1>3, <3>2 DEF Shrank
    <3> QED
      BY <2>0, <2>1, <2>4, <3>1, <3>3 DEF Answered
  <2> QED
    BY <2>3, <2>4
<1>15. ReplyInv'
  <2>1. ASSUME NEW x \in App PROVE ReplyOK(x)'
    <3>0. ReplyOK(x)
      BY <1>t DEF ReplyInv
    <3>1. CASE x # t
      <4>1. due'[x] = due[x]
        BY <1>3, <1>a, <3>1
      <4>2. Asked(x)' => Asked(x)
        <5>1. PICK y, d : y = MyReq(x) /\ d = th[x].to /\ y = MyReq(x)'
          BY <1>u DEF MyReq
        <5>2. Sent(y, d)' => Sent(y, d)
          <6>1. y.app = x
            BY <5>1 DEF MyReq
          <6> QED
            BY <1>a, <6>1 DEF Sent, Sends, Places
        <5>3. Got(y, d)' => Got(y, d)
          <6>1. CASE d = t
            <7>1. ASSUME NEW i \in Places(due'[t], {y}) PROVE FALSE
              <8>1. due[t] = <<>>
                BY <1>4, <1>t DEF ReplyInv, ReplyOK
              <8>2. due'[t][i] = m
                BY <1>3, <8>1 DEF Places
              <8> QED
                BY <1>4, <5>1, <8>2 DEF Places, MyReq, MyReply
            <7> QED
              BY <6>1, <7>1 DEF Got
          <6>2. CASE d # t
            <7>1. d \in Conn
              BY <1>a, <1>t, <5>1 DEF TypeOK, Thr
            <7> QED
              BY <1>3, <6>2, <7>1 DEF Got
          <6> QED
            BY <6>1, <6>2
        <5> QED
          BY <1>u, <5>1, <5>2, <5>3 DEF Asked, Sent, Got
      <4> QED
        <5>1. ASSUME NEW d \in Dir
              PROVE  /\ Unique(Places(sq[d], To(x)))'
                     /\ ~(Sending(d, x) /\ Answered(d, x))'
                     /\ (Sending(d, x) \/ Answered(d, x))' =>
                          Sending(d, x) \/ Answered(d, x)
          BY <1>6, <3>0 DEF ReplyOK
        <5> QED
          BY <1>u, <3>0, <4>1, <4>2, <5>1, ReplySame
    <3>2. CASE x = t
      <4>1. /\ At(t, "wait") /\ c = th[t].to /\ ~Asked(t) /\ due[t] = <<>>
            /\ ~Sending(c, t)
        BY <1>4, <3>0, <3>2 DEF ReplyOK
      <4>2. \A d \in Dir : ~Sending(d, t)' /\ ~Answered(d, t)'
        BY <1>6, <3>0, <3>2, <4>1 DEF ReplyOK
      <4>3. due'[t] = <<m>>
        BY <1>3, <4>1
      <4>4. Len(due'[t]) = 1 /\ due'[t][1] = MyReply(t)'
        BY <1>4, <1>u, <4>3 DEF MyReply
      <4>5. ~Asked(t)'
        <5>1. MyReq(t)' = MyReq(t) /\ MyReq(t).app = t
          BY <1>u DEF MyReq
        <5>2. sq'[t] = sq[t] /\ due'[c] = due[c]
          BY <1>a, <1>d, <3>2
        <5> QED
          BY <1>u, <4>1, <5>1, <5>2 DEF Asked, Sent, Got, Places, Sends
      <4>6. \A d \in Dir : Unique(Places(sq[d], To(t)))'
        BY <1>6, <3>2
      <4> QED
        BY <1>u, <3>2, <4>1, <4>2, <4>4, <4>5, <4>6 DEF ReplyOK, At
    <3> QED
      BY <3>1, <3>2
  <2> QED
    BY <2>1 DEF ReplyInv
<1>16. RootInv'
  <2>1. \A d \in Dir, x \in App :
          Unsent(x, d)' => Unsent(x, d) /\ th'[x].type = th[x].type
    BY <1>u DEF Unsent
  <2>2. \A d \in Dir, x \in Req : (Sent(x, d) \/ Got(x, d))' =>
                                   Sent(x, d) \/ Got(x, d)
    BY <1>a, <1>d DEF Sent, Got, Places, Sends, Req, Msg
  <2> QED
    BY <1>t, <1>u, <2>1, <2>2, RootsKept
<1> QED
  BY <1>1, <1>13, <1>14, <1>15, <1>16 DEF RingInv

\* What is left of a datagram that found no buffer.
Lost(c) ==
  /\ sq[c] # <<>> /\ sq[c] \in Seq(Send) /\ c \in App
  /\ sq'[c] = Tail(sq[c]) /\ \A x \in Conn : x # c => sq'[x] = sq[x]
  /\ due' = due /\ sendPool' = sendPool /\ th' = th
  /\ calls' = calls /\ roots' = roots

\* Transmit of a request to a directory that has no buffer posted.
LEMMA Loses ==
  ASSUME RingInv, NEW c \in Conn, Transmit(c), Overruns(c)
  PROVE  Lost(c) /\ TypeOK' /\ SendInv' /\ RecvInv'
<1>t. TypeOK /\ SendInv /\ RecvInv
  BY DEF RingInv
<1>1. PICK w, d : w = Head(sq[c]) /\ d = w.to
  OBVIOUS
<1>2. sq[c] # <<>> /\ sq[c] \in Seq(Send) /\ rq[d] = <<>>
  BY <1>1, <1>t DEF Overruns, TypeOK
<1>3. w \in Send /\ Tail(sq[c]) \in Seq(Send) /\ w.signal \in BOOLEAN
  BY <1>1, <1>2, HeadIs DEF Send
<1>4. c \in App
  <2>1. d \in Dir
    BY <1>1, RoomOutsideBatch
  <2> QED
    BY <1>1, <1>2, <2>1, HeadIs, Conns DEF Conn
<1>5. PICK v : v = IF w.signal THEN send_cq[c] + 1 ELSE send_cq[c]
  OBVIOUS
<1>b. PICK N, S, b, q, p, k : /\ N = messageNR[c] /\ S = sendCounter[c]
        /\ b = Base(c) /\ q = sq[c] /\ p = sendPool[c] /\ k = send_cq[c]
  OBVIOUS
<1>bt. /\ N \in Nat \ {0} /\ S \in Nat /\ b \in 0..N-1 /\ q \in Seq(Send)
       /\ k \in Nat /\ SendOK(N, S, b, q, k, p)
  <2>1. SendC(c) /\ curSend[c] \in Slots(c)
    BY <1>t DEF SendInv, TypeOK
  <2>2. b \in Slots(c)
    BY <1>b, <2>1 DEF SendC, Base
  <2> QED
    BY <1>2, <1>b, <1>t, <2>1, <2>2, RingAssumption DEF TypeOK, SendC, Slots
<1>6. SendOK(N, S, b, Tail(q), v, p)
  <2>1. w = Head(q) /\ q # <<>> /\ v = IF Head(q).signal THEN k + 1 ELSE k
    BY <1>1, <1>2, <1>5, <1>b
  <2>2. SendOK(N, S, b, Tail(q), IF Head(q).signal THEN k + 1 ELSE k, p)
    BY <1>bt, <2>1, SendPop
  <2> QED
    BY <2>1, <2>2
<1>7. /\ sq' = [sq EXCEPT ![c] = Tail(q)]
      /\ send_cq' = [send_cq EXCEPT ![c] = v]
      /\ messagePool' = messagePool /\ rq' = rq /\ cq' = cq /\ due' = due
      /\ sendCounter' = sendCounter /\ curSend' = curSend
      /\ sendPool' = sendPool /\ curMessage' = curMessage /\ th' = th
      /\ calls' = calls /\ roots' = roots
      /\ next_target_node' = next_target_node
  BY <1>1, <1>2, <1>5, <1>b DEF Transmit, work
<1>8. /\ sq' \in [Conn -> Seq(Send)] /\ sq'[c] = Tail(q)
      /\ \A x \in Conn : x # c => sq'[x] = sq[x]
  BY <1>3, <1>7, <1>b, <1>t DEF TypeOK
<1>9. /\ send_cq' \in [Conn -> Nat] /\ send_cq'[c] = v
      /\ \A x \in Conn : x # c => send_cq'[x] = send_cq[x]
  <2>1. v \in Nat
    BY <1>5, <1>b, <1>bt
  <2> QED
    BY <1>7, <1>t, <2>1 DEF TypeOK
<1>10. TypeOK'
  BY <1>7, <1>8, <1>9, <1>t DEF TypeOK
<1>11. SendInv'
  <2>1. ASSUME NEW x \in Conn PROVE SendC(x)'
    <3>1. SendC(x)
      BY <1>t DEF SendInv
    <3>2. CASE x # c
      BY <1>7, <1>8, <1>9, <3>1, <3>2, SendSame DEF SendKept
    <3>3. CASE x = c
      <4>1. Base(c)' = Base(c)
        BY <1>7 DEF Base, At
      <4>2. SendOK(messageNR[c], sendCounter[c], Base(c), sq[c], send_cq[c],
                   sendPool[c])'
        BY <1>6, <1>7, <1>8, <1>9, <1>b, <4>1
      <4> QED
        BY <1>7, <3>1, <3>3, <4>2 DEF SendC, At
    <3> QED
      BY <3>2, <3>3
  <2> QED
    BY <2>1 DEF SendInv
<1>12. RecvInv'
  BY <1>7, <1>t, RecvSame DEF RecvInv, RecvKept
<1>13. Lost(c)
  BY <1>2, <1>4, <1>7, <1>8, <1>b DEF Lost
<1> QED
  BY <1>10, <1>11, <1>12, <1>13

\* A request that is lost is no longer under way; nothing else changes.
LEMMA LossStep ==
  ASSUME RingInv, NEW t \in Conn, Transmit(t), Overruns(t)
  PROVE  RingInv'
<1>t. /\ TypeOK /\ SendInv /\ RecvInv /\ LoadInv /\ FlowInv /\ ReplyInv
      /\ RootInv
  BY DEF RingInv
<1>1. Lost(t) /\ TypeOK' /\ SendInv' /\ RecvInv'
  BY Loses
<1>3. /\ sq[t] # <<>> /\ sq[t] \in Seq(Send) /\ t \in App
      /\ sq'[t] = Tail(sq[t]) /\ \A x \in Conn : x # t => sq'[x] = sq[x]
      /\ due' = due
  BY <1>1 DEF Lost
<1>u. /\ sendPool' = sendPool /\ th' = th /\ calls' = calls
      /\ roots' = roots
  BY <1>1 DEF Lost
<1>d. \A d \in Dir : d \in Conn /\ sq'[d] = sq[d] /\ due'[d] = due[d]
  BY <1>3, Conns
<1>a. \A x \in App : x \in Conn /\ due'[x] = due[x]
  BY <1>3, Conns
<1>6. ASSUME NEW x \in Msg, NEW d
      PROVE  /\ Unique(Places(sq[x.app], Sends(x, d))) =>
                  /\ Unique(Places(sq[x.app], Sends(x, d)))'
                  /\ Sent(x, d)' => Sent(x, d)
             /\ Places(due[d], {x})' = Places(due[d], {x})
             /\ Got(x, d)' <=> Got(x, d)
  <2>0. x.app \in App /\ x.app \in Conn
    BY Conns DEF Msg
  <2>1. PICK E : E = Sends(x, d) /\ E = Sends(x, d)'
    BY DEF Sends
  <2>2. ASSUME Unique(Places(sq[x.app], E))
        PROVE  Unique(Places(sq[x.app], E))' /\ (Sent(x, d)' => Sent(x, d))
    <3>1. CASE x.app # t
      <4>1. sq'[x.app] = sq[x.app]
        BY <1>3, <2>0, <3>1
      <4> QED
        BY <2>1, <2>2, <4>1 DEF Sent, Unique, Places
    <3>2. CASE x.app = t
      <4>1. Shrank(sq[t], Tail(sq[t]), E)
        BY <1>3, <2>2, <3>2, OnceTail
      <4>2. /\ Unique(Places(sq'[t], E))
            /\ Places(sq'[t], E) # {} => Places(sq[t], E) # {}
        BY <1>3, <4>1 DEF Shrank
      <4> QED
        BY <2>1, <3>2, <4>2 DEF Sent
    <3> QED
      BY <3>1, <3>2
  <2>3. Places(due[d], {x})' = Places(due[d], {x})
    BY <1>3 DEF Places
  <2> QED
    BY <2>1, <2>2, <2>3 DEF Got
<1>13. LoadInv'
  <2>1. ASSUME NEW x \in App PROVE LoadApp(x)'
    <3>0. LoadApp(x)
      BY <1>t DEF LoadInv
    <3>1. CASE x # t
      BY <1>3, <1>a, <1>u, <3>0, <3>1, LoadAppSame
    <3>2. CASE x = t
      <4>1. ASSUME NEW i \in DOMAIN sq'[t]
            PROVE  /\ sq'[t][i].m.app = t /\ sq'[t][i].to \in Dir
                   /\ sq'[t][i].m.type # "REPLY"
        <5>1. i + 1 \in DOMAIN sq[t] /\ sq'[t][i] = sq[t][i + 1]
          BY <1>3
        <5> QED
          BY <3>0, <3>2, <5>1 DEF LoadApp
      <4> QED
        BY <1>u, <3>0, <3>2, <4>1 DEF LoadApp, At
    <3> QED
      BY <3>1, <3>2
  <2>2. ASSUME NEW d \in Dir PROVE LoadDir(d)'
    <3>1. LoadDir(d) /\ sq[d] \in Seq(Send)
      BY <1>d, <1>t DEF LoadInv, TypeOK
    <3> QED
      BY <1>d, <1>u, <3>1, LoadDirSame
  <2> QED
    BY <2>1, <2>2 DEF LoadInv
<1>14. FlowInv'
  <2>1. ASSUME NEW x \in Req, NEW d \in Dir PROVE FlowOK(x, d)'
    <3>0. FlowOK(x, d) /\ x \in Msg
      BY <1>t DEF FlowInv, Req
    <3>1. /\ Unsent(x.app, d)' => Unsent(x.app, d)
          /\ At(x.app, "wait") => At(x.app, "wait")'
      BY <1>u DEF Unsent, At
    <3>2. /\ Unique(Places(sq[x.app], Sends(x, d)))'
          /\ Unique(Places(due[d], {x}))'
          /\ Sent(x, d)' => Sent(x, d)
          /\ Got(x, d)' <=> Got(x, d)
          /\ ~(Sent(x, d) /\ Got(x, d))
      BY <1>6, <3>0 DEF FlowOK, Unique
    <3> QED
      BY <1>u, <3>0, <3>1, <3>2, FlowSame
  <2> QED
    BY <2>1 DEF FlowInv
<1>15. ReplyInv'
  <2>1. ASSUME NEW x \in App PROVE ReplyOK(x)'
    <3>0. ReplyOK(x)
      BY <1>t DEF ReplyInv
    <3>1. Asked(x)' => Asked(x)
      <4>1. PICK y, d : y = MyReq(x) /\ d = th[x].to /\ y = MyReq(x)'
        BY <1>u DEF MyReq
      <4>2. y.app = x
        BY <4>1 DEF MyReq
      <4>3. Got(y, d)' => Got(y, d)
        BY <1>3 DEF Got, Places
      <4>4. Sent(y, d)' => Sent(y, d)
        <5>1. CASE x # t
          <6>1. sq'[x] = sq[x]
            BY <1>3, <1>a, <5>1
          <6> QED
            BY <4>2, <6>1 DEF Sent, Places, Sends
        <5>2. CASE x = t
          <6>1. ASSUME NEW i \in Places(sq'[t], Sends(y, d))
                PROVE  i + 1 \in Places(sq[t], Sends(y, d))
            <7>1. i + 1 \in DOMAIN sq[t] /\ sq'[t][i] = sq[t][i + 1]
              BY <1>3 DEF Places
            <7> QED
              BY <7>1 DEF Places
          <6> QED
            BY <4>2, <5>2, <6>1 DEF Sent, Sends
        <5> QED
          BY <5>1, <5>2
      <4> QED
        BY <1>u, <4>1, <4>3, <4>4 DEF Asked, Sent, Got
    <3>2. DirKept(x)
      BY <1>d, <1>u, <3>0, DirFrame
    <3> QED
      BY <1>a, <1>u, <3>0, <3>1, <3>2, ReplySame DEF DirKept
  <2> QED
    BY <2>1 DEF ReplyInv
<1>16. RootInv'
  <2>1. \A d \in Dir, x \in App :
          Unsent(x, d)' => Unsent(x, d) /\ th'[x].type = th[x].type
    BY <1>u DEF Unsent
  <2>2. ASSUME NEW d \in Dir, NEW x \in Req, (Sent(x, d) \/ Got(x, d))'
        PROVE  Sent(x, d) \/ Got(x, d)
    <3>1. FlowOK(x, d) /\ x \in Msg
      BY <1>t DEF FlowInv, Req
    <3> QED
      BY <1>6, <2>2, <3>1 DEF FlowOK
  <2> QED
    BY <1>t, <1>u, <2>1, <2>2, RootsKept
<1> QED
  BY <1>1, <1>13, <1>14, <1>15, <1>16 DEF RingInv

-----------------------------------------------------------------------------
(* A message is taken.                                                     *)

Taken(c) ==
  /\ th' \in [Conn -> Thr] /\ th'[c].pc = "handle" /\ th'[c].to = th[c].to
  /\ \A x \in Conn : x # c => th'[x] = th[x]
  /\ sendCounter' = sendCounter /\ curSend' = curSend /\ sendPool' = sendPool
  /\ sq' = sq /\ send_cq' = send_cq /\ due' = due
  /\ calls' = calls /\ roots' = roots
  /\ due[c] # <<>>

\* getMessage: the rings after the oldest message is taken.
LEMMA Takes ==
  ASSUME RingInv, NEW c \in Conn, getMessage(c)
  PROVE  Taken(c) /\ TypeOK' /\ SendInv' /\ RecvInv'
<1>t. TypeOK /\ SendInv /\ RecvInv
  BY DEF RingInv
<1>1. PICK cur, N, x, r, k, z, y :
        /\ cur = curMessage[c] /\ N = messageNR[c] /\ x = AddRound(cur, N)
        /\ r = rq[c] /\ k = cq[c] /\ y = k - 1
        /\ z = IF BatchDone(c, x) THEN r \o Batch(c, DoneBatch(c, x)) ELSE r
  OBVIOUS
<1>2. /\ cur \in 0..N-1 /\ r \in Seq(Nat) /\ k \in Nat \ {0} /\ N \in Nat \ {0}
      /\ y \in Nat /\ th[c] \in Thr /\ cur \in Nat
      /\ th[c].pc = IF c \in Dir THEN "poll" ELSE "wait"
  <2>1. curMessage[c] \in Slots(c) /\ rq[c] \in Seq(Nat) /\ th[c] \in Thr
    BY <1>t DEF TypeOK
  <2>2. k \in Nat /\ k > 0
    BY <1>1, <1>t DEF TypeOK, getMessage
  <2>3. N \in Nat \ {0}
    BY <1>1, Sizes
  <2>4. th[c].pc = IF c \in Dir THEN "poll" ELSE "wait"
    BY DEF getMessage, At
  <2>5. y \in Nat /\ k \in Nat \ {0}
    BY <1>1, <2>2
  <2> QED
    BY <1>1, <2>1, <2>3, <2>4, <2>5 DEF Slots
<1>3. PICK h : h = [th[c] EXCEPT !.pc = "handle", !.slot = cur]
  OBVIOUS
<1>4. /\ h \in Thr /\ h.pc = "handle" /\ h.slot = cur /\ h.to = th[c].to
  BY <1>2, <1>3 DEF Thr, Pcs
<1>5. /\ cq' = [cq EXCEPT ![c] = y]
      /\ curMessage' = [curMessage EXCEPT ![c] = x]
      /\ th' = [th EXCEPT ![c] = h]
      /\ messagePool' = messagePool /\ due' = due
      /\ sendCounter' = sendCounter /\ curSend' = curSend
      /\ sendPool' = sendPool /\ sq' = sq /\ send_cq' = send_cq
      /\ calls' = calls /\ roots' = roots
      /\ next_target_node' = next_target_node
  BY <1>1, <1>3, <1>t DEF getMessage, send, work, TypeOK
<1>6. rq' = [rq EXCEPT ![c] = z]
  <2>1. CASE BatchDone(c, x)
    BY <1>1, <2>1 DEF getMessage
  <2>2. CASE ~BatchDone(c, x)
    <3>1. rq' = rq /\ z = rq[c]
      BY <1>1, <2>2 DEF getMessage
    <3> QED
      BY <1>t, <3>1 DEF TypeOK
  <2> QED
    BY <2>1, <2>2
<1>7. RecvOK(N, subNR(c), cur, r, k, 0, due[c], messagePool[c])
  <2>1. RecvC(c) /\ Handles(c) = 0
    BY <1>2, <1>t DEF RecvInv, Handles, At
  <2> QED
    BY <1>1, <2>1 DEF RecvC
<1>8. /\ RecvOK(N, subNR(c), x, z, y, 1, due[c], messagePool[c])
      /\ cur = Fwd(x, -1, N) /\ z \in Seq(Nat) /\ x \in 0..N-1
  <2>1. PICK d, pl : d = due[c] /\ pl = messagePool[c]
    OBVIOUS
  <2>2. RecvOK(N, subNR(c), cur, r, k, 0, d, pl)
    BY <1>7, <2>1
  <2>3. /\ RecvOK(messageNR[c], subNR(c), x, z, k - 1, 1, d, pl)
        /\ cur = Fwd(x, -1, messageNR[c])
        /\ z \in Seq(Nat) /\ x \in 0..messageNR[c]-1
    <3>1. /\ RecvOK(messageNR[c], subNR(c), cur, r, k, 0, d, pl)
          /\ cur \in 0..messageNR[c]-1 /\ r \in Seq(Nat)
          /\ k \in Nat \ {0} /\ x = AddRound(cur, messageNR[c])
      BY <1>1, <1>2, <2>2
    <3>2. z = IF BatchDone(c, x) THEN r \o Batch(c, DoneBatch(c, x)) ELSE r
      BY <1>1
    <3> QED
      BY <3>1, <3>2, RecvTake
  <2> QED
    BY <1>1, <2>1, <2>3
<1>9. /\ th' \in [Conn -> Thr] /\ th'[c] = h
      /\ \A v \in Conn : v # c => th'[v] = th[v]
  BY <1>4, <1>5, <1>t DEF TypeOK
<1>10. /\ rq' \in [Conn -> Seq(Nat)] /\ rq'[c] = z
       /\ \A v \in Conn : v # c => rq'[v] = rq[v]
  BY <1>6, <1>8, <1>t DEF TypeOK
<1>11. /\ cq' \in [Conn -> Nat] /\ cq'[c] = y
       /\ \A v \in Conn : v # c => cq'[v] = cq[v]
  BY <1>2, <1>5, <1>t DEF TypeOK
<1>12. /\ curMessage' \in [Conn -> Nat] /\ curMessage'[c] = x
       /\ \A v \in Conn : v # c => curMessage'[v] = curMessage[v]
       /\ \A v \in Conn : curMessage'[v] \in Slots(v)
  <2>1. x \in Nat /\ x \in Slots(c)
    BY <1>1, <1>2, <1>8 DEF Slots
  <2> QED
    BY <1>5, <1>t, <2>1 DEF TypeOK
<1>13. TypeOK'
  <2>1. \A v \in App : th'[v].pc # "poll"
    BY <1>4, <1>9, <1>t, Conns DEF TypeOK
  <2>2. \A v \in Dir : th'[v].pc \in {"poll", "handle", "send"}
    BY <1>4, <1>9, <1>t, Conns DEF TypeOK
  <2> QED
    BY <1>5, <1>9, <1>10, <1>11, <1>12, <1>t, <2>1, <2>2 DEF TypeOK
<1>14. SendInv'
  <2>1. ASSUME NEW v \in Conn PROVE SendC(v)'
    <3>1. SendC(v) /\ SendKept(v)
      BY <1>5, <1>t DEF SendInv, SendKept
    <3>2. th'[v] = th[v] \/ (th[v].pc # "send" /\ th'[v].pc # "send")
      BY <1>2, <1>4, <1>9
    <3> QED
      BY <3>1, <3>2, SendSame
  <2> QED
    BY <2>1 DEF SendInv
<1>15. RecvInv'
  <2>1. ASSUME NEW v \in Conn PROVE RecvC(v)'
    <3>1. RecvC(v)
      BY <1>t DEF RecvInv
    <3>2. CASE v # c
      BY <1>5, <1>9, <1>10, <1>11, <1>12, <3>1, <3>2, RecvSame DEF RecvKept
    <3>3. CASE v = c
      <4>1. Handles(c)' = 1 /\ th'[c].slot = Fwd(curMessage'[c], -1, N)
        BY <1>4, <1>8, <1>9, <1>12 DEF Handles, At
      <4>2. RecvOK(messageNR[c], subNR(c), curMessage[c], rq[c], cq[c],
                   Handles(c), due[c], messagePool[c])'
        BY <1>1, <1>5, <1>8, <1>10, <1>11, <1>12, <4>1 DEF subNR
      <4> QED
        BY <1>1, <3>3, <4>1, <4>2 DEF RecvC
    <3> QED
      BY <3>2, <3>3
  <2> QED
    BY <2>1 DEF RecvInv
<1>16. due[c] # <<>>
  <2>1. Len(due[c]) = k + 0
    BY <1>7 DEF RecvOK
  <2> QED
    BY <1>2, <2>1
<1>17. Taken(c)
  BY <1>4, <1>5, <1>9, <1>16 DEF Taken
<1> QED
  BY <1>13, <1>14, <1>15, <1>17

\* getMessage: a thread that takes its answer has asked nothing else.
LEMMA TakeStep ==
  ASSUME RingInv, NEW c \in Conn, getMessage(c)
  PROVE  RingInv'
<1>t. /\ TypeOK /\ SendInv /\ RecvInv /\ LoadInv /\ FlowInv /\ ReplyInv
      /\ RootInv
  BY DEF RingInv
<1>1. Taken(c) /\ TypeOK' /\ SendInv' /\ RecvInv'
  BY Takes
<1>2. /\ th[c].pc = IF c \in Dir THEN "poll" ELSE "wait"
      /\ th'[c].pc = "handle" /\ th'[c].to = th[c].to
  BY <1>1 DEF getMessage, At, Taken
<1>u. /\ sendPool' = sendPool /\ sq' = sq /\ due' = due
      /\ calls' = calls /\ roots' = roots
      /\ \A x \in Conn : x # c => th'[x] = th[x]
  BY <1>1 DEF Taken
<1>d. \A d \in Dir : sq'[d] = sq[d] /\ (th'[d] = th[d] \/ th'[d].pc # "send")
  BY <1>2, <1>u, Conns
<1>13. LoadInv'
  <2>1. ASSUME NEW x \in App PROVE LoadApp(x)'
    <3>0. LoadApp(x) /\ x \in Conn
      BY <1>t, Conns DEF LoadInv
    <3>1. CASE x # c
      BY <1>u, <3>0, <3>1, LoadAppSame
    <3>2. CASE x = c
      BY <1>2, <1>u, <3>0, <3>2 DEF LoadApp, At
    <3> QED
      BY <3>1, <3>2
  <2>2. ASSUME NEW d \in Dir PROVE LoadDir(d)'
    <3>0. LoadDir(d) /\ d \in Conn /\ sq[d] \in Seq(Send)
      BY <1>t, Conns DEF LoadInv, TypeOK
    <3>1. CASE d # c
      BY <1>u, <3>0, <3>1, LoadDirSame
    <3>2. CASE d = c
      BY <1>2, <1>u, <3>0, <3>2 DEF LoadDir, At, MyReply
    <3> QED
      BY <3>1, <3>2
  <2> QED
    BY <2>1, <2>2 DEF LoadInv
<1>n. ASSUME c \in App PROVE ~Asked(c) /\ th[c].pc = "wait"
  <2>1. ReplyOK(c) /\ due[c] # <<>>
    BY <1>1, <1>n, <1>t DEF ReplyInv, Taken
  <2> QED
    BY <1>2, <1>n, <2>1, Conns DEF ReplyOK
<1>14. FlowInv'
  <2>1. ASSUME NEW x \in Req, NEW d \in Dir PROVE FlowOK(x, d)'
    <3>0. FlowOK(x, d) /\ x.app \in App /\ x.app \in Conn /\ x \in Msg
      BY <1>t, Conns DEF FlowInv, Req, Msg
    <3>1. CASE x.app # c
      BY <1>u, <3>0, <3>1, FlowFrame
    <3>2. CASE x.app = c
      <4>1. /\ Unique(Places(sq[x.app], Sends(x, d)))'
            /\ Unique(Places(due[d], {x}))' /\ ~(Sent(x, d) /\ Got(x, d))'
            /\ Sent(x, d)' <=> Sent(x, d)
            /\ Got(x, d)' <=> Got(x, d)
        BY <1>u, <3>0, PlacesSame
      <4>2. Sent(x, d) \/ Got(x, d) => x.type # "MALLOC"
        <5>1. ASSUME Sent(x, d) \/ Got(x, d), x.type = "MALLOC" PROVE FALSE
          <6>1. x.n = calls[c] /\ d = th[c].to
            BY <3>0, <3>2, <5>1 DEF FlowOK
          <6>2. x = MyReq(c)
            BY <3>0, <3>2, <5>1, <6>1 DEF MyReq, Msg
          <6> QED
            BY <1>n, <3>0, <3>2, <5>1, <6>1, <6>2 DEF Asked
        <5> QED
          BY <5>1
      <4>3. ~Unsent(x.app, d)'
        BY <1>2, <3>2 DEF Unsent
      <4> QED
        BY <1>u, <3>0, <4>1, <4>2, <4>3 DEF FlowOK
    <3> QED
      BY <3>1, <3>2
  <2> QED
    BY <2>1 DEF FlowInv
<1>15. ReplyInv'
  <2>1. ASSUME NEW x \in App PROVE ReplyOK(x)'
    <3>0. ReplyOK(x) /\ x \in Conn
      BY <1>t, Conns DEF ReplyInv
    <3>1. Asked(x)' => Asked(x)
      <4>1. th'[x].to = th[x].to
        BY <1>2, <1>u, <3>0
      <4> QED
        BY <1>u, <4>1 DEF Asked, Sent, Got, MyReq, Places, Sends
    <3>2. DirKept(x)
      BY <1>d, <3>0, DirFrame
    <3>3. CASE x # c
      BY <1>u, <3>0, <3>1, <3>2, <3>3, ReplySame DEF DirKept
    <3>4. CASE x = c
      <4>1. due[c] # <<>> /\ due'[c] = due[c]
        BY <1>1, <1>u DEF Taken
      <4>2. \A d \in Dir : ~Sending(d, c)' /\ ~Answered(d, c)'
        BY <3>0, <3>2, <3>4, <4>1 DEF ReplyOK, DirKept
      <4>3. Len(due'[c]) = 1 /\ due'[c][1] = MyReply(c)'
        BY <1>u, <3>0, <3>4, <4>1 DEF ReplyOK, MyReply
      <4>4. ~Asked(c)' /\ \A d \in Dir : Unique(Places(sq[d], To(c)))'
        BY <1>n, <3>1, <3>2, <3>4 DEF DirKept
      <4> QED
        BY <1>2, <3>4, <4>2, <4>3, <4>4 DEF ReplyOK
    <3> QED
      BY <3>3, <3>4
  <2> QED
    BY <2>1 DEF ReplyInv
<1>16. RootInv'
  <2>1. \A d \in Dir, x \in App :
          Unsent(x, d)' => Unsent(x, d) /\ th'[x].type = th[x].type
    BY <1>2, <1>u, Conns DEF Unsent
  <2>2. \A d \in Dir, x \in Req : (Sent(x, d) \/ Got(x, d))' =>
                                   Sent(x, d) \/ Got(x, d)
    BY <1>u DEF Sent, Got, Places, Sends
  <2> QED
    BY <1>t, <1>u, <2>1, <2>2, RootsKept
<1> QED
  BY <1>1, <1>13, <1>14, <1>15, <1>16 DEF RingInv

-----------------------------------------------------------------------------
(* A message was handled.                                                  *)

\* What the handler of c reads, and the queue it leaves.
HandledAt(c) ==
  /\ due[c] # <<>> /\ due[c] \in Seq(Msg) /\ Handled(c) = Head(due[c])

\* A handler reads the oldest message that is due.
LEMMA HandledIs ==
  ASSUME TypeOK, RecvInv, NEW c \in Conn, At(c, "handle")
  PROVE  /\ HandledAt(c)
         /\ RecvOK(messageNR[c], subNR(c), curMessage[c], rq[c], cq[c], 0,
                   Tail(due[c]), messagePool[c])
<1>1. PICK N, s, cur, r, k, d, p :
        /\ N = messageNR[c] /\ s = subNR(c) /\ cur = curMessage[c]
        /\ r = rq[c] /\ k = cq[c] /\ d = due[c] /\ p = messagePool[c]
  OBVIOUS
<1>2. /\ N \in Nat \ {0} /\ s \in Nat \ {0} /\ cur \in 0..N-1 /\ k \in Nat
      /\ d \in Seq(Msg)
  <2>1. N \in Nat \ {0} /\ s \in Nat \ {0}
    BY <1>1, Sizes
  <2>2. curMessage[c] \in Slots(c) /\ cq[c] \in Nat /\ due[c] \in Seq(Msg)
    BY DEF TypeOK
  <2> QED
    BY <1>1, <2>1, <2>2 DEF Slots
<1>3. RecvOK(N, s, cur, r, k, 1, d, p) /\ th[c].slot = Fwd(cur, -1, N)
  <2>1. RecvC(c) /\ Handles(c) = 1
    BY DEF RecvInv, Handles
  <2> QED
    BY <1>1, <2>1 DEF RecvC
<1>4. /\ RecvOK(N, s, cur, r, k, 0, Tail(d), p) /\ d # <<>>
      /\ p[Fwd(cur, -1, N)] = d[1] /\ Head(d) = d[1]
  BY <1>2, <1>3, RecvDone
<1> QED
  BY <1>1, <1>2, <1>3, <1>4 DEF HandledAt, Handled

Dropped(c) ==
  /\ due' \in [Conn -> Seq(Msg)] /\ due'[c] = Tail(due[c])
  /\ \A x \in Conn : x # c => due'[x] = due[x]

\* The handler is done with its message.
LEMMA Drops ==
  ASSUME TypeOK, RecvInv, NEW c \in Conn, At(c, "handle"),
         due' = [due EXCEPT ![c] = Tail(@)], curMessage' = curMessage,
         messagePool' = messagePool, rq' = rq, cq' = cq,
         th'[c].pc # "handle", \A x \in Conn : x # c => th'[x] = th[x]
  PROVE  HandledAt(c) /\ Dropped(c) /\ RecvInv'
<1>1. HandledAt(c)
  BY HandledIs
<1>2. Tail(due[c]) \in Seq(Msg)
  BY <1>1 DEF HandledAt
<1>3. Dropped(c)
  BY <1>2 DEF Dropped, TypeOK
<1>4. ASSUME NEW x \in Conn PROVE RecvC(x)'
  <2>1. CASE x # c
    BY <1>3, <2>1, RecvSame DEF RecvInv, RecvKept, Dropped
  <2>2. CASE x = c
    <3>1. Handles(c)' = 0
      BY DEF Handles, At
    <3>2. RecvOK(messageNR[c], subNR(c), curMessage[c], rq[c], cq[c],
                 Handles(c), due[c], messagePool[c])'
      BY <1>3, <3>1, HandledIs DEF Dropped, subNR
    <3> QED
      BY <2>2, <3>2 DEF RecvC, At
  <2> QED
    BY <2>1, <2>2
<1> QED
  BY <1>1, <1>3, <1>4 DEF RecvInv

\* TakeReply: nothing is under way to the thread any more.
LEMMA ReplyStep ==
  ASSUME RingInv, NEW t \in App, TakeReply(t)
  PROVE  RingInv'
<1>t. /\ TypeOK /\ SendInv /\ RecvInv /\ LoadInv /\ FlowInv /\ ReplyInv
      /\ RootInv
  BY DEF RingInv
<1>c. t \in Conn /\ t \notin Dir /\ machineNR \in Nat \ {0}
  BY Conns, RingAssumption
<1>u. /\ sendCounter' = sendCounter /\ curSend' = curSend
      /\ sendPool' = sendPool /\ sq' = sq /\ send_cq' = send_cq
      /\ curMessage' = curMessage /\ messagePool' = messagePool /\ rq' = rq
      /\ cq' = cq /\ calls' = calls /\ roots' = roots
  BY DEF TakeReply, send
<1>1. th[t] \in Thr /\ th[t].pc = "handle" /\ next_target_node[t] \in Dir
  BY <1>c, <1>t DEF TakeReply, At, TypeOK
<1>2. PICK r, g : /\ r = [th[t] EXCEPT !.pc = "idle"]
                  /\ g = AddRound(next_target_node[t], machineNR)
  OBVIOUS
<1>3. r \in Thr /\ r.pc = "idle" /\ g \in Dir
  <2>1. g \in 0..machineNR - 1
    <3>1. next_target_node[t] \in 0..machineNR - 1
      BY <1>1 DEF Dir
    <3> QED
      BY <1>2, <1>c, <3>1, AddRoundIs
  <2> QED
    BY <1>1, <1>2, <2>1 DEF Thr, Pcs, Dir
<1>4. /\ th' = [th EXCEPT ![t] = r]
      /\ next_target_node' = [next_target_node EXCEPT ![t] = g]
      /\ due' = [due EXCEPT ![t] = Tail(@)]
  BY <1>2, <1>c, <1>t DEF TakeReply, TypeOK
<1>5. /\ th' \in [Conn -> Thr] /\ th'[t] = r
      /\ \A x \in Conn : x # t => th'[x] = th[x]
  BY <1>3, <1>4, <1>c, <1>t DEF TypeOK
<1>6. HandledAt(t) /\ Dropped(t) /\ RecvInv'
  BY <1>1, <1>3, <1>4, <1>5, <1>c, <1>t, <1>u, Drops DEF At
<1>7. next_target_node' \in [App -> Dir]
  BY <1>3, <1>4, <1>t DEF TypeOK
<1>8. due'[t] = <<>>
  <2>1. ReplyOK(t) /\ due[t] # <<>> /\ due[t] \in Seq(Msg)
    BY <1>6, <1>t DEF ReplyInv, HandledAt
  <2>2. Len(due[t]) = 1
    BY <2>1 DEF ReplyOK
  <2>3. PICK q : q = Tail(due[t])
    OBVIOUS
  <2>4. Len(q) = 0 /\ q \in Seq(Msg)
    BY <2>1, <2>2, <2>3
  <2>5. q = <<>>
    BY <2>3, <2>4
  <2> QED
    BY <1>6, <2>3, <2>5 DEF Dropped
<1>d. \A d \in Dir : d \in Conn /\ th'[d] = th[d] /\ sq'[d] = sq[d]
                     /\ due'[d] = due[d]
  BY <1>5, <1>6, <1>c, <1>u, Conns DEF Dropped
<1>10. TypeOK'
  <2>1. \A x \in App : th'[x].pc # "poll"
    BY <1>3, <1>5, <1>t, Conns DEF TypeOK
  <2>2. \A x \in Dir : th'[x].pc \in {"poll", "handle", "send"}
    BY <1>d, <1>t DEF TypeOK
  <2> QED
    BY <1>5, <1>6, <1>7, <1>t, <1>u, <2>1, <2>2 DEF TypeOK, Dropped
<1>11. SendInv'
  <2>1. ASSUME NEW x \in Conn PROVE SendC(x)'
    <3>1. SendC(x) /\ SendKept(x)
      BY <1>t, <1>u DEF SendInv, SendKept
    <3>2. th'[x] = th[x] \/ (th[x].pc # "send" /\ th'[x].pc # "send")
      BY <1>1, <1>3, <1>5
    <3> QED
      BY <3>1, <3>2, SendSame
  <2> QED
    BY <2>1 DEF SendInv
<1>13. LoadInv'
  <2>1. ASSUME NEW x \in App PROVE LoadApp(x)'
    <3>0. LoadApp(x) /\ x \in Conn
      BY <1>t, Conns DEF LoadInv
    <3>1. CASE x # t
      BY <1>5, <1>u, <3>0, <3>1, LoadAppSame
    <3>2. CASE x = t
      BY <1>3, <1>5, <1>u, <3>0, <3>2 DEF LoadApp, At
    <3> QED
      BY <3>1, <3>2
  <2>2. ASSUME NEW d \in Dir PROVE LoadDir(d)'
    <3>0. LoadDir(d) /\ sq[d] \in Seq(Send)
      BY <1>d, <1>t DEF LoadInv, TypeOK
    <3> QED
      BY <1>d, <1>u, <3>0, LoadDirSame
  <2> QED
    BY <2>1, <2>2 DEF LoadInv
<1>14. FlowInv'
  <2>1. ASSUME NEW x \in Req, NEW d \in Dir PROVE FlowOK(x, d)'
    <3>0. FlowOK(x, d) /\ x.app \in App /\ x.app \in Conn
      BY <1>t, Conns DEF FlowInv, Req, Msg
    <3>1. CASE x.app # t
      BY <1>5, <1>d, <1>u, <3>0, <3>1, FlowFrame
    <3>2. CASE x.app = t
      <4>1. ~At(x.app, "wait") /\ ~Unsent(x.app, d)'
        BY <1>1, <1>3, <1>5, <3>2 DEF At, Unsent
      <4> QED
        BY <1>d, <1>u, <3>0, <4>1, PlacesSame, FlowSame
    <3> QED
      BY <3>1, <3>2
  <2> QED
    BY <2>1 DEF FlowInv
<1>15. ReplyInv'
  <2>1. ASSUME NEW x \in App PROVE ReplyOK(x)'
    <3>0. ReplyOK(x) /\ x \in Conn
      BY <1>t, Conns DEF ReplyInv
    <3>1. CASE x # t
      <4>1. th'[x] = th[x] /\ due'[x] = due[x]
        BY <1>5, <1>6, <3>0, <3>1 DEF Dropped
      <4>2. Asked(x)' => Asked(x)
        <5>1. PICK y, d : y = MyReq(x) /\ d = th[x].to /\ y = MyReq(x)'
          BY <1>u DEF MyReq
        <5>2. Sent(y, d)' => Sent(y, d)
          BY <1>u DEF Sent, Sends, Places
        <5>3. Got(y, d)' => Got(y, d)
          <6>1. CASE d = t
            BY <1>8, <6>1 DEF Got, Places
          <6>2. CASE d # t
            <7>1. d \in Conn
              BY <1>t, <3>0, <5>1 DEF TypeOK, Thr
            <7> QED
              BY <1>6, <6>2, <7>1 DEF Got, Dropped
          <6> QED
            BY <6>1, <6>2
        <5> QED
          BY <4>1, <5>1, <5>2, <5>3 DEF Asked, Sent, Got
      <4>3. DirKept(x)
        BY <1>d, <3>0, DirFrame
      <4> QED
        BY <1>u, <3>0, <4>1, <4>2, <4>3, ReplySame DEF DirKept
    <3>2. CASE x = t
      <4>1. ASSUME NEW d \in Dir PROVE ~Sending(d, t)' /\ ~Answered(d, t)'
        <5>1. ~Sending(d, t) /\ ~Answered(d, t)
          BY <1>1, <3>0, <3>2 DEF ReplyOK, At
        <5> QED
          BY <1>d, <5>1 DEF Sending, Answered, At, Places, To
      <4>2. Quiet(t)'
        BY <1>8, <4>1 DEF Quiet
      <4> QED
        BY <3>2, <4>2, ReplyQuiet
    <3> QED
      BY <3>1, <3>2
  <2> QED
    BY <2>1 DEF ReplyInv
<1>16. RootInv'
  <2>1. \A d \in Dir, x \in App :
          Unsent(x, d)' => Unsent(x, d) /\ th'[x].type = th[x].type
    BY <1>3, <1>5, Conns DEF Unsent
  <2>2. \A d \in Dir, x \in Req : (Sent(x, d) \/ Got(x, d))' =>
                                   Sent(x, d) \/ Got(x, d)
    BY <1>d, <1>u DEF Sent, Got, Places, Sends
  <2> QED
    BY <1>t, <1>u, <2>1, <2>2, RootsKept
<1> QED
  BY <1>6, <1>10, <1>11, <1>13, <1>14, <1>15, <1>16 DEF RingInv

\* What is in the rest of a queue was in the queue.
LEMMA TailPlaces ==
  ASSUME NEW S, NEW q \in Seq(S), q # <<>>, NEW E, Places(Tail(q), E) # {}
  PROVE  Places(q, E) # {}
<1>1. PICK i \in DOMAIN Tail(q) : Tail(q)[i] \in E
  BY DEF Places
<1>2. i + 1 \in DOMAIN q /\ q[i + 1] = Tail(q)[i]
  OBVIOUS
<1> QED
  BY <1>1, <1>2 DEF Places

\* A request is no longer under way: either it is answered, to the thread of
\* the request, or it was a new root.
Answers(c, m) ==
  /\ th'[c].pc = "send" /\ th'[c].to = m.app /\ m.type = "MALLOC"
  /\ th'[c].slot = curSend[c] /\ Filled(c, Reply(m)) /\ Reply(m) \in Msg

NoAnswer(c, m) ==
  /\ th'[c].pc = "poll" /\ m.type = "NEW_ROOT"
  /\ sendPool' = sendPool /\ curSend' = curSend

\* process_message, with and without an answer.
LEMMA Processes ==
  ASSUME TypeOK, NEW c \in Dir, process_message(c), NEW m \in Msg,
         m = Handled(c)
  PROVE  /\ th' \in [Conn -> Thr] /\ \A x \in Conn : x # c => th'[x] = th[x]
         /\ Answers(c, m) \/ NoAnswer(c, m)
<1>c. c \in Conn /\ th[c] \in Thr /\ curSend[c] \in Nat /\ m.app \in App
  BY Conns DEF TypeOK, Msg
<1>1. CASE /\ m.type = "MALLOC" /\ getSendPool(c, Reply(m))
           /\ th' = [th EXCEPT ![c].pc = "send", ![c].slot = curSend[c],
                               ![c].to = Caller(m)]
  <2>1. PICK r : r = [th[c] EXCEPT !.pc = "send", !.slot = curSend[c],
                                   !.to = m.app]
    OBVIOUS
  <2>2. /\ r \in Thr /\ r.pc = "send" /\ r.slot = curSend[c]
        /\ r.to = m.app
    <3>1. m.app \in Conn
      BY <1>c, Conns
    <3> QED
      BY <1>c, <2>1, <3>1 DEF Thr, Pcs
  <2>3. th' = [th EXCEPT ![c] = r]
    BY <1>1, <1>c, <2>1 DEF Caller, TypeOK
  <2>4. /\ th' \in [Conn -> Thr] /\ th'[c] = r
        /\ \A x \in Conn : x # c => th'[x] = th[x]
    BY <1>c, <2>2, <2>3 DEF TypeOK
  <2>5. Reply(m) \in Msg
    BY DEF Reply, Msg, Types
  <2>6. Filled(c, Reply(m))
    BY <1>1, <1>c, <2>5, Fills
  <2> QED
    BY <1>1, <2>2, <2>4, <2>5, <2>6 DEF Answers
<1>2. CASE /\ m.type = "NEW_ROOT" /\ th' = [th EXCEPT ![c].pc = "poll"]
           /\ UNCHANGED <<sendPool, curSend>>
  <2>1. PICK r : r = [th[c] EXCEPT !.pc = "poll"]
    OBVIOUS
  <2>2. r \in Thr /\ r.pc = "poll"
    BY <1>c, <2>1 DEF Thr, Pcs
  <2>3. th' = [th EXCEPT ![c] = r]
    BY <1>2, <1>c, <2>1 DEF TypeOK
  <2>4. /\ th' \in [Conn -> Thr] /\ th'[c] = r
        /\ \A x \in Conn : x # c => th'[x] = th[x]
    BY <1>c, <2>2, <2>3 DEF TypeOK
  <2> QED
    BY <1>2, <2>2, <2>4 DEF NoAnswer
<1> QED
  BY <1>1, <1>2 DEF process_message

\* process_message: an answer takes the place of the request.
LEMMA ProcessStep ==
  ASSUME RingInv, NEW c \in Dir, process_message(c)
  PROVE  RingInv'
<1>t. /\ TypeOK /\ SendInv /\ RecvInv /\ LoadInv /\ FlowInv /\ ReplyInv
      /\ RootInv
  BY DEF RingInv
<1>c. c \in Conn /\ c \notin App
  BY Conns
<1>u. /\ sendCounter' = sendCounter /\ sq' = sq /\ send_cq' = send_cq
      /\ curMessage' = curMessage /\ messagePool' = messagePool /\ rq' = rq
      /\ cq' = cq /\ calls' = calls /\ roots' = roots
      /\ next_target_node' = next_target_node
  BY DEF process_message, work
<1>1. /\ At(c, "handle") /\ due' = [due EXCEPT ![c] = Tail(@)]
      /\ th[c].pc = "handle"
  BY DEF process_message, At
<1>2. HandledAt(c)
  BY <1>1, <1>c, <1>t, HandledIs
<1>3. PICK m : m = Handled(c)
  OBVIOUS
<1>4. /\ m = Head(due[c]) /\ m \in Msg /\ 1 \in DOMAIN due[c]
      /\ m = due[c][1] /\ due[c] \in Seq(Msg) /\ due[c] # <<>>
  BY <1>2, <1>3 DEF HandledAt
<1>5. m \in Req /\ Got(m, c) /\ m.app \in App
  <2>1. m.type # "REPLY"
    BY <1>4, <1>t DEF LoadInv, LoadDir
  <2> QED
    BY <1>4, <2>1 DEF Req, Got, Places, Msg
<1>6. /\ th' \in [Conn -> Thr] /\ \A x \in Conn : x # c => th'[x] = th[x]
      /\ Answers(c, m) \/ NoAnswer(c, m)
  BY <1>3, <1>4, <1>t, Processes
<1>7. th'[c].pc \in {"send", "poll"}
  BY <1>6 DEF Answers, NoAnswer
<1>8. Dropped(c) /\ RecvInv'
  BY <1>1, <1>6, <1>7, <1>c, <1>t, <1>u, Drops
<1>9. /\ sendPool' \in [Conn -> Pools]
      /\ \A x \in Conn : sendPool'[x] \in Pool(x)
      /\ curSend' \in [Conn -> Nat] /\ \A x \in Conn : curSend'[x] \in Slots(x)
      /\ \A x \in Conn : x # c => /\ sendPool'[x] = sendPool[x]
                                  /\ curSend'[x] = curSend[x]
  BY <1>6, <1>t DEF Answers, NoAnswer, Filled, TypeOK
<1>a. \A x \in App : x \in Conn /\ x # c /\ th'[x] = th[x] /\ due'[x] = due[x]
  BY <1>6, <1>8, <1>c, Conns DEF Dropped
<1>10. TypeOK'
  <2>1. \A x \in App : th'[x].pc # "poll"
    BY <1>a, <1>t DEF TypeOK
  <2>2. \A x \in Dir : th'[x].pc \in {"poll", "handle", "send"}
    BY <1>6, <1>7, <1>t, Conns DEF TypeOK
  <2> QED
    BY <1>6, <1>8, <1>9, <1>t, <1>u, <2>1, <2>2 DEF TypeOK, Dropped
<1>11. SendInv'
  <2>1. ASSUME NEW x \in Conn PROVE SendC(x)'
    <3>0. SendC(x)
      BY <1>t DEF SendInv
    <3>1. CASE x # c
      BY <1>6, <1>9, <1>u, <3>0, <3>1, SendSame DEF SendKept
    <3>2. CASE x = c /\ NoAnswer(c, m)
      <4>1. SendKept(c) /\ th[c].pc # "send" /\ th'[c].pc # "send"
        BY <1>1, <1>u, <3>2 DEF NoAnswer, SendKept
      <4> QED
        BY <1>c, <3>0, <3>2, <4>1, SendSame
    <3>3. CASE x = c /\ Answers(c, m)
      <4>1. PICK y \in Msg : y = Reply(m)
        BY <3>3 DEF Answers
      <4>2. /\ Filled(c, y) /\ th[c].pc # "send" /\ th'[c].pc = "send"
            /\ th'[c].slot = curSend[c]
        BY <1>1, <3>3, <4>1 DEF Answers
      <4> QED
        BY <1>c, <1>t, <1>u, <3>0, <3>3, <4>2, FilledSend
    <3> QED
      BY <1>6, <3>1, <3>2, <3>3
  <2> QED
    BY <2>1 DEF SendInv
\* The request that was handled is no longer there.
<1>12. ASSUME NEW x \in Req, NEW d \in Dir
       PROVE  /\ Unique(Places(due[d], {x}))'
              /\ Got(x, d)' => Got(x, d) /\ ~(x = m /\ d = c)
  <2>0. Unique(Places(due[d], {x})) /\ d \in Conn
    BY <1>t, Conns DEF FlowInv, FlowOK
  <2>1. CASE d # c
    BY <1>8, <2>0, <2>1 DEF Dropped, Got
  <2>2. CASE d = c
    <3>1. PICK E : E = {x}
      OBVIOUS
    <3>2. Unique(Places(due[c], E))
      BY <2>0, <2>2, <3>1
    <3>3. Shrank(due[c], Tail(due[c]), E)
      BY <1>4, <3>2, OnceTail
    <3>4. m \in E <=> x = m
      BY <3>1
    <3> QED
      BY <1>4, <1>8, <2>2, <3>1, <3>3, <3>4 DEF Shrank, Got, Dropped
  <2> QED
    BY <2>1, <2>2
<1>13. ASSUME m.type = "MALLOC"
       PROVE  /\ At(m.app, "wait") /\ m = MyReq(m.app) /\ c = th[m.app].to
              /\ Asked(m.app) /\ Quiet(m.app) /\ ~Sent(m, c)
  <2>1. FlowOK(m, c)
    BY <1>5, <1>t DEF FlowInv
  <2>2. /\ At(m.app, "wait") /\ m.n = calls[m.app] /\ c = th[m.app].to
        /\ ~Sent(m, c)
    BY <1>13, <1>5, <2>1 DEF FlowOK
  <2>3. m = MyReq(m.app)
    BY <1>13, <1>4, <2>2 DEF MyReq, Msg
  <2>4. Asked(m.app)
    BY <1>5, <2>2, <2>3 DEF Asked
  <2>5. ReplyOK(m.app)
    BY <1>5, <1>t DEF ReplyInv
  <2>6. Quiet(m.app)
    BY <2>4, <2>5 DEF Quiet, ReplyOK
  <2> QED
    BY <2>2, <2>3, <2>4, <2>6
<1>14. LoadInv'
  <2>1. ASSUME NEW x \in App PROVE LoadApp(x)'
    BY <1>9, <1>a, <1>t, <1>u, LoadAppSame DEF LoadInv
  <2>2. ASSUME NEW d \in Dir PROVE LoadDir(d)'
    <3>1. LoadDir(d) /\ sq[d] \in Seq(Send) /\ d \in Conn
      BY <1>t, Conns DEF LoadInv, TypeOK
    <3>2. CASE d # c
      BY <1>6, <1>8, <1>9, <1>u, <3>1, <3>2, LoadDirSame DEF Dropped
    <3>3. CASE d = c
      <4>1. ASSUME NEW i \in DOMAIN due'[c] PROVE due'[c][i].type # "REPLY"
        <5>1. i + 1 \in DOMAIN due[c] /\ due'[c][i] = due[c][i + 1]
          BY <1>4, <1>8 DEF Dropped
        <5> QED
          BY <3>1, <3>3, <5>1 DEF LoadDir
      <4>2. At(c, "send")' =>
              (/\ th[c].to \in App
               /\ sendPool[c][th[c].slot] = MyReply(th[c].to))'
        <5>1. CASE NoAnswer(c, m)
          BY <5>1 DEF NoAnswer, At
        <5>2. CASE Answers(c, m)
          <6>1. /\ th'[c].to = m.app /\ sendPool'[c][th'[c].slot] = Reply(m)
                /\ m.type = "MALLOC"
            BY <5>2 DEF Answers, Filled
          <6>2. Reply(m) = MyReply(m.app)'
            BY <1>13, <1>u, <6>1 DEF Reply, MyReply, MyReq
          <6> QED
            BY <1>5, <6>1, <6>2 DEF MyReply
        <5> QED
          BY <1>6, <5>1, <5>2
      <4>3. \A i \in DOMAIN sq[c] :
              sq[c][i].to \in App /\ sq[c][i].m = MyReply(sq[c][i].to)'
        BY <1>u, <3>1, <3>3 DEF LoadDir, MyReply
      <4> QED
        BY <1>u, <3>3, <4>1, <4>2, <4>3 DEF LoadDir, MyReply
    <3> QED
      BY <3>2, <3>3
  <2> QED
    BY <2>1, <2>2 DEF LoadInv
<1>15. FlowInv'
  <2>1. ASSUME NEW x \in Req, NEW d \in Dir PROVE FlowOK(x, d)'
    <3>0. FlowOK(x, d) /\ x.app \in App
      BY <1>t DEF FlowInv, Req, Msg
    <3>1. /\ Unique(Places(sq[x.app], Sends(x, d)))'
          /\ Sent(x, d)' <=> Sent(x, d)
      BY <1>u, <3>0 DEF FlowOK, Sent, Places, Sends, Unique
    <3>2. ~(Sent(x, d) /\ Got(x, d))'
      BY <1>12, <3>0, <3>1 DEF FlowOK
    <3>3. /\ Unsent(x.app, d)' => Unsent(x.app, d)
          /\ At(x.app, "wait") =>
               At(x.app, "wait")' /\ th'[x.app].to = th[x.app].to
      BY <1>a, <3>0 DEF Unsent, At
    <3> QED
      BY <1>12, <1>u, <3>0, <3>1, <3>2, <3>3, FlowSame
  <2> QED
    BY <2>1 DEF FlowInv
<1>16. ReplyInv'
  <2>1. ASSUME NEW x \in App PROVE ReplyOK(x)'
    <3>0. ReplyOK(x) /\ th'[x] = th[x] /\ due'[x] = due[x] /\ x \in Conn
      BY <1>a, <1>t DEF ReplyInv
    <3>1. PICK y, e : y = MyReq(x) /\ e = th[x].to /\ y = MyReq(x)'
                      /\ e = th'[x].to
      BY <1>u, <3>0 DEF MyReq
    <3>2. Sent(y, e)' <=> Sent(y, e)
      BY <1>u DEF Sent, Sends, Places
    <3>3. Got(y, e)' => Got(y, e)
      <4>1. e \in Conn
        BY <1>t, <3>0, <3>1 DEF TypeOK, Thr
      <4>2. CASE e # c
        BY <1>8, <4>1, <4>2 DEF Got, Dropped
      <4>3. CASE e = c
        <5>1. PICK E : E = {y}
          OBVIOUS
        <5>2. Places(Tail(due[c]), E) # {} => Places(due[c], E) # {}
          BY <1>4, TailPlaces
        <5> QED
          BY <1>8, <4>3, <5>1, <5>2 DEF Got, Dropped
      <4> QED
        BY <4>2, <4>3
    <3>4. Asked(x)' => Asked(x)
      BY <3>1, <3>2, <3>3 DEF Asked, Sent, Got
    <3>5. ASSUME NEW d \in Dir
          PROVE  /\ Unique(Places(sq[d], To(x)))'
                 /\ Answered(d, x)' <=> Answered(d, x)
                 /\ d # c => (Sending(d, x)' <=> Sending(d, x))
                 /\ d = c => ~Sending(d, x)
      BY <1>1, <1>6, <1>u, <3>0, Conns
         DEF ReplyOK, Unique, Places, To, Answered, Sending, At
    <3>6. CASE ~Sending(c, x)'
      <4>1. ASSUME NEW d \in Dir
            PROVE  /\ Unique(Places(sq[d], To(x)))'
                   /\ ~(Sending(d, x) /\ Answered(d, x))'
                   /\ (Sending(d, x) \/ Answered(d, x))' =>
                        Sending(d, x) \/ Answered(d, x)
        BY <3>0, <3>5, <3>6 DEF ReplyOK
      <4> QED
        BY <1>u, <3>0, <3>4, <4>1, ReplySame
    <3>7. CASE Sending(c, x)'
      <4>1. Answers(c, m) /\ x = m.app /\ m.type = "MALLOC"
        BY <1>6, <3>7 DEF Answers, NoAnswer, Sending, At
      <4>2. /\ At(x, "wait") /\ m = MyReq(x) /\ c = th[x].to
            /\ Quiet(x) /\ ~Sent(m, c)
        BY <1>13, <4>1
      <4>3. ~Asked(x)'
        <5>1. y = m /\ e = c
          BY <3>1, <4>2
        <5>2. ~Sent(y, e)' /\ ~Got(y, e)'
          BY <1>12, <1>5, <3>2, <4>2, <5>1
        <5> QED
          BY <3>1, <5>2 DEF Asked, Sent, Got
      <4>4. \A d \in Dir : ~Answered(d, x)' /\ (d # c => ~Sending(d, x)')
        BY <3>5, <4>2 DEF Quiet
      <4>5. due'[x] = <<>> /\ At(x, "wait")' /\ c = th'[x].to
        BY <3>0, <4>2 DEF Quiet, At
      <4> QED
        BY <3>5, <4>3, <4>4, <4>5 DEF ReplyOK
    <3> QED
      BY <3>6, <3>7
  <2> QED
    BY <2>1 DEF ReplyInv
<1>17. RootInv'
  <2>1. \A d \in Dir, x \in App :
          Unsent(x, d)' => Unsent(x, d) /\ th'[x].type = th[x].type
    BY <1>a DEF Unsent
  <2>2. \A d \in Dir, x \in Req : (Sent(x, d) \/ Got(x, d))' =>
                                   Sent(x, d) \/ Got(x, d)
    <3>1. ASSUME NEW d \in Dir, NEW x \in Req
          PROVE (Sent(x, d) \/ Got(x, d))' => Sent(x, d) \/ Got(x, d)
      <4>1. Sent(x, d)' => Sent(x, d)
        BY <1>u DEF Sent, Places, Sends
      <4> QED
        BY <1>12, <4>1
    <3> QED
      BY <3>1
  <2> QED
    BY <1>t, <1>u, <2>1, <2>2, RootsKept
<1> QED
  BY <1>8, <1>10, <1>11, <1>14, <1>15, <1>16, <1>17 DEF RingInv

-----------------------------------------------------------------------------
(* The invariant, and what it says.                                        *)

\* An empty send ring.
LEMMA InitSend ==
  ASSUME NEW N \in Nat, NEW pool
  PROVE  SendOK(N, 0, 0, <<>>, 0, pool)
<1>1. Len(<<>>) = 0 /\ kSignal \in Nat \ {0} /\ Since(0) \in 0..kSignal-1
  BY RingAssumption, SinceNext
<1> QED
  BY <1>1 DEF SendOK

\* A receive ring after initRecv.
LEMMA InitRecv ==
  ASSUME NEW N \in Nat \ {0}, NEW s \in Nat \ {0}, NEW r,
         r = [i \in 1..N |-> i - 1], NEW pool
  PROVE  RecvOK(N, s, 0, r, 0, 0, <<>>, pool) /\ r \in Seq(Nat)
<1>1. 0 % s = 0
  <2>1. 0 = s * 0 + 0 /\ 0 \in 0..s-1 /\ 0 \in Nat /\ 0 \in Int
    OBVIOUS
  <2> QED
    BY <2>1, DivisionIs
<1>2. \A i \in 1..N : i - 1 \in Nat
  OBVIOUS
<1>3. r \in [1..N -> Nat]
  BY <1>2
<1>4. r \in Seq(Nat) /\ Len(r) = N
  BY <1>3
<1>5. ASSUME NEW i \in 1..N PROVE r[i] = Fwd(0, 0 + i - 1, N)
  BY DEF Fwd
<1>6. Len(<<>>) = 0 /\ N + 0 = N - 0
  OBVIOUS
<1> QED
  BY <1>1, <1>4, <1>5, <1>6 DEF RecvOK

\* The initial states satisfy the invariant.
LEMMA InitHolds ==
  ASSUME Init
  PROVE  RingInv
<1>c. /\ machineNR \in Nat \ {0} /\ MaxRoots \in Nat
      /\ Plans \subseteq [App -> Nat]
      /\ \A c \in Conn : messageNR[c] \in Nat \ {0} /\ subNR(c) \in Nat \ {0}
  BY RingAssumption, Sizes
<1>1. ASSUME NEW c \in Conn
      PROVE  /\ sendCounter[c] = 0 /\ curSend[c] = 0 /\ sq[c] = <<>>
             /\ send_cq[c] = 0 /\ curMessage[c] = 0 /\ cq[c] = 0
             /\ due[c] = <<>> /\ rq[c] = [i \in 1..messageNR[c] |-> i - 1]
             /\ th[c].pc = (IF c \in Dir THEN "poll" ELSE "idle")
  BY DEF Init
<1>s. \A c \in Conn : 0 \in Slots(c) /\ rq[c] \in Seq(Nat)
  <2>1. ASSUME NEW c \in Conn PROVE 0 \in Slots(c) /\ rq[c] \in Seq(Nat)
    <3>1. PICK N, r, s, p : /\ N = messageNR[c] /\ r = rq[c] /\ s = subNR(c)
                            /\ p = messagePool[c]
      OBVIOUS
    <3>2. /\ N \in Nat \ {0} /\ s \in Nat \ {0}
          /\ r = [i \in 1..N |-> i - 1]
      BY <1>1, <1>c, <3>1
    <3>3. r \in Seq(Nat)
      BY <3>2, InitRecv
    <3> QED
      BY <3>1, <3>2, <3>3 DEF Slots
  <2> QED
    BY <2>1
<1>e. DOMAIN <<>> = {}
  OBVIOUS
<1>p. /\ \A t \in App : th[t].pc = "idle" /\ sq[t] = <<>> /\ due[t] = <<>>
      /\ \A d \in Dir : th[d].pc = "poll" /\ sq[d] = <<>> /\ due[d] = <<>>
  BY <1>1, Conns
<1>2. TypeOK
  <2>1. \A c \in Conn : [s \in Slots(c) |-> Empty] \in Pool(c)
    BY DEF Pool
  <2>2. \A c \in Conn : [s \in Slots(c) |-> Empty] \in Pools
    BY <2>1 DEF Pools
  <2>3. /\ sendPool \in [Conn -> Pools]
        /\ \A c \in Conn : sendPool[c] \in Pool(c)
        /\ messagePool \in [Conn -> Pools]
        /\ \A c \in Conn : messagePool[c] \in Pool(c)
    BY <2>1, <2>2 DEF Init
  <2>4. rq \in [Conn -> Seq(Nat)]
    <3>1. rq = [c \in Conn |-> [i \in 1..messageNR[c] |-> i - 1]]
      BY DEF Init
    <3>2. rq = [c \in Conn |-> rq[c]]
      BY <3>1
    <3> QED
      BY <1>s, <3>2
  <2>5. th \in [Conn -> Thr]
    <3>1. 0 \in Dir /\ 0 \in Conn
      BY <1>c, Conns DEF Dir
    <3>2. ASSUME NEW c \in Conn
          PROVE  [pc |-> IF c \in Dir THEN "poll" ELSE "idle", slot |-> 0,
                  type |-> "NOP", to |-> 0, last |-> 0] \in Thr
      BY <3>1 DEF Thr, Pcs
    <3> QED
      BY <3>2 DEF Init
  <2>6. /\ sq \in [Conn -> Seq(Send)] /\ due \in [Conn -> Seq(Msg)]
    BY DEF Init
  <2>7. /\ sendCounter \in [Conn -> Nat] /\ send_cq \in [Conn -> Nat]
        /\ cq \in [Conn -> Nat] /\ curSend \in [Conn -> Nat]
        /\ curMessage \in [Conn -> Nat]
    BY DEF Init
  <2>8. /\ \A t \in App : th[t].pc # "poll"
        /\ \A d \in Dir : th[d].pc \in {"poll", "handle", "send"}
    BY <1>1, Conns
  <2>9. /\ calls \in [App -> Nat] /\ roots \in 0..MaxRoots
        /\ next_target_node \in [App -> Dir]
    BY <1>c DEF Init
  <2> QED
    BY <1>1, <1>s, <2>3, <2>4, <2>5, <2>6, <2>7, <2>8, <2>9 DEF TypeOK
<1>3. SendInv
  <2>1. ASSUME NEW c \in Conn PROVE SendC(c)
    <3>1. th[c].pc # "send"
      BY <1>1
    <3>2. Base(c) = 0 /\ ~At(c, "send")
      BY <1>1, <3>1 DEF Base, At
    <3>3. SendOK(messageNR[c], 0, 0, <<>>, 0, sendPool[c])
      BY <1>c, InitSend
    <3> QED
      BY <1>1, <3>2, <3>3 DEF SendC
  <2> QED
    BY <2>1 DEF SendInv
<1>4. RecvInv
  <2>1. ASSUME NEW c \in Conn PROVE RecvC(c)
    <3>1. Handles(c) = 0
      BY <1>1 DEF Handles, At
    <3>2. RecvOK(messageNR[c], subNR(c), 0, rq[c], 0, 0, <<>>,
                 messagePool[c])
      BY <1>1, <1>c, InitRecv
    <3> QED
      BY <1>1, <3>1, <3>2 DEF RecvC, At
  <2> QED
    BY <2>1 DEF RecvInv
<1>5. LoadInv
  <2>1. \A t \in App : LoadApp(t)
    BY <1>e, <1>p DEF LoadApp, At
  <2>2. \A d \in Dir : LoadDir(d)
    BY <1>e, <1>p DEF LoadDir, At
  <2> QED
    BY <2>1, <2>2 DEF LoadInv
<1>6. \A m \in Msg, d \in Dir :
        /\ Places(sq[m.app], Sends(m, d)) = {} /\ Places(due[d], {m}) = {}
        /\ ~Unsent(m.app, d)
  BY <1>e, <1>p DEF Places, Unsent, Msg
<1>7. FlowInv
  BY <1>6 DEF FlowInv, FlowOK, Req, Unique, Sent, Got
<1>8. ReplyInv
  <2>1. ASSUME NEW t \in App PROVE ReplyOK(t)
    BY <1>e, <1>p DEF ReplyOK, Places, Unique, Answered, Sending, At
  <2> QED
    BY <2>1 DEF ReplyInv
<1>9. RootInv
  <2>1. ASSUME NEW d \in Dir PROVE Roots(d) = {}
    BY <1>6 DEF Roots, Sent, Got
  <2>2. roots = 0
    BY DEF Init
  <2> QED
    BY <2>1, <2>2, FS_EmptySet DEF RootInv
<1> QED
  BY <1>2, <1>3, <1>4, <1>5, <1>7, <1>8, <1>9 DEF RingInv

\* The invariant is inductive.
LEMMA NextHolds ==
  ASSUME RingInv, Bearable, [Next]_vars
  PROVE  RingInv'
<1>1. ASSUME NEW t \in App, NEW type \in {"MALLOC", "NEW_ROOT"}, Call(t, type)
      PROVE  RingInv'
  BY <1>1, CallStep
<1>2. ASSUME NEW c \in Conn, Run(c) PROVE RingInv'
  <2>1. CASE sendRawMessage(c)
    BY <2>1, AppSendStep, DirSendStep DEF Conn
  <2>2. CASE getMessage(c)
    BY <2>2, TakeStep
  <2>3. CASE c \in App /\ rpc_call_dir(c)
    BY <2>3, FillStep
  <2>4. CASE c \in App /\ TakeReply(c)
    BY <2>4, ReplyStep
  <2>5. CASE c \in Dir /\ process_message(c)
    BY <2>5, ProcessStep
  <2> QED
    BY <1>2, <2>1, <2>2, <2>3, <2>4, <2>5 DEF Run
<1>3. ASSUME NEW c \in Conn, Transmit(c) PROVE RingInv'
  BY <1>3, AppMoveStep, DirMoveStep, LossStep DEF Conn
<1>4. CASE UNCHANGED vars
  <2>1. /\ sendCounter' = sendCounter /\ curSend' = curSend
        /\ sendPool' = sendPool /\ sq' = sq /\ send_cq' = send_cq
        /\ curMessage' = curMessage /\ messagePool' = messagePool /\ rq' = rq
        /\ cq' = cq /\ due' = due /\ th' = th /\ calls' = calls
        /\ roots' = roots /\ next_target_node' = next_target_node
    BY <1>4 DEF vars, send, recv, work
  <2>2. TypeOK'
    BY <2>1 DEF RingInv, TypeOK
  <2>3. SendInv' /\ RecvInv'
    BY <2>1, SendSame, RecvSame
       DEF RingInv, SendInv, RecvInv, SendKept, RecvKept
  <2>4. LoadInv'
    BY <2>1 DEF RingInv, LoadInv, LoadApp, LoadDir, At, MyReply
  <2>5. FlowInv'
    BY <2>1, FlowFrame DEF RingInv, FlowInv
  <2>6. ReplyInv'
    <3>1. ASSUME NEW t \in App PROVE ReplyOK(t)'
      <4>1. ReplyOK(t)
        BY DEF RingInv, ReplyInv
      <4>2. DirKept(t)
        BY <2>1, <4>1, DirFrame
      <4>3. Asked(t)' => Asked(t)
        BY <2>1 DEF Asked, Sent, Got, MyReq, Places, Sends
      <4> QED
        BY <2>1, <4>1, <4>2, <4>3, ReplySame DEF DirKept
    <3> QED
      BY <3>1 DEF ReplyInv
  <2>7. RootInv'
    <3>1. \A d \in Dir : Roots(d)' = Roots(d)
      BY <2>1 DEF Roots, Sent, Got, Unsent, Places, Sends
    <3> QED
      BY <2>1, <3>1 DEF RingInv, RootInv
  <2> QED
    BY <2>2, <2>3, <2>4, <2>5, <2>6, <2>7 DEF RingInv
<1> QED
  BY <1>1, <1>2, <1>3, <1>4 DEF Next, Finished

\* The rings of every connection are as the counters say, a request is under
\* way to a directory once, and an answer instead of it.
THEOREM RingInvHolds == Spec /\ []Bearable => []RingInv
<1>1. Init => RingInv
  BY InitHolds
<1>2. RingInv /\ Bearable /\ [Next]_vars => RingInv'
  BY NextHolds
<1> QED
  BY <1>1, <1>2, PTL DEF Spec

\* sendRawMessage: a datagram carries the message that was posted.
THEOREM SendsArePosted == Spec /\ []Bearable => []SentAsPosted
<1>1. RingInv => SentAsPosted
  <2>1. ASSUME RingInv, NEW c \in Conn, NEW i \in DOMAIN sq[c]
        PROVE  sendPool[c][sq[c][i].slot] = sq[c][i].m
    <3>1. SendC(c) /\ sq[c] \in Seq(Send)
      BY <2>1 DEF RingInv, SendInv, TypeOK
    <3>2. i \in 1..Len(sq[c])
      BY <3>1
    <3> QED
      BY <3>1, <3>2 DEF SendC, SendOK
  <2> QED
    BY <2>1 DEF SentAsPosted
<1> QED
  BY <1>1, RingInvHolds, PTL

\* A datagram is lost only at a directory that is asked by more at once than
\* its ring has buffers outside of one batch; an answer never is.
THEOREM LostOnlyInACrowd == Spec /\ []Bearable => []LostOnlyInCrowd
<1>1. RingInv => LostOnlyInCrowd
  <2>1. ASSUME RingInv, NEW c \in Conn, Overruns(c), NEW d, d = Head(sq[c]).to
        PROVE  d \in Dir /\ Crowd(d) > messageNR[d] - subNR(d) + 1
    BY <2>1, RoomOutsideBatch
  <2> QED
    BY <2>1 DEF LostOnlyInCrowd, Unbatched
<1> QED
  BY <1>1, RingInvHolds, PTL

\* getMessage: a handler reads the oldest message received, and a thread the
\* answer to its last call, also after requests of others were lost.
THEOREM HandlesItsOwn == Spec /\ []Bearable => []HandlesItsMessage
<1>1. RingInv => HandlesItsMessage
  <2>1. ASSUME RingInv, NEW c \in Conn, At(c, "handle")
        PROVE  /\ Handled(c) = Head(due[c])
               /\ c \in App => Handled(c) = [type |-> "REPLY", app |-> c,
                                             n |-> calls[c]]
    <3>1. HandledAt(c)
      BY <2>1, HandledIs DEF RingInv
    <3>2. Handled(c) = Head(due[c]) /\ due[c] # <<>> /\ due[c] \in Seq(Msg)
      BY <3>1 DEF HandledAt
    <3>3. ASSUME c \in App PROVE Handled(c) = MyReply(c)
      <4>1. due[c][1] = MyReply(c)
        BY <2>1, <3>2, <3>3 DEF RingInv, ReplyInv, ReplyOK
      <4>2. Head(due[c]) = due[c][1]
        BY <3>2
      <4> QED
        BY <3>2, <4>1, <4>2
    <3> QED
      BY <3>2, <3>3 DEF MyReply
  <2> QED
    BY <2>1 DEF HandlesItsMessage
<1> QED
  BY <1>1, RingInvHolds, PTL
=============================================================================
