---------------------------- MODULE MessageRing ----------------------------
(***************************************************************************)
(* Remote procedure calls over unreliable datagrams: application threads   *)
(* call directories (DSM::rpc_call_dir, rpc_wait), which answer MALLOC and *)
(* take the NEW_ROOT that is sent to all of them.  Each thread, and each   *)
(* directory, has an AbstractMessageConnection: a ring                     *)
(* of send buffers that is filled without asking whether the NIC has read  *)
(* the old message, a ring of receive buffers that is posted again one     *)
(* batch at a time, and send completions of which only every kSignal-th    *)
(* is asked for and polled.                                                *)
(*                                                                         *)
(* The fabric loses nothing; a datagram that finds no receive buffer       *)
(* posted is dropped.  A datagram that is late stays in the send queue.    *)
(***************************************************************************)
EXTENDS Integers, Sequences, FiniteSets

CONSTANTS
  App,           \* application threads
  machineNR,     \* machines, each with a directory
  messageNR,     \* buffers in each ring of a connection (APP_MESSAGE_NR,
                 \* DIR_MESSAGE_NR)
  kBatchCount,   \* batches of receive buffers
  kSignal,       \* SIGNAL_BATCH + 1: every kSignal-th send is signalled
  Plans,         \* bound: numbers of calls the threads make, to choose from
  MaxRoots,      \* bound: new roots (one per level of the tree)
  Empty          \* a buffer nothing was written to

Dir == 0..machineNR - 1
Conn == App \cup Dir

\* The receive buffers of a batch.
subNR(c) == messageNR[c] \div kBatchCount

ASSUME RingAssumption ==
  /\ machineNR \in Nat \ {0}
  /\ IsFiniteSet(App) /\ App \cap Dir = {}
  /\ kBatchCount \in Nat \ {0} /\ kSignal \in Nat \ {0}
  /\ Plans \subseteq [App -> Nat] /\ MaxRoots \in Nat
  /\ messageNR \in [Conn -> Nat \ {0}]
  /\ \A c \in Conn : messageNR[c] = kBatchCount * subNR(c)
  \* A buffer is not filled before the send that used it is known to be done.
  /\ \A c \in Conn : messageNR[c] >= 2 * kSignal

VARIABLES
  sendCounter, curSend, sendPool,  \* per connection, as in the source
  sq,            \* sends posted to the NIC: [slot, to, signal, m]
  send_cq,       \* completions of signalled sends, not yet polled
  curMessage, messagePool,
  rq,            \* receive buffers posted to the NIC
  cq,            \* messages received, not yet polled
  th,            \* the thread of the connection: pc, the buffer of the
                 \* message it handles or sends, what it calls and the
                 \* directories from i on to last that it has yet to send to,
                 \* or for a directory the thread it answers
  calls, roots,  \* calls each thread has yet to make, NEW_ROOTs (bounded)
  next_target_node, \* the directory a thread asks for memory next
  due            \* history: the messages in cq, then the one handled

send == <<sendCounter, curSend, sendPool, sq, send_cq>>
recv == <<curMessage, messagePool, rq, cq, due>>
work == <<calls, roots, next_target_node>>
vars == <<send, recv, th, work>>

\* ADD_ROUND
AddRound(x, n) == (x + 1) % n

Slots(c) == 0..messageNR[c] - 1

Request(t, type) == [type |-> type, app |-> t, n |-> calls[t]]
Reply(m) == [m EXCEPT !.type = "REPLY"]

\* Both sides after initRecv: every receive buffer is posted.
Init ==
  /\ sendCounter = [c \in Conn |-> 0]
  /\ curSend = [c \in Conn |-> 0]
  /\ sendPool = [c \in Conn |-> [s \in Slots(c) |-> Empty]]
  /\ sq = [c \in Conn |-> <<>>]
  /\ send_cq = [c \in Conn |-> 0]
  /\ curMessage = [c \in Conn |-> 0]
  /\ messagePool = [c \in Conn |-> [s \in Slots(c) |-> Empty]]
  /\ rq = [c \in Conn |-> [i \in 1..messageNR[c] |-> i - 1]]
  /\ cq = [c \in Conn |-> 0]
  /\ due = [c \in Conn |-> <<>>]
  /\ th = [c \in Conn |-> [pc |-> IF c \in Dir THEN "poll" ELSE "idle",
                           slot |-> 0, type |-> "NOP", to |-> 0, last |-> 0]]
  /\ calls \in Plans
  /\ roots = 0
  /\ next_target_node \in [App -> Dir]

At(c, pc) == th[c].pc = pc

-----------------------------------------------------------------------------
(* Sending.                                                                *)

\* getSendPool, and the message copied to the buffer.
getSendPool(c, m) ==
  /\ sendPool' = [sendPool EXCEPT ![c][curSend[c]] = m]
  /\ curSend' = [curSend EXCEPT ![c] = AddRound(@, messageNR[c])]

\* DSM::alloc asks one directory for memory; broadcast_new_root tells all.
Call(t, type) ==
  LET first == IF type = "MALLOC" THEN next_target_node[t] ELSE 0
      last == IF type = "MALLOC" THEN first ELSE machineNR - 1 IN
  /\ At(t, "idle")
  /\ calls[t] > 0
  /\ calls' = [calls EXCEPT ![t] = @ - 1]
  /\ \/ type = "MALLOC" /\ UNCHANGED roots
     \/ type = "NEW_ROOT" /\ roots < MaxRoots /\ roots' = roots + 1
  /\ th' = [th EXCEPT ![t].pc = "call", ![t].type = type, ![t].to = first,
                      ![t].last = last]
  /\ UNCHANGED <<send, recv, next_target_node>>

\* rpc_call_dir: the message is copied before sendRawMessage is entered.
rpc_call_dir(t) ==
  /\ At(t, "call")
  /\ getSendPool(t, Request(t, th[t].type))
  /\ th' = [th EXCEPT ![t].pc = "send", ![t].slot = curSend[t]]
  /\ UNCHANGED <<sendCounter, sq, send_cq, recv, work>>

\* Mutant: nothing is polled.
NeverPoll(c) == UNCHANGED send_cq

Signals(c) == sendCounter[c] % kSignal = 0

\* sendRawMessage waits for the completion of the last signalled send.
PollSend(c) ==
  IF Signals(c) /\ sendCounter[c] > 0
    THEN send_cq[c] > 0 /\ send_cq' = [send_cq EXCEPT ![c] = @ - 1]
    ELSE UNCHANGED send_cq

\* Mutant: only the first send is signalled.
SignalFirst(c) == sendCounter[c] = 0

SignalFlag(c) == Signals(c)

\* What a thread does after a send: a directory polls for the next message, a
\* broadcast goes on, and a thread that asked for memory waits (rpc_wait).
AfterSend(c) ==
  IF c \in Dir THEN [th[c] EXCEPT !.pc = "poll"]
  ELSE IF th[c].to < th[c].last
         THEN [th[c] EXCEPT !.pc = "call", !.to = @ + 1]
  ELSE [th[c] EXCEPT !.pc = IF th[c].type = "MALLOC" THEN "wait" ELSE "idle"]

sendRawMessage(c) ==
  LET s == th[c].slot IN
  /\ At(c, "send")
  /\ PollSend(c)
  /\ sq' = [sq EXCEPT ![c] =
              Append(@, [slot |-> s, to |-> th[c].to,
                         signal |-> SignalFlag(c), m |-> sendPool[c][s]])]
  /\ sendCounter' = [sendCounter EXCEPT ![c] = @ + 1]
  /\ th' = [th EXCEPT ![c] = AfterSend(c)]
  /\ UNCHANGED <<curSend, sendPool, recv, work>>

\* The NIC reads the buffer of the oldest send, and the datagram arrives in the
\* first receive buffer posted; without one it is dropped.
Transmit(c) ==
  LET w == Head(sq[c])
      m == sendPool[c][w.slot]
      d == w.to IN
  /\ sq[c] # <<>>
  /\ sq' = [sq EXCEPT ![c] = Tail(@)]
  /\ send_cq' = [send_cq EXCEPT ![c] = IF w.signal THEN @ + 1 ELSE @]
  /\ IF rq[d] = <<>> THEN UNCHANGED <<messagePool, rq, cq, due>>
     ELSE /\ messagePool' = [messagePool EXCEPT ![d][Head(rq[d])] = m]
          /\ rq' = [rq EXCEPT ![d] = Tail(@)]
          /\ cq' = [cq EXCEPT ![d] = @ + 1]
          /\ due' = [due EXCEPT ![d] = Append(@, m)]
  /\ UNCHANGED <<sendCounter, curSend, sendPool, curMessage, th, work>>

-----------------------------------------------------------------------------
(* Receiving.                                                              *)

\* Mutant: off by one, the batch that begins is posted instead.
NextBatch(c, cur) == (cur \div subNR(c)) % kBatchCount

\* The batch whose last message is being returned.
DoneBatch(c, cur) == (cur \div subNR(c) - 1 + kBatchCount) % kBatchCount

Batch(c, b) == [i \in 1..subNR(c) |-> b * subNR(c) + i - 1]

\* Mutant: receive buffers are never posted again.
NeverRepost(c, cur) == FALSE

BatchDone(c, cur) == cur % subNR(c) = 0

\* A completion is polled (dirThread, rpc_wait); getMessage takes the buffer
\* after the last one and, at the end of a batch, posts the batch again, the
\* message it returns included.
getMessage(c) ==
  LET cur == AddRound(curMessage[c], messageNR[c]) IN
  /\ At(c, IF c \in Dir THEN "poll" ELSE "wait")
  /\ cq[c] > 0
  /\ cq' = [cq EXCEPT ![c] = @ - 1]
  /\ curMessage' = [curMessage EXCEPT ![c] = cur]
  /\ rq' = IF BatchDone(c, cur)
             THEN [rq EXCEPT ![c] = @ \o Batch(c, DoneBatch(c, cur))]
             ELSE rq
  /\ th' = [th EXCEPT ![c].pc = "handle", ![c].slot = curMessage[c]]
  /\ UNCHANGED <<messagePool, due, send, work>>

Handled(c) == messagePool[c][th[c].slot]

\* The thread reads the address it was given, and will ask the next directory.
TakeReply(t) ==
  /\ At(t, "handle")
  /\ next_target_node' =
       [next_target_node EXCEPT ![t] = AddRound(@, machineNR)]
  /\ th' = [th EXCEPT ![t].pc = "idle"]
  /\ due' = [due EXCEPT ![t] = Tail(@)]
  /\ UNCHANGED <<send, curMessage, messagePool, rq, cq, calls, roots>>

Caller(m) == m.app

\* process_message: MALLOC is answered to the node and thread the message
\* names; NEW_ROOT needs no answer.
process_message(d) ==
  LET m == Handled(d) IN
  /\ At(d, "handle")
  /\ due' = [due EXCEPT ![d] = Tail(@)]
  /\ \/ /\ m.type = "MALLOC"
        /\ getSendPool(d, Reply(m))
        /\ th' = [th EXCEPT ![d].pc = "send", ![d].slot = curSend[d],
                            ![d].to = Caller(m)]
     \/ /\ m.type = "NEW_ROOT"
        /\ th' = [th EXCEPT ![d].pc = "poll"]
        /\ UNCHANGED <<sendPool, curSend>>
  /\ UNCHANGED <<sendCounter, sq, send_cq, curMessage, messagePool, rq, cq,
                 work>>

Finished ==
  /\ \A t \in App : At(t, "idle") /\ calls[t] = 0
  /\ \A d \in Dir : At(d, "poll") /\ cq[d] = 0
  /\ \A c \in Conn : sq[c] = <<>>
  /\ UNCHANGED vars

Run(c) ==
  \/ sendRawMessage(c) \/ getMessage(c)
  \/ (c \in App /\ (rpc_call_dir(c) \/ TakeReply(c)))
  \/ (c \in Dir /\ process_message(c))

Next ==
  \/ \E t \in App, type \in {"MALLOC", "NEW_ROOT"} : Call(t, type)
  \/ \E c \in Conn : Run(c) \/ Transmit(c)
  \/ Finished

Spec == Init /\ [][Next]_vars

\* Threads spin until their completion is there; the NIC works off its queue.
FairSpec == Spec /\ \A c \in Conn : WF_vars(Run(c)) /\ WF_vars(Transmit(c))

-----------------------------------------------------------------------------
\* A send buffer is never filled again while the NIC has yet to read it: each
\* datagram carries the message that was posted, although getSendPool does not
\* wait and the message is copied before sendRawMessage polls.
SentAsPosted ==
  \A c \in Conn : \A i \in DOMAIN sq[c] :
    sendPool[c][sq[c][i].slot] = sq[c][i].m

Overruns(c) == sq[c] # <<>> /\ rq[Head(sq[c]).to] = <<>>

\* The threads that wait for an answer of directory d, and with the new roots
\* all that can be under way to it.
Asking(d) == {t \in App : At(t, "wait") /\ th[t].to = d}
Crowd(d) == Cardinality(Asking(d)) + roots

\* The receive buffers of directory d outside of the batch that is not back
\* yet, but for its last message.
Unbatched(d) == messageNR[d] - subNR(d) + 1

\* Nothing limits how many threads ask one directory at once (208 threads can,
\* and it has 128 buffers).  A datagram is lost only at a directory that is
\* asked by more at once than its ring has buffers outside of the batch that is
\* not back yet; answers are never lost.
LostOnlyInCrowd ==
  \A c \in Conn : Overruns(c) =>
    LET d == Head(sq[c]).to IN
    d \in Dir /\ Crowd(d) > Unbatched(d)

\* No directory is asked by more at once than it has buffers: beyond that a
\* datagram can take the buffer of the message that is being handled.
Bearable == \A d \in Dir : Crowd(d) <= messageNR[d]

\* The buffer getMessage returns holds the oldest message received, and still
\* does while the handler reads it, although it is posted to the NIC again; a
\* thread finds the answer to its own last call in it.
HandlesItsMessage ==
  \A c \in Conn : At(c, "handle") =>
    /\ Handled(c) = Head(due[c])
    /\ c \in App =>
         Handled(c) = [type |-> "REPLY", app |-> c, n |-> calls[c]]

\* Every call for memory is answered while nobody asks a directory in a crowd;
\* a thread whose request was dropped waits for ever.
CallsReturn ==
  [](\A d \in Dir : Crowd(d) <= Unbatched(d))
    => \A t \in App : ~At(t, "idle") ~> At(t, "idle")
=============================================================================
