----------------------------- MODULE HierLock -----------------------------
(***************************************************************************)
(* Sherman's hierarchical on-chip lock (Tree.cpp, "Local Locks" and the    *)
(* lock helpers above them) for ONE lock word and the page it protects.    *)
(*                                                                         *)
(* A thread that wants the lock first takes a ticket of its compute node's *)
(* LocalLockNode.  When served it either finds that the previous local     *)
(* holder handed the remote lock over (hand_over), or it spins on an RDMA  *)
(* compare-and-swap of the lock word in the memory node's on-chip memory.  *)
(* On release it hands over, or posts the zeroing write of the lock word   *)
(* (batched behind the page write) and, when async, frees the local lock   *)
(* BEFORE those writes have executed.                                      *)
(*                                                                         *)
(* The page and its lock live on the same memory node and every RDMA       *)
(* operation of a thread to that node goes through one reliable-connected  *)
(* queue pair, so a thread's operations execute in the order posted.       *)
(***************************************************************************)
EXTENDS Integers, FiniteSets

CONSTANTS
  Node,              \* compute nodes (one LocalLockNode of this lock each)
  Thread,            \* clients of the lock (threads of all the nodes)
  NodeOf,            \* the node a thread runs on
  Free,              \* lock word 0
  FirstTag,          \* the thread whose tag is 1, so that its conflict_tag is
                     \* the initial pre_tag 0; Free when there is none
  kMaxHandOverTime,  \* Common.h: 8
  TicketMod,         \* 2^32: width of each half of ticket_lock
  kRetryLimit,       \* the watchdog's 1000000
  MaxTickets         \* bound: tickets taken on each node in a behaviour

ASSUME ThreadAssumption ==
  /\ NodeOf \in [Thread -> Node]
  /\ Free \notin Thread
  /\ FirstTag \in Thread \cup {Free}

ASSUME NumberAssumption ==
  /\ kMaxHandOverTime \in 1..255
  /\ TicketMod \in Nat /\ TicketMod > 1
  /\ kRetryLimit \in Nat \ {0}
  /\ MaxTickets \in [Node -> Nat]

VARIABLES
  glock,      \* the remote lock word: Free or the tag of a thread
  page,       \* the page in remote memory, as the number of its updates
  ticket,     \* low half of ticket_lock, per node
  current,    \* high half of ticket_lock, per node
  hand_over,  \* the nodes whose hand_over flag is true
  hand_time,  \* LocalLockNode::hand_time, a uint8_t
  aborted,    \* the nodes whose process hit assert(false)
  pc,         \* where each thread is
  my,         \* the ticket each thread drew
  buf,        \* each thread's page buffer
  retry_cnt, pre_tag,   \* locals of try_lock_addr
  pageW,      \* threads with a posted page write that has not executed
  unlockW,    \* threads with a posted lock-word write that has not executed
  waitW,      \* threads that poll for the completion of what they posted
  acquires,   \* history: tickets drawn per node (MaxTickets bounds it)
  updates,    \* history: page modifications made by lock holders
  served      \* history: critical sections since the last successful CAS

local == <<ticket, current, hand_over, hand_time>>
casVars == <<retry_cnt, pre_tag>>
qp == <<pageW, unlockW, waitW>>
vars == <<glock, page, ticket, current, hand_over, hand_time, aborted, pc, my,
          buf, retry_cnt, pre_tag, pageW, unlockW, waitW, acquires, updates,
          served>>

Stage == {"idle", "spin", "enter", "cas", "read", "critical", "release"}

UInt8 == 256

-----------------------------------------------------------------------------
Init ==
  /\ glock = Free
  /\ page = 0
  /\ ticket = [n \in Node |-> 0]
  /\ current = [n \in Node |-> 0]
  /\ hand_over = {}
  /\ hand_time = [n \in Node |-> 0]
  /\ aborted = {}
  /\ pc = [t \in Thread |-> "idle"]
  /\ my = [t \in Thread |-> 0]
  /\ buf = [t \in Thread |-> 0]
  /\ retry_cnt = [t \in Thread |-> 0]
  /\ pre_tag = [t \in Thread |-> FirstTag]
  /\ pageW = {}
  /\ unlockW = {}
  /\ waitW = {}
  /\ acquires = [n \in Node |-> 0]
  /\ updates = 0
  /\ served = 0

\* A thread takes steps at stage s while its process lives.
At(t, s) == pc[t] = s /\ NodeOf[t] \notin aborted

Goto(t, s) == pc' = [pc EXCEPT ![t] = s]

\* Nothing that t posted is still on its queue pair.
Drained(t) == t \notin pageW /\ t \notin unlockW

\* acquire_local_lock: fetch_add(1) on the packed word.  The carry out of the
\* 32-bit low half goes into the high half, which is `current`; the thread
\* compares its ticket with the `current` of the word before the addition.
FetchTicket(t) ==
  LET n == NodeOf[t] IN
  /\ At(t, "idle")
  /\ acquires[n] < MaxTickets[n]
  /\ my' = [my EXCEPT ![t] = ticket[n]]
  /\ ticket' = [ticket EXCEPT ![n] = (@ + 1) % TicketMod]
  /\ current' = [current EXCEPT ![n] =
                   IF ticket[n] = TicketMod - 1
                   THEN (@ + 1) % TicketMod ELSE @]
  /\ acquires' = [acquires EXCEPT ![n] = @ + 1]
  /\ Goto(t, IF ticket[n] = current[n] THEN "enter" ELSE "spin")
  /\ UNCHANGED <<glock, page, hand_over, hand_time, aborted, buf, casVars, qp,
                 updates, served>>

\* acquire_local_lock: the loop reloads `current` and finds another ticket.
Spin(t) ==
  /\ At(t, "spin")
  /\ my[t] # current[NodeOf[t]]
  /\ UNCHANGED vars

\* acquire_local_lock: the wait loop ends; hand_over decides whether the remote
\* CAS is skipped.
Enter(t) ==
  LET n == NodeOf[t] IN
  /\ At(t, "enter") \/ (At(t, "spin") /\ my[t] = current[n])
  /\ hand_time' = [hand_time EXCEPT ![n] = (@ + 1) % UInt8]
  /\ IF n \in hand_over
       THEN /\ Goto(t, "read")
            /\ served' = served + 1
            /\ UNCHANGED casVars
       ELSE /\ Goto(t, "cas")
            /\ retry_cnt' = [retry_cnt EXCEPT ![t] = 0]
            /\ pre_tag' = [pre_tag EXCEPT ![t] = FirstTag]
            /\ UNCHANGED served
  /\ UNCHANGED <<glock, page, ticket, current, hand_over, aborted, my, buf, qp,
                 acquires, updates>>

\* try_lock_addr: retry_cnt++ does not exceed the watchdog's limit.
MayRetry(t) == retry_cnt[t] < kRetryLimit

\* try_lock_addr: cas_dm_sync finds 0.  The CAS executes at the memory node
\* after everything the thread posted before it.
CasSucceeds(t) ==
  /\ At(t, "cas")
  /\ Drained(t)
  /\ MayRetry(t)
  /\ glock = Free
  /\ glock' = t
  /\ served' = 1
  /\ Goto(t, "read")
  /\ UNCHANGED <<page, local, aborted, my, buf, casVars, qp, acquires,
                 updates>>

\* try_lock_addr: cas_dm_sync finds another tag; a tag that differs from the
\* previous one restarts the watchdog's count.
CasFails(t) ==
  /\ At(t, "cas")
  /\ Drained(t)
  /\ MayRetry(t)
  /\ glock # Free
  /\ retry_cnt' = [retry_cnt EXCEPT ![t] =
                     IF glock # pre_tag[t] THEN 0 ELSE @ + 1]
  /\ pre_tag' = [pre_tag EXCEPT ![t] = glock]
  /\ UNCHANGED <<glock, page, local, aborted, pc, my, buf, qp, acquires,
                 updates, served>>

\* try_lock_addr: "Deadlock", assert(false).  The whole process dies, with the
\* local lock queue; what its queue pairs still hold may or may not execute.
Watchdog(t) ==
  /\ At(t, "cas")
  /\ retry_cnt[t] = kRetryLimit
  /\ aborted' = aborted \cup {NodeOf[t]}
  /\ UNCHANGED <<glock, page, local, pc, my, buf, casVars, qp, acquires,
                 updates, served>>

\* lock_and_read_page: read_sync of the page once the lock is held.
ReadPage(t) ==
  /\ At(t, "read")
  /\ Drained(t)
  /\ buf' = [buf EXCEPT ![t] = page]
  /\ Goto(t, "critical")
  /\ UNCHANGED <<glock, page, local, aborted, my, casVars, qp, acquires,
                 updates, served>>

\* Mutant: the hand-over limit is dropped.
HandOverForever(n) == ticket[n] > (current[n] + 1) % TicketMod

\* Mutant: the holder itself counts as pending, the limit is off by one.
HandOverToNobody(n) ==
  ticket[n] > current[n] /\ hand_time[n] <= kMaxHandOverTime

\* can_hand_over's decision.
CanHandOver(n) ==
  IF ticket[n] <= (current[n] + 1) % TicketMod
    THEN FALSE                                    \* no pending locks
    ELSE hand_time[n] < kMaxHandOverTime

\* Mutant: the flag is not reset when there is no hand-over.
KeepHandOver(n) == IF CanHandOver(n) THEN hand_over \cup {n} ELSE hand_over

\* The hand_over flags after can_hand_over.
HandOverAfter(n) ==
  IF CanHandOver(n) THEN hand_over \cup {n} ELSE hand_over \ {n}

\* Mutant: a hand-over does not wait for the page write.
WaitsIfSync(n, async) == ~async

\* Who waits for the completion of its writes: the hand-over path always
\* (write_sync), the other path unless it is asynchronous.
Waits(n, async) == CanHandOver(n) \/ ~async

\* unlock_addr (write FALSE) and write_page_and_unlock (write TRUE), up to the
\* point where the RDMA writes are posted.
BeginUnlock(t, write, async) ==
  LET n == NodeOf[t] IN
  /\ At(t, "critical")
  /\ Goto(t, "release")
  /\ IF write THEN /\ buf' = [buf EXCEPT ![t] = @ + 1]
                   /\ updates' = updates + 1
                   /\ pageW' = pageW \cup {t}
              ELSE UNCHANGED <<buf, updates, pageW>>
  /\ hand_over' = HandOverAfter(n)
  /\ IF CanHandOver(n)
       THEN UNCHANGED <<hand_time, unlockW>>
       ELSE /\ hand_time' = [hand_time EXCEPT ![n] = 0]
            /\ unlockW' = unlockW \cup {t}
  /\ waitW' = IF Waits(n, async) THEN waitW \cup {t} ELSE waitW
  /\ UNCHANGED <<glock, page, ticket, current, aborted, my, casVars, acquires,
                 served>>

\* Mutant: the high half is not advanced.
ForgetRelease(n) == UNCHANGED current

\* releases_local_lock: fetch_add(1ull << 32), which wraps in the high half.
releases_local_lock(n) ==
  current' = [current EXCEPT ![n] = (@ + 1) % TicketMod]

\* The end of unlock_addr and write_page_and_unlock: the release, after the
\* completion of the posted writes unless the unlock was asynchronous.
ReleaseLocal(t) ==
  /\ At(t, "release")
  /\ t \in waitW => Drained(t)
  /\ releases_local_lock(NodeOf[t])
  /\ waitW' = waitW \ {t}
  /\ Goto(t, "idle")
  /\ UNCHANGED <<glock, page, ticket, hand_over, hand_time, aborted, my, buf,
                 casVars, pageW, unlockW, acquires, updates, served>>

\* The memory node executes t's posted page write.
DeliverPage(t) ==
  /\ t \in pageW
  /\ page' = buf[t]
  /\ pageW' = pageW \ {t}
  /\ UNCHANGED <<glock, local, aborted, pc, my, buf, casVars, unlockW, waitW,
                 acquires, updates, served>>

\* Mutant: the unlock may overtake the page write.
AnyOrder(t) == TRUE

\* The page write goes first in the batch and the queue pair keeps the order.
PageFirst(t) == t \notin pageW

\* The memory node executes t's posted write of 0 to the lock word.
DeliverUnlock(t) ==
  /\ t \in unlockW
  /\ PageFirst(t)
  /\ glock' = Free
  /\ unlockW' = unlockW \ {t}
  /\ UNCHANGED <<page, local, aborted, pc, my, buf, casVars, pageW, waitW,
                 acquires, updates, served>>

\* The clients have used up the bound, or their process is gone.
Finished ==
  /\ \A t \in Thread :
       LET n == NodeOf[t] IN
       n \in aborted \/ (pc[t] = "idle" /\ acquires[n] = MaxTickets[n])
  /\ UNCHANGED vars

Unlock(t) == \E write, async \in BOOLEAN : BeginUnlock(t, write, async)

Step(t) ==
  \/ FetchTicket(t) \/ Spin(t) \/ Enter(t)
  \/ CasSucceeds(t) \/ CasFails(t) \/ Watchdog(t)
  \/ ReadPage(t) \/ Unlock(t) \/ ReleaseLocal(t)

Deliver(t) == DeliverPage(t) \/ DeliverUnlock(t)

Next == (\E t \in Thread : Step(t) \/ Deliver(t)) \/ Finished

Spec == Init /\ [][Next]_vars

\* Threads are scheduled by the operating system and spin rather than block; a
\* critical section is straight-line code.  The NIC executes what is posted as
\* long as the process that posted it lives.
Fairness ==
  /\ \A t \in Thread : WF_vars(Step(t))
  /\ \A t \in Thread : WF_vars(NodeOf[t] \notin aborted /\ Deliver(t))

FairSpec == Spec /\ Fairness

-----------------------------------------------------------------------------
TypeOK ==
  /\ glock \in Thread \cup {Free}
  /\ page \in Nat
  /\ ticket \in [Node -> 0..TicketMod-1]
  /\ current \in [Node -> 0..TicketMod-1]
  /\ hand_over \in SUBSET Node
  /\ hand_time \in [Node -> 0..UInt8-1]
  /\ aborted \in SUBSET Node
  /\ pc \in [Thread -> Stage]
  /\ my \in [Thread -> 0..TicketMod-1]
  /\ buf \in [Thread -> Nat]
  /\ retry_cnt \in [Thread -> 0..kRetryLimit]
  /\ pre_tag \in [Thread -> Thread \cup {Free}]
  /\ pageW \in SUBSET Thread
  /\ unlockW \in SUBSET Thread
  /\ waitW \in SUBSET Thread
  /\ acquires \in [Node -> Nat]
  /\ \A n \in Node : acquires[n] <= MaxTickets[n]
  /\ updates \in Nat
  /\ served \in Nat

\* The thread owns the lock: from the end of try_lock_addr to the unlock.
Holds(t) == pc[t] \in {"read", "critical"}

\* The two levels together exclude: at most one thread of the whole cluster
\* is between try_lock_addr and the unlock, although an asynchronous unlock
\* frees the local lock while the remote word is still set.
MutualExclusion == \A t, u \in Thread : Holds(t) /\ Holds(u) => t = u

\* A thread that has read the page under the lock holds the newest version:
\* no modification made under the lock is missing from it, in particular not
\* one whose write was only posted when the local lock was passed on.
NoLostUpdate == \A t \in Thread : pc[t] = "critical" => buf[t] = updates

\* A node keeps the remote lock for at most kMaxHandOverTime critical sections
\* before other nodes can compete for it.
BoundedHandOver == served <= kMaxHandOverTime

\* Whoever draws a ticket gets the lock, or its process is stopped by the
\* watchdog.
LockProgress ==
  \A t \in Thread : pc[t] \in {"spin", "enter"}
                      ~> (pc[t] = "critical" \/ NodeOf[t] \in aborted)

\* A lock word that a thread of node n has set is zeroed (after the last of the
\* hand-overs within n), unless the process of n itself is stopped.
UnlockProgress ==
  \A n \in Node : (glock # Free /\ NodeOf[glock] = n)
                     ~> (glock = Free \/ n \in aborted)

-----------------------------------------------------------------------------
\* The parts of the inductive invariant.

\* The thread has been served by the local queue and has not left it yet.
Serving(t) == pc[t] \in {"enter", "cas", "read", "critical", "release"}

\* The remote lock word carries the tag of a thread of node n.
Owned(n) == glock # Free /\ NodeOf[glock] = n

\* The local queue: waiting threads hold distinct tickets that are still to be
\* served, and only the one whose ticket is `current` is being served.
TicketInv ==
  /\ \A n \in Node : ticket[n] = acquires[n] /\ current[n] <= ticket[n]
  /\ \A t \in Thread : pc[t] # "idle" =>
        current[NodeOf[t]] <= my[t] /\ my[t] < ticket[NodeOf[t]]
  /\ \A t \in Thread : Serving(t) => my[t] = current[NodeOf[t]]
  /\ \A t, u \in Thread :
        pc[t] # "idle" /\ pc[u] # "idle" /\ NodeOf[t] = NodeOf[u]
        /\ my[t] = my[u] => t = u

\* The remote word: it belongs to the node of the holder, of a hand-over and of
\* a posted page write; a posted zeroing belongs to a node that has neither a
\* holder nor a hand-over, and there is one at most.
OwnerInv ==
  /\ \A t \in Thread : Holds(t) => Owned(NodeOf[t])
  /\ \A n \in hand_over : Owned(n)
  /\ \A t \in pageW : Owned(NodeOf[t])
  /\ \A t \in unlockW :
        /\ Owned(NodeOf[t])
        /\ NodeOf[t] \notin hand_over
        /\ \A u \in Thread : NodeOf[u] = NodeOf[t] => ~Holds(u)
        /\ \A u \in unlockW : u = t

\* The page: the newest version is in memory or in the one posted page write,
\* which the local lock or the remote lock still covers.
DataInv ==
  /\ pageW = {} => page = updates
  /\ \A t \in pageW :
        /\ buf[t] = updates
        /\ \/ t \in unlockW
           \/ pc[t] = "release" /\ t \in waitW /\ NodeOf[t] \in hand_over
        /\ \A u \in pageW : u = t
  /\ NoLostUpdate

\* The hand-over counter counts the critical sections since the last CAS.
HandInv ==
  /\ BoundedHandOver
  /\ \A t \in Thread : pc[t] = "cas" =>
        NodeOf[t] \notin hand_over /\ hand_time[NodeOf[t]] = 1
  /\ \A t \in Thread : Holds(t) => hand_time[NodeOf[t]] = served
  /\ \A n \in hand_over :
        (\A t \in Thread : NodeOf[t] = n => ~Holds(t))
          => hand_time[n] = served /\ served < kMaxHandOverTime
  /\ \A n \in Node \ hand_over :
        (\A t \in Thread : NodeOf[t] = n => ~Holds(t) /\ pc[t] # "cas")
          => hand_time[n] = 0

\* The inductive invariant: a hand-over never lets the remote word go, a posted
\* zeroing never meets a holder, and no page write is overtaken.
LockInv == TypeOK /\ TicketInv /\ OwnerInv /\ DataInv /\ HandInv

-----------------------------------------------------------------------------
\* The page as the next owner must see it: the posted write if there is one.
NewestPage ==
  IF pageW = {} THEN page ELSE buf[CHOOSE t \in pageW : TRUE]

Owner ==
  IF \E t \in Thread : pc[t] = "critical"
    THEN CHOOSE t \in Thread : pc[t] = "critical"
    ELSE Free

Abstract == INSTANCE LockedPage
  WITH NoOne <- Free, owner <- Owner, value <- NewestPage, got <- buf

\* Tickets, CAS, hand-over and posted writes together implement a page with
\* one owner at a time, in which a released modification is in place at once.
ImplementsLockedPage == Abstract!Spec
=============================================================================
