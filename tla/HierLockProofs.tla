-------------------------- MODULE HierLockProofs --------------------------
(***************************************************************************)
(* Proofs about HierLock, for every number of nodes and threads and every  *)
(* kMaxHandOverTime, kRetryLimit and bound.  LockInv is inductive as long  *)
(* as no node draws so many tickets that the low half of ticket_lock       *)
(* wraps; that limit is the hypothesis TicketsFit of the theorems,         *)
(* because beyond it the lock does not work: with a modulus of 4 the fifth *)
(* ticket lets a thread overtake one that waits.                           *)
(***************************************************************************)
EXTENDS HierLock, TLAPS

\* No node draws as many tickets as the ticket half can tell apart.
TicketsFit == \A n \in Node : MaxTickets[n] < TicketMod

-----------------------------------------------------------------------------
(* Consequences of the invariant in one state.                             *)

\* Below the modulus a successor does not wrap.
LEMMA NoWrap ==
  ASSUME NEW M \in Nat, NEW x \in Nat, x + 1 < M
  PROVE  (x + 1) % M = x + 1
  OBVIOUS

\* fetch_add(1) on ticket_lock: no carry reaches `current`.
LEMMA FetchTicketEffect ==
  ASSUME LockInv, TicketsFit, NEW t \in Thread, FetchTicket(t)
  PROVE  /\ ticket' = [ticket EXCEPT ![NodeOf[t]] = ticket[NodeOf[t]] + 1]
         /\ current' = current
<1> USE ThreadAssumption, NumberAssumption DEF LockInv
<1>1. ticket[NodeOf[t]] + 1 < TicketMod /\ ticket[NodeOf[t]] \in Nat
  <2>1. acquires[NodeOf[t]] < MaxTickets[NodeOf[t]]
    BY DEF FetchTicket
  <2>. QED
    BY <2>1 DEF TypeOK, TicketInv, TicketsFit
<1>2. (ticket[NodeOf[t]] + 1) % TicketMod = ticket[NodeOf[t]] + 1
  BY <1>1, NoWrap
<1>3. ticket' = [ticket EXCEPT ![NodeOf[t]] =
                   (ticket[NodeOf[t]] + 1) % TicketMod]
  BY DEF FetchTicket
<1>4. current' = [current EXCEPT ![NodeOf[t]] = current[NodeOf[t]]]
  <2>1. ticket[NodeOf[t]] # TicketMod - 1
    BY <1>1
  <2>. QED
    BY <2>1 DEF FetchTicket
<1>5. current' = current
  BY <1>4 DEF TypeOK
<1>. QED
  BY <1>2, <1>3, <1>5

\* fetch_add(1ull << 32) on ticket_lock: the next ticket is served.
LEMMA ReleaseLocalEffect ==
  ASSUME LockInv, TicketsFit, NEW t \in Thread, ReleaseLocal(t)
  PROVE  current' = [current EXCEPT ![NodeOf[t]] = current[NodeOf[t]] + 1]
<1> USE ThreadAssumption, NumberAssumption DEF LockInv
<1>1. current[NodeOf[t]] + 1 < TicketMod /\ current[NodeOf[t]] \in Nat
  BY DEF ReleaseLocal, At, TypeOK, TicketInv
<1>2. (current[NodeOf[t]] + 1) % TicketMod = current[NodeOf[t]] + 1
  BY <1>1, NoWrap
<1>. QED
  BY <1>2 DEF ReleaseLocal, releases_local_lock, TypeOK

\* The local queue serves one thread at a time (acquire_local_lock).
LEMMA OneServing ==
  ASSUME LockInv, NEW t \in Thread, NEW u \in Thread,
         Serving(t), Serving(u), NodeOf[t] = NodeOf[u]
  PROVE  t = u
  BY ThreadAssumption DEF LockInv, TypeOK, TicketInv, Serving

\* Who holds the lock is alone, and nothing is posted on the lock or page.
LEMMA HolderAlone ==
  ASSUME LockInv, NEW t \in Thread, Holds(t)
  PROVE  /\ \A u \in Thread : Serving(u) /\ NodeOf[u] = NodeOf[t] => u = t
         /\ \A u \in Thread : Holds(u) => u = t
         /\ pageW = {} /\ unlockW = {}
<1> USE ThreadAssumption DEF LockInv
<1>1. \A u \in Thread : Serving(u) /\ NodeOf[u] = NodeOf[t] => u = t
  BY OneServing DEF Holds, Serving
<1>2. \A u \in Thread : Holds(u) => u = t
  BY <1>1 DEF OwnerInv, Owned, Holds, Serving
<1>3. unlockW = {}
  BY DEF TypeOK, OwnerInv, Owned
<1>4. pageW = {}
  BY <1>1, <1>3 DEF TypeOK, OwnerInv, DataInv, Owned, Holds, Serving
<1>. QED
  BY <1>1, <1>2, <1>3, <1>4

\* The thread that leaves the wait loop finds no other thread being served.
LEMMA EnterAlone ==
  ASSUME LockInv, NEW t \in Thread, Enter(t)
  PROVE  \A u \in Thread \ {t} : NodeOf[u] = NodeOf[t] => ~Serving(u)
<1> USE ThreadAssumption DEF LockInv
<1>1. pc[t] # "idle" /\ my[t] = current[NodeOf[t]]
  BY DEF Enter, At, TypeOK, TicketInv, Serving
<1>. QED
  BY <1>1 DEF TypeOK, TicketInv, Serving

-----------------------------------------------------------------------------
(* Each part of the invariant is preserved by every step.                  *)

\* Every variable keeps its type.
LEMMA TypeOKStep ==
  ASSUME LockInv, TicketsFit, [Next]_vars
  PROVE  TypeOK'
<1> USE ThreadAssumption, NumberAssumption DEF LockInv
<1>1. ASSUME UNCHANGED vars PROVE TypeOK'
  BY <1>1 DEF vars, TypeOK, Stage, UInt8
<1>2. ASSUME NEW t \in Thread, FetchTicket(t) PROVE TypeOK'
  BY <1>2 DEF FetchTicket, At, Goto, casVars, qp, TypeOK, Stage, UInt8
<1>3. ASSUME NEW t \in Thread, Enter(t) PROVE TypeOK'
  <2>1. hand_time' \in [Node -> 0..UInt8-1]
    <3>1. \A x \in 0..UInt8-1 : (x + 1) % UInt8 \in 0..UInt8-1
      BY DEF UInt8
    <3>. QED
      BY <1>3, <3>1 DEF Enter, TypeOK
  <2>2. /\ pc' \in [Thread -> Stage]
        /\ retry_cnt' \in [Thread -> 0..kRetryLimit]
        /\ pre_tag' \in [Thread -> Thread \cup {Free}]
        /\ served' \in Nat
    BY <1>3, SMTT(30) DEF Enter, Goto, casVars, TypeOK, Stage
  <2>. QED
    BY <1>3, <2>1, <2>2 DEF Enter, qp, TypeOK
<1>4. ASSUME NEW t \in Thread, CasSucceeds(t) PROVE TypeOK'
  BY <1>4
  DEF CasSucceeds, At, Goto, Drained, local, casVars, qp, TypeOK, Stage, UInt8
<1>5. ASSUME NEW t \in Thread, CasFails(t) PROVE TypeOK'
  BY <1>5 DEF CasFails, MayRetry, At, Drained, local, qp, TypeOK, Stage, UInt8
<1>6. ASSUME NEW t \in Thread, Watchdog(t) PROVE TypeOK'
  BY <1>6 DEF Watchdog, At, local, casVars, qp, TypeOK, Stage, UInt8
<1>7. ASSUME NEW t \in Thread, ReadPage(t) PROVE TypeOK'
  BY <1>7
  DEF ReadPage, At, Goto, Drained, local, casVars, qp, TypeOK, Stage, UInt8
<1>8. ASSUME NEW t \in Thread, Unlock(t) PROVE TypeOK'
  BY <1>8
  DEF Unlock, BeginUnlock, At, Goto, CanHandOver,
      HandOverAfter, Waits, casVars, TypeOK, Stage, UInt8
<1>9. ASSUME NEW t \in Thread, ReleaseLocal(t) PROVE TypeOK'
  BY <1>9 DEF ReleaseLocal, releases_local_lock, At, Goto, Drained, casVars,
      TypeOK, Stage, UInt8
<1>10. ASSUME NEW t \in Thread, DeliverPage(t) PROVE TypeOK'
  BY <1>10 DEF DeliverPage, local, casVars, TypeOK, Stage, UInt8
<1>11. ASSUME NEW t \in Thread, DeliverUnlock(t) PROVE TypeOK'
  BY <1>11 DEF DeliverUnlock, PageFirst, local, casVars, TypeOK, Stage, UInt8
<1>. QED
  BY <1>1, <1>2, <1>3, <1>4, <1>5, <1>6, <1>7, <1>8, <1>9, <1>10, <1>11
  DEF Next, Step, Spin, Deliver, Finished

\* The local ticket queue keeps its order (acquire_local_lock,
\* releases_local_lock).
LEMMA TicketInvStep ==
  ASSUME LockInv, TicketsFit, [Next]_vars
  PROVE  TicketInv'
<1> USE ThreadAssumption, NumberAssumption DEF LockInv
<1>1. ASSUME UNCHANGED vars PROVE TicketInv'
  BY <1>1 DEF vars, TypeOK, TicketInv, Serving
<1>2. ASSUME NEW t \in Thread, FetchTicket(t) PROVE TicketInv'
  <2>1. /\ ticket' = [ticket EXCEPT ![NodeOf[t]] = ticket[NodeOf[t]] + 1]
        /\ current' = current
    BY <1>2, FetchTicketEffect
  <2>2. /\ acquires' = [acquires EXCEPT ![NodeOf[t]] = acquires[NodeOf[t]] + 1]
        /\ my' = [my EXCEPT ![t] = ticket[NodeOf[t]]]
        /\ pc' = [pc EXCEPT ![t] =
                    IF ticket[NodeOf[t]] = current[NodeOf[t]]
                      THEN "enter" ELSE "spin"]
    BY <1>2 DEF FetchTicket, Goto
  <2>. QED
    BY <2>1, <2>2 DEF TypeOK, TicketInv, Serving
<1>3. ASSUME NEW t \in Thread, Enter(t) PROVE TicketInv'
  BY <1>3 DEF Enter, At, Goto, casVars, qp, TypeOK, TicketInv, Serving
<1>4. ASSUME NEW t \in Thread, CasSucceeds(t) PROVE TicketInv'
  BY <1>4
  DEF CasSucceeds, At, Goto, Drained, local, casVars, qp,
      TypeOK, TicketInv, Serving
<1>5. ASSUME NEW t \in Thread, CasFails(t) PROVE TicketInv'
  BY <1>5 DEF CasFails, MayRetry, At, Drained, local, qp, TypeOK, TicketInv,
      Serving
<1>6. ASSUME NEW t \in Thread, Watchdog(t) PROVE TicketInv'
  BY <1>6 DEF Watchdog, At, local, casVars, qp, TypeOK, TicketInv, Serving
<1>7. ASSUME NEW t \in Thread, ReadPage(t) PROVE TicketInv'
  BY <1>7
  DEF ReadPage, At, Goto, Drained, local, casVars, qp,
      TypeOK, TicketInv, Serving
<1>8. ASSUME NEW t \in Thread, Unlock(t) PROVE TicketInv'
  BY <1>8
  DEF Unlock, BeginUnlock, At, Goto, CanHandOver,
      HandOverAfter, Waits, casVars,
      TypeOK, TicketInv, Serving
<1>9. ASSUME NEW t \in Thread, ReleaseLocal(t) PROVE TicketInv'
  <2>1. current' = [current EXCEPT ![NodeOf[t]] = current[NodeOf[t]] + 1]
    BY <1>9, ReleaseLocalEffect
  <2>2. /\ pc[t] = "release" /\ pc' = [pc EXCEPT ![t] = "idle"]
        /\ UNCHANGED <<ticket, acquires, my>>
    BY <1>9 DEF ReleaseLocal, releases_local_lock, At, Goto
  <2>. QED
    BY <2>1, <2>2 DEF TypeOK, TicketInv, Serving
<1>10. ASSUME NEW t \in Thread, DeliverPage(t) PROVE TicketInv'
  BY <1>10 DEF DeliverPage, local, casVars, TypeOK, TicketInv, Serving
<1>11. ASSUME NEW t \in Thread, DeliverUnlock(t) PROVE TicketInv'
  BY <1>11 DEF DeliverUnlock, PageFirst, local, casVars, TypeOK, TicketInv,
      Serving
<1>. QED
  BY <1>1, <1>2, <1>3, <1>4, <1>5, <1>6, <1>7, <1>8, <1>9, <1>10, <1>11
  DEF Next, Step, Spin, Deliver, Finished

\* The remote word stays with the node that uses it (try_lock_addr,
\* unlock_addr, write_page_and_unlock).
LEMMA OwnerInvStep ==
  ASSUME LockInv, TicketsFit, [Next]_vars
  PROVE  OwnerInv'
<1> USE ThreadAssumption, NumberAssumption DEF LockInv
<1>a. \A t \in Thread : Holds(t) =>
          pageW = {} /\ unlockW = {} /\ \A u \in Thread : Holds(u) => u = t
  BY HolderAlone
<1>1. ASSUME UNCHANGED vars PROVE OwnerInv'
  BY <1>1 DEF vars, TypeOK, OwnerInv, Owned, Holds
<1>2. ASSUME NEW t \in Thread, FetchTicket(t) PROVE OwnerInv'
  BY <1>a, <1>2
  DEF FetchTicket, At, Goto, casVars, qp, TypeOK, OwnerInv, Owned, Holds
<1>3. ASSUME NEW t \in Thread, Enter(t) PROVE OwnerInv'
  BY <1>a, <1>3
  DEF Enter, At, Goto, casVars, qp, TypeOK, OwnerInv, Owned, Holds
<1>4. ASSUME NEW t \in Thread, CasSucceeds(t) PROVE OwnerInv'
  BY <1>a, <1>4
  DEF CasSucceeds, At, Goto, Drained, local, casVars, qp,
      TypeOK, OwnerInv, Owned, Holds
<1>5. ASSUME NEW t \in Thread, CasFails(t) PROVE OwnerInv'
  BY <1>a, <1>5
  DEF CasFails, MayRetry, At, Drained, local, qp, TypeOK, OwnerInv, Owned,
      Holds
<1>6. ASSUME NEW t \in Thread, Watchdog(t) PROVE OwnerInv'
  BY <1>a, <1>6
  DEF Watchdog, At, local, casVars, qp, TypeOK, OwnerInv, Owned, Holds
<1>7. ASSUME NEW t \in Thread, ReadPage(t) PROVE OwnerInv'
  BY <1>a, <1>7
  DEF ReadPage, At, Goto, Drained, local, casVars, qp,
      TypeOK, OwnerInv, Owned, Holds
<1>8. ASSUME NEW t \in Thread, Unlock(t) PROVE OwnerInv'
  BY <1>a, <1>8
  DEF Unlock, BeginUnlock, At, Goto, CanHandOver,
      HandOverAfter, Waits, casVars,
      TypeOK, OwnerInv, Owned, Holds
<1>9. ASSUME NEW t \in Thread, ReleaseLocal(t) PROVE OwnerInv'
  BY <1>a, <1>9
  DEF ReleaseLocal, releases_local_lock, At, Goto, Drained, casVars, TypeOK,
      OwnerInv, Owned, Holds
<1>10. ASSUME NEW t \in Thread, DeliverPage(t) PROVE OwnerInv'
  BY <1>a, <1>10
  DEF DeliverPage, local, casVars, TypeOK, OwnerInv, Owned, Holds
<1>11. ASSUME NEW t \in Thread, DeliverUnlock(t) PROVE OwnerInv'
  <2>1. \A u \in Thread : ~Holds(u)
    BY <1>11 DEF DeliverUnlock, OwnerInv, Owned
  <2>2. hand_over = {}
    BY <1>11 DEF DeliverUnlock, OwnerInv, Owned
  <2>3. pageW = {} /\ unlockW' = {}
    BY <1>11, <2>2 DEF DeliverUnlock, PageFirst, TypeOK, OwnerInv, DataInv
  <2>. QED
    BY <1>11, <2>1, <2>2, <2>3 DEF DeliverUnlock, local, OwnerInv, Holds
<1>. QED
  BY <1>1, <1>2, <1>3, <1>4, <1>5, <1>6, <1>7, <1>8, <1>9, <1>10, <1>11
  DEF Next, Step, Spin, Deliver, Finished

\* The newest page is in memory or in the one posted write
\* (write_page_and_unlock).
LEMMA DataInvStep ==
  ASSUME LockInv, TicketsFit, [Next]_vars
  PROVE  DataInv'
<1> USE ThreadAssumption, NumberAssumption DEF LockInv
<1>a. \A t \in Thread : Holds(t) =>
          pageW = {} /\ unlockW = {} /\ \A u \in Thread : Holds(u) => u = t
  BY HolderAlone
<1>1. ASSUME UNCHANGED vars PROVE DataInv'
  BY <1>1 DEF vars, TypeOK, DataInv, NoLostUpdate, Holds
<1>2. ASSUME NEW t \in Thread, FetchTicket(t) PROVE DataInv'
  BY <1>a, <1>2
  DEF FetchTicket, At, Goto, casVars, qp, TypeOK, DataInv, NoLostUpdate, Holds
<1>3. ASSUME NEW t \in Thread, Enter(t) PROVE DataInv'
  BY <1>a, <1>3
  DEF Enter, At, Goto, casVars, qp, TypeOK, DataInv, NoLostUpdate, Holds
<1>4. ASSUME NEW t \in Thread, CasSucceeds(t) PROVE DataInv'
  BY <1>a, <1>4
  DEF CasSucceeds, At, Goto, Drained, local, casVars, qp,
      TypeOK, DataInv, NoLostUpdate, Holds
<1>5. ASSUME NEW t \in Thread, CasFails(t) PROVE DataInv'
  BY <1>a, <1>5
  DEF CasFails, MayRetry, At, Drained, local, qp, TypeOK, DataInv,
      NoLostUpdate, Holds
<1>6. ASSUME NEW t \in Thread, Watchdog(t) PROVE DataInv'
  BY <1>a, <1>6
  DEF Watchdog, At, local, casVars, qp, TypeOK, DataInv, NoLostUpdate, Holds
<1>7. ASSUME NEW t \in Thread, ReadPage(t) PROVE DataInv'
  BY <1>a, <1>7
  DEF ReadPage, At, Goto, Drained, local, casVars, qp,
      TypeOK, DataInv, NoLostUpdate, Holds
<1>8. ASSUME NEW t \in Thread, Unlock(t) PROVE DataInv'
  BY <1>a, <1>8
  DEF Unlock, BeginUnlock, At, Goto, CanHandOver,
      HandOverAfter, Waits, casVars,
      TypeOK, DataInv, NoLostUpdate, Holds
<1>9. ASSUME NEW t \in Thread, ReleaseLocal(t) PROVE DataInv'
  BY <1>a, <1>9
  DEF ReleaseLocal, releases_local_lock, At, Goto, Drained, casVars,
      TypeOK, DataInv, NoLostUpdate, Holds
<1>10. ASSUME NEW t \in Thread, DeliverPage(t) PROVE DataInv'
  BY <1>a, <1>10
  DEF DeliverPage, local, casVars, TypeOK, DataInv, NoLostUpdate, Holds
<1>11. ASSUME NEW t \in Thread, DeliverUnlock(t) PROVE DataInv'
  BY <1>a, <1>11
  DEF DeliverUnlock, PageFirst, local, casVars, TypeOK, DataInv,
      NoLostUpdate, Holds
<1>. QED
  BY <1>1, <1>2, <1>3, <1>4, <1>5, <1>6, <1>7, <1>8, <1>9, <1>10, <1>11
  DEF Next, Step, Spin, Deliver, Finished

\* hand_time counts the critical sections under one CAS (can_hand_over).
LEMMA HandInvStep ==
  ASSUME LockInv, TicketsFit, [Next]_vars
  PROVE  HandInv'
<1> USE ThreadAssumption, NumberAssumption DEF LockInv
<1>a. \A t, u \in Thread :
          Serving(t) /\ Serving(u) /\ NodeOf[t] = NodeOf[u] => t = u
  BY OneServing
<1>1. ASSUME UNCHANGED vars PROVE HandInv'
  BY <1>1 DEF vars, TypeOK, OwnerInv, HandInv, BoundedHandOver, Owned, Holds
<1>2. ASSUME NEW t \in Thread, FetchTicket(t) PROVE HandInv'
  BY <1>a, <1>2
  DEF FetchTicket, At, Goto, casVars, qp,
      TypeOK, OwnerInv, HandInv, BoundedHandOver, Owned, Holds, Serving
<1>3. ASSUME NEW t \in Thread, Enter(t) PROVE HandInv'
  <2>1. \A u \in Thread \ {t} :
           NodeOf[u] = NodeOf[t] => ~Holds(u) /\ pc[u] # "cas"
    BY <1>3, EnterAlone DEF Holds, Serving
  <2>2. ~Holds(t) /\ pc[t] # "cas" /\ NodeOf[t] \in Node
    BY <1>3 DEF Enter, At, Holds
  <2>3. CASE NodeOf[t] \in hand_over
    <3>1. hand_time[NodeOf[t]] = served /\ served < kMaxHandOverTime
      BY <2>1, <2>2, <2>3 DEF HandInv
    <3>2. /\ pc' = [pc EXCEPT ![t] = "read"]
          /\ served' = served + 1
          /\ hand_time' = [hand_time EXCEPT ![NodeOf[t]] =
                             (hand_time[NodeOf[t]] + 1) % UInt8]
          /\ hand_over' = hand_over
      BY <1>3, <2>3 DEF Enter, Goto
    <3>3. (hand_time[NodeOf[t]] + 1) % UInt8 = served'
      <4>1. served \in Nat /\ served + 1 < UInt8 /\ UInt8 \in Nat
        BY <3>1 DEF UInt8, TypeOK
      <4>2. (served + 1) % UInt8 = served + 1
        BY <4>1, NoWrap
      <4>. QED
        BY <3>1, <3>2, <4>2
    <3>4. \A u \in Thread : Holds(u) => u = t \/ NodeOf[u] # NodeOf[t]
      BY <2>1
    <3>5. \A n \in hand_over : n = NodeOf[t]
      BY <2>3 DEF OwnerInv, Owned
    <3>6. \A u \in Thread : ~Holds(u)
      BY <2>3, <3>4, <2>2 DEF OwnerInv, Owned
    <3>. QED
      BY <2>2, <2>3, <3>1, <3>2, <3>3, <3>5, <3>6
      DEF TypeOK, HandInv, BoundedHandOver, Holds
  <2>4. CASE NodeOf[t] \notin hand_over
    <3>1. hand_time[NodeOf[t]] = 0
      BY <2>1, <2>2, <2>4 DEF HandInv
    <3>2. /\ pc' = [pc EXCEPT ![t] = "cas"]
          /\ served' = served
          /\ hand_time' = [hand_time EXCEPT ![NodeOf[t]] =
                             (hand_time[NodeOf[t]] + 1) % UInt8]
          /\ hand_over' = hand_over
      BY <1>3, <2>4 DEF Enter, Goto
    <3>3. (hand_time[NodeOf[t]] + 1) % UInt8 = 1
      BY <3>1 DEF UInt8
    <3>. QED
      BY <2>1, <2>2, <2>4, <3>2, <3>3
      DEF TypeOK, HandInv, BoundedHandOver, Holds
  <2>. QED
    BY <2>3, <2>4
<1>4. ASSUME NEW t \in Thread, CasSucceeds(t) PROVE HandInv'
  BY <1>a, <1>4
  DEF CasSucceeds, At, Goto, Drained, local, casVars, qp,
      TypeOK, OwnerInv, HandInv, BoundedHandOver, Owned, Holds, Serving
<1>5. ASSUME NEW t \in Thread, CasFails(t) PROVE HandInv'
  BY <1>a, <1>5
  DEF CasFails, MayRetry, At, Drained, local, qp,
      TypeOK, OwnerInv, HandInv, BoundedHandOver, Owned, Holds, Serving
<1>6. ASSUME NEW t \in Thread, Watchdog(t) PROVE HandInv'
  BY <1>a, <1>6
  DEF Watchdog, At, local, casVars, qp,
      TypeOK, OwnerInv, HandInv, BoundedHandOver, Owned, Holds, Serving
<1>7. ASSUME NEW t \in Thread, ReadPage(t) PROVE HandInv'
  BY <1>a, <1>7
  DEF ReadPage, At, Goto, Drained, local, casVars, qp,
      TypeOK, OwnerInv, HandInv, BoundedHandOver, Owned, Holds, Serving
<1>8. ASSUME NEW t \in Thread, Unlock(t) PROVE HandInv'
  BY <1>a, <1>8
  DEF Unlock, BeginUnlock, At, Goto, CanHandOver,
      HandOverAfter, Waits, casVars,
      TypeOK, OwnerInv, HandInv, BoundedHandOver, Owned, Holds, Serving
<1>9. ASSUME NEW t \in Thread, ReleaseLocal(t) PROVE HandInv'
  BY <1>a, <1>9
  DEF ReleaseLocal, releases_local_lock, At, Goto, Drained, casVars,
      TypeOK, OwnerInv, HandInv, BoundedHandOver, Owned, Holds, Serving
<1>10. ASSUME NEW t \in Thread, DeliverPage(t) PROVE HandInv'
  BY <1>a, <1>10
  DEF DeliverPage, local, casVars,
      TypeOK, OwnerInv, HandInv, BoundedHandOver, Owned, Holds, Serving
<1>11. ASSUME NEW t \in Thread, DeliverUnlock(t) PROVE HandInv'
  BY <1>a, <1>11
  DEF DeliverUnlock, PageFirst, local, casVars,
      TypeOK, OwnerInv, HandInv, BoundedHandOver, Owned, Holds, Serving
<1>. QED
  BY <1>1, <1>2, <1>3, <1>4, <1>5, <1>6, <1>7, <1>8, <1>9, <1>10, <1>11
  DEF Next, Step, Spin, Deliver, Finished

-----------------------------------------------------------------------------
(* The theorems.                                                           *)

\* Initially no thread has a ticket, nothing is posted and the word is zero.
LEMMA LockInvInit == Init => LockInv
  BY ThreadAssumption, NumberAssumption
  DEF Init, LockInv, TypeOK, Stage, UInt8, TicketInv, OwnerInv, DataInv, 
      HandInv, Serving, Holds, NoLostUpdate, BoundedHandOver

\* LockInv is an inductive invariant of the lock code: every step of
\* try_lock_addr, unlock_addr, write_page_and_unlock and of the NIC keeps it.
THEOREM LockInvariant ==
  ASSUME TicketsFit
  PROVE  Spec => []LockInv
<1>1. LockInv /\ [Next]_vars => LockInv'
  BY TypeOKStep, TicketInvStep, OwnerInvStep, DataInvStep, HandInvStep
  DEF LockInv
<1>. QED
  BY LockInvInit, <1>1, PTL DEF Spec

\* Type correctness of the lock's state (LocalLockNode, the lock word, the
\* locals of try_lock_addr).
THEOREM TypeCorrect ==
  ASSUME TicketsFit
  PROVE  Spec => []TypeOK
<1>1. LockInv => TypeOK
  BY DEF LockInv
<1>. QED
  BY LockInvariant, <1>1, PTL

\* The invariant excludes two holders.
LEMMA InvExcludes == LockInv => MutualExclusion
  BY HolderAlone DEF MutualExclusion

\* At most one thread of the cluster is between try_lock_addr and the unlock,
\* with hand-over and with unlocks that free the local lock early.
THEOREM MutualExclusionHolds ==
  ASSUME TicketsFit
  PROVE  Spec => []MutualExclusion
  BY LockInvariant, InvExcludes, PTL

\* The page that lock_and_read_page returns contains every modification made
\* under the lock before, including those only posted by an async unlock.
THEOREM NoLostUpdateHolds ==
  ASSUME TicketsFit
  PROVE  Spec => []NoLostUpdate
<1>1. LockInv => NoLostUpdate
  BY DEF LockInv, DataInv
<1>. QED
  BY LockInvariant, <1>1, PTL

\* can_hand_over lets one node keep the remote lock for kMaxHandOverTime
\* critical sections at most.
THEOREM BoundedHandOverHolds ==
  ASSUME TicketsFit
  PROVE  Spec => []BoundedHandOver
<1>1. LockInv => BoundedHandOver
  BY DEF LockInv, HandInv
<1>. QED
  BY LockInvariant, <1>1, PTL

-----------------------------------------------------------------------------
(* The lock implements LockedPage.                                         *)

\* The abstract page is the newest version, in memory or posted.
LEMMA NewestIsUpdates == LockInv => NewestPage = updates
  BY DEF LockInv, TypeOK, DataInv, NewestPage

\* The abstract owner is the thread in its critical section, if any.
LEMMA OwnerIsHolder ==
  ASSUME LockInv
  PROVE  /\ \A t \in Thread : pc[t] = "critical" => Owner = t
         /\ (\A t \in Thread : pc[t] # "critical") => Owner = Free
  BY HolderAlone DEF Owner, Holds

\* The same exclusion in the next state.
LEMMA InvExcludesNext == LockInv' => MutualExclusion'
  BY InvExcludes, PTL

\* Each step of the lock is a step of the abstract page or a stutter.
LEMMA AbstractStep ==
  ASSUME LockInv, LockInv', [Next]_vars
  PROVE  [Abstract!Next]_(Abstract!vars)
<1> USE ThreadAssumption
<1>1. NewestPage = updates /\ NewestPage' = updates'
  <2>1. NewestPage = updates
    BY NewestIsUpdates
  <2>2. NewestPage' = updates'
    BY DEF LockInv, TypeOK, DataInv, NewestPage
  <2>. QED
    BY <2>1, <2>2
<1>2. /\ \A t \in Thread : pc[t] = "critical" => Owner = t
      /\ (\A t \in Thread : pc[t] # "critical") => Owner = Free
  BY OwnerIsHolder
<1>3. /\ \A t \in Thread : pc'[t] = "critical" => Owner' = t
      /\ (\A t \in Thread : pc'[t] # "critical") => Owner' = Free
  <2>1. \A t, u \in Thread :
           pc'[t] = "critical" /\ pc'[u] = "critical" => t = u
    BY InvExcludesNext DEF MutualExclusion, Holds
  <2>. QED
    BY <2>1 DEF Owner
<1>4. ASSUME UNCHANGED <<buf, updates>>,
             \A t \in Thread : pc'[t] = "critical" <=> pc[t] = "critical"
      PROVE  UNCHANGED Abstract!vars
  BY <1>1, <1>2, <1>3, <1>4 DEF Abstract!vars
<1>5. ASSUME NEW t \in Thread, ReadPage(t) PROVE Abstract!LockAndRead(t)
  <2>1. pc[t] = "read" /\ pc' = [pc EXCEPT ![t] = "critical"]
    BY <1>5 DEF ReadPage, At, Goto
  <2>2. pageW = {} /\ \A u \in Thread : pc[u] # "critical"
    BY <2>1, HolderAlone DEF Holds
  <2>3. Owner = Free /\ Owner' = t
    BY <1>2, <1>3, <2>1, <2>2 DEF LockInv, TypeOK
  <2>4. page = NewestPage /\ NewestPage' = NewestPage
    BY <1>1, <1>5, <2>2 DEF ReadPage, LockInv, DataInv
  <2>. QED
    BY <1>5, <2>3, <2>4 DEF ReadPage, Abstract!LockAndRead
<1>6. ASSUME NEW t \in Thread, NEW write \in BOOLEAN, NEW async \in BOOLEAN,
             BeginUnlock(t, write, async)
      PROVE  Abstract!Unlock(t) \/ Abstract!WriteAndUnlock(t)
  <2>1. pc[t] = "critical" /\ pc' = [pc EXCEPT ![t] = "release"]
    BY <1>6 DEF BeginUnlock, At, Goto
  <2>2. Owner = t /\ buf[t] = updates
    BY <1>2, <2>1 DEF LockInv, DataInv, NoLostUpdate
  <2>3. Owner' = Free
    BY <1>3, <2>1, HolderAlone DEF LockInv, TypeOK, Holds
  <2>4. CASE write
    BY <1>1, <1>6, <2>2, <2>3, <2>4 DEF BeginUnlock, Abstract!WriteAndUnlock
  <2>5. CASE ~write
    BY <1>1, <1>6, <2>2, <2>3, <2>5 DEF BeginUnlock, Abstract!Unlock
  <2>. QED
    BY <2>4, <2>5
<1>7. ASSUME NEW t \in Thread,
             \/ FetchTicket(t) \/ Enter(t) \/ CasSucceeds(t) \/ CasFails(t)
             \/ Watchdog(t) \/ ReleaseLocal(t) \/ Deliver(t)
      PROVE  UNCHANGED Abstract!vars
  <2>1. /\ UNCHANGED <<buf, updates>>
        /\ \A u \in Thread : pc'[u] = "critical" <=> pc[u] = "critical"
    BY <1>7 DEF LockInv, TypeOK, FetchTicket, Enter, CasSucceeds, CasFails,
      Watchdog, ReleaseLocal, Deliver, DeliverPage, DeliverUnlock, At, Goto
  <2>. QED
    BY <1>4, <2>1
<1>8. ASSUME UNCHANGED vars PROVE UNCHANGED Abstract!vars
  BY <1>4, <1>8 DEF vars
<1>. QED
  BY <1>5, <1>6, <1>7, <1>8
  DEF Next, Step, Spin, Unlock, Finished, Abstract!Next

\* The two-level lock with hand-over and posted writes implements a page with
\* one owner at a time whose modifications are in place when it is released.
THEOREM LockRefinement ==
  ASSUME TicketsFit
  PROVE  Spec => ImplementsLockedPage
<1>1. Init => Abstract!Init
  BY ThreadAssumption DEF Init, Abstract!Init, Owner, NewestPage
<1>2. LockInv /\ LockInv' /\ [Next]_vars => [Abstract!Next]_(Abstract!vars)
  BY AbstractStep
<1>. QED
  BY LockInvariant, <1>1, <1>2, PTL
  DEF Spec, ImplementsLockedPage, Abstract!Spec
=============================================================================
