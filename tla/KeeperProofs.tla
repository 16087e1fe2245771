---------------------------- MODULE KeeperProofs ----------------------------
(***************************************************************************)
(* Start-up, barriers and sums are right for any number of processes and   *)
(* any sequence of calls.                                                  *)
(***************************************************************************)
EXTENDS Keeper, FiniteSetTheorems, TLAPS

\* memcached's values and the processes' variables.
TypeOK ==
  /\ serverNum \in Nat
  /\ meta \in [NodeID \X NodeID -> Meta \cup {Absent}]
  /\ counter \in [BarrierKey -> Nat \cup {Absent}]
  /\ sums \in [(DOMAIN Calls) \X NodeID -> Nat \cup {Absent}]
  /\ pc \in [Proc -> {"enter", "connect", "loop", "get", "call", "add",
                      "wait", "sum"}]
  /\ myNodeID \in [Proc -> NodeID \cup {Absent}]
  /\ curServer \in [Proc -> 0..maxServer]
  /\ seen \in [Proc -> 0..maxServer]
  /\ k \in [Proc -> 0..maxServer]
  /\ localMeta \in [Proc -> Meta \cup {Absent}]
  /\ remote \in [Proc -> [NodeID -> Meta \cup {Absent}]]
  /\ step \in [Proc -> Nat \ {0}]
  /\ acc \in [Proc -> [DOMAIN Calls -> Nat]]

Entered == {p \in Proc : pc[p] # "enter"}

\* The processes that have entered are numbered from 0 on, each differently.
NumberInv ==
  /\ serverNum = Cardinality(Entered)
  /\ \A p \in Entered : myNodeID[p] \in 0..serverNum-1
  /\ \A p \in Proc \ Entered :
       /\ myNodeID[p] = Absent
       /\ \A i \in NodeID : remote[p][i] = Absent
  /\ \A p, q \in Entered : myNodeID[p] = myNodeID[q] => p = q

\* Where a process is in the loops and calls.
PlaceInv ==
  \A p \in Proc :
    /\ pc[p] = "get" => k[p] < seen[p]
    /\ pc[p] \in {"add", "wait"} => InCall(p, "barrier")
    /\ pc[p] = "sum" => InCall(p, "sum")

\* What is under a key of memcached is what its writer means by it.
MetaInv ==
  \A i, j \in NodeID : meta[<<i, j>>] # Absent
                         => meta[<<i, j>>] = [of |-> i, for |-> j]

Barriers == {s \in DOMAIN Calls : Calls[s].op = "barrier"}

\* The callers give every barrier a key of its own.
KeysDistinct == \A s, r \in Barriers : Calls[s].key = Calls[r].key => s = r

Arrived(s) ==
  {p \in Proc : step[p] > s \/ (step[p] = s /\ pc[p] = "wait")}

\* Process p has been through the reset of barrier s.
PastReset(p, s) ==
  step[p] > s \/ (step[p] = s /\ pc[p] \in {"add", "wait"})

\* The counter is there once node 0 has set it, and then counts the arrivals.
CounterInv ==
  \A s \in Barriers :
    LET c == counter[Calls[s].key] IN
    /\ c = Absent => Arrived(s) = {}
    /\ c # Absent => /\ c = Cardinality(Arrived(s))
                     /\ \E p \in Entered : myNodeID[p] = 0 /\ PastReset(p, s)

\* v is what the nodes 0..n-1 contribute to sum s, added up.
AddsUp(s, n, v) ==
  \E f \in [0..n -> Nat] :
    /\ f[0] = 0
    /\ \A i \in 0..n-1 : f[i + 1] = f[i] + Value[i][s]
    /\ f[n] = v

Sums == {s \in DOMAIN Calls : Calls[s].op = "sum"}

\* A process has added the first k contributions of the sum it is in.
SumInv ==
  /\ \A s \in DOMAIN Calls : \A i \in NodeID :
       sums[<<s, i>>] # Absent => sums[<<s, i>>] = Value[i][s]
  /\ \A p \in Proc : \A s \in Sums :
       /\ step[p] > s => AddsUp(s, maxServer, acc[p][s])
       /\ step[p] = s /\ pc[p] = "sum" => AddsUp(s, k[p], acc[p][s])
       /\ step[p] < s \/ (step[p] = s /\ pc[p] # "sum") => acc[p][s] = 0

\* A sum that has returned is every node's contribution to it, added up.
SumsAddUp ==
  \A p \in Proc : \A s \in Sums :
    step[p] > s => AddsUp(s, maxServer, acc[p][s])

KeeperInv == TypeOK /\ NumberInv /\ PlaceInv

-----------------------------------------------------------------------------
(* Types and numbers.                                                      *)

\* The types of the calls, from the assumptions.
LEMMA CallTypes ==
  /\ maxServer \in Nat \ {0}
  /\ Len(Calls) \in Nat /\ DOMAIN Calls = 1..Len(Calls)
  /\ \A s \in DOMAIN Calls : Calls[s].op \in {"sum", "barrier"}
  /\ \A s \in Barriers : Calls[s].key \in BarrierKey
  /\ NodeID = 0..maxServer-1
<1>1. maxServer \in Nat /\ maxServer # 0
  BY KeeperAssumption, FS_CardinalityType, FS_EmptySet DEF maxServer
<1>2. Calls \in Seq([op : {"sum"}] \cup [op : {"barrier"}, key : STRING])
  BY KeeperAssumption
<1>3. \A s \in DOMAIN Calls :
        Calls[s] \in [op : {"sum"}] \cup [op : {"barrier"}, key : STRING]
  BY <1>2
<1> QED
  BY <1>1, <1>2, <1>3 DEF Barriers, BarrierKey, NodeID

\* One process enters at a time, and no more than there are.
LEMMA EnteredStep ==
  ASSUME KeeperInv, NEW p \in Proc, serverEnter(p)
  PROVE  /\ Entered' = Entered \cup {p} /\ p \notin Entered
         /\ serverNum' = Cardinality(Entered')
         /\ serverNum \in 0..maxServer-1
<1>1. Entered' = Entered \cup {p} /\ p \notin Entered
  BY DEF KeeperInv, TypeOK, Entered, serverEnter, Goto
<1>2. Entered \subseteq Proc /\ Entered' \subseteq Proc
  BY DEF Entered
<1>3. IsFiniteSet(Entered) /\ Cardinality(Entered') <= maxServer
  BY <1>2, FS_Subset, KeeperAssumption DEF maxServer
<1>4. Cardinality(Entered') = Cardinality(Entered) + 1
  BY <1>1, <1>3, FS_AddElement
<1> QED
  BY <1>1, <1>3, <1>4, CallTypes
     DEF KeeperInv, TypeOK, NumberInv, serverEnter

\* memcached hands out at most as many numbers as there are processes.
LEMMA NumberBound ==
  ASSUME KeeperInv
  PROVE  serverNum \in 0..maxServer
<1>1. Entered \subseteq Proc
  BY DEF Entered
<1> QED
  BY <1>1, FS_Subset, KeeperAssumption, CallTypes
     DEF maxServer, KeeperInv, NumberInv, TypeOK

\* The initial states satisfy the invariant.
LEMMA KeeperInit == Init => KeeperInv
<1> SUFFICES ASSUME Init PROVE KeeperInv
  OBVIOUS
<1>1. Entered = {}
  BY DEF Init, Entered
<1>2. TypeOK
  BY CallTypes DEF Init, TypeOK
<1>3. NumberInv
  BY <1>1, FS_EmptySet DEF Init, NumberInv
<1>4. PlaceInv
  BY DEF Init, PlaceInv
<1> QED
  BY <1>2, <1>3, <1>4 DEF KeeperInv

\* The types stay.
LEMMA TypeStep ==
  ASSUME KeeperInv, [Next]_vars
  PROVE  TypeOK'
<1> USE CallTypes DEF TypeOK, NodeID, Meta
<1>t. TypeOK /\ NumberInv /\ PlaceInv
  BY DEF KeeperInv
<1>n. \A p \in Proc : pc[p] # "enter" => myNodeID[p] \in NodeID
  BY <1>t, NumberBound DEF NumberInv, Entered
<1>1. ASSUME NEW p \in Proc, serverEnter(p)
      PROVE  TypeOK'
  <2>1. serverNum \in NodeID /\ serverNum + 1 \in Nat
    BY <1>1, EnteredStep
  <2>i. IDFrom(serverNum + 1) = serverNum
    BY <2>1 DEF IDFrom
  <2>2. myNodeID' = [myNodeID EXCEPT ![p] = serverNum]
    BY <1>1, <2>i DEF serverEnter
  <2> QED
    BY <1>t, <1>1, <2>1, <2>2, SMTT(30) DEF serverEnter, Goto
<1>2. ASSUME NEW p \in Proc, ReadServerNum(p)
      PROVE  TypeOK'
  BY <1>t, <1>2, NumberBound DEF ReadServerNum, Goto, mc
<1>3. ASSUME NEW p \in Proc, Publish(p)
      PROVE  TypeOK'
  <2>1. myNodeID[p] \in NodeID /\ k[p] \in NodeID
    BY <1>t, <1>n, <1>3 DEF Publish
  <2> QED
    BY <1>t, <1>3, <2>1 DEF Publish, setDataToRemote, Goto
<1>4. ASSUME NEW p \in Proc, setDataFromRemote(p)
      PROVE  TypeOK'
  <2>1. myNodeID[p] \in NodeID /\ k[p] \in NodeID /\ k[p] + 1 \in 0..maxServer
    BY <1>t, <1>n, <1>4, SMTT(30) DEF setDataFromRemote, PlaceInv
  <2>2. meta[<<k[p], myNodeID[p]>>] \in Meta \cup {Absent}
    BY <1>t, <2>1
  <2> QED
    BY <1>t, <1>4, <2>1, <2>2 DEF setDataFromRemote, Goto, mc
<1>5. ASSUME NEW p \in Proc, SkipMyself(p)
      PROVE  TypeOK'
  BY <1>t, <1>5, SMTT(30) DEF SkipMyself, mc, conn
<1>6. ASSUME NEW p \in Proc, EndOfRound(p)
      PROVE  TypeOK'
  BY <1>t, <1>6 DEF EndOfRound, Goto, mc
<1>7. ASSUME NEW p \in Proc, connectMySelf(p)
      PROVE  TypeOK'
  BY <1>t, <1>n, <1>7 DEF connectMySelf, setDataToRemote, Goto, mc
<1>8. ASSUME NEW p \in Proc, BarrierReset(p)
      PROVE  TypeOK'
  BY <1>t, <1>8 DEF BarrierReset, Goto, conn
<1>9. ASSUME NEW p \in Proc, BarrierAdd(p)
      PROVE  TypeOK'
  <2>1. Key(p) \in BarrierKey
    BY <1>t, <1>9 DEF BarrierAdd, PlaceInv, InCall, Key, Barriers
  <2>2. counter[Key(p)] + 1 \in Nat
    BY <1>t, <1>9, <2>1 DEF BarrierAdd
  <2> QED
    BY <1>t, <1>9, <2>1, <2>2 DEF BarrierAdd, Goto, conn
<1>10. ASSUME NEW p \in Proc, BarrierPass(p)
       PROVE  TypeOK'
  BY <1>t, <1>10, SMTT(30) DEF BarrierPass, Goto, mc, conn
<1>11. ASSUME NEW p \in Proc, SumPut(p)
       PROVE  TypeOK'
  <2>1. myNodeID[p] \in NodeID /\ step[p] \in DOMAIN Calls
    BY <1>t, <1>n, <1>11 DEF SumPut, InCall
  <2>2. Value[myNodeID[p]][step[p]] \in Nat
    BY <2>1, KeeperAssumption
  <2>3. sums' \in [(DOMAIN Calls) \X NodeID -> Nat \cup {Absent}]
    BY <1>t, <1>11, <2>1, <2>2 DEF SumPut, SumKey
  <2>4. k' \in [Proc -> 0..maxServer]
    BY <1>t, <1>11 DEF SumPut
  <2> QED
    BY <1>t, <1>11, <2>3, <2>4 DEF SumPut, Goto, conn
<1>12. ASSUME NEW p \in Proc, SumGet(p)
       PROVE  TypeOK'
  <2>1. k[p] \in NodeID /\ step[p] \in DOMAIN Calls
    BY <1>t, <1>12 DEF SumGet, PlaceInv, InCall
  <2>2. sums[<<step[p], k[p]>>] \in Nat
    BY <1>t, <1>12, <2>1 DEF SumGet, SumKey
  <2>3. acc'[p] \in [DOMAIN Calls -> Nat]
    BY <1>t, <1>12, <2>1, <2>2 DEF SumGet, SumKey
  <2>4. acc' \in [Proc -> [DOMAIN Calls -> Nat]]
    BY <1>t, <1>12, <2>3 DEF SumGet
  <2>5. k' \in [Proc -> 0..maxServer]
    BY <1>t, <1>12, <2>1, SMTT(30) DEF SumGet
  <2> QED
    BY <1>t, <1>12, <2>4, <2>5 DEF SumGet, mc, conn
<1>13. ASSUME NEW p \in Proc, SumReturn(p)
       PROVE  TypeOK'
  BY <1>t, <1>13, SMTT(30) DEF SumReturn, Goto, mc, conn
<1>14. CASE UNCHANGED vars
  BY <1>t, <1>14 DEF vars, mc, conn
<1> QED
  BY <1>1, <1>2, <1>3, <1>4, <1>5, <1>6, <1>7, <1>8, <1>9, <1>10, <1>11,
     <1>12, <1>13, <1>14 DEF Next, Step, Poll, Finished

\* serverEnter: numbers stay distinct.
LEMMA NumberStep ==
  ASSUME KeeperInv, [Next]_vars
  PROVE  NumberInv'
<1>t. TypeOK /\ NumberInv /\ PlaceInv
  BY DEF KeeperInv
<1>1. ASSUME NEW p \in Proc, serverEnter(p)
      PROVE  NumberInv'
  <2>1. /\ Entered' = Entered \cup {p} /\ p \notin Entered
        /\ serverNum' = Cardinality(Entered')
    BY <1>1, EnteredStep
  <2>n. serverNum \in Nat /\ serverNum' = serverNum + 1
    BY <1>t, <1>1 DEF serverEnter, TypeOK
  <2>i. IDFrom(serverNum + 1) = serverNum
    BY <2>n DEF IDFrom
  <2>2. /\ myNodeID' = [myNodeID EXCEPT ![p] = serverNum]
        /\ UNCHANGED remote
    BY <1>1, <2>i DEF serverEnter
  <2>3. DOMAIN myNodeID = Proc
    BY <1>t DEF TypeOK
  <2>4. \A q \in Entered : q # p /\ myNodeID'[q] = myNodeID[q]
    BY <1>t, <2>1, <2>2, <2>3 DEF Entered
  <2>5. myNodeID'[p] = serverNum
    BY <2>2, <2>3
  <2>6. \A q \in Entered' : myNodeID'[q] \in 0..serverNum'-1
    BY <1>t, <2>1, <2>n, <2>4, <2>5 DEF NumberInv
  <2>7. \A q, r \in Entered' : myNodeID'[q] = myNodeID'[r] => q = r
    BY <1>t, <2>1, <2>n, <2>4, <2>5 DEF NumberInv
  <2>8. \A q \in Proc \ Entered' :
          myNodeID'[q] = Absent /\ \A i \in NodeID : remote'[q][i] = Absent
    BY <1>t, <2>1, <2>2, <2>3 DEF NumberInv
  <2> QED
    BY <2>1, <2>6, <2>7, <2>8 DEF NumberInv, NodeID
<1>2. ASSUME UNCHANGED <<serverNum, myNodeID, Entered>>,
             \A q \in Proc \ Entered : remote'[q] = remote[q]
      PROVE  NumberInv'
  BY <1>t, <1>2 DEF NumberInv, NodeID
<1> USE <1>t DEF TypeOK, Entered
<1>3. ASSUME NEW p \in Proc, ReadServerNum(p)
      PROVE  NumberInv'
  BY <1>2, <1>3 DEF ReadServerNum, Goto, mc
<1>4. ASSUME NEW p \in Proc, Publish(p)
      PROVE  NumberInv'
  BY <1>2, <1>4 DEF Publish, Goto
<1>5. ASSUME NEW p \in Proc, setDataFromRemote(p)
      PROVE  NumberInv'
  BY <1>2, <1>5 DEF setDataFromRemote, Goto, mc
<1>6. ASSUME NEW p \in Proc, SkipMyself(p)
      PROVE  NumberInv'
  BY <1>2, <1>6 DEF SkipMyself, mc, conn
<1>7. ASSUME NEW p \in Proc, EndOfRound(p)
      PROVE  NumberInv'
  BY <1>2, <1>7 DEF EndOfRound, Goto, mc
<1>8. ASSUME NEW p \in Proc, connectMySelf(p)
      PROVE  NumberInv'
  BY <1>2, <1>8 DEF connectMySelf, Goto, mc
<1>9. ASSUME NEW p \in Proc, BarrierReset(p)
      PROVE  NumberInv'
  BY <1>2, <1>9 DEF BarrierReset, Goto, conn
<1>10. ASSUME NEW p \in Proc, BarrierAdd(p)
       PROVE  NumberInv'
  BY <1>2, <1>10 DEF BarrierAdd, Goto, conn
<1>11. ASSUME NEW p \in Proc, BarrierPass(p)
       PROVE  NumberInv'
  BY <1>2, <1>11 DEF BarrierPass, Goto, mc, conn
<1>12. ASSUME NEW p \in Proc, SumPut(p)
       PROVE  NumberInv'
  BY <1>2, <1>12 DEF SumPut, Goto, conn
<1>13. ASSUME NEW p \in Proc, SumGet(p)
       PROVE  NumberInv'
  BY <1>2, <1>13 DEF SumGet, mc, conn
<1>14. ASSUME NEW p \in Proc, SumReturn(p)
       PROVE  NumberInv'
  BY <1>2, <1>14 DEF SumReturn, Goto, mc, conn
<1>15. CASE UNCHANGED vars
  BY <1>2, <1>15 DEF vars, mc, conn
<1> QED
  BY <1>1, <1>3, <1>4, <1>5, <1>6, <1>7, <1>8, <1>9, <1>10, <1>11, <1>12,
     <1>13, <1>14, <1>15 DEF Next, Step, Poll, Finished

\* A process is in the call that its step names.
LEMMA PlaceStep ==
  ASSUME KeeperInv, [Next]_vars
  PROVE  PlaceInv'
<1> USE DEF TypeOK, PlaceInv, InCall
<1>t. TypeOK /\ NumberInv /\ PlaceInv
  BY DEF KeeperInv
<1>1. ASSUME NEW p \in Proc, serverEnter(p)
      PROVE  PlaceInv'
  BY <1>t, <1>1 DEF serverEnter, Goto
<1>2. ASSUME NEW p \in Proc, ReadServerNum(p)
      PROVE  PlaceInv'
  BY <1>t, <1>2 DEF ReadServerNum, Goto
<1>3. ASSUME NEW p \in Proc, Publish(p)
      PROVE  PlaceInv'
  BY <1>t, <1>3 DEF Publish, Goto
<1>4. ASSUME NEW p \in Proc, setDataFromRemote(p)
      PROVE  PlaceInv'
  BY <1>t, <1>4 DEF setDataFromRemote, Goto
<1>5. ASSUME NEW p \in Proc, SkipMyself(p)
      PROVE  PlaceInv'
  BY <1>t, <1>5 DEF SkipMyself, conn
<1>6. ASSUME NEW p \in Proc, EndOfRound(p)
      PROVE  PlaceInv'
  BY <1>t, <1>6 DEF EndOfRound, Goto
<1>7. ASSUME NEW p \in Proc, connectMySelf(p)
      PROVE  PlaceInv'
  BY <1>t, <1>7 DEF connectMySelf, Goto
<1>8. ASSUME NEW p \in Proc, BarrierReset(p)
      PROVE  PlaceInv'
  BY <1>t, <1>8 DEF BarrierReset, Goto, conn
<1>9. ASSUME NEW p \in Proc, BarrierAdd(p)
      PROVE  PlaceInv'
  BY <1>t, <1>9 DEF BarrierAdd, Goto, conn
<1>10. ASSUME NEW p \in Proc, BarrierPass(p)
       PROVE  PlaceInv'
  BY <1>t, <1>10 DEF BarrierPass, Goto, conn
<1>11. ASSUME NEW p \in Proc, SumPut(p)
       PROVE  PlaceInv'
  BY <1>t, <1>11 DEF SumPut, Goto, conn
<1>12. ASSUME NEW p \in Proc, SumGet(p)
       PROVE  PlaceInv'
  BY <1>t, <1>12 DEF SumGet, conn
<1>13. ASSUME NEW p \in Proc, SumReturn(p)
       PROVE  PlaceInv'
  BY <1>t, <1>13 DEF SumReturn, Goto, conn
<1>14. CASE UNCHANGED vars
  BY <1>t, <1>14 DEF vars, conn
<1> QED
  BY <1>1, <1>2, <1>3, <1>4, <1>5, <1>6, <1>7, <1>8, <1>9, <1>10, <1>11,
     <1>12, <1>13, <1>14 DEF Next, Step, Poll, Finished

\* A process has been given its number before it connects and calls, and all
\* numbers are different.
THEOREM KeeperInvHolds == Spec => []KeeperInv
<1>1. KeeperInv /\ [Next]_vars => KeeperInv'
  BY TypeStep, NumberStep, PlaceStep DEF KeeperInv
<1> QED
  BY KeeperInit, <1>1, PTL DEF Spec

-----------------------------------------------------------------------------
(* Connections.                                                            *)

\* serverConnect: what is published for a peer is read by that peer only.
LEMMA PairsStep ==
  ASSUME KeeperInv, MetaInv, ConnectedPairs, [Next]_vars
  PROVE  MetaInv' /\ ConnectedPairs'
<1> USE CallTypes DEF MetaInv, ConnectedPairs
<1>t. TypeOK /\ NumberInv /\ PlaceInv
  BY DEF KeeperInv
<1>n. \A p \in Proc : pc[p] # "enter" => myNodeID[p] \in NodeID
  BY <1>t, NumberBound DEF NumberInv, Entered, NodeID
<1>1. ASSUME NEW p \in Proc, serverEnter(p)
      PROVE  MetaInv' /\ ConnectedPairs'
  <2>1. /\ UNCHANGED <<meta, remote>>
        /\ \A q \in Proc \ {p} : myNodeID'[q] = myNodeID[q]
    BY <1>t, <1>1 DEF serverEnter, TypeOK
  <2>2. \A i \in NodeID : remote[p][i] = Absent
    BY <1>t, <1>1 DEF serverEnter, NumberInv, Entered
  <2> QED
    BY <2>1, <2>2 DEF NodeID
<1>2. ASSUME NEW p \in Proc, Publish(p)
      PROVE  MetaInv' /\ ConnectedPairs'
  <2>1. myNodeID[p] \in NodeID /\ k[p] \in NodeID
    BY <1>t, <1>n, <1>2 DEF Publish, TypeOK, NodeID
  <2>2. meta' = [meta EXCEPT ![<<myNodeID[p], k[p]>>] =
                   [of |-> myNodeID[p], for |-> k[p]]]
    BY <1>2 DEF Publish, setDataToRemote
  <2>3. MetaInv'
    BY <1>t, <2>1, <2>2 DEF TypeOK, NodeID
  <2> QED
    BY <2>3, <1>2 DEF Publish, NodeID
<1>3. ASSUME NEW p \in Proc, setDataFromRemote(p)
      PROVE  MetaInv' /\ ConnectedPairs'
  <2>1. myNodeID[p] \in NodeID /\ k[p] \in NodeID
    BY <1>t, <1>n, <1>3 DEF setDataFromRemote, TypeOK, NodeID, PlaceInv
  <2>2. meta[<<k[p], myNodeID[p]>>] = [of |-> k[p], for |-> myNodeID[p]]
    BY <2>1, <1>3 DEF setDataFromRemote
  <2>3. /\ remote' = [remote EXCEPT ![p][k[p]] = meta[<<k[p], myNodeID[p]>>]]
        /\ UNCHANGED <<meta, myNodeID>>
    BY <1>3 DEF setDataFromRemote, mc
  <2> DEFINE m == meta[<<k[p], myNodeID[p]>>]
  <2>4. /\ m = [of |-> k[p], for |-> myNodeID[p]]
        /\ remote' = [remote EXCEPT ![p][k[p]] = m]
        /\ UNCHANGED <<meta, myNodeID>>
    BY <2>2, <2>3
  <2> HIDE DEF m
  <2>5. \A q \in Proc : \A i \in NodeID :
          remote'[q][i] = IF q = p /\ i = k[p] THEN m ELSE remote[q][i]
    BY <1>t, <2>1, <2>4, SMTT(30) DEF TypeOK
  <2> QED
    BY <2>4, <2>5 DEF NodeID
<1>4. ASSUME NEW p \in Proc, connectMySelf(p)
      PROVE  MetaInv' /\ ConnectedPairs'
  <2>1. /\ remote' = [remote EXCEPT ![p][myNodeID[p]] =
                        [of |-> myNodeID[p], for |-> myNodeID[p]]]
        /\ UNCHANGED <<meta, myNodeID>>
    BY <1>4 DEF connectMySelf, setDataToRemote, mc
  <2> DEFINE m == [of |-> myNodeID[p], for |-> myNodeID[p]]
  <2> HIDE DEF m
  <2>2. \A q \in Proc : \A i \in NodeID :
          remote'[q][i] = IF q = p /\ i = myNodeID[p] THEN m
                                                     ELSE remote[q][i]
    BY <1>t, <2>1 DEF TypeOK, m
  <2> QED
    BY <2>1, <2>2 DEF NodeID, m
<1>5. ASSUME UNCHANGED <<meta, remote, myNodeID>>
      PROVE  MetaInv' /\ ConnectedPairs'
  BY <1>5 DEF NodeID
<1> QED
  BY <1>1, <1>2, <1>3, <1>4, <1>5
     DEF Next, Step, Poll, Finished, vars, mc, conn, ReadServerNum, SkipMyself,
         EndOfRound, BarrierReset, BarrierAdd, BarrierPass, SumPut, SumGet,
         SumReturn

\* Queue pairs are connected to those that the peer reserved for this node,
\* although localMeta is written anew for each peer.
THEOREM PairsConnected == Spec => []ConnectedPairs
<1>1. Init => MetaInv /\ ConnectedPairs
  BY DEF Init, MetaInv, ConnectedPairs
<1>2. KeeperInv /\ MetaInv /\ ConnectedPairs /\ [Next]_vars
        => MetaInv' /\ ConnectedPairs'
  BY PairsStep
<1> QED
  BY KeeperInvHolds, <1>1, <1>2, PTL DEF Spec

-----------------------------------------------------------------------------
(* Barriers.                                                               *)

BarrierInv == CounterInv /\ BarrierHolds

\* Where everybody is counted, everybody is.
LEMMA AllAreThere ==
  ASSUME NEW s, Cardinality(Arrived(s)) = maxServer
  PROVE  Arrived(s) = Proc
<1>1. Arrived(s) \subseteq Proc
  BY DEF Arrived
<1> QED
  BY <1>1, FS_Subset, KeeperAssumption DEF maxServer

\* A step that leaves alone who has arrived where and the counters.
LEMMA BarrierSame ==
  ASSUME KeeperInv, BarrierInv,
         \A s \in Barriers : counter'[Calls[s].key] = counter[Calls[s].key],
         \A s \in Barriers : Arrived(s)' = Arrived(s),
         \A p \in Proc : \A s \in Barriers :
           /\ step'[p] > s => step[p] > s
           /\ PastReset(p, s) => PastReset(p, s)'
           /\ pc[p] # "enter" => pc'[p] # "enter" /\ myNodeID'[p] = myNodeID[p]
  PROVE  BarrierInv'
<1>1. CounterInv'
  BY DEF BarrierInv, CounterInv, Entered
<1>2. \A s \in Barriers : \A p, q \in Proc : step'[p] > s => q \in Arrived(s)'
  BY DEF BarrierInv, BarrierHolds, Arrived, Barriers
<1>3. BarrierHolds'
  BY <1>2 DEF BarrierHolds, Arrived, Barriers
<1> QED
  BY <1>1, <1>3 DEF BarrierInv

\* A process goes on to the next call from one where all have arrived or that
\* is no barrier.
LEMMA NextCall ==
  ASSUME KeeperInv, BarrierInv, NEW p \in Proc,
         step' = [step EXCEPT ![p] = @ + 1], pc' = [pc EXCEPT ![p] = "call"],
         pc[p] \in {"wait", "sum"}, UNCHANGED <<counter, myNodeID>>,
         step[p] \in Barriers => pc[p] = "wait" /\ Arrived(step[p]) = Proc
  PROVE  BarrierInv'
<1>t. TypeOK
  BY DEF KeeperInv
<1>1. /\ step[p] \in Nat /\ step'[p] = step[p] + 1 /\ pc'[p] = "call"
      /\ \A q \in Proc \ {p} : step'[q] = step[q] /\ pc'[q] = pc[q]
      /\ \A q \in Proc : step[q] \in Nat
      /\ \A s \in Barriers : s \in Nat
  BY <1>t, CallTypes DEF TypeOK, Barriers
<1>2. ASSUME NEW s \in Barriers
      PROVE  Arrived(s)' = Arrived(s)
  BY <1>1 DEF Arrived
<1>3. ASSUME NEW s \in Barriers, NEW q \in Proc
      PROVE  PastReset(q, s) => PastReset(q, s)'
  BY <1>1 DEF PastReset
<1>4. CounterInv'
  BY <1>1, <1>2, <1>3 DEF BarrierInv, CounterInv, Entered
<1>5. ASSUME NEW q \in Proc, NEW r \in Proc, NEW s \in Barriers, step'[q] > s
      PROVE  r \in Arrived(s)'
  <2>1. CASE step[q] > s
    <3>1. r \in Arrived(s)
      BY <2>1 DEF BarrierInv, BarrierHolds, Arrived, Barriers
    <3> QED
      BY <3>1, <1>2
  <2>2. CASE ~(step[q] > s)
    <3>1. q = p /\ s = step[p]
      BY <2>2, <1>1, <1>5
    <3> QED
      BY <3>1, <1>2
  <2> QED
    BY <2>1, <2>2
<1>6. BarrierHolds'
  BY <1>5 DEF BarrierHolds, Arrived, Barriers
<1> QED
  BY <1>4, <1>6 DEF BarrierInv

\* barrier: a counter is the number of processes that have arrived.
LEMMA BarrierStep ==
  ASSUME KeysDistinct, KeeperInv, KeeperInv', BarrierInv, [Next]_vars
  PROVE  BarrierInv'
<1>t. TypeOK /\ NumberInv /\ PlaceInv
  BY DEF KeeperInv
<1>b. \A s \in Barriers : s \in Nat /\ Calls[s].key \in BarrierKey
  BY CallTypes DEF Barriers
<1>1. ASSUME NEW p \in Proc, BarrierReset(p)
      PROVE  BarrierInv'
  <2>1. /\ pc' = [pc EXCEPT ![p] = "add"] /\ pc[p] = "call"
        /\ UNCHANGED <<step, myNodeID>>
        /\ step[p] \in Barriers
    BY <1>1 DEF BarrierReset, Goto, conn, InCall, Barriers
  <2>2. \A s \in Barriers : Arrived(s)' = Arrived(s)
    BY <1>t, <2>1 DEF Arrived, TypeOK
  <2>3. \A q \in Proc : \A s \in Barriers : PastReset(q, s) => PastReset(q, s)'
    BY <1>t, <2>1 DEF PastReset, TypeOK
  <2>4. \A q \in Proc : pc[q] # "enter" => pc'[q] # "enter"
    BY <1>t, <2>1 DEF TypeOK
  <2>5. CASE ~ResetsCounter(p)
    <3>1. counter' = counter
      BY <1>1, <2>5 DEF BarrierReset
    <3> QED
      BY <2>1, <2>2, <2>3, <2>4, <3>1, BarrierSame
  <2>6. CASE ResetsCounter(p)
    <3>r. PICK r \in Barriers : r = step[p]
      BY <2>1
    <3>1. counter' = [counter EXCEPT ![Calls[r].key] = 0]
      BY <1>1, <2>6, <3>r DEF BarrierReset, Key
    <3>2. p \in Entered /\ p \in Entered' /\ myNodeID[p] = 0
      BY <1>t, <2>1, <2>6 DEF Entered, ResetsCounter, TypeOK
    <3>3. ~PastReset(p, r) /\ PastReset(p, r)'
      BY <1>t, <2>1, <3>r DEF PastReset, TypeOK
    <3>4. counter[Calls[r].key] = Absent
      BY <1>t, <2>1, <3>2, <3>3 DEF BarrierInv, CounterInv, NumberInv
    <3>5. Arrived(r) = {}
      BY <2>1, <3>4 DEF BarrierInv, CounterInv
    <3>6. counter'[Calls[r].key] = Cardinality(Arrived(r)')
      BY <1>t, <1>b, <2>1, <2>2, <3>1, <3>5, FS_EmptySet DEF TypeOK
    <3>7. \A s \in Barriers \ {r} :
            counter'[Calls[s].key] = counter[Calls[s].key]
      BY <1>t, <1>b, <2>1, <3>1 DEF TypeOK, KeysDistinct
    <3>n. 0 # Absent
      BY KeeperAssumption
    <3>v. counter'[Calls[r].key] = 0
      BY <1>t, <1>b, <2>1, <3>1 DEF TypeOK
    <3>8. \A s \in Barriers \ {r} :
            LET c == counter'[Calls[s].key] IN
            /\ c = Absent => Arrived(s)' = {}
            /\ c # Absent => /\ c = Cardinality(Arrived(s)')
                             /\ \E q \in Entered' :
                                  myNodeID'[q] = 0 /\ PastReset(q, s)'
      BY <2>1, <2>2, <2>3, <2>4, <3>7 DEF BarrierInv, CounterInv, Entered
    <3>9. CounterInv'
      BY <2>1, <3>2, <3>3, <3>6, <3>8, <3>n, <3>v DEF CounterInv
    <3>10. BarrierHolds'
      BY <2>1, <2>2 DEF BarrierInv, BarrierHolds, Arrived, Barriers
    <3> QED
      BY <3>9, <3>10 DEF BarrierInv
  <2> QED
    BY <2>5, <2>6
<1>2. ASSUME NEW p \in Proc, BarrierAdd(p)
      PROVE  BarrierInv'
  <2>r. PICK r \in Barriers : r = step[p]
    BY <1>t, <1>2 DEF BarrierAdd, InCall, Barriers, PlaceInv
  <2>v. PICK v : v = counter[Calls[r].key]
    OBVIOUS
  <2>1. /\ pc' = [pc EXCEPT ![p] = "wait"] /\ pc[p] = "add"
        /\ UNCHANGED <<step, myNodeID>>
        /\ counter' = [counter EXCEPT ![Calls[r].key] = v + 1]
        /\ v # Absent
    BY <1>t, <1>2, <2>r, <2>v DEF BarrierAdd, Goto, conn, InCall, Barriers,
                                   PlaceInv, Key
  <2>2. Arrived(r)' = Arrived(r) \cup {p} /\ p \notin Arrived(r)
    BY <1>t, <2>1, <2>r DEF Arrived, TypeOK
  <2>3. \A s \in Barriers \ {r} : Arrived(s)' = Arrived(s)
    BY <1>t, <2>1, <2>r DEF Arrived, TypeOK
  <2>4. \A s \in Barriers \ {r} :
          counter'[Calls[s].key] = counter[Calls[s].key]
    BY <1>t, <1>b, <2>1 DEF TypeOK, KeysDistinct
  <2>5. \A q \in Proc : \A s \in Barriers : PastReset(q, s) => PastReset(q, s)'
    BY <1>t, <2>1 DEF PastReset, TypeOK
  <2>6. \A q \in Proc : pc[q] # "enter" => pc'[q] # "enter"
    BY <1>t, <2>1 DEF TypeOK
  <2>7. Arrived(r) \subseteq Proc /\ IsFiniteSet(Arrived(r))
    <3>1. Arrived(r) \subseteq Proc
      BY DEF Arrived
    <3> QED
      BY <3>1, FS_Subset, KeeperAssumption
  <2>8. v = Cardinality(Arrived(r))
    BY <2>1, <2>v DEF BarrierInv, CounterInv
  <2>9. v + 1 = Cardinality(Arrived(r)')
    BY <2>2, <2>7, <2>8, FS_AddElement
  <2>10. counter'[Calls[r].key] = v + 1 /\ v + 1 # Absent
    <3>1. v \in Nat
      BY <2>7, <2>8, FS_CardinalityType
    <3> QED
      BY <3>1, <1>t, <1>b, <2>1, KeeperAssumption DEF TypeOK
  <2>11. \E q \in Entered' : myNodeID'[q] = 0 /\ PastReset(q, r)'
    <3>1. PICK q \in Entered : myNodeID[q] = 0 /\ PastReset(q, r)
      BY <2>1, <2>v DEF BarrierInv, CounterInv
    <3> QED
      BY <3>1, <2>1, <2>5, <2>6 DEF Entered
  <2>12. \A s \in Barriers \ {r} :
           LET c == counter'[Calls[s].key] IN
           /\ c = Absent => Arrived(s)' = {}
           /\ c # Absent => /\ c = Cardinality(Arrived(s)')
                            /\ \E q \in Entered' :
                                 myNodeID'[q] = 0 /\ PastReset(q, s)'
    BY <2>1, <2>3, <2>4, <2>5, <2>6 DEF BarrierInv, CounterInv, Entered
  <2>13. CounterInv'
    BY <2>1, <2>9, <2>10, <2>11, <2>12 DEF CounterInv
  <2>14. \A s \in Barriers : Arrived(s) \subseteq Arrived(s)'
    BY <2>2, <2>3
  <2>15. BarrierHolds'
    BY <2>1, <2>14 DEF BarrierInv, BarrierHolds, Arrived, Barriers
  <2> QED
    BY <2>13, <2>15 DEF BarrierInv
<1>3. ASSUME NEW p \in Proc, BarrierPass(p)
      PROVE  BarrierInv'
  <2>1. /\ step' = [step EXCEPT ![p] = @ + 1]
        /\ pc' = [pc EXCEPT ![p] = "call"]
        /\ pc[p] = "wait" /\ UNCHANGED <<counter, myNodeID>>
        /\ step[p] \in Barriers
        /\ counter[Calls[step[p]].key] = maxServer
    BY <1>t, <1>3 DEF BarrierPass, Goto, mc, conn, InCall, Barriers, PlaceInv,
                      Key, AllArrived
  <2>2. Cardinality(Arrived(step[p])) = maxServer
    BY <2>1, CallTypes, KeeperAssumption DEF BarrierInv, CounterInv
  <2> QED
    BY <2>1, <2>2, AllAreThere, NextCall
<1>4. ASSUME NEW p \in Proc, SumReturn(p)
      PROVE  BarrierInv'
  <2>1. /\ step' = [step EXCEPT ![p] = @ + 1]
        /\ pc' = [pc EXCEPT ![p] = "call"]
        /\ pc[p] = "sum" /\ UNCHANGED <<counter, myNodeID>>
        /\ step[p] \notin Barriers
    BY <1>t, <1>4 DEF SumReturn, Goto, mc, conn, InCall, Barriers, PlaceInv
  <2> QED
    BY <2>1, NextCall
<1>5. ASSUME UNCHANGED <<counter, step>>,
             \A q \in Proc :
               /\ pc[q] \in {"add", "wait"} <=> pc'[q] \in {"add", "wait"}
               /\ pc[q] = "wait" <=> pc'[q] = "wait"
               /\ pc[q] # "enter"
                    => pc'[q] # "enter" /\ myNodeID'[q] = myNodeID[q]
      PROVE  BarrierInv'
  <2>1. \A s \in Barriers : Arrived(s)' = Arrived(s)
    BY <1>5 DEF Arrived
  <2>2. \A q \in Proc : \A s \in Barriers : PastReset(q, s) => PastReset(q, s)'
    BY <1>5 DEF PastReset
  <2> QED
    BY <1>5, <2>1, <2>2, BarrierSame
<1> USE <1>t DEF TypeOK, Goto
<1>6. ASSUME NEW p \in Proc,
             \/ serverEnter(p) \/ ReadServerNum(p) \/ Publish(p)
             \/ setDataFromRemote(p) \/ SkipMyself(p) \/ EndOfRound(p)
             \/ connectMySelf(p)
      PROVE  BarrierInv'
  <2>1. UNCHANGED <<counter, step>>
    BY <1>6 DEF serverEnter, ReadServerNum, Publish, setDataFromRemote,
                SkipMyself, EndOfRound, connectMySelf, mc, conn
  <2>2. \A q \in Proc :
          /\ pc[q] \in {"add", "wait"} <=> pc'[q] \in {"add", "wait"}
          /\ pc[q] = "wait" <=> pc'[q] = "wait"
          /\ pc[q] # "enter" => pc'[q] # "enter"
    BY <1>6 DEF serverEnter, ReadServerNum, Publish, setDataFromRemote,
                SkipMyself, EndOfRound, connectMySelf, mc, conn
  <2>3. \A q \in Proc : pc[q] # "enter" => myNodeID'[q] = myNodeID[q]
    BY <1>6 DEF serverEnter, ReadServerNum, Publish, setDataFromRemote,
                SkipMyself, EndOfRound, connectMySelf, mc, conn
  <2> QED
    BY <1>5, <2>1, <2>2, <2>3
<1>7. ASSUME NEW p \in Proc, SumPut(p) \/ SumGet(p)
      PROVE  BarrierInv'
  <2>1. /\ UNCHANGED <<counter, step, myNodeID>>
        /\ \A q \in Proc :
             /\ pc[q] \in {"add", "wait"} <=> pc'[q] \in {"add", "wait"}
             /\ pc[q] = "wait" <=> pc'[q] = "wait"
             /\ pc[q] # "enter" => pc'[q] # "enter"
    BY <1>7 DEF SumPut, SumGet, mc, conn
  <2> QED
    BY <1>5, <2>1
<1>8. CASE UNCHANGED vars
  BY <1>5, <1>8 DEF vars, mc, conn
<1> QED
  BY <1>1, <1>2, <1>3, <1>4, <1>6, <1>7, <1>8 DEF Next, Step, Poll, Finished

\* Nobody leaves a barrier before all have reached it, if no two barriers of
\* the program have the same key.
THEOREM BarriersHold == KeysDistinct /\ Spec => []BarrierHolds
<1> SUFFICES ASSUME KeysDistinct PROVE Spec => []BarrierHolds
  OBVIOUS
<1>1. Init => BarrierInv
  <2> SUFFICES ASSUME Init PROVE BarrierInv
    OBVIOUS
  <2>1. \A s \in Barriers : s \in Nat /\ s >= 1 /\ Calls[s].key \in BarrierKey
    BY CallTypes DEF Barriers
  <2>2. CounterInv
    BY <2>1 DEF Init, CounterInv, Arrived
  <2>3. \A s \in DOMAIN Calls : s \in Nat /\ s >= 1
    BY CallTypes
  <2>4. BarrierHolds
    BY <2>3 DEF Init, BarrierHolds
  <2> QED
    BY <2>2, <2>4 DEF BarrierInv
<1>2. KeeperInv /\ KeeperInv' /\ BarrierInv /\ [Next]_vars
        => BarrierInv'
  BY BarrierStep
<1>3. BarrierInv => BarrierHolds
  BY DEF BarrierInv
<1> QED
  BY KeeperInvHolds, <1>1, <1>2, <1>3, PTL DEF Spec

-----------------------------------------------------------------------------
(* Sums.                                                                   *)

\* The empty sum.
LEMMA NothingAdded ==
  ASSUME NEW s
  PROVE  AddsUp(s, 0, 0)
<1> DEFINE f == [j \in 0..0 |-> 0]
<1>1. f \in [0..0 -> Nat] /\ f[0] = 0
  OBVIOUS
<1>2. \A i \in 0..0-1 : f[i + 1] = f[i] + Value[i][s]
  OBVIOUS
<1> HIDE DEF f
<1> QED
  BY <1>1, <1>2 DEF AddsUp

\* One contribution more.
LEMMA AddOne ==
  ASSUME NEW s, NEW n \in Nat, NEW v, AddsUp(s, n, v), Value[n][s] \in Nat
  PROVE  AddsUp(s, n + 1, v + Value[n][s])
<1>1. PICK f \in [0..n -> Nat] :
        /\ f[0] = 0
        /\ \A i \in 0..n-1 : f[i + 1] = f[i] + Value[i][s]
        /\ f[n] = v
  BY DEF AddsUp
<1> DEFINE w == Value[n][s]
           g == [j \in 0..n+1 |-> IF j <= n THEN f[j] ELSE v + w]
<1>2. v \in Nat
  BY <1>1
<1>3. g \in [0..n+1 -> Nat] /\ g[0] = 0 /\ g[n + 1] = v + w
  BY <1>1, <1>2
<1>4. ASSUME NEW i \in 0..n
      PROVE  g[i + 1] = g[i] + Value[i][s]
  <2>1. CASE i = n
    BY <1>1, <1>2, <2>1
  <2>2. CASE i # n
    <3>1. g[i] = f[i] /\ g[i + 1] = f[i + 1]
      BY <2>2
    <3> QED
      BY <1>1, <2>2, <3>1
  <2> QED
    BY <2>1, <2>2
<1>5. 0..(n + 1) - 1 = 0..n
  OBVIOUS
<1> HIDE DEF g
<1>6. \A i \in 0..(n + 1) - 1 : g[i + 1] = g[i] + Value[i][s]
  BY <1>4, <1>5
<1> QED
  BY <1>3, <1>6 DEF AddsUp

\* No sum, and no result, is touched.
LEMMA SumSame ==
  ASSUME KeeperInv, SumInv, UNCHANGED <<sums, acc>>,
         \A p \in Proc : \A s \in Sums :
           /\ step'[p] > s => step[p] > s
           /\ step'[p] = s /\ pc'[p] = "sum"
                => step[p] = s /\ pc[p] = "sum" /\ k'[p] = k[p]
           /\ step'[p] < s \/ (step'[p] = s /\ pc'[p] # "sum")
                => step[p] < s \/ (step[p] = s /\ pc[p] # "sum")
  PROVE  SumInv'
BY DEF SumInv, NodeID

\* sum: what is added is what the processes have set in this round.
LEMMA SumStep ==
  ASSUME KeeperInv, SumInv, [Next]_vars
  PROVE  SumInv'
<1>t. TypeOK /\ NumberInv /\ PlaceInv
  BY DEF KeeperInv
<1>s. \A s \in Sums : s \in DOMAIN Calls /\ s \in Nat
  BY CallTypes DEF Sums
<1>1. ASSUME NEW p \in Proc, SumPut(p)
      PROVE  SumInv'
  <2>1. PICK r \in Sums : r = step[p]
    BY <1>1 DEF SumPut, InCall, Sums
  <2>2. /\ sums' = [sums EXCEPT ![<<r, myNodeID[p]>>] = Value[myNodeID[p]][r]]
        /\ k' = [k EXCEPT ![p] = 0] /\ UNCHANGED <<step, acc>>
        /\ pc[p] = "call" /\ pc' = [pc EXCEPT ![p] = "sum"]
    BY <1>1, <2>1 DEF SumPut, SumKey, Goto
  <2>3. \A s \in DOMAIN Calls : \A i \in NodeID :
          sums'[<<s, i>>] # Absent => sums'[<<s, i>>] = Value[i][s]
    BY <1>t, <1>s, <2>1, <2>2 DEF SumInv, TypeOK
  <2>4. acc'[p][r] = 0 /\ k'[p] = 0
    BY <1>t, <2>1, <2>2 DEF SumInv, TypeOK
  <2>5. AddsUp(r, k'[p], acc'[p][r])
    BY <2>4, NothingAdded
  <2>6. ASSUME NEW q \in Proc, NEW s \in Sums
        PROVE  /\ step'[q] > s => AddsUp(s, maxServer, acc'[q][s])
               /\ step'[q] = s /\ pc'[q] = "sum"
                    => AddsUp(s, k'[q], acc'[q][s])
               /\ step'[q] < s \/ (step'[q] = s /\ pc'[q] # "sum")
                    => acc'[q][s] = 0
    <3>1. CASE q = p /\ s = r
      BY <1>t, <1>s, <2>1, <2>2, <2>5, <3>1 DEF TypeOK
    <3>2. CASE ~(q = p /\ s = r)
      BY <1>t, <1>s, <2>1, <2>2, <3>2 DEF TypeOK, SumInv
    <3> QED
      BY <3>1, <3>2
  <2> QED
    BY <2>3, <2>6 DEF SumInv, NodeID
<1>2. ASSUME NEW p \in Proc, SumGet(p)
      PROVE  SumInv'
  <2>1. PICK r \in Sums : r = step[p]
    BY <1>t, <1>2 DEF SumGet, PlaceInv, InCall, Sums
  <2>2. k[p] \in Nat /\ k[p] \in NodeID
    BY <1>t, <1>2, CallTypes DEF SumGet, TypeOK
  <2>3. PICK w : w = Value[k[p]][r]
    OBVIOUS
  <2>4. w \in Nat
    BY <1>s, <2>2, <2>3, KeeperAssumption
  <2>5. sums[<<r, k[p]>>] = w
    BY <1>2, <1>s, <2>1, <2>2, <2>3 DEF SumGet, SumKey, SumInv
  <2>6. /\ acc' = [acc EXCEPT ![p][r] = @ + w] /\ k' = [k EXCEPT ![p] = @ + 1]
        /\ UNCHANGED <<sums, step, pc>> /\ pc[p] = "sum"
    BY <1>2, <2>1, <2>5 DEF SumGet, SumKey, mc
  <2>7. AddsUp(r, k[p], acc[p][r])
    BY <2>1, <2>6 DEF SumInv
  <2>8. AddsUp(r, k[p] + 1, acc[p][r] + w)
    BY <2>2, <2>3, <2>4, <2>7, AddOne
  <2>9. \A q \in Proc : \A s \in Sums :
          acc'[q][s] = IF q = p /\ s = r THEN acc[p][r] + w ELSE acc[q][s]
    BY <1>t, <1>s, <2>6 DEF TypeOK
  <2>10. \A q \in Proc : k'[q] = IF q = p THEN k[p] + 1 ELSE k[q]
    BY <1>t, <2>6 DEF TypeOK
  <2>11. ASSUME NEW q \in Proc, NEW s \in Sums
         PROVE  /\ step'[q] > s => AddsUp(s, maxServer, acc'[q][s])
                /\ step'[q] = s /\ pc'[q] = "sum"
                     => AddsUp(s, k'[q], acc'[q][s])
                /\ step'[q] < s \/ (step'[q] = s /\ pc'[q] # "sum")
                     => acc'[q][s] = 0
    <3>1. CASE q = p /\ s = r
      BY <1>t, <1>s, <2>1, <2>6, <2>8, <2>9, <2>10, <3>1 DEF TypeOK
    <3>2. CASE ~(q = p /\ s = r)
      <4>1. acc'[q][s] = acc[q][s] /\ step'[q] = step[q] /\ pc'[q] = pc[q]
        BY <2>6, <2>9, <3>2
      <4>2. step'[q] = s /\ pc'[q] = "sum" => k'[q] = k[q]
        BY <2>1, <2>6, <2>10, <3>2
      <4> QED
        BY <4>1, <4>2 DEF SumInv
    <3> QED
      BY <3>1, <3>2
  <2> QED
    BY <2>6, <2>11 DEF SumInv, NodeID
<1>3. ASSUME NEW p \in Proc, SumReturn(p)
      PROVE  SumInv'
  <2>1. PICK r \in Sums : r = step[p]
    BY <1>t, <1>3 DEF SumReturn, PlaceInv, InCall, Sums
  <2>2. /\ step' = [step EXCEPT ![p] = @ + 1]
        /\ pc' = [pc EXCEPT ![p] = "call"]
        /\ pc[p] = "sum" /\ k[p] = maxServer /\ UNCHANGED <<sums, acc, k>>
    BY <1>t, <1>3, CallTypes DEF SumReturn, Goto, mc, TypeOK
  <2>3. AddsUp(r, maxServer, acc[p][r])
    BY <2>1, <2>2 DEF SumInv
  <2>4. ASSUME NEW q \in Proc, NEW s \in Sums
        PROVE  /\ step'[q] > s => AddsUp(s, maxServer, acc'[q][s])
               /\ step'[q] = s /\ pc'[q] = "sum"
                    => AddsUp(s, k'[q], acc'[q][s])
               /\ step'[q] < s \/ (step'[q] = s /\ pc'[q] # "sum")
                    => acc'[q][s] = 0
    <3>1. CASE q # p
      BY <1>t, <2>2, <3>1 DEF TypeOK, SumInv
    <3>2. CASE q = p /\ s = r
      BY <1>t, <1>s, <2>1, <2>2, <2>3, <3>2 DEF TypeOK
    <3>3. CASE q = p /\ s # r
      <4>1. /\ step'[q] = step[q] + 1 /\ pc'[q] = "call" /\ acc' = acc
            /\ step[q] = r /\ r \in Nat /\ s \in Nat
        BY <1>t, <1>s, <2>1, <2>2, <3>3 DEF TypeOK
      <4>2. step'[q] > s => step[q] > s
        BY <4>1, <3>3
      <4>3. step'[q] < s \/ step'[q] = s => step[q] < s
        BY <4>1
      <4> QED
        BY <4>1, <4>2, <4>3 DEF SumInv
    <3> QED
      BY <3>1, <3>2, <3>3
  <2> QED
    BY <2>2, <2>4 DEF SumInv, NodeID
<1>4. ASSUME NEW p \in Proc, BarrierPass(p)
      PROVE  SumInv'
  <2>1. /\ step[p] \notin Sums /\ step[p] \in Nat
        /\ step' = [step EXCEPT ![p] = @ + 1]
        /\ pc' = [pc EXCEPT ![p] = "call"]
        /\ pc[p] = "wait" /\ UNCHANGED <<sums, acc, k>>
    BY <1>t, <1>4 DEF BarrierPass, PlaceInv, InCall, Sums, Goto, mc, TypeOK
  <2>2. ASSUME NEW q \in Proc, NEW s \in Sums
        PROVE  /\ step'[q] > s => step[q] > s
               /\ step'[q] = s /\ pc'[q] = "sum"
                    => step[q] = s /\ pc[q] = "sum" /\ k'[q] = k[q]
               /\ step'[q] < s \/ (step'[q] = s /\ pc'[q] # "sum")
                    => step[q] < s \/ (step[q] = s /\ pc[q] # "sum")
    <3>1. CASE q # p
      BY <1>t, <2>1, <3>1 DEF TypeOK
    <3>2. CASE q = p
      <4>1. /\ step'[q] = step[q] + 1 /\ pc'[q] = "call" /\ pc[q] = "wait"
            /\ step[q] # s /\ s \in Nat /\ step[q] \in Nat
        BY <1>t, <1>s, <2>1, <3>2 DEF TypeOK
      <4> QED
        BY <4>1
    <3> QED
      BY <3>1, <3>2
  <2> QED
    BY <2>1, <2>2, SumSame
<1>5. ASSUME UNCHANGED <<sums, acc, step>>,
             \A q \in Proc : /\ pc[q] = "sum" <=> pc'[q] = "sum"
                             /\ pc[q] = "sum" => k'[q] = k[q]
      PROVE  SumInv'
  BY <1>5, SumSame
<1> USE <1>t DEF TypeOK, Goto
<1>6. ASSUME NEW p \in Proc,
             \/ serverEnter(p) \/ ReadServerNum(p) \/ Publish(p)
             \/ setDataFromRemote(p) \/ SkipMyself(p) \/ EndOfRound(p)
             \/ connectMySelf(p) \/ BarrierReset(p) \/ BarrierAdd(p)
      PROVE  SumInv'
  <2>1. UNCHANGED <<sums, acc, step>>
    BY <1>6 DEF serverEnter, ReadServerNum, Publish, setDataFromRemote,
                SkipMyself, EndOfRound, connectMySelf, BarrierReset,
                BarrierAdd, mc, conn
  <2>2. \A q \in Proc : /\ pc[q] = "sum" <=> pc'[q] = "sum"
                        /\ pc[q] = "sum" => k'[q] = k[q]
    BY <1>6 DEF serverEnter, ReadServerNum, Publish, setDataFromRemote,
                SkipMyself, EndOfRound, connectMySelf, BarrierReset,
                BarrierAdd, mc, conn
  <2> QED
    BY <1>5, <2>1, <2>2
<1>7. CASE UNCHANGED vars
  BY <1>5, <1>7 DEF vars, mc, conn
<1> QED
  BY <1>1, <1>2, <1>3, <1>4, <1>6, <1>7 DEF Next, Step, Poll, Finished

\* A sum returns what all nodes contributed to this round of it, each once,
\* although the rounds share a loop and the values arrive in any order.
THEOREM SumsAreTotals == Spec => []SumsAddUp
<1>1. Init => SumInv
  <2> SUFFICES ASSUME Init PROVE SumInv
    OBVIOUS
  <2>1. \A s \in Sums : s \in Nat /\ s >= 1 /\ s \in DOMAIN Calls
    BY CallTypes DEF Sums
  <2> QED
    BY <2>1 DEF Init, SumInv
<1>2. KeeperInv /\ SumInv /\ [Next]_vars => SumInv'
  BY SumStep
<1>3. SumInv => SumsAddUp
  BY DEF SumInv, SumsAddUp
<1> QED
  BY KeeperInvHolds, <1>1, <1>2, <1>3, PTL DEF Spec
=============================================================================
