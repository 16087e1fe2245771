------------------------------- MODULE Keeper -------------------------------
(***************************************************************************)
(* Start-up and coordination through memcached (Keeper, DSMKeeper): every  *)
(* process draws its node number, exchanges queue pair numbers with every  *)
(* other node, and then calls barriers and sums.  memcached executes one   *)
(* command at a time; a command that fails is repeated by the code.        *)
(***************************************************************************)
EXTENDS Integers, Sequences, FiniteSets, FiniteSetsExt

CONSTANTS
  Proc,     \* the processes that are started
  Calls,    \* what each does once it is connected: [op |-> "barrier", key]
            \* or [op |-> "sum"], "DSM-init" first (DSM's constructor)
  Value,    \* Value[i][s]: what node i contributes to call s if it is a sum
  Absent    \* no such key

maxServer == Cardinality(Proc)
NodeID == 0..maxServer-1
BarrierKey == {Calls[s].key : s \in {x \in DOMAIN Calls :
                                       Calls[x].op = "barrier"}}
Meta == [of : NodeID, for : NodeID]

ASSUME KeeperAssumption ==
  /\ IsFiniteSet(Proc) /\ Proc # {} /\ Absent \notin Int
  /\ Calls \in Seq([op : {"sum"}] \cup [op : {"barrier"}, key : STRING])
  /\ \A i \in NodeID : \A s \in DOMAIN Calls : Value[i][s] \in Nat

VARIABLES
  serverNum,  \* memcached: the counter SERVER_NUM_KEY
  meta,       \* memcached: the ExchangeMeta under the key "i-j"
  counter,    \* memcached: the barrier counters
  sums,       \* memcached: the values under the keys of sum
  pc,
  myNodeID,
  curServer,  \* the nodes below are connected
  seen,       \* serverNum as last read
  k,          \* loop counter of serverConnect and of sum
  localMeta,  \* whose queue pairs localMeta describes at the moment
  remote,     \* the queue pairs of the peer that ours are connected to
  step,       \* the call a process is in
  acc         \* what sum has added up, and the results of earlier sums

mc == <<serverNum, meta, counter, sums>>
conn == <<myNodeID, curServer, seen, localMeta, remote>>
vars == <<mc, pc, conn, k, step, acc>>

Init ==
  /\ serverNum = 0                      \* restartMemc.sh
  /\ meta = [ij \in NodeID \X NodeID |-> Absent]
  /\ counter = [key \in BarrierKey |-> Absent]
  /\ sums = [si \in (DOMAIN Calls) \X NodeID |-> Absent]
  /\ pc = [p \in Proc |-> "enter"]
  /\ myNodeID = [p \in Proc |-> Absent]
  /\ curServer = [p \in Proc |-> 0]
  /\ seen = [p \in Proc |-> 0]
  /\ k = [p \in Proc |-> 0]
  /\ localMeta = [p \in Proc |-> Absent]
  /\ remote = [p \in Proc |-> [i \in NodeID |-> Absent]]
  /\ step = [p \in Proc |-> 1]
  /\ acc = [p \in Proc |-> [s \in DOMAIN Calls |-> 0]]

Goto(p, l) == pc' = [pc EXCEPT ![p] = l]

-----------------------------------------------------------------------------
(* Numbering and connection.                                               *)

\* serverEnter: myNodeID = serverNum - 1.
IDFrom(n) == n - 1

serverEnter(p) ==
  /\ pc[p] = "enter"
  /\ serverNum' = serverNum + 1
  /\ myNodeID' = [myNodeID EXCEPT ![p] = IDFrom(serverNum + 1)]
  /\ Goto(p, "connect")
  /\ UNCHANGED <<meta, counter, sums, curServer, seen, k, localMeta, remote,
                 step, acc>>

\* serverConnect: who has arrived by now?
ReadServerNum(p) ==
  /\ pc[p] = "connect"
  /\ curServer[p] < maxServer
  /\ seen' = [seen EXCEPT ![p] = serverNum]
  /\ k' = [k EXCEPT ![p] = curServer[p]]
  /\ Goto(p, "loop")
  /\ UNCHANGED <<mc, myNodeID, curServer, localMeta, remote, step, acc>>

\* Mutant: localMeta still describes the previous peer's queue pairs.
StaleMeta(p, i) ==
  IF localMeta[p] = Absent THEN [of |-> myNodeID[p], for |-> i]
                           ELSE localMeta[p]

\* setDataToRemote: the queue pairs reserved for node i.
setDataToRemote(p, i) == [of |-> myNodeID[p], for |-> i]

\* connectNode, first half: publish what node i needs.
Publish(p) ==
  LET i == k[p]
      m == setDataToRemote(p, i) IN
  /\ pc[p] = "loop"
  /\ i < seen[p]
  /\ i # myNodeID[p]
  /\ localMeta' = [localMeta EXCEPT ![p] = m]
  /\ meta' = [meta EXCEPT ![<<myNodeID[p], i>>] = m]
  /\ Goto(p, "get")
  /\ UNCHANGED <<serverNum, counter, sums, myNodeID, curServer, seen, k,
                 remote, step, acc>>

\* connectNode, second half: memGet and setDataFromRemote.
setDataFromRemote(p) ==
  LET m == meta[<<k[p], myNodeID[p]>>] IN
  /\ pc[p] = "get"
  /\ m # Absent
  /\ remote' = [remote EXCEPT ![p][k[p]] = m]
  /\ k' = [k EXCEPT ![p] = @ + 1]
  /\ Goto(p, "loop")
  /\ UNCHANGED <<mc, myNodeID, curServer, seen, localMeta, step, acc>>

SkipMyself(p) ==
  /\ pc[p] = "loop"
  /\ k[p] < seen[p]
  /\ k[p] = myNodeID[p]
  /\ k' = [k EXCEPT ![p] = @ + 1]
  /\ UNCHANGED <<mc, pc, conn, step, acc>>

\* serverConnect: curServer = serverNum, the value the round started from.
EndOfRound(p) ==
  /\ pc[p] = "loop"
  /\ k[p] >= seen[p]
  /\ curServer' = [curServer EXCEPT ![p] = seen[p]]
  /\ Goto(p, "connect")
  /\ UNCHANGED <<mc, myNodeID, seen, k, localMeta, remote, step, acc>>

\* The rest of DSMKeeper's constructor: connectMySelf, initRouteRule.
connectMySelf(p) ==
  LET m == setDataToRemote(p, myNodeID[p]) IN
  /\ pc[p] = "connect"
  /\ curServer[p] >= maxServer
  /\ localMeta' = [localMeta EXCEPT ![p] = m]
  /\ remote' = [remote EXCEPT ![p][myNodeID[p]] = m]
  /\ Goto(p, "call")
  /\ UNCHANGED <<mc, myNodeID, curServer, seen, k, step, acc>>

-----------------------------------------------------------------------------
(* Barriers and sums.                                                      *)

InCall(p, op) == step[p] \in DOMAIN Calls /\ Calls[step[p]].op = op

Key(p) == Calls[step[p]].key

\* Mutant: every node resets the counter.
EveryNode(p) == TRUE

\* barrier: node 0 sets the counter to 0.
ResetsCounter(p) == myNodeID[p] = 0

BarrierReset(p) ==
  /\ pc[p] = "call"
  /\ InCall(p, "barrier")
  /\ counter' = IF ResetsCounter(p) THEN [counter EXCEPT ![Key(p)] = 0]
                                    ELSE counter
  /\ Goto(p, "add")
  /\ UNCHANGED <<serverNum, meta, sums, conn, k, step, acc>>

\* memFetchAndAdd fails, and is repeated, until the key exists.
BarrierAdd(p) ==
  /\ pc[p] = "add"
  /\ counter[Key(p)] # Absent
  /\ counter' = [counter EXCEPT ![Key(p)] = @ + 1]
  /\ Goto(p, "wait")
  /\ UNCHANGED <<serverNum, meta, sums, conn, k, step, acc>>

\* Mutant: off by one.
AlmostAll(v) == v >= maxServer - 1

AllArrived(v) == v = maxServer

BarrierPass(p) ==
  /\ pc[p] = "wait"
  /\ AllArrived(counter[Key(p)])
  /\ step' = [step EXCEPT ![p] = @ + 1]
  /\ Goto(p, "call")
  /\ UNCHANGED <<mc, conn, k, acc>>

\* Mutant: every sum uses the same keys.
SameSumKey(s, i) == <<CHOOSE x \in DOMAIN Calls : Calls[x].op = "sum", i>>

\* DSM::sum's count makes the keys of every sum new ones.
SumKey(s, i) == <<s, i>>

SumPut(p) ==
  LET s == step[p]
      i == myNodeID[p] IN
  /\ pc[p] = "call"
  /\ InCall(p, "sum")
  /\ sums' = [sums EXCEPT ![SumKey(s, i)] = Value[i][s]]
  /\ k' = [k EXCEPT ![p] = 0]
  /\ Goto(p, "sum")
  /\ UNCHANGED <<serverNum, meta, counter, conn, step, acc>>

SumGet(p) ==
  LET v == sums[SumKey(step[p], k[p])] IN
  /\ pc[p] = "sum"
  /\ k[p] < maxServer
  /\ v # Absent
  /\ acc' = [acc EXCEPT ![p][step[p]] = @ + v]
  /\ k' = [k EXCEPT ![p] = @ + 1]
  /\ UNCHANGED <<mc, pc, conn, step>>

SumReturn(p) ==
  /\ pc[p] = "sum"
  /\ k[p] >= maxServer
  /\ step' = [step EXCEPT ![p] = @ + 1]
  /\ Goto(p, "call")
  /\ UNCHANGED <<mc, conn, k, acc>>

\* memGet, memFetchAndAdd and barrier ask again and again.
Poll(p) ==
  /\ \/ pc[p] = "get" /\ meta[<<k[p], myNodeID[p]>>] = Absent
     \/ pc[p] = "add" /\ counter[Key(p)] = Absent
     \/ pc[p] = "wait" /\ ~AllArrived(counter[Key(p)])
     \/ pc[p] = "sum" /\ k[p] < maxServer
          /\ sums[SumKey(step[p], k[p])] = Absent
  /\ UNCHANGED vars

Step(p) ==
  \/ serverEnter(p) \/ ReadServerNum(p) \/ Publish(p) \/ setDataFromRemote(p)
  \/ SkipMyself(p) \/ EndOfRound(p) \/ connectMySelf(p)
  \/ BarrierReset(p) \/ BarrierAdd(p) \/ BarrierPass(p)
  \/ SumPut(p) \/ SumGet(p) \/ SumReturn(p) \/ Poll(p)

Done(p) == pc[p] = "call" /\ step[p] = Len(Calls) + 1

Finished == (\A p \in Proc : Done(p)) /\ UNCHANGED vars

Next == (\E p \in Proc : Step(p)) \/ Finished

Spec == Init /\ [][Next]_vars

\* Every process runs; memcached answers.
FairSpec == Spec /\ \A p \in Proc : WF_vars(Step(p))

-----------------------------------------------------------------------------
\* The two ends of every connection name each other: what a node connects its
\* queue pairs for node i to are the queue pairs node i reserved for it, though
\* each node describes all its peers in one localMeta, one after the other.
ConnectedPairs ==
  \A p \in Proc : \A i \in NodeID :
    remote[p][i] # Absent => remote[p][i] = [of |-> i, for |-> myNodeID[p]]

\* Nobody leaves a barrier that somebody has not reached.
BarrierHolds ==
  \A p, q \in Proc : \A s \in DOMAIN Calls :
    Calls[s].op = "barrier" /\ step[p] > s
      => step[q] > s \/ (step[q] = s /\ pc[q] = "wait")

\* A sum that has returned is the total of what the nodes gave in that round.
SumIsTotal ==
  \A p \in Proc : \A s \in DOMAIN Calls :
    Calls[s].op = "sum" /\ step[p] > s
      => acc[p][s] = MapThenSumSet(LAMBDA i : Value[i][s], NodeID)

\* Nobody waits for ever: start-up, barriers and sums end on every node.
AllFinish == <>(\A p \in Proc : Done(p))
=============================================================================
