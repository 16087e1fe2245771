----------------------------- MODULE MCCoroIO -----------------------------
(* Instances of CoroIO for TLC.                                            *)
EXTENDS CoroIO, TLC

CONSTANTS t1, t2, n1, n2, c1, c2, c3

\* Two coroutines of a thread share a compute node's local locks; a thread of
\* another node competes for the lock words.
TwoThreads == t1 :> <<c1, c2>> @@ t2 :> <<c3>>
TwoNodes == t1 :> n1 @@ t2 :> n2

\* Requests to the memory nodes 0 (Home) and 1.
Both(p) == 0 :> p[1] @@ 1 :> p[2]
Plan(p1, p2, p3) == c1 :> Both(p1) @@ c2 :> Both(p2) @@ c3 :> Both(p3)

\* All meet at one node; they meet there while c1 also works on the other; c1
\* goes round its rings and may lose what it posted on the other node before.
FewRequests ==
  {Plan(<<1, 0>>, <<1, 0>>, <<1, 0>>), Plan(<<2, 0>>, <<0, 0>>, <<1, 0>>),
   Plan(<<1, 1>>, <<1, 0>>, <<0, 0>>), Plan(<<1, 1>>, <<0, 0>>, <<1, 0>>),
   Plan(<<2, 1>>, <<0, 0>>, <<0, 0>>)}
=============================================================================
