---------------------------- MODULE MCHierLock ----------------------------
(* An instance of HierLock for TLC: two nodes, two threads on the first.     *)
EXTENDS HierLock, TLC

CONSTANTS n1, n2, a, b, c

MCTickets == n1 :> 3 @@ n2 :> 1
MCNode == {n1, n2}
MCThread == {a, b, c}
MCNodeOf == a :> n1 @@ b :> n1 @@ c :> n2
=============================================================================
