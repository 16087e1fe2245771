------------------------------ MODULE MCAlloc ------------------------------
(* Two nodes, two client threads on the first and one on the second.       *)
EXTENDS Alloc, TLC

CONSTANTS t1, t2, t3

MCThread == {t1, t2, t3}
MCNodeOf == t1 :> 0 @@ t2 :> 0 @@ t3 :> 1
MCFirstTarget == t1 :> 0 @@ t2 :> 1 @@ t3 :> 1
=============================================================================
