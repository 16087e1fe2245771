--------------------------- MODULE MCMessageRing ---------------------------
(* Instances of MessageRing for TLC.                                       *)
EXTENDS MessageRing, TLC

CONSTANTS a, b

\* Rings as short as the signalling period allows: two threads and two new
\* roots are more than a directory has posted, but no more than its ring.
ShortRings == [c \in Conn |-> 4]

\* One thread alone goes round every ring; two meet at a directory, both also
\* while it has yet to take the new roots.
SomeCalls == {a :> 9 @@ b :> 0, a :> 5 @@ b :> 1}
=============================================================================
