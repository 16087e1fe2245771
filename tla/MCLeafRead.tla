---------------------------- MODULE MCLeafRead ----------------------------
(* Instances of LeafRead: three slots over three cache lines.              *)
EXTENDS LeafRead, TLC

\* No two keys share a value.
MCValue == [k \in Key |-> {2 * k, 2 * k + 1}]

\* The first and the last entry straddle two lines, as 18-byte entries in
\* 64-byte lines do.
ThreeLines ==
  [x \in Field |->
     IF x[2] = "rear" THEN 3
     ELSE IF x[1] = 0 THEN 1
     ELSE IF x[1] = 1 THEN (IF x[2] \in {"f", "key"} THEN 1 ELSE 2)
     ELSE IF x[1] = 2 THEN 2
     ELSE (IF x[2] \in {"f", "key"} THEN 2 ELSE 3)]
=============================================================================
