--------------------------- MODULE MCIndexCache ---------------------------
(* Instances of IndexCache: a page and the two halves it is split into.    *)
EXTENDS IndexCache

CONSTANTS t1, t2, t3

Span(i, j) == [from |-> i, to |-> j]
Halves == {Span(0, 3), Span(0, 1), Span(2, 3)}
OneRange == {Span(0, 3)}
=============================================================================
