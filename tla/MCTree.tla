------------------------------ MODULE MCTree ------------------------------
(* Instances of Tree for TLC: clients, workloads and memory layouts.       *)
EXTENDS Tree, TLC

CONSTANTS n1, n2, a, b

Insert(k, v) == [op |-> "insert", k |-> k, v |-> v]
Del(k) == [op |-> "del", k |-> k, v |-> kValueNull]
Search(k) == [op |-> "search", k |-> k, v |-> kValueNull]
Inserts(K, v) == {Insert(k, v) : k \in K}

TwoNodes == a :> n1 @@ b :> n2

EmptyTree == <<LeafPage>>
OnEmpty(calls) == [tree |-> EmptyTree, root |-> FirstLeaf, calls |-> calls]

\* Two writers that make the tree three levels high, overwrite and delete each
\* other's keys and search for them.
Mixed ==
  a :> <<Inserts({1, 2}, 1), Inserts({3}, 1), {Insert(4, 1), Del(2)}>>
  @@ b :> <<{Insert(1, 2), Insert(4, 2), Search(2)},
            {Insert(3, 2), Search(1)}>>

\* Two writers that split and search on both sides of each other's splits.
Spread ==
  a :> <<Inserts({1, 2}, 1), Inserts({3}, 1), Inserts({2, 4}, 1)>>
  @@ b :> <<Inserts({2, 4}, 2), Inserts({1, 3}, 2)>>

\* One writer alone: the old root splits on the high keys and fills again with
\* the separators of the low ones.
RefillKeys == 1..6
Refill ==
  a :> [i \in RefillKeys |-> {Insert(<<3, 4, 5, 6, 1, 2>>[i], 1)}] @@ b :> <<>>

\* The tree that inserting 2, 4, ..., 12 in this order leaves: six leaves with
\* one record each, three pages above them and the root, which takes one more
\* separator before it splits.
Leaf(k, low, high, sib) ==
  [level |-> 0, leftmost |-> Null, sibling |-> sib, lowest |-> low,
   highest |-> high, recs |-> k :> 9]
Inner(level, low, high, sib, left, recs) ==
  [level |-> level, leftmost |-> left, sibling |-> sib, lowest |-> low,
   highest |-> high, recs |-> recs]

LoadedTree ==
  <<Leaf(2, 0, 4, 2), Leaf(4, 4, 6, 4), Inner(1, 0, 6, 6, 1, 4 :> 2),
    Leaf(6, 6, 8, 5), Leaf(8, 8, 10, 8), Inner(1, 6, 10, 10, 4, 8 :> 5),
    Inner(2, 0, 14, 0, 3, 6 :> 6 @@ 10 :> 10), Leaf(10, 10, 12, 9),
    Leaf(12, 12, 14, 0), Inner(1, 10, 14, 0, 8, 12 :> 9)>>

\* Clients of two nodes that fill their caches, split the leaves and the pages
\* above under each other's copies, and then go through those copies.
Cached ==
  a :> <<{Search(2), Search(6)}, {Insert(3, 1), Search(5)},
         {Insert(5, 1), Del(4)}>>
  @@ b :> <<{Search(4)}, {Insert(5, 2), Insert(3, 2)}, {Search(3), Del(5)}>>

LinWorkloads ==
  "grow" :> OnEmpty(Mixed)
  @@ "cache" :> [tree |-> LoadedTree, root |-> 7, calls |-> Cached]
Keys == 1..6

\* The same on fewer operations, for the pages of two memory nodes.
CachedSpread ==
  a :> <<{Search(2)}, {Insert(3, 1), Del(2)}>>
  @@ b :> <<{Search(4)}, {Insert(3, 2), Insert(5, 2)}>>
SpreadWorkloads ==
  "spread" :> OnEmpty(Spread)
  @@ "cache" :> [tree |-> LoadedTree, root |-> 7, calls |-> CachedSpread]
RefillWorkloads == "refill" :> OnEmpty(Refill)

OneMemNode == [x \in Addr |-> 0]
\* Neighbouring pages, so a page and its parent or sibling, on two nodes.
TwoMemNodes == [x \in Addr |-> x % 2]
\* Few lock words, so that different pages share one.
TwoLocks == [x \in Addr |-> x % 2]
=============================================================================
