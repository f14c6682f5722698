--------------------------- MODULE MCDistributed ----------------------------
(* Super graphs over four vertices: the diamond, the diamond with a short  *)
(* cut, two sources and two final vertices, one child of three parents     *)
(* with an edge between two of them, and one vertex on its own.            *)
EXTENDS Distributed

Clients == 1 .. 5
Itself  == [c \in Clients |-> c]
Bodies  == SUBSET (1 .. 4)
Budget  == [c \in Clients |-> 4]

Diamond == {<<1, 2>>, <<1, 3>>, <<2, 4>>, <<3, 4>>}

SuperGraphs ==
    { Diamond,
      Diamond \cup {<<1, 4>>},
      {<<1, 3>>, <<2, 3>>, <<2, 4>>},
      {<<1, 4>>, <<2, 4>>, <<3, 4>>, <<1, 2>>},
      {<<1, 2>>, <<2, 3>>} }
=============================================================================
