--------------------------- MODULE DependencyGraph ---------------------------
(***************************************************************************)
(* The graph of a theory: Graph.initGraph, the search for its strongly     *)
(* connected components (StronglyConnectedComponent.scc, the algorithm of  *)
(* Kosaraju) and the super graph of the components (SuperGraph).  Vertices *)
(* come out of HashMaps: the order of a search is a parameter, a sequence  *)
(* of all the variables.                                                   *)
(***************************************************************************)
EXTENDS Theory, SequencesExt

(* initGraph on the rules with an index in I: a rule without body adds its *)
(* head variables, any other its body variables and, with their edges, its *)
(* head variables.                                                         *)
Edges(I, bodies, heads) == UNION {bodies[i] \X heads[i] : i \in I}

Vertices(I, bodies, heads) == UNION {bodies[i] \cup heads[i] : i \in I}

(* reverseGraph                                                            *)
Reversed(E) == {<<e[2], e[1]>> : e \in E}
-----------------------------------------------------------------------------
Search == [visited : SUBSET Var, stack : Seq(Var)]

(* Mutant: a vertex is pushed before its neighbours are searched.          *)
DfsPreorder(E, order) ==
    LET Dfs[s \in Search, todo \in Seq(Var)] ==
            IF todo = <<>> THEN s
            ELSE LET v     == Head(todo)
                     first == [visited |-> s.visited \cup {v}, stack |-> <<v>> \o s.stack]
                     deep  == Dfs[first, SelectSeq(order, LAMBDA w : <<v, w>> \in E)]
                 IN  Dfs[IF v \in s.visited THEN s ELSE deep, Tail(todo)]
    IN  Dfs

(* DFSUtil from each vertex of a sequence that is not visited yet; it puts *)
(* a vertex in front of the stack when its neighbours are done.            *)
DFSUtil(E, order) ==
    LET Dfs[s \in Search, todo \in Seq(Var)] ==
            IF todo = <<>> THEN s
            ELSE LET v    == Head(todo)
                     deep == Dfs[[s EXCEPT !.visited = @ \cup {v}],
                                 SelectSeq(order, LAMBDA w : <<v, w>> \in E)]
                 IN  Dfs[IF v \in s.visited THEN s
                         ELSE [deep EXCEPT !.stack = <<v>> \o @], Tail(todo)]
    IN  Dfs

Unvisited == [visited |-> {}, stack |-> <<>>]

(* scc: the components in the order in which the second search, on the     *)
(* reversed graph and from the vertex that finished last, finds them.      *)
SCC(V, E, order) ==
    LET vertices == SelectSeq(order, LAMBDA v : v \in V)
        finished == DFSUtil(E, order)[Unvisited, vertices].stack
        Reach(seen, v) ==
            DFSUtil(Reversed(E), order)[[Unvisited EXCEPT !.visited = seen], <<v>>].visited
        Collect(acc, v) ==
            IF v \in acc.visited THEN acc
            ELSE LET reached == Reach(acc.visited, v)
                 IN  [visited |-> reached, found |-> Append(acc.found, reached \ acc.visited)]
    IN  FoldLeft(Collect, [visited |-> {}, found |-> <<>>], finished).found

(* sourceOfGraph: the first component, no vertex for the empty graph.      *)
SourceOfGraph(V, E, order) ==
    LET result == SCC(V, E, order) IN IF result = <<>> THEN {} ELSE result[1]

(* Mutant: an edge inside a component becomes a loop.                      *)
SuperEdgesWithLoops(components, E) ==
    {p \in components \X components : \E e \in E : e[1] \in p[1] /\ e[2] \in p[2]}

(* The edges of SuperGraph, between components instead of their numbers.   *)
SuperEdges(components, E) ==
    {p \in components \X components :
        p[1] # p[2] /\ \E e \in E : e[1] \in p[1] /\ e[2] \in p[2]}

(* Every order in which the vertices may come out of the maps.             *)
Orders == SetToSeqs(Var)
-----------------------------------------------------------------------------
(* Reference: what is reached from v by edges of E.                        *)
ReachedFrom(v, V, E) ==
    LET Grow[n \in Nat] ==
            IF n = 0 THEN {v}
            ELSE LET near == Grow[n - 1]
                 IN  near \cup {w \in V : \E u \in near : <<u, w>> \in E}
    IN  Grow[Cardinality(V)]

Connected(V, E) ==
    LET reached == [v \in V |-> ReachedFrom(v, V, E)]
    IN  {{w \in V : w \in reached[v] /\ v \in reached[w]} : v \in V}

(* The list is that of the strongly connected components, each listed once *)
(* and before the components its edges lead to.                            *)
IsComponentList(list, V, E) ==
    /\ LET parts == Connected(V, E)
       IN  ToSet(list) = parts /\ Len(list) = Cardinality(parts)
    /\ \A i, j \in 1 .. Len(list) :
          (\E e \in E : e[1] \in list[i] /\ e[2] \in list[j]) => i <= j
=============================================================================
