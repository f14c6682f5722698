--------------------------- MODULE MCPropagators ---------------------------
(***************************************************************************)
(* Programs of up to eight variables: recursion through single atoms and   *)
(* through bodies, two components, an unfounded set with more than three   *)
(* reasons, components with head cycles under both checkers, and sums.     *)
(***************************************************************************)
EXTENDS Propagators

R(H, P, N) == [type |-> "rule", head |-> H, pos |-> P, neg |-> N]
Choice(H) == [type |-> "choice", head |-> H, pos |-> {}, neg |-> {}]
SumLine(id, weight, bound) == [type |-> "sum", id |-> id, weight |-> weight, bound |-> bound]
Prog(size, lines, component, kind, aux) ==
    [size |-> size, lines |-> lines, component |-> component, kind |-> kind, aux |-> aux]
None == [x \in {} |-> <<>>]

(* 6 is the body 2, 3 of a rule for 1.                                     *)
ThroughBody ==
    Prog(6, <<R({1}, {2, 3}, {}), R({2}, {1}, {}), R({3}, {1}, {}), R({2}, {4}, {}), R({3}, {5}, {}),
              R({1}, {4}, {}), Choice({4, 5})>>,
         <<{1, 2, 3, 6}>>, <<"hcf">>, 6 :> <<2, 3>>)
ManyReasons ==
    Prog(6, <<R({1}, {2}, {}), R({2}, {1}, {}), R({1}, {3}, {}), R({1}, {4}, {}), R({2}, {5}, {}), R({2}, {6}, {}),
              Choice({3, 4, 5, 6})>>,
         <<{1, 2}>>, <<"hcf">>, None)
TwoComponents ==
    Prog(6, <<R({1}, {2}, {}), R({2}, {1}, {}), R({1}, {5}, {}), R({3}, {4}, {}), R({4}, {3}, {}), R({3}, {1}, {}),
              R({4}, {}, {6}), Choice({5, 6}), R({}, {}, {4})>>,
         <<{1, 2}, {3, 4}>>, <<"hcf", "hcf">>, None)
(* No answer set: 1 must be true and cannot be founded.                    *)
Forced ==
    Prog(4, <<R({1}, {2}, {}), R({2}, {1}, {}), R({1}, {3}, {}), R({2}, {4}, {}), Choice({3, 4}), R({}, {}, {1}),
              R({}, {3}, {}), R({}, {4}, {})>>,
         <<{1, 2}>>, <<"hcf">>, None)
(* 1 or 2 if 3, both in a cycle; 4 and 5 are the bodies of the shifted     *)
(* rules.                                                                  *)
HeadCycle(kind) ==
    Prog(5, <<R({1, 2}, {3}, {}), R({1}, {2}, {}), R({2}, {1}, {}), Choice({3})>>,
         <<{1, 2}>>, <<kind>>, 4 :> <<3, -2>> @@ 5 :> <<3, -1>>)
(* The cycle is through the body 4 of both; without 3 it is unfounded.     *)
Saturated(kind) ==
    Prog(8, <<R({1, 2}, {}, {3}), R({1}, {4}, {}), R({2}, {4}, {}), R({4}, {1, 2}, {}), R({4}, {5}, {}), Choice({5, 3})>>,
         <<{1, 2, 4}>>, <<kind>>, 6 :> <<-2, -3>> @@ 7 :> <<-1, -3>> @@ 8 :> <<1, 2>>)
(* As Saturated, but the atoms outside are known from the start: the loop  *)
(* formula is a single literal.                                            *)
SaturatedAtZero(kind) ==
    Prog(8, Saturated(kind).lines \o <<R({}, {}, {3}), R({}, {5}, {})>>, <<{1, 2, 4}>>, <<kind>>, Saturated(kind).aux)
Sum ==
    Prog(5, <<Choice({1, 2, 3}), SumLine(4, 1 :> 3 @@ 2 :> 2 @@ 3 :> 2, 4), R({5}, {}, {4}), R({}, {5, 1}, {})>>,
         <<>>, <<>>, None)
(* Without 1 the clauses make 2 false and the sum makes it true.           *)
SumAgainstClauses ==
    Prog(5, <<Choice({1, 2, 3, 5}), SumLine(4, 1 :> 2 @@ 2 :> 1 @@ 3 :> 1 @@ -5 :> 1, 3), R({}, {}, {4}), R({}, {2}, {1})>>,
         <<>>, <<>>, None)
TwoSums ==
    Prog(7, <<Choice({1, 2, 3}), SumLine(4, 1 :> 1 @@ 2 :> 1 @@ 3 :> 1, 2), SumLine(5, 1 :> 1 @@ -2 :> 2 @@ 3 :> 1, 2),
              R({6}, {4, 5}, {}), R({}, {}, {6, 1})>>,
         <<>>, <<>>, 7 :> <<4, 5>>)
(* A component whose atoms a sum counts.                                   *)
Counted ==
    Prog(6, <<R({1}, {2}, {}), R({2}, {1}, {}), R({1}, {3}, {}), R({2}, {6}, {}), Choice({3, 6}),
              SumLine(4, 1 :> 2 @@ 3 :> 1 @@ -6 :> 1, 2), R({5}, {4}, {}), R({}, {}, {5})>>,
         <<{1, 2}>>, <<"hcf">>, None)
(* Nothing outside supports 1 and 2.                                       *)
NoSupport == Prog(3, <<R({1}, {2}, {}), R({2}, {1}, {}), Choice({3}), R({}, {3}, {1})>>, <<{1, 2}>>, <<"hcf">>, None)
Contradiction ==
    Prog(4, <<Choice({1, 2}), R({}, {}, {1, 2}), R({}, {1}, {2}), R({}, {2}, {1}), R({}, {1, 2}, {}),
              R({3}, {4}, {}), R({4}, {3}, {}), R({4}, {1}, {})>>,
         <<{3, 4}>>, <<"hcf">>, None)

Checkers == {"reduct", "unfounded"}
MCPrograms ==
    {ThroughBody, ManyReasons, TwoComponents, Forced, Sum, SumAgainstClauses, TwoSums, Counted, NoSupport, Contradiction}
    \cup UNION {{HeadCycle(k), Saturated(k), SaturatedAtZero(k)} : k \in Checkers}
=============================================================================
