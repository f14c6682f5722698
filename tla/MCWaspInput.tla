---------------------------- MODULE MCWaspInput ----------------------------
(***************************************************************************)
(* Every program of a few lines of the following menus, on three atoms and *)
(* a weight constraint.                                                    *)
(***************************************************************************)
EXTENDS WaspInput

R(H, P, N) == Rule(H, P, N)
Choice(H, P, N) == [type |-> "choice", head |-> H, pos |-> P, neg |-> N]
SumLine(id, weight, bound) == [type |-> "sum", id |-> id, weight |-> weight, bound |-> bound]
Closing(type, v) == [type |-> type, atom |-> v]

Normal ==
    {R({1}, {}, {2}), R({2}, {}, {1}), R({1}, {2}, {}), R({2}, {1}, {}), R({3}, {1, 2}, {}),
     R({}, {}, {3}), R({1}, {}, {}), Choice({1, 2}, {}, {}), Choice({3}, {2}, {}), R({3}, {3}, {1})}
Disjunctive ==
    {R({1, 2}, {}, {}), R({1, 2, 3}, {}, {}), R({1}, {2}, {}), R({2}, {1}, {}), R({3}, {1}, {2}),
     R({}, {}, {1}), R({1, 2}, {}, {3}), R({2, 3}, {1}, {}), Choice({3}, {}, {})}
Weighted ==
    {SumLine(3, 1 :> 1 @@ 2 :> 1, 2), SumLine(3, 1 :> 2 @@ -2 :> 1, 2), Choice({1, 2}, {}, {}),
     R({1}, {3}, {}), R({}, {3}, {}), R({}, {}, {3}), R({2}, {}, {1}), R({1}, {}, {}), R({1}, {2}, {})}

Cyclic ==
    {R({1, 2}, {}, {}), R({1, 2}, {}, {3}), R({1}, {2}, {}), R({2}, {1}, {}), R({}, {}, {1}), Choice({3}, {}, {})}

Input(lines, n, closing, shifts) == [lines |-> lines, maxLines |-> n, closing |-> closing, shifts |-> shifts]
AllShifts == {"naive", "propagator", "left_right", "normalize", "quadratic", "quadratic_aggregate", "auto"}
MCInputs ==
    {Input(Normal, 3, c, {"naive"}) : c \in {{}, {Closing("true", 1)}, {Closing("false", 2), Closing("external", 3)}}}
    \cup {Input(Disjunctive, 2, c, AllShifts) : c \in {{}, {Closing("true", 1)}}}
    \cup {Input(Cyclic, 3, {}, AllShifts), Input(Weighted, 3, {}, {"naive"})}
MCAtom == 1..3
=============================================================================
