----------------------------- MODULE MCWaspSolver -----------------------------
(***************************************************************************)
(* Small problems for the search: several levels of conflicts, redundant   *)
(* literals, clauses of post-propagators that are false or unit at any     *)
(* level, and assumptions whose core has more than two literals.           *)
(***************************************************************************)
EXTENDS WaspSolver

MCVar == 1..4
Problem(C, L, A, M) == [input |-> C, loops |-> L, assumptions |-> A, modes |-> M]

MCInstances == {
    Problem({{1, -2}, {-1, -2, 4}, {2, 3, -4}, {2, -3}, {-1, 2, 3, 4}},
            {{-2, 3, -4}, {1, 2, -4}}, <<4, 2, -1>>, {"bc", "bt", "core"}),
    Problem({{1, 2, 3}, {-1, 3, 4}, {2, -3, 4}, {-2, -4}, {1, -3, -4}, {-1, -2, -3}},
            {{-1, 2, -3}}, <<-1, -2, -3, 4>>, {"bt", "core"}),
    Problem({{1, 2, 3, -4}, {1, 2}}, {{-1, -2}}, <<4, -3, 2, 1, -2>>, {"core"}),
    Problem({{1, 2, 3}, {-1, 4}}, {{1, 2, 3, -4}}, <<-4, -3, -2, -1>>, {"core"}),
    Problem({{1, 2, 3}, {-1, -4}}, {{1, 2, 3, -4}}, <<4, -3, -2, -1>>, {"core"}),
    Problem({{1, 3}, {1, 2, -3, 4}, {1, -2, -3, 4}, {-1, 2}, {-1, -3}, {-1, -4}},
            {}, <<>>, {"bc", "bt"}),
    Problem({{-3, 4}, {-3, -4}, {-1, 3}, {2, -3}}, {}, <<>>, {"bt"}),
    Problem({{1, 2}, {-1, 2}, {1, -2}, {-1, -2}}, {}, <<3>>, {"bc", "bt", "core"}) }

(* 6 is true in every model but only learned so, with 5 and -2, when both  *)
(* values of 5 are tried below several choices.                            *)
LateVar == 1..7
LateInstances == {
    Problem({{3, 6}, {3, -4}, {-6, 5}, {-5, 6}, {-6, -2}, {6, 7}, {6, -7}, {-6, 7}},
            {}, <<>>, {"bt"}) }

=============================================================================
