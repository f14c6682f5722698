-------------------------- MODULE MCWaspReasoning --------------------------
EXTENDS WaspReasoning

ModelsOf(n, C) == {M \in SUBSET (1..n) : \A c \in C : Sat(M, c)}

S(l, w) == [lit |-> l, weight |-> w]
WeakProblem(n, C, s) ==
    [size |-> n, models |-> ModelsOf(n, C), soft |-> s, visible |-> 1..n, minimized |-> {}]
QueryProblem(n, vis, C) ==
    [size |-> n, models |-> ModelsOf(n, C), soft |-> <<>>, visible |-> vis, minimized |-> {}]
MinProblem(n, min, C) ==
    [size |-> n, models |-> ModelsOf(n, C), soft |-> <<>>, visible |-> 1..n, minimized |-> min]

(* Weights and two levels; consequences that need a case distinction on a  *)
(* hidden variable; incomparable minimal sets.                             *)
MCProblems ==
    {WeakProblem(3, {{1, 2}, {2, 3}, {1, 3}}, <<<<S(1, 1), S(2, 1), S(3, 1)>>>>),
     WeakProblem(3, {{1, 2, 3}, {1, 2}}, <<<<S(1, 1), S(3, 2)>>, <<S(2, 3), S(3, 2), S(1, 1)>>>>),
     QueryProblem(4, 1..4, {{1, 2}, {2, 3}, {1, 3}, {4}}),
     QueryProblem(4, 1..3, {{1, 4}, {2, -4}, {2, 4, 3}, {2, 3}}),
     QueryProblem(4, 1..3, {{1, 2, 4}, {1, 3, -4}, {2, -4, -1}}),
     QueryProblem(1, {1}, {{1}, {-1}}),
     MinProblem(4, 1..3, {{1, 2, 4}, {3, 1, -4}, {2, 3}}),
     MinProblem(4, 1..3, {{1, 3}, {2, 1, 4}, {2, 1, -4}, {-1, 4, 2}})}

W(a, d, s, k) == [task |-> "weak", name |-> a, disjoint |-> d, stratified |-> s, threshold |-> k]
Q(t, a, k, c) == [task |-> t, name |-> a, chunk |-> k, cached |-> c]

Minimizer(a, k, s) == [task |-> "predmin", name |-> a, chunk |-> k, strategy |-> s]

MCAlgorithms ==
    {W(a, d, s, 0) : a \in {"one", "pmres"}, d \in BOOLEAN, s \in BOOLEAN}
    \cup {W("k", d, s, k) : d \in BOOLEAN, s \in BOOLEAN, k \in {0, 2}}
    \cup {W("opt", FALSE, FALSE, 0), W("mgd", FALSE, FALSE, 0)}
    \cup {Q("query", a, 0, FALSE) : a \in {"ict", "or", "cb"}} \cup {Q("query", "cb", 2, FALSE)}
    \cup {Q("query", a, 2, FALSE) : a \in {"static", "dynamic"}}
    \cup {Q("cautious", a, 0, FALSE) : a \in {"preferences", "ict-preferences", "pi"}}
    \cup {Q("cautious", a, 0, c) : a \in {"one", "kdyn", "pmres"}, c \in BOOLEAN}
    \cup {Minimizer("enumeration", 0, s) : s \in {"bt", "bc"}}
    \cup {Minimizer(a, 0, "bt") : a \in {"usePreferences", "guessAndCheck", "guessAndCheckAndMinimize",
                                         "guessAndCheckAndSplit", "coreBased"}}
    \cup {Minimizer("coreBased", 2, "bt")}
=============================================================================
