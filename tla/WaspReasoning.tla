--------------------------- MODULE WaspReasoning ---------------------------
(***************************************************************************)
(* main and WaspFacade::solve: what the solver is asked for, by the        *)
(* options: the atoms of a predicate minimised, the cautious consequences  *)
(* or the answer sets that are best for the weak constraints.              *)
(***************************************************************************)
EXTENDS WeakConstraints, PredicateMinimization

CONSTANTS Problems,      \* models over 1..size, soft literals, visible and minimized variables
          Algorithms     \* of the tasks "weak", "query", "cautious" and "predmin"

(* What is asked for is about variables of the program, and an option that *)
(* takes a number takes a natural one.                                     *)
ASSUME ProblemsAssumption ==
    \A p \in Problems :
        /\ p.size \in Nat
        /\ p.models \in SUBSET SUBSET (1 .. p.size)
        /\ p.visible \in SUBSET (1 .. p.size) /\ p.minimized \in SUBSET (1 .. p.size)

QueryAlgorithms == {"ict", "or", "cb", "dynamic", "static"}
Relaxers == {"one", "kdyn", "pmres"}
CautiousAlgorithms == {"preferences", "ict-preferences", "pi"} \cup Relaxers
Minimizers == {"enumeration", "usePreferences", "guessAndCheck", "guessAndCheckAndMinimize",
               "guessAndCheckAndSplit", "coreBased"}
Strategies == {"bt", "bc"}     \* of the enumeration: flipped choices, blocking clauses
ASSUME AlgorithmsAssumption ==
    \A a \in Algorithms :
        /\ a.task \in {"weak", "query", "cautious", "predmin"}
        /\ a.task = "query" => a.name \in QueryAlgorithms /\ a.chunk \in Nat
        /\ a.task = "cautious" => a.name \in CautiousAlgorithms /\ a.cached \in BOOLEAN
        /\ a.task = "predmin" => a.name \in Minimizers /\ a.chunk \in Nat /\ a.strategy \in Strategies

vars == <<solver, task, pc, assumptions, weak, shown, ask, minimize>>

Init ==
    /\ problem \in Problems /\ algorithm \in Algorithms
    /\ algorithm.task = "weak" <=> problem.soft # <<>>
    /\ algorithm.task = "predmin" <=> problem.minimized # {}
    /\ pc = IF algorithm.task = "weak" THEN "level" ELSE algorithm.task
    /\ models = problem.models /\ size = problem.size /\ zero = {} /\ assumptions = {}
    /\ WeakInit /\ shown = NoModel
    /\ candidates = <<>> /\ answers = <<>> /\ chunk = <<>> /\ aux = 0
    /\ tested = 0 /\ round = 0 /\ cache = NoCache
    /\ trueVars = NoSet /\ core = {}

Weak == WeakNext /\ UNCHANGED <<ask, minimize>>

Query ==
    /\ \/ QueryInterfaceSolve \/ IterativeCoherenceTesting \/ OverestimateReduction
       \/ CoreBasedAlgorithm \/ ChunkDynamicAlgorithm \/ ChunkStaticAlgorithm
       \/ CautiousReasoningSolve \/ FindMinimalModelPreferences \/ KnownCore
       \/ SolveAndProcessCore \/ IterativeCoherenceTestingPreferences \/ PrimeImplicate
    /\ UNCHANGED <<weak, shown, minimize>>

Minimization ==
    /\ \/ PredicateMinimizationSolve \/ EnumerationOfAll \/ UsePreferences \/ GuessAndCheck
       \/ GuessAndCheckAndMinimize \/ GuessAndCheckAndSplit \/ CoreBased
    /\ UNCHANGED <<weak, shown>>

Ended == pc \in {"done", "incoherent", "hanging"} /\ UNCHANGED vars

Next == Weak \/ Query \/ Minimization \/ Ended

Spec == Init /\ [][Next]_vars

-----------------------------------------------------------------------------
Consequences == {v \in problem.visible : \A M \in problem.models : v \in M}
Asking == algorithm.task \in {"query", "cautious"}

(* Whatever the solver finds and in whatever order, an answer holds in all *)
(* answer sets, and what holds in all of them is an answer or can still    *)
(* become one (chunkStaticAlgorithm is left out: it loses candidates).  At *)
(* the end each cautious consequence is an answer, once (primeImplicate    *)
(* may print one twice), and only a program without answer sets is said to *)
(* be incoherent.                                                          *)
AnswersEnclosed ==
    Asking =>
      /\ ToSet(answers) \subseteq Consequences
      /\ algorithm.name # "static" /\ pc \notin {"query", "cautious", "incoherent"} =>
           Consequences \subseteq ToSet(answers \o candidates \o chunk) \cup {Variable(tested)}
      /\ pc = "done" /\ algorithm.name # "static" => ToSet(answers) = Consequences
      /\ algorithm.name # "pi" => IsInjective(answers)
      /\ pc = "incoherent" <=> problem.models = {} /\ pc # algorithm.task

(* A round of minimalAlgorithm ends with a model that is minimal: no       *)
(* answer set makes fewer of the candidates it started with true.  Else    *)
(* the last round could keep candidates that are no consequences.          *)
RoundIsMinimal ==
    [][algorithm.name \in {"one", "kdyn", "pmres", "preferences"} /\ (round' # round \/ pc' = "done") /\ round > 0 =>
         \A N \in problem.models :
           N \cap ToSet(candidates) \subseteq ToSet(candidates') \cup ToSet(answers')
             => ToSet(candidates') \subseteq N]_vars

(* The set printed at the end is that of an answer set, if there is one.   *)
(* It is minimal with respect to inclusion unless the algorithm gives up   *)
(* minimality: guessAndCheckAndSplit forgets a candidate it found can be   *)
(* false, guessAndCheck may keep a smaller set that it has not checked,    *)
(* and an enumeration by flipped choices, the default, can end before the  *)
(* smallest set was reported.  By blocking clauses it is the smallest.     *)
Sets == {M \cap problem.minimized : M \in problem.models}
AllReported == algorithm.name = "enumeration" /\ algorithm.strategy = "bc"
KeepsMinimality ==
    AllReported \/ algorithm.name \in {"guessAndCheckAndMinimize", "coreBased", "usePreferences"}
SetIsMinimal ==
    algorithm.task = "predmin" /\ pc = "done" =>
      /\ problem.models = {} <=> trueVars = NoSet
      /\ problem.models # {} => trueVars \in Sets
      /\ problem.models # {} /\ KeepsMinimality =>
           \A s \in Sets : s \subseteq trueVars => s = trueVars
      /\ problem.models # {} /\ AllReported =>
           \A s \in Sets : Cardinality(trueVars) <= Cardinality(s)

(* Every task ends: no call is made twice without one of these having      *)
(* become less, in this order; only the loop that the comment of           *)
(* GuessAndCheckAndMinimize tells of goes on.                              *)
Stage == IF pc \in {"done", "incoherent", "hanging"} THEN 0 ELSE IF pc = algorithm.task THEN 2 ELSE 1
Phase ==
    CASE pc = "level" -> 5
      [] pc = "disjoint" -> 4
      [] pc = "run" -> 3
      [] pc = "completed" -> 1
      [] pc \in {"hardening", "done", "incoherent"} -> 0
      [] OTHER -> 2

Rank ==
    CASE algorithm.task = "weak" ->
           <<Stage, level, Phase, IF level = 0 THEN 0 ELSE Weigh(Soft, Remaining(Soft)), ub, weight>>
      [] algorithm.task = "predmin" ->
           <<Stage, Cardinality(models), Len(candidates), Cardinality(assumptions), IF pc = "check" THEN 1 ELSE 0>>
      [] OTHER ->
           <<Stage, Len(candidates \o chunk), -Len(answers),
             IF pc = "testing" THEN 1 ELSE 0, Cardinality(assumptions)>>

Less(a, b) == \E i \in DOMAIN a : a[i] < b[i] /\ \A j \in 1..(i - 1) : a[j] = b[j]

=============================================================================
