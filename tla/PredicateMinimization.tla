----------------------- MODULE PredicateMinimization -----------------------
(***************************************************************************)
(* PredicateMinimization: an answer set in which a minimal set of the      *)
(* atoms over some predicates is true.  Of all models the solver finds on  *)
(* the way the listener keeps the smallest set.                            *)
(***************************************************************************)
EXTENDS Queries

VARIABLES trueVars,      \* the listener's, NoSet before the first model
          core           \* the last core of coreBased

minimize == <<trueVars, core>>
NoSet == {0}
Candidates == ToSet(candidates)
True(M) == Keep(candidates, M)
(* Mutant of OnlyOf: the candidates that are false may become true again.  *)
AllOf(ms, M) == ms
OnlyOf(ms, M) == {N \in ms : N \cap Candidates \subseteq M}

FoundSet(M) ==
    LET found == M \cap problem.minimized
    IN  trueVars' = IF trueVars = NoSet \/ Cardinality(found) < Cardinality(trueVars) THEN found ELSE trueVars

(* A call, and what it may find out.                                       *)
Model(M, z) == FoundModel(assumptions, M) /\ FoundSet(M) /\ zero' = z
Continue(c, A, next) == candidates' = c /\ Call(A, next)
Others == <<size, task, answers, chunk, aux, tested, round, cache>>

(* A chunk of at least two candidates, all of them if no size is given.    *)
FirstFalse(c) ==
    Negated(SubSeq(c, 1, IF algorithm.chunk = 0 THEN Len(c) ELSE Min({Max({algorithm.chunk, 2}), Len(c)})))

PredicateMinimizationSolve ==
    /\ pc = "predmin"
    /\ LET c == Ascending(problem.minimized)
       IN  IF c = <<>> THEN Continue(c, {}, "usePreferences")
           ELSE Continue(c, IF algorithm.name = "coreBased" THEN FirstFalse(c) ELSE {},
                         algorithm.name)
    /\ UNCHANGED <<solver, task, answers, chunk, aux, tested, round, cache, minimize>>

(* The answer sets one after the other: all of them with blocking clauses, *)
(* but with flipped choices, the default, the enumeration may end when     *)
(* some are left (module WaspSolver, mode "bt").  It may also report one   *)
(* again, which leaves the set of the listener as it is.                   *)
MayEnd == models = {} \/ (algorithm.strategy = "bt" /\ trueVars # NoSet)

EnumerationOfAll ==
    /\ pc = "enumeration"
    /\ \/ \E M \in models : Model(M, zero) /\ models' = models \ {M} /\ UNCHANGED <<candidates, assumptions, pc>>
       \/ MayEnd /\ Continue(candidates, {}, "done") /\ UNCHANGED <<models, zero, trueVars>>
    /\ UNCHANGED <<Others, core>>

(* usePreferences, and the call if there is nothing to minimize.           *)
UsePreferences ==
    /\ pc = "usePreferences"
    /\ \/ \E M \in models : Preferred(M, Negated(candidates)) /\ Model(M, zero) /\ Continue(candidates, {}, "done")
       \/ models = {} /\ Continue(candidates, {}, "done") /\ UNCHANGED <<zero, trueVars>>
    /\ UNCHANGED <<Others, models, core>>

(* guessAndCheck: the candidates of a model are excluded; it is minimal if *)
(* no model has fewer of them.                                             *)
GuessAndCheck ==
    /\ pc \in {"guessAndCheck", "check"}
    /\ \/ \E M \in models, z \in Known :
            /\ Model(M, z)
            /\ \/ /\ pc = "guessAndCheck"
                  /\ models' = {N \in models : N \cap Candidates # M \cap Candidates}
                  /\ \/ models' = {} /\ Continue(candidates, {}, "done")
                     \/ Continue(candidates, {-v : v \in Candidates \ M}, "check")
               \/ pc = "check" /\ Continue(candidates, {}, "guessAndCheck") /\ UNCHANGED models
       \/ /\ Incoherent(zero)
          /\ Continue(candidates, {}, "done") /\ UNCHANGED <<models, zero, trueVars>>
    /\ UNCHANGED <<Others, core>>

(* guessAndCheckAndMinimize: after a model only fewer candidates may hold. *)
(* A clause that is refused ends it without candidates.  Called from       *)
(* coreBased it returns to a solver without models, whose calls leave the  *)
(* core as it was: if candidates are left and the core has two literals,   *)
(* coreBased never ends.                                                   *)
GuessAndCheckAndMinimize ==
    /\ pc = "guessAndCheckAndMinimize"
    /\ \/ \E M \in models, z \in Known :
            /\ Model(M, z)
            /\ models' = {N \in OnlyOf(models, M) : ~(ToSet(True(M)) \subseteq N)}
            /\ \/ True(M) = <<>> /\ Continue(<<>>, {}, "done")
               \/ True(M) # <<>> /\ models' = {} /\ Continue(<<>>, {}, "done")
               \/ True(M) # <<>> /\ Continue(True(M), {}, pc)
       \/ /\ models = {} /\ UNCHANGED <<models, zero, trueVars>>
          /\ Continue(candidates, {},
                      IF algorithm.name = "coreBased" /\ candidates # <<>> /\ Cardinality(core) > 1
                      THEN "hanging" ELSE "done")
    /\ UNCHANGED <<Others, core>>

Split(c) == IF c = <<>> THEN Continue(c, {}, "done") ELSE Continue(Front(c), {-Last(c)}, pc)

GuessAndCheckAndSplit ==
    /\ pc = "guessAndCheckAndSplit"
    /\ \/ \E M \in models, z \in Known : Model(M, z) /\ models' = OnlyOf(models, M) /\ Split(True(M))
       \/ /\ Incoherent(zero) /\ UNCHANGED <<zero, trueVars>>
          /\ models' = {M \in models : HoldsAll(M, Opposite(assumptions))}
          /\ IF assumptions = {} THEN Continue(candidates, {}, "done") ELSE Split(candidates)
    /\ UNCHANGED <<Others, core>>

(* coreBased: the first candidates are assumed false, without the cores    *)
(* found; if no assumption is left, as guessAndCheckAndMinimize does it.   *)
CoreBased ==
    /\ pc = "coreBased"
    /\ \E z \in Known :
         \/ \E M \in models :
              LET c == True(M)
              IN  /\ Model(M, z)
                  /\ models' = OnlyOf(models, M)
                  /\ Continue(c, FirstFalse(c), IF c = <<>> THEN "done" ELSE pc)
                  /\ UNCHANGED core
         \/ \E C \in Cores(assumptions, z) :
              /\ zero' = Settled(C, z) /\ core' = C
              /\ UNCHANGED <<models, trueVars>>
              /\ Continue(IF Cardinality(C) = 1 THEN Minus(candidates, Min(Opposite(C))) ELSE candidates,
                          assumptions \ C,
                          CASE C = {} -> "done"
                            [] C # {} /\ C = assumptions -> "guessAndCheckAndMinimize"
                            [] OTHER -> pc)
    /\ UNCHANGED Others
=============================================================================
