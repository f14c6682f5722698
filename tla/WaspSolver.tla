----------------------------- MODULE WaspSolver -----------------------------
(***************************************************************************)
(* The conflict-driven search of WASP: Solver::solvePropagators with unit  *)
(* propagation over two watched literals, first-UIP learning, backjumping, *)
(* restarts and clause deletion, and the three callers that drive it: the  *)
(* enumeration by blocking clauses, the enumeration by flipped choices and *)
(* the computation of an unsatisfiable core of the assumptions.  The post- *)
(* propagators (unfounded sets, aggregates, model checks) are the clauses  *)
(* in loops: known to them only, and handed out when unit or false.        *)
(***************************************************************************)
EXTENDS Integers, FiniteSets, Sequences

CONSTANT Var             \* the variables, positive integers
ASSUME VarAssumption == Var \subseteq Nat \ {0} /\ IsFiniteSet(Var)


(* A literal is v or -v as Literal::getId gives it; a clause is the set of *)
(* its literals, or a watched clause that singles out the two literals at  *)
(* positions 0 and 1.                                                      *)
Literal == Var \cup {-v : v \in Var}
Variable(l) == IF l > 0 THEN l ELSE -l
Variables(C) == {Variable(l) : l \in C}
Opposite(C) == {-l : l \in C}
Lits(s) == {s[i] : i \in DOMAIN s}

(* An interpretation is the set of the variables it makes true.            *)
Holds(M, l) == IF l > 0 THEN l \in M ELSE -l \notin M
Sat(M, C) == \E l \in C : Holds(M, l)
ModelsOf(S) == {M \in SUBSET Var : \A C \in S : Sat(M, C)}

Watch(W, C) == [watch |-> W, rest |-> C \ W]
Literals(c) == c.watch \cup c.rest
-----------------------------------------------------------------------------
CONSTANTS Instances,     \* records: the input clauses, the clauses of the post-
                         \* propagators, the assumptions and the callers ("bc",
                         \* "bt", "core")
          MaxRestarts,   \* bound on the restarts of one run
          MaxDeletions,  \* bound on the deletions of learned clauses
          MaxModels      \* wasp::Options::maxModels
(* Solver::cleanAndAddClause drops tautologies and repeated literals, and  *)
(* unit clauses are assigned before the search: the input has none.        *)
ASSUME InstancesAssumption ==
    \A I \in Instances :
      /\ I.modes \subseteq {"bc", "bt", "core"}
      /\ I.assumptions \in Seq(Literal)
      /\ \A C \in I.input \cup I.loops : C \subseteq Literal
      /\ \A C \in I.input : Cardinality(C) > 1 /\ C \cap Opposite(C) = {}
ASSUME BoundsAssumption == MaxRestarts \in Nat /\ MaxDeletions \in Nat /\ MaxModels \in Nat \ {0}

VARIABLES
    instance, mode,      \* what is solved, and for whom
    pc,                  \* the point of the code that comes next
    trail,               \* assignedVariables, as the literals made true
    level, reason,       \* per variable; kept when the variable is unassigned
    phase,               \* per variable: the sign its last value had
    unrollVector,        \* length of the trail when each level was opened
    nextVariable,        \* nextVariableToPropagate: how much is propagated
    visit,               \* what is left of the loops over one literal
    conflict,            \* conflictLiteral and conflictClause
    binary, clauses, learned,   \* the clause database
    analysis,            \* learnedClause and the visited variables
    assumptions, checked, found, core,  \* of the callers
    restarts, deletions  \* how often so far

search == <<trail, level, reason, phase, unrollVector, nextVariable>>
database == <<binary, clauses, learned>>
caller == <<assumptions, checked, found, core>>
counters == <<restarts, deletions>>
vars == <<instance, mode, pc, search, visit, conflict, database, analysis, caller, counters>>

(* One literal stands for no conflict: no variable is 0.                   *)
NoConflict == [lit |-> 0, clause |-> {}]
NoVisit == [lit |-> 0, binary |-> {}, watched |-> {}]
NoAnalysis == [lits |-> {}, pending |-> {}]

currentDecisionLevel == Len(unrollVector)
IsTrue(l) == l \in Lits(trail)
IsFalse(l) == -l \in Lits(trail)
IsUndefined(l) == ~IsTrue(l) /\ ~IsFalse(l)
Level(l) == level[Variable(l)]

(* The trail after unroll(k).                                              *)
UnrolledTo(k) ==
    IF k < currentDecisionLevel THEN SubSeq(trail, 1, unrollVector[k + 1]) ELSE trail

(* Solver::assignLiteral on the trail t at decision level k: a variable    *)
(* that has a value already is a conflict.                                 *)
AssignLiteral(t, k, l, C) ==
    IF l \notin Lits(t) /\ -l \notin Lits(t)
    THEN /\ trail' = Append(t, l)
         /\ level' = [level EXCEPT ![Variable(l)] = k]
         /\ reason' = [reason EXCEPT ![Variable(l)] = C]
         /\ phase' = [phase EXCEPT ![Variable(l)] = IF l > 0 THEN 1 ELSE -1]
         /\ conflict' = NoConflict
    ELSE /\ trail' = t
         /\ conflict' = [lit |-> l, clause |-> C]
         /\ UNCHANGED <<level, reason, phase>>

(* Mutant: the assigned literal counts as propagated.                      *)
UnrollAndAssignAsPropagated(k, l, C) ==
    /\ unrollVector' = SubSeq(unrollVector, 1, k)
    /\ nextVariable' = Len(UnrolledTo(k)) + 1
    /\ AssignLiteral(UnrolledTo(k), k, l, C)

(* Solver::unroll(k) followed by an assignment: what is left is propagated *)
(* already.                                                                *)
UnrollAndAssign(k, l, C) ==
    /\ unrollVector' = SubSeq(unrollVector, 1, k)
    /\ nextVariable' = Len(UnrolledTo(k))
    /\ AssignLiteral(UnrolledTo(k), k, l, C)

-----------------------------------------------------------------------------
(* attachWatches: binary clauses go to their own lists, the others are     *)
(* watched at their first two literals.                                    *)
FirstTwo(C) == {l \in C : Cardinality({x \in C : Variable(x) < Variable(l)}) < 2}

Init ==
    /\ instance \in Instances
    /\ mode \in instance.modes
    /\ pc = "start"
    /\ trail = <<>> /\ unrollVector = <<>> /\ nextVariable = 0
    /\ level = [v \in Var |-> 0]
    /\ reason = [v \in Var |-> {}]
    /\ phase = [v \in Var |-> -1]
    /\ visit = NoVisit /\ conflict = NoConflict /\ analysis = NoAnalysis
    /\ binary = {C \in instance.input : Cardinality(C) = 2}
    /\ clauses = {Watch(FirstTwo(C), C) : C \in instance.input \ binary}
    /\ learned = {}
    /\ assumptions = IF mode = "core" THEN instance.assumptions ELSE <<>>
    /\ checked = [i \in 0..Cardinality(Var) |-> FALSE]
    /\ found = <<>> /\ core = <<>>
    /\ restarts = 0 /\ deletions = 0

(* Solver::solve_: a literal assumed both ways is a core by itself.        *)
Start ==
    /\ pc = "start"
    /\ \/ \E i, j \in DOMAIN assumptions :
            /\ i < j /\ assumptions[i] = -assumptions[j]
            /\ \A k \in 1..(j - 1), n \in 1..(j - 1) : assumptions[k] # -assumptions[n]
            /\ core' = <<assumptions[j], assumptions[i]>>
            /\ pc' = "end"
       \/ /\ Lits(assumptions) \cap Opposite(Lits(assumptions)) = {}
          /\ pc' = "propagate"
          /\ UNCHANGED core
    /\ UNCHANGED <<instance, mode, search, visit, conflict, database, analysis, assumptions,
                   checked, found, counters>>

-----------------------------------------------------------------------------
(* Propagation of one literal: first the binary clauses it falsifies a     *)
(* literal of, then the clauses that watch it.                             *)
Propagating == pc \in {"propagate", "unit"} /\ conflict = NoConflict
HasNextVariableToPropagate == nextVariable < Len(trail)

BeginPropagation ==
    /\ Propagating /\ visit = NoVisit /\ HasNextVariableToPropagate
    /\ LET complement == -trail[nextVariable + 1]
       IN  visit' = [lit |-> complement,
                     binary |-> UNION {C \ {complement} : C \in {B \in binary : complement \in B}},
                     watched |-> {c \in clauses \cup learned : complement \in c.watch}]
    /\ nextVariable' = nextVariable + 1
    /\ UNCHANGED <<instance, mode, pc, trail, level, reason, phase, unrollVector, conflict,
                   database, analysis, caller, counters>>

ShortPropagation ==
    /\ Propagating
    /\ \E l \in visit.binary :
         /\ ~IsTrue(l)
         /\ AssignLiteral(trail, currentDecisionLevel, l, {l, visit.lit})
         /\ visit' = [visit EXCEPT !.binary = @ \ {l}]
    /\ UNCHANGED <<instance, mode, pc, unrollVector, nextVariable, database, analysis, caller,
                   counters>>

(* Other clauses than the unit ones: the watch moves to a literal that is  *)
(* not false.                                                              *)
Rewatched(c, l) == [watch |-> (c.watch \ {visit.lit}) \cup {l},
                    rest |-> (c.rest \ {l}) \cup {visit.lit}]
Replace(S, c, d) == IF c \in S THEN (S \ {c}) \cup {d} ELSE S

Satisfied(c) == \E l \in c.watch : IsTrue(l)
Unvisited == {c \in visit.watched : ~Satisfied(c)}
UnitPropagation ==
    /\ Propagating
    /\ \A l \in visit.binary : IsTrue(l)
    /\ \E c \in Unvisited :
         /\ visit' = [visit EXCEPT !.watched = @ \ {c}]
         /\ LET other == CHOOSE l \in c.watch : l # visit.lit
            IN  \/ /\ \A l \in c.rest : IsFalse(l)
                   /\ AssignLiteral(trail, currentDecisionLevel, other, Literals(c))
                   /\ UNCHANGED <<clauses, learned>>
                \/ \E l \in c.rest :
                     /\ ~IsFalse(l)
                     /\ clauses' = Replace(clauses, c, Rewatched(c, l))
                     /\ learned' = Replace(learned, c, Rewatched(c, l))
                     /\ UNCHANGED <<trail, level, reason, phase, conflict>>
    /\ UNCHANGED <<instance, mode, pc, unrollVector, nextVariable, binary, analysis, caller,
                   counters>>

EndPropagation ==
    /\ Propagating /\ visit.lit # 0
    /\ \A l \in visit.binary : IsTrue(l)
    /\ Unvisited = {}
    /\ visit' = NoVisit
    /\ UNCHANGED <<instance, mode, pc, search, conflict, database, analysis, caller, counters>>

-----------------------------------------------------------------------------
(* A conflict at level 0, or on a literal without a clause, ends the call. *)
ConflictAtLevelZero ==
    /\ pc \in {"propagate", "unit"} /\ conflict # NoConflict
    /\ currentDecisionLevel = 0 \/ conflict.clause = {}
    /\ pc' = "incoherent" /\ visit' = NoVisit /\ conflict' = NoConflict
    /\ UNCHANGED <<instance, mode, search, database, analysis, caller, counters>>

(* Learning::onNavigatingLiteral: literals of the current level are to be  *)
(* resolved away, those of lower levels go to the learned clause.  A       *)
(* navigated clause loses its literals of level 0 (Clause::onLearning).    *)
Pending(C) == {v \in Variables(C) : level[v] = currentDecisionLevel}
Lower(C) == {l \in C : Level(l) \in 1..(currentDecisionLevel - 1)}
AboveZero(C) == {l \in C : Level(l) # 0}
ShortenedIn(S, N) == {IF Literals(c) \in N THEN [c EXCEPT !.rest = AboveZero(@)] ELSE c : c \in S}
ShortenNavigated(N) ==
    /\ reason' = [v \in Var |-> IF reason[v] \in N THEN AboveZero(reason[v]) ELSE reason[v]]
    /\ clauses' = ShortenedIn(clauses, N)
    /\ learned' = ShortenedIn(learned, N)
    /\ UNCHANGED binary

BeginAnalysis ==
    /\ pc = "propagate" /\ conflict # NoConflict
    /\ currentDecisionLevel > 0 /\ conflict.clause # {}
    /\ LET v == Variable(conflict.lit)
           C == (conflict.clause \cup reason[v]) \ {v, -v}
       IN  /\ analysis' = [lits |-> Lower(C), pending |-> Pending(C) \cup {v}]
           /\ ShortenNavigated({conflict.clause, reason[v]})
    /\ pc' = "analyze" /\ visit' = NoVisit /\ conflict' = NoConflict
    /\ UNCHANGED <<instance, mode, trail, level, phase, unrollVector, nextVariable, caller,
                   counters>>

(* getNextLiteralToNavigate: back along the trail to the next visited      *)
(* variable, which is unassigned on the way.                               *)
LastPending ==
    CHOOSE i \in DOMAIN trail :
      /\ Variable(trail[i]) \in analysis.pending
      /\ \A j \in DOMAIN trail : j > i => Variable(trail[j]) \notin analysis.pending

Resolve ==
    /\ pc = "analyze" /\ Cardinality(analysis.pending) > 1
    /\ LET v == Variable(trail[LastPending])
           C == reason[v] \ {v, -v}
       IN  /\ analysis' = [lits |-> analysis.lits \cup Lower(C),
                           pending |-> (analysis.pending \ {v}) \cup Pending(C)]
           /\ ShortenNavigated({reason[v]})
    /\ trail' = SubSeq(trail, 1, LastPending - 1)
    /\ UNCHANGED <<instance, mode, pc, level, phase, unrollVector, nextVariable, visit, conflict,
                   caller, counters>>

(* Learning::allMarked: a literal is redundant if its reason leads back to *)
(* literals of the clause.                                                 *)
Redundant(l) ==
    \E S \in SUBSET {v \in Variables(Lits(trail)) : level[v] > 0 /\ reason[v] # {}} :
      /\ Variable(l) \in S
      /\ \A v \in S : Variables(reason[v]) \ {v} \subseteq S \cup Variables(analysis.lits)
SimplifyLearnedClause ==
    IF Cardinality(analysis.lits) > 1 THEN {l \in analysis.lits : ~Redundant(l)} ELSE analysis.lits

(* Mutant: resolved with the binary clauses of the opposite literal.       *)
MinimisationWithOpposite(uip, C) ==
    IF assumptions = <<>> THEN {l \in C : {-uip, -l} \notin binary} ELSE C

(* Solver::minimisationWithBinaryResolution                                *)
MinimisationWithBinaryResolution(uip, C) ==
    IF assumptions = <<>> THEN {l \in C : {uip, -l} \notin binary} ELSE C

(* Solver::analyzeConflict from the first UIP on: the clause is added, the *)
(* search jumps back and the UIP is assigned; a unit clause is propagated  *)
(* at level 0 first.                                                       *)
LearnClause ==
    /\ pc = "analyze" /\ Cardinality(analysis.pending) = 1
    /\ LET uip == -trail[LastPending]
           others == MinimisationWithBinaryResolution(uip, SimplifyLearnedClause)
           C == {uip} \cup others
       IN  \/ /\ others = {}
              /\ UnrollAndAssign(0, uip, {})
              /\ pc' = "unit"
              /\ UNCHANGED database
           \/ \E second \in others :
                /\ \A l \in others : Level(l) <= Level(second)
                /\ IF Cardinality(C) = 2
                   THEN binary' = binary \cup {C} /\ UNCHANGED learned
                   ELSE learned' = learned \cup {Watch({uip, second}, C)} /\ UNCHANGED binary
                /\ UnrollAndAssign(Level(second), uip, C)
                /\ pc' = "propagate"
                /\ UNCHANGED clauses
    /\ analysis' = NoAnalysis
    /\ UNCHANGED <<instance, mode, visit, caller, counters>>

-----------------------------------------------------------------------------
(* The queue is empty: the post-propagators hand out a clause that is unit *)
(* or false, without its literals that are false at level 0, the two       *)
(* literals assigned last in front (Learning::sortClause).                 *)
Idle == pc = "propagate" /\ conflict = NoConflict /\ visit = NoVisit /\ ~HasNextVariableToPropagate
Open(C) == {l \in C : IsUndefined(l)}
UnitOrFalse(C) == ~(\E l \in C : IsTrue(l)) /\ Cardinality(Open(C)) <= 1
Rank(l) == IF IsUndefined(l) THEN currentDecisionLevel + 1 ELSE Level(l)
Front(C, first, second) ==
    /\ first # second
    /\ \A l \in C \ {first} : Rank(l) <= Rank(second)
    /\ Rank(second) <= Rank(first)

PostPropagation ==
    /\ Idle
    /\ \E L \in instance.loops :
         /\ UnitOrFalse(L)
         /\ LET C == {l \in L : IsUndefined(l) \/ Level(l) > 0}
            IN  \/ /\ C = {}
                   /\ pc' = "incoherent"
                   /\ UNCHANGED <<search, conflict, learned>>
                \/ /\ Cardinality(C) = 1
                   /\ \E l \in C : UnrollAndAssign(0, l, {})
                   /\ UNCHANGED <<pc, learned>>
                \/ \E first \in C, second \in C :
                     /\ Front(C, first, second)
                     /\ learned' = learned \cup {Watch({first, second}, C)}
                     /\ UnrollAndAssign(Level(second), first, C)
                     /\ UNCHANGED pc
    /\ UNCHANGED <<instance, mode, visit, binary, clauses, analysis, caller, counters>>

(* Solver::simplifyOnRestart at level 0 and the literals T true there, when *)
(* enough has been propagated: satisfied clauses go, and without           *)
(* assumptions false literals too.  Under assumptions only the watched     *)
(* literals are looked at.                                                 *)
Simplified(S, T) ==
    IF assumptions # <<>> THEN {c \in S : c.watch \cap T = {}}
    ELSE {[c EXCEPT !.rest = {l \in @ : -l \notin T}] : c \in {d \in S : Literals(d) \cap T = {}}}
SimplifyOnRestart(k, T) ==
    \/ UNCHANGED <<clauses, learned>>
    \/ k = 0 /\ clauses' = Simplified(clauses, T) /\ learned' = Simplified(learned, T)

(* addClauseRuntime is done with the unit clause.                          *)
EndUnit ==
    /\ pc = "unit" /\ conflict = NoConflict /\ visit = NoVisit /\ ~HasNextVariableToPropagate
    /\ SimplifyOnRestart(0, Lits(trail))
    /\ pc' = "propagate"
    /\ UNCHANGED <<instance, mode, search, visit, conflict, binary, analysis, caller, counters>>

(* The end of one turn of the loop, with restartIfNecessary: the heuristic *)
(* may ask for a restart at any level but 0.                               *)
EndTurn ==
    /\ Idle
    /\ ~\E L \in instance.loops : UnitOrFalse(L)
    /\ pc' = "loop"
    /\ UNCHANGED <<instance, mode, search, visit, conflict, database, analysis, caller, counters>>

Unroll(k) ==
    /\ trail' = UnrolledTo(k)
    /\ unrollVector' = SubSeq(unrollVector, 1, k)
    /\ nextVariable' = Len(trail')
    /\ UNCHANGED <<level, reason, phase>>

Restart ==
    /\ Idle
    /\ ~\E L \in instance.loops : UnitOrFalse(L)
    /\ currentDecisionLevel > 0 /\ restarts < MaxRestarts
    /\ LET k == IF currentDecisionLevel > Len(assumptions) THEN Len(assumptions) ELSE 0
       IN  Unroll(k) /\ SimplifyOnRestart(k, Lits(UnrolledTo(k)))
    /\ restarts' = restarts + 1
    /\ pc' = "loop"
    /\ UNCHANGED <<instance, mode, visit, conflict, binary, analysis, caller, deletions>>

-----------------------------------------------------------------------------
(* The top of the loop: an undefined variable is left.  Learned clauses    *)
(* that are no reason may be deleted, and Solver::chooseLiteral decides.   *)
HasUndefinedLiterals == Len(trail) < Cardinality(Var)
Locked(c) == \E l \in c.watch : IsTrue(l) /\ reason[Variable(l)] = Literals(c)
DeleteClausesIfNecessary ==
    \/ UNCHANGED <<learned, deletions>>
    \/ /\ deletions < MaxDeletions
       /\ \E D \in SUBSET {c \in learned : ~Locked(c)} : D # {} /\ learned' = learned \ D
       /\ deletions' = deletions + 1

(* The assumptions of the levels not opened yet, in order: true ones before *)
(* the first undefined one get a level of their own, which stays empty.    *)
Ahead == (currentDecisionLevel + 1)..Len(assumptions)
FalseAhead == {i \in Ahead : IsFalse(assumptions[i])}
UndefinedAhead == {i \in Ahead : IsUndefined(assumptions[i])}
FirstOf(S) == CHOOSE i \in S : \A j \in S : i <= j
EmptyLevels ==
    LET last == IF UndefinedAhead # {} THEN FirstOf(UndefinedAhead) - 1 ELSE Len(assumptions)
    IN  IF Ahead = {} THEN 0 ELSE last - currentDecisionLevel

(* The n-th position of P.                                                 *)
Nth(P, n) == CHOOSE i \in P : Cardinality({j \in P : j < i}) = n - 1

(* Mutant: only the reason of the variable itself is looked at.            *)
DirectAncestors(v) == {v} \cup Variables(reason[v])

(* Learning::analyzeFinal: the assumptions decided that lead to -l.        *)
Ancestors(v) ==
    {w \in Var : \A S \in SUBSET Var :
        (v \in S /\ \A u \in S : \A x \in Variables(reason[u]) : level[x] > 0 => x \in S) => w \in S}
DecidedAbove(A) ==
    {i \in DOMAIN trail : level[Variable(trail[i])] > 0 /\ Variable(trail[i]) \in A
                            /\ reason[Variable(trail[i])] = {}}
AnalyzeFinal(l) ==
    IF currentDecisionLevel = 0 \/ Level(l) = 0 THEN <<l>>
    ELSE LET D == DecidedAbove(Ancestors(Variable(l)))
         IN  <<l>> \o [n \in 1..Cardinality(D) |-> trail[Nth(D, Cardinality(D) + 1 - n)]]

Decide(l) ==
    /\ unrollVector' = unrollVector \o [i \in 1..(EmptyLevels + 1) |-> Len(trail)]
    /\ AssignLiteral(trail, currentDecisionLevel + EmptyLevels + 1, l, {})

ChooseLiteral ==
    /\ pc = "loop" /\ HasUndefinedLiterals /\ FalseAhead = {}
    /\ DeleteClausesIfNecessary
    /\ IF UndefinedAhead # {} THEN Decide(assumptions[FirstOf(UndefinedAhead)])
       ELSE \E v \in {w \in Var : IsUndefined(w)} : Decide(v * phase[v])
    /\ pc' = "propagate"
    /\ UNCHANGED <<instance, mode, nextVariable, visit, binary, clauses, analysis, caller, restarts>>

(* A false assumption, met by chooseLiteral before a choice or by          *)
(* modelIsValidUnderAssumptions in a complete model, ends the call.        *)
AssumptionFalse ==
    /\ pc = "loop"
    /\ LET F == IF HasUndefinedLiterals THEN FalseAhead
                ELSE {i \in DOMAIN assumptions : IsFalse(assumptions[i])}
           opened == FirstOf(UndefinedAhead \cup F) - 1
       IN  /\ F # {}
           /\ core' = IF mode \in {"core", "minimize"} THEN AnalyzeFinal(assumptions[FirstOf(F)]) ELSE <<>>
           /\ unrollVector' = IF HasUndefinedLiterals
                              THEN unrollVector \o [i \in 1..(opened - currentDecisionLevel) |-> Len(trail)]
                              ELSE unrollVector
    /\ pc' = "incoherent"
    /\ UNCHANGED <<instance, mode, trail, level, reason, phase, nextVariable, visit, conflict,
                   database, analysis, assumptions, checked, found, counters>>

AnswerSet ==
    /\ pc = "loop" /\ ~HasUndefinedLiterals
    /\ \A i \in DOMAIN assumptions : ~IsFalse(assumptions[i])
    /\ found' = Append(found, {l \in Lits(trail) : l > 0})
    /\ pc' = IF mode \in {"core", "minimize"} \/ Len(found') >= MaxModels THEN "end" ELSE "coherent"
    /\ UNCHANGED <<instance, mode, search, visit, conflict, database, analysis, assumptions,
                   checked, core, counters>>

-----------------------------------------------------------------------------
(* Mutant: the decision of level 1 is left out of the clause.              *)
DecisionsAboveOne == {trail[i] : i \in {j \in DOMAIN trail : reason[Variable(trail[j])] = {}
                                                    /\ level[Variable(trail[j])] > 1}}

(* Enumeration::enumerationBlockingClause: the negated decisions of the    *)
(* model become a clause (Solver::addClauseFromModelAndRestart).           *)
Decisions == {trail[i] : i \in {j \in DOMAIN trail : reason[Variable(trail[j])] = {}
                                                    /\ level[Variable(trail[j])] # 0}}
BlockModel ==
    /\ pc = "coherent" /\ mode = "bc"
    /\ LET C == Opposite(Decisions)
           T == Lits(UnrolledTo(0))
       IN  \/ /\ C = {}
              /\ pc' = "end"
              /\ UNCHANGED <<search, conflict, database>>
           \/ /\ Cardinality(C) = 1
              /\ \E l \in C : UnrollAndAssign(0, l, {})
              /\ SimplifyOnRestart(0, T)
              /\ pc' = "propagate"
              /\ UNCHANGED binary
           \/ /\ Unroll(0)
              /\ Cardinality(C) > 1
              /\ \/ clauses' = clauses \cup {Watch(FirstTwo(C), C)} /\ UNCHANGED learned
                 \/ /\ clauses' = Simplified(clauses, T) \cup {Watch(FirstTwo(C), C)}
                    /\ learned' = Simplified(learned, T)
              /\ pc' = "loop"
              /\ UNCHANGED <<conflict, binary>>
    /\ UNCHANGED <<instance, mode, visit, analysis, caller, counters>>

(* Enumeration::flipLatestChoice: the last choice not flipped yet; the     *)
(* flags of the positions behind it start anew.                            *)
FlipLatestChoice(choices) ==
    LET i == CHOOSE i \in DOMAIN choices : ~checked[i] /\ \A j \in (i + 1)..Len(choices) : checked[j]
        k == level[Variable(choices[i])] - 1
    IN  IF \A j \in DOMAIN choices : checked[j]
        THEN /\ pc' = "end" /\ assumptions' = <<>>
             /\ UNCHANGED <<search, checked>>
        ELSE /\ assumptions' = Append(SubSeq(choices, 1, i - 1), -choices[i])
             /\ checked' = [j \in DOMAIN checked |-> j = i \/ (j < i /\ checked[j])]
             /\ IF k \in 0..(currentDecisionLevel - 1) THEN Unroll(k) ELSE UNCHANGED search
             /\ pc' = "loop"

(* Enumeration::enumerationBacktracking after a model and after a failure. *)
ChoicesWithoutAssumptions ==
    assumptions \o [i \in 1..(currentDecisionLevel - Len(assumptions)) |->
                      trail[unrollVector[Len(assumptions) + i] + 1]]
BacktrackFromModel ==
    /\ pc = "coherent" /\ mode = "bt"
    /\ FlipLatestChoice(ChoicesWithoutAssumptions)
    /\ UNCHANGED <<instance, mode, visit, conflict, database, analysis, found, core, counters>>

AboveLevelZero(choices) ==
    LET P == {i \in DOMAIN choices : Level(choices[i]) # 0}
    IN  [n \in 1..Cardinality(P) |-> choices[Nth(P, n)]]
UpTo(k, choices) ==
    LET n == CHOOSE n \in 0..Len(choices) :
               /\ n = 0 \/ Level(choices[n]) <= k
               /\ \A i \in (n + 1)..Len(choices) : Level(choices[i]) > k
    IN  SubSeq(choices, 1, n)
BacktrackFromFailure ==
    /\ pc = "incoherent" /\ mode = "bt"
    /\ IF found = <<>> THEN pc' = "end" /\ UNCHANGED <<search, assumptions, checked>>
       ELSE FlipLatestChoice(IF currentDecisionLevel = 0 THEN AboveLevelZero(assumptions)
                             ELSE UpTo(currentDecisionLevel, assumptions))
    /\ UNCHANGED <<instance, mode, visit, conflict, database, analysis, found, core, counters>>

EndBlocking ==
    /\ pc = "incoherent" /\ mode = "bc"
    /\ pc' = "end"
    /\ UNCHANGED <<instance, mode, search, visit, conflict, database, analysis, caller, counters>>

(* Mutant: a core that did not become smaller is tried again.              *)
MinimizeForEver ==
    /\ pc = "incoherent" /\ mode \in {"core", "minimize"}
    /\ IF Len(core) <= 2
       THEN /\ pc' = "end"
            /\ UNCHANGED <<mode, search, assumptions, core>>
       ELSE /\ mode' = "minimize"
            /\ assumptions' = core /\ core' = <<>>
            /\ Unroll(0)
            /\ pc' = "loop"
    /\ UNCHANGED <<instance, visit, conflict, database, analysis, checked, found, counters>>

(* Solver::minimizeUnsatCore: the call is repeated with the core as its    *)
(* assumptions while the core has more than two and became smaller.        *)
MinimizeUnsatCore ==
    /\ pc = "incoherent" /\ mode \in {"core", "minimize"}
    /\ IF Len(core) <= 2 \/ (mode = "minimize" /\ Len(core) = Len(assumptions))
       THEN /\ pc' = "end"
            /\ UNCHANGED <<mode, search, assumptions, core>>
       ELSE /\ mode' = "minimize"
            /\ assumptions' = core /\ core' = <<>>
            /\ Unroll(0)
            /\ pc' = "loop"
    /\ UNCHANGED <<instance, visit, conflict, database, analysis, checked, found, counters>>

-----------------------------------------------------------------------------
Next ==
    \/ Start \/ BeginPropagation \/ ShortPropagation \/ UnitPropagation \/ EndPropagation
    \/ ConflictAtLevelZero \/ BeginAnalysis \/ Resolve \/ LearnClause
    \/ PostPropagation \/ EndUnit \/ EndTurn \/ Restart
    \/ ChooseLiteral \/ AssumptionFalse \/ AnswerSet
    \/ BlockModel \/ EndBlocking \/ BacktrackFromModel \/ BacktrackFromFailure \/ MinimizeUnsatCore

Spec == Init /\ [][Next]_vars /\ WF_vars(Next)

-----------------------------------------------------------------------------
(* A clause holds in every model that is still to be found.                *)
Models == ModelsOf(instance.input \cup instance.loops)
ToFind == IF mode = "bc" THEN Models \ Lits(found) ELSE Models
Database == binary \cup {Literals(c) : c \in clauses \cup learned}

(* No clause that is learned, shortened or put in loses a model that is    *)
(* still to be found, nor does what is assigned at level 0: learning,      *)
(* its two minimisations, blocking and simplification are all sound.       *)
DatabaseImplied ==
    \A M \in ToFind :
      /\ \A C \in Database : Sat(M, C)
      /\ \A l \in Lits(trail) : Level(l) = 0 => Holds(M, l)

(* When propagation has come to its end no clause of the database is       *)
(* false or unit, although a clause is only looked at when one of its two  *)
(* watched literals becomes false, and backjumps and restarts move none.   *)
PropagationComplete == pc = "loop" => \A C \in Database : ~UnitOrFalse(C)

(* Whatever is reported is a model.  The core of a failed call is a part   *)
(* of the assumptions that no model satisfies; a call that succeeds found  *)
(* a model of all of them.                                                 *)
CoreOrModel ==
    /\ \A M \in Lits(found) : M \in Models
    /\ (pc = "end" /\ mode \in {"core", "minimize"}) =>
         /\ Lits(core) \subseteq Lits(instance.assumptions)
         /\ found = <<>> => \A M \in Models : \E l \in Lits(core) : ~Holds(M, l)
         /\ \A M \in Lits(found) : \A l \in Lits(instance.assumptions) : Holds(M, l)

(* The enumeration by blocking clauses reports every model once, and ends  *)
(* early only at the number that was asked for.                            *)
ModelsListed == INSTANCE Enumerator WITH
                  models <- IF mode = "bc" THEN Models ELSE {},
                  found <- IF mode = "bc" THEN found ELSE <<>>,
                  done <- mode = "bc" /\ pc = "end"
ImplementsEnumerator == ModelsListed!Spec

(* "-n 0: to compute all answers": the enumeration by flipped choices does *)
(* not end before every model is reported, unless enough of them are.      *)
AllAnswers ==
    (mode = "bt" /\ pc = "end" /\ Len(found) < MaxModels) => Models \subseteq Lits(found)

(* The search ends, for each of the callers.                               *)
Termination == <>(pc = "end")
=============================================================================
