------------------------------ MODULE WaspInput ------------------------------
(***************************************************************************)
(* GringoNumericFormat: WASP reads a ground program line by line, removes  *)
(* from its rules what is decided, and propagates whatever becomes true or *)
(* false, or turns out to be a fact, before it reads the next line; at the *)
(* end of the input it makes the inferences that need the whole program.   *)
(* The clauses, sums and cyclic components that stand for the rules that   *)
(* are left are the first part of this module.                             *)
(***************************************************************************)
EXTENDS AnswerSets, SequencesExt, TLC

CONSTANT Atom            \* the atoms of the program
ASSUME AtomAssumption == Atom \subseteq 1..9

NoResult == [clauses |-> {}, sums |-> {}, gus |-> {}, hcs |-> {}]

HeadAtoms(r) == r.head \cup r.unsupported
BodyToConstraint(r) == {-v : v \in r.pos} \cup r.neg \cup {-v : v \in r.dneg}
BodyLiterals(r) == BodyToConstraint(r) \cup {-v : v \in r.truePos}
ClauseOf(r) == HeadAtoms(r) \cup BodyLiterals(r)

(* addVariable: a number for each purpose and rule.                        *)
Added(r, purpose, v) == 1000 * r.id[1] + 100 * purpose + 10 * r.id[2] + v

(* A crule: its first literal, the others, and which of them stand for a   *)
(* double negation and have no place in the dependency graph.              *)
Crule(first, rest, dneg) == [first |-> first, rest |-> rest, dneg |-> dneg]
Dneg(r) == {-v : v \in r.dneg}
PosBody(r) == r.pos \cup r.truePos
Edges(v, W) == {<<v, w>> : w \in W}

-----------------------------------------------------------------------------
(* computeSCCs: each atom gets one rule, or the bodies of its rules, with  *)
(* the other head atoms negated in them.                                   *)
Others(r, v) == ClauseOf(r) \ {v}
IsShort(r) == Cardinality(ClauseOf(r)) = 2
Shifted(r, v) == Added(r, 0, v)
SupportLiteral(r, v) == IF IsShort(r) THEN -(CHOOSE l \in Others(r, v) : TRUE) ELSE Shifted(r, v)

NaiveCrules(Defined, rules, occurrences) ==
    LET supports == {<<r, v>> \in rules \X Defined : v \in r.head}
        Once(v) == occurrences[v] = 1
    IN  [crules |->
           {Crule(p[2], Others(p[1], p[2]), Dneg(p[1])) : p \in {q \in supports : Once(q[2])}}
           \cup {Crule(Shifted(p[1], p[2]), Others(p[1], p[2]), Dneg(p[1])) :
                   p \in {q \in supports : ~Once(q[2]) /\ ~IsShort(q[1])}}
           \cup {Crule(-v, {SupportLiteral(p[1], v) : p \in {q \in supports : q[2] = v}}, {}) :
                   v \in {u \in Defined : ~Once(u)}},
         edges |->
           UNION {CASE Once(p[2]) \/ IsShort(p[1]) -> Edges(p[2], PosBody(p[1]))
                    [] OTHER -> Edges(p[2], {Shifted(p[1], p[2])}) \cup Edges(Shifted(p[1], p[2]), PosBody(p[1])) :
                  p \in supports}
           \cup UNION {Edges(p[2], PosBody(p[1])) : p \in {q \in rules \X Defined : q[2] \in q[1].unsupported}},
         clauses |-> {}, sums |-> {}, auxs |-> {}]

-----------------------------------------------------------------------------
(* computeSCCsDisjunctive: one literal for the falsity of each body, and   *)
(* one variable per head atom that says that it is the only one to hold.   *)
NoLiteral == 0
BodyVariable(r) == Added(r, 0, 0)
IsLong(r) == Cardinality(BodyLiterals(r)) > 1
BodyFalse(r) ==
    CASE BodyLiterals(r) = {} -> NoLiteral
      [] IsLong(r) -> -BodyVariable(r)
      [] OTHER -> CHOOSE l \in BodyLiterals(r) : TRUE
DependsOn(r) == IF IsLong(r) THEN {BodyVariable(r)} ELSE PosBody(r)
Only(r, v) == Added(r, 1, v)
HeadSeq(r) == SetToSortSeq(HeadAtoms(r), <)

Weights(l, n) == IF l = NoLiteral THEN <<>> ELSE l :> n
Sum(id, weight, bound) == [id |-> id, weight |-> weight, bound |-> bound]
Ones(L) == [l \in L |-> 1]
NotAll(L) == {-l : l \in L}
Implies(l, L) == IF l = NoLiteral THEN {} ELSE {{-l, k} : k \in L}
And(L, k) == LET M == L \ {NoLiteral} IN {NotAll(M) \cup {k}} \cup {{l, -k} : l \in M}
Or(k, L) == And(NotAll(L), -k)

(* Some head atom and its variable, or two head atoms, or a false body.    *)
Exactly(r) == Sum(NoLiteral, Weights(BodyFalse(r), 2)
                    @@ Ones(HeadAtoms(r) \cup {Only(r, v) : v \in HeadAtoms(r)}), 2)
ShiftedAtoms(r) == UNION {Implies(Only(r, v), {v}) : v \in HeadAtoms(r)}
NoShifted(r) == Implies(BodyFalse(r), {-Only(r, v) : v \in HeadAtoms(r)})
Excluding(r) == {{-v, -Only(r, w)} : <<v, w>> \in {p \in HeadAtoms(r) \X HeadAtoms(r) : p[1] # p[2]}}

(* createPropagatorForDisjunction; its propagator is in Propagators.       *)
Propagator(r) ==
    [clauses |-> ShiftedAtoms(r) \cup NoShifted(r) \cup Excluding(r), sums |-> {Exactly(r)}]
Quadratic(r) ==
    [clauses |-> ShiftedAtoms(r) \cup NoShifted(r) \cup Excluding(r), sums |-> {Exactly(r)}]
QuadraticAggregate(r) ==
    LET H == HeadAtoms(r)
        n == Cardinality(H) - 1
    IN  [clauses |-> ShiftedAtoms(r) \cup NoShifted(r),
         sums |-> {Exactly(r)}
                  \cup {Sum(NoLiteral, (-v :> n) @@ Ones({-Only(r, w) : w \in H \ {v}}), n) : v \in H}]

(* createClausesForShift: right[i] means that none of the atoms up to i,   *)
(* left[i] that none of the atoms behind i holds.                          *)
LeftRight(r) ==
    LET H == HeadSeq(r)
        n == Len(H)
        right(i) == Added(r, 2, i)
        left(i) == Added(r, 3, i)
        many == Added(r, 4, 0)
        last == 1..(n - 1)
    IN  [clauses |->
           ShiftedAtoms(r) \cup NoShifted(r) \cup {{-many, -right(1)}, {-many, -left(n - 1)}}
           \cup UNION {{{-H[i], -right(i)}, {right(i), -Only(r, H[i + 1])}} : i \in last}
           \cup UNION {{{-H[i + 1], -left(i)}, {left(i), -Only(r, H[i])}} : i \in last}
           \cup UNION {{{right(i), -right(i + 1)}, {left(i + 1), -left(i)}} : i \in 1..(n - 2)}
           \cup Implies(BodyFalse(r), {-right(i) : i \in last} \cup {-left(i) : i \in last}),
         sums |-> {Exactly(r), Sum(many, Ones(HeadAtoms(r)), 2)}]

(* normalizeHeads: the disjunction of the atoms from i on as an atom, and  *)
(* a variable for none of those before.                                    *)
Normalize(r) ==
    LET H == HeadSeq(r)
        n == Len(H)
        body == -BodyFalse(r)
        rest(i) == IF i = n THEN H[n] ELSE Added(r, 2, i)
        sRest(i) == IF i = 1 THEN body ELSE Added(r, 3, i)
        last == n - 1
    IN  [clauses |->
           ShiftedAtoms(r)
           \cup UNION {Implies(sRest(i), {rest(i)}) : i \in 2..last}
           \cup UNION {And({sRest(i), -rest(i + 1)}, Only(r, H[i])) : i \in 1..last}
           \cup UNION {And({sRest(i), -H[i]}, IF i = last THEN Only(r, H[n]) ELSE sRest(i + 1)) : i \in 1..last}
           \cup UNION {Or(rest(i), {H[i], rest(i + 1)}) : i \in 2..last},
         sums |-> {}]

ShiftedHead(shift, r) ==
    CASE shift = "propagator" -> Propagator(r)
      [] shift = "left_right" -> LeftRight(r)
      [] shift = "normalize"  -> Normalize(r)
      [] shift = "quadratic"  -> Quadratic(r)
      [] shift = "quadratic_aggregate" -> QuadraticAggregate(r)
      [] shift = "auto" -> IF Cardinality(HeadAtoms(r)) <= 4 THEN Normalize(r) ELSE Propagator(r)

DisjunctiveCrules(shift, Defined, rules) ==
    LET supporting == {r \in rules : r.head \cap Defined # {}}
        disjunctions == {r \in supporting : Cardinality(HeadAtoms(r)) > 1}
        shifted == {ShiftedHead(shift, r) : r \in disjunctions}
        Of(v) == {r \in supporting : v \in HeadAtoms(r)}
    IN  [crules |->
           {Crule(-v, {IF r \in disjunctions THEN Only(r, v) ELSE -BodyFalse(r) : r \in Of(v)}, {}) : v \in Defined}
           \cup {Crule(BodyVariable(r), BodyLiterals(r), Dneg(r)) : r \in {q \in supporting : IsLong(q)}},
         edges |->
           UNION {Edges(BodyVariable(r), PosBody(r)) : r \in {q \in supporting : IsLong(q)}}
           \cup UNION {UNION {Edges(v, DependsOn(r)) : v \in HeadAtoms(r)} : r \in supporting \ disjunctions}
           \cup UNION {UNION {Edges(Only(r, v), DependsOn(r)) \cup Edges(v, IF DependsOn(r) = {} THEN {} ELSE {Only(r, v)}) :
                                v \in HeadAtoms(r)} : r \in disjunctions}
           \cup UNION {UNION {Edges(v, PosBody(r)) : v \in r.unsupported \cap Defined} : r \in rules},
         clauses |-> {ClauseOf(r) : r \in disjunctions} \cup UNION {s.clauses : s \in shifted},
         sums |-> UNION {s.sums : s \in shifted},
         auxs |-> UNION {UNION {Edges(Only(r, v), DependsOn(r)) : v \in HeadAtoms(r)} : r \in disjunctions}]

-----------------------------------------------------------------------------
(* computeStrongConnectedComponents                                        *)
RECURSIVE Paths(_)
Paths(E) == LET F == E \cup {<<p[1], q[2]>> : <<p, q>> \in {x \in E \X E : x[1][2] = x[2][1]}}
            IN  IF F = E THEN E ELSE Paths(F)
CyclicComponents(E) ==
    LET P == Paths(E)
        Of(v) == {v} \cup {w \in {p[2] : p \in P} : <<v, w>> \in P /\ <<w, v>> \in P}
    IN  {K \in {Of(e[1]) : e \in E} : Cardinality(K) > 1}

(* Mutant: no component needs the model checker.                           *)
AlwaysHeadCycleFree(K, rules) == TRUE

(* isHeadCycleFree; rules the head atoms of which are cyclic are left to   *)
(* the model checker, which gets all rules of the component.               *)
HeadCycleFree(K, rules) == \A r \in rules : Cardinality(HeadAtoms(r) \cap K) <= 1

(* computeGusStructures: why a variable of a component holds, as a set of  *)
(* bodies: one if it is a body itself (processRecursivePositiveCrule), one *)
(* per support literal else (processRecursiveNegativeCrule).               *)
Reasons(K, crules, auxs) ==
    LET literals(c) == {-l : l \in c.rest \ c.dneg}
        inside(v) == K \ {v}
    IN  {[var |-> c.first, bodies |-> {[internal |-> literals(c) \cap inside(c.first),
                                        external |-> literals(c) \ K]}] :
           c \in {d \in crules : d.first \in K}}
        \cup {[var |-> -c.first,
               bodies |-> {[internal |-> {l} \cap inside(-c.first), external |-> {l} \ inside(-c.first)] : l \in c.rest}] :
                c \in {d \in crules : -d.first \in K}}
        \cup {[var |-> a[1], bodies |-> {[internal |-> {a[2]}, external |-> {}]}] :
                a \in {b \in auxs : {b[1], b[2]} \subseteq K}}

(* addWeightConstraints: cleanWeightConstraint, weightConstraintToAggregate *)
CleanSum(id, w, assigned) ==
    LET held == MapThenSumSet(LAMBDA l : w.weight[l], DOMAIN w.weight \cap assigned)
        bound == w.bound - held
    IN  Sum(id, [l \in {k \in DOMAIN w.weight : {k, -k} \cap assigned = {}} |->
                   IF w.weight[l] > bound THEN bound ELSE w.weight[l]], bound)

(* computeCompletion *)
Completions(c) == {{-c.first, -k} : k \in c.rest} \cup {{c.first} \cup c.rest}

Completed(shift, rules, occurrences, Defined, assigned, constraints) ==
    LET c == IF shift = "naive" THEN NaiveCrules(Defined, rules, occurrences)
             ELSE DisjunctiveCrules(shift, Defined, rules)
        components == CyclicComponents(c.edges)
        hcf == {K \in components : HeadCycleFree(K, rules)}
    IN  [clauses |-> c.clauses \cup UNION {Completions(k) : k \in c.crules},
         sums |-> c.sums \cup {CleanSum(id, constraints[id], assigned) : id \in DOMAIN constraints},
         gus |-> {Reasons(K, c.crules, c.auxs) : K \in hcf},
         hcs |-> {[atoms |-> K \cap Atom, rules |-> {r \in rules : HeadAtoms(r) \cap K # {}}] :
                    K \in components \ hcf}]
-----------------------------------------------------------------------------
CONSTANT Inputs          \* records: the lines that may occur and a bound on how many
                         \* are read, the lines that close the input, and the
                         \* rewritings of disjunctive heads
ASSUME InputAssumption == \A i \in Inputs : i.maxLines \in Nat

VARIABLES
    input, program,      \* where lines come from, and those read so far
    phase,               \* of parse(): reading, closing, simplifying, ...
    loop,                \* of propagate(): "literals", "facts", or "idle"
    assigned, propagated,  \* the literals that are true; those propagated
    rules,               \* normalRules, without those removed
    occurrences,         \* numberOfHeadOccurrences, per atom
    supported, facts,    \* the atoms known to be facts; those to be propagated
    clauses,             \* the clauses of the solver, as sets of literals
    constraints,         \* weightConstraintRules, per atom they define
    dictionary,          \* bodiesDictionary: the normal rules seen
    inference,           \* atomsWithSupportInference
    disjunctive,         \* whether numberOfDisjunctiveRules is positive
    result               \* what the completion hands to the solver

state == <<rules, occurrences, supported, facts, clauses, constraints, inference>>
vars == <<input, program, phase, loop, assigned, propagated, state, dictionary, disjunctive, result>>

IsTrue(v) == v \in assigned
IsFalse(v) == -v \in assigned
IsUndefined(v) == ~IsTrue(v) /\ ~IsFalse(v)

(* Clauses are propagated as soon as they are added.                       *)
RECURSIVE UnitClosure(_, _)
UnitClosure(A, S) ==
    LET new == {l \in UNION S : l \notin A /\ \E C \in S : l \in C /\ \A k \in C \ {l} : -k \in A}
    IN  IF new = {} THEN A ELSE UnitClosure(A \cup new, S)
ConflictDetected == {} \in clauses \/ \E l \in assigned : -l \in assigned

(* addClause, addFact: new clauses, literals and facts of one handler.     *)
Tautology(C) == \E l \in C : -l \in C
Derive(C, U, F) ==
    /\ clauses' = clauses \cup {D \in C : ~Tautology(D)}
    /\ assigned' = UnitClosure(assigned \cup U \cup F, clauses')
    /\ supported' = supported \cup F

-----------------------------------------------------------------------------
(* A rule: its head atoms, those that cannot be supported by it apart; its *)
(* positive body literals, those that are true but not facts apart.        *)
IsFact(r) == /\ Cardinality(r.head) = 1
             /\ r.unsupported \cup r.pos \cup r.truePos \cup r.neg \cup r.dneg = {}

(* All that keeps the one head atom open is assigned.                      *)
IsFiring(r) == Cardinality(HeadAtoms(r)) = 1 /\ r.pos \cup r.neg \cup r.dneg = {}
HeadsOf(R) == UNION {HeadAtoms(r) : r \in R}
Deciding(R) == UNION {HeadAtoms(r) : r \in {s \in R : IsFiring(s)}}

Init ==
    /\ input \in Inputs
    /\ program = <<>>
    /\ phase = "read" /\ loop = "idle"
    /\ assigned = {} /\ propagated = {}
    /\ rules = {} /\ occurrences = [v \in Atom |-> 0]
    /\ supported = {} /\ facts = {} /\ clauses = {}
    /\ constraints = <<>> /\ dictionary = {} /\ inference = {}
    /\ disjunctive = FALSE
    /\ result = NoResult

(* The literals of a body that are still open.  A rule is dropped when its *)
(* body is false, or the rule says nothing.                                *)
Unsatisfiable(line, H) ==
    \/ \E v \in line.neg : IsTrue(v)
    \/ \E v \in line.pos : IsFalse(v) \/ v \in H \/ v \in line.neg
ReadBody(line, id) ==
    [id |-> id, head |-> {}, unsupported |-> {}, dneg |-> {}, choice |-> FALSE,
     pos |-> {v \in line.pos : IsUndefined(v)},
     truePos |-> {v \in line.pos : IsTrue(v) /\ v \notin supported},
     neg |-> {v \in line.neg : IsUndefined(v)}]

(* add: with a true head atom no other one can be supported, with two no.  *)
AddRule(r, H) ==
    LET T == {v \in H : IsTrue(v)}
        possible == IF T = {} THEN H ELSE IF Cardinality(T) = 1 THEN T ELSE {}
    IN  [r EXCEPT !.head = possible, !.unsupported = H \ possible]
Counted(R) == [v \in Atom |-> occurrences[v] + Cardinality({r \in R : v \in r.head})]

ReadConstraint(line) ==
    /\ Derive(IF Unsatisfiable(line, {}) THEN {}
              ELSE {{-v : v \in {w \in line.pos : IsUndefined(w)}}
                      \cup {v \in line.neg : IsUndefined(v)}}, {}, {})
    /\ UNCHANGED <<rules, occurrences, facts, constraints, dictionary>>

(* readNormalRule and readDisjunctiveRule behind the head: false heads are *)
(* gone, and none of the others is a fact.  Only the first of them derives *)
(* the head of a rule whose body is true but not supported.                *)
ReadRule(line, H, firing) ==
    LET r == ReadBody(line, <<Len(program) + 1, 0>>)
        left == H \ r.neg
        full == AddRule(r, left)
    IN  CASE Unsatisfiable(line, H) ->
               /\ Derive({}, {}, {})
               /\ UNCHANGED <<rules, occurrences, facts>>
          [] ~Unsatisfiable(line, H) /\ left = {} ->
               /\ Derive({BodyToConstraint(r)}, {}, {})
               /\ UNCHANGED <<rules, occurrences, facts>>
          [] ~Unsatisfiable(line, H) /\ IsFact(full) ->
               /\ Derive({}, {}, full.head)
               /\ facts' = facts \cup full.head
               /\ UNCHANGED <<rules, occurrences>>
          [] OTHER ->
               /\ rules' = rules \cup {full}
               /\ occurrences' = Counted({full})
               /\ Derive({}, IF firing THEN Deciding({full}) ELSE {}, {})
               /\ UNCHANGED facts

ReadNormalRule(line) ==
    LET H == {v \in line.head : ~IsFalse(v)}
    IN  /\ line.type = "rule" /\ Cardinality(line.head) <= 1
        /\ CASE H = {} -> ReadConstraint(line)
             [] H # {} /\ (H \subseteq supported \/ line \in dictionary) ->
                  UNCHANGED <<assigned, state, dictionary>>
             [] OTHER ->
                  /\ ReadRule(line, H, TRUE)
                  /\ dictionary' = dictionary \cup {line}
                  /\ UNCHANGED constraints

ReadDisjunctiveRule(line) ==
    LET H == {v \in line.head : ~IsFalse(v)}
    IN  /\ line.type = "rule" /\ Cardinality(line.head) > 1
        /\ CASE H = {} -> ReadConstraint(line)
             [] H \cap supported # {} -> UNCHANGED <<assigned, state, dictionary>>
             [] OTHER -> ReadRule(line, H, FALSE) /\ UNCHANGED <<constraints, dictionary>>

(* One rule per head atom, which supports it if it holds.  An atom that is *)
(* in the body too is looked for under the first head only.                *)
ChoiceRule(r, v) == [r EXCEPT !.id = <<@[1], v>>, !.head = {v}, !.dneg = {v}, !.choice = TRUE]
ReadChoiceRule(line) ==
    /\ line.type = "choice"
    /\ LET H == {v \in line.head : ~IsFalse(v)}
           r == ReadBody(line, <<Len(program) + 1, 0>>)
           new == IF H = {} \/ Unsatisfiable(line, {Min(H)}) THEN {}
                  ELSE {ChoiceRule(r, v) : v \in H \ r.neg}
       IN  rules' = rules \cup new /\ occurrences' = Counted(new)
    /\ Derive({}, {}, {})
    /\ UNCHANGED <<facts, constraints, dictionary>>

-----------------------------------------------------------------------------
(* Weight constraints.  current counts the true literals, max those that   *)
(* are not false; both are kept until the constraint is decided.           *)
WeightTrue(w) == w.current >= w.bound
WeightFalse(w) == w.max < w.bound
Decided(w) == w.removed \/ WeightTrue(w) \/ WeightFalse(w)
Undecided == [id \in {i \in DOMAIN constraints : ~Decided(constraints[i])} |-> constraints[id]]
Minimum(a, b) == IF a < b THEN a ELSE b

(* weightConstraintIsTrue, weightConstraintIsFalse: literals without which *)
(* the bound is not reached, with which it is.                             *)
Open(w) == {l \in DOMAIN w.weight : {l, -l} \cap assigned = {}}
Needed(w) == {l \in Open(w) : w.max - w.weight[l] < w.bound}
Excluded(w) == {-l : l \in {k \in Open(w) : w.current + w.weight[k] >= w.bound}}
Implied(id, w) ==
    CASE WeightTrue(w)  -> {id}
      [] WeightFalse(w) -> {-id}
      [] IsTrue(id)  /\ ~Decided(w) -> Needed(w)
      [] IsFalse(id) /\ ~Decided(w) -> Excluded(w)
      [] OTHER -> {}

(* readSum, readCount: weights are cut at the bound; literals that are     *)
(* decided go, true ones lower the bound (removeSatisfiedLiterals).        *)
ReadWeight(line) ==
    /\ line.type = "sum"
    /\ LET cut == [l \in DOMAIN line.weight |-> Minimum(line.weight[l], line.bound)]
           held == MapThenSumSet(LAMBDA l : cut[l], {l \in DOMAIN cut : l \in assigned})
           left == {l \in DOMAIN cut : {l, -l} \cap assigned = {}}
           w == [weight |-> [l \in left |-> cut[l]], removed |-> FALSE, current |-> 0,
                 bound |-> IF held < line.bound THEN line.bound - held ELSE 0,
                 max |-> MapThenSumSet(LAMBDA l : cut[l], left)]
       IN  /\ constraints' = (line.id :> w) @@ constraints
           /\ Derive({}, Implied(line.id, w), {})
    /\ UNCHANGED <<rules, occurrences, facts, dictionary>>

(* canBeAClause compares the weights at the ends of the sorted list.       *)
CanBeAClause(w) ==
    /\ Cardinality({w.weight[l] : l \in DOMAIN w.weight}) = 1
    /\ \E k \in {w.weight[l] : l \in DOMAIN w.weight} : k # 0 /\ w.bound \div k = 1

(* updateCurrentValueWeightConstraint, updateMaxPossibleValueWeightConstraint *)
Weight(w, l) == IF l \in DOMAIN w.weight THEN w.weight[l] ELSE 0
Updated(w, l) ==
    CASE Decided(w) -> w
      [] OTHER -> [w EXCEPT !.current = @ + Weight(w, l), !.max = @ - Weight(w, -l)]
ReplacedByClause(id, l, w) == id = l /\ CanBeAClause(w) /\ ~WeightTrue(w) /\ ~w.removed
WeightsAfter(l) == [id \in DOMAIN constraints |->
                      LET w == Updated(constraints[id], l)
                      IN  IF ReplacedByClause(id, l, w) THEN [w EXCEPT !.removed = TRUE] ELSE w]
WeightClauses(l) == {Open(WeightsAfter(l)[id]) :
                       id \in {i \in DOMAIN constraints : ReplacedByClause(i, l, Updated(constraints[i], l))}}
Touched(l) == {id \in DOMAIN constraints : id \in {l, -l} \/ WeightsAfter(l)[id] # constraints[id]}
WeightLiterals(l) == UNION {Implied(id, WeightsAfter(l)[id]) :
                              id \in {i \in Touched(l) : ~WeightsAfter(l)[i].removed}}

-----------------------------------------------------------------------------
(* The handlers of propagate().  Rules are shortened, dropped with one     *)
(* support less for their heads (removeAndCheckSupport), or they turn into *)
(* facts.  Atoms with no support left, or one if they must hold, are noted *)
(* for simplify().                                                         *)
CheckSupport(lost, noted) ==
    /\ occurrences' = [v \in Atom |-> occurrences[v] - lost[v]]
    /\ inference' = inference \cup noted
         \cup {v \in Atom : /\ lost[v] > 0
                            /\ occurrences'[v] = 0 \/ (occurrences'[v] = 1 /\ v \in assigned')}
Supports(R, v) == Cardinality({r \in R : v \in r.head})

(* Mutant: a true head atom leaves the other head atoms supported.         *)
UnsupportNone(r, v) == r

(* onTrueHeadAtom: no other head atom of the rule can be supported by it.  *)
UnsupportOthers(r, v) ==
    IF v \in HeadAtoms(r)
    THEN [r EXCEPT !.head = @ \cap {v}, !.unsupported = @ \cup (r.head \ {v})] ELSE r

(* Mutant: a true body literal goes although it is not a fact.             *)
WithTrueAsFact(r, v) == [r EXCEPT !.pos = @ \ {v}, !.dneg = @ \ {v}, !.truePos = @ \ {v}]

(* shrinkPos, shrinkDoubleNeg: the literal goes, or stays as true.         *)
WithTrue(r, v) ==
    [r EXCEPT !.pos = @ \ {v}, !.dneg = @ \ {v},
              !.truePos = IF v \in supported THEN @ \ {v} ELSE @ \cup ({v} \cap r.pos)]

PropagateTrue(v) ==
    /\ v \in assigned \ propagated
    /\ LET removed == {r \in rules : v \in r.neg}
           shrunk == {WithTrue(r, v) : r \in {s \in rules \ removed : v \in s.pos \cup s.dneg}}
           same == {r \in rules \ removed : v \notin r.pos \cup r.dneg}
           fact == {r \in shrunk : IsFact(r)}
           left == same \cup (shrunk \ fact)
       IN  /\ rules' = {UnsupportOthers(r, v) : r \in left}
           /\ Derive(WeightClauses(v), WeightLiterals(v) \cup Deciding(shrunk), HeadsOf(fact))
           /\ facts' = facts \cup (HeadsOf(fact) \ supported)
           /\ CheckSupport([u \in Atom |-> Supports(removed, u)
                              + Supports({r \in left : u # v /\ v \in HeadAtoms(r)}, u)],
                           IF occurrences[v] = 1 THEN {v} ELSE {})
    /\ constraints' = WeightsAfter(v)
    /\ propagated' = propagated \cup {v}

(* shrinkNeg and shrinkHead; a rule without head atoms is a constraint.    *)
WithFalse(r, v) == [r EXCEPT !.neg = @ \ {v}, !.head = @ \ {v}, !.unsupported = @ \ {v}]
PropagateFalse(v) ==
    /\ -v \in assigned \ propagated
    /\ LET removed == {r \in rules : v \in r.pos \cup r.dneg}
           shrunk == {WithFalse(r, v) : r \in {s \in rules \ removed : v \in s.neg \cup HeadAtoms(s)}}
           same == {r \in rules \ removed : v \notin r.neg \cup HeadAtoms(r)}
           fact == {r \in shrunk : IsFact(r)}
           headless == {r \in shrunk : HeadAtoms(r) = {}}
           single == {r \in headless : Cardinality(ClauseOf(r)) = 1}
       IN  /\ rules' = same \cup (shrunk \ (fact \cup (headless \ single)))
           /\ Derive(WeightClauses(-v) \cup {ClauseOf(r) : r \in single}
                       \cup {BodyToConstraint(r) : r \in headless \ single},
                     WeightLiterals(-v) \cup Deciding(shrunk), HeadsOf(fact))
           /\ facts' = facts \cup (HeadsOf(fact) \ supported)
           /\ CheckSupport([u \in Atom |-> IF u = v THEN occurrences[v] ELSE Supports(removed, u)], {})
    /\ constraints' = WeightsAfter(-v)
    /\ propagated' = propagated \cup {-v}

(* A fact needs no rule, and true body literals it kept in rules go.       *)
WithFact(r, v) == [r EXCEPT !.pos = @ \ {v}, !.truePos = @ \ {v}]
PropagateFact(v) ==
    /\ v \in facts
    /\ LET left == {r \in rules : v \notin HeadAtoms(r)}
           shrunk == {WithFact(r, v) : r \in {s \in left : v \in s.pos \cup s.truePos}}
           same == {r \in left : v \notin r.pos \cup r.truePos}
           fact == {r \in shrunk : IsFact(r)}
       IN  /\ rules' = same \cup (shrunk \ fact)
           /\ Derive({}, Deciding(shrunk), HeadsOf(fact))
           /\ facts' = (facts \cup (HeadsOf(fact) \ supported)) \ {v}
    /\ occurrences' = [occurrences EXCEPT ![v] = 0]
    /\ UNCHANGED <<propagated, constraints, inference>>

(* All literals, then all facts, until there is neither.                   *)
Propagate ==
    /\ ~ConflictDetected
    /\ \/ /\ loop = "literals" /\ \E v \in Atom : PropagateTrue(v) \/ PropagateFalse(v)
          /\ UNCHANGED loop
       \/ /\ loop = "facts" /\ \E v \in Atom : PropagateFact(v)
          /\ UNCHANGED loop
       \/ /\ loop = "literals" /\ assigned = propagated
          /\ loop' = IF facts = {} THEN "idle" ELSE "facts"
          /\ UNCHANGED <<assigned, propagated, state>>
       \/ /\ loop = "facts" /\ facts = {}
          /\ loop' = "literals"
          /\ UNCHANGED <<assigned, propagated, state>>
    /\ UNCHANGED <<input, program, phase, dictionary, disjunctive, result>>

Incoherent ==
    /\ ConflictDetected /\ phase \notin {"incoherent", "done"}
    /\ phase' = "incoherent" /\ loop' = "idle"
    /\ UNCHANGED <<input, program, assigned, propagated, state, dictionary, disjunctive, result>>

-----------------------------------------------------------------------------
Idle(p) == phase = p /\ loop = "idle" /\ ~ConflictDetected

ReadLine ==
    /\ Idle("read") /\ Len(program) < input.maxLines
    /\ \E line \in input.lines :
         /\ \/ ReadDisjunctiveRule(line) /\ disjunctive' = (disjunctive \/ rules' # rules)
            \/ /\ ReadNormalRule(line) \/ ReadChoiceRule(line) \/ ReadWeight(line)
               /\ UNCHANGED disjunctive
         /\ line.type = "sum" => line.id \notin DOMAIN constraints
         /\ program' = Append(program, line)
    /\ loop' = "literals"
    /\ UNCHANGED <<input, phase, propagated, inference, result>>

(* readTrueAtoms, readFalseAtoms, readErrorNumber: the atoms that must     *)
(* hold, must not, and may.                                                *)
Of(type) == {l.atom : l \in {c \in input.closing : c.type = type}}
Free(v) == [id |-> <<0, v>>, head |-> {v}, unsupported |-> {}, pos |-> {}, truePos |-> {},
            neg |-> {}, dneg |-> {v}, choice |-> TRUE]
CloseInput ==
    /\ Idle("read")
    /\ program' = program \o SetToSeq(input.closing)
    /\ rules' = rules \cup {Free(v) : v \in Of("external")}
    /\ occurrences' = Counted({Free(v) : v \in Of("external")})
    /\ Derive({}, Of("true") \cup {-v : v \in Of("false")}, {})
    /\ phase' = "close" /\ loop' = "literals"
    /\ UNCHANGED <<input, propagated, facts, constraints, inference, dictionary, disjunctive, result>>

(* simplify: atoms without support are false; the one rule that supports a *)
(* true atom must fire, with no other head atom.                           *)
StartSimplify ==
    /\ Idle("close")
    /\ inference' = {v \in Atom : /\ v \notin supported /\ ~IsFalse(v)
                                  /\ occurrences[v] = 0 \/ (occurrences[v] = 1 /\ IsTrue(v))}
    /\ phase' = "simplify"
    /\ UNCHANGED <<input, program, loop, assigned, propagated, rules, occurrences, supported, facts,
                   clauses, constraints, dictionary, disjunctive, result>>
MustFire(r, v) ==
    {-u : u \in HeadAtoms(r) \ {v}} \cup (r.pos \cup r.truePos) \cup {-u : u \in r.neg} \cup (r.dneg \ {v})
Simplify ==
    /\ Idle("simplify")
    /\ \E v \in inference :
         /\ inference' = inference \ {v}
         /\ CASE v \in supported \/ IsFalse(v) \/ v \in DOMAIN constraints -> Derive({}, {}, {})
              [] ~(v \in supported \/ IsFalse(v) \/ v \in DOMAIN constraints) /\ occurrences[v] = 0 ->
                   Derive({}, {-v}, {})
              [] OTHER -> \E r \in rules : v \in r.head /\ Derive({}, MustFire(r, v), {})
    /\ loop' = "literals"
    /\ UNCHANGED <<input, program, phase, propagated, rules, occurrences, facts, constraints,
                   dictionary, disjunctive, result>>

(* computeSCCs or computeSCCsDisjunctive, computeGusStructures,            *)
(* addWeightConstraints and computeCompletion.                             *)
Finish ==
    /\ Idle("simplify") /\ inference = {}
    /\ \E shift \in input.shifts :
         result' = Completed(IF disjunctive THEN shift ELSE "naive", rules, occurrences,
                             {v \in Atom : ~IsFalse(v)} \ (supported \cup DOMAIN constraints), assigned,
                             Undecided)
    /\ phase' = "done"
    /\ UNCHANGED <<input, program, loop, assigned, propagated, state, dictionary, disjunctive>>

Next == ReadLine \/ Propagate \/ Incoherent \/ CloseInput \/ StartSimplify \/ Simplify \/ Finish
Spec == Init /\ [][Next]_vars /\ WF_vars(Next)
-----------------------------------------------------------------------------
(* What is left of the program, as a program.                              *)
Clean(r) == [type |-> IF r.choice THEN "choice" ELSE "rule", head |-> HeadAtoms(r),
             pos |-> r.pos \cup r.truePos, neg |-> r.neg]
Rule(H, P, N) == [type |-> "rule", head |-> H, pos |-> P, neg |-> N]
Residual ==
    {Clean(r) : r \in rules} \cup {Rule({v}, {}, {}) : v \in supported}
    \cup {Rule({}, {-l : l \in {k \in C : k < 0}}, {l \in C : l > 0}) : C \in clauses}
    \cup {IF l > 0 THEN [type |-> "true", atom |-> l] ELSE [type |-> "false", atom |-> -l] : l \in assigned}
    \cup {[type |-> "sum", id |-> id, bound |-> Undecided[id].bound, weight |-> Undecided[id].weight] :
             id \in DOMAIN Undecided}
    \cup {[type |-> "external", atom |-> id] : id \in DOMAIN constraints}
AnswerSetsOf(lines) == {M \in SUBSET Atom : IsAnswerSet(M, lines)}

(* The models of the result: assignments of the clauses and sums in which  *)
(* every atom of a cyclic component has a reason that does not rest on the *)
(* atom itself.                                                            *)
Reachable(T, s) == MapThenSumSet(LAMBDA l : s.weight[l], {l \in DOMAIN s.weight : -l \notin T}) >= s.bound
AtBound(T, s) == MapThenSumSet(LAMBDA l : s.weight[l], DOMAIN s.weight \cap T) >= s.bound
SumHolds(T, s) == AtBound(T, s) = (s.id = NoLiteral \/ s.id \in T)

RECURSIVE FoundedFrom(_, _, _)
FoundedFrom(T, reasons, F) ==
    LET G == {r.var : r \in {q \in reasons : \E b \in q.bodies : b.internal \subseteq F /\ b.external \subseteq T}}
    IN  IF G = F THEN F ELSE FoundedFrom(T, reasons, G)
Founded(T, reasons) ==
    {r.var : r \in reasons} \cap T \subseteq FoundedFrom(T, {r \in reasons : r.var \in T}, {})

UnfoundedBy(T, U, r) ==
    HeadAtoms(r) \cap U # {} =>
      \/ BodyLiterals(r) \cap T # {} \/ PosBody(r) \cap U # {} \/ (HeadAtoms(r) \ U) \cap T # {}
HasUnfoundedSet(T, hc) == \E U \in SUBSET (hc.atoms \cap T) : U # {} /\ \A r \in hc.rules : UnfoundedBy(T, U, r)

RECURSIVE Total(_, _, _)
Total(A, V, S) ==
    LET C == UnitClosure(A, S)
        open == {v \in V : {v, -v} \cap C = {}}
        hopeless == \/ \E l \in C : -l \in C
                    \/ \E s \in result.sums : s.id \in C \cup {NoLiteral} /\ ~Reachable(C, s)
    IN  IF hopeless THEN {}
        ELSE IF open = {} THEN {C}
        ELSE Total(C \cup {Min(open)}, V, S) \cup Total(C \cup {-Min(open)}, V, S)
Variables == Atom \cup {IF l > 0 THEN l ELSE -l : l \in UNION (result.clauses \cup {DOMAIN s.weight : s \in result.sums})}
Models == {T \in Total(assigned, Variables, clauses \cup result.clauses) :
             /\ \A s \in result.sums : SumHolds(T, s)
             /\ \A K \in result.gus : Founded(T, K)
             /\ \A hc \in result.hcs : ~HasUnfoundedSet(T, hc)}

(* What has been read has the answer sets of what is left of it: dropping  *)
(* and shortening rules, unit propagation and the inferences from support, *)
(* line by line, neither lose one nor add one.                             *)
SimplificationPreserves ==
    loop = "idle" /\ phase # "done" =>
      AnswerSetsOf(program) =
        (IF ConflictDetected THEN {} ELSE AnswerSetsOf(SetToSeq(Residual)))

(* numberOfHeadOccurrences is the number of rules that can support an atom *)
(* that is not decided, whenever simplify() or computeSCCs() read it.      *)
SupportCountExact ==
    loop = "idle" /\ ~ConflictDetected =>
      \A v \in Atom : ~IsFalse(v) /\ v \notin supported => occurrences[v] = Supports(rules, v)

(* What the solver gets has the answer sets of the program for its models, *)
(* once each, whichever way disjunctive heads are shifted: the variables   *)
(* that are added never make two models of one.                            *)
CompletionExact ==
    phase = "done" =>
      /\ {T \cap Atom : T \in Models} = AnswerSetsOf(program)
      /\ Cardinality(Models) = Cardinality(AnswerSetsOf(program))
=============================================================================
