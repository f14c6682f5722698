---------------------------- MODULE Propagators ----------------------------
(***************************************************************************)
(* solvePropagators: the search of WASP on a program with recursion or     *)
(* sums.  A literal of the trail goes through the clauses, the sums and    *)
(* the components; when all have, the components that lost something are   *)
(* asked, one after the other, for a clause.  Modules Unfounded,           *)
(* ModelChecker and Aggregates are the propagators, this one is the solver *)
(* around them.                                                            *)
(***************************************************************************)
EXTENDS Assignment, AnswerSets

CONSTANT Programs        \* lines, component and kind by component, aux

VARIABLES gus, hc, sums, \* the components, the checkers, the sums
          next,          \* of the trail, to propagate
          phase,
          post,          \* postPropagators, a stack of components
          learned,       \* clauses of postpropagators that were kept
          clause         \* the one at hand

Component == INSTANCE Unfounded
Checker == INSTANCE ModelChecker
Aggregate == INSTANCE Aggregates

vars == <<prog, trail, level, gus, hc, sums, next, phase, post, learned, clause>>

-----------------------------------------------------------------------------
(* The clauses of a program: its rules, the definitions of the variables   *)
(* for bodies, and that an atom needs a rule.                              *)
Literals(r) == r.pos \cup Opposite(r.neg)
Heads(p, v) == SelectSeq(p.lines, LAMBDA r : r.type = "rule" /\ v \in r.head)
Chosen(p, v) == \E r \in ToSet(p.lines) : r.type = "choice" /\ v \in r.head
Needs(r, v) == Literals(r) \cup Opposite(r.head \ {v})
Standing(p, L) == IF Cardinality(L) = 1 THEN CHOOSE l \in L : TRUE
                  ELSE CHOOSE x \in DOMAIN p.aux : ToSet(p.aux[x]) = L
SupportOf(p, v) == [i \in DOMAIN Heads(p, v) |-> Standing(p, Needs(Heads(p, v)[i], v))]
Defined(p) == {v \in 1 .. p.size : v \notin DOMAIN p.aux /\ ~Chosen(p, v)
                                   /\ \A r \in ToSet(p.lines) : r.type = "sum" => r.id # v}
Facts(p) == {v \in Defined(p) : \E r \in ToSet(Heads(p, v)) : Needs(r, v) = {}}
RuleClauses(p) == {r.head \cup Opposite(Literals(r)) : r \in {r \in ToSet(p.lines) : r.type = "rule"}}
AuxClauses(p) == UNION {{{x} \cup Opposite(ToSet(p.aux[x]))} \cup {{-x, l} : l \in ToSet(p.aux[x])} : x \in DOMAIN p.aux}
SupportClauses(p) == {{-v} \cup ToSet(SupportOf(p, v)) : v \in Defined(p) \ Facts(p)}
Clauses(p) == RuleClauses(p) \cup AuxClauses(p) \cup SupportClauses(p)

AuxLines(p) ==
    {[type |-> "rule", head |-> {x}, pos |-> {l \in ToSet(p.aux[x]) : l > 0},
      neg |-> Opposite({l \in ToSet(p.aux[x]) : l < 0})] : x \in DOMAIN p.aux}
AnswersOf(p) ==
    LET reference == p.lines \o SetToSeq(AuxLines(p)) IN {M \in SUBSET (1 .. p.size) : IsAnswerSet(M, reference)}
SumLines(p) == SelectSeq(p.lines, LAMBDA r : r.type = "sum")

Built(p) ==
    [size |-> p.size, lines |-> p.lines, component |-> p.component, kind |-> p.kind, body |-> p.aux,
     clauses |-> {C \in Clauses(p) : Cardinality(C) > 1}, units |-> UNION {C \in Clauses(p) : Cardinality(C) = 1},
     support |-> [v \in Defined(p) \ Facts(p) |-> SupportOf(p, v)],
     sum |-> [i \in DOMAIN SumLines(p) |->
                 Aggregate!SumOf(SumLines(p)[i].id, SumLines(p)[i].weight, SumLines(p)[i].bound)],
     answers |-> AnswersOf(p)]

HeadCycleFree == {c \in DOMAIN prog.component : prog.kind[c] = "hcf"}
WithHeadCycles == DOMAIN prog.component \ HeadCycleFree

(* All components are on the stack before the search.                      *)
Init ==
    /\ \E p \in Programs : prog = Built(p)
    /\ trail = [i \in DOMAIN Ascending(prog.units) |->
                   [lit |-> Ascending(prog.units)[i], level |-> 0, reason |-> {}, by |-> 0]]
    /\ level = 0
    /\ gus = [c \in HeadCycleFree |-> Component!InitialComponent(c)]
    /\ hc = [c \in WithHeadCycles |-> Checker!InitialCheck]
    /\ sums = [i \in DOMAIN prog.sum |-> Aggregate!InitialSum(prog.sum[i])]
    /\ next = 1 /\ phase = "units"
    /\ post = [c \in DOMAIN prog.component |-> c]
    /\ learned = {} /\ clause = NoClause

Conflicting(C) == [NoClause EXCEPT !.lits = C]
-----------------------------------------------------------------------------
(* propagate: the clauses in which the literal is false.                   *)
Visited(C, a) ==
    LET open == {l \in C : ~TrueOn(a.trail, -l)}
    IN  IF a.conflict # {} \/ \E l \in C : TrueOn(a.trail, l) THEN a
        ELSE IF open = {} THEN [a EXCEPT !.conflict = C]
        ELSE IF Cardinality(open) = 1
        THEN [a EXCEPT !.trail = AssignedOn(@, CHOOSE l \in open : TRUE, level, C, 0)]
        ELSE a

Propagate ==
    LET p == trail[next].lit
        touched == {C \in prog.clauses \cup learned : -p \in C}
        a == FoldSet(Visited, [trail |-> trail, conflict |-> {}], touched)
    IN  /\ phase = "units" /\ next <= Len(trail)
        /\ trail' = a.trail
        /\ clause' = Conflicting(a.conflict)
        /\ phase' = IF a.conflict # {} THEN "conflict" ELSE "sums"
        /\ UNCHANGED <<prog, level, gus, hc, sums, next, post, learned>>

(* propagation: the sums the literal is in.                                *)
InSums(a, i) ==
    LET b == Aggregate!OnFalse(i, [sum |-> a.sums[i], trail |-> a.trail, conflict |-> 0], -trail[next].lit)
    IN  IF a.conflict # 0 \/ ~Aggregate!InSum(i, trail[next].lit) THEN a
        ELSE [sums |-> [a.sums EXCEPT ![i] = b.sum], trail |-> b.trail, conflict |-> b.conflict,
              by |-> IF b.conflict # 0 THEN i ELSE 0]

PropagateSums ==
    LET a == FoldLeft(InSums, [sums |-> sums, trail |-> trail, conflict |-> 0, by |-> 0],
                      [i \in DOMAIN prog.sum |-> i])
    IN  /\ phase = "sums"
        /\ sums' = a.sums /\ trail' = a.trail
        /\ phase' = IF a.conflict # 0 THEN "conflict" ELSE "components"
        /\ clause' = IF a.conflict = 0 THEN NoClause
                     ELSE [NoClause EXCEPT !.first = a.conflict, !.second = a.by]
        /\ UNCHANGED <<prog, level, gus, hc, next, post, learned>>

(* postPropagation: the components the literal is in.                      *)
Lost(c, l) == {v \in prog.component[c] : v \in Component!Sourced(gus[c], l)}
Looked(t, n) == IF n <= Len(t) THEN "units" ELSE "post"

PostPropagate ==
    LET l == -trail[next].lit
        checks == [c \in WithHeadCycles |-> Checker!Counted(c, hc[c], Variable(l))]
        asked == {c \in HeadCycleFree : Lost(c, l) # {}}
                 \cup {c \in WithHeadCycles : checks[c].test /\ checks[c] # hc[c]}
    IN  /\ phase = "components"
        /\ gus' = [c \in HeadCycleFree |-> Component!OnLiteralFalse(gus[c], l)]
        /\ hc' = checks
        /\ post' = post \o SelectSeq(Ascending(asked), LAMBDA c : c \notin ToSet(post))
        /\ next' = next + 1 /\ phase' = Looked(trail, next + 1)
        /\ UNCHANGED <<prog, trail, level, sums, learned, clause>>

(* Nothing is assigned to begin with: the queue is gone through first.*)
Start == phase = "units" /\ next > Len(trail) /\ phase' = "post"
         /\ UNCHANGED <<prog, trail, level, gus, hc, sums, next, post, learned, clause>>

-----------------------------------------------------------------------------
(* The postpropagator on top of the stack is asked for a clause.           *)
AskComponent ==
    LET c == Last(post)
        answer == Component!GetClauseToPropagate(c, gus[c])
    IN  /\ phase = "post" /\ post # <<>> /\ Last(post) \in HeadCycleFree
        /\ gus' = [gus EXCEPT ![c] = answer.state]
        /\ clause' = answer.clause
        /\ IF answer.clause = NoClause THEN post' = Front(post) /\ UNCHANGED phase
           ELSE phase' = "clause" /\ UNCHANGED post
        /\ UNCHANGED <<prog, trail, level, hc, sums, next, learned>>

AskChecker ==
    LET c == Last(post)
    IN  /\ phase = "post" /\ post # <<>> /\ Last(post) \in WithHeadCycles
        /\ clause' \in Checker!CheckedClauses(c, hc[c])
        /\ hc' = [hc EXCEPT ![c].test = FALSE]
        /\ IF clause' = NoClause THEN post' = Front(post) /\ UNCHANGED phase
           ELSE phase' = "clause" /\ UNCHANGED post
        /\ UNCHANGED <<prog, trail, level, gus, sums, next, learned>>

(* unroll to level k, after clearConflictStatus has reset what is on the   *)
(* stack; l is assigned then because of C.                                 *)
BackTo(k, l, C) ==
    LET t == Unrolled(k)
    IN  /\ level' = k
        /\ trail' = AssignedOn(t, l, k, C, 0)
        /\ next' = Len(t) + 1
        /\ post' = <<>>
        /\ gus' = [c \in HeadCycleFree |-> IF c \in ToSet(post) THEN Component!Reset(gus[c]) ELSE gus[c]]
        /\ hc' = [c \in WithHeadCycles |-> Checker!Emptied(hc[c], t)]
        /\ sums' = [i \in DOMAIN prog.sum |-> Aggregate!SumUnrolled(i, sums[i], t, k)]

Stays == UNCHANGED <<level, next, post, gus, hc, sums>>
Assign(l, C) == trail' = AssignedOn(trail, l, level, C, 0)

HandleClause ==
    LET size == Cardinality(clause.lits)
        first == clause.first
        target == IF size = 1 THEN 0 ELSE IF size = 0 THEN level ELSE LevelOf(clause.second)
        kept == target = level
        clashes == IsFalse(first) /\ LevelOf(first) <= target
    IN  /\ phase = "clause"
        /\ learned' = IF clause.add /\ size > 1 THEN learned \cup {clause.lits} ELSE learned
        /\ CASE size = 0 -> phase' = "incoherent" /\ Stays /\ UNCHANGED <<trail, clause>>
             [] size > 0 /\ kept /\ clashes -> phase' = "conflict" /\ Stays /\ UNCHANGED <<trail, clause>>
             [] size > 0 /\ kept /\ ~clashes ->
                  phase' = "units" /\ Stays /\ Assign(first, clause.lits) /\ clause' = NoClause
             [] size > 0 /\ ~kept /\ clashes ->
                  phase' = "conflict" /\ BackTo(target, -first, {}) /\ UNCHANGED clause
             [] size > 0 /\ ~kept /\ ~clashes ->
                  phase' = "units" /\ BackTo(target, first, clause.lits) /\ clause' = NoClause
        /\ UNCHANGED prog

-----------------------------------------------------------------------------
(* analyzeConflict: from the conflict back along the reasons, until one    *)
(* literal of the level is left.  Those of level zero are left out.        *)
ReasonOf(e) == IF e.by = 0 THEN e.reason \ {e.lit} ELSE Aggregate!ReasonOf(e.by, e.lit)
OfLevel(C) == {l \in C : LevelOf(l) = level}
Latest(C) == trail[Max({i \in DOMAIN trail : -trail[i].lit \in C})]
RECURSIVE FirstUIP(_)
FirstUIP(C) ==
    IF Cardinality(OfLevel(C)) <= 1 THEN C
    ELSE FirstUIP(AboveZero((C \ {-Latest(C).lit}) \cup ReasonOf(Latest(C))))

ConflictClause ==
    IF clause.lits # {} THEN clause.lits
    ELSE {clause.first} \cup Aggregate!ReasonOf(clause.second, clause.first)

HandleConflict ==
    LET C == FirstUIP(AboveZero(ConflictClause))
        asserted == CHOOSE l \in C : LevelOf(l) = level
        back == Max({0} \cup {LevelOf(l) : l \in C \ {asserted}})
    IN  /\ phase = "conflict"
        /\ clause' = NoClause
        /\ IF level = 0 \/ C = {} THEN phase' = "incoherent" /\ Stays /\ UNCHANGED trail
           ELSE phase' = "units" /\ BackTo(back, asserted, C)
        /\ learned' = IF Cardinality(C) > 1 THEN learned \cup {C} ELSE learned
        /\ UNCHANGED prog

(* Any literal may be chosen.                                              *)
Undefined == {v \in 1 .. prog.size : IsUndefined(v)}
Decide(l) ==
    /\ phase = "post" /\ post = <<>>
    /\ IsUndefined(l)
    /\ level' = level + 1
    /\ trail' = Append(trail, [lit |-> l, level |-> level', reason |-> {}, by |-> 0])
    /\ phase' = "units"
    /\ UNCHANGED <<prog, gus, hc, sums, next, post, learned, clause>>

FoundModel ==
    /\ phase = "post" /\ post = <<>> /\ Undefined = {}
    /\ phase' = "model"
    /\ UNCHANGED <<prog, trail, level, gus, hc, sums, next, post, learned, clause>>

Ended == phase \in {"model", "incoherent"} /\ UNCHANGED vars

Next ==
    \/ Start \/ Propagate \/ PropagateSums \/ PostPropagate
    \/ AskComponent \/ AskChecker \/ HandleClause \/ HandleConflict
    \/ \E v \in Undefined : Decide(v) \/ Decide(-v)
    \/ FoundModel \/ Ended

Spec == Init /\ [][Next]_vars
-----------------------------------------------------------------------------
Assigned == {v \in 1 .. prog.size : IsTrue(v)}
HoldsIn(C, M) == \E l \in C : TrueIn(M, l)

(* What the search ends with is right whatever was decided: a model is an  *)
(* answer set, and a program with one is not said to be incoherent.        *)
AnswerExact ==
    /\ phase = "model" => Assigned \in prog.answers
    /\ phase = "incoherent" => prog.answers = {}

(* A clause that a propagator hands to the solver holds in all answer sets *)
(* and all its literals, but for the one to assign, are false at the time. *)
ClausesImplied ==
    /\ \A C \in learned : \A M \in prog.answers : HoldsIn(C, M)
    /\ phase = "clause" =>
         /\ \A M \in prog.answers : HoldsIn(clause.lits, M)
         /\ \A l \in clause.lits \ {clause.first} : IsFalse(l)
         /\ clause.lits # {} => ~IsTrue(clause.first)

(* When the stack is empty every variable of a component that is not false *)
(* has a derivation from outside: no unfounded set is left, so the sources *)
(* form no cycle and none of them is false.                                *)
Step(c, F) ==
    F \cup {v \in prog.component[c] \ F :
              IF Component!IsAux(v) THEN \A l \in ToSet(prog.body[v]) : ~Component!Inside(c, l) \/ l \in F
              ELSE \E l \in ToSet(prog.support[v]) : ~IsFalse(l) /\ (~Component!Inside(c, l) \/ l \in F)}
Derivable(c) == FoldLeft(LAMBDA F, i : Step(c, F), {}, [i \in 1 .. prog.size |-> i])
NothingUnfounded ==
    phase = "post" =>
      /\ \A c \in HeadCycleFree : gus[c].unfounded = <<>> => ~gus[c].done
      /\ post = <<>> =>
           \A c \in HeadCycleFree :
              /\ \A v \in prog.component[c] : IsFalse(v) \/ v \in Derivable(c)
              /\ gus[c].queue = <<>> /\ gus[c].unfounded = <<>>

(* When the queue is empty no sum determines a literal that is undefined,  *)
(* and none is violated.                                                   *)
Weight(i, C) == MapThenSumSet(LAMBDA k : prog.sum[i].weights[k], {k \in 2 .. Len(prog.sum[i].lits) : prog.sum[i].lits[k] \in C})
BoundOf(i) == SumLines(prog)[i].bound
Holding(i) == Weight(i, {l \in ToSet(prog.sum[i].lits) : IsTrue(l)})
Possible(i) == Weight(i, {l \in ToSet(prog.sum[i].lits) : ~IsFalse(l)})
SumsPropagated ==
    phase = "post" =>
      \A i \in DOMAIN prog.sum :
        LET id == -prog.sum[i].lits[1]
            free == {k \in 2 .. Len(prog.sum[i].lits) : IsUndefined(prog.sum[i].lits[k])}
        IN  /\ Holding(i) >= BoundOf(i) => IsTrue(id)
            /\ Possible(i) < BoundOf(i) => IsFalse(id)
            /\ IsTrue(id) => \A k \in free : Possible(i) - prog.sum[i].weights[k] >= BoundOf(i)
            /\ IsFalse(id) => \A k \in free : Holding(i) + prog.sum[i].weights[k] < BoundOf(i)

(* The reason of a literal that a sum has assigned, read when a conflict   *)
(* is analysed: true before it, and enough for it.                         *)
ReasonHolds(i, l, C) ==
    \A M \in SUBSET {Variable(m) : m \in ToSet(prog.sum[i].lits)} :
        (-prog.sum[i].lits[1] \in M <=> SumIn(M, SumLines(prog)[i].weight) >= BoundOf(i)) => HoldsIn({l} \cup C, M)
SumReasons ==
    \A j \in DOMAIN trail :
        trail[j].by # 0 /\ trail[j].level > 0 =>
            LET e == trail[j] IN
            /\ \A l \in ReasonOf(e) : \E k \in 1 .. j - 1 : trail[k].lit = -l
            /\ ReasonHolds(e.by, e.lit, ReasonOf(e) \cup
                  {-trail[k].lit : k \in {k \in 1 .. j - 1 : trail[k].level = 0}})
=============================================================================
