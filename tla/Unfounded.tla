----------------------------- MODULE Unfounded -----------------------------
(***************************************************************************)
(* Component: a cyclic component without head cycles.  A variable that is  *)
(* not false must have a source pointer, one of its rules whose support    *)
(* does not go through the variable itself; a variable that loses it is    *)
(* looked after when unit propagation has come to its end, and those that  *)
(* get no other one are an unfounded set.  An auxiliary variable stands    *)
(* for a body: it is founded when its literals in the component are.       *)
(***************************************************************************)
EXTENDS Assignment

VARIABLE gus             \* by component: what follows

(* prog.component[c] is its set of variables, prog.body[v] the literals an *)
(* auxiliary variable stands for, prog.support[v] the rules of another.    *)
Inside(c, l) == l > 0 /\ l \in prog.component[c]
IsAux(v) == v \in DOMAIN prog.body
External(c, v) == SelectSeq(prog.support[v], LAMBDA l : ~Inside(c, l))
Internal(c, v) == SelectSeq(prog.support[v], LAMBDA l : Inside(c, l))
AuxWith(c, v) == {x \in prog.component[c] : IsAux(x) /\ v \in ToSet(prog.body[x])}
SupportedBy(c, v) == {x \in prog.component[c] : ~IsAux(x) /\ v \in ToSet(prog.support[x])}
Attached(c) == UNION {ToSet(prog.support[v]) : v \in {x \in prog.component[c] : ~IsAux(x)}}

(* Everything is in the queue before the first call.                       *)
InitialComponent(c) ==
    [queue |-> Ascending(prog.component[c]),      \* variablesWithoutSourcePointer
     propagated |-> {}, founded |-> {},
     source |-> [v \in prog.component[c] |-> 0],
     missing |-> [v \in prog.component[c] |-> 0], \* numberOfSupporting
     unfounded |-> <<>>, reasons |-> {}, conflict |-> 0, done |-> FALSE, first |-> TRUE]

Founded(g, S) ==
    [g EXCEPT !.founded = @ \cup S, !.missing = [v \in DOMAIN @ |-> IF v \in S \ g.founded THEN 0 ELSE @[v]]]
Lost(g, S) ==
    [g EXCEPT !.founded = @ \ S,
              !.queue = @ \o SelectSeq(Ascending(S), LAMBDA v : v \notin ToSet(g.queue))]

Reset(g) ==
    [Founded(g, ToSet(g.queue) \cup ToSet(g.unfounded)) EXCEPT
        !.queue = <<>>, !.propagated = {}, !.unfounded = <<>>, !.reasons = {}, !.conflict = 0, !.done = FALSE]

(* onLiteralFalse: the lists of what a literal supports are the inverse of *)
(* the source pointers of the founded variables.                           *)
Sourced(g, l) == {v \in g.founded : g.source[v] = l /\ ~IsFalse(v)}
OnLiteralFalse(g, l) == Lost(g, Sourced(g, l))

(* removeFalseAtomsAndPropagateUnfoundedness, from position i on.          *)
RECURSIVE RemoveFalseAtomsAndPropagate(_, _, _)
RemoveFalseAtomsAndPropagate(c, g, i) ==
    IF i > Len(g.queue) THEN g
    ELSE LET v == g.queue[i]
             lost == {x \in AuxWith(c, v) : ~IsFalse(x)}
             next == Lost(g, Sourced(g, v) \cup lost)
         IN  IF IsFalse(v) \/ v \in g.founded
             THEN RemoveFalseAtomsAndPropagate(c,
                    [Founded(g, {v}) EXCEPT !.queue = RemoveAt(@, i), !.propagated = @ \ {v}], i)
             ELSE IF v \in g.propagated THEN RemoveFalseAtomsAndPropagate(c, g, i + 1)
             ELSE RemoveFalseAtomsAndPropagate(c,
                    [next EXCEPT !.propagated = @ \cup {v},
                                 !.missing = [x \in DOMAIN @ |-> IF x \in lost THEN @[x] + 1 ELSE @[x]]], i + 1)

(* propagateSourcePointer, foundSourcePointer: a variable that is founded  *)
(* again supports others; an auxiliary one needs all of its literals.      *)
Offers(c, g, v) ==
    LET others == {x \in SupportedBy(c, v) : ~IsFalse(x) /\ x \notin g.founded}
        aux == {x \in AuxWith(c, v) : ~IsFalse(x)}
    IN  [i \in DOMAIN Ascending(others) |-> <<Ascending(others)[i], v>>]
        \o [i \in DOMAIN Ascending(aux) |-> <<Ascending(aux)[i], v>>]

(* Mutant: an auxiliary variable is content with one of them.              *)
NoneMissing(g, v) == TRUE
LastMissing(g, v) == g.missing[v] = 1

RECURSIVE PropagateSourcePointer(_, _, _)
PropagateSourcePointer(c, g, offers) ==
    IF offers = <<>> THEN g
    ELSE LET v == Last(offers)[1]
             rest == Front(offers)
             found == IF IsAux(v) THEN Founded(g, {v})
                      ELSE [Founded(g, {v}) EXCEPT !.source[v] = Last(offers)[2]]
         IN  IF v \in g.founded THEN PropagateSourcePointer(c, g, rest)
             ELSE IF IsAux(v) /\ ~LastMissing(g, v)
             THEN PropagateSourcePointer(c, [g EXCEPT !.missing[v] = @ - 1], rest)
             ELSE PropagateSourcePointer(c, found, rest \o Offers(c, found, v))

(* lookForANewSourcePointer: an external literal that is not false, or an  *)
(* internal one that is founded; 0 if there is none.                       *)
NewSource(c, g, v) ==
    LET usable == SelectSeq(External(c, v), LAMBDA l : ~IsFalse(l))
                  \o SelectSeq(Internal(c, v), LAMBDA l : ~IsFalse(l) /\ l \in g.founded)
    IN  IF IsAux(v) \/ usable = <<>> THEN 0 ELSE usable[1]
LookForANewSourcePointer(c, g, v) ==
    IF v \in g.founded \/ NewSource(c, g, v) = 0 THEN g
    ELSE PropagateSourcePointer(c, g, <<<<v, NewSource(c, g, v)>>>>)

(* computeGUSFirst.                                                        *)
ComputeGUSFirst(c, g) ==
    LET start == RemoveFalseAtomsAndPropagate(c, g, 1)
        h == FoldLeft(LAMBDA k, v : LookForANewSourcePointer(c, k, v), start, start.queue)
    IN  [h EXCEPT !.first = FALSE, !.queue = <<>>, !.propagated = {},
                  !.unfounded = SelectSeq(h.queue, LAMBDA v : v \notin h.founded)]

(* computeUnfoundedSet: from a variable without a source to those its      *)
(* rules need, position by position.                                       *)
RECURSIVE Explore(_, _, _, _)
Explore(c, g, toConsider, i) ==
    IF i > Len(toConsider) THEN [g EXCEPT !.unfounded = SelectSeq(@, LAMBDA v : v \notin g.founded)]
    ELSE LET v == toConsider[i]
             needed == IF IsAux(v) THEN SelectSeq(prog.body[v], LAMBDA l : Inside(c, l) /\ l \notin g.founded)
                       ELSE SelectSeq(Internal(c, v), LAMBDA l : ~IsFalse(l))
             new == SelectSeq(needed, LAMBDA l : l \notin ToSet(toConsider))
         IN  IF v \in g.founded THEN Explore(c, g, toConsider, i + 1)
             ELSE IF NewSource(c, g, v) # 0
             THEN Explore(c, LookForANewSourcePointer(c, g, v), toConsider, i + 1)
             ELSE Explore(c, [g EXCEPT !.unfounded = Append(@, v)], toConsider \o new, i + 1)

(* computeGUS: for the variables of the queue, until a set is found.       *)
RECURSIVE ComputeGUS(_, _)
ComputeGUS(c, g) ==
    IF g.queue = <<>> THEN g
    ELSE LET v == Head(g.queue)
             rest == [g EXCEPT !.queue = Tail(@), !.propagated = @ \ {v}]
             h == Explore(c, rest, <<v>>, 1)
             true == SelectSeq(h.unfounded, IsTrue)
             left == SelectSeq(h.queue, LAMBDA x : x \notin h.founded)
         IN  IF v \in g.founded THEN ComputeGUS(c, rest)
             ELSE IF h.unfounded = <<>> THEN ComputeGUS(c, h)
             ELSE [h EXCEPT !.conflict = IF true = <<>> THEN 0 ELSE true[1],
                            !.queue = left, !.propagated = @ \cap ToSet(left)]

-----------------------------------------------------------------------------
(* Mutant: only the rules of the first atom of the set are looked at.      *)
ReasonsOfFirst(c, g) ==
    AboveZero({l \in ToSet(prog.support[Head(SelectSeq(g.unfounded, LAMBDA v : ~IsAux(v)))]) : l \notin ToSet(g.unfounded)})

(* learnClausesFromUnfoundedSet, onLearningForUnfounded: the literals that *)
(* would support the set from outside are false.                           *)
Reasons(c, g) ==
    LET rules == UNION {ToSet(prog.support[v]) : v \in {x \in ToSet(g.unfounded) : ~IsAux(x)}}
    IN  AboveZero({l \in rules : ~(Inside(c, l) /\ l \in ToSet(g.unfounded))})

(* What getClauseToPropagate returns, and the state it leaves.             *)
Answer(g, clause) == [state |-> g, clause |-> clause]

(* handleConflict.                                                         *)
HandleConflict(g, v) ==
    LET C == g.reasons \cup AboveZero({-v})
    IN  Answer(Reset(g), IF C = {} THEN [NoClause EXCEPT !.add = TRUE]
                         ELSE ClauseFor(HighestOf(C), C \ {HighestOf(C)}, TRUE))

(* inferFalsityOfUnfoundedAtoms and updateClauseToPropagate: from the last *)
(* atom of the set on, those that are false already are passed over.       *)
Popped(g) == [Founded(g, {Last(g.unfounded)}) EXCEPT !.unfounded = Front(@)]

(* getClauseToPropagate: one atom of the set at a time; one clause serves  *)
(* for a large set with many reasons and is not added to the solver.       *)
RECURSIVE GetClauseToPropagate(_, _)
GetClauseToPropagate(c, g) ==
    IF g.unfounded = <<>>
    THEN LET h == IF g.first THEN ComputeGUSFirst(c, g)
                  ELSE ComputeGUS(c, RemoveFalseAtomsAndPropagate(c, g, 1))
         IN  IF g.queue = <<>> THEN Answer(g, NoClause)
             ELSE IF h.unfounded = <<>> THEN Answer(h, NoClause)
             ELSE GetClauseToPropagate(c, [h EXCEPT !.reasons = Reasons(c, h)])
    ELSE LET v == Last(g.unfounded)
         IN  IF ~g.done /\ g.conflict # 0 THEN HandleConflict(g, g.conflict)
             ELSE IF ~g.done /\ Cardinality(g.reasons) > 3 /\ Len(g.unfounded) > 1
             THEN GetClauseToPropagate(c, [g EXCEPT !.done = TRUE])
             ELSE IF IsTrue(v) /\ ~g.done THEN HandleConflict(g, v)
             ELSE IF IsFalse(v) THEN GetClauseToPropagate(c, [Popped(g) EXCEPT !.done = @ /\ Len(g.unfounded) > 1])
             ELSE IF IsTrue(v) THEN Answer(Reset(g), ClauseFor(-v, g.reasons, TRUE))
             ELSE Answer(Popped(g), ClauseFor(-v, g.reasons, ~g.done))
=============================================================================
