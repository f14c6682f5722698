----------------------------- MODULE Assignment -----------------------------
(***************************************************************************)
(* The trail of the solver as its propagators see it: the literals that    *)
(* are assigned, in their order, with the level and the reason of each.    *)
(* A reason is a clause, the empty one for a decision; by is the sum that  *)
(* gave it, or 0.                                                          *)
(***************************************************************************)
EXTENDS Integers, FiniteSets, FiniteSetsExt, Sequences, SequencesExt

VARIABLES prog,          \* the program and the structures built from it
          trail,
          level          \* currentDecisionLevel

Variable(l) == IF l > 0 THEN l ELSE -l
Opposite(C) == {-l : l \in C}
Ascending(S) == SetToSortSeq(S, <)

TrueOn(t, l) == \E i \in DOMAIN t : t[i].lit = l
IsTrue(l) == TrueOn(trail, l)
IsFalse(l) == IsTrue(-l)
IsUndefined(l) == ~IsTrue(l) /\ ~IsFalse(l)
LevelOn(t, l) == (CHOOSE e \in ToSet(t) : Variable(e.lit) = Variable(l)).level
LevelOf(l) == LevelOn(trail, l)
AboveZero(C) == {l \in C : LevelOf(l) > 0}

(* assignLiteral of a literal that is not false: a true one stays as it is. *)
AssignedOn(t, l, k, C, s) ==
    IF TrueOn(t, l) THEN t ELSE Append(t, [lit |-> l, level |-> k, reason |-> C, by |-> s])
Unrolled(k) == SelectSeq(trail, LAMBDA e : e.level <= k)

(* A clause for the solver: the literal it is to assign, and one with the  *)
(* highest level of the others, 0 if there is none.                        *)
NoClause == [lits |-> {}, first |-> 0, second |-> 0, add |-> FALSE]
HighestOf(C) == CHOOSE l \in C : \A m \in C : LevelOf(m) <= LevelOf(l)
ClauseFor(first, C, add) ==
    [lits |-> {first} \cup C, first |-> first, add |-> add,
     second |-> IF C = {} THEN 0 ELSE HighestOf(C)]
=============================================================================
