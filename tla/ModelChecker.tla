---------------------------- MODULE ModelChecker ----------------------------
(***************************************************************************)
(* HCComponent with its two checkers: a component with head cycles, for    *)
(* which being founded is a matter of minimality.  It counts the literals  *)
(* it is attached to; when all are assigned a second solver looks for an   *)
(* unfounded set, the atoms a smaller model of the reduct does without     *)
(* (ReductBasedCheck) or atoms that no rule supports (UnfoundedBasedCheck).*)
(* Partial checks and compact reasons, which are options, are left out.    *)
(***************************************************************************)
EXTENDS Assignment

VARIABLE hc              \* by component: what follows

(* The rules with a head in the component, and their literals as the       *)
(* clause they are kept as.                                                *)
RulesOf(c) == {r \in ToSet(prog.lines) : r.type = "rule" /\ r.head \cap prog.component[c] # {}}
Literals(r) == r.head \cup Opposite(r.pos) \cup r.neg

(* A variable is attached once; the reduct has a copy of an external       *)
(* literal for each sign, and one of an atom that is negated in a body.    *)
Times(c, v) ==
    LET occurs == UNION {Literals(r) : r \in RulesOf(c)}
        copies == IF v \in prog.component[c]
                  THEN {0} \cup {1 : r \in {r \in RulesOf(c) : v \in r.neg}}
                  ELSE occurs \cap {v, -v}
    IN  IF prog.kind[c] = "unfounded" THEN Min({1, Cardinality(copies)}) ELSE Cardinality(copies)
Attachments(c) == MapThenSumSet(LAMBDA v : Times(c, v), 1 .. prog.size)

InitialCheck == [trail |-> <<>>, zero |-> 0, test |-> FALSE]

(* Mutant: literals of level zero are not counted again.                   *)
CompleteAboveZero(c, h) == Len(h.trail) = Attachments(c)
Complete(c, h) == Len(h.trail) + h.zero = Attachments(c)

(* onLiteralFalse.                                                         *)
Counted(c, h, v) ==
    LET all == IF level > 0 THEN [h EXCEPT !.trail = @ \o [i \in 1 .. Times(c, v) |-> v]]
               ELSE [h EXCEPT !.zero = @ + Times(c, v)]
    IN  [all EXCEPT !.test = @ \/ Complete(c, all)]

(* reset, with the trail t that is left: the variables at the end that     *)
(* have lost their values are taken off, and with them the test.           *)
Emptied(h, t) ==
    LET kept == {0} \cup {i \in DOMAIN h.trail : \E e \in ToSet(t) : Variable(e.lit) = h.trail[i]}
    IN  [h EXCEPT !.trail = SubSeq(@, 1, Max(kept)), !.test = @ /\ Max(kept) = Len(h.trail)]

-----------------------------------------------------------------------------
(* testModel: what the checker may find.  True atoms of the component are  *)
(* the candidates, the rest of the assignment is assumed.                  *)
Candidates(c) == {v \in prog.component[c] : ~IsFalse(v)}
BodyFalse(r) == (\E v \in r.pos : IsFalse(v)) \/ (\E v \in r.neg : IsTrue(v))

ModelWithout(c, U) ==
    \A r \in RulesOf(c) : BodyFalse(r) \/ r.pos \cap U # {} \/ \E h \in r.head : IsTrue(h) /\ h \notin U
Unsupported(c, U) ==
    \A r \in RulesOf(c) :
        r.head \cap U # {} =>
            BodyFalse(r) \/ r.pos \cap U # {} \/ \E h \in r.head \ U : IsTrue(h)
UnfoundedSets(c) ==
    {U \in SUBSET Candidates(c) \ {{}} : IF prog.kind[c] = "reduct" THEN ModelWithout(c, U) ELSE Unsupported(c, U)}

(* computeReasonForUnfoundedAtom: for each rule of an atom of the set, the *)
(* literal that satisfies it without the set, of the lowest level.         *)
Lowest(C) == CHOOSE l \in C : \A m \in C : LevelOf(l) <= LevelOf(m)
Satisfying(U, r) == {l \in Literals(r) \ (r.head \cap U) : IsTrue(l)}
ReasonsFor(c, U) ==
    LET rules == {r \in RulesOf(c) : r.head \cap U # {} /\ r.pos \cap U = {}}
    IN  {-Lowest(Satisfying(U, r)) : r \in {r \in rules : \A l \in Satisfying(U, r) : LevelOf(l) > 0}}

(* learnClausesFromDisjunctiveUnfoundedSet.                                *)
LoopFormula(c, U) == ReasonsFor(c, U) \cup AboveZero({-Lowest(U)})
LearnedFor(C) ==
    IF C = {} THEN [NoClause EXCEPT !.add = TRUE] ELSE ClauseFor(HighestOf(C), C \ {HighestOf(C)}, TRUE)

(* getClauseToPropagate: the clauses one of which is returned.             *)
CheckedClauses(c, h) ==
    IF h.test /\ UnfoundedSets(c) # {} THEN {LearnedFor(LoopFormula(c, U)) : U \in UnfoundedSets(c)} ELSE {NoClause}
=============================================================================
