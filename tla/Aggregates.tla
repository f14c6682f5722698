----------------------------- MODULE Aggregates -----------------------------
(***************************************************************************)
(* Aggregate: the propagator of a sum.  Its literals are in the order of   *)
(* their weights, the first one is the complement of the literal that      *)
(* stands for the sum.  Two counters hold how much may still become true   *)
(* before the sum must reach its bound (w1) and false before it cannot     *)
(* (w2); a literal with a weight above a counter has its value determined, *)
(* and umax is the first one that was not looked at.                       *)
(***************************************************************************)
EXTENDS Assignment

VARIABLE sums            \* by sum: what follows

POS == 1
NEG == -1
Abs(k) == IF k < 0 THEN -k ELSE k
Lits(i) == prog.sum[i].lits
Weights(i) == prog.sum[i].weights
Ac(position) == IF position < 0 THEN POS ELSE NEG
PositionOf(i, l) == IF l \in ToSet(Lits(i)) THEN CHOOSE k \in DOMAIN Lits(i) : Lits(i)[k] = l
                    ELSE -(CHOOSE k \in DOMAIN Lits(i) : Lits(i)[k] = -l)
InSum(i, l) == l \in ToSet(Lits(i)) \/ -l \in ToSet(Lits(i))

(* updateBound and addLiteral: weights above the bound are cut, and the    *)
(* first weight is such that the literal of the sum is determined with the *)
(* value of the sum.                                                       *)
SumOf(id, weight, bound) ==
    LET cut == [l \in DOMAIN weight |-> Min({weight[l], bound})]
        sorted == SetToSortSeq(DOMAIN weight, LAMBDA l, m : cut[l] > cut[m] \/ (cut[l] = cut[m] /\ l < m))
        total == MapThenSumSet(LAMBDA l : cut[l], DOMAIN weight)
        w == Max({total - bound + 1, bound})
    IN  [lits |-> <<-id>> \o sorted, weights |-> <<w>> \o [k \in DOMAIN sorted |-> cut[sorted[k]]],
         w1 |-> bound - 1 + w, w2 |-> total - bound + w]
InitialSum(sum) ==
    [active |-> 0, w1 |-> sum.w1, w2 |-> sum.w2, umax |-> 1, trail |-> <<>>,
     watched |-> [k \in DOMAIN sum.lits |-> TRUE], unroll |-> 0, levels |-> {}]

(* The literal at umax is determined: it is assigned, or a conflict.       *)
Infer(i, ac, l, a, k) ==
    LET lit == IF ac = POS THEN -Lits(i)[k] ELSE Lits(i)[k]
        false == TrueOn(a.trail, -lit)
        s == IF ~a.sum.watched[k] THEN a.sum
             ELSE [a.sum EXCEPT !.active = ac, !.unroll = IF @ = 0 THEN l ELSE @,
                                !.trail = IF TrueOn(a.trail, lit) THEN @ ELSE Append(@, k * ac)]
    IN  IF a.conflict # 0 THEN a
        ELSE IF a.sum.watched[k] /\ false THEN [a EXCEPT !.sum = s, !.conflict = lit]
        ELSE [a EXCEPT !.sum = [s EXCEPT !.umax = k + 1],
                       !.trail = IF a.sum.watched[k] THEN AssignedOn(@, lit, level, {}, i) ELSE @]

(* onLiteralFalse at a position, negative if the literal there is true.    *)
(* The literals after umax have ever smaller weights.                      *)
OnFalse(i, a, l) ==
    LET position == PositionOf(i, l)
        k == Abs(position)
        ac == Ac(position)
        aggrLiteral == IF ac = POS THEN -Lits(i)[1] ELSE Lits(i)[1]
        counter == IF position > 0 THEN a.sum.w2 ELSE a.sum.w1
        left == counter - Weights(i)[k]
        s == [a.sum EXCEPT !.w1 = IF position < 0 THEN left ELSE @,
                           !.w2 = IF position > 0 THEN left ELSE @,
                           !.watched[k] = FALSE,
                           !.trail = IF LevelOf(l) # 0 THEN Append(@, position) ELSE @,
                           !.levels = @ \cup {level}]
        determined == Ascending({j \in s.umax .. Len(Lits(i)) : Weights(i)[j] > left})
    IN  IF TrueOn(a.trail, aggrLiteral) \/ a.sum.active + ac = 0 THEN a
        ELSE IF left < 0 THEN [a EXCEPT !.conflict = l]
        ELSE FoldLeft(LAMBDA b, j : Infer(i, ac, l, b, j), [a EXCEPT !.sum = s], determined)

-----------------------------------------------------------------------------
(* reset, with the trail t that is left: counters and marks of the         *)
(* positions taken off are restored, up to one with a value above level    *)
(* zero.                                                                   *)
Keeps(t, l) == \E e \in ToSet(t) : Variable(e.lit) = Variable(l) /\ e.level > 0
Defined(t, l) == \E e \in ToSet(t) : Variable(e.lit) = Variable(l)

(* Mutant: umax is not set back.                                           *)
RestoredFromUmax(i, s, t) ==
    LET n == Len(s.trail)
        kept == Max({0} \cup {j \in 1 .. n - 1 : Keeps(t, Lits(i)[Abs(s.trail[j])])})
        off == {s.trail[j] : j \in kept + 1 .. n}
        back == {p \in off : ~s.watched[Abs(p)]}
        lost == s.unroll # 0 /\ ~Defined(t, s.unroll)
        weight(P) == MapThenSumSet(LAMBDA p : Weights(i)[Abs(p)], P)
    IN  IF n = 0 \/ Keeps(t, Lits(i)[Abs(s.trail[n])]) THEN s
        ELSE [s EXCEPT !.active = IF lost THEN 0 ELSE @, !.unroll = IF lost THEN 0 ELSE @,
                       !.trail = SubSeq(@, 1, kept),
                       !.watched = [k \in DOMAIN @ |-> @[k] \/ k \in {Abs(p) : p \in off}],
                       !.w1 = @ + weight({p \in back : p < 0}), !.w2 = @ + weight({p \in back : p > 0})]
Restored(i, s, t) ==
    LET r == RestoredFromUmax(i, s, t)
    IN  IF r.trail = s.trail THEN s ELSE [r EXCEPT !.umax = 1]

(* Solver::unroll: a sum is reset if it moved on a level that is left.     *)
SumUnrolled(i, s, t, k) ==
    IF \E j \in s.levels : j > k THEN [Restored(i, s, t) EXCEPT !.levels = {j \in @ : j <= k}] ELSE s

(* Mutant: the literals of the other counter are taken as well.            *)
ReasonOfBoth(i, l) ==
    LET s == sums[i]
        before == SelectSeq(s.trail, LAMBDA p : ~s.watched[Abs(p)])
    IN  {IF s.active = POS THEN -Lits(i)[Abs(p)] ELSE Lits(i)[Abs(p)] : p \in ToSet(before)} \ {l, -l}

(* onLearning: the literals counted, up to the one in question.            *)
ReasonOf(i, l) ==
    LET s == sums[i]
        at(j) == Variable(Lits(i)[Abs(s.trail[j])])
        end == Min({Len(s.trail) + 1} \cup {j \in DOMAIN s.trail : at(j) = Variable(l)})
        used == {s.trail[j] : j \in {j \in 1 .. end : j <= Len(s.trail) /\ Ac(s.trail[j]) = s.active
                                                      /\ ~s.watched[Abs(s.trail[j])]}}
    IN  {IF s.active = POS THEN -Lits(i)[Abs(p)] ELSE Lits(i)[Abs(p)] : p \in used}
=============================================================================
