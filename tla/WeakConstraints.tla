-------------------------- MODULE WeakConstraints --------------------------
(***************************************************************************)
(* weakconstraints/: the optimum of the weak constraints, level by level.  *)
(* One, PMRes and K assume that no soft literal holds and relax the cores  *)
(* they get, which raises the lower bound; Opt and Mgd ask for a model     *)
(* that is cheaper than the last one, which lowers the upper bound.        *)
(***************************************************************************)
EXTENDS SolverOracle

VARIABLES level,         \* OptimizationProblemUtils, from the highest to 1
          soft,          \* optimizationLiterals of each level
          precomputed,   \* precomputedCosts of each level
          lb, ub,
          weight,        \* the stratum: lighter soft literals are not assumed yet
          shown          \* the answer set that was printed last

weak == <<level, soft, precomputed, lb, ub, weight>>
weakVars == <<solver, task, pc, assumptions, weak, shown>>

UINT64_MAX == 1000
NoModel == {0}
CoreGuided == algorithm.name \in {"one", "pmres", "k"}

SoftLiteral(l, w, aux) == [lit |-> l, weight |-> w, removed |-> FALSE, aux |-> aux]
Soft == soft[level]
Holding(M, s) == {i \in DOMAIN s : Holds(M, s[i].lit)}
Weigh(s, I) == MapThenSumSet(LAMBDA i : s[i].weight, I)
Remaining(s) == {i \in DOMAIN s : ~s[i].removed}
Original(s) == {i \in DOMAIN s : ~s[i].aux}
IsWeighted == \E i \in DOMAIN problem.soft[level] : problem.soft[level][i].weight > 1

(* sortOptimizationLiterals: heavier ones first, a stable sort.            *)
Sorted(s) ==
    LET heaviest == Max({0} \cup {s[i].weight : i \in DOMAIN s})
    IN  FlattenSeq([k \in 1..heaviest |-> SelectSeq(s, LAMBDA o : o.weight = heaviest + 1 - k)])

(* computeAssumptions, of all soft literals, of those of a stratum or of   *)
(* the first n.                                                            *)
AssumedFalse(s, I) == {-s[i].lit : i \in Remaining(s) \cap I}
Stratum(s, w) == {i \in DOMAIN s : s[i].weight >= w}

(* changeWeight: 0 once all soft literals are assumed.                     *)
Lighter(s, w, bound) ==
    Max({0} \cup {s[i].weight : i \in {j \in Remaining(s) : s[j].weight < w /\ s[j].weight <= bound}})

-----------------------------------------------------------------------------
(* The cores.  A core names the soft literals that are relaxed, in their   *)
(* order; the weight they have in excess of the least one stays.           *)
InCore(C, o) == ~o.removed /\ Variable(o.lit) \in Variables(C)
Relaxed(C) == SelectSeq(Soft, LAMBDA o : InCore(C, o))
MinWeight(C) == Min({o.weight : o \in ToSet(Relaxed(C))})
Marked(C) == [i \in DOMAIN Soft |-> IF InCore(C, Soft[i]) THEN [Soft[i] EXCEPT !.removed = TRUE] ELSE Soft[i]]
(* Mutant: what a heavier literal costs above the minimum is forgotten.    *)
NoExcess(C) == <<>>
Excess(C) ==
    LET heavier == SelectSeq(Relaxed(C), LAMBDA o : o.weight > MinWeight(C))
    IN  [i \in DOMAIN heavier |-> SoftLiteral(heavier[i].lit, heavier[i].weight - MinWeight(C), TRUE)]
NewSoft(lits, w) == [i \in DOMAIN lits |-> SoftLiteral(lits[i], w, TRUE)]

(* One: of n literals and n - 1 new variables no more than n hold.         *)
One(C) ==
    LET core == [i \in DOMAIN Relaxed(C) |-> Relaxed(C)[i].lit]
        n == Len(core)
        new == NewVariables(n - 1)
        trivial == \E i \in DOMAIN core : core[i] \in zero
    IN  [size |-> size + n - 1,
         models |-> {M \in Extended(n - 1) :
                       /\ \A v \in new \cap M : v - 1 \in new => v - 1 \in M
                       /\ n > 1 => Cardinality(TrueIn(M, ToSet(core))) + Cardinality(new \cap M) <= n
                       /\ trivial \/ Sat(M, ToSet(core))},
         soft |-> Marked(C) \o Excess(C) \o NewSoft([i \in 1..(n - 1) |-> -(size + i)], MinWeight(C)),
         cost |-> MinWeight(C)]

(* PMRes: d(i) says that one of the literals from i on holds, and the i-th *)
(* relaxing variable must hold if literal i and d(i + 1) do.  Literals of  *)
(* level zero only cost.                                                   *)
PMRes(C) ==
    LET open == SelectSeq(Relaxed(C), LAMBDA o : o.lit \notin zero /\ -o.lit \notin zero)
        core == [i \in DOMAIN open |-> open[i].lit]
        n == Len(core)
        chain == IF n > 2 THEN n - 2 ELSE 0
        relaxing == IF n > 1 THEN n - 1 ELSE 0
        d(i) == IF i = n THEN core[n] ELSE size + i - 1
        relax(i) == size + chain + i
    IN  [size |-> size + chain + relaxing,
         models |-> {M \in Extended(chain + relaxing) :
                       /\ \A i \in 1..(n - 1) : Holds(M, core[i]) /\ Holds(M, d(i + 1)) => relax(i) \in M
                       /\ \A i \in 2..(n - 1) : Holds(M, d(i)) <=> Sat(M, {core[i], d(i + 1)})
                       /\ n > 0 => Sat(M, ToSet(core))},
         soft |-> Marked(C) \o SelectSeq(Excess(C), LAMBDA o : o.lit \in ToSet(core))
                  \o NewSoft([i \in 1..relaxing |-> relax(i)], MinWeight(C)),
         cost |-> IF n > 0 THEN MinWeight(C) ELSE Weigh(Relaxed(C), DOMAIN Relaxed(C))]

(* K: thresholds 0 and 1 give one chunk to cores of up to five literals.   *)
CeilDiv(a, b) == (a + b - 1) \div b
ChunkSize(n) ==
    LET m == CeilDiv(2 * n, 2 * algorithm.threshold - 2)
    IN  IF algorithm.threshold < 2 THEN n ELSE CeilDiv(2 * n - 1 + 2 * (m - 1), 2 * m)

K(C) ==
    LET core == [i \in DOMAIN Relaxed(C) |-> Relaxed(C)[i].lit]
        r == Chunked([i \in DOMAIN core |-> -core[i]], ChunkSize(Len(core)))
        trivial == \E i \in DOMAIN core : core[i] \in zero
    IN  [size |-> r.size, cost |-> MinWeight(C),
         soft |-> Marked(C) \o Excess(C) \o NewSoft([i \in DOMAIN r.assumed |-> -r.assumed[i]], MinWeight(C)),
         models |-> {M \in r.models : trivial \/ Sat(M, ToSet(core))}]

-----------------------------------------------------------------------------
(* The listener: a model that is cheaper on this level is printed.         *)
ComputeCostOfModel(M) == precomputed[level] + Weigh(Soft, Original(Soft) \cap Holding(M, Soft))
(* Mutant: every model that is found is taken for a better one.            *)
AnyAnswerSet(M) == ub' = ComputeCostOfModel(M) /\ shown' = M \cap 1..problem.size
FoundAnswerSet(M) ==
    /\ ub' = IF ComputeCostOfModel(M) < ub THEN ComputeCostOfModel(M) ELSE ub
    /\ shown' = IF ComputeCostOfModel(M) < ub THEN M \cap 1..problem.size ELSE shown

WeakInit ==
    /\ level = Len(problem.soft)
    /\ soft = [k \in DOMAIN problem.soft |->
                 [i \in DOMAIN problem.soft[k] |->
                    SoftLiteral(problem.soft[k][i].lit, problem.soft[k][i].weight, FALSE)]]
    /\ precomputed = [k \in DOMAIN problem.soft |-> 0]
    /\ lb = 0 /\ ub = UINT64_MAX
    /\ weight = UINT64_MAX

(* Literals whose level matters: those of the soft literals.               *)
SoftLiterals == UNION {{soft[k][i].lit : i \in DOMAIN soft[k]} : k \in DOMAIN soft}

(* simplifyOptimizationLiterals: what holds at level zero is paid already. *)
StartLevel ==
    /\ pc = "level" /\ level > 0
    /\ LET paid == {i \in DOMAIN Soft : Soft[i].lit \in zero}
           left == SelectSeq(Soft, LAMBDA o : o.lit \notin zero)
       IN  /\ soft' = [soft EXCEPT ![level] = Sorted(left)]
           /\ precomputed' = [precomputed EXCEPT ![level] = Weigh(Soft, paid)]
           /\ lb' = Weigh(Soft, paid)
           /\ ub' = UINT64_MAX
           /\ IF algorithm.name = "opt"
              THEN /\ models' = Extended(1) /\ size' = size + 1
                   /\ Call({-(size + 1)}, "opt")
              ELSE /\ UNCHANGED <<models, size>>
                   /\ CASE algorithm.name = "mgd" -> Call({}, "mgd")
                        [] CoreGuided /\ algorithm.disjoint ->
                             Call(AssumedFalse(left, DOMAIN left), "disjoint")
                        [] OTHER -> Call({}, "run")
    /\ UNCHANGED <<zero, task, level, weight, shown>>

(* One::run, PMRes::run, K::run.                                           *)
Run ==
    /\ pc = "run"
    /\ IF ub = lb /\ algorithm.name # "pmres"
       THEN Call({}, "hardening") /\ UNCHANGED weight
       ELSE IF algorithm.stratified /\ IsWeighted
       THEN /\ weight' = Lighter(Soft, weight, ub)
            /\ Call(AssumedFalse(Soft, Stratum(Soft, weight')), "weighted")
       ELSE Call(AssumedFalse(Soft, DOMAIN Soft), "unweighted") /\ UNCHANGED weight
    /\ UNCHANGED <<solver, task, level, soft, precomputed, lb, ub, shown>>

(* A model without the assumed soft literals: the next stratum, if any.    *)
CoreGuidedModel ==
    /\ pc \in {"disjoint", "unweighted", "weighted"}
    /\ \E M \in models : FoundModel(assumptions, M) /\ FoundAnswerSet(M)
    /\ zero' \in Learned(SoftLiterals)
    /\ CASE pc = "disjoint" -> Call({}, "run") /\ UNCHANGED weight
         [] pc = "unweighted" -> Call({}, "hardening") /\ UNCHANGED weight
         [] pc = "weighted" ->
              /\ weight' = Lighter(Soft, weight, ub')
              /\ IF weight' = 0 \/ lb = ub' THEN Call({}, "hardening")
                 ELSE Call(AssumedFalse(Soft, Stratum(Soft, weight')), "weighted")
    /\ UNCHANGED <<models, size, task, level, soft, precomputed, lb>>

Relaxation(C) ==
    CASE algorithm.name = "one" -> One(C)
      [] algorithm.name = "pmres" -> PMRes(C)
      [] algorithm.name = "k" -> K(C)

(* foundUnsat.                                                             *)
FoundUnsat ==
    /\ pc \in {"disjoint", "unweighted", "weighted"}
    /\ \E known \in Learned(SoftLiterals) : \E C \in Cores(assumptions, known) :
         /\ zero' = Settled(C, known)
         /\ IF C = {} THEN Call({}, "incoherent") /\ UNCHANGED <<models, size, soft, lb>>
            ELSE LET r == Relaxation(C)
                     s == Sorted(r.soft)
                 IN  /\ models' = r.models /\ size' = r.size
                     /\ soft' = [soft EXCEPT ![level] = s]
                     /\ lb' = lb + r.cost
                     /\ CASE pc = "disjoint" ->
                               Call(AssumedFalse(s, 1..Cardinality(Original(Soft))), "disjoint")
                          [] pc = "unweighted" -> Call(AssumedFalse(s, DOMAIN s), "unweighted")
                          [] pc = "weighted" /\ lb' = ub -> Call({}, "hardening")
                          [] OTHER -> Call(AssumedFalse(s, Stratum(s, weight)), "weighted")
    /\ UNCHANGED <<task, level, precomputed, ub, weight, shown>>

-----------------------------------------------------------------------------
(* Opt::basic: the sum of the soft literals must be below the cost of the  *)
(* last model as long as the assumed variable is false.                    *)
Sum(M) == Weigh(Soft, Holding(M, Soft))
Bounded(b) == {M \in models : HoldsAll(M, assumptions) => Sum(M) < b}

OptModel ==
    /\ pc = "opt"
    /\ \E M \in models :
         /\ FoundModel(assumptions, M) /\ FoundAnswerSet(M)
         /\ IF precomputed[level] >= ComputeCostOfModel(M)
            THEN pc' = "completed" /\ UNCHANGED models
            ELSE models' = Bounded(ComputeCostOfModel(M) - precomputed[level]) /\ UNCHANGED pc
    /\ zero' \in Learned(SoftLiterals)
    /\ UNCHANGED <<size, task, assumptions, level, soft, precomputed, lb, weight>>

(* Mgd::run: the new variable says that those soft literals that held in   *)
(* some model so far cost as much as the best model.                       *)
MgdModel ==
    /\ pc = "mgd"
    /\ \E M \in models :
         /\ FoundModel(assumptions, M) /\ FoundAnswerSet(M)
         /\ zero' \in Learned(SoftLiterals)
         /\ LET fixed == {i \in DOMAIN Soft : Soft[i].lit \in zero' \/ -Soft[i].lit \in zero'}
                cost == ub' - precomputed[level] - Weigh(Soft, fixed \cap Holding(M, Soft))
                summed == {i \in DOMAIN Soft \ fixed : Soft[i].removed \/ i \in Holding(M, Soft)}
            IN  \/ /\ ub' = precomputed[level] \/ models = {M}
                   /\ pc' = "completed"
                   /\ UNCHANGED <<models, size, soft, assumptions>>
                \/ /\ ub' # precomputed[level]
                   /\ soft' = [soft EXCEPT ![level] =
                                 [i \in DOMAIN Soft |-> [Soft[i] EXCEPT !.removed = @ \/ i \in summed]]]
                   /\ size' = size + 1
                   /\ models' = {N \cup {v \in {size + 1} : Weigh(Soft, summed \cap Holding(N, Soft)) >= cost} :
                                   N \in models}
                   /\ assumptions' = assumptions \cup {-(size + 1)}
                   /\ UNCHANGED pc
    /\ UNCHANGED <<task, level, precomputed, lb, weight>>

NoCheaperModel ==
    /\ pc \in {"opt", "mgd"}
    /\ Cores(assumptions, zero) # {}
    /\ zero' \in Learned(SoftLiterals)
    /\ pc' = "completed"
    /\ UNCHANGED <<models, size, task, assumptions, weak, shown>>

(* Opt::completedLevel, the end of Mgd::run: no model that costs more.     *)
CompletedLevel ==
    /\ pc = "completed"
    /\ LET cheap == {M \in models : Sum(M) < ub - precomputed[level] + 1}
       IN  /\ models' = IF ub = UINT64_MAX THEN models ELSE cheap
           /\ CASE ub = UINT64_MAX -> Call({}, "incoherent")
                [] ub # UINT64_MAX /\ cheap = {} /\ algorithm.name = "opt" -> Call({}, "done")
                [] OTHER -> Call({}, "hardening")
    /\ UNCHANGED <<size, zero, task, weak, shown>>

(* hardening: the literals that no optimal model can afford.               *)
(* Mutant: those as well that it can just afford.                          *)
DearOrEqual == {Soft[i].lit : i \in {j \in Remaining(Soft) : lb + Soft[j].weight >= ub}}
Dear == {Soft[i].lit : i \in {j \in Remaining(Soft) : lb + Soft[j].weight > ub}}

(* They are false from now on; then the next level.                        *)
Hardening ==
    /\ pc = "hardening"
    /\ models' = {M \in models : HoldsAll(M, Opposite(Dear))}
    /\ zero' = zero \cup {l \in Opposite(Dear) : -l \notin zero}
    /\ IF Dear \cap zero = {}
       THEN /\ level' = level - 1
            /\ Call({}, IF level = 1 THEN "done" ELSE "level")
       ELSE UNCHANGED level /\ Call({}, "done")
    /\ UNCHANGED <<size, task, soft, precomputed, lb, ub, weight, shown>>

WeakNext ==
    \/ StartLevel \/ Run \/ CoreGuidedModel \/ FoundUnsat \/ OptModel \/ MgdModel
    \/ NoCheaperModel \/ CompletedLevel \/ Hardening

-----------------------------------------------------------------------------
(* What is to be computed: the models that are best on the highest level,  *)
(* among these those that are best on the next one, and so on.             *)
Levels == DOMAIN problem.soft
CostOn(k, M) == Weigh(problem.soft[k], Holding(M, problem.soft[k]))
Cheapest(k, S) == {M \in S : \A N \in S : CostOn(k, M) <= CostOn(k, N)}
Optimal(k) ==
    LET best[n \in 0 .. Len(problem.soft)] ==
            IF n = 0 THEN problem.models ELSE Cheapest(Len(problem.soft) + 1 - n, best[n - 1])
    IN  best[Len(problem.soft) + 1 - k]

Projection(M) == M \cap 1..problem.size
Projections == {Projection(M) : M \in models}
Solving == pc \in {"disjoint", "run", "unweighted", "weighted"}

(* Relaxing a core preserves every cost: what a model costs is the lower   *)
(* bound and what the remaining soft literals cost in its best extension   *)
(* by the new variables, and no model of the level is lost.                *)
CostPreserved ==
    Solving =>
      /\ Projections = Optimal(level + 1)
      /\ \A N \in Projections :
           CostOn(level, N) =
             lb + Min({Weigh(Soft, Remaining(Soft) \cap Holding(M, Soft)) : M \in {K1 \in models : Projection(K1) = N}})

(* The upper bound is the cost of the answer set shown last, which is kept *)
(* within the best ones of the levels above; the optimum is between the    *)
(* bounds.                                                                 *)
OptimumEnclosed ==
    ub # UINT64_MAX /\ pc \in {"opt", "mgd", "completed", "hardening", "unweighted", "weighted"} =>
      /\ shown \in Optimal(level + 1) /\ CostOn(level, shown) = ub
      /\ \A M \in Optimal(level) : lb <= CostOn(level, M) /\ CostOn(level, M) <= ub

(* A level leaves exactly its optimal models to the next one, whatever the *)
(* bounds, the stratum and the removed literals were; and each of them     *)
(* once, so that none is printed twice, unless Opt left its free variable; *)
(* the answer set printed last is then optimal on all levels.              *)
LevelClosed ==
    problem.soft # <<>> /\ (pc = "level" \/ (pc = "done" /\ level = 0)) =>
      /\ Projections = Optimal(level + 1)
      /\ algorithm.name # "opt" => Cardinality(models) = Cardinality(Projections)
      /\ pc = "done" => shown \in Optimal(1)
=============================================================================
