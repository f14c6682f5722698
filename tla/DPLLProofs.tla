----------------------------- MODULE DPLLProofs -----------------------------
(***************************************************************************)
(* The procedure DLL is sound and complete for every set of variables and  *)
(* every set of clauses, although values written on failed branches stay   *)
(* in literalMap.                                                          *)
(***************************************************************************)
EXTENDS ListDPLL, SequenceTheorems, WellFoundedInduction, TLAPS

(* Any interpretation that makes the literals of T true and satisfies C    *)
(* satisfies I, the clauses of the first call.                             *)
Justified(I, C, T) ==
    \A M \in SUBSET Var :
        (\A l \in T : Holds(M, l)) /\ Models(M, C) => Models(M, I)

(* No variable of C was propagated on the branch T.                        *)
Fresh(C, T) == \A c \in C : \A l \in c : l \notin T /\ -l \notin T

(* The map f still has the values of the branch T.                         *)
Agrees(f, T) == \A l \in T : Holds(TrueIn(f), l)

Branch(I, f, C, T) == Justified(I, C, T) /\ Fresh(C, T) /\ Agrees(f, T)

(* The branches still to explore continue prefixes of the current one.     *)
Nested ==
    /\ \A i \in 1 .. Len(stack) : stack[i].trail \subseteq trail
    /\ \A i, j \in 1 .. Len(stack) :
           i <= j => stack[j].trail \subseteq stack[i].trail

(* Every model of the input is still in reach.                             *)
Covered ==
    \A M \in SUBSET Var :
        Models(M, input) =>
            \/ Models(M, clauses)
            \/ \E i \in 1 .. Len(stack) : Models(M, stack[i].clauses)

RespectsFalse(N, T) == \A l \in T : l < 0 => Holds(N, l)
RespectsUnits(N, C) == \A l \in Literal : (l < 0 /\ {l} \in C) => Holds(N, l)

(* A model of the input that makes false what the branch decided to make   *)
(* false agrees with the rest of the branch: what the branch makes true is *)
(* forced.                                                                 *)
Forced ==
    verdict \in {"searching", "sat"} =>
        \A N \in SUBSET Var :
            /\ Models(N, input)
            /\ RespectsFalse(N, trail)
            /\ RespectsUnits(N, clauses)
            => /\ \A l \in trail : Holds(N, l)
               /\ Models(N, clauses)

(* The same for the branches that wait, unless a branch that is searched   *)
(* before them has the model.                                              *)
PendingForced ==
    \A i \in 1 .. Len(stack) : \A N \in SUBSET Var :
        /\ Models(N, input)
        /\ RespectsFalse(N, stack[i].trail)
        /\ RespectsUnits(N, stack[i].clauses)
        => /\ \A l \in stack[i].trail : Holds(N, l)
           /\ \/ Models(N, stack[i].clauses)
              \/ Models(N, clauses)
              \/ \E j \in 1 .. i - 1 : Models(N, stack[j].clauses)

(* The inductive invariant.                                                *)
IInv ==
    /\ TypeOK
    /\ Branch(input, literalMap, clauses, trail)
    /\ \A i \in 1 .. Len(stack) :
           Branch(input, literalMap, stack[i].clauses, stack[i].trail)
    /\ Nested
    /\ Covered
    /\ verdict = "sat" => clauses = {}
    /\ verdict \in {"failed", "unsat"} => Contradictory(clauses)
    /\ verdict = "unsat" => stack = <<>>
-----------------------------------------------------------------------------
LEMMA LiteralSigns ==
    ASSUME NEW l \in Literal
    PROVE  /\ l \in Int /\ l # 0 /\ -l \in Literal /\ -(-l) = l /\ -l # l
           /\ l > 0 => l \in Var
           /\ ~(l > 0) => -l \in Var
BY VarAssumption DEF Literal

LEMMA HoldsNegation ==
    ASSUME NEW l \in Literal, NEW M
    PROVE  Holds(M, -l) <=> ~Holds(M, l)
BY LiteralSigns DEF Holds

(* What an assignment does to the models.                                  *)
LEMMA AssignModels ==
    ASSUME NEW C \in SUBSET SUBSET Literal, NEW l \in Literal, NEW M,
           Holds(M, l)
    PROVE  Models(M, Assign(l, C)) <=> Models(M, C)
<1>1. ASSUME Models(M, C), NEW d \in C, l \notin d
      PROVE  \E k \in d \ {-l} : Holds(M, k)
    <2>1. PICK k \in d : Holds(M, k)
        BY <1>1 DEF Models
    <2>2. k # -l
        BY <2>1, HoldsNegation
    <2> QED BY <2>1, <2>2
<1>2. ASSUME Models(M, Assign(l, C)), NEW d \in C
      PROVE  \E k \in d : Holds(M, k)
    <2>1. CASE l \in d
        BY <2>1
    <2>2. CASE l \notin d
        <3>1. d \ {-l} \in Assign(l, C)
            BY <2>2 DEF Assign
        <3> QED BY <1>2, <3>1 DEF Models
    <2> QED BY <2>1, <2>2
<1>3. Models(M, C) => Models(M, Assign(l, C))
    BY <1>1 DEF Models, Assign
<1>4. Models(M, Assign(l, C)) => Models(M, C)
    BY <1>2 DEF Models
<1> QED BY <1>3, <1>4

LEMMA ContradictoryHasNoModel ==
    ASSUME NEW C \in SUBSET SUBSET Literal, Contradictory(C), NEW M
    PROVE  ~Models(M, C)
<1>1. CASE {} \in C
    BY <1>1 DEF Models
<1>2. CASE \E l \in Literal : {l} \in C /\ {-l} \in C
    <2>1. PICK l \in Literal : {l} \in C /\ {-l} \in C
        BY <1>2
    <2>2. ~(Holds(M, l) /\ Holds(M, -l))
        BY HoldsNegation
    <2> QED BY <2>1, <2>2 DEF Models
<1> QED BY <1>1, <1>2 DEF Contradictory

(* Writing the value of l makes l hold and disturbs no other variable.     *)
LEMMA PutHolds ==
    ASSUME TypeOK, NEW l \in Literal
    PROVE  /\ Put(l) \in [Var -> {"true", "false", "unset"}]
           /\ Holds(TrueIn(Put(l)), l)
           /\ \A k \in Literal : k # l /\ k # -l =>
                 (Holds(TrueIn(Put(l)), k) <=> Holds(TrueIn(literalMap), k))
<1>1. CASE l > 0
    <2>1. l \in Var
        BY <1>1, LiteralSigns
    <2>2. Put(l) = [literalMap EXCEPT ![l] = "true"]
        BY <1>1 DEF Put
    <2>3. TrueIn(Put(l)) = TrueIn(literalMap) \cup {l}
        BY <2>1, <2>2 DEF TypeOK, TrueIn
    <2>4. Holds(TrueIn(Put(l)), l)
        BY <1>1, <2>3 DEF Holds
    <2>5. ASSUME NEW k \in Literal, k # l, k # -l
          PROVE  Holds(TrueIn(Put(l)), k) <=> Holds(TrueIn(literalMap), k)
        <3>1. k # l /\ -k # l
            BY <2>5, LiteralSigns
        <3> QED BY <2>3, <3>1 DEF Holds
    <2> QED BY <2>1, <2>2, <2>4, <2>5 DEF TypeOK
<1>2. CASE ~(l > 0)
    <2>1. -l \in Var
        BY <1>2, LiteralSigns
    <2>2. Put(l) = [literalMap EXCEPT ![-l] = "false"]
        BY <1>2 DEF Put
    <2>3. TrueIn(Put(l)) = TrueIn(literalMap) \ {-l}
        BY <2>1, <2>2 DEF TypeOK, TrueIn
    <2>4. Holds(TrueIn(Put(l)), l)
        BY <1>2, <2>3 DEF Holds
    <2>5. ASSUME NEW k \in Literal, k # l, k # -l
          PROVE  Holds(TrueIn(Put(l)), k) <=> Holds(TrueIn(literalMap), k)
        <3>1. k # -l /\ -k # -l
            BY <2>5, LiteralSigns
        <3> QED BY <2>3, <3>1 DEF Holds
    <2> QED BY <2>1, <2>2, <2>4, <2>5 DEF TypeOK
<1> QED BY <1>1, <1>2

LEMMA PutAgrees ==
    ASSUME TypeOK, NEW l \in Literal,
           NEW T \in SUBSET Literal, Agrees(literalMap, T), l \notin T, -l \notin T
    PROVE  Agrees(Put(l), T) /\ Agrees(Put(l), T \cup {l})
<1>1. ASSUME NEW k \in T PROVE Holds(TrueIn(Put(l)), k)
    <2>1. k \in Literal /\ k # l /\ k # -l /\ Holds(TrueIn(literalMap), k)
        BY DEF Agrees
    <2> QED BY <2>1, PutHolds
<1> QED BY <1>1, PutHolds DEF Agrees

(* A branch survives the addition of the unit clause of one of its own     *)
(* variables.                                                              *)
LEMMA BranchWithUnit ==
    ASSUME NEW I, NEW f, NEW C \in SUBSET SUBSET Literal, NEW T \in SUBSET Literal,
           Branch(I, f, C, T), NEW c \in C, NEW k \in Literal, k \in c \/ -k \in c
    PROVE  Branch(I, f, C \cup {{k}}, T)
<1>1. Justified(I, C \cup {{k}}, T)
    BY DEF Branch, Justified, Models
<1>2. k \notin T /\ -k \notin T
    BY LiteralSigns DEF Branch, Fresh
<1>3. Fresh(C \cup {{k}}, T)
    BY <1>2 DEF Branch, Fresh
<1> QED BY <1>1, <1>3 DEF Branch
-----------------------------------------------------------------------------
LEMMA InitIInv == Init => IInv
<1> SUFFICES ASSUME Init PROVE IInv
    OBVIOUS
<1>1. TypeOK
    BY DEF Init, TypeOK
<1>2. Branch(input, literalMap, clauses, trail)
    BY DEF Init, Branch, Justified, Fresh, Agrees
<1>3. Len(stack) = 0
    BY DEF Init
<1>4. Nested /\ Covered
    BY <1>3 DEF Init, Nested, Covered
<1> QED BY <1>1, <1>2, <1>3, <1>4 DEF IInv, Init

LEMMA PropagateIInv ==
    ASSUME IInv, NEW l \in Literal, Propagate(l)
    PROVE  IInv'
<1>1. /\ clauses \in SUBSET SUBSET Literal /\ trail \in SUBSET Literal
      /\ {l} \in clauses /\ clauses' = Assign(l, clauses)
      /\ trail' = trail \cup {l} /\ literalMap' = Put(l)
      /\ input' = input /\ stack' = stack
    BY DEF IInv, TypeOK, Propagate
<1>2. l \notin trail /\ -l \notin trail
    BY <1>1 DEF IInv, Branch, Fresh
<1>3. TypeOK'
    <2>1. clauses' \in SUBSET SUBSET Literal
        BY <1>1 DEF Assign
    <2> QED BY <1>1, <2>1, PutHolds DEF IInv, TypeOK, Propagate
<1>4. Branch(input', literalMap', clauses', trail')
    <2>1. Justified(input, clauses', trail')
        <3> SUFFICES ASSUME NEW M \in SUBSET Var,
                            \A k \in trail' : Holds(M, k), Models(M, clauses')
                     PROVE  Models(M, input)
            BY DEF Justified
        <3>1. Holds(M, l) /\ \A k \in trail : Holds(M, k)
            BY <1>1
        <3>2. Models(M, clauses)
            BY <1>1, <3>1, AssignModels
        <3> QED BY <3>1, <3>2 DEF IInv, Branch, Justified
    <2>2. Fresh(clauses', trail')
        <3> SUFFICES ASSUME NEW c \in clauses', NEW k \in c
                     PROVE  k \notin trail' /\ -k \notin trail'
            BY DEF Fresh
        <3>1. PICK d \in clauses : c = d \ {-l} /\ l \notin d
            BY <1>1 DEF Assign
        <3>2. k \in d /\ k # l /\ k # -l /\ k \in Literal
            BY <1>1, <3>1
        <3>3. k \notin trail /\ -k \notin trail
            BY <3>1, <3>2 DEF IInv, Branch, Fresh
        <3>4. -k # l
            BY <3>2, LiteralSigns
        <3> QED BY <1>1, <3>2, <3>3, <3>4
    <2>3. Agrees(literalMap', trail')
        BY <1>1, <1>2, PutAgrees DEF IInv, Branch
    <2> QED BY <1>1, <2>1, <2>2, <2>3 DEF Branch
<1>5. ASSUME NEW i \in 1 .. Len(stack)
      PROVE  Branch(input', literalMap', stack'[i].clauses, stack'[i].trail)
    <2>1. /\ stack[i].trail \in SUBSET Literal /\ stack[i].trail \subseteq trail
          /\ Branch(input, literalMap, stack[i].clauses, stack[i].trail)
        BY <1>1 DEF IInv, Nested
    <2>2. l \notin stack[i].trail /\ -l \notin stack[i].trail
        BY <1>2, <2>1
    <2>3. Agrees(literalMap', stack[i].trail)
        BY <1>1, <2>1, <2>2, PutAgrees DEF IInv, Branch
    <2> QED BY <1>1, <2>1, <2>3 DEF Branch
<1>6. Nested'
    BY <1>1 DEF IInv, Nested
<1>7. Covered'
    <2> SUFFICES ASSUME NEW M \in SUBSET Var, Models(M, input), Models(M, clauses)
                 PROVE  Models(M, clauses')
        BY <1>1 DEF IInv, Covered
    <2>1. Holds(M, l)
        BY <1>1 DEF Models
    <2> QED BY <1>1, <2>1, AssignModels
<1> QED BY <1>1, <1>3, <1>4, <1>5, <1>6, <1>7 DEF IInv, Propagate

LEMMA SplitIInv ==
    ASSUME IInv, NEW v \in Var, Split(v)
    PROVE  IInv'
<1> DEFINE top == [clauses |-> clauses \cup {{v}}, trail |-> trail]
<1>1. /\ clauses \in SUBSET SUBSET Literal /\ trail \in SUBSET Literal
      /\ stack \in Seq(Alternative)
      /\ clauses' = clauses \cup {{-v}} /\ stack' = <<top>> \o stack
      /\ UNCHANGED <<input, literalMap, trail, verdict>>
      /\ verdict = "searching"
    BY DEF IInv, TypeOK, Split
<1>2. /\ v \in Literal /\ -v \in Literal /\ -(-v) = v
    BY VarAssumption DEF Literal
<1>3. top \in Alternative
    BY <1>1, <1>2 DEF Alternative
<1>4. /\ stack' \in Seq(Alternative)
      /\ Len(stack') = Len(stack) + 1
      /\ stack'[1] = top
      /\ \A i \in 2 .. Len(stack') : stack'[i] = stack[i - 1] /\ i - 1 \in 1 .. Len(stack)
      /\ \A i \in 1 .. Len(stack) : stack'[i + 1] = stack[i] /\ i + 1 \in 1 .. Len(stack')
    BY <1>1, <1>3
<1> HIDE DEF top
<1>5. TypeOK'
    BY <1>1, <1>2, <1>4 DEF IInv, TypeOK
<1>6. PICK c \in clauses : v \in c \/ -v \in c
    BY DEF Split
<1>7. Branch(input', literalMap', clauses', trail')
    <2>1. Branch(input, literalMap, clauses, trail)
        BY DEF IInv
    <2>2. -v \in c \/ -(-v) \in c
        BY <1>2, <1>6
    <2>3. Branch(input, literalMap, clauses \cup {{-v}}, trail)
        BY <1>1, <1>2, <2>1, <2>2, BranchWithUnit
    <2> QED BY <1>1, <2>3
<1>8. Branch(input', literalMap', top.clauses, top.trail)
    BY <1>1, <1>2, <1>6, BranchWithUnit DEF IInv, top
<1>9. ASSUME NEW i \in 1 .. Len(stack')
      PROVE  Branch(input', literalMap', stack'[i].clauses, stack'[i].trail)
    <2>1. CASE i = 1
        BY <1>4, <1>8, <2>1
    <2>2. CASE i # 1
        BY <1>1, <1>4, <2>2 DEF IInv
    <2> QED BY <2>1, <2>2
<1>10. Nested'
    <2>1. top.trail = trail
        BY DEF top
    <2>2. \A i \in 1 .. Len(stack') : stack'[i].trail \subseteq trail'
        BY <1>1, <1>4, <2>1 DEF IInv, Nested
    <2>3. ASSUME NEW i \in 1 .. Len(stack'), NEW j \in 1 .. Len(stack'), i <= j
          PROVE  stack'[j].trail \subseteq stack'[i].trail
        <3>1. CASE i = 1
            BY <1>1, <1>4, <2>1, <2>2, <3>1
        <3>2. CASE i # 1
            <4>1. i \in 2 .. Len(stack') /\ j \in 2 .. Len(stack') /\ i - 1 <= j - 1
                BY <2>3, <3>2
            <4> QED BY <1>4, <4>1 DEF IInv, Nested
        <3> QED BY <3>1, <3>2
    <2> QED BY <2>2, <2>3 DEF Nested
<1>11. Covered'
    <2> SUFFICES ASSUME NEW M \in SUBSET Var, Models(M, input)
                 PROVE  \/ Models(M, clauses')
                        \/ \E i \in 1 .. Len(stack') : Models(M, stack'[i].clauses)
        BY <1>1 DEF Covered
    <2>1. CASE Models(M, clauses)
        <3>1. Holds(M, v) \/ Holds(M, -v)
            BY <1>2, HoldsNegation
        <3>2. Models(M, clauses') \/ Models(M, top.clauses)
            BY <1>1, <2>1, <3>1 DEF Models, top
        <3> QED BY <1>4, <3>2
    <2>2. CASE \E i \in 1 .. Len(stack) : Models(M, stack[i].clauses)
        BY <1>4, <2>2
    <2> QED BY <2>1, <2>2 DEF IInv, Covered
<1> QED BY <1>1, <1>5, <1>7, <1>9, <1>10, <1>11 DEF IInv

LEMMA BacktrackIInv ==
    ASSUME IInv, Backtrack
    PROVE  IInv'
<1>1. /\ stack \in Seq(Alternative) /\ stack # <<>>
      /\ clauses' = Head(stack).clauses /\ trail' = Head(stack).trail
      /\ stack' = Tail(stack) /\ verdict = "failed" /\ verdict' = "searching"
      /\ UNCHANGED <<input, literalMap>>
    BY DEF IInv, TypeOK, Backtrack
<1>2. /\ 1 \in 1 .. Len(stack) /\ Head(stack) = stack[1] /\ stack[1] \in Alternative
      /\ stack' \in Seq(Alternative) /\ Len(stack') = Len(stack) - 1
      /\ \A i \in 1 .. Len(stack') : stack'[i] = stack[i + 1] /\ i + 1 \in 1 .. Len(stack)
      /\ \A i \in 2 .. Len(stack) : stack'[i - 1] = stack[i] /\ i - 1 \in 1 .. Len(stack')
    BY <1>1
<1>3. TypeOK'
    BY <1>1, <1>2 DEF IInv, TypeOK, Alternative
<1>4. Branch(input', literalMap', clauses', trail')
    BY <1>1, <1>2 DEF IInv
<1>5. \A i \in 1 .. Len(stack') :
         Branch(input', literalMap', stack'[i].clauses, stack'[i].trail)
    BY <1>1, <1>2 DEF IInv
<1>6. Nested'
    <2>1. \A i \in 1 .. Len(stack') : stack'[i].trail \subseteq trail'
        BY <1>1, <1>2 DEF IInv, Nested
    <2>2. \A i, j \in 1 .. Len(stack') : i <= j => stack'[j].trail \subseteq stack'[i].trail
        BY <1>1, <1>2 DEF IInv, Nested
    <2> QED BY <2>1, <2>2 DEF Nested
<1>7. Covered'
    <2> SUFFICES ASSUME NEW M \in SUBSET Var, Models(M, input)
                 PROVE  \/ Models(M, clauses')
                        \/ \E i \in 1 .. Len(stack') : Models(M, stack'[i].clauses)
        BY <1>1 DEF Covered
    <2>1. ~Models(M, clauses)
        BY <1>1, ContradictoryHasNoModel DEF IInv, TypeOK
    <2>2. PICK i \in 1 .. Len(stack) : Models(M, stack[i].clauses)
        BY <2>1 DEF IInv, Covered
    <2>3. CASE i = 1
        BY <1>1, <1>2, <2>2, <2>3
    <2>4. CASE i # 1
        BY <1>2, <2>2, <2>4
    <2> QED BY <2>3, <2>4
<1> QED BY <1>1, <1>3, <1>4, <1>5, <1>6, <1>7 DEF IInv
-----------------------------------------------------------------------------
LEMMA StepIInv == IInv /\ [Next]_dpVars => IInv'
<1> SUFFICES ASSUME IInv, [Next]_dpVars PROVE IInv'
    OBVIOUS
<1>1. CASE NoClauses
    BY <1>1 DEF IInv, TypeOK, NoClauses, Nested, Covered
<1>2. ASSUME NEW l \in Literal, Propagate(l) PROVE IInv'
    BY <1>2, PropagateIInv
<1>3. ASSUME NEW v \in Var, Split(v) PROVE IInv'
    BY <1>3, SplitIInv
<1>4. CASE Backtrack
    BY <1>4, BacktrackIInv
<1>5. CASE Unsatisfiable
    BY <1>5 DEF IInv, TypeOK, Unsatisfiable, Nested, Covered, Contradictory
<1>6. CASE UNCHANGED dpVars
    BY <1>6 DEF IInv, TypeOK, dpVars, Nested, Covered, Contradictory
<1> QED BY <1>1, <1>2, <1>3, <1>4, <1>5, <1>6 DEF Next

(* The inductive invariant holds in every reachable state.                 *)
THEOREM Invariance == Spec => []IInv
BY InitIInv, StepIInv, PTL DEF Spec

(* The variables of the search keep their types.                           *)
THEOREM TypeCorrect == Spec => []TypeOK
<1>1. IInv => TypeOK
    BY DEF IInv
<1> QED BY <1>1, Invariance, PTL

LEMMA SoundBranch == IInv => Sound
<1> SUFFICES ASSUME IInv, verdict = "sat" PROVE Models(TrueVars, input)
    BY DEF Sound
<1>1. Models(TrueVars, clauses)
    BY DEF IInv, Models
<1>2. TrueVars \in SUBSET Var
    BY DEF TrueVars, TrueIn
<1>3. \A l \in trail : Holds(TrueVars, l)
    BY DEF IInv, Branch, Agrees, TrueVars
<1> QED BY <1>1, <1>2, <1>3 DEF IInv, Branch, Justified

(* DLL returns true only with a model in literalMap.                       *)
THEOREM Soundness == Spec => []Sound
BY SoundBranch, Invariance, PTL

(* DLL returns false only when the clauses have no model.                  *)
THEOREM Completeness == Spec => []Complete
<1>1. IInv => Complete
    <2> SUFFICES ASSUME IInv, verdict = "unsat", NEW M \in SUBSET Var
                 PROVE  ~Models(M, input)
        BY DEF Complete
    <2>1. ~Models(M, clauses)
        BY ContradictoryHasNoModel DEF IInv, TypeOK
    <2>2. Len(stack) = 0
        BY DEF IInv
    <2> QED BY <2>1, <2>2 DEF IInv, Covered
<1> QED BY <1>1, Invariance, PTL
-----------------------------------------------------------------------------
(* The strengthening that minimality needs.                                *)
MInv == IInv /\ Forced /\ PendingForced

LEMMA InitMInv == Init => MInv
<1> SUFFICES ASSUME Init PROVE MInv
    OBVIOUS
<1>1. Len(stack) = 0
    BY DEF Init
<1>2. Forced /\ PendingForced
    BY <1>1 DEF Init, Forced, PendingForced
<1> QED BY <1>2, InitIInv DEF MInv

LEMMA PropagateForced ==
    ASSUME MInv, NEW l \in Literal, Propagate(l)
    PROVE  Forced' /\ PendingForced'
<1>1. /\ clauses \in SUBSET SUBSET Literal
      /\ {l} \in clauses /\ clauses' = Assign(l, clauses)
      /\ trail' = trail \cup {l} /\ verdict = "searching"
      /\ input' = input /\ stack' = stack
    BY DEF MInv, IInv, TypeOK, Propagate
<1>2. ASSUME NEW N, Models(N, clauses) PROVE Holds(N, l) /\ Models(N, clauses')
    <2>1. Holds(N, l)
        BY <1>1, <1>2 DEF Models
    <2> QED BY <1>1, <1>2, <2>1, AssignModels
<1>3. PendingForced'
    BY <1>1, <1>2 DEF MInv, PendingForced
<1>4. Forced'
    <2> SUFFICES ASSUME verdict' \in {"searching", "sat"}, NEW N \in SUBSET Var,
                        Models(N, input), RespectsFalse(N, trail'),
                        RespectsUnits(N, clauses')
                 PROVE  (\A k \in trail' : Holds(N, k)) /\ Models(N, clauses')
        BY <1>1 DEF Forced
    <2>1. {} \notin clauses'
        BY DEF Propagate, Contradictory
    <2>2. RespectsFalse(N, trail)
        BY <1>1 DEF RespectsFalse
    <2>3. RespectsUnits(N, clauses)
        <3> SUFFICES ASSUME NEW k \in Literal, k < 0, {k} \in clauses
                     PROVE  Holds(N, k)
            BY DEF RespectsUnits
        <3>1. CASE k = l
            BY <1>1, <3>1 DEF RespectsFalse
        <3>2. CASE k = -l
            <4>1. l \notin {k} /\ {k} \ {-l} = {}
                BY <3>2, LiteralSigns
            <4>2. {k} \ {-l} \in clauses'
                BY <1>1, <4>1 DEF Assign
            <4> QED BY <2>1, <4>1, <4>2
        <3>3. CASE k # l /\ k # -l
            <4>1. l \notin {k} /\ {k} \ {-l} = {k}
                BY <3>3
            <4>2. {k} \ {-l} \in clauses'
                BY <1>1, <4>1 DEF Assign
            <4>3. {k} \in clauses'
                BY <4>1, <4>2
            <4> QED BY <4>3 DEF RespectsUnits
        <3> QED BY <3>1, <3>2, <3>3
    <2>4. (\A k \in trail : Holds(N, k)) /\ Models(N, clauses)
        BY <1>1, <2>2, <2>3 DEF MInv, Forced
    <2> QED BY <1>1, <1>2, <2>4
<1> QED BY <1>3, <1>4

LEMMA SplitForced ==
    ASSUME MInv, NEW v \in Var, Split(v)
    PROVE  Forced' /\ PendingForced'
<1> DEFINE top == [clauses |-> clauses \cup {{v}}, trail |-> trail]
<1>1. /\ clauses \in SUBSET SUBSET Literal /\ trail \in SUBSET Literal
      /\ stack \in Seq(Alternative)
      /\ clauses' = clauses \cup {{-v}} /\ stack' = <<top>> \o stack
      /\ UNCHANGED <<input, literalMap, trail, verdict>>
      /\ verdict = "searching"
    BY DEF MInv, IInv, TypeOK, Split
<1>2. /\ v \in Literal /\ -v \in Literal /\ -(-v) = v /\ -v < 0
    BY VarAssumption DEF Literal
<1>3. top \in Alternative
    BY <1>1, <1>2 DEF Alternative
<1>4. /\ stack' \in Seq(Alternative)
      /\ Len(stack) \in Nat
      /\ Len(stack') = Len(stack) + 1
      /\ stack'[1] = top
      /\ \A i \in 2 .. Len(stack') : stack'[i] = stack[i - 1] /\ i - 1 \in 1 .. Len(stack)
    BY <1>1, <1>3
<1>5. top.clauses = clauses \cup {{v}} /\ top.trail = trail
    OBVIOUS
<1> HIDE DEF top
(* A model of the clauses satisfies one of the two copies.                 *)
<1>6. ASSUME NEW N, Models(N, clauses)
      PROVE  Models(N, clauses') \/ Models(N, top.clauses)
    <2>1. Holds(N, v) \/ Holds(N, -v)
        BY <1>2, HoldsNegation
    <2> QED BY <1>1, <1>5, <1>6, <2>1 DEF Models
<1>7. Forced'
    <2> SUFFICES ASSUME NEW N \in SUBSET Var, Models(N, input),
                        RespectsFalse(N, trail), RespectsUnits(N, clauses')
                 PROVE  (\A k \in trail : Holds(N, k)) /\ Models(N, clauses')
        BY <1>1 DEF Forced
    <2>1. RespectsUnits(N, clauses) /\ Holds(N, -v)
        BY <1>1, <1>2 DEF RespectsUnits
    <2>2. (\A k \in trail : Holds(N, k)) /\ Models(N, clauses)
        BY <1>1, <2>1 DEF MInv, Forced
    <2> QED BY <1>1, <2>1, <2>2 DEF Models
<1>8. PendingForced'
    <2> SUFFICES ASSUME NEW i \in 1 .. Len(stack'), NEW N \in SUBSET Var,
                        Models(N, input), RespectsFalse(N, stack'[i].trail),
                        RespectsUnits(N, stack'[i].clauses)
                 PROVE  /\ \A l \in stack'[i].trail : Holds(N, l)
                        /\ \/ Models(N, stack'[i].clauses)
                           \/ Models(N, clauses')
                           \/ \E j \in 1 .. i - 1 : Models(N, stack'[j].clauses)
        BY <1>1 DEF PendingForced
    <2>1. CASE i = 1
        <3>1. RespectsUnits(N, clauses)
            BY <1>4, <1>5, <2>1 DEF RespectsUnits
        <3>2. (\A k \in trail : Holds(N, k)) /\ Models(N, clauses)
            BY <1>1, <1>4, <1>5, <2>1, <3>1 DEF MInv, Forced
        <3> QED BY <1>4, <1>5, <1>6, <2>1, <3>2
    <2>2. CASE i # 1
        <3>1. i - 1 \in 1 .. Len(stack) /\ stack'[i] = stack[i - 1]
            BY <1>4, <2>2
        <3>2. /\ \A l \in stack[i - 1].trail : Holds(N, l)
              /\ \/ Models(N, stack[i - 1].clauses)
                 \/ Models(N, clauses)
                 \/ \E j \in 1 .. (i - 1) - 1 : Models(N, stack[j].clauses)
            BY <3>1 DEF MInv, PendingForced
        <3>3. CASE Models(N, clauses)
            <4>1. 1 \in 1 .. i - 1
                BY <2>2
            <4> QED BY <1>4, <1>6, <3>1, <3>2, <3>3, <4>1
        <3>4. CASE \E j \in 1 .. (i - 1) - 1 : Models(N, stack[j].clauses)
            <4>1. PICK j \in 1 .. (i - 1) - 1 : Models(N, stack[j].clauses)
                BY <3>4
            <4>2. j + 1 \in 1 .. i - 1 /\ j + 1 \in 2 .. Len(stack') /\ (j + 1) - 1 = j
                BY <1>4, <3>1
            <4>3. stack'[j + 1] = stack[j]
                BY <1>4, <4>2
            <4> QED BY <3>1, <3>2, <4>1, <4>2, <4>3
        <3> QED BY <3>1, <3>2, <3>3, <3>4
    <2> QED BY <2>1, <2>2
<1> QED BY <1>7, <1>8

LEMMA BacktrackForced ==
    ASSUME MInv, Backtrack
    PROVE  Forced' /\ PendingForced'
<1>1. /\ stack \in Seq(Alternative) /\ stack # <<>>
      /\ clauses' = Head(stack).clauses /\ trail' = Head(stack).trail
      /\ stack' = Tail(stack) /\ verdict = "failed"
      /\ UNCHANGED <<input, literalMap>>
    BY DEF MInv, IInv, TypeOK, Backtrack
<1>2. /\ Len(stack) \in Nat /\ 1 \in 1 .. Len(stack) /\ Head(stack) = stack[1]
      /\ Len(stack') = Len(stack) - 1
      /\ \A i \in 1 .. Len(stack') : stack'[i] = stack[i + 1] /\ i + 1 \in 1 .. Len(stack)
    BY <1>1
<1>3. ASSUME NEW N PROVE ~Models(N, clauses)
    BY <1>1, ContradictoryHasNoModel DEF MInv, IInv, TypeOK
<1>4. Forced'
    <2> SUFFICES ASSUME NEW N \in SUBSET Var, Models(N, input),
                        RespectsFalse(N, stack[1].trail),
                        RespectsUnits(N, stack[1].clauses)
                 PROVE  /\ \A k \in stack[1].trail : Holds(N, k)
                        /\ Models(N, stack[1].clauses)
        BY <1>1, <1>2 DEF Forced
    <2> QED BY <1>2, <1>3 DEF MInv, PendingForced
<1>5. PendingForced'
    <2> SUFFICES ASSUME NEW i \in 1 .. Len(stack'), NEW N \in SUBSET Var,
                        Models(N, input), RespectsFalse(N, stack'[i].trail),
                        RespectsUnits(N, stack'[i].clauses)
                 PROVE  /\ \A l \in stack'[i].trail : Holds(N, l)
                        /\ \/ Models(N, stack'[i].clauses)
                           \/ Models(N, clauses')
                           \/ \E j \in 1 .. i - 1 : Models(N, stack'[j].clauses)
        BY <1>1 DEF PendingForced
    <2>1. i + 1 \in 1 .. Len(stack) /\ stack'[i] = stack[i + 1]
        BY <1>2
    <2>2. /\ \A l \in stack[i + 1].trail : Holds(N, l)
          /\ \/ Models(N, stack[i + 1].clauses)
             \/ \E j \in 1 .. (i + 1) - 1 : Models(N, stack[j].clauses)
        BY <1>3, <2>1 DEF MInv, PendingForced
    <2>3. CASE \E j \in 1 .. (i + 1) - 1 : Models(N, stack[j].clauses)
        <3>1. PICK j \in 1 .. (i + 1) - 1 : Models(N, stack[j].clauses)
            BY <2>3
        <3>2. CASE j = 1
            BY <1>1, <1>2, <2>1, <2>2, <3>1, <3>2
        <3>3. CASE j # 1
            <4>1. j - 1 \in 1 .. i - 1 /\ j - 1 \in 1 .. Len(stack') /\ (j - 1) + 1 = j
                BY <3>3
            <4>2. stack'[j - 1] = stack[j]
                BY <1>2, <4>1
            <4> QED BY <2>1, <2>2, <3>1, <4>1, <4>2
        <3> QED BY <3>2, <3>3
    <2> QED BY <2>1, <2>2, <2>3
<1> QED BY <1>4, <1>5

LEMMA StepMInv == MInv /\ [Next]_dpVars => MInv'
<1> SUFFICES ASSUME MInv, [Next]_dpVars PROVE MInv'
    OBVIOUS
<1>1. IInv'
    BY StepIInv DEF MInv
<1>2. CASE NoClauses
    BY <1>1, <1>2 DEF MInv, NoClauses, Forced, PendingForced
<1>3. ASSUME NEW l \in Literal, Propagate(l) PROVE MInv'
    BY <1>1, <1>3, PropagateForced DEF MInv
<1>4. ASSUME NEW v \in Var, Split(v) PROVE MInv'
    BY <1>1, <1>4, SplitForced DEF MInv
<1>5. CASE Backtrack
    BY <1>1, <1>5, BacktrackForced DEF MInv
<1>6. CASE Unsatisfiable
    BY <1>1, <1>6 DEF MInv, Unsatisfiable, Forced, PendingForced
<1>7. CASE UNCHANGED dpVars
    BY <1>1, <1>7 DEF MInv, dpVars, Forced, PendingForced
<1> QED BY <1>2, <1>3, <1>4, <1>5, <1>6, <1>7 DEF Next

LEMMA MinimalInv == MInv => BranchMinimal
<1> SUFFICES ASSUME MInv, verdict = "sat"
             PROVE  /\ Models(BranchModel, input)
                    /\ \A N \in SUBSET BranchModel :
                           Models(N, input) => N = BranchModel
    BY DEF BranchMinimal
<1>1. clauses = {} /\ trail \in SUBSET Literal
    BY DEF MInv, IInv, TypeOK
<1>2. ASSUME NEW l \in trail PROVE -l \notin trail
    BY <1>1, HoldsNegation DEF MInv, IInv, Branch, Agrees
<1>3. ASSUME NEW l \in trail PROVE Holds(BranchModel, l)
    BY <1>1, <1>2, LiteralSigns DEF Holds, BranchModel
<1>4. Models(BranchModel, input)
    <2>1. BranchModel \in SUBSET Var /\ Models(BranchModel, clauses)
        BY <1>1 DEF BranchModel, Models
    <2> QED BY <1>3, <2>1 DEF MInv, IInv, Branch, Justified
<1>5. ASSUME NEW N \in SUBSET BranchModel, Models(N, input)
      PROVE  N = BranchModel
    <2>1. N \in SUBSET Var
        BY DEF BranchModel
    <2>2. RespectsFalse(N, trail)
        <3> SUFFICES ASSUME NEW l \in trail, l < 0 PROVE Holds(N, l)
            BY DEF RespectsFalse
        <3>1. Holds(BranchModel, l) /\ ~(l > 0)
            BY <1>1, <1>3, LiteralSigns
        <3> QED BY <3>1 DEF Holds
    <2>3. RespectsUnits(N, clauses)
        BY <1>1 DEF RespectsUnits
    <2>4. \A l \in trail : Holds(N, l)
        BY <2>1, <2>2, <2>3, <1>5 DEF MInv, Forced
    <2>5. BranchModel \subseteq N
        <3> SUFFICES ASSUME NEW v \in Var, v \in trail PROVE v \in N
            BY DEF BranchModel
        <3>1. v > 0
            BY VarAssumption
        <3> QED BY <2>4, <3>1 DEF Holds
    <2> QED BY <2>5
<1> QED BY <1>4, <1>5

(* The branch on which DLL returns true is a minimal model of the clauses; *)
(* what literalMap holds need not be (see MinimalWhenDone of               *)
(* ComponentClients), because of the values of the branches that failed.   *)
THEOREM MinimalBranch == Spec => []BranchMinimal
<1>1. Spec => []MInv
    BY InitMInv, StepMInv, PTL DEF Spec
<1> QED BY <1>1, MinimalInv, PTL
-----------------------------------------------------------------------------
(* The lists.  LeftOf(F, l) is the list removeClauses leaves.              *)
LEMMA LeastOfNaturals ==
    ASSUME NEW S \in SUBSET Nat, S # {}
    PROVE  \E k \in S : \A j \in S : k <= j
<1> DEFINE below == OpToRel(<, Nat)
<1>1. \E k \in S : \A j \in S : <<j, k>> \notin below
    BY NatLessThanWellFounded, WFMin, ZenonT(30)
<1>2. \A j, k \in Nat : <<j, k>> \notin below => k <= j
    BY DEF OpToRel
<1> HIDE DEF below
<1> QED BY <1>1, <1>2

Proper(c) == c \in Seq(Literal) /\ IsInjective(c)

ProperFormula(F) ==
    F \in Seq(Seq(Literal)) /\ \A k \in 1 .. Len(F) : IsInjective(F[k])

NoEmpty(F) == \A k \in 1 .. Len(F) : F[k] # <<>>

IsLeft(g, F, l, n) ==
    g = [k \in 0 .. n |->
            IF k = 0 THEN <<>>
            ELSE IF Contains(F[k], l) THEN g[k - 1] ELSE Append(g[k - 1], F[k])]

(* The recursion over a list has a value.                                  *)
LEMMA LeftExists ==
    ASSUME NEW F, NEW l, NEW n \in Nat
    PROVE  \E g : IsLeft(g, F, l, n)
<1> DEFINE Bad == {m \in Nat : ~\E g : IsLeft(g, F, l, m)}
<1> SUFFICES ASSUME Bad # {} PROVE FALSE
    OBVIOUS
<1>1. PICK m \in Bad : \A j \in Bad : m <= j
    BY LeastOfNaturals
<1>2. m # 0
    <2>1. IsLeft([k \in 0 .. 0 |-> <<>>], F, l, 0)
        BY DEF IsLeft
    <2> QED BY <1>1, <2>1
<1>3. m \in Nat /\ m - 1 \in Nat /\ m - 1 \notin Bad
    BY <1>1, <1>2
<1>4. PICK g : IsLeft(g, F, l, m - 1)
    BY <1>3
<1> DEFINE last == IF Contains(F[m], l) THEN g[m - 1] ELSE Append(g[m - 1], F[m])
           h == [k \in 0 .. m |-> IF k = m THEN last ELSE g[k]]
<1>5. \A k \in 0 .. m - 1 :
         g[k] = IF k = 0 THEN <<>>
                ELSE IF Contains(F[k], l) THEN g[k - 1] ELSE Append(g[k - 1], F[k])
    BY <1>4 DEF IsLeft
<1>6. \A k \in 0 .. m :
         h[k] = IF k = 0 THEN <<>>
                ELSE IF Contains(F[k], l) THEN h[k - 1] ELSE Append(h[k - 1], F[k])
    <2> TAKE k \in 0 .. m
    <2>1. CASE k = m
        <3>1. h[k] = last /\ h[k - 1] = g[m - 1]
            BY <1>3, <2>1
        <3> HIDE DEF h
        <3> QED BY <1>2, <2>1, <3>1
    <2>2. CASE k = 0
        BY <1>2, <1>3, <1>5, <2>2
    <2>3. CASE k # m /\ k # 0
        <3>1. k \in 0 .. m - 1 /\ k - 1 \in 0 .. m - 1 /\ k \in 0 .. m /\ k - 1 \in 0 .. m /\ k - 1 # m
            BY <1>3, <2>3
        <3>2. h[k] = g[k] /\ h[k - 1] = g[k - 1]
            BY <2>3, <3>1
        <3> HIDE DEF h
        <3> QED BY <1>5, <2>3, <3>1, <3>2
    <2> QED BY <2>1, <2>2, <2>3
<1>7. IsLeft(h, F, l, m)
    <2>1. h = [k \in 0 .. m |-> h[k]]
        OBVIOUS
    <2> HIDE DEF h
    <2> QED BY <1>6, <2>1 DEF IsLeft
<1> QED BY <1>1, <1>7

(* removeClauses leaves the clauses without the literal.                   *)
LEMMA RemovedClauses ==
    ASSUME NEW F, ProperFormula(F), NEW l
    PROVE  /\ ProperFormula(D!RemoveClauses(l, F))
           /\ D!AsSets(D!RemoveClauses(l, F)) = {d \in D!AsSets(F) : l \notin d}
<1> DEFINE n == Len(F)
           g == CHOOSE left : IsLeft(left, F, l, n)
<1>1. n \in Nat /\ F \in Seq(Seq(Literal)) /\ \A k \in 1 .. n : F[k] \in Seq(Literal) /\ IsInjective(F[k])
    BY DEF ProperFormula
<1>2. D!RemoveClauses(l, F) = g[n]
    BY DEF D!RemoveClauses, D!Contains, IsLeft, Contains
<1>3. IsLeft(g, F, l, n)
    BY <1>1, LeftExists
<1> HIDE DEF g
<1>4. \A k \in 0 .. n :
         g[k] = IF k = 0 THEN <<>>
                ELSE IF Contains(F[k], l) THEN g[k - 1] ELSE Append(g[k - 1], F[k])
    BY <1>3 DEF IsLeft
<1> DEFINE Right(k) ==
             /\ g[k] \in Seq(Seq(Literal))
             /\ \A j \in 1 .. Len(g[k]) : \E i \in 1 .. k : ~Contains(F[i], l) /\ g[k][j] = F[i]
             /\ \A i \in 1 .. k : ~Contains(F[i], l) => \E j \in 1 .. Len(g[k]) : g[k][j] = F[i]
           Bad == {k \in 0 .. n : ~Right(k)}
<1>5. Right(n)
    <2> SUFFICES ASSUME Bad # {} PROVE FALSE
        BY <1>1
    <2>1. PICK k \in Bad : \A j \in Bad : k <= j
        <3>1. Bad \subseteq Nat
            OBVIOUS
        <3> HIDE DEF Bad
        <3> QED BY <3>1, LeastOfNaturals
    <2>2. k \in 0 .. n /\ ~Right(k)
        BY <2>1
    <2>3. k # 0
        <3>1. 0 \in 0 .. n /\ g[0] = <<>>
            BY <1>1, <1>4
        <3>2. Right(0)
            BY <3>1
        <3> QED BY <2>2, <3>2
    <2>4. k - 1 \in 0 .. n /\ k \in 1 .. n
        BY <1>1, <2>2, <2>3
    <2>5. Right(k - 1)
        <3>1. k - 1 \notin Bad
            <4> HIDE DEF Bad
            <4> QED BY <2>1, <2>2, <2>4
        <3> QED BY <2>4, <3>1
    <2>6. \A i \in 1 .. k : i = k \/ i \in 1 .. k - 1
        BY <2>4
    <2>7. \A i \in 1 .. k - 1 : i \in 1 .. k
        BY <2>4
    <2>8. CASE Contains(F[k], l)
        <3>1. g[k] = g[k - 1]
            BY <1>4, <2>2, <2>3, <2>8
        <3> QED BY <2>2, <2>5, <2>6, <2>7, <2>8, <3>1
    <2>9. CASE ~Contains(F[k], l)
        <3>1. g[k] = Append(g[k - 1], F[k])
            BY <1>4, <2>2, <2>3, <2>9
        <3>2. F[k] \in Seq(Literal)
            BY <1>1, <2>4
        <3>3. /\ g[k] \in Seq(Seq(Literal)) /\ Len(g[k]) = Len(g[k - 1]) + 1
              /\ Len(g[k - 1]) \in Nat
              /\ g[k][Len(g[k])] = F[k]
              /\ \A j \in 1 .. Len(g[k - 1]) : g[k][j] = g[k - 1][j]
            BY <2>5, <3>1, <3>2
        <3>4. \A j \in 1 .. Len(g[k]) : \E i \in 1 .. k : ~Contains(F[i], l) /\ g[k][j] = F[i]
            <4> TAKE j \in 1 .. Len(g[k])
            <4>1. CASE j = Len(g[k])
                BY <2>4, <2>9, <3>3, <4>1
            <4>2. CASE j # Len(g[k])
                <5>1. j \in 1 .. Len(g[k - 1])
                    BY <3>3, <4>2
                <5> QED BY <2>5, <2>7, <3>3, <5>1
            <4> QED BY <4>1, <4>2
        <3>5. \A i \in 1 .. k : ~Contains(F[i], l) => \E j \in 1 .. Len(g[k]) : g[k][j] = F[i]
            <4> TAKE i \in 1 .. k
            <4> HAVE ~Contains(F[i], l)
            <4>1. CASE i = k
                <5>1. Len(g[k]) \in 1 .. Len(g[k])
                    BY <3>3
                <5> QED BY <3>3, <4>1, <5>1
            <4>2. CASE i \in 1 .. k - 1
                <5>1. PICK j \in 1 .. Len(g[k - 1]) : g[k - 1][j] = F[i]
                    BY <2>5, <4>2
                <5>2. j \in 1 .. Len(g[k])
                    BY <3>3
                <5> QED BY <3>3, <5>1, <5>2
            <4> QED BY <2>6, <4>1, <4>2
        <3> QED BY <2>2, <3>3, <3>4, <3>5
    <2> QED BY <2>8, <2>9
<1>6. \A i \in 1 .. n : Contains(F[i], l) <=> l \in ToSet(F[i])
    BY <1>1 DEF Contains, ToSet
<1>7. ProperFormula(g[n])
    <2>1. \A j \in 1 .. Len(g[n]) : IsInjective(g[n][j])
        BY <1>1, <1>5
    <2> QED BY <1>5, <2>1 DEF ProperFormula
<1>8. D!AsSets(g[n]) = {d \in D!AsSets(F) : l \notin d}
    <2>1. \A j \in 1 .. Len(g[n]) : ToSet(g[n][j]) \in D!AsSets(F) /\ l \notin ToSet(g[n][j])
        <3> TAKE j \in 1 .. Len(g[n])
        <3>1. PICK i \in 1 .. n : ~Contains(F[i], l) /\ g[n][j] = F[i]
            BY <1>5
        <3> QED BY <1>6, <3>1 DEF D!AsSets, D!ToSet, ToSet
    <2>2. ASSUME NEW i \in 1 .. n, l \notin ToSet(F[i])
          PROVE  ToSet(F[i]) \in D!AsSets(g[n])
        <3>1. PICK j \in 1 .. Len(g[n]) : g[n][j] = F[i]
            BY <1>5, <1>6, <2>2
        <3> QED BY <3>1 DEF D!AsSets, D!ToSet, ToSet
    <2>3. D!AsSets(F) = {ToSet(F[i]) : i \in 1 .. n} /\ D!AsSets(g[n]) = {ToSet(g[n][j]) : j \in 1 .. Len(g[n])}
        BY DEF D!AsSets, D!ToSet, ToSet
    <2> QED BY <2>1, <2>2, <2>3
<1> QED BY <1>2, <1>7, <1>8

(* ArrayList.remove takes the only occurrence out of a list without        *)
(* repetitions.                                                            *)
LEMMA RemovedFirst ==
    ASSUME NEW c, Proper(c), NEW e
    PROVE  /\ Proper(D!RemoveFirst(c, e))
           /\ ToSet(D!RemoveFirst(c, e)) = ToSet(c) \ {e}
<1>1. /\ c \in Seq(Literal) /\ Len(c) \in Nat /\ DOMAIN c = 1 .. Len(c)
      /\ \A i, j \in 1 .. Len(c) : c[i] = c[j] => i = j
    BY DEF Proper, IsInjective
<1>2. CASE ~\E i \in 1 .. Len(c) : c[i] = e
    <2>1. D!RemoveFirst(c, e) = c
        BY <1>2 DEF D!RemoveFirst
    <2>2. e \notin ToSet(c)
        BY <1>1, <1>2 DEF ToSet
    <2> QED BY <2>1, <2>2
<1>3. CASE \E i \in 1 .. Len(c) : c[i] = e
    <2>1. PICK i \in 1 .. Len(c) : c[i] = e
        BY <1>3
    <2>2. {j \in 1 .. Len(c) : c[j] = e} = {i}
        BY <1>1, <2>1
    <2>3. D!Min({i}) = i
        BY DEF D!Min
    <2>4. D!SelectInSeq(c, LAMBDA v : v = e) = i
        BY <2>2, <2>3 DEF D!SelectInSeq
    <2> DEFINE a == SubSeq(c, 1, i - 1)
               b == SubSeq(c, i + 1, Len(c))
               r == a \o b
    <2>5. D!RemoveFirst(c, e) = r
        BY <1>3, <2>4 DEF D!RemoveFirst, D!RemoveAt
    <2>6. /\ a \in Seq(Literal) /\ Len(a) = i - 1
          /\ b \in Seq(Literal) /\ Len(b) = Len(c) - i
          /\ \A j \in 1 .. i - 1 : a[j] = c[j]
          /\ \A j \in 1 .. Len(c) - i : b[j] = c[j + i]
        <3>1. /\ a \in Seq(Literal) /\ Len(a) = i - 1
              /\ \A j \in 1 .. i - 1 : a[j] = c[j]
            BY <1>1, <2>1
        <3>2. /\ b \in Seq(Literal) /\ Len(b) = Len(c) - i
              /\ \A j \in 1 .. Len(c) - i : b[j] = c[j + i]
            <4>0. Len(c) \in Nat /\ i \in Int /\ 1 <= i /\ i <= Len(c)
                BY <1>1, <2>1
            <4> DEFINE m == i + 1
                       n == Len(c)
            <4>1. m \in Int /\ n \in Int /\ \A k \in m .. n : c[k] \in Literal
                BY <1>1, <4>0
            <4>2. /\ SubSeq(c, m, n) \in Seq(Literal)
                  /\ Len(SubSeq(c, m, n)) = IF m <= n THEN n - m + 1 ELSE 0
                  /\ \A j \in 1 .. n - m + 1 : SubSeq(c, m, n)[j] = c[m + j - 1]
                <5> HIDE DEF m, n
                <5> QED BY <4>1, SubSeqProperties
            <4>3. (IF m <= n THEN n - m + 1 ELSE 0) = Len(c) - i
                BY <4>0
            <4>4. \A j \in 1 .. Len(c) - i : m + j - 1 = j + i /\ j \in 1 .. n - m + 1
                BY <4>0
            <4>5. b = SubSeq(c, m, n)
                OBVIOUS
            <4> HIDE DEF b, m, n
            <4> QED BY <4>2, <4>3, <4>4, <4>5
        <3> QED BY <3>1, <3>2
    <2> HIDE DEF a, b
    <2>7. /\ r \in Seq(Literal) /\ Len(r) = Len(c) - 1 /\ DOMAIN r = 1 .. Len(c) - 1
          /\ \A j \in 1 .. Len(c) - 1 : r[j] = c[IF j < i THEN j ELSE j + 1]
        <3>1. r \in Seq(Literal) /\ Len(r) = Len(c) - 1
            <4>1. r \in Seq(Literal) /\ Len(r) = Len(a) + Len(b)
                BY <2>6, ConcatProperties, Zenon
            <4> HIDE DEF r
            <4> QED BY <1>1, <2>1, <2>6, <4>1
        <3>2. ASSUME NEW j \in 1 .. Len(c) - 1
              PROVE  r[j] = c[IF j < i THEN j ELSE j + 1]
            <4>1. CASE j < i
                <5>1. j \in 1 .. i - 1
                    BY <2>1, <4>1
                <5> QED BY <1>1, <2>1, <2>6, <4>1, <5>1
            <4>2. CASE ~(j < i)
                <5>1. j - (i - 1) \in 1 .. Len(c) - i /\ j - (i - 1) + i = j + 1
                    BY <1>1, <2>1, <4>2
                <5>2. r[j] = b[j - (i - 1)]
                    BY <1>1, <2>1, <2>6, <4>2
                <5> QED BY <2>6, <4>2, <5>1, <5>2
            <4> QED BY <4>1, <4>2
        <3> HIDE DEF r
        <3> QED BY <3>1, <3>2
    <2> HIDE DEF r
    <2>8. IsInjective(r)
        <3> SUFFICES ASSUME NEW j \in 1 .. Len(c) - 1, NEW k \in 1 .. Len(c) - 1, r[j] = r[k]
                     PROVE  j = k
            BY <2>7 DEF IsInjective
        <3>1. /\ (IF j < i THEN j ELSE j + 1) \in 1 .. Len(c)
              /\ (IF k < i THEN k ELSE k + 1) \in 1 .. Len(c)
            BY <1>1, <2>1
        <3>2. (IF j < i THEN j ELSE j + 1) = (IF k < i THEN k ELSE k + 1)
            BY <1>1, <2>7, <3>1
        <3> QED BY <2>1, <3>2
    <2>9. ASSUME NEW j \in 1 .. Len(c) - 1 PROVE r[j] \in ToSet(c) \ {e}
        <3>1. /\ (IF j < i THEN j ELSE j + 1) \in 1 .. Len(c)
              /\ (IF j < i THEN j ELSE j + 1) # i
            BY <1>1, <2>1
        <3>2. c[IF j < i THEN j ELSE j + 1] # c[i]
            BY <1>1, <2>1, <3>1
        <3> QED BY <1>1, <2>1, <2>7, <3>1, <3>2 DEF ToSet
    <2>10. ASSUME NEW k \in 1 .. Len(c), c[k] # e
           PROVE  \E j \in 1 .. Len(c) - 1 : r[j] = c[k]
        <3>1. k # i
            BY <2>1, <2>10
        <3>2. CASE k < i
            <4>1. k \in 1 .. Len(c) - 1
                BY <1>1, <2>1, <3>2
            <4> QED BY <2>7, <3>2, <4>1
        <3>3. CASE k > i
            <4>1. k - 1 \in 1 .. Len(c) - 1 /\ ~(k - 1 < i) /\ k - 1 + 1 = k
                BY <1>1, <2>1, <3>3
            <4> QED BY <2>7, <4>1
        <3> QED BY <1>1, <2>1, <3>1, <3>2, <3>3
    <2>11. ToSet(r) = ToSet(c) \ {e}
        <3>1. ToSet(r) = {r[j] : j \in 1 .. Len(c) - 1} /\ ToSet(c) = {c[k] : k \in 1 .. Len(c)}
            BY <1>1, <2>7 DEF ToSet
        <3>2. \A x \in ToSet(r) : x \in ToSet(c) \ {e}
            BY <2>9, <3>1
        <3>3. \A x \in ToSet(c) \ {e} : x \in ToSet(r)
            BY <2>10, <3>1
        <3> QED BY <3>2, <3>3
    <2> QED BY <2>5, <2>7, <2>8, <2>11 DEF Proper
<1> QED BY <1>2, <1>3

(* The sets of a list of clauses.                                          *)
LEMMA SetsOf ==
    ASSUME NEW F
    PROVE  D!AsSets(F) = {ToSet(F[k]) : k \in 1 .. Len(F)}
BY DEF D!AsSets, D!ToSet, ToSet

LEMMA ProperClauses ==
    ASSUME NEW F
    PROVE  ProperFormula(F) <=> F \in Seq(Seq(Literal)) /\ \A k \in 1 .. Len(F) : Proper(F[k])
BY DEF ProperFormula, Proper

LEMMA CutOut ==
    ASSUME NEW F, ProperFormula(F), NEW l
    PROVE  /\ ProperFormula(D!CutClauses(l, F))
           /\ D!AsSets(D!CutClauses(l, F)) = {d \ {-l} : d \in D!AsSets(F)}
<1> DEFINE G == D!CutClauses(l, F)
<1>1. G = [k \in 1 .. Len(F) |-> D!RemoveFirst(F[k], -l)]
    BY DEF D!CutClauses
<1> HIDE DEF G
<1>2. \A k \in 1 .. Len(F) : Proper(F[k])
    BY ProperClauses
<1>3. \A k \in 1 .. Len(F) : Proper(G[k]) /\ ToSet(G[k]) = ToSet(F[k]) \ {-l}
    BY <1>1, <1>2, RemovedFirst
<1>4. F \in Seq(Seq(Literal)) /\ Len(F) \in Nat
    BY DEF ProperFormula
<1>5. G \in Seq(Seq(Literal)) /\ Len(G) = Len(F)
    <2>1. \A k \in 1 .. Len(F) : G[k] \in Seq(Literal)
        BY <1>3 DEF Proper
    <2> QED BY <1>1, <1>4, <2>1
<1>6. ProperFormula(G)
    BY <1>3, <1>5, ProperClauses
<1>7. D!AsSets(G) = {ToSet(F[k]) \ {-l} : k \in 1 .. Len(F)}
    BY <1>3, <1>5, SetsOf
<1>8. D!AsSets(F) = {ToSet(F[k]) : k \in 1 .. Len(F)}
    BY SetsOf
<1> QED BY <1>6, <1>7, <1>8 DEF G

(* A list with one literal stands for a unit clause.                       *)
LEMMA UnitLists ==
    ASSUME NEW c, Proper(c)
    PROVE  /\ ToSet(c) \subseteq Literal
           /\ Len(c) = 1 => c = <<c[1]>> /\ c[1] \in Literal /\ ToSet(c) = {c[1]}
           /\ \A l : ToSet(c) = {l} => c = <<l>>
           /\ ToSet(c) = {} <=> c = <<>>
<1>1. /\ c \in Seq(Literal) /\ Len(c) \in Nat /\ DOMAIN c = 1 .. Len(c)
      /\ \A i, j \in 1 .. Len(c) : c[i] = c[j] => i = j
      /\ ToSet(c) = {c[i] : i \in 1 .. Len(c)}
    BY DEF Proper, IsInjective, ToSet
<1>2. ASSUME NEW l, ToSet(c) = {l} PROVE c = <<l>>
    <2>1. \A i \in 1 .. Len(c) : c[i] = l
        BY <1>1, <1>2
    <2>2. Len(c) # 0
        BY <1>1, <1>2
    <2>3. Len(c) = 1
        <3>1. Len(c) > 1 => 1 \in 1 .. Len(c) /\ 2 \in 1 .. Len(c)
            BY <1>1
        <3> QED BY <1>1, <2>1, <2>2, <3>1
    <2> QED BY <1>1, <2>1, <2>3
<1>3. Len(c) = 1 => c = <<c[1]>> /\ c[1] \in Literal /\ ToSet(c) = {c[1]}
    BY <1>1
<1>4. ToSet(c) = {} <=> c = <<>>
    <2>1. ToSet(c) = {} => Len(c) = 0
        <3>1. Len(c) # 0 => 1 \in 1 .. Len(c)
            BY <1>1
        <3> QED BY <1>1, <3>1
    <2>2. Len(c) = 0 <=> c = <<>>
        BY <1>1
    <2>3. Len(c) = 0 => ToSet(c) = {}
        BY <1>1
    <2> QED BY <2>1, <2>2, <2>3
<1>5. ToSet(c) \subseteq Literal
    BY <1>1
<1> QED BY <1>2, <1>3, <1>4, <1>5

(* searchSingleLiteral finds a unit clause if there is one.                *)
LEMMA SingleFound ==
    ASSUME NEW F, ProperFormula(F)
    PROVE  LET i == D!SearchSingleLiteral(F)
           IN  /\ i # 0 => i \in 1 .. Len(F) /\ Len(F[i]) = 1
               /\ i = 0 => \A k \in 1 .. Len(F) : Len(F[k]) # 1
<1> DEFINE I == {k \in 1 .. Len(F) : Len(F[k]) = 1}
<1>1. D!SearchSingleLiteral(F) = IF I # {} THEN D!Min(I) ELSE 0
    BY DEF D!SearchSingleLiteral, D!SelectInSeq
<1>2. I # {} => D!Min(I) \in I
    <2> SUFFICES ASSUME I # {} PROVE D!Min(I) \in I
        OBVIOUS
    <2>1. I \in SUBSET Nat
        BY DEF ProperFormula
    <2>2. \E k \in I : \A j \in I : k <= j
        <3> HIDE DEF I
        <3> QED BY <2>1, LeastOfNaturals
    <2> HIDE DEF I
    <2> QED BY <2>2 DEF D!Min
<1>3. 0 \notin 1 .. Len(F)
    OBVIOUS
<1> QED BY <1>1, <1>2, <1>3

(* hasFalsehood and hasEmptyClause.                                        *)
LEMMA ContradictionFound ==
    ASSUME NEW F, ProperFormula(F)
    PROVE  D!HasFalsehood(F) \/ D!HasEmptyClause(F) <=> Contradictory(D!AsSets(F))
<1>1. /\ \A k \in 1 .. Len(F) : Proper(F[k])
      /\ D!AsSets(F) = {ToSet(F[k]) : k \in 1 .. Len(F)}
    BY ProperClauses, SetsOf
<1>2. D!HasEmptyClause(F) <=> {} \in D!AsSets(F)
    <2>1. \A k \in 1 .. Len(F) : ToSet(F[k]) = {} <=> F[k] = <<>>
        BY <1>1, UnitLists
    <2> QED BY <1>1, <2>1 DEF D!HasEmptyClause, D!Contains
<1>3. ASSUME NEW j \in 1 .. Len(F), NEW k \in 1 .. Len(F), Len(F[j]) = 1, F[k] = <<-F[j][1]>>
      PROVE  \E l \in Literal : {l} \in D!AsSets(F) /\ {-l} \in D!AsSets(F)
    <2>1. F[j][1] \in Literal /\ ToSet(F[j]) = {F[j][1]}
        BY <1>1, <1>3, UnitLists
    <2>2. ToSet(F[k]) = {-F[j][1]}
        BY <1>3 DEF ToSet
    <2> QED BY <1>1, <2>1, <2>2
<1>4. ASSUME NEW l \in Literal, {l} \in D!AsSets(F), {-l} \in D!AsSets(F)
      PROVE  D!HasFalsehood(F)
    <2>1. PICK j \in 1 .. Len(F), k \in 1 .. Len(F) : ToSet(F[j]) = {l} /\ ToSet(F[k]) = {-l}
        BY <1>1, <1>4
    <2>2. F[j] = <<l>> /\ F[k] = <<-l>>
        BY <1>1, <2>1, UnitLists
    <2>3. Len(F[j]) = 1 /\ F[j][1] = l
        BY <2>2
    <2> QED BY <2>2, <2>3 DEF D!HasFalsehood
<1>5. D!HasFalsehood(F) => \E l \in Literal : {l} \in D!AsSets(F) /\ {-l} \in D!AsSets(F)
    BY <1>3 DEF D!HasFalsehood
<1> QED BY <1>2, <1>4, <1>5 DEF Contradictory

LEMMA OneMore ==
    ASSUME NEW F, ProperFormula(F), NEW l \in Literal
    PROVE  /\ ProperFormula(Append(F, <<l>>))
           /\ D!AsSets(Append(F, <<l>>)) = D!AsSets(F) \cup {{l}}
           /\ NoEmpty(F) => NoEmpty(Append(F, <<l>>))
<1> DEFINE G == Append(F, <<l>>)
<1>1. /\ F \in Seq(Seq(Literal)) /\ <<l>> \in Seq(Literal) /\ Len(F) \in Nat
      /\ \A k \in 1 .. Len(F) : Proper(F[k])
    BY ProperClauses
<1>2. /\ G \in Seq(Seq(Literal)) /\ Len(G) = Len(F) + 1
      /\ \A k \in 1 .. Len(F) : G[k] = F[k]
      /\ G[Len(F) + 1] = <<l>>
    BY <1>1
<1> HIDE DEF G
<1>3. Proper(<<l>>) /\ ToSet(<<l>>) = {l} /\ <<l>> # <<>>
    BY <1>1 DEF Proper, IsInjective, ToSet
<1>4. \A k \in 1 .. Len(G) : k \in 1 .. Len(F) \/ k = Len(F) + 1
    BY <1>1, <1>2
<1>5. \A k \in 1 .. Len(F) : k \in 1 .. Len(G)
    BY <1>1, <1>2
<1>6. ProperFormula(G)
    BY <1>1, <1>2, <1>3, <1>4, ProperClauses
<1>7. NoEmpty(F) => NoEmpty(G)
    BY <1>2, <1>3, <1>4 DEF NoEmpty
<1>8. D!AsSets(G) = D!AsSets(F) \cup {{l}}
    <2>1. D!AsSets(G) = {ToSet(G[k]) : k \in 1 .. Len(G)} /\ D!AsSets(F) = {ToSet(F[k]) : k \in 1 .. Len(F)}
        BY SetsOf
    <2>2. Len(F) + 1 \in 1 .. Len(G)
        BY <1>1, <1>2
    <2> QED BY <1>2, <1>3, <1>4, <1>5, <2>1, <2>2
<1> QED BY <1>6, <1>7, <1>8 DEF G
-----------------------------------------------------------------------------
StackSets == [k \in 1 .. Len(listStack) |->
                 [clauses |-> D!AsSets(listStack[k].clauses), trail |-> listStack[k].trail]]

(* The lists are without repetitions, those of a call that searches and of *)
(* the calls that wait without empty clauses, and the sets beside them are *)
(* theirs.                                                                 *)
ProperLists ==
    /\ ProperFormula(listInput)
    /\ ProperFormula(listClauses)
    /\ listStack \in Seq([clauses : Seq(Seq(Literal)), trail : SUBSET Literal])
    /\ \A k \in 1 .. Len(listStack) :
          ProperFormula(listStack[k].clauses) /\ NoEmpty(listStack[k].clauses)
    /\ verdict = "searching" => NoEmpty(listClauses)
    /\ trail \in SUBSET Literal

BesideLists ==
    /\ input = D!AsSets(listInput)
    /\ clauses = D!AsSets(listClauses)
    /\ stack = StackSets

ListInv == ProperLists /\ BesideLists

LEMMA IsSequence ==
    ASSUME NEW n \in Nat, NEW f, f = [k \in 1 .. n |-> f[k]]
    PROVE  f \in Seq({f[k] : k \in 1 .. n}) /\ Len(f) = n /\ DOMAIN f = 1 .. n
<1> DEFINE S == {f[k] : k \in 1 .. n}
<1>1. f \in [1 .. n -> S]
    OBVIOUS
<1>2. f \in Seq(S)
    BY <1>1, SeqDef
<1>3. DOMAIN f = 1 .. n
    BY <1>1
<1>4. Len(f) \in Nat /\ DOMAIN f = 1 .. Len(f)
    BY <1>2, LenProperties
<1>5. Len(f) = n
    BY <1>3, <1>4
<1> QED BY <1>2, <1>3, <1>5

LEMMA SetsOfLists ==
    ASSUME NEW F, ProperFormula(F)
    PROVE  /\ D!AsSets(F) \in SUBSET SUBSET Literal
           /\ D!AsSets(F) = {} <=> F = <<>>
           /\ {} \notin D!AsSets(F) => NoEmpty(F)
<1>1. /\ D!AsSets(F) = {ToSet(F[k]) : k \in 1 .. Len(F)}
      /\ \A k \in 1 .. Len(F) : Proper(F[k])
      /\ F \in Seq(Seq(Literal)) /\ Len(F) \in Nat
    BY SetsOf, ProperClauses
<1>2. \A k \in 1 .. Len(F) : ToSet(F[k]) \subseteq Literal /\ (ToSet(F[k]) = {} <=> F[k] = <<>>)
    BY <1>1, UnitLists
<1>3. D!AsSets(F) = {} <=> F = <<>>
    <2>1. F # <<>> => 1 \in 1 .. Len(F)
        BY <1>1
    <2>2. F = <<>> => 1 .. Len(F) = {}
        OBVIOUS
    <2> QED BY <1>1, <2>1, <2>2
<1> QED BY <1>1, <1>2, <1>3 DEF NoEmpty

LEMMA ListPropagate ==
    ASSUME ListInv, D!Propagate, Standing
    PROVE  (\E l \in Literal : Propagate(l)) /\ ListInv'
<1>1. PICK k \in DOMAIN listClauses :
         LET l == listClauses[k][1]
         IN  /\ k = D!SearchSingleLiteral(listClauses)
             /\ literalMap' = D!Put(l)
             /\ trail' = trail \cup {l}
             /\ listClauses' = D!CutClauses(l, D!RemoveClauses(l, listClauses))
    BY DEF D!Propagate
<1> DEFINE l == listClauses[k][1]
<1>2. ProperFormula(listClauses) /\ clauses = D!AsSets(listClauses)
    BY DEF ListInv, ProperLists, BesideLists
<1>3. k \in 1 .. Len(listClauses) /\ k # 0
    BY <1>2 DEF ProperFormula
<1>4. Len(listClauses[k]) = 1
    BY <1>1, <1>2, <1>3, SingleFound
<1>5. l \in Literal /\ {l} \in clauses
    BY <1>2, <1>3, <1>4, UnitLists, SetsOf, ProperClauses
<1>6. /\ ProperFormula(listClauses')
      /\ D!AsSets(listClauses') = Assign(l, clauses)
    <2> DEFINE G == D!RemoveClauses(l, listClauses)
    <2>1. ProperFormula(G) /\ D!AsSets(G) = {d \in clauses : l \notin d}
        BY <1>2, RemovedClauses
    <2>2. listClauses' = D!CutClauses(l, G)
        BY <1>1
    <2> HIDE DEF G, l
    <2> QED BY <2>1, <2>2, CutOut DEF Assign
<1>7. literalMap' = Put(l) /\ trail' = trail \cup {l}
    BY <1>1 DEF D!Put, Put
<1> HIDE DEF l
<1>8. /\ verdict = "searching" /\ UNCHANGED <<listInput, listStack>>
      /\ verdict' = IF listClauses' = <<>> THEN "sat"
                    ELSE IF D!HasFalsehood(listClauses') \/ D!HasEmptyClause(listClauses')
                         THEN "failed" ELSE "searching"
    BY DEF D!Propagate
<1>9. /\ input' = D!AsSets(listInput') /\ clauses' = D!AsSets(listClauses') /\ stack' = StackSets'
    BY DEF Standing, StackSets
<1>10. UNCHANGED <<input, stack>>
    BY <1>8, <1>9 DEF ListInv, BesideLists, StackSets
<1>11. verdict' = IF clauses' = {} THEN "sat"
                  ELSE IF Contradictory(clauses') THEN "failed" ELSE "searching"
    BY <1>6, <1>8, <1>9, SetsOfLists, ContradictionFound
<1>12. Propagate(l)
    BY <1>5, <1>6, <1>7, <1>8, <1>9, <1>10, <1>11 DEF Propagate
<1>13. verdict' = "searching" => NoEmpty(listClauses')
    <2>1. verdict' = "searching" => {} \notin clauses'
        BY <1>11 DEF Contradictory
    <2> QED BY <1>6, <1>9, <2>1, SetsOfLists
<1>14. ProperLists'
    BY <1>5, <1>6, <1>7, <1>8, <1>13 DEF ListInv, ProperLists
<1> QED BY <1>5, <1>9, <1>12, <1>14 DEF ListInv, BesideLists

LEMMA ListSplit ==
    ASSUME ListInv, D!Split, Standing
    PROVE  (\E v \in Var : Split(v)) /\ ListInv'
<1> DEFINE F == listClauses
           p == F[1][1]
           neg == IF p < 0 THEN p ELSE -p
           waits == [clauses |-> Append(F, <<-neg>>), trail |-> trail]
<1>1. /\ ProperFormula(F) /\ NoEmpty(F) /\ clauses = D!AsSets(F) /\ verdict = "searching"
      /\ D!SearchSingleLiteral(F) = 0 /\ F # <<>>
    BY DEF ListInv, ProperLists, BesideLists, D!Split
<1>2. /\ F' = Append(F, <<neg>>) /\ listStack' = <<waits>> \o listStack
      /\ UNCHANGED <<listInput, literalMap, trail, verdict>>
    BY DEF D!Split, D!PickLiteral
<1>3. F \in Seq(Seq(Literal)) /\ 1 \in 1 .. Len(F) /\ Len(F) \in Nat
    BY <1>1 DEF ProperFormula
<1>4. p \in Literal /\ p \in ToSet(F[1]) /\ ToSet(F[1]) \in clauses
    <2>1. F[1] # <<>> /\ F[1] \in Seq(Literal)
        BY <1>1, <1>3 DEF NoEmpty
    <2>2. 1 \in DOMAIN F[1]
        BY <2>1
    <2>3. p \in Literal /\ p \in ToSet(F[1])
        BY <2>1, <2>2 DEF ToSet
    <2>4. ToSet(F[1]) \in D!AsSets(F)
        BY <1>3, SetsOf
    <2> QED BY <1>1, <2>3, <2>4
<1>5. /\ neg \in Literal /\ -neg \in Var /\ -neg \in Literal
      /\ p = neg \/ p = -neg
    BY <1>4, LiteralSigns DEF Literal
<1>6. PICK v \in Var : v = -neg /\ -v = neg
    BY <1>5, LiteralSigns
<1> HIDE DEF F, p, neg
<1>7. /\ ProperFormula(F') /\ NoEmpty(F') /\ D!AsSets(F') = clauses \cup {{neg}}
      /\ ProperFormula(waits.clauses) /\ NoEmpty(waits.clauses)
      /\ D!AsSets(waits.clauses) = clauses \cup {{-neg}}
    BY <1>1, <1>2, <1>5, OneMore
<1>8. \A l \in Literal : {l} \notin clauses
    <2> SUFFICES ASSUME NEW l \in Literal, {l} \in clauses PROVE FALSE
        OBVIOUS
    <2>1. PICK k \in 1 .. Len(F) : ToSet(F[k]) = {l}
        BY <1>1, SetsOf
    <2>2. F[k] = <<l>>
        BY <1>1, <2>1, ProperClauses, UnitLists
    <2>3. Len(F[k]) = 1
        BY <2>2
    <2> QED BY <1>1, <2>3, SingleFound
<1>9. /\ input' = D!AsSets(listInput') /\ clauses' = D!AsSets(F') /\ stack' = StackSets'
    BY DEF Standing, StackSets, F
<1>10. waits \in [clauses : Seq(Seq(Literal)), trail : SUBSET Literal]
    BY <1>7 DEF ProperFormula, ListInv, ProperLists
<1>11. /\ listStack \in Seq([clauses : Seq(Seq(Literal)), trail : SUBSET Literal])
       /\ Len(listStack) \in Nat
    BY DEF ListInv, ProperLists
<1> HIDE DEF waits
<1>12. /\ listStack' \in Seq([clauses : Seq(Seq(Literal)), trail : SUBSET Literal])
       /\ Len(listStack') = Len(listStack) + 1
       /\ listStack'[1] = waits
       /\ \A k \in 2 .. Len(listStack) + 1 : listStack'[k] = listStack[k - 1]
    BY <1>2, <1>10, <1>11
<1>13. ProperLists'
    <2>1. ASSUME NEW k \in 1 .. Len(listStack')
          PROVE  ProperFormula(listStack'[k].clauses) /\ NoEmpty(listStack'[k].clauses)
        <3>1. CASE k = 1
            BY <1>7, <1>12, <3>1
        <3>2. CASE k # 1
            <4>1. k \in 2 .. Len(listStack) + 1 /\ k - 1 \in 1 .. Len(listStack)
                BY <1>11, <1>12, <3>2
            <4> QED BY <1>12, <4>1 DEF ListInv, ProperLists
        <3> QED BY <3>1, <3>2
    <2> QED BY <1>2, <1>7, <1>12, <2>1 DEF ListInv, ProperLists, F
<1>14. stack' = <<[clauses |-> clauses \cup {{v}}, trail |-> trail]>> \o stack
    <2> DEFINE w == [clauses |-> clauses \cup {{v}}, trail |-> trail]
    <2>1. stack = [k \in 1 .. Len(listStack) |->
                     [clauses |-> D!AsSets(listStack[k].clauses), trail |-> listStack[k].trail]]
        BY DEF ListInv, BesideLists, StackSets
    <2>2. stack' = [k \in 1 .. Len(listStack) + 1 |->
                     [clauses |-> D!AsSets(listStack'[k].clauses), trail |-> listStack'[k].trail]]
        BY <1>9, <1>12 DEF StackSets
    <2>3. stack'[1] = w
        <3>1. 1 \in 1 .. Len(listStack) + 1
            BY <1>11
        <3>2. stack'[1] = [clauses |-> D!AsSets(waits.clauses), trail |-> waits.trail]
            BY <1>12, <2>2, <3>1
        <3> QED BY <1>6, <1>7, <3>2 DEF waits
    <2>4. \A k \in 2 .. Len(listStack) + 1 : stack'[k] = stack[k - 1]
        <3> TAKE k \in 2 .. Len(listStack) + 1
        <3>1. k \in 1 .. Len(listStack) + 1 /\ k - 1 \in 1 .. Len(listStack)
            BY <1>11
        <3> QED BY <1>12, <2>1, <2>2, <3>1
    <2> HIDE DEF w
    <2>5. stack \in Seq({stack[k] : k \in 1 .. Len(listStack)}) /\ Len(stack) = Len(listStack)
        <3>1. stack = [k \in 1 .. Len(listStack) |-> stack[k]]
            BY <2>1
        <3> QED BY <1>11, <3>1, IsSequence
    <2> DEFINE u == <<w>> \o stack
               T == {w} \cup {stack[k] : k \in 1 .. Len(listStack)}
    <2>6. /\ u \in Seq(T) /\ Len(u) = 1 + Len(stack)
          /\ \A k \in 1 .. 1 + Len(stack) : u[k] = IF k <= 1 THEN w ELSE stack[k - 1]
        <3>1. <<w>> \in Seq(T) /\ Len(<<w>>) = 1 /\ stack \in Seq(T) /\ <<w>>[1] = w
            BY <2>5
        <3> QED BY <1>11, <2>5, <3>1, ConcatProperties
    <2> HIDE DEF u, T
    <2>7. u = [k \in 1 .. Len(listStack) + 1 |-> u[k]]
        BY <1>11, <2>5, <2>6
    <2>8. \A k \in 1 .. Len(listStack) + 1 : u[k] = stack'[k]
        <3> TAKE k \in 1 .. Len(listStack) + 1
        <3>1. CASE k = 1
            BY <1>11, <2>3, <2>5, <2>6, <3>1
        <3>2. CASE k # 1
            <4>1. k \in 2 .. Len(listStack) + 1 /\ ~(k <= 1) /\ k \in 1 .. 1 + Len(stack)
                BY <1>11, <2>5, <3>2
            <4> QED BY <2>4, <2>6, <4>1
        <3> QED BY <3>1, <3>2
    <2>9. stack' = [k \in 1 .. Len(listStack) + 1 |-> stack'[k]]
        BY <2>2
    <2> QED BY <2>7, <2>8, <2>9 DEF u, w
<1>15. Split(v)
    <2>1. UNCHANGED input
        BY <1>2, <1>9 DEF ListInv, BesideLists
    <2>2. \E c \in clauses : v \in c \/ -v \in c
        BY <1>4, <1>5, <1>6
    <2>3. clauses # {}
        BY <1>4
    <2> QED BY <1>1, <1>2, <1>6, <1>7, <1>8, <1>9, <1>14, <2>1, <2>2, <2>3 DEF Split
<1> QED BY <1>9, <1>13, <1>15 DEF ListInv, BesideLists, F

LEMMA ListBacktrack ==
    ASSUME ListInv, D!Backtrack, Standing
    PROVE  Backtrack /\ ListInv'
<1> DEFINE T == [clauses : Seq(Seq(Literal)), trail : SUBSET Literal]
<1>1. /\ verdict = "failed" /\ verdict' = "searching" /\ listStack # <<>>
      /\ listClauses' = Head(listStack).clauses /\ trail' = Head(listStack).trail
      /\ listStack' = Tail(listStack) /\ UNCHANGED <<listInput, literalMap>>
    BY DEF D!Backtrack
<1>2. /\ listStack \in Seq(T) /\ Len(listStack) \in Nat
      /\ stack = [k \in 1 .. Len(listStack) |->
                     [clauses |-> D!AsSets(listStack[k].clauses), trail |-> listStack[k].trail]]
    BY DEF ListInv, ProperLists, BesideLists, StackSets
<1>3. /\ 1 \in 1 .. Len(listStack) /\ Head(listStack) = listStack[1]
      /\ listStack' \in Seq(T) /\ Len(listStack') = Len(listStack) - 1
      /\ \A k \in 1 .. Len(listStack) - 1 : listStack'[k] = listStack[k + 1]
    BY <1>1, <1>2
<1>4. /\ input' = D!AsSets(listInput') /\ clauses' = D!AsSets(listClauses')
      /\ stack' = [k \in 1 .. Len(listStack') |->
                     [clauses |-> D!AsSets(listStack'[k].clauses), trail |-> listStack'[k].trail]]
    BY DEF Standing
<1>5. /\ Head(stack) = [clauses |-> clauses', trail |-> trail']
      /\ stack # <<>> /\ Len(stack) = Len(listStack)
      /\ stack \in Seq({stack[k] : k \in 1 .. Len(listStack)})
    <2>1. stack = [k \in 1 .. Len(listStack) |-> stack[k]]
        BY <1>2
    <2>2. /\ stack \in Seq({stack[k] : k \in 1 .. Len(listStack)})
          /\ Len(stack) = Len(listStack)
        BY <1>2, <2>1, IsSequence
    <2>3. stack[1] = [clauses |-> D!AsSets(listStack[1].clauses), trail |-> listStack[1].trail]
        BY <1>2, <1>3
    <2>4. stack[1] = [clauses |-> clauses', trail |-> trail']
        BY <1>1, <1>3, <1>4, <2>3
    <2>5. stack # <<>> /\ Head(stack) = stack[1]
        BY <1>3, <2>2
    <2> QED BY <2>2, <2>4, <2>5
<1>6. stack' = Tail(stack)
    <2>1. /\ Len(Tail(stack)) = Len(listStack) - 1
          /\ Tail(stack) = [k \in 1 .. Len(listStack) - 1 |-> stack[k + 1]]
        <3> DEFINE R == {stack[k] : k \in 1 .. Len(listStack)}
        <3>1. stack \in Seq(R) /\ stack # <<>> /\ Len(stack) = Len(listStack)
            BY <1>5
        <3> HIDE DEF R
        <3>2. /\ Tail(stack) \in Seq(R) /\ Len(Tail(stack)) = Len(listStack) - 1
              /\ \A k \in 1 .. Len(Tail(stack)) : Tail(stack)[k] = stack[k + 1]
            BY <3>1, HeadTailProperties
        <3>3. Tail(stack) \in [1 .. Len(Tail(stack)) -> R]
            BY <3>2, LenProperties
        <3> QED BY <3>2, <3>3
    <2>2. \A k \in 1 .. Len(listStack) - 1 :
             stack[k + 1] = [clauses |-> D!AsSets(listStack'[k].clauses), trail |-> listStack'[k].trail]
        <3> TAKE k \in 1 .. Len(listStack) - 1
        <3>1. k + 1 \in 1 .. Len(listStack)
            BY <1>2
        <3> QED BY <1>2, <1>3, <3>1
    <2> QED BY <1>3, <1>4, <2>1, <2>2
<1>7. Backtrack
    <2>1. UNCHANGED input
        BY <1>1, <1>4 DEF ListInv, BesideLists
    <2>2. clauses' = Head(stack).clauses /\ trail' = Head(stack).trail
        BY <1>5
    <2> QED BY <1>1, <1>5, <1>6, <2>1, <2>2 DEF Backtrack
<1>8. ProperLists'
    <2>1. ASSUME NEW k \in 1 .. Len(listStack')
          PROVE  ProperFormula(listStack'[k].clauses) /\ NoEmpty(listStack'[k].clauses)
        <3>1. k \in 1 .. Len(listStack) - 1 /\ k + 1 \in 1 .. Len(listStack)
            BY <1>2, <1>3
        <3> QED BY <1>3, <3>1 DEF ListInv, ProperLists
    <2>2. ProperFormula(listClauses') /\ NoEmpty(listClauses')
        BY <1>1, <1>3 DEF ListInv, ProperLists
    <2>3. trail' \in SUBSET Literal
        <3>1. listStack[1] \in T
            BY <1>2, <1>3, ElementOfSeq
        <3>2. listStack[1].trail \in SUBSET Literal
            BY <3>1
        <3> QED BY <1>1, <1>3, <3>2
    <2> QED BY <1>1, <1>3, <2>1, <2>2, <2>3 DEF ListInv, ProperLists
<1> QED BY <1>4, <1>7, <1>8 DEF ListInv, BesideLists, StackSets

LEMMA ListStep ==
    ASSUME ListInv, D!Next, Standing
    PROVE  Next /\ ListInv'
<1>1. ASSUME UNCHANGED <<listInput, listClauses, listStack, trail>>
      PROVE  UNCHANGED <<input, clauses, stack>> /\ BesideLists'
    BY <1>1 DEF ListInv, BesideLists, Standing, StackSets
<1>2. CASE D!NoClauses
    <2>1. clauses = {}
        BY <1>2, SetsOfLists DEF ListInv, ProperLists, BesideLists, D!NoClauses
    <2> QED BY <1>1, <1>2, <2>1 DEF D!NoClauses, Next, NoClauses, ListInv, ProperLists
<1>3. CASE D!Unsatisfiable
    <2>1. stack = <<>>
        BY <1>3 DEF D!Unsatisfiable, ListInv, BesideLists, StackSets
    <2> QED BY <1>1, <1>3, <2>1 DEF D!Unsatisfiable, Next, Unsatisfiable, ListInv, ProperLists
<1>4. CASE D!Propagate
    BY <1>4, ListPropagate DEF Next
<1>5. CASE D!Split
    BY <1>5, ListSplit DEF Next
<1>6. CASE D!Backtrack
    BY <1>6, ListBacktrack DEF Next
<1> QED BY <1>2, <1>3, <1>4, <1>5, <1>6 DEF D!Next

LEMMA ListStart == ListInit => Init /\ ListInv
<1> SUFFICES ASSUME ListInit PROVE Init /\ ListInv
    OBVIOUS
<1>1. /\ listInput \in Formulas /\ listClauses = listInput /\ listStack = <<>>
      /\ literalMap = [v \in Var |-> "unset"] /\ trail = {} /\ verdict = "searching"
      /\ input = D!AsSets(listInput) /\ clauses = input /\ stack = <<>>
    BY DEF ListInit, D!Init
<1>2. ProperFormula(listInput) /\ NoEmpty(listInput)
    BY <1>1, FormulasAssumption DEF ProperFormula, NoEmpty
<1>3. input \in SUBSET SUBSET Literal
    BY <1>1, <1>2, SetsOfLists
<1>4. stack = StackSets
    BY <1>1 DEF StackSets
<1> QED BY <1>1, <1>2, <1>3, <1>4 DEF Init, ListInv, ProperLists, BesideLists

(* What the lists stand for is a run of DPLL: the order in which the code  *)
(* goes through its lists and takes one occurrence of a literal out of a   *)
(* clause makes it propagate unit clauses, find contradictions and split   *)
(* as the procedure on sets does.                                          *)
THEOREM ListsAreSets == ListSpec => Spec
<1>1. ListInv /\ [ListNext]_vars => [Next]_dpVars /\ ListInv'
    <2> SUFFICES ASSUME ListInv, [ListNext]_vars PROVE [Next]_dpVars /\ ListInv'
        OBVIOUS
    <2>1. CASE ListNext
        <3>1. D!Next /\ Standing
            BY <2>1 DEF ListNext, D!Next
        <3> QED BY <3>1, ListStep
    <2>2. CASE UNCHANGED vars
        BY <2>2 DEF vars, dpVars, ListInv, ProperLists, BesideLists, StackSets
    <2> QED BY <2>1, <2>2
<1> QED BY <1>1, ListStart, PTL DEF ListSpec, Spec

(* So DLL returns true only with a model of its list of clauses, false     *)
(* only when they have none, and the branch it succeeds on is minimal.     *)
THEOREM ListsAreRight == ListSpec => [](Sound /\ Complete /\ BranchMinimal)
BY ListsAreSets, Soundness, Completeness, MinimalBranch, PTL
-----------------------------------------------------------------------------
(* What a caller of DLL relies on, who calls it with any values but "true" *)
(* in literalMap.                                                          *)
VarsOf(C) == {v \in Var : \E c \in C : v \in c \/ -v \in c}

(* DLL gives a value to no variable but those of its clauses.              *)
Within ==
    /\ VarsOf(clauses) \subseteq VarsOf(input)
    /\ \A i \in 1 .. Len(stack) : VarsOf(stack[i].clauses) \subseteq VarsOf(input)
    /\ TrueVars \subseteq VarsOf(input)

CallInv == MInv /\ ListInv /\ Within

LEMMA CallStarts ==
    ASSUME ProperFormula(listInput), NoEmpty(listInput), listClauses = listInput,
           listStack = <<>>, trail = {}, verdict = "searching", BesideLists,
           literalMap \in [Var -> {"true", "false", "unset"}], TrueVars = {}
    PROVE  CallInv /\ TrueVars = BranchModel
<1>1. input \in SUBSET SUBSET Literal /\ clauses = input
    BY SetsOfLists DEF BesideLists
<1>2. stack = <<>> /\ Len(stack) = 0
    BY DEF BesideLists, StackSets
<1>3. TypeOK
    BY <1>1, <1>2 DEF TypeOK
<1>4. Branch(input, literalMap, clauses, trail)
    BY <1>1 DEF Branch, Justified, Fresh, Agrees
<1>5. IInv
    BY <1>1, <1>2, <1>3, <1>4 DEF IInv, Nested, Covered
<1>6. Forced /\ PendingForced
    BY <1>1, <1>2 DEF Forced, PendingForced
<1>7. ListInv
    BY DEF ListInv, ProperLists
<1>8. Within /\ TrueVars = BranchModel
    BY <1>1, <1>2 DEF Within, BranchModel
<1> QED BY <1>5, <1>6, <1>7, <1>8 DEF CallInv, MInv

(* A call gives values and never takes one back, and as long as no branch  *)
(* fails literalMap has true what the branch has.                          *)
LEMMA CallPropagates ==
    ASSUME IInv, Within, NEW l \in Literal, Propagate(l)
    PROVE  /\ Within' /\ input' = input
           /\ \A v \in Var : literalMap'[v] # literalMap[v] =>
                 v \in VarsOf(input) /\ literalMap'[v] # "unset"
           /\ TrueVars = BranchModel => (TrueVars = BranchModel)'
<1>1. /\ clauses \in SUBSET SUBSET Literal /\ trail \in SUBSET Literal
      /\ {l} \in clauses /\ clauses' = Assign(l, clauses)
      /\ trail' = trail \cup {l} /\ literalMap' = Put(l)
      /\ input' = input /\ stack' = stack
      /\ literalMap \in [Var -> {"true", "false", "unset"}]
    BY DEF IInv, TypeOK, Propagate
<1>2. l \notin trail /\ -l \notin trail
    BY <1>1 DEF IInv, Branch, Fresh
<1>3. VarsOf(clauses') \subseteq VarsOf(input)
    <2>1. VarsOf(clauses') \subseteq VarsOf(clauses)
        BY <1>1 DEF VarsOf, Assign
    <2> QED BY <2>1 DEF Within
<1>4. \A i \in 1 .. Len(stack') : VarsOf(stack'[i].clauses) \subseteq VarsOf(input)
    BY <1>1 DEF Within
<1>5. CASE l > 0
    <2>1. l \in Var /\ l \in VarsOf(input)
        BY <1>1, <1>5, LiteralSigns DEF VarsOf, Within
    <2>2. literalMap' = [literalMap EXCEPT ![l] = "true"]
        BY <1>1, <1>5 DEF Put
    <2>3. TrueVars' = TrueVars \cup {l} /\ BranchModel' = BranchModel \cup {l}
        BY <1>1, <2>1, <2>2 DEF TrueVars, TrueIn, BranchModel
    <2> QED BY <1>1, <1>3, <1>4, <2>1, <2>2, <2>3 DEF Within
<1>6. CASE ~(l > 0)
    <2>1. -l \in Var /\ -(-l) = l
        BY <1>6, LiteralSigns
    <2>2. -l \in VarsOf(clauses)
        BY <1>1, <2>1 DEF VarsOf
    <2>3. literalMap' = [literalMap EXCEPT ![-l] = "false"]
        BY <1>1, <1>6 DEF Put
    <2>4. TrueVars' = TrueVars \ {-l}
        BY <1>1, <2>1, <2>3 DEF TrueVars, TrueIn
    <2>5. BranchModel' = BranchModel /\ -l \notin BranchModel
        <3>1. l \notin Var
            BY <1>6, VarAssumption, LiteralSigns
        <3> QED BY <1>1, <1>2, <3>1 DEF BranchModel
    <2>6. -l \in VarsOf(input)
        BY <2>2 DEF Within
    <2> QED BY <1>1, <1>3, <1>4, <2>1, <2>3, <2>4, <2>5, <2>6 DEF Within
<1> QED BY <1>5, <1>6

LEMMA CallStep ==
    ASSUME CallInv, D!Next, Standing
    PROVE  /\ CallInv' /\ input' = input
           /\ \A v \in Var : literalMap'[v] # literalMap[v] =>
                 v \in VarsOf(input) /\ literalMap'[v] # "unset"
           /\ verdict # "failed" /\ TrueVars = BranchModel => (TrueVars = BranchModel)'
<1>1. Next /\ ListInv'
    BY ListStep DEF CallInv
<1>2. MInv'
    BY <1>1, StepMInv DEF CallInv
<1>3. ASSUME NEW l \in Literal, Propagate(l)
      PROVE  /\ Within' /\ input' = input
             /\ \A v \in Var : literalMap'[v] # literalMap[v] =>
                   v \in VarsOf(input) /\ literalMap'[v] # "unset"
             /\ TrueVars = BranchModel => (TrueVars = BranchModel)'
    BY <1>3, CallPropagates DEF CallInv, MInv
<1>4. ASSUME NEW v \in Var, Split(v)
      PROVE  Within' /\ UNCHANGED <<input, literalMap, trail>>
    <2> DEFINE top == [clauses |-> clauses \cup {{v}}, trail |-> trail]
    <2>1. /\ stack \in Seq(Alternative) /\ clauses \in SUBSET SUBSET Literal
          /\ clauses' = clauses \cup {{-v}} /\ stack' = <<top>> \o stack
          /\ UNCHANGED <<input, literalMap, trail>>
          /\ trail \in SUBSET Literal
        BY <1>4 DEF CallInv, MInv, IInv, TypeOK, Split
    <2>2. v \in Literal /\ -v \in Literal
        BY VarAssumption DEF Literal
    <2>3. top \in Alternative
        BY <2>1, <2>2 DEF Alternative
    <2>4. /\ stack' \in Seq(Alternative)
          /\ Len(stack') = Len(stack) + 1
          /\ stack'[1] = top
          /\ \A i \in 2 .. Len(stack') : stack'[i] = stack[i - 1] /\ i - 1 \in 1 .. Len(stack)
        BY <2>1, <2>3
    <2>5. VarsOf(clauses') \subseteq VarsOf(clauses) /\ VarsOf(top.clauses) \subseteq VarsOf(clauses)
        <3>1. v \in VarsOf(clauses)
            BY <1>4 DEF Split, VarsOf
        <3>2. \A w \in Var : w # -v /\ (-w = -v => w = v) /\ -w # v
            BY VarAssumption
        <3> QED BY <2>1, <3>1, <3>2 DEF VarsOf
    <2> HIDE DEF top
    <2>6. ASSUME NEW i \in 1 .. Len(stack')
          PROVE  VarsOf(stack'[i].clauses) \subseteq VarsOf(input)
        <3>1. CASE i = 1
            BY <2>4, <2>5, <3>1 DEF CallInv, Within
        <3>2. CASE i # 1
            BY <2>1, <2>4, <3>2 DEF CallInv, Within
        <3> QED BY <3>1, <3>2
    <2>7. TrueVars' = TrueVars
        BY <2>1 DEF TrueVars
    <2> QED BY <2>1, <2>5, <2>6, <2>7 DEF CallInv, Within
<1>5. CASE Backtrack
    <2>1. /\ stack \in Seq(Alternative) /\ stack # <<>> /\ verdict = "failed"
          /\ clauses' = Head(stack).clauses /\ stack' = Tail(stack)
          /\ UNCHANGED <<input, literalMap>>
        BY <1>5 DEF CallInv, MInv, IInv, TypeOK, Backtrack
    <2>2. /\ 1 \in 1 .. Len(stack) /\ Head(stack) = stack[1]
          /\ stack' \in Seq(Alternative) /\ Len(stack') = Len(stack) - 1
          /\ \A i \in 1 .. Len(stack') : stack'[i] = stack[i + 1] /\ i + 1 \in 1 .. Len(stack)
        BY <2>1
    <2>3. TrueVars' = TrueVars
        BY <2>1 DEF TrueVars
    <2>4. Within'
        BY <2>1, <2>2, <2>3 DEF CallInv, Within
    <2> QED BY <1>1, <1>2, <2>1, <2>4 DEF CallInv
<1>6. CASE NoClauses \/ Unsatisfiable
    <2>1. UNCHANGED <<input, clauses, stack, literalMap, trail>>
        BY <1>6 DEF NoClauses, Unsatisfiable
    <2>2. Within' /\ TrueVars' = TrueVars /\ BranchModel' = BranchModel
        BY <2>1 DEF CallInv, Within, TrueVars, BranchModel
    <2> QED BY <1>1, <1>2, <2>1, <2>2 DEF CallInv
<1>7. ASSUME NEW v \in Var, Split(v)
      PROVE  TrueVars' = TrueVars /\ BranchModel' = BranchModel
    BY <1>4, <1>7 DEF TrueVars, BranchModel
<1> QED BY <1>1, <1>2, <1>3, <1>4, <1>5, <1>6, <1>7 DEF Next, CallInv

LEMMA CallEnds ==
    ASSUME CallInv
    PROVE  Sound /\ BranchMinimal
BY SoundBranch, MinimalInv DEF CallInv, MInv
=============================================================================
