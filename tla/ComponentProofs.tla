--------------------------- MODULE ComponentProofs ---------------------------
(***************************************************************************)
(* Proofs about the runs of ModuMin and ComponentClients for every set of  *)
(* variables, every number of rules, every theory and every search of the  *)
(* graph.                                                                  *)
(***************************************************************************)
EXTENDS ComponentClients, FiniteSetTheorems, WellFoundedInduction, TLAPS

(* The actions that leave the rules, the index and the placed values alone. *)
RulesUnchanged ==
    UNCHANGED <<body, head, live, varHT, SIZE, theory, placed>>

(* Until the file is read nothing is placed.                               *)
LoadUntouched == phase = "load" => \A v \in Var : placed[v] = "unset"

(* The inductive invariant.  IndexExact and ReducedByPlaced need each      *)
(* other: a variable placed before is in no list, and a rule in the list   *)
(* of v contains v.                                                        *)
IInv ==
    /\ TypeOK
    /\ IndexExact
    /\ SizeCountsLive
    /\ ReducedByPlaced
    /\ LoadUntouched
-----------------------------------------------------------------------------
LEMMA InitIInv == Init => IInv
<1> SUFFICES ASSUME Init PROVE IInv
    OBVIOUS
<1>1. TypeOK
    BY NumRulesAssumption, RuleIdxAssumption
    DEF Init, TypeOK, Keys, Rule, EmptyRule, Value
<1>2. IndexExact
    BY DEF Init, IndexExact
<1>3. SizeCountsLive
    <2>1. Cardinality(1 .. NumRules) = NumRules
        BY FS_Interval, NumRulesAssumption
    <2> QED BY <2>1, RuleIdxAssumption DEF Init, SizeCountsLive
<1>4. ReducedByPlaced
    BY DEF Init, ReducedByPlaced, PlacedTrue, PlacedFalse, EmptyRule
<1>5. LoadUntouched
    BY DEF Init, LoadUntouched
<1> QED BY <1>1, <1>2, <1>3, <1>4, <1>5 DEF IInv

(* An action that does not touch the rules preserves what is said of them. *)
LEMMA UntouchedRules ==
    ASSUME IInv, RulesUnchanged
    PROVE  IndexExact' /\ SizeCountsLive' /\ ReducedByPlaced'
<1>1. IndexExact'
    BY DEF IInv, RulesUnchanged, IndexExact
<1>2. SizeCountsLive'
    BY DEF IInv, RulesUnchanged, SizeCountsLive
<1>3. ReducedByPlaced'
    BY DEF IInv, RulesUnchanged, ReducedByPlaced, PlacedTrue, PlacedFalse
<1> QED BY <1>1, <1>2, <1>3

(* Before anything is placed every rule is there, as it was read.          *)
LEMMA NothingPlaced ==
    ASSUME IInv, \A v \in Var : placed[v] = "unset"
    PROVE  /\ PlacedTrue = {} /\ PlacedFalse = {}
           /\ live = RuleIdx
           /\ \A i \in RuleIdx : /\ body[i] = theory[i].body
                                 /\ head[i] = theory[i].head
<1>1. PlacedTrue = {} /\ PlacedFalse = {}
    BY DEF PlacedTrue, PlacedFalse
<1>2. live = RuleIdx
    BY <1>1 DEF IInv, ReducedByPlaced, TypeOK
<1> QED BY <1>1, <1>2 DEF IInv, ReducedByPlaced

LEMMA AddToRulsArrayIInv ==
    ASSUME IInv, NEW v \in Var, NEW negative \in BOOLEAN,
           AddToRulsArray(v, negative)
    PROVE  IInv'
<1>1. /\ PlacedTrue = {} /\ PlacedFalse = {}
      /\ live = RuleIdx
      /\ \A i \in RuleIdx : body[i] = theory[i].body /\ head[i] = theory[i].head
    BY NothingPlaced DEF IInv, LoadUntouched, AddToRulsArray
<1>2. /\ index \in RuleIdx
      /\ \A i \in RuleIdx : theory[i] \in Rule
    BY DEF IInv, TypeOK, AddToRulsArray
<1>3. TypeOK'
    <2>1. todo' \subseteq Keys'
        BY DEF IInv, TypeOK, AddToRulsArray, Keys
    <2>2. CASE negative
        <3>1. theory' \in [RuleIdx -> Rule]
            BY <1>2, <2>2 DEF IInv, TypeOK, AddToRulsArray, Rule
        <3> QED BY <2>1, <2>2, <3>1 DEF IInv, TypeOK, AddToRulsArray
    <2>3. CASE ~negative
        <3>1. theory' \in [RuleIdx -> Rule]
            BY <1>2, <2>3 DEF IInv, TypeOK, AddToRulsArray, Rule
        <3> QED BY <2>1, <2>3, <3>1 DEF IInv, TypeOK, AddToRulsArray
    <2> QED BY <2>2, <2>3
<1>4. IndexExact'
    BY <1>1, <1>2 DEF IInv, TypeOK, IndexExact, AddToRulsArray
<1>5. SizeCountsLive'
    BY DEF IInv, SizeCountsLive, AddToRulsArray
<1>6. /\ PlacedTrue' = {} /\ PlacedFalse' = {}
      /\ live' = RuleIdx
    BY <1>1 DEF AddToRulsArray, PlacedTrue, PlacedFalse
<1>7. \A i \in RuleIdx : body'[i] = theory'[i].body /\ head'[i] = theory'[i].head
    <2> SUFFICES ASSUME NEW i \in RuleIdx
                 PROVE  body'[i] = theory'[i].body /\ head'[i] = theory'[i].head
        OBVIOUS
    <2>1. body[i] = theory[i].body /\ head[i] = theory[i].head /\ theory[i] \in Rule
        BY <1>1, <1>2
    <2>2. CASE i # index
        <3>1. body'[i] = body[i] /\ head'[i] = head[i] /\ theory'[i] = theory[i]
            BY <2>2 DEF IInv, TypeOK, AddToRulsArray
        <3> QED BY <2>1, <3>1
    <2>3. CASE i = index /\ negative
        <3>1. /\ body'[i] = body[i] \cup {v} /\ head'[i] = head[i]
              /\ theory'[i] = [theory[i] EXCEPT !.body = theory[i].body \cup {v}]
            BY <2>3 DEF IInv, TypeOK, AddToRulsArray
        <3> QED BY <2>1, <3>1 DEF Rule
    <2>4. CASE i = index /\ ~negative
        <3>1. /\ head'[i] = head[i] \cup {v} /\ body'[i] = body[i]
              /\ theory'[i] = [theory[i] EXCEPT !.head = theory[i].head \cup {v}]
            BY <2>4 DEF IInv, TypeOK, AddToRulsArray
        <3> QED BY <2>1, <3>1 DEF Rule
    <2> QED BY <2>2, <2>3, <2>4
<1>8. ReducedByPlaced'
    BY <1>6, <1>7 DEF ReducedByPlaced
<1>9. LoadUntouched'
    BY DEF IInv, LoadUntouched, AddToRulsArray
<1> QED BY <1>3, <1>4, <1>5, <1>8, <1>9 DEF IInv
-----------------------------------------------------------------------------
(* A variable that was placed is in no rule that is still there.           *)
LEMMA PlacedIsGone ==
    ASSUME IInv, NEW v \in Var, placed[v] # "unset"
    PROVE  varHT[v] = {}
<1>1. v \in PlacedTrue \/ v \in PlacedFalse
    BY DEF IInv, TypeOK, PlacedTrue, PlacedFalse, Value
<1>2. SUFFICES ASSUME NEW i \in varHT[v] PROVE FALSE
    OBVIOUS
<1>3. i \in RuleIdx /\ i \in live /\ v \in body[i] \cup head[i]
    BY DEF IInv, TypeOK, IndexExact
<1>4. /\ body[i] = theory[i].body \ PlacedTrue
      /\ head[i] = theory[i].head \ PlacedFalse
      /\ theory[i].body \cap PlacedFalse = {}
      /\ theory[i].head \cap PlacedTrue = {}
    BY <1>3 DEF IInv, ReducedByPlaced
<1> QED BY <1>1, <1>3, <1>4

(* Which rules a value deletes and which it shortens, in terms of the rules *)
(* alone: the index can be forgotten.                                      *)
LEMMA TouchedRules ==
    ASSUME IInv, NEW v \in Var, NEW val \in Value, NEW i \in RuleIdx
    PROVE  /\ i \in SatisfiedRules(v, val) <=>
                /\ i \in live
                /\ \/ v \in body[i] /\ val = "false"
                   \/ v \in head[i] /\ val = "true"
           /\ i \in ShortenedRules(v, val) <=>
                /\ i \in live
                /\ i \notin SatisfiedRules(v, val)
                /\ v \in IF val = "true" THEN body[i] ELSE head[i]
BY DEF IInv, IndexExact, SatisfiedRules, ShortenedRules

LEMMA PlacingIndexExact ==
    ASSUME IInv, NEW v \in Var, NEW val \in Value, ChangeDataStructure(v, val)
    PROVE  IndexExact'
<1> SUFFICES ASSUME NEW w \in Var, NEW i \in RuleIdx
             PROVE  (i \in varHT'[w]) <=> (i \in live' /\ w \in body'[i] \cup head'[i])
    BY DEF IndexExact
<1>1. (i \in varHT[w]) <=> (i \in live /\ w \in body[i] \cup head[i])
    BY DEF IInv, IndexExact
<1>2. i \in varHT'[w] <=>
        /\ i \in varHT[w]
        /\ ~(i \in SatisfiedRules(v, val) /\ w \in body[i] \cup head[i])
        /\ ~(w = v /\ i \in ShortenedRules(v, val))
    BY DEF ChangeDataStructure, IndexAfter
<1>3. i \in live' <=> i \in live /\ i \notin SatisfiedRules(v, val)
    BY DEF ChangeDataStructure
<1>4. CASE i \in SatisfiedRules(v, val)
    BY <1>1, <1>2, <1>3, <1>4
<1>5. CASE i \in ShortenedRules(v, val)
    <2>1. i \notin SatisfiedRules(v, val) /\ i \in live
        BY <1>5, TouchedRules
    <2>2. CASE val = "true"
        <3>1. body'[i] = body[i] \ {v} /\ head'[i] = head[i]
            BY <1>5, <2>1, <2>2 DEF ChangeDataStructure, BodyAfter, HeadAfter
        <3>2. v \in body[i] /\ v \notin head[i]
            BY <1>5, <2>1, <2>2, TouchedRules
        <3> QED BY <1>1, <1>2, <1>3, <1>5, <2>1, <3>1, <3>2
    <2>3. CASE val = "false"
        <3>1. head'[i] = head[i] \ {v} /\ body'[i] = body[i]
            BY <1>5, <2>1, <2>3 DEF ChangeDataStructure, BodyAfter, HeadAfter
        <3>2. v \in head[i] /\ v \notin body[i]
            BY <1>5, <2>1, <2>3, TouchedRules
        <3> QED BY <1>1, <1>2, <1>3, <1>5, <2>1, <3>1, <3>2
    <2> QED BY <2>2, <2>3 DEF Value
<1>6. CASE i \notin SatisfiedRules(v, val) /\ i \notin ShortenedRules(v, val)
    <2>1. body'[i] = body[i] /\ head'[i] = head[i]
        BY <1>6 DEF ChangeDataStructure, BodyAfter, HeadAfter
    <2> QED BY <1>1, <1>2, <1>3, <1>6, <2>1
<1> QED BY <1>4, <1>5, <1>6

LEMMA PlacingSize ==
    ASSUME IInv, NEW v \in Var, NEW val \in Value, ChangeDataStructure(v, val)
    PROVE  SizeCountsLive' /\ SIZE' \in Int
<1> DEFINE deleted == SatisfiedRules(v, val)
<1>1. IsFiniteSet(live)
    <2>1. IsFiniteSet(RuleIdx)
        BY FS_Interval, NumRulesAssumption, RuleIdxAssumption
    <2> QED BY <2>1, FS_Subset DEF IInv, TypeOK
<1>2. deleted \subseteq live
    BY DEF IInv, IndexExact, TypeOK, SatisfiedRules
<1>3. live \cap deleted = deleted
    BY <1>2
<1>4. Cardinality(live \ deleted) = Cardinality(live) - Cardinality(deleted)
    BY <1>1, <1>3, FS_Difference
<1>5. IsFiniteSet(deleted) /\ Cardinality(deleted) \in Nat
    BY <1>1, <1>2, FS_Subset, FS_CardinalityType
<1>6. SIZE' = SIZE - Cardinality(deleted) /\ live' = live \ deleted
    BY DEF ChangeDataStructure, SizeAfter
<1>7. SIZE = Cardinality(live) /\ SIZE \in Int
    BY DEF IInv, SizeCountsLive, TypeOK
<1> QED BY <1>4, <1>5, <1>6, <1>7 DEF SizeCountsLive

LEMMA PlacingReduced ==
    ASSUME IInv, NEW v \in Var, NEW val \in Value, ChangeDataStructure(v, val),
           theory' = theory
    PROVE  ReducedByPlaced'
<1>1. CASE placed[v] # "unset"
    <2>1. varHT[v] = {}
        BY <1>1, PlacedIsGone
    <2>2. SatisfiedRules(v, val) = {} /\ ShortenedRules(v, val) = {}
        BY <2>1 DEF SatisfiedRules, ShortenedRules
    <2>3. /\ body' = body /\ head' = head /\ live' = live /\ placed' = placed
        BY <1>1, <2>2
        DEF IInv, TypeOK, ChangeDataStructure, BodyAfter, HeadAfter
    <2> QED BY <2>3 DEF IInv, ReducedByPlaced, PlacedTrue, PlacedFalse
<1>2. CASE placed[v] = "unset"
    <2>1. /\ PlacedTrue' = IF val = "true" THEN PlacedTrue \cup {v} ELSE PlacedTrue
          /\ PlacedFalse' = IF val = "false" THEN PlacedFalse \cup {v} ELSE PlacedFalse
        BY <1>2 DEF IInv, TypeOK, ChangeDataStructure, PlacedTrue, PlacedFalse, Value
    <2>2. v \notin PlacedTrue /\ v \notin PlacedFalse
        BY <1>2 DEF PlacedTrue, PlacedFalse
    <2> SUFFICES ASSUME NEW i \in RuleIdx
                 PROVE  IF i \in live'
                        THEN /\ body'[i] = theory[i].body \ PlacedTrue'
                             /\ head'[i] = theory[i].head \ PlacedFalse'
                             /\ theory[i].body \cap PlacedFalse' = {}
                             /\ theory[i].head \cap PlacedTrue' = {}
                        ELSE \/ theory[i].body \cap PlacedFalse' # {}
                             \/ theory[i].head \cap PlacedTrue' # {}
        BY DEF ReducedByPlaced
    <2>3. IF i \in live
          THEN /\ body[i] = theory[i].body \ PlacedTrue
               /\ head[i] = theory[i].head \ PlacedFalse
               /\ theory[i].body \cap PlacedFalse = {}
               /\ theory[i].head \cap PlacedTrue = {}
          ELSE \/ theory[i].body \cap PlacedFalse # {}
               \/ theory[i].head \cap PlacedTrue # {}
        BY DEF IInv, ReducedByPlaced
    <2>4. live' = live \ SatisfiedRules(v, val)
        BY DEF ChangeDataStructure
    <2>5. CASE i \notin live
        BY <2>1, <2>3, <2>4, <2>5
    <2>6. CASE i \in SatisfiedRules(v, val)
        BY <2>1, <2>3, <2>4, <2>6, TouchedRules
    <2>7. CASE i \in live /\ i \notin SatisfiedRules(v, val)
        <3>1. /\ body'[i] = IF val = "true" THEN body[i] \ {v} ELSE body[i]
              /\ head'[i] = IF val = "false" THEN head[i] \ {v} ELSE head[i]
            BY <2>7, TouchedRules
            DEF ChangeDataStructure, BodyAfter, HeadAfter, Value
        <3>2. /\ val = "false" => v \notin body[i]
              /\ val = "true" => v \notin head[i]
            BY <2>7, TouchedRules
        <3> QED BY <2>1, <2>2, <2>3, <2>4, <2>7, <3>1, <3>2 DEF Value
    <2> QED BY <2>5, <2>6, <2>7
<1> QED BY <1>1, <1>2

LEMMA PlacingTypeOK ==
    ASSUME IInv, NEW v \in Var, NEW val \in Value, ChangeDataStructure(v, val)
    PROVE  /\ body' \in [RuleIdx -> SUBSET Var]
           /\ head' \in [RuleIdx -> SUBSET Var]
           /\ live' \subseteq RuleIdx
           /\ varHT' \in [Var -> SUBSET RuleIdx]
           /\ placed' \in [Var -> Value \cup {"unset"}]
<1>1. body' \in [RuleIdx -> SUBSET Var]
    BY DEF IInv, TypeOK, ChangeDataStructure, BodyAfter
<1>2. head' \in [RuleIdx -> SUBSET Var]
    BY DEF IInv, TypeOK, ChangeDataStructure, HeadAfter
<1>3. varHT' \in [Var -> SUBSET RuleIdx]
    BY DEF IInv, TypeOK, ChangeDataStructure, IndexAfter
<1> QED BY <1>1, <1>2, <1>3 DEF IInv, TypeOK, ChangeDataStructure

LEMMA PlaceKeyIInv ==
    ASSUME IInv, NEW k \in todo, PlaceKey(k)
    PROVE  IInv'
<1>1. /\ k \in Var /\ literalMap[k] \in Value
      /\ todo' \subseteq Keys'
      /\ minModel' \subseteq Var
    BY DEF IInv, TypeOK, Keys, PlaceKey, Value
<1>2. LoadUntouched'
    BY DEF PlaceKey, LoadUntouched
<1>3. CASE ConflictWithAssignment(k, literalMap[k])
    <2>1. RulesUnchanged
        BY <1>3 DEF PlaceKey, RulesUnchanged
    <2>2. TypeOK'
        BY <1>1, <2>1 DEF IInv, TypeOK, PlaceKey, RulesUnchanged
    <2> QED BY <1>2, <2>1, <2>2, UntouchedRules DEF IInv
<1>4. CASE ~ConflictWithAssignment(k, literalMap[k])
    <2>1. ChangeDataStructure(k, literalMap[k]) /\ theory' = theory
        BY <1>4 DEF PlaceKey
    <2>2. TypeOK'
        BY <1>1, <2>1, PlacingTypeOK, PlacingSize DEF IInv, TypeOK, PlaceKey
    <2>3. IndexExact' /\ SizeCountsLive' /\ ReducedByPlaced'
        BY <1>1, <2>1, PlacingIndexExact, PlacingSize, PlacingReduced
    <2> QED BY <1>2, <2>2, <2>3 DEF IInv
<1> QED BY <1>3, <1>4
-----------------------------------------------------------------------------
LEMMA StepIInv == IInv /\ [Next]_dsVars => IInv'
<1> SUFFICES ASSUME IInv, [Next]_dsVars PROVE IInv'
    OBVIOUS
<1>1. ASSUME NEW v \in Var, NEW negative \in BOOLEAN, AddToRulsArray(v, negative)
      PROVE  IInv'
    BY <1>1, AddToRulsArrayIInv
<1>2. CASE EndRule
    <2>1. RulesUnchanged
        BY <1>2 DEF EndRule, RulesUnchanged
    <2>2. TypeOK'
        BY <1>2, NumRulesAssumption, RuleIdxAssumption
        DEF IInv, TypeOK, EndRule, Keys
    <2> QED BY <1>2, <2>1, <2>2, UntouchedRules DEF IInv, LoadUntouched, EndRule
<1>3. CASE EndOfFile
    <2>1. RulesUnchanged
        BY <1>3 DEF EndOfFile, RulesUnchanged
    <2>2. TypeOK'
        BY <1>3 DEF IInv, TypeOK, EndOfFile, Keys
    <2> QED BY <1>3, <2>1, <2>2, UntouchedRules DEF IInv, LoadUntouched, EndOfFile
<1>4. ASSUME NEW v \in Var, NEW val \in Value, PutLiteral(v, val)
      PROVE  IInv'
    <2>1. RulesUnchanged
        BY <1>4 DEF PutLiteral, RulesUnchanged
    <2>2. TypeOK'
        BY <1>4 DEF IInv, TypeOK, PutLiteral, Keys, Value
    <2> QED BY <1>4, <2>1, <2>2, UntouchedRules DEF IInv, LoadUntouched, PutLiteral
<1>5. CASE UpdateRuleDS
    <2>1. RulesUnchanged
        BY <1>5 DEF UpdateRuleDS, RulesUnchanged
    <2>2. TypeOK'
        BY <1>5 DEF IInv, TypeOK, UpdateRuleDS, Keys
    <2> QED BY <1>5, <2>1, <2>2, UntouchedRules DEF IInv, LoadUntouched, UpdateRuleDS
<1>6. ASSUME NEW k \in todo, PlaceKey(k)
      PROVE  IInv'
    BY <1>6, PlaceKeyIInv
<1>7. CASE EndUpdate
    <2>1. RulesUnchanged
        BY <1>7 DEF EndUpdate, RulesUnchanged
    <2>2. TypeOK'
        BY <1>7 DEF IInv, TypeOK, EndUpdate, Keys
    <2> QED BY <1>7, <2>1, <2>2, UntouchedRules DEF IInv, LoadUntouched, EndUpdate
<1>8. CASE UNCHANGED dsVars
    <2>1. RulesUnchanged
        BY <1>8 DEF dsVars, RulesUnchanged
    <2>2. TypeOK'
        BY <1>8 DEF IInv, TypeOK, dsVars, Keys
    <2> QED BY <1>8, <2>1, <2>2, UntouchedRules DEF IInv, LoadUntouched, dsVars
<1> QED BY <1>1, <1>2, <1>3, <1>4, <1>5, <1>6, <1>7, <1>8 DEF Next

(* The inductive invariant holds in every reachable state.                 *)
THEOREM Invariance == Spec => []IInv
BY InitIInv, StepIInv, PTL DEF Spec

(* Every variable of the clause store keeps its type, SIZE and todo of     *)
(* updateRuleDS included.                                                  *)
THEOREM TypeCorrect == Spec => []TypeOK
<1>1. IInv => TypeOK
    BY DEF IInv
<1> QED BY <1>1, Invariance, PTL

(* varHT is exact whatever sequence of values is placed, so no call reaches *)
(* a rule that was deleted.                                                *)
THEOREM IndexIsExact == Spec => []IndexExact
<1>1. IInv => IndexExact
    BY DEF IInv
<1> QED BY <1>1, Invariance, PTL

(* SIZE is the number of rules left.                                       *)
THEOREM SizeIsCount == Spec => []SizeCountsLive
<1>1. IInv => SizeCountsLive
    BY DEF IInv
<1> QED BY <1>1, Invariance, PTL

(* The rules left are the theory of the file reduced by the placed values. *)
THEOREM Reduction == Spec => []ReducedByPlaced
<1>1. IInv => ReducedByPlaced
    BY DEF IInv
<1> QED BY <1>1, Invariance, PTL
-----------------------------------------------------------------------------
(* One rule: the original is satisfied by an interpretation that agrees    *)
(* with the placed values iff the rule was deleted or what is left is.     *)
LEMMA RuleEquivalent ==
    ASSUME IInv, NEW M \in SUBSET Var,
           PlacedTrue \subseteq M, PlacedFalse \cap M = {},
           NEW i \in RuleIdx
    PROVE  Satisfies(M, theory[i].body, theory[i].head)
             <=> (i \in live => Satisfies(M, body[i], head[i]))
<1>1. CASE i \notin live
    BY <1>1 DEF IInv, ReducedByPlaced, Satisfies
<1>2. CASE i \in live
    <2>1. /\ body[i] = theory[i].body \ PlacedTrue
          /\ head[i] = theory[i].head \ PlacedFalse
        BY <1>2 DEF IInv, ReducedByPlaced
    <2>2. body[i] \subseteq M <=> theory[i].body \subseteq M
        BY <2>1
    <2>3. head[i] \cap M # {} <=> theory[i].head \cap M # {}
        BY <2>1
    <2> QED BY <1>2, <2>2, <2>3 DEF Satisfies
<1> QED BY <1>1, <1>2

LEMMA Equivalence == IInv => ResidualEquivalent
<1> SUFFICES ASSUME IInv, NEW M \in SUBSET Var,
                    PlacedTrue \subseteq M, PlacedFalse \cap M = {}
             PROVE  (\A i \in RuleIdx : Satisfies(M, theory[i].body, theory[i].head))
                      <=> (\A i \in live : Satisfies(M, body[i], head[i]))
    BY DEF ResidualEquivalent, IsModel
<1>1. live \subseteq RuleIdx
    BY DEF IInv, TypeOK
<1> QED BY <1>1, RuleEquivalent

(* Placing values neither loses nor adds a model.                          *)
THEOREM ModelsPreserved == Spec => []ResidualEquivalent
BY Invariance, Equivalence, PTL

(* No sequence of placements empties a rule: the loops on SIZE are never   *)
(* left with a rule that nothing can delete.                               *)
THEOREM RulesStayNonEmpty == Spec => NoRuleEmptied
<1> DEFINE Kept == \A i \in live' : body[i] \cup head[i] # {} =>
                                    body'[i] \cup head'[i] # {}
<1>1. IInv /\ [Next]_dsVars => [Kept]_dsVars
    <2> SUFFICES ASSUME IInv, Next PROVE Kept
        BY DEF dsVars
    <2> SUFFICES ASSUME NEW i \in live', body[i] \cup head[i] # {}
                 PROVE  body'[i] \cup head'[i] # {}
        OBVIOUS
    <2>1. ASSUME NEW v \in Var, NEW negative \in BOOLEAN, AddToRulsArray(v, negative)
          PROVE  body'[i] \cup head'[i] # {}
        <3>1. i \in RuleIdx
            BY <2>1 DEF IInv, TypeOK, AddToRulsArray
        <3>2. body[i] \subseteq body'[i] /\ head[i] \subseteq head'[i]
            BY <2>1, <3>1 DEF IInv, TypeOK, AddToRulsArray
        <3> QED BY <3>2
    <2>2. ASSUME NEW k \in todo, PlaceKey(k), ~ConflictWithAssignment(k, literalMap[k])
          PROVE  body'[i] \cup head'[i] # {}
        <3> DEFINE val == literalMap[k]
        <3>1. k \in Var /\ val \in Value
            BY DEF IInv, TypeOK, Keys, Value
        <3>2. ChangeDataStructure(k, val)
            BY <2>2 DEF PlaceKey
        <3>3. i \in RuleIdx /\ i \in live /\ i \notin SatisfiedRules(k, val)
            BY <3>2 DEF ChangeDataStructure, IInv, TypeOK
        <3>4. CASE i \notin ShortenedRules(k, val)
            BY <3>2, <3>3, <3>4 DEF ChangeDataStructure, BodyAfter, HeadAfter
        <3>5. CASE i \in ShortenedRules(k, val) /\ val = "true"
            <4>1. body'[i] = body[i] \ {k} /\ head'[i] = head[i]
                BY <3>2, <3>3, <3>5 DEF ChangeDataStructure, BodyAfter, HeadAfter
            <4>2. i \in varHT[k] /\ k \in body[i]
                BY <3>5 DEF ShortenedRules
            <4>3. ~(body[i] = {k} /\ head[i] = {})
                BY <2>2, <3>5, <4>2 DEF ConflictWithAssignment
            <4> QED BY <4>1, <4>2, <4>3
        <3>6. CASE i \in ShortenedRules(k, val) /\ val = "false"
            <4>1. head'[i] = head[i] \ {k} /\ body'[i] = body[i]
                BY <3>2, <3>3, <3>6 DEF ChangeDataStructure, BodyAfter, HeadAfter
            <4>2. i \in varHT[k] /\ k \in head[i]
                BY <3>6 DEF ShortenedRules
            <4>3. ~(head[i] = {k} /\ body[i] = {})
                BY <2>2, <3>6, <4>2 DEF ConflictWithAssignment
            <4> QED BY <4>1, <4>2, <4>3
        <3> QED BY <3>1, <3>4, <3>5, <3>6 DEF Value
    <2>3. ASSUME NEW k \in todo, PlaceKey(k), ConflictWithAssignment(k, literalMap[k])
          PROVE  body'[i] \cup head'[i] # {}
        BY <2>3 DEF PlaceKey
    <2>4. ASSUME UNCHANGED <<body, head>>
          PROVE  body'[i] \cup head'[i] # {}
        BY <2>4
    <2> QED BY <2>1, <2>2, <2>3, <2>4
        DEF Next, EndRule, EndOfFile, PutLiteral, UpdateRuleDS, EndUpdate
<1> QED BY <1>1, Invariance, PTL DEF Spec, NoRuleEmptied
-----------------------------------------------------------------------------
Values == [Var -> Value \cup {"unset"}]

(* The store is exact between and inside the calls of every driver, and    *)
(* whatever is put in literalMap is a value.                               *)
StoreInv ==
    /\ IInv
    /\ phase \in {"ready", "update"}
    /\ phase = "ready" => todo = {}
    /\ literals \in Values
    /\ units \in Values
    /\ \A p \in DOMAIN sent : sent[p] \in Values
-----------------------------------------------------------------------------
LEMMA CountOfRules == Cardinality(RuleIdx) = NumRules
BY FS_Interval, NumRulesAssumption, RuleIdxAssumption

LEMMA StoreInit == SolverInit => StoreInv
<1> SUFFICES ASSUME SolverInit PROVE StoreInv
    OBVIOUS
<1>1. PICK t \in Theories : ReadTheory(t)
    BY DEF SolverInit, StartInit
<1>2. t \in [RuleIdx -> Rule]
    BY TheoriesAssumption
<1>3. TypeOK
    BY <1>1, <1>2, NumRulesAssumption, RuleIdxAssumption
    DEF ReadTheory, TypeOK, Keys, NoValues, Rule, RulesWith, Value
<1>4. IndexExact
    BY <1>1, <1>2 DEF ReadTheory, IndexExact, RulesWith
<1>5. SizeCountsLive
    BY <1>1, CountOfRules DEF ReadTheory, SizeCountsLive
<1>6. ReducedByPlaced
    BY <1>1, <1>2 DEF ReadTheory, ReducedByPlaced, PlacedTrue, PlacedFalse, NoValues
<1>7. LoadUntouched
    BY <1>1 DEF ReadTheory, LoadUntouched
<1>8. /\ phase = "ready" /\ todo = {}
      /\ literals = NoValues /\ units = NoValues /\ sent = <<>>
    BY <1>1 DEF ReadTheory, SolverInit, StartInit
<1> QED BY <1>3, <1>4, <1>5, <1>6, <1>7, <1>8 DEF StoreInv, IInv, Values, NoValues

(* A step that changes values and leaves the rules alone.                  *)
LEMMA OtherValues ==
    ASSUME StoreInv, RulesUnchanged, UNCHANGED <<index, minModel>>,
           phase' \in {"ready", "update"}, literalMap' \in Values, todo' \subseteq Keys'
    PROVE  IInv'
<1>1. TypeOK'
    BY DEF StoreInv, IInv, TypeOK, RulesUnchanged, Values
<1>2. IInv
    BY DEF StoreInv
<1> QED BY <1>1, <1>2, UntouchedRules DEF IInv, LoadUntouched

LEMMA StartUpdateStore ==
    ASSUME StoreInv, NEW m \in Values, StartUpdate(m)
    PROVE  IInv' /\ phase' = "update"
<1>1. RulesUnchanged /\ UNCHANGED <<index, minModel>>
    BY DEF StartUpdate, RulesUnchanged
<1>2. literalMap' \in Values /\ todo' \subseteq Keys'
    BY DEF StartUpdate, Keys
<1> QED BY <1>1, <1>2, OtherValues DEF StartUpdate

LEMMA CopyStoreStore ==
    ASSUME StoreInv, CopyStore, UNCHANGED <<phase, index, todo, theory>>, phase = "ready",
           literalMap' \in Values
    PROVE  IInv'
<1>1. theory \in [RuleIdx -> Rule]
    BY DEF StoreInv, IInv, TypeOK
<1>2. TypeOK'
    BY <1>1, NumRulesAssumption
    DEF StoreInv, IInv, TypeOK, CopyStore, RuleBodies, RuleHeads, RulesWith, Rule, NoValues, Values, Keys
<1>3. IndexExact'
    BY <1>1 DEF CopyStore, IndexExact, RuleBodies, RuleHeads, RulesWith
<1>4. SizeCountsLive'
    BY CountOfRules DEF CopyStore, SizeCountsLive
<1>5. ReducedByPlaced'
    BY <1>1 DEF CopyStore, ReducedByPlaced, RuleBodies, RuleHeads, PlacedTrue, PlacedFalse, NoValues
<1>6. LoadUntouched'
    BY DEF LoadUntouched
<1> QED BY <1>2, <1>3, <1>4, <1>5, <1>6 DEF IInv

LEMMA PlaceStore ==
    ASSUME StoreInv, NEW who, Place(who)
    PROVE  /\ IInv'
           /\ phase' \in {"ready", "update"}
           /\ phase' = "ready" => todo' = {}
<1>1. ASSUME NEW k \in todo, PlaceKey(k)
      PROVE  IInv' /\ phase' = "update"
    BY <1>1, PlaceKeyIInv DEF StoreInv, PlaceKey
<1>2. CASE EndUpdate
    BY <1>2, StepIInv DEF StoreInv, Next, EndUpdate
<1> QED BY <1>1, <1>2 DEF Place, EndUpdate

LEMMA LeastOfNaturals ==
    ASSUME NEW S \in SUBSET Nat, S # {}
    PROVE  \E k \in S : \A j \in S : k <= j
<1> DEFINE below == OpToRel(<, Nat)
<1>1. \E k \in S : \A j \in S : <<j, k>> \notin below
    BY NatLessThanWellFounded, WFMin, ZenonT(30)
<1>2. \A j, k \in Nat : <<j, k>> \notin below => k <= j
    BY DEF OpToRel
<1> HIDE DEF below
<1> QED BY <1>1, <1>2

(* The merge of the messages is a map of values.                           *)
LEMMA MergedValues ==
    ASSUME StoreInv, NEW c, DOMAIN sent \subseteq ToSet(components),
           Parents(c) \subseteq DOMAIN sent, NEW list \in SetToSeqs(Parents(c))
    PROVE  Merged(list) \in Values
<1> SUFFICES ASSUME NEW v \in Var
             PROVE  Merged(list)[v] \in Value \cup {"unset"}
    BY DEF Merged, Values
<1> DEFINE told == {k \in DOMAIN list : sent[list[k]][v] # "unset"}
<1>1. CASE told = {}
    BY <1>1 DEF Merged
<1>2. CASE told # {}
    <2>1. list \in [1 .. Cardinality(Parents(c)) -> Parents(c)]
        BY DEF SetToSeqs
    <2>2. told \subseteq Nat
        BY <2>1
    <2>3. \E k \in told : \A j \in told : k <= j
        BY <1>2, <2>2, LeastOfNaturals
    <2>4. (CHOOSE k \in told : \A j \in told : k <= j) \in told
        BY <2>3
    <2>5. \A k \in DOMAIN list : sent[list[k]] \in Values
        BY <2>1 DEF StoreInv
    <2> QED BY <1>2, <2>4, <2>5 DEF Merged, Values
<1> QED BY <1>1, <1>2
-----------------------------------------------------------------------------
(* One lemma for the steps that leave the rules as they are.               *)
LEMMA ValuesStore ==
    ASSUME StoreInv, RulesUnchanged, UNCHANGED <<index, minModel, todo>>,
           phase = "ready", phase' = "ready", literalMap' \in Values,
           literals' \in Values, units' \in Values, sent' = sent
    PROVE  StoreInv'
<1>1. todo' \subseteq Keys'
    BY DEF StoreInv
<1>2. IInv'
    BY <1>1, OtherValues
<1> QED BY <1>2 DEF StoreInv

LEMMA CallStore ==
    ASSUME StoreInv, NEW m \in Values, StartUpdate(m),
           literals' \in Values, units' \in Values, sent' = sent
    PROVE  StoreInv'
BY StartUpdateStore DEF StoreInv

LEMMA PutValues ==
    ASSUME NEW m \in Values, NEW v, NEW val \in Value
    PROVE  [m EXCEPT ![v] = val] \in Values
BY DEF Values

LEMMA PlaceUnitStore ==
    ASSUME StoreInv, PlaceUnit, literals' = literals, sent' = sent
    PROVE  StoreInv'
<1> DEFINE i == CHOOSE j \in UnitsFrom(rule) : \A k \in UnitsFrom(rule) : j <= k
           m == [literalMap EXCEPT ![UnitVar(i)] = UnitValue(i)]
<1>1. UnitValue(i) \in Value
    BY DEF UnitValue, Value
<1>2. literalMap \in Values /\ units \in Values
    BY DEF StoreInv, IInv, TypeOK, Values
<1>3. m \in Values
    BY <1>1, <1>2, PutValues
<1>4. units' = [units EXCEPT ![UnitVar(i)] = UnitValue(i)] /\ StartUpdate(m)
    BY DEF PlaceUnit
<1>5. units' \in Values
    BY <1>1, <1>2, <1>4, PutValues
<1> QED BY <1>3, <1>4, <1>5, CallStore DEF StoreInv

LEMMA AllFalseValues ==
    ASSUME StoreInv, NEW S
    PROVE  /\ AllFalse(S) \in Values
           /\ \A M : ValuesOf(M, S) \in Values
BY DEF StoreInv, IInv, TypeOK, Values, AllFalse, ValuesOf, Value

LEMMA SearchStore ==
    ASSUME StoreInv, SearchStep, literals' = literals, sent' = sent
    PROVE  StoreInv'
<1>1. literalMap \in Values
    BY DEF StoreInv, IInv, TypeOK, Values
<1>2. \A l : D!Put(l) \in Values
    BY <1>1 DEF D!Put, Values, Value
<1>3. literalMap' \in Values
    BY <1>1, <1>2
    DEF SearchStep, D!Next, D!NoClauses, D!Propagate, D!Split, D!Backtrack, D!Unsatisfiable
<1>4. /\ RulesUnchanged /\ UNCHANGED <<index, minModel, todo, phase, units>>
      /\ phase = "ready"
    BY DEF SearchStep, RulesUnchanged, unitVars, At
<1> QED BY <1>3, <1>4, ValuesStore DEF StoreInv

LEMMA SolveSourceStore ==
    ASSUME StoreInv, SolveSource, literals' = literals, sent' = sent
    PROVE  StoreInv'
<1>1. units' = units
    BY DEF SolveSource, unitVars
<1>2. ASSUME NEW m \in Values, StartUpdate(m) PROVE StoreInv'
    BY <1>1, <1>2, CallStore DEF StoreInv
<1>3. CASE StartUpdate(AllFalse(source'))
    BY <1>2, <1>3, AllFalseValues
<1>4. CASE \E M \in Answers(source') \ {{}} : StartUpdate(ValuesOf(M, source'))
    BY <1>2, <1>4, AllFalseValues
<1>5. CASE /\ literalMap' = AllFalse(source')
           /\ UNCHANGED <<phase, index, body, head, live, varHT, minModel, SIZE, todo,
                          theory, placed>>
    <2>1. literalMap' \in Values
        BY <1>5, AllFalseValues
    <2>2. RulesUnchanged /\ phase = "ready"
        BY <1>5 DEF RulesUnchanged, SolveSource, At
    <2> QED BY <1>1, <1>5, <2>1, <2>2, ValuesStore DEF StoreInv
<1> QED BY <1>3, <1>4, <1>5 DEF SolveSource

LEMMA FindMinimalModelsStore ==
    ASSUME StoreInv, NEW c, FindMinimalModels(c)
    PROVE  StoreInv'
<1>1. DOMAIN sent \subseteq ToSet(components) /\ Parents(c) \subseteq DOMAIN sent
    BY DEF FindMinimalModels, ToSet
<1>2. literalMap' \in Values
    BY <1>1, MergedValues DEF FindMinimalModels
<1>3. /\ phase = "ready" /\ CopyStore
      /\ UNCHANGED <<phase, index, todo, theory, units, sent>>
      /\ literals' = literalMap'
    BY DEF FindMinimalModels, At, unitVars
<1>4. IInv'
    BY <1>2, <1>3, CopyStoreStore
<1> QED BY <1>2, <1>3, <1>4 DEF StoreInv
-----------------------------------------------------------------------------
LEMMA CentralisedStore ==
    ASSUME StoreInv, CentralisedRun, UNCHANGED clientVars
    PROVE  StoreInv'
<1>1. literals' = literals /\ sent' = sent /\ literals \in Values
    BY DEF clientVars, StoreInv
<1>2. ASSUME NEW who, Place(who) PROVE StoreInv'
    <2>1. units' = units
        BY <1>2 DEF Place, unitVars
    <2> QED BY <1>1, <1>2, <2>1, PlaceStore DEF StoreInv
<1>3. ASSUME NEW end, LoopTest(end) PROVE StoreInv'
    <2>1. /\ RulesUnchanged /\ phase = "ready"
          /\ UNCHANGED <<index, minModel, todo, phase, literalMap>>
        BY <1>3 DEF LoopTest, dsVars, RulesUnchanged, At
    <2>2. units' \in Values /\ literalMap' \in Values
        BY <1>3, <2>1 DEF LoopTest, NoValues, Values, StoreInv, IInv, TypeOK
    <2> QED BY <1>1, <2>1, <2>2, ValuesStore
<1>4. CASE PlaceUnit
    BY <1>1, <1>4, PlaceUnitStore
<1>5. ASSUME NEW next, EndOfPass(next) PROVE StoreInv'
    <2>1. /\ RulesUnchanged /\ phase = "ready"
          /\ UNCHANGED <<index, minModel, todo, phase, literalMap, units>>
        BY <1>5 DEF EndOfPass, dsVars, RulesUnchanged, At
    <2>2. units' \in Values /\ literalMap' \in Values
        BY <2>1 DEF Values, StoreInv, IInv, TypeOK
    <2> QED BY <1>1, <2>1, <2>2, ValuesStore
<1>6. CASE PickSource
    <2>1. /\ RulesUnchanged /\ phase = "ready"
          /\ UNCHANGED <<index, minModel, todo, phase, units>>
        BY <1>6 DEF PickSource, StartDLL, RulesUnchanged, At, unitVars
    <2>2. literalMap' \in Values
        BY <1>6, AllFalseValues DEF PickSource
    <2> QED BY <1>1, <2>1, <2>2, ValuesStore DEF StoreInv
<1>7. CASE TakeAllRules
    <2>1. /\ RulesUnchanged /\ phase = "ready"
          /\ UNCHANGED <<index, minModel, todo, phase, units, literalMap>>
        BY <1>7 DEF TakeAllRules, StartDLL, RulesUnchanged, At, unitVars
    <2>2. literalMap' \in Values
        BY <2>1 DEF Values, StoreInv, IInv, TypeOK
    <2> QED BY <1>1, <2>1, <2>2, ValuesStore DEF StoreInv
<1>8. CASE SearchStep
    BY <1>1, <1>8, SearchStore
<1>9. ASSUME NEW next, DllReturns(next) PROVE StoreInv'
    <2>1. units' = units /\ phase = "ready" /\ literalMap \in Values
        BY <1>9 DEF DllReturns, unitVars, At, Values, StoreInv, IInv, TypeOK
    <2>2. CASE StartUpdate(literalMap)
        BY <1>1, <2>1, <2>2, CallStore DEF StoreInv
    <2>3. CASE UNCHANGED dsVars
        BY <1>1, <2>1, <2>3, ValuesStore DEF StoreInv, dsVars, RulesUnchanged
    <2> QED BY <1>9, <2>2, <2>3 DEF DllReturns
<1>10. CASE SolveSource
    BY <1>1, <1>10, SolveSourceStore
<1> QED
    BY <1>2, <1>3, <1>4, <1>5, <1>6, <1>7, <1>8, <1>9, <1>10
    DEF CentralisedRun, ModuMinUsingDP, ModuminUsingWASP, DP
LEMMA ClientsStore ==
    ASSUME StoreInv, Clients
    PROVE  StoreInv'
<1>1. literals \in Values /\ units \in Values /\ literalMap \in Values
    BY DEF StoreInv, IInv, TypeOK, Values
<1>2. CASE UNCHANGED clientVars /\ Place(client)
    <2>1. units' = units
        BY <1>2 DEF Place, unitVars
    <2> QED BY <1>2, <2>1, PlaceStore DEF StoreInv, clientVars
<1>3. CASE UNCHANGED clientVars /\ LoopTest("send")
    <2>1. /\ RulesUnchanged /\ phase = "ready"
          /\ UNCHANGED <<index, minModel, todo, phase, literalMap, literals, sent>>
        BY <1>3 DEF LoopTest, dsVars, RulesUnchanged, At, clientVars
    <2>2. units' \in Values
        BY <1>3 DEF LoopTest, NoValues, Values
    <2> QED BY <1>1, <2>1, <2>2, ValuesStore
<1>4. CASE UNCHANGED clientVars /\ PlaceUnit
    BY <1>4, PlaceUnitStore DEF clientVars
<1>5. CASE UNCHANGED clientVars /\ EndOfPass("literals")
    <2>1. /\ RulesUnchanged /\ phase = "ready"
          /\ UNCHANGED <<index, minModel, todo, phase, literalMap, units, literals, sent>>
        BY <1>5 DEF EndOfPass, dsVars, RulesUnchanged, At, clientVars
    <2> QED BY <1>1, <2>1, ValuesStore
<1>6. CASE CreateModelGraph \/ Incoherent \/ NextSource
    <2>1. /\ RulesUnchanged /\ phase = "ready"
          /\ UNCHANGED <<index, minModel, todo, phase, literalMap, units, literals, sent>>
        BY <1>6
        DEF CreateModelGraph, Incoherent, NextSource, dsVars, RulesUnchanged, At, clientVars, unitVars
    <2> QED BY <1>1, <2>1, ValuesStore
<1>7. ASSUME NEW c, FindMinimalModels(c) PROVE StoreInv'
    BY <1>7, FindMinimalModelsStore
<1>8. CASE PlaceLiterals
    <2>1. Updated(literals, units) \in Values
        BY <1>1 DEF Updated, Values
    <2>2. /\ literals' = Updated(literals, units) /\ StartUpdate(literals')
          /\ units' = units /\ sent' = sent
        BY <1>8 DEF PlaceLiterals, unitVars
    <2> QED BY <1>1, <2>1, <2>2, CallStore
<1>9. CASE Solve
    <2>1. units' = units /\ sent' = sent
        BY <1>9 DEF Solve, unitVars
    <2>2. PICK M : /\ literals' = Updated(literals, ValuesOf(M, source))
                   /\ StartUpdate(ValuesOf(M, source))
        BY <1>9 DEF Solve
    <2>3. ValuesOf(M, source) \in Values
        BY AllFalseValues
    <2>4. literals' \in Values
        BY <1>1, <2>2, <2>3 DEF Updated, Values
    <2> QED BY <1>1, <2>1, <2>2, <2>3, <2>4, CallStore
<1>10. CASE NoModel
    <2>1. /\ RulesUnchanged /\ phase = "ready"
          /\ UNCHANGED <<index, minModel, todo, phase, units, literals, sent>>
        BY <1>10 DEF NoModel, RulesUnchanged, At, unitVars
    <2>2. literalMap' \in Values
        BY <1>10, AllFalseValues DEF NoModel
    <2> QED BY <1>1, <2>1, <2>2, ValuesStore
<1>11. CASE SendMessage
    <2>1. /\ UNCHANGED dsVars
          /\ UNCHANGED <<units, literals>>
          /\ sent' = FromClient(sent, literals)
        BY <1>11 DEF SendMessage, unitVars
    <2>2. \A p \in DOMAIN sent' : sent'[p] \in Values
        BY <1>1, <2>1 DEF StoreInv, FromClient
    <2>3. RulesUnchanged /\ UNCHANGED <<index, minModel, todo, phase, literalMap>>
        BY <2>1 DEF dsVars, RulesUnchanged
    <2>4. IInv'
        BY <1>1, <2>3, OtherValues DEF StoreInv, IInv, TypeOK, Keys
    <2> QED BY <2>1, <2>2, <2>3, <2>4 DEF StoreInv
<1> QED
    BY <1>2, <1>3, <1>4, <1>5, <1>6, <1>7, <1>8, <1>9, <1>10, <1>11 DEF Clients

LEMMA StoreStep == StoreInv /\ [SolverNext]_vars => StoreInv'
<1> SUFFICES ASSUME StoreInv, [SolverNext]_vars PROVE StoreInv'
    OBVIOUS
<1>1. CASE CentralisedRun /\ UNCHANGED clientVars
    BY <1>1, CentralisedStore
<1>2. CASE Clients
    BY <1>2, ClientsStore
<1>3. CASE UNCHANGED vars
    <2>1. /\ UNCHANGED dsVars
          /\ UNCHANGED <<units, literals, sent>>
        BY <1>3 DEF vars, unitVars, clientVars
    <2>2. IInv'
        BY <2>1, StepIInv DEF StoreInv
    <2> QED BY <2>1, <2>2 DEF StoreInv, dsVars
<1> QED BY <1>1, <1>2, <1>3 DEF SolverNext

(* No step of a driver leaves the store inexact.                           *)
THEOREM StoreInvariance == SolverSpec => []StoreInv
BY StoreInit, StoreStep, PTL DEF SolverSpec

(* Whatever the driver, and whatever the solvers answer, the index of the  *)
(* rules is exact when updateRuleDS runs.                                  *)
THEOREM RunsKeepIndex == SolverSpec => []IndexExact
<1>1. StoreInv => IndexExact
    BY DEF StoreInv, IInv
<1> QED BY <1>1, StoreInvariance, PTL

(* In every run of ModuMin and of the clients the rules left are those of  *)
(* the file reduced by the placed values: no model that agrees with these  *)
(* is lost, and none is added.                                             *)
THEOREM RunsPreserveModels == SolverSpec => []ResidualEquivalent
<1>1. StoreInv => ResidualEquivalent
    BY Equivalence DEF StoreInv
<1> QED BY <1>1, StoreInvariance, PTL
-----------------------------------------------------------------------------
(* The values of literalMap that updateRuleDS has still to place.          *)
Pending(val) == {v \in todo : literalMap[v] = val /\ placed[v] = "unset"}

(* Every model of the theory without a variable of F contains T.           *)
ForcedBy(F, T) ==
    \A N \in SUBSET Var : TheoryModel(N) /\ N \cap F = {} => T \subseteq N

(* The true values, placed and pending, are forced by the false ones.      *)
Forced == ForcedBy(PlacedFalse \cup Pending("false"), PlacedTrue \cup Pending("true"))

PositiveUnit(v) == \E i \in live : body[i] = {} /\ head[i] = {v}
NegativeUnit(v) == \E i \in live : body[i] = {v} /\ head[i] = {}

(* A variable is in minModel if it was placed, or if it was refused because *)
(* of a rule that contradicts its unit rule.                               *)
Recorded ==
    /\ PlacedTrue \subseteq minModel
    /\ \A v \in minModel : v \in PlacedTrue \/ (PositiveUnit(v) /\ NegativeUnit(v))

(* What updateRuleDS places for checkForUnits, and for the solver.         *)
UnitPending ==
    \A k \in todo :
        /\ todo = {k}
        /\ IF literalMap[k] = "true" THEN PositiveUnit(k) ELSE NegativeUnit(k)
        /\ backtracked \/ ForcedBy(PlacedFalse, PlacedTrue)

SourcePending ==
    /\ \A i \in live :
          body[i] \cup head[i] # {} /\ body[i] \cup head[i] \subseteq todo =>
              \/ \E v \in body[i] : literalMap[v] = "false"
              \/ \E v \in head[i] : literalMap[v] = "true"
    /\ \A k \in todo : literalMap[k] = "true" => placed[k] = "unset"

(* DLL on the lists of the store, with the sets they stand for beside them. *)
DLL == INSTANCE DPLLProofs WITH
    input       <- D!AsSets(formula),
    clauses     <- D!AsSets(clauses),
    stack       <- [k \in 1 .. Len(stack) |->
                      [clauses |-> D!AsSets(stack[k].clauses), trail |-> stack[k].trail]],
    listInput   <- formula,
    listClauses <- clauses,
    listStack   <- stack,
    Formulas    <- {}

(* DLL searches a model of the rules I: their models are those of its      *)
(* clauses, and until a branch fails literalMap has no other true values   *)
(* than the branch.                                                        *)
Solving(I) ==
    /\ DLL!CallInv
    /\ \A N \in SUBSET Var : DLL!Models(N, D!AsSets(formula)) <=> IsModel(N, I, body, head)
    /\ \A v \in DLL!VarsOf(D!AsSets(formula)) : \E i \in I : v \in body[i] \cup head[i]
    /\ backtracked \/ DLL!TrueVars = DLL!BranchModel

(* The run of ModuMinUsingDP or ModuminUsingWASP.                          *)
RunInv ==
    /\ backtracked \/ Forced
    /\ Recorded
    /\ pc \in {"test", "units", "graph", "dll", "done", "unsat", "dead"}
    /\ phase = "update" => \/ pc = "units" /\ UnitPending
                           \/ pc = "test" /\ SourcePending
    /\ phase = "ready" /\ pc \in {"test", "units", "graph"} => Keys = {}
    /\ pc = "dll" => source \in SUBSET Var /\ Keys = source /\ Solving(Ts(source))
    /\ pc = "done" => SIZE = 0

(* The run of DP: one call for the whole theory, whose values are a model  *)
(* of it, in minModel or still to be placed.                               *)
TrueToPlace == {v \in todo : literalMap[v] = "true"}

TheoryInv ==
    /\ pc \in {"all", "dll", "done", "unsat"}
    /\ pc = "all" => Keys = {}
    /\ pc \in {"all", "dll"} =>
          phase = "ready" /\ minModel = {} /\ \A v \in Var : placed[v] = "unset"
    /\ pc = "dll" => Solving(RuleIdx)
    /\ pc = "done" => /\ TheoryModel(minModel \cup TrueToPlace)
                      /\ backtracked \/ TheoryMinimal(minModel \cup TrueToPlace)

(* A file may have a rule without literals.  DP makes it an empty clause,  *)
(* and pickLiteral throws if that is the first one.                        *)
NoEmptyRule == \A i \in RuleIdx : theory[i].body \cup theory[i].head # {}

CentralInv ==
    /\ StoreInv
    /\ driver \in {"ModuMinUsingDP", "ModuminUsingWASP"} => RunInv
    /\ driver = "DP" /\ NoEmptyRule => TheoryInv
-----------------------------------------------------------------------------
(* A model that agrees with the placed values is one of the rules left.    *)
LEMMA ModelOfTheRest ==
    ASSUME IInv, NEW N \in SUBSET Var, TheoryModel(N),
           PlacedTrue \subseteq N, N \cap PlacedFalse = {}
    PROVE  \A i \in live : Satisfies(N, body[i], head[i])
<1>1. ResidualEquivalent
    BY Equivalence
<1> QED BY <1>1 DEF ResidualEquivalent, TheoryModel, IsModel, RuleBodies, RuleHeads

(* A variable of a rule that is left was not placed.                       *)
LEMMA LiveUnplaced ==
    ASSUME IInv, NEW i \in live, NEW v \in body[i] \cup head[i]
    PROVE  v \in Var /\ placed[v] = "unset" /\ i \in varHT[v]
<1>1. i \in RuleIdx /\ v \in Var
    BY DEF IInv, TypeOK
<1>2. i \in varHT[v]
    BY <1>1 DEF IInv, IndexExact
<1> QED BY <1>1, <1>2, PlacedIsGone

LEMMA UnitRule ==
    ASSUME IInv, NEW i \in RuleIdx, Cardinality(body[i]) + Cardinality(head[i]) = 1
    PROVE  /\ UnitVar(i) \in Var
           /\ IF UnitValue(i) = "true" THEN body[i] = {} /\ head[i] = {UnitVar(i)}
                                      ELSE body[i] = {UnitVar(i)} /\ head[i] = {}
           /\ UnitValue(i) \in Value
<1>1. /\ body[i] \subseteq Var /\ head[i] \subseteq Var
    BY DEF IInv, TypeOK
<1>2. IsFiniteSet(body[i]) /\ IsFiniteSet(head[i])
    BY <1>1, FS_Subset, VarAssumption
<1>3. Cardinality(body[i]) \in Nat /\ Cardinality(head[i]) \in Nat
    BY <1>2, FS_CardinalityType
<1>4. CASE Cardinality(body[i]) = 0 /\ Cardinality(head[i]) = 1
    <2>1. body[i] = {} /\ \E v : head[i] = {v}
        BY <1>2, <1>4, FS_EmptySet, FS_Singleton
    <2> QED BY <1>1, <2>1 DEF UnitVar, UnitValue, Value
<1>5. CASE Cardinality(body[i]) = 1 /\ Cardinality(head[i]) = 0
    <2>1. head[i] = {} /\ \E v : body[i] = {v}
        BY <1>2, <1>5, FS_EmptySet, FS_Singleton
    <2> QED BY <1>1, <2>1 DEF UnitVar, UnitValue, Value
<1> QED BY <1>3, <1>4, <1>5
-----------------------------------------------------------------------------
(* One key of updateRuleDS that is not refused.                            *)
LEMMA PlacingForced ==
    ASSUME IInv, Forced, NEW k \in todo, PlaceKey(k),
           ~ConflictWithAssignment(k, literalMap[k])
    PROVE  Forced'
<1>1. k \in Var /\ literalMap[k] \in Value
    BY DEF IInv, TypeOK, Keys, Value
<1>2. /\ placed' = [placed EXCEPT ![k] = IF @ = "unset" THEN literalMap[k] ELSE @]
      /\ todo' = todo \ {k} /\ UNCHANGED <<literalMap, theory>>
    BY DEF PlaceKey, ChangeDataStructure
<1>3. placed \in [Var -> Value \cup {"unset"}] /\ todo \subseteq Var
    BY DEF IInv, TypeOK, Keys
<1>4. ASSUME NEW val \in Value
      PROVE  {v \in Var : placed'[v] = val} \cup Pending(val)'
                = {v \in Var : placed[v] = val} \cup Pending(val)
    <2> SUFFICES ASSUME NEW v \in Var
                 PROVE  (placed'[v] = val \/ v \in Pending(val)')
                           <=> (placed[v] = val \/ v \in Pending(val))
        BY <1>2, <1>3 DEF Pending
    <2>1. CASE v # k
        BY <1>2, <1>3, <2>1 DEF Pending
    <2>2. CASE v = k
        BY <1>1, <1>2, <1>3, <2>2 DEF Pending, Value
    <2> QED BY <2>1, <2>2
<1>5. /\ (PlacedFalse \cup Pending("false"))' = PlacedFalse \cup Pending("false")
      /\ (PlacedTrue \cup Pending("true"))' = PlacedTrue \cup Pending("true")
    BY <1>4 DEF PlacedFalse, PlacedTrue, Value
<1>6. \A N : TheoryModel(N)' <=> TheoryModel(N)
    BY <1>2 DEF TheoryModel, IsModel, RuleBodies, RuleHeads
<1> QED BY <1>5, <1>6 DEF Forced, ForcedBy

LEMMA PlacingRecorded ==
    ASSUME IInv, Recorded, NEW k \in todo, PlaceKey(k),
           ~ConflictWithAssignment(k, literalMap[k]),
           literalMap[k] = "true" => placed[k] = "unset"
    PROVE  Recorded'
<1> DEFINE val == literalMap[k]
<1>1. k \in Var /\ val \in Value
    BY DEF IInv, TypeOK, Keys, Value
<1>2. /\ ChangeDataStructure(k, val)
      /\ minModel' = IF val = "true" THEN minModel \cup {k} ELSE minModel
    BY DEF PlaceKey
<1>3. placed' = [placed EXCEPT ![k] = IF @ = "unset" THEN val ELSE @]
    BY <1>2 DEF ChangeDataStructure
<1>4. PlacedTrue' = IF val = "true" THEN PlacedTrue \cup {k} ELSE PlacedTrue
    BY <1>1, <1>3 DEF PlacedTrue, IInv, TypeOK, Value
<1>5. ASSUME NEW v \in minModel, PositiveUnit(v), NegativeUnit(v)
      PROVE  (PositiveUnit(v) /\ NegativeUnit(v))'
    <2>1. PICK i \in live : body[i] = {} /\ head[i] = {v}
        BY <1>5 DEF PositiveUnit
    <2>2. PICK j \in live : body[j] = {v} /\ head[j] = {}
        BY <1>5 DEF NegativeUnit
    <2>3. i \in RuleIdx /\ j \in RuleIdx
        BY DEF IInv, TypeOK
    <2>4. v # k
        <3> SUFFICES ASSUME v = k PROVE FALSE
            OBVIOUS
        <3>1. i \in varHT[k] /\ j \in varHT[k]
            BY <2>1, <2>2, LiveUnplaced
        <3> QED BY <1>1, <2>1, <2>2, <3>1 DEF ConflictWithAssignment, Value
    <2>5. /\ i \notin SatisfiedRules(k, val) /\ i \notin ShortenedRules(k, val)
          /\ j \notin SatisfiedRules(k, val) /\ j \notin ShortenedRules(k, val)
        BY <1>1, <2>1, <2>2, <2>3, <2>4, TouchedRules
    <2>6. /\ i \in live' /\ body'[i] = {} /\ head'[i] = {v}
          /\ j \in live' /\ body'[j] = {v} /\ head'[j] = {}
        BY <1>2, <2>1, <2>2, <2>3, <2>5 DEF ChangeDataStructure, BodyAfter, HeadAfter
    <2> QED BY <2>6 DEF PositiveUnit, NegativeUnit
<1> QED BY <1>2, <1>4, <1>5 DEF Recorded

(* While the values of the solver are placed no rule loses all its         *)
(* variables without being satisfied.                                      *)
LEMMA SourceNoConflict ==
    ASSUME IInv, SourcePending, NEW k \in todo
    PROVE  ~ConflictWithAssignment(k, literalMap[k])
<1> SUFFICES ASSUME NEW i \in varHT[k],
                    \/ body[i] = {k} /\ head[i] = {} /\ literalMap[k] = "true"
                    \/ head[i] = {k} /\ body[i] = {} /\ literalMap[k] = "false"
             PROVE  FALSE
    BY DEF ConflictWithAssignment
<1>1. k \in Var
    BY DEF IInv, TypeOK, Keys
<1>2. i \in live
    BY <1>1 DEF IInv, TypeOK, IndexExact
<1> QED BY <1>2 DEF SourcePending

LEMMA PlacingSource ==
    ASSUME IInv, SourcePending, NEW k \in todo, PlaceKey(k)
    PROVE  SourcePending'
<1> DEFINE val == literalMap[k]
<1>1. k \in Var /\ val \in Value
    BY DEF IInv, TypeOK, Keys, Value
<1>2. /\ ChangeDataStructure(k, val)
      /\ todo' = todo \ {k} /\ literalMap' = literalMap
    BY SourceNoConflict DEF PlaceKey
<1>3. ASSUME NEW i \in live', body'[i] \cup head'[i] # {}, body'[i] \cup head'[i] \subseteq todo'
      PROVE  \/ \E v \in body'[i] : literalMap'[v] = "false"
             \/ \E v \in head'[i] : literalMap'[v] = "true"
    <2>1. i \in live /\ i \in RuleIdx /\ i \notin SatisfiedRules(k, val)
        BY <1>2 DEF ChangeDataStructure, IInv, TypeOK
    <2>2. /\ body'[i] = IF val = "true" THEN body[i] \ {k} ELSE body[i]
          /\ head'[i] = IF val = "false" THEN head[i] \ {k} ELSE head[i]
        BY <1>1, <1>2, <2>1, TouchedRules
        DEF ChangeDataStructure, BodyAfter, HeadAfter, Value
    <2>3. /\ val = "false" => k \notin body[i]
          /\ val = "true" => k \notin head[i]
        BY <1>1, <2>1, TouchedRules
    <2>4. body[i] \cup head[i] # {} /\ body[i] \cup head[i] \subseteq todo
        BY <1>2, <1>3, <2>2
    <2>5. \/ \E v \in body[i] : literalMap[v] = "false"
          \/ \E v \in head[i] : literalMap[v] = "true"
        BY <2>1, <2>4 DEF SourcePending
    <2> QED BY <1>1, <1>2, <2>2, <2>3, <2>5 DEF Value
<1>4. ASSUME NEW v \in todo', literalMap'[v] = "true"
      PROVE  placed'[v] = "unset"
    BY <1>2, <1>4 DEF ChangeDataStructure, SourcePending
<1> QED BY <1>3, <1>4 DEF SourcePending

(* A unit rule that is refused contradicts another: no model is left.      *)
LEMMA RefusedUnit ==
    ASSUME IInv, Recorded, UnitPending, NEW k \in todo, PlaceKey(k),
           ConflictWithAssignment(k, literalMap[k])
    PROVE  (backtracked \/ Forced') /\ Recorded'
<1>1. k \in Var /\ literalMap[k] \in Value
    BY DEF IInv, TypeOK, Keys, Value
<1>2. /\ UNCHANGED <<body, head, live, placed, theory>>
      /\ minModel' = IF literalMap[k] = "true" THEN minModel \cup {k} ELSE minModel
    BY DEF PlaceKey
<1>3. PositiveUnit(k) /\ NegativeUnit(k)
    <2>1. PICK i \in varHT[k] :
             \/ body[i] = {k} /\ head[i] = {} /\ literalMap[k] = "true"
             \/ head[i] = {k} /\ body[i] = {} /\ literalMap[k] = "false"
        BY DEF ConflictWithAssignment
    <2>2. i \in live
        BY <1>1 DEF IInv, TypeOK, IndexExact
    <2> QED BY <2>1, <2>2 DEF UnitPending, PositiveUnit, NegativeUnit
<1>4. ASSUME ~backtracked,
             NEW N \in SUBSET Var, TheoryModel(N), N \cap PlacedFalse = {}
      PROVE  FALSE
    <2>1. PlacedTrue \subseteq N
        BY <1>4 DEF UnitPending, ForcedBy
    <2>2. \A i \in live : Satisfies(N, body[i], head[i])
        BY <1>4, <2>1, ModelOfTheRest
    <2> QED BY <1>3, <2>2 DEF PositiveUnit, NegativeUnit, Satisfies
<1>5. /\ PlacedFalse' = PlacedFalse
      /\ \A N : TheoryModel(N)' <=> TheoryModel(N)
    BY <1>2 DEF PlacedFalse, TheoryModel, IsModel, RuleBodies, RuleHeads
<1>6. backtracked \/ Forced'
    BY <1>4, <1>5 DEF Forced, ForcedBy
<1>7. Recorded'
    BY <1>2, <1>3 DEF Recorded, PlacedTrue, PositiveUnit, NegativeUnit
<1> QED BY <1>6, <1>7

LEMMA PlaceRun ==
    ASSUME StoreInv, RunInv, Place(ThisRun)
    PROVE  RunInv'
<1>1. CASE EndUpdate /\ pc' = pc
    <2>1. /\ todo = {} /\ todo' = {} /\ phase' = "ready" /\ Keys' = {}
          /\ UNCHANGED <<body, head, live, minModel, SIZE, theory, placed>>
        BY <1>1 DEF EndUpdate, Keys
    <2>2. Forced => Forced'
        BY <2>1
        DEF Forced, ForcedBy, Pending, PlacedTrue, PlacedFalse, TheoryModel, IsModel,
            RuleBodies, RuleHeads
    <2>3. Recorded'
        BY <2>1 DEF RunInv, Recorded, PlacedTrue, PositiveUnit, NegativeUnit
    <2>4. phase = "update"
        BY <1>1 DEF EndUpdate
    <2>5. backtracked' = backtracked
        BY DEF Place, searchVars
    <2> QED BY <1>1, <2>1, <2>2, <2>3, <2>4, <2>5 DEF RunInv
<1>2. ASSUME NEW k \in todo, PlaceKey(k), pc' = pc, backtracked' = backtracked
      PROVE  RunInv'
    <2>1. /\ phase = "update" /\ phase' = "update" /\ todo' = todo \ {k}
          /\ IInv
        BY <1>2 DEF PlaceKey, StoreInv
    <2>2. CASE pc = "units" /\ UnitPending
        <3>1. todo' = {} /\ UnitPending'
            BY <2>1, <2>2 DEF UnitPending
        <3>2. placed[k] = "unset"
            BY <2>1, <2>2, LiveUnplaced DEF UnitPending, PositiveUnit, NegativeUnit
        <3>3. (backtracked \/ Forced') /\ Recorded'
            BY <1>2, <2>1, <2>2, <3>2, PlacingForced, PlacingRecorded, RefusedUnit DEF RunInv
        <3> QED BY <1>2, <2>1, <2>2, <3>1, <3>3 DEF RunInv
    <2>3. CASE pc = "test" /\ SourcePending
        <3>1. SourcePending'
            BY <1>2, <2>1, <2>3, PlacingSource
        <3>2. ~ConflictWithAssignment(k, literalMap[k])
            BY <2>1, <2>3, SourceNoConflict
        <3>3. literalMap[k] = "true" => placed[k] = "unset"
            BY <2>3 DEF SourcePending
        <3>4. (backtracked \/ Forced') /\ Recorded'
            BY <1>2, <2>1, <3>2, <3>3, PlacingForced, PlacingRecorded DEF RunInv
        <3> QED BY <1>2, <2>1, <2>3, <3>1, <3>4 DEF RunInv
    <2> QED BY <2>1, <2>2, <2>3 DEF RunInv
<1> QED BY <1>1, <1>2 DEF Place, searchVars
-----------------------------------------------------------------------------
LEMMA NothingPending ==
    ASSUME todo = {}, Forced
    PROVE  ForcedBy(PlacedFalse, PlacedTrue)
BY DEF Forced, Pending

(* Forced and Recorded speak of the rules and of what is still to place.   *)
LEMMA RulesKept ==
    ASSUME RulesUnchanged, minModel' = minModel, todo = {}, todo' = {}
    PROVE  (Forced => Forced') /\ (Recorded => Recorded')
BY DEF RulesUnchanged, Forced, ForcedBy, Recorded, Pending, PlacedTrue, PlacedFalse, TheoryModel,
       IsModel, RuleBodies, RuleHeads, PositiveUnit, NegativeUnit

LEMMA PlaceUnitRun ==
    ASSUME StoreInv, RunInv, PlaceUnit
    PROVE  RunInv'
<1>1. /\ phase = "ready" /\ pc = "units" /\ pc' = pc /\ phase' = "update"
      /\ UnitsFrom(rule) # {}
      /\ UNCHANGED <<body, head, live, varHT, minModel, SIZE, theory, placed, backtracked>>
    BY DEF PlaceUnit, StartUpdate, At, searchVars
<1>2. /\ IInv /\ todo = {} /\ \A w \in Var : literalMap[w] = "unset"
      /\ literalMap \in Values
    BY <1>1 DEF StoreInv, RunInv, Keys, IInv, TypeOK, Values
<1>3. PICK i \in UnitsFrom(rule) :
         StartUpdate([literalMap EXCEPT ![UnitVar(i)] = UnitValue(i)])
    <2>1. UnitsFrom(rule) \subseteq Nat
        <3>1. RuleIdx \subseteq Nat
            BY RuleIdxAssumption
        <3>2. live \subseteq RuleIdx
            BY <1>2 DEF IInv, TypeOK
        <3> QED BY <3>1, <3>2 DEF UnitsFrom
    <2>2. \E j \in UnitsFrom(rule) : \A k \in UnitsFrom(rule) : j <= k
        BY <1>1, <2>1, LeastOfNaturals
    <2> DEFINE first == CHOOSE j \in UnitsFrom(rule) : \A k \in UnitsFrom(rule) : j <= k
    <2>3. first \in UnitsFrom(rule)
        BY <2>2
    <2>4. StartUpdate([literalMap EXCEPT ![UnitVar(first)] = UnitValue(first)])
        BY DEF PlaceUnit
    <2> HIDE DEF first
    <2> QED BY <2>3, <2>4
<1>4. PICK v \in Var, val \in Value :
         /\ i \in live
         /\ IF val = "true" THEN body[i] = {} /\ head[i] = {v}
                            ELSE body[i] = {v} /\ head[i] = {}
         /\ StartUpdate([literalMap EXCEPT ![v] = val])
    <2>1. i \in live /\ i \in RuleIdx /\ Cardinality(body[i]) + Cardinality(head[i]) = 1
        BY <1>2, <1>3 DEF UnitsFrom, IInv, TypeOK
    <2> QED BY <1>2, <1>3, <2>1, UnitRule
<1>5. todo' = {v} /\ literalMap'[v] = val
    BY <1>2, <1>4 DEF StartUpdate, Values, Value
<1>6. backtracked \/ ForcedBy(PlacedFalse, PlacedTrue)
    BY <1>2, NothingPending DEF RunInv
<1>7. /\ PlacedFalse' = PlacedFalse /\ PlacedTrue' = PlacedTrue
      /\ \A N : TheoryModel(N)' <=> TheoryModel(N)
    BY <1>1 DEF PlacedFalse, PlacedTrue, TheoryModel, IsModel, RuleBodies, RuleHeads
<1>8. backtracked \/ Forced'
    <2> SUFFICES ASSUME ~backtracked,
                        NEW N \in SUBSET Var, TheoryModel(N), N \cap PlacedFalse = {}
                 PROVE  PlacedTrue \subseteq N /\ Pending("true")' \subseteq N
        BY <1>7 DEF Forced, ForcedBy
    <2>1. PlacedTrue \subseteq N
        BY <1>6 DEF ForcedBy
    <2>2. Satisfies(N, body[i], head[i])
        BY <1>2, <1>4, <2>1, ModelOfTheRest
    <2>3. val = "true" => v \in N
        BY <1>4, <2>2 DEF Satisfies
    <2> QED BY <1>5, <2>1, <2>3 DEF Pending
<1>9. Recorded'
    BY <1>1, <1>7 DEF RunInv, Recorded, PositiveUnit, NegativeUnit
<1>10. UnitPending'
    <2>1. (backtracked \/ ForcedBy(PlacedFalse, PlacedTrue))'
        BY <1>1, <1>6, <1>7 DEF ForcedBy
    <2>2. IF val = "true" THEN PositiveUnit(v)' ELSE NegativeUnit(v)'
        BY <1>1, <1>4 DEF PositiveUnit, NegativeUnit
    <2> QED BY <1>5, <2>1, <2>2 DEF UnitPending
<1> QED BY <1>1, <1>8, <1>9, <1>10 DEF RunInv

(* A rule of Ts is left, and Ts misses no rule inside its argument.        *)
LEMMA RulesInside ==
    ASSUME IInv, NEW S \in SUBSET Var
    PROVE  Ts(S) = {i \in live : body[i] \cup head[i] # {} /\ body[i] \cup head[i] \subseteq S}
<1>1. ASSUME NEW i \in Ts(S)
      PROVE  i \in live /\ body[i] \cup head[i] # {} /\ body[i] \cup head[i] \subseteq S
    <2>1. PICK v \in S : i \in varHT[v]
        BY DEF Ts
    <2> QED BY <2>1 DEF Ts, IInv, TypeOK, IndexExact
<1>2. ASSUME NEW i \in live, body[i] \cup head[i] # {}, body[i] \cup head[i] \subseteq S
      PROVE  i \in Ts(S)
    <2>1. PICK v \in body[i] \cup head[i] : TRUE
        BY <1>2
    <2>2. i \in varHT[v] /\ v \in S
        BY <1>2, <2>1, LiveUnplaced
    <2> QED BY <1>2, <2>2 DEF Ts
<1> QED BY <1>1, <1>2

(* An answer of the solver has no variable that was placed already.        *)
LEMMA AnswersUnplaced ==
    ASSUME IInv, NEW S \in SUBSET Var, NEW M \in Answers(S), NEW v \in M
    PROVE  placed[v] = "unset"
<1> SUFFICES ASSUME placed[v] # "unset" PROVE FALSE
    OBVIOUS
<1>1. /\ v \in Var /\ M \subseteq S
      /\ IsModel(M, Ts(S), body, head)
      /\ \A N \in SUBSET M : IsModel(N, Ts(S), body, head) => N = M
    BY DEF Answers, IsMinimalModel
<1>2. ASSUME NEW i \in Ts(S) PROVE v \notin body[i] \cup head[i]
    BY RulesInside, LiveUnplaced
<1>3. IsModel(M \ {v}, Ts(S), body, head)
    BY <1>1, <1>2 DEF IsModel, Satisfies
<1> QED BY <1>1, <1>3

(* The values of the solver for the rules inside S: M is true and the rest *)
(* of S false.                                                             *)
LEMMA SourceRun ==
    ASSUME StoreInv, RunInv, phase = "ready", phase' = "update", pc' = "test",
           NEW S \in SUBSET Var, NEW M \in SUBSET S,
           literalMap' = [w \in Var |-> IF w \in M THEN "true" ELSE
                                        IF w \in S THEN "false" ELSE "unset"],
           todo' = S,
           UNCHANGED <<body, head, live, varHT, minModel, SIZE, theory, placed, backtracked>>,
           \A v \in M : placed[v] = "unset",
           IsModel(M, Ts(S), body, head),
           backtracked \/ M = {} \/ IsMinimalModel(M, Ts(S), body, head)
    PROVE  RunInv'
<1>1. IInv /\ todo = {}
    BY DEF StoreInv
<1>2. \A i \in Ts(S) : Satisfies(M, body[i], head[i])
    BY DEF IsModel
<1>3. /\ PlacedFalse' = PlacedFalse /\ PlacedTrue' = PlacedTrue
      /\ \A N : TheoryModel(N)' <=> TheoryModel(N)
    BY DEF PlacedFalse, PlacedTrue, TheoryModel, IsModel, RuleBodies, RuleHeads
<1>4. /\ Pending("true")' = M
      /\ Pending("false")' = {v \in S \ M : placed[v] = "unset"}
    BY DEF Pending
<1>5. backtracked \/ Forced'
    <2> SUFFICES ASSUME ~backtracked,
                        NEW N \in SUBSET Var, TheoryModel(N), N \cap PlacedFalse = {},
                        \A v \in S \ M : placed[v] = "unset" => v \notin N
                 PROVE  PlacedTrue \subseteq N /\ M \subseteq N
        BY <1>3, <1>4 DEF Forced, ForcedBy
    <2>1. PlacedTrue \subseteq N
        BY <1>1, NothingPending DEF RunInv, ForcedBy
    <2>2. \A i \in live : Satisfies(N, body[i], head[i])
        BY <1>1, <2>1, ModelOfTheRest
    <2>3. ASSUME NEW i \in Ts(S) PROVE Satisfies(N \cap M, body[i], head[i])
        <3>1. i \in live /\ body[i] \cup head[i] \subseteq S
            BY <1>1, RulesInside
        <3>2. \A v \in body[i] \cup head[i] : v \in N => v \in M
            BY <1>1, <3>1, LiveUnplaced
        <3> QED BY <2>2, <3>1, <3>2 DEF Satisfies
    <2>4. CASE M = {}
        BY <2>1, <2>4
    <2>5. CASE IsMinimalModel(M, Ts(S), body, head)
        BY <2>1, <2>3, <2>5 DEF IsMinimalModel, IsModel
    <2> QED BY <2>4, <2>5
<1>6. Recorded'
    BY <1>3 DEF RunInv, Recorded, PositiveUnit, NegativeUnit
<1>7. SourcePending'
    <2>1. ASSUME NEW i \in live, body[i] \cup head[i] # {}, body[i] \cup head[i] \subseteq S
          PROVE  \/ \E v \in body[i] : literalMap'[v] = "false"
                 \/ \E v \in head[i] : literalMap'[v] = "true"
        <3>1. i \in Ts(S)
            BY <1>1, <2>1, RulesInside
        <3>2. Satisfies(M, body[i], head[i])
            BY <1>2, <3>1
        <3> QED BY <2>1, <3>2 DEF Satisfies
    <2> QED BY <2>1 DEF SourcePending
<1> QED BY <1>5, <1>6, <1>7 DEF RunInv

LEMMA SolveSourceRun ==
    ASSUME StoreInv, RunInv, SolveSource
    PROVE  RunInv'
<1> DEFINE S == source'
<1>1. S \in SUBSET Var /\ phase = "ready" /\ backtracked' = backtracked
    BY DEF SolveSource, Sources, At, searchVars
<1>2. /\ IInv /\ \A w \in Var : literalMap[w] = "unset"
      /\ literalMap \in Values
    BY DEF StoreInv, RunInv, SolveSource, At, Keys, IInv, TypeOK, Values
<1> HIDE DEF S
<1>3. ASSUME NEW M \in SUBSET S, StartUpdate(ValuesOf(M, S))
      PROVE  /\ phase' = "update" /\ todo' = S
             /\ literalMap' = [w \in Var |-> IF w \in M THEN "true" ELSE
                                             IF w \in S THEN "false" ELSE "unset"]
             /\ UNCHANGED <<body, head, live, varHT, minModel, SIZE, theory, placed>>
    BY <1>1, <1>2, <1>3 DEF StartUpdate, ValuesOf, AllFalse
<1>4. CASE Ts(S) = {} /\ StartUpdate(AllFalse(S)) /\ pc' = "test"
    <2>1. ValuesOf({}, S) = AllFalse(S)
        BY DEF ValuesOf, AllFalse
    <2>2. {} \in SUBSET S /\ IsModel({}, Ts(S), body, head)
        BY <1>4 DEF IsModel
    <2> QED BY <1>1, <1>3, <1>4, <2>1, <2>2, SourceRun
<1>5. ASSUME NEW M \in Answers(S), StartUpdate(ValuesOf(M, S)), pc' = "test"
      PROVE  RunInv'
    <2>1. M \in SUBSET S /\ IsMinimalModel(M, Ts(S), body, head)
        BY DEF Answers
    <2>2. IsModel(M, Ts(S), body, head)
        BY <2>1 DEF IsMinimalModel
    <2>3. \A v \in M : placed[v] = "unset"
        BY <1>1, <1>2, AnswersUnplaced
    <2> QED BY <1>1, <1>3, <1>5, <2>1, <2>2, <2>3, SourceRun
<1>6. CASE /\ pc' \in {"dead", "unsat"}
           /\ UNCHANGED <<phase, body, head, live, varHT, minModel, SIZE, todo, theory, placed>>
    <2>1. RulesUnchanged /\ todo = {} /\ phase = "ready"
        BY <1>1, <1>6 DEF RulesUnchanged, StoreInv
    <2>2. (Forced => Forced') /\ Recorded'
        BY <1>6, <2>1, RulesKept DEF RunInv
    <2> QED BY <1>1, <1>6, <2>1, <2>2 DEF RunInv
<1> QED BY <1>4, <1>5, <1>6 DEF SolveSource, S
-----------------------------------------------------------------------------
(* DLL on lists: the same steps whether they are taken from DavisPutnam    *)
(* directly or through the proofs about it.                                *)
LEMMA SameSearch == D!Next => DLL!D!Next
<1>1. \A F : D!SearchSingleLiteral(F) = DLL!D!SearchSingleLiteral(F)
    BY DEF D!SearchSingleLiteral, DLL!D!SearchSingleLiteral, D!SelectInSeq, DLL!D!SelectInSeq,
           D!Min, DLL!D!Min
<1>2. \A l, F : D!RemoveClauses(l, F) = DLL!D!RemoveClauses(l, F)
    BY DEF D!RemoveClauses, DLL!D!RemoveClauses, D!Contains, DLL!D!Contains
<1>3. \A l, F : D!CutClauses(l, F) = DLL!D!CutClauses(l, F)
    <2>1. \A s, i : D!RemoveAt(s, i) = DLL!D!RemoveAt(s, i)
        BY DEF D!RemoveAt, DLL!D!RemoveAt
    <2>2. ASSUME NEW s, NEW e PROVE D!RemoveFirst(s, e) = DLL!D!RemoveFirst(s, e)
        <3>1. D!SelectInSeq(s, LAMBDA v : v = e) = DLL!D!SelectInSeq(s, LAMBDA v : v = e)
            BY DEF D!SelectInSeq, DLL!D!SelectInSeq, D!Min, DLL!D!Min
        <3> QED BY <2>1, <3>1 DEF D!RemoveFirst, DLL!D!RemoveFirst
    <2> QED BY <2>2 DEF D!CutClauses, DLL!D!CutClauses
<1> QED
    BY <1>1, <1>2, <1>3
    DEF D!Next, DLL!D!Next, D!NoClauses, DLL!D!NoClauses, D!Propagate, DLL!D!Propagate,
        D!Split, DLL!D!Split, D!Backtrack, DLL!D!Backtrack, D!Unsatisfiable,
        DLL!D!Unsatisfiable, D!Put, DLL!D!Put, D!HasFalsehood, DLL!D!HasFalsehood,
        D!HasEmptyClause, DLL!D!HasEmptyClause, D!Contains, DLL!D!Contains, D!PickLiteral,
        DLL!D!PickLiteral

(* The sets that stand for the lists.                                      *)
LEMMA SetsBesideLists == DLL!Standing
BY DEF DLL!Standing, D!AsSets, DLL!D!AsSets, D!ToSet, DLL!D!ToSet

(* The literals of a set of variables in one order.                        *)
LEMMA AllInOrder ==
    ASSUME NEW S, IsFiniteSet(S)
    PROVE  /\ SetToSeq(S) \in [1 .. Cardinality(S) -> S]
           /\ Cardinality(S) \in Nat
           /\ \A i, j \in 1 .. Cardinality(S) : SetToSeq(S)[i] = SetToSeq(S)[j] => i = j
           /\ \A v \in S : \E i \in 1 .. Cardinality(S) : SetToSeq(S)[i] = v
<1> DEFINE n == Cardinality(S)
           Orders1 == [1 .. n -> S]
<1>1. n \in Nat /\ ExistsBijection(1 .. n, S)
    BY FS_CardinalityType
<1>2. \E f \in [1 .. n -> S] : IsInjective(f)
    BY <1>1 DEF ExistsBijection, Bijection, Injection, IsInjective
<1> DEFINE f == SetToSeq(S)
<1>3. f \in [1 .. n -> S] /\ IsInjective(f)
    BY <1>2 DEF SetToSeq
<1> HIDE DEF f
<1>4. \A i, j \in 1 .. n : f[i] = f[j] => i = j
    BY <1>3 DEF IsInjective
<1>5. f \in Surjection(1 .. n, S)
    <2>1. IsFiniteSet(1 .. n) /\ Cardinality(1 .. n) = n
        BY <1>1, FS_Interval
    <2>2. f \in Injection(1 .. n, S)
        BY <1>3, <1>4 DEF Injection
    <2> QED BY <2>1, <2>2, FS_Injection
<1>6. \A v \in S : \E i \in 1 .. n : f[i] = v
    BY <1>5 DEF Surjection
<1> QED BY <1>1, <1>3, <1>4, <1>6 DEF f
(* The literals of rule i.                                                 *)
RuleLiterals(i) == {-v : v \in body[i]} \cup head[i]

LEMMA NegatedApart ==
    /\ \A v, w \in Var : v # -w /\ (-v = -w => v = w)
    /\ \A v \in Var : v > 0 /\ -v < 0 /\ v \in Int
BY VarAssumption

LEMMA Concatenated ==
    ASSUME NEW S, NEW s \in Seq(S), NEW t \in Seq(S)
    PROVE  /\ s \o t \in Seq(S) /\ Len(s \o t) = Len(s) + Len(t)
           /\ \A k \in 1 .. Len(s) + Len(t) :
                 (s \o t)[k] = IF k <= Len(s) THEN s[k] ELSE t[k - Len(s)]
OBVIOUS

LEMMA FiniteRule ==
    ASSUME IInv, NEW i \in RuleIdx
    PROVE  /\ body[i] \subseteq Var /\ head[i] \subseteq Var
           /\ IsFiniteSet(body[i]) /\ IsFiniteSet(head[i])
<1>1. body[i] \subseteq Var /\ head[i] \subseteq Var
    BY DEF IInv, TypeOK
<1> QED BY <1>1, FS_Subset, VarAssumption

(* The clause of a rule has its literals, each of them once.               *)
LEMMA ClauseOfRule ==
    ASSUME IInv, NEW i \in RuleIdx
    PROVE  /\ ClauseFor(i) \in Seq(DLL!Literal)
           /\ DLL!IsInjective(ClauseFor(i))
           /\ D!ToSet(ClauseFor(i)) = RuleLiterals(i)
           /\ ClauseFor(i) = <<>> => body[i] \cup head[i] = {}
<1> DEFINE b == SetToSeq(body[i])
           h == SetToSeq(head[i])
           m == Cardinality(body[i])
           n == Cardinality(head[i])
           neg == [k \in 1 .. Len(b) |-> -b[k]]
           c == ClauseFor(i)
<1>1. /\ body[i] \subseteq Var /\ head[i] \subseteq Var
      /\ IsFiniteSet(body[i]) /\ IsFiniteSet(head[i])
    BY FiniteRule
<1>2. /\ m \in Nat /\ b \in [1 .. m -> body[i]]
      /\ \A j, k \in 1 .. m : b[j] = b[k] => j = k
      /\ \A v \in body[i] : \E k \in 1 .. m : b[k] = v
    BY <1>1, AllInOrder
<1>3. /\ n \in Nat /\ h \in [1 .. n -> head[i]]
      /\ \A j, k \in 1 .. n : h[j] = h[k] => j = k
      /\ \A v \in head[i] : \E k \in 1 .. n : h[k] = v
    BY <1>1, AllInOrder
<1>4. c = neg \o h
    BY DEF ClauseFor, D!ClauseOf
<1> HIDE DEF c, m, n, b, h
<1>5. \A v \in Var : v \in Int /\ v > 0 /\ -v \in Int /\ -v < 0 /\ v \in DLL!Literal /\ -v \in DLL!Literal
    BY VarAssumption DEF DLL!Literal
<1>6. Len(b) = m /\ Len(h) = n
    BY <1>2, <1>3
<1>7. neg \in [1 .. m -> DLL!Literal]
    BY <1>1, <1>2, <1>5, <1>6
<1>8. neg \in Seq(DLL!Literal) /\ h \in Seq(DLL!Literal) /\ Len(neg) = m
    BY <1>1, <1>2, <1>3, <1>5, <1>6, <1>7
<1>9. /\ c \in Seq(DLL!Literal) /\ Len(c) = m + n
      /\ \A k \in 1 .. m : c[k] = -b[k]
      /\ \A k \in 1 .. n : c[m + k] = h[k]
    <2> HIDE DEF neg
    <2>1. /\ c \in Seq(DLL!Literal) /\ Len(c) = m + n
          /\ \A k \in 1 .. m + n : c[k] = IF k <= m THEN neg[k] ELSE h[k - m]
        <3>1. /\ neg \o h \in Seq(DLL!Literal) /\ Len(neg \o h) = Len(neg) + Len(h)
              /\ \A k \in 1 .. Len(neg) + Len(h) :
                    (neg \o h)[k] = IF k <= Len(neg) THEN neg[k] ELSE h[k - Len(neg)]
            BY <1>8, Concatenated
        <3> QED BY <1>4, <1>6, <1>8, <3>1
    <2>2. \A k \in 1 .. m : k \in 1 .. m + n /\ c[k] = -b[k]
        BY <1>2, <1>3, <1>6, <2>1 DEF neg
    <2>3. ASSUME NEW k \in 1 .. n PROVE c[m + k] = h[k]
        <3>1. m + k \in 1 .. m + n /\ ~(m + k <= m) /\ (m + k) - m = k
            BY <1>2, <1>3
        <3> QED BY <2>1, <3>1
    <2> QED BY <2>1, <2>2, <2>3
<1>10. \A k \in 1 .. m + n : k \in 1 .. m \/ (k - m \in 1 .. n /\ k = m + (k - m))
    BY <1>2, <1>3
<1>11. DLL!IsInjective(c)
    <2> SUFFICES ASSUME NEW j \in 1 .. m + n, NEW k \in 1 .. m + n, c[j] = c[k]
                 PROVE  j = k
        BY <1>9 DEF DLL!IsInjective
    <2>1. CASE j \in 1 .. m /\ k \in 1 .. m
        <3>1. b[j] = b[k]
            BY <1>1, <1>2, <1>5, <1>9, <2>1
        <3> QED BY <1>2, <2>1, <3>1
    <2>2. CASE j - m \in 1 .. n /\ k - m \in 1 .. n
        <3>1. h[j - m] = h[k - m]
            BY <1>2, <1>9, <1>10, <2>2
        <3>2. j - m = k - m
            BY <1>3, <2>2, <3>1
        <3> QED BY <1>2, <1>3, <3>2
    <2>3. CASE j \in 1 .. m /\ k - m \in 1 .. n
        <3>1. c[j] = -b[j] /\ c[k] = h[k - m] /\ b[j] \in Var /\ h[k - m] \in Var
            BY <1>1, <1>2, <1>3, <1>9, <1>10, <2>3
        <3>2. c[j] < 0 /\ c[k] > 0 /\ c[k] \in Int
            BY <1>5, <3>1
        <3> QED BY <3>2
    <2>4. CASE j - m \in 1 .. n /\ k \in 1 .. m
        <3>1. c[k] = -b[k] /\ c[j] = h[j - m] /\ b[k] \in Var /\ h[j - m] \in Var
            BY <1>1, <1>2, <1>3, <1>9, <1>10, <2>4
        <3>2. c[k] < 0 /\ c[j] > 0 /\ c[j] \in Int
            BY <1>5, <3>1
        <3> QED BY <3>2
    <2> QED BY <1>10, <2>1, <2>2, <2>3, <2>4
<1>12. D!ToSet(c) = RuleLiterals(i)
    <2>1. DOMAIN c = 1 .. m + n
        BY <1>9
    <2>2. ASSUME NEW k \in 1 .. m + n PROVE c[k] \in RuleLiterals(i)
        <3>1. CASE k \in 1 .. m
            <4>1. c[k] = -b[k] /\ b[k] \in body[i]
                BY <1>2, <1>9, <3>1
            <4> QED BY <4>1 DEF RuleLiterals
        <3>2. CASE k - m \in 1 .. n /\ k = m + (k - m)
            <4>1. c[k] = h[k - m] /\ h[k - m] \in head[i]
                BY <1>3, <1>9, <3>2
            <4> QED BY <4>1 DEF RuleLiterals
        <3> QED BY <1>10, <3>1, <3>2
    <2>3. ASSUME NEW l \in RuleLiterals(i) PROVE \E k \in 1 .. m + n : c[k] = l
        <3>1. CASE \E v \in body[i] : l = -v
            <4>1. PICK v \in body[i] : l = -v
                BY <3>1
            <4>2. PICK k \in 1 .. m : b[k] = v
                BY <1>2
            <4> QED BY <1>2, <1>3, <1>9, <4>1, <4>2
        <3>2. CASE l \in head[i]
            <4>1. PICK k \in 1 .. n : h[k] = l
                BY <1>3, <3>2
            <4>2. m + k \in 1 .. m + n
                BY <1>2, <1>3
            <4> QED BY <1>9, <4>1, <4>2
        <3> QED BY <3>1, <3>2 DEF RuleLiterals
    <2> QED BY <2>1, <2>2, <2>3 DEF D!ToSet
<1>13. c = <<>> => body[i] \cup head[i] = {}
    <2>1. SUFFICES ASSUME c = <<>> PROVE body[i] = {} /\ head[i] = {}
        OBVIOUS
    <2>2. m = 0 /\ n = 0
        BY <1>2, <1>3, <1>9, <2>1
    <2> QED BY <1>2, <1>3, <2>2
<1> QED BY <1>9, <1>11, <1>12, <1>13 DEF c
(* FindMinimalModelForTs before the call: a clause for each rule of I, none *)
(* of them empty, and no value "true" in literalMap.                       *)
Starts(list, I) ==
    /\ IInv
    /\ list \in Seq(RuleIdx) /\ I = {list[k] : k \in 1 .. Len(list)}
    /\ \A i \in I : body[i] \cup head[i] # {}
    /\ formula = [k \in 1 .. Len(list) |-> ClauseFor(list[k])]
    /\ clauses = formula /\ stack = <<>> /\ trail = {} /\ verdict = "searching"
    /\ \A v \in Var : literalMap[v] # "true"

LEMMA SolvingStarts ==
    ASSUME NEW CONSTANT list, NEW CONSTANT I
    PROVE  Starts(list, I) => Solving(I)
<1> SUFFICES ASSUME Starts(list, I) PROVE Solving(I)
    OBVIOUS
<1>1. /\ IInv /\ list \in Seq(RuleIdx) /\ I = {list[k] : k \in 1 .. Len(list)}
      /\ formula = [k \in 1 .. Len(list) |-> ClauseFor(list[k])]
      /\ clauses = formula /\ stack = <<>> /\ trail = {} /\ verdict = "searching"
    BY DEF Starts
<1>2. Len(list) \in Nat /\ \A k \in 1 .. Len(list) : list[k] \in RuleIdx /\ list[k] \in I
    BY <1>1
<1>3. Len(formula) = Len(list) /\ \A k \in 1 .. Len(list) : formula[k] = ClauseFor(list[k])
    BY <1>1, <1>2
<1>4. DLL!ProperFormula(formula)
    <2>1. formula \in [1 .. Len(list) -> Seq(DLL!Literal)]
        BY <1>1, <1>2, ClauseOfRule
    <2>2. formula \in Seq(Seq(DLL!Literal))
        BY <1>2, <2>1
    <2>3. \A k \in 1 .. Len(formula) : DLL!IsInjective(formula[k])
        BY <1>1, <1>2, <1>3, ClauseOfRule
    <2> QED BY <2>2, <2>3 DEF DLL!ProperFormula
<1>5. DLL!NoEmpty(formula)
    <2> SUFFICES ASSUME NEW k \in 1 .. Len(formula) PROVE formula[k] # <<>>
        BY DEF DLL!NoEmpty
    <2>1. formula[k] = ClauseFor(list[k]) /\ list[k] \in RuleIdx /\ list[k] \in I
        BY <1>2, <1>3
    <2> QED BY <1>1, <2>1, ClauseOfRule DEF Starts
<1>6. D!AsSets(formula) = {RuleLiterals(i) : i \in I}
    <2>1. \A k \in 1 .. Len(list) : D!ToSet(formula[k]) = RuleLiterals(list[k])
        BY <1>1, <1>2, <1>3, ClauseOfRule
    <2> QED BY <1>1, <1>2, <1>3, <2>1 DEF D!AsSets
<1>7. \A v \in Var : v > 0 /\ ~(-v > 0) /\ -(-v) = v /\ v \in Int
    BY VarAssumption
<1>8. \A i \in I : body[i] \subseteq Var /\ head[i] \subseteq Var
    BY <1>1, <1>2, FiniteRule
<1>9. ASSUME NEW N \in SUBSET Var
      PROVE  DLL!Models(N, D!AsSets(formula)) <=> IsModel(N, I, body, head)
    <2>1. ASSUME NEW i \in I
          PROVE  (\E l \in RuleLiterals(i) : DLL!Holds(N, l)) <=> Satisfies(N, body[i], head[i])
        <3>1. (\E l \in RuleLiterals(i) : DLL!Holds(N, l))
                 <=> (\E v \in body[i] : DLL!Holds(N, -v)) \/ (\E v \in head[i] : DLL!Holds(N, v))
            BY DEF RuleLiterals
        <3>2. /\ \A v \in body[i] : DLL!Holds(N, -v) <=> v \notin N
              /\ \A v \in head[i] : DLL!Holds(N, v) <=> v \in N
            BY <1>7, <1>8 DEF DLL!Holds
        <3> QED BY <3>1, <3>2 DEF Satisfies
    <2> QED BY <1>6, <2>1 DEF DLL!Models, IsModel
<1>10. ASSUME NEW v \in DLL!VarsOf(D!AsSets(formula))
       PROVE  \E i \in I : v \in body[i] \cup head[i]
    <2>1. PICK i \in I : v \in Var /\ (v \in RuleLiterals(i) \/ -v \in RuleLiterals(i))
        BY <1>6 DEF DLL!VarsOf
    <2>2. v \in body[i] \cup head[i]
        BY <1>7, <1>8, <2>1, NegatedApart DEF RuleLiterals
    <2> QED BY <2>2
<1>11. DLL!CallInv /\ DLL!TrueVars = DLL!BranchModel
    <2>1. DLL!BesideLists
        BY <1>1, SetsBesideLists
        DEF DLL!BesideLists, DLL!Standing, DLL!StackSets, D!AsSets, DLL!D!AsSets, D!ToSet, DLL!D!ToSet
    <2>2. DLL!TrueVars = {}
        BY DEF Starts, DLL!TrueVars, DLL!TrueIn
    <2>3. literalMap \in [Var -> {"true", "false", "unset"}]
        BY <1>1 DEF IInv, TypeOK, Value
    <2> QED BY <1>1, <1>4, <1>5, <2>1, <2>2, <2>3, DLL!CallStarts, VarAssumption
<1> QED BY <1>9, <1>10, <1>11 DEF Solving

LEMMA SolvingStartsNext ==
    ASSUME NEW CONSTANT list, NEW CONSTANT I
    PROVE  Starts(list, I)' => Solving(I)'
<1>1. Starts(list, I) => Solving(I)
    BY SolvingStarts
<1> QED BY <1>1, PTL
(* A step of DLL gives a value to a variable of the rules, and takes none  *)
(* back.                                                                   *)
LEMMA SolvingGoesOn ==
    ASSUME NEW CONSTANT I, Solving(I), SearchStep
    PROVE  /\ Solving(I)'
           /\ \A v \in Var : literalMap'[v] # literalMap[v] =>
                 literalMap'[v] # "unset" /\ \E i \in I : v \in body[i] \cup head[i]
<1>1. DLL!CallInv /\ DLL!D!Next /\ DLL!Standing
    BY SameSearch, SetsBesideLists DEF Solving, SearchStep
<1>2. formula' = formula /\ UNCHANGED <<body, head>> /\ backtracked' = (backtracked \/ verdict = "failed")
    BY DEF SearchStep, D!Next, D!NoClauses, D!Propagate, D!Split, D!Backtrack, D!Unsatisfiable
<1>3. /\ DLL!CallInv'
      /\ \A v \in Var : literalMap'[v] # literalMap[v] =>
            v \in DLL!VarsOf(D!AsSets(formula)) /\ literalMap'[v] # "unset"
      /\ verdict # "failed" /\ DLL!TrueVars = DLL!BranchModel =>
            (DLL!TrueVars = DLL!BranchModel)'
    BY <1>1, DLL!CallStep, VarAssumption
<1>4. D!AsSets(formula)' = D!AsSets(formula)
    BY <1>2 DEF D!AsSets, D!ToSet
<1>5. \A N \in SUBSET Var : (DLL!Models(N, D!AsSets(formula)) <=> IsModel(N, I, body, head))'
    BY <1>2, <1>4 DEF Solving, IsModel
<1>6. (\A v \in DLL!VarsOf(D!AsSets(formula)) : \E i \in I : v \in body[i] \cup head[i])'
    BY <1>2, <1>4 DEF Solving
<1>7. (backtracked \/ DLL!TrueVars = DLL!BranchModel)'
    BY <1>2, <1>3 DEF Solving
<1> QED BY <1>3, <1>5, <1>6, <1>7 DEF Solving

(* When DLL succeeds the true values of literalMap are a model of the      *)
(* rules, and a minimal one if no branch has failed.                       *)
LEMMA SolvingEnds ==
    ASSUME NEW I, Solving(I), verdict = "sat"
    PROVE  LET M == {v \in Var : literalMap[v] = "true"}
           IN  /\ IsModel(M, I, body, head)
               /\ backtracked \/ IsMinimalModel(M, I, body, head)
               /\ \A v \in M : \E i \in I : v \in body[i] \cup head[i]
<1> DEFINE M == {v \in Var : literalMap[v] = "true"}
<1>1. M = DLL!TrueVars
    BY DEF DLL!TrueVars, DLL!TrueIn
<1>2. DLL!Sound /\ DLL!BranchMinimal
    BY DLL!CallEnds, VarAssumption DEF Solving
<1>3. IsModel(M, I, body, head)
    BY <1>1, <1>2 DEF DLL!Sound, Solving
<1>4. ASSUME ~backtracked, NEW N \in SUBSET M, IsModel(N, I, body, head)
      PROVE  N = M
    BY <1>1, <1>2, <1>4 DEF DLL!BranchMinimal, Solving
<1>5. \A v \in M : \E i \in I : v \in body[i] \cup head[i]
    <2>1. DLL!TrueVars \subseteq DLL!VarsOf(D!AsSets(formula))
        BY DEF Solving, DLL!CallInv, DLL!Within
    <2> QED BY <1>1, <2>1 DEF Solving
<1> QED BY <1>3, <1>4, <1>5 DEF IsMinimalModel

(* A step that is not one of the search leaves Solving alone.              *)
LEMMA SolvingStays ==
    ASSUME NEW I, Solving(I),
           UNCHANGED <<formula, clauses, stack, trail, verdict, backtracked, literalMap, body, head>>
    PROVE  Solving(I)'
<1>1. D!AsSets(formula)' = D!AsSets(formula) /\ D!AsSets(clauses)' = D!AsSets(clauses)
    BY DEF D!AsSets, D!ToSet
<1>2. DLL!CallInv'
    <2>1. DLL!TypeOK'
        BY DEF Solving, DLL!CallInv, DLL!MInv, DLL!IInv, DLL!TypeOK
    <2>2. DLL!Branch(D!AsSets(formula), literalMap, D!AsSets(clauses), trail)'
        BY DEF Solving, DLL!CallInv, DLL!MInv, DLL!IInv
    <2>3. DLL!Nested'
        <3>1. DLL!Nested
            BY DEF Solving, DLL!CallInv, DLL!MInv, DLL!IInv
        <3>2. UNCHANGED <<stack, trail>>
            OBVIOUS
        <3> QED BY <3>1, <3>2, Zenon DEF DLL!Nested
    <2>4. DLL!Covered'
        BY DEF Solving, DLL!CallInv, DLL!MInv, DLL!IInv, DLL!Covered
    <2>5. DLL!Forced'
        BY DEF Solving, DLL!CallInv, DLL!MInv, DLL!Forced
    <2>6. DLL!PendingForced'
        BY DEF Solving, DLL!CallInv, DLL!MInv, DLL!PendingForced
    <2>7. DLL!ProperLists'
        BY DEF Solving, DLL!CallInv, DLL!ListInv, DLL!ProperLists
    <2>8. DLL!BesideLists'
        BY DEF Solving, DLL!CallInv, DLL!ListInv, DLL!BesideLists, DLL!StackSets
    <2>9. DLL!Within'
        BY DEF Solving, DLL!CallInv, DLL!Within, DLL!TrueVars
    <2> QED
        BY <2>1, <2>2, <2>3, <2>4, <2>5, <2>6, <2>7, <2>8, <2>9
        DEF Solving, DLL!CallInv, DLL!MInv, DLL!IInv, DLL!ListInv
<1>3. DLL!TrueVars' = DLL!TrueVars /\ DLL!BranchModel' = DLL!BranchModel
    BY DEF DLL!TrueVars, DLL!TrueIn, DLL!BranchModel
<1> QED BY <1>1, <1>2, <1>3 DEF Solving, IsModel
-----------------------------------------------------------------------------
(* A list of a finite set without repetitions has all its elements.        *)
LEMMA ListsOf ==
    ASSUME NEW S, IsFiniteSet(S), NEW list \in SetToSeqs(S)
    PROVE  list \in Seq(S) /\ S = {list[k] : k \in 1 .. Len(list)}
<1> DEFINE n == Cardinality(S)
<1>1. n \in Nat /\ IsFiniteSet(1 .. n) /\ Cardinality(1 .. n) = n
    BY FS_CardinalityType, FS_Interval
<1>2. list \in [1 .. n -> S] /\ \A i, j \in 1 .. n : i # j => list[i] # list[j]
    BY DEF SetToSeqs
<1>3. list \in Injection(1 .. n, S)
    BY <1>2 DEF Injection, IsInjective
<1>4. list \in Surjection(1 .. n, S)
    BY <1>1, <1>3, FS_Injection
<1>5. Len(list) = n /\ list \in Seq(S)
    BY <1>1, <1>2
<1> HIDE DEF n
<1>6. S = {list[k] : k \in 1 .. n}
    BY <1>2, <1>4 DEF Surjection
<1> QED BY <1>5, <1>6

LEMMA FiniteRules ==
    ASSUME IInv, NEW S \in SUBSET Var
    PROVE  Ts(S) \subseteq RuleIdx /\ IsFiniteSet(Ts(S))
<1>1. Ts(S) \subseteq RuleIdx
    BY RulesInside DEF IInv, TypeOK
<1>2. IsFiniteSet(RuleIdx)
    BY FS_Interval, NumRulesAssumption, RuleIdxAssumption
<1> QED BY <1>1, <1>2, FS_Subset

LEMMA StartRun ==
    ASSUME StoreInv, StoreInv', RunInv, PickSource
    PROVE  RunInv'
<1>1. PICK S \in SUBSET Var : S = source'
    BY DEF PickSource, Sources
<1>2. PICK list \in TsLists(S) : StartDLL(list)
    BY <1>1 DEF PickSource
<1>3. PICK I : I = Ts(S)
    OBVIOUS
<1>4. /\ IInv /\ todo = {} /\ todo' = {} /\ RulesUnchanged /\ minModel' = minModel
      /\ phase' = "ready" /\ pc' = "dll" /\ backtracked' = backtracked
      /\ UNCHANGED <<body, head, varHT>>
    BY <1>2 DEF StoreInv, PickSource, At, StartDLL, RulesUnchanged
<1>5. /\ literalMap' = AllFalse(S) /\ \A v \in Var : literalMap[v] = "unset"
    BY <1>1 DEF PickSource, RunInv, At, Keys
<1>6. Keys' = S
    BY <1>5 DEF Keys, AllFalse
<1>7. list \in Seq(I) /\ I = {list[k] : k \in 1 .. Len(list)} /\ I \subseteq RuleIdx
    BY <1>3, <1>4, ListsOf, FiniteRules DEF TsLists
<1>8. Starts(list, I)'
    <2>1. list \in Seq(RuleIdx) /\ DOMAIN list = 1 .. Len(list)
        BY <1>7
    <2>2. \A i \in I : body[i] \cup head[i] # {}
        BY <1>3, <1>4, RulesInside
    <2>3. \A i : ClauseFor(i)' = ClauseFor(i)
        BY <1>4 DEF ClauseFor
    <2>4. formula' = [k \in 1 .. Len(list) |-> ClauseFor(list[k])']
        BY <1>2, <2>1, <2>3 DEF StartDLL
    <2>5. clauses' = formula' /\ stack' = <<>> /\ trail' = {} /\ verdict' = "searching"
        BY <1>2 DEF StartDLL
    <2>6. \A v \in Var : literalMap'[v] # "true"
        BY <1>5 DEF AllFalse
    <2> QED BY <1>4, <1>7, <2>1, <2>2, <2>4, <2>5, <2>6 DEF Starts, StoreInv
<1>9. Solving(I)'
    BY <1>8, SolvingStartsNext
<1>10. Ts(source)' = I
    BY <1>1, <1>3, <1>4 DEF Ts
<1>11. Solving(Ts(source))'
    BY <1>9, <1>10 DEF Solving
<1>12. (backtracked \/ Forced)' /\ Recorded'
    BY <1>4, RulesKept DEF RunInv
<1> QED BY <1>1, <1>4, <1>6, <1>11, <1>12 DEF RunInv

LEMMA SearchRun ==
    ASSUME StoreInv, RunInv, SearchStep
    PROVE  RunInv'
<1>1. /\ phase = "ready" /\ pc = "dll" /\ todo = {} /\ todo' = {} /\ RulesUnchanged
      /\ UNCHANGED <<phase, pc, source, body, head, varHT, minModel>>
      /\ backtracked' = (backtracked \/ verdict = "failed")
    BY DEF StoreInv, SearchStep, At, RulesUnchanged
<1>2. PICK I : I = Ts(source)
    OBVIOUS
<1>3. source \in SUBSET Var /\ Keys = source /\ Solving(I)
    BY <1>1, <1>2 DEF RunInv
<1>4. /\ Solving(I)'
      /\ \A v \in Var : literalMap'[v] # literalMap[v] =>
            literalMap'[v] # "unset" /\ \E i \in I : v \in body[i] \cup head[i]
    BY <1>3, SolvingGoesOn
<1>5. Ts(source)' = I
    BY <1>1, <1>2 DEF Ts
<1>6. Solving(Ts(source))'
    BY <1>4, <1>5 DEF Solving
<1>7. \A i \in I : body[i] \cup head[i] \subseteq source
    BY <1>2 DEF Ts
<1>8. Keys' = source
    BY <1>3, <1>4, <1>7 DEF Keys
<1>9. (backtracked \/ Forced)' /\ Recorded'
    BY <1>1, RulesKept DEF RunInv
<1> QED BY <1>1, <1>3, <1>6, <1>8, <1>9 DEF RunInv

LEMMA SearchEndsRun ==
    ASSUME StoreInv, RunInv, DllReturns("test")
    PROVE  RunInv'
<1>1. /\ IInv /\ phase = "ready" /\ pc = "dll" /\ todo = {}
      /\ UNCHANGED <<source, formula, clauses, stack, trail, verdict, backtracked>>
    BY DEF StoreInv, DllReturns, At, searchVars
<1>2. source \in SUBSET Var /\ Keys = source /\ Solving(Ts(source))
    BY <1>1 DEF RunInv
<1>3. CASE verdict = "sat" /\ StartUpdate(literalMap) /\ pc' = "test"
    <2> DEFINE M == {v \in Var : literalMap[v] = "true"}
    <2>1. /\ IsModel(M, Ts(source), body, head)
          /\ backtracked \/ IsMinimalModel(M, Ts(source), body, head)
          /\ \A v \in M : \E i \in Ts(source) : v \in body[i] \cup head[i]
        BY <1>2, <1>3, SolvingEnds
    <2>2. \A v \in M : placed[v] = "unset"
        BY <1>1, <1>2, <2>1, RulesInside, LiveUnplaced
    <2>3. M \in SUBSET source
        BY <1>2 DEF Keys
    <2>4. /\ phase' = "update" /\ todo' = source
          /\ UNCHANGED <<body, head, live, varHT, minModel, SIZE, theory, placed, literalMap>>
        BY <1>2, <1>3 DEF StartUpdate, Keys
    <2>5. literalMap' = [w \in Var |-> IF w \in M THEN "true" ELSE
                                       IF w \in source THEN "false" ELSE "unset"]
        BY <1>1, <1>2, <2>4 DEF Keys, IInv, TypeOK, Value
    <2> HIDE DEF M
    <2> QED BY <1>1, <1>2, <1>3, <2>1, <2>2, <2>3, <2>4, <2>5, SourceRun
<1>4. CASE UNCHANGED dsVars /\ pc' = "unsat"
    <2>1. RulesUnchanged /\ minModel' = minModel /\ todo' = {} /\ phase' = "ready"
        BY <1>1, <1>4 DEF dsVars, RulesUnchanged
    <2>2. (backtracked \/ Forced)' /\ Recorded'
        BY <1>1, <2>1, RulesKept DEF RunInv
    <2> QED BY <1>4, <2>1, <2>2 DEF RunInv
<1> QED BY <1>3, <1>4 DEF DllReturns
-----------------------------------------------------------------------------
(* DP gives all the rules of the file to DLL.                              *)
LEMMA StartTheory ==
    ASSUME StoreInv, StoreInv', TheoryInv, NoEmptyRule, TakeAllRules
    PROVE  TheoryInv'
<1> DEFINE list == [i \in RuleIdx |-> i]
<1>1. /\ IInv /\ IInv' /\ phase = "ready" /\ pc = "all" /\ phase' = "ready" /\ pc' = "dll"
      /\ UNCHANGED <<body, head, minModel, placed, theory, literalMap>>
      /\ StartDLL(list)
    BY DEF StoreInv, TakeAllRules, StartDLL, At
<1>2. /\ minModel = {} /\ \A v \in Var : placed[v] = "unset"
      /\ Keys = {}
    BY <1>1 DEF TheoryInv
<1>3. /\ list \in Seq(RuleIdx) /\ DOMAIN list = 1 .. Len(list)
      /\ RuleIdx = {list[k] : k \in 1 .. Len(list)}
    BY NumRulesAssumption, RuleIdxAssumption
<1> HIDE DEF list
<1>4. \A i \in RuleIdx : body[i] \cup head[i] # {}
    BY <1>1, <1>2, NothingPlaced DEF NoEmptyRule
<1>5. Starts(list, RuleIdx)'
    <2>1. \A i : ClauseFor(i)' = ClauseFor(i)
        BY <1>1 DEF ClauseFor
    <2>2. formula' = [k \in 1 .. Len(list) |-> ClauseFor(list[k])']
        BY <1>1, <1>3, <2>1 DEF StartDLL
    <2>3. clauses' = formula' /\ stack' = <<>> /\ trail' = {} /\ verdict' = "searching"
        BY <1>1 DEF StartDLL
    <2>4. \A v \in Var : literalMap'[v] # "true"
        BY <1>1, <1>2 DEF Keys
    <2> QED BY <1>1, <1>3, <1>4, <2>2, <2>3, <2>4 DEF Starts
<1>6. PICK f : f = list
    OBVIOUS
<1>7. Starts(f, RuleIdx)'
    BY <1>5, <1>6
<1>8. Solving(RuleIdx)'
    BY <1>7, SolvingStartsNext
<1> QED BY <1>1, <1>2, <1>8 DEF TheoryInv

LEMMA SearchTheory ==
    ASSUME TheoryInv, SearchStep
    PROVE  TheoryInv'
<1>1. pc = "dll" /\ UNCHANGED <<phase, pc, minModel, placed>>
    BY DEF SearchStep, At
<1>2. Solving(RuleIdx)'
    BY <1>1, SolvingGoesOn DEF TheoryInv
<1> QED BY <1>1, <1>2 DEF TheoryInv

(* What the values of DLL make true is a model of the rules as read.       *)
LEMMA SearchEndsTheory ==
    ASSUME StoreInv, TheoryInv, DllReturns("done")
    PROVE  TheoryInv'
<1>1. /\ IInv /\ phase = "ready" /\ pc = "dll" /\ backtracked' = backtracked
    BY DEF StoreInv, DllReturns, At, searchVars
<1>2. /\ minModel = {} /\ Solving(RuleIdx) /\ \A v \in Var : placed[v] = "unset"
    BY <1>1 DEF TheoryInv
<1>3. CASE verdict = "sat" /\ StartUpdate(literalMap) /\ pc' = "done"
    <2> DEFINE M == {v \in Var : literalMap[v] = "true"}
    <2>1. /\ IsModel(M, RuleIdx, body, head)
          /\ backtracked \/ IsMinimalModel(M, RuleIdx, body, head)
        BY <1>2, <1>3, SolvingEnds
    <2>2. minModel' = {} /\ theory' = theory /\ (minModel \cup TrueToPlace)' = M
        BY <1>2, <1>3 DEF StartUpdate, TrueToPlace
    <2> HIDE DEF M
    <2>3. \A i \in RuleIdx : body[i] = RuleBodies[i] /\ head[i] = RuleHeads[i]
        BY <1>1, <1>2, NothingPlaced DEF RuleBodies, RuleHeads
    <2>4. \A N : IsModel(N, RuleIdx, body, head) <=> IsModel(N, RuleIdx, RuleBodies, RuleHeads)
        BY <2>3 DEF IsModel
    <2>5. RuleBodies' = RuleBodies /\ RuleHeads' = RuleHeads
        BY <2>2 DEF RuleBodies, RuleHeads
    <2>6. TheoryModel(minModel \cup TrueToPlace)'
        BY <2>1, <2>2, <2>4, <2>5 DEF TheoryModel
    <2>7. (backtracked \/ TheoryMinimal(minModel \cup TrueToPlace))'
        BY <1>1, <2>1, <2>2, <2>4, <2>5 DEF TheoryMinimal, IsMinimalModel
    <2> QED BY <1>3, <2>6, <2>7 DEF TheoryInv
<1>4. CASE pc' = "unsat"
    BY <1>4 DEF TheoryInv
<1> QED BY <1>3, <1>4 DEF DllReturns

(* Placing the values moves the true variables to minModel.                *)
LEMMA PlaceTheory ==
    ASSUME StoreInv, TheoryInv, Place(ThisRun)
    PROVE  TheoryInv'
<1>1. /\ phase = "update" /\ UNCHANGED <<pc, theory, backtracked>>
    BY DEF Place, PlaceKey, EndUpdate, searchVars
<1>2. (minModel \cup TrueToPlace)' = minModel \cup TrueToPlace
    <2>1. ASSUME NEW k \in todo, PlaceKey(k)
          PROVE  (minModel \cup TrueToPlace)' = minModel \cup TrueToPlace
        BY <2>1 DEF PlaceKey, TrueToPlace
    <2>2. CASE EndUpdate
        BY <2>2 DEF EndUpdate, TrueToPlace
    <2> QED BY <2>1, <2>2 DEF Place
<1>3. RuleBodies' = RuleBodies /\ RuleHeads' = RuleHeads
    BY <1>1 DEF RuleBodies, RuleHeads
<1>4. pc \in {"done", "unsat"}
    BY <1>1 DEF TheoryInv
<1> QED BY <1>1, <1>2, <1>3, <1>4 DEF TheoryInv, TheoryModel, TheoryMinimal
-----------------------------------------------------------------------------
(* Nobody changes driver.                                                  *)
LEMMA DriverKept ==
    ASSUME [SolverNext]_vars
    PROVE  driver' = driver
BY DEF SolverNext, CentralisedRun, ModuMinUsingDP, ModuminUsingWASP, DP, Clients, vars,
       Place, LoopTest, PlaceUnit, EndOfPass, PickSource, StartDLL, SearchStep, DllReturns,
       SolveSource, TakeAllRules, CreateModelGraph, FindMinimalModels, PlaceLiterals, Solve,
       NoModel, Incoherent, NextSource, SendMessage

DriverInv == driver \in {"ModuMinUsingDP", "ModuminUsingWASP", "DP", "clients"}

(* Nobody changes the rules as they were read.                             *)
LEMMA TheoryKept ==
    ASSUME [SolverNext]_vars
    PROVE  theory' = theory
BY DEF SolverNext, CentralisedRun, ModuMinUsingDP, ModuminUsingWASP, DP, Clients, vars, dsVars,
       Place, PlaceKey, EndUpdate, StartUpdate, LoopTest, PlaceUnit, EndOfPass, PickSource, StartDLL,
       SearchStep, DllReturns, SolveSource, TakeAllRules, CreateModelGraph, FindMinimalModels,
       PlaceLiterals, Solve, NoModel, Incoherent, NextSource, SendMessage

(* A step of a driver that goes from one source to the next.               *)
LEMMA RunStep ==
    ASSUME StoreInv, StoreInv', RunInv, [SolverNext]_vars,
           driver \in {"ModuMinUsingDP", "ModuminUsingWASP"}
    PROVE  RunInv'
<1>1. StoreInv /\ StoreInv'
    OBVIOUS
<1>3. driver # "clients" /\ driver # "DP" /\ RunInv
    OBVIOUS
<1>4. ASSUME UNCHANGED dsVars, phase = "ready", pc \in {"test", "units", "graph"},
             pc' \in {"units", "graph"} \/ (pc' = "done" /\ SIZE = 0),
             backtracked' = backtracked
      PROVE  RunInv'
    <2>1. RulesUnchanged /\ minModel' = minModel /\ todo = {} /\ todo' = {}
        BY <1>1, <1>4 DEF dsVars, RulesUnchanged, StoreInv
    <2>2. (backtracked \/ Forced)' /\ Recorded'
        BY <1>3, <1>4, <2>1, RulesKept DEF RunInv
    <2>3. Keys' = Keys
        BY <1>4 DEF dsVars, Keys
    <2> QED BY <1>3, <1>4, <2>2, <2>3 DEF RunInv, dsVars
<1>5. CASE UNCHANGED vars
    <2>1. UNCHANGED <<phase, index, body, head, live, varHT, literalMap, minModel, SIZE, todo,
                      theory, placed, pc, source, backtracked>>
        BY <1>5 DEF vars, dsVars, searchVars
    <2>2. (backtracked \/ Forced)' /\ Recorded'
        <3>1. (Pending("true")' = Pending("true")) /\ (Pending("false")' = Pending("false"))
            BY <2>1 DEF Pending
        <3>2. PlacedTrue' = PlacedTrue /\ PlacedFalse' = PlacedFalse
            BY <2>1 DEF PlacedTrue, PlacedFalse
        <3>3. \A N : TheoryModel(N)' <=> TheoryModel(N)
            BY <2>1 DEF TheoryModel, IsModel, RuleBodies, RuleHeads
        <3>4. (backtracked \/ Forced)'
            BY <1>3, <2>1, <3>1, <3>2, <3>3 DEF RunInv, Forced, ForcedBy
        <3>5. Recorded'
            BY <1>3, <2>1, <3>2 DEF RunInv, Recorded, PositiveUnit, NegativeUnit
        <3> QED BY <3>4, <3>5
    <2>3. UnitPending => UnitPending'
        <3>1. ForcedBy(PlacedFalse, PlacedTrue)' <=> ForcedBy(PlacedFalse, PlacedTrue)
            BY <2>1 DEF ForcedBy, PlacedTrue, PlacedFalse, TheoryModel, IsModel, RuleBodies, RuleHeads
        <3>2. \A k : (PositiveUnit(k)' <=> PositiveUnit(k)) /\ (NegativeUnit(k)' <=> NegativeUnit(k))
            BY <2>1 DEF PositiveUnit, NegativeUnit
        <3> QED BY <2>1, <3>1, <3>2 DEF UnitPending
    <2>4. SourcePending => SourcePending'
        BY <2>1 DEF SourcePending
    <2>5. Keys' = Keys
        BY <2>1 DEF Keys
    <2>6. Solving(Ts(source)) => Solving(Ts(source))'
        <3>1. PICK I : I = Ts(source)
            OBVIOUS
        <3>2. Ts(source)' = I
            BY <2>1, <3>1 DEF Ts
        <3>3. Solving(I) => Solving(I)'
            BY <1>5, <2>1, SolvingStays DEF vars, searchVars
        <3> QED BY <3>1, <3>2, <3>3 DEF Solving
    <2> QED BY <1>3, <2>1, <2>2, <2>3, <2>4, <2>5, <2>6 DEF RunInv
<1>6. CASE Place(ThisRun)
    BY <1>1, <1>3, <1>6, PlaceRun
<1>7. CASE LoopTest("done")
    <2>1. /\ UNCHANGED dsVars /\ phase = "ready" /\ pc = "test"
          /\ pc' = "units" \/ (pc' = "done" /\ SIZE = 0)
          /\ backtracked' = backtracked
        BY <1>7 DEF LoopTest, At, searchVars
    <2> QED BY <1>4, <2>1
<1>8. CASE PlaceUnit
    BY <1>1, <1>3, <1>8, PlaceUnitRun
<1>9. CASE EndOfPass("graph")
    <2>1. /\ UNCHANGED dsVars /\ phase = "ready" /\ pc = "units" /\ pc' \in {"units", "graph"}
          /\ backtracked' = backtracked
        BY <1>9 DEF EndOfPass, At, searchVars
    <2> QED BY <1>4, <2>1
<1>10. CASE SolveSource
    BY <1>1, <1>3, <1>10, SolveSourceRun
<1>11. CASE PickSource
    BY <1>1, <1>3, <1>11, StartRun
<1>12. CASE SearchStep
    BY <1>1, <1>3, <1>12, SearchRun
<1>13. CASE DllReturns("test")
    BY <1>1, <1>3, <1>13, SearchEndsRun
<1> QED
    BY <1>3, <1>5, <1>6, <1>7, <1>8, <1>9, <1>10, <1>11, <1>12, <1>13
    DEF SolverNext, CentralisedRun, ModuMinUsingDP, ModuminUsingWASP, DP, Clients

LEMMA TheoryStep ==
    ASSUME StoreInv, StoreInv', TheoryInv, NoEmptyRule, [SolverNext]_vars, driver = "DP"
    PROVE  TheoryInv'
<1>1. CASE UNCHANGED vars
    <2>1. UNCHANGED <<phase, body, head, literalMap, minModel, todo, theory, placed, pc, backtracked,
                      formula, clauses, stack, trail, verdict>>
        BY <1>1 DEF vars, dsVars, searchVars
    <2>2. Solving(RuleIdx) => Solving(RuleIdx)'
        BY <2>1, SolvingStays
    <2>3. (minModel \cup TrueToPlace)' = minModel \cup TrueToPlace /\ Keys' = Keys
        BY <2>1 DEF TrueToPlace, Keys
    <2>4. RuleBodies' = RuleBodies /\ RuleHeads' = RuleHeads
        BY <2>1 DEF RuleBodies, RuleHeads
    <2> QED BY <2>1, <2>2, <2>3, <2>4 DEF TheoryInv, TheoryModel, TheoryMinimal
<1>2. CASE Place(ThisRun)
    BY <1>2, PlaceTheory
<1>3. CASE TakeAllRules
    BY <1>3, StartTheory
<1>4. CASE SearchStep
    BY <1>4, SearchTheory
<1>5. CASE DllReturns("done")
    BY <1>5, SearchEndsTheory
<1> QED
    BY <1>1, <1>2, <1>3, <1>4, <1>5
    DEF SolverNext, CentralisedRun, ModuMinUsingDP, ModuminUsingWASP, DP, Clients

LEMMA CentralStep == CentralInv /\ [SolverNext]_vars => CentralInv'
<1> SUFFICES ASSUME CentralInv, [SolverNext]_vars PROVE CentralInv'
    OBVIOUS
<1>1. StoreInv /\ StoreInv'
    BY StoreStep DEF CentralInv
<1>2. driver' = driver /\ theory' = theory
    BY DriverKept, TheoryKept
<1>3. driver \in {"ModuMinUsingDP", "ModuminUsingWASP"} => RunInv'
    BY <1>1, RunStep DEF CentralInv
<1>4. NoEmptyRule' <=> NoEmptyRule
    BY <1>2 DEF NoEmptyRule
<1>5. driver = "DP" /\ NoEmptyRule => TheoryInv'
    BY <1>1, TheoryStep DEF CentralInv
<1> QED BY <1>1, <1>2, <1>3, <1>4, <1>5 DEF CentralInv

LEMMA CentralInit == SolverInit => CentralInv
<1> SUFFICES ASSUME SolverInit
             PROVE  /\ driver \in {"ModuMinUsingDP", "ModuminUsingWASP"} => RunInv
                    /\ driver = "DP" => TheoryInv
    BY StoreInit DEF CentralInv
<1>1. /\ driver \in {"ModuMinUsingDP", "ModuminUsingWASP"} => pc = "test"
      /\ driver = "DP" => pc = "all"
      /\ phase = "ready" /\ literalMap = NoValues /\ minModel = {}
      /\ todo = {} /\ placed = NoValues
    BY DEF SolverInit, StartInit, ReadTheory
<1>2. PlacedTrue = {} /\ PlacedFalse = {} /\ \A val : Pending(val) = {}
    BY <1>1 DEF PlacedTrue, PlacedFalse, NoValues, Pending
<1>3. Forced /\ Recorded
    BY <1>1, <1>2 DEF Forced, ForcedBy, Recorded
<1>4. Keys = {} /\ \A v \in Var : placed[v] = "unset"
    BY <1>1 DEF Keys, NoValues
<1> QED BY <1>1, <1>3, <1>4 DEF RunInv, TheoryInv

LEMMA RunDone ==
    ASSUME StoreInv, RunInv, At("done")
    PROVE  TheoryModel(minModel) /\ (backtracked \/ TheoryMinimal(minModel))
<1>1. IInv /\ todo = {} /\ SIZE = 0
    BY DEF StoreInv, RunInv, At
<1>2. live = {}
    <2>1. IsFiniteSet(live)
        <3>1. IsFiniteSet(RuleIdx)
            BY FS_Interval, NumRulesAssumption, RuleIdxAssumption
        <3> QED BY <1>1, <3>1, FS_Subset DEF IInv, TypeOK
    <2> QED BY <1>1, <2>1, FS_EmptySet DEF IInv, SizeCountsLive
<1>3. minModel = PlacedTrue
    BY <1>1, <1>2 DEF RunInv, Recorded, PositiveUnit
<1>4. minModel \in SUBSET Var /\ minModel \cap PlacedFalse = {}
    BY <1>3 DEF PlacedTrue, PlacedFalse
<1>5. TheoryModel(minModel)
    <2>1. ResidualEquivalent
        BY <1>1, Equivalence
    <2> QED BY <1>2, <1>3, <1>4, <2>1
        DEF ResidualEquivalent, TheoryModel, IsModel, RuleBodies, RuleHeads
<1>6. ASSUME ~backtracked, NEW N \in SUBSET minModel, TheoryModel(N)
      PROVE  N = minModel
    <2>1. N \in SUBSET Var /\ N \cap PlacedFalse = {}
        BY <1>4
    <2>2. PlacedTrue \subseteq N
        BY <1>1, <1>6, <2>1, NothingPending DEF RunInv, ForcedBy
    <2> QED BY <1>3, <2>2
<1> QED BY <1>5, <1>6 DEF TheoryMinimal, IsMinimalModel, TheoryModel

LEMMA TheoryDone ==
    ASSUME StoreInv, TheoryInv, At("done")
    PROVE  TheoryModel(minModel) /\ (backtracked \/ TheoryMinimal(minModel))
<1>1. todo = {} /\ TrueToPlace = {} /\ pc = "done"
    BY DEF StoreInv, At, TrueToPlace
<1>2. minModel \cup TrueToPlace = minModel
    BY <1>1
<1> QED BY <1>1, <1>2 DEF TheoryInv

(* RunInv and TheoryInv hold in every state of a centralised run.         *)
THEOREM CentralInvariance == SolverSpec => []CentralInv
BY CentralInit, CentralStep, PTL DEF SolverSpec

(* A centralised run that ends ends with a model of the whole theory, a    *)
(* minimal one if no branch of DLL failed, although only the rules inside  *)
(* one source were ever solved together, whatever the search of the graph  *)
(* takes for a source, the order of the maps and of the literals, and the  *)
(* answers of WASP.  DP needs a file without an empty rule.                *)
THEOREM CentralRunsAreRight ==
    SolverSpec => [](driver # "clients" /\ (driver = "DP" => NoEmptyRule) => ModelWhenDone)
<1>1. CentralInv /\ DriverInv => (driver # "clients" /\ (driver = "DP" => NoEmptyRule) => ModelWhenDone)
    BY RunDone, TheoryDone DEF CentralInv, DriverInv, ModelWhenDone
<1>2. SolverSpec => []DriverInv
    <2>1. SolverInit => DriverInv
        BY DEF SolverInit, DriverInv
    <2>2. DriverInv /\ [SolverNext]_vars => DriverInv'
        BY DriverKept DEF DriverInv
    <2> QED BY <2>1, <2>2, PTL DEF SolverSpec
<1> QED BY <1>1, <1>2, CentralInvariance, PTL

(* DLL has no part in a run with WASP, so that what it ends with is always *)
(* a minimal model.                                                        *)
THEOREM WaspRunsAreMinimal ==
    SolverSpec => [](driver = "ModuminUsingWASP" => MinimalWhenDone)
<1> DEFINE Unfailed == driver = "ModuminUsingWASP" => ~backtracked
<1>1. SolverInit => Unfailed
    BY DEF SolverInit, StartInit
<1>2. Unfailed /\ [SolverNext]_vars => Unfailed'
    <2> SUFFICES ASSUME [SolverNext]_vars, driver = "ModuminUsingWASP"
                 PROVE  backtracked' = backtracked
        BY DriverKept
    <2> QED
        BY DEF SolverNext, CentralisedRun, ModuMinUsingDP, ModuminUsingWASP, DP, Clients, vars,
               searchVars, Place, LoopTest, PlaceUnit, EndOfPass, SolveSource
<1>3. CentralInv /\ Unfailed => (driver = "ModuminUsingWASP" => MinimalWhenDone)
    BY RunDone DEF CentralInv, MinimalWhenDone
<1> HIDE DEF Unfailed
<1> QED BY <1>1, <1>2, <1>3, CentralInvariance, PTL DEF SolverSpec
-----------------------------------------------------------------------------
(* The variables that a rule of the theory makes true by itself, and what  *)
(* a map of values makes true and false if their value is ignored: a       *)
(* message has them false where Ts overwrote them.                         *)
Facts(t) == {v \in Var : \E i \in RuleIdx : t[i].body = {} /\ t[i].head = {v}}
Trues(t, m) == {v \in Var : m[v] = "true"} \cup Facts(t)
Falses(t, m) == {v \in Var : m[v] = "false"} \ Facts(t)

ModelsOf(t) == {N \in SUBSET Var : \A i \in RuleIdx : Satisfies(N, t[i].body, t[i].head)}

(* The true values of m are forced by the false ones.                      *)
Known(t, m) == \A N \in ModelsOf(t) : N \cap Falses(t, m) = {} => Trues(t, m) \subseteq N

(* What a client has placed or is placing, and what it has noted down in   *)
(* its literalMap to send it.                                              *)
Held == [v \in Var |-> IF placed[v] # "unset" THEN placed[v] ELSE literalMap[v]]
Told == IF pc \in {"units", "literals"} THEN Updated(literals, units) ELSE literals

(* What a client notes agrees with what it holds, except that a variable   *)
(* it has placed true may be noted as false.                               *)
ToldInv ==
    \A v \in Var : /\ placed[v] = "unset" => Told[v] = Held[v]
                   /\ Told[v] = "true" => Held[v] = "true"
                   /\ Held[v] = "false" => Told[v] = "false"

NothingEmptied ==
    \A i \in live : theory[i].body \cup theory[i].head # {} => body[i] \cup head[i] # {}

Running ==
    /\ Known(theory, Held)
    /\ ToldInv
    /\ \A v \in Var : literalMap[v] = "true" => Held[v] = "true"
    /\ minModel = PlacedTrue
    /\ NothingEmptied
    /\ phase = "update" => \A v \in Keys \ todo : placed[v] # "unset"
    /\ phase = "ready" /\ Keys # {} => placed = NoValues
    /\ phase = "ready" /\ pc \in {"wasp", "next"} => Keys = {}
    /\ LastVertex(client) /\ pc = "send" => SIZE = 0 /\ phase = "ready"

Busy == pc \in {"test", "units", "literals", "wasp", "next", "send"}
Undisturbed == refused = {} /\ unsat = {} /\ ParentsAgree

(* The messages, and who has sent one.                                     *)
HeardInv ==
    /\ ToSet(components) \subseteq SUBSET Var
    /\ source \in SUBSET Var
    /\ \A c \in DOMAIN sent : Parents(c) \subseteq DOMAIN sent
    /\ Busy => client \notin DOMAIN sent /\ Parents(client) \subseteq DOMAIN sent
    /\ pc = "graph" => sent = <<>> /\ models = <<>>
    /\ phase = "update" => pc \in {"units", "wasp", "next", "send"}

ResultsInv ==
    Undisturbed =>
        /\ \A p \in DOMAIN sent : Known(theory, sent[p])
        /\ \A c \in DOMAIN models : LastVertex(c) => TheoryMinimal(models[c])
        /\ Busy /\ AgreeFor(client) => Running

ClientInv ==
    /\ StoreInv
    /\ driver = "clients" => HeardInv /\ ResultsInv
    /\ driver # "clients" => models = <<>>
-----------------------------------------------------------------------------
LEMMA KnownWeaker ==
    ASSUME NEW t, NEW m, NEW n, Known(t, m),
           Falses(t, m) \subseteq Falses(t, n), Trues(t, n) \subseteq Trues(t, m)
    PROVE  Known(t, n)
<1> SUFFICES ASSUME NEW N \in ModelsOf(t), N \cap Falses(t, n) = {}
             PROVE  Trues(t, n) \subseteq N
    BY DEF Known
<1>1. N \cap Falses(t, m) = {}
    OBVIOUS
<1> QED BY <1>1 DEF Known

LEMMA FactsInModels ==
    ASSUME NEW t, NEW N \in ModelsOf(t)
    PROVE  Facts(t) \subseteq N
<1> SUFFICES ASSUME NEW v \in Facts(t) PROVE v \in N
    OBVIOUS
<1>1. PICK i \in RuleIdx : t[i].body = {} /\ t[i].head = {v}
    BY DEF Facts
<1>2. Satisfies(N, t[i].body, t[i].head)
    BY DEF ModelsOf
<1> QED BY <1>1, <1>2 DEF Satisfies

(* A unit rule: the value is that of a fact, or forced by what is held.    *)
LEMMA KnownUnit ==
    ASSUME NEW t, NEW m \in Values, Known(t, m), NEW u \in Var, NEW val \in Value,
           NEW i \in RuleIdx,
           \/ val = "false"
           \/ u \in Facts(t)
           \/ /\ m[u] # "false"
              /\ t[i].body \subseteq Trues(t, m)
              /\ t[i].head \subseteq Falses(t, m) \cup {u}
    PROVE  Known(t, [m EXCEPT ![u] = val])
<1> DEFINE n == [m EXCEPT ![u] = val]
<1>1. \A v \in Var : n[v] = IF v = u THEN val ELSE m[v]
    BY DEF Values
<1> HIDE DEF n
<1>2. CASE val = "false" \/ u \in Facts(t)
    <2>1. Falses(t, m) \subseteq Falses(t, n)
        BY <1>1, <1>2 DEF Falses, Value
    <2>2. Trues(t, n) \subseteq Trues(t, m)
        BY <1>1, <1>2 DEF Trues, Value
    <2>3. Known(t, n)
        BY <2>1, <2>2, KnownWeaker
    <2> QED BY <2>3 DEF n
<1>3. CASE /\ val = "true" /\ m[u] # "false"
           /\ t[i].body \subseteq Trues(t, m)
           /\ t[i].head \subseteq Falses(t, m) \cup {u}
    <2>1. Falses(t, n) = Falses(t, m)
        BY <1>1, <1>3 DEF Falses
    <2>2. Trues(t, n) = Trues(t, m) \cup {u}
        BY <1>1, <1>3 DEF Trues
    <2>3. ASSUME NEW N \in ModelsOf(t), N \cap Falses(t, n) = {}
          PROVE  Trues(t, n) \subseteq N
        <3>1. Trues(t, m) \subseteq N
            BY <2>1, <2>3 DEF Known
        <3>2. Satisfies(N, t[i].body, t[i].head)
            BY DEF ModelsOf
        <3>3. u \in N
            BY <1>3, <2>1, <2>3, <3>1, <3>2 DEF Satisfies
        <3> QED BY <2>2, <3>1, <3>3
    <2>4. Known(t, n)
        BY <2>3 DEF Known
    <2> QED BY <2>4 DEF n
<1> QED BY <1>2, <1>3 DEF Value
-----------------------------------------------------------------------------
LEMMA HeldValues ==
    ASSUME StoreInv
    PROVE  Held \in Values /\ Told \in Values
BY DEF StoreInv, IInv, TypeOK, Values, Held, Told, Updated

LEMMA ModelsOfTheory ==
    ASSUME NEW N
    PROVE  N \in ModelsOf(theory) <=> N \in SUBSET Var /\ TheoryModel(N)
BY DEF ModelsOf, TheoryModel, IsModel, RuleBodies, RuleHeads

(* A fact is not placed false, and one that is not placed has its rule.    *)
LEMMA FactsKept ==
    ASSUME IInv, NothingEmptied, NEW v \in Facts(theory)
    PROVE  /\ placed[v] # "false"
           /\ placed[v] = "unset" => \E i \in live : body[i] = {} /\ head[i] = {v}
<1>1. PICK i \in RuleIdx : theory[i].body = {} /\ theory[i].head = {v}
    BY DEF Facts
<1>2. v \in Var
    BY DEF Facts
<1>3. CASE i \notin live
    <2>1. theory[i].head \cap PlacedTrue # {}
        BY <1>1, <1>3 DEF IInv, ReducedByPlaced
    <2> QED BY <1>1, <2>1 DEF PlacedTrue
<1>4. CASE i \in live
    <2>1. /\ body[i] = {} /\ head[i] = {v} \ PlacedFalse
          /\ body[i] \cup head[i] # {}
        BY <1>1, <1>4 DEF IInv, ReducedByPlaced, NothingEmptied
    <2> QED BY <1>2, <1>4, <2>1 DEF PlacedFalse
<1> QED BY <1>3, <1>4

(* A model that avoids what is held to be false is one of the rules left.  *)
LEMMA HeldModel ==
    ASSUME IInv, NothingEmptied, Known(theory, Held), NEW N \in ModelsOf(theory),
           N \cap Falses(theory, Held) = {}
    PROVE  /\ Trues(theory, Held) \subseteq N
           /\ PlacedTrue \subseteq N /\ N \cap PlacedFalse = {}
           /\ \A i \in live : Satisfies(N, body[i], head[i])
<1>1. Trues(theory, Held) \subseteq N
    BY DEF Known
<1>2. PlacedTrue \subseteq N
    BY <1>1 DEF PlacedTrue, Trues, Held
<1>3. PlacedFalse \subseteq Falses(theory, Held)
    BY FactsKept DEF PlacedFalse, Falses, Held
<1>4. N \in SUBSET Var /\ TheoryModel(N)
    BY ModelsOfTheory
<1>5. N \cap PlacedFalse = {}
    BY <1>3
<1> QED BY <1>1, <1>2, <1>4, <1>5, ModelOfTheRest
-----------------------------------------------------------------------------
LEMMA PlacingEmptiesNothing ==
    ASSUME IInv, NothingEmptied, NEW k \in todo, PlaceKey(k),
           ~ConflictWithAssignment(k, literalMap[k])
    PROVE  NothingEmptied'
<1> DEFINE val == literalMap[k]
<1>1. k \in Var /\ val \in Value
    BY DEF IInv, TypeOK, Keys, Value
<1>2. ChangeDataStructure(k, val) /\ theory' = theory
    BY DEF PlaceKey
<1> SUFFICES ASSUME NEW i \in live', theory[i].body \cup theory[i].head # {}
             PROVE  body'[i] \cup head'[i] # {}
    BY <1>2 DEF NothingEmptied
<1>3. i \in RuleIdx /\ i \in live /\ i \notin SatisfiedRules(k, val)
    BY <1>2 DEF ChangeDataStructure, IInv, TypeOK
<1>4. body[i] \cup head[i] # {}
    BY <1>3 DEF NothingEmptied
<1>5. /\ body'[i] = IF i \in ShortenedRules(k, val) /\ val = "true" THEN body[i] \ {k} ELSE body[i]
      /\ head'[i] = IF i \in ShortenedRules(k, val) /\ val = "false" THEN head[i] \ {k} ELSE head[i]
    BY <1>2, <1>3 DEF ChangeDataStructure, BodyAfter, HeadAfter
<1>6. CASE i \notin ShortenedRules(k, val)
    BY <1>4, <1>5, <1>6
<1>7. CASE i \in ShortenedRules(k, val)
    <2>1. i \in varHT[k] /\ k \in IF val = "true" THEN body[i] ELSE head[i]
        BY <1>7 DEF ShortenedRules
    <2>2. /\ val = "true" => k \notin head[i]
          /\ val = "false" => k \notin body[i]
        BY <1>1, <1>3, <1>7, TouchedRules
    <2>3. /\ ~(val = "true" /\ body[i] = {k} /\ head[i] = {})
          /\ ~(val = "false" /\ head[i] = {k} /\ body[i] = {})
        BY <2>1 DEF ConflictWithAssignment
    <2> QED BY <1>1, <1>5, <2>1, <2>2, <2>3 DEF Value
<1> QED BY <1>6, <1>7

(* What is held by a client does not change while it is placed.            *)
LEMMA PlaceKeyRunning ==
    ASSUME StoreInv, Running, NEW k \in todo, PlaceKey(k),
           ~ConflictWithAssignment(k, literalMap[k]),
           UNCHANGED <<pc, literals, units, client, graphVars>>
    PROVE  Running'
<1> DEFINE val == literalMap[k]
<1>1. k \in Var /\ val \in Value /\ placed \in Values /\ IInv
    BY DEF StoreInv, IInv, TypeOK, Keys, Value, Values
<1>2. /\ placed' = [placed EXCEPT ![k] = IF @ = "unset" THEN val ELSE @]
      /\ todo' = todo \ {k}
      /\ minModel' = IF val = "true" THEN minModel \cup {k} ELSE minModel
      /\ phase = "update" /\ phase' = phase
      /\ UNCHANGED <<literalMap, theory>>
    BY DEF PlaceKey, ChangeDataStructure
<1>3. \A v \in Var : placed'[v] = IF v = k /\ placed[v] = "unset" THEN val ELSE placed[v]
    BY <1>1, <1>2 DEF Values
<1>4. Held' = Held
    <2>1. \A v \in Var : (IF placed'[v] # "unset" THEN placed'[v] ELSE literalMap[v])
                            = IF placed[v] # "unset" THEN placed[v] ELSE literalMap[v]
        BY <1>1, <1>3 DEF Value
    <2> QED BY <1>2, <2>1 DEF Held
<1>5. Told' = Told
    BY DEF Told, Updated
<1>6. Known(theory, Held)'
    BY <1>2, <1>4 DEF Running
<1>7. ToldInv'
    BY <1>3, <1>4, <1>5 DEF Running, ToldInv
<1>8. \A v \in Var : literalMap'[v] = "true" => Held'[v] = "true"
    BY <1>2, <1>4 DEF Running
<1>9. minModel' = PlacedTrue'
    <2>1. val = "true" => placed[k] # "false"
        BY <1>1 DEF Running, Held
    <2>2. minModel = PlacedTrue /\ placed[k] \in Value \cup {"unset"}
        BY <1>1 DEF Running, Values
    <2>3. PlacedTrue' = IF val = "true" THEN PlacedTrue \cup {k} ELSE PlacedTrue
        BY <1>1, <1>3, <2>1, <2>2 DEF PlacedTrue, Value
    <2> QED BY <1>2, <2>2, <2>3
<1>10. NothingEmptied'
    BY <1>1, PlacingEmptiesNothing DEF Running
<1>11. \A v \in Keys' \ todo' : placed'[v] # "unset"
    <2>1. Keys' = Keys /\ Keys \subseteq Var
        BY <1>2 DEF Keys
    <2> QED BY <1>1, <1>2, <1>3, <2>1 DEF Running, Value
<1>12. ~(LastVertex(client)' /\ pc' = "send")
    <2>1. LastVertex(client)' <=> LastVertex(client)
        BY DEF LastVertex, graphVars
    <2> QED BY <1>2, <2>1 DEF Running
<1> QED BY <1>2, <1>6, <1>7, <1>8, <1>9, <1>10, <1>11, <1>12 DEF Running

LEMMA EndUpdateRunning ==
    ASSUME StoreInv, Running, EndUpdate,
           UNCHANGED <<pc, literals, units, client, graphVars>>
    PROVE  Running'
<1>1. /\ phase = "update" /\ phase' = "ready" /\ todo = {}
      /\ literalMap' = [v \in Var |-> "unset"]
      /\ UNCHANGED <<minModel, theory, placed, live, body, head>>
    BY DEF EndUpdate
<1>2. Held' = Held
    <2>1. \A v \in Var : placed[v] = "unset" => literalMap[v] = "unset"
        BY <1>1 DEF Running, Keys
    <2> QED BY <1>1, <2>1 DEF Held
<1>3. Told' = Told
    BY DEF Told, Updated
<1>4. Known(theory, Held)' /\ ToldInv'
    BY <1>1, <1>2, <1>3 DEF Running, ToldInv
<1>5. minModel' = PlacedTrue' /\ NothingEmptied'
    BY <1>1 DEF Running, PlacedTrue, NothingEmptied
<1>6. Keys' = {} /\ \A v \in Var : literalMap'[v] # "true"
    BY <1>1 DEF Keys
<1>7. ~(LastVertex(client)' /\ pc' = "send")
    <2>1. LastVertex(client)' <=> LastVertex(client)
        BY DEF LastVertex, graphVars
    <2> QED BY <1>1, <2>1 DEF Running
<1> QED BY <1>1, <1>4, <1>5, <1>6, <1>7 DEF Running
-----------------------------------------------------------------------------
(* A call of updateRuleDS with m: what is held afterwards is known.        *)
LEMMA CallRunning ==
    ASSUME StoreInv, Running, NEW m \in Values, StartUpdate(m),
           Known(theory, Held'), ToldInv',
           \A v \in Var : m[v] = "true" => Held'[v] = "true",
           pc' # "send" \/ ~LastVertex(client)'
    PROVE  Running'
<1>1. /\ phase' = "update" /\ literalMap' = m /\ todo' = Keys'
      /\ UNCHANGED <<minModel, theory, placed, live, body, head>>
    BY DEF StartUpdate, Keys
<1>2. Known(theory, Held)'
    BY <1>1
<1>3. minModel' = PlacedTrue' /\ NothingEmptied'
    BY <1>1 DEF Running, PlacedTrue, NothingEmptied
<1> QED BY <1>1, <1>2, <1>3 DEF Running

LEMMA PlaceUnitRunning ==
    ASSUME StoreInv, Running, PlaceUnit, UNCHANGED <<literals, client, graphVars>>
    PROVE  Running'
<1>1. /\ IInv /\ literalMap \in Values /\ units \in Values /\ literals \in Values
      /\ placed \in Values
      /\ phase = "ready" /\ pc = "units" /\ pc' = "units" /\ UnitsFrom(rule) # {}
    BY DEF PlaceUnit, At, StoreInv, IInv, TypeOK, Values
<1> DEFINE first == CHOOSE j \in UnitsFrom(rule) : \A k \in UnitsFrom(rule) : j <= k
<1>2. first \in UnitsFrom(rule)
    <2>1. UnitsFrom(rule) \subseteq Nat
        <3>1. RuleIdx \subseteq Nat
            BY RuleIdxAssumption
        <3>2. live \subseteq RuleIdx
            BY <1>1 DEF IInv, TypeOK
        <3> QED BY <3>1, <3>2 DEF UnitsFrom
    <2>2. \E j \in UnitsFrom(rule) : \A k \in UnitsFrom(rule) : j <= k
        BY <1>1, <2>1, LeastOfNaturals
    <2> QED BY <2>2
<1>3. /\ StartUpdate([literalMap EXCEPT ![UnitVar(first)] = UnitValue(first)])
      /\ units' = [units EXCEPT ![UnitVar(first)] = UnitValue(first)]
    BY DEF PlaceUnit
<1> HIDE DEF first
<1>4. PICK i \in RuleIdx, u \in Var, val \in Value :
         /\ i \in live
         /\ IF val = "true" THEN body[i] = {} /\ head[i] = {u}
                            ELSE body[i] = {u} /\ head[i] = {}
         /\ StartUpdate([literalMap EXCEPT ![u] = val])
         /\ units' = [units EXCEPT ![u] = val]
    <2>1. first \in live /\ first \in RuleIdx
          /\ Cardinality(body[first]) + Cardinality(head[first]) = 1
        BY <1>1, <1>2 DEF UnitsFrom, IInv, TypeOK
    <2> QED BY <1>1, <1>3, <2>1, UnitRule
<1> DEFINE m == [literalMap EXCEPT ![u] = val]
<1>5. /\ m \in Values /\ literalMap' = m /\ StartUpdate(m)
      /\ placed' = placed /\ theory' = theory
      /\ \A v \in Var : m[v] = IF v = u THEN val ELSE literalMap[v]
      /\ \A v \in Var : units'[v] = IF v = u THEN val ELSE units[v]
    BY <1>1, <1>4 DEF StartUpdate, Values
<1> HIDE DEF m
<1>6. placed[u] = "unset"
    BY <1>1, <1>4, LiveUnplaced
<1>7. Held' = [Held EXCEPT ![u] = val]
    <2>1. \A v \in Var : Held'[v] = IF v = u THEN val ELSE Held[v]
        BY <1>5, <1>6 DEF Held
    <2>2. Held' = [v \in Var |-> Held'[v]] /\ Held \in Values
        BY HeldValues DEF Held
    <2> QED BY <2>1, <2>2 DEF Values
<1>8. \A v \in Var : /\ Held'[v] = IF v = u THEN val ELSE Held[v]
                     /\ Told'[v] = IF v = u THEN val ELSE Told[v]
    <2>1. \A v \in Var : Held'[v] = IF v = u THEN val ELSE Held[v]
        BY <1>5, <1>6 DEF Held
    <2>2. /\ Told' = Updated(literals, units') /\ Told = Updated(literals, units)
        BY <1>1 DEF Told, Updated
    <2>3. \A v \in Var : Told'[v] = IF v = u THEN val ELSE Told[v]
        BY <1>5, <2>2 DEF Updated, Value
    <2> QED BY <2>1, <2>3
<1>9. ToldInv'
    BY <1>5, <1>6, <1>8 DEF Running, ToldInv
<1>10. Known(theory, Held')
    <2>1. Held \in Values /\ Known(theory, Held) /\ NothingEmptied
        BY HeldValues DEF Running
    <2>2. ASSUME val = "true"
          PROVE  \/ u \in Facts(theory)
                 \/ /\ Held[u] # "false"
                    /\ theory[i].body \subseteq Trues(theory, Held)
                    /\ theory[i].head \subseteq Falses(theory, Held) \cup {u}
        <3>1. /\ theory[i].body \ PlacedTrue = {} /\ theory[i].head \ PlacedFalse = {u}
              /\ theory[i].body \subseteq Var /\ theory[i].head \subseteq Var
            BY <1>1, <1>4, <2>2 DEF IInv, ReducedByPlaced, TypeOK, Rule
        <3>2. PlacedTrue \subseteq Trues(theory, Held)
            BY DEF PlacedTrue, Trues, Held
        <3>3. PlacedFalse \subseteq Falses(theory, Held)
            BY <1>1, <2>1, FactsKept DEF PlacedFalse, Falses, Held
        <3>4. CASE Held[u] = "false"
            <4>1. literalMap[u] = "false"
                BY <1>6, <3>4 DEF Held
            <4>2. placed = NoValues
                BY <1>1, <4>1 DEF Running, Keys
            <4>3. PlacedTrue = {} /\ PlacedFalse = {}
                BY <4>2 DEF PlacedTrue, PlacedFalse, NoValues
            <4> QED BY <3>1, <4>3 DEF Facts
        <3> QED BY <3>1, <3>2, <3>3, <3>4
    <2>3. Known(theory, [Held EXCEPT ![u] = val])
        BY <2>1, <2>2, KnownUnit DEF Value
    <2> QED BY <1>7, <2>3
<1>11. \A v \in Var : m[v] = "true" => Held'[v] = "true"
    BY <1>5, <1>8 DEF Running
<1> QED BY <1>1, <1>5, <1>9, <1>10, <1>11, CallRunning

LEMMA PlaceLiteralsRunning ==
    ASSUME StoreInv, Running, PlaceLiterals
    PROVE  Running'
<1> DEFINE m == Updated(literals, units)
<1>1. /\ StartUpdate(m) /\ literals' = m /\ pc = "literals" /\ pc' = "wasp"
      /\ phase = "ready" /\ Told = m
    BY DEF PlaceLiterals, At, Told
<1>2. m \in Values
    BY <1>1, HeldValues
<1> HIDE DEF m
<1>3. literalMap' = m /\ placed' = placed
    BY <1>1 DEF StartUpdate
<1>4. Held' = Held
    <2>1. \A v \in Var : placed[v] = "unset" => m[v] = literalMap[v]
        BY <1>1 DEF Running, ToldInv, Held
    <2> QED BY <1>3, <2>1 DEF Held
<1>5. Told' = Told
    BY <1>1 DEF Told
<1>6. ToldInv'
    BY <1>3, <1>4, <1>5 DEF Running, ToldInv
<1>7. Known(theory, Held')
    BY <1>4 DEF Running
<1>8. \A v \in Var : m[v] = "true" => Held'[v] = "true"
    BY <1>1, <1>4 DEF Running, ToldInv
<1> QED BY <1>1, <1>2, <1>6, <1>7, <1>8, CallRunning

(* Below the placed values a minimal model of the rules inside the source  *)
(* is forced by what is false in the source and not in it, facts aside: a  *)
(* fact that is not placed yet is in every model of these rules.           *)
LEMMA SourceKnown ==
    ASSUME IInv, NothingEmptied, Known(theory, Held), \A v \in Var : literalMap[v] = "unset",
           NEW S \in SUBSET Var, NEW M \in SUBSET S,
           (M = {} /\ Ts(S) = {}) \/ M \in Answers(S),
           NEW n \in Values,
           \A v \in Var : n[v] = IF placed[v] # "unset" THEN placed[v] ELSE
                                 IF v \in M THEN "true" ELSE
                                 IF v \in S THEN "false" ELSE "unset"
    PROVE  Known(theory, n)
<1>1. \A v \in Var : Held[v] = placed[v]
    BY DEF Held
<1>2. Falses(theory, Held) \subseteq Falses(theory, n)
    BY <1>1 DEF Falses
<1>3. Trues(theory, n) = Trues(theory, Held) \cup {v \in M : placed[v] = "unset"}
    BY <1>1 DEF Trues
<1>4. \A i \in Ts(S) : Satisfies(M, body[i], head[i])
    BY DEF Answers, IsMinimalModel, IsModel
<1> SUFFICES ASSUME NEW N \in ModelsOf(theory), N \cap Falses(theory, n) = {}
             PROVE  Trues(theory, n) \subseteq N
    BY DEF Known
<1>5. N \cap Falses(theory, Held) = {}
    BY <1>2
<1>6. Trues(theory, Held) \subseteq N /\ \A i \in live : Satisfies(N, body[i], head[i])
    BY <1>5, HeldModel
<1>7. ASSUME NEW v \in N, v \in S, placed[v] = "unset"
      PROVE  v \in M
    <2>1. SUFFICES ASSUME v \notin M PROVE FALSE
        OBVIOUS
    <2>2. v \in Var /\ n[v] = "false"
        BY <1>7, <2>1
    <2>3. v \in Facts(theory)
        BY <2>2 DEF Falses
    <2>4. PICK i \in live : body[i] = {} /\ head[i] = {v}
        BY <1>7, <2>3, FactsKept
    <2>5. i \in Ts(S)
        BY <1>7, <2>4, RulesInside
    <2> QED BY <1>4, <2>1, <2>4, <2>5 DEF Satisfies
<1>8. ASSUME NEW i \in Ts(S) PROVE Satisfies(N \cap M, body[i], head[i])
    <2>1. i \in live /\ body[i] \cup head[i] \subseteq S
        BY RulesInside
    <2>2. \A v \in body[i] \cup head[i] : v \in N => v \in M
        BY <1>7, <2>1, LiveUnplaced
    <2> QED BY <1>6, <2>1, <2>2 DEF Satisfies
<1>9. M \subseteq N
    <2>1. CASE M \in Answers(S)
        BY <1>8, <2>1 DEF Answers, IsMinimalModel, IsModel
    <2> QED BY <2>1
<1> QED BY <1>3, <1>6, <1>9

LEMMA SolveRunning ==
    ASSUME StoreInv, Running, Solve, source \in SUBSET Var
    PROVE  Running'
<1>1. PICK M \in (IF Ts(source) = {} THEN {{}} ELSE Accepted) :
         /\ literals' = Updated(literals, ValuesOf(M, source))
         /\ StartUpdate(ValuesOf(M, source))
    BY DEF Solve
<1> DEFINE S == source
           m == ValuesOf(M, S)
<1>2. /\ M \in SUBSET S
      /\ (M = {} /\ Ts(S) = {}) \/ M \in Answers(S)
    BY <1>1 DEF Accepted, Answers
<1>3. /\ IInv /\ phase = "ready" /\ pc = "wasp"
      /\ pc' = (IF LastVertex(client) THEN "next" ELSE "send")
      /\ UNCHANGED <<graphVars, client>>
    BY DEF StoreInv, Solve, At
<1>4. \A v \in Var : literalMap[v] = "unset"
    BY <1>3 DEF Running, Keys
<1>5. /\ m \in Values
      /\ \A v \in Var : m[v] = IF v \in M THEN "true" ELSE IF v \in S THEN "false" ELSE "unset"
    BY <1>4, AllFalseValues DEF ValuesOf, AllFalse
<1>6. \A v \in M : placed[v] = "unset"
    BY <1>2, <1>3, AnswersUnplaced
<1>7. /\ literalMap' = m /\ placed' = placed /\ StartUpdate(m)
      /\ literals' = Updated(literals, m)
    BY <1>1 DEF StartUpdate
<1> HIDE DEF m, S
<1>8. /\ \A v \in Var : Held[v] = placed[v]
      /\ \A v \in Var : Held'[v] = IF placed[v] # "unset" THEN placed[v] ELSE m[v]
    BY <1>4, <1>7 DEF Held
<1>9. /\ Told = literals /\ Told' = literals'
      /\ \A v \in Var : literals'[v] = IF m[v] = "unset" THEN literals[v] ELSE m[v]
    BY <1>3, <1>7 DEF Told, Updated
<1>10. Known(theory, Held')
    <2>1. Held' \in Values
        <3>1. \A v \in Var : Held'[v] \in Value \cup {"unset"}
            BY <1>3, <1>5, <1>8 DEF IInv, TypeOK, Values
        <3>2. Held' = [v \in Var |-> Held'[v]]
            BY DEF Held
        <3> QED BY <3>1, <3>2 DEF Values
    <2>2. \A v \in Var : Held'[v] = IF placed[v] # "unset" THEN placed[v] ELSE
                                    IF v \in M THEN "true" ELSE
                                    IF v \in S THEN "false" ELSE "unset"
        BY <1>5, <1>8
    <2>3. S \in SUBSET Var
        BY DEF S
    <2>4. Known(theory, Held) /\ NothingEmptied
        BY DEF Running
    <2> DEFINE n == Held'
    <2>5. n \in Values /\ \A v \in Var : n[v] = IF placed[v] # "unset" THEN placed[v] ELSE
                                    IF v \in M THEN "true" ELSE
                                    IF v \in S THEN "false" ELSE "unset"
        BY <2>1, <2>2
    <2> HIDE DEF n
    <2>6. Known(theory, n)
        BY <1>2, <1>3, <1>4, <2>3, <2>4, <2>5, SourceKnown
    <2> QED BY <2>6 DEF n
<1>11. ToldInv'
    <2> SUFFICES ASSUME NEW v \in Var
                 PROVE  /\ placed[v] = "unset" => literals'[v] = Held'[v]
                        /\ literals'[v] = "true" => Held'[v] = "true"
                        /\ Held'[v] = "false" => literals'[v] = "false"
        BY <1>7, <1>9 DEF ToldInv
    <2>1. /\ placed[v] = "unset" => literals[v] = "unset"
          /\ literals[v] = "true" => placed[v] = "true"
          /\ placed[v] = "false" => literals[v] = "false"
        BY <1>8, <1>9 DEF Running, ToldInv
    <2> QED BY <1>5, <1>6, <1>8, <1>9, <2>1
<1>12. \A v \in Var : m[v] = "true" => Held'[v] = "true"
    BY <1>5, <1>6, <1>8
<1>13. pc' # "send" \/ ~LastVertex(client)'
    <2>1. LastVertex(client)' <=> LastVertex(client)
        BY <1>3 DEF LastVertex, graphVars
    <2> QED BY <1>3, <2>1
<1> QED BY <1>5, <1>7, <1>10, <1>11, <1>12, <1>13, CallRunning
-----------------------------------------------------------------------------
(* The tests between the calls: nothing is placed, and what is noted stays *)
(* what it is.                                                             *)
LEMMA QuietRunning ==
    ASSUME StoreInv, Running, UNCHANGED <<dsVars, graphVars, client, literals>>, phase = "ready",
           Told' = Told,
           pc' \in {"wasp", "next"} => pc \in {"wasp", "next"},
           pc' = "send" => SIZE = 0
    PROVE  Running'
<1>1. UNCHANGED <<phase, body, head, live, literalMap, minModel, SIZE, todo, theory, placed>>
    BY DEF dsVars
<1>2. Held' = Held /\ PlacedTrue' = PlacedTrue /\ Keys' = Keys
    BY <1>1 DEF Held, PlacedTrue, Keys
<1>3. Known(theory, Held)' /\ ToldInv' /\ NothingEmptied'
    BY <1>1, <1>2 DEF Running, ToldInv, NothingEmptied
<1> QED BY <1>1, <1>2, <1>3 DEF Running

LEMMA UpdatedByNone ==
    ASSUME NEW m \in Values
    PROVE  Updated(m, NoValues) = m
BY DEF Updated, NoValues, Values

LEMMA TestsRunning ==
    ASSUME StoreInv, Running, UNCHANGED clientVars,
           LoopTest("send") \/ EndOfPass("literals") \/ NextSource
    PROVE  Running'
<1>1. UNCHANGED <<graphVars, client, literals>>
    BY DEF clientVars
<1>2. literals \in Values
    BY DEF StoreInv
<1>3. CASE LoopTest("send")
    <2>1. /\ UNCHANGED dsVars /\ phase = "ready" /\ pc = "test" /\ units' = NoValues
          /\ (pc' = "units" \/ (pc' = "send" /\ SIZE = 0))
        BY <1>3 DEF LoopTest, At
    <2>2. Told' = Told
        BY <1>1, <1>2, <2>1, UpdatedByNone DEF Told
    <2> QED BY <1>1, <2>1, <2>2, QuietRunning
<1>4. CASE EndOfPass("literals")
    <2>1. /\ UNCHANGED dsVars /\ phase = "ready" /\ pc = "units" /\ units' = units
          /\ pc' \in {"units", "literals"}
        BY <1>4 DEF EndOfPass, At
    <2>2. Told' = Told
        BY <1>1, <2>1 DEF Told, Updated
    <2> QED BY <1>1, <2>1, <2>2, QuietRunning
<1>5. CASE NextSource
    <2>1. /\ UNCHANGED dsVars /\ phase = "ready" /\ pc = "next" /\ pc' = "test"
        BY <1>5 DEF NextSource, At
    <2>2. Told' = Told
        BY <1>1, <2>1 DEF Told
    <2> QED BY <1>1, <2>1, <2>2, QuietRunning
<1> QED BY <1>3, <1>4, <1>5
-----------------------------------------------------------------------------
(* What a client sends: its true values are forced by the false ones, and  *)
(* a client without children has a minimal model of the theory.            *)
LEMMA SentKnown ==
    ASSUME StoreInv, Running, At("send")
    PROVE  /\ Known(theory, literals)
           /\ LastVertex(client) => TheoryMinimal(minModel)
<1>1. /\ IInv /\ Told = literals /\ pc = "send"
      /\ \A v \in Var : Held[v] \in Value \cup {"unset"}
    BY HeldValues DEF At, Told, StoreInv, Values
<1>2. Known(theory, literals)
    <2>1. Falses(theory, Held) \subseteq Falses(theory, literals)
        BY <1>1 DEF Running, ToldInv, Falses
    <2>2. Trues(theory, literals) \subseteq Trues(theory, Held)
        BY <1>1 DEF Running, ToldInv, Trues
    <2> QED BY <2>1, <2>2, KnownWeaker DEF Running
<1>3. ASSUME LastVertex(client) PROVE TheoryMinimal(minModel)
    <2>1. live = {}
        <3>1. IsFiniteSet(live)
            <4>1. IsFiniteSet(RuleIdx)
                BY FS_Interval, NumRulesAssumption, RuleIdxAssumption
            <4> QED BY <1>1, <4>1, FS_Subset DEF IInv, TypeOK
        <3> QED BY <1>1, <1>3, <3>1, FS_EmptySet DEF IInv, SizeCountsLive, Running
    <2>2. minModel = PlacedTrue /\ minModel \in SUBSET Var /\ minModel \cap PlacedFalse = {}
        BY DEF Running, PlacedTrue, PlacedFalse
    <2>3. TheoryModel(minModel)
        <3>1. ResidualEquivalent
            BY <1>1, Equivalence
        <3> QED BY <2>1, <2>2, <3>1
            DEF ResidualEquivalent, TheoryModel, IsModel, RuleBodies, RuleHeads
    <2>4. ASSUME NEW N \in SUBSET minModel, TheoryModel(N) PROVE N = minModel
        <3>1. N \in ModelsOf(theory)
            BY <2>2, <2>4, ModelsOfTheory
        <3>2. \A v \in N : Held[v] = "true"
            BY <2>2 DEF Held, PlacedTrue
        <3>3. N \cap Falses(theory, Held) = {}
            BY <3>2 DEF Falses
        <3>4. PlacedTrue \subseteq N
            BY <1>1, <3>1, <3>3, HeldModel DEF Running
        <3> QED BY <2>2, <3>4
    <2> QED BY <2>3, <2>4 DEF TheoryMinimal, IsMinimalModel, TheoryModel
<1> QED BY <1>2, <1>3

(* Messages that agree lose nothing when they are merged.                  *)
LEMMA MergedKnown ==
    ASSUME StoreInv, NEW c, AgreeFor(c), Parents(c) \subseteq DOMAIN sent,
           \A p \in DOMAIN sent : Known(theory, sent[p]),
           NEW list \in SetToSeqs(Parents(c))
    PROVE  Known(theory, Merged(list))
<1>1. list \in [1 .. Cardinality(Parents(c)) -> Parents(c)]
    BY DEF SetToSeqs
<1>2. DOMAIN list \subseteq Nat /\ \A k \in DOMAIN list : list[k] \in Parents(c)
    BY <1>1
<1> DEFINE m == Merged(list)
           told(v) == {k \in DOMAIN list : sent[list[k]][v] # "unset"}
<1>3. ASSUME NEW v \in Var, m[v] # "unset"
      PROVE  \E k \in DOMAIN list : sent[list[k]][v] = m[v]
    <2>1. told(v) # {}
        BY <1>3 DEF Merged
    <2>2. \E k \in told(v) : \A j \in told(v) : k <= j
        <3>1. told(v) \subseteq Nat
            BY <1>2
        <3> HIDE DEF told
        <3> QED BY <2>1, <3>1, LeastOfNaturals
    <2>3. (CHOOSE k \in told(v) : \A j \in told(v) : k <= j) \in told(v)
        BY <2>2
    <2>4. m[v] = sent[list[CHOOSE k \in told(v) : \A j \in told(v) : k <= j]][v]
        BY <2>1 DEF Merged
    <2> QED BY <2>3, <2>4
<1>4. ASSUME NEW v \in Var, NEW k \in DOMAIN list, sent[list[k]][v] # "unset"
      PROVE  m[v] = sent[list[k]][v]
    <2>1. k \in told(v)
        BY <1>4
    <2>2. \E j \in told(v) : \A l \in told(v) : j <= l
        <3>1. told(v) \subseteq Nat
            BY <1>2
        <3> HIDE DEF told
        <3> QED BY <2>1, <3>1, LeastOfNaturals
    <2> DEFINE j == CHOOSE j \in told(v) : \A l \in told(v) : j <= l
    <2>3. j \in told(v)
        BY <2>2
    <2>4. m[v] = sent[list[j]][v]
        BY <2>1 DEF Merged
    <2> HIDE DEF j, m
    <2>5. list[j] \in Parents(c) /\ list[k] \in Parents(c) /\ sent[list[j]][v] # "unset"
        BY <1>2, <2>3
    <2> QED BY <1>4, <2>4, <2>5 DEF AgreeFor
<1> HIDE DEF m
<1>5. ASSUME NEW N \in ModelsOf(theory), N \cap Falses(theory, m) = {}
      PROVE  Trues(theory, m) \subseteq N
    <2>1. ASSUME NEW k \in DOMAIN list
          PROVE  Trues(theory, sent[list[k]]) \subseteq N
        <3>1. Falses(theory, sent[list[k]]) \subseteq Falses(theory, m)
            BY <1>4 DEF Falses
        <3>2. Known(theory, sent[list[k]])
            BY <1>2
        <3> QED BY <1>5, <3>1, <3>2 DEF Known
    <2>2. ASSUME NEW v \in Var, m[v] = "true" PROVE v \in N
        BY <1>3, <2>1, <2>2 DEF Trues
    <2> QED BY <2>2, FactsInModels DEF Trues
<1> QED BY <1>5 DEF Known, m

LEMMA FindMinimalModelsRunning ==
    ASSUME StoreInv, HeardInv, NEW c, FindMinimalModels(c), AgreeFor(c),
           \A p \in DOMAIN sent : Known(theory, sent[p])
    PROVE  Running'
<1>1. PICK list \in SetToSeqs(Parents(c)) : literalMap' = Merged(list)
    BY DEF FindMinimalModels
<1>2. /\ phase' = "ready" /\ pc' = "test" /\ theory' = theory /\ literals' = literalMap'
      /\ placed' = NoValues /\ minModel' = {} /\ CopyStore /\ Parents(c) \subseteq DOMAIN sent
    BY DEF FindMinimalModels, At, CopyStore
<1>3. Known(theory, Merged(list))
    BY <1>2, MergedKnown
<1>4. Held' = Merged(list)
    <2>1. Held' = [v \in Var |-> literalMap'[v]]
        BY <1>2 DEF Held, NoValues
    <2>2. Merged(list) = [v \in Var |-> Merged(list)[v]]
        BY DEF Merged
    <2> QED BY <1>1, <2>1, <2>2
<1>5. Told' = Merged(list)
    BY <1>1, <1>2 DEF Told
<1>6. Known(theory, Held)' /\ ToldInv'
    BY <1>2, <1>3, <1>4, <1>5 DEF ToldInv
<1>7. minModel' = PlacedTrue' /\ NothingEmptied'
    BY <1>2 DEF PlacedTrue, NoValues, NothingEmptied, CopyStore, RuleBodies, RuleHeads
<1> QED BY <1>1, <1>2, <1>4, <1>6, <1>7 DEF Running
-----------------------------------------------------------------------------
LEMMA ClientInit == SolverInit => ClientInv
<1> SUFFICES ASSUME SolverInit PROVE ClientInv
    OBVIOUS
<1>1. /\ phase = "ready" /\ components = <<>> /\ sent = <<>> /\ models = <<>> /\ source = {}
      /\ driver = "clients" => pc = "graph"
    BY DEF SolverInit, StartInit, ReadTheory
<1>2. StoreInv
    BY StoreInit
<1>3. driver = "clients" => HeardInv /\ ResultsInv
    BY <1>1 DEF HeardInv, ResultsInv, Busy, ToSet
<1> QED BY <1>1, <1>2, <1>3 DEF ClientInv

(* A step that sends nothing and lets the same client go on.               *)
LEMMA SameClient ==
    ASSUME HeardInv, ResultsInv, UNCHANGED <<graphVars, client, sent, models, theory>>,
           source' \in SUBSET Var, Busy, Busy' \/ pc' = "dead",
           phase' = "update" => pc' \in {"units", "wasp", "next", "send"},
           Undisturbed' => Undisturbed,
           Undisturbed' /\ Busy' /\ Running => Running'
    PROVE  HeardInv' /\ ResultsInv'
<1>1. \A c : /\ Parents(c)' = Parents(c) /\ (LastVertex(c)' <=> LastVertex(c))
             /\ AgreeFor(c)' <=> AgreeFor(c)
    BY DEF Parents, LastVertex, AgreeFor, graphVars
<1>2. \A p : (Known(theory, sent[p])' <=> Known(theory, sent[p]))
             /\ (TheoryMinimal(models[p])' <=> TheoryMinimal(models[p]))
    BY DEF TheoryMinimal, IsMinimalModel, IsModel, RuleBodies, RuleHeads
<1>3. HeardInv'
    BY <1>1 DEF HeardInv, Busy, graphVars
<1>4. ResultsInv'
    BY <1>1, <1>2 DEF ResultsInv
<1> QED BY <1>3, <1>4

LEMMA SameAgreement ==
    ASSUME UNCHANGED <<graphVars, sent>>
    PROVE  ParentsAgree' <=> ParentsAgree
BY DEF ParentsAgree, AgreeFor, Parents, graphVars

LEMMA ClientsStep ==
    ASSUME StoreInv, HeardInv, ResultsInv, Clients
    PROVE  HeardInv' /\ ResultsInv'
<1>1. CASE Place(client) /\ UNCHANGED clientVars
    <2>1. /\ UNCHANGED <<graphVars, client, sent, models, unsat, literals, pc, source, units>>
          /\ theory' = theory /\ phase = "update" /\ pc \in {"units", "wasp", "next", "send"}
        BY <1>1 DEF Place, PlaceKey, EndUpdate, clientVars, HeardInv, unitVars
    <2>2. Undisturbed' => Undisturbed /\ refused' = {}
        BY <1>1, <2>1, SameAgreement DEF Undisturbed, Place
    <2>3. Undisturbed' /\ Running => Running'
        <3>1. ASSUME NEW k \in todo, PlaceKey(k), Running, refused' = {},
                     refused' = IF ConflictWithAssignment(k, literalMap[k])
                                THEN refused \cup {client} ELSE refused
              PROVE  Running'
            <4>1. ~ConflictWithAssignment(k, literalMap[k])
                BY <3>1
            <4> QED BY <2>1, <3>1, <4>1, PlaceKeyRunning
        <3> QED BY <1>1, <2>1, <2>2, <3>1, EndUpdateRunning DEF Place
    <2>4. Busy /\ Busy' /\ source' \in SUBSET Var
        BY <2>1 DEF Busy, HeardInv
    <2> QED BY <2>1, <2>2, <2>3, <2>4, SameClient
<1>2. CASE (LoopTest("send") \/ EndOfPass("literals") \/ NextSource) /\ UNCHANGED clientVars
    <2>1. /\ UNCHANGED <<graphVars, client, sent, models, unsat, literals, refused>>
          /\ theory' = theory /\ phase' = "ready" /\ Busy /\ Busy'
          /\ source' \in SUBSET Var
        BY <1>2 DEF LoopTest, EndOfPass, NextSource, clientVars, Busy, HeardInv, At, dsVars, Sources
    <2>2. Undisturbed' => Undisturbed
        BY <2>1, SameAgreement DEF Undisturbed
    <2>3. Running => Running'
        BY <1>2, TestsRunning
    <2> QED BY <2>1, <2>2, <2>3, SameClient
<1>3. CASE PlaceUnit /\ UNCHANGED clientVars
    <2>1. /\ UNCHANGED <<graphVars, client, sent, models, unsat, literals, refused, source>>
          /\ theory' = theory /\ Busy /\ Busy' /\ pc' = "units"
        BY <1>3 DEF PlaceUnit, StartUpdate, clientVars, Busy, At
    <2>2. Undisturbed' => Undisturbed
        BY <2>1, SameAgreement DEF Undisturbed
    <2>3. Running => Running'
        BY <1>3, <2>1, PlaceUnitRunning
    <2> QED BY <2>1, <2>2, <2>3, SameClient DEF HeardInv
<1>4. CASE PlaceLiterals
    <2>1. /\ UNCHANGED <<graphVars, client, sent, models, unsat, refused, source>>
          /\ theory' = theory /\ Busy /\ Busy' /\ pc' = "wasp"
        BY <1>4 DEF PlaceLiterals, StartUpdate, Busy, At
    <2>2. Undisturbed' => Undisturbed
        BY <2>1, SameAgreement DEF Undisturbed
    <2> QED BY <1>4, <2>1, <2>2, PlaceLiteralsRunning, SameClient DEF HeardInv
<1>5. CASE Solve
    <2>1. /\ UNCHANGED <<graphVars, client, sent, models, unsat, refused, source>>
          /\ theory' = theory /\ Busy /\ Busy' /\ pc' \in {"next", "send"}
        BY <1>5 DEF Solve, StartUpdate, Busy, At
    <2>2. Undisturbed' => Undisturbed
        BY <2>1, SameAgreement DEF Undisturbed
    <2>3. source \in SUBSET Var
        BY DEF HeardInv
    <2> QED BY <1>5, <2>1, <2>2, <2>3, SolveRunning, SameClient
<1>6. CASE NoModel
    <2>1. /\ UNCHANGED <<graphVars, client, sent, models, refused, source>>
          /\ theory' = theory /\ Busy /\ Busy' /\ pc' = "send" /\ unsat' # {}
        BY <1>6 DEF NoModel, Busy, At
    <2> QED BY <2>1, SameClient DEF HeardInv, Undisturbed
<1>7. CASE Incoherent
    <2>1. /\ UNCHANGED <<graphVars, client, sent, models, unsat, refused, source>>
          /\ theory' = theory /\ Busy /\ ~Busy' /\ pc' = "dead" /\ phase' = "ready"
        BY <1>7 DEF Incoherent, dsVars, clientVars, Busy, At
    <2>2. Undisturbed' => Undisturbed
        BY <2>1, SameAgreement DEF Undisturbed
    <2> QED BY <2>1, <2>2, SameClient DEF HeardInv
<1>8. CASE CreateModelGraph
    <2>1. /\ sent' = <<>> /\ models' = <<>> /\ ~Busy' /\ pc' = "idle" /\ phase' = "ready"
          /\ source' \in SUBSET Var /\ ToSet(components') \subseteq SUBSET Var
        BY <1>8 DEF CreateModelGraph, HeardInv, At, Busy, dsVars
    <2> QED BY <2>1 DEF HeardInv, ResultsInv, ToSet
<1>9. ASSUME NEW c \in ToSet(components), FindMinimalModels(c)
      PROVE  HeardInv' /\ ResultsInv'
    <2>1. /\ UNCHANGED <<graphVars, sent, models, unsat, refused, theory>>
          /\ client' = c /\ source' = c /\ pc' = "test" /\ phase' = "ready"
          /\ c \notin DOMAIN sent /\ Parents(c) \subseteq DOMAIN sent
        BY <1>9 DEF FindMinimalModels, At
    <2>2. \A d : /\ Parents(d)' = Parents(d) /\ (LastVertex(d)' <=> LastVertex(d))
                 /\ AgreeFor(d)' <=> AgreeFor(d)
        BY <2>1 DEF Parents, LastVertex, AgreeFor, graphVars
    <2>3. \A p : (Known(theory, sent[p])' <=> Known(theory, sent[p]))
                 /\ (TheoryMinimal(models[p])' <=> TheoryMinimal(models[p]))
        BY <2>1 DEF TheoryMinimal, IsMinimalModel, IsModel, RuleBodies, RuleHeads
    <2>4. HeardInv'
        BY <2>1, <2>2 DEF HeardInv, graphVars
    <2>5. Undisturbed' => Undisturbed
        BY <2>1, SameAgreement DEF Undisturbed
    <2>6. AgreeFor(client)' <=> AgreeFor(c)
        BY <2>1, <2>2 DEF AgreeFor, Parents, graphVars
    <2>7. ResultsInv'
        BY <1>9, <2>1, <2>2, <2>3, <2>5, <2>6, FindMinimalModelsRunning DEF ResultsInv
    <2> QED BY <2>4, <2>7
<1>10. CASE SendMessage
    <2>1. /\ UNCHANGED <<graphVars, client, unsat, refused, theory, source>>
          /\ sent' = FromClient(sent, literals) /\ models' = FromClient(models, minModel)
          /\ At("send") /\ Busy /\ ~Busy' /\ pc' = "idle" /\ phase' = "ready"
        BY <1>10 DEF SendMessage, At, Busy, dsVars
    <2>2. /\ client \notin DOMAIN sent /\ Parents(client) \subseteq DOMAIN sent
          /\ \A c \in DOMAIN sent : Parents(c) \subseteq DOMAIN sent
        BY <2>1 DEF HeardInv
    <2>3. /\ DOMAIN sent' = DOMAIN sent \cup {client} /\ sent'[client] = literals
          /\ \A p \in DOMAIN sent : sent'[p] = sent[p]
        BY <2>1, <2>2 DEF FromClient
    <2>4. /\ DOMAIN models' = DOMAIN models \cup {client} /\ models'[client] = minModel
          /\ \A p \in DOMAIN models : p # client => models'[p] = models[p]
        BY <2>1 DEF FromClient
    <2>5. \A c : Parents(c)' = Parents(c) /\ (LastVertex(c)' <=> LastVertex(c))
        BY <2>1 DEF Parents, LastVertex, graphVars
    <2>6. HeardInv'
        BY <2>1, <2>2, <2>3, <2>5 DEF HeardInv, graphVars
    <2>7. Undisturbed' => Undisturbed /\ AgreeFor(client)
        <3>1. ASSUME ParentsAgree', NEW c \in DOMAIN sent \cup {client} PROVE AgreeFor(c)
            <4>1. AgreeFor(c)'
                BY <2>3, <3>1 DEF ParentsAgree
            <4>2. Parents(c)' = Parents(c) /\ Parents(c) \subseteq DOMAIN sent
                BY <2>2, <2>5
            <4> QED BY <2>3, <4>1, <4>2 DEF AgreeFor
        <3> QED BY <2>1, <3>1 DEF Undisturbed, ParentsAgree
    <2>8. ASSUME Undisturbed' PROVE Running /\ Known(theory, literals)
                                    /\ (LastVertex(client) => TheoryMinimal(minModel))
        BY <2>1, <2>7, <2>8, SentKnown DEF ResultsInv
    <2>9. ASSUME Undisturbed', NEW p \in DOMAIN sent' PROVE Known(theory, sent[p])'
        <3>1. Known(theory, sent'[p])
            BY <2>3, <2>7, <2>8, <2>9 DEF ResultsInv
        <3> QED BY <2>1, <3>1
    <2>10. ASSUME Undisturbed', NEW p \in DOMAIN models', LastVertex(p)'
           PROVE  TheoryMinimal(models[p])'
        <3>1. TheoryMinimal(models'[p])
            BY <2>4, <2>5, <2>7, <2>8, <2>10 DEF ResultsInv
        <3> QED BY <2>1, <3>1 DEF TheoryMinimal, IsMinimalModel, IsModel, RuleBodies, RuleHeads
    <2> QED BY <2>1, <2>6, <2>9, <2>10 DEF ResultsInv
<1> QED
    BY <1>1, <1>2, <1>3, <1>4, <1>5, <1>6, <1>7, <1>8, <1>9, <1>10
    DEF Clients, NextSource

LEMMA ClientStep == ClientInv /\ [SolverNext]_vars => ClientInv'
<1> SUFFICES ASSUME ClientInv, [SolverNext]_vars PROVE ClientInv'
    OBVIOUS
<1>1. StoreInv /\ StoreInv'
    BY StoreStep DEF ClientInv
<1>2. driver' = driver
    BY DriverKept
<1>3. CASE Clients
    <2>1. driver = "clients"
        BY <1>3 DEF Clients
    <2> QED BY <1>1, <1>2, <1>3, <2>1, ClientsStep DEF ClientInv
<1>4. CASE CentralisedRun /\ UNCHANGED clientVars
    <2>1. driver # "clients" /\ models' = models
        BY <1>4 DEF CentralisedRun, ModuMinUsingDP, ModuminUsingWASP, DP, clientVars
    <2> QED BY <1>1, <1>2, <2>1 DEF ClientInv
<1>5. CASE UNCHANGED vars
    <2>1. /\ UNCHANGED <<graphVars, client, sent, models, unsat, refused, source, literals, units,
                         pc, found, phase, body, head, live, literalMap, minModel, SIZE, todo,
                         theory, placed>>
        BY <1>5 DEF vars, dsVars, clientVars, unitVars
    <2>2. /\ \A c : Parents(c)' = Parents(c) /\ (LastVertex(c)' <=> LastVertex(c))
          /\ \A c : AgreeFor(c)' <=> AgreeFor(c)
          /\ \A p : (Known(theory, sent[p])' <=> Known(theory, sent[p]))
          /\ \A p : (TheoryMinimal(models[p])' <=> TheoryMinimal(models[p]))
        BY <2>1 DEF Parents, LastVertex, AgreeFor, graphVars, TheoryMinimal, IsMinimalModel,
                    IsModel, RuleBodies, RuleHeads
    <2>3. HeardInv => HeardInv'
        BY <2>1, <2>2 DEF HeardInv, Busy, graphVars
    <2>4. Running => Running'
        <3>1. /\ Held' = Held /\ Told' = Told /\ Keys' = Keys /\ PlacedTrue' = PlacedTrue
              /\ LastVertex(client)' <=> LastVertex(client)
            BY <2>1 DEF Held, Told, Updated, Keys, PlacedTrue, LastVertex, graphVars
        <3>2. /\ Known(theory, Held)' <=> Known(theory, Held)
              /\ ToldInv' <=> ToldInv
              /\ NothingEmptied' <=> NothingEmptied
            BY <2>1, <3>1 DEF ToldInv, NothingEmptied
        <3> QED BY <2>1, <3>1, <3>2 DEF Running
    <2>5. Undisturbed' <=> Undisturbed
        BY <2>1, SameAgreement DEF Undisturbed
    <2>6. AgreeFor(client)' <=> AgreeFor(client)
        BY <2>1 DEF AgreeFor, Parents, graphVars
    <2>7. ResultsInv => ResultsInv'
        BY <2>1, <2>2, <2>4, <2>5, <2>6 DEF ResultsInv, Busy
    <2> QED BY <1>1, <1>2, <2>1, <2>3, <2>7 DEF ClientInv
<1> QED BY <1>3, <1>4, <1>5 DEF SolverNext

(* What a client without children sends is a minimal model of the whole    *)
(* theory, for every theory and every super graph, whatever component is   *)
(* taken for a source, in whatever order the maps are read and whichever   *)
(* minimal models the solver prints, unless a value was refused, an answer *)
(* passed over, or two messages disagreed that some client merged.         *)
THEOREM ClientsAreMinimal == SolverSpec => []FinalsMinimal
<1>1. SolverSpec => []ClientInv
    BY ClientInit, ClientStep, PTL DEF SolverSpec
<1>2. ClientInv => FinalsMinimal
    BY DEF ClientInv, ResultsInv, Undisturbed, FinalsMinimal
<1> QED BY <1>1, <1>2, PTL
=============================================================================
