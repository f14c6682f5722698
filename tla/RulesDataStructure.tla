------------------------- MODULE RulesDataStructure -------------------------
(***************************************************************************)
(* The clause store of Rules/RulesDataStructure.java: RulesArray with its  *)
(* inverted index varHT, the map literalMap of values decided but not yet  *)
(* placed, and the model under construction.  Values enter literalMap from *)
(* many places (unit rules, the source initialisation of Ts, the solvers,  *)
(* a parent's message); updateRuleDS places them one key at a time, which  *)
(* deletes the rules they satisfy and the literals they falsify.           *)
(***************************************************************************)
EXTENDS Theory, Integers, FiniteSets

CONSTANT NumRules    \* the rule count of the file's header: RulesArray.length

ASSUME NumRulesAssumption == NumRules \in Nat
ASSUME RuleIdxAssumption  == RuleIdx = 1 .. NumRules

Value == {"true", "false"}

VARIABLES
    phase,        \* "load": readfile runs; "ready": between calls;
                  \* "update": inside the loop of updateRuleDS
    index,        \* readfile's index: the rule being read
    body, head,   \* RulesArray[i].body and RulesArray[i].head
    live,         \* the i with RulesArray[i] # null
    varHT,        \* variable -> the rules it is listed under
    literalMap,   \* variable -> value waiting to be placed, or "unset"
    minModel,     \* the variables recorded as true so far
    SIZE,         \* the code's count of the rules still there
    todo,         \* the keys updateRuleDS has still to visit
    theory,       \* history: the rules as readfile stored them
    placed        \* history: the value placed in each variable, or "unset"

dsVars == <<phase, index, body, head, live, varHT, literalMap, minModel,
            SIZE, todo, theory, placed>>

Keys == {v \in Var : literalMap[v] # "unset"}

TypeOK ==
    /\ phase \in {"load", "ready", "update"}
    /\ index \in 1 .. NumRules + 1
    /\ body \in [RuleIdx -> SUBSET Var]
    /\ head \in [RuleIdx -> SUBSET Var]
    /\ live \subseteq RuleIdx
    /\ varHT \in [Var -> SUBSET RuleIdx]
    /\ literalMap \in [Var -> Value \cup {"unset"}]
    /\ minModel \subseteq Var
    /\ SIZE \in Int
    /\ todo \subseteq Keys
    /\ theory \in [RuleIdx -> Rule]
    /\ placed \in [Var -> Value \cup {"unset"}]
-----------------------------------------------------------------------------
EmptyRule == [body |-> {}, head |-> {}]

(* The constructor: numOfRules empty rules, all of them counted in SIZE.   *)
Init ==
    /\ phase = "load"
    /\ index = 1
    /\ body = [i \in RuleIdx |-> {}]
    /\ head = [i \in RuleIdx |-> {}]
    /\ live = RuleIdx
    /\ varHT = [v \in Var |-> {}]
    /\ literalMap = [v \in Var |-> "unset"]
    /\ minModel = {}
    /\ SIZE = NumRules
    /\ todo = {}
    /\ theory = [i \in RuleIdx |-> EmptyRule]
    /\ placed = [v \in Var |-> "unset"]

(* addToRulsArray for a token of readfile: a negative one goes to the body *)
(* and a positive one to the head, and the rule is listed under v once.    *)
(* Lists without repetitions, as removeDoubles should leave them.          *)
AddToRulsArray(v, negative) ==
    /\ phase = "load"
    /\ index \in RuleIdx
    /\ v \notin IF negative THEN body[index] ELSE head[index]
    /\ IF negative
       THEN /\ body' = [body EXCEPT ![index] = @ \cup {v}]
            /\ theory' = [theory EXCEPT ![index].body = @ \cup {v}]
            /\ UNCHANGED head
       ELSE /\ head' = [head EXCEPT ![index] = @ \cup {v}]
            /\ theory' = [theory EXCEPT ![index].head = @ \cup {v}]
            /\ UNCHANGED body
    /\ varHT' = [varHT EXCEPT ![v] = @ \cup {index}]
    /\ UNCHANGED <<phase, index, live, literalMap, minModel, SIZE, todo, placed>>

(* The token 0 ends a rule.                                                *)
EndRule ==
    /\ phase = "load"
    /\ index \in RuleIdx
    /\ index' = index + 1
    /\ UNCHANGED <<phase, body, head, live, varHT, literalMap, minModel, SIZE,
                   todo, theory, placed>>

(* End of file, wherever it comes: nothing compares index with the header. *)
EndOfFile ==
    /\ phase = "load"
    /\ phase' = "ready"
    /\ UNCHANGED <<index, body, head, live, varHT, literalMap, minModel, SIZE,
                   todo, theory, placed>>

(* literalMap.put(v, val), whoever decides the value.                      *)
PutLiteral(v, val) ==
    /\ phase = "ready"
    /\ literalMap' = [literalMap EXCEPT ![v] = val]
    /\ UNCHANGED <<phase, index, body, head, live, varHT, minModel, SIZE, todo,
                   theory, placed>>
-----------------------------------------------------------------------------
(* updateRuleDS iterates over literalMap.keySet(), in HashMap order.       *)
UpdateRuleDS ==
    /\ phase = "ready"
    /\ phase' = "update"
    /\ todo' = Keys
    /\ UNCHANGED <<index, body, head, live, varHT, literalMap, minModel, SIZE,
                   theory, placed>>

(* conflictWithAssignment: the value would empty a unit rule.              *)
ConflictWithAssignment(v, val) ==
    \E i \in varHT[v] :
        \/ body[i] = {v} /\ head[i] = {} /\ val = "true"
        \/ head[i] = {v} /\ body[i] = {} /\ val = "false"

(* Mutant: a value of either sign deletes every rule with v in its head.   *)
SatisfiedByAnyHead(v, val) ==
    {i \in varHT[v] : (v \in body[i] /\ val = "false") \/ v \in head[i]}

(* The rules ChangeDataStrucureByPlacingValueInVar deletes, because the    *)
(* value satisfies them, and those it only shortens.                       *)
SatisfiedRules(v, val) ==
    {i \in varHT[v] : \/ v \in body[i] /\ val = "false"
                      \/ v \in head[i] /\ val = "true"}

(* Mutant: the two deleteVarFrom calls are swapped.                        *)
ShortenedSwapped(v, val) ==
    {i \in varHT[v] \ SatisfiedRules(v, val) :
        v \in (IF val = "true" THEN head[i] ELSE body[i])}

ShortenedRules(v, val) ==
    {i \in varHT[v] \ SatisfiedRules(v, val) :
        v \in (IF val = "true" THEN body[i] ELSE head[i])}

(* The rule lists after deleteRule and the deleteVarFrom calls.            *)
BodyAfter(v, val) ==
    [i \in RuleIdx |->
        CASE i \in SatisfiedRules(v, val) -> {}
          [] i \in ShortenedRules(v, val) /\ val = "true" -> body[i] \ {v}
          [] OTHER -> body[i]]

HeadAfter(v, val) ==
    [i \in RuleIdx |->
        CASE i \in SatisfiedRules(v, val) -> {}
          [] i \in ShortenedRules(v, val) /\ val = "false" -> head[i] \ {v}
          [] OTHER -> head[i]]

(* Mutant: deleteRule takes the rule out of the list of v only.            *)
IndexOwnListOnly(v, val) ==
    [w \in Var |-> varHT[w] \
        IF w = v THEN SatisfiedRules(v, val) \cup ShortenedRules(v, val)
                 ELSE {}]

(* updateHT: a deleted rule leaves the list of each of its variables, a    *)
(* shortened one the list of v.                                            *)
IndexAfter(v, val) ==
    [w \in Var |-> varHT[w] \
        ({i \in SatisfiedRules(v, val) : w \in body[i] \cup head[i]}
           \cup IF w = v THEN ShortenedRules(v, val) ELSE {})]

SizeAfter(v, val) == SIZE - Cardinality(SatisfiedRules(v, val))

(* deleteRule on every satisfied rule, deleteVarFromBody or                *)
(* deleteVarFromHead on every shortened one, each with its updateHT.       *)
ChangeDataStructure(v, val) ==
    /\ body' = BodyAfter(v, val)
    /\ head' = HeadAfter(v, val)
    /\ live' = live \ SatisfiedRules(v, val)
    /\ varHT' = IndexAfter(v, val)
    /\ SIZE' = SizeAfter(v, val)
    /\ placed' = [placed EXCEPT ![v] = IF @ = "unset" THEN val ELSE @]

(* One iteration of the loop: a true key is recorded in minModel before    *)
(* the conflict check, and a conflict leaves the rules as they are.        *)
PlaceKey(k) ==
    /\ phase = "update"
    /\ k \in todo
    /\ todo' = todo \ {k}
    /\ minModel' = IF literalMap[k] = "true" THEN minModel \cup {k} ELSE minModel
    /\ IF ConflictWithAssignment(k, literalMap[k])
       THEN UNCHANGED <<body, head, live, varHT, SIZE, placed>>
       ELSE ChangeDataStructure(k, literalMap[k])
    /\ UNCHANGED <<phase, index, literalMap, theory>>

(* literalMap.clear() after the loop.                                      *)
EndUpdate ==
    /\ phase = "update"
    /\ todo = {}
    /\ phase' = "ready"
    /\ literalMap' = [v \in Var |-> "unset"]
    /\ UNCHANGED <<index, body, head, live, varHT, minModel, SIZE, todo,
                   theory, placed>>

Next ==
    \/ \E v \in Var, negative \in BOOLEAN : AddToRulsArray(v, negative)
    \/ EndRule
    \/ EndOfFile
    \/ \E v \in Var, val \in Value : PutLiteral(v, val)
    \/ UpdateRuleDS
    \/ \E k \in todo : PlaceKey(k)
    \/ EndUpdate

Spec == Init /\ [][Next]_dsVars
-----------------------------------------------------------------------------
(* The index is exact: varHT lists rule i under v if and only if rule i is *)
(* still there and contains v.  A stale entry would make                   *)
(* conflictWithAssignment or deleteRule dereference a null rule, a missing *)
(* one would leave a decided variable inside a rule.                       *)
IndexExact ==
    \A v \in Var, i \in RuleIdx :
        (i \in varHT[v]) <=> (i \in live /\ v \in body[i] \cup head[i])

(* SIZE, the loop condition of every algorithm, counts the rules that are  *)
(* still there.                                                            *)
SizeCountsLive == SIZE = Cardinality(live)

PlacedTrue  == {v \in Var : placed[v] = "true"}
PlacedFalse == {v \in Var : placed[v] = "false"}

(* What is left is exactly the original theory reduced by the placed       *)
(* values: a deleted rule is satisfied by one of them, a rule still there  *)
(* is satisfied by none and has lost exactly the falsified literals.       *)
ReducedByPlaced ==
    \A i \in RuleIdx :
        IF i \in live
        THEN /\ body[i] = theory[i].body \ PlacedTrue
             /\ head[i] = theory[i].head \ PlacedFalse
             /\ theory[i].body \cap PlacedFalse = {}
             /\ theory[i].head \cap PlacedTrue = {}
        ELSE \/ theory[i].body \cap PlacedFalse # {}
             \/ theory[i].head \cap PlacedTrue # {}

(* The reduction loses and adds no model: an interpretation that agrees    *)
(* with the placed values is a model of the theory read from the file if   *)
(* and only if it is a model of the rules that are left.                   *)
ResidualEquivalent ==
    \A M \in SUBSET Var :
        (PlacedTrue \subseteq M /\ PlacedFalse \cap M = {}) =>
            (  IsModel(M, RuleIdx, [i \in RuleIdx |-> theory[i].body],
                                   [i \in RuleIdx |-> theory[i].head])
             <=> IsModel(M, live, body, head))

(* Placing a value never empties a rule: the conflict check refuses the    *)
(* value first.  An empty rule could never be deleted again, SIZE would    *)
(* stay above zero and every while(DS.SIZE != 0) loop would run forever.   *)
NoRuleEmptied ==
    [][\A i \in live' : body[i] \cup head[i] # {} =>
                        body'[i] \cup head'[i] # {}]_dsVars
=============================================================================
