------------------------------- MODULE ModuMin -------------------------------
(***************************************************************************)
(* The centralised runs of MinimalModel on the clause store.               *)
(* ModuMinUsingDP and ModuminUsingWASP place the unit rules, take a source *)
(* of the graph of what is left, find a model of the rules inside the      *)
(* source with DLL or with WASP, place it, and repeat while rules are      *)
(* left; DP gives the whole theory to DLL.  checkForUnits and the placing  *)
(* of values serve the clients of a distributed run (ComponentClients).    *)
(***************************************************************************)
EXTENDS RulesDataStructure, DependencyGraph

CONSTANT Theories    \* what readfile may have stored, rules by index

ASSUME TheoriesAssumption == Theories \subseteq [RuleIdx -> Rule]
ASSUME VarAssumption      == IsFiniteSet(Var) /\ Var \subseteq Nat \ {0}

VARIABLES
    driver,       \* who uses the store: "ModuMinUsingDP", "DP",
                  \* "ModuminUsingWASP" or "clients"
    pc,           \* where the driver is
    rule, found,  \* i and flag of checkForUnits
    units,        \* the map checkForUnits returns
    source,       \* the vertices whose rules are solved next
    refused,      \* history: the components during whose turn updateRuleDS
                  \* printed CONFLICT
    formula, clauses, stack, trail, verdict,   \* DLL: see DavisPutnam
    backtracked   \* history: a branch of a DLL of this run has failed

searchVars == <<formula, clauses, stack, trail, verdict, backtracked>>
unitVars   == <<rule, found, units>>

D == INSTANCE DavisPutnam WITH Formulas <- {}, input <- formula

NoValues == [v \in Var |-> "unset"]

ThisRun == {}    \* in refused: a centralised run, of no component

RulesWith(t, v) == {i \in RuleIdx : v \in t[i].body \cup t[i].head}

ReadTheory(t) ==
    /\ theory = t
    /\ phase = "ready"
    /\ index = NumRules + 1
    /\ body = [i \in RuleIdx |-> t[i].body]
    /\ head = [i \in RuleIdx |-> t[i].head]
    /\ live = RuleIdx
    /\ varHT = [v \in Var |-> RulesWith(t, v)]
    /\ literalMap = NoValues
    /\ minModel = {}
    /\ SIZE = NumRules
    /\ todo = {}
    /\ placed = NoValues

StartInit ==
    /\ \E t \in Theories : ReadTheory(t)
    /\ rule = 1
    /\ found = FALSE
    /\ units = NoValues
    /\ source = {}
    /\ refused = {}
    /\ formula = <<>>
    /\ clauses = <<>>
    /\ stack = <<>>
    /\ trail = {}
    /\ verdict = "sat"
    /\ backtracked = FALSE

At(label) == phase = "ready" /\ pc = label
-----------------------------------------------------------------------------
(* updateRuleDS, for whoever called it.                                    *)
Place(who) ==
    \/ /\ \E k \in todo :
             /\ PlaceKey(k)
             /\ refused' = IF ConflictWithAssignment(k, literalMap[k])
                           THEN refused \cup {who} ELSE refused
       /\ UNCHANGED <<driver, pc, unitVars, source, searchVars>>
    \/ EndUpdate /\ UNCHANGED <<driver, pc, unitVars, source, refused, searchVars>>

(* The call of updateRuleDS with the values m in literalMap.               *)
StartUpdate(m) ==
    /\ literalMap' = m
    /\ todo' = {v \in Var : m[v] # "unset"}
    /\ phase' = "update"
    /\ UNCHANGED <<index, body, head, live, varHT, minModel, SIZE, theory, placed>>

(* while(DS.SIZE != 0)                                                     *)
LoopTest(end) ==
    /\ At("test")
    /\ pc' = IF SIZE = 0 THEN end ELSE "units"
    /\ rule' = 1
    /\ found' = FALSE
    /\ units' = NoValues
    /\ UNCHANGED <<dsVars, driver, source, refused, searchVars>>
-----------------------------------------------------------------------------
UnitsFrom(i) == {j \in live : j >= i /\ Cardinality(body[j]) + Cardinality(head[j]) = 1}

UnitVar(i)   == CHOOSE v \in body[i] \cup head[i] : TRUE
UnitValue(i) == IF body[i] # {} THEN "false" ELSE "true"

(* checkForUnits: the next unit rule of the pass is placed at once.        *)
PlaceUnit ==
    /\ At("units")
    /\ UnitsFrom(rule) # {}
    /\ LET i == CHOOSE j \in UnitsFrom(rule) : \A k \in UnitsFrom(rule) : j <= k
       IN  /\ StartUpdate([literalMap EXCEPT ![UnitVar(i)] = UnitValue(i)])
           /\ units' = [units EXCEPT ![UnitVar(i)] = UnitValue(i)]
           /\ rule' = i + 1
    /\ found' = TRUE
    /\ UNCHANGED <<driver, pc, source, refused, searchVars>>

(* A pass that found a unit rule is followed by another one.               *)
EndOfPass(next) ==
    /\ At("units")
    /\ UnitsFrom(rule) = {}
    /\ pc' = IF found THEN "units" ELSE next
    /\ rule' = 1
    /\ found' = FALSE
    /\ UNCHANGED <<dsVars, driver, units, source, refused, searchVars>>
-----------------------------------------------------------------------------
GraphV == Vertices(live, body, head)
GraphE == Edges(live, body, head)

(* What sourceOfGraph may return: a set of variables, which of several     *)
(* depends on the order of the maps.                                       *)
Sources ==
    LET V == GraphV  E == GraphE
    IN  {SourceOfGraph(V, E, order) : order \in Orders} \cap SUBSET Var

(* Mutant: only the body of a rule is looked for in S.                     *)
TsByBody(S) == {i \in UNION {varHT[v] : v \in S} : body[i] \subseteq S}

(* Ts: the rules all of whose variables are in S.                          *)
Ts(S) == {i \in UNION {varHT[v] : v \in S} : body[i] \cup head[i] \subseteq S}

(* Ts sets every variable of its argument to false in literalMap.          *)
AllFalse(S) == [v \in Var |-> IF v \in S THEN "false" ELSE literalMap[v]]

Least(S) == CHOOSE v \in S : \A w \in S : v <= w

(* The list Ts returns goes through the variables of the source and the    *)
(* rules each is listed under; it is one list.                             *)
TsLists(S) ==
    LET FirstOf(i) == Least(body[i] \cup head[i])
        Before(i, j) == FirstOf(i) < FirstOf(j) \/ (FirstOf(i) = FirstOf(j) /\ i < j)
    IN  {list \in SetToSeqs(Ts(S)) :
            \A i, j \in DOMAIN list : i < j => Before(list[i], list[j])}

(* The literals of a rule in one order: the file may have them in any.     *)
ClauseFor(i) == D!ClauseOf(SetToSeq(body[i]), SetToSeq(head[i]))

(* FindMinimalModelForTs: a clause for each rule of the list, and DLL.     *)
StartDLL(list) ==
    /\ formula' = [k \in DOMAIN list |-> ClauseFor(list[k])]
    /\ clauses' = formula'
    /\ stack' = <<>>
    /\ trail' = {}
    /\ verdict' = "searching"
    /\ pc' = "dll"
    /\ UNCHANGED <<phase, index, body, head, live, varHT, minModel, SIZE, todo, theory,
                   placed, driver, unitVars, refused, backtracked>>

(* initGraph, sourceOfGraph, Ts, and the call of FindMinimalModelForTs.    *)
PickSource ==
    /\ At("graph")
    /\ source' \in Sources
    /\ literalMap' = AllFalse(source')
    /\ \E list \in TsLists(source') : StartDLL(list)

(* DP: the list of all the rules.                                          *)
TakeAllRules ==
    /\ At("all")
    /\ StartDLL([i \in RuleIdx |-> i])
    /\ UNCHANGED <<literalMap, source>>

(* A step of DLL, which writes its values into literalMap.                 *)
SearchStep ==
    /\ At("dll")
    /\ D!Next
    /\ backtracked' = (backtracked \/ verdict = "failed")
    /\ UNCHANGED <<phase, index, body, head, live, varHT, minModel, SIZE, todo, theory,
                   placed, driver, pc, unitVars, source, refused>>

(* DLL returned: the values are placed, or the run ends with UNSAT.        *)
DllReturns(next) ==
    /\ At("dll")
    /\ verdict \in {"sat", "unsat"}
    /\ IF verdict = "sat"
       THEN StartUpdate(literalMap) /\ pc' = next
       ELSE UNCHANGED dsVars /\ pc' = "unsat"
    /\ UNCHANGED <<driver, unitVars, source, refused, searchVars>>
-----------------------------------------------------------------------------
(* What WASP prints for the rules of Ts: their minimal models.             *)
Answers(S) == {M \in SUBSET S : IsMinimalModel(M, Ts(S), body, head)}

ValuesOf(M, S) == [v \in Var |-> IF v \in M THEN "true" ELSE AllFalse(S)[v]]

(* MinimalModelScript prints one answer.  {} is skipped and the empty list *)
(* is UNSAT; INCOHERENT is a model that does not parse.                    *)
SolveSource ==
    /\ At("graph")
    /\ source' \in Sources
    /\ \/ /\ Ts(source') = {}
          /\ StartUpdate(AllFalse(source'))
          /\ pc' = "test"
       \/ /\ Ts(source') # {}
          /\ \E M \in Answers(source') \ {{}} : StartUpdate(ValuesOf(M, source'))
          /\ pc' = "test"
       \/ /\ Ts(source') # {}
          /\ Answers(source') \subseteq {{}}
          /\ pc' = IF Answers(source') = {} THEN "dead" ELSE "unsat"
          /\ literalMap' = AllFalse(source')
          /\ UNCHANGED <<phase, index, body, head, live, varHT, minModel, SIZE, todo,
                         theory, placed>>
    /\ UNCHANGED <<driver, unitVars, refused, searchVars>>
-----------------------------------------------------------------------------
ModuMinUsingDP ==
    /\ driver = "ModuMinUsingDP"
    /\ Place(ThisRun) \/ LoopTest("done") \/ PlaceUnit \/ EndOfPass("graph")
         \/ PickSource \/ SearchStep \/ DllReturns("test")

ModuminUsingWASP ==
    /\ driver = "ModuminUsingWASP"
    /\ Place(ThisRun) \/ LoopTest("done") \/ PlaceUnit \/ EndOfPass("graph")
         \/ SolveSource

DP ==
    /\ driver = "DP"
    /\ Place(ThisRun) \/ TakeAllRules \/ SearchStep \/ DllReturns("done")

CentralisedRun == ModuMinUsingDP \/ ModuminUsingWASP \/ DP
=============================================================================
