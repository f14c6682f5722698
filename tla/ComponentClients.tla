-------------------------- MODULE ComponentClients --------------------------
(***************************************************************************)
(* The clients of a distributed run: one per component of the graph of the *)
(* theory, each with its own copy of the store.  A client merges what its  *)
(* parents sent and runs ConstructMinimalModels.ModuminUsingWASP: a turn   *)
(* for its component and, if it has no children, more turns until no rule  *)
(* is left.  The messages and threads are in Distributed: here a client    *)
(* runs after its parents, and one store serves one client after another.  *)
(***************************************************************************)
EXTENDS ModuMin

VARIABLES
    components,   \* the super graph: the components, listed before the ones
                  \* their edges lead to,
    superEdges,   \* and its edges
    client,       \* the component whose client is running
    literals,     \* literalMap of its ConstructMinimalModels
    sent,         \* component -> the literalMap its client sent
    models,       \* component -> the minModel its client sent
    unsat         \* the components whose client printed UNSAT

graphVars  == <<components, superEdges>>
clientVars == <<graphVars, client, literals, sent, models, unsat>>
vars == <<dsVars, driver, pc, unitVars, source, refused, searchVars, clientVars>>

RuleBodies == [i \in RuleIdx |-> theory[i].body]
RuleHeads  == [i \in RuleIdx |-> theory[i].head]

Parents(c)    == {p \in ToSet(components) : <<p, c>> \in superEdges}
LastVertex(c) == ~\E d \in ToSet(components) : <<c, d>> \in superEdges

SolverInit ==
    /\ StartInit
    /\ \/ driver \in {"ModuMinUsingDP", "ModuminUsingWASP"} /\ pc = "test"
       \/ driver = "DP" /\ pc = "all"
       \/ driver = "clients" /\ pc = "graph"
    /\ components = <<>>
    /\ superEdges = {}
    /\ client = {}
    /\ literals = NoValues
    /\ sent = <<>>
    /\ models = <<>>
    /\ unsat = {}

(* updateLiteralMap: the values of n replace those of m.                   *)
Updated(m, n) == [v \in Var |-> IF n[v] = "unset" THEN m[v] ELSE n[v]]
-----------------------------------------------------------------------------
(* MainProgram: createModelGraph on the rules as they were read.           *)
CreateModelGraph ==
    /\ At("graph")
    /\ components' = SCC(GraphV, GraphE, SetToSortSeq(Var, <))
    /\ ToSet(components') \subseteq SUBSET Var
    /\ superEdges' = SuperEdges(ToSet(components'), GraphE)
    /\ pc' = "idle"
    /\ UNCHANGED <<dsVars, driver, unitVars, source, refused, searchVars, client, literals,
                   sent, models, unsat>>

(* Mutant: the copies share the list minModel.                             *)
CopyStoreShared ==
    /\ body' = RuleBodies
    /\ head' = RuleHeads
    /\ live' = RuleIdx
    /\ varHT' = [v \in Var |-> RulesWith(theory, v)]
    /\ SIZE' = NumRules
    /\ placed' = NoValues
    /\ UNCHANGED minModel

(* The copy constructor of the store and setVarHT, on the rules as read.   *)
CopyStore ==
    /\ body' = RuleBodies
    /\ head' = RuleHeads
    /\ live' = RuleIdx
    /\ varHT' = [v \in Var |-> RulesWith(theory, v)]
    /\ SIZE' = NumRules
    /\ placed' = NoValues
    /\ minModel' = {}

(* The merge of the parents' messages: of two values for a variable the    *)
(* one merged later stays.  The list has the parent merged last first.     *)
Merged(list) ==
    [v \in Var |->
        LET told == {k \in DOMAIN list : sent[list[k]][v] # "unset"}
        IN  IF told = {} THEN "unset"
            ELSE sent[list[CHOOSE k \in told : \A j \in told : k <= j]][v]]

(* A client waits for all its parents.  Their messages come in the order   *)
(* of their hashed names, which is any, and findMinimalModels starts on a  *)
(* fresh copy of the store.                                                *)
FindMinimalModels(c) ==
    /\ At("idle")
    /\ driver = "clients"
    /\ \E k \in 1 .. Len(components) :
          c = components[k] /\ DOMAIN sent = {components[j] : j \in 1 .. k - 1}
    /\ c \notin DOMAIN sent /\ Parents(c) \subseteq DOMAIN sent
    /\ \E list \in SetToSeqs(Parents(c)) : literalMap' = Merged(list)
    /\ literals' = literalMap'
    /\ client' = c
    /\ source' = c
    /\ CopyStore
    /\ pc' = "test"
    /\ UNCHANGED <<phase, index, todo, theory, driver, unitVars, refused, searchVars,
                   graphVars, sent, models, unsat>>

(* updateLiteralMap(hm), setLiteralMap and updateRuleDS after the units.   *)
PlaceLiterals ==
    /\ At("literals")
    /\ literals' = Updated(literals, units)
    /\ StartUpdate(literals')
    /\ pc' = "wasp"
    /\ UNCHANGED <<driver, unitVars, source, refused, searchVars, graphVars, client, sent, models, unsat>>

(* MinimalModelFromScript skips {} and an answer whose variables are all   *)
(* false in literalMap already.                                            *)
Accepted == {M \in Answers(source) : \E v \in M : literals[v] # "false"}

(* The answers of a script run are all minimal: the first one that is      *)
(* accepted is never replaced and none is added.                           *)
Solve ==
    /\ At("wasp")
    /\ \E M \in IF Ts(source) = {} THEN {{}} ELSE Accepted :
          /\ literals' = Updated(literals, ValuesOf(M, source))
          /\ StartUpdate(ValuesOf(M, source))
    /\ pc' = IF LastVertex(client) THEN "next" ELSE "send"
    /\ UNCHANGED <<driver, unitVars, source, refused, searchVars, graphVars, client, sent, models, unsat>>

(* An empty list of models: UNSAT is printed, the turns end.               *)
NoModel ==
    /\ At("wasp")
    /\ Ts(source) # {}
    /\ Answers(source) # {}
    /\ Accepted = {}
    /\ unsat' = unsat \cup {client}
    /\ literalMap' = AllFalse(source)
    /\ pc' = "send"
    /\ UNCHANGED <<phase, index, body, head, live, varHT, minModel, SIZE, todo, theory, placed,
                   driver, unitVars, source, refused, searchVars, graphVars, client, literals, sent, models>>

(* INCOHERENT becomes a model that does not parse: the exception ends the  *)
(* thread, and nothing is sent.                                            *)
Incoherent ==
    /\ At("wasp")
    /\ Ts(source) # {}
    /\ Answers(source) = {}
    /\ pc' = "dead"
    /\ UNCHANGED <<dsVars, driver, unitVars, source, refused, searchVars, clientVars>>

(* A client without children goes on with a source of what is left.        *)
NextSource ==
    /\ At("next")
    /\ source' \in Sources
    /\ pc' = "test"
    /\ UNCHANGED <<dsVars, driver, unitVars, refused, searchVars, clientVars>>

FromClient(f, value) ==
    [c \in DOMAIN f \cup {client} |-> IF c = client THEN value ELSE f[c]]

SendMessage ==
    /\ At("send")
    /\ sent' = FromClient(sent, literals)
    /\ models' = FromClient(models, minModel)
    /\ pc' = "idle"
    /\ UNCHANGED <<dsVars, driver, unitVars, source, refused, searchVars, graphVars, client, literals, unsat>>

Clients ==
    /\ driver = "clients"
    /\ \/ (Place(client) \/ LoopTest("send") \/ PlaceUnit \/ EndOfPass("literals")) /\ UNCHANGED clientVars
       \/ CreateModelGraph
       \/ \E c \in ToSet(components) : FindMinimalModels(c)
       \/ PlaceLiterals
       \/ Solve
       \/ NoModel
       \/ Incoherent
       \/ NextSource
       \/ SendMessage

SolverNext == (CentralisedRun /\ UNCHANGED clientVars) \/ Clients

SolverSpec == SolverInit /\ [][SolverNext]_vars /\ WF_vars(SolverNext)
-----------------------------------------------------------------------------
TheoryModel(M) == IsModel(M, RuleIdx, RuleBodies, RuleHeads)
TheoryMinimal(M) == IsMinimalModel(M, RuleIdx, RuleBodies, RuleHeads)
Positive == \A i \in RuleIdx : theory[i].head # {}

(* Whatever the order of the maps, scc returns the strongly connected      *)
(* components of what is left of the theory, each before the components    *)
(* its edges lead to: sourceOfGraph takes the first for a source, and      *)
(* SuperGraph numbers them so.                                             *)
ComponentsExact ==
    pc \in {"graph", "next"} =>
        LET V == GraphV  E == GraphE
        IN  \A order \in Orders : IsComponentList(SCC(V, E, order), V, E)

(* A centralised run ends with a model of the whole theory, although only  *)
(* the rules inside one source were ever solved together, and the model is *)
(* minimal if no branch of DLL failed: the values a failed branch leaves   *)
(* in literalMap are placed with those of the branch that succeeds.        *)
ModelWhenDone ==
    At("done") => TheoryModel(minModel) /\ (backtracked \/ TheoryMinimal(minModel))

(* No two messages that a client merged disagree on a variable.  They do   *)
(* where a choice of one client contradicts what another one, that did not *)
(* get its message, derives.                                               *)
AgreeFor(c) ==
    \A p, q \in Parents(c), v \in Var :
        sent[p][v] # "unset" /\ sent[q][v] # "unset" => sent[p][v] = sent[q][v]
ParentsAgree == \A c \in DOMAIN sent : AgreeFor(c)

(* A client without children goes on until no rule is left.  Unless a      *)
(* script run gave it no model it would take, updateRuleDS refused a value *)
(* or the messages merged on the way disagree, what it sends is a minimal  *)
(* model of the whole theory: the part of its parents, its component, and  *)
(* whatever no client on its paths had.                                    *)
FinalsMinimal ==
    \A c \in DOMAIN models :
        LastVertex(c) /\ unsat = {} /\ refused = {} /\ ParentsAgree =>
            TheoryMinimal(models[c])

(* On a theory whose rules all have a head every centralised run ends, and *)
(* with UNSAT only the one that asks WASP, which takes an empty model for  *)
(* it.  So do all the clients of a distributed run: no INCOHERENT kills    *)
(* one and no checkForUnits goes on for ever, unless a client took an      *)
(* empty model for UNSAT or placed a value that updateRuleDS refused.      *)
PositiveEnds ==
    <>(\/ ~Positive
       \/ At("done")
       \/ driver = "ModuminUsingWASP" /\ pc = "unsat"
       \/ pc = "idle" /\ DOMAIN sent = ToSet(components)
       \/ driver = "clients" /\ (refused # {} \/ unsat # {}))

(* The comment in FindMinimalModelForTs: the negative literals come first  *)
(* in order to calculate a minimal model, because of the way DLL works.    *)
MinimalWhenDone == At("done") => TheoryMinimal(minModel)
=============================================================================
