-------------------------------- MODULE DPLL --------------------------------
(***************************************************************************)
(* What the recursive procedure DLL of RulesDataStructure promises, on     *)
(* sets of clauses: unit propagation, then a split on the sign of a        *)
(* variable, negative sign first, and on failure the other sign.  Which    *)
(* unit clause is propagated and which variable is split is left open; the *)
(* module DavisPutnam fixes both by the order of the lists, as the code    *)
(* does, and implements this one.                                          *)
(***************************************************************************)
EXTENDS Integers, Sequences

CONSTANT Var    \* the variables, positive integers

(* The literal of variable v is v or -v.                                   *)
Literal == Var \cup {-v : v \in Var}

ASSUME VarAssumption == Var \subseteq Nat \ {0}

VARIABLES
    input,        \* history: the clauses of the first call
    clauses,      \* Clauses of the call being executed
    stack,        \* the copy2 of every call waiting for its DLL(copy1)
    literalMap,   \* the values written by searchSingleLiteral
    trail,        \* history: the literals propagated on the current branch
    verdict       \* "searching", "failed": a call has returned false,
                  \* "sat", "unsat": the first call has returned

dpVars == <<input, clauses, stack, literalMap, trail, verdict>>

Alternative == [clauses : SUBSET SUBSET Literal, trail : SUBSET Literal]

TypeOK ==
    /\ input \in SUBSET SUBSET Literal
    /\ clauses \in SUBSET SUBSET Literal
    /\ stack \in Seq(Alternative)
    /\ literalMap \in [Var -> {"true", "false", "unset"}]
    /\ trail \in SUBSET Literal
    /\ verdict \in {"searching", "failed", "sat", "unsat"}
-----------------------------------------------------------------------------
(* An interpretation is the set M of the variables it makes true.          *)
Holds(M, l) == IF l > 0 THEN l \in M ELSE -l \notin M

Models(M, C) == \A c \in C : \E l \in c : Holds(M, l)

TrueIn(f) == {v \in Var : f[v] = "true"}
TrueVars  == TrueIn(literalMap)
-----------------------------------------------------------------------------
Init ==
    /\ input \in SUBSET SUBSET Literal
    /\ clauses = input
    /\ stack = <<>>
    /\ literalMap = [v \in Var |-> "unset"]
    /\ trail = {}
    /\ verdict = "searching"

(* removeClauses drops the clauses with l, cutClauses takes -l out of the  *)
(* others.                                                                 *)
Assign(l, C) == {c \ {-l} : c \in {d \in C : l \notin d}}

(* hasFalsehood or hasEmptyClause.                                         *)
Contradictory(C) ==
    {} \in C \/ \E l \in Literal : {l} \in C /\ {-l} \in C

(* The map after searchSingleLiteral has put the value of l in it.         *)
Put(l) ==
    IF l > 0 THEN [literalMap EXCEPT ![l] = "true"]
             ELSE [literalMap EXCEPT ![-l] = "false"]

(* The call returns true at once when there are no clauses.                *)
NoClauses ==
    /\ verdict = "searching"
    /\ clauses = {}
    /\ verdict' = "sat"
    /\ UNCHANGED <<input, clauses, stack, literalMap, trail>>

(* One round of the propagation loop, with a unit clause {l}.              *)
Propagate(l) ==
    /\ verdict = "searching"
    /\ {l} \in clauses
    /\ literalMap' = Put(l)
    /\ trail' = trail \cup {l}
    /\ clauses' = Assign(l, clauses)
    /\ verdict' = IF clauses' = {} THEN "sat"
                  ELSE IF Contradictory(clauses') THEN "failed" ELSE "searching"
    /\ UNCHANGED <<input, stack>>

(* No unit clause: DLL(copy1) with the negative literal, while copy2 with  *)
(* the positive one waits.                                                 *)
Split(v) ==
    /\ verdict = "searching"
    /\ clauses # {}
    /\ \A l \in Literal : {l} \notin clauses
    /\ \E c \in clauses : v \in c \/ -v \in c
    /\ clauses' = clauses \cup {{-v}}
    /\ stack' = <<[clauses |-> clauses \cup {{v}}, trail |-> trail]>> \o stack
    /\ UNCHANGED <<input, literalMap, trail, verdict>>

(* A call returned false: its caller goes on with DLL(copy2).  Nothing     *)
(* takes back what the failed call wrote in literalMap.                    *)
Backtrack ==
    /\ verdict = "failed"
    /\ stack # <<>>
    /\ clauses' = Head(stack).clauses
    /\ trail' = Head(stack).trail
    /\ stack' = Tail(stack)
    /\ verdict' = "searching"
    /\ UNCHANGED <<input, literalMap>>

(* No caller waits: the first call returns false.                          *)
Unsatisfiable ==
    /\ verdict = "failed"
    /\ stack = <<>>
    /\ verdict' = "unsat"
    /\ UNCHANGED <<input, clauses, stack, literalMap, trail>>

Next ==
    \/ NoClauses
    \/ \E l \in Literal : Propagate(l)
    \/ \E v \in Var : Split(v)
    \/ Backtrack
    \/ Unsatisfiable

Spec == Init /\ [][Next]_dpVars

(* DLL is one thread that runs until it returns.                           *)
FairSpec == Spec /\ WF_dpVars(Next)
-----------------------------------------------------------------------------
(* When DLL returns true the values in literalMap, those left behind by    *)
(* failed branches included, satisfy every clause it was called with.      *)
Sound == verdict = "sat" => Models(TrueVars, input)

(* When DLL returns false no interpretation satisfies the clauses.         *)
Complete == verdict = "unsat" => \A M \in SUBSET Var : ~Models(M, input)

(* The variables the branch makes true, without the values that failed     *)
(* branches left in literalMap.                                            *)
BranchModel == {v \in Var : v \in trail}

(* The branch on which DLL succeeds is a minimal model: negative literals  *)
(* come first, so a variable is true only when it is forced, by a unit     *)
(* clause or by the failure of its negative branch.                        *)
BranchMinimal ==
    verdict = "sat" =>
        /\ Models(BranchModel, input)
        /\ \A N \in SUBSET BranchModel : Models(N, input) => N = BranchModel

(* DLL returns.                                                            *)
Termination == <>(verdict \in {"sat", "unsat"})
=============================================================================
