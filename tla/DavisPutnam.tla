---------------------------- MODULE DavisPutnam -----------------------------
(***************************************************************************)
(* DLL of Rules/RulesDataStructure.java with Rules/DavisPutnamHelper.java  *)
(* on the lists the code uses: a formula is a list of clauses and a clause *)
(* a list of literals, negative ones first.  The order of the lists fixes  *)
(* the unit clause that is propagated and the variable that is split.      *)
(***************************************************************************)
EXTENDS Integers, Sequences, SequencesExt

CONSTANTS Var,        \* the variables, positive integers
          Formulas    \* the lists of clauses FindMinimalModelForTs may build

VARIABLES
    input,        \* history: the formula of the first call
    clauses,      \* Clauses of the call being executed
    stack,        \* the copy2 of every call waiting for its DLL(copy1)
    literalMap,   \* the values written by searchSingleLiteral
    trail,        \* history: the literals propagated on the current branch
    verdict       \* as in DPLL

vars == <<input, clauses, stack, literalMap, trail, verdict>>

(* The clause of a rule: FindMinimalModelForTs puts the body first.        *)
ClauseOf(body, head) == [k \in 1 .. Len(body) |-> -body[k]] \o head
-----------------------------------------------------------------------------
(* searchSingleLiteral: the first clause with one literal, 0 if none.      *)
SearchSingleLiteral(F) == SelectInSeq(F, LAMBDA c : Len(c) = 1)

(* Mutant: a clause goes when it starts with the literal.                  *)
RemoveClausesByFirst(l, F) == SelectSeq(F, LAMBDA c : c # <<>> /\ c[1] # l)

RemoveClauses(l, F) ==
    LET left[k \in 0 .. Len(F)] ==
            IF k = 0 THEN <<>>
            ELSE IF Contains(F[k], l) THEN left[k - 1] ELSE Append(left[k - 1], F[k])
    IN  left[Len(F)]

(* Mutant: the clauses with the opposite literal go as a whole.            *)
CutClausesWhole(l, F) == SelectSeq(F, LAMBDA c : ~Contains(c, -l))

(* ArrayList.remove takes out the first occurrence only.                   *)
CutClauses(l, F) == [k \in 1 .. Len(F) |-> RemoveFirst(F[k], -l)]

(* Mutant: the opposite of a unit is looked for in clauses of any length.  *)
HasFalsehoodAnyLength(F) ==
    \E j, k \in 1 .. Len(F) : Len(F[j]) = 1 /\ Contains(F[k], -F[j][1])

HasFalsehood(F) ==
    \E j, k \in 1 .. Len(F) : Len(F[j]) = 1 /\ F[k] = <<-F[j][1]>>

HasEmptyClause(F) == Contains(F, <<>>)

PickLiteral(F) == F[1][1]

Put(l) ==
    IF l > 0 THEN [literalMap EXCEPT ![l] = "true"]
             ELSE [literalMap EXCEPT ![-l] = "false"]
-----------------------------------------------------------------------------
Init ==
    /\ input \in Formulas
    /\ clauses = input
    /\ stack = <<>>
    /\ literalMap = [v \in Var |-> "unset"]
    /\ trail = {}
    /\ verdict = "searching"

NoClauses ==
    /\ verdict = "searching"
    /\ clauses = <<>>
    /\ verdict' = "sat"
    /\ UNCHANGED <<input, clauses, stack, literalMap, trail>>

(* One round of the while(true) loop.                                      *)
Propagate ==
    /\ verdict = "searching"
    /\ \E k \in DOMAIN clauses :
         LET l == clauses[k][1]
         IN  /\ k = SearchSingleLiteral(clauses)
             /\ literalMap' = Put(l)
             /\ trail' = trail \cup {l}
             /\ clauses' = CutClauses(l, RemoveClauses(l, clauses))
    /\ verdict' = IF clauses' = <<>> THEN "sat"
                  ELSE IF HasFalsehood(clauses') \/ HasEmptyClause(clauses')
                       THEN "failed" ELSE "searching"
    /\ UNCHANGED <<input, stack>>

(* Mutant: the literal is tried as it stands in the clause.                *)
SplitAsPicked ==
    /\ verdict = "searching"
    /\ clauses # <<>>
    /\ SearchSingleLiteral(clauses) = 0
    /\ LET l == PickLiteral(clauses)
       IN  /\ clauses' = Append(clauses, <<l>>)
           /\ stack' = <<[clauses |-> Append(clauses, <<-l>>), trail |-> trail]>> \o stack
    /\ UNCHANGED <<input, literalMap, trail, verdict>>

(* copy1 with the negative literal of the picked variable is searched      *)
(* first, copy2 with the positive one waits.                               *)
Split ==
    /\ verdict = "searching"
    /\ clauses # <<>>
    /\ SearchSingleLiteral(clauses) = 0
    /\ LET l   == PickLiteral(clauses)
           neg == IF l < 0 THEN l ELSE -l
       IN  /\ clauses' = Append(clauses, <<neg>>)
           /\ stack' = <<[clauses |-> Append(clauses, <<-neg>>), trail |-> trail]>> \o stack
    /\ UNCHANGED <<input, literalMap, trail, verdict>>

(* Mutant: the recursion is entered again with the failed clauses.         *)
BacktrackAgain ==
    /\ verdict = "failed"
    /\ stack # <<>>
    /\ clauses' = Head(stack).clauses
    /\ trail' = Head(stack).trail
    /\ verdict' = "searching"
    /\ UNCHANGED <<input, stack, literalMap>>

(* return DLL(copy2), with literalMap as the failed call left it.          *)
Backtrack ==
    /\ verdict = "failed"
    /\ stack # <<>>
    /\ clauses' = Head(stack).clauses
    /\ trail' = Head(stack).trail
    /\ stack' = Tail(stack)
    /\ verdict' = "searching"
    /\ UNCHANGED <<input, literalMap>>

Unsatisfiable ==
    /\ verdict = "failed"
    /\ stack = <<>>
    /\ verdict' = "unsat"
    /\ UNCHANGED <<input, clauses, stack, literalMap, trail>>

Next == NoClauses \/ Propagate \/ Split \/ Backtrack \/ Unsatisfiable

(* DLL is one thread that runs until it returns.                           *)
Spec == Init /\ [][Next]_vars /\ WF_vars(Next)
-----------------------------------------------------------------------------
(* A list of clauses as the set of sets of literals that DPLL works on.    *)
AsSets(F) == {ToSet(F[k]) : k \in 1 .. Len(F)}
=============================================================================
