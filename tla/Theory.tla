------------------------------- MODULE Theory -------------------------------
(***************************************************************************)
(* Propositional theories as the Java code reads them: a theory is an      *)
(* array of rules, a rule  body -> head  is the clause whose negative      *)
(* literals are the body and whose positive literals are the head.  The    *)
(* definitions of model and minimal model are the reference against which  *)
(* the algorithms are checked.                                             *)
(***************************************************************************)
CONSTANTS Var,       \* the variables of the theory (positive integers in the file)
          RuleIdx    \* the indices of RulesArray

(* The two linked lists of a Rule, as sets of variables.                   *)
Rule == [body : SUBSET Var, head : SUBSET Var]

(* An interpretation is the set of variables it makes true.                *)
Satisfies(M, b, h) == (b \subseteq M) => (h \cap M # {})

(* M is a model of the rules with an index in I.                           *)
IsModel(M, I, bodies, heads) == \A i \in I : Satisfies(M, bodies[i], heads[i])

(* A minimal model: no strict subset of it is a model.                     *)
IsMinimalModel(M, I, bodies, heads) ==
    /\ IsModel(M, I, bodies, heads)
    /\ \A N \in SUBSET M : IsModel(N, I, bodies, heads) => N = M
=============================================================================
