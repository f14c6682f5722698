------------------------- MODULE MCComponentClients -------------------------
(***************************************************************************)
(* Four rules: all theories over three variables whose rules have a head,  *)
(* and all theories over two variables, rules without a head included.     *)
(***************************************************************************)
EXTENDS ComponentClients

VarMC == 1 .. 3
RuleIdxMC == 1 .. NumRules

RulesMC == {r \in Rule : r.body \cup r.head # {} /\ r.body \cap r.head = {}}

(* The sets of n rules of R.                                               *)
RuleSets(R, n) ==
    LET UpTo[k \in 0 .. n] ==
            IF k = 0 THEN {{}} ELSE {S \cup {r} : S \in UpTo[k - 1], r \in R}
    IN  {S \in UpTo[n] : Cardinality(S) = n}

TheoriesMC ==
    {SetToSeq(S) : S \in
        RuleSets({r \in RulesMC : r.head # {}}, NumRules)
        \cup RuleSets({r \in RulesMC : 3 \notin r.body \cup r.head}, NumRules)}
=============================================================================
