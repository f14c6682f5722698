----------------------------- MODULE AnswerSets -----------------------------
(***************************************************************************)
(* Ground programs in the format the solver script hands to WASP, and what *)
(* an answer set is: the definitions the solver is checked against.  A     *)
(* program is a sequence of lines.  In                                     *)
(*   [type |-> "rule", head, pos, neg]   some atom of head holds if pos and *)
(*                                       none of neg do;                   *)
(*   [type |-> "choice", head, pos, neg] any of head may hold then;        *)
(*   [type |-> "sum", id, bound, weight] the atom id holds if the weights  *)
(*                                       of the true literals reach bound; *)
(*   [type |-> "true" | "false" | "external", atom]                        *)
(*                                       it must, must not, may hold.      *)
(***************************************************************************)
EXTENDS Integers, FiniteSets, FiniteSetsExt, Sequences

TrueIn(M, l) == IF l > 0 THEN l \in M ELSE -l \notin M
SumIn(M, weight) == MapThenSumSet(LAMBDA l : weight[l], {l \in DOMAIN weight : TrueIn(M, l)})
BodyHolds(r, N, M) == r.pos \subseteq N /\ r.neg \cap M = {}

Respects(M, r) ==
    CASE r.type = "rule"  -> BodyHolds(r, M, M) => r.head \cap M # {}
      [] r.type = "sum"   -> (r.id \in M) <=> (SumIn(M, r.weight) >= r.bound)
      [] r.type = "true"  -> r.atom \in M
      [] r.type = "false" -> r.atom \notin M
      [] OTHER -> TRUE

(* N satisfies what is left of r when negation is evaluated in M.          *)
RespectsReduct(N, M, r) ==
    CASE r.type = "rule"     -> BodyHolds(r, N, M) => r.head \cap N # {}
      [] r.type = "choice"   -> BodyHolds(r, N, M) => r.head \cap M \subseteq N
      [] r.type = "sum"      -> r.id \in M => r.id \in N
      [] r.type = "external" -> r.atom \in M => r.atom \in N
      [] OTHER -> TRUE

Lines(program) == {program[i] : i \in DOMAIN program}
IsAnswerSet(M, program) ==
    /\ \A r \in Lines(program) : Respects(M, r)
    /\ ~\E N \in SUBSET M : N # M /\ \A r \in Lines(program) : RespectsReduct(N, M, r)
=============================================================================
