---------------------------- MODULE SolverOracle ----------------------------
(***************************************************************************)
(* What Solver::solve promises to the reasoning tasks that call it: a      *)
(* model of the assumptions or a core of them (module WaspSolver is how it *)
(* finds one).  The problem is the set of its models; a task adds          *)
(* variables and constraints between two calls.                            *)
(***************************************************************************)
EXTENDS Integers, FiniteSets, FiniteSetsExt, Sequences, SequencesExt

VARIABLES models,        \* each is the set of the variables it makes true
          size,          \* numberOfVariables
          zero,          \* literals assigned at level zero, of those that matter
          problem,       \* the models and what is asked about them
          algorithm,     \* its name and the options it looks at
          pc,            \* the call or the step that comes next
          assumptions
solver == <<models, size, zero>>
task == <<problem, algorithm>>

Call(A, next) == assumptions' = A /\ pc' = next

Variable(l) == IF l > 0 THEN l ELSE -l
Variables(C) == {Variable(l) : l \in C}
Opposite(C) == {-l : l \in C}
Holds(M, l) == IF l > 0 THEN l \in M ELSE -l \notin M
HoldsAll(M, C) == \A l \in C : Holds(M, l)
Sat(M, C) == \E l \in C : Holds(M, l)
TrueIn(M, C) == {l \in C : Holds(M, l)}

(* A call may learn that literals of C have one value in all models.       *)
Implied(C) == {l \in C \cup Opposite(C) : models # {} /\ \A M \in models : Holds(M, l)}
Learned(C) == {zero \cup F : F \in SUBSET (Implied(C) \ zero)}

(* COHERENT and INCOHERENT.  The core is not minimal, has no literal of    *)
(* level zero, and is one literal only if that one is false at level zero. *)
FoundModel(A, M) == M \in models /\ HoldsAll(M, A)
Cores(A, known) ==
    {C \in SUBSET A : /\ \A M \in models : ~HoldsAll(M, C)
                      /\ C \cap known = {}
                      /\ Cardinality(C) > 1 => Opposite(C) \cap known = {}}
Settled(C, known) == IF Cardinality(C) = 1 THEN known \cup Opposite(C) ELSE known

(* addVariableRuntime, n times.                                            *)
NewVariables(n) == (size + 1)..(size + n)
Extended(n) == {M \cup N : M \in models, N \in SUBSET NewVariables(n)}

(* addClauseRuntime: a literal is assigned at level zero at once, a longer *)
(* clause waits for the next call.                                         *)
Restricted(ms, C) == {M \in ms : Sat(M, C)}

(* A set in its order, and the part of a list that is in S.                *)
Ascending(S) ==
    [i \in 1 .. Cardinality(S) |-> CHOOSE v \in S : Cardinality({u \in S : u < v}) = i - 1]
Keep(s, S) ==
    LET at == Ascending({i \in DOMAIN s : s[i] \in S})
    IN  [k \in DOMAIN at |-> s[at[k]]]

(* K, of the soft literals and of the queries: the negated core in chunks  *)
(* of N literals, taken from the end of those left; the first new variable *)
(* of a chunk goes on to the next, the others are assumed.                 *)
Chunk(r, N) ==
    LET taken == IF Len(r.left) <= N - Len(r.carried) THEN Len(r.left) ELSE N - Len(r.carried)
        left == SubSeq(r.left, 1, Len(r.left) - taken)
        chunk == r.carried \o SubSeq(r.left, Len(r.left) - taken + 1, Len(r.left))
        last == left = <<>>
        bound == IF last THEN Len(chunk) - 1 ELSE Len(chunk)
        new == (r.size + 1)..(r.size + bound)
    IN  [left |-> left, carried |-> <<r.size + 1>>, size |-> r.size + bound,
         models |-> {M \in {K1 \cup N1 : K1 \in r.models, N1 \in SUBSET new} :
                       /\ \A v \in new \cap M : v + 1 \in new => v + 1 \in M
                       /\ Cardinality(TrueIn(M, ToSet(chunk))) + Cardinality(new \ M) >= bound},
         assumed |-> r.assumed \o [i \in 1..(IF last THEN bound ELSE bound - 1) |->
                                    r.size + (IF last THEN i ELSE i + 1)]]
Unchunked(lits) == [left |-> lits, carried |-> <<>>, size |-> size, models |-> models, assumed |-> <<>>]
Chunked(lits, N) ==
    LET after[i \in 0 .. Len(lits)] ==
            IF i = 0 THEN Unchunked(lits)
            ELSE LET before == after[i - 1]
                 IN  IF before.left = <<>> THEN before ELSE Chunk(before, N)
    IN  after[Len(lits)]
=============================================================================
