-------------------------------- MODULE ListDPLL -----------------------------
(***************************************************************************)
(* DavisPutnam with the variables of DPLL beside its lists: what the lists *)
(* stand for.  Every step on the lists has to be a step of DPLL.           *)
(***************************************************************************)
EXTENDS DPLL, SequencesExt

CONSTANT Formulas    \* as in DavisPutnam

(* The callers take repetitions out of the rules (removeDoubles), and no   *)
(* rule is without literals.                                               *)
ASSUME FormulasAssumption ==
    \A F \in Formulas :
        /\ F \in Seq(Seq(Literal))
        /\ \A k \in 1 .. Len(F) : F[k] # <<>> /\ IsInjective(F[k])

VARIABLES
    listInput,      \* the formula of the first call
    listClauses,    \* Clauses of the call being executed
    listStack       \* the calls that wait

vars == <<dpVars, listInput, listClauses, listStack>>

D == INSTANCE DavisPutnam WITH
    input <- listInput, clauses <- listClauses, stack <- listStack

(* The sets after a step are those of the lists after it.                  *)
Standing ==
    /\ input' = D!AsSets(listInput')
    /\ clauses' = D!AsSets(listClauses')
    /\ stack' = [k \in 1 .. Len(listStack') |->
                    [clauses |-> D!AsSets(listStack'[k].clauses),
                     trail   |-> listStack'[k].trail]]

ListInit ==
    /\ D!Init
    /\ input = D!AsSets(listInput)
    /\ clauses = input
    /\ stack = <<>>

ListNext ==
    \/ D!NoClauses /\ Standing
    \/ D!Propagate /\ Standing
    \/ D!Split /\ Standing
    \/ D!Backtrack /\ Standing
    \/ D!Unsatisfiable /\ Standing

(* DLL is one thread that runs until it returns.                           *)
ListSpec == ListInit /\ [][ListNext]_vars /\ WF_(D!vars)(D!Next)

(* On lists without repeated literals the code implements the procedure on *)
(* sets, so it inherits its soundness and completeness.                    *)
ImplementsDPLL == FairSpec
=============================================================================
