--------------------------- MODULE MCDavisPutnam ---------------------------
(***************************************************************************)
(* DavisPutnam on every list of up to two clauses over three variables,    *)
(* every list of three clauses that are no tautologies and every such list *)
(* of four clauses over two variables, where a clause lists the body, then *)
(* the head, each in ascending order, as the rules of a file that sorts    *)
(* its variables do.                                                       *)
(***************************************************************************)
EXTENDS ListDPLL

VarMC == 1 .. 3

SortedSeq(S) == SetToSortSeq(S, <)

Clauses == {[k \in 1 .. Len(SortedSeq(B)) |-> -SortedSeq(B)[k]] \o SortedSeq(H) :
              B \in SUBSET VarMC, H \in SUBSET VarMC}

ProperClauses ==
    {c \in Clauses \ {<<>>} : \A k \in 1 .. Len(c) : ~Contains(c, -c[k])}

FormulasMC ==
    BoundedSeq(Clauses \ {<<>>}, 2) \cup [1 .. 3 -> ProperClauses]
        \cup [1 .. 4 -> {c \in ProperClauses : ToSet(c) \cap {3, -3} = {}}]
=============================================================================
