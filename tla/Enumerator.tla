------------------------------ MODULE Enumerator ------------------------------
(***************************************************************************)
(* What an enumeration of models promises: every model is reported once,   *)
(* in some order, and it ends when all are, or MaxModels.                  *)
(***************************************************************************)
EXTENDS Naturals, Sequences

CONSTANT MaxModels

VARIABLES models, found, done

Reported == {found[i] : i \in DOMAIN found}

Init == found = <<>> /\ done = FALSE

Report ==
    /\ ~done
    /\ \E M \in models \ Reported : found' = Append(found, M)
    /\ done' = (Len(found') >= MaxModels)
    /\ UNCHANGED models

End ==
    /\ ~done /\ models \subseteq Reported
    /\ done' = TRUE
    /\ UNCHANGED <<models, found>>

Next == Report \/ End
Spec == Init /\ [][Next]_<<models, found, done>>
=============================================================================
