------------------------------ MODULE MCServer ------------------------------
(* Three connections, two of them of clients with the same name.           *)
EXTENDS Server

Names == [s \in Session |-> IF s = 3 THEN "b" ELSE "a"]

Talking == [s \in Session |-> IF s = 3 THEN 2 ELSE 0]
=============================================================================
