------------------------------ MODULE MCInbox -------------------------------
(* Five names and every set of parents among them.  In eight buckets, the  *)
(* length of the table when five are there, two pairs of names collide.    *)
EXTENDS Inbox

Names == {"a", "b", "c", "d", "e"}

Codes == [n \in Names |-> CASE n = "a" -> 0 [] n = "b" -> 16 [] n = "c" -> 5
                            [] n = "d" -> 21 [] n = "e" -> 11]
=============================================================================
