--------------------------- MODULE MCHashTableUse ---------------------------
(* Four senders with hash codes 0, 4, 8 and 5: in two and in four buckets  *)
(* the first three collide, in eight the first and the third.              *)
EXTENDS HashTableUse

Names == {"a", "b", "c", "d"}
Codes == [n \in Names |-> CASE n = "a" -> 0 [] n = "b" -> 4
                            [] n = "c" -> 8 [] n = "d" -> 5]
=============================================================================
