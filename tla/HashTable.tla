----------------------------- MODULE HashTable ------------------------------
(***************************************************************************)
(* Socket/HashTable.java: the chained hash table in which a client keeps   *)
(* the messages of its parents until it has one from each of them.  A key  *)
(* is a sender's name, its value the list of that sender's messages.  A    *)
(* table is a record: table[b] is the chain of bucket b, count the code's  *)
(* count of the keys.                                                      *)
(***************************************************************************)
EXTENDS Integers, Sequences, SequencesExt, FiniteSets

CONSTANTS Key,
          HashCode,     \* key -> |key.hashCode()|
          InitialLen    \* length of a new table; the client's is 64

ASSUME KeyAssumption == IsFiniteSet(Key)
ASSUME HashCodeAssumption == HashCode \in [Key -> Nat]
ASSUME InitialLenAssumption == InitialLen \in Nat \ {0}

EmptyTable == [table |-> [b \in 0 .. InitialLen - 1 |-> <<>>], count |-> 0]

Length(h) == Cardinality(DOMAIN h.table)

Hash(k, len) == HashCode[k] % len

Bucket(h, k) == h.table[Hash(k, Length(h))]

(* Where the search for k stops in its chain; 0 at the end of the chain.   *)
Position(h, k) ==
    LET chain == Bucket(h, k)
        P     == {i \in DOMAIN chain : chain[i].key = k}
    IN  IF P = {} THEN 0 ELSE CHOOSE i \in P : \A j \in P : i <= j

(* The n-th smallest number of P.                                          *)
Nth(P, n) == CHOOSE i \in P : Cardinality({j \in P : j < i}) = n - 1

(* The nodes of a chain at the positions P, the last one first.            *)
Reversed(chain, P) ==
    [n \in 1 .. Cardinality(P) |-> chain[Nth(P, Cardinality(P) + 1 - n)]]

(* resize: bucket after bucket, every node is pushed onto the head of its  *)
(* new bucket.  The nodes of new bucket b all come from the old bucket     *)
(* b % Length(h), as the length doubles, and come out in reverse.          *)
Moved(h, len, b) ==
    LET old == h.table[b % Length(h)]
    IN  Reversed(old, {i \in DOMAIN old : Hash(old[i].key, len) = b})

Resize(h) ==
    [h EXCEPT !.table = [b \in 0 .. 2 * Length(h) - 1 |-> Moved(h, 2 * Length(h), b)]]

(* The table before the new node goes in: three quarters full, it grows.   *)
Room(h) == IF 4 * h.count >= 3 * Length(h) THEN Resize(h) ELSE h

(* The new node of put, without its count++.                               *)
Link(h, k, m) ==
    [h EXCEPT !.table[Hash(k, Length(h))] = <<[key |-> k, value |-> <<m>>]>> \o @]

Counted(h) == [h EXCEPT !.count = @ + 1]

Extend(h, k, m) ==
    [h EXCEPT !.table[Hash(k, Length(h))][Position(h, k)].value = Append(@, m)]

Put(h, k, m) ==
    IF Position(h, k) # 0 THEN Extend(h, k, m) ELSE Counted(Link(Room(h), k, m))

(* remove.  From the third node on the loop has set prev to curr itself,   *)
(* so nothing is unlinked, but count goes down.                            *)
RemoveKey(h, k) ==
    LET p == Position(h, k)
    IN  IF p = 0 THEN h
        ELSE [h EXCEPT !.table[Hash(k, Length(h))] =
                           IF p <= 2 THEN RemoveAt(@, p) ELSE @,
                       !.count = @ - 1]

(* getHashedID: the first key of every bucket that has one.                *)
GetHashedID(h) ==
    LET P == {b \in DOMAIN h.table : h.table[b] # <<>>}
    IN  [n \in 1 .. Cardinality(P) |-> h.table[Nth(P, n)][1].key]

(* Mutant: the node goes with its first message.                           *)
GetValueDropsNode(h, k) == RemoveKey(h, k)

(* getValue(k) looks at the first node of the bucket whatever its key: its *)
(* first message goes, and with the last one so does key k.                *)
FirstMessage(h, k) == Bucket(h, k)[1].value[1]

GetValue(h, k) ==
    LET g == [h EXCEPT !.table[Hash(k, Length(h))][1].value = Tail(@)]
    IN  IF Bucket(g, k)[1].value = <<>> THEN RemoveKey(g, k) ELSE g
=============================================================================
