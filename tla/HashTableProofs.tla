-------------------------- MODULE HashTableProofs ---------------------------
(***************************************************************************)
(* What the calls of the hash table do to the keys it holds and to their   *)
(* values, for any hash codes, any number of keys and any length.          *)
(***************************************************************************)
EXTENDS HashTable, FiniteSetTheorems, SequenceTheorems, NaturalsInduction,
        WellFoundedInduction, TLAPS

Node(V) == [key : Key, value : V]

Tables(V) == [table : UNION {[0 .. n - 1 -> Seq(Node(V))] : n \in Nat \ {0}},
              count : Int]

(* Every node is in the bucket of its key, and no other has that key.      *)
Placed(h) ==
    \A b \in DOMAIN h.table : \A i \in DOMAIN h.table[b] :
        Hash(h.table[b][i].key, Length(h)) = b

Distinct(h) ==
    \A b \in DOMAIN h.table : \A i, j \in DOMAIN h.table[b] :
        h.table[b][i].key = h.table[b][j].key => i = j

WellFormed(h, V) == h \in Tables(V) /\ Placed(h) /\ Distinct(h)

(* The value of k is v.                                                    *)
Maps(h, k, v) == \E i \in DOMAIN Bucket(h, k) : Bucket(h, k)[i] = [key |-> k, value |-> v]

Stored(h) == {k \in Key : Position(h, k) # 0}
-----------------------------------------------------------------------------
(* Remainders.                                                             *)
LEMMA Remainder ==
    ASSUME NEW x \in Nat, NEW n \in Nat \ {0}
    PROVE  /\ x % n \in 0 .. n - 1
           /\ \E q \in Nat : x = n * q + (x % n)
<1>1. x % n \in 0 .. n - 1
    OBVIOUS
<1>2. x \div n \in Nat
    OBVIOUS
<1>3. x = n * (x \div n) + (x % n)
    OBVIOUS
<1> QED BY <1>1, <1>2, <1>3

LEMMA RemainderUnique ==
    ASSUME NEW x \in Nat, NEW n \in Nat \ {0}, NEW q \in Nat, NEW r \in 0 .. n - 1,
           x = n * q + r
    PROVE  x % n = r
OBVIOUS

LEMMA RemainderOfDouble ==
    ASSUME NEW x \in Nat, NEW n \in Nat \ {0}
    PROVE  (x % (2 * n)) % n = x % n
<1> DEFINE y == x % (2 * n)
<1>1. 2 * n \in Nat \ {0}
    OBVIOUS
<1>2. y \in 0 .. 2 * n - 1
    BY <1>1, Remainder
<1>3. PICK q \in Nat : x = (2 * n) * q + y
    BY <1>1, Remainder
<1> HIDE DEF y
<1>a. y \in Nat
    BY <1>2
<1>4. PICK p \in Nat : y = n * p + (y % n)
    BY <1>a, Remainder
<1>5. y % n \in 0 .. n - 1
    BY <1>2, Remainder
<1>6. 2 * q + p \in Nat /\ x = n * (2 * q + p) + (y % n)
    BY <1>2, <1>3, <1>4, <1>5
<1>7. x % n = y % n
    BY <1>5, <1>6, RemainderUnique
<1> QED BY <1>7 DEF y

(* A set of naturals has a least element.                                  *)
LEMMA LeastNatural ==
    ASSUME NEW S \in SUBSET Nat, S # {}
    PROVE  \E k \in S : \A j \in S : k <= j
<1> DEFINE below == OpToRel(<, Nat)
<1>1. \E k \in S : \A j \in S : <<j, k>> \notin below
    BY NatLessThanWellFounded, WFMin, ZenonT(30)
<1>2. \A j, k \in Nat : <<j, k>> \notin below => k <= j
    BY DEF OpToRel
<1> HIDE DEF below
<1> QED BY <1>1, <1>2

(* In a finite set D of positions each number of smaller positions below   *)
(* Cardinality(D) is taken once.                                           *)
LEMMA NthPosition ==
    ASSUME NEW D \in SUBSET Nat, IsFiniteSet(D)
    PROVE  /\ Cardinality(D) \in Nat
           /\ \A n \in 1 .. Cardinality(D) : Nth(D, n) \in D
           /\ \A i \in D : \E n \in 1 .. Cardinality(D) : Nth(D, n) = i
           /\ \A m, n \in 1 .. Cardinality(D) : Nth(D, m) = Nth(D, n) => m = n
<1> DEFINE below(i) == {j \in D : j < i}
           rank(i) == Cardinality(below(i)) + 1
           f == [i \in D |-> rank(i)]
<1>1. \A i \in D : IsFiniteSet(below(i)) /\ Cardinality(below(i)) \in Nat
    BY FS_Subset, FS_CardinalityType
<1>2. Cardinality(D) \in Nat
    BY FS_CardinalityType
<1>3. \A i \in D : rank(i) \in 1 .. Cardinality(D)
    <2> TAKE i \in D
    <2>1. Cardinality(below(i)) <= Cardinality(D) /\ (Cardinality(D) = Cardinality(below(i)) => D = below(i))
        BY FS_Subset
    <2>2. i \notin below(i)
        OBVIOUS
    <2> QED BY <1>1, <1>2, <2>1, <2>2
<1>4. \A i \in D, j \in D : i < j => rank(i) < rank(j)
    <2> TAKE i \in D, j \in D
    <2> HAVE i < j
    <2>0. i \in Nat /\ j \in Nat /\ \A x \in D : x \in Nat
        OBVIOUS
    <2>a. i \in below(j) /\ i \notin below(i)
        BY <2>0
    <2>b. \A x \in below(i) : x \in below(j)
        BY <2>0
    <2>1. below(i) \in SUBSET below(j) /\ i \in below(j) /\ i \notin below(i)
        BY <2>a, <2>b
    <2>2. IsFiniteSet(below(j))
        BY <1>1
    <2> HIDE DEF below
    <2>3. Cardinality(below(i)) <= Cardinality(below(j)) /\ (Cardinality(below(j)) = Cardinality(below(i)) => below(j) = below(i))
        BY <2>1, <2>2, FS_Subset
    <2> QED BY <1>1, <2>1, <2>3
<1>5. f \in Injection(D, 1 .. Cardinality(D))
    <2> HIDE DEF rank
    <2>1. f \in [D -> 1 .. Cardinality(D)]
        BY <1>3
    <2>2. \A i, j \in D : f[i] = f[j] => i = j
        BY <1>3, <1>4
    <2> QED BY <2>1, <2>2 DEF Injection, IsInjective
<1>6. f \in Surjection(D, 1 .. Cardinality(D))
    <2>1. IsFiniteSet(1 .. Cardinality(D)) /\ Cardinality(1 .. Cardinality(D)) = Cardinality(D)
        BY <1>2, FS_Interval
    <2> HIDE DEF f
    <2> QED BY <1>5, <2>1, FS_Injection
<1>7. \A n \in 1 .. Cardinality(D) : \E i \in D : rank(i) = n
    <2> HIDE DEF rank
    <2> QED BY <1>6 DEF Surjection
<1>8. \A n \in 1 .. Cardinality(D) : Nth(D, n) \in D /\ rank(Nth(D, n)) = n
    <2> TAKE n \in 1 .. Cardinality(D)
    <2>1. PICK i \in D : rank(i) = n
        BY <1>7
    <2>2. Cardinality(below(i)) = n - 1
        BY <2>1, <1>1
    <2>3. Nth(D, n) \in D /\ Cardinality(below(Nth(D, n))) = n - 1
        BY <2>2 DEF Nth
    <2> QED BY <2>3
<1>9. \A i \in D : \E n \in 1 .. Cardinality(D) : Nth(D, n) = i
    <2> TAKE i \in D
    <2>1. PICK n \in 1 .. Cardinality(D) : n = rank(i)
        BY <1>3
    <2>2. PICK x \in D : x = Nth(D, n)
        BY <1>8
    <2>3. rank(x) = rank(i)
        BY <1>8, <2>1, <2>2
    <2>4. ~(x < i) /\ ~(i < x)
        <3> HIDE DEF rank
        <3>1. rank(i) \in Nat
            BY <1>3
        <3> QED BY <1>4, <2>3, <3>1
    <2>5. x = i
        BY <2>4
    <2> QED BY <2>1, <2>2, <2>5
<1>10. \A m, n \in 1 .. Cardinality(D) : Nth(D, m) = Nth(D, n) => m = n
    BY <1>8
<1> HIDE DEF rank
<1> QED BY <1>2, <1>8, <1>9, <1>10
-----------------------------------------------------------------------------
(* The size of a table with buckets 0 .. n - 1.                            *)
LEMMA IntervalSize ==
    ASSUME NEW n \in Nat \ {0}
    PROVE  Cardinality(0 .. n - 1) = n
<1>1. 0 <= n - 1 /\ 0 \in Int /\ n - 1 \in Int
    OBVIOUS
<1>2. Cardinality(0 .. n - 1) = IF 0 > n - 1 THEN 0 ELSE (n - 1) - 0 + 1
    BY <1>1, FS_Interval
<1> QED BY <1>1, <1>2

(* The shape of a table.                                                   *)
LEMMA TableShape ==
    ASSUME NEW V, NEW h \in Tables(V)
    PROVE  /\ Length(h) \in Nat \ {0}
           /\ h.table \in [0 .. Length(h) - 1 -> Seq(Node(V))]
           /\ h.count \in Int
           /\ h = [table |-> h.table, count |-> h.count]
<1>1. PICK n \in Nat \ {0} : h.table \in [0 .. n - 1 -> Seq(Node(V))]
    BY DEF Tables
<1>2. Cardinality(0 .. n - 1) = n
    BY IntervalSize
<1>3. Length(h) = n
    BY <1>1, <1>2 DEF Length
<1> QED BY <1>1, <1>3 DEF Tables

LEMMA TableLength ==
    ASSUME NEW V, NEW h, h = [table |-> h.table, count |-> h.count], h.count \in Int,
           NEW n \in Nat \ {0}, h.table \in [0 .. n - 1 -> Seq(Node(V))]
    PROVE  h \in Tables(V) /\ Length(h) = n
<1>1. h \in Tables(V)
    BY DEF Tables
<1>2. Cardinality(0 .. n - 1) = n
    BY IntervalSize
<1> QED BY <1>1, <1>2 DEF Length

LEMMA BucketOfKey ==
    ASSUME NEW V, NEW h \in Tables(V), NEW k \in Key
    PROVE  /\ Hash(k, Length(h)) \in DOMAIN h.table
           /\ Bucket(h, k) \in Seq(Node(V))
           /\ DOMAIN Bucket(h, k) = 1 .. Len(Bucket(h, k))
           /\ \A i \in DOMAIN Bucket(h, k) : Bucket(h, k)[i] \in Node(V)
<1>1. HashCode[k] \in Nat
    BY HashCodeAssumption
<1>2. Hash(k, Length(h)) \in DOMAIN h.table
    BY <1>1, TableShape, Remainder DEF Hash
<1>3. Bucket(h, k) \in Seq(Node(V))
    BY <1>2, TableShape DEF Bucket
<1> QED BY <1>2, <1>3

(* The search for a key.                                                   *)
LEMMA PositionFound ==
    ASSUME NEW V, NEW h \in Tables(V), NEW k \in Key
    PROVE  /\ Position(h, k) = 0 <=> \A i \in DOMAIN Bucket(h, k) : Bucket(h, k)[i].key # k
           /\ Position(h, k) # 0 => /\ Position(h, k) \in DOMAIN Bucket(h, k)
                                    /\ Bucket(h, k)[Position(h, k)].key = k
           /\ Distinct(h) => \A i \in DOMAIN Bucket(h, k) :
                                Bucket(h, k)[i].key = k => i = Position(h, k)
<1> DEFINE P == {i \in DOMAIN Bucket(h, k) : Bucket(h, k)[i].key = k}
<1>1. P \in SUBSET Nat /\ \A i \in P : i > 0
    BY BucketOfKey
<1>2. ASSUME P # {} PROVE Position(h, k) \in P
    <2>1. \E i \in P : \A j \in P : i <= j
        BY <1>1, <1>2, LeastNatural
    <2> QED BY <1>2, <2>1 DEF Position
<1>3. P = {} => Position(h, k) = 0
    BY DEF Position
<1>4. Distinct(h) => \A i, j \in P : i = j
    BY BucketOfKey DEF Distinct, Bucket
<1> QED BY <1>1, <1>2, <1>3, <1>4
-----------------------------------------------------------------------------
(* What Maps says of a well-formed table.                                  *)
LEMMA MapsFound ==
    ASSUME NEW V, NEW h, WellFormed(h, V), NEW k \in Key
    PROVE  /\ \A v : Maps(h, k, v) => /\ Position(h, k) # 0
                                      /\ Bucket(h, k)[Position(h, k)].value = v
                                      /\ v \in V
           /\ Position(h, k) # 0 => Maps(h, k, Bucket(h, k)[Position(h, k)].value)
<1>1. h \in Tables(V) /\ Distinct(h)
    BY DEF WellFormed
<1>2. ASSUME NEW v, Maps(h, k, v)
      PROVE  Position(h, k) # 0 /\ Bucket(h, k)[Position(h, k)].value = v /\ v \in V
    <2>1. PICK i \in DOMAIN Bucket(h, k) : Bucket(h, k)[i] = [key |-> k, value |-> v]
        BY <1>2 DEF Maps
    <2>2. i = Position(h, k) /\ Position(h, k) # 0
        BY <1>1, <2>1, PositionFound
    <2>3. Bucket(h, k)[i] \in Node(V)
        BY <1>1, BucketOfKey
    <2> QED BY <2>1, <2>2, <2>3 DEF Node
<1>3. ASSUME Position(h, k) # 0
      PROVE  Maps(h, k, Bucket(h, k)[Position(h, k)].value)
    <2> DEFINE r == Bucket(h, k)[Position(h, k)]
    <2>1. Position(h, k) \in DOMAIN Bucket(h, k) /\ r.key = k
        BY <1>1, <1>3, PositionFound
    <2>2. r \in Node(V)
        BY <1>1, <2>1, BucketOfKey
    <2>3. r = [key |-> k, value |-> r.value]
        BY <2>1, <2>2 DEF Node
    <2> QED BY <2>1, <2>3 DEF Maps
<1> QED BY <1>2, <1>3

(* A table whose values are known to be in a smaller or a larger set.      *)
LEMMA ValuesWidened ==
    ASSUME NEW V, NEW W, V \subseteq W, NEW h, WellFormed(h, V)
    PROVE  WellFormed(h, W)
<1>1. \A n \in Nat \ {0} : [0 .. n - 1 -> Seq(Node(V))] \subseteq [0 .. n - 1 -> Seq(Node(W))]
    <2>1. Seq(Node(V)) \subseteq Seq(Node(W))
        <3>1. Node(V) \subseteq Node(W)
            BY DEF Node
        <3> QED BY <3>1
    <2> QED BY <2>1
<1>2. h \in Tables(W)
    <2>1. /\ Length(h) \in Nat \ {0} /\ h = [table |-> h.table, count |-> h.count]
          /\ h.count \in Int /\ h.table \in [0 .. Length(h) - 1 -> Seq(Node(V))]
        BY TableShape DEF WellFormed
    <2>2. h.table \in [0 .. Length(h) - 1 -> Seq(Node(W))]
        BY <1>1, <2>1
    <2> QED BY <2>1, <2>2, TableLength
<1> QED BY <1>2 DEF WellFormed

LEMMA ValuesNarrowed ==
    ASSUME NEW V, NEW W, NEW h, WellFormed(h, V),
           \A k \in Key : \A v \in V : Maps(h, k, v) => v \in W
    PROVE  WellFormed(h, W)
<1>1. /\ h \in Tables(V) /\ Placed(h) /\ Length(h) \in Nat \ {0}
      /\ h.table \in [0 .. Length(h) - 1 -> Seq(Node(V))]
      /\ h = [table |-> h.table, count |-> h.count] /\ h.count \in Int
    BY TableShape DEF WellFormed
<1>2. ASSUME NEW b \in 0 .. Length(h) - 1 PROVE h.table[b] \in Seq(Node(W))
    <2>1. h.table[b] \in Seq(Node(V)) /\ b \in DOMAIN h.table
        BY <1>1
    <2>2. ASSUME NEW i \in 1 .. Len(h.table[b]) PROVE h.table[b][i] \in Node(W)
        <3> DEFINE r == h.table[b][i]
        <3>1. r \in Node(V)
            BY <2>1
        <3>2. r = [key |-> r.key, value |-> r.value] /\ r.key \in Key /\ r.value \in V
            BY <3>1 DEF Node
        <3>3. i \in DOMAIN h.table[b]
            BY <2>1
        <3>4. Hash(r.key, Length(h)) = b
            BY <1>1, <2>1, <3>3 DEF Placed
        <3>5. Maps(h, r.key, r.value)
            BY <3>2, <3>3, <3>4 DEF Maps, Bucket
        <3>6. r.value \in W
            BY <3>2, <3>5
        <3> QED BY <3>2, <3>6 DEF Node
    <2>3. h.table[b] \in [1 .. Len(h.table[b]) -> Node(W)] /\ Len(h.table[b]) \in Nat
        BY <2>1, <2>2
    <2> QED BY <2>3
<1>3. h.table \in [0 .. Length(h) - 1 -> Seq(Node(W))]
    BY <1>1, <1>2
<1>4. h \in Tables(W)
    BY <1>1, <1>3, TableLength
<1> QED BY <1>4 DEF WellFormed

(* The nodes of a chain that resize picks, in reverse.                     *)
LEMMA MovedChain ==
    ASSUME NEW V, NEW old \in Seq(Node(V)), NEW P \in SUBSET DOMAIN old
    PROVE  LET chain == Reversed(old, P) IN
           /\ chain \in Seq(Node(V))
           /\ \A n \in DOMAIN chain : \E i \in P : chain[n] = old[i]
           /\ \A i \in P : \E n \in DOMAIN chain : chain[n] = old[i]
           /\ (\A i, j \in P : old[i].key = old[j].key => i = j) =>
                  \A m, n \in DOMAIN chain : chain[m].key = chain[n].key => m = n
<1> DEFINE chain == Reversed(old, P)
<1>1. DOMAIN old = 1 .. Len(old) /\ Len(old) \in Nat
    OBVIOUS
<1>2. P \in SUBSET Nat /\ IsFiniteSet(P)
    <2>1. IsFiniteSet(1 .. Len(old))
        BY <1>1, FS_Interval
    <2> QED BY <1>1, <2>1, FS_Subset
<1>3. Cardinality(P) \in Nat
    BY <1>2, NthPosition
<1> DEFINE at(n) == Nth(P, Cardinality(P) + 1 - n)
<1>4. \A n \in 1 .. Cardinality(P) : Cardinality(P) + 1 - n \in 1 .. Cardinality(P)
    BY <1>3
<1>5. \A n \in 1 .. Cardinality(P) : at(n) \in P
    BY <1>2, <1>4, NthPosition
<1>6. \A i \in P : \E n \in 1 .. Cardinality(P) : at(n) = i
    <2> TAKE i \in P
    <2>1. PICK m \in 1 .. Cardinality(P) : Nth(P, m) = i
        BY <1>2, NthPosition
    <2>2. Cardinality(P) + 1 - (Cardinality(P) + 1 - m) = m
        BY <1>3
    <2>3. Cardinality(P) + 1 - m \in 1 .. Cardinality(P)
        BY <1>3
    <2> QED BY <2>1, <2>2, <2>3
<1>7. \A m, n \in 1 .. Cardinality(P) : at(m) = at(n) => m = n
    <2> TAKE m, n \in 1 .. Cardinality(P)
    <2> HAVE at(m) = at(n)
    <2>1. Cardinality(P) + 1 - m = Cardinality(P) + 1 - n
        BY <1>2, <1>4, NthPosition
    <2> QED BY <1>3, <2>1
<1> HIDE DEF at
<1>8. chain = [n \in 1 .. Cardinality(P) |-> old[at(n)]]
    BY DEF at, Reversed
<1>9. \A n \in 1 .. Cardinality(P) : old[at(n)] \in Node(V)
    BY <1>5
<1> HIDE DEF chain
<1>10. chain \in Seq(Node(V))
    BY <1>3, <1>8, <1>9
<1> QED BY <1>5, <1>6, <1>7, <1>8, <1>10 DEF chain

(* A resize keeps every key and its value.                                 *)
LEMMA ResizeKeeps ==
    ASSUME NEW V, NEW h, WellFormed(h, V)
    PROVE  /\ WellFormed(Resize(h), V)
           /\ Length(Resize(h)) = 2 * Length(h)
           /\ Resize(h).count = h.count
           /\ \A k \in Key : \A v : Maps(Resize(h), k, v) <=> Maps(h, k, v)
<1> DEFINE L      == Length(h)
           len    == 2 * L
           Old(b) == h.table[b % L]
           P(b)   == {i \in DOMAIN Old(b) : Hash(Old(b)[i].key, len) = b}
           C(b)   == Reversed(Old(b), P(b))
           t      == [b \in 0 .. len - 1 |-> C(b)]
           g      == Resize(h)
<1>1. /\ L \in Nat \ {0}
      /\ h.table \in [0 .. L - 1 -> Seq(Node(V))]
      /\ h.count \in Int
      /\ h = [table |-> h.table, count |-> h.count]
      /\ Placed(h) /\ Distinct(h)
    BY TableShape DEF WellFormed
<1>2. g = [table |-> t, count |-> h.count]
    <2>1. g = [h EXCEPT !.table = t]
        BY DEF Resize, Moved
    <2> HIDE DEF t, g
    <2> QED BY <1>1, <2>1
<1> HIDE DEF L, g
<1>3. \A b \in 0 .. len - 1 : b % L \in 0 .. L - 1
    <2> TAKE b \in 0 .. len - 1
    <2>1. b \in Nat
        BY <1>1
    <2> QED BY <1>1, <2>1, Remainder
<1>4. \A b \in 0 .. len - 1 : Old(b) \in Seq(Node(V)) /\ P(b) \in SUBSET DOMAIN Old(b)
    BY <1>1, <1>3
<1>5. \A b \in 0 .. len - 1 :
          /\ C(b) \in Seq(Node(V))
          /\ \A n \in DOMAIN C(b) : \E i \in P(b) : C(b)[n] = Old(b)[i]
          /\ \A i \in P(b) : \E n \in DOMAIN C(b) : C(b)[n] = Old(b)[i]
          /\ (\A i, j \in P(b) : Old(b)[i].key = Old(b)[j].key => i = j) =>
                 \A m, n \in DOMAIN C(b) : C(b)[m].key = C(b)[n].key => m = n
    <2> TAKE b \in 0 .. len - 1
    <2>1. Old(b) \in Seq(Node(V)) /\ P(b) \in SUBSET DOMAIN Old(b)
        BY <1>4
    <2> HIDE DEF Old, P
    <2> QED BY <2>1, MovedChain
<1>6. \A b \in 0 .. len - 1 :
          \A m, n \in DOMAIN C(b) : C(b)[m].key = C(b)[n].key => m = n
    <2> TAKE b \in 0 .. len - 1
    <2>1. \A i, j \in DOMAIN Old(b) : Old(b)[i].key = Old(b)[j].key => i = j
        BY <1>1, <1>3 DEF Distinct
    <2>2. P(b) \in SUBSET DOMAIN Old(b)
        BY <1>4
    <2> HIDE DEF Old, P, C
    <2> QED BY <1>5, <2>1, <2>2
<1>7. \A b \in 0 .. len - 1 : \A i \in P(b) : Hash(Old(b)[i].key, len) = b
    OBVIOUS
<1>8. len \in Nat \ {0}
    BY <1>1
<1>9. t \in [0 .. len - 1 -> Seq(Node(V))]
    <2> HIDE DEF C
    <2> QED BY <1>5
<1>10. g \in Tables(V) /\ Length(g) = len /\ g.table = t /\ g.count = h.count
    <2> HIDE DEF t, len
    <2>1. g.table = t /\ g.count = h.count
        BY <1>2
    <2> QED BY <1>1, <1>2, <1>8, <1>9, <2>1, TableLength
<1>11. Placed(g)
    <2> HIDE DEF C, Old, P, len
    <2> QED BY <1>5, <1>7, <1>10 DEF Placed
<1>12. Distinct(g)
    <2> HIDE DEF C, Old, P, len
    <2> QED BY <1>6, <1>10 DEF Distinct
<1>13. ASSUME NEW k \in Key, NEW v PROVE Maps(g, k, v) <=> Maps(h, k, v)
    <2> DEFINE b == Hash(k, len)
    <2>1. b \in 0 .. len - 1
        BY <1>8, HashCodeAssumption, Remainder DEF Hash
    <2>2. b % L = Hash(k, L)
        BY <1>1, HashCodeAssumption, RemainderOfDouble DEF Hash
    <2>3. Old(b) = Bucket(h, k)
        BY <2>2 DEF Bucket, L
    <2>4. Bucket(g, k) = C(b)
        <3>1. Bucket(g, k) = t[b]
            BY <1>10 DEF Bucket
        <3> HIDE DEF C, b
        <3> QED BY <2>1, <3>1
    <2>5. \A i \in DOMAIN Old(b) : Old(b)[i].key = k => i \in P(b)
        OBVIOUS
    <2>6. \A i \in P(b) : i \in DOMAIN Old(b)
        OBVIOUS
    <2> HIDE DEF C, Old, P, b
    <2> QED BY <1>5, <2>1, <2>3, <2>4, <2>5, <2>6 DEF Maps
<1> QED BY <1>10, <1>11, <1>12, <1>13 DEF WellFormed, g, L
-----------------------------------------------------------------------------
(* A new table.                                                            *)
LEMMA NewTable ==
    ASSUME NEW V
    PROVE  /\ WellFormed(EmptyTable, V)
           /\ EmptyTable.count = 0
           /\ \A k \in Key : Position(EmptyTable, k) = 0
<1> DEFINE t == [b \in 0 .. InitialLen - 1 |-> <<>>]
<1>1. t \in [0 .. InitialLen - 1 -> Seq(Node(V))]
    OBVIOUS
<1>2. EmptyTable = [table |-> t, count |-> 0]
    BY DEF EmptyTable
<1>3. \A b \in 0 .. InitialLen - 1 : DOMAIN t[b] = {}
    OBVIOUS
<1> HIDE DEF t
<1>a. EmptyTable.table = t /\ EmptyTable.count = 0
    BY <1>2
<1>4. /\ EmptyTable \in Tables(V) /\ Length(EmptyTable) = InitialLen
      /\ EmptyTable.table = t /\ EmptyTable.count = 0
    BY <1>1, <1>2, <1>a, InitialLenAssumption, TableLength
<1>5. Placed(EmptyTable) /\ Distinct(EmptyTable)
    BY <1>1, <1>3, <1>4 DEF Placed, Distinct
<1>6. \A k \in Key : Position(EmptyTable, k) = 0
    <2> TAKE k \in Key
    <2>1. Hash(k, Length(EmptyTable)) \in DOMAIN EmptyTable.table
        BY <1>4, BucketOfKey
    <2>2. DOMAIN Bucket(EmptyTable, k) = {}
        BY <1>1, <1>3, <1>4, <2>1 DEF Bucket
    <2> QED BY <1>4, <2>2, PositionFound
<1> QED BY <1>4, <1>5, <1>6 DEF WellFormed

(* A table with one chain replaced.                                        *)
LEMMA ChainReplaced ==
    ASSUME NEW V, NEW h, WellFormed(h, V), NEW b \in DOMAIN h.table, NEW c \in Int,
           NEW chain \in Seq(Node(V)),
           \A i \in DOMAIN chain : Hash(chain[i].key, Length(h)) = b,
           \A i, j \in DOMAIN chain : chain[i].key = chain[j].key => i = j,
           NEW g, g = [table |-> [h.table EXCEPT ![b] = chain], count |-> c]
    PROVE  /\ WellFormed(g, V)
           /\ Length(g) = Length(h)
           /\ DOMAIN g.table = DOMAIN h.table
           /\ g.count = c
           /\ \A k \in Key : Bucket(g, k) = IF Hash(k, Length(h)) = b THEN chain
                                             ELSE Bucket(h, k)
<1> DEFINE t == [h.table EXCEPT ![b] = chain]
<1>1. /\ Length(h) \in Nat \ {0}
      /\ h.table \in [0 .. Length(h) - 1 -> Seq(Node(V))]
      /\ Placed(h) /\ Distinct(h) /\ h \in Tables(V)
    BY TableShape DEF WellFormed
<1>2. t \in [0 .. Length(h) - 1 -> Seq(Node(V))]
    BY <1>1
<1>3. \A a \in DOMAIN h.table : t[a] = IF a = b THEN chain ELSE h.table[a]
    BY <1>1
<1>b. g = [table |-> t, count |-> c]
    OBVIOUS
<1> HIDE DEF t
<1>a. g.table = t /\ g.count = c
    BY <1>b
<1>4. g \in Tables(V) /\ Length(g) = Length(h) /\ g.table = t /\ g.count = c
    BY <1>1, <1>2, <1>a, <1>b, TableLength
<1>5. DOMAIN g.table = DOMAIN h.table
    BY <1>1, <1>2, <1>4
<1>6. Placed(g)
    BY <1>1, <1>3, <1>4, <1>5 DEF Placed
<1>7. Distinct(g)
    BY <1>1, <1>3, <1>4, <1>5 DEF Distinct
<1>8. \A k \in Key : Bucket(g, k) = IF Hash(k, Length(h)) = b THEN chain ELSE Bucket(h, k)
    <2> TAKE k \in Key
    <2>1. Hash(k, Length(h)) \in DOMAIN h.table
        BY <1>1, BucketOfKey
    <2> QED BY <1>3, <1>4, <2>1 DEF Bucket
<1> QED BY <1>4, <1>5, <1>6, <1>7, <1>8 DEF WellFormed

LEMMA CountedKeeps ==
    ASSUME NEW V, NEW h, WellFormed(h, V)
    PROVE  /\ WellFormed(Counted(h), V)
           /\ Counted(h).table = h.table
           /\ Counted(h).count = h.count + 1
<1>1. h = [table |-> h.table, count |-> h.count] /\ h \in Tables(V) /\ h.count \in Int
    BY TableShape DEF WellFormed
<1>2. Counted(h) = [table |-> h.table, count |-> h.count + 1]
    BY <1>1 DEF Counted
<1>3. Counted(h) \in Tables(V)
    BY <1>1, <1>2 DEF Tables
<1> QED BY <1>2, <1>3 DEF WellFormed, Placed, Distinct, Length

(* Every key in a bucket hashes to it.                                     *)
LEMMA BucketPlaced ==
    ASSUME NEW V, NEW h, WellFormed(h, V), NEW k \in Key, NEW i \in DOMAIN Bucket(h, k)
    PROVE  /\ Bucket(h, k)[i].key \in Key
           /\ Bucket(h, k)[i].value \in V
           /\ Hash(Bucket(h, k)[i].key, Length(h)) = Hash(k, Length(h))
           /\ \A j \in DOMAIN Bucket(h, k) :
                  Bucket(h, k)[i].key = Bucket(h, k)[j].key => i = j
<1>1. Hash(k, Length(h)) \in DOMAIN h.table /\ Bucket(h, k)[i] \in Node(V)
    BY BucketOfKey DEF WellFormed
<1> QED BY <1>1 DEF WellFormed, Placed, Distinct, Bucket, Node

(* A chain with a new node in front.                                       *)
Pushed(k, m, chain) == <<[key |-> k, value |-> <<m>>]>> \o chain

(* The new node of put.                                                    *)
LEMMA LinkKeeps ==
    ASSUME NEW V, NEW h, WellFormed(h, V), NEW k \in Key, NEW m,
           Position(h, k) = 0, <<m>> \in V
    PROVE  /\ WellFormed(Link(h, k, m), V)
           /\ Length(Link(h, k, m)) = Length(h)
           /\ Link(h, k, m).count = h.count
           /\ \A j \in Key : Bucket(Link(h, k, m), j) =
                  IF Hash(j, Length(h)) = Hash(k, Length(h))
                  THEN Pushed(k, m, Bucket(h, j))
                  ELSE Bucket(h, j)
           /\ \A j \in Key : \A v : Maps(Link(h, k, m), j, v) <=> IF j = k THEN v = <<m>> ELSE Maps(h, j, v)
<1> DEFINE g     == Link(h, k, m)
           b     == Hash(k, Length(h))
           n     == [key |-> k, value |-> <<m>>]
           B     == Bucket(h, k)
           chain == <<n>> \o B
<1>1. /\ h \in Tables(V) /\ b \in DOMAIN h.table /\ B \in Seq(Node(V))
      /\ h = [table |-> h.table, count |-> h.count] /\ h.count \in Int
    BY BucketOfKey, TableShape DEF WellFormed
<1>2. n \in Node(V)
    BY DEF Node
<1>3. g = [table |-> [h.table EXCEPT ![b] = chain], count |-> h.count]
    <2>1. g = [h EXCEPT !.table = [h.table EXCEPT ![b] = chain]]
        BY <1>1 DEF Link, Bucket
    <2> HIDE DEF g, chain
    <2> QED BY <1>1, <2>1
<1> HIDE DEF g, n, B
<1>4. /\ chain \in Seq(Node(V))
      /\ Len(chain) = Len(B) + 1
      /\ chain[1] = n
      /\ \A i \in 1 .. Len(B) : chain[i + 1] = B[i]
    BY <1>1, <1>2
<1>5. \A i \in DOMAIN chain : i = 1 \/ (i - 1 \in DOMAIN B /\ chain[i] = B[i - 1])
    <2> TAKE i \in DOMAIN chain
    <2>1. i \in 1 .. Len(B) + 1 /\ Len(B) \in Nat
        BY <1>1, <1>4
    <2>2. CASE i # 1
        <3>1. i - 1 \in 1 .. Len(B) /\ (i - 1) + 1 = i
            BY <2>1, <2>2
        <3> QED BY <1>1, <1>4, <3>1
    <2> QED BY <2>2
<1>6. \A i \in DOMAIN B : i + 1 \in DOMAIN chain /\ chain[i + 1] = B[i]
    <2> HIDE DEF chain, b
    <2>1. Len(B) \in Nat /\ DOMAIN B = 1 .. Len(B) /\ DOMAIN chain = 1 .. Len(B) + 1
        BY <1>1, <1>4
    <2> QED BY <1>4, <2>1
<1>7. \A i \in DOMAIN B : B[i].key # k /\ Hash(B[i].key, Length(h)) = b
    BY <1>1, BucketPlaced, PositionFound DEF B
<1>8. 1 \in DOMAIN chain /\ n.key = k /\ n.value = <<m>>
    BY <1>1, <1>4 DEF n
<1>9. \A i, j \in DOMAIN B : B[i].key = B[j].key => i = j
    BY BucketPlaced DEF B
<1> HIDE DEF chain
<1>10. \A i \in DOMAIN chain : Hash(chain[i].key, Length(h)) = b
    BY <1>4, <1>5, <1>7, <1>8
<1>11. \A i, j \in DOMAIN chain : chain[i].key = chain[j].key => i = j
    <2> TAKE i, j \in DOMAIN chain
    <2> HAVE chain[i].key = chain[j].key
    <2>1. i \in Nat /\ j \in Nat
        BY <1>4
    <2>2. CASE i = 1 /\ j # 1
        BY <1>4, <1>5, <1>7, <1>8, <2>2
    <2>3. CASE i # 1 /\ j = 1
        BY <1>4, <1>5, <1>7, <1>8, <2>3
    <2>4. CASE i # 1 /\ j # 1
        <3>1. i - 1 = j - 1
            BY <1>5, <1>9, <2>4
        <3> QED BY <2>1, <3>1
    <2> QED BY <2>2, <2>3, <2>4
<1> HIDE DEF b
<1>12. /\ WellFormed(g, V) /\ Length(g) = Length(h) /\ g.count = h.count
       /\ \A j \in Key : Bucket(g, j) = IF Hash(j, Length(h)) = b THEN chain ELSE Bucket(h, j)
    <2>1. /\ b \in DOMAIN h.table /\ h.count \in Int /\ chain \in Seq(Node(V))
          /\ g = [table |-> [h.table EXCEPT ![b] = chain], count |-> h.count]
        BY <1>1, <1>3, <1>4
    <2> QED BY <1>10, <1>11, <2>1, ChainReplaced
<1>13. \A j \in Key : Hash(j, Length(h)) = b => Bucket(h, j) = B
    BY DEF B, Bucket, b
<1>14. ASSUME NEW j \in Key, NEW v
       PROVE  Maps(g, j, v) <=> IF j = k THEN v = <<m>> ELSE Maps(h, j, v)
    <2>1. CASE Hash(j, Length(h)) # b
        <3>1. j # k
            BY <2>1 DEF b
        <3> QED BY <1>12, <2>1, <3>1 DEF Maps
    <2>2. CASE j = k
        <3>1. Bucket(g, j) = chain
            BY <1>12, <2>2 DEF b
        <3>2. Maps(g, j, v) => v = <<m>>
            <4> SUFFICES ASSUME Maps(g, j, v) PROVE v = <<m>>
                OBVIOUS
            <4>1. PICK i \in DOMAIN chain : chain[i] = [key |-> k, value |-> v]
                BY <2>2, <3>1 DEF Maps
            <4>2. chain[i].key = k /\ chain[i].value = v
                BY <4>1
            <4> QED BY <1>4, <1>5, <1>7, <1>8, <4>2
        <3>3. v = <<m>> => Maps(g, j, v)
            BY <1>4, <1>8, <2>2, <3>1 DEF Maps, n
        <3> QED BY <2>2, <3>2, <3>3
    <2>3. CASE j # k /\ Hash(j, Length(h)) = b
        <3>1. Bucket(g, j) = chain /\ Bucket(h, j) = B
            BY <1>12, <1>13, <2>3
        <3>2. \A i \in DOMAIN chain : chain[i] = [key |-> j, value |-> v] => i # 1
            BY <1>4, <1>8, <2>3
        <3> QED BY <1>5, <1>6, <2>3, <3>1, <3>2 DEF Maps
    <2> QED BY <2>1, <2>2, <2>3
<1>15. \A j \in Key : Hash(j, Length(h)) = b => Pushed(k, m, Bucket(h, j)) = chain
    BY <1>13 DEF Pushed, chain, n
<1>16. \A j \in Key : Bucket(g, j) = IF Hash(j, Length(h)) = b THEN Pushed(k, m, Bucket(h, j))
                                     ELSE Bucket(h, j)
    BY <1>12, <1>15
<1> QED BY <1>12, <1>14, <1>16 DEF g, b

(* A node in a chain takes another value.                                  *)
NodeWith(chain, p, v) == [chain EXCEPT ![p].value = v]

WithValue(h, k, p, v) == [h EXCEPT !.table[Hash(k, Length(h))][p].value = v]

LEMMA ValueReplaced ==
    ASSUME NEW V, NEW h, WellFormed(h, V), NEW k \in Key,
           NEW p \in DOMAIN Bucket(h, k), Bucket(h, k)[p].key = k, NEW v \in V
    PROVE  /\ WellFormed(WithValue(h, k, p, v), V)
           /\ Length(WithValue(h, k, p, v)) = Length(h)
           /\ WithValue(h, k, p, v).count = h.count
           /\ Bucket(WithValue(h, k, p, v), k) = NodeWith(Bucket(h, k), p, v)
           /\ \A j \in Key : Hash(j, Length(h)) # Hash(k, Length(h)) =>
                               Bucket(WithValue(h, k, p, v), j) = Bucket(h, j)
           /\ \A j \in Key : \A w : Maps(WithValue(h, k, p, v), j, w) <=> IF j = k THEN w = v ELSE Maps(h, j, w)
<1> DEFINE b     == Hash(k, Length(h))
           B     == Bucket(h, k)
           g     == WithValue(h, k, p, v)
           n     == [B[p] EXCEPT !.value = v]
           chain == [B EXCEPT ![p] = n]
<1>1. /\ h \in Tables(V) /\ b \in DOMAIN h.table /\ B \in Seq(Node(V))
      /\ h = [table |-> h.table, count |-> h.count] /\ h.count \in Int
      /\ B = h.table[b] /\ \A i \in DOMAIN B : B[i] \in Node(V)
    BY BucketOfKey, TableShape DEF WellFormed, Bucket
<1>2. n \in Node(V) /\ n.key = k /\ n.value = v /\ n = [key |-> k, value |-> v]
    BY <1>1 DEF Node
<1>3. g = [table |-> [h.table EXCEPT ![b] = chain], count |-> h.count]
    <2>1. g = [h EXCEPT !.table = [h.table EXCEPT ![b] = chain]]
        BY <1>1 DEF WithValue
    <2> HIDE DEF chain, g
    <2> QED BY <1>1, <2>1
<1> HIDE DEF n, B, g
<1>4. chain \in Seq(Node(V)) /\ DOMAIN chain = DOMAIN B
    <2>1. p \in 1 .. Len(B)
        BY <1>1 DEF B
    <2> HIDE DEF b
    <2> QED BY <1>1, <1>2, <2>1, ExceptSeq
<1>5. \A i \in DOMAIN B : chain[i] = IF i = p THEN n ELSE B[i]
    BY <1>1
<1>6. \A i \in DOMAIN B : chain[i].key = B[i].key
    BY <1>2, <1>5 DEF B
<1>7. \A i \in DOMAIN B : Hash(B[i].key, Length(h)) = b
    BY BucketPlaced DEF B
<1>8. \A i, j \in DOMAIN B : B[i].key = B[j].key => i = j
    BY BucketPlaced DEF B
<1> HIDE DEF chain
<1>10. \A i \in DOMAIN chain : Hash(chain[i].key, Length(h)) = b
    BY <1>4, <1>6, <1>7
<1>11. \A i, j \in DOMAIN chain : chain[i].key = chain[j].key => i = j
    BY <1>4, <1>6, <1>8
<1>a. b = Hash(k, Length(h)) /\ p \in DOMAIN B /\ B[p].key = k
    BY DEF B
<1> HIDE DEF b
<1>12. /\ WellFormed(g, V) /\ Length(g) = Length(h) /\ g.count = h.count
       /\ \A j \in Key : Bucket(g, j) = IF Hash(j, Length(h)) = b THEN chain ELSE Bucket(h, j)
    <2>1. /\ b \in DOMAIN h.table /\ h.count \in Int /\ chain \in Seq(Node(V))
          /\ g = [table |-> [h.table EXCEPT ![b] = chain], count |-> h.count]
        BY <1>1, <1>3, <1>4
    <2> QED BY <1>10, <1>11, <2>1, ChainReplaced
<1>13. \A j \in Key : Hash(j, Length(h)) = b => Bucket(h, j) = B
    BY DEF B, Bucket, b
<1>14. ASSUME NEW j \in Key, NEW w
       PROVE  Maps(g, j, w) <=> IF j = k THEN w = v ELSE Maps(h, j, w)
    <2>1. CASE Hash(j, Length(h)) # b
        BY <1>12, <1>a, <2>1 DEF Maps
    <2>2. CASE j = k
        <3>1. Bucket(g, j) = chain
            BY <1>12, <1>a, <2>2
        <3>2. Maps(g, j, w) => w = v
            <4> SUFFICES ASSUME Maps(g, j, w) PROVE w = v
                OBVIOUS
            <4>1. PICK i \in DOMAIN chain : chain[i] = [key |-> k, value |-> w]
                BY <2>2, <3>1 DEF Maps
            <4>2. chain[i].key = k /\ chain[i].value = w
                BY <4>1
            <4>3. i = p
                BY <1>4, <1>6, <1>8, <1>a, <4>1, <4>2
            <4> QED BY <1>2, <1>4, <1>5, <1>a, <4>2, <4>3
        <3>3. w = v => Maps(g, j, w)
            BY <1>2, <1>4, <1>5, <1>a, <2>2, <3>1 DEF Maps
        <3> QED BY <2>2, <3>2, <3>3
    <2>3. CASE j # k /\ Hash(j, Length(h)) = b
        <3>1. Bucket(g, j) = chain /\ Bucket(h, j) = B
            BY <1>12, <1>13, <2>3
        <3>2. \A i \in DOMAIN B : chain[i] = [key |-> j, value |-> w] <=> B[i] = [key |-> j, value |-> w]
            BY <1>2, <1>5, <1>a, <2>3
        <3> QED BY <1>4, <2>3, <3>1, <3>2 DEF Maps
    <2> QED BY <2>1, <2>2, <2>3
<1>15. Bucket(g, k) = NodeWith(Bucket(h, k), p, v)
    BY <1>12, <1>a DEF chain, n, B, NodeWith
<1> QED BY <1>12, <1>14, <1>15, <1>a DEF g, b

(* A sequence without its element at p.                                    *)
LEMMA ElementCut ==
    ASSUME NEW S, NEW B \in Seq(S), NEW p \in 1 .. Len(B)
    PROVE  /\ RemoveAt(B, p) \in Seq(S)
           /\ Len(RemoveAt(B, p)) = Len(B) - 1
           /\ \A i \in 1 .. Len(B) - 1 : RemoveAt(B, p)[i] = IF i < p THEN B[i] ELSE B[i + 1]
<1> DEFINE l == SubSeq(B, 1, p - 1)
           r == SubSeq(B, p + 1, Len(B))
<1>0. Len(B) \in Nat /\ p \in Nat
    OBVIOUS
<1>1. l \in Seq(S) /\ Len(l) = p - 1 /\ \A i \in 1 .. p - 1 : l[i] = B[i]
    BY <1>0
<1>2. r \in Seq(S) /\ Len(r) = Len(B) - p /\ \A i \in 1 .. Len(B) - p : r[i] = B[p + i]
    BY <1>0
<1>3. RemoveAt(B, p) = l \o r
    BY DEF RemoveAt
<1> HIDE DEF l, r
<1>4. /\ l \o r \in Seq(S)
      /\ Len(l \o r) = Len(l) + Len(r)
      /\ \A i \in 1 .. Len(l) + Len(r) : (l \o r)[i] = IF i <= Len(l) THEN l[i] ELSE r[i - Len(l)]
    BY <1>1, <1>2, ConcatProperties
<1>5. \A i \in 1 .. Len(B) - 1 : (l \o r)[i] = IF i < p THEN B[i] ELSE B[i + 1]
    <2> TAKE i \in 1 .. Len(B) - 1
    <2>1. CASE i < p
        <3>1. i <= p - 1 /\ i \in 1 .. p - 1
            BY <1>0, <2>1
        <3> QED BY <1>0, <1>1, <1>2, <1>4, <2>1, <3>1
    <2>2. CASE ~(i < p)
        <3>1. ~(i <= p - 1) /\ i - (p - 1) \in 1 .. Len(B) - p /\ p + (i - (p - 1)) = i + 1
            BY <1>0, <2>2
        <3> QED BY <1>0, <1>1, <1>2, <1>4, <2>2, <3>1
    <2> QED BY <2>1, <2>2
<1>6. Len(l \o r) = Len(B) - 1
    <2>1. Len(l) + Len(r) = (p - 1) + (Len(B) - p)
        BY <1>1, <1>2
    <2>2. (p - 1) + (Len(B) - p) = Len(B) - 1
        BY <1>0
    <2>3. Len(l \o r) = Len(l) + Len(r)
        BY <1>4
    <2> QED BY <2>1, <2>2, <2>3
<1> DEFINE c == l \o r
<1>7. /\ c \in Seq(S) /\ Len(c) = Len(B) - 1 /\ RemoveAt(B, p) = c
      /\ \A i \in 1 .. Len(B) - 1 : c[i] = IF i < p THEN B[i] ELSE B[i + 1]
    BY <1>3, <1>4, <1>5, <1>6
<1> HIDE DEF c
<1> QED BY <1>7

(* remove of the first or the second node of a chain.                      *)
LEMMA RemoveKeeps ==
    ASSUME NEW V, NEW h, WellFormed(h, V), NEW k \in Key, Position(h, k) # 0
    PROVE  /\ WellFormed(RemoveKey(h, k), V)
           /\ Length(RemoveKey(h, k)) = Length(h)
           /\ RemoveKey(h, k).count = h.count - 1
           /\ \A j \in Key : Hash(j, Length(h)) # Hash(k, Length(h)) => Bucket(RemoveKey(h, k), j) = Bucket(h, j)
           /\ \A j \in Key : \A w : Maps(RemoveKey(h, k), j, w) => Maps(h, j, w)
           /\ Position(h, k) = 1 =>
                  \A j \in Key : \A w : Maps(RemoveKey(h, k), j, w) <=> j # k /\ Maps(h, j, w)
<1> DEFINE g     == RemoveKey(h, k)
           b     == Hash(k, Length(h))
           B     == Bucket(h, k)
           p     == Position(h, k)
           cut   == RemoveAt(B, p)
           chain == IF p <= 2 THEN cut ELSE B
<1>1. /\ h \in Tables(V) /\ b \in DOMAIN h.table /\ B \in Seq(Node(V))
      /\ h = [table |-> h.table, count |-> h.count] /\ h.count \in Int
      /\ B = h.table[b] /\ \A i \in DOMAIN B : B[i] \in Node(V)
    BY BucketOfKey, TableShape DEF WellFormed, Bucket
<1>2. p \in 1 .. Len(B) /\ Len(B) \in Nat /\ DOMAIN B = 1 .. Len(B) /\ B[p].key = k
    BY <1>1, PositionFound
<1>3. g = [table |-> [h.table EXCEPT ![b] = chain], count |-> h.count - 1]
    <2>1. g = [h EXCEPT !.table = [h.table EXCEPT ![b] = chain], !.count = h.count - 1]
        BY <1>1 DEF RemoveKey
    <2> HIDE DEF g, chain
    <2> QED BY <1>1, <2>1
<1> HIDE DEF g, B, p, b
<1>4. /\ cut \in Seq(Node(V))
      /\ Len(cut) = Len(B) - 1
      /\ \A i \in 1 .. Len(B) - 1 : cut[i] = IF i < p THEN B[i] ELSE B[i + 1]
    BY <1>1, <1>2, ElementCut
<1> HIDE DEF cut
<1>5. DOMAIN cut = 1 .. Len(B) - 1
    BY <1>4
<1>6. \A i \in DOMAIN B : Hash(B[i].key, Length(h)) = b
    BY BucketPlaced DEF B, b
<1>7. \A i, j \in DOMAIN B : B[i].key = B[j].key => i = j
    BY BucketPlaced DEF B
<1>8. \A i \in DOMAIN cut : \E j \in DOMAIN B : j = (IF i < p THEN i ELSE i + 1) /\ cut[i] = B[j]
    BY <1>2, <1>4, <1>5
<1>9. \A i \in DOMAIN cut : Hash(cut[i].key, Length(h)) = b
    BY <1>6, <1>8
<1>10. \A i, j \in DOMAIN cut : cut[i].key = cut[j].key => i = j
    <2> TAKE i, j \in DOMAIN cut
    <2> HAVE cut[i].key = cut[j].key
    <2>1. i \in Nat /\ j \in Nat /\ p \in Nat
        BY <1>2, <1>5
    <2>2. (IF i < p THEN i ELSE i + 1) = (IF j < p THEN j ELSE j + 1)
        BY <1>7, <1>8
    <2> QED BY <2>1, <2>2
<1>11. /\ chain \in Seq(Node(V))
       /\ \A i \in DOMAIN chain : Hash(chain[i].key, Length(h)) = b
       /\ \A i, j \in DOMAIN chain : chain[i].key = chain[j].key => i = j
    BY <1>1, <1>4, <1>6, <1>7, <1>9, <1>10
<1>a. p = 1 => chain = cut
    OBVIOUS
<1>b. \A i \in DOMAIN chain : \E j \in DOMAIN B : chain[i] = B[j]
    BY <1>8
<1> HIDE DEF chain
<1>12. /\ WellFormed(g, V) /\ Length(g) = Length(h) /\ g.count = h.count - 1
       /\ \A j \in Key : Bucket(g, j) = IF Hash(j, Length(h)) = b THEN chain ELSE Bucket(h, j)
    <2>1. h.count - 1 \in Int
        BY <1>1
    <2> QED BY <1>1, <1>3, <1>11, <2>1, ChainReplaced
<1>13. \A j \in Key : Hash(j, Length(h)) = b => Bucket(h, j) = B
    BY DEF B, Bucket, b
<1>14. ASSUME p = 1, NEW j \in Key, NEW w
       PROVE  Maps(g, j, w) <=> j # k /\ Maps(h, j, w)
    <2>1. CASE Hash(j, Length(h)) # b
        <3>1. j # k
            BY <2>1 DEF b
        <3> QED BY <1>12, <2>1, <3>1 DEF Maps
    <2>2. CASE Hash(j, Length(h)) = b
        <3>1. Bucket(g, j) = cut /\ Bucket(h, j) = B
            BY <1>12, <1>13, <1>14, <1>a, <2>2
        <3>2. \A i \in DOMAIN cut : i + 1 \in DOMAIN B /\ cut[i] = B[i + 1] /\ i + 1 # p
            BY <1>2, <1>4, <1>5, <1>14
        <3>3. \A i \in DOMAIN cut : cut[i].key # k
            BY <1>2, <1>7, <3>2
        <3>4. \A i \in DOMAIN B : i # p => i - 1 \in DOMAIN cut /\ cut[i - 1] = B[i]
            BY <1>2, <1>4, <1>5, <1>14
        <3>5. Maps(g, j, w) => j # k /\ Maps(h, j, w)
            BY <3>1, <3>2, <3>3 DEF Maps
        <3>6. j # k /\ Maps(h, j, w) => Maps(g, j, w)
            <4> SUFFICES ASSUME j # k, Maps(h, j, w) PROVE Maps(g, j, w)
                OBVIOUS
            <4>1. PICK i \in DOMAIN B : B[i] = [key |-> j, value |-> w]
                BY <3>1 DEF Maps
            <4>2. i # p
                BY <1>2, <4>1
            <4> QED BY <3>1, <3>4, <4>1, <4>2 DEF Maps
        <3> QED BY <3>5, <3>6
    <2> QED BY <2>1, <2>2
<1>15. ASSUME NEW j \in Key, NEW w, Maps(g, j, w) PROVE Maps(h, j, w)
    <2>1. CASE Hash(j, Length(h)) # b
        BY <1>12, <1>15, <2>1 DEF Maps
    <2>2. CASE Hash(j, Length(h)) = b
        <3>1. Bucket(g, j) = chain /\ Bucket(h, j) = B
            BY <1>12, <1>13, <2>2
        <3> QED BY <1>b, <1>15, <3>1 DEF Maps
    <2> QED BY <2>1, <2>2
<1> QED BY <1>12, <1>14, <1>15 DEF g, b, p

(* getHashedID lists the first key of every chain, and no bucket twice.    *)
LEMMA HashedIDs ==
    ASSUME NEW V, NEW h, WellFormed(h, V)
    PROVE  /\ GetHashedID(h) \in Seq(Key)
           /\ \A n \in DOMAIN GetHashedID(h) : /\ Bucket(h, GetHashedID(h)[n]) # <<>>
                                    /\ Bucket(h, GetHashedID(h)[n])[1].key = GetHashedID(h)[n]
           /\ \A k \in Key : Bucket(h, k) # <<>> =>
                  \E n \in DOMAIN GetHashedID(h) : GetHashedID(h)[n] = Bucket(h, k)[1].key
           /\ \A m, n \in DOMAIN GetHashedID(h) :
                  Hash(GetHashedID(h)[m], Length(h)) = Hash(GetHashedID(h)[n], Length(h)) => m = n
<1> DEFINE L     == Length(h)
           P     == {b \in DOMAIN h.table : h.table[b] # <<>>}
           id(b) == h.table[b][1].key
           ids   == [n \in 1 .. Cardinality(P) |-> id(Nth(P, n))]
<1>1. /\ L \in Nat \ {0} /\ h.table \in [0 .. L - 1 -> Seq(Node(V))]
      /\ h \in Tables(V) /\ Placed(h)
    BY TableShape DEF WellFormed
<1>2. P \in SUBSET Nat /\ IsFiniteSet(P)
    <2>1. IsFiniteSet(0 .. L - 1)
        BY <1>1, FS_Interval
    <2>2. P \in SUBSET (0 .. L - 1)
        BY <1>1
    <2> HIDE DEF P, L
    <2>3. IsFiniteSet(P)
        BY <2>1, <2>2, FS_Subset
    <2>4. \A b \in 0 .. L - 1 : b \in Nat
        BY <1>1
    <2> QED BY <2>2, <2>3, <2>4
<1>3. \A b \in P : id(b) \in Key /\ Hash(id(b), L) = b /\ Bucket(h, id(b)) = h.table[b]
    <2> TAKE b \in P
    <2>1. h.table[b] \in Seq(Node(V)) /\ h.table[b] # <<>>
        BY <1>1
    <2>2. 1 \in DOMAIN h.table[b] /\ h.table[b][1] \in Node(V)
        BY <2>1
    <2>3. id(b) \in Key
        BY <2>2 DEF Node
    <2>4. Hash(id(b), L) = b
        BY <1>1, <2>2 DEF Placed
    <2> QED BY <2>3, <2>4 DEF Bucket
<1>4. GetHashedID(h) = ids
    BY DEF GetHashedID
<1>5. /\ Cardinality(P) \in Nat
      /\ \A n \in 1 .. Cardinality(P) : Nth(P, n) \in P
      /\ \A i \in P : \E n \in 1 .. Cardinality(P) : Nth(P, n) = i
      /\ \A m, n \in 1 .. Cardinality(P) : Nth(P, m) = Nth(P, n) => m = n
    <2> HIDE DEF P
    <2> QED BY <1>2, NthPosition
<1>6. \A k \in Key : Bucket(h, k) # <<>> => Hash(k, L) \in P
    BY <1>1, BucketOfKey DEF Bucket
<1>7. \A b \in P : h.table[b] # <<>>
    OBVIOUS
<1>8. \A k \in Key : Bucket(h, k)[1].key = id(Hash(k, L))
    BY DEF Bucket
<1>9. \A b \in P : Bucket(h, id(b))[1].key = id(b)
    BY <1>3
<1> HIDE DEF P, id, L
<1>10. ids \in Seq(Key)
    BY <1>3, <1>5
<1>11. DOMAIN ids = 1 .. Cardinality(P) /\ \A n \in DOMAIN ids : ids[n] = id(Nth(P, n)) /\ Nth(P, n) \in P
    BY <1>5
<1> HIDE DEF ids
<1>12. \A n \in DOMAIN ids : Bucket(h, ids[n]) # <<>> /\ Bucket(h, ids[n])[1].key = ids[n]
    BY <1>3, <1>7, <1>9, <1>11
<1>13. \A k \in Key : Bucket(h, k) # <<>> => \E n \in DOMAIN ids : ids[n] = Bucket(h, k)[1].key
    BY <1>5, <1>6, <1>8, <1>11
<1>14. \A m, n \in DOMAIN ids : Hash(ids[m], L) = Hash(ids[n], L) => m = n
    BY <1>3, <1>5, <1>11
<1> QED BY <1>4, <1>10, <1>12, <1>13, <1>14 DEF L
-----------------------------------------------------------------------------
(* The two ends of put.                                                    *)
LEMMA LinkCounted ==
    ASSUME NEW V, NEW h, WellFormed(h, V), NEW k \in Key, NEW m,
           Position(h, k) = 0, <<m>> \in V
    PROVE  /\ WellFormed(Counted(Link(h, k, m)), V)
           /\ Counted(Link(h, k, m)).count = h.count + 1
           /\ \A j \in Key : \A w : Maps(Counted(Link(h, k, m)), j, w) <=>
                                     IF j = k THEN w = <<m>> ELSE Maps(h, j, w)
<1>a. WellFormed(Link(h, k, m), V)
    BY LinkKeeps
<1>b. Link(h, k, m).count = h.count
    BY <1>a, LinkKeeps
<1>1. WellFormed(Link(h, k, m), V) /\ Link(h, k, m).count = h.count
    BY <1>a, <1>b
<1>2. \A j \in Key : \A w : Maps(Link(h, k, m), j, w) <=> IF j = k THEN w = <<m>> ELSE Maps(h, j, w)
    BY LinkKeeps
<1>3. /\ WellFormed(Counted(Link(h, k, m)), V)
      /\ Counted(Link(h, k, m)).count = Link(h, k, m).count + 1
      /\ Counted(Link(h, k, m)).table = Link(h, k, m).table
    BY <1>1, CountedKeeps
<1>4. \A j \in Key : \A w : Maps(Counted(Link(h, k, m)), j, w) <=> Maps(Link(h, k, m), j, w)
    BY <1>3 DEF Maps, Bucket, Length
<1> QED BY <1>1, <1>2, <1>3, <1>4

LEMMA ExtendKeeps ==
    ASSUME NEW V, NEW h, WellFormed(h, V), NEW k \in Key, NEW m,
           Position(h, k) # 0, \A v \in V : Append(v, m) \in V
    PROVE  /\ WellFormed(Extend(h, k, m), V)
           /\ Extend(h, k, m).count = h.count
           /\ \A j \in Key : \A w : Maps(Extend(h, k, m), j, w) <=>
                  IF j = k THEN w = Append(Bucket(h, k)[Position(h, k)].value, m)
                  ELSE Maps(h, j, w)
<1> DEFINE p == Position(h, k)
           v == Append(Bucket(h, k)[p].value, m)
           u == WithValue(h, k, p, v)
<1>1. p \in DOMAIN Bucket(h, k) /\ Bucket(h, k)[p].key = k
    BY PositionFound DEF WellFormed
<1>2. v \in V
    BY <1>1, BucketPlaced
<1>3. Extend(h, k, m) = u
    <2>1. /\ Hash(k, Length(h)) \in DOMAIN h.table
          /\ h = [table |-> h.table, count |-> h.count]
        BY BucketOfKey, TableShape DEF WellFormed
    <2> QED BY <1>1, <2>1 DEF Extend, Bucket, WithValue
<1>4. WellFormed(u, V) /\ u.count = h.count
    <2> HIDE DEF p, v
    <2> QED BY <1>1, <1>2, ValueReplaced
<1>5. \A j \in Key : \A w : Maps(u, j, w) <=> IF j = k THEN w = v ELSE Maps(h, j, w)
    <2> HIDE DEF p, v
    <2> QED BY <1>1, <1>2, ValueReplaced
<1> QED BY <1>3, <1>4, <1>5

LEMMA RoomKeeps ==
    ASSUME NEW V, NEW h, WellFormed(h, V)
    PROVE  /\ WellFormed(Room(h), V)
           /\ Room(h).count = h.count
           /\ \A k \in Key : \A v : Maps(Room(h), k, v) <=> Maps(h, k, v)
           /\ \A k \in Key : Position(Room(h), k) = 0 <=> Position(h, k) = 0
<1>1. /\ WellFormed(Room(h), V) /\ Room(h).count = h.count
      /\ \A k \in Key : \A v : Maps(Room(h), k, v) <=> Maps(h, k, v)
    BY ResizeKeeps DEF Room
<1>2. \A k \in Key : Position(Room(h), k) = 0 <=> Position(h, k) = 0
    BY <1>1, MapsFound
<1> QED BY <1>1, <1>2

(* put, of a key that is there or of a new one.                            *)
LEMMA PutKeeps ==
    ASSUME NEW V, NEW h, WellFormed(h, V), NEW k \in Key, NEW m, <<m>> \in V,
           \A v \in V : Append(v, m) \in V
    PROVE  /\ WellFormed(Put(h, k, m), V)
           /\ Put(h, k, m).count = IF Position(h, k) # 0 THEN h.count ELSE h.count + 1
           /\ \A j \in Key : \A w : Maps(Put(h, k, m), j, w) <=>
                  IF j # k THEN Maps(h, j, w)
                  ELSE IF Position(h, k) = 0 THEN w = <<m>>
                  ELSE w = Append(Bucket(h, k)[Position(h, k)].value, m)
<1>1. CASE Position(h, k) # 0
    <2>1. Put(h, k, m) = Extend(h, k, m)
        BY <1>1 DEF Put
    <2> QED BY <1>1, <2>1, ExtendKeeps
<1>2. CASE Position(h, k) = 0
    <2>1. Put(h, k, m) = Counted(Link(Room(h), k, m))
        BY <1>2 DEF Put
    <2>2. WellFormed(Room(h), V) /\ Position(Room(h), k) = 0
        BY <1>2, RoomKeeps
    <2>3. /\ WellFormed(Put(h, k, m), V)
          /\ Put(h, k, m).count = Room(h).count + 1
          /\ \A j \in Key : \A w : Maps(Put(h, k, m), j, w) <=>
                 IF j = k THEN w = <<m>> ELSE Maps(Room(h), j, w)
        BY <2>1, <2>2, LinkCounted
    <2> QED BY <1>2, <2>3, RoomKeeps
<1> QED BY <1>1, <1>2

(* getValue of the first key of a chain.                                   *)
LEMMA GetValueKeeps ==
    ASSUME NEW M, NEW h, WellFormed(h, Seq(M) \ {<<>>}), NEW k \in Key,
           Bucket(h, k) # <<>>, Bucket(h, k)[1].key = k
    PROVE  LET v == Bucket(h, k)[1].value IN
           /\ Position(h, k) = 1
           /\ v \in Seq(M) \ {<<>>}
           /\ WellFormed(GetValue(h, k), Seq(M) \ {<<>>})
           /\ GetValue(h, k).count = IF Tail(v) = <<>> THEN h.count - 1 ELSE h.count
           /\ \A j \in Key : \A w : Maps(GetValue(h, k), j, w) <=>
                  IF j # k THEN Maps(h, j, w) ELSE w = Tail(v) /\ w # <<>>
<1> DEFINE v == Bucket(h, k)[1].value
           p == Position(h, k)
           t == Tail(v)
           W == Seq(M)
           g == WithValue(h, k, p, t)
<1>1. 1 \in DOMAIN Bucket(h, k)
    BY BucketOfKey DEF WellFormed
<1>2. Position(h, k) = 1
    BY <1>1, PositionFound DEF WellFormed
<1>3. v \in Seq(M) \ {<<>>}
    BY <1>1, BucketPlaced
<1>4. Tail(v) \in Seq(M)
    BY <1>3
<1>5. WellFormed(h, Seq(M))
    BY ValuesWidened
<1>p. p \in DOMAIN Bucket(h, k) /\ Bucket(h, k)[p].key = k
    BY <1>1, <1>2
<1> HIDE DEF v, p
<1>q. t \in W /\ WellFormed(h, W)
    BY <1>4, <1>5
<1> HIDE DEF t, W
<1>a. WellFormed(g, W) /\ Length(g) = Length(h) /\ g.count = h.count
    BY <1>p, <1>q, ValueReplaced
<1>b. Bucket(g, k) = NodeWith(Bucket(h, k), p, t)
    BY <1>a, <1>p, <1>q, ValueReplaced
<1>c. \A j \in Key : \A w : Maps(g, j, w) <=> IF j = k THEN w = t ELSE Maps(h, j, w)
    BY <1>a, <1>p, <1>q, ValueReplaced
<1>6. /\ WellFormed(g, Seq(M)) /\ Length(g) = Length(h) /\ g.count = h.count
      /\ Bucket(g, k) = [Bucket(h, k) EXCEPT ![1].value = Tail(v)]
    BY <1>2, <1>a, <1>b DEF NodeWith, p, t, W
<1>7. \A j \in Key : \A w : Maps(g, j, w) <=> IF j = k THEN w = Tail(v) ELSE Maps(h, j, w)
    BY <1>c DEF t
<1>8. GetValue(h, k) = IF Bucket(g, k)[1].value = <<>> THEN RemoveKey(g, k) ELSE g
    <2>1. /\ Hash(k, Length(h)) \in DOMAIN h.table
          /\ h = [table |-> h.table, count |-> h.count]
        BY BucketOfKey, TableShape DEF WellFormed
    <2> QED BY <1>1, <1>2, <2>1 DEF GetValue, Bucket, WithValue, v, p, t
<1>9. Bucket(h, k)[1] \in Node(Seq(M))
    BY <1>1, <1>5, BucketOfKey DEF WellFormed
<1>10. Bucket(g, k)[1].value = Tail(v) /\ Bucket(g, k)[1].key = k /\ 1 \in DOMAIN Bucket(g, k)
    BY <1>1, <1>6, <1>9 DEF Node
<1>11. Position(g, k) = 1
    BY <1>6, <1>10, PositionFound DEF WellFormed
<1> HIDE DEF g
<1>12. CASE Tail(v) = <<>>
    <2>1. GetValue(h, k) = RemoveKey(g, k)
        BY <1>8, <1>10, <1>12
    <2>2. WellFormed(RemoveKey(g, k), Seq(M)) /\ RemoveKey(g, k).count = g.count - 1
        BY <1>6, <1>11, RemoveKeeps
    <2>3. \A j \in Key : \A w : Maps(RemoveKey(g, k), j, w) <=> j # k /\ Maps(g, j, w)
        BY <1>6, <1>11, RemoveKeeps
    <2>4. \A j \in Key : \A w : Maps(GetValue(h, k), j, w) <=>
              IF j # k THEN Maps(h, j, w) ELSE w = Tail(v) /\ w # <<>>
        BY <1>7, <1>12, <2>1, <2>3
    <2>5. \A j \in Key : ~Maps(GetValue(h, k), j, <<>>)
        BY <1>12, <2>4, MapsFound
    <2>6. WellFormed(GetValue(h, k), Seq(M) \ {<<>>})
        BY <2>1, <2>2, <2>5, ValuesNarrowed
    <2> QED BY <1>2, <1>3, <1>6, <1>12, <2>1, <2>2, <2>4, <2>6 DEF v
<1>13. CASE Tail(v) # <<>>
    <2>1. GetValue(h, k) = g
        BY <1>8, <1>10, <1>13
    <2>2. \A j \in Key : \A w : Maps(g, j, w) <=>
              IF j # k THEN Maps(h, j, w) ELSE w = Tail(v) /\ w # <<>>
        BY <1>7, <1>13
    <2>3. \A j \in Key : ~Maps(g, j, <<>>)
        BY <1>13, <2>2, MapsFound
    <2>4. WellFormed(g, Seq(M) \ {<<>>})
        BY <1>6, <2>3, ValuesNarrowed
    <2> QED BY <1>2, <1>3, <1>6, <1>13, <2>1, <2>2, <2>4 DEF v
<1> QED BY <1>12, <1>13

(* getValue of any key in a chain whose first node has one message.        *)
LEMMA GetValueRemoves ==
    ASSUME NEW M, NEW h, WellFormed(h, Seq(M)), NEW k \in Key, Position(h, k) # 0,
           Len(Bucket(h, k)[1].value) = 1
    PROVE  /\ WellFormed(GetValue(h, k), Seq(M))
           /\ Length(GetValue(h, k)) = Length(h)
           /\ GetValue(h, k).count = h.count - 1
           /\ \A j \in Key : Hash(j, Length(h)) # Hash(k, Length(h)) =>
                               Bucket(GetValue(h, k), j) = Bucket(h, j)
           /\ \A j \in Key : Position(h, j) = 0 => Position(GetValue(h, k), j) = 0
<1> DEFINE q == Bucket(h, k)[1].key
           e == <<>>
           o == 1
           W == Seq(M)
           g == WithValue(h, q, o, e)
<1>1. 1 \in DOMAIN Bucket(h, k)
    <2>1. Position(h, k) \in DOMAIN Bucket(h, k)
        BY PositionFound DEF WellFormed
    <2> QED BY <2>1, BucketOfKey DEF WellFormed
<1>2. q \in Key /\ Hash(q, Length(h)) = Hash(k, Length(h)) /\ Bucket(h, k)[1].value \in W
    BY <1>1, BucketPlaced
<1>3. Bucket(h, q) = Bucket(h, k)
    BY <1>2 DEF Bucket
<1>4. Tail(Bucket(h, k)[1].value) = e
    <2> DEFINE t == Bucket(h, k)[1].value
    <2>1. t \in Seq(M) /\ Len(t) = 1
        BY <1>2
    <2> HIDE DEF t
    <2>2. t # <<>>
        <3>1. SUFFICES ASSUME t = <<>> PROVE FALSE
            OBVIOUS
        <3>2. Len(<<>>) = 1
            BY <2>1, <3>1
        <3> QED BY <3>2, EmptySeq
    <2>3. Tail(t) \in Seq(M) /\ Len(Tail(t)) = 0
        BY <2>1, <2>2, HeadTailProperties
    <2>4. Tail(t) = <<>>
        BY <2>3, EmptySeq
    <2> QED BY <2>4 DEF t
<1>5. e \in W /\ WellFormed(h, W)
    OBVIOUS
<1>6. GetValue(h, k) = IF Bucket(g, k)[1].value = e THEN RemoveKey(g, k) ELSE g
    <2>1. /\ Hash(k, Length(h)) \in DOMAIN h.table
          /\ h = [table |-> h.table, count |-> h.count]
        BY BucketOfKey, TableShape DEF WellFormed
    <2> QED BY <1>1, <1>2, <1>4, <2>1 DEF GetValue, Bucket, WithValue
<1>7. o \in DOMAIN Bucket(h, q) /\ Bucket(h, q)[o].key = q
    BY <1>1, <1>3
<1>8. Bucket(h, q)[1] = [key |-> q, value |-> Bucket(h, q)[1].value]
    <2>1. Bucket(h, q)[1] \in Node(W)
        BY <1>1, <1>2, <1>3, <1>5, BucketOfKey DEF WellFormed
    <2> QED BY <1>7, <2>1 DEF Node
<1>9. o = 1
    OBVIOUS
<1>10. e = <<>>
    OBVIOUS
<1> HIDE DEF q, e, o, W
<1>11. WellFormed(g, W) /\ Length(g) = Length(h) /\ g.count = h.count
    BY <1>2, <1>5, <1>7, ValueReplaced
<1>12. Bucket(g, q) = NodeWith(Bucket(h, q), o, e)
    BY <1>2, <1>5, <1>7, <1>11, ValueReplaced
<1>13. \A j \in Key : Hash(j, Length(h)) # Hash(q, Length(h)) => Bucket(g, j) = Bucket(h, j)
    BY <1>2, <1>5, <1>7, <1>11, ValueReplaced
<1>14. \A j \in Key : \A w : Maps(g, j, w) <=> IF j = q THEN w = e ELSE Maps(h, j, w)
    BY <1>2, <1>5, <1>7, <1>11, ValueReplaced
<1> HIDE DEF g
<1>15. Bucket(g, k)[1].value = e
    <2>1. Bucket(g, k) = Bucket(g, q)
        BY <1>2, <1>11 DEF Bucket
    <2> QED BY <1>7, <1>8, <1>9, <1>12, <2>1 DEF NodeWith
<1>16. GetValue(h, k) = RemoveKey(g, k)
    BY <1>6, <1>15
<1>17. \A j \in Key : Position(g, j) = 0 <=> Position(h, j) = 0
    <2> TAKE j \in Key
    <2>1. Position(h, q) # 0
        BY <1>2, <1>7, PositionFound DEF WellFormed
    <2>2. Maps(g, q, e)
        BY <1>2, <1>14
    <2>3. Position(g, q) # 0
        BY <1>2, <1>11, <2>2, MapsFound
    <2>4. CASE j = q
        BY <2>1, <2>3, <2>4
    <2>5. CASE j # q
        <3>1. \A w : Maps(g, j, w) <=> Maps(h, j, w)
            BY <1>14, <2>5
        <3>2. (\E w : Maps(g, j, w)) <=> Position(g, j) # 0
            BY <1>11, MapsFound
        <3>3. (\E w : Maps(h, j, w)) <=> Position(h, j) # 0
            BY <1>5, MapsFound
        <3> QED BY <3>1, <3>2, <3>3
    <2> QED BY <2>4, <2>5
<1>18. Position(g, k) # 0
    BY <1>17
<1>19. /\ WellFormed(RemoveKey(g, k), W) /\ Length(RemoveKey(g, k)) = Length(g)
       /\ RemoveKey(g, k).count = g.count - 1
    BY <1>11, <1>18, RemoveKeeps
<1>20. \A j \in Key : Hash(j, Length(g)) # Hash(k, Length(g)) =>
                          Bucket(RemoveKey(g, k), j) = Bucket(g, j)
    BY <1>11, <1>18, <1>19, RemoveKeeps
<1>21. \A j \in Key : \A w : Maps(RemoveKey(g, k), j, w) => Maps(g, j, w)
    BY <1>11, <1>18, <1>19, RemoveKeeps
<1>22. \A j \in Key : Position(g, j) = 0 => Position(RemoveKey(g, k), j) = 0
    BY <1>11, <1>19, <1>21, MapsFound
<1> QED BY <1>2, <1>11, <1>13, <1>16, <1>17, <1>19, <1>20, <1>22 DEF W
-----------------------------------------------------------------------------
(* The length of a table never changes but by doubling.                    *)
LEMMA PutLength ==
    ASSUME NEW V, NEW h, WellFormed(h, V), NEW k \in Key, NEW m, <<m>> \in V
    PROVE  Length(Put(h, k, m)) \in {Length(h), 2 * Length(h)}
<1>1. CASE Position(h, k) # 0
    <2>1. DOMAIN Extend(h, k, m).table = DOMAIN h.table
        BY TableShape DEF Extend, WellFormed
    <2> QED BY <1>1, <2>1 DEF Put, Length
<1>2. CASE Position(h, k) = 0
    <2>1. WellFormed(Room(h), V) /\ Position(Room(h), k) = 0
        BY <1>2, RoomKeeps
    <2>2. Length(Room(h)) \in {Length(h), 2 * Length(h)}
        BY ResizeKeeps DEF Room
    <2>3. WellFormed(Link(Room(h), k, m), V)
        BY <2>1, LinkKeeps
    <2>4. Length(Link(Room(h), k, m)) = Length(Room(h))
        BY <2>1, <2>3, LinkKeeps
    <2>5. Length(Counted(Link(Room(h), k, m))) = Length(Link(Room(h), k, m))
        BY <2>3, CountedKeeps DEF Length
    <2> QED BY <1>2, <2>2, <2>4, <2>5 DEF Put
<1> QED BY <1>1, <1>2

LEMMA GetValueLength ==
    ASSUME NEW V, NEW h, WellFormed(h, V), NEW k \in Key
    PROVE  Length(GetValue(h, k)) = Length(h)
<1> DEFINE g == [h EXCEPT !.table[Hash(k, Length(h))][1].value = Tail(@)]
<1>1. h = [table |-> h.table, count |-> h.count]
    BY TableShape DEF WellFormed
<1>2. g = [table |-> g.table, count |-> g.count] /\ DOMAIN g.table = DOMAIN h.table
    <2> DEFINE b == Hash(k, Length(h))
               x == Tail(h.table[b][1].value)
    <2>1. g = [h EXCEPT !.table[b][1].value = x]
        OBVIOUS
    <2> HIDE DEF b, x
    <2>2. [h EXCEPT !.table[b][1].value = x] =
              [table |-> [h.table EXCEPT ![b][1].value = x], count |-> h.count]
        BY <1>1
    <2>3. DOMAIN [h.table EXCEPT ![b][1].value = x] = DOMAIN h.table
        OBVIOUS
    <2> HIDE DEF g
    <2> QED BY <2>1, <2>2, <2>3
<1>3. GetValue(h, k) = IF Bucket(g, k)[1].value = <<>> THEN RemoveKey(g, k) ELSE g
    BY DEF GetValue
<1> HIDE DEF g
<1>4. DOMAIN RemoveKey(g, k).table = DOMAIN g.table
    <2>1. CASE Position(g, k) = 0
        BY <2>1 DEF RemoveKey
    <2>2. CASE Position(g, k) # 0
        <3> DEFINE p == Position(g, k)
                   b == Hash(k, Length(g))
        <3>1. RemoveKey(g, k) = [g EXCEPT !.table[b] = IF p <= 2 THEN RemoveAt(@, p) ELSE @,
                                          !.count = @ - 1]
            BY <2>2 DEF RemoveKey
        <3> HIDE DEF p, b
        <3> QED BY <1>2, <3>1
    <2> QED BY <2>1, <2>2
<1> QED BY <1>2, <1>3, <1>4 DEF Length

(* What hashes apart in a table hashes apart in one twice as long.         *)
LEMMA ApartInDouble ==
    ASSUME NEW k \in Key, NEW j \in Key, NEW n \in Nat \ {0},
           Hash(k, 2 * n) = Hash(j, 2 * n)
    PROVE  Hash(k, n) = Hash(j, n)
<1>1. HashCode[k] \in Nat /\ HashCode[j] \in Nat
    BY HashCodeAssumption
<1>2. /\ (HashCode[k] % (2 * n)) % n = HashCode[k] % n
      /\ (HashCode[j] % (2 * n)) % n = HashCode[j] % n
    BY <1>1, RemainderOfDouble
<1> QED BY <1>2 DEF Hash
=============================================================================
