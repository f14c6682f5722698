----------------------------- MODULE InboxProofs -----------------------------
(***************************************************************************)
(* What a run of the client misses, for every set of names, hash codes,    *)
(* length of the table and set of parents.                                 *)
(***************************************************************************)
EXTENDS Inbox, HashTableProofs

Sent == <<"message">>

(* The parents whose node is still to be linked.                           *)
Late == IF "link" \in stores THEN putting ELSE {}

Uncovered(S) == {p \in parents : \A q \in S : ~Collide(p, q)}

Listing == {ids[n] : n \in DOMAIN ids}

Allowed == IF inOrder THEN 0 ELSE 1

Uncounted == IF "count" \in stores THEN 1 ELSE 0
-----------------------------------------------------------------------------
Types ==
    /\ parents \subseteq Key /\ inOrder \in BOOLEAN /\ arrived \subseteq parents
    /\ stores \subseteq {"link", "count"}
    /\ polling \in {"poll", "merge"} /\ ids \in Seq(Key) /\ merged \subseteq Key
    /\ runs \in Nat
    /\ WellFormed(htc, Seq({"message"}))

(* Of a put that has not ended there is a message, and in program order    *)
(* its count comes last.                                                   *)
Putting ==
    /\ stores = {} => putting = {}
    /\ stores # {} => \E p \in arrived : putting = {p}
    /\ inOrder /\ "link" \in stores => "count" \in stores
    /\ \A p \in Late : Position(htc, p) = 0

(* The first list of ids is made when every parent is counted.             *)
Full ==
    merged # {} \/ polling = "merge" \/ runs > 0 =>
        arrived = parents /\ "count" \notin stores

(* Until a message is merged the table holds one from each parent in it,   *)
(* afterwards its count is too low for another list.                       *)
Fresh ==
    IF merged = {}
    THEN /\ \A k \in Key : \A w : Maps(htc, k, w) <=> k \in arrived \ Late /\ w = Sent
         /\ htc.count = Cardinality(arrived) - Uncounted
    ELSE htc.count < Cardinality(parents)

(* The chains of the ids that are left are as put made them.               *)
Listed ==
    /\ polling = "poll" => ids = <<>>
    /\ \A n \in DOMAIN ids : Position(htc, ids[n]) # 0
    /\ \A n \in DOMAIN ids : \A k \in Key : \A w :
           Maps(htc, k, w) /\ Collide(k, ids[n]) => w = Sent
    /\ \A m, n \in DOMAIN ids : Collide(ids[m], ids[n]) => m = n

Covered ==
    /\ runs > 0 => Cardinality(Uncovered(merged)) <= Allowed
    /\ polling = "merge" => Cardinality(Uncovered(merged \cup Listing)) <= Allowed

IInv == Types /\ Putting /\ Full /\ Fresh /\ Listed /\ Covered
-----------------------------------------------------------------------------
LEMMA InboxFinite ==
    ASSUME NEW P \in SUBSET Key, NEW A \in SUBSET P
    PROVE  /\ IsFiniteSet(P) /\ Cardinality(P) \in Nat
           /\ Cardinality(A) \in Nat /\ Cardinality(A) <= Cardinality(P)
           /\ Cardinality(A) = Cardinality(P) => A = P
<1>1. IsFiniteSet(P)
    BY KeyAssumption, FS_Subset
<1> QED BY <1>1, FS_Subset, FS_CardinalityType

LEMMA SentValue == Sent \in Seq({"message"}) /\ Len(Sent) = 1
BY DEF Sent

LEMMA InboxStarts == Init => IInv
<1> SUFFICES ASSUME Init PROVE IInv
    OBVIOUS
<1>1. Types
    <2>1. WellFormed(htc, Seq({"message"}))
        BY NewTable DEF Init
    <2> QED BY <2>1 DEF Types, Init
<1>2. Putting
    BY DEF Putting, Init, Late
<1>3. Full
    BY DEF Full, Init
<1>4. Fresh
    <2>1. \A k \in Key : \A w : ~Maps(htc, k, w)
        BY <1>1, NewTable, MapsFound DEF Init, Types
    <2>2. htc.count = 0 /\ Cardinality(arrived) = 0
        BY NewTable, FS_EmptySet DEF Init
    <2> QED BY <2>1, <2>2 DEF Fresh, Init, Uncounted
<1>5. Listed
    BY DEF Listed, Init
<1>6. Covered
    BY DEF Covered, Init
<1> QED BY <1>1, <1>2, <1>3, <1>4, <1>5, <1>6 DEF IInv

(* Until every message is there nothing is listed and nothing merged.      *)
LEMMA ReceiveInv ==
    ASSUME IInv, NEW p \in Key, Receive(p)
    PROVE  IInv'
<1>1. p \in parents /\ p \notin arrived /\ stores = {} /\ putting = {}
    BY DEF IInv, Receive, Putting
<1>2. merged = {} /\ polling = "poll" /\ runs = 0
    BY <1>1 DEF IInv, Full, Types
<1>3. WellFormed(htc, Seq({"message"}))
    BY DEF IInv, Types
<1>4. WellFormed(htc', Seq({"message"}))
    BY <1>3, RoomKeeps DEF Receive
<1>5. htc'.count = htc.count
    BY <1>3, RoomKeeps DEF Receive
<1>6. \A k \in Key : \A w : Maps(htc', k, w) <=> Maps(htc, k, w)
    BY <1>3, RoomKeeps DEF Receive
<1>7. \A k \in Key : \A w : Maps(htc, k, w) <=> k \in arrived /\ w = Sent
    BY <1>1, <1>2 DEF IInv, Fresh, Late
<1>8. Late' = {p}
    BY DEF Receive, Late
<1>9. Types'
    BY <1>1, <1>4 DEF IInv, Types, Receive, choices
<1>10. Putting'
    <2>1. Position(htc', p) = 0
        BY <1>1, <1>4, <1>6, <1>7, MapsFound
    <2> QED BY <1>8, <2>1 DEF Putting, Receive
<1>11. Full'
    BY <1>2 DEF Full, Receive
<1>12. Fresh'
    <2>1. \A k \in Key : \A w : Maps(htc', k, w) <=> k \in (arrived \cup {p}) \ {p} /\ w = Sent
        BY <1>1, <1>6, <1>7
    <2>2. Cardinality(arrived \cup {p}) = Cardinality(arrived) + 1
        <3>1. IsFiniteSet(arrived)
            BY KeyAssumption, FS_Subset DEF IInv, Types
        <3> QED BY <1>1, <3>1, FS_AddElement
    <2>3. htc.count = Cardinality(arrived) /\ Cardinality(arrived) \in Nat
        BY <1>1, <1>2, InboxFinite DEF IInv, Fresh, Uncounted, Types
    <2> QED BY <1>2, <1>5, <1>8, <2>1, <2>2, <2>3 DEF Fresh, Receive, Uncounted
<1>13. Listed'
    BY <1>2 DEF IInv, Listed, Receive
<1>14. Covered'
    BY <1>2 DEF Covered, Receive
<1> QED BY <1>9, <1>10, <1>11, <1>12, <1>13, <1>14 DEF IInv

LEMMA LinkInv ==
    ASSUME IInv, Store("link")
    PROVE  IInv'
<1>1. PICK p \in arrived : putting = {p}
    BY DEF IInv, Putting, Store
<1>2. "link" \in stores /\ Late = {p} /\ p \in Key
    BY <1>1 DEF Store, Late, IInv, Types
<1>3. htc' = Link(htc, p, "message")
    BY <1>1 DEF Store
<1>4. WellFormed(htc, Seq({"message"})) /\ Position(htc, p) = 0
    BY <1>2 DEF IInv, Types, Putting
<1>5. WellFormed(htc', Seq({"message"}))
    <2> DEFINE V == Seq({"message"})
    <2>1. <<"message">> \in V /\ WellFormed(htc, V)
        BY <1>4
    <2> HIDE DEF V
    <2>2. WellFormed(Link(htc, p, "message"), V)
        BY <1>2, <1>4, <2>1, LinkKeeps
    <2> QED BY <1>3, <2>2 DEF V
<1>6. /\ Length(htc') = Length(htc) /\ htc'.count = htc.count
      /\ \A j \in Key : \A w : Maps(htc', j, w) <=> IF j = p THEN w = Sent ELSE Maps(htc, j, w)
    <2> DEFINE V == Seq({"message"})
    <2>1. <<"message">> \in V /\ WellFormed(htc, V) /\ WellFormed(Link(htc, p, "message"), V)
        BY <1>3, <1>4, <1>5
    <2> HIDE DEF V
    <2>2. Length(Link(htc, p, "message")) = Length(htc) /\ Link(htc, p, "message").count = htc.count
        BY <1>2, <1>4, <2>1, LinkKeeps
    <2>3. \A j \in Key : \A w : Maps(Link(htc, p, "message"), j, w) <=>
              IF j = p THEN w = <<"message">> ELSE Maps(htc, j, w)
        BY <1>2, <1>4, <2>1, LinkKeeps
    <2> QED BY <1>3, <2>2, <2>3 DEF Sent
<1>7. \A j, k : Collide(j, k)' <=> Collide(j, k)
    BY <1>6 DEF Collide
<1>8. Late' = {}
    BY DEF Store, Late
<1>9. Types'
    BY <1>5 DEF IInv, Types, Store, choices
<1>10. Putting'
    BY <1>1, <1>8 DEF IInv, Putting, Store, choices
<1>11. Full'
    BY DEF IInv, Full, Store, choices
<1>12. Fresh'
    <2>1. CASE merged = {}
        <3>1. \A k \in Key : \A w : Maps(htc', k, w) <=> k \in arrived /\ w = Sent
            BY <1>1, <1>2, <1>6, <2>1 DEF IInv, Fresh
        <3> QED BY <1>6, <1>8, <2>1, <3>1 DEF IInv, Fresh, Store, Uncounted, choices
    <2>2. CASE merged # {}
        BY <1>6, <2>2 DEF IInv, Fresh, Store, choices
    <2> QED BY <2>1, <2>2
<1>13. Listed'
    <2>1. ids' = ids /\ polling' = polling
        BY DEF Store
    <2>2. ASSUME NEW n \in DOMAIN ids PROVE Position(htc', ids[n]) # 0
        <3>1. ids[n] \in Key /\ Position(htc, ids[n]) # 0
            BY DEF IInv, Listed, Types
        <3>2. \E w : Maps(htc, ids[n], w)
            BY <1>4, <3>1, MapsFound
        <3>3. \E w : Maps(htc', ids[n], w)
            BY <1>6, <3>1, <3>2
        <3> QED BY <1>5, <3>1, <3>3, MapsFound
    <2>3. ASSUME NEW n \in DOMAIN ids, NEW k \in Key, NEW w, Maps(htc', k, w), Collide(k, ids[n])
          PROVE  w = Sent
        BY <1>6, <2>3 DEF IInv, Listed
    <2> QED BY <1>7, <2>1, <2>2, <2>3 DEF IInv, Listed
<1>14. Covered'
    <2>1. Uncovered(merged)' = Uncovered(merged)
        BY <1>7 DEF Uncovered, Store, choices
    <2>2. Uncovered(merged \cup Listing)' = Uncovered(merged \cup Listing)
        BY <1>7 DEF Uncovered, Listing, Store, choices
    <2> QED BY <2>1, <2>2 DEF IInv, Covered, Allowed, Store, choices
<1> QED BY <1>9, <1>10, <1>11, <1>12, <1>13, <1>14 DEF IInv

LEMMA CountInv ==
    ASSUME IInv, Store("count")
    PROVE  IInv'
<1>1. "count" \in stores /\ Late' = Late
    BY DEF Store, Late
<1>2. merged = {} /\ polling = "poll" /\ runs = 0
    BY <1>1 DEF IInv, Full, Types
<1>3. WellFormed(htc, Seq({"message"})) /\ htc' = Counted(htc)
    BY DEF IInv, Types, Store
<1>4. WellFormed(htc', Seq({"message"})) /\ htc'.table = htc.table /\ htc'.count = htc.count + 1
    BY <1>3, CountedKeeps
<1>5. \A k : Bucket(htc', k) = Bucket(htc, k)
    BY <1>4 DEF Bucket, Length
<1>6. Types'
    BY <1>4 DEF IInv, Types, Store, choices
<1>7. Putting'
    <2>1. \A p \in Late : Position(htc', p) = 0
        BY <1>5 DEF IInv, Putting, Position
    <2> QED BY <1>1, <2>1 DEF IInv, Putting, Store, choices
<1>8. Full'
    BY <1>2 DEF Full, Store
<1>9. Fresh'
    <2>1. \A k \in Key : \A w : Maps(htc', k, w) <=> Maps(htc, k, w)
        BY <1>5 DEF Maps
    <2>2. \A k \in Key : \A w : Maps(htc, k, w) <=> k \in arrived \ Late /\ w = Sent
        BY <1>2 DEF IInv, Fresh
    <2>3. htc.count = Cardinality(arrived) - 1 /\ Cardinality(arrived) \in Nat
        BY <1>1, <1>2, InboxFinite DEF IInv, Fresh, Uncounted, Types
    <2> QED BY <1>1, <1>2, <1>4, <2>1, <2>2, <2>3 DEF Fresh, Store, Uncounted
<1>10. Listed'
    BY <1>2 DEF IInv, Listed, Store
<1>11. Covered'
    BY <1>2 DEF Covered, Store
<1> QED BY <1>6, <1>7, <1>8, <1>9, <1>10, <1>11 DEF IInv

(* The list has an id in the bucket of every message in the table.         *)
LEMMA PollInv ==
    ASSUME IInv, Poll
    PROVE  IInv'
<1>1. /\ htc.count = Cardinality(parents) /\ polling' = "merge" /\ ids' = GetHashedID(htc)
      /\ UNCHANGED <<choices, arrived, putting, stores, htc, merged, runs>>
    BY DEF Poll
<1>2. merged = {}
    <2>1. Cardinality(parents) \in Nat
        BY InboxFinite DEF IInv, Types
    <2> QED BY <1>1, <2>1 DEF IInv, Fresh
<1>3. arrived = parents /\ "count" \notin stores
    <2>1. htc.count = Cardinality(arrived) - Uncounted
        BY <1>2 DEF IInv, Fresh
    <2>2. /\ Cardinality(parents) \in Nat /\ Cardinality(arrived) \in Nat
          /\ Cardinality(arrived) <= Cardinality(parents)
          /\ Cardinality(arrived) = Cardinality(parents) => arrived = parents
        BY InboxFinite DEF IInv, Types
    <2>3. Uncounted = 0 /\ Cardinality(arrived) = Cardinality(parents)
        BY <1>1, <2>1, <2>2 DEF Uncounted
    <2> QED BY <2>2, <2>3 DEF Uncounted
<1>4. WellFormed(htc, Seq({"message"}))
    BY DEF IInv, Types
<1>5. \A k \in Key : \A w : Maps(htc, k, w) <=> k \in parents \ Late /\ w = Sent
    BY <1>2, <1>3 DEF IInv, Fresh
<1>6. ids' \in Seq(Key)
    BY <1>1, <1>4, HashedIDs
<1>7. Types'
    BY <1>1, <1>6 DEF IInv, Types, choices
<1>8. Putting'
    BY <1>1 DEF IInv, Putting, Late, choices
<1>9. Full'
    BY <1>1, <1>3 DEF Full, choices
<1>10. Fresh'
    BY <1>1 DEF IInv, Fresh, Late, Uncounted, choices
<1>11. \A n \in DOMAIN ids' : /\ Bucket(htc, ids'[n]) # <<>>
                              /\ Bucket(htc, ids'[n])[1].key = ids'[n]
    BY <1>1, <1>4, HashedIDs
<1>12. \A k \in Key : Bucket(htc, k) # <<>> =>
           \E n \in DOMAIN ids' : ids'[n] = Bucket(htc, k)[1].key
    BY <1>1, <1>4, HashedIDs
<1>13. \A m, n \in DOMAIN ids' :
           Hash(ids'[m], Length(htc)) = Hash(ids'[n], Length(htc)) => m = n
    BY <1>1, <1>4, HashedIDs
<1>14. Listed'
    <2>1. ASSUME NEW n \in DOMAIN ids' PROVE Position(htc', ids'[n]) # 0
        <3>1. ids'[n] \in Key
            BY <1>6
        <3>2. Bucket(htc, ids'[n]) \in Seq(Node(Seq({"message"})))
            BY <1>4, <3>1, BucketOfKey DEF WellFormed
        <3>3. 1 \in DOMAIN Bucket(htc, ids'[n])
            BY <1>11, <3>2
        <3>4. Bucket(htc, ids'[n])[1].key = ids'[n]
            BY <1>11
        <3> QED BY <1>1, <1>4, <3>1, <3>3, <3>4, PositionFound DEF WellFormed
    <2>2. \A n \in DOMAIN ids' : \A k \in Key : \A w : Maps(htc', k, w) => w = Sent
        BY <1>1, <1>5
    <2>3. \A m, n \in DOMAIN ids' : Collide(ids[m], ids[n])' => m = n
        BY <1>1, <1>13 DEF Collide
    <2> QED BY <1>1, <2>1, <2>2, <2>3 DEF Listed
<1>15. Uncovered(merged \cup Listing)' \subseteq Late
    <2> SUFFICES ASSUME NEW p \in parents, p \notin Late
                 PROVE  \E q \in Listing' : Collide(p, q)'
        BY <1>1 DEF Uncovered, choices
    <2>1. p \in Key /\ Maps(htc, p, Sent)
        BY <1>5 DEF IInv, Types
    <2>2. PICK i \in DOMAIN Bucket(htc, p) : TRUE
        BY <2>1 DEF Maps
    <2>3. Bucket(htc, p) \in Seq(Node(Seq({"message"})))
        BY <1>4, <2>1, BucketOfKey DEF WellFormed
    <2>4. Bucket(htc, p) # <<>> /\ 1 \in DOMAIN Bucket(htc, p)
        BY <2>2, <2>3
    <2>5. PICK n \in DOMAIN ids' : ids'[n] = Bucket(htc, p)[1].key
        BY <1>12, <2>1, <2>4
    <2>6. Hash(ids'[n], Length(htc)) = Hash(p, Length(htc))
        BY <1>4, <2>1, <2>4, <2>5, BucketPlaced
    <2>7. Collide(p, ids[n])'
        BY <1>1, <2>6 DEF Collide
    <2>8. ids'[n] \in Listing'
        BY DEF Listing
    <2> QED BY <2>7, <2>8 DEF Collide
<1>16. IsFiniteSet(Late) /\ Cardinality(Late) \in Nat /\ Cardinality(Late) <= Allowed
    <2>1. CASE "link" \notin stores
        <3>1. Late = {}
            BY <2>1 DEF Late
        <3> QED BY <3>1, FS_EmptySet DEF Allowed
    <2>2. CASE "link" \in stores
        <3>1. PICK p : putting = {p}
            BY <2>2 DEF IInv, Putting
        <3>2. Late = {p} /\ Allowed = 1
            BY <1>3, <2>2, <3>1 DEF IInv, Types, Putting, Late, Allowed
        <3>3. IsFiniteSet({p}) /\ Cardinality({p}) = 1
            BY FS_Singleton
        <3> QED BY <3>2, <3>3
    <2> QED BY <2>1, <2>2
<1>17. Covered'
    <2>1. Allowed' = Allowed /\ Allowed \in Nat
        BY <1>1 DEF Allowed, choices
    <2>2. /\ Cardinality(Uncovered(merged \cup Listing)') \in Nat
          /\ Cardinality(Uncovered(merged \cup Listing)') <= Cardinality(Late)
        BY <1>15, <1>16, FS_Subset, FS_CardinalityType
    <2>3. Uncovered(merged)' = Uncovered(merged)
        BY <1>1 DEF Uncovered, Collide, choices
    <2> QED BY <1>1, <1>16, <2>1, <2>2, <2>3 DEF IInv, Covered
<1> QED BY <1>7, <1>8, <1>9, <1>10, <1>14, <1>17 DEF IInv

(* The message that is merged is in the chain of the id.                   *)
LEMMA UpdateLiteralMapInv ==
    ASSUME IInv, UpdateLiteralMap
    PROVE  IInv'
<1> DEFINE k == ids[1]
           q == Bucket(htc, k)[1].key
           V == Seq({"message"})
<1>1. /\ polling = "merge" /\ ids # <<>> /\ merged' = merged \cup {q} /\ ids' = Tail(ids)
      /\ htc' = GetValue(htc, k)
      /\ UNCHANGED <<choices, arrived, putting, stores, polling, runs>>
    BY DEF UpdateLiteralMap
<1>2. /\ ids \in Seq(Key) /\ ids' \in Seq(Key) /\ 1 \in DOMAIN ids /\ k \in Key
      /\ DOMAIN ids' = 1 .. Len(ids) - 1 /\ DOMAIN ids = 1 .. Len(ids)
      /\ \A n \in DOMAIN ids' : n + 1 \in DOMAIN ids /\ ids'[n] = ids[n + 1] /\ n + 1 # 1
    BY <1>1 DEF IInv, Types
<1>3. WellFormed(htc, V) /\ Position(htc, k) # 0
    BY <1>2 DEF IInv, Types, Listed
<1>4. 1 \in DOMAIN Bucket(htc, k)
    <2>1. Position(htc, k) \in DOMAIN Bucket(htc, k)
        BY <1>2, <1>3, PositionFound DEF WellFormed
    <2> QED BY <1>2, <1>3, <2>1, BucketOfKey DEF WellFormed
<1>5. q \in Key /\ Hash(q, Length(htc)) = Hash(k, Length(htc))
    BY <1>2, <1>3, <1>4, BucketPlaced
<1>6. Bucket(htc, k)[1].value = Sent
    <2>1. Bucket(htc, q) = Bucket(htc, k)
        BY <1>5 DEF Bucket
    <2>2. Bucket(htc, k)[1] \in Node(V)
        BY <1>2, <1>3, <1>4, BucketOfKey DEF WellFormed
    <2>3. Bucket(htc, k)[1] = [key |-> q, value |-> Bucket(htc, k)[1].value]
        BY <2>2 DEF Node
    <2>4. Maps(htc, q, Bucket(htc, k)[1].value)
        BY <1>4, <2>1, <2>3 DEF Maps
    <2> QED BY <1>2, <1>5, <2>4 DEF IInv, Listed, Collide
<1>7. Len(Bucket(htc, k)[1].value) = 1
    BY <1>6, SentValue
<1> HIDE DEF k, q
<1>8. WellFormed(htc', V) /\ Length(htc') = Length(htc) /\ htc'.count = htc.count - 1
    BY <1>1, <1>2, <1>3, <1>7, GetValueRemoves
<1>9. \A j \in Key : Hash(j, Length(htc)) # Hash(k, Length(htc)) => Bucket(htc', j) = Bucket(htc, j)
    BY <1>1, <1>2, <1>3, <1>7, GetValueRemoves
<1>10. \A j \in Key : Position(htc, j) = 0 => Position(htc', j) = 0
    BY <1>1, <1>2, <1>3, <1>7, GetValueRemoves
<1>11. \A i, j : Collide(i, j)' <=> Collide(i, j)
    BY <1>8 DEF Collide
<1>12. Late' = Late /\ Allowed' = Allowed
    BY <1>1 DEF Late, Allowed, choices
<1>13. Types'
    BY <1>1, <1>2, <1>5, <1>8 DEF IInv, Types, choices
<1>14. Putting'
    <2>1. \A p \in Late : p \in Key
        BY DEF IInv, Putting, Late, Types
    <2> QED BY <1>1, <1>10, <1>12, <2>1 DEF IInv, Putting, choices
<1>15. Full'
    BY <1>1 DEF IInv, Full, choices
<1>16. Fresh'
    <2>1. merged' # {} /\ parents' = parents
        BY <1>1 DEF choices
    <2>2. htc.count <= Cardinality(parents)
        <3>1. Cardinality(parents) \in Nat /\ arrived = parents /\ Uncounted = 0
            BY <1>1, InboxFinite DEF IInv, Full, Types, Uncounted
        <3>2. htc.count \in Int
            BY <1>3, TableShape DEF WellFormed
        <3> QED BY <3>1, <3>2 DEF IInv, Fresh
    <2>3. htc.count \in Int /\ Cardinality(parents) \in Nat
        BY <1>3, TableShape, InboxFinite DEF IInv, Types, WellFormed
    <2> QED BY <1>8, <2>1, <2>2, <2>3 DEF Fresh
<1>17. Listed'
    <2>1. \A n \in DOMAIN ids' : ~Collide(ids'[n], k) /\ ids'[n] \in Key
        BY <1>2 DEF IInv, Listed, k
    <2>2. \A n \in DOMAIN ids' : \A j \in Key : Collide(j, ids'[n]) => Bucket(htc', j) = Bucket(htc, j)
        BY <1>9, <2>1 DEF Collide
    <2>3. ASSUME NEW n \in DOMAIN ids' PROVE Position(htc', ids'[n]) # 0
        <3>1. Bucket(htc', ids'[n]) = Bucket(htc, ids'[n])
            BY <2>1, <2>2 DEF Collide
        <3>2. Position(htc, ids'[n]) # 0
            BY <1>2 DEF IInv, Listed
        <3> QED BY <3>1, <3>2 DEF Position
    <2>4. ASSUME NEW n \in DOMAIN ids', NEW j \in Key, NEW w, Maps(htc', j, w), Collide(j, ids'[n])
          PROVE  w = Sent
        <3>1. Maps(htc, j, w)
            BY <2>2, <2>4 DEF Maps
        <3> QED BY <1>2, <2>4, <3>1 DEF IInv, Listed
    <2>5. \A m, n \in DOMAIN ids' : Collide(ids'[m], ids'[n]) => m = n
        <3>1. \A m, n \in DOMAIN ids' : Collide(ids[m + 1], ids[n + 1]) => m + 1 = n + 1
            BY <1>2 DEF IInv, Listed
        <3> QED BY <1>2, <3>1
    <2> QED BY <1>1, <1>11, <2>3, <2>4, <2>5 DEF Listed
<1>18. Uncovered(merged \cup Listing)' = Uncovered(merged \cup Listing)
    <2>1. Listing = {k} \cup Listing'
        <3>1. \A n \in DOMAIN ids : n # 1 => n - 1 \in DOMAIN ids' /\ ids[n] = ids'[n - 1]
            BY <1>2
        <3> QED BY <1>2, <3>1 DEF Listing, k
    <2>2. \A p : Collide(p, q) <=> Collide(p, k)
        BY <1>5 DEF Collide
    <2> QED BY <1>1, <1>11, <2>1, <2>2 DEF Uncovered, choices
<1>19. Uncovered(merged)' \subseteq Uncovered(merged)
    BY <1>1, <1>11 DEF Uncovered, choices
<1>20. Covered'
    <2>1. Uncovered(merged) \in SUBSET parents /\ parents \in SUBSET Key
        BY DEF Uncovered, IInv, Types
    <2>2. IsFiniteSet(Uncovered(merged))
        BY <2>1, KeyAssumption, FS_Subset
    <2>3. /\ Cardinality(Uncovered(merged)') <= Cardinality(Uncovered(merged))
          /\ Cardinality(Uncovered(merged)) \in Nat /\ Cardinality(Uncovered(merged)') \in Nat
        BY <1>19, <2>2, FS_Subset, FS_CardinalityType
    <2>4. Allowed \in Nat
        BY DEF Allowed
    <2> QED BY <1>1, <1>12, <1>18, <2>3, <2>4 DEF IInv, Covered
<1> QED BY <1>13, <1>14, <1>15, <1>16, <1>17, <1>20 DEF IInv

LEMMA FindMinimalModelsInv ==
    ASSUME IInv, FindMinimalModels
    PROVE  IInv'
<1>1. /\ polling = "merge" /\ ids = <<>> /\ runs' = runs + 1 /\ polling' = "poll"
      /\ UNCHANGED <<choices, arrived, putting, stores, htc, ids, merged>>
    BY DEF FindMinimalModels
<1>2. Types'
    BY <1>1 DEF IInv, Types, choices
<1>3. Putting' /\ Full' /\ Fresh' /\ Listed'
    <2>1. Late' = Late /\ Uncounted' = Uncounted
        BY <1>1 DEF Late, Uncounted
    <2> QED BY <1>1, <2>1 DEF IInv, Putting, Full, Fresh, Listed, Collide, choices
<1>4. Covered'
    <2>1. Listing = {}
        BY <1>1 DEF Listing
    <2>2. merged \cup Listing = merged
        BY <2>1
    <2>3. Cardinality(Uncovered(merged)) <= Allowed
        BY <1>1, <2>2 DEF IInv, Covered
    <2>4. Uncovered(merged)' = Uncovered(merged) /\ Allowed' = Allowed
        BY <1>1 DEF Uncovered, Collide, Allowed, choices
    <2> QED BY <1>1, <2>3, <2>4 DEF Covered
<1> QED BY <1>2, <1>3, <1>4 DEF IInv

LEMMA InboxInv == IInv /\ [Next]_inboxVars => IInv'
<1> SUFFICES ASSUME IInv, [Next]_inboxVars PROVE IInv'
    OBVIOUS
<1>1. ASSUME NEW p \in Key, Receive(p) PROVE IInv'
    BY <1>1, ReceiveInv
<1>2. ASSUME NEW s \in {"link", "count"}, Store(s) PROVE IInv'
    BY <1>2, LinkInv, CountInv
<1>3. CASE Poll
    BY <1>3, PollInv
<1>4. CASE UpdateLiteralMap
    BY <1>4, UpdateLiteralMapInv
<1>5. CASE FindMinimalModels
    BY <1>5, FindMinimalModelsInv
<1>6. CASE UNCHANGED inboxVars
    BY <1>6 DEF inboxVars, choices, IInv, Types, Putting, Late, Full, Fresh, Uncounted,
                Listed, Covered, Uncovered, Listing, Allowed, Collide
<1> QED BY <1>1, <1>2, <1>3, <1>4, <1>5, <1>6 DEF Next

(* A run of the client (ListenToServer of Socket/Client.java) misses the   *)
(* messages getHashedID hides behind those it merged, and no other, except *)
(* one whose count is seen before its node: for any names, any hash codes  *)
(* and any length of a new table, whatever the two threads interleave.     *)
THEOREM HiddenMessages == Spec => []MissedOnlyIfHidden
<1>1. IInv => MissedOnlyIfHidden
    <2>1. {p \in parents \ merged : \A q \in merged : ~Collide(p, q)} = Uncovered(merged)
        BY DEF Uncovered, Collide
    <2> QED BY <2>1 DEF IInv, Covered, MissedOnlyIfHidden, Allowed
<1> QED BY <1>1, InboxStarts, InboxInv, PTL DEF Spec
=============================================================================
