--------------------------- MODULE MailboxProofs ----------------------------
(***************************************************************************)
(* As a client uses it the hash table implements a mailbox: for any names, *)
(* any hash codes and any initial length.                                  *)
(***************************************************************************)
EXTENDS HashTableUse, HashTableProofs

(* The values in the table: a node goes with its last message.             *)
Waiting == Seq(Message) \ {<<>>}

BoxOf(h) ==
    [k \in Key |-> IF Position(h, k) = 0 THEN <<>> ELSE Bucket(h, k)[Position(h, k)].value]

(* The keys are in the chains of their buckets, once each, with at least   *)
(* one message, and count is their number.                                 *)
UInv == /\ WellFormed(htc, Waiting)
        /\ htc.count = Cardinality(Stored(htc))

LEMMA BoxMaps ==
    ASSUME NEW h, WellFormed(h, Waiting)
    PROVE  /\ \A k \in Key : \A w : Maps(h, k, w) <=> w = BoxOf(h)[k] /\ w # <<>>
           /\ \A k \in Key : BoxOf(h)[k] \in Seq(Message)
           /\ \A k \in Key : Position(h, k) # 0 <=> BoxOf(h)[k] # <<>>
           /\ Stored(h) = {k \in Key : BoxOf(h)[k] # <<>>}
<1>1. ASSUME NEW k \in Key
      PROVE  /\ \A w : Maps(h, k, w) <=> w = BoxOf(h)[k] /\ w # <<>>
             /\ BoxOf(h)[k] \in Seq(Message)
             /\ Position(h, k) # 0 <=> BoxOf(h)[k] # <<>>
    <2>1. CASE Position(h, k) = 0
        <3>1. BoxOf(h)[k] = <<>>
            BY <2>1 DEF BoxOf
        <3>2. \A w : ~Maps(h, k, w)
            BY <2>1, MapsFound
        <3> QED BY <2>1, <3>1, <3>2
    <2>2. CASE Position(h, k) # 0
        <3>1. BoxOf(h)[k] = Bucket(h, k)[Position(h, k)].value
            BY <2>2 DEF BoxOf
        <3>2. Maps(h, k, BoxOf(h)[k])
            BY <2>2, <3>1, MapsFound
        <3>3. \A w : Maps(h, k, w) => w = BoxOf(h)[k] /\ w \in Waiting
            BY <3>1, MapsFound
        <3> QED BY <2>2, <3>2, <3>3 DEF Waiting
    <2> QED BY <2>1, <2>2
<1> QED BY <1>1 DEF Stored

(* Two boxes that differ in one sender.                                    *)
LEMMA OneSender ==
    ASSUME NEW h, NEW g, WellFormed(h, Waiting), WellFormed(g, Waiting),
           NEW k \in Key, NEW q \in Seq(Message),
           \A j \in Key : \A w : Maps(g, j, w) <=>
               IF j # k THEN Maps(h, j, w) ELSE w = q /\ w # <<>>
    PROVE  /\ BoxOf(g) = [BoxOf(h) EXCEPT ![k] = q]
           /\ Stored(g) = IF q = <<>> THEN Stored(h) \ {k} ELSE Stored(h) \cup {k}
<1>1. \A j \in Key : BoxOf(g)[j] = IF j = k THEN q ELSE BoxOf(h)[j]
    <2> TAKE j \in Key
    <2>1. \A w : Maps(h, j, w) <=> w = BoxOf(h)[j] /\ w # <<>>
        BY BoxMaps
    <2>2. \A w : Maps(g, j, w) <=> w = BoxOf(g)[j] /\ w # <<>>
        BY BoxMaps
    <2> DEFINE x == BoxOf(g)[j]
               y == IF j = k THEN q ELSE BoxOf(h)[j]
    <2>3. \A w : w = x /\ w # <<>> <=> w = y /\ w # <<>>
        BY <2>1, <2>2
    <2> HIDE DEF x, y
    <2>4. x = y
        <3>1. x # <<>> => x = y
            BY <2>3
        <3>2. y # <<>> => y = x
            BY <2>3
        <3> QED BY <3>1, <3>2
    <2> QED BY <2>4 DEF x, y
<1>2. BoxOf(g) = [BoxOf(h) EXCEPT ![k] = q]
    BY <1>1 DEF BoxOf
<1>3. /\ Stored(h) = {j \in Key : BoxOf(h)[j] # <<>>}
      /\ Stored(g) = {j \in Key : BoxOf(g)[j] # <<>>}
    BY BoxMaps
<1>4. Stored(g) = IF q = <<>> THEN Stored(h) \ {k} ELSE Stored(h) \cup {k}
    BY <1>1, <1>3
<1> QED BY <1>2, <1>4

LEMMA StoredFinite ==
    ASSUME NEW h
    PROVE  IsFiniteSet(Stored(h)) /\ Cardinality(Stored(h)) \in Nat
<1>1. IsFiniteSet(Stored(h))
    BY KeyAssumption, FS_Subset DEF Stored
<1> QED BY <1>1, FS_CardinalityType
-----------------------------------------------------------------------------
(* A message that is put is the last of its sender's.                      *)
LEMMA PutDelivers ==
    ASSUME UInv, NEW k \in Key, NEW m \in Message, htc' = Put(htc, k, m)
    PROVE  /\ UInv'
           /\ BoxOf(htc') = [BoxOf(htc) EXCEPT ![k] = Append(@, m)]
<1> DEFINE g == Put(htc, k, m)
           q == Append(BoxOf(htc)[k], m)
<1>1. WellFormed(htc, Waiting) /\ htc.count = Cardinality(Stored(htc))
    BY DEF UInv
<1>2. <<m>> \in Waiting /\ \A v \in Waiting : Append(v, m) \in Waiting
    BY DEF Waiting
<1>3. WellFormed(g, Waiting)
    BY <1>1, <1>2, PutKeeps
<1>4. g.count = IF Position(htc, k) # 0 THEN htc.count ELSE htc.count + 1
    BY <1>1, <1>2, <1>3, PutKeeps
<1>5. \A j \in Key : \A w : Maps(g, j, w) <=>
          IF j # k THEN Maps(htc, j, w)
          ELSE IF Position(htc, k) = 0 THEN w = <<m>>
          ELSE w = Append(Bucket(htc, k)[Position(htc, k)].value, m)
    BY <1>1, <1>2, <1>3, PutKeeps
<1>6. q = IF Position(htc, k) = 0 THEN <<m>>
          ELSE Append(Bucket(htc, k)[Position(htc, k)].value, m)
    <2>1. Append(<<>>, m) = <<m>>
        OBVIOUS
    <2>2. BoxOf(htc)[k] = IF Position(htc, k) = 0 THEN <<>>
                          ELSE Bucket(htc, k)[Position(htc, k)].value
        BY DEF BoxOf
    <2> QED BY <2>1, <2>2
<1>7. q \in Seq(Message) /\ q # <<>>
    <2>1. BoxOf(htc)[k] \in Seq(Message)
        BY <1>1, BoxMaps
    <2> QED BY <2>1
<1> HIDE DEF q, g
<1>8. \A j \in Key : \A w : Maps(g, j, w) <=>
          IF j # k THEN Maps(htc, j, w) ELSE w = q /\ w # <<>>
    BY <1>5, <1>6, <1>7
<1>9. /\ BoxOf(g) = [BoxOf(htc) EXCEPT ![k] = q]
      /\ Stored(g) = Stored(htc) \cup {k}
    BY <1>1, <1>3, <1>7, <1>8, OneSender
<1>10. g.count = Cardinality(Stored(g))
    <2>1. k \in Stored(htc) <=> Position(htc, k) # 0
        BY DEF Stored
    <2> QED BY <1>1, <1>4, <1>9, <2>1, StoredFinite, FS_AddElement
<1>11. htc' = g
    BY DEF g
<1> QED BY <1>3, <1>9, <1>10, <1>11 DEF UInv, q

(* A message that is taken is the first of its sender's.                   *)
LEMMA GetValueTakes ==
    ASSUME UInv, NEW k \in Key, DoGetValue(k)
    PROVE  /\ UInv'
           /\ BoxOf(htc)[k] # <<>>
           /\ BoxOf(htc') = [BoxOf(htc) EXCEPT ![k] = Tail(@)]
<1> DEFINE g == GetValue(htc, k)
           v == Bucket(htc, k)[1].value
<1>1. WellFormed(htc, Waiting) /\ htc.count = Cardinality(Stored(htc))
    BY DEF UInv
<1>2. Bucket(htc, k) # <<>> /\ Bucket(htc, k)[1].key = k
    <2>1. PICK i \in 1 .. Len(GetHashedID(htc)) : GetHashedID(htc)[i] = k
        BY DEF DoGetValue, Contains
    <2>2. GetHashedID(htc) \in Seq(Key)
        BY <1>1, HashedIDs
    <2>3. i \in DOMAIN GetHashedID(htc)
        BY <2>1, <2>2
    <2> QED BY <1>1, <2>1, <2>2, <2>3, HashedIDs
<1>3. /\ Position(htc, k) = 1
      /\ v \in Seq(Message) \ {<<>>}
      /\ WellFormed(g, Waiting)
      /\ g.count = IF Tail(v) = <<>> THEN htc.count - 1 ELSE htc.count
      /\ \A j \in Key : \A w : Maps(g, j, w) <=>
             IF j # k THEN Maps(htc, j, w) ELSE w = Tail(v) /\ w # <<>>
    BY <1>1, <1>2, GetValueKeeps DEF Waiting
<1>4. BoxOf(htc)[k] = v
    BY <1>3 DEF BoxOf
<1>5. Tail(v) \in Seq(Message)
    BY <1>3
<1> HIDE DEF v, g
<1>6. /\ BoxOf(g) = [BoxOf(htc) EXCEPT ![k] = Tail(v)]
      /\ Stored(g) = IF Tail(v) = <<>> THEN Stored(htc) \ {k} ELSE Stored(htc) \cup {k}
    <2> DEFINE q == Tail(v)
    <2>1. q \in Seq(Message)
        BY <1>5
    <2>2. \A j \in Key : \A w : Maps(g, j, w) <=>
              IF j # k THEN Maps(htc, j, w) ELSE w = q /\ w # <<>>
        BY <1>3
    <2> HIDE DEF q
    <2>3. /\ BoxOf(g) = [BoxOf(htc) EXCEPT ![k] = q]
          /\ Stored(g) = IF q = <<>> THEN Stored(htc) \ {k} ELSE Stored(htc) \cup {k}
        BY <1>1, <1>3, <2>1, <2>2, OneSender
    <2> QED BY <2>3 DEF q
<1>7. k \in Stored(htc)
    BY <1>3 DEF Stored
<1>8. g.count = Cardinality(Stored(g))
    <2>1. CASE Tail(v) = <<>>
        BY <1>1, <1>3, <1>6, <1>7, <2>1, StoredFinite, FS_RemoveElement
    <2>2. CASE Tail(v) # <<>>
        <3>1. Stored(g) = Stored(htc)
            BY <1>6, <1>7, <2>2
        <3> QED BY <1>1, <1>3, <2>2, <3>1
    <2> QED BY <2>1, <2>2
<1>9. htc' = g
    BY DEF DoGetValue, g
<1> QED BY <1>3, <1>4, <1>6, <1>8, <1>9 DEF UInv

LEMMA SameCardinality ==
    ASSUME NEW S
    PROVE  AbstractMailbox!Cardinality(S) = Cardinality(S)
BY DEF Cardinality, AbstractMailbox!Cardinality

LEMMA InitUInv == Init => UInv /\ AbstractMailbox!Init
<1> SUFFICES ASSUME Init PROVE UInv /\ AbstractMailbox!Init
    OBVIOUS
<1>1. /\ WellFormed(htc, Waiting) /\ htc.count = 0
      /\ \A k \in Key : Position(htc, k) = 0
    BY NewTable DEF Init
<1>2. Stored(htc) = {}
    BY <1>1 DEF Stored
<1>3. UInv
    BY <1>1, <1>2, FS_EmptySet DEF UInv
<1>4. Box = [s \in Key |-> <<>>]
    BY <1>1 DEF Box, MessagesFrom
<1> QED BY <1>1, <1>3, <1>4 DEF AbstractMailbox!Init

(* Every call is a step of the mailbox.                                    *)
LEMMA MailboxStep ==
    UInv /\ [Next]_htc => UInv' /\ [AbstractMailbox!Next]_<<Box, htc.count>>
<1> SUFFICES ASSUME UInv, [Next]_htc
             PROVE  UInv' /\ [AbstractMailbox!Next]_<<Box, htc.count>>
    OBVIOUS
<1>1. Box = BoxOf(htc) /\ Box' = BoxOf(htc')
    BY DEF Box, MessagesFrom, BoxOf
<1>2. UInv' => htc'.count = AbstractMailbox!Waiting(Box')
    <2> SUFFICES ASSUME UInv' PROVE htc'.count = AbstractMailbox!Waiting(Box')
        OBVIOUS
    <2>1. WellFormed(htc', Waiting) /\ htc'.count = Cardinality(Stored(htc'))
        BY DEF UInv, Waiting
    <2>2. Stored(htc') = {k \in Key : Box'[k] # <<>>}
        BY <1>1, <2>1, BoxMaps
    <2> QED BY <2>1, <2>2, SameCardinality DEF AbstractMailbox!Waiting
<1>3. ASSUME NEW k \in Key, NEW m \in Message, DoPut(k, m)
      PROVE  UInv' /\ AbstractMailbox!Next
    <2>1. UInv' /\ Box' = [Box EXCEPT ![k] = Append(@, m)]
        BY <1>1, <1>3, PutDelivers DEF DoPut
    <2>2. AbstractMailbox!Deliver(k, m)
        BY <1>2, <2>1 DEF AbstractMailbox!Deliver
    <2> QED BY <2>1, <2>2 DEF AbstractMailbox!Next
<1>4. ASSUME NEW k \in Key, DoGetValue(k)
      PROVE  UInv' /\ AbstractMailbox!Next
    <2>1. UInv' /\ Box[k] # <<>> /\ Box' = [Box EXCEPT ![k] = Tail(@)]
        BY <1>1, <1>4, GetValueTakes
    <2>2. AbstractMailbox!Take(k)
        BY <1>2, <2>1 DEF AbstractMailbox!Take
    <2> QED BY <2>1, <2>2 DEF AbstractMailbox!Next
<1>5. CASE UNCHANGED htc
    BY <1>1, <1>5 DEF UInv
<1> QED BY <1>3, <1>4, <1>5 DEF Next

(* HashTable as the client uses it loses, duplicates and reorders no       *)
(* message of a sender, through every collision and every resize, and      *)
(* size() is the number of senders that have one waiting.                  *)
THEOREM TableIsMailbox == Spec => ImplementsMailbox
<1> QED BY InitUInv, MailboxStep, PTL DEF Spec, ImplementsMailbox, AbstractMailbox!Spec
=============================================================================
