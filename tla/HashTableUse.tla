---------------------------- MODULE HashTableUse ----------------------------
(***************************************************************************)
(* The hash table under sequences of the calls a client makes: put for an  *)
(* incoming message, getValue for a key getHashedID has listed.            *)
(***************************************************************************)
EXTENDS HashTable

CONSTANTS Message,
          MaxValue      \* bound: messages of one sender in the table

VARIABLE htc

Init == htc = EmptyTable

(* ListenFromServer: htc.put(msg).                                         *)
DoPut(k, m) ==
    /\ Position(htc, k) # 0 => Len(Bucket(htc, k)[Position(htc, k)].value) < MaxValue
    /\ htc' = Put(htc, k, m)

(* ListenToServer: htc.getValue(pid) for a pid of getHashedID.             *)
DoGetValue(k) ==
    /\ Contains(GetHashedID(htc), k)
    /\ htc' = GetValue(htc, k)

Next == \E k \in Key : DoGetValue(k) \/ \E m \in Message : DoPut(k, m)

Spec == Init /\ [][Next]_htc
-----------------------------------------------------------------------------

MessagesFrom(k) ==
    IF Position(htc, k) = 0 THEN <<>> ELSE Bucket(htc, k)[Position(htc, k)].value

Box == [k \in Key |-> MessagesFrom(k)]

AbstractMailbox == INSTANCE Mailbox WITH
    Sender  <- Key,
    box     <- Box,
    waiting <- htc.count

(* As a client uses it the table is a mailbox: no message is lost,         *)
(* duplicated or reordered, by a resize or by a collision, and count is    *)
(* the number of senders with a message waiting.                           *)
ImplementsMailbox == AbstractMailbox!Spec
=============================================================================
