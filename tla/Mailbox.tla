------------------------------ MODULE Mailbox -------------------------------
(***************************************************************************)
(* What a client wants from its hash table: one queue of messages per      *)
(* sender, and the number of senders with a message waiting.               *)
(***************************************************************************)
EXTENDS Integers, Sequences, FiniteSets

CONSTANTS Sender, Message

VARIABLES box,     \* sender -> its messages, oldest first
          waiting  \* how many senders have one

TypeOK == box \in [Sender -> Seq(Message)] /\ waiting \in 0 .. Cardinality(Sender)

Init == box = [s \in Sender |-> <<>>] /\ waiting = 0

Waiting(b) == Cardinality({s \in Sender : b[s] # <<>>})

Deliver(s, m) ==
    /\ box' = [box EXCEPT ![s] = Append(@, m)]
    /\ waiting' = Waiting(box')

Take(s) ==
    /\ box[s] # <<>>
    /\ box' = [box EXCEPT ![s] = Tail(@)]
    /\ waiting' = Waiting(box')

Next == \E s \in Sender : Take(s) \/ \E m \in Message : Deliver(s, m)

Spec == Init /\ [][Next]_<<box, waiting>>
=============================================================================
