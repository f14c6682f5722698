-------------------------- MODULE DistributedProofs --------------------------
(***************************************************************************)
(* What the server delivers and whom it keeps registered, for any number   *)
(* of connections, names and messages, with and without overlapping calls  *)
(* of the registry.  Then a run of the program: every client computes with *)
(* the values of all its ancestors, for every number of clients, every     *)
(* acyclic super graph and every order of the steps, if no two parents of  *)
(* a vertex share a bucket of a new table.                                 *)
(***************************************************************************)
EXTENDS Distributed, HashTableProofs

(* The accept loop handles a connection outside accept() and only there.   *)
Handling == cur = NoSession <=> acc = "accept"

TInv == TypeOK /\ Handling
-----------------------------------------------------------------------------
(* The queues.                                                             *)
LEMMA AppendSeq ==
    ASSUME NEW S, NEW q \in Seq(S), NEW x \in S
    PROVE  /\ Append(q, x) \in Seq(S)
           /\ Len(Append(q, x)) = Len(q) + 1
           /\ \A j \in 1 .. Len(q) : Append(q, x)[j] = q[j]
           /\ Append(q, x)[Len(q) + 1] = x
    OBVIOUS

LEMMA TailSeq ==
    ASSUME NEW S, NEW q \in Seq(S), q # <<>>
    PROVE  /\ Tail(q) \in Seq(S)
           /\ Len(q) \in Nat /\ Len(q) > 0
           /\ Len(Tail(q)) = Len(q) - 1
           /\ \A j \in 1 .. Len(q) - 1 : Tail(q)[j] = q[j + 1]
           /\ Head(q) = q[1]
           /\ Head(q) \in S
    OBVIOUS

LEMMA SeqMonotone ==
    ASSUME NEW S, NEW T, S \subseteq T, NEW q \in Seq(S)
    PROVE  q \in Seq(T)
    OBVIOUS

(* The steps, one per action.                                              *)
LEMMA Steps ==
    ASSUME Next
    PROVE  \/ Accept \/ ReadUsername \/ PutEnd \/ StartThread
           \/ \E b \in BOOLEAN : ReadFails(b)
           \/ \E s \in Session : \/ Forward(s) \/ ReadEnds(s) \/ RemoveUsername(s)
                                 \/ Connect(s) \/ Login(s) \/ Leave(s)
                                 \/ \E n \in Name, b \in Body : Send(s, n, b)
    BY DEF Next, Accepting, Serving
-----------------------------------------------------------------------------
LEMMA InitTInv == Init => TInv
<1> SUFFICES ASSUME Init PROVE TInv
    OBVIOUS
<1>1. <<>> \in Seq(connected) /\ <<>> \in Seq(Message)
    OBVIOUS
<1>2. TypeOK
    BY <1>1 DEF Init, TypeOK
<1>3. Handling
    BY DEF Init, Handling
<1> QED BY <1>2, <1>3 DEF TInv

LEMMA ConnectTInv ==
    ASSUME TInv, NEW s \in Session, Connect(s)
    PROVE  TInv'
<1>1. /\ connected \subseteq connected' /\ connected' \subseteq Session
      /\ s \in connected'
    BY DEF TInv, TypeOK, Connect
<1>2. backlog' \in Seq(connected')
    <2>1. backlog \in Seq(connected')
        BY <1>1, SeqMonotone DEF TInv, TypeOK
    <2> QED BY <1>1, <2>1, AppendSeq DEF Connect
<1>3. al' \in [Name \cup {NoName} -> connected' \cup {NoSession}]
    BY <1>1 DEF TInv, TypeOK, Connect
<1> QED BY <1>1, <1>2, <1>3 DEF TInv, TypeOK, Handling, Connect

LEMMA SendTInv ==
    ASSUME TInv, NEW s \in Session, NEW n \in Name, NEW b \in Body, Send(s, n, b)
    PROVE  TInv'
<1>1. sent' \in [Session -> Nat]
    BY DEF TInv, TypeOK, Send
<1>2. [to |-> n, from |-> s, n |-> sent'[s], body |-> b] \in Message
    BY <1>1 DEF Message
<1>3. toServer' \in [Session -> Seq(Message)]
    BY <1>2, AppendSeq DEF TInv, TypeOK, Send
<1> QED BY <1>1, <1>3 DEF TInv, TypeOK, Handling, Send, acceptVars

LEMMA BroadcastTypes ==
    ASSUME TInv, NEW m \in Message, Broadcast(m)
    PROVE  toClient' \in [Session -> Seq(Message)] /\ dropped' \subseteq Message
<1>1. PICK c \in Lookup(m.to) :
          IF c = NoSession
          THEN dropped' = dropped \cup {m} /\ UNCHANGED toClient
          ELSE toClient' = WriteMsg(c, m) /\ UNCHANGED dropped
    BY DEF Broadcast
<1>2. m.to \in Name
    BY DEF Message
<1>3. CASE c = NoSession
    BY <1>1, <1>3 DEF TInv, TypeOK
<1>4. CASE c # NoSession
    <2>1. c \in Session
        BY <1>2, <1>4 DEF Lookup, TInv, TypeOK
    <2>2. Append(toClient[c], m) \in Seq(Message)
        BY <2>1, AppendSeq DEF TInv, TypeOK
    <2> QED BY <1>1, <1>4, <2>1, <2>2 DEF WriteMsg, TInv, TypeOK
<1> QED BY <1>3, <1>4

LEMMA ForwardTInv ==
    ASSUME TInv, NEW s \in Session, Forward(s)
    PROVE  TInv'
<1>1. toServer[s] \in Seq(Message) /\ toServer[s] # <<>>
    BY DEF TInv, TypeOK, Forward
<1>2. toServer' \in [Session -> Seq(Message)]
    BY <1>1, TailSeq DEF TInv, TypeOK, Forward
<1>3. toClient' \in [Session -> Seq(Message)] /\ dropped' \subseteq Message
    BY <1>1, TailSeq, BroadcastTypes DEF Forward
<1> QED BY <1>2, <1>3
        DEF TInv, TypeOK, Handling, Forward, clientVars, acceptVars

LEMMA StepTInv == TInv /\ [Next]_serverVars => TInv'
<1> SUFFICES ASSUME TInv, [Next]_serverVars PROVE TInv'
    OBVIOUS
<1>1. CASE Accept
    <2>1. Tail(backlog) \in Seq(connected) /\ Head(backlog) \in connected
        BY <1>1, TailSeq DEF TInv, TypeOK, Accept
    <2>2. Head(backlog) # NoSession
        BY <2>1, NullAssumption DEF TInv, TypeOK
    <2> QED BY <1>1, <2>1, <2>2 DEF TInv, TypeOK, Handling, Accept, clientVars
<1>2. CASE ReadUsername
    BY <1>2 DEF TInv, TypeOK, Handling, ReadUsername, clientVars
<1>3. ASSUME NEW b \in BOOLEAN, ReadFails(b) PROVE TInv'
    BY <1>3 DEF TInv, TypeOK, Handling, ReadFails, clientVars
<1>4. CASE PutEnd
    <2>1. cur \in connected
        BY <1>4 DEF TInv, TypeOK, Handling, PutEnd
    <2>2. al' \in [Name \cup {NoName} -> connected \cup {NoSession}]
        BY <1>4, <2>1 DEF TInv, TypeOK, PutEnd
    <2> QED BY <1>4, <2>2 DEF TInv, TypeOK, Handling, PutEnd, clientVars
<1>5. CASE StartThread
    <2>1. cur \in connected
        BY <1>5 DEF TInv, TypeOK, Handling, StartThread
    <2> QED BY <1>5, <2>1 DEF TInv, TypeOK, Handling, StartThread, clientVars
<1>6. ASSUME NEW s \in Session, Forward(s) PROVE TInv'
    BY <1>6, ForwardTInv
<1>7. ASSUME NEW s \in Session, ReadEnds(s) PROVE TInv'
    BY <1>7 DEF TInv, TypeOK, Handling, ReadEnds, clientVars, acceptVars
<1>8. ASSUME NEW s \in Session, RemoveUsername(s) PROVE TInv'
    <2>1. s \in connected
        BY <1>8 DEF TInv, TypeOK, RemoveUsername
    <2>2. al' \in [Name \cup {NoName} -> connected \cup {NoSession}]
        BY <1>8 DEF TInv, TypeOK, RemoveUsername
    <2>3. touched' \in BOOLEAN /\ stale' \subseteq connected
        BY <1>8, <2>1 DEF TInv, TypeOK, RemoveUsername
    <2> QED BY <1>8, <2>1, <2>2, <2>3
            DEF TInv, TypeOK, Handling, RemoveUsername, clientVars, acceptVars
<1>9. ASSUME NEW s \in Session, Connect(s) PROVE TInv'
    BY <1>9, ConnectTInv
<1>10. ASSUME NEW s \in Session, Login(s) PROVE TInv'
    BY <1>10 DEF TInv, TypeOK, Handling, Login, acceptVars
<1>11. ASSUME NEW s \in Session, Leave(s) PROVE TInv'
    BY <1>11 DEF TInv, TypeOK, Handling, Leave, acceptVars
<1>12. ASSUME NEW s \in Session, NEW n \in Name, NEW b \in Body, Send(s, n, b)
       PROVE  TInv'
    BY <1>12, SendTInv
<1>13. CASE UNCHANGED serverVars
    BY <1>13 DEF TInv, TypeOK, Handling, serverVars, clientVars, acceptVars
<1> QED BY <1>1, <1>2, <1>3, <1>4, <1>5, <1>6, <1>7, <1>8, <1>9, <1>10,
           <1>11, <1>12, <1>13, Steps

(* The state of the server and of its clients keeps its type.              *)
THEOREM TypeCorrect == Spec => []TypeOK
<1>1. TInv => TypeOK
    BY DEF TInv
<1> QED BY <1>1, InitTInv, StepTInv, PTL DEF Spec
-----------------------------------------------------------------------------
(* Whatever is registered under a name logged in with it.                  *)
NamesMatch == \A n \in Name : al[n] # NoSession => NameOf[al[n]] = n

AInv == TInv /\ NamesMatch /\ AddressedOnly

(* A step that leaves both the registry and what was delivered alone.      *)
LEMMA AddressedKept ==
    ASSUME AInv, UNCHANGED <<al, toClient>>
    PROVE  NamesMatch' /\ AddressedOnly'
    BY DEF AInv, NamesMatch, AddressedOnly

LEMMA ForwardAddressed ==
    ASSUME AInv, NEW s \in Session, Forward(s)
    PROVE  NamesMatch' /\ AddressedOnly'
<1> DEFINE m == Head(toServer[s])
<1>1. m \in Message /\ m.to \in Name
    <2>1. toServer[s] \in Seq(Message) /\ toServer[s] # <<>>
        BY DEF AInv, TInv, TypeOK, Forward
    <2>2. m \in Message
        BY <2>1, TailSeq
    <2> QED BY <2>2 DEF Message
<1>2. PICK c \in Lookup(m.to) :
          IF c = NoSession
          THEN dropped' = dropped \cup {m} /\ UNCHANGED toClient
          ELSE toClient' = WriteMsg(c, m) /\ UNCHANGED dropped
    BY DEF Broadcast, Forward
<1>3. NamesMatch'
    BY DEF AInv, NamesMatch, Forward
<1>4. CASE toClient' = toClient
    BY <1>3, <1>4 DEF AInv, AddressedOnly
<1>5. CASE toClient' # toClient
    <2>1. c \in Session /\ NameOf[c] = m.to
        BY <1>1, <1>2, <1>5 DEF Lookup, AInv, TInv, TypeOK, NamesMatch
    <2>2. toClient' = [toClient EXCEPT ![c] = Append(@, m)]
        BY <1>2, <1>5 DEF WriteMsg
    <2> SUFFICES ASSUME NEW t \in Session, NEW j \in 1 .. Len(toClient'[t])
                 PROVE  toClient'[t][j].to = NameOf[t]
        BY <1>3 DEF AddressedOnly
    <2>3. toClient[t] \in Seq(Message)
        BY DEF AInv, TInv, TypeOK
    <2>4. CASE t = c
        <3>1. toClient'[t] = Append(toClient[t], m)
            BY <2>2, <2>4 DEF AInv, TInv, TypeOK
        <3>2. j \in 1 .. Len(toClient[t]) \/ j = Len(toClient[t]) + 1
            BY <1>1, <2>3, <3>1, AppendSeq
        <3> QED BY <1>1, <2>1, <2>3, <2>4, <3>1, <3>2, AppendSeq
                DEF AInv, AddressedOnly
    <2>5. CASE t # c
        BY <2>2, <2>5 DEF AInv, TInv, TypeOK, AddressedOnly
    <2> QED BY <2>4, <2>5
<1> QED BY <1>4, <1>5

LEMMA InitAInv == Init => AInv
<1> SUFFICES ASSUME Init PROVE AInv
    OBVIOUS
<1>1. NamesMatch /\ AddressedOnly
    BY DEF Init, NamesMatch, AddressedOnly
<1> QED BY <1>1, InitTInv DEF AInv

LEMMA StepAInv == AInv /\ [Next]_serverVars => AInv'
<1> SUFFICES ASSUME AInv, [Next]_serverVars PROVE NamesMatch' /\ AddressedOnly'
    BY StepTInv DEF AInv
<1>1. CASE UNCHANGED <<al, toClient>>
    BY <1>1, AddressedKept
<1>2. CASE PutEnd
    <2>1. cur \in Session /\ KeyOf(cur) \in {NoName, NameOf[cur]}
        BY <1>2 DEF AInv, TInv, TypeOK, Handling, PutEnd, KeyOf
    <2>2. NamesMatch'
        BY <1>2, <2>1, NullAssumption
        DEF AInv, TInv, TypeOK, NamesMatch, PutEnd
    <2> QED BY <1>2, <2>2 DEF AInv, AddressedOnly, PutEnd
<1>3. ASSUME NEW s \in Session, RemoveUsername(s)
      PROVE  NamesMatch' /\ AddressedOnly'
    <2>1. NamesMatch'
        BY <1>3 DEF AInv, TInv, TypeOK, NamesMatch, RemoveUsername
    <2> QED BY <1>3, <2>1 DEF AInv, AddressedOnly, RemoveUsername
<1>4. ASSUME NEW s \in Session, Forward(s) PROVE NamesMatch' /\ AddressedOnly'
    BY <1>4, ForwardAddressed
<1>5. \/ UNCHANGED <<al, toClient>> \/ PutEnd
      \/ \E s \in Session : RemoveUsername(s) \/ Forward(s)
    BY Steps DEF Accept, ReadUsername, ReadFails, StartThread, ReadEnds, Connect,
                 Login, Leave, Send, serverVars
<1> QED BY <1>1, <1>2, <1>3, <1>4, <1>5

(* A message reaches nobody but a client with the name of its receiver.    *)
THEOREM Addressed == Spec => []AddressedOnly
<1>1. AInv => AddressedOnly
    BY DEF AInv
<1> QED BY <1>1, InitAInv, StepAInv, PTL DEF Spec
-----------------------------------------------------------------------------
(* What a client has sent and the server not read yet, numbered upwards.   *)
Outgoing ==
    \A s \in Session : \A j \in 1 .. Len(toServer[s]) :
        /\ toServer[s][j].from = s
        /\ toServer[s][j].n <= sent[s]
        /\ \A k \in 1 .. Len(toServer[s]) :
               j < k => toServer[s][j].n < toServer[s][k].n

(* What was delivered came before all that its sender has still to come.   *)
Delivered ==
    \A c \in Session : \A j \in 1 .. Len(toClient[c]) :
        LET m == toClient[c][j]
        IN  /\ m.n <= sent[m.from]
            /\ \A k \in 1 .. Len(toServer[m.from]) :
                   m.n < toServer[m.from][k].n

OInv == TInv /\ Outgoing /\ Delivered /\ OrderKept

LEMMA OrderUntouched ==
    ASSUME OInv, UNCHANGED <<sent, toServer, toClient>>
    PROVE  Outgoing' /\ Delivered' /\ OrderKept'
    BY DEF OInv, Outgoing, Delivered, OrderKept

LEMMA SendOrder ==
    ASSUME OInv, NEW s \in Session, NEW n \in Name, NEW b \in Body, Send(s, n, b)
    PROVE  Outgoing' /\ Delivered' /\ OrderKept'
<1> DEFINE m == [to |-> n, from |-> s, n |-> sent[s] + 1, body |-> b]
<1>1. /\ sent \in [Session -> Nat]
      /\ sent' = [sent EXCEPT ![s] = @ + 1]
      /\ toServer' = [toServer EXCEPT ![s] = Append(@, m)]
      /\ toClient' = toClient
    BY DEF OInv, TInv, TypeOK, Send
<1>2. m \in Message
    BY <1>1 DEF Message
<1>3. \A t \in Session : toServer[t] \in Seq(Message) /\ toClient[t] \in Seq(Message)
    BY DEF OInv, TInv, TypeOK
<1>4. \A t \in Session : sent'[t] \in Nat /\ sent[t] \in Nat /\ sent[t] <= sent'[t]
    BY <1>1
<1>5. /\ toServer'[s] = Append(toServer[s], m)
      /\ \A t \in Session \ {s} : toServer'[t] = toServer[t]
    BY <1>1 DEF OInv, TInv, TypeOK
<1>6. ASSUME NEW t \in Session, NEW k \in 1 .. Len(toServer'[t])
      PROVE  \/ k \in 1 .. Len(toServer[t]) /\ toServer'[t][k] = toServer[t][k]
             \/ t = s /\ k = Len(toServer[s]) + 1 /\ toServer'[t][k] = m
    <2>1. CASE t = s
        <3>1. /\ Len(toServer'[s]) = Len(toServer[s]) + 1
              /\ \A j \in 1 .. Len(toServer[s]) : toServer'[s][j] = toServer[s][j]
              /\ toServer'[s][Len(toServer[s]) + 1] = m
              /\ Len(toServer[s]) \in Nat
            BY <1>2, <1>3, <1>5, AppendSeq
        <3> QED BY <2>1, <3>1
    <2>2. CASE t # s
        BY <1>5, <2>2
    <2> QED BY <2>1, <2>2
<1>7. \A t \in Session : \A j \in 1 .. Len(toServer[t]) : toServer[t][j].n \in Nat
    <2>1. \A t \in Session : \A j \in 1 .. Len(toServer[t]) : toServer[t][j] \in Message
        BY <1>3
    <2> QED BY <2>1 DEF Message
<1>8. Outgoing'
    <2> SUFFICES ASSUME NEW t \in Session, NEW j \in 1 .. Len(toServer'[t])
                 PROVE  /\ toServer'[t][j].from = t
                        /\ toServer'[t][j].n <= sent'[t]
                        /\ \A k \in 1 .. Len(toServer'[t]) :
                               j < k => toServer'[t][j].n < toServer'[t][k].n
        BY DEF Outgoing
    <2>1. toServer'[t][j].from = t /\ toServer'[t][j].n <= sent'[t]
        BY <1>1, <1>4, <1>6, <1>7 DEF OInv, Outgoing
    <2>2. ASSUME NEW k \in 1 .. Len(toServer'[t]), j < k
          PROVE  toServer'[t][j].n < toServer'[t][k].n
        <3>1. Len(toServer[t]) \in Nat
            BY <1>3
        <3>2. j \in 1 .. Len(toServer[t]) /\ toServer'[t][j] = toServer[t][j]
            <4>1. k <= Len(toServer[t]) + 1
                BY <1>6, <3>1
            <4> QED BY <1>6, <2>2, <3>1, <4>1
        <3>3. CASE k \in 1 .. Len(toServer[t]) /\ toServer'[t][k] = toServer[t][k]
            BY <2>2, <3>2, <3>3 DEF OInv, Outgoing
        <3>4. CASE t = s /\ toServer'[t][k] = m
            <4>1. toServer[t][j].n <= sent[t] /\ toServer[t][j].n \in Nat
                BY <1>7, <3>2 DEF OInv, Outgoing
            <4> QED BY <1>4, <3>2, <3>4, <4>1
        <3> QED BY <1>6, <3>3, <3>4
    <2> QED BY <2>1, <2>2
<1>9. Delivered'
    <2> SUFFICES ASSUME NEW c \in Session, NEW j \in 1 .. Len(toClient[c])
                 PROVE  LET d == toClient[c][j]
                        IN  /\ d.n <= sent'[d.from]
                            /\ \A k \in 1 .. Len(toServer'[d.from]) :
                                   d.n < toServer'[d.from][k].n
        BY <1>1 DEF Delivered
    <2> DEFINE d == toClient[c][j]
    <2>1. d.from \in Session /\ d.n \in Nat
        <3>1. d \in Message
            BY <1>3
        <3> QED BY <3>1 DEF Message
    <2>2. d.n <= sent[d.from]
        BY DEF OInv, Delivered
    <2>3. d.n <= sent'[d.from]
        BY <1>4, <2>1, <2>2
    <2>4. ASSUME NEW k \in 1 .. Len(toServer'[d.from])
          PROVE  d.n < toServer'[d.from][k].n
        <3>1. CASE k \in 1 .. Len(toServer[d.from])
                   /\ toServer'[d.from][k] = toServer[d.from][k]
            BY <3>1 DEF OInv, Delivered
        <3>2. CASE d.from = s /\ toServer'[d.from][k] = m
            BY <1>4, <2>1, <2>2, <3>2
        <3> QED BY <1>6, <2>1, <3>1, <3>2
    <2> QED BY <2>3, <2>4
<1>10. OrderKept'
    BY <1>1 DEF OInv, OrderKept
<1> QED BY <1>8, <1>9, <1>10

LEMMA ForwardOrder ==
    ASSUME OInv, NEW s \in Session, Forward(s)
    PROVE  Outgoing' /\ Delivered' /\ OrderKept'
<1> DEFINE m == Head(toServer[s])
<1>1. /\ \A t \in Session : toServer[t] \in Seq(Message) /\ toClient[t] \in Seq(Message)
      /\ sent' = sent /\ sent \in [Session -> Nat]
      /\ toServer[s] # <<>>
      /\ toServer' = [toServer EXCEPT ![s] = Tail(@)]
      /\ Broadcast(m)
    BY DEF OInv, TInv, TypeOK, Forward, clientVars
<1>2. /\ m = toServer[s][1] /\ m \in Message /\ 1 \in 1 .. Len(toServer[s])
      /\ toServer'[s] = Tail(toServer[s])
      /\ \A t \in Session \ {s} : toServer'[t] = toServer[t]
    BY <1>1, TailSeq DEF OInv, TInv, TypeOK
<1>3. m.from = s /\ m.n \in Nat /\ m.n <= sent[s]
    BY <1>2 DEF OInv, Outgoing, Message
<1>4. ASSUME NEW t \in Session, NEW k \in 1 .. Len(toServer'[t])
      PROVE  \E i \in 1 .. Len(toServer[t]) :
                 /\ toServer'[t][k] = toServer[t][i]
                 /\ i = IF t = s THEN k + 1 ELSE k
    <2>1. CASE t = s
        <3>1. /\ Len(toServer'[s]) = Len(toServer[s]) - 1
              /\ \A j \in 1 .. Len(toServer[s]) - 1 : toServer'[s][j] = toServer[s][j + 1]
              /\ Len(toServer[s]) \in Nat
            <4>1. toServer[s] \in Seq(Message) /\ toServer[s] # <<>>
                BY <1>1
            <4>2. toServer'[s] = Tail(toServer[s])
                BY <1>2
            <4> QED BY <4>1, <4>2, TailSeq
        <3>2. k + 1 \in 1 .. Len(toServer[s]) /\ k \in 1 .. Len(toServer[s]) - 1
            BY <2>1, <3>1
        <3> QED BY <2>1, <3>1, <3>2
    <2>2. CASE t # s
        BY <1>2, <2>2
    <2> QED BY <2>1, <2>2
<1>5. Outgoing'
    <2> SUFFICES ASSUME NEW t \in Session, NEW j \in 1 .. Len(toServer'[t])
                 PROVE  /\ toServer'[t][j].from = t
                        /\ toServer'[t][j].n <= sent[t]
                        /\ \A k \in 1 .. Len(toServer'[t]) :
                               j < k => toServer'[t][j].n < toServer'[t][k].n
        BY <1>1 DEF Outgoing
    <2>1. PICK i \in 1 .. Len(toServer[t]) :
              /\ toServer'[t][j] = toServer[t][i]
              /\ i = IF t = s THEN j + 1 ELSE j
        BY <1>4
    <2>2. ASSUME NEW k \in 1 .. Len(toServer'[t]), j < k
          PROVE  toServer'[t][j].n < toServer'[t][k].n
        <3>1. PICK h \in 1 .. Len(toServer[t]) :
                  /\ toServer'[t][k] = toServer[t][h]
                  /\ h = IF t = s THEN k + 1 ELSE k
            BY <1>4
        <3>2. i < h
            BY <2>1, <2>2, <3>1
        <3> QED BY <2>1, <3>1, <3>2 DEF OInv, Outgoing
    <2> QED BY <2>1, <2>2 DEF OInv, Outgoing
<1>6. \A k \in 1 .. Len(toServer'[s]) : m.n < toServer'[s][k].n
    <2> SUFFICES ASSUME NEW k \in 1 .. Len(toServer'[s])
                 PROVE  m.n < toServer'[s][k].n
        OBVIOUS
    <2>1. PICK i \in 1 .. Len(toServer[s]) : toServer'[s][k] = toServer[s][i] /\ i = k + 1
        BY <1>4
    <2> QED BY <1>2, <2>1 DEF OInv, Outgoing
<1>7. ASSUME NEW d \in Message, d.n <= sent[d.from],
             \A k \in 1 .. Len(toServer[d.from]) : d.n < toServer[d.from][k].n
      PROVE  /\ d.n <= sent'[d.from]
             /\ \A k \in 1 .. Len(toServer'[d.from]) : d.n < toServer'[d.from][k].n
    <2>1. d.from \in Session
        BY DEF Message
    <2>2. ASSUME NEW k \in 1 .. Len(toServer'[d.from])
          PROVE  d.n < toServer'[d.from][k].n
        <3>1. PICK i \in 1 .. Len(toServer[d.from]) :
                  toServer'[d.from][k] = toServer[d.from][i]
            BY <1>4, <2>1
        <3> QED BY <1>7, <3>1
    <2> QED BY <1>1, <1>7, <2>2
<1>8. ASSUME NEW c \in Session, NEW j \in 1 .. Len(toClient[c])
      PROVE  LET d == toClient[c][j]
             IN  /\ d \in Message
                 /\ d.n <= sent'[d.from]
                 /\ \A k \in 1 .. Len(toServer'[d.from]) : d.n < toServer'[d.from][k].n
                 /\ d.from = s => d.n < m.n
    <2> DEFINE d == toClient[c][j]
    <2>1. /\ d \in Message /\ d.n <= sent[d.from]
          /\ \A k \in 1 .. Len(toServer[d.from]) : d.n < toServer[d.from][k].n
        <3>1. d \in Message
            BY <1>1
        <3>2. Delivered
            BY <1>1 DEF OInv
        <3> QED BY <3>1, <3>2 DEF Delivered
    <2>2. d.from = s => d.n < m.n
        BY <1>2, <2>1
    <2> QED BY <1>7, <2>1, <2>2
<1>9. CASE toClient' = toClient
    <2>1. Delivered'
        BY <1>8, <1>9 DEF Delivered
    <2>2. OrderKept'
        BY <1>9 DEF OInv, OrderKept
    <2> QED BY <1>5, <2>1, <2>2
<1>10. CASE toClient' # toClient
    <2>1. PICK r \in Session : toClient' = [toClient EXCEPT ![r] = Append(@, m)]
        <3>1. PICK c \in Lookup(m.to) :
                  IF c = NoSession
                  THEN dropped' = dropped \cup {m} /\ UNCHANGED toClient
                  ELSE toClient' = WriteMsg(c, m) /\ UNCHANGED dropped
            BY <1>1 DEF Broadcast
        <3>2. c \in Session
            BY <1>2, <1>10, <3>1 DEF Lookup, OInv, TInv, TypeOK, Message
        <3> QED BY <1>10, <3>1, <3>2 DEF WriteMsg
    <2>2. ASSUME NEW c \in Session, NEW j \in 1 .. Len(toClient'[c])
          PROVE  \/ j \in 1 .. Len(toClient[c]) /\ toClient'[c][j] = toClient[c][j]
                 \/ c = r /\ j = Len(toClient[c]) + 1 /\ toClient'[c][j] = m
        <3>1. toClient'[c] = IF c = r THEN Append(toClient[c], m) ELSE toClient[c]
            BY <2>1 DEF OInv, TInv, TypeOK
        <3> QED BY <1>1, <1>2, <3>1, AppendSeq
    <2>3. Delivered'
        <3> SUFFICES ASSUME NEW c \in Session, NEW j \in 1 .. Len(toClient'[c])
                     PROVE  LET d == toClient'[c][j]
                            IN  /\ d.n <= sent'[d.from]
                                /\ \A k \in 1 .. Len(toServer'[d.from]) :
                                       d.n < toServer'[d.from][k].n
            BY DEF Delivered
        <3>1. CASE toClient'[c][j] = m
            BY <1>1, <1>3, <1>6, <3>1
        <3>2. CASE j \in 1 .. Len(toClient[c]) /\ toClient'[c][j] = toClient[c][j]
            BY <1>8, <3>2
        <3> QED BY <2>2, <3>1, <3>2
    <2>4. OrderKept'
        <3> SUFFICES ASSUME NEW c \in Session, NEW j \in 1 .. Len(toClient'[c]),
                            NEW k \in 1 .. Len(toClient'[c]), j < k,
                            toClient'[c][j].from = toClient'[c][k].from
                     PROVE  toClient'[c][j].n < toClient'[c][k].n
            BY DEF OrderKept
        <3>1. Len(toClient[c]) \in Nat
            BY <1>1
        <3>2. j \in 1 .. Len(toClient[c]) /\ toClient'[c][j] = toClient[c][j]
            <4>1. k <= Len(toClient[c]) + 1
                BY <2>2, <3>1
            <4> QED BY <2>2, <3>1, <4>1
        <3>3. CASE k \in 1 .. Len(toClient[c]) /\ toClient'[c][k] = toClient[c][k]
            BY <3>2, <3>3 DEF OInv, OrderKept
        <3>4. CASE toClient'[c][k] = m
            BY <1>3, <1>8, <3>2, <3>4
        <3> QED BY <2>2, <3>3, <3>4
    <2> QED BY <1>5, <2>3, <2>4
<1> QED BY <1>9, <1>10

LEMMA InitOInv == Init => OInv
<1> SUFFICES ASSUME Init PROVE OInv
    OBVIOUS
<1>1. Outgoing /\ Delivered /\ OrderKept
    BY DEF Init, Outgoing, Delivered, OrderKept
<1> QED BY <1>1, InitTInv DEF OInv

LEMMA StepOInv == OInv /\ [Next]_serverVars => OInv'
<1> SUFFICES ASSUME OInv, [Next]_serverVars
             PROVE  Outgoing' /\ Delivered' /\ OrderKept'
    BY StepTInv DEF OInv
<1>1. CASE UNCHANGED <<sent, toServer, toClient>>
    BY <1>1, OrderUntouched
<1>2. ASSUME NEW s \in Session, NEW n \in Name, NEW b \in Body, Send(s, n, b)
      PROVE  Outgoing' /\ Delivered' /\ OrderKept'
    BY <1>2, SendOrder
<1>3. ASSUME NEW s \in Session, Forward(s)
      PROVE  Outgoing' /\ Delivered' /\ OrderKept'
    BY <1>3, ForwardOrder
<1>4. \/ UNCHANGED <<sent, toServer, toClient>>
      \/ \E s \in Session : \/ Forward(s)
                            \/ \E n \in Name, b \in Body : Send(s, n, b)
    BY Steps DEF Accept, ReadUsername, ReadFails, PutEnd, StartThread, ReadEnds,
                 RemoveUsername, Connect, Login, Leave, serverVars, clientVars
<1> QED BY <1>1, <1>2, <1>3, <1>4

(* The messages of one sender reach a client in the order they were sent   *)
(* and each at most once.                                                  *)
THEOREM Ordered == Spec => []OrderKept
<1>1. OInv => OrderKept
    BY DEF OInv
<1> QED BY <1>1, InitOInv, StepOInv, PTL DEF Spec
-----------------------------------------------------------------------------
(* A session before its turn: no thread, not registered.                   *)
Untouched(s) == thread[s] = "none" /\ \A n \in DOMAIN al : al[n] # s

(* The connections in the backlog are untouched and differ from each other *)
(* and from the one being handled, which has no thread before StartThread  *)
(* and is not registered before its put.                                   *)
Waiting ==
    /\ \A j \in 1 .. Len(backlog) : Untouched(backlog[j]) /\ backlog[j] # cur
    /\ \A j, k \in 1 .. Len(backlog) : backlog[j] = backlog[k] => j = k
    /\ acc # "accept" => thread[cur] = "none"
    /\ acc \in {"construct", "putting"} => Untouched(cur)

(* A session is registered under its own key, where its remove looks.      *)
KeyKept == \A n \in DOMAIN al : al[n] # NoSession => KeyOf(al[n]) = n

RInv == TInv /\ Waiting /\ KeyKept /\ RegisteredAlive

LEMMA RegistryUntouched ==
    ASSUME RInv, UNCHANGED <<backlog, acc, cur, nameless, al, thread, stale>>
    PROVE  Waiting' /\ KeyKept' /\ RegisteredAlive'
    BY DEF RInv, Waiting, Untouched, KeyKept, KeyOf, RegisteredAlive

LEMMA AlTypes ==
    ASSUME TInv
    PROVE  /\ DOMAIN al = Name \cup {NoName}
           /\ connected \subseteq Session /\ NoSession \notin Session
           /\ \A n \in DOMAIN al : al[n] \in connected \cup {NoSession}
           /\ acc # "accept" => cur \in connected
           /\ \A j \in 1 .. Len(backlog) : backlog[j] \in connected
           /\ Len(backlog) \in Nat
    BY NullAssumption DEF TInv, TypeOK, Handling

LEMMA ConnectRegistry ==
    ASSUME RInv, NEW s \in Session, Connect(s)
    PROVE  Waiting' /\ KeyKept' /\ RegisteredAlive'
<1>1. /\ s \notin connected /\ backlog' = Append(backlog, s)
      /\ UNCHANGED <<acc, cur, nameless, al, thread, stale>>
    BY DEF Connect
<1>2. Untouched(s) /\ s # cur
    BY <1>1, AlTypes DEF RInv, TInv, TypeOK, Untouched
<1>3. ASSUME NEW j \in 1 .. Len(backlog')
      PROVE  \/ j \in 1 .. Len(backlog) /\ backlog'[j] = backlog[j]
                /\ backlog[j] \in connected
             \/ j = Len(backlog) + 1 /\ backlog'[j] = s
    <2>1. backlog \in Seq(Session)
        BY SeqMonotone DEF RInv, TInv, TypeOK
    <2> QED BY <1>1, <2>1, AppendSeq, AlTypes DEF RInv
<1>4. Waiting'
    <2>1. ASSUME NEW j \in 1 .. Len(backlog')
          PROVE  /\ thread'[backlog'[j]] = "none" /\ backlog'[j] # cur'
                 /\ \A n \in DOMAIN al' : al'[n] # backlog'[j]
        BY <1>1, <1>2, <1>3 DEF RInv, Waiting, Untouched
    <2>2. ASSUME NEW j \in 1 .. Len(backlog'), NEW k \in 1 .. Len(backlog'),
                 backlog'[j] = backlog'[k]
          PROVE  j = k
        BY <1>1, <1>3, <2>2 DEF RInv, Waiting
    <2> QED BY <1>1, <2>1, <2>2 DEF RInv, Waiting, Untouched
<1> QED BY <1>1, <1>4 DEF RInv, KeyKept, KeyOf, RegisteredAlive

LEMMA AcceptRegistry ==
    ASSUME RInv, Accept
    PROVE  Waiting' /\ KeyKept' /\ RegisteredAlive'
<1>1. /\ backlog # <<>> /\ backlog' = Tail(backlog) /\ cur' = Head(backlog)
      /\ acc' = "construct" /\ UNCHANGED <<nameless, al, thread, stale>>
    BY DEF Accept
<1>2. /\ Len(backlog) \in Nat /\ Len(backlog) > 0
      /\ Len(backlog') = Len(backlog) - 1
      /\ \A j \in 1 .. Len(backlog) - 1 : backlog'[j] = backlog[j + 1]
      /\ cur' = backlog[1]
    BY <1>1, TailSeq DEF RInv, TInv, TypeOK
<1>3. Waiting'
    <2>1. Untouched(cur)'
        BY <1>1, <1>2 DEF RInv, Waiting, Untouched
    <2>2. ASSUME NEW j \in 1 .. Len(backlog')
          PROVE  /\ thread'[backlog'[j]] = "none" /\ backlog'[j] # cur'
                 /\ \A n \in DOMAIN al' : al'[n] # backlog'[j]
                 /\ backlog'[j] = backlog[j + 1] /\ j + 1 \in 2 .. Len(backlog)
        BY <1>1, <1>2 DEF RInv, Waiting, Untouched
    <2>3. ASSUME NEW j \in 1 .. Len(backlog'), NEW k \in 1 .. Len(backlog'),
                 backlog'[j] = backlog'[k]
          PROVE  j = k
        BY <2>2, <2>3 DEF RInv, Waiting
    <2> QED BY <1>1, <2>1, <2>2, <2>3 DEF Waiting, Untouched
<1> QED BY <1>1, <1>3 DEF RInv, KeyKept, KeyOf, RegisteredAlive

(* The two ends of the constructor: a name that cannot be read changes the *)
(* key of the connection, which is not registered yet.                     *)
LEMMA ConstructRegistry ==
    ASSUME RInv, ReadUsername \/ \E b \in BOOLEAN : ReadFails(b)
    PROVE  Waiting' /\ KeyKept' /\ RegisteredAlive'
<1>1. /\ acc = "construct" /\ acc' = "putting"
      /\ UNCHANGED <<backlog, cur, al, thread, stale>>
      /\ nameless' \in {nameless, nameless \cup {cur}}
    BY DEF ReadUsername, ReadFails
<1>2. Waiting'
    BY <1>1 DEF RInv, Waiting, Untouched
<1>3. KeyKept'
    BY <1>1 DEF RInv, Waiting, Untouched, KeyKept, KeyOf
<1> QED BY <1>1, <1>2, <1>3 DEF RInv, RegisteredAlive

LEMMA PutRegistry ==
    ASSUME RInv, PutEnd
    PROVE  Waiting' /\ KeyKept' /\ RegisteredAlive'
<1>1. /\ acc = "putting" /\ acc' = "start"
      /\ UNCHANGED <<backlog, cur, nameless, thread, stale>>
      /\ al' \in {al, [al EXCEPT ![KeyOf(cur)] = cur]}
    BY DEF PutEnd
<1>2. /\ cur \in connected /\ cur # NoSession
      /\ KeyOf(cur) \in Name \cup {NoName}
      /\ KeyOf(cur) \in Name => NameOf[cur] = KeyOf(cur)
    BY <1>1, AlTypes, NullAssumption, NameOfAssumption DEF RInv, KeyOf
<1>3. ASSUME NEW n \in Name \cup {NoName}
      PROVE  al'[n] = al[n] \/ (n = KeyOf(cur) /\ al'[n] = cur)
    BY <1>1, AlTypes DEF RInv
<1>4. DOMAIN al' = DOMAIN al /\ DOMAIN al = Name \cup {NoName}
    BY <1>1, AlTypes DEF RInv
<1>5. Waiting'
    BY <1>1, <1>3, <1>4 DEF RInv, Waiting, Untouched
<1>6. KeyKept'
    BY <1>1, <1>3, <1>4 DEF RInv, KeyKept, KeyOf
<1>7. RegisteredAlive'
    BY <1>1, <1>2, <1>3 DEF RInv, Waiting, RegisteredAlive
<1> QED BY <1>5, <1>6, <1>7

LEMMA StartRegistry ==
    ASSUME RInv, StartThread
    PROVE  Waiting' /\ KeyKept' /\ RegisteredAlive'
<1>1. /\ acc' = "accept" /\ cur' = NoSession /\ UNCHANGED <<backlog, nameless, al, stale>>
      /\ thread' = [thread EXCEPT ![cur] = "run"] /\ cur \in Session
      /\ thread \in [Session -> {"none", "run", "remove", "ended"}]
    BY AlTypes DEF RInv, TInv, TypeOK, StartThread
<1>2. Waiting'
    <2>1. \A j \in 1 .. Len(backlog) : backlog[j] # NoSession /\ backlog[j] \in Session
        BY AlTypes DEF RInv
    <2> QED BY <1>1, <2>1 DEF RInv, Waiting, Untouched
<1>3. KeyKept'
    BY <1>1 DEF RInv, KeyKept, KeyOf
<1>4. RegisteredAlive'
    BY <1>1, AlTypes DEF RInv, RegisteredAlive
<1> QED BY <1>2, <1>3, <1>4

LEMMA ReadEndsRegistry ==
    ASSUME RInv, NEW s \in Session, ReadEnds(s)
    PROVE  Waiting' /\ KeyKept' /\ RegisteredAlive'
<1>1. /\ thread[s] = "run" /\ UNCHANGED <<backlog, acc, cur, nameless, al, stale>>
      /\ thread' = [thread EXCEPT ![s] = IF s \in noInput THEN "ended" ELSE "remove"]
      /\ thread \in [Session -> {"none", "run", "remove", "ended"}]
      /\ noInput \subseteq nameless
    BY DEF RInv, TInv, TypeOK, ReadEnds, acceptVars
<1>2. Waiting'
    BY <1>1, AlTypes DEF RInv, Waiting, Untouched
<1>3. KeyKept'
    BY <1>1 DEF RInv, KeyKept, KeyOf
<1>4. RegisteredAlive'
    <2> SUFFICES ASSUME NEW n \in Name, al[n] # NoSession
                 PROVE  /\ NameOf[al[n]] = n
                        /\ thread'[al[n]] = "ended" => al[n] \in stale
        BY <1>1 DEF RegisteredAlive
    <2>1. NameOf[al[n]] = n /\ (thread[al[n]] = "ended" => al[n] \in stale)
        BY DEF RInv, RegisteredAlive
    <2>2. al[n] \in Session /\ KeyOf(al[n]) # NoName
        BY AlTypes, NullAssumption DEF RInv, KeyKept
    <2>3. CASE al[n] = s
        BY <1>1, <2>1, <2>2, <2>3 DEF KeyOf
    <2>4. CASE al[n] # s
        BY <1>1, <2>1, <2>2, <2>4
    <2> QED BY <2>3, <2>4
<1> QED BY <1>2, <1>3, <1>4

LEMMA RemoveRegistry ==
    ASSUME RInv, NEW s \in Session, RemoveUsername(s)
    PROVE  Waiting' /\ KeyKept' /\ RegisteredAlive'
<1>1. /\ thread[s] = "remove" /\ UNCHANGED <<backlog, acc, cur, nameless>>
      /\ thread' = [thread EXCEPT ![s] = "ended"]
      /\ thread \in [Session -> {"none", "run", "remove", "ended"}]
      /\ stale \subseteq stale'
    BY DEF RInv, TInv, TypeOK, RemoveUsername, acceptVars
<1>2. \/ al' = [al EXCEPT ![KeyOf(s)] = NoSession]
      \/ al' = al /\ s \in stale'
    <2>1. acc = "putting" => s # cur
        BY <1>1 DEF RInv, Waiting, Untouched
    <2> QED BY <2>1 DEF RemoveUsername
<1>3. /\ DOMAIN al' = DOMAIN al
      /\ \A n \in DOMAIN al : al'[n] \in {al[n], NoSession}
    BY <1>2
<1>4. Waiting'
    BY <1>1, <1>3, AlTypes DEF RInv, Waiting, Untouched
<1>5. KeyKept'
    BY <1>1, <1>3 DEF RInv, KeyKept, KeyOf
<1>6. RegisteredAlive'
    <2> SUFFICES ASSUME NEW n \in Name, al'[n] # NoSession
                 PROVE  /\ NameOf[al'[n]] = n
                        /\ thread'[al'[n]] = "ended" => al'[n] \in stale'
        BY DEF RegisteredAlive
    <2>1. n \in DOMAIN al /\ al'[n] = al[n] /\ al[n] \in Session
        BY <1>3, AlTypes DEF RInv
    <2>2. NameOf[al[n]] = n /\ (thread[al[n]] = "ended" => al[n] \in stale)
        BY <2>1 DEF RInv, RegisteredAlive
    <2>3. CASE al[n] = s
        <3>1. KeyOf(s) = n
            BY <2>1, <2>3 DEF RInv, KeyKept
        <3> QED BY <1>2, <2>1, <2>2, <2>3, <3>1
    <2>4. CASE al[n] # s
        BY <1>1, <2>1, <2>2, <2>4
    <2> QED BY <2>3, <2>4
<1> QED BY <1>4, <1>5, <1>6

LEMMA InitRInv == Init => RInv
<1> SUFFICES ASSUME Init PROVE RInv
    OBVIOUS
<1>1. Waiting /\ KeyKept /\ RegisteredAlive
    BY DEF Init, Waiting, KeyKept, RegisteredAlive
<1> QED BY <1>1, InitTInv DEF RInv

LEMMA StepRInv == RInv /\ [Next]_serverVars => RInv'
<1> SUFFICES ASSUME RInv, [Next]_serverVars
             PROVE  Waiting' /\ KeyKept' /\ RegisteredAlive'
    BY StepTInv DEF RInv
<1>1. CASE UNCHANGED <<backlog, acc, cur, nameless, al, thread, stale>>
    BY <1>1, RegistryUntouched
<1>2. CASE Accept \/ ReadUsername \/ (\E b \in BOOLEAN : ReadFails(b))
           \/ PutEnd \/ StartThread
    BY <1>2, AcceptRegistry, ConstructRegistry, PutRegistry, StartRegistry
<1>3. CASE \E s \in Session : ReadEnds(s) \/ RemoveUsername(s) \/ Connect(s)
    BY <1>3, ReadEndsRegistry, RemoveRegistry, ConnectRegistry
<1>4. \/ UNCHANGED <<backlog, acc, cur, nameless, al, thread, stale>>
      \/ Accept \/ ReadUsername \/ (\E b \in BOOLEAN : ReadFails(b))
      \/ PutEnd \/ StartThread
      \/ \E s \in Session : ReadEnds(s) \/ RemoveUsername(s) \/ Connect(s)
    BY Steps DEF Forward, Login, Leave, Send, serverVars, acceptVars
<1> QED BY <1>1, <1>2, <1>3, <1>4

(* The registry has no dead entry, but for a removal that the put of       *)
(* another connection has undone.                                          *)
THEOREM RegistryAlive == Spec => []RegisteredAlive
<1>1. RInv => RegisteredAlive
    BY DEF RInv
<1> QED BY <1>1, InitRInv, StepRInv, PTL DEF Spec
-----------------------------------------------------------------------------
(* What is in a queue, for whom and of whom.                               *)
Elements(q) == {q[j] : j \in DOMAIN q}
Addressees(q) == {m.to : m \in Elements(q)}
Senders(q)    == {m.from : m \in Elements(q)}

OncePerAddressee(q) == \A i, j \in DOMAIN q : q[i].to = q[j].to => i = j
OncePerSender(q)    == \A i, j \in DOMAIN q : q[i].from = q[j].from => i = j

(* No two vertices of S share a bucket of a table of that length.          *)
Separated(S, len) == \A v, w \in S : Hash(v, len) = Hash(w, len) => v = w

(* The parents of every vertex are apart in a new table.                   *)
ParentsSeparated ==
    \A g \in Graphs : \A c \in Vertex : Separated({v \in Vertex : <<v, c>> \in g}, InitialLen)

(* The parents of c; a table stays empty at the sink.                      *)
Feeders(c) == {v \in Vertex : <<v, c>> \in edges}

Values == SUBSET Vertex

(* A table for the messages of S: count is the number of its keys.         *)
Tidy(h, S) ==
    /\ WellFormed(h, Seq(Values) \ {<<>>})
    /\ h.count = Cardinality(Stored(h))
    /\ Separated(S, Length(h))

(* What v sends when it has computed.                                      *)
Whole(v) == Ancestors(v) \cup {v}

Listing(c) == {ids[c][n] : n \in DOMAIN ids[c]}

(* The clients that still wait for parents, and the parents c got a        *)
(* message from.                                                           *)
Expecting(c) == c \notin known[c] /\ listener[c] \in {"off", "poll"}
Got(c)       == IF Expecting(c) THEN Stored(htc[c]) ELSE Parents(c)
-----------------------------------------------------------------------------
RunTypes ==
    /\ edges \in Graphs
    /\ known \in [Session -> Values]
    /\ htc \in [Session -> Tables(Seq(Values) \ {<<>>})]
    /\ listener \in [Session -> {"off", "poll", "merge", "send"}]
    /\ ids \in [Session -> Seq(Vertex)]
    /\ outbox \in [Session -> SUBSET Session]
    /\ \A c \in Session : Tidy(htc[c], Feeders(c))

(* Only a vertex with parents listens, and only a vertex sends.            *)
Roles ==
    /\ \A c \in Session : listener[c] # "off" => c \in started /\ c \in Vertex /\ Parents(c) # {}
    /\ \A v \in Session : \A c \in outbox[v] : v \in Vertex /\ c \in Receivers(v)
    /\ \A v \in Vertex : Parents(v) = {} /\ v \in known[v] => v \in sources

(* A message carries all its sender has computed with, and goes to a       *)
(* receiver of its sender.                                                 *)
Contents ==
    /\ \A v \in Session : \A m \in Elements(toServer[v]) :
           v \in Vertex /\ m.from = v /\ m.to \in Receivers(v) /\ m.body = Whole(v)
    /\ \A c \in Session : \A m \in Elements(toClient[c]) :
           m.from \in Vertex /\ c \in Receivers(m.from) /\ m.body = Whole(m.from)
    /\ \A c, k \in Session : \A w : Maps(htc[c], k, w) =>
           c \in Vertex /\ k \in Parents(c) /\ w = <<Whole(k)>>

(* A message is in one place at a time, and none is there before its       *)
(* sender has computed.                                                    *)
OnePlace ==
    /\ \A v \in Session : OncePerAddressee(toServer[v]) /\ OncePerSender(toClient[v])
    /\ \A v, c \in Session :
           /\ c \in outbox[v] => /\ c \notin Addressees(toServer[v])
                                 /\ v \notin Senders(toClient[c]) /\ v \notin Got(c)
           /\ c \in Addressees(toServer[v]) => v \notin Senders(toClient[c]) /\ v \notin Got(c)
           /\ v \in Senders(toClient[c]) => v \notin Got(c)
           /\ v \notin known[v] => /\ c \notin outbox[v] /\ c \notin Addressees(toServer[v])
                                   /\ v \notin Senders(toClient[c]) /\ v \notin Got(c)

(* While a client merges, what it does not know yet is in its table.       *)
Progress ==
    \A c \in Session :
        /\ Expecting(c) => known[c] = {}
        /\ listener[c] = "send" => c \in known[c]
        /\ c \in known[c] => c \in Vertex /\ known[c] = Whole(c) /\ Stored(htc[c]) = {}
        /\ listener[c] = "merge" =>
               /\ c \notin known[c] /\ known[c] \subseteq Ancestors(c)
               /\ Listing(c) = Stored(htc[c])
               /\ \A m, n \in DOMAIN ids[c] : ids[c][m] = ids[c][n] => m = n
               /\ \A p \in Parents(c) : p \in Stored(htc[c]) \/ Whole(p) \subseteq known[c]

DInv == AInv /\ RunTypes /\ Roles /\ Contents /\ OnePlace /\ Progress
-----------------------------------------------------------------------------
(* Queues.                                                                 *)
LEMMA QueueAppend ==
    ASSUME NEW q \in Seq(Message), NEW m \in Message
    PROVE  /\ Elements(Append(q, m)) = Elements(q) \cup {m}
           /\ Addressees(Append(q, m)) = Addressees(q) \cup {m.to}
           /\ Senders(Append(q, m)) = Senders(q) \cup {m.from}
           /\ OncePerAddressee(q) /\ m.to \notin Addressees(q) => OncePerAddressee(Append(q, m))
           /\ OncePerSender(q) /\ m.from \notin Senders(q) => OncePerSender(Append(q, m))
<1> DEFINE r == Append(q, m)
<1>1. /\ DOMAIN q = 1 .. Len(q) /\ Len(q) \in Nat /\ DOMAIN r = 1 .. Len(q) + 1
      /\ \A j \in 1 .. Len(q) : r[j] = q[j]
      /\ r[Len(q) + 1] = m
    <2>1. r \in Seq(Message) /\ Len(r) = Len(q) + 1
        BY AppendSeq
    <2> QED BY <2>1, AppendSeq
<1> HIDE DEF r
<1>2. \A j \in DOMAIN r : j \in DOMAIN q \/ j = Len(q) + 1
    BY <1>1
<1>3. Len(q) + 1 \in DOMAIN r /\ \A j \in DOMAIN q : j \in DOMAIN r /\ r[j] = q[j]
    BY <1>1
<1>4. Elements(r) = Elements(q) \cup {m}
    BY <1>1, <1>2, <1>3 DEF Elements
<1>5. Addressees(r) = Addressees(q) \cup {m.to} /\ Senders(r) = Senders(q) \cup {m.from}
    BY <1>4 DEF Addressees, Senders
<1>6. OncePerAddressee(q) /\ m.to \notin Addressees(q) => OncePerAddressee(r)
    <2>1. \A j \in DOMAIN q : q[j].to \in Addressees(q)
        BY DEF Addressees, Elements
    <2> QED BY <1>1, <1>2, <1>3, <2>1 DEF OncePerAddressee
<1>7. OncePerSender(q) /\ m.from \notin Senders(q) => OncePerSender(r)
    <2>1. \A j \in DOMAIN q : q[j].from \in Senders(q)
        BY DEF Senders, Elements
    <2> QED BY <1>1, <1>2, <1>3, <2>1 DEF OncePerSender
<1> QED BY <1>4, <1>5, <1>6, <1>7 DEF r

LEMMA QueueTail ==
    ASSUME NEW q \in Seq(Message), q # <<>>
    PROVE  /\ Head(q) \in Elements(q) /\ Head(q) \in Message
           /\ Elements(Tail(q)) \subseteq Elements(q)
           /\ OncePerAddressee(q) => /\ OncePerAddressee(Tail(q))
                                     /\ Addressees(Tail(q)) = Addressees(q) \ {Head(q).to}
           /\ OncePerSender(q) => /\ OncePerSender(Tail(q))
                                  /\ Senders(Tail(q)) = Senders(q) \ {Head(q).from}
<1> DEFINE r == Tail(q)
<1>1. /\ DOMAIN q = 1 .. Len(q) /\ Len(q) \in Nat /\ Len(q) > 0 /\ DOMAIN r = 1 .. Len(q) - 1
      /\ \A j \in 1 .. Len(q) - 1 : r[j] = q[j + 1]
      /\ Head(q) = q[1] /\ Head(q) \in Message
    <2>1. r \in Seq(Message) /\ Len(r) = Len(q) - 1
        BY TailSeq
    <2> QED BY <2>1, TailSeq
<1> HIDE DEF r
<1>2. 1 \in DOMAIN q /\ \A j \in DOMAIN r : j + 1 \in DOMAIN q /\ r[j] = q[j + 1] /\ j + 1 # 1
    BY <1>1
<1>3. \A i \in DOMAIN q : i = 1 \/ (i - 1 \in DOMAIN r /\ r[i - 1] = q[i])
    BY <1>1
<1>4. Head(q) \in Elements(q)
    BY <1>1, <1>2 DEF Elements
<1>5. Elements(r) \subseteq Elements(q)
    BY <1>2 DEF Elements
<1>6. ASSUME OncePerAddressee(q)
      PROVE  OncePerAddressee(r) /\ Addressees(r) = Addressees(q) \ {Head(q).to}
    <2>1. OncePerAddressee(r)
        <3> SUFFICES ASSUME NEW i \in DOMAIN r, NEW j \in DOMAIN r, r[i].to = r[j].to PROVE i = j
            BY DEF OncePerAddressee
        <3>1. i + 1 = j + 1
            BY <1>2, <1>6 DEF OncePerAddressee
        <3> QED BY <1>1, <3>1
    <2>2. \A j \in DOMAIN r : r[j].to # q[1].to
        BY <1>2, <1>6 DEF OncePerAddressee
    <2>3. Addressees(r) \subseteq Addressees(q) \ {Head(q).to}
        BY <1>1, <1>5, <2>2 DEF Addressees, Elements
    <2>4. Addressees(q) \ {Head(q).to} \subseteq Addressees(r)
        BY <1>1, <1>3 DEF Addressees, Elements
    <2> QED BY <2>1, <2>3, <2>4
<1>7. ASSUME OncePerSender(q)
      PROVE  OncePerSender(r) /\ Senders(r) = Senders(q) \ {Head(q).from}
    <2>1. OncePerSender(r)
        <3> SUFFICES ASSUME NEW i \in DOMAIN r, NEW j \in DOMAIN r, r[i].from = r[j].from PROVE i = j
            BY DEF OncePerSender
        <3>1. i + 1 = j + 1
            BY <1>2, <1>7 DEF OncePerSender
        <3> QED BY <1>1, <3>1
    <2>2. \A j \in DOMAIN r : r[j].from # q[1].from
        BY <1>2, <1>7 DEF OncePerSender
    <2>3. Senders(r) \subseteq Senders(q) \ {Head(q).from}
        BY <1>1, <1>5, <2>2 DEF Senders, Elements
    <2>4. Senders(q) \ {Head(q).from} \subseteq Senders(r)
        BY <1>1, <1>3 DEF Senders, Elements
    <2> QED BY <2>1, <2>3, <2>4
<1> QED BY <1>1, <1>4, <1>5, <1>6, <1>7 DEF r
-----------------------------------------------------------------------------
(* The ancestors of a vertex are its parents and their ancestors.          *)
LEMMA AncestorsOf ==
    ASSUME edges \in Graphs, NEW c \in Vertex
    PROVE  /\ c \notin Ancestors(c)
           /\ Ancestors(c) \subseteq Vertex
           /\ Ancestors(c) = UNION {Whole(p) : p \in Parents(c)}
<1>1. c \notin Ancestors(c) /\ Ancestors(c) \subseteq Vertex
    BY GraphsAssumption DEF Ancestors, AncestorsIn
<1>2. /\ c # Sink /\ Parents(c) \subseteq Vertex
      /\ \A e \in edges : e[1] \in Vertex /\ e[2] \in Vertex /\ e = <<e[1], e[2]>>
    BY GraphsAssumption DEF Vertex, Parents
<1>3. \A p \in Vertex : p \in Parents(c) <=> <<p, c>> \in edges
    BY <1>2 DEF Parents
<1> DEFINE Closed(v, S) == \A e \in edges : e[2] \in S \cup {v} => e[1] \in S
           U == UNION {Whole(p) : p \in Parents(c)}
<1>4. \A v \in Vertex : \A w : w \in Ancestors(v) <=>
          w \in Vertex /\ \A S \in SUBSET Vertex : Closed(v, S) => w \in S
    BY DEF Ancestors, AncestorsIn
<1>5. ASSUME NEW w \in U PROVE w \in Ancestors(c)
    <2>1. PICK p \in Parents(c) : w \in Whole(p)
        BY <1>5
    <2>2. p \in Vertex /\ <<p, c>> \in edges
        BY <1>2, <1>3
    <2>3. w \in Vertex
        BY <1>4, <2>1, <2>2 DEF Whole
    <2>4. ASSUME NEW S \in SUBSET Vertex, Closed(c, S) PROVE w \in S
        <3>1. p \in S
            BY <2>2, <2>4
        <3>2. Closed(p, S)
            BY <2>4, <3>1
        <3> HIDE DEF Closed
        <3> QED BY <1>4, <2>1, <2>2, <3>1, <3>2 DEF Whole
    <2> HIDE DEF Closed
    <2> QED BY <1>4, <2>3, <2>4
<1>6. U \in SUBSET Vertex
    BY <1>1, <1>5
<1>7. Closed(c, U)
    <2> SUFFICES ASSUME NEW e \in edges, e[2] \in U \cup {c} PROVE e[1] \in U
        OBVIOUS
    <2>1. CASE e[2] = c
        <3>1. e[1] \in Parents(c)
            BY <1>2, <1>3, <2>1
        <3> QED BY <3>1 DEF Whole
    <2>2. CASE e[2] \in U
        <3>1. PICK p \in Parents(c) : e[2] \in Whole(p)
            BY <2>2
        <3>2. p \in Vertex
            BY <1>2
        <3>3. \A S \in SUBSET Vertex : Closed(p, S) => e[1] \in S
            <4> SUFFICES ASSUME NEW S \in SUBSET Vertex, Closed(p, S) PROVE e[1] \in S
                OBVIOUS
            <4>1. e[2] \in S \cup {p}
                <5> HIDE DEF Closed
                <5> QED BY <1>4, <3>1, <3>2 DEF Whole
            <4> QED BY <4>1
        <3>4. e[1] \in Ancestors(p)
            <4> HIDE DEF Closed
            <4> QED BY <1>2, <1>4, <3>2, <3>3
        <3> QED BY <3>4 DEF Whole
    <2> QED BY <2>1, <2>2
<1>8. Ancestors(c) \subseteq U
    <2> HIDE DEF Closed, U
    <2> QED BY <1>4, <1>6, <1>7
<1> QED BY <1>1, <1>5, <1>8

LEMMA ReceiverIsChild ==
    ASSUME edges \in Graphs, NEW v \in Vertex
    PROVE  /\ v \notin Receivers(v) /\ Receivers(v) \subseteq Session
           /\ Whole(v) \in Values
           /\ \A c \in Receivers(v) : c \in Vertex => v \in Parents(c)
<1>1. v \notin Parents(v) /\ v # Sink /\ Sink \notin Vertex
    BY AncestorsOf DEF Whole, Vertex
<1>2. \A c \in Children(v) : c \in Vertex /\ v \in Parents(c)
    BY DEF Children, Parents, Vertex
<1>3. Receivers(v) = {Sink} \/ Receivers(v) = Children(v)
    BY DEF Receivers
<1>4. v \notin Receivers(v) /\ Receivers(v) \subseteq Session
    BY <1>1, <1>2, <1>3, SinkAssumption DEF Vertex
<1>5. \A c \in Receivers(v) : c \in Vertex => v \in Parents(c)
    BY <1>1, <1>2, <1>3
<1>6. Whole(v) \in Values
    BY AncestorsOf DEF Whole, Values
<1> QED BY <1>4, <1>5, <1>6
-----------------------------------------------------------------------------
(* The tables of the clients.                                              *)
LEMMA StoredByMaps ==
    ASSUME NEW V, NEW h, WellFormed(h, V)
    PROVE  /\ \A k \in Key : k \in Stored(h) <=> \E w : Maps(h, k, w)
           /\ IsFiniteSet(Stored(h)) /\ Cardinality(Stored(h)) \in Nat
<1>1. \A k \in Key : Position(h, k) # 0 <=> \E w : Maps(h, k, w)
    BY MapsFound
<1>2. IsFiniteSet(Stored(h))
    BY KeyAssumption, FS_Subset DEF Stored
<1> QED BY <1>1, <1>2, FS_CardinalityType DEF Stored

LEMMA TidyNew ==
    ASSUME NEW S, Separated(S, InitialLen)
    PROVE  /\ Tidy(EmptyTable, S) /\ Stored(EmptyTable) = {}
           /\ \A k \in Key : \A w : ~Maps(EmptyTable, k, w)
<1> DEFINE V == Seq(Values) \ {<<>>}
<1> HIDE DEF V
<1>1. /\ WellFormed(EmptyTable, V) /\ EmptyTable.count = 0
      /\ \A k \in Key : Position(EmptyTable, k) = 0
    BY NewTable
<1>2. Stored(EmptyTable) = {}
    BY <1>1 DEF Stored
<1>3. \A k \in Key : \A w : ~Maps(EmptyTable, k, w)
    BY <1>1, <1>2, StoredByMaps
<1>4. Length(EmptyTable) = InitialLen
    BY InitialLenAssumption, IntervalSize DEF Length, EmptyTable
<1> QED BY <1>1, <1>2, <1>3, <1>4, FS_EmptySet DEF Tidy, V

LEMMA TidyPut ==
    ASSUME NEW S \in SUBSET Vertex, NEW h, Tidy(h, S), NEW k \in Key, k \notin Stored(h), NEW b \in Values
    PROVE  /\ Tidy(Put(h, k, b), S) /\ Stored(Put(h, k, b)) = Stored(h) \cup {k}
           /\ \A j \in Key : \A w : Maps(Put(h, k, b), j, w) <=> IF j = k THEN w = <<b>> ELSE Maps(h, j, w)
<1> DEFINE V == Seq(Values) \ {<<>>}
           g == Put(h, k, b)
<1>1. WellFormed(h, V) /\ Position(h, k) = 0
    BY DEF Tidy, Stored
<1>2. <<b>> \in V /\ \A v \in V : Append(v, b) \in V
    <2>1. <<b>> \in Seq(Values) /\ Len(<<b>>) = 1
        OBVIOUS
    <2>2. ASSUME NEW v \in Seq(Values) PROVE Append(v, b) \in Seq(Values) /\ Append(v, b) # <<>>
        <3>1. Append(v, b) \in Seq(Values) /\ Len(Append(v, b)) = Len(v) + 1 /\ Len(v) \in Nat
            BY AppendSeq
        <3> QED BY <3>1, EmptySeq
    <2> QED BY <2>1, <2>2, EmptySeq
<1> HIDE DEF V
<1>3. WellFormed(Put(h, k, b), V)
    BY <1>1, <1>2, PutKeeps
<1>4. Put(h, k, b).count = h.count + 1
    BY <1>1, <1>2, <1>3, PutKeeps
<1>5. \A j \in Key : \A w : Maps(Put(h, k, b), j, w) <=>
          IF j # k THEN Maps(h, j, w)
          ELSE IF Position(h, k) = 0 THEN w = <<b>>
          ELSE w = Append(Bucket(h, k)[Position(h, k)].value, b)
    BY <1>1, <1>2, <1>3, PutKeeps
<1>6. Length(Put(h, k, b)) \in {Length(h), 2 * Length(h)}
    BY <1>1, <1>2, PutLength
<1> HIDE DEF g
<1>7. \A j \in Key : \A w : Maps(g, j, w) <=> IF j = k THEN w = <<b>> ELSE Maps(h, j, w)
    BY <1>1, <1>5 DEF g
<1>8. Stored(g) = Stored(h) \cup {k}
    <2>1. Stored(g) \subseteq Key /\ Stored(h) \subseteq Key
        BY DEF Stored
    <2>2. WellFormed(g, V)
        BY <1>3 DEF g
    <2>3. \A j \in Key : j \in Stored(g) <=> \E w : Maps(g, j, w)
        BY <2>2, StoredByMaps
    <2>4. \A j \in Key : j \in Stored(h) <=> \E w : Maps(h, j, w)
        BY <1>1, StoredByMaps
    <2> QED BY <1>7, <2>1, <2>3, <2>4
<1>9. g.count = Cardinality(Stored(g))
    <2>1. IsFiniteSet(Stored(h)) /\ Cardinality(Stored(h)) \in Nat /\ h.count = Cardinality(Stored(h))
        BY <1>1, StoredByMaps DEF Tidy
    <2>2. Cardinality(Stored(h) \cup {k}) = Cardinality(Stored(h)) + 1
        BY <2>1, FS_AddElement
    <2> QED BY <1>4, <1>8, <2>1, <2>2 DEF g
<1>10. Separated(S, Length(g))
    <2>1. Length(h) \in Nat \ {0}
        BY <1>1, TableShape DEF WellFormed
    <2>2. \A v, w \in S : v \in Key /\ w \in Key
        BY NamesAssumption DEF Vertex
    <2>3. Separated(S, 2 * Length(h))
        BY <2>1, <2>2, ApartInDouble DEF Tidy, Separated
    <2> QED BY <1>6, <2>3 DEF Tidy, g
<1>11. WellFormed(g, Seq(Values) \ {<<>>})
    BY <1>3 DEF g, V
<1> QED BY <1>7, <1>8, <1>9, <1>10, <1>11 DEF Tidy, g

(* Where no two keys share a bucket a key is the first of its own.         *)
LEMMA TidyFirst ==
    ASSUME NEW S \in SUBSET Vertex, NEW h, Tidy(h, S), Stored(h) \subseteq S, NEW k \in Key,
           Bucket(h, k) # <<>>, k \in S
    PROVE  Bucket(h, k)[1].key = k /\ 1 \in DOMAIN Bucket(h, k)
<1> DEFINE V == Seq(Values) \ {<<>>}
           q == Bucket(h, k)[1].key
<1>1. WellFormed(h, V)
    BY DEF Tidy
<1> HIDE DEF V
<1>2. 1 \in DOMAIN Bucket(h, k)
    BY <1>1, BucketOfKey DEF WellFormed
<1>3. q \in Key /\ Hash(q, Length(h)) = Hash(k, Length(h))
    BY <1>1, <1>2, BucketPlaced
<1>4. Bucket(h, q) = Bucket(h, k)
    BY <1>3 DEF Bucket
<1>5. Position(h, q) # 0
    BY <1>1, <1>2, <1>3, <1>4, PositionFound DEF WellFormed
<1> QED BY <1>2, <1>3, <1>5 DEF Tidy, Stored, Separated

LEMMA TidyListed ==
    ASSUME NEW S \in SUBSET Vertex, NEW h, Tidy(h, S), Stored(h) \subseteq S
    PROVE  /\ GetHashedID(h) \in Seq(Vertex)
           /\ {GetHashedID(h)[n] : n \in DOMAIN GetHashedID(h)} = Stored(h)
           /\ \A m, n \in DOMAIN GetHashedID(h) : GetHashedID(h)[m] = GetHashedID(h)[n] => m = n
<1> DEFINE V == Seq(Values) \ {<<>>}
           L == GetHashedID(h)
<1>1. WellFormed(h, V)
    BY DEF Tidy
<1> HIDE DEF V
<1>2. /\ L \in Seq(Key)
      /\ \A n \in DOMAIN L : Bucket(h, L[n]) # <<>> /\ Bucket(h, L[n])[1].key = L[n]
      /\ \A k \in Key : Bucket(h, k) # <<>> => \E n \in DOMAIN L : L[n] = Bucket(h, k)[1].key
      /\ \A m, n \in DOMAIN L : Hash(L[m], Length(h)) = Hash(L[n], Length(h)) => m = n
    BY <1>1, HashedIDs
<1> HIDE DEF L
<1>3. ASSUME NEW n \in DOMAIN L PROVE L[n] \in Stored(h)
    <2>1. L[n] \in Key
        BY <1>2
    <2>2. 1 \in DOMAIN Bucket(h, L[n])
        BY <1>1, <1>2, <2>1, BucketOfKey DEF WellFormed
    <2>3. Position(h, L[n]) # 0
        BY <1>1, <1>2, <2>1, <2>2, PositionFound DEF WellFormed
    <2> QED BY <2>1, <2>3 DEF Stored
<1>4. ASSUME NEW k \in Stored(h) PROVE \E n \in DOMAIN L : L[n] = k
    <2>1. k \in Key /\ k \in S
        BY DEF Stored
    <2>2. \E w : Maps(h, k, w)
        BY <1>1, <2>1, StoredByMaps
    <2>3. Bucket(h, k) # <<>>
        BY <2>2 DEF Maps
    <2>4. Bucket(h, k)[1].key = k
        BY <2>1, <2>3, TidyFirst
    <2> QED BY <1>2, <2>1, <2>3, <2>4
<1>5. L \in Seq(Vertex)
    <2>1. \A n \in DOMAIN L : L[n] \in Vertex
        BY <1>3
    <2> QED BY <1>2, <2>1
<1> QED BY <1>2, <1>3, <1>4, <1>5 DEF L

LEMMA TidyGet ==
    ASSUME NEW S \in SUBSET Vertex, NEW h, Tidy(h, S), Stored(h) \subseteq S, NEW k \in Stored(h), NEW b \in Values,
           Maps(h, k, <<b>>)
    PROVE  /\ FirstMessage(h, k) = b
           /\ Tidy(GetValue(h, k), S) /\ Stored(GetValue(h, k)) = Stored(h) \ {k}
           /\ \A j \in Key : \A w : Maps(GetValue(h, k), j, w) <=> j # k /\ Maps(h, j, w)
<1> DEFINE V == Seq(Values) \ {<<>>}
           g == GetValue(h, k)
<1>1. WellFormed(h, V) /\ k \in Key /\ k \in S
    BY DEF Tidy, Stored
<1>2. Bucket(h, k) # <<>>
    BY DEF Maps
<1>3. Bucket(h, k)[1].key = k /\ 1 \in DOMAIN Bucket(h, k)
    BY <1>1, <1>2, TidyFirst
<1>4. /\ Position(h, k) = 1
      /\ WellFormed(g, V)
      /\ g.count = IF Tail(Bucket(h, k)[1].value) = <<>> THEN h.count - 1 ELSE h.count
      /\ \A j \in Key : \A w : Maps(g, j, w) <=>
             IF j # k THEN Maps(h, j, w) ELSE w = Tail(Bucket(h, k)[1].value) /\ w # <<>>
    <2>1. WellFormed(h, Seq(Values) \ {<<>>})
        BY <1>1
    <2>2. k \in Key
        BY <1>1
    <2> DEFINE v == Bucket(h, k)[1].value
    <2>3. /\ Position(h, k) = 1
          /\ v \in Seq(Values) \ {<<>>}
          /\ WellFormed(GetValue(h, k), Seq(Values) \ {<<>>})
          /\ GetValue(h, k).count = IF Tail(v) = <<>> THEN h.count - 1 ELSE h.count
          /\ \A j \in Key : \A w : Maps(GetValue(h, k), j, w) <=>
                 IF j # k THEN Maps(h, j, w) ELSE w = Tail(v) /\ w # <<>>
        BY <1>2, <1>3, <2>1, <2>2, GetValueKeeps
    <2> QED BY <2>3
<1>5. Bucket(h, k)[1].value = <<b>>
    <2> HIDE DEF V
    <2>1. Bucket(h, k)[Position(h, k)].value = <<b>>
        BY <1>1, MapsFound
    <2> QED BY <1>4, <2>1
<1>6. FirstMessage(h, k) = b
    BY <1>5 DEF FirstMessage
<1>7. Tail(<<b>>) = <<>>
    OBVIOUS
<1>8. Length(g) = Length(h)
    <2> HIDE DEF V
    <2> QED BY <1>1, GetValueLength
<1> HIDE DEF V, g
<1>9. g.count = h.count - 1
    BY <1>4, <1>5, <1>7
<1>10. \A j \in Key : \A w : Maps(g, j, w) <=> j # k /\ Maps(h, j, w)
    BY <1>4, <1>5, <1>7
<1>11. Stored(g) = Stored(h) \ {k}
    <2>1. Stored(g) \subseteq Key /\ Stored(h) \subseteq Key
        BY DEF Stored
    <2>2. \A j \in Key : j \in Stored(g) <=> \E w : Maps(g, j, w)
        BY <1>4, StoredByMaps
    <2>3. \A j \in Key : j \in Stored(h) <=> \E w : Maps(h, j, w)
        BY <1>1, StoredByMaps
    <2> QED BY <1>10, <2>1, <2>2, <2>3
<1>12. g.count = Cardinality(Stored(g))
    <2>1. IsFiniteSet(Stored(h)) /\ Cardinality(Stored(h)) \in Nat /\ h.count = Cardinality(Stored(h))
        BY <1>1, StoredByMaps DEF Tidy
    <2>2. Cardinality(Stored(h) \ {k}) = Cardinality(Stored(h)) - 1
        BY <2>1, FS_RemoveElement
    <2> QED BY <1>9, <1>11, <2>1, <2>2
<1>13. Tidy(g, S)
    <2>1. WellFormed(g, Seq(Values) \ {<<>>})
        BY <1>4 DEF V
    <2> QED BY <1>8, <1>12, <2>1 DEF Tidy
<1> QED BY <1>6, <1>10, <1>11, <1>13 DEF g
-----------------------------------------------------------------------------
LEMMA RunInitInv ==
    ASSUME RunInit, ParentsSeparated
    PROVE  DInv
<1>1. AInv
    BY InitAInv DEF RunInit
<1>2. /\ \A c \in Session : Tidy(EmptyTable, Feeders(c)) /\ Stored(EmptyTable) = {}
      /\ \A k \in Session : \A w : ~Maps(EmptyTable, k, w)
      /\ EmptyTable \in Tables(Seq(Values) \ {<<>>})
    <2>1. \A c \in Session : Separated(Feeders(c), InitialLen)
        <3>1. ASSUME NEW c \in Vertex PROVE Separated(Feeders(c), InitialLen)
            BY DEF RunInit, ParentsSeparated, Feeders
        <3>2. edges \subseteq Vertex \X Vertex /\ Sink \notin Vertex
            BY GraphsAssumption DEF RunInit, Vertex
        <3>3. Feeders(Sink) = {}
            BY <3>2 DEF Feeders
        <3> QED BY <3>1, <3>3 DEF Separated, Vertex
    <2>2. \A c \in Session : /\ Tidy(EmptyTable, Feeders(c)) /\ Stored(EmptyTable) = {}
                             /\ \A k \in Key : \A w : ~Maps(EmptyTable, k, w)
        BY <2>1, TidyNew
    <2> QED BY <2>2, SinkAssumption, NamesAssumption DEF Tidy, WellFormed
<1>3. \A c \in Session : htc[c] = EmptyTable /\ known[c] = {} /\ listener[c] = "off" /\ outbox[c] = {}
    BY DEF RunInit
<1>4. RunTypes
    BY <1>2, <1>3 DEF RunTypes, RunInit, Values
<1>5. Roles
    BY <1>3 DEF Roles, Vertex
<1>6. \A c \in Session : /\ Elements(toServer[c]) = {} /\ Elements(toClient[c]) = {}
                         /\ Addressees(toServer[c]) = {} /\ Senders(toClient[c]) = {}
                         /\ OncePerAddressee(toServer[c]) /\ OncePerSender(toClient[c])
    <2>1. \A c \in Session : toServer[c] = <<>> /\ toClient[c] = <<>>
        BY DEF RunInit, Init
    <2> QED BY <2>1 DEF Elements, Addressees, Senders, OncePerAddressee, OncePerSender
<1>7. Contents
    BY <1>2, <1>3, <1>6 DEF Contents
<1>8. \A c \in Session : Got(c) = {} /\ Expecting(c)
    BY <1>2, <1>3 DEF Got, Expecting
<1>9. OnePlace
    BY <1>3, <1>6, <1>8 DEF OnePlace
<1>10. Progress
    BY <1>3, <1>8 DEF Progress
<1> QED BY <1>1, <1>4, <1>5, <1>7, <1>9, <1>10 DEF DInv

(* What every step finds.                                                  *)
LEMMA Found ==
    ASSUME DInv, NEW c \in Session
    PROVE  /\ toServer[c] \in Seq(Message) /\ toClient[c] \in Seq(Message)
           /\ c \in Key /\ NameOf[c] = c
           /\ Parents(c) \subseteq Vertex
           /\ Stored(htc[c]) \subseteq Parents(c)
           /\ \A k \in Stored(htc[c]) : c \in Vertex /\ Maps(htc[c], k, <<Whole(k)>>)
<1>1. toServer[c] \in Seq(Message) /\ toClient[c] \in Seq(Message)
    BY DEF DInv, AInv, TInv, TypeOK
<1>2. c \in Key /\ NameOf[c] = c
    BY NamesAssumption
<1>3. Parents(c) \subseteq Vertex
    BY DEF Parents, Finals
<1>4. WellFormed(htc[c], Seq(Values) \ {<<>>})
    BY DEF DInv, RunTypes, Tidy
<1>5. ASSUME NEW k \in Stored(htc[c])
      PROVE  c \in Vertex /\ k \in Parents(c) /\ Maps(htc[c], k, <<Whole(k)>>)
    <2>1. k \in Key /\ k \in Session
        BY NamesAssumption DEF Stored
    <2>2. PICK w : Maps(htc[c], k, w)
        BY <1>4, <2>1, StoredByMaps
    <2> QED BY <2>1, <2>2 DEF DInv, Contents
<1> QED BY <1>1, <1>2, <1>3, <1>5

(* The graph does not change.                                              *)
LEMMA GraphKept ==
    ASSUME edges' = edges
    PROVE  /\ \A v : Parents(v)' = Parents(v) /\ Receivers(v)' = Receivers(v)
           /\ \A v : Ancestors(v)' = Ancestors(v) /\ Whole(v)' = Whole(v)
BY DEF Parents, Receivers, Finals, Children, Ancestors, Whole
-----------------------------------------------------------------------------
(* Steps of the accept loop and of the main thread.                        *)
LEMMA QuietInv ==
    ASSUME DInv, AInv',
           UNCHANGED <<edges, known, htc, ids, outbox, toServer, toClient>>,
           started \subseteq started', sources' = sources,
           \A c \in Session : listener'[c] # listener[c] =>
               /\ listener[c] = "off" /\ listener'[c] = "poll" /\ c \in Vertex
               /\ Parents(c) # {} /\ c \in started',
           listener' \in [Session -> {"off", "poll", "merge", "send"}]
    PROVE  DInv'
<1>1. /\ \A v : Parents(v)' = Parents(v) /\ Receivers(v)' = Receivers(v)
      /\ \A v : Ancestors(v)' = Ancestors(v) /\ Whole(v)' = Whole(v)
    BY GraphKept
<1>2. RunTypes'
    BY DEF DInv, RunTypes, Feeders
<1>3. Roles'
    BY <1>1 DEF DInv, Roles
<1>4. Contents'
    BY <1>1 DEF DInv, Contents
<1>5. \A c \in Session : (Expecting(c)' <=> Expecting(c)) /\ Got(c)' = Got(c)
    <2>1. \A c \in Session : Expecting(c)' <=> Expecting(c)
        BY DEF Expecting
    <2> QED BY <1>1, <2>1 DEF Got
<1>6. OnePlace'
    BY <1>5 DEF DInv, OnePlace
<1>7. Progress'
    BY <1>1, <1>5 DEF DInv, Progress, Listing
<1> QED BY <1>2, <1>3, <1>4, <1>6, <1>7 DEF DInv

LEMMA AcceptStepInv ==
    ASSUME DInv, AcceptStep
    PROVE  DInv'
<1>1. Next
    BY DEF AcceptStep, Next, Accepting
<1>2. AInv'
    BY <1>1, StepAInv DEF DInv
<1>3. UNCHANGED <<toServer, toClient, runVars>>
    BY DEF AcceptStep, Accept, ReadUsername, PutEnd, StartThread
<1>4. listener' \in [Session -> {"off", "poll", "merge", "send"}]
    BY <1>3 DEF DInv, RunTypes, runVars
<1> QED BY <1>2, <1>3, <1>4, QuietInv DEF runVars

LEMMA OpenSocketInv ==
    ASSUME DInv, NEW c \in Session, OpenSocket(c)
    PROVE  DInv'
<1>1. Next
    BY DEF OpenSocket, Next
<1>2. AInv'
    BY <1>1, StepAInv DEF DInv
<1>3. UNCHANGED <<toServer, toClient, edges, started, sources, known, htc, listener, ids, outbox>>
    BY DEF OpenSocket, Connect
<1>4. listener' \in [Session -> {"off", "poll", "merge", "send"}]
    BY <1>3 DEF DInv, RunTypes
<1> QED BY <1>2, <1>3, <1>4, QuietInv

LEMMA StartReturnsInv ==
    ASSUME DInv, NEW c \in Session, StartReturns(c)
    PROVE  DInv'
<1>1. Next
    BY DEF StartReturns, Next
<1>2. AInv'
    BY <1>1, StepAInv DEF DInv
<1>3. UNCHANGED <<toServer, toClient, edges, sources, known, htc, ids, outbox>>
    BY DEF StartReturns, Login
<1>4. listener[c] = "off" /\ c \in started' /\ started \subseteq started'
    BY DEF StartReturns, DInv, Roles, RunTypes
<1>5. /\ listener \in [Session -> {"off", "poll", "merge", "send"}]
      /\ listener' = [listener EXCEPT ![c] = IF c # Sink /\ Parents(c) # {} THEN "poll" ELSE @]
    BY DEF StartReturns, DInv, RunTypes
<1>6. listener' \in [Session -> {"off", "poll", "merge", "send"}]
    BY <1>5
<1>7. \A d \in Session : listener'[d] # listener[d] =>
          /\ listener[d] = "off" /\ listener'[d] = "poll" /\ d \in Vertex
          /\ Parents(d) # {} /\ d \in started'
    BY <1>4, <1>5 DEF Vertex
<1> QED BY <1>2, <1>3, <1>4, <1>6, <1>7, QuietInv
-----------------------------------------------------------------------------
(* findMinimalModels of a client that has the values of its parents.       *)
LEMMA ComputeInv ==
    ASSUME DInv, AInv', NEW v \in Vertex, FindMinimalModels(v),
           v \notin known[v], known[v] = Ancestors(v), Stored(htc[v]) = {}, Got(v) = Parents(v),
           UNCHANGED <<edges, htc, ids, toServer, toClient, started>>,
           NEW x \in {"off", "send"}, listener' = [listener EXCEPT ![v] = x],
           x # "off" => listener[v] # "off",
           sources \subseteq sources', Parents(v) = {} => v \in sources'
    PROVE  DInv'
<1>1. /\ \A w : Parents(w)' = Parents(w) /\ Receivers(w)' = Receivers(w)
      /\ \A w : Ancestors(w)' = Ancestors(w) /\ Whole(w)' = Whole(w)
    BY GraphKept
<1>2. v \in Session /\ Receivers(v) \in SUBSET Session /\ Whole(v) \in Values
    BY ReceiverIsChild DEF DInv, RunTypes, Vertex
<1>3. /\ known \in [Session -> Values] /\ outbox \in [Session -> SUBSET Session]
      /\ listener \in [Session -> {"off", "poll", "merge", "send"}]
    BY DEF DInv, RunTypes
<1>4. \A c \in Session : /\ known'[c] = IF c = v THEN Whole(v) ELSE known[c]
                         /\ outbox'[c] = IF c = v THEN Receivers(v) ELSE outbox[c]
                         /\ listener'[c] = IF c = v THEN x ELSE listener[c]
    BY <1>2, <1>3 DEF FindMinimalModels, Whole
<1>5. v \in Whole(v)
    BY DEF Whole
<1>6. RunTypes'
    <2>1. known' \in [Session -> Values] /\ outbox' \in [Session -> SUBSET Session]
        BY <1>2, <1>3, <1>4 DEF FindMinimalModels
    <2>2. listener' \in [Session -> {"off", "poll", "merge", "send"}]
        BY <1>3
    <2> QED BY <2>1, <2>2 DEF DInv, RunTypes, Feeders
<1>7. Roles'
    <2>1. \A c \in Session : listener'[c] # "off" => c \in started' /\ c \in Vertex /\ Parents(c)' # {}
        BY <1>1, <1>4 DEF DInv, Roles
    <2>2. \A w \in Session : \A c \in outbox'[w] : w \in Vertex /\ c \in Receivers(w)'
        BY <1>1, <1>4 DEF DInv, Roles
    <2>3. ASSUME NEW w \in Vertex, Parents(w)' = {}, w \in known'[w] PROVE w \in sources'
        <3>1. w \in Session /\ Parents(w) = {}
            BY <1>1, <2>3 DEF Vertex
        <3>2. w # v => w \in known[w]
            BY <1>4, <2>3, <3>1
        <3> QED BY <3>1, <3>2 DEF DInv, Roles
    <2> QED BY <2>1, <2>2, <2>3 DEF Roles
<1>8. Contents'
    BY <1>1 DEF DInv, Contents
<1>9. \A c \in Session : Got(c)' = Got(c) /\ (Expecting(c)' <=> Expecting(c) /\ c # v)
    <2>1. \A c \in Session : Expecting(c)' <=> Expecting(c) /\ c # v
        BY <1>4, <1>5 DEF Expecting
    <2> QED BY <1>1, <2>1 DEF Got
<1>10. OnePlace'
    BY <1>4, <1>5, <1>9 DEF DInv, OnePlace
<1>11. Progress'
    BY <1>1, <1>4, <1>5, <1>9 DEF DInv, Progress, Listing
<1> QED BY <1>6, <1>7, <1>8, <1>10, <1>11 DEF DInv

LEMMA RunSourceInv ==
    ASSUME DInv, NEW v \in Session, RunSource(v)
    PROVE  DInv'
<1>1. AInv'
    BY StepAInv DEF DInv, RunSource
<1>2. v \in Vertex /\ Parents(v) = {} /\ v \notin sources
    BY DEF RunSource, Sources
<1>3. v \notin known[v] /\ listener[v] = "off"
    BY <1>2 DEF DInv, Roles
<1>4. Expecting(v) /\ known[v] = {}
    BY <1>3 DEF DInv, Expecting, Progress
<1>5. Ancestors(v) = {}
    BY <1>2, AncestorsOf DEF DInv, RunTypes
<1>6. Stored(htc[v]) = {} /\ Got(v) = {}
    BY <1>2, <1>4, Found DEF Got
<1>7. listener' = [listener EXCEPT ![v] = "off"]
    BY <1>3 DEF RunSource, DInv, RunTypes
<1>8. /\ FindMinimalModels(v) /\ sources \subseteq sources' /\ v \in sources'
      /\ UNCHANGED <<edges, htc, ids, toServer, toClient, started>>
    BY DEF RunSource, serverVars
<1> QED BY <1>1, <1>2, <1>3, <1>4, <1>5, <1>6, <1>7, <1>8, ComputeInv

LEMMA MergeDoneInv ==
    ASSUME DInv, NEW v \in Session, MergeDone(v)
    PROVE  DInv'
<1>1. AInv'
    BY StepAInv DEF DInv, MergeDone
<1>2. listener[v] = "merge" /\ ids[v] = <<>>
    BY DEF MergeDone
<1>3. v \in Vertex /\ Parents(v) # {}
    BY <1>2 DEF DInv, Roles
<1>4. Stored(htc[v]) = {}
    <2>1. Listing(v) = {}
        BY <1>2 DEF Listing
    <2> QED BY <1>2, <2>1 DEF DInv, Progress
<1>5. v \notin known[v] /\ known[v] = Ancestors(v)
    <2>1. known[v] \subseteq Ancestors(v) /\ \A p \in Parents(v) : Whole(p) \subseteq known[v]
        BY <1>2, <1>4 DEF DInv, Progress
    <2>2. Ancestors(v) \subseteq known[v]
        BY <1>3, <2>1, AncestorsOf DEF DInv, RunTypes
    <2> QED BY <1>2, <2>1, <2>2 DEF DInv, Progress
<1>6. Got(v) = Parents(v)
    BY <1>2 DEF Got, Expecting
<1>7. /\ FindMinimalModels(v) /\ sources' = sources
      /\ UNCHANGED <<edges, htc, ids, toServer, toClient, started>>
      /\ listener' = [listener EXCEPT ![v] = "send"]
    BY DEF MergeDone, serverVars
<1> QED BY <1>1, <1>2, <1>3, <1>4, <1>5, <1>6, <1>7, ComputeInv
-----------------------------------------------------------------------------
(* A message is sent.                                                      *)
LEMMA WriteObjectInv ==
    ASSUME DInv, NEW v \in Session, NEW r \in Session, WriteObject(v, r)
    PROVE  DInv'
<1> DEFINE m == [to |-> r, from |-> v, n |-> sent'[v], body |-> known[v]]
<1>1. r \in outbox[v] /\ Send(v, r, known[v])
    BY DEF WriteObject
<1>2. v \in Vertex /\ r \in Receivers(v)
    BY <1>1 DEF DInv, Roles
<1>3. v \in known[v] /\ known[v] = Whole(v) /\ known[v] \in Body
    BY <1>1, BodyAssumption DEF DInv, OnePlace, Progress, RunTypes, Values
<1>4. AInv'
    <2>1. r # v
        BY <1>2, ReceiverIsChild DEF DInv, RunTypes
    <2>2. r \in Name \ {NameOf[v]}
        BY <2>1, NamesAssumption
    <2>3. Next
        BY <1>1, <1>3, <2>2 DEF Next
    <2> QED BY <2>3, StepAInv DEF DInv
<1>5. /\ UNCHANGED <<edges, started, sources, known, htc, listener, ids, toClient>>
      /\ outbox' = [outbox EXCEPT ![v] = @ \ {r}]
      /\ toServer' = [toServer EXCEPT ![v] = Append(@, m)]
    BY DEF WriteObject, Send
<1>6. m \in Message
    <2>1. sent'[v] \in Nat
        BY <1>4 DEF AInv, TInv, TypeOK
    <2>2. r \in Name
        BY NamesAssumption
    <2> QED BY <1>3, <2>1, <2>2 DEF Message
<1>7. m.to = r /\ m.from = v /\ m.body = known[v]
    OBVIOUS
<1> HIDE DEF m
<1>8. /\ \A w : Parents(w)' = Parents(w) /\ Receivers(w)' = Receivers(w)
      /\ \A w : Ancestors(w)' = Ancestors(w) /\ Whole(w)' = Whole(w)
    BY <1>5, GraphKept
<1>9. /\ \A c \in Session : outbox'[c] = IF c = v THEN outbox[v] \ {r} ELSE outbox[c]
      /\ outbox' \in [Session -> SUBSET Session]
    BY <1>5 DEF DInv, RunTypes
<1>10. \A c \in Session : toServer'[c] = IF c = v THEN Append(toServer[v], m) ELSE toServer[c]
    BY <1>5 DEF DInv, AInv, TInv, TypeOK
<1>11. /\ Elements(toServer'[v]) = Elements(toServer[v]) \cup {m}
       /\ Addressees(toServer'[v]) = Addressees(toServer[v]) \cup {r}
       /\ OncePerAddressee(toServer'[v])
    <2>1. toServer[v] \in Seq(Message) /\ OncePerAddressee(toServer[v])
        BY Found DEF DInv, OnePlace
    <2>2. r \notin Addressees(toServer[v])
        BY <1>1 DEF DInv, OnePlace
    <2> QED BY <1>6, <1>7, <1>10, <2>1, <2>2, QueueAppend
<1>12. RunTypes'
    <2>1. \A c \in Session : Tidy(htc[c], Feeders(c))'
        BY <1>5 DEF DInv, RunTypes, Feeders
    <2> QED BY <1>5, <1>9, <2>1 DEF DInv, RunTypes
<1>13. Roles'
    BY <1>5, <1>8, <1>9 DEF DInv, Roles
<1>14. Contents'
    BY <1>2, <1>3, <1>5, <1>7, <1>8, <1>10, <1>11 DEF DInv, Contents
<1>15. \A c \in Session : Got(c)' = Got(c) /\ (Expecting(c)' <=> Expecting(c))
    BY <1>5, <1>8 DEF Got, Expecting
<1>16. OnePlace'
    BY <1>1, <1>3, <1>5, <1>9, <1>10, <1>11, <1>15 DEF DInv, OnePlace
<1>17. Progress'
    BY <1>5, <1>8, <1>15 DEF DInv, Progress, Listing
<1> QED BY <1>4, <1>12, <1>13, <1>14, <1>16, <1>17 DEF DInv

(* A message is forwarded, or gets lost.                                   *)
LEMMA ForwardStepInv ==
    ASSUME DInv, NEW s \in Session, ForwardStep(s)
    PROVE  DInv'
<1> DEFINE m == Head(toServer[s])
<1>1. Forward(s) /\ UNCHANGED runVars
    BY DEF ForwardStep
<1>2. AInv'
    <2>1. Next
        BY <1>1 DEF Next, Serving
    <2> QED BY <2>1, StepAInv DEF DInv
<1>3. toServer[s] \in Seq(Message) /\ toServer[s] # <<>> /\ OncePerAddressee(toServer[s])
    BY <1>1, Found DEF Forward, DInv, OnePlace
<1>4. /\ m \in Elements(toServer[s]) /\ m \in Message
      /\ Elements(Tail(toServer[s])) \subseteq Elements(toServer[s])
      /\ OncePerAddressee(Tail(toServer[s]))
      /\ Addressees(Tail(toServer[s])) = Addressees(toServer[s]) \ {m.to}
    BY <1>3, QueueTail
<1>5. s \in Vertex /\ m.from = s /\ m.to \in Receivers(s) /\ m.body = Whole(s)
    BY <1>4 DEF DInv, Contents
<1>6. m.to \in Session /\ m.to \in Addressees(toServer[s])
    BY <1>4, NamesAssumption DEF Message, Addressees
<1>7. toClient' = toClient \/ toClient' = [toClient EXCEPT ![m.to] = Append(@, m)]
    <2>1. PICK c \in Lookup(m.to) :
              IF c = NoSession
              THEN dropped' = dropped \cup {m} /\ UNCHANGED toClient
              ELSE toClient' = WriteMsg(c, m) /\ UNCHANGED dropped
        BY <1>1 DEF Forward, Broadcast
    <2>2. c # NoSession => c = m.to
        <3>1. c # NoSession => c = al[m.to] /\ NameOf[c] = m.to /\ c \in Session
            BY <1>4 DEF Message, Lookup, DInv, AInv, NamesMatch, TInv, TypeOK
        <3> QED BY <3>1, NamesAssumption
    <2> QED BY <2>1, <2>2 DEF WriteMsg
<1>8. toServer' = [toServer EXCEPT ![s] = Tail(@)]
    BY <1>1 DEF Forward
<1> HIDE DEF m
<1>9. /\ \A w : Parents(w)' = Parents(w) /\ Receivers(w)' = Receivers(w)
      /\ \A w : Ancestors(w)' = Ancestors(w) /\ Whole(w)' = Whole(w)
    BY <1>1, GraphKept DEF runVars
<1>10. /\ toServer'[s] = Tail(toServer[s])
       /\ \A c \in Session : c # s => toServer'[c] = toServer[c]
    BY <1>8 DEF DInv, AInv, TInv, TypeOK
<1>11. \A c \in Session : c # m.to => toClient'[c] = toClient[c]
    BY <1>7 DEF DInv, AInv, TInv, TypeOK
<1>12. s \notin Senders(toClient[m.to]) /\ s \notin Got(m.to) /\ s \in known[s]
    BY <1>6 DEF DInv, OnePlace
<1>13. /\ Elements(toClient'[m.to]) \subseteq Elements(toClient[m.to]) \cup {m}
       /\ Senders(toClient'[m.to]) \subseteq Senders(toClient[m.to]) \cup {s}
       /\ OncePerSender(toClient'[m.to])
    <2>1. toClient[m.to] \in Seq(Message) /\ OncePerSender(toClient[m.to])
        BY <1>6, Found DEF DInv, OnePlace
    <2>2. CASE toClient' = toClient
        BY <2>1, <2>2
    <2>3. CASE toClient' = [toClient EXCEPT ![m.to] = Append(@, m)]
        <3>1. toClient'[m.to] = Append(toClient[m.to], m)
            BY <1>6, <2>3 DEF DInv, AInv, TInv, TypeOK
        <3> QED BY <1>4, <1>5, <1>12, <2>1, <3>1, QueueAppend
    <2> QED BY <1>7, <2>2, <2>3
<1>14. RunTypes' /\ Roles'
    BY <1>1, <1>9 DEF DInv, RunTypes, Feeders, Roles, runVars
<1>15. Contents'
    BY <1>1, <1>4, <1>5, <1>6, <1>9, <1>10, <1>11, <1>13 DEF DInv, Contents, runVars
<1>16. \A c \in Session : Got(c)' = Got(c) /\ (Expecting(c)' <=> Expecting(c))
    BY <1>1, <1>9 DEF Got, Expecting, runVars
<1>17. OnePlace'
    BY <1>1, <1>4, <1>6, <1>10, <1>11, <1>12, <1>13, <1>16 DEF DInv, OnePlace, runVars
<1>18. Progress'
    BY <1>1, <1>9, <1>16 DEF DInv, Progress, Listing, runVars
<1> QED BY <1>2, <1>14, <1>15, <1>17, <1>18 DEF DInv
-----------------------------------------------------------------------------
(* A client reads a message.                                               *)
LEMMA ReadAddressed ==
    ASSUME DInv, NEW c \in Session, ReadObject(c)
    PROVE  AInv'
<1>1. /\ toClient' = [toClient EXCEPT ![c] = Tail(@)] /\ toClient[c] # <<>>
      /\ UNCHANGED <<clientVars, acceptVars, toServer, al, thread, closed, touched, stale, dropped>>
    BY DEF ReadObject
<1>2. toClient \in [Session -> Seq(Message)]
    BY DEF DInv, AInv, TInv, TypeOK
<1>3. /\ Tail(toClient[c]) \in Seq(Message) /\ Len(Tail(toClient[c])) = Len(toClient[c]) - 1
      /\ Len(toClient[c]) \in Nat
      /\ \A j \in 1 .. Len(toClient[c]) - 1 : Tail(toClient[c])[j] = toClient[c][j + 1]
    BY <1>1, <1>2, TailSeq
<1>4. toClient' \in [Session -> Seq(Message)]
    BY <1>1, <1>2, <1>3
<1>5. TInv'
    BY <1>1, <1>4 DEF DInv, AInv, TInv, TypeOK, Handling, clientVars, acceptVars
<1>6. NamesMatch'
    BY <1>1 DEF DInv, AInv, NamesMatch
<1>7. AddressedOnly'
    <2> SUFFICES ASSUME NEW s \in Session, NEW j \in 1 .. Len(toClient'[s])
                 PROVE  toClient'[s][j].to = NameOf[s]
        BY DEF AddressedOnly
    <2>1. CASE s = c
        <3>1. toClient'[s] = Tail(toClient[c])
            BY <1>1, <1>2, <2>1
        <3>2. j + 1 \in 1 .. Len(toClient[c]) /\ toClient'[s][j] = toClient[c][j + 1]
            BY <1>3, <3>1
        <3> QED BY <2>1, <3>2 DEF DInv, AInv, AddressedOnly
    <2>2. CASE s # c
        BY <1>1, <1>2, <2>2 DEF DInv, AInv, AddressedOnly
    <2> QED BY <2>1, <2>2
<1> QED BY <1>5, <1>6, <1>7 DEF AInv

LEMMA ReadObjectInv ==
    ASSUME DInv, NEW c \in Session, ReadObject(c)
    PROVE  DInv'
<1> DEFINE m == Head(toClient[c])
           v == m.from
<1>1. /\ c \in started /\ toClient[c] # <<>>
      /\ toClient' = [toClient EXCEPT ![c] = Tail(@)]
      /\ IF c = Sink THEN htc' = htc ELSE htc' = [htc EXCEPT ![c] = Put(@, v, m.body)]
      /\ UNCHANGED <<toServer, edges, started, sources, known, listener, ids, outbox>>
    BY DEF ReadObject
<1>2. AInv'
    BY ReadAddressed
<1>3. toClient[c] \in Seq(Message) /\ OncePerSender(toClient[c])
    BY Found DEF DInv, OnePlace
<1>4. /\ m \in Elements(toClient[c]) /\ m \in Message
      /\ Elements(Tail(toClient[c])) \subseteq Elements(toClient[c])
      /\ OncePerSender(Tail(toClient[c]))
      /\ Senders(Tail(toClient[c])) = Senders(toClient[c]) \ {v}
    BY <1>1, <1>3, QueueTail
<1>5. v \in Vertex /\ c \in Receivers(v) /\ m.body = Whole(v)
    BY <1>4 DEF DInv, Contents
<1>6. v \in Senders(toClient[c]) /\ v \in Session
    BY <1>4, <1>5 DEF Senders, Vertex
<1> HIDE DEF m, v
<1>7. v \notin Got(c) /\ v \in known[v] /\ c \notin outbox[v] /\ c \notin Addressees(toServer[v])
    BY <1>6 DEF DInv, OnePlace
<1>8. /\ \A w : Parents(w)' = Parents(w) /\ Receivers(w)' = Receivers(w)
      /\ \A w : Ancestors(w)' = Ancestors(w) /\ Whole(w)' = Whole(w)
    BY <1>1, GraphKept
<1>9. /\ toClient'[c] = Tail(toClient[c])
      /\ \A d \in Session : d # c => toClient'[d] = toClient[d]
    BY <1>1 DEF DInv, AInv, TInv, TypeOK
<1>10. Roles'
    BY <1>1, <1>8 DEF DInv, Roles
<1>11. \A d \in Session : Expecting(d)' <=> Expecting(d)
    BY <1>1 DEF Expecting
<1>12. CASE c = Sink
    <2>1. htc' = htc
        BY <1>1, <1>12
    <2>2. RunTypes'
        BY <1>1, <2>1 DEF DInv, RunTypes, Feeders
    <2>3. Contents'
        BY <1>1, <1>4, <1>8, <1>9, <2>1 DEF DInv, Contents
    <2>4. \A d \in Session : Got(d)' = Got(d)
        BY <1>8, <1>11, <2>1 DEF Got
    <2>5. OnePlace'
        BY <1>1, <1>4, <1>9, <2>4 DEF DInv, OnePlace
    <2>6. Progress'
        BY <1>1, <1>8, <1>11, <2>1 DEF DInv, Progress, Listing
    <2> QED BY <1>2, <1>10, <2>2, <2>3, <2>5, <2>6 DEF DInv
<1>13. CASE c # Sink
    <2> DEFINE b == Whole(v)
               g == Put(htc[c], v, b)
    <2>1. c \in Vertex /\ v \in Parents(c)
        BY <1>5, <1>13, ReceiverIsChild DEF DInv, RunTypes, Vertex
    <2>2. Expecting(c)
        BY <1>7, <2>1 DEF Got
    <2>3. v \notin Stored(htc[c]) /\ known[c] = {} /\ c \notin known[c]
          /\ listener[c] \in {"off", "poll"}
        BY <1>7, <2>2 DEF Got, DInv, Progress, Expecting
    <2>4. b \in Values /\ v \in Key /\ Tidy(htc[c], Feeders(c))
        BY <1>5, <1>6, ReceiverIsChild, NamesAssumption DEF DInv, RunTypes
    <2>13. Feeders(c) \in SUBSET Vertex /\ \A d \in Session : Feeders(d)' = Feeders(d)
        BY <1>1 DEF Feeders
    <2>5. htc' = [htc EXCEPT ![c] = g]
        BY <1>1, <1>5, <1>13
    <2> HIDE DEF b
    <2>6. /\ Tidy(g, Feeders(c)) /\ Stored(g) = Stored(htc[c]) \cup {v}
          /\ \A j \in Key : \A w : Maps(g, j, w) <=> IF j = v THEN w = <<b>> ELSE Maps(htc[c], j, w)
        BY <2>3, <2>4, <2>13, TidyPut
    <2> HIDE DEF g
    <2>7. htc'[c] = g /\ \A d \in Session : d # c => htc'[d] = htc[d]
        BY <2>5 DEF DInv, RunTypes
    <2>8. RunTypes'
        <3>1. g \in Tables(Seq(Values) \ {<<>>})
            BY <2>6 DEF Tidy, WellFormed
        <3>2. htc' \in [Session -> Tables(Seq(Values) \ {<<>>})]
            BY <2>5, <3>1 DEF DInv, RunTypes
        <3>3. \A d \in Session : Tidy(htc'[d], Feeders(d))
            BY <2>6, <2>7 DEF DInv, RunTypes
        <3> QED BY <1>1, <2>13, <3>2, <3>3 DEF DInv, RunTypes
    <2>9. Contents'
        <3>1. \A d, k \in Session : \A w : Maps(htc'[d], k, w) =>
                  d \in Vertex /\ k \in Parents(d) /\ w = <<Whole(k)>>
            <4> SUFFICES ASSUME NEW d \in Session, NEW k \in Session, NEW w, Maps(htc'[d], k, w)
                         PROVE  d \in Vertex /\ k \in Parents(d) /\ w = <<Whole(k)>>
                OBVIOUS
            <4>1. CASE d = c /\ k = v
                BY <2>1, <2>4, <2>6, <2>7, <4>1 DEF b
            <4>2. CASE ~(d = c /\ k = v)
                <5>1. Maps(htc[d], k, w)
                    BY <2>6, <2>7, <4>2, NamesAssumption
                <5> QED BY <5>1 DEF DInv, Contents
            <4> QED BY <4>1, <4>2
        <3>2. \A d \in Session : \A x \in Elements(toClient'[d]) :
                  x.from \in Vertex /\ d \in Receivers(x.from) /\ x.body = Whole(x.from)
            BY <1>4, <1>9 DEF DInv, Contents
        <3>3. \A d \in Session : \A x \in Elements(toServer'[d]) :
                  d \in Vertex /\ x.from = d /\ x.to \in Receivers(d) /\ x.body = Whole(d)
            BY <1>1 DEF DInv, Contents
        <3> QED BY <1>8, <3>1, <3>2, <3>3 DEF Contents
    <2>10. /\ Got(c)' = Got(c) \cup {v}
           /\ \A d \in Session : d # c => Got(d)' = Got(d)
        BY <1>8, <1>11, <2>2, <2>6, <2>7 DEF Got
    <2>11. OnePlace'
        BY <1>1, <1>4, <1>7, <1>9, <2>10 DEF DInv, OnePlace
    <2>12. Progress'
        BY <1>1, <1>8, <1>11, <2>3, <2>7 DEF DInv, Progress, Listing
    <2> QED BY <1>2, <1>10, <2>8, <2>9, <2>11, <2>12 DEF DInv
<1> QED BY <1>12, <1>13
-----------------------------------------------------------------------------
(* ListenToServer has a message from every parent: none of them is hidden  *)
(* and each is listed once.                                                *)
LEMMA PollInv ==
    ASSUME DInv, NEW c \in Session, Poll(c)
    PROVE  DInv'
<1>1. /\ listener[c] = "poll" /\ htc[c].count = Cardinality(Parents(c))
      /\ ids' = [ids EXCEPT ![c] = GetHashedID(htc[c])]
      /\ listener' = [listener EXCEPT ![c] = "merge"]
      /\ UNCHANGED <<serverVars, edges, started, sources, known, htc, outbox>>
    BY DEF Poll
<1>2. AInv'
    BY <1>1, StepAInv DEF DInv
<1>3. c \in Vertex /\ Parents(c) # {} /\ Tidy(htc[c], Feeders(c)) /\ Stored(htc[c]) \subseteq Parents(c)
      /\ Parents(c) \subseteq Vertex
    BY <1>1, Found DEF DInv, Roles, RunTypes
<1>15. Feeders(c) = Parents(c) /\ Feeders(c) \in SUBSET Vertex
       /\ \A d \in Session : Feeders(d)' = Feeders(d)
    BY <1>1, <1>3 DEF Feeders, Parents, Vertex
<1>4. Stored(htc[c]) = Parents(c)
    <2>1. IsFiniteSet(Parents(c))
        BY <1>3, KeyAssumption, NamesAssumption, FS_Subset DEF Vertex
    <2>2. Cardinality(Stored(htc[c])) = Cardinality(Parents(c))
        BY <1>1, <1>3 DEF Tidy
    <2> QED BY <1>3, <2>1, <2>2, FS_Subset
<1>5. c \notin known[c] /\ Expecting(c) /\ known[c] = {}
    BY <1>1, <1>3, <1>4 DEF DInv, Progress, Expecting
<1>6. /\ GetHashedID(htc[c]) \in Seq(Vertex)
      /\ {GetHashedID(htc[c])[n] : n \in DOMAIN GetHashedID(htc[c])} = Stored(htc[c])
      /\ \A m, n \in DOMAIN GetHashedID(htc[c]) :
             GetHashedID(htc[c])[m] = GetHashedID(htc[c])[n] => m = n
    BY <1>3, <1>15, TidyListed
<1>7. /\ \A w : Parents(w)' = Parents(w) /\ Receivers(w)' = Receivers(w)
      /\ \A w : Ancestors(w)' = Ancestors(w) /\ Whole(w)' = Whole(w)
    BY <1>1, GraphKept
<1>8. /\ \A d \in Session : listener'[d] = IF d = c THEN "merge" ELSE listener[d]
      /\ ids'[c] = GetHashedID(htc[c])
      /\ \A d \in Session : d # c => ids'[d] = ids[d]
    BY <1>1 DEF DInv, RunTypes
<1>9. RunTypes'
    BY <1>1, <1>6, <1>15 DEF DInv, RunTypes
<1>10. Roles'
    BY <1>1, <1>7, <1>8 DEF DInv, Roles
<1>11. Contents'
    BY <1>1, <1>7 DEF DInv, Contents, serverVars
<1>12. \A d \in Session : Got(d)' = Got(d) /\ (Expecting(d)' <=> Expecting(d) /\ d # c)
    <2>1. \A d \in Session : Expecting(d)' <=> Expecting(d) /\ d # c
        BY <1>1, <1>8 DEF Expecting
    <2> QED BY <1>1, <1>4, <1>7, <2>1 DEF Got
<1>13. OnePlace'
    BY <1>1, <1>12 DEF DInv, OnePlace, serverVars
<1>14. Progress'
    <2> SUFFICES ASSUME NEW d \in Session
                 PROVE  /\ Expecting(d)' => known'[d] = {}
                        /\ listener'[d] = "send" => d \in known'[d]
                        /\ d \in known'[d] => d \in Vertex /\ known'[d] = Whole(d) /\ Stored(htc'[d]) = {}
                        /\ listener'[d] = "merge" =>
                               /\ d \notin known'[d] /\ known'[d] \subseteq Ancestors(d)
                               /\ Listing(d)' = Stored(htc'[d])
                               /\ \A m, n \in DOMAIN ids'[d] : ids'[d][m] = ids'[d][n] => m = n
                               /\ \A p \in Parents(d) : p \in Stored(htc'[d]) \/ Whole(p) \subseteq known'[d]
        BY <1>7 DEF Progress
    <2>1. CASE d = c
        <3>1. Listing(d)' = Stored(htc'[d])
            BY <1>1, <1>6, <1>8, <2>1 DEF Listing
        <3>2. \A m, n \in DOMAIN ids'[d] : ids'[d][m] = ids'[d][n] => m = n
            BY <1>6, <1>8, <2>1
        <3> QED BY <1>1, <1>4, <1>5, <1>8, <1>12, <2>1, <3>1, <3>2
    <2>2. CASE d # c
        <3>1. Listing(d)' = Listing(d) /\ ids'[d] = ids[d] /\ listener'[d] = listener[d]
            BY <1>8, <2>2 DEF Listing
        <3>2. Expecting(d)' <=> Expecting(d)
            BY <1>12, <2>2
        <3> QED BY <1>1, <3>1, <3>2 DEF DInv, Progress
    <2> QED BY <2>1, <2>2
<1> QED BY <1>2, <1>9, <1>10, <1>11, <1>13, <1>14 DEF DInv

(* The message of one parent goes from the table into literalMap.          *)
LEMMA UpdateLiteralMapInv ==
    ASSUME DInv, NEW c \in Session, UpdateLiteralMap(c)
    PROVE  DInv'
<1> DEFINE k == ids[c][1]
           g == GetValue(htc[c], k)
<1>1. /\ listener[c] = "merge" /\ ids[c] # <<>>
      /\ known' = [known EXCEPT ![c] = @ \cup FirstMessage(htc[c], k)]
      /\ htc' = [htc EXCEPT ![c] = g]
      /\ ids' = [ids EXCEPT ![c] = Tail(@)]
      /\ UNCHANGED <<serverVars, edges, started, sources, listener, outbox>>
    BY DEF UpdateLiteralMap
<1>2. AInv'
    BY <1>1, StepAInv DEF DInv
<1>3. /\ c \in Vertex /\ c \notin known[c] /\ known[c] \subseteq Ancestors(c)
      /\ Listing(c) = Stored(htc[c])
      /\ \A m, n \in DOMAIN ids[c] : ids[c][m] = ids[c][n] => m = n
      /\ \A p \in Parents(c) : p \in Stored(htc[c]) \/ Whole(p) \subseteq known[c]
    BY <1>1 DEF DInv, Progress, Roles
<1>4. /\ ids[c] \in Seq(Vertex) /\ 1 \in DOMAIN ids[c] /\ Tail(ids[c]) \in Seq(Vertex)
      /\ \A n \in DOMAIN Tail(ids[c]) :
             n + 1 \in DOMAIN ids[c] /\ Tail(ids[c])[n] = ids[c][n + 1] /\ n + 1 # 1 /\ n \in Nat
      /\ \A n \in DOMAIN ids[c] : n = 1 \/ (n - 1 \in DOMAIN Tail(ids[c]) /\ Tail(ids[c])[n - 1] = ids[c][n])
    <2>1. ids[c] \in Seq(Vertex)
        BY DEF DInv, RunTypes
    <2>2. /\ Tail(ids[c]) \in Seq(Vertex) /\ Len(ids[c]) \in Nat /\ Len(ids[c]) > 0
          /\ Len(Tail(ids[c])) = Len(ids[c]) - 1
          /\ \A j \in 1 .. Len(ids[c]) - 1 : Tail(ids[c])[j] = ids[c][j + 1]
        BY <1>1, <2>1, TailSeq
    <2>3. DOMAIN ids[c] = 1 .. Len(ids[c]) /\ DOMAIN Tail(ids[c]) = 1 .. Len(ids[c]) - 1
        BY <2>1, <2>2
    <2> QED BY <2>1, <2>2, <2>3
<1>5. k \in Stored(htc[c])
    BY <1>3, <1>4 DEF Listing
<1>6. /\ Parents(c) \subseteq Vertex /\ Stored(htc[c]) \subseteq Vertex /\ k \in Parents(c)
      /\ Maps(htc[c], k, <<Whole(k)>>) /\ Tidy(htc[c], Feeders(c))
    BY <1>5, Found DEF DInv, RunTypes
<1>18. Feeders(c) = Parents(c) /\ Feeders(c) \in SUBSET Vertex
       /\ \A d \in Session : Feeders(d)' = Feeders(d)
    BY <1>1, <1>5, Found DEF Feeders, Parents, Vertex
<1>7. Whole(k) \in Values /\ Whole(k) \subseteq Ancestors(c) /\ c \notin Ancestors(c) /\ Ancestors(c) \in Values
    <2>1. Whole(k) \in Values
        BY <1>6, ReceiverIsChild DEF DInv, RunTypes
    <2>2. c \notin Ancestors(c) /\ Ancestors(c) \subseteq Vertex
          /\ Ancestors(c) = UNION {Whole(p) : p \in Parents(c)}
        BY <1>3, AncestorsOf DEF DInv, RunTypes
    <2> QED BY <1>6, <2>1, <2>2 DEF Values
<1> HIDE DEF k, g
<1>8. /\ FirstMessage(htc[c], k) = Whole(k)
      /\ Tidy(g, Feeders(c)) /\ Stored(g) = Stored(htc[c]) \ {k}
      /\ \A j \in Key : \A w : Maps(g, j, w) <=> j # k /\ Maps(htc[c], j, w)
    <2> DEFINE b == Whole(k)
    <2>1. b \in Values /\ Maps(htc[c], k, <<b>>)
        BY <1>6, <1>7
    <2>3. Stored(htc[c]) \subseteq Feeders(c) /\ Tidy(htc[c], Feeders(c))
        BY <1>5, <1>6, <1>18, Found
    <2> HIDE DEF b
    <2>2. /\ FirstMessage(htc[c], k) = b
          /\ Tidy(g, Feeders(c)) /\ Stored(g) = Stored(htc[c]) \ {k}
          /\ \A j \in Key : \A w : Maps(g, j, w) <=> j # k /\ Maps(htc[c], j, w)
        BY <1>5, <1>18, <2>1, <2>3, TidyGet DEF g
    <2> QED BY <2>2 DEF b
<1>9. /\ \A w : Parents(w)' = Parents(w) /\ Receivers(w)' = Receivers(w)
      /\ \A w : Ancestors(w)' = Ancestors(w) /\ Whole(w)' = Whole(w)
    BY <1>1, GraphKept
<1>10. /\ known'[c] = known[c] \cup Whole(k) /\ htc'[c] = g /\ ids'[c] = Tail(ids[c])
       /\ \A d \in Session : d # c => known'[d] = known[d] /\ htc'[d] = htc[d] /\ ids'[d] = ids[d]
    BY <1>1, <1>8 DEF DInv, RunTypes
<1>11. known'[c] \subseteq Ancestors(c) /\ c \notin known'[c]
    BY <1>3, <1>7, <1>10
<1>12. RunTypes'
    <2>1. known' \in [Session -> Values]
        <3>1. known[c] \cup Whole(k) \in Values
            BY <1>3, <1>7 DEF Values
        <3> QED BY <1>1, <1>8, <3>1 DEF DInv, RunTypes
    <2>2. htc' \in [Session -> Tables(Seq(Values) \ {<<>>})]
        <3>1. g \in Tables(Seq(Values) \ {<<>>})
            BY <1>8 DEF Tidy, WellFormed
        <3> QED BY <1>1, <3>1 DEF DInv, RunTypes
    <2>3. ids' \in [Session -> Seq(Vertex)]
        BY <1>1, <1>4 DEF DInv, RunTypes
    <2>4. \A d \in Session : Tidy(htc'[d], Feeders(d))
        BY <1>8, <1>10 DEF DInv, RunTypes
    <2> QED BY <1>1, <1>18, <2>1, <2>2, <2>3, <2>4 DEF DInv, RunTypes
<1>13. Roles'
    <2>1. \A w \in Vertex : w \in known'[w] => w \in known[w]
        BY <1>10, <1>11 DEF Vertex
    <2> QED BY <1>1, <1>9, <2>1 DEF DInv, Roles
<1>14. Contents'
    <2>1. \A d, j \in Session : \A w : Maps(htc'[d], j, w) => Maps(htc[d], j, w)
        BY <1>8, <1>10, NamesAssumption
    <2> QED BY <1>1, <1>9, <2>1 DEF DInv, Contents, serverVars
<1>15. \A d \in Session : Got(d)' = Got(d) /\ (Expecting(d)' <=> Expecting(d))
    <2>1. \A d \in Session : Expecting(d)' <=> Expecting(d)
        BY <1>1, <1>10 DEF Expecting
    <2>2. ~Expecting(c)
        BY <1>1 DEF Expecting
    <2> QED BY <1>9, <1>10, <2>1, <2>2 DEF Got
<1>16. OnePlace'
    <2>1. \A d \in Session : d \in known[d] => d \in known'[d]
        BY <1>10
    <2> QED BY <1>1, <1>15, <2>1 DEF DInv, OnePlace, serverVars
<1>17. Progress'
    <2> SUFFICES ASSUME NEW d \in Session
                 PROVE  /\ Expecting(d)' => known'[d] = {}
                        /\ listener'[d] = "send" => d \in known'[d]
                        /\ d \in known'[d] => d \in Vertex /\ known'[d] = Whole(d) /\ Stored(htc'[d]) = {}
                        /\ listener'[d] = "merge" =>
                               /\ d \notin known'[d] /\ known'[d] \subseteq Ancestors(d)
                               /\ Listing(d)' = Stored(htc'[d])
                               /\ \A m, n \in DOMAIN ids'[d] : ids'[d][m] = ids'[d][n] => m = n
                               /\ \A p \in Parents(d) : p \in Stored(htc'[d]) \/ Whole(p) \subseteq known'[d]
        BY <1>9 DEF Progress
    <2>1. CASE d = c
        <3>1. Listing(d)' = Stored(htc'[d])
            <4>1. Listing(c)' = {Tail(ids[c])[n] : n \in DOMAIN Tail(ids[c])}
                BY <1>10 DEF Listing
            <4>2. {Tail(ids[c])[n] : n \in DOMAIN Tail(ids[c])} = Listing(c) \ {k}
                <5> DEFINE t == Tail(ids[c])
                           L == ids[c]
                <5>1. /\ 1 \in DOMAIN L
                      /\ \A n \in DOMAIN t : n + 1 \in DOMAIN L /\ t[n] = L[n + 1] /\ n + 1 # 1
                      /\ \A n \in DOMAIN L : n = 1 \/ (n - 1 \in DOMAIN t /\ t[n - 1] = L[n])
                      /\ \A m, n \in DOMAIN L : L[m] = L[n] => m = n
                    BY <1>3, <1>4
                <5> HIDE DEF t, L
                <5>2. ASSUME NEW n \in DOMAIN t PROVE t[n] \in {L[i] : i \in DOMAIN L} /\ t[n] # L[1]
                    BY <5>1
                <5>3. ASSUME NEW i \in DOMAIN L, L[i] # L[1] PROVE L[i] \in {t[n] : n \in DOMAIN t}
                    BY <5>1, <5>3
                <5>4. {t[n] : n \in DOMAIN t} = {L[i] : i \in DOMAIN L} \ {L[1]}
                    BY <5>2, <5>3
                <5> QED BY <5>4 DEF Listing, k, t, L
            <4> QED BY <1>3, <1>8, <1>10, <2>1, <4>1, <4>2
        <3>2. \A m, n \in DOMAIN ids'[d] : ids'[d][m] = ids'[d][n] => m = n
            <4> SUFFICES ASSUME NEW m \in DOMAIN Tail(ids[c]), NEW n \in DOMAIN Tail(ids[c]),
                                Tail(ids[c])[m] = Tail(ids[c])[n]
                         PROVE  m = n
                BY <1>10, <2>1
            <4>1. m + 1 = n + 1
                BY <1>3, <1>4
            <4> QED BY <1>4, <4>1
        <3>3. \A p \in Parents(d) : p \in Stored(htc'[d]) \/ Whole(p) \subseteq known'[d]
            BY <1>3, <1>8, <1>10, <2>1
        <3> QED BY <1>1, <1>11, <1>15, <2>1, <3>1, <3>2, <3>3 DEF Expecting
    <2>2. CASE d # c
        <3>1. Listing(d)' = Listing(d)
            BY <1>10, <2>2 DEF Listing
        <3> QED BY <1>1, <1>10, <1>15, <2>2, <3>1 DEF DInv, Progress
    <2> QED BY <2>1, <2>2
<1> QED BY <1>2, <1>12, <1>13, <1>14, <1>16, <1>17 DEF DInv

LEMMA SendDoneInv ==
    ASSUME DInv, NEW c \in Session, SendDone(c)
    PROVE  DInv'
<1>1. /\ listener[c] = "send" /\ listener' = [listener EXCEPT ![c] = "poll"]
      /\ UNCHANGED <<serverVars, edges, started, sources, known, htc, ids, outbox>>
    BY DEF SendDone
<1>2. AInv'
    BY <1>1, StepAInv DEF DInv
<1>3. c \in known[c] /\ c \in started /\ c \in Vertex /\ Parents(c) # {}
    BY <1>1 DEF DInv, Progress, Roles
<1>4. /\ \A w : Parents(w)' = Parents(w) /\ Receivers(w)' = Receivers(w)
      /\ \A w : Ancestors(w)' = Ancestors(w) /\ Whole(w)' = Whole(w)
    BY <1>1, GraphKept
<1>5. \A d \in Session : listener'[d] = IF d = c THEN "poll" ELSE listener[d]
    BY <1>1 DEF DInv, RunTypes
<1>6. RunTypes'
    BY <1>1 DEF DInv, RunTypes, Feeders
<1>7. Roles'
    BY <1>1, <1>3, <1>4, <1>5 DEF DInv, Roles
<1>8. Contents'
    BY <1>1, <1>4 DEF DInv, Contents, serverVars
<1>9. \A d \in Session : Got(d)' = Got(d) /\ (Expecting(d)' <=> Expecting(d))
    <2>1. \A d \in Session : Expecting(d)' <=> Expecting(d)
        BY <1>1, <1>3, <1>5 DEF Expecting
    <2> QED BY <1>1, <1>4, <2>1 DEF Got
<1>10. OnePlace'
    BY <1>1, <1>9 DEF DInv, OnePlace, serverVars
<1>11. Progress'
    BY <1>1, <1>4, <1>5, <1>9 DEF DInv, Progress, Listing
<1> QED BY <1>2, <1>6, <1>7, <1>8, <1>10, <1>11 DEF DInv

LEMMA StutterInv ==
    ASSUME DInv, UNCHANGED vars
    PROVE  DInv'
<1>1. AInv'
    BY StepAInv DEF DInv, vars
<1>2. UNCHANGED <<toServer, toClient, edges, started, sources, known, htc, listener, ids, outbox>>
    BY DEF vars, serverVars, runVars
<1>3. listener' \in [Session -> {"off", "poll", "merge", "send"}]
    BY <1>2 DEF DInv, RunTypes
<1> QED BY <1>1, <1>2, <1>3, QuietInv

LEMMA RunStep == DInv /\ [RunNext]_vars => DInv'
<1> SUFFICES ASSUME DInv, [RunNext]_vars PROVE DInv'
    OBVIOUS
<1>1. CASE AcceptStep
    BY <1>1, AcceptStepInv
<1>2. CASE MainStep
    BY <1>2, OpenSocketInv, StartReturnsInv, RunSourceInv DEF MainStep
<1>3. ASSUME NEW c \in Session, ListenStep(c) PROVE DInv'
    BY <1>3, PollInv, UpdateLiteralMapInv, MergeDoneInv, SendDoneInv DEF ListenStep
<1>4. ASSUME NEW c \in Session, ForwardStep(c) \/ ReadObject(c) \/ WriteStep(c) PROVE DInv'
    BY <1>4, ForwardStepInv, ReadObjectInv, WriteObjectInv DEF WriteStep
<1>5. CASE UNCHANGED vars
    BY <1>5, StutterInv
<1> QED BY <1>1, <1>2, <1>3, <1>4, <1>5 DEF RunNext

(* Whatever order the clients were started, their messages forwarded and   *)
(* the threads of the run scheduled in, a client of Socket/Client.java     *)
(* computes with the values of all the ancestors of its vertex and of      *)
(* nothing else: for any number of clients, any acyclic super graph, any   *)
(* hash codes and any length of a new table in which no two parents of a   *)
(* vertex share a bucket (Inbox shows what happens where they do).         *)
THEOREM AncestorsKnown ==
    ASSUME ParentsSeparated
    PROVE  RunSpec => []ComputedWithAncestors
<1>1. RunInit => DInv
    BY RunInitInv
<1>2. DInv => ComputedWithAncestors
    <2> SUFFICES ASSUME DInv, NEW v \in Vertex, v \in known[v]
                 PROVE  known[v] = Ancestors(v) \cup {v}
        BY DEF ComputedWithAncestors
    <2> QED BY DEF DInv, Progress, Whole, Vertex
<1> QED BY <1>1, <1>2, RunStep, PTL DEF RunSpec
=============================================================================
