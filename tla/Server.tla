------------------------------- MODULE Server -------------------------------
(***************************************************************************)
(* Socket/Server.java: the accept loop of start(), the registry al from    *)
(* names to ClientThreads, one ClientThread per connection that forwards   *)
(* what its client sends.  A session is one connection; two sessions may   *)
(* log in with the same name, as two runs of MainProgram against the same  *)
(* server do.  TCP is a FIFO queue in each direction that is cut, with     *)
(* whatever it holds, when an end closes.  stop(), which nothing calls,    *)
(* and the closing loop behind it are left out: keepGoing stays true.      *)
(***************************************************************************)
EXTENDS Integers, Sequences, FiniteSets

CONSTANTS
    Session,
    NoSession,  \* null where a ClientThread is expected
    Name,
    NoName,     \* a username that is null
    NameOf,     \* session -> the name its client logs in with
    Body,       \* the contents of a message
    MaxSend,    \* bound: session -> how many messages its client sends
    Races       \* whether calls of the HashMap al that overlap may fail

ASSUME NullAssumption   == NoSession \notin Session /\ NoName \notin Name
ASSUME NameOfAssumption == NameOf \in [Session -> Name]
ASSUME BoundAssumption  == MaxSend \in [Session -> Nat]
ASSUME RacesAssumption  == Races \in BOOLEAN

VARIABLES
    connected,  \* sessions whose client opened its socket
    logged,     \* sessions whose client wrote its name
    gone,       \* sessions whose client is closed or dead
    backlog,    \* connections accept() has not returned yet
    toServer,   \* session -> messages on their way to the server
    toClient,   \* session -> messages on their way to the client
    sent,       \* history: session -> how many messages its client sent
    acc,        \* where the accept loop is
    cur,        \* the connection it handles
    al,         \* name -> the session registered under it
    nameless,   \* sessions whose name could not be read
    noInput,    \* those of them that have no input stream either
    thread,     \* session -> where its ClientThread is
    closed,     \* sessions whose socket the server closed
    touched,    \* al was changed under the put that is going on
    stale,      \* history: sessions whose remove the put of another one
                \* may have undone
    dropped     \* history: messages of which the server said "No such user"

acceptVars == <<backlog, acc, cur, nameless, noInput>>
clientVars == <<connected, logged, gone, sent>>
serverVars == <<clientVars, acceptVars, toServer, toClient, al, thread,
                closed, touched, stale, dropped>>

Message == [to : Name, from : Session, n : Nat, body : Body]

TypeOK ==
    /\ logged \subseteq connected /\ gone \subseteq connected
    /\ connected \subseteq Session
    /\ backlog \in Seq(connected)
    /\ toServer \in [Session -> Seq(Message)]
    /\ toClient \in [Session -> Seq(Message)]
    /\ sent \in [Session -> Nat]
    /\ acc \in {"accept", "construct", "putting", "start"}
    /\ cur \in connected \cup {NoSession}
    /\ al \in [Name \cup {NoName} -> connected \cup {NoSession}]
    /\ noInput \subseteq nameless /\ nameless \subseteq gone
    /\ thread \in [Session -> {"none", "run", "remove", "ended"}]
    /\ \A s \in Session \ connected : thread[s] = "none"
    /\ closed \subseteq connected
    /\ touched \in BOOLEAN
    /\ stale \subseteq connected
    /\ dropped \subseteq Message

Init ==
    /\ connected = {} /\ logged = {} /\ gone = {}
    /\ backlog = <<>>
    /\ toServer = [s \in Session |-> <<>>]
    /\ toClient = [s \in Session |-> <<>>]
    /\ sent = [s \in Session |-> 0]
    /\ acc = "accept"
    /\ cur = NoSession
    /\ al = [n \in Name \cup {NoName} |-> NoSession]
    /\ nameless = {} /\ noInput = {}
    /\ thread = [s \in Session |-> "none"]
    /\ closed = {}
    /\ touched = FALSE
    /\ stale = {}
    /\ dropped = {}

(* The key a ClientThread is registered under.                             *)
KeyOf(s) == IF s \in nameless THEN NoName ELSE NameOf[s]

Keys == {n \in DOMAIN al : al[n] # NoSession}
-----------------------------------------------------------------------------
(* The clients.  new Socket(server, port) succeeds once the connection is  *)
(* in the backlog of the listening socket.                                 *)
Connect(s) ==
    /\ s \notin connected
    /\ connected' = connected \cup {s}
    /\ backlog' = Append(backlog, s)
    /\ UNCHANGED <<logged, gone, sent, acc, cur, nameless, noInput,
                   toServer, toClient, al, thread, closed, touched, stale, dropped>>

(* The client opens its streams, which waits for the header the            *)
(* ClientThread of its connection writes first, and writes its name.       *)
Login(s) ==
    /\ s \in connected \ (logged \cup gone)
    /\ cur = s
    /\ logged' = logged \cup {s}
    /\ UNCHANGED <<connected, gone, sent, acceptVars, toServer, toClient, al,
                   thread, closed, touched, stale, dropped>>

Send(s, to, body) ==
    /\ s \in logged \ gone
    /\ sent[s] < MaxSend[s]
    /\ sent' = [sent EXCEPT ![s] = @ + 1]
    /\ toServer' = [toServer EXCEPT ![s] =
                       Append(@, [to |-> to, from |-> s, n |-> sent'[s], body |-> body])]
    /\ UNCHANGED <<connected, logged, gone, acceptVars, toClient, al, thread,
                   closed, touched, stale, dropped>>

Leave(s) ==
    /\ s \in connected \ gone
    /\ gone' = gone \cup {s}
    /\ UNCHANGED <<connected, logged, sent, acceptVars, toServer, toClient, al,
                   thread, closed, touched, stale, dropped>>
-----------------------------------------------------------------------------
(* accept() returns.                                                       *)
Accept ==
    /\ acc = "accept"
    /\ backlog # <<>>
    /\ backlog' = Tail(backlog)
    /\ acc' = "construct"
    /\ cur' = Head(backlog)
    /\ UNCHANGED <<clientVars, nameless, noInput, toServer, toClient, al, thread,
                   closed, touched, stale, dropped>>

(* Mutant: the thread of the connection is started before al.put.          *)
ReadUsernameAndStart ==
    /\ acc = "construct"
    /\ cur \in logged
    /\ acc' = "putting"
    /\ touched' = FALSE
    /\ thread' = [thread EXCEPT ![cur] = "run"]
    /\ UNCHANGED <<clientVars, backlog, cur, nameless, noInput,
                   toServer, toClient, al, closed, stale, dropped>>

(* The constructor of ClientThread, run by the accept loop itself: no      *)
(* other connection is accepted before this client has sent its name.      *)
(* Then al.put begins; it takes no lock, and until it ends another thread  *)
(* may call get or remove.                                                 *)
ReadUsername ==
    /\ acc = "construct"
    /\ cur \in logged
    /\ acc' = "putting"
    /\ touched' = FALSE
    /\ UNCHANGED <<clientVars, backlog, cur, nameless, noInput,
                   toServer, toClient, al, thread, closed, stale, dropped>>

(* Mutant: the end of a connection without a name goes unnoticed.          *)
ReadFailsUnnoticed(hasInput) ==
    /\ acc = "construct"
    /\ cur \in gone \cap logged
    /\ acc' = "putting"
    /\ touched' = FALSE
    /\ nameless' = nameless \cup {cur}
    /\ noInput' = IF hasInput THEN noInput ELSE noInput \cup {cur}
    /\ UNCHANGED <<clientVars, backlog, cur, toServer, toClient,
                   al, thread, closed, stale, dropped>>

(* An IOException in the constructor, perhaps before the input stream was  *)
(* there: it returns, and the session is registered under null.            *)
ReadFails(hasInput) ==
    /\ acc = "construct"
    /\ cur \in gone
    /\ acc' = "putting"
    /\ touched' = FALSE
    /\ nameless' = nameless \cup {cur}
    /\ noInput' = IF hasInput THEN noInput ELSE noInput \cup {cur}
    /\ UNCHANGED <<clientVars, backlog, cur, toServer, toClient,
                   al, thread, closed, stale, dropped>>

PutEnd ==
    /\ acc = "putting"
    /\ acc' = "start"
    /\ \/ al' = [al EXCEPT ![KeyOf(cur)] = cur]
       \/ Races /\ touched /\ UNCHANGED al
    /\ UNCHANGED <<clientVars, backlog, cur, nameless, noInput,
                   toServer, toClient, thread, closed, touched, stale, dropped>>

(* t.start(), and back to accept().                                        *)
StartThread ==
    /\ acc = "start"
    /\ thread' = [thread EXCEPT ![cur] = "run"]
    /\ cur' = NoSession
    /\ acc' = "accept"
    /\ UNCHANGED <<clientVars, backlog, nameless, noInput, toServer, toClient, al,
                   closed, touched, stale, dropped>>
-----------------------------------------------------------------------------
(* The session broadcast finds under a name.                               *)
Lookup(n) == {al[n]} \cup IF Races /\ acc = "putting" THEN {NoSession} ELSE {}

(* writeMsg: isConnected() stays true on a closed socket, so the message   *)
(* goes to the stream, and an IOException is only displayed.               *)
WriteMsg(c, m) ==
    IF c \in gone \cup closed THEN toClient
    ELSE [toClient EXCEPT ![c] = Append(@, m)]

(* broadcast: to the one receiver, or "no such user exists" on the console *)
(* of the server.  The sender hears of neither outcome.                    *)
Broadcast(m) ==
    \E c \in Lookup(m.to) :
        IF c = NoSession
        THEN dropped' = dropped \cup {m} /\ UNCHANGED toClient
        ELSE toClient' = WriteMsg(c, m) /\ UNCHANGED dropped

(* Mutant: the messages that are waiting are forwarded newest first.       *)
ForwardNewest(s) ==
    /\ thread[s] = "run"
    /\ toServer[s] # <<>>
    /\ s \notin closed
    /\ LET last == Len(toServer[s])
       IN  /\ Broadcast(toServer[s][last])
           /\ toServer' = [toServer EXCEPT ![s] = SubSeq(@, 1, last - 1)]
    /\ UNCHANGED <<clientVars, acceptVars, al, thread, closed, touched, stale>>

(* One round of run(): a message is read and broadcast.                    *)
Forward(s) ==
    /\ thread[s] = "run"
    /\ toServer[s] # <<>>
    /\ s \notin closed
    /\ Broadcast(Head(toServer[s]))
    /\ toServer' = [toServer EXCEPT ![s] = Tail(@)]
    /\ UNCHANGED <<clientVars, acceptVars, al, thread, closed, touched, stale>>

(* readObject fails: out of the loop, or dead on a null input stream.      *)
ReadEnds(s) ==
    /\ thread[s] = "run"
    /\ s \in gone \cup closed
    /\ thread' = [thread EXCEPT ![s] = IF s \in noInput THEN "ended" ELSE "remove"]
    /\ UNCHANGED <<clientVars, acceptVars, toServer, toClient, al, closed,
                   touched, stale, dropped>>

(* remove(username), of whichever session the name stands for by now, and  *)
(* close().                                                                *)
RemoveUsername(s) ==
    /\ thread[s] = "remove"
    /\ thread' = [thread EXCEPT ![s] = "ended"]
    /\ closed' = closed \cup {s}
    /\ \/ al' = [al EXCEPT ![KeyOf(s)] = NoSession]
       \/ Races /\ acc = "putting" /\ UNCHANGED al
    /\ touched' = (touched \/ al[KeyOf(s)] # NoSession)
    /\ stale' = IF Races /\ acc = "putting" /\ s # cur THEN stale \cup {s} ELSE stale
    /\ UNCHANGED <<clientVars, acceptVars, toServer, toClient, dropped>>
-----------------------------------------------------------------------------
Accepting ==
    \/ Accept \/ ReadUsername \/ (\E b \in BOOLEAN : ReadFails(b))
    \/ PutEnd \/ StartThread

Serving(s) == Forward(s) \/ ReadEnds(s) \/ RemoveUsername(s)

Next ==
    \/ Accepting
    \/ \E s \in Session :
          \/ Serving(s)
          \/ Connect(s) \/ Login(s) \/ Leave(s)
          \/ \E n \in Name \ {NameOf[s]}, b \in Body : Send(s, n, b)

Spec == Init /\ [][Next]_serverVars

(* The threads of the server run; a client that got its streams writes its *)
(* name next.  Nothing makes a client connect, send or leave.              *)
FairSpec ==
    /\ Spec
    /\ WF_serverVars(Accepting)
    /\ \A s \in Session : WF_serverVars(Serving(s)) /\ WF_serverVars(Login(s))
-----------------------------------------------------------------------------
(* A name stands for a session that logged in with it and whose thread is  *)
(* not past its remove: the registry holds no dead entry for broadcast to  *)
(* write to, but for a removal that a put running beside it has undone.    *)
RegisteredAlive ==
    \A n \in Name : al[n] # NoSession =>
        /\ NameOf[al[n]] = n
        /\ thread[al[n]] = "ended" => al[n] \in stale

(* Messages reach nobody but clients with the name of the receiver, and    *)
(* those of one sender in the order they were sent, each at most once,     *)
(* whoever connects, leaves or takes over a name in between.               *)
AddressedOnly ==
    \A s \in Session : \A j \in 1 .. Len(toClient[s]) : toClient[s][j].to = NameOf[s]

OrderKept ==
    \A s \in Session : \A j, k \in 1 .. Len(toClient[s]) :
        (j < k /\ toClient[s][j].from = toClient[s][k].from) =>
            toClient[s][j].n < toClient[s][k].n

(* Every connection gets its thread, although the accept loop waits for    *)
(* the name of each client in turn.                                        *)
EveryConnectionServed ==
    \A s \in Session : (s \in connected) ~> (thread[s] # "none")

=============================================================================
