---------------------------- MODULE Distributed -----------------------------
(***************************************************************************)
(* One run of Test/MainProgram.java: a client per vertex of the super      *)
(* graph and one for the sink, all in one process, around the server.  A   *)
(* client computes when it has a message from every parent and sends its   *)
(* literalMap on to its children, or to the sink if it has none.           *)
(*                                                                         *)
(* A literalMap is abstracted to the set of the vertices whose component   *)
(* it has values for; the solver always answers (ConstructMinimalModels    *)
(* sends on whatever it has).  HashTable is used with atomic calls: see    *)
(* Inbox for the two threads that share it.                                *)
(***************************************************************************)
EXTENDS Server, HashTable

CONSTANTS Sink,     \* the client of vertex -100
          Graphs    \* the acyclic edge relations a run may start with

Vertex == Session \ {Sink}

(* The smallest set with every parent of v and of its own members.         *)
AncestorsIn(g, v) ==
    {w \in Vertex : \A S \in SUBSET Vertex :
        (\A e \in g : e[2] \in S \cup {v} => e[1] \in S) => w \in S}

ASSUME NamesAssumption  == Name = Session /\ Key = Session /\ \A s \in Session : NameOf[s] = s
ASSUME SinkAssumption   == Sink \in Session
ASSUME GraphsAssumption ==
    \A g \in Graphs : /\ g \subseteq Vertex \X Vertex
                      /\ \A v \in Vertex : v \notin AncestorsIn(g, v)
ASSUME BodyAssumption   == Body = SUBSET Vertex

VARIABLES
    edges,      \* the super graph, as pairs of parent and child
    main,       \* where MainProgram is
    started,    \* clients whose start() has returned
    sources,    \* sources on which main has called findMinimalModels
    known,      \* client -> vertices with values in its literalMap
    htc,        \* client -> its hash table
    listener,   \* client -> where its ListenToServer thread is
    ids,        \* client -> the ids that thread has still to merge
    outbox,     \* client -> receivers sendMessage has still to write to
    printed     \* messages the sink has printed

runVars == <<edges, main, started, sources, known, htc, listener, ids, outbox, printed>>
vars == <<serverVars, runVars>>

Children(v)  == {w \in Vertex : <<v, w>> \in edges}
Finals       == {v \in Vertex : Children(v) = {}}
Parents(c)   == IF c = Sink THEN Finals ELSE {v \in Vertex : <<v, c>> \in edges}

(* Mutant: a final vertex has no one to send to.                           *)
ReceiversChildrenOnly(v) == Children(v)

Receivers(v) == IF Children(v) = {} THEN {Sink} ELSE Children(v)
Sources      == {v \in Vertex : Parents(v) = {}}

Ancestors(v) == AncestorsIn(edges, v)

RunInit ==
    /\ Init
    /\ edges \in Graphs
    /\ main = "start"
    /\ started = {}
    /\ sources = {}
    /\ known = [c \in Session |-> {}]
    /\ htc = [c \in Session |-> EmptyTable]
    /\ listener = [c \in Session |-> "off"]
    /\ ids = [c \in Session |-> <<>>]
    /\ outbox = [c \in Session |-> {}]
    /\ printed = {}
-----------------------------------------------------------------------------
(* MainProgram starts the clients of the vertices one by one, the sink's   *)
(* after them; start() opens the socket ...                                *)
OpenSocket(c) ==
    /\ main = "start"
    /\ c = Sink => started = Vertex
    /\ Connect(c)
    /\ main' = "login"
    /\ UNCHANGED <<edges, started, sources, known, htc, listener, ids, outbox, printed>>

(* ... and returns when the name is written.  ListenToServer runs for a    *)
(* client with parents; the sink's has nothing to do.                      *)
StartReturns(c) ==
    /\ main = "login"
    /\ c \notin started
    /\ Login(c)
    /\ started' = started \cup {c}
    /\ listener' = [listener EXCEPT ![c] =
                       IF c # Sink /\ Parents(c) # {} THEN "poll" ELSE @]
    /\ main' = IF c = Sink THEN "run" ELSE "start"
    /\ UNCHANGED <<edges, sources, known, htc, ids, outbox, printed>>

(* findMinimalModels and the start of sendMessage, by whichever thread.    *)
FindMinimalModels(v) ==
    /\ known' = [known EXCEPT ![v] = @ \cup {v}]
    /\ outbox' = [outbox EXCEPT ![v] = Receivers(v)]

(* main calls findMinimalModels on the sources in turn.                    *)
RunSource(v) ==
    /\ main = "run"
    /\ v \in Sources \ sources
    /\ \A w \in sources : outbox[w] = {}
    /\ FindMinimalModels(v)
    /\ sources' = sources \cup {v}
    /\ UNCHANGED <<serverVars, edges, main, started, htc, listener, ids, printed>>

(* One turn of the loop of sendMessage.                                    *)
WriteObject(v, r) ==
    /\ r \in outbox[v]
    /\ Send(v, r, known[v])
    /\ outbox' = [outbox EXCEPT ![v] = @ \ {r}]
    /\ UNCHANGED <<edges, main, started, sources, known, htc, listener, ids, printed>>
-----------------------------------------------------------------------------
(* ListenFromServer                                                        *)
ReadObject(c) ==
    /\ c \in started
    /\ toClient[c] # <<>>
    /\ LET m == Head(toClient[c])
       IN  IF c = Sink
           THEN printed' = printed \cup {m} /\ UNCHANGED htc
           ELSE htc' = [htc EXCEPT ![c] = Put(@, m.from, m.body)] /\ UNCHANGED printed
    /\ toClient' = [toClient EXCEPT ![c] = Tail(@)]
    /\ UNCHANGED <<clientVars, acceptVars, toServer, al, thread, closed, touched, stale,
                   dropped, edges, main, started, sources, known, listener, ids, outbox>>

(* Mutant: the first message is enough.                                    *)
PollNotEmpty(c) ==
    /\ listener[c] = "poll"
    /\ htc[c].count > 0
    /\ ids' = [ids EXCEPT ![c] = GetHashedID(htc[c])]
    /\ listener' = [listener EXCEPT ![c] = "merge"]
    /\ UNCHANGED <<serverVars, edges, main, started, sources, known, htc, outbox, printed>>

(* ListenToServer: htc.size() == parent.size()                             *)
Poll(c) ==
    /\ listener[c] = "poll"
    /\ htc[c].count = Cardinality(Parents(c))
    /\ ids' = [ids EXCEPT ![c] = GetHashedID(htc[c])]
    /\ listener' = [listener EXCEPT ![c] = "merge"]
    /\ UNCHANGED <<serverVars, edges, main, started, sources, known, htc, outbox, printed>>

(* updateLiteralMap(htc.getValue(pid))                                     *)
UpdateLiteralMap(c) ==
    /\ listener[c] = "merge"
    /\ ids[c] # <<>>
    /\ known' = [known EXCEPT ![c] = @ \cup FirstMessage(htc[c], ids[c][1])]
    /\ htc' = [htc EXCEPT ![c] = GetValue(@, ids[c][1])]
    /\ ids' = [ids EXCEPT ![c] = Tail(@)]
    /\ UNCHANGED <<serverVars, edges, main, started, sources, listener, outbox, printed>>

MergeDone(c) ==
    /\ listener[c] = "merge"
    /\ ids[c] = <<>>
    /\ FindMinimalModels(c)
    /\ listener' = [listener EXCEPT ![c] = "send"]
    /\ UNCHANGED <<serverVars, edges, main, started, sources, htc, ids, printed>>

SendDone(c) ==
    /\ listener[c] = "send"
    /\ outbox[c] = {}
    /\ listener' = [listener EXCEPT ![c] = "poll"]
    /\ UNCHANGED <<serverVars, edges, main, started, sources, known, htc, ids, outbox, printed>>
-----------------------------------------------------------------------------
(* No client leaves and nobody stops the server during the run.            *)
AcceptStep == (Accept \/ ReadUsername \/ PutEnd \/ StartThread) /\ UNCHANGED runVars

ForwardStep(c) == Forward(c) /\ UNCHANGED runVars

MainStep == \E c \in Session : OpenSocket(c) \/ StartReturns(c) \/ RunSource(c)

ListenStep(c) == Poll(c) \/ UpdateLiteralMap(c) \/ MergeDone(c) \/ SendDone(c)

WriteStep(c) == \E r \in Session : WriteObject(c, r)

RunNext ==
    \/ AcceptStep
    \/ MainStep
    \/ \E c \in Session :
          ForwardStep(c) \/ ReadObject(c) \/ ListenStep(c) \/ WriteStep(c)

(* Every thread of the run gets its turn; TCP delivers.                    *)
RunSpec ==
    /\ RunInit
    /\ [][RunNext]_vars
    /\ WF_vars(AcceptStep) /\ WF_vars(MainStep)
    /\ \A c \in Session : /\ WF_vars(ForwardStep(c)) /\ WF_vars(ReadObject(c))
                          /\ WF_vars(ListenStep(c))  /\ WF_vars(WriteStep(c))
-----------------------------------------------------------------------------
(* A vertex computes with the values of all its ancestors, and of nothing  *)
(* else, whatever the order in which the clients were started and the      *)
(* messages forwarded.                                                     *)
ComputedWithAncestors ==
    \A v \in Vertex : v \in known[v] => known[v] = Ancestors(v) \cup {v}

(* If nothing is dropped the sink prints a message of every final vertex.  *)
SinkHearsAll ==
    <>[](dropped = {} => \A v \in Finals : \E m \in printed : m.from = v)
=============================================================================
