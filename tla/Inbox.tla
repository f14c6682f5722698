------------------------------- MODULE Inbox --------------------------------
(***************************************************************************)
(* The inbox of one client of Socket/Client.java: ListenFromServer puts    *)
(* the messages of the parents into htc while ListenToServer polls it and  *)
(* merges.  The two threads share htc and literalMap without a lock.  Each *)
(* parent sends once (see Distributed).                                    *)
(***************************************************************************)
EXTENDS HashTable

VARIABLES
    parents,    \* the parents of the client, any vertices with a name in Key
    inOrder,    \* TRUE if the two stores of put, the link to the new node
                \* and count, become visible in program order; FALSE if the
                \* memory model swaps them, as it may: nothing is volatile
    arrived,    \* parents whose message ListenFromServer has read
    putting,    \* the parent whose message is being put, or {}
    stores,     \* the stores of that put that are not visible yet
    htc,
    polling,    \* "poll" or "merge": where ListenToServer is
    ids,        \* the ids getHashedID returned that are still to be merged
    merged,     \* history: parents whose values are in literalMap
    runs        \* history: how often findMinimalModels was called

choices == <<parents, inOrder>>

inboxVars == <<choices, arrived, putting, stores, htc, polling, ids,
               merged, runs>>

MaxRuns == 2    \* bound: calls of findMinimalModels

Init ==
    /\ parents \in (SUBSET Key) \ {{}}
    /\ inOrder \in BOOLEAN
    /\ arrived = {}
    /\ putting = {}
    /\ stores = {}
    /\ htc = EmptyTable
    /\ polling = "poll"
    /\ ids = <<>>
    /\ merged = {}
    /\ runs = 0
-----------------------------------------------------------------------------
(* ListenFromServer reads the message of p and enters put: the search of   *)
(* the chain fails, p has sent nothing before, and a full table is resized *)
(* while ListenToServer may be looking at its count.                       *)
Receive(p) ==
    /\ p \in parents \ arrived
    /\ putting = {}
    /\ arrived' = arrived \cup {p}
    /\ putting' = {p}
    /\ stores' = {"link", "count"}
    /\ htc' = Room(htc)
    /\ UNCHANGED <<choices, polling, ids, merged, runs>>

(* One of the last stores of put becomes visible.                          *)
Store(s) ==
    /\ s \in stores
    /\ (inOrder /\ s = "count") => "link" \notin stores
    /\ htc' = IF s = "count" THEN Counted(htc)
              ELSE Link(htc, CHOOSE p \in putting : TRUE, "message")
    /\ stores' = stores \ {s}
    /\ putting' = IF stores' = {} THEN {} ELSE putting
    /\ UNCHANGED <<choices, arrived, polling, ids, merged, runs>>

(* Mutant: the loop goes on as soon as a message is there.                 *)
PollNotEmpty ==
    /\ polling = "poll"
    /\ htc.count > 0
    /\ runs < MaxRuns
    /\ ids' = GetHashedID(htc)
    /\ polling' = "merge"
    /\ UNCHANGED <<choices, arrived, putting, stores, htc, merged, runs>>

(* Mutant: the loop waits for more messages than there are parents.        *)
PollForMore ==
    /\ polling = "poll"
    /\ htc.count > Cardinality(parents)
    /\ runs < MaxRuns
    /\ ids' = GetHashedID(htc)
    /\ polling' = "merge"
    /\ UNCHANGED <<choices, arrived, putting, stores, htc, merged, runs>>

(* htc.size() == parent.size(): the ids are listed and the loop starts.    *)
(* Otherwise the thread sleeps and looks again.                            *)
Poll ==
    /\ polling = "poll"
    /\ htc.count = Cardinality(parents)
    /\ runs < MaxRuns
    /\ ids' = GetHashedID(htc)
    /\ polling' = "merge"
    /\ UNCHANGED <<choices, arrived, putting, stores, htc, merged, runs>>

(* updateLiteralMap(htc.getValue(pid))                                     *)
UpdateLiteralMap ==
    /\ polling = "merge"
    /\ ids # <<>>
    /\ merged' = merged \cup {Bucket(htc, ids[1])[1].key}
    /\ htc' = GetValue(htc, ids[1])
    /\ ids' = Tail(ids)
    /\ UNCHANGED <<choices, arrived, putting, stores, polling, runs>>

(* findMinimalModels() with whatever was merged.                           *)
FindMinimalModels ==
    /\ polling = "merge"
    /\ ids = <<>>
    /\ runs' = runs + 1
    /\ polling' = "poll"
    /\ UNCHANGED <<choices, arrived, putting, stores, htc, ids, merged>>

Next ==
    \/ \E p \in Key : Receive(p)
    \/ \E s \in {"link", "count"} : Store(s)
    \/ Poll
    \/ UpdateLiteralMap
    \/ FindMinimalModels

(* Every message arrives in the end and both threads keep running.         *)
Fairness ==
    /\ \A p \in Key : WF_inboxVars(Receive(p))
    /\ \A s \in {"link", "count"} : WF_inboxVars(Store(s))
    /\ WF_inboxVars(Poll)
    /\ WF_inboxVars(UpdateLiteralMap)
    /\ WF_inboxVars(FindMinimalModels)

Spec == Init /\ [][Next]_inboxVars /\ Fairness
-----------------------------------------------------------------------------

Collide(p, q) == Hash(p, Length(htc)) = Hash(q, Length(htc))

(* What a run misses is exactly what getHashedID hides, a parent whose     *)
(* name shares its bucket with the name of a parent that was merged.  If   *)
(* the stores of put are swapped, the last parent's count can be seen      *)
(* before its node: a run then misses that parent too, and no other.       *)
MissedOnlyIfHidden ==
    runs > 0 =>
        Cardinality({p \in parents \ merged : \A q \in merged : ~Collide(p, q)})
            <= (IF inOrder THEN 0 ELSE 1)

(* A client that has a message from every parent gets to its run.          *)
RunsInTheEnd == <>(runs > 0)
=============================================================================
