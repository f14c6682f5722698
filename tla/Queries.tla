------------------------------ MODULE Queries ------------------------------
(***************************************************************************)
(* QueryInterface and CautiousReasoning: the visible variables that are    *)
(* true in every answer set.  A candidate is true in all models found so   *)
(* far; it becomes an answer when it is found true at level zero, or when  *)
(* the solver finds no model without it.  An action is a call of the       *)
(* solver, with what is done until the next one.                           *)
(***************************************************************************)
EXTENDS SolverOracle

VARIABLES candidates,    \* those not settled yet, in their order
          answers,
          chunk,         \* the candidates taken out for a chunk
          aux,           \* the variable that switches a chunk's clause off, or 0
          tested,        \* the literal that primeImplicate took off the conflict
          round,         \* candidates at the start of a round of minimalAlgorithm
          cache          \* CoreBasedUtil

ask == <<candidates, answers, chunk, aux, tested, round, cache>>
askVars == <<solver, task, pc, assumptions, ask>>

Negated(s) == {-s[i] : i \in DOMAIN s}
Minus(s, v) ==         \* findAndRemove: the last one takes the place
    IF v \in ToSet(s) THEN Front([i \in DOMAIN s |-> IF s[i] = v THEN Last(s) ELSE s[i]]) ELSE s
Go(c, a, A, next) == candidates' = c /\ answers' = a /\ Call(A, next)

(* What a call may find out about the candidates, and what the propagation *)
(* of a new unit clause may.                                               *)
Known == Learned(ToSet(candidates) \cup ToSet(chunk))
Asserted(ms, C, z) ==
    LET implied == {v \in ToSet(candidates) \cup ToSet(chunk) : ms # {} /\ \A M \in ms : v \in M}
    IN  IF Cardinality(C) = 1 THEN {z \cup C \cup F : F \in SUBSET (implied \ z)} ELSE {z}
Incoherent(z) == Cores(assumptions, z) # {}

(* reduceCandidates and the listener of CautiousReasoning.                 *)
Kept(s, M, z) == Keep(s, M \ z)
(* Mutant: a candidate that is true at level zero is dropped.              *)
Without(a, s, z) == a
With(a, s, z) == a \o Keep(s, z)
(* Those without a value at level zero.                                    *)
Open(s, z) == Keep(s, {v \in ToSet(s) : v \notin z /\ -v \notin z})
FirstCandidates == Ascending(problem.visible)

-----------------------------------------------------------------------------
(* iterativeCoherenceTesting: the last candidate is assumed false; those   *)
(* behind it that have a value at level zero are settled first.            *)
Test(c, a, z) ==
    LET open == {i \in DOMAIN c : c[i] \notin z /\ -c[i] \notin z}
        left == SubSeq(c, 1, Max({0} \cup open))
        settled == Reverse(SubSeq(c, Len(left) + 1, Len(c)))
    IN  IF left = <<>> THEN Go(left, With(a, settled, z), {}, "done")
        ELSE Go(left, With(a, settled, z), {-Last(left)}, "ict")

IterativeCoherenceTesting ==
    /\ pc = "ict"
    /\ \E z \in Known :
         \/ /\ \E M \in models : FoundModel(assumptions, M)
                                 /\ Test(Kept(candidates, M, z), With(answers, candidates, z), z)
            /\ zero' = z
         \/ /\ Incoherent(z)
            /\ Test(Front(candidates), Append(answers, Last(candidates)), z \cup {Last(candidates)})
            /\ zero' = z \cup {Last(candidates)}
    /\ UNCHANGED <<models, size, task, chunk, aux, tested, round, cache>>

(* overestimateReduction: one of the candidates must be false.             *)
Overestimate(c, a, z) ==
    /\ models' = Restricted(models, Negated(c))
    /\ zero' \in Asserted(models', Negated(c), z)
    /\ Go(c, a, {}, IF c = <<>> THEN "done" ELSE "or")

OverestimateReduction ==
    /\ pc = "or"
    /\ \E z \in Known :
         \/ \E M \in models : Overestimate(Kept(candidates, M, z), With(answers, candidates, z), z)
         \/ /\ models = {}
            /\ zero' = z
            /\ Go(<<>>, answers \o candidates, {}, "done") /\ UNCHANGED models
    /\ UNCHANGED <<size, task, chunk, aux, tested, round, cache>>

(* coreBasedAlgorithm: the first candidates are assumed false, without the *)
(* cores found; when no assumption is left they are tested one by one.     *)
CoreChunk(c, a) ==
    LET n == IF algorithm.chunk = 0 THEN Len(c) ELSE Min({algorithm.chunk, Len(c)})
    IN  Go(c, a, Negated(SubSeq(c, 1, n)), IF c = <<>> THEN "done" ELSE "cb")

CoreBasedAlgorithm ==
    /\ pc = "cb"
    /\ \E z \in Known :
         \/ /\ \E M \in models : FoundModel(assumptions, M)
                                 /\ CoreChunk(Kept(candidates, M, z), With(answers, candidates, z))
            /\ zero' = z
         \/ \E C \in Cores(assumptions, z) :
              LET single == IF Cardinality(C) = 1 THEN SetToSeq(Opposite(C)) ELSE <<>>
                  c == IF single = <<>> THEN candidates ELSE Minus(candidates, single[1])
                  a == answers \o single
              IN  /\ zero' = Settled(C, z)
                  /\ IF assumptions = C THEN Test(c, a, zero') ELSE Go(c, a, assumptions \ C, "cb")
    /\ UNCHANGED <<models, size, task, chunk, aux, tested, round, cache>>

-----------------------------------------------------------------------------
(* A chunk's clause: one of its candidates is false unless aux is true,    *)
(* which is assumed false and becomes true when the chunk is done with.    *)
NewChunk(s, done) ==
    /\ aux' = size + 1 /\ size' = size + 1
    /\ models' = {M \in Extended(1) : (done => aux \in M) /\ Sat(M, Negated(s) \cup {size + 1})}

(* chunkDynamicAlgorithm: the chunk is always the first candidates.        *)
FirstOf(c) == SubSeq(c, 1, Min({algorithm.chunk, Len(c)}))
Dynamic(c, a) ==
    IF c = <<>> THEN Go(c, a, {}, "done") /\ UNCHANGED <<models, size, aux>>
    ELSE NewChunk(FirstOf(c), aux # 0) /\ Go(c, a, {-(size + 1)}, "dynamic")

ChunkDynamicAlgorithm ==
    /\ pc = "dynamic"
    /\ zero' \in Known
    /\ \/ \E M \in models : FoundModel(assumptions, M)
                            /\ Dynamic(Kept(candidates, M, zero'), With(answers, candidates, zero'))
       \/ LET others == SubSeq(candidates, Len(FirstOf(candidates)) + 1, Len(candidates))
          IN  /\ Incoherent(zero')
              /\ Dynamic(Open(others, zero'),
                         With(answers \o FirstOf(candidates), others, zero'))
    /\ UNCHANGED <<task, chunk, tested, round, cache>>

(* chunkStaticAlgorithm: the chunk is taken from the end of the candidates *)
(* and kept until it is empty; what has a value at level zero is passed    *)
(* over, and lost, when the next one is taken.                             *)
TakeChunk(c, z) ==
    LET open == {i \in DOMAIN c : c[i] \notin z /\ -c[i] \notin z}
        from == {i \in open : Cardinality({j \in open : j >= i}) = algorithm.chunk}
        first == IF from = {} THEN 1 ELSE Max(from)
    IN  [rest |-> SubSeq(c, 1, first - 1),
         chunk |-> Reverse(Open(SubSeq(c, first, Len(c)), z))]

Static(c, s, a, z) ==
    IF c = <<>> /\ s = <<>>
    THEN Go(c, a, {}, "done") /\ chunk' = s /\ UNCHANGED <<models, size, aux>>
    ELSE IF s = <<>>
    THEN /\ NewChunk(TakeChunk(c, z).chunk, aux # 0)
         /\ chunk' = TakeChunk(c, z).chunk
         /\ Go(TakeChunk(c, z).rest, a, {-(size + 1)}, "static")
    ELSE /\ models' = Restricted(models, Negated(s) \cup {aux})
         /\ chunk' = s /\ Go(c, a, {-aux}, "static") /\ UNCHANGED <<size, aux>>

ChunkStaticAlgorithm ==
    /\ pc = "static"
    /\ \E z \in Known :
         \/ /\ zero' = z
            /\ \E M \in models : FoundModel(assumptions, M)
                                 /\ Static(Kept(candidates, M, z), Kept(chunk, M, z),
                                           With(answers, candidates \o chunk, z), z)
         \/ /\ Incoherent(z)
            /\ zero' \in Asserted(models, {aux}, z \cup ToSet(chunk))
            /\ Static(candidates, <<>>, answers \o chunk, zero')
    /\ UNCHANGED <<task, tested, round, cache>>

-----------------------------------------------------------------------------
(* QueryInterface::solve: the candidates are the true variables of the     *)
(* first model.                                                            *)
QueryInterfaceSolve ==
    /\ pc = "query"
    /\ \/ models = {} /\ Go(<<>>, <<>>, {}, "incoherent") /\ UNCHANGED <<solver, chunk, aux>>
       \/ \E M \in models, z \in Learned(problem.visible) :
            LET c == Kept(FirstCandidates, M, z)
                a == With(<<>>, FirstCandidates, z)
            IN  \/ /\ algorithm.name = "ict" \/ (algorithm.name \in {"static", "dynamic"} /\ algorithm.chunk = 1)
                   /\ Test(c, a, z) /\ zero' = z /\ UNCHANGED <<models, size, chunk, aux>>
                \/ /\ \/ algorithm.name = "or"
                      \/ algorithm.name \in {"static", "dynamic"} /\ algorithm.chunk # 1 /\ algorithm.chunk >= Len(c)
                   /\ Overestimate(c, a, z) /\ UNCHANGED <<size, chunk, aux>>
                \/ /\ algorithm.name = "cb"
                   /\ CoreChunk(c, a) /\ zero' = z /\ UNCHANGED <<models, size, chunk, aux>>
                \/ /\ algorithm.name = "dynamic" /\ algorithm.chunk \in 2..(Len(c) - 1)
                   /\ Dynamic(c, a) /\ zero' = z /\ UNCHANGED chunk
                \/ /\ algorithm.name = "static" /\ algorithm.chunk \in 2..(Len(c) - 1)
                   /\ Static(c, <<>>, a, z) /\ zero' = z
    /\ UNCHANGED <<task, tested, round, cache>>
-----------------------------------------------------------------------------
(* CautiousReasoning: the listener prunes the candidates at every model.   *)
(* minimalAlgorithm looks for models with a minimal set of candidates by   *)
(* relaxing cores or by preferred choices, until a round keeps them all.   *)
AddAnswer(a, v) == IF v \in ToSet(a) \/ v \notin problem.visible THEN a ELSE Append(a, v)

-----------------------------------------------------------------------------
(* Each core found is kept with the literals assumed in its place, to be   *)
(* replaced without a call in the rounds that follow.                      *)
NoCache == [cores |-> <<>>, next |-> 0, removed |-> {}]

(* clearCores: the cores of the removed literals, and the cores of the     *)
(* literals assumed in their place.                                        *)
CoreOf(cores, l) == {k \in DOMAIN cores : l \in cores[k].core}
Hit(cores, removed) == {Max(CoreOf(cores, l)) : l \in {r \in removed : CoreOf(cores, r) # {}}}
Stale(cores, removed) ==
    LET gone[n \in 0 .. Len(cores)] ==
            IF n = 0 THEN removed
            ELSE LET before == gone[n - 1]
                 IN  before \cup UNION {cores[k].aux : k \in Hit(cores, before)}
    IN  Hit(cores, gone[Len(cores)])
Cleared(h) ==
    LET stale == Stale(h.cores, h.removed)
        fresh == Keep([k \in DOMAIN h.cores |-> k], DOMAIN h.cores \ stale)
    IN  [cores |-> [i \in DOMAIN fresh |-> h.cores[fresh[i]]], next |-> 1, removed |-> {}]

(* checkExistenceOfCore: 0 if there is none, and then none is looked for   *)
(* in this round any more.                                                 *)
NextCore(h) ==
    LET found == {k \in DOMAIN h.cores : k >= h.next /\ h.next > 0 /\ h.cores[k].core \subseteq assumptions}
    IN  Min(IF found = {} THEN {0} ELSE found)

-----------------------------------------------------------------------------
(* A round starts with all candidates assumed false, or preferred false.   *)
Round(c, a, h) ==
    IF c = <<>> \/ Len(c) = round
    THEN /\ Go(c, a \o c, {}, "done")
         /\ cache' = h /\ UNCHANGED round
    ELSE /\ round' = Len(c)
         /\ IF algorithm.name = "preferences"
            THEN Go(c, a, {}, "preferences") /\ cache' = h
            ELSE Go(c, a, Negated(c), "core") /\ cache' = IF algorithm.cached THEN Cleared(h) ELSE h

(* The listener: the cache is told of the candidates it drops.             *)
Heard(h, M) == IF algorithm.cached THEN [h EXCEPT !.removed = @ \cup {-v : v \in ToSet(candidates) \ M}] ELSE h

(* A model with preferred choices: as many of them as can hold do.         *)
Preferred(M, C) == \A N \in models : TrueIn(M, C) \subseteq TrueIn(N, C) => TrueIn(N, C) = TrueIn(M, C)

FindMinimalModelPreferences ==
    /\ pc = "preferences"
    /\ zero' \in Known
    /\ \E M \in models :
         /\ Preferred(M, Negated(candidates))
         /\ Round(Kept(candidates, M, zero'), With(answers, candidates, zero'), cache)
    /\ UNCHANGED <<models, size, task, chunk, aux, tested>>

(* One: of n core literals and n - 1 new variables n - 1 hold.             *)
(* Mutant: two of them may be false.                                       *)
AtMostTwo(C) ==
    LET n == Cardinality(C)
        new == NewVariables(n - 1)
    IN  [size |-> size + n - 1, assumed |-> Opposite(new),
         models |-> {M \in Extended(n - 1) :
                       /\ \A v \in new \cap M : v - 1 \in new => v - 1 \in M
                       /\ Cardinality(TrueIn(M, C)) + Cardinality(new \cap M) >= n - 2}]
AtMostOne(C) ==
    LET n == Cardinality(C)
        new == NewVariables(n - 1)
    IN  [size |-> size + n - 1, assumed |-> Opposite(new),
         models |-> {M \in Extended(n - 1) :
                       /\ \A v \in new \cap M : v - 1 \in new => v - 1 \in M
                       /\ Cardinality(TrueIn(M, C)) + Cardinality(new \cap M) >= n - 1}]

(* A core of up to OneChunk literals is one chunk, and others are not      *)
(* relaxed here: the size of their chunks is a matter of log10.            *)
OneChunk == 5
AtMostK(C) ==
    LET r == Chunk(Unchunked(SetToSeq(C)), Cardinality(C))
    IN  [size |-> r.size, models |-> r.models, assumed |-> ToSet(r.assumed)]

(* A new variable for "literal k or all before it", which is assumed, and  *)
(* but for the last k one for "literal k and all before it".               *)
AtMostPmres(C) ==
    LET core == SetToSeq(C)
        n == Len(core)
        or(k) == size + 2 * k - 3
        and(k) == size + 2 * k - 2
        all(M, k) == \A j \in 1..k : Holds(M, core[j])
        new(M) == {or(k) : k \in {j \in 2..n : Holds(M, core[j]) \/ all(M, j - 1)}}
                  \cup {and(k) : k \in {j \in 2..(n - 1) : all(M, j)}}
    IN  [size |-> size + 2 * n - 3, assumed |-> {or(k) : k \in 2..n},
         models |-> {M \cup new(M) : M \in models}]

Relaxing(C) ==
    CASE algorithm.name = "one" -> AtMostOne(C)
      [] algorithm.name = "kdyn" -> AtMostK(C)
      [] algorithm.name = "pmres" -> AtMostPmres(C)

(* solveAndProcessCore: a core that is known, else a call of the solver.   *)
KnownCore ==
    /\ pc = "core" /\ algorithm.cached /\ NextCore(cache) # 0
    /\ LET k == NextCore(cache)
       IN  /\ cache' = [cache EXCEPT !.next = k]
           /\ assumptions' = (assumptions \ cache.cores[k].core) \cup cache.cores[k].aux
    /\ UNCHANGED <<solver, task, pc, candidates, answers, chunk, aux, tested, round>>

SolveAndProcessCore ==
    /\ pc = "core" /\ ~(algorithm.cached /\ NextCore(cache) # 0)
    /\ \E z \in Known :
         LET h == [cache EXCEPT !.next = 0]
         IN  \/ /\ \E M \in models : FoundModel(assumptions, M)
                                     /\ Round(Kept(candidates, M, z), With(answers, candidates, z), Heard(h, M))
                /\ zero' = z /\ UNCHANGED <<models, size>>
             \/ \E C \in Cores(assumptions, z) :
                  \/ \E l \in C :
                       /\ C = {l}
                       /\ Go(Minus(candidates, -l), AddAnswer(answers, Variable(l)), assumptions \ C, "core")
                       /\ models' = Restricted(models, {-l}) /\ zero' = Settled(C, z)
                       /\ cache' = IF algorithm.cached /\ -l \in ToSet(candidates)
                                   THEN [h EXCEPT !.removed = @ \cup C] ELSE h
                       /\ UNCHANGED <<size, round>>
                  \/ /\ Cardinality(C) > 1
                     /\ algorithm.name = "kdyn" => Cardinality(C) <= OneChunk
                     /\ LET r == Relaxing(C)
                        IN  /\ models' = r.models /\ size' = r.size
                            /\ Go(candidates, answers, (assumptions \ C) \cup r.assumed, "core")
                            /\ cache' = IF algorithm.cached
                                        THEN [h EXCEPT !.cores = Append(@, [core |-> C, aux |-> r.assumed])] ELSE h
                     /\ zero' = z /\ UNCHANGED round
    /\ UNCHANGED <<task, chunk, aux, tested>>

-----------------------------------------------------------------------------
(* iterativeCoherenceTestingPreferences: the other candidates are          *)
(* preferred false, and an answer becomes a clause.                        *)
TestPreferring(c, a) ==
    IF c = <<>> THEN Go(c, a, {}, "done") /\ UNCHANGED tested
    ELSE Go(Front(c), a, {-Last(c)}, "ict-preferences") /\ tested' = -Last(c)

IterativeCoherenceTestingPreferences ==
    /\ pc = "ict-preferences"
    /\ \E z \in Known :
         \/ \E M \in models :
              /\ FoundModel(assumptions, M)
              /\ \A N \in models : FoundModel(assumptions, N) /\ N \cap ToSet(candidates) \subseteq M
                                     => N \cap ToSet(candidates) = M \cap ToSet(candidates)
              /\ TestPreferring(Kept(candidates, M, z), With(answers, candidates, z))
              /\ zero' = z
         \/ /\ Incoherent(z)
            /\ TestPreferring(candidates, Append(answers, -tested))
            /\ zero' \in Asserted(models, {-tested}, z)
    /\ UNCHANGED <<models, size, task, chunk, aux, round, cache>>

(* primeImplicate: a core of the candidates is reduced, a literal at a     *)
(* time, as long as it is a core; then the last one taken off is tested.   *)
AllFalse(c, a) ==
    /\ Go(c, a, Negated(c), IF c = <<>> THEN "done" ELSE "implicate") /\ UNCHANGED tested

Conflict(C, z) ==
    \/ \E l \in C :
         /\ C = {l}
         /\ AllFalse(Minus(candidates, -l), AddAnswer(answers, -l))
         /\ zero' = Settled(C, z)
    \/ \E l \in C :
         /\ Cardinality(C) > 1
         /\ Go(candidates, answers, C \ {l}, "minimizing") /\ tested' = l
         /\ zero' = z

PrimeImplicate ==
    /\ \E z \in Known :
         \/ /\ pc \in {"implicate", "minimizing"}
            /\ \E C \in Cores(assumptions, z) : Conflict(C, z)
         \/ \E M \in models :
              LET c == Kept(candidates, M, z)
                  a == With(answers, candidates, z)
              IN  /\ FoundModel(assumptions, M) /\ zero' = z
                  /\ \/ pc = "implicate" /\ Go(c, a \o c, {}, "done") /\ UNCHANGED tested
                     \/ pc = "minimizing" /\ Go(c, a, {tested}, "testing") /\ UNCHANGED tested
                     \/ pc = "testing" /\ AllFalse(c, a)
         \/ /\ pc = "testing" /\ Incoherent(z)
            /\ AllFalse(candidates, AddAnswer(answers, -tested))
            /\ zero' = z \cup {-tested}
    /\ UNCHANGED <<models, size, task, chunk, aux, round, cache>>

-----------------------------------------------------------------------------
CautiousReasoningSolve ==
    /\ pc = "cautious"
    /\ \/ models = {} /\ Go(<<>>, <<>>, {}, "incoherent") /\ UNCHANGED <<zero, tested, round, cache>>
       \/ \E M \in models, z \in Learned(problem.visible) :
            LET c == Kept(FirstCandidates, M, z)
                a == With(<<>>, FirstCandidates, z)
            IN  /\ zero' = z
                /\ CASE algorithm.name = "ict-preferences" -> TestPreferring(c, a) /\ UNCHANGED <<round, cache>>
                     [] algorithm.name = "pi" -> AllFalse(c, a) /\ UNCHANGED <<round, cache>>
                     [] OTHER -> Round(c, a, cache) /\ UNCHANGED tested
    /\ UNCHANGED <<models, size, task, chunk, aux>>
=============================================================================
