-------------------------- MODULE WaspSolverProofs --------------------------
(***************************************************************************)
(* The search of WASP is sound for every set of variables, every problem   *)
(* and all of its callers: learning, minimisation, deletion, simplification*)
(* and blocking lose no model that is still to be found, propagation looks *)
(* at every clause that became unit, and a core is a core.                 *)
(***************************************************************************)
EXTENDS WaspSolver, FiniteSetTheorems, SequenceTheorems, NaturalsInduction,
        WellFoundedInduction, TLAPS

Entails(MS, C) == \A M \in MS : Sat(M, C)

(* Each literal of the trail t is assigned once; the levels U are opened in *)
(* order, and lv says between which of them a literal was assigned.        *)
OrderedTrail(t, lv, U) ==
    /\ \A i, j \in 1 .. Len(t) : Variable(t[i]) = Variable(t[j]) => i = j
    /\ \A k \in 1 .. Len(U) : U[k] \in 0 .. Len(t)
    /\ \A j, k \in 1 .. Len(U) : j <= k => U[j] <= U[k]
    /\ \A i \in 1 .. Len(t) :
           /\ lv[Variable(t[i])] \in 0 .. Len(U)
           /\ lv[Variable(t[i])] > 0 => U[lv[Variable(t[i])]] < i
           /\ lv[Variable(t[i])] < Len(U) => i <= U[lv[Variable(t[i])] + 1]

(* A reason is a clause that every interpretation of MS satisfies and that *)
(* was unit when its variable was assigned.  Above level 0 only the first  *)
(* literal of a level has none.  What is at level 0 holds throughout MS.   *)
Justified(t, lv, rs, U, MS) ==
    \A i \in 1 .. Len(t) :
        /\ rs[Variable(t[i])] # {} =>
               /\ t[i] \in rs[Variable(t[i])]
               /\ Entails(MS, rs[Variable(t[i])])
               /\ \A l \in rs[Variable(t[i])] \ {t[i]} : \E j \in 1 .. i - 1 : t[j] = -l
        /\ rs[Variable(t[i])] = {} /\ lv[Variable(t[i])] > 0 => i = U[lv[Variable(t[i])]] + 1
        /\ lv[Variable(t[i])] = 0 => \A M \in MS : Holds(M, t[i])

(* A watched literal made false by one of the first p literals of t is     *)
(* watched together with a true one that was assigned at no higher level,  *)
(* so that a backjump never leaves it the only watch that is not false.    *)
Guarded(D, t, lv, p) ==
    \A W \in D : \A i \in 1 .. p :
        -t[i] \in W =>
            \E x \in W : x \in Lits(t) /\ lv[Variable(x)] <= lv[Variable(t[i])]

Trails == Seq(Literal)
Levels == [Var -> Nat]
Reasons == [Var -> SUBSET Literal]
-----------------------------------------------------------------------------
(* Natural numbers and finite sets.                                        *)
LEMMA LeastOfNaturals ==
    ASSUME NEW S \in SUBSET Nat, S # {}
    PROVE  \E k \in S : \A j \in S : k <= j
<1> DEFINE below == OpToRel(<, Nat)
<1>1. \E k \in S : \A j \in S : <<j, k>> \notin below
    BY NatLessThanWellFounded, WFMin, ZenonT(30)
<1>2. \A j, k \in Nat : <<j, k>> \notin below => k <= j
    BY DEF OpToRel
<1> HIDE DEF below
<1> QED BY <1>1, <1>2

(* A bounded set of naturals has a greatest element.                       *)
LEMMA GreatestOfNaturals ==
    ASSUME NEW n \in Nat, NEW S \in SUBSET (0 .. n), S # {}
    PROVE  \E k \in S : \A j \in S : j <= k
<1> DEFINE R == {n - i : i \in S}
<1>1. R \in SUBSET Nat /\ R # {}
    <2>1. \A i \in S : n - i \in Nat
        OBVIOUS
    <2>2. PICK i \in S : TRUE
        OBVIOUS
    <2>3. n - i \in R
        OBVIOUS
    <2> QED BY <2>1, <2>3
<1>2. PICK k \in R : \A j \in R : k <= j
    BY <1>1, LeastOfNaturals
<1>3. n - k \in S
    BY <1>2
<1>4. \A j \in S : j <= n - k
    BY <1>2
<1> QED BY <1>3, <1>4

(* Two elements of a finite set are two of its number.                     *)
LEMMA TwoElements ==
    ASSUME NEW S, IsFiniteSet(S), NEW a \in S, NEW b \in S, a # b
    PROVE  /\ Cardinality(S) \in Nat /\ Cardinality(S) >= 2
           /\ Cardinality(S) = 2 => S = {a, b}
<1>1. /\ IsFiniteSet({a})
      /\ Cardinality({a}) = 1
    BY FS_Singleton
<1>2. IsFiniteSet({a, b}) /\ Cardinality({a, b}) = 2
    <2>1. /\ IsFiniteSet({a} \cup {b})
          /\ Cardinality({a} \cup {b}) = 2
        BY <1>1, FS_AddElement, b \notin {a}
    <2>2. {a} \cup {b} = {a, b}
        OBVIOUS
    <2> QED BY <2>1, <2>2
<1>3. Cardinality({a, b}) <= Cardinality(S) /\ (Cardinality(S) = Cardinality({a, b}) => S = {a, b})
    BY FS_Subset
<1>4. Cardinality(S) \in Nat
    BY FS_CardinalityType
<1> QED BY <1>2, <1>3, <1>4

(* A set of one element.                                                   *)
LEMMA OneElement ==
    ASSUME NEW S, Cardinality(S) = 1, IsFiniteSet(S)
    PROVE  \E a : S = {a}
BY FS_Singleton

(* A finite set with more than one element has two.                        *)
LEMMA TwoOf ==
    ASSUME NEW S, IsFiniteSet(S), Cardinality(S) > 1
    PROVE  \E a, b \in S : a # b
<1>1. S # {}
    BY FS_EmptySet
<1>2. PICK a \in S : TRUE
    BY <1>1
<1>3. S # {a}
    BY FS_Singleton
<1> QED BY <1>2, <1>3

(* In a finite set D of positions each number of smaller positions below   *)
(* Cardinality(D) is taken once.                                           *)
LEMMA NthPosition ==
    ASSUME NEW D \in SUBSET Nat, IsFiniteSet(D)
    PROVE  /\ Cardinality(D) \in Nat
           /\ \A n \in 1 .. Cardinality(D) : Nth(D, n) \in D
           /\ \A i \in D : \E n \in 1 .. Cardinality(D) : Nth(D, n) = i
           /\ \A m, n \in 1 .. Cardinality(D) : Nth(D, m) = Nth(D, n) => m = n
<1> DEFINE below(i) == {j \in D : j < i}
           rank(i) == Cardinality(below(i)) + 1
           f == [i \in D |-> rank(i)]
<1>1. \A i \in D : IsFiniteSet(below(i)) /\ Cardinality(below(i)) \in Nat
    BY FS_Subset, FS_CardinalityType
<1>2. Cardinality(D) \in Nat
    BY FS_CardinalityType
<1>3. \A i \in D : rank(i) \in 1 .. Cardinality(D)
    <2> TAKE i \in D
    <2>1. Cardinality(below(i)) <= Cardinality(D) /\ (Cardinality(D) = Cardinality(below(i)) => D = below(i))
        BY FS_Subset
    <2>2. i \notin below(i)
        OBVIOUS
    <2> QED BY <1>1, <1>2, <2>1, <2>2
<1>4. \A i \in D, j \in D : i < j => rank(i) < rank(j)
    <2> TAKE i \in D, j \in D
    <2> HAVE i < j
    <2>0. i \in Nat /\ j \in Nat /\ \A x \in D : x \in Nat
        OBVIOUS
    <2>a. i \in below(j) /\ i \notin below(i)
        BY <2>0
    <2>b. \A x \in below(i) : x \in below(j)
        BY <2>0
    <2>1. below(i) \in SUBSET below(j) /\ i \in below(j) /\ i \notin below(i)
        BY <2>a, <2>b
    <2>2. IsFiniteSet(below(j))
        BY <1>1
    <2> HIDE DEF below
    <2>3. Cardinality(below(i)) <= Cardinality(below(j)) /\ (Cardinality(below(j)) = Cardinality(below(i)) => below(j) = below(i))
        BY <2>1, <2>2, FS_Subset
    <2> QED BY <1>1, <2>1, <2>3
<1>5. f \in Injection(D, 1 .. Cardinality(D))
    <2> HIDE DEF rank
    <2>1. f \in [D -> 1 .. Cardinality(D)]
        BY <1>3
    <2>2. \A i, j \in D : f[i] = f[j] => i = j
        BY <1>3, <1>4
    <2> QED BY <2>1, <2>2 DEF Injection, IsInjective
<1>6. f \in Surjection(D, 1 .. Cardinality(D))
    <2>1. IsFiniteSet(1 .. Cardinality(D)) /\ Cardinality(1 .. Cardinality(D)) = Cardinality(D)
        BY <1>2, FS_Interval
    <2> HIDE DEF f
    <2> QED BY <1>5, <2>1, FS_Injection
<1>7. \A n \in 1 .. Cardinality(D) : \E i \in D : rank(i) = n
    <2> HIDE DEF rank
    <2> QED BY <1>6 DEF Surjection
<1>8. \A n \in 1 .. Cardinality(D) : Nth(D, n) \in D /\ rank(Nth(D, n)) = n
    <2> TAKE n \in 1 .. Cardinality(D)
    <2>1. PICK i \in D : rank(i) = n
        BY <1>7
    <2>2. Cardinality(below(i)) = n - 1
        BY <2>1, <1>1
    <2>3. Nth(D, n) \in D /\ Cardinality(below(Nth(D, n))) = n - 1
        BY <2>2 DEF Nth
    <2> QED BY <2>3
<1>9. \A i \in D : \E n \in 1 .. Cardinality(D) : Nth(D, n) = i
    <2> TAKE i \in D
    <2>1. PICK n \in 1 .. Cardinality(D) : n = rank(i)
        BY <1>3
    <2>2. PICK x \in D : x = Nth(D, n)
        BY <1>8
    <2>3. rank(x) = rank(i)
        BY <1>8, <2>1, <2>2
    <2>4. ~(x < i) /\ ~(i < x)
        <3> HIDE DEF rank
        <3>1. rank(i) \in Nat
            BY <1>3
        <3> QED BY <1>4, <2>3, <3>1
    <2>5. x = i
        BY <2>4
    <2> QED BY <2>1, <2>2, <2>5
<1>10. \A m, n \in 1 .. Cardinality(D) : Nth(D, m) = Nth(D, n) => m = n
    BY <1>8
<1> HIDE DEF rank
<1> QED BY <1>2, <1>8, <1>9, <1>10
-----------------------------------------------------------------------------
(* Literals and what they say of an interpretation.                        *)
LEMMA LiteralFacts ==
    ASSUME NEW l \in Literal
    PROVE  /\ l \in Int /\ l # 0 /\ -l \in Literal /\ -(-l) = l /\ -l # l
           /\ Variable(l) \in Var /\ Variable(-l) = Variable(l)
           /\ Variable(l) = l \/ Variable(l) = -l
<1>1. CASE l \in Var
    <2>1. l \in Nat /\ l # 0
        BY <1>1, VarAssumption
    <2>2. -l \in Literal
        BY <1>1 DEF Literal
    <2> QED BY <1>1, <2>1, <2>2 DEF Variable
<1>2. CASE l \in {-v : v \in Var}
    <2>1. PICK v \in Var : l = -v
        BY <1>2
    <2>2. v \in Nat /\ v # 0
        BY VarAssumption
    <2>3. -l = v /\ l < 0 /\ l \in Int
        BY <2>1, <2>2
    <2>4. -l \in Literal
        BY <2>3 DEF Literal
    <2> QED BY <2>2, <2>3, <2>4 DEF Variable
<1> QED BY <1>1, <1>2 DEF Literal

(* A variable has two literals.                                            *)
LEMMA SameVariable ==
    ASSUME NEW l \in Literal, NEW m \in Literal, Variable(l) = Variable(m)
    PROVE  l = m \/ l = -m
BY LiteralFacts DEF Variable

(* A variable is a literal of itself.                                      *)
LEMMA VariableOfVar ==
    ASSUME NEW v \in Var
    PROVE  v \in Literal /\ -v \in Literal /\ Variable(v) = v /\ Variable(-v) = v /\ v > 0 /\ v \in Nat
BY VarAssumption DEF Literal, Variable

(* An interpretation satisfies one of two opposite literals.               *)
LEMMA HoldsOpposite ==
    ASSUME NEW l \in Literal, NEW M
    PROVE  Holds(M, -l) <=> ~Holds(M, l)
BY LiteralFacts DEF Holds

(* There are finitely many literals.                                       *)
LEMMA LiteralsFinite ==
    ASSUME NEW C \in SUBSET Literal
    PROVE  IsFiniteSet(C) /\ IsFiniteSet(Literal)
<1> DEFINE f == [v \in Var |-> -v]
<1>1. IsFiniteSet(Var) /\ \A v \in Var : v \in Nat
    BY VarAssumption
<1>2. f \in Surjection(Var, {-v : v \in Var})
    BY DEF Surjection
<1>3. IsFiniteSet({-v : v \in Var})
    BY <1>1, <1>2, FS_Surjection
<1>4. IsFiniteSet(Literal)
    BY <1>1, <1>3, FS_Union DEF Literal
<1> QED BY <1>4, FS_Subset

-----------------------------------------------------------------------------
(* Trails.                                                                 *)
LEMMA TrailTyping ==
    ASSUME NEW t \in Trails
    PROVE  /\ Len(t) \in Nat /\ DOMAIN t = 1 .. Len(t)
           /\ \A i \in 1 .. Len(t) : t[i] \in Literal /\ t[i] \in Lits(t)
           /\ \A l \in Lits(t) : l \in Literal /\ \E i \in 1 .. Len(t) : t[i] = l
           /\ Lits(t) \subseteq Literal
<1>1. Len(t) \in Nat /\ DOMAIN t = 1 .. Len(t)
    BY LenProperties DEF Trails
<1>2. \A i \in 1 .. Len(t) : t[i] \in Literal
    BY ElementOfSeq DEF Trails
<1>3. \A i \in 1 .. Len(t) : t[i] \in Lits(t)
    BY <1>1 DEF Lits
<1>4. \A l \in Lits(t) : \E i \in 1 .. Len(t) : t[i] = l
    BY <1>1 DEF Lits
<1> QED BY <1>1, <1>2, <1>3, <1>4

(* A trail never makes a literal both true and false.                      *)
LEMMA NotBoth ==
    ASSUME NEW t \in Trails, NEW lv, NEW U, OrderedTrail(t, lv, U), NEW l \in Literal
    PROVE  ~(l \in Lits(t) /\ -l \in Lits(t))
<1> SUFFICES ASSUME l \in Lits(t), -l \in Lits(t)
             PROVE  FALSE
    OBVIOUS
<1>1. PICK i \in 1 .. Len(t) : t[i] = l
    BY TrailTyping
<1>2. PICK j \in 1 .. Len(t) : t[j] = -l
    BY TrailTyping
<1>3. Variable(t[i]) = Variable(t[j])
    BY <1>1, <1>2, LiteralFacts
<1>4. i = j
    BY <1>3 DEF OrderedTrail
<1> QED BY <1>1, <1>2, <1>4, LiteralFacts

(* Every literal of a variable on the trail is true or false.              *)
LEMMA Assigned ==
    ASSUME NEW t \in Trails, NEW l \in Literal, NEW i \in 1 .. Len(t),
           Variable(t[i]) = Variable(l)
    PROVE  t[i] = l \/ t[i] = -l
BY TrailTyping, SameVariable

(* Levels do not decrease along the trail.                                 *)
LEMMA LevelsAscend ==
    ASSUME NEW t \in Trails, NEW lv, NEW U \in Seq(Nat), OrderedTrail(t, lv, U),
           NEW i \in 1 .. Len(t), NEW j \in 1 .. Len(t), i <= j
    PROVE  /\ lv[Variable(t[i])] \in Nat /\ lv[Variable(t[j])] \in Nat
           /\ lv[Variable(t[i])] <= lv[Variable(t[j])]
<1> DEFINE k == lv[Variable(t[i])]
           m == lv[Variable(t[j])]
<1>1. k \in 0 .. Len(U) /\ m \in 0 .. Len(U) /\ Len(U) \in Nat /\ Len(t) \in Nat
    BY TrailTyping, LenProperties DEF OrderedTrail
<1>2. SUFFICES ASSUME m < k
               PROVE  FALSE
    BY <1>1
<1>3. j <= U[m + 1] /\ U[k] < i
    BY <1>1, <1>2 DEF OrderedTrail
<1>4. U[m + 1] \in 0 .. Len(t) /\ U[k] \in 0 .. Len(t) /\ U[m + 1] <= U[k]
    <2>1. m + 1 \in 1 .. Len(U) /\ k \in 1 .. Len(U) /\ m + 1 <= k
        BY <1>1, <1>2
    <2> QED BY <2>1 DEF OrderedTrail
<1> QED BY <1>1, <1>3, <1>4

(* A level is what lies between its bound and the next one.                *)
LEMMA LevelAt ==
    ASSUME NEW t \in Trails, NEW lv, NEW U \in Seq(Nat), OrderedTrail(t, lv, U),
           NEW k \in 0 .. Len(U), k < Len(U), NEW i \in 1 .. Len(t)
    PROVE  /\ lv[Variable(t[i])] \in 0 .. Len(U)
           /\ U[k + 1] \in 0 .. Len(t)
           /\ i <= U[k + 1] <=> lv[Variable(t[i])] <= k
<1> DEFINE m == lv[Variable(t[i])]
<1>1. m \in 0 .. Len(U) /\ Len(U) \in Nat /\ Len(t) \in Nat
    BY TrailTyping, LenProperties DEF OrderedTrail
<1>2. k + 1 \in 1 .. Len(U)
    BY <1>1
<1>3. U[k + 1] \in 0 .. Len(t)
    BY <1>2 DEF OrderedTrail
<1>4. ASSUME m <= k
      PROVE  i <= U[k + 1]
    <2>1. m + 1 \in 1 .. Len(U) /\ m + 1 <= k + 1 /\ m < Len(U)
        BY <1>1, <1>4
    <2>2. i <= U[m + 1] /\ U[m + 1] <= U[k + 1] /\ U[m + 1] \in 0 .. Len(t)
        BY <1>2, <2>1 DEF OrderedTrail
    <2> QED BY <1>1, <1>3, <2>2
<1>5. ASSUME k < m
      PROVE  U[k + 1] < i
    <2>1. m \in 1 .. Len(U) /\ k + 1 <= m /\ m > 0
        BY <1>1, <1>5
    <2>2. U[m] < i /\ U[k + 1] <= U[m] /\ U[m] \in 0 .. Len(t)
        BY <1>2, <2>1 DEF OrderedTrail
    <2> QED BY <1>1, <1>3, <2>2
<1> QED BY <1>1, <1>3, <1>4, <1>5

(* The variables of a trail that is as long as there are variables.        *)
LEMMA TrailCounts ==
    ASSUME NEW t \in Trails,
           \A i, j \in 1 .. Len(t) : Variable(t[i]) = Variable(t[j]) => i = j
    PROVE  /\ Cardinality(Var) \in Nat /\ Len(t) <= Cardinality(Var)
           /\ Len(t) >= Cardinality(Var) =>
                 \A v \in Var : \E i \in 1 .. Len(t) : Variable(t[i]) = v
<1> DEFINE f == [i \in 1 .. Len(t) |-> Variable(t[i])]
<1>1. Len(t) \in Nat /\ \A i \in 1 .. Len(t) : Variable(t[i]) \in Var
    BY TrailTyping, LiteralFacts
<1>2. f \in Injection(1 .. Len(t), Var)
    BY <1>1 DEF Injection, IsInjective
<1>3. IsFiniteSet(Var)
    BY VarAssumption
<1>4. Cardinality(Var) \in Nat
    BY <1>3, FS_CardinalityType
<1>5. Cardinality(1 .. Len(t)) = Len(t)
    <2> DEFINE n == Len(t)
    <2>1. n \in Int /\ 1 \in Int /\ n \in Nat
        BY <1>1
    <2> HIDE DEF n
    <2>2. Cardinality(1 .. n) = IF 1 > n THEN 0 ELSE n - 1 + 1
        BY <2>1, FS_Interval
    <2>3. Cardinality(1 .. n) = n
        BY <2>1, <2>2
    <2> QED BY <2>3 DEF n
<1> HIDE DEF f
<1>6. /\ Cardinality(1 .. Len(t)) <= Cardinality(Var)
      /\ Cardinality(1 .. Len(t)) = Cardinality(Var) <=> f \in Surjection(1 .. Len(t), Var)
    BY <1>2, <1>3, FS_Injection
<1>7. ASSUME Len(t) >= Cardinality(Var), NEW v \in Var
      PROVE  \E i \in 1 .. Len(t) : f[i] = v
    <2>1. f \in Surjection(1 .. Len(t), Var)
        BY <1>1, <1>4, <1>5, <1>6, <1>7
    <2> QED BY <2>1 DEF Surjection
<1> USE DEF f
<1> QED BY <1>1, <1>4, <1>5, <1>6, <1>7
-----------------------------------------------------------------------------
(* What the operations on the trail keep.                                  *)
LEMMA Prefix ==
    ASSUME NEW S, NEW s \in Seq(S), NEW n \in 0 .. Len(s)
    PROVE  /\ SubSeq(s, 1, n) \in Seq(S) /\ Len(SubSeq(s, 1, n)) = n
           /\ \A i \in 1 .. n : SubSeq(s, 1, n)[i] = s[i]
<1>1. Len(s) \in Nat /\ n \in Nat /\ \A i \in 1 .. n : s[i] \in S
    BY LenProperties, ElementOfSeq
<1>2. /\ SubSeq(s, 1, n) \in Seq(S)
      /\ Len(SubSeq(s, 1, n)) = IF 1 <= n THEN n - 1 + 1 ELSE 0
      /\ \A i \in 1 .. n - 1 + 1 : SubSeq(s, 1, n)[i] = s[1 + i - 1]
    BY <1>1, SubSeqProperties
<1> QED BY <1>1, <1>2

(* The literals of a prefix.                                               *)
LEMMA LitsOfPrefix ==
    ASSUME NEW t \in Trails, NEW n \in 0 .. Len(t)
    PROVE  /\ Lits(SubSeq(t, 1, n)) \subseteq Lits(t)
           /\ \A l \in Lits(SubSeq(t, 1, n)) : \E i \in 1 .. n : t[i] = l
           /\ \A i \in 1 .. n : t[i] \in Lits(SubSeq(t, 1, n))
<1> DEFINE s == SubSeq(t, 1, n)
<1>1. s \in Trails /\ Len(s) = n /\ \A i \in 1 .. n : s[i] = t[i]
    BY Prefix DEF Trails
<1>2. n \in Nat /\ Len(t) \in Nat /\ n <= Len(t)
    BY TrailTyping
<1> HIDE DEF s
<1>3. \A l \in Lits(s) : \E i \in 1 .. n : t[i] = l
    BY <1>1, TrailTyping
<1>4. \A i \in 1 .. n : t[i] \in Lits(s)
    BY <1>1, TrailTyping
<1>5. Lits(s) \subseteq Lits(t)
    BY <1>2, <1>3, TrailTyping
<1> QED BY <1>3, <1>4, <1>5 DEF s

Unrolled(t, U, k) == IF k < Len(U) THEN SubSeq(t, 1, U[k + 1]) ELSE t

Unrolls(t, U, k, s, W) == s = Unrolled(t, U, k) /\ W = SubSeq(U, 1, k)

(* Unrolling to level k leaves the literals of levels up to k.             *)
LEMMA UnrollOrdered ==
    ASSUME NEW t \in Trails, NEW lv, NEW U \in Seq(Nat), OrderedTrail(t, lv, U),
           NEW k \in 0 .. Len(U), NEW s, NEW W, Unrolls(t, U, k, s, W)
    PROVE  /\ s \in Trails /\ Len(s) \in Nat /\ Len(s) <= Len(t)
           /\ Len(s) = IF k < Len(U) THEN U[k + 1] ELSE Len(t)
           /\ \A i \in 1 .. Len(s) : s[i] = t[i]
           /\ W \in Seq(Nat) /\ Len(W) = k /\ \A i \in 1 .. k : W[i] = U[i]
           /\ Lits(s) = {l \in Lits(t) : lv[Variable(l)] <= k}
           /\ OrderedTrail(s, lv, W)
<1>1. Len(t) \in Nat /\ Len(U) \in Nat /\ k \in Nat /\ k <= Len(U)
    BY TrailTyping, LenProperties
<1>2. /\ s \in Trails /\ Len(s) \in Nat /\ Len(s) <= Len(t)
      /\ Len(s) = IF k < Len(U) THEN U[k + 1] ELSE Len(t)
      /\ \A i \in 1 .. Len(s) : s[i] = t[i]
    <2>1. CASE k < Len(U)
        <3>1. U[k + 1] \in 0 .. Len(t)
            BY <1>1, <2>1 DEF OrderedTrail
        <3>2. s = SubSeq(t, 1, U[k + 1])
            BY <2>1 DEF Unrolled, Unrolls
        <3> QED BY <1>1, <2>1, <3>1, <3>2, Prefix DEF Trails
    <2>2. CASE ~(k < Len(U))
        BY <1>1, <2>2 DEF Unrolled, Unrolls
    <2> QED BY <2>1, <2>2
<1>3. W \in Seq(Nat) /\ Len(W) = k /\ \A i \in 1 .. k : W[i] = U[i]
    BY Prefix DEF Unrolls
<1>4. \A i \in 1 .. Len(t) : lv[Variable(t[i])] \in 0 .. Len(U)
                             /\ (i <= Len(s) <=> lv[Variable(t[i])] <= k)
    <2> TAKE i \in 1 .. Len(t)
    <2>1. CASE k < Len(U)
        BY <1>2, <2>1, LevelAt
    <2>2. CASE k = Len(U)
        BY <1>1, <1>2, <2>2 DEF OrderedTrail
    <2> QED BY <1>1, <2>1, <2>2
<1>5. Lits(s) = {l \in Lits(t) : lv[Variable(l)] <= k}
    <2>1. ASSUME NEW l \in Lits(s)
          PROVE  l \in Lits(t) /\ lv[Variable(l)] <= k
        <3>1. PICK i \in 1 .. Len(s) : s[i] = l
            BY <1>2, TrailTyping
        <3>2. i \in 1 .. Len(t) /\ t[i] = l
            BY <1>1, <1>2, <3>1
        <3> QED BY <1>4, <3>1, <3>2, TrailTyping
    <2>2. ASSUME NEW l \in Lits(t), lv[Variable(l)] <= k
          PROVE  l \in Lits(s)
        <3>1. PICK i \in 1 .. Len(t) : t[i] = l
            BY TrailTyping
        <3>2. i \in 1 .. Len(s)
            BY <1>1, <1>2, <1>4, <2>2, <3>1
        <3> QED BY <1>2, <3>1, <3>2, TrailTyping
    <2> QED BY <2>1, <2>2
<1>6. OrderedTrail(s, lv, W)
    <2>0. \A i \in 1 .. Len(s) : i \in 1 .. Len(t) /\ s[i] = t[i]
        BY <1>1, <1>2
    <2>1. \A i, j \in 1 .. Len(s) : Variable(s[i]) = Variable(s[j]) => i = j
        BY <2>0 DEF OrderedTrail
    <2>2. \A m \in 1 .. Len(W) : W[m] \in 0 .. Len(s)
        <3> TAKE m \in 1 .. Len(W)
        <3>1. m \in 1 .. Len(U) /\ W[m] = U[m] /\ U[m] \in 0 .. Len(t)
            BY <1>1, <1>3 DEF OrderedTrail
        <3>2. k < Len(U) => k + 1 \in 1 .. Len(U) /\ m <= k + 1
            BY <1>1, <1>3
        <3>3. k < Len(U) => U[m] <= U[k + 1]
            BY <3>1, <3>2 DEF OrderedTrail
        <3> QED BY <1>1, <1>2, <3>1, <3>3
    <2>3. \A j, m \in 1 .. Len(W) : j <= m => W[j] <= W[m]
        <3> TAKE j, m \in 1 .. Len(W)
        <3>1. j \in 1 .. Len(U) /\ m \in 1 .. Len(U) /\ W[j] = U[j] /\ W[m] = U[m]
            BY <1>1, <1>3
        <3> QED BY <3>1 DEF OrderedTrail
    <2>4. ASSUME NEW i \in 1 .. Len(s)
          PROVE  /\ lv[Variable(s[i])] \in 0 .. Len(W)
                 /\ lv[Variable(s[i])] > 0 => W[lv[Variable(s[i])]] < i
                 /\ lv[Variable(s[i])] < Len(W) => i <= W[lv[Variable(s[i])] + 1]
        <3> DEFINE m == lv[Variable(t[i])]
        <3>1. i \in 1 .. Len(t) /\ s[i] = t[i] /\ i <= Len(s)
            BY <1>1, <1>2
        <3>2. m \in 0 .. Len(U) /\ m <= k
            BY <1>4, <3>1
        <3>3. m > 0 => U[m] < i
            BY <3>1 DEF OrderedTrail
        <3>4. m < Len(U) => i <= U[m + 1]
            BY <3>1 DEF OrderedTrail
        <3>5. m > 0 => W[m] = U[m]
            BY <1>1, <1>3, <3>2
        <3>6. m < k => W[m + 1] = U[m + 1]
            BY <1>1, <1>3, <3>2
        <3> HIDE DEF m
        <3>a. m \in 0 .. Len(W) /\ Len(W) = k /\ k <= Len(U)
            BY <1>1, <1>3, <3>2
        <3>b. m > 0 => W[m] < i
            BY <3>3, <3>5
        <3>c. m < k => m < Len(U)
            BY <1>1, <3>2
        <3>d. m < Len(W) => i <= W[m + 1]
            BY <3>4, <3>6, <3>a, <3>c
        <3>7. m \in 0 .. Len(W) /\ (m > 0 => W[m] < i) /\ (m < Len(W) => i <= W[m + 1])
            BY <3>a, <3>b, <3>d
        <3> QED BY <3>1, <3>7 DEF m
    <2> QED BY <2>1, <2>2, <2>3, <2>4 DEF OrderedTrail
<1> QED BY <1>2, <1>3, <1>5, <1>6

(* Reasons and watches of a trail that became shorter.                     *)
IsPrefixOf(s, t) == Len(s) \in Nat /\ Len(s) <= Len(t) /\ \A i \in 1 .. Len(s) : s[i] = t[i]
SameBelow(s, lv, U, W) ==
    \A i \in 1 .. Len(s) : lv[Variable(s[i])] > 0 => W[lv[Variable(s[i])]] = U[lv[Variable(s[i])]]

(* Reasons stand before what they imply: a prefix keeps them.              *)
LEMMA PrefixJustified ==
    ASSUME NEW t \in Trails, NEW lv, NEW rs, NEW U, NEW MS, Justified(t, lv, rs, U, MS),
           NEW s, NEW W, IsPrefixOf(s, t), SameBelow(s, lv, U, W)
    PROVE  Justified(s, lv, rs, W, MS)
<1>1. \A i \in 1 .. Len(s) : i \in 1 .. Len(t) /\ s[i] = t[i] /\ 1 .. i - 1 \subseteq 1 .. Len(s)
    BY TrailTyping DEF IsPrefixOf
<1> SUFFICES ASSUME NEW i \in 1 .. Len(s)
             PROVE  /\ rs[Variable(s[i])] # {} =>
                         /\ s[i] \in rs[Variable(s[i])]
                         /\ Entails(MS, rs[Variable(s[i])])
                         /\ \A l \in rs[Variable(s[i])] \ {s[i]} : \E j \in 1 .. i - 1 : s[j] = -l
                    /\ rs[Variable(s[i])] = {} /\ lv[Variable(s[i])] > 0 => i = W[lv[Variable(s[i])]] + 1
                    /\ lv[Variable(s[i])] = 0 => \A M \in MS : Holds(M, s[i])
    BY DEF Justified
<1>2. i \in 1 .. Len(t) /\ s[i] = t[i] /\ \A j \in 1 .. i - 1 : s[j] = t[j]
    BY <1>1
<1>3. rs[Variable(t[i])] # {} =>
          /\ t[i] \in rs[Variable(t[i])]
          /\ Entails(MS, rs[Variable(t[i])])
          /\ \A l \in rs[Variable(t[i])] \ {t[i]} : \E j \in 1 .. i - 1 : s[j] = -l
    BY <1>2 DEF Justified
<1>4. /\ rs[Variable(t[i])] = {} /\ lv[Variable(t[i])] > 0 => i = U[lv[Variable(t[i])]] + 1
      /\ lv[Variable(t[i])] = 0 => \A M \in MS : Holds(M, t[i])
    BY <1>2 DEF Justified
<1>5. lv[Variable(s[i])] > 0 => W[lv[Variable(s[i])]] = U[lv[Variable(s[i])]]
    BY DEF SameBelow
<1> QED BY <1>2, <1>3, <1>4, <1>5

(* Fewer models are to be found: what they satisfy only grows.             *)
LEMMA FewerModels ==
    ASSUME NEW t, NEW lv, NEW rs, NEW U, NEW MS, NEW NS \in SUBSET MS
    PROVE  /\ Justified(t, lv, rs, U, MS) => Justified(t, lv, rs, U, NS)
           /\ \A C : Entails(MS, C) => Entails(NS, C)
<1>1. \A C : Entails(MS, C) => Entails(NS, C)
    BY DEF Entails
<1>2. \A l : (\A M \in MS : Holds(M, l)) => \A M \in NS : Holds(M, l)
    OBVIOUS
<1> QED BY <1>1, <1>2 DEF Justified

(* A true literal at no higher level than one of s is still on s.          *)
LEMMA PrefixGuarded ==
    ASSUME NEW D, NEW t \in Trails, NEW lv, NEW p \in Nat, Guarded(D, t, lv, p),
           NEW s, IsPrefixOf(s, t),
           NEW q \in Nat, q <= p, q <= Len(s),
           \A x \in Lits(t), i \in 1 .. q : lv[Variable(x)] <= lv[Variable(s[i])] => x \in Lits(s)
    PROVE  Guarded(D, s, lv, q)
<1> SUFFICES ASSUME NEW W \in D, NEW i \in 1 .. q, -s[i] \in W
             PROVE  \E x \in W : x \in Lits(s) /\ lv[Variable(x)] <= lv[Variable(s[i])]
    BY DEF Guarded
<1>1. i \in 1 .. p /\ s[i] = t[i]
    BY DEF IsPrefixOf
<1>2. PICK x \in W : x \in Lits(t) /\ lv[Variable(x)] <= lv[Variable(t[i])]
    BY <1>1 DEF Guarded
<1> QED BY <1>1, <1>2

(* Fewer watches, less of the trail.                                       *)
LEMMA FewerGuarded ==
    ASSUME NEW D, NEW t, NEW lv, NEW p \in Nat, Guarded(D, t, lv, p),
           NEW E \in SUBSET D, NEW q \in Nat, q <= p
    PROVE  Guarded(E, t, lv, q)
<1>1. 1 .. q \subseteq 1 .. p
    OBVIOUS
<1> QED BY <1>1 DEF Guarded

(* A backjump leaves no watched literal false without its guard.           *)
LEMMA UnrollGuarded ==
    ASSUME NEW t \in Trails, NEW lv, NEW U \in Seq(Nat), OrderedTrail(t, lv, U),
           NEW k \in 0 .. Len(U), NEW D, NEW p \in Nat, Guarded(D, t, lv, p),
           NEW q \in Nat, q <= p, q <= Len(Unrolled(t, U, k))
    PROVE  Guarded(D, Unrolled(t, U, k), lv, q)
<1> DEFINE s == Unrolled(t, U, k)
           W == SubSeq(U, 1, k)
<1>0. Unrolls(t, U, k, s, W)
    BY DEF Unrolls
<1> HIDE DEF s, W
<1>1. /\ Len(s) \in Nat /\ Len(s) <= Len(t)
      /\ \A i \in 1 .. Len(s) : s[i] = t[i]
      /\ Lits(s) = {l \in Lits(t) : lv[Variable(l)] <= k}
      /\ s \in Trails
    BY <1>0, UnrollOrdered
<1>2. ASSUME NEW x \in Lits(t), NEW i \in 1 .. q, lv[Variable(x)] <= lv[Variable(s[i])]
      PROVE  x \in Lits(s)
    <2>1. i \in 1 .. Len(s)
        BY <1>1 DEF s
    <2>2. s[i] \in Lits(s)
        BY <1>1, <2>1, TrailTyping
    <2>3. lv[Variable(s[i])] <= k
        BY <1>1, <2>2
    <2>4. lv[Variable(x)] \in 0 .. Len(U) /\ lv[Variable(s[i])] \in 0 .. Len(U) /\ Len(U) \in Nat
        BY <1>1, <2>1, <2>2, TrailTyping, LenProperties DEF OrderedTrail
    <2> QED BY <1>1, <1>2, <2>3, <2>4
<1>3. q <= Len(s)
    BY DEF s
<1>4. IsPrefixOf(s, t)
    BY <1>1 DEF IsPrefixOf
<1>5. Guarded(D, s, lv, q)
    BY <1>2, <1>3, <1>4, PrefixGuarded
<1> QED BY <1>5 DEF s
-----------------------------------------------------------------------------
(* A literal without a value is appended to the trail, at the last level.  *)
Assigns(t, lv, U, l, u, lw) ==
    /\ l \notin Lits(t) /\ -l \notin Lits(t)
    /\ u = Append(t, l)
    /\ lw = [lv EXCEPT ![Variable(l)] = Len(U)]

(* The trail stays in order.                                               *)
LEMMA AssignOrdered ==
    ASSUME NEW t \in Trails, NEW lv \in Levels, NEW U \in Seq(Nat), OrderedTrail(t, lv, U),
           NEW l \in Literal, NEW u, NEW lw, Assigns(t, lv, U, l, u, lw)
    PROVE  /\ u \in Trails /\ Len(u) = Len(t) + 1 /\ u[Len(t) + 1] = l
           /\ \A i \in 1 .. Len(t) : u[i] = t[i] /\ Variable(t[i]) # Variable(l)
           /\ Lits(u) = Lits(t) \cup {l}
           /\ lw \in Levels /\ lw[Variable(l)] = Len(U)
           /\ \A x \in Lits(t) : Variable(x) # Variable(l) /\ lw[Variable(x)] = lv[Variable(x)]
           /\ OrderedTrail(u, lw, U)
<1>1. u \in Trails /\ Len(u) = Len(t) + 1 /\ u[Len(t) + 1] = l /\ \A i \in 1 .. Len(t) : u[i] = t[i]
    BY AppendProperties DEF Trails, Assigns
<1>2. Len(t) \in Nat /\ Len(U) \in Nat
    BY TrailTyping, LenProperties
<1>3. \A x \in Lits(t) : Variable(x) # Variable(l)
    <2> SUFFICES ASSUME NEW x \in Lits(t), Variable(x) = Variable(l)
                 PROVE  FALSE
        OBVIOUS
    <2>1. x \in Literal
        BY TrailTyping
    <2> QED BY <2>1, SameVariable DEF Assigns
<1>4. \A i \in 1 .. Len(t) : Variable(t[i]) # Variable(l) /\ Variable(t[i]) \in Var
    BY <1>3, TrailTyping, LiteralFacts
<1>5. Lits(u) = Lits(t) \cup {l}
    <2>1. \A i \in 1 .. Len(u) : i \in 1 .. Len(t) \/ i = Len(t) + 1
        BY <1>1, <1>2
    <2>2. \A x \in Lits(u) : x \in Lits(t) \cup {l}
        BY <1>1, <2>1, TrailTyping
    <2>3. \A x \in Lits(t) : x \in Lits(u)
        BY <1>1, <1>2, TrailTyping
    <2>4. l \in Lits(u)
        BY <1>1, <1>2, TrailTyping
    <2> QED BY <2>2, <2>3, <2>4
<1>6. Variable(l) \in Var /\ \A x \in Lits(t) : Variable(x) \in Var
    BY LiteralFacts, TrailTyping
<1>7. lw \in Levels /\ lw[Variable(l)] = Len(U) /\ \A v \in Var \ {Variable(l)} : lw[v] = lv[v]
    BY <1>2, <1>6 DEF Levels, Assigns
<1>8. \A i \in 1 .. Len(t) : lw[Variable(u[i])] = lv[Variable(t[i])] /\ u[i] = t[i]
    BY <1>1, <1>4, <1>7
<1>9. OrderedTrail(u, lw, U)
    <2>1. \A i, j \in 1 .. Len(u) : Variable(u[i]) = Variable(u[j]) => i = j
        <3> TAKE i, j \in 1 .. Len(u)
        <3>1. CASE i \in 1 .. Len(t) /\ j \in 1 .. Len(t)
            BY <1>8, <3>1 DEF OrderedTrail
        <3>2. CASE i = Len(t) + 1 \/ j = Len(t) + 1
            <4>1. i \in 1 .. Len(t) \/ i = Len(t) + 1
                BY <1>1, <1>2
            <4>2. j \in 1 .. Len(t) \/ j = Len(t) + 1
                BY <1>1, <1>2
            <4> QED BY <1>1, <1>4, <3>2, <4>1, <4>2
        <3> QED BY <1>1, <1>2, <3>1, <3>2
    <2>2. \A k \in 1 .. Len(U) : U[k] \in 0 .. Len(u)
        BY <1>1, <1>2 DEF OrderedTrail
    <2>3. \A j, k \in 1 .. Len(U) : j <= k => U[j] <= U[k]
        BY DEF OrderedTrail
    <2>4. ASSUME NEW i \in 1 .. Len(u)
          PROVE  /\ lw[Variable(u[i])] \in 0 .. Len(U)
                 /\ lw[Variable(u[i])] > 0 => U[lw[Variable(u[i])]] < i
                 /\ lw[Variable(u[i])] < Len(U) => i <= U[lw[Variable(u[i])] + 1]
        <3>1. CASE i \in 1 .. Len(t)
            BY <1>8, <3>1 DEF OrderedTrail
        <3>2. CASE i = Len(t) + 1
            <4>1. lw[Variable(u[i])] = Len(U)
                BY <1>1, <1>7, <3>2
            <4>2. Len(U) > 0 => U[Len(U)] \in 0 .. Len(t)
                BY <1>2 DEF OrderedTrail
            <4> QED BY <1>2, <3>2, <4>1, <4>2
        <3> QED BY <1>1, <1>2, <3>1, <3>2
    <2> QED BY <2>1, <2>2, <2>3, <2>4 DEF OrderedTrail
<1> QED BY <1>1, <1>3, <1>4, <1>5, <1>6, <1>7, <1>9

(* A clause is a reason for l behind the trail t; at level 0 l may hold    *)
(* without one, and the first literal of a level is chosen.                *)
ReasonFor(t, U, l, C, MS) ==
    /\ C # {} => l \in C /\ Entails(MS, C) /\ \A x \in C \ {l} : -x \in Lits(t)
    /\ C = {} => IF Len(U) = 0 THEN \A M \in MS : Holds(M, l) ELSE Len(t) = U[Len(U)]
HasReason(rs, l, C, rw) == rw = [rs EXCEPT ![Variable(l)] = C]

(* The trail stays justified.                                              *)
LEMMA AssignJustified ==
    ASSUME NEW t \in Trails, NEW lv \in Levels, NEW U \in Seq(Nat), OrderedTrail(t, lv, U),
           NEW l \in Literal, NEW u, NEW lw, Assigns(t, lv, U, l, u, lw),
           NEW rs \in Reasons, NEW MS, Justified(t, lv, rs, U, MS),
           NEW C \in SUBSET Literal, NEW rw, HasReason(rs, l, C, rw), ReasonFor(t, U, l, C, MS)
    PROVE  Justified(u, lw, rw, U, MS) /\ rw \in Reasons
<1>1. /\ u \in Trails /\ Len(u) = Len(t) + 1 /\ u[Len(t) + 1] = l
      /\ \A i \in 1 .. Len(t) : u[i] = t[i] /\ Variable(t[i]) # Variable(l)
      /\ lw[Variable(l)] = Len(U)
      /\ \A x \in Lits(t) : Variable(x) # Variable(l) /\ lw[Variable(x)] = lv[Variable(x)]
    BY AssignOrdered
<1>2. Len(t) \in Nat /\ Len(U) \in Nat
    BY TrailTyping, LenProperties
<1>3. Variable(l) \in Var /\ \A i \in 1 .. Len(t) : Variable(t[i]) \in Var
    BY LiteralFacts, TrailTyping
<1>4. rw \in Reasons /\ rw[Variable(l)] = C /\ \A i \in 1 .. Len(t) : rw[Variable(t[i])] = rs[Variable(t[i])]
    BY <1>1, <1>3 DEF Reasons, HasReason
<1> SUFFICES ASSUME NEW i \in 1 .. Len(u)
             PROVE  /\ rw[Variable(u[i])] # {} =>
                         /\ u[i] \in rw[Variable(u[i])]
                         /\ Entails(MS, rw[Variable(u[i])])
                         /\ \A x \in rw[Variable(u[i])] \ {u[i]} : \E j \in 1 .. i - 1 : u[j] = -x
                    /\ rw[Variable(u[i])] = {} /\ lw[Variable(u[i])] > 0 => i = U[lw[Variable(u[i])]] + 1
                    /\ lw[Variable(u[i])] = 0 => \A M \in MS : Holds(M, u[i])
    BY <1>4 DEF Justified
<1>5. CASE i \in 1 .. Len(t)
    <2>1. u[i] = t[i] /\ rw[Variable(u[i])] = rs[Variable(t[i])] /\ lw[Variable(u[i])] = lv[Variable(t[i])]
        BY <1>1, <1>4, <1>5, TrailTyping
    <2>2. \A j \in 1 .. i - 1 : u[j] = t[j]
        BY <1>1, <1>2, <1>5
    <2>3. rs[Variable(t[i])] # {} =>
              /\ t[i] \in rs[Variable(t[i])]
              /\ Entails(MS, rs[Variable(t[i])])
              /\ \A x \in rs[Variable(t[i])] \ {t[i]} : \E j \in 1 .. i - 1 : u[j] = -x
        BY <1>5, <2>2 DEF Justified
    <2>4. /\ rs[Variable(t[i])] = {} /\ lv[Variable(t[i])] > 0 => i = U[lv[Variable(t[i])]] + 1
          /\ lv[Variable(t[i])] = 0 => \A M \in MS : Holds(M, t[i])
        BY <1>5 DEF Justified
    <2> QED BY <2>1, <2>3, <2>4
<1>6. CASE i = Len(t) + 1
    <2>1. u[i] = l /\ rw[Variable(u[i])] = C /\ lw[Variable(u[i])] = Len(U)
        BY <1>1, <1>4, <1>6
    <2>2. ASSUME C # {}, NEW x \in C \ {l}
          PROVE  \E j \in 1 .. i - 1 : u[j] = -x
        <3>1. -x \in Lits(t)
            BY <2>2 DEF ReasonFor
        <3>2. PICK j \in 1 .. Len(t) : t[j] = -x
            BY <3>1, TrailTyping
        <3> QED BY <1>1, <1>2, <1>6, <3>2
    <2>3. ASSUME Len(U) = 0, NEW M \in MS
          PROVE  Holds(M, l)
        <3>1. CASE C = {}
            BY <2>3, <3>1 DEF ReasonFor
        <3>2. CASE C # {}
            <4>1. PICK x \in C : Holds(M, x)
                BY <2>3, <3>2 DEF Entails, Sat, ReasonFor
            <4>2. CASE x # l
                <5>1. -x \in Lits(t)
                    BY <3>2, <4>2 DEF ReasonFor
                <5>2. PICK j \in 1 .. Len(t) : t[j] = -x
                    BY <5>1, TrailTyping
                <5>3. lv[Variable(t[j])] = 0
                    BY <2>3 DEF OrderedTrail
                <5>4. Holds(M, -x)
                    BY <2>3, <5>2, <5>3 DEF Justified
                <5>5. x \in Literal
                    OBVIOUS
                <5> QED BY <4>1, <5>4, <5>5, HoldsOpposite
            <4> QED BY <4>1, <4>2
        <3> QED BY <3>1, <3>2
    <2>4. C = {} /\ Len(U) > 0 => i = U[Len(U)] + 1
        BY <1>2, <1>6 DEF ReasonFor
    <2>5. C # {} => l \in C /\ Entails(MS, C)
        BY DEF ReasonFor
    <2> QED BY <2>1, <2>2, <2>3, <2>4, <2>5
<1>7. i \in 1 .. Len(t) \/ i = Len(t) + 1
    BY <1>1, <1>2
<1> QED BY <1>5, <1>6, <1>7

(* What was guarded stays guarded.                                         *)
LEMMA AssignGuarded ==
    ASSUME NEW t \in Trails, NEW lv \in Levels, NEW U \in Seq(Nat), OrderedTrail(t, lv, U),
           NEW l \in Literal, NEW u, NEW lw, Assigns(t, lv, U, l, u, lw),
           NEW D, NEW p \in Nat, p <= Len(t), Guarded(D, t, lv, p)
    PROVE  Guarded(D, u, lw, p)
<1>1. /\ \A i \in 1 .. Len(t) : u[i] = t[i]
      /\ Lits(u) = Lits(t) \cup {l}
      /\ \A x \in Lits(t) : lw[Variable(x)] = lv[Variable(x)]
    BY AssignOrdered
<1> SUFFICES ASSUME NEW W \in D, NEW i \in 1 .. p, -u[i] \in W
             PROVE  \E x \in W : x \in Lits(u) /\ lw[Variable(x)] <= lw[Variable(u[i])]
    BY DEF Guarded
<1>2. i \in 1 .. Len(t) /\ u[i] = t[i]
    BY <1>1, TrailTyping
<1>3. PICK x \in W : x \in Lits(t) /\ lv[Variable(x)] <= lv[Variable(t[i])]
    BY <1>2 DEF Guarded
<1>4. t[i] \in Lits(t)
    BY <1>2, TrailTyping
<1> QED BY <1>1, <1>2, <1>3, <1>4

(* Levels are opened: none of them has a literal yet.                      *)
Opens(t, U, n, W) == W = U \o [i \in 1 .. n |-> Len(t)]
(* The trail stays in order and justified under more levels.               *)
LEMMA LevelsOpened ==
    ASSUME NEW t \in Trails, NEW lv, NEW U \in Seq(Nat), OrderedTrail(t, lv, U),
           NEW n \in Nat, NEW W, Opens(t, U, n, W)
    PROVE  /\ W \in Seq(Nat) /\ Len(W) = Len(U) + n
           /\ \A k \in 1 .. Len(U) : W[k] = U[k]
           /\ \A k \in Len(U) + 1 .. Len(U) + n : W[k] = Len(t)
           /\ OrderedTrail(t, lv, W)
           /\ \A rs, MS : Justified(t, lv, rs, U, MS) => Justified(t, lv, rs, W, MS)
<1> DEFINE V == [i \in 1 .. n |-> Len(t)]
<1>1. Len(t) \in Nat /\ Len(U) \in Nat
    BY TrailTyping, LenProperties
<1>2. V \in Seq(Nat) /\ Len(V) = n
    <2>1. V \in [1 .. n -> Nat]
        BY <1>1
    <2>2. V \in Seq(Nat)
        BY <2>1, SeqDef
    <2> QED BY <2>1, <2>2, LenProperties
<1>3. /\ W \in Seq(Nat) /\ Len(W) = Len(U) + n
      /\ \A i \in 1 .. Len(U) + n : W[i] = IF i <= Len(U) THEN U[i] ELSE V[i - Len(U)]
    <2> HIDE DEF V
    <2>1. W = U \o V
        BY DEF V, Opens
    <2>2. /\ U \o V \in Seq(Nat) /\ Len(U \o V) = Len(U) + Len(V)
          /\ \A i \in 1 .. Len(U) + Len(V) : (U \o V)[i] = IF i <= Len(U) THEN U[i] ELSE V[i - Len(U)]
        BY <1>2, ConcatProperties
    <2> QED BY <1>2, <2>1, <2>2
<1>4. /\ \A k \in 1 .. Len(U) : W[k] = U[k]
      /\ \A k \in Len(U) + 1 .. Len(U) + n : W[k] = Len(t)
    <2>1. \A k \in 1 .. Len(U) : W[k] = U[k]
        <3> HIDE DEF V
        <3> TAKE k \in 1 .. Len(U)
        <3>1. k \in 1 .. Len(U) + n /\ k <= Len(U)
            BY <1>1
        <3> QED BY <1>3, <3>1
    <2>2. \A k \in Len(U) + 1 .. Len(U) + n : W[k] = Len(t)
        <3> TAKE k \in Len(U) + 1 .. Len(U) + n
        <3>1. k \in 1 .. Len(U) + n /\ ~(k <= Len(U)) /\ k - Len(U) \in 1 .. n
            BY <1>1
        <3>2. W[k] = V[k - Len(U)]
            BY <1>3, <3>1
        <3> QED BY <3>1, <3>2
    <2> QED BY <2>1, <2>2
<1>5. OrderedTrail(t, lv, W)
    <2>1. \A k \in 1 .. Len(W) : W[k] \in 0 .. Len(t)
        <3> TAKE k \in 1 .. Len(W)
        <3>1. CASE k \in 1 .. Len(U)
            BY <1>4, <3>1 DEF OrderedTrail
        <3>2. CASE k \in Len(U) + 1 .. Len(U) + n
            BY <1>1, <1>4, <3>2
        <3> QED BY <1>1, <1>3, <3>1, <3>2
    <2>2. \A j, k \in 1 .. Len(W) : j <= k => W[j] <= W[k]
        <3> SUFFICES ASSUME NEW j \in 1 .. Len(W), NEW k \in 1 .. Len(W), j <= k
                     PROVE  W[j] <= W[k]
            OBVIOUS
        <3>1. CASE k \in 1 .. Len(U)
            <4>1. j \in 1 .. Len(U)
                BY <1>1, <3>1
            <4>2. U[j] <= U[k]
                BY <3>1, <4>1 DEF OrderedTrail
            <4> QED BY <1>4, <3>1, <4>1, <4>2
        <3>2. CASE k \in Len(U) + 1 .. Len(U) + n
            <4>1. W[j] \in 0 .. Len(t) /\ W[k] = Len(t)
                BY <1>4, <2>1, <3>2
            <4> QED BY <1>1, <4>1
        <3> QED BY <1>1, <1>3, <3>1, <3>2
    <2>3. ASSUME NEW i \in 1 .. Len(t)
          PROVE  /\ lv[Variable(t[i])] \in 0 .. Len(W)
                 /\ lv[Variable(t[i])] > 0 => W[lv[Variable(t[i])]] < i
                 /\ lv[Variable(t[i])] < Len(W) => i <= W[lv[Variable(t[i])] + 1]
        <3> DEFINE m == lv[Variable(t[i])]
        <3>1. /\ m \in 0 .. Len(U) /\ (m > 0 => U[m] < i)
              /\ (m < Len(U) => i <= U[m + 1])
            BY DEF OrderedTrail
        <3> HIDE DEF m
        <3>2. m \in 0 .. Len(W)
            BY <1>1, <1>3, <3>1
        <3>3. m > 0 => W[m] < i
            BY <1>1, <1>4, <3>1
        <3>4. m < Len(U) => i <= W[m + 1]
            <4> SUFFICES ASSUME m < Len(U) PROVE i <= W[m + 1]
                OBVIOUS
            <4>1. m + 1 \in 1 .. Len(U)
                BY <1>1, <3>1
            <4>2. W[m + 1] = U[m + 1]
                BY <1>4, <4>1
            <4> QED BY <3>1, <4>2
        <3>5. m = Len(U) /\ m < Len(W) => i <= W[m + 1]
            <4>1. SUFFICES ASSUME m = Len(U), m < Len(W)
                           PROVE  i <= W[m + 1]
                OBVIOUS
            <4>2. m + 1 \in Len(U) + 1 .. Len(U) + n
                BY <1>1, <1>3, <4>1
            <4>3. W[m + 1] = Len(t)
                BY <1>4, <4>2
            <4> QED BY <1>1, <4>3
        <3>6. m < Len(W) => i <= W[m + 1]
            BY <1>1, <3>1, <3>4, <3>5
        <3> QED BY <3>2, <3>3, <3>6 DEF m
    <2> QED BY <2>1, <2>2, <2>3 DEF OrderedTrail
<1>6. ASSUME NEW rs, NEW MS, Justified(t, lv, rs, U, MS)
      PROVE  Justified(t, lv, rs, W, MS)
    <2>1. \A i \in 1 .. Len(t) : lv[Variable(t[i])] > 0 => W[lv[Variable(t[i])]] = U[lv[Variable(t[i])]]
        BY <1>1, <1>4 DEF OrderedTrail
    <2>2. IsPrefixOf(t, t)
        BY <1>1 DEF IsPrefixOf
    <2>3. SameBelow(t, lv, U, W)
        BY <2>1 DEF SameBelow
    <2> QED BY <1>6, <2>2, <2>3, PrefixJustified
<1> QED BY <1>3, <1>4, <1>5, <1>6
-----------------------------------------------------------------------------
(* An interpretation of MS follows the trail along the reasons: what is    *)
(* reached from literals that hold in it holds as well.                    *)
LEMMA TrailFollows ==
    ASSUME NEW t \in Trails, NEW lv, NEW rs \in Reasons, NEW U, NEW MS, Justified(t, lv, rs, U, MS),
           NEW M \in MS, NEW I \in SUBSET (1 .. Len(t)),
           \A i \in I : \/ Holds(M, t[i])
                        \/ /\ rs[Variable(t[i])] # {}
                           /\ \A j \in 1 .. i - 1 : -t[j] \in rs[Variable(t[i])] => j \in I \/ Holds(M, t[j])
    PROVE  \A i \in I : Holds(M, t[i])
<1> SUFFICES ASSUME NEW n \in I, ~Holds(M, t[n])
             PROVE  FALSE
    OBVIOUS
<1> DEFINE bad == {i \in I : ~Holds(M, t[i])}
<1>1. Len(t) \in Nat
    BY TrailTyping
<1>2. bad \in SUBSET Nat /\ n \in bad
    <2>1. \A i \in bad : i \in Nat
        BY <1>1
    <2> QED BY <2>1
<1>3. PICK i \in bad : \A j \in bad : i <= j
    BY <1>2, LeastOfNaturals
<1>4. i \in 1 .. Len(t) /\ i \in Nat /\ i \in I /\ ~Holds(M, t[i])
    BY <1>1, <1>3
<1> DEFINE R == rs[Variable(t[i])]
<1>5. R # {} /\ \A j \in 1 .. i - 1 : -t[j] \in R => j \in I \/ Holds(M, t[j])
    BY <1>4
<1>6. t[i] \in Literal /\ R \subseteq Literal
    BY <1>4, TrailTyping, LiteralFacts DEF Reasons
<1>7. Entails(MS, R) /\ \A l \in R \ {t[i]} : \E j \in 1 .. i - 1 : t[j] = -l
    BY <1>4, <1>5 DEF Justified
<1>8. PICK y \in R : Holds(M, y)
    BY <1>7 DEF Entails, Sat
<1>9. PICK j \in 1 .. i - 1 : t[j] = -y
    BY <1>4, <1>7, <1>8
<1>10. y \in Literal /\ -t[j] = y
    BY <1>6, <1>9, LiteralFacts
<1>11. j \in I \/ Holds(M, t[j])
    BY <1>5, <1>10
<1>12. ~Holds(M, t[j])
    BY <1>8, <1>9, <1>10, HoldsOpposite
<1>13. j \in bad /\ j < i
    BY <1>4, <1>11, <1>12
<1> QED BY <1>1, <1>3, <1>4, <1>13

(* The trail is cut in front of position n while another literal of the    *)
(* last level stays.                                                       *)
CutBefore(t, lv, U, m, n, s) ==
    /\ m < n /\ Len(U) > 0
    /\ lv[Variable(t[m])] = Len(U) /\ lv[Variable(t[n])] = Len(U)
    /\ s = SubSeq(t, 1, n - 1)
(* What is left of the trail and of the levels is still in order.          *)
LEMMA CutAt ==
    ASSUME NEW t \in Trails, NEW lv, NEW U \in Seq(Nat), OrderedTrail(t, lv, U),
           NEW m \in 1 .. Len(t), NEW n \in 1 .. Len(t), NEW s, CutBefore(t, lv, U, m, n, s)
    PROVE  /\ s \in Trails /\ Len(s) = n - 1 /\ IsPrefixOf(s, t)
           /\ U[Len(U)] \in Nat /\ U[Len(U)] <= Len(s) /\ U[Len(U)] < m
           /\ Lits(s) \subseteq Lits(t)
           /\ \A l \in Lits(t) : lv[Variable(l)] < Len(U) => l \in Lits(s)
           /\ OrderedTrail(s, lv, U)
           /\ \A rs, MS : Justified(t, lv, rs, U, MS) => Justified(s, lv, rs, U, MS)
           /\ \A D : Guarded(D, t, lv, U[Len(U)]) => Guarded(D, s, lv, U[Len(U)])
<1> SUFFICES ASSUME m < n, Len(U) > 0, lv[Variable(t[m])] = Len(U), lv[Variable(t[n])] = Len(U),
                    s = SubSeq(t, 1, n - 1)
             PROVE  /\ s \in Trails /\ Len(s) = n - 1 /\ IsPrefixOf(s, t)
                    /\ U[Len(U)] \in Nat /\ U[Len(U)] <= Len(s) /\ U[Len(U)] < m
                    /\ Lits(s) \subseteq Lits(t)
                    /\ \A l \in Lits(t) : lv[Variable(l)] < Len(U) => l \in Lits(s)
                    /\ OrderedTrail(s, lv, U)
                    /\ \A rs, MS : Justified(t, lv, rs, U, MS) => Justified(s, lv, rs, U, MS)
                    /\ \A D : Guarded(D, t, lv, U[Len(U)]) => Guarded(D, s, lv, U[Len(U)])
    BY DEF CutBefore
<1> DEFINE B == U[Len(U)]
<1>1. Len(t) \in Nat /\ Len(U) \in Nat /\ n \in Nat /\ m \in Nat /\ n - 1 \in 0 .. Len(t)
    BY TrailTyping, LenProperties
<1>2. s \in Trails /\ Len(s) = n - 1 /\ \A i \in 1 .. n - 1 : s[i] = t[i]
    BY <1>1, Prefix DEF Trails
<1>3. IsPrefixOf(s, t)
    BY <1>1, <1>2 DEF IsPrefixOf
<1>4. B \in Nat /\ B < m /\ B <= Len(s)
    <2>1. B \in 0 .. Len(t) /\ B < m
        BY <1>1 DEF OrderedTrail
    <2> QED BY <1>1, <1>2, <2>1
<1>5. \A l \in Lits(t) : lv[Variable(l)] < Len(U) => l \in Lits(s)
    <2> SUFFICES ASSUME NEW l \in Lits(t), lv[Variable(l)] < Len(U)
                 PROVE  l \in Lits(s)
        OBVIOUS
    <2>1. PICK i \in 1 .. Len(t) : t[i] = l
        BY TrailTyping
    <2>2. lv[Variable(t[i])] \in 0 .. Len(U)
        BY DEF OrderedTrail
    <2>3. ~(n <= i)
        <3>1. lv[Variable(t[i])] < Len(U) /\ lv[Variable(t[n])] = Len(U)
            BY <2>1
        <3>2. n <= i => /\ lv[Variable(t[n])] \in Nat /\ lv[Variable(t[i])] \in Nat
                        /\ lv[Variable(t[n])] <= lv[Variable(t[i])]
            BY <2>1, LevelsAscend
        <3>3. Len(U) \in Nat
            BY <1>1
        <3> QED BY ONLY <3>1, <3>2, <3>3
    <2>4. i \in 1 .. Len(s) /\ s[i] = l
        BY <1>1, <1>2, <2>1, <2>3
    <2> QED BY <1>2, <2>4, TrailTyping
<1>6. Lits(s) \subseteq Lits(t)
    BY <1>1, LitsOfPrefix
<1>7. \A i \in 1 .. Len(s) : i \in 1 .. Len(t) /\ s[i] = t[i]
    BY <1>1, <1>2
<1>8. OrderedTrail(s, lv, U)
    <2>1. \A i, j \in 1 .. Len(s) : Variable(s[i]) = Variable(s[j]) => i = j
        BY <1>7 DEF OrderedTrail
    <2>2. \A k \in 1 .. Len(U) : U[k] \in 0 .. Len(s)
        <3> TAKE k \in 1 .. Len(U)
        <3>1. U[k] \in 0 .. Len(t) /\ U[k] <= B
            BY <1>1 DEF OrderedTrail
        <3> QED BY <1>1, <1>2, <1>4, <3>1
    <2>3. \A j, k \in 1 .. Len(U) : j <= k => U[j] <= U[k]
        BY DEF OrderedTrail
    <2>4. \A i \in 1 .. Len(s) :
              /\ lv[Variable(s[i])] \in 0 .. Len(U)
              /\ lv[Variable(s[i])] > 0 => U[lv[Variable(s[i])]] < i
              /\ lv[Variable(s[i])] < Len(U) => i <= U[lv[Variable(s[i])] + 1]
        BY <1>7 DEF OrderedTrail
    <2> QED BY <2>1, <2>2, <2>3, <2>4 DEF OrderedTrail
<1>9. ASSUME NEW rs, NEW MS, Justified(t, lv, rs, U, MS)
      PROVE  Justified(s, lv, rs, U, MS)
    <2>1. SameBelow(s, lv, U, U)
        BY DEF SameBelow
    <2> QED BY <1>3, <1>9, <2>1, PrefixJustified
<1>10. ASSUME NEW D, Guarded(D, t, lv, B)
       PROVE  Guarded(D, s, lv, B)
    <2>1. ASSUME NEW x \in Lits(t), NEW i \in 1 .. B, lv[Variable(x)] <= lv[Variable(s[i])]
          PROVE  x \in Lits(s)
        <3>1. i \in 1 .. Len(t) /\ s[i] = t[i] /\ i < n /\ i <= B
            BY <1>1, <1>2, <1>4
        <3>2. lv[Variable(t[i])] # Len(U)
            BY <1>1, <1>4, <3>1 DEF OrderedTrail
        <3>3. lv[Variable(t[i])] \in 0 .. Len(U)
            BY <3>1 DEF OrderedTrail
        <3>4. lv[Variable(x)] \in 0 .. Len(U)
            BY TrailTyping DEF OrderedTrail
        <3> QED BY <1>1, <1>5, <2>1, <3>1, <3>2, <3>3, <3>4
    <2>2. B <= B /\ \A x \in Lits(t), i \in 1 .. B : lv[Variable(x)] <= lv[Variable(s[i])] => x \in Lits(s)
        BY <1>4, <2>1
    <2> HIDE DEF B
    <2> QED BY <1>3, <1>4, <1>10, <2>2, PrefixGuarded
<1> QED BY <1>2, <1>3, <1>4, <1>5, <1>6, <1>8, <1>9, <1>10

(* A clause of two literals or more, no two of them on one variable, is    *)
(* watched at two literals.                                                *)
LEMMA FirstTwoOf ==
    ASSUME NEW C \in SUBSET Literal, C \cap Opposite(C) = {}, Cardinality(C) > 1
    PROVE  \E a, b \in C : a # b /\ FirstTwo(C) = {a, b}
<1> DEFINE before(l) == {x \in C : Variable(x) < Variable(l)}
<1>1. IsFiniteSet(C)
    BY LiteralsFinite
<1>2. \A l \in C : l \in Literal /\ Variable(l) \in Nat
    BY LiteralFacts, VarAssumption
<1>3. \A x, y \in C : Variable(x) = Variable(y) => x = y
    <2> SUFFICES ASSUME NEW x \in C, NEW y \in C, Variable(x) = Variable(y), x # y
                 PROVE  FALSE
        OBVIOUS
    <2>1. x = -y
        BY <1>2, SameVariable
    <2>2. x \in Opposite(C)
        BY <2>1 DEF Opposite
    <2> QED BY <2>2
<1>4. PICK c \in C, d \in C : c # d
    BY <1>1, TwoOf
<1>5. PICK a \in C : \A x \in C : Variable(a) <= Variable(x)
    <2> DEFINE V == {Variable(x) : x \in C}
    <2>1. V \in SUBSET Nat /\ Variable(c) \in V
        BY <1>2
    <2>2. PICK v \in V : \A w \in V : v <= w
        BY <2>1, LeastOfNaturals
    <2> QED BY <2>2
<1>6. PICK b \in C \ {a} : \A x \in C \ {a} : Variable(b) <= Variable(x)
    <2> DEFINE V == {Variable(x) : x \in C \ {a}}
    <2>1. V \in SUBSET Nat /\ \E x \in C \ {a} : Variable(x) \in V
        BY <1>2, <1>4
    <2>2. V # {}
        BY <2>1
    <2>3. PICK v \in V : \A w \in V : v <= w
        BY <2>1, <2>2, LeastOfNaturals
    <2> QED BY <2>3
<1>7. before(a) = {}
    BY <1>2, <1>5
<1>8. Cardinality(before(a)) = 0
    BY <1>7, FS_EmptySet
<1>9. before(b) = {a}
    <2>1. Variable(a) < Variable(b)
        BY <1>2, <1>3, <1>5, <1>6
    <2>2. \A x \in C : Variable(x) < Variable(b) => x = a
        BY <1>2, <1>6
    <2> QED BY <2>1, <2>2
<1>10. Cardinality(before(b)) = 1
    BY <1>9, FS_Singleton
<1>11. ASSUME NEW x \in C, x # a, x # b
       PROVE  ~(Cardinality(before(x)) < 2)
    <2>1. a \in before(x) /\ b \in before(x)
        BY <1>2, <1>3, <1>5, <1>6, <1>11
    <2>2. IsFiniteSet(before(x))
        BY <1>1, FS_Subset
    <2> HIDE DEF before
    <2> QED BY <1>6, <2>1, <2>2, TwoElements
<1>12. FirstTwo(C) = {x \in C : Cardinality(before(x)) < 2}
    BY DEF FirstTwo
<1> HIDE DEF before
<1>13. FirstTwo(C) = {a, b}
    BY <1>6, <1>8, <1>10, <1>11, <1>12
<1> QED BY <1>6, <1>13
-----------------------------------------------------------------------------
(* The inductive invariant.                                                *)
WatchedClause == [watch : SUBSET Literal, rest : SUBSET Literal]
Watches == binary \cup {c.watch : c \in clauses \cup learned}

(* The length of the trail when the current level was opened.              *)
Base == IF currentDecisionLevel = 0 THEN 0 ELSE unrollVector[currentDecisionLevel]

ControlInv ==
    /\ instance \in Instances
    /\ mode \in {"bc", "bt", "core", "minimize"}
    /\ pc \in {"start", "propagate", "unit", "analyze", "loop", "coherent", "incoherent", "end"}
    /\ restarts \in Nat /\ deletions \in Nat
    /\ pc = "start" => trail = <<>> /\ mode # "minimize"
    /\ pc \in {"start", "unit"} => unrollVector = <<>>

SearchInv ==
    /\ trail \in Trails /\ level \in Levels /\ reason \in Reasons
    /\ phase \in [Var -> {-1, 1}]
    /\ unrollVector \in Seq(Nat) /\ nextVariable \in Nat
    /\ OrderedTrail(trail, level, unrollVector)
    /\ Justified(trail, level, reason, unrollVector, ToFind)

(* The clauses of the database hold in all models still to be found; each  *)
(* is watched at two of its literals.                                      *)
DatabaseInv ==
    /\ binary \subseteq SUBSET Literal
    /\ clauses \cup learned \subseteq WatchedClause
    /\ \A C \in binary : \E a, b \in Literal : a # b /\ C = {a, b}
    /\ \A c \in clauses \cup learned :
           /\ \E a, b \in Literal : a # b /\ c.watch = {a, b}
           /\ c.watch \cap c.rest = {}
    /\ \A C \in Database : Entails(ToFind, C)

(* A clause that matters is never lost: it is in the database, with fewer  *)
(* literals perhaps, or one of its literals is true at level 0.            *)
Zero == {l \in Lits(trail) : Level(l) = 0}
Kept == binary \cup {Literals(c) : c \in clauses} \cup {{l} : l \in Zero}
KeptInv ==
    /\ \A C \in instance.input : \E D \in Kept : D \subseteq C
    /\ mode = "bc" => \A n \in 1 .. Len(found) :
           \/ n = Len(found) /\ pc \in {"coherent", "end"}
           \/ \E D \in Kept : ~Sat(found[n], D)

FoundInv ==
    /\ found \in Seq(SUBSET Var)
    /\ \A n \in 1 .. Len(found) : found[n] \in Models
    /\ mode \in {"core", "minimize"} /\ pc # "end" => found = <<>>

(* Everything on the trail is propagated, and if it is complete the post-  *)
(* propagators had nothing to hand out.                                    *)
LoopsHold == Len(trail) >= Cardinality(Var) => \A L \in instance.loops : \E l \in L : IsTrue(l)
Quiet ==
    /\ nextVariable = Len(trail)
    /\ Guarded(Watches, trail, level, Len(trail))
    /\ LoopsHold

(* The loops over the clauses of one literal, and the queue behind it.     *)
VisitInv ==
    IF visit = NoVisit
    THEN /\ Base <= nextVariable /\ nextVariable <= Len(trail)
         /\ Guarded(Watches, trail, level, nextVariable)
    ELSE /\ Base < nextVariable /\ nextVariable <= Len(trail)
         /\ visit.lit = -trail[nextVariable]
         /\ Guarded(Watches, trail, level, nextVariable - 1)
         /\ visit.watched \subseteq clauses \cup learned
         /\ \A c \in visit.watched : visit.lit \in c.watch
         /\ \A l \in visit.binary : l # visit.lit /\ {l, visit.lit} \in binary
         /\ \A C \in binary : visit.lit \in C => \E x \in C : IsTrue(x) \/ x \in visit.binary
         /\ \A c \in clauses \cup learned :
                visit.lit \in c.watch => c \in visit.watched \/ \E x \in c.watch : IsTrue(x)

(* A clause that became false did so at the current level.                 *)
FalseClause ==
    /\ conflict.lit \in conflict.clause
    /\ Level(conflict.lit) = currentDecisionLevel
    /\ \A l \in conflict.clause : IsFalse(l)
    /\ Entails(ToFind, conflict.clause)

PropagationInv ==
    /\ visit \in [lit : Literal \cup {0}, binary : SUBSET Literal, watched : SUBSET WatchedClause]
    /\ conflict \in [lit : Literal \cup {0}, clause : SUBSET Literal]
    /\ visit # NoVisit => visit.lit \in Literal
    /\ pc \notin {"propagate", "unit"} => visit = NoVisit /\ conflict = NoConflict
    /\ Guarded(Watches, trail, level, Base)
    /\ pc \in {"start", "propagate", "unit"} /\ conflict = NoConflict => VisitInv
    /\ pc \in {"loop", "coherent"} => Quiet
    /\ pc = "incoherent" => Quiet \/ (ToFind = {} /\ core = <<>>)
    /\ conflict # NoConflict => FalseClause

(* The clause that is being learned, at this point of the resolution.      *)
Resolvent == analysis.lits \cup {-l : l \in {x \in Lits(trail) : Variable(x) \in analysis.pending}}
AnalysisInv ==
    /\ analysis \in [lits : SUBSET Literal, pending : SUBSET Var]
    /\ pc = "analyze" =>
         /\ currentDecisionLevel > 0
         /\ analysis.pending # {}
         /\ \A v \in analysis.pending :
                level[v] = currentDecisionLevel /\ \E x \in Lits(trail) : Variable(x) = v
         /\ \A l \in analysis.lits : IsFalse(l) /\ Level(l) \in 1 .. currentDecisionLevel - 1
         /\ Entails(ToFind, Resolvent)

CoherentInv ==
    pc = "coherent" =>
        /\ mode \in {"bc", "bt"}
        /\ Len(trail) >= Cardinality(Var)
        /\ found # <<>> /\ found[Len(found)] = {l \in Lits(trail) : l > 0}
        /\ \A i \in 1 .. Len(assumptions) : IsTrue(assumptions[i])

(* The levels that are complete, and the assumption that the enumeration   *)
(* refuted at level 0 and goes on with.                                    *)
Reached == IF pc = "analyze" THEN currentDecisionLevel - 1 ELSE currentDecisionLevel
LastRefuted ==
    /\ mode = "bt" /\ assumptions # <<>>
    /\ IsFalse(assumptions[Len(assumptions)]) /\ Level(assumptions[Len(assumptions)]) = 0
NonEmpty(k) == unrollVector[k] < IF k < currentDecisionLevel THEN unrollVector[k + 1] ELSE Len(trail)

(* Level i of the search is that of assumption i; a choice stands at the   *)
(* beginning of every later level.                                         *)
AssumptionInv ==
    /\ assumptions \in Seq(Literal)
    /\ checked \in [0 .. Cardinality(Var) -> BOOLEAN]
    /\ mode = "bc" => assumptions = <<>>
    /\ mode = "bt" =>
          /\ \A i, j \in 1 .. Len(assumptions) : Variable(assumptions[i]) = Variable(assumptions[j]) => i = j
          /\ assumptions # <<>> => checked[Len(assumptions)] /\ found # <<>>
    /\ pc # "end" =>
          /\ \A i \in 1 .. Len(assumptions) : i <= Reached =>
                 \/ IsTrue(assumptions[i]) /\ Level(assumptions[i]) <= i
                 \/ i = Len(assumptions) /\ LastRefuted
          /\ \A k \in Len(assumptions) + 1 .. Reached : LastRefuted \/ NonEmpty(k)

(* What a call under assumptions decided is an assumption; what it reports *)
(* is a part of them that no model satisfies.                              *)
Refuted(S) == \A M \in Models : \E l \in S : ~Holds(M, l)
DecidedInv ==
    \A l \in Lits(trail) :
        reason[Variable(l)] = {} /\ Level(l) \in 1 .. Len(assumptions) => l = assumptions[Level(l)]
CoreResult ==
    (pc = "end" /\ mode \in {"core", "minimize"}) =>
      /\ Lits(core) \subseteq Lits(instance.assumptions)
      /\ found = <<>> => \A M \in Models : \E l \in Lits(core) : ~Holds(M, l)
      /\ \A M \in Lits(found) : \A l \in Lits(instance.assumptions) : Holds(M, l)
CoreInv ==
    /\ core \in Seq(Literal)
    /\ pc \notin {"incoherent", "end"} \/ mode \in {"bc", "bt"} => core = <<>>
    /\ mode \in {"core", "minimize"} =>
          /\ mode = "core" => assumptions = instance.assumptions
          /\ mode = "minimize" => Lits(assumptions) \subseteq Lits(instance.assumptions)
                                  /\ Refuted(Lits(assumptions))
          /\ DecidedInv
          /\ pc = "incoherent" => Lits(core) \subseteq Lits(instance.assumptions) /\ Refuted(Lits(core))
          /\ CoreResult

IInv ==
    /\ ControlInv /\ SearchInv /\ DatabaseInv /\ KeptInv /\ FoundInv /\ PropagationInv
    /\ AnalysisInv /\ CoherentInv /\ AssumptionInv /\ CoreInv
-----------------------------------------------------------------------------
(* Facts of a state.                                                       *)
LEMMA ModelsKept ==
    ASSUME instance' = instance, mode' = mode, found' = found
    PROVE  ToFind' = ToFind /\ Models' = Models
BY DEF ToFind, Models

(* The models still to be found are models.                                *)
LEMMA ModelsToFind ==
    /\ ToFind \subseteq Models
    /\ mode # "bc" => ToFind = Models
    /\ \A M \in Models : M \in SUBSET Var /\ \A C \in instance.input \cup instance.loops : Sat(M, C)
BY DEF ToFind, Models, ModelsOf

(* What InstancesAssumption says of the problem at hand.                   *)
LEMMA ProblemTyping ==
    ASSUME instance \in Instances
    PROVE  /\ instance.modes \subseteq {"bc", "bt", "core"}
           /\ instance.assumptions \in Seq(Literal)
           /\ \A C \in instance.input \cup instance.loops : C \subseteq Literal
           /\ \A C \in instance.input : Cardinality(C) > 1 /\ C \cap Opposite(C) = {}
BY InstancesAssumption

(* Levels and values of literals, typed.                                   *)
LEMMA SearchFacts ==
    ASSUME SearchInv
    PROVE  /\ Len(trail) \in Nat /\ currentDecisionLevel \in Nat
           /\ \A l \in Literal : Level(l) \in Nat /\ Level(-l) = Level(l)
           /\ \A l \in Literal : ~(IsTrue(l) /\ IsFalse(l))
           /\ \A l \in Lits(trail) : l \in Literal /\ Level(l) \in 0 .. currentDecisionLevel
           /\ \A l \in Literal : IsTrue(l) \/ IsFalse(l) => Level(l) \in 0 .. currentDecisionLevel
           /\ \A l \in Literal : IsFalse(l) <=> IsTrue(-l)
           /\ \A l \in Literal : IsTrue(l) <=> IsFalse(-l)
<1> USE DEF SearchInv
<1>1. Len(trail) \in Nat /\ currentDecisionLevel \in Nat
    BY TrailTyping, LenProperties DEF currentDecisionLevel
<1>2. \A l \in Literal : Level(l) \in Nat /\ Level(-l) = Level(l)
    BY LiteralFacts DEF Level, Levels
<1>3. \A l \in Literal : ~(IsTrue(l) /\ IsFalse(l))
    BY NotBoth DEF IsTrue, IsFalse
<1>4. ASSUME NEW l \in Lits(trail)
      PROVE  l \in Literal /\ Level(l) \in 0 .. currentDecisionLevel
    <2>1. PICK i \in 1 .. Len(trail) : trail[i] = l
        BY TrailTyping
    <2> QED BY <2>1, TrailTyping DEF OrderedTrail, Level, currentDecisionLevel
<1>5. \A l \in Literal : IsTrue(l) \/ IsFalse(l) => Level(l) \in 0 .. currentDecisionLevel
    <2> TAKE l \in Literal
    <2>1. CASE IsTrue(l)
        BY <1>4, <2>1 DEF IsTrue
    <2>2. CASE IsFalse(l)
        BY <1>2, <1>4, <2>2 DEF IsFalse
    <2> QED BY <2>1, <2>2
<1>6. \A l \in Literal : (IsFalse(l) <=> IsTrue(-l)) /\ (IsTrue(l) <=> IsFalse(-l))
    BY LiteralFacts DEF IsTrue, IsFalse
<1> QED BY <1>1, <1>2, <1>3, <1>4, <1>5, <1>6

(* What is assigned at level 0 holds in every model still to be found.     *)
LEMMA LevelZero ==
    ASSUME SearchInv, NEW M \in ToFind, NEW l \in Literal, Level(l) = 0
    PROVE  /\ IsTrue(l) => Holds(M, l)
           /\ IsFalse(l) => ~Holds(M, l)
<1>1. ASSUME NEW x \in Lits(trail), Level(x) = 0
      PROVE  Holds(M, x)
    <2>1. PICK i \in 1 .. Len(trail) : trail[i] = x
        BY TrailTyping DEF SearchInv
    <2> QED BY <1>1, <2>1 DEF SearchInv, Justified, Level
<1>2. IsTrue(l) => Holds(M, l)
    BY <1>1 DEF IsTrue
<1>3. IsFalse(l) => Holds(M, -l)
    BY <1>1, SearchFacts DEF IsFalse
<1> QED BY <1>2, <1>3, HoldsOpposite

(* The literals of the current level are those behind Base.                *)
LEMMA BaseFacts ==
    ASSUME SearchInv
    PROVE  /\ Base \in Nat /\ Base <= Len(trail)
           /\ \A i \in 1 .. Len(trail) :
                 /\ i <= Base => Level(trail[i]) < currentDecisionLevel
                 /\ ~(i <= Base) => Level(trail[i]) = currentDecisionLevel
           /\ \A k \in 0 .. currentDecisionLevel : k < currentDecisionLevel =>
                 Len(UnrolledTo(k)) \in Nat /\ Len(UnrolledTo(k)) <= Base
<1>1. Len(trail) \in Nat /\ currentDecisionLevel \in Nat
    BY SearchFacts
<1>2. CASE currentDecisionLevel = 0
    <2>1. Base = 0
        BY <1>2 DEF Base
    <2>2. \A i \in 1 .. Len(trail) : Level(trail[i]) = 0
        BY <1>2, SearchFacts, TrailTyping DEF SearchInv
    <2> QED BY <1>1, <1>2, <2>1, <2>2
<1>3. CASE currentDecisionLevel > 0
    <2> DEFINE U == unrollVector
               d == currentDecisionLevel
    <2>1. Base = U[d] /\ d \in 1 .. Len(U) /\ d = Len(U)
        BY <1>1, <1>3 DEF Base, currentDecisionLevel
    <2>2. Base \in 0 .. Len(trail)
        BY <2>1 DEF SearchInv, OrderedTrail
    <2>3. \A i \in 1 .. Len(trail) : Level(trail[i]) \in 0 .. d
        BY SearchFacts, TrailTyping DEF SearchInv
    <2>4. ASSUME NEW i \in 1 .. Len(trail)
          PROVE  i <= U[d] <=> Level(trail[i]) < d
        <3>1. d - 1 \in 0 .. Len(U) /\ d - 1 < Len(U) /\ d - 1 + 1 = d
            BY <1>1, <2>1
        <3>2. i <= U[d - 1 + 1] <=> level[Variable(trail[i])] <= d - 1
            BY <3>1, LevelAt DEF SearchInv
        <3> QED BY <1>1, <2>3, <3>1, <3>2 DEF Level
    <2>5. ASSUME NEW k \in 0 .. d, k < d
          PROVE  Len(UnrolledTo(k)) \in Nat /\ Len(UnrolledTo(k)) <= Base
        <3>1. k + 1 \in 1 .. Len(U) /\ k + 1 <= d
            BY <1>1, <2>1, <2>5
        <3>2. U[k + 1] \in 0 .. Len(trail) /\ U[k + 1] <= U[d]
            BY <2>1, <3>1 DEF SearchInv, OrderedTrail
        <3>3. UnrolledTo(k) = SubSeq(trail, 1, U[k + 1])
            BY <2>5 DEF UnrolledTo
        <3>4. Len(UnrolledTo(k)) = U[k + 1]
            BY <3>2, <3>3, Prefix DEF SearchInv, Trails
        <3> QED BY <2>1, <3>2, <3>4
    <2> QED BY <1>1, <2>1, <2>2, <2>3, <2>4, <2>5
<1> QED BY <1>1, <1>2, <1>3

(* A watched literal that is false below the current level is watched      *)
(* together with a true one.                                               *)
LEMMA FalseAtCurrentLevel ==
    ASSUME SearchInv, Guarded(Watches, trail, level, Base),
           NEW W \in Watches, NEW l \in W, l \in Literal, IsFalse(l),
           \A x \in W : ~IsTrue(x)
    PROVE  Level(l) = currentDecisionLevel
<1>1. PICK i \in 1 .. Len(trail) : trail[i] = -l
    BY TrailTyping DEF IsFalse, SearchInv
<1>2. -trail[i] = l /\ Level(trail[i]) = Level(l)
    BY <1>1, LiteralFacts, SearchFacts
<1>3. ~(i <= Base)
    <2> SUFFICES ASSUME i <= Base
                 PROVE  FALSE
        OBVIOUS
    <2>1. i \in 1 .. Base
        BY BaseFacts
    <2>2. PICK x \in W : x \in Lits(trail)
        BY <1>2, <2>1 DEF Guarded
    <2> QED BY <2>2 DEF IsTrue
<1> QED BY <1>2, <1>3, BaseFacts

(* A complete trail decides every variable.                                *)
LEMMA CompleteTrail ==
    ASSUME SearchInv
    PROVE  /\ Cardinality(Var) \in Nat /\ Len(trail) <= Cardinality(Var)
           /\ Len(trail) >= Cardinality(Var) => \A l \in Literal : IsTrue(l) \/ IsFalse(l)
<1>1. /\ Cardinality(Var) \in Nat /\ Len(trail) <= Cardinality(Var)
      /\ Len(trail) >= Cardinality(Var) =>
            \A v \in Var : \E i \in 1 .. Len(trail) : Variable(trail[i]) = v
    BY TrailCounts DEF SearchInv, OrderedTrail
<1>2. ASSUME Len(trail) >= Cardinality(Var), NEW l \in Literal
      PROVE  IsTrue(l) \/ IsFalse(l)
    <2>1. PICK i \in 1 .. Len(trail) : Variable(trail[i]) = Variable(l)
        BY <1>1, <1>2, LiteralFacts
    <2>2. trail[i] = l \/ trail[i] = -l
        BY <2>1, Assigned DEF SearchInv
    <2> QED BY <2>2, TrailTyping DEF IsTrue, IsFalse, SearchInv
<1> QED BY <1>1, <1>2

(* Every clause has a pair of watches and the other way round.             *)
LEMMA DatabaseFacts ==
    ASSUME DatabaseInv
    PROVE  /\ \A W \in Watches : \E a, b \in Literal : a # b /\ W = {a, b}
           /\ \A c \in clauses \cup learned :
                 c.watch \subseteq Literals(c) /\ Literals(c) \subseteq Literal /\ c.watch \subseteq Literal
           /\ \A C \in Database : C \subseteq Literal /\ \E W \in Watches : W \subseteq C
           /\ \A W \in Watches : \E C \in Database : W \subseteq C
<1> USE DEF DatabaseInv
<1>1. \A W \in Watches : \E a, b \in Literal : a # b /\ W = {a, b}
    BY DEF Watches
<1>2. \A c \in clauses \cup learned :
          c.watch \subseteq Literals(c) /\ Literals(c) \subseteq Literal /\ c.watch \subseteq Literal
    BY DEF WatchedClause, Literals
<1>3. \A C \in Database : C \subseteq Literal /\ \E W \in Watches : W \subseteq C
    BY <1>2 DEF Database, Watches
<1>4. \A W \in Watches : \E C \in Database : W \subseteq C
    BY <1>2 DEF Database, Watches
<1> QED BY <1>1, <1>2, <1>3, <1>4
-----------------------------------------------------------------------------
(* Steps of the search.                                                    *)
LEMMA SearchUnchanged ==
    ASSUME SearchInv, UNCHANGED search, ToFind' \subseteq ToFind
    PROVE  SearchInv'
<1>1. Justified(trail, level, reason, unrollVector, ToFind')
    BY FewerModels DEF SearchInv
<1> QED BY <1>1 DEF SearchInv, search

(* AssignLiteral of a literal without a value, at the last level.          *)
LEMMA AssignTo ==
    ASSUME level \in Levels, reason \in Reasons, phase \in [Var -> {-1, 1}], nextVariable' \in Nat,
           NEW t \in Trails, NEW U \in Seq(Nat), OrderedTrail(t, level, U),
           Justified(t, level, reason, U, ToFind),
           NEW l \in Literal, NEW C \in SUBSET Literal, l \notin Lits(t), -l \notin Lits(t),
           AssignLiteral(t, Len(U), l, C), unrollVector' = U, ToFind' = ToFind,
           ReasonFor(t, U, l, C, ToFind)
    PROVE  /\ SearchInv'
           /\ conflict' = NoConflict
           /\ trail' = Append(t, l) /\ Len(trail') = Len(t) + 1 /\ Len(t) \in Nat
           /\ Lits(trail') = Lits(t) \cup {l}
           /\ \A i \in 1 .. Len(t) : trail'[i] = t[i]
           /\ trail'[Len(t) + 1] = l
           /\ Level(l)' = Len(U)
           /\ \A x \in Lits(t) : Level(x)' = Level(x) /\ reason'[Variable(x)] = reason[Variable(x)]
           /\ reason'[Variable(l)] = C
           /\ \A D : \A p \in Nat : p <= Len(t) /\ Guarded(D, t, level, p) => Guarded(D, trail', level', p)
<1>1. /\ trail' = Append(t, l)
      /\ level' = [level EXCEPT ![Variable(l)] = Len(U)]
      /\ reason' = [reason EXCEPT ![Variable(l)] = C]
      /\ phase' = [phase EXCEPT ![Variable(l)] = IF l > 0 THEN 1 ELSE -1]
      /\ conflict' = NoConflict
    BY DEF AssignLiteral
<1>2. Assigns(t, level, U, l, trail', level')
    BY <1>1 DEF Assigns
<1>3. /\ trail' \in Trails /\ Len(trail') = Len(t) + 1 /\ trail'[Len(t) + 1] = l
      /\ \A i \in 1 .. Len(t) : trail'[i] = t[i]
      /\ Lits(trail') = Lits(t) \cup {l}
      /\ level' \in Levels /\ level'[Variable(l)] = Len(U)
      /\ \A x \in Lits(t) : Variable(x) # Variable(l) /\ level'[Variable(x)] = level[Variable(x)]
      /\ OrderedTrail(trail', level', U)
    BY <1>2, AssignOrdered
<1>4. Justified(trail', level', reason', U, ToFind) /\ reason' \in Reasons
    <2>1. HasReason(reason, l, C, reason')
        BY <1>1 DEF HasReason
    <2> QED BY <1>2, <2>1, AssignJustified
<1>5. \A x \in Lits(t) : Variable(x) \in Var
    BY TrailTyping, LiteralFacts
<1>6. \A x \in Lits(t) : reason'[Variable(x)] = reason[Variable(x)]
    BY <1>1, <1>3, <1>5 DEF Reasons
<1>7. reason'[Variable(l)] = C /\ phase' \in [Var -> {-1, 1}]
    BY <1>1, LiteralFacts DEF Reasons
<1>8. ASSUME NEW D, NEW p \in Nat, p <= Len(t), Guarded(D, t, level, p)
      PROVE  Guarded(D, trail', level', p)
    BY <1>2, <1>8, AssignGuarded
<1>9. SearchInv'
    BY <1>3, <1>4, <1>7 DEF SearchInv
<1> QED BY <1>1, <1>3, <1>6, <1>7, <1>8, <1>9, TrailTyping DEF Level

(* The trail that unroll(k) leaves.                                        *)
LEMMA UnrollPrefix ==
    ASSUME SearchInv, NEW k \in 0 .. currentDecisionLevel
    PROVE  /\ UnrolledTo(k) \in Trails
           /\ Len(UnrolledTo(k)) \in Nat /\ Len(UnrolledTo(k)) <= Len(trail)
           /\ Len(UnrolledTo(k)) = IF k < currentDecisionLevel THEN unrollVector[k + 1] ELSE Len(trail)
           /\ \A i \in 1 .. Len(UnrolledTo(k)) : UnrolledTo(k)[i] = trail[i]
           /\ SubSeq(unrollVector, 1, k) \in Seq(Nat) /\ Len(SubSeq(unrollVector, 1, k)) = k
           /\ \A i \in 1 .. k : SubSeq(unrollVector, 1, k)[i] = unrollVector[i]
           /\ Lits(UnrolledTo(k)) = {l \in Lits(trail) : Level(l) <= k}
           /\ OrderedTrail(UnrolledTo(k), level, SubSeq(unrollVector, 1, k))
           /\ Justified(UnrolledTo(k), level, reason, SubSeq(unrollVector, 1, k), ToFind)
           /\ \A D : \A p \in Nat : Guarded(D, trail, level, p) /\ Len(UnrolledTo(k)) <= p
                        => Guarded(D, UnrolledTo(k), level, Len(UnrolledTo(k)))
<1> DEFINE s == UnrolledTo(k)
           W == SubSeq(unrollVector, 1, k)
<1>1. s = Unrolled(trail, unrollVector, k) /\ Unrolls(trail, unrollVector, k, s, W)
    BY DEF UnrolledTo, Unrolled, Unrolls, currentDecisionLevel
<1>2. k \in 0 .. Len(unrollVector)
    BY DEF currentDecisionLevel
<1> HIDE DEF s, W
<1>3. /\ s \in Trails /\ Len(s) \in Nat /\ Len(s) <= Len(trail)
      /\ Len(s) = IF k < Len(unrollVector) THEN unrollVector[k + 1] ELSE Len(trail)
      /\ \A i \in 1 .. Len(s) : s[i] = trail[i]
      /\ W \in Seq(Nat) /\ Len(W) = k /\ \A i \in 1 .. k : W[i] = unrollVector[i]
      /\ Lits(s) = {l \in Lits(trail) : level[Variable(l)] <= k}
      /\ OrderedTrail(s, level, W)
    BY <1>1, <1>2, UnrollOrdered DEF SearchInv
<1>4. IsPrefixOf(s, trail)
    BY <1>3 DEF IsPrefixOf
<1>5. SameBelow(s, level, unrollVector, W)
    <2> SUFFICES ASSUME NEW i \in 1 .. Len(s), level[Variable(s[i])] > 0
                 PROVE  W[level[Variable(s[i])]] = unrollVector[level[Variable(s[i])]]
        BY DEF SameBelow
    <2>1. level[Variable(s[i])] \in 0 .. k
        BY <1>3 DEF OrderedTrail
    <2>2. level[Variable(s[i])] \in 1 .. k
        BY <2>1
    <2> QED BY <1>3, <2>2
<1>6. Justified(s, level, reason, W, ToFind)
    BY <1>4, <1>5, PrefixJustified DEF SearchInv
<1>7. ASSUME NEW D, NEW p \in Nat, Guarded(D, trail, level, p), Len(s) <= p
      PROVE  Guarded(D, s, level, Len(s))
    <2>1. Len(s) <= Len(s)
        BY <1>3
    <2> QED BY <1>1, <1>2, <1>3, <1>7, <2>1, UnrollGuarded DEF SearchInv
<1>8. Lits(s) = {l \in Lits(trail) : Level(l) <= k}
    BY <1>3 DEF Level
<1> QED BY <1>3, <1>6, <1>7, <1>8 DEF s, W, currentDecisionLevel

(* The state after unroll(k).                                              *)
LEMMA UnrollState ==
    ASSUME SearchInv, NEW k \in 0 .. currentDecisionLevel, Unroll(k), ToFind' \subseteq ToFind
    PROVE  /\ SearchInv'
           /\ level' = level /\ reason' = reason
           /\ trail' = UnrolledTo(k) /\ nextVariable' = Len(trail')
           /\ currentDecisionLevel' = k
           /\ \A i \in 1 .. k : unrollVector'[i] = unrollVector[i]
<1>1. /\ trail' = UnrolledTo(k) /\ unrollVector' = SubSeq(unrollVector, 1, k)
      /\ nextVariable' = Len(trail') /\ level' = level /\ reason' = reason /\ phase' = phase
    BY DEF Unroll
<1>2. Justified(trail', level, reason, unrollVector', ToFind')
    BY <1>1, UnrollPrefix, FewerModels
<1>3. SearchInv'
    BY <1>1, <1>2, UnrollPrefix DEF SearchInv
<1> QED BY <1>1, <1>3, UnrollPrefix DEF currentDecisionLevel

(* The state after a backjump that assigns a literal.                      *)
LEMMA UnrollAndAssignState ==
    ASSUME SearchInv, NEW k \in 0 .. currentDecisionLevel, NEW l \in Literal, NEW C \in SUBSET Literal,
           UnrollAndAssign(k, l, C), ToFind' = ToFind,
           IsUndefined(l) \/ k < Level(l),
           C # {} => /\ l \in C /\ Entails(ToFind, C)
                     /\ \A x \in C \ {l} : IsFalse(x) /\ Level(x) <= k,
           C = {} => k = 0 /\ \A M \in ToFind : Holds(M, l)
    PROVE  /\ SearchInv'
           /\ conflict' = NoConflict
           /\ Len(trail') = Len(UnrolledTo(k)) + 1 /\ nextVariable' = Len(UnrolledTo(k))
           /\ Lits(trail') = {x \in Lits(trail) : Level(x) <= k} \cup {l}
           /\ \A i \in 1 .. Len(UnrolledTo(k)) : trail'[i] = trail[i]
           /\ trail'[Len(UnrolledTo(k)) + 1] = l
           /\ Level(l)' = k /\ reason'[Variable(l)] = C
           /\ \A x \in Lits(trail) : Level(x) <= k =>
                 Level(x)' = Level(x) /\ reason'[Variable(x)] = reason[Variable(x)]
           /\ currentDecisionLevel' = k
           /\ \A i \in 1 .. k : unrollVector'[i] = unrollVector[i]
           /\ \A D : \A p \in Nat : Guarded(D, trail, level, p) /\ nextVariable' <= p
                        => Guarded(D, trail', level', nextVariable')
<1> DEFINE s == UnrolledTo(k)
           W == SubSeq(unrollVector, 1, k)
<1>1. /\ unrollVector' = W /\ nextVariable' = Len(s) /\ AssignLiteral(s, k, l, C)
    BY DEF UnrollAndAssign
<1>2. /\ s \in Trails /\ Len(s) \in Nat /\ W \in Seq(Nat) /\ Len(W) = k
      /\ \A i \in 1 .. Len(s) : s[i] = trail[i]
      /\ \A i \in 1 .. k : W[i] = unrollVector[i]
      /\ Lits(s) = {x \in Lits(trail) : Level(x) <= k}
      /\ OrderedTrail(s, level, W)
      /\ Justified(s, level, reason, W, ToFind)
      /\ \A D : \A p \in Nat : Guarded(D, trail, level, p) /\ Len(s) <= p => Guarded(D, s, level, Len(s))
    BY UnrollPrefix
<1> HIDE DEF s, W
<1>3. l \notin Lits(s) /\ -l \notin Lits(s)
    <2>1. Level(l) \in Nat /\ Level(-l) = Level(l) /\ k \in Nat
        BY SearchFacts
    <2> QED BY <1>2, <2>1 DEF IsUndefined, IsTrue, IsFalse
<1>4. ReasonFor(s, W, l, C, ToFind)
    <2>1. ASSUME C # {}, NEW x \in C \ {l}
          PROVE  -x \in Lits(s)
        <3>1. -x \in Lits(trail) /\ Level(x) <= k
            BY <2>1 DEF IsFalse
        <3>2. Level(-x) = Level(x)
            BY SearchFacts
        <3> QED BY <1>2, <3>1, <3>2
    <2> QED BY <1>2, <2>1 DEF ReasonFor
<1>5. AssignLiteral(s, Len(W), l, C) /\ nextVariable' \in Nat
    BY <1>1, <1>2
<1>6. level \in Levels /\ reason \in Reasons /\ phase \in [Var -> {-1, 1}]
    BY DEF SearchInv
<1>7. /\ SearchInv'
      /\ conflict' = NoConflict
      /\ Len(trail') = Len(s) + 1
      /\ Lits(trail') = Lits(s) \cup {l}
      /\ \A i \in 1 .. Len(s) : trail'[i] = s[i]
      /\ trail'[Len(s) + 1] = l
      /\ Level(l)' = Len(W)
      /\ \A x \in Lits(s) : Level(x)' = Level(x) /\ reason'[Variable(x)] = reason[Variable(x)]
      /\ reason'[Variable(l)] = C
      /\ \A D : \A p \in Nat : p <= Len(s) /\ Guarded(D, s, level, p) => Guarded(D, trail', level', p)
    BY <1>1, <1>2, <1>3, <1>4, <1>5, <1>6, AssignTo
<1>8. ASSUME NEW D, NEW p \in Nat, Guarded(D, trail, level, p), nextVariable' <= p
      PROVE  Guarded(D, trail', level', nextVariable')
    <2>1. Guarded(D, s, level, Len(s)) /\ Len(s) <= Len(s)
        BY <1>1, <1>2, <1>8
    <2> QED BY <1>1, <1>2, <1>7, <2>1
<1>9. currentDecisionLevel' = k
    BY <1>1, <1>2 DEF currentDecisionLevel
<1> QED BY <1>1, <1>2, <1>7, <1>8, <1>9 DEF s, W
-----------------------------------------------------------------------------
(* Steps that leave a part of the invariant alone.                         *)
TrailKeeps(r) == \A l \in Lits(trail) : Level(l) <= r => l \in Lits(trail') /\ Level(l)' = Level(l)
NoNewDecision ==
    \A l \in Lits(trail') : reason'[Variable(l)] = {} =>
        Level(l)' = 0 \/ (l \in Lits(trail) /\ reason[Variable(l)] = {} /\ Level(l)' = Level(l))

(* The database stays, and no model is added.                              *)
LEMMA DatabaseUnchanged ==
    ASSUME DatabaseInv, UNCHANGED database, ToFind' \subseteq ToFind
    PROVE  DatabaseInv'
<1>1. UNCHANGED <<binary, clauses, learned, Database>>
    BY DEF database, Database
<1>2. \A C \in Database : Entails(ToFind', C)
    BY FewerModels DEF DatabaseInv
<1> QED BY <1>1, <1>2 DEF DatabaseInv

(* What was kept is kept, with fewer literals perhaps.                     *)
LEMMA KeptStep ==
    ASSUME KeptInv, instance' = instance, mode' = "bc" => mode = "bc" /\ found' = found,
           pc \in {"coherent", "end"} => pc' \in {"coherent", "end"},
           \A D \in Kept : \E E \in Kept' : E \subseteq D
    PROVE  KeptInv'
<1>1. \A C \in instance.input : \E D \in Kept' : D \subseteq C
    BY DEF KeptInv
<1>2. ASSUME mode' = "bc", NEW n \in 1 .. Len(found)
      PROVE  \/ n = Len(found) /\ pc' \in {"coherent", "end"}
             \/ \E D \in Kept' : ~Sat(found[n], D)
    <2>1. CASE n = Len(found) /\ pc \in {"coherent", "end"}
        BY <2>1
    <2>2. CASE \E D \in Kept : ~Sat(found[n], D)
        BY <2>2 DEF Sat
    <2> QED BY <1>2, <2>1, <2>2 DEF KeptInv
<1> QED BY <1>1, <1>2 DEF KeptInv

(* The input clauses and what is true at level 0 stay.                     *)
LEMMA KeptUnchanged ==
    ASSUME KeptInv, instance' = instance, mode' = "bc" => mode = "bc" /\ found' = found,
           pc \in {"coherent", "end"} => pc' \in {"coherent", "end"},
           UNCHANGED <<binary, clauses>>, TrailKeeps(0), SearchInv
    PROVE  KeptInv'
<1>1. \A l \in Zero : l \in Zero'
    BY DEF TrailKeeps, Zero
<1>2. Kept \subseteq Kept'
    BY <1>1 DEF Kept
<1> QED BY <1>2, KeptStep

(* A backjump keeps the levels of the assumptions below it.                *)
LEMMA AssumptionStep ==
    ASSUME AssumptionInv, pc # "end", UNCHANGED <<assumptions, checked, mode, found>>,
           SearchInv, Reached' \in Nat, Reached' <= Reached, TrailKeeps(Reached'), TrailKeeps(0),
           \A k \in 1 .. Reached' : NonEmpty(k) => NonEmpty(k)'
    PROVE  AssumptionInv'
<1>1. Len(assumptions) \in Nat /\ \A i \in 1 .. Len(assumptions) : assumptions[i] \in Literal
    BY LenProperties, ElementOfSeq DEF AssumptionInv
<1>2. LastRefuted => LastRefuted'
    <2> SUFFICES ASSUME LastRefuted
                 PROVE  LastRefuted'
        OBVIOUS
    <2> DEFINE l == assumptions[Len(assumptions)]
    <2>1. l \in Literal
        <3>1. Len(assumptions) # 0
            BY EmptySeq DEF LastRefuted, AssumptionInv
        <3> QED BY <1>1, <3>1
    <2>2. -l \in Lits(trail) /\ Level(-l) = 0 /\ Level(-l) = Level(l)
        BY <2>1, SearchFacts DEF LastRefuted, IsFalse
    <2>3. -l \in Lits(trail') /\ Level(-l)' = 0
        BY <2>2 DEF TrailKeeps
    <2>4. Level(-l)' = Level(l)'
        BY <2>1, LiteralFacts DEF Level
    <2> QED BY <2>3, <2>4 DEF LastRefuted, IsFalse
<1>3. Reached \in Nat \cup {-1}
    BY SearchFacts DEF Reached
<1>4. ASSUME NEW i \in 1 .. Len(assumptions), i <= Reached'
      PROVE  \/ IsTrue(assumptions[i])' /\ Level(assumptions[i])' <= i
             \/ i = Len(assumptions) /\ LastRefuted'
    <2>1. CASE IsTrue(assumptions[i]) /\ Level(assumptions[i]) <= i
        <3>1. assumptions[i] \in Lits(trail) /\ Level(assumptions[i]) <= Reached'
            BY <1>1, <1>4, <2>1, SearchFacts DEF IsTrue
        <3>2. assumptions[i] \in Lits(trail') /\ Level(assumptions[i])' = Level(assumptions[i])
            BY <3>1 DEF TrailKeeps
        <3> QED BY <2>1, <3>2 DEF IsTrue
    <2>2. CASE i = Len(assumptions) /\ LastRefuted
        BY <1>2, <2>2
    <2>3. i <= Reached
        BY <1>3, <1>4
    <2> QED BY <2>1, <2>2, <2>3 DEF AssumptionInv
<1>5. ASSUME NEW k \in Len(assumptions) + 1 .. Reached'
      PROVE  LastRefuted' \/ NonEmpty(k)'
    <2>1. k \in 1 .. Reached' /\ k \in Len(assumptions) + 1 .. Reached
        BY <1>1, <1>3
    <2>2. LastRefuted \/ NonEmpty(k)
        BY <2>1 DEF AssumptionInv
    <2> QED BY <1>2, <2>1, <2>2
<1> QED BY <1>4, <1>5 DEF AssumptionInv

(* No core is reported and no new decision made.                           *)
LEMMA CoreStep ==
    ASSUME CoreInv, UNCHANGED <<instance, mode, assumptions, core, found>>,
           pc \notin {"incoherent", "end"}, pc' \notin {"incoherent", "end"}, NoNewDecision
    PROVE  CoreInv'
<1>1. Models' = Models
    BY DEF Models
<1>2. DecidedInv => DecidedInv'
    BY DEF DecidedInv, NoNewDecision
<1> QED BY <1>1, <1>2 DEF CoreInv, CoreResult, Refuted

(* No model is reported.                                                   *)
LEMMA FoundUnchanged ==
    ASSUME FoundInv, UNCHANGED <<instance, found>>,
           mode' \in {"core", "minimize"} => mode \in {"core", "minimize"},
           pc = "end" => pc' = "end"
    PROVE  FoundInv'
BY DEF FoundInv, Models

(* No clause is being learned after the step.                              *)
LEMMA AnalysisUnchanged ==
    ASSUME AnalysisInv, pc' # "analyze", analysis' = analysis \/ analysis' = NoAnalysis
    PROVE  AnalysisInv'
BY DEF AnalysisInv, NoAnalysis
-----------------------------------------------------------------------------
(* The steps that leave the trail and the database as they are.            *)
LEMMA SameSearch ==
    ASSUME UNCHANGED <<trail, level, unrollVector>>
    PROVE  /\ Base' = Base /\ currentDecisionLevel' = currentDecisionLevel /\ Zero' = Zero
           /\ \A l : (IsTrue(l)' <=> IsTrue(l)) /\ (IsFalse(l)' <=> IsFalse(l)) /\ Level(l)' = Level(l)
           /\ \A k : NonEmpty(k)' <=> NonEmpty(k)
           /\ TrailKeeps(0)
<1>1. currentDecisionLevel' = currentDecisionLevel
    BY DEF currentDecisionLevel
<1>2. Base' = Base
    BY <1>1 DEF Base
<1>3. \A l : (IsTrue(l)' <=> IsTrue(l)) /\ (IsFalse(l)' <=> IsFalse(l)) /\ Level(l)' = Level(l)
    BY DEF IsTrue, IsFalse, Level
<1>4. Zero' = Zero
    BY <1>3 DEF Zero
<1>5. \A k : NonEmpty(k)' <=> NonEmpty(k)
    BY <1>1 DEF NonEmpty
<1>6. TrailKeeps(0)
    BY <1>3 DEF TrailKeeps
<1> QED BY <1>1, <1>2, <1>3, <1>4, <1>5, <1>6

(* The trail and the callers stay; the database may change.                *)
LEMMA SearchStanding ==
    ASSUME IInv, nextVariable' \in Nat,
           UNCHANGED <<instance, mode, trail, level, reason, phase, unrollVector, analysis,
                       assumptions, checked, found, counters>>,
           pc \notin {"analyze", "coherent", "end"},
           pc' \in {"propagate", "loop", "incoherent", "end"} \/ pc' = pc
    PROVE  /\ ControlInv' /\ SearchInv' /\ FoundInv' /\ AnalysisInv' /\ CoherentInv' /\ AssumptionInv'
           /\ ToFind' = ToFind /\ Models' = Models /\ NoNewDecision
<1> USE DEF IInv
<1>1. ControlInv'
    BY DEF ControlInv, counters
<1>2. ToFind' = ToFind /\ Models' = Models
    BY ModelsKept
<1>3. SearchInv'
    <2>1. Justified(trail, level, reason, unrollVector, ToFind')
        BY <1>2 DEF SearchInv
    <2> QED BY <2>1 DEF SearchInv
<1>4. FoundInv'
    BY DEF FoundInv, Models
<1>5. AnalysisInv'
    BY DEF AnalysisInv
<1>6. CoherentInv'
    BY DEF CoherentInv
<1>7. AssumptionInv'
    <2>1. Reached' = currentDecisionLevel /\ Reached = currentDecisionLevel /\ Reached' \in Nat
        BY SearchFacts, SameSearch DEF Reached
    <2>2. TrailKeeps(Reached') /\ TrailKeeps(0)
        BY DEF TrailKeeps, Level
    <2>3. \A k \in 1 .. Reached' : NonEmpty(k) => NonEmpty(k)'
        BY SameSearch
    <2>4. Reached' <= Reached
        BY <2>1
    <2> QED BY <2>1, <2>2, <2>3, <2>4, AssumptionStep
<1>8. NoNewDecision
    BY DEF NoNewDecision, Level
<1> QED BY <1>1, <1>2, <1>3, <1>4, <1>5, <1>6, <1>7, <1>8

(* The database stays as well.                                             *)
LEMMA Standing ==
    ASSUME IInv, nextVariable' \in Nat,
           UNCHANGED <<instance, mode, trail, level, reason, phase, unrollVector, database, analysis,
                       assumptions, checked, found, counters>>,
           pc \notin {"analyze", "coherent", "end"},
           pc' \in {"propagate", "loop", "incoherent", "end"} \/ pc' = pc
    PROVE  /\ ControlInv' /\ SearchInv' /\ DatabaseInv' /\ KeptInv' /\ FoundInv'
           /\ AnalysisInv' /\ CoherentInv' /\ AssumptionInv'
           /\ Watches' = Watches /\ ToFind' = ToFind /\ Models' = Models /\ NoNewDecision
<1> USE DEF IInv
<1>1. /\ ControlInv' /\ SearchInv' /\ FoundInv' /\ AnalysisInv' /\ CoherentInv' /\ AssumptionInv'
      /\ ToFind' = ToFind /\ Models' = Models /\ NoNewDecision
    BY SearchStanding
<1>2. DatabaseInv'
    BY <1>1, DatabaseUnchanged
<1>3. KeptInv'
    BY SameSearch, KeptUnchanged DEF database
<1>4. Watches' = Watches
    BY DEF Watches, database
<1> QED BY <1>1, <1>2, <1>3, <1>4

LEMMA StartStep ==
    ASSUME IInv, Start
    PROVE  IInv'
<1>1. /\ pc = "start" /\ pc' \in {"propagate", "end"}
      /\ UNCHANGED <<instance, mode, trail, level, reason, phase, unrollVector, nextVariable, visit, conflict,
                     database, analysis, assumptions, checked, found, counters>>
    BY DEF Start, search
<1>2. nextVariable' \in Nat
    BY <1>1 DEF IInv, SearchInv
<1>3. /\ ControlInv' /\ SearchInv' /\ DatabaseInv' /\ KeptInv' /\ FoundInv'
      /\ AnalysisInv' /\ CoherentInv' /\ AssumptionInv'
      /\ Watches' = Watches /\ ToFind' = ToFind /\ Models' = Models /\ NoNewDecision
    BY <1>1, <1>2, Standing
<1>4. PropagationInv'
    <2>1. visit = NoVisit /\ conflict = NoConflict /\ VisitInv
        BY <1>1 DEF IInv, PropagationInv
    <2>2. Base' = Base
        BY <1>1, SameSearch
    <2>3. VisitInv'
        BY <1>1, <1>3, <2>1, <2>2 DEF VisitInv
    <2> QED BY <1>1, <1>3, <2>1, <2>2, <2>3 DEF IInv, PropagationInv
<1>5. CoreInv'
    <2>1. CASE pc' = "propagate" /\ UNCHANGED core
        BY <1>1, <1>3, <2>1, CoreStep DEF IInv
    <2>2. CASE \E i, j \in DOMAIN assumptions :
                  assumptions[i] = -assumptions[j] /\ core' = <<assumptions[j], assumptions[i]>> /\ pc' = "end"
        <3>1. PICK i \in DOMAIN assumptions, j \in DOMAIN assumptions :
                  assumptions[i] = -assumptions[j] /\ core' = <<assumptions[j], assumptions[i]>> /\ pc' = "end"
            BY <2>2
        <3>2. assumptions[i] \in Literal /\ assumptions[j] \in Literal
            BY ElementOfSeq, LenProperties DEF IInv, AssumptionInv
        <3>3. core' \in Seq(Literal) /\ Lits(core') = {assumptions[j], assumptions[i]}
            <4>1. DOMAIN core' = {1, 2} /\ core'[1] = assumptions[j] /\ core'[2] = assumptions[i]
                BY <3>1
            <4> QED BY <3>1, <3>2, <4>1 DEF Lits
        <3>4. Lits(core') \subseteq Lits(assumptions)
            BY <3>3 DEF Lits
        <3>5. \A M : \E l \in Lits(core') : ~Holds(M, l)
            BY <3>1, <3>2, <3>3, HoldsOpposite
        <3>6. mode # "minimize"
            BY <1>1 DEF IInv, ControlInv
        <3>7. mode = "core" => found = <<>> /\ assumptions = instance.assumptions /\ DecidedInv
            BY <1>1 DEF IInv, FoundInv, CoreInv
        <3>8. mode = "core" => DecidedInv'
            BY <1>1, <1>3, <3>7 DEF DecidedInv, NoNewDecision
        <3>9. Lits(<<>>) = {}
            BY DEF Lits
        <3>10. CoreResult'
            BY <1>1, <3>3, <3>4, <3>5, <3>6, <3>7, <3>9 DEF CoreResult
        <3>11. mode \notin {"bc", "bt"}
            <4>1. i # j
                BY <3>1, <3>2, LiteralFacts
            <4>2. mode # "bc"
                BY <3>1, EmptySeq DEF IInv, AssumptionInv
            <4>3. Variable(assumptions[i]) = Variable(assumptions[j])
                BY <3>1, <3>2, LiteralFacts
            <4>4. DOMAIN assumptions = 1 .. Len(assumptions)
                BY LenProperties DEF IInv, AssumptionInv
            <4>5. mode # "bt"
                BY <4>1, <4>3, <4>4 DEF IInv, AssumptionInv
            <4> QED BY <4>2, <4>5
        <3> QED BY <1>1, <3>1, <3>3, <3>6, <3>7, <3>8, <3>10, <3>11 DEF CoreInv
    <2> QED BY <2>1, <2>2 DEF Start
<1> QED BY <1>3, <1>4, <1>5 DEF IInv

LEMMA EndPropagationStep ==
    ASSUME IInv, EndPropagation
    PROVE  IInv'
<1>1. /\ pc \in {"propagate", "unit"} /\ conflict = NoConflict /\ visit.lit # 0 /\ visit' = NoVisit
      /\ \A l \in visit.binary : IsTrue(l)
      /\ \A c \in visit.watched : Satisfied(c)
      /\ UNCHANGED <<instance, mode, pc, trail, level, reason, phase, unrollVector, nextVariable, conflict,
                     database, analysis, assumptions, checked, found, core, counters>>
    BY DEF EndPropagation, search, Propagating, Unvisited, caller
<1>2. nextVariable' \in Nat
    BY <1>1 DEF IInv, SearchInv
<1>3. /\ ControlInv' /\ SearchInv' /\ DatabaseInv' /\ KeptInv' /\ FoundInv'
      /\ AnalysisInv' /\ CoherentInv' /\ AssumptionInv'
      /\ Watches' = Watches /\ ToFind' = ToFind /\ Models' = Models /\ NoNewDecision
    BY <1>1, <1>2, Standing
<1>4. CoreInv'
    BY <1>1, <1>3, CoreStep DEF IInv
<1>5. Base' = Base
    BY <1>1, SameSearch
<1>6. visit # NoVisit
    BY <1>1 DEF NoVisit
<1>7. VisitInv /\ SearchInv
    BY <1>1 DEF IInv, PropagationInv
<1> DEFINE n == nextVariable
<1>8. /\ Base < n /\ n <= Len(trail) /\ visit.lit = -trail[n]
      /\ Guarded(Watches, trail, level, n - 1)
    BY <1>6, <1>7 DEF VisitInv
<1>9. n \in 1 .. Len(trail) /\ Level(trail[n]) = currentDecisionLevel
    <2>1. Base \in Nat /\ n \in Nat /\ Len(trail) \in Nat
        BY <1>7, BaseFacts, SearchFacts DEF SearchInv
    <2> QED BY <1>7, <1>8, <2>1, BaseFacts
<1>10. ASSUME NEW W \in Watches, -trail[n] \in W
       PROVE  \E x \in W : IsTrue(x)
    <2>1. CASE W \in binary
        BY <1>1, <1>6, <1>7, <1>8, <1>10, <2>1 DEF VisitInv
    <2>2. CASE \E c \in clauses \cup learned : W = c.watch
        BY <1>1, <1>6, <1>7, <1>8, <1>10, <2>2 DEF VisitInv, Satisfied
    <2> QED BY <2>1, <2>2 DEF Watches
<1>11. Guarded(Watches, trail, level, n)
    <2> SUFFICES ASSUME NEW W \in Watches, NEW i \in 1 .. n, -trail[i] \in W
                 PROVE  \E x \in W : x \in Lits(trail) /\ level[Variable(x)] <= level[Variable(trail[i])]
        BY DEF Guarded
    <2>1. CASE i \in 1 .. n - 1
        BY <1>8, <2>1 DEF Guarded
    <2>2. CASE i = n
        <3>1. PICK x \in W : IsTrue(x)
            BY <1>10, <2>2
        <3>2. x \in Lits(trail) /\ Level(x) \in 0 .. currentDecisionLevel
            BY <1>7, <3>1, SearchFacts DEF IsTrue
        <3>3. Level(x) <= Level(trail[i])
            BY <1>9, <2>2, <3>2
        <3> QED BY <3>2, <3>3 DEF Level
    <2> QED BY <1>9, <2>1, <2>2
<1>12. VisitInv'
    <2>1. Base <= n
        BY <1>7, <1>8, BaseFacts DEF SearchInv
    <2> QED BY <1>1, <1>3, <1>5, <1>8, <1>11, <2>1 DEF VisitInv
<1>13. PropagationInv'
    <2>1. visit' \in [lit : Literal \cup {0}, binary : SUBSET Literal, watched : SUBSET WatchedClause]
        BY <1>1 DEF NoVisit
    <2> QED BY <1>1, <1>3, <1>5, <1>12, <2>1 DEF IInv, PropagationInv
<1> QED BY <1>3, <1>4, <1>13 DEF IInv

LEMMA BeginPropagationStep ==
    ASSUME IInv, BeginPropagation
    PROVE  IInv'
<1> DEFINE complement == -trail[nextVariable + 1]
<1>1. /\ pc \in {"propagate", "unit"} /\ conflict = NoConflict /\ visit = NoVisit
      /\ nextVariable < Len(trail) /\ nextVariable' = nextVariable + 1
      /\ visit' = [lit |-> complement,
                   binary |-> UNION {C \ {complement} : C \in {B \in binary : complement \in B}},
                   watched |-> {c \in clauses \cup learned : complement \in c.watch}]
      /\ UNCHANGED <<instance, mode, pc, trail, level, reason, phase, unrollVector, conflict,
                     database, analysis, assumptions, checked, found, core, counters>>
    BY DEF BeginPropagation, Propagating, HasNextVariableToPropagate, caller
<1>2. SearchInv /\ VisitInv /\ DatabaseInv /\ nextVariable \in Nat /\ Len(trail) \in Nat
    BY <1>1, SearchFacts DEF IInv, PropagationInv, SearchInv
<1>3. /\ ControlInv' /\ SearchInv' /\ DatabaseInv' /\ KeptInv' /\ FoundInv'
      /\ AnalysisInv' /\ CoherentInv' /\ AssumptionInv'
      /\ Watches' = Watches /\ ToFind' = ToFind /\ Models' = Models /\ NoNewDecision
    <2>1. nextVariable' \in Nat
        BY <1>1, <1>2
    <2> QED BY <1>1, <2>1, Standing
<1>4. CoreInv'
    BY <1>1, <1>3, CoreStep DEF IInv
<1>5. Base' = Base /\ \A l : IsTrue(l)' <=> IsTrue(l)
    BY <1>1, SameSearch
<1>6. nextVariable + 1 \in 1 .. Len(trail)
    BY <1>1, <1>2
<1>7. complement \in Literal /\ complement # 0
    BY <1>2, <1>6, TrailTyping, LiteralFacts DEF SearchInv
<1> HIDE DEF complement
<1>8. /\ visit'.lit = complement
      /\ \A l \in visit'.binary : \E C \in binary : complement \in C /\ l \in C /\ l # complement
      /\ \A C \in binary : complement \in C => \A l \in C : l # complement => l \in visit'.binary
      /\ visit'.watched = {c \in clauses \cup learned : complement \in c.watch}
    BY <1>1
<1>9. ASSUME NEW C \in binary, complement \in C
      PROVE  \E l \in C : l # complement /\ C = {l, complement}
    <2>1. PICK a \in Literal, b \in Literal : a # b /\ C = {a, b}
        BY <1>2 DEF DatabaseInv
    <2>2. CASE complement = a
        BY <2>1, <2>2
    <2>3. CASE complement = b
        BY <2>1, <2>3
    <2> QED BY <1>9, <2>1, <2>2, <2>3
<1>10. visit' # NoVisit
    BY <1>7, <1>8 DEF NoVisit
<1>11. \A l \in visit'.binary : l # complement /\ {l, complement} \in binary
    <2> TAKE l \in visit'.binary
    <2>1. PICK C \in binary : complement \in C /\ l \in C /\ l # complement
        BY <1>8
    <2>2. C = {l, complement}
        BY <1>9, <2>1
    <2> QED BY <2>1, <2>2
<1>12. \A C \in binary : complement \in C => \E x \in C : x \in visit'.binary
    BY <1>8, <1>9
<1>13. VisitInv'
    <2>1. Base \in Nat /\ Base <= nextVariable /\ Guarded(Watches, trail, level, nextVariable)
        BY <1>1, <1>2, BaseFacts DEF VisitInv
    <2>2. nextVariable' - 1 = nextVariable /\ Base < nextVariable' /\ nextVariable' <= Len(trail)
        BY <1>1, <1>2, <2>1
    <2>3. visit'.lit = -trail[nextVariable']
        BY <1>1, <1>8 DEF complement
    <2>4. visit'.watched \subseteq clauses \cup learned /\ \A c \in visit'.watched : complement \in c.watch
        BY <1>8
    <2>5. \A c \in clauses \cup learned : complement \in c.watch => c \in visit'.watched
        BY <1>8
    <2>6. clauses' = clauses /\ learned' = learned /\ binary' = binary
        BY <1>1 DEF database
    <2>7. Guarded(Watches', trail', level', nextVariable' - 1)
        BY <1>1, <1>3, <2>1, <2>2
    <2> QED BY <1>1, <1>5, <1>8, <1>10, <1>11, <1>12, <2>2, <2>3, <2>4, <2>5, <2>6, <2>7 DEF VisitInv
<1>14. PropagationInv'
    <2>1. visit'.binary \subseteq Literal /\ visit'.watched \subseteq WatchedClause
        BY <1>2, <1>8 DEF DatabaseInv
    <2>2. visit' \in [lit : Literal \cup {0}, binary : SUBSET Literal, watched : SUBSET WatchedClause]
        BY <1>1, <1>7, <1>8, <2>1
    <2> QED BY <1>1, <1>3, <1>5, <1>7, <1>8, <1>13, <2>2 DEF IInv, PropagationInv
<1> QED BY <1>3, <1>4, <1>14 DEF IInv

LEMMA ConflictAtLevelZeroStep ==
    ASSUME IInv, ConflictAtLevelZero
    PROVE  IInv'
<1>1. /\ pc \in {"propagate", "unit"} /\ conflict # NoConflict
      /\ currentDecisionLevel = 0 \/ conflict.clause = {}
      /\ pc' = "incoherent" /\ visit' = NoVisit /\ conflict' = NoConflict
      /\ UNCHANGED <<instance, mode, trail, level, reason, phase, unrollVector, nextVariable,
                     database, analysis, assumptions, checked, found, core, counters>>
    BY DEF ConflictAtLevelZero, search, caller
<1>2. nextVariable' \in Nat /\ SearchInv
    BY <1>1 DEF IInv, SearchInv
<1>3. /\ ControlInv' /\ SearchInv' /\ DatabaseInv' /\ KeptInv' /\ FoundInv'
      /\ AnalysisInv' /\ CoherentInv' /\ AssumptionInv'
      /\ Watches' = Watches /\ ToFind' = ToFind /\ Models' = Models /\ NoNewDecision
    BY <1>1, <1>2, Standing
<1>4. FalseClause /\ conflict.clause \subseteq Literal
    BY <1>1 DEF IInv, PropagationInv
<1>5. ToFind = {}
    <2>1. currentDecisionLevel = 0
        BY <1>1, <1>4 DEF FalseClause
    <2>2. \A l \in conflict.clause : IsFalse(l) /\ Level(l) = 0
        BY <1>2, <1>4, <2>1, SearchFacts DEF FalseClause
    <2>3. \A M \in ToFind : \A l \in conflict.clause : ~Holds(M, l)
        BY <1>2, <1>4, <2>2, LevelZero
    <2> QED BY <1>4, <2>3 DEF FalseClause, Entails, Sat
<1>6. core = <<>>
    BY <1>1 DEF IInv, CoreInv
<1>7. PropagationInv'
    <2>1. Base' = Base
        BY <1>1, SameSearch
    <2>2. visit' \in [lit : Literal \cup {0}, binary : SUBSET Literal, watched : SUBSET WatchedClause]
        BY <1>1 DEF NoVisit
    <2>3. conflict' \in [lit : Literal \cup {0}, clause : SUBSET Literal]
        BY <1>1 DEF NoConflict
    <2> QED BY <1>1, <1>3, <1>5, <1>6, <2>1, <2>2, <2>3 DEF IInv, PropagationInv
<1>8. CoreInv'
    <2>1. mode \in {"core", "minimize"} => Models = {} /\ DecidedInv
        BY <1>5, ModelsToFind DEF IInv, CoreInv
    <2>2. Lits(<<>>) = {}
        BY DEF Lits
    <2>3. DecidedInv => DecidedInv'
        BY <1>1, <1>3 DEF DecidedInv, NoNewDecision
    <2> QED BY <1>1, <1>3, <1>6, <2>1, <2>2, <2>3 DEF IInv, CoreInv, Refuted, CoreResult
<1> QED BY <1>3, <1>7, <1>8 DEF IInv

(* When no post-propagator has a clause to hand out, a complete trail       *)
(* satisfies all of theirs.                                                *)
LEMMA LoopsComplete ==
    ASSUME SearchInv, instance \in Instances, ~\E L \in instance.loops : UnitOrFalse(L)
    PROVE  LoopsHold
<1> SUFFICES ASSUME Len(trail) >= Cardinality(Var), NEW L \in instance.loops, ~\E l \in L : IsTrue(l)
             PROVE  FALSE
    BY DEF LoopsHold
<1>1. \A l \in L : ~IsUndefined(l)
    BY CompleteTrail, ProblemTyping DEF IsUndefined
<1>2. Open(L) = {}
    BY <1>1 DEF Open
<1>3. Cardinality(Open(L)) <= 1
    BY <1>2, FS_EmptySet
<1> QED BY <1>3 DEF UnitOrFalse

(* With an empty queue the whole trail is propagated.                      *)
LEMMA IdleFacts ==
    ASSUME IInv, conflict = NoConflict, visit = NoVisit, ~HasNextVariableToPropagate,
           pc \in {"propagate", "unit"}
    PROVE  nextVariable = Len(trail) /\ Guarded(Watches, trail, level, Len(trail))
<1>1. VisitInv /\ nextVariable \in Nat /\ Len(trail) \in Nat
    BY SearchFacts DEF IInv, PropagationInv, SearchInv
<1>2. nextVariable = Len(trail)
    BY <1>1 DEF VisitInv, HasNextVariableToPropagate
<1> QED BY <1>1, <1>2 DEF VisitInv

LEMMA EndTurnStep ==
    ASSUME IInv, EndTurn
    PROVE  IInv'
<1>1. /\ pc = "propagate" /\ conflict = NoConflict /\ visit = NoVisit /\ ~HasNextVariableToPropagate
      /\ ~\E L \in instance.loops : UnitOrFalse(L)
      /\ pc' = "loop"
      /\ UNCHANGED <<instance, mode, trail, level, reason, phase, unrollVector, nextVariable, visit, conflict,
                     database, analysis, assumptions, checked, found, core, counters>>
    BY DEF EndTurn, Idle, search, caller
<1>2. nextVariable' \in Nat /\ SearchInv
    BY <1>1 DEF IInv, SearchInv
<1>3. /\ ControlInv' /\ SearchInv' /\ DatabaseInv' /\ KeptInv' /\ FoundInv'
      /\ AnalysisInv' /\ CoherentInv' /\ AssumptionInv'
      /\ Watches' = Watches /\ ToFind' = ToFind /\ Models' = Models /\ NoNewDecision
    BY <1>1, <1>2, Standing
<1>4. CoreInv'
    BY <1>1, <1>3, CoreStep DEF IInv
<1>5. LoopsHold
    BY <1>1, LoopsComplete DEF IInv, ControlInv
<1>6. LoopsHold'
    BY <1>1, <1>5 DEF LoopsHold, IsTrue
<1>7. Quiet'
    BY <1>1, <1>3, <1>6, IdleFacts DEF Quiet
<1>8. Base' = Base
    BY <1>1, SameSearch
<1>9. PropagationInv'
    BY <1>1, <1>3, <1>7, <1>8 DEF IInv, PropagationInv
<1> QED BY <1>3, <1>4, <1>9 DEF IInv

(* An enumeration that failed ends and changes nothing else.               *)
LEMMA EnumerationEnds ==
    ASSUME IInv, pc = "incoherent", mode \in {"bc", "bt"}, pc' = "end",
           UNCHANGED <<instance, mode, trail, level, reason, phase, unrollVector, nextVariable, visit, conflict,
                       database, analysis, assumptions, checked, found, core, counters>>
    PROVE  IInv'
<1>2. nextVariable' \in Nat /\ SearchInv
    BY DEF IInv, SearchInv
<1>3. /\ ControlInv' /\ SearchInv' /\ DatabaseInv' /\ KeptInv' /\ FoundInv'
      /\ AnalysisInv' /\ CoherentInv' /\ AssumptionInv'
      /\ Watches' = Watches /\ ToFind' = ToFind /\ Models' = Models /\ NoNewDecision
    BY <1>2, Standing
<1>4. CoreInv'
    BY <1>3 DEF IInv, CoreInv
<1>5. Base' = Base
    BY SameSearch
<1>6. PropagationInv'
    BY <1>3, <1>5 DEF IInv, PropagationInv
<1> QED BY <1>3, <1>4, <1>6 DEF IInv

LEMMA EndBlockingStep ==
    ASSUME IInv, EndBlocking
    PROVE  IInv'
<1>1. /\ pc = "incoherent" /\ mode = "bc" /\ pc' = "end"
      /\ UNCHANGED <<instance, mode, trail, level, reason, phase, unrollVector, nextVariable, visit, conflict,
                     database, analysis, assumptions, checked, found, core, counters>>
    BY DEF EndBlocking, search, caller
<1> QED BY <1>1, EnumerationEnds
-----------------------------------------------------------------------------
(* Simplification at level 0, backjumps and restarts.                      *)
IsSimplified(S, T, R) == R = Simplified(S, T)

(* Simplification keeps the watches, and drops clauses only if true.       *)
LEMMA SimplifiedSet ==
    ASSUME SearchInv, NEW S \in SUBSET WatchedClause, NEW T \in SUBSET Zero,
           \A c \in S : Entails(ToFind, Literals(c)),
           NEW R, IsSimplified(S, T, R)
    PROVE  /\ \A d \in R : /\ d \in WatchedClause
                           /\ \E c \in S : d.watch = c.watch /\ d.rest \subseteq c.rest
                           /\ Entails(ToFind, Literals(d))
           /\ \A c \in S : \/ \E d \in R : Literals(d) \subseteq Literals(c)
                           \/ \E l \in T : l \in Literals(c)
<1> DEFINE short(c) == [c EXCEPT !.rest = {l \in @ : -l \notin T}]
<1>1. \A c \in S : /\ short(c) \in WatchedClause /\ short(c).watch = c.watch
                   /\ short(c).rest = {l \in c.rest : -l \notin T}
    BY DEF WatchedClause
<1>2. R = {c \in S : c.watch \cap T = {}} \/ R = {short(c) : c \in {d \in S : Literals(d) \cap T = {}}}
    BY DEF Simplified, IsSimplified
<1>3. \A l \in T : l \in Lits(trail) /\ Level(l) = 0
    BY DEF Zero
<1>4. ASSUME NEW c \in S
      PROVE  Entails(ToFind, Literals(short(c)))
    <2> SUFFICES ASSUME NEW M \in ToFind
                 PROVE  \E l \in Literals(short(c)) : Holds(M, l)
        BY DEF Entails, Sat
    <2>1. PICK l \in Literals(c) : Holds(M, l)
        BY DEF Entails, Sat
    <2>2. l \in Literal
        BY <2>1 DEF WatchedClause, Literals
    <2>3. -l \notin T
        <3>1. Level(-l) = Level(l)
            BY <2>2, SearchFacts
        <3> QED BY <1>3, <2>1, <2>2, <3>1, LevelZero DEF IsFalse
    <2>4. l \in Literals(short(c))
        BY <1>1, <2>1, <2>3 DEF Literals
    <2> QED BY <2>1, <2>4
<1> HIDE DEF short
<1>5. ASSUME NEW d \in R
      PROVE  /\ d \in WatchedClause
             /\ \E c \in S : d.watch = c.watch /\ d.rest \subseteq c.rest
             /\ Entails(ToFind, Literals(d))
    <2>1. CASE d \in S
        BY <2>1
    <2>2. CASE \E c \in S : d = short(c)
        BY <1>1, <1>4, <2>2
    <2>3. d \in S \/ \E c \in S : d = short(c)
        BY <1>2
    <2> QED BY <2>1, <2>2, <2>3
<1>6. ASSUME NEW c \in S, \A l \in T : l \notin Literals(c)
      PROVE  \E d \in R : Literals(d) \subseteq Literals(c)
    <2>1. Literals(c) \cap T = {} /\ c.watch \cap T = {}
        BY <1>6 DEF Literals
    <2>2. Literals(short(c)) \subseteq Literals(c)
        BY <1>1 DEF Literals
    <2> QED BY <1>2, <2>1, <2>2
<1> QED BY <1>5, <1>6

(* The database after simplifyOnRestart.                                   *)
LEMMA SimplifyStep ==
    ASSUME SearchInv, DatabaseInv, NEW k, NEW T \in SUBSET Lits(trail),
           k = 0 => \A l \in T : Level(l) = 0,
           SimplifyOnRestart(k, T), binary' = binary, ToFind' \subseteq ToFind
    PROVE  /\ DatabaseInv' /\ Watches' \subseteq Watches
           /\ \A D \in binary \cup {Literals(c) : c \in clauses} :
                 \/ \E E \in binary' \cup {Literals(c) : c \in clauses'} : E \subseteq D
                 \/ k = 0 /\ \E l \in T : l \in D
<1>1. CASE UNCHANGED <<clauses, learned>>
    <2>1. DatabaseInv'
        BY <1>1, DatabaseUnchanged DEF database
    <2> QED BY <1>1, <2>1 DEF Watches
<1>2. CASE k = 0 /\ clauses' = Simplified(clauses, T) /\ learned' = Simplified(learned, T)
    <2>1. T \in SUBSET Zero
        BY <1>2 DEF Zero
    <2>2. clauses \in SUBSET WatchedClause /\ learned \in SUBSET WatchedClause
        BY DEF DatabaseInv
    <2>3. \A c \in clauses \cup learned : Entails(ToFind, Literals(c))
        BY DEF DatabaseInv, Database
    <2>a. IsSimplified(clauses, T, clauses') /\ IsSimplified(learned, T, learned')
        BY <1>2 DEF IsSimplified
    <2>4. /\ \A d \in clauses' : /\ d \in WatchedClause
                                 /\ \E c \in clauses : d.watch = c.watch /\ d.rest \subseteq c.rest
                                 /\ Entails(ToFind, Literals(d))
          /\ \A c \in clauses : \/ \E d \in clauses' : Literals(d) \subseteq Literals(c)
                                \/ \E l \in T : l \in Literals(c)
        BY <2>1, <2>2, <2>3, <2>a, SimplifiedSet
    <2>5. \A d \in learned' : /\ d \in WatchedClause
                              /\ \E c \in learned : d.watch = c.watch /\ d.rest \subseteq c.rest
                              /\ Entails(ToFind, Literals(d))
        BY <2>1, <2>2, <2>3, <2>a, SimplifiedSet
    <2>6. \A d \in clauses' \cup learned' :
              /\ d \in WatchedClause /\ Entails(ToFind', Literals(d))
              /\ \E c \in clauses \cup learned : d.watch = c.watch /\ d.rest \subseteq c.rest
        <3>1. \A C : Entails(ToFind, C) => Entails(ToFind', C)
            BY DEF Entails
        <3> QED BY <2>4, <2>5, <3>1
    <2>7. \A d \in clauses' \cup learned' :
              (\E a, b \in Literal : a # b /\ d.watch = {a, b}) /\ d.watch \cap d.rest = {}
        <3> TAKE d \in clauses' \cup learned'
        <3>1. PICK c \in clauses \cup learned : d.watch = c.watch /\ d.rest \subseteq c.rest
            BY <2>6
        <3>2. (\E a, b \in Literal : a # b /\ c.watch = {a, b}) /\ c.watch \cap c.rest = {}
            BY DEF DatabaseInv
        <3> QED BY <3>1, <3>2
    <2>8. \A C \in binary : Entails(ToFind', C)
        BY DEF DatabaseInv, Database, Entails
    <2>9. DatabaseInv'
        <3>1. \A C \in Database' : Entails(ToFind', C)
            BY <2>6, <2>8 DEF Database
        <3>2. clauses' \cup learned' \subseteq WatchedClause
            BY <2>6
        <3> QED BY <2>7, <3>1, <3>2 DEF DatabaseInv
    <2>10. Watches' \subseteq Watches
        <3> SUFFICES ASSUME NEW d \in clauses' \cup learned'
                     PROVE  d.watch \in Watches
            BY DEF Watches
        <3> QED BY <2>6 DEF Watches
    <2> QED BY <1>2, <2>4, <2>9, <2>10
<1> QED BY <1>1, <1>2 DEF SimplifyOnRestart

(* The input and the refuted models stay kept: what a simplification drops *)
(* is true at level 0.                                                     *)
LEMMA SimplifyKept ==
    ASSUME KeptInv, SearchInv, NEW k, NEW T \in SUBSET Lits(trail),
           k = 0 => \A l \in T : Level(l) = 0,
           \A D \in binary \cup {Literals(c) : c \in clauses} :
                 \/ \E E \in binary' \cup {Literals(c) : c \in clauses'} : E \subseteq D
                 \/ k = 0 /\ \E l \in T : l \in D,
           TrailKeeps(0), instance' = instance, mode' = "bc" => mode = "bc" /\ found' = found,
           pc \in {"coherent", "end"} => pc' \in {"coherent", "end"}
    PROVE  KeptInv'
<1>1. \A l \in Zero : l \in Zero'
    BY DEF TrailKeeps, Zero
<1>2. ASSUME NEW D \in Kept
      PROVE  \E E \in Kept' : E \subseteq D
    <2>1. CASE \E l \in Zero : D = {l}
        BY <1>1, <2>1 DEF Kept
    <2>2. CASE D \in binary \cup {Literals(c) : c \in clauses}
        <3>1. CASE \E E \in binary' \cup {Literals(c) : c \in clauses'} : E \subseteq D
            BY <3>1 DEF Kept
        <3>2. CASE k = 0 /\ \E l \in T : l \in D
            <4>1. PICK l \in T : l \in D
                BY <3>2
            <4>2. l \in Zero'
                BY <1>1, <3>2, <4>1 DEF Zero
            <4>3. {l} \in Kept'
                BY <4>2 DEF Kept
            <4> QED BY <4>1, <4>3
        <3> QED BY <2>2, <3>1, <3>2
    <2> QED BY <2>1, <2>2 DEF Kept
<1> QED BY <1>2, KeptStep

LEMMA EndUnitStep ==
    ASSUME IInv, EndUnit
    PROVE  IInv'
<1>1. /\ pc = "unit" /\ conflict = NoConflict /\ visit = NoVisit /\ ~HasNextVariableToPropagate
      /\ SimplifyOnRestart(0, Lits(trail))
      /\ pc' = "propagate"
      /\ UNCHANGED <<instance, mode, trail, level, reason, phase, unrollVector, nextVariable, visit, conflict,
                     binary, analysis, assumptions, checked, found, core, counters>>
    BY DEF EndUnit, search, caller
<1>2. nextVariable' \in Nat /\ SearchInv /\ DatabaseInv /\ KeptInv
    BY <1>1 DEF IInv, SearchInv
<1>3. /\ ControlInv' /\ SearchInv' /\ FoundInv' /\ AnalysisInv' /\ CoherentInv' /\ AssumptionInv'
      /\ ToFind' = ToFind /\ Models' = Models /\ NoNewDecision
    BY <1>1, <1>2, SearchStanding
<1>4. currentDecisionLevel = 0
    BY <1>1 DEF IInv, ControlInv, currentDecisionLevel
<1>5. \A l \in Lits(trail) : Level(l) = 0
    BY <1>2, <1>4, SearchFacts
<1>6. /\ DatabaseInv' /\ Watches' \subseteq Watches
      /\ \A D \in binary \cup {Literals(c) : c \in clauses} :
            \/ \E E \in binary' \cup {Literals(c) : c \in clauses'} : E \subseteq D
            \/ 0 = 0 /\ \E l \in Lits(trail) : l \in D
    BY <1>1, <1>2, <1>3, <1>5, SimplifyStep
<1>7. KeptInv'
    <2>1. TrailKeeps(0)
        BY <1>1, SameSearch
    <2> QED BY <1>1, <1>2, <1>5, <1>6, <2>1, SimplifyKept
<1>8. CoreInv'
    BY <1>1, <1>3, CoreStep DEF IInv
<1>9. Base' = Base /\ Base = 0
    BY <1>1, <1>4, SameSearch DEF Base
<1>10. VisitInv
    BY <1>1 DEF IInv, PropagationInv
<1>11. VisitInv' /\ Guarded(Watches', trail', level', 0)
    <2>1. Guarded(Watches, trail, level, nextVariable) /\ 0 <= nextVariable /\ nextVariable <= Len(trail)
        BY <1>1, <1>9, <1>10 DEF VisitInv
    <2>2. Guarded(Watches', trail, level, nextVariable) /\ Guarded(Watches', trail, level, 0)
        BY <1>1, <1>2, <1>6, <2>1, FewerGuarded
    <2> QED BY <1>1, <1>9, <2>1, <2>2 DEF VisitInv
<1>12. PropagationInv'
    BY <1>1, <1>9, <1>11 DEF IInv, PropagationInv
<1> QED BY <1>3, <1>6, <1>7, <1>8, <1>12 DEF IInv

(* The levels that are left keep their literals.                           *)
LEMMA UnrollBase ==
    ASSUME SearchInv, NEW k \in 0 .. currentDecisionLevel, currentDecisionLevel' = k,
           \A i \in 1 .. k : unrollVector'[i] = unrollVector[i],
           Len(trail') \in Nat, Len(UnrolledTo(k)) <= Len(trail')
    PROVE  /\ Base' \in Nat /\ Base' <= Len(UnrolledTo(k))
           /\ \A i \in 1 .. k : NonEmpty(i) => NonEmpty(i)'
<1> DEFINE U == unrollVector
           d == currentDecisionLevel
<1>1. d \in Nat /\ d = Len(U) /\ k \in Nat /\ k <= d /\ Len(trail) \in Nat
    BY SearchFacts DEF currentDecisionLevel
<1>2. Len(UnrolledTo(k)) \in Nat /\ Len(UnrolledTo(k)) = IF k < d THEN U[k + 1] ELSE Len(trail)
    BY UnrollPrefix
<1>3. \A i \in 1 .. d : U[i] \in 0 .. Len(trail) /\ \A j \in 1 .. d : i <= j => U[i] <= U[j]
    BY <1>1 DEF SearchInv, OrderedTrail
<1> HIDE DEF d
<1>4. Base' = IF k = 0 THEN 0 ELSE U[k]
    BY <1>1 DEF Base
<1>5. Base' \in Nat /\ Base' <= Len(UnrolledTo(k))
    <2>1. CASE k = 0
        BY <1>2, <1>4, <2>1
    <2>2. CASE k # 0 /\ k < d
        <3>1. k \in 1 .. d /\ k + 1 \in 1 .. d /\ k <= k + 1
            BY <1>1, <2>2
        <3>2. U[k] \in 0 .. Len(trail) /\ U[k] <= U[k + 1]
            BY <1>3, <3>1
        <3> QED BY <1>1, <1>2, <1>4, <2>2, <3>2
    <2>3. CASE k # 0 /\ ~(k < d)
        <3>1. k \in 1 .. d
            BY <1>1, <2>3
        <3>2. U[k] \in 0 .. Len(trail)
            BY <1>3, <3>1
        <3> QED BY <1>1, <1>2, <1>4, <2>3, <3>2
    <2> QED BY <2>1, <2>2, <2>3
<1>6. ASSUME NEW i \in 1 .. k, NonEmpty(i)
      PROVE  NonEmpty(i)'
    <2>1. /\ i < k => (NonEmpty(i)' <=> U[i] < unrollVector'[i + 1])
          /\ i = k => (NonEmpty(i)' <=> U[i] < Len(trail'))
        BY <1>1 DEF NonEmpty
    <2>2. i \in 1 .. d /\ U[i] \in Nat
        BY <1>1, <1>3
    <2>3. CASE i < k
        <3>1. i + 1 \in 1 .. k /\ i < d
            BY <1>1, <2>3
        <3>2. U[i] < U[i + 1]
            BY <1>6, <3>1 DEF NonEmpty, d
        <3> QED BY <2>1, <2>3, <3>1, <3>2
    <2>4. CASE ~(i < k)
        <3>1. i = k
            BY <1>1, <2>4
        <3>2. U[i] < Len(UnrolledTo(k))
            BY <1>2, <1>6, <3>1 DEF NonEmpty, d
        <3>3. U[i] < Len(trail')
            BY <1>2, <2>2, <3>2
        <3> QED BY <2>1, <3>1, <3>3
    <2> QED BY <2>3, <2>4
<1> QED BY <1>5, <1>6

(* A trail that became shorter is complete no more.                        *)
LEMMA UnrollLoops ==
    ASSUME SearchInv, LoopsHold, NEW k \in 0 .. currentDecisionLevel, trail' = UnrolledTo(k),
           instance' = instance
    PROVE  LoopsHold'
<1>1. /\ Len(trail') \in Nat /\ Len(trail') <= Len(trail)
      /\ \A i \in 1 .. Len(trail') : trail'[i] = trail[i]
      /\ trail' \in Trails
    BY UnrollPrefix
<1>2. SUFFICES ASSUME Len(trail') >= Cardinality(Var), NEW L \in instance.loops
               PROVE  \E l \in L : l \in Lits(trail')
    BY DEF LoopsHold, IsTrue
<1>3. Len(trail') = Len(trail) /\ Len(trail) >= Cardinality(Var)
    BY <1>1, <1>2, CompleteTrail, SearchFacts
<1>4. PICK l \in L : IsTrue(l)
    BY <1>3 DEF LoopsHold
<1>5. PICK i \in 1 .. Len(trail) : trail[i] = l
    BY <1>4, TrailTyping DEF IsTrue, SearchInv
<1>6. trail'[i] = l /\ i \in 1 .. Len(trail')
    BY <1>1, <1>3, <1>5
<1>7. l \in Lits(trail')
    BY <1>1, <1>6, TrailTyping
<1> QED BY <1>7

(* What the invariant needs to know of unroll(k).                          *)
LEMMA Unrolling ==
    ASSUME SearchInv, NEW k \in 0 .. currentDecisionLevel, Unroll(k), ToFind' \subseteq ToFind,
           instance' = instance
    PROVE  /\ SearchInv' /\ TrailKeeps(k) /\ TrailKeeps(0) /\ NoNewDecision
           /\ currentDecisionLevel' = k /\ nextVariable' = Len(trail') /\ Len(trail') \in Nat
           /\ \A i \in 1 .. k : NonEmpty(i) => NonEmpty(i)'
           /\ Lits(trail') = {l \in Lits(trail) : Level(l) <= k}
           /\ \A l : Level(l)' = Level(l)
           /\ LoopsHold => LoopsHold'
           /\ \A D : Guarded(D, trail, level, Len(trail)) =>
                  Guarded(D, trail', level', Len(trail')) /\ Guarded(D, trail', level', Base')
           /\ Base' \in Nat /\ Base' <= Len(trail')
<1>1. /\ SearchInv'
      /\ level' = level /\ reason' = reason
      /\ trail' = UnrolledTo(k) /\ nextVariable' = Len(trail')
      /\ currentDecisionLevel' = k
      /\ \A i \in 1 .. k : unrollVector'[i] = unrollVector[i]
    BY UnrollState
<1>2. /\ Len(UnrolledTo(k)) \in Nat /\ Len(UnrolledTo(k)) <= Len(trail)
      /\ Lits(UnrolledTo(k)) = {l \in Lits(trail) : Level(l) <= k}
      /\ \A D : \A p \in Nat : Guarded(D, trail, level, p) /\ Len(UnrolledTo(k)) <= p
                        => Guarded(D, UnrolledTo(k), level, Len(UnrolledTo(k)))
      /\ UnrolledTo(k) \in Trails
    BY UnrollPrefix
<1>3. Base' \in Nat /\ Base' <= Len(trail') /\ \A i \in 1 .. k : NonEmpty(i) => NonEmpty(i)'
    BY <1>1, <1>2, UnrollBase
<1>4. \A l : Level(l)' = Level(l)
    BY <1>1 DEF Level
<1>5. k \in Nat /\ \A l \in Lits(trail) : Level(l) <= 0 => Level(l) <= k
    BY SearchFacts
<1>6. TrailKeeps(k) /\ TrailKeeps(0)
    BY <1>1, <1>2, <1>4, <1>5 DEF TrailKeeps
<1>7. NoNewDecision
    BY <1>1, <1>2, <1>4 DEF NoNewDecision
<1>8. ASSUME NEW D, Guarded(D, trail, level, Len(trail))
      PROVE  Guarded(D, trail', level', Len(trail')) /\ Guarded(D, trail', level', Base')
    <2>1. Guarded(D, trail', level', Len(trail'))
        BY <1>1, <1>2, <1>8, SearchFacts
    <2> QED BY <1>1, <1>2, <1>3, <2>1, FewerGuarded
<1>9. LoopsHold => LoopsHold'
    BY <1>1, UnrollLoops
<1> QED BY <1>1, <1>2, <1>3, <1>4, <1>6, <1>7, <1>8, <1>9

LEMMA RestartStep ==
    ASSUME IInv, Restart
    PROVE  IInv'
<1> DEFINE k == IF currentDecisionLevel > Len(assumptions) THEN Len(assumptions) ELSE 0
           T == Lits(UnrolledTo(k))
<1>1. /\ pc = "propagate" /\ conflict = NoConflict /\ visit = NoVisit /\ ~HasNextVariableToPropagate
      /\ ~\E L \in instance.loops : UnitOrFalse(L)
      /\ Unroll(k) /\ SimplifyOnRestart(k, T)
      /\ pc' = "loop" /\ restarts' = restarts + 1
      /\ UNCHANGED <<instance, mode, visit, conflict, binary, analysis, assumptions, checked, found, core, deletions>>
    BY DEF Restart, Idle, caller
<1>2. /\ SearchInv /\ DatabaseInv /\ KeptInv /\ FoundInv /\ AnalysisInv /\ AssumptionInv /\ CoreInv
      /\ ToFind' = ToFind
    BY <1>1, ModelsKept DEF IInv
<1>3. k \in 0 .. currentDecisionLevel
    BY <1>2, SearchFacts, LenProperties DEF AssumptionInv
<1> HIDE DEF k
<1>4. /\ SearchInv' /\ TrailKeeps(k) /\ TrailKeeps(0) /\ NoNewDecision
      /\ currentDecisionLevel' = k /\ nextVariable' = Len(trail')
      /\ \A i \in 1 .. k : NonEmpty(i) => NonEmpty(i)'
      /\ LoopsHold => LoopsHold'
      /\ \A D : Guarded(D, trail, level, Len(trail)) =>
             Guarded(D, trail', level', Len(trail')) /\ Guarded(D, trail', level', Base')
    BY <1>1, <1>2, <1>3, Unrolling
<1>5. T \subseteq Lits(trail) /\ (k = 0 => \A l \in T : Level(l) = 0)
    BY <1>2, <1>3, UnrollPrefix, SearchFacts
<1> HIDE DEF T
<1>6. /\ DatabaseInv' /\ Watches' \subseteq Watches
      /\ \A D \in binary \cup {Literals(c) : c \in clauses} :
            \/ \E E \in binary' \cup {Literals(c) : c \in clauses'} : E \subseteq D
            \/ k = 0 /\ \E l \in T : l \in D
    BY <1>1, <1>2, <1>5, SimplifyStep
<1>7. KeptInv'
    <2>1. /\ instance' = instance /\ (mode' = "bc" => mode = "bc" /\ found' = found)
          /\ pc \in {"coherent", "end"} => pc' \in {"coherent", "end"}
        BY <1>1
    <2>2. KeptInv /\ SearchInv /\ TrailKeeps(0) /\ T \in SUBSET Lits(trail)
        BY <1>2, <1>4, <1>5
    <2> QED BY ONLY <2>1, <2>2, <1>5, <1>6, SimplifyKept
<1>8. FoundInv' /\ AnalysisInv'
    BY <1>1, <1>2, FoundUnchanged, AnalysisUnchanged
<1>9. AssumptionInv'
    <2>1. Reached' = k /\ Reached = currentDecisionLevel /\ k \in Nat /\ k <= currentDecisionLevel
        BY <1>1, <1>2, <1>3, <1>4, SearchFacts DEF Reached
    <2> QED BY <1>1, <1>2, <1>4, <2>1, AssumptionStep
<1>10. CoreInv'
    BY <1>1, <1>2, <1>4, CoreStep
<1>11. PropagationInv'
    <2>1. Guarded(Watches, trail, level, Len(trail)) /\ Len(trail) \in Nat
        BY <1>1, <1>2, IdleFacts, SearchFacts
    <2>2. Guarded(Watches', trail, level, Len(trail))
        BY <1>2, <1>6, <2>1, FewerGuarded DEF SearchInv
    <2>3. LoopsHold'
        BY <1>1, <1>2, <1>4, LoopsComplete DEF IInv, ControlInv
    <2>4. Quiet' /\ Guarded(Watches', trail', level', Base')
        BY <1>4, <2>2, <2>3 DEF Quiet
    <2> QED BY <1>1, <2>4 DEF IInv, PropagationInv
<1>12. ControlInv' /\ CoherentInv'
    BY <1>1 DEF IInv, ControlInv, CoherentInv
<1> QED BY <1>4, <1>6, <1>7, <1>8, <1>9, <1>10, <1>11, <1>12 DEF IInv

LEMMA MinimizeUnsatCoreStep ==
    ASSUME IInv, MinimizeUnsatCore
    PROVE  IInv'
<1>1. /\ pc = "incoherent" /\ mode \in {"core", "minimize"}
      /\ UNCHANGED <<instance, visit, conflict, database, analysis, checked, found, counters>>
    BY DEF MinimizeUnsatCore
<1>2. /\ SearchInv /\ DatabaseInv /\ KeptInv /\ FoundInv /\ AnalysisInv /\ AssumptionInv /\ CoreInv
      /\ found = <<>>
    BY <1>1 DEF IInv, FoundInv
<1>3. Lits(core) \subseteq Lits(instance.assumptions) /\ Refuted(Lits(core)) /\ core \in Seq(Literal) /\ DecidedInv
    BY <1>1, <1>2 DEF CoreInv
<1>4. CASE pc' = "end" /\ UNCHANGED <<mode, search, assumptions, core>>
    <2>1. nextVariable' \in Nat
        BY <1>2, <1>4 DEF SearchInv, search
    <2>2. UNCHANGED <<trail, level, reason, phase, unrollVector>>
        BY <1>4 DEF search
    <2>3. /\ ControlInv' /\ SearchInv' /\ DatabaseInv' /\ KeptInv' /\ FoundInv'
          /\ AnalysisInv' /\ CoherentInv' /\ AssumptionInv'
          /\ Watches' = Watches /\ ToFind' = ToFind /\ Models' = Models /\ NoNewDecision
        BY <1>1, <1>4, <2>1, <2>2, Standing
    <2>4. CoreResult'
        <3>1. Lits(<<>>) = {}
            BY DEF Lits
        <3> QED BY <1>1, <1>2, <1>3, <1>4, <2>3, <3>1 DEF CoreResult, Refuted
    <2>5. DecidedInv'
        BY <1>3, <1>4, <2>2, <2>3 DEF DecidedInv, NoNewDecision
    <2>6. CoreInv'
        BY <1>1, <1>2, <1>4, <2>3, <2>4, <2>5 DEF CoreInv, Refuted
    <2>7. Base' = Base
        BY <2>2, SameSearch
    <2>8. PropagationInv'
        BY <1>1, <1>4, <2>2, <2>3, <2>7 DEF IInv, PropagationInv
    <2> QED BY <2>3, <2>6, <2>8 DEF IInv
<1>5. CASE /\ Len(core) > 2 /\ mode' = "minimize" /\ assumptions' = core /\ core' = <<>>
           /\ Unroll(0) /\ pc' = "loop"
    <2>1. ToFind' = ToFind /\ Models' = Models
        BY <1>1, <1>5 DEF ToFind, Models
    <2>2. 0 \in 0 .. currentDecisionLevel
        BY <1>2, SearchFacts
    <2>3. /\ SearchInv' /\ TrailKeeps(0)
          /\ currentDecisionLevel' = 0 /\ nextVariable' = Len(trail')
          /\ Lits(trail') = {l \in Lits(trail) : Level(l) <= 0}
          /\ \A l : Level(l)' = Level(l)
          /\ LoopsHold => LoopsHold'
          /\ \A D : Guarded(D, trail, level, Len(trail)) =>
                 Guarded(D, trail', level', Len(trail')) /\ Guarded(D, trail', level', Base')
        BY <1>1, <1>2, <1>5, <2>1, <2>2, Unrolling
    <2>4. DatabaseInv' /\ Watches' = Watches
        BY <1>1, <1>2, <2>1, DatabaseUnchanged DEF Watches, database
    <2>5. KeptInv'
        BY <1>1, <1>2, <1>5, <2>3, KeptUnchanged DEF database
    <2>6. FoundInv' /\ AnalysisInv'
        BY <1>1, <1>2, <1>5, FoundUnchanged, AnalysisUnchanged
    <2>7. AssumptionInv'
        <3>1. Reached' = 0 /\ Len(assumptions') \in Nat
            BY <1>3, <1>5, <2>3, LenProperties DEF Reached
        <3>2. checked' \in [0 .. Cardinality(Var) -> BOOLEAN]
            BY <1>1, <1>2 DEF AssumptionInv
        <3>3. /\ \A i \in 1 .. Len(assumptions') : ~(i <= Reached')
              /\ \A k \in Len(assumptions') + 1 .. Reached' : FALSE
            BY <3>1
        <3> QED BY <1>3, <1>5, <3>2, <3>3 DEF AssumptionInv
    <2>8. CoreInv'
        <3>1. DecidedInv'
            <4>1. \A l \in Lits(trail') : Level(l)' \in Nat /\ Level(l)' <= 0
                BY <1>2, <2>3, SearchFacts
            <4> QED BY <4>1 DEF DecidedInv
        <3>2. CoreResult'
            BY <1>5 DEF CoreResult
        <3> QED BY <1>1, <1>3, <1>5, <2>1, <3>1, <3>2 DEF CoreInv, Refuted
    <2>9. PropagationInv'
        <3>1. Quiet
            <4>1. core # <<>>
                BY <1>5
            <4> QED BY <1>1, <4>1 DEF IInv, PropagationInv
        <3>2. Quiet' /\ Guarded(Watches', trail', level', Base')
            BY <2>3, <2>4, <3>1 DEF Quiet
        <3> QED BY <1>1, <1>5, <3>2 DEF IInv, PropagationInv
    <2>10. ControlInv' /\ CoherentInv'
        BY <1>1, <1>5 DEF IInv, ControlInv, CoherentInv, counters
    <2> QED BY <2>3, <2>4, <2>5, <2>6, <2>7, <2>8, <2>9, <2>10 DEF IInv
<1>6. Len(core) \in Nat
    BY <1>3, LenProperties
<1> QED BY <1>4, <1>5, <1>6 DEF MinimizeUnsatCore
-----------------------------------------------------------------------------
(* Unit propagation: the literals of a clause but one are false.           *)
LEMMA AssignHere ==
    ASSUME SearchInv, NEW l \in Literal, NEW C \in SUBSET Literal,
           AssignLiteral(trail, currentDecisionLevel, l, C),
           ~IsTrue(l), l \in C, \A x \in C \ {l} : IsFalse(x), Entails(ToFind, C),
           IsFalse(l) => Level(l) = currentDecisionLevel,
           nextVariable' \in Nat, unrollVector' = unrollVector, ToFind' = ToFind
    PROVE  /\ SearchInv' /\ currentDecisionLevel' = currentDecisionLevel /\ Base' = Base
           /\ conflict' \in [lit : Literal \cup {0}, clause : SUBSET Literal]
           /\ conflict' = NoConflict => IsTrue(l)'
           /\ conflict' # NoConflict => FalseClause'
           /\ \A r : TrailKeeps(r)
           /\ \A x : IsTrue(x) => IsTrue(x)'
           /\ NoNewDecision
           /\ \A i \in 1 .. currentDecisionLevel : NonEmpty(i) => NonEmpty(i)'
           /\ Len(trail') \in Nat /\ Len(trail) <= Len(trail')
           /\ \A i \in 1 .. Len(trail) : trail'[i] = trail[i]
           /\ \A D : \A p \in Nat : p <= Len(trail) /\ Guarded(D, trail, level, p)
                  => Guarded(D, trail', level', p)
<1>1. currentDecisionLevel' = currentDecisionLevel /\ Base' = Base
    BY DEF currentDecisionLevel, Base
<1>2. /\ level \in Levels /\ reason \in Reasons /\ phase \in [Var -> {-1, 1}]
      /\ trail \in Trails /\ unrollVector \in Seq(Nat) /\ OrderedTrail(trail, level, unrollVector)
      /\ Justified(trail, level, reason, unrollVector, ToFind)
      /\ currentDecisionLevel = Len(unrollVector) /\ Len(trail) \in Nat
    BY SearchFacts DEF SearchInv, currentDecisionLevel
<1>3. ASSUME Len(trail') \in Nat, Len(trail) <= Len(trail'), NEW i \in 1 .. currentDecisionLevel, NonEmpty(i)
      PROVE  NonEmpty(i)'
    <2>1. unrollVector[i] \in Nat
        BY <1>2 DEF OrderedTrail
    <2>2. CASE i < currentDecisionLevel
        BY <1>1, <1>3, <2>2 DEF NonEmpty
    <2>3. CASE ~(i < currentDecisionLevel)
        <3>1. unrollVector[i] < Len(trail) /\ (NonEmpty(i)' <=> unrollVector[i] < Len(trail'))
            BY <1>1, <1>3, <2>3 DEF NonEmpty
        <3> QED BY <1>2, <1>3, <2>1, <3>1
    <2> QED BY <2>2, <2>3
<1>4. CASE IsUndefined(l)
    <2>1. l \notin Lits(trail) /\ -l \notin Lits(trail)
        BY <1>4 DEF IsUndefined, IsTrue, IsFalse
    <2>2. ReasonFor(trail, unrollVector, l, C, ToFind)
        BY DEF ReasonFor, IsFalse
    <2>3. /\ SearchInv'
          /\ conflict' = NoConflict
          /\ Len(trail') = Len(trail) + 1
          /\ Lits(trail') = Lits(trail) \cup {l}
          /\ \A i \in 1 .. Len(trail) : trail'[i] = trail[i]
          /\ \A x \in Lits(trail) : Level(x)' = Level(x) /\ reason'[Variable(x)] = reason[Variable(x)]
          /\ reason'[Variable(l)] = C
          /\ \A D : \A p \in Nat : p <= Len(trail) /\ Guarded(D, trail, level, p) => Guarded(D, trail', level', p)
        <3>1. AssignLiteral(trail, Len(unrollVector), l, C)
            BY <1>2
        <3> QED BY <1>2, <2>1, <2>2, <3>1, AssignTo
    <2>4. Len(trail') \in Nat /\ Len(trail) <= Len(trail')
        BY <1>2, <2>3
    <2>5. IsTrue(l)' /\ (\A x : IsTrue(x) => IsTrue(x)') /\ \A r : TrailKeeps(r)
        BY <2>3 DEF IsTrue, TrailKeeps
    <2>6. NoNewDecision
        BY <2>3 DEF NoNewDecision
    <2>7. conflict' \in [lit : Literal \cup {0}, clause : SUBSET Literal]
        BY <2>3 DEF NoConflict
    <2> QED BY <1>1, <1>3, <2>3, <2>4, <2>5, <2>6, <2>7
<1>5. CASE IsFalse(l)
    <2>1. /\ trail' = trail /\ level' = level /\ reason' = reason /\ phase' = phase
          /\ conflict' = [lit |-> l, clause |-> C]
        BY <1>5 DEF AssignLiteral, IsFalse
    <2>2. SearchInv'
        BY <2>1 DEF SearchInv
    <2>3. FalseClause'
        <3>1. Level(l)' = currentDecisionLevel'
            BY <1>1, <1>5, <2>1 DEF Level
        <3>2. \A x \in C : IsFalse(x)'
            BY <1>5, <2>1 DEF IsFalse
        <3> QED BY <2>1, <3>1, <3>2 DEF FalseClause
    <2>4. /\ \A r : TrailKeeps(r)
          /\ \A x : IsTrue(x) => IsTrue(x)'
          /\ NoNewDecision
        BY <2>1 DEF TrailKeeps, IsTrue, NoNewDecision, Level
    <2>5. conflict' # NoConflict /\ conflict' \in [lit : Literal \cup {0}, clause : SUBSET Literal]
        BY <2>1, LiteralFacts DEF NoConflict
    <2> QED BY <1>1, <1>2, <1>3, <2>1, <2>2, <2>3, <2>4, <2>5
<1> QED BY <1>4, <1>5 DEF IsUndefined

LEMMA ShortPropagationStep ==
    ASSUME IInv, ShortPropagation
    PROVE  IInv'
<1>1. /\ pc \in {"propagate", "unit"} /\ conflict = NoConflict
      /\ UNCHANGED <<instance, mode, pc, unrollVector, nextVariable, database, analysis, assumptions,
                     checked, found, core, counters>>
    BY DEF ShortPropagation, Propagating, caller
<1>2. PICK l \in visit.binary :
         /\ ~IsTrue(l)
         /\ AssignLiteral(trail, currentDecisionLevel, l, {l, visit.lit})
         /\ visit' = [visit EXCEPT !.binary = @ \ {l}]
    BY DEF ShortPropagation
<1>3. /\ SearchInv /\ DatabaseInv /\ KeptInv /\ FoundInv /\ AnalysisInv /\ AssumptionInv /\ CoreInv
      /\ VisitInv /\ ToFind' = ToFind /\ nextVariable' \in Nat
      /\ visit \in [lit : Literal \cup {0}, binary : SUBSET Literal, watched : SUBSET WatchedClause]
      /\ Guarded(Watches, trail, level, Base)
    BY <1>1, ModelsKept DEF IInv, PropagationInv, SearchInv
<1>4. visit # NoVisit
    BY <1>2 DEF NoVisit
<1>5. /\ Base < nextVariable /\ nextVariable <= Len(trail)
      /\ visit.lit = -trail[nextVariable]
      /\ Guarded(Watches, trail, level, nextVariable - 1)
      /\ visit.watched \subseteq clauses \cup learned
      /\ \A c \in visit.watched : visit.lit \in c.watch
      /\ \A x \in visit.binary : x # visit.lit /\ {x, visit.lit} \in binary
      /\ \A C \in binary : visit.lit \in C => \E x \in C : IsTrue(x) \/ x \in visit.binary
      /\ \A c \in clauses \cup learned :
             visit.lit \in c.watch => c \in visit.watched \/ \E x \in c.watch : IsTrue(x)
    BY <1>3, <1>4 DEF VisitInv
<1>6. Base \in Nat /\ nextVariable \in 1 .. Len(trail) /\ Len(trail) \in Nat /\ nextVariable \in Nat
    BY <1>1, <1>3, <1>5, BaseFacts, SearchFacts DEF SearchInv
<1>7. visit.lit \in Literal /\ IsFalse(visit.lit) /\ l \in Literal
    <2>1. trail[nextVariable] \in Literal /\ trail[nextVariable] \in Lits(trail)
        BY <1>3, <1>6, TrailTyping DEF SearchInv
    <2> QED BY <1>3, <1>5, <2>1, LiteralFacts DEF IsFalse
<1> DEFINE C == {l, visit.lit}
<1>8. C \in binary /\ C \in Watches /\ Entails(ToFind, C) /\ C \in SUBSET Literal
    BY <1>3, <1>5, <1>7 DEF DatabaseInv, Database, Watches
<1>9. l \in C /\ \A x \in C \ {l} : IsFalse(x)
    BY <1>7
<1>10. IsFalse(l) => Level(l) = currentDecisionLevel
    <2>1. \A x \in C : ~IsTrue(x)
        BY <1>2, <1>3, <1>7, SearchFacts
    <2> QED BY <1>3, <1>7, <1>8, <1>9, <2>1, FalseAtCurrentLevel
<1>11. AssignLiteral(trail, currentDecisionLevel, l, C)
    BY <1>2
<1> HIDE DEF C
<1>12. /\ SearchInv' /\ currentDecisionLevel' = currentDecisionLevel /\ Base' = Base
       /\ conflict' \in [lit : Literal \cup {0}, clause : SUBSET Literal]
       /\ conflict' = NoConflict => IsTrue(l)'
       /\ conflict' # NoConflict => FalseClause'
       /\ \A r : TrailKeeps(r)
       /\ \A x : IsTrue(x) => IsTrue(x)'
       /\ NoNewDecision
       /\ \A i \in 1 .. currentDecisionLevel : NonEmpty(i) => NonEmpty(i)'
       /\ Len(trail') \in Nat /\ Len(trail) <= Len(trail')
       /\ \A i \in 1 .. Len(trail) : trail'[i] = trail[i]
       /\ \A D : \A p \in Nat : p <= Len(trail) /\ Guarded(D, trail, level, p) => Guarded(D, trail', level', p)
    BY <1>1, <1>2, <1>3, <1>7, <1>8, <1>9, <1>10, <1>11, AssignHere
<1>13. DatabaseInv' /\ Watches' = Watches /\ binary' = binary /\ clauses' = clauses /\ learned' = learned
    BY <1>1, <1>3, DatabaseUnchanged DEF database, Watches
<1>14. KeptInv' /\ FoundInv' /\ AnalysisInv'
    BY <1>1, <1>3, <1>12, <1>13, KeptUnchanged, FoundUnchanged, AnalysisUnchanged
<1>15. CoreInv'
    BY <1>1, <1>3, <1>12, CoreStep
<1>16. AssumptionInv'
    <2>1. Reached' = Reached /\ Reached = currentDecisionLevel /\ Reached' \in Nat /\ Reached' <= Reached
        BY <1>1, <1>3, <1>12, SearchFacts DEF Reached
    <2> QED BY <1>1, <1>3, <1>12, <2>1, AssumptionStep
<1>17. visit'.lit = visit.lit /\ visit'.binary = visit.binary \ {l} /\ visit'.watched = visit.watched
    BY <1>2, <1>3
<1>18. ASSUME conflict' = NoConflict
       PROVE  VisitInv'
    <2>1. visit' # NoVisit
        BY <1>7, <1>17, LiteralFacts DEF NoVisit
    <2>2. Base' < nextVariable' /\ nextVariable' <= Len(trail') /\ visit'.lit = -trail'[nextVariable']
        BY <1>1, <1>5, <1>6, <1>12, <1>17
    <2>3. Guarded(Watches', trail', level', nextVariable' - 1)
        BY <1>1, <1>5, <1>6, <1>12, <1>13
    <2>4. \A B \in binary : visit.lit \in B => \E x \in B : IsTrue(x)' \/ x \in visit'.binary
        BY <1>5, <1>12, <1>17, <1>18
    <2>5. \A c \in clauses \cup learned :
              visit.lit \in c.watch => c \in visit.watched \/ \E x \in c.watch : IsTrue(x)'
        BY <1>5, <1>12
    <2> QED BY <1>5, <1>13, <1>17, <2>1, <2>2, <2>3, <2>4, <2>5 DEF VisitInv
<1>19. PropagationInv'
    <2>1. visit' \in [lit : Literal \cup {0}, binary : SUBSET Literal, watched : SUBSET WatchedClause]
        BY <1>2, <1>3
    <2>2. Guarded(Watches', trail', level', Base')
        BY <1>3, <1>5, <1>6, <1>12, <1>13
    <2> QED BY <1>1, <1>7, <1>12, <1>17, <1>18, <2>1, <2>2 DEF PropagationInv
<1>20. ControlInv' /\ CoherentInv'
    BY <1>1 DEF IInv, ControlInv, CoherentInv, counters
<1> QED BY <1>12, <1>13, <1>14, <1>15, <1>16, <1>19, <1>20 DEF IInv

(* Moving a watch: the clause keeps its literals and is watched at one     *)
(* that is not false in place of the one that became false.                *)
LEMMA RewatchedFacts ==
    ASSUME DatabaseInv, NEW c \in clauses \cup learned, NEW other \in Literal, NEW l \in c.rest,
           visit.lit \in Literal, other # visit.lit, c.watch = {other, visit.lit},
           NEW d, d = Rewatched(c, l)
    PROVE  /\ d \in WatchedClause /\ d.watch = {other, l} /\ Literals(d) = Literals(c)
           /\ d.watch \cap d.rest = {} /\ other # l /\ l # visit.lit /\ l \in Literal
<1>1. c \in WatchedClause /\ c.watch \cap c.rest = {}
    BY DEF DatabaseInv
<1>2. l \in Literal /\ l # other /\ l # visit.lit
    BY <1>1 DEF WatchedClause
<1>3. d.watch = (c.watch \ {visit.lit}) \cup {l} /\ d.rest = (c.rest \ {l}) \cup {visit.lit}
    BY DEF Rewatched
<1>4. d.watch = {other, l} /\ d.watch \cap d.rest = {}
    BY <1>1, <1>2, <1>3
<1>5. Literals(d) = Literals(c)
    BY <1>2, <1>3, <1>4 DEF Literals
<1>6. d \in WatchedClause
    BY <1>1, <1>2, <1>3 DEF Rewatched, WatchedClause
<1> QED BY <1>2, <1>4, <1>5, <1>6

LEMMA UnitPropagationStep ==
    ASSUME IInv, UnitPropagation
    PROVE  IInv'
<1>1. /\ pc \in {"propagate", "unit"} /\ conflict = NoConflict
      /\ \A l \in visit.binary : IsTrue(l)
      /\ UNCHANGED <<instance, mode, pc, unrollVector, nextVariable, binary, analysis, assumptions,
                     checked, found, core, counters>>
    BY DEF UnitPropagation, Propagating, caller
<1>2. PICK c \in visit.watched :
         /\ ~Satisfied(c)
         /\ visit' = [visit EXCEPT !.watched = @ \ {c}]
         /\ LET other == CHOOSE l \in c.watch : l # visit.lit
            IN  \/ /\ \A l \in c.rest : IsFalse(l)
                   /\ AssignLiteral(trail, currentDecisionLevel, other, Literals(c))
                   /\ UNCHANGED <<clauses, learned>>
                \/ \E l \in c.rest :
                     /\ ~IsFalse(l)
                     /\ clauses' = Replace(clauses, c, Rewatched(c, l))
                     /\ learned' = Replace(learned, c, Rewatched(c, l))
                     /\ UNCHANGED <<trail, level, reason, phase, conflict>>
    BY DEF UnitPropagation, Unvisited
<1>3. /\ SearchInv /\ DatabaseInv /\ KeptInv /\ FoundInv /\ AnalysisInv /\ AssumptionInv /\ CoreInv
      /\ VisitInv /\ ToFind' = ToFind /\ nextVariable' \in Nat
      /\ visit \in [lit : Literal \cup {0}, binary : SUBSET Literal, watched : SUBSET WatchedClause]
      /\ Guarded(Watches, trail, level, Base)
    BY <1>1, ModelsKept DEF IInv, PropagationInv, SearchInv
<1>4. visit # NoVisit
    BY <1>2 DEF NoVisit
<1>5. /\ Base < nextVariable /\ nextVariable <= Len(trail)
      /\ visit.lit = -trail[nextVariable]
      /\ Guarded(Watches, trail, level, nextVariable - 1)
      /\ visit.watched \subseteq clauses \cup learned
      /\ \A d \in visit.watched : visit.lit \in d.watch
      /\ \A x \in visit.binary : x # visit.lit /\ {x, visit.lit} \in binary
      /\ \A C \in binary : visit.lit \in C => \E x \in C : IsTrue(x) \/ x \in visit.binary
      /\ \A d \in clauses \cup learned :
             visit.lit \in d.watch => d \in visit.watched \/ \E x \in d.watch : IsTrue(x)
    BY <1>3, <1>4 DEF VisitInv
<1>6. Base \in Nat /\ nextVariable \in 1 .. Len(trail) /\ Len(trail) \in Nat /\ nextVariable \in Nat
    BY <1>1, <1>3, <1>5, BaseFacts, SearchFacts DEF SearchInv
<1>7. visit.lit \in Literal /\ IsFalse(visit.lit)
    <2>1. trail[nextVariable] \in Literal /\ trail[nextVariable] \in Lits(trail)
        BY <1>3, <1>6, TrailTyping DEF SearchInv
    <2> QED BY <1>3, <1>5, <2>1, LiteralFacts DEF IsFalse
<1>8. /\ c \in clauses \cup learned /\ visit.lit \in c.watch /\ \A x \in c.watch : ~IsTrue(x)
      /\ c.watch \in Watches
    BY <1>2, <1>5 DEF Satisfied, Watches
<1>9. PICK other \in Literal :
          /\ other # visit.lit /\ c.watch = {other, visit.lit}
          /\ other = CHOOSE l \in c.watch : l # visit.lit
    <2> DEFINE o == CHOOSE l \in c.watch : l # visit.lit
    <2>1. PICK a \in Literal, b \in Literal : a # b /\ c.watch = {a, b}
        BY <1>3, <1>8 DEF DatabaseInv
    <2>2. \E x \in c.watch : x # visit.lit
        BY <2>1
    <2>3. o \in c.watch /\ o # visit.lit
        BY <2>2
    <2>4. o = CHOOSE l \in c.watch : l # visit.lit
        OBVIOUS
    <2> HIDE DEF o
    <2>5. o \in Literal /\ c.watch = {o, visit.lit}
        BY <1>8, <2>1, <2>3
    <2> QED BY <2>3, <2>4, <2>5
<1>10. /\ visit'.lit = visit.lit /\ visit'.binary = visit.binary /\ visit'.watched = visit.watched \ {c}
       /\ visit' \in [lit : Literal \cup {0}, binary : SUBSET Literal, watched : SUBSET WatchedClause]
       /\ visit' # NoVisit
    <2>1. /\ visit'.lit = visit.lit /\ visit'.binary = visit.binary /\ visit'.watched = visit.watched \ {c}
          /\ visit' \in [lit : Literal \cup {0}, binary : SUBSET Literal, watched : SUBSET WatchedClause]
        BY <1>2, <1>3
    <2> QED BY <1>7, <2>1, LiteralFacts DEF NoVisit
<1>11. ControlInv' /\ CoherentInv' /\ FoundInv' /\ AnalysisInv'
    BY <1>1, <1>3, FoundUnchanged, AnalysisUnchanged DEF IInv, ControlInv, CoherentInv, counters
<1>12. CASE /\ \A l \in c.rest : IsFalse(l)
            /\ AssignLiteral(trail, currentDecisionLevel, other, Literals(c))
            /\ UNCHANGED <<clauses, learned>>
    <2> DEFINE C == Literals(c)
    <2>1. C \in SUBSET Literal /\ Entails(ToFind, C) /\ other \in C /\ \A x \in C \ {other} : IsFalse(x)
        <3>1. c \in WatchedClause /\ C \in Database
            BY <1>3, <1>8 DEF DatabaseInv, Database
        <3> QED BY <1>3, <1>7, <1>9, <1>12, <3>1 DEF DatabaseInv, WatchedClause, Literals
    <2>2. ~IsTrue(other) /\ (IsFalse(other) => Level(other) = currentDecisionLevel)
        BY <1>3, <1>8, <1>9, FalseAtCurrentLevel
    <2> HIDE DEF C
    <2>3. /\ SearchInv' /\ currentDecisionLevel' = currentDecisionLevel /\ Base' = Base
          /\ conflict' \in [lit : Literal \cup {0}, clause : SUBSET Literal]
          /\ conflict' = NoConflict => IsTrue(other)'
          /\ conflict' # NoConflict => FalseClause'
          /\ \A r : TrailKeeps(r)
          /\ \A x : IsTrue(x) => IsTrue(x)'
          /\ NoNewDecision
          /\ \A i \in 1 .. currentDecisionLevel : NonEmpty(i) => NonEmpty(i)'
          /\ Len(trail') \in Nat /\ Len(trail) <= Len(trail')
          /\ \A i \in 1 .. Len(trail) : trail'[i] = trail[i]
          /\ \A D : \A p \in Nat : p <= Len(trail) /\ Guarded(D, trail, level, p) => Guarded(D, trail', level', p)
        <3>1. AssignLiteral(trail, currentDecisionLevel, other, C)
            BY <1>12 DEF C
        <3> QED BY <1>1, <1>3, <1>9, <2>1, <2>2, <3>1, AssignHere
    <2>4. DatabaseInv' /\ Watches' = Watches /\ binary' = binary /\ clauses' = clauses /\ learned' = learned
        BY <1>1, <1>3, <1>12, DatabaseUnchanged DEF database, Watches
    <2>5. KeptInv'
        BY <1>1, <1>3, <2>3, <2>4, KeptUnchanged
    <2>6. CoreInv'
        BY <1>1, <1>3, <2>3, CoreStep
    <2>7. AssumptionInv'
        <3>1. Reached' = Reached /\ Reached = currentDecisionLevel /\ Reached' \in Nat /\ Reached' <= Reached
            BY <1>1, <1>3, <2>3, SearchFacts DEF Reached
        <3> QED BY <1>1, <1>3, <2>3, <3>1, AssumptionStep
    <2>8. ASSUME conflict' = NoConflict
          PROVE  VisitInv'
        <3>1. Base' < nextVariable' /\ nextVariable' <= Len(trail') /\ visit'.lit = -trail'[nextVariable']
            BY <1>1, <1>5, <1>6, <1>10, <2>3
        <3>2. Guarded(Watches', trail', level', nextVariable' - 1)
            BY <1>1, <1>5, <1>6, <2>3, <2>4
        <3>3. \A B \in binary : visit.lit \in B => \E x \in B : IsTrue(x)' \/ x \in visit'.binary
            BY <1>5, <1>10, <2>3
        <3>4. ASSUME NEW d \in clauses \cup learned, visit.lit \in d.watch
              PROVE  d \in visit'.watched \/ \E x \in d.watch : IsTrue(x)'
            <4>1. CASE d = c
                BY <1>9, <2>3, <2>8, <4>1
            <4>2. CASE d # c
                BY <1>5, <1>10, <2>3, <3>4, <4>2
            <4> QED BY <4>1, <4>2
        <3> QED BY <1>5, <1>10, <2>4, <3>1, <3>2, <3>3, <3>4 DEF VisitInv
    <2>9. PropagationInv'
        <3>1. Guarded(Watches', trail', level', Base')
            BY <1>3, <1>5, <1>6, <2>3, <2>4
        <3> QED BY <1>1, <1>7, <1>10, <2>3, <2>8, <3>1 DEF PropagationInv
    <2> QED BY <1>11, <2>3, <2>4, <2>5, <2>6, <2>7, <2>9 DEF IInv
<1>13. CASE \E l \in c.rest :
               /\ ~IsFalse(l)
               /\ clauses' = Replace(clauses, c, Rewatched(c, l))
               /\ learned' = Replace(learned, c, Rewatched(c, l))
               /\ UNCHANGED <<trail, level, reason, phase, conflict>>
    <2>1. PICK l \in c.rest :
               /\ ~IsFalse(l)
               /\ clauses' = Replace(clauses, c, Rewatched(c, l))
               /\ learned' = Replace(learned, c, Rewatched(c, l))
               /\ UNCHANGED <<trail, level, reason, phase, conflict>>
        BY <1>13
    <2>2. PICK d : d = Rewatched(c, l)
        OBVIOUS
    <2>3. /\ d \in WatchedClause /\ d.watch = {other, l} /\ Literals(d) = Literals(c)
          /\ d.watch \cap d.rest = {} /\ other # l /\ l # visit.lit /\ l \in Literal
        BY <1>3, <1>7, <1>8, <1>9, <2>2, RewatchedFacts
    <2>4. /\ \A e \in clauses' \cup learned' : e = d \/ (e \in clauses \cup learned /\ e # c)
          /\ \A e \in clauses \cup learned : e = c \/ e \in clauses' \cup learned'
          /\ \A e \in clauses : (e = c /\ d \in clauses') \/ e \in clauses'
        BY <2>1, <2>2 DEF Replace
    <2>5. DatabaseInv'
        <3>1. clauses' \cup learned' \subseteq WatchedClause
            BY <1>3, <2>3, <2>4 DEF DatabaseInv
        <3>2. \A e \in clauses' \cup learned' :
                  (\E a, b \in Literal : a # b /\ e.watch = {a, b}) /\ e.watch \cap e.rest = {}
            BY <1>3, <1>9, <2>3, <2>4 DEF DatabaseInv
        <3>3. \A C \in Database' : C \in Database
            BY <1>1, <1>8, <2>3, <2>4 DEF Database
        <3> QED BY <1>1, <1>3, <3>1, <3>2, <3>3 DEF DatabaseInv
    <2>6. KeptInv'
        <3>1. \A C \in {Literals(e) : e \in clauses} : C \in {Literals(e) : e \in clauses'}
            BY <2>3, <2>4
        <3>2. Zero' = Zero
            BY <1>1, <2>1, SameSearch
        <3>3. \A D \in Kept : D \in Kept'
            BY <1>1, <3>1, <3>2 DEF Kept
        <3> QED BY <1>1, <1>3, <3>3, KeptStep
    <2>7. SearchInv' /\ AssumptionInv' /\ NoNewDecision
        BY <1>1, <1>3, <2>1, SearchStanding
    <2>8. CoreInv'
        BY <1>1, <1>3, <2>7, CoreStep
    <2>9. Base' = Base /\ \A x : IsTrue(x)' <=> IsTrue(x)
        BY <1>1, <2>1, SameSearch
    <2>10. Guarded(Watches', trail', level', nextVariable - 1)
        <3> SUFFICES ASSUME NEW W \in Watches', NEW i \in 1 .. nextVariable - 1, -trail[i] \in W
                     PROVE  \E x \in W : x \in Lits(trail) /\ level[Variable(x)] <= level[Variable(trail[i])]
            BY <2>1 DEF Guarded
        <3>1. CASE W \in Watches
            BY <1>5, <3>1 DEF Guarded
        <3>2. CASE W = {other, l}
            <4>1. i \in 1 .. Len(trail) /\ trail[i] \in Lits(trail) /\ trail[i] \in Literal
                BY <1>3, <1>6, TrailTyping DEF SearchInv
            <4>2. -trail[i] # l
                BY <2>1, <4>1, LiteralFacts DEF IsFalse
            <4>3. -trail[i] \in c.watch
                BY <1>9, <3>2, <4>2
            <4>4. PICK x \in c.watch : x \in Lits(trail)
                BY <1>5, <1>8, <4>3 DEF Guarded
            <4> QED BY <1>8, <4>4 DEF IsTrue
        <3>3. W \in Watches \/ W = {other, l}
            BY <1>1, <2>3, <2>4 DEF Watches
        <3> QED BY <3>1, <3>2, <3>3
    <2>11. VisitInv'
        <3>1. \A e \in visit'.watched : e \in clauses' \cup learned' /\ visit.lit \in e.watch
            BY <1>5, <1>10, <2>4
        <3>2. \A B \in binary : visit.lit \in B => \E x \in B : IsTrue(x)' \/ x \in visit'.binary
            BY <1>5, <1>10, <2>9
        <3>3. ASSUME NEW e \in clauses' \cup learned', visit.lit \in e.watch
              PROVE  e \in visit'.watched \/ \E x \in e.watch : IsTrue(x)'
            <4>1. e # d
                BY <1>9, <2>3, <3>3
            <4>2. e \in clauses \cup learned /\ e # c
                BY <2>4, <4>1
            <4> QED BY <1>5, <1>10, <2>9, <3>3, <4>2
        <3> QED BY <1>1, <1>5, <1>10, <2>1, <2>9, <2>10, <3>1, <3>2, <3>3 DEF VisitInv
    <2>12. PropagationInv'
        <3>1. Base <= nextVariable - 1 /\ nextVariable - 1 \in Nat
            BY <1>5, <1>6
        <3>2. Guarded(Watches', trail', level', Base')
            BY <1>6, <2>9, <2>10, <3>1, FewerGuarded
        <3> QED BY <1>1, <1>7, <1>10, <2>1, <2>11, <3>2 DEF IInv, PropagationInv
    <2> QED BY <1>11, <2>5, <2>6, <2>7, <2>8, <2>12 DEF IInv
<1> QED BY <1>2, <1>9, <1>12, <1>13
-----------------------------------------------------------------------------
(* Conflict analysis.  A clause that is navigated loses literals that are   *)
(* false at level 0.                                                       *)
LEMMA ShortenedEntailed ==
    ASSUME SearchInv, NEW X \in SUBSET Literal, NEW Y, Entails(ToFind, X),
           \A x \in X : (Level(x) = 0 => IsFalse(x)) /\ (x \in Y \/ Level(x) = 0)
    PROVE  Entails(ToFind, Y)
<1> SUFFICES ASSUME NEW M \in ToFind
             PROVE  \E x \in Y : Holds(M, x)
    BY DEF Entails, Sat
<1>1. PICK x \in X : Holds(M, x)
    BY DEF Entails, Sat
<1>2. Level(x) # 0
    BY <1>1, LevelZero
<1> QED BY <1>1, <1>2

(* The database and the reasons after Clause::onLearning.                  *)
LEMMA ShortenStep ==
    ASSUME SearchInv, DatabaseInv, NEW N, ShortenNavigated(N), ToFind' = ToFind,
           \A X \in N : \A x \in X : Level(x) = 0 => IsFalse(x)
    PROVE  /\ Justified(trail, level, reason', unrollVector, ToFind) /\ reason' \in Reasons
           /\ \A x \in Lits(trail) : reason'[Variable(x)] = {} => reason[Variable(x)] = {}
           /\ DatabaseInv' /\ Watches' = Watches
           /\ \A D \in binary \cup {Literals(c) : c \in clauses} :
                 \E E \in binary' \cup {Literals(c) : c \in clauses'} : E \subseteq D
<1>1. /\ reason' = [v \in Var |-> IF reason[v] \in N THEN AboveZero(reason[v]) ELSE reason[v]]
      /\ clauses' = ShortenedIn(clauses, N) /\ learned' = ShortenedIn(learned, N)
      /\ binary' = binary
    BY DEF ShortenNavigated
<1>2. \A X : AboveZero(X) \subseteq X /\ \A x \in X : x \in AboveZero(X) \/ Level(x) = 0
    BY DEF AboveZero
<1>3. \A v \in Var : /\ reason'[v] \subseteq reason[v]
                     /\ reason'[v] = reason[v] \/ (reason'[v] = AboveZero(reason[v]) /\ reason[v] \in N)
    BY <1>1, <1>2
<1>4. reason' \in Reasons
    <2>1. \A v \in Var : reason[v] \subseteq Literal
        BY DEF SearchInv, Reasons
    <2>2. reason' = [v \in Var |-> reason'[v]] /\ \A v \in Var : reason'[v] \in SUBSET Literal
        BY <1>1, <1>3, <2>1
    <2> QED BY <2>2 DEF Reasons
<1>5. ASSUME NEW i \in 1 .. Len(trail)
      PROVE  LET v == Variable(trail[i])
             IN  /\ reason'[v] = {} => reason[v] = {}
                 /\ reason'[v] # {} =>
                       /\ trail[i] \in reason'[v]
                       /\ Entails(ToFind, reason'[v])
                       /\ \A l \in reason'[v] \ {trail[i]} : \E j \in 1 .. i - 1 : trail[j] = -l
    <2> DEFINE v == Variable(trail[i])
    <2>1. trail[i] \in Literal /\ trail[i] \in Lits(trail) /\ v \in Var /\ reason[v] \subseteq Literal
        BY TrailTyping, LiteralFacts DEF SearchInv, Reasons
    <2>2. reason[v] # {} =>
             /\ trail[i] \in reason[v]
             /\ Entails(ToFind, reason[v])
             /\ \A l \in reason[v] \ {trail[i]} : \E j \in 1 .. i - 1 : trail[j] = -l
        BY DEF SearchInv, Justified
    <2>3. ASSUME reason[v] # {}, reason[v] \in N
          PROVE  trail[i] \in AboveZero(reason[v]) /\ Entails(ToFind, AboveZero(reason[v]))
        <3>1. Level(trail[i]) = 0 => IsFalse(trail[i])
            BY <2>2, <2>3
        <3>2. Level(trail[i]) # 0
            BY <2>1, <3>1, SearchFacts DEF IsTrue
        <3>3. trail[i] \in AboveZero(reason[v])
            BY <1>2, <2>2, <2>3, <3>2
        <3>4. \A x \in reason[v] : (Level(x) = 0 => IsFalse(x)) /\ (x \in AboveZero(reason[v]) \/ Level(x) = 0)
            BY <1>2, <2>3
        <3>5. reason[v] \in SUBSET Literal /\ Entails(ToFind, reason[v])
            BY <2>1, <2>2, <2>3
        <3>6. Entails(ToFind, AboveZero(reason[v]))
            BY <3>4, <3>5, ShortenedEntailed
        <3> QED BY <3>3, <3>6
    <2>4. reason'[v] \subseteq reason[v] /\ (reason'[v] = reason[v] \/ (reason'[v] = AboveZero(reason[v]) /\ reason[v] \in N))
        BY <1>3, <2>1
    <2> HIDE DEF v
    <2>5. reason'[v] = {} => reason[v] = {}
        BY <2>3, <2>4
    <2>6. ASSUME reason'[v] # {}
          PROVE  /\ trail[i] \in reason'[v]
                 /\ Entails(ToFind, reason'[v])
                 /\ \A l \in reason'[v] \ {trail[i]} : \E j \in 1 .. i - 1 : trail[j] = -l
        <3>1. reason[v] # {}
            BY <2>4, <2>6
        <3>2. trail[i] \in reason'[v] /\ Entails(ToFind, reason'[v])
            BY <2>2, <2>3, <2>4, <3>1
        <3> QED BY <2>2, <2>4, <3>1, <3>2
    <2> QED BY <2>5, <2>6 DEF v
<1>6. Justified(trail, level, reason', unrollVector, ToFind)
    BY <1>5 DEF SearchInv, Justified
<1>7. \A x \in Lits(trail) : reason'[Variable(x)] = {} => reason[Variable(x)] = {}
    <2> SUFFICES ASSUME NEW x \in Lits(trail), reason'[Variable(x)] = {}
                 PROVE  reason[Variable(x)] = {}
        OBVIOUS
    <2>1. PICK i \in 1 .. Len(trail) : trail[i] = x
        BY TrailTyping DEF SearchInv
    <2>2. reason'[Variable(trail[i])] = {} => reason[Variable(trail[i])] = {}
        BY <1>5
    <2> QED BY <2>1, <2>2
<1> DEFINE short(c) == IF Literals(c) \in N THEN [c EXCEPT !.rest = AboveZero(@)] ELSE c
<1>8. ASSUME NEW c \in clauses \cup learned
      PROVE  /\ short(c) \in WatchedClause /\ short(c).watch = c.watch /\ short(c).rest \subseteq c.rest
             /\ Literals(short(c)) \subseteq Literals(c)
             /\ Entails(ToFind, Literals(short(c)))
    <2>1. c \in WatchedClause /\ Entails(ToFind, Literals(c)) /\ Literals(c) \subseteq Literal
        BY DatabaseFacts DEF DatabaseInv, Database
    <2>2. short(c) \in WatchedClause /\ short(c).watch = c.watch /\ short(c).rest \subseteq c.rest
        BY <1>2, <2>1 DEF WatchedClause
    <2>3. Literals(short(c)) \subseteq Literals(c)
        BY <2>2 DEF Literals
    <2>4. CASE Literals(c) \in N
        <3>1. short(c).rest = AboveZero(c.rest)
            BY <2>1, <2>4 DEF WatchedClause
        <3>2. \A x \in Literals(c) : (Level(x) = 0 => IsFalse(x)) /\ (x \in Literals(short(c)) \/ Level(x) = 0)
            BY <1>2, <2>2, <2>4, <3>1 DEF Literals
        <3>3. Entails(ToFind, Literals(short(c)))
            BY <2>1, <3>2, ShortenedEntailed
        <3> QED BY <2>2, <2>3, <3>3
    <2>5. CASE Literals(c) \notin N
        BY <2>1, <2>5
    <2> QED BY <2>2, <2>3, <2>4, <2>5
<1>9. clauses' = {short(c) : c \in clauses} /\ learned' = {short(c) : c \in learned}
    BY <1>1 DEF ShortenedIn
<1> HIDE DEF short
<1>10. Watches' = Watches
    BY <1>1, <1>8, <1>9 DEF Watches
<1>11. DatabaseInv'
    <2>1. \A d \in clauses' \cup learned' : \E c \in clauses \cup learned : d = short(c)
        BY <1>9
    <2>2. clauses' \cup learned' \subseteq WatchedClause
        BY <1>8, <2>1
    <2>3. ASSUME NEW d \in clauses' \cup learned'
          PROVE  (\E a, b \in Literal : a # b /\ d.watch = {a, b}) /\ d.watch \cap d.rest = {}
        <3>1. PICK c \in clauses \cup learned : d = short(c)
            BY <2>1
        <3>2. (\E a, b \in Literal : a # b /\ c.watch = {a, b}) /\ c.watch \cap c.rest = {}
            BY DEF DatabaseInv
        <3>3. d.watch = c.watch /\ d.rest \subseteq c.rest
            BY <1>8, <3>1
        <3> QED BY <3>2, <3>3
    <2>4. \A C \in Database' : Entails(ToFind', C)
        <3>1. \A d \in clauses' \cup learned' : Entails(ToFind, Literals(d))
            BY <1>8, <2>1
        <3>2. \A C \in binary : Entails(ToFind, C)
            BY DEF DatabaseInv, Database
        <3> QED BY <1>1, <3>1, <3>2 DEF Database
    <2> QED BY <1>1, <2>2, <2>3, <2>4 DEF DatabaseInv
<1>12. ASSUME NEW D \in binary \cup {Literals(c) : c \in clauses}
       PROVE  \E E \in binary' \cup {Literals(c) : c \in clauses'} : E \subseteq D
    <2>1. CASE D \in binary
        BY <1>1, <2>1
    <2>2. CASE D \in {Literals(c) : c \in clauses}
        BY <1>8, <1>9, <2>2
    <2> QED BY <2>1, <2>2
<1> QED BY <1>4, <1>6, <1>7, <1>10, <1>11, <1>12

(* The false literals of C are told apart by their levels.                 *)
LEMMA NavigatedFacts ==
    ASSUME SearchInv, currentDecisionLevel > 0, NEW C \in SUBSET Literal, \A l \in C : IsFalse(l)
    PROVE  /\ Lower(C) \subseteq C /\ \A l \in Lower(C) : Level(l) \in 1 .. currentDecisionLevel - 1
           /\ Pending(C) \subseteq Var
           /\ \A v \in Pending(C) :
                 level[v] = currentDecisionLevel /\ \E l \in C : Variable(l) = v /\ Variable(-l) = v
           /\ \A l \in C : l \in Lower(C) \/ Variable(l) \in Pending(C) \/ Level(l) = 0
<1>1. \A l \in C : Variable(l) \in Var /\ Variable(-l) = Variable(l)
    BY LiteralFacts
<1>2. Pending(C) \subseteq Var /\
         \A v \in Pending(C) :
                 level[v] = currentDecisionLevel /\ \E l \in C : Variable(l) = v /\ Variable(-l) = v
    BY <1>1 DEF Pending, Variables
<1>3. Lower(C) \subseteq C /\ \A l \in Lower(C) : Level(l) \in 1 .. currentDecisionLevel - 1
    BY DEF Lower
<1>4. ASSUME NEW l \in C, Level(l) # 0, l \notin Lower(C)
      PROVE  Variable(l) \in Pending(C)
    <2>1. Level(l) \in 0 .. currentDecisionLevel /\ currentDecisionLevel \in Nat
        BY SearchFacts
    <2>2. Level(l) \notin 1 .. currentDecisionLevel - 1
        BY <1>4 DEF Lower
    <2>3. Level(l) = currentDecisionLevel
        BY <1>4, <2>1, <2>2
    <2> QED BY <2>3 DEF Level, Pending, Variables
<1> QED BY <1>2, <1>3, <1>4

(* A shortened clause is kept all the same.                                *)
LEMMA ShortenKept ==
    ASSUME KeptInv, TrailKeeps(0), instance' = instance,
           mode' = "bc" => mode = "bc" /\ found' = found,
           pc \in {"coherent", "end"} => pc' \in {"coherent", "end"},
           \A D \in binary \cup {Literals(c) : c \in clauses} :
                 \E E \in binary' \cup {Literals(c) : c \in clauses'} : E \subseteq D
    PROVE  KeptInv'
<1>1. \A l \in Zero : l \in Zero'
    BY DEF TrailKeeps, Zero
<1>2. ASSUME NEW D \in Kept
      PROVE  \E E \in Kept' : E \subseteq D
    <2>1. CASE \E l \in Zero : D = {l}
        BY <1>1, <2>1 DEF Kept
    <2>2. CASE D \in binary \cup {Literals(c) : c \in clauses}
        BY <2>2 DEF Kept
    <2> QED BY <2>1, <2>2 DEF Kept
<1> QED BY <1>2, KeptStep

LEMMA BeginAnalysisStep ==
    ASSUME IInv, BeginAnalysis
    PROVE  IInv'
<1> DEFINE lit == conflict.lit
           v == Variable(lit)
           C == (conflict.clause \cup reason[v]) \ {v, -v}
           N == {conflict.clause, reason[v]}
<1>1. /\ pc = "propagate" /\ conflict # NoConflict
      /\ currentDecisionLevel > 0 /\ conflict.clause # {}
      /\ analysis' = [lits |-> Lower(C), pending |-> Pending(C) \cup {v}]
      /\ ShortenNavigated(N)
      /\ pc' = "analyze" /\ visit' = NoVisit /\ conflict' = NoConflict
      /\ UNCHANGED <<instance, mode, trail, level, phase, unrollVector, nextVariable, assumptions,
                     checked, found, core, counters>>
    BY DEF BeginAnalysis, caller
<1>2. /\ SearchInv /\ DatabaseInv /\ KeptInv /\ FoundInv /\ AssumptionInv /\ CoreInv
      /\ ToFind' = ToFind /\ FalseClause
      /\ conflict \in [lit : Literal \cup {0}, clause : SUBSET Literal]
      /\ Guarded(Watches, trail, level, Base)
    BY <1>1, ModelsKept DEF IInv, PropagationInv
<1>3. /\ lit \in conflict.clause /\ Level(lit) = currentDecisionLevel
      /\ \A l \in conflict.clause : IsFalse(l)
      /\ Entails(ToFind, conflict.clause)
      /\ lit \in Literal /\ -lit \in Lits(trail) /\ conflict.clause \subseteq Literal
    BY <1>2 DEF FalseClause, IsFalse
<1>4. v \in Var /\ Variable(-lit) = v /\ -lit \in Literal /\ {v, -v} = {lit, -lit} /\ reason[v] \subseteq Literal
      /\ level[v] = currentDecisionLevel
    <2>1. /\ v \in Var /\ Variable(-lit) = v /\ -lit \in Literal /\ -(-lit) = lit
          /\ v = lit \/ v = -lit
        BY <1>3, LiteralFacts
    <2>2. level[v] = currentDecisionLevel
        BY <1>3 DEF Level
    <2>3. {v, -v} = {lit, -lit}
        BY <2>1
    <2> QED BY <1>2, <2>1, <2>2, <2>3 DEF SearchInv, Reasons
<1>5. PICK p \in 1 .. Len(trail) : trail[p] = -lit
    BY <1>2, <1>3, TrailTyping DEF SearchInv
<1>6. reason[v] # {} => /\ -lit \in reason[v]
                        /\ \A l \in reason[v] \ {-lit} : IsFalse(l)
    <2>1. reason[v] # {} => /\ trail[p] \in reason[v]
                            /\ \A l \in reason[v] \ {trail[p]} : \E j \in 1 .. p - 1 : trail[j] = -l
        BY <1>2, <1>4, <1>5 DEF SearchInv, Justified
    <2>2. \A j \in 1 .. p - 1 : trail[j] \in Lits(trail)
        <3>1. p \in Nat /\ Len(trail) \in Nat /\ p <= Len(trail)
            BY <1>2, SearchFacts
        <3>2. \A j \in 1 .. p - 1 : j \in 1 .. Len(trail)
            BY <3>1
        <3> QED BY <1>2, <3>2, TrailTyping DEF SearchInv
    <2> QED BY <1>5, <2>1, <2>2 DEF IsFalse
<1>7. C \in SUBSET Literal /\ \A l \in C : IsFalse(l)
    BY <1>3, <1>4, <1>6
<1>8. \A X \in N : \A x \in X : Level(x) = 0 => IsFalse(x)
    <2>1. \A x \in conflict.clause : IsFalse(x)
        BY <1>3
    <2>2. \A x \in reason[v] : Level(x) = 0 => IsFalse(x)
        <3>1. Level(-lit) = currentDecisionLevel
            BY <1>4 DEF Level
        <3>2. Level(-lit) # 0
            BY <1>1, <3>1
        <3> QED BY <1>6, <3>2
    <2> QED BY <2>1, <2>2
<1>9. conflict.clause \subseteq C \cup {lit}
    <2>1. -lit \notin conflict.clause
        BY <1>2, <1>3, <1>4, SearchFacts DEF IsTrue
    <2> QED BY <1>4, <2>1
<1> HIDE DEF C, N
<1>10. /\ Justified(trail, level, reason', unrollVector, ToFind) /\ reason' \in Reasons
       /\ \A x \in Lits(trail) : reason'[Variable(x)] = {} => reason[Variable(x)] = {}
       /\ DatabaseInv' /\ Watches' = Watches
       /\ \A D \in binary \cup {Literals(c) : c \in clauses} :
             \E E \in binary' \cup {Literals(c) : c \in clauses'} : E \subseteq D
    BY <1>1, <1>2, <1>8, ShortenStep
<1>11. /\ currentDecisionLevel' = currentDecisionLevel /\ Base' = Base
       /\ \A l : (IsTrue(l)' <=> IsTrue(l)) /\ (IsFalse(l)' <=> IsFalse(l)) /\ Level(l)' = Level(l)
       /\ \A k : NonEmpty(k)' <=> NonEmpty(k)
       /\ TrailKeeps(0)
    BY <1>1, SameSearch
<1>12. SearchInv'
    BY <1>1, <1>2, <1>10 DEF SearchInv
<1>13. KeptInv'
    BY <1>1, <1>2, <1>10, <1>11, ShortenKept
<1>14. FoundInv'
    BY <1>1, <1>2, FoundUnchanged
<1>15. PropagationInv'
    <2>1. /\ visit' \in [lit : Literal \cup {0}, binary : SUBSET Literal, watched : SUBSET WatchedClause]
          /\ conflict' \in [lit : Literal \cup {0}, clause : SUBSET Literal]
        BY <1>1 DEF NoVisit, NoConflict
    <2> QED BY <1>1, <1>2, <1>10, <1>11, <2>1 DEF PropagationInv
<1>16. AnalysisInv'
    <2>1. /\ Lower(C) \subseteq C /\ \A l \in Lower(C) : Level(l) \in 1 .. currentDecisionLevel - 1
          /\ Pending(C) \subseteq Var
          /\ \A w \in Pending(C) :
                 level[w] = currentDecisionLevel /\ \E l \in C : Variable(l) = w /\ Variable(-l) = w
          /\ \A l \in C : l \in Lower(C) \/ Variable(l) \in Pending(C) \/ Level(l) = 0
        BY <1>1, <1>2, <1>7, NavigatedFacts
    <2>2. analysis'.lits = Lower(C) /\ analysis'.pending = Pending(C) \cup {v}
        BY <1>1
    <2>3. analysis' \in [lits : SUBSET Literal, pending : SUBSET Var]
        BY <1>1, <1>4, <1>7, <2>1
    <2>4. \A w \in analysis'.pending : level'[w] = currentDecisionLevel' /\ \E x \in Lits(trail') : Variable(x) = w
        BY <1>1, <1>3, <1>4, <1>7, <1>11, <2>1, <2>2 DEF IsFalse
    <2>5. \A l \in analysis'.lits : IsFalse(l)' /\ Level(l)' \in 1 .. currentDecisionLevel' - 1
        BY <1>7, <1>11, <2>1, <2>2
    <2>6. Resolvent' = Lower(C) \cup {-l : l \in {x \in Lits(trail) : Variable(x) \in Pending(C) \cup {v}}}
        BY <1>1, <2>2 DEF Resolvent
    <2>7. \A x \in conflict.clause : (Level(x) = 0 => IsFalse(x)) /\ (x \in Resolvent' \/ Level(x) = 0)
        <3> TAKE x \in conflict.clause
        <3>1. IsFalse(x) /\ -x \in Lits(trail) /\ -(-x) = x /\ Variable(-x) = Variable(x)
            BY <1>3, LiteralFacts DEF IsFalse
        <3>2. Variable(x) \in Pending(C) \cup {v} => x \in Resolvent'
            BY <2>6, <3>1
        <3>3. x \in Lower(C) => x \in Resolvent'
            BY <2>6
        <3> QED BY <1>9, <2>1, <3>1, <3>2, <3>3
    <2>8. Entails(ToFind', Resolvent')
        <3> DEFINE Y == Resolvent'
        <3>1. \A x \in conflict.clause : (Level(x) = 0 => IsFalse(x)) /\ (x \in Y \/ Level(x) = 0)
            BY <2>7
        <3> HIDE DEF Y
        <3>2. Entails(ToFind, Y)
            BY <1>2, <1>3, <3>1, ShortenedEntailed
        <3> QED BY <1>2, <3>2 DEF Y
    <2> QED BY <1>1, <1>11, <2>2, <2>3, <2>4, <2>5, <2>8 DEF AnalysisInv
<1>17. AssumptionInv'
    <2>1. Reached' = currentDecisionLevel - 1 /\ Reached = currentDecisionLevel
        BY <1>1, <1>11 DEF Reached
    <2>2. Reached' \in Nat /\ Reached' <= Reached
        BY <1>1, <1>2, <2>1, SearchFacts
    <2>3. TrailKeeps(Reached') /\ \A k \in 1 .. Reached' : NonEmpty(k) => NonEmpty(k)'
        BY <1>1, <1>11 DEF TrailKeeps
    <2> QED BY <1>1, <1>2, <1>11, <2>2, <2>3, AssumptionStep
<1>18. CoreInv'
    <2>1. NoNewDecision
        BY <1>1, <1>10, <1>11 DEF NoNewDecision
    <2> QED BY <1>1, <1>2, <2>1, CoreStep
<1>19. ControlInv' /\ CoherentInv'
    BY <1>1 DEF IInv, ControlInv, CoherentInv, counters
<1> QED BY <1>10, <1>12, <1>13, <1>14, <1>15, <1>16, <1>17, <1>18, <1>19 DEF IInv

(* The last position of the trail whose variable is still to be resolved.  *)
LEMMA LastPendingFacts ==
    ASSUME SearchInv, AnalysisInv, pc = "analyze"
    PROVE  /\ LastPending \in 1 .. Len(trail)
           /\ Variable(trail[LastPending]) \in analysis.pending
           /\ \A j \in 1 .. Len(trail) : j > LastPending => Variable(trail[j]) \notin analysis.pending
           /\ Level(trail[LastPending]) = currentDecisionLevel
<1> DEFINE S == {i \in 1 .. Len(trail) : Variable(trail[i]) \in analysis.pending}
<1>1. Len(trail) \in Nat /\ DOMAIN trail = 1 .. Len(trail)
    BY TrailTyping DEF SearchInv
<1>2. PICK v \in analysis.pending : \E x \in Lits(trail) : Variable(x) = v
    BY DEF AnalysisInv
<1>3. S # {}
    BY <1>2, TrailTyping DEF SearchInv
<1>4. S \in SUBSET (0 .. Len(trail))
    OBVIOUS
<1> HIDE DEF S
<1>5. PICK k \in S : \A j \in S : j <= k
    BY <1>1, <1>3, <1>4, GreatestOfNaturals
<1>6. k \in 1 .. Len(trail) /\ Variable(trail[k]) \in analysis.pending
    BY <1>5 DEF S
<1>7. \A j \in 1 .. Len(trail) : j > k => Variable(trail[j]) \notin analysis.pending
    <2> SUFFICES ASSUME NEW j \in 1 .. Len(trail), j > k, Variable(trail[j]) \in analysis.pending
                 PROVE  FALSE
        OBVIOUS
    <2>1. j \in S
        BY DEF S
    <2>2. j <= k /\ j \in Int /\ k \in Int
        BY <1>5, <1>6, <2>1
    <2> QED BY <2>2
<1>8. /\ LastPending \in 1 .. Len(trail)
      /\ Variable(trail[LastPending]) \in analysis.pending
      /\ \A j \in 1 .. Len(trail) : j > LastPending => Variable(trail[j]) \notin analysis.pending
    BY <1>1, <1>6, <1>7 DEF LastPending
<1>9. Level(trail[LastPending]) = currentDecisionLevel
    BY <1>8 DEF AnalysisInv, Level
<1> QED BY <1>8, <1>9

LEMMA ResolveStep ==
    ASSUME IInv, Resolve
    PROVE  IInv'
<1> DEFINE n == LastPending
           v == Variable(trail[n])
           C == reason[v] \ {v, -v}
           d == currentDecisionLevel
<1>1. /\ pc = "analyze" /\ Cardinality(analysis.pending) > 1
      /\ analysis' = [lits |-> analysis.lits \cup Lower(C),
                      pending |-> (analysis.pending \ {v}) \cup Pending(C)]
      /\ ShortenNavigated({reason[v]})
      /\ trail' = SubSeq(trail, 1, n - 1)
      /\ UNCHANGED <<instance, mode, pc, level, phase, unrollVector, nextVariable, visit, conflict,
                     assumptions, checked, found, core, counters>>
    BY DEF Resolve, caller
<1>2. /\ SearchInv /\ DatabaseInv /\ KeptInv /\ FoundInv /\ AssumptionInv /\ CoreInv /\ AnalysisInv
      /\ ToFind' = ToFind /\ visit = NoVisit /\ conflict = NoConflict
      /\ Guarded(Watches, trail, level, Base)
    BY <1>1, ModelsKept DEF IInv, PropagationInv
<1>3. /\ d > 0 /\ d \in Nat /\ d = Len(unrollVector) /\ Len(trail) \in Nat
      /\ \A u \in analysis.pending : level[u] = d /\ \E x \in Lits(trail) : Variable(x) = u
      /\ \A l \in analysis.lits : IsFalse(l) /\ Level(l) \in 1 .. d - 1
      /\ Entails(ToFind, Resolvent)
      /\ analysis.lits \subseteq Literal /\ analysis.pending \subseteq Var
    BY <1>1, <1>2, SearchFacts DEF AnalysisInv, currentDecisionLevel
<1>4. /\ n \in 1 .. Len(trail) /\ v \in analysis.pending
      /\ \A j \in 1 .. Len(trail) : j > n => Variable(trail[j]) \notin analysis.pending
      /\ Level(trail[n]) = d
    BY <1>1, <1>2, LastPendingFacts
<1> HIDE DEF n, d
<1>5. /\ trail[n] \in Literal /\ trail[n] \in Lits(trail) /\ v \in Var
      /\ v = trail[n] \/ v = -trail[n]
      /\ reason[v] \subseteq Literal
      /\ -(-trail[n]) = trail[n] /\ Variable(-trail[n]) = v
    <2>1. trail[n] \in Literal /\ trail[n] \in Lits(trail)
        BY <1>2, <1>4, TrailTyping DEF SearchInv
    <2>2. v \in Var /\ (v = trail[n] \/ v = -trail[n]) /\ -(-trail[n]) = trail[n] /\ Variable(-trail[n]) = v
        BY <2>1, LiteralFacts
    <2> QED BY <1>2, <2>1, <2>2 DEF SearchInv, Reasons
<1>6. PICK m \in 1 .. Len(trail) : m < n /\ Variable(trail[m]) \in analysis.pending /\ Variable(trail[m]) # v
    <2>1. IsFiniteSet(analysis.pending)
        BY <1>3, VarAssumption, FS_Subset
    <2>2. PICK a, b \in analysis.pending : a # b
        BY <1>1, <2>1, TwoOf
    <2>3. PICK u \in analysis.pending : u # v
        BY <2>2
    <2>4. PICK x \in Lits(trail) : Variable(x) = u
        BY <1>3
    <2>5. PICK m \in 1 .. Len(trail) : trail[m] = x
        BY <1>2, TrailTyping DEF SearchInv
    <2>6. m # n /\ ~(m > n)
        BY <1>4, <2>3, <2>4, <2>5
    <2> QED BY <1>3, <1>4, <2>3, <2>4, <2>5, <2>6
<1> HIDE DEF v
<1>7. /\ trail' \in Trails /\ Len(trail') = n - 1
      /\ unrollVector[d] \in Nat /\ unrollVector[d] < m
      /\ Lits(trail') \subseteq Lits(trail)
      /\ \A l \in Lits(trail) : Level(l) < d => l \in Lits(trail')
      /\ OrderedTrail(trail', level, unrollVector)
      /\ \A rs, MS : Justified(trail, level, rs, unrollVector, MS) => Justified(trail', level, rs, unrollVector, MS)
      /\ \A D : Guarded(D, trail, level, unrollVector[d]) => Guarded(D, trail', level, unrollVector[d])
    <2>1. CutBefore(trail, level, unrollVector, m, n, trail')
        BY <1>1, <1>3, <1>4, <1>6 DEF CutBefore, n, Level
    <2>2. /\ trail \in Trails /\ unrollVector \in Seq(Nat) /\ OrderedTrail(trail, level, unrollVector)
          /\ m \in 1 .. Len(trail) /\ n \in 1 .. Len(trail)
          /\ CutBefore(trail, level, unrollVector, m, n, trail')
        BY <1>2, <1>4, <2>1 DEF SearchInv
    <2>3. OrderedTrail(trail', level, unrollVector)
        BY ONLY <2>2, CutAt
    <2>4. \A rs, MS : Justified(trail, level, rs, unrollVector, MS) => Justified(trail', level, rs, unrollVector, MS)
        BY ONLY <2>2, CutAt
    <2>5. \A D : Guarded(D, trail, level, unrollVector[Len(unrollVector)])
                    => Guarded(D, trail', level, unrollVector[Len(unrollVector)])
        BY ONLY <2>2, CutAt
    <2>6. \A l \in Lits(trail) : level[Variable(l)] < Len(unrollVector) => l \in Lits(trail')
        BY ONLY <2>2, CutAt
    <2>7. /\ trail' \in Trails /\ Len(trail') = n - 1
          /\ unrollVector[Len(unrollVector)] \in Nat /\ unrollVector[Len(unrollVector)] < m
          /\ Lits(trail') \subseteq Lits(trail)
        BY ONLY <2>2, CutAt
    <2> QED BY <1>3, <2>3, <2>4, <2>5, <2>6, <2>7 DEF Level
<1>8. \A i \in 1 .. n - 1 : trail[i] \in Lits(trail') /\ i \in 1 .. Len(trail) /\ Variable(trail[i]) # v
    <2> TAKE i \in 1 .. n - 1
    <2>1. n - 1 \in 0 .. Len(trail) /\ i \in 1 .. Len(trail) /\ i # n
        BY <1>3, <1>4
    <2>2. trail[i] \in Lits(trail')
        BY <1>1, <1>2, <2>1, LitsOfPrefix DEF SearchInv, n
    <2>3. Variable(trail[i]) # v
        BY <1>2, <1>4, <2>1 DEF SearchInv, OrderedTrail, v
    <2> QED BY <2>1, <2>2, <2>3
<1>9. /\ reason[v] # {} /\ trail[n] \in reason[v] /\ Entails(ToFind, reason[v])
      /\ \A l \in reason[v] \ {trail[n]} : \E j \in 1 .. n - 1 : trail[j] = -l
    <2>1. reason[v] # {}
        <3>1. reason[v] = {} => n = unrollVector[d] + 1
            BY <1>2, <1>3, <1>4 DEF SearchInv, Justified, v, Level
        <3> QED BY <1>3, <1>4, <1>6, <1>7, <3>1
    <2> QED BY <1>2, <1>4, <2>1 DEF SearchInv, Justified, v
<1>10. /\ C \in SUBSET Literal
       /\ \A l \in C : IsFalse(l) /\ -l \in Lits(trail') /\ Variable(l) # v
       /\ reason[v] \subseteq C \cup {trail[n]}
    <2> HIDE DEF C
    <2>1. ASSUME NEW l \in reason[v] \ {trail[n]}
          PROVE  IsFalse(l) /\ -l \in Lits(trail') /\ Variable(l) # v /\ l # -trail[n]
        <3>1. PICK j \in 1 .. n - 1 : trail[j] = -l
            BY <1>9
        <3>2. l \in Literal
            BY <1>5
        <3> QED BY <1>5, <1>7, <1>8, <3>1, <3>2, LiteralFacts DEF IsFalse
    <2>2. \A l : l \in C <=> l \in reason[v] /\ l # trail[n] /\ l # -trail[n]
        BY <1>5 DEF C
    <2>3. C \in SUBSET Literal
        BY <1>5, <2>2
    <2>4. \A l \in C : IsFalse(l) /\ -l \in Lits(trail') /\ Variable(l) # v
        BY <2>1, <2>2
    <2>5. reason[v] \subseteq C \cup {trail[n]}
        BY <2>1, <2>2
    <2> QED BY <2>3, <2>4, <2>5
<1>11. \A x \in reason[v] : Level(x) = 0 => IsFalse(x)
    BY <1>3, <1>4, <1>10
<1> HIDE DEF C
<1>12. /\ Justified(trail, level, reason', unrollVector, ToFind) /\ reason' \in Reasons
       /\ \A x \in Lits(trail) : reason'[Variable(x)] = {} => reason[Variable(x)] = {}
       /\ DatabaseInv' /\ Watches' = Watches
       /\ \A D \in binary \cup {Literals(c) : c \in clauses} :
             \E E \in binary' \cup {Literals(c) : c \in clauses'} : E \subseteq D
    <2> DEFINE N == {reason[v]}
    <2>1. ShortenNavigated(N) /\ \A X \in N : \A x \in X : Level(x) = 0 => IsFalse(x)
        BY <1>1, <1>11 DEF v, n
    <2> HIDE DEF N
    <2> QED BY <1>2, <2>1, ShortenStep
<1>13. SearchInv'
    BY <1>1, <1>2, <1>7, <1>12 DEF SearchInv
<1>14. d' = d /\ Base' = Base /\ Base = unrollVector[d] /\ \A l : Level(l)' = Level(l)
    BY <1>1, <1>3 DEF d, currentDecisionLevel, Base, Level
<1>15. TrailKeeps(0) /\ TrailKeeps(d - 1)
    <2> SUFFICES ASSUME NEW l \in Lits(trail), Level(l) <= 0 \/ Level(l) <= d - 1
                 PROVE  l \in Lits(trail') /\ Level(l)' = Level(l)
        BY DEF TrailKeeps
    <2>1. Level(l) < d
        BY <1>2, <1>3, SearchFacts
    <2> QED BY <1>7, <1>14, <2>1
<1>16. KeptInv' /\ FoundInv'
    BY <1>1, <1>2, <1>12, <1>15, ShortenKept, FoundUnchanged
<1>17. PropagationInv'
    BY <1>1, <1>2, <1>7, <1>12, <1>14 DEF IInv, PropagationInv
<1>18. AnalysisInv'
    <2>1. /\ Lower(C) \subseteq C /\ \A l \in Lower(C) : Level(l) \in 1 .. d - 1
          /\ Pending(C) \subseteq Var
          /\ \A w \in Pending(C) :
                 level[w] = d /\ \E l \in C : Variable(l) = w /\ Variable(-l) = w
          /\ \A l \in C : l \in Lower(C) \/ Variable(l) \in Pending(C) \/ Level(l) = 0
        BY <1>2, <1>3, <1>10, NavigatedFacts DEF d
    <2>2. analysis'.lits = analysis.lits \cup Lower(C) /\ analysis'.pending = (analysis.pending \ {v}) \cup Pending(C)
        BY <1>1 DEF C, v, n
    <2>3. analysis' \in [lits : SUBSET Literal, pending : SUBSET Var]
        BY <1>1, <1>3, <1>10, <2>1 DEF C, v, n
    <2>4. ASSUME NEW w \in analysis'.pending
          PROVE  level'[w] = d /\ \E x \in Lits(trail') : Variable(x) = w
        <3>1. CASE w \in Pending(C)
            BY <1>1, <1>10, <2>1, <3>1
        <3>2. CASE w \in analysis.pending /\ w # v
            <4>1. PICK x \in Lits(trail) : Variable(x) = w
                BY <1>3, <3>2
            <4>2. PICK i \in 1 .. Len(trail) : trail[i] = x
                BY <1>2, <4>1, TrailTyping DEF SearchInv
            <4>3. ~(i > n) /\ i # n
                BY <1>4, <3>2, <4>1, <4>2 DEF v
            <4>4. i \in 1 .. n - 1
                BY <1>3, <1>4, <4>3
            <4> QED BY <1>1, <1>3, <1>8, <3>2, <4>1, <4>2, <4>4
        <3> QED BY <2>2, <3>1, <3>2
    <2>5. \A l \in analysis'.lits : IsFalse(l)' /\ Level(l)' \in 1 .. d - 1
        <3> TAKE l \in analysis'.lits
        <3>1. CASE l \in Lower(C)
            BY <1>10, <1>14, <2>1, <3>1 DEF IsFalse
        <3>2. CASE l \in analysis.lits
            <4>1. -l \in Lits(trail) /\ Level(-l) = Level(l) /\ Level(l) \in 1 .. d - 1
                BY <1>2, <1>3, <3>2, SearchFacts DEF IsFalse
            <4>2. Level(-l) < d
                BY <1>3, <4>1
            <4> QED BY <1>7, <1>14, <4>1, <4>2 DEF IsFalse
        <3> QED BY <2>2, <3>1, <3>2
    <2>6. analysis'.pending # {}
        BY <1>6, <2>2
    <2>7. Entails(ToFind', Resolvent')
        <3> SUFFICES ASSUME NEW M \in ToFind
                     PROVE  \E x \in Resolvent' : Holds(M, x)
            BY <1>2 DEF Entails, Sat
        <3>1. /\ \A x \in analysis'.lits : x \in Resolvent'
              /\ \A y \in Lits(trail') : Variable(y) \in analysis'.pending => -y \in Resolvent'
            BY DEF Resolvent
        <3>2. PICK x \in Resolvent : Holds(M, x)
            BY <1>3 DEF Entails, Sat
        <3>3. CASE x \in analysis.lits
            BY <2>2, <3>1, <3>2, <3>3
        <3>4. CASE \E y \in Lits(trail) : Variable(y) \in analysis.pending /\ x = -y
            <4>1. PICK y \in Lits(trail) : Variable(y) \in analysis.pending /\ x = -y
                BY <3>4
            <4>2. PICK i \in 1 .. Len(trail) : trail[i] = y
                BY <1>2, <4>1, TrailTyping DEF SearchInv
            <4>3. ~(i > n)
                BY <1>4, <4>1, <4>2
            <4>4. CASE i # n
                <5>1. i \in 1 .. n - 1
                    BY <1>3, <1>4, <4>3, <4>4
                <5>2. y \in Lits(trail') /\ Variable(y) \in analysis'.pending
                    BY <1>8, <2>2, <4>1, <4>2, <5>1
                <5> QED BY <3>1, <3>2, <4>1, <5>2
            <4>5. CASE i = n
                <5>1. ~Holds(M, trail[n])
                    BY <1>5, <3>2, <4>1, <4>2, <4>5, HoldsOpposite
                <5>2. PICK z \in reason[v] : Holds(M, z)
                    BY <1>9 DEF Entails, Sat
                <5>3. z \in C /\ z \in Literal /\ IsFalse(z) /\ -z \in Lits(trail') /\ Variable(z) # v
                    BY <1>10, <5>1, <5>2
                <5>4. Level(z) # 0
                    BY <1>2, <5>2, <5>3, LevelZero
                <5>5. CASE z \in Lower(C)
                    BY <2>2, <3>1, <5>2, <5>5
                <5>6. CASE Variable(z) \in Pending(C)
                    <6>1. Variable(-z) = Variable(z) /\ -(-z) = z
                        BY <5>3, LiteralFacts
                    <6> QED BY <2>2, <3>1, <5>2, <5>3, <5>6, <6>1
                <5> QED BY <2>1, <5>3, <5>4, <5>5, <5>6
            <4> QED BY <4>4, <4>5
        <3> QED BY <3>3, <3>4 DEF Resolvent
    <2> QED BY <1>3, <1>14, <2>3, <2>4, <2>5, <2>6, <2>7 DEF AnalysisInv, d
<1>19. AssumptionInv'
    <2>1. Reached' = d - 1 /\ Reached = d - 1 /\ d - 1 \in Nat /\ Reached' <= Reached
        BY <1>1, <1>3, <1>14 DEF Reached, d
    <2>2. \A k \in 1 .. d - 1 : NonEmpty(k) => NonEmpty(k)'
        BY <1>1, <1>3, <1>14 DEF NonEmpty, d
    <2> QED BY <1>1, <1>2, <1>15, <2>1, <2>2, AssumptionStep
<1>20. CoreInv'
    <2>1. NoNewDecision
        BY <1>7, <1>12, <1>14 DEF NoNewDecision
    <2> QED BY <1>1, <1>2, <2>1, CoreStep
<1>21. ControlInv' /\ CoherentInv'
    BY <1>1 DEF IInv, ControlInv, CoherentInv, counters
<1> QED BY <1>12, <1>13, <1>16, <1>17, <1>18, <1>19, <1>20, <1>21 DEF IInv

-----------------------------------------------------------------------------
(* Backjumps with an assignment, and clauses that are added.               *)
LEMMA Jumping ==
    ASSUME SearchInv, NEW k \in 0 .. currentDecisionLevel, NEW l \in Literal, NEW C \in SUBSET Literal,
           UnrollAndAssign(k, l, C), ToFind' = ToFind,
           IsUndefined(l) \/ k < Level(l),
           C # {} => /\ l \in C /\ Entails(ToFind, C)
                     /\ \A x \in C \ {l} : IsFalse(x) /\ Level(x) <= k,
           C = {} => k = 0 /\ \A M \in ToFind : Holds(M, l)
    PROVE  /\ SearchInv' /\ conflict' = NoConflict /\ currentDecisionLevel' = k
           /\ TrailKeeps(k) /\ TrailKeeps(0) /\ NoNewDecision
           /\ \A i \in 1 .. k : NonEmpty(i) => NonEmpty(i)'
           /\ Base' \in Nat /\ Base' <= nextVariable' /\ nextVariable' \in Nat
           /\ nextVariable' = Len(UnrolledTo(k)) /\ nextVariable' <= Len(trail')
           /\ \A D : \A p \in Nat : Guarded(D, trail, level, p) /\ nextVariable' <= p
                  => Guarded(D, trail', level', nextVariable')
           /\ \A x \in Literal : IsFalse(x) /\ Level(x) = k => Guarded({{l, x}}, trail', level', nextVariable')
<1>1. /\ SearchInv' /\ conflict' = NoConflict
      /\ Len(trail') = Len(UnrolledTo(k)) + 1 /\ nextVariable' = Len(UnrolledTo(k))
      /\ Lits(trail') = {x \in Lits(trail) : Level(x) <= k} \cup {l}
      /\ \A i \in 1 .. Len(UnrolledTo(k)) : trail'[i] = trail[i]
      /\ Level(l)' = k /\ reason'[Variable(l)] = C
      /\ \A x \in Lits(trail) : Level(x) <= k =>
            Level(x)' = Level(x) /\ reason'[Variable(x)] = reason[Variable(x)]
      /\ currentDecisionLevel' = k
      /\ \A i \in 1 .. k : unrollVector'[i] = unrollVector[i]
      /\ \A D : \A p \in Nat : Guarded(D, trail, level, p) /\ nextVariable' <= p
                  => Guarded(D, trail', level', nextVariable')
    BY UnrollAndAssignState
<1>2. Len(UnrolledTo(k)) \in Nat
    BY UnrollPrefix
<1>3. k \in Nat /\ \A x \in Lits(trail) : Level(x) \in Nat
    BY SearchFacts
<1>4. TrailKeeps(k) /\ TrailKeeps(0)
    <2>1. \A x \in Lits(trail) : Level(x) <= k => x \in Lits(trail') /\ Level(x)' = Level(x)
        BY <1>1
    <2>2. \A x \in Lits(trail) : Level(x) <= 0 => Level(x) <= k
        BY <1>3
    <2> QED BY <2>1, <2>2 DEF TrailKeeps
<1>5. NoNewDecision
    <2> SUFFICES ASSUME NEW x \in Lits(trail'), reason'[Variable(x)] = {}
                 PROVE  Level(x)' = 0 \/ (x \in Lits(trail) /\ reason[Variable(x)] = {} /\ Level(x)' = Level(x))
        BY DEF NoNewDecision
    <2>1. CASE x = l
        BY <1>1, <2>1
    <2>2. CASE x \in Lits(trail) /\ Level(x) <= k
        BY <1>1, <2>2
    <2> QED BY <1>1, <2>1, <2>2
<1>6. /\ Base' \in Nat /\ Base' <= Len(UnrolledTo(k))
      /\ \A i \in 1 .. k : NonEmpty(i) => NonEmpty(i)'
    <2>1. Len(trail') \in Nat /\ Len(UnrolledTo(k)) <= Len(trail')
        BY <1>1, <1>2
    <2> QED BY <1>1, <2>1, UnrollBase
<1>7. ASSUME NEW x \in Literal, IsFalse(x), Level(x) = k
      PROVE  Guarded({{l, x}}, trail', level', nextVariable')
    <2> SUFFICES ASSUME NEW i \in 1 .. nextVariable', -trail'[i] \in {l, x}
                 PROVE  l \in Lits(trail') /\ level'[Variable(l)] <= level'[Variable(trail'[i])]
        BY DEF Guarded
    <2>1. l \in Lits(trail') /\ level'[Variable(l)] = k
        BY <1>1 DEF Level
    <2>2. i \in 1 .. Len(trail') /\ trail' \in Trails
        BY <1>1, <1>2 DEF SearchInv
    <2>3. trail'[i] \in Literal /\ trail'[i] \in Lits(trail')
        BY <2>2, TrailTyping
    <2>4. -trail'[i] # l
        BY <1>1, <2>1, <2>2, <2>3, NotBoth, LiteralFacts DEF SearchInv
    <2>5. trail'[i] = -x /\ Variable(trail'[i]) = Variable(x) /\ -x \in Lits(trail)
        <3>1. -trail'[i] = x
            BY <2>4
        <3> QED BY <1>7, <2>3, <3>1, LiteralFacts DEF IsFalse
    <2>6. level'[Variable(trail'[i])] = k
        <3>1. Level(-x) = k /\ k \in Nat
            BY <1>3, <1>7, SearchFacts
        <3>2. Level(-x)' = Level(-x)
            BY <1>1, <2>5, <3>1
        <3> QED BY <2>5, <3>1, <3>2 DEF Level
    <2> QED BY <1>3, <2>1, <2>6
<1>8. /\ Base' \in Nat /\ Base' <= nextVariable' /\ nextVariable' \in Nat
      /\ nextVariable' <= Len(trail')
    BY ONLY <1>1, <1>2, <1>6
<1>9. \A D : \A p \in Nat : Guarded(D, trail, level, p) /\ nextVariable' <= p
                  => Guarded(D, trail', level', nextVariable')
    BY ONLY <1>1
<1>10. \A x \in Literal : IsFalse(x) /\ Level(x) = k => Guarded({{l, x}}, trail', level', nextVariable')
    BY ONLY <1>7
<1> QED BY ONLY <1>1, <1>4, <1>5, <1>6, <1>8, <1>9, <1>10
(* A clause watched at two of its literals.                                *)
LEMMA WatchFacts ==
    ASSUME NEW C \in SUBSET Literal, NEW a \in C, NEW b \in C, a # b
    PROVE  /\ Watch({a, b}, C) \in WatchedClause /\ Literals(Watch({a, b}, C)) = C
           /\ Watch({a, b}, C).watch = {a, b}
           /\ Watch({a, b}, C).watch \cap Watch({a, b}, C).rest = {}
    BY DEF Watch, WatchedClause, Literals

(* The first UIP and the clause learned: the literals that are left out by *)
(* either minimisation are false wherever all the others are.              *)
Learned == MinimisationWithBinaryResolution(-trail[LastPending], SimplifyLearnedClause)
(* Learning::allMarked is right: such literals follow from the others.     *)
LEMMA RedundantImplied ==
    ASSUME SearchInv, analysis.lits \subseteq Literal, \A l \in analysis.lits : IsFalse(l),
           NEW M \in ToFind, \A l \in analysis.lits : ~Redundant(l) => ~Holds(M, l)
    PROVE  \A l \in analysis.lits : ~Holds(M, l)
<1> DEFINE Closed(S) == /\ S \subseteq {v \in Variables(Lits(trail)) : level[v] > 0 /\ reason[v] # {}}
                        /\ \A v \in S : Variables(reason[v]) \ {v} \subseteq S \cup Variables(analysis.lits)
           I == {i \in 1 .. Len(trail) : \/ \E S : Closed(S) /\ Variable(trail[i]) \in S
                                         \/ Variable(trail[i]) \in Variables(analysis.lits)}
<1>1. /\ trail \in Trails /\ reason \in Reasons /\ OrderedTrail(trail, level, unrollVector)
      /\ Justified(trail, level, reason, unrollVector, ToFind)
    BY DEF SearchInv
<1>2. ASSUME NEW i \in I
      PROVE  \/ Holds(M, trail[i])
             \/ /\ reason[Variable(trail[i])] # {}
                /\ \A j \in 1 .. i - 1 : -trail[j] \in reason[Variable(trail[i])] => j \in I \/ Holds(M, trail[j])
    <2>0. i \in 1 .. Len(trail) /\ trail[i] \in Literal /\ trail[i] \in Lits(trail) /\ Len(trail) \in Nat
        BY <1>1, TrailTyping
    <2>1. CASE \E S : Closed(S) /\ Variable(trail[i]) \in S
        <3>1. PICK S : Closed(S) /\ Variable(trail[i]) \in S
            BY <2>1
        <3>2. reason[Variable(trail[i])] # {}
            BY <3>1
        <3>3. ASSUME NEW j \in 1 .. i - 1, -trail[j] \in reason[Variable(trail[i])]
              PROVE  j \in I
            <4>1. j \in 1 .. Len(trail) /\ j # i
                BY <2>0
            <4>2. trail[j] \in Literal
                BY <1>1, <4>1, TrailTyping
            <4>3. Variable(trail[j]) # Variable(trail[i])
                BY <1>1, <2>0, <4>1 DEF OrderedTrail
            <4>4. Variable(-trail[j]) = Variable(trail[j])
                BY <4>2, LiteralFacts
            <4>5. Variable(trail[j]) \in Variables(reason[Variable(trail[i])]) \ {Variable(trail[i])}
                BY <3>3, <4>3, <4>4 DEF Variables
            <4>6. Variable(trail[j]) \in S \/ Variable(trail[j]) \in Variables(analysis.lits)
                BY <3>1, <4>5
            <4> QED BY <3>1, <4>1, <4>6
        <3> QED BY <3>2, <3>3
    <2>2. CASE /\ ~\E S : Closed(S) /\ Variable(trail[i]) \in S
               /\ Variable(trail[i]) \in Variables(analysis.lits)
        <3>1. PICK l \in analysis.lits : Variable(l) = Variable(trail[i])
            BY <2>2 DEF Variables
        <3>2. ~Redundant(l)
            BY <2>2, <3>1 DEF Redundant
        <3>3. l \in Literal /\ -l \in Lits(trail)
            BY <3>1 DEF IsFalse
        <3>4. trail[i] = -l
            <4>1. trail[i] = l \/ trail[i] = -l
                BY <2>0, <3>1, <3>3, SameVariable, LiteralFacts
            <4> QED BY <1>1, <2>0, <3>3, <4>1, NotBoth
        <3>5. ~Holds(M, l)
            BY <3>1, <3>2
        <3> QED BY <3>3, <3>4, <3>5, HoldsOpposite
    <2> QED BY <2>1, <2>2
<1>3. \A i \in I : Holds(M, trail[i])
    <2>1. I \in SUBSET (1 .. Len(trail))
        OBVIOUS
    <2> HIDE DEF I
    <2> QED BY <1>1, <1>2, <2>1, TrailFollows
<1> TAKE l \in analysis.lits
<1>4. l \in Literal /\ -l \in Lits(trail) /\ Variable(-l) = Variable(l)
    BY LiteralFacts DEF IsFalse
<1>5. PICK i \in 1 .. Len(trail) : trail[i] = -l
    BY <1>1, <1>4, TrailTyping
<1>6. i \in I
    BY <1>4, <1>5 DEF Variables
<1>7. Holds(M, -l)
    BY <1>3, <1>5, <1>6
<1> QED BY <1>4, <1>7, HoldsOpposite

(* The clause learned is false, and every model satisfies it.              *)
LEMMA LearnedFacts ==
    ASSUME SearchInv, DatabaseInv, AnalysisInv, pc = "analyze", Cardinality(analysis.pending) = 1
    PROVE  /\ -trail[LastPending] \in Literal /\ IsFalse(-trail[LastPending])
           /\ Level(-trail[LastPending]) = currentDecisionLevel
           /\ Learned \subseteq analysis.lits
           /\ Entails(ToFind, {-trail[LastPending]} \cup Learned)
<1> DEFINE n == LastPending
           uip == -trail[n]
<1>1. /\ n \in 1 .. Len(trail) /\ Variable(trail[n]) \in analysis.pending
      /\ Level(trail[n]) = currentDecisionLevel
    BY LastPendingFacts
<1> HIDE DEF n
<1>2. trail \in Trails /\ trail[n] \in Literal /\ trail[n] \in Lits(trail)
    BY <1>1, TrailTyping DEF SearchInv
<1>3. /\ uip \in Literal /\ IsFalse(uip) /\ Level(uip) = currentDecisionLevel /\ -uip = trail[n]
      /\ Variable(uip) = Variable(trail[n])
    <2>1. uip \in Literal /\ -uip = trail[n] /\ Variable(uip) = Variable(trail[n])
        BY <1>2, LiteralFacts
    <2> QED BY <1>1, <1>2, <2>1, SearchFacts DEF IsFalse
<1> HIDE DEF uip
<1>4. analysis.lits \subseteq Literal /\ \A l \in analysis.lits : IsFalse(l)
    BY DEF AnalysisInv
<1>5. SimplifyLearnedClause \subseteq analysis.lits
    BY DEF SimplifyLearnedClause
<1>6. Learned \subseteq SimplifyLearnedClause
    BY DEF Learned, MinimisationWithBinaryResolution
<1>7. ASSUME NEW M \in ToFind, ~Holds(M, uip), \A l \in Learned : ~Holds(M, l)
      PROVE  FALSE
    <2>1. \A l \in SimplifyLearnedClause : ~Holds(M, l)
        <3> TAKE l \in SimplifyLearnedClause
        <3>1. CASE {uip, -l} \in binary
            <4>1. Entails(ToFind, {uip, -l})
                BY <3>1 DEF DatabaseInv, Database
            <4>2. Holds(M, -l)
                BY <1>7, <4>1 DEF Entails, Sat
            <4> QED BY <1>4, <1>5, <4>2, HoldsOpposite
        <3>2. CASE {uip, -l} \notin binary
            <4>1. l \in Learned
                BY <3>2 DEF Learned, MinimisationWithBinaryResolution, uip, n
            <4> QED BY <1>7, <4>1
        <3> QED BY <3>1, <3>2
    <2>2. \A l \in analysis.lits : ~Redundant(l) => ~Holds(M, l)
        BY <2>1 DEF SimplifyLearnedClause
    <2>3. \A l \in analysis.lits : ~Holds(M, l)
        <3>1. CASE Cardinality(analysis.lits) > 1
            BY <1>4, <2>2, RedundantImplied
        <3>2. CASE ~(Cardinality(analysis.lits) > 1)
            BY <2>1, <3>2 DEF SimplifyLearnedClause
        <3> QED BY <3>1, <3>2
    <2>4. PICK x \in Resolvent : Holds(M, x)
        BY DEF AnalysisInv, Entails, Sat
    <2>5. PICK y \in Lits(trail) : Variable(y) \in analysis.pending /\ x = -y
        BY <2>3, <2>4 DEF Resolvent
    <2>6. PICK i \in 1 .. Len(trail) : trail[i] = y
        BY <1>2, <2>5, TrailTyping
    <2>7. analysis.pending \subseteq Var /\ IsFiniteSet(analysis.pending)
        BY VarAssumption, FS_Subset DEF AnalysisInv
    <2>8. PICK a : analysis.pending = {a}
        BY <2>7, OneElement
    <2>9. Variable(trail[i]) = Variable(trail[n])
        BY <1>1, <2>5, <2>6, <2>8
    <2>10. i = n
        BY <1>1, <2>6, <2>9 DEF SearchInv, OrderedTrail
    <2> QED BY <1>7, <2>4, <2>5, <2>6, <2>10 DEF uip
<1> QED BY <1>3, <1>5, <1>6, <1>7 DEF Entails, Sat, uip, n

(* Clauses join the database: a binary one, or one watched at two of its   *)
(* literals.                                                               *)
LEMMA ClauseAdded ==
    ASSUME DatabaseInv, NEW C \in SUBSET Literal, NEW a \in C, NEW b \in C, a # b, Entails(ToFind, C),
           \/ C = {a, b} /\ binary' = binary \cup {C} /\ UNCHANGED <<clauses, learned>>
           \/ learned' = learned \cup {Watch({a, b}, C)} /\ UNCHANGED <<binary, clauses>>,
           ToFind' = ToFind
    PROVE  /\ DatabaseInv' /\ Watches' = Watches \cup {{a, b}}
           /\ binary \subseteq binary' /\ clauses' = clauses
<1>1. CASE C = {a, b} /\ binary' = binary \cup {C} /\ UNCHANGED <<clauses, learned>>
    <2>1. Watches' = Watches \cup {{a, b}}
        BY <1>1 DEF Watches
    <2>2. DatabaseInv'
        BY <1>1 DEF DatabaseInv, Database
    <2> QED BY <1>1, <2>1, <2>2
<1>2. CASE learned' = learned \cup {Watch({a, b}, C)} /\ UNCHANGED <<binary, clauses>>
    <2> DEFINE c == Watch({a, b}, C)
    <2>1. c \in WatchedClause /\ Literals(c) = C /\ c.watch = {a, b} /\ c.watch \cap c.rest = {}
        BY WatchFacts
    <2> HIDE DEF c
    <2>2. learned' = learned \cup {c} /\ UNCHANGED <<binary, clauses>>
        BY <1>2 DEF c
    <2>3. Watches' = Watches \cup {{a, b}}
        <3> DEFINE P == {a, b}
        <3>1. c.watch = P
            BY <2>1
        <3> HIDE DEF P
        <3>2. \A W : W \in Watches' <=> W \in Watches \cup {P}
            BY ONLY <2>2, <3>1 DEF Watches
        <3> QED BY <3>2 DEF P
    <2>4. DatabaseInv'
        <3>1. Database' = Database \cup {C}
            BY <2>1, <2>2 DEF Database
        <3>2. \A D \in Database' : Entails(ToFind', D)
            BY <3>1 DEF DatabaseInv
        <3>3. \A d \in clauses' \cup learned' :
                  /\ d \in WatchedClause
                  /\ \E x, y \in Literal : x # y /\ d.watch = {x, y}
                  /\ d.watch \cap d.rest = {}
            <4> TAKE d \in clauses' \cup learned'
            <4>1. CASE d \in clauses \cup learned
                BY <4>1 DEF DatabaseInv
            <4>2. CASE d = c
                BY <2>1, <4>2
            <4> QED BY <2>2, <4>1, <4>2
        <3> QED BY <2>2, <3>2, <3>3 DEF DatabaseInv
    <2> QED BY <2>2, <2>3, <2>4
<1> QED BY <1>1, <1>2

(* What a backjump with an assignment leaves to be shown is the database.  *)
LEMMA JumpedPropagation ==
    ASSUME NEW D, Watches' \subseteq D, Guarded(D, trail', level', nextVariable'),
           visit' = NoVisit, conflict' = NoConflict, pc' \in {"propagate", "unit"},
           Base' \in Nat, nextVariable' \in Nat, Base' <= nextVariable', nextVariable' <= Len(trail')
    PROVE  PropagationInv'
<1>1. Guarded(Watches', trail', level', nextVariable') /\ Guarded(Watches', trail', level', Base')
    <2>1. nextVariable' <= nextVariable'
        OBVIOUS
    <2> QED BY <2>1, FewerGuarded
<1>2. NoVisit \in [lit : Literal \cup {0}, binary : SUBSET Literal, watched : SUBSET WatchedClause]
    BY DEF NoVisit
<1>3. NoConflict \in [lit : Literal \cup {0}, clause : SUBSET Literal]
    BY DEF NoConflict
<1>4. VisitInv'
    BY <1>1 DEF VisitInv, NoVisit
<1> QED BY <1>1, <1>2, <1>3, <1>4 DEF PropagationInv

LEMMA LearnClauseStep ==
    ASSUME IInv, LearnClause
    PROVE  IInv'
<1> DEFINE uip == -trail[LastPending]
           others == Learned
           d == currentDecisionLevel
<1>1. /\ pc = "analyze" /\ Cardinality(analysis.pending) = 1
      /\ analysis' = NoAnalysis
      /\ UNCHANGED <<instance, mode, visit, assumptions, checked, found, core, restarts, deletions>>
      /\ \/ /\ others = {}
            /\ UnrollAndAssign(0, uip, {})
            /\ pc' = "unit"
            /\ UNCHANGED database
         \/ \E second \in others :
              /\ IF Cardinality({uip} \cup others) = 2
                 THEN binary' = binary \cup {{uip} \cup others} /\ UNCHANGED learned
                 ELSE learned' = learned \cup {Watch({uip, second}, {uip} \cup others)} /\ UNCHANGED binary
              /\ \A l \in others : Level(l) <= Level(second)
              /\ UnrollAndAssign(Level(second), uip, {uip} \cup others)
              /\ pc' = "propagate"
              /\ UNCHANGED clauses
    BY DEF LearnClause, caller, counters, Learned
<1>2. /\ SearchInv /\ DatabaseInv /\ KeptInv /\ FoundInv /\ AssumptionInv /\ CoreInv /\ AnalysisInv
      /\ ToFind' = ToFind /\ Models' = Models /\ visit = NoVisit
      /\ Guarded(Watches, trail, level, Base)
    BY <1>1, ModelsKept DEF IInv, PropagationInv
<1>3. d > 0 /\ d \in Nat /\ d = Len(unrollVector)
      /\ \A l \in analysis.lits : l \in Literal /\ IsFalse(l) /\ Level(l) \in 1 .. d - 1
    BY <1>1, <1>2, SearchFacts DEF AnalysisInv, currentDecisionLevel
<1>4. /\ uip \in Literal /\ IsFalse(uip) /\ Level(uip) = d
      /\ others \subseteq analysis.lits
      /\ Entails(ToFind, {uip} \cup others)
    BY <1>1, <1>2, LearnedFacts
<1>5. /\ Base \in Nat
      /\ \A k \in 0 .. d : k < d => Len(UnrolledTo(k)) \in Nat /\ Len(UnrolledTo(k)) <= Base
    BY <1>2, BaseFacts
<1> HIDE DEF uip, others, d
(* The parts that only need to know how far the jump went.                 *)
<1>6. ASSUME NEW k \in 0 .. d, k < d, SearchInv', TrailKeeps(k), TrailKeeps(0), NoNewDecision,
             currentDecisionLevel' = k, \A i \in 1 .. k : NonEmpty(i) => NonEmpty(i)',
             pc' \in {"propagate", "unit"}, pc' = "unit" => k = 0
      PROVE  ControlInv' /\ FoundInv' /\ AnalysisInv' /\ CoherentInv' /\ AssumptionInv' /\ CoreInv'
    <2>1. Reached' = k /\ Reached = d - 1 /\ k \in Nat /\ k <= d - 1
        BY <1>1, <1>3, <1>6 DEF Reached, d
    <2>2. AssumptionInv'
        BY <1>1, <1>2, <1>6, <2>1, AssumptionStep
    <2>3. k = 0 => unrollVector' = <<>>
        BY <1>6 DEF SearchInv, currentDecisionLevel
    <2>4. ControlInv'
        BY <1>1, <1>6, <2>3 DEF IInv, ControlInv
    <2>5. CoreInv'
        BY <1>1, <1>2, <1>6, CoreStep
    <2>6. FoundInv' /\ AnalysisInv' /\ CoherentInv'
        BY <1>1, <1>2, <1>6, FoundUnchanged, AnalysisUnchanged DEF CoherentInv
    <2> QED BY <2>2, <2>4, <2>5, <2>6
<1>7. CASE /\ others = {} /\ UnrollAndAssign(0, uip, {})
           /\ pc' = "unit" /\ UNCHANGED database
    <2>1. 0 \in 0 .. d /\ 0 < d /\ 0 < Level(uip) /\ {} \in SUBSET Literal
        BY <1>3, <1>4
    <2>2. \A M \in ToFind : Holds(M, uip)
        BY <1>4, <1>7 DEF Entails, Sat
    <2>3. /\ SearchInv' /\ conflict' = NoConflict /\ currentDecisionLevel' = 0
          /\ TrailKeeps(0) /\ NoNewDecision
          /\ \A i \in 1 .. 0 : NonEmpty(i) => NonEmpty(i)'
          /\ Base' \in Nat /\ Base' <= nextVariable' /\ nextVariable' \in Nat
          /\ nextVariable' = Len(UnrolledTo(0)) /\ nextVariable' <= Len(trail')
          /\ \A D : \A p \in Nat : Guarded(D, trail, level, p) /\ nextVariable' <= p
                  => Guarded(D, trail', level', nextVariable')
        BY <1>2, <1>4, <1>7, <2>1, <2>2, Jumping DEF d
    <2>4. ControlInv' /\ FoundInv' /\ AnalysisInv' /\ CoherentInv' /\ AssumptionInv' /\ CoreInv'
        BY <1>6, <1>7, <2>1, <2>3
    <2>5. DatabaseInv' /\ Watches' = Watches
        BY <1>2, <1>7, DatabaseUnchanged DEF Watches, database
    <2>6. KeptInv'
        BY <1>1, <1>2, <1>7, <2>3, KeptUnchanged DEF database
    <2>7. PropagationInv'
        <3>1. Guarded(Watches, trail', level', nextVariable')
            BY <1>2, <1>5, <2>1, <2>3
        <3> QED BY <1>1, <1>2, <1>7, <2>3, <2>5, <3>1, JumpedPropagation
    <2> QED BY <2>3, <2>4, <2>5, <2>6, <2>7 DEF IInv
<1>8. ASSUME NEW second \in others,
             IF Cardinality({uip} \cup others) = 2
             THEN binary' = binary \cup {{uip} \cup others} /\ UNCHANGED learned
             ELSE learned' = learned \cup {Watch({uip, second}, {uip} \cup others)} /\ UNCHANGED binary,
             \A l \in others : Level(l) <= Level(second),
             UnrollAndAssign(Level(second), uip, {uip} \cup others),
             pc' = "propagate", UNCHANGED clauses
      PROVE  IInv'
    <2> DEFINE k == Level(second)
               C == {uip} \cup others
    <2>1. /\ second \in Literal /\ IsFalse(second) /\ k \in 0 .. d /\ k < d /\ k < Level(uip)
          /\ second # uip
        BY <1>3, <1>4
    <2>2. C \in SUBSET Literal /\ uip \in C /\ second \in C
        BY <1>3, <1>4
    <2>3. \A x \in C \ {uip} : IsFalse(x) /\ Level(x) <= k
        BY <1>3, <1>4, <1>8
    <2>4. /\ DatabaseInv' /\ Watches' = Watches \cup {{uip, second}}
          /\ binary \subseteq binary' /\ clauses' = clauses
        <3>1. CASE Cardinality(C) = 2
            <4>1. C = {uip, second}
                BY <2>1, <2>2, <3>1, LiteralsFinite, TwoElements
            <4>2. binary' = binary \cup {C} /\ UNCHANGED <<clauses, learned>>
                BY <1>8, <3>1
            <4> HIDE DEF C, k
            <4> QED BY <1>2, <1>4, <2>1, <2>2, <4>1, <4>2, ClauseAdded DEF C
        <3>2. CASE Cardinality(C) # 2
            <4>1. learned' = learned \cup {Watch({uip, second}, C)} /\ UNCHANGED <<binary, clauses>>
                BY <1>8, <3>2
            <4>2. Entails(ToFind, C)
                BY <1>4
            <4> HIDE DEF C, k
            <4> QED BY <1>2, <2>1, <2>2, <4>1, <4>2, ClauseAdded
        <3> QED BY <3>1, <3>2
    <2>5. UnrollAndAssign(k, uip, C) /\ Entails(ToFind, C) /\ C # {}
        BY <1>4, <1>8
    <2> HIDE DEF C
    <2>6. /\ SearchInv' /\ conflict' = NoConflict /\ currentDecisionLevel' = k
          /\ TrailKeeps(k) /\ TrailKeeps(0) /\ NoNewDecision
          /\ \A i \in 1 .. k : NonEmpty(i) => NonEmpty(i)'
          /\ Base' \in Nat /\ Base' <= nextVariable' /\ nextVariable' \in Nat
          /\ nextVariable' = Len(UnrolledTo(k)) /\ nextVariable' <= Len(trail')
          /\ \A D : \A p \in Nat : Guarded(D, trail, level, p) /\ nextVariable' <= p
                  => Guarded(D, trail', level', nextVariable')
          /\ \A x \in Literal : IsFalse(x) /\ Level(x) = k => Guarded({{uip, x}}, trail', level', nextVariable')
        <3> HIDE DEF k
        <3> QED BY <1>2, <1>4, <2>1, <2>2, <2>3, <2>5, Jumping DEF d
    <2>7. ControlInv' /\ FoundInv' /\ AnalysisInv' /\ CoherentInv' /\ AssumptionInv' /\ CoreInv'
        <3> HIDE DEF k
        <3> QED BY <1>6, <1>8, <2>1, <2>6
    <2>8. KeptInv'
        <3>1. \A D \in Kept : \E E \in Kept' : E \subseteq D
            <4>1. Kept \subseteq Kept'
                <5>1. Zero \subseteq Zero'
                    BY <2>6 DEF Zero, TrailKeeps, Level
                <5> QED BY <2>4, <5>1 DEF Kept
            <4> QED BY <4>1
        <3> QED BY <1>1, <1>2, <1>8, <3>1, KeptStep
    <2>9. PropagationInv'
        <3>1. Guarded(Watches, trail', level', nextVariable')
            BY <1>2, <1>5, <2>1, <2>6
        <3>2. Guarded({{uip, second}}, trail', level', nextVariable')
            BY <2>1, <2>6
        <3>3. Guarded(Watches', trail', level', nextVariable')
            BY <2>4, <3>1, <3>2 DEF Guarded
        <3> QED BY <1>1, <1>2, <1>8, <2>6, <3>3, JumpedPropagation
    <2> QED BY <2>4, <2>6, <2>7, <2>8, <2>9 DEF IInv
<1> QED BY <1>1, <1>7, <1>8

-----------------------------------------------------------------------------
(* The post-propagators: the clause handed out and its two front literals. *)
HandsOut(L, C) == C = {l \in L : IsUndefined(l) \/ Level(l) > 0}
AtMostOneOpen(C) ==
    /\ \A l \in C : ~IsTrue(l) /\ (IsUndefined(l) \/ (IsFalse(l) /\ Level(l) > 0))
    /\ \A a, b \in C : IsUndefined(a) /\ IsUndefined(b) => a = b
(* What is handed out is a clause of all models with one open literal.     *)
LEMMA HandedOut ==
    ASSUME SearchInv, instance \in Instances, NEW L \in instance.loops, UnitOrFalse(L),
           NEW C, HandsOut(L, C)
    PROVE  C \in SUBSET Literal /\ Entails(ToFind, C) /\ AtMostOneOpen(C)
<1>1. L \in SUBSET Literal /\ C \subseteq L
    BY ProblemTyping DEF HandsOut
<1>2. \A l \in L : ~IsTrue(l) /\ (l \in C <=> IsUndefined(l) \/ Level(l) > 0)
    BY DEF UnitOrFalse, HandsOut
<1>3. Entails(ToFind, C)
    <2> SUFFICES ASSUME NEW M \in ToFind
                 PROVE  \E l \in C : Holds(M, l)
        BY DEF Entails, Sat
    <2>1. PICK l \in L : Holds(M, l)
        BY ModelsToFind DEF Sat
    <2>2. ASSUME l \notin C
          PROVE  FALSE
        <3>1. IsFalse(l) /\ Level(l) = 0
            BY <1>1, <1>2, <2>2, SearchFacts DEF IsUndefined
        <3> QED BY <1>1, <2>1, <3>1, LevelZero
    <2> QED BY <2>1, <2>2
<1>4. ASSUME NEW a \in C, NEW b \in C, IsUndefined(a), IsUndefined(b), a # b
      PROVE  FALSE
    <2>1. a \in Open(L) /\ b \in Open(L) /\ Open(L) \in SUBSET Literal
        BY <1>1, <1>4 DEF Open
    <2>2. Cardinality(Open(L)) >= 2 /\ Cardinality(Open(L)) \in Nat
        BY <1>4, <2>1, TwoElements, LiteralsFinite
    <2> QED BY <2>2 DEF UnitOrFalse
<1>5. \A l \in C : IsUndefined(l) \/ (IsFalse(l) /\ Level(l) > 0)
    BY <1>1, <1>2 DEF IsUndefined
<1> QED BY <1>1, <1>2, <1>3, <1>4, <1>5 DEF AtMostOneOpen

(* The second literal in front is false, at the highest level.             *)
LEMMA FrontFacts ==
    ASSUME SearchInv, NEW C \in SUBSET Literal, AtMostOneOpen(C),
           NEW first \in C, NEW second \in C, Front(C, first, second)
    PROVE  /\ first # second /\ IsFalse(second)
           /\ Level(second) \in 1 .. currentDecisionLevel
           /\ \A x \in C \ {first} : IsFalse(x) /\ Level(x) <= Level(second)
           /\ IsUndefined(first) \/ (IsFalse(first) /\ Level(second) <= Level(first))
<1> DEFINE d == currentDecisionLevel
<1>1. /\ d \in Nat /\ \A l \in Literal : Level(l) \in Nat
      /\ \A l \in Literal : IsFalse(l) => Level(l) \in 0 .. d
    BY SearchFacts
<1>2. \A l \in C : /\ IsUndefined(l) => Rank(l) = d + 1
                   /\ ~IsUndefined(l) => Rank(l) = Level(l) /\ IsFalse(l) /\ Level(l) \in 1 .. d
    BY <1>1 DEF Rank, AtMostOneOpen
<1>3. /\ first # second /\ Rank(second) <= Rank(first)
      /\ \A l \in C \ {first} : Rank(l) <= Rank(second)
    BY DEF Front
<1> HIDE DEF d
<1>4. ~IsUndefined(second)
    <2> SUFFICES ASSUME IsUndefined(second)
                 PROVE  FALSE
        OBVIOUS
    <2>1. Rank(first) >= d + 1
        BY <1>1, <1>2, <1>3
    <2>2. IsUndefined(first)
        BY <1>1, <1>2, <2>1
    <2> QED BY <1>3, <2>2 DEF AtMostOneOpen
<1>5. \A x \in C \ {first} : IsFalse(x) /\ Level(x) <= Level(second)
    <2> TAKE x \in C \ {first}
    <2>1. Rank(x) <= Level(second) /\ Level(second) \in 1 .. d
        BY <1>2, <1>3, <1>4
    <2>2. ~IsUndefined(x)
        BY <1>1, <1>2, <2>1
    <2> QED BY <1>2, <2>1, <2>2
<1>6. IsUndefined(first) \/ (IsFalse(first) /\ Level(second) <= Level(first))
    BY <1>2, <1>3, <1>4
<1> QED BY <1>2, <1>3, <1>4, <1>5, <1>6 DEF d

LEMMA PostPropagationStep ==
    ASSUME IInv, PostPropagation
    PROVE  IInv'
<1> DEFINE d == currentDecisionLevel
<1>1. PICK L \in instance.loops :
         /\ UnitOrFalse(L)
         /\ LET C == {l \in L : IsUndefined(l) \/ Level(l) > 0}
            IN  \/ /\ C = {}
                   /\ pc' = "incoherent"
                   /\ UNCHANGED <<search, conflict, learned>>
                \/ /\ Cardinality(C) = 1
                   /\ \E l \in C : UnrollAndAssign(0, l, {})
                   /\ UNCHANGED <<pc, learned>>
                \/ \E first \in C, second \in C :
                     /\ Front(C, first, second)
                     /\ learned' = learned \cup {Watch({first, second}, C)}
                     /\ UnrollAndAssign(Level(second), first, C)
                     /\ UNCHANGED pc
    BY DEF PostPropagation
<1>2. PICK C : HandsOut(L, C)
    BY DEF HandsOut
<1>3. /\ pc = "propagate" /\ conflict = NoConflict /\ visit = NoVisit /\ ~HasNextVariableToPropagate
      /\ UNCHANGED <<instance, mode, visit, binary, clauses, analysis, assumptions, checked, found, core,
                     restarts, deletions>>
    BY DEF PostPropagation, Idle, caller, counters
<1>4. \/ C = {} /\ pc' = "incoherent" /\ UNCHANGED <<search, conflict, learned>>
      \/ /\ Cardinality(C) = 1
         /\ \E l \in C : UnrollAndAssign(0, l, {})
         /\ UNCHANGED <<pc, learned>>
      \/ \E first \in C, second \in C :
           /\ Front(C, first, second)
           /\ learned' = learned \cup {Watch({first, second}, C)}
           /\ UnrollAndAssign(Level(second), first, C)
           /\ UNCHANGED pc
    BY <1>1, <1>2 DEF HandsOut
<1>5. /\ SearchInv /\ DatabaseInv /\ KeptInv /\ FoundInv /\ AssumptionInv /\ CoreInv /\ AnalysisInv
      /\ instance \in Instances
      /\ ToFind' = ToFind /\ Models' = Models
    BY <1>3, ModelsKept DEF IInv, ControlInv
<1>6. C \in SUBSET Literal /\ Entails(ToFind, C) /\ AtMostOneOpen(C)
    BY <1>1, <1>2, <1>5, HandedOut
<1>7. nextVariable = Len(trail) /\ Guarded(Watches, trail, level, Len(trail))
    BY <1>3, IdleFacts
<1>8. d \in Nat /\ Len(trail) \in Nat
    BY <1>5, SearchFacts
<1> HIDE DEF d
(* The parts that only need to know how far the jump went.                 *)
<1>9. ASSUME NEW k \in 0 .. d, SearchInv', TrailKeeps(k), TrailKeeps(0), NoNewDecision,
             currentDecisionLevel' = k, \A i \in 1 .. k : NonEmpty(i) => NonEmpty(i)',
             pc' = "propagate"
      PROVE  ControlInv' /\ FoundInv' /\ AnalysisInv' /\ CoherentInv' /\ AssumptionInv' /\ CoreInv'
    <2>1. Reached' = k /\ Reached = d /\ k \in Nat /\ k <= d
        BY <1>3, <1>8, <1>9 DEF Reached, d
    <2>2. AssumptionInv'
        BY <1>3, <1>5, <1>9, <2>1, AssumptionStep
    <2>3. ControlInv'
        BY <1>3, <1>9 DEF IInv, ControlInv
    <2>4. CoreInv'
        BY <1>3, <1>5, <1>9, CoreStep
    <2>5. FoundInv' /\ AnalysisInv' /\ CoherentInv'
        BY <1>3, <1>5, <1>9, FoundUnchanged, AnalysisUnchanged DEF CoherentInv
    <2> QED BY <2>2, <2>3, <2>4, <2>5
<1>10. CASE C = {} /\ pc' = "incoherent" /\ UNCHANGED <<search, conflict, learned>>
    <2>1. /\ nextVariable' \in Nat
          /\ UNCHANGED <<trail, level, reason, phase, unrollVector, nextVariable, conflict, database, counters>>
        BY <1>3, <1>5, <1>10 DEF search, database, SearchInv, counters
    <2>2. /\ ControlInv' /\ SearchInv' /\ DatabaseInv' /\ KeptInv' /\ FoundInv'
          /\ AnalysisInv' /\ CoherentInv' /\ AssumptionInv'
          /\ Watches' = Watches /\ NoNewDecision
        BY <1>3, <1>10, <2>1, Standing
    <2>3. ToFind = {} /\ core = <<>>
        BY <1>3, <1>5, <1>6, <1>10 DEF Entails, Sat, CoreInv
    <2>4. PropagationInv'
        <3>1. Base' = Base
            BY <2>1, SameSearch
        <3> QED BY <1>3, <1>5, <1>10, <2>1, <2>2, <2>3, <3>1 DEF IInv, PropagationInv
    <2>5. CoreInv'
        <3>1. mode \in {"core", "minimize"} => Models = {} /\ DecidedInv
            BY <1>5, <2>3, ModelsToFind DEF CoreInv
        <3>2. Lits(<<>>) = {}
            BY DEF Lits
        <3>3. DecidedInv => DecidedInv'
            BY <1>3, <2>2 DEF DecidedInv, NoNewDecision
        <3> QED BY <1>3, <1>5, <1>10, <2>3, <3>1, <3>2, <3>3 DEF CoreInv, Refuted, CoreResult
    <2> QED BY <2>2, <2>4, <2>5 DEF IInv
<1>11. ASSUME NEW l \in C, Cardinality(C) = 1, UnrollAndAssign(0, l, {}), UNCHANGED <<pc, learned>>
       PROVE  IInv'
    <2>1. \A M \in ToFind : Holds(M, l)
        <3>1. PICK a : C = {a}
            BY <1>6, <1>11, LiteralsFinite, OneElement
        <3> QED BY <1>6, <3>1 DEF Entails, Sat
    <2>2. /\ l \in Literal /\ (IsUndefined(l) \/ 0 < Level(l)) /\ 0 \in 0 .. currentDecisionLevel
          /\ {} \in SUBSET Literal
        BY <1>6, <1>8 DEF AtMostOneOpen, d
    <2>3. /\ SearchInv' /\ conflict' = NoConflict /\ currentDecisionLevel' = 0
          /\ TrailKeeps(0) /\ NoNewDecision
          /\ \A i \in 1 .. 0 : NonEmpty(i) => NonEmpty(i)'
          /\ Base' \in Nat /\ Base' <= nextVariable' /\ nextVariable' \in Nat
          /\ nextVariable' = Len(UnrolledTo(0)) /\ nextVariable' <= Len(trail')
          /\ \A D : \A p \in Nat : Guarded(D, trail, level, p) /\ nextVariable' <= p
                  => Guarded(D, trail', level', nextVariable')
        BY <1>5, <1>11, <2>1, <2>2, Jumping
    <2>4. ControlInv' /\ FoundInv' /\ AnalysisInv' /\ CoherentInv' /\ AssumptionInv' /\ CoreInv'
        BY <1>3, <1>8, <1>9, <1>11, <2>3
    <2>5. UNCHANGED <<binary, clauses, learned, database>>
        BY <1>3, <1>11 DEF database
    <2>6. DatabaseInv' /\ Watches' = Watches
        BY <1>5, <2>5, DatabaseUnchanged DEF Watches
    <2>7. KeptInv'
        BY <1>3, <1>5, <1>11, <2>3, <2>5, KeptUnchanged
    <2>8. PropagationInv'
        <3>1. Len(UnrolledTo(0)) <= Len(trail)
            BY <1>5, <2>2, UnrollPrefix
        <3>2. Guarded(Watches, trail', level', nextVariable')
            BY <1>7, <1>8, <2>3, <3>1
        <3> QED BY <1>3, <1>11, <2>3, <2>6, <3>2, JumpedPropagation
    <2> QED BY <2>3, <2>4, <2>6, <2>7, <2>8 DEF IInv
<1>12. ASSUME NEW first \in C, NEW second \in C, Front(C, first, second),
              learned' = learned \cup {Watch({first, second}, C)},
              UnrollAndAssign(Level(second), first, C), UNCHANGED pc
       PROVE  IInv'
    <2> DEFINE k == Level(second)
    <2>1. /\ first # second /\ IsFalse(second) /\ k \in 1 .. d /\ k \in 0 .. d
          /\ \A x \in C \ {first} : IsFalse(x) /\ Level(x) <= k
          /\ IsUndefined(first) \/ (IsFalse(first) /\ k <= Level(first))
          /\ first \in Literal /\ second \in Literal /\ Level(first) \in Nat
        BY <1>5, <1>6, <1>12, FrontFacts, SearchFacts DEF d
    <2>2. /\ DatabaseInv' /\ Watches' = Watches \cup {{first, second}}
          /\ binary \subseteq binary' /\ clauses' = clauses
        <3>1. UNCHANGED <<binary, clauses>>
            BY <1>3
        <3> QED BY <1>5, <1>6, <1>12, <2>1, <3>1, ClauseAdded
    <2>3. UnrollAndAssign(k, first, C)
        BY <1>12
    <2>4. Len(UnrolledTo(k)) \in Nat /\ Len(UnrolledTo(k)) <= Len(trail)
        BY <1>5, <2>1, UnrollPrefix DEF d
    <2>5. ASSUME TrailKeeps(0)
          PROVE  KeptInv'
        <3>1. Zero \subseteq Zero'
            BY <2>5 DEF Zero, TrailKeeps, Level
        <3>2. Kept \subseteq Kept'
            BY <2>2, <3>1 DEF Kept
        <3>3. \A D \in Kept : \E E \in Kept' : E \subseteq D
            BY <3>2
        <3> QED BY <1>3, <1>5, <1>12, <3>3, KeptStep
    <2> HIDE DEF k
    <2>6. CASE IsUndefined(first) \/ k < Level(first)
        <3>1. /\ SearchInv' /\ conflict' = NoConflict /\ currentDecisionLevel' = k
              /\ TrailKeeps(k) /\ TrailKeeps(0) /\ NoNewDecision
              /\ \A i \in 1 .. k : NonEmpty(i) => NonEmpty(i)'
              /\ Base' \in Nat /\ Base' <= nextVariable' /\ nextVariable' \in Nat
              /\ nextVariable' = Len(UnrolledTo(k)) /\ nextVariable' <= Len(trail')
              /\ \A D : \A p \in Nat : Guarded(D, trail, level, p) /\ nextVariable' <= p
                      => Guarded(D, trail', level', nextVariable')
              /\ \A x \in Literal : IsFalse(x) /\ Level(x) = k => Guarded({{first, x}}, trail', level', nextVariable')
            BY <1>5, <1>6, <2>1, <2>3, <2>6, Jumping DEF d
        <3>2. ControlInv' /\ FoundInv' /\ AnalysisInv' /\ CoherentInv' /\ AssumptionInv' /\ CoreInv'
            BY <1>3, <1>9, <1>12, <2>1, <3>1
        <3>3. Guarded(Watches, trail', level', nextVariable')
            BY <1>7, <1>8, <2>4, <3>1
        <3>4. Guarded({{first, second}}, trail', level', nextVariable')
            BY <2>1, <3>1 DEF k
        <3>5. Guarded(Watches', trail', level', nextVariable')
            BY <2>2, <3>3, <3>4 DEF Guarded
        <3>6. PropagationInv'
            BY <1>3, <1>12, <3>1, <3>5, JumpedPropagation
        <3> QED BY <2>2, <2>5, <3>1, <3>2, <3>6 DEF IInv
    <2>7. CASE IsFalse(first) /\ Level(first) = k
        <3>1. -first \in Lits(UnrolledTo(k))
            <4>1. Lits(UnrolledTo(k)) = {l \in Lits(trail) : Level(l) <= k}
                BY <1>5, <2>1, UnrollPrefix DEF d
            <4>2. Level(-first) = k /\ k \in Nat
                BY <1>5, <2>1, <2>7, SearchFacts
            <4> QED BY <2>7, <4>1, <4>2 DEF IsFalse
        <3>2. Unroll(k) /\ conflict' = [lit |-> first, clause |-> C]
            BY <2>3, <3>1 DEF UnrollAndAssign, AssignLiteral, Unroll
        <3>3. /\ SearchInv' /\ TrailKeeps(k) /\ TrailKeeps(0) /\ NoNewDecision
              /\ currentDecisionLevel' = k /\ nextVariable' = Len(trail') /\ Len(trail') \in Nat
              /\ \A i \in 1 .. k : NonEmpty(i) => NonEmpty(i)'
              /\ Lits(trail') = {l \in Lits(trail) : Level(l) <= k}
              /\ \A l : Level(l)' = Level(l)
              /\ \A D : Guarded(D, trail, level, Len(trail)) =>
                     Guarded(D, trail', level', Len(trail')) /\ Guarded(D, trail', level', Base')
              /\ Base' \in Nat /\ Base' <= Len(trail')
            BY <1>3, <1>5, <2>1, <3>2, Unrolling DEF d
        <3>4. ControlInv' /\ FoundInv' /\ AnalysisInv' /\ CoherentInv' /\ AssumptionInv' /\ CoreInv'
            BY <1>3, <1>9, <1>12, <2>1, <3>3
        <3>5. Guarded(Watches', trail', level', Base')
            <4>1. Guarded(Watches, trail', level', Base')
                BY <1>7, <3>3
            <4>2. ASSUME NEW i \in 1 .. Base', -trail'[i] \in {first, second}
                  PROVE  FALSE
                <5>1. i \in 1 .. Len(trail') /\ trail' \in Trails
                    BY <3>3 DEF SearchInv
                <5>2. trail'[i] \in Literal
                    BY <5>1, TrailTyping
                <5>3. Level(-trail'[i]) = k
                    BY <2>7, <4>2 DEF k
                <5>4. level'[Variable(trail'[i])] = k
                    BY <3>3, <5>2, <5>3, LiteralFacts DEF Level
                <5>5. k \in Nat /\ k > 0 /\ Base' = unrollVector'[k] /\ k \in 1 .. Len(unrollVector')
                    BY <1>8, <2>1, <3>3 DEF Base, currentDecisionLevel
                <5>6. unrollVector'[k] < i
                    BY <3>3, <5>1, <5>4, <5>5 DEF SearchInv, OrderedTrail
                <5> QED BY <3>3, <5>5, <5>6
            <4> QED BY <2>2, <4>1, <4>2 DEF Guarded
        <3>6. FalseClause'
            <4>1. \A l \in C : IsFalse(l)'
                <5> TAKE l \in C
                <5>1. IsFalse(l) /\ Level(l) <= k /\ l \in Literal
                    BY <1>6, <2>1, <2>7
                <5>2. Level(-l) = Level(l)
                    BY <1>5, <5>1, SearchFacts
                <5> QED BY <3>3, <5>1, <5>2 DEF IsFalse
            <4> QED BY <1>5, <1>6, <2>7, <3>2, <3>3, <4>1 DEF FalseClause
        <3>7. PropagationInv'
            <4>1. conflict' \in [lit : Literal \cup {0}, clause : SUBSET Literal] /\ conflict' # NoConflict
                BY <1>6, <2>1, <3>2, LiteralFacts DEF NoConflict
            <4> QED BY <1>3, <1>12, <3>5, <3>6, <4>1 DEF IInv, PropagationInv
        <3> QED BY <2>2, <2>5, <3>3, <3>4, <3>7 DEF IInv
    <2>8. k \in Nat
        BY <2>1
    <2> QED BY <2>1, <2>6, <2>7, <2>8
<1> QED BY <1>4, <1>10, <1>11, <1>12

-----------------------------------------------------------------------------
(* Choices: the levels of the assumptions come first.                      *)
LEMMA FirstOfFacts ==
    ASSUME NEW S \in SUBSET Nat, S # {}
    PROVE  FirstOf(S) \in S /\ \A j \in S : FirstOf(S) <= j
    BY LeastOfNaturals DEF FirstOf

NextLevel == currentDecisionLevel + EmptyLevels + 1
(* The next level is that of the first open assumption, if any.            *)
LEMMA OpenedLevels ==
    ASSUME SearchInv, assumptions \in Seq(Literal)
    PROVE  /\ EmptyLevels \in Nat /\ NextLevel \in Nat /\ currentDecisionLevel < NextLevel
           /\ UndefinedAhead # {} =>
                 /\ NextLevel = FirstOf(UndefinedAhead) /\ NextLevel \in UndefinedAhead
                 /\ \A j \in UndefinedAhead : NextLevel <= j
           /\ UndefinedAhead = {} =>
                 Len(assumptions) < NextLevel /\ (NextLevel = currentDecisionLevel + 1 \/ NextLevel = Len(assumptions) + 1)
           /\ \A i \in UndefinedAhead : i \in 1 .. Len(assumptions) /\ IsUndefined(assumptions[i])
<1>1. currentDecisionLevel \in Nat /\ Len(assumptions) \in Nat
    BY SearchFacts, LenProperties
<1>2. UndefinedAhead \in SUBSET Nat /\ UndefinedAhead \subseteq Ahead
    BY <1>1 DEF UndefinedAhead, Ahead
<1>3. \A i \in Ahead : i \in Nat /\ currentDecisionLevel < i /\ i <= Len(assumptions)
    BY <1>1 DEF Ahead
<1>4. \A i \in UndefinedAhead : i \in 1 .. Len(assumptions) /\ IsUndefined(assumptions[i])
    BY <1>1, <1>3 DEF UndefinedAhead
<1>5. CASE UndefinedAhead # {}
    <2>1. /\ FirstOf(UndefinedAhead) \in UndefinedAhead
          /\ \A j \in UndefinedAhead : FirstOf(UndefinedAhead) <= j
        BY <1>2, <1>5, FirstOfFacts
    <2>2. EmptyLevels = FirstOf(UndefinedAhead) - 1 - currentDecisionLevel
        BY <1>2, <1>5 DEF EmptyLevels
    <2> DEFINE f == FirstOf(UndefinedAhead)
    <2> HIDE DEF f
    <2>3. f \in Nat /\ currentDecisionLevel < f
        BY <1>2, <1>3, <2>1 DEF f
    <2>4. EmptyLevels \in Nat /\ NextLevel = f /\ NextLevel \in Nat /\ currentDecisionLevel < NextLevel
        BY <1>1, <2>2, <2>3 DEF NextLevel, f
    <2>5. NextLevel \in UndefinedAhead /\ \A j \in UndefinedAhead : NextLevel <= j
        BY <2>1, <2>4 DEF f
    <2> QED BY <1>4, <1>5, <2>4, <2>5 DEF f
<1>6. CASE UndefinedAhead = {}
    <2>1. CASE Ahead = {}
        <3>1. EmptyLevels = 0
            BY <2>1 DEF EmptyLevels
        <3>2. Len(assumptions) <= currentDecisionLevel
            BY <1>1, <2>1 DEF Ahead
        <3> QED BY <1>1, <1>6, <3>1, <3>2 DEF NextLevel
    <2>2. CASE Ahead # {}
        <3>1. EmptyLevels = Len(assumptions) - currentDecisionLevel
            BY <1>6, <2>2 DEF EmptyLevels
        <3>2. currentDecisionLevel < Len(assumptions)
            BY <1>1, <1>3, <2>2
        <3> QED BY <1>1, <1>6, <3>1, <3>2 DEF NextLevel
    <2> QED BY <2>1, <2>2
<1> QED BY <1>5, <1>6

(* What the invariant needs to know of a choice.                           *)
LEMMA Deciding ==
    ASSUME SearchInv, assumptions \in Seq(Literal), NEW l \in Literal, IsUndefined(l), Decide(l),
           nextVariable' = nextVariable, ToFind' = ToFind
    PROVE  /\ SearchInv' /\ conflict' = NoConflict
           /\ currentDecisionLevel' = NextLevel /\ Base' = Len(trail) /\ Len(trail') = Len(trail) + 1
           /\ Lits(trail') = Lits(trail) \cup {l}
           /\ Level(l)' = NextLevel /\ reason'[Variable(l)] = {}
           /\ \A x \in Lits(trail) : Level(x)' = Level(x) /\ reason'[Variable(x)] = reason[Variable(x)]
           /\ \A D : Guarded(D, trail, level, Len(trail)) => Guarded(D, trail', level', Len(trail))
           /\ \A k \in 1 .. currentDecisionLevel : NonEmpty(k) => NonEmpty(k)'
           /\ NonEmpty(currentDecisionLevel)'
<1> DEFINE U == unrollVector \o [i \in 1 .. (EmptyLevels + 1) |-> Len(trail)]
           n == EmptyLevels + 1
<1>1. /\ EmptyLevels \in Nat /\ n \in Nat /\ n > 0 /\ currentDecisionLevel \in Nat
      /\ NextLevel = Len(unrollVector) + n /\ NextLevel \in Nat /\ currentDecisionLevel < NextLevel
      /\ currentDecisionLevel = Len(unrollVector) /\ Len(trail) \in Nat
    BY OpenedLevels, SearchFacts DEF NextLevel, currentDecisionLevel
<1>2. /\ U \in Seq(Nat) /\ Len(U) = Len(unrollVector) + n
      /\ \A k \in 1 .. Len(unrollVector) : U[k] = unrollVector[k]
      /\ \A k \in Len(unrollVector) + 1 .. Len(unrollVector) + n : U[k] = Len(trail)
      /\ OrderedTrail(trail, level, U)
      /\ \A rs, MS : Justified(trail, level, rs, unrollVector, MS) => Justified(trail, level, rs, U, MS)
    <2>1. Opens(trail, unrollVector, n, U)
        BY DEF Opens
    <2> HIDE DEF U, n
    <2> QED BY <1>1, <2>1, LevelsOpened DEF SearchInv
<1>3. unrollVector' = U /\ AssignLiteral(trail, Len(U), l, {})
    BY <1>1, <1>2 DEF Decide, NextLevel
<1> HIDE DEF U, n
<1>4. U[Len(U)] = Len(trail) /\ Len(U) # 0 /\ Len(U) = NextLevel
    <2>1. Len(U) = NextLevel /\ Len(U) # 0 /\ Len(U) \in Len(unrollVector) + 1 .. Len(unrollVector) + n
        BY <1>1, <1>2
    <2> QED BY <1>2, <2>1
<1>5. ReasonFor(trail, U, l, {}, ToFind)
    BY <1>4 DEF ReasonFor
<1>6. l \notin Lits(trail) /\ -l \notin Lits(trail)
    BY DEF IsUndefined, IsTrue, IsFalse
<1>7. /\ level \in Levels /\ reason \in Reasons /\ phase \in [Var -> {-1, 1}] /\ nextVariable' \in Nat
      /\ trail \in Trails /\ Justified(trail, level, reason, U, ToFind) /\ {} \in SUBSET Literal
    BY <1>2 DEF SearchInv
<1>8. /\ SearchInv' /\ conflict' = NoConflict
      /\ Len(trail') = Len(trail) + 1
      /\ Lits(trail') = Lits(trail) \cup {l}
      /\ Level(l)' = Len(U) /\ reason'[Variable(l)] = {}
      /\ \A x \in Lits(trail) : Level(x)' = Level(x) /\ reason'[Variable(x)] = reason[Variable(x)]
      /\ \A D : \A p \in Nat : p <= Len(trail) /\ Guarded(D, trail, level, p) => Guarded(D, trail', level', p)
    BY <1>2, <1>3, <1>5, <1>6, <1>7, AssignTo
<1>9. currentDecisionLevel' = NextLevel
    BY <1>3, <1>4 DEF currentDecisionLevel
<1>10. Base' = Len(trail)
    BY <1>1, <1>3, <1>4, <1>9 DEF Base
<1>11. NonEmpty(currentDecisionLevel)'
    <2>1. unrollVector'[currentDecisionLevel'] = Len(trail)
        BY <1>3, <1>4, <1>9
    <2>2. currentDecisionLevel' \in Nat /\ Len(trail) < Len(trail')
        BY <1>1, <1>8, <1>9
    <2> QED BY <2>1, <2>2 DEF NonEmpty
<1>12. ASSUME NEW k \in 1 .. currentDecisionLevel, NonEmpty(k)
       PROVE  NonEmpty(k)'
    <2>1. k < NextLevel /\ unrollVector'[k] = unrollVector[k]
        BY <1>1, <1>2, <1>3
    <2>2. CASE k < currentDecisionLevel
        <3>0. k + 1 \in 1 .. Len(unrollVector)
            BY <1>1, <2>2
        <3>1. unrollVector'[k + 1] = unrollVector[k + 1]
            BY <1>2, <1>3, <3>0
        <3> QED BY <1>9, <1>12, <2>1, <2>2, <3>1 DEF NonEmpty
    <2>3. CASE k = currentDecisionLevel
        <3>0. k + 1 \in Len(unrollVector) + 1 .. Len(unrollVector) + n
            BY <1>1, <2>3
        <3>1. unrollVector'[k + 1] = Len(trail)
            BY <1>2, <1>3, <3>0
        <3> QED BY <1>9, <1>12, <2>1, <2>3, <3>1 DEF NonEmpty
    <2> QED BY <1>1, <2>2, <2>3
<1>13. \A D : Guarded(D, trail, level, Len(trail)) => Guarded(D, trail', level', Len(trail))
    BY <1>1, <1>8
<1> QED BY <1>4, <1>8, <1>9, <1>10, <1>11, <1>12, <1>13

LEMMA ChooseLiteralStep ==
    ASSUME IInv, ChooseLiteral
    PROVE  IInv'
<1> DEFINE d == currentDecisionLevel
<1>1. /\ pc = "loop" /\ FalseAhead = {} /\ DeleteClausesIfNecessary
      /\ pc' = "propagate"
      /\ UNCHANGED <<instance, mode, nextVariable, visit, binary, clauses, analysis,
                     assumptions, checked, found, core, restarts>>
      /\ IF UndefinedAhead # {} THEN Decide(assumptions[FirstOf(UndefinedAhead)])
         ELSE \E v \in {w \in Var : IsUndefined(w)} : Decide(v * phase[v])
    BY DEF ChooseLiteral, caller
<1>2. /\ SearchInv /\ DatabaseInv /\ KeptInv /\ FoundInv /\ AssumptionInv /\ CoreInv /\ AnalysisInv
      /\ assumptions \in Seq(Literal) /\ deletions \in Nat /\ restarts \in Nat
      /\ ToFind' = ToFind /\ Models' = Models
      /\ visit = NoVisit /\ Quiet
    BY <1>1, ModelsKept DEF IInv, PropagationInv, AssumptionInv, ControlInv
<1>3. /\ NextLevel \in Nat /\ d < NextLevel /\ d \in Nat /\ Len(trail) \in Nat
      /\ UndefinedAhead # {} =>
            /\ NextLevel = FirstOf(UndefinedAhead) /\ NextLevel \in UndefinedAhead
            /\ \A j \in UndefinedAhead : NextLevel <= j
      /\ UndefinedAhead = {} =>
            Len(assumptions) < NextLevel /\ (NextLevel = d + 1 \/ NextLevel = Len(assumptions) + 1)
      /\ \A i \in UndefinedAhead : i \in 1 .. Len(assumptions) /\ IsUndefined(assumptions[i])
      /\ Len(assumptions) \in Nat /\ \A i \in 1 .. Len(assumptions) : assumptions[i] \in Literal
    BY <1>2, OpenedLevels, SearchFacts, ElementOfSeq, LenProperties
<1>4. PICK l \in Literal : /\ IsUndefined(l) /\ Decide(l)
                           /\ UndefinedAhead # {} => l = assumptions[NextLevel]
    <2>1. CASE UndefinedAhead # {}
        BY <1>1, <1>3, <2>1
    <2>2. CASE UndefinedAhead = {}
        <3>1. PICK v \in Var : IsUndefined(v) /\ Decide(v * phase[v])
            BY <1>1, <2>2
        <3>2. phase[v] \in {-1, 1} /\ v \in Literal /\ -v \in Literal /\ v \in Nat /\ -(-v) = v
            BY <1>2, VariableOfVar, LiteralFacts DEF SearchInv
        <3>3. v * phase[v] = v \/ v * phase[v] = -v
            BY <3>2
        <3>4. IsUndefined(-v)
            BY <3>1, <3>2 DEF IsUndefined, IsTrue, IsFalse
        <3> QED BY <2>2, <3>1, <3>2, <3>3, <3>4
    <2> QED BY <2>1, <2>2
<1>5. /\ SearchInv' /\ conflict' = NoConflict
      /\ currentDecisionLevel' = NextLevel /\ Base' = Len(trail) /\ Len(trail') = Len(trail) + 1
      /\ Lits(trail') = Lits(trail) \cup {l}
      /\ Level(l)' = NextLevel /\ reason'[Variable(l)] = {}
      /\ \A x \in Lits(trail) : Level(x)' = Level(x) /\ reason'[Variable(x)] = reason[Variable(x)]
      /\ \A D : Guarded(D, trail, level, Len(trail)) => Guarded(D, trail', level', Len(trail))
      /\ \A k \in 1 .. d : NonEmpty(k) => NonEmpty(k)'
      /\ NonEmpty(currentDecisionLevel)'
    BY <1>1, <1>2, <1>4, Deciding
<1> HIDE DEF d
<1>6. learned' \subseteq learned /\ deletions' \in Nat
    BY <1>1, <1>2 DEF DeleteClausesIfNecessary
<1>7. DatabaseInv' /\ Watches' \subseteq Watches
    <2>1. Database' \subseteq Database /\ clauses' \cup learned' \subseteq clauses \cup learned
        BY <1>1, <1>6 DEF Database
    <2>2. Watches' \subseteq Watches
        BY <1>1, <2>1 DEF Watches
    <2> QED BY <1>1, <1>2, <2>1, <2>2 DEF DatabaseInv
<1>8. TrailKeeps(0)
    BY <1>5 DEF TrailKeeps
<1>9. KeptInv' /\ FoundInv' /\ AnalysisInv' /\ CoherentInv' /\ ControlInv'
    <2>1. KeptInv'
        BY <1>1, <1>2, <1>8, KeptUnchanged
    <2>2. FoundInv' /\ AnalysisInv' /\ CoherentInv'
        BY <1>1, <1>2, FoundUnchanged, AnalysisUnchanged DEF CoherentInv
    <2>3. ControlInv'
        BY <1>1, <1>2, <1>6 DEF IInv, ControlInv
    <2> QED BY <2>1, <2>2, <2>3
<1>10. PropagationInv'
    <2>1. nextVariable' = Len(trail)
        BY <1>1, <1>2 DEF Quiet
    <2>2. Guarded(Watches, trail', level', nextVariable')
        BY <1>2, <1>5, <2>1 DEF Quiet
    <2>3. visit' = NoVisit /\ pc' \in {"propagate", "unit"}
        BY <1>1, <1>2
    <2>4. Base' \in Nat /\ nextVariable' \in Nat /\ Base' <= nextVariable' /\ nextVariable' <= Len(trail')
        BY <1>3, <1>5, <2>1
    <2> QED BY <1>5, <1>7, <2>2, <2>3, <2>4, JumpedPropagation
<1>11. AssumptionInv'
    <2>1. Reached' = NextLevel /\ Reached = d
        BY <1>1, <1>5 DEF Reached, d
    <2>2. LastRefuted => LastRefuted'
        <3> SUFFICES ASSUME LastRefuted
                     PROVE  LastRefuted'
            OBVIOUS
        <3>1. PICK a \in Literal : a = assumptions[Len(assumptions)]
            <4>1. Len(assumptions) \in 1 .. Len(assumptions)
                BY <1>2, <1>3, EmptySeq DEF LastRefuted
            <4> QED BY <1>3, <4>1
        <3>2. -a \in Lits(trail) /\ Level(a) = 0 /\ mode = "bt" /\ assumptions # <<>>
            BY <3>1 DEF LastRefuted, IsFalse
        <3>3. Level(-a)' = Level(-a) /\ -a \in Lits(trail')
            BY <1>5, <3>2
        <3>4. Variable(-a) = Variable(a)
            BY <3>1, LiteralFacts
        <3>5. Level(a)' = 0
            BY <3>2, <3>3, <3>4 DEF Level
        <3> QED BY <1>1, <3>1, <3>2, <3>3, <3>5 DEF LastRefuted, IsFalse, Level
    <2>3. ASSUME NEW i \in 1 .. Len(assumptions), i <= NextLevel
          PROVE  \/ IsTrue(assumptions[i])' /\ Level(assumptions[i])' <= i
                 \/ i = Len(assumptions) /\ LastRefuted
        <3>1. CASE i <= d
            <4>1. \/ IsTrue(assumptions[i]) /\ Level(assumptions[i]) <= i
                  \/ i = Len(assumptions) /\ LastRefuted
                BY <1>1, <1>2, <2>1, <3>1 DEF AssumptionInv
            <4> QED BY <1>1, <1>5, <4>1 DEF IsTrue, Level
        <3>2. CASE d < i
            <4>1. i \in Ahead
                BY <1>3, <3>2 DEF Ahead, d
            <4>2. ~IsFalse(assumptions[i])
                BY <1>1, <4>1 DEF FalseAhead
            <4>3. CASE IsUndefined(assumptions[i])
                <5>1. i \in UndefinedAhead
                    BY <4>1, <4>3 DEF UndefinedAhead
                <5>2. i = NextLevel
                    BY <1>3, <2>3, <5>1
                <5> QED BY <1>1, <1>3, <1>4, <1>5, <5>1, <5>2 DEF IsTrue, Level
            <4>4. CASE IsTrue(assumptions[i])
                <5>1. Level(assumptions[i]) <= i
                    <6>1. Level(assumptions[i]) \in 0 .. d
                        BY <1>2, <1>3, <4>4, SearchFacts DEF d
                    <6> QED BY <1>3, <3>2, <6>1
                <5> QED BY <1>1, <1>5, <4>4, <5>1 DEF IsTrue, Level
            <4> QED BY <4>2, <4>3, <4>4 DEF IsUndefined
        <3> QED BY <1>3, <3>1, <3>2
    <2>4. ASSUME NEW k \in Len(assumptions) + 1 .. NextLevel
          PROVE  LastRefuted \/ NonEmpty(k)'
        <3>1. CASE k <= d
            <4>1. k \in 1 .. d /\ k \in Len(assumptions) + 1 .. Reached
                BY <1>3, <2>1, <3>1
            <4> QED BY <1>1, <1>2, <1>5, <4>1 DEF AssumptionInv
        <3>2. CASE d < k
            <4>1. k = NextLevel
                <5>1. CASE UndefinedAhead # {}
                    BY <1>3, <5>1
                <5>2. CASE UndefinedAhead = {}
                    BY <1>3, <3>2, <5>2
                <5> QED BY <5>1, <5>2
            <4>2. k = currentDecisionLevel'
                BY <1>5, <4>1
            <4> QED BY <1>5, <4>2
        <3> QED BY <1>3, <3>1, <3>2
    <2> QED BY <1>1, <1>2, <2>1, <2>2, <2>3, <2>4 DEF AssumptionInv
<1>12. CoreInv'
    <2>1. ASSUME DecidedInv
          PROVE  DecidedInv'
        <3> SUFFICES ASSUME NEW x \in Lits(trail'), reason'[Variable(x)] = {}, Level(x)' \in 1 .. Len(assumptions)
                     PROVE  x = assumptions[Level(x)']
            BY <1>1 DEF DecidedInv
        <3>1. CASE x \in Lits(trail)
            BY <1>5, <2>1, <3>1 DEF DecidedInv
        <3>2. CASE x = l
            <4>1. UndefinedAhead # {}
                BY <1>3, <1>5, <3>2
            <4> QED BY <1>4, <1>5, <3>2, <4>1
        <3> QED BY <1>5, <3>1, <3>2
    <2> QED BY <1>1, <1>2, <2>1 DEF CoreInv, Refuted, CoreResult
<1> QED BY <1>5, <1>7, <1>9, <1>10, <1>11, <1>12 DEF IInv

-----------------------------------------------------------------------------
(* The core of a failed call: the decisions that the reasons of the false  *)
(* assumption lead back to.                                                *)
LEMMA AncestorsClosed ==
    ASSUME SearchInv, NEW v \in Var
    PROVE  /\ v \in Ancestors(v)
           /\ \A w \in Ancestors(v) : \A x \in Variables(reason[w]) : level[x] > 0 => x \in Ancestors(v)
<1>1. v \in Ancestors(v)
    BY DEF Ancestors
<1>2. ASSUME NEW w \in Ancestors(v), NEW x \in Variables(reason[w]), level[x] > 0
      PROVE  x \in Ancestors(v)
    <2>1. w \in Var
        BY DEF Ancestors
    <2>2. PICK y \in reason[w] : x = Variable(y)
        BY DEF Variables
    <2>3. x \in Var
        BY <2>1, <2>2, LiteralFacts DEF SearchInv, Reasons
    <2>4. ASSUME NEW S \in SUBSET Var, v \in S,
                 \A u \in S : \A z \in Variables(reason[u]) : level[z] > 0 => z \in S
          PROVE  x \in S
        <3>1. w \in S
            BY <2>4 DEF Ancestors
        <3> QED BY <1>2, <2>4, <3>1
    <2> QED BY <2>3, <2>4 DEF Ancestors
<1> QED BY <1>1, <1>2

(* A literal is false in every model of the decisions it depends on.       *)
LEMMA DecisionsImply ==
    ASSUME SearchInv, NEW M \in ToFind, NEW l \in Literal, IsFalse(l),
           \A i \in DecidedAbove(Ancestors(Variable(l))) : Holds(M, trail[i])
    PROVE  ~Holds(M, l)
<1> DEFINE A == Ancestors(Variable(l))
           I == {i \in 1 .. Len(trail) : Variable(trail[i]) \in A}
<1>1. /\ trail \in Trails /\ reason \in Reasons
      /\ Justified(trail, level, reason, unrollVector, ToFind)
      /\ \A i \in 1 .. Len(trail) : level[Variable(trail[i])] \in Nat
    BY DEF SearchInv, OrderedTrail
<1>2. Variable(l) \in Var /\ Variable(-l) = Variable(l) /\ -l \in Lits(trail)
    BY LiteralFacts DEF IsFalse
<1>3. /\ Variable(l) \in A
      /\ \A w \in A : \A x \in Variables(reason[w]) : level[x] > 0 => x \in A
    BY <1>2, AncestorsClosed
<1> HIDE DEF A
<1>4. ASSUME NEW i \in I
      PROVE  \/ Holds(M, trail[i])
             \/ /\ reason[Variable(trail[i])] # {}
                /\ \A j \in 1 .. i - 1 : -trail[j] \in reason[Variable(trail[i])] => j \in I \/ Holds(M, trail[j])
    <2>1. i \in 1 .. Len(trail) /\ Variable(trail[i]) \in A /\ Len(trail) \in Nat /\ DOMAIN trail = 1 .. Len(trail)
        BY <1>1, TrailTyping
    <2>2. CASE level[Variable(trail[i])] = 0
        BY <1>1, <2>1, <2>2 DEF Justified
    <2>3. CASE level[Variable(trail[i])] > 0 /\ reason[Variable(trail[i])] = {}
        <3>1. i \in DecidedAbove(A)
            BY <2>1, <2>3 DEF DecidedAbove
        <3> QED BY <3>1 DEF A
    <2>4. CASE reason[Variable(trail[i])] # {}
        <3>1. ASSUME NEW j \in 1 .. i - 1, -trail[j] \in reason[Variable(trail[i])]
              PROVE  j \in I \/ Holds(M, trail[j])
            <4>1. j \in 1 .. Len(trail) /\ trail[j] \in Literal
                BY <1>1, <2>1, TrailTyping
            <4>2. Variable(-trail[j]) = Variable(trail[j])
                BY <4>1, LiteralFacts
            <4>3. Variable(trail[j]) \in Variables(reason[Variable(trail[i])])
                BY <3>1, <4>2 DEF Variables
            <4>4. CASE level[Variable(trail[j])] = 0
                BY <1>1, <4>1, <4>4 DEF Justified
            <4>5. CASE level[Variable(trail[j])] > 0
                BY <1>3, <2>1, <4>1, <4>3, <4>5
            <4> QED BY <1>1, <4>1, <4>4, <4>5
        <3> QED BY <2>4, <3>1
    <2> QED BY <1>1, <2>1, <2>2, <2>3, <2>4
<1>5. \A i \in I : Holds(M, trail[i])
    <2>1. I \in SUBSET (1 .. Len(trail))
        OBVIOUS
    <2> HIDE DEF I
    <2> QED BY <1>1, <1>4, <2>1, TrailFollows
<1>6. PICK i \in 1 .. Len(trail) : trail[i] = -l
    BY <1>1, <1>2, TrailTyping
<1>7. Holds(M, -l)
    BY <1>2, <1>3, <1>5, <1>6
<1> QED BY <1>7, HoldsOpposite

(* Learning::analyzeFinal: a part of the decisions that is refuted.        *)
LEMMA FinalCore ==
    ASSUME SearchInv, mode # "bc", NEW l \in Literal, IsFalse(l)
    PROVE  /\ AnalyzeFinal(l) \in Seq(Literal) /\ Refuted(Lits(AnalyzeFinal(l)))
           /\ \A x \in Lits(AnalyzeFinal(l)) :
                 x = l \/ (x \in Lits(trail) /\ reason[Variable(x)] = {} /\ Level(x) > 0)
<1>1. ToFind = Models
    BY ModelsToFind
<1>2. CASE currentDecisionLevel = 0 \/ Level(l) = 0
    <2>1. Level(l) = 0
        <3>1. Level(l) \in 0 .. currentDecisionLevel
            BY SearchFacts
        <3> QED BY <1>2, <3>1
    <2>2. AnalyzeFinal(l) = <<l>>
        BY <1>2 DEF AnalyzeFinal
    <2>3. <<l>> \in Seq(Literal) /\ DOMAIN <<l>> = {1} /\ <<l>>[1] = l
        OBVIOUS
    <2>4. \A x : x \in Lits(<<l>>) <=> x = l
        BY <2>3 DEF Lits
    <2>5. \A M \in Models : ~Holds(M, l)
        BY <1>1, <2>1, LevelZero
    <2> QED BY <2>2, <2>3, <2>4, <2>5 DEF Refuted
<1>3. CASE ~(currentDecisionLevel = 0 \/ Level(l) = 0)
    <2> DEFINE D == DecidedAbove(Ancestors(Variable(l)))
               c == Cardinality(D)
               R == [n \in 1 .. c |-> trail[Nth(D, c + 1 - n)]]
    <2>1. AnalyzeFinal(l) = <<l>> \o R
        BY <1>3 DEF AnalyzeFinal
    <2>2. trail \in Trails /\ Len(trail) \in Nat /\ DOMAIN trail = 1 .. Len(trail)
        BY TrailTyping DEF SearchInv
    <2>3. D \in SUBSET (1 .. Len(trail))
        BY <2>2 DEF DecidedAbove
    <2>4. D \in SUBSET Nat /\ IsFiniteSet(D)
        <3> HIDE DEF D
        <3>1. IsFiniteSet(1 .. Len(trail)) /\ 1 .. Len(trail) \subseteq Nat
            BY <2>2, FS_Interval
        <3>2. IsFiniteSet(D)
            BY <2>3, <3>1, FS_Subset
        <3> QED BY <2>3, <3>1, <3>2
    <2>5. \A i \in D : /\ trail[i] \in Literal /\ trail[i] \in Lits(trail)
                       /\ reason[Variable(trail[i])] = {} /\ Level(trail[i]) > 0
        <3>1. \A i \in 1 .. Len(trail) : trail[i] \in Literal /\ trail[i] \in Lits(trail)
            BY <2>2, TrailTyping
        <3>2. \A i \in D : reason[Variable(trail[i])] = {} /\ level[Variable(trail[i])] > 0
            BY DEF DecidedAbove
        <3> QED BY <2>3, <3>1, <3>2 DEF Level
    <2>6. \A M \in ToFind : (\A i \in D : Holds(M, trail[i])) => ~Holds(M, l)
        BY DecisionsImply
    <2> HIDE DEF D
    <2>7. /\ c \in Nat /\ \A n \in 1 .. c : Nth(D, n) \in D
          /\ \A i \in D : \E n \in 1 .. c : Nth(D, n) = i
        BY <2>4, NthPosition
    <2> HIDE DEF c
    <2>8. \A n \in 1 .. c : c + 1 - n \in 1 .. c /\ c + 1 - (c + 1 - n) = n
        BY <2>7
    <2>9. R \in Seq(Literal) /\ Len(R) = c /\ \A n \in 1 .. c : R[n] = trail[Nth(D, c + 1 - n)]
        <3>1. \A n \in 1 .. c : trail[Nth(D, c + 1 - n)] \in Literal
            BY <2>5, <2>7, <2>8
        <3>2. R \in [1 .. c -> Literal]
            BY <3>1
        <3>3. R \in Seq(Literal)
            BY <2>7, <3>2, SeqDef
        <3> QED BY <2>7, <3>2, <3>3, LenProperties
    <2> HIDE DEF R
    <2>10. /\ <<l>> \in Seq(Literal) /\ Len(<<l>>) = 1 /\ <<l>>[1] = l
        OBVIOUS
    <2>11. /\ <<l>> \o R \in Seq(Literal) /\ Len(<<l>> \o R) = 1 + c
           /\ \A i \in 1 .. 1 + c : (<<l>> \o R)[i] = IF i <= 1 THEN <<l>>[i] ELSE R[i - 1]
        <3>1. /\ <<l>> \o R \in Seq(Literal) /\ Len(<<l>> \o R) = Len(<<l>>) + Len(R)
              /\ \A i \in 1 .. Len(<<l>>) + Len(R) :
                    (<<l>> \o R)[i] = IF i <= Len(<<l>>) THEN <<l>>[i] ELSE R[i - Len(<<l>>)]
            BY <2>9, <2>10, ConcatProperties
        <3> QED BY <2>9, <2>10, <3>1
    <2> DEFINE S == <<l>> \o R
    <2>12. S \in Seq(Literal) /\ DOMAIN S = 1 .. 1 + c /\ S[1] = l /\ \A i \in 2 .. 1 + c : S[i] = R[i - 1]
        <3>1. S \in Seq(Literal) /\ DOMAIN S = 1 .. 1 + c
            BY <2>11, LenProperties
        <3>2. S[1] = l
            BY <2>7, <2>10, <2>11
        <3>3. \A i \in 2 .. 1 + c : S[i] = R[i - 1]
            BY <2>7, <2>11
        <3> QED BY <3>1, <3>2, <3>3
    <2> HIDE DEF S
    <2>13. \A x \in Lits(S) : x = l \/ \E i \in D : x = trail[i]
        <3> TAKE x \in Lits(S)
        <3>1. PICK j \in 1 .. 1 + c : x = S[j]
            BY <2>12 DEF Lits
        <3>2. CASE j = 1
            BY <2>12, <3>1, <3>2
        <3>3. CASE j \in 2 .. 1 + c
            <4>1. j - 1 \in 1 .. c
                BY <2>7, <3>3
            <4>2. x = trail[Nth(D, c + 1 - (j - 1))] /\ Nth(D, c + 1 - (j - 1)) \in D
                BY <2>7, <2>8, <2>9, <2>12, <3>1, <3>3, <4>1
            <4> QED BY <4>2
        <3> QED BY <2>7, <3>2, <3>3
    <2>14. l \in Lits(S) /\ \A i \in D : trail[i] \in Lits(S)
        <3>1. 1 \in DOMAIN S
            BY <2>7, <2>12
        <3>2. ASSUME NEW i \in D
              PROVE  trail[i] \in Lits(S)
            <4>1. PICK n \in 1 .. c : Nth(D, n) = i
                BY <2>7
            <4>2. c + 1 - n \in 1 .. c /\ c + 1 - (c + 1 - n) = n
                BY <2>8
            <4>3. R[c + 1 - n] = trail[i]
                BY <2>9, <4>1, <4>2
            <4>4. c + 1 - n + 1 \in 2 .. 1 + c /\ (c + 1 - n + 1) - 1 = c + 1 - n
                BY <2>7, <4>2
            <4>5. S[c + 1 - n + 1] = trail[i] /\ c + 1 - n + 1 \in DOMAIN S
                BY <2>12, <4>3, <4>4
            <4> QED BY <4>5 DEF Lits
        <3> QED BY <2>12, <3>1, <3>2 DEF Lits
    <2>15. Refuted(Lits(S))
        BY <1>1, <2>6, <2>14 DEF Refuted
    <2>16. \A x \in Lits(S) : \/ x = l
                              \/ /\ x \in Lits(trail) /\ reason[Variable(x)] = {}
                                 /\ Level(x) > 0
        <3> TAKE x \in Lits(S)
        <3>1. CASE x = l
            BY <3>1
        <3>2. ASSUME NEW i \in D, x = trail[i]
              PROVE  x \in Lits(trail) /\ reason[Variable(x)] = {} /\ Level(x) > 0
            BY <2>5, <3>2
        <3> QED BY <2>13, <3>1, <3>2
    <2>17. AnalyzeFinal(l) = S
        BY <2>1 DEF S
    <2> QED BY <2>12, <2>15, <2>16, <2>17
<1> QED BY <1>2, <1>3

LEMMA AssumptionFalseStep ==
    ASSUME IInv, AssumptionFalse
    PROVE  IInv'
<1> DEFINE d == currentDecisionLevel
           H == {i \in DOMAIN assumptions : IsFalse(assumptions[i])}
           F == IF HasUndefinedLiterals THEN FalseAhead ELSE H
           n == FirstOf(UndefinedAhead \cup F) - 1 - d
           a == assumptions[FirstOf(F)]
<1>1. /\ pc = "loop" /\ F # {}
      /\ core' = IF mode \in {"core", "minimize"} THEN AnalyzeFinal(a) ELSE <<>>
      /\ unrollVector' = IF HasUndefinedLiterals
                         THEN unrollVector \o [i \in 1 .. n |-> Len(trail)] ELSE unrollVector
      /\ pc' = "incoherent"
      /\ UNCHANGED <<instance, mode, trail, level, reason, phase, nextVariable, visit, conflict,
                     binary, clauses, learned, database, analysis, assumptions, checked, found, counters,
                     restarts, deletions>>
    BY DEF AssumptionFalse, database, counters
<1>2. /\ SearchInv /\ DatabaseInv /\ KeptInv /\ FoundInv /\ AssumptionInv /\ CoreInv /\ AnalysisInv
      /\ assumptions \in Seq(Literal) /\ ControlInv
      /\ ToFind' = ToFind /\ Models' = Models
      /\ visit = NoVisit /\ conflict = NoConflict /\ Quiet
    BY <1>1, ModelsKept DEF IInv, PropagationInv, AssumptionInv
<1>3. /\ d \in Nat /\ Len(trail) \in Nat /\ d = Len(unrollVector)
      /\ Len(assumptions) \in Nat /\ DOMAIN assumptions = 1 .. Len(assumptions)
      /\ \A i \in 1 .. Len(assumptions) : assumptions[i] \in Literal
    BY <1>2, SearchFacts, ElementOfSeq, LenProperties DEF currentDecisionLevel
<1>4. /\ Ahead = d + 1 .. Len(assumptions) /\ Ahead \in SUBSET Nat
      /\ UndefinedAhead \subseteq Ahead /\ FalseAhead \subseteq Ahead
    BY <1>3 DEF Ahead, UndefinedAhead, FalseAhead
<1>5. F \in SUBSET (1 .. Len(assumptions)) /\ F \in SUBSET Nat /\ \A i \in F : IsFalse(assumptions[i])
    BY <1>3, <1>4 DEF FalseAhead
<1>6. a \in Literal /\ IsFalse(a) /\ a \in Lits(assumptions)
    <2>1. FirstOf(F) \in F
        <3> HIDE DEF F
        <3> QED BY <1>1, <1>5, FirstOfFacts
    <2> HIDE DEF F
    <2>2. FirstOf(F) \in 1 .. Len(assumptions)
        BY <1>5, <2>1
    <2>3. a \in Lits(assumptions)
        BY <1>3, <2>2 DEF Lits
    <2> QED BY <1>3, <1>5, <2>1, <2>2, <2>3
<1> HIDE DEF d, F, n, a
<1>7. mode # "bc"
    <2>1. assumptions # <<>>
        <3> SUFFICES ASSUME assumptions = <<>>
                     PROVE  FALSE
            OBVIOUS
        <3>1. Len(assumptions) = 0
            BY EmptySeq
        <3>2. PICK i : i \in F
            BY <1>1
        <3>3. i \in 1 .. Len(assumptions)
            BY <1>5, <3>2
        <3> QED BY ONLY <3>1, <3>3
    <2> QED BY <1>2, <2>1 DEF AssumptionInv
(* In front of the first open or false assumption no choice was made.      *)
<1>8. mode # "bt" => d < Len(assumptions)
    <2> SUFFICES ASSUME mode # "bt", Len(assumptions) <= d
                 PROVE  FALSE
        BY <1>3
    <2>1. PICK i \in 1 .. Len(assumptions) : IsFalse(assumptions[i])
        BY <1>1, <1>5
    <2>2. i <= Reached
        BY <1>1, <1>3, <2>1 DEF Reached, d
    <2>3. IsTrue(assumptions[i])
        BY <1>1, <1>2, <2>2 DEF AssumptionInv, LastRefuted
    <2> QED BY <1>2, <1>3, <2>1, <2>3, SearchFacts
<1>9. /\ SearchInv' /\ currentDecisionLevel' \in Nat /\ Base' \in Nat /\ Base' <= Len(trail)
      /\ \/ UNCHANGED unrollVector /\ currentDecisionLevel' = d
         \/ /\ d <= currentDecisionLevel' /\ currentDecisionLevel' < Len(assumptions)
            /\ \A i \in d + 1 .. currentDecisionLevel' : IsTrue(assumptions[i])
    <2>1. CASE HasUndefinedLiterals
        <3> DEFINE f == FirstOf(UndefinedAhead \cup F)
        <3>1. F \subseteq Ahead /\ F # {} /\ F = FalseAhead
            BY <1>1, <1>4, <2>1 DEF F
        <3>2. f \in Ahead /\ \A j \in UndefinedAhead \cup F : f <= j
            <4>1. UndefinedAhead \cup F \in SUBSET Nat /\ UndefinedAhead \cup F # {}
                BY <1>4, <3>1
            <4> QED BY <1>4, <3>1, <4>1, FirstOfFacts
        <3>3. n = f - 1 - d
            BY DEF n
        <3> HIDE DEF f
        <3>4. /\ f \in d + 1 .. Len(assumptions) /\ n \in Nat /\ n = f - 1 - d /\ d + n = f - 1
              /\ d + n < Len(assumptions)
            BY <1>3, <1>4, <3>2, <3>3
        <3>5. Opens(trail, unrollVector, n, unrollVector')
            BY <1>1, <2>1 DEF Opens
        <3>6. /\ unrollVector' \in Seq(Nat) /\ Len(unrollVector') = Len(unrollVector) + n
              /\ OrderedTrail(trail, level, unrollVector')
              /\ \A rs, MS : Justified(trail, level, rs, unrollVector, MS) => Justified(trail, level, rs, unrollVector', MS)
            BY <1>2, <3>4, <3>5, LevelsOpened DEF SearchInv
        <3>7. SearchInv'
            BY <1>1, <1>2, <3>6 DEF SearchInv
        <3>8. currentDecisionLevel' = d + n /\ currentDecisionLevel' \in Nat
            BY <1>3, <3>4, <3>6 DEF currentDecisionLevel
        <3>9. Base' \in Nat /\ Base' <= Len(trail)
            <4>1. CASE currentDecisionLevel' = 0
                BY <1>3, <4>1 DEF Base
            <4>2. CASE currentDecisionLevel' # 0
                <5>1. Base' = unrollVector'[currentDecisionLevel'] /\ currentDecisionLevel' \in 1 .. Len(unrollVector')
                    BY <3>8, <4>2 DEF Base, currentDecisionLevel
                <5> QED BY <1>3, <3>6, <5>1 DEF OrderedTrail
            <4> QED BY <4>1, <4>2
        <3>10. \A i \in d + 1 .. currentDecisionLevel' : IsTrue(assumptions[i])
            <4> TAKE i \in d + 1 .. currentDecisionLevel'
            <4>1. i \in Ahead /\ i < f /\ i \in Nat
                BY <1>3, <1>4, <3>4, <3>8
            <4>2. i \notin UndefinedAhead /\ i \notin FalseAhead
                BY <1>3, <3>1, <3>2, <3>4, <4>1
            <4> QED BY <4>1, <4>2 DEF UndefinedAhead, FalseAhead, IsUndefined
        <3> QED BY <1>3, <3>4, <3>7, <3>8, <3>9, <3>10
    <2>2. CASE ~HasUndefinedLiterals
        <3>1. UNCHANGED unrollVector
            BY <1>1, <2>2
        <3>2. SearchInv'
            BY <1>1, <1>2, <3>1 DEF SearchInv
        <3>3. Base' = Base /\ currentDecisionLevel' = d
            BY <1>1, <3>1, SameSearch DEF d
        <3> QED BY <1>2, <1>3, <3>1, <3>2, <3>3, BaseFacts
    <2> QED BY <2>1, <2>2
<1>10. DatabaseInv' /\ Watches' = Watches
    BY <1>1, <1>2, DatabaseUnchanged DEF Watches
<1>11. TrailKeeps(0) /\ NoNewDecision
    BY <1>1 DEF TrailKeeps, NoNewDecision, Level
<1>12. KeptInv' /\ FoundInv' /\ AnalysisInv' /\ CoherentInv' /\ ControlInv'
    <2>1. KeptInv'
        BY <1>1, <1>2, <1>11, KeptUnchanged
    <2>2. FoundInv' /\ AnalysisInv' /\ CoherentInv'
        BY <1>1, <1>2, FoundUnchanged, AnalysisUnchanged DEF CoherentInv
    <2>3. ControlInv'
        BY <1>1, <1>2 DEF ControlInv
    <2> QED BY <2>1, <2>2, <2>3
<1>13. PropagationInv'
    <2>1. Quiet'
        BY <1>1, <1>2, <1>10 DEF Quiet, LoopsHold, IsTrue
    <2>2. Guarded(Watches', trail', level', Base')
        <3>1. Guarded(Watches', trail, level, Base')
            BY <1>2, <1>3, <1>9, <1>10, FewerGuarded DEF Quiet
        <3> QED BY <1>1, <3>1
    <2> QED BY <1>1, <1>2, <2>1, <2>2 DEF IInv, PropagationInv
<1>14. AssumptionInv'
    <2>1. Reached' = currentDecisionLevel' /\ Reached = d
        BY <1>1 DEF Reached, d
    <2>2. LastRefuted' = LastRefuted
        BY <1>1 DEF LastRefuted, IsFalse, Level
    <2>3. CASE UNCHANGED unrollVector /\ currentDecisionLevel' = d
        <3>1. \A k : NonEmpty(k)' <=> NonEmpty(k)
            BY <1>1, <2>3, SameSearch
        <3> QED BY <1>1, <1>2, <2>1, <2>2, <2>3, <3>1 DEF AssumptionInv, IsTrue, Level
    <2>4. CASE /\ d <= currentDecisionLevel' /\ currentDecisionLevel' < Len(assumptions)
               /\ \A i \in d + 1 .. currentDecisionLevel' : IsTrue(assumptions[i])
        <3>1. ASSUME NEW i \in 1 .. Len(assumptions), i <= currentDecisionLevel'
              PROVE  \/ IsTrue(assumptions[i]) /\ Level(assumptions[i]) <= i
                     \/ i = Len(assumptions) /\ LastRefuted
            <4>1. CASE i <= d
                BY <1>1, <1>2, <2>1, <4>1 DEF AssumptionInv
            <4>2. CASE i \in d + 1 .. currentDecisionLevel'
                <5>1. IsTrue(assumptions[i])
                    BY <2>4, <4>2
                <5>2. Level(assumptions[i]) \in 0 .. d
                    BY <1>2, <1>3, <5>1, SearchFacts DEF d
                <5>3. Level(assumptions[i]) <= i
                    BY <1>3, <1>9, <4>2, <5>2
                <5> QED BY <5>1, <5>3
            <4>3. i <= d \/ i \in d + 1 .. currentDecisionLevel'
                BY <1>3, <1>9, <3>1
            <4> QED BY <4>1, <4>2, <4>3
        <3>2. \A k \in Len(assumptions) + 1 .. currentDecisionLevel' : FALSE
            BY <1>3, <1>9, <2>4
        <3> QED BY <1>1, <1>2, <2>1, <2>2, <3>1, <3>2 DEF AssumptionInv, IsTrue, Level
    <2> QED BY <1>9, <2>3, <2>4
<1>15. CoreInv'
    <2>1. DecidedInv => DecidedInv'
        BY <1>1 DEF DecidedInv, Level
    <2>2. CASE mode \in {"core", "minimize"}
        <3>1. core' = AnalyzeFinal(a)
            BY <1>1, <2>2
        <3>2. /\ core' \in Seq(Literal) /\ Refuted(Lits(core'))
              /\ \A x \in Lits(core') :
                    x = a \/ (x \in Lits(trail) /\ reason[Variable(x)] = {} /\ Level(x) > 0)
            BY <1>2, <1>6, <1>7, <3>1, FinalCore
        <3>3. DecidedInv /\ Lits(assumptions) \subseteq Lits(instance.assumptions)
            BY <1>2, <2>2 DEF CoreInv
        <3>4. Lits(core') \subseteq Lits(assumptions)
            <4> SUFFICES ASSUME NEW x \in Lits(trail), reason[Variable(x)] = {}, Level(x) > 0
                         PROVE  x \in Lits(assumptions)
                BY <1>6, <3>2
            <4>1. Level(x) \in 0 .. d
                BY <1>2, SearchFacts DEF d
            <4>2. Level(x) \in 1 .. Len(assumptions)
                BY <1>3, <1>8, <2>2, <4>1
            <4> QED BY <1>3, <3>3, <4>2 DEF DecidedInv, Lits
        <3> QED BY <1>1, <1>2, <2>1, <2>2, <3>2, <3>3, <3>4 DEF CoreInv, Refuted, CoreResult
    <2>3. CASE mode \notin {"core", "minimize"}
        BY <1>1, <1>2, <2>3 DEF CoreInv
    <2> QED BY <2>2, <2>3
<1> QED BY <1>9, <1>10, <1>12, <1>13, <1>14, <1>15 DEF IInv

-----------------------------------------------------------------------------
(* A complete trail, propagated and passed by the post-propagators, is a   *)
(* model: every clause of the input is still kept.                         *)
Reported == {l \in Lits(trail) : l > 0}
(* The interpretation reported agrees with the trail.                      *)
LEMMA TrueHolds ==
    ASSUME SearchInv, NEW l \in Literal, IsTrue(l)
    PROVE  Holds(Reported, l)
<1>1. CASE l > 0
    BY <1>1 DEF Holds, Reported, IsTrue
<1>2. CASE ~(l > 0)
    <2>1. -l \notin Lits(trail)
        BY SearchFacts DEF IsFalse
    <2> QED BY <1>2, <2>1 DEF Holds, Reported
<1> QED BY <1>1, <1>2

(* It satisfies all input clauses and those of the post-propagators.       *)
LEMMA ModelFound ==
    ASSUME SearchInv, DatabaseInv, KeptInv, Quiet, instance \in Instances, Len(trail) >= Cardinality(Var)
    PROVE  Reported \in Models /\ \A D \in Kept : Sat(Reported, D)
<1>1. trail \in Trails /\ Len(trail) \in Nat /\ \A l \in Literal : IsTrue(l) \/ IsFalse(l)
    BY CompleteTrail, SearchFacts DEF SearchInv
<1>2. \A W \in Watches : \E x \in W : IsTrue(x) /\ x \in Literal
    <2> TAKE W \in Watches
    <2>1. PICK x \in W : x \in Literal
        BY DatabaseFacts
    <2>2. CASE IsTrue(x)
        BY <2>1, <2>2
    <2>3. CASE IsFalse(x)
        <3>1. PICK i \in 1 .. Len(trail) : trail[i] = -x
            BY <1>1, <2>3, TrailTyping DEF IsFalse
        <3>2. -trail[i] \in W
            BY <2>1, <3>1, LiteralFacts
        <3>3. \E y \in W : y \in Lits(trail)
            BY <3>2 DEF Quiet, Guarded
        <3> QED BY <1>1, <3>3, TrailTyping DEF IsTrue
    <2> QED BY <1>1, <2>1, <2>2, <2>3
<1>3. \A D \in Kept : \E x \in D : IsTrue(x) /\ x \in Literal
    <2> TAKE D \in Kept
    <2>1. CASE D \in Database
        BY <1>2, <2>1, DatabaseFacts
    <2>2. CASE D \in {{l} : l \in Zero}
        <3>1. PICK l \in Zero : D = {l}
            BY <2>2
        <3> QED BY <1>1, <3>1, TrailTyping DEF Zero, IsTrue
    <2> QED BY <2>1, <2>2 DEF Kept, Database
<1>4. \A D \in Kept : Sat(Reported, D)
    BY <1>3, TrueHolds DEF Sat
<1>5. \A C \in instance.input : Sat(Reported, C)
    BY <1>4 DEF KeptInv, Sat
<1>6. \A L \in instance.loops : Sat(Reported, L)
    <2> TAKE L \in instance.loops
    <2>1. PICK x \in L : IsTrue(x)
        BY DEF Quiet, LoopsHold
    <2>2. x \in Literal
        BY ProblemTyping
    <2> QED BY <2>1, <2>2, TrueHolds DEF Sat
<1>7. Reported \in SUBSET Var
    <2> SUFFICES ASSUME NEW l \in Lits(trail), l > 0
                 PROVE  l \in Var
        BY DEF Reported
    <2>1. l \in Literal
        BY <1>1, TrailTyping
    <2> QED BY <2>1, LiteralFacts DEF Variable
<1> QED BY <1>4, <1>5, <1>6, <1>7 DEF Models, ModelsOf

LEMMA AnswerSetStep ==
    ASSUME IInv, AnswerSet
    PROVE  IInv'
<1>1. /\ pc = "loop" /\ ~HasUndefinedLiterals
      /\ \A i \in DOMAIN assumptions : ~IsFalse(assumptions[i])
      /\ found' = Append(found, Reported)
      /\ pc' = IF mode \in {"core", "minimize"} \/ Len(found') >= MaxModels THEN "end" ELSE "coherent"
      /\ UNCHANGED <<instance, mode, search, trail, level, reason, phase, unrollVector, nextVariable,
                     visit, conflict, database, binary, clauses, learned, analysis, assumptions,
                     checked, core, restarts, deletions>>
    BY DEF AnswerSet, search, database, counters, Reported
<1>2. /\ SearchInv /\ DatabaseInv /\ KeptInv /\ FoundInv /\ AssumptionInv /\ CoreInv /\ AnalysisInv
      /\ assumptions \in Seq(Literal) /\ ControlInv /\ instance \in Instances
      /\ visit = NoVisit /\ conflict = NoConflict /\ Quiet
      /\ found \in Seq(SUBSET Var) /\ core = <<>>
    BY <1>1 DEF IInv, PropagationInv, AssumptionInv, FoundInv, ControlInv, CoreInv
<1>3. Len(trail) >= Cardinality(Var)
    BY <1>1, <1>2, CompleteTrail, SearchFacts DEF HasUndefinedLiterals
<1>4. Reported \in Models /\ Reported \in SUBSET Var
    BY <1>2, <1>3, ModelFound, ModelsToFind
<1>5. /\ found' \in Seq(SUBSET Var) /\ Len(found') = Len(found) + 1 /\ Len(found) \in Nat
      /\ \A n \in 1 .. Len(found) : found'[n] = found[n]
      /\ found'[Len(found')] = Reported /\ found' # <<>>
    <2>1. /\ found' \in Seq(SUBSET Var) /\ Len(found') = Len(found) + 1 /\ Len(found) \in Nat
          /\ \A n \in 1 .. Len(found) : found'[n] = found[n]
          /\ found'[Len(found) + 1] = Reported
        BY <1>1, <1>2, <1>4, AppendProperties, LenProperties
    <2> QED BY <2>1, EmptySeq
<1>6. Models' = Models /\ ToFind' \subseteq ToFind
    <2>1. Models' = Models
        BY <1>1 DEF Models
    <2>2. Lits(found) \subseteq Lits(found')
        <3> SUFFICES ASSUME NEW n \in 1 .. Len(found)
                     PROVE  found[n] \in Lits(found')
            BY <1>2, LenProperties DEF Lits
        <3>1. n \in DOMAIN found'
            BY <1>5, LenProperties
        <3> QED BY <1>5, <3>1 DEF Lits
    <2> QED BY <1>1, <2>1, <2>2 DEF ToFind
<1>7. SearchInv' /\ DatabaseInv' /\ Watches' = Watches /\ Base' = Base
    BY <1>1, <1>2, <1>6, SearchUnchanged, DatabaseUnchanged, SameSearch DEF Watches
<1>8. KeptInv'
    <2>1. Kept' = Kept
        BY <1>1 DEF Kept, Zero, Level
    <2>2. ASSUME mode = "bc", NEW n \in 1 .. Len(found')
          PROVE  \/ n = Len(found') /\ pc' \in {"coherent", "end"}
                 \/ \E D \in Kept : ~Sat(found'[n], D)
        <3>1. CASE n \in 1 .. Len(found)
            <4>1. \E D \in Kept : ~Sat(found[n], D)
                BY <1>1, <1>2, <2>2, <3>1 DEF KeptInv
            <4> QED BY <1>5, <3>1, <4>1
        <3>2. CASE n = Len(found')
            BY <1>1, <3>2
        <3> QED BY <1>5, <3>1, <3>2
    <2> QED BY <1>1, <1>2, <2>1, <2>2 DEF KeptInv
<1>9. FoundInv'
    <2>1. \A n \in 1 .. Len(found') : found'[n] \in Models
        <3> TAKE n \in 1 .. Len(found')
        <3>1. CASE n \in 1 .. Len(found)
            BY <1>2, <1>5, <3>1 DEF FoundInv
        <3>2. CASE n = Len(found')
            BY <1>4, <1>5, <3>2
        <3> QED BY <1>5, <3>1, <3>2
    <2> QED BY <1>1, <1>5, <1>6, <2>1 DEF FoundInv
<1>10. PropagationInv'
    <2>1. Quiet'
        BY <1>1, <1>2, <1>7 DEF Quiet, LoopsHold, IsTrue
    <2> QED BY <1>1, <1>2, <1>7, <2>1 DEF IInv, PropagationInv
<1>11. \A i \in 1 .. Len(assumptions) : assumptions[i] \in Literal /\ IsTrue(assumptions[i])
    <2> TAKE i \in 1 .. Len(assumptions)
    <2>1. assumptions[i] \in Literal /\ i \in DOMAIN assumptions
        BY <1>2, ElementOfSeq, LenProperties
    <2> QED BY <1>1, <1>2, <1>3, <2>1, CompleteTrail
<1>12. CoherentInv' /\ AnalysisInv' /\ ControlInv'
    <2>1. CoherentInv'
        BY <1>1, <1>2, <1>3, <1>5, <1>11 DEF CoherentInv, ControlInv, Reported, IsTrue
    <2> QED BY <1>1, <1>2, <2>1, AnalysisUnchanged DEF ControlInv
<1>13. AssumptionInv'
    <2>1. \A k : NonEmpty(k)' <=> NonEmpty(k)
        BY <1>1, SameSearch
    <2>2. Reached' = Reached /\ LastRefuted' = LastRefuted
        BY <1>1 DEF Reached, LastRefuted, currentDecisionLevel, IsFalse, Level
    <2> QED BY <1>1, <1>2, <1>5, <2>1, <2>2 DEF AssumptionInv, IsTrue, Level
<1>14. CoreInv'
    <2>1. DecidedInv => DecidedInv'
        BY <1>1 DEF DecidedInv, Level
    <2>2. CASE mode \in {"core", "minimize"}
        <3>1. \A l \in Lits(assumptions) : Holds(Reported, l)
            <4> SUFFICES ASSUME NEW i \in 1 .. Len(assumptions)
                         PROVE  Holds(Reported, assumptions[i])
                BY <1>2, LenProperties DEF Lits
            <4> QED BY <1>2, <1>11, TrueHolds
        <3>2. mode = "core" /\ assumptions = instance.assumptions
            <4>1. mode # "minimize"
                BY <1>2, <1>4, <3>1 DEF CoreInv, Refuted
            <4> QED BY <1>2, <2>2, <4>1 DEF CoreInv
        <3>3. found = <<>>
            BY <1>1, <1>2, <2>2 DEF FoundInv
        <3>4. \A M \in Lits(found') : M = Reported
            <4>1. Len(found) = 0
                BY <3>3, EmptySeq
            <4>2. DOMAIN found' = 1 .. Len(found')
                BY <1>5, LenProperties
            <4> QED BY <1>5, <4>1, <4>2 DEF Lits
        <3>5. Lits(<<>>) = {}
            BY DEF Lits
        <3>6. CoreResult'
            BY <1>1, <1>2, <1>4, <1>5, <1>6, <3>1, <3>2, <3>4, <3>5 DEF CoreResult
        <3> QED BY <1>1, <1>2, <2>1, <2>2, <3>2, <3>6 DEF CoreInv
    <2>3. CASE mode \notin {"core", "minimize"}
        BY <1>1, <1>2, <2>3 DEF CoreInv
    <2> QED BY <2>2, <2>3
<1> QED BY <1>7, <1>8, <1>9, <1>10, <1>12, <1>13, <1>14 DEF IInv

-----------------------------------------------------------------------------
(* Blocking: a model that contains all decisions is the one reported.      *)
LEMMA BlockedEntailed ==
    ASSUME SearchInv, mode = "bc", Len(trail) >= Cardinality(Var), Reported \in Lits(found)
    PROVE  Entails(ToFind, Opposite(Decisions))
<1> SUFFICES ASSUME NEW M \in ToFind, \A l \in Opposite(Decisions) : ~Holds(M, l)
             PROVE  FALSE
    BY DEF Entails, Sat
<1>1. /\ trail \in Trails /\ reason \in Reasons /\ DOMAIN trail = 1 .. Len(trail) /\ Len(trail) \in Nat
      /\ Justified(trail, level, reason, unrollVector, ToFind)
      /\ \A l \in Literal : IsTrue(l) \/ IsFalse(l)
    BY TrailTyping, CompleteTrail DEF SearchInv
<1>2. ASSUME NEW i \in 1 .. Len(trail)
      PROVE  \/ Holds(M, trail[i])
             \/ /\ reason[Variable(trail[i])] # {}
                /\ \A j \in 1 .. i - 1 : -trail[j] \in reason[Variable(trail[i])] =>
                      j \in 1 .. Len(trail) \/ Holds(M, trail[j])
    <2>1. \A j \in 1 .. i - 1 : j \in 1 .. Len(trail)
        BY <1>1
    <2>2. CASE level[Variable(trail[i])] = 0
        BY <1>1, <2>2 DEF Justified
    <2>3. CASE level[Variable(trail[i])] # 0 /\ reason[Variable(trail[i])] = {}
        <3>1. trail[i] \in Decisions
            BY <1>1, <2>3 DEF Decisions
        <3>2. ~Holds(M, -trail[i])
            BY <3>1 DEF Opposite
        <3>3. trail[i] \in Literal
            BY <1>1, TrailTyping
        <3> QED BY <3>2, <3>3, HoldsOpposite
    <2> QED BY <2>1, <2>2, <2>3
<1>3. \A i \in 1 .. Len(trail) : Holds(M, trail[i])
    <2>1. 1 .. Len(trail) \in SUBSET (1 .. Len(trail))
        OBVIOUS
    <2> QED BY <1>1, <1>2, <2>1, TrailFollows
<1>4. \A l \in Literal : IsTrue(l) => Holds(M, l)
    BY <1>1, <1>3, TrailTyping DEF IsTrue
<1>5. M \in SUBSET Var
    BY ModelsToFind
<1>6. M = Reported
    <2>1. \A v \in Var : v \in M <=> v \in Reported
        <3> TAKE v \in Var
        <3>1. v \in Literal /\ -v \in Literal /\ v > 0 /\ v \in Nat
            BY VariableOfVar
        <3>2. CASE IsTrue(v)
            BY <1>4, <3>1, <3>2 DEF Reported, IsTrue, Holds
        <3>3. CASE IsFalse(v)
            <4>1. ~Holds(M, v)
                BY <1>4, <3>1, <3>3, HoldsOpposite DEF IsTrue, IsFalse
            <4>2. v \notin Lits(trail)
                BY <3>1, <3>3, SearchFacts DEF IsTrue
            <4> QED BY <3>1, <4>1, <4>2 DEF Reported, Holds
        <3> QED BY <1>1, <3>1, <3>2, <3>3
    <2>2. Reported \subseteq Var
        <3> SUFFICES ASSUME NEW l \in Lits(trail), l > 0
                     PROVE  l \in Var
            BY DEF Reported
        <3>1. l \in Literal
            BY <1>1, TrailTyping
        <3> QED BY <3>1, LiteralFacts DEF Variable
    <2> QED BY <1>5, <2>1, <2>2
<1> QED BY <1>6 DEF ToFind

(* The blocking clause is false, and false in the model reported.          *)
LEMMA BlockedFacts ==
    ASSUME SearchInv
    PROVE  /\ Opposite(Decisions) \in SUBSET Literal
           /\ \A l \in Opposite(Decisions) : IsFalse(l) /\ Level(l) > 0 /\ -l \in Decisions
           /\ Opposite(Decisions) \cap Opposite(Opposite(Decisions)) = {}
           /\ ~Sat(Reported, Opposite(Decisions))
<1>1. trail \in Trails /\ DOMAIN trail = 1 .. Len(trail)
    BY TrailTyping DEF SearchInv
<1>2. \A x \in Decisions : x \in Literal /\ IsTrue(x) /\ Level(x) > 0
    <2> TAKE x \in Decisions
    <2>1. PICK i \in 1 .. Len(trail) : x = trail[i] /\ level[Variable(trail[i])] # 0
        BY <1>1 DEF Decisions
    <2>2. x \in Literal /\ x \in Lits(trail) /\ Level(x) # 0
        BY <1>1, <2>1, TrailTyping DEF Level
    <2> QED BY <2>2, SearchFacts DEF IsTrue
<1>3. \A l \in Opposite(Decisions) : l \in Literal /\ IsFalse(l) /\ Level(l) > 0 /\ -l \in Decisions
    <2> TAKE l \in Opposite(Decisions)
    <2>1. PICK x \in Decisions : l = -x
        BY DEF Opposite
    <2> QED BY <1>2, <2>1, LiteralFacts, SearchFacts
<1>4. ASSUME NEW l \in Opposite(Decisions), l \in Opposite(Opposite(Decisions))
      PROVE  FALSE
    <2>1. PICK y \in Opposite(Decisions) : l = -y
        BY <1>4 DEF Opposite
    <2>2. IsFalse(l) /\ IsFalse(y) /\ y \in Literal /\ l \in Literal
        BY <1>3, <2>1
    <2> QED BY <2>1, <2>2, SearchFacts
<1>5. ASSUME NEW l \in Opposite(Decisions), Holds(Reported, l)
      PROVE  FALSE
    <2>1. l \in Literal /\ IsTrue(-l) /\ -l \in Literal
        BY <1>3, SearchFacts, LiteralFacts
    <2> QED BY <1>5, <2>1, TrueHolds, HoldsOpposite
<1> QED BY <1>3, <1>4, <1>5 DEF Sat

(* The model that was reported last is refuted by the clause.              *)
LEMMA BlockedKept ==
    ASSUME KeptInv, mode = "bc", UNCHANGED <<instance, mode, found>>, found # <<>>,
           found \in Seq(SUBSET Var),
           \A D \in Kept : \E E \in Kept' : E \subseteq D,
           NEW C \in Kept', ~Sat(found[Len(found)], C)
    PROVE  KeptInv'
<1>1. \A D \in instance.input : \E E \in Kept' : E \subseteq D
    BY DEF KeptInv
<1>2. ASSUME NEW n \in 1 .. Len(found)
      PROVE  \E E \in Kept' : ~Sat(found[n], E)
    <2>1. CASE n = Len(found)
        BY <2>1
    <2>2. CASE n # Len(found)
        BY <2>2 DEF KeptInv, Sat
    <2> QED BY <2>1, <2>2
<1> QED BY <1>1, <1>2 DEF KeptInv

Simplifies(T, R, Q) ==
    \/ R = clauses /\ Q = learned
    \/ IsSimplified(clauses, T, R) /\ IsSimplified(learned, T, Q)
Shrinks(S, T, R) ==
    /\ \A d \in R : /\ d \in WatchedClause
                    /\ \E c \in S : d.watch = c.watch /\ d.rest \subseteq c.rest
                    /\ Entails(ToFind, Literals(d))
    /\ \A c \in S : \/ \E d \in R : Literals(d) \subseteq Literals(c)
                    \/ \E l \in T : l \in Literals(c)
(* SimplifiedSet in one word.                                              *)
LEMMA SimplifiedShrinks ==
    ASSUME SearchInv, NEW S \in SUBSET WatchedClause, NEW T \in SUBSET Zero,
           \A c \in S : Entails(ToFind, Literals(c)),
           NEW R, IsSimplified(S, T, R)
    PROVE  Shrinks(S, T, R)
<1>1. (\A d \in R : /\ d \in WatchedClause
                   /\ \E c \in S : d.watch = c.watch /\ d.rest \subseteq c.rest
                   /\ Entails(ToFind, Literals(d)))
      /\ (\A c \in S : \/ \E d \in R : Literals(d) \subseteq Literals(c)
                      \/ \E l \in T : l \in Literals(c))
    BY SimplifiedSet
<1> QED BY <1>1 DEF Shrinks

Simpler(T, R, Q) ==
    /\ \A d \in R \cup Q :
           /\ d \in WatchedClause /\ Entails(ToFind, Literals(d)) /\ d.watch \in Watches
           /\ \E a, b \in Literal : a # b /\ d.watch = {a, b}
           /\ d.watch \cap d.rest = {}
    /\ \A c \in clauses : \/ \E d \in R : Literals(d) \subseteq Literals(c)
                          \/ \E l \in T : l \in Literals(c)
(* The database of BlockModel without the blocking clause.                 *)
LEMMA SimplifiedOrNot ==
    ASSUME SearchInv, DatabaseInv, NEW T \in SUBSET Zero, NEW R, NEW Q, Simplifies(T, R, Q)
    PROVE  Simpler(T, R, Q)
<1>1. \A c \in clauses \cup learned :
          /\ c \in WatchedClause /\ Entails(ToFind, Literals(c)) /\ c.watch \in Watches
          /\ \E a, b \in Literal : a # b /\ c.watch = {a, b}
          /\ c.watch \cap c.rest = {}
    BY DEF DatabaseInv, Database, Watches
<1>2. CASE R = clauses /\ Q = learned
    BY <1>1, <1>2 DEF Simpler
<1>3. CASE IsSimplified(clauses, T, R) /\ IsSimplified(learned, T, Q)
    <2>1. /\ clauses \in SUBSET WatchedClause /\ learned \in SUBSET WatchedClause
          /\ \A c \in clauses : Entails(ToFind, Literals(c))
          /\ \A c \in learned : Entails(ToFind, Literals(c))
        BY <1>1
    <2>2. Shrinks(clauses, T, R)
        BY <1>3, <2>1, SimplifiedShrinks
    <2>3. Shrinks(learned, T, Q)
        BY <1>3, <2>1, SimplifiedShrinks
    <2>4. \A d \in R \cup Q :
              /\ d.watch \in Watches
              /\ \E a, b \in Literal : a # b /\ d.watch = {a, b}
              /\ d.watch \cap d.rest = {}
        <3> TAKE d \in R \cup Q
        <3>1. PICK c \in clauses \cup learned : d.watch = c.watch /\ d.rest \subseteq c.rest
            BY <2>2, <2>3 DEF Shrinks
        <3>2. c.watch \cap c.rest = {} /\ c.watch \in Watches
            BY <1>1
        <3>3. \E a, b \in Literal : a # b /\ c.watch = {a, b}
            BY <1>1
        <3> QED BY <3>1, <3>2, <3>3
    <2> QED BY <2>2, <2>3, <2>4 DEF Shrinks, Simpler
<1> QED BY <1>2, <1>3 DEF Simplifies

(* What is true at level 0 stays, and stands for what is dropped.          *)
LEMMA ZeroStays ==
    ASSUME SearchInv, TrailKeeps(0), NEW T \in SUBSET Zero,
           \A D \in binary \cup {Literals(c) : c \in clauses} :
                 \/ \E E \in binary' \cup {Literals(c) : c \in clauses'} : E \subseteq D
                 \/ \E l \in T : l \in D
    PROVE  Zero \subseteq Zero' /\ \A D \in Kept : \E E \in Kept' : E \subseteq D
<1>1. Zero \subseteq Zero'
    BY DEF TrailKeeps, Zero
<1>2. ASSUME NEW D \in Kept
      PROVE  \E E \in Kept' : E \subseteq D
    <2>1. CASE \E l \in Zero : D = {l}
        BY <1>1, <2>1 DEF Kept
    <2>2. CASE D \in binary \cup {Literals(c) : c \in clauses}
        <3>1. CASE \E E \in binary' \cup {Literals(c) : c \in clauses'} : E \subseteq D
            BY <3>1 DEF Kept
        <3>2. CASE \E l \in T : l \in D
            <4>1. PICK l \in T : l \in D
                BY <3>2
            <4>2. {l} \in Kept'
                BY <1>1, <4>1 DEF Kept
            <4> QED BY <4>1, <4>2
        <3> QED BY <2>2, <3>1, <3>2
    <2> QED BY <2>1, <2>2 DEF Kept
<1> QED BY <1>1, <1>2

(* What blocking leaves alone, whichever form the clause takes.            *)
LEMMA BlockingStands ==
    ASSUME IInv, pc = "coherent", mode = "bc", SearchInv', TrailKeeps(0), NoNewDecision,
           currentDecisionLevel' = 0, pc' \in {"propagate", "loop"},
           UNCHANGED <<instance, mode, analysis, assumptions, checked, found, core, restarts, deletions>>
    PROVE  ControlInv' /\ FoundInv' /\ AnalysisInv' /\ CoherentInv' /\ AssumptionInv' /\ CoreInv'
<1>1. /\ SearchInv /\ FoundInv /\ AssumptionInv /\ CoreInv /\ AnalysisInv /\ ControlInv
      /\ currentDecisionLevel \in Nat
    BY SearchFacts DEF IInv
<1>2. Reached' = 0 /\ Reached = currentDecisionLevel
    BY DEF Reached
<1>3. Reached' \in Nat /\ Reached' <= Reached /\ TrailKeeps(Reached')
    BY <1>1, <1>2
<1>4. \A k \in 1 .. Reached' : NonEmpty(k) => NonEmpty(k)'
    BY <1>2
<1>5. AssumptionInv'
    BY <1>1, <1>3, <1>4, AssumptionStep
<1>6. CoreInv'
    BY <1>1, CoreStep
<1> QED BY <1>1, <1>5, <1>6, FoundUnchanged, AnalysisUnchanged DEF ControlInv, CoherentInv

LEMMA BlockModelStep ==
    ASSUME IInv, BlockModel
    PROVE  IInv'
<1> DEFINE d == currentDecisionLevel
           T == Lits(UnrolledTo(0))
<1>1. /\ pc = "coherent" /\ mode = "bc"
      /\ UNCHANGED <<instance, mode, visit, analysis, assumptions, checked, found, core, restarts, deletions>>
    BY DEF BlockModel, caller, counters
<1>2. PICK C : C = Opposite(Decisions)
    OBVIOUS
<1>3. \/ C = {} /\ pc' = "end" /\ UNCHANGED <<search, conflict, database>>
      \/ /\ Cardinality(C) = 1
         /\ \E l \in C : UnrollAndAssign(0, l, {})
         /\ SimplifyOnRestart(0, T)
         /\ pc' = "propagate" /\ UNCHANGED binary
      \/ /\ Unroll(0)
         /\ Cardinality(C) > 1
         /\ \/ clauses' = clauses \cup {Watch(FirstTwo(C), C)} /\ UNCHANGED learned
            \/ /\ clauses' = Simplified(clauses, T) \cup {Watch(FirstTwo(C), C)}
               /\ learned' = Simplified(learned, T)
         /\ pc' = "loop" /\ UNCHANGED <<conflict, binary>>
    BY <1>2 DEF BlockModel
<1>4. /\ SearchInv /\ DatabaseInv /\ KeptInv /\ FoundInv /\ AssumptionInv /\ CoreInv /\ AnalysisInv
      /\ ToFind' = ToFind /\ Models' = Models
      /\ visit = NoVisit /\ conflict = NoConflict
      /\ Quiet
    BY <1>1, ModelsKept DEF IInv, PropagationInv
<1>5. /\ Len(trail) >= Cardinality(Var) /\ found # <<>> /\ found[Len(found)] = Reported
      /\ found \in Seq(SUBSET Var)
    BY <1>1 DEF IInv, CoherentInv, Reported, FoundInv
<1>6. d \in Nat /\ Len(trail) \in Nat /\ 0 \in 0 .. d
    BY <1>4, SearchFacts
<1>7. /\ C \in SUBSET Literal
      /\ \A l \in C : IsFalse(l) /\ Level(l) > 0
      /\ C \cap Opposite(C) = {}
      /\ ~Sat(found[Len(found)], C)
    BY <1>2, <1>4, <1>5, BlockedFacts
<1>8. Entails(ToFind, C)
    <2>1. Len(found) \in Nat /\ Len(found) # 0 /\ DOMAIN found = 1 .. Len(found)
        BY <1>5, LenProperties, EmptySeq
    <2>2. Reported \in Lits(found)
        BY <1>5, <2>1 DEF Lits
    <2> QED BY <1>1, <1>2, <1>4, <1>5, <2>2, BlockedEntailed
<1>9. T \in SUBSET Zero /\ T \in SUBSET Lits(trail) /\ \A l \in T : Level(l) = 0
    BY <1>4, <1>6, UnrollPrefix, SearchFacts DEF Zero
<1>10. CASE C = {} /\ pc' = "end" /\ UNCHANGED <<search, conflict, database>>
    <2>1. ToFind' \subseteq ToFind /\ UNCHANGED <<search, database, conflict, trail, level, reason, unrollVector, binary, clauses, learned>>
        BY <1>4, <1>10 DEF search, database
    <2>2. SearchInv' /\ DatabaseInv'
        BY <1>4, <2>1, SearchUnchanged, DatabaseUnchanged
    <2>3. Base' = Base /\ TrailKeeps(0) /\ Watches' = Watches
        BY <2>1, SameSearch DEF Watches
    <2>4. KeptInv'
        BY <1>1, <1>4, <1>10, <2>1, <2>3, KeptUnchanged
    <2>5. FoundInv' /\ AnalysisInv' /\ CoherentInv'
        BY <1>1, <1>4, <1>10, FoundUnchanged, AnalysisUnchanged DEF CoherentInv
    <2>6. AssumptionInv' /\ CoreInv'
        BY <1>1, <1>4, <1>10 DEF AssumptionInv, CoreInv
    <2>7. PropagationInv'
        BY <1>1, <1>4, <1>10, <2>1, <2>3 DEF IInv, PropagationInv
    <2>8. ControlInv'
        BY <1>1, <1>10 DEF IInv, ControlInv
    <2> QED BY <2>2, <2>4, <2>5, <2>6, <2>7, <2>8 DEF IInv
<1> HIDE DEF d, T
<1>11. CASE /\ Cardinality(C) = 1
            /\ \E l \in C : UnrollAndAssign(0, l, {})
            /\ SimplifyOnRestart(0, T)
            /\ pc' = "propagate" /\ UNCHANGED binary
    <2>1. PICK l \in C : UnrollAndAssign(0, l, {})
        BY <1>11
    <2>2. C = {l}
        BY <1>7, <1>11, LiteralsFinite, OneElement
    <2>3. \A M \in ToFind : Holds(M, l)
        BY <1>8, <2>2 DEF Entails, Sat
    <2>4. /\ l \in Literal /\ 0 < Level(l) /\ {} \in SUBSET Literal /\ 0 \in 0 .. currentDecisionLevel
        BY <1>6, <1>7 DEF d
    <2>5. /\ SearchInv' /\ conflict' = NoConflict /\ currentDecisionLevel' = 0
          /\ TrailKeeps(0) /\ NoNewDecision
          /\ Base' \in Nat /\ Base' <= nextVariable' /\ nextVariable' \in Nat
          /\ nextVariable' = Len(UnrolledTo(0)) /\ nextVariable' <= Len(trail')
          /\ \A D : \A p \in Nat : Guarded(D, trail, level, p) /\ nextVariable' <= p
                  => Guarded(D, trail', level', nextVariable')
        BY <1>4, <2>1, <2>3, <2>4, Jumping
    <2>6. /\ DatabaseInv' /\ Watches' \subseteq Watches
          /\ \A D \in binary \cup {Literals(c) : c \in clauses} :
                \/ \E E \in binary' \cup {Literals(c) : c \in clauses'} : E \subseteq D
                \/ 0 = 0 /\ \E x \in T : x \in D
        BY <1>4, <1>9, <1>11, SimplifyStep
    <2>7. Zero \subseteq Zero' /\ \A D \in Kept : \E E \in Kept' : E \subseteq D
        BY <1>4, <1>9, <2>5, <2>6, ZeroStays
    <2>8. KeptInv'
        <3>1. l \in Zero'
            BY <1>4, <1>6, <2>1, <2>3, <2>4, UnrollAndAssignState DEF Zero, d
        <3>2. C \in Kept'
            BY <2>2, <3>1 DEF Kept
        <3> QED BY <1>1, <1>4, <1>5, <1>7, <2>7, <3>2, BlockedKept
    <2>9. PropagationInv'
        <3>1. Len(UnrolledTo(0)) <= Len(trail)
            BY <1>4, <2>4, UnrollPrefix
        <3>2. Guarded(Watches, trail', level', nextVariable')
            BY <1>4, <1>6, <2>5, <3>1 DEF Quiet
        <3> QED BY <1>1, <1>4, <1>11, <2>5, <2>6, <3>2, JumpedPropagation
    <2>10. ControlInv' /\ FoundInv' /\ AnalysisInv' /\ CoherentInv' /\ AssumptionInv' /\ CoreInv'
        BY <1>1, <1>11, <2>5, BlockingStands
    <2> QED BY <2>5, <2>6, <2>8, <2>9, <2>10 DEF IInv
<1>12. CASE /\ Unroll(0)
            /\ Cardinality(C) > 1
            /\ \/ clauses' = clauses \cup {Watch(FirstTwo(C), C)} /\ UNCHANGED learned
               \/ /\ clauses' = Simplified(clauses, T) \cup {Watch(FirstTwo(C), C)}
                  /\ learned' = Simplified(learned, T)
            /\ pc' = "loop" /\ UNCHANGED <<conflict, binary>>
    <2>1. PICK R, Q : /\ Simplifies(T, R, Q)
                      /\ clauses' = R \cup {Watch(FirstTwo(C), C)}
                      /\ learned' = Q
        BY <1>12 DEF Simplifies, IsSimplified
    <2>2. PICK a, b \in C : a # b /\ FirstTwo(C) = {a, b}
        BY <1>7, <1>12, FirstTwoOf
    <2>3. PICK w : w = Watch({a, b}, C)
        OBVIOUS
    <2>4. clauses' = R \cup {w}
        BY <2>1, <2>2, <2>3
    <2>5. /\ w \in WatchedClause /\ Literals(w) = C
          /\ w.watch = {a, b} /\ w.watch \cap w.rest = {}
          /\ a \in Literal /\ b \in Literal
        <3>1. a \in C /\ b \in C /\ a # b /\ C \in SUBSET Literal
            BY <1>7, <2>2
        <3>2. /\ Watch({a, b}, C) \in WatchedClause /\ Literals(Watch({a, b}, C)) = C
              /\ Watch({a, b}, C).watch = {a, b}
              /\ Watch({a, b}, C).watch \cap Watch({a, b}, C).rest = {}
            BY ONLY <3>1, WatchFacts
        <3> QED BY <2>3, <3>1, <3>2
    <2>6. Simpler(T, R, Q)
        BY <1>4, <1>9, <2>1, SimplifiedOrNot
    <2>7. /\ SearchInv' /\ TrailKeeps(0) /\ NoNewDecision
          /\ currentDecisionLevel' = 0 /\ nextVariable' = Len(trail') /\ Len(trail') \in Nat
          /\ Lits(trail') = {l \in Lits(trail) : Level(l) <= 0}
          /\ \A l : Level(l)' = Level(l)
          /\ LoopsHold => LoopsHold'
          /\ \A D : Guarded(D, trail, level, Len(trail)) =>
                 Guarded(D, trail', level', Len(trail')) /\ Guarded(D, trail', level', Base')
          /\ Base' \in Nat /\ Base' <= Len(trail')
        BY <1>1, <1>4, <1>6, <1>12, Unrolling DEF d
    <2>8. DatabaseInv'
        <3>1. \A c \in clauses' \cup learned' :
                  /\ c \in WatchedClause /\ Entails(ToFind, Literals(c))
                  /\ \E x, y \in Literal : x # y /\ c.watch = {x, y}
                  /\ c.watch \cap c.rest = {}
            <4> TAKE c \in clauses' \cup learned'
            <4>1. CASE c \in R \cup Q
                BY <2>6, <4>1 DEF Simpler
            <4>2. CASE c = w
                BY <1>8, <2>2, <2>5, <4>2
            <4> QED BY <2>1, <2>4, <4>1, <4>2
        <3>2. /\ binary' \subseteq SUBSET Literal
              /\ \A D \in binary' : \E x, y \in Literal : x # y /\ D = {x, y}
              /\ \A D \in binary' : Entails(ToFind, D)
            BY <1>4, <1>12 DEF DatabaseInv, Database
        <3>3. ToFind' = ToFind
            BY <1>4
        <3> QED BY <3>1, <3>2, <3>3 DEF DatabaseInv, Database
    <2>9. Watches' \subseteq Watches \cup {{a, b}}
        BY <1>12, <2>1, <2>4, <2>5, <2>6 DEF Watches, Simpler
    <2>10. KeptInv'
        <3>1. \A D \in binary \cup {Literals(c) : c \in clauses} :
                 \/ \E E \in binary' \cup {Literals(c) : c \in clauses'} : E \subseteq D
                 \/ \E l \in T : l \in D
            <4>1. R \subseteq clauses' /\ binary' = binary
                BY <1>12, <2>4
            <4> QED BY <2>6, <4>1 DEF Simpler
        <3>2. \A D \in Kept : \E E \in Kept' : E \subseteq D
            BY <1>4, <1>9, <2>7, <3>1, ZeroStays
        <3>3. C \in Kept'
            BY <2>4, <2>5 DEF Kept
        <3> QED BY <1>1, <1>4, <1>5, <1>7, <3>2, <3>3, BlockedKept
    <2>11. PropagationInv'
        <3>1. /\ Guarded(Watches, trail', level', Len(trail'))
              /\ Guarded(Watches, trail', level', Base')
              /\ LoopsHold'
            BY <1>4, <2>7 DEF Quiet
        <3>2. \A i \in 1 .. Len(trail') : -trail'[i] # a /\ -trail'[i] # b
            <4> TAKE i \in 1 .. Len(trail')
            <4>1. trail'[i] \in Lits(trail')
                BY <2>7, TrailTyping DEF SearchInv
            <4>2. trail'[i] \in Literal /\ Level(trail'[i]) <= 0 /\ Level(trail'[i]) \in Nat
                BY <1>4, <2>7, <4>1, SearchFacts
            <4>3. Level(-trail'[i]) = 0
                BY <1>4, <4>2, SearchFacts
            <4> QED BY <1>7, <2>2, <4>3
        <3>3. Len(trail') <= Len(trail') /\ \A p \in Nat : p <= Len(trail') => Guarded({{a, b}}, trail', level', p)
            BY <2>7, <3>2 DEF Guarded
        <3>4. Guarded(Watches', trail', level', Len(trail')) /\ Guarded(Watches', trail', level', Base')
            <4>1. Guarded({{a, b}}, trail', level', Len(trail')) /\ Guarded({{a, b}}, trail', level', Base')
                BY ONLY <2>7, <3>3
            <4> QED BY <2>9, <3>1, <4>1 DEF Guarded
        <3>5. Quiet'
            BY <2>7, <3>1, <3>4 DEF Quiet
        <3>6. /\ visit' = NoVisit /\ conflict' = NoConflict /\ pc' = "loop"
              /\ visit' \in [lit : Literal \cup {0}, binary : SUBSET Literal, watched : SUBSET WatchedClause]
              /\ conflict' \in [lit : Literal \cup {0}, clause : SUBSET Literal]
            BY <1>1, <1>4, <1>12 DEF NoVisit, NoConflict
        <3> QED BY <3>4, <3>5, <3>6 DEF PropagationInv
    <2>12. ControlInv' /\ FoundInv' /\ AnalysisInv' /\ CoherentInv' /\ AssumptionInv' /\ CoreInv'
        BY <1>1, <1>12, <2>7, BlockingStands
    <2> QED BY <2>7, <2>8, <2>10, <2>11, <2>12 DEF IInv
<1> QED BY <1>3, <1>10, <1>11, <1>12
-----------------------------------------------------------------------------
(* Chronological enumeration: the last choice not flipped yet is flipped.  *)
Distinct(s) == \A i, j \in 1 .. Len(s) : Variable(s[i]) = Variable(s[j]) => i = j
FlippedAt(choices, i, a, f) ==
    /\ a = Append(SubSeq(choices, 1, i - 1), -choices[i])
    /\ f = [j \in DOMAIN checked |-> j = i \/ (j < i /\ checked[j])]
(* There is a last choice not flipped yet.                                 *)
LEMMA LatestChoice ==
    ASSUME NEW choices \in Seq(Literal), FlipLatestChoice(choices), ~\A j \in DOMAIN choices : checked[j]
    PROVE  \E i \in 1 .. Len(choices) :
              /\ ~checked[i]
              /\ FlippedAt(choices, i, assumptions', checked')
              /\ IF Level(choices[i]) - 1 \in 0 .. currentDecisionLevel - 1
                 THEN Unroll(Level(choices[i]) - 1) ELSE UNCHANGED search
              /\ pc' = "loop"
<1> DEFINE P == {i \in DOMAIN choices : ~checked[i]}
           Last(i) == ~checked[i] /\ \A j \in i + 1 .. Len(choices) : checked[j]
<1>1. Len(choices) \in Nat /\ DOMAIN choices = 1 .. Len(choices)
    BY LenProperties
<1>2. P \in SUBSET (0 .. Len(choices)) /\ P # {}
    BY <1>1
<1>3. PICK m \in P : \A j \in P : j <= m
    <2> HIDE DEF P
    <2> QED BY <1>1, <1>2, GreatestOfNaturals
<1>4. m \in DOMAIN choices /\ Last(m)
    <2>1. \A j \in m + 1 .. Len(choices) : j \in DOMAIN choices /\ ~(j <= m)
        BY <1>1, <1>3
    <2> QED BY <1>3, <2>1
<1>5. PICK i : i = CHOOSE x \in DOMAIN choices : Last(x)
    OBVIOUS
<1>6. i \in DOMAIN choices /\ Last(i)
    <2> HIDE DEF Last
    <2> QED BY <1>4, <1>5
<1>7. /\ assumptions' = Append(SubSeq(choices, 1, i - 1), -choices[i])
      /\ checked' = [j \in DOMAIN checked |-> j = i \/ (j < i /\ checked[j])]
      /\ IF level[Variable(choices[i])] - 1 \in 0 .. currentDecisionLevel - 1
         THEN Unroll(level[Variable(choices[i])] - 1) ELSE UNCHANGED search
      /\ pc' = "loop"
    BY <1>5 DEF FlipLatestChoice
<1> QED BY <1>1, <1>6, <1>7 DEF FlippedAt, Level

(* The assumptions of the next call, one per variable.                     *)
LEMMA FlippedChoices ==
    ASSUME NEW choices \in Seq(Literal), Distinct(choices), NEW i \in 1 .. Len(choices),
           checked \in [0 .. Cardinality(Var) -> BOOLEAN],
           NEW a, NEW f, FlippedAt(choices, i, a, f)
    PROVE  /\ a \in Seq(Literal) /\ Len(a) = i /\ Distinct(a)
           /\ a[i] = -choices[i] /\ \A j \in 1 .. i - 1 : a[j] = choices[j]
           /\ f \in [0 .. Cardinality(Var) -> BOOLEAN] /\ f[i]
<1>1. Len(choices) \in Nat /\ \A j \in 1 .. Len(choices) : choices[j] \in Literal
    BY LenProperties, ElementOfSeq
<1>2. Cardinality(Var) \in Nat /\ Len(choices) <= Cardinality(Var)
    <2>1. choices \in Trails
        BY DEF Trails
    <2>2. \A m, n \in 1 .. Len(choices) : Variable(choices[m]) = Variable(choices[n]) => m = n
        BY DEF Distinct
    <2> QED BY <2>1, <2>2, TrailCounts
<1>3. PICK s : s = SubSeq(choices, 1, i - 1)
    OBVIOUS
<1>4. /\ s \in Seq(Literal) /\ Len(s) = i - 1
      /\ \A j \in 1 .. i - 1 : s[j] = choices[j]
    BY <1>1, <1>3, Prefix
<1>5. -choices[i] \in Literal /\ Variable(-choices[i]) = Variable(choices[i])
    BY <1>1, LiteralFacts
<1>6. a = Append(s, -choices[i])
    BY <1>3 DEF FlippedAt
<1>7. /\ a \in Seq(Literal) /\ Len(a) = i
      /\ a[i] = -choices[i] /\ \A j \in 1 .. i - 1 : a[j] = choices[j]
    BY <1>1, <1>4, <1>5, <1>6, AppendProperties
<1>8. \A j \in 1 .. i : Variable(a[j]) = Variable(choices[j])
    <2> TAKE j \in 1 .. i
    <2>1. CASE j = i
        BY <1>5, <1>7, <2>1
    <2>2. CASE j # i
        <3>1. j \in 1 .. i - 1
            BY <1>1, <2>2
        <3> QED BY <1>7, <3>1
    <2> QED BY <2>1, <2>2
<1>9. Distinct(a)
    <2>1. \A j \in 1 .. i : j \in 1 .. Len(choices)
        BY <1>1
    <2> QED BY <1>7, <1>8, <2>1 DEF Distinct
<1>10. f \in [0 .. Cardinality(Var) -> BOOLEAN]
    BY DEF FlippedAt
<1>11. f[i]
    <2>1. i \in DOMAIN checked
        BY <1>1, <1>2
    <2> QED BY <2>1 DEF FlippedAt
<1> QED BY <1>7, <1>9, <1>10, <1>11

(* The choices up to the one that is flipped are true at their levels.      *)
ChoicesHold(choices, i) ==
    \A j \in 1 .. i : j <= currentDecisionLevel => IsTrue(choices[j]) /\ Level(choices[j]) <= j
(* Flipping a choice: the level before it is gone back to.                 *)
LEMMA FlipStep ==
    ASSUME IInv, mode = "bt", pc \in {"coherent", "incoherent"}, found # <<>>, Quiet,
           NEW choices \in Seq(Literal), Distinct(choices),
           \A i \in 1 .. Len(choices) : checked[i] \/ ChoicesHold(choices, i),
           FlipLatestChoice(choices),
           UNCHANGED <<instance, mode, visit, conflict, database, analysis, found, core, restarts, deletions>>
    PROVE  IInv'
<1>1. /\ SearchInv /\ DatabaseInv /\ KeptInv /\ FoundInv /\ AssumptionInv /\ CoreInv /\ AnalysisInv
      /\ ToFind' = ToFind /\ Models' = Models
      /\ visit = NoVisit /\ conflict = NoConflict
      /\ Guarded(Watches, trail, level, Base)
      /\ currentDecisionLevel \in Nat
    BY ModelsKept, SearchFacts DEF IInv, PropagationInv
<1>2. DatabaseInv' /\ Watches' = Watches /\ UNCHANGED <<binary, clauses, learned>>
    BY <1>1, DatabaseUnchanged DEF Watches, database
<1>3. /\ visit' = NoVisit /\ conflict' = NoConflict
      /\ visit' \in [lit : Literal \cup {0}, binary : SUBSET Literal, watched : SUBSET WatchedClause]
      /\ conflict' \in [lit : Literal \cup {0}, clause : SUBSET Literal]
    BY <1>1 DEF NoVisit, NoConflict
<1>4. core = <<>>
    BY <1>1 DEF CoreInv
<1>5. CASE pc' = "end" /\ assumptions' = <<>> /\ UNCHANGED <<search, checked>>
    <2>1. ToFind' \subseteq ToFind /\ UNCHANGED <<trail, level, reason, unrollVector>>
        BY <1>1, <1>5 DEF search
    <2>2. SearchInv'
        BY <1>1, <1>5, <2>1, SearchUnchanged
    <2>3. Base' = Base /\ TrailKeeps(0)
        BY <2>1, SameSearch
    <2>4. KeptInv'
        BY <1>1, <1>2, <1>5, <2>3, KeptUnchanged
    <2>5. FoundInv' /\ AnalysisInv' /\ CoherentInv'
        BY <1>1, <1>5, FoundUnchanged, AnalysisUnchanged DEF CoherentInv
    <2>6. AssumptionInv'
        <3>1. Len(<<>>) = 0 /\ <<>> \in Seq(Literal)
            BY EmptySeq
        <3> QED BY <1>1, <1>5, <3>1 DEF AssumptionInv
    <2>7. CoreInv'
        BY <1>1, <1>4, <1>5 DEF CoreInv
    <2>8. PropagationInv'
        BY <1>1, <1>2, <1>3, <1>5, <2>1, <2>3 DEF PropagationInv
    <2>9. ControlInv'
        BY <1>5 DEF IInv, ControlInv
    <2> QED BY <1>2, <2>2, <2>4, <2>5, <2>6, <2>7, <2>8, <2>9 DEF IInv
<1>6. CASE ~\A j \in DOMAIN choices : checked[j]
    <2>1. PICK i \in 1 .. Len(choices) :
              /\ ~checked[i]
              /\ FlippedAt(choices, i, assumptions', checked')
              /\ IF Level(choices[i]) - 1 \in 0 .. currentDecisionLevel - 1
                 THEN Unroll(Level(choices[i]) - 1) ELSE UNCHANGED search
              /\ pc' = "loop"
        BY <1>6, LatestChoice
    <2>2. i \in Nat /\ i > 0 /\ choices[i] \in Literal /\ Level(choices[i]) \in Nat
          /\ \A j \in 1 .. i : choices[j] \in Literal /\ Level(choices[j]) \in Nat
        <3>1. Len(choices) \in Nat /\ \A j \in 1 .. Len(choices) : choices[j] \in Literal
            BY LenProperties, ElementOfSeq
        <3>2. \A j \in 1 .. i : j \in 1 .. Len(choices)
            BY <3>1
        <3> QED BY <1>1, <3>1, <3>2, SearchFacts
    <2>3. /\ assumptions' \in Seq(Literal) /\ Len(assumptions') = i /\ Distinct(assumptions')
          /\ assumptions'[i] = -choices[i] /\ \A j \in 1 .. i - 1 : assumptions'[j] = choices[j]
          /\ checked' \in [0 .. Cardinality(Var) -> BOOLEAN] /\ checked'[i]
        BY <1>1, <2>1, FlippedChoices DEF AssumptionInv
    <2>4. assumptions' # <<>>
        BY <2>2, <2>3, EmptySeq
    <2>5. \A j \in 1 .. i : j <= currentDecisionLevel => IsTrue(choices[j]) /\ Level(choices[j]) <= j
        BY <2>1 DEF ChoicesHold
    <2>6. PICK r : r = IF Level(choices[i]) - 1 \in 0 .. currentDecisionLevel - 1
                       THEN Level(choices[i]) - 1 ELSE currentDecisionLevel
        OBVIOUS
    <2>7. r \in 0 .. currentDecisionLevel
        BY <1>1, <2>2, <2>6
    <2>8. /\ SearchInv' /\ TrailKeeps(r) /\ TrailKeeps(0) /\ NoNewDecision
          /\ currentDecisionLevel' = r
          /\ Quiet' /\ Guarded(Watches', trail', level', Base')
        <3>1. CASE Unroll(r)
            <4>1. ToFind' \subseteq ToFind
                BY <1>1
            <4>2. /\ SearchInv' /\ TrailKeeps(r) /\ TrailKeeps(0) /\ NoNewDecision
                  /\ currentDecisionLevel' = r /\ nextVariable' = Len(trail')
                  /\ LoopsHold => LoopsHold'
                  /\ \A D : Guarded(D, trail, level, Len(trail)) =>
                         Guarded(D, trail', level', Len(trail')) /\ Guarded(D, trail', level', Base')
                BY <1>1, <2>7, <3>1, <4>1, Unrolling
            <4> QED BY <1>2, <4>2 DEF Quiet
        <3>2. CASE UNCHANGED search /\ r = currentDecisionLevel
            <4>1. ToFind' \subseteq ToFind /\ UNCHANGED <<trail, level, reason, unrollVector, nextVariable>>
                BY <1>1, <3>2 DEF search
            <4>2. SearchInv'
                BY <1>1, <3>2, <4>1, SearchUnchanged
            <4>3. Base' = Base /\ currentDecisionLevel' = currentDecisionLevel
                BY <4>1, SameSearch
            <4>4. TrailKeeps(r) /\ TrailKeeps(0) /\ NoNewDecision
                BY <4>1 DEF TrailKeeps, NoNewDecision, Level
            <4>5. Quiet' /\ Guarded(Watches', trail', level', Base')
                BY <1>1, <1>2, <4>1, <4>3 DEF Quiet, LoopsHold, IsTrue
            <4> QED BY <3>2, <4>2, <4>3, <4>4, <4>5
        <3> QED BY <2>1, <2>6, <3>1, <3>2
    <2>9. KeptInv'
        <3>1. Zero \subseteq Zero'
            BY <2>8 DEF TrailKeeps, Zero
        <3>2. Kept \subseteq Kept'
            BY <1>2, <3>1 DEF Kept
        <3> QED BY <1>1, <3>2 DEF KeptInv
    <2>10. FoundInv' /\ AnalysisInv' /\ CoherentInv'
        BY <1>1, <2>1, FoundUnchanged, AnalysisUnchanged DEF CoherentInv
    <2>11. CoreInv'
        BY <1>1, <1>4, <2>1 DEF CoreInv
    <2>12. PropagationInv'
        BY <1>3, <2>1, <2>8 DEF PropagationInv
    <2>13. ControlInv'
        BY <2>1 DEF IInv, ControlInv
    <2>14. AssumptionInv'
        <3>1. Reached' = r
            BY <2>1, <2>8 DEF Reached
        <3>2. i <= r => LastRefuted'
            <4>1. SUFFICES ASSUME i <= r PROVE LastRefuted'
                OBVIOUS
            <4>2. IsTrue(choices[i]) /\ Level(choices[i]) <= i /\ i <= currentDecisionLevel
                BY <1>1, <2>2, <2>5, <2>7, <4>1
            <4>3. Level(choices[i]) = 0 /\ r = currentDecisionLevel
                BY <1>1, <2>2, <2>6, <4>1, <4>2
            <4>4. IsTrue(choices[i])' /\ Level(choices[i])' = 0
                BY <2>8, <4>2, <4>3 DEF TrailKeeps, IsTrue
            <4>5. IsFalse(-choices[i])' /\ Level(-choices[i])' = 0
                <5>1. -(-choices[i]) = choices[i] /\ Variable(-choices[i]) = Variable(choices[i])
                    BY <2>2, LiteralFacts
                <5> QED BY <4>4, <5>1 DEF IsTrue, IsFalse, Level
            <4> QED BY <2>3, <2>4, <4>5 DEF LastRefuted
        <3>3. \A j \in 1 .. i : j <= r =>
                 \/ IsTrue(assumptions[j])' /\ Level(assumptions[j])' <= j
                 \/ j = i /\ LastRefuted'
            <4> TAKE j \in 1 .. i
            <4> HAVE j <= r
            <4>1. CASE j = i
                BY <3>2, <4>1
            <4>2. CASE j # i
                <5>1. j \in 1 .. i - 1 /\ j <= currentDecisionLevel
                    BY <1>1, <2>2, <2>7, <4>2
                <5>2. IsTrue(choices[j]) /\ Level(choices[j]) <= j /\ Level(choices[j]) \in Nat
                    BY <2>2, <2>5, <5>1
                <5>3. Level(choices[j]) <= r
                    BY <2>7, <5>2
                <5>4. IsTrue(choices[j])' /\ Level(choices[j])' <= j
                    BY <2>8, <5>2, <5>3 DEF TrailKeeps, IsTrue
                <5>5. assumptions'[j] = choices[j]
                    BY <2>3, <5>1
                <5> QED BY <5>4, <5>5 DEF IsTrue, Level
            <4> QED BY <4>1, <4>2
        <3>4. \A k \in i + 1 .. r : LastRefuted'
            BY <2>2, <2>7, <3>2
        <3>5. /\ \A j \in 1 .. Len(assumptions') : j <= Reached' =>
                     \/ IsTrue(assumptions[j])' /\ Level(assumptions[j])' <= j
                     \/ j = Len(assumptions') /\ LastRefuted'
              /\ \A k \in Len(assumptions') + 1 .. Reached' : LastRefuted' \/ NonEmpty(k)'
            BY <2>3, <3>1, <3>3, <3>4
        <3>6. /\ \A m, n \in 1 .. Len(assumptions') :
                    Variable(assumptions'[m]) = Variable(assumptions'[n]) => m = n
              /\ checked'[Len(assumptions')] /\ found' # <<>> /\ mode' = "bt"
            BY <2>3 DEF Distinct
        <3> QED BY <2>3, <3>5, <3>6 DEF AssumptionInv
    <2> QED BY <1>2, <2>8, <2>9, <2>10, <2>11, <2>12, <2>13, <2>14 DEF IInv
<1> QED BY <1>5, <1>6 DEF FlipLatestChoice

(* After a model: choice j is true, at level j or below.                   *)
LEMMA CoherentChoices ==
    ASSUME SearchInv, CoherentInv, AssumptionInv, pc = "coherent", mode = "bt"
    PROVE  /\ ChoicesWithoutAssumptions \in Seq(Literal) /\ Distinct(ChoicesWithoutAssumptions)
           /\ \A i \in 1 .. Len(ChoicesWithoutAssumptions) : ChoicesHold(ChoicesWithoutAssumptions, i)
<1> DEFINE L == Len(assumptions)
           d == currentDecisionLevel
<1>1. /\ L \in Nat /\ assumptions \in Seq(Literal)
      /\ \A j \in 1 .. L : assumptions[j] \in Literal
      /\ \A i, j \in 1 .. L : Variable(assumptions[i]) = Variable(assumptions[j]) => i = j
    BY LenProperties, ElementOfSeq DEF AssumptionInv
<1>2. /\ d \in Nat /\ d = Len(unrollVector) /\ Len(trail) \in Nat
      /\ trail \in Trails /\ unrollVector \in Seq(Nat) /\ OrderedTrail(trail, level, unrollVector)
    BY SearchFacts DEF SearchInv, currentDecisionLevel
<1>3. /\ \A j \in 1 .. L : IsTrue(assumptions[j])
      /\ Reached = d
    BY DEF CoherentInv, Reached
<1>4. ~LastRefuted
    <2>1. SUFFICES ASSUME LastRefuted PROVE FALSE
        OBVIOUS
    <2>2. L # 0
        <3>1. assumptions # <<>>
            BY <2>1 DEF LastRefuted
        <3> QED BY <1>1, <3>1, EmptySeq
    <2>3. L \in 1 .. L
        BY <1>1, <2>2
    <2>4. IsTrue(assumptions[L]) /\ assumptions[L] \in Literal /\ IsFalse(assumptions[L])
        BY <1>1, <1>3, <2>1, <2>3 DEF LastRefuted
    <2> QED BY <2>4, SearchFacts
<1>5. \A j \in 1 .. L : Level(assumptions[j]) \in Nat /\ Level(assumptions[j]) <= j
    <2> TAKE j \in 1 .. L
    <2>1. Level(assumptions[j]) \in 0 .. d
        BY <1>1, <1>3, SearchFacts
    <2>2. CASE j <= d
        <3>1. Level(assumptions[j]) <= j
            BY <1>3, <1>4, <2>2 DEF AssumptionInv
        <3> QED BY <1>2, <2>1, <3>1
    <2>3. CASE ~(j <= d)
        BY <1>1, <1>2, <2>1, <2>3
    <2> QED BY <2>2, <2>3
<1>6. ASSUME NEW k \in L + 1 .. d
      PROVE  /\ unrollVector[k] + 1 \in 1 .. Len(trail)
             /\ Level(trail[unrollVector[k] + 1]) = k
    <2>1. NonEmpty(k)
        BY <1>3, <1>4 DEF AssumptionInv
    <2>2. k \in 1 .. Len(unrollVector) /\ k - 1 \in 0 .. Len(unrollVector) /\ k - 1 < Len(unrollVector)
          /\ (k - 1) + 1 = k
        BY <1>1, <1>2
    <2>3. \A n \in 1 .. Len(unrollVector) : unrollVector[n] \in 0 .. Len(trail)
        BY <1>2 DEF OrderedTrail
    <2>4. unrollVector[k] + 1 \in 1 .. Len(trail)
        <3>1. CASE k < d
            <4>1. unrollVector[k] < unrollVector[k + 1]
                BY <2>1, <3>1 DEF NonEmpty
            <4>2. k + 1 \in 1 .. Len(unrollVector)
                BY <1>2, <2>2, <3>1
            <4> QED BY <1>2, <2>2, <2>3, <4>1, <4>2
        <3>2. CASE ~(k < d)
            <4>1. unrollVector[k] < Len(trail)
                BY <2>1, <3>2 DEF NonEmpty
            <4> QED BY <1>2, <2>2, <2>3, <4>1
        <3> QED BY <3>1, <3>2
    <2>5. PICK p \in 1 .. Len(trail) : p = unrollVector[k] + 1
        BY <2>4
    <2>6. /\ level[Variable(trail[p])] \in 0 .. Len(unrollVector)
          /\ p <= unrollVector[k] <=> level[Variable(trail[p])] <= k - 1
        BY <1>2, <2>2, LevelAt
    <2>7. ~(level[Variable(trail[p])] <= k - 1)
        BY <2>2, <2>3, <2>5, <2>6
    <2>8. level[Variable(trail[p])] <= k
        <3>1. CASE k < d
            <4>1. k \in 0 .. Len(unrollVector) /\ k < Len(unrollVector)
                BY <1>2, <2>2, <3>1
            <4>2. p <= unrollVector[k + 1] <=> level[Variable(trail[p])] <= k
                BY <1>2, <4>1, LevelAt
            <4>3. unrollVector[k] < unrollVector[k + 1]
                BY <2>1, <3>1 DEF NonEmpty
            <4>4. k + 1 \in 1 .. Len(unrollVector)
                BY <1>2, <2>2, <3>1
            <4>5. unrollVector[k] \in Nat /\ unrollVector[k + 1] \in Nat
                BY <1>2, <2>2, <2>3, <4>4
            <4> QED BY <2>5, <4>2, <4>3, <4>5
        <3>2. CASE ~(k < d)
            BY <1>2, <2>6, <3>2
        <3> QED BY <3>1, <3>2
    <2>9. level[Variable(trail[p])] = k
        BY <1>2, <2>2, <2>6, <2>7, <2>8
    <2> QED BY <2>4, <2>5, <2>9 DEF Level
<1>7. PICK e \in Nat : 1 .. e = 1 .. d - L /\ (\A j \in L + 1 .. L + e : j \in L + 1 .. d)
    <2>1. CASE d <= L
        <3>1. 1 .. 0 = 1 .. d - L /\ (\A j \in L + 1 .. L + 0 : j \in L + 1 .. d) /\ 0 \in Nat
            BY <1>1, <1>2, <2>1
        <3> QED BY <3>1
    <2>2. CASE ~(d <= L)
        <3>1. d - L \in Nat /\ \A j \in L + 1 .. L + (d - L) : j \in L + 1 .. d
            BY <1>1, <1>2, <2>2
        <3> QED BY <3>1
    <2> QED BY <2>1, <2>2
<1>8. PICK V : V = [i \in 1 .. d - L |-> trail[unrollVector[L + i] + 1]]
    OBVIOUS
<1>9. PICK choices : choices = ChoicesWithoutAssumptions
    OBVIOUS
<1>10. choices = assumptions \o V
    BY <1>8, <1>9 DEF ChoicesWithoutAssumptions
<1> HIDE DEF L, d
<1>11. /\ V \in Seq(Literal) /\ Len(V) = e
       /\ \A i \in 1 .. e : V[i] = trail[unrollVector[L + i] + 1]
    <2>1. \A i \in 1 .. e : V[i] = trail[unrollVector[L + i] + 1]
        BY <1>7, <1>8
    <2>2. \A i \in 1 .. e : trail[unrollVector[L + i] + 1] \in Literal
        <3> TAKE i \in 1 .. e
        <3>1. L + i \in L + 1 .. L + e
            BY <1>1, <1>7
        <3>2. unrollVector[L + i] + 1 \in 1 .. Len(trail)
            BY <1>6, <1>7, <3>1
        <3> QED BY <1>2, <3>2, TrailTyping
    <2>3. V \in [1 .. e -> Literal]
        BY <1>7, <1>8, <2>1, <2>2
    <2>4. V \in Seq(Literal)
        BY <1>7, <2>3, SeqDef
    <2> QED BY <1>7, <2>1, <2>3, <2>4, LenProperties
<1>12. /\ choices \in Seq(Literal) /\ Len(choices) = L + e
       /\ \A j \in 1 .. L : choices[j] = assumptions[j]
       /\ \A j \in L + 1 .. L + e : choices[j] = trail[unrollVector[j] + 1]
    <2>1. /\ choices \in Seq(Literal) /\ Len(choices) = L + e
          /\ \A j \in 1 .. L + e : choices[j] = IF j <= L THEN assumptions[j] ELSE V[j - L]
        <3>1. /\ assumptions \o V \in Seq(Literal) /\ Len(assumptions \o V) = Len(assumptions) + Len(V)
              /\ \A j \in 1 .. Len(assumptions) + Len(V) :
                     (assumptions \o V)[j] = IF j <= Len(assumptions) THEN assumptions[j] ELSE V[j - Len(assumptions)]
            <4>1. assumptions \in Seq(Literal) /\ V \in Seq(Literal)
                BY <1>1, <1>11
            <4> QED BY ONLY <4>1, ConcatProperties
        <3> QED BY <1>10, <1>11, <3>1 DEF L
    <2>2. \A j \in 1 .. L : choices[j] = assumptions[j]
        <3> TAKE j \in 1 .. L
        <3>1. j \in 1 .. L + e /\ j <= L
            BY <1>1, <1>7
        <3> QED BY <2>1, <3>1
    <2>3. \A j \in L + 1 .. L + e : choices[j] = trail[unrollVector[j] + 1]
        <3> TAKE j \in L + 1 .. L + e
        <3>1. j \in 1 .. L + e /\ ~(j <= L) /\ j - L \in 1 .. e /\ L + (j - L) = j
            BY <1>1, <1>7
        <3>2. V[j - L] = trail[unrollVector[j] + 1]
            BY <1>11, <3>1
        <3> QED BY <2>1, <3>1, <3>2
    <2> QED BY <2>1, <2>2, <2>3
<1>13. \A j \in 1 .. L : IsTrue(choices[j]) /\ Level(choices[j]) \in Nat /\ Level(choices[j]) <= j
    BY <1>3, <1>5, <1>12
<1>14. \A j \in L + 1 .. L + e : IsTrue(choices[j]) /\ Level(choices[j]) = j
    <2> TAKE j \in L + 1 .. L + e
    <2>1. j \in L + 1 .. d
        BY <1>7
    <2>2. unrollVector[j] + 1 \in 1 .. Len(trail) /\ Level(trail[unrollVector[j] + 1]) = j
        BY <1>6, <2>1
    <2>3. IsTrue(trail[unrollVector[j] + 1])
        BY <1>2, <2>2, TrailTyping DEF IsTrue
    <2> QED BY <1>12, <2>2, <2>3
<1>15. Distinct(choices)
    <2>1. SUFFICES ASSUME NEW i \in 1 .. L + e, NEW j \in 1 .. L + e, i <= j,
                          Variable(choices[i]) = Variable(choices[j])
                   PROVE  i = j
        BY <1>1, <1>7, <1>12 DEF Distinct
    <2>2. Level(choices[i]) = Level(choices[j])
        BY <2>1 DEF Level
    <2>3. CASE i \in 1 .. L /\ j \in 1 .. L
        BY <1>1, <1>12, <2>1, <2>3
    <2>4. CASE i \in 1 .. L /\ j \in L + 1 .. L + e
        BY <1>1, <1>7, <1>13, <1>14, <2>2, <2>4
    <2>5. CASE i \in L + 1 .. L + e /\ j \in L + 1 .. L + e
        BY <1>14, <2>2, <2>5
    <2> QED BY <1>1, <1>7, <2>1, <2>3, <2>4, <2>5
<1>16. \A j \in 1 .. L + e : IsTrue(choices[j]) /\ Level(choices[j]) <= j
    <2> TAKE j \in 1 .. L + e
    <2>1. CASE j \in 1 .. L
        BY <1>13, <2>1
    <2>2. CASE j \in L + 1 .. L + e
        BY <1>14, <2>2
    <2> QED BY <1>1, <1>7, <2>1, <2>2
<1>17. \A i \in 1 .. Len(choices) : ChoicesHold(choices, i)
    <2> TAKE i \in 1 .. Len(choices)
    <2>1. \A j \in 1 .. i : j \in 1 .. L + e
        BY <1>1, <1>7, <1>12
    <2> QED BY <1>16, <2>1 DEF ChoicesHold
<1> QED BY <1>9, <1>12, <1>15, <1>17

LEMMA BacktrackFromModelStep ==
    ASSUME IInv, BacktrackFromModel
    PROVE  IInv'
<1>1. /\ pc = "coherent" /\ mode = "bt"
      /\ FlipLatestChoice(ChoicesWithoutAssumptions)
      /\ UNCHANGED <<instance, mode, visit, conflict, database, analysis, found, core, restarts, deletions>>
    BY DEF BacktrackFromModel, counters
<1>2. PICK choices : choices = ChoicesWithoutAssumptions
    OBVIOUS
<1>3. FlipLatestChoice(choices)
    BY <1>1, <1>2
<1>4. /\ choices \in Seq(Literal) /\ Distinct(choices)
      /\ \A i \in 1 .. Len(choices) : ChoicesHold(choices, i)
    BY <1>1, <1>2, CoherentChoices DEF IInv
<1>5. Quiet /\ found # <<>>
    BY <1>1 DEF IInv, PropagationInv, CoherentInv
<1> QED BY <1>1, <1>3, <1>4, <1>5, FlipStep

(* After a failure: the last assumption is flipped already.                *)
LEMMA RemainingChoices ==
    ASSUME SearchInv, AssumptionInv, mode = "bt", pc = "incoherent",
           NEW choices,
           choices = IF currentDecisionLevel = 0 THEN AboveLevelZero(assumptions)
                     ELSE UpTo(currentDecisionLevel, assumptions)
    PROVE  /\ choices \in Seq(Literal) /\ Distinct(choices)
           /\ \A i \in 1 .. Len(choices) : checked[i] \/ ChoicesHold(choices, i)
<1> DEFINE L == Len(assumptions)
           d == currentDecisionLevel
<1>1. /\ L \in Nat /\ assumptions \in Seq(Literal) /\ DOMAIN assumptions = 1 .. L
      /\ \A j \in 1 .. L : assumptions[j] \in Literal
      /\ \A i, j \in 1 .. L : Variable(assumptions[i]) = Variable(assumptions[j]) => i = j
      /\ L # 0 => checked[L]
      /\ d \in Nat /\ Reached = d
    BY LenProperties, ElementOfSeq, EmptySeq, SearchFacts DEF AssumptionInv, Reached
<1>2. CASE d = 0
    <2> DEFINE P == {i \in DOMAIN assumptions : Level(assumptions[i]) # 0}
    <2>1. P \in SUBSET Nat /\ IsFiniteSet(P) /\ P \subseteq 1 .. L
        <3>1. P \subseteq 1 .. L /\ P \in SUBSET Nat
            BY <1>1
        <3>2. IsFiniteSet(1 .. L)
            BY <1>1, FS_Interval
        <3> HIDE DEF P
        <3> QED BY <3>1, <3>2, FS_Subset
    <2>2. choices = [n \in 1 .. Cardinality(P) |-> assumptions[Nth(P, n)]]
        BY <1>2 DEF AboveLevelZero
    <2> HIDE DEF P
    <2>3. /\ Cardinality(P) \in Nat
          /\ \A n \in 1 .. Cardinality(P) : Nth(P, n) \in 1 .. L
          /\ \A m, n \in 1 .. Cardinality(P) : Nth(P, m) = Nth(P, n) => m = n
        BY <2>1, NthPosition
    <2>4. choices \in [1 .. Cardinality(P) -> Literal]
        BY <1>1, <2>2, <2>3
    <2>5. choices \in Seq(Literal) /\ Len(choices) = Cardinality(P)
        <3>1. choices \in Seq(Literal)
            BY <2>3, <2>4, SeqDef
        <3> QED BY <2>3, <2>4, <3>1, LenProperties
    <2>6. Distinct(choices)
        BY <1>1, <2>2, <2>3, <2>5 DEF Distinct
    <2>7. \A i \in 1 .. Len(choices) : ChoicesHold(choices, i)
        <3>1. \A j \in Nat : j <= d => j = 0
            BY <1>2
        <3> QED BY <2>3, <2>5, <3>1 DEF ChoicesHold
    <2> QED BY <2>5, <2>6, <2>7
<1>3. CASE d # 0
    <2> DEFINE Ends(n) == /\ n = 0 \/ Level(assumptions[n]) <= d
                          /\ \A i \in (n + 1) .. L : Level(assumptions[i]) > d
               P == {n \in 1 .. L : Level(assumptions[n]) <= d}
    <2>1. \E n \in 0 .. L : Ends(n)
        <3>1. \A i \in 1 .. L : Level(assumptions[i]) \in Nat
            BY <1>1, SearchFacts
        <3>2. CASE P = {}
            <4>1. \A i \in (0 + 1) .. L : Level(assumptions[i]) > d
                BY <1>1, <3>1, <3>2
            <4> QED BY <1>1, <4>1
        <3>3. CASE P # {}
            <4>1. P \in SUBSET (0 .. L)
                BY <1>1
            <4>2. PICK n \in P : \A j \in P : j <= n
                <5> HIDE DEF P
                <5> QED BY <1>1, <3>3, <4>1, GreatestOfNaturals
            <4>3. n \in 1 .. L /\ Level(assumptions[n]) <= d
                BY <4>2
            <4>4. \A i \in (n + 1) .. L : i \in 1 .. L /\ ~(i <= n)
                BY <1>1, <4>3
            <4>5. \A i \in (n + 1) .. L : Level(assumptions[i]) > d
                BY <1>1, <3>1, <4>2, <4>4
            <4>6. n \in 0 .. L
                BY <1>1, <4>3
            <4> QED BY <4>3, <4>5, <4>6
        <3> QED BY <3>2, <3>3
    <2>2. PICK n : n = CHOOSE m \in 0 .. L : Ends(m)
        OBVIOUS
    <2>3. n \in 0 .. L
        <3> HIDE DEF Ends
        <3> QED BY <2>1, <2>2
    <2>4. choices = SubSeq(assumptions, 1, n)
        BY <1>3, <2>2 DEF UpTo
    <2>5. /\ choices \in Seq(Literal) /\ Len(choices) = n
          /\ \A i \in 1 .. n : choices[i] = assumptions[i]
        BY <1>1, <2>3, <2>4, Prefix
    <2>6. \A i \in 1 .. n : i \in 1 .. L
        BY <1>1, <2>3
    <2>7. Distinct(choices)
        BY <1>1, <2>5, <2>6 DEF Distinct
    <2>8. ASSUME NEW i \in 1 .. n, ~checked[i]
          PROVE  ChoicesHold(choices, i)
        <3>1. i \in 1 .. L /\ i # L
            <4> HIDE DEF L
            <4>1. i \in 1 .. L
                BY <2>6
            <4>2. L # 0
                BY <1>1, <4>1
            <4>3. checked[L]
                BY <1>1, <4>2
            <4>4. ~(i = L)
                <5>1. SUFFICES ASSUME i = L PROVE FALSE
                    OBVIOUS
                <5>2. checked[i]
                    BY <4>3, <5>1, Zenon
                <5> QED BY <2>8, <5>2
            <4> QED BY <4>1, <4>4
        <3>2. \A j \in 1 .. i : j \in 1 .. L /\ j # L /\ j \in 1 .. n
            <4> HIDE DEF L
            <4>1. L \in Nat /\ n \in Nat /\ n <= L /\ i \in 1 .. n /\ i # L
                <5>1. L \in Nat
                    BY <1>1
                <5>2. n \in Nat /\ n <= L
                    BY <2>3, <5>1
                <5> QED BY <3>1, <5>1, <5>2
            <4> QED BY ONLY <4>1
        <3>3. \A j \in 1 .. L : j <= d => \/ IsTrue(assumptions[j]) /\ Level(assumptions[j]) <= j
                                          \/ j = L
            BY <1>1 DEF AssumptionInv
        <3> QED BY <2>5, <3>2, <3>3 DEF ChoicesHold
    <2> QED BY <2>5, <2>7, <2>8
<1> QED BY <1>2, <1>3

LEMMA BacktrackFromFailureStep ==
    ASSUME IInv, BacktrackFromFailure
    PROVE  IInv'
<1>1. /\ pc = "incoherent" /\ mode = "bt"
      /\ UNCHANGED <<instance, mode, visit, conflict, database, analysis, found, core, counters, restarts, deletions>>
    BY DEF BacktrackFromFailure, counters
<1>2. CASE found = <<>>
    <2>1. pc' = "end" /\ UNCHANGED <<search, assumptions, checked>>
        BY <1>2 DEF BacktrackFromFailure
    <2>2. UNCHANGED <<trail, level, reason, phase, unrollVector, nextVariable>>
        BY <2>1 DEF search
    <2> QED BY <1>1, <2>1, <2>2, EnumerationEnds
<1>3. CASE found # <<>>
    <2>1. PICK choices : choices = IF currentDecisionLevel = 0 THEN AboveLevelZero(assumptions)
                                   ELSE UpTo(currentDecisionLevel, assumptions)
        OBVIOUS
    <2>2. FlipLatestChoice(choices)
        BY <1>3, <2>1 DEF BacktrackFromFailure
    <2>3. /\ choices \in Seq(Literal) /\ Distinct(choices)
          /\ \A i \in 1 .. Len(choices) : checked[i] \/ ChoicesHold(choices, i)
        BY <1>1, <2>1, RemainingChoices DEF IInv
    <2>4. Quiet
        <3>1. found \in Seq(SUBSET Var) /\ \A n \in 1 .. Len(found) : found[n] \in Models
            BY DEF IInv, FoundInv
        <3>2. 1 \in 1 .. Len(found)
            <4>1. Len(found) \in Nat /\ Len(found) # 0
                BY <1>3, <3>1, LenProperties, EmptySeq
            <4> QED BY <4>1
        <3>3. ToFind # {}
            BY <1>1, <3>1, <3>2, ModelsToFind
        <3> QED BY <1>1, <3>3 DEF IInv, PropagationInv
    <2> QED BY <1>1, <1>3, <2>2, <2>3, <2>4, FlipStep
<1> QED BY <1>2, <1>3
-----------------------------------------------------------------------------
(* The invariant holds initially and is kept by every step.                *)
LEMMA InitialDatabase ==
    ASSUME Init
    PROVE  DatabaseInv /\ \A C \in instance.input : C \in Kept
<1>1. /\ instance \in Instances
      /\ binary = {C \in instance.input : Cardinality(C) = 2}
      /\ clauses = {Watch(FirstTwo(C), C) : C \in instance.input \ binary}
      /\ learned = {}
    BY DEF Init
<1>2. \A C \in instance.input : C \in SUBSET Literal /\ Cardinality(C) > 1 /\ C \cap Opposite(C) = {}
    BY <1>1, ProblemTyping
<1>3. \A C \in instance.input : Entails(ToFind, C)
    BY ModelsToFind DEF Entails
<1>4. ASSUME NEW C \in binary
      PROVE  /\ C \in SUBSET Literal /\ C \in instance.input
             /\ \E a, b \in Literal : a # b /\ C = {a, b}
    <2>1. C \in instance.input /\ Cardinality(C) = 2
        BY <1>1
    <2>2. C \in SUBSET Literal /\ Cardinality(C) > 1 /\ IsFiniteSet(C)
        BY <1>2, <2>1, LiteralsFinite
    <2>3. PICK a, b \in C : a # b
        BY <2>2, TwoOf
    <2>4. C = {a, b}
        BY <2>1, <2>2, <2>3, TwoElements
    <2> QED BY <2>1, <2>2, <2>3, <2>4
<1>5. ASSUME NEW C \in instance.input
      PROVE  \E a, b \in Literal :
                /\ a # b /\ FirstTwo(C) = {a, b}
                /\ Watch(FirstTwo(C), C) \in WatchedClause /\ Literals(Watch(FirstTwo(C), C)) = C
                /\ Watch(FirstTwo(C), C).watch = {a, b}
                /\ Watch(FirstTwo(C), C).watch \cap Watch(FirstTwo(C), C).rest = {}
    <2>1. PICK a \in C, b \in C : a # b /\ FirstTwo(C) = {a, b}
        BY <1>2, FirstTwoOf
    <2>2. /\ Watch({a, b}, C) \in WatchedClause /\ Literals(Watch({a, b}, C)) = C
          /\ Watch({a, b}, C).watch = {a, b}
          /\ Watch({a, b}, C).watch \cap Watch({a, b}, C).rest = {}
        BY <1>2, <2>1, WatchFacts
    <2> QED BY <1>2, <2>1, <2>2
<1>6. ASSUME NEW c \in clauses
      PROVE  /\ c \in WatchedClause /\ Literals(c) \in instance.input
             /\ \E a, b \in Literal : a # b /\ c.watch = {a, b}
             /\ c.watch \cap c.rest = {}
    <2>1. PICK C \in instance.input : c = Watch(FirstTwo(C), C)
        BY <1>1
    <2> QED BY <1>5, <2>1
<1>7. DatabaseInv
    BY <1>1, <1>3, <1>4, <1>6 DEF DatabaseInv, Database
<1>8. ASSUME NEW C \in instance.input
      PROVE  C \in Kept
    <2>1. CASE C \in binary
        BY <2>1 DEF Kept
    <2>2. CASE C \notin binary
        <3>1. Watch(FirstTwo(C), C) \in clauses
            BY <1>1, <2>2
        <3>2. Literals(Watch(FirstTwo(C), C)) = C
            BY <1>5
        <3> QED BY <3>1, <3>2 DEF Kept
    <2> QED BY <2>1, <2>2
<1> QED BY <1>7, <1>8

(* The initial states.                                                     *)
LEMMA InitInv ==
    ASSUME Init
    PROVE  IInv
<1>1. /\ instance \in Instances /\ mode \in instance.modes /\ pc = "start"
      /\ trail = <<>> /\ unrollVector = <<>> /\ nextVariable = 0
      /\ visit = NoVisit /\ conflict = NoConflict /\ analysis = NoAnalysis
      /\ assumptions = IF mode = "core" THEN instance.assumptions ELSE <<>>
      /\ checked = [i \in 0 .. Cardinality(Var) |-> FALSE]
      /\ found = <<>> /\ core = <<>> /\ restarts = 0 /\ deletions = 0
    BY DEF Init
<1>2. mode \in {"bc", "bt", "core"} /\ instance.assumptions \in Seq(Literal)
    BY <1>1, ProblemTyping
<1>3. /\ Len(<<>>) = 0 /\ DOMAIN <<>> = 1 .. 0 /\ \A S : <<>> \in Seq(S)
    BY EmptySeq, LenProperties
<1>4. /\ Lits(<<>>) = {} /\ \A n \in 1 .. 0 : FALSE
    BY DEF Lits
<1>5. Len(trail) = 0 /\ currentDecisionLevel = 0 /\ Base = 0 /\ Reached = 0 /\ Len(found) = 0
    BY <1>1, <1>3 DEF currentDecisionLevel, Base, Reached
<1>6. ControlInv
    BY <1>1, <1>2 DEF ControlInv
<1>7. SearchInv
    <2>1. level \in Levels /\ reason \in Reasons /\ phase \in [Var -> {-1, 1}]
        BY DEF Init, Levels, Reasons
    <2>2. trail \in Trails /\ unrollVector \in Seq(Nat) /\ nextVariable \in Nat
        BY <1>1, <1>3 DEF Trails
    <2>3. OrderedTrail(trail, level, unrollVector)
        BY <1>1, <1>3, <1>4 DEF OrderedTrail
    <2>4. Justified(trail, level, reason, unrollVector, ToFind)
        BY <1>1, <1>3, <1>4 DEF Justified
    <2> QED BY <2>1, <2>2, <2>3, <2>4 DEF SearchInv
<1>8. DatabaseInv
    BY InitialDatabase
<1>9. KeptInv
    <2>1. \A C \in instance.input : \E D \in Kept : D \subseteq C
        BY InitialDatabase
    <2> QED BY <1>4, <1>5, <2>1 DEF KeptInv
<1>10. FoundInv
    BY <1>1, <1>3, <1>4, <1>5 DEF FoundInv
<1>11. PropagationInv
    <2>1. \A D : Guarded(D, trail, level, 0)
        BY <1>4 DEF Guarded
    <2>2. VisitInv
        BY <1>1, <1>5, <2>1 DEF VisitInv
    <2>3. /\ visit \in [lit : Literal \cup {0}, binary : SUBSET Literal, watched : SUBSET WatchedClause]
          /\ conflict \in [lit : Literal \cup {0}, clause : SUBSET Literal]
        BY <1>1 DEF NoVisit, NoConflict
    <2> QED BY <1>1, <1>5, <2>1, <2>2, <2>3 DEF PropagationInv
<1>12. AnalysisInv
    BY <1>1 DEF AnalysisInv, NoAnalysis
<1>13. CoherentInv
    BY <1>1 DEF CoherentInv
<1>14. AssumptionInv
    <2>1. assumptions \in Seq(Literal) /\ Len(assumptions) \in Nat
        BY <1>1, <1>2, <1>3, LenProperties
    <2>2. checked \in [0 .. Cardinality(Var) -> BOOLEAN]
        BY <1>1
    <2>3. /\ mode = "bc" => assumptions = <<>>
          /\ mode = "bt" => assumptions = <<>> /\ Len(assumptions) = 0
        BY <1>1, <1>3
    <2>4. /\ \A i \in 1 .. Len(assumptions) : ~(i <= Reached)
          /\ \A k \in Len(assumptions) + 1 .. Reached : FALSE
        BY <1>5, <2>1
    <2> QED BY <1>4, <2>1, <2>2, <2>3, <2>4 DEF AssumptionInv
<1>15. CoreInv
    <2>1. DecidedInv
        BY <1>1, <1>4 DEF DecidedInv
    <2>2. CoreResult
        BY <1>1 DEF CoreResult
    <2> QED BY <1>1, <1>2, <1>3, <2>1, <2>2 DEF CoreInv
<1> QED BY <1>6, <1>7, <1>8, <1>9, <1>10, <1>11, <1>12, <1>13, <1>14, <1>15 DEF IInv

(* A step that changes nothing.                                            *)
LEMMA StutteringStep ==
    ASSUME IInv, UNCHANGED vars
    PROVE  IInv'
<1>1. /\ UNCHANGED <<instance, mode, pc, trail, level, reason, phase, unrollVector, nextVariable>>
      /\ UNCHANGED <<visit, conflict, binary, clauses, learned, analysis>>
      /\ UNCHANGED <<assumptions, checked, found, core, restarts, deletions>>
    BY DEF vars, search, database, caller, counters
<1>2. ToFind' = ToFind /\ Models' = Models /\ Watches' = Watches
    BY <1>1, ModelsKept DEF Watches
<1>3. ControlInv'
    BY <1>1 DEF IInv, ControlInv
<1>4. SearchInv'
    BY <1>1, <1>2 DEF IInv, SearchInv
<1>5. DatabaseInv'
    BY <1>1, <1>2 DEF IInv, DatabaseInv, Database
<1>6. Base' = Base /\ currentDecisionLevel' = currentDecisionLevel /\ Reached' = Reached
    BY <1>1 DEF Base, currentDecisionLevel, Reached
<1>7. Zero' = Zero /\ Kept' = Kept
    BY <1>1 DEF Zero, Kept, Level
<1>8. KeptInv' /\ FoundInv'
    BY <1>1, <1>2, <1>7 DEF IInv, KeptInv, FoundInv
<1>9. PropagationInv'
    <2>1. (VisitInv <=> VisitInv') /\ (Quiet <=> Quiet') /\ (FalseClause <=> FalseClause')
        <3>1. VisitInv <=> VisitInv'
            BY <1>1, <1>2, <1>6 DEF VisitInv, IsTrue
        <3>2. Quiet <=> Quiet'
            BY <1>1, <1>2 DEF Quiet, LoopsHold, IsTrue
        <3>3. FalseClause <=> FalseClause'
            BY <1>1, <1>2, <1>6 DEF FalseClause, Level, IsFalse
        <3> QED BY <3>1, <3>2, <3>3
    <2> QED BY <1>1, <1>2, <1>6, <2>1 DEF IInv, PropagationInv
<1>10. AnalysisInv' /\ CoherentInv'
    BY <1>1, <1>2, <1>6 DEF IInv, AnalysisInv, CoherentInv, Resolvent, IsFalse, IsTrue, Level
<1>11. AssumptionInv'
    <2>1. LastRefuted <=> LastRefuted'
        BY <1>1 DEF LastRefuted, IsFalse, Level
    <2>2. \A k : NonEmpty(k) <=> NonEmpty(k)'
        BY <1>1, <1>6 DEF NonEmpty
    <2> QED BY <1>1, <1>6, <2>1, <2>2 DEF IInv, AssumptionInv, IsTrue, Level
<1>12. CoreInv'
    BY <1>1, <1>2 DEF IInv, CoreInv, Refuted, DecidedInv, CoreResult, Level
<1> QED BY <1>3, <1>4, <1>5, <1>8, <1>9, <1>10, <1>11, <1>12 DEF IInv

(* Every step.                                                             *)
LEMMA NextStep ==
    ASSUME IInv, [Next]_vars
    PROVE  IInv'
<1>1. CASE Start
    BY <1>1, StartStep
<1>2. CASE BeginPropagation \/ ShortPropagation \/ UnitPropagation \/ EndPropagation
    BY <1>2, BeginPropagationStep, ShortPropagationStep, UnitPropagationStep, EndPropagationStep
<1>3. CASE ConflictAtLevelZero \/ BeginAnalysis \/ Resolve \/ LearnClause
    BY <1>3, ConflictAtLevelZeroStep, BeginAnalysisStep, ResolveStep, LearnClauseStep
<1>4. CASE PostPropagation \/ EndUnit \/ EndTurn \/ Restart
    BY <1>4, PostPropagationStep, EndUnitStep, EndTurnStep, RestartStep
<1>5. CASE ChooseLiteral \/ AssumptionFalse \/ AnswerSet
    BY <1>5, ChooseLiteralStep, AssumptionFalseStep, AnswerSetStep
<1>6. CASE BlockModel \/ EndBlocking
    BY <1>6, BlockModelStep, EndBlockingStep
<1>7. CASE BacktrackFromModel \/ BacktrackFromFailure \/ MinimizeUnsatCore
    BY <1>7, BacktrackFromModelStep, BacktrackFromFailureStep, MinimizeUnsatCoreStep
<1>8. CASE UNCHANGED vars
    BY <1>8, StutteringStep
<1> QED BY <1>1, <1>2, <1>3, <1>4, <1>5, <1>6, <1>7, <1>8 DEF Next

(* What the search keeps, in every mode and at every point of the code.    *)
THEOREM SearchInvariant == Spec => []IInv
<1>1. Init => IInv
    BY InitInv
<1>2. IInv /\ [Next]_vars => IInv'
    BY NextStep
<1> QED BY <1>1, <1>2, PTL DEF Spec

-----------------------------------------------------------------------------
(* No clause that analyzeConflict learns, that a post-propagator hands out  *)
(* or that blocks a model, and no shortening of a clause, loses a model    *)
(* that is still to be found; nor does what is assigned at level 0.        *)
THEOREM DatabaseSound == Spec => []DatabaseImplied
<1>1. ASSUME IInv PROVE DatabaseImplied
    <2>1. SearchInv /\ DatabaseInv
        BY <1>1 DEF IInv
    <2>2. \A M \in ToFind : \A C \in Database : Sat(M, C)
        BY <2>1 DEF DatabaseInv, Entails
    <2>3. \A M \in ToFind : \A l \in Lits(trail) : Level(l) = 0 => Holds(M, l)
        <3> TAKE M \in ToFind
        <3> TAKE l \in Lits(trail)
        <3> HAVE Level(l) = 0
        <3>1. l \in Literal /\ IsTrue(l)
            BY <2>1, SearchFacts DEF IsTrue
        <3> QED BY <2>1, <3>1, LevelZero
    <2> QED BY <2>2, <2>3 DEF DatabaseImplied
<1> QED BY <1>1, SearchInvariant, PTL

(* When propagation has ended no clause of the database is unit or false:   *)
(* two watched literals are enough, through backjumps, restarts, shortened *)
(* and deleted clauses.                                                    *)
THEOREM NothingMissed == Spec => []PropagationComplete
<1>1. ASSUME IInv PROVE PropagationComplete
    <2>1. SUFFICES ASSUME pc = "loop", NEW C \in Database, UnitOrFalse(C) PROVE FALSE
        BY DEF PropagationComplete
    <2>2. SearchInv /\ DatabaseInv /\ Guarded(Watches, trail, level, Len(trail))
        BY <1>1, <2>1 DEF IInv, PropagationInv, Quiet
    <2>3. PICK W \in Watches : C \subseteq Literal /\ W \subseteq C
        BY <2>2, DatabaseFacts
    <2>4. PICK a \in Literal, b \in Literal : a # b /\ W = {a, b}
        BY <2>2, DatabaseFacts
    <2>5. ASSUME NEW x \in W PROVE IsUndefined(x)
        <3>1. ~IsTrue(x)
            BY <2>1, <2>3 DEF UnitOrFalse
        <3>2. ASSUME IsFalse(x) PROVE FALSE
            <4>1. PICK i \in 1 .. Len(trail) : trail[i] = -x
                BY <2>2, <3>2, TrailTyping DEF IsFalse, SearchInv
            <4>2. -trail[i] = x
                BY <2>3, <4>1, LiteralFacts
            <4>3. \E y \in W : y \in Lits(trail)
                BY <2>2, <4>2 DEF Guarded
            <4> QED BY <2>1, <2>3, <4>3 DEF UnitOrFalse, IsTrue
        <3> QED BY <3>1, <3>2 DEF IsUndefined
    <2>6. a \in Open(C) /\ b \in Open(C)
        BY <2>3, <2>4, <2>5 DEF Open
    <2>7. IsFiniteSet(Open(C))
        <3>1. Open(C) \in SUBSET Literal
            BY <2>3 DEF Open
        <3> QED BY <3>1, LiteralsFinite
    <2>8. Cardinality(Open(C)) \in Nat /\ Cardinality(Open(C)) >= 2
        BY <2>4, <2>6, <2>7, TwoElements
    <2> QED BY <2>1, <2>8 DEF UnitOrFalse
<1> QED BY <1>1, SearchInvariant, PTL

(* Whatever is reported is a model, in all enumerations.  The core of a     *)
(* failed call, minimised or not, is a part of the assumptions that no     *)
(* model satisfies, and what a call that succeeds found is a model of all  *)
(* of them.                                                                *)
THEOREM CoresRefuted == Spec => []CoreOrModel
<1>1. ASSUME IInv PROVE CoreOrModel
    <2>1. CoreResult
        BY <1>1 DEF IInv, ControlInv, CoreInv, CoreResult
    <2>2. found \in Seq(SUBSET Var) /\ \A n \in 1 .. Len(found) : found[n] \in Models
        BY <1>1 DEF IInv, FoundInv
    <2>3. \A M \in Lits(found) : M \in Models
        BY <2>2, LenProperties DEF Lits
    <2> QED BY <2>1, <2>3 DEF CoreOrModel, CoreResult
<1> QED BY <1>1, SearchInvariant, PTL
-----------------------------------------------------------------------------
(* The enumeration by blocking clauses implements Enumerator: it reports   *)
(* no model twice and ends only when all are reported, or as many as were  *)
(* asked for.                                                              *)
(* An enumeration by blocking clauses that finds no model has none left.   *)
BlockingInv == mode = "bc" /\ pc = "incoherent" => ToFind = {}

(* The caller stays the same, but that a core is minimised after it.       *)
LEMMA CallerKept ==
    ASSUME [Next]_vars
    PROVE  instance' = instance /\ (mode' = mode \/ (mode # "bc" /\ mode' # "bc"))
<1>1. CASE Start \/ BeginPropagation \/ ShortPropagation \/ UnitPropagation \/ EndPropagation
    BY <1>1 DEF Start, BeginPropagation, ShortPropagation, UnitPropagation, EndPropagation
<1>2. CASE ConflictAtLevelZero \/ BeginAnalysis \/ Resolve \/ LearnClause
    BY <1>2 DEF ConflictAtLevelZero, BeginAnalysis, Resolve, LearnClause
<1>3. CASE PostPropagation \/ EndUnit \/ EndTurn \/ Restart
    BY <1>3 DEF PostPropagation, EndUnit, EndTurn, Restart
<1>4. CASE ChooseLiteral \/ AssumptionFalse \/ AnswerSet
    BY <1>4 DEF ChooseLiteral, AssumptionFalse, AnswerSet
<1>5. CASE BlockModel \/ EndBlocking \/ BacktrackFromModel \/ BacktrackFromFailure
    BY <1>5 DEF BlockModel, EndBlocking, BacktrackFromModel, BacktrackFromFailure
<1>6. CASE MinimizeUnsatCore
    BY <1>6 DEF MinimizeUnsatCore
<1>7. CASE UNCHANGED vars
    BY <1>7 DEF vars
<1> QED BY <1>1, <1>2, <1>3, <1>4, <1>5, <1>6, <1>7 DEF Next

(* Without assumptions a call never fails because of one.                  *)
LEMMA NoAssumptionFalse ==
    ASSUME IInv, mode = "bc"
    PROVE  ~AssumptionFalse /\ (Start => pc' = "propagate" /\ found' = found)
<1>1. assumptions = <<>> /\ SearchInv
    BY DEF IInv, AssumptionInv
<1>2. Len(assumptions) = 0 /\ DOMAIN assumptions = {}
    BY <1>1
<1>3. currentDecisionLevel \in Nat
    BY <1>1, SearchFacts
<1>4. Ahead = {}
    BY <1>2, <1>3 DEF Ahead
<1>5. FalseAhead = {}
    BY <1>4 DEF FalseAhead
<1>6. ~AssumptionFalse
    BY <1>2, <1>5 DEF AssumptionFalse
<1>7. Start => pc' = "propagate" /\ found' = found
    BY <1>2 DEF Start
<1> QED BY <1>6, <1>7

(* The steps of the search report nothing and do not end the enumeration;  *)
(* a call fails only if the models to find have a clause that is false at  *)
(* level 0.                                                                *)
LEMMA SearchReportsNothing ==
    ASSUME IInv, mode = "bc", [Next]_vars, ~AnswerSet, ~BlockModel, ~EndBlocking
    PROVE  /\ found' = found
           /\ pc' = "end" <=> pc = "end"
           /\ pc' = "incoherent" => pc = "incoherent" \/ ToFind = {}
<1>1. CASE Start
    BY <1>1, NoAssumptionFalse DEF Start
<1>2. CASE BeginPropagation \/ ShortPropagation \/ UnitPropagation \/ EndPropagation
    BY <1>2 DEF BeginPropagation, ShortPropagation, UnitPropagation, EndPropagation, caller
<1>3. CASE ConflictAtLevelZero
    <2>1. FalseClause /\ conflict.clause \subseteq Literal /\ SearchInv
        BY <1>3 DEF ConflictAtLevelZero, IInv, PropagationInv
    <2>2. currentDecisionLevel = 0
        BY <1>3, <2>1 DEF ConflictAtLevelZero, FalseClause
    <2>3. \A l \in conflict.clause : IsFalse(l) /\ Level(l) = 0
        BY <2>1, <2>2, SearchFacts DEF FalseClause
    <2>4. \A M \in ToFind : \A l \in conflict.clause : ~Holds(M, l)
        BY <2>1, <2>3, LevelZero
    <2>5. ToFind = {}
        BY <2>1, <2>4 DEF FalseClause, Entails, Sat
    <2> QED BY <1>3, <2>5 DEF ConflictAtLevelZero, caller
<1>4. CASE BeginAnalysis \/ Resolve \/ LearnClause
    BY <1>4 DEF BeginAnalysis, Resolve, LearnClause, caller
<1>5. CASE PostPropagation
    <2>1. PICK L \in instance.loops :
             /\ UnitOrFalse(L)
             /\ \/ {l \in L : IsUndefined(l) \/ Level(l) > 0} = {} /\ pc' = "incoherent"
                \/ pc' = pc
        BY <1>5 DEF PostPropagation
    <2>2. pc = "propagate" /\ found' = found
        BY <1>5 DEF PostPropagation, Idle, caller
    <2>3. ASSUME {l \in L : IsUndefined(l) \/ Level(l) > 0} = {}
          PROVE  ToFind = {}
        <3>1. SearchInv /\ instance \in Instances
            BY DEF IInv, ControlInv
        <3>2. \A l \in L : l \in Literal /\ IsFalse(l) /\ Level(l) = 0
            <4> TAKE l \in L
            <4>1. l \in Literal /\ Level(l) \in Nat
                BY <3>1, ProblemTyping, SearchFacts
            <4>2. ~IsUndefined(l) /\ ~(Level(l) > 0) /\ ~IsTrue(l)
                BY <2>1, <2>3 DEF UnitOrFalse
            <4> QED BY <4>1, <4>2 DEF IsUndefined
        <3>3. \A M \in ToFind : ~Sat(M, L)
            BY <3>1, <3>2, LevelZero DEF Sat
        <3> QED BY <3>3, ModelsToFind
    <2> QED BY <2>1, <2>2, <2>3
<1>6. CASE EndUnit \/ EndTurn \/ Restart \/ ChooseLiteral
    BY <1>6 DEF EndUnit, EndTurn, Restart, Idle, ChooseLiteral, caller
<1>7. CASE AssumptionFalse
    BY <1>7, NoAssumptionFalse
<1>8. CASE BacktrackFromModel \/ BacktrackFromFailure \/ MinimizeUnsatCore
    BY <1>8 DEF BacktrackFromModel, BacktrackFromFailure, MinimizeUnsatCore
<1>9. CASE UNCHANGED vars
    BY <1>9 DEF vars, caller
<1> QED BY <1>1, <1>2, <1>3, <1>4, <1>5, <1>6, <1>7, <1>8, <1>9 DEF Next

(* The failed call of an enumeration is its last one.                      *)
LEMMA BlockingStep ==
    ASSUME IInv, BlockingInv, [Next]_vars
    PROVE  BlockingInv'
<1>1. SUFFICES ASSUME mode' = "bc", pc' = "incoherent"
               PROVE  ToFind' = {}
    BY DEF BlockingInv
<1>2. mode = "bc" /\ mode' = mode /\ instance' = instance
    BY <1>1, CallerKept
<1>3. ~AnswerSet /\ ~BlockModel /\ ~EndBlocking
    BY <1>1 DEF AnswerSet, BlockModel, EndBlocking
<1>4. found' = found /\ (pc = "incoherent" \/ ToFind = {})
    BY <1>1, <1>2, <1>3, SearchReportsNothing
<1>5. ToFind' = ToFind
    BY <1>2, <1>4, ModelsKept
<1> QED BY <1>2, <1>4, <1>5 DEF BlockingInv

(* What is reported is a model, and another one than those before: each of *)
(* these is refuted by a clause that was kept, for a blocking clause may   *)
(* be shortened and simplified, but never deleted.                         *)
LEMMA NewModel ==
    ASSUME IInv, mode = "bc", AnswerSet
    PROVE  /\ Reported \in Models /\ Reported \notin Lits(found)
           /\ found' = Append(found, Reported)
           /\ pc = "loop" /\ (pc' = "end" <=> Len(found') >= MaxModels)
<1>1. /\ pc = "loop" /\ ~HasUndefinedLiterals
      /\ found' = Append(found, Reported)
      /\ pc' = IF Len(found') >= MaxModels THEN "end" ELSE "coherent"
    BY DEF AnswerSet, Reported
<1>2. /\ SearchInv /\ DatabaseInv /\ KeptInv /\ Quiet /\ instance \in Instances
      /\ found \in Seq(SUBSET Var)
    BY <1>1 DEF IInv, PropagationInv, ControlInv, FoundInv
<1>3. Len(trail) >= Cardinality(Var)
    BY <1>1, <1>2, CompleteTrail, SearchFacts DEF HasUndefinedLiterals
<1>4. Reported \in Models /\ \A D \in Kept : Sat(Reported, D)
    BY <1>2, <1>3, ModelFound
<1>5. \A n \in 1 .. Len(found) : found[n] # Reported
    BY <1>1, <1>2, <1>4 DEF KeptInv
<1>6. Reported \notin Lits(found)
    BY <1>2, <1>5, LenProperties DEF Lits
<1> QED BY <1>1, <1>4, <1>6

(* A model without decisions is the only one that was left.                *)
LEMMA LastModel ==
    ASSUME IInv, BlockModel, Opposite(Decisions) = {}
    PROVE  ToFind = {}
<1>1. pc = "coherent" /\ mode = "bc"
    BY DEF BlockModel
<1>2. /\ SearchInv /\ found \in Seq(SUBSET Var) /\ found # <<>>
      /\ Len(trail) >= Cardinality(Var) /\ found[Len(found)] = Reported
    BY <1>1 DEF IInv, CoherentInv, FoundInv, Reported
<1>3. Len(found) \in Nat /\ Len(found) # 0 /\ DOMAIN found = 1 .. Len(found)
    BY <1>2, LenProperties, EmptySeq
<1>4. Reported \in Lits(found)
    BY <1>2, <1>3 DEF Lits
<1>5. Entails(ToFind, Opposite(Decisions))
    BY <1>1, <1>2, <1>4, BlockedEntailed
<1> QED BY <1>5 DEF Entails, Sat

-----------------------------------------------------------------------------
(* What an observer of the enumeration sees.                               *)
Listed == IF mode = "bc" THEN Models ELSE {}
Reports == IF mode = "bc" THEN found ELSE <<>>
Ended == mode = "bc" /\ pc = "end"

(* A step that he does not see.                                            *)
LEMMA Unseen ==
    ASSUME [Next]_vars,
           mode = "bc" => found' = found /\ (pc' = "end" <=> pc = "end")
    PROVE  UNCHANGED <<Listed, Reports, Ended>>
<1>1. instance' = instance /\ (mode' = mode \/ (mode # "bc" /\ mode' # "bc"))
    BY CallerKept
<1>2. Models' = Models
    BY <1>1 DEF Models
<1>3. CASE mode = "bc"
    <2>1. mode' = "bc" /\ found' = found /\ (pc' = "end" <=> pc = "end")
        BY <1>1, <1>3
    <2>2. Ended' <=> Ended
        BY <1>3, <2>1 DEF Ended
    <2>3. Listed' = Listed /\ Reports' = Reports
        BY <1>2, <1>3, <2>1 DEF Listed, Reports
    <2>4. Ended' = Ended
        BY <2>2, Zenon DEF Ended
    <2> QED BY <2>3, <2>4
<1>4. CASE mode # "bc"
    <2>1. mode' # "bc"
        BY <1>1, <1>4
    <2> QED BY <1>4, <2>1 DEF Listed, Reports, Ended
<1> QED BY <1>3, <1>4

(* The enumeration by blocking clauses reports a model that was not        *)
(* reported before with every answer, and ends with the last model there   *)
(* is or the last one asked for; nothing else it does is a report or the   *)
(* end.                                                                    *)
LEMMA EnumerationStep ==
    ASSUME IInv, BlockingInv, [Next]_vars
    PROVE  [ModelsListed!Next]_<<Listed, Reports, Ended>>
<1>1. CASE mode = "bc" /\ AnswerSet
    <2>1. /\ Reported \in Models /\ Reported \notin Lits(found)
          /\ found' = Append(found, Reported)
          /\ pc = "loop" /\ (pc' = "end" <=> Len(found') >= MaxModels)
        BY <1>1, NewModel
    <2>2. mode' = "bc" /\ Models' = Models
        BY <1>1, CallerKept DEF Models
    <2>3. Listed = Models /\ Listed' = Models /\ Reports = found /\ Reports' = found'
        BY <1>1, <2>2 DEF Listed, Reports
    <2>4. ~Ended /\ (Ended' <=> Len(found') >= MaxModels)
        BY <2>1, <2>2 DEF Ended
    <2>5. Ended' = (Len(Reports') >= MaxModels)
        BY <2>2, <2>3, <2>1 DEF Ended
    <2>6. Reported \in Listed \ ModelsListed!Reported
        BY <2>1, <2>3 DEF ModelsListed!Reported, Reports, Lits
    <2>7. ModelsListed!Report
        BY <2>1, <2>3, <2>4, <2>5, <2>6 DEF ModelsListed!Report, Listed, Reports, Ended
    <2> QED BY <2>7 DEF ModelsListed!Next
<1>2. CASE /\ mode = "bc" /\ ToFind = {} /\ pc # "end" /\ pc' = "end"
           /\ found' = found
    <2>1. mode' = "bc" /\ Models' = Models
        BY <1>2, CallerKept DEF Models
    <2>2. Listed' = Listed /\ Reports' = Reports /\ Listed = Models /\ Reports = found
        BY <1>2, <2>1 DEF Listed, Reports
    <2>3. ~Ended /\ Ended' = TRUE
        BY <1>2, <2>1 DEF Ended
    <2>4. Models \subseteq Lits(found)
        BY <1>2 DEF ToFind
    <2>5. ModelsListed!End
        BY <1>2, <2>2, <2>3, <2>4 DEF ModelsListed!End, ModelsListed!Reported, Listed, Reports, Ended, Lits
    <2> QED BY <2>5 DEF ModelsListed!Next
<1>3. CASE mode = "bc" /\ EndBlocking
    BY <1>2, <1>3 DEF EndBlocking, BlockingInv, caller
<1>4. CASE mode = "bc" /\ BlockModel
    <2>1. pc = "coherent" /\ found' = found
        BY <1>4 DEF BlockModel, caller
    <2>2. CASE pc' = "end"
        <3>1. Opposite(Decisions) = {}
            BY <1>4, <2>2 DEF BlockModel
        <3>2. ToFind = {}
            BY <1>4, <3>1, LastModel
        <3> QED BY <1>2, <1>4, <2>1, <2>2, <3>2
    <2>3. CASE pc' # "end"
        BY <2>1, <2>3, Unseen
    <2> QED BY <2>2, <2>3
<1>5. CASE mode = "bc" /\ ~AnswerSet /\ ~BlockModel /\ ~EndBlocking
    BY <1>5, SearchReportsNothing, Unseen
<1>6. CASE mode # "bc"
    BY <1>6, Unseen
<1> QED BY <1>1, <1>3, <1>4, <1>5, <1>6

(* Solver::addClauseFromModelAndRestart and Enumeration::                  *)
(* enumerationBlockingClause report every model once, whatever the search  *)
(* learns, simplifies, deletes or restarts in between.                     *)
THEOREM EnumeratesOnce == Spec => ImplementsEnumerator
<1>1. Init => IInv /\ BlockingInv
    BY InitInv DEF Init, BlockingInv
<1>2. IInv /\ BlockingInv /\ [Next]_vars => IInv' /\ BlockingInv'
    BY NextStep, BlockingStep
<1>3. Init => ModelsListed!Init
    BY DEF Init, ModelsListed!Init
<1>4. IInv /\ BlockingInv /\ [Next]_vars => [ModelsListed!Next]_<<Listed, Reports, Ended>>
    BY EnumerationStep
<1> QED BY <1>1, <1>2, <1>3, <1>4, PTL DEF Spec, ImplementsEnumerator, ModelsListed!Spec, Listed, Reports, Ended
=============================================================================
