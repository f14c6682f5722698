--------------------------- MODULE ReasoningProofs ---------------------------
(***************************************************************************)
(* What the reasoning tasks compute, for every problem and every option,   *)
(* over a solver that may answer each call with any model, any core and    *)
(* any knowledge of level zero.                                            *)
(***************************************************************************)
EXTENDS WaspReasoning, FiniteSetTheorems, SequenceTheorems, WellFoundedInduction, TLAPS

-----------------------------------------------------------------------------
(* Lists.  In a finite set of integers each number of smaller members is   *)
(* that of one member, and Ascending lists them all.                       *)
LEMMA UpTo ==
    ASSUME NEW n \in Nat
    PROVE  IsFiniteSet(1 .. n) /\ Cardinality(1 .. n) = n
<1>1. IsFiniteSet(1 .. n) /\ Cardinality(1 .. n) = IF 1 > n THEN 0 ELSE n - 1 + 1
    BY FS_Interval
<1> QED BY <1>1

Nth(S, n) == CHOOSE v \in S : Cardinality({u \in S : u < v}) = n - 1

LEMMA NthMember ==
    ASSUME NEW S \in SUBSET Int, IsFiniteSet(S)
    PROVE  /\ Cardinality(S) \in Nat
           /\ \A n \in 1 .. Cardinality(S) : Nth(S, n) \in S
           /\ \A v \in S : \E n \in 1 .. Cardinality(S) : Nth(S, n) = v
           /\ \A m, n \in 1 .. Cardinality(S) : Nth(S, m) = Nth(S, n) => m = n
           /\ \A m, n \in 1 .. Cardinality(S) : m < n => Nth(S, m) < Nth(S, n)
<1> DEFINE below(v) == {u \in S : u < v}
           rank(v) == Cardinality(below(v)) + 1
           f == [v \in S |-> rank(v)]
<1>1. \A v \in S : IsFiniteSet(below(v)) /\ Cardinality(below(v)) \in Nat
    BY FS_Subset, FS_CardinalityType
<1>2. Cardinality(S) \in Nat
    BY FS_CardinalityType
<1>3. \A v \in S : rank(v) \in 1 .. Cardinality(S)
    <2> TAKE v \in S
    <2>1. /\ Cardinality(below(v)) <= Cardinality(S)
          /\ Cardinality(S) = Cardinality(below(v)) => S = below(v)
        BY FS_Subset
    <2>2. v \notin below(v)
        OBVIOUS
    <2> QED BY <1>1, <1>2, <2>1, <2>2
<1>4. \A v, w \in S : v < w => rank(v) < rank(w)
    <2> TAKE v, w \in S
    <2> HAVE v < w
    <2>1. v \in below(w) /\ v \notin below(v)
        OBVIOUS
    <2>2. \A x \in below(v) : x \in below(w)
        <3> SUFFICES ASSUME NEW x \in S, x < v PROVE x < w
            OBVIOUS
        <3>1. x \in Int /\ v \in Int /\ w \in Int
            OBVIOUS
        <3> QED BY <3>1
    <2>3. below(v) \in SUBSET below(w) /\ IsFiniteSet(below(w))
        BY <1>1, <2>2
    <2> HIDE DEF below
    <2>4. /\ Cardinality(below(v)) <= Cardinality(below(w))
          /\ Cardinality(below(w)) = Cardinality(below(v)) => below(w) = below(v)
        BY <2>3, FS_Subset
    <2> QED BY <1>1, <2>1, <2>4
<1>5. f \in Injection(S, 1 .. Cardinality(S))
    <2> HIDE DEF rank
    <2>1. f \in [S -> 1 .. Cardinality(S)]
        BY <1>3
    <2>2. \A v, w \in S : f[v] = f[w] => v = w
        BY <1>3, <1>4
    <2> QED BY <2>1, <2>2 DEF Injection, IsInjective
<1>6. f \in Surjection(S, 1 .. Cardinality(S))
    <2>1. IsFiniteSet(1 .. Cardinality(S)) /\ Cardinality(1 .. Cardinality(S)) = Cardinality(S)
        BY <1>2, FS_Interval
    <2> HIDE DEF f
    <2> QED BY <1>5, <2>1, FS_Injection
<1>7. \A n \in 1 .. Cardinality(S) : \E v \in S : rank(v) = n
    <2> HIDE DEF rank
    <2> QED BY <1>6 DEF Surjection
<1>8. \A n \in 1 .. Cardinality(S) : Nth(S, n) \in S /\ rank(Nth(S, n)) = n
    <2> TAKE n \in 1 .. Cardinality(S)
    <2>1. PICK v \in S : rank(v) = n
        BY <1>7
    <2>a. Cardinality(below(v)) \in Nat
        BY <1>1
    <2>2. Cardinality(below(v)) = n - 1
        <3> HIDE DEF below
        <3> QED BY <2>1, <2>a
    <2>3. Nth(S, n) \in S /\ Cardinality(below(Nth(S, n))) = n - 1
        BY <2>2 DEF Nth
    <2> QED BY <2>3
<1>9. \A v \in S : \E n \in 1 .. Cardinality(S) : Nth(S, n) = v
    <2> TAKE v \in S
    <2>1. PICK n \in 1 .. Cardinality(S) : n = rank(v)
        BY <1>3
    <2>2. PICK w \in S : w = Nth(S, n)
        BY <1>8
    <2>3. rank(w) = rank(v)
        BY <1>8, <2>1, <2>2
    <2> HIDE DEF rank
    <2>4. rank(v) \in Nat /\ v \in Int /\ w \in Int
        BY <1>3
    <2>5. ~(w < v) /\ ~(v < w)
        BY <1>4, <2>3, <2>4
    <2>6. w = v
        BY <2>4, <2>5
    <2> QED BY <2>1, <2>2, <2>6
<1>10. \A m, n \in 1 .. Cardinality(S) : Nth(S, m) = Nth(S, n) => m = n
    BY <1>8
<1>11. \A m, n \in 1 .. Cardinality(S) : m < n => Nth(S, m) < Nth(S, n)
    <2> TAKE m, n \in 1 .. Cardinality(S)
    <2> HAVE m < n
    <2>1. PICK v \in S, w \in S : v = Nth(S, m) /\ w = Nth(S, n) /\ rank(v) = m /\ rank(w) = n
        BY <1>8
    <2> HIDE DEF rank
    <2>2. v \in Int /\ w \in Int /\ m \in Int /\ n \in Int
        OBVIOUS
    <2>3. v # w /\ ~(w < v)
        BY <1>4, <2>1, <2>2
    <2> QED BY <2>1, <2>2, <2>3
<1> HIDE DEF rank
<1> QED BY <1>2, <1>8, <1>9, <1>10, <1>11

(* The least and the greatest of a finite set.                             *)
LEMMA Extremes ==
    ASSUME NEW S \in SUBSET Int, IsFiniteSet(S), S # {}
    PROVE  /\ Min(S) \in S /\ \A x \in S : Min(S) <= x
           /\ Max(S) \in S /\ \A x \in S : x <= Max(S)
<1>1. Cardinality(S) \in Nat /\ Cardinality(S) # 0
    BY FS_CardinalityType, FS_EmptySet
<1>2. 1 \in 1 .. Cardinality(S) /\ Cardinality(S) \in 1 .. Cardinality(S)
    BY <1>1
<1>3. Nth(S, 1) \in S /\ \A x \in S : Nth(S, 1) <= x
    <2>1. SUFFICES ASSUME NEW x \in S PROVE Nth(S, 1) <= x
        BY <1>2, NthMember
    <2>2. PICK n \in 1 .. Cardinality(S) : Nth(S, n) = x
        BY NthMember
    <2>3. PICK v \in S : v = Nth(S, 1)
        BY <1>2, NthMember
    <2>4. n = 1 \/ v < x
        BY <1>1, <1>2, <2>2, <2>3, NthMember
    <2> QED BY <2>2, <2>3, <2>4
<1>4. Nth(S, Cardinality(S)) \in S /\ \A x \in S : x <= Nth(S, Cardinality(S))
    <2>1. SUFFICES ASSUME NEW x \in S PROVE x <= Nth(S, Cardinality(S))
        BY <1>2, NthMember
    <2>2. PICK n \in 1 .. Cardinality(S) : Nth(S, n) = x
        BY NthMember
    <2>3. PICK v \in S : v = Nth(S, Cardinality(S))
        BY <1>2, NthMember
    <2>4. n = Cardinality(S) \/ x < v
        BY <1>1, <1>2, <2>2, <2>3, NthMember
    <2> QED BY <2>2, <2>3, <2>4
<1> QED BY <1>3, <1>4 DEF Min, Max

LEMMA AscendingLists ==
    ASSUME NEW S \in SUBSET Int, IsFiniteSet(S)
    PROVE  /\ Ascending(S) \in Seq(S) /\ Len(Ascending(S)) = Cardinality(S)
           /\ ToSet(Ascending(S)) = S
           /\ IsInjective(Ascending(S))
<1> DEFINE A == Ascending(S)
<1>1. Cardinality(S) \in Nat
    BY NthMember
<1>2. A = [i \in 1 .. Cardinality(S) |-> Nth(S, i)]
    BY DEF Ascending, Nth
<1> HIDE DEF A
<1>3. A \in Seq(S) /\ Len(A) = Cardinality(S) /\ DOMAIN A = 1 .. Cardinality(S)
    BY <1>1, <1>2, NthMember
<1>4. ToSet(A) = S
    <2>1. \A i \in DOMAIN A : A[i] \in S
        BY <1>3
    <2>2. \A v \in S : \E i \in DOMAIN A : A[i] = v
        BY <1>2, <1>3, NthMember
    <2> QED BY <2>1, <2>2 DEF ToSet
<1>5. IsInjective(A)
    BY <1>2, <1>3, NthMember DEF IsInjective
<1> QED BY <1>3, <1>4, <1>5 DEF A

(* Keep keeps what is in S, once for each place.                           *)
LEMMA KeepKeeps ==
    ASSUME NEW T, NEW s \in Seq(T), NEW S
    PROVE  /\ Keep(s, S) \in Seq(T)
           /\ ToSet(Keep(s, S)) = ToSet(s) \cap S
           /\ Len(Keep(s, S)) <= Len(s) /\ Len(Keep(s, S)) \in Nat
           /\ IsInjective(s) => IsInjective(Keep(s, S))
<1> DEFINE I == {i \in DOMAIN s : s[i] \in S}
           at == Ascending(I)
           K1 == Keep(s, S)
<1>1. I \in SUBSET (1 .. Len(s)) /\ IsFiniteSet(1 .. Len(s)) /\ Cardinality(1 .. Len(s)) = Len(s)
    <2>1. Len(s) \in Nat /\ DOMAIN s = 1 .. Len(s)
        OBVIOUS
    <2> QED BY <2>1, UpTo
<1>2. IsFiniteSet(I) /\ Cardinality(I) <= Len(s) /\ Cardinality(I) \in Nat
    BY <1>1, FS_Subset, FS_CardinalityType
<1>3. /\ at \in Seq(I) /\ Len(at) = Cardinality(I) /\ ToSet(at) = I
      /\ IsInjective(at)
    <2>1. I \in SUBSET Int
        BY <1>1
    <2> HIDE DEF I
    <2> QED BY <1>2, <2>1, AscendingLists
<1>4. K1 = [k \in DOMAIN at |-> s[at[k]]]
    BY DEF Keep
<1> HIDE DEF at, K1
<1>5. DOMAIN at = 1 .. Cardinality(I) /\ \A k \in DOMAIN at : at[k] \in I
    <2> HIDE DEF I
    <2> QED BY <1>3
<1>6. K1 \in Seq(T) /\ Len(K1) = Cardinality(I) /\ DOMAIN K1 = DOMAIN at
    <2>1. \A k \in 1 .. Cardinality(I) : s[at[k]] \in T
        BY <1>5
    <2>2. K1 = [k \in 1 .. Cardinality(I) |-> s[at[k]]]
        BY <1>4, <1>5
    <2> HIDE DEF I
    <2> QED BY <1>2, <1>5, <2>1, <2>2
<1>7. ToSet(K1) = ToSet(s) \cap S
    <2>1. \A k \in DOMAIN K1 : K1[k] \in ToSet(s) \cap S
        BY <1>4, <1>5, <1>6 DEF ToSet
    <2>2. \A i \in I : \E k \in DOMAIN at : at[k] = i
        BY <1>3 DEF ToSet
    <2>3. \A x \in ToSet(s) \cap S : \E k \in DOMAIN K1 : K1[k] = x
        BY <1>4, <1>6, <2>2 DEF ToSet
    <2> QED BY <2>1, <2>3 DEF ToSet
<1>8. IsInjective(s) => IsInjective(K1)
    BY <1>3, <1>4, <1>5, <1>6 DEF IsInjective
<1> QED BY <1>2, <1>6, <1>7, <1>8 DEF K1

LEMMA EndOrBefore ==
    ASSUME NEW n \in Nat, NEW i \in 1 .. n
    PROVE  i = n \/ (i \in 1 .. n - 1 /\ i # n)
    OBVIOUS

LEMMA BeforeEnd ==
    ASSUME NEW n \in Nat, NEW i \in 1 .. n - 1
    PROVE  i \in 1 .. n /\ i # n
    OBVIOUS

LEMMA MinusTakesOut ==
    ASSUME NEW T, NEW s \in Seq(T), NEW v
    PROVE  /\ Minus(s, v) \in Seq(T)
           /\ ToSet(s) \ {v} \subseteq ToSet(Minus(s, v))
           /\ ToSet(Minus(s, v)) \subseteq ToSet(s)
<1> DEFINE t == [i \in DOMAIN s |-> IF s[i] = v THEN Last(s) ELSE s[i]]
<1>1. CASE v \notin ToSet(s)
    BY <1>1 DEF Minus
<1>2. CASE v \in ToSet(s)
    <2>1. Len(s) \in Nat /\ DOMAIN s = 1 .. Len(s)
        OBVIOUS
    <2>2. PICK p \in 1 .. Len(s) : s[p] = v
        BY <1>2, <2>1 DEF ToSet
    <2>3. Len(s) >= 1 /\ Last(s) = s[Len(s)] /\ Len(s) \in 1 .. Len(s)
        BY <2>1, <2>2 DEF Last
    <2>4. t \in Seq(T) /\ Len(t) = Len(s) /\ \A i \in 1 .. Len(s) : t[i] = IF s[i] = v THEN s[Len(s)] ELSE s[i]
        <3>1. t = [i \in 1 .. Len(s) |-> IF s[i] = v THEN s[Len(s)] ELSE s[i]]
            BY <2>1, <2>3
        <3> HIDE DEF t
        <3>2. \A i \in 1 .. Len(s) : (IF s[i] = v THEN s[Len(s)] ELSE s[i]) \in T
            BY <2>3
        <3> QED BY <2>1, <3>1, <3>2
    <2>5. Minus(s, v) = SubSeq(t, 1, Len(s) - 1)
        <3> HIDE DEF t
        <3>1. Minus(s, v) = Front(t)
            BY <1>2 DEF Minus, t
        <3> QED BY <2>4, <3>1 DEF Front
    <2> HIDE DEF t
    <2>6. /\ Minus(s, v) \in Seq(T) /\ DOMAIN Minus(s, v) = 1 .. Len(s) - 1
          /\ \A i \in 1 .. Len(s) - 1 : Minus(s, v)[i] = t[i]
        BY <2>1, <2>3, <2>4, <2>5
    <2>7. ASSUME NEW x \in ToSet(s) \ {v} PROVE x \in ToSet(Minus(s, v))
        <3>1. PICK i \in 1 .. Len(s) : s[i] = x
            BY <2>1 DEF ToSet
        <3>2. CASE i = Len(s)
            <4>1. p # Len(s)
                BY <2>2, <2>7, <3>1, <3>2
            <4>2. p \in 1 .. Len(s) - 1
                BY <2>1, <4>1, EndOrBefore
            <4>3. t[p] = x
                BY <2>2, <2>4, <3>1, <3>2
            <4> QED BY <2>6, <4>2, <4>3 DEF ToSet
        <3>3. CASE i # Len(s)
            <4>1. i \in 1 .. Len(s) - 1
                BY <2>1, <3>3, EndOrBefore
            <4>2. t[i] = x
                BY <2>4, <2>7, <3>1
            <4> QED BY <2>6, <4>1, <4>2 DEF ToSet
        <3> QED BY <3>2, <3>3
    <2>8. \A i \in 1 .. Len(s) - 1 : Minus(s, v)[i] \in ToSet(s)
        <3> TAKE i \in 1 .. Len(s) - 1
        <3>1. i \in 1 .. Len(s)
            BY <2>1, BeforeEnd
        <3>2. Minus(s, v)[i] = s[Len(s)] \/ Minus(s, v)[i] = s[i]
            BY <2>4, <2>6, <3>1
        <3> QED BY <2>1, <2>3, <3>1, <3>2 DEF ToSet
    <2> QED BY <2>6, <2>7, <2>8 DEF ToSet
<1> QED BY <1>1, <1>2

LEMMA FirstOnes ==
    ASSUME NEW T, NEW s \in Seq(T), NEW n \in 0 .. Len(s)
    PROVE  /\ SubSeq(s, 1, n) \in Seq(T)
           /\ ToSet(SubSeq(s, 1, n)) \subseteq ToSet(s)
<1>1. Len(s) \in Nat /\ DOMAIN s = 1 .. Len(s)
    OBVIOUS
<1>2. /\ SubSeq(s, 1, n) \in Seq(T) /\ DOMAIN SubSeq(s, 1, n) = 1 .. n
      /\ \A i \in 1 .. n : SubSeq(s, 1, n)[i] = s[i]
    BY <1>1
<1> QED BY <1>1, <1>2 DEF ToSet

LEMMA FrontOnes ==
    ASSUME NEW T, NEW s \in Seq(T), s # <<>>
    PROVE  /\ Front(s) \in Seq(T) /\ Last(s) \in T
           /\ ToSet(s) = ToSet(Front(s)) \cup {Last(s)}
<1>1. Len(s) \in Nat /\ DOMAIN s = 1 .. Len(s) /\ Len(s) >= 1 /\ Len(s) - 1 \in 0 .. Len(s)
    OBVIOUS
<1>2. /\ Front(s) \in Seq(T) /\ DOMAIN Front(s) = 1 .. Len(s) - 1
      /\ \A i \in 1 .. Len(s) - 1 : Front(s)[i] = s[i]
    BY <1>1 DEF Front
<1>3. Last(s) = s[Len(s)] /\ Last(s) \in T
    BY <1>1 DEF Last
<1>4. \A i \in 1 .. Len(s) : i \in 1 .. Len(s) - 1 \/ i = Len(s)
    BY <1>1, EndOrBefore
<1>5. \A x \in ToSet(s) : x \in ToSet(Front(s)) \cup {Last(s)}
    BY <1>1, <1>2, <1>3, <1>4 DEF ToSet
<1>6. \A x \in ToSet(Front(s)) \cup {Last(s)} : x \in ToSet(s)
    BY <1>1, <1>2, <1>3 DEF ToSet
<1> QED BY <1>2, <1>3, <1>5, <1>6

Apart(a, c) == IsInjective(a) /\ IsInjective(c) /\ ToSet(a) \cap ToSet(c) = {}

LEMMA KeepAll ==
    ASSUME NEW T, NEW s \in Seq(T), NEW S, Len(Keep(s, S)) = Len(s)
    PROVE  ToSet(s) \subseteq S
<1> DEFINE I == {i \in DOMAIN s : s[i] \in S}
<1>1. Len(s) \in Nat /\ DOMAIN s = 1 .. Len(s)
    OBVIOUS
<1>2. IsFiniteSet(1 .. Len(s)) /\ Cardinality(1 .. Len(s)) = Len(s)
    BY <1>1, UpTo
<1>3. I \in SUBSET (1 .. Len(s)) /\ IsFiniteSet(I)
    BY <1>1, <1>2, FS_Subset
<1>4. Len(Ascending(I)) = Cardinality(I) /\ Ascending(I) \in Seq(I)
    <2>1. I \in SUBSET Int
        BY <1>3
    <2> HIDE DEF I
    <2> QED BY <1>3, <2>1, AscendingLists
<1>5. Len(Keep(s, S)) = Cardinality(I)
    <2>1. Keep(s, S) = [k \in DOMAIN Ascending(I) |-> s[Ascending(I)[k]]]
        BY DEF Keep
    <2>2. DOMAIN Ascending(I) = 1 .. Cardinality(I) /\ Cardinality(I) \in Nat
        <3> HIDE DEF I
        <3> QED BY <1>3, <1>4, FS_CardinalityType
    <2> HIDE DEF I
    <2> QED BY <2>1, <2>2
<1>6. I = 1 .. Len(s)
    <2> HIDE DEF I
    <2> QED BY <1>2, <1>3, <1>5, FS_Subset
<1> QED BY <1>1, <1>6 DEF ToSet

LEMMA Joined ==
    ASSUME NEW T, NEW a \in Seq(T), NEW b \in Seq(T)
    PROVE  /\ a \o b \in Seq(T) /\ ToSet(a \o b) = ToSet(a) \cup ToSet(b)
           /\ Apart(a, b) => IsInjective(a \o b)
<1> DEFINE m == Len(a)
           n == Len(b)
           c == a \o b
<1>1. m \in Nat /\ n \in Nat /\ DOMAIN a = 1 .. m /\ DOMAIN b = 1 .. n
    OBVIOUS
<1>2. c \in Seq(T) /\ Len(c) = m + n /\ DOMAIN c = 1 .. (m + n)
    OBVIOUS
<1>3. \A i \in 1 .. m : c[i] = a[i] /\ i \in 1 .. (m + n)
    OBVIOUS
<1>4. \A i \in 1 .. n : c[m + i] = b[i] /\ m + i \in 1 .. (m + n) /\ ~(m + i \in 1 .. m)
    OBVIOUS
<1> HIDE DEF m, n, c
<1>5. \A i \in 1 .. (m + n) : i \in 1 .. m \/ (\E j \in 1 .. n : i = m + j)
    <2> TAKE i \in 1 .. (m + n)
    <2>1. CASE i <= m
        BY <1>1, <2>1
    <2>2. CASE i > m
        <3>1. i - m \in 1 .. n /\ i = m + (i - m)
            BY <1>1, <2>2
        <3> QED BY <3>1
    <2> QED BY <1>1, <2>1, <2>2
<1>6. \A i \in 1 .. (m + n) : c[i] \in ToSet(a) \cup ToSet(b)
    BY <1>1, <1>3, <1>4, <1>5 DEF ToSet
<1>7. \A x \in ToSet(a) \cup ToSet(b) : x \in ToSet(c)
    BY <1>1, <1>2, <1>3, <1>4 DEF ToSet
<1>8. ASSUME Apart(a, b), NEW i \in 1 .. (m + n), NEW j \in 1 .. (m + n), c[i] = c[j]
      PROVE  i = j
    <2>1. \A x \in 1 .. m, y \in 1 .. n : a[x] # b[y]
        BY <1>1, <1>8 DEF Apart, ToSet
    <2>2. CASE i \in 1 .. m /\ j \in 1 .. m
        BY <1>1, <1>3, <1>8, <2>2 DEF Apart, IsInjective
    <2>3. ASSUME NEW x \in 1 .. n, i = m + x, j \in 1 .. m PROVE FALSE
        BY <1>3, <1>4, <1>8, <2>1, <2>3
    <2>4. ASSUME NEW y \in 1 .. n, j = m + y, i \in 1 .. m PROVE FALSE
        BY <1>3, <1>4, <1>8, <2>1, <2>4
    <2>5. ASSUME NEW x \in 1 .. n, i = m + x, NEW y \in 1 .. n, j = m + y PROVE i = j
        <3>1. b[x] = b[y]
            BY <1>4, <1>8, <2>5
        <3> QED BY <1>1, <1>8, <2>5, <3>1 DEF Apart, IsInjective
    <2> QED BY <1>5, <2>2, <2>3, <2>4, <2>5
<1>9. ToSet(c) = ToSet(a) \cup ToSet(b)
    BY <1>2, <1>6, <1>7 DEF ToSet
<1>10. Apart(a, b) => IsInjective(c)
    BY <1>2, <1>8 DEF IsInjective
<1> QED BY <1>2, <1>9, <1>10 DEF c

LEMMA Appended ==
    ASSUME NEW T, NEW a \in Seq(T), NEW v \in T
    PROVE  /\ Append(a, v) \in Seq(T) /\ ToSet(Append(a, v)) = ToSet(a) \cup {v}
           /\ IsInjective(a) /\ v \notin ToSet(a) => IsInjective(Append(a, v))
<1>1. <<v>> \in Seq(T) /\ ToSet(<<v>>) = {v} /\ IsInjective(<<v>>)
    BY DEF ToSet, IsInjective
<1>2. PICK b \in Seq(T) : b = <<v>>
    BY <1>1
<1>3. Append(a, v) = a \o b
    BY <1>2
<1>4. a \o b \in Seq(T) /\ ToSet(a \o b) = ToSet(a) \cup ToSet(b) /\ (Apart(a, b) => IsInjective(a \o b))
    BY Joined
<1>5. IsInjective(a) /\ v \notin ToSet(a) => Apart(a, b)
    BY <1>1, <1>2 DEF Apart
<1> QED BY <1>1, <1>2, <1>3, <1>4, <1>5

LEMMA Mirrored ==
    ASSUME NEW n \in Nat, NEW i \in 1 .. n
    PROVE  n - i + 1 \in 1 .. n /\ n - (n - i + 1) + 1 = i
OBVIOUS

LEMMA Reversed ==
    ASSUME NEW T, NEW s \in Seq(T)
    PROVE  /\ Reverse(s) \in Seq(T) /\ ToSet(Reverse(s)) = ToSet(s)
           /\ IsInjective(s) => IsInjective(Reverse(s))
<1>1. Len(s) \in Nat /\ DOMAIN s = 1 .. Len(s)
    OBVIOUS
<1>2. Reverse(s) = [i \in 1 .. Len(s) |-> s[(Len(s) - i) + 1]]
    BY DEF Reverse
<1>3. \A i \in 1 .. Len(s) : (Len(s) - i) + 1 \in 1 .. Len(s) /\ Len(s) - (Len(s) - i + 1) + 1 = i
    BY <1>1, Mirrored
<1>4. Reverse(s) \in Seq(T) /\ DOMAIN Reverse(s) = 1 .. Len(s)
    <2>1. \A i \in 1 .. Len(s) : s[(Len(s) - i) + 1] \in T
        BY <1>1, <1>3
    <2> QED BY <1>1, <1>2, <2>1
<1>5. \A i \in 1 .. Len(s) : Reverse(s)[i] = s[(Len(s) - i) + 1]
    BY <1>2
<1>6. ToSet(Reverse(s)) = ToSet(s)
    <2>1. \A i \in 1 .. Len(s) : Reverse(s)[i] \in ToSet(s)
        BY <1>1, <1>3, <1>5 DEF ToSet
    <2>2. \A i \in 1 .. Len(s) : s[i] = Reverse(s)[(Len(s) - i) + 1]
        BY <1>3, <1>5
    <2>3. \A i \in 1 .. Len(s) : s[i] \in ToSet(Reverse(s))
        BY <1>3, <1>4, <2>2 DEF ToSet
    <2> QED BY <1>1, <1>4, <2>1, <2>3 DEF ToSet
<1>7. IsInjective(s) => IsInjective(Reverse(s))
    <2> SUFFICES ASSUME IsInjective(s), NEW i \in 1 .. Len(s), NEW j \in 1 .. Len(s), Reverse(s)[i] = Reverse(s)[j]
                 PROVE  i = j
        BY <1>4 DEF IsInjective
    <2>1. (Len(s) - i) + 1 = (Len(s) - j) + 1
        BY <1>1, <1>3, <1>5 DEF IsInjective
    <2> QED BY <1>1, <2>1
<1> QED BY <1>4, <1>6, <1>7

LEMMA Shifted ==
    ASSUME NEW l \in Nat, NEW n \in 0 .. l
    PROVE  /\ l - n \in Nat
           /\ \A i \in 1 .. (l - n) : n + i \in 1 .. l /\ ~(n + i \in 1 .. n)
           /\ \A i \in 1 .. n : i \in 1 .. l
           /\ \A i \in 1 .. l : i \in 1 .. n \/ (i - n \in 1 .. (l - n) /\ n + (i - n) = i)
           /\ \A i, j \in 1 .. (l - n) : n + i = n + j => i = j
OBVIOUS

LEMMA Parts ==
    ASSUME NEW T, NEW s \in Seq(T), NEW n \in 0 .. Len(s)
    PROVE  /\ SubSeq(s, 1, n) \in Seq(T) /\ SubSeq(s, n + 1, Len(s)) \in Seq(T)
           /\ Len(SubSeq(s, 1, n)) = n
           /\ ToSet(s) = ToSet(SubSeq(s, 1, n)) \cup ToSet(SubSeq(s, n + 1, Len(s)))
           /\ IsInjective(s) => Apart(SubSeq(s, 1, n), SubSeq(s, n + 1, Len(s)))
<1> DEFINE a == SubSeq(s, 1, n)
           b == SubSeq(s, n + 1, Len(s))
           l == Len(s)
<1>1. l \in Nat /\ DOMAIN s = 1 .. l /\ n \in 0 .. l
    OBVIOUS
<1>2. a \in Seq(T) /\ DOMAIN a = 1 .. n /\ Len(a) = n /\ \A i \in 1 .. n : a[i] = s[i]
    BY <1>1
<1>3. b \in Seq(T) /\ DOMAIN b = 1 .. (l - n) /\ \A i \in 1 .. (l - n) : b[i] = s[n + i]
    BY <1>1
<1> HIDE DEF a, b, l
<1>4. /\ \A i \in 1 .. (l - n) : n + i \in 1 .. l /\ ~(n + i \in 1 .. n)
      /\ \A i \in 1 .. n : i \in 1 .. l
      /\ \A i \in 1 .. l : i \in 1 .. n \/ (i - n \in 1 .. (l - n) /\ n + (i - n) = i)
      /\ \A i, j \in 1 .. (l - n) : n + i = n + j => i = j
    BY <1>1, Shifted
<1>5. \A i \in 1 .. l : s[i] \in ToSet(a) \cup ToSet(b)
    <2> TAKE i \in 1 .. l
    <2>1. CASE i \in 1 .. n
        BY <1>2, <2>1 DEF ToSet
    <2>2. CASE i - n \in 1 .. (l - n) /\ n + (i - n) = i
        <3>1. b[i - n] = s[i]
            BY <1>3, <2>2
        <3> QED BY <1>3, <2>2, <3>1 DEF ToSet
    <2> QED BY <1>4, <2>1, <2>2
<1>6. ToSet(s) = ToSet(a) \cup ToSet(b)
    <2>1. \A x \in ToSet(a) : x \in ToSet(s)
        BY <1>1, <1>2, <1>4 DEF ToSet
    <2>2. \A i \in 1 .. (l - n) : b[i] \in ToSet(s)
        <3> TAKE i \in 1 .. (l - n)
        <3>1. b[i] = s[n + i] /\ n + i \in DOMAIN s
            BY <1>1, <1>3, <1>4
        <3> QED BY <3>1 DEF ToSet
    <2>3. \A x \in ToSet(b) : x \in ToSet(s)
        BY <1>3, <2>2 DEF ToSet
    <2>4. \A x \in ToSet(s) : x \in ToSet(a) \cup ToSet(b)
        BY <1>1, <1>5 DEF ToSet
    <2> QED BY <2>1, <2>3, <2>4
<1>7. IsInjective(s) => Apart(a, b)
    <2> SUFFICES ASSUME IsInjective(s) PROVE Apart(a, b)
        OBVIOUS
    <2>1. \A i, j \in 1 .. l : s[i] = s[j] => i = j
        BY <1>1 DEF IsInjective
    <2>2. IsInjective(a)
        BY <1>2, <1>4, <2>1 DEF IsInjective
    <2>3. IsInjective(b)
        BY <1>3, <1>4, <2>1 DEF IsInjective
    <2>4. \A i \in 1 .. n, j \in 1 .. (l - n) : a[i] # b[j]
        BY <1>2, <1>3, <1>4, <2>1
    <2>5. ToSet(a) \cap ToSet(b) = {}
        BY <1>2, <1>3, <2>4 DEF ToSet
    <2> QED BY <2>2, <2>3, <2>5 DEF Apart
<1> QED BY <1>2, <1>3, <1>6, <1>7 DEF a, b, l

LEMMA LaterOnes ==
    ASSUME NEW T, NEW s \in Seq(T), NEW n \in 0 .. Len(s)
    PROVE  \A x \in ToSet(SubSeq(s, n + 1, Len(s))) : \E i \in 1 .. Len(s) : x = s[i] /\ ~(i \in 1 .. n)
<1> DEFINE b == SubSeq(s, n + 1, Len(s))
           l == Len(s)
<1>1. l \in Nat /\ DOMAIN s = 1 .. l /\ n \in 0 .. l
    OBVIOUS
<1>2. DOMAIN b = 1 .. (l - n) /\ \A i \in 1 .. (l - n) : b[i] = s[n + i]
    BY <1>1
<1> HIDE DEF b, l
<1>3. \A j \in 1 .. (l - n) : b[j] = s[n + j] /\ n + j \in 1 .. l /\ ~(n + j \in 1 .. n)
    BY <1>1, <1>2, Shifted
<1>4. \A x \in ToSet(b) : \E i \in 1 .. l : x = s[i] /\ ~(i \in 1 .. n)
    BY <1>2, <1>3 DEF ToSet
<1> QED BY <1>4 DEF b, l

LEMMA OneAtTheEnd ==
    ASSUME NEW T, NEW s \in Seq(T), s # <<>>
    PROVE  /\ Front(s) \in Seq(T) /\ Last(s) \in T /\ Last(s) \in ToSet(s)
           /\ ToSet(s) = ToSet(Front(s)) \cup {Last(s)}
           /\ IsInjective(s) => IsInjective(Front(s)) /\ Last(s) \notin ToSet(Front(s))
<1>1. Len(s) \in Nat /\ Len(s) >= 1 /\ DOMAIN s = 1 .. Len(s)
    OBVIOUS
<1>2. Len(s) - 1 \in 0 .. Len(s) /\ Len(s) - 1 + 1 = Len(s) /\ Len(s) \in 1 .. Len(s)
    BY <1>1
<1>3. Front(s) = SubSeq(s, 1, Len(s) - 1) /\ Last(s) = s[Len(s)]
    BY DEF Front, Last
<1>4. DOMAIN SubSeq(s, Len(s), Len(s)) = {1} /\ SubSeq(s, Len(s), Len(s))[1] = s[Len(s)]
    BY <1>1
<1>5. ToSet(SubSeq(s, Len(s), Len(s))) = {s[Len(s)]}
    BY <1>4 DEF ToSet
<1>6. /\ SubSeq(s, 1, Len(s) - 1) \in Seq(T)
      /\ ToSet(s) = ToSet(SubSeq(s, 1, Len(s) - 1)) \cup ToSet(SubSeq(s, Len(s), Len(s)))
      /\ IsInjective(s) => Apart(SubSeq(s, 1, Len(s) - 1), SubSeq(s, Len(s), Len(s)))
    BY <1>2, Parts
<1>7. s[Len(s)] \in T /\ s[Len(s)] \in ToSet(s)
    BY <1>1, <1>2 DEF ToSet
<1> QED BY <1>3, <1>4, <1>5, <1>6, <1>7 DEF Apart

LEMMA ListedOnce ==
    ASSUME NEW T, NEW s \in Seq(T), IsInjective(s)
    PROVE  IsFiniteSet(ToSet(s)) /\ Cardinality(ToSet(s)) = Len(s)
<1>1. Len(s) \in Nat /\ DOMAIN s = 1 .. Len(s)
    OBVIOUS
<1>2. IsFiniteSet(1 .. Len(s)) /\ Cardinality(1 .. Len(s)) = Len(s)
    BY <1>1, UpTo
<1>3. s \in Surjection(1 .. Len(s), ToSet(s))
    BY <1>1 DEF Surjection, ToSet
<1>4. s \in Injection(1 .. Len(s), ToSet(s))
    BY <1>1, <1>3 DEF Injection, Surjection, IsInjective
<1>5. s \in Bijection(1 .. Len(s), ToSet(s))
    BY <1>3, <1>4 DEF Bijection
<1>6. IsFiniteSet(ToSet(s))
    BY <1>2, <1>3, FS_Surjection
<1>7. Cardinality(ToSet(s)) = Cardinality(1 .. Len(s))
    BY <1>2, <1>5, FS_Bijection DEF ExistsBijection
<1> QED BY <1>2, <1>6, <1>7

LEMMA SetAsList ==
    ASSUME NEW S, IsFiniteSet(S)
    PROVE  /\ Cardinality(S) \in Nat
           /\ SetToSeq(S) \in Seq(S) /\ Len(SetToSeq(S)) = Cardinality(S)
           /\ IsInjective(SetToSeq(S)) /\ ToSet(SetToSeq(S)) = S
<1> DEFINE n == Cardinality(S)
           s == SetToSeq(S)
<1>1. n \in Nat
    BY FS_CardinalityType
<1>2. IsFiniteSet(1 .. n) /\ Cardinality(1 .. n) = n
    BY <1>1, UpTo
<1>3. PICK f \in Bijection(1 .. n, S) : TRUE
    BY <1>2, FS_SameCardinalityBij DEF ExistsBijection
<1>4. f \in [1 .. n -> S] /\ IsInjective(f)
    BY <1>3 DEF Bijection, Injection, IsInjective
<1>5. s \in [1 .. n -> S] /\ IsInjective(s)
    BY <1>4 DEF SetToSeq
<1> HIDE DEF s
<1>6. s \in Injection(1 .. n, S)
    BY <1>5 DEF Injection, IsInjective
<1>7. s \in Surjection(1 .. n, S)
    BY <1>2, <1>6, FS_Injection
<1>8. ToSet(s) = S
    BY <1>5, <1>7 DEF Surjection, ToSet
<1>9. s \in Seq(S) /\ Len(s) = n
    BY <1>1, <1>5
<1> QED BY <1>1, <1>5, <1>8, <1>9 DEF s

(* What is found is taken out, and the last one takes its place.           *)
LEMMA MinusLeavesOthers ==
    ASSUME NEW T, NEW s \in Seq(T), NEW v, IsInjective(s)
    PROVE  /\ Minus(s, v) \in Seq(T) /\ IsInjective(Minus(s, v))
           /\ ToSet(Minus(s, v)) = ToSet(s) \ {v}
           /\ Len(Minus(s, v)) \in Nat /\ Len(Minus(s, v)) = IF v \in ToSet(s) THEN Len(s) - 1 ELSE Len(s)
<1> DEFINE t == [i \in DOMAIN s |-> IF s[i] = v THEN Last(s) ELSE s[i]]
           m == Minus(s, v)
<1>1. CASE v \notin ToSet(s)
    BY <1>1 DEF Minus
<1>2. CASE v \in ToSet(s)
    <2>1. Len(s) \in Nat /\ DOMAIN s = 1 .. Len(s)
        OBVIOUS
    <2>2. PICK p \in 1 .. Len(s) : s[p] = v
        BY <1>2, <2>1 DEF ToSet
    <2>3. Len(s) >= 1 /\ Last(s) = s[Len(s)] /\ Len(s) \in 1 .. Len(s)
        BY <2>1, <2>2 DEF Last
    <2>4. t \in Seq(T) /\ Len(t) = Len(s) /\ \A i \in 1 .. Len(s) : t[i] = IF s[i] = v THEN s[Len(s)] ELSE s[i]
        <3>1. t = [i \in 1 .. Len(s) |-> IF s[i] = v THEN s[Len(s)] ELSE s[i]]
            BY <2>1, <2>3
        <3> HIDE DEF t
        <3>2. \A i \in 1 .. Len(s) : (IF s[i] = v THEN s[Len(s)] ELSE s[i]) \in T
            BY <2>3
        <3> QED BY <2>1, <3>1, <3>2
    <2>5. m = SubSeq(t, 1, Len(s) - 1)
        <3> HIDE DEF t
        <3>1. Minus(s, v) = Front(t)
            BY <1>2 DEF Minus, t
        <3> QED BY <2>4, <3>1 DEF Front
    <2> HIDE DEF t, m
    <2>6. /\ m \in Seq(T) /\ DOMAIN m = 1 .. Len(s) - 1 /\ Len(m) = Len(s) - 1
          /\ \A i \in 1 .. Len(s) - 1 : m[i] = t[i]
        BY <2>1, <2>3, <2>4, <2>5
    <2>7. \A i, j \in 1 .. Len(s) : s[i] = s[j] => i = j
        BY <2>1 DEF IsInjective
    <2>8. \A i \in 1 .. Len(s) - 1 : i \in 1 .. Len(s) /\ i # Len(s) /\ m[i] = IF i = p THEN s[Len(s)] ELSE s[i]
        <3> TAKE i \in 1 .. Len(s) - 1
        <3>1. i \in 1 .. Len(s) /\ i # Len(s)
            BY <2>1, BeforeEnd
        <3> QED BY <2>2, <2>4, <2>6, <2>7, <3>1
    <2>9. IsInjective(m)
        BY <2>3, <2>6, <2>7, <2>8 DEF IsInjective
    <2>10. v \notin ToSet(m)
        <3>1. \A i \in 1 .. Len(s) - 1 : m[i] # v
            <4> TAKE i \in 1 .. Len(s) - 1
            <4>1. CASE i = p
                BY <2>2, <2>3, <2>7, <2>8, <4>1
            <4>2. CASE i # p
                BY <2>2, <2>7, <2>8, <4>2
            <4> QED BY <4>1, <4>2
        <3> QED BY <2>6, <3>1 DEF ToSet
    <2>11. ToSet(s) \ {v} \subseteq ToSet(m) /\ ToSet(m) \subseteq ToSet(s)
        BY MinusTakesOut DEF m
    <2>12. Len(m) \in Nat
        BY <2>1, <2>3, <2>6
    <2> QED BY <1>2, <2>6, <2>9, <2>10, <2>11, <2>12 DEF m
<1> QED BY <1>1, <1>2

LEMMA LeastOf ==
    ASSUME NEW a \in Int, NEW b \in Int
    PROVE  /\ Min({a, b}) \in {a, b} /\ Min({a, b}) <= a /\ Min({a, b}) <= b
           /\ Max({a, b}) \in {a, b} /\ Max({a, b}) >= a /\ Max({a, b}) >= b
<1>1. \E x \in {a, b} : \A y \in {a, b} : x <= y
    OBVIOUS
<1>2. \E x \in {a, b} : \A y \in {a, b} : x >= y
    OBVIOUS
<1> QED BY <1>1, <1>2 DEF Min, Max
-----------------------------------------------------------------------------
(* The minimal sets.  Top is the set found last, or everything; what of    *)
(* Top is no candidate any more holds in every model, and every model that *)
(* has less than Top is still there.                                       *)
Minimizing == algorithm.task = "predmin"
Found(M) == M \cap problem.minimized
Top == IF trueVars = NoSet THEN problem.minimized ELSE trueVars
Narrowed ==
    /\ Candidates \subseteq Top
    /\ \A N \in models : Found(N) \subseteq Top /\ Top \ Candidates \subseteq N
LessKept ==
    \A N \in problem.models :
        Found(N) \subseteq Top /\ (trueVars = NoSet \/ Found(N) # Top) => N \in models
UpToKept == \A N \in problem.models : Found(N) \subseteq Top => N \in models

MinimizerAt ==
    /\ pc \in Minimizers \cup {"predmin", "check", "done", "hanging"}
    /\ pc = "predmin" => trueVars = NoSet
    /\ pc = "enumeration" =>
         /\ algorithm.name = "enumeration"
         /\ \A N \in problem.models \ models :
              trueVars # NoSet /\ Cardinality(trueVars) <= Cardinality(Found(N))
    /\ pc = "usePreferences" =>
         algorithm.name = "usePreferences" /\ Candidates = problem.minimized /\ trueVars = NoSet
    /\ pc \in {"guessAndCheck", "check"} =>
         algorithm.name = "guessAndCheck" /\ (trueVars = NoSet => assumptions = {})
    /\ pc = "guessAndCheckAndSplit" =>
         algorithm.name = "guessAndCheckAndSplit" /\ (trueVars = NoSet => assumptions = {})
    /\ pc = "coreBased" =>
         /\ algorithm.name = "coreBased" /\ assumptions \subseteq {-v : v \in problem.minimized}
         /\ Narrowed /\ UpToKept
    /\ pc = "guessAndCheckAndMinimize" =>
         /\ algorithm.name \in {"guessAndCheckAndMinimize", "coreBased"} /\ assumptions = {}
         /\ Narrowed /\ LessKept

(* What is asked for is asked of a problem, and by an algorithm for it.    *)
Asked ==
    /\ problem \in Problems /\ algorithm \in Algorithms
    /\ algorithm.task = "weak" <=> problem.soft # <<>>
    /\ algorithm.task = "predmin" <=> problem.minimized # {}

MinimizeInv ==
    Minimizing =>
        /\ models \in SUBSET problem.models
        /\ candidates \in Seq(problem.minimized)
        /\ trueVars \in Sets \cup {NoSet}
        /\ trueVars = NoSet => models = problem.models
        /\ MinimizerAt
        /\ SetIsMinimal
-----------------------------------------------------------------------------
LEMMA ProblemTypes ==
    ASSUME Asked
    PROVE  /\ problem.size \in Nat
           /\ problem.models \in SUBSET SUBSET (1 .. problem.size)
           /\ problem.minimized \in SUBSET (1 .. problem.size)
           /\ problem.visible \in SUBSET (1 .. problem.size)
           /\ IsFiniteSet(1 .. problem.size)
           /\ algorithm.task \in {"weak", "query", "cautious", "predmin"}
           /\ algorithm.task \in {"query", "predmin"} => algorithm.chunk \in Nat
<1>1. /\ problem.size \in Nat
      /\ problem.models \in SUBSET SUBSET (1 .. problem.size)
      /\ problem.minimized \in SUBSET (1 .. problem.size)
      /\ problem.visible \in SUBSET (1 .. problem.size)
    BY ProblemsAssumption DEF Asked
<1>2. IsFiniteSet(1 .. problem.size)
    BY <1>1, FS_Interval
<1>3. /\ algorithm.task \in {"weak", "query", "cautious", "predmin"}
      /\ algorithm.task \in {"query", "predmin"} => algorithm.chunk \in Nat
    BY AlgorithmsAssumption DEF Asked
<1> QED BY <1>1, <1>2, <1>3

(* The listener keeps the smaller set; a subset of the last is smaller.    *)
LEMMA FoundSetSmallest ==
    ASSUME Asked, trueVars \in Sets \cup {NoSet}, NEW M \in problem.models, FoundSet(M)
    PROVE  /\ trueVars' \in Sets /\ trueVars' # NoSet
           /\ Cardinality(trueVars') <= Cardinality(Found(M))
           /\ trueVars # NoSet => Cardinality(trueVars') <= Cardinality(trueVars)
           /\ Found(M) \subseteq Top => trueVars' = Found(M)
<1>1. Found(M) \in Sets /\ \A s \in Sets : s \in SUBSET (1 .. problem.size)
    BY ProblemTypes DEF Sets, Found
<1>2. \A s \in Sets : IsFiniteSet(s) /\ Cardinality(s) \in Nat
    BY <1>1, ProblemTypes, FS_Subset, FS_CardinalityType
<1>3. NoSet \notin Sets
    BY <1>1, ProblemTypes DEF NoSet
<1>4. trueVars' = IF trueVars = NoSet \/ Cardinality(Found(M)) < Cardinality(trueVars)
                  THEN Found(M) ELSE trueVars
    BY DEF FoundSet, Found
<1>5. trueVars' \in Sets /\ trueVars' # NoSet
    BY <1>1, <1>3, <1>4
<1>6. /\ Cardinality(trueVars') <= Cardinality(Found(M))
      /\ trueVars # NoSet => Cardinality(trueVars') <= Cardinality(trueVars)
    BY <1>1, <1>2, <1>4
<1>7. ASSUME Found(M) \subseteq Top, trueVars # NoSet, Found(M) # trueVars
      PROVE  Cardinality(Found(M)) < Cardinality(trueVars)
    <2>1. Found(M) \in SUBSET trueVars /\ IsFiniteSet(trueVars) /\ trueVars \in Sets
        BY <1>2, <1>7 DEF Top
    <2>2. /\ Cardinality(Found(M)) <= Cardinality(trueVars)
          /\ Cardinality(trueVars) = Cardinality(Found(M)) => trueVars = Found(M)
        BY <2>1, FS_Subset
    <2> QED BY <1>1, <1>2, <1>7, <2>1, <2>2
<1> QED BY <1>4, <1>5, <1>6, <1>7

(* Where the sets that are left are minimal.                               *)
LEMMA NothingLess ==
    ASSUME trueVars \in Sets, \A N \in problem.models : Found(N) \subseteq trueVars => Found(N) = trueVars
    PROVE  \A s \in Sets : s \subseteq trueVars => s = trueVars
BY DEF Sets, Found

(* The set of candidates of a model, and the assumptions.                  *)
LEMMA TrueOnes ==
    ASSUME candidates \in Seq(problem.minimized), NEW M
    PROVE  True(M) \in Seq(problem.minimized) /\ ToSet(True(M)) = Candidates \cap M
BY KeepKeeps DEF True, Candidates

LEMMA AtMostAll ==
    ASSUME NEW a \in Nat, NEW b \in Nat
    PROVE  Min({Max({a, 2}), b}) \in 0 .. b
<1>1. PICK m \in Nat : m = Max({a, 2})
    BY LeastOf
<1>2. m \in Int /\ b \in Int
    OBVIOUS
<1>3. Min({m, b}) \in {m, b} /\ Min({m, b}) <= b
    BY <1>2, LeastOf
<1>4. PICK n \in Nat : n = Min({m, b})
    BY <1>3
<1> QED BY <1>1, <1>3, <1>4

LEMMA NegatedFirst ==
    ASSUME Asked, Minimizing, NEW c \in Seq(problem.minimized)
    PROVE  FirstFalse(c) \subseteq {-v : v \in problem.minimized}
<1> DEFINE n == IF algorithm.chunk = 0 THEN Len(c) ELSE Min({Max({algorithm.chunk, 2}), Len(c)})
           t == SubSeq(c, 1, n)
<1>1. Len(c) \in Nat /\ algorithm.chunk \in Nat
    BY ProblemTypes DEF Minimizing
<1>2. n \in 0 .. Len(c)
    <2>1. Min({Max({algorithm.chunk, 2}), Len(c)}) \in 0 .. Len(c)
        BY <1>1, AtMostAll
    <2> QED BY <1>1, <2>1
<1>3. FirstFalse(c) = Negated(t)
    BY DEF FirstFalse
<1> HIDE DEF n
<1>4. t \in Seq(problem.minimized)
    BY <1>2, FirstOnes
<1> HIDE DEF t
<1>5. \A i \in DOMAIN t : t[i] \in problem.minimized
    BY <1>4
<1> QED BY <1>3, <1>5 DEF Negated

-----------------------------------------------------------------------------
(* What each algorithm has to leave behind, with the values after a step.  *)
LEMMA InvariantKept ==
    ASSUME Asked, Minimizing, UNCHANGED task,
           models' \in SUBSET problem.models,
           candidates' \in Seq(problem.minimized),
           trueVars' \in Sets \cup {NoSet},
           trueVars' = NoSet => models' = problem.models,
           MinimizerAt',
           pc' = "done" =>
             /\ trueVars' = NoSet => problem.models = {}
             /\ trueVars' # NoSet /\ algorithm.name \notin {"guessAndCheck", "guessAndCheckAndSplit"}
                   /\ (algorithm.name = "enumeration" => algorithm.strategy = "bc") =>
                  \A N \in problem.models : Found(N) \subseteq trueVars' => Found(N) = trueVars'
             /\ trueVars' # NoSet /\ algorithm.name = "enumeration" /\ algorithm.strategy = "bc" =>
                  \A N \in problem.models : Cardinality(trueVars') <= Cardinality(Found(N))
    PROVE  MinimizeInv'
<1>1. problem' = problem /\ algorithm' = algorithm /\ Sets' = Sets
    BY DEF task, Sets
<1>2. problem.models = {} => trueVars' = NoSet
    BY DEF Sets
<1>3. SetIsMinimal'
    BY <1>1, <1>2 DEF SetIsMinimal, AllReported, KeepsMinimality, Sets, Found
<1> QED BY <1>1, <1>3 DEF MinimizeInv

(* What is left of the models is empty, or all candidates are gone.        *)
LEMMA LeftAreMinimal ==
    ASSUME NEW P, NEW T, NEW C, NEW all, NEW ms,
           \A N \in ms : T \ C \subseteq N,
           T \subseteq P,
           \A N \in all : N \cap P \subseteq T /\ N \cap P # T => N \in ms,
           ms = {} \/ C = {},
           NEW N \in all, N \cap P \subseteq T
    PROVE  N \cap P = T
OBVIOUS

LEMMA EmptyCore ==
    ASSUME NEW A, NEW z, NEW C \in Cores(A, z), C = {}
    PROVE  models = {}
BY DEF Cores, HoldsAll

LEMMA NoAssumptions ==
    ASSUME assumptions = {}, NEW z, Incoherent(z)
    PROVE  models = {}
<1>1. PICK C \in Cores(assumptions, z) : TRUE
    BY DEF Incoherent
<1>2. C = {}
    BY <1>1 DEF Cores
<1> QED BY <1>2, EmptyCore

(* A core of one candidate that is assumed false: it is true in all models.*)
LEMMA OneCandidate ==
    ASSUME Asked, NEW A \in SUBSET {-v : v \in problem.minimized}, NEW z,
           NEW C \in Cores(A, z), Cardinality(C) = 1
    PROVE  \E v \in problem.minimized : Min(Opposite(C)) = v /\ \A N \in models : v \in N
<1>1. IsFiniteSet(problem.minimized) /\ C \in SUBSET {-v : v \in problem.minimized}
    BY ProblemTypes, FS_Subset DEF Cores
<1>2. IsFiniteSet({-v : v \in problem.minimized})
    <2> DEFINE f == [v \in problem.minimized |-> -v]
               S == {-v : v \in problem.minimized}
    <2>1. f \in Surjection(problem.minimized, S)
        BY DEF Surjection
    <2> QED BY <1>1, <2>1, FS_Surjection
<1>3. IsFiniteSet(C)
    BY <1>1, <1>2, FS_Subset
<1>4. PICK l \in C : C = {l}
    BY <1>3, FS_Singleton
<1>5. PICK v \in problem.minimized : l = -v
    BY <1>1, <1>4
<1>6. v \in Nat \ {0}
    BY ProblemTypes
<1>7. Opposite(C) = {v}
    BY <1>4, <1>5, <1>6 DEF Opposite
<1>8. Min({v}) = v
    BY <1>6 DEF Min
<1>9. \A N \in models : v \in N
    BY <1>4, <1>5, <1>6 DEF Cores, HoldsAll, Holds
<1> QED BY <1>7, <1>8, <1>9

(* From the candidates of a model on: less than it found, or as much.      *)
LEMMA ModelNarrows ==
    ASSUME NEW P, NEW T, NEW C, NEW ms, NEW M \in ms, C \subseteq P,
           \A N \in ms : N \cap P \subseteq T /\ T \ C \subseteq N
    PROVE  /\ M \cap P \subseteq T /\ C \cap M \subseteq M \cap P
           /\ \A N \in ms : N \cap C \subseteq M =>
                N \cap P \subseteq M \cap P /\ (M \cap P) \ (C \cap M) \subseteq N
           /\ \A N \in ms : C \cap M \subseteq N => M \cap P \subseteq N
OBVIOUS

-----------------------------------------------------------------------------
LEMMA PredicateMinimizationSolveKeeps ==
    ASSUME Asked, Minimizing, MinimizeInv, PredicateMinimizationSolve
    PROVE  MinimizeInv'
<1> DEFINE c == Ascending(problem.minimized)
<1>1. problem.minimized \in SUBSET Int /\ IsFiniteSet(problem.minimized)
    <2>1. problem.minimized \in SUBSET (1 .. problem.size) /\ IsFiniteSet(1 .. problem.size)
        BY ProblemTypes
    <2>2. problem.minimized \in SUBSET Int
        BY ProblemTypes
    <2> QED BY <2>1, <2>2, FS_Subset
<1>2. c \in Seq(problem.minimized) /\ ToSet(c) = problem.minimized
    BY <1>1, AscendingLists
<1>3. c # <<>>
    BY <1>2 DEF Asked, Minimizing, ToSet
<1>4. FirstFalse(c) \subseteq {-v : v \in problem.minimized}
    BY <1>2, NegatedFirst
<1>5. /\ pc = "predmin" /\ pc' = algorithm.name /\ candidates' = c
      /\ assumptions' = IF algorithm.name = "coreBased" THEN FirstFalse(c) ELSE {}
      /\ UNCHANGED <<solver, task, minimize>>
    BY <1>3 DEF PredicateMinimizationSolve, Continue, Call
<1> HIDE DEF c
<1>6. /\ trueVars = NoSet /\ models = problem.models /\ UNCHANGED <<models, trueVars>>
      /\ problem' = problem /\ algorithm' = algorithm
    BY <1>5 DEF MinimizeInv, MinimizerAt, minimize, solver, task
<1>7. algorithm.name \in Minimizers
    BY AlgorithmsAssumption DEF Asked, Minimizing
<1>8. Candidates' = problem.minimized /\ Top' = problem.minimized
    BY <1>2, <1>5, <1>6 DEF Candidates, Top
<1>9. Narrowed' /\ UpToKept' /\ LessKept'
    BY <1>6, <1>8 DEF Narrowed, UpToKept, LessKept, Found
<1>10. MinimizerAt'
    BY <1>4, <1>5, <1>6, <1>7, <1>8, <1>9 DEF MinimizerAt, Minimizers
<1> QED BY <1>2, <1>5, <1>6, <1>7, <1>10, InvariantKept DEF Minimizers

LEMMA EnumerationKeeps ==
    ASSUME Asked, Minimizing, MinimizeInv, EnumerationOfAll
    PROVE  MinimizeInv'
<1>1. /\ pc = "enumeration" /\ algorithm.name = "enumeration"
      /\ models \in SUBSET problem.models
      /\ candidates \in Seq(problem.minimized) /\ trueVars \in Sets \cup {NoSet}
      /\ trueVars = NoSet => models = problem.models
      /\ \A N \in problem.models \ models :
           trueVars # NoSet /\ Cardinality(trueVars) <= Cardinality(Found(N))
    BY DEF EnumerationOfAll, MinimizeInv, MinimizerAt
<1>2. UNCHANGED task /\ problem' = problem /\ algorithm' = algorithm
    BY DEF EnumerationOfAll, Others, task
<1>3. \A s \in Sets : s \in SUBSET (1 .. problem.size) /\ IsFiniteSet(s) /\ Cardinality(s) \in Nat
    BY ProblemTypes, FS_Subset, FS_CardinalityType DEF Sets
<1>4. CASE \E M \in models : Model(M, zero) /\ models' = models \ {M} /\ UNCHANGED <<candidates, assumptions, pc>>
    <2>1. PICK M \in models : Model(M, zero) /\ models' = models \ {M} /\ UNCHANGED <<candidates, pc>>
        BY <1>4
    <2>2. /\ trueVars' \in Sets /\ trueVars' # NoSet
          /\ Cardinality(trueVars') <= Cardinality(Found(M))
          /\ trueVars # NoSet => Cardinality(trueVars') <= Cardinality(trueVars)
        BY <1>1, <2>1, FoundSetSmallest DEF Model
    <2>3. ASSUME NEW N \in problem.models \ models' PROVE Cardinality(trueVars') <= Cardinality(Found(N))
        <3>1. CASE N \in models
            BY <2>1, <2>2, <2>3, <3>1
        <3>2. CASE N \notin models
            <4>1. Cardinality(trueVars) <= Cardinality(Found(N)) /\ trueVars \in Sets /\ trueVars # NoSet
                BY <1>1, <2>3, <3>2
            <4>2. Found(N) \in Sets
                BY <2>3 DEF Sets, Found
            <4> QED BY <1>3, <2>2, <4>1, <4>2
        <3> QED BY <3>1, <3>2
    <2>4. MinimizerAt'
        BY <1>1, <1>2, <2>1, <2>2, <2>3 DEF MinimizerAt, Found, Minimizers
    <2> QED BY <1>1, <1>2, <2>1, <2>2, <2>4, InvariantKept
<1>5. CASE MayEnd /\ Continue(candidates, {}, "done") /\ UNCHANGED <<models, zero, trueVars>>
    <2>1. MayEnd /\ pc' = "done" /\ UNCHANGED <<models, trueVars, candidates>>
        BY <1>5 DEF Continue, Call
    <2>2. trueVars = NoSet => problem.models = {}
        BY <1>1, <2>1 DEF MayEnd
    <2>3. ASSUME trueVars # NoSet, algorithm.strategy = "bc", NEW N \in problem.models
          PROVE  /\ Cardinality(trueVars) <= Cardinality(Found(N))
                 /\ Found(N) \subseteq trueVars => Found(N) = trueVars
        <3>1. Cardinality(trueVars) <= Cardinality(Found(N)) /\ trueVars \in Sets
            BY <1>1, <2>1, <2>3 DEF MayEnd
        <3>2. Found(N) \in Sets
            BY DEF Sets, Found
        <3>3. ASSUME Found(N) \subseteq trueVars PROVE Found(N) = trueVars
            <4>1. Cardinality(Found(N)) <= Cardinality(trueVars)
                  /\ (Cardinality(trueVars) = Cardinality(Found(N)) => trueVars = Found(N))
                BY <1>3, <3>1, <3>3, FS_Subset
            <4> QED BY <1>3, <3>1, <3>2, <4>1
        <3> QED BY <3>1, <3>3
    <2>4. MinimizerAt'
        BY <2>1 DEF MinimizerAt
    <2> QED BY <1>1, <1>2, <2>1, <2>2, <2>3, <2>4, InvariantKept
<1> QED BY <1>4, <1>5 DEF EnumerationOfAll

LEMMA UsePreferencesKeeps ==
    ASSUME Asked, Minimizing, MinimizeInv, UsePreferences
    PROVE  MinimizeInv'
<1>1. /\ pc = "usePreferences" /\ algorithm.name = "usePreferences"
      /\ models = problem.models /\ trueVars = NoSet
      /\ candidates \in Seq(problem.minimized) /\ Candidates = problem.minimized
    BY DEF UsePreferences, MinimizeInv, MinimizerAt
<1>2. UNCHANGED task /\ problem' = problem /\ algorithm' = algorithm /\ models' = models
    BY DEF UsePreferences, Others, task
<1>3. /\ candidates' = candidates /\ pc' = "done"
      /\ \/ models = {} /\ trueVars' = trueVars
         \/ \E M \in models : Preferred(M, Negated(candidates)) /\ FoundSet(M)
    BY DEF UsePreferences, Model, Continue, Call
<1>4. MinimizerAt'
    BY <1>3 DEF MinimizerAt
<1>5. CASE models = {} /\ trueVars' = trueVars
    BY <1>1, <1>2, <1>3, <1>4, <1>5, InvariantKept
<1>6. ASSUME NEW M \in models, Preferred(M, Negated(candidates)), FoundSet(M)
      PROVE  MinimizeInv'
    <2>1. trueVars' = Found(M) /\ trueVars' \in Sets /\ trueVars' # NoSet
        <3>1. trueVars \in Sets \cup {NoSet}
            BY <1>1
        <3> QED BY <1>1, <1>6, <3>1, FoundSetSmallest DEF Top, Found
    <2>2. Negated(candidates) = {-v : v \in problem.minimized}
        BY <1>1 DEF Negated, Candidates, ToSet
    <2>3. \A N \in models, v \in problem.minimized : Holds(N, -v) <=> v \notin N
        BY ProblemTypes DEF Holds
    <2>4. ASSUME NEW N \in problem.models, Found(N) \subseteq Found(M) PROVE Found(N) = Found(M)
        <3> DEFINE C == Negated(candidates)
        <3>1. \A l \in C : Holds(M, l) => Holds(N, l)
            BY <1>1, <2>2, <2>3, <2>4 DEF Found
        <3>2. TrueIn(M, C) \subseteq TrueIn(N, C)
            BY <3>1 DEF TrueIn
        <3>3. TrueIn(N, C) = TrueIn(M, C)
            BY <1>1, <1>6, <3>2 DEF Preferred
        <3>4. \A l \in C : Holds(N, l) => Holds(M, l)
            BY <3>3 DEF TrueIn
        <3> QED BY <1>1, <2>2, <2>3, <2>4, <3>4 DEF Found
    <2> QED BY <1>1, <1>2, <1>3, <1>4, <2>1, <2>4, InvariantKept
<1> QED BY <1>3, <1>5, <1>6

LEMMA GuessAndCheckKeeps ==
    ASSUME Asked, Minimizing, MinimizeInv, GuessAndCheck
    PROVE  MinimizeInv'
<1>1. /\ pc \in {"guessAndCheck", "check"} /\ algorithm.name = "guessAndCheck"
      /\ trueVars = NoSet => models = problem.models /\ assumptions = {}
      /\ models \in SUBSET problem.models /\ trueVars \in Sets \cup {NoSet}
      /\ candidates \in Seq(problem.minimized)
    BY DEF GuessAndCheck, MinimizeInv, MinimizerAt
<1>2. UNCHANGED task /\ problem' = problem /\ algorithm' = algorithm
    BY DEF GuessAndCheck, Others, task
<1>3. ASSUME NEW M \in models, FoundSet(M),
             models' \subseteq models, candidates' = candidates, pc' \in {"done", "check", "guessAndCheck"}
      PROVE  MinimizeInv'
    <2>1. trueVars' \in Sets /\ trueVars' # NoSet
        BY <1>1, <1>3, FoundSetSmallest
    <2>2. MinimizerAt'
        BY <1>1, <1>2, <1>3, <2>1 DEF MinimizerAt, Minimizers
    <2> QED BY <1>1, <1>2, <1>3, <2>1, <2>2, InvariantKept
<1>4. ASSUME Incoherent(zero), Continue(candidates, {}, "done"), UNCHANGED <<models, zero, trueVars>>
      PROVE  MinimizeInv'
    <2>1. trueVars = NoSet => problem.models = {}
        BY <1>1, <1>4, NoAssumptions
    <2>2. pc' = "done" /\ candidates' = candidates
        BY <1>4 DEF Continue, Call
    <2>3. MinimizerAt'
        BY <2>2 DEF MinimizerAt
    <2> QED BY <1>1, <1>2, <1>4, <2>1, <2>2, <2>3, InvariantKept
<1> QED BY <1>3, <1>4 DEF GuessAndCheck, Model, Continue, Call

LEMMA GuessAndCheckAndSplitKeeps ==
    ASSUME Asked, Minimizing, MinimizeInv, GuessAndCheckAndSplit
    PROVE  MinimizeInv'
<1>1. /\ pc = "guessAndCheckAndSplit" /\ algorithm.name = "guessAndCheckAndSplit"
      /\ trueVars = NoSet => models = problem.models /\ assumptions = {}
      /\ models \in SUBSET problem.models /\ trueVars \in Sets \cup {NoSet}
      /\ candidates \in Seq(problem.minimized)
    BY DEF GuessAndCheckAndSplit, MinimizeInv, MinimizerAt
<1>2. UNCHANGED task /\ problem' = problem /\ algorithm' = algorithm
    BY DEF GuessAndCheckAndSplit, Others, task
<1>3. ASSUME NEW c \in Seq(problem.minimized), Split(c)
      PROVE  candidates' \in Seq(problem.minimized) /\ pc' \in {"done", "guessAndCheckAndSplit"}
    <2>1. CASE c = <<>>
        BY <1>3, <2>1 DEF Split, Continue, Call
    <2>2. CASE c # <<>>
        BY <1>1, <1>3, <2>2, FrontOnes DEF Split, Continue, Call
    <2> QED BY <2>1, <2>2
<1>4. ASSUME models' \subseteq models, candidates' \in Seq(problem.minimized),
             pc' \in {"done", "guessAndCheckAndSplit"},
             trueVars' \in Sets, trueVars' # NoSet
      PROVE  MinimizeInv'
    <2>1. MinimizerAt'
        BY <1>1, <1>2, <1>4 DEF MinimizerAt, Minimizers
    <2> QED BY <1>1, <1>2, <1>4, <2>1, InvariantKept
<1>5. ASSUME NEW M \in models, FoundSet(M), models' = OnlyOf(models, M), Split(True(M))
      PROVE  MinimizeInv'
    <2>1. trueVars' \in Sets /\ trueVars' # NoSet
        BY <1>1, <1>5, FoundSetSmallest
    <2>2. models' \subseteq models
        BY <1>5 DEF OnlyOf
    <2>3. True(M) \in Seq(problem.minimized)
        BY <1>1, TrueOnes
    <2> QED BY <1>3, <1>4, <1>5, <2>1, <2>2, <2>3
<1>6. ASSUME Incoherent(zero), UNCHANGED trueVars, assumptions # {}, Split(candidates),
             models' = {M \in models : HoldsAll(M, Opposite(assumptions))}
      PROVE  MinimizeInv'
    BY <1>1, <1>3, <1>4, <1>6
<1>7. ASSUME Incoherent(zero), UNCHANGED trueVars, assumptions = {}, Continue(candidates, {}, "done"),
             models' = {M \in models : HoldsAll(M, Opposite(assumptions))}
      PROVE  MinimizeInv'
    <2>1. models = {} /\ models' = models
        BY <1>7, NoAssumptions
    <2>2. trueVars = NoSet => problem.models = {}
        BY <1>1, <2>1
    <2>3. pc' = "done" /\ candidates' = candidates
        BY <1>7 DEF Continue, Call
    <2>4. MinimizerAt'
        BY <2>3 DEF MinimizerAt
    <2> QED BY <1>1, <1>2, <1>7, <2>1, <2>2, <2>3, <2>4, InvariantKept
<1> QED BY <1>5, <1>6, <1>7 DEF GuessAndCheckAndSplit, Model

LEMMA GuessAndCheckAndMinimizeKeeps ==
    ASSUME Asked, Minimizing, MinimizeInv, GuessAndCheckAndMinimize
    PROVE  MinimizeInv'
<1> DEFINE P == problem.minimized
           C == Candidates
<1>1. /\ pc = "guessAndCheckAndMinimize"
      /\ algorithm.name \in {"guessAndCheckAndMinimize", "coreBased"}
      /\ trueVars = NoSet => models = problem.models
      /\ models \in SUBSET problem.models /\ trueVars \in Sets \cup {NoSet}
      /\ candidates \in Seq(P) /\ Narrowed /\ LessKept
    BY DEF GuessAndCheckAndMinimize, MinimizeInv, MinimizerAt
<1>2. UNCHANGED task /\ problem' = problem /\ algorithm' = algorithm
    BY DEF GuessAndCheckAndMinimize, Others, task
<1>3. Top \subseteq P /\ C \subseteq P
    BY <1>1 DEF Sets, Top, Candidates, ToSet
<1>4. ASSUME NEW M \in models, FoundSet(M),
             models' = {N \in OnlyOf(models, M) : ~(ToSet(True(M)) \subseteq N)},
             assumptions' = {}, candidates' \in Seq(P), Candidates' = C \cap M,
             \/ pc' = "done" /\ (models' = {} \/ C \cap M = {})
             \/ pc' = pc
      PROVE  MinimizeInv'
    <2>1. /\ M \cap P \subseteq Top /\ C \cap M \subseteq M \cap P
          /\ \A N \in models : N \cap C \subseteq M =>
               N \cap P \subseteq M \cap P /\ (M \cap P) \ (C \cap M) \subseteq N
          /\ \A N \in models : C \cap M \subseteq N => M \cap P \subseteq N
        BY <1>1, <1>3, ModelNarrows DEF Narrowed, Found
    <2>2. /\ trueVars' = M \cap P /\ trueVars' \in Sets /\ trueVars' # NoSet
        BY <1>1, <1>4, <2>1, FoundSetSmallest DEF Found
    <2>3. Top' = M \cap P
        BY <2>2 DEF Top
    <2>4. ToSet(True(M)) = C \cap M
        BY <1>1, TrueOnes
    <2>5. models' = {N \in models : N \cap C \subseteq M /\ ~(C \cap M \subseteq N)}
        BY <1>4, <2>4 DEF OnlyOf
    <2>6. ASSUME NEW N \in problem.models, N \cap P \subseteq M \cap P, N \cap P # M \cap P
          PROVE  N \in models'
        <3>1. N \in models
            BY <1>1, <2>1, <2>6 DEF LessKept, Found
        <3>2. N \cap C \subseteq M
            BY <1>3, <2>6
        <3>3. ~(C \cap M \subseteq N)
            BY <2>1, <2>6, <3>1
        <3> QED BY <2>5, <3>1, <3>2, <3>3
    <2>7. \A N \in models' : N \cap P \subseteq M \cap P /\ (M \cap P) \ (C \cap M) \subseteq N
        BY <2>1, <2>5
    <2>8. Narrowed' /\ LessKept'
        BY <1>2, <1>4, <2>1, <2>2, <2>3, <2>6, <2>7 DEF Narrowed, LessKept, Found
    <2>9. MinimizerAt'
        BY <1>1, <1>2, <1>4, <2>8 DEF MinimizerAt, Minimizers
    <2>10. ASSUME pc' = "done", NEW N \in problem.models, N \cap P \subseteq M \cap P
           PROVE  N \cap P = M \cap P
        BY <1>1, <1>4, <2>6, <2>7, <2>10, LeftAreMinimal
    <2>11. models' \in SUBSET problem.models
        BY <1>1, <2>5
    <2> QED BY <1>1, <1>2, <1>4, <2>2, <2>9, <2>10, <2>11, InvariantKept DEF Found
<1>5. ASSUME NEW M \in models, FoundSet(M),
             models' = {N \in OnlyOf(models, M) : ~(ToSet(True(M)) \subseteq N)},
             \/ True(M) = <<>> /\ Continue(<<>>, {}, "done")
             \/ True(M) # <<>> /\ models' = {} /\ Continue(<<>>, {}, "done")
             \/ True(M) # <<>> /\ Continue(True(M), {}, pc)
      PROVE  MinimizeInv'
    <2>1. True(M) \in Seq(P) /\ ToSet(True(M)) = C \cap M
        BY <1>1, TrueOnes
    <2>2. <<>> \in Seq(P) /\ ToSet(<<>>) = {}
        BY DEF ToSet
    <2>3. CASE True(M) = <<>> /\ Continue(<<>>, {}, "done")
        BY <1>4, <1>5, <2>1, <2>2, <2>3 DEF Continue, Call, Candidates
    <2>4. CASE True(M) # <<>> /\ Continue(True(M), {}, pc)
        BY <1>4, <1>5, <2>1, <2>4 DEF Continue, Call, Candidates
    <2>5. CASE models' = {} /\ Continue(<<>>, {}, "done")
        <3>1. candidates' = <<>> /\ pc' = "done" /\ assumptions' = {}
            BY <2>5 DEF Continue, Call
        <3>2. /\ M \cap P \subseteq Top /\ trueVars' = M \cap P /\ trueVars' \in Sets /\ trueVars' # NoSet
            BY <1>1, <1>3, <1>5, FoundSetSmallest DEF Narrowed, Found
        <3>3. ASSUME NEW N \in problem.models, N \cap P \subseteq M \cap P
              PROVE  N \cap P = M \cap P
            <4>1. SUFFICES ASSUME N \cap P # M \cap P PROVE FALSE
                OBVIOUS
            <4>2. N \in models
                BY <1>1, <3>2, <3>3, <4>1 DEF LessKept, Found
            <4>3. N \cap C \subseteq M
                BY <1>3, <3>3
            <4>4. C \cap M \subseteq N
                BY <1>5, <2>1, <2>5, <4>2, <4>3 DEF OnlyOf
            <4>5. M \cap P \subseteq N
                BY <1>1, <1>3, <4>2, <4>4, ModelNarrows DEF Narrowed, Found
            <4> QED BY <3>3, <4>1, <4>5
        <3>4. MinimizerAt'
            BY <3>1 DEF MinimizerAt
        <3> QED BY <1>1, <1>2, <2>2, <2>5, <3>1, <3>2, <3>3, <3>4, InvariantKept DEF Found
    <2> QED BY <1>5, <2>3, <2>4, <2>5
<1>6. ASSUME models = {}, UNCHANGED <<models, trueVars>>, candidates' = candidates,
             pc' \in {"done", "hanging"}
      PROVE  MinimizeInv'
    <2>1. trueVars = NoSet => problem.models = {}
        BY <1>1, <1>6
    <2>2. ASSUME trueVars # NoSet, NEW N \in problem.models, Found(N) \subseteq trueVars
          PROVE  Found(N) = trueVars
        BY <1>1, <1>6, <2>2 DEF LessKept, Top
    <2>3. MinimizerAt'
        BY <1>6 DEF MinimizerAt
    <2> QED BY <1>1, <1>2, <1>6, <2>1, <2>2, <2>3, InvariantKept
<1>7. CASE \E M \in models, z \in Known :
            /\ Model(M, z)
            /\ models' = {N \in OnlyOf(models, M) : ~(ToSet(True(M)) \subseteq N)}
            /\ \/ True(M) = <<>> /\ Continue(<<>>, {}, "done")
               \/ True(M) # <<>> /\ models' = {} /\ Continue(<<>>, {}, "done")
               \/ True(M) # <<>> /\ Continue(True(M), {}, pc)
    BY <1>5, <1>7 DEF Model
<1>8. CASE /\ models = {} /\ UNCHANGED <<models, zero, trueVars>>
           /\ Continue(candidates, {},
                       IF algorithm.name = "coreBased" /\ candidates # <<>> /\ Cardinality(core) > 1
                       THEN "hanging" ELSE "done")
    BY <1>6, <1>8 DEF Continue, Call
<1> QED BY <1>7, <1>8 DEF GuessAndCheckAndMinimize

LEMMA CoreBasedKeeps ==
    ASSUME Asked, Minimizing, MinimizeInv, CoreBased
    PROVE  MinimizeInv'
<1> DEFINE P == problem.minimized
           C == Candidates
<1>1. /\ pc = "coreBased" /\ algorithm.name = "coreBased"
      /\ trueVars = NoSet => models = problem.models
      /\ models \in SUBSET problem.models /\ trueVars \in Sets \cup {NoSet}
      /\ candidates \in Seq(P) /\ assumptions \subseteq {-v : v \in P} /\ Narrowed /\ UpToKept
    BY DEF CoreBased, MinimizeInv, MinimizerAt
<1>2. UNCHANGED task /\ problem' = problem /\ algorithm' = algorithm
    BY DEF CoreBased, Others, task
<1>3. Top \subseteq P /\ C \subseteq P
    BY <1>1 DEF Sets, Top, Candidates, ToSet
<1>4. ASSUME NEW M \in models, FoundSet(M), models' = OnlyOf(models, M),
             Continue(True(M), FirstFalse(True(M)), IF True(M) = <<>> THEN "done" ELSE pc)
      PROVE  MinimizeInv'
    <2>1. /\ M \cap P \subseteq Top /\ C \cap M \subseteq M \cap P
          /\ \A N \in models : N \cap C \subseteq M =>
               N \cap P \subseteq M \cap P /\ (M \cap P) \ (C \cap M) \subseteq N
        BY <1>1, <1>3, ModelNarrows DEF Narrowed, Found
    <2>2. /\ trueVars' = M \cap P /\ trueVars' \in Sets /\ trueVars' # NoSet
        BY <1>1, <1>4, <2>1, FoundSetSmallest DEF Found
    <2>3. Top' = M \cap P
        BY <2>2 DEF Top
    <2>4. True(M) \in Seq(P) /\ ToSet(True(M)) = C \cap M
        BY <1>1, TrueOnes
    <2>5. /\ candidates' = True(M) /\ assumptions' = FirstFalse(True(M))
          /\ pc' = IF True(M) = <<>> THEN "done" ELSE "coreBased"
        BY <1>1, <1>4 DEF Continue, Call
    <2>6. models' = {N \in models : N \cap C \subseteq M}
        BY <1>4 DEF OnlyOf
    <2>7. ASSUME NEW N \in problem.models, N \cap P \subseteq M \cap P
          PROVE  N \in models'
        <3>1. N \in models
            BY <1>1, <2>1, <2>7 DEF UpToKept, Found
        <3>2. N \cap C \subseteq M
            BY <1>3, <2>7
        <3> QED BY <2>6, <3>1, <3>2
    <2>8. \A N \in models' : N \cap P \subseteq M \cap P /\ (M \cap P) \ (C \cap M) \subseteq N
        BY <2>1, <2>6
    <2>9. Candidates' = C \cap M
        BY <2>4, <2>5 DEF Candidates
    <2>10. Narrowed' /\ UpToKept'
        BY <1>2, <2>1, <2>3, <2>7, <2>8, <2>9 DEF Narrowed, UpToKept, Found
    <2>11. assumptions' \subseteq {-v : v \in P}
        BY <2>4, <2>5, NegatedFirst
    <2>12. MinimizerAt'
        BY <1>1, <1>2, <2>5, <2>10, <2>11 DEF MinimizerAt, Minimizers
    <2>13. ASSUME pc' = "done", NEW N \in problem.models, N \cap P \subseteq M \cap P
           PROVE  N \cap P = M \cap P
        <3>1. C \cap M = {}
            BY <2>4, <2>5, <2>13 DEF ToSet
        <3> QED BY <2>7, <2>8, <2>13, <3>1
    <2>14. models' \in SUBSET problem.models
        BY <1>1, <2>6
    <2> QED BY <1>1, <1>2, <2>2, <2>4, <2>5, <2>12, <2>13, <2>14, InvariantKept DEF Found
<1>5. ASSUME NEW z, NEW D \in Cores(assumptions, z), UNCHANGED <<models, trueVars>>,
             Continue(IF Cardinality(D) = 1 THEN Minus(candidates, Min(Opposite(D))) ELSE candidates,
                      assumptions \ D,
                      CASE D = {} -> "done"
                        [] D # {} /\ D = assumptions -> "guessAndCheckAndMinimize"
                        [] OTHER -> pc)
      PROVE  MinimizeInv'
    <2>1. /\ candidates' = IF Cardinality(D) = 1 THEN Minus(candidates, Min(Opposite(D))) ELSE candidates
          /\ assumptions' = assumptions \ D
          /\ \/ D = {} /\ pc' = "done"
             \/ D # {} /\ D = assumptions /\ pc' = "guessAndCheckAndMinimize"
             \/ D # {} /\ D # assumptions /\ pc' = "coreBased"
        <3>1. /\ candidates' = IF Cardinality(D) = 1 THEN Minus(candidates, Min(Opposite(D))) ELSE candidates
              /\ assumptions' = assumptions \ D
            BY <1>5 DEF Continue, Call
        <3>2. pc' = CASE D = {} -> "done"
                      [] D # {} /\ D = assumptions -> "guessAndCheckAndMinimize"
                      [] OTHER -> pc
            BY <1>5 DEF Continue, Call
        <3> QED BY <1>1, <3>1, <3>2
    <2>2. /\ candidates' \in Seq(P) /\ Candidates' \subseteq C
          /\ \A v \in C \ Candidates', N \in models : v \in N
        <3>1. CASE Cardinality(D) = 1
            <4>1. PICK v \in P : Min(Opposite(D)) = v /\ \A N \in models : v \in N
                BY <1>1, <1>5, <3>1, OneCandidate
            <4>2. candidates' = Minus(candidates, v)
                BY <2>1, <3>1, <4>1
            <4>3. /\ Minus(candidates, v) \in Seq(P) /\ ToSet(candidates) \ {v} \subseteq ToSet(Minus(candidates, v))
                  /\ ToSet(Minus(candidates, v)) \subseteq ToSet(candidates)
                BY <1>1, MinusTakesOut
            <4> QED BY <4>1, <4>2, <4>3 DEF Candidates
        <3>2. CASE Cardinality(D) # 1
            BY <1>1, <2>1, <3>2 DEF Candidates
        <3> QED BY <3>1, <3>2
    <2>3. Top' = Top
        BY <1>2, <1>5 DEF Top
    <2>4. Narrowed'
        BY <1>1, <1>2, <1>5, <2>2, <2>3 DEF Narrowed, Found
    <2>5. UpToKept' /\ LessKept'
        BY <1>1, <1>2, <1>5, <2>3 DEF UpToKept, LessKept, Found
    <2>6. assumptions' \subseteq {-v : v \in P} /\ (D = assumptions => assumptions' = {})
        BY <1>1, <2>1
    <2>7. MinimizerAt'
        BY <1>1, <1>2, <2>1, <2>4, <2>5, <2>6 DEF MinimizerAt, Minimizers
    <2>8. ASSUME pc' = "done" PROVE models = {}
        <3>1. D = {}
            BY <2>1, <2>8
        <3> QED BY <1>5, <3>1, EmptyCore
    <2>9. ASSUME pc' = "done", trueVars # NoSet, NEW N \in problem.models, Found(N) \subseteq trueVars
          PROVE  FALSE
        BY <1>1, <2>8, <2>9 DEF UpToKept, Top
    <2> QED BY <1>1, <1>2, <1>5, <2>2, <2>7, <2>8, <2>9, InvariantKept
<1>6. PICK z \in Known :
         \/ \E M \in models :
              LET c == True(M)
              IN  /\ Model(M, z)
                  /\ models' = OnlyOf(models, M)
                  /\ Continue(c, FirstFalse(c), IF c = <<>> THEN "done" ELSE pc)
                  /\ UNCHANGED core
         \/ \E D \in Cores(assumptions, z) :
              /\ zero' = Settled(D, z) /\ core' = D
              /\ UNCHANGED <<models, trueVars>>
              /\ Continue(IF Cardinality(D) = 1 THEN Minus(candidates, Min(Opposite(D))) ELSE candidates,
                          assumptions \ D,
                          CASE D = {} -> "done"
                            [] D # {} /\ D = assumptions -> "guessAndCheckAndMinimize"
                            [] OTHER -> pc)
    BY DEF CoreBased
<1> QED BY <1>4, <1>5, <1>6 DEF Model

-----------------------------------------------------------------------------
(* No other task's call is due while predicates are minimized.             *)
LEMMA OthersWait ==
    ASSUME MinimizeInv, Minimizing
    PROVE  ~Query /\ ~Weak
<1>1. pc \in Minimizers \cup {"predmin", "check", "done", "hanging"}
    BY DEF MinimizeInv, MinimizerAt
<1>2. ~Weak
    BY <1>1 DEF Minimizers, Weak, WeakNext, StartLevel, Run, CoreGuidedModel, FoundUnsat, OptModel, MgdModel,
                NoCheaperModel, CompletedLevel, Hardening
<1>3. ~Query
    BY <1>1 DEF Minimizers, Query, QueryInterfaceSolve, IterativeCoherenceTesting, OverestimateReduction,
                CoreBasedAlgorithm, ChunkDynamicAlgorithm, ChunkStaticAlgorithm,
                CautiousReasoningSolve, FindMinimalModelPreferences, KnownCore,
                SolveAndProcessCore, IterativeCoherenceTestingPreferences, PrimeImplicate
<1> QED BY <1>2, <1>3

(* No step changes what is asked for.                                      *)
LEMMA TaskStays ==
    ASSUME Next
    PROVE  UNCHANGED task
<1>1. CASE Weak
    BY <1>1 DEF task, Weak, WeakNext, StartLevel, Run, CoreGuidedModel, FoundUnsat, OptModel, MgdModel,
                NoCheaperModel, CompletedLevel, Hardening
<1>2. CASE Query
    BY <1>2 DEF task, Query, QueryInterfaceSolve, IterativeCoherenceTesting, OverestimateReduction,
                CoreBasedAlgorithm, ChunkDynamicAlgorithm, ChunkStaticAlgorithm,
                CautiousReasoningSolve, FindMinimalModelPreferences, KnownCore,
                SolveAndProcessCore, IterativeCoherenceTestingPreferences, PrimeImplicate
<1>3. CASE Minimization
    BY <1>3 DEF task, Others, Minimization, PredicateMinimizationSolve, EnumerationOfAll, UsePreferences,
                GuessAndCheck, GuessAndCheckAndMinimize, GuessAndCheckAndSplit, CoreBased
<1>4. CASE Ended
    BY <1>4 DEF task, Ended, vars
<1> QED BY <1>1, <1>2, <1>3, <1>4 DEF Next

(* The minimisation of a predicate ends with the set of an answer set: a   *)
(* minimal one by guessAndCheckAndMinimize, coreBased, usePreferences and  *)
(* the enumeration with blocking clauses (the smallest), whatever models,  *)
(* cores and literals of level zero the calls found.  Nothing more is said *)
(* of the enumeration by flipped choices, which may end too early.         *)
THEOREM MinimalSet == Spec => []SetIsMinimal
<1>1. Init => Asked /\ MinimizeInv
    <2> SUFFICES ASSUME Init PROVE Asked /\ MinimizeInv
        OBVIOUS
    <2>1. Asked
        BY DEF Init, Asked
    <2>2. <<>> \in Seq(problem.minimized)
        OBVIOUS
    <2> QED BY <2>1, <2>2 DEF Init, MinimizeInv, MinimizerAt, Minimizing, SetIsMinimal
<1>2. Asked /\ MinimizeInv /\ [Next]_vars => Asked' /\ MinimizeInv'
    <2> SUFFICES ASSUME Asked, MinimizeInv, [Next]_vars PROVE Asked' /\ MinimizeInv'
        OBVIOUS
    <2>1. UNCHANGED task
        BY TaskStays DEF vars, task
    <2>2. Asked'
        BY <2>1 DEF Asked, task
    <2>3. CASE ~Minimizing
        <3>1. ~Minimizing'
            BY <2>1, <2>3 DEF Minimizing, task
        <3> QED BY <2>2, <3>1 DEF MinimizeInv
    <2>4. CASE Minimizing /\ UNCHANGED vars
        <3>1. UNCHANGED <<models, task, pc, assumptions, candidates, trueVars>> /\ UNCHANGED <<problem, algorithm>>
            BY <2>4 DEF vars, solver, task, ask, minimize
        <3>2. Narrowed' = Narrowed /\ UpToKept' = UpToKept /\ LessKept' = LessKept
            BY <3>1 DEF Narrowed, UpToKept, LessKept, Found, Top, Candidates
        <3>3. MinimizerAt' = MinimizerAt
            BY <3>1, <3>2 DEF MinimizerAt, Found, Candidates
        <3>4. SetIsMinimal' = SetIsMinimal /\ Sets' = Sets /\ Minimizing' = Minimizing
            BY <3>1 DEF SetIsMinimal, AllReported, KeepsMinimality, Sets, Minimizing
        <3> QED BY <2>2, <3>1, <3>3, <3>4 DEF MinimizeInv
    <2>5. CASE Minimizing /\ Minimization
        <3>1. MinimizeInv'
            BY <2>5, PredicateMinimizationSolveKeeps, EnumerationKeeps, UsePreferencesKeeps, GuessAndCheckKeeps,
               GuessAndCheckAndMinimizeKeeps, GuessAndCheckAndSplitKeeps, CoreBasedKeeps DEF Minimization
        <3> QED BY <2>2, <3>1
    <2> QED BY <2>3, <2>4, <2>5, OthersWait DEF Next, Ended
<1>3. MinimizeInv => SetIsMinimal
    BY DEF MinimizeInv, Minimizing, SetIsMinimal
<1> QED BY <1>1, <1>2, <1>3, PTL DEF Spec
-----------------------------------------------------------------------------
(* The cautious consequences.  What is assigned at level zero holds in all *)
(* models.  A step may add variables: a model of the problem stands for    *)
(* those of the n variables that extend it, and none of them is lost.      *)
AllHold(z) ==
    \A l \in z : Variable(l) \in 1 .. problem.size => \A N \in problem.models : Holds(N, l)
AtProblem == models = problem.models /\ size = problem.size /\ AllHold(zero)
Extend(ms, n) ==
    /\ n \in Nat /\ problem.size <= n /\ ms \in SUBSET SUBSET (1 .. n)
    /\ \A M \in ms : Projection(M) \in problem.models
NoneLost(ms) == \A N \in problem.models : \E M \in ms : Projection(M) = N

(* The answers a and the lists of what is still open, c and T.             *)
Listed(a, c, T) ==
    /\ a \in Seq(problem.visible) /\ c \in Seq(problem.visible)
    /\ ToSet(a) \subseteq Consequences
    /\ algorithm.name # "static" => Consequences \subseteq ToSet(a) \cup ToSet(c) \cup T
    /\ algorithm.name # "pi" => Apart(a, c)

(* A model that makes a candidate of the chunk s false need not make x     *)
(* true.                                                                   *)
ChunkOf(ms, x, s) ==
    /\ \A N \in problem.models : \E M \in ms : Projection(M) = N /\ x \in M
    /\ \A N \in problem.models : ~(ToSet(s) \subseteq N) => \E M \in ms : Projection(M) = N /\ x \notin M
AtChunk(s) ==
    /\ Extend(models, size) /\ AllHold(zero)
    /\ aux \in (problem.size + 1) .. size /\ assumptions = {-aux}
    /\ ChunkOf(models, aux, s)

(* The cores that are kept.  Of a core that has been relaxed no more are   *)
(* false than one and those of the literals assumed in its place, and no   *)
(* fewer where the new variables are at their best.  A core that is looked *)
(* for, with those behind it, has not been replaced yet.                   *)
Falsified(A, M) == Cardinality({l \in A : ~Holds(M, l)})
Literals(low, high) == {l \in Int : Variable(l) \in low .. high}
Tight(cores, M) ==
    \A j \in DOMAIN cores : Falsified(cores[j].core, M) = Falsified(cores[j].aux, M) + 1
Replaced(C, ms, n) ==
    /\ C.core \subseteq Literals(1, n) /\ C.aux \subseteq Literals(problem.size + 1, n)
    /\ C.core # {} /\ IsFiniteSet(C.core) /\ IsFiniteSet(C.aux)
    /\ \A l \in C.core, a \in C.aux : Variable(l) < Variable(a)
    /\ \A M \in ms : Falsified(C.core, M) <= Falsified(C.aux, M) + 1
Cached(h, A, ms, n) ==
    /\ h = [cores |-> h.cores, next |-> h.next, removed |-> h.removed]
    /\ h.next \in Nat /\ h.cores \in Seq([core : SUBSET Int, aux : SUBSET Int])
    /\ \A j \in DOMAIN h.cores : Replaced(h.cores[j], ms, n)
    /\ \A i, j \in DOMAIN h.cores : i < j =>
         \A a \in h.cores[i].aux, b \in h.cores[j].aux : Variable(a) < Variable(b)
    /\ h.next > 0 =>
         \A j \in DOMAIN h.cores :
           j > h.next \/ (j = h.next /\ h.cores[j].core \subseteq A) => h.cores[j].aux \cap A = {}

(* Candidates R of the round, and the cores k that were relaxed in it:     *)
(* every model makes at least k of R true, and one that satisfies the      *)
(* assumptions A no more.                                                  *)
Balanced(R, k, A, ms, cores) ==
    /\ \A M \in ms : Cardinality(M \cap R) <= k + Falsified(A, M)
    /\ \A N \in problem.models : \E M \in ms :
         Projection(M) = N /\ Tight(cores, M) /\ k + Falsified(A, M) <= Cardinality(N \cap R)
Assumed(A, n) ==
    /\ IsFiniteSet(A) /\ A \subseteq Literals(1, n)
    /\ A \cap Literals(1, problem.size) \subseteq {-v : v \in problem.visible}
CoreAt(c, r, A, ms, n, h) ==
    /\ Extend(ms, n) /\ Assumed(A, n) /\ Cached(h, A, ms, n)
    /\ \E R \in SUBSET problem.visible :
         /\ ToSet(c) \subseteq R /\ R \ ToSet(c) \subseteq Consequences /\ Cardinality(R) = r
         /\ \E k \in Nat : Balanced(R, k, A, ms, h.cores)
AtCore ==
    /\ algorithm.name \in Relaxers /\ AllHold(zero)
    /\ CoreAt(candidates, round, assumptions, models, size, cache)

(* At each step: what is known when its call is due.                       *)
AtQuery ==
    \/ /\ pc = "ict" /\ AtProblem
       /\ candidates # <<>> /\ assumptions = {-Last(candidates)}
    \/ /\ pc = "or" /\ models \subseteq problem.models /\ size = problem.size
       /\ \A N \in problem.models \ models : ToSet(candidates) \subseteq N
       /\ ToSet(candidates) \cap zero = {}
    \/ pc = "cb" /\ AtProblem /\ assumptions \subseteq Negated(candidates)
    \/ pc = "dynamic" /\ algorithm.name = "dynamic" /\ AtChunk(FirstOf(candidates))
    \/ /\ pc = "static" /\ algorithm.name = "static" /\ AtChunk(chunk)
       /\ chunk \in Seq(problem.visible) /\ Apart(answers, chunk) /\ Apart(candidates, chunk)
AtImplicate ==
    /\ algorithm.name = "pi" /\ AtProblem
    /\ \/ pc = "implicate" /\ assumptions = Negated(candidates)
       \/ /\ pc = "minimizing" /\ assumptions \subseteq {-v : v \in problem.visible}
          /\ tested \in Int /\ -tested \in problem.visible
       \/ /\ pc = "testing" /\ assumptions = {tested}
          /\ tested \in Int /\ -tested \in problem.visible
AtListed ==
    /\ Listed(answers, candidates, {})
    /\ \/ AtQuery /\ algorithm.name \in QueryAlgorithms
       \/ pc = "preferences" /\ algorithm.name = "preferences" /\ AtProblem /\ round = Len(candidates)
       \/ pc = "core" /\ AtCore
       \/ AtImplicate
AtTested ==
    /\ pc = "ict-preferences" /\ algorithm.name = "ict-preferences" /\ AtProblem
    /\ Listed(answers, candidates, {-tested})
    /\ tested \in Int /\ assumptions = {tested}
    /\ -tested \in problem.visible \ (ToSet(answers) \cup ToSet(candidates))
AtEnd ==
    /\ pc = "done" /\ candidates \in Seq(problem.visible) /\ answers \in Seq(problem.visible)
    /\ ToSet(answers) \subseteq Consequences
    /\ algorithm.name # "static" => Consequences \subseteq ToSet(answers)
    /\ algorithm.name # "pi" => IsInjective(answers)

(* The steps of the other tasks.                                           *)
OtherSteps ==
    {"level", "run", "disjoint", "unweighted", "weighted", "opt", "mgd", "completed", "hardening",
     "check", "hanging", "done", "incoherent"} \cup Minimizers

Begun ==
    /\ pc = algorithm.task /\ models = problem.models /\ size = problem.size /\ zero = {}
    /\ answers = <<>> /\ chunk = <<>> /\ aux = 0 /\ round = 0 /\ cache = NoCache
AskInv ==
    /\ Asking =>
         \/ Begun
         \/ pc = "incoherent" /\ problem.models = {} /\ answers = <<>>
         \/ /\ problem.models # {} /\ (chunk # <<>> => pc = "static")
            /\ AtListed \/ AtTested \/ AtEnd
    /\ ~Asking => round = 0 /\ (pc \in OtherSteps \/ pc = algorithm.task)
-----------------------------------------------------------------------------
LEMMA VisibleOnes ==
    ASSUME Asked
    PROVE  /\ problem.size \in Nat
           /\ problem.models \in SUBSET SUBSET (1 .. problem.size)
           /\ problem.visible \in SUBSET (1 .. problem.size)
           /\ IsFiniteSet(problem.visible) /\ problem.visible \in SUBSET Int
           /\ Consequences \subseteq problem.visible
           /\ \A v \in problem.visible :
                /\ v \in Nat \ {0} /\ Variable(v) = v /\ Variable(-v) = v
                /\ \A M : (Holds(M, v) <=> v \in M) /\ (Holds(M, -v) <=> v \notin M)
<1>1. /\ problem.size \in Nat
      /\ problem.models \in SUBSET SUBSET (1 .. problem.size)
      /\ problem.visible \in SUBSET (1 .. problem.size)
      /\ IsFiniteSet(1 .. problem.size)
    BY ProblemTypes
<1>2. IsFiniteSet(problem.visible)
    BY <1>1, FS_Subset
<1>3. \A v \in problem.visible :
        /\ v \in Nat \ {0} /\ Variable(v) = v /\ Variable(-v) = v
        /\ \A M : (Holds(M, v) <=> v \in M) /\ (Holds(M, -v) <=> v \notin M)
    BY <1>1 DEF Variable, Holds
<1> QED BY <1>1, <1>2, <1>3 DEF Consequences

LEMMA ModelsOfProblem ==
    ASSUME Asked, AtProblem
    PROVE  Extend(models, size) /\ NoneLost(models) /\ AllHold(zero)
<1>1. problem.size \in Nat /\ problem.models \in SUBSET SUBSET (1 .. problem.size)
    BY VisibleOnes
<1>2. \A N \in problem.models : Projection(N) = N
    BY <1>1 DEF Projection
<1> QED BY <1>1, <1>2 DEF AtProblem, Extend, NoneLost

(* What a call learns at level zero holds in all models.                   *)
LEMMA LearnedHold ==
    ASSUME Asked, AllHold(zero), NEW ms, NoneLost(ms), NEW C \in SUBSET problem.visible, NEW z,
           \A l \in z \ zero : l \in C \cup Opposite(C) /\ \A M \in ms : Holds(M, l)
    PROVE  AllHold(z)
<1> SUFFICES ASSUME NEW l \in z, l \notin zero, NEW N \in problem.models PROVE Holds(N, l)
    BY DEF AllHold
<1>1. PICK M \in ms : M \cap (1 .. problem.size) = N
    BY DEF NoneLost, Projection
<1>2. PICK v \in problem.visible : l = v \/ l = -v
    BY DEF Opposite
<1>3. v \in 1 .. problem.size /\ (Holds(M, l) <=> Holds(N, l))
    BY <1>1, <1>2, VisibleOnes
<1> QED BY <1>3

LEMMA LearnedAre ==
    ASSUME NEW C, NEW z \in Learned(C)
    PROVE  \A l \in z \ zero : l \in C \cup Opposite(C) /\ \A M \in models : Holds(M, l)
BY DEF Learned, Implied

LEMMA KnownHold ==
    ASSUME Asked, AllHold(zero), NoneLost(models), NEW C \in SUBSET problem.visible, NEW z \in Learned(C)
    PROVE  AllHold(z)
BY LearnedHold, LearnedAre

LEMMA HeldOnes ==
    ASSUME Asked, problem.models # {}, NEW z, AllHold(z)
    PROVE  \A v \in problem.visible : (v \in z => v \in Consequences) /\ (-v \in z => v \notin Consequences)
BY VisibleOnes DEF AllHold, Consequences

(* A model of an extension makes the consequences true.                    *)
LEMMA ModelsHave ==
    ASSUME Asked, Extend(models, size), NEW M \in models
    PROVE  Projection(M) \in problem.models /\ Consequences \subseteq M
BY DEF Extend, Projection, Consequences

(* The pruning of the candidates c at a model M.                           *)
LEMMA Pruned ==
    ASSUME Asked, NEW a, NEW c, NEW T, Listed(a, c, T), NEW M, NEW z,
           Consequences \subseteq M, ToSet(c) \cap z \subseteq Consequences
    PROVE  /\ Listed(With(a, c, z), Kept(c, M, z), T)
           /\ ToSet(Kept(c, M, z)) = ToSet(c) \cap (M \ z)
           /\ ToSet(With(a, c, z)) = ToSet(a) \cup (ToSet(c) \cap z)
           /\ Len(Kept(c, M, z)) \in Nat
           /\ Len(Kept(c, M, z)) = Len(c) => ToSet(c) \subseteq M \ z
<1>1. a \in Seq(problem.visible) /\ c \in Seq(problem.visible)
    BY DEF Listed
<1>2. PICK k : k = Kept(c, M, z)
    OBVIOUS
<1>3. /\ k \in Seq(problem.visible) /\ ToSet(k) = ToSet(c) \cap (M \ z) /\ Len(k) \in Nat
      /\ IsInjective(c) => IsInjective(k)
    BY <1>1, <1>2, KeepKeeps DEF Kept
<1>4. Len(k) = Len(c) => ToSet(c) \subseteq M \ z
    BY <1>1, <1>2, KeepAll DEF Kept
<1>5. PICK b : b = Keep(c, z)
    OBVIOUS
<1>6. /\ b \in Seq(problem.visible) /\ ToSet(b) = ToSet(c) \cap z
      /\ IsInjective(c) => IsInjective(b)
    BY <1>1, <1>5, KeepKeeps
<1>7. PICK w : w = a \o b
    OBVIOUS
<1>8. /\ w \in Seq(problem.visible) /\ ToSet(w) = ToSet(a) \cup ToSet(b)
      /\ Apart(a, b) => IsInjective(w)
    BY <1>1, <1>6, <1>7, Joined
<1>9. w = With(a, c, z)
    BY <1>5, <1>7 DEF With
<1>10. Apart(a, c) => Apart(w, k)
    BY <1>3, <1>6, <1>8 DEF Apart
<1>11. Listed(w, k, T)
    BY <1>3, <1>6, <1>8, <1>10 DEF Listed
<1> QED BY <1>2, <1>3, <1>4, <1>6, <1>8, <1>9, <1>11

LEMMA OpenOnes ==
    ASSUME Asked, problem.models # {}, NEW z, AllHold(z), NEW s \in Seq(problem.visible)
    PROVE  /\ Open(s, z) \in Seq(problem.visible)
           /\ ToSet(Open(s, z)) \subseteq ToSet(s) \ z
           /\ Consequences \cap ToSet(s) \subseteq ToSet(Open(s, z)) \cup z
           /\ IsInjective(s) => IsInjective(Open(s, z))
<1> DEFINE S == {v \in ToSet(s) : v \notin z /\ -v \notin z}
<1>1. Open(s, z) = Keep(s, S)
    BY DEF Open
<1>2. /\ Keep(s, S) \in Seq(problem.visible) /\ ToSet(Keep(s, S)) = ToSet(s) \cap S
      /\ IsInjective(s) => IsInjective(Keep(s, S))
    <2> HIDE DEF S
    <2> QED BY KeepKeeps
<1>3. ToSet(s) \subseteq problem.visible
    BY DEF ToSet
<1>4. \A v \in problem.visible : -v \in z => v \notin Consequences
    BY HeldOnes
<1> QED BY <1>1, <1>2, <1>3, <1>4

-----------------------------------------------------------------------------
(* What is listed after a step.                                            *)
LEMMA ListedAfter ==
    ASSUME UNCHANGED task, NEW T, Listed(answers', candidates', T)
    PROVE  /\ answers' \in Seq(problem.visible)' /\ candidates' \in Seq(problem.visible)'
           /\ Consequences' = Consequences
           /\ T = {} => Listed(answers, candidates, {})'
           /\ T = {-tested'} => Listed(answers, candidates, {-tested})'
BY DEF Listed, Consequences, task

(* All answers are known once nothing is open.                             *)
LEMMA EndsWell ==
    ASSUME UNCHANGED task, Asking, problem.models # {}, chunk' = <<>>, pc' = "done",
           NEW a, NEW c, Listed(a, c, {}), ToSet(c) \subseteq Consequences,
           candidates' \in Seq(problem.visible),
           answers' = a \o c
    PROVE  AskInv'
<1>1. a \in Seq(problem.visible) /\ c \in Seq(problem.visible)
    BY DEF Listed
<1>2. PICK w : w = a \o c
    OBVIOUS
<1>3. w \in Seq(problem.visible) /\ ToSet(w) = ToSet(a) \cup ToSet(c) /\ (Apart(a, c) => IsInjective(w))
    BY <1>1, <1>2, Joined
<1>4. problem' = problem /\ algorithm' = algorithm /\ Consequences' = Consequences /\ Asking'
    BY DEF task, Consequences, Asking
<1>5. answers' = w
    BY <1>2
<1>6. AtEnd'
    BY <1>3, <1>4, <1>5 DEF AtEnd, Listed
<1> QED BY <1>4, <1>6 DEF AskInv

LEMMA EndsEmpty ==
    ASSUME UNCHANGED task, Asking, problem.models # {}, chunk' = <<>>, pc' = "done",
           Listed(answers', candidates', {}), candidates' = <<>>
    PROVE  AskInv'
<1>1. ToSet(<<>>) = {}
    BY DEF ToSet
<1>2. PICK a : a = answers'
    OBVIOUS
<1>3. a \in Seq(problem.visible) /\ answers' = a \o <<>> /\ Listed(a, <<>>, {})
    BY <1>2 DEF Listed
<1>4. <<>> \in Seq(problem.visible)
    OBVIOUS
<1> QED BY <1>1, <1>3, <1>4, EndsWell

LEMMA QueryGoesOn ==
    ASSUME UNCHANGED task, Asking, problem.models # {}, algorithm.name \in QueryAlgorithms,
           chunk' # <<>> => pc' = "static",
           Listed(answers', candidates', {}), AtQuery'
    PROVE  AskInv'
<1>1. algorithm' = algorithm /\ problem' = problem /\ Asking'
    BY DEF task, Asking
<1>2. AtListed'
    BY <1>1, ListedAfter DEF AtListed
<1> QED BY <1>1, <1>2 DEF AskInv

(* Those behind the last open one are settled.                             *)
LEMMA LastOpen ==
    ASSUME NEW n \in Nat, NEW open \in SUBSET (1 .. n)
    PROVE  /\ Max({0} \cup open) \in 0 .. n
           /\ \A i \in (Max({0} \cup open) + 1) .. n : i \notin open
<1> DEFINE S == {0} \cup open
<1>1. IsFiniteSet(1 .. n)
    BY UpTo
<1>2. IsFiniteSet(open)
    BY <1>1, FS_Subset
<1>3. IsFiniteSet(S) /\ S # {} /\ S \in SUBSET Int /\ \A x \in S : x \in 0 .. n
    BY <1>2, FS_AddElement
<1> HIDE DEF S
<1>4. Max(S) \in S /\ \A x \in S : x <= Max(S)
    BY <1>3, Extremes
<1>5. \A i \in (Max(S) + 1) .. n : i \notin S
    <2>1. PICK m \in 0 .. n : m = Max(S)
        BY <1>3, <1>4
    <2>2. \A i \in (m + 1) .. n : ~(i <= m)
        OBVIOUS
    <2> QED BY <1>4, <2>1, <2>2
<1> QED BY <1>3, <1>4, <1>5 DEF S

LEMMA TestGoesOn ==
    ASSUME Asked, UNCHANGED task, Asking, problem.models # {}, algorithm.name \in QueryAlgorithms,
           AtProblem, UNCHANGED <<models, size>>, chunk' = <<>>, AllHold(zero'),
           NEW c, NEW a, Listed(a, c, {}), NEW z, AllHold(z), Test(c, a, z)
    PROVE  AskInv'
<1> DEFINE open == {i \in DOMAIN c : c[i] \notin z /\ -c[i] \notin z}
           n == Max({0} \cup open)
           left == SubSeq(c, 1, n)
           rest == SubSeq(c, n + 1, Len(c))
           settled == Reverse(rest)
<1>1. /\ c \in Seq(problem.visible) /\ a \in Seq(problem.visible)
      /\ Len(c) \in Nat /\ DOMAIN c = 1 .. Len(c)
    BY DEF Listed
<1>2. n \in 0 .. Len(c) /\ \A i \in (n + 1) .. Len(c) : i \notin open
    <2>1. open \in SUBSET (1 .. Len(c))
        BY <1>1
    <2> HIDE DEF open
    <2> QED BY <1>1, <2>1, LastOpen
<1> HIDE DEF open, n
<1>3. /\ left \in Seq(problem.visible) /\ rest \in Seq(problem.visible) /\ Len(left) = n
      /\ ToSet(c) = ToSet(left) \cup ToSet(rest) /\ (IsInjective(c) => Apart(left, rest))
    BY <1>1, <1>2, Parts
<1>4. \A v \in ToSet(rest) : v \in z \/ -v \in z
    <2>1. \A v \in ToSet(rest) : \E i \in 1 .. Len(c) : v = c[i] /\ ~(i \in 1 .. n)
        BY <1>1, <1>2, LaterOnes
    <2>2. \A i \in 1 .. Len(c) : ~(i \in 1 .. n) => i \in (n + 1) .. Len(c)
        BY <1>1, <1>2
    <2> HIDE DEF rest
    <2> QED BY <1>1, <1>2, <2>1, <2>2 DEF open
<1>5. /\ settled \in Seq(problem.visible) /\ ToSet(settled) = ToSet(rest)
      /\ IsInjective(rest) => IsInjective(settled)
    <2> HIDE DEF rest
    <2> QED BY <1>3, Reversed
<1>6. With(a, settled, z) = a \o Keep(settled, z)
    BY DEF With
<1>7. Test(c, a, z) <=> IF left = <<>> THEN Go(left, With(a, settled, z), {}, "done")
                        ELSE Go(left, With(a, settled, z), {-Last(left)}, "ict")
    BY <1>3 DEF Test, open, n
<1> HIDE DEF left, rest, settled
<1>8. PICK k : k = Keep(settled, z)
    OBVIOUS
<1>9. /\ k \in Seq(problem.visible) /\ ToSet(k) = ToSet(settled) \cap z
      /\ IsInjective(settled) => IsInjective(k)
    BY <1>5, <1>8, KeepKeeps
<1>10. PICK w : w = a \o k
    OBVIOUS
<1>11. w \in Seq(problem.visible) /\ ToSet(w) = ToSet(a) \cup ToSet(k) /\ (Apart(a, k) => IsInjective(w))
    BY <1>1, <1>9, <1>10, Joined
<1>12. \A v \in ToSet(c) : v \in problem.visible
    BY <1>1 DEF ToSet
<1>13. \A v \in problem.visible : (v \in z => v \in Consequences) /\ (-v \in z => v \notin Consequences)
    BY HeldOnes
<1>14. Listed(w, left, {})
    <2>1. ToSet(w) \subseteq Consequences
        BY <1>3, <1>5, <1>9, <1>11, <1>12, <1>13 DEF Listed
    <2>2. ASSUME algorithm.name # "static", NEW v \in Consequences PROVE v \in ToSet(w) \cup ToSet(left)
        <3>1. v \in ToSet(a) \cup ToSet(c)
            BY <2>2 DEF Listed
        <3>2. v \in ToSet(rest) => v \in ToSet(w)
            BY <1>4, <1>5, <1>9, <1>11, <1>12, <1>13, <1>3
        <3> QED BY <1>3, <1>11, <3>1, <3>2
    <2>3. Apart(a, c) => Apart(w, left)
        BY <1>3, <1>5, <1>9, <1>11 DEF Apart
    <2> QED BY <1>3, <1>11, <2>1, <2>2, <2>3 DEF Listed
<1>15. answers' = w /\ candidates' = left
    BY <1>6, <1>7, <1>8, <1>10 DEF Go
<1>16. CASE left = <<>>
    <2>1. pc' = "done"
        BY <1>7, <1>16 DEF Go, Call
    <2> QED BY <1>14, <1>15, <1>16, <2>1, EndsEmpty
<1>17. CASE left # <<>>
    <2>1. pc' = "ict" /\ assumptions' = {-Last(left)}
        BY <1>7, <1>17 DEF Go, Call
    <2>2. AtProblem'
        BY DEF AtProblem, AllHold, task
    <2>3. AtQuery'
        BY <1>15, <1>17, <2>1, <2>2 DEF AtQuery
    <2> QED BY <1>14, <1>15, <2>3, QueryGoesOn
<1> QED BY <1>16, <1>17

-----------------------------------------------------------------------------
LEMMA NegatedOnes ==
    ASSUME NEW c \in Seq(problem.visible)
    PROVE  Negated(c) = {-v : v \in ToSet(c)} /\ IsFiniteSet(Negated(c)) /\ ToSet(c) \subseteq problem.visible
<1>1. Len(c) \in Nat /\ DOMAIN c = 1 .. Len(c)
    OBVIOUS
<1>2. IsFiniteSet(1 .. Len(c))
    BY <1>1, UpTo
<1>3. [i \in 1 .. Len(c) |-> -c[i]] \in Surjection(1 .. Len(c), Negated(c))
    BY <1>1 DEF Surjection, Negated
<1>4. IsFiniteSet(Negated(c))
    BY <1>2, <1>3, FS_Surjection
<1> QED BY <1>1, <1>4 DEF Negated, ToSet

LEMMA KnownNow ==
    ASSUME Asked, AtProblem, candidates \in Seq(problem.visible), chunk = <<>>, NEW z \in Known
    PROVE  AllHold(z)
<1>1. ToSet(candidates) \cup ToSet(chunk) \in SUBSET problem.visible
    BY DEF ToSet
<1> QED BY <1>1, ModelsOfProblem, KnownHold DEF Known

(* No model of the one assumption.                                         *)
LEMMA Refuted ==
    ASSUME NEW l, assumptions = {l}, models # {}, NEW z, Incoherent(z)
    PROVE  \A M \in models : ~Holds(M, l)
BY DEF Incoherent, Cores, HoldsAll

LEMMA RefutedOne ==
    ASSUME Asked, AtProblem, NEW v \in problem.visible, \A M \in models : ~Holds(M, -v)
    PROVE  v \in Consequences
BY VisibleOnes DEF AtProblem, Consequences

LEMMA LastAnswered ==
    ASSUME NEW a, NEW c, NEW T, Listed(a, c, T), c # <<>>, Last(c) \in Consequences
    PROVE  Listed(Append(a, Last(c)), Front(c), T)
<1>1. a \in Seq(problem.visible) /\ c \in Seq(problem.visible)
    BY DEF Listed
<1>2. PICK f, v : f = Front(c) /\ v = Last(c)
    OBVIOUS
<1>3. /\ f \in Seq(problem.visible) /\ v \in problem.visible /\ v \in ToSet(c)
      /\ ToSet(c) = ToSet(f) \cup {v}
      /\ IsInjective(c) => IsInjective(f) /\ v \notin ToSet(f)
    BY <1>1, <1>2, OneAtTheEnd
<1>4. PICK b : b = Append(a, v)
    OBVIOUS
<1>5. /\ b \in Seq(problem.visible) /\ ToSet(b) = ToSet(a) \cup {v}
      /\ IsInjective(a) /\ v \notin ToSet(a) => IsInjective(b)
    BY <1>1, <1>3, <1>4, Appended
<1>6. Apart(a, c) => Apart(b, f)
    BY <1>3, <1>5 DEF Apart
<1> QED BY <1>2, <1>3, <1>4, <1>5, <1>6 DEF Listed

LEMMA IterativeCoherenceTestingKeeps ==
    ASSUME Asked, Asking, AskInv, IterativeCoherenceTesting
    PROVE  AskInv'
<1>1. pc = "ict" /\ UNCHANGED task /\ UNCHANGED <<models, size>> /\ chunk' = chunk
    BY DEF IterativeCoherenceTesting
<1>2. /\ problem.models # {} /\ chunk = <<>> /\ Listed(answers, candidates, {})
      /\ AtProblem /\ candidates # <<>> /\ assumptions = {-Last(candidates)} /\ algorithm.name \in QueryAlgorithms
    BY <1>1 DEF AskInv, Begun, Asking, AtListed, AtQuery, AtImplicate, AtTested, AtEnd
<1>3. ASSUME NEW z \in Known PROVE AllHold(z)
    BY <1>2, <1>3, KnownNow DEF Listed
<1>4. ASSUME NEW z \in Known, NEW M \in models,
             Test(Kept(candidates, M, z), With(answers, candidates, z), z), zero' = z
      PROVE  AskInv'
    <2>1. AllHold(z) /\ Consequences \subseteq M
        BY <1>2, <1>3, <1>4, ModelsOfProblem, ModelsHave
    <2>2. ToSet(candidates) \cap z \subseteq Consequences
        BY <1>2, <2>1, HeldOnes, NegatedOnes DEF Listed
    <2>3. Listed(With(answers, candidates, z), Kept(candidates, M, z), {})
        BY <1>2, <2>1, <2>2, Pruned
    <2> QED BY <1>1, <1>2, <1>4, <2>1, <2>3, TestGoesOn
<1>5. ASSUME NEW z \in Known, Incoherent(z), zero' = z \cup {Last(candidates)},
             Test(Front(candidates), Append(answers, Last(candidates)), z \cup {Last(candidates)})
      PROVE  AskInv'
    <2>1. Last(candidates) \in problem.visible
        BY <1>2, OneAtTheEnd DEF Listed
    <2>2. models # {}
        BY <1>2 DEF AtProblem
    <2>3. Last(candidates) \in Consequences
        BY <1>2, <1>5, <2>1, <2>2, Refuted, RefutedOne
    <2>4. AllHold(z \cup {Last(candidates)})
        BY <1>3, <1>5, <2>3, VisibleOnes DEF AllHold, Consequences
    <2>5. Listed(Append(answers, Last(candidates)), Front(candidates), {})
        BY <1>2, <2>3, LastAnswered
    <2> QED BY <1>1, <1>2, <1>5, <2>4, <2>5, TestGoesOn
<1> QED BY <1>4, <1>5 DEF IterativeCoherenceTesting

LEMMA OverestimateGoesOn ==
    ASSUME Asked, UNCHANGED task, Asking, problem.models # {}, algorithm.name \in QueryAlgorithms,
           models \subseteq problem.models, size' = problem.size, chunk' = <<>>,
           NEW c, NEW a, NEW z, Listed(a, c, {}), ToSet(c) \cap z = {},
           \A N \in problem.models \ models : ToSet(c) \subseteq N,
           Overestimate(c, a, z)
    PROVE  AskInv'
<1>1. /\ models' = Restricted(models, Negated(c))
      /\ zero' \in Asserted(models', Negated(c), z)
      /\ candidates' = c /\ answers' = a /\ pc' = IF c = <<>> THEN "done" ELSE "or"
    BY DEF Overestimate, Go, Call
<1>2. c \in Seq(problem.visible) /\ Negated(c) = {-v : v \in ToSet(c)} /\ IsFiniteSet(Negated(c))
      /\ ToSet(c) \subseteq problem.visible
    BY NegatedOnes DEF Listed
<1>3. \A N \in problem.models \ models' : ToSet(c) \subseteq N
    BY <1>1, <1>2, VisibleOnes DEF Restricted, Sat
<1>4. ToSet(c) \cap zero' = {}
    <2>1. CASE Cardinality(Negated(c)) = 1
        <3>1. PICK l \in Negated(c) : Negated(c) = {l}
            BY <1>2, <2>1, FS_Singleton
        <3>2. PICK v \in ToSet(c) : l = -v
            BY <1>2, <3>1
        <3>3. \A M \in models' : v \notin M
            BY <1>1, <1>2, <3>1, <3>2, VisibleOnes DEF Restricted, Sat
        <3>4. ToSet(c) = {v}
            <4>1. \A u \in ToSet(c) : -u = -v /\ u \in Nat /\ v \in Nat
                BY <1>2, <3>1, <3>2, VisibleOnes
            <4> QED BY <4>1
        <3>5. PICK F : /\ zero' = z \cup Negated(c) \cup F
                       /\ \A u \in F : models' # {} /\ \A M \in models' : u \in M
            BY <1>1, <2>1 DEF Asserted
        <3>6. v \notin F /\ v # l
            BY <1>2, <3>2, <3>3, <3>5, VisibleOnes
        <3> QED BY <3>1, <3>4, <3>5, <3>6
    <2>2. CASE Cardinality(Negated(c)) # 1
        BY <1>1, <2>2 DEF Asserted
    <2> QED BY <2>1, <2>2
<1>5. CASE c = <<>>
    BY <1>1, <1>5, EndsEmpty
<1>6. CASE c # <<>>
    <2>1. problem' = problem /\ models' \subseteq problem.models
        BY <1>1 DEF task, Restricted
    <2>2. AtQuery'
        BY <1>1, <1>3, <1>4, <1>6, <2>1 DEF AtQuery
    <2> QED BY <1>1, <1>6, <2>2, QueryGoesOn
<1> QED BY <1>5, <1>6

LEMMA OverestimateReductionKeeps ==
    ASSUME Asked, Asking, AskInv, OverestimateReduction
    PROVE  AskInv'
<1>1. pc = "or" /\ UNCHANGED task /\ size' = size /\ chunk' = chunk
    BY DEF OverestimateReduction
<1>2. /\ problem.models # {} /\ chunk = <<>> /\ Listed(answers, candidates, {})
      /\ algorithm.name \in QueryAlgorithms
      /\ models \subseteq problem.models /\ size = problem.size
      /\ \A N \in problem.models \ models : ToSet(candidates) \subseteq N
      /\ ToSet(candidates) \cap zero = {}
    BY <1>1 DEF AskInv, Begun, Asking, AtListed, AtQuery, AtImplicate, AtTested, AtEnd
<1>3. candidates \in Seq(problem.visible) /\ ToSet(candidates) \subseteq problem.visible
    BY <1>2, NegatedOnes DEF Listed
<1>4. ASSUME NEW z \in Known, NEW M \in models,
             Overestimate(Kept(candidates, M, z), With(answers, candidates, z), z)
      PROVE  AskInv'
    <2>1. Consequences \subseteq M
        BY <1>2, <1>4 DEF Consequences
    <2>2. ToSet(candidates) \cap z \subseteq Consequences
        <3> SUFFICES ASSUME NEW v \in ToSet(candidates), v \in z, NEW N \in problem.models PROVE v \in N
            BY <1>3 DEF Consequences
        <3>1. v \notin zero
            BY <1>2
        <3>2. \A L \in models : Holds(L, v)
            BY <1>4, <3>1, LearnedAre DEF Known
        <3> QED BY <1>2, <1>3, <3>2, VisibleOnes
    <2>3. /\ Listed(With(answers, candidates, z), Kept(candidates, M, z), {})
          /\ ToSet(Kept(candidates, M, z)) = ToSet(candidates) \cap (M \ z)
        BY <1>2, <2>1, <2>2, Pruned
    <2> QED BY <1>1, <1>2, <1>4, <2>3, OverestimateGoesOn
<1>5. ASSUME models = {}, Go(<<>>, answers \o candidates, {}, "done")
      PROVE  AskInv'
    <2>1. ToSet(candidates) \subseteq Consequences
        BY <1>2, <1>3, <1>5 DEF Consequences
    <2>2. <<>> \in Seq(problem.visible)
        OBVIOUS
    <2> QED BY <1>1, <1>2, <1>5, <2>1, <2>2, EndsWell DEF Go, Call
<1> QED BY <1>4, <1>5 DEF OverestimateReduction

LEMMA ChunkLength ==
    ASSUME Asked, Asking, algorithm.name \in QueryAlgorithms
    PROVE  algorithm.chunk \in Nat
BY AlgorithmsAssumption DEF Asked, Asking, QueryAlgorithms, CautiousAlgorithms, Relaxers

LEMMA UpToLength ==
    ASSUME NEW a \in Nat, NEW b \in Nat
    PROVE  Min({a, b}) \in 0 .. b
BY LeastOf

LEMMA CoreChunkGoesOn ==
    ASSUME Asked, UNCHANGED task, Asking, problem.models # {}, algorithm.name \in QueryAlgorithms,
           AtProblem, UNCHANGED <<models, size>>, chunk' = <<>>, AllHold(zero'),
           NEW c, NEW a, Listed(a, c, {}), CoreChunk(c, a)
    PROVE  AskInv'
<1> DEFINE n == IF algorithm.chunk = 0 THEN Len(c) ELSE Min({algorithm.chunk, Len(c)})
           t == SubSeq(c, 1, n)
<1>1. c \in Seq(problem.visible) /\ Len(c) \in Nat
    BY DEF Listed
<1>2. n \in 0 .. Len(c)
    <2>1. Min({algorithm.chunk, Len(c)}) \in 0 .. Len(c)
        BY <1>1, ChunkLength, UpToLength
    <2> QED BY <1>1, <2>1
<1>3. candidates' = c /\ answers' = a /\ assumptions' = Negated(t) /\ pc' = IF c = <<>> THEN "done" ELSE "cb"
    BY DEF CoreChunk, Go, Call
<1> HIDE DEF n
<1>4. t \in Seq(problem.visible) /\ ToSet(t) \subseteq ToSet(c)
    BY <1>1, <1>2, FirstOnes
<1> HIDE DEF t
<1>5. Negated(t) \subseteq Negated(c)
    BY <1>1, <1>4, NegatedOnes
<1>6. CASE c = <<>>
    BY <1>3, <1>6, EndsEmpty
<1>7. CASE c # <<>>
    <2>1. AtProblem'
        BY DEF AtProblem, AllHold, task
    <2>2. AtQuery'
        BY <1>3, <1>5, <1>7, <2>1 DEF AtQuery, Negated
    <2> QED BY <1>3, <1>7, <2>2, QueryGoesOn
<1> QED BY <1>6, <1>7

LEMMA OneAsList ==
    ASSUME NEW v
    PROVE  SetToSeq({v}) = <<v>>
<1>1. IsFiniteSet({v}) /\ Cardinality({v}) = 1
    BY FS_Singleton
<1>2. PICK s \in Seq({v}) : s = SetToSeq({v}) /\ Len(s) = 1
    BY <1>1, SetAsList
<1>3. s[1] = v
    BY <1>2
<1> QED BY <1>2, <1>3

(* A candidate that is a core of its own holds in all models.              *)
LEMMA CandidateAnswered ==
    ASSUME Asked, AtProblem, Listed(answers, candidates, {}), algorithm.name # "pi",
           NEW v \in ToSet(candidates), v \in Consequences
    PROVE  /\ Listed(answers \o <<v>>, Minus(candidates, v), {})
           /\ ToSet(Minus(candidates, v)) = ToSet(candidates) \ {v}
<1>1. answers \in Seq(problem.visible) /\ candidates \in Seq(problem.visible) /\ Apart(answers, candidates)
      /\ v \in problem.visible
    BY NegatedOnes DEF Listed
<1>2. PICK m : m = Minus(candidates, v)
    OBVIOUS
<1>3. m \in Seq(problem.visible) /\ IsInjective(m) /\ ToSet(m) = ToSet(candidates) \ {v}
    BY <1>1, <1>2, MinusLeavesOthers DEF Apart
<1>4. PICK b : b = Append(answers, v)
    OBVIOUS
<1>5. /\ b \in Seq(problem.visible) /\ ToSet(b) = ToSet(answers) \cup {v}
      /\ IsInjective(answers) /\ v \notin ToSet(answers) => IsInjective(b)
    BY <1>1, <1>4, Appended
<1>6. answers \o <<v>> = b
    BY <1>1, <1>4
<1>7. Apart(b, m)
    BY <1>1, <1>3, <1>5 DEF Apart
<1> QED BY <1>2, <1>3, <1>5, <1>6, <1>7 DEF Listed

LEMMA CoreBasedAlgorithmKeeps ==
    ASSUME Asked, Asking, AskInv, CoreBasedAlgorithm
    PROVE  AskInv'
<1>1. pc = "cb" /\ UNCHANGED task /\ UNCHANGED <<models, size>> /\ chunk' = chunk
    BY DEF CoreBasedAlgorithm
<1>2. /\ problem.models # {} /\ chunk = <<>> /\ Listed(answers, candidates, {})
      /\ AtProblem /\ assumptions \subseteq Negated(candidates) /\ algorithm.name \in QueryAlgorithms
    BY <1>1 DEF AskInv, Begun, Asking, AtListed, AtQuery, AtImplicate, AtTested, AtEnd
<1>3. ASSUME NEW z \in Known PROVE AllHold(z)
    BY <1>2, <1>3, KnownNow DEF Listed
<1>4. /\ candidates \in Seq(problem.visible) /\ ToSet(candidates) \subseteq problem.visible
      /\ Negated(candidates) = {-v : v \in ToSet(candidates)} /\ IsFiniteSet(Negated(candidates))
    BY <1>2, NegatedOnes DEF Listed
<1>5. ASSUME NEW z \in Known, NEW M \in models, zero' = z,
             CoreChunk(Kept(candidates, M, z), With(answers, candidates, z))
      PROVE  AskInv'
    <2>1. AllHold(z) /\ Consequences \subseteq M
        BY <1>2, <1>3, <1>5, ModelsOfProblem, ModelsHave
    <2>2. ToSet(candidates) \cap z \subseteq Consequences
        BY <1>2, <1>4, <2>1, HeldOnes
    <2>3. Listed(With(answers, candidates, z), Kept(candidates, M, z), {})
        BY <1>2, <2>1, <2>2, Pruned
    <2> QED BY <1>1, <1>2, <1>5, <2>1, <2>3, CoreChunkGoesOn
<1>6. ASSUME NEW z \in Known, NEW C \in Cores(assumptions, z), zero' = Settled(C, z),
             NEW c, NEW a, AllHold(zero'), Listed(a, c, {}),
             \A l \in Negated(candidates) : l \notin C => l \in Negated(c),
             IF assumptions = C THEN Test(c, a, zero') ELSE Go(c, a, assumptions \ C, "cb")
      PROVE  AskInv'
    <2>1. CASE assumptions = C
        BY <1>1, <1>2, <1>6, <2>1, TestGoesOn
    <2>2. CASE assumptions # C
        <3>1. candidates' = c /\ answers' = a /\ assumptions' = assumptions \ C /\ pc' = "cb"
            BY <1>6, <2>2 DEF Go, Call
        <3>2. AtProblem'
            BY <1>1, <1>2, <1>6 DEF AtProblem, AllHold, task
        <3>3. Negated(candidates)' = Negated(c)
            BY <3>1 DEF Negated
        <3>4. AtQuery'
            BY <1>2, <1>6, <3>1, <3>2, <3>3 DEF AtQuery
        <3> QED BY <1>1, <1>2, <1>6, <3>1, <3>4, QueryGoesOn
    <2> QED BY <2>1, <2>2
<1>7. ASSUME NEW z \in Known, NEW C \in Cores(assumptions, z),
             LET single == IF Cardinality(C) = 1 THEN SetToSeq(Opposite(C)) ELSE <<>>
                 c == IF single = <<>> THEN candidates ELSE Minus(candidates, single[1])
                 a == answers \o single
             IN  /\ zero' = Settled(C, z)
                 /\ IF assumptions = C THEN Test(c, a, zero') ELSE Go(c, a, assumptions \ C, "cb")
      PROVE  AskInv'
    <2>1. C \subseteq Negated(candidates) /\ IsFiniteSet(C)
        BY <1>2, <1>4, <1>7, FS_Subset DEF Cores
    <2>2. CASE Cardinality(C) = 1
        <3>1. PICK l \in C : C = {l}
            BY <2>1, <2>2, FS_Singleton
        <3>2. PICK v \in ToSet(candidates) : l = -v
            BY <1>4, <2>1, <3>1
        <3>3. v \in problem.visible /\ v \in Nat /\ Opposite(C) = {v}
            BY <1>4, <3>1, <3>2, VisibleOnes DEF Opposite
        <3>4. v \in Consequences
            BY <1>2, <1>7, <3>1, <3>2, <3>3, RefutedOne DEF Cores, HoldsAll
        <3>5. Settled(C, z) = z \cup {v}
            BY <2>2, <3>3 DEF Settled
        <3>6. AllHold(z \cup {v})
            BY <1>3, <1>7, <3>4, VisibleOnes DEF AllHold, Consequences
        <3>7. SetToSeq(Opposite(C)) = <<v>> /\ <<v>> # <<>> /\ <<v>>[1] = v
            BY <3>3, OneAsList
        <3>8. Listed(answers \o <<v>>, Minus(candidates, v), {})
              /\ ToSet(Minus(candidates, v)) = ToSet(candidates) \ {v}
            BY <1>2, <3>4, CandidateAnswered DEF QueryAlgorithms
        <3>9. ASSUME NEW k \in Negated(candidates), k \notin C PROVE k \in Negated(Minus(candidates, v))
            <4>1. PICK u \in ToSet(candidates) : k = -u
                BY <1>4, <3>9
            <4>2. u \in ToSet(Minus(candidates, v))
                BY <3>1, <3>2, <3>8, <3>9, <4>1
            <4>3. Minus(candidates, v) \in Seq(problem.visible)
                BY <3>8 DEF Listed
            <4> QED BY <4>1, <4>2, <4>3, NegatedOnes
        <3>10. /\ zero' = Settled(C, z)
               /\ IF assumptions = C THEN Test(Minus(candidates, v), answers \o <<v>>, zero')
                  ELSE Go(Minus(candidates, v), answers \o <<v>>, assumptions \ C, "cb")
            BY <1>7, <2>2, <3>7
        <3> QED BY <1>6, <1>7, <3>5, <3>6, <3>8, <3>9, <3>10
    <2>3. CASE Cardinality(C) # 1
        <3>1. answers \o <<>> = answers
            BY <1>2 DEF Listed
        <3>2. /\ zero' = Settled(C, z)
              /\ IF assumptions = C THEN Test(candidates, answers, zero')
                 ELSE Go(candidates, answers, assumptions \ C, "cb")
            BY <1>7, <2>3, <3>1
        <3>3. AllHold(zero')
            BY <1>3, <1>7, <2>3, <3>2 DEF Settled
        <3> QED BY <1>2, <1>6, <1>7, <3>2, <3>3
    <2> QED BY <2>2, <2>3
<1> QED BY <1>5, <1>7 DEF CoreBasedAlgorithm

-----------------------------------------------------------------------------
(* The chunks.  Whatever the new variable is, a model of the problem goes  *)
(* on to have a model; without it, if a candidate of the chunk is false.   *)
LEMMA ExtendedOnes ==
    ASSUME NEW n
    PROVE  \A L : L \in Extended(n) <=> \E M \in models, N \in SUBSET NewVariables(n) : L = M \cup N
BY DEF Extended

LEMMA NewChunkKeeps ==
    ASSUME Asked, Extend(models, size), NEW s \in Seq(problem.visible), NEW done \in BOOLEAN,
           \A N \in problem.models : \E M \in models : Projection(M) = N /\ (done => aux \in M),
           NewChunk(s, done)
    PROVE  /\ aux' = size + 1 /\ aux' \in (problem.size + 1) .. size'
           /\ Extend(models', size') /\ ChunkOf(models', aux', s)
<1> DEFINE x == size + 1
           ok(M) == (done => aux \in M) /\ Sat(M, Negated(s) \cup {x})
<1>1. size \in Nat /\ problem.size \in Nat /\ problem.size <= size /\ models \in SUBSET SUBSET (1 .. size)
    BY VisibleOnes DEF Extend
<1>2. aux' = x /\ size' = x /\ x \in Nat /\ x > size
    BY <1>1 DEF NewChunk
<1>3. NewVariables(1) = {x}
    BY <1>1 DEF NewVariables
<1>4. \A L : L \in models' <=> L \in Extended(1) /\ ok(L)
    BY DEF NewChunk
<1> HIDE DEF ok
<1>10. \A L : L \in Extended(1) <=> \E M \in models, N \in SUBSET {x} : L = M \cup N
    <2>1. \A L : L \in Extended(1) <=> \E M \in models, N \in SUBSET NewVariables(1) : L = M \cup N
        BY ExtendedOnes
    <2> QED BY <1>3, <2>1
<1>5. \A M \in models, N \in SUBSET {x} :
        /\ Projection(M \cup N) = Projection(M) /\ M \cup N \subseteq 1 .. x
        /\ x \notin M
    BY <1>1, <1>2 DEF Projection
<1>6. Extend(models', size')
    <2>1. ASSUME NEW L \in models' PROVE L \subseteq 1 .. x /\ Projection(L) \in problem.models
        <3>1. PICK M \in models, N \in SUBSET {x} : L = M \cup N
            BY <1>4, <1>10, <2>1
        <3>2. Projection(M) \in problem.models
            BY DEF Extend
        <3> QED BY <1>5, <3>1, <3>2
    <2> QED BY <1>1, <1>2, <2>1 DEF Extend
<1>7. ASSUME NEW N \in problem.models PROVE \E M \in models' : Projection(M) = N /\ x \in M
    <2>1. PICK M \in models : Projection(M) = N /\ (done => aux \in M)
        OBVIOUS
    <2>2. Holds(M \cup {x}, x)
        BY <1>1 DEF Holds
    <2>3. ok(M \cup {x})
        BY <2>1, <2>2 DEF ok, Sat
    <2>4. M \cup {x} \in models'
        BY <1>4, <1>10, <2>3
    <2> QED BY <1>5, <2>1, <2>4
<1>8. ASSUME NEW N \in problem.models, ~(ToSet(s) \subseteq N)
      PROVE  \E M \in models' : Projection(M) = N /\ x \notin M
    <2>1. PICK M \in models : Projection(M) = N /\ (done => aux \in M)
        OBVIOUS
    <2>2. PICK v \in ToSet(s) : v \notin N
        BY <1>8
    <2>3. v \in problem.visible /\ -v \in Negated(s)
        BY NegatedOnes
    <2>4. v \notin M
        BY <2>1, <2>2, <2>3, VisibleOnes DEF Projection
    <2>5. ok(M)
        BY <2>1, <2>3, <2>4, VisibleOnes DEF ok, Sat
    <2>6. M \cup {} = M
        OBVIOUS
    <2>7. M \in models'
        BY <1>4, <1>10, <2>5, <2>6
    <2> QED BY <1>5, <2>1, <2>7
<1>9. ChunkOf(models', aux', s)
    BY <1>2, <1>7, <1>8 DEF ChunkOf
<1> QED BY <1>1, <1>2, <1>6, <1>9

LEMMA FirstOfOnes ==
    ASSUME Asked, Asking, algorithm.name \in QueryAlgorithms, NEW c \in Seq(problem.visible)
    PROVE  /\ FirstOf(c) \in Seq(problem.visible) /\ ToSet(FirstOf(c)) \subseteq ToSet(c)
           /\ SubSeq(c, Len(FirstOf(c)) + 1, Len(c)) \in Seq(problem.visible)
           /\ ToSet(c) = ToSet(FirstOf(c)) \cup ToSet(SubSeq(c, Len(FirstOf(c)) + 1, Len(c)))
           /\ IsInjective(c) => Apart(FirstOf(c), SubSeq(c, Len(FirstOf(c)) + 1, Len(c)))
<1> DEFINE n == Min({algorithm.chunk, Len(c)})
<1>1. n \in 0 .. Len(c)
    BY ChunkLength, UpToLength
<1>2. FirstOf(c) = SubSeq(c, 1, n)
    BY DEF FirstOf
<1> HIDE DEF n
<1>3. PICK f : f = SubSeq(c, 1, n)
    OBVIOUS
<1>4. /\ f \in Seq(problem.visible) /\ SubSeq(c, n + 1, Len(c)) \in Seq(problem.visible)
      /\ Len(f) = n
      /\ ToSet(c) = ToSet(f) \cup ToSet(SubSeq(c, n + 1, Len(c)))
      /\ IsInjective(c) => Apart(f, SubSeq(c, n + 1, Len(c)))
    BY <1>1, <1>3, Parts
<1>5. Len(FirstOf(c)) = n /\ FirstOf(c) = f
    BY <1>2, <1>3, <1>4
<1> QED BY <1>4, <1>5

LEMMA DynamicGoesOn ==
    ASSUME Asked, UNCHANGED task, Asking, problem.models # {}, algorithm.name = "dynamic",
           Extend(models, size), chunk' = <<>>, AllHold(zero'),
           \A N \in problem.models : \E M \in models : Projection(M) = N /\ (aux # 0 => aux \in M),
           NEW c, NEW a, Listed(a, c, {}), Dynamic(c, a)
    PROVE  AskInv'
<1>1. candidates' = c /\ answers' = a /\ c \in Seq(problem.visible) /\ algorithm.name \in QueryAlgorithms
    BY DEF Dynamic, Go, Listed, QueryAlgorithms
<1>2. CASE c = <<>>
    BY <1>1, <1>2, EndsEmpty DEF Dynamic, Go, Call
<1>3. CASE c # <<>>
    <2>1. NewChunk(FirstOf(c), aux # 0) /\ assumptions' = {-(size + 1)} /\ pc' = "dynamic"
        BY <1>3 DEF Dynamic, Go, Call
    <2>2. /\ aux' = size + 1 /\ aux' \in (problem.size + 1) .. size'
          /\ Extend(models', size') /\ ChunkOf(models', aux', FirstOf(c))
        BY <1>1, <2>1, FirstOfOnes, NewChunkKeeps
    <2>3. FirstOf(candidates)' = FirstOf(c) /\ problem' = problem /\ algorithm' = algorithm
        BY <1>1 DEF FirstOf, task
    <2>4. AtChunk(FirstOf(candidates))'
        BY <2>1, <2>2, <2>3 DEF AtChunk, Extend, AllHold, ChunkOf, Projection
    <2>5. AtQuery'
        BY <2>1, <2>3, <2>4 DEF AtQuery
    <2> QED BY <1>1, <1>3, <2>1, <2>5, QueryGoesOn
<1> QED BY <1>2, <1>3

LEMMA ChunkTypes ==
    ASSUME Asked, NEW s, AtChunk(s)
    PROVE  /\ Extend(models, size) /\ NoneLost(models) /\ AllHold(zero)
           /\ aux \in Nat /\ aux # 0 /\ aux > problem.size /\ aux \in 1 .. size /\ assumptions = {-aux}
BY VisibleOnes DEF AtChunk, ChunkOf, NoneLost, Extend

(* No model is left that makes a candidate of the chunk false.             *)
LEMMA ChunkRefuted ==
    ASSUME Asked, problem.models # {}, NEW s \in Seq(problem.visible), AtChunk(s), NEW z, Incoherent(z)
    PROVE  ToSet(s) \subseteq Consequences
<1>1. models # {}
    BY ChunkTypes DEF NoneLost
<1>2. \A M \in models : ~Holds(M, -aux)
    BY <1>1, ChunkTypes, Refuted
<1>3. \A M \in models : aux \in M
    BY <1>2, ChunkTypes DEF Holds
<1>4. \A N \in problem.models : ToSet(s) \subseteq N
    BY <1>3 DEF AtChunk, ChunkOf
<1> QED BY <1>4, NegatedOnes DEF Consequences

LEMMA ChunkDynamicAlgorithmKeeps ==
    ASSUME Asked, Asking, AskInv, ChunkDynamicAlgorithm
    PROVE  AskInv'
<1> DEFINE f == FirstOf(candidates)
           others == SubSeq(candidates, Len(f) + 1, Len(candidates))
<1>1. pc = "dynamic" /\ UNCHANGED task /\ chunk' = chunk /\ zero' \in Known
    BY DEF ChunkDynamicAlgorithm
<1>2. /\ problem.models # {} /\ chunk = <<>> /\ Listed(answers, candidates, {})
      /\ AtChunk(f) /\ algorithm.name = "dynamic" /\ algorithm.name \in QueryAlgorithms
    BY <1>1 DEF AskInv, Begun, Asking, AtListed, AtQuery, AtImplicate, AtTested, AtEnd
<1>3. /\ candidates \in Seq(problem.visible) /\ answers \in Seq(problem.visible)
      /\ ToSet(candidates) \cup ToSet(chunk) \in SUBSET problem.visible
    BY <1>2, NegatedOnes DEF Listed, ToSet
<1>4. AllHold(zero')
    BY <1>1, <1>2, <1>3, ChunkTypes, KnownHold DEF Known
<1>5. \A N \in problem.models : \E M \in models : Projection(M) = N /\ (aux # 0 => aux \in M)
    BY <1>2 DEF AtChunk, ChunkOf
<1>6. /\ f \in Seq(problem.visible) /\ others \in Seq(problem.visible)
      /\ ToSet(candidates) = ToSet(f) \cup ToSet(others) /\ (IsInjective(candidates) => Apart(f, others))
    BY <1>2, <1>3, FirstOfOnes
<1>7. ASSUME NEW M \in models, Dynamic(Kept(candidates, M, zero'), With(answers, candidates, zero'))
      PROVE  AskInv'
    <2>1. ToSet(candidates) \cap zero' \subseteq Consequences /\ Consequences \subseteq M
        BY <1>2, <1>3, <1>4, <1>7, HeldOnes, ModelsHave, ChunkTypes
    <2>2. Listed(With(answers, candidates, zero'), Kept(candidates, M, zero'), {})
        BY <1>2, <2>1, Pruned
    <2> QED BY <1>1, <1>2, <1>4, <1>5, <1>7, <2>2, ChunkTypes, DynamicGoesOn
<1>8. ASSUME Incoherent(zero'), Dynamic(Open(others, zero'), With(answers \o f, others, zero'))
      PROVE  AskInv'
    <2> HIDE DEF f, others
    <2>1. ToSet(f) \subseteq Consequences
        BY <1>2, <1>6, <1>8, ChunkRefuted
    <2>2. PICK o : o = Open(others, zero')
        OBVIOUS
    <2>3. /\ o \in Seq(problem.visible) /\ ToSet(o) \subseteq ToSet(others) \ zero'
          /\ Consequences \cap ToSet(others) \subseteq ToSet(o) \cup zero'
          /\ IsInjective(others) => IsInjective(o)
        BY <1>2, <1>4, <1>6, <2>2, OpenOnes
    <2>4. PICK b : b = answers \o f
        OBVIOUS
    <2>5. b \in Seq(problem.visible) /\ ToSet(b) = ToSet(answers) \cup ToSet(f) /\ (Apart(answers, f) => IsInjective(b))
        BY <1>3, <1>6, <2>4, Joined
    <2>6. PICK k : k = Keep(others, zero')
        OBVIOUS
    <2>7. /\ k \in Seq(problem.visible) /\ ToSet(k) = ToSet(others) \cap zero'
          /\ IsInjective(others) => IsInjective(k)
        BY <1>6, <2>6, KeepKeeps
    <2>8. PICK w : w = b \o k
        OBVIOUS
    <2>9. w \in Seq(problem.visible) /\ ToSet(w) = ToSet(b) \cup ToSet(k) /\ (Apart(b, k) => IsInjective(w))
        BY <2>5, <2>7, <2>8, Joined
    <2>10. w = With(answers \o f, others, zero')
        BY <2>4, <2>6, <2>8 DEF With
    <2>11. ToSet(w) \subseteq Consequences
        <3>1. ToSet(others) \cap zero' \subseteq Consequences
            BY <1>2, <1>3, <1>4, <1>6, HeldOnes
        <3> QED BY <1>2, <2>1, <2>5, <2>7, <2>9, <3>1 DEF Listed
    <2>12. Consequences \subseteq ToSet(w) \cup ToSet(o)
        BY <1>2, <1>6, <2>3, <2>5, <2>7, <2>9 DEF Listed
    <2>13. Apart(w, o)
        <3>1. Apart(answers, candidates)
            BY <1>2 DEF Listed
        <3>2. Apart(answers, f) /\ Apart(f, others) /\ Apart(answers, others)
            BY <1>6, <3>1 DEF Apart
        <3>3. Apart(b, k)
            BY <2>5, <2>7, <3>2 DEF Apart
        <3> QED BY <2>3, <2>5, <2>7, <2>9, <3>2, <3>3 DEF Apart
    <2>14. Listed(w, o, {})
        BY <2>3, <2>9, <2>11, <2>12, <2>13 DEF Listed
    <2> QED BY <1>1, <1>2, <1>4, <1>5, <1>8, <2>2, <2>10, <2>14, ChunkTypes, DynamicGoesOn
<1> QED BY <1>7, <1>8 DEF ChunkDynamicAlgorithm

LEMMA PositionOf ==
    ASSUME NEW n \in Nat, n # 0, NEW from \in SUBSET (1 .. n)
    PROVE  /\ (IF from = {} THEN 1 ELSE Max(from)) - 1 \in 0 .. n
           /\ (IF from = {} THEN 1 ELSE Max(from)) - 1 + 1 = IF from = {} THEN 1 ELSE Max(from)
<1>1. IsFiniteSet(1 .. n)
    BY UpTo
<1>2. CASE from # {}
    <2>1. IsFiniteSet(from)
        BY <1>1, FS_Subset
    <2>2. from \in SUBSET Int
        OBVIOUS
    <2>3. Max(from) \in from
        BY <1>2, <2>1, <2>2, Extremes
    <2>4. PICK m \in 1 .. n : m = Max(from)
        BY <2>3
    <2>5. m - 1 \in 0 .. n /\ m - 1 + 1 = m
        OBVIOUS
    <2> QED BY <1>2, <2>4, <2>5
<1>3. CASE from = {}
    BY <1>3
<1> QED BY <1>2, <1>3

LEMMA TakenChunk ==
    ASSUME Asked, problem.models # {}, NEW z, AllHold(z), NEW c \in Seq(problem.visible), c # <<>>
    PROVE  LET t == TakeChunk(c, z)
           IN  /\ t.rest \in Seq(problem.visible) /\ t.chunk \in Seq(problem.visible)
               /\ ToSet(t.rest) \cup ToSet(t.chunk) \subseteq ToSet(c)
               /\ IsInjective(c) => Apart(t.rest, t.chunk)
<1> DEFINE open == {i \in DOMAIN c : c[i] \notin z /\ -c[i] \notin z}
           from == {i \in open : Cardinality({j \in open : j >= i}) = algorithm.chunk}
           first == IF from = {} THEN 1 ELSE Max(from)
           rest == SubSeq(c, 1, first - 1)
           taken == SubSeq(c, first, Len(c))
<1>1. Len(c) \in Nat /\ Len(c) # 0 /\ DOMAIN c = 1 .. Len(c)
    OBVIOUS
<1>2. from \in SUBSET (1 .. Len(c))
    BY <1>1
<1> HIDE DEF from
<1>3. first - 1 \in 0 .. Len(c) /\ first - 1 + 1 = first
    BY <1>1, <1>2, PositionOf
<1> HIDE DEF first
<1>4. /\ rest \in Seq(problem.visible) /\ SubSeq(c, first - 1 + 1, Len(c)) \in Seq(problem.visible)
      /\ ToSet(c) = ToSet(rest) \cup ToSet(SubSeq(c, first - 1 + 1, Len(c)))
      /\ IsInjective(c) => Apart(rest, SubSeq(c, first - 1 + 1, Len(c)))
    <2> HIDE DEF rest
    <2>1. PICK n \in 0 .. Len(c) : n = first - 1
        BY <1>3
    <2>2. rest = SubSeq(c, 1, n)
        BY <2>1 DEF rest
    <2> QED BY <2>1, <2>2, Parts
<1>5. TakeChunk(c, z) = [rest |-> rest, chunk |-> Reverse(Open(taken, z))]
    BY DEF TakeChunk, first, from
<1>6. /\ taken \in Seq(problem.visible) /\ ToSet(c) = ToSet(rest) \cup ToSet(taken)
      /\ IsInjective(c) => Apart(rest, taken)
    BY <1>3, <1>4
<1> HIDE DEF rest, taken, open
<1>7. PICK o : o = Open(taken, z)
    OBVIOUS
<1>8. /\ o \in Seq(problem.visible) /\ ToSet(o) \subseteq ToSet(taken)
      /\ IsInjective(taken) => IsInjective(o)
    BY <1>6, <1>7, OpenOnes
<1>9. PICK r : r = Reverse(o)
    OBVIOUS
<1>10. r \in Seq(problem.visible) /\ ToSet(r) = ToSet(o) /\ (IsInjective(o) => IsInjective(r))
    BY <1>8, <1>9, Reversed
<1>11. TakeChunk(c, z).rest = rest /\ TakeChunk(c, z).chunk = r
    BY <1>5, <1>7, <1>9
<1>12. IsInjective(c) => Apart(rest, r)
    BY <1>6, <1>8, <1>10 DEF Apart
<1> QED BY <1>4, <1>6, <1>8, <1>10, <1>11, <1>12

LEMMA EmptyList ==
    ASSUME NEW T
    PROVE  \E e \in Seq(T) : e = <<>> /\ ToSet(e) = {} /\ IsInjective(e)
<1>1. <<>> \in Seq(T) /\ ToSet(<<>>) = {} /\ IsInjective(<<>>)
    BY DEF ToSet, IsInjective
<1> WITNESS <<>> \in Seq(T)
<1> QED BY <1>1

LEMMA StaticGoesOn ==
    ASSUME Asked, UNCHANGED task, Asking, problem.models # {}, algorithm.name = "static",
           Extend(models, size), AllHold(zero'),
           \A N \in problem.models : \E M \in models : Projection(M) = N /\ (aux # 0 => aux \in M),
           NEW c, NEW a, NEW s, NEW z, AllHold(z), Listed(a, c, {}),
           s \in Seq(problem.visible), Apart(a, s), Apart(c, s),
           s # <<>> => aux \in (problem.size + 1) .. size /\ ChunkOf(models, aux, s),
           Static(c, s, a, z)
    PROVE  AskInv'
<1>1. c \in Seq(problem.visible) /\ a \in Seq(problem.visible) /\ Apart(a, c) /\ algorithm.name \in QueryAlgorithms
      /\ problem' = problem /\ algorithm' = algorithm
    BY DEF Listed, QueryAlgorithms, task
<1>2. ASSUME NEW d, candidates' = d, answers' = a, pc' = "static", assumptions' = {-aux'},
             d \in Seq(problem.visible), ToSet(d) \subseteq ToSet(c), IsInjective(d),
             chunk' \in Seq(problem.visible), Apart(a, chunk'), Apart(d, chunk'),
             Extend(models', size'), aux' \in (problem.size + 1) .. size', ChunkOf(models', aux', chunk')
      PROVE  AskInv'
    <2>1. AtChunk(chunk)'
        BY <1>1, <1>2 DEF AtChunk, Extend, AllHold, ChunkOf, Projection
    <2>2. AtQuery'
        BY <1>1, <1>2, <2>1 DEF AtQuery, Apart
    <2>3. Listed(a, d, {})
        BY <1>1, <1>2 DEF Listed, Apart
    <2> QED BY <1>1, <1>2, <2>2, <2>3, QueryGoesOn
<1>3. CASE c = <<>> /\ s = <<>>
    BY <1>3, EndsEmpty DEF Static, Go, Call
<1>4. CASE c # <<>> /\ s = <<>>
    <2>1. PICK t : t = TakeChunk(c, z)
        OBVIOUS
    <2>2. /\ t.rest \in Seq(problem.visible) /\ t.chunk \in Seq(problem.visible)
          /\ ToSet(t.rest) \cup ToSet(t.chunk) \subseteq ToSet(c)
          /\ Apart(t.rest, t.chunk)
        BY <1>1, <1>4, <2>1, TakenChunk DEF Apart
    <2>3. /\ NewChunk(t.chunk, aux # 0) /\ chunk' = t.chunk
          /\ candidates' = t.rest /\ answers' = a /\ assumptions' = {-(size + 1)} /\ pc' = "static"
        BY <1>4, <2>1 DEF Static, Go, Call
    <2>4. /\ aux' = size + 1 /\ aux' \in (problem.size + 1) .. size'
          /\ Extend(models', size') /\ ChunkOf(models', aux', t.chunk)
        BY <2>2, <2>3, NewChunkKeeps
    <2>5. Apart(a, t.chunk) /\ IsInjective(t.rest)
        BY <1>1, <2>2 DEF Apart
    <2> QED BY <1>2, <2>2, <2>3, <2>4, <2>5
<1>5. CASE s # <<>>
    <2>1. /\ models' = Restricted(models, Negated(s) \cup {aux}) /\ chunk' = s
          /\ candidates' = c /\ answers' = a /\ assumptions' = {-aux} /\ pc' = "static"
          /\ UNCHANGED <<size, aux>>
        BY <1>5 DEF Static, Go, Call
    <2>2. Extend(models', size')
        BY <2>1 DEF Extend, Restricted
    <2>3. aux \in (problem.size + 1) .. size /\ problem.size \in Nat /\ size \in Int
        BY <1>5, VisibleOnes DEF Extend
    <2>4. \A M : Holds(M, aux) <=> aux \in M
        BY <2>3 DEF Holds
    <2>5. ASSUME NEW N \in problem.models PROVE \E M \in models' : Projection(M) = N /\ aux \in M
        <3>1. PICK M \in models : Projection(M) = N /\ aux \in M
            BY <1>5 DEF ChunkOf
        <3> QED BY <2>1, <2>4, <3>1 DEF Restricted, Sat
    <2>6. ASSUME NEW N \in problem.models, ~(ToSet(s) \subseteq N)
          PROVE  \E M \in models' : Projection(M) = N /\ aux \notin M
        <3>1. PICK M \in models : Projection(M) = N /\ aux \notin M
            BY <1>5, <2>6 DEF ChunkOf
        <3>2. PICK v \in ToSet(s) : v \notin N
            BY <2>6
        <3>3. v \in problem.visible /\ -v \in Negated(s)
            BY <3>2, NegatedOnes
        <3>4. Holds(M, -v)
            BY <3>1, <3>2, <3>3, VisibleOnes DEF Projection
        <3> QED BY <2>1, <3>1, <3>3, <3>4 DEF Restricted, Sat
    <2>7. ChunkOf(models', aux', chunk')
        BY <2>1, <2>5, <2>6 DEF ChunkOf
    <2>8. IsInjective(c)
        BY <1>1 DEF Apart
    <2> QED BY <1>1, <1>2, <2>1, <2>2, <2>3, <2>7, <2>8
<1> QED BY <1>3, <1>4, <1>5

LEMMA ChunkStaticAlgorithmKeeps ==
    ASSUME Asked, Asking, AskInv, ChunkStaticAlgorithm
    PROVE  AskInv'
<1>1. pc = "static" /\ UNCHANGED task
    BY DEF ChunkStaticAlgorithm
<1>2. /\ problem.models # {} /\ Listed(answers, candidates, {})
      /\ AtChunk(chunk) /\ algorithm.name = "static"
      /\ chunk \in Seq(problem.visible) /\ Apart(answers, chunk) /\ Apart(candidates, chunk)
    BY <1>1 DEF AskInv, Begun, Asking, AtListed, AtQuery, AtImplicate, AtTested, AtEnd
<1>3. /\ candidates \in Seq(problem.visible) /\ answers \in Seq(problem.visible) /\ Apart(answers, candidates)
      /\ ToSet(candidates) \subseteq problem.visible /\ ToSet(chunk) \subseteq problem.visible
      /\ ToSet(answers) \subseteq Consequences
    BY <1>2, NegatedOnes DEF Listed
<1>4. ASSUME NEW z \in Known PROVE AllHold(z)
    BY <1>2, <1>3, <1>4, ChunkTypes, KnownHold DEF Known
<1>5. \A N \in problem.models : \E M \in models : Projection(M) = N /\ (aux # 0 => aux \in M)
    BY <1>2 DEF AtChunk, ChunkOf
<1>6. Extend(models, size) /\ aux \in (problem.size + 1) .. size /\ ChunkOf(models, aux, chunk)
    BY <1>2 DEF AtChunk
<1>7. ASSUME NEW z \in Known, zero' = z, NEW M \in models,
             Static(Kept(candidates, M, z), Kept(chunk, M, z), With(answers, candidates \o chunk, z), z)
      PROVE  AskInv'
    <2>1. AllHold(z)
        BY <1>4, <1>7
    <2>2. PICK k : k = Kept(candidates, M, z)
        OBVIOUS
    <2>3. k \in Seq(problem.visible) /\ ToSet(k) = ToSet(candidates) \cap (M \ z) /\ (IsInjective(candidates) => IsInjective(k))
        BY <1>3, <2>2, KeepKeeps DEF Kept
    <2>4. PICK s : s = Kept(chunk, M, z)
        OBVIOUS
    <2>5. s \in Seq(problem.visible) /\ ToSet(s) = ToSet(chunk) \cap (M \ z) /\ (IsInjective(chunk) => IsInjective(s))
        BY <1>2, <2>4, KeepKeeps DEF Kept
    <2>6. PICK both : both = candidates \o chunk
        OBVIOUS
    <2>7. both \in Seq(problem.visible) /\ ToSet(both) = ToSet(candidates) \cup ToSet(chunk) /\ IsInjective(both)
        BY <1>2, <1>3, <2>6, Joined
    <2>8. PICK b : b = Keep(both, z)
        OBVIOUS
    <2>9. b \in Seq(problem.visible) /\ ToSet(b) = ToSet(both) \cap z /\ IsInjective(b)
        BY <2>7, <2>8, KeepKeeps
    <2>10. PICK w : w = answers \o b
        OBVIOUS
    <2>11. w \in Seq(problem.visible) /\ ToSet(w) = ToSet(answers) \cup ToSet(b) /\ (Apart(answers, b) => IsInjective(w))
        BY <1>3, <2>9, <2>10, Joined
    <2>12. w = With(answers, candidates \o chunk, z)
        BY <2>6, <2>8, <2>10 DEF With
    <2>13. Apart(answers, b)
        BY <1>2, <1>3, <2>7, <2>9 DEF Apart
    <2>14. Apart(w, k) /\ Apart(w, s) /\ Apart(k, s)
        BY <1>2, <1>3, <2>3, <2>5, <2>7, <2>9, <2>11, <2>13 DEF Apart
    <2>15. ToSet(w) \subseteq Consequences
        BY <1>2, <1>3, <2>1, <2>7, <2>9, <2>11, HeldOnes
    <2>16. Listed(w, k, {})
        BY <1>2, <2>3, <2>11, <2>14, <2>15 DEF Listed
    <2>17. ChunkOf(models, aux, s)
        BY <1>6, <2>5 DEF ChunkOf
    <2> QED BY <1>1, <1>2, <1>5, <1>6, <1>7, <2>1, <2>2, <2>4, <2>5, <2>12, <2>14, <2>16, <2>17, StaticGoesOn
<1>8. ASSUME NEW z \in Known, Incoherent(z), zero' \in Asserted(models, {aux}, z \cup ToSet(chunk)),
             Static(candidates, <<>>, answers \o chunk, zero')
      PROVE  AskInv'
    <2>1. ToSet(chunk) \subseteq Consequences
        BY <1>2, <1>8, ChunkRefuted
    <2>2. AllHold(zero')
        <3>1. Cardinality({aux}) = 1
            BY FS_Singleton
        <3>2. \A l \in zero' : \/ l \in z \/ l \in ToSet(chunk) \/ l = aux
                               \/ (l \in ToSet(candidates) \cup ToSet(chunk) /\ \A M \in models : l \in M)
            BY <1>8, <3>1 DEF Asserted
        <3>3. AllHold(z)
            BY <1>4, <1>8
        <3> SUFFICES ASSUME NEW l \in zero', Variable(l) \in 1 .. problem.size, NEW N \in problem.models
                     PROVE  Holds(N, l)
            BY DEF AllHold
        <3>4. CASE l \in z
            BY <3>3, <3>4 DEF AllHold
        <3>5. CASE l \in ToSet(chunk)
            BY <1>3, <2>1, <3>5, VisibleOnes DEF Consequences
        <3>6. CASE l = aux
            BY <1>2, <3>6, ChunkTypes, VisibleOnes DEF Variable
        <3>7. CASE l \in ToSet(candidates) \cup ToSet(chunk) /\ \A M \in models : l \in M
            <4>1. PICK M \in models : Projection(M) = N
                BY <1>5
            <4> QED BY <1>3, <3>7, <4>1, VisibleOnes DEF Projection
        <3> QED BY <3>2, <3>4, <3>5, <3>6, <3>7
    <2>3. PICK w : w = answers \o chunk
        OBVIOUS
    <2>4. w \in Seq(problem.visible) /\ ToSet(w) = ToSet(answers) \cup ToSet(chunk) /\ IsInjective(w)
        BY <1>2, <1>3, <2>3, Joined
    <2>5. Listed(w, candidates, {})
        BY <1>2, <1>3, <2>1, <2>4 DEF Listed, Apart
    <2>6. PICK e \in Seq(problem.visible) : e = <<>> /\ ToSet(e) = {} /\ IsInjective(e)
        BY EmptyList
    <2>7. Apart(w, e) /\ Apart(candidates, e)
        BY <1>3, <2>4, <2>6 DEF Apart
    <2>8. Static(candidates, e, w, zero')
        BY <1>8, <2>3, <2>6
    <2> QED BY <1>1, <1>2, <1>5, <1>6, <2>2, <2>5, <2>6, <2>7, <2>8, StaticGoesOn
<1> QED BY <1>7, <1>8 DEF ChunkStaticAlgorithm

-----------------------------------------------------------------------------
(* The first model: all visible variables are candidates.                  *)
LEMMA FirstModel ==
    ASSUME Asked, AtProblem, NEW M \in models, NEW z \in Learned(problem.visible)
    PROVE  LET c == Kept(FirstCandidates, M, z)
               a == With(<<>>, FirstCandidates, z)
           IN  AllHold(z) /\ Listed(a, c, {}) /\ ToSet(c) \cap z = {}
<1> DEFINE f == FirstCandidates
<1>1. AllHold(z) /\ Consequences \subseteq M /\ problem.models # {}
    BY ModelsOfProblem, KnownHold, ModelsHave DEF AtProblem
<1>2. f \in Seq(problem.visible) /\ ToSet(f) = problem.visible /\ IsInjective(f)
    BY VisibleOnes, AscendingLists DEF FirstCandidates
<1> HIDE DEF f
<1>3. PICK e \in Seq(problem.visible) : e = <<>> /\ ToSet(e) = {} /\ IsInjective(e)
    BY EmptyList
<1>4. Listed(e, f, {})
    BY <1>2, <1>3, VisibleOnes DEF Listed, Apart
<1>5. ToSet(f) \cap z \subseteq Consequences
    BY <1>1, <1>2, HeldOnes
<1>6. Listed(With(e, f, z), Kept(f, M, z), {}) /\ ToSet(Kept(f, M, z)) = ToSet(f) \cap (M \ z)
    BY <1>1, <1>4, <1>5, Pruned
<1> QED BY <1>1, <1>3, <1>6 DEF f

LEMMA QueryInterfaceSolveKeeps ==
    ASSUME Asked, Asking, AskInv, QueryInterfaceSolve
    PROVE  AskInv'
<1>1. pc = "query" /\ UNCHANGED task
    BY DEF QueryInterfaceSolve
<1>2. Begun
    BY <1>1 DEF AskInv, AtListed, AtQuery, AtImplicate, AtTested, AtEnd
<1>3. AtProblem
    BY <1>2 DEF AtProblem, Begun, AllHold
<1>4. CASE models = {} /\ Go(<<>>, <<>>, {}, "incoherent") /\ UNCHANGED <<solver, chunk, aux>>
    BY <1>1, <1>2, <1>4 DEF AskInv, Begun, Go, Call, Asking, task
<1>5. ASSUME NEW M \in models, NEW z \in Learned(problem.visible),
             NEW c, NEW a, c = Kept(FirstCandidates, M, z), a = With(<<>>, FirstCandidates, z),
             \/ /\ algorithm.name = "ict" \/ (algorithm.name \in {"static", "dynamic"} /\ algorithm.chunk = 1)
                /\ Test(c, a, z) /\ zero' = z /\ UNCHANGED <<models, size, chunk, aux>>
             \/ /\ \/ algorithm.name = "or"
                   \/ algorithm.name \in {"static", "dynamic"} /\ algorithm.chunk # 1 /\ algorithm.chunk >= Len(c)
                /\ Overestimate(c, a, z) /\ UNCHANGED <<size, chunk, aux>>
             \/ /\ algorithm.name = "cb"
                /\ CoreChunk(c, a) /\ zero' = z /\ UNCHANGED <<models, size, chunk, aux>>
             \/ /\ algorithm.name = "dynamic" /\ algorithm.chunk \in 2..(Len(c) - 1)
                /\ Dynamic(c, a) /\ zero' = z /\ UNCHANGED chunk
             \/ /\ algorithm.name = "static" /\ algorithm.chunk \in 2..(Len(c) - 1)
                /\ Static(c, <<>>, a, z) /\ zero' = z
      PROVE  AskInv'
    <2>1. /\ AllHold(z) /\ Listed(a, c, {}) /\ ToSet(c) \cap z = {}
          /\ problem.models # {} /\ models = problem.models /\ size = problem.size /\ chunk = <<>> /\ aux = 0
        BY <1>2, <1>3, <1>5, FirstModel DEF Begun
    <2>2. algorithm.name \in QueryAlgorithms
        BY <1>5 DEF QueryAlgorithms
    <2>3. CASE Test(c, a, z) /\ zero' = z /\ UNCHANGED <<models, size, chunk>>
        BY <1>1, <1>3, <2>1, <2>2, <2>3, TestGoesOn
    <2>4. CASE Overestimate(c, a, z) /\ UNCHANGED <<size, chunk>>
        BY <1>1, <2>1, <2>2, <2>4, OverestimateGoesOn
    <2>5. CASE CoreChunk(c, a) /\ zero' = z /\ UNCHANGED <<models, size, chunk>>
        BY <1>1, <1>3, <2>1, <2>2, <2>5, CoreChunkGoesOn
    <2>6. Extend(models, size) /\ \A N \in problem.models : \E K1 \in models : Projection(K1) = N /\ (aux # 0 => aux \in K1)
        BY <1>3, <2>1, ModelsOfProblem DEF NoneLost
    <2>7. CASE algorithm.name = "dynamic" /\ Dynamic(c, a) /\ zero' = z /\ UNCHANGED chunk
        BY <1>1, <2>1, <2>6, <2>7, DynamicGoesOn
    <2>8. CASE algorithm.name = "static" /\ Static(c, <<>>, a, z) /\ zero' = z
        <3>1. PICK e \in Seq(problem.visible) : e = <<>> /\ ToSet(e) = {} /\ IsInjective(e)
            BY EmptyList
        <3>2. Apart(a, e) /\ Apart(c, e)
            BY <2>1, <2>8, <3>1 DEF Listed, Apart
        <3>3. Static(c, e, a, z)
            BY <2>8, <3>1
        <3> QED BY <1>1, <2>1, <2>6, <2>8, <3>1, <3>2, <3>3, StaticGoesOn
    <2> QED BY <1>5, <2>3, <2>4, <2>5, <2>7, <2>8
<1> QED BY <1>4, <1>5 DEF QueryInterfaceSolve

-----------------------------------------------------------------------------
(* One candidate at a time, with the others preferred false.               *)
LEMMA AnswerHolds ==
    ASSUME Asked, NEW v \in Consequences, NEW z, AllHold(z)
    PROVE  AllHold(z \cup {v})
BY VisibleOnes DEF AllHold, Consequences

LEMMA AssertedHold ==
    ASSUME Asked, AtProblem, candidates \in Seq(problem.visible), chunk = <<>>,
           NEW v \in Consequences, NEW z, AllHold(z), NEW y \in Asserted(models, {v}, z)
    PROVE  AllHold(y)
<1>1. Cardinality({v}) = 1
    BY FS_Singleton
<1>2. PICK F : y = z \cup {v} \cup F /\ \A u \in F : u \in ToSet(candidates) /\ \A M \in models : u \in M
    <2>1. ToSet(chunk) = {}
        BY DEF ToSet
    <2> DEFINE S == {u \in ToSet(candidates) \cup ToSet(chunk) : models # {} /\ \A M \in models : u \in M}
    <2>2. PICK F \in SUBSET (S \ z) : y = z \cup {v} \cup F
        BY <1>1 DEF Asserted
    <2>3. \A u \in F : u \in ToSet(candidates) /\ \A M \in models : u \in M
        BY <2>1, <2>2
    <2> QED BY <2>2, <2>3
<1>3. \A u \in F : u \in Consequences
    BY <1>2, NegatedOnes DEF AtProblem, Consequences
<1> QED BY <1>2, <1>3, VisibleOnes DEF AllHold, Consequences

LEMMA TestPreferringGoesOn ==
    ASSUME Asked, UNCHANGED task, Asking, problem.models # {}, algorithm.name = "ict-preferences",
           AtProblem, UNCHANGED <<models, size>>, chunk' = <<>>, AllHold(zero'),
           NEW c, NEW a, Listed(a, c, {}), TestPreferring(c, a)
    PROVE  AskInv'
<1>1. CASE c = <<>>
    BY <1>1, EndsEmpty DEF TestPreferring, Go, Call
<1>2. CASE c # <<>>
    <2>1. PICK f, v : f = Front(c) /\ v = Last(c)
        OBVIOUS
    <2>2. /\ f \in Seq(problem.visible) /\ v \in problem.visible /\ v \in ToSet(c)
          /\ ToSet(c) = ToSet(f) \cup {v}
          /\ IsInjective(c) => IsInjective(f) /\ v \notin ToSet(f)
        BY <1>2, <2>1, OneAtTheEnd DEF Listed
    <2>3. /\ candidates' = f /\ answers' = a /\ assumptions' = {-v} /\ tested' = -v
          /\ pc' = "ict-preferences"
        BY <1>2, <2>1 DEF TestPreferring, Go, Call
    <2>4. -tested' = v
        BY <2>2, <2>3, VisibleOnes
    <2>5. Apart(a, c)
        BY DEF Listed
    <2>6. Listed(a, f, {-tested'}) /\ v \notin ToSet(a) \cup ToSet(f)
        BY <2>2, <2>4, <2>5 DEF Listed, Apart
    <2>7. AtProblem' /\ problem' = problem /\ algorithm' = algorithm /\ Asking'
        BY DEF AtProblem, AllHold, task, Asking
    <2>8. Listed(answers, candidates, {-tested})'
        BY <2>3, <2>6, ListedAfter
    <2>9. AtTested'
        BY <2>2, <2>3, <2>4, <2>6, <2>7, <2>8 DEF AtTested
    <2> QED BY <2>7, <2>9 DEF AskInv
<1> QED BY <1>1, <1>2

LEMMA IterativeCoherenceTestingPreferencesKeeps ==
    ASSUME Asked, Asking, AskInv, IterativeCoherenceTestingPreferences
    PROVE  AskInv'
<1>1. pc = "ict-preferences" /\ UNCHANGED task /\ UNCHANGED <<models, size>> /\ chunk' = chunk
    BY DEF IterativeCoherenceTestingPreferences
<1>2. /\ problem.models # {} /\ chunk = <<>> /\ algorithm.name = "ict-preferences" /\ AtProblem
      /\ Listed(answers, candidates, {-tested}) /\ assumptions = {tested}
      /\ tested \in Int /\ -tested \in problem.visible \ (ToSet(answers) \cup ToSet(candidates))
    BY <1>1 DEF AskInv, Begun, Asking, AtListed, AtQuery, AtImplicate, AtTested, AtEnd, QueryAlgorithms
<1>3. ASSUME NEW z \in Known PROVE AllHold(z)
    BY <1>2, <1>3, KnownNow DEF Listed
<1>4. candidates \in Seq(problem.visible) /\ answers \in Seq(problem.visible)
      /\ ToSet(candidates) \subseteq problem.visible /\ Apart(answers, candidates)
    BY <1>2, NegatedOnes DEF Listed
<1>5. PICK v \in problem.visible : v = -tested
    BY <1>2
<1>6. ASSUME NEW z \in Known, NEW M \in models, FoundModel(assumptions, M), zero' = z,
             TestPreferring(Kept(candidates, M, z), With(answers, candidates, z))
      PROVE  AskInv'
    <2>1. AllHold(z) /\ Consequences \subseteq M
        BY <1>2, <1>3, <1>6, ModelsOfProblem, ModelsHave
    <2>2. ToSet(candidates) \cap z \subseteq Consequences
        BY <1>2, <1>4, <2>1, HeldOnes
    <2>3. tested = -v
        BY <1>2, <1>5, VisibleOnes
    <2>4. v \notin M
        BY <1>2, <1>6, <2>3, VisibleOnes DEF FoundModel, HoldsAll
    <2>5. Listed(answers, candidates, {})
        BY <1>2, <1>5, <2>1, <2>4 DEF Listed
    <2>6. Listed(With(answers, candidates, z), Kept(candidates, M, z), {})
        BY <1>2, <2>1, <2>2, <2>5, Pruned
    <2> QED BY <1>1, <1>2, <1>6, <2>1, <2>6, TestPreferringGoesOn
<1>7. ASSUME NEW z \in Known, Incoherent(z), TestPreferring(candidates, Append(answers, -tested)),
             zero' \in Asserted(models, {-tested}, z)
      PROVE  AskInv'
    <2>1. models # {} /\ tested = -v
        BY <1>2, <1>5, VisibleOnes DEF AtProblem
    <2>2. v \in Consequences
        BY <1>2, <1>7, <2>1, Refuted, RefutedOne
    <2>3. AllHold(zero')
        BY <1>2, <1>3, <1>4, <1>5, <1>7, <2>2, AssertedHold
    <2>4. PICK b : b = Append(answers, v)
        OBVIOUS
    <2>5. /\ b \in Seq(problem.visible) /\ ToSet(b) = ToSet(answers) \cup {v}
          /\ IsInjective(answers) /\ v \notin ToSet(answers) => IsInjective(b)
        BY <1>4, <2>4, Appended
    <2>6. Apart(b, candidates)
        BY <1>2, <1>4, <1>5, <2>5 DEF Apart
    <2>7. Listed(b, candidates, {})
        BY <1>2, <1>5, <2>2, <2>5, <2>6 DEF Listed
    <2> QED BY <1>1, <1>2, <1>5, <1>7, <2>3, <2>4, <2>7, TestPreferringGoesOn
<1> QED BY <1>6, <1>7 DEF IterativeCoherenceTestingPreferences

-----------------------------------------------------------------------------
LEMMA Added ==
    ASSUME NEW a \in Seq(problem.visible), NEW v
    PROVE  /\ AddAnswer(a, v) \in Seq(problem.visible)
           /\ v \in problem.visible => ToSet(AddAnswer(a, v)) = ToSet(a) \cup {v}
           /\ v \notin problem.visible => AddAnswer(a, v) = a
           /\ IsInjective(a) => IsInjective(AddAnswer(a, v))
<1>1. CASE v \in ToSet(a) \/ v \notin problem.visible
    BY <1>1 DEF AddAnswer
<1>2. CASE v \notin ToSet(a) /\ v \in problem.visible
    <2>1. PICK b : b = Append(a, v)
        OBVIOUS
    <2>2. /\ b \in Seq(problem.visible) /\ ToSet(b) = ToSet(a) \cup {v} /\ (IsInjective(a) => IsInjective(b))
        BY <1>2, <2>1, Appended
    <2> QED BY <1>2, <2>1, <2>2 DEF AddAnswer
<1> QED BY <1>1, <1>2

LEMMA AllFalseGoesOn ==
    ASSUME Asked, UNCHANGED task, Asking, problem.models # {}, algorithm.name = "pi",
           AtProblem, UNCHANGED <<models, size>>, chunk' = <<>>, AllHold(zero'),
           NEW c, NEW a, Listed(a, c, {}), AllFalse(c, a)
    PROVE  AskInv'
<1>1. candidates' = c /\ answers' = a /\ assumptions' = Negated(c) /\ pc' = IF c = <<>> THEN "done" ELSE "implicate"
    BY DEF AllFalse, Go, Call
<1>2. CASE c = <<>>
    BY <1>1, <1>2, EndsEmpty
<1>3. CASE c # <<>>
    <2>1. AtProblem' /\ algorithm' = algorithm /\ problem' = problem /\ Asking'
        BY DEF AtProblem, AllHold, task, Asking
    <2>2. AtImplicate'
        BY <1>1, <1>3, <2>1 DEF AtImplicate, Negated
    <2>3. AtListed'
        BY <1>1, <2>2, ListedAfter DEF AtListed
    <2> QED BY <2>1, <2>3 DEF AskInv
<1> QED BY <1>2, <1>3

LEMMA PrimeImplicateKeeps ==
    ASSUME Asked, Asking, AskInv, PrimeImplicate
    PROVE  AskInv'
<1>1. pc \in {"implicate", "minimizing", "testing"} /\ UNCHANGED task /\ UNCHANGED <<models, size>> /\ chunk' = chunk
    BY DEF PrimeImplicate
<1>2. /\ problem.models # {} /\ chunk = <<>> /\ Listed(answers, candidates, {})
      /\ AtImplicate /\ AtProblem /\ algorithm.name = "pi"
    BY <1>1 DEF AskInv, Begun, Asking, AtListed, AtQuery, AtImplicate, AtTested, AtEnd
<1>3. ASSUME NEW z \in Known PROVE AllHold(z)
    BY <1>2, <1>3, KnownNow DEF Listed
<1>4. candidates \in Seq(problem.visible) /\ answers \in Seq(problem.visible)
      /\ ToSet(candidates) \subseteq problem.visible
      /\ Negated(candidates) = {-v : v \in ToSet(candidates)}
    BY <1>2, NegatedOnes DEF Listed
<1>5. /\ pc \in {"implicate", "minimizing"} => assumptions \subseteq {-v : v \in problem.visible}
      /\ pc \in {"minimizing", "testing"} => tested \in Int /\ -tested \in problem.visible
      /\ pc = "implicate" => assumptions = Negated(candidates)
      /\ pc = "testing" => assumptions = {tested}
    BY <1>2, <1>4 DEF AtImplicate
<1>6. ASSUME NEW c, NEW a, candidates' = c, answers' = a, Listed(a, c, {}), AllHold(zero'),
             tested' \in Int, -tested' \in problem.visible,
             \/ pc' = "minimizing" /\ assumptions' \subseteq {-v : v \in problem.visible}
             \/ pc' = "testing" /\ assumptions' = {tested'}
      PROVE  AskInv'
    <2>1. AtProblem' /\ algorithm' = algorithm /\ problem' = problem /\ Asking'
        BY <1>1, <1>2, <1>6 DEF AtProblem, AllHold, task, Asking
    <2>2. AtImplicate'
        BY <1>2, <1>6, <2>1 DEF AtImplicate
    <2>3. AtListed'
        BY <1>1, <1>6, <2>2, ListedAfter DEF AtListed
    <2> QED BY <1>1, <1>2, <2>1, <2>3 DEF AskInv
<1>7. ASSUME NEW v \in Consequences, AllHold(zero'),
             NEW c, c \in {candidates, Minus(candidates, v)}, AllFalse(c, AddAnswer(answers, v))
      PROVE  AskInv'
    <2>1. v \in problem.visible
        BY VisibleOnes
    <2>2. /\ AddAnswer(answers, v) \in Seq(problem.visible)
          /\ ToSet(AddAnswer(answers, v)) = ToSet(answers) \cup {v}
        BY <1>4, <2>1, Added
    <2>3. c \in Seq(problem.visible) /\ ToSet(candidates) \ {v} \subseteq ToSet(c)
        BY <1>4, <1>7, MinusTakesOut
    <2>4. Listed(AddAnswer(answers, v), c, {})
        BY <1>2, <1>7, <2>2, <2>3 DEF Listed
    <2> QED BY <1>1, <1>2, <1>7, <2>4, AllFalseGoesOn
<1>8. ASSUME NEW z \in Known, pc \in {"implicate", "minimizing"}, NEW C \in Cores(assumptions, z),
             Conflict(C, z)
      PROVE  AskInv'
    <2>1. \A l \in C : \E v \in problem.visible : l = -v
        BY <1>5, <1>8 DEF Cores
    <2>2. CASE \E l \in C : /\ C = {l} /\ AllFalse(Minus(candidates, -l), AddAnswer(answers, -l))
                            /\ zero' = Settled(C, z)
        <3>1. PICK l \in C : /\ C = {l} /\ AllFalse(Minus(candidates, -l), AddAnswer(answers, -l))
                             /\ zero' = Settled(C, z)
            BY <2>2
        <3>2. PICK v \in problem.visible : l = -v
            BY <2>1
        <3>3. -l = v
            BY <3>2, VisibleOnes
        <3>4. v \in Consequences
            BY <1>2, <1>8, <3>1, <3>2, RefutedOne DEF Cores, HoldsAll
        <3>5. Settled(C, z) = z \cup {v}
            BY <3>1, <3>3, FS_Singleton DEF Settled, Opposite
        <3>6. AllHold(zero')
            BY <1>3, <1>8, <3>1, <3>4, <3>5, AnswerHolds
        <3> QED BY <1>7, <3>1, <3>3, <3>4, <3>6
    <2>3. CASE \E l \in C : /\ Cardinality(C) > 1
                            /\ Go(candidates, answers, C \ {l}, "minimizing") /\ tested' = l
                            /\ zero' = z
        <3>1. PICK l \in C : Go(candidates, answers, C \ {l}, "minimizing") /\ tested' = l /\ zero' = z
            BY <2>3
        <3>2. PICK v \in problem.visible : l = -v
            BY <2>1
        <3>3. -tested' = v /\ tested' \in Int
            BY <3>1, <3>2, VisibleOnes
        <3>4. assumptions' \subseteq {-u : u \in problem.visible}
            BY <2>1, <3>1 DEF Go, Call
        <3> QED BY <1>2, <1>3, <1>6, <1>8, <3>1, <3>3, <3>4 DEF Go, Call
    <2> QED BY <1>8, <2>2, <2>3 DEF Conflict
<1>9. ASSUME NEW z \in Known, NEW M \in models, FoundModel(assumptions, M), zero' = z,
             \/ /\ pc = "implicate" /\ UNCHANGED tested
                /\ Go(Kept(candidates, M, z), With(answers, candidates, z) \o Kept(candidates, M, z), {}, "done")
             \/ /\ pc = "minimizing" /\ UNCHANGED tested
                /\ Go(Kept(candidates, M, z), With(answers, candidates, z), {tested}, "testing")
             \/ pc = "testing" /\ AllFalse(Kept(candidates, M, z), With(answers, candidates, z))
      PROVE  AskInv'
    <2>1. AllHold(z) /\ Consequences \subseteq M
        BY <1>2, <1>3, <1>9, ModelsOfProblem, ModelsHave
    <2>2. ToSet(candidates) \cap z \subseteq Consequences
        BY <1>2, <1>4, <2>1, HeldOnes
    <2>3. PICK c, a : c = Kept(candidates, M, z) /\ a = With(answers, candidates, z)
        OBVIOUS
    <2>4. Listed(a, c, {}) /\ ToSet(c) = ToSet(candidates) \cap (M \ z)
        BY <1>2, <2>1, <2>2, <2>3, Pruned
    <2>5. CASE pc = "implicate" /\ Go(c, a \o c, {}, "done")
        <3>1. \A v \in ToSet(candidates) : v \notin M
            BY <1>4, <1>5, <1>9, <2>5, VisibleOnes DEF FoundModel, HoldsAll
        <3>2. ToSet(c) \subseteq Consequences
            BY <2>4, <3>1
        <3>3. c \in Seq(problem.visible)
            BY <2>4 DEF Listed
        <3> QED BY <1>1, <1>2, <2>4, <2>5, <3>2, <3>3, EndsWell DEF Go, Call
    <2>6. CASE pc = "minimizing" /\ Go(c, a, {tested}, "testing") /\ tested' = tested
        BY <1>5, <1>6, <1>9, <2>1, <2>4, <2>6 DEF Go, Call
    <2>7. CASE pc = "testing" /\ AllFalse(c, a)
        BY <1>1, <1>2, <1>9, <2>1, <2>4, <2>7, AllFalseGoesOn
    <2> QED BY <1>9, <2>3, <2>5, <2>6, <2>7
<1>10. ASSUME NEW z \in Known, pc = "testing", Incoherent(z), AllFalse(candidates, AddAnswer(answers, -tested)),
              zero' = z \cup {-tested}
       PROVE  AskInv'
    <2>1. PICK v \in problem.visible : v = -tested
        BY <1>5, <1>10
    <2>2. models # {} /\ tested = -v
        BY <1>2, <1>5, <1>10, <2>1, VisibleOnes DEF AtProblem
    <2>3. v \in Consequences
        BY <1>2, <1>5, <1>10, <2>2, Refuted, RefutedOne
    <2>4. AllHold(zero')
        BY <1>3, <1>10, <2>1, <2>3, AnswerHolds
    <2> QED BY <1>7, <1>10, <2>1, <2>3, <2>4
<1> QED BY <1>8, <1>9, <1>10 DEF PrimeImplicate

-----------------------------------------------------------------------------
(* The rounds.                                                             *)
LEMMA CoreAfter ==
    ASSUME UNCHANGED task, Asking, problem.models # {}, algorithm.name \in Relaxers,
           chunk' = <<>>, pc' = "core", Listed(answers', candidates', {}), AllHold(zero'),
           CoreAt(candidates', round', assumptions', models', size', cache')
    PROVE  AskInv'
<1>1. problem' = problem /\ algorithm' = algorithm /\ Asking'
    BY DEF task, Asking
<1>2. Consequences' = Consequences /\ AllHold(zero)'
    BY <1>1 DEF Consequences, AllHold
<1>3. Extend(models, size)' /\ Assumed(assumptions, size)'
    BY <1>1 DEF CoreAt, Extend, Assumed, Projection, Literals
<1>4. Cached(cache, assumptions, models, size)'
    BY <1>1 DEF CoreAt, Cached, Replaced, Literals
<1>5. \A R, k : Balanced(R, k, assumptions', models', cache'.cores)
                  <=> Balanced(R, k, assumptions, models, cache.cores)'
    BY <1>1 DEF Balanced, Projection, Tight
<1>6. CoreAt(candidates, round, assumptions, models, size, cache)'
    BY <1>1, <1>2, <1>3, <1>4, <1>5 DEF CoreAt
<1>7. AtCore'
    BY <1>1, <1>2, <1>6 DEF AtCore
<1>8. AtListed'
    BY <1>7, ListedAfter DEF AtListed
<1> QED BY <1>1, <1>8 DEF AskInv

LEMMA KeptInOrder ==
    ASSUME NEW n \in Nat, NEW S
    PROVE  LET f == Keep([k \in 1 .. n |-> k], S)
           IN  /\ f \in Seq(1 .. n)
               /\ \A i, j \in DOMAIN f : i < j => f[i] < f[j]
<1> DEFINE s == [k \in 1 .. n |-> k]
           I == {i \in DOMAIN s : s[i] \in S}
           at == Ascending(I)
           f == Keep(s, S)
<1>1. s \in Seq(1 .. n) /\ DOMAIN s = 1 .. n /\ \A i \in 1 .. n : s[i] = i
    OBVIOUS
<1>2. f \in Seq(1 .. n)
    <2> HIDE DEF s
    <2> QED BY <1>1, KeepKeeps
<1>3. IsFiniteSet(1 .. n)
    BY UpTo
<1>4. I \in SUBSET (1 .. n)
    BY <1>1
<1>5. IsFiniteSet(I) /\ I \in SUBSET Int
    <2> HIDE DEF I
    <2>1. IsFiniteSet(I)
        BY <1>3, <1>4, FS_Subset
    <2>2. I \in SUBSET Int
        BY <1>4
    <2> QED BY <2>1, <2>2
<1>6. f = [k \in DOMAIN at |-> s[at[k]]]
    BY DEF Keep
<1>7. at = [i \in 1 .. Cardinality(I) |-> Nth(I, i)]
    BY DEF Ascending, Nth
<1> HIDE DEF f, at, I, s
<1>8. \A i \in 1 .. Cardinality(I) : Nth(I, i) \in 1 .. n
    BY <1>4, <1>5, NthMember
<1>9. DOMAIN f = 1 .. Cardinality(I) /\ \A i \in 1 .. Cardinality(I) : f[i] = Nth(I, i)
    BY <1>1, <1>6, <1>7, <1>8
<1>10. \A i, j \in 1 .. Cardinality(I) : i < j => Nth(I, i) < Nth(I, j)
    BY <1>5, NthMember
<1> QED BY <1>2, <1>9, <1>10 DEF f, s

(* clearCores leaves cores that it kept before, in their order; the new    *)
(* round assumes candidates false, and no literal of another core.         *)
LEMMA ClearedKeeps ==
    ASSUME Asked, NEW h, NEW ms, NEW n, Cached(h, {}, ms, n), NEW A \in SUBSET {-v : v \in problem.visible}
    PROVE  /\ Cached(Cleared(h), A, ms, n)
           /\ \A M : Tight(h.cores, M) => Tight(Cleared(h).cores, M)
<1> DEFINE stale == Stale(h.cores, h.removed)
           s == [k \in DOMAIN h.cores |-> k]
           S == DOMAIN h.cores \ stale
           fresh == Keep(s, S)
           new == [i \in DOMAIN fresh |-> h.cores[fresh[i]]]
           T == [core : SUBSET Int, aux : SUBSET Int]
<1>1. h.cores \in Seq(T) /\ Len(h.cores) \in Nat /\ DOMAIN h.cores = 1 .. Len(h.cores)
    BY DEF Cached
<1>2. Cleared(h) = [cores |-> new, next |-> 1, removed |-> {}]
    BY DEF Cleared
<1> HIDE DEF stale, S, T
<1>3. /\ fresh \in Seq(1 .. Len(h.cores))
      /\ \A i, j \in DOMAIN fresh : i < j => fresh[i] < fresh[j]
    BY <1>1, KeptInOrder
<1> HIDE DEF fresh
<1>4. \A i \in DOMAIN fresh : fresh[i] \in DOMAIN h.cores /\ h.cores[fresh[i]] \in T
    BY <1>1, <1>3
<1>5. new \in Seq(T) /\ DOMAIN new = DOMAIN fresh /\ \A i \in DOMAIN fresh : new[i] = h.cores[fresh[i]]
    <2>1. Len(fresh) \in Nat /\ DOMAIN fresh = 1 .. Len(fresh)
        BY <1>3
    <2>2. new = [i \in 1 .. Len(fresh) |-> h.cores[fresh[i]]]
        BY <2>1
    <2> QED BY <1>4, <2>1, <2>2
<1> HIDE DEF new
<1>6. \A j \in DOMAIN new : Replaced(new[j], ms, n)
    BY <1>4, <1>5 DEF Cached
<1>7. \A i, j \in DOMAIN new : i < j =>
        \A a \in new[i].aux, b \in new[j].aux : Variable(a) < Variable(b)
    BY <1>3, <1>4, <1>5 DEF Cached
<1>8. \A j \in DOMAIN new : new[j].aux \cap A = {}
    <2> SUFFICES ASSUME NEW j \in DOMAIN new, NEW v \in problem.visible, -v \in new[j].aux PROVE FALSE
        OBVIOUS
    <2>1. Variable(-v) \in (problem.size + 1) .. n
        BY <1>6 DEF Replaced, Literals
    <2> QED BY <2>1, VisibleOnes
<1>9. PICK g : g = Cleared(h)
    OBVIOUS
<1>10. g.cores = new /\ g.next = 1 /\ g = [cores |-> g.cores, next |-> g.next, removed |-> g.removed]
    BY <1>2, <1>9
<1>11. Cached(g, A, ms, n)
    BY <1>5, <1>6, <1>7, <1>8, <1>10 DEF Cached, T
<1>12. \A M : Tight(h.cores, M) => Tight(new, M)
    BY <1>4, <1>5 DEF Tight
<1> QED BY <1>9, <1>10, <1>11, <1>12

LEMMA Opposites ==
    ASSUME NEW S \in SUBSET Int, IsFiniteSet(S)
    PROVE  IsFiniteSet(Opposite(S)) /\ Cardinality(Opposite(S)) = Cardinality(S)
<1> DEFINE f == [v \in S |-> -v]
           T == Opposite(S)
<1>1. f \in [S -> T] /\ f \in Surjection(S, T)
    BY DEF Surjection, Opposite
<1>2. \A v, w \in S : f[v] = f[w] => v = w
    <2>1. \A v \in S : v \in Int
        OBVIOUS
    <2> QED BY <2>1
<1> HIDE DEF f, T
<1>3. f \in Bijection(S, T)
    BY <1>1, <1>2 DEF Bijection, Injection, IsInjective
<1>4. IsFiniteSet(T)
    BY <1>1, FS_Surjection
<1>5. Cardinality(T) = Cardinality(S)
    BY <1>3, FS_Bijection DEF ExistsBijection
<1> QED BY <1>4, <1>5 DEF T

(* As many of the assumptions of a new round are false as candidates are   *)
(* true.                                                                   *)
LEMMA TrueCandidates ==
    ASSUME Asked, NEW c \in Seq(problem.visible), NEW M
    PROVE  Falsified(Negated(c), M) = Cardinality(M \cap ToSet(c))
<1>1. Negated(c) = {-v : v \in ToSet(c)} /\ ToSet(c) \subseteq problem.visible
    BY NegatedOnes
<1>2. {l \in Negated(c) : ~Holds(M, l)} = {-v : v \in M \cap ToSet(c)}
    BY <1>1, VisibleOnes
<1>3. IsFiniteSet(M \cap ToSet(c)) /\ M \cap ToSet(c) \in SUBSET Int
    <2>1. M \cap ToSet(c) \subseteq problem.visible
        BY <1>1
    <2>2. IsFiniteSet(M \cap ToSet(c))
        BY <2>1, VisibleOnes, FS_Subset
    <2> QED BY <2>1, <2>2, VisibleOnes
<1>4. Cardinality(Opposite(M \cap ToSet(c))) = Cardinality(M \cap ToSet(c))
    BY <1>3, Opposites
<1> QED BY <1>2, <1>4 DEF Falsified, Opposite

LEMMA RoundGoesOn ==
    ASSUME Asked, UNCHANGED task, Asking, problem.models # {},
           algorithm.name \in Relaxers \cup {"preferences"},
           UNCHANGED <<models, size>>, chunk' = <<>>, AllHold(zero'),
           NEW c, NEW a, NEW h, Listed(a, c, {}), Round(c, a, h),
           Len(c) = round => ToSet(c) \subseteq Consequences,
           algorithm.name = "preferences" => AtProblem,
           algorithm.name \in Relaxers =>
             /\ Extend(models, size) /\ Cached(h, {}, models, size) /\ h.next = 0
             /\ \A N \in problem.models : \E M \in models : Projection(M) = N /\ Tight(h.cores, M)
    PROVE  AskInv'
<1>1. c \in Seq(problem.visible) /\ Apart(a, c)
    BY DEF Listed, Relaxers
<1>2. CASE c = <<>> \/ Len(c) = round
    <2>1. candidates' = c /\ answers' = a \o c /\ pc' = "done"
        BY <1>2 DEF Round, Go, Call
    <2>2. ToSet(<<>>) = {}
        BY DEF ToSet
    <2>3. ToSet(c) \subseteq Consequences
        BY <1>2, <2>2
    <2> QED BY <1>1, <2>1, <2>3, EndsWell
<1>3. CASE c # <<>> /\ Len(c) # round /\ algorithm.name = "preferences"
    <2>1. candidates' = c /\ answers' = a /\ pc' = "preferences" /\ round' = Len(c)
        BY <1>3 DEF Round, Go, Call
    <2>2. AtProblem' /\ algorithm' = algorithm /\ problem' = problem /\ Asking'
        BY <1>3 DEF AtProblem, AllHold, task, Asking
    <2>3. AtListed'
        BY <1>3, <2>1, <2>2, ListedAfter DEF AtListed
    <2> QED BY <2>2, <2>3 DEF AskInv
<1>4. CASE c # <<>> /\ Len(c) # round /\ algorithm.name \in Relaxers
    <2> DEFINE R == ToSet(c)
               A == Negated(c)
    <2>1. /\ candidates' = c /\ answers' = a /\ assumptions' = A /\ pc' = "core" /\ round' = Len(c)
          /\ cache' = IF algorithm.cached THEN Cleared(h) ELSE h
        BY <1>4 DEF Round, Go, Call, Relaxers
    <2>2. A = {-v : v \in R} /\ IsFiniteSet(A) /\ R \subseteq problem.visible
        BY <1>1, NegatedOnes
    <2>3. Cardinality(R) = round'
        BY <1>1, <2>1, ListedOnce DEF Apart
    <2>4. \A v \in problem.visible : v \in Nat /\ Variable(-v) = v /\ v \in 1 .. problem.size
        BY VisibleOnes
    <2>5. Assumed(A, size)
        <3>1. problem.size <= size /\ size \in Nat /\ problem.size \in Nat
            BY <1>4, VisibleOnes DEF Extend
        <3> QED BY <2>2, <2>4, <3>1 DEF Assumed, Literals
    <2>6. Cached(cache', A, models, size) /\ \A M : Tight(h.cores, M) => Tight(cache'.cores, M)
        <3>1. CASE algorithm.cached
            <4>1. A \in SUBSET {-v : v \in problem.visible}
                BY <2>2
            <4> QED BY <1>4, <2>1, <3>1, <4>1, ClearedKeeps
        <3>2. CASE ~algorithm.cached
            BY <1>4, <2>1, <3>2 DEF Cached
        <3> QED BY <3>1, <3>2
    <2>7. \A M \in models : Falsified(A, M) = Cardinality(M \cap R) /\ Cardinality(M \cap R) \in Nat
        <3>1. \A M : IsFiniteSet(M \cap R)
            BY <2>2, VisibleOnes, FS_Subset
        <3> QED BY <1>1, <3>1, TrueCandidates, FS_CardinalityType
    <2>8. Balanced(R, 0, A, models, cache'.cores)
        <3>1. \A M \in models : Cardinality(M \cap R) <= 0 + Falsified(A, M)
            BY <2>7
        <3>2. ASSUME NEW N \in problem.models
              PROVE  \E M \in models : Projection(M) = N /\ Tight(cache'.cores, M) /\ 0 + Falsified(A, M) <= Cardinality(N \cap R)
            <4>1. PICK M \in models : Projection(M) = N /\ Tight(h.cores, M)
                BY <1>4
            <4>2. M \cap R = N \cap R
                BY <2>2, <2>4, <4>1 DEF Projection
            <4>3. Tight(cache'.cores, M)
                BY <2>6, <4>1
            <4> HIDE DEF A, R
            <4> QED BY <2>7, <4>1, <4>2, <4>3
        <3> QED BY <3>1, <3>2 DEF Balanced
    <2>9. CoreAt(c, round', A, models, size, cache')
        <3>1. R \in SUBSET problem.visible /\ 0 \in Nat /\ R \ ToSet(c) = {}
            BY <2>2
        <3> HIDE DEF A, R
        <3>2. ToSet(c) \subseteq R
            BY DEF R
        <3> QED BY <1>4, <2>3, <2>5, <2>6, <2>8, <3>1, <3>2 DEF CoreAt
    <2> QED BY <1>4, <2>1, <2>9, CoreAfter
<1> QED BY <1>2, <1>3, <1>4

(* A model with as few candidates as any: none has fewer.                  *)
Least(M) == \A N \in problem.models : N \cap ToSet(candidates) \subseteq M => M \cap ToSet(candidates) \subseteq N

LEMMA PreferredIsLeast ==
    ASSUME Asked, AtProblem, candidates \in Seq(problem.visible), NEW M \in models,
           Preferred(M, Negated(candidates))
    PROVE  Least(M)
<1> DEFINE C == Negated(candidates)
<1>1. C = {-v : v \in ToSet(candidates)} /\ ToSet(candidates) \subseteq problem.visible
    BY NegatedOnes
<1> SUFFICES ASSUME NEW N \in problem.models, N \cap ToSet(candidates) \subseteq M
             PROVE  M \cap ToSet(candidates) \subseteq N
    BY DEF Least
<1>2. \A v \in ToSet(candidates), K1 \in models : Holds(K1, -v) <=> v \notin K1
    BY <1>1, VisibleOnes
<1>3. TrueIn(M, C) \subseteq TrueIn(N, C)
    BY <1>1, <1>2 DEF TrueIn, AtProblem
<1>4. TrueIn(N, C) = TrueIn(M, C)
    BY <1>3 DEF Preferred, AtProblem
<1> QED BY <1>1, <1>2, <1>4 DEF TrueIn, AtProblem

LEMMA FindMinimalModelPreferencesKeeps ==
    ASSUME Asked, Asking, AskInv, FindMinimalModelPreferences
    PROVE  AskInv'
<1>1. pc = "preferences" /\ UNCHANGED task /\ UNCHANGED <<models, size>> /\ chunk' = chunk /\ zero' \in Known
    BY DEF FindMinimalModelPreferences
<1>2. /\ problem.models # {} /\ chunk = <<>> /\ Listed(answers, candidates, {})
      /\ AtProblem /\ algorithm.name = "preferences" /\ round = Len(candidates)
    BY <1>1 DEF AskInv, Begun, Asking, AtListed, AtQuery, AtImplicate, AtTested, AtEnd
<1>3. candidates \in Seq(problem.visible) /\ ToSet(candidates) \subseteq problem.visible
    BY <1>2, NegatedOnes DEF Listed
<1>4. AllHold(zero')
    BY <1>1, <1>2, <1>3, KnownNow
<1>5. PICK M \in models :
        /\ Preferred(M, Negated(candidates))
        /\ Round(Kept(candidates, M, zero'), With(answers, candidates, zero'), cache)
    BY DEF FindMinimalModelPreferences
<1>6. ToSet(candidates) \cap zero' \subseteq Consequences /\ Consequences \subseteq M
    BY <1>2, <1>3, <1>4, HeldOnes, ModelsHave, ModelsOfProblem
<1>7. PICK c, a : c = Kept(candidates, M, zero') /\ a = With(answers, candidates, zero')
    OBVIOUS
<1>8. /\ Listed(a, c, {}) /\ ToSet(c) = ToSet(candidates) \cap (M \ zero')
      /\ Len(c) = Len(candidates) => ToSet(candidates) \subseteq M \ zero'
    BY <1>2, <1>6, <1>7, Pruned
<1>9. Len(c) = round => ToSet(c) \subseteq Consequences
    BY <1>2, <1>3, <1>5, <1>8, PreferredIsLeast DEF Least, Consequences
<1> QED BY <1>1, <1>2, <1>4, <1>5, <1>7, <1>8, <1>9, RoundGoesOn DEF Relaxers

LEMMA CautiousReasoningSolveKeeps ==
    ASSUME Asked, Asking, AskInv, CautiousReasoningSolve
    PROVE  AskInv'
<1>1. pc = "cautious" /\ UNCHANGED task /\ UNCHANGED <<models, size, chunk>>
    BY DEF CautiousReasoningSolve
<1>2. Begun /\ algorithm.task = "cautious"
    BY <1>1 DEF AskInv, Begun, AtListed, AtQuery, AtImplicate, AtTested, AtEnd
<1>3. AtProblem /\ algorithm.name \in CautiousAlgorithms /\ chunk = <<>> /\ round = 0 /\ cache = NoCache
    BY <1>2, AlgorithmsAssumption DEF AtProblem, Begun, AllHold, Asked
<1>4. CASE models = {} /\ Go(<<>>, <<>>, {}, "incoherent")
    BY <1>1, <1>2, <1>4 DEF AskInv, Begun, Go, Call, Asking, task
<1>5. ASSUME NEW M \in models, NEW z \in Learned(problem.visible), zero' = z,
             NEW c, NEW a, c = Kept(FirstCandidates, M, z), a = With(<<>>, FirstCandidates, z),
             CASE algorithm.name = "ict-preferences" -> TestPreferring(c, a) /\ UNCHANGED <<round, cache>>
               [] algorithm.name = "pi" -> AllFalse(c, a) /\ UNCHANGED <<round, cache>>
               [] OTHER -> Round(c, a, cache) /\ UNCHANGED tested
      PROVE  AskInv'
    <2>1. AllHold(z) /\ Listed(a, c, {}) /\ problem.models # {}
        BY <1>3, <1>5, FirstModel DEF AtProblem
    <2>2. CASE algorithm.name = "ict-preferences"
        <3>1. TestPreferring(c, a)
            BY <1>5, <2>2
        <3> QED BY <1>1, <1>3, <1>5, <2>1, <2>2, <3>1, TestPreferringGoesOn
    <2>3. CASE algorithm.name = "pi"
        <3>1. AllFalse(c, a)
            BY <1>5, <2>3
        <3> QED BY <1>1, <1>3, <1>5, <2>1, <2>3, <3>1, AllFalseGoesOn
    <2>4. CASE algorithm.name \notin {"ict-preferences", "pi"}
        <3>1. Round(c, a, cache)
            BY <1>5, <2>4
        <3>2. algorithm.name \in Relaxers \cup {"preferences"}
            BY <1>3, <2>4 DEF CautiousAlgorithms
        <3>3. ToSet(<<>>) = {} /\ \A s \in Seq(problem.visible) : Len(s) = 0 => s = <<>>
            BY DEF ToSet
        <3>4. Len(c) = round => ToSet(c) \subseteq Consequences
            BY <1>3, <2>1, <3>3 DEF Listed
        <3>5. Cached(cache, {}, models, size) /\ cache.next = 0 /\ \A K1 : Tight(cache.cores, K1)
            BY <1>3 DEF NoCache, Cached, Tight
        <3>6. Extend(models, size) /\ NoneLost(models)
            BY <1>3, ModelsOfProblem
        <3> QED BY <1>1, <1>3, <1>5, <2>1, <3>1, <3>2, <3>4, <3>5, <3>6, RoundGoesOn DEF NoneLost
    <2> QED BY <2>2, <2>3, <2>4
<1> QED BY <1>4, <1>5 DEF CautiousReasoningSolve

-----------------------------------------------------------------------------
(* The cores.  Counting the literals that are false.                       *)
LEMMA Images ==
    ASSUME NEW I, IsFiniteSet(I), NEW S, NEW f \in [I -> S], \A i, j \in I : f[i] = f[j] => i = j
    PROVE  IsFiniteSet(ToSet(f)) /\ Cardinality(ToSet(f)) = Cardinality(I)
<1>1. f \in Surjection(I, ToSet(f))
    BY DEF Surjection, ToSet
<1>2. f \in Bijection(I, ToSet(f))
    <2>1. f \in [I -> ToSet(f)]
        BY DEF ToSet
    <2> QED BY <1>1, <2>1 DEF Bijection, Injection, IsInjective
<1>3. IsFiniteSet(ToSet(f))
    BY <1>1, FS_Surjection
<1>4. Cardinality(ToSet(f)) = Cardinality(I)
    BY <1>2, FS_Bijection DEF ExistsBijection
<1> QED BY <1>3, <1>4

LEMMA FalsifiedOnes ==
    ASSUME NEW A, IsFiniteSet(A), NEW M
    PROVE  /\ IsFiniteSet({l \in A : ~Holds(M, l)}) /\ Falsified(A, M) \in Nat
           /\ Falsified(A, M) = 0 <=> HoldsAll(M, A)
           /\ Cardinality(A) \in Nat /\ Cardinality(TrueIn(M, A)) \in Nat
           /\ Cardinality(TrueIn(M, A)) + Falsified(A, M) = Cardinality(A)
<1> DEFINE F == {l \in A : ~Holds(M, l)}
<1>1. F \subseteq A /\ TrueIn(M, A) = A \ F /\ Falsified(A, M) = Cardinality(F)
    BY DEF TrueIn, Falsified
<1>2. HoldsAll(M, A) <=> F = {}
    BY DEF HoldsAll
<1> HIDE DEF F
<1>3. IsFiniteSet(F) /\ IsFiniteSet(A \ F)
    BY <1>1, FS_Subset, FS_Difference
<1>4. Cardinality(F) \in Nat /\ Cardinality(A) \in Nat /\ Cardinality(A \ F) \in Nat
    BY <1>3, FS_CardinalityType
<1>5. Cardinality(F) = 0 <=> F = {}
    BY <1>3, FS_EmptySet
<1>6. Cardinality(A \ F) = Cardinality(A) - Cardinality(A \cap F)
    BY FS_Difference
<1>7. A \cap F = F
    BY <1>1
<1>8. /\ IsFiniteSet(F) /\ Falsified(A, M) \in Nat
      /\ Falsified(A, M) = 0 <=> HoldsAll(M, A)
      /\ Cardinality(A) \in Nat /\ Cardinality(TrueIn(M, A)) \in Nat
      /\ Cardinality(TrueIn(M, A)) + Falsified(A, M) = Cardinality(A)
    <2>1. Falsified(A, M) = 0 <=> HoldsAll(M, A)
        BY <1>1, <1>2, <1>5
    <2>2. Cardinality(A \ F) + Cardinality(F) = Cardinality(A)
        BY <1>4, <1>6, <1>7
    <2> QED BY <1>1, <1>3, <1>4, <2>1, <2>2
<1> QED BY <1>8 DEF F

LEMMA FalsifiedBoth ==
    ASSUME NEW A, IsFiniteSet(A), NEW B, IsFiniteSet(B), A \cap B = {}, NEW M
    PROVE  Falsified(A \cup B, M) = Falsified(A, M) + Falsified(B, M)
<1> DEFINE f == {l \in A : ~Holds(M, l)}
           g == {l \in B : ~Holds(M, l)}
<1>1. {l \in A \cup B : ~Holds(M, l)} = f \cup g /\ f \cap g = {}
    OBVIOUS
<1>2. IsFiniteSet(f) /\ IsFiniteSet(g)
    BY FalsifiedOnes
<1>3. Falsified(A \cup B, M) = Cardinality(f \cup g) /\ Falsified(A, M) = Cardinality(f) /\ Falsified(B, M) = Cardinality(g)
    BY <1>1 DEF Falsified
<1> HIDE DEF f, g
<1>4. Cardinality(f) \in Nat /\ Cardinality(g) \in Nat
    BY <1>2, FS_CardinalityType
<1>5. Cardinality(f \cup g) = Cardinality(f) + Cardinality(g) - Cardinality(f \cap g)
    BY <1>2, FS_Union
<1>6. Cardinality(f \cap g) = 0
    BY <1>1, FS_EmptySet
<1>7. Cardinality(f \cup g) = Cardinality(f) + Cardinality(g)
    BY <1>4, <1>5, <1>6
<1> QED BY <1>3, <1>7

(* The literals X are assumed in the place of the core C.                  *)
LEMMA Exchanged ==
    ASSUME NEW A, IsFiniteSet(A), NEW C \in SUBSET A, NEW X, IsFiniteSet(X), X \cap A = {}, NEW M
    PROVE  /\ IsFiniteSet((A \ C) \cup X)
           /\ Falsified(A, M) \in Nat /\ Falsified(C, M) \in Nat /\ Falsified(X, M) \in Nat
           /\ Falsified((A \ C) \cup X, M) \in Nat
           /\ Falsified((A \ C) \cup X, M) + Falsified(C, M) = Falsified(A, M) + Falsified(X, M)
<1>1. IsFiniteSet(C) /\ IsFiniteSet(A \ C)
    BY FS_Subset, FS_Difference
<1>2. IsFiniteSet((A \ C) \cup X)
    BY <1>1, FS_Union
<1>3. (A \ C) \cup C = A /\ (A \ C) \cap C = {} /\ (A \ C) \cap X = {}
    OBVIOUS
<1>4. Falsified((A \ C) \cup C, M) = Falsified(A \ C, M) + Falsified(C, M)
    BY <1>1, <1>3, FalsifiedBoth
<1>5. Falsified((A \ C) \cup X, M) = Falsified(A \ C, M) + Falsified(X, M)
    BY <1>1, <1>3, FalsifiedBoth
<1>6. /\ Falsified(A, M) \in Nat /\ Falsified(C, M) \in Nat /\ Falsified(X, M) \in Nat
      /\ Falsified((A \ C) \cup X, M) \in Nat /\ Falsified(A \ C, M) \in Nat
    BY <1>1, <1>2, FalsifiedOnes
<1>7. Falsified(A, M) = Falsified(A \ C, M) + Falsified(C, M)
    BY <1>3, <1>4
<1> QED BY <1>2, <1>5, <1>6, <1>7

LEMMA ExchangedCount ==
    ASSUME NEW A, IsFiniteSet(A), NEW C \in SUBSET A, NEW X, IsFiniteSet(X), X \cap A = {}, NEW M,
           NEW k \in Nat, NEW n \in Nat
    PROVE  /\ n <= k + Falsified(A, M) /\ Falsified(C, M) <= Falsified(X, M) + 1
                => n <= k + 1 + Falsified((A \ C) \cup X, M)
           /\ k + Falsified(A, M) <= n /\ Falsified(C, M) = Falsified(X, M) + 1
                => k + 1 + Falsified((A \ C) \cup X, M) <= n
<1>1. /\ Falsified(A, M) \in Nat /\ Falsified(C, M) \in Nat /\ Falsified(X, M) \in Nat
      /\ Falsified((A \ C) \cup X, M) \in Nat
      /\ Falsified((A \ C) \cup X, M) + Falsified(C, M) = Falsified(A, M) + Falsified(X, M)
    BY Exchanged
<1> QED BY <1>1

(* One core more, C of the assumptions A, for which the new X are assumed: *)
(* at least that many candidates are true as well.                         *)
Exchange(R, k, A, C, X, ms, cores) ==
    /\ IsFiniteSet(A) /\ C \in SUBSET A /\ IsFiniteSet(X) /\ X \cap A = {}
    /\ \A M \in ms : Cardinality(M \cap R) <= k + Falsified(A, M)
    /\ \A N \in problem.models : \E M \in ms :
         Projection(M) = N /\ Tight(cores, M) /\ k + Falsified(A, M) <= Cardinality(N \cap R)
           /\ Falsified(C, M) = Falsified(X, M) + 1
    /\ \A M \in ms : Falsified(C, M) <= Falsified(X, M) + 1

LEMMA BalancedOn ==
    ASSUME Asked, NEW R \in SUBSET problem.visible, NEW k \in Nat, NEW A, NEW C, NEW X, NEW ms, NEW cores,
           Exchange(R, k, A, C, X, ms, cores)
    PROVE  k + 1 \in Nat /\ Balanced(R, k + 1, (A \ C) \cup X, ms, cores)
<1>0. IsFiniteSet(A) /\ C \in SUBSET A /\ IsFiniteSet(X) /\ X \cap A = {}
    BY DEF Exchange
<1>1. \A M : Cardinality(M \cap R) \in Nat
    <2>1. \A M : IsFiniteSet(M \cap R)
        BY VisibleOnes, FS_Subset
    <2> QED BY <2>1, FS_CardinalityType
<1>2. ASSUME NEW M \in ms
      PROVE  Cardinality(M \cap R) <= k + 1 + Falsified((A \ C) \cup X, M)
    <2>1. Cardinality(M \cap R) <= k + Falsified(A, M) /\ Falsified(C, M) <= Falsified(X, M) + 1
        BY DEF Exchange
    <2>2. PICK n \in Nat : n = Cardinality(M \cap R)
        BY <1>1
    <2> QED BY <1>0, <2>1, <2>2, ExchangedCount
<1>3. ASSUME NEW N \in problem.models
      PROVE  \E M \in ms : Projection(M) = N /\ Tight(cores, M)
                            /\ k + 1 + Falsified((A \ C) \cup X, M) <= Cardinality(N \cap R)
    <2>1. PICK M \in ms :
            /\ Projection(M) = N /\ Tight(cores, M) /\ k + Falsified(A, M) <= Cardinality(N \cap R)
            /\ Falsified(C, M) = Falsified(X, M) + 1
        BY DEF Exchange
    <2>2. PICK n \in Nat : n = Cardinality(N \cap R)
        BY <1>1
    <2>3. k + 1 + Falsified((A \ C) \cup X, M) <= n
        BY <1>0, <2>1, <2>2, ExchangedCount
    <2> QED BY <2>1, <2>2, <2>3
<1>4. Balanced(R, k + 1, (A \ C) \cup X, ms, cores)
    <2> PICK n, B : n = k + 1 /\ B = (A \ C) \cup X
        OBVIOUS
    <2>1. \A M \in ms : Cardinality(M \cap R) <= n + Falsified(B, M)
        BY <1>2
    <2>2. \A N \in problem.models : \E M \in ms :
            Projection(M) = N /\ Tight(cores, M) /\ n + Falsified(B, M) <= Cardinality(N \cap R)
        BY <1>3
    <2>3. Balanced(R, n, B, ms, cores)
        BY <2>1, <2>2 DEF Balanced
    <2> QED BY <2>3
<1> QED BY <1>4

LEMMA AtCoreOnes ==
    ASSUME Asked, Asking, AskInv, pc = "core"
    PROVE  /\ problem.models # {} /\ chunk = <<>> /\ Listed(answers, candidates, {}) /\ AtCore
           /\ algorithm.name \in Relaxers /\ algorithm.name # "pi" /\ algorithm.name # "static"
           /\ candidates \in Seq(problem.visible) /\ ToSet(candidates) \subseteq problem.visible
           /\ Extend(models, size) /\ NoneLost(models) /\ AllHold(zero)
           /\ \A z \in Known : AllHold(z)
<1>1. problem.models # {} /\ chunk = <<>> /\ Listed(answers, candidates, {}) /\ AtCore
    BY DEF AskInv, Begun, Asking, AtListed, AtQuery, AtImplicate, AtTested, AtEnd
<1>2. algorithm.name \in Relaxers /\ algorithm.name # "pi" /\ algorithm.name # "static"
    BY <1>1 DEF AtCore, Relaxers
<1>3. candidates \in Seq(problem.visible) /\ ToSet(candidates) \subseteq problem.visible
    BY <1>1, NegatedOnes DEF Listed
<1>4. Extend(models, size) /\ NoneLost(models) /\ AllHold(zero)
    BY <1>1 DEF AtCore, CoreAt, Balanced, NoneLost
<1>5. ToSet(chunk) = {}
    BY <1>1 DEF ToSet
<1>6. \A z \in Known : AllHold(z)
    BY <1>3, <1>4, <1>5, KnownHold DEF Known
<1> QED BY <1>1, <1>2, <1>3, <1>4, <1>6

LEMMA NextKnown ==
    ASSUME NextCore(cache) # 0, Len(cache.cores) \in Nat, DOMAIN cache.cores = 1 .. Len(cache.cores)
    PROVE  /\ NextCore(cache) \in DOMAIN cache.cores /\ NextCore(cache) >= cache.next /\ cache.next > 0
           /\ cache.cores[NextCore(cache)].core \subseteq assumptions
<1> DEFINE found == {k \in DOMAIN cache.cores : k >= cache.next /\ cache.next > 0 /\ cache.cores[k].core \subseteq assumptions}
<1>1. found \in SUBSET (1 .. Len(cache.cores))
    OBVIOUS
<1>2. NextCore(cache) = Min(IF found = {} THEN {0} ELSE found)
    BY DEF NextCore
<1>3. IsFiniteSet(1 .. Len(cache.cores))
    BY UpTo
<1> HIDE DEF found
<1>4. CASE found = {}
    <2> PICK e \in Int : e = 0
        OBVIOUS
    <2>1. Min({e, e}) \in {e, e}
        BY LeastOf
    <2>2. {e, e} = {0}
        OBVIOUS
    <2> QED BY <1>2, <1>4, <2>1, <2>2
<1>5. CASE found # {}
    <2>1. IsFiniteSet(found)
        BY <1>1, <1>3, FS_Subset
    <2>2. found \in SUBSET Int
        BY <1>1
    <2>3. NextCore(cache) \in found
        BY <1>2, <1>5, <2>1, <2>2, Extremes
    <2> QED BY <2>3 DEF found
<1> QED BY <1>4, <1>5

LEMMA KnownCoreKeeps ==
    ASSUME Asked, Asking, AskInv, KnownCore
    PROVE  AskInv'
<1> DEFINE k == NextCore(cache)
           C == cache.cores[k].core
           X == cache.cores[k].aux
           A == (assumptions \ C) \cup X
<1>1. pc = "core" /\ UNCHANGED <<problem, algorithm, models, size, zero, pc, candidates, answers, chunk, round>>
    BY DEF KnownCore, solver, task
<1>2. cache' = [cache EXCEPT !.next = k] /\ assumptions' = A /\ k # 0
    BY DEF KnownCore
<1>3. /\ problem.models # {} /\ chunk = <<>> /\ Listed(answers, candidates, {}) /\ AtCore
      /\ algorithm.name \in Relaxers /\ AllHold(zero)
    BY <1>1, AtCoreOnes
<1>4. /\ Extend(models, size) /\ Assumed(assumptions, size) /\ Cached(cache, assumptions, models, size)
      /\ size \in Nat /\ problem.size \in Nat /\ problem.size <= size
    BY <1>3, VisibleOnes DEF AtCore, CoreAt, Extend
<1>5. Len(cache.cores) \in Nat /\ DOMAIN cache.cores = 1 .. Len(cache.cores) /\ cache.next \in Nat
    BY <1>4 DEF Cached
<1>6. k \in DOMAIN cache.cores /\ k >= cache.next /\ cache.next > 0 /\ C \subseteq assumptions
    BY <1>2, <1>5, NextKnown
<1>7. k \in Nat
    BY <1>5, <1>6
<1> HIDE DEF k
<1>8. Replaced(cache.cores[k], models, size) /\ X \cap assumptions = {}
    BY <1>4, <1>5, <1>6, <1>7 DEF Cached
<1>9. cache'.cores = cache.cores /\ cache'.next = k
      /\ cache' = [cores |-> cache'.cores, next |-> cache'.next, removed |-> cache'.removed]
    BY <1>2, <1>4 DEF Cached
<1>10. Assumed(A, size)
    <2>1. IsFiniteSet(A)
        BY <1>4, <1>6, <1>8, Exchanged DEF Assumed, Replaced
    <2>2. \A l \in X : l \in Literals(problem.size + 1, size)
        BY <1>8 DEF Replaced
    <2>3. \A l \in X : l \in Literals(1, size) /\ l \notin Literals(1, problem.size)
        BY <1>4, <2>2 DEF Literals, Variable
    <2> QED BY <1>4, <2>1, <2>3 DEF Assumed
<1>11. Cached(cache', A, models, size)
    <2>1. ASSUME NEW j \in DOMAIN cache.cores, j > k \/ (j = k /\ cache.cores[j].core \subseteq A)
          PROVE  cache.cores[j].aux \cap A = {}
        <3>1. CASE j > k
            <4>1. j > cache.next /\ j \in Nat
                BY <1>5, <1>6, <1>7, <3>1
            <4>2. cache.cores[j].aux \cap assumptions = {}
                BY <1>4, <1>6, <4>1 DEF Cached
            <4>3. \A a \in X, b \in cache.cores[j].aux : Variable(a) < Variable(b)
                BY <1>4, <1>6, <3>1, <1>7, <4>1 DEF Cached
            <4>4. \A a \in X : Variable(a) \in Int
                BY <1>8 DEF Replaced, Literals, Variable
            <4> QED BY <4>2, <4>3, <4>4
        <3>2. CASE j = k /\ C \subseteq A
            <4>1. PICK l \in C : l \in X
                BY <1>8, <3>2 DEF Replaced
            <4>2. Variable(l) < Variable(l) /\ Variable(l) \in Int
                BY <1>8, <4>1 DEF Replaced, Literals, Variable
            <4> QED BY <4>2
        <3> QED BY <2>1, <3>1, <3>2
    <2> QED BY <1>4, <1>7, <1>9, <2>1 DEF Cached
<1>12. PICK R \in SUBSET problem.visible, n \in Nat :
         /\ ToSet(candidates) \subseteq R /\ R \ ToSet(candidates) \subseteq Consequences /\ Cardinality(R) = round
         /\ Balanced(R, n, assumptions, models, cache.cores)
    BY <1>3 DEF AtCore, CoreAt
<1>13. IsFiniteSet(assumptions) /\ IsFiniteSet(X) /\ \A M \in models : Falsified(C, M) <= Falsified(X, M) + 1
    BY <1>4, <1>8 DEF Assumed, Replaced
<1>14. \A M : Tight(cache.cores, M) => Falsified(C, M) = Falsified(X, M) + 1
    BY <1>6 DEF Tight
<1> HIDE DEF C, X
<1>15. n + 1 \in Nat /\ Balanced(R, n + 1, A, models, cache.cores)
    <2>1. \A M \in models : Cardinality(M \cap R) <= n + Falsified(assumptions, M)
        BY <1>12 DEF Balanced
    <2>2. \A N \in problem.models : \E M \in models :
            Projection(M) = N /\ Tight(cache.cores, M) /\ n + Falsified(assumptions, M) <= Cardinality(N \cap R)
              /\ Falsified(C, M) = Falsified(X, M) + 1
        BY <1>12, <1>14 DEF Balanced
    <2>3. Exchange(R, n, assumptions, C, X, models, cache.cores)
        BY <1>6, <1>8, <1>13, <2>1, <2>2 DEF Exchange
    <2> QED BY <2>3, BalancedOn
<1> HIDE DEF A
<1>16. CoreAt(candidates, round, A, models, size, cache')
    BY <1>4, <1>9, <1>10, <1>11, <1>12, <1>15 DEF CoreAt
<1>17. /\ pc' = "core" /\ chunk' = <<>> /\ Listed(answers', candidates', {}) /\ AllHold(zero')
       /\ CoreAt(candidates', round', assumptions', models', size', cache')
    BY <1>1, <1>2, <1>3, <1>16
<1> QED BY <1>1, <1>3, <1>17, CoreAfter DEF task

(* What the relaxation r of a core C adds: of C no more literals are false *)
(* than one and those of the new literals, and in one of the extensions of *)
(* each model no fewer.                                                    *)
Relaxes(C, r) ==
    /\ r.size \in Nat /\ size <= r.size /\ r.models \in SUBSET SUBSET (1 .. r.size)
    /\ IsFiniteSet(r.assumed) /\ r.assumed \subseteq Literals(size + 1, r.size)
    /\ \A L \in r.models : L \cap (1 .. size) \in models /\ Falsified(C, L) <= Falsified(r.assumed, L) + 1
    /\ \A M \in models : \E L \in r.models :
         L \cap (1 .. size) = M /\ Falsified(C, L) = Falsified(r.assumed, L) + 1
Broken(C) ==
    /\ C \subseteq Literals(1, size) /\ IsFiniteSet(C) /\ Cardinality(C) > 1
    /\ \A M \in models : ~HoldsAll(M, C)

LEMMA SameBelow ==
    ASSUME NEW n \in Nat, NEW S \in SUBSET Literals(1, n), NEW L, NEW M, L \cap (1 .. n) = M \cap (1 .. n)
    PROVE  Falsified(S, L) = Falsified(S, M) /\ TrueIn(L, S) = TrueIn(M, S) /\ (HoldsAll(L, S) <=> HoldsAll(M, S))
<1>1. \A l \in S : Holds(L, l) <=> Holds(M, l)
    BY DEF Holds, Literals, Variable
<1>2. {l \in S : ~Holds(L, l)} = {l \in S : ~Holds(M, l)}
    BY <1>1
<1> QED BY <1>1, <1>2 DEF Falsified, TrueIn, HoldsAll

LEMMA NewOnes ==
    ASSUME NEW S \in SUBSET Nat, IsFiniteSet(S), 0 \notin S, NEW M
    PROVE  /\ IsFiniteSet(Opposite(S)) /\ Falsified(Opposite(S), M) = Cardinality(S \cap M)
           /\ Falsified(S, M) = Cardinality(S \ M)
<1>1. \A v \in S : v \in Int /\ (Holds(M, v) <=> v \in M) /\ (Holds(M, -v) <=> v \notin M)
    BY DEF Holds
<1>2. IsFiniteSet(S \cap M)
    BY FS_Subset
<1>3. S \in SUBSET Int /\ S \cap M \in SUBSET Int
    BY <1>1
<1>4. {l \in Opposite(S) : ~Holds(M, l)} = Opposite(S \cap M)
    BY <1>1 DEF Opposite
<1>5. {l \in S : ~Holds(M, l)} = S \ M
    BY <1>1
<1>6. Cardinality(Opposite(S \cap M)) = Cardinality(S \cap M)
    BY <1>2, <1>3, Opposites
<1>7. IsFiniteSet(Opposite(S))
    BY <1>3, Opposites
<1> QED BY <1>4, <1>5, <1>6, <1>7 DEF Falsified

LEMMA NextVariables ==
    ASSUME NEW s \in Nat, NEW n \in Nat, NEW f \in Nat, f <= n
    PROVE  /\ (s + 1) .. (s + n) \in SUBSET Nat /\ 0 \notin (s + 1) .. (s + n)
           /\ IsFiniteSet((s + 1) .. (s + n)) /\ Cardinality((s + 1) .. (s + n)) = n
           /\ (s + 1) .. (s + f) \subseteq (s + 1) .. (s + n)
           /\ ((s + 1) .. (s + n)) \ ((s + f + 1) .. (s + n)) = (s + 1) .. (s + f)
           /\ IsFiniteSet((s + 1) .. (s + f)) /\ Cardinality((s + 1) .. (s + f)) = f
<1>1. ASSUME NEW m \in Nat
      PROVE  IsFiniteSet((s + 1) .. (s + m)) /\ Cardinality((s + 1) .. (s + m)) = m
    BY FS_Interval
<1>2. (s + 1) .. (s + n) \in SUBSET Nat /\ 0 \notin (s + 1) .. (s + n)
    OBVIOUS
<1>3. (s + 1) .. (s + f) \subseteq (s + 1) .. (s + n)
    OBVIOUS
<1>4. ((s + 1) .. (s + n)) \ ((s + f + 1) .. (s + n)) = (s + 1) .. (s + f)
    OBVIOUS
<1> QED BY <1>1, <1>2, <1>3, <1>4

(* New variables with the old ones.                                        *)
LEMMA AddedVariables ==
    ASSUME NEW s \in Nat, NEW t \in Nat, s <= t
    PROVE  /\ 1 .. s \subseteq 1 .. t /\ (s + 1) .. t \subseteq 1 .. t
           /\ (1 .. s) \cap ((s + 1) .. t) = {}
<1>1. \A v : v \in 1 .. s => v \in 1 .. t /\ ~(v \in (s + 1) .. t)
    OBVIOUS
<1>2. \A v : v \in (s + 1) .. t => v \in 1 .. t
    OBVIOUS
<1> QED BY <1>1, <1>2

LEMMA BrokenOnes ==
    ASSUME Asked, Extend(models, size), NEW C, Broken(C)
    PROVE  /\ size \in Nat /\ models \in SUBSET SUBSET (1 .. size)
           /\ Cardinality(C) \in Nat /\ Cardinality(C) > 1 /\ IsFiniteSet(C) /\ C \in SUBSET Literals(1, size)
           /\ \A M : /\ Falsified(C, M) \in Nat /\ Cardinality(TrueIn(M, C)) \in Nat
                     /\ Cardinality(TrueIn(M, C)) + Falsified(C, M) = Cardinality(C)
           /\ \A M \in models : Falsified(C, M) \in 1 .. Cardinality(C)
<1>1. size \in Nat /\ models \in SUBSET SUBSET (1 .. size)
    BY DEF Extend
<1>2. Cardinality(C) \in Nat /\ Cardinality(C) > 1 /\ IsFiniteSet(C) /\ C \in SUBSET Literals(1, size)
    BY FS_CardinalityType DEF Broken
<1>3. \A M : /\ Falsified(C, M) \in Nat /\ Cardinality(TrueIn(M, C)) \in Nat
             /\ Cardinality(TrueIn(M, C)) + Falsified(C, M) = Cardinality(C)
             /\ (Falsified(C, M) = 0 => HoldsAll(M, C))
    BY <1>2, FalsifiedOnes
<1>4. \A M \in models : Falsified(C, M) \in 1 .. Cardinality(C)
    <2> TAKE M \in models
    <2>1. Falsified(C, M) # 0
        BY <1>3 DEF Broken
    <2> QED BY <1>2, <1>3, <2>1
<1> QED BY <1>1, <1>2, <1>3, <1>4

LEMMA AtMostOneRelaxes ==
    ASSUME Asked, Extend(models, size), NEW C, Broken(C)
    PROVE  Relaxes(C, AtMostOne(C))
<1> DEFINE n == Cardinality(C)
           t == size + n - 1
           new == (size + 1) .. t
           ok(L) == /\ \A v \in new \cap L : v - 1 \in new => v - 1 \in L
                    /\ Cardinality(TrueIn(L, C)) + Cardinality(new \cap L) >= n - 1
           ms == {L \in Extended(n - 1) : ok(L)}
<1>1. /\ size \in Nat /\ models \in SUBSET SUBSET (1 .. size) /\ n \in Nat /\ n > 1
      /\ C \in SUBSET Literals(1, size)
      /\ \A M : /\ Falsified(C, M) \in Nat /\ Cardinality(TrueIn(M, C)) \in Nat
                /\ Cardinality(TrueIn(M, C)) + Falsified(C, M) = n
      /\ \A M \in models : Falsified(C, M) \in 1 .. n
    BY BrokenOnes
<1> HIDE DEF n
<1>2. NewVariables(n - 1) = new /\ t \in Nat /\ size <= t /\ t = size + (n - 1) /\ n - 1 \in Nat
    BY <1>1 DEF NewVariables
<1>0. 1 .. size \subseteq 1 .. t /\ new \subseteq 1 .. t /\ (1 .. size) \cap new = {}
    BY <1>1, <1>2, AddedVariables
<1>3. AtMostOne(C) = [size |-> t, assumed |-> Opposite(new), models |-> ms]
    BY <1>2 DEF AtMostOne, n
<1>4. /\ new \in SUBSET Nat /\ IsFiniteSet(new) /\ 0 \notin new
      /\ \A f \in Nat : f <= n - 1 =>
           /\ (size + 1) .. (size + f) \subseteq new
           /\ IsFiniteSet((size + 1) .. (size + f)) /\ Cardinality((size + 1) .. (size + f)) = f
    BY <1>1, <1>2, NextVariables
<1>5. IsFiniteSet(Opposite(new)) /\ \A L : Falsified(Opposite(new), L) = Cardinality(new \cap L)
    BY <1>4, NewOnes
<1>6. \A L : L \in Extended(n - 1) <=> \E M \in models, N \in SUBSET new : L = M \cup N
    <2>1. \A L : L \in Extended(n - 1) <=> \E M \in models, N \in SUBSET NewVariables(n - 1) : L = M \cup N
        BY ExtendedOnes
    <2> QED BY <1>2, <2>1
<1>7. Opposite(new) \subseteq Literals(size + 1, t)
    BY <1>1, <1>2 DEF Opposite, Literals, Variable
<1> HIDE DEF ok, ms
<1>8. \A L : L \in ms <=> ok(L) /\ \E M \in models, N \in SUBSET new : L = M \cup N
    BY <1>6 DEF ms
<1>9. ASSUME NEW L \in ms
      PROVE  /\ L \in SUBSET (1 .. t) /\ L \cap (1 .. size) \in models
             /\ Falsified(C, L) <= Falsified(Opposite(new), L) + 1
    <2>1. PICK M \in models, N \in SUBSET new : L = M \cup N
        BY <1>8
    <2>2. L \in SUBSET (1 .. t) /\ L \cap (1 .. size) = M
        <3>1. M \in SUBSET (1 .. size)
            BY <1>1
        <3> HIDE DEF t, new
        <3>2. (M \cup N) \cap (1 .. size) = M
            BY <1>0, <3>1
        <3>3. M \cup N \in SUBSET (1 .. t)
            BY <1>0, <3>1
        <3> QED BY <2>1, <3>2, <3>3
    <2>3. IsFiniteSet(new \cap L)
        BY <1>4, FS_Subset
    <2>4. Cardinality(new \cap L) \in Nat
        BY <2>3, FS_CardinalityType
    <2>5. Cardinality(TrueIn(L, C)) + Cardinality(new \cap L) >= n - 1
        BY <1>8 DEF ok
    <2>6. Falsified(C, L) <= Cardinality(new \cap L) + 1
        BY <1>1, <2>4, <2>5
    <2> QED BY <1>5, <2>2, <2>6
<1>10. ASSUME NEW M \in models
       PROVE  \E L \in ms : L \cap (1 .. size) = M /\ Falsified(C, L) = Falsified(Opposite(new), L) + 1
    <2>1. PICK f \in Nat : f + 1 = Falsified(C, M) /\ f <= n - 1
        <3>1. Falsified(C, M) \in 1 .. n
            BY <1>1
        <3>2. Falsified(C, M) - 1 \in Nat /\ (Falsified(C, M) - 1) + 1 = Falsified(C, M) /\ Falsified(C, M) - 1 <= n - 1
            BY <1>1, <3>1
        <3> QED BY <3>2
    <2> DEFINE N == (size + 1) .. (size + f)
               L == M \cup N
    <2>2. N \in SUBSET new /\ Cardinality(N) = f
        BY <1>4, <2>1
    <2>3. M \in SUBSET (1 .. size)
        BY <1>1
    <2>4. /\ L \cap (1 .. size) = M /\ new \cap L = N
          /\ \A v : v \in new => (v \in L <=> v \in N)
        <3> HIDE DEF N, t, new
        <3> QED BY <1>0, <2>2, <2>3
    <2>5. \A v \in new \cap L : v - 1 \in new => v - 1 \in L
        <3>1. \A v \in N : v - 1 \in new => v - 1 \in N
            BY <1>1, <1>2, <2>1
        <3> HIDE DEF N, L
        <3> QED BY <2>4, <3>1
    <2>6. Falsified(C, L) = Falsified(C, M) /\ TrueIn(L, C) = TrueIn(M, C)
        <3>1. L \cap (1 .. size) = M \cap (1 .. size)
            BY <2>3, <2>4
        <3> HIDE DEF L
        <3> QED BY <1>1, <3>1, SameBelow
    <2> HIDE DEF N, L
    <2>7. Cardinality(TrueIn(L, C)) + Cardinality(new \cap L) >= n - 1
        <3>1. Cardinality(TrueIn(M, C)) + (f + 1) = n /\ Cardinality(TrueIn(M, C)) \in Nat
            BY <1>1, <2>1
        <3>2. Cardinality(TrueIn(L, C)) = Cardinality(TrueIn(M, C)) /\ Cardinality(new \cap L) = f
            BY <2>2, <2>4, <2>6
        <3> QED BY <1>1, <3>1, <3>2
    <2>8. L \in ms
        BY <1>8, <2>2, <2>5, <2>7 DEF ok, L
    <2>9. Falsified(C, L) = Falsified(Opposite(new), L) + 1
        BY <1>5, <2>1, <2>2, <2>4, <2>6
    <2> QED BY <2>4, <2>8, <2>9
<1> HIDE DEF t, new
<1>11. PICK r : r = AtMostOne(C)
    OBVIOUS
<1>12. r.size = t /\ r.assumed = Opposite(new) /\ r.models = ms
    BY <1>3, <1>11
<1>13. r.models \in SUBSET SUBSET (1 .. r.size)
    BY <1>9, <1>12
<1>14. Relaxes(C, r)
    BY <1>2, <1>5, <1>7, <1>9, <1>10, <1>12, <1>13 DEF Relaxes
<1> QED BY <1>11, <1>14

Joint(ms, new) == {M \cup N : M \in ms, N \in SUBSET new}
IsJoint(L, ms, new) == \E M \in ms, N \in SUBSET new : L = M \cup N

LEMMA JointOnes ==
    ASSUME NEW ms, NEW new
    PROVE  \A L : L \in Joint(ms, new) <=> IsJoint(L, ms, new)
BY DEF Joint, IsJoint

(* A core that is one chunk: n - 1 of its literals and the negated new     *)
(* variables hold.                                                         *)
Counted(L, ms, C, new, n) ==
    /\ IsJoint(L, ms, new)
    /\ \A v \in new \cap L : v + 1 \in new => v + 1 \in L
    /\ Cardinality(TrueIn(L, C)) + Cardinality(new \ L) >= n - 1

LEMMA WholeChunk ==
    ASSUME NEW S, NEW s \in Seq(S), NEW n \in Nat, Len(s) = n, n > 0,
           NEW r, r.left = s, r.carried = <<>>, r.assumed = <<>>, r.size \in Nat,
           NEW c, c = Chunk(r, n), NEW N1, N1 = (r.size + 1) .. (r.size + (n - 1))
    PROVE  /\ c.size = r.size + (n - 1) /\ ToSet(c.assumed) = N1
           /\ \A L : L \in c.models <=> Counted(L, r.models, ToSet(s), N1, n)
<1> DEFINE taken == IF Len(r.left) <= n - Len(r.carried) THEN Len(r.left) ELSE n - Len(r.carried)
           left == SubSeq(r.left, 1, Len(r.left) - taken)
           chunk1 == r.carried \o SubSeq(r.left, Len(r.left) - taken + 1, Len(r.left))
           last == left = <<>>
           bound == IF last THEN Len(chunk1) - 1 ELSE Len(chunk1)
           new == (r.size + 1) .. (r.size + bound)
           both == Joint(r.models, new)
           ms == {M \in both :
                    /\ \A v \in new \cap M : v + 1 \in new => v + 1 \in M
                    /\ Cardinality(TrueIn(M, ToSet(chunk1))) + Cardinality(new \ M) >= bound}
           assumed == r.assumed \o [i \in 1 .. (IF last THEN bound ELSE bound - 1) |->
                                      r.size + (IF last THEN i ELSE i + 1)]
<1>1. taken = n
    BY DEF taken
<1>2. left = <<>>
    <2>1. left = SubSeq(s, 1, 0)
        BY <1>1
    <2> QED BY <2>1
<1>3. chunk1 = s
    <2>1. Len(r.left) - taken + 1 = 1
        BY <1>1
    <2>2. SubSeq(s, 1, n) = s
        OBVIOUS
    <2>3. chunk1 = <<>> \o s
        BY <2>1, <2>2
    <2>4. <<>> \o s = s
        OBVIOUS
    <2> QED BY <2>3, <2>4
<1>4. bound = n - 1 /\ last
    BY <1>2, <1>3
<1>5. Chunk(r, n) = [left |-> left, carried |-> <<r.size + 1>>, size |-> r.size + bound, models |-> ms,
                     assumed |-> assumed]
    BY DEF Chunk, Joint
<1>6. ToSet(assumed) = new
    <2>1. [i \in 1 .. (n - 1) |-> r.size + i] \in Seq(Nat)
        OBVIOUS
    <2>2. assumed = <<>> \o [i \in 1 .. (n - 1) |-> r.size + i]
        BY <1>4
    <2>3. assumed = [i \in 1 .. (n - 1) |-> r.size + i]
        BY <2>1, <2>2
    <2> HIDE DEF assumed
    <2>4. DOMAIN assumed = 1 .. (n - 1) /\ \A i \in 1 .. (n - 1) : assumed[i] = r.size + i
        BY <2>3
    <2>5. \A v : v \in new <=> \E i \in 1 .. (n - 1) : v = r.size + i
        <3>1. \A v \in (r.size + 1) .. (r.size + (n - 1)) : v - r.size \in 1 .. (n - 1) /\ v = r.size + (v - r.size)
            OBVIOUS
        <3>2. \A i \in 1 .. (n - 1) : r.size + i \in (r.size + 1) .. (r.size + (n - 1))
            OBVIOUS
        <3> QED BY <1>4, <3>1, <3>2
    <2> HIDE DEF new
    <2> QED BY <2>4, <2>5 DEF ToSet
<1> HIDE DEF left, chunk1, last, assumed, bound, new
<1>7. \A L : L \in both <=> IsJoint(L, r.models, new)
    BY JointOnes
<1> HIDE DEF both
<1>10. \A L : L \in ms <=> Counted(L, r.models, ToSet(s), new, n)
    BY <1>3, <1>4, <1>7 DEF Counted
<1> HIDE DEF ms
<1>8. c.size = r.size + bound /\ c.models = ms /\ c.assumed = assumed
    BY <1>5
<1>9. new = N1
    BY <1>4 DEF new
<1> QED BY <1>4, <1>6, <1>8, <1>9, <1>10

LEMMA AtMostKRelaxes ==
    ASSUME Asked, Extend(models, size), NEW C, Broken(C)
    PROVE  Relaxes(C, AtMostK(C))
<1> DEFINE n == Cardinality(C)
           r == Chunk(Unchunked(SetToSeq(C)), n)
           t == r.size
           new == (size + 1) .. t
           ms == r.models
<1>1. /\ size \in Nat /\ models \in SUBSET SUBSET (1 .. size) /\ n \in Nat /\ n > 1
      /\ C \in SUBSET Literals(1, size)
      /\ \A M : /\ Falsified(C, M) \in Nat /\ Cardinality(TrueIn(M, C)) \in Nat
                /\ Cardinality(TrueIn(M, C)) + Falsified(C, M) = n
      /\ \A M \in models : Falsified(C, M) \in 1 .. n
    BY BrokenOnes
<1>2. SetToSeq(C) \in Seq(C) /\ Len(SetToSeq(C)) = n /\ ToSet(SetToSeq(C)) = C
    BY SetAsList DEF Broken
<1>3. /\ t = size + (n - 1) /\ ToSet(r.assumed) = new
      /\ \A L : L \in ms <=> Counted(L, models, C, new, n)
    <2>1. PICK u : u = Unchunked(SetToSeq(C))
        OBVIOUS
    <2>2. u.left = SetToSeq(C) /\ u.carried = <<>> /\ u.assumed = <<>> /\ u.size = size /\ u.models = models
        BY <2>1 DEF Unchunked
    <2> HIDE DEF n
    <2>3. PICK c, N1 : c = Chunk(u, n) /\ N1 = (u.size + 1) .. (u.size + (n - 1))
        OBVIOUS
    <2>4. /\ c.size = size + (n - 1) /\ ToSet(c.assumed) = N1
          /\ \A L : L \in c.models <=> Counted(L, models, C, N1, n)
        <3>1. n > 0
            BY <1>1
        <3>2. u.size \in Nat
            BY <1>1, <2>2
        <3> HIDE DEF r, new
        <3>3. /\ c.size = u.size + (n - 1) /\ ToSet(c.assumed) = N1
              /\ \A L : L \in c.models <=> Counted(L, u.models, ToSet(SetToSeq(C)), N1, n)
            BY <1>1, <1>2, <2>2, <2>3, <3>1, <3>2, WholeChunk
        <3> QED BY <1>2, <2>2, <3>3
    <2>5. c = r /\ N1 = new
        BY <2>1, <2>2, <2>3, <2>4
    <2> HIDE DEF r, new
    <2> QED BY <2>4, <2>5
<1> HIDE DEF n, r
<1>4. AtMostK(C) = [size |-> t, models |-> ms, assumed |-> new]
    BY <1>3 DEF AtMostK, r, n
<1> HIDE DEF t
<1>5. t \in Nat /\ size <= t /\ n - 1 \in Nat
    BY <1>1, <1>3
<1>6. 1 .. size \subseteq 1 .. t /\ new \subseteq 1 .. t /\ (1 .. size) \cap new = {}
    BY <1>1, <1>5, AddedVariables
<1>7. new \in SUBSET Nat /\ IsFiniteSet(new) /\ 0 \notin new
    <2>1. PICK m \in Nat : m = n - 1
        BY <1>5
    <2>2. m <= m
        BY <2>1
    <2>3. /\ (size + 1) .. (size + m) \in SUBSET Nat /\ 0 \notin (size + 1) .. (size + m)
          /\ IsFiniteSet((size + 1) .. (size + m))
        BY <1>1, <2>2, NextVariables
    <2> QED BY <1>3, <2>1, <2>3
<1>8. \A L : Falsified(new, L) = Cardinality(new \ L)
    BY <1>7, NewOnes
<1>9. new \subseteq Literals(size + 1, t)
    BY <1>1, <1>5 DEF Literals, Variable
<1> HIDE DEF ms
<1>12. ASSUME NEW L \in ms
      PROVE  /\ L \in SUBSET (1 .. t) /\ L \cap (1 .. size) \in models
             /\ Falsified(C, L) <= Falsified(new, L) + 1
    <2>1. PICK M \in models, N \in SUBSET new : L = M \cup N
        BY <1>3 DEF Counted, IsJoint
    <2>2. L \in SUBSET (1 .. t) /\ L \cap (1 .. size) = M
        <3>1. M \in SUBSET (1 .. size)
            BY <1>1
        <3> HIDE DEF new
        <3>2. (M \cup N) \cap (1 .. size) = M
            BY <1>6, <3>1
        <3>3. M \cup N \in SUBSET (1 .. t)
            BY <1>6, <3>1
        <3> QED BY <2>1, <3>2, <3>3
    <2>3. IsFiniteSet(new \ L)
        BY <1>7, FS_Difference
    <2>4. Cardinality(new \ L) \in Nat
        BY <2>3, FS_CardinalityType
    <2>5. Cardinality(TrueIn(L, C)) + Cardinality(new \ L) >= n - 1
        BY <1>3 DEF Counted, IsJoint
    <2>6. Falsified(C, L) <= Cardinality(new \ L) + 1
        BY <1>1, <2>4, <2>5
    <2> QED BY <1>8, <2>2, <2>6
<1>13. ASSUME NEW M \in models
       PROVE  \E L \in ms : L \cap (1 .. size) = M /\ Falsified(C, L) = Falsified(new, L) + 1
    <2>1. PICK f \in Nat : f + 1 = Falsified(C, M) /\ f <= n - 1
        <3>1. Falsified(C, M) \in 1 .. n
            BY <1>1
        <3>2. Falsified(C, M) - 1 \in Nat /\ (Falsified(C, M) - 1) + 1 = Falsified(C, M) /\ Falsified(C, M) - 1 <= n - 1
            BY <1>1, <3>1
        <3> QED BY <3>2
    <2> DEFINE N == (size + f + 1) .. (size + (n - 1))
               L == M \cup N
    <2>2. N \in SUBSET new /\ Cardinality(new \ N) = f
        <3>1. new \ N = (size + 1) .. (size + f) /\ Cardinality((size + 1) .. (size + f)) = f
            <4>1. PICK m \in Nat : m = n - 1
                BY <1>5
            <4>2. /\ ((size + 1) .. (size + m)) \ ((size + f + 1) .. (size + m)) = (size + 1) .. (size + f)
                  /\ Cardinality((size + 1) .. (size + f)) = f
                <5>1. f <= m /\ size \in Nat
                    BY <1>1, <2>1, <4>1
                <5> HIDE DEF N, L
                <5> QED BY <5>1, NextVariables
            <4> QED BY <1>3, <4>1, <4>2
        <3>2. N \subseteq new
            BY <1>1, <1>3, <2>1
        <3> HIDE DEF N, new
        <3> QED BY <3>1, <3>2
    <2>3. M \in SUBSET (1 .. size)
        BY <1>1
    <2>4. /\ L \cap (1 .. size) = M /\ new \ L = new \ N
          /\ \A v : v \in new => (v \in L <=> v \in N)
        <3> HIDE DEF N, new
        <3> QED BY <1>6, <2>2, <2>3
    <2>5. \A v \in new \cap L : v + 1 \in new => v + 1 \in L
        <3>1. \A v \in N : v + 1 \in new => v + 1 \in N
            BY <1>1, <1>3, <2>1
        <3> HIDE DEF N, L
        <3> QED BY <2>4, <3>1
    <2>6. Falsified(C, L) = Falsified(C, M) /\ TrueIn(L, C) = TrueIn(M, C)
        <3>1. L \cap (1 .. size) = M \cap (1 .. size)
            BY <2>3, <2>4
        <3> HIDE DEF L
        <3> QED BY <1>1, <3>1, SameBelow
    <2> HIDE DEF N, L
    <2>7. Cardinality(TrueIn(L, C)) + Cardinality(new \ L) >= n - 1
        <3>1. Cardinality(TrueIn(M, C)) + (f + 1) = n /\ Cardinality(TrueIn(M, C)) \in Nat
            BY <1>1, <2>1
        <3>2. Cardinality(TrueIn(L, C)) = Cardinality(TrueIn(M, C)) /\ Cardinality(new \ L) = f
            BY <2>2, <2>4, <2>6
        <3> QED BY <1>1, <3>1, <3>2
    <2>8. L \in ms
        <3>1. L = M \cup N
            BY DEF L
        <3>2. Counted(L, models, C, new, n)
            BY <2>2, <2>5, <2>7, <3>1 DEF Counted, IsJoint
        <3> QED BY <1>3, <3>2
    <2>9. Falsified(C, L) = Falsified(new, L) + 1
        BY <1>8, <2>1, <2>2, <2>4, <2>6
    <2> QED BY <2>4, <2>8, <2>9
<1> HIDE DEF new
<1>14. PICK q : q = AtMostK(C)
    OBVIOUS
<1>15. q.size = t /\ q.assumed = new /\ q.models = ms
    BY <1>4, <1>14
<1>16. q.models \in SUBSET SUBSET (1 .. q.size)
    BY <1>12, <1>15
<1>17. Relaxes(C, q)
    BY <1>5, <1>7, <1>9, <1>12, <1>13, <1>15, <1>16 DEF Relaxes
<1> QED BY <1>14, <1>17

(* The literals of a list that are false, and those of them that are not   *)
(* the first.                                                              *)
LaterFalse(s, M) == {k \in 2 .. Len(s) : ~Holds(M, s[k]) /\ \E j \in 1 .. k - 1 : ~Holds(M, s[j])}

LEMMA FalsePlaces ==
    ASSUME NEW C, NEW s \in Seq(C), IsInjective(s), ToSet(s) = C, NEW M, ~HoldsAll(M, C)
    PROVE  IsFiniteSet(LaterFalse(s, M)) /\ Falsified(C, M) = Cardinality(LaterFalse(s, M)) + 1
<1> DEFINE I == {k \in 1 .. Len(s) : ~Holds(M, s[k])}
<1>1. Len(s) \in Nat /\ DOMAIN s = 1 .. Len(s) /\ I \in SUBSET (1 .. Len(s)) /\ I \in SUBSET Int
    OBVIOUS
<1>2. IsFiniteSet(I)
    BY <1>1, UpTo, FS_Subset
<1>3. C = {s[k] : k \in 1 .. Len(s)}
    BY <1>1 DEF ToSet
<1>4. I # {}
    BY <1>3 DEF HoldsAll
<1>5. Falsified(C, M) = Cardinality(I)
    <2> DEFINE f == [k \in I |-> s[k]]
    <2>1. f \in [I -> C] /\ \A i, j \in I : f[i] = f[j] => i = j
        BY <1>1, <1>3 DEF IsInjective
    <2>2. {l \in C : ~Holds(M, l)} = ToSet(f)
        BY <1>1, <1>3 DEF ToSet
    <2> HIDE DEF f
    <2>3. Cardinality(ToSet(f)) = Cardinality(I)
        BY <1>2, <2>1, Images
    <2> QED BY <2>2, <2>3 DEF Falsified
<1>6. PICK m : m = Min(I)
    OBVIOUS
<1>7. m \in I /\ \A k \in I : m <= k
    BY <1>1, <1>2, <1>4, <1>6, Extremes
<1>8. IsFiniteSet(I \ {m}) /\ Cardinality(I \ {m}) = Cardinality(I) - 1 /\ Cardinality(I) \in Nat
    BY <1>2, <1>7, FS_RemoveElement, FS_CardinalityType
<1>9. I \ {m} = LaterFalse(s, M)
    <2>1. ASSUME NEW k \in I, k # m
          PROVE  k \in 2 .. Len(s) /\ ~Holds(M, s[k]) /\ \E j \in 1 .. k - 1 : ~Holds(M, s[j])
        <3>1. k \in 2 .. Len(s) /\ m \in 1 .. k - 1
            BY <1>1, <1>7, <2>1
        <3> QED BY <1>7, <3>1
    <2>2. ASSUME NEW k \in 2 .. Len(s), ~Holds(M, s[k]), NEW j \in 1 .. k - 1, ~Holds(M, s[j])
          PROVE  k \in I /\ k # m
        <3>1. k \in I /\ j \in I /\ j < k
            BY <1>1, <2>2
        <3> QED BY <1>1, <1>7, <3>1
    <2> QED BY <2>1, <2>2 DEF LaterFalse
<1> HIDE DEF I
<1> PICK J : J = I \ {m}
    OBVIOUS
<1>10. Cardinality(I) = Cardinality(J) + 1 /\ IsFiniteSet(J)
    BY <1>8
<1>11. J = LaterFalse(s, M)
    BY <1>9
<1> QED BY <1>5, <1>10, <1>11

LEMMA AtMostPmresRelaxes ==
    ASSUME Asked, Extend(models, size), NEW C, Broken(C)
    PROVE  Relaxes(C, AtMostPmres(C))
<1> DEFINE lits == SetToSeq(C)
           n == Len(lits)
           or(k) == size + 2 * k - 3
           and(k) == size + 2 * k - 2
           all(M, k) == \A j \in 1..k : Holds(M, lits[j])
           new(M) == {or(k) : k \in {j \in 2..n : Holds(M, lits[j]) \/ all(M, j - 1)}}
                     \cup {and(k) : k \in {j \in 2..(n - 1) : all(M, j)}}
           t == size + 2 * n - 3
           assumed == {or(k) : k \in 2 .. n}
           ms == {M \cup new(M) : M \in models}
<1>1. /\ size \in Nat /\ models \in SUBSET SUBSET (1 .. size) /\ IsFiniteSet(C)
      /\ C \in SUBSET Literals(1, size)
      /\ Cardinality(C) \in Nat /\ Cardinality(C) > 1
    BY BrokenOnes
<1>2. /\ lits \in Seq(C) /\ IsInjective(lits) /\ ToSet(lits) = C /\ n = Cardinality(C)
    BY <1>1, SetAsList
<1>3. n \in Nat /\ n > 1
    BY <1>1, <1>2
<1>4. AtMostPmres(C) = [size |-> t, assumed |-> assumed, models |-> ms]
    BY DEF AtMostPmres
<1> HIDE DEF lits, n
<1>5. t \in Nat /\ size <= t
    BY <1>1, <1>3
<1>6. \A k \in 2 .. n : or(k) \in (size + 1) .. t /\ or(k) > 0 /\ or(k) \in Int
    BY <1>1, <1>3
<1>7. \A k \in 2 .. n - 1 : and(k) \in (size + 1) .. t
    BY <1>1, <1>3
<1>8. /\ \A j, k \in 2 .. n : or(j) = or(k) => j = k
      /\ \A j \in 2 .. n, k \in 2 .. n - 1 : or(j) # and(k)
    BY <1>1, <1>3
<1>9. IsFiniteSet(2 .. n)
    BY <1>3, FS_Interval
<1>10. IsFiniteSet(assumed) /\ assumed \subseteq Literals(size + 1, t)
    <2> DEFINE f == [k \in 2 .. n |-> or(k)]
    <2>1. f \in [2 .. n -> Int] /\ \A i, j \in 2 .. n : f[i] = f[j] => i = j
        BY <1>6, <1>8
    <2>2. assumed = ToSet(f)
        BY DEF ToSet
    <2> HIDE DEF f
    <2>3. IsFiniteSet(ToSet(f))
        BY <1>9, <2>1, Images
    <2>4. assumed \subseteq Literals(size + 1, t)
        BY <1>6 DEF Literals, Variable
    <2> QED BY <2>2, <2>3, <2>4
<1>11. 1 .. size \subseteq 1 .. t /\ (size + 1) .. t \subseteq 1 .. t /\ (1 .. size) \cap ((size + 1) .. t) = {}
    BY <1>1, <1>5, AddedVariables
<1>12. ASSUME NEW M \in models
       PROVE  /\ M \cup new(M) \in SUBSET (1 .. t) /\ (M \cup new(M)) \cap (1 .. size) = M
              /\ Falsified(C, M \cup new(M)) = Falsified(assumed, M \cup new(M)) + 1
    <2> DEFINE L == M \cup new(M)
               J == LaterFalse(lits, M)
    <2>1. new(M) \subseteq (size + 1) .. t /\ M \in SUBSET (1 .. size)
        BY <1>1, <1>6, <1>7
    <2>2. L \in SUBSET (1 .. t) /\ L \cap (1 .. size) = M
        <3> PICK N : N = new(M)
            OBVIOUS
        <3> QED BY <1>11, <2>1
    <2>3. ~HoldsAll(M, C)
        BY DEF Broken
    <2>4. /\ IsFiniteSet(J) /\ Falsified(C, M) = Cardinality(J) + 1
          /\ J = {k \in 2 .. n : ~Holds(M, lits[k]) /\ \E j \in 1 .. k - 1 : ~Holds(M, lits[j])}
        BY <1>2, <2>3, FalsePlaces DEF n, LaterFalse
    <2>5. Falsified(C, L) = Falsified(C, M)
        <3>1. L \cap (1 .. size) = M \cap (1 .. size)
            BY <2>1, <2>2
        <3> HIDE DEF L
        <3> QED BY <1>1, <3>1, SameBelow
    <2>6. \A k \in 2 .. n : or(k) \in L <=> k \notin J
        <3> TAKE k \in 2 .. n
        <3>1. or(k) \notin M
            BY <1>6, <1>11, <2>1
        <3>2. or(k) \in new(M) <=> Holds(M, lits[k]) \/ all(M, k - 1)
            BY <1>8
        <3>3. k \in J <=> ~Holds(M, lits[k]) /\ ~all(M, k - 1)
            BY <2>4
        <3> QED BY <3>1, <3>2, <3>3
    <2>7. Falsified(assumed, L) = Cardinality(J)
        <3> DEFINE f == [k \in J |-> or(k)]
        <3>1. J \subseteq 2 .. n
            BY <2>4
        <3> HIDE DEF J, L
        <3>2. f \in [J -> Int] /\ \A i, j \in J : f[i] = f[j] => i = j
            BY <1>6, <1>8, <3>1
        <3>3. {l \in assumed : ~Holds(L, l)} = ToSet(f)
            <4>1. \A k \in 2 .. n : Holds(L, or(k)) <=> k \notin J
                BY <1>6, <2>6 DEF Holds
            <4> QED BY <3>1, <4>1 DEF ToSet
        <3> HIDE DEF f
        <3>4. Cardinality(ToSet(f)) = Cardinality(J)
            BY <2>4, <3>2, Images
        <3> QED BY <3>3, <3>4 DEF Falsified
    <2> QED BY <2>2, <2>4, <2>5, <2>7
<1>13. \A L : L \in ms <=> \E M \in models : L = M \cup new(M)
    OBVIOUS
<1> HIDE DEF t, assumed, ms, new
<1>14. PICK r : r = AtMostPmres(C)
    OBVIOUS
<1>15. r.size = t /\ r.assumed = assumed /\ r.models = ms
    BY <1>4, <1>14
<1>16. r.models \in SUBSET SUBSET (1 .. r.size)
    BY <1>12, <1>13, <1>15
<1>17. \A L \in r.models : L \cap (1 .. size) \in models /\ Falsified(C, L) = Falsified(r.assumed, L) + 1
    <2> SUFFICES ASSUME NEW L \in ms
                 PROVE  L \cap (1 .. size) \in models /\ Falsified(C, L) = Falsified(assumed, L) + 1
        BY <1>15
    <2> PICK M \in models : L = M \cup new(M)
        BY <1>13
    <2> QED BY <1>12
<1>18. \A L \in r.models : Falsified(C, L) <= Falsified(r.assumed, L) + 1
    <2> TAKE L \in r.models
    <2>1. Falsified(assumed, L) \in Nat
        BY <1>10, FalsifiedOnes
    <2>2. Falsified(C, L) = Falsified(assumed, L) + 1
        BY <1>15, <1>17
    <2> QED BY <1>15, <2>1, <2>2
<1>19. \A M \in models : \E L \in r.models : L \cap (1 .. size) = M /\ Falsified(C, L) = Falsified(r.assumed, L) + 1
    BY <1>12, <1>13, <1>15
<1>20. Relaxes(C, r)
    BY <1>5, <1>10, <1>15, <1>16, <1>17, <1>18, <1>19 DEF Relaxes
<1> QED BY <1>14, <1>20

LEMMA RelaxingRelaxes ==
    ASSUME Asked, Extend(models, size), NEW C, Broken(C), algorithm.name \in Relaxers
    PROVE  Relaxes(C, Relaxing(C))
<1>1. CASE algorithm.name = "one"
    BY <1>1, AtMostOneRelaxes DEF Relaxing
<1>2. CASE algorithm.name = "kdyn"
    BY <1>2, AtMostKRelaxes DEF Relaxing
<1>3. CASE algorithm.name = "pmres"
    BY <1>3, AtMostPmresRelaxes DEF Relaxing
<1> QED BY <1>1, <1>2, <1>3 DEF Relaxers

-----------------------------------------------------------------------------
(* A model of the assumptions makes as few candidates true as any.         *)
LEMMA CoreIsLeast ==
    ASSUME Asked, Asking, AskInv, pc = "core", NEW M \in models, HoldsAll(M, assumptions)
    PROVE  Least(M)
<1>1. AtCore /\ Extend(models, size)
    BY AtCoreOnes
<1>2. PICK R \in SUBSET problem.visible, k \in Nat :
        /\ ToSet(candidates) \subseteq R /\ R \ ToSet(candidates) \subseteq Consequences
        /\ Balanced(R, k, assumptions, models, cache.cores)
    BY <1>1 DEF AtCore, CoreAt
<1>3. IsFiniteSet(assumptions) /\ Consequences \subseteq M
    BY <1>1, ModelsHave DEF AtCore, CoreAt, Assumed
<1>4. Falsified(assumptions, M) = 0 /\ \A L : Falsified(assumptions, L) \in Nat
    BY <1>3, FalsifiedOnes
<1>5. \A L : IsFiniteSet(L \cap R) /\ Cardinality(L \cap R) \in Nat
    <2>1. \A L : IsFiniteSet(L \cap R)
        BY VisibleOnes, FS_Subset
    <2> QED BY <2>1, FS_CardinalityType
<1> SUFFICES ASSUME NEW N \in problem.models, N \cap ToSet(candidates) \subseteq M
             PROVE  M \cap ToSet(candidates) \subseteq N
    BY DEF Least
<1>6. N \cap R \subseteq M \cap R
    BY <1>2, <1>3
<1>7. Cardinality(M \cap R) <= k
    <2>1. Cardinality(M \cap R) <= k + Falsified(assumptions, M)
        BY <1>2 DEF Balanced
    <2> QED BY <1>4, <2>1
<1>8. k <= Cardinality(N \cap R)
    <2>1. PICK L \in models : k + Falsified(assumptions, L) <= Cardinality(N \cap R)
        BY <1>2 DEF Balanced
    <2>2. Falsified(assumptions, L) \in Nat /\ Cardinality(N \cap R) \in Nat
        BY <1>4, <1>5
    <2> QED BY <2>1, <2>2
<1>9. N \cap R = M \cap R
    <2> PICK S, T : S = M \cap R /\ T = N \cap R
        OBVIOUS
    <2>1. Cardinality(T) <= Cardinality(S) /\ (Cardinality(S) = Cardinality(T) => S = T)
        BY <1>5, <1>6, FS_Subset
    <2>2. Cardinality(S) \in Nat /\ Cardinality(T) \in Nat /\ Cardinality(S) <= k /\ k <= Cardinality(T)
        BY <1>5, <1>7, <1>8
    <2>3. Cardinality(S) = Cardinality(T)
        BY <2>1, <2>2
    <2> QED BY <2>1, <2>3
<1> QED BY <1>2, <1>9

LEMMA CachedAside ==
    ASSUME NEW h, NEW A, NEW ms, NEW n, Cached(h, A, ms, n),
           NEW g, g = [cores |-> h.cores, next |-> 0, removed |-> g.removed], NEW B
    PROVE  Cached(g, B, ms, n)
<1>1. g.cores = h.cores /\ g.next = 0 /\ g = [cores |-> g.cores, next |-> g.next, removed |-> g.removed]
    BY DEF Cached
<1> QED BY <1>1 DEF Cached

LEMMA CoreModelKeeps ==
    ASSUME Asked, Asking, AskInv, pc = "core", UNCHANGED task, UNCHANGED <<models, size, chunk>>,
           NEW z \in Known, zero' = z, NEW M \in models, FoundModel(assumptions, M),
           Round(Kept(candidates, M, z), With(answers, candidates, z), Heard([cache EXCEPT !.next = 0], M))
    PROVE  AskInv'
<1>1. /\ problem.models # {} /\ chunk = <<>> /\ Listed(answers, candidates, {}) /\ AtCore
      /\ algorithm.name \in Relaxers /\ algorithm.name # "pi" /\ algorithm.name # "preferences"
      /\ candidates \in Seq(problem.visible) /\ ToSet(candidates) \subseteq problem.visible
      /\ Extend(models, size) /\ AllHold(z)
    BY AtCoreOnes DEF Relaxers
<1>2. PICK c, a, h : /\ c = Kept(candidates, M, z) /\ a = With(answers, candidates, z)
                     /\ h = Heard([cache EXCEPT !.next = 0], M)
    OBVIOUS
<1>3. Consequences \subseteq M /\ ToSet(candidates) \cap z \subseteq Consequences
    BY <1>1, ModelsHave, HeldOnes
<1>4. Listed(a, c, {}) /\ ToSet(c) = ToSet(candidates) \cap (M \ z)
    BY <1>1, <1>2, <1>3, Pruned
<1>5. Cached(cache, assumptions, models, size)
    BY <1>1 DEF AtCore, CoreAt
<1>6. h.cores = cache.cores /\ h.next = 0 /\ h = [cores |-> cache.cores, next |-> 0, removed |-> h.removed]
    BY <1>2, <1>5 DEF Heard, Cached
<1>7. Cached(h, {}, models, size)
    BY <1>5, <1>6, CachedAside
<1>8. \A N \in problem.models : \E L \in models : Projection(L) = N /\ Tight(h.cores, L)
    BY <1>1, <1>6 DEF AtCore, CoreAt, Balanced
<1>9. Len(c) = round => ToSet(c) \subseteq Consequences
    <2> SUFFICES ASSUME Len(c) = round PROVE ToSet(c) \subseteq Consequences
        OBVIOUS
    <2>1. PICK R \in SUBSET problem.visible : ToSet(candidates) \subseteq R /\ Cardinality(R) = round
        BY <1>1 DEF AtCore, CoreAt
    <2>2. c \in Seq(problem.visible) /\ IsInjective(c)
        BY <1>1, <1>4 DEF Listed, Apart
    <2>3. Cardinality(ToSet(c)) = Cardinality(R) /\ ToSet(c) \subseteq R /\ IsFiniteSet(R)
        BY <1>4, <2>1, <2>2, ListedOnce, VisibleOnes, FS_Subset
    <2>4. ToSet(c) = R
        BY <2>3, FS_Subset
    <2>5. ToSet(candidates) = ToSet(c) /\ ToSet(candidates) \subseteq M
        BY <1>4, <2>1, <2>4
    <2>6. Least(M)
        BY CoreIsLeast DEF FoundModel
    <2> QED BY <1>1, <2>5, <2>6 DEF Least, Consequences
<1> QED BY <1>1, <1>2, <1>4, <1>6, <1>7, <1>8, <1>9, RoundGoesOn

LEMMA OneFalsified ==
    ASSUME NEW l, NEW M, ~Holds(M, l)
    PROVE  IsFiniteSet({l}) /\ Falsified({l}, M) = 1 /\ IsFiniteSet({}) /\ Falsified({}, M) = 0
<1>1. {k \in {l} : ~Holds(M, k)} = {l} /\ {k \in {} : ~Holds(M, k)} = {}
    OBVIOUS
<1>2. IsFiniteSet({l}) /\ Cardinality({l}) = 1 /\ IsFiniteSet({}) /\ Cardinality({}) = 0
    BY FS_Singleton, FS_EmptySet
<1> QED BY <1>1, <1>2 DEF Falsified

(* A core of one literal, which is false in all models: of a candidate, or *)
(* of a new variable.                                                      *)
LEMMA SingleCoreKeeps ==
    ASSUME Asked, Asking, AskInv, pc = "core", UNCHANGED task, UNCHANGED <<size, chunk, round>>,
           NEW z \in Known, NEW C \in Cores(assumptions, z), NEW l \in C, C = {l},
           Go(Minus(candidates, -l), AddAnswer(answers, Variable(l)), assumptions \ C, "core"),
           models' = Restricted(models, {-l}), zero' = Settled(C, z),
           cache' = IF algorithm.cached /\ -l \in ToSet(candidates)
                    THEN [[cache EXCEPT !.next = 0] EXCEPT !.removed = @ \cup C]
                    ELSE [cache EXCEPT !.next = 0]
    PROVE  AskInv'
<1>1. /\ problem.models # {} /\ chunk = <<>> /\ Listed(answers, candidates, {}) /\ AtCore
      /\ algorithm.name \in Relaxers /\ algorithm.name # "pi" /\ algorithm.name # "static"
      /\ candidates \in Seq(problem.visible) /\ ToSet(candidates) \subseteq problem.visible
      /\ Extend(models, size) /\ NoneLost(models) /\ AllHold(z)
    BY AtCoreOnes
<1>2. /\ Assumed(assumptions, size) /\ Cached(cache, assumptions, models, size)
      /\ size \in Nat /\ problem.size \in Nat /\ problem.size <= size
    BY <1>1, VisibleOnes DEF AtCore, CoreAt, Extend
<1>3. l \in assumptions /\ l \in Int /\ Variable(l) \in 1 .. size /\ \A M \in models : ~Holds(M, l)
    BY <1>2 DEF Assumed, Literals, Cores, HoldsAll
<1>4. \A M : Holds(M, -l) <=> ~Holds(M, l)
    BY <1>3 DEF Holds, Variable
<1>5. models' = models
    BY <1>3, <1>4 DEF Restricted, Sat
<1>6. Settled(C, z) = z \cup {-l}
    BY FS_Singleton DEF Settled, Opposite
<1>7. PICK c, a : c = Minus(candidates, -l) /\ a = AddAnswer(answers, Variable(l))
    OBVIOUS
<1>8. answers \in Seq(problem.visible) /\ IsInjective(answers) /\ IsInjective(candidates)
      /\ ToSet(answers) \cap ToSet(candidates) = {} /\ ToSet(answers) \subseteq Consequences
      /\ Consequences \subseteq ToSet(answers) \cup ToSet(candidates)
    BY <1>1 DEF Listed, Apart
<1>9. c \in Seq(problem.visible) /\ IsInjective(c) /\ ToSet(c) = ToSet(candidates) \ {-l}
    BY <1>1, <1>7, <1>8, MinusLeavesOthers
<1>10. a \in Seq(problem.visible) /\ IsInjective(a)
    BY <1>7, <1>8, Added
<1>11. Listed(a, c, {}) /\ AllHold(z \cup {-l}) /\ ToSet(candidates) \ ToSet(c) \subseteq Consequences
    <2>1. CASE Variable(l) \in 1 .. problem.size
        <3>1. PICK v \in problem.visible : l = -v
            <4>1. l \in Literals(1, problem.size)
                BY <1>3, <2>1 DEF Literals
            <4> QED BY <1>2, <1>3, <4>1 DEF Assumed
        <3>2. -l = v /\ Variable(l) = v
            BY <3>1, VisibleOnes
        <3>3. \A M \in models : v \in M
            BY <1>3, <3>1, VisibleOnes
        <3>4. v \in Consequences
            <4>1. ASSUME NEW N \in problem.models PROVE v \in N
                <5>1. PICK M \in models : Projection(M) = N
                    BY <1>1 DEF NoneLost
                <5>2. v \in M /\ v \in 1 .. problem.size
                    BY <3>3, VisibleOnes
                <5> QED BY <5>1, <5>2 DEF Projection
            <4> QED BY <4>1 DEF Consequences
        <3>5. AllHold(z \cup {v})
            BY <1>1, <3>4, AnswerHolds
        <3>6. ToSet(a) = ToSet(answers) \cup {v}
            BY <1>7, <1>8, <3>2, Added
        <3>7. Apart(a, c)
            BY <1>8, <1>9, <1>10, <3>2, <3>6 DEF Apart
        <3>8. Listed(a, c, {})
            BY <1>8, <1>9, <1>10, <3>2, <3>4, <3>6, <3>7 DEF Listed
        <3> QED BY <1>9, <3>2, <3>4, <3>5, <3>8
    <2>2. CASE ~(Variable(l) \in 1 .. problem.size)
        <3>1. Variable(-l) = Variable(l)
            BY <1>3 DEF Variable
        <3>2. Variable(l) \notin problem.visible /\ -l \notin ToSet(candidates)
            BY <1>1, <2>2, <3>1, VisibleOnes
        <3>3. a = answers /\ ToSet(c) = ToSet(candidates)
            <4>1. PICK w : w = Variable(l)
                OBVIOUS
            <4>2. AddAnswer(answers, w) = answers
                BY <1>8, <3>2, <4>1, Added
            <4> QED BY <1>7, <1>9, <3>2, <4>1, <4>2
        <3>4. AllHold(z \cup {-l})
            BY <1>1, <2>2, <3>1 DEF AllHold
        <3>5. Listed(a, c, {})
            BY <1>8, <1>9, <1>10, <3>3 DEF Listed, Apart
        <3> QED BY <3>3, <3>4, <3>5
    <2> QED BY <2>1, <2>2
<1>12. PICK A : A = assumptions \ C
    OBVIOUS
<1>13. Assumed(A, size)
    <2>1. IsFiniteSet(A)
        BY <1>2, <1>12, FS_Subset DEF Assumed
    <2> QED BY <1>2, <1>12, <2>1 DEF Assumed
<1>14. cache'.cores = cache.cores /\ cache' = [cores |-> cache.cores, next |-> 0, removed |-> cache'.removed]
    BY <1>2 DEF Cached
<1>15. Cached(cache', A, models, size)
    <2> PICK g : g = cache'
        OBVIOUS
    <2> QED BY <1>2, <1>14, CachedAside
<1>16. PICK R \in SUBSET problem.visible, k \in Nat :
         /\ ToSet(candidates) \subseteq R /\ R \ ToSet(candidates) \subseteq Consequences /\ Cardinality(R) = round
         /\ Balanced(R, k, assumptions, models, cache.cores)
    BY <1>1 DEF AtCore, CoreAt
<1>17. k + 1 \in Nat /\ Balanced(R, k + 1, A, models, cache.cores)
    <2> PICK E : E = {}
        OBVIOUS
    <2>1. ASSUME NEW M \in models
          PROVE  Falsified(C, M) = Falsified(E, M) + 1 /\ Falsified(C, M) <= Falsified(E, M) + 1
        <3>1. Falsified(C, M) = 1 /\ Falsified(E, M) = 0
            BY <1>3, OneFalsified
        <3> QED BY <3>1
    <2>2. IsFiniteSet(E) /\ IsFiniteSet(assumptions) /\ E \cap assumptions = {} /\ C \in SUBSET assumptions
        BY <1>2, <1>3, FS_EmptySet DEF Assumed
    <2>3. \A M \in models : Cardinality(M \cap R) <= k + Falsified(assumptions, M)
        BY <1>16 DEF Balanced
    <2>4. \A N \in problem.models : \E M \in models :
            Projection(M) = N /\ Tight(cache.cores, M) /\ k + Falsified(assumptions, M) <= Cardinality(N \cap R)
              /\ Falsified(C, M) = Falsified(E, M) + 1
        BY <1>16, <2>1 DEF Balanced
    <2>5. k + 1 \in Nat /\ Balanced(R, k + 1, (assumptions \ C) \cup E, models, cache.cores)
        <3>1. \A M \in models : Falsified(C, M) <= Falsified(E, M) + 1
            BY <2>1
        <3>2. Exchange(R, k, assumptions, C, E, models, cache.cores)
            BY <2>2, <2>3, <2>4, <3>1 DEF Exchange
        <3> QED BY <3>2, BalancedOn
    <2> QED BY <1>12, <2>5
<1>18. ToSet(c) \subseteq R /\ R \ ToSet(c) \subseteq Consequences
    BY <1>9, <1>11, <1>16
<1>19. CoreAt(c, round, A, models, size, cache')
    BY <1>1, <1>13, <1>14, <1>15, <1>16, <1>17, <1>18 DEF CoreAt
<1>20. candidates' = c /\ answers' = a /\ assumptions' = A /\ pc' = "core"
    BY <1>7, <1>12 DEF Go, Call
<1> QED BY <1>1, <1>5, <1>6, <1>11, <1>19, <1>20, CoreAfter

(* What was kept of a core stays so when another is relaxed.               *)
LEMMA OldCore ==
    ASSUME Asked, Extend(models, size), NEW C, NEW r, Relaxes(C, r), NEW D, Replaced(D, models, size)
    PROVE  /\ Replaced(D, r.models, r.size)
           /\ \A L : /\ Falsified(D.core, L) = Falsified(D.core, L \cap (1 .. size))
                     /\ Falsified(D.aux, L) = Falsified(D.aux, L \cap (1 .. size))
<1>1. /\ size \in Nat /\ problem.size \in Nat /\ problem.size <= size /\ r.size \in Nat /\ size <= r.size
      /\ \A L \in r.models : L \cap (1 .. size) \in models
    BY VisibleOnes DEF Extend, Relaxes
<1>2. D.core \in SUBSET Literals(1, size) /\ D.aux \subseteq Literals(problem.size + 1, size)
    BY DEF Replaced
<1>3. D.aux \in SUBSET Literals(1, size)
    BY <1>1, <1>2 DEF Literals, Variable
<1>4. D.core \subseteq Literals(1, r.size) /\ D.aux \subseteq Literals(problem.size + 1, r.size)
    BY <1>1, <1>2 DEF Literals, Variable
<1>5. ASSUME NEW L
      PROVE  /\ Falsified(D.core, L) = Falsified(D.core, L \cap (1 .. size))
             /\ Falsified(D.aux, L) = Falsified(D.aux, L \cap (1 .. size))
    <2> PICK M : M = L \cap (1 .. size)
        OBVIOUS
    <2>1. L \cap (1 .. size) = M \cap (1 .. size)
        OBVIOUS
    <2> QED BY <1>1, <1>2, <1>3, <2>1, SameBelow
<1>6. \A L \in r.models : Falsified(D.core, L) <= Falsified(D.aux, L) + 1
    <2> TAKE L \in r.models
    <2> PICK M \in models : M = L \cap (1 .. size)
        BY <1>1
    <2>1. Falsified(D.core, M) <= Falsified(D.aux, M) + 1
        BY DEF Replaced
    <2> QED BY <1>5, <2>1
<1> QED BY <1>4, <1>5, <1>6 DEF Replaced

LEMMA NewCore ==
    ASSUME Asked, Extend(models, size), NEW C, Broken(C), NEW r, Relaxes(C, r),
           NEW D, D.core = C, D.aux = r.assumed
    PROVE  Replaced(D, r.models, r.size)
<1>1. /\ size \in Nat /\ problem.size \in Nat /\ problem.size <= size /\ r.size \in Nat /\ size <= r.size
    BY VisibleOnes DEF Extend, Relaxes
<1>2. C \subseteq Literals(1, size) /\ r.assumed \subseteq Literals(size + 1, r.size)
    BY DEF Broken, Relaxes
<1>3. C \subseteq Literals(1, r.size) /\ r.assumed \subseteq Literals(problem.size + 1, r.size)
    BY <1>1, <1>2 DEF Literals, Variable
<1>4. \A l \in C, b \in r.assumed : Variable(l) < Variable(b)
    BY <1>1, <1>2 DEF Literals, Variable
<1>5. C # {}
    BY FS_EmptySet DEF Broken
<1> QED BY <1>3, <1>4, <1>5 DEF Replaced, Broken, Relaxes

(* The cores that can be kept when C is relaxed, and what is known of the  *)
(* models of the new variables at their best.                              *)
Grown(C, r) ==
    {[cache EXCEPT !.next = 0],
     [[cache EXCEPT !.next = 0] EXCEPT !.cores = Append(@, [core |-> C, aux |-> r.assumed])]}
BestKept(C, r, cores) ==
    \A L : Tight(cache.cores, L \cap (1 .. size)) /\ Falsified(C, L) = Falsified(r.assumed, L) + 1
             => Tight(cores, L)

LEMMA CacheGrows ==
    ASSUME Asked, Extend(models, size), NEW C, Broken(C), NEW r, Relaxes(C, r), NEW A, Cached(cache, A, models, size),
           NEW h \in Grown(C, r), NEW B
    PROVE  Cached(h, B, r.models, r.size) /\ BestKept(C, r, h.cores)
<1> DEFINE s == cache.cores
           T == [core : SUBSET Int, aux : SUBSET Int]
           D == [core |-> C, aux |-> r.assumed]
           Ordered(t) == \A i, j \in DOMAIN t : i < j =>
                           \A a \in t[i].aux, b \in t[j].aux : Variable(a) < Variable(b)
<1>1. s \in Seq(T) /\ DOMAIN s = 1 .. Len(s) /\ Len(s) \in Nat
    BY DEF Cached
<1>2. /\ \A j \in DOMAIN s : Replaced(s[j], r.models, r.size)
      /\ \A j \in DOMAIN s : \A L :
           /\ Falsified(s[j].core, L) = Falsified(s[j].core, L \cap (1 .. size))
           /\ Falsified(s[j].aux, L) = Falsified(s[j].aux, L \cap (1 .. size))
    BY OldCore DEF Cached
<1>3. Ordered(s)
    BY DEF Cached
<1>4. \A L : Tight(s, L \cap (1 .. size)) => Tight(s, L)
    BY <1>2 DEF Tight
<1>5. CASE h = [cache EXCEPT !.next = 0]
    <2>1. h = [cores |-> h.cores, next |-> h.next, removed |-> h.removed] /\ h.cores = s /\ h.next = 0
        BY <1>5 DEF Cached
    <2> QED BY <1>1, <1>2, <1>3, <1>4, <2>1 DEF Cached, BestKept
<1>6. CASE h = [[cache EXCEPT !.next = 0] EXCEPT !.cores = Append(@, D)]
    <2> DEFINE t == Append(s, D)
    <2>1. h = [cores |-> h.cores, next |-> h.next, removed |-> h.removed] /\ h.cores = t /\ h.next = 0
        BY <1>6 DEF Cached
    <2>2. Replaced(D, r.models, r.size)
        BY NewCore
    <2>3. D \in T
        BY <2>2 DEF Replaced, Literals
    <2>4. D.core = C /\ D.aux = r.assumed
        OBVIOUS
    <2> HIDE DEF D
    <2>5. /\ t \in Seq(T) /\ DOMAIN t = 1 .. Len(s) + 1 /\ t[Len(s) + 1] = D
          /\ \A i \in 1 .. Len(s) : t[i] = s[i]
        BY <1>1, <2>3
    <2> HIDE DEF t
    <2>6. \A j \in 1 .. Len(s) + 1 : j \in 1 .. Len(s) \/ j = Len(s) + 1
        BY <1>1
    <2>7. \A j \in DOMAIN t : Replaced(t[j], r.models, r.size)
        BY <1>1, <1>2, <2>2, <2>5, <2>6
    <2>8. ASSUME NEW i \in DOMAIN t, NEW j \in DOMAIN t, i < j, NEW a \in t[i].aux, NEW b \in t[j].aux
          PROVE  Variable(a) < Variable(b)
        <3>1. i \in 1 .. Len(s)
            BY <1>1, <2>5, <2>8
        <3>2. CASE j \in 1 .. Len(s)
            BY <1>1, <1>3, <2>5, <2>8, <3>1, <3>2
        <3>3. CASE j = Len(s) + 1
            <4>1. a \in Literals(problem.size + 1, size) /\ b \in Literals(size + 1, r.size)
                BY <1>1, <2>4, <2>5, <3>1, <3>3 DEF Cached, Replaced, Relaxes
            <4>2. size \in Nat /\ problem.size \in Nat /\ r.size \in Nat
                BY VisibleOnes DEF Extend, Relaxes
            <4> QED BY <4>1, <4>2 DEF Literals, Variable
        <3> QED BY <2>5, <2>6, <3>2, <3>3
    <2>9. Cached(h, B, r.models, r.size)
        BY <2>1, <2>5, <2>7, <2>8 DEF Cached
    <2>10. ASSUME NEW L, Tight(s, L), Falsified(C, L) = Falsified(r.assumed, L) + 1
           PROVE  Tight(t, L)
        BY <1>1, <2>4, <2>5, <2>6, <2>10 DEF Tight
    <2> QED BY <1>4, <2>1, <2>9, <2>10 DEF BestKept
<1> QED BY <1>5, <1>6 DEF Grown

LEMMA CoreRelaxedKeeps ==
    ASSUME Asked, Asking, AskInv, pc = "core", UNCHANGED task, UNCHANGED <<chunk, round>>,
           NEW z \in Known, zero' = z, NEW C \in Cores(assumptions, z), Cardinality(C) > 1,
           NEW r, r = Relaxing(C), models' = r.models, size' = r.size,
           Go(candidates, answers, (assumptions \ C) \cup r.assumed, "core"),
           cache' = IF algorithm.cached
                    THEN [[cache EXCEPT !.next = 0] EXCEPT !.cores = Append(@, [core |-> C, aux |-> r.assumed])]
                    ELSE [cache EXCEPT !.next = 0]
    PROVE  AskInv'
<1>1. /\ problem.models # {} /\ chunk = <<>> /\ Listed(answers, candidates, {}) /\ AtCore
      /\ algorithm.name \in Relaxers /\ Extend(models, size) /\ AllHold(z)
    BY AtCoreOnes
<1>2. /\ Assumed(assumptions, size) /\ Cached(cache, assumptions, models, size)
      /\ size \in Nat /\ problem.size \in Nat /\ problem.size <= size
    BY <1>1, VisibleOnes DEF AtCore, CoreAt, Extend
<1>3. Broken(C) /\ C \in SUBSET assumptions
    BY <1>2, FS_Subset DEF Cores, Assumed, Broken
<1>4. Relaxes(C, r)
    BY <1>1, <1>3, RelaxingRelaxes
<1>5. /\ r.size \in Nat /\ size <= r.size /\ IsFiniteSet(r.assumed) /\ r.assumed \subseteq Literals(size + 1, r.size)
      /\ r.models \in SUBSET SUBSET (1 .. r.size)
    BY <1>4 DEF Relaxes
<1>6. \A L \in r.models : L \cap (1 .. size) \in models /\ Projection(L) = Projection(L \cap (1 .. size))
    <2>1. \A v \in 1 .. problem.size : v \in 1 .. size
        BY <1>2
    <2> QED BY <1>4, <2>1 DEF Relaxes, Projection
<1>7. Extend(r.models, r.size)
    <2>1. problem.size <= r.size
        BY <1>2, <1>5
    <2> QED BY <1>1, <1>5, <1>6, <2>1 DEF Extend
<1>8. PICK A : A = (assumptions \ C) \cup r.assumed
    OBVIOUS
<1>9. r.assumed \cap assumptions = {}
    <2>1. \A l \in r.assumed : l \notin Literals(1, size)
        BY <1>2, <1>5 DEF Literals, Variable
    <2> QED BY <1>2, <2>1 DEF Assumed
<1>10. Assumed(A, r.size)
    <2>1. IsFiniteSet(A)
        BY <1>2, <1>3, <1>5, <1>8, <1>9, Exchanged DEF Assumed
    <2>2. \A l \in r.assumed : l \in Literals(1, r.size) /\ l \notin Literals(1, problem.size)
        BY <1>2, <1>5 DEF Literals, Variable
    <2>3. \A l \in assumptions : l \in Literals(1, r.size)
        BY <1>2, <1>5 DEF Literals, Variable, Assumed
    <2> QED BY <1>2, <1>8, <2>1, <2>2, <2>3 DEF Assumed
<1>11. PICK h : h = cache'
    OBVIOUS
<1>12. h \in Grown(C, r)
    BY <1>11 DEF Grown
<1>13. Cached(h, A, r.models, r.size) /\ BestKept(C, r, h.cores)
    BY <1>1, <1>2, <1>3, <1>4, <1>12, CacheGrows
<1>14. PICK R \in SUBSET problem.visible, k \in Nat :
         /\ ToSet(candidates) \subseteq R /\ R \ ToSet(candidates) \subseteq Consequences /\ Cardinality(R) = round
         /\ Balanced(R, k, assumptions, models, cache.cores)
    BY <1>1 DEF AtCore, CoreAt
<1>15. k + 1 \in Nat /\ Balanced(R, k + 1, A, r.models, h.cores)
    <2>1. \A L : Falsified(assumptions, L) = Falsified(assumptions, L \cap (1 .. size))
        <3> TAKE L
        <3> PICK M : M = L \cap (1 .. size)
            OBVIOUS
        <3>1. L \cap (1 .. size) = M \cap (1 .. size) /\ assumptions \in SUBSET Literals(1, size)
            BY <1>2 DEF Assumed
        <3> QED BY <1>2, <3>1, SameBelow
    <2>2. \A L : L \cap R = (L \cap (1 .. size)) \cap R
        <3>1. \A v \in R : v \in 1 .. problem.size
            BY VisibleOnes
        <3>2. \A v \in R : v \in 1 .. size
            BY <1>2, <3>1
        <3> QED BY <3>2
    <2>3. \A L \in r.models : Cardinality(L \cap R) <= k + Falsified(assumptions, L)
        <3> TAKE L \in r.models
        <3> PICK M \in models : M = L \cap (1 .. size)
            BY <1>6
        <3>1. Cardinality(M \cap R) <= k + Falsified(assumptions, M)
            BY <1>14 DEF Balanced
        <3>2. Cardinality(L \cap R) = Cardinality(M \cap R) /\ Falsified(assumptions, L) = Falsified(assumptions, M)
            BY <2>1, <2>2
        <3> QED BY <3>1, <3>2
    <2>4. ASSUME NEW N \in problem.models
          PROVE  \E L \in r.models :
                   Projection(L) = N /\ Tight(h.cores, L) /\ k + Falsified(assumptions, L) <= Cardinality(N \cap R)
                     /\ Falsified(C, L) = Falsified(r.assumed, L) + 1
        <3>1. PICK M \in models :
                Projection(M) = N /\ Tight(cache.cores, M) /\ k + Falsified(assumptions, M) <= Cardinality(N \cap R)
            BY <1>14 DEF Balanced
        <3>2. PICK L \in r.models : L \cap (1 .. size) = M /\ Falsified(C, L) = Falsified(r.assumed, L) + 1
            BY <1>4 DEF Relaxes
        <3>3. Falsified(assumptions, L) = Falsified(assumptions, M)
            BY <2>1, <3>2
        <3>4. Projection(L) = N
            BY <1>6, <3>1, <3>2
        <3>5. Tight(h.cores, L)
            BY <1>13, <3>1, <3>2 DEF BestKept
        <3> QED BY <3>1, <3>2, <3>3, <3>4, <3>5
    <2>5. \A L \in r.models : Falsified(C, L) <= Falsified(r.assumed, L) + 1
        BY <1>4 DEF Relaxes
    <2>6. IsFiniteSet(assumptions)
        BY <1>2 DEF Assumed
    <2> PICK ms, o, X : ms = r.models /\ o = h.cores /\ X = r.assumed
        OBVIOUS
    <2>8. Exchange(R, k, assumptions, C, X, ms, o)
        BY <1>3, <1>5, <1>9, <2>3, <2>4, <2>5, <2>6 DEF Exchange
    <2>7. k + 1 \in Nat /\ Balanced(R, k + 1, (assumptions \ C) \cup X, ms, o)
        BY <2>8, BalancedOn
    <2> QED BY <1>8, <2>7
<1>16. CoreAt(candidates, round, A, r.models, r.size, h)
    BY <1>7, <1>10, <1>13, <1>14, <1>15 DEF CoreAt
<1>17. candidates' = candidates /\ answers' = answers /\ assumptions' = A /\ pc' = "core"
    BY <1>8 DEF Go, Call
<1> QED BY <1>1, <1>11, <1>16, <1>17, CoreAfter

LEMMA SolveAndProcessCoreKeeps ==
    ASSUME Asked, Asking, AskInv, SolveAndProcessCore
    PROVE  AskInv'
<1>1. pc = "core" /\ UNCHANGED task /\ UNCHANGED chunk
    BY DEF SolveAndProcessCore
<1>2. PICK z \in Known :
         LET h == [cache EXCEPT !.next = 0]
         IN  \/ /\ \E M \in models : FoundModel(assumptions, M)
                                     /\ Round(Kept(candidates, M, z), With(answers, candidates, z), Heard(h, M))
                /\ zero' = z /\ UNCHANGED <<models, size>>
             \/ \E C \in Cores(assumptions, z) :
                  \/ \E l \in C :
                       /\ C = {l}
                       /\ Go(Minus(candidates, -l), AddAnswer(answers, Variable(l)), assumptions \ C, "core")
                       /\ models' = Restricted(models, {-l}) /\ zero' = Settled(C, z)
                       /\ cache' = IF algorithm.cached /\ -l \in ToSet(candidates)
                                   THEN [h EXCEPT !.removed = @ \cup C] ELSE h
                       /\ UNCHANGED <<size, round>>
                  \/ /\ Cardinality(C) > 1
                     /\ algorithm.name = "kdyn" => Cardinality(C) <= OneChunk
                     /\ LET r == Relaxing(C)
                        IN  /\ models' = r.models /\ size' = r.size
                            /\ Go(candidates, answers, (assumptions \ C) \cup r.assumed, "core")
                            /\ cache' = IF algorithm.cached
                                        THEN [h EXCEPT !.cores = Append(@, [core |-> C, aux |-> r.assumed])] ELSE h
                     /\ zero' = z /\ UNCHANGED round
    BY DEF SolveAndProcessCore
<1>3. CASE /\ \E M \in models : FoundModel(assumptions, M)
                                /\ Round(Kept(candidates, M, z), With(answers, candidates, z),
                                         Heard([cache EXCEPT !.next = 0], M))
           /\ zero' = z /\ UNCHANGED <<models, size>>
    BY <1>1, <1>3, CoreModelKeeps
<1>4. ASSUME NEW C \in Cores(assumptions, z), NEW l \in C, C = {l},
             Go(Minus(candidates, -l), AddAnswer(answers, Variable(l)), assumptions \ C, "core"),
             models' = Restricted(models, {-l}) /\ zero' = Settled(C, z),
             cache' = IF algorithm.cached /\ -l \in ToSet(candidates)
                      THEN [[cache EXCEPT !.next = 0] EXCEPT !.removed = @ \cup C]
                      ELSE [cache EXCEPT !.next = 0],
             UNCHANGED <<size, round>>
      PROVE  AskInv'
    BY <1>1, <1>4, SingleCoreKeeps
<1>5. ASSUME NEW C \in Cores(assumptions, z), Cardinality(C) > 1, zero' = z, UNCHANGED round,
             NEW r, r = Relaxing(C), models' = r.models /\ size' = r.size,
             Go(candidates, answers, (assumptions \ C) \cup r.assumed, "core"),
             cache' = IF algorithm.cached
                      THEN [[cache EXCEPT !.next = 0] EXCEPT !.cores = Append(@, [core |-> C, aux |-> r.assumed])]
                      ELSE [cache EXCEPT !.next = 0]
      PROVE  AskInv'
    BY <1>1, <1>5, CoreRelaxedKeeps
<1>6. CASE \E C \in Cores(assumptions, z) : \E l \in C :
             /\ C = {l}
             /\ Go(Minus(candidates, -l), AddAnswer(answers, Variable(l)), assumptions \ C, "core")
             /\ models' = Restricted(models, {-l}) /\ zero' = Settled(C, z)
             /\ cache' = IF algorithm.cached /\ -l \in ToSet(candidates)
                         THEN [[cache EXCEPT !.next = 0] EXCEPT !.removed = @ \cup C] ELSE [cache EXCEPT !.next = 0]
             /\ UNCHANGED <<size, round>>
    BY <1>4, <1>6
<1>7. CASE \E C \in Cores(assumptions, z) :
             /\ Cardinality(C) > 1
             /\ models' = Relaxing(C).models /\ size' = Relaxing(C).size
             /\ Go(candidates, answers, (assumptions \ C) \cup Relaxing(C).assumed, "core")
             /\ cache' = IF algorithm.cached
                         THEN [[cache EXCEPT !.next = 0] EXCEPT
                                 !.cores = Append(@, [core |-> C, aux |-> Relaxing(C).assumed])]
                         ELSE [cache EXCEPT !.next = 0]
             /\ zero' = z /\ UNCHANGED round
    BY <1>5, <1>7
<1> QED BY <1>2, <1>3, <1>6, <1>7
-----------------------------------------------------------------------------
(* While a question is asked no other task takes a step.                   *)
LEMMA OthersWaitForAnswers ==
    ASSUME AskInv, Asking
    PROVE  ~Weak /\ ~Minimization
<1>1. pc \in {"query", "cautious", "incoherent", "done", "ict", "or", "cb", "dynamic", "static", "preferences",
              "core", "implicate", "minimizing", "testing", "ict-preferences"}
    BY DEF AskInv, Asking, Begun, AtListed, AtQuery, AtImplicate, AtTested, AtEnd
<1>2. ~Weak
    BY <1>1 DEF Weak, WeakNext, StartLevel, Run, CoreGuidedModel, FoundUnsat, OptModel, MgdModel,
                NoCheaperModel, CompletedLevel, Hardening
<1>3. ~Minimization
    BY <1>1 DEF Minimization, PredicateMinimizationSolve, EnumerationOfAll, UsePreferences, GuessAndCheck,
                GuessAndCheckAndMinimize, GuessAndCheckAndSplit, CoreBased
<1> QED BY <1>2, <1>3

LEMMA NothingAsked ==
    ASSUME AskInv, UNCHANGED vars
    PROVE  AskInv'
<1>1. UNCHANGED <<models, size, zero, problem, algorithm, pc, assumptions>>
      /\ UNCHANGED <<candidates, answers, chunk, aux, tested, round, cache>>
    BY DEF vars, solver, task, ask
<1>2. Consequences' = Consequences /\ Asking' = Asking
    BY <1>1 DEF Consequences, Asking
<1>3. \A a, c, T : Listed(a, c, T)' = Listed(a, c, T)
    BY <1>1, <1>2 DEF Listed
<1>4. AtProblem' = AtProblem /\ AllHold(zero)' = AllHold(zero) /\ Extend(models, size)' = Extend(models, size)
    BY <1>1 DEF AtProblem, AllHold, Extend, Projection
<1>5. AtQuery' = AtQuery /\ AtImplicate' = AtImplicate /\ Begun' = Begun /\ AtEnd' = AtEnd
    BY <1>1, <1>2, <1>4 DEF AtQuery, AtImplicate, Begun, AtEnd, AtChunk, ChunkOf, Projection, FirstOf
<1>6. AtTested' = AtTested
    BY <1>1, <1>2, <1>4 DEF AtTested, Listed
<1>7. AtCore' = AtCore
    BY <1>1, <1>2, <1>4 DEF AtCore, CoreAt, Assumed, Cached, Replaced, Balanced, Projection, Extend
<1>8. AtListed' = AtListed
    BY <1>1, <1>2, <1>4, <1>5, <1>7 DEF AtListed, Listed
<1> QED BY <1>1, <1>2, <1>5, <1>6, <1>8 DEF AskInv

(* The steps of another task ask nothing.                                  *)
LEMMA OthersGoOn ==
    ASSUME Asked, AskInv, ~Asking, Next
    PROVE  AskInv'
<1>1. round = 0 /\ pc \in OtherSteps \cup {"predmin", "weak"} /\ (pc = "predmin" => algorithm.task = "predmin")
    BY ProblemTypes DEF AskInv, Asking, OtherSteps, Minimizers
<1>2. ~Query
    BY <1>1 DEF OtherSteps, Minimizers, Query, QueryInterfaceSolve, IterativeCoherenceTesting,
                OverestimateReduction, CoreBasedAlgorithm, ChunkDynamicAlgorithm, ChunkStaticAlgorithm,
                CautiousReasoningSolve, FindMinimalModelPreferences, KnownCore,
                SolveAndProcessCore, IterativeCoherenceTestingPreferences, PrimeImplicate
<1>3. CASE Weak
    <2>1. round' = round
        BY <1>3 DEF Weak, ask
    <2>2. pc' \in OtherSteps
        <3>1. CASE StartLevel
            BY <3>1 DEF OtherSteps, StartLevel, Call
        <3>2. CASE Run
            BY <3>2 DEF OtherSteps, Run, Call
        <3>3. CASE CoreGuidedModel
            BY <3>3 DEF OtherSteps, CoreGuidedModel, Call
        <3>4. CASE FoundUnsat
            BY <3>4 DEF OtherSteps, FoundUnsat, Call
        <3>5. CASE OptModel \/ MgdModel \/ NoCheaperModel
            BY <1>1, <3>5 DEF OtherSteps, OptModel, MgdModel, NoCheaperModel
        <3>6. CASE CompletedLevel
            BY <3>6 DEF OtherSteps, CompletedLevel, Call
        <3>7. CASE Hardening
            BY <3>7 DEF OtherSteps, Hardening, Call
        <3> QED BY <1>3, <3>1, <3>2, <3>3, <3>4, <3>5, <3>6, <3>7 DEF Weak, WeakNext
    <2> QED BY <1>1, <2>1, <2>2, TaskStays DEF AskInv, Asking, task
<1>4. CASE Minimization
    <2>1. round' = round
        BY <1>4 DEF Minimization, PredicateMinimizationSolve, EnumerationOfAll, UsePreferences, GuessAndCheck,
                    GuessAndCheckAndMinimize, GuessAndCheckAndSplit, CoreBased, Others
    <2>2. pc' \in OtherSteps
        <3>1. CASE PredicateMinimizationSolve
            <4>1. algorithm.task = "predmin" => algorithm.name \in Minimizers
                BY AlgorithmsAssumption DEF Asked
            <4>2. algorithm.task = "predmin"
                BY <1>1, <3>1 DEF PredicateMinimizationSolve
            <4> QED BY <3>1, <4>1, <4>2 DEF OtherSteps, Minimizers, PredicateMinimizationSolve, Continue, Call
        <3>2. CASE EnumerationOfAll \/ UsePreferences
            BY <1>1, <3>2 DEF OtherSteps, EnumerationOfAll, UsePreferences, Continue, Call
        <3>3. CASE GuessAndCheck
            BY <3>3 DEF OtherSteps, Minimizers, GuessAndCheck, Continue, Call
        <3>4. CASE GuessAndCheckAndMinimize
            BY <1>1, <3>4 DEF OtherSteps, GuessAndCheckAndMinimize, Continue, Call
        <3>5. CASE GuessAndCheckAndSplit
            BY <1>1, <3>5 DEF OtherSteps, GuessAndCheckAndSplit, Split, Continue, Call
        <3>6. CASE CoreBased
            BY <1>1, <3>6 DEF OtherSteps, Minimizers, CoreBased, Continue, Call
        <3> QED BY <1>4, <3>1, <3>2, <3>3, <3>4, <3>5, <3>6 DEF Minimization
    <2> QED BY <1>1, <2>1, <2>2, TaskStays DEF AskInv, Asking, task
<1>5. CASE Ended
    BY <1>5, NothingAsked DEF Ended
<1> QED BY <1>2, <1>3, <1>4, <1>5 DEF Next

LEMMA AskInvKept ==
    ASSUME Asked, AskInv, [Next]_vars
    PROVE  AskInv'
<1>1. CASE UNCHANGED vars
    BY <1>1, NothingAsked
<1>2. CASE Asking /\ Query
    BY <1>2, QueryInterfaceSolveKeeps, IterativeCoherenceTestingKeeps, OverestimateReductionKeeps,
       CoreBasedAlgorithmKeeps, ChunkDynamicAlgorithmKeeps, ChunkStaticAlgorithmKeeps,
       CautiousReasoningSolveKeeps, FindMinimalModelPreferencesKeeps, KnownCoreKeeps,
       SolveAndProcessCoreKeeps, IterativeCoherenceTestingPreferencesKeeps, PrimeImplicateKeeps DEF Query
<1>3. CASE ~Asking /\ Next
    BY <1>3, OthersGoOn
<1> QED BY <1>1, <1>2, <1>3, OthersWaitForAnswers DEF Next, Ended

(* Which answers there are at each step.                                   *)
LEMMA AnswersAreEnclosed ==
    ASSUME Asked, AskInv
    PROVE  AnswersEnclosed
<1> SUFFICES ASSUME Asking PROVE AnswersEnclosed
    BY DEF AnswersEnclosed
<1>1. ToSet(<<>>) = {} /\ IsInjective(<<>>)
    BY DEF ToSet, IsInjective
<1>2. CASE Begun \/ (pc = "incoherent" /\ problem.models = {} /\ answers = <<>>)
    BY <1>1, <1>2 DEF Begun, Asking, AnswersEnclosed
<1>3. CASE /\ problem.models # {} /\ (chunk # <<>> => pc = "static")
           /\ AtListed \/ AtTested \/ AtEnd
    <2>1. pc # "incoherent" /\ chunk \in Seq(problem.visible)
        <3>1. pc # "incoherent" /\ (pc = "static" => chunk \in Seq(problem.visible))
            BY <1>3 DEF AtListed, AtTested, AtEnd, AtQuery, AtImplicate
        <3>2. <<>> \in Seq(problem.visible)
            OBVIOUS
        <3> QED BY <1>3, <3>1, <3>2
    <2>2. answers \in Seq(problem.visible) /\ candidates \in Seq(problem.visible)
        BY <1>3 DEF AtListed, AtTested, AtEnd, Listed
    <2>3. ToSet(answers \o candidates \o chunk) = ToSet(answers) \cup ToSet(candidates) \cup ToSet(chunk)
        <3>1. /\ answers \o candidates \in Seq(problem.visible)
              /\ ToSet(answers \o candidates) = ToSet(answers) \cup ToSet(candidates)
            BY <2>2, Joined
        <3>2. \A s \in Seq(problem.visible) : ToSet(s \o chunk) = ToSet(s) \cup ToSet(chunk)
            BY <2>1, Joined
        <3> QED BY <3>1, <3>2
    <2>4. CASE AtListed
        <3>1. Listed(answers, candidates, {}) /\ pc # "done"
            BY <2>4 DEF AtListed, AtQuery, AtImplicate, AtCore
        <3> QED BY <1>3, <2>1, <2>3, <3>1 DEF AnswersEnclosed, Listed, Apart
    <2>5. CASE AtTested
        <3>1. /\ Listed(answers, candidates, {-tested}) /\ pc # "done" /\ algorithm.name = "ict-preferences"
              /\ tested \in Int /\ -tested \in problem.visible
            BY <2>5 DEF AtTested
        <3>2. Variable(tested) = -tested
            BY <3>1, VisibleOnes DEF Variable
        <3> QED BY <1>3, <2>1, <2>3, <3>1, <3>2 DEF AnswersEnclosed, Listed, Apart
    <2>6. CASE AtEnd
        BY <1>3, <2>1, <2>3, <2>6 DEF AnswersEnclosed, AtEnd
    <2> QED BY <1>3, <2>4, <2>5, <2>6
<1> QED BY <1>2, <1>3 DEF AskInv

(* What a round leaves of the candidates at a model that is least.         *)
LEMMA RoundLeavesLeast ==
    ASSUME Asked, problem.models # {}, Listed(answers, candidates, {}), NEW z, AllHold(z),
           NEW M, Consequences \subseteq M, Least(M), NEW h,
           Round(Kept(candidates, M, z), With(answers, candidates, z), h),
           NEW N \in problem.models, N \cap ToSet(candidates) \subseteq ToSet(candidates') \cup ToSet(answers')
    PROVE  ToSet(candidates') \subseteq N
<1>1. candidates \in Seq(problem.visible) /\ ToSet(candidates) \subseteq problem.visible
    BY NegatedOnes DEF Listed
<1>2. ToSet(candidates) \cap z \subseteq Consequences
    BY <1>1, HeldOnes
<1>3. PICK c, a : c = Kept(candidates, M, z) /\ a = With(answers, candidates, z)
    OBVIOUS
<1>4. /\ Listed(a, c, {}) /\ ToSet(c) = ToSet(candidates) \cap (M \ z)
      /\ ToSet(a) \subseteq Consequences
    <2>1. Listed(a, c, {}) /\ ToSet(c) = ToSet(candidates) \cap (M \ z)
        BY <1>2, <1>3, Pruned
    <2> QED BY <2>1 DEF Listed
<1>5. candidates' = c /\ (answers' = a \/ answers' = a \o c)
    BY <1>3 DEF Round, Go
<1>6. ToSet(answers') \subseteq M
    <2>1. ToSet(a \o c) = ToSet(a) \cup ToSet(c)
        BY <1>4, Joined DEF Listed
    <2> QED BY <1>4, <1>5, <2>1
<1>7. N \cap ToSet(candidates) \subseteq M
    BY <1>4, <1>5, <1>6
<1> QED BY <1>4, <1>5, <1>7 DEF Least

(* A step that ends a round is one at a model that is least.               *)
LEMMA RoundEndsLeast ==
    ASSUME Asked, AskInv, Next, ~UNCHANGED vars,
           algorithm.name \in {"one", "kdyn", "pmres", "preferences"}, round' # round \/ pc' = "done", round > 0,
           NEW N \in problem.models, N \cap ToSet(candidates) \subseteq ToSet(candidates') \cup ToSet(answers')
    PROVE  ToSet(candidates') \subseteq N
<1>1. Asking /\ Query
    BY OthersWaitForAnswers DEF AskInv, Next, Ended
<1>2. pc \in {"core", "preferences", "done", "incoherent"}
    BY <1>1 DEF AskInv, Begun, AtListed, AtTested, AtEnd, AtQuery, AtImplicate, QueryAlgorithms
<1>3. FindMinimalModelPreferences \/ KnownCore \/ SolveAndProcessCore
    BY <1>1, <1>2 DEF Query, QueryInterfaceSolve, IterativeCoherenceTesting,
                OverestimateReduction, CoreBasedAlgorithm, ChunkDynamicAlgorithm, ChunkStaticAlgorithm,
                CautiousReasoningSolve, IterativeCoherenceTestingPreferences, PrimeImplicate
<1>4. CASE FindMinimalModelPreferences
    <2>1. pc = "preferences" /\ zero' \in Known
        BY <1>4 DEF FindMinimalModelPreferences
    <2>2. problem.models # {} /\ chunk = <<>> /\ Listed(answers, candidates, {}) /\ AtProblem
        BY <1>1, <2>1 DEF AskInv, Begun, Asking, AtListed, AtQuery, AtImplicate, AtTested, AtEnd
    <2>3. candidates \in Seq(problem.visible)
        BY <2>2 DEF Listed
    <2>4. AllHold(zero')
        BY <2>1, <2>2, <2>3, KnownNow
    <2>5. PICK M \in models :
            /\ Preferred(M, Negated(candidates))
            /\ Round(Kept(candidates, M, zero'), With(answers, candidates, zero'), cache)
        BY <1>4 DEF FindMinimalModelPreferences
    <2>6. Least(M) /\ Consequences \subseteq M
        BY <2>2, <2>3, <2>5, PreferredIsLeast, ModelsHave, ModelsOfProblem
    <2> QED BY <2>2, <2>4, <2>5, <2>6, RoundLeavesLeast
<1>5. CASE KnownCore
    BY <1>5 DEF KnownCore
<1>6. CASE SolveAndProcessCore
    <2>1. pc = "core"
        BY <1>6 DEF SolveAndProcessCore
    <2>2. PICK z \in Known, M \in models :
            /\ FoundModel(assumptions, M)
            /\ Round(Kept(candidates, M, z), With(answers, candidates, z), Heard([cache EXCEPT !.next = 0], M))
        BY <1>6 DEF SolveAndProcessCore, Go, Call
    <2>3. /\ problem.models # {} /\ Listed(answers, candidates, {}) /\ AllHold(z)
          /\ Extend(models, size)
        BY <1>1, <2>1, AtCoreOnes
    <2>4. Least(M) /\ Consequences \subseteq M
        BY <1>1, <2>1, <2>2, <2>3, CoreIsLeast, ModelsHave DEF FoundModel
    <2> PICK h : h = Heard([cache EXCEPT !.next = 0], M)
        OBVIOUS
    <2> QED BY <2>2, <2>3, <2>4, RoundLeavesLeast
<1> QED BY <1>3, <1>4, <1>5, <1>6

LEMMA AsksAtFirst ==
    ASSUME Init
    PROVE  Asked /\ AskInv
<1>1. Asked
    BY DEF Init, Asked
<1>2. CASE Asking
    BY <1>1, <1>2 DEF Init, AskInv, Asking, Begun
<1>3. CASE ~Asking
    BY <1>1, <1>3 DEF Init, AskInv, OtherSteps
<1> QED BY <1>1, <1>2, <1>3

LEMMA AskedOn ==
    ASSUME Asked, [Next]_vars
    PROVE  Asked'
BY TaskStays DEF Asked, task, vars

(* The answers of every algorithm are consequences, and none of the        *)
(* consequences is lost on the way to them, whatever the models and cores  *)
(* were that each call found.                                              *)
THEOREM EnclosedAnswers == Spec => []AnswersEnclosed
<1>1. Init => Asked /\ AskInv
    BY AsksAtFirst
<1>2. Asked /\ AskInv /\ [Next]_vars => Asked' /\ AskInv'
    BY AskInvKept, AskedOn
<1>3. Asked /\ AskInv => AnswersEnclosed
    BY AnswersAreEnclosed
<1> QED BY <1>1, <1>2, <1>3, PTL DEF Spec

(* Each round of minimalAlgorithm ends with a model that makes as few of   *)
(* the candidates true as any, however cores were relaxed, kept and        *)
(* replaced in it.                                                         *)
THEOREM MinimalRounds == Spec => RoundIsMinimal
<1> DEFINE Ends == algorithm.name \in {"one", "kdyn", "pmres", "preferences"}
                     /\ (round' # round \/ pc' = "done") /\ round > 0
           Minimal == \A N \in problem.models :
                        N \cap ToSet(candidates) \subseteq ToSet(candidates') \cup ToSet(answers')
                          => ToSet(candidates') \subseteq N
<1>1. Init => Asked /\ AskInv
    BY AsksAtFirst
<1>2. Asked /\ AskInv /\ [Next]_vars => Asked' /\ AskInv'
    BY AskInvKept, AskedOn
<1>3. Asked /\ AskInv /\ [Next]_vars => [Ends => Minimal]_vars
    BY RoundEndsLeast
<1> QED BY <1>1, <1>2, <1>3, PTL DEF Spec, RoundIsMinimal
=============================================================================
