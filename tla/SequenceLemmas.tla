--------------------------- MODULE SequenceLemmas ----------------------------
(***************************************************************************)
(* What the proofs about queues and lists keep needing: the elements of a  *)
(* sequence and what Append, Tail and \o do to them, how often the members *)
(* of a set are in it, and recursion along it.                             *)
(***************************************************************************)
EXTENDS Naturals, Sequences, FiniteSets, SequencesExt,
        FiniteSetTheorems, FunctionTheorems, WellFoundedInduction, TLAPS

LEMMA HeadAndTail ==
    ASSUME NEW S, NEW q \in Seq(S), q # <<>>
    PROVE  Head(q) \in S /\ Tail(q) \in Seq(S)
  OBVIOUS

LEMMA AppendType ==
    ASSUME NEW S, NEW q \in Seq(S), NEW x \in S
    PROVE  Append(q, x) \in Seq(S)
  OBVIOUS

LEMMA ElementType ==
    ASSUME NEW S, NEW q \in Seq(S)
    PROVE  \A k \in DOMAIN q : q[k] \in S
  OBVIOUS

LEMMA ToSetType ==
    ASSUME NEW S, NEW q \in Seq(S)
    PROVE  ToSet(q) \in SUBSET S
  BY ElementType DEF ToSet

(* What is left of a sequence.                                             *)
LEMMA TailOf ==
    ASSUME NEW S, NEW q \in Seq(S), q # <<>>
    PROVE  /\ Head(q) = q[1] /\ q[1] \in S /\ 1 \in DOMAIN q
           /\ Tail(q) \in Seq(S)
           /\ \A i \in DOMAIN Tail(q) :
                 i \in Nat /\ i + 1 \in DOMAIN q /\ 1 < i + 1 /\ Tail(q)[i] = q[i + 1]
  OBVIOUS

(* The elements of a sequence that is appended to, or begun.               *)
LEMMA AppendElements ==
    ASSUME NEW S, NEW q \in Seq(S), NEW x \in S
    PROVE  /\ DOMAIN q = 1..Len(q) /\ DOMAIN Append(q, x) = 1..(Len(q) + 1) /\ Len(q) \in Nat
           /\ \A k \in 1..Len(q) : Append(q, x)[k] = q[k]
           /\ Append(q, x)[Len(q) + 1] = x
  OBVIOUS

LEMMA TailElements ==
    ASSUME NEW S, NEW q \in Seq(S), q # <<>>
    PROVE  /\ Len(q) \in Nat \ {0} /\ DOMAIN q = 1..Len(q) /\ DOMAIN Tail(q) = 1..(Len(q) - 1)
           /\ \A k \in 1..(Len(q) - 1) : Tail(q)[k] = q[k + 1]
           /\ Head(q) = q[1]
  OBVIOUS

LEMMA ConcatElements ==
    ASSUME NEW S, NEW p \in Seq(S), NEW q \in Seq(S)
    PROVE  /\ Len(p) \in Nat /\ Len(q) \in Nat /\ DOMAIN p = 1..Len(p) /\ DOMAIN q = 1..Len(q)
           /\ DOMAIN (p \o q) = 1..(Len(p) + Len(q))
           /\ \A k \in 1..Len(p) : (p \o q)[k] = p[k]
           /\ \A k \in (Len(p) + 1)..(Len(p) + Len(q)) : (p \o q)[k] = q[k - Len(p)]
  OBVIOUS

(* What a sequence contains when it is appended to, begun or continued.    *)
LEMMA ContainsDomain ==
    ASSUME NEW S, NEW q \in Seq(S), NEW x
    PROVE  Contains(q, x) <=> \E k \in DOMAIN q : q[k] = x
  <1>1. DOMAIN q = 1..Len(q)
    OBVIOUS
  <1> QED BY <1>1 DEF Contains

LEMMA ContainsAppend ==
    ASSUME NEW S, NEW q \in Seq(S), NEW y \in S, NEW x
    PROVE  Contains(Append(q, y), x) <=> Contains(q, x) \/ x = y
  <1>1. /\ Len(Append(q, y)) = Len(q) + 1 /\ Len(q) \in Nat
        /\ \A k \in 1..Len(q) : Append(q, y)[k] = q[k]
        /\ Append(q, y)[Len(q) + 1] = y
    OBVIOUS
  <1>2. \A k \in 1..(Len(q) + 1) : k \in 1..Len(q) \/ k = Len(q) + 1
    BY <1>1
  <1>3. \A k \in 1..Len(q) : k \in 1..(Len(q) + 1)
    BY <1>1
  <1>4. Len(q) + 1 \in 1..(Len(q) + 1)
    BY <1>1
  <1> QED BY <1>1, <1>2, <1>3, <1>4, Zenon DEF Contains

LEMMA ContainsTail ==
    ASSUME NEW S, NEW q \in Seq(S), q # <<>>, NEW x
    PROVE  Contains(q, x) <=> x = Head(q) \/ Contains(Tail(q), x)
  <1>1. /\ Len(Tail(q)) = Len(q) - 1 /\ Len(q) \in Nat \ {0} /\ Head(q) = q[1]
        /\ \A k \in 1..(Len(q) - 1) : Tail(q)[k] = q[k + 1]
    OBVIOUS
  <1>2. ASSUME NEW k \in 1..Len(q) PROVE k = 1 \/ (k - 1 \in 1..(Len(q) - 1) /\ Tail(q)[k - 1] = q[k])
    BY <1>1
  <1>3. \A k \in 1..(Len(q) - 1) : k + 1 \in 1..Len(q)
    BY <1>1
  <1>4. 1 \in 1..Len(q)
    BY <1>1
  <1> QED BY <1>1, <1>2, <1>3, <1>4, Zenon DEF Contains

LEMMA ContainsConcat ==
    ASSUME NEW S, NEW p \in Seq(S), NEW q \in Seq(S), NEW x
    PROVE  Contains(p \o q, x) <=> Contains(p, x) \/ Contains(q, x)
  <1>1. /\ Len(p) \in Nat /\ Len(q) \in Nat /\ Len(p \o q) = Len(p) + Len(q)
        /\ \A k \in 1..Len(p) : (p \o q)[k] = p[k]
        /\ \A k \in (Len(p) + 1)..(Len(p) + Len(q)) : (p \o q)[k] = q[k - Len(p)]
    OBVIOUS
  <1>2. ASSUME NEW k \in 1..(Len(p) + Len(q))
        PROVE  k \in 1..Len(p) \/ (k \in (Len(p) + 1)..(Len(p) + Len(q)) /\ k - Len(p) \in 1..Len(q))
    BY <1>1
  <1>3. \A k \in 1..Len(p) : k \in 1..(Len(p) + Len(q))
    BY <1>1
  <1>4. ASSUME NEW k \in 1..Len(q)
        PROVE  k + Len(p) \in (Len(p) + 1)..(Len(p) + Len(q)) /\ (k + Len(p)) - Len(p) = k
    BY <1>1
  <1>5. \A k \in (Len(p) + 1)..(Len(p) + Len(q)) : k \in 1..(Len(p) + Len(q))
    BY <1>1
  <1>6. ASSUME Contains(p \o q, x) PROVE Contains(p, x) \/ Contains(q, x)
    <2>1. PICK k \in 1..(Len(p) + Len(q)) : (p \o q)[k] = x
      BY <1>1, <1>6, Zenon DEF Contains
    <2> QED BY <1>1, <1>2, <2>1, Zenon DEF Contains
  <1>7. ASSUME Contains(p, x) PROVE Contains(p \o q, x)
    BY <1>1, <1>3, <1>7, Zenon DEF Contains
  <1>8. ASSUME Contains(q, x) PROVE Contains(p \o q, x)
    <2>1. PICK k \in 1..Len(q) : q[k] = x
      BY <1>8, Zenon DEF Contains
    <2>2. (p \o q)[k + Len(p)] = x /\ k + Len(p) \in 1..Len(p \o q)
      BY <1>1, <1>4, <1>5, <2>1, Zenon
    <2> QED BY <2>2, Zenon DEF Contains
  <1> QED BY <1>6, <1>7, <1>8

(* A sequence whose elements are also of another type.                     *)
LEMMA Retyped ==
    ASSUME NEW S, NEW T, NEW q \in Seq(S), \A i \in DOMAIN q : q[i] \in T
    PROVE  q \in Seq(T)
  <1>1. q \in [1..Len(q) -> T] /\ Len(q) \in Nat
    OBVIOUS
  <1> QED BY <1>1

(* The places of queue q that hold a member of T.                          *)
Hits(q, T) == {k \in DOMAIN q : q[k] \in T}

LEMMA HitsAreFinite ==
    ASSUME NEW S, NEW q \in Seq(S), NEW T
    PROVE  IsFiniteSet(Hits(q, T)) /\ Cardinality(Hits(q, T)) \in Nat
  <1>1. Hits(q, T) \in SUBSET (1..Len(q)) /\ Len(q) \in Nat
    BY DEF Hits
  <1>2. IsFiniteSet(1..Len(q))
    BY <1>1, FS_Interval
  <1> QED BY <1>1, <1>2, FS_Subset, FS_CardinalityType

LEMMA HitsOfEmpty == ASSUME NEW T PROVE Cardinality(Hits(<<>>, T)) = 0
  <1>1. Hits(<<>>, T) = {}
    BY DEF Hits
  <1> QED BY <1>1, FS_EmptySet

(* A queue that gives its first message away.                              *)
LEMMA HitsOfTail ==
    ASSUME NEW S, NEW q \in Seq(S), q # <<>>, NEW T
    PROVE  Cardinality(Hits(Tail(q), T))
             = Cardinality(Hits(q, T)) - (IF Head(q) \in T THEN 1 ELSE 0)
  <1> DEFINE n == Len(q)
             A == Hits(Tail(q), T)
             B == Hits(q, T) \ {1}
             f == [k \in A |-> k + 1]
  <1>1. /\ n \in Nat \ {0} /\ DOMAIN q = 1..n /\ DOMAIN Tail(q) = 1..n-1
        /\ \A k \in 1..n-1 : Tail(q)[k] = q[k + 1]
        /\ Head(q) = q[1]
    OBVIOUS
  <1>2. A = {k \in 1..n-1 : q[k + 1] \in T}
    BY <1>1 DEF Hits
  <1>3. B = {k \in 2..n : q[k] \in T}
    BY <1>1 DEF Hits
  <1>4. ASSUME NEW k \in A PROVE k + 1 \in B
    BY <1>1, <1>2, <1>3
  <1>5. ASSUME NEW k \in B PROVE k - 1 \in A /\ (k - 1) + 1 = k
    BY <1>1, <1>2, <1>3
  <1>6. f \in [A -> B]
    BY <1>4
  <1>7. \A a, b \in A : f[a] = f[b] => a = b
    BY <1>1, <1>2
  <1>8. \A b \in B : \E a \in A : f[a] = b
    BY <1>5
  <1> HIDE DEF A, B, f
  <1>9. ExistsBijection(A, B)
    <2>1. f \in Bijection(A, B)
      BY <1>6, <1>7, <1>8, Fun_IsBij
    <2> QED BY <2>1 DEF ExistsBijection
  <1>10. IsFiniteSet(A) /\ Cardinality(A) = Cardinality(B)
    <2>1. Tail(q) \in Seq(S)
      BY HeadAndTail
    <2>2. IsFiniteSet(A)
      BY <2>1, HitsAreFinite DEF A
    <2> QED BY <1>9, <2>2, FS_Bijection
  <1>11. Cardinality(B) = Cardinality(Hits(q, T)) - (IF 1 \in Hits(q, T) THEN 1 ELSE 0)
    <2>1. IsFiniteSet(Hits(q, T)) /\ Cardinality(Hits(q, T)) \in Nat
      BY HitsAreFinite
    <2>2. Cardinality(Hits(q, T) \ {1})
            = IF 1 \in Hits(q, T) THEN Cardinality(Hits(q, T)) - 1 ELSE Cardinality(Hits(q, T))
      BY <2>1, FS_RemoveElement
    <2> QED BY <2>1, <2>2 DEF B
  <1>12. 1 \in Hits(q, T) <=> Head(q) \in T
    BY <1>1 DEF Hits
  <1> QED BY <1>10, <1>11, <1>12 DEF A

(* A queue that takes one more message.                                    *)
LEMMA HitsOfAppend ==
    ASSUME NEW S, NEW q \in Seq(S), NEW x \in S, NEW T
    PROVE  Cardinality(Hits(Append(q, x), T))
             = Cardinality(Hits(q, T)) + (IF x \in T THEN 1 ELSE 0)
  <1> DEFINE n == Len(q)
  <1>1. /\ n \in Nat /\ DOMAIN q = 1..n /\ DOMAIN Append(q, x) = 1..n+1
        /\ \A k \in 1..n : Append(q, x)[k] = q[k]
        /\ Append(q, x)[n + 1] = x
    OBVIOUS
  <1> HIDE DEF n
  <1>2. IsFiniteSet(Hits(q, T)) /\ Cardinality(Hits(q, T)) \in Nat
    BY HitsAreFinite
  <1>3. n + 1 \notin Hits(q, T)
    BY <1>1 DEF Hits
  <1>4. CASE x \in T
    <2>1. Hits(Append(q, x), T) = Hits(q, T) \cup {n + 1}
      BY <1>1, <1>4 DEF Hits
    <2> QED BY <1>2, <1>3, <1>4, <2>1, FS_AddElement
  <1>5. CASE x \notin T
    <2>1. Hits(Append(q, x), T) = Hits(q, T)
      BY <1>1, <1>5 DEF Hits
    <2> QED BY <1>2, <1>5, <2>1
  <1> QED BY <1>4, <1>5

(* Splitting a configuration names each of its pairs once.                 *)
LEMMA HitsOfSplit ==
    ASSUME NEW S, IsFiniteSet(S), NEW q \in SetToSeqs(S), NEW i
    PROVE  Cardinality(Hits(q, {i})) = IF i \in S THEN 1 ELSE 0
  <1> DEFINE D == 1..Cardinality(S)
  <1>1. Cardinality(S) \in Nat /\ IsFiniteSet(D) /\ Cardinality(D) = Cardinality(S)
    BY FS_CardinalityType, FS_Interval
  <1>2. q \in [D -> S] /\ \A a, b \in D : a # b => q[a] # q[b]
    BY DEF SetToSeqs
  <1>3. q \in Surjection(D, S)
    <2>1. q \in Injection(D, S)
      BY <1>2, Fun_IsInj
    <2> QED BY <1>1, <2>1, FS_Injection
  <1>4. CASE i \in S
    <2> HIDE DEF D
    <2>0. \A t \in S : \E k \in D : q[k] = t
      BY <1>3, Fun_SurjectionProperties
    <2>1. PICK k \in D : q[k] = i
      BY <1>4, <2>0
    <2>2. Hits(q, {i}) = {k}
      BY <1>2, <2>1 DEF Hits
    <2> QED BY <1>4, <2>2, FS_Singleton
  <1>5. CASE i \notin S
    <2>1. Hits(q, {i}) = {}
      BY <1>2, <1>5 DEF Hits
    <2> QED BY <1>5, <2>1, FS_EmptySet
  <1> QED BY <1>4, <1>5

(* Two sequences, one behind the other.                                    *)
LEMMA HitsOfConcat ==
    ASSUME NEW S, NEW p \in Seq(S), NEW q \in Seq(S), NEW T
    PROVE  Cardinality(Hits(p \o q, T)) = Cardinality(Hits(p, T)) + Cardinality(Hits(q, T))
  <1> DEFINE n == Len(p)
             A == Hits(q, T)
             B == {k \in (n + 1)..(n + Len(q)) : q[k - n] \in T}
             f == [k \in A |-> k + n]
  <1>1. /\ n \in Nat /\ Len(q) \in Nat /\ DOMAIN p = 1..n /\ DOMAIN q = 1..Len(q)
        /\ DOMAIN (p \o q) = 1..(n + Len(q))
        /\ \A k \in 1..n : (p \o q)[k] = p[k]
        /\ \A k \in (n + 1)..(n + Len(q)) : (p \o q)[k] = q[k - n]
    OBVIOUS
  <1> HIDE DEF n
  <1>2. Hits(p \o q, T) = Hits(p, T) \cup B
    BY <1>1 DEF Hits
  <1>3. Hits(p, T) \cap B = {}
    BY <1>1 DEF Hits
  <1>4. A = {k \in 1..Len(q) : q[k] \in T}
    BY <1>1 DEF Hits
  <1>5. ASSUME NEW k \in A PROVE k + n \in B
    BY <1>1, <1>4
  <1>6. ASSUME NEW k \in B PROVE k - n \in A /\ (k - n) + n = k
    BY <1>1, <1>4
  <1>7. f \in [A -> B]
    BY <1>5
  <1>8. \A a, b \in A : f[a] = f[b] => a = b
    BY <1>1, <1>4
  <1>9. \A b \in B : \E a \in A : f[a] = b
    BY <1>6
  <1>10. IsFiniteSet(A) /\ Cardinality(A) \in Nat
    BY HitsAreFinite
  <1>11. IsFiniteSet(Hits(p, T)) /\ Cardinality(Hits(p, T)) \in Nat
    BY HitsAreFinite
  <1> HIDE DEF A, B, f
  <1>12. ExistsBijection(A, B)
    <2>1. f \in Bijection(A, B)
      BY <1>7, <1>8, <1>9, Fun_IsBij
    <2> QED BY <2>1 DEF ExistsBijection
  <1>13. IsFiniteSet(B) /\ Cardinality(B) = Cardinality(A)
    BY <1>10, <1>12, FS_Bijection
  <1>14. Cardinality(Hits(p, T) \cap B) = 0
    BY <1>3, FS_EmptySet
  <1>15. Cardinality(Hits(p, T) \cup B)
           = Cardinality(Hits(p, T)) + Cardinality(B) - Cardinality(Hits(p, T) \cap B)
    BY <1>11, <1>13, FS_Union
  <1> QED BY <1>2, <1>10, <1>11, <1>13, <1>14, <1>15 DEF A

(* A finite number of queues has a finite number of places.                *)
LEMMA PlacesAreFinite ==
    ASSUME NEW C, IsFiniteSet(C), NEW f \in [C -> Nat]
    PROVE  IsFiniteSet({p \in C \X Nat : p[2] \in 1..f[p[1]]})
  <1> DEFINE Of(c) == {p \in {c} \X Nat : p[2] \in 1..f[c]}
             U == {Of(c) : c \in C}
             g == [c \in C |-> Of(c)]
  <1>1. ASSUME NEW c \in C PROVE IsFiniteSet(Of(c))
    <2>1. IsFiniteSet({c}) /\ IsFiniteSet(1..f[c])
      <3>1. f[c] \in Int /\ 1 \in Int
        OBVIOUS
      <3>2. IsFiniteSet(1..f[c])
        BY <3>1, FS_Interval
      <3> QED BY <3>2, FS_Singleton
    <2>2. IsFiniteSet({c} \X (1..f[c]))
      BY <2>1, FS_Product
    <2>3. Of(c) \in SUBSET ({c} \X (1..f[c]))
      OBVIOUS
    <2> QED BY <2>2, <2>3, FS_Subset
  <1>2. IsFiniteSet(U)
    <2>1. g \in [C -> U]
      OBVIOUS
    <2>2. \A t \in U : \E c \in C : g[c] = t
      OBVIOUS
    <2> HIDE DEF g, U
    <2>3. g \in Surjection(C, U)
      BY <2>1, <2>2, Fun_IsSurj
    <2> QED BY <2>3, FS_Surjection
  <1>3. \A t \in U : IsFiniteSet(t)
    BY <1>1
  <1>4. IsFiniteSet(UNION U)
    BY <1>2, <1>3, FS_UNION
  <1>5. {p \in C \X Nat : p[2] \in 1..f[p[1]]} \in SUBSET UNION U
    <2> SUFFICES ASSUME NEW p \in C \X Nat, p[2] \in 1..f[p[1]] PROVE p \in UNION U
      OBVIOUS
    <2>1. p \in Of(p[1]) /\ Of(p[1]) \in U
      OBVIOUS
    <2> QED BY <2>1
  <1> QED BY <1>4, <1>5, FS_Subset

-----------------------------------------------------------------------------
(* Induction, with a set in place of the predicate.                        *)

LEMMA NatLeast ==
    ASSUME NEW T \in SUBSET Nat, T # {}
    PROVE  \E m \in T : \A n \in T : m <= n
  <1> DEFINE R == OpToRel(<, Nat)
  <1>1. IsWellFoundedOn(R, Nat)
    BY NatLessThanWellFounded
  <1>2. \A n, m \in Nat : n < m => <<n, m>> \in R
    BY DEF OpToRel
  <1> HIDE DEF R
  <1>3. PICK m \in T : \A n \in T : ~(<<n, m>> \in R)
    BY <1>1, WFMin
  <1>4. ASSUME NEW n \in T PROVE m <= n
    <2>1. n \in Nat /\ m \in Nat
      OBVIOUS
    <2>2. ~(n < m)
      BY <1>2, <1>3, <2>1
    <2> QED BY <2>1, <2>2
  <1> QED BY <1>4

LEMMA SetInduction ==
    ASSUME NEW P, 0 \in P, \A n \in Nat : n \in P => n + 1 \in P
    PROVE  Nat \subseteq P
  <1> DEFINE T == Nat \ P
  <1>1. ASSUME T # {} PROVE FALSE
    <2>1. PICK m \in T : \A n \in T : m <= n
      BY <1>1, NatLeast
    <2>2. m # 0 /\ m - 1 \in Nat /\ m - 1 \notin T
      BY <2>1
    <2> QED BY <2>1, <2>2
  <1> QED BY <1>1

(* Function h is given by its value a at 0 and each value by the last one. *)
Recursive(h, a, step, n) == h[0] = a /\ \A i \in 1..n : h[i] = step[<<i, h[i - 1]>>]

(* A recursion over 0..L has a solution.                                   *)
LEMMA RecursionExists ==
    ASSUME NEW S, NEW a \in S, NEW step \in [Nat \X S -> S], NEW L \in Nat
    PROVE  \E h \in [0..L -> S] : Recursive(h, a, step, L)
  <1> DEFINE P == {n \in Nat : \E g \in [0..n -> S] : Recursive(g, a, step, n)}
  <1>1. 0 \in P
    <2>1. [i \in 0..0 |-> a] \in [0..0 -> S] /\ Recursive([i \in 0..0 |-> a], a, step, 0)
      BY DEF Recursive
    <2> QED BY <2>1
  <1>2. ASSUME NEW n \in Nat, n \in P PROVE n + 1 \in P
    <2>1. PICK g \in [0..n -> S] : Recursive(g, a, step, n)
      BY <1>2
    <2> DEFINE x == step[<<n + 1, g[n]>>]
               h == [i \in 0..(n + 1) |-> IF i = n + 1 THEN x ELSE g[i]]
    <2>2. x \in S
      BY <2>1 DEF Recursive
    <2>3. \A i \in 0..(n + 1) : i = n + 1 \/ i \in 0..n
      OBVIOUS
    <2>4. h \in [0..(n + 1) -> S]
      BY <2>2, <2>3
    <2>5. h[0] = a
      BY <2>1 DEF Recursive
    <2>6. ASSUME NEW i \in 1..(n + 1) PROVE h[i] = step[<<i, h[i - 1]>>]
      <3>1. i - 1 \in 0..n /\ h[i - 1] = g[i - 1]
        BY <2>1
      <3>2. CASE i = n + 1
        <4>1. h[i] = x /\ i - 1 = n
          BY <3>2
        <4> QED BY <3>1, <3>2, <4>1
      <3>3. CASE i # n + 1
        <4>1. i \in 1..n /\ h[i] = g[i]
          BY <3>3
        <4>2. g[i] = step[<<i, g[i - 1]>>]
          BY <2>1, <4>1 DEF Recursive
        <4> QED BY <3>1, <4>1, <4>2
      <3> QED BY <3>2, <3>3
    <2>7. Recursive(h, a, step, n + 1)
      BY <2>5, <2>6 DEF Recursive
    <2> HIDE DEF h
    <2> QED BY <2>4, <2>7
  <1> HIDE DEF P
  <1>3. L \in P
    BY <1>1, <1>2, SetInduction
  <1> QED BY <1>3 DEF P
=============================================================================
