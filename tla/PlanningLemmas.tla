--------------------------- MODULE PlanningLemmas ---------------------------
(***************************************************************************)
(* What the operators of the planner return, for every request that is     *)
(* accepted: rows in ascending order and stable sorts, the canonical       *)
(* request, the cost of a route, the plan that validate_plan accepts.  At  *)
(* the end the inductive invariant over the analysis of every logical edge,*)
(* and what the steps of an analysis leave alone.                          *)
(***************************************************************************)
EXTENDS Planning, SetSums, SequenceTheorems

-----------------------------------------------------------------------------
(* Sequences *)

\* A function on 1..n is a sequence of length n.
LEMMA RowIsSeq ==
    ASSUME NEW n \in Nat, NEW S, NEW q \in [1..n -> S]
    PROVE  q \in Seq(S) /\ Len(q) = n /\ DOMAIN q = 1..n
<1>1. q \in Seq(S)
    BY SeqDef
<1>2. DOMAIN q = 1..n /\ DOMAIN q = 1..Len(q) /\ Len(q) \in Nat
    BY <1>1, LenProperties
<1>3. Len(q) = n
    <2>1. \A k \in Nat : k \in 1..n <=> k \in 1..Len(q)
        BY <1>2
    <2>2. (n \in 1..n <=> n \in 1..Len(q)) /\ (Len(q) \in 1..n <=> Len(q) \in 1..Len(q))
        BY <1>2, <2>1
    <2>3. QED
        BY <1>2, <2>2
<1>4. QED
    BY <1>1, <1>2, <1>3

-----------------------------------------------------------------------------
(* Orders *)

\* R puts the elements of S in a row.
StrictOrder(R, S) ==
    /\ \A x \in S : <<x, x>> \notin R
    /\ \A x, y \in S : x # y => <<x, y>> \in R \/ <<y, x>> \in R
    /\ \A x, y, z \in S : <<x, y>> \in R /\ <<y, z>> \in R => <<x, z>> \in R

Below(R, S, x) == {y \in S : <<y, x>> \in R}

\* What comes later in the row has more below it.
LEMMA BelowGrows ==
    ASSUME NEW S, IsFiniteSet(S), NEW R, StrictOrder(R, S), NEW x \in S, NEW y \in S,
           <<x, y>> \in R
    PROVE  Cardinality(Below(R, S, x)) < Cardinality(Below(R, S, y))
<1>1. PICK B : B = Below(R, S, x)
    OBVIOUS
<1>2. IsFiniteSet(B) /\ IsFiniteSet(Below(R, S, y))
    BY <1>1, FS_Subset DEF Below
<1>3. x \notin B
    BY <1>1 DEF Below, StrictOrder
<1>4. Cardinality(B \cup {x}) = Cardinality(B) + 1
    BY <1>2, <1>3, FS_AddElement
<1>5. B \cup {x} \subseteq Below(R, S, y)
    BY <1>1 DEF Below, StrictOrder
<1>6. Cardinality(B \cup {x}) <= Cardinality(Below(R, S, y))
    BY <1>2, <1>5, FS_Subset
<1>7. Cardinality(B) \in Nat /\ Cardinality(Below(R, S, y)) \in Nat
    BY <1>2, FS_CardinalityType
<1>8. QED
    BY <1>1, <1>4, <1>6, <1>7

\* Every rank is somebody's, and nobody shares it.
LEMMA Ranks ==
    ASSUME NEW S, IsFiniteSet(S), NEW R, StrictOrder(R, S)
    PROVE  /\ \A i \in 1..Cardinality(S) : \E x \in S : Cardinality(Below(R, S, x)) = i - 1
           /\ \A x, y \in S : Cardinality(Below(R, S, x)) = Cardinality(Below(R, S, y)) => x = y
           /\ \A x \in S : Cardinality(Below(R, S, x)) \in 0..(Cardinality(S) - 1)
<1>1. PICK n : n = Cardinality(S)
    OBVIOUS
<1>2. n \in Nat
    BY <1>1, FS_CardinalityType
<1>3. PICK f : f = [x \in S |-> Cardinality(Below(R, S, x))]
    OBVIOUS
<1>4. \A x, y \in S : f[x] = f[y] => x = y
    <2> SUFFICES ASSUME NEW x \in S, NEW y \in S, f[x] = f[y], x # y PROVE FALSE
        OBVIOUS
    <2>1. IsFiniteSet(Below(R, S, x)) /\ IsFiniteSet(Below(R, S, y))
        BY FS_Subset DEF Below
    <2>2. f[x] \in Nat /\ f[y] \in Nat
        BY <1>3, <2>1, FS_CardinalityType
    <2>3. f[x] < f[y] \/ f[y] < f[x]
        BY <1>3, BelowGrows DEF StrictOrder
    <2>4. QED
        BY <2>2, <2>3
<1>5. \A x \in S : f[x] \in 0..(n - 1)
    <2> SUFFICES ASSUME NEW x \in S PROVE f[x] \in 0..(n - 1)
        OBVIOUS
    <2>1. Below(R, S, x) \subseteq S \ {x}
        BY DEF Below, StrictOrder
    <2>2. IsFiniteSet(S \ {x}) /\ Cardinality(S \ {x}) = n - 1
        BY <1>1, FS_RemoveElement
    <2>3. IsFiniteSet(Below(R, S, x)) /\ Cardinality(Below(R, S, x)) <= n - 1
        BY <2>1, <2>2, FS_Subset
    <2>4. Cardinality(Below(R, S, x)) \in Nat
        BY <2>3, FS_CardinalityType
    <2>5. QED
        BY <1>2, <1>3, <2>3, <2>4
<1>6. IsFiniteSet(0..(n - 1)) /\ Cardinality(0..(n - 1)) = n
    <2>1. /\ IsFiniteSet(0..(n - 1))
          /\ Cardinality(0..(n - 1)) = IF 0 > n - 1 THEN 0 ELSE n - 1 - 0 + 1
        BY <1>2, FS_Interval
    <2>2. QED
        BY <1>2, <2>1
<1>7. f \in Injection(S, 0..(n - 1))
    BY <1>3, <1>4, <1>5 DEF Injection, IsInjective
<1>8. f \in Surjection(S, 0..(n - 1))
    BY <1>1, <1>6, <1>7, FS_Injection
<1>9. \A i \in 1..n : \E x \in S : f[x] = i - 1
    <2> SUFFICES ASSUME NEW i \in 1..n PROVE \E x \in S : f[x] = i - 1
        OBVIOUS
    <2>1. i - 1 \in 0..(n - 1)
        BY <1>2
    <2>2. QED
        BY <1>8, <2>1 DEF Surjection
<1>10. QED
    BY <1>1, <1>3, <1>4, <1>5, <1>9

\* q lists S by rank.
Ranked(q, R, S) ==
    /\ DOMAIN q = 1..Cardinality(S)
    /\ \A i \in 1..Cardinality(S) : q[i] \in S /\ Cardinality(Below(R, S, q[i])) = i - 1

\* A list by rank holds every element once.
LEMMA RankedIsRow ==
    ASSUME NEW S, IsFiniteSet(S), NEW R, StrictOrder(R, S), NEW q, Ranked(q, R, S)
    PROVE  /\ \A x \in S : \E i \in 1..Cardinality(S) : q[i] = x
           /\ \A i, j \in 1..Cardinality(S) : q[i] = q[j] => i = j
           /\ \A i, j \in 1..Cardinality(S) : i < j => <<q[i], q[j]>> \in R
<1>1. PICK n : n = Cardinality(S)
    OBVIOUS
<1>2. n \in Nat
    BY <1>1, FS_CardinalityType
<1>3. ASSUME NEW x \in S PROVE \E i \in 1..n : q[i] = x
    <2>1. PICK k : k = Cardinality(Below(R, S, x))
        OBVIOUS
    <2>2. k \in 0..(n - 1)
        BY <1>1, <2>1, Ranks
    <2>3. k + 1 \in 1..n /\ (k + 1) - 1 = k
        BY <1>2, <2>2
    <2>4. q[k + 1] \in S /\ Cardinality(Below(R, S, q[k + 1])) = k
        BY <1>1, <2>3 DEF Ranked
    <2>5. q[k + 1] = x
        BY <2>1, <2>4, Ranks
    <2>6. QED
        BY <2>3, <2>5
<1>4. ASSUME NEW i \in 1..n, NEW j \in 1..n, q[i] = q[j] PROVE i = j
    <2>1. i - 1 = j - 1
        BY <1>1, <1>4 DEF Ranked
    <2>2. QED
        BY <1>2, <2>1
<1>5. ASSUME NEW i \in 1..n, NEW j \in 1..n, i < j PROVE <<q[i], q[j]>> \in R
    <2>1. q[i] \in S /\ q[j] \in S /\ q[i] # q[j]
        BY <1>1, <1>2, <1>4, <1>5 DEF Ranked
    <2>2. Cardinality(Below(R, S, q[i])) = i - 1 /\ Cardinality(Below(R, S, q[j])) = j - 1
        BY <1>1 DEF Ranked
    <2>3. <<q[j], q[i]>> \in R => j - 1 < i - 1
        BY <2>1, <2>2, BelowGrows
    <2>4. ~(<<q[j], q[i]>> \in R)
        BY <1>2, <1>5, <2>3
    <2>5. QED
        BY <2>1, <2>4 DEF StrictOrder
<1>6. QED
    BY <1>1, <1>3, <1>4, <1>5

\* A finite set that is put in a row has a first element.
LEMMA RowFirst ==
    ASSUME NEW S, IsFiniteSet(S), S # {}, NEW R, StrictOrder(R, S)
    PROVE  \E x \in S : \A y \in S : y # x => <<x, y>> \in R
<1>1. Cardinality(S) \in Nat /\ Cardinality(S) # 0
    BY FS_CardinalityType, FS_EmptySet
<1>2. 1 \in 1..Cardinality(S)
    BY <1>1
<1>3. PICK x \in S : Cardinality(Below(R, S, x)) = 0
    BY <1>2, Ranks
<1>4. IsFiniteSet(Below(R, S, x))
    BY FS_Subset DEF Below
<1>5. Below(R, S, x) = {}
    BY <1>3, <1>4, FS_EmptySet
<1>6. QED
    BY <1>5 DEF Below, StrictOrder

-----------------------------------------------------------------------------
(* Ordered, Sorted and Among *)

\* A list by rank is a sequence of the elements, each once, in their order.
LEMMA RankedIsSeq ==
    ASSUME NEW S, IsFiniteSet(S), NEW R, StrictOrder(R, S), NEW q \in [1..Cardinality(S) -> S],
           Ranked(q, R, S)
    PROVE  /\ q \in Seq(S) /\ Len(q) = Cardinality(S) /\ DOMAIN q = 1..Cardinality(S)
           /\ \A x \in S : \E i \in DOMAIN q : q[i] = x
           /\ \A i, j \in DOMAIN q : q[i] = q[j] => i = j
           /\ \A i, j \in DOMAIN q : i < j => <<q[i], q[j]>> \in R
<1>1. Cardinality(S) \in Nat
    BY FS_CardinalityType
<1>2. q \in Seq(S) /\ Len(q) = Cardinality(S) /\ DOMAIN q = 1..Cardinality(S)
    BY <1>1, RowIsSeq
<1>3. QED
    BY <1>2, RankedIsRow

\* The numbers of T in their order.
Numbers(T) == Ordered(T, <)

\* In their order, finitely many numbers form a row without repeats.
LEMMA NumbersInOrder ==
    ASSUME NEW S, IsFiniteSet(S), S \subseteq Int
    PROVE  /\ Numbers(S) \in Seq(S) /\ Len(Numbers(S)) = Cardinality(S)
           /\ DOMAIN Numbers(S) = 1..Cardinality(S)
           /\ \A x \in S : \E i \in DOMAIN Numbers(S) : Numbers(S)[i] = x
           /\ \A i, j \in DOMAIN Numbers(S) : Numbers(S)[i] = Numbers(S)[j] => i = j
           /\ \A i, j \in DOMAIN Numbers(S) : i < j => Numbers(S)[i] < Numbers(S)[j]
<1> DEFINE c(i) == CHOOSE x \in S : Cardinality({y \in S : y < x}) = i - 1
<1>1. PICK R : R = {z \in S \X S : z[1] < z[2]}
    OBVIOUS
<1>2. \A x, y \in S : <<x, y>> \in R <=> x < y
    BY <1>1
<1>3. StrictOrder(R, S)
    BY <1>2 DEF StrictOrder
<1>4. \A x \in S : {y \in S : y < x} = Below(R, S, x)
    BY <1>2 DEF Below
<1>5. PICK n : n = Cardinality(S)
    OBVIOUS
<1>6. PICK q : q = Numbers(S)
    OBVIOUS
<1>7. q = [i \in 1..n |-> c(i)]
    BY <1>5, <1>6 DEF Numbers, Ordered
<1>8. ASSUME NEW i \in 1..n PROVE c(i) \in S /\ Cardinality(Below(R, S, c(i))) = i - 1
    <2>1. \A k \in 1..n : \E x \in S : Cardinality(Below(R, S, x)) = k - 1
        BY <1>3, <1>5, Ranks
    <2>2. PICK x \in S : Cardinality(Below(R, S, x)) = i - 1
        BY <2>1
    <2>3. Cardinality({y \in S : y < x}) = i - 1
        BY <1>4, <2>2
    <2>4. c(i) \in S /\ Cardinality({y \in S : y < c(i)}) = i - 1
        BY <2>3
    <2>5. QED
        BY <1>4, <2>4
<1> HIDE DEF c
<1>9. q \in [1..n -> S] /\ \A i \in 1..n : q[i] = c(i)
    BY <1>7, <1>8
<1>10. Ranked(q, R, S)
    BY <1>5, <1>8, <1>9 DEF Ranked
<1>11. /\ q \in Seq(S) /\ Len(q) = n /\ DOMAIN q = 1..n
       /\ \A x \in S : \E i \in DOMAIN q : q[i] = x
       /\ \A i, j \in DOMAIN q : q[i] = q[j] => i = j
       /\ \A i, j \in DOMAIN q : i < j => <<q[i], q[j]>> \in R
    BY <1>3, <1>5, <1>9, <1>10, RankedIsSeq
<1>12. \A i, j \in DOMAIN q : i < j => q[i] < q[j]
    BY <1>2, <1>9, <1>11
<1>13. QED
    BY <1>5, <1>6, <1>11, <1>12

\* What Among takes of a sequence: what it holds at the positions.
LEMMA AmongIsRow ==
    ASSUME NEW s, NEW T
    PROVE  Among(s, T) = [k \in DOMAIN Numbers(T) |-> s[Numbers(T)[k]]]
BY DEF Among, Numbers

\* L orders X, possibly with ties.
WeakOrder(L, X) ==
    /\ \A x \in X : <<x, x>> \notin L
    /\ \A x, y, z \in X : <<x, y>> \in L /\ <<y, z>> \in L => <<x, z>> \in L
    /\ \A x, y, z \in X : <<x, y>> \notin L /\ <<y, z>> \notin L => <<x, z>> \notin L

\* Position i of s comes before position j in a stable sort.
Precedes(L, s) ==
    {z \in (DOMAIN s) \X (DOMAIN s) :
        \/ <<s[z[1]], s[z[2]]>> \in L
        \/ <<s[z[2]], s[z[1]]>> \notin L /\ z[1] < z[2]}

\* Precedes, for two positions.
LEMMA PrecedesPair ==
    ASSUME NEW L, NEW s, NEW i \in DOMAIN s, NEW j \in DOMAIN s
    PROVE  <<i, j>> \in Precedes(L, s) <=>
               \/ <<s[i], s[j]>> \in L
               \/ <<s[j], s[i]>> \notin L /\ i < j
<1>1. <<i, j>> \in (DOMAIN s) \X (DOMAIN s)
    OBVIOUS
<1>2. QED
    BY <1>1 DEF Precedes

\* A stable sort has one order to put the positions in.
LEMMA StableOrder ==
    ASSUME NEW X, NEW L, WeakOrder(L, X), NEW s \in Seq(X)
    PROVE  StrictOrder(Precedes(L, s), DOMAIN s)
<1>1. PICK D : D = DOMAIN s
    OBVIOUS
<1>2. D \subseteq Nat /\ \A i \in D : s[i] \in X
    BY <1>1, LenProperties, ElementOfSeq
<1>3. PICK R : R = Precedes(L, s)
    OBVIOUS
<1>4. \A i, j \in D : <<i, j>> \in R <=>
          \/ <<s[i], s[j]>> \in L
          \/ <<s[j], s[i]>> \notin L /\ i < j
    BY <1>1, <1>3, PrecedesPair
<1>5. ASSUME NEW i \in D PROVE <<i, i>> \notin R
    <2>1. <<s[i], s[i]>> \notin L
        BY <1>2 DEF WeakOrder
    <2>2. ~(i < i)
        BY <1>2
    <2>3. QED
        BY <1>4, <2>1, <2>2
<1>6. ASSUME NEW i \in D, NEW j \in D, i # j PROVE <<i, j>> \in R \/ <<j, i>> \in R
    <2>1. i < j \/ j < i
        BY <1>2, <1>6
    <2>2. QED
        BY <1>4, <2>1
<1>7. ASSUME NEW i \in D, NEW j \in D, NEW k \in D, <<i, j>> \in R, <<j, k>> \in R
      PROVE  <<i, k>> \in R
    <2>0. s[i] \in X /\ s[j] \in X /\ s[k] \in X
        BY <1>2
    <2>1. CASE <<s[i], s[j]>> \in L /\ <<s[j], s[k]>> \in L
        BY <1>4, <2>0, <2>1 DEF WeakOrder
    <2>2. CASE <<s[i], s[j]>> \in L /\ <<s[k], s[j]>> \notin L
        <3>1. <<s[i], s[k]>> \in L
            BY <2>0, <2>2 DEF WeakOrder
        <3>2. QED
            BY <1>4, <3>1
    <2>3. CASE <<s[j], s[i]>> \notin L /\ <<s[j], s[k]>> \in L
        <3>1. <<s[i], s[k]>> \in L
            BY <2>0, <2>3 DEF WeakOrder
        <3>2. QED
            BY <1>4, <3>1
    <2>4. CASE <<s[j], s[i]>> \notin L /\ i < j /\ <<s[k], s[j]>> \notin L /\ j < k
        <3>1. <<s[k], s[i]>> \notin L
            BY <2>0, <2>4 DEF WeakOrder
        <3>2. i < k
            BY <1>2, <2>4
        <3>3. QED
            BY <1>4, <3>1, <3>2
    <2>5. QED
        BY <1>4, <1>7, <2>1, <2>2, <2>3, <2>4
<1>8. QED
    BY <1>1, <1>3, <1>5, <1>6, <1>7 DEF StrictOrder

\* p puts the positions of s in the order of a stable sort.
Places(p, L, s) ==
    /\ p \in [DOMAIN s -> DOMAIN s]
    /\ \A i, j \in DOMAIN s : p[i] = p[j] => i = j
    /\ \A k \in DOMAIN s : \E i \in DOMAIN s : p[i] = k
    /\ \A i, j \in DOMAIN s : i < j => <<p[i], p[j]>> \in Precedes(L, s)

\* There is a position for every place, and picking it is a stable sort.
LEMMA PlacesExist ==
    ASSUME NEW X, NEW L, WeakOrder(L, X), NEW s \in Seq(X)
    PROVE  /\ \A k \in DOMAIN s : \E i \in DOMAIN s :
                  1 + Cardinality(Below(Precedes(L, s), DOMAIN s, i)) = k
           /\ \A p \in [DOMAIN s -> DOMAIN s] :
                  (\A k \in DOMAIN s : 1 + Cardinality(Below(Precedes(L, s), DOMAIN s, p[k])) = k)
                      => Places(p, L, s)
<1>1. PICK D : D = DOMAIN s
    OBVIOUS
<1>2. PICK R : R = Precedes(L, s)
    OBVIOUS
<1>3. StrictOrder(R, D)
    BY <1>1, <1>2, StableOrder
<1>4. PICK n \in Nat : D = 1..n
    BY <1>1, LenProperties
<1>5. IsFiniteSet(D) /\ Cardinality(D) = n
    <2>1. /\ IsFiniteSet(1..n)
          /\ Cardinality(1..n) = IF 1 > n THEN 0 ELSE n - 1 + 1
        BY FS_Interval
    <2>2. QED
        BY <1>4, <2>1
<1>6. \A i \in D : Cardinality(Below(R, D, i)) \in Nat
    BY <1>5, FS_Subset, FS_CardinalityType DEF Below
<1>7. ASSUME NEW k \in D PROVE \E i \in D : 1 + Cardinality(Below(R, D, i)) = k
    <2>0. \A x \in 1..Cardinality(D) : \E i \in D : Cardinality(Below(R, D, i)) = x - 1
        BY <1>3, <1>5, Ranks
    <2>01. k \in 1..Cardinality(D)
        BY <1>4, <1>5
    <2>1. PICK i \in D : Cardinality(Below(R, D, i)) = k - 1
        BY <2>0, <2>01
    <2>2. 1 + Cardinality(Below(R, D, i)) = k
        BY <1>4, <2>1
    <2>3. QED
        BY <2>2
<1>8. ASSUME NEW p \in [D -> D],
             \A k \in D : 1 + Cardinality(Below(R, D, p[k])) = k
      PROVE  Places(p, L, s)
    <2>1. Ranked(p, R, D)
        <3>1. ASSUME NEW k \in D
              PROVE  p[k] \in D /\ Cardinality(Below(R, D, p[k])) = k - 1
            <4>1. p[k] \in D /\ k \in Nat
                BY <1>4
            <4>2. Cardinality(Below(R, D, p[k])) \in Nat /\ 1 + Cardinality(Below(R, D, p[k])) = k
                BY <1>6, <1>8, <4>1
            <4>3. QED
                BY <4>1, <4>2
        <3>2. QED
            BY <1>4, <1>5, <3>1 DEF Ranked
    <2>2. p \in [1..Cardinality(D) -> D] /\ D = 1..Cardinality(D)
        BY <1>4, <1>5
    <2>3. /\ \A x \in D : \E i \in DOMAIN p : p[i] = x
          /\ \A i, j \in DOMAIN p : p[i] = p[j] => i = j
          /\ \A i, j \in DOMAIN p : i < j => <<p[i], p[j]>> \in R
        BY <1>3, <1>5, <2>1, <2>2, RankedIsSeq
    <2>4. QED
        BY <1>1, <1>2, <2>3 DEF Places
<1>9. QED
    BY <1>1, <1>2, <1>7, <1>8

-----------------------------------------------------------------------------
(* The edges of the fabric *)

SortedEdges(s) == Sorted(s, EdgeLess)
EdgeOrder == {z \in FabricEdges \X FabricEdges : EdgeLess(z[1], z[2])}

\* EdgeLess is a weak order of the edges of a fabric.
LEMMA EdgeOrderIsWeak == WeakOrder(EdgeOrder, FabricEdges)
<1>1. \A x, y \in FabricEdges : <<x, y>> \in EdgeOrder <=>
          \/ x.from < y.from \/ (x.from = y.from /\ x.to < y.to)
          \/ (x.from = y.from /\ x.to = y.to /\ x.id < y.id)
    BY DEF EdgeOrder, EdgeLess, LexLess
<1>2. \A x \in FabricEdges : x.from \in Int /\ x.to \in Int /\ x.id \in Int
    BY DEF FabricEdges
<1>3. ASSUME NEW x \in FabricEdges, NEW y \in FabricEdges, NEW z \in FabricEdges
      PROVE  /\ <<x, x>> \notin EdgeOrder
             /\ <<x, y>> \in EdgeOrder /\ <<y, z>> \in EdgeOrder => <<x, z>> \in EdgeOrder
             /\ <<x, y>> \notin EdgeOrder /\ <<y, z>> \notin EdgeOrder => <<x, z>> \notin EdgeOrder
    <2>1. /\ x.from \in Int /\ x.to \in Int /\ x.id \in Int
          /\ y.from \in Int /\ y.to \in Int /\ y.id \in Int
          /\ z.from \in Int /\ z.to \in Int /\ z.id \in Int
        BY <1>2
    <2>2. QED
        BY <1>1, <2>1
<1>4. QED
    BY <1>3 DEF WeakOrder

\* FabricGraph::build keeps every edge and sorts them.
LEMMA EdgesAreSorted ==
    ASSUME NEW s \in Seq(FabricEdges)
    PROVE  \E p : Places(p, EdgeOrder, s) /\ SortedEdges(s) = [k \in DOMAIN s |-> s[p[k]]]
<1> DEFINE before(i, j) == EdgeLess(s[i], s[j]) \/ (~EdgeLess(s[j], s[i]) /\ i < j)
           c(k) == CHOOSE i \in DOMAIN s : 1 + Cardinality({j \in DOMAIN s : before(j, i)}) = k
<1>1. SortedEdges(s) = [k \in DOMAIN s |-> s[c(k)]]
    BY DEF SortedEdges, Sorted
<1>2. PICK D : D = DOMAIN s
    OBVIOUS
<1>3. \A i \in D : s[i] \in FabricEdges
    BY <1>2, ElementOfSeq, LenProperties
<1>4. PICK R : R = Precedes(EdgeOrder, s)
    OBVIOUS
<1>5. ASSUME NEW i \in D, NEW j \in D PROVE before(i, j) <=> <<i, j>> \in R
    <2>1. s[i] \in FabricEdges /\ s[j] \in FabricEdges
        BY <1>3
    <2>2. /\ <<s[i], s[j]>> \in EdgeOrder <=> EdgeLess(s[i], s[j])
          /\ <<s[j], s[i]>> \in EdgeOrder <=> EdgeLess(s[j], s[i])
        BY <2>1 DEF EdgeOrder
    <2>3. QED
        BY <1>2, <1>4, <2>2, PrecedesPair
<1>6. \A i \in D : {j \in D : before(j, i)} = Below(R, D, i)
    BY <1>5 DEF Below
<1>7. \A k \in D : \E i \in D : 1 + Cardinality(Below(R, D, i)) = k
    BY <1>2, <1>4, EdgeOrderIsWeak, PlacesExist
<1>8. ASSUME NEW k \in D PROVE c(k) \in D /\ 1 + Cardinality(Below(R, D, c(k))) = k
    <2>1. PICK i \in D : 1 + Cardinality(Below(R, D, i)) = k
        BY <1>7
    <2>2. 1 + Cardinality({j \in D : before(j, i)}) = k
        BY <1>6, <2>1
    <2>3. c(k) \in D /\ 1 + Cardinality({j \in D : before(j, c(k))}) = k
        BY <1>2, <2>2
    <2>4. QED
        BY <1>6, <2>3
<1> HIDE DEF c, before
<1>9. PICK p : p = [k \in D |-> c(k)]
    OBVIOUS
<1>10. p \in [D -> D] /\ \A k \in D : 1 + Cardinality(Below(R, D, p[k])) = k
    BY <1>8, <1>9
<1>11. Places(p, EdgeOrder, s)
    BY <1>2, <1>4, <1>10, EdgeOrderIsWeak, PlacesExist
<1>12. SortedEdges(s) = [k \in DOMAIN s |-> s[p[k]]]
    BY <1>1, <1>2, <1>9
<1>13. QED
    BY <1>11, <1>12

-----------------------------------------------------------------------------
(* The request that build_request makes of an accepted specification *)

BuiltBindings == [participant : Int, node : Int, domains : SUBSET Int, tiers : SUBSET Int]
BuiltPolicies ==
    [generation : Nat, max_hops : Nat, paths_per_logical_edge : Nat,
     disjointness : {"none", "edge", "node"}, diversity : {"none", "preferred", "required"},
     diversity_level : Nat, evidence : {"any", "synthetic", "measured"}, latency_weight : Nat,
     congestion_weight : Nat, max_path_cost : Nat, allow_unverified : BOOLEAN,
     forbidden_nodes : SUBSET Int, forbidden_tiers : SUBSET Int, forbidden_domains : SUBSET Int,
     allowed_tiers : SUBSET Int, max_search_expansions : Nat]

FabricBuilt(r) ==
    /\ r.fabric.edges \in Seq(FabricEdges)
    /\ \A i, j \in DOMAIN r.fabric.edges : r.fabric.edges[i].id = r.fabric.edges[j].id => i = j
    /\ \A i \in DOMAIN r.fabric.edges :
          /\ r.fabric.edges[i].reserved <= r.fabric.edges[i].capacity
          /\ r.fabric.edges[i].capacity <= MaxCapacity
    /\ r.fabric.nodes \subseteq Nodes /\ IsFiniteSet(r.fabric.nodes)

PolicyBuilt(r) ==
    /\ r.policy \in BuiltPolicies
    /\ r.policy.max_hops # 0 /\ r.policy.paths_per_logical_edge # 0

BindingsBuilt(r) ==
    /\ r.bindings \subseteq BuiltBindings
    /\ \A b, c \in r.bindings : b.participant = c.participant => b = c

Built(r) ==
    /\ FabricBuilt(r) /\ PolicyBuilt(r) /\ BindingsBuilt(r)
    /\ r.collective.demand \in Nat

\* What a sequence holds is in the set it is a sequence of.
LEMMA ToSetIn ==
    ASSUME NEW X, NEW s \in Seq(X)
    PROVE  ToSet(s) \subseteq X /\ IsFiniteSet(ToSet(s)) /\ Cardinality(ToSet(s)) <= Len(s)
<1>1. PICK n \in Nat : n = Len(s) /\ DOMAIN s = 1..n
    BY LenProperties
<1>2. ToSet(s) \subseteq X
    BY <1>1, ElementOfSeq DEF ToSet
<1>3. IsFiniteSet(1..n) /\ Cardinality(1..n) = n
    <2>1. /\ IsFiniteSet(1..n)
          /\ Cardinality(1..n) = IF 1 > n THEN 0 ELSE n - 1 + 1
        BY FS_Interval
    <2>2. QED
        BY <2>1
<1>4. PICK f : f = [i \in 1..n |-> s[i]]
    OBVIOUS
<1>5. f \in Surjection(1..n, ToSet(s))
    BY <1>1, <1>4 DEF Surjection, ToSet
<1>6. IsFiniteSet(ToSet(s)) /\ Cardinality(ToSet(s)) <= n
    BY <1>3, <1>5, FS_Surjection
<1>7. QED
    BY <1>1, <1>2, <1>6

\* FabricGraph::build keeps the edges apart by their identifiers.
LEMMA FabricIsBuilt ==
    ASSUME NEW spec \in Declarations, FabricAccepted(spec), NEW r, r.fabric = BuiltFabric(spec)
    PROVE  FabricBuilt(r)
<1>1. spec.edges \in Seq(FabricEdges) /\ spec.nodes \in Seq(Nodes)
    BY DEF Declarations
<1>2. PICK s : s = spec.edges
    OBVIOUS
<1>3. /\ \A e \in ToSet(s) : EdgeAccepted(spec, e)
      /\ \A i, j \in DOMAIN s : s[i].id = s[j].id => i = j
    BY <1>2 DEF FabricAccepted, DistinctBy
<1>4. r.fabric.edges = SortedEdges(s)
    BY <1>2 DEF BuiltFabric, SortedEdges, Sorted
<1>5. r.fabric.nodes = ToSet(spec.nodes)
    BY DEF BuiltFabric, Sorted
<1>6. PICK p : Places(p, EdgeOrder, s) /\ SortedEdges(s) = [k \in DOMAIN s |-> s[p[k]]]
    BY <1>1, <1>2, EdgesAreSorted
<1>7. PICK E : E = r.fabric.edges
    OBVIOUS
<1>8. PICK n \in Nat : DOMAIN s = 1..n
    BY <1>1, <1>2, LenProperties
<1>9. \A k \in 1..n : p[k] \in 1..n /\ s[p[k]] \in FabricEdges
    <2>1. \A k \in 1..n : s[k] \in FabricEdges
        BY <1>1, <1>2, <1>8, ElementOfSeq, LenProperties
    <2>2. \A k \in 1..n : p[k] \in 1..n
        BY <1>6, <1>8 DEF Places
    <2>3. QED
        BY <2>1, <2>2
<1>10. E \in [1..n -> FabricEdges]
    BY <1>4, <1>6, <1>7, <1>8, <1>9
<1>11. E \in Seq(FabricEdges) /\ DOMAIN E = 1..n
    BY <1>10, RowIsSeq
<1>12. \A k \in 1..n : E[k] = s[p[k]]
    BY <1>4, <1>6, <1>7, <1>8
<1>13. ASSUME NEW i \in 1..n, NEW j \in 1..n, E[i].id = E[j].id PROVE i = j
    <2>1. s[p[i]].id = s[p[j]].id
        BY <1>12, <1>13
    <2>2. p[i] = p[j]
        BY <1>3, <1>8, <1>9, <2>1
    <2>3. QED
        BY <1>6, <1>8, <2>2 DEF Places
<1>14. ASSUME NEW i \in 1..n PROVE E[i].reserved <= E[i].capacity /\ E[i].capacity <= MaxCapacity
    <2>1. E[i] \in ToSet(s)
        BY <1>8, <1>9, <1>12 DEF ToSet
    <2>2. QED
        BY <1>3, <2>1 DEF EdgeAccepted
<1>15. r.fabric.nodes \subseteq Nodes /\ IsFiniteSet(r.fabric.nodes)
    BY <1>1, <1>5, ToSetIn
<1>16. QED
    BY <1>7, <1>11, <1>13, <1>14, <1>15 DEF FabricBuilt

\* Policy::validate bounds what the planner divides by and counts to.
LEMMA PolicyIsBuilt ==
    ASSUME NEW spec \in Declarations, PolicyAccepted(canonicalize(spec.policy)),
           NEW r, r.policy = canonicalize(spec.policy)
    PROVE  PolicyBuilt(r)
<1>1. PICK p : p = spec.policy
    OBVIOUS
<1>2. p \in Policies
    BY <1>1 DEF Declarations
<1>3. /\ p.forbidden_nodes \in Seq(Int) /\ p.forbidden_tiers \in Seq(Int)
      /\ p.forbidden_domains \in Seq(Int) /\ p.allowed_tiers \in Seq(Int)
    BY <1>2 DEF Policies
<1>4. /\ ToSet(p.forbidden_nodes) \in SUBSET Int /\ ToSet(p.forbidden_tiers) \in SUBSET Int
      /\ ToSet(p.forbidden_domains) \in SUBSET Int /\ ToSet(p.allowed_tiers) \in SUBSET Int
    BY <1>3, ToSetIn
<1>5. r.policy = [p EXCEPT !.forbidden_nodes = ToSet(@), !.forbidden_tiers = ToSet(@),
                           !.forbidden_domains = ToSet(@), !.allowed_tiers = ToSet(@)]
    BY <1>1 DEF canonicalize
<1>6. r.policy \in BuiltPolicies
    BY <1>2, <1>4, <1>5 DEF Policies, BuiltPolicies
<1>7. r.policy.max_hops \in 1..MaxHops /\ r.policy.paths_per_logical_edge \in 1..MaxPaths
    BY DEF PolicyAccepted
<1>8. QED
    BY <1>6, <1>7, RequestAssumption DEF PolicyBuilt

\* A participant is bound once.
LEMMA BindingsAreBuilt ==
    ASSUME NEW spec \in Declarations, NEW P, BindingsAccepted(spec, P),
           NEW r, r.bindings = {CanonicalBinding(b) : b \in ToSet(spec.bindings)}
    PROVE  BindingsBuilt(r)
<1>1. PICK s : s = spec.bindings
    OBVIOUS
<1>2. s \in Seq(Bindings)
    BY <1>1 DEF Declarations
<1>3. \A i, j \in DOMAIN s : s[i].participant = s[j].participant => i = j
    BY <1>1 DEF BindingsAccepted, DistinctBy
<1>4. \A i \in DOMAIN s : s[i] \in Bindings
    BY <1>2, ElementOfSeq, LenProperties
<1>5. ASSUME NEW b \in Bindings
      PROVE  /\ CanonicalBinding(b) \in BuiltBindings
             /\ CanonicalBinding(b).participant = b.participant
    <2>1. b.domains \in Seq(Int) /\ b.tiers \in Seq(Int)
        BY DEF Bindings
    <2>2. ToSet(b.domains) \in SUBSET Int /\ ToSet(b.tiers) \in SUBSET Int
        BY <2>1, ToSetIn
    <2>3. QED
        BY <2>2 DEF Bindings, BuiltBindings, CanonicalBinding
<1>6. \A b \in r.bindings : \E i \in DOMAIN s : b = CanonicalBinding(s[i])
    BY <1>1 DEF ToSet
<1>7. r.bindings \subseteq BuiltBindings
    BY <1>4, <1>5, <1>6
<1>8. ASSUME NEW b \in r.bindings, NEW c \in r.bindings, b.participant = c.participant PROVE b = c
    <2>1. PICK i \in DOMAIN s : b = CanonicalBinding(s[i])
        BY <1>6
    <2>2. PICK j \in DOMAIN s : c = CanonicalBinding(s[j])
        BY <1>6
    <2>3. s[i].participant = s[j].participant
        BY <1>4, <1>5, <1>8, <2>1, <2>2
    <2>4. QED
        BY <1>3, <2>1, <2>2, <2>3
<1>9. QED
    BY <1>7, <1>8 DEF BindingsBuilt

\* Collective::build keeps the demand.
LEMMA DemandIsKept ==
    ASSUME NEW spec
    PROVE  BuiltCollective(spec).demand = spec.demand
BY DEF BuiltCollective, Ordered

\* build_request makes a request of whatever it accepts.
LEMMA RequestIsBuilt ==
    ASSUME NEW spec \in Declarations, Accepts(spec)
    PROVE  Built(build_request(spec))
<1>1. PICK r : r = build_request(spec)
    OBVIOUS
<1>2. /\ r.fabric = BuiltFabric(spec) /\ r.policy = canonicalize(spec.policy)
      /\ r.bindings = {CanonicalBinding(b) : b \in ToSet(spec.bindings)}
      /\ r.collective = BuiltCollective(spec)
    BY <1>1 DEF build_request
<1>3. FabricAccepted(spec) /\ PolicyAccepted(canonicalize(spec.policy))
    BY DEF Accepts
<1>4. BindingsAccepted(spec, BuiltCollective(spec).participants)
    BY DEF Accepts
<1>5. r.collective.demand \in Nat
    BY <1>2, DemandIsKept DEF Declarations
<1>6. FabricBuilt(r)
    BY <1>2, <1>3, FabricIsBuilt
<1>7. PolicyBuilt(r)
    BY <1>2, <1>3, PolicyIsBuilt
<1>8. BindingsBuilt(r)
    BY <1>2, <1>4, BindingsAreBuilt
<1>9. QED
    BY <1>1, <1>5, <1>6, <1>7, <1>8 DEF Built

-----------------------------------------------------------------------------
(* What validate_plan establishes *)

Hops == [edge : Int, from : Int, to : Int]

\* A plan as a caller or the planner writes it: paths of hops.
PlanShape(q) ==
    \E n \in Nat : DOMAIN q.paths = 1..n /\ \A i \in 1..n : q.paths[i].hops \in Seq(Hops)

\* The edge a hop names, the route of a path, and where a participant is bound.
Carried(h) == CHOOSE e \in Edges : Edge(e).id = h.edge
RouteOf(p) == [i \in DOMAIN p.hops |-> CHOOSE e \in Edges : Edge(e).id = p.hops[i].edge]
At(participant) == CHOOSE b \in request.bindings : b.participant = participant
Visits(r, n) == <<n>> \o [i \in DOMAIN r |-> Edge(r[i]).to]
Share == (request.collective.demand + Wanted - 1) \div Wanted

\* The identifier of an edge is one edge's only.
LEMMA EdgeById ==
    ASSUME Built(request), NEW e \in Edges, NEW h, h.edge = Edge(e).id
    PROVE  Carried(h) = e /\ EdgeOf(request, h.edge) = {Edge(e)}
<1>1. \A i, j \in Edges : Edge(i).id = Edge(j).id => i = j
    BY DEF Built, FabricBuilt, Edges, Edge
<1>2. Carried(h) \in Edges /\ Edge(Carried(h)).id = h.edge
    BY DEF Carried
<1>3. EdgeOf(request, h.edge) = {Edge(e)}
    <2>1. \A x \in EdgeOf(request, h.edge) : \E i \in Edges : x = Edge(i) /\ Edge(i).id = h.edge
        BY DEF EdgeOf, ToSet, Edges, Edge
    <2>2. Edge(e) \in EdgeOf(request, h.edge)
        BY DEF EdgeOf, ToSet, Edges, Edge
    <2>3. QED
        BY <1>1, <2>1, <2>2
<1>4. QED
    BY <1>1, <1>2, <1>3

\* A hop the validation accepts crosses an edge of the fabric, in its direction, and
\* the edge satisfies the policy.
LEMMA HopIsEdge ==
    ASSUME Built(request), NEW h, NEW sides, HopAccepted(request, h, sides)
    PROVE  LET x == Edge(Carried(h)) IN
           /\ Carried(h) \in Edges /\ x.id = h.edge /\ x.from = h.from /\ x.to = h.to
           /\ {x.from, x.to} \cap Policy.forbidden_nodes = {}
           /\ x.tier \notin Policy.forbidden_tiers
           /\ Policy.allowed_tiers = {} \/ x.tier \in Policy.allowed_tiers
           /\ \A f \in Policy.forbidden_domains : ~domain_contains(request.fabric.domains, f, x.domain)
           /\ Policy.evidence = "synthetic" => x.evidence # 0
           /\ Policy.evidence = "measured" => x.evidence = 2
           /\ x.capacity = 0 => Policy.allow_unverified
           /\ x.capacity > 0 => x.reserved < x.capacity
           /\ \A b \in sides : binding_permits(request, b, x)
<1>1. PICK y \in EdgeOf(request, h.edge) :
          /\ y.from = h.from /\ y.to = h.to
          /\ {h.from, h.to} \cap Policy.forbidden_nodes = {}
          /\ y.tier \notin Policy.forbidden_tiers
          /\ Policy.allowed_tiers = {} \/ y.tier \in Policy.allowed_tiers
          /\ \A f \in Policy.forbidden_domains : ~domain_contains(request.fabric.domains, f, y.domain)
          /\ Policy.evidence = "synthetic" => y.evidence # 0
          /\ Policy.evidence = "measured" => y.evidence = 2
          /\ y.capacity = 0 => Policy.allow_unverified
          /\ y.capacity > 0 => y.reserved < y.capacity
          /\ \A b \in sides : binding_permits(request, b, y)
    BY DEF HopAccepted, Policy
<1>2. PICK e \in Edges : y = Edge(e) /\ Edge(e).id = h.edge
    BY <1>1 DEF EdgeOf, ToSet, Edges, Edge
<1>3. Carried(h) = e
    BY <1>2, EdgeById
<1>4. QED
    BY <1>1, <1>2, <1>3

\* The bindings of the two ends are the ones the validation looked up.
LEMMA BoundOnce ==
    ASSUME Built(request), NEW participant, NEW b \in find_binding(request, participant)
    PROVE  At(participant) = b
<1>1. b \in request.bindings /\ b.participant = participant
    BY DEF find_binding
<1>2. At(participant) \in request.bindings /\ At(participant).participant = participant
    BY <1>1 DEF At
<1>3. QED
    BY <1>1, <1>2 DEF Built, BindingsBuilt

\* A path the validation accepts is a simple route between the bound nodes.
LEMMA PathIsRoute ==
    ASSUME Built(request), NEW p, p.hops \in Seq(Hops), PathAccepted(request, p)
    PROVE  LET r == RouteOf(p)
               s == At(p.src)
               t == At(p.dst)
               v == Visits(r, s.node)
           IN /\ r \in Seq(Edges) /\ Len(r) = Len(p.hops)
              /\ \A k \in DOMAIN r : r[k] = Carried(p.hops[k])
              /\ Last(v) = t.node
              /\ IsInjective(v)
              /\ \A k \in DOMAIN r : /\ Edge(r[k]).from = v[k]
                                    /\ HopAccepted(request, p.hops[k], {s, t})
<1>1. PICK h : h = p.hops
    OBVIOUS
<1>2. h \in Seq(Hops)
    BY <1>1
<1>3. PICK n \in Nat : n = Len(h) /\ DOMAIN h = 1..n
    BY <1>2, LenProperties
<1>4. PICK s \in find_binding(request, p.src), t \in find_binding(request, p.dst) :
          /\ IF h = <<>> THEN s.node = t.node
             ELSE h[1].from = s.node /\ Last(h).to = t.node
          /\ \A i \in DOMAIN h : HopAccepted(request, h[i], {s, t})
    BY <1>1 DEF PathAccepted
<1>5. At(p.src) = s /\ At(p.dst) = t
    BY <1>4, BoundOnce
<1>6. /\ \A i, j \in 1..n : h[i].to = h[j].to => i = j
      /\ \A i \in 1..n : h[i].to # h[1].from
    BY <1>1, <1>3 DEF PathAccepted, hops_are_simple, DistinctBy
<1>7. \A i \in 1..(n - 1) : h[i].to = h[i + 1].from
    BY <1>1, <1>3 DEF PathAccepted
<1>8. PICK r : r = RouteOf(p)
    OBVIOUS
<1>9. r = [k \in 1..n |-> Carried(h[k])]
    BY <1>1, <1>3, <1>8 DEF RouteOf, Carried
<1>10. \A k \in 1..n : /\ Carried(h[k]) \in Edges
                       /\ Edge(Carried(h[k])).from = h[k].from /\ Edge(Carried(h[k])).to = h[k].to
    BY <1>3, <1>4, HopIsEdge
<1>11. r \in [1..n -> Edges]
    BY <1>9, <1>10
<1>12. r \in Seq(Edges) /\ Len(r) = n /\ DOMAIN r = 1..n
    BY <1>11, RowIsSeq
<1>13. \A k \in 1..n : r[k] = Carried(h[k]) /\ Edge(r[k]).from = h[k].from /\ Edge(r[k]).to = h[k].to
    BY <1>9, <1>10
<1>14. PICK w : w = [i \in DOMAIN r |-> Edge(r[i]).to]
    OBVIOUS
<1>15. PICK X : X = {s.node} \cup {h[k].to : k \in 1..n}
    OBVIOUS
<1>16. w \in Seq(X) /\ Len(w) = n /\ \A k \in 1..n : w[k] = h[k].to
    <2>1. w \in [1..n -> X] /\ \A k \in 1..n : w[k] = h[k].to
        BY <1>12, <1>13, <1>14, <1>15
    <2>2. QED
        BY <2>1, RowIsSeq
<1>17. PICK v : v = Visits(r, s.node)
    OBVIOUS
<1>18. v = <<s.node>> \o w
    BY <1>14, <1>17 DEF Visits
<1>19. /\ v \in Seq(X) /\ Len(v) = n + 1 /\ DOMAIN v = 1..(n + 1)
       /\ v[1] = s.node /\ \A k \in 1..n : v[k + 1] = h[k].to
    <2>1. <<s.node>> \in Seq(X) /\ Len(<<s.node>>) = 1 /\ <<s.node>>[1] = s.node
        BY <1>15
    <2>2. /\ v \in Seq(X) /\ Len(v) = 1 + n
          /\ \A i \in 1..(1 + n) : v[i] = IF i <= 1 THEN <<s.node>>[i] ELSE w[i - 1]
        BY <1>16, <1>18, <2>1, ConcatProperties
    <2>3. v[1] = s.node
        BY <2>1, <2>2
    <2>4. ASSUME NEW k \in 1..n PROVE v[k + 1] = h[k].to
        <3>1. k + 1 \in 1..(1 + n) /\ ~(k + 1 <= 1) /\ (k + 1) - 1 = k
            OBVIOUS
        <3>2. QED
            BY <1>16, <2>2, <3>1
    <2>5. DOMAIN v = 1..(n + 1)
        BY <2>2, LenProperties
    <2>6. QED
        BY <2>2, <2>3, <2>4, <2>5
<1>20. n # 0 => h[1].from = s.node /\ h[n].to = t.node
    BY <1>2, <1>3, <1>4 DEF Last
<1>21. n = 0 => s.node = t.node
    BY <1>2, <1>3, <1>4
<1>22. Last(v) = t.node
    <2>1. CASE n = 0
        BY <1>19, <1>21, <2>1 DEF Last
    <2>2. CASE n # 0
        BY <1>19, <1>20, <2>2 DEF Last
    <2>3. QED
        BY <2>1, <2>2
<1>23. IsInjective(v)
    <2>1. ASSUME NEW a \in 1..(n + 1), NEW b \in 1..(n + 1), v[a] = v[b], a # b PROVE FALSE
        <3>1. ASSUME NEW i \in 1..n PROVE v[i + 1] # v[1]
            <4>1. v[i + 1] = h[i].to /\ h[i].to # h[1].from
                BY <1>6, <1>19
            <4>2. h[1].from = v[1]
                BY <1>19, <1>20
            <4>3. QED
                BY <4>1, <4>2
        <3>2. ASSUME NEW i \in 1..n, NEW j \in 1..n, v[i + 1] = v[j + 1] PROVE i = j
            BY <1>6, <1>19, <3>2
        <3>3. CASE a = 1
            <4>1. PICK j \in 1..n : b = j + 1
                <5>1. b - 1 \in 1..n /\ b = (b - 1) + 1
                    BY <2>1, <3>3
                <5>2. QED
                    BY <5>1
            <4>2. QED
                BY <2>1, <3>1, <3>3, <4>1
        <3>4. CASE b = 1
            <4>1. PICK j \in 1..n : a = j + 1
                <5>1. a - 1 \in 1..n /\ a = (a - 1) + 1
                    BY <2>1, <3>4
                <5>2. QED
                    BY <5>1
            <4>2. QED
                BY <2>1, <3>1, <3>4, <4>1
        <3>5. CASE a # 1 /\ b # 1
            <4>1. a - 1 \in 1..n /\ a = (a - 1) + 1 /\ b - 1 \in 1..n /\ b = (b - 1) + 1
                BY <3>5
            <4>2. a - 1 = b - 1
                BY <2>1, <3>2, <4>1
            <4>3. QED
                BY <2>1, <4>1, <4>2
        <3>6. QED
            BY <3>3, <3>4, <3>5
    <2>2. QED
        BY <1>19, <2>1 DEF IsInjective
<1>24. ASSUME NEW k \in 1..n PROVE Edge(r[k]).from = v[k]
    <2>1. CASE k = 1
        BY <1>13, <1>19, <1>20, <2>1
    <2>2. CASE k # 1
        <3>1. k - 1 \in 1..(n - 1) /\ k - 1 \in 1..n /\ (k - 1) + 1 = k
            BY <2>2
        <3>2. h[k - 1].to = h[k].from /\ v[k] = h[k - 1].to
            BY <1>7, <1>19, <3>1
        <3>3. QED
            BY <1>13, <3>2
    <2>3. QED
        BY <2>1, <2>2
<1>25. QED
    BY <1>1, <1>3, <1>4, <1>5, <1>8, <1>12, <1>13, <1>17, <1>22, <1>23, <1>24

\* Less times as much is less.
LEMMA TimesMonotone ==
    ASSUME NEW a \in Nat, NEW b \in Nat, NEW m \in Nat, a <= b
    PROVE  a * m <= b * m /\ m * a <= m * b
OBVIOUS

\* The share of one route is a number.
LEMMA ShareType ==
    ASSUME Built(request)
    PROVE  /\ Share \in Nat /\ Wanted \in Nat \ {0}
           /\ request.collective.demand = 0 => Share = 0
<1>1. Wanted \in Nat \ {0}
    BY DEF Built, PolicyBuilt, BuiltPolicies, Wanted, Policy
<1>2. PICK k \in Nat \ {0} : k = Wanted
    BY <1>1
<1>3. PICK d \in Nat : d = request.collective.demand
    BY DEF Built
<1>4. (d + k - 1) \div k \in Nat
    <2>1. d + k - 1 \in Nat
        BY <1>2, <1>3
    <2>2. QED
        BY <2>1
<1>5. (0 + k - 1) \div k = 0
    OBVIOUS
<1>6. QED
    BY <1>1, <1>2, <1>3, <1>4, <1>5 DEF Share

\* The routes that cross an edge of verified capacity fit into what is spare of it.
LEMMA AllocationsFit ==
    ASSUME Built(request), NEW q, PlanShape(q), AllocationsAccepted(request, q),
           \A i \in DOMAIN q.paths : PathAccepted(request, q.paths[i]),
           NEW e \in Edges, Edge(e).capacity > 0
    PROVE  LET U == {i \in DOMAIN q.paths : e \in ToSet(RouteOf(q.paths[i]))}
           IN /\ Cardinality(U) * Share <= Edge(e).capacity - Edge(e).reserved
              /\ U # {} => Share <= Edge(e).capacity - Edge(e).reserved
<1>1. PICK n \in Nat : DOMAIN q.paths = 1..n /\ \A i \in 1..n : q.paths[i].hops \in Seq(Hops)
    BY DEF PlanShape
<1>2. PICK U : U = {i \in 1..n : e \in ToSet(RouteOf(q.paths[i]))}
    OBVIOUS
<1>3. PICK id : id = Edge(e).id
    OBVIOUS
<1>4. PICK H \in Nat : H = request.policy.max_hops
    BY DEF Built, PolicyBuilt, BuiltPolicies
<1>5. PICK C : C = {c \in (1..n) \X (1..H) : /\ c[2] \in DOMAIN q.paths[c[1]].hops
                                            /\ q.paths[c[1]].hops[c[2]].edge = id}
    OBVIOUS
<1>6. /\ Edge(e) \in FabricEdges /\ Edge(e).reserved <= Edge(e).capacity
      /\ Edge(e).capacity <= MaxCapacity
    BY LenProperties, ElementOfSeq DEF Built, FabricBuilt, Edges, Edge
<1>7. PICK cap \in Nat, res \in Nat : cap = Edge(e).capacity /\ res = Edge(e).reserved
    BY <1>6 DEF FabricEdges
<1>8. res <= cap /\ cap < CostCeiling /\ CostCeiling \in Nat
    BY <1>6, <1>7, RequestAssumption
<1>9. Share \in Nat /\ (request.collective.demand = 0 => Share = 0)
    BY ShareType
<1>10. IsFiniteSet(1..n) /\ IsFiniteSet(1..H)
    BY FS_Interval
<1>11. IsFiniteSet((1..n) \X (1..H))
    BY <1>10, FS_Product
<1>12. IsFiniteSet(C) /\ IsFiniteSet(U)
    BY <1>2, <1>5, <1>10, <1>11, FS_Subset
<1>13. Cardinality(C) \in Nat /\ Cardinality(U) \in Nat
    BY <1>12, FS_CardinalityType
<1>14. ASSUME NEW i \in U PROVE \E j \in 1..H : <<i, j>> \in C
    <2>1. i \in 1..n /\ e \in ToSet(RouteOf(q.paths[i]))
        BY <1>2
    <2>2. q.paths[i].hops \in Seq(Hops) /\ PathAccepted(request, q.paths[i])
        BY <1>1, <2>1
    <2>3. PICK j \in DOMAIN RouteOf(q.paths[i]) : RouteOf(q.paths[i])[j] = e
        BY <2>1 DEF ToSet
    <2>4. j \in DOMAIN q.paths[i].hops
        BY <2>3 DEF RouteOf
    <2>5. RouteOf(q.paths[i])[j] = Carried(q.paths[i].hops[j])
        BY <2>2, <2>3, PathIsRoute
    <2>6. Edge(Carried(q.paths[i].hops[j])).id = q.paths[i].hops[j].edge
        <3>1. \E a, b : HopAccepted(request, q.paths[i].hops[j], {a, b})
            BY <2>2, <2>3, PathIsRoute
        <3>2. QED
            BY <3>1, HopIsEdge
    <2>7. q.paths[i].hops[j].edge = id
        BY <1>3, <2>3, <2>5, <2>6
    <2>8. j \in 1..Len(q.paths[i].hops) /\ Len(q.paths[i].hops) <= H /\ Len(q.paths[i].hops) \in Nat
        BY <1>4, <2>2, <2>4, LenProperties DEF PathAccepted
    <2>9. j \in 1..H
        BY <2>8
    <2>10. <<i, j>> \in (1..n) \X (1..H)
        BY <2>1, <2>9
    <2>11. QED
        BY <1>5, <2>4, <2>7, <2>9, <2>10
<1>15. Cardinality(U) <= Cardinality(C)
    <2>1. PICK f : f = [i \in U |-> <<i, CHOOSE j \in 1..H : <<i, j>> \in C>>]
        OBVIOUS
    <2>2. \A i \in U : f[i] \in C /\ f[i][1] = i
        BY <1>14, <2>1
    <2>20. f \in [U -> C]
        BY <2>1, <2>2
    <2>21. \A i, j \in U : f[i] = f[j] => i = j
        BY <2>2
    <2>3. f \in Injection(U, C)
        BY <2>20, <2>21 DEF Injection, IsInjective
    <2>4. QED
        BY <1>12, <2>3, FS_Injection
<1>16. CASE U = {}
    <2>1. Cardinality(U) = 0
        BY <1>16, FS_EmptySet
    <2>2. QED
        BY <1>1, <1>2, <1>7, <1>8, <1>9, <1>16, <2>1
<1>17. CASE U # {} /\ request.collective.demand = 0
    BY <1>1, <1>2, <1>7, <1>8, <1>9, <1>13, <1>17
<1>18. CASE U # {} /\ request.collective.demand # 0
    <2>1. PICK i \in U : TRUE
        BY <1>18
    <2>2. PICK j \in 1..H : <<i, j>> \in C
        BY <1>14
    <2>3. i \in 1..n /\ j \in DOMAIN q.paths[i].hops /\ q.paths[i].hops[j].edge = id
        BY <1>5, <2>2
    <2>4. request.collective.demand > 0
        BY <1>18 DEF Built
    <2>5. id \in UNION {{h.edge : h \in ToSet(p.hops)} : p \in ToSet(q.paths)}
        <3>1. q.paths[i] \in ToSet(q.paths) /\ q.paths[i].hops[j] \in ToSet(q.paths[i].hops)
            BY <1>1, <2>3 DEF ToSet
        <3>2. QED
            BY <2>3, <3>1
    <2>6. /\ id \in {a.edge : a \in ToSet(q.allocations)}
          /\ \A a \in ToSet(q.allocations) :
                /\ a.planned = Recomputed(request, q, a.edge)
                /\ \A x \in EdgeOf(request, a.edge) : x.capacity > 0 => a.planned <= x.capacity - x.reserved
        BY <2>4, <2>5 DEF AllocationsAccepted, DistinctBy
    <2>7. PICK a \in ToSet(q.allocations) : a.edge = id
        BY <2>6
    <2>8. EdgeOf(request, a.edge) = {Edge(e)}
        BY <1>3, <2>7, EdgeById
    <2>9. Recomputed(request, q, id) <= cap - res
        BY <1>7, <2>6, <2>7, <2>8
    <2>10. Recomputed(request, q, id) = IF Share * Cardinality(C) > CostCeiling THEN CostCeiling
                                        ELSE Share * Cardinality(C)
        BY <1>1, <1>4, <1>5 DEF Recomputed, Share, Wanted, Policy
    <2>11. Share * Cardinality(C) \in Nat
        BY <1>9, <1>13
    <2>12. Share * Cardinality(C) <= cap - res
        BY <1>8, <2>9, <2>10, <2>11
    <2>13. Cardinality(U) * Share <= Cardinality(C) * Share /\ Cardinality(C) * Share = Share * Cardinality(C)
        BY <1>9, <1>13, <1>15, TimesMonotone
    <2>14. Cardinality(C) # 0
        BY <1>12, <2>2, FS_EmptySet
    <2>15. 1 <= Cardinality(C)
        BY <1>13, <2>14
    <2>16. Share * 1 <= Share * Cardinality(C)
        BY <1>9, <1>13, <2>15, TimesMonotone
    <2>17. PICK x \in Nat : x = Cardinality(U) * Share
        BY <1>9, <1>13
    <2>18. x <= cap - res /\ Share <= cap - res
        BY <1>7, <1>9, <2>11, <2>12, <2>13, <2>16, <2>17
    <2>19. QED
        BY <1>1, <1>2, <1>7, <2>17, <2>18
<1>19. QED
    BY <1>16, <1>17, <1>18

\* The paths of one logical edge, in the order of the plan.
LEMMA SiblingsArePaths ==
    ASSUME NEW q, PlanShape(q), NEW l, NEW k \in DOMAIN SiblingsOf(q, l)
    PROVE  \E i \in DOMAIN q.paths : SiblingsOf(q, l)[k] = q.paths[i] /\ q.paths[i].logical_edge = l
<1>1. PICK T : T = {i \in DOMAIN q.paths : q.paths[i].logical_edge = l}
    OBVIOUS
<1>2. PICK n \in Nat : DOMAIN q.paths = 1..n
    BY DEF PlanShape
<1>3. IsFiniteSet(T) /\ T \subseteq Int
    <2>1. IsFiniteSet(1..n) /\ T \subseteq 1..n
        BY <1>1, <1>2, FS_Interval
    <2>2. IsFiniteSet(T)
        BY <2>1, FS_Subset
    <2>3. T \subseteq Int
        BY <2>1
    <2>4. QED
        BY <2>2, <2>3
<1>4. SiblingsOf(q, l) = [m \in DOMAIN Numbers(T) |-> q.paths[Numbers(T)[m]]]
    BY <1>1, AmongIsRow DEF SiblingsOf
<1>5. k \in DOMAIN Numbers(T) /\ SiblingsOf(q, l)[k] = q.paths[Numbers(T)[k]]
    BY <1>4
<1>6. Numbers(T) \in Seq(T)
    BY <1>3, NumbersInOrder
<1>7. Numbers(T)[k] \in T
    BY <1>5, <1>6, ElementOfSeq, LenProperties
<1>8. QED
    BY <1>1, <1>5, <1>7

\* They are numbered.
LEMMA SiblingPositions ==
    ASSUME NEW q, PlanShape(q), NEW l, NEW k \in DOMAIN SiblingsOf(q, l)
    PROVE  k \in Int
<1>1. PICK T : T = {i \in DOMAIN q.paths : q.paths[i].logical_edge = l}
    OBVIOUS
<1>2. PICK n \in Nat : DOMAIN q.paths = 1..n
    BY DEF PlanShape
<1>3. IsFiniteSet(T) /\ T \subseteq Int
    <2>1. IsFiniteSet(1..n) /\ T \subseteq 1..n
        BY <1>1, <1>2, FS_Interval
    <2>2. IsFiniteSet(T)
        BY <2>1, FS_Subset
    <2>3. T \subseteq Int
        BY <2>1
    <2>4. QED
        BY <2>2, <2>3
<1>4. SiblingsOf(q, l) = [m \in DOMAIN Numbers(T) |-> q.paths[Numbers(T)[m]]]
    BY <1>1, AmongIsRow DEF SiblingsOf
<1>5. k \in DOMAIN Numbers(T) /\ DOMAIN Numbers(T) = 1..Cardinality(T)
    BY <1>3, <1>4, NumbersInOrder
<1>6. QED
    BY <1>5

\* What the policy and the bindings ask of every hop of an accepted path.
LEMMA HopIsDeclared ==
    ASSUME Built(request), NEW q, PlanShape(q), AllocationsAccepted(request, q),
           \A i \in DOMAIN q.paths : PathAccepted(request, q.paths[i]),
           NEW i \in DOMAIN q.paths, NEW k \in DOMAIN RouteOf(q.paths[i])
    PROVE  LET r == RouteOf(q.paths[i])
           IN /\ Declared(r[k])
              /\ Admits(At(q.paths[i].src), r[k]) /\ Admits(At(q.paths[i].dst), r[k])
<1>1. PICK p : p = q.paths[i]
    OBVIOUS
<1>2. p.hops \in Seq(Hops) /\ PathAccepted(request, p)
    BY <1>1 DEF PlanShape
<1>3. PICK e : e = RouteOf(p)[k]
    OBVIOUS
<1>4. e = Carried(p.hops[k]) /\ HopAccepted(request, p.hops[k], {At(p.src), At(p.dst)})
    BY <1>1, <1>2, <1>3, PathIsRoute
<1>5. PICK x : x = Edge(e)
    OBVIOUS
<1>6. /\ e \in Edges
      /\ {x.from, x.to} \cap Policy.forbidden_nodes = {}
      /\ x.tier \notin Policy.forbidden_tiers
      /\ Policy.allowed_tiers = {} \/ x.tier \in Policy.allowed_tiers
      /\ \A f \in Policy.forbidden_domains : ~domain_contains(request.fabric.domains, f, x.domain)
      /\ Policy.evidence = "synthetic" => x.evidence # 0
      /\ Policy.evidence = "measured" => x.evidence = 2
      /\ x.capacity = 0 => Policy.allow_unverified
      /\ x.capacity > 0 => x.reserved < x.capacity
      /\ \A b \in {At(p.src), At(p.dst)} : binding_permits(request, b, x)
    BY <1>4, <1>5, HopIsEdge
<1>7. x \in FabricEdges
    BY <1>5, <1>6, LenProperties, ElementOfSeq DEF Built, FabricBuilt, Edges, Edge
<1>8. x.capacity \in Nat /\ x.reserved \in Nat /\ x.evidence \in 0..2
    BY <1>7 DEF FabricEdges
<1>9. x.capacity > 0 => Share <= x.capacity - x.reserved
    <2>1. SUFFICES ASSUME x.capacity > 0 PROVE Share <= x.capacity - x.reserved
        OBVIOUS
    <2>2. i \in {m \in DOMAIN q.paths : e \in ToSet(RouteOf(q.paths[m]))}
        BY <1>1, <1>3 DEF ToSet
    <2>3. QED
        BY <1>5, <1>6, <2>1, <2>2, AllocationsFit
<1>10. Policy.evidence \in {"any", "synthetic", "measured"}
    BY DEF Built, PolicyBuilt, BuiltPolicies, Policy
<1>11. x.evidence >= (CASE Policy.evidence = "any" -> 0 [] Policy.evidence = "synthetic" -> 1
                        [] Policy.evidence = "measured" -> 2)
    <2>1. CASE Policy.evidence = "any"
        BY <1>8, <2>1
    <2>2. CASE Policy.evidence = "synthetic"
        BY <1>6, <1>8, <2>2
    <2>3. CASE Policy.evidence = "measured"
        BY <1>6, <1>8, <2>3
    <2>4. QED
        BY <1>10, <2>1, <2>2, <2>3
<1>12. {c \in {d.id : d \in request.fabric.domains} :
            domain_contains(request.fabric.domains, c, x.domain)} \cap Policy.forbidden_domains = {}
    BY <1>6
<1>13. \/ x.capacity = 0 /\ Policy.allow_unverified
       \/ x.capacity > x.reserved /\ x.capacity - x.reserved >= Share
    <2>1. CASE x.capacity = 0
        BY <1>6, <2>1
    <2>2. CASE x.capacity > 0
        BY <1>6, <1>8, <1>9, <2>2, ShareType
    <2>3. QED
        BY <1>8, <2>1, <2>2
<1>14. Declared(e)
    BY <1>5, <1>6, <1>11, <1>12, <1>13 DEF Declared, Share
<1>15. Admits(At(p.src), e) /\ Admits(At(p.dst), e)
    BY <1>5, <1>6 DEF Admits, binding_permits
<1>16. QED
    BY <1>1, <1>3, <1>14, <1>15

\* Two paths that share no edge identifier are routes that share no edge.
LEMMA DisjointRoutes ==
    ASSUME Built(request), NEW a, NEW b, a.hops \in Seq(Hops), b.hops \in Seq(Hops),
           PathAccepted(request, a), PathAccepted(request, b),
           Policy.disjointness # "none" =>
               {h.edge : h \in ToSet(a.hops)} \cap {h.edge : h \in ToSet(b.hops)} = {},
           Policy.disjointness = "node" =>
               {a.hops[k].to : k \in 1..(Len(a.hops) - 1)} \cap
                   {b.hops[k].to : k \in 1..(Len(b.hops) - 1)} = {}
    PROVE  Disjoint(RouteOf(a), RouteOf(b)) /\ Disjoint(RouteOf(b), RouteOf(a))
<1>1. ASSUME NEW p, p.hops \in Seq(Hops), PathAccepted(request, p)
      PROVE  /\ \A e \in ToSet(RouteOf(p)) : Edge(e).id \in {h.edge : h \in ToSet(p.hops)}
             /\ Interior(RouteOf(p)) \subseteq {p.hops[k].to : k \in 1..(Len(p.hops) - 1)}
    <2>1. PICK n \in Nat : n = Len(p.hops) /\ DOMAIN p.hops = 1..n
        BY <1>1, LenProperties
    <2>2. /\ Len(RouteOf(p)) = n /\ DOMAIN RouteOf(p) = 1..n
          /\ \A k \in 1..n : RouteOf(p)[k] = Carried(p.hops[k])
        <3>1. /\ RouteOf(p) \in Seq(Edges) /\ Len(RouteOf(p)) = n
              /\ \A k \in DOMAIN RouteOf(p) : RouteOf(p)[k] = Carried(p.hops[k])
            BY <1>1, <2>1, PathIsRoute
        <3>2. DOMAIN RouteOf(p) = 1..n
            BY <3>1, LenProperties
        <3>3. QED
            BY <3>1, <3>2
    <2>3. \A k \in 1..n : /\ Edge(RouteOf(p)[k]).id = p.hops[k].edge
                          /\ Edge(RouteOf(p)[k]).to = p.hops[k].to
        <3>1. \A k \in 1..n : HopAccepted(request, p.hops[k], {At(p.src), At(p.dst)})
            BY <1>1, <2>2, PathIsRoute
        <3>2. QED
            BY <2>2, <3>1, HopIsEdge
    <2>4. \A k \in 1..(n - 1) : k \in 1..n
        OBVIOUS
    <2>5. Interior(RouteOf(p)) \subseteq {p.hops[k].to : k \in 1..(n - 1)}
        BY <2>2, <2>3, <2>4 DEF Interior
    <2>6. QED
        BY <2>1, <2>2, <2>3, <2>5 DEF ToSet
<1>2. QED
    BY <1>1 DEF Disjoint

-----------------------------------------------------------------------------
(* What edges and routes cost *)

\* What is at most the ceiling stays as it is.
LEMMA SaturateType ==
    ASSUME NEW n \in Nat
    PROVE  Saturate(n) \in Nat /\ Saturate(n) <= CostCeiling /\ Saturate(n) <= n
BY RequestAssumption DEF Saturate

\* The congestion of an edge that is not full is below a thousand.
LEMMA UsedBelow ==
    ASSUME NEW a \in Nat, NEW c \in Nat, a < c
    PROVE  Saturate(a * 1000) \div c \in Nat /\ Saturate(a * 1000) \div c < 1000
<1>1. PICK n \in Nat : n = Saturate(a * 1000)
    BY SaturateType
<1>2. n <= a * 1000 /\ a * 1000 < c * 1000
    BY <1>1, SaturateType
<1>3. PICK q \in Int : q = n \div c
    OBVIOUS
<1>4. n \div c \in Nat /\ c * (n \div c) <= n
    OBVIOUS
<1>5. q \in Nat /\ c * q <= n
    BY <1>3, <1>4
<1>6. q < 1000
    <2>1. SUFFICES ASSUME q >= 1000 PROVE FALSE
        BY <1>5
    <2>2. c * 1000 <= c * q
        BY <1>5, <2>1, TimesMonotone
    <2>3. QED
        BY <1>2, <1>5, <2>2
<1>7. QED
    BY <1>1, <1>3, <1>5, <1>6

\* The cost of an edge is a number.
LEMMA EdgeCostType ==
    ASSUME NEW p \in BuiltPolicies, NEW e \in FabricEdges
    PROVE  edge_cost_of(p, e) \in Nat
<1>1. /\ p.latency_weight \in Nat /\ p.congestion_weight \in Nat
      /\ e.latency \in Nat /\ e.capacity \in Nat /\ e.reserved \in Nat
    BY DEF BuiltPolicies, FabricEdges
<1> DEFINE latency == Saturate(e.latency * p.latency_weight) \div 1000
           used == (Saturate(e.reserved * 1000)) \div e.capacity
           penalty == Saturate(p.congestion_weight * used) \div (IF used = 1000 THEN 1 ELSE 1000 - used)
<1>2. latency \in Nat
    <2>1. e.latency * p.latency_weight \in Nat
        BY <1>1
    <2>2. PICK n \in Nat : n = Saturate(e.latency * p.latency_weight)
        BY <2>1, SaturateType
    <2>3. n \div 1000 \in Nat
        OBVIOUS
    <2>4. QED
        BY <2>2, <2>3
<1>3. ASSUME e.reserved < e.capacity
      PROVE  penalty \in Nat
    <2>1. PICK u \in Nat : u = used /\ u < 1000
        BY <1>1, <1>3, UsedBelow
    <2>2. p.congestion_weight * u \in Nat
        BY <1>1
    <2>3. PICK n \in Nat : n = Saturate(p.congestion_weight * u)
        BY <2>2, SaturateType
    <2>4. PICK d \in Nat \ {0} : d = 1000 - u
        BY <2>1
    <2>5. n \div d \in Nat
        OBVIOUS
    <2>6. penalty = n \div d
        BY <2>1, <2>3, <2>4
    <2>7. QED
        BY <2>5, <2>6
<1>4. CostCeiling \in Nat
    BY RequestAssumption
<1>5. ASSUME e.reserved < e.capacity
      PROVE  Saturate(latency + penalty) \in Nat
    <2>1. latency + penalty \in Nat
        BY <1>2, <1>3, <1>5
    <2>2. QED
        BY <2>1, SaturateType
<1>6. edge_cost_of(p, e) =
         CASE p.congestion_weight = 0 \/ e.capacity = 0 -> latency
           [] e.capacity > 0 /\ e.reserved >= e.capacity -> CostCeiling
           [] OTHER -> Saturate(latency + penalty)
    BY DEF edge_cost_of
<1> HIDE DEF latency, used, penalty
<1>7. e.capacity = 0 \/ (e.capacity > 0 /\ e.reserved >= e.capacity) \/ e.reserved < e.capacity
    BY <1>1
<1>8. e.reserved < e.capacity => e.capacity # 0 /\ ~(e.reserved >= e.capacity)
    BY <1>1
<1>9. QED
    BY <1>2, <1>4, <1>5, <1>6, <1>7, <1>8

\* What plan_collective sets up before the first logical edge.
PlannerSet ==
    /\ planner.cost \in [Edges -> Nat] /\ planner.spare \in [Edges -> Nat]
    /\ planner.nodes \subseteq {n.id : n \in request.fabric.nodes}
    /\ planner.edges \subseteq Edges
    /\ planner.demand = Share

\* What an edge has to spare is a number.
LEMMA SpareType ==
    ASSUME NEW e \in FabricEdges
    PROVE  edge_spare(e) \in Nat
<1>1. e.capacity \in Nat /\ e.reserved \in Nat
    BY DEF FabricEdges
<1>2. QED
    BY <1>1 DEF edge_spare

\* The state of the planner fits the request.
LEMMA PlannerIsSet ==
    ASSUME Built(request), planner = PlannerState(request)
    PROVE  PlannerSet
<1>1. request.fabric.edges \in Seq(FabricEdges) /\ request.policy \in BuiltPolicies
    BY DEF Built, FabricBuilt, PolicyBuilt
<1>2. \A e \in Edges : Edge(e) \in FabricEdges
    BY <1>1, ElementOfSeq, LenProperties DEF Edges, Edge
<1>3. planner.cost = [i \in Edges |-> edge_cost_of(request.policy, Edge(i))]
    BY DEF PlannerState, Edges, Edge
<1>4. planner.spare = [i \in Edges |-> edge_spare(Edge(i))]
    BY DEF PlannerState, Edges, Edge
<1>5. planner.cost \in [Edges -> Nat]
    BY <1>1, <1>2, <1>3, EdgeCostType
<1>6. planner.spare \in [Edges -> Nat]
    BY <1>2, <1>4, SpareType
<1>7. planner.nodes \subseteq {n.id : n \in request.fabric.nodes} /\ planner.edges \subseteq Edges
    BY DEF PlannerState, Edges
<1>8. planner.demand = Share
    BY DEF PlannerState, Share, Wanted, Policy
<1>9. QED
    BY <1>5, <1>6, <1>7, <1>8 DEF PlannerSet

Routes == Seq(Edges)

\* The costs along a route, and their sum before it is saturated.
CostsOf(p) == [i \in DOMAIN p |-> planner.cost[p[i]]]
Length(p) == Total(CostsOf(p), DOMAIN p)

\* Positions of a route.
LEMMA RoutePositions ==
    ASSUME NEW p \in Routes
    PROVE  /\ Len(p) \in Nat /\ DOMAIN p = 1..Len(p) /\ IsFiniteSet(DOMAIN p)
           /\ \A i \in DOMAIN p : p[i] \in Edges
           /\ Cardinality(DOMAIN p) = Len(p)
<1>1. Len(p) \in Nat /\ DOMAIN p = 1..Len(p)
    BY LenProperties DEF Routes
<1>2. \A i \in DOMAIN p : p[i] \in Edges
    BY <1>1, ElementOfSeq DEF Routes
<1>3. PICK n \in Nat : n = Len(p)
    BY <1>1
<1>4. IsFiniteSet(1..n) /\ Cardinality(1..n) = IF 1 > n THEN 0 ELSE n - 1 + 1
    BY FS_Interval
<1>5. QED
    BY <1>1, <1>2, <1>3, <1>4

\* The function a fold over the edges of a route computes.
SumsUp(f, g, S) ==
    f = [s \in SUBSET S |->
            IF s = {} THEN 0
            ELSE Saturate(f[s \ {CHOOSE x \in s : TRUE}] + planner.cost[g[CHOOSE x \in s : TRUE]])]
FoldChosen(g, S) ==
    CHOOSE f : f = [s \in SUBSET S |->
        IF s = {} THEN 0
        ELSE Saturate(f[s \ {CHOOSE x \in s : TRUE}] + planner.cost[g[CHOOSE x \in s : TRUE]])]

\* Saturating in between does not change what is saturated in the end.
LEMMA SaturateTwice ==
    ASSUME NEW a \in Nat, NEW b \in Nat
    PROVE  Saturate(Saturate(a) + b) = Saturate(a + b) /\ Saturate(Saturate(a)) = Saturate(a)
BY RequestAssumption DEF Saturate

\* The fold is the saturated sum.
LEMMA FoldIsSum ==
    ASSUME PlannerSet, NEW S, IsFiniteSet(S), NEW g \in [S -> Edges], NEW c,
           \A x \in S : c[x] = planner.cost[g[x]]
    PROVE  FoldChosen(g, S)[S] = Saturate(Total(c, S))
<1>1. \A x \in S : c[x] \in Nat
    BY DEF PlannerSet
<1>2. PICK F : F = [s \in SUBSET S |-> Saturate(Total(c, s))]
    OBVIOUS
<1>3. ASSUME NEW s, s \subseteq S
      PROVE  IsFiniteSet(s) /\ Total(c, s) \in Nat
    BY <1>1, <1>3, FS_Subset, TotalType
<1>4. ASSUME NEW s, s \subseteq S, s # {}
      PROVE  /\ Pick(s) \in s /\ s \ {Pick(s)} \subseteq S
             /\ F[s] = Saturate(F[s \ {Pick(s)}] + planner.cost[g[Pick(s)]])
    <2>1. Pick(s) \in s /\ s \ {Pick(s)} \subseteq S
        BY <1>4, PickIn
    <2>2. Total(c, s) = c[Pick(s)] + Total(c, s \ {Pick(s)})
        BY <1>3, <1>4, TotalStep
    <2>3. PICK a \in Nat : a = Total(c, s \ {Pick(s)})
        BY <1>3, <2>1
    <2>4. PICK b \in Nat : b = c[Pick(s)] /\ b = planner.cost[g[Pick(s)]]
        BY <1>1, <1>4, <2>1
    <2>5. F[s] = Saturate(b + a) /\ F[s \ {Pick(s)}] = Saturate(a)
        BY <1>2, <1>4, <2>1, <2>2, <2>3, <2>4
    <2>6. b + a = a + b
        OBVIOUS
    <2>7. QED
        BY <2>1, <2>4, <2>5, <2>6, SaturateTwice
<1>5. F[{}] = 0
    <2>1. IsFiniteSet({}) /\ Total(c, {}) = 0
        BY FS_EmptySet, TotalStep
    <2>2. Saturate(0) = 0
        BY RequestAssumption DEF Saturate
    <2>3. QED
        BY <1>2, <2>1, <2>2
<1>6. SumsUp(F, g, S)
    <2>1. PICK G : G = [s \in SUBSET S |->
              IF s = {} THEN 0 ELSE Saturate(F[s \ {Pick(s)}] + planner.cost[g[Pick(s)]])]
        OBVIOUS
    <2>2. \A s \in SUBSET S : F[s] = G[s]
        BY <1>4, <1>5, <2>1
    <2>3. F = G
        BY <1>2, <2>1, <2>2
    <2>4. QED
        BY <2>1, <2>3 DEF SumsUp, Pick
<1>7. PICK f : f = FoldChosen(g, S)
    OBVIOUS
<1>8. SumsUp(f, g, S)
    <2>1. f = CHOOSE h : SumsUp(h, g, S)
        BY <1>7 DEF FoldChosen, SumsUp
    <2>2. QED
        BY <1>6, <2>1
<1>9. /\ f[{}] = 0
      /\ \A s \in SUBSET S : s # {} => f[s] = Saturate(f[s \ {Pick(s)}] + planner.cost[g[Pick(s)]])
    BY <1>8 DEF SumsUp, Pick
<1>10. PICK B : B = {s \in SUBSET S : f[s] # F[s]}
    OBVIOUS
<1>11. B = {}
    <2>1. SUFFICES ASSUME B # {} PROVE FALSE
        OBVIOUS
    <2>2. PICK s \in B : \A t \in B : t \subseteq s => t = s
        BY <1>10, <2>1, MinimalSubset
    <2>3. s \subseteq S /\ s # {} /\ f[s] # F[s]
        BY <1>5, <1>9, <1>10
    <2>4. PICK t : t = s \ {Pick(s)}
        OBVIOUS
    <2>5. t \subseteq S /\ t \subseteq s /\ t # s
        BY <1>4, <2>3, <2>4
    <2>6. f[t] = F[t]
        BY <1>10, <2>2, <2>5
    <2>7. QED
        BY <1>4, <1>9, <2>3, <2>4, <2>6
<1>12. QED
    BY <1>2, <1>7, <1>10, <1>11

\* The cost of a route is the saturated sum of what its edges cost.
LEMMA RouteCostIsSum ==
    ASSUME PlannerSet, NEW p \in Routes
    PROVE  RouteCost(p) = Saturate(Length(p)) /\ Length(p) \in Nat
<1>1. IsFiniteSet(DOMAIN p) /\ \A i \in DOMAIN p : p[i] \in Edges
    BY RoutePositions
<1>2. RouteCost(p) = Saturate(FoldChosen(p, DOMAIN p)[DOMAIN p])
    BY DEF RouteCost, FoldSeq, FoldFunction, FoldFunctionOnSet, MapThenFoldSet, FoldChosen
<1>3. p \in [DOMAIN p -> Edges]
    <2>1. p \in [1..Len(p) -> Edges]
        BY LenProperties DEF Routes
    <2>2. QED
        BY <2>1
<1>4. PICK c : c = CostsOf(p)
    OBVIOUS
<1>5. \A x \in DOMAIN p : c[x] = planner.cost[p[x]]
    BY <1>4 DEF CostsOf
<1>6. FoldChosen(p, DOMAIN p)[DOMAIN p] = Saturate(Total(c, DOMAIN p))
    BY <1>1, <1>3, <1>5, FoldIsSum
<1>7. \A x \in DOMAIN p : c[x] \in Nat
    BY <1>1, <1>5 DEF PlannerSet
<1>8. Total(c, DOMAIN p) \in Nat
    BY <1>1, <1>7, TotalType
<1>9. QED
    BY <1>2, <1>4, <1>6, <1>8, SaturateTwice DEF Length

\* The cost of a route is a number.
LEMMA RouteCostType ==
    ASSUME PlannerSet, NEW p \in Routes
    PROVE  RouteCost(p) \in Nat
BY RouteCostIsSum, SaturateType

-----------------------------------------------------------------------------
(* The order of the candidates *)

\* Two routes of one length, by the first edge in which they differ.
EarlierEdge(p, q) == \E i \in DOMAIN p : p[i] < q[i] /\ \A j \in 1..(i - 1) : p[j] = q[j]

\* Between routes of one length the lexicographic order is decided by an edge.
LEMMA LexicographicByEdge ==
    ASSUME Built(request), NEW p \in Routes, NEW q \in Routes, Len(p) = Len(q)
    PROVE  SequenceLess(p, q) <=> EarlierEdge(p, q)
<1>1. DOMAIN p = DOMAIN q
    BY RoutePositions
<1>2. ASSUME IsPrefix(p, q) PROVE p = q
    <2>1. SubSeq(p, 1, Len(p)) = p /\ SubSeq(q, 1, Len(q)) = q
        BY SubSeqFull DEF Routes
    <2>2. QED
        BY <1>2, <2>1 DEF IsPrefix
<1>3. QED
    BY <1>1, <1>2 DEF SequenceLess, EarlierEdge

\* Edges are numbers.
LEMMA EdgesAreNumbers ==
    ASSUME Built(request)
    PROVE  Edges \subseteq Nat /\ IsFiniteSet(Edges) /\ \A e \in Edges : Edge(e) \in FabricEdges
<1>1. request.fabric.edges \in Seq(FabricEdges)
    BY DEF Built, FabricBuilt
<1>2. PICK n \in Nat : n = Len(request.fabric.edges)
    BY <1>1, LenProperties
<1>3. Edges = 1..n
    BY <1>1, <1>2, LenProperties DEF Edges
<1>4. IsFiniteSet(1..n)
    BY FS_Interval
<1>5. 1..n \subseteq Nat
    OBVIOUS
<1>6. \A e \in Edges : Edge(e) \in FabricEdges
    BY <1>1, <1>2, <1>3, ElementOfSeq DEF Edge
<1>7. QED
    BY <1>3, <1>4, <1>5, <1>6

\* Different routes of one length are ordered, one way and not the other.
LEMMA EarlierIsTotal ==
    ASSUME Built(request), NEW p \in Routes, NEW q \in Routes, Len(p) = Len(q), p # q
    PROVE  EarlierEdge(p, q) \/ EarlierEdge(q, p)
<1>1. PICK n \in Nat : n = Len(p) /\ n = Len(q)
    BY RoutePositions
<1>2. DOMAIN p = 1..n /\ DOMAIN q = 1..n /\ \A i \in 1..n : p[i] \in Nat /\ q[i] \in Nat
    BY <1>1, RoutePositions, EdgesAreNumbers
<1>3. PICK D : D = {i \in 1..n : p[i] # q[i]}
    OBVIOUS
<1>4. D # {}
    <2>1. SUFFICES ASSUME D = {} PROVE p = q
        OBVIOUS
    <2>2. \A i \in 1..n : p[i] = q[i]
        BY <1>3, <2>1
    <2>3. QED
        BY <1>1, <2>2, SeqEqual DEF Routes
<1>5. D \subseteq Nat
    BY <1>3
<1>6. PICK i \in D : \A j \in D : i <= j
    BY <1>4, <1>5, NatMin
<1>7. \A j \in 1..(i - 1) : p[j] = q[j] /\ q[j] = p[j]
    BY <1>3, <1>6
<1>8. i \in 1..n /\ (p[i] < q[i] \/ q[i] < p[i])
    BY <1>2, <1>3
<1>9. QED
    BY <1>2, <1>7, <1>8 DEF EarlierEdge

\* A route is not earlier than itself, and what is earlier than an earlier one is.
LEMMA EarlierIsTransitive ==
    ASSUME Built(request), NEW p \in Routes, NEW q \in Routes, NEW r \in Routes,
           Len(p) = Len(q), Len(q) = Len(r)
    PROVE  /\ ~EarlierEdge(p, p)
           /\ EarlierEdge(p, q) /\ EarlierEdge(q, r) => EarlierEdge(p, r)
<1>1. PICK n \in Nat : n = Len(p) /\ n = Len(q) /\ n = Len(r)
    BY RoutePositions
<1>2. /\ DOMAIN p = 1..n /\ DOMAIN q = 1..n /\ DOMAIN r = 1..n
      /\ \A i \in 1..n : p[i] \in Nat /\ q[i] \in Nat /\ r[i] \in Nat
    BY <1>1, RoutePositions, EdgesAreNumbers
<1>3. ~EarlierEdge(p, p)
    BY <1>2 DEF EarlierEdge
<1>4. ASSUME EarlierEdge(p, q), EarlierEdge(q, r)
      PROVE  EarlierEdge(p, r)
    <2>1. PICK i \in 1..n : p[i] < q[i] /\ \A j \in 1..(i - 1) : p[j] = q[j]
        BY <1>2, <1>4 DEF EarlierEdge
    <2>2. PICK k \in 1..n : q[k] < r[k] /\ \A j \in 1..(k - 1) : q[j] = r[j]
        BY <1>2, <1>4 DEF EarlierEdge
    <2>3. CASE i <= k
        <3>1. p[i] < r[i]
            <4>1. CASE i = k
                BY <1>2, <2>1, <2>2, <4>1
            <4>2. CASE i # k
                <5>1. i \in 1..(k - 1)
                    BY <2>3, <4>2
                <5>2. QED
                    BY <1>2, <2>1, <2>2, <5>1
            <4>3. QED
                BY <4>1, <4>2
        <3>2. \A j \in 1..(i - 1) : p[j] = r[j]
            BY <2>1, <2>2, <2>3
        <3>3. QED
            BY <1>2, <3>1, <3>2 DEF EarlierEdge
    <2>4. CASE ~(i <= k)
        <3>1. k \in 1..(i - 1)
            BY <2>4
        <3>2. p[k] < r[k]
            BY <2>1, <2>2, <3>1
        <3>3. \A j \in 1..(k - 1) : p[j] = r[j]
            BY <2>1, <2>2, <3>1
        <3>4. QED
            BY <1>2, <3>2, <3>3 DEF EarlierEdge
    <2>5. QED
        BY <2>3, <2>4
<1>5. QED
    BY <1>3, <1>4

CheaperRoute(p, q) ==
    \/ RouteCost(p) < RouteCost(q)
    \/ RouteCost(p) = RouteCost(q) /\ Len(p) < Len(q)
    \/ RouteCost(p) = RouteCost(q) /\ Len(p) = Len(q) /\ EarlierEdge(p, q)
CandidateOrder == {z \in Routes \X Routes : candidate_less(z[1], z[2])}

\* candidate_less, spelt out for two routes.
LEMMA CandidateLessIs ==
    ASSUME Built(request), NEW p \in Routes, NEW q \in Routes
    PROVE  /\ <<p, q>> \in CandidateOrder <=> candidate_less(p, q)
           /\ candidate_less(p, q) <=> CheaperRoute(p, q)
<1>1. <<p, q>> \in CandidateOrder <=> candidate_less(p, q)
    BY DEF CandidateOrder
<1>2. QED
    BY <1>1, LexicographicByEdge DEF candidate_less, CheaperRoute

\* candidate_less puts the routes in a row.
LEMMA CandidatesInRow ==
    ASSUME Built(request), PlannerSet
    PROVE  StrictOrder(CandidateOrder, Routes) /\ WeakOrder(CandidateOrder, Routes)
<1>1. \A p \in Routes : RouteCost(p) \in Nat /\ Len(p) \in Nat
    BY RouteCostType, RoutePositions
<1>2. ASSUME NEW p \in Routes PROVE <<p, p>> \notin CandidateOrder
    <2>1. ~EarlierEdge(p, p)
        BY EarlierIsTransitive
    <2>2. QED
        BY <1>1, <2>1, CandidateLessIs DEF CheaperRoute
<1>3. ASSUME NEW p \in Routes, NEW q \in Routes, p # q
      PROVE  <<p, q>> \in CandidateOrder \/ <<q, p>> \in CandidateOrder
    <2>1. RouteCost(p) \in Nat /\ Len(p) \in Nat /\ RouteCost(q) \in Nat /\ Len(q) \in Nat
        BY <1>1
    <2>2. Len(p) = Len(q) => EarlierEdge(p, q) \/ EarlierEdge(q, p)
        BY <1>3, EarlierIsTotal
    <2>3. QED
        BY <2>1, <2>2, CandidateLessIs DEF CheaperRoute
<1>4. ASSUME NEW p \in Routes, NEW q \in Routes, NEW r \in Routes,
             <<p, q>> \in CandidateOrder, <<q, r>> \in CandidateOrder
      PROVE  <<p, r>> \in CandidateOrder
    <2>1. /\ RouteCost(p) \in Nat /\ Len(p) \in Nat /\ RouteCost(q) \in Nat /\ Len(q) \in Nat
          /\ RouteCost(r) \in Nat /\ Len(r) \in Nat
        BY <1>1
    <2>2. CheaperRoute(p, q) /\ CheaperRoute(q, r)
        BY <1>4, CandidateLessIs
    <2>3. Len(p) = Len(q) /\ Len(q) = Len(r) /\ EarlierEdge(p, q) /\ EarlierEdge(q, r) => EarlierEdge(p, r)
        BY EarlierIsTransitive
    <2>4. CheaperRoute(p, r)
        BY <2>1, <2>2, <2>3 DEF CheaperRoute
    <2>5. QED
        BY <2>4, CandidateLessIs
<1>5. StrictOrder(CandidateOrder, Routes)
    BY <1>2, <1>3, <1>4 DEF StrictOrder
<1>6. ASSUME NEW p \in Routes, NEW q \in Routes, NEW r \in Routes,
             <<p, q>> \notin CandidateOrder, <<q, r>> \notin CandidateOrder
      PROVE  <<p, r>> \notin CandidateOrder
    <2>1. (q = p \/ <<q, p>> \in CandidateOrder) /\ (r = q \/ <<r, q>> \in CandidateOrder)
        BY <1>3, <1>6
    <2>2. r = p \/ <<r, p>> \in CandidateOrder
        BY <1>4, <2>1
    <2>3. QED
        BY <1>2, <1>4, <2>2
<1>7. QED
    BY <1>2, <1>4, <1>5, <1>6 DEF WeakOrder

RoutesInOrder(S) == Ordered(S, candidate_less)
SortedRoutes(s) == Sorted(s, candidate_less)

\* The candidates in their order: every one of them once.
LEMMA RoutesAreOrdered ==
    ASSUME Built(request), PlannerSet, NEW S, IsFiniteSet(S), S \subseteq Routes
    PROVE  /\ RoutesInOrder(S) \in Seq(S) /\ Len(RoutesInOrder(S)) = Cardinality(S)
           /\ DOMAIN RoutesInOrder(S) = 1..Cardinality(S)
           /\ \A x \in S : \E i \in DOMAIN RoutesInOrder(S) : RoutesInOrder(S)[i] = x
           /\ \A i, j \in DOMAIN RoutesInOrder(S) : RoutesInOrder(S)[i] = RoutesInOrder(S)[j] => i = j
<1> DEFINE c(i) == CHOOSE x \in S : Cardinality({y \in S : candidate_less(y, x)}) = i - 1
<1>1. PICK R : R = CandidateOrder
    OBVIOUS
<1>2. \A x, y \in S : <<x, y>> \in R <=> candidate_less(x, y)
    BY <1>1, CandidateLessIs
<1>3. StrictOrder(R, S)
    <2>1. StrictOrder(R, Routes)
        BY <1>1, CandidatesInRow
    <2>2. QED
        BY <2>1 DEF StrictOrder
<1>4. \A x \in S : {y \in S : candidate_less(y, x)} = Below(R, S, x)
    BY <1>2 DEF Below
<1>5. PICK n : n = Cardinality(S)
    OBVIOUS
<1>6. PICK q : q = RoutesInOrder(S)
    OBVIOUS
<1>7. q = [i \in 1..n |-> c(i)]
    BY <1>5, <1>6 DEF RoutesInOrder, Ordered
<1>8. ASSUME NEW i \in 1..n PROVE c(i) \in S /\ Cardinality(Below(R, S, c(i))) = i - 1
    <2>1. \A k \in 1..n : \E x \in S : Cardinality(Below(R, S, x)) = k - 1
        BY <1>3, <1>5, Ranks
    <2>2. PICK x \in S : Cardinality(Below(R, S, x)) = i - 1
        BY <2>1
    <2>3. Cardinality({y \in S : candidate_less(y, x)}) = i - 1
        BY <1>4, <2>2
    <2>4. c(i) \in S /\ Cardinality({y \in S : candidate_less(y, c(i))}) = i - 1
        BY <2>3
    <2>5. QED
        BY <1>4, <2>4
<1> HIDE DEF c
<1>9. q \in [1..n -> S] /\ \A i \in 1..n : q[i] = c(i)
    BY <1>7, <1>8
<1>10. Ranked(q, R, S)
    BY <1>5, <1>8, <1>9 DEF Ranked
<1>11. /\ q \in Seq(S) /\ Len(q) = n /\ DOMAIN q = 1..n
       /\ \A x \in S : \E i \in DOMAIN q : q[i] = x
       /\ \A i, j \in DOMAIN q : q[i] = q[j] => i = j
    BY <1>3, <1>5, <1>9, <1>10, RankedIsSeq
<1>12. QED
    BY <1>5, <1>6, <1>11

\* A sorted list of routes holds what the list held.
LEMMA RoutesAreSorted ==
    ASSUME Built(request), PlannerSet, NEW s \in Seq(Routes)
    PROVE  \E p : Places(p, CandidateOrder, s) /\ SortedRoutes(s) = [k \in DOMAIN s |-> s[p[k]]]
<1> DEFINE before(i, j) == candidate_less(s[i], s[j]) \/ (~candidate_less(s[j], s[i]) /\ i < j)
           c(k) == CHOOSE i \in DOMAIN s : 1 + Cardinality({j \in DOMAIN s : before(j, i)}) = k
<1>1. SortedRoutes(s) = [k \in DOMAIN s |-> s[c(k)]]
    BY DEF SortedRoutes, Sorted
<1>2. PICK D : D = DOMAIN s
    OBVIOUS
<1>3. \A i \in D : s[i] \in Routes
    BY <1>2, ElementOfSeq, LenProperties
<1>4. PICK R : R = Precedes(CandidateOrder, s)
    OBVIOUS
<1>5. ASSUME NEW i \in D, NEW j \in D PROVE before(i, j) <=> <<i, j>> \in R
    <2>1. s[i] \in Routes /\ s[j] \in Routes
        BY <1>3
    <2>2. /\ <<s[i], s[j]>> \in CandidateOrder <=> candidate_less(s[i], s[j])
          /\ <<s[j], s[i]>> \in CandidateOrder <=> candidate_less(s[j], s[i])
        BY <2>1, CandidateLessIs
    <2>3. QED
        BY <1>2, <1>4, <2>2, PrecedesPair
<1>6. \A i \in D : {j \in D : before(j, i)} = Below(R, D, i)
    BY <1>5 DEF Below
<1>7. \A k \in D : \E i \in D : 1 + Cardinality(Below(R, D, i)) = k
    BY <1>2, <1>4, CandidatesInRow, PlacesExist
<1>8. ASSUME NEW k \in D PROVE c(k) \in D /\ 1 + Cardinality(Below(R, D, c(k))) = k
    <2>1. PICK i \in D : 1 + Cardinality(Below(R, D, i)) = k
        BY <1>7
    <2>2. 1 + Cardinality({j \in D : before(j, i)}) = k
        BY <1>6, <2>1
    <2>3. c(k) \in D /\ 1 + Cardinality({j \in D : before(j, c(k))}) = k
        BY <1>2, <2>2
    <2>4. QED
        BY <1>6, <2>3
<1> HIDE DEF c, before
<1>9. PICK p : p = [k \in D |-> c(k)]
    OBVIOUS
<1>10. p \in [D -> D] /\ \A k \in D : 1 + Cardinality(Below(R, D, p[k])) = k
    BY <1>8, <1>9
<1>11. Places(p, CandidateOrder, s)
    BY <1>2, <1>4, <1>10, CandidatesInRow, PlacesExist
<1>12. SortedRoutes(s) = [k \in DOMAIN s |-> s[p[k]]]
    BY <1>1, <1>2, <1>9
<1>13. QED
    BY <1>11, <1>12

\* A sorted list of routes of a set R is one of routes of R.
LEMMA SortedKeeps ==
    ASSUME Built(request), PlannerSet, NEW R, R \subseteq Routes, NEW s \in Seq(R)
    PROVE  SortedRoutes(s) \in Seq(R) /\ Len(SortedRoutes(s)) = Len(s)
<1>1. s \in Seq(Routes)
    BY SeqMonotonic
<1>2. PICK p : Places(p, CandidateOrder, s) /\ SortedRoutes(s) = [k \in DOMAIN s |-> s[p[k]]]
    BY <1>1, RoutesAreSorted
<1>3. PICK n \in Nat : n = Len(s) /\ DOMAIN s = 1..n
    BY LenProperties
<1>4. \A k \in 1..n : p[k] \in 1..n /\ s[p[k]] \in R
    BY <1>2, <1>3, ElementOfSeq DEF Places
<1>5. PICK q : q = SortedRoutes(s)
    OBVIOUS
<1>6. q \in [1..n -> R]
    BY <1>2, <1>3, <1>4, <1>5
<1>7. QED
    BY <1>3, <1>5, <1>6, RowIsSeq
-----------------------------------------------------------------------------
(* Flattening a sequence of sequences *)

\* f[i] is what the first i sequences of s make together.
FlatTo(f, s, n) == f = [i \in 1..n |-> IF i = 1 THEN s[i] ELSE f[i - 1] \o s[i]]
FlatChosen(s) == CHOOSE f : f = [i \in 1..Len(s) |-> IF i = 1 THEN s[i] ELSE f[i - 1] \o s[i]]

\* There is such a function.
LEMMA FlatExists ==
    ASSUME NEW s, NEW n \in Nat \ {0}
    PROVE  \E f : FlatTo(f, s, n)
<1>1. PICK T : T = {m \in Nat \ {0} : ~\E f : FlatTo(f, s, m)}
    OBVIOUS
<1>2. SUFFICES ASSUME T # {} PROVE FALSE
    BY <1>1
<1>3. PICK m \in T : \A k \in T : m <= k
    BY <1>1, <1>2, NatMin
<1>4. m \in Nat \ {0} /\ ~\E f : FlatTo(f, s, m)
    BY <1>1
<1>5. CASE m = 1
    <2>1. PICK f : f = [i \in 1..1 |-> s[i]]
        OBVIOUS
    <2>2. FlatTo(f, s, 1)
        BY <2>1 DEF FlatTo
    <2>3. QED
        BY <1>4, <1>5, <2>2
<1>6. CASE m # 1
    <2>1. m - 1 \in Nat \ {0} /\ m - 1 \notin T
        BY <1>3, <1>4, <1>6
    <2>2. PICK f : FlatTo(f, s, m - 1)
        BY <1>1, <2>1
    <2>3. PICK g : g = [i \in 1..m |-> IF i = m THEN f[m - 1] \o s[m] ELSE f[i]]
        OBVIOUS
    <2>4. \A i \in 1..(m - 1) : f[i] = IF i = 1 THEN s[i] ELSE f[i - 1] \o s[i]
        BY <2>2 DEF FlatTo
    <2>5. \A i \in 1..m : g[i] = IF i = 1 THEN s[i] ELSE g[i - 1] \o s[i]
        BY <1>4, <1>6, <2>3, <2>4
    <2>6. PICK h : h = [i \in 1..m |-> IF i = 1 THEN s[i] ELSE g[i - 1] \o s[i]]
        OBVIOUS
    <2>7. g = h
        BY <2>3, <2>5, <2>6
    <2>8. FlatTo(g, s, m)
        BY <2>6, <2>7 DEF FlatTo
    <2>9. QED
        BY <1>4, <2>8
<1>7. QED
    BY <1>5, <1>6

\* Where the sequences of s begin in what they make together.
Offsets(o, s) ==
    /\ o \in [1..(Len(s) + 1) -> Nat] /\ o[1] = 0
    /\ \A l \in 1..Len(s) : o[l + 1] = o[l] + Len(s[l])

\* The flattened sequence holds every sequence of s at its offset, and nothing else.
Flattened(q, s, o) ==
    /\ Len(q) = o[Len(s) + 1]
    /\ \A l \in 1..Len(s) : \A k \in 1..Len(s[l]) : o[l] + k \in 1..Len(q) /\ q[o[l] + k] = s[l][k]
    /\ \A i \in 1..Len(q) : \E l \in 1..Len(s) : \E k \in 1..Len(s[l]) : i = o[l] + k

\* What FlattenSeq computes.
LEMMA FlattenIs ==
    ASSUME NEW X, NEW s \in Seq(Seq(X))
    PROVE  FlattenSeq(s) \in Seq(X) /\ \E o : Offsets(o, s) /\ Flattened(FlattenSeq(s), s, o)
<1>1. PICK n \in Nat : n = Len(s) /\ DOMAIN s = 1..n
    BY LenProperties
<1>2. \A l \in 1..n : s[l] \in Seq(X) /\ Len(s[l]) \in Nat
    BY <1>1, ElementOfSeq, LenProperties
<1>3. CASE n = 0
    <2>1. s = <<>> /\ FlattenSeq(s) = s
        BY <1>1, <1>3, EmptySeq DEF FlattenSeq
    <2>2. PICK o : o = [l \in 1..1 |-> 0]
        OBVIOUS
    <2>3. Offsets(o, s) /\ Flattened(s, s, o)
        BY <1>1, <1>3, <2>2 DEF Offsets, Flattened
    <2>4. <<>> \in Seq(X)
        BY EmptySeq
    <2>5. QED
        BY <2>1, <2>3, <2>4
<1>4. CASE n # 0
    <2>1. PICK f : f = FlatChosen(s)
        OBVIOUS
    <2>2. FlattenSeq(s) = f[n]
        BY <1>1, <1>4, <2>1 DEF FlattenSeq, FlatChosen
    <2>3. FlatTo(f, s, n)
        <3>1. \E g : FlatTo(g, s, n)
            BY <1>4, FlatExists
        <3>2. f = CHOOSE g : FlatTo(g, s, n)
            BY <1>1, <2>1 DEF FlatTo, FlatChosen
        <3>3. QED
            BY <3>1, <3>2
    <2>4. \A i \in 1..n : f[i] = IF i = 1 THEN s[i] ELSE f[i - 1] \o s[i]
        BY <2>3 DEF FlatTo
    <2>5. PICK o : o = [l \in 1..(n + 1) |-> IF l = 1 THEN 0 ELSE Len(f[l - 1])]
        OBVIOUS
    <2> DEFINE P(m) == /\ f[m] \in Seq(X) /\ Len(f[m]) = o[m] + Len(s[m])
                       /\ \A l \in 1..m : \A k \in 1..Len(s[l]) :
                             o[l] + k \in 1..Len(f[m]) /\ f[m][o[l] + k] = s[l][k]
                       /\ \A i \in 1..Len(f[m]) : \E l \in 1..m : \E k \in 1..Len(s[l]) : i = o[l] + k
    <2>6. PICK T : T = {m \in 1..n : ~P(m)}
        OBVIOUS
    <2>7. T = {}
        <3>1. SUFFICES ASSUME T # {} PROVE FALSE
            OBVIOUS
        <3>2. T \subseteq Nat
            BY <2>6
        <3>3. PICK m \in T : \A k \in T : m <= k
            BY <3>1, <3>2, NatMin
        <3>4. m \in 1..n /\ ~P(m)
            BY <2>6
        <3>5. CASE m = 1
            <4>1. f[1] = s[1] /\ o[1] = 0 /\ s[1] \in Seq(X) /\ Len(s[1]) \in Nat
                BY <1>2, <2>4, <2>5, <3>4, <3>5
            <4>2. P(1)
                <5>1. \A l \in 1..1 : l = 1
                    OBVIOUS
                <5>2. \A k \in 1..Len(s[1]) : o[1] + k = k
                    BY <4>1
                <5>3. 1 \in 1..1
                    OBVIOUS
                <5>4. QED
                    BY <4>1, <5>1, <5>2, <5>3
            <4>3. QED
                BY <3>4, <3>5, <4>2
        <3>6. CASE m # 1
            <4>1. m - 1 \in 1..n /\ m - 1 \notin T
                BY <3>3, <3>4, <3>6
            <4>2. P(m - 1)
                BY <2>6, <4>1
            <4>3. PICK g : g = f[m - 1]
                OBVIOUS
            <4>4. f[m] = g \o s[m] /\ g \in Seq(X) /\ s[m] \in Seq(X) /\ Len(s[m]) \in Nat
                BY <1>2, <2>4, <3>4, <3>6, <4>2, <4>3
            <4>5. PICK a \in Nat : a = Len(g)
                BY <4>4, LenProperties
            <4>6. PICK b \in Nat : b = Len(s[m])
                BY <4>4
            <4>7. o[m] = a
                BY <2>5, <3>4, <3>6, <4>3, <4>5
            <4>8. PICK h : h = f[m]
                OBVIOUS
            <4>9. /\ h \in Seq(X) /\ Len(h) = a + b
                  /\ \A i \in 1..(a + b) : h[i] = IF i <= a THEN g[i] ELSE s[m][i - a]
                BY <4>4, <4>5, <4>6, <4>8, ConcatProperties
            <4>10. ASSUME NEW l \in 1..m, NEW k \in 1..Len(s[l])
                   PROVE  o[l] + k \in 1..(a + b) /\ h[o[l] + k] = s[l][k]
                <5>1. CASE l = m
                    <6>1. k \in 1..b
                        BY <4>6, <4>10, <5>1
                    <6>2. a + k \in 1..(a + b) /\ ~(a + k <= a) /\ (a + k) - a = k
                        BY <6>1
                    <6>3. QED
                        BY <4>7, <4>9, <5>1, <6>2
                <5>2. CASE l # m
                    <6>1. l \in 1..(m - 1)
                        BY <3>4, <4>10, <5>2
                    <6>2. PICK j : j = o[l] + k
                        OBVIOUS
                    <6>3. j \in 1..a /\ g[j] = s[l][k]
                        BY <4>2, <4>3, <4>5, <4>10, <6>1, <6>2
                    <6>4. j \in 1..(a + b) /\ j <= a
                        BY <6>3
                    <6>5. QED
                        BY <4>9, <6>2, <6>3, <6>4
                <5>3. QED
                    BY <5>1, <5>2
            <4>11. ASSUME NEW i \in 1..(a + b)
                   PROVE  \E l \in 1..m : \E k \in 1..Len(s[l]) : i = o[l] + k
                <5>1. CASE i <= a
                    <6>1. i \in 1..a
                        BY <4>11, <5>1
                    <6>2. PICK l \in 1..(m - 1) : \E k \in 1..Len(s[l]) : i = o[l] + k
                        BY <4>2, <4>3, <4>5, <6>1
                    <6>3. l \in 1..m
                        BY <3>4, <6>2
                    <6>4. QED
                        BY <6>2, <6>3
                <5>2. CASE ~(i <= a)
                    <6>1. i - a \in 1..b /\ i = a + (i - a)
                        BY <4>11, <5>2
                    <6>2. m \in 1..m
                        BY <3>4
                    <6>3. QED
                        BY <4>6, <4>7, <6>1, <6>2
                <5>3. QED
                    BY <5>1, <5>2
            <4>12. P(m)
                BY <4>6, <4>7, <4>8, <4>9, <4>10, <4>11
            <4>13. QED
                BY <3>4, <4>12
        <3>7. QED
            BY <3>5, <3>6
    <2> HIDE DEF P
    <2>8. \A m \in 1..n : P(m)
        BY <2>6, <2>7
    <2>9. n \in 1..n
        BY <1>4
    <2>10. /\ o \in [1..(n + 1) -> Nat] /\ o[1] = 0
           /\ \A l \in 1..n : o[l + 1] = o[l] + Len(s[l])
        <3>1. \A l \in 1..n : o[l + 1] = Len(f[l])
            BY <2>5
        <3>2. \A l \in 1..n : Len(f[l]) = o[l] + Len(s[l]) /\ Len(f[l]) \in Nat
            BY <2>8, LenProperties DEF P
        <3>3. \A l \in 1..(n + 1) : o[l] \in Nat
            <4>1. \A l \in 1..(n + 1) : l = 1 \/ l - 1 \in 1..n
                OBVIOUS
            <4>2. QED
                BY <2>5, <3>2, <4>1
        <3>4. o[1] = 0
            BY <2>5
        <3>5. QED
            BY <2>5, <3>1, <3>2, <3>3, <3>4
    <2>11. P(n)
        BY <2>8, <2>9
    <2>12. PICK q : q = f[n]
        OBVIOUS
    <2>13. /\ q \in Seq(X) /\ Len(q) = o[n] + Len(s[n])
           /\ \A l \in 1..n : \A k \in 1..Len(s[l]) : o[l] + k \in 1..Len(q) /\ q[o[l] + k] = s[l][k]
           /\ \A i \in 1..Len(q) : \E l \in 1..n : \E k \in 1..Len(s[l]) : i = o[l] + k
        BY <2>11, <2>12 DEF P
    <2>14. Offsets(o, s)
        BY <1>1, <2>10 DEF Offsets
    <2>15. Flattened(q, s, o)
        BY <1>1, <2>9, <2>10, <2>13 DEF Flattened
    <2>16. QED
        BY <2>2, <2>12, <2>13, <2>14, <2>15
<1>5. QED
    BY <1>3, <1>4

-----------------------------------------------------------------------------
(* The collective that Collective::build makes of an accepted specification *)

\* A group as append_group_edges uses it.
GroupUsable(g) ==
    /\ g.level \in Nat /\ g.id \in Int
    /\ g.pattern \in {"ring", "tree", "pairwise", "alltoall"}
    /\ g.direction \in {"forward", "reverse", "both"}
    /\ g.members \in Seq(Int) /\ Len(g.members) >= 2
    /\ g.members[1] # g.members[2]
    /\ g.pattern = "tree" => g.root \in ToSet(g.members)
    /\ g.pattern = "pairwise" => Len(g.members) % 2 = 0

\* The members of an accepted group, each once.
LEMMA MembersCounted ==
    ASSUME NEW m \in Seq(Int), IsInjective(m)
    PROVE  IsFiniteSet(ToSet(m)) /\ ToSet(m) \subseteq Int /\ Cardinality(ToSet(m)) = Len(m)
<1>1. PICK n \in Nat : n = Len(m) /\ DOMAIN m = 1..n
    BY LenProperties
<1>2. IsFiniteSet(ToSet(m)) /\ ToSet(m) \subseteq Int
    BY ToSetIn
<1>3. m \in [1..n -> ToSet(m)]
    <2>1. m \in [1..n -> Int]
        BY <1>1, LenProperties
    <2>2. \A i \in 1..n : m[i] \in ToSet(m)
        BY <1>1 DEF ToSet
    <2>3. QED
        BY <2>1, <2>2
<1>4. m \in Injection(1..n, ToSet(m)) /\ m \in Surjection(1..n, ToSet(m))
    BY <1>1, <1>3 DEF Injection, Surjection, IsInjective, ToSet
<1>5. Cardinality(1..n) = Cardinality(ToSet(m))
    BY <1>2, <1>4, FS_Injection
<1>6. Cardinality(1..n) = IF 1 > n THEN 0 ELSE n - 1 + 1
    BY FS_Interval
<1>7. QED
    BY <1>1, <1>2, <1>5, <1>6

\* A canonical group can be used.
LEMMA CanonicalUsable ==
    ASSUME NEW g \in Groups, GroupAccepted(g),
           NEW h, h = [g EXCEPT !.members = CanonicalMembers(g)]
    PROVE  GroupUsable(h) /\ h.members \in Seq(ToSet(g.members))
<1>1. /\ g.level \in Nat /\ g.id \in Int /\ g.members \in Seq(Int)
      /\ g.pattern \in {"ring", "tree", "pairwise", "alltoall"}
      /\ g.direction \in {"forward", "reverse", "both"}
    BY DEF Groups
<1>2. PICK n \in Nat : n = Len(g.members) /\ DOMAIN g.members = 1..n
    BY <1>1, LenProperties
<1>3. /\ g.members # <<>> /\ IsInjective(g.members)
      /\ \A i \in 1..n : g.members[i] > 0
      /\ g.pattern \in {"ring", "tree", "alltoall"} => n >= 2
      /\ g.pattern = "tree" => g.root \in ToSet(g.members)
      /\ g.pattern = "pairwise" => n % 2 = 0
    BY <1>2 DEF GroupAccepted, is_valid_identifier
<1>4. n >= 2
    <2>1. n # 0
        BY <1>1, <1>2, <1>3, EmptySeq
    <2>2. QED
        BY <1>1, <1>3, <2>1
<1>5. /\ h.level = g.level /\ h.id = g.id /\ h.pattern = g.pattern /\ h.direction = g.direction
      /\ h.root = g.root /\ h.members = CanonicalMembers(g)
    BY DEF Groups
<1>6. PICK M : M = ToSet(g.members)
    OBVIOUS
<1>7. IsFiniteSet(M) /\ M \subseteq Int /\ Cardinality(M) = n
    BY <1>1, <1>2, <1>3, <1>6, MembersCounted
<1>8. CASE g.pattern # "ring"
    <2>1. h.members = Numbers(M)
        BY <1>5, <1>6, <1>8 DEF CanonicalMembers, Numbers
    <2>2. PICK m : m = h.members
        OBVIOUS
    <2>3. /\ m \in Seq(M) /\ Len(m) = n /\ DOMAIN m = 1..n
          /\ \A x \in M : \E i \in DOMAIN m : m[i] = x
          /\ \A i, j \in DOMAIN m : m[i] = m[j] => i = j
        BY <1>7, <2>1, <2>2, NumbersInOrder
    <2>4. m \in Seq(Int)
        BY <1>7, <2>3, SeqMonotonic
    <2>5. m[1] # m[2]
        BY <1>4, <2>3
    <2>6. g.pattern = "tree" => g.root \in ToSet(m)
        BY <1>3, <1>6, <2>3 DEF ToSet
    <2>7. QED
        BY <1>1, <1>3, <1>4, <1>5, <1>6, <2>2, <2>3, <2>4, <2>5, <2>6 DEF GroupUsable
<1>9. CASE g.pattern = "ring"
    <2>1. PICK s : s = g.members
        OBVIOUS
    <2>2. /\ s \in Seq(Int) /\ Len(s) = n /\ DOMAIN s = 1..n
          /\ \A i \in 1..n : s[i] \in Nat /\ s[i] \in M
          /\ \A i, j \in 1..n : s[i] = s[j] => i = j
        <3>1. \A i \in 1..n : s[i] \in Int
            BY <1>1, <1>2, <2>1, ElementOfSeq
        <3>2. QED
            BY <1>1, <1>2, <1>3, <1>6, <2>1, <3>1 DEF IsInjective, ToSet
    <2> DEFINE first == CHOOSE i \in DOMAIN s : \A j \in DOMAIN s : s[i] <= s[j]
    <2>3. first \in 1..n
        <3>1. PICK T : T = {s[i] : i \in 1..n}
            OBVIOUS
        <3>2. T \subseteq Nat /\ T # {}
            BY <1>4, <2>2, <3>1
        <3>3. PICK x \in T : \A y \in T : x <= y
            BY <3>2, NatMin
        <3>4. PICK i \in 1..n : x = s[i]
            BY <3>1
        <3>5. \A j \in DOMAIN s : s[i] <= s[j]
            BY <2>2, <3>1, <3>3, <3>4
        <3>6. QED
            BY <2>2, <3>5
    <2>4. h.members = [k \in 1..n |-> s[1 + ((first + k - 2) % n)]]
        BY <1>5, <1>9, <2>1, <2>2 DEF CanonicalMembers, rotate_ring_canonical
    <2> HIDE DEF first
    <2>5. ASSUME NEW k \in 1..n PROVE 1 + ((first + k - 2) % n) \in 1..n
        <3>1. PICK x \in Int : x = first + k - 2
            BY <2>3
        <3>2. x % n \in 0..(n - 1)
            BY <1>4
        <3>3. QED
            BY <3>1, <3>2
    <2>6. PICK m : m = h.members
        OBVIOUS
    <2>7. m \in [1..n -> M]
        BY <2>2, <2>4, <2>5, <2>6
    <2>8. m \in Seq(M) /\ Len(m) = n
        BY <2>7, RowIsSeq
    <2>9. m \in Seq(Int)
        BY <1>7, <2>8, SeqMonotonic
    <2>10. m[1] # m[2]
        <3>1. PICK a \in 0..(n - 1) : a = (first + 1 - 2) % n
            BY <1>4, <2>3
        <3>2. PICK b \in 0..(n - 1) : b = (first + 2 - 2) % n
            BY <1>4, <2>3
        <3>3. a # b
            <4>1. PICK x \in 0..(n - 1) : x = first - 1
                BY <2>3
            <4>2. a = x % n /\ b = (x + 1) % n
                BY <2>3, <3>1, <3>2, <4>1
            <4>3. x % n = x
                BY <4>1
            <4>4. (x + 1) % n = IF x + 1 = n THEN 0 ELSE x + 1
                <5>1. CASE x + 1 = n
                    <6>1. n % n = 0
                        BY <1>4
                    <6>2. QED
                        BY <5>1, <6>1
                <5>2. CASE x + 1 # n
                    <6>1. PICK y \in 0..(n - 1) : y = x + 1
                        BY <5>2
                    <6>2. y % n = y
                        BY <6>1
                    <6>3. QED
                        BY <5>2, <6>1, <6>2
                <5>3. QED
                    BY <5>1, <5>2
            <4>5. QED
                BY <1>4, <4>2, <4>3, <4>4
        <3>4. 1 \in 1..n /\ 2 \in 1..n /\ 1 + a \in 1..n /\ 1 + b \in 1..n /\ 1 + a # 1 + b
            BY <1>4, <3>3
        <3>5. m[1] = s[1 + a] /\ m[2] = s[1 + b]
            BY <2>4, <2>6, <3>1, <3>2, <3>4
        <3>6. QED
            BY <2>2, <3>4, <3>5
    <2>11. QED
        BY <1>1, <1>4, <1>5, <1>6, <1>9, <2>6, <2>8, <2>9, <2>10 DEF GroupUsable
<1>10. QED
    BY <1>8, <1>9

\* A group that can be used implies a logical edge, and only edges between its members.
LEMMA GroupEdgesOf ==
    ASSUME NEW g, GroupUsable(g)
    PROVE  GroupEdges(g) # {} /\ GroupEdges(g) \subseteq ToSet(g.members) \X ToSet(g.members)
<1>1. PICK m : m = g.members
    OBVIOUS
<1>2. PICK n \in Nat : n = Len(m)
    BY <1>1, LenProperties DEF GroupUsable
<1>3. /\ DOMAIN m = 1..n /\ n >= 2 /\ m[1] # m[2]
      /\ \A i \in 1..n : m[i] \in ToSet(m)
      /\ g.pattern = "tree" => g.root \in ToSet(m)
      /\ g.pattern = "pairwise" => n % 2 = 0
      /\ g.pattern \in {"ring", "tree", "pairwise", "alltoall"}
      /\ g.direction \in {"forward", "reverse", "both"}
    BY <1>1, <1>2, LenProperties DEF GroupUsable, ToSet
<1>4. 1 \in 1..n /\ 2 \in 1..n
    BY <1>3
<1>5. CASE g.pattern = "ring"
    <2>1. GroupEdges(g) = {<<m[i], m[1 + (i % n)]>> : i \in 1..n}
        BY <1>1, <1>2, <1>3, <1>5 DEF GroupEdges
    <2>2. \A i \in 1..n : 1 + (i % n) \in 1..n
        <3>1. SUFFICES ASSUME NEW i \in 1..n PROVE 1 + (i % n) \in 1..n
            OBVIOUS
        <3>2. i % n \in 0..(n - 1)
            BY <1>3
        <3>3. QED
            BY <3>2
    <2>3. \A i \in 1..n : m[i] \in ToSet(m) /\ m[1 + (i % n)] \in ToSet(m)
        BY <1>3, <2>2
    <2>4. <<m[1], m[1 + (1 % n)]>> \in GroupEdges(g)
        BY <1>4, <2>1
    <2>5. \A x \in GroupEdges(g) : x \in ToSet(m) \X ToSet(m)
        BY <2>1, <2>3
    <2>6. QED
        BY <1>1, <2>4, <2>5
<1>6. CASE g.pattern = "tree"
    <2>1. PICK rest : rest = ToSet(m) \ {g.root}
        OBVIOUS
    <2>2. GroupEdges(g) = (IF g.direction # "reverse" THEN {<<g.root, p>> : p \in rest} ELSE {})
              \cup (IF g.direction # "forward" THEN {<<p, g.root>> : p \in rest} ELSE {})
        BY <1>1, <1>6, <2>1 DEF GroupEdges
    <2>3. rest # {} /\ rest \subseteq ToSet(m)
        BY <1>3, <1>4, <2>1
    <2>4. \A p \in rest : <<g.root, p>> \in ToSet(m) \X ToSet(m) /\ <<p, g.root>> \in ToSet(m) \X ToSet(m)
        BY <1>3, <1>6, <2>3
    <2>5. g.direction # "reverse" \/ g.direction # "forward"
        OBVIOUS
    <2>6. QED
        BY <1>1, <2>2, <2>3, <2>4, <2>5
<1>7. CASE g.pattern = "pairwise"
    <2>1. GroupEdges(g) =
             UNION {{<<m[i], m[i + 1]>>, <<m[i + 1], m[i]>>} : i \in {k \in 1..n : k % 2 = 1}}
        BY <1>1, <1>3, <1>7 DEF GroupEdges
    <2>2. ASSUME NEW i \in 1..n, i % 2 = 1
          PROVE  i + 1 \in 1..n
        BY <1>3, <1>7, <2>2
    <2>3. 1 % 2 = 1
        OBVIOUS
    <2>4. \A i \in {k \in 1..n : k % 2 = 1} : m[i] \in ToSet(m) /\ m[i + 1] \in ToSet(m)
        BY <1>3, <2>2
    <2>5. 1 \in {k \in 1..n : k % 2 = 1}
        BY <1>4, <2>3
    <2>6. <<m[1], m[1 + 1]>> \in GroupEdges(g)
        BY <2>1, <2>5
    <2>7. \A x \in GroupEdges(g) : x \in ToSet(m) \X ToSet(m)
        <3>1. SUFFICES ASSUME NEW x \in GroupEdges(g) PROVE x \in ToSet(m) \X ToSet(m)
            OBVIOUS
        <3>2. PICK i \in {k \in 1..n : k % 2 = 1} : x \in {<<m[i], m[i + 1]>>, <<m[i + 1], m[i]>>}
            BY <2>1
        <3>3. QED
            BY <2>4, <3>2
    <2>8. QED
        BY <1>1, <2>6, <2>7
<1>8. CASE g.pattern = "alltoall"
    <2>1. GroupEdges(g) = {p \in ToSet(m) \X ToSet(m) : p[1] # p[2]}
        BY <1>1, <1>8 DEF GroupEdges
    <2>2. <<m[1], m[2]>> \in GroupEdges(g)
        BY <1>3, <1>4, <2>1
    <2>3. QED
        BY <1>1, <2>1, <2>2
<1>9. QED
    BY <1>3, <1>5, <1>6, <1>7, <1>8

\* Groups by level and identifier.
GroupOrder(X) == {z \in X \X X : LexLess(<<z[1].level, z[1].id>>, <<z[2].level, z[2].id>>)}
SortedGroups(s) == Sorted(s, LAMBDA g, h : LexLess(<<g.level, g.id>>, <<h.level, h.id>>))

\* Level and identifier order the groups, repeated ones side by side.
LEMMA GroupOrderIsWeak ==
    ASSUME NEW X, \A g \in X : g.level \in Nat /\ g.id \in Int
    PROVE  WeakOrder(GroupOrder(X), X)
<1>1. \A x, y \in X : <<x, y>> \in GroupOrder(X) <=>
          x.level < y.level \/ (x.level = y.level /\ x.id < y.id)
    BY DEF GroupOrder, LexLess
<1>2. ASSUME NEW x \in X, NEW y \in X, NEW z \in X
      PROVE  /\ <<x, x>> \notin GroupOrder(X)
             /\ <<x, y>> \in GroupOrder(X) /\ <<y, z>> \in GroupOrder(X) => <<x, z>> \in GroupOrder(X)
             /\ <<x, y>> \notin GroupOrder(X) /\ <<y, z>> \notin GroupOrder(X) => <<x, z>> \notin GroupOrder(X)
    <2>1. /\ x.level \in Nat /\ x.id \in Int /\ y.level \in Nat /\ y.id \in Int
          /\ z.level \in Nat /\ z.id \in Int
        OBVIOUS
    <2>2. QED
        BY <1>1, <2>1
<1>3. QED
    BY <1>2 DEF WeakOrder

\* Sorting the groups keeps them.
LEMMA GroupsAreSorted ==
    ASSUME NEW X, \A g \in X : g.level \in Nat /\ g.id \in Int, NEW s \in Seq(X)
    PROVE  \E p : Places(p, GroupOrder(X), s) /\ SortedGroups(s) = [k \in DOMAIN s |-> s[p[k]]]
<1> DEFINE less(g, h) == LexLess(<<g.level, g.id>>, <<h.level, h.id>>)
           before(i, j) == less(s[i], s[j]) \/ (~less(s[j], s[i]) /\ i < j)
           c(k) == CHOOSE i \in DOMAIN s : 1 + Cardinality({j \in DOMAIN s : before(j, i)}) = k
<1>1. SortedGroups(s) = [k \in DOMAIN s |-> s[c(k)]]
    BY DEF SortedGroups, Sorted
<1>2. PICK D : D = DOMAIN s
    OBVIOUS
<1>3. \A i \in D : s[i] \in X
    BY <1>2, ElementOfSeq, LenProperties
<1>4. PICK O : O = GroupOrder(X)
    OBVIOUS
<1>5. PICK R : R = Precedes(O, s)
    OBVIOUS
<1>6. ASSUME NEW i \in D, NEW j \in D PROVE before(i, j) <=> <<i, j>> \in R
    <2>1. s[i] \in X /\ s[j] \in X
        BY <1>3
    <2>2. /\ <<s[i], s[j]>> \in O <=> less(s[i], s[j])
          /\ <<s[j], s[i]>> \in O <=> less(s[j], s[i])
        BY <1>4, <2>1 DEF GroupOrder
    <2>3. QED
        BY <1>2, <1>5, <2>2, PrecedesPair
<1>7. \A i \in D : {j \in D : before(j, i)} = Below(R, D, i)
    BY <1>6 DEF Below
<1>8. WeakOrder(O, X)
    BY <1>4, GroupOrderIsWeak
<1>9. \A k \in D : \E i \in D : 1 + Cardinality(Below(R, D, i)) = k
    BY <1>2, <1>5, <1>8, PlacesExist
<1>10. ASSUME NEW k \in D PROVE c(k) \in D /\ 1 + Cardinality(Below(R, D, c(k))) = k
    <2>1. PICK i \in D : 1 + Cardinality(Below(R, D, i)) = k
        BY <1>9
    <2>2. 1 + Cardinality({j \in D : before(j, i)}) = k
        BY <1>7, <2>1
    <2>3. c(k) \in D /\ 1 + Cardinality({j \in D : before(j, c(k))}) = k
        BY <1>2, <2>2
    <2>4. QED
        BY <1>7, <2>3
<1> HIDE DEF c, before, less
<1>11. PICK p : p = [k \in D |-> c(k)]
    OBVIOUS
<1>12. p \in [D -> D] /\ \A k \in D : 1 + Cardinality(Below(R, D, p[k])) = k
    BY <1>10, <1>11
<1>13. Places(p, O, s)
    BY <1>2, <1>5, <1>8, <1>12, PlacesExist
<1>14. SortedGroups(s) = [k \in DOMAIN s |-> s[p[k]]]
    BY <1>1, <1>2, <1>11
<1>15. QED
    BY <1>4, <1>13, <1>14

\* The groups of an accepted specification, canonical and sorted, can all be used.
LEMMA GroupsAreUsable ==
    ASSUME NEW spec \in Declarations, CollectiveAccepted(spec)
    PROVE  \E n \in Nat \ {0} : /\ DOMAIN CanonicalGroups(spec.groups) = 1..n
                                /\ \A i \in 1..n : GroupUsable(CanonicalGroups(spec.groups)[i])
<1>1. PICK G : G = spec.groups
    OBVIOUS
<1>2. G \in Seq(Groups) /\ G # <<>> /\ \A i \in DOMAIN G : GroupAccepted(G[i])
    BY <1>1 DEF Declarations, CollectiveAccepted
<1>3. PICK n \in Nat \ {0} : n = Len(G) /\ DOMAIN G = 1..n
    BY <1>2, EmptySeq, LenProperties
<1>4. PICK s : s = [i \in DOMAIN G |-> [G[i] EXCEPT !.members = CanonicalMembers(G[i])]]
    OBVIOUS
<1>5. ASSUME NEW i \in 1..n PROVE GroupUsable(s[i])
    <2>1. PICK g : g = G[i]
        OBVIOUS
    <2>2. g \in Groups /\ GroupAccepted(g)
        BY <1>2, <1>3, <2>1, ElementOfSeq
    <2>3. s[i] = [g EXCEPT !.members = CanonicalMembers(g)]
        BY <1>3, <1>4, <2>1
    <2>4. QED
        BY <2>2, <2>3, CanonicalUsable
<1>6. PICK X : X = {s[i] : i \in 1..n}
    OBVIOUS
<1>7. \A g \in X : GroupUsable(g) /\ g.level \in Nat /\ g.id \in Int
    BY <1>5, <1>6 DEF GroupUsable
<1>8. s \in [1..n -> X]
    BY <1>3, <1>4, <1>6
<1>9. s \in Seq(X) /\ DOMAIN s = 1..n
    BY <1>8, RowIsSeq
<1>10. PICK p : Places(p, GroupOrder(X), s) /\ SortedGroups(s) = [k \in DOMAIN s |-> s[p[k]]]
    <2>1. \A g \in X : g.level \in Nat /\ g.id \in Int
        BY <1>7
    <2>2. s \in Seq(X)
        BY <1>9
    <2>3. QED
        BY <2>1, <2>2, GroupsAreSorted
<1>11. CanonicalGroups(G) = SortedGroups(s)
    BY <1>4 DEF CanonicalGroups, SortedGroups
<1>12. \A k \in 1..n : p[k] \in 1..n
    BY <1>9, <1>10 DEF Places
<1>13. PICK q : q = CanonicalGroups(spec.groups)
    OBVIOUS
<1>14. DOMAIN q = 1..n /\ \A k \in 1..n : q[k] = s[p[k]]
    BY <1>1, <1>9, <1>10, <1>11, <1>13
<1>15. \A k \in 1..n : GroupUsable(q[k])
    BY <1>5, <1>12, <1>14
<1>16. QED
    BY <1>13, <1>14, <1>15

\* Pairs of participants in lexicographic order.
PairsInOrder(S) == Ordered(S, LexLess)

\* The pairs in their order: every one of them once.
LEMMA PairsAreOrdered ==
    ASSUME NEW S, IsFiniteSet(S), S \subseteq Int \X Int
    PROVE  /\ PairsInOrder(S) \in Seq(S) /\ Len(PairsInOrder(S)) = Cardinality(S)
           /\ DOMAIN PairsInOrder(S) = 1..Cardinality(S)
<1> DEFINE c(i) == CHOOSE x \in S : Cardinality({y \in S : LexLess(y, x)}) = i - 1
<1>1. PICK R : R = {z \in S \X S : LexLess(z[1], z[2])}
    OBVIOUS
<1>2. \A x, y \in S : <<x, y>> \in R <=> LexLess(x, y)
    BY <1>1
<1>3. StrictOrder(R, S)
    <2>1. ASSUME NEW x \in S, NEW y \in S
          PROVE  /\ x[1] \in Int /\ x[2] \in Int /\ y[1] \in Int /\ y[2] \in Int
                 /\ x # y => x[1] # y[1] \/ x[2] # y[2]
                 /\ <<x, y>> \in R <=> x[1] < y[1] \/ (x[1] = y[1] /\ x[2] < y[2])
        <3>1. x \in Int \X Int /\ y \in Int \X Int
            OBVIOUS
        <3>2. <<x, y>> \in R <=> x[1] < y[1] \/ (x[1] = y[1] /\ x[2] < y[2])
            BY <1>2 DEF LexLess
        <3>3. QED
            BY <3>1, <3>2
    <2>2. ASSUME NEW x \in S PROVE <<x, x>> \notin R
        BY <2>1
    <2>3. ASSUME NEW x \in S, NEW y \in S, x # y PROVE <<x, y>> \in R \/ <<y, x>> \in R
        BY <2>1, <2>3
    <2>4. ASSUME NEW x \in S, NEW y \in S, NEW z \in S, <<x, y>> \in R, <<y, z>> \in R
          PROVE  <<x, z>> \in R
        BY <2>1, <2>4
    <2>5. QED
        BY <2>2, <2>3, <2>4 DEF StrictOrder
<1>4. \A x \in S : {y \in S : LexLess(y, x)} = Below(R, S, x)
    BY <1>2 DEF Below
<1>5. PICK n : n = Cardinality(S)
    OBVIOUS
<1>6. PICK q : q = PairsInOrder(S)
    OBVIOUS
<1>7. q = [i \in 1..n |-> c(i)]
    BY <1>5, <1>6 DEF PairsInOrder, Ordered
<1>8. ASSUME NEW i \in 1..n PROVE c(i) \in S /\ Cardinality(Below(R, S, c(i))) = i - 1
    <2>1. \A k \in 1..n : \E x \in S : Cardinality(Below(R, S, x)) = k - 1
        BY <1>3, <1>5, Ranks
    <2>2. PICK x \in S : Cardinality(Below(R, S, x)) = i - 1
        BY <2>1
    <2>3. Cardinality({y \in S : LexLess(y, x)}) = i - 1
        BY <1>4, <2>2
    <2>4. c(i) \in S /\ Cardinality({y \in S : LexLess(y, c(i))}) = i - 1
        BY <2>3
    <2>5. QED
        BY <1>4, <2>4
<1> HIDE DEF c
<1>9. q \in [1..n -> S] /\ \A i \in 1..n : q[i] = c(i)
    BY <1>7, <1>8
<1>10. Ranked(q, R, S)
    BY <1>5, <1>8, <1>9 DEF Ranked
<1>11. q \in Seq(S) /\ Len(q) = n /\ DOMAIN q = 1..n
    BY <1>3, <1>5, <1>9, <1>10, RankedIsSeq
<1>12. QED
    BY <1>5, <1>6, <1>11

\* The collective has a logical edge, and each of them has its stage.
CollectiveBuilt(r) ==
    LET c == r.collective IN
    /\ c.logical_edges \in Seq(Int \X Int) /\ Len(c.logical_edges) # 0
    /\ c.stage_count \in Nat \ {0}
    /\ c.logical_edge_stage \in [DOMAIN c.logical_edges -> 0..(c.stage_count - 1)]

\* Collective::build finds a logical edge in every group, and the stage of each.
LEMMA CollectiveIsBuilt ==
    ASSUME NEW spec \in Declarations, CollectiveAccepted(spec),
           NEW r, r.collective = BuiltCollective(spec)
    PROVE  CollectiveBuilt(r)
<1>1. PICK G : G = CanonicalGroups(spec.groups)
    OBVIOUS
<1>2. PICK n \in Nat \ {0} : DOMAIN G = 1..n /\ \A i \in 1..n : GroupUsable(G[i])
    BY <1>1, GroupsAreUsable
<1>3. PICK pairs : pairs = UNION {GroupEdges(g) : g \in ToSet(G)}
    OBVIOUS
<1>4. \A g \in ToSet(G) : GroupUsable(g)
    BY <1>2 DEF ToSet
<1>5. pairs \subseteq Int \X Int /\ pairs # {}
    <2>1. \A g \in ToSet(G) : GroupEdges(g) # {} /\ GroupEdges(g) \subseteq Int \X Int
        <3>1. SUFFICES ASSUME NEW g \in ToSet(G) PROVE GroupEdges(g) # {} /\ GroupEdges(g) \subseteq Int \X Int
            OBVIOUS
        <3>2. GroupEdges(g) # {} /\ GroupEdges(g) \subseteq ToSet(g.members) \X ToSet(g.members)
            BY <1>4, GroupEdgesOf
        <3>3. ToSet(g.members) \subseteq Int
            BY <1>4, ToSetIn DEF GroupUsable
        <3>4. QED
            BY <3>2, <3>3
    <2>2. G[1] \in ToSet(G)
        BY <1>2 DEF ToSet
    <2>3. PICK x : x \in GroupEdges(G[1])
        BY <2>1, <2>2
    <2>4. x \in pairs
        BY <1>3, <2>2, <2>3
    <2>5. QED
        BY <1>3, <2>1, <2>4
<1>6. IsFiniteSet(pairs)
    <2>1. PICK T : T = {GroupEdges(g) : g \in ToSet(G)}
        OBVIOUS
    <2>2. IsFiniteSet(T)
        <3>1. PICK f : f = [i \in 1..n |-> GroupEdges(G[i])]
            OBVIOUS
        <3>2. f \in Surjection(1..n, T)
            BY <1>2, <2>1, <3>1 DEF Surjection, ToSet
        <3>3. IsFiniteSet(1..n)
            BY FS_Interval
        <3>4. QED
            BY <3>2, <3>3, FS_Surjection
    <2>3. ASSUME NEW g \in ToSet(G) PROVE IsFiniteSet(GroupEdges(g))
        <3>1. GroupEdges(g) \subseteq ToSet(g.members) \X ToSet(g.members)
            BY <1>4, GroupEdgesOf
        <3>2. IsFiniteSet(ToSet(g.members))
            BY <1>4, ToSetIn DEF GroupUsable
        <3>3. IsFiniteSet(ToSet(g.members) \X ToSet(g.members))
            BY <3>2, FS_Product
        <3>4. QED
            BY <3>1, <3>3, FS_Subset
    <2>4. \A t \in T : IsFiniteSet(t)
        BY <2>1, <2>3
    <2>5. QED
        BY <1>3, <2>1, <2>2, <2>4, FS_UNION
<1>7. PICK edges : edges = PairsInOrder(pairs)
    OBVIOUS
<1>8. PICK m \in Nat \ {0} : m = Cardinality(pairs)
    BY <1>5, <1>6, FS_CardinalityType, FS_EmptySet
<1>9. edges \in Seq(pairs) /\ Len(edges) = m /\ DOMAIN edges = 1..m
    BY <1>5, <1>6, <1>7, <1>8, PairsAreOrdered
<1>10. edges \in Seq(Int \X Int)
    BY <1>5, <1>9, SeqMonotonic
<1>11. PICK stages : stages = [i \in DOMAIN edges |-> StageOf(G, edges[i])]
    OBVIOUS
<1>12. ASSUME NEW i \in 1..m PROVE stages[i] \in Nat
    <2>1. edges[i] \in pairs
        BY <1>9, ElementOfSeq
    <2>2. PICK T : T = {g.level : g \in {h \in ToSet(G) : edges[i] \in GroupEdges(h)}}
        OBVIOUS
    <2>3. T \subseteq Nat /\ T # {}
        <3>1. PICK h \in ToSet(G) : edges[i] \in GroupEdges(h)
            BY <1>3, <2>1
        <3>2. h.level \in T
            BY <2>2, <3>1
        <3>3. \A g \in ToSet(G) : g.level \in Nat
            BY <1>4 DEF GroupUsable
        <3>4. QED
            BY <2>2, <3>2, <3>3
    <2>4. PICK x \in T : \A y \in T : x <= y
        BY <2>3, NatMin
    <2>5. Min(T) \in T
        BY <2>4 DEF Min
    <2>6. stages[i] = Min(T)
        BY <1>9, <1>11, <2>2 DEF StageOf
    <2>7. QED
        BY <2>3, <2>5, <2>6
<1>13. stages \in [1..m -> Nat]
    BY <1>9, <1>11, <1>12
<1>14. PICK S : S = {0} \cup ToSet(stages)
    OBVIOUS
<1>15. S \subseteq Nat /\ S # {} /\ IsFiniteSet(S) /\ \A i \in 1..m : stages[i] \in S
    <2>1. stages \in Seq(Nat) /\ DOMAIN stages = 1..m
        BY <1>13, RowIsSeq
    <2>2. ToSet(stages) \subseteq Nat /\ IsFiniteSet(ToSet(stages))
        BY <2>1, ToSetIn
    <2>3. IsFiniteSet({0}) /\ IsFiniteSet({0} \cup ToSet(stages))
        BY <2>2, FS_Singleton, FS_Union
    <2>4. QED
        BY <1>14, <2>1, <2>2, <2>3 DEF ToSet
<1>16. PICK x \in S : \A y \in S : x >= y
    BY <1>15, NatMax
<1>17. Max(S) \in S /\ \A y \in S : Max(S) >= y
    BY <1>16 DEF Max
<1>18. PICK k \in Nat : k = Max(S)
    BY <1>15, <1>17
<1>19. stages \in [1..m -> 0..((1 + k) - 1)]
    <2>1. \A i \in 1..m : stages[i] \in Nat /\ stages[i] <= k
        BY <1>13, <1>15, <1>17, <1>18
    <2>2. QED
        BY <1>13, <2>1
<1>20. /\ r.collective.logical_edges = edges
       /\ r.collective.logical_edge_stage = stages
       /\ r.collective.stage_count = 1 + k
    BY <1>1, <1>3, <1>7, <1>11, <1>14, <1>18 DEF BuiltCollective, PairsInOrder, Ordered
<1>21. QED
    BY <1>9, <1>10, <1>19, <1>20 DEF CollectiveBuilt

-----------------------------------------------------------------------------
(* The inductive invariant *)

\* The bindings of a logical edge, and what they let pass: Passable, for any edge.
EndsOf(l) == request.collective.logical_edges[l]
BoundEnds(l) == find_binding(request, EndsOf(l)[1]) # {} /\ find_binding(request, EndsOf(l)[2]) # {}
From(l) == At(EndsOf(l)[1])
Upto(l) == At(EndsOf(l)[2])
PassableOn(l, e) ==
    /\ edge_statically_usable(e) /\ edge_carries_demand(e)
    /\ binding_allows_edge(From(l), e) /\ binding_allows_edge(Upto(l), e)
    /\ Edge(e).to \in planner.nodes

\* The route p leads from the source of logical edge l to node n over passable
\* edges, within the cost limit; and it is a route a plan may hold.
Track(l, p, n) ==
    /\ p \in Routes
    /\ \A k \in DOMAIN p : Edge(p[k]).from = Visits(p, From(l).node)[k] /\ PassableOn(l, p[k])
    /\ Visits(p, From(l).node)[Len(p) + 1] = n
    /\ RouteCost(p) <= Policy.max_path_cost
Good(l, p) ==
    /\ Track(l, p, Upto(l).node)
    /\ Len(p) <= Policy.max_hops
    /\ IsInjective(Visits(p, From(l).node))
GoodRoutes(l) == {p \in Routes : Good(l, p)}

\* A set of routes offered for logical edge l.
OfferOk(l, a) ==
    /\ a.paths \in Seq(Routes) /\ Len(a.paths) = Wanted /\ IsInjective(a.paths)
    /\ \A i \in DOMAIN a.paths : Good(l, a.paths[i])
    /\ \A i, j \in DOMAIN a.paths : i # j =>
          Disjoint(a.paths[i], a.paths[j]) /\ Diverse(a.paths[i], a.paths[j])
IsRow(s) == s \in Seq(ToSet(s))
OffersOk(l, s) == IsRow(s) /\ \A i \in DOMAIN s : OfferOk(l, s[i])

SetupOk ==
    /\ Built(request) /\ CollectiveBuilt(request)
    /\ planner = PlannerState(request)
    /\ limits \in PlannerLimits
    /\ edge \in LogicalEdges
    /\ IsRow(plans)
    /\ \A l \in DOMAIN plans :
          /\ l \in LogicalEdges
          /\ plans[l].alternatives = <<>> \/ (BoundEnds(l) /\ From(l).node \in planner.nodes)
          /\ OffersOk(l, plans[l].alternatives)
    /\ expansions \in Nat /\ expansions <= Policy.max_search_expansions
    /\ enumerated \in Nat /\ enumerated <= limits.max_total_enumeration_steps

\* The state of one logical edge's analysis.
StartedOk ==
    /\ Len(plans) = edge - 1
    /\ BoundEnds(edge) /\ {From(edge).node, Upto(edge).node} \subseteq planner.nodes

\* The enumeration: the stack holds the nodes of the route and what it cost to come there.
Frames == [node : Int, at : Nat \ {0}, cost : Nat]
WalkStates ==
    [limit : 1..Deepest, stack : Seq(Frames), route : Routes, paths : Seq(Routes), steps : Nat,
     exhaustive : BOOLEAN]
Walks(w) ==
    /\ w \in WalkStates
    /\ w.stack = <<>> \/ Len(w.stack) = Len(w.route) + 1
    /\ \A k \in DOMAIN w.stack :
          /\ Track(edge, SubSeq(w.route, 1, k - 1), w.stack[k].node)
          /\ w.stack[k].cost = RouteCost(SubSeq(w.route, 1, k - 1))
    /\ Len(w.paths) <= limits.max_exhaustive_paths + 1
    /\ \A i \in DOMAIN w.paths : Track(edge, w.paths[i], Upto(edge).node)

\* The shortest-path search: the labels lead back to the source.
Labels == [cost : Nat, hops : Nat, node : Int]
LeadsBack(s, key) ==
    /\ key \in DOMAIN s.prev
    /\ s.prev[key] \in Edges /\ PassableOn(edge, s.prev[key]) /\ Edge(s.prev[key]).to = key[1]
    /\ <<Edge(s.prev[key]).from, key[2] - 1>> \in DOMAIN s.dist
    /\ Saturate(s.dist[<<Edge(s.prev[key]).from, key[2] - 1>>] + planner.cost[s.prev[key]]) <= s.dist[key]
Searches(s) ==
    /\ DOMAIN s = {"dist", "prev", "frontier"}
    /\ IsFiniteSet(s.frontier) /\ s.frontier \subseteq Labels
    /\ \A l \in s.frontier : Key(l) \in DOMAIN s.dist
    /\ \A key \in DOMAIN s.dist :
          /\ key \in Int \X Nat /\ s.dist[key] \in Nat /\ s.dist[key] <= Policy.max_path_cost
          /\ IF key[2] = 0 THEN key[1] = From(edge).node ELSE LeadsBack(s, key)

\* The routes of the pool, and those the sample still has to add to them.
Bans == [edges : SUBSET Edges, nodes : SUBSET Int]
Distinct(q) == q \in Seq(GoodRoutes(edge)) /\ IsInjective(q)
SampleStates ==
    [chain : SUBSET Edges, through : Seq(Int), steps : Nat, probes : Seq(Bans),
     extra : Seq(Routes), candidates : Seq(Routes)]
Samples(m, q) ==
    /\ m \in SampleStates
    /\ Distinct(m.extra) /\ ToSet(m.extra) \cap ToSet(q) = {}
    /\ Distinct(m.candidates)
PoolBound(w) == IF w.exhaustive THEN limits.max_exhaustive_paths
                ELSE IF limits.max_candidate_paths = 0 THEN 1 ELSE limits.max_candidate_paths
FoundOk(f) == f = Nothing \/ Track(edge, f, Upto(edge).node)
TaskOk(t, w, q, m) ==
    /\ ~w.exhaustive
    /\ t \in {"cheapest", "chain", "probe"}
    /\ t = "cheapest" => q = <<>> /\ m.extra = <<>>
    /\ t = "chain" => Len(q) < limits.max_candidate_paths /\ m.extra = <<>> /\ q # <<>>
    /\ t = "probe" => q # <<>>

\* The choice of a set: positions of the pool in ascending order.
Chooses(c, q) ==
    /\ DOMAIN c = {"chosen", "next", "entering", "considered", "limited", "offered", "rejected"}
    /\ c.considered \in Nat
    /\ c.rejected \in [disjointness : Nat, domain : Nat, capacity : Nat]
    /\ c.chosen \in Seq(DOMAIN q) /\ Len(c.chosen) <= Wanted
    /\ c.next \in Nat \ {0}
    /\ \A i \in DOMAIN c.chosen : c.chosen[i] < c.next
    /\ \A i, j \in DOMAIN c.chosen : i < j =>
          c.chosen[i] < c.chosen[j] /\ Compatible(q[c.chosen[i]], q[c.chosen[j]])
    /\ OffersOk(edge, c.offered) /\ Len(c.offered) <= limits.max_set_alternatives

AnalysisFits(at, w, q, b, m, t, s, f, c) ==
    /\ Walks(w)
    /\ Distinct(q) /\ Len(q) <= PoolBound(w) /\ b \in Bans
    /\ at \in {"sweep", "walk"} => q = <<>> /\ m = EmptySample /\ ~w.exhaustive
    /\ at \in {"search", "pool"} => TaskOk(t, w, q, m) /\ Samples(m, q)
    /\ at = "search" => Searches(s) /\ f = Nothing
    /\ at = "pool" => FoundOk(f)
    /\ at \in {"sets", "certify"} => Chooses(c, q)
    /\ at \notin {"sets", "certify"} => c = EmptyCombo
AnalysisOk ==
    StartedOk /\ AnalysisFits(pc, walk, pool, blocks, sample, task, search, found, combo)

Answer ==
    /\ pc = "validate" => verdict = "none" /\ PlanShape(plan)
    /\ pc = "done" => /\ verdict \in {"denied", "plan", "rejected", "internal"}
                      /\ verdict = "plan" => PlanShape(plan) /\ validate_plan(plan, request)

Analysing == {"sweep", "walk", "search", "pool", "sets", "certify"}
Working ==
    /\ SetupOk
    /\ pc \in Analysing \cup {"edge", "assign", "validate", "done"}
    /\ pc # "done" => verdict = "none"
    /\ pc \in Analysing => AnalysisOk
    /\ pc = "edge" => Len(plans) = edge - 1
    /\ pc = "assign" => Len(plans) = edge /\ (edge = Len(request.collective.logical_edges) \/ Failed)
    /\ Answer

IInv ==
    /\ input \in Inputs
    /\ \/ pc = "build" /\ verdict = "none"
       \/ pc = "done" /\ verdict = "refused"
       \/ Working

-----------------------------------------------------------------------------
(* What does not change with the request and the planner's state *)

\* The cost of a route and its signature, as functions of what they depend on.
FoldOf(cost, g, S) ==
    CHOOSE f : f = [s \in SUBSET S |->
        IF s = {} THEN 0
        ELSE Saturate(f[s \ {CHOOSE x \in s : TRUE}] + cost[g[CHOOSE x \in s : TRUE]])]
LevelOf(r, e) ==
    LET chain == domain_chain(r.fabric.domains, r.fabric.edges[e].domain)
        here == {i \in DOMAIN chain :
                    Domain(r.fabric.domains, chain[i]).kind = r.policy.diversity_level}
    IN IF here = {} THEN r.fabric.edges[e].domain ELSE chain[Min(here)]
SignatureIn(r, p) ==
    LET known == Among(p, {i \in DOMAIN p : valid(r.fabric.edges[p[i]].domain)})
        hops == [i \in DOMAIN known |-> LevelOf(r, known[i])]
        rest == Tail(hops)
        last == {i \in DOMAIN rest : rest[i] = Last(hops)}
    IN IF r.policy.diversity = "none" \/ hops = <<>> THEN {}
       ELSE {rest[i] : i \in DOMAIN rest \ (IF last = {} THEN {} ELSE {Min(last)})}

\* The cost and the signature of a route are decided by the planner's state and the request.
LEMMA CostAndSignature ==
    ASSUME NEW p
    PROVE  /\ RouteCost(p) = Saturate(FoldOf(planner.cost, p, DOMAIN p)[DOMAIN p])
           /\ RouteCost(p)' = Saturate(FoldOf(planner'.cost, p, DOMAIN p)[DOMAIN p])
           /\ Signature(p) = SignatureIn(request, p) /\ Signature(p)' = SignatureIn(request', p)
<1>1. RouteCost(p) = Saturate(FoldOf(planner.cost, p, DOMAIN p)[DOMAIN p])
    BY DEF RouteCost, FoldSeq, FoldFunction, FoldFunctionOnSet, MapThenFoldSet, FoldOf
<1>2. RouteCost(p)' = Saturate(FoldOf(planner'.cost, p, DOMAIN p)[DOMAIN p])
    BY DEF RouteCost, FoldSeq, FoldFunction, FoldFunctionOnSet, MapThenFoldSet, FoldOf
<1>3. Signature(p) = SignatureIn(request, p)
    BY DEF Signature, SignatureIn, LevelOf, domain_at_level, Edge, Policy
<1>4. Signature(p)' = SignatureIn(request', p)
    BY DEF Signature, SignatureIn, LevelOf, domain_at_level, Edge, Policy
<1>5. QED
    BY <1>1, <1>2, <1>3, <1>4

\* The routes of the fabric and what they are worth do not change.
LEMMA RoutesKept ==
    ASSUME request' = request, planner' = planner
    PROVE  /\ Routes' = Routes /\ Edges' = Edges /\ Policy' = Policy /\ Wanted' = Wanted
           /\ LogicalEdges' = LogicalEdges
           /\ \A e : Edge(e)' = Edge(e)
           /\ \A p : RouteCost(p)' = RouteCost(p)
           /\ \A p : Signature(p)' = Signature(p)
           /\ \A p, n : Visits(p, n)' = Visits(p, n)
<1>1. ASSUME NEW p PROVE RouteCost(p)' = RouteCost(p) /\ Signature(p)' = Signature(p)
    BY CostAndSignature
<1>2. /\ Routes' = Routes /\ Edges' = Edges /\ Policy' = Policy /\ Wanted' = Wanted
      /\ LogicalEdges' = LogicalEdges
    BY DEF Routes, Edges, Policy, Wanted, LogicalEdges
<1>3. \A e : Edge(e)' = Edge(e)
    BY DEF Edge
<1>4. ASSUME NEW p, NEW n PROVE Visits(p, n)' = Visits(p, n)
    BY <1>3 DEF Visits
<1>5. QED
    BY <1>1, <1>2, <1>3, <1>4

\* What passes for a logical edge, and where a route leads, does not change.
LEMMA TracksKept ==
    ASSUME request' = request, planner' = planner
    PROVE  /\ \A l : /\ EndsOf(l)' = EndsOf(l) /\ From(l)' = From(l) /\ Upto(l)' = Upto(l)
                     /\ BoundEnds(l)' = BoundEnds(l)
           /\ \A l, e : PassableOn(l, e)' <=> PassableOn(l, e)
           /\ \A l, p, n : Track(l, p, n)' <=> Track(l, p, n)
           /\ \A l, p : Good(l, p)' <=> Good(l, p)
           /\ \A l : GoodRoutes(l)' = GoodRoutes(l)
<1>1. ASSUME NEW l PROVE /\ EndsOf(l)' = EndsOf(l) /\ From(l)' = From(l) /\ Upto(l)' = Upto(l)
                         /\ BoundEnds(l)' = BoundEnds(l)
    BY DEF EndsOf, From, Upto, At, BoundEnds
<1>2. ASSUME NEW l, NEW e PROVE PassableOn(l, e)' <=> PassableOn(l, e)
    <2>1. Edge(e)' = Edge(e)
        BY RoutesKept
    <2>2. edge_statically_usable(e)' <=> edge_statically_usable(e)
        BY <2>1, RoutesKept DEF edge_statically_usable
    <2>3. edge_carries_demand(e)' <=> edge_carries_demand(e)
        BY <2>1 DEF edge_carries_demand
    <2>4. ASSUME NEW b PROVE binding_allows_edge(b, e)' <=> binding_allows_edge(b, e)
        BY <2>1 DEF binding_allows_edge
    <2>5. QED
        BY <1>1, <2>1, <2>2, <2>3, <2>4 DEF PassableOn
<1>3. ASSUME NEW l, NEW p, NEW n PROVE Track(l, p, n)' <=> Track(l, p, n)
    BY <1>1, <1>2, RoutesKept DEF Track
<1>4. ASSUME NEW l, NEW p PROVE Good(l, p)' <=> Good(l, p)
    BY <1>1, <1>3, RoutesKept DEF Good
<1>5. ASSUME NEW l PROVE GoodRoutes(l)' = GoodRoutes(l)
    BY <1>4, RoutesKept DEF GoodRoutes
<1>6. QED
    BY <1>1, <1>2, <1>3, <1>4, <1>5

\* Which routes go together does not change.
LEMMA CompatibleKept ==
    ASSUME request' = request, planner' = planner
    PROVE  /\ \A p, q : Disjoint(p, q)' <=> Disjoint(p, q)
           /\ \A p, q : Diverse(p, q)' <=> Diverse(p, q)
           /\ \A p, q : Compatible(p, q)' <=> Compatible(p, q)
<1>1. ASSUME NEW p PROVE Interior(p)' = Interior(p) /\ (DomainKnown(p)' <=> DomainKnown(p))
    BY RoutesKept DEF Interior, DomainKnown
<1>2. ASSUME NEW p, NEW q PROVE Disjoint(p, q)' <=> Disjoint(p, q)
    BY <1>1, RoutesKept DEF Disjoint
<1>3. ASSUME NEW p, NEW q PROVE Diverse(p, q)' <=> Diverse(p, q)
    BY <1>1, RoutesKept DEF Diverse, domains_independent
<1>4. ASSUME NEW p, NEW q PROVE Compatible(p, q)' <=> Compatible(p, q)
    BY <1>2, <1>3 DEF Compatible
<1>5. QED
    BY <1>2, <1>3, <1>4

\* A set that can be offered stays one.
LEMMA OffersKept ==
    ASSUME request' = request, planner' = planner
    PROVE  /\ \A l, a : OfferOk(l, a)' <=> OfferOk(l, a)
           /\ \A l, s : OffersOk(l, s)' <=> OffersOk(l, s)
<1>1. ASSUME NEW l, NEW a PROVE OfferOk(l, a)' <=> OfferOk(l, a)
    <2>1. Routes' = Routes /\ Wanted' = Wanted
        BY RoutesKept
    <2>2. \A p : Good(l, p)' <=> Good(l, p)
        BY TracksKept
    <2>3. \A p, q : (Disjoint(p, q)' <=> Disjoint(p, q)) /\ (Diverse(p, q)' <=> Diverse(p, q))
        BY CompatibleKept
    <2>4. QED
        BY <2>1, <2>2, <2>3 DEF OfferOk, IsInjective
<1>2. ASSUME NEW l, NEW s PROVE OffersOk(l, s)' <=> OffersOk(l, s)
    BY <1>1 DEF OffersOk
<1>3. QED
    BY <1>1, <1>2

\* What the request, the limits and the planner's state are.
LEMMA SetupFacts ==
    ASSUME SetupOk
    PROVE  /\ Built(request) /\ CollectiveBuilt(request) /\ PlannerSet
           /\ Wanted \in Nat \ {0} /\ Policy.max_hops \in Nat \ {0} /\ Policy.max_path_cost \in Nat
           /\ Policy.max_search_expansions \in Nat
           /\ limits.max_candidate_paths \in Nat /\ limits.max_exhaustive_paths \in Nat
           /\ limits.max_enumeration_steps \in Nat /\ limits.max_total_enumeration_steps \in Nat \ {0}
           /\ limits.max_combination_steps \in Nat /\ limits.max_set_alternatives \in Nat
           /\ limits.collect_all_denials \in BOOLEAN
           /\ Edges \subseteq Nat /\ IsFiniteSet(Edges) /\ (\A e \in Edges : Edge(e) \in FabricEdges)
           /\ Len(request.collective.logical_edges) \in Nat \ {0}
           /\ LogicalEdges = 1..Len(request.collective.logical_edges)
<1>1. /\ Built(request) /\ CollectiveBuilt(request) /\ planner = PlannerState(request)
      /\ limits \in PlannerLimits
    BY DEF SetupOk
<1>2. PlannerSet
    BY <1>1, PlannerIsSet
<1>3. /\ Wanted \in Nat \ {0} /\ Policy.max_hops \in Nat \ {0} /\ Policy.max_path_cost \in Nat
      /\ Policy.max_search_expansions \in Nat
    BY <1>1 DEF Built, PolicyBuilt, BuiltPolicies, Wanted, Policy
<1>4. /\ limits.max_candidate_paths \in Nat /\ limits.max_exhaustive_paths \in Nat
      /\ limits.max_enumeration_steps \in Nat /\ limits.max_total_enumeration_steps \in Nat \ {0}
      /\ limits.max_combination_steps \in Nat /\ limits.max_set_alternatives \in Nat
      /\ limits.collect_all_denials \in BOOLEAN
    BY <1>1 DEF PlannerLimits
<1>5. Edges \subseteq Nat /\ IsFiniteSet(Edges) /\ \A e \in Edges : Edge(e) \in FabricEdges
    BY <1>1, EdgesAreNumbers
<1>6. /\ Len(request.collective.logical_edges) \in Nat \ {0}
      /\ LogicalEdges = 1..Len(request.collective.logical_edges)
    BY <1>1, LenProperties DEF CollectiveBuilt, LogicalEdges
<1>7. QED
    BY <1>1, <1>2, <1>3, <1>4, <1>5, <1>6

\* The ends of the logical edge at hand.
LEMMA EndsHere ==
    /\ (Bound(1) /\ Bound(2)) <=> BoundEnds(edge)
    /\ Built(request) /\ BoundEnds(edge) =>
          /\ Binding(1) = From(edge) /\ Binding(2) = Upto(edge)
          /\ Source = From(edge).node /\ Target = Upto(edge).node
          /\ Source \in Int /\ Target \in Int
          /\ \A e : Passable(e) <=> PassableOn(edge, e)
<1>1. (Bound(1) /\ Bound(2)) <=> BoundEnds(edge)
    BY DEF Bound, BoundEnds, Ends, EndsOf
<1>2. ASSUME Built(request), BoundEnds(edge)
      PROVE  /\ Binding(1) = From(edge) /\ Binding(2) = Upto(edge)
             /\ Source = From(edge).node /\ Target = Upto(edge).node
             /\ Source \in Int /\ Target \in Int
             /\ \A e : Passable(e) <=> PassableOn(edge, e)
    <2>1. Binding(1) \in find_binding(request, EndsOf(edge)[1])
        BY <1>2 DEF BoundEnds, Binding, Ends, EndsOf
    <2>2. Binding(2) \in find_binding(request, EndsOf(edge)[2])
        BY <1>2 DEF BoundEnds, Binding, Ends, EndsOf
    <2>3. Binding(1) = From(edge) /\ Binding(2) = Upto(edge)
        BY <1>2, <2>1, <2>2, BoundOnce DEF From, Upto
    <2>4. Source = From(edge).node /\ Target = Upto(edge).node
        BY <2>3 DEF Source, Target
    <2>5. Binding(1) \in BuiltBindings /\ Binding(2) \in BuiltBindings
        BY <1>2, <2>1, <2>2 DEF Built, BindingsBuilt, find_binding
    <2>6. Source \in Int /\ Target \in Int
        BY <2>5 DEF Source, Target, BuiltBindings
    <2>7. \A e : Passable(e) <=> PassableOn(edge, e)
        BY <2>3 DEF Passable, PassableOn
    <2>8. QED
        BY <2>3, <2>4, <2>6, <2>7
<1>3. QED
    BY <1>1, <1>2

\* The least of two numbers.
LEMMA MinOfTwo ==
    ASSUME NEW a \in Nat, NEW b \in Nat
    PROVE  Min({a, b}) = IF a <= b THEN a ELSE b
<1>1. PICK T : T = {a, b}
    OBVIOUS
<1>2. T \subseteq Nat /\ T # {}
    BY <1>1
<1>3. PICK x \in T : \A y \in T : x <= y
    BY <1>2, NatMin
<1>4. Min(T) \in T /\ \A y \in T : Min(T) <= y
    BY <1>3 DEF Min
<1>5. PICK m \in Nat : m = Min(T)
    BY <1>2, <1>4
<1>6. m \in {a, b} /\ m <= a /\ m <= b
    BY <1>1, <1>4, <1>5
<1>7. QED
    BY <1>1, <1>5, <1>6

\* The deepest sweep is at least one hop deep and within the policy.
LEMMA DeepestIs ==
    ASSUME SetupOk, planner.nodes # {}
    PROVE  Deepest \in Nat \ {0} /\ Deepest <= Policy.max_hops
<1>1. IsFiniteSet(request.fabric.nodes) /\ request.fabric.nodes # {}
    BY SetupFacts DEF Built, FabricBuilt, PlannerSet
<1>2. PICK b \in Nat \ {0} : b = Cardinality(request.fabric.nodes)
    BY <1>1, FS_CardinalityType, FS_EmptySet
<1>3. PICK a \in Nat \ {0} : a = Policy.max_hops
    BY SetupFacts
<1>4. Deepest = Min({a, b})
    BY <1>2, <1>3 DEF Deepest
<1>5. QED
    BY <1>2, <1>3, <1>4, MinOfTwo

\* What is spent, what the limits and the setup are, when only the analysis moves on.
LEMMA SetupKept ==
    ASSUME SetupOk, request' = request, planner' = planner, limits' = limits,
           edge' = edge, plans' = plans,
           expansions' \in Nat, expansions' <= Policy.max_search_expansions,
           enumerated' \in Nat, enumerated' <= limits.max_total_enumeration_steps
    PROVE  SetupOk'
<1>1. LogicalEdges' = LogicalEdges /\ Policy' = Policy
    BY RoutesKept
<1>2. \A l : BoundEnds(l)' = BoundEnds(l) /\ From(l)' = From(l)
    BY TracksKept
<1>3. \A l, s : OffersOk(l, s)' <=> OffersOk(l, s)
    BY OffersKept
<1>4. Built(request)' /\ CollectiveBuilt(request)' /\ planner' = PlannerState(request)'
    BY DEF SetupOk
<1>5. QED
    BY <1>1, <1>2, <1>3, <1>4 DEF SetupOk

-----------------------------------------------------------------------------
(* Routes that grow by an edge *)

\* A sequence with one more element at its end.
LEMMA AppendIs ==
    ASSUME NEW X, NEW s \in Seq(X), NEW x \in X
    PROVE  /\ Append(s, x) \in Seq(X) /\ Len(Append(s, x)) = Len(s) + 1
           /\ DOMAIN Append(s, x) = 1..(Len(s) + 1)
           /\ \A i \in DOMAIN s : Append(s, x)[i] = s[i]
           /\ Append(s, x)[Len(s) + 1] = x
<1>1. /\ Append(s, x) \in Seq(X) /\ Len(Append(s, x)) = Len(s) + 1
      /\ \A i \in 1..Len(s) : Append(s, x)[i] = s[i]
      /\ Append(s, x)[Len(s) + 1] = x
    BY AppendProperties
<1>2. DOMAIN Append(s, x) = 1..(Len(s) + 1) /\ DOMAIN s = 1..Len(s)
    BY <1>1, LenProperties
<1>3. QED
    BY <1>1, <1>2

\* The nodes a route visits.
LEMMA VisitsIs ==
    ASSUME NEW p \in Routes, NEW s
    PROVE  /\ Len(Visits(p, s)) = Len(p) + 1 /\ DOMAIN Visits(p, s) = 1..(Len(p) + 1)
           /\ Visits(p, s)[1] = s
           /\ \A k \in DOMAIN p : Visits(p, s)[k + 1] = Edge(p[k]).to
<1>1. PICK n \in Nat : n = Len(p) /\ DOMAIN p = 1..n
    BY RoutePositions
<1>2. PICK t : t = [i \in 1..n |-> Edge(p[i]).to]
    OBVIOUS
<1>3. PICK X : X = {s} \cup {Edge(p[i]).to : i \in 1..n}
    OBVIOUS
<1>4. t \in [1..n -> X] /\ s \in X
    BY <1>2, <1>3
<1>5. t \in Seq(X) /\ Len(t) = n
    BY <1>4, RowIsSeq
<1>6. <<s>> \in Seq(X) /\ Len(<<s>>) = 1 /\ <<s>>[1] = s
    BY <1>4
<1>7. PICK u : u = <<s>>
    OBVIOUS
<1>8. PICK v : v = u \o t
    OBVIOUS
<1>9. u \in Seq(X) /\ Len(u) = 1 /\ u[1] = s
    BY <1>6, <1>7
<1>10. /\ v \in Seq(X) /\ Len(v) = 1 + n
       /\ \A i \in 1..(1 + n) : v[i] = IF i <= 1 THEN u[i] ELSE t[i - 1]
    BY <1>5, <1>8, <1>9, ConcatProperties
<1>11. DOMAIN v = 1..(n + 1)
    BY <1>10, LenProperties
<1>12. v = Visits(p, s)
    BY <1>1, <1>2, <1>7, <1>8 DEF Visits
<1>13. \A k \in 1..n : v[k + 1] = Edge(p[k]).to
    BY <1>2, <1>10
<1>14. v[1] = s
    BY <1>9, <1>10
<1>15. QED
    BY <1>1, <1>10, <1>11, <1>12, <1>13, <1>14

\* One more edge, one more node.
LEMMA VisitsAppend ==
    ASSUME NEW p \in Routes, NEW e \in Edges, NEW s
    PROVE  /\ \A k \in 1..(Len(p) + 1) : Visits(Append(p, e), s)[k] = Visits(p, s)[k]
           /\ Visits(Append(p, e), s)[Len(p) + 2] = Edge(e).to
<1>1. PICK q : q = Append(p, e)
    OBVIOUS
<1>2. PICK n \in Nat : n = Len(p) /\ DOMAIN p = 1..n
    BY RoutePositions
<1>3. /\ q \in Routes /\ DOMAIN q = 1..(n + 1) /\ q[n + 1] = e /\ \A i \in 1..n : q[i] = p[i]
    BY <1>1, <1>2, AppendIs DEF Routes
<1>4. Visits(q, s)[1] = s /\ \A k \in 1..(n + 1) : Visits(q, s)[k + 1] = Edge(q[k]).to
    BY <1>3, VisitsIs
<1>5. Visits(p, s)[1] = s /\ \A k \in 1..n : Visits(p, s)[k + 1] = Edge(p[k]).to
    BY <1>2, VisitsIs
<1>6. ASSUME NEW k \in 1..(n + 1) PROVE Visits(q, s)[k] = Visits(p, s)[k]
    <2>1. CASE k = 1
        BY <1>4, <1>5, <2>1
    <2>2. CASE k # 1
        <3>1. PICK j \in 1..n : k = j + 1
            BY <2>2
        <3>2. j \in 1..(n + 1)
            OBVIOUS
        <3>3. Visits(q, s)[j + 1] = Edge(q[j]).to /\ Visits(p, s)[j + 1] = Edge(p[j]).to
            BY <1>4, <1>5, <3>1, <3>2
        <3>4. QED
            BY <1>3, <3>1, <3>3
    <2>3. QED
        BY <2>1, <2>2
<1>7. Visits(q, s)[(n + 1) + 1] = Edge(e).to
    <2>1. n + 1 \in 1..(n + 1)
        OBVIOUS
    <2>2. QED
        BY <1>3, <1>4, <2>1
<1>8. n + 2 = (n + 1) + 1
    OBVIOUS
<1>9. QED
    BY <1>1, <1>2, <1>6, <1>7, <1>8

\* No edge costs nothing, one more costs its cost more.
LEMMA CostAppend ==
    ASSUME PlannerSet, NEW p \in Routes, NEW e \in Edges
    PROVE  /\ RouteCost(<<>>) = 0
           /\ Append(p, e) \in Routes
           /\ RouteCost(Append(p, e)) = Saturate(RouteCost(p) + planner.cost[e])
<1>1. RouteCost(<<>>) = 0
    <2>1. <<>> \in Routes
        BY EmptySeq DEF Routes
    <2>2. RouteCost(<<>>) = Saturate(Length(<<>>)) /\ DOMAIN <<>> = {}
        BY <2>1, RouteCostIsSum
    <2>3. PICK c : c = CostsOf(<<>>)
        OBVIOUS
    <2>4. IsFiniteSet({}) /\ Total(c, {}) = 0
        BY FS_EmptySet, TotalStep
    <2>5. Saturate(0) = 0
        BY RequestAssumption DEF Saturate
    <2>6. QED
        BY <2>2, <2>3, <2>4, <2>5 DEF Length
<1>2. PICK q : q = Append(p, e)
    OBVIOUS
<1>3. PICK n \in Nat : n = Len(p) /\ DOMAIN p = 1..n
    BY RoutePositions
<1>4. /\ q \in Routes /\ DOMAIN q = 1..(n + 1) /\ q[n + 1] = e /\ \A i \in 1..n : q[i] = p[i]
    BY <1>2, <1>3, AppendIs DEF Routes
<1>5. PICK c : c = CostsOf(q)
    OBVIOUS
<1>6. PICK d : d = CostsOf(p)
    OBVIOUS
<1>7. /\ \A i \in 1..n : c[i] = d[i]
      /\ c[n + 1] = planner.cost[e]
      /\ \A i \in 1..(n + 1) : c[i] \in Nat
    <2>1. \A i \in 1..(n + 1) : c[i] = planner.cost[q[i]] /\ q[i] \in Edges
        BY <1>4, <1>5, RoutePositions DEF CostsOf
    <2>2. \A i \in 1..n : d[i] = planner.cost[p[i]]
        BY <1>3, <1>6 DEF CostsOf
    <2>3. \A x \in Edges : planner.cost[x] \in Nat
        BY DEF PlannerSet
    <2>4. \A i \in 1..n : i \in 1..(n + 1) /\ q[i] = p[i]
        BY <1>4
    <2>5. n + 1 \in 1..(n + 1)
        OBVIOUS
    <2>6. \A i \in 1..n : c[i] = d[i]
        BY <2>1, <2>2, <2>4
    <2>7. c[n + 1] = planner.cost[e]
        BY <1>4, <2>1, <2>5
    <2>8. \A i \in 1..(n + 1) : c[i] \in Nat
        BY <2>1, <2>3
    <2>9. QED
        BY <2>6, <2>7, <2>8
<1>8. IsFiniteSet(1..(n + 1)) /\ IsFiniteSet(1..n) /\ (1..(n + 1)) \ {n + 1} = 1..n
    <2>1. (1..(n + 1)) \ {n + 1} = 1..n
        OBVIOUS
    <2>2. QED
        BY <2>1, FS_Interval
<1>9. Total(c, 1..(n + 1)) = c[n + 1] + Total(c, 1..n)
    <2>1. n + 1 \in 1..(n + 1)
        OBVIOUS
    <2>2. PICK S : S = 1..(n + 1)
        OBVIOUS
    <2>3. PICK y : y = n + 1
        OBVIOUS
    <2>4. y \in S /\ IsFiniteSet(S) /\ \A x \in S : c[x] \in Nat
        BY <1>7, <1>8, <2>1, <2>2, <2>3
    <2>5. Total(c, S) = c[y] + Total(c, S \ {y})
        BY <2>4, TotalRemove
    <2>6. QED
        BY <1>8, <2>2, <2>3, <2>5
<1>10. Total(c, 1..n) = Total(d, 1..n)
    BY <1>7, <1>8, TotalSame
<1>11. PICK a \in Nat : a = Length(p) /\ RouteCost(p) = Saturate(a)
    BY RouteCostIsSum
<1>12. PICK b \in Nat : b = planner.cost[e]
    BY DEF PlannerSet
<1>13. Length(q) = b + a
    BY <1>3, <1>4, <1>5, <1>6, <1>7, <1>9, <1>10, <1>11, <1>12 DEF Length
<1>14. RouteCost(q) = Saturate(a + b)
    BY <1>4, <1>13, RouteCostIsSum
<1>15. Saturate(Saturate(a) + b) = Saturate(a + b)
    BY SaturateTwice
<1>16. QED
    BY <1>1, <1>2, <1>4, <1>11, <1>12, <1>14, <1>15

\* The route without an edge leads nowhere.
LEMMA TrackEmpty ==
    ASSUME SetupOk, NEW l
    PROVE  <<>> \in Routes /\ RouteCost(<<>>) = 0 /\ Track(l, <<>>, From(l).node)
<1>1. <<>> \in Routes /\ Len(<<>>) = 0 /\ DOMAIN <<>> = {}
    BY EmptySeq DEF Routes
<1>2. RouteCost(<<>>) = 0
    <2>1. <<>> \in Routes
        BY <1>1
    <2>2. RouteCost(<<>>) = Saturate(Length(<<>>))
        BY <2>1, SetupFacts, RouteCostIsSum
    <2>3. PICK c : c = CostsOf(<<>>)
        OBVIOUS
    <2>4. IsFiniteSet({}) /\ Total(c, {}) = 0
        BY FS_EmptySet, TotalStep
    <2>5. Saturate(0) = 0
        BY RequestAssumption DEF Saturate
    <2>6. QED
        BY <1>1, <2>2, <2>3, <2>4, <2>5 DEF Length
<1>3. Visits(<<>>, From(l).node)[0 + 1] = From(l).node
    BY <1>1, VisitsIs
<1>4. Policy.max_path_cost \in Nat
    BY SetupFacts
<1>5. QED
    BY <1>1, <1>2, <1>3, <1>4 DEF Track

\* A route grows by an edge that leaves where it leads.
LEMMA TrackAppend ==
    ASSUME SetupOk, NEW l, NEW p, NEW n, Track(l, p, n), NEW e \in Edges, PassableOn(l, e),
           Edge(e).from = n, Saturate(RouteCost(p) + planner.cost[e]) <= Policy.max_path_cost
    PROVE  /\ Track(l, Append(p, e), Edge(e).to)
           /\ RouteCost(Append(p, e)) = Saturate(RouteCost(p) + planner.cost[e])
<1>1. p \in Routes
    BY DEF Track
<1>2. Append(p, e) \in Routes /\ RouteCost(Append(p, e)) = Saturate(RouteCost(p) + planner.cost[e])
    BY <1>1, SetupFacts, CostAppend
<1>3. PICK m \in Nat : m = Len(p) /\ DOMAIN p = 1..m
    BY <1>1, RoutePositions
<1>4. PICK q : q = Append(p, e)
    OBVIOUS
<1>5. /\ q \in Routes /\ Len(q) = m + 1 /\ DOMAIN q = 1..(m + 1)
      /\ q[m + 1] = e /\ \A i \in 1..m : q[i] = p[i]
    BY <1>1, <1>2, <1>3, <1>4, AppendIs DEF Routes
<1>6. PICK s : s = From(l).node
    OBVIOUS
<1>7. /\ \A k \in 1..(m + 1) : Visits(q, s)[k] = Visits(p, s)[k]
      /\ Visits(q, s)[m + 2] = Edge(e).to
    BY <1>1, <1>3, <1>4, VisitsAppend
<1>8. /\ \A k \in 1..m : Edge(p[k]).from = Visits(p, s)[k] /\ PassableOn(l, p[k])
      /\ Visits(p, s)[m + 1] = n
    BY <1>3, <1>6 DEF Track
<1>9. ASSUME NEW k \in 1..(m + 1)
      PROVE  Edge(q[k]).from = Visits(q, s)[k] /\ PassableOn(l, q[k])
    <2>1. CASE k = m + 1
        BY <1>5, <1>7, <1>8, <2>1
    <2>2. CASE k # m + 1
        <3>1. k \in 1..m
            BY <2>2
        <3>2. QED
            BY <1>5, <1>7, <1>8, <3>1
    <2>3. QED
        BY <2>1, <2>2
<1>10. Visits(q, s)[Len(q) + 1] = Edge(e).to
    <2>1. (m + 1) + 1 = m + 2
        OBVIOUS
    <2>2. QED
        BY <1>5, <1>7, <2>1
<1>11. QED
    BY <1>2, <1>4, <1>5, <1>6, <1>9, <1>10 DEF Track

-----------------------------------------------------------------------------
(* What an analysis step leaves alone *)

\* The parts of the invariant read nothing but the request, the planner's state, the limits
\* and the logical edge besides their parameters.
LEMMA PartsKept ==
    ASSUME request' = request, planner' = planner, limits' = limits, edge' = edge
    PROVE  /\ \A w : Walks(w)' <=> Walks(w)
           /\ \A s : Searches(s)' <=> Searches(s)
           /\ \A q : Distinct(q)' <=> Distinct(q)
           /\ \A m, q : Samples(m, q)' <=> Samples(m, q)
           /\ Bans' = Bans
           /\ \A w : PoolBound(w)' = PoolBound(w)
           /\ \A f : FoundOk(f)' <=> FoundOk(f)
           /\ \A t, w, q, m : TaskOk(t, w, q, m)' <=> TaskOk(t, w, q, m)
           /\ \A c, q : Chooses(c, q)' <=> Chooses(c, q)
<1>1. /\ Routes' = Routes /\ Edges' = Edges /\ Policy' = Policy /\ Wanted' = Wanted
      /\ (\A e : Edge(e)' = Edge(e)) /\ (\A p : RouteCost(p)' = RouteCost(p))
    BY RoutesKept
<1>2. /\ From(edge)' = From(edge) /\ Upto(edge)' = Upto(edge)
      /\ \A e : PassableOn(edge, e)' <=> PassableOn(edge, e)
      /\ \A p, n : Track(edge, p, n)' <=> Track(edge, p, n)
      /\ GoodRoutes(edge)' = GoodRoutes(edge)
    BY TracksKept
<1>3. Deepest' = Deepest
    BY <1>1 DEF Deepest
<1>4. WalkStates' = WalkStates
    BY <1>1, <1>3 DEF WalkStates
<1>5. \A w : Walks(w)' <=> Walks(w)
    BY <1>1, <1>2, <1>4 DEF Walks
<1>6. \A s, key : LeadsBack(s, key)' <=> LeadsBack(s, key)
    BY <1>1, <1>2 DEF LeadsBack
<1>7. \A s : Searches(s)' <=> Searches(s)
    BY <1>1, <1>2, <1>6 DEF Searches
<1>8. \A q : Distinct(q)' <=> Distinct(q)
    BY <1>2 DEF Distinct
<1>9. Bans' = Bans
    BY <1>1 DEF Bans
<1>10. SampleStates' = SampleStates
    BY <1>1, <1>9 DEF SampleStates
<1>11. \A m, q : Samples(m, q)' <=> Samples(m, q)
    BY <1>8, <1>10 DEF Samples
<1>12. \A w : PoolBound(w)' = PoolBound(w)
    BY DEF PoolBound
<1>13. \A f : FoundOk(f)' <=> FoundOk(f)
    BY <1>2 DEF FoundOk
<1>14. \A t, w, q, m : TaskOk(t, w, q, m)' <=> TaskOk(t, w, q, m)
    BY DEF TaskOk
<1>15. \A c, q : Chooses(c, q)' <=> Chooses(c, q)
    <2>1. \A s : OffersOk(edge, s)' <=> OffersOk(edge, s)
        BY OffersKept
    <2>2. \A p, q : Compatible(p, q)' <=> Compatible(p, q)
        BY CompatibleKept
    <2>3. QED
        BY <1>1, <2>1, <2>2 DEF Chooses
<1>16. QED
    BY <1>5, <1>7, <1>8, <1>9, <1>11, <1>12, <1>13, <1>14, <1>15

\* A step within the analysis of a logical edge: its parts may be read in the old state.
LEMMA AnalysisStep ==
    ASSUME SetupOk, StartedOk, verdict = "none", verdict' = verdict,
           request' = request, planner' = planner, limits' = limits, edge' = edge, plans' = plans,
           expansions' \in Nat, expansions' <= Policy.max_search_expansions,
           enumerated' \in Nat, enumerated' <= limits.max_total_enumeration_steps,
           pc' \in Analysing,
           AnalysisFits(pc', walk', pool', blocks', sample', task', search', found', combo')
    PROVE  Working'
<1>1. SetupOk'
    BY SetupKept
<1>2. StartedOk'
    BY TracksKept DEF StartedOk
<1>3. /\ \A w : Walks(w)' <=> Walks(w)
      /\ \A s : Searches(s)' <=> Searches(s)
      /\ \A q : Distinct(q)' <=> Distinct(q)
      /\ \A m, q : Samples(m, q)' <=> Samples(m, q)
      /\ Bans' = Bans
      /\ \A w : PoolBound(w)' = PoolBound(w)
      /\ \A f : FoundOk(f)' <=> FoundOk(f)
      /\ \A t, w, q, m : TaskOk(t, w, q, m)' <=> TaskOk(t, w, q, m)
      /\ \A c, q : Chooses(c, q)' <=> Chooses(c, q)
    BY PartsKept
<1>4. AnalysisFits(pc, walk, pool, blocks, sample, task, search, found, combo)'
    BY <1>3 DEF AnalysisFits
<1>5. AnalysisOk'
    BY <1>2, <1>4 DEF AnalysisOk
<1>6. pc' \notin {"edge", "assign", "validate", "done"}
    BY DEF Analysing
<1>7. QED
    BY <1>1, <1>5, <1>6 DEF Working, Answer, Analysing

\* A sequence is a sequence of what it holds.
LEMMA RowsAre ==
    ASSUME NEW X, NEW s \in Seq(X)
    PROVE  IsRow(s) /\ Len(s) \in Nat /\ DOMAIN s = 1..Len(s)
<1>1. PICK n \in Nat : n = Len(s) /\ DOMAIN s = 1..n
    BY LenProperties
<1>2. s \in [1..n -> ToSet(s)]
    BY <1>1, LenProperties DEF ToSet
<1>3. s \in Seq(ToSet(s))
    BY <1>2, RowIsSeq
<1>4. QED
    BY <1>1, <1>3 DEF IsRow

\* A row with one more element.
LEMMA RowGrows ==
    ASSUME NEW s, IsRow(s), NEW x
    PROVE  /\ IsRow(Append(s, x)) /\ Len(s) \in Nat /\ DOMAIN s = 1..Len(s)
           /\ Len(Append(s, x)) = Len(s) + 1 /\ DOMAIN Append(s, x) = 1..(Len(s) + 1)
           /\ \A i \in DOMAIN s : Append(s, x)[i] = s[i]
           /\ Append(s, x)[Len(s) + 1] = x
<1>1. PICK X : X = ToSet(s) \cup {x}
    OBVIOUS
<1>2. s \in Seq(X) /\ x \in X
    <2>1. s \in Seq(ToSet(s)) /\ ToSet(s) \subseteq X
        BY <1>1 DEF IsRow
    <2>2. QED
        BY <1>1, <2>1, SeqMonotonic
<1>3. Append(s, x) \in Seq(X)
    BY <1>2, AppendIs
<1>4. IsRow(Append(s, x)) /\ Len(s) \in Nat /\ DOMAIN s = 1..Len(s)
    BY <1>2, <1>3, RowsAre
<1>5. QED
    BY <1>2, <1>4, AppendIs

\* A logical edge is settled with what it offers, or with nothing.
LEMMA Settling ==
    ASSUME SetupOk, verdict = "none", verdict' = verdict, Len(plans) = edge - 1,
           request' = request, planner' = planner, limits' = limits,
           expansions' = expansions, enumerated' = enumerated,
           NEW result, Settle(result),
           OffersOk(edge, result.alternatives),
           result.alternatives = <<>> \/ (BoundEnds(edge) /\ From(edge).node \in planner.nodes)
    PROVE  Working'
<1>1. PICK n \in Nat : n = Len(plans) /\ DOMAIN plans = 1..n /\ edge = n + 1
    BY RowsAre, SetupFacts DEF SetupOk, IsRow
<1>2. /\ IsRow(plans') /\ Len(plans') = n + 1 /\ DOMAIN plans' = 1..(n + 1)
      /\ \A i \in 1..n : plans'[i] = plans[i]
      /\ plans'[n + 1] = result
    <2>1. IsRow(plans) /\ plans' = Append(plans, result)
        BY DEF SetupOk, Settle
    <2>2. QED
        BY <1>1, <2>1, RowGrows
<1>3. /\ LogicalEdges' = LogicalEdges
      /\ \A l : BoundEnds(l)' = BoundEnds(l) /\ From(l)' = From(l)
      /\ \A l, s : OffersOk(l, s)' <=> OffersOk(l, s)
      /\ Policy' = Policy
    BY RoutesKept, TracksKept, OffersKept
<1>4. edge' \in LogicalEdges
    <2>1. edge \in LogicalEdges
        BY DEF SetupOk
    <2>2. PICK k \in Nat : LogicalEdges = 1..k /\ k = Len(request.collective.logical_edges)
        BY SetupFacts
    <2>3. edge' = edge \/ (edge' = edge + 1 /\ edge # k)
        BY <2>2 DEF Settle
    <2>4. QED
        BY <1>1, <2>1, <2>2, <2>3
<1>5. ASSUME NEW l \in DOMAIN plans'
      PROVE  /\ l \in LogicalEdges
             /\ plans'[l].alternatives = <<>> \/ (BoundEnds(l) /\ From(l).node \in planner.nodes)
             /\ OffersOk(l, plans'[l].alternatives)
    <2>1. CASE l = n + 1
        BY <1>1, <1>2, <2>1 DEF SetupOk
    <2>2. CASE l # n + 1
        <3>1. l \in 1..n
            BY <1>2, <2>2
        <3>2. QED
            BY <1>1, <1>2, <3>1 DEF SetupOk
    <2>3. QED
        BY <2>1, <2>2
<1>6. Built(request)' /\ CollectiveBuilt(request)' /\ planner' = PlannerState(request)'
    BY DEF SetupOk
<1>7. SetupOk'
    <2>1. \A l \in DOMAIN plans' : OffersOk(l, plans[l].alternatives)'
        BY <1>3, <1>5
    <2>3. \A l \in DOMAIN plans' : plans'[l].alternatives = <<>> \/ (BoundEnds(l)' /\ From(l)'.node \in planner'.nodes)
        BY <1>3, <1>5
    <2>4. \A l \in DOMAIN plans' : l \in LogicalEdges'
        BY <1>3, <1>5
    <2>5. limits' \in PlannerLimits /\ edge' \in LogicalEdges' /\ IsRow(plans)'
        BY <1>2, <1>3, <1>4 DEF SetupOk, IsRow
    <2>6. /\ expansions' \in Nat /\ expansions' <= Policy'.max_search_expansions
          /\ enumerated' \in Nat /\ enumerated' <= limits'.max_total_enumeration_steps
        BY <1>3 DEF SetupOk
    <2>7. QED
        BY <1>6, <2>1, <2>3, <2>4, <2>5, <2>6 DEF SetupOk
<1>8. CASE pc' = "edge"
    <2>1. edge' = edge + 1
        BY <1>8 DEF Settle
    <2>2. Len(plans)' = edge' - 1
        BY <1>1, <1>2, <2>1
    <2>3. QED
        BY <1>7, <1>8, <2>2 DEF Working, Answer, Analysing
<1>9. CASE pc' = "assign"
    <2>1. edge' = edge /\ (edge = Len(request.collective.logical_edges) \/ result.failed)
        BY <1>9 DEF Settle
    <2>2. n + 1 \in DOMAIN plans' /\ plans'[n + 1] = result
        BY <1>2
    <2>3. result.failed => Failed'
        BY <2>2 DEF Failed
    <2>4. Len(plans)' = edge'
        BY <1>1, <1>2, <2>1
    <2>5. QED
        BY <1>7, <1>9, <2>1, <2>3, <2>4 DEF Working, Answer, Analysing
<1>10. pc' = "edge" \/ pc' = "assign"
    BY DEF Settle
<1>11. QED
    BY <1>8, <1>9, <1>10

\* A denial offers nothing.
LEMMA DenialOffersNothing ==
    ASSUME NEW kind, NEW code, NEW l
    PROVE  /\ Denial(kind, code).alternatives = <<>> /\ Limited.alternatives = <<>>
           /\ OffersOk(l, <<>>)
<1>1. <<>> \in Seq({}) /\ DOMAIN <<>> = {}
    BY EmptySeq
<1>2. IsRow(<<>>)
    BY <1>1, RowsAre
<1>3. OffersOk(l, <<>>)
    BY <1>1, <1>2 DEF OffersOk
<1>4. Denial(kind, code).alternatives = <<>> /\ Limited.alternatives = <<>>
    BY DEF Denial, Limited
<1>5. QED
    BY <1>3, <1>4
=============================================================================
