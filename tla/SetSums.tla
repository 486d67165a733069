------------------------------ MODULE SetSums ------------------------------
(***************************************************************************)
(* Sums over finite sets.  MapThenSumSet of the community modules picks    *)
(* the elements one after the other; here is why the result is a natural   *)
(* number, does not depend on the order and can be taken apart at any      *)
(* element.  Induction goes through the minimal counterexample: the set of *)
(* the counterexamples is a set, and every non-empty set of subsets of a   *)
(* finite set has a minimal element.                                       *)
(***************************************************************************)
EXTENDS Integers, FiniteSets, FiniteSetTheorems, TLAPS

\* The element MapThenSumSet takes first.
Pick(s) == CHOOSE x \in s : TRUE

\* f gives the sum of g over every subset of S, in the order of Pick.
Sums(f, g, S) ==
    f = [s \in SUBSET S |-> IF s = {} THEN 0 ELSE g[Pick(s)] + f[s \ {Pick(s)}]]

\* The sum of g over S.
Total(g, S) == (CHOOSE f : Sums(f, g, S))[S]

\* Every non-empty set of natural numbers has a least element.
LEMMA NatMin ==
    ASSUME NEW T, T \subseteq Nat, T # {}
    PROVE  \E x \in T : \A y \in T : x <= y
<1>1. PICK R : R = OpToRel(<, Nat)
    OBVIOUS
<1>2. IsWellFoundedOn(R, Nat)
    BY <1>1, NatLessThanWellFounded
<1>3. PICK x \in T : \A y \in T : ~(<<y, x>> \in R)
    BY <1>2, WFMin
<1>4. \A y \in T : ~(y < x)
    BY <1>1, <1>3 DEF OpToRel
<1>5. QED
    BY <1>4

\* Every non-empty set of subsets of a finite set has a minimal element.
LEMMA MinimalSubset ==
    ASSUME NEW S, IsFiniteSet(S), NEW T, T \subseteq SUBSET S, T # {}
    PROVE  \E x \in T : \A y \in T : y \subseteq x => y = x
<1>1. PICK R : R = StrictSubsetOrdering(S)
    OBVIOUS
<1>2. IsWellFoundedOn(R, SUBSET S)
    BY <1>1, FS_StrictSubsetOrderingWellFounded, FS_FiniteSubsetsOfFinite
<1>3. PICK x \in T : \A y \in T : ~(<<y, x>> \in R)
    BY <1>2, WFMin
<1>4. \A y \in T : ~(y \subseteq x /\ y # x)
    BY <1>1, <1>3 DEF StrictSubsetOrdering
<1>5. QED
    BY <1>4

\* Every non-empty finite set of natural numbers has a greatest element.
LEMMA NatMax ==
    ASSUME NEW T, IsFiniteSet(T), T \subseteq Nat, T # {}
    PROVE  \E x \in T : \A y \in T : x >= y
<1> DEFINE Above(x) == {y \in T : y >= x}
<1>1. \A x \in T : IsFiniteSet(Above(x)) /\ Cardinality(Above(x)) \in Nat
    BY FS_Subset, FS_CardinalityType
<1>2. PICK x \in T : \A y \in T : Cardinality(Above(x)) <= Cardinality(Above(y))
    <2>1. PICK B : B = {Cardinality(Above(x)) : x \in T}
        OBVIOUS
    <2>2. B \subseteq Nat /\ B # {}
        BY <1>1, <2>1
    <2>3. PICK b \in B : \A c \in B : b <= c
        BY <2>2, NatMin
    <2>4. QED
        BY <2>1, <2>3
<1>3. ASSUME NEW y \in T, ~(x >= y)
      PROVE  FALSE
    <2>1. x \in Nat /\ y \in Nat /\ x < y
        BY <1>3
    <2>2. \A z \in Nat : z >= y => z >= x
        BY <2>1
    <2>3. x >= x /\ ~(x >= y)
        BY <2>1
    <2>4. Above(y) \subseteq Above(x) /\ x \in Above(x) /\ x \notin Above(y)
        BY <2>2, <2>3
    <2>5. PICK a : a = Above(x)
        OBVIOUS
    <2>6. PICK b : b = Above(y)
        OBVIOUS
    <2>7. IsFiniteSet(a) /\ b \in SUBSET a /\ b # a
        BY <1>1, <2>4, <2>5, <2>6
    <2>8. Cardinality(b) <= Cardinality(a) /\ Cardinality(b) # Cardinality(a)
        BY <2>7, FS_Subset
    <2>9. Cardinality(a) <= Cardinality(b) /\ Cardinality(a) \in Nat /\ Cardinality(b) \in Nat
        BY <1>1, <1>2, <2>5, <2>6
    <2>10. QED
        BY <2>8, <2>9
<1>4. QED
    BY <1>3

\* Pick takes an element.
LEMMA PickIn ==
    ASSUME NEW s, s # {}
    PROVE  Pick(s) \in s /\ s \ {Pick(s)} \subseteq s /\ s \ {Pick(s)} # s
<1>1. Pick(s) \in s
    BY DEF Pick
<1>2. QED
    BY <1>1

\* The sum over a subset does not depend on the set it is a subset of.
LEMMA SumsAgree ==
    ASSUME NEW S, NEW T, IsFiniteSet(S), NEW f, NEW h, NEW g, Sums(f, g, S), Sums(h, g, T),
           NEW s, s \subseteq S, s \subseteq T
    PROVE  f[s] = h[s]
<1>1. PICK B : B = {u \in SUBSET S : u \subseteq T /\ f[u] # h[u]}
    OBVIOUS
<1>2. SUFFICES ASSUME B # {} PROVE FALSE
    BY <1>1
<1>3. PICK u \in B : \A v \in B : v \subseteq u => v = u
    BY <1>1, <1>2, MinimalSubset
<1>4. u \subseteq S /\ u \subseteq T /\ f[u] # h[u]
    BY <1>1, <1>3
<1>5. /\ f[u] = IF u = {} THEN 0 ELSE g[Pick(u)] + f[u \ {Pick(u)}]
      /\ h[u] = IF u = {} THEN 0 ELSE g[Pick(u)] + h[u \ {Pick(u)}]
    BY <1>4 DEF Sums
<1>6. u # {} /\ f[u \ {Pick(u)}] # h[u \ {Pick(u)}]
    BY <1>4, <1>5
<1>7. u \ {Pick(u)} \in B
    BY <1>1, <1>4, <1>6
<1>8. QED
    BY <1>3, <1>6, <1>7, PickIn

\* The sums exist.
LEMMA SumsExist ==
    ASSUME NEW S, IsFiniteSet(S), NEW g
    PROVE  \E f : Sums(f, g, S)
<1>1. PICK B : B = {u \in SUBSET S : ~\E f : Sums(f, g, u)}
    OBVIOUS
<1>2. SUFFICES ASSUME B # {} PROVE FALSE
    BY <1>1
<1>3. PICK T \in B : \A v \in B : v \subseteq T => v = T
    <2>1. B \subseteq SUBSET S
        BY <1>1
    <2>2. QED
        BY <1>2, <2>1, MinimalSubset
<1> DEFINE H(u) == CHOOSE f : Sums(f, g, u)
           F == [s \in SUBSET T |->
                    IF s = {} THEN 0 ELSE g[Pick(s)] + H(s \ {Pick(s)})[s \ {Pick(s)}]]
<1>4. T \subseteq S /\ IsFiniteSet(T)
    BY <1>1, <1>3, FS_Subset
<1>5. ASSUME NEW u, u \subseteq T, u # T
      PROVE  Sums(H(u), g, u)
    <2>1. \E f : Sums(f, g, u)
        BY <1>1, <1>3, <1>4, <1>5
    <2>2. QED
        BY <2>1
<1>6. ASSUME NEW u, u \subseteq T, u # T
      PROVE  F[u] = H(u)[u]
    <2>1. H(u)[u] = IF u = {} THEN 0 ELSE g[Pick(u)] + H(u)[u \ {Pick(u)}]
        <3>1. PICK h : h = H(u)
            OBVIOUS
        <3>2. Sums(h, g, u)
            BY <1>5, <1>6, <3>1
        <3>3. h[u] = IF u = {} THEN 0 ELSE g[Pick(u)] + h[u \ {Pick(u)}]
            BY <3>2 DEF Sums
        <3>4. QED
            BY <3>1, <3>3
    <2>2. F[u] = IF u = {} THEN 0 ELSE g[Pick(u)] + H(u \ {Pick(u)})[u \ {Pick(u)}]
        BY <1>6
    <2> HIDE DEF H, F
    <2>3. CASE u # {}
        <3>1. PICK v : v = u \ {Pick(u)}
            OBVIOUS
        <3>2. v \subseteq u /\ v # u /\ v \subseteq T /\ v # T
            BY <1>6, <2>3, <3>1, PickIn
        <3>3. Sums(H(v), g, v) /\ Sums(H(u), g, u)
            BY <1>5, <1>6, <3>2
        <3>4. IsFiniteSet(v)
            BY <1>4, <3>2, FS_Subset
        <3>5. H(v)[v] = H(u)[v]
            BY <3>2, <3>3, <3>4, SumsAgree
        <3>6. QED
            BY <2>1, <2>2, <2>3, <3>1, <3>5
    <2>4. QED
        BY <2>1, <2>2, <2>3
<1>7. \A s \in SUBSET T : s # {} => F[s \ {Pick(s)}] = H(s \ {Pick(s)})[s \ {Pick(s)}]
    <2> HIDE DEF H, F
    <2>1. ASSUME NEW s \in SUBSET T, s # {}
          PROVE  F[s \ {Pick(s)}] = H(s \ {Pick(s)})[s \ {Pick(s)}]
        <3>1. PICK v : v = s \ {Pick(s)}
            OBVIOUS
        <3>2. v \subseteq T /\ v # T
            BY <2>1, <3>1, PickIn
        <3>3. QED
            BY <1>6, <3>1, <3>2
    <2>2. QED
        BY <2>1
<1>8. Sums(F, g, T)
    <2>1. F = [s \in SUBSET T |-> IF s = {} THEN 0 ELSE g[Pick(s)] + F[s \ {Pick(s)}]]
        <3> DEFINE G == [s \in SUBSET T |-> IF s = {} THEN 0 ELSE g[Pick(s)] + F[s \ {Pick(s)}]]
        <3>1. ASSUME NEW s \in SUBSET T
              PROVE  F[s] = G[s]
            <4>1. F[s] = IF s = {} THEN 0 ELSE g[Pick(s)] + H(s \ {Pick(s)})[s \ {Pick(s)}]
                OBVIOUS
            <4>2. G[s] = IF s = {} THEN 0 ELSE g[Pick(s)] + F[s \ {Pick(s)}]
                BY DEF G
            <4> HIDE DEF F, G, H
            <4>3. QED
                BY <1>7, <4>1, <4>2
        <3>2. DOMAIN F = SUBSET T /\ DOMAIN G = SUBSET T
            OBVIOUS
        <3>3. F = [s \in SUBSET T |-> F[s]] /\ G = [s \in SUBSET T |-> G[s]]
            OBVIOUS
        <3> HIDE DEF F, G
        <3>4. F = G
            BY <3>1, <3>3
        <3>5. QED
            BY <3>4 DEF G
    <2> HIDE DEF F
    <2>2. QED
        BY <2>1 DEF Sums
<1>9. QED
    BY <1>1, <1>3, <1>8

\* Any function of sums gives the total, over the set and over its subsets.
LEMMA TotalOf ==
    ASSUME NEW S, IsFiniteSet(S), NEW g, NEW f, Sums(f, g, S), NEW s, s \subseteq S
    PROVE  Total(g, s) = f[s]
<1>1. PICK h : h = CHOOSE k : Sums(k, g, s)
    OBVIOUS
<1>2. IsFiniteSet(s)
    BY FS_Subset
<1>3. Sums(h, g, s)
    BY <1>1, <1>2, SumsExist
<1>4. h[s] = f[s]
    BY <1>2, <1>3, SumsAgree
<1>5. QED
    BY <1>1, <1>4 DEF Total

\* The total over a set, one step at a time.
LEMMA TotalStep ==
    ASSUME NEW S, IsFiniteSet(S), NEW g
    PROVE  Total(g, S) = IF S = {} THEN 0 ELSE g[Pick(S)] + Total(g, S \ {Pick(S)})
<1>1. PICK f : Sums(f, g, S)
    BY SumsExist
<1>2. f[S] = IF S = {} THEN 0 ELSE g[Pick(S)] + f[S \ {Pick(S)}]
    BY <1>1 DEF Sums
<1>3. Total(g, S) = f[S] /\ Total(g, S \ {Pick(S)}) = f[S \ {Pick(S)}]
    BY <1>1, TotalOf
<1>4. QED
    BY <1>2, <1>3

\* The total of natural numbers is one.
LEMMA TotalType ==
    ASSUME NEW S, IsFiniteSet(S), NEW g, \A x \in S : g[x] \in Nat
    PROVE  Total(g, S) \in Nat
<1>1. PICK B : B = {u \in SUBSET S : Total(g, u) \notin Nat}
    OBVIOUS
<1>2. SUFFICES ASSUME B # {} PROVE FALSE
    BY <1>1
<1>3. PICK u \in B : \A v \in B : v \subseteq u => v = u
    BY <1>1, <1>2, MinimalSubset
<1>4. u \subseteq S /\ Total(g, u) \notin Nat /\ IsFiniteSet(u)
    BY <1>1, <1>3, FS_Subset
<1>5. Total(g, u) = IF u = {} THEN 0 ELSE g[Pick(u)] + Total(g, u \ {Pick(u)})
    BY <1>4, TotalStep
<1>6. u # {}
    BY <1>4, <1>5
<1>7. PICK v : v = u \ {Pick(u)}
    OBVIOUS
<1>8. g[Pick(u)] \in Nat /\ v \subseteq u /\ v # u
    BY <1>4, <1>6, <1>7, PickIn
<1>9. Total(g, v) \in Nat
    BY <1>1, <1>3, <1>4, <1>8
<1>10. QED
    BY <1>4, <1>5, <1>6, <1>7, <1>8, <1>9

\* The total can be taken apart at any element, not only at the one Pick takes.
LEMMA TotalRemove ==
    ASSUME NEW S, IsFiniteSet(S), NEW g, \A x \in S : g[x] \in Nat, NEW y \in S
    PROVE  Total(g, S) = g[y] + Total(g, S \ {y})
<1>1. PICK B : B = {u \in SUBSET S : \E x \in u : Total(g, u) # g[x] + Total(g, u \ {x})}
    OBVIOUS
<1>2. SUFFICES ASSUME B # {} PROVE FALSE
    BY <1>1
<1>3. PICK u \in B : \A v \in B : v \subseteq u => v = u
    <2>1. B \subseteq SUBSET S
        BY <1>1
    <2>2. QED
        BY <1>2, <2>1, MinimalSubset
<1>4. u \subseteq S /\ IsFiniteSet(u)
    BY <1>1, <1>3, FS_Subset
<1>5. PICK x \in u : Total(g, u) # g[x] + Total(g, u \ {x})
    BY <1>1, <1>3
<1>6. PICK p : p = Pick(u)
    OBVIOUS
<1>7. p \in u /\ Total(g, u) = g[p] + Total(g, u \ {p})
    BY <1>4, <1>5, <1>6, PickIn, TotalStep
<1>8. x # p
    BY <1>5, <1>7
<1>9. \A v \in SUBSET u : v # u => \A z \in v : Total(g, v) = g[z] + Total(g, v \ {z})
    BY <1>1, <1>3, <1>4
<1>10. Total(g, u \ {p}) = g[x] + Total(g, (u \ {p}) \ {x})
    BY <1>5, <1>7, <1>8, <1>9
<1>11. Total(g, u \ {x}) = g[p] + Total(g, (u \ {x}) \ {p})
    BY <1>5, <1>7, <1>8, <1>9
<1>12. (u \ {p}) \ {x} = (u \ {x}) \ {p}
    OBVIOUS
<1>13. PICK w : w = (u \ {x}) \ {p}
    OBVIOUS
<1>14. g[x] \in Nat /\ g[p] \in Nat /\ Total(g, w) \in Nat
    <2>1. w \subseteq S /\ IsFiniteSet(w)
        BY <1>4, <1>13, FS_Subset
    <2>2. QED
        BY <1>4, <1>5, <1>7, <2>1, TotalType
<1>15. Total(g, u) = g[p] + (g[x] + Total(g, w)) /\ Total(g, u \ {x}) = g[p] + Total(g, w)
    BY <1>7, <1>10, <1>11, <1>12, <1>13
<1>16. QED
    BY <1>5, <1>14, <1>15

\* Only the summands count.
LEMMA TotalSame ==
    ASSUME NEW S, IsFiniteSet(S), NEW g, NEW h, \A x \in S : g[x] = h[x]
    PROVE  Total(g, S) = Total(h, S)
<1>1. PICK B : B = {u \in SUBSET S : Total(g, u) # Total(h, u)}
    OBVIOUS
<1>2. SUFFICES ASSUME B # {} PROVE FALSE
    BY <1>1
<1>3. PICK u \in B : \A v \in B : v \subseteq u => v = u
    BY <1>1, <1>2, MinimalSubset
<1>4. u \subseteq S /\ Total(g, u) # Total(h, u) /\ IsFiniteSet(u)
    BY <1>1, <1>3, FS_Subset
<1>5. /\ Total(g, u) = IF u = {} THEN 0 ELSE g[Pick(u)] + Total(g, u \ {Pick(u)})
      /\ Total(h, u) = IF u = {} THEN 0 ELSE h[Pick(u)] + Total(h, u \ {Pick(u)})
    BY <1>4, TotalStep
<1>6. u # {}
    BY <1>4, <1>5
<1>7. PICK v : v = u \ {Pick(u)}
    OBVIOUS
<1>8. g[Pick(u)] = h[Pick(u)] /\ v \subseteq u /\ v # u
    BY <1>4, <1>6, <1>7, PickIn
<1>9. Total(g, v) = Total(h, v)
    BY <1>1, <1>3, <1>4, <1>8
<1>10. QED
    BY <1>4, <1>5, <1>6, <1>7, <1>8, <1>9

\* A larger summand makes no smaller total.
LEMMA TotalMonotone ==
    ASSUME NEW S, IsFiniteSet(S), NEW g, NEW h,
           \A x \in S : g[x] \in Nat /\ h[x] \in Nat /\ g[x] <= h[x]
    PROVE  Total(g, S) <= Total(h, S)
<1>1. PICK B : B = {u \in SUBSET S : ~(Total(g, u) <= Total(h, u))}
    OBVIOUS
<1>2. SUFFICES ASSUME B # {} PROVE FALSE
    BY <1>1
<1>3. PICK u \in B : \A v \in B : v \subseteq u => v = u
    BY <1>1, <1>2, MinimalSubset
<1>4. u \subseteq S /\ ~(Total(g, u) <= Total(h, u)) /\ IsFiniteSet(u)
    BY <1>1, <1>3, FS_Subset
<1>5. /\ Total(g, u) = IF u = {} THEN 0 ELSE g[Pick(u)] + Total(g, u \ {Pick(u)})
      /\ Total(h, u) = IF u = {} THEN 0 ELSE h[Pick(u)] + Total(h, u \ {Pick(u)})
    BY <1>4, TotalStep
<1>6. u # {}
    BY <1>4, <1>5
<1>7. PICK v : v = u \ {Pick(u)}
    OBVIOUS
<1>8. /\ g[Pick(u)] \in Nat /\ h[Pick(u)] \in Nat /\ g[Pick(u)] <= h[Pick(u)]
      /\ v \subseteq u /\ v # u
    BY <1>4, <1>6, <1>7, PickIn
<1>9. Total(g, v) <= Total(h, v)
    BY <1>1, <1>3, <1>4, <1>8
<1>10. Total(g, v) \in Nat /\ Total(h, v) \in Nat
    <2>1. v \subseteq S /\ IsFiniteSet(v)
        BY <1>4, <1>8, FS_Subset
    <2>2. QED
        BY <2>1, TotalType
<1>11. QED
    BY <1>4, <1>5, <1>6, <1>7, <1>8, <1>9, <1>10

\* Where no summand is smaller and the totals are the same, the summands are the same.
LEMMA TotalEqual ==
    ASSUME NEW S, IsFiniteSet(S), NEW g, NEW h,
           \A x \in S : g[x] \in Nat /\ h[x] \in Nat /\ g[x] <= h[x],
           Total(g, S) = Total(h, S), NEW y \in S
    PROVE  g[y] = h[y]
<1>1. PICK R : R = S \ {y}
    OBVIOUS
<1>2. IsFiniteSet(R) /\ R \subseteq S
    BY <1>1, FS_RemoveElement
<1>3. Total(g, S) = g[y] + Total(g, R) /\ Total(h, S) = h[y] + Total(h, R)
    BY <1>1, TotalRemove
<1>4. Total(g, R) <= Total(h, R)
    BY <1>2, TotalMonotone
<1>5. Total(g, R) \in Nat /\ Total(h, R) \in Nat
    BY <1>2, TotalType
<1>6. g[y] \in Nat /\ h[y] \in Nat /\ g[y] <= h[y]
    OBVIOUS
<1>7. \A a, b, c, d \in Nat : a <= b /\ c <= d /\ a + c = b + d => a = b
    OBVIOUS
<1>8. g[y] + Total(g, R) = h[y] + Total(h, R)
    BY <1>3
<1>9. QED
    BY <1>4, <1>5, <1>6, <1>7, <1>8

\* A subset has no larger total.
LEMMA TotalSubset ==
    ASSUME NEW S, IsFiniteSet(S), NEW g, \A x \in S : g[x] \in Nat, NEW A, A \subseteq S
    PROVE  Total(g, A) <= Total(g, S)
<1>1. PICK B : B = {u \in SUBSET S : A \subseteq u /\ ~(Total(g, A) <= Total(g, u))}
    OBVIOUS
<1>2. SUFFICES ASSUME B # {} PROVE FALSE
    BY <1>1
<1>3. PICK u \in B : \A v \in B : v \subseteq u => v = u
    <2>1. B \subseteq SUBSET S
        BY <1>1
    <2>2. QED
        BY <1>2, <2>1, MinimalSubset
<1>4. /\ u \subseteq S /\ A \subseteq u /\ ~(Total(g, A) <= Total(g, u))
      /\ IsFiniteSet(u) /\ IsFiniteSet(A)
    BY <1>1, <1>3, FS_Subset
<1>5. Total(g, A) \in Nat
    BY <1>4, TotalType
<1>6. PICK y \in u : y \notin A
    <2>1. A # u
        BY <1>4, <1>5
    <2>2. QED
        BY <1>4, <2>1
<1>7. PICK v : v = u \ {y}
    OBVIOUS
<1>8. v \subseteq S /\ A \subseteq v /\ v \subseteq u /\ v # u /\ IsFiniteSet(v)
    BY <1>4, <1>6, <1>7, FS_RemoveElement
<1>9. Total(g, A) <= Total(g, v)
    BY <1>1, <1>3, <1>8
<1>10. Total(g, u) = g[y] + Total(g, v)
    BY <1>4, <1>6, <1>7, TotalRemove
<1>11. g[y] \in Nat /\ Total(g, v) \in Nat
    BY <1>4, <1>6, <1>8, TotalType
<1>12. QED
    BY <1>4, <1>5, <1>9, <1>10, <1>11

\* The total over one element.
LEMMA TotalOne ==
    ASSUME NEW g, NEW x, g[x] \in Nat
    PROVE  Total(g, {x}) = g[x]
<1>1. IsFiniteSet({x}) /\ IsFiniteSet({}) /\ {x} \ {x} = {}
    BY FS_Singleton, FS_EmptySet
<1>2. Total(g, {x}) = g[x] + Total(g, {})
    BY <1>1, TotalRemove
<1>3. Total(g, {}) = 0
    BY <1>1, TotalStep
<1>4. QED
    BY <1>2, <1>3

=============================================================================
