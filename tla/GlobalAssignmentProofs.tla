----------------------- MODULE GlobalAssignmentProofs -----------------------
(***************************************************************************)
(* Proofs about the assignment of path sets, for any number of logical     *)
(* edges, any path sets and capacities, and any bounds of the search.      *)
(***************************************************************************)
EXTENDS GlobalAssignment, SetSums

-----------------------------------------------------------------------------
(* Demand and load *)

\* What MapThenSumSet computes for SumOver.
SumChosen(g, S) ==
    CHOOSE f : f = [s \in SUBSET S |->
        IF s = {} THEN 0
        ELSE g[CHOOSE x \in s : TRUE] + f[s \ {CHOOSE x \in s : TRUE}]]

\* A sum is the total over the domain.
LEMMA SumIsTotal ==
    ASSUME NEW g, IsFiniteSet(DOMAIN g)
    PROVE  SumOver(g) = Total(g, DOMAIN g)
<1>1. PICK L : L = DOMAIN g
    OBVIOUS
<1>2. SumOver(g) = SumChosen(g, DOMAIN g)[DOMAIN g]
    BY DEF SumOver, MapThenSumSet, MapThenFoldSet, SumChosen
<1>3. SumChosen(g, L) = CHOOSE f : Sums(f, g, L)
    BY DEF SumChosen, Sums, Pick
<1>4. QED
    BY <1>1, <1>2, <1>3 DEF Total

\* The load of an edge is the total of the demands on it.
LEMMA LoadIsTotal ==
    ASSUME NEW sets, NEW e, NEW L, IsFiniteSet(L), NEW g, \A l \in L : g[l] = Demand(sets[l], e)
    PROVE  Load(sets, L, e) = Total(g, L)
<1>1. PICK h : h = [l \in L |-> Demand(sets[l], e)]
    OBVIOUS
<1>2. DOMAIN h = L /\ \A l \in L : h[l] = g[l]
    BY <1>1
<1>3. Load(sets, L, e) = Total(h, L)
    BY <1>1, <1>2, SumIsTotal DEF Load
<1>4. QED
    BY <1>2, <1>3, TotalSame

\* The demand of a set is a natural number.
LEMMA DemandType ==
    ASSUME NEW s \in Sets, NEW e
    PROVE  Demand(s, e) \in Nat
BY AssignmentAssumption DEF Demand

\* The sets given to the levels of L are path sets.
Legit(sets, L) == \A l \in L : sets[l] \in Sets

\* A load is a natural number.
LEMMA LoadType ==
    ASSUME NEW sets, NEW e, NEW L, IsFiniteSet(L), Legit(sets, L)
    PROVE  Load(sets, L, e) \in Nat
<1>1. PICK g : g = [l \in L |-> Demand(sets[l], e)]
    OBVIOUS
<1>2. \A l \in L : g[l] = Demand(sets[l], e) /\ g[l] \in Nat
    BY <1>1, DemandType DEF Legit
<1>3. Total(g, L) \in Nat
    BY <1>2, TotalType
<1>4. QED
    BY <1>2, <1>3, LoadIsTotal

\* No level places no load.
LEMMA LoadEmpty ==
    ASSUME NEW sets, NEW e
    PROVE  Load(sets, {}, e) = 0
<1>1. IsFiniteSet({})
    BY FS_EmptySet
<1>2. PICK g : g = [l \in {} |-> Demand(sets[l], e)]
    OBVIOUS
<1>3. Load(sets, {}, e) = Total(g, {})
    BY <1>1, LoadIsTotal
<1>4. Total(g, {}) = 0
    BY <1>1, TotalStep
<1>5. QED
    BY <1>3, <1>4

\* The load without one of the levels.
LEMMA LoadRemove ==
    ASSUME NEW sets, NEW e, NEW L, IsFiniteSet(L), Legit(sets, L), NEW y \in L
    PROVE  Load(sets, L, e) = Demand(sets[y], e) + Load(sets, L \ {y}, e)
<1>1. PICK g : g = [l \in L |-> Demand(sets[l], e)]
    OBVIOUS
<1>2. \A l \in L : g[l] = Demand(sets[l], e) /\ g[l] \in Nat
    BY <1>1, DemandType DEF Legit
<1>3. IsFiniteSet(L \ {y})
    BY FS_RemoveElement
<1>4. Load(sets, L, e) = Total(g, L) /\ Load(sets, L \ {y}, e) = Total(g, L \ {y})
    BY <1>2, <1>3, LoadIsTotal
<1>5. Total(g, L) = g[y] + Total(g, L \ {y})
    BY <1>2, TotalRemove
<1>6. QED
    BY <1>2, <1>4, <1>5

\* The load depends on the sets of its levels only.
LEMMA LoadSame ==
    ASSUME NEW sets, NEW other, NEW e, NEW L, IsFiniteSet(L), \A l \in L : sets[l] = other[l]
    PROVE  Load(sets, L, e) = Load(other, L, e)
<1>1. PICK g : g = [l \in L |-> Demand(sets[l], e)]
    OBVIOUS
<1>2. \A l \in L : g[l] = Demand(sets[l], e) /\ g[l] = Demand(other[l], e)
    BY <1>1
<1>3. QED
    BY <1>2, LoadIsTotal

\* Fewer levels place no larger load.
LEMMA LoadSubset ==
    ASSUME NEW sets, NEW e, NEW L, IsFiniteSet(L), Legit(sets, L), NEW K, K \subseteq L
    PROVE  Load(sets, K, e) <= Load(sets, L, e)
<1>1. PICK g : g = [l \in L |-> Demand(sets[l], e)]
    OBVIOUS
<1>2. \A l \in L : g[l] = Demand(sets[l], e) /\ g[l] \in Nat
    BY <1>1, DemandType DEF Legit
<1>3. IsFiniteSet(K)
    BY FS_Subset
<1>4. Load(sets, L, e) = Total(g, L) /\ Load(sets, K, e) = Total(g, K)
    BY <1>2, <1>3, LoadIsTotal
<1>5. QED
    BY <1>2, <1>4, TotalSubset

-----------------------------------------------------------------------------
(* The shape of the state *)

\* Nothing of solve_global has happened.
Untouched ==
    /\ level = 1 /\ remaining = Spare /\ best = NoBest
    /\ started = [l \in Levels |-> FALSE]

\* The positions c gives the levels of L are positions of their lists.
Valid(c, L) == \A l \in L : c[l] \in DOMAIN alternatives[l]

\* A level is analysed before it is assigned, a verdict ends everything, and every
\* level that is to be assigned a set has been offered one.
Shape ==
    /\ TypeOK
    /\ pc \in {"analyse", "assign"} => Untouched
    /\ verdict # "none" => pc = "done"
    /\ pc = "analyse" /\ denials = {} => \A l \in Levels : l < edge => alternatives[l] # <<>>
    /\ pc \in {"assign", "search"} => \A l \in Levels : alternatives[l] # <<>>
    /\ pc = "search" => LogicalEdges > 0 /\ Valid(choice, 1..(level - 1))

\* The levels are finitely many.
LEMMA LevelsFinite ==
    /\ LogicalEdges \in Nat /\ Levels = 1..LogicalEdges /\ IsFiniteSet(Levels)
    /\ \A n \in Int : IsFiniteSet(1..n)
<1>1. LogicalEdges \in Nat
    BY AssignmentAssumption
<1>2. \A n \in Int : IsFiniteSet(1..n)
    BY FS_Interval
<1>3. QED
    BY <1>1, <1>2 DEF Levels

\* Inserting an element into a sequence shifts what follows it.
LEMMA InsertShape ==
    ASSUME NEW S, NEW q \in Seq(S), NEW s \in S, NEW p \in 1..(Len(q) + 1)
    PROVE  /\ InsertAt(q, p, s) \in Seq(S)
           /\ Len(InsertAt(q, p, s)) = Len(q) + 1
           /\ \A i \in 1..(Len(q) + 1) :
                InsertAt(q, p, s)[i] = IF i < p THEN q[i] ELSE IF i = p THEN s ELSE q[i - 1]
<1>1. Len(q) \in Nat /\ p \in Nat /\ p - 1 \in 0..Len(q)
    OBVIOUS
<1>2. PICK a : a = SubSeq(q, 1, p - 1)
    OBVIOUS
<1>3. PICK b : b = SubSeq(q, p, Len(q))
    OBVIOUS
<1>4. a \in Seq(S) /\ Len(a) = p - 1 /\ \A i \in 1..(p - 1) : a[i] = q[i]
    BY <1>1, <1>2
<1>5. b \in Seq(S) /\ Len(b) = Len(q) - p + 1 /\ \A i \in 1..(Len(q) - p + 1) : b[i] = q[p + i - 1]
    BY <1>1, <1>3
<1>6. PICK c : c = a \o <<s>>
    OBVIOUS
<1>7. c \in Seq(S) /\ Len(c) = p /\ c[p] = s /\ \A i \in 1..(p - 1) : c[i] = q[i]
    BY <1>1, <1>4, <1>6
<1>8. PICK g : g = c \o b
    OBVIOUS
<1>9. g \in Seq(S) /\ Len(g) = Len(q) + 1
    BY <1>1, <1>5, <1>7, <1>8
<1>10. \A i \in 1..(Len(q) + 1) : g[i] = IF i < p THEN q[i] ELSE IF i = p THEN s ELSE q[i - 1]
    BY <1>1, <1>5, <1>7, <1>8
<1>11. InsertAt(q, p, s) = g
    BY <1>2, <1>3, <1>6, <1>8 DEF InsertAt
<1>12. QED
    BY <1>9, <1>10, <1>11

\* Where a newcomer is put in a list.
Place(q, s) == 1 + Cardinality({i \in DOMAIN q : path_set_less(q[i], s)})

\* That is a position of the list or the one after its end.
LEMMA PlaceType ==
    ASSUME NEW q \in Seq(Sets), NEW s \in Sets
    PROVE  Place(q, s) \in 1..(Len(q) + 1)
<1>1. PICK P : P = {i \in DOMAIN q : path_set_less(q[i], s)}
    OBVIOUS
<1>2. P \in SUBSET (1..Len(q)) /\ Len(q) \in Nat
    BY <1>1
<1>3. IsFiniteSet(1..Len(q)) /\ Cardinality(1..Len(q)) = Len(q)
    <2>1. 1 \in Int /\ Len(q) \in Int
        BY <1>2
    <2>2. /\ IsFiniteSet(1..Len(q))
          /\ Cardinality(1..Len(q)) = IF 1 > Len(q) THEN 0 ELSE Len(q) - 1 + 1
        BY <2>1, FS_Interval
    <2>3. QED
        BY <1>2, <2>2
<1>4. IsFiniteSet(P) /\ Cardinality(P) <= Cardinality(1..Len(q))
    BY <1>2, <1>3, FS_Subset
<1>5. Cardinality(P) \in Nat
    BY <1>4, FS_CardinalityType
<1>6. Place(q, s) = 1 + Cardinality(P)
    BY <1>1 DEF Place
<1>7. QED
    BY <1>2, <1>3, <1>4, <1>5, <1>6

\* What is offered to a list becomes its element, unless the list is full, and then the
\* last element is dropped; no list is left empty.
LEMMA OfferType ==
    ASSUME NEW q \in Seq(Sets), NEW s \in Sets
    PROVE  offer_set(q, s) \in Seq(Sets) /\ offer_set(q, s) # <<>>
<1>1. PICK g : g = InsertAt(q, Place(q, s), s)
    OBVIOUS
<1>2. g \in Seq(Sets) /\ Len(g) = Len(q) + 1
    BY <1>1, PlaceType, InsertShape
<1>3. offer_set(q, s) = IF Len(g) > MaxSetAlternatives THEN Front(g) ELSE g
    BY <1>1 DEF offer_set, Place
<1>4. Len(q) \in Nat /\ MaxSetAlternatives \in Nat \ {0}
    BY AssignmentAssumption
<1>5. Front(g) \in Seq(Sets) /\ Len(Front(g)) = Len(g) - 1
    BY <1>2, <1>4 DEF Front
<1>6. offer_set(q, s) \in Seq(Sets) /\ Len(offer_set(q, s)) > 0
    BY <1>2, <1>3, <1>4, <1>5
<1>7. QED
    BY <1>6

\* The state begins in shape.
LEMMA InitShape == Init => Shape
<1> SUFFICES ASSUME Init PROVE Shape
    OBVIOUS
<1>1. LogicalEdges \in Nat /\ Levels = 1..LogicalEdges /\ problem \in [Levels -> SUBSET Sets]
    BY AssignmentAssumption DEF Init, Levels
<1>2. Spare \in [Edges -> Nat] /\ MaxGlobalNodes \in Nat
    BY AssignmentAssumption
<1>3. alternatives \in [Levels -> Seq(Sets)]
    <2>1. <<>> \in Seq(Sets)
        OBVIOUS
    <2>2. QED
        BY <2>1 DEF Init
<1>4. TypeOK
    <2>1. edge \in 1..(LogicalEdges + 1) /\ level \in 0..(LogicalEdges + 1)
        BY <1>1 DEF Init
    <2>2. choice \in [Levels -> Nat \ {0}] /\ started \in [Levels -> BOOLEAN]
        BY DEF Init
    <2>3. setsExhaustive \in [Levels -> BOOLEAN] /\ nodes \in 0..MaxGlobalNodes
        BY <1>2 DEF Init
    <2>4. remaining \in [Edges -> Nat] /\ best = NoBest /\ seen = {} /\ denials = {}
        BY <1>2 DEF Init
    <2>5. limited \in BOOLEAN /\ optimal \in BOOLEAN /\ verdict = "none" /\ pc = "analyse"
        BY DEF Init
    <2>6. QED
        BY <1>1, <1>3, <2>1, <2>2, <2>3, <2>4, <2>5 DEF TypeOK
<1>5. Untouched
    BY DEF Init, Untouched
<1>6. QED
    BY <1>1, <1>4, <1>5 DEF Init, Shape

\* A path set that is considered is offered to the list of its level.
LEMMA ShapeConsider ==
    ASSUME Shape, NEW s \in Sets, Consider(s)
    PROVE  Shape'
<1>1. edge \in Levels /\ alternatives[edge] \in Seq(Sets)
    BY DEF Shape, TypeOK, Consider
<1>2. offer_set(alternatives[edge], s) \in Seq(Sets) /\ offer_set(alternatives[edge], s) # <<>>
    BY <1>1, OfferType
<1>3. alternatives' \in [Levels -> Seq(Sets)]
    BY <1>1, <1>2 DEF Shape, TypeOK, Consider
<1>4. \A l \in Levels : alternatives[l] # <<>> => alternatives'[l] # <<>>
    BY <1>1, <1>2 DEF Shape, TypeOK, Consider
<1>5. TypeOK'
    BY <1>3 DEF Shape, TypeOK, Consider, search
<1>6. QED
    BY <1>4, <1>5 DEF Shape, Untouched, Consider, search

\* The analysis of a level that ends without a denial leaves it with alternatives.
LEMMA ShapeEndEdge ==
    ASSUME Shape, NEW exhaustive \in BOOLEAN, NEW certified \in BOOLEAN,
           EndEdge(exhaustive, certified)
    PROVE  Shape'
<1>1. LogicalEdges \in Nat /\ Levels = 1..LogicalEdges /\ edge \in Levels
    BY AssignmentAssumption DEF Levels, EndEdge
<1>2. edge' \in 1..(LogicalEdges + 1) /\ (denials' = {} => edge' = edge + 1)
    BY <1>1 DEF EndEdge
<1>3. denials' \in SUBSET {"infeasible", "limit"} /\ denials \subseteq denials'
    BY DEF Shape, TypeOK, EndEdge
<1>4. denials' = {} => alternatives[edge] # <<>>
    BY DEF EndEdge
<1>5. setsExhaustive' \in [Levels -> BOOLEAN] /\ seen' \in SUBSET Sets
    BY DEF Shape, TypeOK, EndEdge
<1>6. TypeOK'
    BY <1>2, <1>3, <1>5 DEF Shape, TypeOK, EndEdge, search
<1>7. ASSUME denials' = {}, NEW l \in Levels, l < edge'
      PROVE  alternatives[l] # <<>>
    <2>1. denials = {}
        BY <1>3, <1>7
    <2>a. l < edge \/ l = edge
        BY <1>1, <1>2, <1>7
    <2>2. QED
        BY <1>4, <1>7, <2>1, <2>a DEF Shape, EndEdge
<1>8. QED
    BY <1>6, <1>7 DEF Shape, Untouched, EndEdge, search

\* A search is begun only where the first alternatives do not fit together, so there is
\* a level.
LEMMA SearchHasLevels ==
    ASSUME Shape, BeginSearch
    PROVE  LogicalEdges > 0
<1>1. LogicalEdges \in Nat /\ Spare \in [Edges -> Nat]
    BY AssignmentAssumption
<1>2. CASE LogicalEdges = 0
    <2>1. Levels = {}
        BY <1>2 DEF Levels
    <2>2. \A e \in Edges : Load(Chosen(First), Levels, e) = 0
        BY <2>1, LoadEmpty
    <2>3. FirstFit
        BY <1>1, <2>2 DEF FirstFit
    <2>4. QED
        BY <2>3 DEF BeginSearch
<1>3. QED
    BY <1>1, <1>2

\* From the analysis to the search.
LEMMA ShapeBetween ==
    ASSUME Shape, EndAnalysis \/ FastPath \/ BeginSearch
    PROVE  Shape'
<1>1. LogicalEdges \in Nat /\ Levels = 1..LogicalEdges
    BY AssignmentAssumption DEF Levels
<1>2. CASE EndAnalysis
    <2>1. TypeOK'
        BY <1>2 DEF Shape, TypeOK, EndAnalysis, analysis, search
    <2>2. \A l \in Levels : l < edge
        BY <1>1, <1>2 DEF EndAnalysis, Shape, TypeOK
    <2>3. QED
        BY <1>2, <2>1, <2>2 DEF Shape, Untouched, EndAnalysis, analysis, search
<1>3. CASE FastPath
    <2>1. First \in [Levels -> Nat \ {0}] /\ AllSetsExhaustive \in BOOLEAN
        BY DEF First, AllSetsExhaustive
    <2>2. best'.choice = First
        BY <1>3 DEF FastPath
    <2>3. optimal' \in BOOLEAN
        BY <1>3, <2>1 DEF FastPath
    <2>4. TypeOK'
        BY <1>3, <2>1, <2>2, <2>3 DEF Shape, TypeOK, FastPath, analysis
    <2>5. QED
        BY <1>3, <2>4 DEF Shape, FastPath, analysis
<1>4. CASE BeginSearch
    <2>1. TypeOK'
        BY <1>4 DEF Shape, TypeOK, BeginSearch, analysis, search
    <2>2. LogicalEdges > 0
        BY <1>4, SearchHasLevels
    <2>3. level' = 1
        BY <1>4 DEF Shape, Untouched, BeginSearch, search
    <2>4. Valid(choice, 1..(level - 1))'
        BY <2>3 DEF Valid
    <2>5. QED
        BY <1>4, <2>1, <2>2, <2>4 DEF Shape, BeginSearch, analysis, search
<1>5. QED
    BY <1>2, <1>3, <1>4

\* The alternatives still to be tried at a level of the search.
LEMMA FittingType ==
    ASSUME Shape, pc = "search", level \in Levels
    PROVE  /\ alternatives[level] \in Seq(Sets) /\ choice[level] \in Nat \ {0}
           /\ Untried \subseteq DOMAIN alternatives[level]
           /\ Probes \in Nat
           /\ Fitting \subseteq Untried
           /\ Fitting # {} => Min(Fitting) \in Fitting /\ \A i \in Fitting : Min(Fitting) <= i
<1>1. /\ alternatives[level] \in Seq(Sets) /\ choice[level] \in Nat \ {0}
      /\ Len(alternatives[level]) \in Nat
    BY DEF Shape, TypeOK
<1>2. PICK first : first = IF started[level] THEN choice[level] + 1 ELSE 1
    OBVIOUS
<1>3. first \in Nat \ {0} /\ Untried = first..Len(alternatives[level])
    BY <1>1, <1>2 DEF Untried
<1>4. Untried \subseteq DOMAIN alternatives[level] /\ Untried \subseteq Nat
    BY <1>1, <1>3
<1>5. Fitting \subseteq Untried
    BY DEF Fitting
<1>6. Fitting # {} => Min(Fitting) \in Fitting /\ \A i \in Fitting : Min(Fitting) <= i
    <2>1. PICK T : T = Fitting
        OBVIOUS
    <2>2. T # {} => \E x \in T : \A y \in T : x <= y
        BY <1>4, <1>5, <2>1, NatMin
    <2>3. QED
        BY <2>1, <2>2 DEF Min
<1>7. IsFiniteSet(Untried)
    BY <1>1, <1>3, FS_Interval
<1>8. Probes \in Nat
    <2>1. PICK U : U = {i \in Untried : i <= Min(Fitting)}
        OBVIOUS
    <2>2. U \in SUBSET Untried
        BY <2>1
    <2>3. Cardinality(U) \in Nat /\ Cardinality(Untried) \in Nat
        BY <1>7, <2>2, FS_Subset, FS_CardinalityType
    <2>4. QED
        BY <2>1, <2>3 DEF Probes
<1>9. QED
    BY <1>1, <1>4, <1>5, <1>6, <1>8

\* What a level of the search has chosen is one of its alternatives.
LEMMA ChosenIsSet ==
    ASSUME Shape, pc = "search", NEW l \in Levels, l < level
    PROVE  alternatives[l][choice[l]] \in Sets /\ choice[l] \in DOMAIN alternatives[l]
<1>1. LogicalEdges \in Nat /\ Levels = 1..LogicalEdges /\ level \in 0..(LogicalEdges + 1)
    BY LevelsFinite DEF Shape, TypeOK
<1>2. l \in 1..(level - 1)
    BY <1>1
<1>3. choice[l] \in DOMAIN alternatives[l] /\ alternatives[l] \in Seq(Sets)
    BY <1>2 DEF Shape, TypeOK, Valid
<1>4. QED
    BY <1>3

\* What is given back leaves natural numbers, and so does what is taken where it fits.
LEMMA CapacityType ==
    ASSUME Shape, NEW s \in Sets
    PROVE  /\ GiveBack(s) \in [Edges -> Nat]
           /\ \A e \in Edges : GiveBack(s)[e] = remaining[e] + Demand(s, e)
           /\ FitsIn(s, remaining) => Take(s) \in [Edges -> Nat]
           /\ \A e \in Edges : Take(s)[e] = remaining[e] - Demand(s, e)
<1>1. \A e \in Edges : remaining[e] \in Nat /\ Demand(s, e) \in Nat
    BY DemandType DEF Shape, TypeOK
<1>2. FitsIn(s, remaining) => \A e \in Edges : Demand(s, e) <= remaining[e]
    BY <1>1 DEF FitsIn, Demand
<1>3. \A e \in Edges : remaining[e] + Demand(s, e) \in Nat
    BY <1>1
<1>4. FitsIn(s, remaining) => \A e \in Edges : remaining[e] - Demand(s, e) \in Nat
    BY <1>1, <1>2
<1>5. QED
    BY <1>3, <1>4 DEF GiveBack, Take

\* A leaf of the search, or a level without a fitting alternative, goes back one level.
LEMMA ShapeBack ==
    ASSUME Shape, Leaf \/ Backtrack
    PROVE  Shape'
<1>1. LogicalEdges \in Nat /\ Levels = 1..LogicalEdges /\ level \in 0..(LogicalEdges + 1)
    BY LevelsFinite DEF Shape, TypeOK
<1>2. pc = "search" /\ level > 0 /\ LogicalEdges > 0
    BY DEF Leaf, Backtrack, Searching, Shape
<1>3. level' = level - 1 /\ level' \in 0..(LogicalEdges + 1)
    BY <1>1, <1>2 DEF Leaf, Backtrack
<1>4. remaining' \in [Edges -> Nat]
    <2>1. CASE level = 1
        BY <1>1, <1>2, <2>1 DEF Leaf, Backtrack, Shape, TypeOK
    <2>2. CASE level # 1
        <3>1. level - 1 \in Levels /\ level - 1 < level
            BY <1>1, <1>2, <2>2
        <3>2. alternatives[level - 1][choice[level - 1]] \in Sets
            BY <1>2, <3>1, ChosenIsSet
        <3>3. GiveBack(alternatives[level - 1][choice[level - 1]]) \in [Edges -> Nat]
            BY <3>2, CapacityType
        <3>4. QED
            BY <2>2, <3>3 DEF Leaf, Backtrack
    <2>3. QED
        BY <2>1, <2>2
<1>5. nodes' \in 0..MaxGlobalNodes
    <2>1. CASE Leaf
        BY <2>1 DEF Leaf, Shape, TypeOK
    <2>2. CASE Backtrack
        <3>1. Probes \in Nat
            BY <2>2, FittingType DEF Backtrack, Searching
        <3>2. QED
            BY <2>2, <3>1 DEF Backtrack, Shape, TypeOK
    <2>3. QED
        BY <2>1, <2>2
<1>6. best' = NoBest \/ best'.choice \in [Levels -> Nat \ {0}]
    BY DEF Leaf, Backtrack, Shape, TypeOK
<1>7. started' \in [Levels -> BOOLEAN]
    BY DEF Leaf, Backtrack, Shape, TypeOK
<1>8. UNCHANGED <<problem, analysis, denials, choice, limited, pc, verdict, optimal>>
    BY DEF Leaf, Backtrack
<1>9. TypeOK'
    BY <1>3, <1>4, <1>5, <1>6, <1>7, <1>8 DEF Shape, TypeOK, analysis
<1>10. Valid(choice, 1..(level - 1))'
    <2>1. 1..(level' - 1) \subseteq 1..(level - 1)
        BY <1>1, <1>3
    <2>2. Valid(choice, 1..(level - 1))
        BY <1>2 DEF Shape
    <2>3. QED
        BY <1>8, <2>1, <2>2 DEF Valid, analysis
<1>11. QED
    BY <1>2, <1>8, <1>9, <1>10 DEF Shape, analysis

\* A level with a fitting alternative takes it and goes on to the next.
LEMMA ShapeDescend ==
    ASSUME Shape, Descend
    PROVE  Shape'
<1>1. LogicalEdges \in Nat /\ Levels = 1..LogicalEdges /\ level \in 0..(LogicalEdges + 1)
    BY LevelsFinite DEF Shape, TypeOK
<1>2. pc = "search" /\ level \in Levels /\ LogicalEdges > 0
    BY DEF Descend, Searching, Shape
<1>3. PICK m : m = Min(Fitting)
    OBVIOUS
<1>4. /\ m \in DOMAIN alternatives[level] /\ m \in Nat \ {0}
      /\ alternatives[level][m] \in Sets /\ FitsIn(alternatives[level][m], remaining)
    <2>1. m \in Fitting /\ Fitting \subseteq Untried /\ Untried \subseteq DOMAIN alternatives[level]
        BY <1>2, <1>3, FittingType DEF Descend
    <2>2. alternatives[level] \in Seq(Sets)
        BY <1>2, FittingType
    <2>3. QED
        BY <2>1, <2>2 DEF Fitting
<1>5. level' = level + 1 /\ level' \in 0..(LogicalEdges + 1)
    BY <1>1, <1>2 DEF Descend
<1>6. choice' = [choice EXCEPT ![level] = m] /\ choice' \in [Levels -> Nat \ {0}]
    BY <1>3, <1>4 DEF Descend, Shape, TypeOK
<1>7. started' \in [Levels -> BOOLEAN]
    BY DEF Descend, Shape, TypeOK
<1>8. remaining' \in [Edges -> Nat]
    BY <1>3, <1>4, CapacityType DEF Descend
<1>9. nodes' \in 0..MaxGlobalNodes
    <2>1. Probes \in Nat
        BY <1>2, FittingType
    <2>2. QED
        BY <2>1 DEF Descend, Shape, TypeOK
<1>10. UNCHANGED <<problem, analysis, denials, limited, best, pc, verdict, optimal>>
    BY DEF Descend
<1>11. TypeOK'
    BY <1>5, <1>6, <1>7, <1>8, <1>9, <1>10 DEF Shape, TypeOK, analysis
<1>12. Valid(choice, 1..(level - 1))'
    <2>1. Valid(choice, 1..(level - 1)) /\ choice \in [Levels -> Nat \ {0}]
        BY <1>2 DEF Shape, TypeOK
    <2>2. ASSUME NEW l \in 1..(level' - 1)
          PROVE  choice'[l] \in DOMAIN alternatives[l]
        <3>1. l = level \/ l \in 1..(level - 1)
            BY <1>1, <1>2, <1>5
        <3>2. l \in Levels
            BY <1>1, <1>2, <3>1
        <3>3. QED
            BY <1>4, <1>6, <2>1, <3>1, <3>2 DEF Valid
    <2>3. QED
        BY <1>10, <2>2 DEF Valid, analysis
<1>13. QED
    BY <1>2, <1>10, <1>11, <1>12 DEF Shape, analysis

\* The bound of the search and its verdict.
LEMMA ShapeEnd ==
    ASSUME Shape, Limit \/ Conclude
    PROVE  Shape'
<1>1. CASE Limit
    <2>1. MaxGlobalNodes \in Nat
        BY AssignmentAssumption
    <2>2. nodes' \in 0..MaxGlobalNodes /\ limited' = TRUE
        BY <1>1, <2>1 DEF Limit
    <2>3. TypeOK'
        BY <1>1, <2>2 DEF Shape, TypeOK, Limit, analysis
    <2>4. Valid(choice, 1..(level - 1))' <=> Valid(choice, 1..(level - 1))
        BY <1>1 DEF Limit, Valid, analysis
    <2>5. QED
        BY <1>1, <2>3, <2>4 DEF Shape, Limit, Searching, analysis
<1>2. CASE Conclude
    <2>1. optimal' \in BOOLEAN
        BY <1>2 DEF Conclude, Shape, TypeOK
    <2>2. denials' \in SUBSET {"infeasible", "limit"} /\ verdict' \in {"plan", "denied"}
        BY <1>2 DEF Conclude, Shape, TypeOK
    <2>3. TypeOK'
        BY <1>2, <2>1, <2>2 DEF Shape, TypeOK, Conclude, analysis, search
    <2>4. QED
        BY <1>2, <2>3 DEF Shape, Conclude
<1>3. QED
    BY <1>1, <1>2

\* Every step keeps the state in shape.
LEMMA ShapeStep ==
    ASSUME Shape, [Next]_vars
    PROVE  Shape'
<1>1. CASE Next
    BY <1>1, ShapeConsider, ShapeEndEdge, ShapeBetween, ShapeBack, ShapeDescend, ShapeEnd DEF Next
<1>2. CASE UNCHANGED vars
    BY <1>2 DEF Shape, TypeOK, Untouched, Valid, vars, analysis, search
<1>3. QED
    BY <1>1, <1>2

\* The assignment keeps its state well typed, whatever path sets the logical edges have and
\* however the bounds are set: no capacity left over is ever taken below zero.
THEOREM AssignmentTypeCorrect == Spec => []TypeOK
<1>1. Shape => TypeOK
    BY DEF Shape
<1>2. QED
    BY <1>1, InitShape, ShapeStep, PTL DEF Spec

-----------------------------------------------------------------------------
(* What an assignment is worth *)

\* The sum of natural numbers is one.
LEMMA SumType ==
    ASSUME NEW g, IsFiniteSet(DOMAIN g), \A x \in DOMAIN g : g[x] \in Nat
    PROVE  SumOver(g) \in Nat
BY SumIsTotal, TotalType

\* The least capacity left over.
LEMMA LeastType ==
    ASSUME NEW left \in [Edges -> Nat], NEW E, E \subseteq Edges
    PROVE  Least(left, E) \in Nat
<1>1. CostCeiling \in Nat
    BY AssignmentAssumption
<1>2. PICK T : T = {left[e] : e \in E}
    OBVIOUS
<1>3. T \subseteq Nat /\ (E # {} => T # {})
    BY <1>2
<1>4. E # {} => Min(T) \in T
    BY <1>3, NatMin DEF Min
<1>5. QED
    BY <1>1, <1>2, <1>3, <1>4 DEF Least

\* The dearest path of an assignment.
LEMMA DearestType ==
    ASSUME NEW D, IsFiniteSet(D), D # {}, NEW sets \in [D -> Sets]
    PROVE  /\ Max({MaxPathCost[sets[l]] : l \in D}) \in {MaxPathCost[sets[l]] : l \in D}
           /\ Max({MaxPathCost[sets[l]] : l \in D}) \in Nat
           /\ \A l \in D : MaxPathCost[sets[l]] <= Max({MaxPathCost[sets[k]] : k \in D})
<1>1. PICK T : T = {MaxPathCost[sets[l]] : l \in D}
    OBVIOUS
<1>2. T \subseteq Nat /\ T # {}
    <2>1. MaxPathCost \in [Sets -> Nat]
        BY AssignmentAssumption
    <2>2. QED
        BY <1>1, <2>1
<1>3. IsFiniteSet(T)
    <2>1. PICK f : f = [l \in D |-> MaxPathCost[sets[l]]]
        OBVIOUS
    <2>2. f \in Surjection(D, T)
        BY <1>1, <2>1 DEF Surjection
    <2>3. QED
        BY <2>2, FS_Surjection
<1>4. \E x \in T : \A y \in T : x >= y
    BY <1>2, <1>3, NatMax
<1>5. Max(T) \in T /\ \A y \in T : Max(T) >= y
    BY <1>4 DEF Max
<1>6. Max(T) \in Nat /\ \A y \in T : y <= Max(T)
    BY <1>2, <1>5
<1>7. QED
    BY <1>1, <1>5, <1>6

\* What an assignment is worth consists of natural numbers.
LEMMA WorthType ==
    ASSUME NEW D, IsFiniteSet(D), NEW sets \in [D -> Sets], NEW left \in [Edges -> Nat]
    PROVE  Worth(sets, left) \in Worths
<1>1. CostCeiling \in Nat /\ Cost \in [Sets -> Nat] /\ Conflicts \in [Sets -> Nat]
    BY AssignmentAssumption
<1>2. SumOver([l \in DOMAIN sets |-> Cost[sets[l]]]) \in Nat
    <2>1. PICK g : g = [l \in DOMAIN sets |-> Cost[sets[l]]]
        OBVIOUS
    <2>2. DOMAIN g = D /\ \A l \in D : g[l] \in Nat
        BY <1>1, <2>1
    <2>3. QED
        BY <2>1, <2>2, SumType
<1>3. SumOver([l \in DOMAIN sets |-> Conflicts[sets[l]]]) \in Nat
    <2>1. PICK g : g = [l \in DOMAIN sets |-> Conflicts[sets[l]]]
        OBVIOUS
    <2>2. DOMAIN g = D /\ \A l \in D : g[l] \in Nat
        BY <1>1, <2>1
    <2>3. QED
        BY <2>1, <2>2, SumType
<1>4. Touched(sets) \subseteq Edges
    BY AssignmentAssumption DEF Touched
<1>5. Least(left, Touched(sets)) \in Nat
    BY <1>4, LeastType
<1>6. PICK dearest : dearest = IF DOMAIN sets = {} THEN 0
                               ELSE Max({MaxPathCost[sets[l]] : l \in DOMAIN sets})
    OBVIOUS
<1>7. dearest \in Nat
    BY <1>6, DearestType
<1>8. \A n \in Nat : Saturate(n) \in Nat
    BY <1>1 DEF Saturate
<1>9. QED
    BY <1>2, <1>3, <1>5, <1>6, <1>7, <1>8 DEF Worth, Worths

-----------------------------------------------------------------------------
(* The capacity book *)

\* The load of the first k levels.
LEMMA LoadPrefix ==
    ASSUME NEW sets, NEW e, NEW k \in Nat \ {0}, Legit(sets, 1..k)
    PROVE  Load(sets, 1..k, e) = Demand(sets[k], e) + Load(sets, 1..(k - 1), e)
<1>1. k \in 1..k /\ (1..k) \ {k} = 1..(k - 1) /\ IsFiniteSet(1..k)
    BY LevelsFinite
<1>2. QED
    BY <1>1, LoadRemove

\* The load of the levels entered is that of the levels before, and of the last one.
LEMMA EnteredLoad ==
    ASSUME Shape, pc = "search", NEW e, NEW k \in Levels, k < level
    PROVE  /\ Load(Chosen(choice), 1..k, e) =
                Demand(alternatives[k][choice[k]], e) + Load(Chosen(choice), 1..(k - 1), e)
           /\ Load(Chosen(choice), 1..k, e) \in Nat /\ Load(Chosen(choice), 1..(k - 1), e) \in Nat
           /\ Demand(alternatives[k][choice[k]], e) \in Nat
<1>1. LogicalEdges \in Nat /\ Levels = 1..LogicalEdges /\ level \in Int
    BY LevelsFinite DEF Shape, TypeOK
<1>2. PICK sets : sets = Chosen(choice)
    OBVIOUS
<1>3. \A l \in 1..k : l \in Levels /\ l < level
    BY <1>1
<1>4. \A l \in 1..k : sets[l] = alternatives[l][choice[l]] /\ sets[l] \in Sets
    BY <1>2, <1>3, ChosenIsSet DEF Chosen
<1>5. Legit(sets, 1..k) /\ Legit(sets, 1..(k - 1)) /\ k \in 1..k /\ k \in Nat \ {0}
    BY <1>1, <1>4 DEF Legit
<1>6. IsFiniteSet(1..k) /\ IsFiniteSet(1..(k - 1))
    BY <1>5, LevelsFinite
<1>7. Load(sets, 1..k, e) \in Nat /\ Load(sets, 1..(k - 1), e) \in Nat
    BY <1>5, <1>6, LoadType
<1>8. Load(sets, 1..k, e) = Demand(sets[k], e) + Load(sets, 1..(k - 1), e)
    BY <1>5, LoadPrefix
<1>9. Demand(sets[k], e) \in Nat
    BY <1>4, <1>5, DemandType
<1>10. QED
    BY <1>2, <1>4, <1>5, <1>7, <1>8, <1>9

\* Nothing is taken before the search begins.
LEMMA BookBegins ==
    ASSUME Shape, BeginSearch
    PROVE  RemainingAccounts'
<1>1. level' = 1 /\ remaining' = Spare /\ Spare \in [Edges -> Nat]
    BY AssignmentAssumption DEF Shape, Untouched, BeginSearch, search
<1>2. ASSUME NEW e \in Edges
      PROVE  remaining'[e] = Spare[e] - Load(Chosen(choice)', 1..(level' - 1), e)
    <2>1. 1..(level' - 1) = {}
        BY <1>1
    <2>2. Load(Chosen(choice)', 1..(level' - 1), e) = 0
        BY <2>1, LoadEmpty
    <2>3. Spare[e] \in Nat
        BY <1>1
    <2>4. QED
        BY <1>1, <2>2, <2>3
<1>3. QED
    BY <1>2 DEF RemainingAccounts

\* Going back one level returns what that level had taken.
LEMMA BookBack ==
    ASSUME Shape, RemainingAccounts, Leaf \/ Backtrack
    PROVE  RemainingAccounts'
<1>1. LogicalEdges \in Nat /\ Levels = 1..LogicalEdges /\ level \in 0..(LogicalEdges + 1)
    BY LevelsFinite DEF Shape, TypeOK
<1>2. pc = "search" /\ level > 0 /\ LogicalEdges > 0 /\ level' = level - 1
    BY DEF Leaf, Backtrack, Searching, Shape
<1>3. Chosen(choice)' = Chosen(choice) /\ pc' = pc
    BY DEF Leaf, Backtrack, Chosen, analysis
<1>4. ASSUME NEW e \in Edges
      PROVE  remaining'[e] = Spare[e] - Load(Chosen(choice), 1..(level' - 1), e)
    <2>1. remaining[e] = Spare[e] - Load(Chosen(choice), 1..(level - 1), e)
        BY <1>2 DEF RemainingAccounts
    <2>2. CASE level = 1
        <3>1. 1..(level - 1) = {} /\ 1..(level' - 1) = {}
            BY <1>2, <2>2
        <3>2. remaining' = remaining
            BY <1>1, <1>2, <2>2 DEF Leaf, Backtrack
        <3>3. QED
            BY <2>1, <3>1, <3>2
    <2>3. CASE level # 1
        <3>1. PICK k : k = level - 1
            OBVIOUS
        <3>2. k \in Levels /\ k < level /\ level' = k
            BY <1>1, <1>2, <2>3, <3>1
        <3>3. PICK d : d = Demand(alternatives[k][choice[k]], e)
            OBVIOUS
        <3>4. PICK x : x = Load(Chosen(choice), 1..k, e)
            OBVIOUS
        <3>5. PICK y : y = Load(Chosen(choice), 1..(k - 1), e)
            OBVIOUS
        <3>6. x = d + y /\ x \in Nat /\ y \in Nat /\ d \in Nat
            BY <1>2, <3>2, <3>3, <3>4, <3>5, EnteredLoad
        <3>7. remaining' = GiveBack(alternatives[k][choice[k]])
            BY <2>3, <3>1 DEF Leaf, Backtrack
        <3>8. alternatives[k][choice[k]] \in Sets
            BY <1>2, <3>2, ChosenIsSet
        <3>9. remaining'[e] = remaining[e] + d
            BY <3>3, <3>7, <3>8, CapacityType
        <3>10. Spare[e] \in Nat
            BY AssignmentAssumption
        <3>11. remaining[e] = Spare[e] - x
            BY <2>1, <3>1, <3>4
        <3>12. remaining'[e] = Spare[e] - y
            BY <3>6, <3>9, <3>10, <3>11
        <3>13. QED
            BY <3>2, <3>5, <3>12
    <2>4. QED
        BY <2>2, <2>3
<1>5. QED
    BY <1>3, <1>4 DEF RemainingAccounts

\* Going down one level takes what it has chosen.
LEMMA BookDescend ==
    ASSUME Shape, RemainingAccounts, Descend
    PROVE  RemainingAccounts'
<1>1. LogicalEdges \in Nat /\ Levels = 1..LogicalEdges /\ level \in 0..(LogicalEdges + 1)
    BY LevelsFinite DEF Shape, TypeOK
<1>2. pc = "search" /\ level \in Levels /\ level' = level + 1 /\ pc' = "search"
    BY DEF Descend, Searching
<1>3. PICK m : m = Min(Fitting)
    OBVIOUS
<1>4. PICK s : s = alternatives[level][m]
    OBVIOUS
<1>5. s \in Sets
    BY <1>2, <1>3, <1>4, FittingType DEF Descend
<1>6. Shape' /\ alternatives' = alternatives /\ level < level' /\ level \in Levels'
    BY <1>1, <1>2, ShapeDescend DEF Descend, analysis, Levels
<1>7. choice' = [choice EXCEPT ![level] = m] /\ choice \in [Levels -> Nat \ {0}]
    BY <1>3 DEF Descend, Shape, TypeOK
<1>8. remaining' = Take(s)
    BY <1>3, <1>4 DEF Descend
<1>9. PICK old : old = Chosen(choice)
    OBVIOUS
<1>10. PICK new : new = Chosen(choice)'
    OBVIOUS
<1>11. new[level] = s /\ \A l \in 1..(level - 1) : new[l] = old[l]
    <2>1. \A l \in Levels : /\ new[l] = alternatives[l][choice'[l]]
                            /\ old[l] = alternatives[l][choice[l]]
        BY <1>6, <1>9, <1>10 DEF Chosen
    <2>2. \A l \in 1..(level - 1) : l \in Levels /\ l # level
        BY <1>1, <1>2
    <2>3. QED
        BY <1>2, <1>4, <1>7, <2>1, <2>2
<1>12. \A l \in 1..level : new[l] \in Sets
    <2>1. ASSUME NEW l \in 1..(level - 1)
          PROVE  new[l] \in Sets
        <3>1. l \in Levels /\ l < level
            BY <1>1, <1>2
        <3>2. QED
            BY <1>2, <1>9, <1>11, <3>1, ChosenIsSet DEF Chosen
    <2>2. \A l \in 1..level : l = level \/ l \in 1..(level - 1)
        BY <1>1, <1>2
    <2>3. QED
        BY <1>5, <1>11, <2>1, <2>2
<1>13. ASSUME NEW e \in Edges
       PROVE  remaining'[e] = Spare[e] - Load(Chosen(choice)', 1..(level' - 1), e)
    <2>1. Legit(new, 1..level) /\ Legit(new, 1..(level - 1)) /\ level \in Nat \ {0}
        BY <1>1, <1>2, <1>12 DEF Legit
    <2>2. IsFiniteSet(1..level) /\ IsFiniteSet(1..(level - 1))
        BY <2>1, LevelsFinite
    <2>3. Load(new, 1..level, e) = Demand(s, e) + Load(new, 1..(level - 1), e)
        BY <1>11, <2>1, LoadPrefix
    <2>4. Load(new, 1..(level - 1), e) = Load(old, 1..(level - 1), e)
        <3>1. PICK L : L = 1..(level - 1)
            OBVIOUS
        <3>2. IsFiniteSet(L) /\ \A l \in L : new[l] = old[l]
            BY <1>11, <2>2, <3>1
        <3>3. Load(new, L, e) = Load(old, L, e)
            BY <3>2, LoadSame
        <3>4. QED
            BY <3>1, <3>3
    <2>5. PICK x : x = Load(old, 1..(level - 1), e)
        OBVIOUS
    <2>6. x \in Nat
        BY <2>1, <2>2, <2>4, <2>5, LoadType
    <2>7. Demand(s, e) \in Nat /\ Spare[e] \in Nat
        BY <1>5, DemandType, AssignmentAssumption
    <2>8. remaining[e] = Spare[e] - x
        BY <1>2, <1>9, <2>5 DEF RemainingAccounts
    <2>9. remaining'[e] = remaining[e] - Demand(s, e)
        BY <1>5, <1>8, CapacityType
    <2>10. remaining'[e] = Spare[e] - Load(new, 1..level, e)
        BY <2>3, <2>4, <2>5, <2>6, <2>7, <2>8, <2>9
    <2>11. level' - 1 = level
        BY <1>1, <1>2
    <2>12. QED
        BY <1>10, <2>10, <2>11
<1>14. QED
    BY <1>13 DEF RemainingAccounts

\* Every step keeps the capacity book.
LEMMA BookStep ==
    ASSUME Shape, RemainingAccounts, [Next]_vars
    PROVE  RemainingAccounts'
<1>1. CASE \E s \in Sets : Consider(s)
    BY <1>1 DEF Consider, RemainingAccounts
<1>2. CASE \E exhaustive, certified \in BOOLEAN : EndEdge(exhaustive, certified)
    BY <1>2 DEF EndEdge, RemainingAccounts
<1>3. CASE EndAnalysis \/ FastPath \/ Conclude
    BY <1>3 DEF EndAnalysis, FastPath, Conclude, RemainingAccounts
<1>4. CASE Limit \/ UNCHANGED vars
    <2>1. UNCHANGED <<alternatives, choice, level, remaining, pc>>
        BY <1>4 DEF Limit, vars, analysis, search
    <2>2. QED
        BY <2>1 DEF RemainingAccounts, Chosen
<1>5. QED
    BY <1>1, <1>2, <1>3, <1>4, BookBegins, BookBack, BookDescend DEF Next

\* At every step of the search, what is left of an edge is its spare capacity less what the
\* levels entered so far have taken.
THEOREM RemainingIsAccountedFor == Spec => []RemainingAccounts
<1>1. Init => RemainingAccounts
    BY DEF Init, RemainingAccounts
<1>2. QED
    BY <1>1, InitShape, ShapeStep, BookStep, PTL DEF Spec

-----------------------------------------------------------------------------
(* The plan *)

\* The sets fit the spare capacity together.
Fits(sets) == \A e \in Edges : Load(sets, Levels, e) <= Spare[e]

\* c gives every level one of its alternatives and the edges can carry them together.
Candidate(c) == c \in [Levels -> Nat \ {0}] /\ Valid(c, Levels) /\ Fits(Chosen(c))

\* What has been found is a candidate, and a plan is what has been found.
BestOK ==
    /\ verdict = "plan" => best # NoBest
    /\ best # NoBest => Candidate(best.choice) /\ best.worth \in Worths

\* What sets that fit leave of the edges.
LEMMA AfterType ==
    ASSUME NEW sets \in [Levels -> Sets], Fits(sets)
    PROVE  After(sets) \in [Edges -> Nat]
<1>1. \A e \in Edges : Load(sets, Levels, e) \in Nat
    BY LevelsFinite, LoadType DEF Legit
<1>2. Spare \in [Edges -> Nat]
    BY AssignmentAssumption
<1>3. ASSUME NEW e \in Edges
      PROVE  Spare[e] - Load(sets, Levels, e) \in Nat
    <2>1. Load(sets, Levels, e) <= Spare[e]
        BY DEF Fits
    <2>2. QED
        BY <1>1, <1>2, <2>1
<1>4. QED
    BY <1>3 DEF After

\* The sets a choice of alternatives stands for.
LEMMA ChosenType ==
    ASSUME Shape, NEW c, Valid(c, Levels)
    PROVE  Chosen(c) \in [Levels -> Sets]
<1>1. \A l \in Levels : c[l] \in DOMAIN alternatives[l] /\ alternatives[l] \in Seq(Sets)
    BY DEF Valid, Shape, TypeOK
<1>2. \A l \in Levels : alternatives[l][c[l]] \in Sets
    BY <1>1
<1>3. QED
    BY <1>2 DEF Chosen

\* What a candidate is worth.
LEMMA CandidateWorth ==
    ASSUME Shape, NEW c, Candidate(c)
    PROVE  Worth(Chosen(c), After(Chosen(c))) \in Worths
<1>1. Chosen(c) \in [Levels -> Sets] /\ Fits(Chosen(c))
    BY ChosenType DEF Candidate
<1>2. After(Chosen(c)) \in [Edges -> Nat]
    BY <1>1, AfterType
<1>3. QED
    BY <1>1, <1>2, WorthType, LevelsFinite

\* A candidate with its worth is not mistaken for no plan.
LEMMA FoundIsBest ==
    ASSUME NEW c \in [Levels -> Nat \ {0}], NEW w \in Worths
    PROVE  [choice |-> c, worth |-> w] # NoBest
<1>1. c \in [Levels -> Nat]
    OBVIOUS
<1>2. [choice |-> c, worth |-> w] \in [choice : [Levels -> Nat], worth : Worths]
    BY <1>1
<1>3. QED
    BY <1>2, AssignmentAssumption

\* Where the first alternatives fit together, they are a candidate.
LEMMA FirstIsCandidate ==
    ASSUME Shape, pc = "assign", FirstFit
    PROVE  Candidate(First)
<1>1. First \in [Levels -> Nat \ {0}]
    BY DEF First
<1>2. \A l \in Levels : alternatives[l] \in Seq(Sets) /\ alternatives[l] # <<>>
    BY DEF Shape, TypeOK
<1>3. \A l \in Levels : First[l] \in DOMAIN alternatives[l]
    BY <1>2 DEF First
<1>4. QED
    BY <1>1, <1>3 DEF Candidate, Valid, Fits, FirstFit

\* A leaf of the search is a candidate, and what is left is what the candidate leaves.
LEMMA LeafIsCandidate ==
    ASSUME Shape, RemainingAccounts, Leaf
    PROVE  Candidate(choice) /\ remaining = After(Chosen(choice))
<1>1. LogicalEdges \in Nat /\ Levels = 1..LogicalEdges /\ pc = "search"
    BY LevelsFinite DEF Leaf, Searching
<1>2. 1..(level - 1) = Levels
    BY <1>1 DEF Leaf
<1>3. Valid(choice, Levels) /\ choice \in [Levels -> Nat \ {0}] /\ remaining \in [Edges -> Nat]
    BY <1>1, <1>2 DEF Shape, TypeOK
<1>4. \A e \in Edges : remaining[e] = Spare[e] - Load(Chosen(choice), Levels, e)
    BY <1>1, <1>2 DEF RemainingAccounts
<1>5. remaining = After(Chosen(choice))
    BY <1>3, <1>4 DEF After
<1>6. ASSUME NEW e \in Edges
      PROVE  Load(Chosen(choice), Levels, e) <= Spare[e]
    <2>1. Chosen(choice) \in [Levels -> Sets]
        BY <1>3, ChosenType
    <2>2. Load(Chosen(choice), Levels, e) \in Nat
        BY <2>1, LevelsFinite, LoadType DEF Legit
    <2>3. remaining[e] \in Nat /\ Spare[e] \in Nat
        BY <1>3, AssignmentAssumption
    <2>4. remaining[e] = Spare[e] - Load(Chosen(choice), Levels, e)
        BY <1>4
    <2>5. QED
        BY <2>2, <2>3, <2>4
<1>7. QED
    BY <1>3, <1>5, <1>6 DEF Candidate, Fits

\* Only what is offered to the lists can change the candidates.
LEMMA CandidateStays ==
    ASSUME NEW c, UNCHANGED alternatives
    PROVE  Candidate(c)' <=> Candidate(c)
BY DEF Candidate, Valid, Fits, Chosen, Levels, Edges

\* Every step keeps what has been found a candidate.
LEMMA BestStep ==
    ASSUME Shape, RemainingAccounts, BestOK, [Next]_vars
    PROVE  BestOK'
<1>1. CASE \E s \in Sets : Consider(s)
    BY <1>1 DEF Consider, Shape, Untouched, BestOK, search
<1>2. CASE FastPath
    <2>1. Candidate(First) /\ Worth(Chosen(First), After(Chosen(First))) \in Worths
        BY <1>2, FirstIsCandidate, CandidateWorth DEF FastPath
    <2>2. /\ best' = [choice |-> First, worth |-> Worth(Chosen(First), After(Chosen(First)))]
          /\ UNCHANGED alternatives
        BY <1>2 DEF FastPath, analysis
    <2>3. First \in [Levels -> Nat \ {0}]
        BY <2>1 DEF Candidate
    <2>4. best' # NoBest
        BY <2>1, <2>2, <2>3, FoundIsBest
    <2>5. best'.choice = First /\ best'.worth \in Worths
        BY <2>1, <2>2
    <2>6. Candidate(First)'
        BY <2>1, <2>2, CandidateStays DEF First
    <2>7. Candidate(best.choice)'
        <3>1. First' = First
            BY DEF First, Levels
        <3>2. QED
            BY <2>5, <2>6, <3>1
    <2>8. QED
        BY <2>4, <2>5, <2>7 DEF BestOK
<1>3. CASE Leaf
    <2>1. Candidate(choice) /\ Worth(Chosen(choice), remaining) \in Worths
        BY <1>3, LeafIsCandidate, CandidateWorth
    <2>2. UNCHANGED <<alternatives, verdict>> /\ verdict = "none"
        BY <1>3 DEF Leaf, Searching, analysis, Shape, TypeOK
    <2>3. CASE best' = best
        <3>1. best # NoBest => Candidate(best.choice)
            BY DEF BestOK
        <3>2. PICK c : c = best.choice
            OBVIOUS
        <3>3. best # NoBest => Candidate(c)'
            BY <2>2, <3>1, <3>2, CandidateStays
        <3>4. Candidate(c)' <=> Candidate(best.choice)'
            BY <2>3, <3>2
        <3>5. QED
            BY <2>2, <2>3, <3>3, <3>4 DEF BestOK
    <2>4. CASE best' = [choice |-> choice, worth |-> Worth(Chosen(choice), remaining)]
        <3>1. best'.choice = choice /\ best'.worth \in Worths
            BY <2>1, <2>4
        <3>2. PICK c : c = choice
            OBVIOUS
        <3>3. Candidate(c)'
            BY <2>1, <2>2, <3>2, CandidateStays
        <3>4. Candidate(c)' <=> Candidate(best.choice)'
            BY <3>1, <3>2
        <3>5. QED
            BY <2>2, <3>1, <3>3, <3>4 DEF BestOK
    <2>5. QED
        BY <1>3, <2>3, <2>4 DEF Leaf
<1>4. CASE UNCHANGED <<alternatives, best>> /\ (verdict' = "plan" => best # NoBest)
    <2>1. PICK c : c = best.choice
        OBVIOUS
    <2>2. Candidate(c)' <=> Candidate(c)
        BY <1>4, CandidateStays
    <2>3. Candidate(c)' <=> Candidate(best.choice)'
        BY <1>4, <2>1
    <2>4. QED
        BY <1>4, <2>1, <2>2, <2>3 DEF BestOK
<1>5. CASE \E exhaustive, certified \in BOOLEAN : EndEdge(exhaustive, certified)
    <2>1. UNCHANGED <<alternatives, best>> /\ UNCHANGED verdict
        BY <1>5 DEF EndEdge, search
    <2>2. QED
        BY <1>4, <2>1 DEF BestOK
<1>6. CASE EndAnalysis \/ BeginSearch \/ Limit \/ Descend \/ Backtrack \/ Conclude \/ UNCHANGED vars
    <2>1. UNCHANGED <<alternatives, best>>
        BY <1>6 DEF EndAnalysis, BeginSearch, Limit, Descend, Backtrack, Conclude, vars,
                    analysis, search
    <2>2. verdict' = "plan" => best # NoBest
        BY <1>6 DEF EndAnalysis, BeginSearch, Limit, Descend, Backtrack, Conclude, vars, BestOK
    <2>3. QED
        BY <1>4, <2>1, <2>2
<1>7. QED
    BY <1>1, <1>2, <1>3, <1>5, <1>6 DEF Next

\* A plan never commits more than the verified spare capacity of any physical edge, all its
\* logical edges taken together.
THEOREM PlansFit == Spec => []PlanFits
<1>1. Init => RemainingAccounts /\ BestOK
    BY DEF Init, RemainingAccounts, BestOK
<1>2. BestOK => PlanFits
    BY DEF BestOK, PlanFits, Candidate, Fits
<1>3. QED
    BY <1>1, <1>2, InitShape, ShapeStep, BookStep, BestStep, PTL DEF Spec

-----------------------------------------------------------------------------
(* The order of the path sets *)

\* The objective is a strict order.
LEMMA BetterOrder ==
    /\ \A a \in Worths : ~global_better(a, a)
    /\ \A a, b, c \in Worths : global_better(a, b) /\ global_better(b, c) => global_better(a, c)
<1>1. \A a \in Worths : /\ a.total \in Nat /\ a.conflicts \in Nat
                        /\ a.max \in Nat /\ a.headroom \in Nat
    BY DEF Worths
<1>2. \A a \in Worths : ~global_better(a, a)
    BY <1>1 DEF global_better, CheaperOrSafer
<1>3. ASSUME NEW a \in Worths, NEW b \in Worths, NEW c \in Worths,
             global_better(a, b), global_better(b, c)
      PROVE  global_better(a, c)
    BY <1>1, <1>3 DEF global_better, CheaperOrSafer
<1>4. QED
    BY <1>2, <1>3

\* What a set is worth on its own.
LEMMA OwnType ==
    ASSUME NEW s \in Sets
    PROVE  OwnWorth(s) \in Worths
<1>1. PICK left : left = [e \in Edges |-> IF Demand(s, e) >= Spare[e] THEN 0
                                          ELSE Spare[e] - Demand(s, e)]
    OBVIOUS
<1>2. \A e \in Edges : Demand(s, e) \in Nat /\ Spare[e] \in Nat
    BY DemandType, AssignmentAssumption
<1>3. left \in [Edges -> Nat]
    BY <1>1, <1>2
<1>4. <<s>> \in [1..1 -> Sets] /\ IsFiniteSet(1..1)
    <2>1. IsFiniteSet(1..1)
        BY LevelsFinite
    <2>2. <<s>> \in [1..1 -> Sets]
        OBVIOUS
    <2>3. QED
        BY <2>1, <2>2
<1>5. Worth(<<s>>, left) \in Worths
    BY <1>3, <1>4, WorthType
<1>6. QED
    BY <1>1, <1>5 DEF OwnWorth

\* The order of the path sets is strict.
LEMMA SetOrder ==
    /\ \A s \in Sets : ~path_set_less(s, s)
    /\ \A s, t, u \in Sets : path_set_less(s, t) /\ path_set_less(t, u) => path_set_less(s, u)
<1>1. Sets \subseteq Int
    BY AssignmentAssumption
<1>2. ASSUME NEW s \in Sets
      PROVE  ~path_set_less(s, s)
    <2>1. ~(s < s)
        BY <1>1
    <2>2. QED
        BY <2>1, OwnType, BetterOrder DEF path_set_less
<1>3. ASSUME NEW s \in Sets, NEW t \in Sets, NEW u \in Sets,
             path_set_less(s, t), path_set_less(t, u)
      PROVE  path_set_less(s, u)
    <2>1. s < t /\ t < u => s < u
        BY <1>1
    <2>2. PICK a \in Worths : a = OwnWorth(s)
        BY OwnType
    <2>3. PICK b \in Worths : b = OwnWorth(t)
        BY OwnType
    <2>4. PICK c \in Worths : c = OwnWorth(u)
        BY OwnType
    <2>5. /\ global_better(a, b) \/ (a = b /\ s < t)
          /\ global_better(b, c) \/ (b = c /\ t < u)
        BY <1>3, <2>2, <2>3, <2>4 DEF path_set_less
    <2>6. global_better(a, b) /\ global_better(b, c) => global_better(a, c)
        BY BetterOrder
    <2>7. global_better(a, c) \/ (a = c /\ s < u)
        BY <2>1, <2>5, <2>6
    <2>8. QED
        BY <2>2, <2>4, <2>7 DEF path_set_less
<1>4. QED
    BY <1>2, <1>3

\* No element of the list comes before its first.
HeadIsLeast(q) == \A i \in DOMAIN q : ~path_set_less(q[i], q[1])

\* What is offered takes its place, so that the first element stays the least.
LEMMA OfferHead ==
    ASSUME NEW q \in Seq(Sets), NEW s \in Sets, HeadIsLeast(q)
    PROVE  HeadIsLeast(offer_set(q, s))
<1>1. PICK p : p = Place(q, s)
    OBVIOUS
<1>2. PICK P : P = {i \in DOMAIN q : path_set_less(q[i], s)}
    OBVIOUS
<1>3. p = 1 + Cardinality(P) /\ p \in 1..(Len(q) + 1) /\ Len(q) \in Nat
    BY <1>1, <1>2, PlaceType DEF Place
<1>4. IsFiniteSet(P)
    <2>1. P \in SUBSET (1..Len(q)) /\ IsFiniteSet(1..Len(q))
        BY <1>2, <1>3, LevelsFinite
    <2>2. QED
        BY <2>1, FS_Subset
<1>5. p = 1 <=> P = {}
    <2>1. Cardinality(P) = 0 <=> P = {}
        BY <1>4, FS_EmptySet
    <2>2. Cardinality(P) \in Nat
        BY <1>4, FS_CardinalityType
    <2>3. QED
        BY <1>3, <2>1, <2>2
<1>6. PICK g : g = InsertAt(q, p, s)
    OBVIOUS
<1>7. /\ g \in Seq(Sets) /\ Len(g) = Len(q) + 1
      /\ \A i \in 1..(Len(q) + 1) : g[i] = IF i < p THEN q[i] ELSE IF i = p THEN s ELSE q[i - 1]
    <2>1. /\ InsertAt(q, p, s) \in Seq(Sets)
          /\ Len(InsertAt(q, p, s)) = Len(q) + 1
          /\ \A i \in 1..(Len(q) + 1) :
                InsertAt(q, p, s)[i] = IF i < p THEN q[i] ELSE IF i = p THEN s ELSE q[i - 1]
        BY <1>3, InsertShape, SMT
    <2>2. QED
        BY <1>6, <2>1
<1>8. \A i \in 1..(Len(q) + 1) : g[i] = s \/ \E j \in DOMAIN q : g[i] = q[j]
    <2>1. ASSUME NEW i \in 1..(Len(q) + 1), g[i] # s
          PROVE  \E j \in DOMAIN q : g[i] = q[j]
        <3>1. CASE i < p
            <4>1. i \in DOMAIN q /\ g[i] = q[i]
                BY <1>3, <1>7, <3>1
            <4>2. QED
                BY <4>1
        <3>2. CASE ~(i < p)
            <4>1. i # p
                BY <1>7, <2>1, <3>2
            <4>2. i - 1 \in DOMAIN q /\ g[i] = q[i - 1]
                BY <1>3, <1>7, <3>2, <4>1
            <4>3. QED
                BY <4>2
        <3>3. QED
            BY <3>1, <3>2
    <2>2. QED
        BY <2>1
<1>9. \A j \in DOMAIN q : q[j] \in Sets
    OBVIOUS
<1>10. \A i \in 1..(Len(q) + 1) : ~path_set_less(g[i], g[1])
    <2>1. CASE P = {}
        <3>1. g[1] = s
            BY <1>3, <1>5, <1>7, <2>1
        <3>2. \A j \in DOMAIN q : ~path_set_less(q[j], s)
            BY <1>2, <2>1
        <3>3. ~path_set_less(s, s)
            BY SetOrder
        <3>4. QED
            BY <1>8, <3>1, <3>2, <3>3
    <2>2. CASE P # {}
        <3>1. PICK j \in DOMAIN q : path_set_less(q[j], s)
            BY <1>2, <2>2
        <3>2. g[1] = q[1] /\ 1 \in DOMAIN q
            BY <1>3, <1>5, <1>7, <2>2
        <3>3. \A i \in DOMAIN q : ~path_set_less(q[i], q[1])
            BY DEF HeadIsLeast
        <3>4. ~path_set_less(s, q[1])
            BY <1>9, <3>1, <3>2, <3>3, SetOrder
        <3>5. QED
            BY <1>8, <3>2, <3>3, <3>4
    <2>3. QED
        BY <2>1, <2>2
<1>11. offer_set(q, s) = IF Len(g) > MaxSetAlternatives THEN Front(g) ELSE g
    BY <1>1, <1>6 DEF offer_set, Place
<1>12. CASE Len(g) > MaxSetAlternatives
    <2>1. MaxSetAlternatives \in Nat \ {0}
        BY AssignmentAssumption
    <2>2. PICK f : f = Front(g)
        OBVIOUS
    <2>3. DOMAIN f = 1..Len(q) /\ \A i \in 1..Len(q) : f[i] = g[i]
        BY <1>3, <1>7, <2>2 DEF Front
    <2>4. 1 \in 1..Len(q)
        BY <1>3, <1>7, <1>12, <2>1
    <2>5. \A i \in DOMAIN f : ~path_set_less(f[i], f[1])
        <3>1. \A i \in 1..Len(q) : i \in 1..(Len(q) + 1)
            BY <1>3
        <3>2. QED
            BY <1>10, <2>3, <2>4, <3>1
    <2>6. QED
        BY <1>11, <1>12, <2>2, <2>5 DEF HeadIsLeast
<1>13. CASE ~(Len(g) > MaxSetAlternatives)
    <2>1. DOMAIN g = 1..(Len(q) + 1)
        BY <1>7
    <2>2. QED
        BY <1>10, <1>11, <1>13, <2>1 DEF HeadIsLeast
<1>14. QED
    BY <1>12, <1>13

\* Inserting adds one element.
LEMMA InsertRange ==
    ASSUME NEW q \in Seq(Sets), NEW s \in Sets, NEW p \in 1..(Len(q) + 1)
    PROVE  Range(InsertAt(q, p, s)) = Range(q) \cup {s}
<1>1. Len(q) \in Nat /\ p \in Nat
    OBVIOUS
<1>2. PICK g : g = InsertAt(q, p, s)
    OBVIOUS
<1>3. /\ g \in Seq(Sets) /\ Len(g) = Len(q) + 1
      /\ \A i \in 1..(Len(q) + 1) : g[i] = IF i < p THEN q[i] ELSE IF i = p THEN s ELSE q[i - 1]
    <2>1. /\ InsertAt(q, p, s) \in Seq(Sets)
          /\ Len(InsertAt(q, p, s)) = Len(q) + 1
          /\ \A i \in 1..(Len(q) + 1) :
                InsertAt(q, p, s)[i] = IF i < p THEN q[i] ELSE IF i = p THEN s ELSE q[i - 1]
        BY InsertShape, SMT
    <2>2. QED
        BY <1>2, <2>1
<1>4. ASSUME NEW i \in DOMAIN g
      PROVE  g[i] \in Range(q) \cup {s}
    <2>1. i \in 1..(Len(q) + 1)
        BY <1>3
    <2>2. i < p => i \in DOMAIN q
        BY <1>1, <2>1
    <2>3. ~(i < p) /\ i # p => i - 1 \in DOMAIN q
        BY <1>1, <2>1
    <2>4. QED
        BY <1>3, <2>1, <2>2, <2>3 DEF Range
<1>5. ASSUME NEW j \in DOMAIN q
      PROVE  q[j] \in Range(g)
    <2>1. CASE j < p
        <3>1. j \in DOMAIN g /\ g[j] = q[j]
            BY <1>1, <1>3, <2>1
        <3>2. QED
            BY <3>1 DEF Range
    <2>2. CASE ~(j < p)
        <3>1. j + 1 \in DOMAIN g /\ g[j + 1] = q[j]
            BY <1>1, <1>3, <2>2
        <3>2. QED
            BY <3>1 DEF Range
    <2>3. QED
        BY <2>1, <2>2
<1>6. s \in Range(g)
    <2>1. p \in DOMAIN g /\ g[p] = s
        BY <1>1, <1>3
    <2>2. QED
        BY <2>1 DEF Range
<1>7. Range(g) = Range(q) \cup {s}
    BY <1>4, <1>5, <1>6 DEF Range
<1>8. QED
    BY <1>2, <1>7

\* A list that is not full takes what is offered and keeps what it has.
LEMMA OfferKeeps ==
    ASSUME NEW q \in Seq(Sets), NEW s \in Sets, Len(q) < MaxSetAlternatives
    PROVE  /\ offer_set(q, s) = InsertAt(q, Place(q, s), s)
           /\ Range(offer_set(q, s)) = Range(q) \cup {s}
           /\ Len(offer_set(q, s)) = Len(q) + 1
<1>1. PICK p : p = Place(q, s)
    OBVIOUS
<1>2. p \in 1..(Len(q) + 1) /\ Len(q) \in Nat /\ MaxSetAlternatives \in Nat
    BY <1>1, PlaceType, AssignmentAssumption
<1>3. Len(InsertAt(q, p, s)) = Len(q) + 1 /\ Range(InsertAt(q, p, s)) = Range(q) \cup {s}
    BY <1>2, InsertShape, InsertRange
<1>4. offer_set(q, s) = InsertAt(q, p, s)
    BY <1>1, <1>2, <1>3 DEF offer_set, Place
<1>5. QED
    BY <1>1, <1>3, <1>4

-----------------------------------------------------------------------------
(* The lists of alternatives *)

\* The sets that fit the spare capacity on their own.
Admissible(S) == {s \in S : FitsIn(s, Spare)}

\* q lists the admissible sets of S, each of them once.
Listed(q, S) == Range(q) = Admissible(S) /\ Len(q) = Cardinality(Admissible(S))

\* The levels are analysed in order.  Where nothing is dropped, a list holds what has been
\* considered, and that of an exhaustive level every admissible set.  The first of a list is
\* the least of it.
Lists ==
    /\ \A l \in Levels : l > edge => alternatives[l] = <<>>
    /\ \A l \in Levels : setsExhaustive[l] => l < edge
    /\ edge \in Levels => seen \subseteq problem[edge]
    /\ edge \in Levels /\ NothingDropped => Listed(alternatives[edge], seen)
    /\ NothingDropped => \A l \in Levels : setsExhaustive[l] => Listed(alternatives[l], problem[l])
    /\ \A l \in Levels : HeadIsLeast(alternatives[l])

\* Whether something is dropped depends on the input only.
LEMMA DroppedStays ==
    ASSUME UNCHANGED problem
    PROVE  NothingDropped' <=> NothingDropped
BY DEF NothingDropped, Levels

\* The empty list holds nothing.
LEMMA EmptyList == Listed(<<>>, {}) /\ HeadIsLeast(<<>>)
<1>1. Admissible({}) = {} /\ Range(<<>>) = {} /\ DOMAIN <<>> = {}
    BY DEF Admissible, Range
<1>2. Cardinality({}) = 0 /\ Len(<<>>) = 0
    BY FS_EmptySet
<1>3. QED
    BY <1>1, <1>2 DEF Listed, HeadIsLeast

\* One more set is considered.
LEMMA ListGrows ==
    ASSUME NEW q \in Seq(Sets), NEW S, NEW A, S \subseteq A, A \subseteq Sets, NEW s \in A \ S,
           Cardinality(Admissible(A)) <= MaxSetAlternatives, Listed(q, S), FitsIn(s, Spare)
    PROVE  Listed(offer_set(q, s), S \cup {s})
<1>1. PICK B : B = Admissible(S)
    OBVIOUS
<1>2. Admissible(S \cup {s}) = B \cup {s} /\ s \notin B /\ B \cup {s} \in SUBSET Admissible(A)
    BY <1>1 DEF Admissible
<1>3. IsFiniteSet(Admissible(A)) /\ IsFiniteSet(B)
    <2>1. IsFiniteSet(Sets)
        BY AssignmentAssumption
    <2>2. Admissible(A) \in SUBSET Sets /\ B \in SUBSET Sets
        BY <1>1 DEF Admissible
    <2>3. QED
        BY <2>1, <2>2, FS_Subset
<1>4. Cardinality(B \cup {s}) = Cardinality(B) + 1
    BY <1>2, <1>3, FS_AddElement
<1>5. Cardinality(B \cup {s}) <= Cardinality(Admissible(A))
    BY <1>2, <1>3, FS_Subset
<1>6. /\ Cardinality(B) \in Nat /\ Cardinality(Admissible(A)) \in Nat
      /\ MaxSetAlternatives \in Nat
    BY <1>3, FS_CardinalityType, AssignmentAssumption
<1>7. Range(q) = B /\ Len(q) = Cardinality(B)
    BY <1>1 DEF Listed
<1>8. Len(q) < MaxSetAlternatives
    BY <1>4, <1>5, <1>6, <1>7
<1>9. Range(offer_set(q, s)) = Range(q) \cup {s} /\ Len(offer_set(q, s)) = Len(q) + 1
    BY <1>8, OfferKeeps
<1>10. QED
    BY <1>2, <1>4, <1>7, <1>9 DEF Listed

\* A path set that is considered goes into the list of its level.
LEMMA ListsConsider ==
    ASSUME Shape, Lists, NEW s \in Sets, Consider(s)
    PROVE  Lists'
<1>1. /\ edge \in Levels /\ edge' = edge /\ s \in problem[edge] \ seen /\ seen' = seen \cup {s}
      /\ UNCHANGED <<problem, setsExhaustive>> /\ Levels' = Levels
    BY DEF Consider, Levels
<1>2. alternatives \in [Levels -> Seq(Sets)] /\ problem \in [Levels -> SUBSET Sets]
    BY DEF Shape, TypeOK
<1>3. PICK q \in Seq(Sets) : q = alternatives[edge]
    BY <1>1, <1>2
<1>4. PICK r : r = IF FitsIn(s, Spare) THEN offer_set(q, s) ELSE q
    OBVIOUS
<1>5. alternatives' = [alternatives EXCEPT ![edge] = r]
    <2>1. CASE FitsIn(s, Spare)
        BY <1>3, <1>4, <2>1 DEF Consider
    <2>2. CASE ~FitsIn(s, Spare)
        <3>1. alternatives' = alternatives /\ r = alternatives[edge]
            BY <1>3, <1>4, <2>2 DEF Consider
        <3>2. QED
            BY <1>1, <1>2, <3>1
    <2>3. QED
        BY <2>1, <2>2
<1>6. alternatives'[edge] = r /\ \A l \in Levels : l # edge => alternatives'[l] = alternatives[l]
    BY <1>1, <1>2, <1>5
<1>7. HeadIsLeast(r)
    BY <1>1, <1>3, <1>4, OfferHead DEF Lists
<1>8. ASSUME NothingDropped
      PROVE  Listed(r, seen \cup {s})
    <2>1. Listed(q, seen) /\ seen \subseteq problem[edge] /\ problem[edge] \subseteq Sets
        BY <1>1, <1>2, <1>3, <1>8 DEF Lists
    <2>2. CASE FitsIn(s, Spare)
        <3>1. Cardinality(Admissible(problem[edge])) <= MaxSetAlternatives
            BY <1>1, <1>8 DEF NothingDropped, Admissible
        <3>2. Listed(offer_set(q, s), seen \cup {s})
            BY <1>1, <2>1, <2>2, <3>1, ListGrows
        <3>3. QED
            BY <1>4, <2>2, <3>2
    <2>3. CASE ~FitsIn(s, Spare)
        <3>1. Admissible(seen \cup {s}) = Admissible(seen)
            BY <2>3 DEF Admissible
        <3>2. QED
            BY <1>4, <2>1, <2>3, <3>1 DEF Listed
    <2>4. QED
        BY <2>2, <2>3
<1>9. NothingDropped' <=> NothingDropped
    BY <1>1, DroppedStays
<1>10. LogicalEdges \in Nat /\ Levels \subseteq Nat
    BY LevelsFinite
<1>11. \A l \in Levels' : l > edge' => alternatives'[l] = <<>>
    <2>1. \A l \in Levels : l > edge => l # edge
        BY <1>1, <1>10
    <2>2. QED
        BY <1>1, <1>6, <2>1 DEF Lists
<1>12. \A l \in Levels' : setsExhaustive'[l] => l < edge'
    BY <1>1 DEF Lists
<1>13. seen' \subseteq problem'[edge']
    BY <1>1 DEF Lists
<1>14. NothingDropped' => Listed(alternatives'[edge'], seen')
    BY <1>1, <1>6, <1>8, <1>9
<1>15. ASSUME NothingDropped', NEW l \in Levels, setsExhaustive'[l]
       PROVE  Listed(alternatives'[l], problem'[l])
    <2>1. l < edge
        BY <1>1, <1>15 DEF Lists
    <2>2. l # edge
        BY <1>1, <1>10, <2>1
    <2>3. Listed(alternatives[l], problem[l])
        BY <1>1, <1>9, <1>15 DEF Lists
    <2>4. QED
        BY <1>1, <1>6, <2>2, <2>3
<1>16. \A l \in Levels : HeadIsLeast(alternatives'[l])
    BY <1>6, <1>7 DEF Lists
<1>17. QED
    BY <1>1, <1>11, <1>12, <1>13, <1>14, <1>15, <1>16 DEF Lists, Listed, Admissible, HeadIsLeast

\* The analysis of a level ends and that of the next begins.
LEMMA ListsEndEdge ==
    ASSUME Shape, Lists, NEW exhaustive \in BOOLEAN, NEW certified \in BOOLEAN,
           EndEdge(exhaustive, certified)
    PROVE  Lists'
<1>1. /\ edge \in Levels /\ UNCHANGED <<problem, alternatives>> /\ seen' = {}
      /\ exhaustive => seen = problem[edge]
    BY DEF EndEdge
<1>2. LogicalEdges \in Nat /\ Levels = 1..LogicalEdges /\ Levels' = Levels
    BY LevelsFinite DEF Levels
<1>3. edge' = LogicalEdges + 1 \/ edge' = edge + 1
    BY DEF EndEdge
<1>4. NothingDropped' <=> NothingDropped
    BY <1>1, DroppedStays
<1>5. \A l \in Levels : l > edge' => alternatives[l] = <<>>
    <2>1. \A l \in Levels : l > edge' => l > edge
        BY <1>1, <1>2, <1>3
    <2>2. QED
        BY <2>1 DEF Lists
<1>6. edge' \in Levels => alternatives[edge'] = <<>>
    <2>1. edge' \in Levels => edge' > edge
        BY <1>1, <1>2, <1>3
    <2>2. QED
        BY <2>1 DEF Lists
<1>7. ASSUME NEW l \in Levels, setsExhaustive'[l]
      PROVE  /\ l = edge \/ (l < edge /\ setsExhaustive[l])
             /\ l = edge => exhaustive
    BY <1>1, <1>7 DEF EndEdge, Shape, TypeOK, Lists
<1>8. ASSUME NEW l \in Levels, setsExhaustive'[l]
      PROVE  l < edge'
    BY <1>1, <1>2, <1>3, <1>7, <1>8
<1>9. edge' \in Levels => seen' \subseteq problem'[edge']
    BY <1>1
<1>10. edge' \in Levels => Listed(alternatives'[edge'], seen')
    BY <1>1, <1>6, EmptyList
<1>11. ASSUME NothingDropped, NEW l \in Levels, setsExhaustive'[l]
       PROVE  Listed(alternatives[l], problem[l])
    <2>1. CASE l = edge
        BY <1>1, <1>7, <1>11, <2>1 DEF Lists
    <2>2. CASE l # edge
        BY <1>7, <1>11, <2>2 DEF Lists
    <2>3. QED
        BY <2>1, <2>2
<1>12. QED
    <2>1. \A l \in Levels' : l > edge' => alternatives'[l] = <<>>
        BY <1>1, <1>2, <1>5
    <2>2. \A l \in Levels' : setsExhaustive'[l] => l < edge'
        BY <1>2, <1>8
    <2>3. NothingDropped' => \A l \in Levels' :
                setsExhaustive'[l] => Listed(alternatives'[l], problem'[l])
        BY <1>1, <1>2, <1>4, <1>11
    <2>4. \A l \in Levels' : HeadIsLeast(alternatives'[l])
        BY <1>1, <1>2 DEF Lists
    <2>5. QED
        BY <1>2, <1>9, <1>10, <2>1, <2>2, <2>3, <2>4 DEF Lists, Listed, Admissible, HeadIsLeast

\* The lists begin empty.
LEMMA InitLists == Init => Lists
<1> SUFFICES ASSUME Init PROVE Lists
    OBVIOUS
<1>1. \A l \in Levels : alternatives[l] = <<>> /\ ~setsExhaustive[l]
    BY DEF Init
<1>2. seen = {}
    BY DEF Init
<1>3. QED
    BY <1>1, <1>2, EmptyList DEF Lists

\* Every step keeps the lists in order.
LEMMA ListsStep ==
    ASSUME Shape, Lists, [Next]_vars
    PROVE  Lists'
<1>1. CASE UNCHANGED <<problem, analysis>>
    <2>1. UNCHANGED <<problem, edge, seen, alternatives, setsExhaustive>>
        BY <1>1 DEF analysis
    <2>2. (NothingDropped' <=> NothingDropped) /\ Levels' = Levels
        BY <2>1, DroppedStays DEF Levels
    <2>3. QED
        BY <2>1, <2>2 DEF Lists, Listed, Admissible, HeadIsLeast
<1>2. CASE EndAnalysis \/ FastPath \/ BeginSearch \/ Leaf \/ Limit \/ Descend \/ Backtrack
           \/ Conclude \/ UNCHANGED vars
    <2>1. UNCHANGED <<problem, analysis>>
        BY <1>2 DEF EndAnalysis, FastPath, BeginSearch, Leaf, Limit, Descend, Backtrack,
                    Conclude, vars
    <2>2. QED
        BY <1>1, <2>1
<1>3. QED
    BY <1>2, ListsConsider, ListsEndEdge DEF Next

-----------------------------------------------------------------------------
(* What the search covers *)

\* In a feasible assignment every set fits on its own.
LEMMA FeasibleAlone ==
    ASSUME NEW f \in FeasibleAssignments, NEW l \in Levels
    PROVE  f[l] \in Admissible(problem[l])
<1>1. f \in [Levels -> Sets] /\ f[l] \in problem[l] /\ f[l] \in Sets
    BY DEF FeasibleAssignments
<1>2. ASSUME NEW e \in Edges
      PROVE  Demand(f[l], e) <= Spare[e]
    <2>1. Legit(f, Levels) /\ Legit(f, Levels \ {l}) /\ IsFiniteSet(Levels)
        BY <1>1, LevelsFinite DEF Legit
    <2>2. IsFiniteSet(Levels \ {l})
        BY <2>1, FS_RemoveElement
    <2>3. Load(f, Levels, e) = Demand(f[l], e) + Load(f, Levels \ {l}, e)
        BY <2>1, LoadRemove
    <2>4. Load(f, Levels \ {l}, e) \in Nat /\ Demand(f[l], e) \in Nat /\ Spare[e] \in Nat
        BY <1>1, <2>1, <2>2, LoadType, DemandType, AssignmentAssumption
    <2>5. Load(f, Levels, e) <= Spare[e]
        BY DEF FeasibleAssignments
    <2>6. QED
        BY <2>3, <2>4, <2>5
<1>3. DOMAIN Usage[f[l]] \subseteq Edges
    BY <1>1, AssignmentAssumption
<1>4. FitsIn(f[l], Spare)
    BY <1>2, <1>3 DEF FitsIn, Demand
<1>5. QED
    BY <1>1, <1>4 DEF Admissible

\* Where nothing is dropped, the candidates of an exhaustive analysis are the feasible
\* assignments.
LEMMA FeasibleIsCandidate ==
    ASSUME Shape, Lists, NothingDropped, AllSetsExhaustive, NEW f \in FeasibleAssignments
    PROVE  \E c : Candidate(c) /\ Chosen(c) = f
<1>1. f \in [Levels -> Sets]
    BY DEF FeasibleAssignments
<1>2. ASSUME NEW l \in Levels
      PROVE  \E i \in DOMAIN alternatives[l] : alternatives[l][i] = f[l]
    <2>1. Listed(alternatives[l], problem[l])
        BY DEF Lists, AllSetsExhaustive
    <2>2. f[l] \in Range(alternatives[l])
        BY <2>1, FeasibleAlone DEF Listed
    <2>3. QED
        BY <2>2 DEF Range
<1>3. PICK c : c = [l \in Levels |->
                        CHOOSE i \in DOMAIN alternatives[l] : alternatives[l][i] = f[l]]
    OBVIOUS
<1>4. \A l \in Levels : c[l] \in DOMAIN alternatives[l] /\ alternatives[l][c[l]] = f[l]
    BY <1>2, <1>3
<1>5. \A l \in Levels : c[l] \in Nat \ {0}
    <2>1. \A l \in Levels : alternatives[l] \in Seq(Sets)
        BY DEF Shape, TypeOK
    <2>2. QED
        BY <1>4, <2>1
<1>6. c \in [Levels -> Nat \ {0}]
    BY <1>3, <1>5
<1>7. Chosen(c) = f
    BY <1>1, <1>4 DEF Chosen
<1>8. Fits(f)
    BY DEF Fits, FeasibleAssignments
<1>9. QED
    BY <1>4, <1>6, <1>7, <1>8 DEF Candidate, Valid

\* An infeasibility that is claimed is one, where nothing is dropped.
Denied == NothingDropped /\ "infeasible" \in denials => FeasibleAssignments = {}

\* A level without alternatives is an infeasibility where all its sets were considered, or
\* where it has none.
LEMMA DeniedEndEdge ==
    ASSUME Shape, Lists, Denied, NEW exhaustive \in BOOLEAN, NEW certified \in BOOLEAN,
           EndEdge(exhaustive, certified)
    PROVE  Denied'
<1>1. /\ edge \in Levels /\ UNCHANGED problem
      /\ exhaustive => seen = problem[edge]
      /\ certified => problem[edge] = {}
    BY DEF EndEdge
<1>2. NothingDropped' <=> NothingDropped
    BY <1>1, DroppedStays
<1>3. FeasibleAssignments' = FeasibleAssignments
    BY <1>1 DEF FeasibleAssignments, Levels, Edges
<1>4. CASE denials' = denials
    BY <1>2, <1>3, <1>4 DEF Denied
<1>5. CASE denials' # denials
    <2>1. SUFFICES ASSUME NothingDropped, "infeasible" \in denials', "infeasible" \notin denials
                   PROVE  FeasibleAssignments = {}
        BY <1>2, <1>3 DEF Denied
    <2>2. alternatives[edge] = <<>> /\ (exhaustive \/ certified)
        BY <2>1 DEF EndEdge
    <2>3. Listed(<<>>, seen)
        BY <1>1, <2>1, <2>2 DEF Lists
    <2>4. Admissible(seen) = {}
        BY <2>3 DEF Listed, Range
    <2>5. Admissible(problem[edge]) = {}
        BY <1>1, <2>2, <2>4 DEF Admissible
    <2>6. QED
        BY <1>1, <2>5, FeasibleAlone
<1>6. QED
    BY <1>4, <1>5

\* The search has been through c: it agrees with the choices made up to a level where it
\* comes before the one that is being tried, or is the one just tried.
Passed(c, at, ch, st) ==
    \/ at = 0
    \/ \E j \in Levels :
        /\ j <= at /\ st[j]
        /\ \A i \in 1..(j - 1) : c[i] = ch[i]
        /\ c[j] < ch[j] \/ (j = at /\ c[j] = ch[j])

\* Nothing that the search has been through is better than what it has found.
Beaten(c) == best # NoBest /\ ~global_better(Worth(Chosen(c), After(Chosen(c))), best.worth)

\* The levels entered are those that have been tried, and every candidate the search has
\* been through is beaten.
Covered ==
    pc = "search" =>
        /\ \A l \in Levels : (l < level => started[l]) /\ (l > level => ~started[l])
        /\ \A c : Candidate(c) /\ Passed(c, level, choice, started) => Beaten(c)

\* Going down, the search passes what is skipped at the level.
LEMMA PassedDown ==
    ASSUME NEW k \in Levels, NEW ch \in [Levels -> Nat \ {0}], NEW st \in [Levels -> BOOLEAN],
           \A l \in Levels : l > k => ~st[l],
           NEW m \in Nat, NEW c \in [Levels -> Nat \ {0}],
           Passed(c, k + 1, [ch EXCEPT ![k] = m], [st EXCEPT ![k] = TRUE])
    PROVE  \/ Passed(c, k, ch, st)
           \/ /\ \A i \in 1..(k - 1) : c[i] = ch[i]
              /\ c[k] < m /\ ~(st[k] /\ c[k] <= ch[k])
<1>1. LogicalEdges \in Nat /\ Levels = 1..LogicalEdges /\ k + 1 # 0
    BY LevelsFinite
<1>2. PICK d : d = [ch EXCEPT ![k] = m]
    OBVIOUS
<1>3. PICK u : u = [st EXCEPT ![k] = TRUE]
    OBVIOUS
<1>4. /\ d[k] = m /\ \A l \in Levels : l # k => d[l] = ch[l]
      /\ \A l \in Levels : l # k => u[l] = st[l]
    BY <1>2, <1>3
<1>5. PICK j \in Levels : /\ j <= k + 1 /\ u[j]
                          /\ \A i \in 1..(j - 1) : c[i] = d[i]
                          /\ c[j] < d[j] \/ (j = k + 1 /\ c[j] = d[j])
    BY <1>1, <1>2, <1>3 DEF Passed
<1>6. j # k + 1
    BY <1>1, <1>4, <1>5
<1>7. j <= k
    BY <1>1, <1>5, <1>6
<1>8. \A i \in 1..(j - 1) : i \in Levels /\ i # k
    BY <1>1, <1>7
<1>9. \A i \in 1..(j - 1) : c[i] = ch[i]
    BY <1>4, <1>5, <1>8
<1>10. c[j] < d[j]
    BY <1>5, <1>6
<1>11. CASE j # k
    BY <1>4, <1>5, <1>7, <1>9, <1>10, <1>11 DEF Passed
<1>12. CASE j = k
    <2>1. c[k] < m
        BY <1>4, <1>10, <1>12
    <2>2. CASE st[k] /\ c[k] <= ch[k]
        <3>1. c[k] < ch[k] \/ c[k] = ch[k]
            BY <2>2
        <3>2. QED
            BY <1>7, <1>9, <1>12, <2>2, <3>1 DEF Passed
    <2>3. QED
        BY <1>9, <1>12, <2>1, <2>2
<1>13. QED
    BY <1>11, <1>12

\* Going back, it passes what is left of the level.
LEMMA PassedBack ==
    ASSUME NEW k \in Levels, NEW ch \in [Levels -> Nat \ {0}], NEW st \in [Levels -> BOOLEAN],
           NEW c \in [Levels -> Nat \ {0}], \A l \in Levels : l < k => st[l],
           Passed(c, k - 1, ch, [st EXCEPT ![k] = FALSE])
    PROVE  \/ Passed(c, k, ch, st)
           \/ /\ \A i \in 1..(k - 1) : c[i] = ch[i]
              /\ ~(st[k] /\ c[k] <= ch[k])
<1>1. LogicalEdges \in Nat /\ Levels = 1..LogicalEdges /\ k \in Int
    BY LevelsFinite
<1>2. SUFFICES ASSUME \A i \in 1..(k - 1) : c[i] = ch[i], st[k] /\ c[k] <= ch[k]
               PROVE  Passed(c, k, ch, st)
    <2>1. CASE k = 1
        BY <2>1
    <2>2. CASE k # 1
        <3>1. PICK u : u = [st EXCEPT ![k] = FALSE]
            OBVIOUS
        <3>2. PICK j \in Levels : /\ j <= k - 1 /\ u[j]
                                  /\ \A i \in 1..(j - 1) : c[i] = ch[i]
                                  /\ c[j] < ch[j] \/ (j = k - 1 /\ c[j] = ch[j])
            BY <1>1, <2>2, <3>1 DEF Passed
        <3>3. j <= k /\ j # k /\ st[j]
            BY <1>1, <3>1, <3>2
        <3>4. CASE c[j] < ch[j]
            BY <3>2, <3>3, <3>4 DEF Passed
        <3>5. CASE j = k - 1 /\ c[j] = ch[j]
            <4>1. \A i \in 1..(k - 1) : i = j \/ i \in 1..(j - 1)
                BY <1>1, <3>5
            <4>2. QED
                BY <3>2, <3>5, <4>1
        <3>6. QED
            BY <3>2, <3>4, <3>5
    <2>3. QED
        BY <2>1, <2>2
<1>3. c[k] < ch[k] \/ c[k] = ch[k]
    BY <1>2
<1>4. QED
    BY <1>1, <1>2, <1>3 DEF Passed

\* After a leaf, it has passed the choice made.
LEMMA PassedLeaf ==
    ASSUME LogicalEdges > 0, NEW ch \in [Levels -> Nat \ {0}], NEW st \in [Levels -> BOOLEAN],
           NEW c \in [Levels -> Nat \ {0}], Passed(c, LogicalEdges, ch, st)
    PROVE  Passed(c, LogicalEdges + 1, ch, st) \/ c = ch
<1>1. LogicalEdges \in Nat /\ Levels = 1..LogicalEdges
    BY LevelsFinite
<1>2. PICK j \in Levels : /\ j <= LogicalEdges /\ st[j]
                          /\ \A i \in 1..(j - 1) : c[i] = ch[i]
                          /\ c[j] < ch[j] \/ (j = LogicalEdges /\ c[j] = ch[j])
    BY <1>1 DEF Passed
<1>3. j <= LogicalEdges + 1
    BY <1>1, <1>2
<1>4. CASE c[j] < ch[j]
    BY <1>2, <1>3, <1>4 DEF Passed
<1>5. CASE j = LogicalEdges /\ c[j] = ch[j]
    <2>1. \A i \in Levels : i = j \/ i \in 1..(j - 1)
        BY <1>1, <1>5
    <2>2. \A i \in Levels : c[i] = ch[i]
        BY <1>2, <1>5, <2>1
    <2>3. QED
        BY <2>2
<1>6. QED
    BY <1>2, <1>4, <1>5

\* A candidate that agrees with the choices made so far fits what they have left.
LEMMA CandidateFits ==
    ASSUME Shape, RemainingAccounts, pc = "search", level \in Levels, NEW c, Candidate(c),
           \A i \in 1..(level - 1) : c[i] = choice[i], c[level] \in Untried
    PROVE  c[level] \in Fitting
<1>1. LogicalEdges \in Nat /\ Levels = 1..LogicalEdges
    BY LevelsFinite
<1>2. PICK sets \in [Levels -> Sets] : sets = Chosen(c)
    BY ChosenType DEF Candidate
<1>3. PICK old : old = Chosen(choice)
    OBVIOUS
<1>4. PICK L : L = 1..(level - 1)
    OBVIOUS
<1>5. PICK K : K = 1..level
    OBVIOUS
<1>6. /\ L \subseteq Levels /\ K \subseteq Levels /\ level \in Nat \ {0}
      /\ IsFiniteSet(L) /\ IsFiniteSet(K) /\ IsFiniteSet(Levels)
    <2>1. L \subseteq Levels /\ K \subseteq Levels /\ level \in Nat \ {0}
        BY <1>1, <1>4, <1>5
    <2>2. QED
        BY <2>1, LevelsFinite, FS_Subset
<1>7. Legit(sets, Levels) /\ Legit(sets, K) /\ Legit(sets, L)
    BY <1>2, <1>6 DEF Legit
<1>8. \A l \in L : sets[l] = old[l]
    BY <1>2, <1>3, <1>4, <1>6 DEF Chosen
<1>9. sets[level] = alternatives[level][c[level]] /\ sets[level] \in Sets
    BY <1>2 DEF Chosen
<1>10. ASSUME NEW e \in Edges
       PROVE  Demand(sets[level], e) <= remaining[e]
    <2>1. Load(sets, K, e) = Demand(sets[level], e) + Load(sets, L, e)
        BY <1>4, <1>5, <1>6, <1>7, LoadPrefix
    <2>2. Load(sets, L, e) = Load(old, L, e)
        <3>1. IsFiniteSet(L)
            BY <1>6
        <3>2. QED
            BY <1>8, <3>1, LoadSame
    <2>3. Load(sets, K, e) <= Load(sets, Levels, e)
        BY <1>6, <1>7, LoadSubset
    <2>4. Load(sets, Levels, e) <= Spare[e]
        BY <1>2 DEF Candidate, Fits
    <2>5. remaining[e] = Spare[e] - Load(old, L, e)
        BY <1>3, <1>4 DEF RemainingAccounts
    <2>6. /\ Load(sets, K, e) \in Nat /\ Load(sets, L, e) \in Nat /\ Load(sets, Levels, e) \in Nat
          /\ Demand(sets[level], e) \in Nat /\ Spare[e] \in Nat
        BY <1>6, <1>7, <1>9, LoadType, DemandType, AssignmentAssumption
    <2>7. QED
        BY <2>1, <2>2, <2>3, <2>4, <2>5, <2>6
<1>11. DOMAIN Usage[sets[level]] \subseteq Edges
    BY <1>9, AssignmentAssumption
<1>12. FitsIn(sets[level], remaining)
    BY <1>10, <1>11 DEF FitsIn, Demand
<1>13. QED
    BY <1>9, <1>12 DEF Fitting

\* What has not been tried at a level.
LEMMA NotTried ==
    ASSUME Shape, pc = "search", level \in Levels, NEW c, Candidate(c),
           ~(started[level] /\ c[level] <= choice[level])
    PROVE  c[level] \in Untried
<1>1. c[level] \in DOMAIN alternatives[level] /\ alternatives[level] \in Seq(Sets)
    BY DEF Candidate, Valid, Shape, TypeOK
<1>2. choice[level] \in Nat /\ started[level] \in BOOLEAN
    BY DEF Shape, TypeOK
<1>3. c[level] \in 1..Len(alternatives[level]) /\ Len(alternatives[level]) \in Nat
    BY <1>1
<1>4. QED
    BY <1>2, <1>3 DEF Untried

\* What is beaten stays so, while neither the lists nor the best change.
LEMMA BeatenStays ==
    ASSUME NEW c, UNCHANGED <<alternatives, best>>
    PROVE  Beaten(c)' <=> Beaten(c)
BY DEF Beaten, Chosen, After, Levels, Edges

\* Going down passes only what does not fit.
LEMMA CoveredDescend ==
    ASSUME Shape, RemainingAccounts, Covered, Descend
    PROVE  Covered'
<1>1. LogicalEdges \in Nat /\ Levels = 1..LogicalEdges /\ Levels' = Levels
    BY LevelsFinite DEF Levels
<1>2. /\ pc = "search" /\ level \in Levels /\ level' = level + 1 /\ Fitting # {}
      /\ UNCHANGED <<alternatives, best>>
    BY DEF Descend, Searching, analysis
<1>3. PICK m : m = Min(Fitting)
    OBVIOUS
<1>4. m \in Fitting /\ m \in Nat /\ \A i \in Fitting : m <= i
    <2>1. m \in Fitting /\ Fitting \subseteq Untried /\ Untried \subseteq DOMAIN alternatives[level]
        BY <1>2, <1>3, FittingType
    <2>2. alternatives[level] \in Seq(Sets) /\ \A i \in Fitting : m <= i
        BY <1>2, <1>3, FittingType
    <2>3. QED
        BY <2>1, <2>2
<1>5. /\ choice' = [choice EXCEPT ![level] = m] /\ started' = [started EXCEPT ![level] = TRUE]
      /\ choice \in [Levels -> Nat \ {0}] /\ started \in [Levels -> BOOLEAN]
    BY <1>3 DEF Descend, Shape, TypeOK
<1>6. \A l \in Levels : (l < level => started[l]) /\ (l > level => ~started[l])
    BY <1>2 DEF Covered
<1>7. \A l \in Levels : (l < level' => started'[l]) /\ (l > level' => ~started'[l])
    <2>1. ASSUME NEW l \in Levels
          PROVE  /\ l < level' => l < level \/ l = level
                 /\ l > level' => l > level /\ l # level
        BY <1>1, <1>2
    <2>2. QED
        BY <1>2, <1>5, <1>6, <2>1
<1>8. ASSUME NEW c, Candidate(c), Passed(c, level', choice', started')
      PROVE  Beaten(c)
    <2>1. c \in [Levels -> Nat \ {0}]
        BY <1>8 DEF Candidate
    <2>2. \/ Passed(c, level, choice, started)
          \/ /\ \A i \in 1..(level - 1) : c[i] = choice[i]
             /\ c[level] < m /\ ~(started[level] /\ c[level] <= choice[level])
        BY <1>2, <1>4, <1>5, <1>6, <1>8, <2>1, PassedDown
    <2>3. CASE Passed(c, level, choice, started)
        BY <1>2, <1>8, <2>3 DEF Covered
    <2>4. CASE /\ \A i \in 1..(level - 1) : c[i] = choice[i]
               /\ c[level] < m /\ ~(started[level] /\ c[level] <= choice[level])
        <3>1. c[level] \in Fitting
            BY <1>2, <1>8, <2>4, NotTried, CandidateFits
        <3>2. m <= c[level] /\ c[level] \in Nat
            BY <1>2, <1>4, <2>1, <3>1
        <3>3. QED
            BY <1>4, <2>4, <3>2
    <2>5. QED
        BY <2>2, <2>3, <2>4
<1>9. ASSUME NEW c, Candidate(c)', Passed(c, level', choice', started')
      PROVE  Beaten(c)'
    <2>1. Candidate(c)
        BY <1>2, <1>9, CandidateStays
    <2>2. Beaten(c)
        BY <1>8, <1>9, <2>1
    <2>3. QED
        BY <1>2, <2>2, BeatenStays
<1>10. QED
    BY <1>1, <1>7, <1>9 DEF Covered, Passed

\* Going back passes only what does not fit.
LEMMA CoveredBacktrack ==
    ASSUME Shape, RemainingAccounts, Covered, Backtrack
    PROVE  Covered'
<1>1. LogicalEdges \in Nat /\ Levels = 1..LogicalEdges /\ Levels' = Levels
    BY LevelsFinite DEF Levels
<1>2. /\ pc = "search" /\ level \in Levels /\ level' = level - 1 /\ Fitting = {}
      /\ UNCHANGED <<alternatives, best>>
    BY DEF Backtrack, Searching, analysis
<1>3. /\ choice' = choice /\ started' = [started EXCEPT ![level] = FALSE]
      /\ choice \in [Levels -> Nat \ {0}] /\ started \in [Levels -> BOOLEAN]
    BY DEF Backtrack, Shape, TypeOK
<1>4. \A l \in Levels : (l < level => started[l]) /\ (l > level => ~started[l])
    BY <1>2 DEF Covered
<1>5. \A l \in Levels : (l < level' => started'[l]) /\ (l > level' => ~started'[l])
    <2>1. ASSUME NEW l \in Levels
          PROVE  /\ l < level' => l < level /\ l # level
                 /\ l > level' => l > level \/ l = level
        BY <1>1, <1>2
    <2>2. QED
        BY <1>2, <1>3, <1>4, <2>1
<1>6. ASSUME NEW c, Candidate(c), Passed(c, level', choice', started')
      PROVE  Beaten(c)
    <2>1. c \in [Levels -> Nat \ {0}]
        BY <1>6 DEF Candidate
    <2>2. \/ Passed(c, level, choice, started)
          \/ /\ \A i \in 1..(level - 1) : c[i] = choice[i]
             /\ ~(started[level] /\ c[level] <= choice[level])
        BY <1>2, <1>3, <1>4, <1>6, <2>1, PassedBack
    <2>3. CASE Passed(c, level, choice, started)
        BY <1>2, <1>6, <2>3 DEF Covered
    <2>4. CASE /\ \A i \in 1..(level - 1) : c[i] = choice[i]
               /\ ~(started[level] /\ c[level] <= choice[level])
        BY <1>2, <1>6, <2>4, NotTried, CandidateFits
    <2>5. QED
        BY <2>2, <2>3, <2>4
<1>7. ASSUME NEW c, Candidate(c)', Passed(c, level', choice', started')
      PROVE  Beaten(c)'
    <2>1. Candidate(c)
        BY <1>2, <1>7, CandidateStays
    <2>2. Beaten(c)
        BY <1>6, <1>7, <2>1
    <2>3. QED
        BY <1>2, <2>2, BeatenStays
<1>8. QED
    BY <1>1, <1>5, <1>7 DEF Covered, Passed

\* A leaf is compared with the best, and the better one stays.
LEMMA CoveredLeaf ==
    ASSUME Shape, RemainingAccounts, BestOK, Covered, Leaf
    PROVE  Covered'
<1>1. LogicalEdges \in Nat /\ Levels = 1..LogicalEdges /\ Levels' = Levels /\ LogicalEdges > 0
    BY LevelsFinite DEF Levels, Shape, Leaf, Searching
<1>2. /\ pc = "search" /\ level = LogicalEdges + 1 /\ level' = LogicalEdges
      /\ UNCHANGED <<choice, started>> /\ UNCHANGED alternatives
      /\ choice \in [Levels -> Nat \ {0}] /\ started \in [Levels -> BOOLEAN]
    BY <1>1 DEF Leaf, Searching, analysis, Shape, TypeOK
<1>3. PICK w : w = Worth(Chosen(choice), After(Chosen(choice)))
    OBVIOUS
<1>4. w \in Worths /\ w = Worth(Chosen(choice), remaining)
    BY <1>3, LeafIsCandidate, CandidateWorth
<1>5. best' = IF best = NoBest \/ global_better(w, best.worth)
              THEN [choice |-> choice, worth |-> w] ELSE best
    BY <1>4 DEF Leaf
<1>6. best' # NoBest
    BY <1>2, <1>4, <1>5, FoundIsBest
<1>7. ASSUME NEW v \in Worths, v = w \/ (best # NoBest /\ ~global_better(v, best.worth))
      PROVE  ~global_better(v, best'.worth)
    <2>1. best # NoBest => best.worth \in Worths
        BY DEF BestOK
    <2>2. CASE best = NoBest
        BY <1>5, <1>7, <2>2, BetterOrder
    <2>3. CASE best # NoBest /\ global_better(w, best.worth)
        <3>1. best'.worth = w
            BY <1>5, <2>3
        <3>2. QED
            BY <1>4, <1>7, <2>1, <2>3, <3>1, BetterOrder
    <2>4. CASE best # NoBest /\ ~global_better(w, best.worth)
        <3>1. best' = best
            BY <1>5, <2>4
        <3>2. QED
            BY <1>7, <2>4, <3>1
    <2>5. QED
        BY <2>2, <2>3, <2>4
<1>8. ASSUME NEW c, Candidate(c), Passed(c, level', choice', started')
      PROVE  ~global_better(Worth(Chosen(c), After(Chosen(c))), best'.worth)
    <2>1. c \in [Levels -> Nat \ {0}]
        BY <1>8 DEF Candidate
    <2>2. Passed(c, level, choice, started) \/ c = choice
        <3>1. Passed(c, LogicalEdges, choice, started)
            BY <1>2, <1>8
        <3>2. Passed(c, LogicalEdges + 1, choice, started) \/ c = choice
            BY <1>1, <1>2, <2>1, <3>1, PassedLeaf
        <3>3. QED
            BY <1>2, <3>2
    <2>3. PICK v \in Worths : v = Worth(Chosen(c), After(Chosen(c)))
        BY <1>8, CandidateWorth
    <2>4. CASE c = choice
        BY <1>3, <1>7, <2>3, <2>4
    <2>5. CASE Passed(c, level, choice, started)
        <3>1. best # NoBest /\ ~global_better(v, best.worth)
            BY <1>2, <1>8, <2>3, <2>5 DEF Covered, Beaten
        <3>2. QED
            BY <1>7, <2>3, <3>1
    <2>6. QED
        BY <2>2, <2>4, <2>5
<1>9. ASSUME NEW c, Candidate(c)', Passed(c, level', choice', started')
      PROVE  Beaten(c)'
    <2>1. Candidate(c)
        BY <1>2, <1>9, CandidateStays
    <2>2. ~global_better(Worth(Chosen(c), After(Chosen(c))), best'.worth)
        BY <1>8, <1>9, <2>1
    <2>3. Chosen(c)' = Chosen(c)
        BY <1>2 DEF Chosen, Levels
    <2>4. QED
        BY <1>6, <2>2, <2>3 DEF Beaten, After, Edges
<1>10. \A l \in Levels : (l < level' => started'[l]) /\ (l > level' => ~started'[l])
    <2>1. \A l \in Levels : (l < level' => l < level) /\ ~(l > level')
        BY <1>1, <1>2
    <2>2. QED
        BY <1>2, <2>1 DEF Covered
<1>11. QED
    BY <1>1, <1>9, <1>10 DEF Covered, Passed

\* Every step keeps the search covered.
LEMMA CoveredStep ==
    ASSUME Shape, RemainingAccounts, BestOK, Covered, [Next]_vars
    PROVE  Covered'
<1>1. CASE pc' # "search"
    BY <1>1 DEF Covered
<1>2. CASE BeginSearch
    <2>1. level' = 1 /\ started' = [l \in Levels |-> FALSE]
        BY <1>2 DEF BeginSearch, Shape, Untouched, search
    <2>2. LogicalEdges \in Nat /\ Levels = 1..LogicalEdges /\ Levels' = Levels
        BY LevelsFinite DEF Levels
    <2>3. \A l \in Levels : ~started'[l] /\ ~(l < level')
        BY <2>1, <2>2
    <2>4. \A c : ~Passed(c, level', choice', started')
        BY <2>1, <2>3 DEF Passed
    <2>5. QED
        BY <2>2, <2>3, <2>4 DEF Covered, Passed
<1>3. CASE Limit \/ UNCHANGED vars
    <2>1. UNCHANGED <<pc, level, choice, started>> /\ UNCHANGED <<alternatives, best>>
        BY <1>3 DEF Limit, vars, analysis, search
    <2>2. ASSUME NEW c, pc = "search", Candidate(c)', Passed(c, level, choice, started)
          PROVE  Beaten(c)'
        <3>1. Candidate(c)
            BY <2>1, <2>2, CandidateStays
        <3>2. Beaten(c)
            BY <2>2, <3>1 DEF Covered
        <3>3. QED
            BY <2>1, <3>2, BeatenStays
    <2>3. QED
        BY <2>1, <2>2 DEF Covered, Passed, Levels
<1>4. CASE (\E s \in Sets : Consider(s)) \/ EndAnalysis \/ FastPath \/ Conclude
           \/ \E exhaustive, certified \in BOOLEAN : EndEdge(exhaustive, certified)
    <2>1. pc' # "search"
        BY <1>4 DEF Consider, EndEdge, EndAnalysis, FastPath, Conclude
    <2>2. QED
        BY <1>1, <2>1
<1>5. QED
    BY <1>2, <1>3, <1>4, CoveredDescend, CoveredBacktrack, CoveredLeaf DEF Next

\* An exhaustive search that has ended has been through every candidate.
LEMMA SearchIsExhaustive ==
    ASSUME Shape, Lists, Covered, Conclude, ~limited, AllSetsExhaustive, NothingDropped,
           NEW f \in FeasibleAssignments
    PROVE  best # NoBest /\ ~global_better(Worth(f, After(f)), best.worth)
<1>1. pc = "search" /\ level = 0
    BY DEF Conclude
<1>2. PICK c : Candidate(c) /\ Chosen(c) = f
    BY FeasibleIsCandidate
<1>3. Passed(c, level, choice, started)
    BY <1>1 DEF Passed
<1>4. Beaten(c)
    BY <1>1, <1>2, <1>3 DEF Covered
<1>5. QED
    BY <1>2, <1>4 DEF Beaten

\* Every step keeps the claims of infeasibility right.
LEMMA DeniedStep ==
    ASSUME Shape, Lists, Covered, Denied, [Next]_vars
    PROVE  Denied'
<1>1. CASE \E exhaustive, certified \in BOOLEAN : EndEdge(exhaustive, certified)
    BY <1>1, DeniedEndEdge
<1>2. CASE UNCHANGED <<problem, denials>>
    <2>1. NothingDropped' <=> NothingDropped
        BY <1>2, DroppedStays
    <2>2. FeasibleAssignments' = FeasibleAssignments
        BY <1>2 DEF FeasibleAssignments, Levels, Edges
    <2>3. QED
        BY <1>2, <2>1, <2>2 DEF Denied
<1>3. CASE Conclude
    <2>1. UNCHANGED problem
        BY <1>3 DEF Conclude
    <2>2. NothingDropped' <=> NothingDropped
        BY <2>1, DroppedStays
    <2>3. FeasibleAssignments' = FeasibleAssignments
        BY <2>1 DEF FeasibleAssignments, Levels, Edges
    <2>4. CASE best # NoBest
        <3>1. UNCHANGED denials
            BY <1>3, <2>4 DEF Conclude
        <3>2. QED
            BY <1>2, <2>1, <3>1
    <2>5. CASE best = NoBest /\ ~limited /\ AllSetsExhaustive
        <3>1. NothingDropped => FeasibleAssignments = {}
            BY <1>3, <2>5, SearchIsExhaustive
        <3>2. QED
            BY <2>2, <2>3, <3>1 DEF Denied
    <2>6. CASE best = NoBest /\ ~(~limited /\ AllSetsExhaustive)
        <3>1. denials' = {"limit"}
            BY <1>3, <2>6 DEF Conclude
        <3>2. QED
            BY <3>1 DEF Denied
    <2>7. QED
        BY <2>4, <2>5, <2>6
<1>4. CASE \/ \E s \in Sets : Consider(s)
           \/ EndAnalysis \/ FastPath \/ BeginSearch \/ Leaf \/ Limit \/ Descend \/ Backtrack
           \/ UNCHANGED vars
    <2>1. UNCHANGED <<problem, denials>>
        BY <1>4 DEF Consider, EndAnalysis, FastPath, BeginSearch, Leaf, Limit, Descend, Backtrack,
                    vars
    <2>2. QED
        BY <1>2, <2>1
<1>5. QED
    BY <1>1, <1>3, <1>4 DEF Next

\* Nothing is found, passed or denied in the beginning.
LEMMA InitSearch == Init => RemainingAccounts /\ BestOK /\ Covered /\ Denied
BY DEF Init, RemainingAccounts, BestOK, Covered, Denied

\* Where offer_set dropped nothing, a denial that claims infeasibility is right: the request
\* has no assignment.
THEOREM DenialsAreProofs == Spec => []DenialIsProof
<1>1. Denied => DenialIsProof
    BY DEF Denied, DenialIsProof, ProvenInfeasible
<1>2. QED
    BY <1>1, InitShape, InitLists, InitSearch, ShapeStep, BookStep, BestStep, ListsStep,
       CoveredStep, DeniedStep, PTL DEF Spec

-----------------------------------------------------------------------------
(* The optimum *)

\* The worth of one set is its cost, its conflicts and its dearest path.
LEMMA OwnOf ==
    ASSUME NEW s \in Sets
    PROVE  /\ OwnWorth(s).total = Saturate(Cost[s])
           /\ OwnWorth(s).conflicts = Conflicts[s]
           /\ OwnWorth(s).max = MaxPathCost[s]
<1>1. /\ Cost[s] \in Nat /\ Conflicts[s] \in Nat /\ MaxPathCost[s] \in Nat
      /\ IsFiniteSet({1})
    BY AssignmentAssumption, FS_Singleton
<1>2. PICK sets : sets = <<s>>
    OBVIOUS
<1>3. DOMAIN sets = {1} /\ sets[1] = s
    BY <1>2
<1>4. SumOver([l \in DOMAIN sets |-> Cost[sets[l]]]) = Cost[s]
    <2>1. PICK g : g = [l \in DOMAIN sets |-> Cost[sets[l]]]
        OBVIOUS
    <2>2. DOMAIN g = {1} /\ g[1] = Cost[s]
        BY <1>3, <2>1
    <2>3. QED
        BY <1>1, <2>1, <2>2, SumIsTotal, TotalOne
<1>5. SumOver([l \in DOMAIN sets |-> Conflicts[sets[l]]]) = Conflicts[s]
    <2>1. PICK g : g = [l \in DOMAIN sets |-> Conflicts[sets[l]]]
        OBVIOUS
    <2>2. DOMAIN g = {1} /\ g[1] = Conflicts[s]
        BY <1>3, <2>1
    <2>3. QED
        BY <1>1, <2>1, <2>2, SumIsTotal, TotalOne
<1>6. Max({MaxPathCost[sets[l]] : l \in DOMAIN sets}) = MaxPathCost[s]
    <2>1. {MaxPathCost[sets[l]] : l \in DOMAIN sets} = {MaxPathCost[s]}
        BY <1>3
    <2>2. MaxPathCost[s] >= MaxPathCost[s]
        BY <1>1
    <2>3. QED
        BY <2>1, <2>2 DEF Max
<1>7. DOMAIN sets # {}
    BY <1>3
<1>8. QED
    BY <1>2, <1>4, <1>5, <1>6, <1>7 DEF OwnWorth, Worth

\* A set that comes after h in the order, where the cost of h is not saturated, costs as much
\* or more, then conflicts as much or more, then has as dear a path.
LEMMA AfterHead ==
    ASSUME NEW h \in Sets, NEW s \in Sets, ~path_set_less(s, h), Cost[h] < CostCeiling
    PROVE  /\ Cost[h] <= Cost[s]
           /\ Cost[h] = Cost[s] => Conflicts[h] <= Conflicts[s]
           /\ Cost[h] = Cost[s] /\ Conflicts[h] = Conflicts[s] => MaxPathCost[h] <= MaxPathCost[s]
<1>1. /\ Cost[h] \in Nat /\ Conflicts[h] \in Nat /\ MaxPathCost[h] \in Nat
      /\ Cost[s] \in Nat /\ Conflicts[s] \in Nat /\ MaxPathCost[s] \in Nat
      /\ CostCeiling \in Nat
    BY AssignmentAssumption
<1>2. ~CheaperOrSafer(OwnWorth(s), OwnWorth(h))
    BY DEF path_set_less, global_better
<1>3. Saturate(Cost[h]) = Cost[h] /\ Saturate(Cost[s]) \in Nat
    BY <1>1 DEF Saturate
<1>4. /\ ~(Saturate(Cost[s]) < Cost[h])
      /\ ~(Saturate(Cost[s]) = Cost[h] /\ Conflicts[s] < Conflicts[h])
      /\ ~(Saturate(Cost[s]) = Cost[h] /\ Conflicts[s] = Conflicts[h]
             /\ MaxPathCost[s] < MaxPathCost[h])
    BY <1>2, <1>3, OwnOf DEF CheaperOrSafer
<1>5. QED
    BY <1>1, <1>3, <1>4 DEF Saturate

\* Where a level takes for each set of f one that comes before it, and their cost together
\* is not saturated, f is neither cheaper nor safer.
LEMMA FirstIsCheapest ==
    ASSUME NEW h \in [Levels -> Sets], NEW f \in [Levels -> Sets],
           \A l \in Levels : ~path_set_less(f[l], h[l]),
           NEW x, NEW y, Worth(h, x).total < CostCeiling
    PROVE  ~CheaperOrSafer(Worth(f, y), Worth(h, x))
<1>1. IsFiniteSet(Levels) /\ CostCeiling \in Nat
    BY LevelsFinite, AssignmentAssumption
<1>2. \A s \in Sets : Cost[s] \in Nat /\ Conflicts[s] \in Nat /\ MaxPathCost[s] \in Nat
    BY AssignmentAssumption
<1>3. PICK hc : hc = [l \in Levels |-> Cost[h[l]]]
    OBVIOUS
<1>4. PICK fc : fc = [l \in Levels |-> Cost[f[l]]]
    OBVIOUS
<1>5. PICK hk : hk = [l \in Levels |-> Conflicts[h[l]]]
    OBVIOUS
<1>6. PICK fk : fk = [l \in Levels |-> Conflicts[f[l]]]
    OBVIOUS
<1>7. /\ \A l \in Levels : hc[l] = Cost[h[l]] /\ fc[l] = Cost[f[l]]
      /\ \A l \in Levels : hc[l] \in Nat /\ fc[l] \in Nat
      /\ \A l \in Levels : hk[l] = Conflicts[h[l]] /\ fk[l] = Conflicts[f[l]]
      /\ \A l \in Levels : hk[l] \in Nat /\ fk[l] \in Nat
    BY <1>2, <1>3, <1>4, <1>5, <1>6
<1>8. /\ SumOver(hc) = Total(hc, Levels) /\ SumOver(fc) = Total(fc, Levels)
      /\ SumOver(hk) = Total(hk, Levels) /\ SumOver(fk) = Total(fk, Levels)
    BY <1>1, <1>3, <1>4, <1>5, <1>6, SumIsTotal
<1>9. /\ Total(hc, Levels) \in Nat /\ Total(fc, Levels) \in Nat
      /\ Total(hk, Levels) \in Nat /\ Total(fk, Levels) \in Nat
    BY <1>1, <1>7, TotalType
<1>10. DOMAIN h = Levels /\ DOMAIN f = Levels
    OBVIOUS
<1>11. /\ Worth(h, x).total = Saturate(Total(hc, Levels))
       /\ Worth(f, y).total = Saturate(Total(fc, Levels))
       /\ Worth(h, x).conflicts = Total(hk, Levels)
       /\ Worth(f, y).conflicts = Total(fk, Levels)
    BY <1>3, <1>4, <1>5, <1>6, <1>8, <1>10 DEF Worth
<1>12. Total(hc, Levels) < CostCeiling
    BY <1>1, <1>9, <1>11 DEF Saturate
<1>13. ASSUME NEW l \in Levels
       PROVE  /\ hc[l] <= fc[l]
              /\ hc[l] = fc[l] => hk[l] <= fk[l]
              /\ hc[l] = fc[l] /\ hk[l] = fk[l] => MaxPathCost[h[l]] <= MaxPathCost[f[l]]
    <2>1. {l} \subseteq Levels /\ Total(hc, {l}) = hc[l]
        BY <1>7, TotalOne
    <2>2. hc[l] <= Total(hc, Levels)
        BY <1>1, <1>7, <2>1, TotalSubset
    <2>3. Cost[h[l]] < CostCeiling
        BY <1>1, <1>7, <1>9, <1>12, <2>2
    <2>4. h[l] \in Sets /\ f[l] \in Sets /\ ~path_set_less(f[l], h[l])
        OBVIOUS
    <2>5. QED
        BY <1>7, <2>3, <2>4, AfterHead
<1>14. Total(hc, Levels) <= Total(fc, Levels)
    BY <1>1, <1>7, <1>13, TotalMonotone
<1>15. ~(Worth(f, y).total < Worth(h, x).total)
    BY <1>1, <1>9, <1>11, <1>12, <1>14 DEF Saturate
<1>16. CASE Worth(f, y).total = Worth(h, x).total
    <2>1. Total(hc, Levels) = Total(fc, Levels)
        BY <1>1, <1>9, <1>11, <1>12, <1>16 DEF Saturate
    <2>2. \A l \in Levels : hc[l] = fc[l]
        BY <1>1, <1>7, <1>13, <2>1, TotalEqual
    <2>3. \A l \in Levels : hk[l] <= fk[l]
        BY <1>13, <2>2
    <2>4. Total(hk, Levels) <= Total(fk, Levels)
        BY <1>1, <1>7, <2>3, TotalMonotone
    <2>5. ~(Worth(f, y).conflicts < Worth(h, x).conflicts)
        BY <1>9, <1>11, <2>4
    <2>6. CASE Worth(f, y).conflicts = Worth(h, x).conflicts
        <3>1. Total(hk, Levels) = Total(fk, Levels)
            BY <1>11, <2>6
        <3>2. \A l \in Levels : hk[l] = fk[l]
            BY <1>1, <1>7, <2>3, <3>1, TotalEqual
        <3>3. \A l \in Levels : MaxPathCost[h[l]] <= MaxPathCost[f[l]]
            BY <1>13, <2>2, <3>2
        <3>4. ~(Worth(f, y).max < Worth(h, x).max)
            <4>1. CASE Levels = {}
                <5>1. Worth(f, y).max = 0 /\ Worth(h, x).max = 0
                    BY <1>10, <4>1 DEF Worth
                <5>2. QED
                    BY <5>1
            <4>2. CASE Levels # {}
                <5>1. PICK a : a = Max({MaxPathCost[f[l]] : l \in Levels})
                    OBVIOUS
                <5>2. PICK b : b = Max({MaxPathCost[h[l]] : l \in Levels})
                    OBVIOUS
                <5>3. a \in Nat /\ \A l \in Levels : MaxPathCost[f[l]] <= a
                    BY <1>1, <4>2, <5>1, DearestType
                <5>4. b \in Nat /\ b \in {MaxPathCost[h[l]] : l \in Levels}
                    BY <1>1, <4>2, <5>2, DearestType
                <5>5. PICK l \in Levels : b = MaxPathCost[h[l]]
                    BY <5>4
                <5>6. MaxPathCost[h[l]] <= MaxPathCost[f[l]] /\ MaxPathCost[f[l]] <= a
                    BY <3>3, <5>3
                <5>7. MaxPathCost[h[l]] \in Nat /\ MaxPathCost[f[l]] \in Nat
                    BY <1>2
                <5>8. b <= a
                    BY <5>3, <5>5, <5>6, <5>7
                <5>9. Worth(f, y).max = a /\ Worth(h, x).max = b
                    BY <1>10, <4>2, <5>1, <5>2 DEF Worth
                <5>10. QED
                    BY <5>3, <5>4, <5>8, <5>9
            <4>3. QED
                BY <4>1, <4>2
        <3>5. QED
            BY <1>15, <2>5, <3>4 DEF CheaperOrSafer
    <2>7. QED
        BY <1>15, <2>5, <2>6 DEF CheaperOrSafer
<1>17. QED
    BY <1>15, <1>16 DEF CheaperOrSafer

\* An optimum is claimed with the verdict only, and holds.
Claimed == (optimal => pc = "done") /\ OptimalIsCheapest

\* The fast path: every level takes the first of its list.
LEMMA ClaimedFast ==
    ASSUME Shape, Lists, FastPath
    PROVE  Claimed'
<1>1. PICK h : h = Chosen(First)
    OBVIOUS
<1>2. best'.worth = Worth(h, After(h))
    BY <1>1 DEF FastPath
<1>3. /\ UNCHANGED problem /\ (optimal' <=> AllSetsExhaustive) /\ pc' = "done"
      /\ pc = "assign" /\ FirstFit
    BY DEF FastPath
<1>4. NothingDropped' <=> NothingDropped
    BY <1>3, DroppedStays
<1>5. FeasibleAssignments' = FeasibleAssignments
    BY <1>3 DEF FeasibleAssignments, Levels, Edges
<1>6. h \in [Levels -> Sets]
    BY <1>1, <1>3, FirstIsCandidate, ChosenType DEF Candidate
<1>7. ASSUME AllSetsExhaustive, NothingDropped, best'.worth.total < CostCeiling,
             NEW f \in FeasibleAssignments
      PROVE  ~CheaperOrSafer(Worth(f, After(f)), best'.worth)
    <2>1. f \in [Levels -> Sets]
        BY DEF FeasibleAssignments
    <2>2. ASSUME NEW l \in Levels
          PROVE  ~path_set_less(f[l], h[l])
        <3>1. Listed(alternatives[l], problem[l]) /\ HeadIsLeast(alternatives[l])
            BY <1>7 DEF Lists, AllSetsExhaustive
        <3>2. f[l] \in Range(alternatives[l])
            BY <3>1, FeasibleAlone DEF Listed
        <3>3. h[l] = alternatives[l][1]
            BY <1>1 DEF Chosen, First
        <3>4. QED
            BY <3>1, <3>2, <3>3 DEF Range, HeadIsLeast
    <2>3. QED
        BY <1>2, <1>6, <1>7, <2>1, <2>2, FirstIsCheapest
<1>8. ASSUME NEW f
      PROVE  After(f)' = After(f)
    BY DEF After, Edges, Levels
<1>9. OptimalIsCheapest'
    BY <1>3, <1>4, <1>5, <1>7, <1>8 DEF OptimalIsCheapest
<1>10. QED
    BY <1>3, <1>9 DEF Claimed

\* The end of the search.
LEMMA ClaimedConclude ==
    ASSUME Shape, Lists, Covered, Claimed, Conclude
    PROVE  Claimed'
<1>1. UNCHANGED <<problem, best>> /\ pc = "search" /\ pc' = "done"
    BY DEF Conclude, search
<1>2. NothingDropped' <=> NothingDropped
    BY <1>1, DroppedStays
<1>3. FeasibleAssignments' = FeasibleAssignments
    BY <1>1 DEF FeasibleAssignments, Levels, Edges
<1>4. optimal' => ~limited /\ AllSetsExhaustive
    BY <1>1 DEF Conclude, Claimed
<1>5. ASSUME optimal', NothingDropped, NEW f \in FeasibleAssignments
      PROVE  ~CheaperOrSafer(Worth(f, After(f)), best.worth)
    BY <1>4, <1>5, SearchIsExhaustive DEF global_better
<1>6. ASSUME NEW f
      PROVE  After(f)' = After(f)
    BY DEF After, Edges, Levels
<1>7. OptimalIsCheapest'
    BY <1>1, <1>2, <1>3, <1>5, <1>6 DEF OptimalIsCheapest
<1>8. QED
    BY <1>1, <1>7 DEF Claimed

\* Every step keeps the claims of an optimum right.
LEMMA ClaimedStep ==
    ASSUME Shape, Lists, Covered, Claimed, [Next]_vars
    PROVE  Claimed'
<1>1. CASE \/ \E s \in Sets : Consider(s)
           \/ \E exhaustive, certified \in BOOLEAN : EndEdge(exhaustive, certified)
           \/ EndAnalysis \/ BeginSearch \/ Leaf \/ Limit \/ Descend \/ Backtrack
    <2>1. pc # "done" /\ UNCHANGED optimal
        BY <1>1 DEF Consider, EndEdge, EndAnalysis, BeginSearch, Leaf, Limit, Descend, Backtrack,
                    Searching
    <2>2. ~optimal'
        BY <2>1 DEF Claimed
    <2>3. QED
        BY <2>2 DEF Claimed, OptimalIsCheapest
<1>2. CASE UNCHANGED vars
    <2>1. UNCHANGED <<problem, best, optimal, pc>>
        BY <1>2 DEF vars, search
    <2>2. NothingDropped' <=> NothingDropped
        BY <2>1, DroppedStays
    <2>3. FeasibleAssignments' = FeasibleAssignments
        BY <2>1 DEF FeasibleAssignments, Levels, Edges
    <2>4. ASSUME NEW f
          PROVE  After(f)' = After(f)
        BY DEF After, Edges, Levels
    <2>5. QED
        BY <2>1, <2>2, <2>3, <2>4 DEF Claimed, OptimalIsCheapest
<1>3. QED
    BY <1>1, <1>2, ClaimedFast, ClaimedConclude DEF Next

\* Where offer_set dropped nothing and no cost saturated, a plan reported as optimal is beaten
\* by no assignment in cost, in domain conflicts or in its dearest path, on the fast path as
\* after a search.
THEOREM OptimaAreCheapest == Spec => []OptimalIsCheapest
<1>1. Init => Claimed
    BY DEF Init, Claimed, OptimalIsCheapest
<1>2. Claimed => OptimalIsCheapest
    BY DEF Claimed
<1>3. QED
    BY <1>1, <1>2, InitShape, InitLists, InitSearch, ShapeStep, BookStep, BestStep, ListsStep,
       CoveredStep, ClaimedStep, PTL DEF Spec

-----------------------------------------------------------------------------
(* What a list retains *)

\* The list is in order.
Sorted(q) == \A i, j \in DOMAIN q : i < j => path_set_less(q[i], q[j])

\* q is the head of the sorted list of S: only a full list leaves a set of S out, and that
\* set comes after all of q.
Kept(q, S) ==
    /\ Sorted(q) /\ Range(q) \subseteq S /\ Len(q) <= MaxSetAlternatives
    /\ Len(q) < MaxSetAlternatives => S \subseteq Range(q)
    /\ \A s \in S \ Range(q), i \in DOMAIN q : path_set_less(q[i], s)

\* Of two path sets, one comes first.
LEMMA SetOrderTotal ==
    ASSUME NEW s \in Sets, NEW t \in Sets, s # t
    PROVE  path_set_less(s, t) \/ path_set_less(t, s)
<1>1. s \in Int /\ t \in Int
    BY AssignmentAssumption
<1>2. PICK a \in Worths : a = OwnWorth(s)
    BY OwnType
<1>3. PICK b \in Worths : b = OwnWorth(t)
    BY OwnType
<1>4. global_better(a, b) \/ global_better(b, a) \/ a = b
    BY DEF Worths, global_better, CheaperOrSafer
<1>5. s < t \/ t < s
    BY <1>1
<1>6. QED
    BY <1>2, <1>3, <1>4, <1>5 DEF path_set_less

\* In a sorted list, the elements before the place of a newcomer are those that come before
\* it in the order.
LEMMA PlaceSplits ==
    ASSUME NEW q \in Seq(Sets), NEW s \in Sets, Sorted(q), NEW i \in DOMAIN q
    PROVE  path_set_less(q[i], s) <=> i < Place(q, s)
<1>1. PICK P : P = {k \in DOMAIN q : path_set_less(q[k], s)}
    OBVIOUS
<1>2. PICK n : n = Cardinality(P)
    OBVIOUS
<1>3. Place(q, s) = 1 + n /\ P \subseteq 1..Len(q) /\ Len(q) \in Nat
    BY <1>1, <1>2 DEF Place
<1>4. IsFiniteSet(P) /\ n \in Nat
    <2>1. P \in SUBSET (1..Len(q)) /\ IsFiniteSet(1..Len(q))
        BY <1>3, LevelsFinite
    <2>2. IsFiniteSet(P)
        BY <2>1, FS_Subset
    <2>3. QED
        BY <1>2, <2>2, FS_CardinalityType
<1>5. ASSUME NEW k \in DOMAIN q, NEW m \in P, k < m
      PROVE  k \in P
    <2>1. m \in DOMAIN q /\ path_set_less(q[m], s) /\ path_set_less(q[k], q[m])
        BY <1>1, <1>5 DEF Sorted
    <2>2. q[k] \in Sets /\ q[m] \in Sets
        BY <2>1
    <2>3. QED
        BY <1>1, <1>5, <2>1, <2>2, SetOrder
<1>6. ASSUME i \in P
      PROVE  i <= n
    <2>1. i \in 1..Len(q)
        BY <1>3, <1>6
    <2>2. 1..i \in SUBSET P
        <3>1. ASSUME NEW k \in 1..i
              PROVE  k \in P
            <4>1. k \in DOMAIN q /\ (k = i \/ k < i)
                BY <1>3, <2>1
            <4>2. QED
                BY <1>5, <1>6, <4>1
        <3>2. QED
            BY <3>1
    <2>3. Cardinality(1..i) <= n
        BY <1>2, <1>4, <2>2, FS_Subset
    <2>4. Cardinality(1..i) = i
        <3>1. 1 \in Int /\ i \in Int /\ ~(1 > i)
            BY <2>1
        <3>2. Cardinality(1..i) = i - 1 + 1
            BY <3>1, FS_Interval
        <3>3. QED
            BY <3>1, <3>2
    <2>5. QED
        BY <2>3, <2>4
<1>7. ASSUME i \notin P
      PROVE  n < i
    <2>1. i \in 1..Len(q)
        BY <1>3
    <2>2. P \in SUBSET (1..(i - 1))
        <3>1. ASSUME NEW m \in P
              PROVE  m \in 1..(i - 1)
            <4>1. m \in DOMAIN q /\ m \in 1..Len(q)
                BY <1>1, <1>3
            <4>2. ~(i < m) /\ i # m
                BY <1>5, <1>7
            <4>3. QED
                BY <2>1, <4>1, <4>2
        <3>2. QED
            BY <3>1
    <2>3. i - 1 \in Int /\ 1 \in Int
        BY <2>1
    <2>4. /\ IsFiniteSet(1..(i - 1))
          /\ Cardinality(1..(i - 1)) = IF 1 > i - 1 THEN 0 ELSE i - 1 - 1 + 1
        BY <2>3, FS_Interval
    <2>5. Cardinality(1..(i - 1)) = i - 1
        BY <2>1, <2>4
    <2>6. n <= i - 1
        <3>1. IsFiniteSet(1..(i - 1))
            BY <2>4
        <3>2. Cardinality(P) <= Cardinality(1..(i - 1))
            BY <2>2, <3>1, FS_Subset
        <3>3. QED
            BY <1>2, <2>5, <3>2
    <2>7. QED
        BY <1>4, <2>1, <2>6
<1>8. i \in Nat
    BY <1>3
<1>9. i < Place(q, s) <=> i <= n
    BY <1>3, <1>4, <1>8
<1>10. i \in P <=> i <= n
    BY <1>4, <1>6, <1>7, <1>8
<1>11. QED
    BY <1>1, <1>9, <1>10

\* A newcomer put in its place keeps the list in order.
LEMMA InsertSorted ==
    ASSUME NEW q \in Seq(Sets), NEW s \in Sets, s \notin Range(q), Sorted(q)
    PROVE  Sorted(InsertAt(q, Place(q, s), s))
<1>1. PICK p : p = Place(q, s)
    OBVIOUS
<1>2. p \in 1..(Len(q) + 1) /\ Len(q) \in Nat /\ p \in Nat
    BY <1>1, PlaceType
<1>3. PICK g : g = InsertAt(q, p, s)
    OBVIOUS
<1>4. /\ g \in Seq(Sets) /\ Len(g) = Len(q) + 1
      /\ \A i \in 1..(Len(q) + 1) : g[i] = IF i < p THEN q[i] ELSE IF i = p THEN s ELSE q[i - 1]
    <2>1. /\ InsertAt(q, p, s) \in Seq(Sets)
          /\ Len(InsertAt(q, p, s)) = Len(q) + 1
          /\ \A i \in 1..(Len(q) + 1) :
                InsertAt(q, p, s)[i] = IF i < p THEN q[i] ELSE IF i = p THEN s ELSE q[i - 1]
        BY <1>2, InsertShape, SMT
    <2>2. QED
        BY <1>3, <2>1
<1>5. \A i \in DOMAIN q : path_set_less(q[i], s) <=> i < p
    BY <1>1, PlaceSplits
<1>6. ASSUME NEW i \in DOMAIN q, ~(i < p)
      PROVE  path_set_less(s, q[i])
    <2>1. q[i] \in Sets /\ q[i] # s
        BY DEF Range
    <2>2. QED
        BY <1>5, <1>6, <2>1, SetOrderTotal
<1>7. ASSUME NEW i \in 1..(Len(q) + 1), NEW j \in 1..(Len(q) + 1), i < j
      PROVE  path_set_less(g[i], g[j])
    <2>1. CASE j < p
        <3>1. i \in DOMAIN q /\ j \in DOMAIN q /\ g[i] = q[i] /\ g[j] = q[j]
            BY <1>2, <1>4, <1>7, <2>1
        <3>2. QED
            BY <1>7, <3>1 DEF Sorted
    <2>2. CASE j = p
        <3>1. i \in DOMAIN q /\ i < p /\ g[i] = q[i] /\ g[j] = s
            BY <1>2, <1>4, <1>7, <2>2
        <3>2. QED
            BY <1>5, <3>1
    <2>3. CASE j > p
        <3>1. j - 1 \in DOMAIN q /\ g[j] = q[j - 1] /\ ~(j - 1 < p)
            BY <1>2, <1>4, <2>3
        <3>2. CASE i < p
            <4>1. i \in DOMAIN q /\ g[i] = q[i] /\ i < j - 1
                BY <1>2, <1>4, <2>3, <3>2
            <4>2. QED
                BY <3>1, <4>1 DEF Sorted
        <3>3. CASE i = p
            <4>1. g[i] = s
                BY <1>4, <3>3
            <4>2. QED
                BY <1>6, <3>1, <4>1
        <3>4. CASE i > p
            <4>1. i - 1 \in DOMAIN q /\ g[i] = q[i - 1] /\ i - 1 < j - 1
                BY <1>2, <1>4, <1>7, <3>4
            <4>2. QED
                BY <3>1, <4>1 DEF Sorted
        <3>5. QED
            BY <1>2, <3>2, <3>3, <3>4
    <2>4. QED
        BY <1>2, <2>1, <2>2, <2>3
<1>8. DOMAIN g = 1..(Len(q) + 1)
    BY <1>4
<1>9. QED
    BY <1>1, <1>3, <1>7, <1>8 DEF Sorted

\* What is retained of the sets offered so far, and of one more.
LEMMA KeptOffer ==
    ASSUME NEW q \in Seq(Sets), NEW S, S \subseteq Sets, NEW s \in Sets \ S, Kept(q, S)
    PROVE  Kept(offer_set(q, s), S \cup {s})
<1>1. PICK p : p = Place(q, s)
    OBVIOUS
<1>2. /\ p \in 1..(Len(q) + 1) /\ Len(q) \in Nat /\ MaxSetAlternatives \in Nat \ {0}
      /\ Len(q) <= MaxSetAlternatives
    BY <1>1, PlaceType, AssignmentAssumption DEF Kept
<1>3. PICK g : g = InsertAt(q, p, s)
    OBVIOUS
<1>4. g \in Seq(Sets) /\ Len(g) = Len(q) + 1 /\ Range(g) = Range(q) \cup {s}
    BY <1>2, <1>3, InsertShape, InsertRange
<1>5. Sorted(g)
    BY <1>1, <1>3, InsertSorted DEF Kept
<1>6. CASE Len(q) < MaxSetAlternatives
    <2>1. offer_set(q, s) = g
        BY <1>1, <1>3, <1>6, OfferKeeps
    <2>2. Range(q) = S
        BY <1>6 DEF Kept
    <2>3. Range(g) = S \cup {s} /\ Len(g) <= MaxSetAlternatives
        BY <1>2, <1>4, <1>6, <2>2
    <2>4. QED
        BY <1>5, <2>1, <2>3 DEF Kept
<1>7. CASE Len(q) = MaxSetAlternatives
    <2>1. PICK n : n = Len(q)
        OBVIOUS
    <2>2. n \in Nat \ {0} /\ n + 1 \in DOMAIN g /\ n \in DOMAIN q /\ Len(g) = n + 1
        BY <1>2, <1>4, <1>7, <2>1
    <2>3. PICK f : f = Front(g)
        OBVIOUS
    <2>4. offer_set(q, s) = f
        BY <1>1, <1>2, <1>3, <1>4, <1>7, <2>3 DEF offer_set, Place
    <2>5. /\ f \in Seq(Sets) /\ Len(f) = n /\ DOMAIN f = 1..n
          /\ \A i \in 1..n : f[i] = g[i] /\ i \in DOMAIN g /\ i < n + 1
        BY <1>4, <2>2, <2>3 DEF Front
    <2>6. Sorted(f)
        BY <1>5, <2>5 DEF Sorted
    <2>7. Range(f) \subseteq Range(g)
        BY <2>5 DEF Range
    <2>8. ASSUME NEW z \in Range(g) \ Range(f)
          PROVE  z = g[n + 1]
        <3>1. PICK i \in DOMAIN g : z = g[i]
            BY <2>8 DEF Range
        <3>2. i \in 1..(n + 1)
            BY <1>4, <2>2
        <3>3. i \in 1..n \/ i = n + 1
            BY <2>2, <3>2
        <3>4. i \in 1..n => z \in Range(f)
            BY <2>5, <3>1 DEF Range
        <3>5. QED
            BY <2>8, <3>1, <3>3, <3>4
    <2>9. \A i \in DOMAIN f : path_set_less(f[i], g[n + 1])
        BY <1>5, <2>2, <2>5 DEF Sorted
    <2>10. ASSUME NEW u \in S \ Range(q), NEW i \in DOMAIN f
           PROVE  path_set_less(f[i], u)
        <3>1. u \in Sets /\ u # s /\ \A j \in DOMAIN q : path_set_less(q[j], u) /\ q[j] \in Sets
            BY DEF Kept
        <3>2. f[i] \in Range(g) /\ g[n + 1] \in Range(g) /\ g[n + 1] \in Sets /\ f[i] \in Sets
            BY <1>4, <2>2, <2>5 DEF Range
        <3>3. CASE f[i] \in Range(q)
            BY <3>1, <3>3 DEF Range
        <3>4. CASE f[i] = s
            <4>1. g[n + 1] # s
                BY <2>9, <3>2, <3>4, SetOrder
            <4>2. g[n + 1] \in Range(q)
                BY <1>4, <3>2, <4>1
            <4>3. path_set_less(g[n + 1], u)
                BY <3>1, <4>2 DEF Range
            <4>4. path_set_less(f[i], g[n + 1])
                BY <2>9
            <4>5. QED
                BY <3>1, <3>2, <4>3, <4>4, SetOrder
        <3>5. QED
            BY <1>4, <3>2, <3>3, <3>4
    <2>11. ASSUME NEW u \in (S \cup {s}) \ Range(f), NEW i \in DOMAIN f
           PROVE  path_set_less(f[i], u)
        <3>1. CASE u \in Range(g)
            BY <2>8, <2>9, <2>11, <3>1
        <3>2. CASE u \notin Range(g)
            <4>1. u \in S \ Range(q)
                BY <1>4, <2>11, <3>2
            <4>2. QED
                BY <2>10, <4>1
        <3>3. QED
            BY <3>1, <3>2
    <2>12. Range(f) \subseteq S \cup {s}
        BY <1>4, <2>7 DEF Kept
    <2>13. Len(f) = MaxSetAlternatives
        BY <1>7, <2>1, <2>5
    <2>14. ~(Len(f) < MaxSetAlternatives) /\ Len(f) <= MaxSetAlternatives
        BY <1>2, <2>13
    <2>15. QED
        BY <2>4, <2>6, <2>11, <2>12, <2>14 DEF Kept
<1>8. QED
    BY <1>2, <1>6, <1>7

\* The n-th of what is retained has n - 1 sets before it, and as many are retained as there
\* are, up to the bound.
LEMMA KeptRanks ==
    ASSUME NEW q \in Seq(Sets), NEW S, S \subseteq Sets, Kept(q, S)
    PROVE  /\ Len(q) = Min({MaxSetAlternatives, Cardinality(S)})
           /\ \A i \in DOMAIN q : /\ q[i] \in S
                                  /\ Cardinality({s \in S : path_set_less(s, q[i])}) = i - 1
<1>1. /\ Len(q) \in Nat /\ DOMAIN q = 1..Len(q) /\ MaxSetAlternatives \in Nat
      /\ Len(q) <= MaxSetAlternatives
    BY AssignmentAssumption DEF Kept
<1>2. IsFiniteSet(S) /\ Cardinality(S) \in Nat
    <2>1. IsFiniteSet(S)
        BY AssignmentAssumption, FS_Subset
    <2>2. QED
        BY <2>1, FS_CardinalityType
<1>3. \A i \in DOMAIN q : q[i] \in Sets /\ q[i] \in S
    BY DEF Kept, Range
<1>4. ASSUME NEW i \in DOMAIN q, NEW j \in DOMAIN q
      PROVE  path_set_less(q[i], q[j]) <=> i < j
    <2>1. CASE i < j
        BY <2>1 DEF Kept, Sorted
    <2>2. CASE j < i
        <3>1. path_set_less(q[j], q[i])
            BY <2>2 DEF Kept, Sorted
        <3>2. ~path_set_less(q[i], q[j])
            BY <1>3, <3>1, SetOrder
        <3>3. ~(i < j)
            BY <1>1, <2>2
        <3>4. QED
            BY <3>2, <3>3
    <2>3. CASE i = j
        <3>1. ~(i < j)
            BY <1>1, <2>3
        <3>2. QED
            BY <1>3, <2>3, <3>1, SetOrder
    <2>4. QED
        BY <1>1, <2>1, <2>2, <2>3
<1>5. ASSUME NEW n \in 0..Len(q)
      PROVE  /\ Cardinality({q[k] : k \in 1..n}) = n
             /\ IsFiniteSet({q[k] : k \in 1..n})
    <2>1. PICK T : T = {q[k] : k \in 1..n}
        OBVIOUS
    <2>2. PICK f : f = [k \in 1..n |-> q[k]]
        OBVIOUS
    <2>3. \A k \in 1..n : k \in DOMAIN q
        BY <1>1
    <2>4. ASSUME NEW i \in 1..n, NEW j \in 1..n, q[i] = q[j]
          PROVE  i = j
        <3>1. i \in DOMAIN q /\ j \in DOMAIN q
            BY <2>3
        <3>2. ~(i < j) /\ ~(j < i)
            BY <1>3, <1>4, <2>4, <3>1, SetOrder
        <3>3. QED
            BY <1>1, <3>1, <3>2
    <2>5. f \in Surjection(1..n, T) /\ f \in Injection(1..n, T)
        BY <2>1, <2>2, <2>4 DEF Surjection, Injection, IsInjective
    <2>6. IsFiniteSet(1..n) /\ Cardinality(1..n) = n
        <3>1. n \in Int /\ 1 \in Int
            OBVIOUS
        <3>2. IsFiniteSet(1..n) /\ Cardinality(1..n) = IF 1 > n THEN 0 ELSE n - 1 + 1
            BY <3>1, FS_Interval
        <3>3. QED
            BY <3>2
    <2>7. IsFiniteSet(T) /\ Cardinality(T) = Cardinality(1..n)
        BY <2>5, <2>6, FS_Surjection
    <2>8. QED
        BY <2>1, <2>6, <2>7
<1>6. ASSUME NEW i \in DOMAIN q
      PROVE  Cardinality({s \in S : path_set_less(s, q[i])}) = i - 1
    <2>1. PICK n : n = i - 1
        OBVIOUS
    <2>2. n \in 0..Len(q) /\ \A k \in DOMAIN q : k < i <=> k \in 1..n
        BY <1>1, <2>1
    <2>3. \A k \in 1..n : k \in DOMAIN q
        BY <1>1, <2>2
    <2>4. ASSUME NEW s \in S, path_set_less(s, q[i])
          PROVE  s \in {q[k] : k \in 1..n}
        <3>1. s \in Range(q)
            <4>1. CASE s \notin Range(q)
                <5>1. path_set_less(q[i], s)
                    BY <4>1 DEF Kept
                <5>2. QED
                    BY <1>3, <2>4, <5>1, SetOrder
            <4>2. QED
                BY <4>1
        <3>2. PICK k \in DOMAIN q : s = q[k]
            BY <3>1 DEF Range
        <3>3. QED
            BY <1>4, <2>2, <2>4, <3>2
    <2>5. ASSUME NEW k \in 1..n
          PROVE  q[k] \in S /\ path_set_less(q[k], q[i])
        BY <1>3, <1>4, <2>2, <2>3
    <2>6. {s \in S : path_set_less(s, q[i])} = {q[k] : k \in 1..n}
        BY <2>4, <2>5
    <2>7. QED
        BY <1>5, <2>1, <2>2, <2>6
<1>7. Range(q) = {q[k] : k \in 1..Len(q)} /\ Range(q) \in SUBSET S
    BY <1>1 DEF Range, Kept
<1>8. Cardinality(Range(q)) = Len(q) /\ Cardinality(Range(q)) <= Cardinality(S)
    <2>1. Len(q) \in 0..Len(q)
        BY <1>1
    <2>2. Cardinality(Range(q)) = Len(q)
        BY <1>5, <1>7, <2>1
    <2>3. QED
        BY <1>2, <1>7, <2>2, FS_Subset
<1>9. Len(q) < MaxSetAlternatives => Len(q) = Cardinality(S)
    <2>1. Len(q) < MaxSetAlternatives => Range(q) = S
        BY <1>7 DEF Kept
    <2>2. QED
        BY <1>8, <2>1
<1>10. Len(q) = Min({MaxSetAlternatives, Cardinality(S)})
    <2>1. PICK c \in Nat : c = Cardinality(S)
        BY <1>2
    <2>2. PICK m \in Nat : m = MaxSetAlternatives
        BY <1>1
    <2>3. PICK n \in Nat : n = Len(q)
        BY <1>1
    <2>4. n <= c /\ n <= m /\ (n < m => n = c)
        BY <1>1, <1>8, <1>9, <2>1, <2>2, <2>3
    <2>5. n \in {m, c} /\ \A y \in {m, c} : n =< y
        BY <2>4
    <2>6. \A z \in {m, c} : (\A y \in {m, c} : z =< y) => z = n
        BY <2>4
    <2>7. Min({m, c}) = n
        BY <2>5, <2>6 DEF Min
    <2>8. QED
        BY <2>1, <2>2, <2>3, <2>7
<1>11. QED
    BY <1>3, <1>6, <1>10

\* The list under analysis is the head of what has been offered to it.
Retained == edge \in Levels => Kept(alternatives[edge], Admissible(seen))

\* The empty list retains nothing.
LEMMA EmptyKept == Kept(<<>>, Admissible({}))
<1>1. Admissible({}) = {} /\ Range(<<>>) = {} /\ DOMAIN <<>> = {} /\ Len(<<>>) = 0
    BY DEF Admissible, Range
<1>2. 0 <= MaxSetAlternatives
    BY AssignmentAssumption
<1>3. QED
    BY <1>1, <1>2 DEF Kept, Sorted

\* Every step keeps the list under analysis the head of what has been offered.
LEMMA RetainedStep ==
    ASSUME Shape, Lists, Retained, [Next]_vars
    PROVE  Retained'
<1>1. Levels' = Levels
    BY DEF Levels
<1>2. ASSUME NEW s \in Sets, Consider(s)
      PROVE  Retained'
    <2>1. /\ edge \in Levels /\ edge' = edge /\ s \notin seen /\ seen' = seen \cup {s}
          /\ alternatives \in [Levels -> Seq(Sets)] /\ seen \subseteq Sets
        BY <1>2 DEF Consider, Shape, TypeOK
    <2>2. PICK q \in Seq(Sets) : q = alternatives[edge]
        BY <2>1
    <2>3. Kept(q, Admissible(seen))
        BY <2>1, <2>2 DEF Retained
    <2>4. CASE FitsIn(s, Spare)
        <3>1. Admissible(seen \cup {s}) = Admissible(seen) \cup {s}
            BY <2>4 DEF Admissible
        <3>2. Admissible(seen) \subseteq Sets /\ s \in Sets \ Admissible(seen)
            BY <2>1 DEF Admissible
        <3>3. Kept(offer_set(q, s), Admissible(seen \cup {s}))
            <4>1. PICK S : S = Admissible(seen)
                OBVIOUS
            <4>2. S \subseteq Sets /\ s \in Sets \ S /\ Kept(q, S)
                BY <2>3, <3>2, <4>1
            <4>3. Kept(offer_set(q, s), S \cup {s})
                BY <4>2, KeptOffer
            <4>4. QED
                BY <3>1, <4>1, <4>3
        <3>4. alternatives'[edge'] = offer_set(q, s)
            BY <1>2, <2>1, <2>2, <2>4 DEF Consider
        <3>5. Kept(alternatives'[edge'], Admissible(seen'))
            BY <2>1, <3>3, <3>4
        <3>6. QED
            BY <3>5 DEF Retained, Kept, Admissible, Sorted
    <2>5. CASE ~FitsIn(s, Spare)
        <3>1. Admissible(seen \cup {s}) = Admissible(seen)
            BY <2>5 DEF Admissible
        <3>2. alternatives'[edge'] = q
            BY <1>2, <2>1, <2>2, <2>5 DEF Consider
        <3>3. Kept(alternatives'[edge'], Admissible(seen'))
            BY <2>1, <2>3, <3>1, <3>2
        <3>4. QED
            BY <3>3 DEF Retained, Kept, Admissible, Sorted
    <2>6. QED
        BY <2>4, <2>5
<1>3. ASSUME NEW exhaustive \in BOOLEAN, NEW certified \in BOOLEAN, EndEdge(exhaustive, certified)
      PROVE  Retained'
    <2>1. edge \in Levels /\ seen' = {} /\ alternatives' = alternatives
        BY <1>3 DEF EndEdge
    <2>2. edge' = LogicalEdges + 1 \/ edge' = edge + 1
        BY <1>3 DEF EndEdge
    <2>3. edge' \in Levels => edge' > edge
        BY <2>1, <2>2, LevelsFinite
    <2>4. edge' \in Levels => alternatives'[edge'] = <<>>
        BY <2>1, <2>3 DEF Lists
    <2>5. edge' \in Levels => Kept(alternatives'[edge'], Admissible(seen'))
        BY <2>1, <2>4, EmptyKept
    <2>6. QED
        BY <1>1, <2>5 DEF Retained, Kept, Admissible, Sorted
<1>4. CASE EndAnalysis \/ FastPath \/ BeginSearch \/ Leaf \/ Limit \/ Descend \/ Backtrack
           \/ Conclude \/ UNCHANGED vars
    <2>1. UNCHANGED <<edge, seen, alternatives>>
        BY <1>4 DEF EndAnalysis, FastPath, BeginSearch, Leaf, Limit, Descend, Backtrack, Conclude,
                    vars, analysis
    <2>2. QED
        BY <1>1, <2>1 DEF Retained, Kept, Admissible, Sorted
<1>5. QED
    BY <1>2, <1>3, <1>4 DEF Next

\* However the sets of a logical edge are discovered, what is retained of them is the head of
\* their one sorted list.
THEOREM BestAreKept == Spec => []KeepsBest
<1>1. Init => Retained
    <2>1. ASSUME Init, edge \in Levels
          PROVE  alternatives[edge] = <<>> /\ seen = {}
        BY <2>1 DEF Init
    <2>2. QED
        BY <2>1, EmptyKept DEF Retained
<1>2. Shape /\ Retained => KeepsBest
    <2>1. SUFFICES ASSUME Shape, Retained, edge \in Levels
                   PROVE  KeepsBest
        BY DEF KeepsBest
    <2>2. PICK q \in Seq(Sets) : q = alternatives[edge]
        BY <2>1 DEF Shape, TypeOK
    <2>3. PICK S : S = Admissible(seen)
        OBVIOUS
    <2>4. S \subseteq Sets /\ Kept(q, S) /\ S = {s \in seen : FitsIn(s, Spare)}
        BY <2>1, <2>2, <2>3 DEF Shape, TypeOK, Retained, Admissible
    <2>5. /\ Len(q) = Min({MaxSetAlternatives, Cardinality(S)})
          /\ \A i \in DOMAIN q : /\ q[i] \in S
                                 /\ Cardinality({s \in S : path_set_less(s, q[i])}) = i - 1
        BY <2>4, KeptRanks
    <2>6. QED
        BY <2>2, <2>4, <2>5 DEF KeepsBest
<1>3. QED
    BY <1>1, <1>2, InitShape, InitLists, ShapeStep, ListsStep, RetainedStep, PTL DEF Spec

=============================================================================
