--------------------------- MODULE PlanningProofs ---------------------------
(***************************************************************************)
(* Proofs about planning from end to end, for every set of inputs: the     *)
(* inductive invariant, the types and budgets of the planner, the soundness*)
(* of what is accepted, and that a plan of the planner itself is one that  *)
(* validate_plan accepts.                                                  *)
(***************************************************************************)
EXTENDS PlanningLemmas

-----------------------------------------------------------------------------
(* The enumeration *)

\* A sequence without its last element.
LEMMA FrontIs ==
    ASSUME NEW X, NEW s \in Seq(X), s # <<>>
    PROVE  /\ Len(s) \in Nat \ {0}
           /\ Front(s) \in Seq(X) /\ Len(Front(s)) = Len(s) - 1 /\ DOMAIN Front(s) = 1..(Len(s) - 1)
           /\ \A i \in 1..(Len(s) - 1) : Front(s)[i] = s[i]
           /\ Last(s) \in X /\ Last(s) = s[Len(s)]
<1>1. PICK n \in Nat \ {0} : n = Len(s)
    BY EmptySeq
<1>2. \A i \in 1..n : s[i] \in X
    BY <1>1, ElementOfSeq
<1>3. \A i \in 1..(n - 1) : s[i] \in X
    BY <1>2
<1>4. /\ SubSeq(s, 1, n - 1) \in Seq(X)
      /\ Len(SubSeq(s, 1, n - 1)) = IF 1 <= n - 1 THEN (n - 1) - 1 + 1 ELSE 0
      /\ \A i \in 1..((n - 1) - 1 + 1) : SubSeq(s, 1, n - 1)[i] = s[1 + i - 1]
    BY <1>3, SubSeqProperties
<1>5. PICK f : f = Front(s)
    OBVIOUS
<1>6. f \in Seq(X) /\ Len(f) = n - 1 /\ \A i \in 1..(n - 1) : f[i] = s[i]
    BY <1>1, <1>4, <1>5 DEF Front
<1>7. DOMAIN f = 1..(n - 1)
    BY <1>6, LenProperties
<1>8. Last(s) = s[n] /\ n \in 1..n
    BY <1>1 DEF Last
<1>9. QED
    BY <1>1, <1>2, <1>5, <1>6, <1>7, <1>8

\* The first elements of a sequence.
LEMMA PrefixIs ==
    ASSUME NEW X, NEW s \in Seq(X), NEW k \in Nat, k <= Len(s)
    PROVE  /\ SubSeq(s, 1, k) \in Seq(X) /\ Len(SubSeq(s, 1, k)) = k
           /\ DOMAIN SubSeq(s, 1, k) = 1..k
           /\ \A i \in 1..k : SubSeq(s, 1, k)[i] = s[i]
<1>1. Len(s) \in Nat /\ \A i \in 1..Len(s) : s[i] \in X
    BY LenProperties, ElementOfSeq
<1>2. \A i \in 1..k : s[i] \in X
    BY <1>1
<1>3. PICK u : u = SubSeq(s, 1, k)
    OBVIOUS
<1>4. /\ u \in Seq(X)
      /\ Len(u) = IF 1 <= k THEN k - 1 + 1 ELSE 0
      /\ \A i \in 1..(k - 1 + 1) : u[i] = s[1 + i - 1]
    BY <1>2, <1>3, SubSeqProperties
<1>5. Len(u) = k /\ \A i \in 1..k : u[i] = s[i]
    BY <1>4
<1>6. DOMAIN u = 1..k
    BY <1>4, <1>5, LenProperties
<1>7. QED
    BY <1>3, <1>4, <1>5, <1>6

\* Sequences that begin alike have the same first elements.
LEMMA SamePrefix ==
    ASSUME NEW X, NEW s \in Seq(X), NEW t \in Seq(X), NEW k \in Nat, k <= Len(s), k <= Len(t),
           \A i \in 1..k : s[i] = t[i]
    PROVE  SubSeq(s, 1, k) = SubSeq(t, 1, k)
<1>1. PICK u : u = SubSeq(s, 1, k)
    OBVIOUS
<1>2. PICK v : v = SubSeq(t, 1, k)
    OBVIOUS
<1>3. u \in Seq(X) /\ Len(u) = k /\ \A i \in 1..k : u[i] = s[i]
    BY <1>1, PrefixIs
<1>4. v \in Seq(X) /\ Len(v) = k /\ \A i \in 1..k : v[i] = t[i]
    BY <1>2, PrefixIs
<1>5. u = v
    BY <1>3, <1>4, SeqEqual
<1>6. QED
    BY <1>1, <1>2, <1>5

\* The shape of a walk.
LEMMA WalkShape ==
    ASSUME SetupOk, NEW w, Walks(w)
    PROVE  /\ w \in WalkStates
           /\ w.route \in Routes /\ Len(w.route) \in Nat
           /\ w.stack \in Seq(Frames) /\ Len(w.stack) \in Nat /\ DOMAIN w.stack = 1..Len(w.stack)
           /\ w.paths \in Seq(Routes) /\ Len(w.paths) \in Nat /\ DOMAIN w.paths = 1..Len(w.paths)
           /\ w.steps \in Nat /\ w.exhaustive \in BOOLEAN /\ w.limit \in 1..Deepest
           /\ DOMAIN w = {"limit", "stack", "route", "paths", "steps", "exhaustive"}
<1>1. w \in WalkStates
    BY DEF Walks
<1>2. /\ w.route \in Routes /\ w.stack \in Seq(Frames) /\ w.paths \in Seq(Routes)
      /\ w.steps \in Nat /\ w.exhaustive \in BOOLEAN /\ w.limit \in 1..Deepest
      /\ DOMAIN w = {"limit", "stack", "route", "paths", "steps", "exhaustive"}
    BY <1>1 DEF WalkStates
<1>3. QED
    BY <1>1, <1>2, LenProperties DEF Routes

\* A walk that came back from a node.
LEMMA ReturnedWalks ==
    ASSUME SetupOk, NEW w, Walks(w), w.stack # <<>>
    PROVE  Walks(Returned(w)) /\ Returned(w).exhaustive = w.exhaustive
<1>1. PICK v : v = Returned(w)
    OBVIOUS
<1>2. PICK s : s = w.stack
    OBVIOUS
<1>3. PICK r : r = w.route
    OBVIOUS
<1>4. PICK n \in Nat \ {0} : n = Len(s) /\ s \in Seq(Frames) /\ DOMAIN s = 1..n
    BY <1>2, WalkShape, EmptySeq
<1>5. r \in Seq(Edges) /\ Len(r) = n - 1
    BY <1>2, <1>3, <1>4, WalkShape DEF Walks, Routes
<1>6. PICK t : t = Front(s)
    OBVIOUS
<1>7. t \in Seq(Frames) /\ Len(t) = n - 1 /\ DOMAIN t = 1..(n - 1) /\ \A i \in 1..(n - 1) : t[i] = s[i]
    <2>1. s # <<>>
        BY <1>2
    <2>2. QED
        BY <1>4, <1>6, <2>1, FrontIs
<1>8. PICK q : q = IF r = <<>> THEN r ELSE Front(r)
    OBVIOUS
<1>9. /\ q \in Seq(Edges)
      /\ n # 1 => Len(q) = n - 2 /\ \A i \in 1..(n - 2) : q[i] = r[i]
    <2>1. CASE r = <<>>
        <3>1. n = 1
            BY <1>5, <2>1, EmptySeq
        <3>2. QED
            BY <1>5, <1>8, <2>1, <3>1
    <2>2. CASE r # <<>>
        <3>1. Front(r) \in Seq(Edges) /\ Len(Front(r)) = (n - 1) - 1 /\ \A i \in 1..((n - 1) - 1) : Front(r)[i] = r[i]
            BY <1>5, <2>2, FrontIs
        <3>2. q = Front(r)
            BY <1>8, <2>2
        <3>3. (n - 1) - 1 = n - 2
            OBVIOUS
        <3>4. QED
            BY <3>1, <3>2, <3>3
    <2>3. QED
        BY <2>1, <2>2
<1>10. /\ v.stack = t /\ v.route = q /\ v.paths = w.paths /\ v.limit = w.limit
       /\ v.steps = w.steps /\ v.exhaustive = w.exhaustive
       /\ v \in WalkStates
    <2>1. v = [w EXCEPT !.stack = t, !.route = q]
        BY <1>1, <1>2, <1>3, <1>6, <1>8 DEF Returned
    <2>2. w \in WalkStates
        BY WalkShape
    <2>3. q \in Routes
        BY <1>9 DEF Routes
    <2>4. QED
        BY <1>7, <2>1, <2>2, <2>3 DEF WalkStates
<1>11. v.stack = <<>> \/ Len(v.stack) = Len(v.route) + 1
    <2>1. CASE n = 1
        BY <1>7, <1>10, <2>1, EmptySeq
    <2>2. CASE n # 1
        BY <1>7, <1>9, <1>10, <2>2
    <2>3. QED
        BY <2>1, <2>2
<1>12. ASSUME NEW k \in DOMAIN v.stack
       PROVE  /\ Track(edge, SubSeq(v.route, 1, k - 1), v.stack[k].node)
              /\ v.stack[k].cost = RouteCost(SubSeq(v.route, 1, k - 1))
    <2>1. k \in 1..(n - 1) /\ k \in DOMAIN w.stack /\ v.stack[k] = w.stack[k]
        BY <1>2, <1>4, <1>7, <1>10
    <2>2. n # 1 /\ k - 1 \in Nat /\ k - 1 <= n - 2 /\ k - 1 <= n - 1
        BY <2>1
    <2>3. \A i \in 1..(k - 1) : i \in 1..(n - 2)
        BY <2>2
    <2>4. SubSeq(q, 1, k - 1) = SubSeq(r, 1, k - 1)
        <3>1. \A i \in 1..(k - 1) : q[i] = r[i]
            BY <1>9, <2>2, <2>3
        <3>2. k - 1 <= Len(q) /\ k - 1 <= Len(r)
            BY <1>5, <1>9, <2>2
        <3>3. QED
            BY <1>5, <1>9, <2>2, <3>1, <3>2, SamePrefix
    <2>5. /\ Track(edge, SubSeq(w.route, 1, k - 1), w.stack[k].node)
          /\ w.stack[k].cost = RouteCost(SubSeq(w.route, 1, k - 1))
        BY <2>1 DEF Walks
    <2>6. QED
        BY <1>3, <1>10, <2>1, <2>4, <2>5
<1>13. Len(v.paths) <= limits.max_exhaustive_paths + 1 /\ \A i \in DOMAIN v.paths : Track(edge, v.paths[i], Upto(edge).node)
    BY <1>10 DEF Walks
<1>14. Walks(v)
    BY <1>10, <1>11, <1>12, <1>13 DEF Walks
<1>15. QED
    BY <1>1, <1>10, <1>14

\* A walk that looked at one more edge.
LEMMA AdvancedWalks ==
    ASSUME SetupOk, NEW w, Walks(w), w.stack # <<>>
    PROVE  LET v == Advanced(w) IN
           /\ Walks(v) /\ v.exhaustive = w.exhaustive /\ v.route = w.route /\ v.paths = w.paths
           /\ v.stack # <<>> /\ Len(v.stack) = Len(w.stack)
<1>1. PICK v : v = Advanced(w)
    OBVIOUS
<1>2. PICK s : s = w.stack
    OBVIOUS
<1>3. PICK n \in Nat \ {0} : n = Len(s) /\ s \in Seq(Frames) /\ DOMAIN s = 1..n
    BY <1>2, WalkShape, EmptySeq
<1>4. PICK f : f = [s[n] EXCEPT !.at = @ + 1]
    OBVIOUS
<1>5. s[n] \in Frames
    BY <1>3, ElementOfSeq
<1>6. f \in Frames /\ f.node = s[n].node /\ f.cost = s[n].cost
    BY <1>4, <1>5 DEF Frames
<1>7. PICK t : t = [s EXCEPT ![n] = f]
    OBVIOUS
<1>8. t \in Seq(Frames) /\ Len(t) = n /\ \A j \in 1..n : t[j] = IF j = n THEN f ELSE s[j]
    <2>1. n \in 1..Len(s)
        BY <1>3
    <2>2. QED
        BY <1>3, <1>6, <1>7, <2>1, ExceptSeq
<1>9. /\ v.stack = t /\ v.route = w.route /\ v.paths = w.paths /\ v.limit = w.limit
      /\ v.exhaustive = w.exhaustive
      /\ v \in WalkStates
    <2>1. PICK m \in Nat : m = w.steps + 1
        BY WalkShape
    <2>2. v = [w EXCEPT !.stack = t, !.steps = m]
        BY <1>1, <1>2, <1>3, <1>4, <1>7, <2>1 DEF Advanced
    <2>3. w \in WalkStates
        BY WalkShape
    <2>4. QED
        BY <1>8, <2>2, <2>3 DEF WalkStates
<1>10. DOMAIN t = 1..n /\ t # <<>>
    BY <1>3, <1>8, LenProperties, EmptySeq
<1>11. v.stack = <<>> \/ Len(v.stack) = Len(v.route) + 1
    BY <1>2, <1>3, <1>8, <1>9 DEF Walks
<1>12. ASSUME NEW k \in DOMAIN v.stack
       PROVE  /\ Track(edge, SubSeq(v.route, 1, k - 1), v.stack[k].node)
              /\ v.stack[k].cost = RouteCost(SubSeq(v.route, 1, k - 1))
    <2>1. k \in 1..n /\ k \in DOMAIN w.stack
        BY <1>2, <1>3, <1>9, <1>10
    <2>2. v.stack[k].node = w.stack[k].node /\ v.stack[k].cost = w.stack[k].cost
        BY <1>2, <1>6, <1>8, <1>9, <2>1
    <2>3. /\ Track(edge, SubSeq(w.route, 1, k - 1), w.stack[k].node)
          /\ w.stack[k].cost = RouteCost(SubSeq(w.route, 1, k - 1))
        BY <2>1 DEF Walks
    <2>4. QED
        BY <1>9, <2>2, <2>3
<1>13. Len(v.paths) <= limits.max_exhaustive_paths + 1 /\ \A i \in DOMAIN v.paths : Track(edge, v.paths[i], Upto(edge).node)
    BY <1>9 DEF Walks
<1>14. Walks(v)
    BY <1>9, <1>11, <1>12, <1>13 DEF Walks
<1>15. QED
    BY <1>1, <1>2, <1>3, <1>8, <1>9, <1>10, <1>14

\* A walk that found one more route to the target.
LEMMA FoundWalks ==
    ASSUME SetupOk, NEW w, Walks(w), Len(w.paths) <= limits.max_exhaustive_paths,
           NEW p, Track(edge, p, Upto(edge).node), NEW v, v = [w EXCEPT !.paths = Append(@, p)]
    PROVE  Walks(v) /\ v.exhaustive = w.exhaustive
<1>1. PICK q : q = w.paths
    OBVIOUS
<1>2. PICK n \in Nat : n = Len(q) /\ q \in Seq(Routes) /\ DOMAIN q = 1..n
    BY <1>1, WalkShape
<1>3. p \in Routes
    BY DEF Track
<1>4. PICK u : u = Append(q, p)
    OBVIOUS
<1>5. /\ u \in Seq(Routes) /\ Len(u) = n + 1 /\ DOMAIN u = 1..(n + 1)
      /\ u[n + 1] = p /\ \A i \in 1..n : u[i] = q[i]
    BY <1>2, <1>3, <1>4, AppendIs
<1>6. /\ v.paths = u /\ v.route = w.route /\ v.stack = w.stack /\ v.limit = w.limit
      /\ v.exhaustive = w.exhaustive
      /\ v \in WalkStates
    <2>1. v = [w EXCEPT !.paths = u]
        BY <1>1, <1>4
    <2>2. w \in WalkStates
        BY WalkShape
    <2>3. QED
        BY <1>5, <2>1, <2>2 DEF WalkStates
<1>7. ASSUME NEW i \in DOMAIN v.paths PROVE Track(edge, v.paths[i], Upto(edge).node)
    <2>1. CASE i = n + 1
        BY <1>5, <1>6, <2>1
    <2>2. CASE i # n + 1
        <3>1. i \in 1..n /\ i \in DOMAIN w.paths
            BY <1>1, <1>2, <1>5, <1>6, <2>2
        <3>2. QED
            BY <1>1, <1>5, <1>6, <3>1 DEF Walks
    <2>3. QED
        BY <2>1, <2>2
<1>8. Len(v.paths) <= limits.max_exhaustive_paths + 1
    BY <1>1, <1>2, <1>5, <1>6, SetupFacts
<1>9. /\ v.stack = <<>> \/ Len(v.stack) = Len(v.route) + 1
      /\ \A k \in DOMAIN v.stack :
          /\ Track(edge, SubSeq(v.route, 1, k - 1), v.stack[k].node)
          /\ v.stack[k].cost = RouteCost(SubSeq(v.route, 1, k - 1))
    BY <1>6 DEF Walks
<1>10. QED
    BY <1>6, <1>7, <1>8, <1>9 DEF Walks

\* A walk that went one edge further.
LEMMA DeeperWalks ==
    ASSUME SetupOk, NEW w, Walks(w), w.stack # <<>>, NEW e \in Edges,
           NEW c \in Nat, Edge(e).to \in Int,
           Track(edge, Append(w.route, e), Edge(e).to), c = RouteCost(Append(w.route, e)),
           NEW v,
           v = [w EXCEPT !.stack = Append(@, [node |-> Edge(e).to, at |-> 1, cost |-> c]),
                         !.route = Append(@, e)]
    PROVE  Walks(v) /\ v.exhaustive = w.exhaustive
<1>1. PICK s : s = w.stack
    OBVIOUS
<1>2. PICK r : r = w.route
    OBVIOUS
<1>3. PICK n \in Nat \ {0} : n = Len(s) /\ s \in Seq(Frames) /\ DOMAIN s = 1..n
    BY <1>1, WalkShape, EmptySeq
<1>4. r \in Seq(Edges) /\ Len(r) = n - 1
    <2>1. r \in Routes /\ Len(r) \in Nat
        BY <1>2, WalkShape
    <2>2. n = Len(r) + 1
        BY <1>1, <1>2, <1>3 DEF Walks
    <2>3. QED
        BY <2>1, <2>2 DEF Routes
<1>5. PICK f : f = [node |-> Edge(e).to, at |-> 1, cost |-> c]
    OBVIOUS
<1>6. f \in Frames /\ f.node = Edge(e).to /\ f.cost = c
    BY <1>5 DEF Frames
<1>7. PICK t : t = Append(s, f)
    OBVIOUS
<1>8. /\ t \in Seq(Frames) /\ Len(t) = n + 1 /\ DOMAIN t = 1..(n + 1)
      /\ t[n + 1] = f /\ \A i \in 1..n : t[i] = s[i]
    BY <1>3, <1>6, <1>7, AppendIs
<1>9. PICK q : q = Append(r, e)
    OBVIOUS
<1>10. q \in Seq(Edges) /\ Len(q) = n /\ \A i \in 1..(n - 1) : q[i] = r[i]
    <2>1. Len(q) = (n - 1) + 1 /\ q \in Seq(Edges) /\ DOMAIN r = 1..(n - 1) /\ \A i \in DOMAIN r : q[i] = r[i]
        BY <1>4, <1>9, AppendIs, LenProperties
    <2>2. QED
        BY <2>1
<1>11. /\ v.stack = t /\ v.route = q /\ v.paths = w.paths /\ v.limit = w.limit
       /\ v.exhaustive = w.exhaustive
       /\ v \in WalkStates
    <2>1. v = [w EXCEPT !.stack = t, !.route = q]
        BY <1>1, <1>2, <1>5, <1>7, <1>9
    <2>2. w \in WalkStates
        BY WalkShape
    <2>3. q \in Routes
        BY <1>10 DEF Routes
    <2>4. QED
        BY <1>8, <2>1, <2>2, <2>3 DEF WalkStates
<1>12. Len(v.stack) = Len(v.route) + 1
    BY <1>8, <1>10, <1>11
<1>13. ASSUME NEW k \in DOMAIN v.stack
       PROVE  /\ Track(edge, SubSeq(v.route, 1, k - 1), v.stack[k].node)
              /\ v.stack[k].cost = RouteCost(SubSeq(v.route, 1, k - 1))
    <2>1. CASE k = n + 1
        <3>1. SubSeq(q, 1, k - 1) = q
            <4>1. k - 1 = Len(q)
                BY <1>10, <2>1
            <4>2. QED
                BY <1>10, <4>1, SubSeqFull
        <3>2. v.stack[k] = f
            BY <1>8, <1>11, <2>1
        <3>3. QED
            BY <1>2, <1>6, <1>9, <1>11, <3>1, <3>2
    <2>2. CASE k # n + 1
        <3>1. k \in 1..n /\ k \in DOMAIN w.stack /\ v.stack[k] = w.stack[k]
            BY <1>1, <1>3, <1>8, <1>11, <2>2
        <3>2. k - 1 \in Nat /\ k - 1 <= n - 1 /\ k - 1 <= n
            BY <3>1
        <3>3. \A i \in 1..(k - 1) : i \in 1..(n - 1)
            BY <3>2
        <3>4. SubSeq(q, 1, k - 1) = SubSeq(r, 1, k - 1)
            <4>1. \A i \in 1..(k - 1) : q[i] = r[i]
                BY <1>10, <3>3
            <4>2. QED
                BY <1>4, <1>10, <3>2, <4>1, SamePrefix
        <3>5. /\ Track(edge, SubSeq(w.route, 1, k - 1), w.stack[k].node)
              /\ w.stack[k].cost = RouteCost(SubSeq(w.route, 1, k - 1))
            BY <3>1 DEF Walks
        <3>6. QED
            BY <1>2, <1>11, <3>1, <3>4, <3>5
    <2>3. QED
        BY <2>1, <2>2
<1>14. Len(v.paths) <= limits.max_exhaustive_paths + 1 /\ \A i \in DOMAIN v.paths : Track(edge, v.paths[i], Upto(edge).node)
    BY <1>11 DEF Walks
<1>15. QED
    BY <1>11, <1>12, <1>13, <1>14 DEF Walks

\* What holds during the analysis of a logical edge.
LEMMA AnalysingFacts ==
    ASSUME Working, pc \in Analysing
    PROVE  /\ SetupOk /\ StartedOk /\ verdict = "none"
           /\ AnalysisFits(pc, walk, pool, blocks, sample, task, search, found, combo)
           /\ expansions \in Nat /\ expansions <= Policy.max_search_expansions
           /\ enumerated \in Nat /\ enumerated <= limits.max_total_enumeration_steps
           /\ BoundEnds(edge) /\ planner.nodes # {} /\ Len(plans) = edge - 1
           /\ From(edge).node \in planner.nodes
<1>1. SetupOk /\ AnalysisOk /\ verdict = "none"
    BY DEF Working, Analysing
<1>2. QED
    BY <1>1 DEF AnalysisOk, SetupOk, StartedOk

\* An empty sequence of routes.
LEMMA NothingPooled ==
    /\ Distinct(<<>>) /\ Len(<<>>) = 0 /\ DOMAIN <<>> = {} /\ ToSet(<<>>) = {}
    /\ NoBlocks \in Bans
<1>1. <<>> \in Seq(GoodRoutes(edge)) /\ Len(<<>>) = 0
    BY EmptySeq
<1>2. DOMAIN <<>> = {}
    OBVIOUS
<1>3. IsInjective(<<>>) /\ ToSet(<<>>) = {}
    BY <1>2 DEF IsInjective, ToSet
<1>4. NoBlocks \in Bans
    BY DEF NoBlocks, Bans
<1>5. QED
    BY <1>1, <1>2, <1>3, <1>4 DEF Distinct

\* A walk that has not begun.
LEMMA EmptyWalks ==
    ASSUME SetupOk, planner.nodes # {}
    PROVE  Walks(EmptyWalk) /\ ~EmptyWalk.exhaustive
<1>1. 1 \in 1..Deepest
    BY DeepestIs
<1>2. <<>> \in Seq(Frames) /\ <<>> \in Routes /\ <<>> \in Seq(Routes) /\ Len(<<>>) = 0 /\ DOMAIN <<>> = {}
    BY EmptySeq DEF Routes
<1>3. PICK v : v = EmptyWalk
    OBVIOUS
<1>4. v \in WalkStates /\ v.stack = <<>> /\ v.paths = <<>> /\ v.exhaustive = FALSE
    BY <1>1, <1>2, <1>3 DEF EmptyWalk, WalkStates
<1>5. Walks(v)
    BY <1>2, <1>4, SetupFacts DEF Walks
<1>6. QED
    BY <1>3, <1>4, <1>5

\* analyse_logical_edge up to the enumeration keeps the invariant.
LEMMA AnalyseKeeps ==
    ASSUME Working, Analyse, verdict' = verdict
    PROVE  Working'
<1>1. SetupOk /\ pc = "edge" /\ verdict = "none" /\ Len(plans) = edge - 1
    BY DEF Working, Analyse
<1>2. ASSUME NEW kind, NEW code, Refuse(kind, code) PROVE Working'
    <2>1. PICK result : result = Denial(kind, code)
        OBVIOUS
    <2>2. Settle(result) /\ result.alternatives = <<>> /\ OffersOk(edge, result.alternatives)
        BY <1>2, <2>1, DenialOffersNothing DEF Refuse
    <2>3. /\ request' = request /\ planner' = planner /\ limits' = limits
          /\ expansions' = expansions /\ enumerated' = enumerated
        BY <1>2 DEF Refuse
    <2>4. QED
        BY <1>1, <2>2, <2>3, Settling
<1>3. ASSUME Bound(1), Bound(2), {Source, Target} \subseteq planner.nodes,
             walk' = EmptyWalk, pool' = <<>>, sample' = EmptySample, combo' = EmptyCombo,
             blocks' = NoBlocks, pc' = "sweep",
             request' = request, limits' = limits, planner' = planner, edge' = edge,
             plans' = plans, expansions' = expansions, enumerated' = enumerated
      PROVE  Working'
    <2>1. BoundEnds(edge) /\ {From(edge).node, Upto(edge).node} \subseteq planner.nodes
        BY <1>1, <1>3, EndsHere DEF SetupOk
    <2>2. StartedOk
        BY <1>1, <2>1 DEF StartedOk
    <2>3. planner.nodes # {}
        BY <2>1
    <2>4. Walks(walk') /\ ~walk'.exhaustive
        BY <1>1, <1>3, <2>3, EmptyWalks
    <2>5. Distinct(pool') /\ Len(pool') = 0 /\ blocks' \in Bans
        BY <1>3, NothingPooled
    <2>6. Len(pool') <= PoolBound(walk')
        BY <1>1, <2>5, SetupFacts DEF PoolBound
    <2>7. AnalysisFits(pc', walk', pool', blocks', sample', task', search', found', combo')
        BY <1>3, <2>4, <2>5, <2>6 DEF AnalysisFits
    <2>8. pc' \in Analysing
        BY <1>3 DEF Analysing
    <2>9. /\ expansions' \in Nat /\ expansions' <= Policy.max_search_expansions
          /\ enumerated' \in Nat /\ enumerated' <= limits.max_total_enumeration_steps
        BY <1>1, <1>3 DEF SetupOk
    <2>10. QED
        BY <1>1, <1>3, <2>2, <2>7, <2>8, <2>9, AnalysisStep
<1>4. QED
    BY <1>2, <1>3 DEF Analyse

\* The start of a sweep keeps the invariant.
LEMMA SweepKeeps ==
    ASSUME Working, Sweep, verdict' = verdict
    PROVE  Working'
<1>1. pc = "sweep" /\ pc' = "walk" /\ pc \in Analysing /\ pc' \in Analysing
    BY DEF Sweep, Analysing
<1>2. /\ SetupOk /\ StartedOk /\ verdict = "none" /\ BoundEnds(edge)
      /\ AnalysisFits("sweep", walk, pool, blocks, sample, task, search, found, combo)
      /\ expansions \in Nat /\ expansions <= Policy.max_search_expansions
      /\ enumerated \in Nat /\ enumerated <= limits.max_total_enumeration_steps
    BY <1>1, AnalysingFacts
<1>3. PICK f : f = [node |-> Source, at |-> 1, cost |-> 0]
    OBVIOUS
<1>4. Source = From(edge).node /\ Source \in Int
    BY <1>2, EndsHere, SetupFacts
<1>5. f \in Frames /\ f.node = From(edge).node /\ f.cost = 0
    BY <1>3, <1>4 DEF Frames
<1>6. PICK s : s = <<f>>
    OBVIOUS
<1>7. s \in Seq(Frames) /\ Len(s) = 1 /\ DOMAIN s = {1} /\ s[1] = f
    BY <1>5, <1>6
<1>8. Walks(walk) /\ ~walk.exhaustive
    BY <1>2 DEF AnalysisFits
<1>9. <<>> \in Routes /\ RouteCost(<<>>) = 0 /\ Track(edge, <<>>, From(edge).node) /\ Len(<<>>) = 0
    BY <1>2, TrackEmpty
<1>10. PICK v : v = walk'
    OBVIOUS
<1>11. /\ v.stack = s /\ v.route = <<>> /\ v.paths = walk.paths /\ v.exhaustive = walk.exhaustive
       /\ v \in WalkStates
    <2>1. v = [walk EXCEPT !.stack = s, !.route = <<>>]
        BY <1>3, <1>6, <1>10 DEF Sweep
    <2>2. walk \in WalkStates
        BY <1>8 DEF Walks
    <2>3. QED
        BY <1>7, <1>9, <2>1, <2>2 DEF WalkStates
<1>12. ASSUME NEW k \in DOMAIN v.stack
       PROVE  /\ Track(edge, SubSeq(v.route, 1, k - 1), v.stack[k].node)
              /\ v.stack[k].cost = RouteCost(SubSeq(v.route, 1, k - 1))
    <2>1. k = 1 /\ v.stack[k] = f
        BY <1>7, <1>11
    <2>2. SubSeq(v.route, 1, 0) = <<>>
        BY SubSeqEmpty
    <2>3. SubSeq(v.route, 1, k - 1) = <<>>
        BY <2>1, <2>2
    <2>4. QED
        BY <1>5, <1>9, <2>1, <2>3
<1>13. Walks(v) /\ ~v.exhaustive
    <2>1. Len(v.stack) = Len(v.route) + 1
        BY <1>7, <1>9, <1>11
    <2>2. Len(v.paths) <= limits.max_exhaustive_paths + 1 /\ \A i \in DOMAIN v.paths : Track(edge, v.paths[i], Upto(edge).node)
        BY <1>8, <1>11 DEF Walks
    <2>3. QED
        BY <1>8, <1>11, <1>12, <2>1, <2>2 DEF Walks
<1>14. /\ request' = request /\ planner' = planner /\ limits' = limits /\ edge' = edge /\ plans' = plans
       /\ expansions' = expansions /\ enumerated' = enumerated /\ pool' = pool /\ blocks' = blocks
       /\ sample' = sample /\ task' = task /\ search' = search /\ found' = found /\ combo' = combo
    BY DEF Sweep
<1>15. PoolBound(v) = PoolBound(walk)
    BY <1>8, <1>13 DEF PoolBound
<1>16. AnalysisFits(pc', walk', pool', blocks', sample', task', search', found', combo')
    BY <1>1, <1>2, <1>10, <1>13, <1>14, <1>15 DEF AnalysisFits
<1>17. QED
    BY <1>1, <1>2, <1>14, <1>16, AnalysisStep

\* A step of the enumeration that leads to a walk as it should be.
LEMMA WalkedTo ==
    ASSUME Working, pc = "walk", verdict' = verdict, NEW w, Walks(w), ~w.exhaustive,
           NEW k \in {0, 1}, k = 1 => ~RequestBound, Walked(w, k)
    PROVE  Working'
<1>1. pc' = "walk" /\ pc \in Analysing /\ pc' \in Analysing
    BY DEF Walked, Analysing
<1>2. /\ SetupOk /\ StartedOk /\ verdict = "none" /\ BoundEnds(edge)
      /\ AnalysisFits("walk", walk, pool, blocks, sample, task, search, found, combo)
      /\ expansions \in Nat /\ expansions <= Policy.max_search_expansions
      /\ enumerated \in Nat /\ enumerated <= limits.max_total_enumeration_steps
    BY <1>1, AnalysingFacts
<1>3. /\ request' = request /\ planner' = planner /\ limits' = limits /\ edge' = edge /\ plans' = plans
      /\ expansions' = expansions /\ pool' = pool /\ blocks' = blocks
      /\ sample' = sample /\ task' = task /\ search' = search /\ found' = found /\ combo' = combo
      /\ walk' = w /\ enumerated' = enumerated + k
    BY DEF Walked
<1>4. ~walk.exhaustive
    BY <1>2 DEF AnalysisFits
<1>5. PoolBound(w) = PoolBound(walk)
    BY <1>4 DEF PoolBound
<1>6. AnalysisFits(pc', walk', pool', blocks', sample', task', search', found', combo')
    BY <1>1, <1>2, <1>3, <1>5 DEF AnalysisFits
<1>7. limits.max_total_enumeration_steps \in Nat
    BY <1>2, SetupFacts
<1>8. enumerated' \in Nat /\ enumerated' <= limits.max_total_enumeration_steps
    BY <1>2, <1>3, <1>7 DEF RequestBound
<1>9. QED
    BY <1>1, <1>2, <1>3, <1>6, <1>8, AnalysisStep

\* The edges that leave a node, in their order.
LEMMA OutEdgesAre ==
    ASSUME SetupOk, NEW n
    PROVE  /\ out_edges(n) \in Seq(Edges) /\ Len(out_edges(n)) \in Nat
           /\ \A i \in 1..Len(out_edges(n)) : out_edges(n)[i] \in Edges /\ Edge(out_edges(n)[i]).from = n
<1>1. PICK S : S = {e \in Edges : Edge(e).from = n}
    OBVIOUS
<1>2. IsFiniteSet(S) /\ S \subseteq Int /\ S \subseteq Edges
    <2>1. IsFiniteSet(Edges) /\ Edges \subseteq Nat
        BY SetupFacts
    <2>2. QED
        <3>1. S \subseteq Edges
            BY <1>1
        <3>2. S \subseteq Int
            BY <2>1, <3>1
        <3>3. QED
            BY <2>1, <3>1, <3>2, FS_Subset
<1>3. out_edges(n) = Numbers(S)
    BY <1>1 DEF out_edges, Numbers
<1>4. Numbers(S) \in Seq(S)
    BY <1>2, NumbersInOrder
<1>5. Numbers(S) \in Seq(Edges) /\ Len(Numbers(S)) \in Nat
    BY <1>2, <1>4, SeqMonotonic, LenProperties
<1>6. \A i \in 1..Len(Numbers(S)) : Numbers(S)[i] \in S
    BY <1>4, ElementOfSeq
<1>7. QED
    BY <1>1, <1>3, <1>5, <1>6

\* The route of a walk leads to the node on top of its stack.
LEMMA TopIs ==
    ASSUME SetupOk, NEW w, Walks(w), w.stack # <<>>, NEW t, t = Last(w.stack)
    PROVE  /\ t \in Frames /\ w.route \in Routes
           /\ Track(edge, w.route, t.node) /\ t.cost = RouteCost(w.route)
<1>1. PICK n \in Nat \ {0} : n = Len(w.stack) /\ w.stack \in Seq(Frames) /\ DOMAIN w.stack = 1..n
    BY WalkShape, EmptySeq
<1>2. t \in Frames /\ t = w.stack[n]
    BY <1>1, FrontIs
<1>3. w.route \in Routes /\ Len(w.route) = n - 1
    <2>1. w.route \in Routes /\ Len(w.route) \in Nat
        BY WalkShape
    <2>2. n = Len(w.route) + 1
        BY <1>1 DEF Walks
    <2>3. QED
        BY <2>1, <2>2
<1>4. n \in DOMAIN w.stack
    BY <1>1
<1>5. SubSeq(w.route, 1, n - 1) = w.route
    BY <1>3, SubSeqFull DEF Routes
<1>6. QED
    BY <1>2, <1>3, <1>4, <1>5 DEF Walks

\* A step of the enumeration keeps the invariant.
LEMMA WalkKeeps ==
    ASSUME Working, Walk, verdict' = verdict
    PROVE  Working'
<1>1. pc = "walk" /\ walk.stack # <<>> /\ pc \in Analysing
    BY DEF Walk, Analysing
<1>2. /\ SetupOk /\ BoundEnds(edge)
      /\ AnalysisFits("walk", walk, pool, blocks, sample, task, search, found, combo)
    BY <1>1, AnalysingFacts
<1>3. Walks(walk) /\ ~walk.exhaustive
    BY <1>2 DEF AnalysisFits
<1>4. PICK t : t = Last(walk.stack)
    OBVIOUS
<1>5. t = Top
    BY <1>4 DEF Top
<1>6. /\ t \in Frames /\ walk.route \in Routes
      /\ Track(edge, walk.route, t.node) /\ t.cost = RouteCost(walk.route)
    BY <1>1, <1>2, <1>3, <1>4, TopIs
<1>7. PICK out : out = out_edges(t.node)
    OBVIOUS
<1>8. PICK e : e = out[t.at]
    OBVIOUS
<1>9. PICK c : c = Saturate(t.cost + planner.cost[e])
    OBVIOUS
<1>10. PICK v : v = Advanced(walk)
    OBVIOUS
<1>11. /\ Walks(v) /\ ~v.exhaustive /\ v.route = walk.route /\ v.paths = walk.paths /\ v.stack # <<>>
    BY <1>1, <1>2, <1>3, <1>10, AdvancedWalks
<1>12. CASE Walked(Returned(walk), 0)
    <2>1. Walks(Returned(walk)) /\ ~Returned(walk).exhaustive
        BY <1>1, <1>2, <1>3, ReturnedWalks
    <2>2. QED
        BY <1>1, <1>12, <2>1, WalkedTo
<1>13. CASE ~RequestBound /\ Walked(Advanced(walk), 1)
    BY <1>1, <1>10, <1>11, <1>13, WalkedTo
<1>14. ASSUME t.at <= Len(out), hop_usable(e), c <= Policy.max_path_cost
       PROVE  /\ e \in Edges /\ Edge(e).to \in Int /\ c \in Nat
              /\ Track(edge, Append(walk.route, e), Edge(e).to)
              /\ c = RouteCost(Append(walk.route, e))
    <2>1. t.at \in 1..Len(out)
        BY <1>2, <1>6, <1>7, <1>14, OutEdgesAre DEF Frames
    <2>2. e \in Edges /\ Edge(e).from = t.node
        BY <1>2, <1>7, <1>8, <2>1, OutEdgesAre
    <2>3. Edge(e) \in FabricEdges
        BY <1>2, <2>2, SetupFacts
    <2>4. Edge(e).to \in Int
        BY <2>3 DEF FabricEdges
    <2>5. PassableOn(edge, e)
        BY <1>2, <1>14, EndsHere, SetupFacts DEF hop_usable
    <2>6. Saturate(RouteCost(walk.route) + planner.cost[e]) = c
        BY <1>6, <1>9
    <2>7. Track(edge, Append(walk.route, e), Edge(e).to) /\ RouteCost(Append(walk.route, e)) = c
        BY <1>2, <1>6, <1>14, <2>2, <2>5, <2>6, TrackAppend
    <2>8. Append(walk.route, e) \in Routes
        BY <2>7 DEF Track
    <2>9. c \in Nat
        BY <1>2, <2>7, <2>8, SetupFacts, RouteCostType
    <2>10. QED
        BY <2>2, <2>4, <2>7, <2>9
<1>15. ASSUME t.at <= Len(out), ~WalkBound, ~RequestBound, hop_usable(e), c <= Policy.max_path_cost,
              Edge(e).to = Target,
              Walked([Advanced(walk) EXCEPT !.paths = Append(@, Append(walk.route, e))], 1)
       PROVE  Working'
    <2>1. PICK p : p = Append(walk.route, e)
        OBVIOUS
    <2>2. PICK u : u = [v EXCEPT !.paths = Append(@, p)]
        OBVIOUS
    <2>3. Target = Upto(edge).node
        BY <1>2, EndsHere, SetupFacts
    <2>4. Track(edge, p, Upto(edge).node)
        BY <1>14, <1>15, <2>1, <2>3
    <2>5. Len(v.paths) <= limits.max_exhaustive_paths
        <3>1. Len(v.paths) \in Nat
            BY <1>2, <1>11, WalkShape
        <3>2. QED
            BY <1>2, <1>11, <1>15, <3>1, SetupFacts DEF WalkBound
    <2>6. Walks(u) /\ u.exhaustive = v.exhaustive
        BY <1>2, <1>11, <2>2, <2>4, <2>5, FoundWalks
    <2>7. Walked(u, 1)
        BY <1>10, <1>15, <2>1, <2>2
    <2>8. QED
        BY <1>1, <1>11, <1>15, <2>6, <2>7, WalkedTo
<1>16. ASSUME t.at <= Len(out), ~RequestBound, hop_usable(e), c <= Policy.max_path_cost,
              Walked([Advanced(walk) EXCEPT
                          !.stack = Append(@, [node |-> Edge(e).to, at |-> 1, cost |-> c]),
                          !.route = Append(@, e)], 1)
       PROVE  Working'
    <2>1. PICK u : u = [v EXCEPT !.stack = Append(@, [node |-> Edge(e).to, at |-> 1, cost |-> c]),
                                 !.route = Append(@, e)]
        OBVIOUS
    <2>2. Walked(u, 1)
        BY <1>10, <1>16, <2>1
    <2>3. /\ e \in Edges /\ Edge(e).to \in Int /\ c \in Nat
          /\ Track(edge, Append(v.route, e), Edge(e).to)
          /\ c = RouteCost(Append(v.route, e))
        BY <1>11, <1>14, <1>16
    <2>4. Walks(u) /\ u.exhaustive = v.exhaustive
        <3>1. SetupOk /\ Walks(v) /\ v.stack # <<>>
            BY <1>2, <1>11
        <3>2. QED
            BY <2>1, <2>3, <3>1, DeeperWalks
    <2>5. QED
        BY <1>1, <1>11, <1>16, <2>2, <2>4, WalkedTo
<1>17. QED
    BY <1>5, <1>7, <1>8, <1>9, <1>12, <1>13, <1>15, <1>16 DEF Walk

-----------------------------------------------------------------------------
(* The end of the enumeration *)

\* A route that leads to the target and that make_candidate accepts.
LEMMA AcceptedIsGood ==
    ASSUME SetupOk, BoundEnds(edge), NEW p, Track(edge, p, Upto(edge).node), CandidateOk(p)
    PROVE  p \in GoodRoutes(edge) /\ p \in Routes
<1>1. Source = From(edge).node
    BY EndsHere, SetupFacts
<1>2. IsInjective(Visits(p, From(edge).node)) /\ Len(p) <= Policy.max_hops
    BY <1>1 DEF CandidateOk, edges_form_simple_path, Visits
<1>3. p \in Routes
    BY DEF Track
<1>4. QED
    BY <1>2, <1>3 DEF GoodRoutes, Good

\* What build_pool sorts of the enumeration: different routes, each as it should be.
LEMMA CandidatesAre ==
    ASSUME SetupOk, BoundEnds(edge), Walks(walk)
    PROVE  Distinct(Candidates) /\ Len(Candidates) \in Nat
           /\ Len(Candidates) <= limits.max_exhaustive_paths
<1>1. PICK n \in Nat : n = Len(walk.paths) /\ walk.paths \in Seq(Routes) /\ DOMAIN walk.paths = 1..n
    BY WalkShape
<1>2. PICK m \in Nat : m = limits.max_exhaustive_paths
    BY SetupFacts
<1>3. PICK k \in Nat : k = Min({n, m}) /\ k <= n /\ k <= m
    BY MinOfTwo
<1>4. PICK s : s = SubSeq(walk.paths, 1, k)
    OBVIOUS
<1>5. s \in Seq(Routes) /\ Len(s) = k /\ DOMAIN s = 1..k /\ \A i \in 1..k : s[i] = walk.paths[i]
    <2>1. k \in Nat /\ k <= Len(walk.paths) /\ walk.paths \in Seq(Routes)
        BY <1>1, <1>3
    <2>2. QED
        BY <1>4, <2>1, PrefixIs
<1>6. IsFiniteSet(ToSet(s)) /\ Cardinality(ToSet(s)) <= k /\ ToSet(s) \subseteq Routes
    BY <1>5, ToSetIn
<1>7. PICK C : C = {p \in ToSet(s) : CandidateOk(p)}
    OBVIOUS
<1>8. C \subseteq ToSet(s)
    BY <1>7
<1>9. IsFiniteSet(C) /\ Cardinality(C) <= Cardinality(ToSet(s)) /\ Cardinality(C) \in Nat
      /\ Cardinality(ToSet(s)) \in Nat
    BY <1>6, <1>8, FS_Subset, FS_CardinalityType
<1>10. C \subseteq Routes
    BY <1>6, <1>8
<1>11. ASSUME NEW p \in C PROVE p \in GoodRoutes(edge)
    <2>1. PICK i \in 1..k : p = s[i]
        BY <1>5, <1>7 DEF ToSet
    <2>2. i \in DOMAIN walk.paths /\ p = walk.paths[i]
        <3>1. i \in 1..n
            BY <1>3, <2>1
        <3>2. QED
            BY <1>1, <1>5, <2>1, <3>1
    <2>3. Track(edge, p, Upto(edge).node)
        BY <2>2 DEF Walks
    <2>4. CandidateOk(p)
        BY <1>7
    <2>5. QED
        BY <2>3, <2>4, AcceptedIsGood
<1>12. Candidates = RoutesInOrder(C)
    BY <1>1, <1>2, <1>3, <1>4, <1>7 DEF Candidates, RoutesInOrder
<1>13. PICK q : q = RoutesInOrder(C)
    OBVIOUS
<1>14. q \in Seq(C) /\ Len(q) = Cardinality(C) /\ \A i, j \in DOMAIN q : q[i] = q[j] => i = j
    BY <1>9, <1>10, <1>13, SetupFacts, RoutesAreOrdered
<1>15. q \in Seq(GoodRoutes(edge)) /\ IsInjective(q)
    <2>1. C \subseteq GoodRoutes(edge)
        BY <1>11
    <2>2. QED
        BY <1>14, <2>1, SeqMonotonic DEF IsInjective
<1>16. QED
    BY <1>2, <1>3, <1>6, <1>9, <1>12, <1>13, <1>14, <1>15 DEF Distinct

\* A choice of sets that has not begun.
LEMMA EmptyChooses ==
    ASSUME SetupOk, NEW q
    PROVE  Chooses(EmptyCombo, q)
<1>1. PICK c : c = EmptyCombo
    OBVIOUS
<1>2. /\ DOMAIN c = {"chosen", "next", "entering", "considered", "limited", "offered", "rejected"}
      /\ c.chosen = <<>> /\ c.next = 1 /\ c.considered = 0 /\ c.offered = <<>>
      /\ c.rejected = [disjointness |-> 0, domain |-> 0, capacity |-> 0]
    BY <1>1 DEF EmptyCombo
<1>3. c.rejected \in [disjointness : Nat, domain : Nat, capacity : Nat]
    BY <1>2
<1>4. <<>> \in Seq(DOMAIN q) /\ Len(<<>>) = 0 /\ DOMAIN <<>> = {}
    BY EmptySeq
<1>5. OffersOk(edge, <<>>)
    BY DenialOffersNothing
<1>6. Wanted \in Nat /\ limits.max_set_alternatives \in Nat
    BY SetupFacts
<1>7. Chooses(c, q)
    BY <1>2, <1>3, <1>4, <1>5, <1>6 DEF Chooses
<1>8. QED
    BY <1>1, <1>7

\* A search that has just begun.
LEMMA SearchBegins ==
    ASSUME SetupOk, BoundEnds(edge), NEW s,
           s = [dist |-> [k \in {<<Source, 0>>} |-> 0], prev |-> <<>>,
                frontier |-> {[cost |-> 0, hops |-> 0, node |-> Source]}]
    PROVE  Searches(s)
<1>1. Source = From(edge).node /\ Source \in Int
    BY EndsHere, SetupFacts
<1>2. PICK k : k = <<Source, 0>>
    OBVIOUS
<1>3. PICK d : d = [x \in {k} |-> 0]
    OBVIOUS
<1>4. DOMAIN d = {k} /\ d[k] = 0
    BY <1>3
<1>5. PICK l : l = [cost |-> 0, hops |-> 0, node |-> Source]
    OBVIOUS
<1>6. l \in Labels /\ Key(l) = k
    BY <1>1, <1>2, <1>5 DEF Labels, Key
<1>7. s.dist = d /\ s.frontier = {l} /\ DOMAIN s = {"dist", "prev", "frontier"}
    BY <1>2, <1>3, <1>5
<1>8. IsFiniteSet({l})
    BY FS_Singleton
<1>9. Policy.max_path_cost \in Nat
    BY SetupFacts
<1>10. k \in Int \X Nat /\ k[1] = From(edge).node /\ k[2] = 0
    BY <1>1, <1>2
<1>11. ASSUME NEW key \in DOMAIN s.dist
       PROVE  /\ key \in Int \X Nat /\ s.dist[key] \in Nat /\ s.dist[key] <= Policy.max_path_cost
              /\ IF key[2] = 0 THEN key[1] = From(edge).node ELSE LeadsBack(s, key)
    <2>1. key = k /\ s.dist[key] = 0
        BY <1>4, <1>7
    <2>2. QED
        BY <1>9, <1>10, <2>1
<1>12. IsFiniteSet(s.frontier) /\ s.frontier \subseteq Labels /\ \A x \in s.frontier : Key(x) \in DOMAIN s.dist
    BY <1>4, <1>6, <1>7, <1>8
<1>13. QED
    BY <1>7, <1>11, <1>12 DEF Searches

\* build_pool starts a search, or finds the empty route between two participants of one node.
LEMMA StartsSearch ==
    ASSUME SetupOk, StartedOk, NEW purpose, NEW edges \in SUBSET Edges, NEW nodes \in SUBSET Int,
           Start(purpose, edges, nodes),
           Walks(walk'), Distinct(pool'), Len(pool') <= PoolBound(walk'),
           TaskOk(purpose, walk', pool', sample'), Samples(sample', pool'), combo' = EmptyCombo
    PROVE  /\ pc' \in Analysing
           /\ AnalysisFits(pc', walk', pool', blocks', sample', task', search', found', combo')
<1>1. task' = purpose /\ blocks' \in Bans
    BY DEF Start, Bans
<1>2. BoundEnds(edge)
    BY DEF StartedOk
<1>3. Source = From(edge).node /\ Target = Upto(edge).node
    BY <1>2, EndsHere, SetupFacts
<1>4. CASE Source = Target
    <2>1. found' = <<>> /\ pc' = "pool"
        BY <1>4 DEF Start
    <2>2. Track(edge, <<>>, Upto(edge).node)
        BY <1>3, <1>4, TrackEmpty
    <2>3. FoundOk(found')
        BY <2>1, <2>2 DEF FoundOk
    <2>4. QED
        BY <1>1, <2>1, <2>3 DEF AnalysisFits, Analysing
<1>5. CASE Source # Target
    <2>1. /\ found' = Nothing /\ pc' = "search"
          /\ search' = [dist |-> [k \in {<<Source, 0>>} |-> 0], prev |-> <<>>,
                        frontier |-> {[cost |-> 0, hops |-> 0, node |-> Source]}]
        BY <1>5 DEF Start
    <2>2. Searches(search')
        BY <1>2, <2>1, SearchBegins
    <2>3. QED
        BY <1>1, <2>1, <2>2 DEF AnalysisFits, Analysing
<1>6. QED
    BY <1>4, <1>5

\* The end of a sweep keeps the invariant.
LEMMA SweepEndKeeps ==
    ASSUME Working, SweepEnd, verdict' = verdict
    PROVE  Working'
<1>1. pc = "walk" /\ walk.stack = <<>> /\ pc \in Analysing
    BY DEF SweepEnd, Analysing
<1>2. /\ SetupOk /\ StartedOk /\ BoundEnds(edge) /\ verdict = "none" /\ planner.nodes # {}
      /\ AnalysisFits("walk", walk, pool, blocks, sample, task, search, found, combo)
      /\ expansions \in Nat /\ expansions <= Policy.max_search_expansions
      /\ enumerated \in Nat /\ enumerated <= limits.max_total_enumeration_steps
    BY <1>1, AnalysingFacts
<1>3. /\ Walks(walk) /\ ~walk.exhaustive /\ pool = <<>> /\ sample = EmptySample /\ combo = EmptyCombo
      /\ blocks \in Bans
    BY <1>2 DEF AnalysisFits
<1>4. /\ request' = request /\ planner' = planner /\ limits' = limits /\ edge' = edge /\ plans' = plans
      /\ expansions' = expansions /\ enumerated' = enumerated /\ combo' = combo
    BY DEF SweepEnd
<1>5. SUFFICES /\ pc' \in Analysing
               /\ AnalysisFits(pc', walk', pool', blocks', sample', task', search', found', combo')
    BY <1>2, <1>4, AnalysisStep
<1>6. /\ walk \in WalkStates /\ walk.stack = <<>> /\ walk.limit \in 1..Deepest
      /\ Len(walk.paths) <= limits.max_exhaustive_paths + 1
      /\ \A i \in DOMAIN walk.paths : Track(edge, walk.paths[i], Upto(edge).node)
    BY <1>1, <1>2, <1>3, WalkShape DEF Walks
<1>7. Distinct(Candidates) /\ Len(Candidates) \in Nat /\ Len(Candidates) <= limits.max_exhaustive_paths
    BY <1>2, <1>3, CandidatesAre
<1>8. /\ Distinct(<<>>) /\ Len(<<>>) = 0 /\ ToSet(<<>>) = {}
    BY NothingPooled
<1>9. ASSUME walk.limit < Deepest, walk' = [walk EXCEPT !.limit = @ + 1], pc' = "sweep",
             UNCHANGED <<blocks, pool, sample, task, search, found>>
      PROVE  /\ pc' \in Analysing
             /\ AnalysisFits(pc', walk', pool', blocks', sample', task', search', found', combo')
    <2>1. PICK v : v = walk'
        OBVIOUS
    <2>2. Deepest \in Nat
        BY <1>2, DeepestIs
    <2>3. PICK m \in 1..Deepest : m = walk.limit + 1
        BY <1>6, <1>9, <2>2
    <2>4. /\ v \in WalkStates /\ v.stack = <<>> /\ v.paths = walk.paths
          /\ v.exhaustive = walk.exhaustive
        <3>1. v = [walk EXCEPT !.limit = m]
            BY <1>9, <2>1, <2>3
        <3>2. QED
            BY <1>6, <3>1 DEF WalkStates
    <2>5. Walks(v)
        BY <1>6, <2>4 DEF Walks
    <2>6. PoolBound(v) \in Nat
        BY <1>2, SetupFacts DEF PoolBound
    <2>7. QED
        BY <1>3, <1>4, <1>8, <1>9, <2>1, <2>4, <2>5, <2>6 DEF AnalysisFits, Analysing
<1>10. ASSUME walk' = [walk EXCEPT !.exhaustive = TRUE], pool' = Candidates, pc' = "sets",
              UNCHANGED <<blocks, sample, task, search, found>>
       PROVE  /\ pc' \in Analysing
              /\ AnalysisFits(pc', walk', pool', blocks', sample', task', search', found', combo')
    <2>1. PICK v : v = walk'
        OBVIOUS
    <2>2. /\ v \in WalkStates /\ v.stack = <<>> /\ v.paths = walk.paths /\ v.exhaustive
        BY <1>6, <1>10, <2>1 DEF WalkStates
    <2>3. Walks(v)
        BY <1>6, <2>2 DEF Walks
    <2>4. Len(pool') <= PoolBound(v)
        BY <1>7, <1>10, <2>2 DEF PoolBound
    <2>5. Chooses(combo', pool')
        BY <1>2, <1>3, <1>4, EmptyChooses
    <2>6. QED
        BY <1>3, <1>4, <1>7, <1>10, <2>1, <2>3, <2>4, <2>5 DEF AnalysisFits, Analysing
<1>11. ASSUME sample' = [sample EXCEPT !.candidates = Candidates], Start("cheapest", {}, {}),
              UNCHANGED <<walk, pool>>
       PROVE  /\ pc' \in Analysing
              /\ AnalysisFits(pc', walk', pool', blocks', sample', task', search', found', combo')
    <2>1. PICK m : m = sample'
        OBVIOUS
    <2>2. m = [chain |-> {}, through |-> <<>>, steps |-> 0, probes |-> <<>>,
               extra |-> <<>>, candidates |-> Candidates]
        BY <1>3, <1>11, <2>1 DEF EmptySample
    <2>3. /\ <<>> \in Seq(Int) /\ <<>> \in Seq(Bans) /\ <<>> \in Seq(Routes)
        BY EmptySeq
    <2>4. Candidates \in Seq(Routes)
        <3>1. GoodRoutes(edge) \subseteq Routes
            BY DEF GoodRoutes
        <3>2. QED
            BY <1>7, <3>1, SeqMonotonic DEF Distinct
    <2>5. m \in SampleStates
        BY <2>2, <2>3, <2>4 DEF SampleStates
    <2>6. m.extra = <<>> /\ m.candidates = Candidates
        BY <2>2
    <2>7. Samples(m, pool')
        BY <1>7, <1>8, <2>5, <2>6 DEF Samples
    <2>8. TaskOk("cheapest", walk', pool', m)
        BY <1>3, <1>11, <2>6 DEF TaskOk
    <2>9. Distinct(pool') /\ Len(pool') <= PoolBound(walk')
        BY <1>2, <1>3, <1>8, <1>11, SetupFacts DEF PoolBound
    <2>10. Walks(walk') /\ combo' = EmptyCombo
        BY <1>3, <1>4, <1>11
    <2>11. QED
        BY <1>2, <1>11, <2>1, <2>7, <2>8, <2>9, <2>10, StartsSearch
<1>12. QED
    BY <1>9, <1>10, <1>11 DEF SweepEnd

-----------------------------------------------------------------------------
(* The shortest-path search *)

\* The search takes the least label of the frontier.
LEMMA LabelIsTaken ==
    ASSUME search.frontier # {}, IsFiniteSet(search.frontier), search.frontier \subseteq Labels
    PROVE  /\ Label \in search.frontier
           /\ \A m \in search.frontier : m = Label \/ LabelLess(Label, m)
<1>1. PICK F : F = search.frontier
    OBVIOUS
<1>2. PICK R : R = {z \in Labels \X Labels : LabelLess(z[1], z[2])}
    OBVIOUS
<1>3. \A x, y \in Labels : <<x, y>> \in R <=> LabelLess(x, y)
    BY <1>2
<1>4. \A x \in Labels : x.cost \in Nat /\ x.hops \in Nat /\ x.node \in Int
    BY DEF Labels
<1>5. \A x, y \in Labels : x.cost = y.cost /\ x.hops = y.hops /\ x.node = y.node => x = y
    BY DEF Labels
<1>6. StrictOrder(R, F)
    <2>1. F \subseteq Labels
        BY <1>1
    <2>2. ASSUME NEW x \in F PROVE <<x, x>> \notin R
        BY <1>3, <1>4, <2>1 DEF LabelLess
    <2>3. ASSUME NEW x \in F, NEW y \in F, x # y PROVE <<x, y>> \in R \/ <<y, x>> \in R
        <3>1. x.cost # y.cost \/ x.hops # y.hops \/ x.node # y.node
            BY <1>5, <2>1, <2>3
        <3>2. LabelLess(x, y) \/ LabelLess(y, x)
            BY <1>4, <2>1, <3>1 DEF LabelLess
        <3>3. QED
            BY <1>3, <2>1, <3>2
    <2>4. ASSUME NEW x \in F, NEW y \in F, NEW z \in F, <<x, y>> \in R, <<y, z>> \in R
          PROVE  <<x, z>> \in R
        <3>1. LabelLess(x, y) /\ LabelLess(y, z)
            BY <1>3, <2>1, <2>4
        <3>2. LabelLess(x, z)
            BY <1>4, <2>1, <3>1 DEF LabelLess
        <3>3. QED
            BY <1>3, <2>1, <3>2
    <2>5. QED
        BY <2>2, <2>3, <2>4 DEF StrictOrder
<1>7. PICK x \in F : \A y \in F : y # x => <<x, y>> \in R
    BY <1>1, <1>6, RowFirst
<1>8. \A m \in search.frontier : m = x \/ LabelLess(x, m)
    BY <1>1, <1>3, <1>7
<1>9. QED
    BY <1>1, <1>7, <1>8 DEF Label

\* The nodes the search came through, from a node at some hop count back to the source.
Back(f, n, h) ==
    f = [k \in 0..h |-> IF k = h THEN n ELSE Edge(search.prev[<<f[k + 1], k + 1>>]).from]
BackChosen(n, h) ==
    CHOOSE f : f = [k \in 0..h |-> IF k = h THEN n ELSE Edge(search.prev[<<f[k + 1], k + 1>>]).from]

\* The way back is there for every node and hop count.
LEMMA BackExists ==
    ASSUME NEW n, NEW h \in Nat
    PROVE  \E f : Back(f, n, h)
<1>1. PICK B : B = {j \in Nat : \E m : ~\E f : Back(f, m, j)}
    OBVIOUS
<1>2. SUFFICES ASSUME B # {} PROVE FALSE
    BY <1>1
<1>3. B \subseteq Nat
    BY <1>1
<1>4. PICK j \in B : \A i \in B : j <= i
    BY <1>2, <1>3, NatMin
<1>5. j \in Nat
    BY <1>3
<1>6. PICK m : ~\E f : Back(f, m, j)
    BY <1>1, <1>4
<1>7. CASE j = 0
    <2>1. PICK f : f = [k \in 0..0 |-> m]
        OBVIOUS
    <2>2. f = [k \in 0..0 |-> IF k = 0 THEN m ELSE Edge(search.prev[<<f[k + 1], k + 1>>]).from]
        BY <2>1
    <2>3. Back(f, m, 0)
        BY <2>2 DEF Back
    <2>4. QED
        BY <1>6, <1>7, <2>3
<1>8. CASE j # 0
    <2>1. PICK i \in Nat : j = i + 1
        BY <1>5, <1>8
    <2>2. i \notin B
        BY <1>4, <2>1
    <2>3. PICK o : o = Edge(search.prev[<<m, j>>]).from
        OBVIOUS
    <2>4. PICK f : Back(f, o, i)
        BY <1>1, <2>2
    <2>6. DOMAIN f = 0..i
        BY <2>4 DEF Back
    <2>7. \A k \in 0..i : f[k] = IF k = i THEN o ELSE Edge(search.prev[<<f[k + 1], k + 1>>]).from
        BY <2>4 DEF Back
    <2>8. PICK g : g = [k \in 0..j |-> IF k = j THEN m ELSE f[k]]
        OBVIOUS
    <2>9. ASSUME NEW k \in 0..j
          PROVE  g[k] = IF k = j THEN m ELSE Edge(search.prev[<<g[k + 1], k + 1>>]).from
        <3>1. CASE k = j
            BY <2>8, <3>1
        <3>2. CASE k = i
            <4>0. i \in 0..i /\ i \in 0..j /\ i # j
                BY <2>1
            <4>1. g[k] = f[i] /\ f[i] = o /\ k # j /\ k + 1 = j
                BY <2>1, <2>7, <2>8, <3>2, <4>0
            <4>2. g[k + 1] = m
                BY <1>5, <2>8, <4>1
            <4>3. Edge(search.prev[<<g[k + 1], k + 1>>]).from = o
                BY <2>3, <4>1, <4>2
            <4>4. QED
                BY <4>1, <4>3
        <3>3. CASE k # j /\ k # i
            <4>1. k \in 0..i /\ k + 1 \in 0..i /\ k + 1 # j /\ k + 1 \in 0..j
                BY <2>1, <3>3
            <4>2. g[k] = f[k] /\ g[k + 1] = f[k + 1]
                BY <2>8, <3>3, <4>1
            <4>3. f[k] = Edge(search.prev[<<f[k + 1], k + 1>>]).from
                BY <2>7, <3>3, <4>1
            <4>4. QED
                BY <3>3, <4>2, <4>3
        <3>4. QED
            BY <3>1, <3>2, <3>3
    <2>10. g = [k \in 0..j |-> IF k = j THEN m ELSE Edge(search.prev[<<g[k + 1], k + 1>>]).from]
        <3>1. DOMAIN g = 0..j
            BY <2>8
        <3>2. PICK u : u = [k \in 0..j |-> IF k = j THEN m ELSE Edge(search.prev[<<g[k + 1], k + 1>>]).from]
            OBVIOUS
        <3>3. \A k \in 0..j : u[k] = g[k]
            BY <2>9, <3>2
        <3>4. DOMAIN u = 0..j
            BY <3>2
        <3>5. g = u
            BY <2>8, <3>1, <3>2, <3>3, <3>4
        <3>6. QED
            BY <3>2, <3>5
    <2>11. Back(g, m, j)
        BY <2>10 DEF Back
    <2>12. QED
        BY <1>6, <2>11
<1>9. QED
    BY <1>7, <1>8

\* Saturation keeps the order.
LEMMA SaturateMonotone ==
    ASSUME NEW a \in Nat, NEW b \in Nat, NEW c \in Nat, a <= b
    PROVE  Saturate(a + c) <= Saturate(b + c) /\ Saturate(a + c) \in Nat /\ Saturate(b + c) \in Nat
BY RequestAssumption DEF Saturate

\* A sequence up to its next element.
LEMMA PrefixGrows ==
    ASSUME NEW X, NEW s \in Seq(X), NEW k \in Nat, k + 1 <= Len(s)
    PROVE  SubSeq(s, 1, k + 1) = Append(SubSeq(s, 1, k), s[k + 1])
<1>1. PICK u : u = SubSeq(s, 1, k)
    OBVIOUS
<1>2. PICK v : v = SubSeq(s, 1, k + 1)
    OBVIOUS
<1>3. Len(s) \in Nat /\ s[k + 1] \in X
    <2>1. Len(s) \in Nat
        BY LenProperties
    <2>2. k + 1 \in 1..Len(s)
        BY <2>1
    <2>3. QED
        BY <2>1, <2>2, ElementOfSeq
<1>4. u \in Seq(X) /\ Len(u) = k /\ \A i \in 1..k : u[i] = s[i]
    <2>1. k <= Len(s)
        BY <1>3
    <2>2. QED
        BY <1>1, <2>1, PrefixIs
<1>5. v \in Seq(X) /\ Len(v) = k + 1 /\ \A i \in 1..(k + 1) : v[i] = s[i]
    <2>1. k + 1 \in Nat
        OBVIOUS
    <2>2. QED
        BY <1>2, <2>1, PrefixIs
<1>6. PICK x : x = s[k + 1]
    OBVIOUS
<1>7. PICK w : w = Append(u, x)
    OBVIOUS
<1>8. w \in Seq(X) /\ Len(w) = k + 1 /\ (\A i \in 1..k : w[i] = u[i]) /\ w[k + 1] = x
    <2>1. DOMAIN u = 1..k
        BY <1>4, LenProperties
    <2>2. QED
        BY <1>3, <1>4, <1>6, <1>7, <2>1, AppendIs
<1>9. ASSUME NEW i \in 1..(k + 1) PROVE v[i] = w[i]
    <2>1. CASE i = k + 1
        BY <1>5, <1>6, <1>8, <2>1
    <2>2. CASE i # k + 1
        <3>1. i \in 1..k
            BY <2>2
        <3>2. QED
            BY <1>4, <1>5, <1>8, <3>1
    <2>3. QED
        BY <2>1, <2>2
<1>10. v = w
    BY <1>5, <1>8, <1>9, SeqEqual
<1>11. QED
    BY <1>1, <1>2, <1>6, <1>7, <1>10

\* The edges by which the search came to a label lead there from the source, at no
\* more than its cost.
LEMMA TraceIs ==
    ASSUME SetupOk, Searches(search), NEW l \in search.frontier
    PROVE  /\ Track(edge, Trace(l), l.node)
           /\ Len(Trace(l)) = l.hops /\ RouteCost(Trace(l)) <= search.dist[Key(l)]
           /\ \A k \in DOMAIN Trace(l) :
                 \E key \in DOMAIN search.dist : key[2] # 0 /\ Trace(l)[k] = search.prev[key]
<1>1. l \in Labels /\ Key(l) \in DOMAIN search.dist
    BY DEF Searches
<1>2. PICK h \in Nat : h = l.hops
    BY <1>1 DEF Labels
<1>3. PICK n : n = l.node
    OBVIOUS
<1>4. PICK f : f = BackChosen(n, h)
    OBVIOUS
<1>5. Back(f, n, h)
    <2>1. \E g : Back(g, n, h)
        BY BackExists
    <2>2. QED
        BY <1>4, <2>1 DEF Back, BackChosen
<1>6. PICK T : T = Trace(l)
    OBVIOUS
<1>7. T = [k \in 1..h |-> search.prev[<<f[k], k>>]]
    BY <1>2, <1>3, <1>4, <1>6 DEF Trace, BackChosen
<1>8. \A k \in 0..h : f[k] = IF k = h THEN n ELSE Edge(search.prev[<<f[k + 1], k + 1>>]).from
    BY <1>5 DEF Back
<1>9. ASSUME NEW k \in 0..h PROVE <<f[k], k>> \in DOMAIN search.dist
    <2>1. PICK B : B = {i \in 0..h : <<f[i], i>> \notin DOMAIN search.dist}
        OBVIOUS
    <2>2. SUFFICES ASSUME B # {} PROVE FALSE
        BY <2>1
    <2>3. IsFiniteSet(B) /\ B \subseteq Nat
        <3>1. IsFiniteSet(0..h)
            BY FS_Interval
        <3>2. B \subseteq 0..h
            BY <2>1
        <3>3. B \subseteq Nat
            BY <3>2
        <3>4. QED
            BY <3>1, <3>2, <3>3, FS_Subset
    <2>4. PICK i \in B : \A j \in B : i >= j
        BY <2>2, <2>3, NatMax
    <2>5. i \in 0..h /\ <<f[i], i>> \notin DOMAIN search.dist
        BY <2>1
    <2>6. i # h
        <3>1. h \in 0..h
            OBVIOUS
        <3>2. f[h] = n
            BY <1>8, <3>1
        <3>3. Key(l) = <<f[h], h>>
            BY <1>2, <1>3, <3>2 DEF Key
        <3>4. QED
            BY <1>1, <2>5, <3>3
    <2>7. i + 1 \in 0..h /\ i + 1 \notin B
        BY <2>3, <2>4, <2>5, <2>6
    <2>8. PICK key : key = <<f[i + 1], i + 1>>
        OBVIOUS
    <2>9. key \in DOMAIN search.dist /\ key[2] = i + 1 /\ key[2] # 0
        BY <2>1, <2>5, <2>7, <2>8
    <2>10. LeadsBack(search, key)
        BY <2>9 DEF Searches
    <2>11. <<Edge(search.prev[key]).from, key[2] - 1>> \in DOMAIN search.dist
        BY <2>10 DEF LeadsBack
    <2>12. key[2] - 1 = i
        BY <2>5, <2>9
    <2>13. f[i] = Edge(search.prev[key]).from
        BY <1>8, <2>5, <2>6, <2>8
    <2>14. QED
        BY <2>5, <2>11, <2>12, <2>13
<1>10. ASSUME NEW k \in 1..h
       PROVE  /\ k - 1 \in 0..h /\ T[k] \in Edges /\ PassableOn(edge, T[k])
              /\ Edge(T[k]).to = f[k] /\ Edge(T[k]).from = f[k - 1]
              /\ Saturate(search.dist[<<f[k - 1], k - 1>>] + planner.cost[T[k]]) <= search.dist[<<f[k], k>>]
    <2>1. k \in 0..h /\ k - 1 \in 0..h /\ k - 1 # h /\ (k - 1) + 1 = k
        OBVIOUS
    <2>2. PICK key : key = <<f[k], k>>
        OBVIOUS
    <2>3. key \in DOMAIN search.dist /\ key[1] = f[k] /\ key[2] = k /\ key[2] # 0
        BY <1>9, <2>1, <2>2
    <2>4. LeadsBack(search, key)
        BY <2>3 DEF Searches
    <2>5. T[k] = search.prev[key]
        BY <1>7, <2>2
    <2>6. f[k - 1] = Edge(T[k]).from
        BY <1>8, <2>1, <2>2, <2>5
    <2>7. /\ T[k] \in Edges /\ PassableOn(edge, T[k]) /\ Edge(T[k]).to = f[k]
          /\ Saturate(search.dist[<<Edge(T[k]).from, key[2] - 1>>] + planner.cost[T[k]]) <= search.dist[key]
        BY <2>3, <2>4, <2>5 DEF LeadsBack
    <2>8. QED
        BY <2>1, <2>2, <2>3, <2>6, <2>7
<1>11. T \in Seq(Edges) /\ Len(T) = h
    <2>1. T \in [1..h -> Edges]
        BY <1>7, <1>10
    <2>2. QED
        BY <2>1, RowIsSeq
<1> DEFINE Leads(k) == /\ Track(edge, SubSeq(T, 1, k), f[k])
                       /\ RouteCost(SubSeq(T, 1, k)) <= search.dist[<<f[k], k>>]
<1>12. ASSUME NEW k \in 0..h, k # 0, Leads(k - 1) PROVE Leads(k)
    <2>1. k \in 1..h /\ k - 1 \in Nat /\ (k - 1) + 1 = k /\ (k - 1) + 1 <= Len(T)
        BY <1>11, <1>12
    <2>2. PICK p : p = SubSeq(T, 1, k - 1)
        OBVIOUS
    <2>3. PICK e : e = T[k]
        OBVIOUS
    <2>4. SubSeq(T, 1, k) = Append(p, e)
        <3>1. SubSeq(T, 1, (k - 1) + 1) = Append(SubSeq(T, 1, k - 1), T[(k - 1) + 1])
            BY <1>11, <2>1, PrefixGrows
        <3>2. QED
            BY <2>1, <2>2, <2>3, <3>1
    <2>5. Track(edge, p, f[k - 1]) /\ RouteCost(p) <= search.dist[<<f[k - 1], k - 1>>]
        BY <1>12, <2>2
    <2>6. /\ k - 1 \in 0..h /\ e \in Edges /\ PassableOn(edge, e) /\ Edge(e).to = f[k] /\ Edge(e).from = f[k - 1]
          /\ Saturate(search.dist[<<f[k - 1], k - 1>>] + planner.cost[e]) <= search.dist[<<f[k], k>>]
        BY <1>10, <2>1, <2>3
    <2>7. PICK a : a = search.dist[<<f[k - 1], k - 1>>]
        OBVIOUS
    <2>8. PICK b : b = search.dist[<<f[k], k>>]
        OBVIOUS
    <2>9. a \in Nat /\ b \in Nat /\ b <= Policy.max_path_cost
        BY <1>9, <2>6, <2>7, <2>8 DEF Searches
    <2>10. RouteCost(p) \in Nat /\ planner.cost[e] \in Nat /\ Policy.max_path_cost \in Nat
        <3>1. p \in Routes
            BY <2>5 DEF Track
        <3>2. PlannerSet /\ Policy.max_path_cost \in Nat
            BY SetupFacts
        <3>3. QED
            BY <2>6, <3>1, <3>2, RouteCostType DEF PlannerSet
    <2>11. /\ Saturate(RouteCost(p) + planner.cost[e]) <= Saturate(a + planner.cost[e])
           /\ Saturate(RouteCost(p) + planner.cost[e]) \in Nat /\ Saturate(a + planner.cost[e]) \in Nat
        <3>1. RouteCost(p) <= a
            BY <2>5, <2>7
        <3>2. QED
            BY <2>9, <2>10, <3>1, SaturateMonotone
    <2>12. Saturate(RouteCost(p) + planner.cost[e]) <= b
        BY <2>6, <2>7, <2>8, <2>9, <2>11
    <2>13. Saturate(RouteCost(p) + planner.cost[e]) <= Policy.max_path_cost
        BY <2>9, <2>10, <2>11, <2>12
    <2>14. /\ Track(edge, Append(p, e), Edge(e).to)
           /\ RouteCost(Append(p, e)) = Saturate(RouteCost(p) + planner.cost[e])
        BY <2>5, <2>6, <2>13, TrackAppend
    <2>15. QED
        BY <2>4, <2>6, <2>8, <2>12, <2>14
<1>13. Leads(0)
    <2>1. SubSeq(T, 1, 0) = <<>>
        BY SubSeqEmpty
    <2>2. PICK key : key = <<f[0], 0>>
        OBVIOUS
    <2>3. key \in DOMAIN search.dist /\ key[1] = f[0] /\ key[2] = 0
        BY <1>9, <2>2
    <2>4. f[0] = From(edge).node /\ search.dist[key] \in Nat
        BY <2>3 DEF Searches
    <2>5. RouteCost(<<>>) = 0 /\ Track(edge, <<>>, From(edge).node)
        BY TrackEmpty
    <2>6. Track(edge, SubSeq(T, 1, 0), f[0])
        BY <2>1, <2>4, <2>5
    <2>7. search.dist[<<f[0], 0>>] \in Nat /\ RouteCost(SubSeq(T, 1, 0)) = 0
        BY <2>1, <2>2, <2>4, <2>5
    <2>8. QED
        BY <2>6, <2>7
<1> HIDE DEF Leads
<1>14. Leads(h)
    <2>1. PICK B : B = {i \in 0..h : ~Leads(i)}
        OBVIOUS
    <2>2. SUFFICES ASSUME B # {} PROVE FALSE
        BY <2>1
    <2>3. B \subseteq Nat
        BY <2>1
    <2>4. PICK i \in B : \A j \in B : i <= j
        BY <2>2, <2>3, NatMin
    <2>5. i \in 0..h /\ ~Leads(i)
        BY <2>1
    <2>6. i # 0
        BY <1>13, <2>5
    <2>7. i - 1 \in 0..h /\ i - 1 \notin B
        BY <2>4, <2>5, <2>6
    <2>8. Leads(i - 1)
        BY <2>1, <2>7
    <2>9. QED
        BY <1>12, <2>5, <2>6, <2>8
<1>15. SubSeq(T, 1, h) = T
    BY <1>11, SubSeqFull
<1>16. f[h] = n
    <2>1. h \in 0..h
        OBVIOUS
    <2>2. QED
        BY <1>8, <2>1
<1>17. Track(edge, T, n) /\ RouteCost(T) <= search.dist[<<n, h>>]
    BY <1>14, <1>15, <1>16 DEF Leads
<1>18. Key(l) = <<n, h>>
    BY <1>2, <1>3 DEF Key
<1>19. ASSUME NEW k \in DOMAIN T
       PROVE  \E key \in DOMAIN search.dist : key[2] # 0 /\ T[k] = search.prev[key]
    <2>1. k \in 1..h /\ k \in 0..h
        BY <1>11
    <2>2. PICK key : key = <<f[k], k>>
        OBVIOUS
    <2>3. key \in DOMAIN search.dist /\ key[2] # 0
        BY <1>9, <2>1, <2>2
    <2>4. T[k] = search.prev[key]
        BY <1>7, <2>1, <2>2
    <2>5. QED
        BY <2>3, <2>4
<1>20. QED
    BY <1>2, <1>3, <1>6, <1>11, <1>17, <1>18, <1>19

\* What expanding a label by the edges A means for the search: s before it, t after it.
KeysOf(l, A) == {<<Edge(e).to, l.hops + 1>> : e \in A}
CostsFrom(l) == [e \in Edges |-> Saturate(l.cost + planner.cost[e])]
LabelsOf(l, A, c) == {[cost |-> c[e], hops |-> l.hops + 1, node |-> Edge(e).to] : e \in A}
Leads(v, K, l) == \A k \in K : <<Edge(v[k]).to, l.hops + 1>> = k
Betters(s, l, A, c) ==
    \A e \in A : /\ Edge(e).from = l.node /\ PassableOn(edge, e)
                 /\ c[e] <= Policy.max_path_cost
                 /\ <<Edge(e).to, l.hops + 1>> \in DOMAIN s.dist =>
                        c[e] < s.dist[<<Edge(e).to, l.hops + 1>>]
NewDist(s, K, c, v) == [k \in K \cup DOMAIN s.dist |-> IF k \in K THEN c[v[k]] ELSE s.dist[k]]
NewPrev(s, K, v) == [k \in K \cup DOMAIN s.prev |-> IF k \in K THEN v[k] ELSE s.prev[k]]
Expansion(s, l, A, K, c, v, D, P, F, t) ==
    /\ Searches(s) /\ l \in s.frontier /\ s.dist[Key(l)] = l.cost
    /\ A \subseteq Edges /\ K = KeysOf(l, A) /\ c = CostsFrom(l)
    /\ v \in [K -> A] /\ Leads(v, K, l) /\ Betters(s, l, A, c)
    /\ D = NewDist(s, K, c, v) /\ P = NewPrev(s, K, v)
    /\ F = (s.frontier \ {l}) \cup LabelsOf(l, A, c)
    /\ t = [dist |-> D, prev |-> P, frontier |-> F]

\* What the parts of an expansion are.
LEMMA ExpansionIs ==
    ASSUME SetupOk, NEW s, NEW l, NEW A, NEW K, NEW c, NEW v, NEW D, NEW P, NEW F, NEW t,
           Expansion(s, l, A, K, c, v, D, P, F, t)
    PROVE  /\ l.cost \in Nat /\ l.hops \in Nat /\ l.node \in Int
           /\ Key(l) = <<l.node, l.hops>> /\ Key(l) \in DOMAIN s.dist /\ Key(l) \notin K
           /\ \A e \in Edges : c[e] = Saturate(l.cost + planner.cost[e]) /\ planner.cost[e] \in Nat /\ c[e] \in Nat
           /\ \A e \in A : e \in Edges /\ Edge(e).to \in Int
           /\ \A k \in K : v[k] \in A /\ k[1] = Edge(v[k]).to /\ k[2] = l.hops + 1 /\ k \in Int \X Nat
           /\ DOMAIN D = K \cup DOMAIN s.dist /\ DOMAIN P = K \cup DOMAIN s.prev
           /\ \A k \in K : D[k] = c[v[k]] /\ P[k] = v[k]
           /\ \A k \in DOMAIN s.dist : k \notin K => D[k] = s.dist[k]
           /\ \A k \in DOMAIN s.prev : k \notin K => P[k] = s.prev[k]
           /\ \A k \in DOMAIN s.dist : D[k] <= s.dist[k] /\ D[k] \in Nat
           /\ t.dist = D /\ t.prev = P /\ t.frontier = F /\ DOMAIN t = {"dist", "prev", "frontier"}
<1>1. /\ Searches(s) /\ l \in s.frontier /\ s.dist[Key(l)] = l.cost
      /\ A \subseteq Edges /\ K = {<<Edge(e).to, l.hops + 1>> : e \in A}
    BY DEF Expansion, KeysOf
<1>2. \A e \in Edges : c[e] = Saturate(l.cost + planner.cost[e])
    BY DEF Expansion, CostsFrom
<1>3. \A k \in K : v[k] \in A /\ <<Edge(v[k]).to, l.hops + 1>> = k
    BY DEF Expansion, Leads
<1>4. \A e \in A : /\ Edge(e).from = l.node /\ PassableOn(edge, e)
                   /\ c[e] <= Policy.max_path_cost
                   /\ <<Edge(e).to, l.hops + 1>> \in DOMAIN s.dist =>
                          c[e] < s.dist[<<Edge(e).to, l.hops + 1>>]
    BY DEF Expansion, Betters
<1>5. F = (s.frontier \ {l}) \cup
             {[cost |-> c[e], hops |-> l.hops + 1, node |-> Edge(e).to] : e \in A}
    BY DEF Expansion, LabelsOf
<1>6. /\ l.cost \in Nat /\ l.hops \in Nat /\ l.node \in Int /\ Key(l) \in DOMAIN s.dist
    BY <1>1 DEF Searches, Labels
<1>7. PICK o : o = Key(l)
    OBVIOUS
<1>8. o[1] = l.node /\ o[2] = l.hops /\ o \in DOMAIN s.dist /\ s.dist[o] = l.cost /\ o = <<l.node, l.hops>>
    BY <1>6, <1>7, <1>1 DEF Key
<1>9. \A e \in Edges : c[e] = Saturate(l.cost + planner.cost[e]) /\ planner.cost[e] \in Nat /\ c[e] \in Nat
    <2>1. \A e \in Edges : planner.cost[e] \in Nat
        BY SetupFacts DEF PlannerSet
    <2>2. \A e \in Edges : l.cost + planner.cost[e] \in Nat
        BY <1>6, <2>1
    <2>3. \A e \in Edges : Saturate(l.cost + planner.cost[e]) \in Nat
        BY <2>2, SaturateType
    <2>4. QED
        BY <1>2, <2>1, <2>3
<1>10. \A e \in A : e \in Edges /\ Edge(e).to \in Int
    <2>1. \A e \in Edges : Edge(e) \in FabricEdges
        BY SetupFacts
    <2>2. \A e \in Edges : Edge(e).to \in Int
        BY <2>1 DEF FabricEdges
    <2>3. QED
        BY <1>1, <2>2
<1>11. \A k \in K : v[k] \in A /\ k[1] = Edge(v[k]).to /\ k[2] = l.hops + 1 /\ k \in Int \X Nat
    <2>1. ASSUME NEW k \in K PROVE v[k] \in A /\ k = <<Edge(v[k]).to, l.hops + 1>>
        BY <1>3
    <2>2. ASSUME NEW k \in K PROVE k[1] = Edge(v[k]).to /\ k[2] = l.hops + 1 /\ k \in Int \X Nat
        <3>1. PICK x : x = Edge(v[k]).to
            OBVIOUS
        <3>2. PICK h \in Nat : h = l.hops + 1
            BY <1>6
        <3>3. k = <<x, h>> /\ x \in Int
            BY <1>10, <2>1, <3>1, <3>2
        <3>4. <<x, h>>[1] = x /\ <<x, h>>[2] = h /\ <<x, h>> \in Int \X Nat
            BY <3>2, <3>3
        <3>5. QED
            BY <3>1, <3>2, <3>3, <3>4
    <2>3. QED
        BY <2>1, <2>2
<1>12. o \notin K
    BY <1>6, <1>8, <1>11
<1>13. DOMAIN D = K \cup DOMAIN s.dist /\ DOMAIN P = K \cup DOMAIN s.prev
    BY DEF Expansion, NewDist, NewPrev
<1>14. /\ \A k \in K : D[k] = c[v[k]] /\ P[k] = v[k]
       /\ \A k \in DOMAIN s.dist : k \notin K => D[k] = s.dist[k]
       /\ \A k \in DOMAIN s.prev : k \notin K => P[k] = s.prev[k]
    BY DEF Expansion, NewDist, NewPrev
<1>15. D[o] = l.cost /\ o \in DOMAIN D
    BY <1>8, <1>12, <1>13, <1>14
<1>16. \A k \in DOMAIN s.dist : s.dist[k] \in Nat /\ s.dist[k] <= Policy.max_path_cost /\ k \in Int \X Nat
    BY <1>1 DEF Searches
<1>17. ASSUME NEW k \in DOMAIN s.dist PROVE D[k] <= s.dist[k] /\ D[k] \in Nat
    <2>1. CASE k \in K
        <3>1. PICK e : e = v[k]
            OBVIOUS
        <3>2. e \in A /\ <<Edge(e).to, l.hops + 1>> = k
            BY <1>3, <2>1, <3>1
        <3>3. c[e] < s.dist[k] /\ c[e] \in Nat
            BY <1>9, <1>10, <1>17, <1>4, <3>2
        <3>4. D[k] = c[e]
            BY <1>14, <2>1, <3>1
        <3>5. QED
            BY <1>16, <1>17, <3>3, <3>4
    <2>2. CASE k \notin K
        <3>1. D[k] = s.dist[k]
            BY <1>14, <1>17, <2>2
        <3>2. QED
            BY <1>16, <1>17, <3>1
    <2>3. QED
        BY <2>1, <2>2
<1>18. t.dist = D /\ t.prev = P /\ t.frontier = F /\ DOMAIN t = {"dist", "prev", "frontier"}
    BY DEF Expansion
<1>19. QED
    BY <1>6, <1>7, <1>8, <1>9, <1>10, <1>11, <1>12, <1>13, <1>14, <1>17, <1>18

\* A label that is expanded: the search still leads back to the source.
LEMMA ExpandedSearches ==
    ASSUME SetupOk, NEW s, NEW l, NEW A, NEW K, NEW c, NEW v, NEW D, NEW P, NEW F, NEW t,
           Expansion(s, l, A, K, c, v, D, P, F, t)
    PROVE  Searches(t)
<1>1. /\ Searches(s) /\ l \in s.frontier /\ s.dist[Key(l)] = l.cost
      /\ A \subseteq Edges /\ K = {<<Edge(e).to, l.hops + 1>> : e \in A}
    BY DEF Expansion, KeysOf
<1>2. \A e \in Edges : c[e] = Saturate(l.cost + planner.cost[e])
    BY DEF Expansion, CostsFrom
<1>4. \A e \in A : /\ Edge(e).from = l.node /\ PassableOn(edge, e)
                   /\ c[e] <= Policy.max_path_cost
                   /\ <<Edge(e).to, l.hops + 1>> \in DOMAIN s.dist =>
                          c[e] < s.dist[<<Edge(e).to, l.hops + 1>>]
    BY DEF Expansion, Betters
<1>5. F = (s.frontier \ {l}) \cup
             {[cost |-> c[e], hops |-> l.hops + 1, node |-> Edge(e).to] : e \in A}
    BY DEF Expansion, LabelsOf
<1>6. /\ l.cost \in Nat /\ l.hops \in Nat /\ l.node \in Int /\ Key(l) \in DOMAIN s.dist
    BY ExpansionIs
<1>7. PICK o : o = Key(l)
    OBVIOUS
<1>8. o[1] = l.node /\ o[2] = l.hops /\ o \in DOMAIN s.dist /\ s.dist[o] = l.cost /\ o = <<l.node, l.hops>>
    BY <1>6, <1>7, <1>1 DEF Key
<1>9. \A e \in Edges : c[e] = Saturate(l.cost + planner.cost[e]) /\ planner.cost[e] \in Nat /\ c[e] \in Nat
    BY ExpansionIs
<1>10. \A e \in A : e \in Edges /\ Edge(e).to \in Int
    BY ExpansionIs
<1>11. \A k \in K : v[k] \in A /\ k[1] = Edge(v[k]).to /\ k[2] = l.hops + 1 /\ k \in Int \X Nat
    BY ExpansionIs
<1>12. o \notin K
    BY <1>7, ExpansionIs
<1>13. DOMAIN D = K \cup DOMAIN s.dist /\ DOMAIN P = K \cup DOMAIN s.prev
    BY DEF Expansion, NewDist, NewPrev
<1>14. /\ \A k \in K : D[k] = c[v[k]] /\ P[k] = v[k]
       /\ \A k \in DOMAIN s.dist : k \notin K => D[k] = s.dist[k]
       /\ \A k \in DOMAIN s.prev : k \notin K => P[k] = s.prev[k]
    BY DEF Expansion, NewDist, NewPrev
<1>15. D[o] = l.cost /\ o \in DOMAIN D
    BY <1>8, <1>12, <1>13, <1>14
<1>16. \A k \in DOMAIN s.dist : s.dist[k] \in Nat /\ s.dist[k] <= Policy.max_path_cost /\ k \in Int \X Nat
    BY <1>1 DEF Searches
<1>17. \A k \in DOMAIN s.dist : D[k] <= s.dist[k] /\ D[k] \in Nat
    BY ExpansionIs
<1>18. t.dist = D /\ t.prev = P /\ t.frontier = F /\ DOMAIN t = {"dist", "prev", "frontier"}
    BY DEF Expansion
<1>19. ASSUME NEW k \in K
       PROVE  /\ k \in Int \X Nat /\ D[k] \in Nat /\ D[k] <= Policy.max_path_cost
              /\ k[2] # 0 /\ LeadsBack(t, k)
    <2>1. PICK e : e = v[k]
        OBVIOUS
    <2>2. e \in A /\ e \in Edges /\ Edge(e).to = k[1] /\ k[2] = l.hops + 1
        BY <1>10, <1>11, <1>19, <2>1
    <2>3. D[k] = c[e] /\ P[k] = e /\ k \in DOMAIN P
        BY <1>13, <1>14, <1>19, <2>1
    <2>4. Edge(e).from = l.node /\ PassableOn(edge, e) /\ c[e] <= Policy.max_path_cost
        BY <1>4, <2>2
    <2>5. k[2] - 1 = l.hops
        BY <1>6, <2>2
    <2>6. <<Edge(e).from, k[2] - 1>> = o
        BY <1>8, <2>4, <2>5
    <2>7. Saturate(D[o] + planner.cost[e]) = c[e] /\ c[e] \in Nat
        BY <1>9, <1>2, <1>15, <2>2
    <2>8. LeadsBack(t, k)
        <3>1. t.prev[k] = e /\ k \in DOMAIN t.prev /\ t.dist[k] = c[e] /\ t.dist[o] = D[o] /\ o \in DOMAIN t.dist
            BY <1>15, <1>18, <2>3
        <3>2. PICK x : x = t.dist[o]
            OBVIOUS
        <3>3. x = D[o] /\ Saturate(x + planner.cost[e]) = c[e]
            BY <2>7, <3>1, <3>2
        <3>6. PICK n \in Nat : n = c[e]
            BY <2>7
        <3>8. n <= n
            BY SMT
        <3>9. Saturate(x + planner.cost[e]) = n /\ t.dist[k] = n
            BY <3>1, <3>3, <3>6, Zenon
        <3>7. Saturate(x + planner.cost[e]) <= t.dist[k]
            BY <3>8, <3>9, Zenon
        <3>4. Saturate(t.dist[o] + planner.cost[e]) <= t.dist[k]
            BY <3>2, <3>7
        <3>5. QED
            BY <2>2, <2>4, <2>6, <3>1, <3>4 DEF LeadsBack
    <2>9. k[2] # 0
        BY <1>6, <2>2
    <2>10. QED
        BY <1>11, <1>19, <2>3, <2>4, <2>7, <2>8, <2>9
<1>20. ASSUME NEW k \in DOMAIN s.dist, k \notin K
       PROVE  /\ k \in Int \X Nat /\ D[k] \in Nat /\ D[k] <= Policy.max_path_cost
              /\ IF k[2] = 0 THEN k[1] = From(edge).node ELSE LeadsBack(t, k)
    <2>1. D[k] = s.dist[k]
        BY <1>14, <1>20
    <2>2. k \in Int \X Nat /\ D[k] \in Nat /\ D[k] <= Policy.max_path_cost
        BY <1>16, <1>20, <2>1
    <2>3. CASE k[2] = 0
        <3>1. k[1] = From(edge).node
            BY <1>20, <1>1, <2>3 DEF Searches
        <3>2. QED
            BY <2>2, <2>3, <3>1
    <2>4. CASE k[2] # 0
        <3>1. LeadsBack(s, k)
            BY <1>20, <1>1, <2>4 DEF Searches
        <3>2. PICK e : e = s.prev[k]
            OBVIOUS
        <3>3. PICK j : j = <<Edge(e).from, k[2] - 1>>
            OBVIOUS
        <3>4. /\ k \in DOMAIN s.prev /\ e \in Edges /\ PassableOn(edge, e) /\ Edge(e).to = k[1]
              /\ j \in DOMAIN s.dist /\ Saturate(s.dist[j] + planner.cost[e]) <= s.dist[k]
            BY <3>1, <3>2, <3>3 DEF LeadsBack
        <3>5. P[k] = e /\ k \in DOMAIN P
            BY <1>13, <1>14, <1>20, <3>2, <3>4
        <3>6. D[j] <= s.dist[j] /\ D[j] \in Nat /\ s.dist[j] \in Nat /\ j \in DOMAIN D
            BY <1>13, <1>16, <1>17, <3>4
        <3>7. planner.cost[e] \in Nat
            BY <1>9, <3>4
        <3>8. /\ Saturate(D[j] + planner.cost[e]) <= Saturate(s.dist[j] + planner.cost[e])
              /\ Saturate(D[j] + planner.cost[e]) \in Nat /\ Saturate(s.dist[j] + planner.cost[e]) \in Nat
            BY <3>6, <3>7, SaturateMonotone
        <3>9. Saturate(D[j] + planner.cost[e]) <= D[k]
            <4>1. PICK x, y : x = Saturate(D[j] + planner.cost[e]) /\ y = Saturate(s.dist[j] + planner.cost[e])
                OBVIOUS
            <4>2. x \in Nat /\ y \in Nat /\ x <= y /\ y <= s.dist[k] /\ s.dist[k] \in Nat
                BY <1>16, <1>20, <3>4, <3>8, <4>1
            <4>3. x <= s.dist[k]
                BY <4>2
            <4>4. QED
                BY <2>1, <4>1, <4>3
        <3>10. LeadsBack(t, k)
            BY <1>18, <3>3, <3>4, <3>5, <3>6, <3>9 DEF LeadsBack
        <3>11. QED
            BY <2>2, <2>4, <3>10
    <2>5. QED
        BY <2>3, <2>4
<1>21. ASSUME NEW k \in DOMAIN t.dist
       PROVE  /\ k \in Int \X Nat /\ t.dist[k] \in Nat /\ t.dist[k] <= Policy.max_path_cost
              /\ IF k[2] = 0 THEN k[1] = From(edge).node ELSE LeadsBack(t, k)
    BY <1>13, <1>18, <1>19, <1>20
<1>22. PICK N : N = {[cost |-> c[e], hops |-> l.hops + 1, node |-> Edge(e).to] : e \in A}
    OBVIOUS
<1>23. IsFiniteSet(N)
    <2>1. IsFiniteSet(A)
        BY <1>1, SetupFacts, FS_Subset
    <2>2. PICK g : g = [e \in A |-> [cost |-> c[e], hops |-> l.hops + 1, node |-> Edge(e).to]]
        OBVIOUS
    <2>3. g \in Surjection(A, N)
        BY <1>22, <2>2 DEF Surjection
    <2>4. QED
        BY <2>1, <2>3, FS_Surjection
<1>24. ASSUME NEW m \in N PROVE m \in Labels /\ Key(m) \in DOMAIN D
    <2>1. PICK e \in A : m = [cost |-> c[e], hops |-> l.hops + 1, node |-> Edge(e).to]
        BY <1>22, <1>24
    <2>2. m.cost = c[e] /\ m.hops = l.hops + 1 /\ m.node = Edge(e).to
        BY <2>1
    <2>3. m \in Labels
        BY <1>6, <1>9, <1>10, <2>1 DEF Labels
    <2>4. Key(m) \in K
        BY <1>1, <2>2 DEF Key
    <2>5. QED
        BY <1>13, <2>3, <2>4
<1>25. PICK R : R = s.frontier \ {l}
    OBVIOUS
<1>26. IsFiniteSet(R) /\ \A m \in R : m \in Labels /\ Key(m) \in DOMAIN D
    <2>1. IsFiniteSet(s.frontier) /\ \A m \in s.frontier : m \in Labels /\ Key(m) \in DOMAIN s.dist
        BY <1>1 DEF Searches
    <2>2. R \subseteq s.frontier
        BY <1>25
    <2>3. QED
        BY <1>13, <2>1, <2>2, FS_Subset
<1>27. F = R \cup N
    BY <1>22, <1>25, <1>5
<1>28. IsFiniteSet(F)
    <2>1. IsFiniteSet(R) /\ IsFiniteSet(N)
        BY <1>23, <1>26
    <2>2. IsFiniteSet(R \cup N)
        BY <2>1, FS_Union
    <2>3. QED
        BY <1>27, <2>2
<1>29. F \subseteq Labels /\ \A m \in F : Key(m) \in DOMAIN D
    BY <1>24, <1>26, <1>27
<1>30. QED
    BY <1>18, <1>21, <1>28, <1>29 DEF Searches

\* What one expansion adds: edges that leave the label's node, cheaper than what is known.
LEMMA RelaxedIs ==
    ASSUME SetupOk, BoundEnds(edge), NEW l
    PROVE  /\ Relaxed(l) \subseteq Edges
           /\ \A e \in Relaxed(l) :
                 /\ Edge(e).from = l.node /\ PassableOn(edge, e)
                 /\ Saturate(l.cost + planner.cost[e]) <= Policy.max_path_cost
                 /\ <<Edge(e).to, l.hops + 1>> \in DOMAIN search.dist =>
                        Saturate(l.cost + planner.cost[e]) < search.dist[<<Edge(e).to, l.hops + 1>>]
<1>1. ASSUME NEW e \in Relaxed(l)
      PROVE  /\ e \in Edges /\ Edge(e).from = l.node /\ hop_usable(e)
             /\ Saturate(l.cost + planner.cost[e]) <= Policy.max_path_cost
             /\ <<Edge(e).to, l.hops + 1>> \in DOMAIN search.dist =>
                    Saturate(l.cost + planner.cost[e]) < search.dist[<<Edge(e).to, l.hops + 1>>]
    BY DEF Relaxed
<1>2. \A e : hop_usable(e) => PassableOn(edge, e)
    BY EndsHere, SetupFacts DEF hop_usable
<1>3. QED
    BY <1>1, <1>2

\* A step of the search with the rest left alone.
LEMMA SearchGoesOn ==
    ASSUME Working, pc = "search", verdict' = verdict,
           UNCHANGED <<request, limits, planner, edge, plans, blocks, enumerated,
                       walk, pool, sample, task, combo>>,
           expansions' \in Nat, expansions' <= Policy.max_search_expansions,
           \/ pc' = "search" /\ found' = Nothing /\ Searches(search')
           \/ pc' = "pool" /\ FoundOk(found')
    PROVE  Working'
<1>1. pc \in Analysing /\ pc' \in Analysing
    BY DEF Analysing
<1>2. /\ SetupOk /\ StartedOk /\ verdict = "none"
      /\ AnalysisFits("search", walk, pool, blocks, sample, task, search, found, combo)
      /\ enumerated \in Nat /\ enumerated <= limits.max_total_enumeration_steps
    BY <1>1, AnalysingFacts
<1>3. AnalysisFits(pc', walk', pool', blocks', sample', task', search', found', combo')
    BY <1>2 DEF AnalysisFits
<1>4. QED
    BY <1>1, <1>2, <1>3, AnalysisStep

\* The search behind the expansion of a label by the edges A.
ExpandedBy(A, l) ==
    [dist |-> [k \in {<<Edge(e).to, l.hops + 1>> : e \in A} \cup DOMAIN search.dist |->
                  IF k \in {<<Edge(e).to, l.hops + 1>> : e \in A}
                  THEN Saturate(l.cost + planner.cost[CHOOSE e \in A : <<Edge(e).to, l.hops + 1>> = k])
                  ELSE search.dist[k]],
     prev |-> [k \in {<<Edge(e).to, l.hops + 1>> : e \in A} \cup DOMAIN search.prev |->
                  IF k \in {<<Edge(e).to, l.hops + 1>> : e \in A}
                  THEN CHOOSE e \in A : <<Edge(e).to, l.hops + 1>> = k
                  ELSE search.prev[k]],
     frontier |-> (search.frontier \ {l}) \cup
                      {[cost |-> Saturate(l.cost + planner.cost[e]), hops |-> l.hops + 1,
                        node |-> Edge(e).to] : e \in A}]

\* That is an expansion.
LEMMA LabelExpands ==
    ASSUME SetupOk, BoundEnds(edge), Searches(search), NEW l \in search.frontier,
           search.dist[Key(l)] = l.cost, NEW A, A = Relaxed(l)
    PROVE  \E K, c, v, D, P, F : Expansion(search, l, A, K, c, v, D, P, F, ExpandedBy(A, l))
<1>1. PICK K : K = KeysOf(l, A) /\ K = {<<Edge(e).to, l.hops + 1>> : e \in A}
    BY DEF KeysOf
<1>2. PICK c : c = CostsFrom(l) /\ c = [e \in Edges |-> Saturate(l.cost + planner.cost[e])]
    BY DEF CostsFrom
<1>3. PICK v : v = [k \in K |-> CHOOSE e \in A : <<Edge(e).to, l.hops + 1>> = k]
    OBVIOUS
<1>4. v \in [K -> A] /\ \A k \in K : <<Edge(v[k]).to, l.hops + 1>> = k
    <2>1. ASSUME NEW k \in K PROVE v[k] \in A /\ <<Edge(v[k]).to, l.hops + 1>> = k
        <3>1. \E e \in A : <<Edge(e).to, l.hops + 1>> = k
            BY <1>1
        <3>2. v[k] = CHOOSE e \in A : <<Edge(e).to, l.hops + 1>> = k
            BY <1>3
        <3>3. QED
            BY <3>1, <3>2
    <2>2. QED
        BY <1>3, <2>1
<1>5. /\ A \subseteq Edges
      /\ \A e \in A : /\ Edge(e).from = l.node /\ PassableOn(edge, e)
                      /\ c[e] = Saturate(l.cost + planner.cost[e])
                      /\ c[e] <= Policy.max_path_cost
                      /\ <<Edge(e).to, l.hops + 1>> \in DOMAIN search.dist =>
                             c[e] < search.dist[<<Edge(e).to, l.hops + 1>>]
    <2>1. A \subseteq Edges
        BY RelaxedIs
    <2>2. \A e \in A : c[e] = Saturate(l.cost + planner.cost[e])
        BY <1>2, <2>1
    <2>3. QED
        BY <2>1, <2>2, RelaxedIs
<1>6. PICK F : F = (search.frontier \ {l}) \cup LabelsOf(l, A, c)
    OBVIOUS
<1>7. PICK D : D = NewDist(search, K, c, v)
    OBVIOUS
<1>8. PICK P : P = NewPrev(search, K, v)
    OBVIOUS
<1>9. PICK s, t : s = search /\ t = [dist |-> D, prev |-> P, frontier |-> F]
    OBVIOUS
<1>10. Expansion(s, l, A, K, c, v, D, P, F, t)
    <2>1. Searches(s) /\ l \in s.frontier /\ s.dist[Key(l)] = l.cost
        BY <1>9
    <2>2. Betters(s, l, A, c) /\ A \subseteq Edges
        BY <1>5, <1>9 DEF Betters
    <2>3. v \in [K -> A] /\ Leads(v, K, l)
        BY <1>4 DEF Leads
    <2>4. QED
        BY <1>1, <1>2, <1>6, <1>7, <1>8, <1>9, <2>1, <2>2, <2>3 DEF Expansion
<1> DEFINE ND == [k \in {<<Edge(e).to, l.hops + 1>> : e \in A} \cup DOMAIN search.dist |->
                          IF k \in {<<Edge(e).to, l.hops + 1>> : e \in A}
                          THEN Saturate(l.cost + planner.cost[CHOOSE e \in A : <<Edge(e).to, l.hops + 1>> = k])
                          ELSE search.dist[k]]
           NP == [k \in {<<Edge(e).to, l.hops + 1>> : e \in A} \cup DOMAIN search.prev |->
                          IF k \in {<<Edge(e).to, l.hops + 1>> : e \in A}
                          THEN CHOOSE e \in A : <<Edge(e).to, l.hops + 1>> = k
                          ELSE search.prev[k]]
           NF == (search.frontier \ {l}) \cup
                          {[cost |-> Saturate(l.cost + planner.cost[e]), hops |-> l.hops + 1,
                            node |-> Edge(e).to] : e \in A}
<1>11. ND = D
    <2>1. \A k \in K : c[v[k]] = Saturate(l.cost + planner.cost[CHOOSE e \in A : <<Edge(e).to, l.hops + 1>> = k])
        <3>1. ASSUME NEW k \in K
              PROVE  c[v[k]] = Saturate(l.cost + planner.cost[CHOOSE e \in A : <<Edge(e).to, l.hops + 1>> = k])
            <4>1. v[k] = CHOOSE e \in A : <<Edge(e).to, l.hops + 1>> = k
                BY <1>3
            <4>2. v[k] \in A
                BY <1>4
            <4>3. c[v[k]] = Saturate(l.cost + planner.cost[v[k]])
                BY <1>5, <4>2
            <4>4. QED
                BY <4>1, <4>3
        <3>2. QED
            BY <3>1
    <2>2. QED
        BY <1>1, <1>7, <2>1 DEF NewDist
<1>12. NP = P
    BY <1>1, <1>3, <1>8 DEF NewPrev
<1>13. NF = F
    BY <1>2, <1>5, <1>6 DEF LabelsOf
<1>14. t = ExpandedBy(A, l)
    <2>1. ExpandedBy(A, l) = [dist |-> ND, prev |-> NP, frontier |-> NF]
        BY DEF ExpandedBy
    <2>2. QED
        BY <1>9, <1>11, <1>12, <1>13, <2>1
<1>15. QED
    BY <1>9, <1>10, <1>14

\* Taking a label from the frontier keeps the invariant.
LEMMA PopKeeps ==
    ASSUME Working, Pop, verdict' = verdict
    PROVE  Working'
<1>1. /\ pc = "search" /\ search.frontier # {} /\ pc \in Analysing
      /\ UNCHANGED <<request, limits, planner, edge, plans, blocks, enumerated,
                     walk, pool, sample, task, combo>>
    BY DEF Pop, Analysing
<1>2. /\ SetupOk /\ BoundEnds(edge) /\ verdict = "none"
      /\ AnalysisFits("search", walk, pool, blocks, sample, task, search, found, combo)
      /\ expansions \in Nat /\ expansions <= Policy.max_search_expansions
    BY <1>1, AnalysingFacts
<1>3. Searches(search) /\ found = Nothing
    BY <1>2 DEF AnalysisFits
<1>4. PICK l : l = Label
    OBVIOUS
<1>5. l \in search.frontier
    BY <1>1, <1>3, <1>4, LabelIsTaken DEF Searches
<1>6. PICK R : R = search.frontier \ {l}
    OBVIOUS
<1>7. ASSUME search' = [search EXCEPT !.frontier = R], UNCHANGED <<expansions, found, pc>>
      PROVE  Working'
    <2>1. PICK t : t = search'
        OBVIOUS
    <2>2. t.dist = search.dist /\ t.prev = search.prev /\ t.frontier = R /\ DOMAIN t = {"dist", "prev", "frontier"}
        BY <1>3, <1>7, <2>1 DEF Searches
    <2>3. R \subseteq search.frontier
        BY <1>6
    <2>4. IsFiniteSet(R) /\ R \subseteq Labels /\ \A m \in R : Key(m) \in DOMAIN search.dist
        BY <1>3, <2>3, FS_Subset DEF Searches
    <2>5. \A k : LeadsBack(search, k) => LeadsBack(t, k)
        BY <2>2 DEF LeadsBack
    <2>6. Searches(t)
        BY <1>3, <2>2, <2>4, <2>5 DEF Searches
    <2>7. QED
        BY <1>1, <1>2, <1>3, <1>7, <2>1, <2>6, SearchGoesOn
<1>8. ASSUME l.node = Target, found' = Trace(l), pc' = "pool", UNCHANGED <<search, expansions>>
      PROVE  Working'
    <2>1. Target = Upto(edge).node
        BY <1>2, EndsHere, SetupFacts
    <2>2. Track(edge, Trace(l), l.node)
        BY <1>2, <1>3, <1>5, TraceIs
    <2>3. FoundOk(found')
        BY <1>8, <2>1, <2>2 DEF FoundOk
    <2>4. QED
        BY <1>1, <1>2, <1>8, <2>3, SearchGoesOn
<1>9. ASSUME pc' = "pool", UNCHANGED <<expansions, found>> PROVE Working'
    <2>1. FoundOk(found')
        BY <1>3, <1>9 DEF FoundOk
    <2>2. QED
        BY <1>1, <1>2, <1>9, <2>1, SearchGoesOn
<1>10. PICK A : A = Relaxed(l)
    OBVIOUS
<1>11. ASSUME search.dist[Key(l)] = l.cost, expansions < Policy.max_search_expansions,
              expansions' = expansions + 1, found' = found, pc' = pc,
              search' = ExpandedBy(A, l)
       PROVE  Working'
    <2>1. PICK K, c, v, D, P, F : Expansion(search, l, A, K, c, v, D, P, F, ExpandedBy(A, l))
        BY <1>2, <1>3, <1>5, <1>10, <1>11, LabelExpands
    <2>2. PICK s, t : s = search /\ t = ExpandedBy(A, l)
        OBVIOUS
    <2>3. Expansion(s, l, A, K, c, v, D, P, F, t)
        BY <2>1, <2>2
    <2>4. Searches(search')
        BY <1>2, <1>11, <2>2, <2>3, ExpandedSearches
    <2>5. Policy.max_search_expansions \in Nat
        BY <1>2, SetupFacts
    <2>6. expansions' \in Nat /\ expansions' <= Policy.max_search_expansions
        BY <1>2, <1>11, <2>5
    <2>7. QED
        BY <1>1, <1>3, <1>11, <2>4, <2>6, SearchGoesOn
<1>12. QED
    BY <1>4, <1>6, <1>7, <1>8, <1>9, <1>10, <1>11 DEF Pop, ExpandedBy

\* A search whose frontier is empty found nothing, and keeps the invariant.
LEMMA ExhaustedKeeps ==
    ASSUME Working, Exhausted, verdict' = verdict
    PROVE  Working'
<1>1. /\ pc = "search" /\ pc' = "pool" /\ pc \in Analysing /\ expansions' = expansions /\ found' = found
      /\ UNCHANGED <<request, limits, planner, edge, plans, blocks, enumerated,
                     walk, pool, sample, task, combo>>
    BY DEF Exhausted, searching, Analysing
<1>2. /\ found = Nothing /\ expansions \in Nat /\ expansions <= Policy.max_search_expansions
    BY <1>1, AnalysingFacts DEF AnalysisFits
<1>3. FoundOk(found')
    BY <1>1, <1>2 DEF FoundOk
<1>4. QED
    BY <1>1, <1>2, <1>3, SearchGoesOn

-----------------------------------------------------------------------------
(* The pool of a search *)

\* What is taken of a sequence: its elements at the positions, each position once.
LEMMA AmongKeeps ==
    ASSUME NEW X, NEW s \in Seq(X), NEW T, T \subseteq DOMAIN s
    PROVE  /\ Among(s, T) \in Seq(X) /\ Len(Among(s, T)) = Cardinality(T)
           /\ Cardinality(T) \in Nat /\ IsFiniteSet(T)
           /\ \A k \in DOMAIN Among(s, T) : \E i \in T : Among(s, T)[k] = s[i]
           /\ \A i \in T : \E k \in DOMAIN Among(s, T) : Among(s, T)[k] = s[i]
           /\ (\A i, j \in DOMAIN s : s[i] = s[j] => i = j) =>
                  \A i, j \in DOMAIN Among(s, T) : Among(s, T)[i] = Among(s, T)[j] => i = j
<1>1. DOMAIN s = 1..Len(s) /\ Len(s) \in Nat
    BY LenProperties
<1>2. IsFiniteSet(T) /\ Cardinality(T) \in Nat
    <2>1. IsFiniteSet(DOMAIN s)
        BY <1>1, FS_Interval
    <2>2. IsFiniteSet(T)
        BY <2>1, FS_Subset
    <2>3. QED
        BY <2>2, FS_CardinalityType
<1>3. T \subseteq Int
    BY <1>1
<1>4. PICK n : n = Numbers(T)
    OBVIOUS
<1>5. /\ n \in Seq(T) /\ Len(n) = Cardinality(T) /\ DOMAIN n = 1..Cardinality(T)
      /\ \A x \in T : \E i \in DOMAIN n : n[i] = x
      /\ \A i, j \in DOMAIN n : n[i] = n[j] => i = j
    BY <1>2, <1>3, <1>4, NumbersInOrder
<1>6. PICK q : q = Among(s, T)
    OBVIOUS
<1>7. q = [k \in DOMAIN n |-> s[n[k]]]
    BY <1>4, <1>6, AmongIsRow
<1>8. \A k \in DOMAIN n : n[k] \in T /\ n[k] \in DOMAIN s /\ q[k] = s[n[k]]
    BY <1>5, <1>7, ElementOfSeq
<1>9. \A i \in DOMAIN s : s[i] \in X
    BY <1>1, ElementOfSeq
<1>10. q \in [1..Cardinality(T) -> X]
    BY <1>5, <1>7, <1>8, <1>9
<1>11. q \in Seq(X) /\ Len(q) = Cardinality(T) /\ DOMAIN q = 1..Cardinality(T)
    BY <1>2, <1>10, RowIsSeq
<1>12. \A k \in DOMAIN q : \E i \in T : q[k] = s[i]
    BY <1>5, <1>8, <1>11
<1>13. \A i \in T : \E k \in DOMAIN q : q[k] = s[i]
    <2>1. ASSUME NEW i \in T PROVE \E k \in DOMAIN q : q[k] = s[i]
        <3>1. PICK k \in DOMAIN n : n[k] = i
            BY <1>5
        <3>2. k \in DOMAIN q /\ q[k] = s[i]
            BY <1>5, <1>8, <1>11, <3>1
        <3>3. QED
            BY <3>2
    <2>2. QED
        BY <2>1
<1>14. ASSUME \A i, j \in DOMAIN s : s[i] = s[j] => i = j
       PROVE  \A i, j \in DOMAIN q : q[i] = q[j] => i = j
    <2>1. ASSUME NEW i \in DOMAIN q, NEW j \in DOMAIN q, q[i] = q[j] PROVE i = j
        <3>1. i \in DOMAIN n /\ j \in DOMAIN n
            BY <1>5, <1>11
        <3>2. s[n[i]] = s[n[j]] /\ n[i] \in DOMAIN s /\ n[j] \in DOMAIN s
            BY <1>8, <2>1, <3>1
        <3>3. n[i] = n[j]
            BY <1>14, <3>2
        <3>4. QED
            BY <1>5, <3>1, <3>3
    <2>2. QED
        BY <2>1
<1>15. QED
    BY <1>2, <1>6, <1>11, <1>12, <1>13, <1>14

\* Different routes stay different ones when they are sorted.
LEMMA SortedIsDistinct ==
    ASSUME SetupOk, NEW q, Distinct(q)
    PROVE  Distinct(SortedRoutes(q)) /\ Len(SortedRoutes(q)) = Len(q)
<1>1. Built(request) /\ PlannerSet
    BY SetupFacts
<1>2. PICK R : R = GoodRoutes(edge)
    OBVIOUS
<1>3. R \subseteq Routes /\ q \in Seq(R) /\ \A i, j \in DOMAIN q : q[i] = q[j] => i = j
    BY <1>2 DEF Distinct, GoodRoutes, IsInjective
<1>4. PICK s : s = SortedRoutes(q)
    OBVIOUS
<1>5. s \in Seq(R) /\ Len(s) = Len(q)
    BY <1>1, <1>3, <1>4, SortedKeeps
<1>6. q \in Seq(Routes)
    BY <1>3, SeqMonotonic
<1>7. PICK p : Places(p, CandidateOrder, q) /\ s = [k \in DOMAIN q |-> q[p[k]]]
    BY <1>1, <1>4, <1>6, RoutesAreSorted
<1>8. ASSUME NEW i \in DOMAIN s, NEW j \in DOMAIN s, s[i] = s[j] PROVE i = j
    <2>1. i \in DOMAIN q /\ j \in DOMAIN q /\ q[p[i]] = q[p[j]]
        BY <1>7, <1>8
    <2>2. p[i] \in DOMAIN q /\ p[j] \in DOMAIN q
        BY <1>7, <2>1 DEF Places
    <2>3. p[i] = p[j]
        BY <1>3, <2>1, <2>2
    <2>4. QED
        BY <1>7, <2>1, <2>3 DEF Places
<1>9. IsInjective(s)
    BY <1>8 DEF IsInjective
<1>10. QED
    BY <1>2, <1>4, <1>5, <1>9 DEF Distinct

\* Two sequences of different routes that share none make one.
LEMMA JoinedIsDistinct ==
    ASSUME NEW X, NEW p \in Seq(X), NEW q \in Seq(X), IsInjective(p), IsInjective(q),
           ToSet(p) \cap ToSet(q) = {}, NEW c, c = p \o q
    PROVE  c \in Seq(X) /\ IsInjective(c) /\ Len(c) = Len(p) + Len(q)
<1>0. \A i \in DOMAIN p, j \in DOMAIN q : p[i] # q[j]
    BY DEF ToSet
<1>1. /\ p \o q \in Seq(X) /\ Len(p \o q) = Len(p) + Len(q)
      /\ \A i \in 1..(Len(p) + Len(q)) : (p \o q)[i] = IF i <= Len(p) THEN p[i] ELSE q[i - Len(p)]
    BY ConcatProperties
<1>2. /\ Len(p) \in Nat /\ Len(q) \in Nat /\ DOMAIN p = 1..Len(p) /\ DOMAIN q = 1..Len(q)
      /\ DOMAIN (p \o q) = 1..(Len(p) + Len(q))
    BY <1>1, LenProperties
<1>3. PICK m, n \in Nat : m = Len(p) /\ n = Len(q)
    BY <1>2
<1>4. PICK r : r = p \o q
    OBVIOUS
<1>5. /\ DOMAIN r = 1..(m + n) /\ DOMAIN p = 1..m /\ DOMAIN q = 1..n
      /\ \A i \in 1..(m + n) : i <= m => r[i] = p[i]
      /\ \A i \in 1..(m + n) : ~(i <= m) => r[i] = q[i - m]
    BY <1>1, <1>2, <1>3, <1>4
<1>6. ASSUME NEW i \in 1..(m + n), NEW j \in 1..(m + n), r[i] = r[j] PROVE i = j
    <2>1. CASE i <= m /\ j <= m
        <3>1. i \in DOMAIN p /\ j \in DOMAIN p /\ p[i] = p[j]
            BY <1>5, <1>6, <2>1
        <3>2. QED
            BY <3>1 DEF IsInjective
    <2>2. CASE ~(i <= m) /\ ~(j <= m)
        <3>1. i - m \in DOMAIN q /\ j - m \in DOMAIN q /\ q[i - m] = q[j - m]
            BY <1>5, <1>6, <2>2
        <3>2. i - m = j - m
            BY <3>1 DEF IsInjective
        <3>3. QED
            BY <3>2
    <2>3. CASE i <= m /\ ~(j <= m)
        <3>1. i \in DOMAIN p /\ j - m \in DOMAIN q /\ p[i] = q[j - m]
            BY <1>5, <1>6, <2>3
        <3>2. QED
            BY <1>0, <3>1
    <2>4. CASE ~(i <= m) /\ j <= m
        <3>1. j \in DOMAIN p /\ i - m \in DOMAIN q /\ p[j] = q[i - m]
            BY <1>5, <1>6, <2>4
        <3>2. QED
            BY <1>0, <3>1
    <2>5. QED
        BY <2>1, <2>2, <2>3, <2>4
<1>7. IsInjective(r)
    BY <1>5, <1>6 DEF IsInjective
<1>8. QED
    BY <1>1, <1>4, <1>7

\* Filling up adds different routes, and no more than there is room for.
LEMMA FillKeeps ==
    ASSUME SetupOk, NEW routes, Distinct(routes), NEW into, Distinct(into)
    PROVE  /\ Distinct(Fill(routes, into)) /\ Len(Fill(routes, into)) \in Nat
           /\ \/ Len(Fill(routes, into)) <= limits.max_candidate_paths
              \/ Len(Fill(routes, into)) = Len(into)
<1>1. PICK R : R = GoodRoutes(edge)
    OBVIOUS
<1>2. /\ routes \in Seq(R) /\ into \in Seq(R) /\ IsInjective(into)
      /\ \A i, j \in DOMAIN routes : routes[i] = routes[j] => i = j
    BY <1>1 DEF Distinct, IsInjective
<1>3. PICK T : T = {i \in DOMAIN routes : routes[i] \notin ToSet(into)}
    OBVIOUS
<1>4. PICK fresh : fresh = Among(routes, T)
    OBVIOUS
<1>5. /\ fresh \in Seq(R) /\ (\A k \in DOMAIN fresh : \E i \in T : fresh[k] = routes[i])
      /\ \A i, j \in DOMAIN fresh : fresh[i] = fresh[j] => i = j
    <2>1. T \subseteq DOMAIN routes
        BY <1>3
    <2>2. /\ Among(routes, T) \in Seq(R)
          /\ (\A k \in DOMAIN Among(routes, T) : \E i \in T : Among(routes, T)[k] = routes[i])
          /\ \A i, j \in DOMAIN Among(routes, T) : Among(routes, T)[i] = Among(routes, T)[j] => i = j
        BY <1>2, <2>1, AmongKeeps
    <2>3. QED
        BY <1>4, <2>2
<1>6. /\ Len(into) \in Nat /\ Len(fresh) \in Nat /\ limits.max_candidate_paths \in Nat
      /\ DOMAIN into = 1..Len(into) /\ DOMAIN fresh = 1..Len(fresh)
    BY <1>2, <1>5, LenProperties, SetupFacts
<1>7. PICK room \in Int : room = limits.max_candidate_paths - Len(into)
    BY <1>6
<1>8. CASE room <= 0
    <2>1. Fill(routes, into) = into
        BY <1>7, <1>8 DEF Fill
    <2>2. QED
        BY <1>6, <2>1
<1>9. CASE ~(room <= 0)
    <2>1. PICK k : k = Min({room, Len(fresh)})
        OBVIOUS
    <2>2. k \in Nat /\ k <= room /\ k <= Len(fresh)
        BY <1>6, <1>9, <2>1, MinOfTwo
    <2>3. PICK t : t = SubSeq(fresh, 1, k)
        OBVIOUS
    <2>4. t \in Seq(R) /\ Len(t) = k /\ DOMAIN t = 1..k /\ \A i \in 1..k : t[i] = fresh[i]
        BY <1>5, <2>2, <2>3, PrefixIs
    <2>5. \A i \in 1..k : i \in DOMAIN fresh
        BY <1>6, <2>2
    <2>6. \A i, j \in DOMAIN t : t[i] = t[j] => i = j
        BY <1>5, <2>4, <2>5
    <2>7. ASSUME NEW i \in DOMAIN into, NEW j \in DOMAIN t PROVE into[i] # t[j]
        <3>1. PICK h \in T : t[j] = routes[h]
            BY <1>5, <2>4, <2>5
        <3>2. t[j] \notin ToSet(into)
            BY <1>3, <3>1
        <3>3. QED
            BY <3>2 DEF ToSet
    <2>8. IsInjective(t)
        BY <2>6 DEF IsInjective
    <2>14. PICK c : c = into \o t
        OBVIOUS
    <2>9. into \o t \in Seq(R) /\ IsInjective(into \o t) /\ Len(into \o t) = Len(into) + k
        <3>1. ToSet(into) \cap ToSet(t) = {}
            BY <2>7 DEF ToSet
        <3>2. into \in Seq(R) /\ t \in Seq(R) /\ IsInjective(into) /\ IsInjective(t)
            BY <1>2, <2>4, <2>8
        <3>3. c = into \o t
            BY <2>14
        <3>4. c \in Seq(R)
            BY <3>1, <3>2, <3>3, JoinedIsDistinct, Zenon
        <3>5. IsInjective(c)
            BY <3>1, <3>2, <3>3, JoinedIsDistinct, Zenon
        <3>6. Len(c) = Len(into) + Len(t)
            BY <3>1, <3>2, <3>3, JoinedIsDistinct, SMT
        <3>7. QED
            BY <2>4, <2>14, <3>4, <3>5, <3>6
    <2>10. Fill(routes, into) = into \o t
        BY <1>3, <1>4, <1>7, <1>9, <2>1, <2>3 DEF Fill
    <2>11. Len(into) + k <= limits.max_candidate_paths /\ Len(into) + k \in Nat
        BY <1>6, <1>7, <2>2
    <2>12. Distinct(into \o t)
        BY <1>1, <2>9 DEF Distinct
    <2>13. QED
        BY <2>9, <2>10, <2>11, <2>12
<1>10. QED
    BY <1>8, <1>9

\* The routes of the pool are complete once the probes and the candidates are added.
LEMMA PoolEnds ==
    ASSUME SetupOk, StartedOk, Walks(walk), walk' = walk, ~walk.exhaustive, combo' = EmptyCombo,
           Distinct(sample.candidates), NEW kept, Distinct(kept), Len(kept) <= PoolBound(walk),
           NEW extra, Distinct(extra), PoolFinished(kept, extra)
    PROVE  /\ pc' \in Analysing
           /\ AnalysisFits(pc', walk', pool', blocks', sample', task', search', found', combo')
<1>1. pool' = SortedRoutes(Fill(sample.candidates, Fill(SortedRoutes(extra), kept)))
    BY DEF PoolFinished, SortedRoutes
<1>2. pc' = "sets" /\ blocks' = NoBlocks
    BY DEF PoolFinished
<1>3. PICK x : x = SortedRoutes(extra)
    OBVIOUS
<1>4. PICK q : q = Fill(x, kept)
    OBVIOUS
<1>5. PICK r : r = Fill(sample.candidates, q)
    OBVIOUS
<1>6. Distinct(x)
    BY <1>3, SortedIsDistinct
<1>7. Distinct(q) /\ (Len(q) <= limits.max_candidate_paths \/ Len(q) = Len(kept))
    BY <1>4, <1>6, FillKeeps
<1>8. Distinct(r) /\ (Len(r) <= limits.max_candidate_paths \/ Len(r) = Len(q))
    BY <1>5, <1>7, FillKeeps
<1>9. pool' = SortedRoutes(r)
    BY <1>1, <1>3, <1>4, <1>5
<1>10. Distinct(pool') /\ Len(pool') = Len(r)
    BY <1>8, <1>9, SortedIsDistinct
<1>11. Len(r) <= limits.max_candidate_paths \/ Len(r) = Len(kept)
    BY <1>7, <1>8
<1>12. /\ PoolBound(walk) \in Nat /\ limits.max_candidate_paths \in Nat
       /\ limits.max_candidate_paths <= PoolBound(walk)
    BY SetupFacts DEF PoolBound
<1>13. Len(r) \in Nat /\ Len(kept) \in Nat
    BY <1>8, LenProperties DEF Distinct
<1>14. Len(pool') <= PoolBound(walk')
    BY <1>10, <1>11, <1>12, <1>13
<1>15. Chooses(combo', pool') /\ NoBlocks \in Bans
    BY EmptyChooses, NothingPooled
<1>16. QED
    BY <1>2, <1>10, <1>14, <1>15 DEF AnalysisFits, Analysing

\* The interior of a route are nodes.
LEMMA InteriorIsRow ==
    ASSUME SetupOk, NEW p \in Routes
    PROVE  InteriorSeq(p) \in Seq(Int) /\ <<>> \in Seq(Int)
<1>1. Len(p) \in Nat /\ DOMAIN p = 1..Len(p) /\ \A i \in DOMAIN p : p[i] \in Edges
    BY RoutePositions
<1>2. \A e \in Edges : Edge(e).to \in Int
    <2>1. \A e \in Edges : Edge(e) \in FabricEdges
        BY SetupFacts
    <2>2. QED
        BY <2>1 DEF FabricEdges
<1>0. PICK k \in Nat : k = Len(p)
    BY <1>1
<1>3. \E n \in Nat : n <= k /\ 1..(k - 1) = 1..n
    <2>1. CASE k = 0
        BY <2>1
    <2>2. CASE k # 0
        <3>1. k - 1 \in Nat /\ k - 1 <= k
            BY <2>2
        <3>2. QED
            BY <3>1
    <2>3. QED
        BY <2>1, <2>2
<1>11. PICK n \in Nat : n <= k /\ 1..(k - 1) = 1..n
    BY <1>3
<1>4. 1..(Len(p) - 1) = 1..n /\ \A i \in 1..n : i \in DOMAIN p
    BY <1>0, <1>1, <1>11
<1>5. PICK s : s = InteriorSeq(p)
    OBVIOUS
<1>6. s = [i \in 1..n |-> Edge(p[i]).to]
    BY <1>4, <1>5 DEF InteriorSeq
<1>7. \A i \in 1..n : Edge(p[i]).to \in Int
    BY <1>1, <1>2, <1>4
<1>8. s \in [1..n -> Int]
    BY <1>6, <1>7
<1>9. s \in Seq(Int)
    BY <1>8, RowIsSeq
<1>10. QED
    BY <1>5, <1>9, EmptySeq

\* What a probe blocks are edges of the fabric and nodes.
LEMMA ProbesAre ==
    ASSUME SetupOk, NEW first \in Routes, NEW through \in Seq(Int)
    PROVE  Probes(first, through) \in Seq(Bans)
<1>1. Len(first) \in Nat /\ DOMAIN first = 1..Len(first) /\ \A i \in DOMAIN first : first[i] \in Edges
    BY RoutePositions
<1>2. /\ Len(through) \in Nat /\ DOMAIN through = 1..Len(through)
      /\ \A i \in DOMAIN through : through[i] \in Int
    BY LenProperties, ElementOfSeq
<1>3. PICK a : a = [i \in DOMAIN first |-> [edges |-> {first[i]}, nodes |-> {}]]
    OBVIOUS
<1>4. PICK b : b = IF NodeDisjoint THEN [i \in DOMAIN through |-> [edges |-> {}, nodes |-> {through[i]}]]
                   ELSE <<>>
    OBVIOUS
<1>5. a \in Seq(Bans)
    <2>1. \A i \in DOMAIN first : [edges |-> {first[i]}, nodes |-> {}] \in Bans
        BY <1>1 DEF Bans
    <2>2. a \in [1..Len(first) -> Bans]
        BY <1>1, <1>3, <2>1
    <2>3. QED
        BY <1>1, <2>2, RowIsSeq
<1>6. b \in Seq(Bans)
    <2>1. CASE NodeDisjoint
        <3>1. \A i \in DOMAIN through : [edges |-> {}, nodes |-> {through[i]}] \in Bans
            BY <1>2 DEF Bans
        <3>2. b = [i \in DOMAIN through |-> [edges |-> {}, nodes |-> {through[i]}]]
            BY <1>4, <2>1
        <3>3. b \in [1..Len(through) -> Bans]
            BY <1>2, <3>1, <3>2
        <3>4. QED
            BY <1>2, <3>3, RowIsSeq
    <2>2. CASE ~NodeDisjoint
        BY <1>4, <2>2, EmptySeq
    <2>3. QED
        BY <2>1, <2>2
<1>7. Probes(first, through) = a \o b
    BY <1>3, <1>4 DEF Probes
<1>8. a \o b \in Seq(Bans)
    BY <1>5, <1>6, ConcatProperties
<1>9. QED
    BY <1>7, <1>8

\* The next search for a probe.
LEMMA ProbeStarts ==
    ASSUME SetupOk, StartedOk, Walks(walk), walk' = walk, ~walk.exhaustive, combo' = EmptyCombo,
           Distinct(pool'), Len(pool') <= PoolBound(walk), pool' # <<>>,
           NEW m, sample' = m, Samples(m, pool'),
           NEW b \in Bans, Start("probe", b.edges, b.nodes)
    PROVE  /\ pc' \in Analysing
           /\ AnalysisFits(pc', walk', pool', blocks', sample', task', search', found', combo')
<1>1. b.edges \in SUBSET Edges /\ b.nodes \in SUBSET Int
    BY DEF Bans
<1>2. TaskOk("probe", walk', pool', sample')
    BY DEF TaskOk
<1>3. Walks(walk') /\ Len(pool') <= PoolBound(walk') /\ Samples(sample', pool')
    OBVIOUS
<1>4. QED
    BY <1>1, <1>2, <1>3, StartsSearch

\* The sample with what the diversity chain went through.
LEMMA SampleGoes ==
    ASSUME SetupOk, NEW m, NEW q, m \in SampleStates, m.extra = <<>>, Distinct(m.candidates),
           NEW chain \in SUBSET Edges, NEW through \in Seq(Int), NEW steps \in Nat,
           NEW probes \in Seq(Bans), NEW n,
           n = [m EXCEPT !.chain = chain, !.through = through, !.steps = steps, !.probes = probes]
    PROVE  Samples(n, q) /\ n.extra = <<>>
<1>1. n \in SampleStates /\ n.extra = <<>> /\ n.candidates = m.candidates
    BY DEF SampleStates
<1>2. Distinct(<<>>) /\ ToSet(<<>>) = {}
    BY NothingPooled
<1>3. QED
    BY <1>1, <1>2 DEF Samples

\* build_pool goes on with nothing in the sample but the candidates.
Sampling ==
    /\ SetupOk /\ StartedOk /\ Walks(walk) /\ walk' = walk /\ ~walk.exhaustive /\ combo' = EmptyCombo
    /\ sample \in SampleStates /\ sample.extra = <<>> /\ Distinct(sample.candidates)
Follows ==
    /\ pc' \in Analysing
    /\ AnalysisFits(pc', walk', pool', blocks', sample', task', search', found', combo')

\* The probes begin, or there is nothing to block.
LEMMA ProbingFits ==
    ASSUME Sampling, NEW kept, Distinct(kept), Len(kept) <= PoolBound(walk), kept # <<>>,
           NEW chain \in SUBSET Edges, NEW through \in Seq(Int), NEW steps \in Nat,
           Probing(kept, chain, through, steps)
    PROVE  Follows
<1>1. /\ SetupOk /\ StartedOk /\ Walks(walk) /\ walk' = walk /\ ~walk.exhaustive /\ combo' = EmptyCombo
      /\ sample \in SampleStates /\ sample.extra = <<>> /\ Distinct(sample.candidates)
    BY DEF Sampling
<1>2. kept[1] \in Routes
    <2>1. kept \in Seq(GoodRoutes(edge))
        BY DEF Distinct
    <2>2. kept[1] \in GoodRoutes(edge)
        BY <2>1, ElementOfSeq, LenProperties, EmptySeq
    <2>3. QED
        BY <2>2 DEF GoodRoutes
<1>3. PICK probes : probes = Probes(kept[1], through)
    OBVIOUS
<1>4. probes \in Seq(Bans)
    BY <1>1, <1>2, <1>3, ProbesAre
<1>5. CASE probes = <<>>
    <2>1. PoolFinished(kept, <<>>)
        BY <1>3, <1>5 DEF Probing
    <2>2. Distinct(<<>>)
        BY NothingPooled
    <2>3. QED
        BY <1>1, <2>1, <2>2, PoolEnds DEF Follows
<1>6. CASE probes # <<>>
    <2>1. PICK rest, b : rest = Tail(probes) /\ b = probes[1]
        OBVIOUS
    <2>2. rest \in Seq(Bans) /\ b \in Bans
        BY <1>4, <1>6, <2>1, HeadTailProperties
    <2>3. PICK m : m = [sample EXCEPT !.chain = chain, !.through = through, !.steps = steps, !.probes = rest]
        OBVIOUS
    <2>4. pool' = kept /\ sample' = m /\ Start("probe", b.edges, b.nodes)
        BY <1>3, <1>6, <2>1, <2>3 DEF Probing
    <2>5. Samples(m, pool')
        BY <1>1, <2>2, <2>3, SampleGoes
    <2>6. QED
        BY <1>1, <2>2, <2>4, <2>5, ProbeStarts DEF Follows
<1>7. QED
    BY <1>5, <1>6

\* The next search of the diversity chain, or the probes.
LEMMA ChainingFits ==
    ASSUME Sampling, NEW kept, Distinct(kept), Len(kept) <= PoolBound(walk), kept # <<>>,
           NEW chain \in SUBSET Edges, NEW through \in Seq(Int), NEW steps \in Nat,
           Chaining(kept, chain, through, steps)
    PROVE  Follows
<1>1. /\ SetupOk /\ StartedOk /\ Walks(walk) /\ walk' = walk /\ ~walk.exhaustive /\ combo' = EmptyCombo
      /\ sample \in SampleStates /\ sample.extra = <<>> /\ Distinct(sample.candidates)
    BY DEF Sampling
<1>2. ASSUME Len(kept) < limits.max_candidate_paths, pool' = kept,
             sample' = [sample EXCEPT !.chain = chain, !.through = through, !.steps = steps],
             Start("chain", chain, ToSet(through))
      PROVE  Follows
    <2>1. PICK m : m = sample'
        OBVIOUS
    <2>0. PICK probes : probes = sample.probes
        OBVIOUS
    <2>8. probes \in Seq(Bans)
        BY <1>1, <2>0 DEF SampleStates
    <2>2. m = [sample EXCEPT !.chain = chain, !.through = through, !.steps = steps, !.probes = probes]
        BY <1>1, <1>2, <2>0, <2>1 DEF SampleStates
    <2>3. Samples(m, pool') /\ m.extra = <<>>
        <3>1. Samples(m, pool')
            BY <1>1, <2>2, <2>8, SampleGoes
        <3>2. m.extra = <<>>
            BY <1>1, <2>2 DEF SampleStates
        <3>3. QED
            BY <3>1, <3>2
    <2>4. ToSet(through) \in SUBSET Int
        BY ToSetIn
    <2>5. TaskOk("chain", walk', pool', m)
        BY <1>1, <1>2, <2>3 DEF TaskOk
    <2>6. Walks(walk') /\ Distinct(pool') /\ Len(pool') <= PoolBound(walk') /\ Samples(sample', pool')
          /\ TaskOk("chain", walk', pool', sample')
        BY <1>1, <1>2, <2>1, <2>3, <2>5
    <2>7. QED
        BY <1>1, <1>2, <2>4, <2>6, StartsSearch DEF Follows
<1>3. ASSUME Probing(kept, chain, through, steps) PROVE Follows
    BY <1>3, ProbingFits
<1>4. QED
    BY <1>2, <1>3 DEF Chaining

\* A row of one route, and a route more in the pool.
LEMMA PoolGrows ==
    ASSUME SetupOk, NEW p \in GoodRoutes(edge), NEW q, Distinct(q), p \notin ToSet(q)
    PROVE  /\ Distinct(Append(q, p)) /\ Len(Append(q, p)) = Len(q) + 1 /\ Append(q, p) # <<>>
           /\ ToSet(Append(q, p)) \subseteq ToSet(q) \cup {p}
<1>1. PICK R : R = GoodRoutes(edge)
    OBVIOUS
<1>2. q \in Seq(R) /\ p \in R /\ \A i, j \in DOMAIN q : q[i] = q[j] => i = j
    BY <1>1 DEF Distinct, IsInjective
<1>3. PICK t : t = Append(q, p)
    OBVIOUS
<1>4. PICK n \in Nat : n = Len(q) /\ DOMAIN q = 1..n
    BY <1>2, LenProperties
<1>5. /\ t \in Seq(R) /\ Len(t) = n + 1 /\ DOMAIN t = 1..(n + 1)
      /\ (\A i \in 1..n : t[i] = q[i]) /\ t[n + 1] = p
    BY <1>2, <1>3, <1>4, AppendIs
<1>6. \A i \in 1..n : q[i] # p
    BY <1>4 DEF ToSet
<1>7. ASSUME NEW i \in 1..(n + 1), NEW j \in 1..(n + 1), t[i] = t[j] PROVE i = j
    <2>1. CASE i \in 1..n /\ j \in 1..n
        BY <1>2, <1>4, <1>5, <1>7, <2>1
    <2>2. CASE ~(i \in 1..n /\ j \in 1..n)
        <3>1. i \in 1..n \/ i = n + 1
            OBVIOUS
        <3>2. j \in 1..n \/ j = n + 1
            OBVIOUS
        <3>3. QED
            BY <1>5, <1>6, <1>7, <2>2, <3>1, <3>2
    <2>3. QED
        BY <2>1, <2>2
<1>8. IsInjective(t)
    BY <1>5, <1>7 DEF IsInjective
<1>9. ToSet(t) \subseteq ToSet(q) \cup {p}
    <2>1. ASSUME NEW i \in 1..(n + 1) PROVE t[i] \in ToSet(q) \cup {p}
        <3>1. i \in 1..n \/ i = n + 1
            OBVIOUS
        <3>2. QED
            BY <1>4, <1>5, <3>1 DEF ToSet
    <2>2. QED
        BY <1>5, <2>1 DEF ToSet
<1>10. t # <<>>
    BY <1>4, <1>5
<1>11. QED
    BY <1>1, <1>3, <1>4, <1>5, <1>8, <1>9, <1>10 DEF Distinct

\* What holds when a search comes back.
LEMMA CameBack ==
    ASSUME Working, Pool, verdict' = verdict
    PROVE  /\ SetupOk /\ StartedOk /\ verdict = "none" /\ BoundEnds(edge)
           /\ Walks(walk) /\ walk' = walk /\ ~walk.exhaustive /\ combo' = EmptyCombo
           /\ Distinct(pool) /\ Len(pool) <= PoolBound(walk) /\ Len(pool) \in Nat
           /\ TaskOk(task, walk, pool, sample)
           /\ sample \in SampleStates /\ Distinct(sample.extra) /\ ToSet(sample.extra) \cap ToSet(pool) = {}
           /\ Distinct(sample.candidates)
           /\ found = Nothing \/ Track(edge, found, Upto(edge).node)
           /\ Follows => Working'
<1>1. pc = "pool" /\ pc \in Analysing
    BY DEF Pool, Analysing
<1>2. /\ SetupOk /\ StartedOk /\ BoundEnds(edge) /\ verdict = "none"
      /\ AnalysisFits("pool", walk, pool, blocks, sample, task, search, found, combo)
      /\ expansions \in Nat /\ expansions <= Policy.max_search_expansions
      /\ enumerated \in Nat /\ enumerated <= limits.max_total_enumeration_steps
    BY <1>1, AnalysingFacts
<1>3. /\ Walks(walk) /\ Distinct(pool) /\ Len(pool) <= PoolBound(walk)
      /\ TaskOk(task, walk, pool, sample) /\ Samples(sample, pool) /\ FoundOk(found) /\ combo = EmptyCombo
    BY <1>2 DEF AnalysisFits
<1>4. /\ request' = request /\ planner' = planner /\ limits' = limits /\ edge' = edge /\ plans' = plans
      /\ expansions' = expansions /\ enumerated' = enumerated /\ combo' = combo /\ walk' = walk
    BY DEF Pool
<1>5. /\ sample \in SampleStates /\ Distinct(sample.extra) /\ ToSet(sample.extra) \cap ToSet(pool) = {}
      /\ Distinct(sample.candidates)
    BY <1>3 DEF Samples
<1>6. ~walk.exhaustive
    BY <1>3 DEF TaskOk
<1>7. Len(pool) \in Nat
    BY <1>3, LenProperties DEF Distinct
<1>8. Follows => Working'
    BY <1>2, <1>4, AnalysisStep DEF Follows
<1>9. found = Nothing \/ Track(edge, found, Upto(edge).node)
    BY <1>3 DEF FoundOk
<1>10. QED
    BY <1>2, <1>3, <1>4, <1>5, <1>6, <1>7, <1>8, <1>9

\* The bound of the pool leaves room for a route.
LEMMA PoolHasRoom ==
    ASSUME SetupOk, ~walk.exhaustive
    PROVE  /\ PoolBound(walk) \in Nat /\ 1 <= PoolBound(walk)
           /\ limits.max_candidate_paths \in Nat /\ limits.max_candidate_paths <= PoolBound(walk)
BY SetupFacts DEF PoolBound

\* The cheapest route, found or enumerated, opens the pool.
LEMMA CheapestKeeps ==
    ASSUME Working, Pool, verdict' = verdict, task = "cheapest"
    PROVE  Working'
<1>1. /\ SetupOk /\ StartedOk /\ BoundEnds(edge) /\ Walks(walk) /\ walk' = walk /\ ~walk.exhaustive
      /\ combo' = EmptyCombo /\ TaskOk(task, walk, pool, sample)
      /\ sample \in SampleStates /\ Distinct(sample.candidates)
      /\ found = Nothing \/ Track(edge, found, Upto(edge).node)
      /\ Follows => Working'
    BY CameBack
<1>2. sample.extra = <<>> /\ pool = <<>>
    BY <1>1 DEF TaskOk
<1>3. Sampling
    BY <1>1, <1>2 DEF Sampling
<1>4. PICK usable \in BOOLEAN : usable = (found # Nothing /\ CandidateOk(found))
    OBVIOUS
<1>5. PICK first : first = IF usable THEN <<found>>
                           ELSE SubSeq(sample.candidates, 1, Min({1, Len(sample.candidates)}))
    OBVIOUS
<1>6. /\ Distinct(<<>>) /\ Len(<<>>) = 0 /\ ToSet(<<>>) = {}
    BY NothingPooled
<1>7. Distinct(first) /\ Len(first) <= 1 /\ Len(first) \in Nat
    <2>1. CASE usable
        <3>1. found \in GoodRoutes(edge)
            BY <1>1, <1>4, <2>1, AcceptedIsGood
        <3>2. Distinct(Append(<<>>, found)) /\ Len(Append(<<>>, found)) = Len(<<>>) + 1
            BY <1>1, <1>6, <3>1, PoolGrows
        <3>3. first = Append(<<>>, found)
            BY <1>5, <2>1
        <3>4. QED
            BY <1>6, <3>2, <3>3
    <2>2. CASE ~usable
        <3>1. PICK c, n : c = sample.candidates /\ n = Len(sample.candidates)
            OBVIOUS
        <3>2. c \in Seq(GoodRoutes(edge)) /\ n \in Nat /\ n = Len(c) /\ DOMAIN c = 1..n
              /\ \A i, j \in DOMAIN c : c[i] = c[j] => i = j
            BY <1>1, <3>1, LenProperties DEF Distinct, IsInjective
        <3>3. PICK k : k = Min({1, n})
            OBVIOUS
        <3>4. k \in Nat /\ k <= 1 /\ k <= n
            BY <3>2, <3>3, MinOfTwo
        <3>5. first = SubSeq(c, 1, k)
            BY <1>5, <2>2, <3>1, <3>3
        <3>6. first \in Seq(GoodRoutes(edge)) /\ Len(first) = k /\ DOMAIN first = 1..k
            BY <3>2, <3>4, <3>5, PrefixIs
        <3>7. IsInjective(first)
            BY <3>4, <3>6 DEF IsInjective
        <3>8. QED
            BY <3>4, <3>6, <3>7 DEF Distinct
    <2>3. QED
        BY <2>1, <2>2
<1>8. Len(first) <= PoolBound(walk)
    BY <1>1, <1>7, PoolHasRoom
<1>9. ASSUME first = <<>>, PoolFinished(<<>>, <<>>) PROVE Working'
    <2>1. Len(<<>>) <= PoolBound(walk)
        BY <1>1, <1>6, PoolHasRoom
    <2>2. Follows
        BY <1>1, <1>6, <1>9, <2>1, PoolEnds DEF Follows
    <2>3. QED
        BY <1>1, <2>2
<1>10. PICK p, through : p = first[1] /\ through = IF NodeDisjoint THEN InteriorSeq(first[1]) ELSE <<>>
    OBVIOUS
<1>11. ASSUME first # <<>>, Chaining(first, ToSet(p), through, 0) PROVE Working'
    <2>1. p \in Routes
        <3>1. first \in Seq(GoodRoutes(edge))
            BY <1>7 DEF Distinct
        <3>2. p \in GoodRoutes(edge)
            BY <1>10, <1>11, <3>1, ElementOfSeq, LenProperties, EmptySeq
        <3>3. QED
            BY <3>2 DEF GoodRoutes
    <2>2. ToSet(p) \in SUBSET Edges
        <3>1. p \in Seq(Edges)
            BY <2>1 DEF Routes
        <3>2. QED
            BY <3>1, ToSetIn
    <2>3. through \in Seq(Int)
        <3>1. InteriorSeq(p) \in Seq(Int) /\ <<>> \in Seq(Int)
            BY <1>1, <2>1, InteriorIsRow
        <3>2. QED
            BY <1>10, <3>1
    <2>4. Follows
        BY <1>3, <1>7, <1>8, <1>11, <2>2, <2>3, ChainingFits
    <2>5. QED
        BY <1>1, <2>4
<1>12. IF first = <<>> THEN PoolFinished(<<>>, <<>>)
       ELSE Chaining(first, ToSet(p), through, 0)
    BY <1>4, <1>5, <1>10 DEF Pool
<1>13. QED
    BY <1>9, <1>11, <1>12

\* One route more of the diversity chain, or its end.
LEMMA ChainKeeps ==
    ASSUME Working, Pool, verdict' = verdict, task = "chain"
    PROVE  Working'
<1>1. /\ SetupOk /\ StartedOk /\ BoundEnds(edge) /\ Walks(walk) /\ walk' = walk /\ ~walk.exhaustive
      /\ combo' = EmptyCombo /\ TaskOk(task, walk, pool, sample)
      /\ Distinct(pool) /\ Len(pool) <= PoolBound(walk) /\ Len(pool) \in Nat
      /\ sample \in SampleStates /\ Distinct(sample.candidates)
      /\ found = Nothing \/ Track(edge, found, Upto(edge).node)
      /\ Follows => Working'
    BY CameBack
<1>2. sample.extra = <<>> /\ pool # <<>> /\ Len(pool) < limits.max_candidate_paths
    BY <1>1 DEF TaskOk
<1>3. Sampling
    BY <1>1, <1>2 DEF Sampling
<1>4. PICK chain, through, steps :
          chain = sample.chain /\ through = sample.through /\ steps = sample.steps
    OBVIOUS
<1>5. chain \in SUBSET Edges /\ through \in Seq(Int) /\ steps \in Nat
    BY <1>1, <1>4 DEF SampleStates
<1>6. ASSUME Probing(pool, sample.chain, sample.through, sample.steps) PROVE Working'
    <2>1. Probing(pool, chain, through, steps)
        BY <1>4, <1>6
    <2>2. PICK q : q = pool
        OBVIOUS
    <2>3. Probing(q, chain, through, steps) /\ Distinct(q) /\ Len(q) <= PoolBound(walk) /\ q # <<>>
        BY <1>1, <1>2, <2>1, <2>2
    <2>4. Follows
        BY <1>3, <1>5, <2>3, ProbingFits
    <2>5. QED
        BY <1>1, <2>4
<1>7. PICK kept : kept = IF (found # Nothing /\ CandidateOk(found)) /\ ~Present(found)
                         THEN Append(pool, found) ELSE pool
    OBVIOUS
<1>8. Distinct(kept) /\ Len(kept) <= PoolBound(walk) /\ kept # <<>>
    <2>1. CASE (found # Nothing /\ CandidateOk(found)) /\ ~Present(found)
        <3>1. found \in GoodRoutes(edge) /\ found \notin ToSet(pool)
            BY <1>1, <2>1, AcceptedIsGood DEF Present
        <3>2. PICK p, q : p = found /\ q = pool
            OBVIOUS
        <3>3. Distinct(Append(q, p)) /\ Len(Append(q, p)) = Len(q) + 1 /\ Append(q, p) # <<>>
            BY <1>1, <3>1, <3>2, PoolGrows
        <3>4. kept = Append(q, p)
            BY <1>7, <2>1, <3>2
        <3>5. Len(q) + 1 <= PoolBound(walk)
            BY <1>1, <1>2, <3>2, PoolHasRoom
        <3>6. QED
            BY <3>3, <3>4, <3>5
    <2>2. CASE ~((found # Nothing /\ CandidateOk(found)) /\ ~Present(found))
        BY <1>1, <1>2, <1>7, <2>2
    <2>3. QED
        BY <2>1, <2>2
<1>9. PICK c, h, n : /\ c = sample.chain \cup ToSet(found)
                     /\ h = sample.through \o (IF NodeDisjoint THEN InteriorSeq(found) ELSE <<>>)
                     /\ n = sample.steps + 1
    OBVIOUS
<1>10. ASSUME found # Nothing, Chaining(kept, c, h, n) PROVE Working'
    <2>1. found \in Routes
        BY <1>1, <1>10 DEF Track
    <2>2. c \in SUBSET Edges
        <3>1. found \in Seq(Edges)
            BY <2>1 DEF Routes
        <3>2. ToSet(found) \subseteq Edges
            BY <3>1, ToSetIn
        <3>3. QED
            BY <1>4, <1>5, <1>9, <3>2
    <2>3. h \in Seq(Int)
        <3>1. InteriorSeq(found) \in Seq(Int) /\ <<>> \in Seq(Int)
            BY <1>1, <2>1, InteriorIsRow
        <3>2. PICK t : t = IF NodeDisjoint THEN InteriorSeq(found) ELSE <<>>
            OBVIOUS
        <3>3. t \in Seq(Int)
            BY <3>1, <3>2
        <3>4. through \o t \in Seq(Int)
            BY <1>5, <3>3, ConcatProperties
        <3>5. QED
            BY <1>4, <1>9, <3>2, <3>4
    <2>4. n \in Nat
        BY <1>4, <1>5, <1>9
    <2>5. Follows
        BY <1>3, <1>8, <1>10, <2>2, <2>3, <2>4, ChainingFits
    <2>6. QED
        BY <1>1, <2>5
<1>11. IF found = Nothing THEN Probing(pool, sample.chain, sample.through, sample.steps)
       ELSE Chaining(kept, c, h, n)
    BY <1>7, <1>9 DEF Pool
<1>12. QED
    BY <1>6, <1>10, <1>11

\* One route more of the probes, or their end.
LEMMA ProbeKeeps ==
    ASSUME Working, Pool, verdict' = verdict, task = "probe"
    PROVE  Working'
<1>1. /\ SetupOk /\ StartedOk /\ BoundEnds(edge) /\ Walks(walk) /\ walk' = walk /\ ~walk.exhaustive
      /\ combo' = EmptyCombo /\ TaskOk(task, walk, pool, sample)
      /\ Distinct(pool) /\ Len(pool) <= PoolBound(walk) /\ Len(pool) \in Nat
      /\ sample \in SampleStates /\ Distinct(sample.extra) /\ ToSet(sample.extra) \cap ToSet(pool) = {}
      /\ Distinct(sample.candidates)
      /\ found = Nothing \/ Track(edge, found, Upto(edge).node)
      /\ Follows => Working'
    BY CameBack
<1>2. pool # <<>>
    BY <1>1 DEF TaskOk
<1>3. PICK new \in BOOLEAN :
          new = ((found # Nothing /\ CandidateOk(found)) /\ ~Present(found) /\ found \notin ToSet(sample.extra))
    OBVIOUS
<1>4. PICK extra : extra = IF new THEN Append(sample.extra, found) ELSE sample.extra
    OBVIOUS
<1>5. Distinct(extra) /\ ToSet(extra) \cap ToSet(pool) = {}
    <2>1. CASE new
        <3>1. found \in GoodRoutes(edge) /\ found \notin ToSet(pool) /\ found \notin ToSet(sample.extra)
            BY <1>1, <1>3, <2>1, AcceptedIsGood DEF Present
        <3>2. PICK p, q : p = found /\ q = sample.extra
            OBVIOUS
        <3>3. Distinct(Append(q, p)) /\ ToSet(Append(q, p)) \subseteq ToSet(q) \cup {p}
            BY <1>1, <3>1, <3>2, PoolGrows
        <3>4. extra = Append(q, p)
            BY <1>4, <2>1, <3>2
        <3>5. QED
            BY <1>1, <3>1, <3>2, <3>3, <3>4
    <2>2. CASE ~new
        BY <1>1, <1>4, <2>2
    <2>3. QED
        BY <2>1, <2>2
<1>6. ASSUME PoolFinished(pool, extra) PROVE Working'
    <2>1. PICK q : q = pool
        OBVIOUS
    <2>2. PoolFinished(q, extra) /\ Distinct(q) /\ Len(q) <= PoolBound(walk)
        BY <1>1, <1>6, <2>1
    <2>3. Follows
        BY <1>1, <1>5, <2>2, PoolEnds DEF Follows
    <2>4. QED
        BY <1>1, <2>3
<1>7. PICK b, rest : b = sample.probes[1] /\ rest = Tail(sample.probes)
    OBVIOUS
<1>8. ASSUME sample.probes # <<>>, sample' = [sample EXCEPT !.extra = extra, !.probes = rest],
             Start("probe", b.edges, b.nodes), pool' = pool
      PROVE  Working'
    <2>1. b \in Bans /\ rest \in Seq(Bans)
        <3>1. sample.probes \in Seq(Bans)
            BY <1>1 DEF SampleStates
        <3>2. QED
            BY <1>7, <1>8, <3>1, HeadTailProperties
    <2>2. PICK m : m = [sample EXCEPT !.extra = extra, !.probes = rest]
        OBVIOUS
    <2>3. extra \in Seq(Routes)
        <3>1. GoodRoutes(edge) \subseteq Routes
            BY DEF GoodRoutes
        <3>2. QED
            BY <1>5, <3>1, SeqMonotonic DEF Distinct
    <2>4. m \in SampleStates /\ m.extra = extra /\ m.candidates = sample.candidates
        BY <1>1, <2>1, <2>2, <2>3 DEF SampleStates
    <2>5. Samples(m, pool')
        BY <1>1, <1>5, <1>8, <2>4 DEF Samples
    <2>6. sample' = m /\ Distinct(pool') /\ Len(pool') <= PoolBound(walk) /\ pool' # <<>>
        BY <1>1, <1>2, <1>8, <2>2
    <2>7. Follows
        BY <1>1, <1>8, <2>1, <2>5, <2>6, ProbeStarts DEF Follows
    <2>8. QED
        BY <1>1, <2>7
<1>9. IF sample.probes = <<>> THEN PoolFinished(pool, extra)
      ELSE /\ sample' = [sample EXCEPT !.extra = extra, !.probes = rest]
           /\ Start("probe", b.edges, b.nodes) /\ pool' = pool
    BY <1>3, <1>4, <1>7 DEF Pool
<1>10. QED
    BY <1>6, <1>8, <1>9

\* What build_pool does with the outcome of a search keeps the invariant.
LEMMA PoolKeeps ==
    ASSUME Working, Pool, verdict' = verdict
    PROVE  Working'
<1>1. task \in {"cheapest", "chain", "probe"}
    BY DEF Pool
<1>2. QED
    BY <1>1, CheapestKeeps, ChainKeeps, ProbeKeeps

-----------------------------------------------------------------------------
(* The choice of sets of routes *)

\* The sets that can be offered make a row if each of them can be offered.
LEMMA OffersAre ==
    ASSUME NEW l, NEW O, O = {a \in O : OfferOk(l, a)}, NEW s
    PROVE  /\ s \in Seq(O) => OffersOk(l, s)
<1>1. ASSUME s \in Seq(O) PROVE OffersOk(l, s)
    <2>1. IsRow(s) /\ Len(s) \in Nat /\ DOMAIN s = 1..Len(s)
        BY <1>1, RowsAre
    <2>2. \A i \in DOMAIN s : s[i] \in O
        BY <1>1, <2>1, ElementOfSeq
    <2>3. \A i \in DOMAIN s : OfferOk(l, s[i])
        BY <2>2
    <2>4. QED
        BY <2>1, <2>3 DEF OffersOk
<1>2. QED
    BY <1>1

\* A sequence with an element inserted.
LEMMA InsertIs ==
    ASSUME NEW X, NEW s \in Seq(X), NEW x \in X, NEW i \in 1..(Len(s) + 1)
    PROVE  InsertAt(s, i, x) \in Seq(X) /\ Len(InsertAt(s, i, x)) = Len(s) + 1
<1>1. PICK n \in Nat : n = Len(s) /\ DOMAIN s = 1..n
    BY LenProperties
<1>2. \A k \in 1..n : s[k] \in X
    BY <1>1, ElementOfSeq
<1>3. i \in Nat /\ i - 1 \in Nat /\ i - 1 <= n /\ i <= n + 1
    BY <1>1
<1>4. PICK a : a = SubSeq(s, 1, i - 1)
    OBVIOUS
<1>5. a \in Seq(X) /\ Len(a) = i - 1
    BY <1>1, <1>3, <1>4, PrefixIs
<1>6. PICK c : c = SubSeq(s, i, n)
    OBVIOUS
<1>7. c \in Seq(X) /\ Len(c) = n - i + 1
    <2>1. \A k \in i..n : s[k] \in X
        BY <1>2, <1>3
    <2>2. c \in Seq(X) /\ Len(c) = IF i <= n THEN n - i + 1 ELSE 0
        BY <1>3, <1>6, <2>1, SubSeqProperties
    <2>3. QED
        BY <1>3, <2>2
<1>8. PICK b : b = <<x>>
    OBVIOUS
<1>9. b \in Seq(X) /\ Len(b) = 1
    BY <1>8
<1>10. PICK d : d = a \o b
    OBVIOUS
<1>11. d \in Seq(X) /\ Len(d) = i
    <2>1. a \o b \in Seq(X) /\ Len(a \o b) = Len(a) + Len(b)
        BY <1>5, <1>9, ConcatProperties
    <2>2. QED
        BY <1>3, <1>5, <1>9, <1>10, <2>1
<1>12. d \o c \in Seq(X) /\ Len(d \o c) = Len(d) + Len(c)
    BY <1>7, <1>11, ConcatProperties
<1>13. InsertAt(s, i, x) = d \o c
    BY <1>1, <1>4, <1>6, <1>8, <1>10 DEF InsertAt
<1>14. QED
    BY <1>1, <1>3, <1>7, <1>11, <1>12, <1>13

\* offer_set keeps what is offered, and no more of it than there is room for.
LEMMA OfferSetKeeps ==
    ASSUME NEW l, NEW offered, OffersOk(l, offered), NEW s, OfferOk(l, s),
           limits.max_set_alternatives \in Nat, Len(offered) <= limits.max_set_alternatives
    PROVE  /\ OffersOk(l, offer_set(offered, s))
           /\ Len(offer_set(offered, s)) <= limits.max_set_alternatives
<1>1. PICK O : O = ToSet(offered) \cup {s}
    OBVIOUS
<1>2. offered \in Seq(O) /\ s \in O
    <2>1. offered \in Seq(ToSet(offered)) /\ ToSet(offered) \subseteq O
        BY <1>1 DEF OffersOk, IsRow
    <2>2. QED
        BY <1>1, <2>1, SeqMonotonic
<1>3. PICK n \in Nat : n = Len(offered) /\ DOMAIN offered = 1..n
    BY <1>2, LenProperties
<1>4. O = {a \in O : OfferOk(l, a)}
    <2>1. ASSUME NEW a \in O PROVE OfferOk(l, a)
        <3>1. a = s \/ \E i \in DOMAIN offered : a = offered[i]
            BY <1>1 DEF ToSet
        <3>2. QED
            BY <3>1 DEF OffersOk
    <2>2. QED
        BY <2>1
<1>5. PICK B : B = {i \in DOMAIN offered : path_set_less(offered[i], s)}
    OBVIOUS
<1>6. Cardinality(B) \in Nat /\ Cardinality(B) <= n
    <2>1. IsFiniteSet(1..n) /\ Cardinality(1..n) = n
        <3>0. 1 \in Int /\ n \in Int
            OBVIOUS
        <3>1. IsFiniteSet(1..n) /\ Cardinality(1..n) = IF 1 > n THEN 0 ELSE n - 1 + 1
            BY <3>0, FS_Interval, Zenon
        <3>2. QED
            BY <3>1
    <2>2. B \subseteq 1..n
        BY <1>3, <1>5
    <2>3. IsFiniteSet(B) /\ Cardinality(B) <= Cardinality(1..n)
        BY <2>1, <2>2, FS_Subset
    <2>4. QED
        BY <2>1, <2>3, FS_CardinalityType
<1>7. PICK i : i = 1 + Cardinality(B)
    OBVIOUS
<1>8. i \in 1..(Len(offered) + 1)
    BY <1>3, <1>6, <1>7
<1>9. PICK g : g = InsertAt(offered, i, s)
    OBVIOUS
<1>10. g \in Seq(O) /\ Len(g) = n + 1
    BY <1>2, <1>3, <1>8, <1>9, InsertIs
<1>11. PICK r : r = offer_set(offered, s)
    OBVIOUS
<1>12. r = IF Len(g) > limits.max_set_alternatives THEN Front(g) ELSE g
    BY <1>5, <1>7, <1>9, <1>11 DEF offer_set
<1>13. r \in Seq(O) /\ Len(r) <= limits.max_set_alternatives
    <2>1. g # <<>>
        BY <1>3, <1>10
    <2>2. Front(g) \in Seq(O) /\ Len(Front(g)) = n
        BY <1>3, <1>10, <2>1, FrontIs
    <2>3. CASE Len(g) > limits.max_set_alternatives
        BY <1>3, <1>12, <2>2, <2>3
    <2>4. CASE ~(Len(g) > limits.max_set_alternatives)
        BY <1>3, <1>10, <1>12, <2>4
    <2>5. QED
        BY <2>3, <2>4
<1>14. OffersOk(l, r)
    BY <1>4, <1>13, OffersAre
<1>15. QED
    BY <1>11, <1>13, <1>14

\* Routes that go together do so either way round.
LEMMA CompatibleEitherWay ==
    ASSUME NEW p, NEW q, Compatible(p, q)
    PROVE  Disjoint(p, q) /\ Diverse(p, q) /\ Disjoint(q, p) /\ Diverse(q, p)
BY DEF Compatible, Disjoint, Diverse, domains_independent

\* The routes at the chosen positions are as many as were chosen, and a set that can be offered.
LEMMA ChosenIsOffer ==
    ASSUME SetupOk, NEW c, NEW q, Chooses(c, q), Distinct(q), Len(c.chosen) = Wanted,
           NEW S, S = {q[c.chosen[i]] : i \in DOMAIN c.chosen}
    PROVE  OfferOk(edge, PathSet(S))
<1>1. PICK x : x = c.chosen
    OBVIOUS
<1>2. PICK n \in Nat \ {0} : n = Wanted
    BY SetupFacts
<1>3. /\ x \in Seq(DOMAIN q) /\ Len(x) = n
      /\ \A i, j \in DOMAIN x : i < j => x[i] < x[j] /\ Compatible(q[x[i]], q[x[j]])
    BY <1>1, <1>2 DEF Chooses
<1>4. DOMAIN x = 1..n /\ \A i \in 1..n : x[i] \in DOMAIN q
    BY <1>3, LenProperties, ElementOfSeq
<1>5. PICK m \in Nat : m = Len(q) /\ DOMAIN q = 1..m
    BY LenProperties DEF Distinct
<1>6. /\ \A k \in DOMAIN q : q[k] \in GoodRoutes(edge)
      /\ \A i, j \in DOMAIN q : q[i] = q[j] => i = j
    BY <1>5, ElementOfSeq DEF Distinct, IsInjective
<1>7. ASSUME NEW i \in 1..n, NEW j \in 1..n, i # j
      PROVE  /\ q[x[i]] # q[x[j]]
             /\ Disjoint(q[x[i]], q[x[j]]) /\ Diverse(q[x[i]], q[x[j]])
    <2>1. x[i] \in 1..m /\ x[j] \in 1..m
        BY <1>4, <1>5
    <2>2. CASE i < j
        <3>1. x[i] < x[j] /\ Compatible(q[x[i]], q[x[j]])
            BY <1>3, <1>4, <2>2
        <3>2. x[i] # x[j]
            BY <2>1, <3>1
        <3>3. QED
            BY <1>4, <1>6, <3>1, <3>2, CompatibleEitherWay
    <2>3. CASE j < i
        <3>1. x[j] < x[i] /\ Compatible(q[x[j]], q[x[i]])
            BY <1>3, <1>4, <2>3
        <3>2. x[i] # x[j]
            BY <2>1, <3>1
        <3>3. QED
            BY <1>4, <1>6, <3>1, <3>2, CompatibleEitherWay
    <2>4. QED
        BY <1>7, <2>2, <2>3
<1>8. PICK f : f = [i \in 1..n |-> q[x[i]]]
    OBVIOUS
<1>9. S = {q[x[i]] : i \in 1..n}
    BY <1>1, <1>4
<1>10. f \in Surjection(1..n, S) /\ f \in Injection(1..n, S)
    <2>1. f \in [1..n -> S] /\ \A i \in 1..n : f[i] = q[x[i]]
        BY <1>8, <1>9
    <2>2. \A y \in S : \E i \in 1..n : f[i] = y
        BY <1>9, <2>1
    <2>3. \A i, j \in 1..n : f[i] = f[j] => i = j
        BY <1>7, <2>1
    <2>4. QED
        BY <2>1, <2>2, <2>3 DEF Surjection, Injection, IsInjective
<1>11. IsFiniteSet(S) /\ Cardinality(S) = n
    <2>1. IsFiniteSet(1..n) /\ Cardinality(1..n) = IF 1 > n THEN 0 ELSE n - 1 + 1
        BY FS_Interval
    <2>2. IsFiniteSet(S) /\ Cardinality(S) = Cardinality(1..n)
        BY <1>10, <2>1, FS_Surjection
    <2>3. QED
        BY <2>1, <2>2
<1>12. S \subseteq GoodRoutes(edge) /\ S \subseteq Routes
    <2>1. S \subseteq GoodRoutes(edge)
        BY <1>4, <1>6, <1>9
    <2>2. QED
        BY <2>1 DEF GoodRoutes
<1>13. PICK s : s = RoutesInOrder(S)
    OBVIOUS
<1>14. /\ s \in Seq(S) /\ Len(s) = n /\ DOMAIN s = 1..n
       /\ \A i, j \in DOMAIN s : s[i] = s[j] => i = j
    BY <1>11, <1>12, <1>13, RoutesAreOrdered, SetupFacts
<1>15. PathSet(S).paths = s
    BY <1>13 DEF PathSet, RoutesInOrder
<1>16. \A i \in 1..n : s[i] \in S
    BY <1>14, ElementOfSeq
<1>17. \A i \in 1..n : Good(edge, s[i])
    BY <1>12, <1>16 DEF GoodRoutes
<1>18. s \in Seq(Routes)
    BY <1>12, <1>14, SeqMonotonic
<1>19. ASSUME NEW i \in 1..n, NEW j \in 1..n, i # j
       PROVE  Disjoint(s[i], s[j]) /\ Diverse(s[i], s[j])
    <2>1. s[i] # s[j]
        BY <1>14, <1>19
    <2>2. PICK a \in 1..n : s[i] = q[x[a]]
        BY <1>9, <1>16
    <2>3. PICK b \in 1..n : s[j] = q[x[b]]
        BY <1>9, <1>16
    <2>4. a # b
        BY <2>1, <2>2, <2>3
    <2>5. QED
        BY <1>7, <2>2, <2>3, <2>4
<1>20. IsInjective(s)
    BY <1>14 DEF IsInjective
<1>21. QED
    BY <1>2, <1>14, <1>15, <1>17, <1>18, <1>19, <1>20 DEF OfferOk

\* The choice goes on behind what it has looked at.
LEMMA ChoosesLike ==
    ASSUME NEW c, NEW q, Chooses(c, q), NEW d,
           DOMAIN d = DOMAIN c, d.chosen = c.chosen, d.next \in Nat, c.next <= d.next,
           DOMAIN q \subseteq Nat,
           d.considered \in Nat, d.rejected \in [disjointness : Nat, domain : Nat, capacity : Nat],
           OffersOk(edge, d.offered), Len(d.offered) <= limits.max_set_alternatives
    PROVE  Chooses(d, q)
<1>1. /\ DOMAIN c = {"chosen", "next", "entering", "considered", "limited", "offered", "rejected"}
      /\ c.chosen \in Seq(DOMAIN q) /\ Len(c.chosen) <= Wanted
      /\ c.next \in Nat \ {0}
      /\ \A i \in DOMAIN c.chosen : c.chosen[i] < c.next
      /\ \A i, j \in DOMAIN c.chosen : i < j =>
            c.chosen[i] < c.chosen[j] /\ Compatible(q[c.chosen[i]], q[c.chosen[j]])
    BY DEF Chooses
<1>2. PICK n \in Nat : n = c.next
    BY <1>1
<1>3. PICK m \in Nat : m = d.next
    OBVIOUS
<1>4. n # 0 /\ n <= m
    BY <1>1, <1>2, <1>3
<1>5. ASSUME NEW i \in DOMAIN c.chosen PROVE c.chosen[i] < d.next
    <2>1. c.chosen[i] \in DOMAIN q
        BY <1>1, ElementOfSeq, LenProperties
    <2>2. PICK k \in Nat : k = c.chosen[i]
        BY <2>1
    <2>3. k < n
        BY <1>1, <1>2, <2>2
    <2>4. k < m
        BY <1>4, <2>3
    <2>5. QED
        BY <1>3, <2>2, <2>4
<1>6. d.next \in Nat \ {0}
    BY <1>3, <1>4
<1>7. QED
    BY <1>1, <1>5, <1>6 DEF Chooses

\* The choice without its last route: its loop goes on behind that route.
LEMMA LeftChooses ==
    ASSUME SetupOk, NEW c, NEW q, Chooses(c, q), Distinct(q), c.chosen # <<>>
    PROVE  Chooses(Left(c), q)
<1>1. /\ DOMAIN c = {"chosen", "next", "entering", "considered", "limited", "offered", "rejected"}
      /\ c.considered \in Nat /\ c.rejected \in [disjointness : Nat, domain : Nat, capacity : Nat]
      /\ c.chosen \in Seq(DOMAIN q) /\ Len(c.chosen) <= Wanted
      /\ \A i, j \in DOMAIN c.chosen : i < j =>
            c.chosen[i] < c.chosen[j] /\ Compatible(q[c.chosen[i]], q[c.chosen[j]])
      /\ OffersOk(edge, c.offered) /\ Len(c.offered) <= limits.max_set_alternatives
    BY DEF Chooses
<1>2. PICK x : x = c.chosen
    OBVIOUS
<1>3. PICK n \in Nat \ {0} : n = Len(x) /\ DOMAIN x = 1..n
    BY <1>1, <1>2, LenProperties, EmptySeq
<1>4. PICK m \in Nat : DOMAIN q = 1..m
    BY LenProperties DEF Distinct
<1>5. \A i \in 1..n : x[i] \in 1..m
    BY <1>1, <1>2, <1>3, <1>4, ElementOfSeq
<1>6. PICK y, z : y = Front(x) /\ z = Last(x)
    OBVIOUS
<1>7. /\ y \in Seq(DOMAIN q) /\ Len(y) = n - 1 /\ DOMAIN y = 1..(n - 1)
      /\ (\A i \in 1..(n - 1) : y[i] = x[i]) /\ z = x[n]
    BY <1>1, <1>2, <1>3, <1>6, FrontIs
<1>8. z \in 1..m /\ z + 1 \in Nat \ {0}
    BY <1>3, <1>5, <1>7
<1>9. PICK d : d = Left(c)
    OBVIOUS
<1>10. /\ DOMAIN d = DOMAIN c /\ d.chosen = y /\ d.next = z + 1 /\ d.considered = c.considered
       /\ d.rejected = c.rejected /\ d.offered = c.offered
    BY <1>1, <1>2, <1>6, <1>9 DEF Left
<1>11. ASSUME NEW i \in 1..(n - 1) PROVE y[i] < z + 1
    <2>1. i \in 1..n /\ n \in 1..n /\ i < n
        BY <1>3
    <2>2. x[i] < x[n]
        BY <1>1, <1>2, <1>3, <2>1
    <2>3. x[i] \in Nat /\ z \in Nat
        BY <1>5, <1>8, <2>1
    <2>4. QED
        BY <1>7, <2>2, <2>3
<1>12. ASSUME NEW i \in 1..(n - 1), NEW j \in 1..(n - 1), i < j
       PROVE  y[i] < y[j] /\ Compatible(q[y[i]], q[y[j]])
    <2>1. i \in 1..n /\ j \in 1..n
        BY <1>3
    <2>2. x[i] < x[j] /\ Compatible(q[x[i]], q[x[j]])
        BY <1>1, <1>2, <1>3, <1>12, <2>1
    <2>3. QED
        BY <1>7, <2>2
<1>13. Len(y) <= Wanted
    BY <1>1, <1>2, <1>3, <1>7, SetupFacts
<1>14. Chooses(d, q)
    BY <1>1, <1>7, <1>8, <1>10, <1>11, <1>12, <1>13 DEF Chooses
<1>15. QED
    BY <1>9, <1>14

\* The choice with one route more.
LEMMA GrownChooses ==
    ASSUME SetupOk, NEW c, NEW q, Chooses(c, q), Distinct(q),
           Len(c.chosen) # Wanted, c.next <= Len(q),
           \A i \in DOMAIN c.chosen : Compatible(q[c.chosen[i]], q[c.next]),
           NEW d, d = [c EXCEPT !.chosen = Append(@, c.next), !.next = @ + 1, !.entering = TRUE]
    PROVE  Chooses(d, q)
<1>1. /\ DOMAIN c = {"chosen", "next", "entering", "considered", "limited", "offered", "rejected"}
      /\ c.considered \in Nat /\ c.rejected \in [disjointness : Nat, domain : Nat, capacity : Nat]
      /\ c.chosen \in Seq(DOMAIN q) /\ Len(c.chosen) <= Wanted
      /\ c.next \in Nat \ {0}
      /\ \A i \in DOMAIN c.chosen : c.chosen[i] < c.next
      /\ \A i, j \in DOMAIN c.chosen : i < j =>
            c.chosen[i] < c.chosen[j] /\ Compatible(q[c.chosen[i]], q[c.chosen[j]])
      /\ OffersOk(edge, c.offered) /\ Len(c.offered) <= limits.max_set_alternatives
    BY DEF Chooses
<1>2. PICK x, k : x = c.chosen /\ k = c.next
    OBVIOUS
<1>3. PICK n \in Nat : n = Len(x) /\ DOMAIN x = 1..n
    BY <1>1, <1>2, LenProperties
<1>4. PICK m \in Nat : m = Len(q) /\ DOMAIN q = 1..m
    BY LenProperties DEF Distinct
<1>5. \A i \in 1..n : x[i] \in 1..m
    BY <1>1, <1>2, <1>3, <1>4, ElementOfSeq
<1>6. k \in Nat \ {0} /\ k \in 1..m /\ k \in DOMAIN q
    BY <1>1, <1>2, <1>4
<1>7. PICK y : y = Append(x, k)
    OBVIOUS
<1>8. /\ y \in Seq(DOMAIN q) /\ Len(y) = n + 1 /\ DOMAIN y = 1..(n + 1)
      /\ (\A i \in 1..n : y[i] = x[i]) /\ y[n + 1] = k
    BY <1>1, <1>2, <1>3, <1>6, <1>7, AppendIs
<1>9. /\ DOMAIN d = DOMAIN c /\ d.chosen = y /\ d.next = k + 1 /\ d.considered = c.considered
      /\ d.rejected = c.rejected /\ d.offered = c.offered
    BY <1>1, <1>2, <1>7
<1>10. ASSUME NEW i \in 1..(n + 1) PROVE y[i] < k + 1
    <2>1. CASE i \in 1..n
        <3>1. x[i] < k /\ x[i] \in 1..m
            BY <1>1, <1>2, <1>3, <1>5, <2>1
        <3>2. QED
            BY <1>6, <1>8, <2>1, <3>1
    <2>2. CASE i = n + 1
        BY <1>6, <1>8, <2>2
    <2>3. QED
        BY <2>1, <2>2
<1>11. ASSUME NEW i \in 1..(n + 1), NEW j \in 1..(n + 1), i < j
       PROVE  y[i] < y[j] /\ Compatible(q[y[i]], q[y[j]])
    <2>1. i \in 1..n
        BY <1>11
    <2>2. CASE j \in 1..n
        <3>1. x[i] < x[j] /\ Compatible(q[x[i]], q[x[j]])
            BY <1>1, <1>2, <1>3, <1>11, <2>1, <2>2
        <3>2. QED
            BY <1>8, <2>1, <2>2, <3>1
    <2>3. CASE j = n + 1
        <3>1. x[i] < k /\ Compatible(q[x[i]], q[k])
            BY <1>1, <1>2, <1>3, <2>1
        <3>2. QED
            BY <1>8, <2>1, <2>3, <3>1
    <2>4. QED
        BY <2>2, <2>3
<1>12. Len(y) <= Wanted
    BY <1>1, <1>2, <1>3, <1>8, SetupFacts
<1>13. d.next \in Nat \ {0}
    BY <1>6, <1>9
<1>14. \A i \in DOMAIN d.chosen : d.chosen[i] < d.next
    BY <1>8, <1>9, <1>10
<1>15. \A i, j \in DOMAIN d.chosen : i < j =>
          d.chosen[i] < d.chosen[j] /\ Compatible(q[d.chosen[i]], q[d.chosen[j]])
    BY <1>8, <1>9, <1>11
<1>16. d.chosen \in Seq(DOMAIN q) /\ Len(d.chosen) <= Wanted
    BY <1>8, <1>9, <1>12
<1>17. /\ DOMAIN d = {"chosen", "next", "entering", "considered", "limited", "offered", "rejected"}
       /\ d.considered \in Nat /\ d.rejected \in [disjointness : Nat, domain : Nat, capacity : Nat]
       /\ OffersOk(edge, d.offered) /\ Len(d.offered) <= limits.max_set_alternatives
    BY <1>1, <1>9
<1>18. QED
    BY <1>13, <1>14, <1>15, <1>16, <1>17 DEF Chooses

\* What holds while sets are chosen, and when the choice goes on.
LEMMA WhileChoosing ==
    ASSUME Working, pc = "sets", verdict' = verdict
    PROVE  /\ SetupOk /\ StartedOk /\ verdict = "none" /\ Distinct(pool) /\ Chooses(combo, pool)
           /\ BoundEnds(edge) /\ From(edge).node \in planner.nodes /\ Len(plans) = edge - 1
           /\ \A c : Chose(c) /\ Chooses(c, pool) => Working'
<1>1. pc \in Analysing
    BY DEF Analysing
<1>2. /\ SetupOk /\ StartedOk /\ verdict = "none" /\ Len(plans) = edge - 1
      /\ BoundEnds(edge) /\ From(edge).node \in planner.nodes
      /\ AnalysisFits("sets", walk, pool, blocks, sample, task, search, found, combo)
      /\ expansions \in Nat /\ expansions <= Policy.max_search_expansions
      /\ enumerated \in Nat /\ enumerated <= limits.max_total_enumeration_steps
    BY <1>1, AnalysingFacts
<1>3. Distinct(pool) /\ Chooses(combo, pool)
    BY <1>2 DEF AnalysisFits
<1>4. ASSUME NEW c, Chose(c), Chooses(c, pool) PROVE Working'
    <2>1. /\ request' = request /\ planner' = planner /\ limits' = limits /\ edge' = edge /\ plans' = plans
          /\ expansions' = expansions /\ enumerated' = enumerated /\ pc' = pc /\ combo' = c
          /\ walk' = walk /\ pool' = pool /\ blocks' = blocks /\ sample' = sample /\ task' = task
          /\ search' = search /\ found' = found
        BY <1>4 DEF Chose
    <2>2. AnalysisFits("sets", walk, pool, blocks, sample, task, search, found, c)
        BY <1>2, <1>4 DEF AnalysisFits
    <2>3. AnalysisFits(pc', walk', pool', blocks', sample', task', search', found', combo')
        BY <2>1, <2>2
    <2>4. QED
        BY <1>1, <1>2, <2>1, <2>3, AnalysisStep
<1>5. QED
    BY <1>2, <1>3, <1>4

\* A step of the choice keeps the invariant.
LEMMA ChooseKeeps ==
    ASSUME Working, Choose, verdict' = verdict
    PROVE  Working'
<1>1. pc = "sets" /\ ~ChoosingEnds
    BY DEF Choose
<1>2. /\ SetupOk /\ Distinct(pool) /\ Chooses(combo, pool)
      /\ \A c : Chose(c) /\ Chooses(c, pool) => Working'
    BY <1>1, WhileChoosing
<1>3. PICK c, q : c = combo /\ q = pool
    OBVIOUS
<1>4. Chooses(c, q) /\ Distinct(q)
    BY <1>2, <1>3
<1>5. /\ DOMAIN c = {"chosen", "next", "entering", "considered", "limited", "offered", "rejected"}
      /\ c.considered \in Nat /\ c.rejected \in [disjointness : Nat, domain : Nat, capacity : Nat]
      /\ c.chosen \in Seq(DOMAIN q) /\ c.next \in Nat \ {0}
      /\ OffersOk(edge, c.offered) /\ Len(c.offered) <= limits.max_set_alternatives
    BY <1>4 DEF Chooses
<1>6. DOMAIN q \subseteq Nat /\ Len(q) \in Nat
    BY <1>4, LenProperties DEF Distinct
<1>7. ASSUME LoopOver, Chose(Left(c)) PROVE Working'
    <2>1. c.chosen # <<>>
        BY <1>1, <1>3, <1>7 DEF ChoosingEnds
    <2>2. Chooses(Left(c), q)
        BY <1>2, <1>4, <2>1, LeftChooses
    <2>3. QED
        BY <1>2, <1>3, <1>7, <2>2
<1>8. PICK n : n = [c EXCEPT !.considered = @ + 1]
    OBVIOUS
<1>9. /\ DOMAIN n = DOMAIN c /\ n.chosen = c.chosen /\ n.next = c.next /\ n.considered = c.considered + 1
      /\ n.rejected = c.rejected /\ n.offered = c.offered
    BY <1>5, <1>8
<1>10. Chooses(n, q)
    <2>1. n.considered \in Nat /\ n.next \in Nat /\ c.next <= n.next
        BY <1>5, <1>9
    <2>2. QED
        BY <1>4, <1>5, <1>6, <1>9, <2>1, ChoosesLike
<1>11. PICK S : S = {q[c.chosen[i]] : i \in DOMAIN c.chosen}
    OBVIOUS
<1>12. ASSUME SetComplete PROVE Chooses(Left(n), q) /\ OfferOk(edge, PathSet(S))
    <2>1. Len(c.chosen) = Wanted
        BY <1>3, <1>12 DEF SetComplete
    <2>2. c.chosen # <<>>
        BY <1>2, <2>1, SetupFacts
    <2>3. Chooses(Left(n), q)
        BY <1>2, <1>4, <1>9, <1>10, <2>2, LeftChooses
    <2>4. OfferOk(edge, PathSet(S))
        BY <1>2, <1>4, <1>11, <2>1, ChosenIsOffer
    <2>5. QED
        BY <2>3, <2>4
<1>13. PICK u : u = Left(n)
    OBVIOUS
<1>14. u.offered = c.offered /\ u.rejected = c.rejected /\ u.considered \in Nat
       /\ DOMAIN u = {"chosen", "next", "entering", "considered", "limited", "offered", "rejected"}
    BY <1>5, <1>9, <1>13 DEF Left
<1>15. ASSUME SetComplete, Chose([Left(n) EXCEPT !.offered = offer_set(@, PathSet(S))]) PROVE Working'
    <2>1. PICK o : o = offer_set(u.offered, PathSet(S))
        OBVIOUS
    <2>2. PICK d : d = [u EXCEPT !.offered = o]
        OBVIOUS
    <2>3. OffersOk(edge, o) /\ Len(o) <= limits.max_set_alternatives
        <3>1. PICK s : s = PathSet(S)
            OBVIOUS
        <3>2. OfferOk(edge, s) /\ limits.max_set_alternatives \in Nat
            BY <1>2, <1>12, <1>15, <3>1, SetupFacts
        <3>3. PICK p : p = u.offered
            OBVIOUS
        <3>4. OffersOk(edge, p) /\ Len(p) <= limits.max_set_alternatives
            BY <1>5, <1>14, <3>3
        <3>5. o = offer_set(p, s)
            BY <2>1, <3>1, <3>3
        <3>6. QED
            BY <3>2, <3>4, <3>5, OfferSetKeeps
    <2>4. /\ DOMAIN d = DOMAIN u /\ d.chosen = u.chosen /\ d.next = u.next /\ d.offered = o
          /\ d.considered = u.considered /\ d.rejected = u.rejected
        BY <1>14, <2>2
    <2>5. Chooses(u, q)
        BY <1>12, <1>13, <1>15
    <2>6. u.next \in Nat
        BY <2>5 DEF Chooses
    <2>7. d.next \in Nat /\ u.next <= d.next /\ d.considered \in Nat
          /\ d.rejected \in [disjointness : Nat, domain : Nat, capacity : Nat]
        BY <1>5, <1>14, <2>4, <2>6
    <2>8. Chooses(d, q)
        BY <1>6, <2>3, <2>4, <2>5, <2>7, ChoosesLike
    <2>9. Chose(d)
        BY <1>13, <1>15, <2>1, <2>2
    <2>10. QED
        BY <1>2, <1>3, <2>8, <2>9
<1>16. ASSUME SetComplete, Chose([Left(n) EXCEPT !.rejected.capacity = @ + 1]) PROVE Working'
    <2>1. PICK r : r = [u.rejected EXCEPT !.capacity = @ + 1]
        OBVIOUS
    <2>2. r \in [disjointness : Nat, domain : Nat, capacity : Nat]
        BY <1>5, <1>14, <2>1
    <2>3. PICK d : d = [u EXCEPT !.rejected = r]
        OBVIOUS
    <2>4. /\ DOMAIN d = DOMAIN u /\ d.chosen = u.chosen /\ d.next = u.next /\ d.rejected = r
          /\ d.considered = u.considered /\ d.offered = u.offered
        BY <1>14, <2>3
    <2>5. Chooses(u, q)
        BY <1>12, <1>13, <1>16
    <2>6. u.next \in Nat
        BY <2>5 DEF Chooses
    <2>7. d.next \in Nat /\ u.next <= d.next /\ d.considered \in Nat
          /\ OffersOk(edge, d.offered) /\ Len(d.offered) <= limits.max_set_alternatives
        BY <1>5, <1>14, <2>4, <2>6
    <2>8. Chooses(d, q)
        BY <1>6, <2>2, <2>4, <2>5, <2>7, ChoosesLike
    <2>9. Chose(d)
        BY <1>13, <1>16, <2>1, <2>3
    <2>10. QED
        BY <1>2, <1>3, <2>8, <2>9
<1>17. ASSUME ~SetComplete, ~LoopOver,
              \A i \in DOMAIN c.chosen : Compatible(q[c.chosen[i]], q[c.next]),
              Chose([c EXCEPT !.chosen = Append(@, c.next), !.next = @ + 1, !.entering = TRUE])
       PROVE  Working'
    <2>1. Len(c.chosen) # Wanted
        BY <1>3, <1>17 DEF SetComplete
    <2>2. c.next <= Len(q)
        BY <1>3, <1>5, <1>6, <1>17 DEF LoopOver
    <2>3. PICK d : d = [c EXCEPT !.chosen = Append(@, c.next), !.next = @ + 1, !.entering = TRUE]
        OBVIOUS
    <2>4. Chooses(d, q)
        BY <1>2, <1>4, <1>17, <2>1, <2>2, <2>3, GrownChooses
    <2>5. QED
        BY <1>2, <1>3, <1>17, <2>3, <2>4
<1>18. PICK k : k = Rejects(c.chosen, q[c.next])
    OBVIOUS
<1>19. k \in {"disjointness", "domain"}
    BY <1>18 DEF Rejects
<1>20. ASSUME Chose([n EXCEPT !.next = @ + 1, !.entering = FALSE, !.rejected[k] = @ + 1]) PROVE Working'
    <2>1. PICK r : r = [n.rejected EXCEPT ![k] = @ + 1]
        OBVIOUS
    <2>2. r \in [disjointness : Nat, domain : Nat, capacity : Nat]
        BY <1>5, <1>9, <1>19, <2>1
    <2>3. PICK d : d = [n EXCEPT !.next = @ + 1, !.entering = FALSE, !.rejected = r]
        OBVIOUS
    <2>4. /\ DOMAIN d = DOMAIN n /\ d.chosen = n.chosen /\ d.next = n.next + 1 /\ d.rejected = r
          /\ d.considered = n.considered /\ d.offered = n.offered
        BY <1>5, <1>9, <2>3
    <2>5. d.next \in Nat /\ n.next <= d.next /\ d.considered \in Nat
          /\ OffersOk(edge, d.offered) /\ Len(d.offered) <= limits.max_set_alternatives
        BY <1>5, <1>9, <2>4
    <2>6. Chooses(d, q)
        BY <1>6, <1>10, <2>2, <2>4, <2>5, ChoosesLike
    <2>7. Chose(d)
        BY <1>20, <2>1, <2>3
    <2>8. QED
        BY <1>2, <1>3, <2>6, <2>7
<1>21. QED
    BY <1>3, <1>7, <1>8, <1>11, <1>15, <1>16, <1>17, <1>18, <1>20 DEF Choose

\* A denial is no offer.
LEMMA RefusalOffers ==
    ASSUME NEW l
    PROVE  /\ OffersOk(l, EmptyPool.alternatives) /\ EmptyPool.alternatives = <<>>
           /\ OffersOk(l, NoSet.alternatives) /\ NoSet.alternatives = <<>>
           /\ Offered.alternatives = combo.offered
<1>1. EmptyPool.alternatives = <<>>
    <2>1. EmptyPool = Limited \/ EmptyPool = Denial("infeasible", diagnose_unreachable)
        BY DEF EmptyPool
    <2>2. QED
        BY <2>1, DenialOffersNothing
<1>2. NoSet.alternatives = <<>>
    <2>1. NoSet = Limited \/ \E code : NoSet = Denial("infeasible", code)
        BY DEF NoSet
    <2>2. QED
        BY <2>1, DenialOffersNothing
<1>3. OffersOk(l, <<>>)
    BY DenialOffersNothing
<1>4. Offered.alternatives = combo.offered
    BY DEF Offered
<1>5. QED
    BY <1>1, <1>2, <1>3, <1>4

\* The end of analyse_logical_edge, or the certificate, keeps the invariant.
LEMMA ConcludeKeeps ==
    ASSUME Working, Conclude, verdict' = verdict
    PROVE  Working'
<1>1. pc = "sets" /\ pc \in Analysing
    BY DEF Conclude, Analysing
<1>2. /\ SetupOk /\ StartedOk /\ verdict = "none" /\ Distinct(pool) /\ Chooses(combo, pool)
      /\ BoundEnds(edge) /\ From(edge).node \in planner.nodes /\ Len(plans) = edge - 1
    BY <1>1, WhileChoosing
<1>3. /\ request' = request /\ planner' = planner /\ limits' = limits
      /\ expansions' = expansions /\ enumerated' = enumerated
    BY DEF Conclude
<1>4. ASSUME NEW result, Settle(result), OffersOk(edge, result.alternatives) PROVE Working'
    BY <1>2, <1>3, <1>4, Settling
<1>5. CASE Settle(EmptyPool)
    BY <1>4, <1>5, RefusalOffers
<1>6. CASE Settle(NoSet)
    BY <1>4, <1>6, RefusalOffers
<1>7. CASE Settle(Offered)
    <2>1. OffersOk(edge, combo.offered)
        BY <1>2 DEF Chooses
    <2>2. OffersOk(edge, Offered.alternatives)
        BY <2>1, RefusalOffers
    <2>3. QED
        BY <1>4, <1>7, <2>2
<1>8. CASE pc' = "certify" /\ plans' = plans /\ edge' = edge
    <2>1. /\ walk' = walk /\ pool' = pool /\ blocks' = blocks /\ sample' = sample /\ task' = task
          /\ search' = search /\ found' = found /\ combo' = combo
        BY DEF Conclude
    <2>2. /\ AnalysisFits("sets", walk, pool, blocks, sample, task, search, found, combo)
          /\ expansions \in Nat /\ expansions <= Policy.max_search_expansions
          /\ enumerated \in Nat /\ enumerated <= limits.max_total_enumeration_steps
        BY <1>1, AnalysingFacts
    <2>3. AnalysisFits("certify", walk, pool, blocks, sample, task, search, found, combo)
        BY <2>2 DEF AnalysisFits
    <2>4. AnalysisFits(pc', walk', pool', blocks', sample', task', search', found', combo')
        BY <1>8, <2>1, <2>3
    <2>5. pc' \in Analysing
        BY <1>8 DEF Analysing
    <2>6. QED
        BY <1>2, <1>3, <1>8, <2>2, <2>4, <2>5, AnalysisStep
<1>9. QED
    BY <1>5, <1>6, <1>7, <1>8 DEF Conclude

\* An augmenting path keeps the invariant.
LEMMA AugmentKeeps ==
    ASSUME Working, Augment, verdict' = verdict
    PROVE  Working'
<1>1. pc = "certify" /\ pc \in Analysing
    BY DEF Augment, Analysing
<1>2. /\ SetupOk /\ StartedOk /\ verdict = "none"
      /\ AnalysisFits(pc, walk, pool, blocks, sample, task, search, found, combo)
      /\ expansions \in Nat /\ expansions <= Policy.max_search_expansions
      /\ enumerated \in Nat /\ enumerated <= limits.max_total_enumeration_steps
    BY <1>1, AnalysingFacts
<1>3. /\ request' = request /\ planner' = planner /\ limits' = limits /\ edge' = edge /\ plans' = plans
      /\ expansions' = expansions /\ enumerated' = enumerated /\ pc' = pc
      /\ walk' = walk /\ pool' = pool /\ blocks' = blocks /\ sample' = sample /\ task' = task
      /\ search' = search /\ found' = found /\ combo' = combo
    BY DEF Augment
<1>4. AnalysisFits(pc', walk', pool', blocks', sample', task', search', found', combo')
    BY <1>2, <1>3
<1>5. QED
    BY <1>1, <1>2, <1>3, <1>4, AnalysisStep

\* The certificate settles the logical edge and keeps the invariant.
LEMMA CertifyKeeps ==
    ASSUME Working, Certify, verdict' = verdict
    PROVE  Working'
<1>1. pc \in Analysing
    BY DEF Certify, Analysing
<1>2. /\ SetupOk /\ verdict = "none" /\ Len(plans) = edge - 1
    BY <1>1, AnalysingFacts
<1>3. /\ request' = request /\ planner' = planner /\ limits' = limits
      /\ expansions' = expansions /\ enumerated' = enumerated
    BY DEF Certify, searching
<1>4. PICK result : result = IF flow.value < Wanted THEN Denial("infeasible", "disjoint") ELSE NoSet
    OBVIOUS
<1>5. Settle(result)
    BY <1>4 DEF Certify
<1>6. result.alternatives = <<>> /\ OffersOk(edge, result.alternatives)
    <2>1. result = Denial("infeasible", "disjoint") \/ result = NoSet
        BY <1>4
    <2>2. QED
        BY <2>1, RefusalOffers, DenialOffersNothing
<1>7. QED
    BY <1>2, <1>3, <1>5, <1>6, Settling

\* Every step of the search for routes keeps the invariant.
LEMMA SearchKeeps ==
    ASSUME Working, Search
    PROVE  Working'
<1>1. verdict' = verdict /\ SearchNext
    BY DEF Search
<1>2. QED
    BY <1>1, AnalyseKeeps, SweepKeeps, WalkKeeps, SweepEndKeeps, PopKeeps, ExhaustedKeeps, PoolKeeps,
       ChooseKeeps, ConcludeKeeps, AugmentKeeps, CertifyKeeps DEF SearchNext

-----------------------------------------------------------------------------
(* The materialised plan *)

\* What Materialise puts into a plan, part by part.
Owners(sets) == FlattenSeq([l \in LogicalEdges |-> [i \in DOMAIN sets[l] |-> l]])
PathsOf(sets) ==
    [i \in DOMAIN FlattenSeq(sets) |-> PathOf(i, Owners(sets)[i], FlattenSeq(sets)[i])]
StageAt(paths, s) ==
    [index |-> s,
     logical_edges |-> Numbers({l \in LogicalEdges : request.collective.logical_edge_stage[l] = s}),
     paths |-> Numbers({i \in DOMAIN paths : paths[i].stage = s})]
LoadedEdges(routes) == Numbers({e \in Edges : AllocationOf(routes, e) > 0})
AllocationsOf(routes) ==
    [i \in DOMAIN LoadedEdges(routes) |->
        [edge |-> Edge(LoadedEdges(routes)[i]).id,
         planned |-> AllocationOf(routes, LoadedEdges(routes)[i])]]
PlanOf(sets) ==
    [id |-> canonical_digest(request), input_digest |-> canonical_digest(request),
     generation |-> request.plan_generation, bindings |-> current_bindings(request),
     stage_count |-> request.collective.stage_count,
     stages |-> [s \in 1..request.collective.stage_count |-> StageAt(PathsOf(sets), s - 1)],
     paths |-> PathsOf(sets),
     allocations |-> AllocationsOf(FlattenSeq(sets)),
     stats |-> StatsOf(PathsOf(sets))]

\* The parts make up the plan.
LEMMA PlanIsMade ==
    ASSUME NEW sets
    PROVE  Materialise(sets) = PlanOf(sets)
<1>1. \A x : Owners(x) = FlattenSeq([l \in LogicalEdges |-> [i \in DOMAIN x[l] |-> l]])
    BY DEF Owners
<1>2. QED
    BY DEF Materialise, PlanOf, PathsOf, StageAt, LoadedEdges, AllocationsOf, Numbers, Owners

\* The routes of the plan, and the hops of a path of it.
LEMMA PathsAre ==
    ASSUME Built(request), CollectiveBuilt(request), NEW sets, sets \in [LogicalEdges -> Seq(Routes)],
           NEW q, q = Materialise(sets)
    PROVE  /\ sets \in Seq(Seq(Routes)) /\ DOMAIN sets = LogicalEdges
           /\ FlattenSeq(sets) \in Seq(Routes)
           /\ q.paths = PathsOf(sets) /\ DOMAIN q.paths = DOMAIN FlattenSeq(sets)
           /\ \A i \in DOMAIN q.paths : q.paths[i] = PathOf(i, Owners(sets)[i], FlattenSeq(sets)[i])
<1>1. PICK n \in Nat : n = Len(request.collective.logical_edges) /\ LogicalEdges = 1..n
    BY LenProperties DEF CollectiveBuilt, LogicalEdges
<1>2. sets \in Seq(Seq(Routes)) /\ Len(sets) = n /\ DOMAIN sets = 1..n
    BY <1>1, RowIsSeq
<1>3. FlattenSeq(sets) \in Seq(Routes)
    BY <1>2, FlattenIs
<1>4. q.paths = PathsOf(sets)
    BY PlanIsMade DEF PlanOf
<1>5. QED
    BY <1>1, <1>2, <1>3, <1>4 DEF PathsOf

\* A materialised plan is a plan.
LEMMA PlanIsShaped ==
    ASSUME Built(request), CollectiveBuilt(request), NEW sets, sets \in [LogicalEdges -> Seq(Routes)],
           NEW q, q = Materialise(sets)
    PROVE  PlanShape(q)
<1>1. PICK f : f = FlattenSeq(sets)
    OBVIOUS
<1>2. PICK n \in Nat : f \in Seq(Routes) /\ n = Len(f) /\ DOMAIN f = 1..n
    BY <1>1, PathsAre, LenProperties
<1>3. DOMAIN q.paths = 1..n
    BY <1>1, <1>2, PathsAre
<1>4. ASSUME NEW i \in 1..n PROVE q.paths[i].hops \in Seq(Hops)
    <2>1. PICK p : p = f[i]
        OBVIOUS
    <2>2. p \in Routes
        BY <1>2, <2>1, ElementOfSeq
    <2>3. PICK h : h = [k \in DOMAIN p |-> [edge |-> Edge(p[k]).id, from |-> Edge(p[k]).from, to |-> Edge(p[k]).to]]
        OBVIOUS
    <2>4. q.paths[i] = PathOf(i, Owners(sets)[i], p)
        BY <1>1, <1>3, <2>1, PathsAre
    <2>5. q.paths[i].hops = h
        BY <2>3, <2>4 DEF PathOf
    <2>6. PICK m \in Nat : DOMAIN p = 1..m
        BY <2>2, RoutePositions
    <2>7. ASSUME NEW k \in 1..m
          PROVE  [edge |-> Edge(p[k]).id, from |-> Edge(p[k]).from, to |-> Edge(p[k]).to] \in Hops
        <3>1. Edge(p[k]) \in FabricEdges
            BY <2>2, <2>6, RoutePositions, EdgesAreNumbers
        <3>2. QED
            BY <3>1 DEF FabricEdges, Hops
    <2>8. h \in [1..m -> Hops]
        BY <2>3, <2>6, <2>7
    <2>9. QED
        BY <2>5, <2>8, RowIsSeq
<1>5. QED
    BY <1>3, <1>4 DEF PlanShape

-----------------------------------------------------------------------------
(* The steps around the search *)

\* The state of the planner after Begin is the state of a fresh analysis.
LEMMA BuildKeeps ==
    ASSUME input \in Inputs, verdict = "none", Build
    PROVE  IInv'
<1>1. input' = input /\ plan' = plan
    BY DEF Build
<1>2. CASE Accepts(input.spec) /\ \E r \in {build_request(input.spec)} : Begin(r, input.limits)
    <2>1. PICK r : r = build_request(input.spec) /\ Begin(r, input.limits)
        BY <1>2
    <2>2. input.spec \in Declarations /\ input.limits \in PlannerLimits
        BY InputAssumption
    <2>3. Built(r) /\ r.collective = BuiltCollective(input.spec)
        BY <1>2, <2>1, <2>2, RequestIsBuilt DEF build_request
    <2>4. CollectiveBuilt(r)
        BY <1>2, <2>2, <2>3, CollectiveIsBuilt DEF Accepts
    <2>5. /\ request' = r /\ limits' \in PlannerLimits /\ planner' = PlannerState(r)
          /\ edge' = 1 /\ plans' = <<>> /\ expansions' = 0 /\ enumerated' = 0 /\ pc' = "edge"
        BY <2>1, <2>2 DEF Begin
    <2>6. LogicalEdges' = 1..Len(r.collective.logical_edges) /\ 1 \in LogicalEdges'
        <3>1. /\ r.collective.logical_edges \in Seq(Int \X Int)
              /\ Len(r.collective.logical_edges) # 0
            BY <2>4 DEF CollectiveBuilt
        <3>2. PICK n \in Nat : n = Len(r.collective.logical_edges) /\ DOMAIN r.collective.logical_edges = 1..n
            BY <3>1, LenProperties
        <3>3. LogicalEdges' = 1..n
            BY <2>5, <3>2 DEF LogicalEdges
        <3>4. QED
            BY <3>1, <3>2, <3>3
    <2>7. Policy.max_search_expansions' \in Nat /\ limits.max_total_enumeration_steps' \in Nat
        BY <2>3, <2>5 DEF Built, PolicyBuilt, BuiltPolicies, Policy, PlannerLimits
    <2>8. IsRow(<<>>) /\ DOMAIN <<>> = {} /\ Len(<<>>) = 0
        <3>1. <<>> \in Seq(ToSet(<<>>))
            BY EmptySeq
        <3>2. QED
            BY <3>1, EmptySeq DEF IsRow
    <2>9. /\ Built(request)' /\ CollectiveBuilt(request)' /\ planner' = PlannerState(request)'
          /\ IsRow(plans)'
        BY <2>3, <2>4, <2>5, <2>8
    <2>10. SetupOk'
        BY <2>5, <2>6, <2>7, <2>8, <2>9 DEF SetupOk
    <2>11. verdict' = "none"
        BY <1>2, <2>5 DEF Build
    <2>12. Working'
        BY <2>5, <2>8, <2>10, <2>11 DEF Working, Answer, Analysing
    <2>13. QED
        BY <1>1, <2>12 DEF IInv
<1>3. CASE ~Accepts(input.spec) /\ verdict' = "refused" /\ pc' = "done"
    BY <1>1, <1>3 DEF IInv
<1>4. QED
    BY <1>2, <1>3 DEF Build

\* The step leaves the search as it was.
Idle == UNCHANGED <<request, limits, planner, edge, plans, blocks, expansions, enumerated, searching>>

\* What was set up stays, whatever becomes of the plan.
LEMMA IdleKeeps ==
    ASSUME SetupOk, Idle
    PROVE  /\ SetupOk' /\ request' = request /\ plans' = plans /\ edge' = edge
           /\ limits' = limits /\ planner' = planner
<1>1. /\ request' = request /\ limits' = limits /\ planner' = planner /\ edge' = edge /\ plans' = plans
      /\ expansions' = expansions /\ enumerated' = enumerated
    BY DEF Idle
<1>2. /\ expansions \in Nat /\ expansions <= Policy.max_search_expansions
      /\ enumerated \in Nat /\ enumerated <= limits.max_total_enumeration_steps
    BY DEF SetupOk
<1>3. QED
    BY <1>1, <1>2, SetupKept

\* The sets of routes an assignment picks, one for every logical edge.
Picked(c) == [l \in LogicalEdges |-> plans[l].alternatives[c[l]].paths]

\* They are sets of routes, every one of them offered for its logical edge.
LEMMA PickedAreOffers ==
    ASSUME Working, pc = "assign", ~Failed, NEW c \in Assignments
    PROVE  /\ Picked(c) \in [LogicalEdges -> Seq(Routes)]
           /\ DOMAIN plans = LogicalEdges
           /\ \A l \in LogicalEdges : /\ c[l] \in DOMAIN plans[l].alternatives
                                      /\ OfferOk(l, plans[l].alternatives[c[l]])
                                      /\ BoundEnds(l) /\ From(l).node \in planner.nodes
<1>1. SetupOk /\ Len(plans) = edge /\ edge = Len(request.collective.logical_edges)
    BY DEF Working
<1>2. IsRow(plans)
    BY <1>1 DEF SetupOk
<1>3. DOMAIN plans = LogicalEdges
    <2>1. DOMAIN plans = 1..Len(plans)
        BY <1>2, LenProperties DEF IsRow
    <2>2. QED
        BY <1>1, <2>1, SetupFacts
<1>4. ASSUME NEW l \in LogicalEdges
      PROVE  /\ c[l] \in DOMAIN plans[l].alternatives
             /\ OfferOk(l, plans[l].alternatives[c[l]])
             /\ BoundEnds(l) /\ From(l).node \in planner.nodes
    <2>1. c[l] \in DOMAIN plans[l].alternatives
        BY DEF Assignments
    <2>2. OffersOk(l, plans[l].alternatives)
        BY <1>1, <1>3 DEF SetupOk
    <2>3. plans[l].alternatives # <<>>
        <3>1. DOMAIN <<>> = {}
            BY EmptySeq
        <3>2. QED
            BY <2>1, <3>1
    <2>4. BoundEnds(l) /\ From(l).node \in planner.nodes
        BY <1>1, <1>3, <2>3 DEF SetupOk
    <2>5. QED
        BY <2>1, <2>2, <2>4 DEF OffersOk
<1>5. Picked(c) \in [LogicalEdges -> Seq(Routes)]
    BY <1>4 DEF Picked, OfferOk
<1>6. QED
    BY <1>3, <1>4, <1>5

\* The denials, or the plan of an assignment.
LEMMA AssignKeeps ==
    ASSUME Working, Assign
    PROVE  Working' /\ input' = input
<1>1. SetupOk /\ pc = "assign" /\ verdict = "none" /\ Idle /\ input' = input
    BY DEF Working, Assign, Idle
<1>2. SetupOk'
    BY <1>1, IdleKeeps
<1>3. CASE verdict' = "denied" /\ pc' = "done"
    BY <1>1, <1>2, <1>3 DEF Working, Answer, Analysing
<1>4. CASE /\ ~Failed /\ pc' = "validate" /\ verdict' = verdict
           /\ \E c \in Assignments :
                plan' = Materialise([l \in LogicalEdges |-> plans[l].alternatives[c[l]].paths])
    <2>1. PICK c \in Assignments : plan' = Materialise(Picked(c))
        BY <1>4 DEF Picked
    <2>2. PlanShape(plan')
        BY <1>1, <1>4, <2>1, PickedAreOffers, PlanIsShaped, SetupFacts
    <2>3. PlanShape(plan)'
        BY <2>2 DEF PlanShape
    <2>4. QED
        BY <1>1, <1>2, <1>4, <2>3 DEF Working, Answer, Analysing
<1>5. QED
    BY <1>1, <1>3, <1>4 DEF Assign

\* The plan a caller brings.
LEMMA SubmitKeeps ==
    ASSUME Working, Submit
    PROVE  Working' /\ input' = input
<1>1. /\ SetupOk /\ pc = "edge" /\ verdict = "none" /\ Idle /\ input' = input
      /\ verdict' = verdict /\ pc' = "validate"
    BY DEF Working, Submit, Idle
<1>2. SetupOk'
    BY <1>1, IdleKeeps
<1>3. PICK sets \in [LogicalEdges -> [1..Wanted -> Submittable]] : plan' = Materialise(sets)
    BY DEF Submit
<1>4. Submittable \subseteq Routes
    <2>1. ASSUME NEW n \in 0..SubmittedHops PROVE [1..n -> Edges] \subseteq Routes
        <3>1. n \in Nat
            BY InputAssumption
        <3>2. QED
            BY <3>1, RowIsSeq DEF Routes
    <2>2. QED
        BY <2>1 DEF Submittable
<1>5. [1..Wanted -> Submittable] \subseteq Seq(Routes)
    <2>1. ASSUME NEW s \in [1..Wanted -> Submittable] PROVE s \in Seq(Routes)
        <3>1. s \in [1..Wanted -> Routes]
            BY <1>4
        <3>2. Wanted \in Nat
            BY <1>1, SetupFacts
        <3>3. QED
            BY <3>1, <3>2, RowIsSeq
    <2>2. QED
        BY <2>1
<1>6. sets \in [LogicalEdges -> Seq(Routes)]
    BY <1>5
<1>7. PlanShape(plan')
    BY <1>1, <1>3, <1>6, PlanIsShaped, SetupFacts
<1>8. PlanShape(plan)'
    BY <1>7 DEF PlanShape
<1>9. QED
    BY <1>1, <1>2, <1>8 DEF Working, Answer, Analysing

\* The answer is a plan only where the plan is valid.
LEMMA ValidateKeeps ==
    ASSUME Working, Validate
    PROVE  Working' /\ input' = input
<1>1. /\ SetupOk /\ pc = "validate" /\ Idle /\ input' = input /\ plan' = plan /\ pc' = "done"
      /\ PlanShape(plan)
    BY DEF Working, Validate, Idle, Answer
<1>2. SetupOk' /\ request' = request
    BY <1>1, IdleKeeps
<1>3. PlanShape(plan)'
    BY <1>1 DEF PlanShape
<1>4. verdict' \in {"plan", "rejected", "internal"}
    BY DEF Validate
<1>5. verdict' = "plan" => validate_plan(plan, request)
    BY DEF Validate
<1>6. validate_plan(plan, request) => validate_plan(plan, request)'
    BY <1>1, <1>2
<1>7. QED
    BY <1>1, <1>2, <1>3, <1>4, <1>5, <1>6 DEF Working, Answer, Analysing

-----------------------------------------------------------------------------
(* The invariant is inductive *)

\* No search has begun before a request is built.
LEMMA InitKeeps == Init => IInv
BY DEF Init, IInv

\* Nothing happens.
LEMMA StutterKeeps ==
    ASSUME IInv, UNCHANGED planningVars
    PROVE  IInv'
<1>1. /\ Idle /\ input' = input /\ plan' = plan /\ verdict' = verdict /\ pc' = pc
    BY DEF planningVars, vars, Idle
<1>2. CASE pc = "build" /\ verdict = "none"
    BY <1>1, <1>2 DEF IInv
<1>3. CASE pc = "done" /\ verdict = "refused"
    BY <1>1, <1>3 DEF IInv
<1>4. CASE Working
    <2>1. SetupOk
        BY <1>4 DEF Working
    <2>2. CASE pc \in Analysing
        <3>1. /\ StartedOk /\ verdict = "none"
              /\ AnalysisFits(pc, walk, pool, blocks, sample, task, search, found, combo)
              /\ expansions \in Nat /\ expansions <= Policy.max_search_expansions
              /\ enumerated \in Nat /\ enumerated <= limits.max_total_enumeration_steps
            BY <1>4, <2>2, AnalysingFacts
        <3>2. /\ request' = request /\ planner' = planner /\ limits' = limits /\ edge' = edge
              /\ plans' = plans /\ expansions' = expansions /\ enumerated' = enumerated
              /\ walk' = walk /\ pool' = pool /\ blocks' = blocks /\ sample' = sample /\ task' = task
              /\ search' = search /\ found' = found /\ combo' = combo
            BY <1>1 DEF Idle, searching
        <3>3. AnalysisFits(pc', walk', pool', blocks', sample', task', search', found', combo')
            BY <1>1, <3>1, <3>2
        <3>4. Working'
            BY <1>1, <2>1, <2>2, <3>1, <3>2, <3>3, AnalysisStep
        <3>5. QED
            BY <1>1, <3>4 DEF IInv
    <2>3. CASE pc \notin Analysing
        <3>1. /\ SetupOk' /\ request' = request /\ plans' = plans /\ edge' = edge
            BY <1>1, <2>1, IdleKeeps
        <3>2. pc' \notin Analysing'
            BY <1>1, <2>3 DEF Analysing
        <3>3. Failed' <=> Failed
            BY <3>1 DEF Failed
        <3>4. PlanShape(plan)' <=> PlanShape(plan)
            BY <1>1 DEF PlanShape
        <3>5. validate_plan(plan, request)' <=> validate_plan(plan, request)
            BY <1>1, <3>1
        <3>6. Answer'
            BY <1>1, <1>4, <3>4, <3>5 DEF Answer, Working
        <3>7. Working'
            BY <1>1, <1>4, <2>3, <3>1, <3>2, <3>3, <3>6 DEF Working, Analysing
        <3>8. QED
            BY <1>1, <3>7 DEF IInv
    <2>4. QED
        BY <2>2, <2>3
<1>5. QED
    BY <1>2, <1>3, <1>4 DEF IInv

\* Every step of the planner keeps the invariant.
LEMMA NextKeeps ==
    ASSUME IInv, [Next]_planningVars
    PROVE  IInv'
<1>1. CASE Build
    <2>1. verdict = "none"
        BY <1>1 DEF IInv, Build, Working
    <2>2. QED
        BY <1>1, <2>1, BuildKeeps DEF IInv
<1>2. ASSUME pc # "build", pc # "done" PROVE Working
    BY <1>2 DEF IInv
<1>3. CASE Search
    <2>1. Working
        <3>1. SearchNext
            BY <1>3 DEF Search
        <3>2. pc \in {"edge", "sweep", "walk", "search", "pool", "sets", "certify"}
            BY <3>1 DEF SearchNext, Analyse, Sweep, Walk, SweepEnd, Pop, Exhausted, Pool, Choose,
                        Conclude, Augment, Certify
        <3>3. QED
            BY <1>2, <3>2
    <2>2. input' = input
        BY <1>3 DEF Search
    <2>3. QED
        BY <1>3, <2>1, <2>2, SearchKeeps DEF IInv
<1>4. CASE Assign
    <2>1. Working
        BY <1>2, <1>4 DEF Assign
    <2>2. QED
        BY <1>4, <2>1, AssignKeeps DEF IInv
<1>5. CASE Submit
    <2>1. Working
        BY <1>2, <1>5 DEF Submit
    <2>2. QED
        BY <1>5, <2>1, SubmitKeeps DEF IInv
<1>6. CASE Validate
    <2>1. Working
        BY <1>2, <1>6 DEF Validate
    <2>2. QED
        BY <1>6, <2>1, ValidateKeeps DEF IInv
<1>7. CASE UNCHANGED planningVars
    BY <1>7, StutterKeeps
<1>8. QED
    BY <1>1, <1>3, <1>4, <1>5, <1>6, <1>7 DEF Next, Answered

\* The invariant holds throughout (plan_collective).
THEOREM InvariantHolds == Spec => []IInv
<1>1. IInv /\ [Next]_planningVars => IInv'
    BY NextKeeps
<1>2. QED
    BY <1>1, InitKeeps, PTL DEF Spec

-----------------------------------------------------------------------------
(* What follows from it *)

\* The larger of two numbers, where one of them is 1.
LEMMA MaxWithOne ==
    ASSUME NEW a \in Nat
    PROVE  Max({1, a}) = IF a = 0 THEN 1 ELSE a
<1>1. PICK T : T = {1, a}
    OBVIOUS
<1>2. PICK m : m = IF a = 0 THEN 1 ELSE a
    OBVIOUS
<1>3. m \in T /\ \A y \in T : m >= y
    BY <1>1, <1>2
<1>4. Max(T) \in T /\ \A y \in T : Max(T) >= y
    BY <1>3 DEF Max
<1>5. PICK x \in Nat : x = Max(T)
    BY <1>1, <1>4
<1>6. x \in {1, a} /\ x >= 1 /\ x >= a
    BY <1>1, <1>4, <1>5
<1>7. QED
    BY <1>1, <1>5, <1>6

\* The invariant holds the planner to its types, budgets and bounds.
LEMMA InvariantGivesTypes == IInv => TypeOK
<1> SUFFICES ASSUME IInv PROVE TypeOK
    OBVIOUS
<1>1. /\ pc \in {"build", "edge", "sweep", "walk", "search", "pool", "sets", "certify",
               "assign", "validate", "done"}
      /\ verdict \in {"none", "refused", "denied", "plan", "rejected", "internal"}
    BY DEF IInv, Working, Analysing, Answer
<1>2. pc \in {"build", "done"} \/ edge \in LogicalEdges
    BY DEF IInv, Working, SetupOk
<1>3. ASSUME pc \in {"sweep", "walk", "search", "pool", "sets", "certify"}
      PROVE  /\ enumerated <= limits.max_total_enumeration_steps
             /\ expansions <= Policy.max_search_expansions
             /\ walk.limit \in 1..Deepest
             /\ Len(walk.paths) <= limits.max_exhaustive_paths + 1
             /\ blocks.edges \subseteq Edges
             /\ Len(pool) <= (IF walk.exhaustive THEN limits.max_exhaustive_paths
                              ELSE Max({1, limits.max_candidate_paths}))
             /\ Len(combo.offered) <= limits.max_set_alternatives
             /\ \A i \in DOMAIN combo.chosen : combo.chosen[i] \in DOMAIN pool
    <2>1. Working /\ pc \in Analysing
        BY <1>3 DEF IInv, Analysing
    <2>2. /\ SetupOk
          /\ AnalysisFits(pc, walk, pool, blocks, sample, task, search, found, combo)
          /\ enumerated <= limits.max_total_enumeration_steps
          /\ expansions <= Policy.max_search_expansions
        BY <2>1, AnalysingFacts
    <2>3. /\ Walks(walk) /\ Len(pool) <= PoolBound(walk) /\ blocks \in Bans
          /\ pc \in {"sets", "certify"} => Chooses(combo, pool)
          /\ pc \notin {"sets", "certify"} => combo = EmptyCombo
        BY <2>2 DEF AnalysisFits
    <2>4. walk.limit \in 1..Deepest /\ Len(walk.paths) <= limits.max_exhaustive_paths + 1
        BY <2>3 DEF Walks, WalkStates
    <2>5. blocks.edges \subseteq Edges
        BY <2>3 DEF Bans
    <2>6. Len(pool) <= (IF walk.exhaustive THEN limits.max_exhaustive_paths
                        ELSE Max({1, limits.max_candidate_paths}))
        BY <2>2, <2>3, MaxWithOne, SetupFacts DEF PoolBound
    <2>7. /\ Len(combo.offered) <= limits.max_set_alternatives
          /\ \A i \in DOMAIN combo.chosen : combo.chosen[i] \in DOMAIN pool
        <3>1. CASE pc \in {"sets", "certify"}
            <4>1. /\ combo.chosen \in Seq(DOMAIN pool)
                  /\ Len(combo.offered) <= limits.max_set_alternatives
                BY <2>3, <3>1 DEF Chooses
            <4>2. QED
                BY <4>1, ElementOfSeq, LenProperties
        <3>2. CASE pc \notin {"sets", "certify"}
            <4>1. combo.offered = <<>> /\ combo.chosen = <<>>
                BY <2>3, <3>2 DEF EmptyCombo
            <4>2. Len(<<>>) = 0 /\ DOMAIN <<>> = {}
                BY EmptySeq
            <4>3. 0 <= limits.max_set_alternatives
                BY <2>2, SetupFacts
            <4>4. QED
                BY <4>1, <4>2, <4>3
        <3>3. QED
            BY <3>1, <3>2
    <2>8. QED
        BY <2>2, <2>4, <2>5, <2>6, <2>7
<1>4. QED
    BY <1>1, <1>2, <1>3 DEF TypeOK

\* Every variable of the planner keeps its shape, the budgets are never overdrawn and
\* the search never leaves the fabric (PlannerState), whatever the request and the limits.
THEOREM PlanningTypes == Spec => []TypeOK
BY InvariantHolds, InvariantGivesTypes, PTL

\* The hops of a path are the edges of its route.
LEMMA HopsAre ==
    ASSUME Built(request), NEW p \in Routes, NEW id, NEW l, NEW x, x = PathOf(id, l, p)
    PROVE  /\ x.hops \in Seq(Hops) /\ Len(x.hops) = Len(p) /\ DOMAIN x.hops = DOMAIN p
           /\ \A k \in DOMAIN p : /\ x.hops[k].edge = Edge(p[k]).id
                                  /\ x.hops[k].from = Edge(p[k]).from /\ x.hops[k].to = Edge(p[k]).to
                                  /\ EdgeOf(request, x.hops[k].edge) = {Edge(p[k])}
<1>1. PICK h : h = [k \in DOMAIN p |-> [edge |-> Edge(p[k]).id, from |-> Edge(p[k]).from, to |-> Edge(p[k]).to]]
    OBVIOUS
<1>2. x.hops = h
    BY <1>1 DEF PathOf
<1>3. PICK m \in Nat : m = Len(p) /\ DOMAIN p = 1..m
    BY RoutePositions
<1>4. ASSUME NEW k \in 1..m
      PROVE  /\ h[k] = [edge |-> Edge(p[k]).id, from |-> Edge(p[k]).from, to |-> Edge(p[k]).to]
             /\ h[k] \in Hops /\ p[k] \in Edges
    <2>1. p[k] \in Edges /\ Edge(p[k]) \in FabricEdges
        BY <1>3, RoutePositions, EdgesAreNumbers
    <2>2. Edge(p[k]).id \in Int /\ Edge(p[k]).from \in Int /\ Edge(p[k]).to \in Int
        BY <2>1 DEF FabricEdges
    <2>3. h[k] = [edge |-> Edge(p[k]).id, from |-> Edge(p[k]).from, to |-> Edge(p[k]).to]
        BY <1>1, <1>3
    <2>4. QED
        BY <2>1, <2>2, <2>3 DEF Hops
<1>5. h \in [1..m -> Hops]
    BY <1>1, <1>3, <1>4
<1>6. h \in Seq(Hops) /\ Len(h) = m /\ DOMAIN h = 1..m
    BY <1>5, RowIsSeq
<1>7. ASSUME NEW k \in 1..m PROVE EdgeOf(request, h[k].edge) = {Edge(p[k])}
    <2>1. p[k] \in Edges /\ h[k] = [edge |-> Edge(p[k]).id, from |-> Edge(p[k]).from, to |-> Edge(p[k]).to]
        BY <1>4
    <2>2. h[k].edge = Edge(p[k]).id
        BY <2>1
    <2>3. QED
        BY <2>1, <2>2, EdgeById
<1>8. \A k \in 1..m : h[k].edge = Edge(p[k]).id /\ h[k].from = Edge(p[k]).from /\ h[k].to = Edge(p[k]).to
    <2>1. SUFFICES ASSUME NEW k \in 1..m
          PROVE  h[k].edge = Edge(p[k]).id /\ h[k].from = Edge(p[k]).from /\ h[k].to = Edge(p[k]).to
        OBVIOUS
    <2>2. h[k] = [edge |-> Edge(p[k]).id, from |-> Edge(p[k]).from, to |-> Edge(p[k]).to]
        BY <1>4
    <2>3. QED
        BY <2>2
<1>9. QED
    BY <1>2, <1>3, <1>6, <1>7, <1>8

\* The nodes the planner keeps are not forbidden.
LEMMA KeptNodes ==
    ASSUME planner = PlannerState(request), NEW n \in planner.nodes
    PROVE  n \notin Policy.forbidden_nodes
<1>1. planner.nodes = {m.id : m \in {x \in request.fabric.nodes : NodeAllowed(request, x)}}
    BY DEF PlannerState
<1>2. PICK m \in request.fabric.nodes : NodeAllowed(request, m) /\ m.id = n
    BY <1>1
<1>3. QED
    BY <1>2 DEF NodeAllowed, Policy

\* What passes the planner's filters passes the validator's.
LEMMA HopPasses ==
    ASSUME Built(request), planner = PlannerState(request), NEW l, NEW e \in Edges, PassableOn(l, e),
           Edge(e).from \in planner.nodes,
           NEW h, h.edge = Edge(e).id, h.from = Edge(e).from, h.to = Edge(e).to
    PROVE  HopAccepted(request, h, {From(l), Upto(l)})
<1>1. PICK x : x = Edge(e)
    OBVIOUS
<1>2. EdgeOf(request, h.edge) = {x}
    BY <1>1, EdgeById
<1>3. {h.from, h.to} \cap request.policy.forbidden_nodes = {}
    <2>1. h.from \in planner.nodes /\ h.to \in planner.nodes
        BY DEF PassableOn
    <2>2. QED
        BY <2>1, KeptNodes DEF Policy
<1>4. x \in FabricEdges
    BY <1>1, EdgesAreNumbers
<1>5. EdgeAllowed(request, x)
    <2>1. planner.edges = {i \in DOMAIN request.fabric.edges : EdgeAllowed(request, request.fabric.edges[i])}
        BY DEF PlannerState
    <2>2. e \in planner.edges
        BY DEF PassableOn, edge_statically_usable
    <2>3. QED
        BY <1>1, <2>1, <2>2 DEF Edge
<1>6. /\ x.tier \notin request.policy.forbidden_tiers
      /\ request.policy.allowed_tiers = {} \/ x.tier \in request.policy.allowed_tiers
      /\ \A f \in request.policy.forbidden_domains : ~domain_contains(request.fabric.domains, f, x.domain)
    BY <1>5 DEF EdgeAllowed, OutsideTiers, domain_forbidden
<1>7. (CASE request.policy.evidence = "any" -> TRUE
         [] request.policy.evidence = "synthetic" -> x.evidence # 0
         [] request.policy.evidence = "measured" -> x.evidence = 2)
    <2>1. request.policy.evidence \in {"any", "synthetic", "measured"}
        BY DEF Built, PolicyBuilt, BuiltPolicies
    <2>2. evidence_satisfies(x.evidence, request.policy.evidence)
        BY <1>5 DEF EdgeAllowed
    <2>3. x.evidence \in 0..2
        BY <1>4 DEF FabricEdges
    <2>4. CASE request.policy.evidence = "any"
        BY <2>4
    <2>5. CASE request.policy.evidence = "synthetic"
        BY <2>2, <2>3, <2>5 DEF evidence_satisfies
    <2>6. CASE request.policy.evidence = "measured"
        BY <2>2, <2>6 DEF evidence_satisfies
    <2>7. QED
        BY <2>1, <2>4, <2>5, <2>6
<1>8. /\ x.capacity = 0 => request.policy.allow_unverified
      /\ x.capacity > 0 => x.reserved < x.capacity
    <2>1. x.capacity \in Nat
        BY <1>4 DEF FabricEdges
    <2>2. edge_statically_usable(e)
        BY DEF PassableOn
    <2>3. QED
        BY <1>1, <2>1, <2>2 DEF edge_statically_usable, Policy
<1>9. \A b \in {From(l), Upto(l)} : binding_permits(request, b, x)
    BY <1>1 DEF PassableOn, binding_allows_edge, binding_permits, OutsideTiers
<1>10. x.from = h.from /\ x.to = h.to
    BY <1>1
<1>11. QED
    BY <1>2, <1>3, <1>6, <1>7, <1>8, <1>9, <1>10 DEF HopAccepted

\* A sequence without one of its positions.
LEMMA RemovedIs ==
    ASSUME NEW X, NEW s \in Seq(X), NEW i \in 1..Len(s)
    PROVE  ToSet(RemoveAt(s, i)) = {s[k] : k \in DOMAIN s \ {i}}
<1>1. PICK n \in Nat : n = Len(s) /\ DOMAIN s = 1..n
    BY LenProperties
<1>2. \A k \in 1..n : s[k] \in X
    BY <1>1, ElementOfSeq
<1>3. PICK a, b, q : a = SubSeq(s, 1, i - 1) /\ b = SubSeq(s, i + 1, n) /\ q = a \o b
    OBVIOUS
<1>4. i \in 1..n
    BY <1>1
<1>5. a \in Seq(X) /\ Len(a) = i - 1 /\ \A k \in 1..(i - 1) : a[k] = s[k]
    <2>1. \A k \in 1..(i - 1) : s[k] \in X
        BY <1>2, <1>4
    <2>2. /\ a \in Seq(X) /\ Len(a) = IF 1 <= i - 1 THEN (i - 1) - 1 + 1 ELSE 0
          /\ \A k \in 1..((i - 1) - 1 + 1) : a[k] = s[1 + k - 1]
        BY <1>3, <1>4, <2>1, SubSeqProperties
    <2>3. QED
        BY <1>4, <2>2
<1>6. b \in Seq(X) /\ Len(b) = n - i /\ \A k \in 1..(n - i) : b[k] = s[k + i]
    <2>1. PICK m \in Int : m = i + 1
        BY <1>4
    <2>2. /\ b \in Seq(X) /\ Len(b) = IF m <= n THEN n - m + 1 ELSE 0
          /\ \A k \in 1..(n - m + 1) : b[k] = s[m + k - 1]
        <3>1. \A k \in m..n : s[k] \in X
            BY <1>2, <1>4, <2>1
        <3>2. b = SubSeq(s, m, n) /\ n \in Int
            BY <1>3, <2>1
        <3>3. QED
            BY <2>1, <3>1, <3>2, SubSeqProperties
    <2>3. ASSUME NEW k \in 1..(n - i) PROVE b[k] = s[k + i]
        <3>1. k \in 1..(n - m + 1) /\ m + k - 1 = k + i
            BY <1>4, <2>1
        <3>2. QED
            BY <2>2, <3>1
    <2>4. n \in Nat /\ i \in Int /\ i <= n /\ m = i + 1
        BY <1>1, <2>1
    <2>5. Len(b) = n - i
        <3>1. CASE i = n
            BY <2>2, <2>4, <3>1
        <3>2. CASE i # n
            <4>1. m <= n
                BY <2>4, <3>2
            <4>2. n - m + 1 = n - i
                BY <2>4
            <4>3. QED
                BY <2>2, <4>1, <4>2
        <3>3. QED
            BY <3>1, <3>2
    <2>6. QED
        BY <2>2, <2>3, <2>5
<1>7. /\ q \in Seq(X) /\ Len(q) = n - 1
      /\ \A k \in 1..(n - 1) : q[k] = IF k <= i - 1 THEN a[k] ELSE b[k - (i - 1)]
    <2>1. /\ q \in Seq(X) /\ Len(q) = Len(a) + Len(b)
          /\ \A k \in 1..(Len(a) + Len(b)) : q[k] = IF k <= Len(a) THEN a[k] ELSE b[k - Len(a)]
        BY <1>3, <1>5, <1>6, ConcatProperties
    <2>2. Len(a) + Len(b) = n - 1
        BY <1>4, <1>5, <1>6
    <2>3. QED
        BY <1>5, <2>1, <2>2
<1>8. \A k \in 1..(n - 1) : q[k] = IF k < i THEN s[k] ELSE s[k + 1]
    <2>1. SUFFICES ASSUME NEW k \in 1..(n - 1) PROVE q[k] = IF k < i THEN s[k] ELSE s[k + 1]
        OBVIOUS
    <2>2. CASE k < i
        <3>1. k \in 1..(i - 1) /\ k <= i - 1
            BY <1>4, <2>2
        <3>2. QED
            BY <1>5, <1>7, <2>2, <3>1
    <2>3. CASE ~(k < i)
        <3>1. k - (i - 1) \in 1..(n - i) /\ ~(k <= i - 1) /\ (k - (i - 1)) + i = k + 1
            BY <1>4, <2>3
        <3>2. q[k] = b[k - (i - 1)]
            BY <1>7, <3>1
        <3>3. b[k - (i - 1)] = s[k + 1]
            BY <1>6, <3>1
        <3>4. QED
            BY <2>3, <3>2, <3>3
    <2>4. QED
        BY <2>2, <2>3
<1>9. DOMAIN q = 1..(n - 1)
    BY <1>7, LenProperties
<1>10. ToSet(q) \subseteq {s[k] : k \in DOMAIN s \ {i}}
    <2>1. ASSUME NEW k \in 1..(n - 1) PROVE \E j \in 1..n : j # i /\ q[k] = s[j]
        <3>1. k \in 1..n /\ k + 1 \in 1..n
            BY <1>1
        <3>2. CASE k < i
            BY <1>4, <1>8, <3>1, <3>2
        <3>3. CASE ~(k < i)
            BY <1>4, <1>8, <3>1, <3>3
        <3>4. QED
            BY <3>2, <3>3
    <2>2. ToSet(q) = {q[k] : k \in 1..(n - 1)}
        BY <1>9 DEF ToSet
    <2>3. DOMAIN s = 1..n
        BY <1>1
    <2>4. QED
        BY <2>1, <2>2, <2>3
<1>11. {s[k] : k \in DOMAIN s \ {i}} \subseteq ToSet(q)
    <2>1. SUFFICES ASSUME NEW j \in 1..n, j # i PROVE \E k \in 1..(n - 1) : q[k] = s[j]
        BY <1>1, <1>9 DEF ToSet
    <2>2. CASE j < i
        <3>1. j \in 1..(n - 1)
            BY <1>4, <2>2
        <3>2. QED
            BY <1>8, <2>2, <3>1
    <2>3. CASE j > i
        <3>1. j - 1 \in 1..(n - 1) /\ ~(j - 1 < i) /\ (j - 1) + 1 = j
            BY <1>4, <2>3
        <3>2. q[j - 1] = s[j]
            BY <1>8, <3>1
        <3>3. QED
            BY <3>1, <3>2
    <2>4. QED
        BY <1>4, <2>1, <2>2, <2>3
<1>12. RemoveAt(s, i) = q
    BY <1>1, <1>3 DEF RemoveAt
<1>13. QED
    BY <1>10, <1>11, <1>12

\* What both signatures are made of: the domains of the hops that declare one, at the
\* level of the policy, in the order of the route.
KnownAt(p) == {i \in DOMAIN p : valid(Edge(p[i]).domain)}
DomainRow(p) == [k \in DOMAIN Numbers(KnownAt(p)) |-> domain_at_level(p[Numbers(KnownAt(p))[k]])]

\* The planner's way to leave out two of them, and the validator's.
LeftOut(d) ==
    LET rest == Tail(d)
        last == {i \in DOMAIN rest : rest[i] = Last(d)}
    IN {rest[i] : i \in DOMAIN rest \ (IF last = {} THEN {} ELSE {Min(last)})}
LeftOutAgain(d) ==
    ToSet(RemoveAt(Tail(d), Min({i \in DOMAIN Tail(d) : Tail(d)[i] = Last(d)})))

\* Where there are two domains or more, both leave the same ones.
LEMMA LeftOutTwice ==
    ASSUME NEW X, NEW d \in Seq(X), d # <<>>
    PROVE  LeftOut(d) = IF Len(d) <= 1 THEN {} ELSE LeftOutAgain(d)
<1>1. PICK n \in Nat \ {0} : n = Len(d) /\ DOMAIN d = 1..n
    BY LenProperties, EmptySeq
<1>2. PICK rest : rest = Tail(d)
    OBVIOUS
<1>3. /\ rest \in Seq(X) /\ Len(rest) = n - 1 /\ \A i \in 1..Len(rest) : rest[i] = d[i + 1]
    BY <1>1, <1>2, HeadTailProperties
<1>4. DOMAIN rest = 1..(n - 1)
    BY <1>3, LenProperties
<1>5. PICK last : last = {i \in DOMAIN rest : rest[i] = Last(d)}
    OBVIOUS
<1>6. LeftOut(d) = {rest[i] : i \in DOMAIN rest \ (IF last = {} THEN {} ELSE {Min(last)})}
    BY <1>2, <1>5 DEF LeftOut
<1>7. CASE n = 1
    <2>1. DOMAIN rest = {}
        BY <1>4, <1>7
    <2>2. QED
        BY <1>1, <1>6, <1>7, <2>1
<1>8. CASE n # 1
    <2>1. n - 1 \in 1..(n - 1) /\ (n - 1) + 1 = n
        BY <1>1, <1>8
    <2>2. rest[n - 1] = d[n]
        BY <1>3, <2>1
    <2>3. n - 1 \in last
        BY <1>1, <1>4, <1>5, <2>1, <2>2 DEF Last
    <2>4. last \subseteq Nat /\ last # {}
        BY <1>4, <1>5, <2>3
    <2>5. PICK x \in last : \A y \in last : x <= y
        BY <2>4, NatMin
    <2>6. Min(last) \in last
        BY <2>5 DEF Min
    <2>7. Min(last) \in 1..Len(rest)
        BY <1>3, <1>4, <1>5, <2>6
    <2>8. ToSet(RemoveAt(rest, Min(last))) = {rest[k] : k \in DOMAIN rest \ {Min(last)}}
        BY <1>3, <2>7, RemovedIs
    <2>9. LeftOutAgain(d) = ToSet(RemoveAt(rest, Min(last)))
        BY <1>2, <1>5 DEF LeftOutAgain
    <2>10. LeftOut(d) = {rest[i] : i \in DOMAIN rest \ {Min(last)}}
        BY <1>6, <2>4
    <2>11. ~(Len(d) <= 1)
        BY <1>1, <1>8
    <2>12. QED
        BY <2>8, <2>9, <2>10, <2>11
<1>9. QED
    BY <1>7, <1>8

\* Its length.
LEMMA DomainRowIs ==
    ASSUME NEW p \in Routes
    PROVE  /\ DomainRow(p) \in Seq({domain_at_level(e) : e \in Edges})
           /\ Len(DomainRow(p)) = Cardinality(KnownAt(p))
           /\ DOMAIN DomainRow(p) = DOMAIN Numbers(KnownAt(p))
           /\ DomainKnown(p) => Len(DomainRow(p)) = Len(p)
<1>1. PICK T : T = KnownAt(p)
    OBVIOUS
<1>2. PICK X : X = {domain_at_level(e) : e \in Edges}
    OBVIOUS
<1>3. PICK m \in Nat : m = Len(p) /\ DOMAIN p = 1..m /\ IsFiniteSet(DOMAIN p)
    BY RoutePositions
<1>4. T \subseteq DOMAIN p /\ IsFiniteSet(T) /\ T \subseteq Int
    BY <1>1, <1>3, FS_Subset DEF KnownAt
<1>5. PICK n \in Nat : n = Cardinality(T)
    BY <1>4, FS_CardinalityType
<1>6. Numbers(T) \in Seq(T) /\ Len(Numbers(T)) = n /\ DOMAIN Numbers(T) = 1..n
    BY <1>4, <1>5, NumbersInOrder
<1>7. \A k \in 1..n : Numbers(T)[k] \in T
    BY <1>6, ElementOfSeq
<1>8. \A k \in 1..n : p[Numbers(T)[k]] \in Edges
    BY <1>3, <1>4, <1>7, RoutePositions
<1>9. DomainRow(p) = [k \in 1..n |-> domain_at_level(p[Numbers(T)[k]])]
    BY <1>1, <1>6 DEF DomainRow
<1>10. \A k \in 1..n : domain_at_level(p[Numbers(T)[k]]) \in X
    BY <1>2, <1>8
<1>11. DomainRow(p) \in [1..n -> X]
    BY <1>9, <1>10
<1>12. DomainRow(p) \in Seq(X) /\ Len(DomainRow(p)) = n
    BY <1>11, RowIsSeq
<1>13. DomainKnown(p) => Len(DomainRow(p)) = Len(p)
    <2>1. SUFFICES ASSUME DomainKnown(p) PROVE n = m
        BY <1>3, <1>12
    <2>2. T = DOMAIN p
        BY <1>1, <2>1 DEF KnownAt, DomainKnown
    <2>3. Cardinality(DOMAIN p) = m
        BY <1>3, RoutePositions
    <2>4. QED
        BY <1>5, <2>2, <2>3
<1>14. DOMAIN DomainRow(p) = DOMAIN Numbers(KnownAt(p))
    BY <1>1, <1>6, <1>9
<1>15. QED
    BY <1>1, <1>2, <1>5, <1>12, <1>13, <1>14

\* What the validator reads off the hops of a route.
LEMMA DomainsRead ==
    ASSUME NEW p \in Routes, NEW h, DOMAIN h = DOMAIN p,
           \A k \in DOMAIN p : EdgeOf(request, h[k].edge) = {Edge(p[k])}
    PROVE  HopDomains(request, h) = DomainRow(p)
<1>2. DOMAIN h = DOMAIN p /\ \A k \in DOMAIN p : EdgeOf(request, h[k].edge) = {Edge(p[k])}
    OBVIOUS
<1>3. PICK c : c = [i \in DOMAIN h |-> (CHOOSE e \in EdgeOf(request, h[i].edge) : TRUE).domain]
    OBVIOUS
<1>4. DOMAIN c = DOMAIN p /\ \A i \in DOMAIN p : c[i] = Edge(p[i]).domain
    <2>1. DOMAIN c = DOMAIN p
        BY <1>2, <1>3
    <2>2. ASSUME NEW i \in DOMAIN p PROVE c[i] = Edge(p[i]).domain
        <3>1. PICK v : v = CHOOSE e \in EdgeOf(request, h[i].edge) : TRUE
            OBVIOUS
        <3>2. EdgeOf(request, h[i].edge) = {Edge(p[i])}
            BY <1>2
        <3>3. v = Edge(p[i])
            BY <3>1, <3>2
        <3>4. c[i] = v.domain
            BY <1>2, <1>3, <3>1
        <3>5. QED
            BY <3>3, <3>4
    <2>3. QED
        BY <2>1, <2>2
<1>5. PICK T : T = {i \in DOMAIN h : valid((CHOOSE e \in EdgeOf(request, h[i].edge) : TRUE).domain)}
    OBVIOUS
<1>6. T = KnownAt(p)
    <2>1. T = {i \in DOMAIN h : valid(c[i])}
        BY <1>3, <1>5
    <2>2. QED
        BY <1>2, <1>4, <2>1 DEF KnownAt
<1>7. PICK d : d = Among(c, T)
    OBVIOUS
<1>8. d = [k \in DOMAIN Numbers(T) |-> c[Numbers(T)[k]]]
    BY <1>7, AmongIsRow
<1>9. HopDomains(request, h) = [i \in DOMAIN d |-> AtLevel(request, d[i])]
    BY <1>3, <1>5, <1>7 DEF HopDomains
<1>10. ASSUME NEW k \in DOMAIN Numbers(T)
       PROVE  AtLevel(request, d[k]) = domain_at_level(p[Numbers(T)[k]])
    <2>1. Numbers(T)[k] \in DOMAIN p
        <3>1. PICK m \in Nat : DOMAIN p = 1..m /\ IsFiniteSet(DOMAIN p)
            BY RoutePositions
        <3>2. T \subseteq DOMAIN p /\ IsFiniteSet(T) /\ T \subseteq Int
            BY <1>6, <3>1, FS_Subset DEF KnownAt
        <3>3. Numbers(T) \in Seq(T)
            BY <3>2, NumbersInOrder
        <3>4. QED
            BY <3>2, <3>3, LenProperties, ElementOfSeq
    <2>2. PICK e : e = p[Numbers(T)[k]]
        OBVIOUS
    <2>3. d[k] = Edge(e).domain
        BY <1>4, <1>8, <2>1, <2>2
    <2>4. AtLevel(request, Edge(e).domain) = domain_at_level(e)
        BY DEF AtLevel, domain_at_level, Policy
    <2>5. QED
        BY <2>2, <2>3, <2>4
<1>11. [i \in DOMAIN d |-> AtLevel(request, d[i])] = DomainRow(p)
    BY <1>6, <1>8, <1>10 DEF DomainRow
<1>12. QED
    BY <1>9, <1>11

\* The hops of a path are such.
LEMMA HopDomainsAre ==
    ASSUME Built(request), NEW p \in Routes, NEW id, NEW l, NEW x, x = PathOf(id, l, p)
    PROVE  HopDomains(request, x.hops) = DomainRow(p)
<1>1. PICK h : h = x.hops
    OBVIOUS
<1>2. DOMAIN h = DOMAIN p /\ \A k \in DOMAIN p : EdgeOf(request, h[k].edge) = {Edge(p[k])}
    BY <1>1, HopsAre
<1>3. HopDomains(request, h) = DomainRow(p)
    BY <1>2, DomainsRead
<1>4. QED
    BY <1>1, <1>3

\* What the planner computes.
LEMMA SignatureIs ==
    ASSUME NEW p
    PROVE  Signature(p) = IF Policy.diversity = "none" \/ DomainRow(p) = <<>> THEN {}
                          ELSE LeftOut(DomainRow(p))
<1>1. PICK T : T = KnownAt(p)
    OBVIOUS
<1>2. PICK known : known = Among(p, {i \in DOMAIN p : valid(Edge(p[i]).domain)})
    OBVIOUS
<1>3. known = [k \in DOMAIN Numbers(T) |-> p[Numbers(T)[k]]]
    BY <1>1, <1>2, AmongIsRow DEF KnownAt
<1>4. PICK hops : hops = [i \in DOMAIN known |-> domain_at_level(known[i])]
    OBVIOUS
<1>5. hops = DomainRow(p)
    BY <1>1, <1>3, <1>4 DEF DomainRow
<1>6. Signature(p) = IF Policy.diversity = "none" \/ hops = <<>> THEN {} ELSE LeftOut(hops)
    BY <1>2, <1>4 DEF Signature, LeftOut
<1>7. QED
    BY <1>5, <1>6

\* The validator recomputes the signature of every route.
LEMMA SignaturesAgree ==
    ASSUME Built(request), NEW p \in Routes, NEW id, NEW l, NEW x, x = PathOf(id, l, p)
    PROVE  x.signature = RecomputedSignature(request, x.hops)
<1>1. PICK d : d = DomainRow(p)
    OBVIOUS
<1>2. HopDomains(request, x.hops) = d
    BY <1>1, HopDomainsAre
<1>3. RecomputedSignature(request, x.hops)
        = IF Policy.diversity = "none" \/ Len(d) <= 1 THEN {} ELSE LeftOutAgain(d)
    BY <1>2 DEF RecomputedSignature, LeftOutAgain, Policy
<1>4. x.signature = Signature(p)
    BY DEF PathOf
<1>5. Signature(p) = IF Policy.diversity = "none" \/ d = <<>> THEN {} ELSE LeftOut(d)
    BY <1>1, SignatureIs
<1>6. PICK X : d \in Seq(X)
    BY <1>1, DomainRowIs
<1>7. CASE d = <<>>
    <2>1. Len(d) = 0
        BY <1>7, EmptySeq
    <2>2. QED
        BY <1>3, <1>4, <1>5, <1>7, <2>1
<1>8. CASE d # <<>>
    <2>1. LeftOut(d) = IF Len(d) <= 1 THEN {} ELSE LeftOutAgain(d)
        BY <1>6, <1>8, LeftOutTwice
    <2>2. QED
        BY <1>3, <1>4, <1>5, <1>8, <2>1
<1>9. QED
    BY <1>7, <1>8

\* The domains a route crosses are those of its row between the first and the last.
LEMMA CrossedIs ==
    ASSUME NEW p \in Routes, NEW n \in Nat, n = Len(DomainRow(p))
    PROVE  Crossed(p) = {DomainRow(p)[k] : k \in 2..(n - 1)}
<1>1. PICK N : N = Numbers(KnownAt(p))
    OBVIOUS
<1>2. PICK known : known = Among(p, {i \in DOMAIN p : valid(Edge(p[i]).domain)})
    OBVIOUS
<1>3. known = [k \in DOMAIN N |-> p[N[k]]]
    BY <1>1, <1>2, AmongIsRow DEF KnownAt
<1>4. DOMAIN N = 1..n
    <2>1. DOMAIN DomainRow(p) = 1..n
        BY DomainRowIs, LenProperties
    <2>2. DOMAIN DomainRow(p) = DOMAIN N
        BY <1>1, DomainRowIs
    <2>3. QED
        BY <2>1, <2>2
<1>5. known \in [1..n -> {p[N[k]] : k \in 1..n}]
    BY <1>3, <1>4
<1>6. Len(known) = n
    BY <1>5, RowIsSeq
<1>7. Crossed(p) = {domain_at_level(known[k]) : k \in 2..(n - 1)}
    BY <1>2, <1>6 DEF Crossed
<1>8. ASSUME NEW k \in 2..(n - 1) PROVE domain_at_level(known[k]) = DomainRow(p)[k]
    <2>1. k \in 1..n
        OBVIOUS
    <2>2. known[k] = p[N[k]]
        BY <1>3, <1>4, <2>1
    <2>3. DomainRow(p)[k] = domain_at_level(p[N[k]])
        BY <1>1, <1>4, <2>1 DEF DomainRow
    <2>4. QED
        BY <2>2, <2>3
<1>9. QED
    BY <1>7, <1>8

\* What is left out are the ends, so that what lies between them is left.
LEMMA InnerIsLeft ==
    ASSUME NEW X, NEW d \in Seq(X), NEW n \in Nat, n = Len(d), n > 1
    PROVE  \A k \in 2..(n - 1) : d[k] \in LeftOut(d)
<1>1. DOMAIN d = 1..n /\ d # <<>>
    BY LenProperties, EmptySeq
<1>2. PICK rest : rest = Tail(d)
    OBVIOUS
<1>3. /\ rest \in Seq(X) /\ Len(rest) = n - 1 /\ \A i \in 1..Len(rest) : rest[i] = d[i + 1]
    BY <1>1, <1>2, HeadTailProperties
<1>4. DOMAIN rest = 1..(n - 1)
    BY <1>3, LenProperties
<1>5. PICK last : last = {i \in DOMAIN rest : rest[i] = Last(d)}
    OBVIOUS
<1>6. PICK out : out = (IF last = {} THEN {} ELSE {Min(last)})
    OBVIOUS
<1>7. LeftOut(d) = {rest[i] : i \in DOMAIN rest \ out}
    BY <1>2, <1>5, <1>6 DEF LeftOut
<1>8. n - 1 \in DOMAIN rest /\ rest[n - 1] = Last(d)
    <2>1. n - 1 \in 1..(n - 1) /\ (n - 1) + 1 = n
        OBVIOUS
    <2>2. rest[n - 1] = d[n]
        BY <1>3, <2>1
    <2>3. QED
        BY <1>4, <2>1, <2>2 DEF Last
<1>9. PICK m : out = {m} /\ rest[m] = Last(d)
    <2>1. last \subseteq Nat /\ last # {}
        BY <1>4, <1>5, <1>8
    <2>2. PICK x \in last : \A y \in last : x <= y
        BY <2>1, NatMin
    <2>3. Min(last) \in last
        BY <2>2 DEF Min
    <2>4. QED
        BY <1>5, <1>6, <2>1, <2>3
<1>10. ASSUME NEW k \in 2..(n - 1) PROVE d[k] \in LeftOut(d)
    <2>1. k - 1 \in 1..(n - 1) /\ (k - 1) + 1 = k /\ k - 1 # n - 1
        OBVIOUS
    <2>2. rest[k - 1] = d[k] /\ k - 1 \in DOMAIN rest
        BY <1>3, <1>4, <2>1
    <2>3. CASE k - 1 # m
        BY <1>7, <1>9, <2>2, <2>3
    <2>4. CASE k - 1 = m
        <3>1. d[k] = rest[n - 1] /\ n - 1 # m
            BY <1>8, <1>9, <2>1, <2>2, <2>4
        <3>2. QED
            BY <1>7, <1>8, <1>9, <3>1
    <2>5. QED
        BY <2>3, <2>4
<1>11. QED
    BY <1>10

\* A route as long as its row declares a domain on every edge.
LEMMA RowIsWhole ==
    ASSUME NEW p \in Routes, Len(DomainRow(p)) = Len(p)
    PROVE  DomainKnown(p)
<1>1. PICK m \in Nat : m = Len(p) /\ DOMAIN p = 1..m /\ IsFiniteSet(DOMAIN p) /\ Cardinality(DOMAIN p) = m
    BY RoutePositions
<1>2. KnownAt(p) \subseteq DOMAIN p
    BY DEF KnownAt
<1>3. Cardinality(KnownAt(p)) = Cardinality(DOMAIN p)
    BY <1>1, DomainRowIs
<1>4. KnownAt(p) = DOMAIN p
    BY <1>1, <1>2, <1>3, FS_Subset
<1>5. QED
    BY <1>4 DEF KnownAt, DomainKnown

\* What an accepted path says of the domains of its route.
LEMMA DomainsOfAccepted ==
    ASSUME Built(request), NEW p, p.hops \in Seq(Hops), PathAccepted(request, p)
    PROVE  /\ Len(HopDomains(request, p.hops)) = Len(p.hops) => DomainKnown(RouteOf(p))
           /\ Policy.diversity = "required" => Crossed(RouteOf(p)) \subseteq p.signature
           /\ p.hops = <<>> => Crossed(RouteOf(p)) = {}
<1>1. PICK r : r = RouteOf(p)
    OBVIOUS
<1>2. r \in Routes /\ Len(r) = Len(p.hops) /\ \A k \in DOMAIN r : r[k] = Carried(p.hops[k])
    BY <1>1, PathIsRoute DEF Routes
<1>3. PICK m \in Nat : m = Len(r) /\ DOMAIN r = 1..m
    BY <1>2, RoutePositions
<1>4. DOMAIN p.hops = DOMAIN r
    BY <1>2, <1>3, LenProperties
<1>5. ASSUME NEW k \in DOMAIN r PROVE EdgeOf(request, p.hops[k].edge) = {Edge(r[k])}
    <2>1. HopAccepted(request, p.hops[k], {At(p.src), At(p.dst)})
        BY <1>1, <1>5, PathIsRoute
    <2>2. PICK h : h = p.hops[k]
        OBVIOUS
    <2>3. Carried(h) \in Edges /\ Edge(Carried(h)).id = h.edge
        BY <2>1, <2>2, HopIsEdge
    <2>4. EdgeOf(request, h.edge) = {Edge(Carried(h))}
        BY <2>3, EdgeById
    <2>5. QED
        BY <1>2, <2>2, <2>4
<1>6. PICK d : d = DomainRow(r)
    OBVIOUS
<1>7. HopDomains(request, p.hops) = d
    BY <1>2, <1>4, <1>5, <1>6, DomainsRead
<1>8. PICK X : d \in Seq(X)
    BY <1>2, <1>6, DomainRowIs
<1>9. PICK n \in Nat : n = Len(d)
    BY <1>8, LenProperties
<1>10. Crossed(r) = {d[k] : k \in 2..(n - 1)}
    BY <1>2, <1>6, <1>9, CrossedIs
<1>11. Len(HopDomains(request, p.hops)) = Len(p.hops) => DomainKnown(r)
    BY <1>2, <1>6, <1>7, RowIsWhole
<1>12. p.signature = RecomputedSignature(request, p.hops)
    BY DEF PathAccepted
<1>13. RecomputedSignature(request, p.hops)
        = IF Policy.diversity = "none" \/ Len(d) <= 1 THEN {} ELSE LeftOutAgain(d)
    BY <1>7 DEF RecomputedSignature, LeftOutAgain, Policy
<1>14. ASSUME Policy.diversity = "required" PROVE Crossed(r) \subseteq p.signature
    <2>1. CASE n <= 1
        <3>1. 2..(n - 1) = {}
            BY <1>9, <2>1
        <3>2. QED
            BY <1>10, <3>1
    <2>2. CASE n > 1
        <3>1. d # <<>>
            BY <1>9, <2>2, EmptySeq
        <3>2. LeftOut(d) = IF Len(d) <= 1 THEN {} ELSE LeftOutAgain(d)
            BY <1>8, <3>1, LeftOutTwice
        <3>3. ~(Len(d) <= 1) /\ Policy.diversity # "none"
            BY <1>9, <1>14, <2>2
        <3>4. p.signature = LeftOut(d)
            BY <1>12, <1>13, <3>2, <3>3
        <3>5. \A k \in 2..(n - 1) : d[k] \in LeftOut(d)
            BY <1>8, <1>9, <2>2, InnerIsLeft
        <3>6. QED
            BY <1>10, <3>4, <3>5
    <2>3. QED
        BY <1>9, <2>1, <2>2
<1>15. ASSUME p.hops = <<>> PROVE Crossed(r) = {}
    <2>1. DOMAIN r = {}
        BY <1>4, <1>15
    <2>2. KnownAt(r) = {}
        BY <2>1 DEF KnownAt
    <2>3. Cardinality(KnownAt(r)) = 0
        BY <2>2, FS_EmptySet
    <2>4. n = 0
        BY <1>2, <1>6, <1>9, <2>3, DomainRowIs
    <2>5. 2..(n - 1) = {}
        BY <2>4
    <2>6. QED
        BY <1>10, <2>5
<1>16. QED
    BY <1>1, <1>11, <1>14, <1>15

\* A plan validate_plan accepts for a request that was built is sound.
LEMMA ValidIsSound ==
    ASSUME Built(request), planner.demand = Share, PlanShape(plan), validate_plan(plan, request)
    PROVE  AcceptedPlanIsSound
<1>1. /\ \A p \in ToSet(plan.paths) : PathAccepted(request, p)
      /\ \A l \in LogicalEdges : SiblingsAccepted(request, SiblingsOf(plan, l))
      /\ AllocationsAccepted(request, plan)
    BY DEF validate_plan, LogicalEdges
<1>2. \A i \in DOMAIN plan.paths : PathAccepted(request, plan.paths[i]) /\ plan.paths[i].hops \in Seq(Hops)
    BY <1>1 DEF ToSet, PlanShape
<1>3. ASSUME NEW l \in LogicalEdges, NEW k \in DOMAIN SiblingsOf(plan, l)
      PROVE  LET ends == request.collective.logical_edges[l]
                 r == RouteOf(SiblingsOf(plan, l)[k])
                 v == Visits(r, At(ends[1]).node)
             IN /\ Last(v) = At(ends[2]).node
                /\ IsInjective(v)
                /\ \A m \in DOMAIN r : Edge(r[m]).from = v[m] /\ Declared(r[m])
                                       /\ Admits(At(ends[1]), r[m]) /\ Admits(At(ends[2]), r[m])
    <2>1. PICK i \in DOMAIN plan.paths : SiblingsOf(plan, l)[k] = plan.paths[i] /\ plan.paths[i].logical_edge = l
        BY SiblingsArePaths
    <2>2. PICK p : p = plan.paths[i]
        OBVIOUS
    <2>3. PathAccepted(request, p) /\ p.hops \in Seq(Hops)
        BY <1>2, <2>2
    <2>4. request.collective.logical_edges[l] = <<p.src, p.dst>>
        BY <2>1, <2>2, <2>3 DEF PathAccepted
    <2>5. PICK ends : ends = request.collective.logical_edges[l]
        OBVIOUS
    <2>6. ends[1] = p.src /\ ends[2] = p.dst
        BY <2>4, <2>5
    <2>7. \A m \in DOMAIN RouteOf(p) : /\ Declared(RouteOf(p)[m])
                                      /\ Admits(At(p.src), RouteOf(p)[m]) /\ Admits(At(p.dst), RouteOf(p)[m])
        BY <1>1, <1>2, <2>2, HopIsDeclared
    <2>8. /\ Last(Visits(RouteOf(p), At(p.src).node)) = At(p.dst).node
          /\ IsInjective(Visits(RouteOf(p), At(p.src).node))
          /\ \A m \in DOMAIN RouteOf(p) : Edge(RouteOf(p)[m]).from = Visits(RouteOf(p), At(p.src).node)[m]
        BY <2>3, PathIsRoute
    <2>9. QED
        BY <2>1, <2>2, <2>5, <2>6, <2>7, <2>8
<1>4. ASSUME NEW l \in LogicalEdges, NEW i \in DOMAIN SiblingsOf(plan, l),
             NEW j \in DOMAIN SiblingsOf(plan, l), i # j
      PROVE  Disjoint(RouteOf(SiblingsOf(plan, l)[i]), RouteOf(SiblingsOf(plan, l)[j]))
    <2>1. PICK s : s = SiblingsOf(plan, l)
        OBVIOUS
    <2>2. \A k \in DOMAIN s : PathAccepted(request, s[k]) /\ s[k].hops \in Seq(Hops)
        BY <1>2, <2>1, SiblingsArePaths
    <2>3. SiblingsAccepted(request, s)
        BY <1>1, <2>1
    <2>4. \A a, b \in DOMAIN s : a < b =>
             /\ Policy.disjointness # "none" =>
                   {h.edge : h \in ToSet(s[a].hops)} \cap {h.edge : h \in ToSet(s[b].hops)} = {}
             /\ Policy.disjointness = "node" =>
                   {s[a].hops[k].to : k \in 1..(Len(s[a].hops) - 1)} \cap
                       {s[b].hops[k].to : k \in 1..(Len(s[b].hops) - 1)} = {}
        BY <2>3 DEF SiblingsAccepted, Policy
    <2>5. \A a, b \in DOMAIN s : a < b => /\ Disjoint(RouteOf(s[a]), RouteOf(s[b]))
                                         /\ Disjoint(RouteOf(s[b]), RouteOf(s[a]))
        BY <2>2, <2>4, DisjointRoutes
    <2>6. i \in Int /\ j \in Int
        BY <2>1, SiblingPositions
    <2>7. i < j \/ j < i
        BY <1>4, <2>6
    <2>8. QED
        BY <2>1, <2>5, <2>7
<1>5. \A l \in LogicalEdges : Len(SiblingsOf(plan, l)) = Wanted
    BY <1>1 DEF SiblingsAccepted, Wanted, Policy
<1>6. \A e \in Edges : Edge(e).capacity > 0 =>
          Cardinality({i \in DOMAIN plan.paths : e \in ToSet(RouteOf(plan.paths[i]))}) * planner.demand
              <= Edge(e).capacity - Edge(e).reserved
    BY <1>1, <1>2, AllocationsFit
<1>7. ASSUME NEW l \in LogicalEdges, Policy.diversity = "required",
             NEW i \in DOMAIN SiblingsOf(plan, l), i > 1
      PROVE  DomainKnown(RouteOf(SiblingsOf(plan, l)[i]))
    <2>1. PICK s : s = SiblingsOf(plan, l)
        OBVIOUS
    <2>2. PathAccepted(request, s[i]) /\ s[i].hops \in Seq(Hops)
        BY <1>2, <2>1, SiblingsArePaths
    <2>3. SiblingsAccepted(request, s)
        BY <1>1, <2>1
    <2>4. Len(HopDomains(request, s[i].hops)) = Len(s[i].hops)
        BY <1>7, <2>1, <2>3 DEF SiblingsAccepted, Policy
    <2>5. PICK p : p = s[i]
        OBVIOUS
    <2>6. DomainKnown(RouteOf(p))
        BY <2>2, <2>4, <2>5, DomainsOfAccepted
    <2>7. QED
        BY <2>1, <2>5, <2>6
<1>8. ASSUME NEW l \in LogicalEdges, Policy.diversity = "required",
             NEW i \in DOMAIN SiblingsOf(plan, l), NEW j \in DOMAIN SiblingsOf(plan, l), i # j
      PROVE  Crossed(RouteOf(SiblingsOf(plan, l)[i])) \cap Crossed(RouteOf(SiblingsOf(plan, l)[j])) = {}
    <2>1. PICK s : s = SiblingsOf(plan, l)
        OBVIOUS
    <2>2. ASSUME NEW k \in DOMAIN s
          PROVE  /\ Crossed(RouteOf(s[k])) \subseteq s[k].signature
                 /\ s[k].hops = <<>> => Crossed(RouteOf(s[k])) = {}
        <3>1. PICK p : p = s[k]
            OBVIOUS
        <3>2. PathAccepted(request, p) /\ p.hops \in Seq(Hops)
            BY <1>2, <2>1, <3>1, SiblingsArePaths
        <3>3. /\ Crossed(RouteOf(p)) \subseteq p.signature
              /\ p.hops = <<>> => Crossed(RouteOf(p)) = {}
            BY <1>8, <3>2, DomainsOfAccepted
        <3>4. QED
            BY <3>1, <3>3
    <2>3. SiblingsAccepted(request, s)
        BY <1>1, <2>1
    <2>4. \A a, b \in DOMAIN s : a < b /\ s[a].hops # <<>> /\ s[b].hops # <<>> =>
             s[a].signature \cap s[b].signature = {}
        BY <1>8, <2>3 DEF SiblingsAccepted, DomainsApart, Policy
    <2>5. \A a, b \in DOMAIN s : a < b => Crossed(RouteOf(s[a])) \cap Crossed(RouteOf(s[b])) = {}
        BY <2>2, <2>4
    <2>6. i \in Int /\ j \in Int
        BY <2>1, SiblingPositions
    <2>7. i < j \/ j < i
        BY <1>8, <2>6
    <2>8. QED
        BY <2>1, <2>5, <2>7
<1>9. QED
    BY <1>3, <1>4, <1>5, <1>6, <1>7, <1>8 DEF AcceptedPlanIsSound, RouteOf, At, Visits

\* The invariant makes every accepted plan sound.
LEMMA InvariantGivesSoundness == IInv => AcceptedPlanIsSound
<1> SUFFICES ASSUME IInv PROVE AcceptedPlanIsSound
    OBVIOUS
<1>1. CASE verdict # "plan"
    BY <1>1 DEF AcceptedPlanIsSound
<1>2. CASE verdict = "plan"
    <2>1. Working /\ pc = "done"
        BY <1>2 DEF IInv, Working, Answer, Analysing
    <2>2. SetupOk /\ PlanShape(plan) /\ validate_plan(plan, request)
        BY <1>2, <2>1 DEF Working, Answer
    <2>3. Built(request) /\ planner.demand = Share
        BY <2>2, SetupFacts DEF PlannerSet
    <2>4. QED
        BY <2>2, <2>3, ValidIsSound
<1>3. QED
    BY <1>1, <1>2

\* A plan that validate_plan accepts, the planner's or a caller's, joins the bound ends of
\* every logical edge by as many simple, disjoint routes as the policy wants, over edges that
\* satisfy the declared constraints, within the spare capacity of every edge; where diversity
\* is required no two of them cross a common domain and all but the first declare theirs.
THEOREM AcceptedPlansAreSound == Spec => []AcceptedPlanIsSound
BY InvariantHolds, InvariantGivesSoundness, PTL

\* A route that visits no node twice is simple.
LEMMA HopsAreSimple ==
    ASSUME Built(request), NEW p \in Routes, NEW id, NEW l, NEW x, x = PathOf(id, l, p),
           NEW s, IsInjective(Visits(p, s)), p # <<>> => Edge(p[1]).from = s
    PROVE  hops_are_simple(x.hops)
<1>1. PICK h : h = x.hops
    OBVIOUS
<1>2. PICK m \in Nat : m = Len(p) /\ DOMAIN p = 1..m /\ \A i \in DOMAIN p : p[i] \in Edges
    BY RoutePositions
<1>3. /\ DOMAIN h = 1..m
      /\ \A k \in 1..m : /\ h[k].edge = Edge(p[k]).id
                         /\ h[k].from = Edge(p[k]).from /\ h[k].to = Edge(p[k]).to
    BY <1>1, <1>2, HopsAre
<1>4. PICK v : v = Visits(p, s)
    OBVIOUS
<1>5. DOMAIN v = 1..(m + 1) /\ v[1] = s /\ \A k \in 1..m : v[k + 1] = Edge(p[k]).to
    BY <1>2, <1>4, VisitsIs
<1>6. \A i, j \in 1..(m + 1) : v[i] = v[j] => i = j
    BY <1>4, <1>5 DEF IsInjective
<1>7. ASSUME NEW i \in 1..m, NEW j \in 1..m, h[i].to = h[j].to PROVE i = j
    <2>1. v[i + 1] = v[j + 1]
        BY <1>3, <1>5, <1>7
    <2>2. i + 1 \in 1..(m + 1) /\ j + 1 \in 1..(m + 1)
        OBVIOUS
    <2>3. i + 1 = j + 1
        BY <1>6, <2>1, <2>2
    <2>4. QED
        BY <2>3
<1>8. ASSUME NEW i \in 1..m, NEW j \in 1..m, h[i].edge = h[j].edge PROVE i = j
    <2>1. p[i] \in Edges /\ p[j] \in Edges
        BY <1>2
    <2>2. Edge(p[i]).id = Edge(p[j]).id
        BY <1>3, <1>8
    <2>3. p[i] = p[j]
        BY <2>1, <2>2 DEF Built, FabricBuilt, Edge, Edges
    <2>4. h[i].to = h[j].to
        BY <1>3, <2>3
    <2>5. QED
        BY <1>7, <2>4
<1>9. ASSUME NEW i \in 1..m PROVE h[i].to # h[1].from
    <2>1. SUFFICES ASSUME h[i].to = h[1].from PROVE FALSE
        OBVIOUS
    <2>2. 1 \in 1..m /\ i + 1 \in 1..(m + 1) /\ 1 \in 1..(m + 1) /\ p # <<>>
        BY <1>2
    <2>3. h[1].from = s
        BY <1>3, <2>2
    <2>4. v[i + 1] = v[1]
        BY <1>3, <1>5, <2>1, <2>3
    <2>5. i + 1 = 1
        BY <1>6, <2>2, <2>4
    <2>6. QED
        BY <2>5
<1>10. QED
    BY <1>1, <1>3, <1>7, <1>8, <1>9 DEF hops_are_simple, DistinctBy

\* A good route makes a path that validate_plan accepts.
LEMMA PathIsAccepted ==
    ASSUME SetupOk, NEW l \in LogicalEdges, BoundEnds(l), From(l).node \in planner.nodes,
           NEW p \in Routes, Good(l, p), NEW id, NEW x, x = PathOf(id, l, p)
    PROVE  PathAccepted(request, x)
<1>1. /\ Built(request) /\ CollectiveBuilt(request) /\ planner = PlannerState(request)
      /\ Policy.max_hops \in Nat \ {0}
    BY SetupFacts DEF SetupOk
<1>2. PICK s, t : s = From(l) /\ t = Upto(l)
    OBVIOUS
<1>3. s \in find_binding(request, EndsOf(l)[1]) /\ t \in find_binding(request, EndsOf(l)[2])
    <2>1. PICK b \in find_binding(request, EndsOf(l)[1]), c \in find_binding(request, EndsOf(l)[2]) : TRUE
        BY DEF BoundEnds
    <2>2. At(EndsOf(l)[1]) = b /\ At(EndsOf(l)[2]) = c
        BY <1>1, <2>1, BoundOnce
    <2>3. QED
        BY <1>2, <2>1, <2>2 DEF From, Upto
<1>4. PICK h : h = x.hops
    OBVIOUS
<1>5. PICK m \in Nat : m = Len(p) /\ DOMAIN p = 1..m /\ \A i \in DOMAIN p : p[i] \in Edges
    BY RoutePositions
<1>6. /\ h \in Seq(Hops) /\ Len(h) = m /\ DOMAIN h = 1..m
      /\ \A k \in 1..m : /\ h[k].edge = Edge(p[k]).id
                         /\ h[k].from = Edge(p[k]).from /\ h[k].to = Edge(p[k]).to
    BY <1>1, <1>4, <1>5, HopsAre
<1>7. PICK v : v = Visits(p, s.node)
    OBVIOUS
<1>8. DOMAIN v = 1..(m + 1) /\ v[1] = s.node /\ \A k \in 1..m : v[k + 1] = Edge(p[k]).to
    BY <1>5, <1>7, VisitsIs
<1>9. /\ \A k \in 1..m : Edge(p[k]).from = v[k] /\ PassableOn(l, p[k])
      /\ v[m + 1] = t.node /\ RouteCost(p) <= Policy.max_path_cost
      /\ m <= Policy.max_hops /\ IsInjective(v)
    BY <1>2, <1>5, <1>7 DEF Good, Track
<1>10. x.logical_edge = l /\ x.cost = RouteCost(p) /\ x.src = EndsOf(l)[1] /\ x.dst = EndsOf(l)[2]
       /\ x.stage = request.collective.logical_edge_stage[l]
    BY DEF PathOf, EndsOf
<1>11. <<x.src, x.dst>> = request.collective.logical_edges[l]
    <2>1. request.collective.logical_edges \in Seq(Int \X Int)
        BY <1>1 DEF CollectiveBuilt
    <2>2. l \in 1..Len(request.collective.logical_edges)
        BY <2>1, LenProperties DEF LogicalEdges
    <2>3. EndsOf(l) \in Int \X Int
        BY <2>1, <2>2, ElementOfSeq DEF EndsOf
    <2>4. QED
        BY <1>10, <2>3 DEF EndsOf
<1>12. hops_are_simple(x.hops)
    <2>1. p # <<>> => Edge(p[1]).from = s.node
        <3>1. SUFFICES ASSUME p # <<>> PROVE Edge(p[1]).from = s.node
            OBVIOUS
        <3>2. m # 0
            BY <1>5, <3>1, EmptySeq DEF Routes
        <3>3. 1 \in 1..m
            BY <3>2
        <3>4. QED
            BY <1>8, <1>9, <3>3
    <2>2. IsInjective(Visits(p, s.node))
        BY <1>7, <1>9
    <2>3. QED
        BY <1>1, <2>1, <2>2, HopsAreSimple
<1>13. \A k \in 1..m : HopAccepted(request, h[k], {s, t})
    <2>1. SUFFICES ASSUME NEW k \in 1..m PROVE HopAccepted(request, h[k], {s, t})
        OBVIOUS
    <2>2. p[k] \in Edges /\ PassableOn(l, p[k]) /\ Edge(p[k]).from = v[k]
        BY <1>5, <1>9
    <2>3. Edge(p[k]).from \in planner.nodes
        <3>1. CASE k = 1
            BY <1>2, <1>8, <2>2, <3>1
        <3>2. CASE k # 1
            <4>1. k - 1 \in 1..m /\ (k - 1) + 1 = k
                BY <3>2
            <4>2. v[k] = Edge(p[k - 1]).to
                BY <1>8, <4>1
            <4>3. PassableOn(l, p[k - 1])
                BY <1>9, <4>1
            <4>4. Edge(p[k - 1]).to \in planner.nodes
                BY <4>3 DEF PassableOn
            <4>5. QED
                BY <2>2, <4>2, <4>4
        <3>3. QED
            BY <3>1, <3>2
    <2>4. h[k].edge = Edge(p[k]).id /\ h[k].from = Edge(p[k]).from /\ h[k].to = Edge(p[k]).to
        BY <1>6
    <2>5. HopAccepted(request, h[k], {From(l), Upto(l)})
        BY <1>1, <2>2, <2>3, <2>4, HopPasses
    <2>6. QED
        BY <1>2, <2>5
<1>14. IF h = <<>> THEN s.node = t.node ELSE h[1].from = s.node /\ Last(h).to = t.node
    <2>1. CASE m = 0
        <3>1. h = <<>>
            BY <1>6, <2>1, EmptySeq
        <3>2. QED
            BY <1>8, <1>9, <2>1, <3>1
    <2>2. CASE m # 0
        <3>1. 1 \in 1..m /\ m \in 1..m
            BY <2>2
        <3>2. h # <<>>
            BY <1>6, <2>2
        <3>3. h[1].from = s.node
            BY <1>6, <1>8, <1>9, <3>1
        <3>4. h[m].to = t.node
            BY <1>6, <1>8, <1>9, <3>1
        <3>5. Last(h) = h[m]
            BY <1>6 DEF Last
        <3>6. QED
            BY <3>2, <3>3, <3>4, <3>5
    <2>3. QED
        BY <2>1, <2>2
<1>15. \A i \in 1..(m - 1) : h[i].to = h[i + 1].from
    <2>1. SUFFICES ASSUME NEW i \in 1..(m - 1) PROVE h[i].to = h[i + 1].from
        OBVIOUS
    <2>2. i \in 1..m /\ i + 1 \in 1..m
        OBVIOUS
    <2>3. h[i].to = v[i + 1] /\ h[i + 1].from = v[i + 1]
        BY <1>6, <1>8, <1>9, <2>2
    <2>4. QED
        BY <2>3
<1>16. x.signature = RecomputedSignature(request, x.hops)
    BY <1>1, SignaturesAgree
<1>17. \E a \in find_binding(request, x.src), b \in find_binding(request, x.dst) :
          /\ IF x.hops = <<>> THEN a.node = b.node
             ELSE x.hops[1].from = a.node /\ Last(x.hops).to = b.node
          /\ \A i \in DOMAIN x.hops : HopAccepted(request, x.hops[i], {a, b})
    BY <1>3, <1>4, <1>6, <1>10, <1>13, <1>14
<1>18. /\ x.logical_edge \in DOMAIN request.collective.logical_edges
       /\ x.stage = request.collective.logical_edge_stage[x.logical_edge]
       /\ <<x.src, x.dst>> = request.collective.logical_edges[x.logical_edge]
       /\ Len(x.hops) <= request.policy.max_hops /\ x.cost <= request.policy.max_path_cost
    BY <1>4, <1>6, <1>9, <1>10, <1>11 DEF LogicalEdges, Policy
<1>19. \A i \in 1..(Len(x.hops) - 1) : x.hops[i].to = x.hops[i + 1].from
    BY <1>4, <1>6, <1>15
<1>20. QED
    BY <1>12, <1>16, <1>17, <1>18, <1>19 DEF PathAccepted

\* Sequences of sequences of the same lengths are laid out alike.
LEMMA OffsetsAgree ==
    ASSUME NEW X, NEW s \in Seq(Seq(X)), NEW Y, NEW t \in Seq(Seq(Y)), Len(s) = Len(t),
           \A l \in 1..Len(s) : Len(s[l]) = Len(t[l]),
           NEW o, NEW u, Offsets(o, s), Offsets(u, t)
    PROVE  \A l \in 1..(Len(s) + 1) : o[l] = u[l]
<1>1. PICK n \in Nat : n = Len(s) /\ n = Len(t)
    BY LenProperties
<1>2. /\ o[1] = 0 /\ \A l \in 1..n : o[l + 1] = o[l] + Len(s[l])
      /\ u[1] = 0 /\ \A l \in 1..n : u[l + 1] = u[l] + Len(t[l])
    BY <1>1 DEF Offsets
<1>3. PICK B : B = {l \in 1..(n + 1) : o[l] # u[l]}
    OBVIOUS
<1>4. SUFFICES ASSUME B # {} PROVE FALSE
    BY <1>1, <1>3
<1>5. PICK l \in B : \A k \in B : l <= k
    <2>1. B \subseteq Nat
        BY <1>3
    <2>2. QED
        BY <1>4, <2>1, NatMin
<1>6. l \in 1..(n + 1) /\ o[l] # u[l]
    BY <1>3, <1>5
<1>7. l # 1
    BY <1>2, <1>6
<1>8. PICK j \in 1..n : l = j + 1
    <2>1. l - 1 \in 1..n /\ l = (l - 1) + 1
        BY <1>6, <1>7
    <2>2. QED
        BY <2>1
<1>9. j \notin B
    BY <1>3, <1>5, <1>6, <1>8
<1>10. o[j] = u[j]
    BY <1>3, <1>8, <1>9
<1>11. Len(s[j]) = Len(t[j])
    BY <1>1
<1>12. o[j + 1] = u[j + 1]
    BY <1>2, <1>10, <1>11
<1>13. QED
    BY <1>6, <1>8, <1>12

\* Where the routes of each logical edge are in the plan: o[l] paths come before them.
Layout(o, sets) ==
    /\ o \in [LogicalEdges -> Nat]
    /\ \A l \in LogicalEdges : \A k \in DOMAIN sets[l] :
          /\ o[l] + k \in DOMAIN FlattenSeq(sets)
          /\ FlattenSeq(sets)[o[l] + k] = sets[l][k] /\ Owners(sets)[o[l] + k] = l
    /\ \A i \in DOMAIN FlattenSeq(sets) :
          \E l \in LogicalEdges : \E k \in DOMAIN sets[l] : i = o[l] + k

\* There is such a layout.
LEMMA LayoutIs ==
    ASSUME CollectiveBuilt(request), NEW sets, sets \in [LogicalEdges -> Seq(Routes)]
    PROVE  \E o : Layout(o, sets)
<1>1. PICK n \in Nat : n = Len(request.collective.logical_edges) /\ LogicalEdges = 1..n
    BY LenProperties DEF CollectiveBuilt, LogicalEdges
<1>2. sets \in Seq(Seq(Routes)) /\ Len(sets) = n
    BY <1>1, RowIsSeq
<1>3. \A l \in 1..n : sets[l] \in Seq(Routes) /\ Len(sets[l]) \in Nat /\ DOMAIN sets[l] = 1..Len(sets[l])
    <2>1. SUFFICES ASSUME NEW l \in 1..n
          PROVE  sets[l] \in Seq(Routes) /\ Len(sets[l]) \in Nat /\ DOMAIN sets[l] = 1..Len(sets[l])
        OBVIOUS
    <2>2. sets[l] \in Seq(Routes)
        BY <1>1
    <2>3. QED
        BY <2>2, LenProperties
<1>4. PICK w : w = [l \in LogicalEdges |-> [i \in DOMAIN sets[l] |-> l]]
    OBVIOUS
<1>5. ASSUME NEW l \in 1..n
      PROVE  w[l] \in Seq(1..n) /\ Len(w[l]) = Len(sets[l]) /\ \A k \in DOMAIN sets[l] : w[l][k] = l
    <2>1. PICK m \in Nat : m = Len(sets[l]) /\ DOMAIN sets[l] = 1..m
        BY <1>3
    <2>2. w[l] = [i \in 1..m |-> l]
        BY <1>1, <1>4, <2>1
    <2>3. w[l] \in [1..m -> 1..n]
        BY <2>2
    <2>4. w[l] \in Seq(1..n) /\ Len(w[l]) = m
        BY <2>3, RowIsSeq
    <2>5. QED
        BY <2>1, <2>2, <2>4
<1>6. w \in Seq(Seq(1..n)) /\ Len(w) = n
    <2>1. w \in [1..n -> Seq(1..n)]
        BY <1>1, <1>4, <1>5
    <2>2. QED
        BY <2>1, RowIsSeq
<1>7. PICK f : f = FlattenSeq(sets)
    OBVIOUS
<1>8. PICK x : x = FlattenSeq(w)
    OBVIOUS
<1>9. x = Owners(sets)
    BY <1>4, <1>8 DEF Owners
<1>10. f \in Seq(Routes) /\ \E o : Offsets(o, sets) /\ Flattened(f, sets, o)
    BY <1>2, <1>7, FlattenIs
<1>11. \E u : Offsets(u, w) /\ Flattened(x, w, u)
    BY <1>6, <1>8, FlattenIs
<1>12. PICK o, u : Offsets(o, sets) /\ Flattened(f, sets, o) /\ Offsets(u, w) /\ Flattened(x, w, u)
    BY <1>10, <1>11
<1>13. \A l \in 1..(n + 1) : o[l] = u[l]
    <2>1. Len(sets) = Len(w) /\ \A l \in 1..Len(sets) : Len(sets[l]) = Len(w[l])
        BY <1>2, <1>5, <1>6
    <2>2. \A l \in 1..(Len(sets) + 1) : o[l] = u[l]
        BY <1>2, <1>6, <1>12, <2>1, OffsetsAgree
    <2>3. QED
        BY <1>2, <2>2
<1>14. o \in [1..(n + 1) -> Nat]
    BY <1>2, <1>12 DEF Offsets
<1>15. DOMAIN f = 1..Len(f)
    BY <1>10, LenProperties
<1>16. /\ \A l \in 1..n : \A k \in 1..Len(sets[l]) : o[l] + k \in 1..Len(f) /\ f[o[l] + k] = sets[l][k]
       /\ \A i \in 1..Len(f) : \E l \in 1..n : \E k \in 1..Len(sets[l]) : i = o[l] + k
    BY <1>2, <1>12 DEF Flattened
<1>17. \A l \in 1..n : \A k \in 1..Len(w[l]) : x[u[l] + k] = w[l][k]
    BY <1>6, <1>12 DEF Flattened
<1>18. ASSUME NEW l \in 1..n, NEW k \in DOMAIN sets[l]
       PROVE  o[l] + k \in DOMAIN f /\ f[o[l] + k] = sets[l][k] /\ x[o[l] + k] = l
    <2>1. k \in 1..Len(sets[l])
        BY <1>3
    <2>2. o[l] + k \in 1..Len(f) /\ f[o[l] + k] = sets[l][k]
        BY <1>16, <2>1
    <2>3. k \in 1..Len(w[l]) /\ w[l][k] = l
        BY <1>5, <2>1
    <2>4. x[u[l] + k] = l
        BY <1>17, <2>3
    <2>5. u[l] = o[l]
        BY <1>13
    <2>6. QED
        BY <1>15, <2>2, <2>4, <2>5
<1>19. ASSUME NEW i \in DOMAIN f PROVE \E l \in 1..n : \E k \in DOMAIN sets[l] : i = o[l] + k
    <2>1. PICK l \in 1..n : \E k \in 1..Len(sets[l]) : i = o[l] + k
        BY <1>15, <1>16
    <2>2. QED
        BY <1>3, <2>1
<1>20. PICK a : a = [l \in 1..n |-> o[l]]
    OBVIOUS
<1>21. a \in [1..n -> Nat] /\ \A l \in 1..n : a[l] = o[l]
    BY <1>14, <1>20
<1>22. Layout(a, sets)
    BY <1>1, <1>7, <1>9, <1>18, <1>19, <1>21 DEF Layout
<1>23. QED
    BY <1>22

\* What the search and the assignment hand to the materialisation.
Mapped(sets) ==
    /\ sets \in [LogicalEdges -> Seq(Routes)]
    /\ \A l \in LogicalEdges :
          /\ Len(sets[l]) = Wanted /\ IsInjective(sets[l])
          /\ \A i \in DOMAIN sets[l] : Good(l, sets[l][i])
          /\ \A i, j \in DOMAIN sets[l] : i # j =>
                Disjoint(sets[l][i], sets[l][j]) /\ Diverse(sets[l][i], sets[l][j])
          /\ BoundEnds(l) /\ From(l).node \in planner.nodes
    /\ \A e \in Edges :
          Total([l \in LogicalEdges |-> SetUsage(ToSet(sets[l]), e)], LogicalEdges) <= planner.spare[e]

\* The paths of a logical edge are the routes chosen for it.
LEMMA PathsLie ==
    ASSUME Built(request), CollectiveBuilt(request), NEW sets, sets \in [LogicalEdges -> Seq(Routes)],
           NEW q, q = Materialise(sets), NEW o, Layout(o, sets)
    PROVE  /\ DOMAIN q.paths = DOMAIN FlattenSeq(sets)
           /\ \A l \in LogicalEdges : \A k \in DOMAIN sets[l] :
                 /\ o[l] + k \in DOMAIN q.paths
                 /\ q.paths[o[l] + k] = PathOf(o[l] + k, l, sets[l][k])
           /\ \A i \in DOMAIN q.paths : \E l \in LogicalEdges : \E k \in DOMAIN sets[l] : i = o[l] + k
<1>1. /\ DOMAIN q.paths = DOMAIN FlattenSeq(sets)
      /\ \A i \in DOMAIN q.paths : q.paths[i] = PathOf(i, Owners(sets)[i], FlattenSeq(sets)[i])
    BY PathsAre
<1>2. \A l \in LogicalEdges : \A k \in DOMAIN sets[l] :
          /\ o[l] + k \in DOMAIN FlattenSeq(sets)
          /\ FlattenSeq(sets)[o[l] + k] = sets[l][k] /\ Owners(sets)[o[l] + k] = l
    BY DEF Layout
<1>3. ASSUME NEW l \in LogicalEdges, NEW k \in DOMAIN sets[l]
      PROVE  /\ o[l] + k \in DOMAIN q.paths
             /\ q.paths[o[l] + k] = PathOf(o[l] + k, l, sets[l][k])
    <2>1. PICK i : i = o[l] + k
        OBVIOUS
    <2>2. i \in DOMAIN FlattenSeq(sets) /\ FlattenSeq(sets)[i] = sets[l][k] /\ Owners(sets)[i] = l
        BY <1>2, <2>1
    <2>3. q.paths[i] = PathOf(i, l, sets[l][k])
        BY <1>1, <2>2
    <2>4. QED
        BY <1>1, <2>1, <2>2, <2>3
<1>4. QED
    BY <1>1, <1>3 DEF Layout

\* The siblings of a logical edge, each a route of its own.
RoutesInPlan(s, o, sets, l) ==
    \E c \in [DOMAIN s -> DOMAIN sets[l]] :
        /\ \A a, b \in DOMAIN s : c[a] = c[b] => a = b
        /\ \A a \in DOMAIN s : s[a] = PathOf(o[l] + c[a], l, sets[l][c[a]])

\* There is one for every route chosen.
LEMMA SiblingsLie ==
    ASSUME Built(request), CollectiveBuilt(request), NEW sets, sets \in [LogicalEdges -> Seq(Routes)],
           NEW q, q = Materialise(sets), NEW o, Layout(o, sets), NEW l \in LogicalEdges,
           NEW s, s = SiblingsOf(q, l)
    PROVE  Len(s) = Len(sets[l]) /\ DOMAIN s = DOMAIN sets[l] /\ RoutesInPlan(s, o, sets, l)
<1>1. sets[l] \in Seq(Routes)
    OBVIOUS
<1>2. PICK n \in Nat : n = Len(sets[l]) /\ DOMAIN sets[l] = 1..n
    BY <1>1, LenProperties
<1>3. PICK z \in Nat : z = o[l]
    BY DEF Layout
<1>4. PICK T : T = {i \in DOMAIN q.paths : q.paths[i].logical_edge = l}
    OBVIOUS
<1>4a. \A k \in 1..n : z + k \in DOMAIN q.paths /\ q.paths[z + k] = PathOf(z + k, l, sets[l][k])
    <2>1. \A k \in DOMAIN sets[l] :
              o[l] + k \in DOMAIN q.paths /\ q.paths[o[l] + k] = PathOf(o[l] + k, l, sets[l][k])
        BY PathsLie
    <2>2. QED
        BY <1>2, <1>3, <2>1
<1>5. T = {z + k : k \in 1..n}
    <2>1. ASSUME NEW k \in 1..n PROVE z + k \in T
        <3>1. z + k \in DOMAIN q.paths /\ q.paths[z + k] = PathOf(z + k, l, sets[l][k])
            BY <1>4a
        <3>2. q.paths[z + k].logical_edge = l
            BY <3>1 DEF PathOf
        <3>3. QED
            BY <1>4, <3>1, <3>2
    <2>2. ASSUME NEW i \in T PROVE \E k \in 1..n : i = z + k
        <3>1. PICK a \in LogicalEdges : \E k \in DOMAIN sets[a] : i = o[a] + k
            BY <1>4, PathsLie
        <3>2. PICK k \in DOMAIN sets[a] : i = o[a] + k
            BY <3>1
        <3>3. q.paths[i] = PathOf(i, a, sets[a][k])
            BY <3>2, PathsLie
        <3>4. q.paths[i].logical_edge = a
            BY <3>3 DEF PathOf
        <3>5. a = l
            BY <1>4, <3>4
        <3>6. QED
            BY <1>2, <1>3, <3>2, <3>5
    <2>3. QED
        BY <2>1, <2>2
<1>6. IsFiniteSet(T) /\ Cardinality(T) = n /\ T \subseteq Int
    <2>1. PICK f : f = [k \in 1..n |-> z + k]
        OBVIOUS
    <2>2. f \in Surjection(1..n, T) /\ f \in Injection(1..n, T)
        <3>1. f \in [1..n -> T]
            BY <1>5, <2>1
        <3>2. \A x \in T : \E k \in 1..n : f[k] = x
            BY <1>5, <2>1
        <3>3. \A a, b \in 1..n : f[a] = f[b] => a = b
            BY <2>1
        <3>4. f \in Surjection(1..n, T)
            BY <3>1, <3>2 DEF Surjection
        <3>5. QED
            BY <3>1, <3>3, <3>4 DEF Injection, IsInjective
    <2>3. IsFiniteSet(1..n) /\ Cardinality(1..n) = n
        <3>1. 1 \in Int /\ n \in Int
            OBVIOUS
        <3>2. IsFiniteSet(1..n) /\ Cardinality(1..n) = IF 1 > n THEN 0 ELSE n - 1 + 1
            BY <3>1, FS_Interval, Zenon
        <3>3. QED
            BY <3>2
    <2>4. IsFiniteSet(T)
        BY <2>2, <2>3, FS_Surjection
    <2>5. Cardinality(1..n) <= Cardinality(T) /\ (Cardinality(1..n) = Cardinality(T) <=> f \in Surjection(1..n, T))
        BY <2>2, <2>4, FS_Injection
    <2>6. T \subseteq Int
        BY <1>5
    <2>7. QED
        BY <2>2, <2>3, <2>4, <2>5, <2>6
<1>7. PICK r : r = Numbers(T)
    OBVIOUS
<1>8. r \in Seq(T) /\ Len(r) = n /\ DOMAIN r = 1..n /\ \A a, b \in 1..n : r[a] = r[b] => a = b
    <2>1. r \in Seq(T) /\ Len(r) = n
        BY <1>6, <1>7, NumbersInOrder
    <2>2. DOMAIN r = 1..n
        BY <2>1, LenProperties
    <2>3. \A a, b \in DOMAIN Numbers(T) : Numbers(T)[a] = Numbers(T)[b] => a = b
        BY <1>6, NumbersInOrder
    <2>4. QED
        BY <1>7, <2>1, <2>2, <2>3
<1>9. \A a \in 1..n : r[a] \in T /\ r[a] \in Int
    BY <1>6, <1>8, ElementOfSeq
<1>11. s = [a \in 1..n |-> q.paths[r[a]]]
    BY <1>4, <1>7, <1>8, AmongIsRow DEF SiblingsOf
<1>12. DOMAIN s = 1..n /\ Len(s) = n
    <2>1. PICK X : X = {q.paths[r[a]] : a \in 1..n}
        OBVIOUS
    <2>2. s \in [1..n -> X]
        BY <1>11, <2>1
    <2>3. QED
        BY <2>2, RowIsSeq
<1>13. PICK c : c = [a \in 1..n |-> r[a] - z]
    OBVIOUS
<1>14. ASSUME NEW a \in 1..n
       PROVE  c[a] \in 1..n /\ r[a] = z + c[a] /\ s[a] = PathOf(z + c[a], l, sets[l][c[a]])
    <2>1. PICK k \in 1..n : r[a] = z + k
        BY <1>5, <1>9
    <2>2. c[a] = k
        BY <1>13, <2>1
    <2>3. q.paths[z + k] = PathOf(z + k, l, sets[l][k])
        BY <1>4a
    <2>4. s[a] = q.paths[r[a]]
        BY <1>11
    <2>5. QED
        BY <2>1, <2>2, <2>3, <2>4
<1>15. c \in [1..n -> 1..n]
    BY <1>13, <1>14
<1>16. ASSUME NEW a \in 1..n, NEW b \in 1..n, c[a] = c[b] PROVE a = b
    BY <1>8, <1>14, <1>16
<1>17. DOMAIN s = DOMAIN sets[l] /\ c \in [DOMAIN s -> DOMAIN sets[l]]
    BY <1>2, <1>12, <1>15
<1>19. \A a \in DOMAIN s : s[a] = PathOf(o[l] + c[a], l, sets[l][c[a]])
    BY <1>3, <1>12, <1>14
<1>20. \A a, b \in DOMAIN s : c[a] = c[b] => a = b
    BY <1>12, <1>16
<1>21. QED
    BY <1>2, <1>12, <1>17, <1>19, <1>20 DEF RoutesInPlan

\* What validate_plan asks of two siblings, and of the hops of the second.
ApartInPlan(x, y) ==
    /\ Policy.disjointness # "none" =>
          {h.edge : h \in ToSet(x.hops)} \cap {h.edge : h \in ToSet(y.hops)} = {}
    /\ Policy.disjointness = "node" =>
          {x.hops[k].to : k \in 1..(Len(x.hops) - 1)} \cap {y.hops[k].to : k \in 1..(Len(y.hops) - 1)} = {}
    /\ Policy.diversity = "required" => x.signature \cap y.signature = {}
DeclaresDomains(x) == Len(HopDomains(request, x.hops)) = Len(x.hops)

\* Routes that are apart make paths that are apart.
LEMMA PathsApart ==
    ASSUME Built(request), NEW p \in Routes, NEW r \in Routes, Disjoint(p, r), Diverse(p, r),
           NEW l, NEW i, NEW j, NEW x, NEW y, x = PathOf(i, l, p), y = PathOf(j, l, r)
    PROVE  ApartInPlan(x, y) /\ (Policy.diversity = "required" => DeclaresDomains(y))
<1>1. PICK m, n \in Nat : /\ m = Len(p) /\ DOMAIN p = 1..m /\ \A k \in 1..m : p[k] \in Edges
                          /\ n = Len(r) /\ DOMAIN r = 1..n /\ \A k \in 1..n : r[k] \in Edges
    BY RoutePositions
<1>3. /\ Len(x.hops) = m /\ DOMAIN x.hops = 1..m
      /\ \A k \in 1..m : x.hops[k].edge = Edge(p[k]).id /\ x.hops[k].to = Edge(p[k]).to
    BY <1>1, HopsAre
<1>4. /\ Len(y.hops) = n /\ DOMAIN y.hops = 1..n
      /\ \A k \in 1..n : y.hops[k].edge = Edge(r[k]).id /\ y.hops[k].to = Edge(r[k]).to
    BY <1>1, HopsAre
<1>5. ASSUME Policy.disjointness # "none"
      PROVE  {h.edge : h \in ToSet(x.hops)} \cap {h.edge : h \in ToSet(y.hops)} = {}
    <2>1. SUFFICES ASSUME NEW u \in 1..m, NEW v \in 1..n, x.hops[u].edge = y.hops[v].edge PROVE FALSE
        BY <1>3, <1>4 DEF ToSet
    <2>2. p[u] \in Edges /\ r[v] \in Edges /\ Edge(p[u]).id = Edge(r[v]).id
        BY <1>1, <1>3, <1>4, <2>1
    <2>3. p[u] = r[v]
        BY <2>2 DEF Built, FabricBuilt, Edge, Edges
    <2>4. p[u] \in ToSet(p) /\ r[v] \in ToSet(r)
        BY <1>1 DEF ToSet
    <2>5. ToSet(p) \cap ToSet(r) = {}
        BY <1>5 DEF Disjoint
    <2>6. QED
        BY <2>3, <2>4, <2>5
<1>6. ASSUME Policy.disjointness = "node"
      PROVE  {x.hops[k].to : k \in 1..(Len(x.hops) - 1)} \cap {y.hops[k].to : k \in 1..(Len(y.hops) - 1)} = {}
    <2>1. {x.hops[k].to : k \in 1..(Len(x.hops) - 1)} \subseteq Interior(p)
        BY <1>1, <1>3 DEF Interior
    <2>2. {y.hops[k].to : k \in 1..(Len(y.hops) - 1)} \subseteq Interior(r)
        BY <1>1, <1>4 DEF Interior
    <2>3. Interior(p) \cap Interior(r) = {}
        BY <1>6 DEF Disjoint
    <2>4. QED
        BY <2>1, <2>2, <2>3
<1>7. ASSUME Policy.diversity = "required"
      PROVE  x.signature \cap y.signature = {} /\ DeclaresDomains(y)
    <2>1. DomainKnown(p) /\ DomainKnown(r) /\ Signature(p) \cap Signature(r) = {}
        BY <1>7 DEF Diverse, domains_independent
    <2>2. x.signature = Signature(p) /\ y.signature = Signature(r)
        BY DEF PathOf
    <2>3. HopDomains(request, y.hops) = DomainRow(r)
        BY HopDomainsAre
    <2>4. Len(DomainRow(r)) = Len(r)
        BY <2>1, DomainRowIs
    <2>5. QED
        BY <1>1, <1>4, <2>1, <2>2, <2>3, <2>4 DEF DeclaresDomains
<1>8. QED
    BY <1>5, <1>6, <1>7 DEF ApartInPlan

\* The siblings of every logical edge are accepted.
LEMMA SiblingsAreAccepted ==
    ASSUME SetupOk, NEW sets, Mapped(sets), NEW q, q = Materialise(sets), NEW l \in LogicalEdges
    PROVE  SiblingsAccepted(request, SiblingsOf(q, l))
<1>1. Built(request) /\ CollectiveBuilt(request) /\ Wanted \in Nat \ {0}
    BY SetupFacts
<1>2. sets \in [LogicalEdges -> Seq(Routes)]
    BY DEF Mapped
<1>3. PICK o : Layout(o, sets)
    BY <1>1, <1>2, LayoutIs
<1>4. PICK n \in Nat : n = Wanted
    BY <1>1
<1>5. Len(sets[l]) = n /\ DOMAIN sets[l] = 1..n
    <2>1. sets[l] \in Seq(Routes) /\ Len(sets[l]) = n
        BY <1>2, <1>4 DEF Mapped
    <2>2. QED
        BY <2>1, LenProperties
<1>6. \A i \in 1..n : sets[l][i] \in Routes
    <2>1. sets[l] \in Seq(Routes)
        BY <1>2
    <2>2. QED
        BY <1>5, <2>1, ElementOfSeq
<1>7. \A i, j \in 1..n : i # j => Disjoint(sets[l][i], sets[l][j]) /\ Diverse(sets[l][i], sets[l][j])
    BY <1>5 DEF Mapped
<1>8. PICK s : s = SiblingsOf(q, l)
    OBVIOUS
<1>9. Len(s) = n /\ DOMAIN s = 1..n
    BY <1>1, <1>2, <1>3, <1>5, <1>8, SiblingsLie
<1>10. PICK c \in [DOMAIN s -> DOMAIN sets[l]] :
           /\ \A a, b \in DOMAIN s : c[a] = c[b] => a = b
           /\ \A a \in DOMAIN s : s[a] = PathOf(o[l] + c[a], l, sets[l][c[a]])
    <2>1. RoutesInPlan(s, o, sets, l)
        BY <1>1, <1>2, <1>3, <1>8, SiblingsLie
    <2>2. QED
        BY <2>1 DEF RoutesInPlan
<1>11. ASSUME NEW a \in 1..n, NEW b \in 1..n, a # b
       PROVE  ApartInPlan(s[a], s[b]) /\ (Policy.diversity = "required" => DeclaresDomains(s[b]))
    <2>1. PICK i, j \in 1..n : i = c[a] /\ j = c[b] /\ i # j
        BY <1>5, <1>9, <1>10, <1>11
    <2>2. s[a] = PathOf(o[l] + i, l, sets[l][i]) /\ s[b] = PathOf(o[l] + j, l, sets[l][j])
        BY <1>9, <1>10, <2>1
    <2>3. PICK p, r \in Routes : p = sets[l][i] /\ r = sets[l][j]
        BY <1>6
    <2>4. Disjoint(p, r) /\ Diverse(p, r)
        BY <1>7, <2>1, <2>3
    <2>5. PICK x, y, u, v : x = s[a] /\ y = s[b] /\ u = o[l] + i /\ v = o[l] + j
        OBVIOUS
    <2>6. x = PathOf(u, l, p) /\ y = PathOf(v, l, r)
        BY <2>2, <2>3, <2>5
    <2>7. ApartInPlan(x, y) /\ (Policy.diversity = "required" => DeclaresDomains(y))
        BY <1>1, <2>4, <2>6, PathsApart
    <2>8. QED
        BY <2>5, <2>7
<1>12. ASSUME NEW i \in 1..n, i > 1, Policy.diversity = "required" PROVE DeclaresDomains(s[i])
    <2>1. 1 \in 1..n /\ 1 # i
        BY <1>12
    <2>2. QED
        BY <1>11, <1>12, <2>1
<1>13. ASSUME NEW i \in 1..n, NEW j \in 1..n, i < j PROVE ApartInPlan(s[i], s[j])
    <2>1. i # j
        BY <1>13
    <2>2. QED
        BY <1>11, <2>1
<1>14. Len(s) = Policy.paths_per_logical_edge
    BY <1>4, <1>9 DEF Wanted
<1>15. SiblingsAccepted(request, s)
    <2>1. \A i \in DOMAIN s : i > 1 /\ request.policy.diversity = "required" =>
              Len(HopDomains(request, s[i].hops)) = Len(s[i].hops)
        BY <1>9, <1>12 DEF DeclaresDomains, Policy
    <2>2. \A i, j \in DOMAIN s : i < j => ApartInPlan(s[i], s[j])
        BY <1>9, <1>13
    <2>3. QED
        BY <1>14, <2>1, <2>2 DEF SiblingsAccepted, DomainsApart, ApartInPlan, Policy
<1>16. QED
    BY <1>8, <1>15

\* A row of numbers holds nothing but the numbers it was made of, and all of them.
LEMMA NumbersWithin ==
    ASSUME NEW T, IsFiniteSet(T), T \subseteq Int
    PROVE  ToSet(Numbers(T)) = T
<1>1. PICK n \in Nat : n = Cardinality(T)
    BY FS_CardinalityType
<1>2. Numbers(T) \in Seq(T) /\ Len(Numbers(T)) = n /\ DOMAIN Numbers(T) = 1..n
    BY <1>1, NumbersInOrder
<1>3. \A k \in 1..n : Numbers(T)[k] \in T
    BY <1>2, ElementOfSeq
<1>4. \A x \in T : \E i \in DOMAIN Numbers(T) : Numbers(T)[i] = x
    BY NumbersInOrder
<1>5. QED
    BY <1>2, <1>3, <1>4 DEF ToSet

\* The stages of a plan hold the paths and logical edges of that stage.
LEMMA StagesAreAccepted ==
    ASSUME Built(request), CollectiveBuilt(request), NEW sets, sets \in [LogicalEdges -> Seq(Routes)],
           NEW q, q = Materialise(sets)
    PROVE  StagesAccepted(request, q)
<1>1. PICK c \in Nat : c = request.collective.stage_count
    BY DEF CollectiveBuilt
<1>2. PICK n \in Nat : n = Len(request.collective.logical_edges) /\ LogicalEdges = 1..n
    BY LenProperties DEF CollectiveBuilt, LogicalEdges
<1>3. PICK P : P = PathsOf(sets)
    OBVIOUS
<1>4. PICK f : f = FlattenSeq(sets)
    OBVIOUS
<1>5. PICK m \in Nat : f \in Seq(Routes) /\ m = Len(f) /\ DOMAIN f = 1..m
    BY <1>4, PathsAre, LenProperties
<1>6. DOMAIN P = 1..m /\ \A i \in 1..m : P[i] = PathOf(i, Owners(sets)[i], f[i])
    <2>1. q.paths = P /\ DOMAIN q.paths = DOMAIN f
          /\ \A i \in DOMAIN q.paths : q.paths[i] = PathOf(i, Owners(sets)[i], f[i])
        BY <1>3, <1>4, PathsAre
    <2>2. QED
        BY <1>5, <2>1
<1>7. ASSUME NEW i \in 1..m PROVE P[i].id = i
    <2>1. PICK w, r : w = Owners(sets)[i] /\ r = f[i]
        OBVIOUS
    <2>2. P[i] = PathOf(i, w, r)
        BY <1>6, <2>1
    <2>3. QED
        BY <2>2 DEF PathOf
<1>8. PICK stages : stages = [s \in 1..c |-> StageAt(P, s - 1)]
    OBVIOUS
<1>9. q.paths = P /\ q.stage_count = c /\ q.stages = stages
    <2>1. q = PlanOf(sets)
        BY PlanIsMade
    <2>2. q.paths = P /\ q.stage_count = c
        BY <1>1, <1>3, <2>1 DEF PlanOf
    <2>3. q.stages = stages
        BY <1>1, <1>3, <1>8, <2>1 DEF PlanOf
    <2>4. QED
        BY <2>2, <2>3
<1>10. DOMAIN stages = 1..c /\ Len(stages) = c /\ \A s \in ToSet(stages) : \E i \in 1..c : s = StageAt(P, i - 1)
    <2>1. stages \in [1..c -> {StageAt(P, s - 1) : s \in 1..c}]
        BY <1>8
    <2>2. Len(stages) = c /\ DOMAIN stages = 1..c
        BY <2>1, RowIsSeq
    <2>3. QED
        BY <1>8, <2>2 DEF ToSet
<1>11. ASSUME NEW s \in ToSet(stages)
       PROVE  /\ s.index < c
              /\ \A id \in ToSet(s.paths) : id \in DOMAIN P /\ P[id].id = id /\ P[id].stage = s.index
              /\ \A l \in ToSet(s.logical_edges) :
                    /\ l \in LogicalEdges
                    /\ request.collective.logical_edge_stage[l] = s.index
    <2>1. PICK i \in 1..c : s = StageAt(P, i - 1)
        BY <1>10
    <2>2. PICK a : a = i - 1
        OBVIOUS
    <2>3. PICK T, L : /\ T = {j \in DOMAIN P : P[j].stage = a}
                      /\ L = {l \in LogicalEdges : request.collective.logical_edge_stage[l] = a}
        OBVIOUS
    <2>4. s.index = a /\ s.paths = Numbers(T) /\ s.logical_edges = Numbers(L)
        BY <2>1, <2>2, <2>3 DEF StageAt
    <2>5. IsFiniteSet(1..m) /\ IsFiniteSet(1..n)
        BY FS_Interval
    <2>6. IsFiniteSet(T) /\ T \subseteq Int /\ IsFiniteSet(L) /\ L \subseteq Int
        BY <1>2, <1>6, <2>3, <2>5, FS_Subset
    <2>7. ToSet(s.paths) = T /\ ToSet(s.logical_edges) = L
        BY <2>4, <2>6, NumbersWithin
    <2>8. s.index < c
        BY <2>2, <2>4
    <2>9. QED
        BY <1>6, <1>7, <2>3, <2>4, <2>7, <2>8
<1>12. QED
    BY <1>9, <1>10, <1>11 DEF StagesAccepted, LogicalEdges

\* The routes over edge e: those of a plan, by position, and those of one logical edge.
Users(sets, e) == {i \in DOMAIN FlattenSeq(sets) : e \in ToSet(FlattenSeq(sets)[i])}
UsersFrom(sets, e, S) == {i \in Users(sets, e) : Owners(sets)[i] \in S}
Carriers(routes, e) == {p \in routes : e \in ToSet(p)}

\* Every position of a plan's routes holds a good route.
LEMMA RoutesAreGood ==
    ASSUME SetupOk, NEW sets, Mapped(sets)
    PROVE  /\ FlattenSeq(sets) \in Seq(Routes) /\ IsFiniteSet(DOMAIN FlattenSeq(sets))
           /\ \A i \in DOMAIN FlattenSeq(sets) :
                 /\ FlattenSeq(sets)[i] \in Routes /\ Owners(sets)[i] \in LogicalEdges
                 /\ Good(Owners(sets)[i], FlattenSeq(sets)[i])
<1>1. Built(request) /\ CollectiveBuilt(request) /\ sets \in [LogicalEdges -> Seq(Routes)]
    BY SetupFacts DEF Mapped
<1>2. PICK f : f = FlattenSeq(sets)
    OBVIOUS
<1>3. f \in Seq(Routes)
    BY <1>1, <1>2, PathsAre
<1>4. PICK m \in Nat : m = Len(f) /\ DOMAIN f = 1..m
    BY <1>3, LenProperties
<1>5. PICK o : Layout(o, sets)
    BY <1>1, LayoutIs
<1>6. ASSUME NEW i \in 1..m
      PROVE  f[i] \in Routes /\ Owners(sets)[i] \in LogicalEdges /\ Good(Owners(sets)[i], f[i])
    <2>1. PICK l \in LogicalEdges : \E k \in DOMAIN sets[l] : i = o[l] + k
        BY <1>2, <1>4, <1>5 DEF Layout
    <2>2. PICK k \in DOMAIN sets[l] : i = o[l] + k
        BY <2>1
    <2>3. f[i] = sets[l][k] /\ Owners(sets)[i] = l
        BY <1>2, <1>5, <2>2 DEF Layout
    <2>4. Good(l, sets[l][k])
        BY DEF Mapped
    <2>5. f[i] \in Routes
        BY <1>3, <1>4, ElementOfSeq
    <2>6. QED
        BY <2>3, <2>4, <2>5
<1>7. IsFiniteSet(DOMAIN f)
    BY <1>4, FS_Interval
<1>8. QED
    BY <1>2, <1>3, <1>4, <1>6, <1>7

\* A logical edge brings as many routes over e as were chosen for it.
LEMMA UsersOfOne ==
    ASSUME SetupOk, NEW sets, Mapped(sets), NEW e \in Edges, NEW l \in LogicalEdges
    PROVE  /\ IsFiniteSet(UsersFrom(sets, e, {l})) /\ IsFiniteSet(Carriers(ToSet(sets[l]), e))
           /\ Cardinality(UsersFrom(sets, e, {l})) = Cardinality(Carriers(ToSet(sets[l]), e))
<1>1. Built(request) /\ CollectiveBuilt(request) /\ sets \in [LogicalEdges -> Seq(Routes)]
    BY SetupFacts DEF Mapped
<1>2. PICK f, w : f = FlattenSeq(sets) /\ w = Owners(sets)
    OBVIOUS
<1>3. PICK o : Layout(o, sets)
    BY <1>1, LayoutIs
<1>4. PICK z \in Nat : z = o[l]
    BY <1>3 DEF Layout
<1>5. PICK s : s = sets[l]
    OBVIOUS
<1>6. s \in Seq(Routes)
    BY <1>1, <1>5
<1>7. PICK n \in Nat : n = Len(s) /\ DOMAIN s = 1..n
    BY <1>6, LenProperties
<1>8. \A k \in 1..n : z + k \in DOMAIN f /\ f[z + k] = s[k] /\ w[z + k] = l
    BY <1>2, <1>3, <1>4, <1>5, <1>7 DEF Layout
<1>9. ASSUME NEW i \in DOMAIN f, w[i] = l PROVE \E k \in 1..n : i = z + k
    <2>1. PICK a \in LogicalEdges : \E k \in DOMAIN sets[a] : i = o[a] + k
        BY <1>2, <1>3 DEF Layout
    <2>2. PICK k \in DOMAIN sets[a] : i = o[a] + k
        BY <2>1
    <2>3. w[i] = a
        BY <1>2, <1>3, <2>2 DEF Layout
    <2>4. a = l
        BY <1>9, <2>3
    <2>5. QED
        BY <1>4, <1>5, <1>7, <2>2, <2>4
<1>10. \A i, j \in 1..n : s[i] = s[j] => i = j
    BY <1>5, <1>7 DEF Mapped, IsInjective
<1>11. PICK U, C : U = UsersFrom(sets, e, {l}) /\ C = Carriers(ToSet(s), e)
    OBVIOUS
<1>12. U = {i \in DOMAIN f : e \in ToSet(f[i]) /\ w[i] = l}
    BY <1>2, <1>11 DEF UsersFrom, Users
<1>13. C = {p \in ToSet(s) : e \in ToSet(p)}
    BY <1>11 DEF Carriers
<1>14. IsFiniteSet(U) /\ IsFiniteSet(C)
    <2>1. IsFiniteSet(DOMAIN f) /\ U \subseteq DOMAIN f
        BY <1>2, <1>12, RoutesAreGood
    <2>2. IsFiniteSet(ToSet(s)) /\ C \subseteq ToSet(s)
        BY <1>6, <1>13, ToSetIn
    <2>3. QED
        BY <2>1, <2>2, FS_Subset
<1>15. PICK h : h = [i \in U |-> f[i]]
    OBVIOUS
<1>16. ASSUME NEW i \in U PROVE \E k \in 1..n : i = z + k /\ h[i] = s[k] /\ e \in ToSet(s[k])
    BY <1>8, <1>9, <1>12, <1>15
<1>17. h \in [U -> C]
    <2>1. \A i \in U : h[i] \in C
        <3>1. SUFFICES ASSUME NEW i \in U PROVE h[i] \in C
            OBVIOUS
        <3>2. PICK k \in 1..n : h[i] = s[k] /\ e \in ToSet(s[k])
            BY <1>16
        <3>3. s[k] \in ToSet(s)
            BY <1>7 DEF ToSet
        <3>4. QED
            BY <1>13, <3>2, <3>3
    <2>2. QED
        BY <1>15, <2>1
<1>18. \A i, j \in U : h[i] = h[j] => i = j
    BY <1>10, <1>16
<1>19. \A p \in C : \E i \in U : h[i] = p
    <2>1. SUFFICES ASSUME NEW p \in C PROVE \E i \in U : h[i] = p
        OBVIOUS
    <2>2. p \in ToSet(s) /\ e \in ToSet(p)
        BY <1>13
    <2>3. PICK k \in 1..n : p = s[k]
        BY <1>7, <2>2 DEF ToSet
    <2>4. z + k \in DOMAIN f /\ f[z + k] = p /\ w[z + k] = l
        BY <1>8, <2>3
    <2>5. z + k \in U
        BY <1>12, <2>2, <2>4
    <2>6. QED
        BY <1>15, <2>4, <2>5
<1>20. h \in Surjection(U, C)
    BY <1>17, <1>19 DEF Surjection
<1>21. h \in Injection(U, C)
    BY <1>17, <1>18 DEF Injection, IsInjective
<1>22. Cardinality(U) = Cardinality(C)
    BY <1>14, <1>20, <1>21, FS_Injection
<1>23. QED
    BY <1>5, <1>11, <1>14, <1>22

\* What the routes of each logical edge place on edge e, uncut.
DemandsOn(sets, e) == [l \in LogicalEdges |-> planner.demand * Cardinality(Carriers(ToSet(sets[l]), e))]

\* The routes over e, logical edge by logical edge.
LEMMA UsersAddUp ==
    ASSUME SetupOk, NEW sets, Mapped(sets), NEW e \in Edges
    PROVE  /\ IsFiniteSet(Users(sets, e)) /\ Cardinality(Users(sets, e)) \in Nat
           /\ IsFiniteSet(LogicalEdges) /\ planner.demand \in Nat
           /\ \A l \in LogicalEdges : DemandsOn(sets, e)[l] \in Nat
           /\ planner.demand * Cardinality(Users(sets, e)) = Total(DemandsOn(sets, e), LogicalEdges)
<1>1. Built(request) /\ CollectiveBuilt(request) /\ PlannerSet
    BY SetupFacts
<1>2. PICK L : L = LogicalEdges
    OBVIOUS
<1>3. IsFiniteSet(L)
    <2>1. PICK n \in Nat : L = 1..n
        BY <1>1, <1>2, LenProperties DEF CollectiveBuilt, LogicalEdges
    <2>2. QED
        BY <2>1, FS_Interval
<1>4. PICK d \in Nat : d = planner.demand
    BY <1>1, ShareType DEF PlannerSet
<1>5. PICK g : g = DemandsOn(sets, e)
    OBVIOUS
<1>6. ASSUME NEW l \in L
      PROVE  /\ IsFiniteSet(UsersFrom(sets, e, {l})) /\ Cardinality(UsersFrom(sets, e, {l})) \in Nat
             /\ g[l] = d * Cardinality(UsersFrom(sets, e, {l})) /\ g[l] \in Nat
    <2>1. /\ IsFiniteSet(UsersFrom(sets, e, {l}))
          /\ Cardinality(UsersFrom(sets, e, {l})) = Cardinality(Carriers(ToSet(sets[l]), e))
        BY <1>2, UsersOfOne
    <2>2. g[l] = d * Cardinality(Carriers(ToSet(sets[l]), e))
        BY <1>2, <1>4, <1>5 DEF DemandsOn
    <2>3. PICK c \in Nat : c = Cardinality(UsersFrom(sets, e, {l}))
        BY <2>1, FS_CardinalityType
    <2>4. d * c \in Nat
        OBVIOUS
    <2>5. QED
        BY <2>1, <2>2, <2>3, <2>4
<1>7. PICK F, w : F = Users(sets, e) /\ w = Owners(sets)
    OBVIOUS
<1>8. /\ IsFiniteSet(F) /\ \A i \in F : w[i] \in L
    <2>1. IsFiniteSet(DOMAIN FlattenSeq(sets)) /\ F \subseteq DOMAIN FlattenSeq(sets)
        BY <1>7, RoutesAreGood DEF Users
    <2>2. \A i \in F : w[i] \in L
        BY <1>2, <1>7, <2>1, RoutesAreGood
    <2>3. QED
        BY <2>1, <2>2, FS_Subset
<1>9. ASSUME NEW S, S \subseteq L
      PROVE  IsFiniteSet(UsersFrom(sets, e, S)) /\ Cardinality(UsersFrom(sets, e, S)) \in Nat
    <2>1. UsersFrom(sets, e, S) \subseteq F
        BY <1>7 DEF UsersFrom
    <2>2. QED
        BY <1>8, <2>1, FS_Subset, FS_CardinalityType
<1>10. PICK B : B = {S \in SUBSET L : d * Cardinality(UsersFrom(sets, e, S)) # Total(g, S)}
    OBVIOUS
<1>11. B = {}
    <2>1. SUFFICES ASSUME B # {} PROVE FALSE
        OBVIOUS
    <2>2. B \subseteq SUBSET L
        BY <1>10
    <2>3. PICK S \in B : \A y \in B : y \subseteq S => y = S
        BY <1>3, <2>1, <2>2, MinimalSubset
    <2>4. S \subseteq L /\ d * Cardinality(UsersFrom(sets, e, S)) # Total(g, S) /\ IsFiniteSet(S)
        BY <1>3, <1>10, <2>2, <2>3, FS_Subset
    <2>5. CASE S = {}
        <3>1. UsersFrom(sets, e, S) = {}
            BY <2>5 DEF UsersFrom
        <3>2. Cardinality(UsersFrom(sets, e, S)) = 0
            BY <3>1, FS_EmptySet
        <3>3. Total(g, S) = 0
            BY <2>4, <2>5, TotalStep
        <3>4. d * 0 = 0
            OBVIOUS
        <3>5. QED
            BY <2>4, <3>2, <3>3, <3>4
    <2>6. CASE S # {}
        <3>1. PICK x \in S : TRUE
            BY <2>6
        <3>2. PICK R : R = S \ {x}
            OBVIOUS
        <3>3. R \subseteq L /\ R \subseteq S /\ R # S /\ x \in L
            BY <2>4, <3>1, <3>2
        <3>4. d * Cardinality(UsersFrom(sets, e, R)) = Total(g, R)
            BY <1>10, <2>3, <3>3
        <3>5. Total(g, S) = g[x] + Total(g, R)
            BY <1>6, <2>4, <3>1, <3>2, TotalRemove
        <3>6. UsersFrom(sets, e, S) = UsersFrom(sets, e, R) \cup UsersFrom(sets, e, {x})
            BY <3>1, <3>2 DEF UsersFrom
        <3>7. UsersFrom(sets, e, R) \cap UsersFrom(sets, e, {x}) = {}
            BY <3>2 DEF UsersFrom
        <3>8. PICK a, b \in Nat : a = Cardinality(UsersFrom(sets, e, R)) /\ b = Cardinality(UsersFrom(sets, e, {x}))
            BY <1>6, <1>9, <3>3
        <3>9. Cardinality(UsersFrom(sets, e, S)) = a + b
            <4>1. IsFiniteSet(UsersFrom(sets, e, R)) /\ IsFiniteSet(UsersFrom(sets, e, {x}))
                BY <1>6, <1>9, <3>3
            <4>2. Cardinality(UsersFrom(sets, e, S))
                    = a + b - Cardinality(UsersFrom(sets, e, R) \cap UsersFrom(sets, e, {x}))
                BY <3>6, <3>8, <4>1, FS_Union
            <4>3. Cardinality(UsersFrom(sets, e, R) \cap UsersFrom(sets, e, {x})) = 0
                BY <3>7, FS_EmptySet
            <4>4. QED
                BY <4>2, <4>3
        <3>10. d * (a + b) = d * a + d * b
            OBVIOUS
        <3>11. g[x] = d * b
            BY <1>6, <3>3, <3>8
        <3>12. d * a = Total(g, R)
            BY <3>4, <3>8
        <3>13. d * Cardinality(UsersFrom(sets, e, S)) = d * b + d * a
            BY <3>9, <3>10
        <3>14. QED
            BY <2>4, <3>5, <3>11, <3>12, <3>13
    <2>7. QED
        BY <2>5, <2>6
<1>12. UsersFrom(sets, e, L) = F
    BY <1>7, <1>8 DEF UsersFrom
<1>13. d * Cardinality(F) = Total(g, L)
    BY <1>10, <1>11, <1>12
<1>14. Cardinality(F) \in Nat
    BY <1>8, FS_CardinalityType
<1>15. QED
    BY <1>2, <1>3, <1>4, <1>5, <1>6, <1>7, <1>8, <1>13, <1>14

\* The routes together stay within what is spare.
LEMMA UsersFit ==
    ASSUME SetupOk, NEW sets, Mapped(sets), NEW e \in Edges, Edge(e).capacity # 0
    PROVE  planner.demand * Cardinality(Users(sets, e)) <= Edge(e).capacity - Edge(e).reserved
<1>1. Built(request) /\ PlannerSet /\ planner = PlannerState(request)
    BY SetupFacts DEF SetupOk
<1>2. PICK L, g : L = LogicalEdges /\ g = DemandsOn(sets, e)
    OBVIOUS
<1>3. IsFiniteSet(L) /\ \A l \in L : g[l] \in Nat
    BY <1>2, UsersAddUp
<1>4. planner.demand * Cardinality(Users(sets, e)) = Total(g, L)
    BY <1>2, UsersAddUp
<1>5. PICK u : u = [l \in LogicalEdges |-> SetUsage(ToSet(sets[l]), e)]
    OBVIOUS
<1>6. \A l \in L : u[l] = Saturate(g[l])
    BY <1>2, <1>5 DEF SetUsage, DemandsOn, Carriers
<1>7. \A l \in L : u[l] \in Nat
    BY <1>3, <1>6, SaturateType
<1>8. PICK s \in Nat : s = planner.spare[e]
    BY <1>1 DEF PlannerSet
<1>9. s = Edge(e).capacity - Edge(e).reserved /\ s < CostCeiling
    <2>1. Edge(e) \in FabricEdges /\ Edge(e).reserved <= Edge(e).capacity /\ Edge(e).capacity <= MaxCapacity
        BY <1>1 , EdgesAreNumbers DEF Built, FabricBuilt, Edge, Edges
    <2>2. Edge(e).reserved \in Nat /\ Edge(e).capacity \in Nat
        BY <2>1 DEF FabricEdges
    <2>3. s = edge_spare(Edge(e))
        BY <1>1, <1>8 DEF PlannerState, Edge, Edges
    <2>4. MaxCapacity < CostCeiling
        BY RequestAssumption
    <2>5. QED
        BY <2>1, <2>2, <2>3, <2>4, RequestAssumption DEF edge_spare
<1>10. Total(u, L) <= s
    BY <1>2, <1>5, <1>8 DEF Mapped
<1>11. ASSUME NEW l \in L PROVE u[l] = g[l]
    <2>1. {l} \subseteq L
        OBVIOUS
    <2>2. Total(u, {l}) <= Total(u, L) /\ Total(u, {l}) = u[l]
        BY <1>3, <1>7, <2>1, TotalSubset, TotalOne
    <2>3. Total(u, L) \in Nat
        BY <1>3, <1>7, TotalType
    <2>4. u[l] < CostCeiling
        BY <1>7, <1>9, <1>10, <2>2, <2>3, RequestAssumption
    <2>5. QED
        BY <1>3, <1>6, <2>4, RequestAssumption DEF Saturate
<1>12. Total(g, L) = Total(u, L)
    BY <1>3, <1>11, TotalSame
<1>13. QED
    BY <1>4, <1>8, <1>9, <1>10, <1>12

\* Where the paths of the plan q name the edge id.
Crossings(q, id) ==
    {c \in (DOMAIN q.paths) \X (1..Policy.max_hops) :
        c[2] \in DOMAIN q.paths[c[1]].hops /\ q.paths[c[1]].hops[c[2]].edge = id}

\* The paths of the plan, by position.
LEMMA PathsOfPlan ==
    ASSUME SetupOk, NEW sets, Mapped(sets), NEW q, q = Materialise(sets)
    PROVE  /\ DOMAIN q.paths = DOMAIN FlattenSeq(sets)
           /\ \A i \in DOMAIN q.paths : LET p == FlattenSeq(sets)[i] IN
                 /\ p \in Routes /\ Len(p) \in Nat /\ Len(p) <= Policy.max_hops
                 /\ DOMAIN p = 1..Len(p) /\ DOMAIN q.paths[i].hops = DOMAIN p
                 /\ \A k \in DOMAIN p : p[k] \in Edges /\ q.paths[i].hops[k].edge = Edge(p[k]).id
                 /\ \A j, k \in DOMAIN p : p[j] = p[k] => j = k
<1>1. Built(request) /\ CollectiveBuilt(request) /\ sets \in [LogicalEdges -> Seq(Routes)]
    BY SetupFacts DEF Mapped
<1>2. /\ DOMAIN q.paths = DOMAIN FlattenSeq(sets)
      /\ \A i \in DOMAIN q.paths : q.paths[i] = PathOf(i, Owners(sets)[i], FlattenSeq(sets)[i])
    BY <1>1, PathsAre
<1>3. SUFFICES ASSUME NEW i \in DOMAIN q.paths, NEW p, p = FlattenSeq(sets)[i]
      PROVE  /\ p \in Routes /\ Len(p) \in Nat /\ Len(p) <= Policy.max_hops
             /\ DOMAIN p = 1..Len(p) /\ DOMAIN q.paths[i].hops = DOMAIN p
             /\ \A k \in DOMAIN p : p[k] \in Edges /\ q.paths[i].hops[k].edge = Edge(p[k]).id
             /\ \A j, k \in DOMAIN p : p[j] = p[k] => j = k
    BY <1>2
<1>4. PICK l : l = Owners(sets)[i]
    OBVIOUS
<1>5. p \in Routes /\ Good(l, p)
    BY <1>2, <1>3, <1>4, RoutesAreGood
<1>6. q.paths[i] = PathOf(i, l, p)
    BY <1>2, <1>3, <1>4
<1>7. PICK m \in Nat : m = Len(p) /\ DOMAIN p = 1..m /\ \A k \in DOMAIN p : p[k] \in Edges
    BY <1>5, RoutePositions
<1>8. DOMAIN q.paths[i].hops = DOMAIN p /\ \A k \in DOMAIN p : q.paths[i].hops[k].edge = Edge(p[k]).id
    BY <1>1, <1>5, <1>6, HopsAre
<1>9. m <= Policy.max_hops
    BY <1>5, <1>7 DEF Good
<1>10. PICK v : v = Visits(p, From(l).node)
    OBVIOUS
<1>11. DOMAIN v = 1..(m + 1) /\ \A k \in 1..m : v[k + 1] = Edge(p[k]).to
    BY <1>5, <1>7, <1>10, VisitsIs
<1>12. \A j, k \in 1..(m + 1) : v[j] = v[k] => j = k
    BY <1>5, <1>10, <1>11 DEF Good, IsInjective
<1>13. ASSUME NEW j \in 1..m, NEW k \in 1..m, p[j] = p[k] PROVE j = k
    <2>1. v[j + 1] = v[k + 1] /\ j + 1 \in 1..(m + 1) /\ k + 1 \in 1..(m + 1)
        BY <1>11, <1>13
    <2>2. j + 1 = k + 1
        BY <1>12, <2>1
    <2>3. QED
        BY <2>2
<1>14. QED
    BY <1>5, <1>7, <1>8, <1>9, <1>13

\* The validator counts the routes over an edge as often as there are.
LEMMA CrossingsAre ==
    ASSUME SetupOk, NEW sets, Mapped(sets), NEW q, q = Materialise(sets), NEW e \in Edges
    PROVE  Cardinality(Crossings(q, Edge(e).id)) = Cardinality(Users(sets, e))
<1>1. Built(request) /\ Policy.max_hops \in Nat
    BY SetupFacts
<1>2. PICK f : f = FlattenSeq(sets)
    OBVIOUS
<1>3. /\ DOMAIN q.paths = DOMAIN f
      /\ \A i \in DOMAIN f :
            /\ DOMAIN q.paths[i].hops = DOMAIN f[i] /\ DOMAIN f[i] = 1..Len(f[i])
            /\ Len(f[i]) \in Nat /\ Len(f[i]) <= Policy.max_hops
            /\ \A k \in DOMAIN f[i] : f[i][k] \in Edges /\ q.paths[i].hops[k].edge = Edge(f[i][k]).id
            /\ \A j, k \in DOMAIN f[i] : f[i][j] = f[i][k] => j = k
    BY <1>2, PathsOfPlan
<1>4. PICK C, U : C = Crossings(q, Edge(e).id) /\ U = Users(sets, e)
    OBVIOUS
<1>5. U = {i \in DOMAIN f : e \in ToSet(f[i])}
    BY <1>2, <1>4 DEF Users
<1>6. ASSUME NEW c \in C
      PROVE  c[1] \in DOMAIN f /\ c[2] \in DOMAIN f[c[1]] /\ f[c[1]][c[2]] = e /\ c = <<c[1], c[2]>>
    <2>1. /\ c \in (DOMAIN f) \X (1..Policy.max_hops)
          /\ c[2] \in DOMAIN q.paths[c[1]].hops /\ q.paths[c[1]].hops[c[2]].edge = Edge(e).id
        BY <1>3, <1>4 DEF Crossings
    <2>2. PICK i \in DOMAIN f, k \in 1..Policy.max_hops : c = <<i, k>> /\ k \in DOMAIN f[i] /\ q.paths[i].hops[k].edge = Edge(e).id
        BY <1>3, <2>1
    <2>3. f[i][k] \in Edges /\ Edge(f[i][k]).id = Edge(e).id
        BY <1>3, <2>2
    <2>4. f[i][k] = e
        BY <1>1, <2>3 DEF Built, FabricBuilt, Edge, Edges
    <2>5. QED
        BY <2>2, <2>4
<1>7. PICK h : h = [c \in C |-> c[1]]
    OBVIOUS
<1>8. h \in [C -> U]
    <2>1. ASSUME NEW c \in C PROVE c[1] \in U
        <3>1. c[1] \in DOMAIN f /\ c[2] \in DOMAIN f[c[1]] /\ f[c[1]][c[2]] = e
            BY <1>6
        <3>2. e \in ToSet(f[c[1]])
            BY <3>1 DEF ToSet
        <3>3. QED
            BY <1>5, <3>1, <3>2
    <2>2. QED
        BY <1>7, <2>1
<1>9. ASSUME NEW c \in C, NEW d \in C, h[c] = h[d] PROVE c = d
    <2>1. c[1] = d[1]
        BY <1>7, <1>9
    <2>2. f[c[1]][c[2]] = f[c[1]][d[2]] /\ c[1] \in DOMAIN f /\ c[2] \in DOMAIN f[c[1]] /\ d[2] \in DOMAIN f[c[1]]
        BY <1>6, <2>1
    <2>3. c[2] = d[2]
        BY <1>3, <2>2
    <2>4. QED
        BY <1>6, <2>1, <2>3
<1>10. ASSUME NEW i \in U PROVE \E c \in C : h[c] = i
    <2>1. i \in DOMAIN f /\ e \in ToSet(f[i])
        BY <1>5
    <2>2. PICK k \in DOMAIN f[i] : f[i][k] = e
        BY <2>1 DEF ToSet
    <2>3. k \in 1..Policy.max_hops /\ k \in DOMAIN q.paths[i].hops /\ q.paths[i].hops[k].edge = Edge(e).id
        BY <1>1, <1>3, <2>1, <2>2
    <2>4. <<i, k>> \in C
        BY <1>3, <1>4, <2>1, <2>3 DEF Crossings
    <2>5. h[<<i, k>>] = i
        BY <1>7, <2>4
    <2>6. QED
        BY <2>4, <2>5
<1>11. IsFiniteSet(U)
    BY <1>4, UsersAddUp
<1>12. h \in Injection(C, U)
    BY <1>8, <1>9 DEF Injection, IsInjective
<1>13. h \in Surjection(C, U)
    BY <1>8, <1>10 DEF Surjection
<1>14. Cardinality(C) = Cardinality(U)
    BY <1>11, <1>12, <1>13, FS_Injection
<1>15. QED
    BY <1>4, <1>14

\* What the planner enters for an edge is what the validator recomputes, and it is
\* nothing exactly where no route crosses or nothing is demanded.
LEMMA AllocationIs ==
    ASSUME SetupOk, NEW sets, Mapped(sets), NEW q, q = Materialise(sets), NEW e \in Edges,
           NEW a, a = AllocationOf(FlattenSeq(sets), e)
    PROVE  /\ a \in Nat /\ a <= planner.demand * Cardinality(Users(sets, e))
           /\ a = Recomputed(request, q, Edge(e).id)
           /\ a > 0 <=> (request.collective.demand > 0 /\ Users(sets, e) # {})
<1>1. Built(request) /\ PlannerSet
    BY SetupFacts
<1>2. PICK U : U = Users(sets, e)
    OBVIOUS
<1>3. PICK d, n \in Nat : d = planner.demand /\ n = Cardinality(U)
    BY <1>2, UsersAddUp
<1>4. a = Saturate(d * n)
    BY <1>2, <1>3 DEF AllocationOf, Users
<1>5. d * n \in Nat
    OBVIOUS
<1>6. Saturate(d * n) \in Nat /\ Saturate(d * n) <= d * n
    BY <1>5, SaturateType
<1>7. d = (request.collective.demand + Policy.paths_per_logical_edge - 1) \div Policy.paths_per_logical_edge
    BY <1>1, <1>3 DEF PlannerSet, Share, Wanted
<1>8. Cardinality(Crossings(q, Edge(e).id)) = n
    BY <1>2, <1>3, CrossingsAre
<1>9. Recomputed(request, q, Edge(e).id) = Saturate(d * n)
    <2>1. PICK id : id = Edge(e).id
        OBVIOUS
    <2>2. Recomputed(request, q, id)
            = IF d * Cardinality(Crossings(q, id)) > CostCeiling THEN CostCeiling
              ELSE d * Cardinality(Crossings(q, id))
        BY <1>7 DEF Recomputed, Crossings, Policy
    <2>3. QED
        BY <1>8, <2>1, <2>2 DEF Saturate
<1>10. U # {} <=> n > 0
    <2>1. IsFiniteSet(U)
        BY <1>2, UsersAddUp
    <2>2. n = 0 <=> U = {}
        BY <1>3, <2>1, FS_EmptySet
    <2>3. QED
        BY <2>2
<1>11. d > 0 <=> request.collective.demand > 0
    <2>1. PICK m \in Nat : m = request.collective.demand
        BY <1>1 DEF Built
    <2>2. PICK k \in Nat \ {0} : k = Policy.paths_per_logical_edge
        BY SetupFacts DEF Wanted
    <2>3. d = (m + k - 1) \div k
        BY <1>7, <2>1, <2>2
    <2>4. m = 0 => d = 0
        BY <1>1, <1>3, <2>1, ShareType DEF PlannerSet
    <2>5. ASSUME m > 0 PROVE d > 0
        <3>1. m + k - 1 = k * d + ((m + k - 1) % k) /\ (m + k - 1) % k \in 0..(k - 1)
            BY <2>3
        <3>2. d = 0 => k * d = 0
            OBVIOUS
        <3>3. QED
            BY <2>5, <3>1, <3>2
    <2>6. QED
        BY <2>1, <2>4, <2>5
<1>12. d * n > 0 <=> d > 0 /\ n > 0
    OBVIOUS
<1>13. Saturate(d * n) > 0 <=> d * n > 0
    BY <1>5, RequestAssumption DEF Saturate
<1>14. QED
    BY <1>2, <1>3, <1>4, <1>6, <1>9, <1>10, <1>11, <1>12, <1>13

\* The edges the plan q names in a hop.
Named(q) == UNION {{h.edge : h \in ToSet(p.hops)} : p \in ToSet(q.paths)}

\* They are the edges its routes cross.
LEMMA NamedAreUsed ==
    ASSUME SetupOk, NEW sets, Mapped(sets), NEW q, q = Materialise(sets)
    PROVE  Named(q) = {Edge(e).id : e \in {d \in Edges : Users(sets, d) # {}}}
<1>1. PICK f : f = FlattenSeq(sets)
    OBVIOUS
<1>2. /\ DOMAIN q.paths = DOMAIN f
      /\ \A i \in DOMAIN f :
            /\ DOMAIN q.paths[i].hops = DOMAIN f[i]
            /\ \A k \in DOMAIN f[i] : f[i][k] \in Edges /\ q.paths[i].hops[k].edge = Edge(f[i][k]).id
    BY <1>1, PathsOfPlan
<1>3. ASSUME NEW x \in Named(q)
      PROVE  \E e \in Edges : Users(sets, e) # {} /\ x = Edge(e).id
    <2>1. PICK i \in DOMAIN q.paths : \E k \in DOMAIN q.paths[i].hops : x = q.paths[i].hops[k].edge
        BY <1>3 DEF Named, ToSet
    <2>2. PICK k \in DOMAIN q.paths[i].hops : x = q.paths[i].hops[k].edge
        BY <2>1
    <2>3. PICK e : e = f[i][k]
        OBVIOUS
    <2>4. e \in Edges /\ x = Edge(e).id /\ i \in DOMAIN f /\ e \in ToSet(f[i])
        BY <1>2, <2>2, <2>3 DEF ToSet
    <2>5. i \in Users(sets, e)
        BY <1>1, <2>4 DEF Users
    <2>6. QED
        BY <2>4, <2>5
<1>4. ASSUME NEW e \in Edges, Users(sets, e) # {}
      PROVE  Edge(e).id \in Named(q)
    <2>1. PICK i \in DOMAIN f : e \in ToSet(f[i])
        BY <1>1, <1>4 DEF Users
    <2>2. PICK k \in DOMAIN f[i] : f[i][k] = e
        BY <2>1 DEF ToSet
    <2>3. k \in DOMAIN q.paths[i].hops /\ q.paths[i].hops[k].edge = Edge(e).id /\ i \in DOMAIN q.paths
        BY <1>2, <2>1, <2>2
    <2>4. QED
        BY <2>3 DEF Named, ToSet
<1>5. QED
    BY <1>3, <1>4

\* The allocation table the planner writes is the one the validator recomputes.
LEMMA AllocationsAreAccepted ==
    ASSUME SetupOk, NEW sets, Mapped(sets), NEW q, q = Materialise(sets)
    PROVE  AllocationsAccepted(request, q)
<1>1. Built(request) /\ PlannerSet /\ Edges \subseteq Nat /\ IsFiniteSet(Edges)
    BY SetupFacts
<1>2. PICK f : f = FlattenSeq(sets)
    OBVIOUS
<1>3. PICK T : T = {e \in Edges : AllocationOf(f, e) > 0}
    OBVIOUS
<1>4. T \subseteq Edges /\ IsFiniteSet(T) /\ T \subseteq Int
    <2>1. T \subseteq Edges
        BY <1>3
    <2>2. IsFiniteSet(T)
        BY <1>1, <2>1, FS_Subset
    <2>3. QED
        BY <1>1, <2>1, <2>2
<1>5. PICK t : t = Numbers(T)
    OBVIOUS
<1>6. /\ t \in Seq(T) /\ \A i \in DOMAIN t : t[i] \in T
      /\ \A x \in T : \E i \in DOMAIN t : t[i] = x
      /\ \A i, j \in DOMAIN t : t[i] = t[j] => i = j
    <2>1. /\ t \in Seq(T) /\ DOMAIN t = 1..Cardinality(T) /\ Len(t) = Cardinality(T)
          /\ \A x \in T : \E i \in DOMAIN t : t[i] = x
          /\ \A i, j \in DOMAIN t : t[i] = t[j] => i = j
        BY <1>4, <1>5, NumbersInOrder
    <2>2. \A i \in DOMAIN t : t[i] \in T
        BY <2>1
    <2>3. QED
        BY <2>1, <2>2
<1>7. PICK a : a = q.allocations
    OBVIOUS
<1>8. DOMAIN a = DOMAIN t /\ \A i \in DOMAIN t : a[i] = [edge |-> Edge(t[i]).id, planned |-> AllocationOf(f, t[i])]
    <2>1. a = AllocationsOf(f)
        BY <1>2, <1>7, PlanIsMade DEF PlanOf
    <2>2. t = LoadedEdges(f)
        BY <1>3, <1>5 DEF LoadedEdges
    <2>3. QED
        BY <2>1, <2>2 DEF AllocationsOf
<1>9. ASSUME NEW i \in DOMAIN a, NEW j \in DOMAIN a, a[i].edge = a[j].edge PROVE i = j
    <2>1. t[i] \in Edges /\ t[j] \in Edges /\ Edge(t[i]).id = Edge(t[j]).id
        <3>1. i \in DOMAIN t /\ j \in DOMAIN t
            BY <1>8
        <3>2. a[i].edge = Edge(t[i]).id /\ a[j].edge = Edge(t[j]).id
            BY <1>8, <3>1
        <3>3. t[i] \in Edges /\ t[j] \in Edges
            BY <1>4, <1>6, <3>1
        <3>4. QED
            BY <1>9, <3>2, <3>3
    <2>2. t[i] = t[j]
        BY <1>1, <2>1 DEF Built, FabricBuilt, Edge, Edges
    <2>3. QED
        BY <1>6, <1>8, <2>2
<1>10. \A e \in Edges : e \in T <=> (request.collective.demand > 0 /\ Users(sets, e) # {})
    BY <1>2, <1>3, AllocationIs
<1>11. {x.edge : x \in ToSet(a)} = {Edge(e).id : e \in T}
    <2>1. {x.edge : x \in ToSet(a)} = {a[i].edge : i \in DOMAIN a}
        BY DEF ToSet
    <2>2. \A i \in DOMAIN a : a[i].edge = Edge(t[i]).id /\ t[i] \in T
        BY <1>6, <1>8
    <2>3. \A e \in T : \E i \in DOMAIN a : a[i].edge = Edge(e).id
        BY <1>6, <1>8
    <2>4. {a[i].edge : i \in DOMAIN a} = {Edge(e).id : e \in T}
        <3>1. ASSUME NEW z \in {a[i].edge : i \in DOMAIN a} PROVE z \in {Edge(e).id : e \in T}
            BY <2>2
        <3>2. ASSUME NEW z \in {Edge(e).id : e \in T} PROVE z \in {a[i].edge : i \in DOMAIN a}
            BY <2>3
        <3>3. QED
            BY <3>1, <3>2
    <2>5. QED
        BY <2>1, <2>4
<1>12. {x.edge : x \in ToSet(a)} = IF request.collective.demand > 0 THEN Named(q) ELSE {}
    <2>1. Named(q) = {Edge(e).id : e \in {d \in Edges : Users(sets, d) # {}}}
        BY NamedAreUsed
    <2>2. CASE request.collective.demand > 0
        <3>1. T = {d \in Edges : Users(sets, d) # {}}
            BY <1>4, <1>10, <2>2
        <3>2. QED
            BY <1>11, <2>1, <2>2, <3>1
    <2>3. CASE ~(request.collective.demand > 0)
        <3>1. T = {}
            BY <1>4, <1>10, <2>3
        <3>2. QED
            BY <1>11, <2>3, <3>1
    <2>4. QED
        BY <2>2, <2>3
<1>13. ASSUME NEW x \in ToSet(a)
       PROVE  /\ x.planned = Recomputed(request, q, x.edge)
              /\ \A y \in EdgeOf(request, x.edge) : y.capacity > 0 => x.planned <= y.capacity - y.reserved
    <2>1. PICK i \in DOMAIN a : x = a[i]
        BY <1>13 DEF ToSet
    <2>2. PICK e \in Edges : e = t[i]
        BY <1>4, <1>6, <1>8, <2>1
    <2>3. x.edge = Edge(e).id /\ x.planned = AllocationOf(f, e)
        BY <1>8, <2>1, <2>2
    <2>4. /\ x.planned \in Nat /\ x.planned <= planner.demand * Cardinality(Users(sets, e))
          /\ x.planned = Recomputed(request, q, Edge(e).id)
        BY <1>2, <2>3, AllocationIs
    <2>5. EdgeOf(request, x.edge) = {Edge(e)}
        BY <1>1, <2>3, EdgeById
    <2>6. ASSUME Edge(e).capacity > 0 PROVE x.planned <= Edge(e).capacity - Edge(e).reserved
        <3>1. Edge(e) \in FabricEdges
            BY SetupFacts
        <3>2. Edge(e).capacity \in Nat /\ Edge(e).reserved \in Nat /\ Edge(e).capacity # 0
            BY <2>6, <3>1 DEF FabricEdges
        <3>3. PICK m \in Nat : m = planner.demand * Cardinality(Users(sets, e))
            <4>1. PICK d, n \in Nat : d = planner.demand /\ n = Cardinality(Users(sets, e))
                BY UsersAddUp
            <4>2. d * n \in Nat
                OBVIOUS
            <4>3. QED
                BY <4>1, <4>2
        <3>4. m <= Edge(e).capacity - Edge(e).reserved
            BY <3>2, <3>3, UsersFit
        <3>5. QED
            BY <2>4, <3>2, <3>3, <3>4
    <2>7. QED
        BY <2>3, <2>4, <2>5, <2>6
<1>14. QED
    BY <1>7, <1>9, <1>12, <1>13 DEF AllocationsAccepted, DistinctBy, Named

\* Sets of routes with all that the search promises of them, and within the spare
\* capacity, materialise into a plan that validate_plan accepts.
LEMMA MappedIsValid ==
    ASSUME SetupOk, NEW sets, Mapped(sets), NEW q, q = Materialise(sets)
    PROVE  validate_plan(q, request)
<1>1. Built(request) /\ CollectiveBuilt(request) /\ sets \in [LogicalEdges -> Seq(Routes)]
    BY SetupFacts DEF Mapped
<1>2. PICK o : Layout(o, sets)
    BY <1>1, LayoutIs
<1>3. \A i \in DOMAIN q.paths : \E l \in LogicalEdges : \E k \in DOMAIN sets[l] :
          i = o[l] + k /\ q.paths[i] = PathOf(i, l, sets[l][k])
    BY <1>1, <1>2, PathsLie
<1>4. ASSUME NEW i \in DOMAIN q.paths
      PROVE  PathAccepted(request, q.paths[i]) /\ q.paths[i].id = i
    <2>1. PICK l \in LogicalEdges : \E k \in DOMAIN sets[l] : q.paths[i] = PathOf(i, l, sets[l][k])
        BY <1>3
    <2>2. PICK k \in DOMAIN sets[l] : q.paths[i] = PathOf(i, l, sets[l][k])
        BY <2>1
    <2>3. PICK p : p = sets[l][k]
        OBVIOUS
    <2>4. sets[l] \in Seq(Routes)
        BY <1>1
    <2>5. p \in Routes
        BY <2>3, <2>4
    <2>6. Good(l, p) /\ BoundEnds(l) /\ From(l).node \in planner.nodes
        BY <2>3 DEF Mapped
    <2>7. PICK x : x = q.paths[i]
        OBVIOUS
    <2>8. x = PathOf(i, l, p)
        BY <2>2, <2>3, <2>7
    <2>9. PathAccepted(request, x)
        BY <2>5, <2>6, <2>8, PathIsAccepted
    <2>10. x.id = i
        BY <2>8 DEF PathOf
    <2>11. QED
        BY <2>7, <2>9, <2>10
<1>5. q = PlanOf(sets)
    BY PlanIsMade
<1>6. /\ q.input_digest = canonical_digest(request) /\ q.id = q.input_digest
      /\ q.generation = request.plan_generation /\ q.bindings = current_bindings(request)
      /\ q.stage_count = request.collective.stage_count
      /\ q.stats = StatsOf(q.paths)
    BY <1>5 DEF PlanOf
<1>7. {p.id : p \in ToSet(q.paths)} = DOMAIN q.paths
    BY <1>4 DEF ToSet
<1>8. \A p \in ToSet(q.paths) : PathAccepted(request, p)
    BY <1>4 DEF ToSet
<1>9. \A l \in DOMAIN request.collective.logical_edges : SiblingsAccepted(request, SiblingsOf(q, l))
    BY SiblingsAreAccepted DEF LogicalEdges
<1>10. StagesAccepted(request, q)
    BY <1>1, StagesAreAccepted
<1>11. AllocationsAccepted(request, q)
    BY AllocationsAreAccepted
<1>12. QED
    BY <1>6, <1>7, <1>8, <1>9, <1>10, <1>11 DEF validate_plan

\* What solve_global adds up over the logical edges.
Added(u, S) == FoldFunctionOnSet(+, 0, u, S)

\* The fold is the sum.
LEMMA FoldIsTotal ==
    ASSUME NEW u, NEW S
    PROVE  Added(u, S) = Total(u, S)
BY Zenon DEF Added, FoldFunctionOnSet, MapThenFoldSet, Total, Sums, Pick

\* What the sets of the choice c place on edge e, logical edge by logical edge.
UsageOf(sets, e) == [l \in LogicalEdges |-> SetUsage(ToSet(sets[l]), e)]

\* A choice within the assignments stays within what is spare.
LEMMA PickedFit ==
    ASSUME NEW c \in Assignments, NEW e \in Edges
    PROVE  Added(UsageOf(Picked(c), e), LogicalEdges) <= planner.spare[e]
<1>1. PICK u : u = [l \in LogicalEdges |-> SetUsage(ToSet(plans[l].alternatives[c[l]].paths), e)]
    OBVIOUS
<1>2. UsageOf(Picked(c), e) = u
    BY <1>1 DEF UsageOf, Picked
<1>3. Added(u, LogicalEdges) <= planner.spare[e]
    BY <1>1, Zenon DEF Assignments, Added
<1>4. QED
    BY <1>2, <1>3

\* Wherever the outcome of a logical edge leads, it is not to the validation.
LEMMA SettlingGoesOn ==
    ASSUME NEW result, Settle(result)
    PROVE  pc' # "validate"
BY DEF Settle

\* Nor does a search begin or a pool end there.
LEMMA PoolGoesOn ==
    /\ \A purpose, edges, nodes : Start(purpose, edges, nodes) => pc' # "validate"
    /\ \A kept, extra : PoolFinished(kept, extra) => pc' # "validate"
    /\ \A kept, chain, through, steps : Probing(kept, chain, through, steps) => pc' # "validate"
    /\ \A kept, chain, through, steps : Chaining(kept, chain, through, steps) => pc' # "validate"
<1>1. \A purpose, edges, nodes : Start(purpose, edges, nodes) => pc' # "validate"
    BY DEF Start
<1>2. \A kept, extra : PoolFinished(kept, extra) => pc' # "validate"
    BY Zenon DEF PoolFinished
<1>3. \A kept, chain, through, steps : Probing(kept, chain, through, steps) => pc' # "validate"
    BY <1>1, <1>2, Zenon DEF Probing
<1>4. \A kept, chain, through, steps : Chaining(kept, chain, through, steps) => pc' # "validate"
    BY <1>1, <1>3, Zenon DEF Chaining
<1>5. QED
    BY <1>1, <1>2, <1>3, <1>4

\* No step of the search for the routes leads to the validation.
LEMMA SearchGoesElsewhere ==
    ASSUME SearchNext
    PROVE  pc' # "validate"
<1>1. CASE Analyse
    BY <1>1, SettlingGoesOn DEF Analyse, Refuse
<1>2. CASE Sweep
    BY <1>2 DEF Sweep
<1>3. CASE Walk
    <2>1. pc' = pc /\ pc = "walk"
        BY <1>3, Zenon DEF Walk, Walked
    <2>2. QED
        BY <2>1
<1>4. CASE SweepEnd
    BY <1>4, PoolGoesOn, Zenon DEF SweepEnd
<1>5. CASE Pop
    <2>1. pc = "search" /\ (pc' = pc \/ pc' = "pool")
        BY <1>5, Zenon DEF Pop
    <2>2. QED
        BY <2>1
<1>6. CASE Exhausted
    BY <1>6 DEF Exhausted
<1>7. CASE Pool
    BY <1>7, PoolGoesOn, Zenon DEF Pool
<1>8. CASE Choose
    <2>1. pc' = pc /\ pc = "sets"
        BY <1>8, Zenon DEF Choose, Chose
    <2>2. QED
        BY <2>1
<1>9. CASE Conclude
    BY <1>9, SettlingGoesOn, Zenon DEF Conclude
<1>10. CASE Augment
    BY <1>10, SettlingGoesOn, Zenon DEF Augment
<1>11. CASE Certify
    BY <1>11, SettlingGoesOn, Zenon DEF Certify
<1>12. QED
    BY <1>1, <1>2, <1>3, <1>4, <1>5, <1>6, <1>7, <1>8, <1>9, <1>10, <1>11 DEF SearchNext

\* The sets solve_global may choose are such sets.
LEMMA PickedIsMapped ==
    ASSUME Working, pc = "assign", ~Failed, NEW c \in Assignments
    PROVE  Mapped(Picked(c))
<1>1. PICK sets : sets = Picked(c)
    OBVIOUS
<1>2. sets \in [LogicalEdges -> Seq(Routes)]
    BY <1>1, PickedAreOffers
<1>3. ASSUME NEW l \in LogicalEdges
      PROVE  /\ Len(sets[l]) = Wanted /\ IsInjective(sets[l])
             /\ \A i \in DOMAIN sets[l] : Good(l, sets[l][i])
             /\ \A i, j \in DOMAIN sets[l] : i # j =>
                   Disjoint(sets[l][i], sets[l][j]) /\ Diverse(sets[l][i], sets[l][j])
             /\ BoundEnds(l) /\ From(l).node \in planner.nodes
    <2>1. OfferOk(l, plans[l].alternatives[c[l]]) /\ BoundEnds(l) /\ From(l).node \in planner.nodes
        BY PickedAreOffers
    <2>2. sets[l] = plans[l].alternatives[c[l]].paths
        BY <1>1 DEF Picked
    <2>3. QED
        BY <2>1, <2>2 DEF OfferOk
<1>4. ASSUME NEW e \in Edges
      PROVE  Total([l \in LogicalEdges |-> SetUsage(ToSet(sets[l]), e)], LogicalEdges) <= planner.spare[e]
    <2>1. Added(UsageOf(sets, e), LogicalEdges) <= planner.spare[e]
        BY <1>1, PickedFit
    <2>2. Total(UsageOf(sets, e), LogicalEdges) <= planner.spare[e]
        BY <2>1, FoldIsTotal
    <2>3. QED
        BY <2>2 DEF UsageOf
<1>5. Mapped(sets)
    BY <1>2, <1>3, <1>4 DEF Mapped
<1>6. QED
    BY <1>1, <1>5

\* A plan of the planner's own is valid before the validation looks at it.
Agrees ==
    /\ pc = "validate" /\ ~input.submitted => validate_plan(plan, request)
    /\ verdict # "internal"

\* It is made so by the only action that makes one.
LEMMA AssignAgrees ==
    ASSUME Working, Agrees, Assign
    PROVE  Agrees'
<1>1. /\ SetupOk /\ pc = "assign" /\ verdict = "none" /\ Idle
    BY DEF Working, Assign, Idle
<1>2. CASE verdict' = "denied" /\ pc' = "done"
    BY <1>2 DEF Agrees
<1>3. CASE /\ ~Failed /\ pc' = "validate" /\ verdict' = verdict
           /\ \E c \in Assignments :
                plan' = Materialise([l \in LogicalEdges |-> plans[l].alternatives[c[l]].paths])
    <2>1. PICK c \in Assignments : plan' = Materialise(Picked(c))
        BY <1>3 DEF Picked
    <2>2. Mapped(Picked(c))
        BY <1>1, <1>3, PickedIsMapped
    <2>3. validate_plan(plan', request)
        BY <1>1, <2>1, <2>2, MappedIsValid
    <2>4. request' = request
        BY <1>1 DEF Idle
    <2>5. validate_plan(plan, request)'
        BY <2>3, <2>4
    <2>6. QED
        BY <1>1, <1>3, <2>5 DEF Agrees
<1>4. QED
    BY <1>1, <1>2, <1>3 DEF Assign

\* No other step touches it.
LEMMA NextAgrees ==
    ASSUME IInv, Agrees, [Next]_planningVars
    PROVE  Agrees'
<1>1. CASE Build
    <2>1. verdict = "none"
        BY <1>1 DEF IInv, Build, Working
    <2>2. pc' \in {"edge", "done"} /\ verdict' \in {"none", "refused"}
        BY <1>1, <2>1, Zenon DEF Build, Begin
    <2>3. QED
        BY <2>2 DEF Agrees
<1>2. CASE Search
    <2>1. pc' # "validate" /\ verdict' = verdict
        BY <1>2, SearchGoesElsewhere DEF Search
    <2>2. QED
        BY <2>1 DEF Agrees
<1>3. CASE Assign
    <2>1. Working
        BY <1>3 DEF IInv, Assign
    <2>2. QED
        BY <1>3, <2>1, AssignAgrees
<1>4. CASE Submit
    BY <1>4 DEF Submit, Agrees
<1>5. CASE Validate
    BY <1>5 DEF Validate, Agrees
<1>6. CASE UNCHANGED planningVars
    <2>1. pc' = pc /\ input' = input /\ verdict' = verdict /\ plan' = plan /\ request' = request
        BY <1>6 DEF planningVars, vars
    <2>2. QED
        BY <2>1 DEF Agrees
<1>7. QED
    BY <1>1, <1>2, <1>3, <1>4, <1>5, <1>6 DEF Next, Answered

\* The planner never has to withdraw its own plan: what the search and the assignment
\* produce passes the independent validation (the internal error of plan_collective),
\* whatever the request, the limits and the choice of sets.
THEOREM ProducedPlansAreValid == Spec => []ProducedPlanIsValid
<1>1. Init => Agrees
    BY DEF Init, Agrees
<1>2. IInv /\ Agrees /\ [Next]_planningVars => Agrees'
    BY NextAgrees
<1>3. Agrees => ProducedPlanIsValid
    BY DEF Agrees, ProducedPlanIsValid
<1>4. QED
    BY <1>1, <1>2, <1>3, InvariantHolds, PTL DEF Spec
=============================================================================
