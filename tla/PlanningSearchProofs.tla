------------------------ MODULE PlanningSearchProofs ------------------------
(***************************************************************************)
(* What the planner finds, for every set of inputs: the enumeration that   *)
(* calls itself exhaustive misses no feasible route, the search comes back *)
(* with a cheapest one, and the routes of the diversity chain are kept.    *)
(***************************************************************************)
EXTENDS PlanningProofs

\* The values a step takes, one after the other, from a value of the set A to
\* values of A.
Iterates(f, a, step, m) == f = [n \in 0..m |-> IF n = 0 THEN a ELSE step[f[n - 1]]]

\* There are such values, and they stay in the set.
LEMMA IteratesExist ==
    ASSUME NEW A, NEW a \in A, NEW step \in [A -> A], NEW m \in Nat
    PROVE  \E f : Iterates(f, a, step, m) /\ f \in [0..m -> A]
<1>1. PICK B : B = {j \in Nat : ~\E f : Iterates(f, a, step, j) /\ f \in [0..j -> A]}
    OBVIOUS
<1>2. SUFFICES ASSUME B # {} PROVE FALSE
    BY <1>1
<1>3. B \subseteq Nat
    BY <1>1
<1>4. PICK j \in B : \A i \in B : j <= i
    BY <1>2, <1>3, NatMin
<1>5. j \in Nat /\ ~\E f : Iterates(f, a, step, j) /\ f \in [0..j -> A]
    BY <1>1, <1>3, <1>4
<1>6. CASE j = 0
    <2>1. PICK f : f = [n \in 0..0 |-> a]
        OBVIOUS
    <2>2. f = [n \in 0..0 |-> IF n = 0 THEN a ELSE step[f[n - 1]]]
        BY <2>1
    <2>3. Iterates(f, a, step, 0) /\ f \in [0..0 -> A]
        BY <2>1, <2>2 DEF Iterates
    <2>4. QED
        BY <1>5, <1>6, <2>3
<1>7. CASE j # 0
    <2>1. PICK i \in Nat : j = i + 1
        BY <1>5, <1>7
    <2>2. i \notin B
        BY <1>4, <2>1
    <2>3. PICK f : Iterates(f, a, step, i) /\ f \in [0..i -> A]
        BY <1>1, <2>2
    <2>4. \A n \in 0..i : f[n] = IF n = 0 THEN a ELSE step[f[n - 1]]
        BY <2>3 DEF Iterates
    <2>5. PICK x \in A : x = step[f[i]]
        <3>1. f[i] \in A
            BY <2>1, <2>3
        <3>2. QED
            BY <3>1
    <2>6. PICK g : g = [n \in 0..j |-> IF n = j THEN x ELSE f[n]]
        OBVIOUS
    <2>7. g \in [0..j -> A]
        <3>1. \A n \in 0..j : n # j => n \in 0..i
            BY <2>1
        <3>2. QED
            BY <2>3, <2>5, <2>6, <3>1
    <2>8. ASSUME NEW n \in 0..j PROVE g[n] = IF n = 0 THEN a ELSE step[g[n - 1]]
        <3>1. CASE n = j
            <4>1. n - 1 = i /\ n # 0 /\ i \in 0..j /\ i # j
                BY <2>1, <3>1
            <4>2. g[n - 1] = f[i] /\ g[n] = x
                BY <2>6, <3>1, <4>1
            <4>3. QED
                BY <2>5, <4>1, <4>2
        <3>2. CASE n # j
            <4>1. n \in 0..i /\ g[n] = f[n]
                BY <2>1, <2>6, <3>2
            <4>2. n # 0 => n - 1 \in 0..j /\ n - 1 # j
                BY <2>1, <4>1
            <4>3. n # 0 => g[n - 1] = f[n - 1]
                BY <2>6, <4>2
            <4>4. QED
                BY <2>4, <4>1, <4>3
        <3>3. QED
            BY <3>1, <3>2
    <2>9. Iterates(g, a, step, j)
        <3>1. DOMAIN g = 0..j
            BY <2>6
        <3>2. PICK u : u = [n \in 0..j |-> IF n = 0 THEN a ELSE step[g[n - 1]]]
            OBVIOUS
        <3>3. \A n \in 0..j : u[n] = g[n]
            BY <2>8, <3>2
        <3>4. g = u
            BY <2>6, <3>1, <3>2, <3>3
        <3>5. QED
            BY <3>2, <3>4 DEF Iterates
    <2>10. QED
        BY <1>5, <2>7, <2>9
<1>8. QED
    BY <1>6, <1>7

\* What FabricGraph::build checks of the fabric beyond what the budgets and the
\* accounting need: its nodes are told apart, its edges join them, and the domains
\* named are declared.
DomainIds(r) == {d.id : d \in r.fabric.domains}
NodeIds(r) == {n.id : n \in r.fabric.nodes}
FabricWhole(r) ==
    /\ r.fabric.domains \subseteq Domains
    /\ \A d \in r.fabric.domains : valid(d.id) /\ (valid(d.parent) => d.parent \in DomainIds(r))
    /\ \A m, n \in r.fabric.nodes : m.id = n.id => m = n
    /\ \A i \in DOMAIN r.fabric.edges :
          /\ r.fabric.edges[i].from \in NodeIds(r) /\ r.fabric.edges[i].to \in NodeIds(r)
          /\ valid(r.fabric.edges[i].domain) => r.fabric.edges[i].domain \in DomainIds(r)

\* FabricGraph::build lets no other fabric pass.
LEMMA FabricIsWhole ==
    ASSUME NEW spec \in Declarations, FabricAccepted(spec), NEW r, r.fabric = BuiltFabric(spec)
    PROVE  FabricWhole(r)
<1>1. /\ spec.edges \in Seq(FabricEdges) /\ spec.nodes \in Seq(Nodes) /\ spec.domains \in Seq(Domains)
    BY DEF Declarations
<1>2. PICK s : s = spec.edges
    OBVIOUS
<1>3. \A e \in ToSet(s) : EdgeAccepted(spec, e)
    BY <1>2 DEF FabricAccepted
<1>4. /\ r.fabric.edges = SortedEdges(s)
      /\ r.fabric.nodes = ToSet(spec.nodes) /\ r.fabric.domains = ToSet(spec.domains)
    BY <1>2 DEF BuiltFabric, SortedEdges, Sorted
<1>5. PICK p : Places(p, EdgeOrder, s) /\ SortedEdges(s) = [k \in DOMAIN s |-> s[p[k]]]
    BY <1>1, <1>2, EdgesAreSorted
<1>6. ASSUME NEW i \in DOMAIN r.fabric.edges
      PROVE  /\ r.fabric.edges[i].from \in NodeIds(r) /\ r.fabric.edges[i].to \in NodeIds(r)
             /\ valid(r.fabric.edges[i].domain) => r.fabric.edges[i].domain \in DomainIds(r)
    <2>1. i \in DOMAIN s /\ p[i] \in DOMAIN s /\ r.fabric.edges[i] = s[p[i]]
        BY <1>4, <1>5, <1>6 DEF Places
    <2>2. r.fabric.edges[i] \in ToSet(s)
        BY <2>1 DEF ToSet
    <2>3. QED
        BY <1>3, <1>4, <2>2 DEF EdgeAccepted, NodeIds, DomainIds
<1>7. \A d \in r.fabric.domains : valid(d.id) /\ (valid(d.parent) => d.parent \in DomainIds(r))
    BY <1>4 DEF FabricAccepted, is_valid_identifier, valid, None, DomainIds
<1>8. ASSUME NEW m \in r.fabric.nodes, NEW n \in r.fabric.nodes, m.id = n.id PROVE m = n
    <2>1. PICK i \in DOMAIN spec.nodes, j \in DOMAIN spec.nodes : spec.nodes[i] = m /\ spec.nodes[j] = n
        BY <1>4 DEF ToSet
    <2>2. \A a, b \in DOMAIN spec.nodes : spec.nodes[a].id = spec.nodes[b].id => a = b
        BY DEF FabricAccepted, DistinctBy
    <2>3. QED
        BY <1>8, <2>1, <2>2
<1>9. r.fabric.domains \subseteq Domains
    BY <1>1, <1>4, ToSetIn
<1>10. QED
    BY <1>6, <1>7, <1>8, <1>9 DEF FabricWhole

\* One domain further up, where there is one.
Higher(D, s) ==
    IF valid(Domain(D, Last(s)).parent) THEN Append(s, Domain(D, Last(s)).parent) ELSE s
UpChosen(D, id) ==
    CHOOSE up : up = [n \in 0..MaxLevels |->
        IF n = 0 THEN <<id>>
        ELSE LET below == up[n - 1]
                 parent == Domain(D, Last(below)).parent
             IN IF valid(parent) THEN Append(below, parent) ELSE below]

\* The chain of a declared domain is one of declared domains.
LEMMA ChainIsDeclared ==
    ASSUME NEW r, FabricWhole(r), NEW id \in DomainIds(r)
    PROVE  ToSet(domain_chain(r.fabric.domains, id)) \subseteq DomainIds(r)
<1>1. PICK D : D = r.fabric.domains
    OBVIOUS
<1>2. PICK I : I = DomainIds(r)
    OBVIOUS
<1>3. PICK A : A = Seq(I) \ {<<>>}
    OBVIOUS
<1>4. ASSUME NEW s \in A PROVE Higher(D, s) \in A
    <2>1. s \in Seq(I) /\ s # <<>> /\ Last(s) \in I
        BY <1>3, FrontIs
    <2>2. PICK d \in D : d.id = Last(s)
        BY <1>1, <1>2, <2>1 DEF DomainIds
    <2>3. Domain(D, Last(s)) \in D
        BY <2>2 DEF Domain
    <2>4. PICK p : p = Domain(D, Last(s)).parent
        OBVIOUS
    <2>5. valid(p) => p \in I
        BY <1>1, <1>2, <2>3, <2>4 DEF FabricWhole
    <2>6. CASE valid(p)
        <3>1. Append(s, p) \in Seq(I) /\ Len(Append(s, p)) = Len(s) + 1 /\ Len(s) \in Nat
            BY <2>1, <2>5, <2>6, AppendIs, LenProperties
        <3>2. Append(s, p) # <<>>
            BY <3>1, LenProperties
        <3>3. QED
            BY <1>3, <2>4, <2>6, <3>1, <3>2 DEF Higher
    <2>7. CASE ~valid(p)
        BY <2>4, <2>7 DEF Higher
    <2>8. QED
        BY <2>6, <2>7
<1>5. PICK step : step = [s \in A |-> Higher(D, s)]
    OBVIOUS
<1>6. step \in [A -> A]
    BY <1>4, <1>5
<1>7. <<id>> \in A
    BY <1>2, <1>3
<1>8. MaxLevels \in Nat
    BY RequestAssumption
<1>9. PICK f : Iterates(f, <<id>>, step, MaxLevels) /\ f \in [0..MaxLevels -> A]
    BY <1>6, <1>7, <1>8, IteratesExist
<1>10. ASSUME NEW g
       PROVE  Iterates(g, <<id>>, step, MaxLevels) /\ g \in [0..MaxLevels -> A] =>
                  g = [n \in 0..MaxLevels |->
                          IF n = 0 THEN <<id>>
                          ELSE LET below == g[n - 1]
                                   parent == Domain(D, Last(below)).parent
                               IN IF valid(parent) THEN Append(below, parent) ELSE below]
    <2>1. SUFFICES ASSUME Iterates(g, <<id>>, step, MaxLevels), g \in [0..MaxLevels -> A]
                   PROVE  g = [n \in 0..MaxLevels |->
                                  IF n = 0 THEN <<id>>
                                  ELSE LET below == g[n - 1]
                                           parent == Domain(D, Last(below)).parent
                                       IN IF valid(parent) THEN Append(below, parent) ELSE below]
        OBVIOUS
    <2>2. ASSUME NEW n \in 0..MaxLevels PROVE g[n] = IF n = 0 THEN <<id>> ELSE Higher(D, g[n - 1])
        <3>1. g[n] = IF n = 0 THEN <<id>> ELSE step[g[n - 1]]
            BY <2>1 DEF Iterates
        <3>2. n # 0 => n - 1 \in 0..MaxLevels
            BY <1>8
        <3>3. n # 0 => g[n - 1] \in A
            BY <2>1, <3>2
        <3>4. QED
            BY <1>5, <3>1, <3>3
    <2>3. PICK u : u = [n \in 0..MaxLevels |->
                            IF n = 0 THEN <<id>>
                            ELSE LET below == g[n - 1]
                                     parent == Domain(D, Last(below)).parent
                                 IN IF valid(parent) THEN Append(below, parent) ELSE below]
        OBVIOUS
    <2>4. \A n \in 0..MaxLevels : u[n] = g[n]
        BY <2>2, <2>3 DEF Higher
    <2>5. DOMAIN u = 0..MaxLevels /\ DOMAIN g = 0..MaxLevels
        BY <2>1, <2>3
    <2>6. u = g
        <3>1. u = [n \in 0..MaxLevels |-> u[n]]
            BY <2>3
        <3>2. g = [n \in 0..MaxLevels |-> g[n]]
            BY <2>1
        <3>3. QED
            BY <2>4, <3>1, <3>2
    <2>7. QED
        BY <2>3, <2>6
<1>11. PICK u : u = UpChosen(D, id)
    OBVIOUS
<1>12. u = [n \in 0..MaxLevels |->
                IF n = 0 THEN <<id>>
                ELSE LET below == u[n - 1]
                         parent == Domain(D, Last(below)).parent
                     IN IF valid(parent) THEN Append(below, parent) ELSE below]
    BY <1>9, <1>10, <1>11 DEF UpChosen
<1>13. \A n \in 0..MaxLevels : u[n] = IF n = 0 THEN <<id>> ELSE Higher(D, u[n - 1])
    BY <1>12 DEF Higher
<1>14. PICK B : B = {n \in 0..MaxLevels : u[n] \notin A}
    OBVIOUS
<1>15. B = {}
    <2>1. SUFFICES ASSUME B # {} PROVE FALSE
        OBVIOUS
    <2>2. B \subseteq Nat
        BY <1>14
    <2>3. PICK n \in B : \A i \in B : n <= i
        BY <2>1, <2>2, NatMin
    <2>4. n \in 0..MaxLevels /\ u[n] \notin A
        BY <1>14, <2>3
    <2>5. n # 0
        BY <1>7, <1>13, <2>4
    <2>6. n - 1 \in 0..MaxLevels /\ ~(n <= n - 1)
        BY <1>8, <2>4, <2>5
    <2>7. u[n - 1] \in A
        BY <1>14, <2>3, <2>6
    <2>8. u[n] = Higher(D, u[n - 1])
        BY <1>13, <2>4, <2>5
    <2>9. QED
        BY <1>4, <2>4, <2>7, <2>8
<1>16. u[MaxLevels] \in Seq(I)
    <2>1. MaxLevels \in 0..MaxLevels
        BY <1>8
    <2>2. QED
        BY <1>3, <1>14, <1>15, <2>1
<1>17. domain_chain(D, id) = u[MaxLevels]
    BY <1>11 DEF domain_chain, UpChosen
<1>18. QED
    BY <1>1, <1>2, <1>16, <1>17, ToSetIn

\* Permitted says of an edge that joins two kept nodes what the planner checks before
\* it crosses it, and the nodes kept are the eligible ones.
LEMMA EligibleIsKept ==
    ASSUME FabricWhole(request), planner = PlannerState(request), NEW n \in NodeIds(request)
    PROVE  Eligible(n) <=> n \in planner.nodes
<1>1. PICK m \in request.fabric.nodes : m.id = n
    BY DEF NodeIds
<1>2. NodeOf(n) = m
    BY <1>1 DEF NodeOf, FabricWhole
<1>3. Eligible(n) <=> NodeAllowed(request, m)
    BY <1>1, <1>2 DEF Eligible, NodeAllowed, Policy
<1>4. planner.nodes = {x.id : x \in {y \in request.fabric.nodes : NodeAllowed(request, y)}}
    BY DEF PlannerState
<1>5. n \in planner.nodes <=> NodeAllowed(request, m)
    BY <1>1, <1>4 DEF FabricWhole
<1>6. QED
    BY <1>3, <1>5

\* What an edge passes the policy with, in the planner and as declared.
LEMMA DomainsAllowed ==
    ASSUME Built(request), FabricWhole(request), NEW e \in Edges
    PROVE  ~domain_forbidden(request, Edge(e).domain) <=>
               {c \in {d.id : d \in request.fabric.domains} :
                   domain_contains(request.fabric.domains, c, Edge(e).domain)} \cap Policy.forbidden_domains = {}
<1>1. PICK x : x = Edge(e).domain
    OBVIOUS
<1>2. valid(x) => x \in DomainIds(request)
    BY <1>1 DEF FabricWhole, Edge, Edges
<1>3. \A f : domain_contains(request.fabric.domains, f, x) => f \in DomainIds(request)
    BY <1>2, ChainIsDeclared DEF domain_contains
<1>4. DomainIds(request) = {d.id : d \in request.fabric.domains}
    BY DEF DomainIds
<1>5. QED
    BY <1>1, <1>3, <1>4 DEF domain_forbidden, Policy

\* Evidence is satisfied from the level on that the policy asks for.
LEMMA EvidenceAllowed ==
    ASSUME Built(request), NEW e \in Edges
    PROVE  evidence_satisfies(Edge(e).evidence, Policy.evidence) <=>
               Edge(e).evidence >= (CASE Policy.evidence = "any" -> 0 [] Policy.evidence = "synthetic" -> 1
                                      [] Policy.evidence = "measured" -> 2)
<1>1. Policy.evidence \in {"any", "synthetic", "measured"}
    BY DEF Built, PolicyBuilt, BuiltPolicies, Policy
<1>2. Edge(e).evidence \in 0..2
    BY EdgesAreNumbers DEF FabricEdges
<1>3. CASE Policy.evidence = "any"
    BY <1>2, <1>3 DEF evidence_satisfies
<1>4. CASE Policy.evidence = "synthetic"
    BY <1>2, <1>4 DEF evidence_satisfies
<1>5. CASE Policy.evidence = "measured"
    BY <1>2, <1>5 DEF evidence_satisfies
<1>6. QED
    BY <1>1, <1>3, <1>4, <1>5

\* An edge is usable and carries the demand exactly when it is allowed and its
\* headroom covers the share, or the policy takes it unverified.
LEMMA CapacityAllowed ==
    ASSUME Built(request), planner = PlannerState(request), NEW e \in Edges
    PROVE  /\ edge_statically_usable(e) /\ edge_carries_demand(e) <=>
                  /\ EdgeAllowed(request, Edge(e))
                  /\ \/ Edge(e).capacity = 0 /\ Policy.allow_unverified
                     \/ Edge(e).capacity > Edge(e).reserved /\ Edge(e).capacity - Edge(e).reserved >= Share
<1>1. PICK x : x = Edge(e)
    OBVIOUS
<1>2. x \in FabricEdges /\ x.reserved <= x.capacity
    BY <1>1, EdgesAreNumbers DEF Built, FabricBuilt, Edge, Edges
<1>3. x.reserved \in Nat /\ x.capacity \in Nat
    BY <1>2 DEF FabricEdges
<1>4. PlannerSet
    BY PlannerIsSet
<1>5. planner.demand = Share /\ planner.edges = {i \in Edges : EdgeAllowed(request, Edge(i))}
    BY <1>4 DEF PlannerSet, PlannerState, Edges, Edge
<1>6. planner.spare[e] = edge_spare(x)
    BY <1>1 DEF PlannerState, Edges, Edge
<1>7. edge_spare(x) = x.capacity - x.reserved
    BY <1>2, <1>3 DEF edge_spare
<1>8. e \in planner.edges <=> EdgeAllowed(request, x)
    BY <1>1, <1>5
<1>9. edge_statically_usable(e) <=>
          /\ EdgeAllowed(request, x)
          /\ IF x.capacity = 0 THEN Policy.allow_unverified /\ x.reserved = 0 ELSE x.reserved < x.capacity
    BY <1>1, <1>8 DEF edge_statically_usable
<1>10. edge_carries_demand(e) <=> (x.capacity = 0 \/ x.capacity - x.reserved >= Share)
    BY <1>1, <1>5, <1>6, <1>7 DEF edge_carries_demand
<1>11. Share \in Nat /\ Policy.allow_unverified \in BOOLEAN
    BY ShareType DEF Built, PolicyBuilt, BuiltPolicies, Policy
<1>12. CASE x.capacity = 0
    BY <1>1, <1>2, <1>3, <1>9, <1>10, <1>11, <1>12
<1>13. CASE x.capacity # 0
    BY <1>1, <1>2, <1>3, <1>9, <1>10, <1>11, <1>13
<1>14. QED
    BY <1>12, <1>13

\* A route may take the edges the search may pass, from nodes it may visit.
LEMMA PermittedIs ==
    ASSUME Built(request), planner = PlannerState(request), FabricWhole(request), BoundEnds(edge),
           NEW e \in Edges
    PROVE  Permitted(e) <=> (PassableOn(edge, e) /\ Edge(e).from \in planner.nodes)
<1>1. PICK x : x = Edge(e)
    OBVIOUS
<1>2. x.from \in NodeIds(request) /\ x.to \in NodeIds(request)
    BY <1>1 DEF FabricWhole, Edge, Edges
<1>3. Binding(1) = From(edge) /\ Binding(2) = Upto(edge)
    BY EndsHere
<1>4. (Eligible(x.from) <=> x.from \in planner.nodes) /\ (Eligible(x.to) <=> x.to \in planner.nodes)
    BY <1>2, EligibleIsKept
<1>5. \A n : Eligible(n) => n \notin Policy.forbidden_nodes
    BY DEF Eligible
<1>6. PICK capable : capable = (\/ x.capacity = 0 /\ Policy.allow_unverified
                                \/ x.capacity > x.reserved /\ x.capacity - x.reserved >= Share)
    OBVIOUS
<1>7. PICK apart : apart = ({c \in {d.id : d \in request.fabric.domains} :
                                domain_contains(request.fabric.domains, c, x.domain)}
                                    \cap Policy.forbidden_domains = {})
    OBVIOUS
<1>8. PICK proven : proven = (x.evidence >= (CASE Policy.evidence = "any" -> 0
                                 [] Policy.evidence = "synthetic" -> 1 [] Policy.evidence = "measured" -> 2))
    OBVIOUS
<1>9. Declared(e) <=> /\ {x.from, x.to} \cap Policy.forbidden_nodes = {}
                      /\ x.tier \notin Policy.forbidden_tiers
                      /\ Policy.allowed_tiers = {} \/ x.tier \in Policy.allowed_tiers
                      /\ apart /\ proven /\ capable
    BY <1>1, <1>6, <1>7, <1>8 DEF Declared, Share
<1>10. EdgeAllowed(request, x) <=> /\ x.eligible /\ x.tier \notin Policy.forbidden_tiers
                                   /\ Policy.allowed_tiers = {} \/ x.tier \in Policy.allowed_tiers
                                   /\ apart /\ proven
    BY <1>1, <1>7, <1>8, DomainsAllowed, EvidenceAllowed DEF EdgeAllowed, OutsideTiers, Policy
<1>11. edge_statically_usable(e) /\ edge_carries_demand(e) <=> EdgeAllowed(request, x) /\ capable
    BY <1>1, <1>6, CapacityAllowed
<1>12. \A b : Admits(b, e) <=> binding_allows_edge(b, e)
    BY DEF Admits, binding_allows_edge, OutsideTiers
<1>13. PassableOn(edge, e) <=> /\ EdgeAllowed(request, x) /\ capable
                               /\ Admits(Binding(1), e) /\ Admits(Binding(2), e)
                               /\ x.to \in planner.nodes
    BY <1>1, <1>3, <1>11, <1>12 DEF PassableOn
<1>14. Permitted(e) <=> /\ Declared(e) /\ x.eligible
                        /\ x.from \in planner.nodes /\ x.to \in planner.nodes
                        /\ Admits(Binding(1), e) /\ Admits(Binding(2), e)
    BY <1>1, <1>4 DEF Permitted
<1>15. x.from \in planner.nodes /\ x.to \in planner.nodes => {x.from, x.to} \cap Policy.forbidden_nodes = {}
    BY <1>4, <1>5
<1>16. QED
    BY <1>1, <1>9, <1>10, <1>13, <1>14, <1>15

\* The parts FeasibleRoutes is made of.
EndOf(p) == IF p = <<>> THEN Source ELSE Edge(Last(p)).to
NodesOf(p) == {Source} \cup {Edge(e).to : e \in ToSet(p)}
Extensions(p) ==
    {Append(p, e) : e \in {f \in {g \in Edges : Permitted(g)} :
                              Edge(f).from = EndOf(p) /\ Edge(f).to \notin NodesOf(p)}}
SimpleChosen ==
    CHOOSE s : s = [n \in 0..Policy.max_hops |->
        IF n = 0 THEN {<<>>} ELSE UNION {Extensions(p) : p \in s[n - 1]}]
SimpleWalk(p) ==
    /\ p \in Routes
    /\ \A k \in DOMAIN p : Permitted(p[k]) /\ Edge(p[k]).from = Visits(p, Source)[k]
    /\ IsInjective(Visits(p, Source))

\* The feasible routes are the simple ones that end at the target within the cost.
LEMMA FeasibleAsChosen ==
    FeasibleRoutes =
        IF Eligible(Source) /\ Eligible(Target)
        THEN {p \in UNION {SimpleChosen[n] : n \in 0..Policy.max_hops} :
                  EndOf(p) = Target /\ RouteCost(p) <= Policy.max_path_cost}
        ELSE {}
BY DEF FeasibleRoutes, SimpleChosen, Extensions, EndOf, NodesOf

\* Where a route leads to, and what it visits on its way.
LEMMA VisitsAre ==
    ASSUME NEW p \in Routes
    PROVE  /\ EndOf(p) = Visits(p, Source)[Len(p) + 1]
           /\ NodesOf(p) = {Visits(p, Source)[k] : k \in 1..(Len(p) + 1)}
<1>1. PICK v : v = Visits(p, Source)
    OBVIOUS
<1>2. /\ Len(v) = Len(p) + 1 /\ DOMAIN v = 1..(Len(p) + 1) /\ v[1] = Source
      /\ \A k \in DOMAIN p : v[k + 1] = Edge(p[k]).to
    BY <1>1, VisitsIs
<1>3. Len(p) \in Nat /\ DOMAIN p = 1..Len(p)
    BY RoutePositions
<1>4. EndOf(p) = v[Len(p) + 1]
    <2>1. CASE p = <<>>
        <3>1. Len(p) = 0
            BY <2>1
        <3>2. QED
            BY <1>2, <2>1, <3>1 DEF EndOf
    <2>2. CASE p # <<>>
        <3>1. Len(p) \in Nat \ {0} /\ Last(p) = p[Len(p)]
            BY <2>2, FrontIs DEF Routes
        <3>2. Len(p) \in DOMAIN p
            BY <1>3, <3>1
        <3>3. QED
            BY <1>2, <2>2, <3>1, <3>2 DEF EndOf
    <2>3. QED
        BY <2>1, <2>2
<1>5. ASSUME NEW x PROVE x \in NodesOf(p) <=> \E k \in 1..(Len(p) + 1) : x = v[k]
    <2>1. ASSUME x \in NodesOf(p) PROVE \E k \in 1..(Len(p) + 1) : x = v[k]
        <3>1. CASE x = Source
            <4>1. 1 \in 1..(Len(p) + 1)
                BY <1>3
            <4>2. QED
                BY <1>2, <3>1, <4>1
        <3>2. CASE x # Source
            <4>1. PICK i \in DOMAIN p : x = Edge(p[i]).to
                BY <2>1, <3>2 DEF NodesOf, ToSet
            <4>2. i + 1 \in 1..(Len(p) + 1)
                BY <1>3
            <4>3. QED
                BY <1>2, <4>1, <4>2
        <3>3. QED
            BY <3>1, <3>2
    <2>2. ASSUME NEW k \in 1..(Len(p) + 1), x = v[k] PROVE x \in NodesOf(p)
        <3>1. CASE k = 1
            BY <1>2, <2>2, <3>1 DEF NodesOf
        <3>2. CASE k # 1
            <4>1. PICK i \in DOMAIN p : k = i + 1
                <5>1. k - 1 \in DOMAIN p /\ k = (k - 1) + 1
                    BY <1>3, <3>2
                <5>2. QED
                    BY <5>1
            <4>2. QED
                BY <1>2, <2>2, <4>1 DEF NodesOf, ToSet
        <3>3. QED
            BY <3>1, <3>2
    <2>3. QED
        BY <2>1, <2>2
<1>6. NodesOf(p) = {v[k] : k \in 1..(Len(p) + 1)}
    BY <1>5
<1>7. QED
    BY <1>1, <1>4, <1>6

\* A simple walk one edge longer.
LEMMA SimpleGrows ==
    ASSUME NEW q \in Routes, NEW e \in Edges
    PROVE  SimpleWalk(Append(q, e)) <=>
               /\ SimpleWalk(q) /\ Permitted(e)
               /\ Edge(e).from = EndOf(q) /\ Edge(e).to \notin NodesOf(q)
<1>1. PICK v, w, p : v = Visits(q, Source) /\ p = Append(q, e) /\ w = Visits(p, Source)
    OBVIOUS
<1>2. PICK n \in Nat : n = Len(q) /\ DOMAIN q = 1..n
    BY RoutePositions
<1>3. /\ p \in Routes /\ DOMAIN p = 1..(n + 1) /\ Len(p) = n + 1
      /\ (\A i \in 1..n : p[i] = q[i]) /\ p[n + 1] = e
    BY <1>1, <1>2, AppendIs DEF Routes
<1>4. DOMAIN v = 1..(n + 1) /\ DOMAIN w = 1..(n + 2)
    <2>1. DOMAIN v = 1..(n + 1)
        BY <1>1, <1>2, VisitsIs
    <2>2. DOMAIN w = 1..(n + 1 + 1)
        BY <1>1, <1>3, VisitsIs
    <2>3. QED
        BY <1>2, <2>1, <2>2
<1>5. (\A k \in 1..(n + 1) : w[k] = v[k]) /\ w[n + 2] = Edge(e).to
    BY <1>1, <1>2, VisitsAppend
<1>6. EndOf(q) = v[n + 1] /\ NodesOf(q) = {v[k] : k \in 1..(n + 1)}
    BY <1>1, <1>2, VisitsAre
<1>7. (\A k \in DOMAIN p : Permitted(p[k]) /\ Edge(p[k]).from = w[k]) <=>
          /\ \A k \in DOMAIN q : Permitted(q[k]) /\ Edge(q[k]).from = v[k]
          /\ Permitted(e) /\ Edge(e).from = EndOf(q)
    <2>1. \A k \in 1..(n + 1) : k \in 1..n \/ k = n + 1
        BY <1>2
    <2>2. 1..n \subseteq 1..(n + 1) /\ n + 1 \in 1..(n + 1)
        BY <1>2
    <2>3. QED
        BY <1>2, <1>3, <1>5, <1>6, <2>1, <2>2
<1>8. IsInjective(w) <=> IsInjective(v) /\ Edge(e).to \notin NodesOf(q)
    <2>1. IsInjective(w) <=> \A i, j \in 1..(n + 2) : w[i] = w[j] => i = j
        BY <1>4 DEF IsInjective
    <2>2. IsInjective(v) <=> \A i, j \in 1..(n + 1) : v[i] = v[j] => i = j
        BY <1>4 DEF IsInjective
    <2>3. \A k \in 1..(n + 2) : k \in 1..(n + 1) \/ k = n + 2
        BY <1>2
    <2>4. 1..(n + 1) \subseteq 1..(n + 2) /\ n + 2 \in 1..(n + 2) /\ n + 2 \notin 1..(n + 1)
        BY <1>2
    <2>5. Edge(e).to \notin NodesOf(q) <=> \A k \in 1..(n + 1) : v[k] # w[n + 2]
        BY <1>5, <1>6
    <2>6. QED
        BY <1>5, <2>1, <2>2, <2>3, <2>4, <2>5
<1>9. QED
    BY <1>1, <1>3, <1>7, <1>8 DEF SimpleWalk

\* Level by level, the recursion of FeasibleRoutes makes the simple walks of a length.
LEMMA SimpleLevels ==
    ASSUME Policy.max_hops \in Nat
    PROVE  \A n \in 0..Policy.max_hops : \A p :
               p \in SimpleChosen[n] <=> SimpleWalk(p) /\ Len(p) = n
<1>1. PICK m \in Nat : m = Policy.max_hops
    OBVIOUS
<1>2. PICK A : A = SUBSET Routes
    OBVIOUS
<1>3. PICK step : step = [S \in A |-> UNION {Extensions(p) : p \in S}]
    OBVIOUS
<1>4. ASSUME NEW p \in Routes PROVE Extensions(p) \subseteq Routes
    BY <1>4, AppendIs DEF Extensions, Routes
<1>5. step \in [A -> A]
    <2>1. \A S \in A : UNION {Extensions(p) : p \in S} \in A
        BY <1>2, <1>4
    <2>2. QED
        BY <1>3, <2>1
<1>6. {<<>>} \in A
    BY <1>2, EmptySeq DEF Routes
<1>7. PICK f : Iterates(f, {<<>>}, step, m) /\ f \in [0..m -> A]
    BY <1>5, <1>6, IteratesExist
<1>8. f = [n \in 0..m |-> IF n = 0 THEN {<<>>} ELSE UNION {Extensions(p) : p \in f[n - 1]}]
    <2>1. ASSUME NEW n \in 0..m
          PROVE  f[n] = IF n = 0 THEN {<<>>} ELSE UNION {Extensions(p) : p \in f[n - 1]}
        <3>1. f[n] = IF n = 0 THEN {<<>>} ELSE step[f[n - 1]]
            BY <1>7 DEF Iterates
        <3>2. n # 0 => n - 1 \in 0..m
            OBVIOUS
        <3>3. n # 0 => f[n - 1] \in A
            BY <1>7, <3>2
        <3>4. QED
            BY <1>3, <3>1, <3>3
    <2>2. f = [n \in 0..m |-> f[n]]
        BY <1>7
    <2>3. PICK u : u = [n \in 0..m |-> IF n = 0 THEN {<<>>} ELSE UNION {Extensions(p) : p \in f[n - 1]}]
        OBVIOUS
    <2>4. \A n \in 0..m : u[n] = f[n]
        BY <2>1, <2>3
    <2>5. u = [n \in 0..m |-> u[n]]
        BY <2>3
    <2>6. u = f
        BY <2>2, <2>4, <2>5
    <2>7. QED
        BY <2>3, <2>6
<1>9. PICK s : s = SimpleChosen
    OBVIOUS
<1>10. s = [n \in 0..m |-> IF n = 0 THEN {<<>>} ELSE UNION {Extensions(p) : p \in s[n - 1]}]
    BY <1>1, <1>8, <1>9 DEF SimpleChosen
<1>11. \A n \in 0..m : s[n] = IF n = 0 THEN {<<>>} ELSE UNION {Extensions(p) : p \in s[n - 1]}
    BY <1>10
<1>12. PICK B : B = {n \in 0..m : ~\A p : p \in s[n] <=> SimpleWalk(p) /\ Len(p) = n}
    OBVIOUS
<1>13. SUFFICES ASSUME B # {} PROVE FALSE
    BY <1>1, <1>9, <1>12
<1>14. B \subseteq Nat
    BY <1>12
<1>15. PICK n \in B : \A i \in B : n <= i
    BY <1>13, <1>14, NatMin
<1>16. n \in 0..m /\ ~\A p : p \in s[n] <=> SimpleWalk(p) /\ Len(p) = n
    BY <1>12, <1>15
<1>17. CASE n = 0
    <2>1. s[n] = {<<>>}
        BY <1>11, <1>16, <1>17
    <2>2. SimpleWalk(<<>>)
        <3>1. <<>> \in Routes /\ Len(<<>>) = 0 /\ DOMAIN <<>> = {}
            BY EmptySeq DEF Routes
        <3>2. DOMAIN Visits(<<>>, Source) = 1..1
            <4>1. DOMAIN Visits(<<>>, Source) = 1..(Len(<<>>) + 1)
                BY <3>1, VisitsIs
            <4>2. Len(<<>>) + 1 = 1
                BY <3>1
            <4>3. QED
                BY <4>1, <4>2
        <3>3. IsInjective(Visits(<<>>, Source))
            BY <3>2 DEF IsInjective
        <3>4. QED
            BY <3>1, <3>3 DEF SimpleWalk
    <2>3. \A p : SimpleWalk(p) /\ Len(p) = 0 => p = <<>>
        BY EmptySeq DEF SimpleWalk, Routes
    <2>4. QED
        BY <1>16, <1>17, <2>1, <2>2, <2>3
<1>18. CASE n # 0
    <2>1. PICK k \in 0..m : n = k + 1
        <3>1. n - 1 \in 0..m /\ n = (n - 1) + 1
            BY <1>16, <1>18
        <3>2. QED
            BY <3>1
    <2>2. k \notin B
        BY <1>15, <2>1
    <2>3. \A q : q \in s[k] <=> SimpleWalk(q) /\ Len(q) = k
        BY <1>12, <2>2
    <2>4. s[n] = UNION {Extensions(q) : q \in s[k]}
        <3>1. n - 1 = k
            BY <2>1
        <3>2. QED
            BY <1>11, <1>16, <1>18, <3>1
    <2>5. ASSUME NEW p, p \in s[n] PROVE SimpleWalk(p) /\ Len(p) = n
        <3>1. PICK q \in s[k] : p \in Extensions(q)
            BY <2>4, <2>5
        <3>2. PICK e \in Edges : /\ p = Append(q, e) /\ Permitted(e)
                                 /\ Edge(e).from = EndOf(q) /\ Edge(e).to \notin NodesOf(q)
            BY <3>1 DEF Extensions
        <3>3. SimpleWalk(q) /\ Len(q) = k /\ q \in Routes
            BY <2>3, <3>1 DEF SimpleWalk
        <3>4. SimpleWalk(p)
            BY <3>2, <3>3, SimpleGrows
        <3>5. Len(p) = k + 1
            BY <3>2, <3>3, AppendIs DEF Routes
        <3>6. QED
            BY <2>1, <3>4, <3>5
    <2>6. ASSUME NEW p, SimpleWalk(p), Len(p) = n PROVE p \in s[n]
        <3>1. p \in Seq(Edges) /\ p # <<>>
            BY <1>18, <2>6, EmptySeq DEF SimpleWalk, Routes
        <3>2. PICK q, e : q = Front(p) /\ e = Last(p)
            OBVIOUS
        <3>3. /\ q \in Seq(Edges) /\ Len(q) = k /\ (\A i \in 1..k : q[i] = p[i])
              /\ e \in Edges /\ e = p[n] /\ DOMAIN q = 1..k
            <4>1. n - 1 = k
                BY <2>1
            <4>2. QED
                BY <2>6, <3>1, <3>2, <4>1, FrontIs
        <3>4. /\ Append(q, e) \in Seq(Edges) /\ Len(Append(q, e)) = n
              /\ (\A i \in 1..k : Append(q, e)[i] = q[i]) /\ Append(q, e)[n] = e
            BY <2>1, <3>3, AppendIs
        <3>5. \A i \in 1..n : Append(q, e)[i] = p[i]
            <4>1. \A i \in 1..n : i \in 1..k \/ i = n
                BY <2>1
            <4>2. QED
                BY <3>3, <3>4, <4>1
        <3>6. p = Append(q, e)
            BY <2>6, <3>1, <3>4, <3>5, SeqEqual
        <3>7. /\ SimpleWalk(q) /\ Permitted(e)
              /\ Edge(e).from = EndOf(q) /\ Edge(e).to \notin NodesOf(q)
            BY <2>6, <3>3, <3>6, SimpleGrows DEF Routes
        <3>8. q \in s[k]
            BY <2>3, <3>3, <3>7
        <3>9. p \in Extensions(q)
            BY <3>3, <3>6, <3>7 DEF Extensions
        <3>10. QED
            BY <2>4, <3>8, <3>9
    <2>7. QED
        BY <1>16, <2>5, <2>6
<1>19. QED
    BY <1>17, <1>18

\* The routes that are feasible are those the planner may take.
LEMMA FeasibleAre ==
    ASSUME SetupOk, StartedOk, FabricWhole(request)
    PROVE  FeasibleRoutes = GoodRoutes(edge)
<1>1. /\ Built(request) /\ PlannerSet /\ planner = PlannerState(request)
      /\ Policy.max_hops \in Nat /\ BoundEnds(edge)
    BY SetupFacts DEF SetupOk, StartedOk
<1>2. /\ Source = From(edge).node /\ Target = Upto(edge).node
      /\ Source \in planner.nodes /\ Target \in planner.nodes
    BY <1>1, EndsHere DEF StartedOk
<1>3. Source \in NodeIds(request) /\ Target \in NodeIds(request)
    BY <1>1, <1>2 DEF PlannerSet, NodeIds
<1>4. Eligible(Source) /\ Eligible(Target)
    BY <1>1, <1>2, <1>3, EligibleIsKept
<1>5. PICK F : F = UNION {SimpleChosen[n] : n \in 0..Policy.max_hops}
    OBVIOUS
<1>6. FeasibleRoutes = {p \in F : EndOf(p) = Target /\ RouteCost(p) <= Policy.max_path_cost}
    BY <1>4, <1>5, FeasibleAsChosen
<1>7. \A p : p \in F <=> SimpleWalk(p) /\ Len(p) <= Policy.max_hops
    <2>1. \A n \in 0..Policy.max_hops : \A p : p \in SimpleChosen[n] <=> SimpleWalk(p) /\ Len(p) = n
        BY <1>1, SimpleLevels
    <2>2. \A p : SimpleWalk(p) => Len(p) \in Nat
        BY LenProperties DEF SimpleWalk, Routes
    <2>3. \A p : p \in F <=> \E n \in 0..Policy.max_hops : p \in SimpleChosen[n]
        BY <1>5
    <2>4. QED
        BY <1>1, <2>1, <2>2, <2>3
<1>8. ASSUME NEW p \in Routes
      PROVE  (\A k \in DOMAIN p : Permitted(p[k]) /\ Edge(p[k]).from = Visits(p, Source)[k]) <=>
             (\A k \in DOMAIN p : Edge(p[k]).from = Visits(p, Source)[k] /\ PassableOn(edge, p[k]))
    <2>1. /\ Len(p) \in Nat /\ DOMAIN p = 1..Len(p)
          /\ \A i \in DOMAIN p : p[i] \in Edges
        BY RoutePositions
    <2>2. \A e \in Edges : Permitted(e) <=> (PassableOn(edge, e) /\ Edge(e).from \in planner.nodes)
        BY <1>1, PermittedIs
    <2>3. ASSUME \A k \in DOMAIN p : Edge(p[k]).from = Visits(p, Source)[k] /\ PassableOn(edge, p[k]),
                 NEW k \in DOMAIN p
          PROVE  Edge(p[k]).from \in planner.nodes
        <3>1. CASE k = 1
            <4>1. Visits(p, Source)[1] = Source
                BY VisitsIs
            <4>2. QED
                BY <1>2, <2>3, <3>1, <4>1
        <3>2. CASE k # 1
            <4>1. PICK i \in DOMAIN p : k = i + 1
                <5>1. k - 1 \in DOMAIN p /\ k = (k - 1) + 1
                    BY <2>1, <3>2
                <5>2. QED
                    BY <5>1
            <4>2. Visits(p, Source)[k] = Edge(p[i]).to
                BY <4>1, VisitsIs
            <4>3. Edge(p[i]).to \in planner.nodes
                BY <2>3 DEF PassableOn
            <4>4. QED
                BY <2>3, <4>2, <4>3
        <3>3. QED
            BY <3>1, <3>2
    <2>4. QED
        BY <2>1, <2>2, <2>3
<1>9. \A p : Good(edge, p) <=>
          /\ p \in Routes
          /\ \A k \in DOMAIN p : Edge(p[k]).from = Visits(p, Source)[k] /\ PassableOn(edge, p[k])
          /\ EndOf(p) = Target
          /\ RouteCost(p) <= Policy.max_path_cost
          /\ Len(p) <= Policy.max_hops
          /\ IsInjective(Visits(p, Source))
    <2>1. \A p \in Routes : EndOf(p) = Visits(p, Source)[Len(p) + 1]
        BY VisitsAre
    <2>2. QED
        BY <1>2, <2>1 DEF Good, Track
<1>10. \A p : p \in FeasibleRoutes <=> Good(edge, p)
    BY <1>6, <1>7, <1>8, <1>9 DEF SimpleWalk
<1>11. \A p : Good(edge, p) => p \in Routes
    BY DEF Good, Track
<1>12. QED
    BY <1>10, <1>11 DEF GoodRoutes

\* A sum does not depend on the names of what is summed up.
LEMMA TotalMoved ==
    ASSUME NEW S, IsFiniteSet(S), NEW c, \A x, y \in S : c[x] = c[y] => x = y,
           NEW g, NEW h, \A x \in S : g[c[x]] \in Nat /\ h[x] = g[c[x]]
    PROVE  Total(h, S) = Total(g, {c[x] : x \in S})
<1>1. PICK B : B = {s \in SUBSET S : Total(h, s) # Total(g, {c[x] : x \in s})}
    OBVIOUS
<1>2. SUFFICES ASSUME B # {} PROVE FALSE
    BY <1>1
<1>3. PICK s \in B : \A t \in B : t \subseteq s => t = s
    <2>1. B \subseteq SUBSET S
        BY <1>1
    <2>2. QED
        BY <1>2, <2>1, MinimalSubset
<1>4. s \subseteq S /\ Total(h, s) # Total(g, {c[x] : x \in s})
    BY <1>1, <1>3
<1>5. IsFiniteSet(s)
    BY <1>4, FS_Subset
<1>6. PICK T : T = {c[x] : x \in s}
    OBVIOUS
<1>7. IsFiniteSet(T)
    <2>1. PICK d : d = [x \in s |-> c[x]]
        OBVIOUS
    <2>2. d \in Surjection(s, T)
        BY <1>6, <2>1 DEF Surjection
    <2>3. QED
        BY <1>5, <2>2, FS_Surjection
<1>8. \A x \in s : h[x] \in Nat /\ g[c[x]] \in Nat /\ h[x] = g[c[x]]
    BY <1>4
<1>9. CASE s = {}
    <2>1. T = {} /\ IsFiniteSet({})
        BY <1>6, <1>9, FS_EmptySet
    <2>2. Total(h, {}) = 0 /\ Total(g, {}) = 0
        BY <2>1, TotalStep
    <2>3. QED
        BY <1>4, <1>6, <1>9, <2>1, <2>2
<1>10. CASE s # {}
    <2>1. PICK y \in s : TRUE
        BY <1>10
    <2>2. PICK r : r = s \ {y}
        OBVIOUS
    <2>3. r \subseteq S /\ r # s /\ r \subseteq s
        BY <1>4, <2>1, <2>2
    <2>4. Total(h, r) = Total(g, {c[x] : x \in r})
        BY <1>1, <1>3, <2>3
    <2>5. Total(h, s) = h[y] + Total(h, r)
        BY <1>5, <1>8, <2>1, <2>2, TotalRemove
    <2>6. {c[x] : x \in r} = T \ {c[y]}
        <3>1. \A x \in s : c[x] = c[y] => x = y
            BY <1>4, <2>1
        <3>2. QED
            BY <1>6, <2>1, <2>2, <3>1
    <2>7. \A z \in T : g[z] \in Nat
        BY <1>6, <1>8
    <2>8. c[y] \in T
        BY <1>6, <2>1
    <2>9. Total(g, T) = g[c[y]] + Total(g, T \ {c[y]})
        BY <1>7, <2>7, <2>8, TotalRemove
    <2>10. h[y] = g[c[y]]
        BY <1>8, <2>1
    <2>11. QED
        BY <1>4, <1>6, <2>4, <2>5, <2>6, <2>9, <2>10
<1>11. QED
    BY <1>9, <1>10

\* A route costs no more than one that crosses all its edges.
LEMMA PartCostsLess ==
    ASSUME PlannerSet, NEW p \in Routes, NEW q \in Routes, NEW c \in [DOMAIN q -> DOMAIN p],
           \A i, j \in DOMAIN q : c[i] = c[j] => i = j, \A i \in DOMAIN q : q[i] = p[c[i]]
    PROVE  RouteCost(q) <= RouteCost(p)
<1>1. PICK P, Q : P = DOMAIN p /\ Q = DOMAIN q
    OBVIOUS
<1>2. IsFiniteSet(P) /\ IsFiniteSet(Q) /\ (\A i \in P : p[i] \in Edges) /\ (\A i \in Q : q[i] \in Edges)
    BY <1>1, RoutePositions
<1>3. PICK g, h : g = CostsOf(p) /\ h = CostsOf(q)
    OBVIOUS
<1>4. (\A i \in P : g[i] = planner.cost[p[i]]) /\ (\A i \in Q : h[i] = planner.cost[q[i]])
    BY <1>1, <1>3 DEF CostsOf
<1>5. \A i \in P : g[i] \in Nat
    BY <1>2, <1>4 DEF PlannerSet
<1>6. \A i \in Q : c[i] \in P /\ g[c[i]] \in Nat /\ h[i] = g[c[i]]
    BY <1>1, <1>4, <1>5
<1>7. PICK T : T = {c[i] : i \in Q}
    OBVIOUS
<1>8. Total(h, Q) = Total(g, T)
    BY <1>1, <1>2, <1>6, <1>7, TotalMoved
<1>9. T \subseteq P
    BY <1>6, <1>7
<1>10. Total(g, T) <= Total(g, P)
    BY <1>2, <1>5, <1>9, TotalSubset
<1>11. Length(q) <= Length(p)
    BY <1>1, <1>3, <1>8, <1>10 DEF Length
<1>12. /\ RouteCost(p) = Saturate(Length(p)) /\ Length(p) \in Nat
       /\ RouteCost(q) = Saturate(Length(q)) /\ Length(q) \in Nat
    BY RouteCostIsSum
<1>13. Saturate(Length(q)) <= Saturate(Length(p))
    BY <1>11, <1>12, RequestAssumption DEF Saturate
<1>14. QED
    BY <1>12, <1>13

\* A route up to one of its edges.
LEMMA PrefixOfRoute ==
    ASSUME PlannerSet, NEW p \in Routes, NEW k \in 0..Len(p), NEW q, q = SubSeq(p, 1, k)
    PROVE  /\ q \in Routes /\ Len(q) = k /\ DOMAIN q = 1..k
           /\ \A i \in 1..k : q[i] = p[i]
           /\ RouteCost(q) <= RouteCost(p)
           /\ \A s : \A i \in 1..(k + 1) : Visits(q, s)[i] = Visits(p, s)[i]
<1>1. PICK n \in Nat : n = Len(p) /\ DOMAIN p = 1..n
    BY RoutePositions
<1>2. k \in Nat /\ k <= n /\ 1..k \subseteq 1..n
    BY <1>1
<1>3. q \in Routes /\ Len(q) = k /\ DOMAIN q = 1..k /\ \A i \in 1..k : q[i] = p[i]
    BY <1>1, <1>2, PrefixIs DEF Routes
<1>4. RouteCost(q) <= RouteCost(p)
    <2>1. PICK c : c = [i \in 1..k |-> i]
        OBVIOUS
    <2>2. c \in [DOMAIN q -> DOMAIN p]
        BY <1>1, <1>2, <1>3, <2>1
    <2>3. (\A i, j \in DOMAIN q : c[i] = c[j] => i = j) /\ \A i \in DOMAIN q : q[i] = p[c[i]]
        BY <1>3, <2>1
    <2>4. QED
        BY <1>3, <2>2, <2>3, PartCostsLess
<1>5. ASSUME NEW s, NEW i \in 1..(k + 1) PROVE Visits(q, s)[i] = Visits(p, s)[i]
    <2>1. Visits(q, s)[1] = s /\ Visits(p, s)[1] = s
        BY <1>3, VisitsIs
    <2>2. CASE i = 1
        BY <2>1, <2>2
    <2>3. CASE i # 1
        <3>1. PICK j \in 1..k : i = j + 1
            <4>1. i - 1 \in 1..k /\ i = (i - 1) + 1
                BY <2>3
            <4>2. QED
                BY <4>1
        <3>2. j \in DOMAIN q /\ j \in DOMAIN p /\ q[j] = p[j]
            BY <1>1, <1>2, <1>3
        <3>3. Visits(p, s)[j + 1] = Edge(p[j]).to
            BY <3>2, VisitsIs
        <3>4. q \in Routes
            BY <1>3
        <3>5. Visits(q, s)[j + 1] = Edge(q[j]).to
            BY <3>2, <3>4, VisitsIs
        <3>6. QED
            BY <3>1, <3>2, <3>3, <3>5
    <2>4. QED
        BY <2>2, <2>3
<1>6. QED
    BY <1>3, <1>4, <1>5

\* The edges that leave a node are all listed.
LEMMA OutEdgesAll ==
    ASSUME SetupOk, NEW e \in Edges, NEW n, Edge(e).from = n
    PROVE  \E j \in 1..Len(out_edges(n)) : out_edges(n)[j] = e
<1>1. PICK S : S = {f \in Edges : Edge(f).from = n}
    OBVIOUS
<1>2. S \subseteq Edges
    BY <1>1
<1>3. IsFiniteSet(Edges) /\ Edges \subseteq Nat
    BY SetupFacts
<1>4. IsFiniteSet(S)
    BY <1>2, <1>3, FS_Subset
<1>5. S \subseteq Int
    BY <1>2, <1>3
<1>6. out_edges(n) = Numbers(S)
    BY <1>1 DEF out_edges, Numbers
<1>7. e \in S
    BY <1>1
<1>8. PICK q : q = Numbers(S)
    OBVIOUS
<1>9. /\ Len(q) = Cardinality(S) /\ DOMAIN q = 1..Cardinality(S)
      /\ \A x \in S : \E i \in DOMAIN q : q[i] = x
    BY <1>4, <1>5, <1>8, NumbersInOrder
<1>10. QED
    BY <1>6, <1>7, <1>8, <1>9

\* An edge on a good route, seen from the edges before it.
LEMMA HopOfGood ==
    ASSUME SetupOk, BoundEnds(edge), NEW p \in GoodRoutes(edge), NEW k \in DOMAIN p,
           NEW r, r = SubSeq(p, 1, k - 1)
    PROVE  /\ p \in Routes /\ p[k] \in Edges /\ r \in Routes /\ Len(r) = k - 1 /\ DOMAIN r = 1..(k - 1)
           /\ Append(r, p[k]) = SubSeq(p, 1, k)
           /\ PassableOn(edge, p[k]) /\ Edge(p[k]).from = Visits(p, Source)[k]
           /\ Edge(p[k]).to \notin {Source} \cup {Edge(r[i]).to : i \in DOMAIN r}
           /\ Saturate(RouteCost(r) + planner.cost[p[k]]) <= Policy.max_path_cost
           /\ Edge(p[k]).to = Target <=> k = Len(p)
<1>1. PlannerSet /\ Built(request) /\ Policy.max_path_cost \in Nat
    BY SetupFacts
<1>2. Source = From(edge).node /\ Target = Upto(edge).node
    BY <1>1, EndsHere
<1>3. PICK v : v = Visits(p, Source)
    OBVIOUS
<1>4. /\ p \in Routes
      /\ \A i \in DOMAIN p : Edge(p[i]).from = v[i] /\ PassableOn(edge, p[i])
      /\ v[Len(p) + 1] = Target /\ RouteCost(p) <= Policy.max_path_cost
      /\ IsInjective(v)
    BY <1>2, <1>3 DEF GoodRoutes, Good, Track
<1>5. PICK n \in Nat : n = Len(p) /\ DOMAIN p = 1..n
    BY <1>4, RoutePositions
<1>6. k \in 1..n /\ p[k] \in Edges /\ k - 1 \in 0..n /\ k \in 0..n
    <2>1. p[k] \in Edges
        BY <1>4, RoutePositions
    <2>2. QED
        BY <1>5, <2>1
<1>7. /\ r \in Routes /\ Len(r) = k - 1 /\ DOMAIN r = 1..(k - 1)
      /\ \A i \in 1..(k - 1) : r[i] = p[i]
    BY <1>1, <1>4, <1>5, <1>6, PrefixOfRoute
<1>8. DOMAIN v = 1..(n + 1) /\ v[1] = Source /\ \A i \in 1..n : v[i + 1] = Edge(p[i]).to
    <2>1. p \in Routes
        BY <1>4
    <2>2. /\ DOMAIN Visits(p, Source) = 1..(Len(p) + 1) /\ Visits(p, Source)[1] = Source
          /\ \A i \in DOMAIN p : Visits(p, Source)[i + 1] = Edge(p[i]).to
        BY <2>1, VisitsIs
    <2>3. QED
        BY <1>3, <1>5, <2>2
<1>9. \A i, j \in 1..(n + 1) : v[i] = v[j] => i = j
    BY <1>4, <1>8 DEF IsInjective
<1>10. Edge(p[k]).to = v[k + 1] /\ k + 1 \in 1..(n + 1)
    BY <1>6, <1>8
<1>11. Edge(p[k]).to # Source
    BY <1>6, <1>8, <1>9, <1>10
<1>12. ASSUME NEW i \in 1..(k - 1) PROVE Edge(p[k]).to # Edge(r[i]).to
    <2>1. i \in 1..n /\ i + 1 \in 1..(n + 1) /\ i + 1 # k + 1 /\ r[i] = p[i]
        BY <1>6, <1>7
    <2>2. QED
        BY <1>8, <1>9, <1>10, <2>1
<1>13. Edge(p[k]).to = Target <=> k = Len(p)
    <2>1. n + 1 \in 1..(n + 1)
        OBVIOUS
    <2>2. QED
        BY <1>4, <1>5, <1>6, <1>9, <1>10, <2>1
<1>14. PICK q : q = SubSeq(p, 1, k)
    OBVIOUS
<1>15. q \in Routes /\ RouteCost(q) <= RouteCost(p)
    BY <1>1, <1>4, <1>5, <1>6, <1>14, PrefixOfRoute
<1>16. q = Append(r, p[k])
    <2>1. PICK m \in Nat : k = m + 1
        BY <1>6
    <2>2. m + 1 <= Len(p) /\ p \in Seq(Edges) /\ k - 1 = m
        BY <1>4, <1>5, <1>6, <2>1 DEF Routes
    <2>3. SubSeq(p, 1, m + 1) = Append(SubSeq(p, 1, m), p[m + 1])
        BY <2>2, PrefixGrows
    <2>4. QED
        BY <1>14, <2>1, <2>2, <2>3
<1>17. RouteCost(q) = Saturate(RouteCost(r) + planner.cost[p[k]])
    BY <1>1, <1>6, <1>7, <1>16, CostAppend
<1>18. Saturate(RouteCost(r) + planner.cost[p[k]]) <= Policy.max_path_cost
    <2>1. RouteCost(q) \in Nat /\ RouteCost(p) \in Nat
        BY <1>1, <1>4, <1>15, RouteCostType
    <2>2. QED
        BY <1>1, <1>4, <1>15, <1>17, <2>1
<1>19. QED
    BY <1>3, <1>4, <1>6, <1>7, <1>11, <1>12, <1>13, <1>14, <1>16, <1>18

\* A route of the running sweep that is still to be found: the walk has come along
\* its first edges and will come to the next one.
Pending(w, p) ==
    \E k \in DOMAIN w.stack : \E j \in 1..Len(out_edges(w.stack[k].node)) :
        /\ k \in DOMAIN p /\ SubSeq(p, 1, k - 1) = SubSeq(w.route, 1, k - 1)
        /\ w.stack[k].at <= j /\ p[k] = out_edges(w.stack[k].node)[j]

\* The walk is about to cross an edge of the route from the top of its stack.
Crossing(w, p) ==
    LET k == Len(w.stack)
        t == w.stack[k]
    IN /\ k \in DOMAIN p /\ SubSeq(p, 1, k - 1) = w.route
       /\ t.at <= Len(out_edges(t.node)) /\ p[k] = out_edges(t.node)[t.at]

\* Leaving a node whose edges are done leaves what is pending elsewhere.
LEMMA PendingReturned ==
    ASSUME SetupOk, NEW w, Walks(w), w.stack # <<>>,
           Last(w.stack).at > Len(out_edges(Last(w.stack).node)), NEW p, Pending(w, p)
    PROVE  Pending(Returned(w), p)
<1>1. /\ w.stack \in Seq(Frames) /\ w.route \in Routes /\ Len(w.stack) = Len(w.route) + 1
      /\ Len(w.route) \in Nat /\ DOMAIN w.stack = 1..Len(w.stack) /\ Len(w.stack) \in Nat
      /\ DOMAIN w = {"limit", "stack", "route", "paths", "steps", "exhaustive"}
    BY WalkShape DEF Walks
<1>2. PICK d \in Nat : d = Len(w.stack)
    BY <1>1
<1>3. /\ d # 0 /\ Front(w.stack) \in Seq(Frames) /\ DOMAIN Front(w.stack) = 1..(d - 1)
      /\ (\A i \in 1..(d - 1) : Front(w.stack)[i] = w.stack[i]) /\ Last(w.stack) = w.stack[d]
      /\ w.stack[d] \in Frames
    BY <1>1, <1>2, FrontIs
<1>0. PICK k \in DOMAIN w.stack : \E j \in 1..Len(out_edges(w.stack[k].node)) :
          /\ k \in DOMAIN p /\ SubSeq(p, 1, k - 1) = SubSeq(w.route, 1, k - 1)
          /\ w.stack[k].at <= j /\ p[k] = out_edges(w.stack[k].node)[j]
    BY DEF Pending
<1>4. PICK j \in 1..Len(out_edges(w.stack[k].node)) :
          /\ k \in DOMAIN p /\ SubSeq(p, 1, k - 1) = SubSeq(w.route, 1, k - 1)
          /\ w.stack[k].at <= j /\ p[k] = out_edges(w.stack[k].node)[j]
    BY <1>0
<1>5. k # d
    <2>1. SUFFICES ASSUME k = d PROVE FALSE
        OBVIOUS
    <2>2. Len(out_edges(w.stack[d].node)) \in Nat /\ w.stack[d].at \in Nat
        BY <1>3, OutEdgesAre DEF Frames
    <2>3. QED
        BY <1>3, <1>4, <2>1, <2>2
<1>6. k \in 1..(d - 1)
    BY <1>1, <1>2, <1>4, <1>5
<1>7. PICK v : v = Returned(w)
    OBVIOUS
<1>8. v.stack = Front(w.stack) /\ v.route = Front(w.route)
    <2>1. w.route # <<>>
        <3>1. Len(w.route) # 0
            BY <1>1, <1>2, <1>6
        <3>2. QED
            BY <3>1
    <2>2. QED
        BY <1>1, <1>7, <2>1 DEF Returned
<1>9. v.stack[k] = w.stack[k] /\ k \in DOMAIN v.stack
    BY <1>3, <1>6, <1>8
<1>10. SubSeq(v.route, 1, k - 1) = SubSeq(w.route, 1, k - 1)
    <2>1. w.route \in Seq(Edges) /\ w.route # <<>> /\ Len(w.route) = d - 1
        <3>1. Len(w.route) = d - 1 /\ d - 1 # 0
            BY <1>1, <1>2, <1>6
        <3>2. QED
            BY <1>1, <3>1 DEF Routes
    <2>2. v.route \in Seq(Edges) /\ Len(v.route) = d - 1 - 1 /\ \A i \in 1..(d - 1 - 1) : v.route[i] = w.route[i]
        BY <1>8, <2>1, FrontIs
    <2>3. k - 1 \in Nat /\ k - 1 <= Len(v.route) /\ k - 1 <= Len(w.route)
          /\ \A i \in 1..(k - 1) : v.route[i] = w.route[i]
        <3>1. \A i \in 1..(k - 1) : i \in 1..(d - 1 - 1)
            BY <1>6
        <3>2. QED
            BY <1>6, <2>1, <2>2, <3>1
    <2>4. QED
        BY <2>1, <2>2, <2>3, SamePrefix
<1>11. QED
    BY <1>4, <1>7, <1>9, <1>10 DEF Pending

\* The walk moves past one edge: the route is still to be found, or this was its edge.
LEMMA PendingAdvanced ==
    ASSUME SetupOk, NEW w, Walks(w), w.stack # <<>>, NEW p, Pending(w, p)
    PROVE  Pending(Advanced(w), p) \/ Crossing(w, p)
<1>1. /\ w.stack \in Seq(Frames) /\ w.route \in Routes /\ Len(w.stack) = Len(w.route) + 1
      /\ Len(w.route) \in Nat /\ DOMAIN w.stack = 1..Len(w.stack) /\ Len(w.stack) \in Nat
      /\ DOMAIN w = {"limit", "stack", "route", "paths", "steps", "exhaustive"}
    BY WalkShape DEF Walks
<1>2. PICK d \in Nat : d = Len(w.stack)
    BY <1>1
<1>3. d \in 1..d /\ w.stack[d] \in Frames
    BY <1>1, <1>2
<1>4. PICK k \in DOMAIN w.stack : \E j \in 1..Len(out_edges(w.stack[k].node)) :
          /\ k \in DOMAIN p /\ SubSeq(p, 1, k - 1) = SubSeq(w.route, 1, k - 1)
          /\ w.stack[k].at <= j /\ p[k] = out_edges(w.stack[k].node)[j]
    BY DEF Pending
<1>5. PICK j \in 1..Len(out_edges(w.stack[k].node)) :
          /\ k \in DOMAIN p /\ SubSeq(p, 1, k - 1) = SubSeq(w.route, 1, k - 1)
          /\ w.stack[k].at <= j /\ p[k] = out_edges(w.stack[k].node)[j]
    BY <1>4
<1>6. PICK v : v = Advanced(w)
    OBVIOUS
<1>7. v.route = w.route
    BY <1>1, <1>6 DEF Advanced
<1>8. v.stack = [w.stack EXCEPT ![d].at = @ + 1]
    BY <1>1, <1>2, <1>6 DEF Advanced
<1>9. DOMAIN v.stack = DOMAIN w.stack
    BY <1>8
<1>10. CASE k # d
    <2>1. v.stack[k] = w.stack[k]
        BY <1>8, <1>10
    <2>2. QED
        BY <1>5, <1>6, <1>7, <1>9, <2>1 DEF Pending
<1>11. CASE k = d
    <2>1. v.stack[d].node = w.stack[d].node /\ v.stack[d].at = w.stack[d].at + 1
        BY <1>1, <1>2, <1>3, <1>8 DEF Frames
    <2>2. w.stack[d].at \in Nat /\ Len(out_edges(w.stack[d].node)) \in Nat
        BY <1>3, OutEdgesAre DEF Frames
    <2>3. CASE w.stack[d].at = j
        <3>1. SubSeq(w.route, 1, d - 1) = w.route
            <4>1. Len(w.route) = d - 1 /\ w.route \in Seq(Edges)
                BY <1>1, <1>2 DEF Routes
            <4>2. d - 1 \in Nat /\ d - 1 <= Len(w.route)
                BY <1>3, <4>1
            <4>3. PICK u : u = SubSeq(w.route, 1, d - 1)
                OBVIOUS
            <4>4. u \in Seq(Edges) /\ Len(u) = d - 1 /\ \A i \in 1..(d - 1) : u[i] = w.route[i]
                BY <4>1, <4>2, <4>3, PrefixIs
            <4>5. u = w.route
                BY <4>1, <4>4, SeqEqual
            <4>6. QED
                BY <4>3, <4>5
        <3>2. QED
            BY <1>2, <1>5, <1>11, <2>2, <2>3, <3>1 DEF Crossing
    <2>4. CASE w.stack[d].at # j
        <3>1. v.stack[d].at <= j /\ j \in 1..Len(out_edges(v.stack[d].node))
            BY <1>5, <1>11, <2>1, <2>2, <2>4
        <3>2. QED
            BY <1>5, <1>6, <1>7, <1>9, <1>11, <2>1, <3>1 DEF Pending
    <2>5. QED
        BY <2>3, <2>4
<1>12. QED
    BY <1>10, <1>11

\* What is still to be found stays so when the walk goes one node deeper, ...
LEMMA PendingDeeper ==
    ASSUME SetupOk, NEW w, Walks(w), w.stack # <<>>, NEW p, Pending(w, p), NEW e \in Edges,
           NEW f \in Frames, NEW u, u = [w EXCEPT !.stack = Append(@, f), !.route = Append(@, e)]
    PROVE  Pending(u, p)
<1>1. /\ w.stack \in Seq(Frames) /\ w.route \in Seq(Edges) /\ Len(w.stack) = Len(w.route) + 1
      /\ Len(w.route) \in Nat /\ DOMAIN w.stack = 1..Len(w.stack) /\ Len(w.stack) \in Nat
      /\ DOMAIN w = {"limit", "stack", "route", "paths", "steps", "exhaustive"}
    BY WalkShape DEF Walks, Routes
<1>2. PICK k \in DOMAIN w.stack : \E j \in 1..Len(out_edges(w.stack[k].node)) :
          /\ k \in DOMAIN p /\ SubSeq(p, 1, k - 1) = SubSeq(w.route, 1, k - 1)
          /\ w.stack[k].at <= j /\ p[k] = out_edges(w.stack[k].node)[j]
    BY DEF Pending
<1>3. u.stack = Append(w.stack, f) /\ u.route = Append(w.route, e)
    BY <1>1
<1>4. DOMAIN u.stack = 1..(Len(w.stack) + 1) /\ \A i \in DOMAIN w.stack : u.stack[i] = w.stack[i]
    BY <1>1, <1>3, AppendIs
<1>5. k \in DOMAIN u.stack /\ u.stack[k] = w.stack[k]
    BY <1>1, <1>4
<1>6. SubSeq(u.route, 1, k - 1) = SubSeq(w.route, 1, k - 1)
    <2>1. u.route \in Seq(Edges) /\ Len(u.route) = Len(w.route) + 1
          /\ \A i \in DOMAIN w.route : u.route[i] = w.route[i]
        BY <1>1, <1>3, AppendIs
    <2>2. DOMAIN w.route = 1..Len(w.route)
        BY <1>1, LenProperties
    <2>3. k - 1 \in Nat /\ k - 1 <= Len(w.route) /\ k - 1 <= Len(u.route)
        BY <1>1, <2>1
    <2>4. \A i \in 1..(k - 1) : u.route[i] = w.route[i]
        BY <2>1, <2>2, <2>3
    <2>5. QED
        BY <1>1, <2>1, <2>3, <2>4, SamePrefix
<1>7. QED
    BY <1>2, <1>5, <1>6 DEF Pending

\* ... where the rest of a route it is about to cross an edge of is to be found.
LEMMA CrossingDeeper ==
    ASSUME SetupOk, BoundEnds(edge), NEW w, Walks(w), w.stack # <<>>, NEW p \in GoodRoutes(edge),
           NEW d \in Nat, d = Len(w.stack), d \in DOMAIN p, d # Len(p),
           SubSeq(p, 1, d - 1) = w.route, NEW e, e = p[d],
           NEW c, NEW f, f = [node |-> Edge(e).to, at |-> 1, cost |-> c],
           NEW u, u = [w EXCEPT !.stack = Append(@, f), !.route = Append(@, e)],
           c \in Nat
    PROVE  Pending(u, p)
<1>1. /\ w.stack \in Seq(Frames) /\ w.route \in Seq(Edges) /\ Len(w.stack) = Len(w.route) + 1
      /\ Len(w.route) \in Nat /\ DOMAIN w.stack = 1..Len(w.stack) /\ Len(w.stack) \in Nat
      /\ DOMAIN w = {"limit", "stack", "route", "paths", "steps", "exhaustive"}
    BY WalkShape DEF Walks, Routes
<1>2. p \in Routes /\ e \in Edges /\ Append(w.route, e) = SubSeq(p, 1, d)
    <2>1. p \in Routes /\ p[d] \in Edges
        <3>1. p \in Routes
            BY DEF GoodRoutes
        <3>2. QED
            BY <3>1, RoutePositions
    <2>2. PICK m \in Nat : d = m + 1
        <3>1. d # 0
            BY <1>1
        <3>2. d - 1 \in Nat /\ d = (d - 1) + 1
            BY <3>1
        <3>3. QED
            BY <3>2
    <2>3. p \in Seq(Edges) /\ m + 1 <= Len(p)
        <3>1. p \in Seq(Edges)
            BY <2>1 DEF Routes
        <3>2. Len(p) \in Nat /\ DOMAIN p = 1..Len(p)
            BY <2>1, RoutePositions
        <3>3. QED
            BY <2>2, <3>1, <3>2
    <2>4. SubSeq(p, 1, m + 1) = Append(SubSeq(p, 1, m), p[m + 1])
        BY <2>3, PrefixGrows
    <2>5. SubSeq(p, 1, d) = Append(SubSeq(p, 1, d - 1), p[d])
        <3>1. d - 1 = m
            BY <2>2
        <3>2. QED
            BY <2>2, <2>4, <3>1
    <2>6. QED
        BY <2>1, <2>5
<1>3. Len(p) \in Nat /\ DOMAIN p = 1..Len(p) /\ d + 1 \in DOMAIN p
    <2>1. Len(p) \in Nat /\ DOMAIN p = 1..Len(p)
        BY <1>2, RoutePositions
    <2>2. QED
        BY <2>1
<1>4. Edge(e) \in FabricEdges
    BY <1>2, SetupFacts
<1>5. f \in Frames
    BY <1>4 DEF Frames, FabricEdges
<1>6. u.stack = Append(w.stack, f) /\ u.route = Append(w.route, e)
    BY <1>1
<1>7. DOMAIN u.stack = 1..(d + 1) /\ u.stack[d + 1] = f
    BY <1>1, <1>5, <1>6, AppendIs
<1>8. p[d + 1] \in Edges /\ Edge(p[d + 1]).from = Visits(p, Source)[d + 1]
    BY <1>3, HopOfGood
<1>9. Visits(p, Source)[d + 1] = Edge(e).to
    BY <1>2, VisitsIs
<1>10. PICK j \in 1..Len(out_edges(f.node)) : out_edges(f.node)[j] = p[d + 1]
    BY <1>8, <1>9, OutEdgesAll
<1>11. f.at <= j
    <2>1. Len(out_edges(f.node)) \in Nat
        BY OutEdgesAre
    <2>2. QED
        BY <2>1
<1>12. SubSeq(u.route, 1, d + 1 - 1) = SubSeq(p, 1, d + 1 - 1)
    <2>1. d + 1 - 1 = d
        OBVIOUS
    <2>2. Len(u.route) = d /\ u.route \in Seq(Edges)
        BY <1>1, <1>2, <1>6, AppendIs
    <2>3. SubSeq(u.route, 1, d) = u.route
        <3>1. PICK x : x = SubSeq(u.route, 1, d)
            OBVIOUS
        <3>2. x \in Seq(Edges) /\ Len(x) = d /\ \A i \in 1..d : x[i] = u.route[i]
            <4>1. d <= Len(u.route)
                BY <2>2
            <4>2. QED
                BY <2>2, <3>1, <4>1, PrefixIs
        <3>3. x = u.route
            BY <2>2, <3>2, SeqEqual
        <3>4. QED
            BY <3>1, <3>3
    <2>4. QED
        BY <1>2, <1>6, <2>1, <2>3
<1>13. d + 1 \in DOMAIN u.stack
    BY <1>7
<1>14. PICK k \in DOMAIN u.stack : k = d + 1
    BY <1>13
<1>15. /\ k \in DOMAIN p /\ SubSeq(p, 1, k - 1) = SubSeq(u.route, 1, k - 1) /\ u.stack[k] = f
       /\ p[k] = out_edges(f.node)[j]
    BY <1>3, <1>7, <1>10, <1>12, <1>14
<1>16. j \in 1..Len(out_edges(u.stack[k].node)) /\ u.stack[k].at <= j /\ p[k] = out_edges(u.stack[k].node)[j]
    BY <1>10, <1>11, <1>15
<1>17. QED
    BY <1>15, <1>16 DEF Pending

\* The walk is about to cross an edge of a good route: nothing keeps it from doing so.
LEMMA CrossingEnters ==
    ASSUME SetupOk, BoundEnds(edge), blocks = NoBlocks, NEW w, Walks(w), w.stack # <<>>,
           NEW p \in GoodRoutes(edge), Len(p) = w.limit, Crossing(w, p),
           NEW t, t = Last(w.stack), NEW e, e = out_edges(t.node)[t.at]
    PROVE  /\ hop_usable(e)
           /\ Edge(e).to \notin {Source} \cup {Edge(w.route[i]).to : i \in DOMAIN w.route}
           /\ Saturate(t.cost + planner.cost[e]) <= Policy.max_path_cost
           /\ Edge(e).to = Target => w.limit - Len(w.route) = 1 /\ p = Append(w.route, e)
           /\ Edge(e).to # Target => w.limit - Len(w.route) > 1
           /\ Len(w.stack) \in DOMAIN p /\ p[Len(w.stack)] = e
           /\ SubSeq(p, 1, Len(w.stack) - 1) = w.route
           /\ Edge(e).to # Target => Len(w.stack) # Len(p)
<1>1. /\ w.stack \in Seq(Frames) /\ w.route \in Routes /\ Len(w.stack) = Len(w.route) + 1
      /\ Len(w.route) \in Nat /\ Len(w.stack) \in Nat
    BY WalkShape DEF Walks
<1>2. PICK d \in Nat : d = Len(w.stack)
    BY <1>1
<1>3. w.stack[d] = t /\ d # 0
    BY <1>1, <1>2, FrontIs
<1>4. d \in DOMAIN p /\ SubSeq(p, 1, d - 1) = w.route /\ p[d] = e
    BY <1>2, <1>3 DEF Crossing
<1>5. PICK r : r = SubSeq(p, 1, d - 1)
    OBVIOUS
<1>6. r = w.route
    BY <1>4, <1>5
<1>7. /\ p \in Routes /\ p[d] \in Edges
      /\ PassableOn(edge, p[d])
      /\ Edge(p[d]).to \notin {Source} \cup {Edge(r[i]).to : i \in DOMAIN r}
      /\ Saturate(RouteCost(r) + planner.cost[p[d]]) <= Policy.max_path_cost
      /\ (Edge(p[d]).to = Target <=> d = Len(p))
    <2>1. PICK k \in DOMAIN p : k = d
        BY <1>4
    <2>2. r = SubSeq(p, 1, k - 1)
        BY <1>5, <2>1
    <2>3. /\ p \in Routes /\ p[k] \in Edges
          /\ PassableOn(edge, p[k])
          /\ Edge(p[k]).to \notin {Source} \cup {Edge(r[i]).to : i \in DOMAIN r}
          /\ Saturate(RouteCost(r) + planner.cost[p[k]]) <= Policy.max_path_cost
          /\ (Edge(p[k]).to = Target <=> k = Len(p))
        <3>1. p[k] \in Edges
            BY <2>2, HopOfGood
        <3>2. PassableOn(edge, p[k])
            BY <2>2, HopOfGood
        <3>3. Edge(p[k]).to \notin {Source} \cup {Edge(r[i]).to : i \in DOMAIN r}
            BY <2>2, HopOfGood
        <3>4. Saturate(RouteCost(r) + planner.cost[p[k]]) <= Policy.max_path_cost
            BY <2>2, HopOfGood
        <3>5. (Edge(p[k]).to = Target <=> k = Len(p))
            BY <2>2, HopOfGood
        <3>6. p \in Routes
            BY <2>2, HopOfGood
        <3>7. QED
            BY <3>1, <3>2, <3>3, <3>4, <3>5, <3>6
    <2>4. QED
        BY <2>1, <2>3
<1>8. hop_usable(e)
    <2>1. Passable(e)
        BY <1>4, <1>7, EndsHere, SetupFacts
    <2>2. QED
        BY <2>1 DEF hop_usable, NoBlocks
<1>9. Edge(e).to \notin {Source} \cup {Edge(w.route[i]).to : i \in DOMAIN w.route}
    BY <1>4, <1>6, <1>7
<1>10. t.cost = RouteCost(w.route)
    BY TopIs
<1>11. Saturate(t.cost + planner.cost[e]) <= Policy.max_path_cost
    BY <1>4, <1>6, <1>7, <1>10
<1>12. Len(p) \in Nat /\ DOMAIN p = 1..Len(p)
    BY <1>7, RoutePositions
<1>13. d <= Len(p) /\ (Edge(e).to = Target <=> d = Len(p))
    BY <1>4, <1>7, <1>12
<1>14. Edge(e).to = Target => p = Append(w.route, e)
    <2>1. SUFFICES ASSUME d = Len(p) PROVE p = Append(w.route, e)
        BY <1>13
    <2>2. p \in Seq(Edges)
        BY <1>7 DEF Routes
    <2>3. PICK m \in Nat : d = m + 1
        <3>1. d - 1 \in Nat /\ d = (d - 1) + 1
            BY <1>3
        <3>2. QED
            BY <3>1
    <2>4. SubSeq(p, 1, m + 1) = Append(SubSeq(p, 1, m), p[m + 1])
        BY <2>1, <2>2, <2>3, PrefixGrows
    <2>5. m = d - 1
        BY <2>3
    <2>6. PICK q : q = SubSeq(p, 1, d)
        OBVIOUS
    <2>7. q = Append(w.route, e)
        BY <1>4, <2>3, <2>4, <2>5, <2>6
    <2>8. q \in Seq(Edges) /\ Len(q) = d /\ \A i \in 1..d : q[i] = p[i]
        BY <1>13, <2>2, <2>6, PrefixIs
    <2>9. q = p
        BY <2>1, <2>2, <2>8, SeqEqual
    <2>10. QED
        BY <2>7, <2>9
<1>15. Edge(e).to = Target => w.limit - Len(w.route) = 1
    BY <1>1, <1>2, <1>12, <1>13
<1>16. Edge(e).to # Target => w.limit - Len(w.route) > 1 /\ Len(w.stack) # Len(p)
    BY <1>1, <1>2, <1>12, <1>13
<1>17. QED
    BY <1>2, <1>4, <1>8, <1>9, <1>11, <1>14, <1>15, <1>16

\* What is still to be found depends on the request and the walk alone.
OutEdgesIn(r, n) == Ordered({e \in DOMAIN r.fabric.edges : r.fabric.edges[e].from = n}, <)
PendingIn(r, w, p) ==
    \E k \in DOMAIN w.stack : \E j \in 1..Len(OutEdgesIn(r, w.stack[k].node)) :
        /\ k \in DOMAIN p /\ SubSeq(p, 1, k - 1) = SubSeq(w.route, 1, k - 1)
        /\ w.stack[k].at <= j /\ p[k] = OutEdgesIn(r, w.stack[k].node)[j]

\* The same, in the terms of the enumeration.
LEMMA PendingIs == \A w, p : PendingIn(request, w, p) <=> Pending(w, p)
<1>1. \A n : out_edges(n) = OutEdgesIn(request, n)
    BY DEF out_edges, OutEdgesIn, Edges, Edge
<1>2. QED
    BY <1>1 DEF Pending, PendingIn

\* What the sweeps so far, and the running one, have found or will come to find.
Bounded(w, n) ==
    \/ w.steps >= limits.max_enumeration_steps
    \/ Len(w.paths) > limits.max_exhaustive_paths
    \/ n >= limits.max_total_enumeration_steps
Swept(w) == \A p \in GoodRoutes(edge) : Len(p) < w.limit => p \in ToSet(w.paths)
Awaited(w) == \A p \in GoodRoutes(edge) : Len(p) = w.limit => p \in ToSet(w.paths) \/ PendingIn(request, w, p)
Separate == From(edge).node # Upto(edge).node

\* Nothing that is to be found is lost on the way back from a node with no edge left.
LEMMA ReturnedAwaits ==
    ASSUME SetupOk, NEW w, Walks(w), w.stack # <<>>,
           Last(w.stack).at > Len(out_edges(Last(w.stack).node)), Swept(w), Awaited(w),
           NEW u, u = Returned(w)
    PROVE  Swept(u) /\ Awaited(u)
<1>1. DOMAIN w = {"limit", "stack", "route", "paths", "steps", "exhaustive"}
    BY WalkShape
<1>2. u.limit = w.limit /\ u.paths = w.paths
    BY <1>1 DEF Returned
<1>3. \A p : Pending(w, p) => Pending(u, p)
    BY PendingReturned
<1>4. QED
    BY <1>2, <1>3, PendingIs DEF Swept, Awaited

\* The edge on top is taken: ...
LEMMA AdvancedParts ==
    ASSUME SetupOk, NEW w, Walks(w), w.stack # <<>>, NEW v, v = Advanced(w)
    PROVE  /\ Walks(v) /\ v.stack # <<>> /\ v.route = w.route /\ v.paths = w.paths
           /\ v.limit = w.limit /\ Len(v.stack) = Len(w.stack)
           /\ DOMAIN v = {"limit", "stack", "route", "paths", "steps", "exhaustive"}
<1>1. DOMAIN w = {"limit", "stack", "route", "paths", "steps", "exhaustive"}
    BY WalkShape
<1>2. DOMAIN v = DOMAIN w /\ v.limit = w.limit
    BY <1>1 DEF Advanced
<1>3. QED
    BY <1>1, <1>2, AdvancedWalks

\* ... a route it does not lead on is still to be found, ...
LEMMA RefusedAwaits ==
    ASSUME SetupOk, BoundEnds(edge), blocks = NoBlocks, NEW w, Walks(w), w.stack # <<>>,
           Swept(w), Awaited(w), NEW t, t = Last(w.stack), NEW e, e = out_edges(t.node)[t.at],
           \/ ~hop_usable(e)
           \/ Edge(e).to \in {Source} \cup {Edge(w.route[i]).to : i \in DOMAIN w.route}
           \/ ~(Saturate(t.cost + planner.cost[e]) <= Policy.max_path_cost)
           \/ Edge(e).to = Target /\ w.limit - Len(w.route) > 1
           \/ Edge(e).to # Target /\ w.limit - Len(w.route) = 1,
           NEW u, u = Advanced(w)
    PROVE  Swept(u) /\ Awaited(u)
<1>1. u.limit = w.limit /\ u.paths = w.paths
    BY AdvancedParts
<1>2. ASSUME NEW p \in GoodRoutes(edge), Len(p) = w.limit, Pending(w, p) PROVE Pending(u, p)
    <2>1. SUFFICES ASSUME Crossing(w, p) PROVE FALSE
        BY <1>2, PendingAdvanced
    <2>2. /\ hop_usable(e)
          /\ Edge(e).to \notin {Source} \cup {Edge(w.route[i]).to : i \in DOMAIN w.route}
          /\ Saturate(t.cost + planner.cost[e]) <= Policy.max_path_cost
          /\ Edge(e).to = Target => w.limit - Len(w.route) = 1
          /\ Edge(e).to # Target => w.limit - Len(w.route) > 1
        BY <1>2, <2>1, CrossingEnters
    <2>3. QED
        BY <2>2
<1>3. QED
    BY <1>1, <1>2, PendingIs DEF Swept, Awaited

\* ... one whose last edge it is has been found, ...
LEMMA FoundAwaits ==
    ASSUME SetupOk, BoundEnds(edge), blocks = NoBlocks, NEW w, Walks(w), w.stack # <<>>,
           Swept(w), Awaited(w), NEW t, t = Last(w.stack), NEW e \in Edges, e = out_edges(t.node)[t.at],
           Edge(e).to = Target, NEW v, v = Advanced(w),
           NEW p, p = Append(w.route, e),
           NEW u, u = [v EXCEPT !.paths = Append(@, p)]
    PROVE  Swept(u) /\ Awaited(u)
<1>1. /\ v.limit = w.limit /\ v.paths = w.paths /\ v.route = w.route
      /\ DOMAIN v = {"limit", "stack", "route", "paths", "steps", "exhaustive"}
    BY AdvancedParts
<1>2. u.limit = w.limit /\ u.stack = v.stack /\ u.route = v.route /\ u.paths = Append(w.paths, p)
    BY <1>1
<1>3. w.paths \in Seq(Routes) /\ w.route \in Routes
    BY WalkShape
<1>4. p \in Routes
    BY <1>3, CostAppend, SetupFacts
<1>5. ToSet(w.paths) \subseteq ToSet(u.paths) /\ p \in ToSet(u.paths)
    <2>1. /\ DOMAIN u.paths = 1..(Len(w.paths) + 1) /\ Len(w.paths) \in Nat /\ DOMAIN w.paths = 1..Len(w.paths)
          /\ \A i \in DOMAIN w.paths : u.paths[i] = w.paths[i]
          /\ u.paths[Len(w.paths) + 1] = p
        BY <1>2, <1>3, <1>4, AppendIs, LenProperties
    <2>2. DOMAIN w.paths \subseteq DOMAIN u.paths /\ Len(w.paths) + 1 \in DOMAIN u.paths
        BY <2>1
    <2>3. QED
        BY <2>1, <2>2 DEF ToSet
<1>6. ASSUME NEW q, Pending(v, q) PROVE Pending(u, q)
    <2>1. PICK k \in DOMAIN v.stack : \E j \in 1..Len(out_edges(v.stack[k].node)) :
              /\ k \in DOMAIN q /\ SubSeq(q, 1, k - 1) = SubSeq(v.route, 1, k - 1)
              /\ v.stack[k].at <= j /\ q[k] = out_edges(v.stack[k].node)[j]
        BY <1>6 DEF Pending
    <2>2. QED
        BY <1>2, <2>1 DEF Pending
<1>7. ASSUME NEW q \in GoodRoutes(edge), Len(q) = w.limit, Pending(w, q)
      PROVE  q \in ToSet(u.paths) \/ Pending(u, q)
    <2>1. CASE Pending(v, q)
        BY <1>6, <2>1
    <2>2. CASE Crossing(w, q)
        <3>1. q = p
            BY <1>7, <2>2, CrossingEnters
        <3>2. QED
            BY <1>5, <3>1
    <2>3. QED
        BY <1>7, <2>1, <2>2, PendingAdvanced
<1>8. QED
    BY <1>2, <1>5, <1>7, PendingIs DEF Swept, Awaited

\* ... and the others it leads on are to be found behind it.
LEMMA DeeperAwaits ==
    ASSUME SetupOk, BoundEnds(edge), blocks = NoBlocks, NEW w, Walks(w), w.stack # <<>>,
           Swept(w), Awaited(w), NEW t, t = Last(w.stack), NEW e \in Edges, e = out_edges(t.node)[t.at],
           Edge(e).to # Target, NEW c \in Nat, NEW f, f = [node |-> Edge(e).to, at |-> 1, cost |-> c],
           NEW v, v = Advanced(w),
           NEW u, u = [v EXCEPT !.stack = Append(@, f), !.route = Append(@, e)]
    PROVE  Swept(u) /\ Awaited(u)
<1>1. /\ v.limit = w.limit /\ v.paths = w.paths /\ v.route = w.route /\ Walks(v) /\ v.stack # <<>>
      /\ Len(v.stack) = Len(w.stack) /\ Len(w.stack) \in Nat
      /\ DOMAIN v = {"limit", "stack", "route", "paths", "steps", "exhaustive"}
    BY AdvancedParts, WalkShape
<1>2. u.limit = w.limit /\ u.paths = w.paths
    BY <1>1
<1>3. f \in Frames
    <2>1. Edge(e) \in FabricEdges
        BY SetupFacts
    <2>2. QED
        BY <2>1 DEF Frames, FabricEdges
<1>4. ASSUME NEW q \in GoodRoutes(edge), Len(q) = w.limit, Pending(w, q)
      PROVE  Pending(u, q)
    <2>1. CASE Pending(v, q)
        BY <1>1, <1>3, <2>1, PendingDeeper
    <2>2. CASE Crossing(w, q)
        <3>1. PICK d \in Nat : d = Len(v.stack)
            BY <1>1
        <3>2. d \in DOMAIN q /\ d # Len(q) /\ e = q[d] /\ SubSeq(q, 1, d - 1) = v.route
            <4>1. /\ Len(w.stack) \in DOMAIN q /\ q[Len(w.stack)] = e
                  /\ SubSeq(q, 1, Len(w.stack) - 1) = w.route
                  /\ Len(w.stack) # Len(q)
                BY <1>4, <2>2, CrossingEnters
            <4>2. QED
                BY <1>1, <3>1, <4>1
        <3>3. QED
            BY <1>1, <3>1, <3>2, CrossingDeeper
    <2>3. QED
        BY <1>4, <2>1, <2>2, PendingAdvanced
<1>5. QED
    BY <1>2, <1>4, PendingIs DEF Swept, Awaited

\* The enumeration covers the good routes: up to the running sweep they are found,
\* those of the running sweep are found or still to be found, and after an enumeration
\* that calls itself exhaustive the pool holds them all.
CoverageFits(at, w, b, n, q) ==
    /\ at \in {"sweep", "walk"} =>
          /\ b = NoBlocks
          /\ Separate /\ ~Bounded(w, n) => Swept(w) /\ (at = "walk" => Awaited(w))
    /\ at \in {"sets", "certify"} /\ w.exhaustive /\ Separate => GoodRoutes(edge) \subseteq ToSet(q)

Covers == CoverageFits(pc, walk, blocks, enumerated, pool)

\* What is covered depends on the request and the limits alone.
LEMMA CoverageKept ==
    ASSUME request' = request, planner' = planner, limits' = limits, edge' = edge
    PROVE  \A at, w, b, n, q : CoverageFits(at, w, b, n, q)' <=> CoverageFits(at, w, b, n, q)
<1>1. /\ From(edge)' = From(edge) /\ Upto(edge)' = Upto(edge)
      /\ GoodRoutes(edge)' = GoodRoutes(edge)
    BY TracksKept
<1>3. \A w, p : PendingIn(request', w, p) <=> PendingIn(request, w, p)
    OBVIOUS
<1>4. Separate' <=> Separate
    BY <1>1 DEF Separate
<1>5. \A w : Swept(w)' <=> Swept(w)
    BY <1>1 DEF Swept
<1>6. \A w : Awaited(w)' <=> Awaited(w)
    BY <1>1, <1>3 DEF Awaited
<1>7. \A w, n : Bounded(w, n)' <=> Bounded(w, n)
    BY DEF Bounded
<1>8. QED
    BY <1>1, <1>4, <1>5, <1>6, <1>7 DEF CoverageFits

\* One iteration of the enumeration.
LEMMA WalkCovers ==
    ASSUME Working, Walk, Covers
    PROVE  CoverageFits(pc', walk', blocks', enumerated', pool')
<1>1. pc = "walk" /\ walk.stack # <<>> /\ pc \in Analysing
    BY DEF Walk, Analysing
<1>2. /\ SetupOk /\ BoundEnds(edge) /\ enumerated \in Nat
      /\ AnalysisFits("walk", walk, pool, blocks, sample, task, search, found, combo)
    BY <1>1, AnalysingFacts
<1>3. Walks(walk) /\ ~walk.exhaustive
    BY <1>2 DEF AnalysisFits
<1>4. /\ blocks = NoBlocks
      /\ Separate /\ ~Bounded(walk, enumerated) => Swept(walk) /\ Awaited(walk)
    BY <1>1 DEF Covers, CoverageFits
<1>5. Source = From(edge).node /\ Target = Upto(edge).node
    BY <1>2, EndsHere, SetupFacts
<1>6. /\ walk.route \in Routes /\ walk.paths \in Seq(Routes) /\ walk.steps \in Nat
      /\ Len(walk.paths) \in Nat /\ Len(walk.stack) \in Nat /\ Len(walk.route) \in Nat
      /\ walk.limit \in 1..Deepest
      /\ DOMAIN walk = {"limit", "stack", "route", "paths", "steps", "exhaustive"}
      /\ limits.max_enumeration_steps \in Nat /\ limits.max_exhaustive_paths \in Nat
      /\ limits.max_total_enumeration_steps \in Nat
    BY <1>2, <1>3, WalkShape, SetupFacts
<1>7. PICK t : t = Last(walk.stack)
    OBVIOUS
<1>8. t = Top /\ t \in Frames /\ Len(out_edges(t.node)) \in Nat
    BY <1>1, <1>2, <1>3, <1>7, TopIs, OutEdgesAre DEF Top
<1>9. PICK e : e = out_edges(t.node)[t.at]
    OBVIOUS
<1>10. PICK c : c = Saturate(t.cost + planner.cost[e])
    OBVIOUS
<1>11. PICK v : v = Advanced(walk)
    OBVIOUS
<1>12. /\ v.route = walk.route /\ v.paths = walk.paths /\ v.limit = walk.limit
       /\ DOMAIN v = {"limit", "stack", "route", "paths", "steps", "exhaustive"}
       /\ v.steps = walk.steps + 1
    <2>1. v.steps = walk.steps + 1
        BY <1>6, <1>11 DEF Advanced
    <2>2. QED
        BY <1>1, <1>2, <1>3, <1>11, <2>1, AdvancedParts
<1>13. ASSUME NEW w, NEW k \in {0, 1}, Walked(w, k), w.steps \in Nat, walk.steps <= w.steps,
              Len(w.paths) \in Nat, Len(walk.paths) <= Len(w.paths),
              Separate, ~Bounded(walk, enumerated) => Swept(w) /\ Awaited(w)
       PROVE  CoverageFits(pc', walk', blocks', enumerated', pool')
    <2>1. /\ pc' = "walk" /\ walk' = w /\ blocks' = blocks /\ enumerated' = enumerated + k
        BY <1>1, <1>13 DEF Walked
    <2>2. Bounded(walk, enumerated) => Bounded(w, enumerated + k)
        BY <1>2, <1>6, <1>13 DEF Bounded
    <2>3. QED
        BY <1>4, <1>13, <2>1, <2>2 DEF CoverageFits
<1>14. ASSUME ~Separate PROVE CoverageFits(pc', walk', blocks', enumerated', pool')
    <2>1. pc' = "walk" /\ blocks' = blocks
        BY <1>1 DEF Walk, Walked
    <2>2. QED
        BY <1>4, <1>14, <2>1 DEF CoverageFits
<1>15. SUFFICES ASSUME Separate PROVE CoverageFits(pc', walk', blocks', enumerated', pool')
    BY <1>14
<1>16. PICK w : w = Returned(walk)
    OBVIOUS
<1>17. w.steps = walk.steps /\ w.paths = walk.paths
    BY <1>6, <1>16 DEF Returned
<1>18. ASSUME t.at > Len(out_edges(t.node)), Walked(w, 0)
       PROVE  CoverageFits(pc', walk', blocks', enumerated', pool')
    <2>1. ~Bounded(walk, enumerated) => Swept(w) /\ Awaited(w)
        BY <1>1, <1>2, <1>3, <1>4, <1>7, <1>15, <1>16, <1>18, ReturnedAwaits
    <2>2. QED
        BY <1>6, <1>13, <1>15, <1>17, <1>18, <2>1
<1>19. ASSUME WalkBound \/ RequestBound, Walked(w, 0)
       PROVE  CoverageFits(pc', walk', blocks', enumerated', pool')
    <2>1. Bounded(walk, enumerated)
        BY <1>19 DEF WalkBound, RequestBound, Bounded
    <2>2. QED
        BY <1>6, <1>13, <1>15, <1>17, <1>19, <2>1
<1>20. ASSUME Walked(v, 1),
              \/ ~hop_usable(e)
              \/ Edge(e).to \in {Source} \cup {Edge(walk.route[i]).to : i \in DOMAIN walk.route}
              \/ ~(c <= Policy.max_path_cost)
              \/ Edge(e).to = Target /\ walk.limit - Len(walk.route) > 1
              \/ Edge(e).to # Target /\ walk.limit - Len(walk.route) = 1
       PROVE  CoverageFits(pc', walk', blocks', enumerated', pool')
    <2>1. ~Bounded(walk, enumerated) => Swept(v) /\ Awaited(v)
        BY <1>1, <1>2, <1>3, <1>4, <1>7, <1>9, <1>10, <1>11, <1>15, <1>20, RefusedAwaits
    <2>2. QED
        BY <1>6, <1>12, <1>13, <1>15, <1>20, <2>1
<1>21. ASSUME t.at <= Len(out_edges(t.node)) PROVE e \in Edges
    <2>1. t.at \in 1..Len(out_edges(t.node))
        BY <1>8, <1>21 DEF Frames
    <2>2. QED
        BY <1>2, <1>9, <2>1, OutEdgesAre
<1>22. ASSUME t.at <= Len(out_edges(t.node)), Edge(e).to = Target,
              Walked([v EXCEPT !.paths = Append(@, Append(walk.route, e))], 1)
       PROVE  CoverageFits(pc', walk', blocks', enumerated', pool')
    <2>1. PICK p : p = Append(walk.route, e)
        OBVIOUS
    <2>2. PICK u : u = [v EXCEPT !.paths = Append(@, p)]
        OBVIOUS
    <2>3. e \in Edges
        BY <1>21, <1>22
    <2>4. ~Bounded(walk, enumerated) => Swept(u) /\ Awaited(u)
        BY <1>1, <1>2, <1>3, <1>4, <1>7, <1>9, <1>11, <1>15, <1>22, <2>1, <2>2, <2>3, FoundAwaits
    <2>5. u.paths = Append(walk.paths, p) /\ u.steps = walk.steps + 1
        BY <1>12, <2>2
    <2>6. p \in Routes
        BY <1>2, <1>6, <2>1, <2>3, CostAppend, SetupFacts
    <2>7. Len(u.paths) = Len(walk.paths) + 1
        BY <1>6, <2>5, <2>6, AppendIs
    <2>8. Walked(u, 1)
        BY <1>22, <2>1, <2>2
    <2>9. /\ u.steps \in Nat /\ walk.steps <= u.steps
          /\ Len(u.paths) \in Nat /\ Len(walk.paths) <= Len(u.paths)
        BY <1>6, <2>5, <2>7
    <2>10. QED
        BY <1>13, <1>15, <2>4, <2>8, <2>9
<1>23. ASSUME t.at <= Len(out_edges(t.node)), Edge(e).to # Target,
              Walked([v EXCEPT !.stack = Append(@, [node |-> Edge(e).to, at |-> 1, cost |-> c]),
                               !.route = Append(@, e)], 1)
       PROVE  CoverageFits(pc', walk', blocks', enumerated', pool')
    <2>1. PICK f : f = [node |-> Edge(e).to, at |-> 1, cost |-> c]
        OBVIOUS
    <2>2. PICK u : u = [v EXCEPT !.stack = Append(@, f), !.route = Append(@, e)]
        OBVIOUS
    <2>3. e \in Edges
        BY <1>21, <1>23
    <2>4. c \in Nat
        <3>1. planner.cost[e] \in Nat /\ t.cost \in Nat
            BY <1>2, <1>8, <2>3, SetupFacts DEF PlannerSet, Frames
        <3>2. t.cost + planner.cost[e] \in Nat
            BY <3>1
        <3>3. QED
            BY <1>10, <3>2, SaturateType
    <2>5. ~Bounded(walk, enumerated) => Swept(u) /\ Awaited(u)
        BY <1>1, <1>2, <1>3, <1>4, <1>7, <1>9, <1>11, <1>15, <1>23, <2>1, <2>2, <2>3, <2>4, DeeperAwaits
    <2>6. u.paths = walk.paths /\ u.steps = walk.steps + 1
        BY <1>12, <2>2
    <2>7. Walked(u, 1)
        BY <1>23, <2>1, <2>2
    <2>8. QED
        BY <1>6, <1>13, <1>15, <2>5, <2>6, <2>7
<1>24. QED
    BY <1>8, <1>9, <1>10, <1>11, <1>16, <1>18, <1>19, <1>20, <1>22, <1>23 DEF Walk

\* A new sweep has every good route of its length before it.
LEMMA SweepAwaits ==
    ASSUME SetupOk, BoundEnds(edge), NEW w, w.limit \in Nat \ {0}, Swept(w), NEW f,
           f.node = Source, f.at = 1,
           NEW u, u.stack = <<f>>, u.route = <<>>, u.paths = w.paths, u.limit = w.limit
    PROVE  Swept(u) /\ Awaited(u)
<1>1. Swept(u)
    BY DEF Swept
<1>2. ASSUME NEW p \in GoodRoutes(edge), Len(p) = w.limit PROVE Pending(u, p)
    <2>1. p \in Routes
        BY DEF GoodRoutes
    <2>2. DOMAIN p = 1..Len(p) /\ Len(p) \in Nat /\ \A i \in DOMAIN p : p[i] \in Edges
        BY <2>1, RoutePositions
    <2>3. PICK k \in DOMAIN p : k = 1
        BY <1>2, <2>2
    <2>4. Edge(p[k]).from = Visits(p, Source)[k]
        BY HopOfGood
    <2>5. Visits(p, Source)[1] = Source
        BY <2>1, VisitsIs
    <2>6. p[k] \in Edges /\ Edge(p[k]).from = f.node
        BY <2>2, <2>3, <2>4, <2>5
    <2>7. PICK j \in 1..Len(out_edges(f.node)) : out_edges(f.node)[j] = p[k]
        BY <2>6, OutEdgesAll
    <2>8. f.at <= j
        <3>1. Len(out_edges(f.node)) \in Nat
            BY OutEdgesAre
        <3>2. QED
            BY <3>1
    <2>9. k \in DOMAIN u.stack /\ u.stack[k] = f
        BY <2>3
    <2>10. SubSeq(p, 1, k - 1) = SubSeq(u.route, 1, k - 1)
        <3>1. SubSeq(p, 1, 0) = <<>> /\ SubSeq(u.route, 1, 0) = <<>>
            BY SubSeqEmpty
        <3>2. QED
            BY <2>3, <3>1
    <2>11. QED
        BY <2>7, <2>8, <2>9, <2>10 DEF Pending
<1>3. QED
    BY <1>1, <1>2, PendingIs DEF Awaited

\* At the end of a sweep nothing is left to be found.
LEMMA EndOfSweep ==
    ASSUME NEW w, w.stack = <<>>, Swept(w), Awaited(w), NEW p \in GoodRoutes(edge),
           Len(p) \in Nat, w.limit \in Nat, Len(p) <= w.limit
    PROVE  p \in ToSet(w.paths)
<1>1. ~Pending(w, p)
    BY DEF Pending
<1>2. CASE Len(p) < w.limit
    BY <1>2 DEF Swept
<1>3. CASE Len(p) = w.limit
    BY <1>1, <1>3, PendingIs DEF Awaited
<1>4. QED
    BY <1>2, <1>3

\* No good route is longer than the deepest sweep.
LEMMA GoodIsShort ==
    ASSUME SetupOk, StartedOk, NEW p \in GoodRoutes(edge)
    PROVE  p \in Routes /\ Len(p) \in Nat /\ Len(p) <= Deepest /\ Deepest \in Nat
<1>1. /\ p \in Routes /\ Len(p) <= Policy.max_hops /\ IsInjective(Visits(p, From(edge).node))
      /\ \A k \in DOMAIN p : PassableOn(edge, p[k])
    BY DEF GoodRoutes, Good, Track
<1>2. PICK n \in Nat : n = Len(p) /\ DOMAIN p = 1..n
    BY <1>1, RoutePositions
<1>3. PICK v : v = Visits(p, From(edge).node)
    OBVIOUS
<1>4. DOMAIN v = 1..(n + 1) /\ v[1] = From(edge).node /\ \A i \in 1..n : v[i + 1] = Edge(p[i]).to
    <2>1. p \in Routes
        BY <1>1
    <2>2. /\ DOMAIN Visits(p, From(edge).node) = 1..(Len(p) + 1)
          /\ Visits(p, From(edge).node)[1] = From(edge).node
          /\ \A i \in DOMAIN p : Visits(p, From(edge).node)[i + 1] = Edge(p[i]).to
        BY <2>1, VisitsIs
    <2>3. QED
        BY <1>2, <1>3, <2>2
<1>5. PICK N : N = request.fabric.nodes
    OBVIOUS
<1>6. IsFiniteSet(N)
    BY <1>5, SetupFacts DEF Built, FabricBuilt
<1>7. PICK T : T = {m.id : m \in N}
    OBVIOUS
<1>8. IsFiniteSet(T) /\ Cardinality(T) <= Cardinality(N) /\ Cardinality(T) \in Nat /\ Cardinality(N) \in Nat
    <2>1. PICK g : g = [m \in N |-> m.id]
        OBVIOUS
    <2>2. g \in Surjection(N, T)
        BY <1>7, <2>1 DEF Surjection
    <2>3. QED
        BY <1>6, <2>2, FS_Surjection, FS_CardinalityType
<1>9. planner.nodes \subseteq T
    BY <1>5, <1>7, SetupFacts DEF PlannerSet
<1>10. ASSUME NEW i \in 1..(n + 1) PROVE v[i] \in T
    <2>1. CASE i = 1
        BY <1>4, <1>9, <2>1 DEF StartedOk
    <2>2. CASE i # 1
        <3>1. PICK j \in 1..n : i = j + 1
            <4>1. i - 1 \in 1..n /\ i = (i - 1) + 1
                BY <2>2
            <4>2. QED
                BY <4>1
        <3>2. Edge(p[j]).to \in planner.nodes
            BY <1>1, <1>2, <3>1 DEF PassableOn
        <3>3. QED
            BY <1>4, <1>9, <3>1, <3>2
    <2>3. QED
        BY <2>1, <2>2
<1>11. PICK S : S = 1..(n + 1)
    OBVIOUS
<1>12. PICK h : h = [i \in S |-> v[i]]
    OBVIOUS
<1>13. \A i, j \in S : h[i] = h[j] => i = j
    BY <1>1, <1>3, <1>4, <1>11, <1>12 DEF IsInjective
<1>14. h \in Injection(S, T)
    BY <1>10, <1>11, <1>12, <1>13 DEF Injection, IsInjective
<1>15. Cardinality(S) <= Cardinality(T)
    BY <1>8, <1>14, FS_Injection
<1>16. Cardinality(S) = n + 1
    <2>1. n + 1 \in Nat
        OBVIOUS
    <2>2. Cardinality(1..(n + 1)) = n + 1
        BY <2>1, FS_Interval
    <2>3. QED
        BY <1>11, <2>2
<1>17. PICK a \in Nat, b \in Nat : a = Policy.max_hops /\ b = Cardinality(N)
    BY <1>8, SetupFacts
<1>18. Deepest = IF a <= b THEN a ELSE b
    <2>1. Deepest = Min({a, b})
        BY <1>5, <1>17 DEF Deepest
    <2>2. QED
        BY <2>1, MinOfTwo
<1>19. n <= a /\ n <= b
    BY <1>1, <1>2, <1>8, <1>15, <1>16, <1>17
<1>20. QED
    BY <1>1, <1>2, <1>17, <1>18, <1>19

\* A sweep that met no bound leaves every good route it found to build_pool.
LEMMA CandidatesHold ==
    ASSUME SetupOk, BoundEnds(edge), Walks(walk), ~WalkBound,
           NEW p \in GoodRoutes(edge), p \in ToSet(walk.paths)
    PROVE  p \in ToSet(Candidates)
<1>1. PICK n \in Nat : n = Len(walk.paths) /\ walk.paths \in Seq(Routes) /\ DOMAIN walk.paths = 1..n
    BY WalkShape
<1>2. PICK m \in Nat : m = limits.max_exhaustive_paths
    BY SetupFacts
<1>3. n <= m
    BY <1>1, <1>2 DEF WalkBound
<1>4. Min({n, m}) = n
    BY <1>3, MinOfTwo
<1>5. PICK s : s = SubSeq(walk.paths, 1, n)
    OBVIOUS
<1>6. s \in Seq(Routes) /\ Len(s) = n /\ DOMAIN s = 1..n /\ \A i \in 1..n : s[i] = walk.paths[i]
    <2>1. n \in Nat /\ n <= Len(walk.paths) /\ walk.paths \in Seq(Routes)
        BY <1>1
    <2>2. QED
        BY <1>5, <2>1, PrefixIs
<1>7. IsFiniteSet(ToSet(s)) /\ ToSet(s) \subseteq Routes
    BY <1>6, ToSetIn
<1>8. PICK C : C = {q \in ToSet(s) : CandidateOk(q)}
    OBVIOUS
<1>9. C \subseteq ToSet(s)
    BY <1>8
<1>10. IsFiniteSet(C) /\ C \subseteq Routes
    BY <1>7, <1>9, FS_Subset
<1>11. Candidates = RoutesInOrder(C)
    BY <1>1, <1>2, <1>4, <1>5, <1>8 DEF Candidates, RoutesInOrder
<1>12. p \in ToSet(s)
    <2>1. PICK i \in DOMAIN walk.paths : walk.paths[i] = p
        BY DEF ToSet
    <2>2. i \in DOMAIN s /\ s[i] = p
        BY <1>1, <1>6, <2>1
    <2>3. QED
        BY <2>2 DEF ToSet
<1>13. CandidateOk(p)
    <2>1. Source = From(edge).node
        BY EndsHere, SetupFacts
    <2>2. IsInjective(Visits(p, From(edge).node)) /\ Len(p) <= Policy.max_hops
        BY DEF GoodRoutes, Good
    <2>3. QED
        BY <2>1, <2>2 DEF CandidateOk, edges_form_simple_path, Visits
<1>14. p \in C
    BY <1>8, <1>12, <1>13
<1>15. PICK q : q = RoutesInOrder(C)
    OBVIOUS
<1>16. \A x \in C : \E i \in DOMAIN q : q[i] = x
    BY <1>10, <1>15, SetupFacts, RoutesAreOrdered
<1>17. p \in ToSet(q)
    <2>1. PICK i \in DOMAIN q : q[i] = p
        BY <1>14, <1>16
    <2>2. QED
        BY <2>1 DEF ToSet
<1>18. QED
    BY <1>11, <1>15, <1>17

\* Where sets of routes are looked for, or have been.
Enumerating == {"sweep", "walk", "sets", "certify"}

\* While no set is being looked for there is nothing to cover.
LEMMA CoversElsewhere ==
    ASSUME pc' \notin Enumerating
    PROVE  Covers'
BY DEF Covers, CoverageFits, Enumerating

\* What an exhaustive enumeration found stays in the pool.
LEMMA CoversStays ==
    ASSUME Covers, pc \in {"sets", "certify"}, pc' \in {"sets", "certify"},
           UNCHANGED <<request, limits, planner, edge, walk, pool>>
    PROVE  Covers'
<1>1. CoverageFits(pc', walk', blocks', enumerated', pool')
    BY DEF Covers, CoverageFits
<1>2. QED
    BY <1>1, CoverageKept DEF Covers

\* The first sweep of a logical edge.
LEMMA AnalyseCovers ==
    ASSUME Working, Analyse
    PROVE  Covers'
<1>1. CASE pc' # "sweep"
    <2>1. pc' \notin Enumerating
        BY <1>1 DEF Analyse, Refuse, Settle, Enumerating
    <2>2. QED
        BY <2>1, CoversElsewhere
<1>2. CASE pc' = "sweep"
    <2>1. SetupOk
        BY DEF Working
    <2>2. Bound(1) /\ Bound(2) /\ walk' = EmptyWalk /\ blocks' = NoBlocks
          /\ UNCHANGED <<request, limits, planner, edge>>
        BY <1>2 DEF Analyse, Refuse, Settle
    <2>3. Swept(EmptyWalk) \/ ~Separate
        <3>1. SUFFICES ASSUME NEW p \in GoodRoutes(edge), Len(p) < EmptyWalk.limit PROVE ~Separate
            BY DEF Swept
        <3>2. p \in Routes /\ Visits(p, From(edge).node)[Len(p) + 1] = Upto(edge).node
            BY DEF GoodRoutes, Good, Track
        <3>3. Len(p) \in Nat /\ Len(p) < 1
            BY <3>1, <3>2, RoutePositions DEF EmptyWalk
        <3>4. Len(p) + 1 = 1
            BY <3>3
        <3>5. Visits(p, From(edge).node)[1] = From(edge).node
            BY <3>2, VisitsIs
        <3>6. QED
            BY <3>2, <3>4, <3>5 DEF Separate
    <2>4. CoverageFits(pc', walk', blocks', enumerated', pool')
        BY <1>2, <2>2, <2>3 DEF CoverageFits
    <2>5. QED
        BY <2>2, <2>4, CoverageKept DEF Covers
<1>3. QED
    BY <1>1, <1>2

\* The next sweep.
LEMMA SweepCovers ==
    ASSUME Working, Sweep, Covers
    PROVE  Covers'
<1>1. pc = "sweep" /\ pc' = "walk" /\ pc \in Analysing
    BY DEF Sweep, Analysing
<1>2. /\ SetupOk /\ BoundEnds(edge) /\ planner.nodes # {}
      /\ AnalysisFits("sweep", walk, pool, blocks, sample, task, search, found, combo)
    BY <1>1, AnalysingFacts
<1>3. Walks(walk)
    BY <1>2 DEF AnalysisFits
<1>4. UNCHANGED <<request, limits, planner, edge, blocks, enumerated>>
    BY DEF Sweep
<1>5. PICK f : f = [node |-> Source, at |-> 1, cost |-> 0]
    OBVIOUS
<1>6. PICK u : u = walk'
    OBVIOUS
<1>7. /\ u.stack = <<f>> /\ u.route = <<>> /\ u.paths = walk.paths /\ u.limit = walk.limit
      /\ u.steps = walk.steps
    <2>1. u = [walk EXCEPT !.stack = <<f>>, !.route = <<>>]
        BY <1>5, <1>6 DEF Sweep
    <2>2. DOMAIN walk = {"limit", "stack", "route", "paths", "steps", "exhaustive"}
        BY <1>2, <1>3, WalkShape
    <2>3. QED
        BY <2>1, <2>2
<1>8. walk.limit \in Nat \ {0}
    <2>1. Deepest \in Nat
        BY <1>2, DeepestIs
    <2>2. walk.limit \in 1..Deepest
        BY <1>2, <1>3, WalkShape
    <2>3. QED
        BY <2>1, <2>2
<1>9. /\ blocks = NoBlocks
      /\ Separate /\ ~Bounded(walk, enumerated) => Swept(walk)
    BY <1>1 DEF Covers, CoverageFits
<1>10. Bounded(u, enumerated) <=> Bounded(walk, enumerated)
    BY <1>7 DEF Bounded
<1>11. Separate /\ ~Bounded(u, enumerated) => Swept(u) /\ Awaited(u)
    <2>1. SUFFICES ASSUME Swept(walk) PROVE Swept(u) /\ Awaited(u)
        BY <1>9, <1>10
    <2>2. f.node = Source /\ f.at = 1
        BY <1>5
    <2>3. QED
        BY <1>2, <1>7, <1>8, <2>1, <2>2, SweepAwaits
<1>12. CoverageFits(pc', walk', blocks', enumerated', pool')
    BY <1>1, <1>4, <1>6, <1>9, <1>11 DEF CoverageFits
<1>13. QED
    BY <1>4, <1>12, CoverageKept DEF Covers

\* The end of a sweep: a deeper one, all routes in the pool, or no claim.
LEMMA SweepEndCovers ==
    ASSUME Working, SweepEnd, Covers
    PROVE  Covers'
<1>1. pc = "walk" /\ walk.stack = <<>> /\ pc \in Analysing
    BY DEF SweepEnd, Analysing
<1>2. /\ SetupOk /\ StartedOk /\ BoundEnds(edge) /\ planner.nodes # {}
      /\ AnalysisFits("walk", walk, pool, blocks, sample, task, search, found, combo)
    BY <1>1, AnalysingFacts
<1>3. Walks(walk)
    BY <1>2 DEF AnalysisFits
<1>4. UNCHANGED <<request, limits, planner, edge, enumerated>>
    BY DEF SweepEnd
<1>5. /\ blocks = NoBlocks
      /\ Separate /\ ~Bounded(walk, enumerated) => Swept(walk) /\ Awaited(walk)
    BY <1>1 DEF Covers, CoverageFits
<1>6. walk.limit \in Nat /\ DOMAIN walk = {"limit", "stack", "route", "paths", "steps", "exhaustive"}
    <2>1. Deepest \in Nat
        BY <1>2, DeepestIs
    <2>2. walk.limit \in 1..Deepest
        BY <1>2, <1>3, WalkShape
    <2>3. QED
        BY <1>2, <1>3, <2>1, <2>2, WalkShape
<1>7. Bounded(walk, enumerated) <=> WalkBound \/ RequestBound
    BY DEF Bounded, WalkBound, RequestBound
<1>8. ASSUME walk' = [walk EXCEPT !.limit = @ + 1], pc' = "sweep", blocks' = blocks
      PROVE  CoverageFits(pc', walk', blocks', enumerated', pool')
    <2>1. PICK u : u = walk'
        OBVIOUS
    <2>2. u.limit = walk.limit + 1 /\ u.paths = walk.paths /\ u.steps = walk.steps
        BY <1>6, <1>8, <2>1
    <2>3. ASSUME Swept(walk), Awaited(walk) PROVE Swept(u)
        <3>1. SUFFICES ASSUME NEW p \in GoodRoutes(edge), Len(p) < u.limit PROVE p \in ToSet(u.paths)
            BY DEF Swept
        <3>2. Len(p) \in Nat
            BY <1>2, GoodIsShort
        <3>3. Len(p) <= walk.limit
            BY <1>6, <2>2, <3>1, <3>2
        <3>4. QED
            BY <1>1, <1>6, <2>2, <2>3, <3>2, <3>3, EndOfSweep
    <2>4. Bounded(u, enumerated) <=> Bounded(walk, enumerated)
        BY <2>2 DEF Bounded
    <2>5. QED
        BY <1>4, <1>5, <1>8, <2>1, <2>3, <2>4 DEF CoverageFits
<1>9. ASSUME Exhaustive, walk' = [walk EXCEPT !.exhaustive = TRUE], pool' = Candidates, pc' = "sets"
      PROVE  CoverageFits(pc', walk', blocks', enumerated', pool')
    <2>1. ASSUME Separate, NEW p \in GoodRoutes(edge) PROVE p \in ToSet(Candidates)
        <3>1. Swept(walk) /\ Awaited(walk) /\ walk.limit = Deepest /\ ~WalkBound
            BY <1>5, <1>7, <1>9, <2>1 DEF Exhaustive
        <3>2. Len(p) \in Nat /\ Len(p) <= walk.limit
            BY <1>2, <3>1, GoodIsShort
        <3>3. p \in ToSet(walk.paths)
            BY <1>1, <1>6, <3>1, <3>2, EndOfSweep
        <3>4. QED
            BY <1>2, <1>3, <3>1, <3>3, CandidatesHold
    <2>2. Separate => GoodRoutes(edge) \subseteq ToSet(pool')
        BY <1>9, <2>1
    <2>3. QED
        BY <1>9, <2>2 DEF CoverageFits
<1>10. CASE pc' \notin Enumerating
    BY <1>10, CoversElsewhere
<1>11. CASE pc' \in Enumerating
    <2>1. CoverageFits(pc', walk', blocks', enumerated', pool')
        BY <1>8, <1>9, <1>11 DEF SweepEnd, Start, Enumerating
    <2>2. QED
        BY <1>4, <2>1, CoverageKept DEF Covers
<1>12. QED
    BY <1>10, <1>11

\* The fabric that was built is whole.
Whole == pc = "build" \/ verdict = "refused" \/ FabricWhole(request)

\* Every step of the search keeps what the enumeration covers.
LEMMA SearchCovers ==
    ASSUME Working, SearchNext, Covers, verdict' = verdict
    PROVE  Covers'
<1>1. CASE Analyse
    BY <1>1, AnalyseCovers
<1>2. CASE Sweep
    BY <1>2, SweepCovers
<1>3. CASE Walk
    <2>1. CoverageFits(pc', walk', blocks', enumerated', pool')
        BY <1>3, WalkCovers
    <2>2. UNCHANGED <<request, limits, planner, edge>>
        BY <1>3 DEF Walk, Walked
    <2>3. QED
        BY <2>1, <2>2, CoverageKept DEF Covers
<1>4. CASE SweepEnd
    BY <1>4, SweepEndCovers
<1>5. CASE Pop
    <2>1. pc' \in {"search", "pool"}
        BY <1>5 DEF Pop
    <2>2. QED
        BY <2>1, CoversElsewhere DEF Enumerating
<1>6. CASE Exhausted
    <2>1. pc' = "pool"
        BY <1>6 DEF Exhausted
    <2>2. QED
        BY <2>1, CoversElsewhere DEF Enumerating
<1>7. CASE Pool
    <2>1. /\ walk' = walk /\ ~walk.exhaustive
          /\ UNCHANGED <<request, limits, planner, edge>>
        BY <1>7, CameBack DEF Pool
    <2>2. pc' \in {"sets", "search", "pool"}
        BY <1>7 DEF Pool, Chaining, Probing, PoolFinished, Start
    <2>3. CoverageFits(pc', walk', blocks', enumerated', pool')
        BY <2>1, <2>2 DEF CoverageFits
    <2>4. QED
        BY <2>1, <2>3, CoverageKept DEF Covers
<1>8. CASE Choose
    <2>1. pc = "sets" /\ pc' = "sets" /\ UNCHANGED <<request, limits, planner, edge, walk, pool>>
        BY <1>8 DEF Choose, Chose
    <2>2. QED
        BY <2>1, CoversStays
<1>9. CASE Conclude
    <2>1. CASE pc' = "certify"
        <3>1. pc = "sets" /\ UNCHANGED <<request, limits, planner, edge, walk, pool>>
            BY <1>9, <2>1 DEF Conclude, Settle
        <3>2. QED
            BY <2>1, <3>1, CoversStays
    <2>2. CASE pc' # "certify"
        <3>1. pc' \in {"edge", "assign"}
            BY <1>9, <2>2 DEF Conclude, Settle
        <3>2. QED
            BY <3>1, CoversElsewhere DEF Enumerating
    <2>3. QED
        BY <2>1, <2>2
<1>10. CASE Augment
    <2>1. pc = "certify" /\ pc' = "certify" /\ UNCHANGED <<request, limits, planner, edge, walk, pool>>
        BY <1>10 DEF Augment
    <2>2. QED
        BY <2>1, CoversStays
<1>11. CASE Certify
    <2>1. pc' \in {"edge", "assign"}
        BY <1>11 DEF Certify, Settle
    <2>2. QED
        BY <2>1, CoversElsewhere DEF Enumerating
<1>12. QED
    BY <1>1, <1>2, <1>3, <1>4, <1>5, <1>6, <1>7, <1>8, <1>9, <1>10, <1>11 DEF SearchNext

\* The step that runs the search starts from a planner at work.
LEMMA AtWork ==
    ASSUME IInv, Search
    PROVE  Working /\ SearchNext /\ verdict' = verdict /\ pc \notin {"build", "done"}
<1>1. SearchNext /\ verdict' = verdict
    BY DEF Search
<1>2. pc \in {"edge", "sweep", "walk", "search", "pool", "sets", "certify"}
    BY <1>1 DEF SearchNext, Analyse, Sweep, Walk, SweepEnd, Pop, Exhausted, Pool, Choose,
                Conclude, Augment, Certify
<1>3. QED
    BY <1>1, <1>2 DEF IInv

\* Every step of the planner keeps what the enumeration covers.
LEMMA NextCovers ==
    ASSUME IInv, Covers, [Next]_planningVars
    PROVE  Covers'
<1>1. CASE Build
    <2>1. pc' \in {"edge", "done"}
        BY <1>1 DEF Build, Begin
    <2>2. QED
        BY <2>1, CoversElsewhere DEF Enumerating
<1>2. CASE Search
    BY <1>2, AtWork, SearchCovers
<1>3. CASE Assign
    <2>1. pc' \in {"validate", "done"}
        BY <1>3 DEF Assign
    <2>2. QED
        BY <2>1, CoversElsewhere DEF Enumerating
<1>4. CASE Submit
    <2>1. pc' = "validate"
        BY <1>4 DEF Submit
    <2>2. QED
        BY <2>1, CoversElsewhere DEF Enumerating
<1>5. CASE Validate
    <2>1. pc' = "done"
        BY <1>5 DEF Validate
    <2>2. QED
        BY <2>1, CoversElsewhere DEF Enumerating
<1>6. CASE UNCHANGED planningVars
    <2>1. UNCHANGED <<request, limits, planner, edge, walk, blocks, enumerated, pool, pc>>
        BY <1>6 DEF planningVars, vars, searching
    <2>2. CoverageFits(pc', walk', blocks', enumerated', pool')
        BY <2>1 DEF Covers
    <2>3. QED
        BY <2>1, <2>2, CoverageKept DEF Covers
<1>7. QED
    BY <1>1, <1>2, <1>3, <1>4, <1>5, <1>6 DEF Next, Answered

\* No step leaves a request whose fabric is not whole.
LEMMA NextWhole ==
    ASSUME IInv, Whole, [Next]_planningVars
    PROVE  Whole'
<1>1. CASE Build
    <2>1. CASE ~Accepts(input.spec)
        BY <1>1, <2>1 DEF Build, Whole
    <2>2. CASE Accepts(input.spec)
        <3>1. PICK r : r = build_request(input.spec) /\ request' = r
            BY <1>1, <2>2 DEF Build, Begin
        <3>2. input.spec \in Declarations /\ FabricAccepted(input.spec)
            BY <2>2, InputAssumption DEF IInv, Accepts
        <3>3. r.fabric = BuiltFabric(input.spec)
            BY <3>1 DEF build_request
        <3>4. FabricWhole(r)
            BY <3>2, <3>3, FabricIsWhole
        <3>5. QED
            BY <3>1, <3>4 DEF Whole
    <2>3. QED
        BY <2>1, <2>2
<1>2. ASSUME pc # "build", request' = request, verdict = "refused" => verdict' = verdict
      PROVE  Whole'
    BY <1>2 DEF Whole
<1>3. ASSUME pc # "done" PROVE verdict # "refused"
    BY <1>3 DEF IInv, Working
<1>4. CASE Search
    <2>1. request' = request
        BY <1>4 DEF Search, SearchNext, Analyse, Refuse, Sweep, Walk, Walked, SweepEnd, Pop, Exhausted,
                    Pool, Choose, Chose, Conclude, Augment, Certify
    <2>2. QED
        BY <1>2, <1>4, <2>1, AtWork
<1>5. CASE Assign
    BY <1>2, <1>3, <1>5 DEF Assign
<1>6. CASE Submit
    BY <1>2, <1>3, <1>6 DEF Submit
<1>7. CASE Validate
    BY <1>2, <1>3, <1>7 DEF Validate
<1>8. CASE UNCHANGED planningVars
    BY <1>8 DEF planningVars, vars, Whole
<1>9. QED
    BY <1>1, <1>4, <1>5, <1>6, <1>7, <1>8 DEF Next, Answered

\* What the enumeration covers, and the fabric it covers, throughout.
LEMMA CoverageHolds == Spec => [](IInv /\ Covers /\ Whole)
<1>1. Init => IInv /\ Covers /\ Whole
    <2>1. Init => Covers
        BY DEF Init, Covers, CoverageFits
    <2>2. Init => Whole
        BY DEF Init, Whole
    <2>3. QED
        BY <2>1, <2>2, InitKeeps
<1>2. (IInv /\ Covers /\ Whole) /\ [Next]_planningVars => (IInv /\ Covers /\ Whole)'
    BY NextKeeps, NextCovers, NextWhole
<1>3. QED
    BY <1>1, <1>2, PTL DEF Spec

\* Then the pool is what it is meant to be.
LEMMA CoverageGivesFeasibility == IInv /\ Covers /\ Whole => PoolIsFeasible
<1> SUFFICES ASSUME IInv, Covers, Whole, pc = "sets"
    PROVE  /\ IsInjective(pool)
           /\ ToSet(pool) \subseteq FeasibleRoutes
           /\ walk.exhaustive /\ Apart => ToSet(pool) = FeasibleRoutes
    BY DEF PoolIsFeasible
<1>1. Working /\ pc \in Analysing
    BY DEF IInv, Analysing
<1>2. /\ SetupOk /\ StartedOk /\ BoundEnds(edge)
      /\ AnalysisFits("sets", walk, pool, blocks, sample, task, search, found, combo)
    BY <1>1, AnalysingFacts
<1>3. FabricWhole(request)
    BY <1>1 DEF Whole, Working
<1>4. pool \in Seq(GoodRoutes(edge)) /\ IsInjective(pool)
    BY <1>2 DEF AnalysisFits, Distinct
<1>5. ToSet(pool) \subseteq GoodRoutes(edge)
    BY <1>4, ToSetIn
<1>6. FeasibleRoutes = GoodRoutes(edge)
    BY <1>2, <1>3, FeasibleAre
<1>7. ASSUME walk.exhaustive, Apart PROVE GoodRoutes(edge) \subseteq ToSet(pool)
    <2>1. Separate
        BY <1>2, <1>7, EndsHere, SetupFacts DEF Apart, Separate
    <2>2. QED
        BY <1>7, <2>1 DEF Covers, CoverageFits
<1>8. QED
    BY <1>4, <1>5, <1>6, <1>7

\* The pool holds feasible routes only, none twice, and after an enumeration that calls
\* itself exhaustive all of them, whatever the request, its limits and its budgets are
\* and whatever earlier logical edges spent of the shared one (build_pool).
THEOREM PoolsAreFeasible == Spec => []PoolIsFeasible
BY CoverageHolds, CoverageGivesFeasibility, PTL

-----------------------------------------------------------------------------
(* The search finds what there is *)

\* What the search may cross while b is blocked: hop_usable.
OpenTo(b, e) == PassableOn(edge, e) /\ e \notin b.edges /\ Edge(e).to \notin b.nodes

\* The routes the search is after: those within the policy that avoid what is
\* blocked, whether or not they come back to a node.
Rival(b, q) ==
    /\ Track(edge, q, Upto(edge).node) /\ Len(q) <= Policy.max_hops
    /\ \A k \in DOMAIN q : OpenTo(b, q[k])

\* A node at a hop count is in the frontier at its cost, or what leaves it is known.
Waiting(s, key) == \E l \in s.frontier : Key(l) = key /\ l.cost = s.dist[key]
Expanded(s, b, key) ==
    \A e \in Edges :
        OpenTo(b, e) /\ Edge(e).from = key[1] /\ Saturate(s.dist[key] + planner.cost[e]) <= Policy.max_path_cost
            => /\ <<Edge(e).to, key[2] + 1>> \in DOMAIN s.dist
               /\ s.dist[<<Edge(e).to, key[2] + 1>>] <= Saturate(s.dist[key] + planner.cost[e])
Spreads(s, b) ==
    /\ <<From(edge).node, 0>> \in DOMAIN s.dist /\ s.dist[<<From(edge).node, 0>>] = 0
    /\ \A key \in DOMAIN s.dist :
          /\ key[2] <= Policy.max_hops
          /\ key[2] # 0 => OpenTo(b, s.prev[key])
          /\ \/ Waiting(s, key)
             \/ key[1] # Upto(edge).node /\ (key[2] < Policy.max_hops => Expanded(s, b, key))

\* No route the search is after is cheaper than all of the frontier, or as cheap and
\* shorter.
LEMMA SearchReaches ==
    ASSUME SetupOk, NEW s, Searches(s), NEW b, Spreads(s, b), NEW q, Rival(b, q)
    PROVE  \E m \in s.frontier : m.cost <= RouteCost(q) /\ m.hops <= Len(q)
<1>1. /\ q \in Routes /\ RouteCost(q) <= Policy.max_path_cost
      /\ \A k \in DOMAIN q : Edge(q[k]).from = Visits(q, From(edge).node)[k]
      /\ Visits(q, From(edge).node)[Len(q) + 1] = Upto(edge).node
    BY DEF Rival, Track
<1>2. PICK h \in Nat : h = Len(q)
    BY <1>1, LenProperties DEF Routes
<1>3. DOMAIN q = 1..h
    BY <1>1, <1>2, LenProperties DEF Routes
<1>4. PICK v : v = Visits(q, From(edge).node)
    OBVIOUS
<1>5. v[1] = From(edge).node /\ \A k \in DOMAIN q : v[k + 1] = Edge(q[k]).to
    BY <1>1, <1>4, VisitsIs
<1>6. PlannerSet /\ Policy.max_hops \in Nat /\ Policy.max_path_cost \in Nat
    BY SetupFacts
<1>7. RouteCost(q) \in Nat
    BY <1>1, <1>6, RouteCostType
<1>8. PICK price : price = [i \in 0..h |-> RouteCost(SubSeq(q, 1, i))]
    OBVIOUS
<1>9. ASSUME NEW i \in 0..h PROVE price[i] \in Nat /\ price[i] <= RouteCost(q)
    <2>1. PICK p : p = SubSeq(q, 1, i)
        OBVIOUS
    <2>2. p \in Routes /\ RouteCost(p) <= RouteCost(q)
        BY <1>1, <1>2, <1>6, <2>1, PrefixOfRoute
    <2>3. QED
        BY <1>6, <1>8, <2>1, <2>2, RouteCostType
<1>10. price[0] = 0
    <2>1. SubSeq(q, 1, 0) = <<>> /\ RouteCost(<<>>) = 0
        BY SubSeqEmpty, TrackEmpty
    <2>2. 0 \in 0..h
        OBVIOUS
    <2>3. QED
        BY <1>8, <2>1, <2>2
<1>11. ASSUME NEW i \in 0..h, i # h
       PROVE  i + 1 \in 0..h /\ i + 1 \in DOMAIN q /\ price[i + 1] = Saturate(price[i] + planner.cost[q[i + 1]])
    <2>1. i \in Nat /\ i + 1 <= Len(q) /\ i + 1 \in 0..h /\ i + 1 \in DOMAIN q
        BY <1>2, <1>3, <1>11
    <2>2. q \in Seq(Edges) /\ q[i + 1] \in Edges
        BY <1>1, <2>1, ElementOfSeq DEF Routes
    <2>3. PICK p : p = SubSeq(q, 1, i)
        OBVIOUS
    <2>4. PICK r : r = SubSeq(q, 1, i + 1)
        OBVIOUS
    <2>5. r = Append(p, q[i + 1])
        BY <2>1, <2>2, <2>3, <2>4, PrefixGrows
    <2>6. p \in Routes
        BY <1>1, <1>2, <1>6, <2>3, PrefixOfRoute
    <2>7. RouteCost(r) = Saturate(RouteCost(p) + planner.cost[q[i + 1]])
        BY <1>6, <2>2, <2>5, <2>6, CostAppend
    <2>8. QED
        BY <1>8, <2>1, <2>3, <2>4, <2>7
<1> DEFINE Reached(i) == <<v[i + 1], i>> \in DOMAIN s.dist /\ s.dist[<<v[i + 1], i>>] <= price[i]
<1>12. Reached(0)
    <2>1. <<v[0 + 1], 0>> = <<From(edge).node, 0>>
        BY <1>5
    <2>2. QED
        BY <1>10, <2>1 DEF Spreads
<1>13. ASSUME NEW i \in 0..h, Reached(i), Waiting(s, <<v[i + 1], i>>)
       PROVE  \E m \in s.frontier : m.cost <= RouteCost(q) /\ m.hops <= Len(q)
    <2>1. PICK m \in s.frontier : Key(m) = <<v[i + 1], i>> /\ m.cost = s.dist[<<v[i + 1], i>>]
        BY <1>13 DEF Waiting
    <2>2. m.hops = i /\ m.cost <= price[i] /\ m.cost \in Nat
        <3>1. m \in Labels
            BY DEF Searches
        <3>2. QED
            BY <1>13, <2>1, <3>1 DEF Key, Labels
    <2>3. QED
        BY <1>2, <1>7, <1>9, <2>2
<1>14. ASSUME NEW i \in 0..h, i # h, Reached(i), ~Waiting(s, <<v[i + 1], i>>) PROVE Reached(i + 1)
    <2>1. PICK key : key = <<v[i + 1], i>>
        OBVIOUS
    <2>2. key \in DOMAIN s.dist /\ key[1] = v[i + 1] /\ key[2] = i /\ s.dist[key] <= price[i]
        BY <1>14, <2>1
    <2>3. i < Policy.max_hops
        BY <1>2, <1>6, <1>14 DEF Rival
    <2>4. Expanded(s, b, key)
        BY <1>14, <2>1, <2>2, <2>3 DEF Spreads
    <2>5. /\ i + 1 \in 0..h /\ i + 1 \in DOMAIN q
          /\ price[i + 1] = Saturate(price[i] + planner.cost[q[i + 1]])
        BY <1>11, <1>14
    <2>6. PICK e : e = q[i + 1]
        OBVIOUS
    <2>7. e \in Edges /\ OpenTo(b, e) /\ Edge(e).from = key[1] /\ Edge(e).to = v[(i + 1) + 1]
        <3>1. e \in Edges
            BY <1>1, <2>5, <2>6, ElementOfSeq DEF Routes
        <3>2. OpenTo(b, e)
            BY <2>5, <2>6 DEF Rival
        <3>3. QED
            BY <1>1, <1>4, <1>5, <2>2, <2>5, <2>6, <3>1, <3>2
    <2>8. planner.cost[e] \in Nat /\ s.dist[key] \in Nat /\ price[i] \in Nat
        BY <1>6, <1>9, <2>2, <2>7 DEF PlannerSet, Searches
    <2>9. PICK c \in Nat : c = Saturate(s.dist[key] + planner.cost[e]) /\ c <= price[i + 1]
        BY <2>2, <2>5, <2>6, <2>8, SaturateMonotone
    <2>10. c <= Policy.max_path_cost
        BY <1>1, <1>6, <1>7, <1>9, <2>5, <2>9
    <2>11. PICK k : k = <<Edge(e).to, key[2] + 1>>
        OBVIOUS
    <2>12. k \in DOMAIN s.dist /\ s.dist[k] <= c
        BY <2>4, <2>7, <2>9, <2>10, <2>11 DEF Expanded
    <2>13. k = <<v[(i + 1) + 1], i + 1>>
        BY <2>2, <2>7, <2>11
    <2>14. s.dist[k] <= price[i + 1]
        <3>1. s.dist[k] \in Nat /\ price[i + 1] \in Nat
            BY <1>9, <2>5, <2>12 DEF Searches
        <3>2. QED
            BY <2>9, <2>12, <3>1
    <2>15. QED
        BY <2>12, <2>13, <2>14
<1>15. ~(Reached(h) /\ ~Waiting(s, <<v[h + 1], h>>))
    <2>1. SUFFICES ASSUME Reached(h), ~Waiting(s, <<v[h + 1], h>>) PROVE FALSE
        OBVIOUS
    <2>2. PICK key : key = <<v[h + 1], h>>
        OBVIOUS
    <2>3. key \in DOMAIN s.dist /\ key[1] = v[h + 1]
        BY <2>1, <2>2
    <2>4. key[1] # Upto(edge).node
        BY <2>1, <2>2, <2>3 DEF Spreads
    <2>5. QED
        BY <1>1, <1>2, <1>4, <2>3, <2>4
<1> HIDE DEF Reached
<1>16. SUFFICES ASSUME \A i \in 0..h : Reached(i) => ~Waiting(s, <<v[i + 1], i>>) PROVE FALSE
    BY <1>13
<1>17. PICK B : B = {i \in 0..h : ~Reached(i)}
    OBVIOUS
<1>18. h \in 0..h
    OBVIOUS
<1>19. B # {}
    BY <1>15, <1>16, <1>17, <1>18
<1>20. B \subseteq Nat
    BY <1>17
<1>21. PICK i \in B : \A j \in B : i <= j
    BY <1>19, <1>20, NatMin
<1>22. i \in 0..h /\ ~Reached(i) /\ i # 0
    BY <1>12, <1>17
<1>23. PICK j \in 0..h : j + 1 = i /\ j # h /\ j \notin B
    <2>1. i - 1 \in 0..h /\ (i - 1) + 1 = i /\ i - 1 # h /\ i - 1 \notin B
        BY <1>21, <1>22
    <2>2. QED
        BY <2>1
<1>24. Reached(j) /\ ~Waiting(s, <<v[j + 1], j>>)
    BY <1>16, <1>17, <1>23
<1>25. Reached(j + 1)
    BY <1>14, <1>23, <1>24
<1>26. QED
    BY <1>22, <1>23, <1>25

\* The expansion misses no edge: to each neighbour the cheapest is taken, or what is
\* known is no dearer.
Complete(s, b, l, K, c, v) ==
    \A e \in Edges :
        OpenTo(b, e) /\ Edge(e).from = l.node /\ c[e] <= Policy.max_path_cost /\ l.hops < Policy.max_hops =>
            \/ <<Edge(e).to, l.hops + 1>> \in K /\ c[v[<<Edge(e).to, l.hops + 1>>]] <= c[e]
            \/ /\ <<Edge(e).to, l.hops + 1>> \notin K /\ <<Edge(e).to, l.hops + 1>> \in DOMAIN s.dist
               /\ s.dist[<<Edge(e).to, l.hops + 1>>] <= c[e]

\* A label that is expanded: what leaves its node is known, and nothing is forgotten.
LEMMA ExpandedSpreads ==
    ASSUME SetupOk, NEW s, NEW l, NEW A, NEW K, NEW c, NEW v, NEW D, NEW P, NEW F, NEW t,
           Expansion(s, l, A, K, c, v, D, P, F, t), NEW b, Spreads(s, b), Complete(s, b, l, K, c, v),
           l.node # Upto(edge).node,
           \A e \in A : OpenTo(b, e) /\ l.hops < Policy.max_hops
    PROVE  Spreads(t, b)
<1>1. /\ Searches(s) /\ s.dist[Key(l)] = l.cost
      /\ F = (s.frontier \ {l}) \cup
                {[cost |-> c[e], hops |-> l.hops + 1, node |-> Edge(e).to] : e \in A}
    BY DEF Expansion, LabelsOf
<1>2. /\ l.cost \in Nat /\ l.hops \in Nat /\ l.node \in Int
      /\ \A e \in Edges : c[e] = Saturate(l.cost + planner.cost[e]) /\ planner.cost[e] \in Nat /\ c[e] \in Nat
      /\ \A e \in A : e \in Edges /\ Edge(e).to \in Int
      /\ \A k \in K : v[k] \in A /\ k[1] = Edge(v[k]).to /\ k[2] = l.hops + 1 /\ k \in Int \X Nat
    BY ExpansionIs
<1>3. PICK o : o = Key(l)
    OBVIOUS
<1>4. o[1] = l.node /\ o[2] = l.hops /\ o \in DOMAIN s.dist /\ o \notin K /\ s.dist[o] = l.cost
    <2>1. o \in DOMAIN s.dist /\ o \notin K
        BY <1>3, ExpansionIs
    <2>2. o[1] = l.node /\ o[2] = l.hops
        BY <1>3 DEF Key
    <2>3. QED
        BY <1>1, <1>3, <2>1, <2>2
<1>5. DOMAIN D = K \cup DOMAIN s.dist /\ DOMAIN P = K \cup DOMAIN s.prev
    BY DEF Expansion, NewDist, NewPrev
<1>6. /\ \A k \in K : D[k] = c[v[k]] /\ P[k] = v[k]
      /\ \A k \in DOMAIN s.dist : k \notin K => D[k] = s.dist[k]
      /\ \A k \in DOMAIN s.prev : k \notin K => P[k] = s.prev[k]
    BY DEF Expansion, NewDist, NewPrev
<1>7. \A k \in DOMAIN s.dist : D[k] <= s.dist[k] /\ D[k] \in Nat
    BY ExpansionIs
<1>8. t.dist = D /\ t.prev = P /\ t.frontier = F
    BY DEF Expansion
<1>9. \A k \in DOMAIN s.dist :
          /\ k[2] <= Policy.max_hops /\ s.dist[k] \in Nat /\ k \in Int \X Nat
          /\ k[2] # 0 => OpenTo(b, s.prev[k]) /\ k \in DOMAIN s.prev
    BY <1>1 DEF Spreads, Searches, LeadsBack
<1>10. ASSUME NEW k \in K
       PROVE  k[2] <= Policy.max_hops /\ OpenTo(b, P[k]) /\ Waiting(t, k)
    <2>1. PICK e : e = v[k]
        OBVIOUS
    <2>2. e \in A /\ k[1] = Edge(e).to /\ k[2] = l.hops + 1 /\ k \in Int \X Nat /\ D[k] = c[e] /\ P[k] = e
        BY <1>2, <1>6, <2>1
    <2>3. Policy.max_hops \in Nat
        BY SetupFacts
    <2>4. PICK m : m = [cost |-> c[e], hops |-> l.hops + 1, node |-> Edge(e).to]
        OBVIOUS
    <2>5. m \in t.frontier /\ Key(m) = k /\ m.cost = t.dist[k]
        <3>1. m \in F
            BY <1>1, <2>2, <2>4
        <3>2. k = <<k[1], k[2]>>
            BY <2>2
        <3>3. Key(m) = k
            BY <2>2, <2>4, <3>2 DEF Key
        <3>4. QED
            BY <1>8, <2>2, <2>4, <3>1, <3>3
    <2>6. QED
        BY <1>2, <2>2, <2>3, <2>5 DEF Waiting
<1>11. ASSUME o[2] < Policy.max_hops PROVE Expanded(t, b, o)
    <2>1. t.dist[o] = l.cost
        BY <1>4, <1>6, <1>8
    <2>2. SUFFICES ASSUME NEW e \in Edges, OpenTo(b, e), Edge(e).from = l.node, c[e] <= Policy.max_path_cost
          PROVE  <<Edge(e).to, l.hops + 1>> \in DOMAIN D /\ D[<<Edge(e).to, l.hops + 1>>] <= c[e]
        <3>1. \A e \in Edges : Saturate(t.dist[o] + planner.cost[e]) = c[e]
            BY <1>2, <2>1
        <3>2. QED
            BY <1>4, <1>8, <2>2, <3>1 DEF Expanded
    <2>3. PICK k : k = <<Edge(e).to, l.hops + 1>>
        OBVIOUS
    <2>4. (k \in K /\ c[v[k]] <= c[e]) \/ (k \notin K /\ k \in DOMAIN s.dist /\ s.dist[k] <= c[e])
        BY <1>4, <1>11, <2>2, <2>3 DEF Complete
    <2>5. QED
        BY <1>5, <1>6, <2>3, <2>4
<1>12. ASSUME NEW k \in DOMAIN s.dist, k \notin K, k # o, Waiting(s, k) PROVE Waiting(t, k)
    <2>1. PICK m \in s.frontier : Key(m) = k /\ m.cost = s.dist[k]
        BY <1>12 DEF Waiting
    <2>2. m \in F
        BY <1>1, <1>3, <1>12, <2>1
    <2>3. m.cost = t.dist[k]
        BY <1>6, <1>8, <1>12, <2>1
    <2>4. QED
        BY <1>8, <2>1, <2>2, <2>3 DEF Waiting
<1>13. ASSUME NEW k \in DOMAIN s.dist, k \notin K, Expanded(s, b, k) PROVE Expanded(t, b, k)
    <2>1. t.dist[k] = s.dist[k]
        BY <1>6, <1>8, <1>13
    <2>2. SUFFICES ASSUME NEW e \in Edges, OpenTo(b, e), Edge(e).from = k[1],
                          Saturate(s.dist[k] + planner.cost[e]) <= Policy.max_path_cost
          PROVE  /\ <<Edge(e).to, k[2] + 1>> \in DOMAIN D
                 /\ D[<<Edge(e).to, k[2] + 1>>] <= Saturate(s.dist[k] + planner.cost[e])
        BY <1>8, <2>1 DEF Expanded
    <2>3. PICK j : j = <<Edge(e).to, k[2] + 1>>
        OBVIOUS
    <2>4. PICK x : x = Saturate(s.dist[k] + planner.cost[e])
        OBVIOUS
    <2>5. j \in DOMAIN s.dist /\ s.dist[j] <= x
        BY <1>13, <2>2, <2>3, <2>4 DEF Expanded
    <2>6. D[j] <= s.dist[j] /\ D[j] \in Nat /\ s.dist[j] \in Nat /\ j \in DOMAIN D
        BY <1>5, <1>7, <1>9, <2>5
    <2>7. x \in Nat
        BY <1>2, <1>9, <2>4, SaturateType
    <2>8. QED
        BY <2>3, <2>4, <2>5, <2>6, <2>7
<1>14. ASSUME NEW k \in DOMAIN D
       PROVE  /\ k[2] <= Policy.max_hops
              /\ k[2] # 0 => OpenTo(b, P[k])
              /\ \/ Waiting(t, k)
                 \/ k[1] # Upto(edge).node /\ (k[2] < Policy.max_hops => Expanded(t, b, k))
    <2>1. CASE k \in K
        BY <1>10, <2>1
    <2>2. CASE k \notin K
        <3>1. k \in DOMAIN s.dist
            BY <1>5, <1>14, <2>2
        <3>2. k[2] <= Policy.max_hops /\ (k[2] # 0 => OpenTo(b, P[k]))
            BY <1>6, <1>9, <2>2, <3>1
        <3>3. CASE k = o
            BY <1>4, <1>11, <3>2, <3>3
        <3>4. CASE k # o
            BY <1>12, <1>13, <2>2, <3>1, <3>2, <3>4 DEF Spreads
        <3>5. QED
            BY <3>3, <3>4
    <2>3. QED
        BY <2>1, <2>2
<1>15. PICK z : z = <<From(edge).node, 0>>
    OBVIOUS
<1>16. z \in DOMAIN D /\ D[z] = 0
    <2>1. z \in DOMAIN s.dist /\ s.dist[z] = 0 /\ z[2] = 0
        BY <1>15 DEF Spreads
    <2>2. z \notin K
        BY <1>2, <2>1
    <2>3. QED
        BY <1>5, <1>6, <2>1, <2>2
<1>17. QED
    BY <1>8, <1>14, <1>15, <1>16 DEF Spreads

\* A search that has just begun knows the source, and waits there.
LEMMA BeginningSpreads ==
    ASSUME SetupOk, BoundEnds(edge), NEW b, NEW s,
           s = [dist |-> [k \in {<<Source, 0>>} |-> 0], prev |-> <<>>,
                frontier |-> {[cost |-> 0, hops |-> 0, node |-> Source]}]
    PROVE  Spreads(s, b)
<1>1. Source = From(edge).node /\ Policy.max_hops \in Nat
    BY EndsHere, SetupFacts
<1>2. PICK z : z = <<Source, 0>>
    OBVIOUS
<1>3. PICK d : d = [k \in {z} |-> 0]
    OBVIOUS
<1>4. PICK l : l = [cost |-> 0, hops |-> 0, node |-> Source]
    OBVIOUS
<1>5. s.dist = d /\ s.frontier = {l} /\ DOMAIN d = {z} /\ d[z] = 0 /\ z[2] = 0
    BY <1>2, <1>3, <1>4
<1>6. Waiting(s, z)
    BY <1>2, <1>4, <1>5 DEF Waiting, Key
<1>7. QED
    BY <1>1, <1>2, <1>5, <1>6 DEF Spreads

\* A superseded label is dropped: another one waits in its place.
LEMMA SupersededSpreads ==
    ASSUME NEW s, NEW b, Spreads(s, b), NEW l \in s.frontier, s.dist[Key(l)] < l.cost,
           s.dist[Key(l)] \in Nat, l.cost \in Nat,
           NEW t, t.dist = s.dist, t.prev = s.prev, t.frontier = s.frontier \ {l}
    PROVE  Spreads(t, b)
<1>1. ASSUME NEW key, Waiting(s, key) PROVE Waiting(t, key)
    <2>1. PICK m \in s.frontier : Key(m) = key /\ m.cost = s.dist[key]
        BY <1>1 DEF Waiting
    <2>2. m # l
        BY <2>1
    <2>3. QED
        BY <2>1, <2>2 DEF Waiting
<1>2. \A key : Expanded(s, b, key) => Expanded(t, b, key)
    BY DEF Expanded
<1>3. QED
    BY <1>1, <1>2 DEF Spreads

\* The edges that an expansion compares with one another.
Leaving(l) ==
    {e \in Edges : Edge(e).from = l.node /\ hop_usable(e) /\ Saturate(l.cost + planner.cost[e]) <= Policy.max_path_cost}
NoDearer(l, e, f) ==
    LexLess(<<Saturate(l.cost + planner.cost[e]), e>>, <<Saturate(l.cost + planner.cost[f]), f>>)

\* The edges an expansion takes.
LEMMA RelaxedAre ==
    ASSUME NEW l
    PROVE  Relaxed(l) =
               IF CanExtend(l)
               THEN {e \in {x \in Leaving(l) :
                               \A f \in Leaving(l) : Edge(f).to = Edge(x).to => NoDearer(l, x, f) \/ x = f} :
                       <<Edge(e).to, l.hops + 1>> \in DOMAIN search.dist =>
                           Saturate(l.cost + planner.cost[e]) < search.dist[<<Edge(e).to, l.hops + 1>>]}
               ELSE {}
BY DEF Relaxed, Leaving, NoDearer

\* Among the edges to one neighbour there is a cheapest one.
LEMMA CheapestLeaves ==
    ASSUME SetupOk, NEW l, l.cost \in Nat, NEW e \in Leaving(l)
    PROVE  \E x \in Leaving(l) :
               /\ Edge(x).to = Edge(e).to
               /\ Saturate(l.cost + planner.cost[x]) <= Saturate(l.cost + planner.cost[e])
               /\ \A f \in Leaving(l) : Edge(f).to = Edge(x).to => NoDearer(l, x, f) \/ x = f
<1>1. PICK c : c = [x \in Edges |-> Saturate(l.cost + planner.cost[x])]
    OBVIOUS
<1>2. \A x \in Edges : x \in Nat /\ c[x] \in Nat /\ c[x] = Saturate(l.cost + planner.cost[x])
    <2>1. \A x \in Edges : x \in Nat /\ planner.cost[x] \in Nat
        BY SetupFacts DEF PlannerSet
    <2>2. QED
        BY <1>1, <2>1, SaturateType
<1>3. PICK N : N = {f \in Leaving(l) : Edge(f).to = Edge(e).to}
    OBVIOUS
<1>4. N \subseteq Edges /\ e \in N
    BY <1>3 DEF Leaving
<1>5. IsFiniteSet(N)
    BY <1>4, SetupFacts, FS_Subset
<1>6. PICK R : R = {z \in N \X N : LexLess(<<c[z[1]], z[1]>>, <<c[z[2]], z[2]>>)}
    OBVIOUS
<1>7. \A x, y \in N : <<x, y>> \in R <=> (c[x] < c[y] \/ (c[x] = c[y] /\ x < y))
    BY <1>6 DEF LexLess
<1>8. StrictOrder(R, N)
    <2>1. \A x \in N : x \in Nat /\ c[x] \in Nat
        BY <1>2, <1>4
    <2>2. ASSUME NEW x \in N PROVE <<x, x>> \notin R
        BY <1>7, <2>1
    <2>3. ASSUME NEW x \in N, NEW y \in N, x # y PROVE <<x, y>> \in R \/ <<y, x>> \in R
        BY <1>7, <2>1, <2>3
    <2>4. ASSUME NEW x \in N, NEW y \in N, NEW z \in N, <<x, y>> \in R, <<y, z>> \in R
          PROVE  <<x, z>> \in R
        BY <1>7, <2>1, <2>4
    <2>5. QED
        BY <2>2, <2>3, <2>4 DEF StrictOrder
<1>9. PICK x \in N : \A y \in N : y # x => <<x, y>> \in R
    BY <1>4, <1>5, <1>8, RowFirst
<1>10. x \in Leaving(l) /\ Edge(x).to = Edge(e).to
    BY <1>3
<1>11. c[x] <= c[e]
    <2>1. c[x] \in Nat /\ c[e] \in Nat
        BY <1>2, <1>4
    <2>2. e # x => c[x] < c[e] \/ (c[x] = c[e] /\ x < e)
        BY <1>4, <1>7, <1>9
    <2>3. QED
        BY <2>1, <2>2
<1>12. ASSUME NEW f \in Leaving(l), Edge(f).to = Edge(x).to PROVE NoDearer(l, x, f) \/ x = f
    <2>1. f \in N
        BY <1>3, <1>10, <1>12
    <2>2. CASE f # x
        <3>1. c[x] < c[f] \/ (c[x] = c[f] /\ x < f)
            BY <1>7, <1>9, <2>1, <2>2
        <3>2. c[x] = Saturate(l.cost + planner.cost[x]) /\ c[f] = Saturate(l.cost + planner.cost[f])
            BY <1>2, <1>4, <2>1
        <3>3. QED
            BY <3>1, <3>2 DEF NoDearer, LexLess
    <2>3. QED
        BY <2>2
<1>13. QED
    BY <1>2, <1>4, <1>10, <1>11, <1>12

\* So an expansion misses no edge.
LEMMA RelaxedIsComplete ==
    ASSUME SetupOk, BoundEnds(edge), Searches(search), NEW l \in search.frontier, NEW A, A = Relaxed(l),
           NEW K, NEW c, NEW v, NEW D, NEW P, NEW F,
           Expansion(search, l, A, K, c, v, D, P, F, ExpandedBy(A, l))
    PROVE  /\ Complete(search, blocks, l, K, c, v)
           /\ \A e \in A : OpenTo(blocks, e) /\ l.hops < Policy.max_hops
<1>1. \A e : hop_usable(e) <=> OpenTo(blocks, e)
    BY EndsHere, SetupFacts DEF hop_usable, OpenTo
<1>2. l.cost \in Nat
    BY DEF Searches, Labels
<1>3. \A e \in Edges : c[e] = Saturate(l.cost + planner.cost[e]) /\ c[e] \in Nat
    <2>1. \A e \in Edges : c[e] = Saturate(l.cost + planner.cost[e])
        BY DEF Expansion, CostsFrom
    <2>2. \A e \in Edges : planner.cost[e] \in Nat
        BY SetupFacts DEF PlannerSet
    <2>3. QED
        BY <1>2, <2>1, <2>2, SaturateType
<1>4. K = {<<Edge(e).to, l.hops + 1>> : e \in A} /\ \A k \in K : v[k] \in A /\ <<Edge(v[k]).to, l.hops + 1>> = k
    BY DEF Expansion, KeysOf, Leads
<1>5. \A e \in A : /\ l.hops < Policy.max_hops /\ e \in Leaving(l)
                   /\ \A f \in Leaving(l) : Edge(f).to = Edge(e).to => NoDearer(l, e, f) \/ e = f
    BY RelaxedAre DEF CanExtend
<1>6. \A e \in Leaving(l) : e \in Edges /\ hop_usable(e)
    BY DEF Leaving
<1>7. ASSUME NEW e \in Edges, OpenTo(blocks, e), Edge(e).from = l.node, c[e] <= Policy.max_path_cost,
             l.hops < Policy.max_hops, NEW k, k = <<Edge(e).to, l.hops + 1>>
      PROVE  \/ k \in K /\ c[v[k]] <= c[e]
             \/ k \notin K /\ k \in DOMAIN search.dist /\ search.dist[k] <= c[e]
    <2>1. e \in Leaving(l)
        BY <1>1, <1>3, <1>7 DEF Leaving
    <2>2. CASE k \in K
        <3>1. PICK x : x = v[k]
            OBVIOUS
        <3>2. x \in A /\ <<Edge(x).to, l.hops + 1>> = k
            BY <1>4, <2>2, <3>1
        <3>3. Edge(x).to = Edge(e).to
            BY <1>7, <3>2
        <3>4. x \in Edges /\ (NoDearer(l, x, e) \/ x = e)
            BY <1>5, <1>6, <2>1, <3>2, <3>3
        <3>5. c[x] <= c[e]
            BY <1>3, <3>4 DEF NoDearer, LexLess
        <3>6. QED
            BY <2>2, <3>1, <3>5
    <2>3. CASE k \notin K
        <3>1. PICK x \in Leaving(l) :
                  /\ Edge(x).to = Edge(e).to
                  /\ Saturate(l.cost + planner.cost[x]) <= Saturate(l.cost + planner.cost[e])
                  /\ \A f \in Leaving(l) : Edge(f).to = Edge(x).to => NoDearer(l, x, f) \/ x = f
            BY <1>2, <2>1, CheapestLeaves
        <3>2. x \in Edges /\ c[x] <= c[e] /\ k = <<Edge(x).to, l.hops + 1>>
            BY <1>3, <1>6, <1>7, <3>1
        <3>3. x \notin A
            BY <1>4, <2>3, <3>2
        <3>4. k \in DOMAIN search.dist /\ ~(c[x] < search.dist[k])
            BY <1>3, <1>7, <3>1, <3>2, <3>3, RelaxedAre DEF CanExtend
        <3>5. search.dist[k] \in Nat
            BY <3>4 DEF Searches
        <3>6. search.dist[k] <= c[e]
            BY <1>3, <3>2, <3>4, <3>5
        <3>7. QED
            BY <2>3, <3>4, <3>6
    <2>4. QED
        BY <2>2, <2>3
<1>8. Complete(search, blocks, l, K, c, v)
    BY <1>7 DEF Complete
<1>9. QED
    BY <1>1, <1>5, <1>6, <1>8

\* A route that comes back to a node can be cut short there.
LEMMA ShortCut ==
    ASSUME SetupOk, NEW b, NEW p, Rival(b, p), NEW s, s = From(edge).node,
           NEW i \in 1..(Len(p) + 1), NEW j \in 1..(Len(p) + 1), i < j, Visits(p, s)[i] = Visits(p, s)[j]
    PROVE  \E q : Rival(b, q) /\ RouteCost(q) <= RouteCost(p) /\ Len(q) < Len(p)
<1>1. /\ p \in Routes /\ RouteCost(p) <= Policy.max_path_cost
      /\ \A k \in DOMAIN p : /\ Edge(p[k]).from = Visits(p, s)[k] /\ PassableOn(edge, p[k])
                             /\ OpenTo(b, p[k])
      /\ Visits(p, s)[Len(p) + 1] = Upto(edge).node
      /\ Len(p) <= Policy.max_hops
    BY DEF Rival, Track
<1>2. PICK h \in Nat : h = Len(p) /\ DOMAIN p = 1..h
    BY <1>1, LenProperties DEF Routes
<1>3. PICK v : v = Visits(p, s)
    OBVIOUS
<1>4. v[1] = s /\ \A k \in DOMAIN p : v[k + 1] = Edge(p[k]).to
    BY <1>1, <1>3, VisitsIs
<1>5. PICK g \in Nat : g = j - i /\ g # 0
    BY <1>2
<1>6. PICK m \in Nat : m + g = h
    <2>1. j - i <= h
        BY <1>2
    <2>2. h - g \in Nat /\ (h - g) + g = h
        BY <1>5, <2>1
    <2>3. QED
        BY <2>2
<1>7. PICK c : c = [k \in 1..(m + 1) |-> IF k < i THEN k ELSE k + g]
    OBVIOUS
<1>8. i \in 1..(h + 1) /\ j = i + g /\ i <= m + 1
    BY <1>2, <1>5, <1>6
<1>9. PICK q : q = [k \in 1..m |-> p[c[k]]]
    OBVIOUS
<1>10. \A k \in 1..m : c[k] \in DOMAIN p
    BY <1>2, <1>6, <1>7, <1>8
<1>11. \A k, l \in 1..m : c[k] = c[l] => k = l
    BY <1>6, <1>7, <1>8
<1>12. q \in Seq(Edges) /\ Len(q) = m /\ DOMAIN q = 1..m
    <2>1. p \in Seq(Edges)
        BY <1>1 DEF Routes
    <2>2. \A k \in 1..m : q[k] \in Edges
        BY <1>9, <1>10, <2>1, ElementOfSeq
    <2>3. q \in [1..m -> Edges]
        BY <1>9, <2>2
    <2>4. QED
        BY <2>3, RowIsSeq
<1>13. q \in Routes
    BY <1>12 DEF Routes
<1>14. PICK w : w = Visits(q, s)
    OBVIOUS
<1>15. w[1] = s /\ \A k \in 1..m : w[k + 1] = Edge(q[k]).to
    BY <1>12, <1>13, <1>14, VisitsIs
<1>16. v[i] = v[i + g]
    BY <1>3, <1>8
<1>17. ASSUME NEW k \in 1..(m + 1) PROVE w[k] = v[c[k]]
    <2>1. CASE k = 1
        <3>1. i = 1 => v[1] = v[1 + g]
            BY <1>16
        <3>2. IF 1 < i THEN c[1] = 1 ELSE c[1] = 1 + g /\ i = 1
            BY <1>7, <1>8, <2>1
        <3>3. QED
            BY <1>4, <1>15, <2>1, <3>1, <3>2
    <2>2. CASE k # 1
        <3>1. PICK n \in 1..m : n + 1 = k
            <4>1. k - 1 \in 1..m /\ (k - 1) + 1 = k
                BY <1>6, <2>2
            <4>2. QED
                BY <4>1
        <3>2. w[k] = v[c[n] + 1]
            <4>1. w[k] = Edge(p[c[n]]).to
                BY <1>9, <1>15, <3>1
            <4>2. QED
                BY <1>4, <1>10, <3>1, <4>1
        <3>3. CASE k = i
            <4>1. c[n] = n /\ c[k] = i + g /\ c[n] + 1 = i
                BY <1>6, <1>7, <3>1, <3>3
            <4>2. QED
                BY <1>16, <3>2, <4>1
        <3>4. CASE k # i
            <4>1. c[k] = c[n] + 1
                BY <1>6, <1>7, <1>8, <3>1, <3>4
            <4>2. QED
                BY <3>2, <4>1
        <3>5. QED
            BY <3>3, <3>4
    <2>3. QED
        BY <2>1, <2>2
<1>18. RouteCost(q) <= RouteCost(p)
    <2>1. PICK d : d = [k \in 1..m |-> c[k]]
        OBVIOUS
    <2>2. d \in [DOMAIN q -> DOMAIN p]
        BY <1>10, <1>12, <2>1
    <2>3. \A k, l \in DOMAIN q : d[k] = d[l] => k = l
        BY <1>11, <1>12, <2>1
    <2>4. \A k \in DOMAIN q : q[k] = p[d[k]]
        BY <1>9, <1>12, <2>1
    <2>5. QED
        BY <1>1, <1>13, <2>2, <2>3, <2>4, SetupFacts, PartCostsLess
<1>19. RouteCost(q) <= Policy.max_path_cost
    <2>1. RouteCost(q) \in Nat /\ RouteCost(p) \in Nat /\ Policy.max_path_cost \in Nat
        BY <1>1, <1>13, SetupFacts, RouteCostType
    <2>2. QED
        BY <1>1, <1>18, <2>1
<1>20. ASSUME NEW k \in DOMAIN q PROVE Edge(q[k]).from = w[k] /\ PassableOn(edge, q[k]) /\ OpenTo(b, q[k])
    <2>1. k \in 1..m /\ k \in 1..(m + 1)
        BY <1>12
    <2>2. q[k] = p[c[k]] /\ c[k] \in DOMAIN p
        BY <1>9, <1>10, <2>1
    <2>3. QED
        BY <1>1, <1>3, <1>17, <2>1, <2>2
<1>21. w[m + 1] = Upto(edge).node
    <2>1. m + 1 \in 1..(m + 1)
        BY <1>6
    <2>2. c[m + 1] = m + 1 + g
        BY <1>7, <1>8, <2>1
    <2>3. w[m + 1] = v[h + 1]
        BY <1>6, <1>17, <2>1, <2>2
    <2>4. QED
        BY <1>1, <1>2, <1>3, <2>3
<1>22. m < h /\ m <= Policy.max_hops
    <2>1. Policy.max_hops \in Nat /\ h <= Policy.max_hops
        BY <1>1, <1>2, SetupFacts
    <2>2. m < h
        BY <1>5, <1>6
    <2>3. QED
        BY <2>1, <2>2
<1>23. Track(edge, q, Upto(edge).node)
    BY <1>12, <1>13, <1>14, <1>19, <1>20, <1>21 DEF Track
<1>24. Rival(b, q)
    BY <1>12, <1>20, <1>22, <1>23 DEF Rival
<1>25. QED
    BY <1>2, <1>12, <1>18, <1>22, <1>24

\* The first of two routes is cheaper, or as cheap and no longer.
Beats(p, q) == RouteCost(p) < RouteCost(q) \/ (RouteCost(p) = RouteCost(q) /\ Len(p) <= Len(q))
Cheapest(b, p) == Rival(b, p) /\ \A q : Rival(b, q) => Beats(p, q)

\* So a cheapest route, and shortest among those, comes back to no node.
LEMMA CheapestIsSimple ==
    ASSUME SetupOk, NEW b, NEW p, Cheapest(b, p)
    PROVE  p \in GoodRoutes(edge)
<1>1. PICK s : s = From(edge).node
    OBVIOUS
<1>2. Rival(b, p) /\ p \in Routes /\ Track(edge, p, Upto(edge).node) /\ Len(p) <= Policy.max_hops
    BY DEF Cheapest, Rival, Track
<1>3. Len(p) \in Nat /\ DOMAIN Visits(p, s) = 1..(Len(p) + 1)
    BY <1>2, VisitsIs, LenProperties DEF Routes
<1>4. ASSUME NEW i \in 1..(Len(p) + 1), NEW j \in 1..(Len(p) + 1), i < j, Visits(p, s)[i] = Visits(p, s)[j]
      PROVE  FALSE
    <2>1. PICK q : Rival(b, q) /\ RouteCost(q) <= RouteCost(p) /\ Len(q) < Len(p)
        BY <1>1, <1>2, <1>4, ShortCut
    <2>2. q \in Routes
        BY <2>1 DEF Rival, Track
    <2>3. RouteCost(q) \in Nat /\ RouteCost(p) \in Nat
        BY <1>2, <2>2, SetupFacts, RouteCostType
    <2>4. Len(q) \in Nat
        BY <2>2, LenProperties DEF Routes
    <2>5. Beats(p, q)
        BY <2>1 DEF Cheapest
    <2>6. QED
        BY <1>3, <2>1, <2>3, <2>4, <2>5 DEF Beats
<1>5. IsInjective(Visits(p, s))
    <2>1. ASSUME NEW i \in 1..(Len(p) + 1), NEW j \in 1..(Len(p) + 1), Visits(p, s)[i] = Visits(p, s)[j], i # j
          PROVE  FALSE
        <3>1. i < j \/ j < i
            BY <1>3, <2>1
        <3>2. QED
            BY <1>4, <2>1, <3>1
    <2>2. QED
        BY <1>3, <2>1 DEF IsInjective
<1>6. QED
    BY <1>1, <1>2, <1>5 DEF GoodRoutes, Good

\* What the search knows as long as it runs, and what it came back with.
ExactFits(at, s, f, b) ==
    /\ at = "search" /\ Separate => Spreads(s, b)
    /\ at = "pool" /\ Separate =>
          /\ f # Nothing => Cheapest(b, f)
          /\ f = Nothing /\ s # EmptySearch => \A q : ~Rival(b, q)
Exact == ExactFits(pc, search, found, blocks)

\* All this stays what it is while the request does.
LEMMA ExactKept ==
    ASSUME request' = request, planner' = planner, edge' = edge
    PROVE  \A at, s, f, b : ExactFits(at, s, f, b)' <=> ExactFits(at, s, f, b)
<1>1. /\ Routes' = Routes /\ Edges' = Edges /\ Policy' = Policy
      /\ (\A e : Edge(e)' = Edge(e)) /\ (\A p : RouteCost(p)' = RouteCost(p))
    BY RoutesKept
<1>2. /\ From(edge)' = From(edge) /\ Upto(edge)' = Upto(edge)
      /\ \A e : PassableOn(edge, e)' <=> PassableOn(edge, e)
      /\ \A p, n : Track(edge, p, n)' <=> Track(edge, p, n)
    BY TracksKept
<1>3. Separate' <=> Separate
    BY <1>2 DEF Separate
<1>4. \A b, e : OpenTo(b, e)' <=> OpenTo(b, e)
    BY <1>1, <1>2 DEF OpenTo
<1>5. \A b, q : Rival(b, q)' <=> Rival(b, q)
    BY <1>1, <1>2, <1>4 DEF Rival
<1>6. \A p, q : Beats(p, q)' <=> Beats(p, q)
    BY <1>1 DEF Beats
<1>7. \A b, p : Cheapest(b, p)' <=> Cheapest(b, p)
    BY <1>5, <1>6 DEF Cheapest
<1>8. \A s, b, k : Expanded(s, b, k)' <=> Expanded(s, b, k)
    BY <1>1, <1>4 DEF Expanded
<1>9. \A s, b : Spreads(s, b)' <=> Spreads(s, b)
    BY <1>1, <1>2, <1>4, <1>8 DEF Spreads
<1>10. QED
    BY <1>3, <1>5, <1>7, <1>9 DEF ExactFits

\* A label at the target, when it is the least: the search has found a cheapest route.
LEMMA FoundIsCheapest ==
    ASSUME SetupOk, BoundEnds(edge), Searches(search), Spreads(search, blocks),
           NEW l \in search.frontier, l.node = Target, search.dist[Key(l)] = l.cost,
           \A m \in search.frontier : m = l \/ LabelLess(l, m)
    PROVE  Cheapest(blocks, Trace(l)) /\ Trace(l) # Nothing
<1>1. PICK p : p = Trace(l)
    OBVIOUS
<1>2. Target = Upto(edge).node
    BY EndsHere, SetupFacts
<1>3. /\ Track(edge, p, Upto(edge).node) /\ Len(p) = l.hops /\ RouteCost(p) <= l.cost
      /\ \A k \in DOMAIN p : \E key \in DOMAIN search.dist : key[2] # 0 /\ p[k] = search.prev[key]
    BY <1>1, <1>2, TraceIs
<1>4. p \in Routes /\ p # Nothing
    <2>1. p \in Seq(Edges) /\ Edges \subseteq Nat
        BY <1>3, SetupFacts DEF Track, Routes
    <2>2. p \in Seq(Nat)
        BY <2>1, SeqMonotonic
    <2>3. QED
        BY <1>3, <2>2, SearchAssumption DEF Track
<1>5. l.cost \in Nat /\ l.hops \in Nat /\ Key(l) \in DOMAIN search.dist /\ Key(l)[2] = l.hops
    BY DEF Searches, Labels, Key
<1>6. l.hops <= Policy.max_hops
    BY <1>5 DEF Spreads
<1>7. \A k \in DOMAIN p : OpenTo(blocks, p[k])
    BY <1>3 DEF Spreads
<1>8. Rival(blocks, p)
    BY <1>3, <1>6, <1>7 DEF Rival
<1>9. ASSUME NEW q, Rival(blocks, q) PROVE Beats(p, q)
    <2>1. PICK m \in search.frontier : m.cost <= RouteCost(q) /\ m.hops <= Len(q)
        BY <1>9, SearchReaches
    <2>2. m = l \/ LabelLess(l, m)
        OBVIOUS
    <2>3. m.cost \in Nat /\ m.hops \in Nat
        BY DEF Searches, Labels
    <2>4. q \in Routes
        BY <1>9 DEF Rival, Track
    <2>5. RouteCost(q) \in Nat /\ RouteCost(p) \in Nat
        BY <1>4, <2>4, SetupFacts, RouteCostType
    <2>6. Len(q) \in Nat
        BY <2>4, LenProperties DEF Routes
    <2>7. l.cost < m.cost \/ (l.cost = m.cost /\ l.hops <= m.hops)
        BY <1>5, <2>2, <2>3 DEF LabelLess
    <2>8. QED
        BY <1>3, <1>5, <2>1, <2>3, <2>5, <2>6, <2>7 DEF Beats
<1>10. QED
    BY <1>1, <1>4, <1>8, <1>9 DEF Cheapest

\* One iteration of the search.
LEMMA PopExact ==
    ASSUME Working, Pop, Exact
    PROVE  ExactFits(pc', search', found', blocks')
<1>1. pc = "search" /\ search.frontier # {} /\ pc \in Analysing /\ blocks' = blocks
    BY DEF Pop, Analysing
<1>2. /\ SetupOk /\ BoundEnds(edge)
      /\ AnalysisFits("search", walk, pool, blocks, sample, task, search, found, combo)
    BY <1>1, AnalysingFacts
<1>3. Searches(search) /\ found = Nothing
    BY <1>2 DEF AnalysisFits
<1>4. SUFFICES ASSUME Separate PROVE ExactFits(pc', search', found', blocks')
    BY DEF ExactFits
<1>5. Spreads(search, blocks)
    BY <1>1, <1>4 DEF Exact, ExactFits
<1>6. PICK l : l = Label
    OBVIOUS
<1>7. l \in search.frontier /\ \A m \in search.frontier : m = l \/ LabelLess(l, m)
    BY <1>1, <1>3, <1>6, LabelIsTaken DEF Searches
<1>8. l.cost \in Nat /\ search.dist[Key(l)] \in Nat
    BY <1>3, <1>7 DEF Searches, Labels
<1>9. PICK R : R = search.frontier \ {l}
    OBVIOUS
<1>10. ASSUME search.dist[Key(l)] < l.cost, search' = [search EXCEPT !.frontier = R], pc' = pc
       PROVE  ExactFits(pc', search', found', blocks')
    <2>1. PICK s, t : s = search /\ t = search'
        OBVIOUS
    <2>2. t.dist = s.dist /\ t.prev = s.prev /\ t.frontier = s.frontier \ {l}
        BY <1>3, <1>9, <1>10, <2>1 DEF Searches
    <2>3. Spreads(t, blocks)
        BY <1>5, <1>7, <1>8, <1>10, <2>1, <2>2, SupersededSpreads
    <2>4. QED
        BY <1>1, <1>10, <2>1, <2>3 DEF ExactFits
<1>11. ASSUME search.dist[Key(l)] = l.cost, l.node = Target, found' = Trace(l), pc' = "pool"
       PROVE  ExactFits(pc', search', found', blocks')
    <2>1. Cheapest(blocks, Trace(l)) /\ Trace(l) # Nothing
        BY <1>2, <1>3, <1>5, <1>7, <1>11, FoundIsCheapest
    <2>2. QED
        BY <1>1, <1>11, <2>1 DEF ExactFits
<1>12. ASSUME search' = EmptySearch, pc' = "pool", found' = found
       PROVE  ExactFits(pc', search', found', blocks')
    BY <1>3, <1>12 DEF ExactFits
<1>13. PICK A : A = Relaxed(l)
    OBVIOUS
<1>14. ASSUME search.dist[Key(l)] = l.cost, l.node # Target, pc' = pc, search' = ExpandedBy(A, l)
       PROVE  ExactFits(pc', search', found', blocks')
    <2>1. PICK K, c, v, D, P, F : Expansion(search, l, A, K, c, v, D, P, F, ExpandedBy(A, l))
        BY <1>2, <1>3, <1>7, <1>13, <1>14, LabelExpands
    <2>2. Complete(search, blocks, l, K, c, v) /\ \A e \in A : OpenTo(blocks, e) /\ l.hops < Policy.max_hops
        BY <1>2, <1>3, <1>7, <1>13, <2>1, RelaxedIsComplete
    <2>3. PICK s, t : s = search /\ t = ExpandedBy(A, l)
        OBVIOUS
    <2>4. PICK b : b = blocks
        OBVIOUS
    <2>5. /\ Expansion(s, l, A, K, c, v, D, P, F, t) /\ Spreads(s, b) /\ Complete(s, b, l, K, c, v)
          /\ \A e \in A : OpenTo(b, e) /\ l.hops < Policy.max_hops
        BY <1>5, <2>1, <2>2, <2>3, <2>4
    <2>6. l.node # Upto(edge).node
        BY <1>2, <1>14, EndsHere, SetupFacts
    <2>7. Spreads(t, b)
        BY <1>2, <2>5, <2>6, ExpandedSpreads
    <2>8. QED
        BY <1>1, <1>14, <2>3, <2>4, <2>7 DEF ExactFits
<1>15. QED
    BY <1>6, <1>9, <1>10, <1>11, <1>12, <1>13, <1>14 DEF Pop, ExpandedBy

\* An empty frontier: there is no route.
LEMMA ExhaustedExact ==
    ASSUME Working, Exhausted, Exact
    PROVE  ExactFits(pc', search', found', blocks')
<1>1. /\ pc = "search" /\ search.frontier = {} /\ pc' = "pool" /\ pc \in Analysing
      /\ blocks' = blocks /\ search' = search /\ found' = found
    BY DEF Exhausted, searching, Analysing
<1>2. /\ SetupOk
      /\ AnalysisFits("search", walk, pool, blocks, sample, task, search, found, combo)
    BY <1>1, AnalysingFacts
<1>3. Searches(search) /\ found = Nothing
    BY <1>2 DEF AnalysisFits
<1>4. ASSUME Separate, NEW q, Rival(blocks, q) PROVE FALSE
    <2>1. Spreads(search, blocks)
        BY <1>1, <1>4 DEF Exact, ExactFits
    <2>2. PICK m \in search.frontier : m.cost <= RouteCost(q) /\ m.hops <= Len(q)
        BY <1>2, <1>3, <1>4, <2>1, SearchReaches
    <2>3. QED
        BY <1>1
<1>5. QED
    BY <1>1, <1>3, <1>4 DEF ExactFits

\* A search that is started knows where it starts, whatever is blocked.
LEMMA StartExact ==
    ASSUME SetupOk, StartedOk, NEW purpose, NEW edges, NEW nodes, Start(purpose, edges, nodes)
    PROVE  ExactFits(pc', search', found', blocks')
<1>1. BoundEnds(edge) /\ Source = From(edge).node /\ Target = Upto(edge).node
    BY EndsHere, SetupFacts DEF StartedOk
<1>2. CASE Source = Target
    <2>1. ~Separate
        BY <1>1, <1>2 DEF Separate
    <2>2. QED
        BY <2>1 DEF ExactFits
<1>3. CASE Source # Target
    <2>1. PICK s, b : s = search' /\ b = blocks'
        OBVIOUS
    <2>2. pc' = "search" /\ s = [dist |-> [k \in {<<Source, 0>>} |-> 0], prev |-> <<>>,
                                 frontier |-> {[cost |-> 0, hops |-> 0, node |-> Source]}]
        BY <1>3, <2>1 DEF Start
    <2>3. Spreads(s, b)
        BY <1>1, <2>2, BeginningSpreads
    <2>4. QED
        BY <2>1, <2>2, <2>3 DEF ExactFits
<1>4. QED
    BY <1>2, <1>3

\* Where no search runs or has come back there is nothing to know.
LEMMA ExactElsewhere ==
    ASSUME pc' \notin {"search", "pool"}
    PROVE  Exact'
BY DEF Exact, ExactFits

\* Every step of the planner at work keeps what the search knows.
LEMMA SearchExact ==
    ASSUME Working, SearchNext, Exact
    PROVE  Exact'
<1>1. ASSUME UNCHANGED <<request, planner, edge>>, ExactFits(pc', search', found', blocks')
      PROVE  Exact'
    BY <1>1, ExactKept DEF Exact
<1>2. CASE Analyse
    <2>1. pc' \in {"sweep", "edge", "assign"}
        BY <1>2 DEF Analyse, Refuse, Settle
    <2>2. QED
        BY <2>1, ExactElsewhere
<1>3. CASE Sweep
    <2>1. pc' = "walk"
        BY <1>3 DEF Sweep
    <2>2. QED
        BY <2>1, ExactElsewhere
<1>4. CASE Walk
    <2>1. pc = "walk" /\ pc' = pc
        BY <1>4 DEF Walk, Walked
    <2>2. QED
        BY <2>1, ExactElsewhere
<1>5. CASE SweepEnd
    <2>1. pc \in Analysing /\ UNCHANGED <<request, planner, edge>>
        BY <1>5 DEF SweepEnd, Analysing
    <2>2. SetupOk /\ StartedOk
        BY <2>1, AnalysingFacts
    <2>3. CASE pc' \in {"sweep", "sets"}
        BY <2>3, ExactElsewhere
    <2>4. CASE Start("cheapest", {}, {})
        BY <1>1, <2>1, <2>2, <2>4, StartExact
    <2>5. QED
        BY <1>5, <2>3, <2>4 DEF SweepEnd
<1>6. CASE Pop
    <2>1. UNCHANGED <<request, planner, edge>>
        BY <1>6 DEF Pop
    <2>2. QED
        BY <1>1, <1>6, <2>1, PopExact
<1>7. CASE Exhausted
    <2>1. UNCHANGED <<request, planner, edge>>
        BY <1>7 DEF Exhausted
    <2>2. QED
        BY <1>1, <1>7, <2>1, ExhaustedExact
<1>8. CASE Pool
    <2>1. pc \in Analysing /\ UNCHANGED <<request, planner, edge>>
        BY <1>8 DEF Pool, Analysing
    <2>2. SetupOk /\ StartedOk
        BY <2>1, AnalysingFacts
    <2>3. pc' = "sets" \/ \E purpose, edges, nodes : Start(purpose, edges, nodes)
        BY <1>8 DEF Pool, Chaining, Probing, PoolFinished
    <2>4. CASE pc' = "sets"
        BY <2>4, ExactElsewhere
    <2>5. ASSUME NEW purpose, NEW edges, NEW nodes, Start(purpose, edges, nodes) PROVE Exact'
        BY <1>1, <2>1, <2>2, <2>5, StartExact
    <2>6. QED
        BY <2>3, <2>4, <2>5
<1>9. CASE Choose
    <2>1. pc = "sets" /\ pc' = pc
        BY <1>9 DEF Choose, Chose
    <2>2. QED
        BY <2>1, ExactElsewhere
<1>10. CASE Conclude
    <2>1. pc' \in {"certify", "edge", "assign"}
        BY <1>10 DEF Conclude, Settle
    <2>2. QED
        BY <2>1, ExactElsewhere
<1>11. CASE Augment
    <2>1. pc = "certify" /\ pc' = pc
        BY <1>11 DEF Augment
    <2>2. QED
        BY <2>1, ExactElsewhere
<1>12. CASE Certify
    <2>1. pc' \in {"edge", "assign"}
        BY <1>12 DEF Certify, Settle
    <2>2. QED
        BY <2>1, ExactElsewhere
<1>13. QED
    BY <1>2, <1>3, <1>4, <1>5, <1>6, <1>7, <1>8, <1>9, <1>10, <1>11, <1>12 DEF SearchNext

\* And so does every other step.
LEMMA NextExact ==
    ASSUME IInv, Exact, [Next]_planningVars
    PROVE  Exact'
<1>1. CASE Search
    BY <1>1, AtWork, SearchExact
<1>2. CASE Build \/ Assign \/ Submit \/ Validate
    <2>1. pc' \in {"edge", "validate", "done"}
        BY <1>2 DEF Build, Begin, Assign, Submit, Validate
    <2>2. QED
        BY <2>1, ExactElsewhere
<1>3. CASE UNCHANGED planningVars
    <2>1. UNCHANGED <<request, planner, edge, search, found, blocks, pc>>
        BY <1>3 DEF planningVars, vars, searching
    <2>2. QED
        BY <2>1, ExactKept DEF Exact
<1>4. QED
    BY <1>1, <1>2, <1>3 DEF Next, Answered

\* What the search knows, throughout.
LEMMA ExactHolds == Spec => [](IInv /\ Whole /\ Exact)
<1>1. Init => Exact
    BY DEF Init, Exact, ExactFits
<1>2. Init => Whole
    BY DEF Init, Whole
<1>3. Init => IInv
    BY InitKeeps
<1>4. (IInv /\ Whole /\ Exact) /\ [Next]_planningVars => (IInv /\ Whole /\ Exact)'
    BY NextKeeps, NextWhole, NextExact
<1>5. QED
    BY <1>1, <1>2, <1>3, <1>4, PTL DEF Spec

\* The routes that avoid what is blocked are those the search is after that come back
\* to no node.
LEMMA UnblockedAre ==
    ASSUME SetupOk, StartedOk, FabricWhole(request), NEW p
    PROVE  p \in Unblocked <=> p \in GoodRoutes(edge) /\ Rival(blocks, p)
<1>1. p \in Unblocked <=> /\ p \in GoodRoutes(edge) /\ ToSet(p) \cap blocks.edges = {}
                          /\ {Edge(e).to : e \in ToSet(p)} \cap blocks.nodes = {}
    BY FeasibleAre DEF Unblocked
<1>2. ASSUME p \in GoodRoutes(edge)
      PROVE  /\ Track(edge, p, Upto(edge).node) /\ Len(p) <= Policy.max_hops
             /\ \A k \in DOMAIN p : PassableOn(edge, p[k])
    BY <1>2 DEF GoodRoutes, Good, Track
<1>3. ToSet(p) = {p[k] : k \in DOMAIN p}
    BY DEF ToSet
<1>4. (\A k \in DOMAIN p : p[k] \notin blocks.edges /\ Edge(p[k]).to \notin blocks.nodes)
          <=> /\ ToSet(p) \cap blocks.edges = {}
              /\ {Edge(e).to : e \in ToSet(p)} \cap blocks.nodes = {}
    BY <1>3
<1>5. QED
    BY <1>1, <1>2, <1>4 DEF Rival, OpenTo

\* Then the outcome of the search is what it is meant to be.
LEMMA ExactGivesSearch == IInv /\ Whole /\ Exact => SearchIsExact
<1> SUFFICES ASSUME IInv, Whole, Exact, pc = "pool", Apart
    PROVE  /\ found # Nothing =>
                 /\ found \in Unblocked
                 /\ \A q \in Unblocked : \/ RouteCost(found) < RouteCost(q)
                                         \/ RouteCost(found) = RouteCost(q) /\ Len(found) <= Len(q)
           /\ found = Nothing /\ search # EmptySearch => Unblocked = {}
    BY DEF SearchIsExact
<1>1. Working /\ pc \in Analysing
    BY DEF IInv, Analysing
<1>2. SetupOk /\ StartedOk /\ BoundEnds(edge)
    BY <1>1, AnalysingFacts
<1>3. FabricWhole(request)
    BY <1>1 DEF Whole, Working
<1>4. Separate
    BY <1>2, EndsHere, SetupFacts DEF Apart, Separate
<1>5. \A p : p \in Unblocked <=> p \in GoodRoutes(edge) /\ Rival(blocks, p)
    BY <1>2, <1>3, UnblockedAre
<1>6. ASSUME found # Nothing
      PROVE  /\ found \in Unblocked
             /\ \A q \in Unblocked : \/ RouteCost(found) < RouteCost(q)
                                     \/ RouteCost(found) = RouteCost(q) /\ Len(found) <= Len(q)
    <2>1. Cheapest(blocks, found)
        BY <1>4, <1>6 DEF Exact, ExactFits
    <2>2. found \in GoodRoutes(edge)
        BY <1>2, <2>1, CheapestIsSimple
    <2>3. QED
        BY <1>5, <2>1, <2>2 DEF Cheapest, Beats
<1>7. ASSUME found = Nothing, search # EmptySearch PROVE Unblocked = {}
    <2>1. \A q : ~Rival(blocks, q)
        BY <1>4, <1>7 DEF Exact, ExactFits
    <2>2. QED
        BY <1>5, <2>1
<1>8. QED
    BY <1>6, <1>7

\* A search comes back with a cheapest route, the shortest of the cheapest, among the
\* simple routes that avoid what is blocked, and without one only where there is none
\* or its budget was spent, for every request and whatever it blocks (shortest_path).
THEOREM SearchesAreExact == Spec => []SearchIsExact
BY ExactHolds, ExactGivesSearch, PTL

-----------------------------------------------------------------------------
(* The routes of the diversity chain are kept *)

\* The routes of the chain share nothing, and what they went through is blocked.
Linked(q, n) ==
    /\ Len(q) = n + 1
    /\ \A i, j \in DOMAIN q : i # j => Disjoint(q[i], q[j])
Covered(q, chain, through) ==
    \A i \in DOMAIN q :
        ToSet(q[i]) \subseteq chain /\ (NodeDisjoint => Interior(q[i]) \subseteq ToSet(through))

\* So many routes that share nothing are among those of the pool.
Held(q, n) ==
    \E S \in SUBSET ToSet(q) : Cardinality(S) = n /\ \A x, y \in S : x = y \/ Disjoint(x, y)

\* What build_pool knows of the chain, as long as it samples and afterwards.
ChainFits(at, w, q, m, t, b) ==
    /\ at \in {"search", "pool"} /\ t # "cheapest" /\ Separate => Linked(q, m.steps)
    /\ at \in {"search", "pool"} /\ t = "chain" /\ Separate =>
          /\ b.edges = m.chain /\ b.nodes = ToSet(m.through)
          /\ Covered(q, m.chain, m.through)
    /\ at = "sets" /\ ~w.exhaustive /\ Separate /\ q # <<>> => Held(q, m.steps + 1)
Chain == ChainFits(pc, walk, pool, sample, task, blocks)

\* All this stays what it is while the request does.
LEMMA ChainKept ==
    ASSUME request' = request, planner' = planner, edge' = edge
    PROVE  \A at, w, q, m, t, b : ChainFits(at, w, q, m, t, b)' <=> ChainFits(at, w, q, m, t, b)
<1>1. Policy' = Policy /\ \A e : Edge(e)' = Edge(e)
    BY RoutesKept
<1>2. \A p, q : Disjoint(p, q)' <=> Disjoint(p, q)
    BY CompatibleKept
<1>3. From(edge)' = From(edge) /\ Upto(edge)' = Upto(edge)
    BY TracksKept
<1>4. Separate' <=> Separate
    BY <1>3 DEF Separate
<1>5. NodeDisjoint' <=> NodeDisjoint
    BY <1>1 DEF NodeDisjoint
<1>6. \A p : Interior(p)' = Interior(p)
    BY <1>1 DEF Interior
<1>7. \A q, n : Linked(q, n)' <=> Linked(q, n)
    BY <1>2 DEF Linked
<1>8. \A q, c, h : Covered(q, c, h)' <=> Covered(q, c, h)
    BY <1>5, <1>6 DEF Covered
<1>9. \A q, n : Held(q, n)' <=> Held(q, n)
    BY <1>2 DEF Held
<1>10. QED
    BY <1>4, <1>7, <1>8, <1>9 DEF ChainFits

\* Sorting leaves no route out.
LEMMA SortedHolds ==
    ASSUME SetupOk, NEW q, Distinct(q)
    PROVE  ToSet(q) \subseteq ToSet(SortedRoutes(q))
<1>1. Built(request) /\ PlannerSet
    BY SetupFacts
<1>2. q \in Seq(Routes)
    <2>1. GoodRoutes(edge) \subseteq Routes
        BY DEF GoodRoutes
    <2>2. QED
        BY <2>1, SeqMonotonic DEF Distinct
<1>3. PICK s : s = SortedRoutes(q)
    OBVIOUS
<1>4. PICK p : Places(p, CandidateOrder, q) /\ s = [k \in DOMAIN q |-> q[p[k]]]
    BY <1>1, <1>2, <1>3, RoutesAreSorted
<1>5. ASSUME NEW i \in DOMAIN q PROVE \E k \in DOMAIN s : s[k] = q[i]
    BY <1>4 DEF Places
<1>6. QED
    BY <1>3, <1>5 DEF ToSet

\* Filling up leaves what was there in its place, and adds nothing where there is
\* nothing to add.
LEMMA FillHolds ==
    ASSUME SetupOk, NEW routes, Distinct(routes), NEW into, Distinct(into)
    PROVE  /\ ToSet(into) \subseteq ToSet(Fill(routes, into))
           /\ routes = <<>> => Len(Fill(routes, into)) = Len(into)
<1>1. PICK R : R = GoodRoutes(edge)
    OBVIOUS
<1>2. routes \in Seq(R) /\ into \in Seq(R)
    BY <1>1 DEF Distinct
<1>3. PICK T : T = {i \in DOMAIN routes : routes[i] \notin ToSet(into)}
    OBVIOUS
<1>4. PICK fresh : fresh = Among(routes, T)
    OBVIOUS
<1>5. T \subseteq DOMAIN routes
    BY <1>3
<1>6. fresh \in Seq(R) /\ Len(fresh) = Cardinality(T)
    <2>1. Among(routes, T) \in Seq(R) /\ Len(Among(routes, T)) = Cardinality(T)
        BY <1>2, <1>5, AmongKeeps
    <2>2. QED
        BY <1>4, <2>1
<1>7. /\ Len(into) \in Nat /\ Len(fresh) \in Nat /\ limits.max_candidate_paths \in Nat
      /\ DOMAIN into = 1..Len(into)
    BY <1>2, <1>6, LenProperties, SetupFacts
<1>8. PICK room \in Int : room = limits.max_candidate_paths - Len(into)
    BY <1>7
<1>9. CASE room <= 0
    <2>1. Fill(routes, into) = into
        BY <1>8, <1>9 DEF Fill
    <2>2. QED
        BY <2>1
<1>10. CASE ~(room <= 0)
    <2>1. PICK k : k = Min({room, Len(fresh)})
        OBVIOUS
    <2>2. k \in Nat /\ k <= Len(fresh)
        BY <1>7, <1>10, <2>1, MinOfTwo
    <2>3. PICK t : t = SubSeq(fresh, 1, k)
        OBVIOUS
    <2>4. t \in Seq(R) /\ Len(t) = k
        BY <1>6, <2>2, <2>3, PrefixIs
    <2>5. Fill(routes, into) = into \o t
        BY <1>3, <1>4, <1>8, <1>10, <2>1, <2>3 DEF Fill
    <2>6. PICK c : c = into \o t
        OBVIOUS
    <2>7. /\ Len(c) = Len(into) + Len(t) /\ c \in Seq(R)
          /\ \A i \in 1..(Len(into) + Len(t)) : i <= Len(into) => c[i] = into[i]
        BY <1>2, <2>4, <2>6, ConcatProperties
    <2>8. DOMAIN c = 1..(Len(into) + k)
        BY <2>4, <2>7, LenProperties
    <2>9. ASSUME NEW i \in DOMAIN into PROVE \E j \in DOMAIN c : c[j] = into[i]
        <3>1. i \in DOMAIN c /\ i \in 1..(Len(into) + Len(t)) /\ i <= Len(into)
            BY <1>7, <2>2, <2>4, <2>8
        <3>2. QED
            BY <2>7, <3>1
    <2>10. ToSet(into) \subseteq ToSet(c)
        BY <2>9 DEF ToSet
    <2>11. ASSUME routes = <<>> PROVE Len(c) = Len(into)
        <3>1. T = {}
            BY <1>5, <2>11
        <3>2. Len(fresh) = 0
            BY <1>6, <3>1, FS_EmptySet
        <3>3. k = 0
            BY <2>2, <3>2
        <3>4. QED
            BY <1>7, <2>4, <2>7, <3>3
    <2>12. QED
        BY <2>5, <2>6, <2>10, <2>11
<1>11. QED
    BY <1>9, <1>10

\* The routes of a chain are so many that share nothing, in any pool that holds them.
LEMMA LinkedHolds ==
    ASSUME NEW q, Distinct(q), NEW n \in Nat, Linked(q, n), NEW r, ToSet(q) \subseteq ToSet(r)
    PROVE  Held(r, n + 1)
<1>1. /\ Len(q) \in Nat /\ DOMAIN q = 1..Len(q) /\ Len(q) = n + 1
      /\ \A i, j \in DOMAIN q : q[i] = q[j] => i = j
    BY LenProperties DEF Distinct, IsInjective, Linked
<1>2. PICK S : S = ToSet(q)
    OBVIOUS
<1>3. Cardinality(S) = n + 1
    <2>1. q \in Surjection(1..(n + 1), S) /\ q \in Injection(1..(n + 1), S)
        <3>1. S = {q[i] : i \in DOMAIN q} /\ DOMAIN q = 1..(n + 1) /\ q = [i \in 1..(n + 1) |-> q[i]]
            BY <1>1, <1>2 DEF ToSet, Distinct
        <3>2. q \in [1..(n + 1) -> S]
            BY <3>1
        <3>3. \A x \in S : \E i \in 1..(n + 1) : q[i] = x
            BY <3>1
        <3>4. QED
            BY <1>1, <3>1, <3>2, <3>3 DEF Injection, Surjection, IsInjective
    <2>2. IsFiniteSet(1..(n + 1)) /\ Cardinality(1..(n + 1)) = n + 1
        BY FS_Interval
    <2>3. QED
        BY <2>1, <2>2, FS_Surjection
<1>4. ASSUME NEW x \in S, NEW y \in S PROVE x = y \/ Disjoint(x, y)
    <2>1. PICK i \in DOMAIN q : q[i] = x
        BY <1>2 DEF ToSet
    <2>2. PICK j \in DOMAIN q : q[j] = y
        BY <1>2 DEF ToSet
    <2>3. QED
        BY <2>1, <2>2 DEF Linked
<1>5. QED
    BY <1>2, <1>3, <1>4 DEF Held

\* The end of the sample keeps the routes of the chain, however many others it adds.
LEMMA FinishedHolds ==
    ASSUME SetupOk, NEW kept, Distinct(kept), NEW extra, Distinct(extra), Distinct(sample.candidates),
           PoolFinished(kept, extra)
    PROVE  /\ pc' = "sets" /\ ToSet(kept) \subseteq ToSet(pool')
           /\ kept = <<>> /\ extra = <<>> /\ sample.candidates = <<>> => pool' = <<>>
<1>1. PICK c : c = sample.candidates
    OBVIOUS
<1>2. pc' = "sets" /\ pool' = SortedRoutes(Fill(c, Fill(SortedRoutes(extra), kept)))
    BY <1>1 DEF PoolFinished, SortedRoutes
<1>3. PICK x : x = SortedRoutes(extra)
    OBVIOUS
<1>4. PICK q : q = Fill(x, kept)
    OBVIOUS
<1>5. PICK r : r = Fill(c, q)
    OBVIOUS
<1>6. pool' = SortedRoutes(r)
    BY <1>2, <1>3, <1>4, <1>5
<1>7. Distinct(x) /\ Len(x) = Len(extra)
    BY <1>3, SortedIsDistinct
<1>8. Distinct(q)
    BY <1>4, <1>7, FillKeeps
<1>9. Distinct(r)
    BY <1>1, <1>5, <1>8, FillKeeps
<1>10. ToSet(kept) \subseteq ToSet(q) /\ (x = <<>> => Len(q) = Len(kept))
    BY <1>4, <1>7, FillHolds
<1>11. ToSet(q) \subseteq ToSet(r) /\ (c = <<>> => Len(r) = Len(q))
    BY <1>1, <1>5, <1>8, FillHolds
<1>12. ToSet(r) \subseteq ToSet(pool')
    BY <1>6, <1>9, SortedHolds
<1>13. ASSUME kept = <<>>, extra = <<>>, c = <<>> PROVE pool' = <<>>
    <2>1. Len(<<>>) = 0
        BY NothingPooled
    <2>2. x \in Seq(GoodRoutes(edge)) /\ Len(x) = 0
        BY <1>7, <1>13, <2>1 DEF Distinct
    <2>3. x = <<>>
        BY <2>2, EmptySeq
    <2>4. Len(r) = 0
        BY <1>10, <1>11, <1>13, <2>1, <2>3
    <2>5. Distinct(pool') /\ Len(pool') = 0
        BY <1>6, <1>9, <2>4, SortedIsDistinct
    <2>6. QED
        BY <2>5, EmptySeq DEF Distinct
<1>14. QED
    BY <1>1, <1>2, <1>10, <1>11, <1>12, <1>13

\* A route the planner may use is one that make_candidate accepts, and where the two
\* ends are different nodes it crosses an edge.
LEMMA GoodIsAccepted ==
    ASSUME SetupOk, BoundEnds(edge), NEW p \in GoodRoutes(edge)
    PROVE  CandidateOk(p) /\ (Separate => 1 \in DOMAIN p)
<1>1. /\ Track(edge, p, Upto(edge).node) /\ Len(p) <= Policy.max_hops
      /\ IsInjective(Visits(p, From(edge).node)) /\ p \in Routes
    BY DEF GoodRoutes, Good
<1>2. Source = From(edge).node
    BY EndsHere, SetupFacts
<1>3. CandidateOk(p)
    BY <1>1, <1>2 DEF CandidateOk, edges_form_simple_path, Visits
<1>4. ASSUME Separate PROVE 1 \in DOMAIN p
    <2>1. /\ Visits(p, From(edge).node)[1] = From(edge).node
          /\ Visits(p, From(edge).node)[Len(p) + 1] = Upto(edge).node
        BY <1>1, VisitsIs DEF Track
    <2>2. Len(p) \in Nat /\ DOMAIN p = 1..Len(p)
        BY <1>1, RoutePositions
    <2>3. Len(p) # 0
        BY <1>4, <2>1 DEF Separate
    <2>4. QED
        BY <2>2, <2>3
<1>5. QED
    BY <1>3, <1>4

\* The next route of the chain is a new one and shares nothing with those before it.
LEMMA ChainGrows ==
    ASSUME SetupOk, BoundEnds(edge), Separate, NEW b, NEW p, Cheapest(b, p),
           NEW q, Distinct(q), NEW through, b.nodes = ToSet(through), Covered(q, b.edges, through)
    PROVE  /\ p \in GoodRoutes(edge) /\ CandidateOk(p) /\ p \notin ToSet(q)
           /\ \A i \in DOMAIN q : Disjoint(q[i], p) /\ Disjoint(p, q[i])
<1>1. p \in GoodRoutes(edge) /\ CandidateOk(p) /\ 1 \in DOMAIN p
    BY CheapestIsSimple, GoodIsAccepted
<1>2. Len(p) \in Nat /\ DOMAIN p = 1..Len(p)
    BY <1>1, RoutePositions DEF GoodRoutes
<1>3. \A k \in DOMAIN p : p[k] \notin b.edges /\ Edge(p[k]).to \notin b.nodes
    BY DEF Cheapest, Rival, OpenTo
<1>4. ASSUME NEW i \in DOMAIN q PROVE ToSet(q[i]) \cap ToSet(p) = {}
    <2>1. ToSet(q[i]) \subseteq b.edges
        BY DEF Covered
    <2>2. \A e \in ToSet(p) : e \notin b.edges
        BY <1>3 DEF ToSet
    <2>3. QED
        BY <2>1, <2>2
<1>5. ASSUME NEW i \in DOMAIN q, NodeDisjoint PROVE Interior(q[i]) \cap Interior(p) = {}
    <2>1. Interior(q[i]) \subseteq b.nodes
        BY <1>5 DEF Covered
    <2>2. \A k \in 1..(Len(p) - 1) : k \in DOMAIN p
        BY <1>2
    <2>3. \A n \in Interior(p) : n \notin b.nodes
        BY <1>3, <2>2 DEF Interior
    <2>4. QED
        BY <2>1, <2>3
<1>6. ASSUME NEW i \in DOMAIN q PROVE Disjoint(q[i], p) /\ Disjoint(p, q[i])
    BY <1>4, <1>5 DEF Disjoint, NodeDisjoint
<1>7. p \notin ToSet(q)
    <2>1. p[1] \in ToSet(p)
        BY <1>1 DEF ToSet
    <2>2. ASSUME NEW i \in DOMAIN q PROVE q[i] # p
        BY <1>4, <2>1
    <2>3. QED
        BY <2>2 DEF ToSet
<1>8. QED
    BY <1>1, <1>6, <1>7

\* The interior of a route as a sequence.
LEMMA InteriorRow ==
    ASSUME NEW p
    PROVE  ToSet(InteriorSeq(p)) = Interior(p)
BY DEF ToSet, InteriorSeq, Interior

\* What the chain knows once the route is one of the pool's.
LEMMA GrownIsLinked ==
    ASSUME NEW q, NEW p \in GoodRoutes(edge), Distinct(q), NEW n, Linked(q, n), n \in Nat,
           \A i \in DOMAIN q : Disjoint(q[i], p) /\ Disjoint(p, q[i])
    PROVE  Linked(Append(q, p), n + 1)
<1>1. PICK t : t = Append(q, p)
    OBVIOUS
<1>2. q \in Seq(GoodRoutes(edge)) /\ Len(q) = n + 1 /\ DOMAIN q = 1..(n + 1)
    BY LenProperties DEF Distinct, Linked
<1>3. /\ Len(t) = n + 2 /\ DOMAIN t = 1..(n + 2)
      /\ (\A i \in DOMAIN q : t[i] = q[i]) /\ t[n + 2] = p
    <2>1. /\ Len(t) = Len(q) + 1 /\ DOMAIN t = 1..(Len(q) + 1)
          /\ (\A i \in DOMAIN q : t[i] = q[i]) /\ t[Len(q) + 1] = p
        BY <1>1, <1>2, AppendIs
    <2>2. Len(q) + 1 = n + 2
        BY <1>2
    <2>3. QED
        BY <2>1, <2>2
<1>4. ASSUME NEW i \in DOMAIN t, NEW j \in DOMAIN t, i # j PROVE Disjoint(t[i], t[j])
    <2>1. (i \in DOMAIN q \/ i = n + 2) /\ (j \in DOMAIN q \/ j = n + 2)
        BY <1>2, <1>3
    <2>2. CASE i \in DOMAIN q /\ j \in DOMAIN q
        BY <1>3, <1>4, <2>2 DEF Linked
    <2>3. CASE i \in DOMAIN q /\ j = n + 2
        BY <1>3, <2>3
    <2>4. CASE i = n + 2 /\ j \in DOMAIN q
        BY <1>3, <2>4
    <2>5. QED
        BY <1>4, <2>1, <2>2, <2>3, <2>4
<1>5. Len(t) = (n + 1) + 1
    BY <1>3
<1>6. QED
    BY <1>1, <1>4, <1>5 DEF Linked

\* And what its search blocks next.
LEMMA GrownIsCovered ==
    ASSUME NEW q, NEW p \in GoodRoutes(edge), Distinct(q),
           NEW chain, NEW through \in Seq(Int), Covered(q, chain, through),
           NEW h \in Seq(Int), NodeDisjoint => ToSet(h) = Interior(p)
    PROVE  Covered(Append(q, p), chain \cup ToSet(p), through \o h)
<1>1. PICK t : t = Append(q, p)
    OBVIOUS
<1>2. q \in Seq(GoodRoutes(edge)) /\ Len(q) \in Nat /\ DOMAIN q = 1..Len(q)
    BY LenProperties DEF Distinct
<1>3. DOMAIN t = 1..(Len(q) + 1) /\ (\A i \in DOMAIN q : t[i] = q[i]) /\ t[Len(q) + 1] = p
    BY <1>1, <1>2, AppendIs
<1>4. PICK c : c = through \o h
    OBVIOUS
<1>5. ToSet(through) \subseteq ToSet(c) /\ ToSet(h) \subseteq ToSet(c)
    <2>1. /\ c \in Seq(Int) /\ Len(c) = Len(through) + Len(h)
          /\ \A i \in 1..(Len(through) + Len(h)) :
                 c[i] = IF i <= Len(through) THEN through[i] ELSE h[i - Len(through)]
        BY <1>4, ConcatProperties
    <2>2. /\ Len(through) \in Nat /\ Len(h) \in Nat /\ DOMAIN through = 1..Len(through)
          /\ DOMAIN h = 1..Len(h) /\ DOMAIN c = 1..(Len(through) + Len(h))
        BY <2>1, LenProperties
    <2>3. ASSUME NEW i \in DOMAIN through PROVE i \in DOMAIN c /\ c[i] = through[i]
        BY <2>1, <2>2
    <2>4. ASSUME NEW i \in DOMAIN h PROVE \E j \in DOMAIN c : c[j] = h[i]
        <3>0. PICK m, n \in Nat : m = Len(through) /\ n = Len(h)
            BY <2>2
        <3>5. i \in 1..n
            BY <2>2, <3>0
        <3>6. i + m \in Nat
            BY <3>5
        <3>1. PICK j \in Nat : m = Len(through) /\ n = Len(h) /\ j = i + m
            BY <3>0, <3>6
        <3>2. i \in 1..n /\ j \in 1..(m + n) /\ ~(j <= m) /\ j - m = i
            BY <3>1, <3>5
        <3>3. c[j] = h[j - m] /\ j \in DOMAIN c
            BY <2>1, <2>2, <3>1, <3>2
        <3>4. QED
            BY <3>2, <3>3
    <2>5. QED
        BY <2>3, <2>4 DEF ToSet
<1>6. ASSUME NEW i \in DOMAIN t
      PROVE  /\ ToSet(t[i]) \subseteq chain \cup ToSet(p)
             /\ NodeDisjoint => Interior(t[i]) \subseteq ToSet(c)
    <2>1. i \in DOMAIN q \/ i = Len(q) + 1
        <3>1. PICK n \in Nat : n = Len(q)
            BY <1>2
        <3>2. i \in 1..(n + 1) /\ DOMAIN q = 1..n
            BY <1>2, <1>3, <3>1
        <3>3. QED
            BY <3>1, <3>2
    <2>2. CASE i \in DOMAIN q
        BY <1>3, <1>5, <2>2 DEF Covered
    <2>3. CASE i = Len(q) + 1
        BY <1>3, <1>5, <2>3
    <2>4. QED
        BY <2>1, <2>2, <2>3
<1>7. QED
    BY <1>1, <1>4, <1>6 DEF Covered

\* What build_pool knows of the chain once a search has come back.
Chained == ChainFits(pc', walk', pool', sample', task', blocks')

\* The probes leave the chain in the pool.
LEMMA ProbingHolds ==
    ASSUME Sampling, NEW kept, Distinct(kept), NEW n \in Nat, Linked(kept, n), NEW chain, NEW through,
           Probing(kept, chain, through, n)
    PROVE  Chained
<1>1. SetupOk /\ sample \in SampleStates /\ Distinct(sample.candidates)
    BY DEF Sampling
<1>2. ASSUME PoolFinished(kept, <<>>), sample' = [sample EXCEPT !.steps = n] PROVE Chained
    <2>1. Distinct(<<>>)
        BY NothingPooled
    <2>2. pc' = "sets" /\ ToSet(kept) \subseteq ToSet(pool')
        BY <1>1, <1>2, <2>1, FinishedHolds
    <2>3. PICK r : r = pool'
        OBVIOUS
    <2>4. Held(r, n + 1)
        BY <2>2, <2>3, LinkedHolds
    <2>5. sample'.steps = n
        BY <1>1, <1>2 DEF SampleStates
    <2>6. QED
        BY <2>2, <2>3, <2>4, <2>5 DEF Chained, ChainFits
<1>3. PICK rest : rest = Tail(Probes(kept[1], through))
    OBVIOUS
<1>4. ASSUME pool' = kept,
             sample' = [sample EXCEPT !.chain = chain, !.through = through, !.steps = n, !.probes = rest],
             NEW edges, NEW nodes, Start("probe", edges, nodes)
      PROVE  Chained
    <2>1. task' = "probe" /\ pc' # "sets"
        BY <1>4 DEF Start
    <2>2. sample'.steps = n
        BY <1>1, <1>4 DEF SampleStates
    <2>3. QED
        BY <1>4, <2>1, <2>2 DEF Chained, ChainFits
<1>5. QED
    BY <1>2, <1>3, <1>4 DEF Probing

\* The next search of the chain blocks all the chain went through.
LEMMA ChainingHolds ==
    ASSUME Sampling, NEW kept, Distinct(kept), NEW n \in Nat, Linked(kept, n), NEW chain, NEW through,
           Covered(kept, chain, through), Chaining(kept, chain, through, n)
    PROVE  Chained
<1>1. sample \in SampleStates
    BY DEF Sampling
<1>2. ASSUME pool' = kept,
             sample' = [sample EXCEPT !.chain = chain, !.through = through, !.steps = n],
             Start("chain", chain, ToSet(through))
      PROVE  Chained
    <2>1. task' = "chain" /\ pc' # "sets" /\ blocks'.edges = chain /\ blocks'.nodes = ToSet(through)
        BY <1>2 DEF Start
    <2>2. sample'.steps = n /\ sample'.chain = chain /\ sample'.through = through
        BY <1>1, <1>2 DEF SampleStates
    <2>3. QED
        BY <1>2, <2>1, <2>2 DEF Chained, ChainFits
<1>3. ASSUME Probing(kept, chain, through, n) PROVE Chained
    BY <1>3, ProbingHolds
<1>4. QED
    BY <1>2, <1>3 DEF Chaining

\* The chain begins with a cheapest route, found or enumerated.
LEMMA CheapestHolds ==
    ASSUME Working, Pool, verdict' = verdict, task = "cheapest"
    PROVE  Chained
<1>1. /\ SetupOk /\ StartedOk /\ BoundEnds(edge) /\ Walks(walk) /\ walk' = walk /\ ~walk.exhaustive
      /\ combo' = EmptyCombo /\ TaskOk(task, walk, pool, sample)
      /\ sample \in SampleStates /\ Distinct(sample.candidates)
      /\ found = Nothing \/ Track(edge, found, Upto(edge).node)
    BY CameBack
<1>2. Sampling
    BY <1>1 DEF Sampling, TaskOk
<1>3. PICK usable \in BOOLEAN : usable = (found # Nothing /\ CandidateOk(found))
    OBVIOUS
<1>4. PICK c, k : c = sample.candidates /\ k = Min({1, Len(sample.candidates)})
    OBVIOUS
<1>5. PICK first : first = IF usable THEN <<found>> ELSE SubSeq(c, 1, k)
    OBVIOUS
<1>6. /\ c \in Seq(GoodRoutes(edge)) /\ Len(c) \in Nat /\ DOMAIN c = 1..Len(c)
      /\ k \in Nat /\ k <= Len(c) /\ k <= 1 /\ (k = 0 => Len(c) = 0)
    <2>1. c \in Seq(GoodRoutes(edge)) /\ Len(c) \in Nat /\ DOMAIN c = 1..Len(c)
        BY <1>1, <1>4, LenProperties DEF Distinct
    <2>2. PICK j \in Nat : j = Len(c)
        BY <2>1
    <2>3. k = Min({1, j})
        BY <1>4, <2>2
    <2>4. k \in Nat /\ k <= 1 /\ k <= j /\ (k = 1 \/ k = j)
        BY <2>3, MinOfTwo
    <2>5. k = 0 => j = 0
        BY <2>4
    <2>6. QED
        BY <2>1, <2>2, <2>4, <2>5
<1>7. \/ first = <<>> /\ c = <<>>
      \/ first \in Seq(GoodRoutes(edge)) /\ Len(first) = 1
    <2>1. CASE usable
        <3>1. found \in GoodRoutes(edge)
            BY <1>1, <1>3, <2>1, AcceptedIsGood
        <3>2. first = <<found>>
            BY <1>5, <2>1
        <3>3. QED
            BY <3>1, <3>2
    <2>2. CASE ~usable
        <3>1. first \in Seq(GoodRoutes(edge)) /\ Len(first) = k
            BY <1>5, <1>6, <2>2, PrefixIs
        <3>2. CASE k = 0
            BY <1>6, <3>1, <3>2, EmptySeq
        <3>3. QED
            BY <1>6, <3>1, <3>2
    <2>3. QED
        BY <2>1, <2>2
<1>8. PICK p, through : p = first[1] /\ through = IF NodeDisjoint THEN InteriorSeq(first[1]) ELSE <<>>
    OBVIOUS
<1>9. IF first = <<>> THEN PoolFinished(<<>>, <<>>) ELSE Chaining(first, ToSet(p), through, 0)
    BY <1>3, <1>4, <1>5, <1>8 DEF Pool
<1>10. CASE first = <<>>
    <2>1. Distinct(<<>>)
        BY NothingPooled
    <2>2. c = <<>>
        BY <1>7, <1>10
    <2>3. pc' = "sets" /\ pool' = <<>>
        BY <1>1, <1>4, <1>9, <1>10, <2>1, <2>2, FinishedHolds
    <2>4. QED
        BY <2>3 DEF Chained, ChainFits
<1>11. CASE first # <<>>
    <2>1. first \in Seq(GoodRoutes(edge)) /\ Len(first) = 1 /\ DOMAIN first = 1..1
        BY <1>7, <1>11, LenProperties
    <2>2. Distinct(first) /\ Linked(first, 0)
        BY <2>1 DEF Distinct, Linked, IsInjective
    <2>3. Covered(first, ToSet(p), through)
        <3>1. ASSUME NEW i \in DOMAIN first PROVE first[i] = p
            BY <1>8, <2>1
        <3>2. NodeDisjoint => ToSet(through) = Interior(p)
            BY <1>8, InteriorRow
        <3>3. QED
            BY <3>1, <3>2 DEF Covered
    <2>4. Chaining(first, ToSet(p), through, 0)
        BY <1>9, <1>11
    <2>5. QED
        BY <1>2, <2>2, <2>3, <2>4, ChainingHolds
<1>12. QED
    BY <1>10, <1>11

\* A route more of the chain, or its end.
LEMMA ChainHolds ==
    ASSUME Working, Pool, verdict' = verdict, task = "chain", Exact, Chain, Separate
    PROVE  Chained
<1>1. /\ SetupOk /\ StartedOk /\ BoundEnds(edge) /\ Walks(walk) /\ walk' = walk /\ ~walk.exhaustive
      /\ combo' = EmptyCombo /\ TaskOk(task, walk, pool, sample)
      /\ Distinct(pool) /\ sample \in SampleStates /\ Distinct(sample.candidates)
    BY CameBack
<1>2. Sampling
    BY <1>1 DEF Sampling, TaskOk
<1>3. pc = "pool"
    BY DEF Pool
<1>4. PICK q, chain, through, n, b : /\ q = pool /\ b = blocks
          /\ chain = sample.chain /\ through = sample.through /\ n = sample.steps
    OBVIOUS
<1>5. /\ Linked(q, n) /\ Covered(q, chain, through) /\ b.edges = chain /\ b.nodes = ToSet(through)
    BY <1>3, <1>4 DEF Chain, ChainFits
<1>6. n \in Nat /\ through \in Seq(Int) /\ Distinct(q)
    BY <1>1, <1>4 DEF SampleStates
<1>7. CASE found = Nothing
    <2>1. Probing(q, chain, through, n)
        BY <1>4, <1>7 DEF Pool
    <2>2. QED
        BY <1>2, <1>5, <1>6, <2>1, ProbingHolds
<1>8. CASE found # Nothing
    <2>1. PICK p : p = found
        OBVIOUS
    <2>2. Cheapest(b, p)
        BY <1>3, <1>4, <1>8, <2>1 DEF Exact, ExactFits
    <2>3. /\ p \in GoodRoutes(edge) /\ CandidateOk(p) /\ p \notin ToSet(q)
          /\ \A i \in DOMAIN q : Disjoint(q[i], p) /\ Disjoint(p, q[i])
        BY <1>1, <1>5, <1>6, <2>2, ChainGrows
    <2>4. PICK h, t : h = (IF NodeDisjoint THEN InteriorSeq(p) ELSE <<>>) /\ t = Append(q, p)
        OBVIOUS
    <2>5. Chaining(t, chain \cup ToSet(p), through \o h, n + 1)
        <3>1. ~Present(p) /\ p # Nothing /\ CandidateOk(p)
            BY <1>4, <1>8, <2>1, <2>3 DEF Present
        <3>2. QED
            BY <1>4, <2>1, <2>4, <3>1 DEF Pool
    <2>6. h \in Seq(Int) /\ (NodeDisjoint => ToSet(h) = Interior(p))
        <3>1. InteriorSeq(p) \in Seq(Int) /\ <<>> \in Seq(Int)
            BY <1>1, <2>3, InteriorIsRow DEF GoodRoutes
        <3>2. QED
            BY <2>4, <3>1, InteriorRow
    <2>7. Distinct(t)
        BY <1>1, <1>6, <2>3, <2>4, PoolGrows
    <2>8. Linked(t, n + 1) /\ n + 1 \in Nat
        BY <1>5, <1>6, <2>3, <2>4, GrownIsLinked
    <2>9. Covered(t, chain \cup ToSet(p), through \o h)
        BY <1>5, <1>6, <2>3, <2>4, <2>6, GrownIsCovered
    <2>10. QED
        BY <1>2, <2>5, <2>7, <2>8, <2>9, ChainingHolds
<1>9. QED
    BY <1>7, <1>8

\* A route more of the probes, or their end.
LEMMA ProbeHolds ==
    ASSUME Working, Pool, verdict' = verdict, task = "probe", Chain, Separate
    PROVE  Chained
<1>1. /\ SetupOk /\ BoundEnds(edge)
      /\ Distinct(pool) /\ sample \in SampleStates /\ Distinct(sample.extra) /\ Distinct(sample.candidates)
      /\ found = Nothing \/ Track(edge, found, Upto(edge).node)
    BY CameBack
<1>2. pc = "pool"
    BY DEF Pool
<1>3. PICK q, n : q = pool /\ n = sample.steps
    OBVIOUS
<1>4. Linked(q, n) /\ n \in Nat /\ Distinct(q)
    BY <1>1, <1>2, <1>3 DEF Chain, ChainFits, SampleStates
<1>5. PICK new \in BOOLEAN :
          new = ((found # Nothing /\ CandidateOk(found)) /\ ~Present(found) /\ found \notin ToSet(sample.extra))
    OBVIOUS
<1>6. PICK extra : extra = IF new THEN Append(sample.extra, found) ELSE sample.extra
    OBVIOUS
<1>7. Distinct(extra)
    <2>1. CASE new
        <3>1. found \in GoodRoutes(edge) /\ found \notin ToSet(sample.extra)
            BY <1>1, <1>5, <2>1, AcceptedIsGood
        <3>2. PICK p, x : p = found /\ x = sample.extra
            OBVIOUS
        <3>3. Distinct(Append(x, p))
            BY <1>1, <3>1, <3>2, PoolGrows
        <3>4. QED
            BY <1>6, <2>1, <3>2, <3>3
    <2>2. CASE ~new
        BY <1>1, <1>6, <2>2
    <2>3. QED
        BY <2>1, <2>2
<1>8. PICK b, rest : b = sample.probes[1] /\ rest = Tail(sample.probes)
    OBVIOUS
<1>9. IF sample.probes = <<>> THEN PoolFinished(q, extra) /\ sample' = sample
      ELSE /\ sample' = [sample EXCEPT !.extra = extra, !.probes = rest]
           /\ Start("probe", b.edges, b.nodes) /\ pool' = q
    BY <1>3, <1>5, <1>6, <1>8 DEF Pool
<1>10. CASE sample.probes = <<>>
    <2>1. pc' = "sets" /\ ToSet(q) \subseteq ToSet(pool')
        BY <1>1, <1>4, <1>7, <1>9, <1>10, FinishedHolds
    <2>2. PICK r : r = pool'
        OBVIOUS
    <2>3. Held(r, n + 1)
        BY <1>4, <2>1, <2>2, LinkedHolds
    <2>4. sample'.steps = n
        BY <1>3, <1>9, <1>10
    <2>5. QED
        BY <2>1, <2>2, <2>3, <2>4 DEF Chained, ChainFits
<1>11. CASE sample.probes # <<>>
    <2>1. task' = "probe" /\ pc' # "sets" /\ pool' = q
        BY <1>9, <1>11 DEF Start
    <2>2. sample'.steps = n
        BY <1>1, <1>3, <1>9, <1>11 DEF SampleStates
    <2>3. QED
        BY <1>4, <2>1, <2>2 DEF Chained, ChainFits
<1>12. QED
    BY <1>10, <1>11

\* Where nothing is sampled and no set is chosen there is nothing to know.
LEMMA ChainElsewhere ==
    ASSUME pc' \notin {"search", "pool", "sets"}
    PROVE  Chain'
BY DEF Chain, ChainFits

\* Every step of the planner at work keeps what is known of the chain.
LEMMA SearchHolds ==
    ASSUME Working, SearchNext, verdict' = verdict, Exact, Chain
    PROVE  Chain'
<1>1. ASSUME UNCHANGED <<request, planner, edge>>, Chained PROVE Chain'
    BY <1>1, ChainKept DEF Chain, Chained
<1>2. CASE Analyse
    <2>1. pc' \in {"sweep", "edge", "assign"}
        BY <1>2 DEF Analyse, Refuse, Settle
    <2>2. QED
        BY <2>1, ChainElsewhere
<1>3. CASE Sweep
    <2>1. pc' = "walk"
        BY <1>3 DEF Sweep
    <2>2. QED
        BY <2>1, ChainElsewhere
<1>4. CASE Walk
    <2>1. pc = "walk" /\ pc' = pc
        BY <1>4 DEF Walk, Walked
    <2>2. QED
        BY <2>1, ChainElsewhere
<1>5. CASE SweepEnd
    <2>1. UNCHANGED <<request, planner, edge>>
        BY <1>5 DEF SweepEnd
    <2>2. CASE pc' = "sweep"
        BY <2>2, ChainElsewhere
    <2>3. ASSUME walk' = [walk EXCEPT !.exhaustive = TRUE], pc' = "sets" PROVE Chain'
        <3>1. pc = "walk" /\ pc \in Analysing
            BY <1>5 DEF SweepEnd, Analysing
        <3>2. Walks(walk)
            BY <3>1, AnalysingFacts DEF AnalysisFits
        <3>3. walk'.exhaustive
            BY <2>3, <3>2 DEF Walks, WalkStates
        <3>4. QED
            BY <1>1, <2>1, <2>3, <3>3 DEF Chained, ChainFits
    <2>4. ASSUME Start("cheapest", {}, {}) PROVE Chain'
        <3>1. task' = "cheapest" /\ pc' # "sets"
            BY <2>4 DEF Start
        <3>2. QED
            BY <1>1, <2>1, <3>1 DEF Chained, ChainFits
    <2>5. QED
        BY <1>5, <2>2, <2>3, <2>4 DEF SweepEnd
<1>6. CASE Pop \/ Exhausted
    <2>1. /\ UNCHANGED <<request, planner, edge, walk, pool, sample, task, blocks>>
          /\ pc = "search" /\ pc' \in {"search", "pool"}
        BY <1>6 DEF Pop, Exhausted, searching
    <2>2. Chained
        BY <2>1 DEF Chain, Chained, ChainFits
    <2>3. QED
        BY <1>1, <2>1, <2>2
<1>7. CASE Pool
    <2>1. UNCHANGED <<request, planner, edge, walk>> /\ pc = "pool"
        BY <1>7 DEF Pool
    <2>2. CASE Separate
        <3>1. task \in {"cheapest", "chain", "probe"}
            BY <1>7 DEF Pool
        <3>2. Chained
            BY <1>7, <2>2, <3>1, CheapestHolds, ChainHolds, ProbeHolds
        <3>3. QED
            BY <1>1, <2>1, <3>2
    <2>3. CASE ~Separate
        BY <1>1, <2>1, <2>3 DEF Chained, ChainFits
    <2>4. QED
        BY <2>2, <2>3
<1>8. CASE Choose
    <2>1. UNCHANGED <<request, planner, edge, walk, pool, sample, task, blocks, pc>>
        BY <1>8 DEF Choose, Chose
    <2>2. Chained
        BY <2>1 DEF Chain, Chained
    <2>3. QED
        BY <1>1, <2>1, <2>2
<1>9. CASE Conclude
    <2>1. pc' \in {"certify", "edge", "assign"}
        BY <1>9 DEF Conclude, Settle
    <2>2. QED
        BY <2>1, ChainElsewhere
<1>10. CASE Augment
    <2>1. pc = "certify" /\ pc' = pc
        BY <1>10 DEF Augment
    <2>2. QED
        BY <2>1, ChainElsewhere
<1>11. CASE Certify
    <2>1. pc' \in {"edge", "assign"}
        BY <1>11 DEF Certify, Settle
    <2>2. QED
        BY <2>1, ChainElsewhere
<1>12. QED
    BY <1>2, <1>3, <1>4, <1>5, <1>6, <1>7, <1>8, <1>9, <1>10, <1>11 DEF SearchNext

\* And so does every other step.
LEMMA NextHolds ==
    ASSUME IInv, Exact, Chain, [Next]_planningVars
    PROVE  Chain'
<1>1. CASE Search
    BY <1>1, AtWork, SearchHolds
<1>2. CASE Build \/ Assign \/ Submit \/ Validate
    <2>1. pc' \in {"edge", "validate", "done"}
        BY <1>2 DEF Build, Begin, Assign, Submit, Validate
    <2>2. QED
        BY <2>1, ChainElsewhere
<1>3. CASE UNCHANGED planningVars
    <2>1. UNCHANGED <<request, planner, edge, walk, pool, sample, task, blocks, pc>>
        BY <1>3 DEF planningVars, vars, searching
    <2>2. QED
        BY <2>1, ChainKept DEF Chain
<1>4. QED
    BY <1>1, <1>2, <1>3 DEF Next, Answered

\* What is known of the chain, throughout.
LEMMA ChainThroughout == Spec => [](IInv /\ Exact /\ Chain)
<1>1. Init => Chain
    BY DEF Init, Chain, ChainFits
<1>2. Spec => [](IInv /\ Exact)
    BY ExactHolds, PTL
<1>3. (IInv /\ Exact) /\ Chain /\ [Next]_planningVars => Chain'
    BY NextHolds
<1>4. QED
    BY <1>1, <1>2, <1>3, PTL DEF Spec

\* Then the pool holds the chain whenever the choice of sets begins.
LEMMA ChainGivesKept == IInv /\ Chain => ChainIsKept
<1> SUFFICES ASSUME IInv, Chain, pc = "sets", ~walk.exhaustive, Apart, pool # <<>>,
                    sample.steps = Wanted - 1
    PROVE  \E s \in kSubset(Wanted, ToSet(pool)) : \A p, q \in s : p = q \/ Disjoint(p, q)
    BY DEF ChainIsKept
<1>1. Working /\ pc \in Analysing
    BY DEF IInv, Analysing
<1>2. SetupOk /\ BoundEnds(edge)
    BY <1>1, AnalysingFacts
<1>3. Separate
    BY <1>2, EndsHere, SetupFacts DEF Apart, Separate
<1>4. Wanted \in Nat
    BY <1>2, SetupFacts
<1>5. sample.steps + 1 = Wanted
    BY <1>4
<1>6. Held(pool, Wanted)
    BY <1>3, <1>5 DEF Chain, ChainFits
<1>7. QED
    BY <1>6 DEF Held, kSubset

\* Where the diversity chain found as many routes as are wanted, the pool holds so
\* many that share nothing, for every request: later and cheaper candidates never
\* crowd them out (build_pool).
THEOREM ChainsAreKept == Spec => []ChainIsKept
BY ChainThroughout, ChainGivesKept, PTL
=============================================================================
