----------------------------- MODULE PathSearch -----------------------------
(***************************************************************************)
(* How plan_collective (planner.cpp) finds the routes of its logical       *)
(* edges, one logical edge after the other: reachability, the depth-first  *)
(* enumeration of simple paths under its budgets, the shortest-path search *)
(* and the sample it builds where the enumeration was cut short, the       *)
(* choice of compatible sets of paths, and the max-flow certificate that   *)
(* none exists.                                                            *)
(*                                                                         *)
(* A route is the sequence of the edges it crosses, as in Candidate; the   *)
(* other fields of a candidate are operators of it.  The enumeration, the  *)
(* search and the choice of sets advance one loop iteration at a time.     *)
(***************************************************************************)
EXTENDS PlanningRequest

CONSTANT Nothing  \* a search that found no route

\* What std::optional tells apart: no route is none at all.
ASSUME SearchAssumption == Nothing \notin Seq(Nat)

VARIABLES
    request,     \* the PlanningRequest being planned
    limits,      \* PlannerLimits
    planner,     \* PlannerState: what is allowed, what it costs, what is spare
    edge,        \* the logical edge being analysed
    plans,       \* EdgePlan of the logical edges analysed so far
    blocks,      \* BlockSet
    expansions,  \* search expansions spent on the whole request
    enumerated,  \* enumeration steps spent on the whole request
    walk,        \* enumerate_paths: the sweep, its stack, what it found
    pool,        \* candidate routes of this logical edge
    sample,      \* build_pool: what the diversity chain and the probes need
    task,        \* what the running search is for
    search,      \* shortest_path: dist, prev, frontier
    found,       \* its outcome
    combo,       \* enumerate_sets: the choice being extended, what was offered
    flow,        \* MaxFlow: residual capacities, flow so far
    pc

searching == <<walk, pool, sample, task, search, found, combo, flow>>
vars == <<request, limits, planner, edge, plans, blocks, expansions, enumerated, searching, pc>>

-----------------------------------------------------------------------------
(* Filters: what the policy allows of the fabric r *)

Saturate(n) == IF n > CostCeiling THEN CostCeiling ELSE n

evidence_satisfies(observed, required) ==
    CASE required = "any" -> TRUE
      [] required = "synthetic" -> observed > 0
      [] required = "measured" -> observed = 2

domain_forbidden(r, d) ==
    \E f \in r.policy.forbidden_domains : domain_contains(r.fabric.domains, f, d)

OutsideTiers(tiers, t) == tiers # {} /\ t \notin tiers

NodeAllowed(r, n) ==
    n.eligible /\ n.tier \notin r.policy.forbidden_tiers /\ n.id \notin r.policy.forbidden_nodes

EdgeAllowed(r, e) ==
    /\ e.eligible
    /\ e.tier \notin r.policy.forbidden_tiers
    /\ ~OutsideTiers(r.policy.allowed_tiers, e.tier)
    /\ ~domain_forbidden(r, e.domain)
    /\ evidence_satisfies(e.evidence, r.policy.evidence)

edge_spare(e) == IF e.reserved >= e.capacity THEN 0 ELSE e.capacity - e.reserved

\* Latency, and a penalty for what others have already reserved.
edge_cost_of(p, e) ==
    LET latency == Saturate(e.latency * p.latency_weight) \div 1000
        used == (Saturate(e.reserved * 1000)) \div e.capacity
        penalty == Saturate(p.congestion_weight * used) \div (IF used = 1000 THEN 1 ELSE 1000 - used)
    IN CASE p.congestion_weight = 0 \/ e.capacity = 0 -> latency
         [] e.capacity > 0 /\ e.reserved >= e.capacity -> CostCeiling
         [] OTHER -> Saturate(latency + penalty)

\* The state plan_collective sets up before the first logical edge.
PlannerState(r) ==
    LET E == r.fabric.edges
        k == r.policy.paths_per_logical_edge
    IN [nodes |-> {n.id : n \in {m \in r.fabric.nodes : NodeAllowed(r, m)}},
        edges |-> {i \in DOMAIN E : EdgeAllowed(r, E[i])},
        cost |-> [i \in DOMAIN E |-> edge_cost_of(r.policy, E[i])],
        spare |-> [i \in DOMAIN E |-> edge_spare(E[i])],
        demand |-> (r.collective.demand + k - 1) \div k]

Policy == request.policy
Edge(e) == request.fabric.edges[e]
Edges == DOMAIN request.fabric.edges
out_edges(n) == Ordered({e \in Edges : Edge(e).from = n}, <)
Wanted == Policy.paths_per_logical_edge

\* Static eligibility.
edge_statically_usable(e) ==
    /\ e \in planner.edges
    /\ IF Edge(e).capacity = 0 THEN Policy.allow_unverified /\ Edge(e).reserved = 0
       ELSE Edge(e).reserved < Edge(e).capacity

edge_carries_demand(e) == Edge(e).capacity = 0 \/ planner.spare[e] >= planner.demand

binding_allows_edge(b, e) ==
    /\ b.domains # {} =>
          \E d \in b.domains : domain_contains(request.fabric.domains, d, Edge(e).domain)
    /\ ~OutsideTiers(b.tiers, Edge(e).tier)

-----------------------------------------------------------------------------
(* Routes *)

\* The bindings of the logical edge being analysed, and their nodes.
Ends == request.collective.logical_edges[edge]
Bound(side) == find_binding(request, Ends[side]) # {}
Binding(side) == CHOOSE b \in find_binding(request, Ends[side]) : TRUE
Source == Binding(1).node
Target == Binding(2).node

\* hop_usable, but for what is blocked.
Passable(e) ==
    /\ edge_statically_usable(e) /\ edge_carries_demand(e)
    /\ binding_allows_edge(Binding(1), e) /\ binding_allows_edge(Binding(2), e)
    /\ Edge(e).to \in planner.nodes

hop_usable(e) == Passable(e) /\ e \notin blocks.edges /\ Edge(e).to \notin blocks.nodes

NoBlocks == [edges |-> {}, nodes |-> {}]

RouteCost(p) == Saturate(FoldSeq(LAMBDA e, sum : Saturate(sum + planner.cost[e]), 0, p))
Interior(p) == {Edge(p[i]).to : i \in 1..(Len(p) - 1)}

\* edges_form_simple_path
edges_form_simple_path(p, source) ==
    IsInjective(<<source>> \o [i \in DOMAIN p |-> Edge(p[i]).to])

\* make_candidate accepts the route.
CandidateOk(p) == Len(p) <= Policy.max_hops /\ edges_form_simple_path(p, Source)

\* The first of two different sequences in lexicographic order.
SequenceLess(p, q) ==
    \/ p # q /\ IsPrefix(p, q)
    \/ \E i \in DOMAIN p \cap DOMAIN q : p[i] < q[i] /\ \A j \in 1..(i - 1) : p[j] = q[j]

candidate_less(p, q) ==
    \/ RouteCost(p) < RouteCost(q)
    \/ RouteCost(p) = RouteCost(q) /\ Len(p) < Len(q)
    \/ RouteCost(p) = RouteCost(q) /\ Len(p) = Len(q) /\ SequenceLess(p, q)

domain_at_level(e) ==
    LET chain == domain_chain(request.fabric.domains, Edge(e).domain)
        here == {i \in DOMAIN chain :
                    Domain(request.fabric.domains, chain[i]).kind = Policy.diversity_level}
    IN IF here = {} THEN Edge(e).domain ELSE chain[Min(here)]

DomainKnown(p) == \A i \in DOMAIN p : valid(Edge(p[i]).domain)

\* The domains a route adds to those its two ends sit in: one occurrence of
\* the first and one of the last are left out.
Signature(p) ==
    LET known == Among(p, {i \in DOMAIN p : valid(Edge(p[i]).domain)})
        hops == [i \in DOMAIN known |-> domain_at_level(known[i])]
        rest == Tail(hops)
        last == {i \in DOMAIN rest : rest[i] = Last(hops)}
    IN IF Policy.diversity = "none" \/ hops = <<>> THEN {}
       ELSE {rest[i] : i \in DOMAIN rest \ (IF last = {} THEN {} ELSE {Min(last)})}

domains_independent(p, q) ==
    DomainKnown(p) /\ DomainKnown(q) /\ Signature(p) \cap Signature(q) = {}

Disjoint(p, q) ==
    /\ Policy.disjointness # "none" => ToSet(p) \cap ToSet(q) = {}
    /\ Policy.disjointness = "node" => Interior(p) \cap Interior(q) = {}

Diverse(p, q) == Policy.diversity = "required" => domains_independent(p, q)

-----------------------------------------------------------------------------
(* The start of a logical edge *)

Limited == [failed |-> TRUE, kind |-> "limit", code |-> "budget",
            alternatives |-> <<>>, exhaustive |-> FALSE]
Denial(kind, code) == [Limited EXCEPT !.kind = kind, !.code = code]

\* The logical edge is settled; without collect_all_denials a denial is the last.
Settle(result) ==
    /\ plans' = Append(plans, result)
    /\ IF edge = Len(request.collective.logical_edges)
          \/ (result.failed /\ ~limits.collect_all_denials)
       THEN pc' = "assign" /\ UNCHANGED edge
       ELSE pc' = "edge" /\ edge' = edge + 1

\* The nodes breadth-first search reaches within n hops.
ReachedWithin ==
    LET within[n \in 0..Cardinality(request.fabric.nodes)] ==
            IF n = 0 THEN {Source}
            ELSE LET inner == within[n - 1]
                 IN inner \cup {Edge(e).to : e \in {f \in Edges : Edge(f).from \in inner /\ hop_usable(f)}}
    IN within

\* bfs_min_hops: the hops to the target, none if it is out of reach.
bfs_min_hops ==
    LET within == ReachedWithin
    IN {n \in DOMAIN within : Target \in within[n] /\ \A m \in 0..(n - 1) : Target \notin within[m]}

\* The first filter that removes an edge leaving the source.
RemovedBy(e) ==
    LET x == Edge(e) IN
    CASE ~x.eligible -> 1
      [] x.tier \in Policy.forbidden_tiers \/ OutsideTiers(Policy.allowed_tiers, x.tier) -> 2
      [] domain_forbidden(request, x.domain) -> 3
      [] ~evidence_satisfies(x.evidence, Policy.evidence) -> 4
      [] ~(edge_statically_usable(e) /\ edge_carries_demand(e)) -> 5
      [] ~(binding_allows_edge(Binding(1), e) /\ binding_allows_edge(Binding(2), e)) -> 6
      [] x.to \notin planner.nodes -> 1
      [] OTHER -> 7

\* diagnose_unreachable: the last filter in their order that removed an edge,
\* if together they removed them all.
diagnose_unreachable ==
    LET leaving == {e \in Edges : Edge(e).from = Source}
        code == <<"node", "tier", "domain", "evidence", "capacity", "binding", "no_path">>
    IN IF leaving = {} THEN "no_path" ELSE code[Max({RemovedBy(e) : e \in leaving})]

EmptyWalk == [limit |-> 1, stack |-> <<>>, route |-> <<>>, paths |-> <<>>,
              steps |-> 0, exhaustive |-> FALSE]
EmptySample == [chain |-> {}, through |-> <<>>, steps |-> 0, probes |-> <<>>,
                extra |-> <<>>, candidates |-> <<>>]
EmptySearch == [dist |-> <<>>, prev |-> <<>>, frontier |-> {}]
EmptyCombo == [chosen |-> <<>>, next |-> 1, entering |-> TRUE, considered |-> 0,
               limited |-> FALSE, offered |-> <<>>,
               rejected |-> [disjointness |-> 0, domain |-> 0, capacity |-> 0]]

Refuse(kind, code) ==
    /\ Settle(Denial(kind, code))
    /\ UNCHANGED <<request, limits, planner, blocks, expansions, enumerated, searching>>

\* analyse_logical_edge up to the enumeration.
Analyse ==
    /\ pc = "edge"
    /\ \/ ~(Bound(1) /\ Bound(2)) /\ Refuse("invalid", "unbound")
       \/ /\ Bound(1) /\ Bound(2)
          /\ ~({Source, Target} \subseteq planner.nodes) /\ Refuse("infeasible", "endpoint")
       \/ /\ Bound(1) /\ Bound(2) /\ {Source, Target} \subseteq planner.nodes
          /\ \/ bfs_min_hops = {} /\ Refuse("infeasible", diagnose_unreachable)
             \/ /\ bfs_min_hops # {} /\ Min(bfs_min_hops) > Policy.max_hops
                /\ Refuse("infeasible", "hops")
             \/ /\ bfs_min_hops # {} /\ Min(bfs_min_hops) <= Policy.max_hops
                /\ walk' = EmptyWalk /\ pool' = <<>> /\ sample' = EmptySample
                /\ combo' = EmptyCombo
                /\ blocks' = NoBlocks
                /\ pc' = "sweep"
                /\ UNCHANGED <<request, limits, planner, edge, plans, expansions, enumerated,
                               task, search, found, flow>>

-----------------------------------------------------------------------------
(* enumerate_paths *)

\* One sweep per hop count; the stack holds the node and the next outgoing edge.
Sweep ==
    /\ pc = "sweep" /\ walk.stack = <<>>
    /\ walk' = [walk EXCEPT !.stack = <<[node |-> Source, at |-> 1, cost |-> 0]>>, !.route = <<>>]
    /\ pc' = "walk"
    /\ UNCHANGED <<request, limits, planner, edge, plans, blocks, expansions, enumerated,
                   pool, sample, task, search, found, combo, flow>>

Top == Last(walk.stack)
Returned(w) == [w EXCEPT !.stack = Front(@), !.route = IF @ = <<>> THEN @ ELSE Front(@)]
Advanced(w) == [w EXCEPT !.stack[Len(w.stack)].at = @ + 1, !.steps = @ + 1]

Walked(w, counted) ==
    /\ walk' = w
    /\ enumerated' = enumerated + counted
    /\ UNCHANGED <<request, limits, planner, edge, plans, blocks, expansions,
                   pool, sample, task, search, found, combo, flow, pc>>

\* The bounds of this logical edge, and the budget of the whole request.
WalkBound == walk.steps >= limits.max_enumeration_steps
             \/ Len(walk.paths) > limits.max_exhaustive_paths

\* Mutated form: the budget of the request is one step larger.
RequestBoundLate == enumerated > limits.max_total_enumeration_steps

RequestBound == enumerated >= limits.max_total_enumeration_steps

\* One outgoing edge of the node on top of the stack.
Walk ==
    /\ pc = "walk" /\ walk.stack # <<>>
    /\ LET out == out_edges(Top.node)
           e == out[Top.at]
           next == Edge(e).to
           cost == Saturate(Top.cost + planner.cost[e])
           remaining == walk.limit - Len(walk.route)
           visited == {Source} \cup {Edge(walk.route[i]).to : i \in DOMAIN walk.route}
           enters == hop_usable(e) /\ next \notin visited /\ cost <= Policy.max_path_cost
       IN \/ Top.at > Len(out) /\ Walked(Returned(walk), 0)
          \/ Top.at <= Len(out) /\ (WalkBound \/ RequestBound) /\ Walked(Returned(walk), 0)
          \/ /\ Top.at <= Len(out) /\ ~WalkBound /\ ~RequestBound
             /\ \/ /\ enters /\ next = Target /\ remaining = 1
                   /\ Walked([Advanced(walk) EXCEPT !.paths = Append(@, Append(walk.route, e))], 1)
                \/ /\ enters /\ next # Target /\ remaining > 1
                   /\ Walked([Advanced(walk) EXCEPT
                                 !.stack = Append(@, [node |-> next, at |-> 1, cost |-> cost]),
                                 !.route = Append(@, e)], 1)
                \/ /\ ~enters \/ (next = Target /\ remaining > 1) \/ (next # Target /\ remaining = 1)
                   /\ Walked(Advanced(walk), 1)

Deepest == Min({Policy.max_hops, Cardinality(request.fabric.nodes)})

\* Mutated form: the shared budget does not make a sweep incomplete.
ExhaustiveIgnoringBudget == ~WalkBound /\ walk.limit = Deepest

\* Only an enumeration that met no bound is exhaustive.
Exhaustive == ~WalkBound /\ ~RequestBound /\ walk.limit = Deepest

\* The routes found, as build_pool sorts them.
Candidates ==
    Ordered({p \in ToSet(SubSeq(walk.paths, 1, Min({Len(walk.paths), limits.max_exhaustive_paths}))) :
                     CandidateOk(p)}, candidate_less)

\* The search build_pool starts with some edges and nodes blocked.
Start(purpose, edges, nodes) ==
    /\ blocks' = [edges |-> edges, nodes |-> nodes]
    /\ task' = purpose
    /\ IF Source = Target
       THEN found' = <<>> /\ search' = EmptySearch /\ pc' = "pool"
       ELSE /\ search' = [dist |-> [k \in {<<Source, 0>>} |-> 0], prev |-> <<>>,
                          frontier |-> {[cost |-> 0, hops |-> 0, node |-> Source]}]
            /\ found' = Nothing
            /\ pc' = "search"

\* The end of a sweep: the next one, or the pool.
SweepEnd ==
    /\ pc = "walk" /\ walk.stack = <<>>
    /\ \/ /\ ~WalkBound /\ ~RequestBound /\ walk.limit < Deepest
          /\ walk' = [walk EXCEPT !.limit = @ + 1]
          /\ pc' = "sweep"
          /\ UNCHANGED <<blocks, pool, sample, task, search, found>>
       \/ /\ Exhaustive
          /\ walk' = [walk EXCEPT !.exhaustive = TRUE]
          /\ pool' = Candidates
          /\ pc' = "sets"
          /\ UNCHANGED <<blocks, sample, task, search, found>>
       \/ /\ ~Exhaustive /\ (WalkBound \/ RequestBound)
          /\ sample' = [sample EXCEPT !.candidates = Candidates]
          /\ Start("cheapest", {}, {})
          /\ UNCHANGED <<walk, pool>>
    /\ UNCHANGED <<request, limits, planner, edge, plans, expansions, enumerated, combo, flow>>

-----------------------------------------------------------------------------
(* shortest_path *)

LabelLess(a, b) ==
    \/ a.cost < b.cost
    \/ a.cost = b.cost /\ a.hops < b.hops
    \/ a.cost = b.cost /\ a.hops = b.hops /\ a.node < b.node

Label == CHOOSE l \in search.frontier : \A m \in search.frontier : m = l \/ LabelLess(l, m)
Key(l) == <<l.node, l.hops>>

\* The edges by which the search came to the label.
Trace(l) ==
    LET node[k \in 0..l.hops] ==
            IF k = l.hops THEN l.node ELSE Edge(search.prev[<<node[k + 1], k + 1>>]).from
    IN [k \in 1..l.hops |-> search.prev[<<node[k], k>>]]

\* Mutated form: a hop count one above the policy's is still expanded.
CanExtendPastLimit(l) == l.hops <= Policy.max_hops

CanExtend(l) == l.hops < Policy.max_hops

\* The labels one expansion adds: the cheapest edge to each neighbour, the first
\* of them on a tie, where it is cheaper than what is known.
Relaxed(l) ==
    LET cost(e) == Saturate(l.cost + planner.cost[e])
        leaving == {e \in Edges : Edge(e).from = l.node /\ hop_usable(e)
                                  /\ cost(e) <= Policy.max_path_cost}
        cheapest == {e \in leaving : \A f \in leaving : Edge(f).to = Edge(e).to
                        => LexLess(<<cost(e), e>>, <<cost(f), f>>) \/ e = f}
        better(e) == LET key == <<Edge(e).to, l.hops + 1>>
                     IN key \in DOMAIN search.dist => cost(e) < search.dist[key]
    IN IF CanExtend(l) THEN {e \in cheapest : better(e)} ELSE {}

\* One label is taken from the frontier.
Pop ==
    /\ pc = "search" /\ search.frontier # {}
    /\ LET l == Label
           left == search.frontier \ {l}
           added == Relaxed(l)
           reach(e) == <<Edge(e).to, l.hops + 1>>
           via(key) == CHOOSE e \in added : reach(e) = key
           cost(e) == Saturate(l.cost + planner.cost[e])
           keys == {reach(e) : e \in added}
       IN \/ /\ search.dist[Key(l)] < l.cost  \* superseded
             /\ search' = [search EXCEPT !.frontier = left]
             /\ UNCHANGED <<expansions, found, pc>>
          \/ /\ search.dist[Key(l)] = l.cost /\ l.node = Target
             /\ found' = Trace(l)
             /\ pc' = "pool"
             /\ UNCHANGED <<search, expansions>>
          \/ /\ search.dist[Key(l)] = l.cost /\ l.node # Target
             /\ expansions >= Policy.max_search_expansions
             /\ search' = EmptySearch
             /\ pc' = "pool"
             /\ UNCHANGED <<expansions, found>>
          \/ /\ search.dist[Key(l)] = l.cost /\ l.node # Target
             /\ expansions < Policy.max_search_expansions
             /\ expansions' = expansions + 1
             /\ search' = [dist |-> [k \in keys \cup DOMAIN search.dist |->
                                       IF k \in keys THEN cost(via(k)) ELSE search.dist[k]],
                           prev |-> [k \in keys \cup DOMAIN search.prev |->
                                       IF k \in keys THEN via(k) ELSE search.prev[k]],
                           frontier |-> left \cup
                               {[cost |-> cost(e), hops |-> l.hops + 1, node |-> Edge(e).to] : e \in added}]
             /\ UNCHANGED <<found, pc>>
    /\ UNCHANGED <<request, limits, planner, edge, plans, blocks, enumerated,
                   walk, pool, sample, task, combo, flow>>

Exhausted ==
    /\ pc = "search" /\ search.frontier = {}
    /\ pc' = "pool"
    /\ UNCHANGED <<request, limits, planner, edge, plans, blocks, expansions, enumerated, searching>>

-----------------------------------------------------------------------------
(* build_pool where the enumeration is not exhaustive *)

\* Mutated form: the first node behind the source is forgotten.
InteriorSeqShort(p) == [i \in 1..(Len(p) - 2) |-> Edge(p[i + 1]).to]

InteriorSeq(p) == [i \in 1..(Len(p) - 1) |-> Edge(p[i]).to]
NodeDisjoint == Policy.disjointness = "node"
Present(p) == p \in ToSet(pool)

Fill(routes, into) ==
    LET fresh == Among(routes, {i \in DOMAIN routes : routes[i] \notin ToSet(into)})
        room == limits.max_candidate_paths - Len(into)
    IN IF room <= 0 THEN into ELSE into \o SubSeq(fresh, 1, Min({room, Len(fresh)}))

\* The probes' routes, then the cheapest ones enumerated, while there is room.
PoolFinished(kept, extra) ==
    /\ pool' = Sorted(Fill(sample.candidates, Fill(Sorted(extra, candidate_less), kept)), candidate_less)
    /\ pc' = "sets"
    /\ blocks' = NoBlocks
    /\ UNCHANGED <<task, search, found>>

\* One probe for every edge of the first route and, where nodes must be
\* disjoint, one for every node the diversity chain went through.
Probes(first, through) ==
    [i \in DOMAIN first |-> [edges |-> {first[i]}, nodes |-> {}]]
    \o (IF NodeDisjoint THEN [i \in DOMAIN through |-> [edges |-> {}, nodes |-> {through[i]}]]
        ELSE <<>>)

\* The probes, or the end where there is nothing to block.
Probing(kept, chain, through, steps) ==
    LET probes == Probes(kept[1], through) IN
    IF probes = <<>>
    THEN PoolFinished(kept, <<>>) /\ sample' = [sample EXCEPT !.steps = steps]
    ELSE /\ pool' = kept
         /\ sample' = [sample EXCEPT !.chain = chain, !.through = through, !.steps = steps,
                                     !.probes = Tail(probes)]
         /\ Start("probe", probes[1].edges, probes[1].nodes)

\* The next search of the diversity chain, which blocks all it went through.
Chaining(kept, chain, through, steps) ==
    IF steps + 1 < Wanted /\ Len(kept) < limits.max_candidate_paths
    THEN /\ pool' = kept
         /\ sample' = [sample EXCEPT !.chain = chain, !.through = through, !.steps = steps]
         /\ Start("chain", chain, ToSet(through))
    ELSE Probing(kept, chain, through, steps)

\* What build_pool does with the outcome of a search.
Pool ==
    LET usable == found # Nothing /\ CandidateOk(found) IN
    /\ pc = "pool"
    /\ \/ /\ task = "cheapest"
          /\ LET first == IF usable THEN <<found>>
                       ELSE SubSeq(sample.candidates, 1, Min({1, Len(sample.candidates)}))
             IN IF first = <<>> THEN PoolFinished(<<>>, <<>>) /\ UNCHANGED sample
                ELSE Chaining(first, ToSet(first[1]),
                              IF NodeDisjoint THEN InteriorSeq(first[1]) ELSE <<>>, 0)
       \/ /\ task = "chain"
          /\ IF found = Nothing
             THEN Probing(pool, sample.chain, sample.through, sample.steps)
             ELSE Chaining(IF usable /\ ~Present(found) THEN Append(pool, found) ELSE pool,
                           sample.chain \cup ToSet(found),
                           sample.through \o (IF NodeDisjoint THEN InteriorSeq(found) ELSE <<>>),
                           sample.steps + 1)
       \/ /\ task = "probe"
          /\ LET new == usable /\ ~Present(found) /\ found \notin ToSet(sample.extra)
                 extra == IF new THEN Append(sample.extra, found) ELSE sample.extra
             IN IF sample.probes = <<>> THEN PoolFinished(pool, extra) /\ UNCHANGED sample
                ELSE /\ sample' = [sample EXCEPT !.extra = extra, !.probes = Tail(@)]
                     /\ Start("probe", sample.probes[1].edges, sample.probes[1].nodes)
                     /\ UNCHANGED pool
    /\ UNCHANGED <<request, limits, planner, edge, plans, expansions, enumerated, walk, combo, flow>>
-----------------------------------------------------------------------------
(* enumerate_sets *)

\* What a set of routes places on an edge of verified capacity.
SetUsage(routes, e) ==
    IF Edge(e).capacity = 0 THEN 0
    ELSE Saturate(planner.demand * Cardinality({p \in routes : e \in ToSet(p)}))

SetFits(routes) == \A e \in Edges : SetUsage(routes, e) <= planner.spare[e]

\* build_path_set: what the objective compares; the routes in candidate order.
PathSet(routes) ==
    LET sorted == Ordered(routes, candidate_less)
        touched == {e \in UNION {ToSet(p) : p \in routes} : Edge(e).capacity > 0}
    IN [paths |-> sorted,
        total |-> Saturate(FoldSeq(LAMBDA p, sum : sum + RouteCost(p), 0, sorted)),
        conflicts |-> IF Policy.diversity = "none" THEN 0
                      ELSE Cardinality({q \in kSubset(2, routes) :
                              \E a, b \in q : a # b /\ ~domains_independent(a, b)}),
        max |-> Max({RouteCost(p) : p \in routes}),
        headroom |-> Min({CostCeiling} \cup {planner.spare[e] - SetUsage(routes, e) : e \in touched}),
        signature |-> FlattenSeq(sorted)]

path_set_less(a, b) ==
    LET rank(s) == <<s.total, s.conflicts, s.max, 0 - s.headroom>>
    IN SequenceLess(rank(a), rank(b)) \/ (rank(a) = rank(b) /\ SequenceLess(a.signature, b.signature))

\* Mutated form: the newest set is dropped at the cap, wherever it ranks.
offer_set_first(offered, s) ==
    IF Len(offered) = limits.max_set_alternatives THEN offered ELSE Append(offered, s)

offer_set(offered, s) ==
    LET position == 1 + Cardinality({i \in DOMAIN offered : path_set_less(offered[i], s)})
        grown == InsertAt(offered, position, s)
    IN IF Len(grown) > limits.max_set_alternatives THEN Front(grown) ELSE grown

Compatible(p, q) == Disjoint(p, q) /\ Diverse(p, q)

\* Which requirement the first incompatible route of the choice violates.
Rejects(chosen, p) ==
    LET i == Min({j \in DOMAIN chosen : ~Compatible(pool[chosen[j]], p)})
    IN IF Disjoint(pool[chosen[i]], p) THEN "domain" ELSE "disjointness"

\* Mutated form: the loop of the caller tries the same route again.
LeftInPlace(c) ==
    [c EXCEPT !.chosen = Front(@), !.next = Last(c.chosen), !.entering = FALSE]

\* The loop of the caller goes on behind the route this call was made for.
Left(c) ==
    [c EXCEPT !.chosen = Front(@), !.next = Last(c.chosen) + 1, !.entering = FALSE]

Chose(c) ==
    /\ combo' = c
    /\ UNCHANGED <<request, limits, planner, edge, plans, blocks, expansions, enumerated,
                   walk, pool, sample, task, search, found, flow, pc>>

\* The choice is as long as it has to be, or its loop has run out of routes.
SetComplete == Len(combo.chosen) = Wanted
TooFew == combo.entering /\ Len(pool) - combo.next + 1 < Wanted - Len(combo.chosen)
LoopOver == ~SetComplete /\ (combo.next > Len(pool) \/ TooFew)
OutOfSteps == (combo.entering \/ ~LoopOver) /\ combo.considered >= limits.max_combination_steps
ChoosingEnds == (LoopOver /\ combo.chosen = <<>>) \/ OutOfSteps

Choose ==
    /\ pc = "sets" /\ pool # <<>> /\ ~ChoosingEnds
    /\ LET counted == [combo EXCEPT !.considered = @ + 1]
           routes == {pool[combo.chosen[i]] : i \in DOMAIN combo.chosen}
           p == pool[combo.next]
           fits == \A i \in DOMAIN combo.chosen : Compatible(pool[combo.chosen[i]], p)
       IN \/ LoopOver /\ Chose(Left(combo))
          \/ /\ SetComplete
             /\ \/ SetFits(routes) /\ Chose([Left(counted) EXCEPT !.offered = offer_set(@, PathSet(routes))])
                \/ ~SetFits(routes) /\ Chose([Left(counted) EXCEPT !.rejected.capacity = @ + 1])
          \/ /\ ~SetComplete /\ ~LoopOver
             /\ \/ /\ fits
                   /\ Chose([combo EXCEPT !.chosen = Append(@, combo.next),
                                          !.next = @ + 1, !.entering = TRUE])
                \/ /\ ~fits
                   /\ Chose([counted EXCEPT !.next = @ + 1, !.entering = FALSE,
                                            !.rejected[Rejects(combo.chosen, p)] = @ + 1])

\* The end of analyse_logical_edge, but for the certificate.
SetsExhaustive == walk.exhaustive /\ ~OutOfSteps
Flowing == Policy.disjointness # "none" /\ Wanted > 1

\* No candidate at all: conclusive only after an exhaustive enumeration.
EmptyPool == IF walk.exhaustive THEN Denial("infeasible", diagnose_unreachable) ELSE Limited

\* No admissible set, and no certificate.
NoSet ==
    LET r == combo.rejected IN
    IF ~SetsExhaustive THEN Limited
    ELSE Denial("infeasible",
                IF r.capacity >= r.disjointness /\ r.capacity > 0 THEN "capacity"
                ELSE IF r.domain > 0 THEN "diversity" ELSE "disjoint")

Offered == [failed |-> FALSE, kind |-> "none", code |-> "none",
            alternatives |-> combo.offered, exhaustive |-> SetsExhaustive]

-----------------------------------------------------------------------------
(* max_disjoint_paths *)

\* A node is split in two where nodes must be disjoint.
Into(n) == <<n, IF NodeDisjoint THEN "in" ELSE "out">>
OutOf(n) == <<n, "out">>

\* The arcs of the flow network, an edge's or a split node's.
Arcs ==
    {<<OutOf(Edge(e).from), Into(Edge(e).to), e>> :
        e \in {f \in Edges : Passable(f) /\ Edge(f).from \in planner.nodes}}
    \cup (IF NodeDisjoint THEN {<<Into(n), OutOf(n), None>> : n \in planner.nodes} ELSE {})

Reversed(a) == <<a[2], a[1], a[3]>>
AllArcs == Arcs \cup {Reversed(a) : a \in Arcs}

\* One unit for every arc, but for the two ends; nothing for a reverse.
Capacity(a) ==
    CASE a \notin Arcs -> 0
      [] a[3] = None /\ a[1][1] \in {Source, Target} -> Wanted
      [] OTHER -> 1

\* Mutated form: the reverse of an arc is not opened.
PushedOneWay(r, path) == [a \in DOMAIN r |-> IF a \in path THEN r[a] - 1 ELSE r[a]]

\* One unit along the path: taken from its arcs, given to their reverses.
Pushed(r, path) ==
    [a \in DOMAIN r |-> r[a] - (IF a \in path THEN 1 ELSE 0)
                             + (IF Reversed(a) \in path THEN 1 ELSE 0)]

\* The shortest paths of the residual network r, as sets of arcs: the level graph
\* holds these and no others.
Augmenting(r) ==
    LET open == {a \in DOMAIN r : r[a] > 0}
        lengths == 0..(2 * Cardinality(planner.nodes))
        level[n \in lengths] ==
            IF n = 0 THEN {OutOf(Source)}
            ELSE LET inner == level[n - 1] IN inner \cup {a[2] : a \in {b \in open : b[1] \in inner}}
        walks[n \in lengths] ==
            IF n = 0 THEN {[arcs |-> {}, at |-> OutOf(Source)]}
            ELSE UNION {{[arcs |-> w.arcs \cup {a}, at |-> a[2]] : a \in {b \in open : b[1] = w.at}} :
                           w \in walks[n - 1]}
        near == {n \in lengths : Into(Target) \in level[n]}
    IN IF near = {} THEN {}
       ELSE {w.arcs : w \in {v \in walks[Min(near)] : v.at = Into(Target)}}

\* Every augmenting path crosses a unit arc, so each carries one unit.
Augment ==
    /\ pc = "certify" /\ flow.value < Wanted
    /\ \E path \in Augmenting(flow.residual) :
          flow' = [residual |-> Pushed(flow.residual, path), value |-> flow.value + 1]
    /\ UNCHANGED <<request, limits, planner, edge, plans, blocks, expansions, enumerated,
                   walk, pool, sample, task, search, found, combo, pc>>

Certify ==
    /\ pc = "certify" /\ (flow.value = Wanted \/ Augmenting(flow.residual) = {})
    /\ Settle(IF flow.value < Wanted THEN Denial("infeasible", "disjoint") ELSE NoSet)
    /\ UNCHANGED <<request, limits, planner, blocks, expansions, enumerated, searching>>

Conclude ==
    /\ pc = "sets"
    /\ \/ pool = <<>> /\ Settle(EmptyPool) /\ UNCHANGED flow
       \/ /\ pool # <<>> /\ ChoosingEnds
          /\ \/ combo.offered # <<>> /\ Settle(Offered) /\ UNCHANGED flow
             \/ combo.offered = <<>> /\ ~Flowing /\ Settle(NoSet) /\ UNCHANGED flow
             \/ /\ combo.offered = <<>> /\ Flowing
                /\ pc' = "certify"
                /\ flow' = [residual |-> [a \in AllArcs |-> Capacity(a)], value |-> 0]
                /\ UNCHANGED <<plans, edge>>
    /\ UNCHANGED <<request, limits, planner, blocks, expansions, enumerated,
                   walk, pool, sample, task, search, found, combo>>

-----------------------------------------------------------------------------
\* plan_collective on a valid request, before the first logical edge.
Begin(r, l) ==
    /\ request' = r /\ limits' = l /\ planner' = PlannerState(r)
    /\ edge' = 1 /\ plans' = <<>> /\ blocks' = NoBlocks
    /\ expansions' = 0 /\ enumerated' = 0
    /\ walk' = EmptyWalk /\ pool' = <<>> /\ sample' = EmptySample /\ task' = "cheapest"
    /\ search' = EmptySearch /\ found' = Nothing /\ combo' = EmptyCombo
    /\ flow' = [residual |-> <<>>, value |-> 0]
    /\ pc' = "edge"

SearchNext ==
    \/ Analyse \/ Sweep \/ Walk \/ SweepEnd
    \/ Pop \/ Exhausted \/ Pool
    \/ Choose \/ Conclude \/ Augment \/ Certify
=============================================================================
