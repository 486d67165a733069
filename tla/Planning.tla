------------------------------ MODULE Planning ------------------------------
(***************************************************************************)
(* plan_collective from end to end: a declared input is built into a       *)
(* request (PlanningRequest), the routes of its logical edges are found    *)
(* (PathSearch), one set of routes is assigned to each of them, the plan   *)
(* is materialised and passes the validation (PlanValidation).             *)
(*                                                                         *)
(* Which sets solve_global assigns is left open here: any choice within    *)
(* the spare capacity.  GlobalAssignment models that search step by step   *)
(* and checks that its choice is one of these.  A caller may also bring a  *)
(* plan of its own to validate_plan, as PlanStore::put() allows.           *)
(***************************************************************************)
EXTENDS PathSearch, PlanValidation

CONSTANTS
    Inputs,        \* the inputs: a specification, the limits, whose plan it is
    NoPlan,        \* no plan yet
    SubmittedHops  \* the hops of a route in a plan a caller brings

\* PlannerLimits; plan_collective raises the budget of a request to one step.
PlannerLimits ==
    [max_candidate_paths : Nat, max_exhaustive_paths : Nat,
     max_enumeration_steps : Nat, max_total_enumeration_steps : Nat \ {0},
     max_combination_steps : Nat, max_set_alternatives : Nat, collect_all_denials : BOOLEAN]

ASSUME InputAssumption ==
    /\ Inputs \subseteq [spec : Declarations, limits : PlannerLimits, submitted : BOOLEAN]
    /\ SubmittedHops \in Nat

VARIABLES input, plan, verdict

planningVars == <<vars, input, plan, verdict>>

Init ==
    /\ input \in Inputs
    /\ plan = NoPlan /\ verdict = "none"
    /\ request = Nothing /\ limits = Nothing /\ planner = Nothing
    /\ edge = 1 /\ plans = <<>> /\ blocks = NoBlocks
    /\ expansions = 0 /\ enumerated = 0
    /\ walk = EmptyWalk /\ pool = <<>> /\ sample = EmptySample /\ task = "cheapest"
    /\ search = EmptySearch /\ found = Nothing /\ combo = EmptyCombo
    /\ flow = [residual |-> <<>>, value |-> 0]
    /\ pc = "build"

\* build_request, then the planner or the caller's own plan.
Build ==
    /\ pc = "build"
    /\ \/ /\ Accepts(input.spec)
          /\ \E r \in {build_request(input.spec)} : Begin(r, input.limits)
          /\ UNCHANGED verdict
       \/ /\ ~Accepts(input.spec)
          /\ verdict' = "refused" /\ pc' = "done"
          /\ UNCHANGED <<request, limits, planner, edge, plans, blocks, expansions, enumerated, searching>>
    /\ UNCHANGED <<input, plan>>

Search == ~input.submitted /\ SearchNext /\ UNCHANGED <<input, plan, verdict>>

-----------------------------------------------------------------------------
(* Materialisation *)

LogicalEdges == DOMAIN request.collective.logical_edges

\* The hops, the labels and the statistics of one route of logical edge l.
PathOf(id, l, p) ==
    [id |-> id, logical_edge |-> l,
     src |-> request.collective.logical_edges[l][1], dst |-> request.collective.logical_edges[l][2],
     stage |-> request.collective.logical_edge_stage[l],
     cost |-> RouteCost(p),
     bottleneck |-> IF p = <<>> THEN 0 ELSE Min({planner.spare[e] : e \in ToSet(p)}),
     signature |-> Signature(p),
     weakest |-> Min({2} \cup {Edge(e).evidence : e \in ToSet(p)}),
     hops |-> [i \in DOMAIN p |-> [edge |-> Edge(p[i]).id, from |-> Edge(p[i]).from, to |-> Edge(p[i]).to]]]

\* Mutated form: only the edges of verified capacity are entered.
AllocationOfVerified(routes, e) ==
    IF Edge(e).capacity = 0 THEN 0
    ELSE Saturate(planner.demand * Cardinality({i \in DOMAIN routes : e \in ToSet(routes[i])}))

\* What the routes together would place on an edge, verified capacity or not.
AllocationOf(routes, e) ==
    Saturate(planner.demand * Cardinality({i \in DOMAIN routes : e \in ToSet(routes[i])}))

\* The plan for one sequence of routes per logical edge.
Materialise(sets) ==
    LET owner == FlattenSeq([l \in LogicalEdges |-> [i \in DOMAIN sets[l] |-> l]])
        routes == FlattenSeq(sets)
        paths == [i \in DOMAIN routes |-> PathOf(i, owner[i], routes[i])]
        stage(s) == [index |-> s,
                     logical_edges |-> Ordered({l \in LogicalEdges :
                         request.collective.logical_edge_stage[l] = s}, <),
                     paths |-> Ordered({i \in DOMAIN paths : paths[i].stage = s}, <)]
        loaded == Ordered({e \in Edges : AllocationOf(routes, e) > 0}, <)
    IN [id |-> canonical_digest(request), input_digest |-> canonical_digest(request),
        generation |-> request.plan_generation, bindings |-> current_bindings(request),
        stage_count |-> request.collective.stage_count,
        stages |-> [s \in 1..request.collective.stage_count |-> stage(s - 1)],
        paths |-> paths,
        allocations |-> [i \in DOMAIN loaded |->
                            [edge |-> Edge(loaded[i]).id, planned |-> AllocationOf(routes, loaded[i])]],
        stats |-> StatsOf(paths)]

-----------------------------------------------------------------------------
(* Assignment, validation and verdict *)

\* One set for every logical edge, within the spare capacity of every edge.
Assignments ==
    LET load(c, e) == FoldFunctionOnSet(+, 0, [l \in LogicalEdges |->
                          SetUsage(ToSet(plans[l].alternatives[c[l]].paths), e)], LogicalEdges)
    IN {c \in [LogicalEdges -> 1..limits.max_set_alternatives] :
            /\ \A l \in LogicalEdges : c[l] \in DOMAIN plans[l].alternatives
            /\ \A e \in Edges : load(c, e) <= planner.spare[e]}

Failed == \E l \in DOMAIN plans : plans[l].failed

\* The denials, or solve_global and the materialisation of its choice.
Assign ==
    /\ pc = "assign" /\ ~input.submitted
    /\ \/ Failed /\ verdict' = "denied" /\ pc' = "done" /\ UNCHANGED plan
       \/ /\ ~Failed
          /\ \E c \in Assignments :
                plan' = Materialise([l \in LogicalEdges |-> plans[l].alternatives[c[l]].paths])
          /\ pc' = "validate" /\ UNCHANGED verdict
       \/ \* nothing fits together, or the search for it met its bound
          /\ ~Failed /\ [l \in LogicalEdges |-> 1] \notin Assignments
          /\ verdict' = "denied" /\ pc' = "done" /\ UNCHANGED plan
    /\ UNCHANGED <<request, limits, planner, edge, plans, blocks, expansions, enumerated, searching, input>>

\* The routes a caller may write into a plan: edges in any order, repeated or not.
Submittable == UNION {[1..n -> Edges] : n \in 0..SubmittedHops}

\* A caller's own plan for the request, its labels computed as the planner does.
Submit ==
    /\ pc = "edge" /\ input.submitted
    /\ \E sets \in [LogicalEdges -> [1..Wanted -> Submittable]] : plan' = Materialise(sets)
    /\ pc' = "validate"
    /\ UNCHANGED <<request, limits, planner, edge, plans, blocks, expansions, enumerated, searching,
                   input, verdict>>

\* validate_plan; a plan of the planner's own that fails it is an internal error.
Validate ==
    /\ pc = "validate"
    /\ verdict' = IF validate_plan(plan, request) THEN "plan"
                  ELSE IF input.submitted THEN "rejected" ELSE "internal"
    /\ pc' = "done"
    /\ UNCHANGED <<request, limits, planner, edge, plans, blocks, expansions, enumerated, searching, input, plan>>

\* The caller has its answer.
Answered == pc = "done" /\ UNCHANGED planningVars

Next == Build \/ Search \/ Assign \/ Submit \/ Validate \/ Answered

Spec == Init /\ [][Next]_planningVars

(***************************************************************************)
(* plan_collective runs in its caller's thread and waits for nothing, so   *)
(* it goes on taking steps until it returns.  A step is always enabled     *)
(* before that, as the absence of deadlocks shows, and this is weak        *)
(* fairness of Next.                                                       *)
(***************************************************************************)
FairSpec == Spec /\ (<>[](pc = "done") \/ []<><<TRUE>>_planningVars)

-----------------------------------------------------------------------------
(* What a correct answer is, stated on the request alone: DESIGN.md 9.1 *)

NodeOf(n) == CHOOSE m \in request.fabric.nodes : m.id = n

\* The constraints on a hop that do not depend on the other hops.
Declared(e) ==
    LET x == Edge(e)
        p == Policy
        above == {c \in {d.id : d \in request.fabric.domains} :
                     domain_contains(request.fabric.domains, c, x.domain)}
        share == (request.collective.demand + Wanted - 1) \div Wanted
    IN /\ {x.from, x.to} \cap p.forbidden_nodes = {}
       /\ x.tier \notin p.forbidden_tiers
       /\ p.allowed_tiers = {} \/ x.tier \in p.allowed_tiers
       /\ above \cap p.forbidden_domains = {}
       /\ x.evidence >= (CASE p.evidence = "any" -> 0 [] p.evidence = "synthetic" -> 1
                           [] p.evidence = "measured" -> 2)
       /\ \/ x.capacity = 0 /\ p.allow_unverified
          \/ x.capacity > x.reserved /\ x.capacity - x.reserved >= share

Admits(b, e) ==
    /\ b.domains = {} \/ \E d \in b.domains : domain_contains(request.fabric.domains, d, Edge(e).domain)
    /\ b.tiers = {} \/ Edge(e).tier \in b.tiers

Eligible(n) ==
    NodeOf(n).eligible /\ NodeOf(n).tier \notin Policy.forbidden_tiers /\ n \notin Policy.forbidden_nodes

Permitted(e) ==
    /\ Declared(e) /\ Edge(e).eligible
    /\ Eligible(Edge(e).from) /\ Eligible(Edge(e).to)
    /\ Admits(Binding(1), e) /\ Admits(Binding(2), e)

\* Every simple route of permitted edges between the two ends, within the limits.
FeasibleRoutes ==
    LET usable == {e \in Edges : Permitted(e)}
        nodes(p) == {Source} \cup {Edge(e).to : e \in ToSet(p)}
        end(p) == IF p = <<>> THEN Source ELSE Edge(Last(p)).to
        extend(p) == {Append(p, e) : e \in {f \in usable : Edge(f).from = end(p) /\ Edge(f).to \notin nodes(p)}}
        simple[n \in 0..Policy.max_hops] ==
            IF n = 0 THEN {<<>>} ELSE UNION {extend(p) : p \in simple[n - 1]}
        all == UNION {simple[n] : n \in 0..Policy.max_hops}
    IN IF Eligible(Source) /\ Eligible(Target)
       THEN {p \in all : end(p) = Target /\ RouteCost(p) <= Policy.max_path_cost} ELSE {}

Unblocked ==
    {p \in FeasibleRoutes : /\ ToSet(p) \cap blocks.edges = {}
                            /\ {Edge(e).to : e \in ToSet(p)} \cap blocks.nodes = {}}

\* The load of a set of routes on an edge, in the demand of one route.
Fits(routes) ==
    \A e \in Edges : Edge(e).capacity > 0 =>
        Cardinality({p \in routes : e \in ToSet(p)}) * planner.demand <= Edge(e).capacity - Edge(e).reserved

AdmissibleSets ==
    {s \in kSubset(Wanted, FeasibleRoutes) :
        Fits(s) /\ \A p, q \in s : p = q \/ (Disjoint(p, q) /\ Diverse(p, q))}

Apart == Bound(1) /\ Bound(2) /\ Source # Target

-----------------------------------------------------------------------------
(* Properties *)

\* One type invariant: every variable of the planner keeps its shape, the budgets
\* are never overdrawn and the search never leaves the fabric (PlannerState).
TypeOK ==
    /\ pc \in {"build", "edge", "sweep", "walk", "search", "pool", "sets", "certify",
               "assign", "validate", "done"}
    /\ verdict \in {"none", "refused", "denied", "plan", "rejected", "internal"}
    /\ pc \in {"build", "done"} \/ edge \in LogicalEdges
    /\ pc \in {"sweep", "walk", "search", "pool", "sets", "certify"} =>
          /\ enumerated <= limits.max_total_enumeration_steps
          /\ expansions <= Policy.max_search_expansions
          /\ walk.limit \in 1..Deepest
          /\ Len(walk.paths) <= limits.max_exhaustive_paths + 1
          /\ blocks.edges \subseteq Edges
          /\ Len(pool) <= (IF walk.exhaustive THEN limits.max_exhaustive_paths
                           ELSE Max({1, limits.max_candidate_paths}))
          /\ Len(combo.offered) <= limits.max_set_alternatives
          /\ \A i \in DOMAIN combo.chosen : combo.chosen[i] \in DOMAIN pool

\* Canonicalisation does not change what was declared: declaring the same things in
\* another order, or a ring from another member, builds the same request, and the
\* neighbours of a declared ring are neighbours in the collective built from it
\* (Collective::build, FabricGraph::build, Policy::canonicalize, build_request).
CanonicalForm ==
    LET s == input.spec
        turned(m) == Append(Tail(m), Head(m))
        other(g) == [g EXCEPT !.members = IF g.pattern = "ring" THEN turned(@) ELSE Reverse(@)]
        p == s.policy
        reordered ==
            [s EXCEPT !.groups = Reverse([i \in DOMAIN @ |-> other(@[i])]),
                      !.domains = Reverse(@), !.nodes = Reverse(@), !.edges = Reverse(@),
                      !.policy = [p EXCEPT !.forbidden_nodes = Reverse(@), !.forbidden_tiers = Reverse(@),
                                           !.forbidden_domains = Reverse(@), !.allowed_tiers = Reverse(@)],
                      !.bindings = Reverse([i \in DOMAIN @ |->
                          [@[i] EXCEPT !.domains = Reverse(@), !.tiers = Reverse(@)]])]
    IN pc = "build" /\ s.groups # <<>> /\ (\A g \in ToSet(s.groups) : g.members # <<>>) =>
          /\ Accepts(reordered) = Accepts(s)
          /\ Accepts(s) =>
                /\ build_request(reordered) = build_request(s)
                /\ \A g \in ToSet(s.groups) : g.pattern = "ring" =>
                      \A i \in DOMAIN g.members :
                          <<g.members[i], turned(g.members)[i]>>
                              \in ToSet(build_request(s).collective.logical_edges)

\* The pool holds feasible routes only, none twice, and after an enumeration that
\* calls itself exhaustive it holds all of them, whatever the budgets were and
\* whatever earlier logical edges spent of the shared one ("the pool IS the
\* feasible path set", build_pool).
PoolIsFeasible ==
    pc = "sets" /\ combo = EmptyCombo =>
        /\ IsInjective(pool)
        /\ ToSet(pool) \subseteq FeasibleRoutes
        /\ walk.exhaustive /\ Apart => ToSet(pool) = FeasibleRoutes

\* The hop-limited search finds a cheapest route, the shortest of the cheapest, among
\* the simple routes that avoid what is blocked; it comes back without one only if
\* there is none or its budget was spent (shortest_path).
SearchIsExact ==
    pc = "pool" /\ Apart =>
        /\ found # Nothing =>
              /\ found \in Unblocked
              /\ \A q \in Unblocked : \/ RouteCost(found) < RouteCost(q)
                                      \/ RouteCost(found) = RouteCost(q) /\ Len(found) <= Len(q)
        /\ found = Nothing /\ search # EmptySearch => Unblocked = {}

\* Where the enumeration was cut short and the diversity chain found as many routes
\* as are wanted, they are all in the pool and disjoint from each other, so later
\* and cheaper candidates never crowd them out (build_pool).
ChainIsKept ==
    pc = "sets" /\ combo = EmptyCombo /\ ~walk.exhaustive /\ Apart
      /\ pool # <<>> /\ sample.steps = Wanted - 1 =>
        \E s \in kSubset(Wanted, ToSet(pool)) : \A p, q \in s : p = q \/ Disjoint(p, q)

Settled == Len(plans') = Len(plans) + 1
Outcome == Last(plans')

\* A denial that claims infeasibility is true: no set of feasible routes satisfies
\* the requirements of the logical edge, although the claim may rest on the
\* reachability search, on the enumeration, on the sets or on the max-flow
\* certificate (analyse_logical_edge).
EdgeDenialIsProof ==
    [][Settled /\ Outcome.kind = "infeasible" /\ Apart => AdmissibleSets = {}]_planningVars

\* The claim planner.hpp makes for every logical edge, two participants on one node
\* included, whose path has no hop at all.
InfeasibleIsProven ==
    [][Settled /\ Outcome.kind = "infeasible" => AdmissibleSets = {}]_planningVars

\* What is offered to the global search is admissible, best first, and, where the
\* choice of sets was exhaustive, no admissible set is cheaper than the first
\* (enumerate_sets, offer_set).
OfferIsBest ==
    [][Settled /\ ~Outcome.failed =>
         LET offer(i) == ToSet(Outcome.alternatives[i].paths)
         IN /\ \A i \in DOMAIN Outcome.alternatives : offer(i) \in AdmissibleSets
            /\ Outcome.exhaustive =>
                  \A s \in AdmissibleSets : ~path_set_less(PathSet(s), Outcome.alternatives[1])]_planningVars

\* The planner never has to withdraw its own plan: what the search and the assignment
\* produce passes the independent validation (the internal error of plan_collective).
ProducedPlanIsValid == verdict # "internal"

\* The domains a route crosses between those its two ends sit in, at the level of the
\* policy, as far as its edges declare them.
Crossed(p) ==
    LET declaring == Among(p, {i \in DOMAIN p : valid(Edge(p[i]).domain)})
    IN {domain_at_level(declaring[i]) : i \in 2..(Len(declaring) - 1)}

\* A plan that validate_plan accepts, the planner's or a caller's, joins the bound
\* ends of every logical edge by as many simple routes as the policy wants, disjoint
\* as it wants them, over edges that satisfy the declared constraints, and all the
\* routes together stay within the spare capacity of every edge.  Where diversity is
\* required no two siblings cross a common domain, and all but the first declare a
\* domain on every edge (SiblingsAreDiverse says what that leaves open).  Eligibility
\* is not among the constraints: validate_plan does not look at it.
AcceptedPlanIsSound ==
    verdict = "plan" =>
        LET route(p) == [i \in DOMAIN p.hops |-> CHOOSE e \in Edges : Edge(e).id = p.hops[i].edge]
            of(l) == SiblingsOf(plan, l)
            at(participant) == (CHOOSE b \in request.bindings : b.participant = participant)
            visits(r, n) == <<n>> \o [i \in DOMAIN r |-> Edge(r[i]).to]
        IN /\ \A l \in LogicalEdges :
                 LET ends == request.collective.logical_edges[l] IN
                 /\ Len(of(l)) = Wanted
                 /\ \A i \in DOMAIN of(l) :
                       LET r == route(of(l)[i])
                           v == visits(r, at(ends[1]).node)
                       IN /\ Last(v) = at(ends[2]).node
                          /\ IsInjective(v)
                          /\ \A k \in DOMAIN r : Edge(r[k]).from = v[k] /\ Declared(r[k])
                                                 /\ Admits(at(ends[1]), r[k]) /\ Admits(at(ends[2]), r[k])
                 /\ \A i, j \in DOMAIN of(l) : i # j => Disjoint(route(of(l)[i]), route(of(l)[j]))
                 /\ Policy.diversity = "required" =>
                       /\ \A i \in DOMAIN of(l) : i > 1 => DomainKnown(route(of(l)[i]))
                       /\ \A i, j \in DOMAIN of(l) : i # j =>
                             Crossed(route(of(l)[i])) \cap Crossed(route(of(l)[j])) = {}
           /\ \A e \in Edges : Edge(e).capacity > 0 =>
                 Cardinality({i \in DOMAIN plan.paths : e \in ToSet(route(plan.paths[i]))}) * planner.demand
                     <= Edge(e).capacity - Edge(e).reserved

\* The claim of DESIGN.md for a required diversity: a route over an edge with no declared
\* domain is refused, because its independence cannot be proved (validate_plan).
SiblingsAreDiverse ==
    verdict = "plan" /\ Policy.diversity = "required" /\ Wanted > 1 =>
        \A p \in ToSet(plan.paths) : \A h \in ToSet(p.hops) :
            \A e \in EdgeOf(request, h.edge) : valid(e.domain)

\* Every planning request is answered (plan_collective).
PlanningEnds == <>(pc = "done")
=============================================================================
