--------------------------- MODULE PlanValidation ---------------------------
(***************************************************************************)
(* validate_plan (plan.cpp): the check every plan passes before it leaves  *)
(* the planner, before PlanStore::put() commits it and before it is        *)
(* explained.  It trusts nothing the planner computed but the cost, the    *)
(* bottleneck and the evidence label of a single path, and is written      *)
(* without the planner's filters, as in the source.                        *)
(*                                                                         *)
(* Each operator is one group of its early returns; which error code a     *)
(* refused plan gets is left out.                                          *)
(***************************************************************************)
EXTENDS PlanningRequest

EdgeOf(r, id) == {e \in ToSet(r.fabric.edges) : e.id = id}

AtLevel(r, d) ==
    LET chain == domain_chain(r.fabric.domains, d)
        here == {i \in DOMAIN chain :
                    Domain(r.fabric.domains, chain[i]).kind = r.policy.diversity_level}
    IN IF here = {} THEN d ELSE chain[Min(here)]

binding_permits(r, b, e) ==
    /\ b.domains = {} \/ \E d \in b.domains : domain_contains(r.fabric.domains, d, e.domain)
    /\ b.tiers = {} \/ e.tier \in b.tiers

\* hops_are_simple: no edge twice, no node twice, not back to the source.
hops_are_simple(hops) ==
    /\ DistinctBy(hops, LAMBDA h : h.edge)
    /\ DistinctBy(hops, LAMBDA h : h.to)
    /\ \A i \in DOMAIN hops : hops[i].to # hops[1].from

\* Mutated form: the evidence of a hop is not looked at.
HopAcceptedOnAnyEvidence(r, hop, sides) ==
    \E e \in EdgeOf(r, hop.edge) :
        /\ e.from = hop.from /\ e.to = hop.to
        /\ {hop.from, hop.to} \cap r.policy.forbidden_nodes = {}
        /\ e.tier \notin r.policy.forbidden_tiers
        /\ r.policy.allowed_tiers = {} \/ e.tier \in r.policy.allowed_tiers
        /\ \A f \in r.policy.forbidden_domains : ~domain_contains(r.fabric.domains, f, e.domain)
        /\ e.capacity = 0 => r.policy.allow_unverified
        /\ e.capacity > 0 => e.reserved < e.capacity
        /\ \A b \in sides : binding_permits(r, b, e)

\* One hop, against the fabric, the policy and both bindings.
HopAccepted(r, hop, sides) ==
    \E e \in EdgeOf(r, hop.edge) :
        /\ e.from = hop.from /\ e.to = hop.to
        /\ {hop.from, hop.to} \cap r.policy.forbidden_nodes = {}
        /\ e.tier \notin r.policy.forbidden_tiers
        /\ r.policy.allowed_tiers = {} \/ e.tier \in r.policy.allowed_tiers
        /\ \A f \in r.policy.forbidden_domains : ~domain_contains(r.fabric.domains, f, e.domain)
        /\ CASE r.policy.evidence = "any" -> TRUE
             [] r.policy.evidence = "synthetic" -> e.evidence # 0
             [] r.policy.evidence = "measured" -> e.evidence = 2
        /\ e.capacity = 0 => r.policy.allow_unverified
        /\ e.capacity > 0 => e.reserved < e.capacity
        /\ \A b \in sides : binding_permits(r, b, e)

\* The domains of the hops that declare one, at the level of the policy.
HopDomains(r, hops) ==
    LET of(i) == (CHOOSE e \in EdgeOf(r, hops[i].edge) : TRUE).domain
        declared == Among([i \in DOMAIN hops |-> of(i)], {i \in DOMAIN hops : valid(of(i))})
    IN [i \in DOMAIN declared |-> AtLevel(r, declared[i])]

\* The signature once more: without the first hop's domain and one of the last's.
RecomputedSignature(r, hops) ==
    LET domains == HopDomains(r, hops)
        rest == Tail(domains)
    IN IF r.policy.diversity = "none" \/ Len(domains) <= 1 THEN {}
       ELSE ToSet(RemoveAt(rest, Min({i \in DOMAIN rest : rest[i] = Last(domains)})))

\* The paths of a logical edge, in the order of the plan.
SiblingsOf(plan, l) ==
    Among(plan.paths, {i \in DOMAIN plan.paths : plan.paths[i].logical_edge = l})

\* One path on its own.
PathAccepted(r, path) ==
    /\ path.logical_edge \in DOMAIN r.collective.logical_edges
    /\ <<path.src, path.dst>> = r.collective.logical_edges[path.logical_edge]
    /\ path.stage = r.collective.logical_edge_stage[path.logical_edge]
    /\ Len(path.hops) <= r.policy.max_hops /\ path.cost <= r.policy.max_path_cost
    /\ hops_are_simple(path.hops)
    /\ \E s \in find_binding(r, path.src), t \in find_binding(r, path.dst) :
          /\ IF path.hops = <<>> THEN s.node = t.node
             ELSE path.hops[1].from = s.node /\ Last(path.hops).to = t.node
          /\ \A i \in DOMAIN path.hops : HopAccepted(r, path.hops[i], {s, t})
    /\ \A i \in 1..(Len(path.hops) - 1) : path.hops[i].to = path.hops[i + 1].from
    /\ path.signature = RecomputedSignature(r, path.hops)

\* Mutated form: only a preferred diversity is looked at.
DomainsApartIfPreferred(r, a, b) ==
    r.policy.diversity = "preferred" /\ a.hops # <<>> /\ b.hops # <<>> => a.signature \cap b.signature = {}

\* Two siblings share no domain where diversity is required; a path without hops
\* touches none.
DomainsApart(r, a, b) ==
    r.policy.diversity = "required" /\ a.hops # <<>> /\ b.hops # <<>> => a.signature \cap b.signature = {}

\* The siblings of one logical edge.  An undeclared domain is only refused from
\* the second sibling on.
SiblingsAccepted(r, siblings) ==
    /\ Len(siblings) = r.policy.paths_per_logical_edge
    /\ \A i \in DOMAIN siblings : i > 1 /\ r.policy.diversity = "required" =>
          Len(HopDomains(r, siblings[i].hops)) = Len(siblings[i].hops)
    /\ \A i, j \in DOMAIN siblings : i < j =>
          LET a == siblings[i].hops
              b == siblings[j].hops
              inner(h) == {h[k].to : k \in 1..(Len(h) - 1)}
          IN /\ r.policy.disjointness # "none" =>
                   {h.edge : h \in ToSet(a)} \cap {h.edge : h \in ToSet(b)} = {}
             /\ r.policy.disjointness = "node" => inner(a) \cap inner(b) = {}
             /\ DomainsApart(r, siblings[i], siblings[j])

StagesAccepted(r, plan) ==
    /\ Len(plan.stages) = plan.stage_count
    /\ \A s \in ToSet(plan.stages) :
          /\ s.index < plan.stage_count
          /\ \A id \in ToSet(s.paths) :
                /\ id \in DOMAIN plan.paths /\ plan.paths[id].id = id
                /\ plan.paths[id].stage = s.index
          /\ \A l \in ToSet(s.logical_edges) :
                /\ l \in DOMAIN r.collective.logical_edges
                /\ r.collective.logical_edge_stage[l] = s.index

\* What the paths of the plan place on an edge.
Recomputed(r, plan, id) ==
    LET k == r.policy.paths_per_logical_edge
        crossings == {c \in (DOMAIN plan.paths) \X (1..r.policy.max_hops) :
                         /\ c[2] \in DOMAIN plan.paths[c[1]].hops
                         /\ plan.paths[c[1]].hops[c[2]].edge = id}
        share == (r.collective.demand + k - 1) \div k
        sum == share * Cardinality(crossings)
    IN IF sum > CostCeiling THEN CostCeiling ELSE sum

\* The allocation table is the one the paths imply, and within what is spare.
AllocationsAccepted(r, plan) ==
    LET used == UNION {{h.edge : h \in ToSet(p.hops)} : p \in ToSet(plan.paths)}
    IN /\ DistinctBy(plan.allocations, LAMBDA a : a.edge)
       /\ {a.edge : a \in ToSet(plan.allocations)} = IF r.collective.demand > 0 THEN used ELSE {}
       /\ \A a \in ToSet(plan.allocations) :
             /\ a.planned = Recomputed(r, plan, a.edge)
             /\ \A e \in EdgeOf(r, a.edge) :
                   e.capacity > 0 => a.planned <= e.capacity - e.reserved

\* The statistics, recomputed from the paths.
StatsOf(paths) ==
    LET sum == FoldSeq(LAMBDA p, acc : acc + p.cost, 0, paths)
        occupied == {p \in ToSet(paths) : p.hops # <<>>}
    IN [total_cost |-> IF sum > CostCeiling THEN CostCeiling ELSE sum,
        max_path_cost |-> Max({0} \cup {p.cost : p \in ToSet(paths)}),
        hop_count |-> FoldSeq(LAMBDA p, acc : acc + Len(p.hops), 0, paths),
        bottleneck |-> IF occupied = {} THEN 0 ELSE Min({p.bottleneck : p \in occupied}),
        weakest |-> Min({2} \cup {p.weakest : p \in ToSet(paths)})]

validate_plan(plan, r) ==
    /\ plan.input_digest = canonical_digest(r) /\ plan.id = plan.input_digest
    /\ plan.generation = r.plan_generation /\ plan.bindings = current_bindings(r)
    /\ plan.stage_count = r.collective.stage_count
    /\ {p.id : p \in ToSet(plan.paths)} = DOMAIN plan.paths
    /\ \A p \in ToSet(plan.paths) : PathAccepted(r, p)
    /\ \A l \in DOMAIN r.collective.logical_edges : SiblingsAccepted(r, SiblingsOf(plan, l))
    /\ StagesAccepted(r, plan)
    /\ AllocationsAccepted(r, plan)
    /\ plan.stats = StatsOf(plan.paths)
=============================================================================
