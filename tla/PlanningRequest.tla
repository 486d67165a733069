-------------------------- MODULE PlanningRequest --------------------------
(***************************************************************************)
(* From what a caller declares to the request the planner works on:        *)
(* Collective::build, FabricGraph::build, Policy::canonicalize and         *)
(* validate, and build_request, which puts them together.                  *)
(*                                                                         *)
(* Identifiers are integers, compared as their bytes are: a positive one   *)
(* is well formed, a negative one is not, and None is the empty one.       *)
(* Whatever makes an input malformed is a conjunct of one of the Accepts   *)
(* operators; the error code and the wording of a refusal are left out,    *)
(* and so are the limits on the number of things, which are in the         *)
(* millions.  Vectors that canonicalisation sorts and makes unique become  *)
(* sets, and the canonical digest stands for the canonical encoding        *)
(* itself.                                                                 *)
(***************************************************************************)
EXTENDS Integers, FiniteSets, SequencesExt

CONSTANTS
    MaxHops,        \* kMaxHops
    MaxPaths,       \* kMaxPathsPerLogicalEdge
    MaxLevels,      \* kMaxHierarchyLevels
    MaxCapacity,    \* kMaxCapacityMbps
    CostCeiling     \* kCostCeiling

ASSUME RequestAssumption ==
    /\ MaxHops \in Nat \ {0} /\ MaxPaths \in Nat \ {0}
    /\ MaxLevels \in Nat \ {0} /\ CostCeiling \in Nat
    /\ MaxCapacity \in 0..(CostCeiling - 1)

\* CollectiveSpec, FabricSpec, Policy and the bindings, as a caller declares them.
Groups == [id : Int, level : Nat, pattern : {"ring", "tree", "pairwise", "alltoall"},
           direction : {"forward", "reverse", "both"}, root : Int, members : Seq(Int)]
Domains == [id : Int, parent : Int, kind : Nat]
Nodes == [id : Int, tier : Int, eligible : BOOLEAN]
FabricEdges ==
    [id : Int, from : Int, to : Int, capacity : Nat, reserved : Nat, latency : Nat, tier : Int,
     domain : Int, evidence : 0..2, eligible : BOOLEAN]
Policies ==
    [generation : Nat, max_hops : Nat, paths_per_logical_edge : Nat,
     disjointness : {"none", "edge", "node"}, diversity : {"none", "preferred", "required"},
     diversity_level : Nat, evidence : {"any", "synthetic", "measured"}, latency_weight : Nat,
     congestion_weight : Nat, max_path_cost : Nat, allow_unverified : BOOLEAN,
     forbidden_nodes : Seq(Int), forbidden_tiers : Seq(Int), forbidden_domains : Seq(Int),
     allowed_tiers : Seq(Int), max_search_expansions : Nat]
Bindings == [participant : Int, node : Int, domains : Seq(Int), tiers : Seq(Int)]
Declarations ==
    [groups : Seq(Groups), demand : Nat, domains : Seq(Domains), nodes : Seq(Nodes),
     edges : Seq(FabricEdges), fabric_generation : Nat, policy : Policies,
     bindings : Seq(Bindings), plan_generation : Nat]

None == 0
valid(id) == id # None
is_valid_identifier(id) == id > 0

\* The members of the set s, in the order of less.
Ordered(s, less(_, _)) ==
    [i \in 1..Cardinality(s) |-> CHOOSE x \in s : Cardinality({y \in s : less(y, x)}) = i - 1]

\* What the sequence s holds at the positions in the set at, in the order of s.
Among(s, at) == LET places == Ordered(at, <) IN [k \in DOMAIN places |-> s[places[k]]]

\* The sequence s in that order, equals as they were.
Sorted(s, less(_, _)) ==
    LET before(i, j) == less(s[i], s[j]) \/ (~less(s[j], s[i]) /\ i < j)
        place(i) == 1 + Cardinality({j \in DOMAIN s : before(j, i)})
    IN [k \in DOMAIN s |-> s[CHOOSE i \in DOMAIN s : place(i) = k]]

\* No value of field f occurs twice in the sequence s.
DistinctBy(s, f(_)) == \A i, j \in DOMAIN s : f(s[i]) = f(s[j]) => i = j

-----------------------------------------------------------------------------
(* The collective *)

LexLess(a, b) == a[1] < b[1] \/ (a[1] = b[1] /\ a[2] < b[2])

\* rotate_ring_canonical: the smallest member first, the cycle kept.
rotate_ring_canonical(members) ==
    LET n == Len(members)
        first == CHOOSE i \in DOMAIN members : \A j \in DOMAIN members : members[i] <= members[j]
    IN [k \in DOMAIN members |-> members[1 + ((first + k - 2) % n)]]

\* Mutated form: the members of a ring are sorted like those of any group.
CanonicalMembersSorted(g) == Ordered(ToSet(g.members), <)

\* Only in a ring does the order of the members mean anything.
CanonicalMembers(g) ==
    IF g.pattern = "ring" THEN rotate_ring_canonical(g.members)
    ELSE Ordered(ToSet(g.members), <)

\* append_group_edges refuses a group its pattern cannot use.
GroupAccepted(g) ==
    /\ is_valid_identifier(g.id) /\ g.level < MaxLevels
    /\ g.members # <<>>
    /\ \A i \in DOMAIN g.members : is_valid_identifier(g.members[i])
    /\ valid(g.root) => is_valid_identifier(g.root)
    /\ IsInjective(g.members)
    /\ g.pattern \in {"ring", "tree", "alltoall"} => Len(g.members) >= 2
    /\ g.pattern = "tree" => g.root \in ToSet(g.members)
    /\ g.pattern = "pairwise" => Len(g.members) % 2 = 0

\* append_group_edges on a canonical group: ordered pairs of participants.
GroupEdges(g) ==
    LET m == g.members
        rest == ToSet(m) \ {g.root}
    IN CASE g.pattern = "ring" -> {<<m[i], m[1 + (i % Len(m))]>> : i \in DOMAIN m}
         [] g.pattern = "tree" ->
              (IF g.direction # "reverse" THEN {<<g.root, p>> : p \in rest} ELSE {})
              \cup (IF g.direction # "forward" THEN {<<p, g.root>> : p \in rest} ELSE {})
         [] g.pattern = "pairwise" ->
              UNION {{<<m[i], m[i + 1]>>, <<m[i + 1], m[i]>>} : i \in {k \in DOMAIN m : k % 2 = 1}}
         [] g.pattern = "alltoall" -> {p \in ToSet(m) \X ToSet(m) : p[1] # p[2]}

\* Groups sorted by level and identifier; only neighbours are compared.
CanonicalGroups(groups) ==
    Sorted([i \in DOMAIN groups |-> [groups[i] EXCEPT !.members = CanonicalMembers(groups[i])]],
            LAMBDA g, h : LexLess(<<g.level, g.id>>, <<h.level, h.id>>))

NoNeighbourRepeats(groups) ==
    \A i \in 1..(Len(groups) - 1) : groups[i].id # groups[i + 1].id

CollectiveAccepted(spec) ==
    /\ spec.groups # <<>> /\ spec.demand <= MaxCapacity
    /\ \A i \in DOMAIN spec.groups : GroupAccepted(spec.groups[i])
    /\ NoNeighbourRepeats(CanonicalGroups(spec.groups))

\* A logical edge implied by several groups belongs to the earliest stage.
StageOf(groups, pair) ==
    Min({g.level : g \in {h \in ToSet(groups) : pair \in GroupEdges(h)}})

\* Collective::build on an accepted specification.
BuiltCollective(spec) ==
    LET groups == CanonicalGroups(spec.groups)
        pairs == UNION {GroupEdges(g) : g \in ToSet(groups)}
        edges == Ordered(pairs, LexLess)
        stages == [i \in DOMAIN edges |-> StageOf(groups, edges[i])]
    IN [logical_edges |-> edges,
        logical_edge_stage |-> stages,
        stage_count |-> 1 + Max({0} \cup ToSet(stages)),
        participants |-> {p[1] : p \in pairs} \cup {p[2] : p \in pairs},
        demand |-> spec.demand,
        groups |-> groups]

-----------------------------------------------------------------------------
(* The fabric *)

Domain(domains, id) == CHOOSE d \in domains : d.id = id

\* The domain, its parent, and so on to the root.
domain_chain(domains, id) ==
    LET up[n \in 0..MaxLevels] ==
            IF n = 0 THEN <<id>>
            ELSE LET below == up[n - 1]
                     parent == Domain(domains, Last(below)).parent
                 IN IF valid(parent) THEN Append(below, parent) ELSE below
    IN up[MaxLevels]

domain_contains(domains, ancestor, id) ==
    valid(ancestor) /\ valid(id) /\ ancestor \in ToSet(domain_chain(domains, id))

EdgeAccepted(spec, e) ==
    LET nodes == {n.id : n \in ToSet(spec.nodes)}
        domains == {d.id : d \in ToSet(spec.domains)}
    IN /\ is_valid_identifier(e.id)
       /\ e.from \in nodes /\ e.to \in nodes /\ e.from # e.to
       /\ valid(e.tier) => is_valid_identifier(e.tier)
       /\ valid(e.domain) => e.domain \in domains
       /\ e.capacity <= MaxCapacity /\ e.reserved <= e.capacity

FabricAccepted(spec) ==
    /\ \A d \in ToSet(spec.domains) :
          /\ is_valid_identifier(d.id)
          /\ valid(d.parent) => \E p \in ToSet(spec.domains) : p.id = d.parent /\ p.kind > d.kind
    /\ DistinctBy(spec.domains, LAMBDA d : d.id)
    /\ \A n \in ToSet(spec.nodes) :
          is_valid_identifier(n.id) /\ (valid(n.tier) => is_valid_identifier(n.tier))
    /\ DistinctBy(spec.nodes, LAMBDA n : n.id)
    /\ \A e \in ToSet(spec.edges) : EdgeAccepted(spec, e)
    /\ DistinctBy(spec.edges, LAMBDA e : e.id)

EdgeLess(e, f) ==
    LexLess(<<e.from, e.to>>, <<f.from, f.to>>) \/ (e.from = f.from /\ e.to = f.to /\ e.id < f.id)

\* FabricGraph::build on an accepted specification.  An edge is known by its
\* position, the EdgeIndex.
BuiltFabric(spec) ==
    [domains |-> ToSet(spec.domains), nodes |-> ToSet(spec.nodes),
     edges |-> Sorted(spec.edges, EdgeLess), generation |-> spec.fabric_generation]

-----------------------------------------------------------------------------
(* The policy, the bindings and the request *)

\* Policy::canonicalize
canonicalize(p) ==
    [p EXCEPT !.forbidden_nodes = ToSet(@), !.forbidden_tiers = ToSet(@),
              !.forbidden_domains = ToSet(@), !.allowed_tiers = ToSet(@)]

\* Policy::validate on a canonical policy.
PolicyAccepted(p) ==
    /\ p.generation > 0
    /\ p.max_hops \in 1..MaxHops
    /\ p.paths_per_logical_edge \in 1..MaxPaths
    /\ p.max_path_cost \in 1..CostCeiling
    /\ p.max_search_expansions > 0
    /\ \A id \in p.forbidden_nodes \cup p.forbidden_tiers \cup p.forbidden_domains
                 \cup p.allowed_tiers : is_valid_identifier(id)
    /\ p.allowed_tiers \cap p.forbidden_tiers = {}

CanonicalBinding(b) == [b EXCEPT !.domains = ToSet(@), !.tiers = ToSet(@)]

BindingsAccepted(spec, participants) ==
    /\ DistinctBy(spec.bindings, LAMBDA b : b.participant)
    /\ \A b \in ToSet(spec.bindings) :
          /\ b.participant \in participants
          /\ \E n \in ToSet(spec.nodes) : n.id = b.node
          /\ ToSet(b.domains) \subseteq {d.id : d \in ToSet(spec.domains)}
          /\ \A t \in ToSet(b.tiers) : is_valid_identifier(t)

Accepts(spec) ==
    /\ CollectiveAccepted(spec)
    /\ FabricAccepted(spec)
    /\ PolicyAccepted(canonicalize(spec.policy))
    /\ spec.plan_generation > 0
    /\ BindingsAccepted(spec, BuiltCollective(spec).participants)

\* build_request on an accepted specification.
build_request(spec) ==
    [collective |-> BuiltCollective(spec), fabric |-> BuiltFabric(spec),
     policy |-> canonicalize(spec.policy),
     bindings |-> {CanonicalBinding(b) : b \in ToSet(spec.bindings)},
     plan_generation |-> spec.plan_generation]

\* What encode_canonical writes: everything but the plan generation.
canonical_digest(r) == <<r.collective, r.fabric, r.policy, r.bindings>>

current_bindings(r) == <<r.fabric.generation, r.policy.generation, r.plan_generation>>

find_binding(r, participant) == {b \in r.bindings : b.participant = participant}
=============================================================================
