----------------------------- MODULE MCPlanning -----------------------------
(***************************************************************************)
(* Inputs for Planning: fabrics of up to seven edges on four to six nodes. *)
(* A logical edge leads from node 1 to node 4.  The cheapest route         *)
(* 1-2-3-4 of the fabric Trap crosses both routes of its disjoint pair,    *)
(* and Full adds a cycle that costs nothing.                               *)
(***************************************************************************)
EXTENDS Planning

Latency == [id \in {12, 23, 32, 34, 112} |-> 0] @@ [id \in {13, 24, 124, 14, 21, 31, 35, 16, 63} |-> 1]
           @@ 54 :> 2 @@ 25 :> 3
EdgeSpec(id) ==
    [id |-> id, from |-> (id % 100) \div 10, to |-> id % 10, capacity |-> 2, latency |-> Latency[id],
     reserved |-> 0, tier |-> 1, domain |-> 2 + (id % 2), evidence |-> 2, eligible |-> TRUE]
Fabric(ids) == [i \in DOMAIN ids |-> EdgeSpec(ids[i])]

Diamond == <<12, 24, 13, 34>>
Trap == <<34, 24, 23, 13, 12>>
Full == <<14, 34, 32, 24, 23, 13, 12>>
Twins == <<12, 112, 24>>
Line == <<12, 23, 34>>
Gap == <<12, 34>>

\* Two edges each way over the one node between the ends.
Bundle == <<12, 112, 24, 124>>

\* Node 5 is first reached over the dearer of two ways.
Fan == <<12, 13, 25, 35, 54>>

\* The shortest route 1-2-3-4 crosses the only disjoint pair, of the same length.
Cross == <<12, 23, 34, 16, 63, 25, 54>>
Wide(spec) == [spec EXCEPT !.nodes = @ \o [i \in 1..2 |-> [id |-> 4 + i, tier |-> 1, eligible |-> TRUE]]]

Group == [id |-> 1, level |-> 0, pattern |-> "tree", direction |-> "forward", root |-> 1,
          members |-> <<1, 2>>]
Bind(participant, node) == [participant |-> participant, node |-> node, domains |-> <<>>, tiers |-> <<>>]
BasePolicy ==
    [generation |-> 1, max_hops |-> 3, paths_per_logical_edge |-> 2, disjointness |-> "edge",
     diversity |-> "none", diversity_level |-> 1, evidence |-> "any", latency_weight |-> 1000,
     congestion_weight |-> 0, max_path_cost |-> 9, allow_unverified |-> FALSE,
     forbidden_nodes |-> <<>>, forbidden_tiers |-> <<>>, forbidden_domains |-> <<>>,
     allowed_tiers |-> <<>>, max_search_expansions |-> 100]
Base ==
    [groups |-> <<Group>>, demand |-> 1,
     domains |-> <<[id |-> 1, parent |-> None, kind |-> 2], [id |-> 2, parent |-> 1, kind |-> 1],
                   [id |-> 3, parent |-> 1, kind |-> 1]>>,
     nodes |-> [n \in 1..4 |-> [id |-> n, tier |-> 1, eligible |-> TRUE]],
     edges |-> Fabric(Diamond), fabric_generation |-> 1, policy |-> BasePolicy,
     bindings |-> <<Bind(2, 4), Bind(1, 1)>>, plan_generation |-> 1]

Ample ==
    [max_candidate_paths |-> 8, max_exhaustive_paths |-> 8, max_enumeration_steps |-> 200,
     max_total_enumeration_steps |-> 400, max_combination_steps |-> 100,
     max_set_alternatives |-> 3, collect_all_denials |-> TRUE]
NoEnumeration == [Ample EXCEPT !.max_enumeration_steps = 3]
FewPaths == [Ample EXCEPT !.max_exhaustive_paths = 1]
SharedBudget == [Ample EXCEPT !.max_total_enumeration_steps = 14]
SmallPool == [FewPaths EXCEPT !.max_candidate_paths = 2]
NoPool == [FewPaths EXCEPT !.max_candidate_paths = 0]
FewCombinations == [Ample EXCEPT !.max_combination_steps = 1, !.collect_all_denials = FALSE]
OneAlternative == [Ample EXCEPT !.max_set_alternatives = 1]
AllLimits == {Ample, NoEnumeration, FewPaths, SharedBudget, SmallPool, NoPool, FewCombinations, OneAlternative}

Ask(spec, l) == [spec |-> spec, limits |-> l, submitted |-> FALSE]
On(ids) == [Base EXCEPT !.edges = Fabric(ids)]

\* Requirements against fabrics and budgets.
Required(ids, apart, k, hops) ==
    [On(ids) EXCEPT !.policy.disjointness = apart, !.policy.paths_per_logical_edge = k,
                    !.policy.max_hops = hops]
Combined ==
    {Ask(Required(ids, apart, k, hops), l) :
        ids \in {Diamond, Trap, Full, Twins, Bundle, Gap}, apart \in {"none", "edge", "node"}, k \in 1..3,
        hops \in {2, 3}, l \in AllLimits}
    \cup {Ask([Required(ids, "node", 2, hops) EXCEPT !.policy.max_search_expansions = n], NoEnumeration) :
            ids \in {Trap, Full}, hops \in {3, 4}, n \in {1, 4, 7}}
    \cup {Ask(Wide(Required(Fan, "edge", 2, 3)), NoEnumeration)}
    \cup {Ask(Wide(Required(Cross, apart, k, 3)), l) :
            apart \in {"edge", "node"}, k \in {2, 3}, l \in AllLimits}
    \cup {Ask(Required(Ordered(ids, <), apart, 2, 3), l) :
            ids \in SUBSET ToSet(Full), apart \in {"edge", "node"}, l \in {Ample, NoEnumeration}}

\* One constraint at a time.
Put(s, i, field, value) == [s EXCEPT !.edges[i][field] = value]
Constrained ==
    LET d == Base
        one == [Base EXCEPT !.policy.paths_per_logical_edge = 1]
    IN {one, On(Line), [On(Line) EXCEPT !.policy.max_hops = 2],
        [d EXCEPT !.nodes[2].eligible = FALSE], [d EXCEPT !.nodes[1].eligible = FALSE],
        [d EXCEPT !.nodes[3].tier = 2, !.policy.forbidden_tiers = <<2>>],
        [d EXCEPT !.policy.forbidden_nodes = <<3>>],
        [one EXCEPT !.policy.forbidden_tiers = <<1>>], [one EXCEPT !.policy.allowed_tiers = <<2>>],
        [one EXCEPT !.policy.forbidden_domains = <<1>>], [one EXCEPT !.policy.forbidden_domains = <<2>>],
        [one EXCEPT !.policy.max_path_cost = 1], [d EXCEPT !.demand = 5], [one EXCEPT !.demand = 5],
        [d EXCEPT !.demand = 4, !.policy.disjointness = "none", !.edges = Fabric(Twins)],
        Put(one, 1, "eligible", FALSE), Put(Put(one, 1, "eligible", FALSE), 3, "eligible", FALSE),
        Put(d, 1, "reserved", 2), Put(d, 1, "capacity", 0),
        [Put(d, 1, "capacity", 0) EXCEPT !.policy.allow_unverified = TRUE],
        [Put(Put(d, 1, "reserved", 1), 2, "tier", None) EXCEPT !.policy.congestion_weight = 3],
        [Put(d, 2, "evidence", 1) EXCEPT !.policy.evidence = "measured"],
        [Put(d, 2, "evidence", 0) EXCEPT !.policy.evidence = "synthetic"],
        [Put(Put(one, 1, "evidence", 1), 3, "evidence", 0) EXCEPT !.policy.evidence = "measured"],
        [Put(d, 2, "tier", 2) EXCEPT !.bindings[1].tiers = <<1>>],
        [one EXCEPT !.bindings[1].domains = <<3>>], [d EXCEPT !.bindings[2].domains = <<1>>],
        [one EXCEPT !.bindings[2].tiers = <<2>>],
        [Put(d, 1, "domain", None) EXCEPT !.policy.diversity = "required"]}
    \cup {[On(ids) EXCEPT !.policy.diversity = v, !.policy.diversity_level = n] :
            ids \in {Diamond, Trap, Full}, v \in {"preferred", "required"}, n \in {1, 2}}
    \cup {Put(Wide([Required(Cross, "edge", 2, 3) EXCEPT !.policy.diversity = "required"]), 6, "domain", n) :
            n \in {2, 3}}
Constraints == {Ask(s, l) : s \in Constrained, l \in {Ample, FewPaths}}

\* Several logical edges, participants that share a node, participants left out.
Collectives ==
    LET three == [Base EXCEPT !.groups = <<[Group EXCEPT !.members = <<3, 1, 2>>]>>,
                              !.bindings = <<Bind(1, 1), Bind(2, 4), Bind(3, 4)>>]
        round == [three EXCEPT !.policy.paths_per_logical_edge = 1, !.edges = Fabric(<<12, 24, 13, 31, 14>>),
                               !.bindings = <<Bind(1, 1), Bind(2, 2), Bind(3, 3)>>]
        shape(g) == [round EXCEPT !.groups = <<g>>]
    IN {three, [three EXCEPT !.edges = Fabric(Line), !.policy.paths_per_logical_edge = 1],
        [three EXCEPT !.demand = 3], [three EXCEPT !.edges = Fabric(Trap)],
        [three EXCEPT !.edges = Fabric(Full), !.demand = 4, !.policy.disjointness = "node"],
        [three EXCEPT !.bindings = <<Bind(1, 1), Bind(3, 4)>>],
        [three EXCEPT !.edges = Fabric(Gap)],
        [round EXCEPT !.groups = <<[Group EXCEPT !.direction = "both"],
                                   [Group EXCEPT !.id = 2, !.level = 1, !.members = <<1, 2, 3>>]>>],
        shape([Group EXCEPT !.pattern = "ring", !.members = <<3, 1, 2>>]),
        shape([Group EXCEPT !.pattern = "ring", !.members = <<1, 3, 2>>]),
        shape([Group EXCEPT !.pattern = "pairwise", !.members = <<2, 1>>]),
        shape([Group EXCEPT !.pattern = "alltoall"]),
        shape([Group EXCEPT !.direction = "reverse", !.members = <<1, 3>>])}
Several == {Ask(s, l) : s \in Collectives, l \in AllLimits}

Together ==
    {Ask([Base EXCEPT !.bindings = <<Bind(1, 1), Bind(2, 1)>>, !.policy.paths_per_logical_edge = k], l) :
        k \in {1, 2}, l \in {Ample, NoEnumeration}}

\* Declarations that are refused.
Malformed ==
    {Ask(s, Ample) : s \in {
        [Base EXCEPT !.groups = <<>>], [Base EXCEPT !.groups = <<Group, Group>>],
        [Base EXCEPT !.groups = <<[Group EXCEPT !.root = 3]>>],
        [Base EXCEPT !.groups = <<[Group EXCEPT !.members = <<1, 2, 1>>]>>],
        [Base EXCEPT !.groups = <<[Group EXCEPT !.pattern = "pairwise", !.members = <<1, 2, 3>>]>>],
        [Base EXCEPT !.edges = Fabric(<<12, 12>>)], Put(Base, 1, "reserved", 3), Put(Base, 1, "capacity", 101),
        [Base EXCEPT !.domains[1].parent = 2], [Base EXCEPT !.nodes[1].id = 0 - 1],
        [Base EXCEPT !.policy.max_hops = 9], [Base EXCEPT !.policy.allowed_tiers = <<1>>, !.policy.forbidden_tiers = <<1>>],
        [Base EXCEPT !.bindings = <<Bind(1, 1), Bind(1, 4)>>], [Base EXCEPT !.bindings = <<Bind(7, 1)>>],
        [Base EXCEPT !.plan_generation = 0]}}

\* Plans a caller brings.
Small == On(<<12, 24, 21>>)
Submissions ==
    {[spec |-> s, limits |-> Ample, submitted |-> TRUE] : s \in {
        [Small EXCEPT !.edges = Fabric(<<12, 112, 24, 14>>)],
        [Small EXCEPT !.policy.paths_per_logical_edge = 1],
        [Put(Small, 2, "evidence", 0) EXCEPT !.policy.paths_per_logical_edge = 1, !.policy.evidence = "measured"],
        [Small EXCEPT !.policy.disjointness = "none", !.demand = 4],
        [Small EXCEPT !.policy.disjointness = "none"],
        [Small EXCEPT !.policy.paths_per_logical_edge = 1, !.bindings[1].domains = <<2>>]}}

\* Plans a caller brings where diversity is required: two copies of the route 1-2-3-4
\* cross the domain of its inner edge, the direct edge crosses none.
Diversity ==
    LET asked == [On(<<12, 23, 34, 14>>) EXCEPT !.policy.diversity = "required", !.policy.disjointness = "none"]
    IN {[spec |-> s, limits |-> Ample, submitted |-> TRUE] : s \in
            {asked, [asked EXCEPT !.policy.diversity_level = 2],
             [asked EXCEPT !.policy.disjointness = "edge"]}
            \cup {Put(asked, i, "domain", None) : i \in {2, 4}}}

MCInputs == Combined \cup Constraints \cup Several \cup Malformed \cup Together \cup Submissions \cup Diversity
ZeroHopInputs == Together \cup Constraints
=============================================================================
