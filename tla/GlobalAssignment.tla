-------------------------- MODULE GlobalAssignment --------------------------
(***************************************************************************)
(* How plan_collective (planner.cpp) turns the path sets of its logical    *)
(* edges into one plan: the offering of path sets (enumerate_sets,         *)
(* offer_set, the end of analyse_logical_edge), the assignment of one set  *)
(* to every logical edge within the spare capacity (solve_global), and the *)
(* verdict the caller is given.                                            *)
(*                                                                         *)
(* A path set is an integer, ordered as PathSet::signature; the constants  *)
(* give its cost, its domain conflicts, its dearest path and the demand it *)
(* places on each edge of verified capacity.  Which compatible sets a      *)
(* logical edge has is the input (`problem`).  The enumeration may stop at *)
(* one of its bounds after any of them, in any order.                      *)
(***************************************************************************)
EXTENDS Integers, FiniteSets, FiniteSetsExt, SequencesExt

CONSTANTS
    LogicalEdges,        \* collective.logical_edges.size()
    Sets,                \* the path sets
    Cost, Conflicts, MaxPathCost, \* of each set: total_cost, domain_conflicts, max_path_cost
    Usage,               \* of each set: demand on each edge it touches
    Spare,               \* verified spare capacity of each physical edge
    Problems,            \* the inputs: compatible sets of each logical edge
    MaxSetAlternatives,  \* PlannerLimits::max_set_alternatives
    MaxGlobalNodes,      \* PlannerLimits::max_global_nodes
    CollectAllDenials,   \* PlannerLimits::collect_all_denials
    CostCeiling,         \* kCostCeiling
    NoBest               \* have_best is false

Levels == 1..LogicalEdges
Edges == DOMAIN Spare

\* What the objective compares of an assignment.
Worths == [total : Nat, conflicts : Nat, max : Nat, headroom : Nat]

ASSUME AssignmentAssumption ==
    /\ LogicalEdges \in Nat
    /\ Sets \subseteq Int /\ IsFiniteSet(Sets)
    /\ Cost \in [Sets -> Nat]
    /\ Conflicts \in [Sets -> Nat]
    /\ MaxPathCost \in [Sets -> Nat]
    /\ Spare \in [Edges -> Nat] /\ IsFiniteSet(Edges)
    /\ \A s \in Sets : /\ DOMAIN Usage[s] \subseteq Edges
                       /\ Usage[s] \in [DOMAIN Usage[s] -> Nat]
    /\ Problems \subseteq [Levels -> SUBSET Sets]
    /\ MaxSetAlternatives \in Nat \ {0}
    /\ MaxGlobalNodes \in Nat
    /\ CollectAllDenials \in BOOLEAN
    /\ CostCeiling \in Nat
    /\ NoBest \notin [choice : [Levels -> Nat], worth : Worths]

VARIABLES
    problem,        \* the compatible path sets of each logical edge
    \* analyse_logical_edge
    edge,           \* the logical edge being analysed
    seen,           \* the sets enumerate_sets has considered for it
    alternatives,   \* EdgePlan::alternatives
    setsExhaustive, \* EdgePlan::sets_exhaustive
    denials,        \* the kinds of the denials collected so far
    \* solve_global
    level, choice, started, remaining, nodes, limited, best,
    \* plan_collective
    pc, verdict, optimal

analysis == <<edge, seen, alternatives, setsExhaustive>>
search == <<level, choice, started, remaining, nodes, limited, best>>
vars == <<problem, analysis, denials, search, pc, verdict, optimal>>

-----------------------------------------------------------------------------
(* The objective *)

Saturate(n) == IF n > CostCeiling THEN CostCeiling ELSE n

Demand(s, e) == IF e \in DOMAIN Usage[s] THEN Usage[s][e] ELSE 0

\* The set's footprint fits what is left of every edge it touches.
FitsIn(s, left) == \A e \in DOMAIN Usage[s] : Usage[s][e] <= left[e]

SumOver(g) == MapThenSumSet(LAMBDA l : g[l], DOMAIN g)

\* What sets[l], l \in L, place on e together.
Load(sets, L, e) == SumOver([l \in L |-> Demand(sets[l], e)])

\* The least of the given amounts over the edges of E; kCostCeiling over none.
Least(left, E) == IF E = {} THEN CostCeiling ELSE Min({left[e] : e \in E})

Touched(sets) == UNION {DOMAIN Usage[sets[l]] : l \in DOMAIN sets}

\* What one choice of sets is worth, `left` being what it leaves of every edge.
Worth(sets, left) ==
    [total |-> Saturate(SumOver([l \in DOMAIN sets |-> Cost[sets[l]]])),
     conflicts |-> SumOver([l \in DOMAIN sets |-> Conflicts[sets[l]]]),
     max |-> IF DOMAIN sets = {} THEN 0 ELSE Max({MaxPathCost[sets[l]] : l \in DOMAIN sets}),
     headroom |-> Least(left, Touched(sets))]

\* Cost, then conflicts, then the dearest path.
CheaperOrSafer(a, b) ==
    \/ a.total < b.total
    \/ a.total = b.total /\ a.conflicts < b.conflicts
    \/ a.total = b.total /\ a.conflicts = b.conflicts /\ a.max < b.max

\* Mutated form: only the cost is compared.
global_better_cost_only(a, b) == a.total < b.total

global_better(a, b) ==
    \/ CheaperOrSafer(a, b)
    \/ /\ a.total = b.total /\ a.conflicts = b.conflicts /\ a.max = b.max
       /\ a.headroom > b.headroom

OwnWorth(s) ==
    Worth(<<s>>, [e \in Edges |-> IF Demand(s, e) >= Spare[e] THEN 0
                                  ELSE Spare[e] - Demand(s, e)])

path_set_less(s, t) ==
    \/ global_better(OwnWorth(s), OwnWorth(t))
    \/ OwnWorth(s) = OwnWorth(t) /\ s < t

-----------------------------------------------------------------------------
(* The path sets of one logical edge *)

\* Mutated form: a full list turns newcomers away.
offer_set_while_room(offered, s) ==
    IF Len(offered) = MaxSetAlternatives THEN offered
    ELSE InsertAt(offered, 1 + Cardinality({i \in DOMAIN offered : path_set_less(offered[i], s)}), s)

\* offer_set: insert in order, drop the last one beyond the cap.
offer_set(offered, s) ==
    LET position == 1 + Cardinality({i \in DOMAIN offered : path_set_less(offered[i], s)})
        grown == InsertAt(offered, position, s)
    IN IF Len(grown) > MaxSetAlternatives THEN Front(grown) ELSE grown

TypeOK ==
    /\ problem \in [Levels -> SUBSET Sets]
    /\ edge \in 1..(LogicalEdges + 1)
    /\ seen \in SUBSET Sets
    /\ alternatives \in [Levels -> Seq(Sets)]
    /\ setsExhaustive \in [Levels -> BOOLEAN]
    /\ denials \in SUBSET {"infeasible", "limit"}
    /\ level \in 0..(LogicalEdges + 1)
    /\ choice \in [Levels -> Nat \ {0}]
    /\ started \in [Levels -> BOOLEAN]
    /\ remaining \in [Edges -> Nat]  \* unsigned: never taken below zero
    /\ nodes \in 0..MaxGlobalNodes
    /\ limited \in BOOLEAN
    /\ best = NoBest \/ best.choice \in [Levels -> Nat \ {0}]
    /\ pc \in {"analyse", "assign", "search", "done"}
    /\ verdict \in {"none", "plan", "denied"}
    /\ optimal \in BOOLEAN

Init ==
    /\ problem \in Problems
    /\ edge = 1
    /\ seen = {}
    /\ alternatives = [l \in Levels |-> <<>>]
    /\ setsExhaustive = [l \in Levels |-> FALSE]
    /\ denials = {}
    /\ level = 1
    /\ choice = [l \in Levels |-> 1]
    /\ started = [l \in Levels |-> FALSE]
    /\ remaining = Spare
    /\ nodes = 0
    /\ limited = FALSE
    /\ best = NoBest
    /\ pc = "analyse"
    /\ verdict = "none"
    /\ optimal = FALSE

\* A complete set is considered: rejected if it alone exceeds the spare capacity.
Consider(s) ==
    /\ pc = "analyse" /\ edge \in Levels
    /\ s \in problem[edge] \ seen
    /\ seen' = seen \cup {s}
    /\ alternatives' = IF FitsIn(s, Spare)
                       THEN [alternatives EXCEPT ![edge] = offer_set(@, s)]
                       ELSE alternatives
    /\ UNCHANGED <<problem, edge, setsExhaustive, denials, search, pc, verdict, optimal>>

\* The end of analyse_logical_edge.  Only a complete enumeration counts as
\* exhaustive; without an alternative the edge is denied.  The certificate of
\* max_disjoint_paths may prove that there is none where the enumeration did not.
EndEdge(exhaustive, certified) ==
    /\ pc = "analyse" /\ edge \in Levels
    /\ exhaustive => seen = problem[edge]
    /\ certified => problem[edge] = {}
    /\ setsExhaustive' = [setsExhaustive EXCEPT ![edge] = exhaustive]
    /\ denials' = IF alternatives[edge] # <<>> THEN denials
                  ELSE denials \cup {IF exhaustive \/ certified THEN "infeasible" ELSE "limit"}
    /\ seen' = {}
    /\ edge' = IF denials' # {} /\ ~CollectAllDenials THEN LogicalEdges + 1 ELSE edge + 1
    /\ UNCHANGED <<problem, alternatives, search, pc, verdict, optimal>>

EndAnalysis ==
    /\ pc = "analyse" /\ edge > LogicalEdges
    /\ \/ /\ denials # {}
          /\ pc' = "done"
          /\ verdict' = "denied"
       \/ /\ denials = {}
          /\ pc' = "assign"
          /\ UNCHANGED verdict
    /\ UNCHANGED <<problem, analysis, denials, search, optimal>>

-----------------------------------------------------------------------------
(* solve_global *)

AllSetsExhaustive == \A l \in Levels : setsExhaustive[l]

Chosen(c) == [l \in Levels |-> alternatives[l][c[l]]]

After(sets) == [e \in Edges |-> Spare[e] - Load(sets, Levels, e)]

First == [l \in Levels |-> 1]

\* Mutated form: each first alternative is checked on its own.
FirstFitAlone == \A l \in Levels : FitsIn(alternatives[l][1], Spare)

\* The first alternatives, subtracted one after the other, all fit.
FirstFit == \A e \in Edges : Load(Chosen(First), Levels, e) <= Spare[e]

\* Fast path: every logical edge takes its own best alternative.
FastPath ==
    /\ pc = "assign" /\ FirstFit
    /\ best' = [choice |-> First, worth |-> Worth(Chosen(First), After(Chosen(First)))]
    /\ optimal' = AllSetsExhaustive
    /\ verdict' = "plan"
    /\ pc' = "done"
    /\ UNCHANGED <<problem, analysis, denials, level, choice, started, remaining,
                   nodes, limited>>

BeginSearch ==
    /\ pc = "assign" /\ ~FirstFit
    /\ pc' = "search"
    /\ UNCHANGED <<problem, analysis, denials, search, verdict, optimal>>

Take(s) == [e \in Edges |-> remaining[e] - Demand(s, e)]
GiveBack(s) == [e \in Edges |-> remaining[e] + Demand(s, e)]

\* The alternatives of this level that are still to be tried, and those that
\* fit.
Untried == (IF started[level] THEN choice[level] + 1 ELSE 1)..Len(alternatives[level])

\* Mutated form: the capacity left is not looked at.
FittingUnchecked == Untried

Fitting == {i \in Untried : FitsIn(alternatives[level][i], remaining)}

\* How many of them the loop looks at, each of which costs one node.
Probes == IF Fitting = {} THEN Cardinality(Untried)
          ELSE Cardinality({i \in Untried : i <= Min(Fitting)})

Searching == pc = "search" /\ ~limited /\ level > 0

Leaf ==
    LET candidate == [choice |-> choice, worth |-> Worth(Chosen(choice), remaining)] IN
    /\ Searching /\ level = LogicalEdges + 1
    /\ best' = IF best = NoBest \/ global_better(candidate.worth, best.worth)
               THEN candidate ELSE best
    /\ level' = level - 1
    /\ remaining' = GiveBack(alternatives[level - 1][choice[level - 1]])
    /\ UNCHANGED <<problem, analysis, denials, choice, started, nodes, limited,
                   pc, verdict, optimal>>

Limit ==
    /\ Searching /\ level \in Levels
    /\ nodes + Probes > MaxGlobalNodes
    /\ limited' = TRUE
    /\ nodes' = MaxGlobalNodes
    /\ UNCHANGED <<problem, analysis, denials, level, choice, started, remaining, best,
                   pc, verdict, optimal>>

Descend ==
    /\ Searching /\ level \in Levels
    /\ nodes + Probes <= MaxGlobalNodes
    /\ Fitting # {}
    /\ nodes' = nodes + Probes
    /\ choice' = [choice EXCEPT ![level] = Min(Fitting)]
    /\ started' = [started EXCEPT ![level] = TRUE]
    /\ remaining' = Take(alternatives[level][Min(Fitting)])
    /\ level' = level + 1
    /\ UNCHANGED <<problem, analysis, denials, limited, best, pc, verdict, optimal>>

\* Mutated form: an exhausted level keeps its place in the list.
BacktrackKeepingPlace ==
    /\ Searching /\ level \in Levels
    /\ nodes + Probes <= MaxGlobalNodes
    /\ Fitting = {}
    /\ nodes' = nodes + Probes
    /\ level' = level - 1
    /\ remaining' = IF level = 1 THEN remaining
                    ELSE GiveBack(alternatives[level - 1][choice[level - 1]])
    /\ UNCHANGED <<problem, analysis, denials, choice, started, limited, best, pc, verdict, optimal>>

\* Mutated form: backtracking does not return the capacity.
BacktrackKeepingCapacity ==
    /\ Searching /\ level \in Levels
    /\ nodes + Probes <= MaxGlobalNodes
    /\ Fitting = {}
    /\ nodes' = nodes + Probes
    /\ started' = [started EXCEPT ![level] = FALSE]
    /\ level' = level - 1
    /\ UNCHANGED <<problem, analysis, denials, choice, remaining, limited, best, pc, verdict, optimal>>

Backtrack ==
    /\ Searching /\ level \in Levels
    /\ nodes + Probes <= MaxGlobalNodes
    /\ Fitting = {}
    /\ nodes' = nodes + Probes
    /\ started' = [started EXCEPT ![level] = FALSE]
    /\ level' = level - 1
    /\ remaining' = IF level = 1 THEN remaining
                    ELSE GiveBack(alternatives[level - 1][choice[level - 1]])
    /\ UNCHANGED <<problem, analysis, denials, choice, limited, best, pc, verdict, optimal>>

\* The tail of solve_global and the verdict of plan_collective.
Conclude ==
    /\ pc = "search" /\ (limited \/ level = 0)
    /\ \/ /\ best # NoBest
          /\ verdict' = "plan"
          /\ optimal' = (~limited /\ AllSetsExhaustive)
          /\ UNCHANGED denials
       \/ /\ best = NoBest
          /\ verdict' = "denied"
          /\ denials' = {IF ~limited /\ AllSetsExhaustive THEN "infeasible" ELSE "limit"}
          /\ UNCHANGED optimal
    /\ pc' = "done"
    /\ UNCHANGED <<problem, analysis, search>>

Next ==
    \/ \E s \in Sets : Consider(s)
    \/ \E exhaustive, certified \in BOOLEAN : EndEdge(exhaustive, certified)
    \/ EndAnalysis
    \/ FastPath \/ BeginSearch
    \/ Leaf \/ Limit \/ Descend \/ Backtrack
    \/ Conclude

Spec == Init /\ [][Next]_vars
-----------------------------------------------------------------------------
(* Properties *)

(***************************************************************************)
(* However the sets of a logical edge are discovered, what is retained is  *)
(* the head of their one sorted list: "the result never depends on the     *)
(* order in which candidates happened to be discovered" (planner.hpp).     *)
(* The i-th of it is the set that i - 1 of those offered come before.      *)
(***************************************************************************)
KeepsBest ==
    pc = "analyse" /\ edge \in Levels =>
        LET offered == {s \in seen : FitsIn(s, Spare)}
            kept == alternatives[edge]
        IN /\ Len(kept) = Min({MaxSetAlternatives, Cardinality(offered)})
           /\ \A i \in DOMAIN kept :
                /\ kept[i] \in offered
                /\ Cardinality({s \in offered : path_set_less(s, kept[i])}) = i - 1

(***************************************************************************)
(* The capacity book: at every step of the search, what is left of an edge *)
(* is its spare capacity less what the levels entered so far have taken,   *)
(* through every descent, backtrack and leaf.                              *)
(***************************************************************************)
RemainingAccounts ==
    pc = "search" => \A e \in Edges :
        remaining[e] = Spare[e] - Load(Chosen(choice), 1..(level - 1), e)

(***************************************************************************)
(* A plan never commits more than the verified spare capacity of any       *)
(* physical edge, all its logical edges taken together.                    *)
(***************************************************************************)
PlanFits ==
    verdict = "plan" => \A e \in Edges :
        Load(Chosen(best.choice), Levels, e) <= Spare[e]

\* The reference: every way to give each logical edge one of its compatible
\* sets within the spare capacity.
FeasibleAssignments ==
    {f \in [Levels -> Sets] :
        /\ \A l \in Levels : f[l] \in problem[l]
        /\ \A e \in Edges : Load(f, Levels, e) <= Spare[e]}

\* offer_set has dropped no admissible set of any logical edge.
NothingDropped ==
    \A l \in Levels :
        Cardinality({s \in problem[l] : FitsIn(s, Spare)}) <= MaxSetAlternatives

\* Some denial claims that the request is infeasible.
ProvenInfeasible == verdict = "denied" /\ "infeasible" \in denials

(***************************************************************************)
(* Where offer_set dropped nothing, a denial that claims infeasibility is  *)
(* right: no assignment exists.                                            *)
(***************************************************************************)
DenialIsProof ==
    ProvenInfeasible /\ NothingDropped => FeasibleAssignments = {}

(***************************************************************************)
(* Where offer_set dropped nothing and no cost saturated, a plan reported  *)
(* as optimal is beaten by no assignment in cost, in domain conflicts or   *)
(* in its dearest path, on the fast path as after a search.                *)
(***************************************************************************)
OptimalIsCheapest ==
    optimal /\ NothingDropped /\ best.worth.total < CostCeiling =>
        \A f \in FeasibleAssignments : ~CheaperOrSafer(Worth(f, After(f)), best.worth)

(***************************************************************************)
(* "a denial claiming infeasibility is only emitted when infeasibility was *)
(* actually proven" (planner.hpp), whatever the limits were.               *)
(***************************************************************************)
InfeasibleOnlyIfProven == ProvenInfeasible => FeasibleAssignments = {}
=============================================================================
