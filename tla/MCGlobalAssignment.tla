------------------------- MODULE MCGlobalAssignment -------------------------
EXTENDS GlobalAssignment

(***************************************************************************)
(* Two physical edges "a" and "b" and five path sets.  Sets 1 and 2 are    *)
(* cheap and compete for "a"; 3 ties with 2 on cost but conflicts and goes *)
(* over "b"; 4 is dear and touches both; 5 alone exceeds the capacity of   *)
(* "a".                                                                    *)
(***************************************************************************)
MCCost == <<1, 2, 2, 3, 1>>
MCConflicts == <<0, 1, 0, 0, 0>>
MCMaxPathCost == <<1, 1, 2, 3, 1>>
MCUsage == << [a |-> 2], [a |-> 1], [b |-> 2], [a |-> 1, b |-> 1], [a |-> 4] >>
MCSpare == [a |-> 3, b |-> 2]
MCSets == 1..5
MCLevels == 1..3

\* Every input in which a logical edge has at most three compatible sets and
\* the edges together have at most six.
MCProblems ==
    {p \in [MCLevels -> SUBSET MCSets] :
        /\ \A l \in MCLevels : Cardinality(p[l]) <= 3
        /\ Cardinality(p[1]) + Cardinality(p[2]) + Cardinality(p[3]) <= 6}
=============================================================================
