---------------------------- MODULE MCPlanStore ----------------------------
(* Constants for model-checking PlanStore. *)
EXTENDS PlanStore

\* Generation 1 encodes to a small record, generation 2 to a large one.
MCSize == [g \in Gens |-> g]
=============================================================================
