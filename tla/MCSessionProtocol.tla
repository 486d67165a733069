-------------------------- MODULE MCSessionProtocol --------------------------
(***************************************************************************)
(* Instances of SessionProtocol.  Texts a and big differ in the plan       *)
(* generation alone, so their plans share a digest and replace each other; *)
(* the plan of big fits no frame.  b and c have digests of their own.  bad *)
(* does not parse and is answered with a detail beyond the bound of the    *)
(* client's decoder.  The store has room for two records and two units of  *)
(* size, and the record of big takes both.                                 *)
(***************************************************************************)
EXTENDS SessionProtocol

MCDigest == [t \in Texts |-> CASE t = "b" -> 2 [] t = "c" -> 3 [] t = "bad" -> 4 [] OTHER -> 1]

MCGens ==
    [t \in Texts |-> [topology |-> 1, domains |-> 1, capacity |-> 1, policy |-> 1,
                      plan |-> IF t = "big" THEN 2 ELSE 1]]

MCUnframed == {PlanOf("big")}

MCRoom ==
    {R \in SUBSET Plans :
        /\ Cardinality(R) <= 2
        /\ Cardinality(R) + Cardinality(R \cap MCUnframed) <= 2}

MCEarlier == <<PlanOf("b")>>

\* A store that is new.
NoPlans == <<>>
=============================================================================
