--------------------------- MODULE MCCoordinator ---------------------------
(* The coordinator's threads on small instances. *)
EXTENDS Coordinator
=============================================================================
