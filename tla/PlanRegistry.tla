---------------------------- MODULE PlanRegistry ----------------------------
(***************************************************************************)
(* What the plan store promises its callers, without files, directories or *)
(* system calls: a map of digests to records in which every change is      *)
(* atomic, and where a failure may leave it open whether the last change   *)
(* happened but never what the store has promised.                         *)
(*                                                                         *)
(* may[d] is the set of the values that could be found under d if the      *)
(* process or the machine failed now.                                      *)
(***************************************************************************)
CONSTANTS
    Digests,
    Records,
    NoRec,      \* nothing is stored
    Erased      \* the caller was told that nothing is stored

VARIABLES
    may,
    promise     \* what the caller was last told: a record, Erased, or nothing

registryVars == <<may, promise>>

Init ==
    /\ may = [d \in Digests |-> {NoRec}]
    /\ promise = [d \in Digests |-> NoRec]

\* The other digests are as they were.
Only(d) == \A e \in Digests \ {d} : may'[e] = may[e] /\ promise'[e] = promise[e]

\* A record is written: it or what was there may be found, and nothing else.  Who
\* was told the digest is erased can no longer rely on it.
Put(d) ==
    /\ \E r \in may'[d] : r \in Records /\ may'[d] \subseteq may[d] \cup {r}
    /\ promise'[d] = IF promise[d] = Erased THEN NoRec ELSE promise[d]
    /\ Only(d)

\* A record is on its way out, evicted or erased, and nothing is promised any more.
Discard(d) ==
    /\ may'[d] \subseteq may[d] \cup {NoRec} /\ may'[d] # {}
    /\ promise'[d] = NoRec
    /\ Only(d)

(***************************************************************************)
(* What was open is decided, by a flush or by a failure: possibilities     *)
(* disappear and none is added.  A promise may be given where only one     *)
(* value is left, and withdrawn for records that are to be evicted.        *)
(***************************************************************************)
Settle ==
    /\ \A d \in Digests : may'[d] # {} /\ may'[d] \subseteq may[d]
    /\ \A d \in Digests :
          \/ promise'[d] \in {promise[d], NoRec}
          \/ promise'[d] \in Records /\ may'[d] = {promise'[d]}
          \/ promise'[d] = Erased /\ may'[d] = {NoRec}

Next ==
    \/ \E d \in Digests : Put(d) \/ Discard(d)
    \/ Settle

Spec == Init /\ [][Next]_registryVars
=============================================================================
