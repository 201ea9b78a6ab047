---------------------------- MODULE MCPlaceLocks ----------------------------
(***************************************************************************)
(* Instances of PlaceLocks for TLC: who has which tasks, and which places  *)
(* the tasks lock.                                                         *)
(***************************************************************************)
EXTENDS PlaceLocks, TLC

CONSTANTS a, b, a1, a2, b1

MCHome == (a1 :> a) @@ (a2 :> a) @@ (b1 :> b)
Home2 == (a1 :> a) @@ (b1 :> b)

\* Everybody contends for place 1; the run of a2 destroys its token.
OnePlace == [t \in Task |-> {1}]
OnePlaceTarget == [t \in Task |-> IF t = a2 THEN {} ELSE {1}]

\* a1 and a2 share two places, of which b1 needs one as well.
SharedStart == [t \in Task |-> IF t = b1 THEN {1} ELSE {1, 2}]
NoTarget == [t \in Task |-> {}]

\* Two runners move tokens between two places in opposite directions: no task
\* ever holds the locks of both.
OppositeStart == [t \in Task |-> IF t = a1 THEN {1} ELSE {2}]
OppositeTarget == [t \in Task |-> IF t = a1 THEN {2} ELSE {1}]
=============================================================================
