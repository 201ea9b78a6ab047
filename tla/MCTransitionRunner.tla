------------------------- MODULE MCTransitionRunner -------------------------
(***************************************************************************)
(* An instance of TransitionRunner for TLC.  The transitions of two        *)
(* runners, tr1 of a and tr2 of b, contend for the tokens at place 1; tr2  *)
(* may move its token to place 2, where it stays.  The transition init of  *)
(* a fills the net when it is empty.  The executors are those of the       *)
(* examples.                                                               *)
(***************************************************************************)
EXTENDS TransitionRunner

CONSTANTS a, b, init, tr1, tr2, x, y

MCNodeOf == [tr \in Transition |-> IF tr = tr2 THEN b ELSE a]

MCIn == [tr \in Transition |-> IF tr = init THEN {} ELSE {1}]
MCOut == [tr \in Transition |-> IF tr = tr2 THEN {1, 2} ELSE {1}]
MCCond == [tr \in Transition |-> IF tr = init THEN {1, 2} ELSE {1}]

Examples == [tr \in Transition |-> IF tr = init THEN "initialize" ELSE "move"]

NoToken == [t \in Token |-> NoPlace]

\* What the theorems about the examples assume.
ASSUME MCExamples == ExamplesValidated /\ OneInitialize
=============================================================================
