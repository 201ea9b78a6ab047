--------------------------- MODULE MCIdAssignment ---------------------------
(***************************************************************************)
(* Instances of IdAssignment for TLC.  Runners a and b are of region east; *)
(* c is of region west, and by a mistake in its net it has a transition of *)
(* region east.                                                            *)
(***************************************************************************)
EXTENDS IdAssignment, TLC

CONSTANTS a, b, c, east, west, t1, t2, p1

Regions == (a :> east) @@ (b :> east) @@ (c :> west)
MCWants == (a :> {t1, p1}) @@ (b :> {t1, t2}) @@ (c :> {t1, p1})
=============================================================================
