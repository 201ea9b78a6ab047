----------------------------- MODULE MCFailover -----------------------------
(***************************************************************************)
(* Instances of Failover for TLC: one token that a transition of region    *)
(* east and one of region west take from the same place.                   *)
(***************************************************************************)
EXTENDS Failover, TLC

CONSTANTS a1, a2, b1, east, west, left, right, forth, rival, tok

Regions == [n \in Node |-> IF n = b1 THEN west ELSE east]
Homes == (forth :> east) @@ (rival :> west)
Ins == (forth :> left) @@ (rival :> left)
Outs == (forth :> right) @@ (rival :> right)
Starts == tok :> left
=============================================================================
