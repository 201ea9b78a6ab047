----------------------------- MODULE MCRegionNet -----------------------------
(***************************************************************************)
(* The instance of RegionNet for TLC: two regions that may share both      *)
(* places.                                                                 *)
(***************************************************************************)
EXTENDS RegionNet, TLC

\* Names of one kind are interchangeable.
Renaming == Permutations(Place) \cup Permutations(Transition) \cup Permutations(Region)
=============================================================================
