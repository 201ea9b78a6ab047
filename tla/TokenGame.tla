----------------------------- MODULE TokenGame ------------------------------
(***************************************************************************)
(* The token game of a timed Petri net, as the transitions should play it  *)
(* whatever region they belong to: a firing transition has its tokens for  *)
(* itself until it finishes, and nobody else's tokens change.              *)
(***************************************************************************)
CONSTANTS Token, Place, Transition, InPlaces, OutPlaces

VARIABLES
  where,  \* where[t]: nowhere, at a place, or taken from a place
  used    \* the tokens that exist or have existed

Nowhere == [kind |-> "nowhere"]
At(p) == [kind |-> "place", pl |-> p]
With(tr, p) == [kind |-> "transition", tr |-> tr, pl |-> p]

\* Some tokens are at rest, and no others have existed.
Init ==
  /\ \A t \in Token : where[t] = Nowhere \/ \E p \in Place : where[t] = At(p)
  /\ used = {t \in Token : where[t] # Nowhere}

\* tr takes some tokens of its input places, or none.
Fire(tr) ==
  /\ \A t \in Token :
       where'[t] # where[t] =>
         \E p \in InPlaces[tr] : where[t] = At(p) /\ where'[t] = With(tr, p)
  /\ UNCHANGED used

\* A token that did not exist, and never did, appears at one of the places.
Appears(t, places) ==
  where[t] = Nowhere /\ t \notin used /\ t \in used' /\ \E p \in places : where'[t] = At(p)

\* Each token tr has taken goes to an output place, back, or out of the net.
Finish(tr) ==
  /\ \A t \in Token :
       IF \E p \in Place : where[t] = With(tr, p)
       THEN where'[t] \in {Nowhere, At(where[t].pl)} \cup {At(p) : p \in OutPlaces[tr]}
       ELSE where'[t] = where[t] \/ Appears(t, OutPlaces[tr])
  /\ used \subseteq used'

\* Somebody inserts, moves or removes a token no transition has taken.
Edit(t) ==
  /\ \A v \in Token \ {t} : where'[v] = where[v]
  /\ \/ Appears(t, Place)
     \/ \E p \in Place : where[t] = At(p)
        /\ used' = used
        /\ where'[t] \in {Nowhere} \cup {At(q) : q \in Place}

Next ==
  \/ \E tr \in Transition : Fire(tr) \/ Finish(tr)
  \/ \E t \in Token : Edit(t)

Spec == Init /\ [][Next]_<<where, used>>
=============================================================================
