------------------------------ MODULE LocalNet ------------------------------
(***************************************************************************)
(* What a change does to the local copy of the net (net/net_state.rs).     *)
(*                                                                         *)
(* A change names one token, and everything _apply_change reads or writes  *)
(* is a map with that token as its key, so the local net is a function     *)
(* from tokens to what the net keeps about one of them:                    *)
(*   exists   it is in PetriNet::tokens                                    *)
(*   pos      Token::position, [kind, id]                                  *)
(*   last     Token::last_place                                            *)
(*   data     Token::data                                                  *)
(*   at       the places that have it in Place::token_ids                  *)
(*   taken    <<p, tr>>: Place::taken_token_ids of p maps it to tr         *)
(*   firing   the transitions that have it in Transition::token_ids        *)
(*   err      InconsistentState was returned: the runner shuts down        *)
(* The net is reduced to a region: places and transitions outside of it    *)
(* are not in its maps.                                                    *)
(***************************************************************************)
EXTENDS Naturals, Sequences

CONSTANTS
  Place, Transition,
  Known,     \* the places of the reduced net
  Local,     \* the transitions of the reduced net
  NoData     \* the data of Token::new, before an update sets it

ASSUME LocalNetAssumption == Known \subseteq Place /\ Local \subseteq Transition

AtPlace(p) == [kind |-> "place", id |-> p]
AtTransition(tr) == [kind |-> "transition", id |-> tr]

\* A token the net knows nothing of; pos, last and data stand for nothing.
Unknown == [exists |-> FALSE, pos |-> AtPlace(NoData), last |-> NoData, data |-> NoData,
            at |-> {}, taken |-> {}, firing |-> {}, err |-> FALSE]

\* A change: its name, the place and the transition it names, and new data.
Change(op, p, tr, d) == [op |-> op, pl |-> p, tr |-> tr, data |-> d]

TakenFrom(s, p) == {x \in s.taken : x[1] = p}

\* The transition releases the token, if it is one of this net.
LeavesFiring(s, tr) == tr \in Local => tr \in s.firing

\* Conditions under which a change is applied: get_place!, get_token! and
\* assert_state!.  Where one fails, the net is in an inconsistent state.
Accepts(s, c) ==
  CASE c.op = "Take" ->
         /\ c.pl \in Known /\ s.exists
         /\ s.pos = AtPlace(c.pl) /\ s.last = c.pl
         /\ c.pl \in s.at /\ TakenFrom(s, c.pl) = {}
         /\ c.tr \notin s.firing
    [] c.op = "Place" ->
         /\ s.exists /\ s.last \in Known
         /\ s.pos = AtTransition(c.tr) /\ TakenFrom(s, s.last) # {}
         /\ c.pl \in Known /\ c.pl \notin s.at
         /\ LeavesFiring(s, c.tr)
    [] c.op = "Delete" ->
         /\ s.exists /\ s.last \in Known
         /\ s.pos = AtTransition(c.tr) /\ s.last = c.pl
         /\ TakenFrom(s, s.last) # {}
         /\ LeavesFiring(s, c.tr)
    [] c.op = "Update" -> s.exists /\ s.pos = AtTransition(c.tr)
    [] c.op = "ExternalPlace" ->
         /\ c.pl \in Known
         /\ s.exists /\ s.pos # AtPlace(c.pl) =>
              IF s.pos.kind = "place" THEN s.pos.id \in Known \cap s.at
                                      ELSE LeavesFiring(s, s.pos.id)
         /\ s.exists => s.last \in Known
    [] c.op = "ExternalDelete" ->
         /\ s.exists /\ s.last = c.pl /\ c.pl \in Known
         /\ IF s.pos.kind = "place" THEN s.pos.id = c.pl /\ c.pl \in s.at
                                    ELSE LeavesFiring(s, s.pos.id)
    [] c.op = "ExternalUpdate" -> s.exists

\* The new value of what the net keeps about the token.
Effect(s, c) ==
  CASE c.op = "Take" ->
         [s EXCEPT !.pos = AtTransition(c.tr), !.at = @ \ {c.pl},
                   !.taken = @ \cup {<<c.pl, c.tr>>},
                   !.firing = @ \cup ({c.tr} \cap Local)]
    [] c.op = "Place" ->
         [s EXCEPT !.pos = AtPlace(c.pl), !.last = c.pl, !.at = @ \cup {c.pl},
                   !.taken = @ \ TakenFrom(s, s.last),
                   !.firing = @ \ {c.tr}]
    [] c.op = "Delete" ->
         [Unknown EXCEPT !.at = s.at, !.taken = s.taken \ TakenFrom(s, s.last),
                         !.firing = s.firing \ {c.tr}]
    [] c.op \in {"Update", "ExternalUpdate"} -> [s EXCEPT !.data = c.data]
    [] c.op = "ExternalPlace" ->
         LET last == IF s.exists THEN s.last ELSE c.pl
             left == IF s.pos.kind = "place" THEN {s.pos.id} ELSE {}
         IN [exists |-> TRUE, pos |-> AtPlace(c.pl), last |-> c.pl,
             data |-> IF s.exists THEN s.data ELSE NoData,
             at |-> (s.at \ left) \cup {c.pl},
             taken |-> s.taken \ TakenFrom(s, last),
             firing |-> IF s.pos.kind = "transition" THEN s.firing \ {s.pos.id}
                                                     ELSE s.firing,
             err |-> FALSE]
    [] c.op = "ExternalDelete" ->
         [Unknown EXCEPT !.at = s.at \ {c.pl},
                         !.taken = s.taken \ TakenFrom(s, s.last),
                         !.firing = IF s.pos.kind = "transition"
                                    THEN s.firing \ {s.pos.id} ELSE s.firing]

Apply(s, c) ==
  IF s.err THEN s
  ELSE IF Accepts(s, c) THEN Effect(s, c) ELSE [s EXCEPT !.err = TRUE]

\* Versions that forget the place a token comes from, or read the last place
\* of a token before they make it.
ModifiedTarget(s, c) ==
  CASE c.op \in {"Take", "Delete", "ExternalDelete", "Place", "ExternalPlace"} -> {c.pl}
    [] c.op \in {"Update", "ExternalUpdate"} -> {s.last}
ModifiedEarly(s, c) ==
  CASE c.op \in {"Take", "Delete", "ExternalDelete"} -> {c.pl}
    [] c.op \in {"Place", "ExternalPlace"} -> {c.pl, s.last}
    [] c.op \in {"Update", "ExternalUpdate"} -> {s.last}

\* The places apply_change reports as modified: their tasks are notified.
Modified(s, c) ==
  CASE c.op \in {"Take", "Delete", "ExternalDelete"} -> {c.pl}
    [] c.op \in {"Place", "ExternalPlace"} ->
         {c.pl, IF s.exists THEN s.last ELSE c.pl}
    [] c.op \in {"Update", "ExternalUpdate"} -> {s.last}

\* A Reset, with which a load begins: taken_token_ids are not cleared.
Reset(s) == [Unknown EXCEPT !.taken = s.taken]

\* The changes of one revision that name the token: at most three.
Nth(s, cs, i) == IF i <= Len(cs) THEN Apply(s, cs[i]) ELSE s
ApplyAll(s, cs) == Nth(Nth(Nth(s, cs, 1), cs, 2), cs, 3)

ModifiedNth(s, cs, i) == IF i <= Len(cs) THEN Modified(s, cs[i]) ELSE {}
ModifiedAll(s, cs) ==
  LET s1 == Nth(s, cs, 1)
      s2 == Nth(s1, cs, 2)
  IN ModifiedNth(s, cs, 1) \cup ModifiedNth(s1, cs, 2) \cup ModifiedNth(s2, cs, 3)
=============================================================================
