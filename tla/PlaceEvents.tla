---------------------------- MODULE PlaceEvents -----------------------------
(***************************************************************************)
(* From the etcd events of one revision to the changes of the local net    *)
(* (ETCDGate::_analyze_place_events in etcd/gate.rs).                      *)
(*                                                                         *)
(* An event has the kind the code sorts it by: a token key pl/{p}/{to} is  *)
(* "created" (put, version 1), "updated" (put, later version) or           *)
(* "destroyed" (delete); a taken key pl/{p}/{to}/{tr} is "taken" (put) or  *)
(* "released" (delete).  val is the data, for a destroyed key the previous *)
(* data, or the transition.  The code keeps one map from token ids per     *)
(* kind, so tokens do not mix, and a token has at most one event a kind.   *)
(***************************************************************************)
EXTENDS LocalNet

Event(kind, t, p, v) == [kind |-> kind, to |-> t, pl |-> p, val |-> v]

\* A version that does not look at the place of an event.
RelevantAnywhere(evs, t, kind) == {e \in evs : e.to = t /\ e.kind = kind}

\* The code skips events whose place is not in the reduced net.
Relevant(evs, t, kind) ==
  {e \in evs : e.to = t /\ e.kind = kind /\ e.pl \in Known}

\* The event of this kind, where there is one.
Only(evs, t, kind) == CHOOSE e \in Relevant(evs, t, kind) : TRUE

\* Error: the token is in two places at once or changed twice.
Inconsistent == <<Change("Error", NoData, NoData, NoData)>>

\* The changes that bring token t to the revision, case by case as in the
\* table the code has in a comment.
Changes(evs, t) ==
  LET has(kind) == Relevant(evs, t, kind) # {}
      tk == Only(evs, t, "taken")    rl == Only(evs, t, "released")
      cr == Only(evs, t, "created")  up == Only(evs, t, "updated")
      ds == Only(evs, t, "destroyed")
      externalPlace == Change("ExternalPlace", cr.pl, NoData, NoData)
      externalUpdate == Change("ExternalUpdate", NoData, NoData, cr.val)
      take == Change("Take", tk.pl, tk.val, NoData)
  IN
  CASE has("taken") ->                                              \* A
         IF has("released") \/ has("destroyed") \/ has("updated") THEN Inconsistent
         ELSE IF ~has("created") THEN <<take>>
         ELSE IF cr.pl # tk.pl THEN Inconsistent
         ELSE <<externalPlace, externalUpdate, take>>
    [] ~has("taken") /\ has("updated") ->                           \* B
         IF has("destroyed") \/ has("created") THEN Inconsistent
         ELSE IF ~has("released")
              THEN <<Change("ExternalUpdate", NoData, NoData, up.val)>>
         ELSE IF up.pl # rl.pl THEN Inconsistent
         ELSE <<Change("Update", NoData, rl.val, up.val),
                Change("Place", up.pl, rl.val, NoData)>>
    [] ~has("taken") /\ ~has("updated") /\ has("destroyed") ->      \* C
         LET changed == has("created") /\ cr.val # ds.val
         IN IF has("released")
            THEN IF ds.pl # rl.pl THEN Inconsistent
                 ELSE IF ~has("created")
                      THEN <<Change("Delete", ds.pl, rl.val, NoData)>>
                 ELSE IF changed
                      THEN <<Change("Update", NoData, rl.val, cr.val),
                             Change("Place", cr.pl, rl.val, NoData)>>
                 ELSE <<Change("Place", cr.pl, rl.val, NoData)>>
            ELSE IF ~has("created")
                 THEN <<Change("ExternalDelete", ds.pl, NoData, NoData)>>
            ELSE IF changed THEN <<externalPlace, externalUpdate>>
            ELSE <<externalPlace>>
    [] ~has("taken") /\ ~has("updated") /\ ~has("destroyed") /\ has("released") ->
         IF has("created") THEN Inconsistent                        \* D
         ELSE <<Change("Place", rl.pl, rl.val, NoData)>>
    [] ~has("taken") /\ ~has("updated") /\ ~has("destroyed")
       /\ ~has("released") /\ has("created") ->                     \* E
         <<externalPlace, externalUpdate>>
    [] OTHER -> <<>>

\* What the local net knows of token t after the events of a revision.  An
\* error ends the watcher, and with it the runner.
Observe(s, evs, t) ==
  LET cs == Changes(evs, t)
  IN IF cs = Inconsistent THEN [s EXCEPT !.err = TRUE] ELSE ApplyAll(s, cs)

\* The places whose tasks are told about it.
Notified(s, evs, t) ==
  LET cs == Changes(evs, t)
  IN IF cs = Inconsistent THEN {} ELSE ModifiedAll(s, cs)
=============================================================================
