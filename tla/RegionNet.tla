------------------------------ MODULE RegionNet ------------------------------
(***************************************************************************)
(* From the definition of a net to the tasks of its transitions: the       *)
(* builder (net/builder.rs), and what the runner of each region makes of   *)
(* it in runner/main.rs: the reduction to the region, the validation by    *)
(* the executors, the ids, the net, and one task per transition.           *)
(*                                                                         *)
(* The program defines the net once and then starts a runner per region;   *)
(* in another process it defines the same net.  How runners that ask for   *)
(* ids at the same time come to the same ids is the module IdAssignment;   *)
(* here a runner gets all its ids in one step.                             *)
(***************************************************************************)
EXTENDS Naturals, FiniteSets, Functions

CONSTANTS
  Place, Transition, Region,
  Variant   \* the variants of arcs in use

ASSUME RegionNetAssumption ==
  /\ Variant \subseteq {"In", "Out", "InOut", "Cond", "OutCond"}
  /\ IsFiniteSet(Place) /\ IsFiniteSet(Transition)

VARIABLES
  places,       \* builder: the output locking of each place
  transitions,  \* builder: the region of each transition
  arcs,         \* builder: the variants, by <<place, transition>>
  executors,    \* the transitions that have an executor in the registry
  phase,        \* phase[r]: how far the runner of a region is
  approved,     \* approved[r]: the arcs its executors have been shown, by transition
  placeIds, transitionIds,  \* etcd: the ids assigned so far
  net,          \* net[r]: the net of the runner, by ids
  tasks         \* tasks[r]: what the task of each transition id has got

builder == <<places, transitions, arcs>>
idVars == <<placeIds, transitionIds>>
runVars == <<phase, approved, net, tasks>>
vars == <<builder, executors, idVars, runVars>>

Nothing == [x \in {} |-> x]
Put(f, x, y) == [z \in DOMAIN f \cup {x} |-> IF z = x THEN y ELSE f[z]]

Init ==
  /\ places = Nothing /\ transitions = Nothing /\ arcs = Nothing
  /\ executors \in SUBSET Transition
  /\ placeIds = Nothing /\ transitionIds = Nothing
  /\ phase = [r \in Region |-> "none"]
  /\ approved = [r \in Region |-> Nothing]
  /\ net = [r \in Region |-> Nothing]
  /\ tasks = [r \in Region |-> Nothing]

-----------------------------------------------------------------------------
Defining == \A r \in Region : phase[r] = "none"

InsertPlace(p) ==
  /\ Defining
  /\ \E locking \in BOOLEAN : places' = Put(places, p, locking)
  /\ UNCHANGED <<transitions, arcs, executors, idVars, runVars>>

\* A second insert with the same name may put the transition in another region.
InsertTransition(t) ==
  /\ Defining
  /\ \E r \in Region : transitions' = Put(transitions, t, r)
  /\ UNCHANGED <<places, arcs, executors, idVars, runVars>>

\* A version of the check of insert_arc that looks at one end.
PlaceExists(p, t) == p \in DOMAIN places
EndsExist(p, t) == p \in DOMAIN places /\ t \in DOMAIN transitions

\* An arc between a place and a transition replaces the one between these two.
InsertArc(p, t) ==
  /\ Defining /\ EndsExist(p, t)
  /\ \E v \in Variant : arcs' = Put(arcs, <<p, t>>, v)
  /\ UNCHANGED <<places, transitions, executors, idVars, runVars>>

-----------------------------------------------------------------------------
TransitionsOf(r) == {t \in DOMAIN transitions : transitions[t] = r}

\* A version that looks for places only along the in arcs.
ArcsInto(r) == {a \in DOMAIN arcs : a[2] \in TransitionsOf(r) /\ arcs[a] \in {"In", "InOut"}}
ArcsOf(r) == {a \in DOMAIN arcs : a[2] \in TransitionsOf(r)}

\* only_region
PlacesOf(r) == {a[1] : a \in ArcsOf(r)}

\* The arcs of a transition, with the place names: filtered by name, as they
\* are shown to validate.
ArcsByName(t) == {<<a[1], arcs[a]>> : a \in {x \in DOMAIN arcs : x[2] = t}}

\* A version that is content with one executor.
SomeExecutor(r) == TransitionsOf(r) = {} \/ TransitionsOf(r) \cap executors # {}
HaveExecutors(r) == TransitionsOf(r) \subseteq executors

\* Before it connects to etcd.  An executor that is missing, or says no to
\* what it is shown, ends the run with a ConfigError.
Validate(r) ==
  /\ phase[r] = "none"
  /\ \/ /\ HaveExecutors(r)
        /\ approved' = [approved EXCEPT ![r] = [t \in TransitionsOf(r) |-> ArcsByName(t)]]
        /\ phase' = [phase EXCEPT ![r] = "validated"]
     \/ /\ TransitionsOf(r) # {}
        /\ phase' = [phase EXCEPT ![r] = "config_error"]
        /\ UNCHANGED approved
  /\ UNCHANGED <<builder, executors, idVars, net, tasks>>

\* ids continued with the next ids for the names in S, in some order.
FreshIds(ids, S) ==
  LET k == Cardinality(DOMAIN ids)
      new == S \ DOMAIN ids
  IN {[x \in DOMAIN ids \cup new |-> IF x \in new THEN k + f[x] ELSE ids[x]] :
        f \in Bijection(new, 1 .. Cardinality(new))}

AssignIds(r) ==
  /\ phase[r] = "validated"
  /\ placeIds' \in FreshIds(placeIds, PlacesOf(r))
  /\ transitionIds' \in FreshIds(transitionIds, TransitionsOf(r))
  /\ phase' = [phase EXCEPT ![r] = "ids"]
  /\ UNCHANGED <<builder, executors, approved, net, tasks>>

\* The arcs of a net are kept by transition id and place id.
ArcKey(p, t) == <<transitionIds[t], placeIds[p]>>

Build(r) ==
  [places |-> [i \in {placeIds[p] : p \in PlacesOf(r)} |->
                 LET p == CHOOSE q \in PlacesOf(r) : placeIds[q] = i
                 IN [name |-> p, output_locking |-> places[p]]],
   transitions |-> [i \in {transitionIds[t] : t \in TransitionsOf(r)} |->
                      CHOOSE t \in TransitionsOf(r) : transitionIds[t] = i],
   arcs |-> [k \in {ArcKey(a[1], a[2]) : a \in ArcsOf(r)} |->
               arcs[CHOOSE a \in ArcsOf(r) : ArcKey(a[1], a[2]) = k]]]

\* arcs_for: a range of the arcs, which are sorted by transition id.
ArcsFor(n, i) == {k \in DOMAIN n.arcs : k[1] = i}

\* A task hears of the places it locks before a start.
Hears(variant) == variant # "Out"

\* The place locks and the receivers a task is given.
Task(n, i) ==
  [locks |-> {k[2] : k \in ArcsFor(n, i)},
   receivers |-> {k[2] : k \in {x \in ArcsFor(n, i) : Hears(n.arcs[x])}},
   executor |-> n.transitions[i]]

\* A runner without transitions ends at once, as it has no task to wait for.
StartTasks(r) ==
  /\ phase[r] = "ids"
  /\ net' = [net EXCEPT ![r] = Build(r)]
  /\ tasks' = [tasks EXCEPT ![r] = [i \in DOMAIN net'[r].transitions |-> Task(net'[r], i)]]
  /\ phase' = [phase EXCEPT ![r] = IF TransitionsOf(r) = {} THEN "no_task" ELSE "running"]
  /\ UNCHANGED <<builder, executors, idVars, approved>>

Next ==
  \/ \E p \in Place : InsertPlace(p)
  \/ \E t \in Transition : InsertTransition(t)
  \/ \E p \in Place, t \in Transition : InsertArc(p, t)
  \/ \E r \in Region : Validate(r) \/ AssignIds(r) \/ StartTasks(r)

Spec == Init /\ [][Next]_vars

-----------------------------------------------------------------------------
Running == {r \in Region : phase[r] = "running"}

\* Types; the unwraps of only_region find what they look for: however places,
\* transitions and arcs are inserted and replaced, no arc hangs in the air.
TypeOK ==
  /\ DOMAIN places \subseteq Place /\ \A p \in DOMAIN places : places[p] \in BOOLEAN
  /\ DOMAIN transitions \subseteq Transition
  /\ \A t \in DOMAIN transitions : transitions[t] \in Region
  /\ DOMAIN arcs \subseteq (DOMAIN places) \X (DOMAIN transitions)
  /\ \A a \in DOMAIN arcs : arcs[a] \in Variant
  /\ phase \in [Region -> {"none", "validated", "config_error", "ids", "no_task", "running"}]
  /\ \A i \in Range(placeIds) : i \in 1 .. Cardinality(Place)
  /\ \A i \in Range(transitionIds) : i \in 1 .. Cardinality(Transition)

\* Every transition of the definition is run by the runner of its region and by
\* no other, with all its arcs and with the places at their ends.
RegionsTileTheNet ==
  \A r \in Running :
    /\ \A t \in DOMAIN transitions :
         (t \in Range(net[r].transitions)) <=> (transitions[t] = r)
    /\ \A p \in Place, t \in TransitionsOf(r) :
         LET k == <<transitionIds[t], placeIds[p]>> IN
           IF <<p, t>> \in DOMAIN arcs
           THEN /\ p \in DOMAIN placeIds /\ placeIds[p] \in DOMAIN net[r].places
                /\ k \in DOMAIN net[r].arcs
                /\ net[r].places[placeIds[p]] = [name |-> p, output_locking |-> places[p]]
                /\ net[r].arcs[k] = arcs[<<p, t>>]
                /\ placeIds[p] \in tasks[r][transitionIds[t]].locks
           ELSE p \in DOMAIN placeIds => k \notin DOMAIN net[r].arcs

\* Runners that share a place share the keys below pl/ for it, and agree on
\* whether its tokens may be placed without its lock.
SharedPlacesAgree ==
  \A q, r \in Running :
    \A i \in DOMAIN net[q].places, j \in DOMAIN net[r].places :
      /\ i = j => net[q].places[i] = net[r].places[j]
      /\ net[q].places[i].name = net[r].places[j].name => i = j

\* The nets of the regions fit together to the net that was defined.
RegionsFitTogether == RegionsTileTheNet /\ SharedPlacesAgree

\* A task runs only with an executor that has seen just the arcs the task has,
\* and has approved of them.
RunsWhatWasValidated ==
  \A r \in Running : \A i \in DOMAIN tasks[r] :
    LET t == tasks[r][i].executor IN
      /\ t \in executors /\ t \in DOMAIN approved[r]
      /\ approved[r][t] =
           {<<net[r].places[k[2]].name, net[r].arcs[k]>> : k \in ArcsFor(net[r], i)}
=============================================================================
