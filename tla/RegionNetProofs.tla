--------------------------- MODULE RegionNetProofs ---------------------------
(***************************************************************************)
(* Proofs about the way from the definition of a net to the tasks of its   *)
(* transitions: for any definition, any number of regions, and runners     *)
(* that start in any order.                                                *)
(***************************************************************************)
EXTENDS RegionNet, FiniteSetTheorems, TLAPS

(***************************************************************************)
(* The inductive invariant.                                                *)
(***************************************************************************)

\* A runner that has come so far.
HasValidated(r) == phase[r] \in {"validated", "ids", "no_task", "running"}
HasIds(r) == phase[r] \in {"ids", "no_task", "running"}

\* The definition is complete in itself.
DefinitionInv ==
  /\ DOMAIN places \subseteq Place /\ \A p \in DOMAIN places : places[p] \in BOOLEAN
  /\ DOMAIN transitions \subseteq Transition
  /\ \A t \in DOMAIN transitions : transitions[t] \in Region
  /\ DOMAIN arcs \subseteq (DOMAIN places) \X (DOMAIN transitions)
  /\ \A a \in DOMAIN arcs : arcs[a] \in Variant

\* Ids count the names that have one, and no two names have the same.
Numbered(ids) ==
  /\ \A x \in DOMAIN ids : ids[x] \in 1 .. Cardinality(DOMAIN ids)
  /\ \A x, y \in DOMAIN ids : ids[x] = ids[y] => x = y

IdsInv ==
  /\ DOMAIN placeIds \subseteq Place /\ Numbered(placeIds)
  /\ DOMAIN transitionIds \subseteq Transition /\ Numbered(transitionIds)

\* What the executors have been shown is what was defined.
ApprovedInv(r) ==
  /\ TransitionsOf(r) \subseteq executors
  /\ approved[r] = [t \in TransitionsOf(r) |-> ArcsByName(t)]

\* Everything in the region has an id.
AssignedInv(r) ==
  PlacesOf(r) \subseteq DOMAIN placeIds /\ TransitionsOf(r) \subseteq DOMAIN transitionIds

\* The net n has just the things of the region, by their ids.
Fits(n, r) ==
  /\ \A i : i \in DOMAIN n.places <=> \E p \in PlacesOf(r) : placeIds[p] = i
  /\ \A p \in PlacesOf(r) : n.places[placeIds[p]] = [name |-> p, output_locking |-> places[p]]
  /\ \A i : i \in DOMAIN n.transitions <=> \E t \in TransitionsOf(r) : transitionIds[t] = i
  /\ \A t \in TransitionsOf(r) : n.transitions[transitionIds[t]] = t
  /\ \A k : k \in DOMAIN n.arcs <=> \E a \in ArcsOf(r) : k = <<transitionIds[a[2]], placeIds[a[1]]>>
  /\ \A a \in ArcsOf(r) : n.arcs[<<transitionIds[a[2]], placeIds[a[1]]>>] = arcs[a]

RunInv(r) ==
  /\ Fits(net[r], r)
  /\ tasks[r] = [i \in DOMAIN net[r].transitions |-> Task(net[r], i)]

RunnerInv(r) ==
  /\ HasValidated(r) => ApprovedInv(r)
  /\ HasIds(r) => AssignedInv(r)
  /\ phase[r] = "running" => RunInv(r)

Phases == {"none", "validated", "config_error", "ids", "no_task", "running"}
RunnersInv ==
  /\ phase \in [Region -> Phases]
  /\ DOMAIN approved = Region /\ DOMAIN net = Region /\ DOMAIN tasks = Region
  /\ \A r \in Region : RunnerInv(r)

NetInv == DefinitionInv /\ IdsInv /\ RunnersInv

(***************************************************************************)
(* Lemmas.                                                                 *)
(***************************************************************************)

\* The things of a region are finitely many, and have been defined.
LEMMA RegionParts ==
  ASSUME DefinitionInv, NEW r
  PROVE  /\ TransitionsOf(r) \subseteq DOMAIN transitions
         /\ \A a \in ArcsOf(r) : /\ a = <<a[1], a[2]>> /\ a \in DOMAIN arcs
                                 /\ a[1] \in PlacesOf(r) /\ a[2] \in TransitionsOf(r)
                                 /\ a[1] \in DOMAIN places
         /\ PlacesOf(r) \subseteq DOMAIN places
<1>1. \A a \in DOMAIN arcs : a = <<a[1], a[2]>> /\ a[1] \in DOMAIN places
  BY DEF DefinitionInv
<1>2. \A a \in ArcsOf(r) : a[1] \in PlacesOf(r)
  BY DEF PlacesOf
<1>3. PlacesOf(r) \subseteq DOMAIN places
  BY <1>1 DEF PlacesOf, ArcsOf
<1> QED
  BY <1>1, <1>2, <1>3 DEF TransitionsOf, ArcsOf

\* Next ids for further names.
LEMMA FreshNumbered ==
  ASSUME NEW ids, IsFiniteSet(DOMAIN ids), Numbered(ids), NEW S, IsFiniteSet(S),
         NEW more \in FreshIds(ids, S)
  PROVE  /\ DOMAIN more = DOMAIN ids \cup S /\ Numbered(more)
         /\ \A x \in DOMAIN ids : more[x] = ids[x]
<1> DEFINE old == DOMAIN ids
           new == S \ old
           k == Cardinality(old)
           n == Cardinality(new)
<1>1. PICK f \in Bijection(new, 1 .. n) :
        more = [x \in old \cup new |-> IF x \in new THEN k + f[x] ELSE ids[x]]
  BY DEF FreshIds
<1>2. f \in [new -> 1 .. n] /\ \A x, y \in new : f[x] = f[y] => x = y
  BY DEF Bijection, Injection, IsInjective
<1>3. IsFiniteSet(old) /\ IsFiniteSet(new) /\ k \in Nat /\ n \in Nat
  BY FS_Subset, FS_CardinalityType
<1>4. Cardinality(old \cup new) = k + n
  <2>1. old \cap new = {}
    OBVIOUS
  <2>2. Cardinality(old \cup new) = k + n - Cardinality(old \cap new)
    BY <1>3, FS_Union
  <2>3. Cardinality(old \cap new) = 0
    BY <2>1, FS_EmptySet
  <2> HIDE DEF old, new, k, n
  <2> QED
    BY <1>3, <2>2, <2>3
<1>5. DOMAIN more = old \cup new /\ old \cup new = old \cup S
  BY <1>1
<1>6. \A x \in old : more[x] = ids[x] /\ ids[x] \in 1 .. k
  BY <1>1 DEF Numbered
<1>7. \A x \in new : more[x] = k + f[x] /\ f[x] \in 1 .. n
  BY <1>1, <1>2
<1>8. \A x, y \in old : ids[x] = ids[y] => x = y
  BY DEF Numbered
<1> HIDE DEF old, new, k, n
<1>9. \A x \in old \cup new : more[x] \in 1 .. (k + n)
  BY <1>3, <1>6, <1>7
<1>10. ASSUME NEW x \in old \cup new, NEW y \in old \cup new, more[x] = more[y]
       PROVE  x = y
  <2>1. CASE x \in old /\ y \in old
    BY <1>6, <1>8, <1>10, <2>1
  <2>2. CASE x \in new /\ y \in new
    <3>1. f[x] = f[y]
      BY <1>3, <1>7, <1>10, <2>2
    <3> QED
      BY <1>2, <2>2, <3>1
  <2>3. CASE x \in old /\ y \in new
    BY <1>3, <1>6, <1>7, <1>10, <2>3
  <2>4. CASE x \in new /\ y \in old
    BY <1>3, <1>6, <1>7, <1>10, <2>4
  <2> QED
    BY <2>1, <2>2, <2>3, <2>4
<1>11. Numbered(more)
  BY <1>4, <1>5, <1>9, <1>10 DEF Numbered
<1> QED
  BY <1>5, <1>6, <1>11 DEF old

\* Nothing a runner has depends on ids that are assigned later.
LEMMA RegionKept ==
  ASSUME NEW r, UNCHANGED builder
  PROVE  /\ TransitionsOf(r)' = TransitionsOf(r) /\ ArcsOf(r)' = ArcsOf(r)
         /\ PlacesOf(r)' = PlacesOf(r) /\ \A t : ArcsByName(t)' = ArcsByName(t)
         /\ places' = places /\ arcs' = arcs /\ transitions' = transitions
<1>1. places' = places /\ arcs' = arcs /\ transitions' = transitions
  BY DEF builder
<1>2. TransitionsOf(r)' = TransitionsOf(r)
  BY <1>1 DEF TransitionsOf
<1>3. ArcsOf(r)' = ArcsOf(r)
  BY <1>1, <1>2 DEF ArcsOf
<1>4. PlacesOf(r)' = PlacesOf(r)
  BY <1>3 DEF PlacesOf
<1>5. \A t : ArcsByName(t)' = ArcsByName(t)
  BY <1>1 DEF ArcsByName
<1> QED
  BY <1>1, <1>2, <1>3, <1>4, <1>5

\* The ids of everything that has one stay as they are.
IdsKept ==
  /\ \A p \in DOMAIN placeIds : p \in DOMAIN placeIds' /\ placeIds'[p] = placeIds[p]
  /\ \A t \in DOMAIN transitionIds :
       t \in DOMAIN transitionIds' /\ transitionIds'[t] = transitionIds[t]

\* What has been built for a region stays right while its definition stays.
LEMMA FitsStill ==
  ASSUME DefinitionInv, NEW r, NEW n, AssignedInv(r), Fits(n, r), UNCHANGED builder, IdsKept
  PROVE  Fits(n, r)'
<1>1. /\ TransitionsOf(r)' = TransitionsOf(r) /\ ArcsOf(r)' = ArcsOf(r)
      /\ PlacesOf(r)' = PlacesOf(r) /\ places' = places /\ arcs' = arcs
  BY RegionKept
<1>2. \A p \in PlacesOf(r) : placeIds'[p] = placeIds[p]
  BY DEF AssignedInv, IdsKept
<1>3. \A t \in TransitionsOf(r) : transitionIds'[t] = transitionIds[t]
  BY DEF AssignedInv, IdsKept
<1>4. \A a \in ArcsOf(r) :
        transitionIds'[a[2]] = transitionIds[a[2]] /\ placeIds'[a[1]] = placeIds[a[1]]
  BY <1>2, <1>3, RegionParts
<1> QED
  BY <1>1, <1>2, <1>3, <1>4 DEF Fits

\* A step that changes nothing of a runner, and keeps its ids.
LEMMA RunnerKept ==
  ASSUME DefinitionInv, NEW r \in Region, UNCHANGED builder, IdsKept, executors' = executors,
         RunnerInv(r), phase'[r] = phase[r], approved'[r] = approved[r], net'[r] = net[r],
         tasks'[r] = tasks[r]
  PROVE  RunnerInv(r)'
<1>1. /\ HasValidated(r)' <=> HasValidated(r)
      /\ HasIds(r)' <=> HasIds(r)
  BY DEF HasValidated, HasIds
<1>2. /\ TransitionsOf(r)' = TransitionsOf(r) /\ PlacesOf(r)' = PlacesOf(r)
      /\ \A t : ArcsByName(t)' = ArcsByName(t)
  BY RegionKept
<1>3. HasValidated(r) => ApprovedInv(r)'
  BY <1>2 DEF RunnerInv, ApprovedInv
<1>4. HasIds(r) => AssignedInv(r)'
  BY <1>2 DEF RunnerInv, AssignedInv, IdsKept
<1>5. ASSUME phase[r] = "running" PROVE RunInv(r)'
  <2>1. HasIds(r)
    BY <1>5 DEF HasIds
  <2>2. PICK n : n = net[r]
    OBVIOUS
  <2>3. Fits(n, r)'
    BY <1>5, <2>1, <2>2, FitsStill DEF RunnerInv, RunInv
  <2>4. net'[r] = n /\ tasks'[r] = [i \in DOMAIN n.transitions |-> Task(n, i)]
    BY <1>5, <2>2 DEF RunnerInv, RunInv
  <2> QED
    BY <2>3, <2>4 DEF RunInv
<1> QED
  BY <1>1, <1>3, <1>4, <1>5 DEF RunnerInv

\* What the runner makes of the definition, by ids that no two names share.
LEMMA BuildFits ==
  ASSUME DefinitionInv, IdsInv, NEW r, AssignedInv(r)
  PROVE  Fits(Build(r), r)
<1> DEFINE n == Build(r)
<1>1. /\ \A p, q \in PlacesOf(r) : placeIds[p] = placeIds[q] => p = q
      /\ \A t, u \in TransitionsOf(r) : transitionIds[t] = transitionIds[u] => t = u
  BY DEF IdsInv, Numbered, AssignedInv
<1>2. \A a, b \in ArcsOf(r) : ArcKey(a[1], a[2]) = ArcKey(b[1], b[2]) => a = b
  <2>1. ASSUME NEW a \in ArcsOf(r), NEW b \in ArcsOf(r), ArcKey(a[1], a[2]) = ArcKey(b[1], b[2])
        PROVE  a = b
    <3>1. transitionIds[a[2]] = transitionIds[b[2]] /\ placeIds[a[1]] = placeIds[b[1]]
      BY <2>1 DEF ArcKey
    <3>2. a[1] = b[1] /\ a[2] = b[2] /\ a = <<a[1], a[2]>> /\ b = <<b[1], b[2]>>
      BY <1>1, <3>1, RegionParts
    <3> QED
      BY <3>2
  <2> QED
    BY <2>1
<1>3. n.places = [i \in {placeIds[p] : p \in PlacesOf(r)} |->
                    LET p == CHOOSE q \in PlacesOf(r) : placeIds[q] = i
                    IN [name |-> p, output_locking |-> places[p]]]
  BY DEF Build
<1>4. n.transitions = [i \in {transitionIds[t] : t \in TransitionsOf(r)} |->
                         CHOOSE t \in TransitionsOf(r) : transitionIds[t] = i]
  BY DEF Build
<1>5. n.arcs = [k \in {ArcKey(a[1], a[2]) : a \in ArcsOf(r)} |->
                  arcs[CHOOSE a \in ArcsOf(r) : ArcKey(a[1], a[2]) = k]]
  BY DEF Build
<1> HIDE DEF n
<1>6. ASSUME NEW p \in PlacesOf(r)
      PROVE  n.places[placeIds[p]] = [name |-> p, output_locking |-> places[p]]
  <2>1. (CHOOSE q \in PlacesOf(r) : placeIds[q] = placeIds[p]) = p
    BY <1>1
  <2>2. PICK i : i = placeIds[p]
    OBVIOUS
  <2>3. i \in {placeIds[q] : q \in PlacesOf(r)}
    BY <2>2
  <2>4. (CHOOSE q \in PlacesOf(r) : placeIds[q] = i) = p
    BY <2>1, <2>2
  <2>5. n.places[i] = LET q == CHOOSE q \in PlacesOf(r) : placeIds[q] = i
                      IN [name |-> q, output_locking |-> places[q]]
    BY <1>3, <2>3
  <2> QED
    BY <2>2, <2>4, <2>5
<1>7. ASSUME NEW t \in TransitionsOf(r) PROVE n.transitions[transitionIds[t]] = t
  <2>1. (CHOOSE u \in TransitionsOf(r) : transitionIds[u] = transitionIds[t]) = t
    BY <1>1
  <2> QED
    BY <1>4, <2>1
<1>8. ASSUME NEW a \in ArcsOf(r) PROVE n.arcs[ArcKey(a[1], a[2])] = arcs[a]
  <2>1. (CHOOSE b \in ArcsOf(r) : ArcKey(b[1], b[2]) = ArcKey(a[1], a[2])) = a
    BY <1>2
  <2> QED
    BY <1>5, <2>1
<1>9. /\ \A i : i \in DOMAIN n.places <=> \E p \in PlacesOf(r) : placeIds[p] = i
      /\ \A i : i \in DOMAIN n.transitions <=> \E t \in TransitionsOf(r) : transitionIds[t] = i
  BY <1>3, <1>4
<1>10. \A k : k \in DOMAIN n.arcs <=> \E a \in ArcsOf(r) : k = ArcKey(a[1], a[2])
  BY <1>5
<1>11. \A p, t : ArcKey(p, t) = <<transitionIds[t], placeIds[p]>>
  BY DEF ArcKey
<1> QED
  BY <1>6, <1>7, <1>8, <1>9, <1>10, <1>11 DEF Fits, n

(***************************************************************************)
(* The steps.                                                              *)
(***************************************************************************)

\* While the net is being defined no runner has got anywhere.
LEMMA DefineStep ==
  ASSUME NetInv, Defining, DefinitionInv', UNCHANGED <<executors, idVars, runVars>>
  PROVE  NetInv'
<1>1. /\ placeIds' = placeIds /\ transitionIds' = transitionIds
      /\ phase' = phase /\ approved' = approved /\ net' = net /\ tasks' = tasks
  BY DEF idVars, runVars
<1>2. IdsInv'
  BY <1>1 DEF NetInv, IdsInv, Numbered
<1>3. RunnersInv'
  BY <1>1 DEF NetInv, RunnersInv, RunnerInv, Defining, HasValidated, HasIds
<1> QED
  BY <1>2, <1>3 DEF NetInv

\* The steps of the next-state relation, one by one.
LEMMA InsertPlaceStep ==
  ASSUME NetInv, NEW p \in Place, InsertPlace(p)
  PROVE  NetInv'
<1>1. PICK locking \in BOOLEAN : places' = Put(places, p, locking)
  BY DEF InsertPlace
<1>2. Defining /\ transitions' = transitions /\ arcs' = arcs
      /\ UNCHANGED <<executors, idVars, runVars>>
  BY DEF InsertPlace
<1>3. /\ DOMAIN places' = DOMAIN places \cup {p}
      /\ \A q \in DOMAIN places' : places'[q] = IF q = p THEN locking ELSE places[q]
  <2>1. PICK m : m = Put(places, p, locking)
    OBVIOUS
  <2>2. /\ DOMAIN m = DOMAIN places \cup {p}
        /\ \A q \in DOMAIN m : m[q] = IF q = p THEN locking ELSE places[q]
    BY <2>1 DEF Put
  <2> QED
    BY <1>1, <2>1, <2>2
<1>4. DefinitionInv'
  BY <1>2, <1>3 DEF NetInv, DefinitionInv
<1> QED
  BY <1>2, <1>4, DefineStep

LEMMA InsertTransitionStep ==
  ASSUME NetInv, NEW t \in Transition, InsertTransition(t)
  PROVE  NetInv'
<1>1. PICK r \in Region : transitions' = Put(transitions, t, r)
  BY DEF InsertTransition
<1>2. Defining /\ places' = places /\ arcs' = arcs
      /\ UNCHANGED <<executors, idVars, runVars>>
  BY DEF InsertTransition
<1>3. /\ DOMAIN transitions' = DOMAIN transitions \cup {t}
      /\ \A u \in DOMAIN transitions' : transitions'[u] = IF u = t THEN r ELSE transitions[u]
  <2>1. PICK m : m = Put(transitions, t, r)
    OBVIOUS
  <2>2. /\ DOMAIN m = DOMAIN transitions \cup {t}
        /\ \A u \in DOMAIN m : m[u] = IF u = t THEN r ELSE transitions[u]
    BY <2>1 DEF Put
  <2> QED
    BY <1>1, <2>1, <2>2
<1>4. DefinitionInv'
  BY <1>2, <1>3 DEF NetInv, DefinitionInv
<1> QED
  BY <1>2, <1>4, DefineStep

LEMMA InsertArcStep ==
  ASSUME NetInv, NEW p \in Place, NEW t \in Transition, InsertArc(p, t)
  PROVE  NetInv'
<1>1. PICK v \in Variant : arcs' = Put(arcs, <<p, t>>, v)
  BY DEF InsertArc
<1>2. Defining /\ places' = places /\ transitions' = transitions
      /\ p \in DOMAIN places /\ t \in DOMAIN transitions
      /\ UNCHANGED <<executors, idVars, runVars>>
  BY DEF InsertArc, EndsExist
<1>3. /\ DOMAIN arcs' = DOMAIN arcs \cup {<<p, t>>}
      /\ \A a \in DOMAIN arcs' : arcs'[a] = IF a = <<p, t>> THEN v ELSE arcs[a]
  <2>1. PICK m : m = Put(arcs, <<p, t>>, v)
    OBVIOUS
  <2>2. /\ DOMAIN m = DOMAIN arcs \cup {<<p, t>>}
        /\ \A a \in DOMAIN m : m[a] = IF a = <<p, t>> THEN v ELSE arcs[a]
    BY <2>1 DEF Put
  <2> QED
    BY <1>1, <2>1, <2>2
<1>4. DefinitionInv'
  BY <1>2, <1>3 DEF NetInv, DefinitionInv
<1> QED
  BY <1>2, <1>4, DefineStep

LEMMA ValidateStep ==
  ASSUME NetInv, NEW r \in Region, Validate(r)
  PROVE  NetInv'
<1>1. DefinitionInv /\ IdsInv /\ RunnersInv
  BY DEF NetInv
<1>2. UNCHANGED builder /\ executors' = executors /\ net' = net /\ tasks' = tasks
      /\ placeIds' = placeIds /\ transitionIds' = transitionIds
  BY DEF Validate, idVars
<1>3. IdsKept
  BY <1>2 DEF IdsKept
<1>4. DefinitionInv' /\ IdsInv'
  BY <1>1, <1>2, RegionKept DEF DefinitionInv, IdsInv, Numbered, builder
<1>5. \/ /\ HaveExecutors(r) /\ phase' = [phase EXCEPT ![r] = "validated"]
         /\ approved' = [approved EXCEPT ![r] = [t \in TransitionsOf(r) |-> ArcsByName(t)]]
      \/ phase' = [phase EXCEPT ![r] = "config_error"] /\ approved' = approved
  BY DEF Validate
<1>6. /\ phase' \in [Region -> Phases] /\ DOMAIN approved' = Region /\ DOMAIN net' = Region
      /\ DOMAIN tasks' = Region
  BY <1>1, <1>2, <1>5 DEF RunnersInv, Phases
<1>7. \A q \in Region : q # r => phase'[q] = phase[q] /\ approved'[q] = approved[q]
  BY <1>1, <1>5 DEF RunnersInv
<1>8. ASSUME NEW q \in Region
      PROVE  RunnerInv(q)'
  <2>1. CASE q # r
    BY <1>1, <1>2, <1>3, <1>7, <2>1, RunnerKept DEF RunnersInv
  <2>2. CASE q = r /\ phase'[r] = "config_error"
    BY <2>2 DEF RunnerInv, HasValidated, HasIds
  <2>3. CASE q = r /\ phase'[r] # "config_error"
    <3>1. /\ HaveExecutors(r) /\ phase'[r] = "validated"
          /\ approved'[r] = [t \in TransitionsOf(r) |-> ArcsByName(t)]
      BY <1>1, <1>5, <2>3 DEF RunnersInv
    <3>2. TransitionsOf(r)' = TransitionsOf(r) /\ \A t : ArcsByName(t)' = ArcsByName(t)
      BY <1>2, RegionKept
    <3>3. ApprovedInv(r)'
      BY <1>2, <3>1, <3>2 DEF ApprovedInv, HaveExecutors
    <3> QED
      BY <2>3, <3>1, <3>3 DEF RunnerInv, HasIds
  <2> QED
    BY <2>1, <2>2, <2>3
<1>9. RunnersInv'
  BY <1>6, <1>8 DEF RunnersInv
<1> QED
  BY <1>4, <1>9 DEF NetInv

LEMMA AssignStep ==
  ASSUME NetInv, NEW r \in Region, AssignIds(r)
  PROVE  NetInv'
<1>1. DefinitionInv /\ IdsInv /\ RunnersInv
  BY DEF NetInv
<1>2. UNCHANGED builder /\ executors' = executors /\ net' = net /\ tasks' = tasks
      /\ approved' = approved /\ phase' = [phase EXCEPT ![r] = "ids"] /\ phase[r] = "validated"
      /\ placeIds' \in FreshIds(placeIds, PlacesOf(r))
      /\ transitionIds' \in FreshIds(transitionIds, TransitionsOf(r))
  BY DEF AssignIds
<1>3. PlacesOf(r) \subseteq Place /\ TransitionsOf(r) \subseteq Transition
  BY <1>1, RegionParts DEF DefinitionInv
<1>4. /\ DOMAIN placeIds' = DOMAIN placeIds \cup PlacesOf(r) /\ Numbered(placeIds')
      /\ \A x \in DOMAIN placeIds : placeIds'[x] = placeIds[x]
  <2>1. IsFiniteSet(DOMAIN placeIds) /\ Numbered(placeIds) /\ IsFiniteSet(PlacesOf(r))
    BY <1>1, <1>3, RegionNetAssumption, FS_Subset DEF IdsInv
  <2> QED
    BY <1>2, <2>1, FreshNumbered
<1>5. /\ DOMAIN transitionIds' = DOMAIN transitionIds \cup TransitionsOf(r)
      /\ Numbered(transitionIds')
      /\ \A x \in DOMAIN transitionIds : transitionIds'[x] = transitionIds[x]
  <2>1. /\ IsFiniteSet(DOMAIN transitionIds) /\ Numbered(transitionIds)
        /\ IsFiniteSet(TransitionsOf(r))
    BY <1>1, <1>3, RegionNetAssumption, FS_Subset DEF IdsInv
  <2> QED
    BY <1>2, <2>1, FreshNumbered
<1>6. IdsKept
  BY <1>4, <1>5 DEF IdsKept
<1>7. DefinitionInv'
  BY <1>1, <1>2 DEF DefinitionInv, builder
<1>8. IdsInv'
  BY <1>1, <1>3, <1>4, <1>5 DEF IdsInv, Numbered
<1>9. /\ phase' \in [Region -> Phases] /\ DOMAIN approved' = Region /\ DOMAIN net' = Region
      /\ DOMAIN tasks' = Region
  BY <1>1, <1>2 DEF RunnersInv, Phases
<1>10. phase'[r] = "ids" /\ \A q \in Region : q # r => phase'[q] = phase[q]
  BY <1>1, <1>2 DEF RunnersInv
<1>11. ASSUME NEW q \in Region
       PROVE  RunnerInv(q)'
  <2>1. CASE q # r
    BY <1>1, <1>2, <1>6, <1>10, <2>1, RunnerKept DEF RunnersInv
  <2>2. CASE q = r
    <3>1. ApprovedInv(r)
      BY <1>1, <1>2 DEF RunnersInv, RunnerInv, HasValidated
    <3>2. /\ TransitionsOf(r)' = TransitionsOf(r) /\ PlacesOf(r)' = PlacesOf(r)
          /\ \A t : ArcsByName(t)' = ArcsByName(t)
      BY <1>2, RegionKept
    <3>3. ApprovedInv(r)' /\ AssignedInv(r)'
      BY <1>2, <1>4, <1>5, <3>1, <3>2 DEF ApprovedInv, AssignedInv
    <3> QED
      BY <1>10, <2>2, <3>3 DEF RunnerInv
  <2> QED
    BY <2>1, <2>2
<1>12. RunnersInv'
  BY <1>9, <1>11 DEF RunnersInv
<1> QED
  BY <1>7, <1>8, <1>12 DEF NetInv

LEMMA StartStep ==
  ASSUME NetInv, NEW r \in Region, StartTasks(r)
  PROVE  NetInv'
<1>1. DefinitionInv /\ IdsInv /\ RunnersInv
  BY DEF NetInv
<1>2. UNCHANGED builder /\ executors' = executors /\ approved' = approved
      /\ placeIds' = placeIds /\ transitionIds' = transitionIds
      /\ phase' = [phase EXCEPT ![r] = IF TransitionsOf(r) = {} THEN "no_task" ELSE "running"]
      /\ phase[r] = "ids"
  BY DEF StartTasks, idVars
<1>3. PICK n : n = Build(r)
  OBVIOUS
<1>4. /\ net' = [net EXCEPT ![r] = n]
      /\ tasks' = [tasks EXCEPT ![r] = [i \in DOMAIN net'[r].transitions |-> Task(net'[r], i)]]
  BY <1>3 DEF StartTasks
<1>5. IdsKept /\ DefinitionInv' /\ IdsInv'
  BY <1>1, <1>2 DEF IdsKept, DefinitionInv, IdsInv, Numbered, builder
<1>6. /\ phase' \in [Region -> Phases] /\ DOMAIN approved' = Region /\ DOMAIN net' = Region
      /\ DOMAIN tasks' = Region
  BY <1>1, <1>2, <1>4 DEF RunnersInv, Phases
<1>7. \A q \in Region : q # r => phase'[q] = phase[q] /\ net'[q] = net[q] /\ tasks'[q] = tasks[q]
  BY <1>1, <1>2, <1>4 DEF RunnersInv
<1>8. ASSUME NEW q \in Region
      PROVE  RunnerInv(q)'
  <2>1. CASE q # r
    BY <1>1, <1>2, <1>5, <1>7, <2>1, RunnerKept DEF RunnersInv
  <2>2. CASE q = r
    <3>1. ApprovedInv(r) /\ AssignedInv(r)
      BY <1>1, <1>2 DEF RunnersInv, RunnerInv, HasValidated, HasIds
    <3>2. /\ TransitionsOf(r)' = TransitionsOf(r) /\ PlacesOf(r)' = PlacesOf(r)
          /\ \A t : ArcsByName(t)' = ArcsByName(t)
      BY <1>2, RegionKept
    <3>3. ApprovedInv(r)' /\ AssignedInv(r)'
      BY <1>2, <3>1, <3>2 DEF ApprovedInv, AssignedInv
    <3>4. Fits(n, r)
      BY <1>1, <1>3, <3>1, BuildFits
    <3>5. Fits(n, r)'
      BY <1>1, <1>2, <1>5, <3>1, <3>4, FitsStill
    <3>6. net'[r] = n
      BY <1>1, <1>4 DEF RunnersInv
    <3>7. tasks'[r] = [i \in DOMAIN n.transitions |-> Task(n, i)]
      BY <1>1, <1>4, <3>6 DEF RunnersInv
    <3>8. RunInv(r)'
      BY <3>5, <3>6, <3>7 DEF RunInv
    <3> QED
      BY <2>2, <3>3, <3>8 DEF RunnerInv
  <2> QED
    BY <2>1, <2>2
<1>9. RunnersInv'
  BY <1>6, <1>8 DEF RunnersInv
<1> QED
  BY <1>5, <1>9 DEF NetInv

\* The stuttering step.
LEMMA IdleStep ==
  ASSUME NetInv, UNCHANGED vars
  PROVE  NetInv'
<1>1. DefinitionInv /\ IdsInv /\ RunnersInv
  BY DEF NetInv
<1>2. /\ UNCHANGED builder /\ executors' = executors /\ phase' = phase /\ approved' = approved
      /\ placeIds' = placeIds /\ transitionIds' = transitionIds /\ net' = net /\ tasks' = tasks
  BY DEF vars, idVars, runVars
<1>3. IdsKept /\ DefinitionInv' /\ IdsInv'
  BY <1>1, <1>2 DEF IdsKept, DefinitionInv, IdsInv, Numbered, builder
<1>4. ASSUME NEW q \in Region PROVE RunnerInv(q)'
  BY <1>1, <1>2, <1>3, RunnerKept DEF RunnersInv
<1>5. RunnersInv'
  BY <1>1, <1>2, <1>4 DEF RunnersInv
<1> QED
  BY <1>3, <1>5 DEF NetInv

\* NetInv is an invariant.
LEMMA NextStep ==
  ASSUME NetInv, [Next]_vars
  PROVE  NetInv'
<1>1. CASE \E p \in Place : InsertPlace(p)
  BY <1>1, InsertPlaceStep
<1>2. CASE \E t \in Transition : InsertTransition(t)
  BY <1>2, InsertTransitionStep
<1>3. CASE \E p \in Place, t \in Transition : InsertArc(p, t)
  BY <1>3, InsertArcStep
<1>4. CASE \E r \in Region : Validate(r) \/ AssignIds(r) \/ StartTasks(r)
  BY <1>4, ValidateStep, AssignStep, StartStep
<1>5. CASE UNCHANGED vars
  BY <1>5, IdleStep
<1> QED
  BY <1>1, <1>2, <1>3, <1>4, <1>5 DEF Next

LEMMA InitInv ==
  ASSUME Init
  PROVE  NetInv
<1>1. DOMAIN Nothing = {}
  BY DEF Nothing
<1>2. DefinitionInv
  BY <1>1 DEF Init, DefinitionInv
<1>3. IdsInv
  BY <1>1 DEF Init, IdsInv, Numbered
<1>4. RunnersInv
  BY DEF Init, RunnersInv, RunnerInv, Phases, HasValidated, HasIds
<1> QED
  BY <1>2, <1>3, <1>4 DEF NetInv

LEMMA NetInvariance == Spec => []NetInv
BY InitInv, NextStep, PTL DEF Spec

(***************************************************************************)
(* What follows from the invariant.                                        *)
(***************************************************************************)

\* What is known of the net of a running task.
LEMMA RunningFits ==
  ASSUME NetInv, NEW r \in Running
  PROVE  /\ DefinitionInv /\ IdsInv /\ ApprovedInv(r) /\ AssignedInv(r) /\ Fits(net[r], r)
         /\ tasks[r] = [i \in DOMAIN net[r].transitions |-> Task(net[r], i)]
<1>1. r \in Region /\ phase[r] = "running"
  BY DEF Running
<1>2. RunnerInv(r) /\ HasValidated(r) /\ HasIds(r)
  BY <1>1 DEF NetInv, RunnersInv, HasValidated, HasIds
<1> QED
  BY <1>1, <1>2 DEF NetInv, RunnerInv, RunInv

\* What follows from it.
LEMMA TypesFollow == ASSUME NetInv PROVE TypeOK
<1>1. DefinitionInv /\ IdsInv /\ phase \in [Region -> Phases]
  BY DEF NetInv, RunnersInv
<1>2. /\ IsFiniteSet(DOMAIN placeIds) /\ IsFiniteSet(DOMAIN transitionIds)
      /\ Cardinality(DOMAIN placeIds) <= Cardinality(Place)
      /\ Cardinality(DOMAIN transitionIds) <= Cardinality(Transition)
  BY <1>1, RegionNetAssumption, FS_Subset DEF IdsInv
<1>3. /\ Cardinality(DOMAIN placeIds) \in Nat /\ Cardinality(Place) \in Nat
      /\ Cardinality(DOMAIN transitionIds) \in Nat /\ Cardinality(Transition) \in Nat
  BY <1>2, RegionNetAssumption, FS_CardinalityType
<1>4. \A i \in Range(placeIds) : i \in 1 .. Cardinality(Place)
  BY <1>1, <1>2, <1>3 DEF IdsInv, Numbered, Range
<1>5. \A i \in Range(transitionIds) : i \in 1 .. Cardinality(Transition)
  BY <1>1, <1>2, <1>3 DEF IdsInv, Numbered, Range
<1> QED
  BY <1>1, <1>4, <1>5 DEF TypeOK, DefinitionInv, Phases

LEMMA RegionsTile == ASSUME NetInv PROVE RegionsTileTheNet
<1> SUFFICES ASSUME NEW r \in Running
             PROVE  /\ \A t \in DOMAIN transitions :
                         (t \in Range(net[r].transitions)) <=> (transitions[t] = r)
                    /\ \A p \in Place, t \in TransitionsOf(r) :
                         LET k == <<transitionIds[t], placeIds[p]>> IN
                           IF <<p, t>> \in DOMAIN arcs
                           THEN /\ p \in DOMAIN placeIds /\ placeIds[p] \in DOMAIN net[r].places
                                /\ k \in DOMAIN net[r].arcs
                                /\ net[r].places[placeIds[p]] =
                                     [name |-> p, output_locking |-> places[p]]
                                /\ net[r].arcs[k] = arcs[<<p, t>>]
                                /\ placeIds[p] \in tasks[r][transitionIds[t]].locks
                           ELSE p \in DOMAIN placeIds => k \notin DOMAIN net[r].arcs
  BY DEF RegionsTileTheNet
<1>1. /\ DefinitionInv /\ IdsInv /\ AssignedInv(r) /\ Fits(net[r], r)
      /\ tasks[r] = [i \in DOMAIN net[r].transitions |-> Task(net[r], i)]
  BY RunningFits
<1>2. ASSUME NEW t \in DOMAIN transitions
      PROVE  (t \in Range(net[r].transitions)) <=> (transitions[t] = r)
  <2>1. ASSUME t \in Range(net[r].transitions) PROVE t \in TransitionsOf(r)
    BY <1>1, <2>1 DEF Range, Fits
  <2>2. ASSUME t \in TransitionsOf(r) PROVE t \in Range(net[r].transitions)
    BY <1>1, <2>2 DEF Range, Fits
  <2> QED
    BY <2>1, <2>2 DEF TransitionsOf
<1>3. ASSUME NEW p \in Place, NEW t \in TransitionsOf(r), <<p, t>> \in DOMAIN arcs
      PROVE  /\ p \in DOMAIN placeIds /\ placeIds[p] \in DOMAIN net[r].places
             /\ <<transitionIds[t], placeIds[p]>> \in DOMAIN net[r].arcs
             /\ net[r].places[placeIds[p]] = [name |-> p, output_locking |-> places[p]]
             /\ net[r].arcs[<<transitionIds[t], placeIds[p]>>] = arcs[<<p, t>>]
             /\ placeIds[p] \in tasks[r][transitionIds[t]].locks
  <2>1. PICK a : a = <<p, t>>
    OBVIOUS
  <2>2. a \in ArcsOf(r) /\ a[1] = p /\ a[2] = t /\ p \in PlacesOf(r)
    BY <1>3, <2>1 DEF ArcsOf, PlacesOf
  <2>3. p \in DOMAIN placeIds
    BY <1>1, <2>2 DEF AssignedInv
  <2>4. placeIds[p] \in DOMAIN net[r].places
    BY <1>1, <2>2 DEF Fits
  <2>5. net[r].places[placeIds[p]] = [name |-> p, output_locking |-> places[p]]
    BY <1>1, <2>2 DEF Fits
  <2>6. PICK k : k = <<transitionIds[t], placeIds[p]>>
    OBVIOUS
  <2>7. k \in DOMAIN net[r].arcs /\ net[r].arcs[k] = arcs[a]
    BY <1>1, <2>2, <2>6 DEF Fits
  <2>8. k \in ArcsFor(net[r], transitionIds[t]) /\ k[2] = placeIds[p]
    BY <2>6, <2>7 DEF ArcsFor
  <2>9. transitionIds[t] \in DOMAIN net[r].transitions
    BY <1>1 DEF Fits
  <2>10. placeIds[p] \in Task(net[r], transitionIds[t]).locks
    BY <2>8 DEF Task
  <2>11. placeIds[p] \in tasks[r][transitionIds[t]].locks
    BY <1>1, <2>9, <2>10
  <2> QED
    BY <2>1, <2>3, <2>4, <2>5, <2>6, <2>7, <2>11
<1>4. ASSUME NEW p \in DOMAIN placeIds, NEW t \in TransitionsOf(r),
             <<transitionIds[t], placeIds[p]>> \in DOMAIN net[r].arcs
      PROVE  <<p, t>> \in DOMAIN arcs
  <2>1. PICK a \in ArcsOf(r) :
          <<transitionIds[t], placeIds[p]>> = <<transitionIds[a[2]], placeIds[a[1]]>>
    BY <1>1, <1>4 DEF Fits
  <2>2. /\ a = <<a[1], a[2]>> /\ a \in DOMAIN arcs
        /\ a[1] \in DOMAIN placeIds /\ a[2] \in DOMAIN transitionIds
    BY <1>1, <2>1, RegionParts DEF AssignedInv
  <2>3. t \in DOMAIN transitionIds
    BY <1>1 DEF AssignedInv
  <2>4. a[2] = t /\ a[1] = p
    BY <1>1, <2>1, <2>2, <2>3 DEF IdsInv, Numbered
  <2> QED
    BY <2>2, <2>4
<1> QED
  BY <1>2, <1>3, <1>4

LEMMA RegionsAgree == ASSUME NetInv PROVE SharedPlacesAgree
<1>1. ASSUME NEW r \in Running, NEW i \in DOMAIN net[r].places
      PROVE  \E p \in DOMAIN placeIds :
               placeIds[p] = i /\ net[r].places[i] = [name |-> p, output_locking |-> places[p]]
  <2>1. Fits(net[r], r) /\ AssignedInv(r)
    BY RunningFits
  <2>2. PICK p \in PlacesOf(r) : placeIds[p] = i
    BY <2>1 DEF Fits
  <2>3. net[r].places[placeIds[p]] = [name |-> p, output_locking |-> places[p]]
    BY <2>1 DEF Fits
  <2> QED
    BY <2>1, <2>2, <2>3 DEF AssignedInv
<1>2. ASSUME NEW q \in Running, NEW r \in Running,
             NEW i \in DOMAIN net[q].places, NEW j \in DOMAIN net[r].places
      PROVE  /\ i = j => net[q].places[i] = net[r].places[j]
             /\ net[q].places[i].name = net[r].places[j].name => i = j
  <2>1. PICK p \in DOMAIN placeIds :
          placeIds[p] = i /\ net[q].places[i] = [name |-> p, output_locking |-> places[p]]
    BY <1>1
  <2>2. PICK s \in DOMAIN placeIds :
          placeIds[s] = j /\ net[r].places[j] = [name |-> s, output_locking |-> places[s]]
    BY <1>1
  <2>3. i = j => p = s
    BY <2>1, <2>2 DEF NetInv, IdsInv, Numbered
  <2> QED
    BY <2>1, <2>2, <2>3
<1> QED
  BY <1>2 DEF SharedPlacesAgree

LEMMA ValidatedRuns == ASSUME NetInv PROVE RunsWhatWasValidated
<1> SUFFICES ASSUME NEW r \in Running, NEW i \in DOMAIN tasks[r]
             PROVE  /\ tasks[r][i].executor \in executors
                    /\ tasks[r][i].executor \in DOMAIN approved[r]
                    /\ approved[r][tasks[r][i].executor] =
                         {<<net[r].places[k[2]].name, net[r].arcs[k]>> : k \in ArcsFor(net[r], i)}
  BY DEF RunsWhatWasValidated
<1>1. /\ DefinitionInv /\ IdsInv /\ ApprovedInv(r) /\ AssignedInv(r) /\ Fits(net[r], r)
      /\ tasks[r] = [j \in DOMAIN net[r].transitions |-> Task(net[r], j)]
  BY RunningFits
<1>2. PICK t \in TransitionsOf(r) : transitionIds[t] = i
  BY <1>1 DEF Fits
<1>3. tasks[r][i].executor = t
  BY <1>1, <1>2 DEF Task, Fits
<1>4. t \in executors /\ t \in DOMAIN approved[r] /\ approved[r][t] = ArcsByName(t)
  BY <1>1 DEF ApprovedInv
<1>5. PICK n : n = net[r]
  OBVIOUS
<1>6. ASSUME NEW a \in DOMAIN arcs, a[2] = t
      PROVE  \E k \in ArcsFor(n, i) : <<a[1], arcs[a]>> = <<n.places[k[2]].name, n.arcs[k]>>
  <2>1. a \in ArcsOf(r) /\ a[1] \in PlacesOf(r)
    BY <1>6 DEF ArcsOf, PlacesOf
  <2>2. PICK k : k = <<transitionIds[a[2]], placeIds[a[1]]>>
    OBVIOUS
  <2>3. k \in DOMAIN n.arcs /\ n.arcs[k] = arcs[a]
    BY <1>1, <1>5, <2>1, <2>2 DEF Fits
  <2>4. k \in ArcsFor(n, i) /\ k[2] = placeIds[a[1]]
    BY <1>2, <1>6, <2>2, <2>3 DEF ArcsFor
  <2>5. n.places[placeIds[a[1]]] = [name |-> a[1], output_locking |-> places[a[1]]]
    BY <1>1, <1>5, <2>1 DEF Fits
  <2> QED
    BY <2>3, <2>4, <2>5
<1>7. ASSUME NEW k \in ArcsFor(n, i)
      PROVE  \E a \in DOMAIN arcs :
               a[2] = t /\ <<a[1], arcs[a]>> = <<n.places[k[2]].name, n.arcs[k]>>
  <2>1. k \in DOMAIN n.arcs /\ k[1] = i
    BY DEF ArcsFor
  <2>2. PICK a \in ArcsOf(r) : k = <<transitionIds[a[2]], placeIds[a[1]]>>
    BY <1>1, <1>5, <2>1 DEF Fits
  <2>3. a \in DOMAIN arcs /\ a[1] \in PlacesOf(r) /\ a[2] \in TransitionsOf(r)
    BY <1>1, RegionParts
  <2>4. a[2] = t
    BY <1>1, <1>2, <2>1, <2>2, <2>3 DEF IdsInv, Numbered, AssignedInv
  <2>5. n.arcs[k] = arcs[a]
    BY <1>1, <1>5, <2>2 DEF Fits
  <2>6. n.places[placeIds[a[1]]] = [name |-> a[1], output_locking |-> places[a[1]]]
    BY <1>1, <1>5, <2>3 DEF Fits
  <2> QED
    BY <2>2, <2>3, <2>4, <2>5, <2>6
<1>8. ArcsByName(t) = {<<n.places[k[2]].name, n.arcs[k]>> : k \in ArcsFor(n, i)}
  <2>1. ASSUME NEW x \in ArcsByName(t)
        PROVE  x \in {<<n.places[k[2]].name, n.arcs[k]>> : k \in ArcsFor(n, i)}
    BY <1>6, <2>1 DEF ArcsByName
  <2>2. ASSUME NEW x \in {<<n.places[k[2]].name, n.arcs[k]>> : k \in ArcsFor(n, i)}
        PROVE  x \in ArcsByName(t)
    BY <1>7, <2>2 DEF ArcsByName
  <2> QED
    BY <2>1, <2>2
<1> QED
  BY <1>3, <1>4, <1>5, <1>8

(***************************************************************************)
(* The theorems.                                                           *)
(***************************************************************************)

\* However places, transitions and arcs are inserted and replaced, each arc has
\* its two ends, so only_region finds what it unwraps; and the ids of places and
\* transitions count them.
THEOREM TypeCorrect == Spec => []TypeOK
BY NetInvariance, TypesFollow, PTL

\* The nets of the regions, each reduced from the definition and built by ids in
\* its own runner, make up the net that was defined: every transition runs in one
\* region, with all its arcs and places, and the regions agree on shared places.
THEOREM RegionsFit == Spec => []RegionsFitTogether
<1>1. NetInv => RegionsFitTogether
  BY RegionsTile, RegionsAgree DEF RegionsFitTogether
<1> QED
  BY <1>1, NetInvariance, PTL

\* The runner shows the executors arcs by name, from the definition, and later
\* runs them with arcs by id, from the net: these are the same arcs.
THEOREM ExecutorsRunAsValidated == Spec => []RunsWhatWasValidated
BY NetInvariance, ValidatedRuns, PTL
===============================================================================
