---------------------------- MODULE IdAssignment ----------------------------
(***************************************************************************)
(* How runners agree on numbers for the names of a net (etcd/gate.rs,      *)
(* assign_ids): each runner walks through its names, reads the id of a     *)
(* name, or draws one from a counter and stores it unless somebody was     *)
(* faster; for a transition it then reads, or stores, the region.  The     *)
(* same counter mechanism gives new tokens their ids.                      *)
(*                                                                         *)
(* Every await is a step of its own.  A runner may be stopped at each, and *)
(* the request it waits for may still be carried out afterwards.           *)
(***************************************************************************)
EXTENDS Naturals

CONSTANTS
  Runner,
  Transition, Place,  \* names: the keys below transition_ids/ and place_ids/
  NoName,
  Region, NoRegion,
  RegionOf,           \* RegionOf[r]: the region r is configured with
  Wants,              \* Wants[r]: the names in the net of r
  MaxStarts,          \* bound: how often a runner is started
  MaxTokens           \* bound: token ids drawn

Name == Transition \cup Place

ASSUME IdAssignmentAssumption ==
  /\ Transition \cap Place = {} /\ NoName \notin Name
  /\ RegionOf \in [Runner -> Region]
  /\ NoRegion \notin Region
  /\ Wants \in [Runner -> SUBSET Name]
  /\ MaxStarts \in Nat /\ MaxTokens \in Nat

Kind == {"tr", "pl", "to"}
KindOf(n) == IF n \in Transition THEN "tr" ELSE "pl"

VARIABLES
  counter,  \* etcd: counter[k]: version of the key id_generator/{k}
  ids,      \* etcd: ids[n]: the id stored for the name n, 0 if there is none
  region,   \* etcd: region[tr]: the region stored for the transition
  tokens,   \* etcd: the ids of the tokens that have been created
  late,     \* requests whose runner has stopped, not yet carried out
  pc, cur, drawn,   \* by runner: the request it will make, for which name, with
                    \* which id
  todo,     \* todo[r]: the names r has not handled yet
  result,   \* result[r][n]: the id r has for n, 0 if it has none yet
  passed,   \* auxiliary: passed[r]: the transitions whose region r has checked
  starts    \* starts[r]: how often r was started

etcdVars == <<counter, ids, region, tokens>>
vars == <<etcdVars, late, pc, cur, drawn, todo, result, passed, starts>>

Init ==
  /\ counter = [k \in Kind |-> 0]
  /\ ids = [n \in Name |-> 0]
  /\ region = [tr \in Transition |-> NoRegion]
  /\ tokens = {}
  /\ late = {}
  /\ pc = [r \in Runner |-> "down"]
  /\ cur = [r \in Runner |-> NoName]
  /\ drawn = [r \in Runner |-> 0]
  /\ todo = [r \in Runner |-> {}]
  /\ result = [r \in Runner |-> [n \in Name |-> 0]]
  /\ passed = [r \in Runner |-> {}]
  /\ starts = [r \in Runner |-> 0]

-----------------------------------------------------------------------------
Goto(r, l) == pc' = [pc EXCEPT ![r] = l]

\* A version that takes the version before the put for the one after it.
NextIdOfPrevious(k) == IF counter[k] = 0 THEN 1 ELSE counter[k]

\* A put answers with the version the key had: with none, this is the first.
NextId(k) == counter[k] + 1

\* A transaction without the comparison.
StoredBlindly(old, none) == TRUE

\* create_revision < 1: the key does not exist.
NotCreated(old, none) == old = none

Start(r) ==
  /\ pc[r] = "down" /\ starts[r] < MaxStarts
  /\ starts' = [starts EXCEPT ![r] = @ + 1]
  /\ todo' = [todo EXCEPT ![r] = Wants[r]]
  /\ Goto(r, "next")
  /\ UNCHANGED <<etcdVars, late, cur, drawn, result, passed>>

\* The loops of assign_ids, over hash maps: transitions first, in any order.
NextName(r) ==
  /\ pc[r] = "next"
  /\ \/ \E n \in todo[r] :
          /\ n \in Transition \/ todo[r] \cap Transition = {}
          /\ cur' = [cur EXCEPT ![r] = n]
          /\ Goto(r, "get id")
     \/ todo[r] = {} /\ Goto(r, "ready") /\ cur' = [cur EXCEPT ![r] = NoName]
  /\ UNCHANGED <<etcdVars, late, drawn, todo, result, passed, starts>>

\* The loop body ends: r is through with its name.
Handled(r) ==
  /\ todo' = [todo EXCEPT ![r] = @ \ {cur[r]}]
  /\ Goto(r, "next")

\* r has an id for its name; that of a transition needs its region checked.
Obtain(r, id) ==
  /\ result' = [result EXCEPT ![r][cur[r]] = id]
  /\ IF cur[r] \in Transition
     THEN Goto(r, "get region") /\ UNCHANGED todo
     ELSE Handled(r)

GetId(r) ==
  /\ pc[r] = "get id"
  /\ IF ids[cur[r]] = 0
     THEN Goto(r, "draw") /\ UNCHANGED <<todo, result>>
     ELSE Obtain(r, ids[cur[r]])
  /\ UNCHANGED <<etcdVars, late, cur, drawn, passed, starts>>

\* _get_next_id: the counter is put, and what it counts is its version.
Draw(r, k) ==
  /\ counter' = [counter EXCEPT ![k] = @ + 1]
  /\ drawn' = [drawn EXCEPT ![r] = NextId(k)]

DrawId(r) ==
  /\ pc[r] = "draw"
  /\ Draw(r, KindOf(cur[r]))
  /\ Goto(r, "put id")
  /\ UNCHANGED <<ids, region, tokens, late, cur, todo, result, passed, starts>>

\* The transaction that stores the id, or starts the name over.
PutId(r) ==
  /\ pc[r] = "put id"
  /\ IF NotCreated(ids[cur[r]], 0)
     THEN /\ ids' = [ids EXCEPT ![cur[r]] = drawn[r]]
          /\ Obtain(r, drawn[r])
     ELSE Goto(r, "get id") /\ UNCHANGED <<ids, todo, result>>
  /\ drawn' = [drawn EXCEPT ![r] = 0]
  /\ UNCHANGED <<counter, region, tokens, late, cur, passed, starts>>

\* The region of the transition is that of r, as read or as just stored.
Pass(r) ==
  /\ passed' = [passed EXCEPT ![r] = @ \cup {cur[r]}]
  /\ Handled(r)

\* A version that tries again until the region is the right one.
Retry(r) == Goto(r, "get region")

\* The transition belongs to another region: an error that ends the run.
Refuse(r) == Goto(r, "failed")

GetRegion(r) ==
  /\ pc[r] = "get region"
  /\ \/ region[cur[r]] = NoRegion /\ Goto(r, "put region") /\ UNCHANGED <<todo, passed>>
     \/ region[cur[r]] = RegionOf[r] /\ Pass(r)
     \/ /\ region[cur[r]] \notin {NoRegion, RegionOf[r]}
        /\ Refuse(r) /\ UNCHANGED <<todo, passed>>
  /\ UNCHANGED <<etcdVars, late, cur, drawn, result, starts>>

PutRegion(r) ==
  /\ pc[r] = "put region"
  /\ IF NotCreated(region[cur[r]], NoRegion)
     THEN region' = [region EXCEPT ![cur[r]] = RegionOf[r]] /\ Pass(r)
     ELSE Goto(r, "get region") /\ UNCHANGED <<region, todo, passed>>
  /\ UNCHANGED <<counter, ids, tokens, late, cur, drawn, result, starts>>

\* end_transition, for a token it creates: an id, then the transaction.
DrawTokenId(r) ==
  /\ pc[r] = "ready" /\ counter["to"] < MaxTokens
  /\ Draw(r, "to")
  /\ Goto(r, "put token")
  /\ UNCHANGED <<ids, region, tokens, late, cur, todo, result, passed, starts>>

PutToken(r) ==
  /\ pc[r] = "put token"
  /\ tokens' = tokens \cup {drawn[r]}
  /\ drawn' = [drawn EXCEPT ![r] = 0]
  /\ Goto(r, "ready")
  /\ UNCHANGED <<counter, ids, region, late, cur, todo, result, passed, starts>>

\* The requests that change etcd; one of them may be left behind by a runner.
Puts == {"draw", "put id", "put region", "put token"}
Request(r) == [op |-> pc[r], name |-> cur[r], id |-> drawn[r], region |-> RegionOf[r]]

\* The runner is cancelled or crashes; what it waits for may be done later.
Stop(r) ==
  /\ pc[r] # "down"
  /\ \/ UNCHANGED late
     \/ pc[r] \in Puts /\ late' = late \cup {Request(r)}
  /\ Goto(r, "down")
  /\ cur' = [cur EXCEPT ![r] = NoName]
  /\ drawn' = [drawn EXCEPT ![r] = 0]
  /\ todo' = [todo EXCEPT ![r] = {}]
  /\ result' = [result EXCEPT ![r] = [n \in Name |-> 0]]
  /\ passed' = [passed EXCEPT ![r] = {}]
  /\ UNCHANGED <<etcdVars, starts>>

\* etcd carries out what a stopped runner had asked for.
CarryOut(q) ==
  /\ late' = late \ {q}
  /\ counter' = IF q.op = "draw" THEN [counter EXCEPT ![KindOf(q.name)] = @ + 1] ELSE counter
  /\ ids' = IF q.op = "put id" /\ NotCreated(ids[q.name], 0)
            THEN [ids EXCEPT ![q.name] = q.id] ELSE ids
  /\ region' = IF q.op = "put region" /\ NotCreated(region[q.name], NoRegion)
               THEN [region EXCEPT ![q.name] = q.region] ELSE region
  /\ tokens' = IF q.op = "put token" THEN tokens \cup {q.id} ELSE tokens
  /\ UNCHANGED <<pc, cur, drawn, todo, result, passed, starts>>

Assign(r) ==
  \/ NextName(r) \/ GetId(r) \/ DrawId(r) \/ PutId(r) \/ GetRegion(r) \/ PutRegion(r)

Next ==
  \/ \E r \in Runner : Start(r) \/ Assign(r) \/ DrawTokenId(r) \/ PutToken(r) \/ Stop(r)
  \/ \E q \in late : CarryOut(q)

Spec == Init /\ [][Next]_vars

\* etcd answers, and an answered request is followed by the next one.
FairSpec == Spec /\ \A r \in Runner : WF_vars(Assign(r))

-----------------------------------------------------------------------------
Labels == Puts \cup {"down", "next", "get id", "get region", "ready", "failed"}

\* A request about an id has a name and what it has drawn, and only transitions
\* have regions.
RequestFits(r) ==
  /\ pc[r] \in {"get id", "draw", "put id"} => cur[r] \in Name
  /\ pc[r] \in {"get region", "put region"} => cur[r] \in Transition
  /\ drawn[r] # 0 <=> pc[r] \in {"put id", "put token"}

\* Types.
TypeOK ==
  /\ counter \in [Kind -> Nat]
  /\ ids \in [Name -> Nat]
  /\ region \in [Transition -> Region \cup {NoRegion}]
  /\ tokens \subseteq Nat
  /\ late \subseteq [op : Puts, name : Name \cup {NoName}, id : Nat, region : Region]
  /\ pc \in [Runner -> Labels]
  /\ cur \in [Runner -> Name \cup {NoName}]
  /\ drawn \in [Runner -> Nat]
  /\ todo \in [Runner -> SUBSET Name]
  /\ result \in [Runner -> [Name -> Nat]]
  /\ passed \in [Runner -> SUBSET Transition]
  /\ starts \in [Runner -> Nat]
  /\ \A r \in Runner : RequestFits(r)

\* A runner that is through has for each of its names the id in etcd, and all
\* its transitions belong to its region: whatever raced with it, so do all
\* runners that share a name agree on its id, and no two regions run the same
\* transition.
ReadyAgrees ==
  \A r \in Runner : pc[r] \in {"ready", "put token"} =>
    \A n \in Wants[r] :
      /\ result[r][n] = ids[n] /\ ids[n] # 0
      /\ n \in Transition => region[n] = RegionOf[r]

\* No two places, and no two transitions, share an id.
NameIdsUnique ==
  \A m, n \in Name :
    m # n /\ KindOf(m) = KindOf(n) /\ ids[m] # 0 => ids[m] # ids[n]

\* The id a new token is about to get is that of no other token, there or on
\* its way.
TokenIdsNew ==
  LET going == {q \in late : q.op = "put token"}
      asked == {r \in Runner : pc[r] = "put token"}
  IN
  /\ \A r \in asked : drawn[r] \notin tokens \cup {q.id : q \in going}
  /\ \A r, s \in asked : r # s => drawn[r] # drawn[s]
  /\ \A q \in going : q.id \notin tokens
  /\ \A q, q2 \in going : q # q2 => q.id # q2.id

\* An id stands for one name, or one token, however many draws were lost to
\* races and stopped runners, and also when a transaction is applied long after
\* its runner has gone.
IdsUnique == NameIdsUnique /\ TokenIdsNew

\* A runner that starts to assign ids comes to an end, with ids or with the
\* error that tells it about a foreign transition, unless it is stopped: losing
\* a race costs a retry, and no runner retries for ever.
AssignmentEnds ==
  \A r \in Runner : (pc[r] = "next") ~> (pc[r] \in {"ready", "failed", "down"})
=============================================================================
