------------------------- MODULE IdAssignmentProofs -------------------------
(***************************************************************************)
(* Proofs about the assignment of ids: for any runners, nets and regions,  *)
(* and any requests that are carried out late, runners that are through    *)
(* agree with etcd, and an id stands for one thing.                        *)
(***************************************************************************)
EXTENDS IdAssignment, TLAPS

(***************************************************************************)
(* Types.                                                                  *)
(***************************************************************************)

\* What a step of r leaves alone fits for the others as before.
LEMMA OthersFit ==
  ASSUME TypeOK, NEW r \in Runner,
         RequestFits(r)',
         \A s \in Runner \ {r} : pc'[s] = pc[s] /\ cur'[s] = cur[s] /\ drawn'[s] = drawn[s]
  PROVE  \A s \in Runner : RequestFits(s)'
BY DEF TypeOK, RequestFits

\* A jump to a label changes nothing but where its runner is.
LEMMA Jump ==
  ASSUME TypeOK, NEW r \in Runner, NEW l \in Labels, Goto(r, l)
  PROVE  /\ pc' \in [Runner -> Labels] /\ pc'[r] = l
         /\ \A s \in Runner \ {r} : pc'[s] = pc[s]
BY DEF TypeOK, Goto

LEMMA StartType ==
  ASSUME TypeOK, NEW r \in Runner, Start(r) PROVE TypeOK'
<1>1. pc' \in [Runner -> Labels] /\ pc'[r] = "next" /\ \A s \in Runner \ {r} : pc'[s] = pc[s]
  BY Jump DEF Start, Labels
<1>2. \A s \in Runner : RequestFits(s)'
  BY <1>1, OthersFit DEF Start, RequestFits, TypeOK
<1>3. todo' \in [Runner -> SUBSET Name]
  BY IdAssignmentAssumption DEF Start, TypeOK
<1>4. starts' \in [Runner -> Nat]
  BY DEF Start, TypeOK
<1> QED
  BY <1>1, <1>2, <1>3, <1>4 DEF Start, TypeOK, etcdVars

LEMMA NextNameType ==
  ASSUME TypeOK, NEW r \in Runner, NextName(r) PROVE TypeOK'
<1>1. PICK n \in Name \cup {NoName}, l \in {"get id", "ready"} :
        /\ Goto(r, l) /\ cur' = [cur EXCEPT ![r] = n]
        /\ l = "get id" => n \in Name
  BY DEF NextName, TypeOK
<1>2. pc' \in [Runner -> Labels] /\ pc'[r] = l /\ \A s \in Runner \ {r} : pc'[s] = pc[s]
  BY <1>1, Jump DEF Labels
<1>3. cur' \in [Runner -> Name \cup {NoName}]
  BY <1>1 DEF TypeOK
<1>4. \A s \in Runner : RequestFits(s)'
  BY <1>1, <1>2, OthersFit DEF NextName, RequestFits, TypeOK
<1> QED
  BY <1>2, <1>3, <1>4 DEF NextName, TypeOK, etcdVars

LEMMA ObtainType ==
  ASSUME TypeOK, NEW r \in Runner, NEW id \in Nat, cur[r] \in Name, Obtain(r, id)
  PROVE  /\ result' \in [Runner -> [Name -> Nat]]
         /\ todo' \in [Runner -> SUBSET Name]
         /\ \E l \in {"get region", "next"} :
              Goto(r, l) /\ (l = "get region" => cur[r] \in Transition)
<1>1. result' \in [Runner -> [Name -> Nat]]
  BY DEF Obtain, TypeOK
<1>2. CASE cur[r] \in Transition
  BY <1>1, <1>2 DEF Obtain, TypeOK
<1>3. CASE cur[r] \notin Transition
  <2>1. todo' \in [Runner -> SUBSET Name]
    <3>1. todo' = [todo EXCEPT ![r] = @ \ {cur[r]}]
      BY <1>3 DEF Obtain, Handled
    <3> QED
      BY <3>1 DEF TypeOK
  <2> QED
    BY <1>1, <1>3, <2>1 DEF Obtain, Handled
<1> QED
  BY <1>2, <1>3

LEMMA GetIdType ==
  ASSUME TypeOK, NEW r \in Runner, GetId(r) PROVE TypeOK'
<1>1. cur[r] \in Name /\ ids[cur[r]] \in Nat
  BY DEF GetId, TypeOK, RequestFits
<1>2. /\ result' \in [Runner -> [Name -> Nat]]
      /\ todo' \in [Runner -> SUBSET Name]
      /\ \E l \in {"get region", "next", "draw"} :
           Goto(r, l) /\ (l = "get region" => cur[r] \in Transition)
  <2>1. CASE ids[cur[r]] = 0
    BY <2>1 DEF GetId, TypeOK
  <2>2. CASE ids[cur[r]] # 0
    BY <1>1, <2>2, ObtainType DEF GetId
  <2> QED
    BY <2>1, <2>2
<1>3. PICK l \in {"get region", "next", "draw"} :
        Goto(r, l) /\ (l = "get region" => cur[r] \in Transition)
  BY <1>2
<1>4. pc' \in [Runner -> Labels] /\ pc'[r] = l /\ \A s \in Runner \ {r} : pc'[s] = pc[s]
  BY <1>3, Jump DEF Labels, Puts
<1>5. \A s \in Runner : RequestFits(s)'
  BY <1>1, <1>3, <1>4, OthersFit DEF GetId, RequestFits, TypeOK
<1> QED
  BY <1>2, <1>4, <1>5 DEF GetId, TypeOK, etcdVars

LEMMA Successor == \A c \in Nat : c + 1 \in Nat /\ c + 1 # 0
OBVIOUS

LEMMA DrawType ==
  ASSUME TypeOK, NEW r \in Runner, NEW k \in Kind, NEW l \in {"put id", "put token"},
         l = "put id" => cur[r] \in Name,
         Draw(r, k), Goto(r, l), cur' = cur
  PROVE  /\ counter' \in [Kind -> Nat] /\ drawn' \in [Runner -> Nat]
         /\ pc' \in [Runner -> Labels]
         /\ \A s \in Runner : RequestFits(s)'
<1>1. pc' \in [Runner -> Labels] /\ pc'[r] = l /\ \A s \in Runner \ {r} : pc'[s] = pc[s]
  BY Jump DEF Labels, Puts
<1>2. counter' \in [Kind -> Nat] /\ NextId(k) \in Nat \ {0}
  <2>1. counter \in [Kind -> Nat] /\ counter[k] \in Nat
    BY DEF TypeOK
  <2>2. counter' = [counter EXCEPT ![k] = counter[k] + 1]
    BY DEF Draw
  <2>3. counter[k] + 1 \in Nat /\ counter[k] + 1 # 0
    BY <2>1, Successor
  <2> QED
    BY <2>1, <2>2, <2>3 DEF NextId
<1>3. drawn' \in [Runner -> Nat] /\ drawn'[r] # 0 /\ \A s \in Runner \ {r} : drawn'[s] = drawn[s]
  BY <1>2 DEF Draw, TypeOK
<1>4. RequestFits(r)'
  BY <1>1, <1>3 DEF RequestFits
<1> QED
  BY <1>1, <1>2, <1>3, <1>4, OthersFit

LEMMA DrawIdType ==
  ASSUME TypeOK, NEW r \in Runner, DrawId(r) PROVE TypeOK'
<1>1. KindOf(cur[r]) \in Kind /\ cur[r] \in Name
  BY DEF KindOf, Kind, DrawId, TypeOK, RequestFits
<1>2. /\ counter' \in [Kind -> Nat] /\ drawn' \in [Runner -> Nat]
      /\ pc' \in [Runner -> Labels]
      /\ \A s \in Runner : RequestFits(s)'
  BY <1>1, DrawType DEF DrawId
<1> QED
  BY <1>2 DEF DrawId, TypeOK

LEMMA DrawTokenIdType ==
  ASSUME TypeOK, NEW r \in Runner, DrawTokenId(r) PROVE TypeOK'
<1>1. /\ counter' \in [Kind -> Nat] /\ drawn' \in [Runner -> Nat]
      /\ pc' \in [Runner -> Labels]
      /\ \A s \in Runner : RequestFits(s)'
  <2>1. "to" \in Kind
    BY DEF Kind
  <2> QED
    BY <2>1, DrawType DEF DrawTokenId
<1> QED
  BY <1>1 DEF DrawTokenId, TypeOK

LEMMA PutIdType ==
  ASSUME TypeOK, NEW r \in Runner, PutId(r) PROVE TypeOK'
<1>1. cur[r] \in Name /\ drawn[r] \in Nat
  BY DEF PutId, TypeOK, RequestFits
<1>2. /\ ids' \in [Name -> Nat]
      /\ result' \in [Runner -> [Name -> Nat]]
      /\ todo' \in [Runner -> SUBSET Name]
      /\ \E l \in {"get region", "next", "get id"} :
           Goto(r, l) /\ (l = "get region" => cur[r] \in Transition)
  <2>1. CASE NotCreated(ids[cur[r]], 0)
    <3>1. Obtain(r, drawn[r]) /\ ids' = [ids EXCEPT ![cur[r]] = drawn[r]]
      BY <2>1 DEF PutId
    <3>2. ids' \in [Name -> Nat]
      BY <1>1, <3>1 DEF TypeOK
    <3> QED
      BY <1>1, <3>1, <3>2, ObtainType
  <2>2. CASE ~NotCreated(ids[cur[r]], 0)
    BY <2>2 DEF PutId, TypeOK
  <2> QED
    BY <2>1, <2>2
<1>3. PICK l \in {"get region", "next", "get id"} :
        Goto(r, l) /\ (l = "get region" => cur[r] \in Transition)
  BY <1>2
<1>4. pc' \in [Runner -> Labels] /\ pc'[r] = l /\ \A s \in Runner \ {r} : pc'[s] = pc[s]
  BY <1>3, Jump DEF Labels, Puts
<1>5. drawn' \in [Runner -> Nat] /\ drawn'[r] = 0 /\ \A s \in Runner \ {r} : drawn'[s] = drawn[s]
  BY DEF PutId, TypeOK
<1>6. \A s \in Runner : RequestFits(s)'
  BY <1>1, <1>3, <1>4, <1>5, OthersFit DEF PutId, RequestFits
<1> QED
  BY <1>2, <1>4, <1>5, <1>6 DEF PutId, TypeOK

LEMMA PassType ==
  ASSUME TypeOK, NEW r \in Runner, cur[r] \in Transition, Pass(r)
  PROVE  /\ passed' \in [Runner -> SUBSET Transition]
         /\ todo' \in [Runner -> SUBSET Name]
         /\ Goto(r, "next")
<1>1. passed' \in [Runner -> SUBSET Transition]
  BY DEF Pass, TypeOK
<1>2. todo' \in [Runner -> SUBSET Name]
  BY DEF Pass, Handled, TypeOK
<1> QED
  BY <1>1, <1>2 DEF Pass, Handled

LEMMA GetRegionType ==
  ASSUME TypeOK, NEW r \in Runner, GetRegion(r) PROVE TypeOK'
<1>1. cur[r] \in Transition
  BY DEF GetRegion, TypeOK, RequestFits
<1>2. /\ passed' \in [Runner -> SUBSET Transition]
      /\ todo' \in [Runner -> SUBSET Name]
      /\ \E l \in {"put region", "next", "failed"} : Goto(r, l)
  <2>1. CASE Pass(r)
    BY <1>1, <2>1, PassType
  <2>2. CASE ~Pass(r)
    BY <2>2 DEF GetRegion, Refuse, TypeOK
  <2> QED
    BY <2>1, <2>2
<1>3. PICK l \in {"put region", "next", "failed"} : Goto(r, l)
  BY <1>2
<1>4. pc' \in [Runner -> Labels] /\ pc'[r] = l /\ \A s \in Runner \ {r} : pc'[s] = pc[s]
  BY <1>3, Jump DEF Labels, Puts
<1>5. \A s \in Runner : RequestFits(s)'
  BY <1>1, <1>4, OthersFit DEF GetRegion, RequestFits, TypeOK
<1> QED
  BY <1>2, <1>4, <1>5 DEF GetRegion, TypeOK, etcdVars

LEMMA PutRegionType ==
  ASSUME TypeOK, NEW r \in Runner, PutRegion(r) PROVE TypeOK'
<1>1. cur[r] \in Transition /\ RegionOf[r] \in Region
  BY IdAssignmentAssumption DEF PutRegion, TypeOK, RequestFits
<1>2. /\ region' \in [Transition -> Region \cup {NoRegion}]
      /\ passed' \in [Runner -> SUBSET Transition]
      /\ todo' \in [Runner -> SUBSET Name]
      /\ \E l \in {"next", "get region"} : Goto(r, l)
  <2>1. CASE NotCreated(region[cur[r]], NoRegion)
    <3>1. Pass(r) /\ region' = [region EXCEPT ![cur[r]] = RegionOf[r]]
      BY <2>1 DEF PutRegion
    <3>2. region' \in [Transition -> Region \cup {NoRegion}]
      BY <1>1, <3>1 DEF TypeOK
    <3> QED
      BY <1>1, <3>1, <3>2, PassType
  <2>2. CASE ~NotCreated(region[cur[r]], NoRegion)
    BY <2>2 DEF PutRegion, TypeOK
  <2> QED
    BY <2>1, <2>2
<1>3. PICK l \in {"next", "get region"} : Goto(r, l)
  BY <1>2
<1>4. pc' \in [Runner -> Labels] /\ pc'[r] = l /\ \A s \in Runner \ {r} : pc'[s] = pc[s]
  BY <1>3, Jump DEF Labels
<1>5. \A s \in Runner : RequestFits(s)'
  BY <1>1, <1>4, OthersFit DEF PutRegion, RequestFits, TypeOK
<1> QED
  BY <1>2, <1>4, <1>5 DEF PutRegion, TypeOK

LEMMA PutTokenType ==
  ASSUME TypeOK, NEW r \in Runner, PutToken(r) PROVE TypeOK'
<1>1. pc' \in [Runner -> Labels] /\ pc'[r] = "ready" /\ \A s \in Runner \ {r} : pc'[s] = pc[s]
  BY Jump DEF PutToken, Labels
<1>2. drawn' \in [Runner -> Nat] /\ drawn'[r] = 0 /\ \A s \in Runner \ {r} : drawn'[s] = drawn[s]
  BY DEF PutToken, TypeOK
<1>3. tokens' \subseteq Nat
  BY DEF PutToken, TypeOK
<1>4. \A s \in Runner : RequestFits(s)'
  BY <1>1, <1>2, OthersFit DEF PutToken, RequestFits
<1> QED
  BY <1>1, <1>2, <1>3, <1>4 DEF PutToken, TypeOK

LEMMA StopType ==
  ASSUME TypeOK, NEW r \in Runner, Stop(r) PROVE TypeOK'
<1>1. pc' \in [Runner -> Labels] /\ pc'[r] = "down" /\ \A s \in Runner \ {r} : pc'[s] = pc[s]
  BY Jump DEF Stop, Labels
<1>2. drawn' \in [Runner -> Nat] /\ drawn'[r] = 0 /\ \A s \in Runner \ {r} : drawn'[s] = drawn[s]
  BY DEF Stop, TypeOK
<1>3. /\ cur' \in [Runner -> Name \cup {NoName}]
      /\ \A s \in Runner \ {r} : cur'[s] = cur[s]
  BY DEF Stop, TypeOK
<1>4. \A s \in Runner : RequestFits(s)'
  BY <1>1, <1>2, <1>3, OthersFit DEF RequestFits
<1>5. late' \subseteq [op : Puts, name : Name \cup {NoName}, id : Nat, region : Region]
  <2>1. late \subseteq [op : Puts, name : Name \cup {NoName}, id : Nat, region : Region]
    BY DEF TypeOK
  <2>2. cur[r] \in Name \cup {NoName} /\ drawn[r] \in Nat /\ RegionOf[r] \in Region
    BY IdAssignmentAssumption DEF TypeOK
  <2>3. pc[r] \in Puts =>
          Request(r) \in [op : Puts, name : Name \cup {NoName}, id : Nat, region : Region]
    BY <2>2 DEF Request
  <2>4. late' = late \/ (pc[r] \in Puts /\ late' = late \cup {Request(r)})
    BY DEF Stop
  <2> QED
    BY <2>1, <2>3, <2>4
<1>6. todo' \in [Runner -> SUBSET Name] /\ passed' \in [Runner -> SUBSET Transition]
  BY DEF Stop, TypeOK
<1>7. result' \in [Runner -> [Name -> Nat]]
  BY DEF Stop, TypeOK
<1> QED
  BY <1>1, <1>2, <1>3, <1>4, <1>5, <1>6, <1>7 DEF Stop, TypeOK, etcdVars

LEMMA CarryOutType ==
  ASSUME TypeOK, NEW q \in late, CarryOut(q) PROVE TypeOK'
<1>1. q.id \in Nat /\ q.region \in Region /\ q.name \in Name \cup {NoName}
  BY DEF TypeOK
<1>2. counter' \in [Kind -> Nat]
  <2>1. KindOf(q.name) \in Kind /\ counter \in [Kind -> Nat]
    BY DEF KindOf, Kind, TypeOK
  <2>2. counter[KindOf(q.name)] + 1 \in Nat
    BY <2>1
  <2>3. counter' = counter \/
        counter' = [counter EXCEPT ![KindOf(q.name)] = counter[KindOf(q.name)] + 1]
    BY DEF CarryOut
  <2> QED
    BY <2>1, <2>2, <2>3
<1>3. ids' \in [Name -> Nat]
  BY <1>1 DEF CarryOut, TypeOK
<1>4. region' \in [Transition -> Region \cup {NoRegion}]
  BY <1>1 DEF CarryOut, TypeOK
<1>5. tokens' \subseteq Nat
  BY <1>1 DEF CarryOut, TypeOK
<1>6. late' \subseteq [op : Puts, name : Name \cup {NoName}, id : Nat, region : Region]
  BY DEF CarryOut, TypeOK
<1>7. \A s \in Runner : RequestFits(s)'
  BY DEF CarryOut, TypeOK, RequestFits
<1> QED
  BY <1>2, <1>3, <1>4, <1>5, <1>6, <1>7 DEF CarryOut, TypeOK

LEMMA InitType == Init => TypeOK
<1> SUFFICES ASSUME Init PROVE TypeOK
  OBVIOUS
<1>1. \A r \in Runner : RequestFits(r)
  BY DEF Init, RequestFits
<1>2. result \in [Runner -> [Name -> Nat]]
  BY DEF Init
<1>3. pc \in [Runner -> Labels] /\ drawn \in [Runner -> Nat] /\ starts \in [Runner -> Nat]
  BY DEF Init, Labels
<1>4. counter \in [Kind -> Nat] /\ ids \in [Name -> Nat]
  BY DEF Init
<1> QED
  BY <1>1, <1>2, <1>3, <1>4 DEF Init, TypeOK

\* The variables of the assignment always have their types: a runner never asks
\* about a name or an id it does not have.
THEOREM TypeCorrect == Spec => []TypeOK
<1>1. TypeOK /\ [Next]_vars => TypeOK'
  <2> SUFFICES ASSUME TypeOK, [Next]_vars PROVE TypeOK'
    OBVIOUS
  <2>1. ASSUME NEW r \in Runner, Assign(r) PROVE TypeOK'
    BY <2>1, NextNameType, GetIdType, DrawIdType, PutIdType, GetRegionType, PutRegionType
       DEF Assign
  <2>2. CASE UNCHANGED vars
    BY <2>2 DEF vars, etcdVars, TypeOK, RequestFits
  <2> QED
    BY <2>1, <2>2, StartType, DrawTokenIdType, PutTokenType, StopType, CarryOutType DEF Next
<1> QED
  BY <1>1, InitType, PTL DEF Spec

(***************************************************************************)
(* Ids that have been drawn.                                               *)
(***************************************************************************)

\* A runner, or the request it left behind, has an id that it will store.
Asks(r) == pc[r] \in {"put id", "put token"}
KindAsked(r) == IF pc[r] = "put token" THEN "to" ELSE KindOf(cur[r])

Asking == {q \in late : q.op \in {"put id", "put token"}}
KindOfRequest(q) == IF q.op = "put token" THEN "to" ELSE KindOf(q.name)

\* The id i of kind k has been drawn, and not been stored.
Unused(k, i) ==
  /\ i <= counter[k]
  /\ k = "to" => i \notin tokens
  /\ \A n \in Name : KindOf(n) = k => ids[n] # i

\* What is stored has been drawn, and stored once.
StoredInv ==
  /\ \A n \in Name : ids[n] <= counter[KindOf(n)]
  /\ \A i \in tokens : i <= counter["to"]
  /\ NameIdsUnique

\* What is about to be stored has been drawn for that, and for nothing else.
DrawnInv ==
  /\ \A r \in Runner : Asks(r) => Unused(KindAsked(r), drawn[r])
  /\ \A q \in Asking : q.id # 0 /\ Unused(KindOfRequest(q), q.id)
  /\ \A r, s \in Runner :
       r # s /\ Asks(r) /\ Asks(s) /\ KindAsked(r) = KindAsked(s) => drawn[r] # drawn[s]
  /\ \A r \in Runner, q \in Asking :
       Asks(r) /\ KindAsked(r) = KindOfRequest(q) => drawn[r] # q.id
  /\ \A q, p \in Asking : q # p /\ KindOfRequest(q) = KindOfRequest(p) => q.id # p.id

FreshInv == StoredInv /\ DrawnInv

LEMMA KindsDiffer == \A n : KindOf(n) \in Kind /\ KindOf(n) # "to"
BY DEF KindOf, Kind

\* Steps at which nothing is drawn and nothing is stored.
LEMMA QuietFresh ==
  ASSUME FreshInv,
         UNCHANGED <<counter, ids, tokens>>, Asking' \subseteq Asking,
         \A r \in Runner : Asks(r)' =>
           Asks(r) /\ KindAsked(r)' = KindAsked(r) /\ drawn'[r] = drawn[r]
  PROVE  FreshInv'
<1>1. StoredInv'
  BY DEF FreshInv, StoredInv, NameIdsUnique
<1>2. \A k, i : Unused(k, i) => Unused(k, i)'
  BY DEF Unused
<1>3. DrawnInv'
  BY <1>2 DEF FreshInv, DrawnInv, KindOfRequest
<1> QED
  BY <1>1, <1>3 DEF FreshInv

\* A draw: the id is greater than all there are of its kind.
LEMMA DrawFresh ==
  ASSUME TypeOK, FreshInv, NEW r \in Runner, NEW k \in Kind,
         ~Asks(r), Draw(r, k), UNCHANGED <<ids, tokens, late>>,
         Asks(r)' /\ KindAsked(r)' = k,
         \A s \in Runner \ {r} : pc'[s] = pc[s] /\ cur'[s] = cur[s]
  PROVE  FreshInv'
<1>1. /\ counter \in [Kind -> Nat] /\ counter' = [counter EXCEPT ![k] = counter[k] + 1]
      /\ \A n \in Name : ids[n] \in Nat
      /\ tokens \subseteq Nat
  BY DEF TypeOK, Draw
<1>2. /\ counter'[k] = counter[k] + 1 /\ counter[k] \in Nat
      /\ \A j \in Kind \ {k} : counter'[j] = counter[j]
      /\ "to" \in Kind /\ \A j \in Kind : counter[j] \in Nat
  BY <1>1 DEF Kind
<1>3. drawn'[r] = counter[k] + 1 /\ \A s \in Runner \ {r} : drawn'[s] = drawn[s]
  BY DEF Draw, NextId, TypeOK
<1>4. StoredInv'
  BY <1>1, <1>2, KindsDiffer DEF FreshInv, StoredInv, NameIdsUnique
<1>5. \A j \in Kind, i \in Nat : Unused(j, i) => Unused(j, i)' /\ (j = k => i # drawn'[r])
  BY <1>1, <1>2, <1>3 DEF Unused
<1>6. Unused(k, drawn[r])'
  <2>1. \A i \in Nat : i <= counter[k] => i # counter[k] + 1
    BY <1>2
  <2>2. \A n \in Name : KindOf(n) = k => ids'[n] # counter[k] + 1
    BY <1>1, <2>1 DEF FreshInv, StoredInv
  <2>3. k = "to" => counter[k] + 1 \notin tokens'
    BY <1>1, <2>1 DEF FreshInv, StoredInv
  <2>4. drawn'[r] <= counter'[k]
    BY <1>2, <1>3
  <2> QED
    BY <1>3, <2>2, <2>3, <2>4 DEF Unused
<1>7. /\ \A s \in Runner \ {r} :
            /\ Asks(s)' <=> Asks(s)
            /\ KindAsked(s)' = KindAsked(s) /\ drawn'[s] = drawn[s]
            /\ KindAsked(s) \in Kind /\ drawn[s] \in Nat
      /\ Asking' = Asking
      /\ \A q \in Asking : /\ KindOfRequest(q)' = KindOfRequest(q)
                           /\ KindOfRequest(q) \in Kind /\ q.id \in Nat
  BY <1>2, <1>3, KindsDiffer DEF Asks, KindAsked, Asking, KindOfRequest, TypeOK
<1>8. /\ \A s \in Runner : Asks(s)' => Unused(KindAsked(s), drawn[s])'
      /\ \A q \in Asking' : q.id # 0 /\ Unused(KindOfRequest(q), q.id)'
  <2>1. ASSUME NEW s \in Runner, Asks(s)' PROVE Unused(KindAsked(s), drawn[s])'
    <3>1. CASE s = r
      BY <1>6, <3>1
    <3>2. CASE s # r
      <4>1. Unused(KindAsked(s), drawn[s])
        BY <1>7, <2>1, <3>2 DEF FreshInv, DrawnInv
      <4>2. Unused(KindAsked(s), drawn[s])'
        BY <1>5, <1>7, <3>2, <4>1
      <4> QED
        BY <4>2
    <3> QED
      BY <3>1, <3>2
  <2>2. ASSUME NEW q \in Asking' PROVE q.id # 0 /\ Unused(KindOfRequest(q), q.id)'
    <3>1. q.id # 0 /\ Unused(KindOfRequest(q), q.id)
      BY <1>7, <2>2 DEF FreshInv, DrawnInv
    <3> QED
      BY <1>5, <1>7, <3>1
  <2> QED
    BY <2>1, <2>2
<1>9. /\ \A s \in Runner, q \in Asking : Asks(s)' /\ KindAsked(s)' = KindOfRequest(q) =>
           drawn'[s] # q.id
      /\ \A s, t \in Runner : s # t /\ Asks(s)' /\ Asks(t)' /\ KindAsked(s)' = KindAsked(t)' =>
           drawn'[s] # drawn'[t]
  BY <1>5, <1>7 DEF FreshInv, DrawnInv
<1>10. \A q, p \in Asking' : q # p /\ KindOfRequest(q)' = KindOfRequest(p)' => q.id # p.id
  BY <1>7 DEF FreshInv, DrawnInv
<1> QED
  BY <1>4, <1>7, <1>8, <1>9, <1>10 DEF FreshInv, DrawnInv

\* The id i of kind k is stored, for a name that has none or for a token.
Stores(k, i) ==
  \/ k = "to" /\ tokens' = tokens \cup {i} /\ ids' = ids
  \/ /\ \E n \in Name : /\ KindOf(n) = k /\ ids[n] = 0
                        /\ ids' = [ids EXCEPT ![n] = i]
     /\ tokens' = tokens

\* A drawn id is stored, and nobody else is about to store it.
LEMMA StoreFresh ==
  ASSUME TypeOK, FreshInv, NEW k \in Kind, NEW i \in Nat \ {0},
         Unused(k, i), Stores(k, i), counter' = counter,
         Asking' \subseteq Asking,
         \A r \in Runner : Asks(r)' =>
           /\ Asks(r) /\ KindAsked(r)' = KindAsked(r) /\ drawn'[r] = drawn[r]
           /\ KindAsked(r) = k => drawn[r] # i,
         \A q \in Asking' : KindOfRequest(q) = k => q.id # i
  PROVE  FreshInv'
<1>1. /\ \A n \in Name : ids[n] \in Nat
      /\ ids \in [Name -> Nat]
  BY DEF TypeOK
<1>2. /\ \A n \in Name : ids'[n] = ids[n] \/ (ids'[n] = i /\ KindOf(n) = k /\ ids[n] = 0)
      /\ \A n, m \in Name : ids'[n] # ids[n] /\ ids'[m] # ids[m] => n = m
      /\ tokens' = tokens \/ (tokens' = tokens \cup {i} /\ k = "to")
  BY <1>1 DEF Stores
<1>3. StoredInv'
  <2>1. \A n \in Name : ids'[n] <= counter'[KindOf(n)]
    BY <1>2 DEF FreshInv, StoredInv, Unused
  <2>2. \A j \in tokens' : j <= counter'["to"]
    BY <1>2 DEF FreshInv, StoredInv, Unused
  <2>3. ASSUME NEW m \in Name, NEW n \in Name, m # n, KindOf(m) = KindOf(n), ids'[m] # 0
        PROVE  ids'[m] # ids'[n]
    <3>1. ids[m] # 0 => ids[m] # ids[n]
      BY <2>3 DEF FreshInv, StoredInv, NameIdsUnique
    <3>2. (KindOf(m) = k => ids[m] # i /\ ids[n] # i)
      BY <2>3 DEF Unused
    <3> QED
      BY <1>2, <2>3, <3>1, <3>2
  <2> QED
    BY <2>1, <2>2, <2>3 DEF StoredInv, NameIdsUnique
<1>4. \A j, h : Unused(j, h) /\ (j = k => h # i) => Unused(j, h)'
  BY <1>2 DEF Unused
<1>5. DrawnInv'
  <2>1. \A q : KindOfRequest(q)' = KindOfRequest(q)
    BY DEF KindOfRequest
  <2>2. \A r \in Runner : Asks(r)' => Unused(KindAsked(r), drawn[r])'
    BY <1>4 DEF FreshInv, DrawnInv
  <2>3. \A q \in Asking' : q.id # 0 /\ Unused(KindOfRequest(q), q.id)'
    BY <1>4, <2>1 DEF FreshInv, DrawnInv
  <2> QED
    BY <2>1, <2>2, <2>3 DEF FreshInv, DrawnInv
<1> QED
  BY <1>3, <1>5 DEF FreshInv

LEMMA PutIdFresh ==
  ASSUME TypeOK, FreshInv, NEW r \in Runner, PutId(r) PROVE FreshInv'
<1>1. /\ cur[r] \in Name /\ drawn[r] \in Nat \ {0} /\ Asks(r) /\ KindAsked(r) = KindOf(cur[r])
      /\ KindAsked(r) \in Kind
  BY KindsDiffer DEF PutId, TypeOK, RequestFits, Asks, KindAsked
<1>2. /\ ~Asks(r)'
      /\ \A s \in Runner \ {r} :
           (Asks(s)' <=> Asks(s)) /\ KindAsked(s)' = KindAsked(s) /\ drawn'[s] = drawn[s]
  <2>1. \E l \in Labels \ {"put id", "put token"} : Goto(r, l)
    BY DEF PutId, Obtain, Handled, Labels, Puts
  <2>2. pc'[r] \notin {"put id", "put token"} /\ \A s \in Runner \ {r} : pc'[s] = pc[s]
    BY <2>1, Jump
  <2> QED
    BY <2>2 DEF PutId, Asks, KindAsked, TypeOK
<1>3. Asking' = Asking
  BY DEF PutId, Asking
<1>4. CASE ids[cur[r]] = 0
  <2>1. Stores(KindAsked(r), drawn[r])
    BY <1>1, <1>4 DEF PutId, NotCreated, Stores
  <2>2. counter' = counter /\ Unused(KindAsked(r), drawn[r])
    BY <1>1 DEF PutId, FreshInv, DrawnInv
  <2>3. /\ \A s \in Runner : Asks(s)' =>
             /\ Asks(s) /\ KindAsked(s)' = KindAsked(s) /\ drawn'[s] = drawn[s]
             /\ KindAsked(s) = KindAsked(r) => drawn[s] # drawn[r]
        /\ \A q \in Asking' : KindOfRequest(q) = KindAsked(r) => q.id # drawn[r]
    BY <1>1, <1>2, <1>3 DEF FreshInv, DrawnInv
  <2> QED
    BY <1>1, <1>3, <2>1, <2>2, <2>3, StoreFresh
<1>5. CASE ids[cur[r]] # 0
  BY <1>2, <1>3, <1>5, QuietFresh DEF PutId, NotCreated
<1> QED
  BY <1>4, <1>5

LEMMA PutTokenFresh ==
  ASSUME TypeOK, FreshInv, NEW r \in Runner, PutToken(r) PROVE FreshInv'
<1>1. drawn[r] \in Nat \ {0} /\ Asks(r) /\ KindAsked(r) = "to" /\ "to" \in Kind
  BY DEF PutToken, TypeOK, RequestFits, Asks, KindAsked, Kind
<1>2. pc'[r] = "ready" /\ \A s \in Runner \ {r} : pc'[s] = pc[s]
  BY Jump DEF PutToken, Labels
<1>3. /\ ~Asks(r)'
      /\ \A s \in Runner \ {r} :
           (Asks(s)' <=> Asks(s)) /\ KindAsked(s)' = KindAsked(s) /\ drawn'[s] = drawn[s]
  BY <1>2 DEF PutToken, Asks, KindAsked, TypeOK
<1>4. Asking' = Asking /\ Stores("to", drawn[r]) /\ counter' = counter
  BY DEF PutToken, Asking, Stores
<1> QED
  BY <1>1, <1>3, <1>4, StoreFresh DEF FreshInv, DrawnInv

LEMMA CarryOutFresh ==
  ASSUME TypeOK, FreshInv, NEW q \in late, CarryOut(q) PROVE FreshInv'
<1>1. /\ \A r \in Runner : /\ Asks(r)' <=> Asks(r)
                           /\ KindAsked(r)' = KindAsked(r) /\ drawn'[r] = drawn[r]
      /\ Asking' = Asking \ {q}
  BY DEF CarryOut, Asks, KindAsked, Asking
<1>2. CASE q.op = "draw"
  <2>1. /\ ids' = ids /\ tokens' = tokens /\ Asking' = Asking
        /\ KindOf(q.name) \in Kind
        /\ counter' = [counter EXCEPT ![KindOf(q.name)] = counter[KindOf(q.name)] + 1]
    BY <1>1, <1>2, KindsDiffer DEF CarryOut, Asking
  <2>2. \A k \in Kind : counter[k] \in Nat /\ counter'[k] \in Nat /\ counter[k] <= counter'[k]
    <3>1. counter \in [Kind -> Nat]
      BY DEF TypeOK
    <3> QED
      BY <2>1, <3>1
  <2>3. \A k \in Kind, i \in Nat : Unused(k, i) => Unused(k, i)'
    BY <2>1, <2>2 DEF Unused
  <2>4. StoredInv'
    <3>1. "to" \in Kind /\ tokens \subseteq Nat /\ \A n \in Name : ids[n] \in Nat
      BY DEF Kind, TypeOK
    <3> QED
      BY <2>1, <2>2, <3>1, KindsDiffer DEF FreshInv, StoredInv, NameIdsUnique
  <2>5. /\ \A r \in Runner : KindAsked(r) \in Kind /\ drawn[r] \in Nat
        /\ \A p \in Asking : /\ KindOfRequest(p) \in Kind /\ p.id \in Nat
                             /\ KindOfRequest(p)' = KindOfRequest(p)
    BY KindsDiffer DEF KindAsked, KindOfRequest, Asking, TypeOK, Kind
  <2>6. /\ \A r \in Runner : Asks(r)' => Unused(KindAsked(r), drawn[r])'
        /\ \A p \in Asking' : p.id # 0 /\ Unused(KindOfRequest(p), p.id)'
    BY <1>1, <2>1, <2>3, <2>5 DEF FreshInv, DrawnInv
  <2> QED
    BY <1>1, <2>1, <2>4, <2>5, <2>6 DEF FreshInv, DrawnInv
<1>3. CASE q.op = "put region"
  BY <1>1, <1>3, QuietFresh DEF CarryOut
<1>4. CASE q.op \in {"put id", "put token"}
  <2>1. /\ q \in Asking /\ q.id \in Nat \ {0} /\ KindOfRequest(q) \in Kind
        /\ Unused(KindOfRequest(q), q.id) /\ counter' = counter
    BY <1>4, KindsDiffer DEF Asking, FreshInv, DrawnInv, TypeOK, KindOfRequest, Kind, CarryOut
  <2>2. CASE Stores(KindOfRequest(q), q.id)
    BY <1>1, <2>1, <2>2, StoreFresh DEF FreshInv, DrawnInv
  <2>3. CASE ids' = ids /\ tokens' = tokens
    BY <1>1, <2>1, <2>3, QuietFresh
  <2>4. q.op = "put id" /\ q.name \notin Name => ids' = ids
    BY DEF CarryOut, TypeOK
  <2> QED
    BY <1>4, <2>2, <2>3, <2>4 DEF CarryOut, NotCreated, Stores, KindOfRequest
<1> QED
  BY <1>2, <1>3, <1>4 DEF TypeOK, Puts

LEMMA StopFresh ==
  ASSUME TypeOK, FreshInv, NEW r \in Runner, Stop(r) PROVE FreshInv'
<1>1. pc'[r] = "down" /\ \A s \in Runner \ {r} : pc'[s] = pc[s]
  BY Jump DEF Stop, Labels
<1>2. /\ ~Asks(r)'
      /\ \A s \in Runner \ {r} :
           (Asks(s)' <=> Asks(s)) /\ KindAsked(s)' = KindAsked(s) /\ drawn'[s] = drawn[s]
  BY <1>1 DEF Stop, Asks, KindAsked, TypeOK
<1>3. /\ counter' = counter /\ ids' = ids /\ tokens' = tokens
      /\ \A k, i : Unused(k, i)' <=> Unused(k, i)
      /\ \A q : KindOfRequest(q)' = KindOfRequest(q)
  BY DEF Stop, etcdVars, Unused, KindOfRequest
<1>4. CASE Asking' = Asking
  BY <1>2, <1>3, <1>4, QuietFresh
<1>5. CASE Asking' # Asking
  <2>1. /\ Asks(r) /\ Asking' = Asking \cup {Request(r)}
        /\ Request(r).id = drawn[r] /\ KindOfRequest(Request(r)) = KindAsked(r)
        /\ drawn[r] # 0
    <3>1. /\ Request(r).id = drawn[r] /\ Request(r).op = pc[r]
          /\ KindOfRequest(Request(r)) = KindAsked(r)
      BY DEF Request, KindOfRequest, KindAsked
    <3>2. late' = late \cup {Request(r)}
      BY <1>5 DEF Stop, Asking
    <3>3. Asks(r) /\ Asking' = Asking \cup {Request(r)}
      BY <1>5, <3>1, <3>2 DEF Asking, Asks
    <3>4. drawn[r] # 0
      BY <3>3 DEF Asks, TypeOK, RequestFits
    <3> QED
      BY <3>1, <3>3, <3>4
  <2>2. StoredInv'
    BY <1>3 DEF FreshInv, StoredInv, NameIdsUnique
  <2>3. \A q \in Asking' : q.id # 0 /\ Unused(KindOfRequest(q), q.id)'
    BY <1>3, <2>1 DEF FreshInv, DrawnInv
  <2>4. \A s \in Runner : Asks(s)' => Unused(KindAsked(s), drawn[s])'
    BY <1>2, <1>3 DEF FreshInv, DrawnInv
  <2>5. \A s \in Runner, q \in Asking' :
          Asks(s)' /\ KindAsked(s)' = KindOfRequest(q) => drawn'[s] # q.id
    BY <1>2, <2>1 DEF FreshInv, DrawnInv
  <2>6. \A q, p \in Asking' : q # p /\ KindOfRequest(q) = KindOfRequest(p) => q.id # p.id
    BY <2>1 DEF FreshInv, DrawnInv
  <2>7. \A s, t \in Runner : s # t /\ Asks(s)' /\ Asks(t)' /\ KindAsked(s)' = KindAsked(t)' =>
          drawn'[s] # drawn'[t]
    BY <1>2 DEF FreshInv, DrawnInv
  <2> QED
    BY <1>3, <2>2, <2>3, <2>4, <2>5, <2>6, <2>7 DEF FreshInv, DrawnInv
<1> QED
  BY <1>4, <1>5

LEMMA FreshStep == TypeOK /\ FreshInv /\ [Next]_vars => FreshInv'
<1> SUFFICES ASSUME TypeOK, FreshInv, [Next]_vars PROVE FreshInv'
  OBVIOUS
<1>1. ASSUME NEW r \in Runner, NEW l \in Labels \ {"put id", "put token"}, Goto(r, l),
             UNCHANGED <<counter, ids, tokens, late, drawn>>,
             \A s \in Runner \ {r} : cur'[s] = cur[s]
      PROVE  FreshInv'
  <2>1. pc'[r] = l /\ \A s \in Runner \ {r} : pc'[s] = pc[s]
    BY <1>1, Jump
  <2>2. \A s \in Runner : Asks(s)' =>
          Asks(s) /\ KindAsked(s)' = KindAsked(s) /\ drawn'[s] = drawn[s]
    BY <1>1, <2>1 DEF Asks, KindAsked
  <2>3. Asking' = Asking
    BY <1>1 DEF Asking
  <2> QED
    BY <1>1, <2>2, <2>3, QuietFresh
<1>2. ASSUME NEW r \in Runner, Start(r) \/ NextName(r) \/ GetId(r) \/ GetRegion(r) \/ PutRegion(r)
      PROVE  FreshInv'
  <2>1. \E l \in Labels \ {"put id", "put token"} : Goto(r, l)
    BY <1>2 DEF Start, NextName, GetId, Obtain, GetRegion, PutRegion, Pass, Refuse, Handled,
                Labels, Puts
  <2>2. UNCHANGED <<counter, ids, tokens, late, drawn>> /\ \A s \in Runner \ {r} : cur'[s] = cur[s]
    BY <1>2 DEF Start, NextName, GetId, GetRegion, PutRegion, etcdVars, TypeOK
  <2> QED
    BY <1>1, <2>1, <2>2
<1>3. ASSUME NEW r \in Runner, DrawId(r) PROVE FreshInv'
  <2>1. pc'[r] = "put id" /\ \A s \in Runner \ {r} : pc'[s] = pc[s]
    BY <1>3, Jump DEF DrawId, Labels, Puts
  <2>2. ~Asks(r) /\ Asks(r)' /\ KindAsked(r)' = KindOf(cur[r])
    BY <1>3, <2>1 DEF DrawId, Asks, KindAsked
  <2> QED
    BY <1>3, <2>1, <2>2, DrawFresh, KindsDiffer DEF DrawId
<1>4. ASSUME NEW r \in Runner, DrawTokenId(r) PROVE FreshInv'
  <2>1. pc'[r] = "put token" /\ \A s \in Runner \ {r} : pc'[s] = pc[s]
    BY <1>4, Jump DEF DrawTokenId, Labels, Puts
  <2>2. ~Asks(r) /\ Asks(r)' /\ KindAsked(r)' = "to" /\ "to" \in Kind
    BY <1>4, <2>1 DEF DrawTokenId, Asks, KindAsked, Kind
  <2> QED
    BY <1>4, <2>1, <2>2, DrawFresh DEF DrawTokenId
<1>5. CASE UNCHANGED vars
  <2>1. Asking' = Asking /\ \A s \in Runner : (Asks(s)' <=> Asks(s)) /\ KindAsked(s)' = KindAsked(s)
    BY <1>5 DEF vars, Asking, Asks, KindAsked
  <2> QED
    BY <1>5, <2>1, QuietFresh DEF vars, etcdVars
<1> QED
  BY <1>2, <1>3, <1>4, <1>5, PutIdFresh, PutTokenFresh, StopFresh, CarryOutFresh
     DEF Next, Assign

LEMMA FreshInvariant == Spec => []FreshInv
<1>1. Init => FreshInv
  <2> SUFFICES ASSUME Init PROVE FreshInv
    OBVIOUS
  <2>1. \A k \in Kind : counter[k] = 0
    BY DEF Init
  <2>2. StoredInv
    BY <2>1, KindsDiffer DEF Init, StoredInv, NameIdsUnique
  <2>3. DrawnInv
    BY DEF Init, DrawnInv, Asks, Asking
  <2> QED
    BY <2>2, <2>3 DEF FreshInv
<1> QED
  BY <1>1, TypeCorrect, FreshStep, PTL DEF Spec

\* However many runners race for however many names and tokens, whichever of
\* them are stopped, and whenever their last requests are carried out: no two
\* names of a kind share an id, and a token gets an id that no other has or
\* will get.
THEOREM IdsStandForOne == Spec => []IdsUnique
<1>1. FreshInv => IdsUnique
  <2> SUFFICES ASSUME FreshInv PROVE IdsUnique
    OBVIOUS
  <2>1. \A q \in late : q.op = "put token" => q \in Asking /\ KindOfRequest(q) = "to"
    BY DEF Asking, KindOfRequest
  <2>2. \A r \in Runner : pc[r] = "put token" => Asks(r) /\ KindAsked(r) = "to"
    BY DEF Asks, KindAsked
  <2>3. TokenIdsNew
    BY <2>1, <2>2 DEF FreshInv, DrawnInv, Unused, TokenIdsNew
  <2> QED
    BY <2>3 DEF FreshInv, StoredInv, IdsUnique
<1> QED
  BY <1>1, FreshInvariant, PTL

(***************************************************************************)
(* Runners that are through.                                               *)
(***************************************************************************)

\* r has found out what it needs to know about the name n.
Done(r, n) == result[r][n] # 0 /\ (n \in Transition => n \in passed[r])

\* What r knows is what etcd holds, and what it does not know is to be done.
KnowsInv(r) ==
  /\ \A n \in Name : result[r][n] # 0 => result[r][n] = ids[n]
  /\ \A tr \in passed[r] : region[tr] = RegionOf[r]
  /\ pc[r] # "down" => \A n \in Wants[r] : n \in todo[r] \/ Done(r, n)
  /\ pc[r] \in {"ready", "put token"} => todo[r] = {}
  /\ pc[r] \in {"get region", "put region"} => result[r][cur[r]] # 0

KnowledgeInv == \A r \in Runner : KnowsInv(r)

LEMMA RunnerConstants ==
  /\ \A r \in Runner : Wants[r] \subseteq Name
  /\ \A r \in Runner : RegionOf[r] # NoRegion
BY IdAssignmentAssumption

\* An id, once stored, stays, and so does a region.
LEMMA StoreGrows ==
  ASSUME TypeOK, [Next]_vars
  PROVE  /\ \A n \in Name : ids[n] # 0 => ids'[n] = ids[n]
         /\ \A tr \in Transition : region[tr] # NoRegion => region'[tr] = region[tr]
<1>1. ASSUME NEW r \in Runner, PutId(r)
      PROVE  region' = region /\ \A n \in Name : ids[n] # 0 => ids'[n] = ids[n]
  BY <1>1 DEF PutId, NotCreated, TypeOK
<1>2. ASSUME NEW r \in Runner, PutRegion(r)
      PROVE  ids' = ids /\ \A tr \in Transition : region[tr] # NoRegion => region'[tr] = region[tr]
  BY <1>2 DEF PutRegion, NotCreated, TypeOK
<1>3. ASSUME NEW q \in late, CarryOut(q)
      PROVE  /\ \A n \in Name : ids[n] # 0 => ids'[n] = ids[n]
             /\ \A tr \in Transition : region[tr] # NoRegion => region'[tr] = region[tr]
  BY <1>3 DEF CarryOut, NotCreated, TypeOK
<1>4. ASSUME NEW r \in Runner,
             \/ Start(r) \/ NextName(r) \/ GetId(r) \/ DrawId(r) \/ GetRegion(r)
             \/ DrawTokenId(r) \/ PutToken(r) \/ Stop(r)
      PROVE  ids' = ids /\ region' = region
  BY <1>4 DEF Start, NextName, GetId, DrawId, GetRegion, DrawTokenId, PutToken, Stop, etcdVars
<1>5. CASE UNCHANGED vars
  BY <1>5 DEF vars, etcdVars
<1> QED
  BY <1>1, <1>2, <1>3, <1>4, <1>5 DEF Next, Assign

\* What others do leaves what r knows true.
LEMMA OthersKnow ==
  ASSUME TypeOK, NEW r \in Runner, KnowsInv(r), [Next]_vars,
         pc'[r] = pc[r], cur'[r] = cur[r], todo'[r] = todo[r],
         result'[r] = result[r], passed'[r] = passed[r]
  PROVE  KnowsInv(r)'
<1>1. /\ \A n \in Name : result[r][n] # 0 => result[r][n] = ids'[n]
      /\ \A tr \in passed[r] : region'[tr] = RegionOf[r]
  <2>1. RegionOf[r] # NoRegion /\ passed[r] \subseteq Transition
    BY RunnerConstants DEF TypeOK
  <2>2. /\ \A n \in Name : ids[n] # 0 => ids'[n] = ids[n]
        /\ \A tr \in Transition : region[tr] # NoRegion => region'[tr] = region[tr]
    BY StoreGrows
  <2> QED
    BY <2>1, <2>2 DEF KnowsInv
<1> QED
  BY <1>1 DEF KnowsInv, Done

\* r has got the id of its name.
LEMMA ObtainKnows ==
  ASSUME TypeOK, NEW r \in Runner, NEW id \in Nat \ {0}, KnowsInv(r), [Next]_vars,
         cur[r] \in Name, pc[r] # "down", ids'[cur[r]] = id,
         Obtain(r, id), cur' = cur, passed' = passed
  PROVE  KnowsInv(r)'
<1>1. /\ \A n \in Name : ids[n] # 0 => ids'[n] = ids[n]
      /\ \A tr \in Transition : region[tr] # NoRegion => region'[tr] = region[tr]
  BY StoreGrows
<1>2. /\ result'[r][cur[r]] = id
      /\ \A n \in Name \ {cur[r]} : result'[r][n] = result[r][n]
  BY DEF Obtain, TypeOK
<1>3. \A n \in Name : result'[r][n] # 0 => result'[r][n] = ids'[n]
  BY <1>1, <1>2 DEF KnowsInv
<1>4. \A tr \in passed'[r] : region'[tr] = RegionOf[r]
  <2>1. RegionOf[r] # NoRegion /\ passed[r] \subseteq Transition
    BY RunnerConstants DEF TypeOK
  <2> QED
    BY <1>1, <2>1 DEF KnowsInv
<1>5. \A n \in Name : Done(r, n) => Done(r, n)'
  BY <1>2 DEF Done
<1>6. Wants[r] \subseteq Name
  BY RunnerConstants
<1>7. CASE cur[r] \in Transition
  <2>1. pc'[r] = "get region" /\ todo' = todo
    BY <1>7, Jump DEF Obtain, Labels
  <2> QED
    BY <1>2, <1>3, <1>4, <1>5, <1>6, <2>1 DEF KnowsInv
<1>8. CASE cur[r] \notin Transition
  <2>1. pc'[r] = "next" /\ todo'[r] = todo[r] \ {cur[r]}
    BY <1>8, Jump DEF Obtain, Handled, Labels, TypeOK
  <2>2. Done(r, cur[r])'
    BY <1>2, <1>8 DEF Done
  <2> QED
    BY <1>3, <1>4, <1>5, <1>6, <2>1, <2>2 DEF KnowsInv
<1> QED
  BY <1>7, <1>8

\* r has found its region at its transition.
LEMMA PassKnows ==
  ASSUME TypeOK, NEW r \in Runner, KnowsInv(r), [Next]_vars,
         pc[r] \in {"get region", "put region"}, region'[cur[r]] = RegionOf[r],
         Pass(r), cur' = cur, result' = result
  PROVE  KnowsInv(r)'
<1>1. /\ \A n \in Name : ids[n] # 0 => ids'[n] = ids[n]
      /\ \A tr \in Transition : region[tr] # NoRegion => region'[tr] = region[tr]
  BY StoreGrows
<1>2. RegionOf[r] # NoRegion /\ passed[r] \subseteq Transition /\ Wants[r] \subseteq Name
  BY RunnerConstants DEF TypeOK
<1>3. pc'[r] = "next" /\ todo'[r] = todo[r] \ {cur[r]} /\ passed'[r] = passed[r] \cup {cur[r]}
  BY Jump DEF Pass, Handled, Labels, TypeOK
<1>4. \A tr \in passed'[r] : region'[tr] = RegionOf[r]
  BY <1>1, <1>2, <1>3 DEF KnowsInv
<1>5. /\ \A n \in Name : Done(r, n) => Done(r, n)'
      /\ Done(r, cur[r])'
  BY <1>3 DEF Done, KnowsInv
<1> QED
  BY <1>1, <1>2, <1>3, <1>4, <1>5 DEF KnowsInv

\* r goes on without having learnt anything.
LEMMA GoOnKnows ==
  ASSUME TypeOK, NEW r \in Runner, KnowsInv(r), [Next]_vars, NEW l \in Labels, Goto(r, l),
         pc[r] # "down", todo' = todo, result' = result, passed' = passed,
         l \in {"ready", "put token"} => todo[r] = {},
         l \in {"get region", "put region"} => result[r][cur[r]] # 0 /\ cur' = cur
  PROVE  KnowsInv(r)'
<1>1. pc'[r] = l
  BY Jump
<1>2. /\ \A n \in Name : ids[n] # 0 => ids'[n] = ids[n]
      /\ \A tr \in Transition : region[tr] # NoRegion => region'[tr] = region[tr]
  BY StoreGrows
<1>3. RegionOf[r] # NoRegion /\ passed[r] \subseteq Transition
  BY RunnerConstants DEF TypeOK
<1>4. /\ \A n \in Name : result'[r][n] # 0 => result'[r][n] = ids'[n]
      /\ \A tr \in passed'[r] : region'[tr] = RegionOf[r]
  BY <1>2, <1>3 DEF KnowsInv
<1> QED
  BY <1>1, <1>4 DEF KnowsInv, Done

LEMMA OwnStepKnows ==
  ASSUME TypeOK, NEW r \in Runner, KnowsInv(r), [Next]_vars,
         Start(r) \/ Assign(r) \/ DrawTokenId(r) \/ PutToken(r) \/ Stop(r)
  PROVE  KnowsInv(r)'
<1>1. CASE Start(r)
  <2>1. pc'[r] = "next" /\ todo'[r] = Wants[r] /\ result' = result /\ passed' = passed
    BY <1>1, Jump DEF Start, Labels, TypeOK
  <2>2. ids' = ids /\ region' = region
    BY <1>1 DEF Start, etcdVars
  <2> QED
    BY <2>1, <2>2 DEF KnowsInv
<1>2. CASE NextName(r)
  BY <1>2, GoOnKnows DEF NextName, Labels
<1>3. CASE GetId(r)
  <2>1. cur[r] \in Name /\ ids[cur[r]] \in Nat /\ ids' = ids
    BY <1>3 DEF GetId, TypeOK, RequestFits, etcdVars
  <2> QED
    BY <1>3, <2>1, ObtainKnows, GoOnKnows DEF GetId, Labels, Puts
<1>4. CASE DrawId(r)
  BY <1>4, GoOnKnows DEF DrawId, Labels, Puts
<1>5. CASE PutId(r)
  <2>1. cur[r] \in Name /\ drawn[r] \in Nat \ {0}
    BY <1>5 DEF PutId, TypeOK, RequestFits
  <2>2. CASE NotCreated(ids[cur[r]], 0)
    <3>1. Obtain(r, drawn[r]) /\ ids'[cur[r]] = drawn[r]
      BY <1>5, <2>1, <2>2 DEF PutId, TypeOK
    <3> QED
      BY <1>5, <2>1, <3>1, ObtainKnows DEF PutId
  <2>3. CASE ~NotCreated(ids[cur[r]], 0)
    BY <1>5, <2>3, GoOnKnows DEF PutId, Labels
  <2> QED
    BY <2>2, <2>3
<1>6. CASE GetRegion(r)
  <2>1. CASE region[cur[r]] = RegionOf[r] /\ Pass(r)
    BY <1>6, <2>1, PassKnows DEF GetRegion, etcdVars
  <2>2. CASE ~(region[cur[r]] = RegionOf[r] /\ Pass(r))
    <3>1. result[r][cur[r]] # 0
      BY <1>6 DEF GetRegion, KnowsInv
    <3>2. \E l \in {"put region", "failed"} : Goto(r, l)
      BY <1>6, <2>2 DEF GetRegion, Refuse
    <3>3. todo' = todo /\ passed' = passed /\ result' = result /\ cur' = cur
      BY <1>6, <2>2 DEF GetRegion
    <3> QED
      BY <1>6, <3>1, <3>2, <3>3, GoOnKnows DEF GetRegion, Labels, Puts
  <2> QED
    BY <2>1, <2>2
<1>7. CASE PutRegion(r)
  <2>1. cur[r] \in Transition /\ result[r][cur[r]] # 0
    BY <1>7 DEF PutRegion, TypeOK, RequestFits, KnowsInv
  <2>2. CASE NotCreated(region[cur[r]], NoRegion)
    <3>1. Pass(r) /\ region'[cur[r]] = RegionOf[r]
      BY <1>7, <2>1, <2>2 DEF PutRegion, TypeOK
    <3> QED
      BY <1>7, <3>1, PassKnows DEF PutRegion
  <2>3. CASE ~NotCreated(region[cur[r]], NoRegion)
    BY <1>7, <2>1, <2>3, GoOnKnows DEF PutRegion, Labels
  <2> QED
    BY <2>2, <2>3
<1>8. CASE DrawTokenId(r)
  BY <1>8, GoOnKnows DEF DrawTokenId, Labels, Puts, KnowsInv
<1>9. CASE PutToken(r)
  BY <1>9, GoOnKnows DEF PutToken, Labels, KnowsInv
<1>10. CASE Stop(r)
  <2>1. pc'[r] = "down" /\ passed'[r] = {} /\ \A n \in Name : result'[r][n] = 0
    BY <1>10, Jump DEF Stop, Labels, TypeOK
  <2> QED
    BY <2>1 DEF KnowsInv
<1> QED
  BY <1>1, <1>2, <1>3, <1>4, <1>5, <1>6, <1>7, <1>8, <1>9, <1>10 DEF Assign

\* A runner that is through with its names knows what etcd holds, and goes on
\* to know it, whatever the other runners do: it has the one id of each of its
\* names, and its region is the one that etcd keeps for its transitions.
THEOREM ReadyRunnersAgree == Spec => []ReadyAgrees
<1>1. TypeOK /\ KnowledgeInv /\ [Next]_vars => KnowledgeInv'
  <2> SUFFICES ASSUME TypeOK, [Next]_vars, NEW r \in Runner, KnowsInv(r) PROVE KnowsInv(r)'
    BY DEF KnowledgeInv
  <2>1. ASSUME NEW s \in Runner \ {r},
               Start(s) \/ Assign(s) \/ DrawTokenId(s) \/ PutToken(s) \/ Stop(s)
        PROVE  /\ pc'[r] = pc[r] /\ cur'[r] = cur[r] /\ todo'[r] = todo[r]
               /\ result'[r] = result[r] /\ passed'[r] = passed[r]
    <3>1. CASE Start(s) \/ NextName(s) \/ DrawId(s) \/ DrawTokenId(s) \/ PutToken(s) \/ Stop(s)
      BY <2>1, <3>1 DEF Start, NextName, DrawId, DrawTokenId, PutToken, Stop, Goto, TypeOK, etcdVars
    <3>2. CASE GetId(s) \/ PutId(s)
      BY <2>1, <3>2 DEF GetId, PutId, Obtain, Handled, Goto, TypeOK, etcdVars
    <3>3. CASE GetRegion(s) \/ PutRegion(s)
      <4>1. /\ UNCHANGED <<cur, result>> /\ \E l : pc' = [pc EXCEPT ![s] = l]
            /\ todo' = todo \/ todo' = [todo EXCEPT ![s] = @ \ {cur[s]}]
            /\ passed' = passed \/ passed' = [passed EXCEPT ![s] = @ \cup {cur[s]}]
        BY <3>3 DEF GetRegion, PutRegion, Handled, Pass, Refuse, Goto
      <4> QED
        BY <4>1 DEF TypeOK
    <3> QED
      BY <2>1, <3>1, <3>2, <3>3 DEF Assign
  <2>2. ASSUME NEW q \in late, CarryOut(q) PROVE KnowsInv(r)'
    BY <2>2, OthersKnow DEF CarryOut
  <2>3. CASE UNCHANGED vars
    BY <2>3, OthersKnow DEF vars
  <2> QED
    BY <2>1, <2>2, <2>3, OthersKnow, OwnStepKnows DEF Next
<1>2. Init => KnowledgeInv
  BY DEF Init, KnowledgeInv, KnowsInv
<1>3. KnowledgeInv => ReadyAgrees
  <2> SUFFICES ASSUME KnowledgeInv, NEW r \in Runner, pc[r] \in {"ready", "put token"},
                      NEW n \in Wants[r]
               PROVE  /\ result[r][n] = ids[n] /\ ids[n] # 0
                      /\ n \in Transition => region[n] = RegionOf[r]
    BY DEF ReadyAgrees
  <2>1. n \in Name /\ Done(r, n)
    BY RunnerConstants DEF KnowledgeInv, KnowsInv
  <2> QED
    BY <2>1 DEF KnowledgeInv, KnowsInv, Done
<1> QED
  BY <1>1, <1>2, <1>3, TypeCorrect, PTL DEF Spec
=============================================================================
