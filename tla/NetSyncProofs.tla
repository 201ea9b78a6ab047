---------------------------- MODULE NetSyncProofs ----------------------------
(***************************************************************************)
(* Proofs about the state of the net in etcd and the copy a runner keeps   *)
(* of it: for any net, any regions, any tokens, and a watch that lags      *)
(* behind by any number of revisions.                                      *)
(***************************************************************************)
EXTENDS NetSync, FiniteSetTheorems, TLAPS

(***************************************************************************)
(* The inductive invariant.                                                *)
(***************************************************************************)

\* No token is taken twice.
Unique(tk) ==
  \A u, v \in Transition : \A j \in tk[u], k \in tk[v] : j[1] = k[1] => u = v /\ j = k

\* The keys and the bookkeeping of the transitions have their types; what is
\* stored has been created, and what is taken was at an input place.
StoreTypes ==
  /\ tokenKeys \subseteq TokenKey /\ takenKeys \subseteq TakenKey
  /\ created \subseteq Token
  /\ busy \in [Transition -> BOOLEAN]
  /\ takes \in [Transition -> SUBSET TokenKey]
  /\ \A tr \in Transition : ~busy[tr] => takes[tr] = {}
  /\ \A k \in tokenKeys : k[1] \in created
  /\ \A tr \in Transition : \A k \in takes[tr] : k[2] \in InPlaces[tr] /\ k[1] \in created
  /\ Unique(takes)
  /\ strayed \subseteq created

Now == [tokens |-> tokenKeys, taken |-> takenKeys]

\* A local net that shows b of a token shows a after the events, and those who
\* wait for a place with a token that has changed are told.
Follows(b, evs, a, t) ==
  /\ Observe(b, evs, t) = a
  /\ Notified(b, evs, t) \subseteq Known
  /\ a # b => \A s \in {a, b} : s.exists => s.last \in Notified(b, evs, t)

\* Revisions that lead on from a snapshot, one after the other and token by
\* token, and the snapshot they end with.
Chain(s, revs) ==
  \A i \in 1 .. Len(revs) : \A t \in Token :
    Follows(View(IF i = 1 THEN s ELSE revs[i - 1].after, t), revs[i].evs,
            View(revs[i].after, t), t)
Last(s, revs) == IF revs = <<>> THEN s ELSE revs[Len(revs)].after

Kinds == {"taken", "released", "created", "updated", "destroyed"}
Reported == [kind : Kinds, to : Token, pl : Place, val : Data \cup Transition]
Revision == [evs : SUBSET Reported, after : Snapshot]

\* The revisions under way lead from what the runner has seen to what etcd
\* holds.
WatchInv ==
  /\ backlog \in Seq(Revision)
  /\ phase \in {"down", "loaded", "watching"} /\ seen \in Snapshot
  /\ ~Loaded => backlog = <<>>
  /\ Loaded => Chain(seen, backlog) /\ Now = Last(seen, backlog)

\* A runner that is down has an empty net.
NetInv ==
  /\ net = [t \in Token |-> IF Loaded THEN View(seen, t) ELSE Unknown]
  /\ told \subseteq Known

SyncInv == StoreTypes /\ StoreCoherent /\ WatchInv /\ NetInv

(***************************************************************************)
(* What the local net shows of a token.                                    *)
(***************************************************************************)

\* A token with the data d at the place p, at rest or taken by tr.
Rest(p, d) == [exists |-> TRUE, pos |-> AtPlace(p), last |-> p, data |-> d,
               at |-> {p}, taken |-> {}, firing |-> {}, err |-> FALSE]
Held(p, d, tr) == [exists |-> TRUE, pos |-> AtTransition(tr), last |-> p, data |-> d,
                   at |-> {}, taken |-> {<<p, tr>>}, firing |-> {tr} \cap Local, err |-> FALSE]

TokenKeysOf(s, t) == {k \in s.tokens : k[1] = t}
TakenKeysOf(s, t) == {k \in s.taken : k[1] = t}

\* A token without a key at a known place is unknown.
LEMMA ViewOfNothing ==
  ASSUME NEW s, NEW t, \A k \in TokenKeysOf(s, t) : k[2] \notin Known
  PROVE  View(s, t) = Unknown
<1>1. KnownKeys(s, t) = {}
  BY DEF KnownKeys, TokenKeysOf
<1> QED
  BY <1>1 DEF View

\* A token with one key at a known place is at rest there, or held by the
\* transition that has taken it.
LEMMA ViewOfKey ==
  ASSUME NEW s, NEW t, NEW p \in Known, NEW d, TokenKeysOf(s, t) = {<<t, p, d>>}
  PROVE  /\ TakenKeysOf(s, t) = {} => View(s, t) = Rest(p, d)
         /\ \A tr : TakenKeysOf(s, t) = {<<t, p, tr>>} => View(s, t) = Held(p, d, tr)
<1> DEFINE by == TakenBy(s, t)
<1>1. KnownKeys(s, t) = {<<t, p, d>>}
  BY DEF KnownKeys, TokenKeysOf
<1>2. (CHOOSE k \in KnownKeys(s, t) : TRUE) = <<t, p, d>>
  BY <1>1
<1>3. TakenKeysOf(s, t) = {} => by = {}
  BY DEF TakenKeysOf, TakenBy
<1>4. ASSUME NEW tr, TakenKeysOf(s, t) = {<<t, p, tr>>} PROVE by = {tr}
  <2> DEFINE K == {x \in s.taken : x[1] = t /\ x[2] \in Known}
  <2>1. K = {<<t, p, tr>>}
    BY <1>4 DEF TakenKeysOf
  <2>2. by = {k[3] : k \in K}
    BY DEF TakenBy
  <2> HIDE DEF K, by
  <2>3. <<t, p, tr>>[3] = tr
    OBVIOUS
  <2> QED
    BY <2>1, <2>2, <2>3
<1>5. View(s, t) =
        [exists |-> TRUE, last |-> p, data |-> d, err |-> FALSE,
         pos |-> IF by = {} THEN AtPlace(p) ELSE AtTransition(CHOOSE x \in by : TRUE),
         at |-> IF by = {} THEN {p} ELSE {},
         taken |-> {<<p, x>> : x \in by},
         firing |-> by \cap Local]
  <2> DEFINE key == CHOOSE k \in KnownKeys(s, t) : TRUE
  <2>1. key[2] = p /\ key[3] = d /\ KnownKeys(s, t) # {}
    BY <1>1, <1>2
  <2>2. View(s, t) =
          [exists |-> TRUE, last |-> key[2], data |-> key[3], err |-> FALSE,
           pos |-> IF by = {} THEN AtPlace(key[2]) ELSE AtTransition(CHOOSE x \in by : TRUE),
           at |-> IF by = {} THEN {key[2]} ELSE {},
           taken |-> {<<key[2], x>> : x \in by},
           firing |-> by \cap Local]
    BY <2>1 DEF View
  <2> HIDE DEF key, by
  <2>3. {<<key[2], x>> : x \in by} = {<<p, x>> : x \in by}
    BY <2>1
  <2> QED
    BY <2>1, <2>2, <2>3
<1> HIDE DEF by
<1>6. by = {} => View(s, t) = Rest(p, d)
  BY <1>5 DEF Rest
<1>7. ASSUME NEW tr, by = {tr} PROVE View(s, t) = Held(p, d, tr)
  <2>1. {<<p, x>> : x \in by} = {<<p, tr>>} /\ by \cap Local = {tr} \cap Local
    BY <1>7
  <2>2. (CHOOSE x \in by : TRUE) = tr
    BY <1>7
  <2>3. by # {}
    BY <1>7
  <2> QED
    BY <1>5, <2>1, <2>2, <2>3 DEF Held
<1> QED
  BY <1>3, <1>4, <1>6, <1>7

(***************************************************************************)
(* From the events of a revision to the changes of a token.                *)
(***************************************************************************)

\* No event of these kinds matters for t.
None(evs, t, kinds) == \A kind \in kinds : Relevant(evs, t, kind) = {}

\* Of this kind e is the one that does.
One(evs, t, e) == Relevant(evs, t, e.kind) = {e}

\* What events and changes are made of.
LEMMA Fields ==
  ASSUME NEW kind, NEW t, NEW p, NEW v
  PROVE  /\ Event(kind, t, p, v).kind = kind /\ Event(kind, t, p, v).to = t
         /\ Event(kind, t, p, v).pl = p /\ Event(kind, t, p, v).val = v
         /\ Change(kind, p, t, v).op = kind /\ Change(kind, p, t, v).pl = p
         /\ Change(kind, p, t, v).tr = t /\ Change(kind, p, t, v).data = v
BY DEF Event, Change

LEMMA OnlyOne ==
  ASSUME NEW evs, NEW t, NEW e, One(evs, t, e)
  PROVE  Relevant(evs, t, e.kind) # {} /\ Only(evs, t, e.kind) = e
BY DEF One, Only

\* The case table of _analyze_place_events, for the revisions that occur: no
\* event,
LEMMA ChangesNone ==
  ASSUME NEW evs, NEW t, None(evs, t, Kinds)
  PROVE  Changes(evs, t) = <<>>
BY DEF Changes, None, Kinds

\* a token at rest is taken,
LEMMA ChangesTaken ==
  ASSUME NEW evs, NEW t, NEW p, NEW tr,
         One(evs, t, Event("taken", t, p, tr)),
         None(evs, t, Kinds \ {"taken"})
  PROVE  Changes(evs, t) = <<Change("Take", p, tr, NoData)>>
<1>1. Relevant(evs, t, "taken") # {} /\ Only(evs, t, "taken") = Event("taken", t, p, tr)
  BY OnlyOne, Fields
<1> QED
  BY <1>1, Fields DEF Changes, None, Kinds

\* a taken token is loaded,
LEMMA ChangesLoaded ==
  ASSUME NEW evs, NEW t, NEW p, NEW tr, NEW d,
         One(evs, t, Event("taken", t, p, tr)),
         One(evs, t, Event("created", t, p, d)),
         None(evs, t, Kinds \ {"taken", "created"})
  PROVE  Changes(evs, t) = 
           <<Change("ExternalPlace", p, NoData, NoData),
             Change("ExternalUpdate", NoData, NoData, d), Change("Take", p, tr, NoData)>>
<1>1. /\ Relevant(evs, t, "taken") # {} /\ Only(evs, t, "taken") = Event("taken", t, p, tr)
      /\ Relevant(evs, t, "created") # {} /\ Only(evs, t, "created") = Event("created", t, p, d)
  BY OnlyOne, Fields
<1> QED
  BY <1>1, Fields DEF Changes, None, Kinds

\* a token appears,
LEMMA ChangesCreated ==
  ASSUME NEW evs, NEW t, NEW q, NEW d2,
         One(evs, t, Event("created", t, q, d2)),
         None(evs, t, Kinds \ {"created"})
  PROVE  Changes(evs, t) = 
           <<Change("ExternalPlace", q, NoData, NoData),
             Change("ExternalUpdate", NoData, NoData, d2)>>
<1>1. Relevant(evs, t, "created") # {} /\ Only(evs, t, "created") = Event("created", t, q, d2)
  BY OnlyOne, Fields
<1> QED
  BY <1>1, Fields DEF Changes, None, Kinds

\* a token at rest is put again,
LEMMA ChangesUpdated ==
  ASSUME NEW evs, NEW t, NEW p, NEW d2,
         One(evs, t, Event("updated", t, p, d2)),
         None(evs, t, Kinds \ {"updated"})
  PROVE  Changes(evs, t) = <<Change("ExternalUpdate", NoData, NoData, d2)>>
<1>1. Relevant(evs, t, "updated") # {} /\ Only(evs, t, "updated") = Event("updated", t, p, d2)
  BY OnlyOne, Fields
<1> QED
  BY <1>1, Fields DEF Changes, None, Kinds

\* a firing gives a token back,
LEMMA ChangesReturned ==
  ASSUME NEW evs, NEW t, NEW p, NEW tr, NEW d2,
         One(evs, t, Event("released", t, p, tr)),
         One(evs, t, Event("updated", t, p, d2)),
         None(evs, t, Kinds \ {"released", "updated"})
  PROVE  Changes(evs, t) = 
           <<Change("Update", NoData, tr, d2), Change("Place", p, tr, NoData)>>
<1>1. /\ Relevant(evs, t, "released") # {} /\ Only(evs, t, "released") = Event("released", t, p, tr)
      /\ Relevant(evs, t, "updated") # {} /\ Only(evs, t, "updated") = Event("updated", t, p, d2)
  BY OnlyOne, Fields
<1> QED
  BY <1>1, Fields DEF Changes, None, Kinds

\* a firing destroys a token, or moves it out of sight,
LEMMA ChangesConsumed ==
  ASSUME NEW evs, NEW t, NEW p, NEW tr, NEW d,
         One(evs, t, Event("released", t, p, tr)),
         One(evs, t, Event("destroyed", t, p, d)),
         None(evs, t, Kinds \ {"released", "destroyed"})
  PROVE  Changes(evs, t) = <<Change("Delete", p, tr, NoData)>>
<1>1. /\ Relevant(evs, t, "released") # {} /\ Only(evs, t, "released") = Event("released", t, p, tr)
      /\ Relevant(evs, t, "destroyed") # {}
      /\ Only(evs, t, "destroyed") = Event("destroyed", t, p, d)
  BY OnlyOne, Fields
<1> QED
  BY <1>1, Fields DEF Changes, None, Kinds

\* a firing moves a token,
LEMMA ChangesMoved ==
  ASSUME NEW evs, NEW t, NEW p, NEW tr, NEW d, NEW q, NEW d2,
         One(evs, t, Event("released", t, p, tr)),
         One(evs, t, Event("destroyed", t, p, d)),
         One(evs, t, Event("created", t, q, d2)),
         None(evs, t, Kinds \ {"released", "destroyed", "created"})
  PROVE  Changes(evs, t) = 
           IF d2 = d THEN <<Change("Place", q, tr, NoData)>>
           ELSE <<Change("Update", NoData, tr, d2), Change("Place", q, tr, NoData)>>
<1>1. /\ Relevant(evs, t, "released") # {} /\ Only(evs, t, "released") = Event("released", t, p, tr)
      /\ Relevant(evs, t, "destroyed") # {}
      /\ Only(evs, t, "destroyed") = Event("destroyed", t, p, d)
      /\ Relevant(evs, t, "created") # {} /\ Only(evs, t, "created") = Event("created", t, q, d2)
  BY OnlyOne, Fields
<1> QED
  BY <1>1, Fields DEF Changes, None, Kinds

\* a token at rest is removed, or moved out of sight,
LEMMA ChangesRemoved ==
  ASSUME NEW evs, NEW t, NEW p, NEW d,
         One(evs, t, Event("destroyed", t, p, d)),
         None(evs, t, Kinds \ {"destroyed"})
  PROVE  Changes(evs, t) = <<Change("ExternalDelete", p, NoData, NoData)>>
<1>1. Relevant(evs, t, "destroyed") # {} /\ Only(evs, t, "destroyed") = Event("destroyed", t, p, d)
  BY OnlyOne, Fields
<1> QED
  BY <1>1, Fields DEF Changes, None, Kinds

\* a token at rest is moved.
LEMMA ChangesCarried ==
  ASSUME NEW evs, NEW t, NEW p, NEW d, NEW q, NEW d2,
         One(evs, t, Event("destroyed", t, p, d)),
         One(evs, t, Event("created", t, q, d2)),
         None(evs, t, Kinds \ {"destroyed", "created"})
  PROVE  Changes(evs, t) = 
           IF d2 = d THEN <<Change("ExternalPlace", q, NoData, NoData)>>
           ELSE <<Change("ExternalPlace", q, NoData, NoData),
                  Change("ExternalUpdate", NoData, NoData, d2)>>
<1>1. /\ Relevant(evs, t, "destroyed") # {}
      /\ Only(evs, t, "destroyed") = Event("destroyed", t, p, d)
      /\ Relevant(evs, t, "created") # {} /\ Only(evs, t, "created") = Event("created", t, q, d2)
  BY OnlyOne, Fields
<1> QED
  BY <1>1, Fields DEF Changes, None, Kinds

(***************************************************************************)
(* What the changes do to the local net.                                   *)
(***************************************************************************)

\* A revision changes a token with at most three changes, one after the other.
LEMMA ApplyNone ==
  ASSUME NEW s, NEW evs, NEW t, Changes(evs, t) = <<>>
  PROVE  Observe(s, evs, t) = s /\ Notified(s, evs, t) = {}
<1>1. <<>> # Inconsistent /\ Len(<<>>) = 0
  BY DEF Inconsistent
<1> QED
  BY <1>1 DEF Observe, Notified, ApplyAll, ModifiedAll, Nth, ModifiedNth

LEMMA ApplyOne ==
  ASSUME NEW s, NEW evs, NEW t, NEW c, Changes(evs, t) = <<c>>, c.op # "Error"
  PROVE  /\ Observe(s, evs, t) = Apply(s, c)
         /\ Notified(s, evs, t) = Modified(s, c)
<1>1. <<c>> # Inconsistent
  BY Fields DEF Inconsistent
<1>2. Len(<<c>>) = 1 /\ <<c>>[1] = c
  OBVIOUS
<1> QED
  BY <1>1, <1>2 DEF Observe, Notified, ApplyAll, ModifiedAll, Nth, ModifiedNth

LEMMA ApplyTwo ==
  ASSUME NEW s, NEW evs, NEW t, NEW c, NEW e, Changes(evs, t) = <<c, e>>
  PROVE  /\ Observe(s, evs, t) = Apply(Apply(s, c), e)
         /\ Notified(s, evs, t) = Modified(s, c) \cup Modified(Apply(s, c), e)
<1>1. <<c, e>> # Inconsistent
  BY DEF Inconsistent
<1>2. Len(<<c, e>>) = 2 /\ <<c, e>>[1] = c /\ <<c, e>>[2] = e
  OBVIOUS
<1> QED
  BY <1>1, <1>2 DEF Observe, Notified, ApplyAll, ModifiedAll, Nth, ModifiedNth

LEMMA ApplyThree ==
  ASSUME NEW s, NEW evs, NEW t, NEW c, NEW e, NEW f, Changes(evs, t) = <<c, e, f>>
  PROVE  /\ Observe(s, evs, t) = Apply(Apply(Apply(s, c), e), f)
         /\ Notified(s, evs, t) = Modified(s, c) \cup Modified(Apply(s, c), e)
                                   \cup Modified(Apply(Apply(s, c), e), f)
<1>1. <<c, e, f>> # Inconsistent
  BY DEF Inconsistent
<1>2. Len(<<c, e, f>>) = 3 /\ <<c, e, f>>[1] = c /\ <<c, e, f>>[2] = e /\ <<c, e, f>>[3] = f
  OBVIOUS
<1> QED
  BY <1>1, <1>2 DEF Observe, Notified, ApplyAll, ModifiedAll, Nth, ModifiedNth

\* A token at rest is taken.
LEMMA TakeRest ==
  ASSUME NEW p \in Known, NEW d, NEW tr
  PROVE  /\ Apply(Rest(p, d), Change("Take", p, tr, NoData)) = Held(p, d, tr)
         /\ Modified(Rest(p, d), Change("Take", p, tr, NoData)) = {p}
<1> DEFINE c == Change("Take", p, tr, NoData)
           b == Rest(p, d)
<1>1. c.op = "Take" /\ c.pl = p /\ c.tr = tr /\ c.data = NoData
  BY DEF Change
<1> HIDE DEF c
<1>2. Accepts(b, c)
  BY <1>1 DEF Accepts, TakenFrom, LeavesFiring, AtPlace, AtTransition, Rest
<1>3. Effect(b, c) = Held(p, d, tr)
  BY <1>1 DEF Effect, TakenFrom, AtPlace, AtTransition, Rest, Held, Unknown
<1>4. Modified(b, c) = {p}
  BY <1>1 DEF Modified, Rest
<1> QED
  BY <1>2, <1>3, <1>4 DEF Apply, c, Rest

\* What is taken of a held token, and from where.
LEMMA HeldFrom ==
  ASSUME NEW p, NEW d, NEW tr
  PROVE  TakenFrom(Held(p, d, tr), p) = {<<p, tr>>}
<1>1. <<p, tr>>[1] = p
  OBVIOUS
<1> QED
  BY <1>1 DEF TakenFrom, Held

\* A taken token gets new data.
LEMMA UpdateHeld ==
  ASSUME NEW p, NEW d, NEW tr, NEW d2
  PROVE  /\ Apply(Held(p, d, tr), Change("Update", NoData, tr, d2)) = Held(p, d2, tr)
         /\ Modified(Held(p, d, tr), Change("Update", NoData, tr, d2)) = {p}
<1> DEFINE c == Change("Update", NoData, tr, d2)
           b == Held(p, d, tr)
<1>1. c.op = "Update" /\ c.pl = NoData /\ c.tr = tr /\ c.data = d2
  BY DEF Change
<1> HIDE DEF c
<1>2. Accepts(b, c)
  BY <1>1 DEF Accepts, TakenFrom, LeavesFiring, AtPlace, AtTransition, Held
<1>3. Effect(b, c) = Held(p, d2, tr)
  BY <1>1 DEF Effect, TakenFrom, AtPlace, AtTransition, Rest, Held, Unknown
<1>4. Modified(b, c) = {p}
  BY <1>1 DEF Modified, Held
<1> QED
  BY <1>2, <1>3, <1>4 DEF Apply, c, Held

\* A taken token is placed.
LEMMA PlaceHeld ==
  ASSUME NEW p \in Known, NEW q \in Known, NEW d, NEW tr
  PROVE  /\ Apply(Held(p, d, tr), Change("Place", q, tr, NoData)) = Rest(q, d)
         /\ Modified(Held(p, d, tr), Change("Place", q, tr, NoData)) = {q, p}
<1> DEFINE c == Change("Place", q, tr, NoData)
           b == Held(p, d, tr)
<1>1. c.op = "Place" /\ c.pl = q /\ c.tr = tr /\ c.data = NoData
  BY DEF Change
<1> HIDE DEF c
<1>2. b.last = p /\ TakenFrom(b, p) = {<<p, tr>>}
  BY HeldFrom DEF Held
<1>3. Accepts(b, c)
  BY <1>1, <1>2 DEF Accepts, LeavesFiring, AtTransition, Held
<1>4. Effect(b, c) = Rest(q, d)
  BY <1>1, <1>2 DEF Effect, Rest, Held, Unknown
<1>5. Modified(b, c) = {q, p}
  BY <1>1 DEF Modified, Held
<1> QED
  BY <1>3, <1>4, <1>5 DEF Apply, c, Held

\* A taken token is destroyed.
LEMMA DeleteHeld ==
  ASSUME NEW p \in Known, NEW d, NEW tr
  PROVE  /\ Apply(Held(p, d, tr), Change("Delete", p, tr, NoData)) = Unknown
         /\ Modified(Held(p, d, tr), Change("Delete", p, tr, NoData)) = {p}
<1> DEFINE c == Change("Delete", p, tr, NoData)
           b == Held(p, d, tr)
<1>1. c.op = "Delete" /\ c.pl = p /\ c.tr = tr /\ c.data = NoData
  BY DEF Change
<1> HIDE DEF c
<1>2. b.last = p /\ TakenFrom(b, p) = {<<p, tr>>}
  BY HeldFrom DEF Held
<1>3. Accepts(b, c)
  BY <1>1, <1>2 DEF Accepts, LeavesFiring, AtTransition, Held
<1>4. Effect(b, c) = Unknown
  BY <1>1, <1>2 DEF Effect, Rest, Held, Unknown
<1>5. Modified(b, c) = {p}
  BY <1>1 DEF Modified, Held
<1> QED
  BY <1>3, <1>4, <1>5 DEF Apply, c, Held

\* A token appears; its data is not known yet.
LEMMA PlaceUnknown ==
  ASSUME NEW q \in Known
  PROVE  /\ Apply(Unknown, Change("ExternalPlace", q, NoData, NoData)) = Rest(q, NoData)
         /\ Modified(Unknown, Change("ExternalPlace", q, NoData, NoData)) = {q, q}
<1> DEFINE c == Change("ExternalPlace", q, NoData, NoData)
           b == Unknown
<1>1. c.op = "ExternalPlace" /\ c.pl = q /\ c.tr = NoData /\ c.data = NoData
  BY DEF Change
<1> HIDE DEF c
<1>2. Accepts(b, c)
  BY <1>1 DEF Accepts, TakenFrom, LeavesFiring, AtPlace, AtTransition, Unknown
<1>3. Effect(b, c) = Rest(q, NoData)
  BY <1>1 DEF Effect, TakenFrom, AtPlace, AtTransition, Rest, Held, Unknown
<1>4. Modified(b, c) = {q, q}
  BY <1>1 DEF Modified, Unknown
<1> QED
  BY <1>2, <1>3, <1>4 DEF Apply, c, Unknown

\* A token at rest is put somewhere else.
LEMMA PlaceRest ==
  ASSUME NEW p \in Known, NEW q \in Known, NEW d
  PROVE  /\ Apply(Rest(p, d), Change("ExternalPlace", q, NoData, NoData)) = Rest(q, d)
         /\ Modified(Rest(p, d), Change("ExternalPlace", q, NoData, NoData)) = {q, p}
<1> DEFINE c == Change("ExternalPlace", q, NoData, NoData)
           b == Rest(p, d)
<1>1. c.op = "ExternalPlace" /\ c.pl = q /\ c.tr = NoData /\ c.data = NoData
  BY DEF Change
<1> HIDE DEF c
<1>2. Accepts(b, c)
  BY <1>1 DEF Accepts, TakenFrom, LeavesFiring, AtPlace, AtTransition, Rest
<1>3. Effect(b, c) = Rest(q, d)
  BY <1>1 DEF Effect, TakenFrom, AtPlace, AtTransition, Rest, Held, Unknown
<1>4. Modified(b, c) = {q, p}
  BY <1>1 DEF Modified, Rest
<1> QED
  BY <1>2, <1>3, <1>4 DEF Apply, c, Rest

\* A token at rest gets new data.
LEMMA UpdateRest ==
  ASSUME NEW p, NEW d, NEW d2
  PROVE  /\ Apply(Rest(p, d), Change("ExternalUpdate", NoData, NoData, d2)) = Rest(p, d2)
         /\ Modified(Rest(p, d), Change("ExternalUpdate", NoData, NoData, d2)) = {p}
<1> DEFINE c == Change("ExternalUpdate", NoData, NoData, d2)
           b == Rest(p, d)
<1>1. c.op = "ExternalUpdate" /\ c.pl = NoData /\ c.tr = NoData /\ c.data = d2
  BY DEF Change
<1> HIDE DEF c
<1>2. Accepts(b, c)
  BY <1>1 DEF Accepts, TakenFrom, LeavesFiring, AtPlace, AtTransition, Rest
<1>3. Effect(b, c) = Rest(p, d2)
  BY <1>1 DEF Effect, TakenFrom, AtPlace, AtTransition, Rest, Held, Unknown
<1>4. Modified(b, c) = {p}
  BY <1>1 DEF Modified, Rest
<1> QED
  BY <1>2, <1>3, <1>4 DEF Apply, c, Rest

\* A token at rest is removed.
LEMMA DeleteRest ==
  ASSUME NEW p \in Known, NEW d
  PROVE  /\ Apply(Rest(p, d), Change("ExternalDelete", p, NoData, NoData)) = Unknown
         /\ Modified(Rest(p, d), Change("ExternalDelete", p, NoData, NoData)) = {p}
<1> DEFINE c == Change("ExternalDelete", p, NoData, NoData)
           b == Rest(p, d)
<1>1. c.op = "ExternalDelete" /\ c.pl = p /\ c.tr = NoData /\ c.data = NoData
  BY DEF Change
<1> HIDE DEF c
<1>2. Accepts(b, c)
  BY <1>1 DEF Accepts, TakenFrom, LeavesFiring, AtPlace, AtTransition, Rest
<1>3. Effect(b, c) = Unknown
  BY <1>1 DEF Effect, TakenFrom, AtPlace, AtTransition, Rest, Held, Unknown
<1>4. Modified(b, c) = {p}
  BY <1>1 DEF Modified, Rest
<1> QED
  BY <1>2, <1>3, <1>4 DEF Apply, c, Rest

(***************************************************************************)
(* One revision, as the local net follows it, for each thing that can      *)
(* happen to a token at places of the region.                              *)
(***************************************************************************)

\* How the record of a token that View shows looks.
LEMMA Shown ==
  ASSUME NEW p, NEW d, NEW tr
  PROVE  /\ Rest(p, d).last = p /\ Held(p, d, tr).last = p /\ ~Unknown.exists
         /\ ~Rest(p, d).err /\ ~Held(p, d, tr).err /\ ~Unknown.err
BY DEF Rest, Held, Unknown

\* From here on, for each of the cases above: the changes lead from what the
\* net shows before the revision to what it has to show after it, and the
\* places they report are those where it looks different.
LEMMA FollowsNothing ==
  ASSUME NEW b, NEW evs, NEW t, None(evs, t, Kinds)
  PROVE  Follows(b, evs, b, t)
BY ChangesNone, ApplyNone DEF Follows

LEMMA FollowsTake ==
  ASSUME NEW evs, NEW t, NEW p \in Known, NEW d, NEW tr,
         One(evs, t, Event("taken", t, p, tr)),
         None(evs, t, Kinds \ {"taken"})
  PROVE  Follows(Rest(p, d), evs, Held(p, d, tr), t)
<1> DEFINE c == Change("Take", p, tr, NoData)
<1>1. Changes(evs, t) = <<c>>
  BY ChangesTaken
<1>2. c.op # "Error"
  BY DEF Change
<1>3. Apply(Rest(p, d), c) = Held(p, d, tr) /\ Modified(Rest(p, d), c) = {p}
  BY TakeRest
<1> HIDE DEF c
<1>4. Observe(Rest(p, d), evs, t) = Held(p, d, tr) /\ Notified(Rest(p, d), evs, t) = {p}
  BY <1>1, <1>3, <1>2, ApplyOne
<1> QED
  BY <1>4, Shown DEF Follows

LEMMA FollowsReturn ==
  ASSUME NEW evs, NEW t, NEW p \in Known, NEW d, NEW tr, NEW d2,
         One(evs, t, Event("released", t, p, tr)),
         One(evs, t, Event("updated", t, p, d2)),
         None(evs, t, Kinds \ {"released", "updated"})
  PROVE  Follows(Held(p, d, tr), evs, Rest(p, d2), t)
<1> DEFINE c == Change("Update", NoData, tr, d2)
           e == Change("Place", p, tr, NoData)
<1>1. Changes(evs, t) = <<c, e>>
  BY ChangesReturned
<1>2. Apply(Held(p, d, tr), c) = Held(p, d2, tr) /\ Modified(Held(p, d, tr), c) = {p}
  BY UpdateHeld
<1>3. Apply(Held(p, d2, tr), e) = Rest(p, d2) /\ Modified(Held(p, d2, tr), e) = {p, p}
  BY PlaceHeld
<1> HIDE DEF c, e
<1>4. /\ Observe(Held(p, d, tr), evs, t) = Rest(p, d2)
      /\ Notified(Held(p, d, tr), evs, t) = {p} \cup {p, p}
  BY <1>1, <1>2, <1>3, ApplyTwo
<1> QED
  BY <1>4, Shown DEF Follows

LEMMA FollowsConsume ==
  ASSUME NEW evs, NEW t, NEW p \in Known, NEW d, NEW tr,
         One(evs, t, Event("released", t, p, tr)),
         One(evs, t, Event("destroyed", t, p, d)),
         None(evs, t, Kinds \ {"released", "destroyed"})
  PROVE  Follows(Held(p, d, tr), evs, Unknown, t)
<1> DEFINE c == Change("Delete", p, tr, NoData)
<1>1. Changes(evs, t) = <<c>>
  BY ChangesConsumed
<1>2. c.op # "Error"
  BY DEF Change
<1>3. Apply(Held(p, d, tr), c) = Unknown /\ Modified(Held(p, d, tr), c) = {p}
  BY DeleteHeld
<1> HIDE DEF c
<1>4. Observe(Held(p, d, tr), evs, t) = Unknown /\ Notified(Held(p, d, tr), evs, t) = {p}
  BY <1>1, <1>3, <1>2, ApplyOne
<1> QED
  BY <1>4, Shown DEF Follows

LEMMA FollowsNew ==
  ASSUME NEW evs, NEW t, NEW q \in Known, NEW d2,
         One(evs, t, Event("created", t, q, d2)),
         None(evs, t, Kinds \ {"created"})
  PROVE  Follows(Unknown, evs, Rest(q, d2), t)
<1> DEFINE c == Change("ExternalPlace", q, NoData, NoData)
           e == Change("ExternalUpdate", NoData, NoData, d2)
<1>1. Changes(evs, t) = <<c, e>>
  BY ChangesCreated
<1>2. Apply(Unknown, c) = Rest(q, NoData) /\ Modified(Unknown, c) = {q, q}
  BY PlaceUnknown
<1>3. Apply(Rest(q, NoData), e) = Rest(q, d2) /\ Modified(Rest(q, NoData), e) = {q}
  BY UpdateRest
<1> HIDE DEF c, e
<1>4. Observe(Unknown, evs, t) = Rest(q, d2) /\ Notified(Unknown, evs, t) = {q, q} \cup {q}
  BY <1>1, <1>2, <1>3, ApplyTwo
<1> QED
  BY <1>4, Shown DEF Follows

LEMMA FollowsUpdate ==
  ASSUME NEW evs, NEW t, NEW p \in Known, NEW d, NEW d2,
         One(evs, t, Event("updated", t, p, d2)),
         None(evs, t, Kinds \ {"updated"})
  PROVE  Follows(Rest(p, d), evs, Rest(p, d2), t)
<1> DEFINE c == Change("ExternalUpdate", NoData, NoData, d2)
<1>1. Changes(evs, t) = <<c>>
  BY ChangesUpdated
<1>2. c.op # "Error"
  BY DEF Change
<1>3. Apply(Rest(p, d), c) = Rest(p, d2) /\ Modified(Rest(p, d), c) = {p}
  BY UpdateRest
<1> HIDE DEF c
<1>4. Observe(Rest(p, d), evs, t) = Rest(p, d2) /\ Notified(Rest(p, d), evs, t) = {p}
  BY <1>1, <1>3, <1>2, ApplyOne
<1> QED
  BY <1>4, Shown DEF Follows

LEMMA FollowsRemove ==
  ASSUME NEW evs, NEW t, NEW p \in Known, NEW d,
         One(evs, t, Event("destroyed", t, p, d)),
         None(evs, t, Kinds \ {"destroyed"})
  PROVE  Follows(Rest(p, d), evs, Unknown, t)
<1> DEFINE c == Change("ExternalDelete", p, NoData, NoData)
<1>1. Changes(evs, t) = <<c>>
  BY ChangesRemoved
<1>2. c.op # "Error"
  BY DEF Change
<1>3. Apply(Rest(p, d), c) = Unknown /\ Modified(Rest(p, d), c) = {p}
  BY DeleteRest
<1> HIDE DEF c
<1>4. Observe(Rest(p, d), evs, t) = Unknown /\ Notified(Rest(p, d), evs, t) = {p}
  BY <1>1, <1>3, <1>2, ApplyOne
<1> QED
  BY <1>4, Shown DEF Follows

LEMMA FollowsLoad ==
  ASSUME NEW evs, NEW t, NEW p \in Known, NEW d, NEW tr,
         One(evs, t, Event("taken", t, p, tr)),
         One(evs, t, Event("created", t, p, d)),
         None(evs, t, Kinds \ {"taken", "created"})
  PROVE  Follows(Unknown, evs, Held(p, d, tr), t)
<1> DEFINE c == Change("ExternalPlace", p, NoData, NoData)
           e == Change("ExternalUpdate", NoData, NoData, d)
           f == Change("Take", p, tr, NoData)
<1>1. Changes(evs, t) = <<c, e, f>>
  BY ChangesLoaded
<1>2. Apply(Unknown, c) = Rest(p, NoData) /\ Modified(Unknown, c) = {p, p}
  BY PlaceUnknown
<1>3. Apply(Rest(p, NoData), e) = Rest(p, d) /\ Modified(Rest(p, NoData), e) = {p}
  BY UpdateRest
<1>4. Apply(Rest(p, d), f) = Held(p, d, tr) /\ Modified(Rest(p, d), f) = {p}
  BY TakeRest
<1> HIDE DEF c, e, f
<1>5. /\ Observe(Unknown, evs, t) = Held(p, d, tr)
      /\ Notified(Unknown, evs, t) = {p, p} \cup {p} \cup {p}
  BY <1>1, <1>2, <1>3, <1>4, ApplyThree
<1> QED
  BY <1>5, Shown DEF Follows

LEMMA FollowsMove ==
  ASSUME NEW evs, NEW t, NEW p \in Known, NEW d, NEW tr, NEW q \in Known, NEW d2,
         One(evs, t, Event("released", t, p, tr)),
         One(evs, t, Event("destroyed", t, p, d)),
         One(evs, t, Event("created", t, q, d2)),
         None(evs, t, Kinds \ {"released", "destroyed", "created"})
  PROVE  Follows(Held(p, d, tr), evs, Rest(q, d2), t)
<1>1. CASE d2 = d
  <2> DEFINE c == Change("Place", q, tr, NoData)
  <2>1. Changes(evs, t) = <<c>>
    BY <1>1, ChangesMoved
  <2>2. c.op # "Error"
    BY DEF Change
  <2>3. Apply(Held(p, d, tr), c) = Rest(q, d) /\ Modified(Held(p, d, tr), c) = {q, p}
    BY PlaceHeld
  <2> HIDE DEF c
  <2>4. Observe(Held(p, d, tr), evs, t) = Rest(q, d) /\ Notified(Held(p, d, tr), evs, t) = {q, p}
    BY <2>1, <2>3, <2>2, ApplyOne
  <2> QED
    BY <1>1, <2>4, Shown DEF Follows
<1>2. CASE d2 # d
  <2> DEFINE c == Change("Update", NoData, tr, d2)
             e == Change("Place", q, tr, NoData)
  <2>1. Changes(evs, t) = <<c, e>>
    BY <1>2, ChangesMoved
  <2>2. Apply(Held(p, d, tr), c) = Held(p, d2, tr) /\ Modified(Held(p, d, tr), c) = {p}
    BY UpdateHeld
  <2>3. Apply(Held(p, d2, tr), e) = Rest(q, d2) /\ Modified(Held(p, d2, tr), e) = {q, p}
    BY PlaceHeld
  <2> HIDE DEF c, e
  <2>4. /\ Observe(Held(p, d, tr), evs, t) = Rest(q, d2)
        /\ Notified(Held(p, d, tr), evs, t) = {p} \cup {q, p}
    BY <2>1, <2>2, <2>3, ApplyTwo
  <2> QED
    BY <2>4, Shown DEF Follows
<1> QED
  BY <1>1, <1>2

LEMMA FollowsCarry ==
  ASSUME NEW evs, NEW t, NEW p \in Known, NEW d, NEW q \in Known, NEW d2,
         One(evs, t, Event("destroyed", t, p, d)),
         One(evs, t, Event("created", t, q, d2)),
         None(evs, t, Kinds \ {"destroyed", "created"})
  PROVE  Follows(Rest(p, d), evs, Rest(q, d2), t)
<1>1. CASE d2 = d
  <2> DEFINE c == Change("ExternalPlace", q, NoData, NoData)
  <2>1. Changes(evs, t) = <<c>>
    BY <1>1, ChangesCarried
  <2>2. c.op # "Error"
    BY DEF Change
  <2>3. Apply(Rest(p, d), c) = Rest(q, d) /\ Modified(Rest(p, d), c) = {q, p}
    BY PlaceRest
  <2> HIDE DEF c
  <2>4. Observe(Rest(p, d), evs, t) = Rest(q, d) /\ Notified(Rest(p, d), evs, t) = {q, p}
    BY <2>1, <2>3, <2>2, ApplyOne
  <2> QED
    BY <1>1, <2>4, Shown DEF Follows
<1>2. CASE d2 # d
  <2> DEFINE c == Change("ExternalPlace", q, NoData, NoData)
             e == Change("ExternalUpdate", NoData, NoData, d2)
  <2>1. Changes(evs, t) = <<c, e>>
    BY <1>2, ChangesCarried
  <2>2. Apply(Rest(p, d), c) = Rest(q, d) /\ Modified(Rest(p, d), c) = {q, p}
    BY PlaceRest
  <2>3. Apply(Rest(q, d), e) = Rest(q, d2) /\ Modified(Rest(q, d), e) = {q}
    BY UpdateRest
  <2> HIDE DEF c, e
  <2>4. Observe(Rest(p, d), evs, t) = Rest(q, d2) /\ Notified(Rest(p, d), evs, t) = {q, p} \cup {q}
    BY <2>1, <2>2, <2>3, ApplyTwo
  <2> QED
    BY <2>4, Shown DEF Follows
<1> QED
  BY <1>1, <1>2

(***************************************************************************)
(* What a transaction does to one token.                                   *)
(***************************************************************************)

\* The keys in s say that there is no token t; that it is at p, with the data
\* d; that tr has taken it from there.
Absent(s, t) == TokenKeysOf(s, t) = {} /\ TakenKeysOf(s, t) = {}
Resting(s, t, p, d) == TokenKeysOf(s, t) = {<<t, p, d>>} /\ TakenKeysOf(s, t) = {}
Booked(s, t, p, d, tr) ==
  TokenKeysOf(s, t) = {<<t, p, d>>} /\ TakenKeysOf(s, t) = {<<t, p, tr>>}

Of(keys, t) == {k \in keys : k[1] = t}

\* A transaction, and the parts of it that are about one token: of what it
\* deletes, the part that meets a key.
Parts(tx, t, gone, releases, puts, taking) ==
  /\ \A k \in TokenKeysOf(Now, t) \cup TakenKeysOf(Now, t) :
       <<t, k[2]>> \in Of(tx[1], t) <=> <<t, k[2]>> \in gone
  /\ \A k \in TakenKeysOf(Now, t) : k \in Of(tx[2], t) <=> k \in releases
  /\ Of(tx[3], t) = puts /\ Of(tx[4], t) = taking
EventsOf(tx) == Events(tx[1], tx[2], tx[3], tx[4])
AfterOf(tx) == After(tx[1], tx[2], tx[3], tx[4])

\* Events of one kind for the keys at places of the region.
Reports(kind, t, keys) == {Event(kind, t, k[2], k[3]) : k \in {x \in keys : x[2] \in Known}}

\* Events of one kind for a token, from the keys the transaction touches.
LEMMA ReportsNone ==
  ASSUME NEW kind, NEW t
  PROVE  Reports(kind, t, {}) = {}
BY DEF Reports

LEMMA ReportsKey ==
  ASSUME NEW kind, NEW t, NEW p, NEW v
  PROVE  /\ p \in Known => Reports(kind, t, {<<t, p, v>>}) = {Event(kind, t, p, v)}
         /\ p \notin Known => Reports(kind, t, {<<t, p, v>>}) = {}
<1> DEFINE K == {x \in {<<t, p, v>>} : x[2] \in Known}
<1>1. <<t, p, v>>[2] = p /\ <<t, p, v>>[3] = v
  OBVIOUS
<1>2. K = IF p \in Known THEN {<<t, p, v>>} ELSE {}
  BY <1>1
<1>3. Reports(kind, t, {<<t, p, v>>}) = {Event(kind, t, k[2], k[3]) : k \in K}
  BY DEF Reports
<1> HIDE DEF K
<1> QED
  BY <1>1, <1>2, <1>3

\* The keys at the places that are deleted, or deleted one by one; those that
\* are neither deleted nor overwritten; those that are put where there was no
\* key, and where there was one.
Hit(keys, t, gone, releases) == {k \in keys : <<t, k[2]>> \in gone \/ k \in releases}
Left(keys, t, gone, releases, puts) ==
  {k \in keys : /\ <<t, k[2]>> \notin gone /\ k \notin releases
                /\ \A x \in puts : x[2] # k[2]}
Fresh(puts, t) == {k \in puts : ~TokenAt(t, k[2])}
Stale(puts, t) == {k \in puts : TokenAt(t, k[2])}

\* What is reported of t, from the keys it has, and from those a transaction
\* deletes, releases, puts and takes.
Reporting(evs, t, keys, taken, gone, releases, puts, taking) ==
  /\ Relevant(evs, t, "destroyed") = Reports("destroyed", t, Hit(keys, t, gone, {}))
  /\ Relevant(evs, t, "released") = Reports("released", t, Hit(taken, t, gone, releases))
  /\ Relevant(evs, t, "created") = Reports("created", t, Fresh(puts, t))
  /\ Relevant(evs, t, "updated") = Reports("updated", t, Stale(puts, t))
  /\ Relevant(evs, t, "taken") = Reports("taken", t, taking)

\* What the watch reports of a token, from the parts that are about it.
LEMMA RelevantOf ==
  ASSUME NEW tx, NEW t
  PROVE  Reporting(EventsOf(tx), t, TokenKeysOf(Now, t), TakenKeysOf(Now, t),
                   Of(tx[1], t), Of(tx[2], t), Of(tx[3], t), Of(tx[4], t))
<1> DEFINE evs == EventsOf(tx)
           gone == Of(tx[1], t)    releases == Of(tx[2], t)
           puts == Of(tx[3], t)    taking == Of(tx[4], t)
           put(k) == IF TokenAt(k[1], k[2]) THEN "updated" ELSE "created"
<1>1. gone = Of(tx[1], t) /\ releases = Of(tx[2], t) /\ puts = Of(tx[3], t) /\ taking = Of(tx[4], t)
  OBVIOUS
<1>2. \A e : e \in evs <=>
        \/ \E k \in tokenKeys : <<k[1], k[2]>> \in tx[1] /\ e = Event("destroyed", k[1], k[2], k[3])
        \/ \E k \in takenKeys : /\ <<k[1], k[2]>> \in tx[1] \/ k \in tx[2]
                               /\ e = Event("released", k[1], k[2], k[3])
        \/ \E k \in tx[3] : e = Event(put(k), k[1], k[2], k[3])
        \/ \E k \in tx[4] : e = Event("taken", k[1], k[2], k[3])
  BY DEF EventsOf, Events
<1> HIDE DEF evs, gone, releases, puts, taking
<1>3. \A kind, e : e \in Relevant(evs, t, kind) <=>
        e \in evs /\ e.to = t /\ e.kind = kind /\ e.pl \in Known
  BY DEF Relevant
<1>4. \A kind, keys, e : e \in Reports(kind, t, keys) <=>
        \E k \in keys : k[2] \in Known /\ e = Event(kind, t, k[2], k[3])
  BY DEF Reports
<1>5. \A k : put(k) \in {"updated", "created"} /\ (put(k) = "updated" <=> TokenAt(k[1], k[2]))
  OBVIOUS
<1> HIDE DEF put
<1>6. \A kind, x, y, z : /\ Event(kind, x, y, z).to = x
                         /\ Event(kind, x, y, z).kind = kind
                         /\ Event(kind, x, y, z).pl = y
  BY DEF Event
<1>7. Relevant(evs, t, "destroyed") = Reports("destroyed", t, Hit(TokenKeysOf(Now, t), t, gone, {}))
  <2> DEFINE K == Hit(TokenKeysOf(Now, t), t, gone, {})
  <2>1. ASSUME NEW e \in Relevant(evs, t, "destroyed") PROVE e \in Reports("destroyed", t, K)
    <3>1. e \in evs /\ e.to = t /\ e.kind = "destroyed" /\ e.pl \in Known
      BY <1>3
    <3>2. PICK k \in tokenKeys :
            <<k[1], k[2]>> \in tx[1] /\ e = Event("destroyed", k[1], k[2], k[3])
      <4>1. ASSUME NEW k \in takenKeys, e = Event("released", k[1], k[2], k[3]) PROVE FALSE
        BY <1>6, <3>1, <4>1
      <4>2. ASSUME NEW k \in tx[3], e = Event(put(k), k[1], k[2], k[3]) PROVE FALSE
        BY <1>5, <1>6, <3>1, <4>2
      <4>3. ASSUME NEW k \in tx[4], e = Event("taken", k[1], k[2], k[3]) PROVE FALSE
        BY <1>6, <3>1, <4>3
      <4> QED
        BY <1>2, <3>1, <4>1, <4>2, <4>3
    <3>3. k[1] = t /\ k[2] \in Known
      BY <1>6, <3>1, <3>2
    <3>4. k \in K
      BY <1>1, <1>5, <3>2, <3>3 DEF Of, TokenKeysOf, TakenKeysOf, Now, Hit, Fresh, Stale
    <3> QED
      BY <1>4, <3>2, <3>3, <3>4
  <2>2. ASSUME NEW e \in Reports("destroyed", t, K) PROVE e \in Relevant(evs, t, "destroyed")
    <3>1. PICK k \in K : k[2] \in Known /\ e = Event("destroyed", t, k[2], k[3])
      BY <1>4
    <3>2. k[1] = t
      BY <1>1 DEF Of, TokenKeysOf, TakenKeysOf, Hit, Fresh, Stale
    <3>3. e.to = t /\ e.kind = "destroyed" /\ e.pl = k[2]
      BY <3>1 DEF Event
    <3>4. e \in evs
      BY <1>1, <1>2, <1>5, <3>1, <3>2 DEF Of, TokenKeysOf, TakenKeysOf, Now, Hit, Fresh, Stale
    <3> QED
      BY <1>3, <3>1, <3>3, <3>4
  <2> QED
    BY <2>1, <2>2
<1>8. Relevant(evs, t, "released") =
        Reports("released", t, Hit(TakenKeysOf(Now, t), t, gone, releases))
  <2> DEFINE K == Hit(TakenKeysOf(Now, t), t, gone, releases)
  <2>1. ASSUME NEW e \in Relevant(evs, t, "released") PROVE e \in Reports("released", t, K)
    <3>1. e \in evs /\ e.to = t /\ e.kind = "released" /\ e.pl \in Known
      BY <1>3
    <3>2. PICK k \in takenKeys :
            (<<k[1], k[2]>> \in tx[1] \/ k \in tx[2]) /\ e = Event("released", k[1], k[2], k[3])
      <4>1. ASSUME NEW k \in tokenKeys, e = Event("destroyed", k[1], k[2], k[3]) PROVE FALSE
        BY <1>6, <3>1, <4>1
      <4>2. ASSUME NEW k \in tx[3], e = Event(put(k), k[1], k[2], k[3]) PROVE FALSE
        BY <1>5, <1>6, <3>1, <4>2
      <4>3. ASSUME NEW k \in tx[4], e = Event("taken", k[1], k[2], k[3]) PROVE FALSE
        BY <1>6, <3>1, <4>3
      <4> QED
        BY <1>2, <3>1, <4>1, <4>2, <4>3
    <3>3. k[1] = t /\ k[2] \in Known
      BY <1>6, <3>1, <3>2
    <3>4. k \in K
      BY <1>1, <1>5, <3>2, <3>3 DEF Of, TokenKeysOf, TakenKeysOf, Now, Hit, Fresh, Stale
    <3> QED
      BY <1>4, <3>2, <3>3, <3>4
  <2>2. ASSUME NEW e \in Reports("released", t, K) PROVE e \in Relevant(evs, t, "released")
    <3>1. PICK k \in K : k[2] \in Known /\ e = Event("released", t, k[2], k[3])
      BY <1>4
    <3>2. k[1] = t
      BY <1>1 DEF Of, TokenKeysOf, TakenKeysOf, Hit, Fresh, Stale
    <3>3. e.to = t /\ e.kind = "released" /\ e.pl = k[2]
      BY <3>1 DEF Event
    <3>4. e \in evs
      BY <1>1, <1>2, <1>5, <3>1, <3>2 DEF Of, TokenKeysOf, TakenKeysOf, Now, Hit, Fresh, Stale
    <3> QED
      BY <1>3, <3>1, <3>3, <3>4
  <2> QED
    BY <2>1, <2>2
<1>9. Relevant(evs, t, "created") = Reports("created", t, Fresh(puts, t))
  <2> DEFINE K == Fresh(puts, t)
  <2>1. ASSUME NEW e \in Relevant(evs, t, "created") PROVE e \in Reports("created", t, K)
    <3>1. e \in evs /\ e.to = t /\ e.kind = "created" /\ e.pl \in Known
      BY <1>3
    <3>2. PICK k \in tx[3] : put(k) = "created" /\ e = Event("created", k[1], k[2], k[3])
      <4>1. ASSUME NEW k \in tokenKeys, e = Event("destroyed", k[1], k[2], k[3]) PROVE FALSE
        BY <1>6, <3>1, <4>1
      <4>2. ASSUME NEW k \in takenKeys, e = Event("released", k[1], k[2], k[3]) PROVE FALSE
        BY <1>6, <3>1, <4>2
      <4>3. ASSUME NEW k \in tx[3], e = Event(put(k), k[1], k[2], k[3]) PROVE put(k) = "created"
        BY <1>5, <1>6, <3>1, <4>3
      <4>4. ASSUME NEW k \in tx[4], e = Event("taken", k[1], k[2], k[3]) PROVE FALSE
        BY <1>6, <3>1, <4>4
      <4> QED
        BY <1>2, <3>1, <4>1, <4>2, <4>3, <4>4
    <3>3. k[1] = t /\ k[2] \in Known
      BY <1>6, <3>1, <3>2
    <3>4. k \in K
      BY <1>1, <1>5, <3>2, <3>3 DEF Of, TokenKeysOf, TakenKeysOf, Now, Hit, Fresh, Stale
    <3> QED
      BY <1>4, <3>2, <3>3, <3>4
  <2>2. ASSUME NEW e \in Reports("created", t, K) PROVE e \in Relevant(evs, t, "created")
    <3>1. PICK k \in K : k[2] \in Known /\ e = Event("created", t, k[2], k[3])
      BY <1>4
    <3>2. k[1] = t
      BY <1>1 DEF Of, TokenKeysOf, TakenKeysOf, Hit, Fresh, Stale
    <3>3. e.to = t /\ e.kind = "created" /\ e.pl = k[2]
      BY <3>1 DEF Event
    <3>4. e \in evs
      BY <1>1, <1>2, <1>5, <3>1, <3>2 DEF Of, TokenKeysOf, TakenKeysOf, Now, Hit, Fresh, Stale
    <3> QED
      BY <1>3, <3>1, <3>3, <3>4
  <2> QED
    BY <2>1, <2>2
<1>10. Relevant(evs, t, "updated") = Reports("updated", t, Stale(puts, t))
  <2> DEFINE K == Stale(puts, t)
  <2>1. ASSUME NEW e \in Relevant(evs, t, "updated") PROVE e \in Reports("updated", t, K)
    <3>1. e \in evs /\ e.to = t /\ e.kind = "updated" /\ e.pl \in Known
      BY <1>3
    <3>2. PICK k \in tx[3] : put(k) = "updated" /\ e = Event("updated", k[1], k[2], k[3])
      <4>1. ASSUME NEW k \in tokenKeys, e = Event("destroyed", k[1], k[2], k[3]) PROVE FALSE
        BY <1>6, <3>1, <4>1
      <4>2. ASSUME NEW k \in takenKeys, e = Event("released", k[1], k[2], k[3]) PROVE FALSE
        BY <1>6, <3>1, <4>2
      <4>3. ASSUME NEW k \in tx[3], e = Event(put(k), k[1], k[2], k[3]) PROVE put(k) = "updated"
        BY <1>5, <1>6, <3>1, <4>3
      <4>4. ASSUME NEW k \in tx[4], e = Event("taken", k[1], k[2], k[3]) PROVE FALSE
        BY <1>6, <3>1, <4>4
      <4> QED
        BY <1>2, <3>1, <4>1, <4>2, <4>3, <4>4
    <3>3. k[1] = t /\ k[2] \in Known
      BY <1>6, <3>1, <3>2
    <3>4. k \in K
      BY <1>1, <1>5, <3>2, <3>3 DEF Of, TokenKeysOf, TakenKeysOf, Now, Hit, Fresh, Stale
    <3> QED
      BY <1>4, <3>2, <3>3, <3>4
  <2>2. ASSUME NEW e \in Reports("updated", t, K) PROVE e \in Relevant(evs, t, "updated")
    <3>1. PICK k \in K : k[2] \in Known /\ e = Event("updated", t, k[2], k[3])
      BY <1>4
    <3>2. k[1] = t
      BY <1>1 DEF Of, TokenKeysOf, TakenKeysOf, Hit, Fresh, Stale
    <3>3. e.to = t /\ e.kind = "updated" /\ e.pl = k[2]
      BY <3>1 DEF Event
    <3>4. e \in evs
      BY <1>1, <1>2, <1>5, <3>1, <3>2 DEF Of, TokenKeysOf, TakenKeysOf, Now, Hit, Fresh, Stale
    <3> QED
      BY <1>3, <3>1, <3>3, <3>4
  <2> QED
    BY <2>1, <2>2
<1>11. Relevant(evs, t, "taken") = Reports("taken", t, taking)
  <2> DEFINE K == taking
  <2>1. ASSUME NEW e \in Relevant(evs, t, "taken") PROVE e \in Reports("taken", t, K)
    <3>1. e \in evs /\ e.to = t /\ e.kind = "taken" /\ e.pl \in Known
      BY <1>3
    <3>2. PICK k \in tx[4] : e = Event("taken", k[1], k[2], k[3])
      <4>1. ASSUME NEW k \in tokenKeys, e = Event("destroyed", k[1], k[2], k[3]) PROVE FALSE
        BY <1>6, <3>1, <4>1
      <4>2. ASSUME NEW k \in takenKeys, e = Event("released", k[1], k[2], k[3]) PROVE FALSE
        BY <1>6, <3>1, <4>2
      <4>3. ASSUME NEW k \in tx[3], e = Event(put(k), k[1], k[2], k[3]) PROVE FALSE
        BY <1>5, <1>6, <3>1, <4>3
      <4> QED
        BY <1>2, <3>1, <4>1, <4>2, <4>3
    <3>3. k[1] = t /\ k[2] \in Known
      BY <1>6, <3>1, <3>2
    <3>4. k \in K
      BY <1>1, <1>5, <3>2, <3>3 DEF Of, TokenKeysOf, TakenKeysOf, Now, Hit, Fresh, Stale
    <3> QED
      BY <1>4, <3>2, <3>3, <3>4
  <2>2. ASSUME NEW e \in Reports("taken", t, K) PROVE e \in Relevant(evs, t, "taken")
    <3>1. PICK k \in K : k[2] \in Known /\ e = Event("taken", t, k[2], k[3])
      BY <1>4
    <3>2. k[1] = t
      BY <1>1 DEF Of, TokenKeysOf, TakenKeysOf, Hit, Fresh, Stale
    <3>3. e.to = t /\ e.kind = "taken" /\ e.pl = k[2]
      BY <3>1 DEF Event
    <3>4. e \in evs
      BY <1>1, <1>2, <1>5, <3>1, <3>2 DEF Of, TokenKeysOf, TakenKeysOf, Now, Hit, Fresh, Stale
    <3> QED
      BY <1>3, <3>1, <3>3, <3>4
  <2> QED
    BY <2>1, <2>2
<1> QED
  BY <1>7, <1>8, <1>9, <1>10, <1>11 DEF evs, gone, releases, puts, taking, Reporting

\* The keys that are left of a token.
LEMMA KeysAfter ==
  ASSUME NEW tx, NEW t
  PROVE  /\ TokenKeysOf(AfterOf(tx), t)
               = Left(TokenKeysOf(Now, t), t, Of(tx[1], t), {}, Of(tx[3], t)) \cup Of(tx[3], t)
         /\ TakenKeysOf(AfterOf(tx), t)
               = Left(TakenKeysOf(Now, t), t, Of(tx[1], t), Of(tx[2], t), {}) \cup Of(tx[4], t)
BY DEF AfterOf, After, Of, TokenKeysOf, TakenKeysOf, Now, Left

\* Both from the parts of the transaction.
LEMMA PartsReport ==
  ASSUME NEW tx, NEW t, NEW gone, NEW releases, NEW puts, NEW taking,
         Parts(tx, t, gone, releases, puts, taking)
  PROVE  Reporting(EventsOf(tx), t, TokenKeysOf(Now, t), TakenKeysOf(Now, t),
                   gone, releases, puts, taking)
<1>1. /\ Hit(TokenKeysOf(Now, t), t, Of(tx[1], t), {}) = Hit(TokenKeysOf(Now, t), t, gone, {})
      /\ Hit(TakenKeysOf(Now, t), t, Of(tx[1], t), Of(tx[2], t))
            = Hit(TakenKeysOf(Now, t), t, gone, releases)
  BY DEF Parts, Hit
<1>2. Of(tx[3], t) = puts /\ Of(tx[4], t) = taking
  BY DEF Parts
<1>3. Reporting(EventsOf(tx), t, TokenKeysOf(Now, t), TakenKeysOf(Now, t),
                Of(tx[1], t), Of(tx[2], t), Of(tx[3], t), Of(tx[4], t))
  BY RelevantOf
<1> QED
  BY <1>1, <1>2, <1>3 DEF Reporting

LEMMA PartsTokens ==
  ASSUME NEW tx, NEW t, NEW gone, NEW releases, NEW puts, NEW taking,
         Parts(tx, t, gone, releases, puts, taking)
  PROVE  TokenKeysOf(AfterOf(tx), t) = Left(TokenKeysOf(Now, t), t, gone, {}, puts) \cup puts
<1>1. Left(TokenKeysOf(Now, t), t, Of(tx[1], t), {}, Of(tx[3], t))
        = Left(TokenKeysOf(Now, t), t, gone, {}, puts)
  BY DEF Parts, Left
<1>2. Of(tx[3], t) = puts
  BY DEF Parts
<1> QED
  BY <1>1, <1>2, KeysAfter

LEMMA PartsTaken ==
  ASSUME NEW tx, NEW t, NEW gone, NEW releases, NEW puts, NEW taking,
         Parts(tx, t, gone, releases, puts, taking)
  PROVE  TakenKeysOf(AfterOf(tx), t)
           = Left(TakenKeysOf(Now, t), t, gone, releases, {}) \cup taking
<1>1. Left(TakenKeysOf(Now, t), t, Of(tx[1], t), Of(tx[2], t), {})
        = Left(TakenKeysOf(Now, t), t, gone, releases, {})
  BY DEF Parts, Left
<1>2. Of(tx[4], t) = taking
  BY DEF Parts
<1> QED
  BY <1>1, <1>2, KeysAfter

\* Where a token is, by its keys.
LEMMA KeptAt ==
  ASSUME StoreTypes, NEW t
  PROVE  /\ TokenKeysOf(Now, t) = {} => \A q : ~TokenAt(t, q)
         /\ \A p, d : TokenKeysOf(Now, t) = {<<t, p, d>>} => \A q : TokenAt(t, q) <=> q = p
<1>1. \A q, d : <<t, q, d>> \in tokenKeys <=> <<t, q, d>> \in TokenKeysOf(Now, t)
  BY DEF TokenKeysOf, Now
<1>2. \A k \in TokenKeysOf(Now, t) : k \in TokenKey
  BY DEF TokenKeysOf, Now, StoreTypes
<1>3. ASSUME NEW p, NEW d, TokenKeysOf(Now, t) = {<<t, p, d>>}, NEW q
      PROVE  TokenAt(t, q) <=> q = p
  <2>1. d \in Data
    BY <1>2, <1>3 DEF TokenKey
  <2> QED
    BY <1>1, <1>3, <2>1 DEF TokenAt
<1>4. TokenKeysOf(Now, t) = {} => \A q : ~TokenAt(t, q)
  BY <1>1 DEF TokenAt
<1> QED
  BY <1>3, <1>4

\* The local net follows the transaction as far as the token is concerned.
Tracked(tx, t) == Follows(View(Now, t), EventsOf(tx), View(AfterOf(tx), t), t)

\* What a local net shows of a token that is there, or is not.
LEMMA ViewOf ==
  ASSUME NEW s, NEW t
  PROVE  /\ Absent(s, t) => View(s, t) = Unknown
         /\ \A p, d : Resting(s, t, p, d)
              => View(s, t) = IF p \in Known THEN Rest(p, d) ELSE Unknown
         /\ \A p, d, tr : Booked(s, t, p, d, tr)
              => View(s, t) = IF p \in Known THEN Held(p, d, tr) ELSE Unknown
<1>1. Absent(s, t) => View(s, t) = Unknown
  BY ViewOfNothing DEF Absent
<1>2. ASSUME NEW p, NEW d, TokenKeysOf(s, t) = {<<t, p, d>>}, p \notin Known
      PROVE  View(s, t) = Unknown
  <2>1. \A k \in TokenKeysOf(s, t) : k[2] \notin Known
    BY <1>2
  <2> QED
    BY <2>1, ViewOfNothing
<1>3. ASSUME NEW p, NEW d, TokenKeysOf(s, t) = {<<t, p, d>>}, p \in Known
      PROVE  /\ TakenKeysOf(s, t) = {} => View(s, t) = Rest(p, d)
             /\ \A tr : TakenKeysOf(s, t) = {<<t, p, tr>>} => View(s, t) = Held(p, d, tr)
  BY <1>3, ViewOfKey
<1> QED
  BY <1>1, <1>2, <1>3 DEF Resting, Booked

\* A token at rest is taken.
LEMMA TokenTaken ==
  ASSUME StoreTypes, NEW tx, NEW t, NEW p, NEW d, NEW tr,
         Resting(Now, t, p, d), Parts(tx, t, {}, {}, {}, {<<t, p, tr>>})
  PROVE  Booked(AfterOf(tx), t, p, d, tr) /\ Tracked(tx, t)
<1> DEFINE evs == EventsOf(tx)
<1>1. /\ TokenKeysOf(Now, t) = {<<t, p, d>>} /\ TakenKeysOf(Now, t) = {}
  BY DEF Resting
<1>2. \A q : TokenAt(t, q) <=> q = p
  BY <1>1, KeptAt
<1>3. Reporting(evs, t, {<<t, p, d>>}, {}, {}, {}, {}, {<<t, p, tr>>})
  <2>1. Reporting(evs, t, TokenKeysOf(Now, t), TakenKeysOf(Now, t),
                  {}, {}, {}, {<<t, p, tr>>})
    BY PartsReport
  <2> QED
    BY <1>1, <2>1
<1>4. /\ TokenKeysOf(AfterOf(tx), t) = Left({<<t, p, d>>}, t, {}, {}, {}) \cup {}
      /\ TakenKeysOf(AfterOf(tx), t) = Left({}, t, {}, {}, {}) \cup {<<t, p, tr>>}
  <2>1. TokenKeysOf(AfterOf(tx), t)
           = Left(TokenKeysOf(Now, t), t, {}, {}, {}) \cup {}
    BY PartsTokens
  <2>2. TakenKeysOf(AfterOf(tx), t)
           = Left(TakenKeysOf(Now, t), t, {}, {}, {}) \cup {<<t, p, tr>>}
    BY PartsTaken
  <2> QED
    BY <1>1, <2>1, <2>2
<1> HIDE DEF evs
<1>5. /\ Hit({<<t, p, d>>}, t, {}, {}) = {} /\ Hit({}, t, {}, {}) = {}
      /\ Fresh({}, t) = {} /\ Stale({}, t) = {}
  BY <1>2 DEF Hit, Fresh, Stale
<1>6. /\ Relevant(evs, t, "destroyed") = Reports("destroyed", t, {})
      /\ Relevant(evs, t, "released") = Reports("released", t, {})
      /\ Relevant(evs, t, "created") = Reports("created", t, {})
      /\ Relevant(evs, t, "updated") = Reports("updated", t, {})
      /\ Relevant(evs, t, "taken") = Reports("taken", t, {<<t, p, tr>>})
  BY <1>3, <1>5 DEF Reporting
<1>7. Booked(AfterOf(tx), t, p, d, tr)
  BY <1>4 DEF Left, Booked
<1>8. CASE p \in Known
  <2>1. /\ Relevant(evs, t, "destroyed") = {}
        /\ Relevant(evs, t, "released") = {}
        /\ Relevant(evs, t, "created") = {}
        /\ Relevant(evs, t, "updated") = {}
        /\ Relevant(evs, t, "taken") = {Event("taken", t, p, tr)}
    BY <1>6, <1>8, ReportsNone, ReportsKey
  <2>2. /\ One(evs, t, Event("taken", t, p, tr))
        /\ None(evs, t, Kinds \ {"taken"})
    BY <2>1, Fields DEF One, None, Kinds
  <2>3. View(Now, t) = Rest(p, d) /\ View(AfterOf(tx), t) = Held(p, d, tr)
    BY <1>7, <1>8, ViewOf
  <2>4. Follows(Rest(p, d), evs, Held(p, d, tr), t)
    BY <1>8, <2>2, FollowsTake
  <2> QED
    BY <1>7, <2>3, <2>4 DEF Tracked, evs
<1>9. CASE p \notin Known
  <2>1. /\ Relevant(evs, t, "destroyed") = {}
        /\ Relevant(evs, t, "released") = {}
        /\ Relevant(evs, t, "created") = {}
        /\ Relevant(evs, t, "updated") = {}
        /\ Relevant(evs, t, "taken") = {}
    BY <1>6, <1>9, ReportsNone, ReportsKey
  <2>2. /\ None(evs, t, Kinds)
    BY <2>1, Fields DEF One, None, Kinds
  <2>3. View(Now, t) = Unknown /\ View(AfterOf(tx), t) = Unknown
    BY <1>7, <1>9, ViewOf
  <2>4. Follows(Unknown, evs, Unknown, t)
    BY <2>2, FollowsNothing
  <2> QED
    BY <1>7, <2>3, <2>4 DEF Tracked, evs
<1> QED
  BY <1>7, <1>8, <1>9

\* A taken token stays where it was.
LEMMA TokenReturned ==
  ASSUME StoreTypes, NEW tx, NEW t, NEW p, NEW d, NEW tr, NEW d2,
         Booked(Now, t, p, d, tr), Parts(tx, t, {}, {<<t, p, tr>>}, {<<t, p, d2>>}, {})
  PROVE  Resting(AfterOf(tx), t, p, d2) /\ Tracked(tx, t)
<1> DEFINE evs == EventsOf(tx)
<1>1. /\ TokenKeysOf(Now, t) = {<<t, p, d>>} /\ TakenKeysOf(Now, t) = {<<t, p, tr>>}
  BY DEF Booked
<1>2. \A q : TokenAt(t, q) <=> q = p
  BY <1>1, KeptAt
<1>3. Reporting(evs, t, {<<t, p, d>>}, {<<t, p, tr>>}, {}, {<<t, p, tr>>}, {<<t, p, d2>>}, {})
  <2>1. Reporting(evs, t, TokenKeysOf(Now, t), TakenKeysOf(Now, t),
                  {}, {<<t, p, tr>>}, {<<t, p, d2>>}, {})
    BY PartsReport
  <2> QED
    BY <1>1, <2>1
<1>4. /\ TokenKeysOf(AfterOf(tx), t) =
           Left({<<t, p, d>>}, t, {}, {}, {<<t, p, d2>>}) \cup {<<t, p, d2>>}
      /\ TakenKeysOf(AfterOf(tx), t) = Left({<<t, p, tr>>}, t, {}, {<<t, p, tr>>}, {}) \cup {}
  <2>1. TokenKeysOf(AfterOf(tx), t)
           = Left(TokenKeysOf(Now, t), t, {}, {}, {<<t, p, d2>>}) \cup {<<t, p, d2>>}
    BY PartsTokens
  <2>2. TakenKeysOf(AfterOf(tx), t)
           = Left(TakenKeysOf(Now, t), t, {}, {<<t, p, tr>>}, {}) \cup {}
    BY PartsTaken
  <2> QED
    BY <1>1, <2>1, <2>2
<1> HIDE DEF evs
<1>5. /\ Hit({<<t, p, d>>}, t, {}, {}) = {}
      /\ Hit({<<t, p, tr>>}, t, {}, {<<t, p, tr>>}) = {<<t, p, tr>>}
      /\ Fresh({<<t, p, d2>>}, t) = {} /\ Stale({<<t, p, d2>>}, t) = {<<t, p, d2>>}
  BY <1>2 DEF Hit, Fresh, Stale
<1>6. /\ Relevant(evs, t, "destroyed") = Reports("destroyed", t, {})
      /\ Relevant(evs, t, "released") = Reports("released", t, {<<t, p, tr>>})
      /\ Relevant(evs, t, "created") = Reports("created", t, {})
      /\ Relevant(evs, t, "updated") = Reports("updated", t, {<<t, p, d2>>})
      /\ Relevant(evs, t, "taken") = Reports("taken", t, {})
  BY <1>3, <1>5 DEF Reporting
<1>7. Resting(AfterOf(tx), t, p, d2)
  BY <1>4 DEF Left, Resting
<1>8. CASE p \in Known
  <2>1. /\ Relevant(evs, t, "destroyed") = {}
        /\ Relevant(evs, t, "released") = {Event("released", t, p, tr)}
        /\ Relevant(evs, t, "created") = {}
        /\ Relevant(evs, t, "updated") = {Event("updated", t, p, d2)}
        /\ Relevant(evs, t, "taken") = {}
    BY <1>6, <1>8, ReportsNone, ReportsKey
  <2>2. /\ One(evs, t, Event("released", t, p, tr))
        /\ One(evs, t, Event("updated", t, p, d2))
        /\ None(evs, t, Kinds \ {"released", "updated"})
    BY <2>1, Fields DEF One, None, Kinds
  <2>3. View(Now, t) = Held(p, d, tr) /\ View(AfterOf(tx), t) = Rest(p, d2)
    BY <1>7, <1>8, ViewOf
  <2>4. Follows(Held(p, d, tr), evs, Rest(p, d2), t)
    BY <1>8, <2>2, FollowsReturn
  <2> QED
    BY <1>7, <2>3, <2>4 DEF Tracked, evs
<1>9. CASE p \notin Known
  <2>1. /\ Relevant(evs, t, "destroyed") = {}
        /\ Relevant(evs, t, "released") = {}
        /\ Relevant(evs, t, "created") = {}
        /\ Relevant(evs, t, "updated") = {}
        /\ Relevant(evs, t, "taken") = {}
    BY <1>6, <1>9, ReportsNone, ReportsKey
  <2>2. /\ None(evs, t, Kinds)
    BY <2>1, Fields DEF One, None, Kinds
  <2>3. View(Now, t) = Unknown /\ View(AfterOf(tx), t) = Unknown
    BY <1>7, <1>9, ViewOf
  <2>4. Follows(Unknown, evs, Unknown, t)
    BY <2>2, FollowsNothing
  <2> QED
    BY <1>7, <2>3, <2>4 DEF Tracked, evs
<1> QED
  BY <1>7, <1>8, <1>9

\* A taken token is destroyed.
LEMMA TokenConsumed ==
  ASSUME StoreTypes, NEW tx, NEW t, NEW p, NEW d, NEW tr,
         Booked(Now, t, p, d, tr), Parts(tx, t, {<<t, p>>}, {}, {}, {})
  PROVE  Absent(AfterOf(tx), t) /\ Tracked(tx, t)
<1> DEFINE evs == EventsOf(tx)
<1>1. /\ TokenKeysOf(Now, t) = {<<t, p, d>>} /\ TakenKeysOf(Now, t) = {<<t, p, tr>>}
  BY DEF Booked
<1>2. \A q : TokenAt(t, q) <=> q = p
  BY <1>1, KeptAt
<1>3. Reporting(evs, t, {<<t, p, d>>}, {<<t, p, tr>>}, {<<t, p>>}, {}, {}, {})
  <2>1. Reporting(evs, t, TokenKeysOf(Now, t), TakenKeysOf(Now, t),
                  {<<t, p>>}, {}, {}, {})
    BY PartsReport
  <2> QED
    BY <1>1, <2>1
<1>4. /\ TokenKeysOf(AfterOf(tx), t) = Left({<<t, p, d>>}, t, {<<t, p>>}, {}, {}) \cup {}
      /\ TakenKeysOf(AfterOf(tx), t) = Left({<<t, p, tr>>}, t, {<<t, p>>}, {}, {}) \cup {}
  <2>1. TokenKeysOf(AfterOf(tx), t)
           = Left(TokenKeysOf(Now, t), t, {<<t, p>>}, {}, {}) \cup {}
    BY PartsTokens
  <2>2. TakenKeysOf(AfterOf(tx), t)
           = Left(TakenKeysOf(Now, t), t, {<<t, p>>}, {}, {}) \cup {}
    BY PartsTaken
  <2> QED
    BY <1>1, <2>1, <2>2
<1> HIDE DEF evs
<1>5. /\ Hit({<<t, p, d>>}, t, {<<t, p>>}, {}) = {<<t, p, d>>}
      /\ Hit({<<t, p, tr>>}, t, {<<t, p>>}, {}) = {<<t, p, tr>>}
      /\ Fresh({}, t) = {} /\ Stale({}, t) = {}
  BY <1>2 DEF Hit, Fresh, Stale
<1>6. /\ Relevant(evs, t, "destroyed") = Reports("destroyed", t, {<<t, p, d>>})
      /\ Relevant(evs, t, "released") = Reports("released", t, {<<t, p, tr>>})
      /\ Relevant(evs, t, "created") = Reports("created", t, {})
      /\ Relevant(evs, t, "updated") = Reports("updated", t, {})
      /\ Relevant(evs, t, "taken") = Reports("taken", t, {})
  BY <1>3, <1>5 DEF Reporting
<1>7. Absent(AfterOf(tx), t)
  BY <1>4 DEF Left, Absent
<1>8. CASE p \in Known
  <2>1. /\ Relevant(evs, t, "destroyed") = {Event("destroyed", t, p, d)}
        /\ Relevant(evs, t, "released") = {Event("released", t, p, tr)}
        /\ Relevant(evs, t, "created") = {}
        /\ Relevant(evs, t, "updated") = {}
        /\ Relevant(evs, t, "taken") = {}
    BY <1>6, <1>8, ReportsNone, ReportsKey
  <2>2. /\ One(evs, t, Event("destroyed", t, p, d))
        /\ One(evs, t, Event("released", t, p, tr))
        /\ None(evs, t, Kinds \ {"destroyed", "released"})
    BY <2>1, Fields DEF One, None, Kinds
  <2>3. View(Now, t) = Held(p, d, tr) /\ View(AfterOf(tx), t) = Unknown
    BY <1>7, <1>8, ViewOf
  <2>4. Follows(Held(p, d, tr), evs, Unknown, t)
    BY <1>8, <2>2, FollowsConsume
  <2> QED
    BY <1>7, <2>3, <2>4 DEF Tracked, evs
<1>9. CASE p \notin Known
  <2>1. /\ Relevant(evs, t, "destroyed") = {}
        /\ Relevant(evs, t, "released") = {}
        /\ Relevant(evs, t, "created") = {}
        /\ Relevant(evs, t, "updated") = {}
        /\ Relevant(evs, t, "taken") = {}
    BY <1>6, <1>9, ReportsNone, ReportsKey
  <2>2. /\ None(evs, t, Kinds)
    BY <2>1, Fields DEF One, None, Kinds
  <2>3. View(Now, t) = Unknown /\ View(AfterOf(tx), t) = Unknown
    BY <1>7, <1>9, ViewOf
  <2>4. Follows(Unknown, evs, Unknown, t)
    BY <2>2, FollowsNothing
  <2> QED
    BY <1>7, <2>3, <2>4 DEF Tracked, evs
<1> QED
  BY <1>7, <1>8, <1>9

\* A taken token is placed somewhere else.
LEMMA TokenMoved ==
  ASSUME StoreTypes, NEW tx, NEW t, NEW p, NEW d, NEW tr, NEW q, NEW d2, q # p,
         Booked(Now, t, p, d, tr), Parts(tx, t, {<<t, p>>}, {}, {<<t, q, d2>>}, {})
  PROVE  Resting(AfterOf(tx), t, q, d2) /\ Tracked(tx, t)
<1> DEFINE evs == EventsOf(tx)
<1>1. /\ TokenKeysOf(Now, t) = {<<t, p, d>>} /\ TakenKeysOf(Now, t) = {<<t, p, tr>>}
  BY DEF Booked
<1>2. \A x : TokenAt(t, x) <=> x = p
  BY <1>1, KeptAt
<1>3. Reporting(evs, t, {<<t, p, d>>}, {<<t, p, tr>>}, {<<t, p>>}, {}, {<<t, q, d2>>}, {})
  <2>1. Reporting(evs, t, TokenKeysOf(Now, t), TakenKeysOf(Now, t),
                  {<<t, p>>}, {}, {<<t, q, d2>>}, {})
    BY PartsReport
  <2> QED
    BY <1>1, <2>1
<1>4. /\ TokenKeysOf(AfterOf(tx), t) =
           Left({<<t, p, d>>}, t, {<<t, p>>}, {}, {<<t, q, d2>>}) \cup {<<t, q, d2>>}
      /\ TakenKeysOf(AfterOf(tx), t) = Left({<<t, p, tr>>}, t, {<<t, p>>}, {}, {}) \cup {}
  <2>1. TokenKeysOf(AfterOf(tx), t)
           = Left(TokenKeysOf(Now, t), t, {<<t, p>>}, {}, {<<t, q, d2>>}) \cup {<<t, q, d2>>}
    BY PartsTokens
  <2>2. TakenKeysOf(AfterOf(tx), t)
           = Left(TakenKeysOf(Now, t), t, {<<t, p>>}, {}, {}) \cup {}
    BY PartsTaken
  <2> QED
    BY <1>1, <2>1, <2>2
<1> HIDE DEF evs
<1>5. /\ Hit({<<t, p, d>>}, t, {<<t, p>>}, {}) = {<<t, p, d>>}
      /\ Hit({<<t, p, tr>>}, t, {<<t, p>>}, {}) = {<<t, p, tr>>}
      /\ Fresh({<<t, q, d2>>}, t) = {<<t, q, d2>>} /\ Stale({<<t, q, d2>>}, t) = {}
  BY <1>2 DEF Hit, Fresh, Stale
<1>6. /\ Relevant(evs, t, "destroyed") = Reports("destroyed", t, {<<t, p, d>>})
      /\ Relevant(evs, t, "released") = Reports("released", t, {<<t, p, tr>>})
      /\ Relevant(evs, t, "created") = Reports("created", t, {<<t, q, d2>>})
      /\ Relevant(evs, t, "updated") = Reports("updated", t, {})
      /\ Relevant(evs, t, "taken") = Reports("taken", t, {})
  BY <1>3, <1>5 DEF Reporting
<1>7. Resting(AfterOf(tx), t, q, d2)
  BY <1>4 DEF Left, Resting
<1>8. CASE p \in Known /\ q \in Known
  <2>1. /\ Relevant(evs, t, "destroyed") = {Event("destroyed", t, p, d)}
        /\ Relevant(evs, t, "released") = {Event("released", t, p, tr)}
        /\ Relevant(evs, t, "created") = {Event("created", t, q, d2)}
        /\ Relevant(evs, t, "updated") = {}
        /\ Relevant(evs, t, "taken") = {}
    BY <1>6, <1>8, ReportsNone, ReportsKey
  <2>2. /\ One(evs, t, Event("destroyed", t, p, d))
        /\ One(evs, t, Event("released", t, p, tr))
        /\ One(evs, t, Event("created", t, q, d2))
        /\ None(evs, t, Kinds \ {"destroyed", "released", "created"})
    BY <2>1, Fields DEF One, None, Kinds
  <2>3. View(Now, t) = Held(p, d, tr) /\ View(AfterOf(tx), t) = Rest(q, d2)
    BY <1>7, <1>8, ViewOf
  <2>4. Follows(Held(p, d, tr), evs, Rest(q, d2), t)
    BY <1>8, <2>2, FollowsMove
  <2> QED
    BY <1>7, <2>3, <2>4 DEF Tracked, evs
<1>9. CASE p \in Known /\ q \notin Known
  <2>1. /\ Relevant(evs, t, "destroyed") = {Event("destroyed", t, p, d)}
        /\ Relevant(evs, t, "released") = {Event("released", t, p, tr)}
        /\ Relevant(evs, t, "created") = {}
        /\ Relevant(evs, t, "updated") = {}
        /\ Relevant(evs, t, "taken") = {}
    BY <1>6, <1>9, ReportsNone, ReportsKey
  <2>2. /\ One(evs, t, Event("destroyed", t, p, d))
        /\ One(evs, t, Event("released", t, p, tr))
        /\ None(evs, t, Kinds \ {"destroyed", "released"})
    BY <2>1, Fields DEF One, None, Kinds
  <2>3. View(Now, t) = Held(p, d, tr) /\ View(AfterOf(tx), t) = Unknown
    BY <1>7, <1>9, ViewOf
  <2>4. Follows(Held(p, d, tr), evs, Unknown, t)
    BY <1>9, <2>2, FollowsConsume
  <2> QED
    BY <1>7, <2>3, <2>4 DEF Tracked, evs
<1>10. CASE p \notin Known /\ q \in Known
  <2>1. /\ Relevant(evs, t, "destroyed") = {}
        /\ Relevant(evs, t, "released") = {}
        /\ Relevant(evs, t, "created") = {Event("created", t, q, d2)}
        /\ Relevant(evs, t, "updated") = {}
        /\ Relevant(evs, t, "taken") = {}
    BY <1>6, <1>10, ReportsNone, ReportsKey
  <2>2. /\ One(evs, t, Event("created", t, q, d2))
        /\ None(evs, t, Kinds \ {"created"})
    BY <2>1, Fields DEF One, None, Kinds
  <2>3. View(Now, t) = Unknown /\ View(AfterOf(tx), t) = Rest(q, d2)
    BY <1>7, <1>10, ViewOf
  <2>4. Follows(Unknown, evs, Rest(q, d2), t)
    BY <1>10, <2>2, FollowsNew
  <2> QED
    BY <1>7, <2>3, <2>4 DEF Tracked, evs
<1>11. CASE p \notin Known /\ q \notin Known
  <2>1. /\ Relevant(evs, t, "destroyed") = {}
        /\ Relevant(evs, t, "released") = {}
        /\ Relevant(evs, t, "created") = {}
        /\ Relevant(evs, t, "updated") = {}
        /\ Relevant(evs, t, "taken") = {}
    BY <1>6, <1>11, ReportsNone, ReportsKey
  <2>2. /\ None(evs, t, Kinds)
    BY <2>1, Fields DEF One, None, Kinds
  <2>3. View(Now, t) = Unknown /\ View(AfterOf(tx), t) = Unknown
    BY <1>7, <1>11, ViewOf
  <2>4. Follows(Unknown, evs, Unknown, t)
    BY <2>2, FollowsNothing
  <2> QED
    BY <1>7, <2>3, <2>4 DEF Tracked, evs
<1> QED
  BY <1>7, <1>8, <1>9, <1>10, <1>11

\* A token is created.
LEMMA TokenNew ==
  ASSUME StoreTypes, NEW tx, NEW t, NEW q, NEW d2,
         Absent(Now, t), Parts(tx, t, {}, {}, {<<t, q, d2>>}, {})
  PROVE  Resting(AfterOf(tx), t, q, d2) /\ Tracked(tx, t)
<1> DEFINE evs == EventsOf(tx)
<1>1. /\ TokenKeysOf(Now, t) = {} /\ TakenKeysOf(Now, t) = {}
  BY DEF Absent
<1>2. \A x : ~TokenAt(t, x)
  BY <1>1, KeptAt
<1>3. Reporting(evs, t, {}, {}, {}, {}, {<<t, q, d2>>}, {})
  <2>1. Reporting(evs, t, TokenKeysOf(Now, t), TakenKeysOf(Now, t),
                  {}, {}, {<<t, q, d2>>}, {})
    BY PartsReport
  <2> QED
    BY <1>1, <2>1
<1>4. /\ TokenKeysOf(AfterOf(tx), t) = Left({}, t, {}, {}, {<<t, q, d2>>}) \cup {<<t, q, d2>>}
      /\ TakenKeysOf(AfterOf(tx), t) = Left({}, t, {}, {}, {}) \cup {}
  <2>1. TokenKeysOf(AfterOf(tx), t)
           = Left(TokenKeysOf(Now, t), t, {}, {}, {<<t, q, d2>>}) \cup {<<t, q, d2>>}
    BY PartsTokens
  <2>2. TakenKeysOf(AfterOf(tx), t)
           = Left(TakenKeysOf(Now, t), t, {}, {}, {}) \cup {}
    BY PartsTaken
  <2> QED
    BY <1>1, <2>1, <2>2
<1> HIDE DEF evs
<1>5. /\ Hit({}, t, {}, {}) = {} /\ Hit({}, t, {}, {}) = {}
      /\ Fresh({<<t, q, d2>>}, t) = {<<t, q, d2>>} /\ Stale({<<t, q, d2>>}, t) = {}
  BY <1>2 DEF Hit, Fresh, Stale
<1>6. /\ Relevant(evs, t, "destroyed") = Reports("destroyed", t, {})
      /\ Relevant(evs, t, "released") = Reports("released", t, {})
      /\ Relevant(evs, t, "created") = Reports("created", t, {<<t, q, d2>>})
      /\ Relevant(evs, t, "updated") = Reports("updated", t, {})
      /\ Relevant(evs, t, "taken") = Reports("taken", t, {})
  BY <1>3, <1>5 DEF Reporting
<1>7. Resting(AfterOf(tx), t, q, d2)
  BY <1>4 DEF Left, Resting
<1>8. CASE q \in Known
  <2>1. /\ Relevant(evs, t, "destroyed") = {}
        /\ Relevant(evs, t, "released") = {}
        /\ Relevant(evs, t, "created") = {Event("created", t, q, d2)}
        /\ Relevant(evs, t, "updated") = {}
        /\ Relevant(evs, t, "taken") = {}
    BY <1>6, <1>8, ReportsNone, ReportsKey
  <2>2. /\ One(evs, t, Event("created", t, q, d2))
        /\ None(evs, t, Kinds \ {"created"})
    BY <2>1, Fields DEF One, None, Kinds
  <2>3. View(Now, t) = Unknown /\ View(AfterOf(tx), t) = Rest(q, d2)
    BY <1>7, <1>8, ViewOf
  <2>4. Follows(Unknown, evs, Rest(q, d2), t)
    BY <1>8, <2>2, FollowsNew
  <2> QED
    BY <1>7, <2>3, <2>4 DEF Tracked, evs
<1>9. CASE q \notin Known
  <2>1. /\ Relevant(evs, t, "destroyed") = {}
        /\ Relevant(evs, t, "released") = {}
        /\ Relevant(evs, t, "created") = {}
        /\ Relevant(evs, t, "updated") = {}
        /\ Relevant(evs, t, "taken") = {}
    BY <1>6, <1>9, ReportsNone, ReportsKey
  <2>2. /\ None(evs, t, Kinds)
    BY <2>1, Fields DEF One, None, Kinds
  <2>3. View(Now, t) = Unknown /\ View(AfterOf(tx), t) = Unknown
    BY <1>7, <1>9, ViewOf
  <2>4. Follows(Unknown, evs, Unknown, t)
    BY <2>2, FollowsNothing
  <2> QED
    BY <1>7, <2>3, <2>4 DEF Tracked, evs
<1> QED
  BY <1>7, <1>8, <1>9

\* A token at rest gets new data by hand.
LEMMA TokenUpdated ==
  ASSUME StoreTypes, NEW tx, NEW t, NEW p, NEW d, NEW d2,
         Resting(Now, t, p, d), Parts(tx, t, {}, {}, {<<t, p, d2>>}, {})
  PROVE  Resting(AfterOf(tx), t, p, d2) /\ Tracked(tx, t)
<1> DEFINE evs == EventsOf(tx)
<1>1. /\ TokenKeysOf(Now, t) = {<<t, p, d>>} /\ TakenKeysOf(Now, t) = {}
  BY DEF Resting
<1>2. \A q : TokenAt(t, q) <=> q = p
  BY <1>1, KeptAt
<1>3. Reporting(evs, t, {<<t, p, d>>}, {}, {}, {}, {<<t, p, d2>>}, {})
  <2>1. Reporting(evs, t, TokenKeysOf(Now, t), TakenKeysOf(Now, t),
                  {}, {}, {<<t, p, d2>>}, {})
    BY PartsReport
  <2> QED
    BY <1>1, <2>1
<1>4. /\ TokenKeysOf(AfterOf(tx), t) =
           Left({<<t, p, d>>}, t, {}, {}, {<<t, p, d2>>}) \cup {<<t, p, d2>>}
      /\ TakenKeysOf(AfterOf(tx), t) = Left({}, t, {}, {}, {}) \cup {}
  <2>1. TokenKeysOf(AfterOf(tx), t)
           = Left(TokenKeysOf(Now, t), t, {}, {}, {<<t, p, d2>>}) \cup {<<t, p, d2>>}
    BY PartsTokens
  <2>2. TakenKeysOf(AfterOf(tx), t)
           = Left(TakenKeysOf(Now, t), t, {}, {}, {}) \cup {}
    BY PartsTaken
  <2> QED
    BY <1>1, <2>1, <2>2
<1> HIDE DEF evs
<1>5. /\ Hit({<<t, p, d>>}, t, {}, {}) = {} /\ Hit({}, t, {}, {}) = {}
      /\ Fresh({<<t, p, d2>>}, t) = {} /\ Stale({<<t, p, d2>>}, t) = {<<t, p, d2>>}
  BY <1>2 DEF Hit, Fresh, Stale
<1>6. /\ Relevant(evs, t, "destroyed") = Reports("destroyed", t, {})
      /\ Relevant(evs, t, "released") = Reports("released", t, {})
      /\ Relevant(evs, t, "created") = Reports("created", t, {})
      /\ Relevant(evs, t, "updated") = Reports("updated", t, {<<t, p, d2>>})
      /\ Relevant(evs, t, "taken") = Reports("taken", t, {})
  BY <1>3, <1>5 DEF Reporting
<1>7. Resting(AfterOf(tx), t, p, d2)
  BY <1>4 DEF Left, Resting
<1>8. CASE p \in Known
  <2>1. /\ Relevant(evs, t, "destroyed") = {}
        /\ Relevant(evs, t, "released") = {}
        /\ Relevant(evs, t, "created") = {}
        /\ Relevant(evs, t, "updated") = {Event("updated", t, p, d2)}
        /\ Relevant(evs, t, "taken") = {}
    BY <1>6, <1>8, ReportsNone, ReportsKey
  <2>2. /\ One(evs, t, Event("updated", t, p, d2))
        /\ None(evs, t, Kinds \ {"updated"})
    BY <2>1, Fields DEF One, None, Kinds
  <2>3. View(Now, t) = Rest(p, d) /\ View(AfterOf(tx), t) = Rest(p, d2)
    BY <1>7, <1>8, ViewOf
  <2>4. Follows(Rest(p, d), evs, Rest(p, d2), t)
    BY <1>8, <2>2, FollowsUpdate
  <2> QED
    BY <1>7, <2>3, <2>4 DEF Tracked, evs
<1>9. CASE p \notin Known
  <2>1. /\ Relevant(evs, t, "destroyed") = {}
        /\ Relevant(evs, t, "released") = {}
        /\ Relevant(evs, t, "created") = {}
        /\ Relevant(evs, t, "updated") = {}
        /\ Relevant(evs, t, "taken") = {}
    BY <1>6, <1>9, ReportsNone, ReportsKey
  <2>2. /\ None(evs, t, Kinds)
    BY <2>1, Fields DEF One, None, Kinds
  <2>3. View(Now, t) = Unknown /\ View(AfterOf(tx), t) = Unknown
    BY <1>7, <1>9, ViewOf
  <2>4. Follows(Unknown, evs, Unknown, t)
    BY <2>2, FollowsNothing
  <2> QED
    BY <1>7, <2>3, <2>4 DEF Tracked, evs
<1> QED
  BY <1>7, <1>8, <1>9

\* A token at rest is moved by hand.
LEMMA TokenCarried ==
  ASSUME StoreTypes, NEW tx, NEW t, NEW p, NEW d, NEW q, NEW d2, q # p,
         Resting(Now, t, p, d), Parts(tx, t, {<<t, p>>}, {}, {<<t, q, d2>>}, {})
  PROVE  Resting(AfterOf(tx), t, q, d2) /\ Tracked(tx, t)
<1> DEFINE evs == EventsOf(tx)
<1>1. /\ TokenKeysOf(Now, t) = {<<t, p, d>>} /\ TakenKeysOf(Now, t) = {}
  BY DEF Resting
<1>2. \A x : TokenAt(t, x) <=> x = p
  BY <1>1, KeptAt
<1>3. Reporting(evs, t, {<<t, p, d>>}, {}, {<<t, p>>}, {}, {<<t, q, d2>>}, {})
  <2>1. Reporting(evs, t, TokenKeysOf(Now, t), TakenKeysOf(Now, t),
                  {<<t, p>>}, {}, {<<t, q, d2>>}, {})
    BY PartsReport
  <2> QED
    BY <1>1, <2>1
<1>4. /\ TokenKeysOf(AfterOf(tx), t) =
           Left({<<t, p, d>>}, t, {<<t, p>>}, {}, {<<t, q, d2>>}) \cup {<<t, q, d2>>}
      /\ TakenKeysOf(AfterOf(tx), t) = Left({}, t, {<<t, p>>}, {}, {}) \cup {}
  <2>1. TokenKeysOf(AfterOf(tx), t)
           = Left(TokenKeysOf(Now, t), t, {<<t, p>>}, {}, {<<t, q, d2>>}) \cup {<<t, q, d2>>}
    BY PartsTokens
  <2>2. TakenKeysOf(AfterOf(tx), t)
           = Left(TakenKeysOf(Now, t), t, {<<t, p>>}, {}, {}) \cup {}
    BY PartsTaken
  <2> QED
    BY <1>1, <2>1, <2>2
<1> HIDE DEF evs
<1>5. /\ Hit({<<t, p, d>>}, t, {<<t, p>>}, {}) = {<<t, p, d>>} /\ Hit({}, t, {<<t, p>>}, {}) = {}
      /\ Fresh({<<t, q, d2>>}, t) = {<<t, q, d2>>} /\ Stale({<<t, q, d2>>}, t) = {}
  BY <1>2 DEF Hit, Fresh, Stale
<1>6. /\ Relevant(evs, t, "destroyed") = Reports("destroyed", t, {<<t, p, d>>})
      /\ Relevant(evs, t, "released") = Reports("released", t, {})
      /\ Relevant(evs, t, "created") = Reports("created", t, {<<t, q, d2>>})
      /\ Relevant(evs, t, "updated") = Reports("updated", t, {})
      /\ Relevant(evs, t, "taken") = Reports("taken", t, {})
  BY <1>3, <1>5 DEF Reporting
<1>7. Resting(AfterOf(tx), t, q, d2)
  BY <1>4 DEF Left, Resting
<1>8. CASE p \in Known /\ q \in Known
  <2>1. /\ Relevant(evs, t, "destroyed") = {Event("destroyed", t, p, d)}
        /\ Relevant(evs, t, "released") = {}
        /\ Relevant(evs, t, "created") = {Event("created", t, q, d2)}
        /\ Relevant(evs, t, "updated") = {}
        /\ Relevant(evs, t, "taken") = {}
    BY <1>6, <1>8, ReportsNone, ReportsKey
  <2>2. /\ One(evs, t, Event("destroyed", t, p, d))
        /\ One(evs, t, Event("created", t, q, d2))
        /\ None(evs, t, Kinds \ {"destroyed", "created"})
    BY <2>1, Fields DEF One, None, Kinds
  <2>3. View(Now, t) = Rest(p, d) /\ View(AfterOf(tx), t) = Rest(q, d2)
    BY <1>7, <1>8, ViewOf
  <2>4. Follows(Rest(p, d), evs, Rest(q, d2), t)
    BY <1>8, <2>2, FollowsCarry
  <2> QED
    BY <1>7, <2>3, <2>4 DEF Tracked, evs
<1>9. CASE p \in Known /\ q \notin Known
  <2>1. /\ Relevant(evs, t, "destroyed") = {Event("destroyed", t, p, d)}
        /\ Relevant(evs, t, "released") = {}
        /\ Relevant(evs, t, "created") = {}
        /\ Relevant(evs, t, "updated") = {}
        /\ Relevant(evs, t, "taken") = {}
    BY <1>6, <1>9, ReportsNone, ReportsKey
  <2>2. /\ One(evs, t, Event("destroyed", t, p, d))
        /\ None(evs, t, Kinds \ {"destroyed"})
    BY <2>1, Fields DEF One, None, Kinds
  <2>3. View(Now, t) = Rest(p, d) /\ View(AfterOf(tx), t) = Unknown
    BY <1>7, <1>9, ViewOf
  <2>4. Follows(Rest(p, d), evs, Unknown, t)
    BY <1>9, <2>2, FollowsRemove
  <2> QED
    BY <1>7, <2>3, <2>4 DEF Tracked, evs
<1>10. CASE p \notin Known /\ q \in Known
  <2>1. /\ Relevant(evs, t, "destroyed") = {}
        /\ Relevant(evs, t, "released") = {}
        /\ Relevant(evs, t, "created") = {Event("created", t, q, d2)}
        /\ Relevant(evs, t, "updated") = {}
        /\ Relevant(evs, t, "taken") = {}
    BY <1>6, <1>10, ReportsNone, ReportsKey
  <2>2. /\ One(evs, t, Event("created", t, q, d2))
        /\ None(evs, t, Kinds \ {"created"})
    BY <2>1, Fields DEF One, None, Kinds
  <2>3. View(Now, t) = Unknown /\ View(AfterOf(tx), t) = Rest(q, d2)
    BY <1>7, <1>10, ViewOf
  <2>4. Follows(Unknown, evs, Rest(q, d2), t)
    BY <1>10, <2>2, FollowsNew
  <2> QED
    BY <1>7, <2>3, <2>4 DEF Tracked, evs
<1>11. CASE p \notin Known /\ q \notin Known
  <2>1. /\ Relevant(evs, t, "destroyed") = {}
        /\ Relevant(evs, t, "released") = {}
        /\ Relevant(evs, t, "created") = {}
        /\ Relevant(evs, t, "updated") = {}
        /\ Relevant(evs, t, "taken") = {}
    BY <1>6, <1>11, ReportsNone, ReportsKey
  <2>2. /\ None(evs, t, Kinds)
    BY <2>1, Fields DEF One, None, Kinds
  <2>3. View(Now, t) = Unknown /\ View(AfterOf(tx), t) = Unknown
    BY <1>7, <1>11, ViewOf
  <2>4. Follows(Unknown, evs, Unknown, t)
    BY <2>2, FollowsNothing
  <2> QED
    BY <1>7, <2>3, <2>4 DEF Tracked, evs
<1> QED
  BY <1>7, <1>8, <1>9, <1>10, <1>11

\* A token at rest is removed by hand.
LEMMA TokenRemoved ==
  ASSUME StoreTypes, NEW tx, NEW t, NEW p, NEW d,
         Resting(Now, t, p, d), Parts(tx, t, {<<t, p>>}, {}, {}, {})
  PROVE  Absent(AfterOf(tx), t) /\ Tracked(tx, t)
<1> DEFINE evs == EventsOf(tx)
<1>1. /\ TokenKeysOf(Now, t) = {<<t, p, d>>} /\ TakenKeysOf(Now, t) = {}
  BY DEF Resting
<1>2. \A q : TokenAt(t, q) <=> q = p
  BY <1>1, KeptAt
<1>3. Reporting(evs, t, {<<t, p, d>>}, {}, {<<t, p>>}, {}, {}, {})
  <2>1. Reporting(evs, t, TokenKeysOf(Now, t), TakenKeysOf(Now, t),
                  {<<t, p>>}, {}, {}, {})
    BY PartsReport
  <2> QED
    BY <1>1, <2>1
<1>4. /\ TokenKeysOf(AfterOf(tx), t) = Left({<<t, p, d>>}, t, {<<t, p>>}, {}, {}) \cup {}
      /\ TakenKeysOf(AfterOf(tx), t) = Left({}, t, {<<t, p>>}, {}, {}) \cup {}
  <2>1. TokenKeysOf(AfterOf(tx), t)
           = Left(TokenKeysOf(Now, t), t, {<<t, p>>}, {}, {}) \cup {}
    BY PartsTokens
  <2>2. TakenKeysOf(AfterOf(tx), t)
           = Left(TakenKeysOf(Now, t), t, {<<t, p>>}, {}, {}) \cup {}
    BY PartsTaken
  <2> QED
    BY <1>1, <2>1, <2>2
<1> HIDE DEF evs
<1>5. /\ Hit({<<t, p, d>>}, t, {<<t, p>>}, {}) = {<<t, p, d>>} /\ Hit({}, t, {<<t, p>>}, {}) = {}
      /\ Fresh({}, t) = {} /\ Stale({}, t) = {}
  BY <1>2 DEF Hit, Fresh, Stale
<1>6. /\ Relevant(evs, t, "destroyed") = Reports("destroyed", t, {<<t, p, d>>})
      /\ Relevant(evs, t, "released") = Reports("released", t, {})
      /\ Relevant(evs, t, "created") = Reports("created", t, {})
      /\ Relevant(evs, t, "updated") = Reports("updated", t, {})
      /\ Relevant(evs, t, "taken") = Reports("taken", t, {})
  BY <1>3, <1>5 DEF Reporting
<1>7. Absent(AfterOf(tx), t)
  BY <1>4 DEF Left, Absent
<1>8. CASE p \in Known
  <2>1. /\ Relevant(evs, t, "destroyed") = {Event("destroyed", t, p, d)}
        /\ Relevant(evs, t, "released") = {}
        /\ Relevant(evs, t, "created") = {}
        /\ Relevant(evs, t, "updated") = {}
        /\ Relevant(evs, t, "taken") = {}
    BY <1>6, <1>8, ReportsNone, ReportsKey
  <2>2. /\ One(evs, t, Event("destroyed", t, p, d))
        /\ None(evs, t, Kinds \ {"destroyed"})
    BY <2>1, Fields DEF One, None, Kinds
  <2>3. View(Now, t) = Rest(p, d) /\ View(AfterOf(tx), t) = Unknown
    BY <1>7, <1>8, ViewOf
  <2>4. Follows(Rest(p, d), evs, Unknown, t)
    BY <1>8, <2>2, FollowsRemove
  <2> QED
    BY <1>7, <2>3, <2>4 DEF Tracked, evs
<1>9. CASE p \notin Known
  <2>1. /\ Relevant(evs, t, "destroyed") = {}
        /\ Relevant(evs, t, "released") = {}
        /\ Relevant(evs, t, "created") = {}
        /\ Relevant(evs, t, "updated") = {}
        /\ Relevant(evs, t, "taken") = {}
    BY <1>6, <1>9, ReportsNone, ReportsKey
  <2>2. /\ None(evs, t, Kinds)
    BY <2>1, Fields DEF One, None, Kinds
  <2>3. View(Now, t) = Unknown /\ View(AfterOf(tx), t) = Unknown
    BY <1>7, <1>9, ViewOf
  <2>4. Follows(Unknown, evs, Unknown, t)
    BY <2>2, FollowsNothing
  <2> QED
    BY <1>7, <2>3, <2>4 DEF Tracked, evs
<1> QED
  BY <1>7, <1>8, <1>9

\* A transaction that does not name a token leaves it as it is.
LEMMA TokenUntouched ==
  ASSUME NEW tx, NEW t, Parts(tx, t, {}, {}, {}, {})
  PROVE  /\ TokenKeysOf(AfterOf(tx), t) = TokenKeysOf(Now, t)
         /\ TakenKeysOf(AfterOf(tx), t) = TakenKeysOf(Now, t)
         /\ Tracked(tx, t)
<1>1. /\ TokenKeysOf(AfterOf(tx), t) = TokenKeysOf(Now, t)
      /\ TakenKeysOf(AfterOf(tx), t) = TakenKeysOf(Now, t)
  <2>1. TokenKeysOf(AfterOf(tx), t) = Left(TokenKeysOf(Now, t), t, {}, {}, {}) \cup {}
    BY PartsTokens
  <2>2. TakenKeysOf(AfterOf(tx), t) = Left(TakenKeysOf(Now, t), t, {}, {}, {}) \cup {}
    BY PartsTaken
  <2> QED
    BY <2>1, <2>2 DEF Left
<1>2. \A kind \in Kinds : Relevant(EventsOf(tx), t, kind) = {}
  <2>1. \A keys : Hit(keys, t, {}, {}) = {}
    BY DEF Hit
  <2>2. Fresh({}, t) = {} /\ Stale({}, t) = {}
    BY DEF Fresh, Stale
  <2>3. Reporting(EventsOf(tx), t, TokenKeysOf(Now, t), TakenKeysOf(Now, t), {}, {}, {}, {})
    BY PartsReport
  <2> QED
    BY <2>1, <2>2, <2>3, ReportsNone DEF Kinds, Reporting
<1>3. KnownKeys(AfterOf(tx), t) = KnownKeys(Now, t) /\ TakenBy(AfterOf(tx), t) = TakenBy(Now, t)
  BY <1>1 DEF KnownKeys, TakenBy, TokenKeysOf, TakenKeysOf
<1>4. View(AfterOf(tx), t) = View(Now, t)
  BY <1>3 DEF View
<1> QED
  BY <1>1, <1>2, <1>4, FollowsNothing DEF Tracked, None

(***************************************************************************)
(* What etcd holds, token by token.                                        *)
(***************************************************************************)

\* StoreCoherent of any keys and any bookkeeping.
Coherent(s, tk) ==
  /\ \A j, k \in s.tokens : j[1] = k[1] => j = k
  /\ s.taken = UNION {{<<k[1], k[2], tr>> : k \in tk[tr]} : tr \in Transition}
  /\ \A j, k \in s.taken : j[1] = k[1] => j = k
  /\ \A tr \in Transition : tk[tr] \subseteq s.tokens

\* The same, for one token after the other.
Settled(s, tk, t) ==
  \/ Absent(s, t)
  \/ \E p \in Place, d \in Data : Resting(s, t, p, d)
  \/ \E p \in Place, d \in Data, tr \in Transition :
       Booked(s, t, p, d, tr) /\ <<t, p, d>> \in tk[tr]
AllSettled(s, tk) ==
  /\ \A t \in Token : Settled(s, tk, t)
  /\ \A tr \in Transition : \A k \in tk[tr] : Booked(s, k[1], k[2], k[3], tr)

\* Keys by their parts.
LEMMA KeyParts ==
  ASSUME NEW k \in TokenKey
  PROVE  k = <<k[1], k[2], k[3]>> /\ k[1] \in Token /\ k[2] \in Place /\ k[3] \in Data
BY DEF TokenKey

LEMMA TakenKeyParts ==
  ASSUME NEW k \in TakenKey
  PROVE  k = <<k[1], k[2], k[3]>> /\ k[1] \in Token /\ k[2] \in Place /\ k[3] \in Transition
BY DEF TakenKey

\* In a coherent store a token has no key, one at rest, or one that is taken.
LEMMA CoherentSettled ==
  ASSUME NEW s \in Snapshot, NEW tk \in [Transition -> SUBSET TokenKey]
  PROVE  Coherent(s, tk) <=> AllSettled(s, tk)
<1>1. s.tokens \subseteq TokenKey /\ s.taken \subseteq TakenKey
  BY DEF Snapshot
<1> DEFINE U == UNION {{<<k[1], k[2], tr>> : k \in tk[tr]} : tr \in Transition}
<1>2. \A x : x \in U <=> \E tr \in Transition : \E k \in tk[tr] : x = <<k[1], k[2], tr>>
  OBVIOUS
<1> HIDE DEF U
<1>3. ASSUME Coherent(s, tk) PROVE AllSettled(s, tk)
  <2>1. /\ \A j, k \in s.tokens : j[1] = k[1] => j = k
        /\ s.taken = U
        /\ \A j, k \in s.taken : j[1] = k[1] => j = k
        /\ \A tr \in Transition : tk[tr] \subseteq s.tokens
    BY <1>3 DEF Coherent, U
  <2>2. ASSUME NEW tr \in Transition, NEW k \in tk[tr] PROVE Booked(s, k[1], k[2], k[3], tr)
    <3>1. k \in s.tokens /\ <<k[1], k[2], tr>> \in s.taken
      BY <1>2, <2>1
    <3>2. k = <<k[1], k[2], k[3]>>
      BY <1>1, <3>1, KeyParts
    <3>3. TokenKeysOf(s, k[1]) = {<<k[1], k[2], k[3]>>}
      BY <2>1, <3>1, <3>2 DEF TokenKeysOf
    <3>4. TakenKeysOf(s, k[1]) = {<<k[1], k[2], tr>>}
      BY <2>1, <3>1 DEF TakenKeysOf
    <3> QED
      BY <3>3, <3>4 DEF Booked
  <2>3. ASSUME NEW t \in Token PROVE Settled(s, tk, t)
    <3>1. CASE TakenKeysOf(s, t) # {}
      <4>1. PICK x \in s.taken : x[1] = t
        BY <3>1 DEF TakenKeysOf
      <4>2. PICK tr \in Transition : \E k \in tk[tr] : x = <<k[1], k[2], tr>>
        BY <1>2, <2>1
      <4>3. PICK k \in tk[tr] : x = <<k[1], k[2], tr>>
        BY <4>2
      <4>4. k \in TokenKey /\ k[1] = t
        BY <4>1, <4>3
      <4>5. k = <<t, k[2], k[3]>> /\ k[2] \in Place /\ k[3] \in Data
        BY <4>4, KeyParts
      <4>6. Booked(s, t, k[2], k[3], tr)
        BY <2>2, <4>4
      <4> QED
        BY <4>5, <4>6 DEF Settled
    <3>2. CASE TakenKeysOf(s, t) = {} /\ TokenKeysOf(s, t) # {}
      <4>1. PICK k \in s.tokens : k[1] = t
        BY <3>2 DEF TokenKeysOf
      <4>2. k = <<t, k[2], k[3]>> /\ k[2] \in Place /\ k[3] \in Data
        BY <1>1, <4>1, KeyParts
      <4>3. TokenKeysOf(s, t) = {<<t, k[2], k[3]>>}
        BY <2>1, <4>1, <4>2 DEF TokenKeysOf
      <4> QED
        BY <3>2, <4>2, <4>3 DEF Settled, Resting
    <3> QED
      BY <3>1, <3>2 DEF Settled, Absent
  <2> QED
    BY <2>2, <2>3 DEF AllSettled
<1>4. ASSUME AllSettled(s, tk) PROVE Coherent(s, tk)
  <2>1. ASSUME NEW t \in Token
        PROVE  /\ \A j, k \in TokenKeysOf(s, t) : j = k
               /\ \A j, k \in TakenKeysOf(s, t) : j = k
    BY <1>4 DEF AllSettled, Settled, Absent, Resting, Booked
  <2>2. \A j, k \in s.tokens : j[1] = k[1] => j = k
    BY <1>1, <2>1, KeyParts DEF TokenKeysOf
  <2>3. \A j, k \in s.taken : j[1] = k[1] => j = k
    BY <1>1, <2>1, TakenKeyParts DEF TakenKeysOf
  <2>4. ASSUME NEW tr \in Transition, NEW k \in tk[tr]
        PROVE  k \in s.tokens /\ <<k[1], k[2], tr>> \in s.taken
    <3>1. Booked(s, k[1], k[2], k[3], tr)
      BY <1>4 DEF AllSettled
    <3>2. k = <<k[1], k[2], k[3]>>
      BY KeyParts
    <3> QED
      BY <3>1, <3>2 DEF Booked, TokenKeysOf, TakenKeysOf
  <2>5. ASSUME NEW x \in s.taken PROVE x \in U
    <3>1. x[1] \in Token /\ x \in TakenKeysOf(s, x[1])
      BY <1>1, TakenKeyParts DEF TakenKeysOf
    <3>2. PICK p \in Place, d \in Data, tr \in Transition :
            Booked(s, x[1], p, d, tr) /\ <<x[1], p, d>> \in tk[tr]
      BY <1>4, <3>1 DEF AllSettled, Settled, Absent, Resting
    <3>3. x = <<x[1], p, tr>>
      BY <3>1, <3>2 DEF Booked
    <3> QED
      BY <1>2, <3>2, <3>3
  <2>6. s.taken = U
    <3>1. ASSUME NEW x \in U PROVE x \in s.taken
      <4>1. PICK tr \in Transition : \E k \in tk[tr] : x = <<k[1], k[2], tr>>
        BY <1>2
      <4> QED
        BY <2>4, <4>1
    <3> QED
      BY <2>5, <3>1
  <2> QED
    BY <2>2, <2>3, <2>4, <2>6 DEF Coherent, U
<1> QED
  BY <1>3, <1>4

\* What is left of what the transitions have taken when the tokens st are lost.
KeptOf(tk, st) == [tr \in Transition |-> {k \in tk[tr] : k[1] \notin st}]
Keeps == KeptOf(takes, strayed)

LEMMA KeptTypes ==
  ASSUME NEW tk \in [Transition -> SUBSET TokenKey], NEW st
  PROVE  /\ KeptOf(tk, st) \in [Transition -> SUBSET TokenKey]
         /\ \A tr \in Transition : KeptOf(tk, st)[tr] = {k \in tk[tr] : k[1] \notin st}
BY DEF KeptOf

LEMMA KeepsAre ==
  ASSUME StoreTypes
  PROVE  /\ Keeps \in [Transition -> SUBSET TokenKey]
         /\ \A tr \in Transition : Keeps[tr] = Kept(tr)
         /\ \A tr \in Transition : \A k : k \in Keeps[tr] <=> k \in takes[tr] /\ k[1] \notin strayed
BY KeptTypes DEF StoreTypes, Keeps, Kept

\* Whatever etcd holds is settled, but for the tokens that have been lost.
LEMMA StoreSettled ==
  ASSUME StoreTypes, StoreCoherent
  PROVE  AllSettled(Now, Keeps) /\ \A t \in strayed : Absent(Now, t)
<1>1. Now \in Snapshot /\ Keeps \in [Transition -> SUBSET TokenKey]
  BY KeepsAre DEF StoreTypes, Now, Snapshot
<1>2. Coherent(Now, Keeps)
  BY KeepsAre DEF StoreCoherent, Coherent, Now
<1>3. AllSettled(Now, Keeps)
  BY <1>1, <1>2, CoherentSettled
<1>4. ASSUME NEW t \in strayed PROVE Absent(Now, t)
  <2>1. TokenKeysOf(Now, t) = {}
    BY DEF TokenKeysOf, Now, StoreCoherent
  <2>2. Settled(Now, Keeps, t)
    BY <1>3 DEF AllSettled, StoreTypes
  <2> QED
    BY <2>1, <2>2 DEF Settled, Absent, Resting, Booked
<1> QED
  BY <1>3, <1>4

(***************************************************************************)
(* The transactions, token by token.                                       *)
(***************************************************************************)

Same(s, t) ==
  /\ TokenKeysOf(s, t) = TokenKeysOf(Now, t)
  /\ TakenKeysOf(s, t) = TakenKeysOf(Now, t)

\* From now to the snapshot s, the token comes to one of these places; tr
\* takes it; tr lets it go; somebody creates it; somebody edits it.
Placed(s, t, places) == \E q \in places, d \in Data : Resting(s, t, q, d)
Fired(s, t, tr) ==
  \E p \in InPlaces[tr], d \in Data : Resting(Now, t, p, d) /\ Booked(s, t, p, d, tr)
Finished(s, t, tr) ==
  \E p \in Place, d \in Data :
    /\ <<t, p, d>> \in takes[tr] /\ Booked(Now, t, p, d, tr)
    /\ Absent(s, t) \/ Placed(s, t, {p} \cup OutPlaces[tr])
Appeared(s, t, places) == Absent(Now, t) /\ t \notin created /\ Placed(s, t, places)

\* tr puts a token again that was lost while it had it; a token that it had not
\* taken is lost with one that it had.
Restored(s, t, tr) ==
  /\ Absent(Now, t) /\ t \in strayed /\ \E k \in takes[tr] : k[1] = t
  /\ Placed(s, t, Place)
Swept(s, t, tr) ==
  /\ Absent(s, t) /\ ~Absent(Now, t)
  /\ \A k \in TokenKeysOf(Now, t) : \E j \in takes[tr] : t \in Covers[j[1]] /\ k[2] = j[2]
Edited(s, t) ==
  \E p \in Place, d \in Data :
    Resting(Now, t, p, d) /\ (Absent(s, t) \/ Placed(s, t, Place))

\* A token the transaction does not name stays as it is.
LEMMA NotNamed ==
  ASSUME NEW tx, NEW t, Parts(tx, t, {}, {}, {}, {})
  PROVE  Tracked(tx, t) /\ Same(AfterOf(tx), t)
BY TokenUntouched DEF Same

\* A token that nobody has taken from its place is at rest there.
LEMMA FreeRests ==
  ASSUME StoreTypes, StoreCoherent, NEW k \in tokenKeys, ~TakenAt(k[1], k[2])
  PROVE  /\ k = <<k[1], k[2], k[3]>> /\ k[1] \in Token /\ k[2] \in Place /\ k[3] \in Data
         /\ Resting(Now, k[1], k[2], k[3])
<1>1. k = <<k[1], k[2], k[3]>> /\ k[1] \in Token /\ k[2] \in Place /\ k[3] \in Data
  BY KeyParts DEF StoreTypes
<1>2. k \in TokenKeysOf(Now, k[1])
  BY DEF TokenKeysOf, Now
<1>3. Settled(Now, Keeps, k[1])
  BY <1>1, StoreSettled DEF AllSettled
<1>4. ASSUME NEW p, NEW d, NEW tr \in Transition, Booked(Now, k[1], p, d, tr) PROVE FALSE
  <2>1. k = <<k[1], p, d>>
    BY <1>2, <1>4 DEF Booked
  <2>2. <<k[1], p, tr>> \in takenKeys
    BY <1>4 DEF Booked, TakenKeysOf, Now
  <2> QED
    BY <2>1, <2>2 DEF TakenAt
<1>5. PICK p, d : Resting(Now, k[1], p, d)
  BY <1>2, <1>3, <1>4 DEF Settled, Absent
<1>6. k = <<k[1], p, d>>
  BY <1>2, <1>5 DEF Resting
<1> QED
  BY <1>1, <1>5, <1>6

\* What a transition has taken is booked by it, unless it is lost.
LEMMA TakenBooked ==
  ASSUME StoreTypes, StoreCoherent, NEW tr \in Transition, NEW k \in takes[tr]
  PROVE  /\ k = <<k[1], k[2], k[3]>> /\ k[1] \in Token /\ k[2] \in Place /\ k[3] \in Data
         /\ k[1] \in created
         /\ \A v \in Transition : \A j \in takes[v] : j[1] = k[1] => v = tr /\ j = k
         /\ k[1] \notin strayed => k \in tokenKeys /\ Booked(Now, k[1], k[2], k[3], tr)
         /\ k[1] \in strayed => Absent(Now, k[1])
<1>1. k \in TokenKey /\ k[1] \in created
  BY DEF StoreTypes
<1>2. \A v \in Transition : \A j \in takes[v] : j[1] = k[1] => v = tr /\ j = k
  BY DEF StoreTypes, Unique
<1>3. k[1] \notin strayed => k \in tokenKeys /\ Booked(Now, k[1], k[2], k[3], tr)
  <2> SUFFICES ASSUME k[1] \notin strayed
               PROVE  k \in tokenKeys /\ Booked(Now, k[1], k[2], k[3], tr)
    OBVIOUS
  <2>1. k \in Keeps[tr] /\ k \in Kept(tr)
    BY KeepsAre
  <2>2. Booked(Now, k[1], k[2], k[3], tr)
    BY <2>1, StoreSettled DEF AllSettled
  <2> QED
    BY <2>1, <2>2 DEF StoreCoherent
<1>4. k[1] \in strayed => Absent(Now, k[1])
  BY StoreSettled
<1> QED
  BY <1>1, <1>2, <1>3, <1>4, KeyParts

\* An id that has not been handed out has no keys.
LEMMA NotCreatedAbsent ==
  ASSUME StoreTypes, StoreCoherent, NEW t, t \notin created
  PROVE  Absent(Now, t)
<1>1. TokenKeysOf(Now, t) = {}
  BY DEF TokenKeysOf, Now, StoreTypes
<1>2. ASSUME NEW x \in TakenKeysOf(Now, t) PROVE FALSE
  <2>1. x[1] \in Token /\ x[1] = t
    BY TakenKeyParts DEF TakenKeysOf, Now, StoreTypes
  <2> QED
    BY <1>1, <1>2, <2>1, StoreSettled DEF AllSettled, Settled, Absent, Resting, Booked
<1> QED
  BY <1>1, <1>2 DEF Absent

\* A transition takes the tokens of S.
BookingOf(tr, S) == <<{}, {}, {}, {<<k[1], k[2], tr>> : k \in S}>>

\* Each transaction, token by token, is one of the cases above.
LEMMA StartParts ==
  ASSUME StoreTypes, StoreCoherent, NEW tr \in Transition, NEW S \in SUBSET Available(tr),
         NEW tx, tx = BookingOf(tr, S), NEW t
  PROVE  /\ Tracked(tx, t)
         /\ \/ Same(AfterOf(tx), t) /\ \A k \in S : k[1] # t
            \/ \E k \in S : /\ k[1] = t /\ k[2] \in InPlaces[tr] /\ k[3] \in Data
                            /\ Resting(Now, t, k[2], k[3])
                            /\ Booked(AfterOf(tx), t, k[2], k[3], tr)
<1>1. /\ Of(tx[1], t) = {} /\ Of(tx[2], t) = {} /\ Of(tx[3], t) = {}
      /\ tx[4] = {<<k[1], k[2], tr>> : k \in S}
  BY DEF Of, BookingOf
<1>2. CASE \A k \in S : k[1] # t
  <2>1. Of(tx[4], t) = {}
    BY <1>1, <1>2 DEF Of
  <2> QED
    BY <1>1, <1>2, <2>1, NotNamed DEF Parts
<1>3. CASE \E k \in S : k[1] = t
  <2>1. PICK k \in S : k[1] = t
    BY <1>3
  <2>2. \A j \in S : j \in tokenKeys /\ j[2] \in InPlaces[tr] /\ ~TakenAt(j[1], j[2])
    BY DEF Available
  <2>3. k = <<t, k[2], k[3]>> /\ k[3] \in Data /\ Resting(Now, t, k[2], k[3])
    BY <2>1, <2>2, FreeRests
  <2>4. \A j \in S : j[1] = t => j = k
    BY <2>1, <2>2 DEF StoreCoherent
  <2>5. Of(tx[4], t) = {<<t, k[2], tr>>}
    BY <1>1, <2>1, <2>4 DEF Of
  <2>6. Parts(tx, t, {}, {}, {}, {<<t, k[2], tr>>})
    BY <1>1, <2>5 DEF Parts
  <2>7. Booked(AfterOf(tx), t, k[2], k[3], tr) /\ Tracked(tx, t)
    BY <2>3, <2>6, TokenTaken
  <2> QED
    BY <2>1, <2>2, <2>3, <2>7
<1> QED
  BY <1>2, <1>3

\* A transition lets the tokens go that it has taken, one way or another.
Fated(tr, fate, new) ==
  /\ \A k \in takes[tr] : fate[k] \in Fates(tr, k)
  /\ \A k \in new : /\ k[1] \in Token \ created /\ k[2] \in OutPlaces[tr] /\ k[3] \in Data
                    /\ new = {<<k[1], k[2], k[3]>>}
ReleaseOf(tr, fate, new) ==
  <<Deleted({<<k[1], k[2]>> : k \in takes[tr] \ Staying(tr, fate)}),
    {<<k[1], k[2], tr>> : k \in Staying(tr, fate)},
    ({fate[k] : k \in takes[tr]} \ {<<>>}) \cup new, {}>>

\* What is deleted at the place of a token that tr has not taken.
LEMMA StruckHas ==
  ASSUME NEW t, NEW tr, NEW gone
  PROVE  t \in Struck(tr, gone) <=>
           /\ \E k \in TokenKeysOf(Now, t) : <<t, k[2]>> \in gone
           /\ \A k \in takes[tr] : k[1] # t
BY DEF Struck, Ids, TokenKeysOf, Now

LEMMA EndParts ==
  ASSUME StoreTypes, StoreCoherent, NEW tr \in Transition, NEW fate, NEW new,
         Fated(tr, fate, new), NEW tx, tx = ReleaseOf(tr, fate, new),
         Admitted(tx[1], tx[3]), NEW t \in Token
  PROVE  /\ Tracked(tx, t)
         /\ \/ /\ Same(AfterOf(tx), t) /\ t \notin Struck(tr, tx[1])
               /\ \A k \in takes[tr] : k[1] = t => t \in strayed
            \/ Finished(AfterOf(tx), t, tr)
            \/ Restored(AfterOf(tx), t, tr)
            \/ Appeared(AfterOf(tx), t, OutPlaces[tr]) /\ \E k \in new : k[1] = t
            \/ Swept(AfterOf(tx), t, tr) /\ t \in Struck(tr, tx[1])
<1>1. PICK stay : stay = {k \in takes[tr] : fate[k] # <<>> /\ fate[k][2] = k[2]}
  OBVIOUS
<1>2. stay \subseteq takes[tr]
  BY <1>1
<1>3. tx = <<Deleted({<<k[1], k[2]>> : k \in takes[tr] \ stay}),
             {<<k[1], k[2], tr>> : k \in stay},
             ({fate[k] : k \in takes[tr]} \ {<<>>}) \cup new, {}>>
  BY <1>1 DEF ReleaseOf, Staying
<1>4. /\ \A k \in takes[tr] : fate[k] \in Fates(tr, k)
      /\ \A k \in new : /\ k[1] \in Token \ created /\ k[2] \in OutPlaces[tr] /\ k[3] \in Data
                        /\ new = {<<k[1], k[2], k[3]>>}
  BY DEF Fated
<1> DEFINE gone == tx[1]  releases == tx[2]  puts == tx[3]
<1>5. /\ \A k \in takes[tr] \ stay : <<k[1], k[2]>> \in gone
      /\ \A p : <<t, p>> \in gone => \E j \in takes[tr] : t \in Covers[j[1]] /\ p = j[2]
  <2> DEFINE prefixes == {<<k[1], k[2]>> : k \in takes[tr] \ stay}
  <2>1. gone = UNION {{<<v, x[2]>> : v \in Covers[x[1]]} : x \in prefixes}
    BY <1>3 DEF Deleted
  <2>2. \A k \in takes[tr] : k[1] \in Token /\ k[1] \in Covers[k[1]]
    BY TakenBooked, NetSyncAssumption
  <2>3. \A x : x \in prefixes <=> \E k \in takes[tr] \ stay : x = <<k[1], k[2]>>
    OBVIOUS
  <2> HIDE DEF prefixes
  <2>4. \A g : g \in gone <=> \E x \in prefixes : \E v \in Covers[x[1]] : g = <<v, x[2]>>
    BY <2>1
  <2> HIDE DEF gone
  <2>5. ASSUME NEW k \in takes[tr] \ stay PROVE <<k[1], k[2]>> \in gone
    <3>1. <<k[1], k[2]>> \in prefixes
      BY <2>3
    <3> QED
      BY <2>2, <2>4, <3>1
  <2>6. ASSUME NEW p, <<t, p>> \in gone
        PROVE  \E j \in takes[tr] : t \in Covers[j[1]] /\ p = j[2]
    <3>1. PICK x \in prefixes : \E v \in Covers[x[1]] : <<t, p>> = <<v, x[2]>>
      BY <2>4, <2>6
    <3>2. t \in Covers[x[1]] /\ p = x[2]
      BY <3>1
    <3>3. PICK k \in takes[tr] \ stay : x = <<k[1], k[2]>>
      BY <2>3
    <3> QED
      BY <3>2, <3>3
  <2> QED
    BY <2>5, <2>6
<1>6. \A x : x \in releases <=> \E k \in stay : x = <<k[1], k[2], tr>>
  BY <1>3
<1>7. \A x : x \in puts <=> x \in new \/ (x # <<>> /\ \E k \in takes[tr] : x = fate[k])
  <2>1. \A k \in new : k # <<>>
    BY <1>4
  <2> QED
    BY <1>3, <2>1
<1>8. tx[4] = {} /\ Of(tx[4], t) = {}
  BY <1>3 DEF Of
<1>13. \A k \in puts : <<k[1], k[2]>> \notin gone
  BY DEF Admitted
<1> HIDE DEF gone, releases, puts
<1>9. ASSUME NEW k \in takes[tr], fate[k] # <<>>
      PROVE  \E q \in {k[2]} \cup OutPlaces[tr], d \in Data : fate[k] = <<k[1], q, d>>
  BY <1>4, <1>9 DEF Fates
<1>10. CASE \A k \in takes[tr] \cup new : k[1] # t
  <2>1. Of(releases, t) = {} /\ Of(puts, t) = {}
    BY <1>6, <1>7, <1>9, <1>10, <1>2 DEF Of
  <2>2. ASSUME NEW p, NEW d, TokenKeysOf(Now, t) = {<<t, p, d>>}, <<t, p>> \in gone
        PROVE  /\ ~Absent(Now, t) /\ t \in Struck(tr, gone)
               /\ \A s : Absent(s, t) => Swept(s, t, tr)
    <3>1. \A k \in TokenKeysOf(Now, t) : k[2] = p
      BY <2>2
    <3>2. ~Absent(Now, t) /\ <<t, p, d>> \in TokenKeysOf(Now, t) /\ <<t, p, d>>[2] = p
      BY <2>2 DEF Absent
    <3>3. t \in Struck(tr, gone)
      BY <1>10, <2>2, <3>2, StruckHas
    <3>4. \E j \in takes[tr] : t \in Covers[j[1]] /\ p = j[2]
      BY <1>5, <2>2
    <3> QED
      BY <3>1, <3>2, <3>3, <3>4 DEF Swept
  <2>3. ASSUME NEW p, NEW d, TokenKeysOf(Now, t) = {<<t, p, d>>}, <<t, p>> \notin gone
        PROVE  t \notin Struck(tr, gone)
    <3>1. \A k \in TokenKeysOf(Now, t) : k[2] = p
      BY <2>3
    <3> QED
      BY <2>3, <3>1, StruckHas
  <2>4. CASE Absent(Now, t)
    <3>1. Parts(tx, t, {}, {}, {}, {})
      BY <1>8, <2>1, <2>4 DEF Parts, Absent, gone, releases, puts
    <3>2. t \notin Struck(tr, gone)
      BY <2>4, StruckHas DEF Absent
    <3> QED
      BY <1>10, <3>1, <3>2, NotNamed DEF gone
  <2>5. ASSUME NEW p, NEW d, Resting(Now, t, p, d)
        PROVE  /\ Tracked(tx, t)
               /\ \/ Same(AfterOf(tx), t) /\ t \notin Struck(tr, gone)
                  \/ Swept(AfterOf(tx), t, tr) /\ t \in Struck(tr, gone)
    <3>1. TokenKeysOf(Now, t) = {<<t, p, d>>} /\ TakenKeysOf(Now, t) = {}
      BY <2>5 DEF Resting
    <3>2. CASE <<t, p>> \in gone
      <4>1. Parts(tx, t, {<<t, p>>}, {}, {}, {})
        BY <1>8, <2>1, <3>1, <3>2 DEF Parts, Of, gone, releases, puts
      <4>2. Absent(AfterOf(tx), t) /\ Tracked(tx, t)
        BY <2>5, <4>1, TokenRemoved
      <4> QED
        BY <2>2, <3>1, <3>2, <4>2
    <3>3. CASE <<t, p>> \notin gone
      <4>1. Parts(tx, t, {}, {}, {}, {})
        BY <1>8, <2>1, <3>1, <3>3 DEF Parts, Of, gone, releases, puts
      <4> QED
        BY <2>3, <3>1, <3>3, <4>1, NotNamed
    <3> QED
      BY <3>2, <3>3
  <2>6. ASSUME NEW p, NEW d, NEW v, Booked(Now, t, p, d, v)
        PROVE  /\ Tracked(tx, t)
               /\ \/ Same(AfterOf(tx), t) /\ t \notin Struck(tr, gone)
                  \/ Swept(AfterOf(tx), t, tr) /\ t \in Struck(tr, gone)
    <3>1. TokenKeysOf(Now, t) = {<<t, p, d>>} /\ TakenKeysOf(Now, t) = {<<t, p, v>>}
      BY <2>6 DEF Booked
    <3>2. \A k : k \notin Of(releases, t)
      BY <2>1
    <3>3. CASE <<t, p>> \in gone
      <4>1. Parts(tx, t, {<<t, p>>}, {}, {}, {})
        BY <1>8, <2>1, <3>1, <3>2, <3>3 DEF Parts, Of, gone, releases, puts
      <4>2. Absent(AfterOf(tx), t) /\ Tracked(tx, t)
        BY <2>6, <4>1, TokenConsumed
      <4> QED
        BY <2>2, <3>1, <3>3, <4>2
    <3>4. CASE <<t, p>> \notin gone
      <4>1. Parts(tx, t, {}, {}, {}, {})
        BY <1>8, <2>1, <3>1, <3>2, <3>4 DEF Parts, Of, gone, releases, puts
      <4> QED
        BY <2>3, <3>1, <3>4, <4>1, NotNamed
    <3> QED
      BY <3>3, <3>4
  <2>7. Settled(Now, Keeps, t)
    BY StoreSettled DEF AllSettled
  <2> QED
    BY <1>10, <2>4, <2>5, <2>6, <2>7 DEF Settled, gone
<1>11. CASE \E k \in takes[tr] : k[1] = t
  <2>1. PICK k \in takes[tr] : k[1] = t
    BY <1>11
  <2> DEFINE p == k[2]
             d == k[3]
  <2>2. /\ k = <<t, p, d>> /\ p \in Place /\ d \in Data
        /\ t \in created /\ \A j \in takes[tr] : j[1] = t => j = k
    BY <2>1, TakenBooked
  <2>3. \A j \in new : j[1] # t
    BY <1>4, <2>2
  <2>4. fate[k] # <<>> => Of(puts, t) = {fate[k]} /\ fate[k] \in puts
    BY <1>7, <1>9, <2>1, <2>2, <2>3 DEF Of
  <2>5. fate[k] = <<>> => Of(puts, t) = {}
    BY <1>7, <1>9, <2>1, <2>2, <2>3 DEF Of
  <2>6. CASE t \in strayed
    <3>1. Absent(Now, t)
      BY <2>1, <2>6, TakenBooked
    <3>2. TokenKeysOf(Now, t) = {} /\ TakenKeysOf(Now, t) = {}
      BY <3>1 DEF Absent
    <3>3. CASE fate[k] = <<>>
      <4>1. Parts(tx, t, {}, {}, {}, {})
        BY <1>8, <2>5, <3>2, <3>3 DEF Parts, puts
      <4>2. t \notin Struck(tr, gone)
        BY <3>2, StruckHas
      <4> QED
        BY <2>6, <4>1, <4>2, NotNamed DEF gone
    <3>4. CASE fate[k] # <<>>
      <4>1. PICK q \in {p} \cup OutPlaces[tr], e \in Data : fate[k] = <<t, q, e>>
        BY <1>9, <2>1, <3>4 DEF p
      <4>2. Parts(tx, t, {}, {}, {<<t, q, e>>}, {})
        BY <1>8, <2>4, <3>2, <3>4, <4>1 DEF Parts, puts
      <4>3. Resting(AfterOf(tx), t, q, e) /\ Tracked(tx, t)
        BY <3>1, <4>2, TokenNew
      <4>4. q \in Place
        BY <2>2, <4>1, NetSyncAssumption
      <4> QED
        BY <2>1, <2>6, <3>1, <4>1, <4>3, <4>4 DEF Restored, Placed
    <3> QED
      BY <3>3, <3>4
  <2>7. CASE t \notin strayed
    <3>1. Booked(Now, t, p, d, tr)
      BY <2>1, <2>7, TakenBooked
    <3>2. TokenKeysOf(Now, t) = {<<t, p, d>>} /\ TakenKeysOf(Now, t) = {<<t, p, tr>>}
      BY <3>1 DEF Booked
    <3>3. <<t, p, tr>> \in releases <=> k \in stay
      <4>1. <<k[1], k[2], tr>> = <<t, p, tr>>
        BY <2>1
      <4>2. ASSUME NEW j \in stay, <<t, p, tr>> = <<j[1], j[2], tr>> PROVE k \in stay
        BY <1>2, <2>2, <4>2
      <4> QED
        BY <1>6, <4>1, <4>2
    <3> HIDE DEF p, d
    <3>4. CASE fate[k] = <<>>
      <4>1. k \notin stay /\ <<t, p>> \in gone
        BY <1>1, <1>5, <2>1, <3>4 DEF p
      <4>2. Parts(tx, t, {<<t, p>>}, {}, {}, {})
        BY <1>8, <2>5, <3>2, <3>3, <3>4, <4>1 DEF Parts, Of, gone, releases, puts
      <4>3. Absent(AfterOf(tx), t) /\ Tracked(tx, t)
        BY <3>1, <4>2, TokenConsumed
      <4> QED
        BY <2>1, <2>2, <3>1, <4>3 DEF Finished
    <3>5. CASE fate[k] # <<>>
      <4>1. PICK q \in {p} \cup OutPlaces[tr], e \in Data : fate[k] = <<t, q, e>>
        BY <1>9, <2>1, <3>5 DEF p
      <4>2. fate[k][1] = t /\ fate[k][2] = q /\ (k \in stay <=> q = p)
        BY <1>1, <2>1, <3>5, <4>1 DEF p
      <4>3. <<t, q>> \notin gone
        BY <1>13, <2>4, <3>5, <4>2
      <4>4. CASE q = p
        <5>1. Parts(tx, t, {}, {<<t, p, tr>>}, {<<t, p, e>>}, {})
          BY <1>8, <2>4, <3>2, <3>3, <3>5, <4>1, <4>2, <4>3, <4>4
             DEF Parts, Of, gone, releases, puts
        <5>2. Resting(AfterOf(tx), t, p, e) /\ Tracked(tx, t)
          BY <3>1, <5>1, TokenReturned
        <5> QED
          BY <2>1, <2>2, <3>1, <4>1, <5>2 DEF Finished, Placed
      <4>5. CASE q # p
        <5>1. <<t, p>> \in gone /\ k \notin stay
          BY <1>5, <2>1, <4>2, <4>5 DEF p
        <5>2. Parts(tx, t, {<<t, p>>}, {}, {<<t, q, e>>}, {})
          BY <1>8, <2>4, <3>2, <3>3, <3>5, <4>1, <5>1 DEF Parts, Of, gone, releases, puts
        <5>3. Resting(AfterOf(tx), t, q, e) /\ Tracked(tx, t)
          BY <3>1, <4>5, <5>2, TokenMoved
        <5> QED
          BY <2>1, <2>2, <3>1, <4>1, <5>3 DEF Finished, Placed
      <4> QED
        BY <4>4, <4>5
    <3> QED
      BY <3>4, <3>5
  <2> QED
    BY <2>6, <2>7
<1>12. CASE \E k \in new : k[1] = t
  <2>1. PICK k \in new : k[1] = t
    BY <1>12
  <2>2. t \notin created /\ k[2] \in OutPlaces[tr] /\ k[3] \in Data /\ new = {<<t, k[2], k[3]>>}
    BY <1>4, <2>1
  <2>3. \A j \in takes[tr] : j[1] # t
    BY <2>2, TakenBooked
  <2>4. Of(puts, t) = {<<t, k[2], k[3]>>}
    BY <1>7, <1>9, <2>2, <2>3 DEF Of
  <2>5. Absent(Now, t)
    BY <2>2, NotCreatedAbsent
  <2>6. Parts(tx, t, {}, {}, {<<t, k[2], k[3]>>}, {})
    BY <1>8, <2>4, <2>5 DEF Parts, Absent, puts
  <2>7. Resting(AfterOf(tx), t, k[2], k[3]) /\ Tracked(tx, t)
    BY <2>5, <2>6, TokenNew
  <2> QED
    BY <2>1, <2>2, <2>5, <2>7 DEF Appeared, Placed
<1> QED
  BY <1>10, <1>11, <1>12

\* The successor of a runner that has gone puts back what was taken.
LEMMA CancelParts ==
  ASSUME StoreTypes, StoreCoherent, NEW tr \in Transition,
         NEW back, back = {k \in tokenKeys : <<k[1], k[2], tr>> \in takenKeys},
         NEW tx, tx = <<{}, {<<k[1], k[2], tr>> : k \in back}, back, {}>>, NEW t
  PROVE  /\ Tracked(tx, t)
         /\ \/ Same(AfterOf(tx), t) /\ \A k \in takes[tr] : k[1] = t => t \in strayed
            \/ Finished(AfterOf(tx), t, tr)
<1>1. /\ Of(tx[1], t) = {} /\ Of(tx[4], t) = {}
      /\ tx[2] = {<<k[1], k[2], tr>> : k \in back} /\ tx[3] = back
  BY DEF Of
<1>2. back = Kept(tr)
  <2>1. ASSUME NEW k \in Kept(tr) PROVE k \in back
    <3>1. k \in tokenKeys /\ Booked(Now, k[1], k[2], k[3], tr)
      BY TakenBooked DEF Kept
    <3>2. <<k[1], k[2], tr>> \in takenKeys
      BY <3>1 DEF Booked, TakenKeysOf, Now
    <3> QED
      BY <3>1, <3>2
  <2>2. ASSUME NEW k \in back PROVE k \in Kept(tr)
    <3>1. k \in tokenKeys /\ <<k[1], k[2], tr>> \in takenKeys
      OBVIOUS
    <3> DEFINE x == <<k[1], k[2], tr>>
    <3>2. x[1] = k[1] /\ x[3] = tr
      OBVIOUS
    <3>3. x \in UNION {{<<j[1], j[2], v>> : j \in Kept(v)} : v \in Transition}
      BY <3>1 DEF StoreCoherent
    <3>4. PICK v \in Transition : \E j \in Kept(v) : x = <<j[1], j[2], v>>
      BY <3>3
    <3>5. PICK j \in Kept(v) : x = <<j[1], j[2], v>>
      BY <3>4
    <3>6. v = tr /\ j[1] = k[1]
      BY <3>2, <3>5
    <3>7. j \in tokenKeys /\ j = k
      BY <3>1, <3>5, <3>6 DEF StoreCoherent
    <3> QED
      BY <3>6, <3>7
  <2> QED
    BY <2>1, <2>2
<1>3. /\ \A x : x \in tx[2] <=> \E k \in Kept(tr) : x = <<k[1], k[2], tr>>
      /\ tx[3] = Kept(tr)
  BY <1>1, <1>2
<1>4. CASE \A k \in Kept(tr) : k[1] # t
  <2>1. Of(tx[2], t) = {} /\ Of(tx[3], t) = {}
    <3>1. ASSUME NEW x \in tx[2] PROVE x[1] # t
      <4>1. PICK k \in Kept(tr) : x = <<k[1], k[2], tr>>
        BY <1>3
      <4>2. x[1] = k[1]
        BY <4>1
      <4> QED
        BY <1>4, <4>2
    <3>2. \A x \in tx[3] : x[1] # t
      BY <1>3, <1>4
    <3> QED
      BY <3>1, <3>2 DEF Of
  <2>2. \A k \in takes[tr] : k[1] = t => t \in strayed
    BY <1>4 DEF Kept
  <2> QED
    BY <1>1, <2>1, <2>2, NotNamed DEF Parts
<1>5. CASE \E k \in Kept(tr) : k[1] = t
  <2>1. PICK k \in Kept(tr) : k[1] = t
    BY <1>5
  <2> DEFINE p == k[2]
             d == k[3]
  <2>2. /\ k = <<t, p, d>> /\ p \in Place /\ d \in Data /\ Booked(Now, t, p, d, tr)
        /\ k \in takes[tr] /\ \A j \in Kept(tr) : j[1] = t => j = k
    BY <2>1, TakenBooked DEF Kept
  <2>3. Of(tx[2], t) = {<<t, p, tr>>}
    <3>1. ASSUME NEW x \in tx[2], x[1] = t PROVE x = <<t, p, tr>>
      <4>1. PICK j \in Kept(tr) : x = <<j[1], j[2], tr>>
        BY <1>3
      <4>2. j = k
        BY <2>2, <3>1, <4>1
      <4> QED
        BY <2>1, <4>1, <4>2
    <3>2. <<t, p, tr>> \in tx[2]
      BY <1>3, <2>1
    <3> QED
      BY ONLY <3>1, <3>2 DEF Of
  <2>4. Of(tx[3], t) = {<<t, p, d>>}
    BY <1>3, <2>1, <2>2 DEF Of
  <2> HIDE DEF p, d
  <2>5. Parts(tx, t, {}, {<<t, p, tr>>}, {<<t, p, d>>}, {})
    BY <1>1, <2>3, <2>4 DEF Parts
  <2>6. Resting(AfterOf(tx), t, p, d) /\ Tracked(tx, t)
    BY <2>2, <2>5, TokenReturned
  <2> QED
    BY <2>2, <2>6 DEF Finished, Placed
<1> QED
  BY <1>4, <1>5

\* The transactions of somebody who edits the net by hand, for the token they
\* are about; they name no other.
Insertion(tx, v, p, d) == v \notin created /\ tx = <<{}, {}, {<<v, p, d>>}, {}>>
EditOf(tx, k, p, d) ==
  /\ k \in tokenKeys /\ ~TakenAt(k[1], k[2])
  /\ \/ k[2] = p /\ tx = <<{}, {}, {<<k[1], p, d>>}, {}>>
     \/ k[2] # p /\ tx = <<{<<k[1], k[2]>>}, {}, {<<k[1], p, d>>}, {}>>
     \/ tx = <<{<<k[1], k[2]>>}, {}, {}, {}>>

LEMMA EditParts ==
  ASSUME StoreTypes, StoreCoherent, NEW tx, NEW p \in Place, NEW d \in Data, NEW t
  PROVE  /\ \A v : Insertion(tx, v, p, d) =>
               Tracked(tx, t) /\
                 IF v = t THEN Appeared(AfterOf(tx), t, Place) ELSE Same(AfterOf(tx), t)
         /\ \A k : EditOf(tx, k, p, d) =>
               Tracked(tx, t) /\ IF k[1] = t THEN Edited(AfterOf(tx), t) ELSE Same(AfterOf(tx), t)
<1>1. ASSUME NEW v, Insertion(tx, v, p, d)
      PROVE  Tracked(tx, t) /\
               IF v = t THEN Appeared(AfterOf(tx), t, Place) ELSE Same(AfterOf(tx), t)
  <2>1. v \notin created /\ tx = <<{}, {}, {<<v, p, d>>}, {}>>
    BY <1>1 DEF Insertion
  <2>2. /\ Of(tx[1], t) = {} /\ Of(tx[2], t) = {} /\ Of(tx[4], t) = {}
        /\ Of(tx[3], t) = IF v = t THEN {<<t, p, d>>} ELSE {}
    BY <2>1 DEF Of
  <2>3. CASE v = t
    <3>1. Parts(tx, t, {}, {}, {<<t, p, d>>}, {}) /\ Absent(Now, t)
      BY <2>1, <2>2, <2>3, NotCreatedAbsent DEF Parts
    <3>2. Resting(AfterOf(tx), t, p, d) /\ Tracked(tx, t)
      BY <3>1, TokenNew
    <3> QED
      BY <2>1, <2>3, <3>1, <3>2 DEF Appeared, Placed
  <2>4. CASE v # t
    BY <2>2, <2>4, NotNamed DEF Parts
  <2> QED
    BY <2>3, <2>4
<1>2. ASSUME NEW k, EditOf(tx, k, p, d)
      PROVE  Tracked(tx, t) /\ IF k[1] = t THEN Edited(AfterOf(tx), t) ELSE Same(AfterOf(tx), t)
  <2> DEFINE q == k[2]
  <2>1. k \in tokenKeys /\ ~TakenAt(k[1], q)
    BY <1>2 DEF EditOf
  <2>2. q \in Place /\ k[3] \in Data /\ Resting(Now, k[1], q, k[3])
    BY <2>1, FreeRests
  <2>3. \/ q = p /\ tx = <<{}, {}, {<<k[1], p, d>>}, {}>>
        \/ q # p /\ tx = <<{<<k[1], q>>}, {}, {<<k[1], p, d>>}, {}>>
        \/ tx = <<{<<k[1], q>>}, {}, {}, {}>>
    BY <1>2 DEF EditOf
  <2> HIDE DEF q
  <2>4. CASE k[1] # t
    <3>1. Of(tx[1], t) = {} /\ Of(tx[2], t) = {} /\ Of(tx[3], t) = {} /\ Of(tx[4], t) = {}
      BY <2>3, <2>4 DEF Of
    <3> QED
      BY <2>4, <3>1, NotNamed DEF Parts
  <2>5. CASE k[1] = t /\ q = p /\ tx = <<{}, {}, {<<t, p, d>>}, {}>>
    <3>1. Parts(tx, t, {}, {}, {<<t, q, d>>}, {})
      BY <2>5 DEF Parts, Of
    <3>2. Resting(AfterOf(tx), t, q, d) /\ Tracked(tx, t)
      BY <2>2, <2>5, <3>1, TokenUpdated
    <3> QED
      BY <2>2, <2>5, <3>2 DEF Edited, Placed
  <2>6. CASE k[1] = t /\ q # p /\ tx = <<{<<t, q>>}, {}, {<<t, p, d>>}, {}>>
    <3>1. Parts(tx, t, {<<t, q>>}, {}, {<<t, p, d>>}, {})
      BY <2>6 DEF Parts, Of
    <3>2. Resting(AfterOf(tx), t, p, d) /\ Tracked(tx, t)
      BY <2>2, <2>6, <3>1, TokenCarried
    <3> QED
      BY <2>2, <2>6, <3>2 DEF Edited, Placed
  <2>7. CASE k[1] = t /\ tx = <<{<<t, q>>}, {}, {}, {}>>
    <3>1. Parts(tx, t, {<<t, q>>}, {}, {}, {})
      BY <2>7 DEF Parts, Of
    <3>2. Absent(AfterOf(tx), t) /\ Tracked(tx, t)
      BY <2>2, <2>7, <3>1, TokenRemoved
    <3> QED
      BY <2>2, <2>7, <3>2 DEF Edited
  <2> QED
    BY <2>3, <2>4, <2>5, <2>6, <2>7
<1> QED
  BY <1>1, <1>2

(***************************************************************************)
(* The steps.                                                              *)
(***************************************************************************)

\* A token that stays as it is keeps its form; and it has one form only.
LEMMA SameForms ==
  ASSUME NEW tx, NEW t, Same(AfterOf(tx), t)
  PROVE  /\ Absent(AfterOf(tx), t) <=> Absent(Now, t)
         /\ \A p, d : Resting(AfterOf(tx), t, p, d) <=> Resting(Now, t, p, d)
         /\ \A p, d, tr : Booked(AfterOf(tx), t, p, d, tr) <=> Booked(Now, t, p, d, tr)
BY DEF Same, Absent, Resting, Booked

LEMMA FormsExclude ==
  ASSUME NEW s, NEW t, NEW p, NEW d, NEW tr, Booked(s, t, p, d, tr)
  PROVE  /\ ~Absent(s, t)
         /\ \A q, e : ~Resting(s, t, q, e)
         /\ \A q, e, v : Booked(s, t, q, e, v) => q = p /\ e = d /\ v = tr
<1>1. TokenKeysOf(s, t) = {<<t, p, d>>} /\ TakenKeysOf(s, t) = {<<t, p, tr>>}
  BY DEF Booked
<1>2. ASSUME NEW q, NEW e, NEW v, Booked(s, t, q, e, v) PROVE q = p /\ e = d /\ v = tr
  <2>1. <<t, q, e>> \in TokenKeysOf(s, t) /\ <<t, q, v>> \in TakenKeysOf(s, t)
    BY <1>2 DEF Booked
  <2> QED
    BY <1>1, <2>1
<1> QED
  BY <1>1, <1>2 DEF Absent, Resting

\* After a firing has begun.
LEMMA SettledStart ==
  ASSUME StoreTypes, StoreCoherent, NEW tr \in Transition, NEW S \in SUBSET Available(tr),
         takes[tr] = {}, NEW tx, tx = BookingOf(tr, S),
         NEW tk, tk = [takes EXCEPT ![tr] = S]
  PROVE  /\ AllSettled(AfterOf(tx), KeptOf(tk, strayed))
         /\ \A t \in strayed : Absent(AfterOf(tx), t)
         /\ Unique(tk) /\ \A v \in Transition : \A k \in tk[v] : k[1] \in created
<1>1. AllSettled(Now, Keeps) /\ \A t \in strayed : Absent(Now, t)
  BY StoreSettled
<1>2. ASSUME NEW k \in S
      PROVE  /\ k \in tokenKeys /\ k = <<k[1], k[2], k[3]>> /\ k[2] \in Place /\ k[1] \in Token
             /\ k \in TokenKey /\ k[1] \in created /\ ~Absent(Now, k[1])
             /\ \A p, d, v : ~Booked(Now, k[1], p, d, v)
  <2>1. k \in tokenKeys /\ ~TakenAt(k[1], k[2])
    BY DEF Available
  <2>2. Resting(Now, k[1], k[2], k[3])
    BY <2>1, FreeRests
  <2>3. ~Absent(Now, k[1]) /\ \A p, d, v : ~Booked(Now, k[1], p, d, v)
    BY <2>2 DEF Resting, Absent, Booked
  <2> QED
    BY <2>1, <2>3, KeyParts DEF StoreTypes
<1>3. /\ \A v \in Transition : tk[v] = IF v = tr THEN S ELSE takes[v]
      /\ tk \in [Transition -> SUBSET TokenKey]
  BY <1>2 DEF StoreTypes
<1> DEFINE kk == KeptOf(tk, strayed)
<1>4. \A v \in Transition : kk[v] = IF v = tr THEN S ELSE Keeps[v]
  <2>1. \A v \in Transition : kk[v] = {k \in tk[v] : k[1] \notin strayed}
    BY <1>3, KeptTypes
  <2>2. \A k \in S : k[1] \notin strayed
    BY <1>1, <1>2
  <2>3. \A v \in Transition : Keeps[v] = {k \in takes[v] : k[1] \notin strayed}
    BY KeepsAre DEF Kept
  <2>4. ASSUME NEW v \in Transition PROVE kk[v] = IF v = tr THEN S ELSE Keeps[v]
    <3>1. CASE v = tr
      <4>1. tk[v] = S
        BY <1>3, <3>1
      <4>2. kk[v] = {k \in S : k[1] \notin strayed}
        BY <2>1, <4>1
      <4> QED
        BY <2>2, <3>1, <4>2
    <3>2. CASE v # tr
      <4>1. tk[v] = takes[v]
        BY <1>3, <3>2
      <4> QED
        BY <2>1, <2>3, <3>2, <4>1
    <3> QED
      BY <3>1, <3>2
  <2> QED
    BY <2>4
<1> HIDE DEF kk
<1>5. ASSUME NEW t \in Token PROVE Settled(AfterOf(tx), kk, t)
  <2>1. CASE Same(AfterOf(tx), t)
    <3>1. \A v \in Transition : Keeps[v] \subseteq kk[v]
      BY <1>4, KeepsAre
    <3> QED
      BY <1>1, <2>1, <3>1, SameForms DEF AllSettled, Settled
  <2>2. CASE ~Same(AfterOf(tx), t)
    <3>1. PICK k \in S : k[1] = t /\ k[3] \in Data /\ Booked(AfterOf(tx), t, k[2], k[3], tr)
      BY <2>2, StartParts
    <3>2. <<t, k[2], k[3]>> \in kk[tr] /\ k[2] \in Place
      BY <1>2, <1>4, <3>1
    <3> QED
      BY <3>1, <3>2 DEF Settled
  <2> QED
    BY <2>1, <2>2
<1>6. ASSUME NEW v \in Transition, NEW k \in kk[v]
      PROVE  Booked(AfterOf(tx), k[1], k[2], k[3], v)
  <2>1. CASE v = tr
    <3>1. k \in S
      BY <1>4, <2>1
    <3>2. PICK j \in S : j[1] = k[1] /\ Booked(AfterOf(tx), k[1], j[2], j[3], tr)
      BY <3>1, StartParts
    <3>3. j = k
      BY <1>2, <3>1, <3>2 DEF StoreCoherent
    <3> QED
      BY <2>1, <3>2, <3>3
  <2>2. CASE v # tr
    <3>1. Booked(Now, k[1], k[2], k[3], v)
      BY <1>1, <1>4, <2>2 DEF AllSettled
    <3>2. \A j \in S : ~Resting(Now, k[1], j[2], j[3])
      BY <3>1, FormsExclude
    <3>3. Same(AfterOf(tx), k[1])
      BY <3>2, StartParts
    <3>4. \A p, d, u : Booked(AfterOf(tx), k[1], p, d, u) <=> Booked(Now, k[1], p, d, u)
      BY <3>3, SameForms
    <3> QED
      BY <3>1, <3>4
  <2> QED
    BY <2>1, <2>2
<1>7. ASSUME NEW t \in strayed PROVE Absent(AfterOf(tx), t)
  <2>1. Absent(Now, t) /\ \A k \in S : k[1] # t
    BY <1>1, <1>2
  <2>2. Same(AfterOf(tx), t)
    BY <2>1, StartParts
  <2> QED
    BY <2>1, <2>2, SameForms
<1>8. \A v \in Transition : \A k \in tk[v] : k[1] \in created
  BY <1>2, <1>3 DEF StoreTypes
<1>9. ASSUME NEW k \in S, NEW v \in Transition, NEW j \in takes[v], j[1] = k[1] PROVE FALSE
  <2>1. Absent(Now, j[1]) \/ Booked(Now, j[1], j[2], j[3], v)
    BY TakenBooked
  <2>2. Absent(Now, k[1]) \/ Booked(Now, k[1], j[2], j[3], v)
    BY <1>9, <2>1
  <2> QED
    BY <1>2, <2>2
<1>10. ASSUME NEW u \in Transition, NEW v \in Transition, NEW j \in tk[u], NEW k \in tk[v],
              j[1] = k[1]
       PROVE  u = v /\ j = k
  <2>1. CASE u = tr /\ v = tr
    BY <1>2, <1>3, <1>10, <2>1 DEF StoreCoherent
  <2>2. CASE u = tr /\ v # tr
    BY <1>3, <1>9, <1>10, <2>2
  <2>3. CASE u # tr /\ v = tr
    BY <1>3, <1>9, <1>10, <2>3
  <2>4. CASE u # tr /\ v # tr
    BY <1>3, <1>10, <2>4 DEF StoreTypes, Unique
  <2> QED
    BY <2>1, <2>2, <2>3, <2>4
<1>11. Unique(tk)
  BY <1>10 DEF Unique
<1> QED
  BY <1>5, <1>6, <1>7, <1>8, <1>11 DEF AllSettled, kk

\* After tokens have been let go, created or edited.
LEMMA SettledAfter ==
  ASSUME StoreTypes, StoreCoherent, NEW tx, NEW kk \in [Transition -> SUBSET TokenKey],
         \A t \in Token :
           \/ /\ Same(AfterOf(tx), t)
              /\ \A tr \in Transition : \A k : k[1] = t => (k \in Keeps[tr] <=> k \in kk[tr])
           \/ /\ Absent(AfterOf(tx), t) \/ Placed(AfterOf(tx), t, Place)
              /\ \A tr \in Transition : \A k \in kk[tr] : k[1] # t
  PROVE  AllSettled(AfterOf(tx), kk)
<1>1. AllSettled(Now, Keeps)
  BY StoreSettled
<1>2. ASSUME NEW t \in Token PROVE Settled(AfterOf(tx), kk, t)
  <2>1. CASE Absent(AfterOf(tx), t) \/ Placed(AfterOf(tx), t, Place)
    BY <2>1 DEF Settled, Placed
  <2>2. CASE /\ Same(AfterOf(tx), t)
             /\ \A tr \in Transition : \A k : k[1] = t => (k \in Keeps[tr] <=> k \in kk[tr])
    <3>1. ASSUME NEW p \in Place, NEW d \in Data, NEW tr \in Transition, <<t, p, d>> \in Keeps[tr]
          PROVE  <<t, p, d>> \in kk[tr]
      <4>1. <<t, p, d>>[1] = t
        OBVIOUS
      <4> QED
        BY <2>2, <3>1, <4>1
    <3>2. Settled(Now, Keeps, t)
      BY <1>1 DEF AllSettled
    <3> QED
      BY <2>2, <3>1, <3>2, SameForms DEF Settled
  <2> QED
    BY <2>1, <2>2
<1>3. ASSUME NEW tr \in Transition, NEW k \in kk[tr]
      PROVE  Booked(AfterOf(tx), k[1], k[2], k[3], tr)
  <2>1. k[1] \in Token
    BY KeyParts
  <2>2. Same(AfterOf(tx), k[1]) /\ k \in Keeps[tr]
    BY <2>1
  <2>3. Booked(Now, k[1], k[2], k[3], tr)
    BY <1>1, <2>2 DEF AllSettled
  <2> QED
    BY <2>2, <2>3, SameForms
<1> QED
  BY <1>2, <1>3 DEF AllSettled

\* A committed transaction adds a revision to the backlog, an applied one is
\* taken off its head.
LEMMA ChainAppend ==
  ASSUME NEW s, NEW revs \in Seq(Revision), NEW r \in Revision, Chain(s, revs),
         \A t \in Token : Follows(View(Last(s, revs), t), r.evs, View(r.after, t), t)
  PROVE  /\ Append(revs, r) \in Seq(Revision)
         /\ Chain(s, Append(revs, r)) /\ Last(s, Append(revs, r)) = r.after
<1> DEFINE all == Append(revs, r)
           n == Len(revs)
<1>1. /\ n \in Nat /\ Len(all) = n + 1 /\ all \in Seq(Revision)
      /\ \A i \in 1 .. n : all[i] = revs[i]
      /\ all[n + 1] = r
  OBVIOUS
<1>2. Last(s, revs) = IF n + 1 = 1 THEN s ELSE all[n + 1 - 1].after
  <2>1. n = 0 <=> revs = <<>>
    OBVIOUS
  <2>2. n # 0 => all[n + 1 - 1] = revs[n]
    BY <1>1
  <2> QED
    BY <1>1, <2>1, <2>2 DEF Last
<1>3. all # <<>>
  BY <1>1
<1> HIDE DEF all, n
<1>4. ASSUME NEW i \in 1 .. Len(all), NEW t \in Token
      PROVE  Follows(View(IF i = 1 THEN s ELSE all[i - 1].after, t), all[i].evs,
                     View(all[i].after, t), t)
  <2>1. CASE i = n + 1
    BY <1>1, <1>2, <2>1
  <2>2. CASE i # n + 1
    <3>1. i \in 1 .. n /\ all[i] = revs[i] /\ (i # 1 => all[i - 1] = revs[i - 1])
      BY <1>1, <2>2
    <3> QED
      BY <3>1 DEF Chain, n
  <2> QED
    BY <2>1, <2>2
<1> QED
  BY <1>1, <1>3, <1>4 DEF Chain, Last, all

LEMMA ChainTail ==
  ASSUME NEW s, NEW revs \in Seq(Revision), revs # <<>>, Chain(s, revs)
  PROVE  /\ Head(revs) \in Revision /\ Tail(revs) \in Seq(Revision)
         /\ \A t \in Token :
              Follows(View(s, t), Head(revs).evs, View(Head(revs).after, t), t)
         /\ Chain(Head(revs).after, Tail(revs))
         /\ Last(Head(revs).after, Tail(revs)) = Last(s, revs)
<1> DEFINE r == Head(revs)
           rest == Tail(revs)
           n == Len(revs)
<1>1. /\ n \in Nat /\ n >= 1 /\ r = revs[1] /\ r \in Revision
      /\ rest \in Seq(Revision) /\ Len(rest) = n - 1
      /\ \A i \in 1 .. n - 1 : rest[i] = revs[i + 1]
  OBVIOUS
<1>2. r.after = revs[1].after
  BY <1>1
<1> HIDE DEF r, rest, n
<1>3. rest = <<>> <=> n = 1
  BY <1>1
<1>4. \A t \in Token : Follows(View(s, t), r.evs, View(r.after, t), t)
  BY <1>1 DEF Chain, n
<1>5. ASSUME NEW i \in 1 .. Len(rest), NEW t \in Token
      PROVE  Follows(View(IF i = 1 THEN r.after ELSE rest[i - 1].after, t), rest[i].evs,
                     View(rest[i].after, t), t)
  <2>1. i + 1 \in 1 .. n /\ i + 1 # 1 /\ i + 1 - 1 = i /\ rest[i] = revs[i + 1]
    BY <1>1
  <2>2. Follows(View(revs[i].after, t), revs[i + 1].evs, View(revs[i + 1].after, t), t)
    BY <2>1 DEF Chain, n
  <2>3. i # 1 => rest[i - 1] = revs[i]
    BY <1>1
  <2> QED
    BY <1>2, <2>1, <2>2, <2>3
<1>6. Last(r.after, rest) = Last(s, revs)
  <2>1. n # 1 => rest[n - 1] = revs[n]
    BY <1>1
  <2> QED
    BY <1>1, <1>2, <1>3, <2>1 DEF Last, n
<1> QED
  BY <1>1, <1>4, <1>5, <1>6 DEF Chain, r, rest

\* The transaction as an action; it puts keys of the right form.
TxnOf(tx) == Txn(tx[1], tx[2], tx[3], tx[4])
WellTyped(tx) == tx[3] \subseteq TokenKey /\ tx[4] \subseteq TakenKey

\* What a committed transaction does to the variables.
LEMMA Written ==
  ASSUME NEW tx, TxnOf(tx)
  PROVE  /\ Now' = AfterOf(tx)
         /\ tokenKeys' = AfterOf(tx).tokens /\ takenKeys' = AfterOf(tx).taken
         /\ phase' = phase /\ seen' = seen /\ net' = net /\ told' = told
         /\ backlog' = IF Loaded /\ EventsOf(tx) # {}
                       THEN Append(backlog, [evs |-> EventsOf(tx), after |-> AfterOf(tx)])
                       ELSE backlog
<1>1. /\ tokenKeys' = AfterOf(tx).tokens /\ takenKeys' = AfterOf(tx).taken
      /\ phase' = phase /\ seen' = seen /\ net' = net /\ told' = told
      /\ backlog' = IF Loaded /\ EventsOf(tx) # {}
                    THEN Append(backlog, [evs |-> EventsOf(tx), after |-> AfterOf(tx)])
                    ELSE backlog
  BY DEF TxnOf, Txn, AfterOf, EventsOf
<1>2. AfterOf(tx) = [tokens |-> AfterOf(tx).tokens, taken |-> AfterOf(tx).taken]
  BY DEF AfterOf, After
<1> QED
  BY <1>1, <1>2 DEF Now

\* Transactions name keys of the net.
LEMMA TxTypes ==
  ASSUME StoreTypes, NEW tx, WellTyped(tx)
  PROVE  /\ AfterOf(tx) \in Snapshot /\ EventsOf(tx) \in SUBSET Reported
         /\ AfterOf(tx).tokens \subseteq tokenKeys \cup tx[3]
         /\ EventsOf(tx) = {} => AfterOf(tx) = Now
<1>1. AfterOf(tx).tokens \subseteq tokenKeys \cup tx[3]
  BY DEF AfterOf, After
<1>2. AfterOf(tx) \in Snapshot
  <2>1. AfterOf(tx).tokens \subseteq TokenKey /\ AfterOf(tx).taken \subseteq TakenKey
    BY DEF AfterOf, After, StoreTypes, WellTyped
  <2>2. AfterOf(tx) = [tokens |-> AfterOf(tx).tokens, taken |-> AfterOf(tx).taken]
    BY DEF AfterOf, After
  <2> QED
    BY <2>1, <2>2 DEF Snapshot
<1>3. \A k \in tokenKeys \cup tx[3] \cup takenKeys \cup tx[4] :
        k[1] \in Token /\ k[2] \in Place /\ k[3] \in Data \cup Transition
  BY KeyParts, TakenKeyParts DEF StoreTypes, WellTyped
<1>4. \A k \in tokenKeys \cup tx[3] \cup takenKeys \cup tx[4] : \A kind \in Kinds :
        Event(kind, k[1], k[2], k[3]) \in Reported
  BY <1>3 DEF Event, Reported
<1>5. EventsOf(tx) \in SUBSET Reported
  <2>1. ASSUME NEW e \in EventsOf(tx) PROVE e \in Reported
    <3> DEFINE put(k) == IF TokenAt(k[1], k[2]) THEN "updated" ELSE "created"
    <3>1. \/ \E k \in tokenKeys : e = Event("destroyed", k[1], k[2], k[3])
          \/ \E k \in takenKeys : e = Event("released", k[1], k[2], k[3])
          \/ \E k \in tx[3] : e = Event(put(k), k[1], k[2], k[3])
          \/ \E k \in tx[4] : e = Event("taken", k[1], k[2], k[3])
      BY DEF EventsOf, Events
    <3>2. \A k : put(k) \in Kinds
      BY DEF Kinds
    <3> HIDE DEF put
    <3>3. {"destroyed", "released", "taken"} \subseteq Kinds
      BY DEF Kinds
    <3> QED
      BY <1>4, <3>1, <3>2, <3>3
  <2> QED
    BY <2>1
<1>6. ASSUME EventsOf(tx) = {} PROVE AfterOf(tx) = Now
  <2>1. /\ tx[3] = {} /\ tx[4] = {}
        /\ \A k \in tokenKeys : <<k[1], k[2]>> \notin tx[1]
        /\ \A k \in takenKeys : <<k[1], k[2]>> \notin tx[1] /\ k \notin tx[2]
    BY <1>6 DEF EventsOf, Events
  <2> QED
    BY <2>1 DEF AfterOf, After, Now
<1> QED
  BY <1>1, <1>2, <1>5, <1>6

\* The watch keeps up with a transaction that every token is tracked through.
LEMMA WatchStep ==
  ASSUME StoreTypes, WatchInv, NetInv, NEW tx, TxnOf(tx), WellTyped(tx),
         \A t \in Token : Tracked(tx, t)
  PROVE  WatchInv' /\ NetInv'
<1> DEFINE r == [evs |-> EventsOf(tx), after |-> AfterOf(tx)]
<1>1. r \in Revision
  BY TxTypes DEF Revision
<1>2. /\ phase' = phase /\ seen' = seen /\ net' = net /\ told' = told
      /\ Now' = AfterOf(tx)
      /\ backlog' = IF Loaded /\ EventsOf(tx) # {} THEN Append(backlog, r) ELSE backlog
  BY Written
<1> HIDE DEF r
<1>3. /\ backlog \in Seq(Revision) /\ seen \in Snapshot
      /\ ~Loaded => backlog = <<>>
      /\ Loaded => Chain(seen, backlog) /\ Now = Last(seen, backlog)
  BY DEF WatchInv
<1>4. /\ backlog' \in Seq(Revision)
      /\ ~Loaded => backlog' = <<>>
      /\ Loaded => Chain(seen, backlog') /\ Now' = Last(seen, backlog')
  <2>1. CASE ~Loaded
    BY <1>2, <1>3, <2>1
  <2>2. CASE Loaded /\ EventsOf(tx) = {}
    <3>1. AfterOf(tx) = Now /\ backlog' = backlog
      BY <1>2, <2>2, TxTypes
    <3> QED
      BY <1>2, <1>3, <2>2, <3>1
  <2>3. CASE Loaded /\ EventsOf(tx) # {}
    <3>1. backlog' = Append(backlog, r)
      BY <1>2, <2>3
    <3>2. r.evs = EventsOf(tx) /\ r.after = AfterOf(tx)
      BY DEF r
    <3>3. \A t \in Token : Follows(View(Last(seen, backlog), t), r.evs, View(r.after, t), t)
      BY <1>3, <2>3, <3>2 DEF Tracked
    <3>4. /\ Append(backlog, r) \in Seq(Revision) /\ Chain(seen, Append(backlog, r))
          /\ Last(seen, Append(backlog, r)) = r.after
      BY <1>1, <1>3, <2>3, <3>3, ChainAppend
    <3> QED
      BY <1>2, <2>3, <3>1, <3>2, <3>4
  <2> QED
    BY <2>1, <2>2, <2>3
<1>5. WatchInv'
  <2>1. /\ phase' \in {"down", "loaded", "watching"} /\ seen' \in Snapshot
        /\ (Loaded' <=> Loaded) /\ seen' = seen
    BY <1>2, <1>3 DEF WatchInv, Loaded
  <2> QED
    BY <1>4, <2>1 DEF WatchInv
<1>6. NetInv'
  BY <1>2 DEF NetInv, Loaded
<1> QED
  BY <1>5, <1>6

\* A transaction that leaves every token settled keeps the whole invariant.
LEMMA Committed ==
  ASSUME SyncInv, NEW tx, TxnOf(tx), WellTyped(tx), \A t \in Token : Tracked(tx, t),
         NEW tk \in [Transition -> SUBSET TokenKey], takes' = tk,
         NEW st, strayed' = st, st \subseteq created', \A t \in st : Absent(AfterOf(tx), t),
         AllSettled(AfterOf(tx), KeptOf(tk, st)), Unique(tk),
         busy' \in [Transition -> BOOLEAN],
         \A tr \in Transition : ~busy'[tr] => tk[tr] = {},
         \A tr \in Transition : \A k \in tk[tr] : k[2] \in InPlaces[tr] /\ k[1] \in created',
         created \subseteq created', created' \subseteq Token, \A k \in tx[3] : k[1] \in created'
  PROVE  SyncInv'
<1>1. StoreTypes /\ WatchInv /\ NetInv
  BY DEF SyncInv
<1>2. /\ tokenKeys' = AfterOf(tx).tokens /\ takenKeys' = AfterOf(tx).taken
      /\ AfterOf(tx).tokens \subseteq tokenKeys \cup tx[3]
  BY <1>1, Written, TxTypes
<1>3. AfterOf(tx) \in Snapshot
  BY <1>1, TxTypes
<1>4. StoreTypes'
  <2>1. tokenKeys' \subseteq TokenKey /\ takenKeys' \subseteq TakenKey
    BY <1>2, <1>3 DEF Snapshot
  <2>2. \A k \in tokenKeys' : k[1] \in created'
    BY <1>1, <1>2 DEF StoreTypes
  <2>3. Unique(takes)'
    BY DEF Unique
  <2> QED
    BY <2>1, <2>2, <2>3 DEF StoreTypes
<1>5. Coherent(AfterOf(tx), KeptOf(tk, st))
  BY <1>3, CoherentSettled, KeptTypes
<1>6. StoreCoherent'
  <2>1. \A tr \in Transition : Kept(tr)' = KeptOf(tk, st)[tr]
    BY KeptTypes DEF Kept
  <2>2. UNION {{<<k[1], k[2], tr>> : k \in Kept(tr)'} : tr \in Transition}
          = UNION {{<<k[1], k[2], tr>> : k \in KeptOf(tk, st)[tr]} : tr \in Transition}
    BY <2>1
  <2>3. \A k \in tokenKeys' : k[1] \notin st
    BY <1>2 DEF Absent, TokenKeysOf
  <2> QED
    BY <1>2, <1>5, <2>1, <2>2, <2>3 DEF StoreCoherent, Coherent
<1>7. WatchInv' /\ NetInv'
  BY <1>1, WatchStep
<1> QED
  BY <1>4, <1>6, <1>7 DEF SyncInv

\* The steps of the next-state relation, one by one.
LEMMA StartStep ==
  ASSUME SyncInv, NEW tr \in Transition, StartTransition(tr), NEW s, s = Now'
  PROVE  /\ SyncInv' /\ created' = created /\ strayed' = strayed
         /\ \A t \in Token : Same(s, t) \/ Fired(s, t, tr)
<1>1. PICK S \in SUBSET Available(tr) :
        takes' = [takes EXCEPT ![tr] = S] /\ Txn({}, {}, {}, {<<k[1], k[2], tr>> : k \in S})
  BY DEF StartTransition
<1>2. /\ ~busy[tr] /\ busy' = [busy EXCEPT ![tr] = TRUE]
      /\ created' = created /\ strayed' = strayed
  BY DEF StartTransition
<1>3. PICK tx : tx = BookingOf(tr, S)
  OBVIOUS
<1>4. PICK tk : tk = [takes EXCEPT ![tr] = S]
  OBVIOUS
<1>5. TxnOf(tx)
  BY <1>1, <1>3 DEF TxnOf, BookingOf
<1>6. StoreTypes /\ StoreCoherent
  BY DEF SyncInv
<1>7. /\ takes[tr] = {}
      /\ takes \in [Transition -> SUBSET TokenKey]
      /\ busy \in [Transition -> BOOLEAN]
  BY <1>2, <1>6 DEF StoreTypes
<1>8. \A k \in S : /\ k \in TokenKey /\ k[2] \in InPlaces[tr]
                  /\ <<k[1], k[2], tr>> \in TakenKey
  BY <1>6, KeyParts DEF Available, StoreTypes, TakenKey
<1>9. WellTyped(tx)
  BY <1>3, <1>8 DEF WellTyped, BookingOf
<1>10. \A t : Tracked(tx, t)
  BY <1>3, <1>6, StartParts
<1>11. /\ AllSettled(AfterOf(tx), KeptOf(tk, strayed))
       /\ \A t \in strayed : Absent(AfterOf(tx), t)
       /\ Unique(tk) /\ \A v \in Transition : \A k \in tk[v] : k[1] \in created
  BY <1>3, <1>4, <1>6, <1>7, SettledStart
<1>12. /\ tk \in [Transition -> SUBSET TokenKey] /\ takes' = tk
       /\ \A v \in Transition : tk[v] = IF v = tr THEN S ELSE takes[v]
  BY <1>1, <1>4, <1>7, <1>8
<1>13. busy' \in [Transition -> BOOLEAN] /\ \A v \in Transition : ~busy'[v] => v # tr /\ ~busy[v]
  BY <1>2, <1>7
<1>14. \A v \in Transition : ~busy'[v] => tk[v] = {}
  BY <1>6, <1>12, <1>13 DEF StoreTypes
<1>15. \A v \in Transition : \A k \in tk[v] : k[2] \in InPlaces[v] /\ k[1] \in created'
  BY <1>2, <1>6, <1>8, <1>11, <1>12 DEF StoreTypes
<1>16. /\ strayed \subseteq created' /\ created \subseteq created'
       /\ created' \subseteq Token /\ \A k \in tx[3] : k[1] \in created'
  BY <1>2, <1>3, <1>6 DEF StoreTypes, BookingOf
<1>17. SyncInv'
  BY <1>2, <1>5, <1>9, <1>10, <1>11, <1>12, <1>13, <1>14, <1>15, <1>16, Committed
<1>18. s = AfterOf(tx)
  BY <1>5, Written
<1>19. ASSUME NEW t \in Token PROVE Same(s, t) \/ Fired(s, t, tr)
  <2>1. \/ Same(AfterOf(tx), t)
        \/ \E k \in S : /\ k[1] = t /\ k[2] \in InPlaces[tr] /\ k[3] \in Data
                        /\ Resting(Now, t, k[2], k[3])
                        /\ Booked(AfterOf(tx), t, k[2], k[3], tr)
    BY <1>3, <1>6, StartParts
  <2>2. CASE Same(AfterOf(tx), t)
    BY <1>18, <2>2
  <2>3. ASSUME NEW k \in S, k[2] \in InPlaces[tr], k[3] \in Data,
               Resting(Now, t, k[2], k[3]), Booked(AfterOf(tx), t, k[2], k[3], tr)
        PROVE  Fired(s, t, tr)
    BY <1>18, <2>3 DEF Fired
  <2> QED
    BY <2>1, <2>2, <2>3
<1> QED
  BY <1>2, <1>17, <1>19

\* What the end of a firing does to a token, where the tokens st are lost then.
LetGo(s, t, tr, st) ==
  \/ /\ Same(s, t) /\ (t \in st => t \in strayed)
     /\ \A k \in takes[tr] : k[1] = t => t \in strayed
  \/ Finished(s, t, tr) /\ t \notin st
  \/ Restored(s, t, tr) /\ t \notin st
  \/ Appeared(s, t, OutPlaces[tr]) /\ t \in created' /\ t \notin st
  \/ Swept(s, t, tr) /\ t \in st

\* The end of a firing, in whatever way.
LEMMA Released ==
  ASSUME SyncInv, NEW tr \in Transition, NEW tx, TxnOf(tx), WellTyped(tx),
         busy' = [busy EXCEPT ![tr] = FALSE], takes' = [takes EXCEPT ![tr] = {}],
         NEW st, strayed' = st, st \subseteq created,
         \A t \in strayed \ st : \E k \in takes[tr] : k[1] = t,
         \A t \in Token : Tracked(tx, t) /\ LetGo(AfterOf(tx), t, tr, st),
         created \subseteq created', created' \subseteq Token, \A k \in tx[3] : k[1] \in created'
  PROVE  SyncInv'
<1>1. StoreTypes /\ StoreCoherent /\ OutPlaces[tr] \subseteq Place
  BY NetSyncAssumption DEF SyncInv
<1>2. takes \in [Transition -> SUBSET TokenKey] /\ busy \in [Transition -> BOOLEAN]
  BY <1>1 DEF StoreTypes
<1>3. PICK tk : tk = [takes EXCEPT ![tr] = {}]
  OBVIOUS
<1>4. /\ tk \in [Transition -> SUBSET TokenKey] /\ takes' = tk
      /\ \A v \in Transition : tk[v] = IF v = tr THEN {} ELSE takes[v]
  BY <1>2, <1>3
<1> DEFINE kk == KeptOf(tk, st)
<1>5. /\ kk \in [Transition -> SUBSET TokenKey]
      /\ \A v \in Transition : \A k : k \in kk[v] <=> v # tr /\ k \in takes[v] /\ k[1] \notin st
  BY <1>4, KeptTypes
<1>6. \A v \in Transition : \A k : k \in Keeps[v] <=> k \in takes[v] /\ k[1] \notin strayed
  BY <1>1, KeepsAre
<1> HIDE DEF kk
<1>7. ASSUME NEW k \in takes[tr], NEW v \in Transition, NEW j \in takes[v], j[1] = k[1], v # tr
      PROVE  FALSE
  BY <1>1, <1>7, TakenBooked
<1>8. ASSUME NEW t \in Token
      PROVE  \/ /\ Same(AfterOf(tx), t)
                /\ \A v \in Transition : \A k : k[1] = t => (k \in Keeps[v] <=> k \in kk[v])
             \/ /\ Absent(AfterOf(tx), t) \/ Placed(AfterOf(tx), t, Place)
                /\ \A v \in Transition : \A k \in kk[v] : k[1] # t
  <2>1. CASE /\ Same(AfterOf(tx), t) /\ (t \in st => t \in strayed)
             /\ \A k \in takes[tr] : k[1] = t => t \in strayed
    <3>1. ASSUME NEW v \in Transition, NEW k \in Keeps[v], k[1] = t PROVE k \in kk[v]
      BY <1>5, <1>6, <2>1, <3>1
    <3>2. ASSUME NEW v \in Transition, NEW k \in kk[v], k[1] = t PROVE k \in Keeps[v]
      <4>1. k \in takes[v] /\ v # tr /\ t \notin st
        BY <1>5, <3>2
      <4>2. t \notin strayed
        BY <1>7, <3>2, <4>1
      <4> QED
        BY <1>6, <3>2, <4>1, <4>2
    <3> QED
      BY <2>1, <3>1, <3>2
  <2>2. CASE Finished(AfterOf(tx), t, tr)
    <3>1. PICK p \in Place, d \in Data :
            /\ <<t, p, d>> \in takes[tr]
            /\ Absent(AfterOf(tx), t) \/ Placed(AfterOf(tx), t, {p} \cup OutPlaces[tr])
      BY <2>2 DEF Finished
    <3>2. Absent(AfterOf(tx), t) \/ Placed(AfterOf(tx), t, Place)
      BY <1>1, <3>1 DEF Placed
    <3>3. <<t, p, d>>[1] = t
      OBVIOUS
    <3>4. ASSUME NEW v \in Transition, NEW k \in kk[v], k[1] = t PROVE FALSE
      BY <1>5, <1>7, <3>1, <3>3, <3>4
    <3> QED
      BY <3>2, <3>4
  <2>3. CASE Restored(AfterOf(tx), t, tr)
    <3>1. PICK j \in takes[tr] : j[1] = t
      BY <2>3 DEF Restored
    <3>2. ASSUME NEW v \in Transition, NEW k \in kk[v], k[1] = t PROVE FALSE
      BY <1>5, <1>7, <3>1, <3>2
    <3> QED
      BY <2>3, <3>2 DEF Restored
  <2>4. CASE Appeared(AfterOf(tx), t, OutPlaces[tr])
    <3>1. t \notin created /\ Placed(AfterOf(tx), t, Place)
      BY <1>1, <2>4 DEF Appeared, Placed
    <3>2. ASSUME NEW v \in Transition, NEW k \in kk[v], k[1] = t PROVE FALSE
      BY <1>1, <1>5, <3>1, <3>2, TakenBooked
    <3> QED
      BY <3>1, <3>2
  <2>5. CASE Swept(AfterOf(tx), t, tr) /\ t \in st
    BY <1>5, <2>5 DEF Swept
  <2> QED
    BY <2>1, <2>2, <2>3, <2>4, <2>5 DEF LetGo
<1>9. AllSettled(AfterOf(tx), KeptOf(tk, st))
  BY <1>1, <1>5, <1>8, SettledAfter DEF kk
<1>10. ASSUME NEW t \in st PROVE Absent(AfterOf(tx), t)
  <2>1. t \in Token /\ \A u \in strayed : Absent(Now, u)
    BY <1>1, StoreSettled DEF StoreTypes
  <2>2. CASE Same(AfterOf(tx), t) /\ t \in strayed
    BY <2>1, <2>2, SameForms
  <2>3. CASE Swept(AfterOf(tx), t, tr)
    BY <2>3 DEF Swept
  <2> QED
    BY <2>1, <2>2, <2>3 DEF LetGo
<1>11. busy' \in [Transition -> BOOLEAN] /\ \A v \in Transition : ~busy'[v] => v = tr \/ ~busy[v]
  BY <1>2
<1>12. \A v \in Transition : ~busy'[v] => tk[v] = {}
  BY <1>1, <1>4, <1>11 DEF StoreTypes
<1>13. \A v \in Transition : \A k \in tk[v] : k[2] \in InPlaces[v] /\ k[1] \in created'
  BY <1>1, <1>4 DEF StoreTypes
<1>14. Unique(tk)
  BY <1>1, <1>4 DEF StoreTypes, Unique
<1>15. st \subseteq created'
  OBVIOUS
<1> QED
  BY <1>4, <1>9, <1>10, <1>11, <1>12, <1>13, <1>14, <1>15, Committed

LEMMA EndStep ==
  ASSUME SyncInv, NEW tr \in Transition, EndTransition(tr), NEW s, s = Now'
  PROVE  /\ SyncInv' /\ created \subseteq created'
         /\ \A t \in Token : LetGo(s, t, tr, strayed')
<1>1. StoreTypes /\ StoreCoherent /\ OutPlaces[tr] \subseteq Place
  BY NetSyncAssumption DEF SyncInv
<1>2. PICK fate, new :
        /\ new \in {{}}
             \cup {{<<v, p, d>>} : v \in Token \ created, p \in OutPlaces[tr], d \in Data}
        /\ Release(tr, fate, new)
  BY DEF EndTransition
<1>3. PICK tx : tx = ReleaseOf(tr, fate, new)
  OBVIOUS
<1>4. tx[3] = ({fate[k] : k \in takes[tr]} \ {<<>>}) \cup new /\ tx[4] = {}
  BY <1>3 DEF ReleaseOf
<1>5. TxnOf(tx)
  BY <1>2, <1>3 DEF TxnOf, Release, ReleaseOf
<1>6. \A k \in takes[tr] : fate[k] \in Fates(tr, k)
  BY <1>2 DEF Release
<1>7. /\ created' = created \cup {k[1] : k \in new}
      /\ strayed' = (strayed \ {k[1] : k \in takes[tr]}) \cup Struck(tr, tx[1])
  BY <1>2, <1>3 DEF Release, ReleaseOf, Ids
<1>8. /\ \A k \in new : /\ k[1] \in Token \ created /\ k[2] \in OutPlaces[tr] /\ k[3] \in Data
                       /\ new = {<<k[1], k[2], k[3]>>} /\ k = <<k[1], k[2], k[3]>>
  BY <1>2
<1>9. busy' = [busy EXCEPT ![tr] = FALSE] /\ takes' = [takes EXCEPT ![tr] = {}]
  BY DEF EndTransition
<1>10. PICK st : st = strayed'
  OBVIOUS
<1>11. /\ \A t \in strayed \ st : \E k \in takes[tr] : k[1] = t
       /\ \A t \in st : \/ t \in strayed /\ \A k \in takes[tr] : k[1] # t
                       \/ t \in Struck(tr, tx[1])
       /\ \A t \in Struck(tr, tx[1]) : t \in st /\ t \in created /\ \A k \in takes[tr] : k[1] # t
       /\ st \subseteq created
  <2>1. ASSUME NEW t \in Struck(tr, tx[1]) PROVE t \in created /\ \A k \in takes[tr] : k[1] # t
    <3>1. /\ \E k \in TokenKeysOf(Now, t) : <<t, k[2]>> \in tx[1]
          /\ \A k \in takes[tr] : k[1] # t
      BY StruckHas
    <3> QED
      BY <1>1, <3>1 DEF TokenKeysOf, Now, StoreTypes
  <2> QED
    BY <1>1, <1>7, <1>10, <2>1 DEF StoreTypes
<1>12. ASSUME NEW t \in Token
       PROVE  Tracked(tx, t) /\ LetGo(AfterOf(tx), t, tr, st)
  <2>1. Fated(tr, fate, new)
    BY <1>6, <1>8 DEF Fated
  <2>2. Admitted(tx[1], tx[3])
    BY <1>5 DEF TxnOf, Txn
  <2>3. /\ Tracked(tx, t)
        /\ \/ /\ Same(AfterOf(tx), t) /\ t \notin Struck(tr, tx[1])
              /\ \A k \in takes[tr] : k[1] = t => t \in strayed
           \/ Finished(AfterOf(tx), t, tr)
           \/ Restored(AfterOf(tx), t, tr)
           \/ Appeared(AfterOf(tx), t, OutPlaces[tr]) /\ \E k \in new : k[1] = t
           \/ Swept(AfterOf(tx), t, tr) /\ t \in Struck(tr, tx[1])
    BY <1>1, <1>3, <2>1, <2>2, EndParts
  <2>4. ASSUME \E k \in takes[tr] : k[1] = t PROVE t \notin st
    BY <1>11, <2>4
  <2>5. CASE /\ Same(AfterOf(tx), t) /\ t \notin Struck(tr, tx[1])
             /\ \A k \in takes[tr] : k[1] = t => t \in strayed
    BY <1>11, <2>3, <2>5 DEF LetGo
  <2>6. CASE Finished(AfterOf(tx), t, tr)
    <3>1. PICK p, d : <<t, p, d>> \in takes[tr]
      BY <2>6 DEF Finished
    <3>2. <<t, p, d>>[1] = t
      OBVIOUS
    <3>3. t \notin st
      BY <2>4, <3>1, <3>2
    <3> QED
      BY <2>3, <2>6, <3>3 DEF LetGo
  <2>7. CASE Restored(AfterOf(tx), t, tr)
    <3>1. t \notin st
      BY <2>4, <2>7 DEF Restored
    <3> QED
      BY <2>3, <2>7, <3>1 DEF LetGo
  <2>8. CASE Appeared(AfterOf(tx), t, OutPlaces[tr]) /\ \E k \in new : k[1] = t
    <3>1. t \notin st /\ t \in created'
      BY <1>7, <1>11, <2>8 DEF Appeared
    <3> QED
      BY <2>3, <2>8, <3>1 DEF LetGo
  <2>9. CASE Swept(AfterOf(tx), t, tr) /\ t \in Struck(tr, tx[1])
    BY <1>11, <2>3, <2>9 DEF LetGo
  <2> QED
    BY <2>3, <2>5, <2>6, <2>7, <2>8, <2>9
<1>13. \A k \in tx[3] : k \in TokenKey /\ k[1] \in created'
  <2>1. ASSUME NEW k \in takes[tr], fate[k] # <<>>
          PROVE fate[k] \in TokenKey /\ fate[k][1] \in created'
    <3>1. k[1] \in Token /\ k[2] \in Place /\ k[1] \in created
      BY <1>1, TakenBooked
    <3>2. PICK q \in OutPlaces[tr] \cup {k[2]}, d \in Data : fate[k] = <<k[1], q, d>>
      BY <1>6, <2>1 DEF Fates
    <3>3. q \in Place
      BY <1>1, <3>1
    <3> QED
      BY <1>7, <3>1, <3>2, <3>3 DEF TokenKey
  <2>2. \A k \in new : k \in TokenKey /\ k[1] \in created'
    BY <1>1, <1>7, <1>8 DEF TokenKey
  <2> QED
    BY <1>4, <2>1, <2>2
<1>14. WellTyped(tx)
  BY <1>4, <1>13 DEF WellTyped
<1>15. created \subseteq created' /\ created' \subseteq Token
  BY <1>1, <1>7, <1>8 DEF StoreTypes
<1>16. SyncInv'
  BY <1>5, <1>9, <1>10, <1>11, <1>12, <1>13, <1>14, <1>15, Released
<1>17. s = AfterOf(tx)
  BY <1>5, Written
<1> QED
  BY <1>10, <1>12, <1>15, <1>16, <1>17

LEMMA CancelStep ==
  ASSUME SyncInv, NEW tr \in Transition, CancelRunning(tr), NEW s, s = Now'
  PROVE  /\ SyncInv' /\ created' = created /\ strayed' = strayed
         /\ \A t \in Token : LetGo(s, t, tr, strayed')
<1>1. StoreTypes /\ StoreCoherent
  BY DEF SyncInv
<1>2. PICK back : back = {k \in tokenKeys : <<k[1], k[2], tr>> \in takenKeys}
  OBVIOUS
<1>3. PICK tx : tx = <<{}, {<<k[1], k[2], tr>> : k \in back}, back, {}>>
  OBVIOUS
<1>4. /\ TxnOf(tx) /\ created' = created /\ strayed' = strayed
      /\ busy' = [busy EXCEPT ![tr] = FALSE] /\ takes' = [takes EXCEPT ![tr] = {}]
  BY <1>2, <1>3 DEF CancelRunning, TxnOf
<1>5. ASSUME NEW t \in Token PROVE Tracked(tx, t) /\ LetGo(AfterOf(tx), t, tr, strayed)
  <2>1. /\ Tracked(tx, t)
        /\ \/ Same(AfterOf(tx), t) /\ \A k \in takes[tr] : k[1] = t => t \in strayed
           \/ Finished(AfterOf(tx), t, tr)
    BY <1>1, <1>2, <1>3, CancelParts
  <2>2. CASE Finished(AfterOf(tx), t, tr)
    <3>1. ~Absent(Now, t)
      BY <2>2, FormsExclude DEF Finished
    <3>2. t \notin strayed
      BY <1>1, <3>1, StoreSettled
    <3> QED
      BY <2>1, <2>2, <3>2 DEF LetGo
  <2> QED
    BY <2>1, <2>2 DEF LetGo
<1>6. created \subseteq created' /\ created' \subseteq Token /\ strayed \subseteq created
  BY <1>1, <1>4 DEF StoreTypes
<1>7. WellTyped(tx) /\ \A k \in tx[3] : k[1] \in created'
  BY <1>1, <1>2, <1>3, <1>4 DEF WellTyped, StoreTypes
<1>8. \A t \in strayed \ strayed : \E k \in takes[tr] : k[1] = t
  OBVIOUS
<1>9. SyncInv'
  BY <1>4, <1>5, <1>6, <1>7, <1>8, Released
<1>10. s = AfterOf(tx)
  BY <1>4, Written
<1> QED
  BY <1>4, <1>5, <1>9, <1>10

\* Somebody edits one token and leaves the others alone.
LEMMA OneEdited ==
  ASSUME SyncInv, NEW tx, TxnOf(tx), WellTyped(tx), NEW v,
         \A t : /\ Tracked(tx, t)
                /\ IF v = t THEN Appeared(AfterOf(tx), t, Place) \/ Edited(AfterOf(tx), t)
                            ELSE Same(AfterOf(tx), t),
         busy' = busy, takes' = takes, strayed' = strayed,
         created \subseteq created', created' \subseteq Token, \A k \in tx[3] : k[1] \in created'
  PROVE  SyncInv'
<1>1. StoreTypes /\ StoreCoherent
  BY DEF SyncInv
<1>2. /\ takes \in [Transition -> SUBSET TokenKey] /\ busy' \in [Transition -> BOOLEAN]
      /\ \A tr \in Transition : ~busy'[tr] => takes[tr] = {}
      /\ \A tr \in Transition : \A k \in takes[tr] : k[2] \in InPlaces[tr] /\ k[1] \in created'
      /\ Unique(takes) /\ strayed \subseteq created'
  BY <1>1 DEF StoreTypes
<1>3. /\ Keeps \in [Transition -> SUBSET TokenKey]
      /\ \A tr \in Transition : \A k : k \in Keeps[tr] <=> k \in takes[tr] /\ k[1] \notin strayed
      /\ \A t \in strayed : t \in Token /\ Absent(Now, t)
  BY <1>1, KeepsAre, StoreSettled DEF StoreTypes
<1>4. ASSUME NEW tr \in Transition, NEW k \in Keeps[tr]
      PROVE  ~Absent(Now, k[1]) /\ \A p, d : ~Resting(Now, k[1], p, d)
  BY <1>1, <1>3, TakenBooked, FormsExclude
<1>5. ASSUME NEW t \in Token
      PROVE  \/ /\ Same(AfterOf(tx), t)
                /\ \A tr \in Transition : \A k : k[1] = t => (k \in Keeps[tr] <=> k \in Keeps[tr])
             \/ /\ Absent(AfterOf(tx), t) \/ Placed(AfterOf(tx), t, Place)
                /\ \A tr \in Transition : \A k \in Keeps[tr] : k[1] # t
  <2>1. CASE Appeared(AfterOf(tx), t, Place)
    <3>1. Absent(Now, t) /\ Placed(AfterOf(tx), t, Place)
      BY <2>1 DEF Appeared
    <3> QED
      BY <1>4, <3>1
  <2>2. CASE Edited(AfterOf(tx), t)
    <3>1. PICK p, d : Resting(Now, t, p, d)
      BY <2>2 DEF Edited
    <3>2. Absent(AfterOf(tx), t) \/ Placed(AfterOf(tx), t, Place)
      BY <2>2 DEF Edited
    <3> QED
      BY <1>4, <3>1, <3>2
  <2>3. CASE Same(AfterOf(tx), t)
    BY <2>3
  <2> QED
    BY <2>1, <2>2, <2>3
<1>6. AllSettled(AfterOf(tx), KeptOf(takes, strayed))
  BY <1>1, <1>3, <1>5, SettledAfter DEF Keeps
<1>7. ASSUME NEW t \in strayed PROVE Absent(AfterOf(tx), t)
  <2>1. t \in Token /\ Absent(Now, t) /\ t \in created
    BY <1>1, <1>3 DEF StoreTypes
  <2>2. ~Appeared(AfterOf(tx), t, Place)
    BY <2>1 DEF Appeared
  <2>3. ~Edited(AfterOf(tx), t)
    BY <2>1 DEF Edited, Absent, Resting
  <2> QED
    BY <2>1, <2>2, <2>3, SameForms
<1> QED
  BY <1>2, <1>6, <1>7, Committed

LEMMA EditStep ==
  ASSUME SyncInv, Edit, NEW s, s = Now'
  PROVE  /\ SyncInv' /\ created \subseteq created' /\ strayed' = strayed
         /\ \E v \in Token :
              /\ \A t \in Token : v # t => Same(s, t)
              /\ \/ Appeared(s, v, Place) /\ v \in created'
                 \/ Edited(s, v) /\ created' = created
<1>1. StoreTypes /\ StoreCoherent
  BY DEF SyncInv
<1>2. busy' = busy /\ takes' = takes /\ strayed' = strayed
  BY DEF Edit, firingVars
<1>3. CASE \E v \in Token, p \in Place, d \in Data :
             v \notin created /\ created' = created \cup {v} /\ Txn({}, {}, {<<v, p, d>>}, {})
  <2>1. PICK v \in Token, p \in Place, d \in Data :
          v \notin created /\ created' = created \cup {v} /\ Txn({}, {}, {<<v, p, d>>}, {})
    BY <1>3
  <2>2. PICK tx : tx = <<{}, {}, {<<v, p, d>>}, {}>>
    OBVIOUS
  <2>3. TxnOf(tx) /\ Insertion(tx, v, p, d)
    BY <2>1, <2>2 DEF TxnOf, Insertion
  <2>4. WellTyped(tx)
    BY <2>2 DEF WellTyped, TokenKey
  <2>5. \A t : Tracked(tx, t) /\ IF v = t THEN Appeared(AfterOf(tx), t, Place)
                                         ELSE Same(AfterOf(tx), t)
    BY <1>1, <2>3, EditParts
  <2>6. created \subseteq created' /\ created' \subseteq Token /\ \A k \in tx[3] : k[1] \in created'
    BY <1>1, <2>1, <2>2 DEF StoreTypes
  <2>7. SyncInv'
    BY <1>2, <2>3, <2>4, <2>5, <2>6, OneEdited
  <2>8. s = AfterOf(tx)
    BY <2>3, Written
  <2>9. (\A t \in Token : v # t => Same(s, t)) /\ Appeared(s, v, Place)
    BY <2>5, <2>8
  <2>10. v \in created'
    BY <2>1
  <2> QED
    BY <1>2, <2>6, <2>7, <2>9, <2>10
<1>4. CASE \E k \in tokenKeys, p \in Place, d \in Data :
             /\ ~TakenAt(k[1], k[2]) /\ created' = created
             /\ \/ k[2] = p /\ Txn({}, {}, {<<k[1], p, d>>}, {})
                \/ k[2] # p /\ Txn({<<k[1], k[2]>>}, {}, {<<k[1], p, d>>}, {})
                \/ Txn({<<k[1], k[2]>>}, {}, {}, {})
  <2>1. PICK k \in tokenKeys, p \in Place, d \in Data :
          /\ ~TakenAt(k[1], k[2]) /\ created' = created
          /\ \/ k[2] = p /\ Txn({}, {}, {<<k[1], p, d>>}, {})
             \/ k[2] # p /\ Txn({<<k[1], k[2]>>}, {}, {<<k[1], p, d>>}, {})
             \/ Txn({<<k[1], k[2]>>}, {}, {}, {})
    BY <1>4
  <2>2. k[1] \in Token /\ k[1] \in created
    BY <1>1, KeyParts DEF StoreTypes
  <2>3. PICK tx : TxnOf(tx) /\ EditOf(tx, k, p, d)
    <3>1. CASE k[2] = p /\ Txn({}, {}, {<<k[1], p, d>>}, {})
      <4>1. PICK tx : tx = <<{}, {}, {<<k[1], p, d>>}, {}>>
        OBVIOUS
      <4> QED
        BY <2>1, <3>1, <4>1 DEF TxnOf, EditOf
    <3>2. CASE k[2] # p /\ Txn({<<k[1], k[2]>>}, {}, {<<k[1], p, d>>}, {})
      <4>1. PICK tx : tx = <<{<<k[1], k[2]>>}, {}, {<<k[1], p, d>>}, {}>>
        OBVIOUS
      <4> QED
        BY <2>1, <3>2, <4>1 DEF TxnOf, EditOf
    <3>3. CASE Txn({<<k[1], k[2]>>}, {}, {}, {})
      <4>1. PICK tx : tx = <<{<<k[1], k[2]>>}, {}, {}, {}>>
        OBVIOUS
      <4> QED
        BY <2>1, <3>3, <4>1 DEF TxnOf, EditOf
    <3> QED
      BY <2>1, <3>1, <3>2, <3>3
  <2>4. tx[4] = {} /\ \A x \in tx[3] : x = <<k[1], p, d>>
    BY <2>3 DEF EditOf
  <2>5. WellTyped(tx)
    BY <2>2, <2>4 DEF WellTyped, TokenKey
  <2>6. \A t : Tracked(tx, t) /\ IF k[1] = t THEN Edited(AfterOf(tx), t)
                                            ELSE Same(AfterOf(tx), t)
    BY <1>1, <2>3, EditParts
  <2>7. created \subseteq created' /\ created' \subseteq Token /\ \A x \in tx[3] : x[1] \in created'
    BY <1>1, <2>1, <2>2, <2>4 DEF StoreTypes
  <2>8. SyncInv'
    BY <1>2, <2>3, <2>5, <2>6, <2>7, OneEdited
  <2>9. s = AfterOf(tx)
    BY <2>3, Written
  <2>10. (\A t \in Token : k[1] # t => Same(s, t)) /\ Edited(s, k[1])
    BY <2>6, <2>9
  <2> QED
    BY <1>2, <2>1, <2>2, <2>7, <2>8, <2>10
<1>5. PICK t \in Token, p \in Place, d \in Data :
        \/ t \notin created /\ created' = created \cup {t} /\ Txn({}, {}, {<<t, p, d>>}, {})
        \/ \E k \in tokenKeys :
             /\ k[1] = t /\ ~TakenAt(t, k[2])
             /\ \/ k[2] = p /\ Txn({}, {}, {<<t, p, d>>}, {})
                \/ k[2] # p /\ Txn({<<t, k[2]>>}, {}, {<<t, p, d>>}, {})
                \/ k[2] = p /\ k[3] = d /\ Txn({<<t, p>>}, {}, {}, {})
             /\ UNCHANGED created
  BY DEF Edit
<1>6. ASSUME NEW k \in tokenKeys, k[1] = t, ~TakenAt(t, k[2]), created' = created,
             \/ k[2] = p /\ Txn({}, {}, {<<t, p, d>>}, {})
             \/ k[2] # p /\ Txn({<<t, k[2]>>}, {}, {<<t, p, d>>}, {})
             \/ k[2] = p /\ k[3] = d /\ Txn({<<t, p>>}, {}, {}, {})
      PROVE  /\ ~TakenAt(k[1], k[2]) /\ created' = created
             /\ \/ k[2] = p /\ Txn({}, {}, {<<k[1], p, d>>}, {})
                \/ k[2] # p /\ Txn({<<k[1], k[2]>>}, {}, {<<k[1], p, d>>}, {})
                \/ Txn({<<k[1], k[2]>>}, {}, {}, {})
  <2>1. k[2] = p => Txn({<<t, p>>}, {}, {}, {}) = Txn({<<k[1], k[2]>>}, {}, {}, {})
    BY <1>6
  <2> QED
    BY <1>6, <2>1
<1> QED
  BY <1>3, <1>4, <1>5, <1>6

(***************************************************************************)
(* The runner.                                                             *)
(***************************************************************************)

\* What a load shows of a token.
LEMMA LoadShows ==
  ASSUME StoreTypes, StoreCoherent, NEW t \in Token
  PROVE  Observe(Unknown, LoadEvents, t) = View(Now, t)
<1> DEFINE evs == LoadEvents
<1>1. \A e : e \in evs <=> \/ \E k \in tokenKeys : e = Event("created", k[1], k[2], k[3])
                          \/ \E k \in takenKeys : e = Event("taken", k[1], k[2], k[3])
  BY DEF LoadEvents
<1> HIDE DEF evs
<1>2. Relevant(evs, t, "created") = Reports("created", t, TokenKeysOf(Now, t))
  <2>1. ASSUME NEW e \in Relevant(evs, t, "created")
          PROVE e \in Reports("created", t, TokenKeysOf(Now, t))
    BY <1>1 DEF Relevant, Reports, TokenKeysOf, Now, Event
  <2>2. ASSUME NEW e \in Reports("created", t, TokenKeysOf(Now, t))
          PROVE e \in Relevant(evs, t, "created")
    BY <1>1 DEF Relevant, Reports, TokenKeysOf, Now, Event
  <2> QED
    BY <2>1, <2>2
<1>3. Relevant(evs, t, "taken") = Reports("taken", t, TakenKeysOf(Now, t))
  <2>1. ASSUME NEW e \in Relevant(evs, t, "taken")
          PROVE e \in Reports("taken", t, TakenKeysOf(Now, t))
    BY <1>1 DEF Relevant, Reports, TakenKeysOf, Now, Event
  <2>2. ASSUME NEW e \in Reports("taken", t, TakenKeysOf(Now, t))
          PROVE e \in Relevant(evs, t, "taken")
    BY <1>1 DEF Relevant, Reports, TakenKeysOf, Now, Event
  <2> QED
    BY <2>1, <2>2
<1>4. None(evs, t, Kinds \ {"taken", "created"})
  BY <1>1 DEF None, Relevant, Event
<1>5. Settled(Now, Keeps, t)
  BY StoreSettled DEF AllSettled
<1>6. CASE Absent(Now, t)
  <2>1. None(evs, t, Kinds)
    BY <1>2, <1>3, <1>4, <1>6, ReportsNone DEF Absent, None
  <2> QED
    BY <1>6, <2>1, FollowsNothing, ViewOf DEF Follows, evs
<1>7. ASSUME NEW p, NEW d, Resting(Now, t, p, d) PROVE Observe(Unknown, evs, t) = View(Now, t)
  <2>1. /\ Relevant(evs, t, "created") = Reports("created", t, {<<t, p, d>>})
        /\ Relevant(evs, t, "taken") = {}
    BY <1>2, <1>3, <1>7, ReportsNone DEF Resting
  <2>2. CASE p \in Known
    <3>1. One(evs, t, Event("created", t, p, d)) /\ None(evs, t, Kinds \ {"created"})
      BY <1>4, <2>1, <2>2, ReportsKey, Fields DEF One, None
    <3>2. View(Now, t) = Rest(p, d)
      BY <1>7, <2>2, ViewOf
    <3> QED
      BY <2>2, <3>1, <3>2, FollowsNew DEF Follows
  <2>3. CASE p \notin Known
    <3>1. None(evs, t, Kinds)
      BY <1>4, <2>1, <2>3, ReportsKey DEF None
    <3>2. View(Now, t) = Unknown
      BY <1>7, <2>3, ViewOf
    <3> QED
      BY <3>1, <3>2, FollowsNothing DEF Follows
  <2> QED
    BY <2>2, <2>3
<1>8. ASSUME NEW p, NEW d, NEW tr, Booked(Now, t, p, d, tr)
      PROVE  Observe(Unknown, evs, t) = View(Now, t)
  <2>1. /\ Relevant(evs, t, "created") = Reports("created", t, {<<t, p, d>>})
        /\ Relevant(evs, t, "taken") = Reports("taken", t, {<<t, p, tr>>})
    BY <1>2, <1>3, <1>8 DEF Booked
  <2>2. CASE p \in Known
    <3>1. One(evs, t, Event("created", t, p, d)) /\ One(evs, t, Event("taken", t, p, tr))
      BY <2>1, <2>2, ReportsKey, Fields DEF One
    <3>2. View(Now, t) = Held(p, d, tr)
      BY <1>8, <2>2, ViewOf
    <3> QED
      BY <1>4, <2>2, <3>1, <3>2, FollowsLoad DEF Follows
  <2>3. CASE p \notin Known
    <3>1. None(evs, t, Kinds)
      BY <1>4, <2>1, <2>3, ReportsKey DEF None
    <3>2. View(Now, t) = Unknown
      BY <1>8, <2>3, ViewOf
    <3> QED
      BY <3>1, <3>2, FollowsNothing DEF Follows
  <2> QED
    BY <2>2, <2>3
<1> QED
  BY <1>5, <1>6, <1>7, <1>8 DEF Settled, evs

LEMMA LoadStep ==
  ASSUME SyncInv, Load
  PROVE  SyncInv'
<1>1. StoreTypes /\ StoreCoherent /\ WatchInv /\ NetInv
  BY DEF SyncInv
<1>2. /\ ~Loaded /\ Loaded' /\ phase' = "loaded"
      /\ seen' = Now /\ told' = Known /\ backlog' = backlog
      /\ net' = [t \in Token |-> Observe(Reset(net[t]), LoadEvents, t)]
      /\ UNCHANGED <<storeVars, firingVars>>
  BY DEF Load, Loaded, Now
<1>3. backlog = <<>> /\ net = [t \in Token |-> Unknown]
  BY <1>1, <1>2 DEF WatchInv, NetInv
<1>4. tokenKeys' = tokenKeys /\ takenKeys' = takenKeys /\ created' = created
      /\ busy' = busy /\ takes' = takes /\ strayed' = strayed
  BY <1>2 DEF storeVars, firingVars
<1>5. Reset(Unknown) = Unknown
  BY DEF Reset, Unknown
<1>6. net' = [t \in Token |-> View(Now, t)]
  <2>1. \A t \in Token : Observe(Reset(net[t]), LoadEvents, t) = View(Now, t)
    BY <1>1, <1>3, <1>5, LoadShows
  <2> QED
    BY <1>2, <2>1
<1>7. Now' = Now /\ Now \in Snapshot
  BY <1>1, <1>4 DEF Now, Snapshot, StoreTypes
<1>8. StoreTypes' /\ StoreCoherent'
  BY <1>1, <1>4 DEF StoreTypes, StoreCoherent, Kept, Unique
<1>9. WatchInv'
  <2>1. Chain(Now, <<>>) /\ Last(Now, <<>>) = Now /\ <<>> \in Seq(Revision)
    BY DEF Chain, Last
  <2> QED
    BY <1>2, <1>3, <1>7, <2>1 DEF WatchInv
<1>10. NetInv'
  BY <1>2, <1>6 DEF NetInv
<1> QED
  BY <1>8, <1>9, <1>10 DEF SyncInv

\* The step of the runner from one revision to the next.
LEMMA ApplyStep ==
  ASSUME SyncInv, ApplyNext
  PROVE  /\ SyncInv' /\ \A t \in Token : Follows(net[t], Head(backlog).evs, net'[t], t)
<1>1. StoreTypes /\ StoreCoherent /\ WatchInv /\ NetInv
  BY DEF SyncInv
<1>2. PICK r : r = Head(backlog)
  OBVIOUS
<1>3. /\ Loaded /\ backlog # <<>> /\ (Loaded' <=> Loaded) /\ phase' = phase
      /\ net' = [t \in Token |-> Observe(net[t], r.evs, t)]
      /\ told' = UNION {Notified(net[t], r.evs, t) : t \in Token}
      /\ seen' = r.after /\ backlog' = Tail(backlog)
  BY <1>2 DEF ApplyNext, Loaded
<1>4. tokenKeys' = tokenKeys /\ takenKeys' = takenKeys /\ created' = created
      /\ busy' = busy /\ takes' = takes /\ strayed' = strayed
  BY DEF ApplyNext, storeVars, firingVars
<1>5. backlog \in Seq(Revision) /\ Chain(seen, backlog) /\ Now = Last(seen, backlog)
  BY <1>1, <1>3 DEF WatchInv
<1>6. /\ r \in Revision /\ Tail(backlog) \in Seq(Revision)
      /\ \A t \in Token : Follows(View(seen, t), r.evs, View(r.after, t), t)
      /\ Chain(r.after, Tail(backlog)) /\ Last(r.after, Tail(backlog)) = Last(seen, backlog)
  BY <1>2, <1>3, <1>5, ChainTail
<1>7. \A t \in Token : net[t] = View(seen, t)
  BY <1>1, <1>3 DEF NetInv
<1>8. \A t \in Token : Follows(net[t], r.evs, View(r.after, t), t)
  BY <1>6, <1>7
<1>9. net' = [t \in Token |-> View(r.after, t)]
  <2>1. \A t \in Token : Observe(net[t], r.evs, t) = View(r.after, t)
    BY <1>8 DEF Follows
  <2> QED
    BY <1>3, <2>1
<1>10. told' \subseteq Known
  BY <1>3, <1>8 DEF Follows
<1>11. StoreTypes' /\ StoreCoherent' /\ Now' = Now
  BY <1>1, <1>4 DEF StoreTypes, StoreCoherent, Kept, Unique, Now
<1>12. r.after \in Snapshot
  BY <1>6 DEF Revision
<1>13. WatchInv'
  BY <1>1, <1>3, <1>5, <1>6, <1>11, <1>12 DEF WatchInv
<1>14. NetInv'
  BY <1>3, <1>9, <1>10 DEF NetInv
<1>15. \A t \in Token : Follows(net[t], r.evs, net'[t], t)
  BY <1>8, <1>9
<1> QED
  BY <1>2, <1>11, <1>13, <1>14, <1>15 DEF SyncInv

LEMMA BeginStep ==
  ASSUME SyncInv, BeginWatch
  PROVE  SyncInv'
<1>1. StoreTypes /\ StoreCoherent /\ WatchInv /\ NetInv
  BY DEF SyncInv
<1>2. /\ Loaded /\ Loaded' /\ phase' = "watching"
      /\ seen' = seen /\ net' = net /\ told' = told /\ backlog' = backlog
  BY DEF BeginWatch, FromLoad, Loaded
<1>3. tokenKeys' = tokenKeys /\ takenKeys' = takenKeys /\ created' = created
      /\ busy' = busy /\ takes' = takes /\ strayed' = strayed
  BY DEF BeginWatch, storeVars, firingVars
<1>4. StoreTypes' /\ StoreCoherent' /\ Now' = Now
  BY <1>1, <1>3 DEF StoreTypes, StoreCoherent, Kept, Unique, Now
<1>5. WatchInv'
  BY <1>1, <1>2, <1>4 DEF WatchInv
<1>6. NetInv'
  BY <1>1, <1>2 DEF NetInv
<1> QED
  BY <1>4, <1>5, <1>6 DEF SyncInv

LEMMA StopStep ==
  ASSUME SyncInv, Stop
  PROVE  SyncInv'
<1>1. StoreTypes /\ StoreCoherent
  BY DEF SyncInv
<1>2. phase' = "down" /\ ~Loaded' /\ backlog' = <<>> /\ seen' = [tokens |-> {}, taken |-> {}]
      /\ net' = [t \in Token |-> Unknown] /\ told' = {}
  BY DEF Stop, Loaded
<1>3. tokenKeys' = tokenKeys /\ takenKeys' = takenKeys /\ created' = created
      /\ busy' = busy /\ takes' = takes /\ strayed' = strayed
  BY DEF Stop, storeVars, firingVars
<1>4. StoreTypes' /\ StoreCoherent'
  BY <1>1, <1>3 DEF StoreTypes, StoreCoherent, Kept, Unique
<1>5. WatchInv'
  <2>1. [tokens |-> {}, taken |-> {}] \in Snapshot /\ <<>> \in Seq(Revision)
    BY DEF Snapshot
  <2> QED
    BY <1>2, <2>1 DEF WatchInv
<1>6. NetInv'
  BY <1>2 DEF NetInv
<1> QED
  BY <1>4, <1>5, <1>6 DEF SyncInv

(***************************************************************************)
(* The invariant holds.                                                    *)
(***************************************************************************)

\* SyncInv is an invariant.
LEMMA InitSync == Init => SyncInv
<1> SUFFICES ASSUME Init PROVE SyncInv
  OBVIOUS
<1>1. tokenKeys = {} /\ takenKeys = {} /\ created = {}
      /\ busy = [tr \in Transition |-> FALSE] /\ takes = [tr \in Transition |-> {}]
      /\ strayed = {}
  BY DEF Init
<1>2. StoreTypes
  BY <1>1 DEF StoreTypes, Unique
<1>3. StoreCoherent
  <2>1. \A tr \in Transition : Kept(tr) = {}
    BY <1>1 DEF Kept
  <2>2. UNION {{<<k[1], k[2], tr>> : k \in Kept(tr)} : tr \in Transition} = {}
    BY <2>1
  <2> QED
    BY <1>1, <2>1, <2>2 DEF StoreCoherent
<1>4. WatchInv
  <2>1. ~Loaded /\ phase = "down" /\ backlog = <<>> /\ seen = [tokens |-> {}, taken |-> {}]
    BY DEF Init, Loaded
  <2>2. [tokens |-> {}, taken |-> {}] \in Snapshot /\ <<>> \in Seq(Revision)
    BY DEF Snapshot
  <2> QED
    BY <2>1, <2>2 DEF WatchInv
<1>5. NetInv
  BY DEF Init, NetInv, Loaded
<1> QED
  BY <1>2, <1>3, <1>4, <1>5 DEF SyncInv

LEMMA IdleStep ==
  ASSUME SyncInv, UNCHANGED vars
  PROVE  SyncInv'
<1>1. /\ tokenKeys' = tokenKeys /\ takenKeys' = takenKeys /\ created' = created
      /\ busy' = busy /\ takes' = takes
      /\ strayed' = strayed
      /\ phase' = phase /\ backlog' = backlog /\ seen' = seen /\ net' = net /\ told' = told
  BY DEF vars, storeVars, firingVars, runnerVars
<1>2. StoreTypes' /\ StoreCoherent'
  BY <1>1 DEF SyncInv, StoreTypes, StoreCoherent, Kept, Unique
<1>3. WatchInv' /\ NetInv'
  BY <1>1 DEF SyncInv, WatchInv, NetInv, Now, Loaded
<1> QED
  BY <1>2, <1>3 DEF SyncInv

LEMMA NextSync == SyncInv /\ [Next]_vars => SyncInv'
<1> SUFFICES ASSUME SyncInv, [Next]_vars PROVE SyncInv'
  OBVIOUS
<1>1. PICK s : s = Now'
  OBVIOUS
<1>2. ASSUME NEW tr \in Transition, StartTransition(tr) PROVE SyncInv'
  BY <1>1, <1>2, StartStep
<1>3. ASSUME NEW tr \in Transition, EndTransition(tr) PROVE SyncInv'
  BY <1>1, <1>3, EndStep
<1>4. ASSUME NEW tr \in Transition, CancelRunning(tr) PROVE SyncInv'
  BY <1>1, <1>4, CancelStep
<1>5. CASE Edit
  BY <1>1, <1>5, EditStep
<1> QED
  BY <1>2, <1>3, <1>4, <1>5, LoadStep, BeginStep, ApplyStep, StopStep, IdleStep
  DEF Next

LEMMA SyncInvariant == Spec => []SyncInv
<1>1. SyncInv /\ [Next]_vars => SyncInv'
  BY NextSync
<1> QED
  BY <1>1, InitSync, PTL DEF Spec

(***************************************************************************)
(* What it says of the keys and of the local net.                          *)
(***************************************************************************)

LEMMA ViewTypes ==
  ASSUME NEW s \in Snapshot, NEW t
  PROVE  View(s, t) \in Slice
<1> DEFINE by == TakenBy(s, t)
           key == CHOOSE k \in KnownKeys(s, t) : TRUE
           tr == CHOOSE x \in by : TRUE
<1>1. by \subseteq Transition
  BY TakenKeyParts DEF TakenBy, Snapshot
<1>2. KnownKeys(s, t) # {} => key[2] \in Known /\ key[3] \in Data
  BY KeyParts DEF KnownKeys, Snapshot
<1>3. View(s, t) =
        IF KnownKeys(s, t) = {} THEN Unknown
        ELSE [exists |-> TRUE, last |-> key[2], data |-> key[3], err |-> FALSE,
              pos |-> IF by = {} THEN AtPlace(key[2]) ELSE AtTransition(tr),
              at |-> IF by = {} THEN {key[2]} ELSE {},
              taken |-> {<<key[2], x>> : x \in by},
              firing |-> by \cap Local]
  BY DEF View
<1>4. by # {} => tr \in Transition
  BY <1>1
<1> HIDE DEF by, key, tr
<1>5. CASE KnownKeys(s, t) = {}
  BY <1>3, <1>5 DEF Unknown, Slice, Position, AtPlace
<1>6. CASE KnownKeys(s, t) # {}
  <2>1. key[2] \in Known /\ key[2] \in Place /\ key[3] \in Data
    BY <1>2, <1>6, LocalNetAssumption
  <2>2. (IF by = {} THEN AtPlace(key[2]) ELSE AtTransition(tr)) \in Position
    BY <1>4, <2>1 DEF Position, AtPlace, AtTransition
  <2>3. {<<key[2], x>> : x \in by} \in SUBSET (Known \X Transition)
    BY <1>1, <2>1
  <2>4. (IF by = {} THEN {key[2]} ELSE {}) \in SUBSET Known /\ by \cap Local \in SUBSET Local
    BY <2>1
  <2> QED
    BY <1>3, <1>6, <2>1, <2>2, <2>3, <2>4 DEF Slice
<1> QED
  BY <1>5, <1>6

\* What follows from it.
LEMMA SyncTypes == SyncInv => TypeOK
<1> SUFFICES ASSUME SyncInv PROVE TypeOK
  OBVIOUS
<1>1. StoreTypes /\ WatchInv /\ NetInv
  BY DEF SyncInv
<1>2. \A i \in 1 .. Len(backlog) : backlog[i].after \in Snapshot
  <2>1. ASSUME NEW i \in 1 .. Len(backlog) PROVE backlog[i].after \in Snapshot
    <3>1. backlog[i] \in Revision
      BY <1>1 DEF WatchInv
    <3> QED
      BY <3>1 DEF Revision
  <2> QED
    BY <2>1
<1>3. net \in [Token -> Slice]
  <2>1. Unknown \in Slice
    BY DEF Unknown, Slice, Position, AtPlace
  <2>2. seen \in Snapshot
    BY <1>1 DEF WatchInv
  <2>3. \A t \in Token : (IF Loaded THEN View(seen, t) ELSE Unknown) \in Slice
    BY <2>1, <2>2, ViewTypes
  <2> QED
    BY <1>1, <2>3 DEF NetInv
<1> QED
  BY <1>1, <1>2, <1>3 DEF TypeOK, StoreTypes, WatchInv, NetInv

LEMMA SyncMatches == SyncInv => NetMatchesStore
BY DEF SyncInv, NetInv, NetMatchesStore

\* What the local net of a runner says of the firing of a token.
LEMMA FiringShown ==
  ASSUME StoreTypes, StoreCoherent, NEW t \in Token, NEW tr \in Local
  PROVE  tr \in View(Now, t).firing <=> t \notin strayed /\ \E k \in takes[tr] : k[1] = t
<1>1. tr \in Transition /\ InPlaces[tr] \subseteq Known
  BY LocalNetAssumption, NetSyncAssumption
<1>2. ASSUME NEW k \in takes[tr], k[1] = t, t \notin strayed PROVE tr \in View(Now, t).firing
  <2>1. Booked(Now, t, k[2], k[3], tr)
    BY <1>1, <1>2, TakenBooked
  <2>2. k[2] \in Known
    BY <1>1 DEF StoreTypes
  <2>3. View(Now, t) = Held(k[2], k[3], tr)
    BY <2>1, <2>2, ViewOf
  <2> QED
    BY <2>3 DEF Held
<1>3. ASSUME tr \in View(Now, t).firing
      PROVE  t \notin strayed /\ \E k \in takes[tr] : k[1] = t
  <2>1. Unknown.firing = {} /\ \A p, d : Rest(p, d).firing = {}
    BY DEF Unknown, Rest
  <2>2. ~Absent(Now, t) /\ \A p, d : ~Resting(Now, t, p, d)
    BY <1>3, <2>1, ViewOf
  <2>3. PICK p \in Place, d \in Data, v \in Transition :
          Booked(Now, t, p, d, v) /\ <<t, p, d>> \in Keeps[v]
    BY <2>2, StoreSettled DEF AllSettled, Settled
  <2>4. View(Now, t) = IF p \in Known THEN Held(p, d, v) ELSE Unknown
    BY <2>3, ViewOf
  <2>5. tr = v
    BY <1>3, <2>1, <2>4 DEF Held
  <2>6. <<t, p, d>> \in takes[tr] /\ <<t, p, d>>[1] = t
    BY <2>3, <2>5, KeepsAre
  <2>7. t \notin strayed
    BY <2>2, StoreSettled
  <2> QED
    BY <2>6, <2>7
<1> QED
  BY <1>2, <1>3

LEMMA SyncFiring == SyncInv => FiringIsKnown
<1> SUFFICES ASSUME SyncInv, Loaded, backlog = <<>>, NEW tr \in Local
             PROVE  {t \in Token : tr \in net[t].firing} = {k[1] : k \in takes[tr]} \ strayed
  BY DEF FiringIsKnown
<1>1. StoreTypes /\ StoreCoherent
  BY DEF SyncInv
<1>2. \A t \in Token : net[t] = View(Now, t)
  BY DEF SyncInv, WatchInv, NetInv, Last
<1>3. \A t \in Token :
        tr \in net[t].firing <=> t \notin strayed /\ \E k \in takes[tr] : k[1] = t
  BY <1>1, <1>2, FiringShown
<1>4. \A k \in takes[tr] : k[1] \in Token
  BY <1>1, LocalNetAssumption, KeyParts DEF StoreTypes
<1> QED
  BY <1>3, <1>4

(***************************************************************************)
(* What a step may not do.                                                 *)
(***************************************************************************)

\* Tasks at places where something has changed are told.
LEMMA ApplyTells ==
  ASSUME SyncInv, ApplyNext, NEW p \in Known, p \notin told'
  PROVE  Visible(p)' = Visible(p)
<1>1. PICK evs : evs = Head(backlog).evs
  OBVIOUS
<1>2. \A t \in Token : Follows(net[t], evs, net'[t], t)
  BY <1>1, ApplyStep
<1>3. \A t \in Token : p \notin Notified(net[t], evs, t)
  BY <1>1 DEF ApplyNext
<1>4. \A t \in Token : \/ net'[t] = net[t]
                      \/ /\ ~(net[t].exists /\ net[t].last = p)
                         /\ ~(net'[t].exists /\ net'[t].last = p)
  BY <1>2, <1>3 DEF Follows
<1>5. Visible(p)' = {<<t, p \in net'[t].at, {x \in net'[t].taken : x[1] = p}, net'[t].data>> :
                       t \in {u \in Token : net'[u].exists /\ net'[u].last = p}}
  BY DEF Visible
<1>6. {u \in Token : net'[u].exists /\ net'[u].last = p}
        = {u \in Token : net[u].exists /\ net[u].last = p}
  BY <1>4
<1>7. \A t \in {u \in Token : net[u].exists /\ net[u].last = p} : net'[t] = net[t]
  BY <1>4
<1> QED
  BY <1>5, <1>6, <1>7 DEF Visible

LEMMA StoreStepsKeepNet ==
  ASSUME NEW tr, StartTransition(tr) \/ EndTransition(tr) \/ CancelRunning(tr) \/ Edit
  PROVE  net' = net
<1>1. \A gone, releases, puts, taking : Txn(gone, releases, puts, taking) => net' = net
  BY DEF Txn
<1>2. ASSUME EndTransition(tr) PROVE net' = net
  <2>1. PICK fate, new : Release(tr, fate, new)
    BY <1>2 DEF EndTransition
  <2> QED
    BY <1>1, <2>1 DEF Release
<1> QED
  BY <1>1, <1>2 DEF StartTransition, CancelRunning, Edit

LEMMA NextTells ==
  ASSUME SyncInv, [Next]_vars, Loaded, Loaded', NEW p \in Known, Visible(p)' # Visible(p)
  PROVE  p \in told'
<1>1. net' = net => Visible(p)' = Visible(p)
  BY DEF Visible
<1>2. CASE \E tr \in Transition : StartTransition(tr) \/ EndTransition(tr) \/ CancelRunning(tr)
  BY <1>1, <1>2, StoreStepsKeepNet
<1>3. CASE Edit
  BY <1>1, <1>3, StoreStepsKeepNet
<1>4. CASE ApplyNext
  BY <1>4, ApplyTells
<1>5. CASE Load \/ Stop
  BY <1>5 DEF Load, Stop, Loaded
<1>6. CASE BeginWatch \/ UNCHANGED vars
  BY <1>1, <1>6 DEF BeginWatch, vars, runnerVars
<1> QED
  BY <1>2, <1>3, <1>4, <1>5, <1>6 DEF Next

\* The keys of a token that a firing has not taken stay as they are.
LEMMA KeysKept ==
  ASSUME NEW s, s = Now', NEW k, Same(s, k[1])
  PROVE  k \in tokenKeys <=> k \in tokenKeys'
<1>1. s.tokens = tokenKeys'
  BY DEF Now
<1> QED
  BY <1>1 DEF Same, TokenKeysOf, Now

LEMMA NextByPrefix ==
  ASSUME SyncInv, [Next]_vars, NEW tr \in Transition, busy[tr], ~busy'[tr],
         NEW k \in TokenKey, (k \in tokenKeys) # (k \in tokenKeys')
  PROVE  \/ k[1] \notin created
         \/ \E j \in takes[tr] : j[1] = k[1]
         \/ /\ k \notin tokenKeys'
            /\ \E j \in takes[tr] : k[1] \in Covers[j[1]] /\ k[2] = j[2]
<1>1. PICK s : s = Now'
  OBVIOUS
<1>2. busy \in [Transition -> BOOLEAN] /\ k[1] \in Token
  BY KeyParts DEF SyncInv, StoreTypes
<1>3. ~Same(s, k[1])
  BY <1>1, KeysKept
<1>4. ASSUME LetGo(s, k[1], tr, strayed')
      PROVE  \/ k[1] \notin created
             \/ \E j \in takes[tr] : j[1] = k[1]
             \/ /\ k \notin tokenKeys'
                /\ \E j \in takes[tr] : k[1] \in Covers[j[1]] /\ k[2] = j[2]
  <2>1. CASE Finished(s, k[1], tr)
    <3>1. PICK p, d : <<k[1], p, d>> \in takes[tr]
      BY <2>1 DEF Finished
    <3>2. <<k[1], p, d>>[1] = k[1]
      OBVIOUS
    <3> QED
      BY <3>1, <3>2
  <2>2. CASE Restored(s, k[1], tr)
    BY <2>2 DEF Restored
  <2>3. CASE Appeared(s, k[1], OutPlaces[tr])
    BY <2>3 DEF Appeared
  <2>4. CASE Swept(s, k[1], tr)
    <3>1. k \notin tokenKeys'
      BY <1>1, <2>4 DEF Swept, Absent, TokenKeysOf, Now
    <3>2. k \in TokenKeysOf(Now, k[1])
      BY <3>1 DEF TokenKeysOf, Now
    <3> QED
      BY <2>4, <3>1, <3>2 DEF Swept
  <2> QED
    BY <1>3, <1>4, <2>1, <2>2, <2>3, <2>4 DEF LetGo
<1>5. ASSUME NEW v \in Transition, EndTransition(v) \/ CancelRunning(v)
      PROVE  LetGo(s, k[1], tr, strayed')
  <2>1. v = tr
    BY <1>2, <1>5 DEF EndTransition, CancelRunning
  <2> QED
    BY <1>1, <1>2, <1>5, <2>1, EndStep, CancelStep
<1>6. ASSUME NEW v \in Transition, StartTransition(v) PROVE FALSE
  BY <1>2, <1>6 DEF StartTransition
<1>7. CASE Edit \/ Load \/ BeginWatch \/ ApplyNext \/ Stop \/ UNCHANGED vars
  BY <1>7 DEF Edit, Load, BeginWatch, ApplyNext, Stop, vars, firingVars
<1> QED
  BY <1>4, <1>5, <1>6, <1>7 DEF Next

(***************************************************************************)
(* The keys play the token game.                                           *)
(***************************************************************************)

\* Where the keys in the snapshot s say that a token is.
Spot(s, t) ==
  LET mine == TokenKeysOf(s, t)
      by == TakenKeysOf(s, t)
      key == CHOOSE k \in mine : TRUE
      tk == CHOOSE k \in by : TRUE
  IN IF mine = {} /\ by = {} THEN [kind |-> "nowhere"]
     ELSE IF Cardinality(mine) # 1 \/ Cardinality(by) > 1 THEN [kind |-> "torn"]
     ELSE IF by = {} THEN [kind |-> "place", pl |-> key[2]]
     ELSE [kind |-> "transition", tr |-> tk[3], pl |-> tk[2]]

\* The position of a token in the game, from its keys.
LEMMA SpotOf ==
  ASSUME NEW s, NEW t
  PROVE  /\ Absent(s, t) => Spot(s, t) = Game!Nowhere
         /\ \A p, d : Resting(s, t, p, d) => Spot(s, t) = Game!At(p)
         /\ \A p, d, tr : Booked(s, t, p, d, tr) => Spot(s, t) = Game!With(tr, p)
<1>1. Absent(s, t) => Spot(s, t) = Game!Nowhere
  BY DEF Absent, Spot, Game!Nowhere
<1>2. ASSUME NEW p, NEW d, Resting(s, t, p, d) PROVE Spot(s, t) = Game!At(p)
  <2>1. TokenKeysOf(s, t) = {<<t, p, d>>} /\ TakenKeysOf(s, t) = {}
    BY <1>2 DEF Resting
  <2>2. (CHOOSE k \in TokenKeysOf(s, t) : TRUE) = <<t, p, d>>
    BY <2>1
  <2>3. Cardinality(TokenKeysOf(s, t)) = 1 /\ Cardinality(TakenKeysOf(s, t)) = 0
    BY <2>1, FS_Singleton, FS_EmptySet
  <2> QED
    BY <2>1, <2>2, <2>3 DEF Spot, Game!At
<1>3. ASSUME NEW p, NEW d, NEW tr, Booked(s, t, p, d, tr) PROVE Spot(s, t) = Game!With(tr, p)
  <2>1. TokenKeysOf(s, t) = {<<t, p, d>>} /\ TakenKeysOf(s, t) = {<<t, p, tr>>}
    BY <1>3 DEF Booked
  <2>2. (CHOOSE k \in TakenKeysOf(s, t) : TRUE) = <<t, p, tr>>
    BY <2>1
  <2>3. Cardinality(TokenKeysOf(s, t)) = 1 /\ Cardinality(TakenKeysOf(s, t)) = 1
    BY <2>1, FS_Singleton
  <2> QED
    BY <2>1, <2>2, <2>3 DEF Spot, Game!With
<1> QED
  BY <1>1, <1>2, <1>3

LEMMA SpotSame ==
  ASSUME NEW s, NEW t, Same(s, t)
  PROVE  Spot(s, t) = Spot(Now, t)
BY DEF Same, Spot

\* Where tokens are now and in the next state.
LEMMA SpotNow ==
  ASSUME NEW s, s = Now'
  PROVE  \A t : WhereIs(t) = Spot(Now, t) /\ WhereIs(t)' = Spot(s, t)
<1>1. \A t : WhereIs(t) = Spot(Now, t)
  BY DEF WhereIs, Spot, Now, TokenKeysOf, TakenKeysOf
<1>2. s.tokens = tokenKeys' /\ s.taken = takenKeys'
  BY DEF Now
<1>3. \A t : WhereIs(t)' = Spot(s, t)
  BY <1>2 DEF WhereIs, Spot, TokenKeysOf, TakenKeysOf
<1> QED
  BY <1>1, <1>3

LEMMA StartPlays ==
  ASSUME SyncInv, NEW tr \in Transition, StartTransition(tr)
  PROVE  Game!Fire(tr)
<1>1. PICK s : s = Now'
  OBVIOUS
<1>2. created' = created /\ \A t \in Token : Same(s, t) \/ Fired(s, t, tr)
  BY <1>1, StartStep
<1>3. ASSUME NEW t \in Token, WhereIs(t)' # WhereIs(t)
      PROVE  \E p \in InPlaces[tr] :
               WhereIs(t) = Game!At(p) /\ WhereIs(t)' = Game!With(tr, p)
  <2>1. WhereIs(t) = Spot(Now, t) /\ WhereIs(t)' = Spot(s, t)
    BY <1>1, SpotNow
  <2>2. Fired(s, t, tr)
    BY <1>2, <1>3, <2>1, SpotSame
  <2>3. PICK p \in InPlaces[tr] :
          \E d : Resting(Now, t, p, d) /\ Booked(s, t, p, d, tr)
    BY <2>2 DEF Fired
  <2> QED
    BY <2>1, <2>3, SpotOf
<1> QED
  BY <1>2, <1>3 DEF Game!Fire

\* A firing ends, in one way or another, without a token lost or restored.
LEMMA FinishPlays ==
  ASSUME SyncInv, NEW tr \in Transition, NEW s, s = Now', created \subseteq created',
         strayed' = strayed, \A t \in Token : LetGo(s, t, tr, strayed')
  PROVE  Game!Finish(tr)
<1>1. StoreTypes /\ StoreCoherent /\ OutPlaces[tr] \subseteq Place
  BY NetSyncAssumption DEF SyncInv
<1>2. ASSUME NEW t \in Token
      PROVE  IF \E p \in Place : WhereIs(t) = Game!With(tr, p)
             THEN WhereIs(t)' \in {Game!Nowhere, Game!At(WhereIs(t).pl)}
                                     \cup {Game!At(p) : p \in OutPlaces[tr]}
             ELSE \/ WhereIs(t)' = WhereIs(t)
                  \/ /\ WhereIs(t) = Game!Nowhere /\ t \notin created /\ t \in created'
                     /\ \E p \in OutPlaces[tr] : WhereIs(t)' = Game!At(p)
  <2>1. WhereIs(t) = Spot(Now, t) /\ WhereIs(t)' = Spot(s, t)
    BY SpotNow
  <2>2. Settled(Now, Keeps, t) /\ (t \in strayed => Absent(Now, t))
    BY <1>1, StoreSettled DEF AllSettled
  <2>3. \A p, q, v : Game!With(v, p) # Game!Nowhere /\ Game!With(v, p) # Game!At(q)
    BY DEF Game!With, Game!Nowhere, Game!At
  <2>4. \A p, q, v, w : Game!With(v, p) = Game!With(w, q) => v = w /\ p = q
    BY DEF Game!With
  <2>5. CASE Same(s, t) /\ \A k \in takes[tr] : k[1] = t => t \in strayed
    <3>1. ASSUME NEW q \in Place, WhereIs(t) = Game!With(tr, q) PROVE FALSE
      <4>1. Spot(Now, t) = Game!With(tr, q)
        BY <2>1, <3>1
      <4>2. ~Absent(Now, t)
        BY <2>3, <4>1, SpotOf
      <4>3. \A p, d : ~Resting(Now, t, p, d)
        BY <2>3, <4>1, SpotOf
      <4>4. PICK p \in Place, d \in Data, v \in Transition :
              Booked(Now, t, p, d, v) /\ <<t, p, d>> \in Keeps[v]
        BY <2>2, <4>2, <4>3 DEF Settled
      <4>5. Spot(Now, t) = Game!With(v, p)
        BY <4>4, SpotOf
      <4>6. v = tr /\ <<t, p, d>>[1] = t
        BY <2>4, <4>1, <4>5
      <4>7. <<t, p, d>> \in takes[tr]
        BY <1>1, <4>4, <4>6, KeepsAre
      <4> QED
        BY <2>2, <2>5, <4>2, <4>6, <4>7
    <3> QED
      BY <2>1, <2>5, <3>1, SpotSame
  <2>6. CASE Finished(s, t, tr)
    <3>1. PICK p \in Place, d \in Data :
            /\ Booked(Now, t, p, d, tr)
            /\ Absent(s, t) \/ Placed(s, t, {p} \cup OutPlaces[tr])
      BY <2>6 DEF Finished
    <3>2. WhereIs(t) = Game!With(tr, p)
      BY <2>1, <3>1, SpotOf
    <3>3. WhereIs(t).pl = p
      BY <3>2 DEF Game!With
    <3>4. CASE Absent(s, t)
      BY <2>1, <3>2, <3>4, SpotOf
    <3>5. CASE Placed(s, t, {p} \cup OutPlaces[tr])
      <4>1. PICK q \in {p} \cup OutPlaces[tr] : \E e : Resting(s, t, q, e)
        BY <3>5 DEF Placed
      <4>2. WhereIs(t)' = Game!At(q)
        BY <2>1, <4>1, SpotOf
      <4> QED
        BY <3>2, <3>3, <4>2
    <3> QED
      BY <3>1, <3>4, <3>5
  <2>7. CASE Appeared(s, t, OutPlaces[tr]) /\ t \in created'
    <3>1. WhereIs(t) = Game!Nowhere /\ t \notin created
      BY <2>1, <2>7, SpotOf DEF Appeared
    <3>2. PICK q \in OutPlaces[tr] : \E e : Resting(s, t, q, e)
      BY <2>7 DEF Appeared, Placed
    <3>3. WhereIs(t)' = Game!At(q)
      BY <2>1, <3>2, SpotOf
    <3> QED
      BY <2>3, <2>7, <3>1, <3>3
  <2>8. ~Swept(s, t, tr) \/ t \notin strayed'
    BY <2>2 DEF Swept
  <2>9. ~Restored(s, t, tr) \/ t \in strayed'
    BY DEF Restored
  <2> QED
    BY <2>5, <2>6, <2>7, <2>8, <2>9 DEF LetGo
<1> QED
  BY <1>2 DEF Game!Finish, Game!Appears

LEMMA EditPlays ==
  ASSUME SyncInv, Edit
  PROVE  \E t \in Token : Game!Edit(t)
<1>1. PICK s : s = Now'
  OBVIOUS
<1>2. PICK v \in Token :
        /\ \A t \in Token : v # t => Same(s, t)
        /\ \/ Appeared(s, v, Place) /\ v \in created'
           \/ Edited(s, v) /\ created' = created
  BY <1>1, EditStep
<1>3. \A t : WhereIs(t) = Spot(Now, t) /\ WhereIs(t)' = Spot(s, t)
  BY <1>1, SpotNow
<1>4. \A t \in Token \ {v} : WhereIs(t)' = WhereIs(t)
  BY <1>2, <1>3, SpotSame
<1>5. CASE Appeared(s, v, Place) /\ v \in created'
  <2>1. WhereIs(v) = Game!Nowhere /\ v \notin created
    BY <1>3, <1>5, SpotOf DEF Appeared
  <2>2. PICK q \in Place : \E e : Resting(s, v, q, e)
    BY <1>5 DEF Appeared, Placed
  <2>3. WhereIs(v)' = Game!At(q)
    BY <1>3, <2>2, SpotOf
  <2> QED
    BY <1>4, <1>5, <2>1, <2>3 DEF Game!Edit, Game!Appears
<1>6. CASE Edited(s, v) /\ created' = created
  <2>1. PICK p \in Place, d \in Data :
          Resting(Now, v, p, d) /\ (Absent(s, v) \/ Placed(s, v, Place))
    BY <1>6 DEF Edited
  <2>2. WhereIs(v) = Game!At(p)
    BY <1>3, <2>1, SpotOf
  <2>3. WhereIs(v)' \in {Game!Nowhere} \cup {Game!At(q) : q \in Place}
    <3>1. CASE Absent(s, v)
      BY <1>3, <3>1, SpotOf
    <3>2. CASE Placed(s, v, Place)
      <4>1. PICK q \in Place : \E e : Resting(s, v, q, e)
        BY <3>2 DEF Placed
      <4>2. WhereIs(v)' = Game!At(q)
        BY <1>3, <4>1, SpotOf
      <4> QED
        BY <4>2
    <3> QED
      BY <2>1, <3>1, <3>2
  <2> QED
    BY <1>4, <1>6, <2>2, <2>3 DEF Game!Edit
<1> QED
  BY <1>2, <1>5, <1>6

\* The watch changes nothing about where tokens are.
LEMMA WatchPlays ==
  ASSUME UNCHANGED storeVars
  PROVE  UNCHANGED <<[t \in Token |-> WhereIs(t)], created>>
<1>1. tokenKeys' = tokenKeys /\ takenKeys' = takenKeys /\ created' = created
  BY DEF storeVars
<1>2. \A t \in Token : WhereIs(t)' = WhereIs(t)
  BY <1>1 DEF WhereIs
<1> QED
  BY <1>1, <1>2

LEMMA NextPlays ==
  SyncInv /\ [Next]_vars /\ strayed' = strayed
    => [Game!Next]_<<[t \in Token |-> WhereIs(t)], created>>
<1> SUFFICES ASSUME SyncInv, [Next]_vars, strayed' = strayed
             PROVE  Game!Next \/ UNCHANGED <<[t \in Token |-> WhereIs(t)], created>>
  OBVIOUS
<1>1. PICK s : s = Now'
  OBVIOUS
<1>2. ASSUME NEW tr \in Transition, StartTransition(tr) PROVE Game!Next
  BY <1>2, StartPlays DEF Game!Next
<1>3. ASSUME NEW tr \in Transition, EndTransition(tr) PROVE Game!Next
  <2>1. Game!Finish(tr)
    BY <1>1, <1>3, EndStep, FinishPlays
  <2> QED
    BY <2>1 DEF Game!Next
<1>4. ASSUME NEW tr \in Transition, CancelRunning(tr) PROVE Game!Next
  <2>1. created \subseteq created' /\ \A t \in Token : LetGo(s, t, tr, strayed')
    BY <1>1, <1>4, CancelStep
  <2>2. Game!Finish(tr)
    BY <1>1, <2>1, FinishPlays
  <2> QED
    BY <2>2 DEF Game!Next
<1>5. CASE Edit
  BY <1>5, EditPlays DEF Game!Next
<1>6. CASE Load \/ BeginWatch \/ ApplyNext \/ Stop \/ UNCHANGED vars
  <2>1. UNCHANGED storeVars
    BY <1>6 DEF Load, BeginWatch, ApplyNext, Stop, vars
  <2> QED
    BY <2>1, WatchPlays
<1> QED
  BY <1>2, <1>3, <1>4, <1>5, <1>6 DEF Next

LEMMA InitPlays == Init => Game!Init
<1> SUFFICES ASSUME Init PROVE Game!Init
  OBVIOUS
<1>1. \A t : Absent(Now, t) /\ created = {}
  BY DEF Init, Absent, Now, TokenKeysOf, TakenKeysOf
<1>2. \A t : WhereIs(t) = Spot(Now, t)
  BY DEF WhereIs, Spot, Now, TokenKeysOf, TakenKeysOf
<1>3. \A t \in Token : WhereIs(t) = Game!Nowhere
  BY <1>1, <1>2, SpotOf
<1> QED
  BY <1>1, <1>3 DEF Game!Init

(***************************************************************************)
(* The theorems.                                                           *)
(***************************************************************************)

\* Every variable of the net in etcd and of its copy always has its type: in
\* particular the copy never names places or transitions it does not have.
THEOREM TypeCorrect == Spec => []TypeOK
BY SyncInvariant, SyncTypes, PTL

\* However many transitions of however many regions write, and whatever is
\* edited by hand, a token is in one place, booked there by one transition at
\* most, and the keys say exactly what the firing transitions have taken.
THEOREM StoreStaysCoherent == Spec => []StoreCoherent
<1>1. SyncInv => StoreCoherent
  BY DEF SyncInv
<1> QED
  BY <1>1, SyncInvariant, PTL

\* The local net of a runner is exactly what etcd held at the revision it has
\* applied, for any cut of the net into regions and any lag of the watch; so
\* no change is ever refused as inconsistent.
THEOREM NetFollowsStore == Spec => []NetMatchesStore
BY SyncInvariant, SyncMatches, PTL

\* When it has caught up, the runner knows all that its transitions have taken.
THEOREM FiringsAreKnown == Spec => []FiringIsKnown
BY SyncInvariant, SyncFiring, PTL

\* No wakeup is lost: the tasks are notified of every place whose tokens look
\* different after a change of the local net.
THEOREM ChangesAreTold == Spec => ChangedPlacesTold
<1>1. SyncInv /\ [Next]_vars =>
        [Loaded /\ Loaded' =>
           \A p \in Known : Visible(p)' # Visible(p) => p \in told']_vars
  BY NextTells
<1> QED
  BY <1>1, SyncInvariant, PTL DEF Spec, ChangedPlacesTold

\* The end of a firing changes the tokens the transition has taken, new ones,
\* and those whose id begins with the digits of one it has taken, at the place of
\* that one; and no others, whatever the ids.
THEOREM OthersKeepTokens == Spec => OthersGoByPrefix
<1>1. SyncInv /\ [Next]_vars =>
        [\A tr \in Transition : busy[tr] /\ ~busy'[tr] =>
           \A k \in TokenKey :
             (k \in tokenKeys) # (k \in tokenKeys')
               => \/ k[1] \notin created
                  \/ \E j \in takes[tr] : j[1] = k[1]
                  \/ /\ k \notin tokenKeys'
                     /\ \E j \in takes[tr] : k[1] \in Covers[j[1]] /\ k[2] = j[2]]_vars
  BY NextByPrefix
<1> QED
  BY <1>1, SyncInvariant, PTL DEF Spec, OthersGoByPrefix

\* The transactions on the keys play the token game, for any net and any ids, in
\* all steps but those that lose a token with the prefix of another one, or bring
\* it back.
THEOREM StorePlaysTokenGame == Spec => PlaysTokenGame
<1>1. SyncInv /\ [Next]_vars =>
        [strayed' = strayed => [Game!Next]_<<[t \in Token |-> WhereIs(t)], created>>]_vars
  BY NextPlays
<1>2. UNCHANGED vars => UNCHANGED <<[t \in Token |-> WhereIs(t)], created>>
  <2> SUFFICES ASSUME UNCHANGED vars PROVE UNCHANGED <<[t \in Token |-> WhereIs(t)], created>>
    OBVIOUS
  <2>1. UNCHANGED storeVars
    BY DEF vars
  <2> QED
    BY <2>1, WatchPlays
<1> QED
  BY <1>1, <1>2, InitPlays, SyncInvariant, PTL DEF Spec, PlaysTokenGame
=============================================================================
