------------------------------ MODULE NetSync -------------------------------
(***************************************************************************)
(* The net state in etcd, the transactions by which transitions change it  *)
(* (etcd/transition.rs) and the local copy one runner keeps of it, by a    *)
(* load and a watch (ETCDGate::load_data, _watch_events, and the main loop *)
(* of runner/main.rs).                                                     *)
(*                                                                         *)
(* The transitions of all regions write; the observed runner knows only    *)
(* the places and transitions of its own region.  How a transition comes   *)
(* to start and who may run it are not part of this module: here a         *)
(* transition takes tokens that are there to be taken.                     *)
(***************************************************************************)
EXTENDS PlaceEvents, FiniteSets

CONSTANTS
  Token, Data,
  InPlaces, OutPlaces,  \* by transition: the places of its in and out arcs
  Covers,               \* Covers[t]: the ids that begin with the digits of t
  MaxTake,              \* bound: tokens taken by one firing
  MaxLag                \* bound: revisions the watch of the runner lags behind

ASSUME NetSyncAssumption ==
  /\ InPlaces \in [Transition -> SUBSET Place]
  /\ OutPlaces \in [Transition -> SUBSET Place]
  /\ Covers \in [Token -> SUBSET Token]
  /\ \A t \in Token : t \in Covers[t]
  /\ \A tr \in Local : InPlaces[tr] \cup OutPlaces[tr] \subseteq Known
  /\ MaxTake \in Nat /\ MaxLag \in Nat

VARIABLES
  tokenKeys,  \* etcd: <<t, p, d>>: the key pl/{p}/{t} has the value d
  takenKeys,  \* etcd: <<t, p, tr>>: the key pl/{p}/{t}/{tr} exists
  created,    \* etcd: the token ids handed out
  busy,       \* busy[tr]: tr fires, between its two transactions
  takes,      \* takes[tr]: the <<t, p, d>> it took, as its run method sees them
  strayed,    \* history: the tokens lost with the prefix of another one
  phase,      \* the runner: "down", "loaded", "watching"
  backlog,    \* the revisions since its load that it has not applied yet
  seen,       \* the keys in etcd at the revision it has applied
  net,        \* its local net, by token
  told        \* the places whose tasks its last change has notified

storeVars == <<tokenKeys, takenKeys, created>>
firingVars == <<busy, takes, strayed>>
runnerVars == <<phase, backlog, seen, net, told>>
vars == <<storeVars, firingVars, runnerVars>>

Init ==
  /\ tokenKeys = {} /\ takenKeys = {} /\ created = {}
  /\ busy = [tr \in Transition |-> FALSE]
  /\ takes = [tr \in Transition |-> {}]
  /\ strayed = {}
  /\ phase = "down" /\ backlog = <<>>
  /\ seen = [tokens |-> {}, taken |-> {}]
  /\ net = [t \in Token |-> Unknown]
  /\ told = {}

TokenAt(t, p) == \E d \in Data : <<t, p, d>> \in tokenKeys
TakenAt(t, p) == \E tr \in Transition : <<t, p, tr>> \in takenKeys

\* The runner has a copy of the net, which the revisions since concern.
Loaded == phase # "down"

-----------------------------------------------------------------------------
(***************************************************************************)
(* Transactions on etcd.  gone: the <<t, p>> whose token key is deleted    *)
(* with its taken keys; releases: single taken keys that are deleted;      *)
(* puts, taking: token and taken keys that are put.                        *)
(***************************************************************************)

\* etcd refuses a transaction that puts a key it also deletes.
Admitted(gone, puts) == \A k \in puts : <<k[1], k[2]>> \notin gone

\* The keys it leaves behind.
After(gone, releases, puts, taking) ==
  [tokens |-> {k \in tokenKeys : /\ <<k[1], k[2]>> \notin gone
                                 /\ \A x \in puts : x[1] = k[1] => x[2] # k[2]} \cup puts,
   taken |-> {k \in takenKeys : <<k[1], k[2]>> \notin gone /\ k \notin releases} \cup taking]

\* What a watch is told of it.
Events(gone, releases, puts, taking) ==
  LET put(k) == IF TokenAt(k[1], k[2]) THEN "updated" ELSE "created" IN
  {Event("destroyed", k[1], k[2], k[3]) : k \in {x \in tokenKeys : <<x[1], x[2]>> \in gone}}
    \cup {Event("released", k[1], k[2], k[3]) :
            k \in {x \in takenKeys : <<x[1], x[2]>> \in gone \/ x \in releases}}
    \cup {Event(put(k), k[1], k[2], k[3]) : k \in puts}
    \cup {Event("taken", k[1], k[2], k[3]) : k \in taking}

Txn(gone, releases, puts, taking) ==
  LET evs == Events(gone, releases, puts, taking)
      after == After(gone, releases, puts, taking)
  IN
  /\ Admitted(gone, puts)
  /\ Loaded => Len(backlog) < MaxLag
  /\ tokenKeys' = after.tokens
  /\ takenKeys' = after.taken
  /\ backlog' = IF Loaded /\ evs # {}
                THEN Append(backlog, [evs |-> evs, after |-> after]) ELSE backlog
  /\ UNCHANGED <<phase, seen, net, told>>

\* Versions that forget to delete, or delete with a prefix cut too short.
DeletedNever(prefixes) == {}
DeletedPlace(prefixes) == Token \X {x[2] : x \in prefixes}

\* What goes when the token keys <<t, p>> are deleted by prefix: the path
\* pl/{p}/{t} has no slash at its end.
Deleted(prefixes) == UNION {{<<v, x[2]>> : v \in Covers[x[1]]} : x \in prefixes}

\* A version whose check_start is shown tokens that others have taken.
AvailableTaken(tr) == {k \in tokenKeys : k[2] \in InPlaces[tr]}

\* The tokens at the input places of tr that nobody has taken.
Available(tr) == {k \in tokenKeys : k[2] \in InPlaces[tr] /\ ~TakenAt(k[1], k[2])}

\* start_transition: the tokens check_start has chosen are booked.
StartTransition(tr) ==
  /\ ~busy[tr]
  /\ \E S \in SUBSET Available(tr) :
       /\ Cardinality(S) <= MaxTake
       /\ takes' = [takes EXCEPT ![tr] = S]
       /\ Txn({}, {}, {}, {<<k[1], k[2], tr>> : k \in S})
  /\ busy' = [busy EXCEPT ![tr] = TRUE]
  /\ UNCHANGED <<created, strayed>>

\* What becomes of the token of k: it goes to an output place or back to
\* its place, with the old data or with new, or (no place) it is destroyed.
Fates(tr, k) ==
  {<<>>} \cup {<<k[1], p, d>> : p \in OutPlaces[tr] \cup {k[2]}, d \in Data}

\* The tokens that stay where they were.
Staying(tr, fate) == {k \in takes[tr] : fate[k] # <<>> /\ fate[k][2] = k[2]}

Ids(keys) == {k[1] : k \in keys}

\* The tokens that lose their key without having been taken by tr.
Struck(tr, gone) == Ids({k \in tokenKeys : <<k[1], k[2]>> \in gone}) \ Ids(takes[tr])

\* The transaction of end_transition: tokens that stay lose their taken key
\* only, the others are deleted by prefix; ids of new tokens are fresh.  What
\* it has taken it puts whether or not it is still there.
Release(tr, fate, new) ==
  LET gone == Deleted({<<k[1], k[2]>> : k \in takes[tr] \ Staying(tr, fate)}) IN
  /\ \A k \in takes[tr] : fate[k] \in Fates(tr, k)
  /\ created' = created \cup Ids(new)
  /\ strayed' = (strayed \ Ids(takes[tr])) \cup Struck(tr, gone)
  /\ Txn(gone, {<<k[1], k[2], tr>> : k \in Staying(tr, fate)},
         ({fate[k] : k \in takes[tr]} \ {<<>>}) \cup new, {})

EndTransition(tr) ==
  /\ busy[tr]
  /\ \E fate \in [takes[tr] -> UNION {Fates(tr, k) : k \in takes[tr]}] :
     \E new \in {{}} \cup {{<<t, p, d>>} : t \in Token \ created, p \in OutPlaces[tr], d \in Data} :
       Release(tr, fate, new)
  /\ busy' = [busy EXCEPT ![tr] = FALSE]
  /\ takes' = [takes EXCEPT ![tr] = {}]

\* The runner of the transition has gone.  Its successor finds the tokens in
\* its own copy of the net and puts them back, with the data they had; what
\* the copy shows as booked is what the taken keys of the transition say.
CancelRunning(tr) ==
  LET back == {k \in tokenKeys : <<k[1], k[2], tr>> \in takenKeys} IN
  /\ busy[tr]
  /\ Txn({}, {<<k[1], k[2], tr>> : k \in back}, back, {})
  /\ busy' = [busy EXCEPT ![tr] = FALSE]
  /\ takes' = [takes EXCEPT ![tr] = {}]
  /\ UNCHANGED <<created, strayed>>

\* Someone edits the net by hand: a token nobody has taken is inserted,
\* given new data, moved with or without a change of its data, or removed.
Edit ==
  /\ \E t \in Token, p \in Place, d \in Data :
       \/ /\ t \notin created
          /\ created' = created \cup {t}
          /\ Txn({}, {}, {<<t, p, d>>}, {})
       \/ \E k \in tokenKeys :
            /\ k[1] = t /\ ~TakenAt(t, k[2])
            /\ \/ k[2] = p /\ Txn({}, {}, {<<t, p, d>>}, {})
               \/ k[2] # p /\ Txn({<<t, k[2]>>}, {}, {<<t, p, d>>}, {})
               \/ k[2] = p /\ k[3] = d /\ Txn({<<t, p>>}, {}, {}, {})
            /\ UNCHANGED created
  /\ UNCHANGED firingVars

-----------------------------------------------------------------------------
(***************************************************************************)
(* The observed runner.                                                    *)
(***************************************************************************)

\* A version that loads the tokens but not who has taken them.
LoadTokensOnly == {Event("created", k[1], k[2], k[3]) : k \in tokenKeys}

\* The load reports every key as if it had just been created.
LoadEvents ==
  {Event("created", k[1], k[2], k[3]) : k \in tokenKeys}
    \cup {Event("taken", k[1], k[2], k[3]) : k \in takenKeys}

\* _create_initial_events: a Reset, and the load events.
Load ==
  /\ phase = "down" /\ phase' = "loaded"
  /\ seen' = [tokens |-> tokenKeys, taken |-> takenKeys]
  /\ net' = [t \in Token |-> Observe(Reset(net[t]), LoadEvents, t)]
  /\ told' = Known
  /\ UNCHANGED <<storeVars, firingVars, backlog>>

\* A version of the watch without a start revision: from now on.
FromNow == backlog' = <<>>

\* The watch is told all that came after the load, however late it begins.
FromLoad == UNCHANGED backlog

\* _watch_events, a request of its own.
BeginWatch ==
  /\ phase = "loaded" /\ phase' = "watching"
  /\ FromLoad
  /\ UNCHANGED <<storeVars, firingVars, seen, net, told>>

\* The watcher analyses the next revision, the main loop applies it.
ApplyNext ==
  /\ phase = "watching" /\ backlog # <<>>
  /\ LET r == Head(backlog) IN
       /\ net' = [t \in Token |-> Observe(net[t], r.evs, t)]
       /\ told' = UNION {Notified(net[t], r.evs, t) : t \in Token}
       /\ seen' = r.after
  /\ backlog' = Tail(backlog)
  /\ UNCHANGED <<storeVars, firingVars, phase>>

\* The runner ends, by itself or on an error; a new one will load again.
Stop ==
  /\ Loaded
  /\ phase' = "down" /\ backlog' = <<>>
  /\ seen' = [tokens |-> {}, taken |-> {}]
  /\ net' = [t \in Token |-> Unknown]
  /\ told' = {}
  /\ UNCHANGED <<storeVars, firingVars>>

Next ==
  \/ \E tr \in Transition :
       StartTransition(tr) \/ EndTransition(tr) \/ CancelRunning(tr)
  \/ Edit
  \/ Load \/ BeginWatch \/ ApplyNext \/ Stop

Spec == Init /\ [][Next]_vars

-----------------------------------------------------------------------------
(***************************************************************************)
(* Properties.                                                             *)
(***************************************************************************)

TokenKey == Token \X Place \X Data
TakenKey == Token \X Place \X Transition

Snapshot == [tokens : SUBSET TokenKey, taken : SUBSET TakenKey]

Position == [kind : {"place"}, id : Place \cup {NoData}]
              \cup [kind : {"transition"}, id : Transition]

Slice ==
  [exists : BOOLEAN, pos : Position, last : Place \cup {NoData},
   data : Data \cup {NoData}, at : SUBSET Known,
   taken : SUBSET (Known \X Transition), firing : SUBSET Local, err : BOOLEAN]

\* Every variable has its type, and a transition that does not fire has
\* taken nothing.
TypeOK ==
  /\ tokenKeys \in SUBSET TokenKey /\ takenKeys \in SUBSET TakenKey
  /\ created \in SUBSET Token
  /\ busy \in [Transition -> BOOLEAN]
  /\ takes \in [Transition -> SUBSET TokenKey]
  /\ strayed \in SUBSET created
  /\ phase \in {"down", "loaded", "watching"}
  /\ \A i \in 1 .. Len(backlog) : backlog[i].after \in Snapshot
  /\ seen \in Snapshot
  /\ net \in [Token -> Slice]
  /\ told \subseteq Known
  /\ \A tr \in Transition : ~busy[tr] => takes[tr] = {}

\* What tr has taken and no other transition has deleted.
Kept(tr) == {k \in takes[tr] : k[1] \notin strayed}

\* In etcd a token is at one place, booked there by one transition at most,
\* and the taken keys are exactly what the firing transitions have taken; a
\* token lost with the prefix of another one is lost with all its keys.
StoreCoherent ==
  /\ \A j, k \in tokenKeys : j[1] = k[1] => j = k
  /\ takenKeys = UNION {{<<k[1], k[2], tr>> : k \in Kept(tr)} : tr \in Transition}
  /\ \A j, k \in takenKeys : j[1] = k[1] => j = k
  /\ \A tr \in Transition : Kept(tr) \subseteq tokenKeys
  /\ \A k \in tokenKeys : k[1] \notin strayed

\* The keys of token t at places of the region, and who has taken it there.
KnownKeys(s, t) == {k \in s.tokens : k[1] = t /\ k[2] \in Known}
TakenBy(s, t) == {k[3] : k \in {x \in s.taken : x[1] = t /\ x[2] \in Known}}

\* What the keys of etcd say of token t, for the places and transitions of
\* the region: the definition of the local net.
View(s, t) ==
  LET by == TakenBy(s, t)
      key == CHOOSE k \in KnownKeys(s, t) : TRUE
      tr == CHOOSE x \in by : TRUE
  IN IF KnownKeys(s, t) = {} THEN Unknown
     ELSE [exists |-> TRUE, last |-> key[2], data |-> key[3], err |-> FALSE,
           pos |-> IF by = {} THEN AtPlace(key[2]) ELSE AtTransition(tr),
           at |-> IF by = {} THEN {key[2]} ELSE {},
           taken |-> {<<key[2], x>> : x \in by},
           firing |-> by \cap Local]

\* The local net shows exactly what etcd held at the revision the runner has
\* applied, whether a token was loaded or followed through the watch, moved
\* by an own or by a foreign transition or by hand, from or to places the
\* region does not have.  In particular no runner shuts down because it
\* finds its net inconsistent.
NetMatchesStore ==
  Loaded => \A t \in Token : net[t] = View(seen, t)

\* A runner that has caught up with etcd knows which tokens a transition of
\* its region has taken, so that cancelling the transition gives back all
\* that there is left to give back.
FiringIsKnown ==
  Loaded /\ backlog = <<>> =>
    \A tr \in Local :
      {t \in Token : tr \in net[t].firing} = {k[1] : k \in takes[tr]} \ strayed

\* What a task can see at place p: tokens there or taken from there, with
\* their data.
Visible(p) ==
  {<<t, p \in net[t].at, {x \in net[t].taken : x[1] = p}, net[t].data>> :
     t \in {u \in Token : net[u].exists /\ net[u].last = p}}

\* A change that makes a difference at a place notifies the tasks that wait
\* for that place: no wakeup is lost.
ChangedPlacesTold ==
  [][Loaded /\ Loaded' =>
       \A p \in Known : Visible(p)' # Visible(p) => p \in told']_vars

\* "a transition can place the token it has taken ... It could also destroy
\* the token or create new ones" (lib.rs): the transaction that ends a firing
\* touches tokens this transition has taken, or new ones, and no others.
OnlyTakenTokensChange ==
  [][\A tr \in Transition : busy[tr] /\ ~busy'[tr] =>
       \A k \in TokenKey :
         (k \in tokenKeys) # (k \in tokenKeys')
           => k[1] \notin created \/ \E j \in takes[tr] : j[1] = k[1]]_vars

\* What the code does instead: of the tokens a firing has not taken, those go
\* whose id begins with the digits of one it has, at the place of that one;
\* nothing else of others changes.
OthersGoByPrefix ==
  [][\A tr \in Transition : busy[tr] /\ ~busy'[tr] =>
       \A k \in TokenKey :
         (k \in tokenKeys) # (k \in tokenKeys')
           => \/ k[1] \notin created
              \/ \E j \in takes[tr] : j[1] = k[1]
              \/ /\ k \notin tokenKeys'
                 /\ \E j \in takes[tr] : k[1] \in Covers[j[1]] /\ k[2] = j[2]]_vars

\* Where the keys in etcd say that a token is; torn: at two places, or taken
\* twice.
WhereIs(t) ==
  LET mine == {k \in tokenKeys : k[1] = t}
      by == {k \in takenKeys : k[1] = t}
      key == CHOOSE k \in mine : TRUE
      tk == CHOOSE k \in by : TRUE
  IN IF mine = {} /\ by = {} THEN [kind |-> "nowhere"]
     ELSE IF Cardinality(mine) # 1 \/ Cardinality(by) > 1 THEN [kind |-> "torn"]
     ELSE IF by = {} THEN [kind |-> "place", pl |-> key[2]]
     ELSE [kind |-> "transition", tr |-> tk[3], pl |-> tk[2]]

Game == INSTANCE TokenGame WITH where <- [t \in Token |-> WhereIs(t)], used <- created

\* The transactions of all regions, the return of tokens after a failure and
\* the edits play the token game: a firing has its tokens for itself.  Steps by
\* which a token goes with the prefix of another one, or comes back when its
\* firing ends, are none of the game; all steps before and after are.
PlaysTokenGame ==
  /\ Game!Init
  /\ [][strayed' = strayed =>
          [Game!Next]_<<[t \in Token |-> WhereIs(t)], created>>]_vars
=============================================================================
