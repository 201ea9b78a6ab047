-------------------------- MODULE TransitionRunner --------------------------
(***************************************************************************)
(* The tasks of runner/transition.rs: waiting for a change, checking,      *)
(* locking, checking again, starting, running, finishing.  Each task makes *)
(* its decisions on the local net of its runner, which lags behind etcd,   *)
(* and everything depends on the revision that comes with a place lock.    *)
(*                                                                         *)
(* The locks are those of PlaceMutex, which PlaceLocks implements; here a  *)
(* runner also remembers which locks it has cached and their minimal       *)
(* revision.  A revision is counted by how many revisions the local net of *)
(* the runner has to apply to reach it.  Only revisions in which tokens    *)
(* change are counted.  Runners do not fail in this module.                *)
(***************************************************************************)
EXTENDS Integers, FiniteSets, Sequences, Functions

CONSTANTS
  Token, Place, Node,
  Transition,           \* each is a task of the runner NodeOf[tr]
  NodeOf,
  InPlaces, OutPlaces,  \* places a transition takes from, and puts to
  CondPlaces,           \* places of its in and cond arcs: place_rx
  OutputLocking,        \* the places whose output_locking is on
  Executor,             \* "move", "initialize" (of the examples) or "any"
  Initial,              \* where the tokens are at first
  MaxTake, MaxLag,      \* bounds: tokens of a firing, revisions not applied
  NoPlace, NoNode

ASSUME TransitionRunnerAssumption ==
  /\ Place \subseteq Nat
  /\ NodeOf \in [Transition -> Node] /\ NoNode \notin Node
  /\ InPlaces \in [Transition -> SUBSET Place]
  /\ OutPlaces \in [Transition -> SUBSET Place]
  /\ CondPlaces \in [Transition -> SUBSET Place]
  /\ \A tr \in Transition : InPlaces[tr] \subseteq CondPlaces[tr]
  /\ OutputLocking \subseteq Place
  /\ Executor \in [Transition -> {"move", "initialize", "any"}]
  /\ Initial \in [Token -> Place \cup {NoPlace}] /\ NoPlace \notin Place
  /\ MaxTake \in Nat /\ MaxLag \in Nat

VARIABLES
  where,     \* etcd: where each token is
  used,      \* etcd: the token ids handed out
  nets,      \* nets[n]: the local net of n, then the revisions it will apply
  holder,    \* holder[p]: the task that has a guard for p, as in PlaceMutex
  owner,     \* owner[p]: the runner that has the lock of p cached
  need,      \* need[n][p]: revisions of nets[n] up to min_revision of p
  pc,        \* where each task is
  todo,      \* the places it has still to lock
  changed,   \* the places with a change notification it has not seen
  waitFor,   \* the place it waits for, if only for one
  timer,     \* auto_recheck is set
  view,      \* the net as it was when the task last decided to start
  take,      \* the tokens it starts with, or has taken
  result,    \* what run returned
  await      \* revisions to apply until the net shows the end of its firing

storeVars == <<where, used, nets>>
lockVars == <<holder, owner, need>>
wakeVars == <<changed, waitFor, timer>>
fireVars == <<view, take, result>>
vars == <<storeVars, lockVars, pc, todo, wakeVars, fireVars, await>>

Locks == INSTANCE PlaceMutex WITH Task <- Transition
Game == INSTANCE TokenGame

Torn == [kind |-> "torn"]
Destroyed == NoPlace
Empty == [goes |-> <<>>, new |-> {}]

\* A version in which tasks only hear of what happens after the load.
NoneNotified == [tr \in Transition |-> {}]

\* The Reset event of the load notifies every place.
FirstNotified == CondPlaces

Init ==
  /\ where = [t \in Token |-> IF Initial[t] = NoPlace THEN Game!Nowhere
                              ELSE Game!At(Initial[t])]
  /\ used = {t \in Token : Initial[t] # NoPlace}
  /\ nets = [n \in Node |-> <<where>>]
  /\ Locks!Init
  /\ owner = [p \in Place |-> NoNode]
  /\ need = [n \in Node |-> [p \in Place |-> 0]]
  /\ pc = [tr \in Transition |-> "wait"]
  /\ todo = [tr \in Transition |-> {}]
  /\ changed = FirstNotified
  /\ waitFor = [tr \in Transition |-> NoPlace]
  /\ timer = [tr \in Transition |-> FALSE]
  /\ view = [tr \in Transition |-> <<>>]
  /\ take = [tr \in Transition |-> {}]
  /\ result = [tr \in Transition |-> Empty]
  /\ await = [tr \in Transition |-> 0]

-----------------------------------------------------------------------------
(***************************************************************************)
(* Nets.  s is a function from tokens to where they are.                   *)
(***************************************************************************)

\* What tokens_at and taken_tokens_at of a StartContext show.
TokensAt(s, p) == {t \in Token : s[t] = Game!At(p)}
TakenTokensAt(s, p) == {t \in Token : \E tr \in Transition : s[t] = Game!With(tr, p)}

Copy(tr) == Head(nets[NodeOf[tr]])
Lag(n) == Len(nets[n]) - 1

\* A transaction: etcd goes on to s, all runners will hear of it.
Store(s) ==
  /\ where' = s
  /\ IF s = where THEN nets' = nets
     ELSE /\ \A n \in Node : Lag(n) < MaxLag
          /\ nets' = [n \in Node |-> Append(nets[n], s)]

-----------------------------------------------------------------------------
(***************************************************************************)
(* The executors: what check_start can return, and what run can return.    *)
(***************************************************************************)

Enabled(S) == [go |-> TRUE, take |-> S]
Disabled(p, auto) == [go |-> FALSE, waitFor |-> p, timer |-> auto]

\* A version that looks at the tokens that nobody has taken only.
InitializeUntaken(tr, s) ==
  IF \E p \in CondPlaces[tr] : TokensAt(s, p) # {}
  THEN {Disabled(NoPlace, FALSE)} ELSE {Enabled({})}

\* It is enabled if there is no token, taken or not.
Initialize(tr, s) ==
  IF \E p \in CondPlaces[tr] : TokensAt(s, p) \cup TakenTokensAt(s, p) # {}
  THEN {Disabled(NoPlace, FALSE)} ELSE {Enabled({})}

\* DelayedMove takes a token; if there is none it waits for its in place.
\* Its deletion of a token where three or more lie is left out.
Move(tr, s) ==
  LET here == {<<p, t>> : p \in InPlaces[tr], t \in Token}
      there == {k \in here : k[2] \in TokensAt(s, k[1])}
  IN IF there = {} THEN {Disabled(p, FALSE) : p \in InPlaces[tr]}
     ELSE {Enabled({k}) : k \in there}

\* Any executor that keeps to its arcs: it takes tokens of its in places nobody
\* has taken, or waits for all its places or for one, with auto_recheck or
\* without.  (One that does not could see and take tokens of other places, which
\* its task neither hears of nor locks; the arcs are no more than a convention.)
AnyExecutor(tr, s) ==
  {Enabled(S) : S \in {X \in SUBSET (InPlaces[tr] \X Token) :
                         /\ Cardinality(X) <= MaxTake
                         /\ \A k \in X : k[2] \in TokensAt(s, k[1])}}
    \cup {Disabled(p, auto) : p \in CondPlaces[tr] \cup {NoPlace}, auto \in BOOLEAN}

CheckStart(tr, s) ==
  CASE Executor[tr] = "initialize" -> Initialize(tr, s)
    [] Executor[tr] = "move" -> Move(tr, s)
    [] Executor[tr] = "any" -> AnyExecutor(tr, s)

\* What validate of these executors asks for: a move has one in place (and one
\* out place, but here it may choose); an initialize has conditional arcs only,
\* and one of them goes out.
MoveValidated(tr) == \E p \in Place : InPlaces[tr] = {p}
InitializeValidated(tr) ==
  InPlaces[tr] = {} /\ \E p \in CondPlaces[tr] : OutPlaces[tr] = {p}

\* A taken token goes to an out place, back to its place, or away.
Fates(tr, k) == OutPlaces[tr] \cup {k[1], Destroyed}

\* run returns where the taken tokens go and where a new one is created.
RunResults(tr) ==
  CASE Executor[tr] = "initialize" ->
         {[goes |-> [k \in take[tr] |-> Destroyed], new |-> {p}] : p \in OutPlaces[tr]}
    [] Executor[tr] = "move" ->
         {[goes |-> [k \in take[tr] |-> p], new |-> {}] : p \in OutPlaces[tr]}
    [] Executor[tr] = "any" ->
         {[goes |-> f, new |-> S] :
            f \in {g \in [take[tr] -> Place \cup {Destroyed}] :
                     \A k \in take[tr] : g[k] \in Fates(tr, k)},
            S \in IF used = Token THEN {{}} ELSE {{}} \cup {{p} : p \in OutPlaces[tr]}}

-----------------------------------------------------------------------------
(***************************************************************************)
(* The steps of a task.                                                    *)
(***************************************************************************)

\* The places whose notifications end its wait.
Watched(tr) == IF waitFor[tr] = NoPlace THEN CondPlaces[tr] ELSE {waitFor[tr]}

\* _wait_for_change: notifications are thrown away before the check.
WaitForChange(tr) ==
  /\ pc[tr] = "wait"
  /\ timer[tr] \/ changed[tr] \cap Watched(tr) # {}
  /\ changed' = [changed EXCEPT ![tr] = {}]
  /\ waitFor' = [waitFor EXCEPT ![tr] = NoPlace]
  /\ timer' = [timer EXCEPT ![tr] = FALSE]
  /\ pc' = [pc EXCEPT ![tr] = "check"]
  /\ UNCHANGED <<storeVars, lockVars, todo, fireVars, await>>

\* check_start says no: the task waits as it has been told.
GoToSleep(tr, d) ==
  /\ pc' = [pc EXCEPT ![tr] = "wait"]
  /\ waitFor' = [waitFor EXCEPT ![tr] = d.waitFor]
  /\ timer' = [timer EXCEPT ![tr] = d.timer]
  /\ UNCHANGED changed

\* The first check, without a lock; then all places of place_rx are locked.
FirstCheck(tr) ==
  /\ pc[tr] = "check"
  /\ \E d \in CheckStart(tr, Copy(tr)) :
       IF d.go
       THEN /\ pc' = [pc EXCEPT ![tr] = "lock"]
            /\ todo' = [todo EXCEPT ![tr] = CondPlaces[tr]]
            /\ UNCHANGED wakeVars
       ELSE GoToSleep(tr, d) /\ UNCHANGED todo
  /\ UNCHANGED <<storeVars, lockVars, fireVars, await>>

\* A version that takes the revision of a lock for granted.
NoRevision(n, p) == 0

\* A lock from etcd comes with the revision of the answer, the present one.
GrantedRevision(n, p) == Lag(n)

\* acquire, place by place in order.  A cached lock keeps its revision.
Acquire(tr, p) ==
  LET n == NodeOf[tr] IN
  /\ p \in todo[tr] /\ \A q \in todo[tr] : p <= q
  /\ owner[p] \in {n, NoNode}
  /\ Locks!Take(tr, p)
  /\ owner' = [owner EXCEPT ![p] = n]
  /\ need' = IF owner[p] = n THEN need
             ELSE [need EXCEPT ![n][p] = GrantedRevision(n, p)]
  /\ todo' = [todo EXCEPT ![tr] = @ \ {p}]
  /\ UNCHANGED <<storeVars, pc, wakeVars, fireVars, await>>

Held(tr) == {p \in Place : tr \in holder[p]}

\* A version that does not wait for the revisions of the locks.
NoWait(tr) == TRUE

\* _lock, its second half: the net has reached the revisions of all locks.
NetIsRecent(tr) == \A p \in Held(tr) : need[NodeOf[tr]][p] = 0

\* The second check; on no, the guards are dropped as they are.
SecondCheck(tr) ==
  /\ pc[tr] = "lock" /\ todo[tr] = {} /\ NetIsRecent(tr)
  /\ \E d \in CheckStart(tr, Copy(tr)) :
       IF d.go
       THEN /\ pc' = [pc EXCEPT ![tr] = "start"]
            /\ view' = [view EXCEPT ![tr] = Copy(tr)]
            /\ take' = [take EXCEPT ![tr] = d.take]
            /\ UNCHANGED <<lockVars, wakeVars>>
       ELSE GoToSleep(tr, d) /\ Locks!Drop({tr}) /\ UNCHANGED <<owner, need, view, take>>
  /\ UNCHANGED <<storeVars, todo, result, await>>

\* _release_locks: the locks carry the revision of the transaction, which is
\* never older than what they had.
SetMinRevision(n, p) == Len(nets'[n]) - 1

ReleaseLocks(tr) ==
  /\ need' = [need EXCEPT ![NodeOf[tr]] =
                [p \in Place |-> IF p \in Held(tr) THEN SetMinRevision(NodeOf[tr], p)
                                 ELSE @[p]]]
  /\ Locks!Drop({tr})
  /\ UNCHANGED owner

\* Putting the taken key of a token that is not at the place, or that is
\* taken already, leaves etcd with a token it cannot make sense of.
Taken(tr, t, p) == IF where[t] = Game!At(p) THEN Game!With(tr, p) ELSE Torn

\* start_transition, and the release of the locks.
StartTransition(tr) ==
  /\ pc[tr] = "start"
  /\ Store([t \in Token |->
              IF \E p \in Place : <<p, t>> \in take[tr]
              THEN Taken(tr, t, CHOOSE p \in Place : <<p, t>> \in take[tr])
              ELSE where[t]])
  /\ ReleaseLocks(tr)
  /\ pc' = [pc EXCEPT ![tr] = "run"]
  /\ view' = [view EXCEPT ![tr] = <<>>]
  /\ UNCHANGED <<used, todo, wakeVars, take, result, await>>

\* _target_place_locks: the places tokens are put to, unless they do without.
TargetPlaces(r) ==
  ({r.goes[k] : k \in DOMAIN r.goes} \cup r.new) \cap OutputLocking

\* run ends; the locks of the target places come next.
Run(tr) ==
  /\ pc[tr] = "run"
  /\ \E r \in RunResults(tr) :
       /\ result' = [result EXCEPT ![tr] = r]
       /\ todo' = [todo EXCEPT ![tr] = TargetPlaces(r)]
  /\ pc' = [pc EXCEPT ![tr] = "finish"]
  /\ UNCHANGED <<storeVars, lockVars, wakeVars, view, take, await>>

\* Where tr leaves token t, given the ids of the tokens it creates.
Left(tr, t, ids) ==
  LET r == result[tr]
      mine == {k \in take[tr] : k[2] = t}
      key == CHOOSE k \in mine : TRUE
  IN IF mine # {}
     THEN IF r.goes[key] = Destroyed THEN Game!Nowhere ELSE Game!At(r.goes[key])
     ELSE IF t \in DOMAIN ids THEN Game!At(ids[t]) ELSE where[t]

\* end_transition, and the release of the locks.  There is no check of the
\* revision here, and the in places are not locked.
EndTransition(tr) ==
  /\ pc[tr] = "finish" /\ todo[tr] = {}
  /\ \E I \in SUBSET (Token \ used) :
       /\ \E ids \in Bijection(I, result[tr].new) :
            Store([t \in Token |-> Left(tr, t, ids)])
       /\ used' = used \cup I
  /\ ReleaseLocks(tr)
  /\ await' = [await EXCEPT ![tr] = Len(nets'[NodeOf[tr]]) - 1]
  /\ take' = [take EXCEPT ![tr] = {}]
  /\ result' = [result EXCEPT ![tr] = Empty]
  /\ pc' = [pc EXCEPT ![tr] = "sync"]
  /\ UNCHANGED <<todo, wakeVars, view>>

\* A version that throws notifications away after a firing, not before a check.
Forgotten(tr) == {}

\* Notifications that arrive during a firing are for the next wait.
Noticed(tr) == changed[tr]

\* The net shows the end of the firing; the task waits for a change again.
Synced(tr) ==
  /\ pc[tr] = "sync" /\ await[tr] = 0
  /\ pc' = [pc EXCEPT ![tr] = "wait"]
  /\ changed' = [changed EXCEPT ![tr] = Noticed(tr)]
  /\ UNCHANGED <<storeVars, lockVars, todo, waitFor, timer, fireVars, await>>

-----------------------------------------------------------------------------
(***************************************************************************)
(* What happens around the tasks of a runner.                              *)
(***************************************************************************)

\* Place p looks different in the next revision.
Changes(n, p) ==
  \/ TokensAt(nets[n][1], p) # TokensAt(nets[n][2], p)
  \/ \E tr \in Transition, t \in Token :
       (nets[n][1][t] = Game!With(tr, p)) # (nets[n][2][t] = Game!With(tr, p))

Less(k) == IF k = 0 THEN 0 ELSE k - 1

\* The main loop applies a revision, notifies tasks, reports the revision.
ApplyChange(n) ==
  /\ Len(nets[n]) > 1
  /\ nets' = [nets EXCEPT ![n] = Tail(@)]
  /\ need' = [need EXCEPT ![n] = [p \in Place |-> Less(@[p])]]
  /\ await' = [tr \in Transition |->
                 IF NodeOf[tr] = n THEN Less(await[tr]) ELSE await[tr]]
  /\ changed' = [tr \in Transition |->
                   IF NodeOf[tr] = n
                   THEN changed[tr] \cup {p \in CondPlaces[tr] : Changes(n, p)}
                   ELSE changed[tr]]
  /\ UNCHANGED <<where, used, holder, owner, pc, todo, waitFor, timer, fireVars>>

\* Another runner locks p as well: a request of it arrives, or is left over.
Contended(p) ==
  \E tr \in Transition : NodeOf[tr] # owner[p] /\ p \in CondPlaces[tr] \cup OutPlaces[tr]

\* The lock request task gives a cached lock back.
ExternalAcquire(p) ==
  /\ owner[p] # NoNode /\ holder[p] = {} /\ Contended(p)
  /\ owner' = [owner EXCEPT ![p] = NoNode]
  /\ UNCHANGED <<storeVars, holder, need, pc, todo, wakeVars, fireVars, await>>

\* A task of another runner waits for the lock of p.
Wanted(p) ==
  \E tr \in Transition :
    /\ NodeOf[tr] # owner[p]
    /\ p \in todo[tr] /\ \A q \in todo[tr] : p <= q

Work(tr) ==
  \/ WaitForChange(tr) \/ FirstCheck(tr) \/ SecondCheck(tr)
  \/ StartTransition(tr) \/ Run(tr) \/ EndTransition(tr) \/ Synced(tr)

Next ==
  \/ \E tr \in Transition : Work(tr) \/ \E p \in Place : Acquire(tr, p)
  \/ \E n \in Node : ApplyChange(n)
  \/ \E p \in Place : ExternalAcquire(p)

Spec == Init /\ [][Next]_vars

\* Tokio polls ready tasks and etcd answers; the mutex of a place is first
\* in, first out; that a requested lock is freed is what PlaceLocks is about.
Fairness ==
  /\ \A tr \in Transition : WF_vars(Work(tr))
  /\ \A tr \in Transition : SF_vars(\E p \in Place : Acquire(tr, p))
  /\ \A n \in Node : WF_vars(ApplyChange(n))
  /\ \A p \in Place : SF_vars(Wanted(p) /\ ExternalAcquire(p))

FairSpec == Spec /\ Fairness

-----------------------------------------------------------------------------
(***************************************************************************)
(* Properties.                                                             *)
(***************************************************************************)

Positions ==
  {Game!Nowhere} \cup {Game!At(p) : p \in Place}
    \cup {Game!With(tr, p) : tr \in Transition, p \in Place}

\* Every variable has its type, and etcd never holds a token it cannot make
\* sense of.
TypeOK ==
  /\ where \in [Token -> Positions] /\ used \in SUBSET Token
  /\ nets \in [Node -> Seq([Token -> Positions])]
  /\ \A n \in Node : Len(nets[n]) \in 1 .. MaxLag + 1
  /\ holder \in [Place -> SUBSET Transition]
  /\ owner \in [Place -> Node \cup {NoNode}]
  /\ need \in [Node -> [Place -> Nat]]
  /\ pc \in [Transition -> {"wait", "check", "lock", "start", "run", "finish", "sync"}]
  /\ todo \in [Transition -> SUBSET Place]
  /\ changed \in [Transition -> SUBSET Place]
  /\ waitFor \in [Transition -> Place \cup {NoPlace}]
  /\ timer \in [Transition -> BOOLEAN]
  /\ view \in [Transition -> {<<>>} \cup [Token -> Positions]]
  /\ take \in [Transition -> SUBSET (Place \X Token)]
  /\ await \in [Transition -> Nat]

\* Nets of examples that have been validated.
ExamplesValidated ==
  \A tr \in Transition :
    /\ Executor[tr] = "move" => MoveValidated(tr)
    /\ Executor[tr] = "initialize" => InitializeValidated(tr)

\* Nets with one initialize that watches every place a token can get to, and
\* all these places are locked for output.
TokenPlaces == UNION {InPlaces[tr] \cup OutPlaces[tr] : tr \in Transition}
OneInitialize ==
  /\ \A t, u \in Token : Initial[t] # NoPlace /\ Initial[u] # NoPlace => t = u
  /\ \A t \in Token : Initial[t] \in TokenPlaces \cup {NoPlace}
  /\ \A tr \in Transition :
       /\ Executor[tr] \in {"move", "initialize"}
       /\ Executor[tr] = "initialize" =>
            /\ TokenPlaces \subseteq CondPlaces[tr] \cap OutputLocking
            /\ \A u \in Transition : Executor[u] = "initialize" => u = tr

\* What a task has seen at p is still so in s: nobody has taken a token since
\* then, nobody has put one there unless the place does without output locks,
\* and no transition has tokens from there that was not seen to have them.
StillSo(old, s, p) ==
  /\ TokensAt(old, p) \subseteq TokensAt(s, p)
  /\ p \in OutputLocking => TokensAt(s, p) = TokensAt(old, p)
  /\ TakenTokensAt(s, p) \subseteq TakenTokensAt(old, p)

\* lib.rs, Implementation: check_start runs again after the locks have been
\* acquired, and the transition starts if it can still run.  When the start is
\* applied by etcd, all the places the decision could depend on are in etcd as
\* the task saw them in its local net, however far that lags behind.
DecisionIsCurrent ==
  [][\A tr \in Transition : pc[tr] = "start" /\ pc'[tr] = "run" =>
       \A p \in CondPlaces[tr] : StillSo(view[tr], where, p)]_vars

\* The transitions of all runners, each deciding on a lagging copy, play the
\* token game: a token is taken when it is there, by one transition, which
\* has it until it finishes.
ImplementsTokenGame == Game!Spec

\* A task that sleeps without a notification to wake it does not miss a
\* start: its check would say no in the net its runner has.
SleepersNeedNotRun ==
  \A tr \in Transition :
    Executor[tr] # "any" /\ pc[tr] = "wait" /\ ~timer[tr] /\ changed[tr] \cap Watched(tr) = {}
      => \A d \in CheckStart(tr, Copy(tr)) : ~d.go

\* Initialize "creates a single token if none of the watched places have one"
\* and "takes currently taken tokens into account" (initialize.rs): with the
\* other transitions moving it between regions there is never a second one.
AtMostOneToken == Cardinality({t \in Token : where[t] # Game!Nowhere}) <= 1

\* Tokens at a place some transition moves tokens from do not lie there for
\* ever, whoever runs the transition and however often its runner has to ask
\* for the lock: lib.rs, "on every change" a check is made.
TokensMoveOn ==
  \A p \in {q \in Place : \E tr \in Transition : Executor[tr] = "move" /\ InPlaces[tr] = {q}} :
    \A S \in (SUBSET Token) \ {{}} : TokensAt(where, p) = S ~> TokensAt(where, p) # S

\* A net without tokens gets one, if there is a transition to create it.
EmptyNetIsFilled ==
  (\A t \in Token : where[t] = Game!Nowhere) /\ used # Token
    ~> \E t \in Token : where[t] # Game!Nowhere
=============================================================================
