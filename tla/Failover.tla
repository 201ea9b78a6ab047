------------------------------ MODULE Failover ------------------------------
(***************************************************************************)
(* Several runners of one region (runner/main.rs run, etcd/gate.rs         *)
(* connect, campaign_for_region and disconnect, runner/transition.rs       *)
(* _cancel_running).  One is elected and runs the transitions; when its    *)
(* lease ends the next one is elected, loads the net and gives back the    *)
(* tokens of interrupted firings.  A runner may be cancelled, cut off or   *)
(* crash at any time; the transaction a task waits for may still be        *)
(* applied, at any later time.                                             *)
(*                                                                         *)
(* Place locks appear in what they do to transactions: a task waits until  *)
(* nobody else has the lock it needs and keeps it until the answer         *)
(* (PlaceMutex), a transaction with a fencing token is applied only while  *)
(* the lease of its runner lives (CommitFenced of PlaceLocks), and a start *)
(* is decided on what is in etcd (DecisionIsCurrent of TransitionRunner).  *)
(* Each request locks one place at most.                                   *)
(***************************************************************************)
EXTENDS Naturals, Sequences, SequencesExt

CONSTANTS
  Node, Region, RegionOf,  \* runs of a runner, and their regions
  Transition, Home,        \* Home[tr]: the region of tr
  Place, In, Out,          \* In[tr], Out[tr]: a place each
  OutputLocking,           \* the places with output locking
  MayDestroy,              \* the transitions that may destroy their token
  Token, Start,            \* Start[t]: where token t is in the beginning
  MayFail                  \* bound: the nodes that may stop or lose their lease

NoNode == "no node"
Nothing == <<>>

ASSUME FailoverAssumption ==
  /\ RegionOf \in [Node -> Region]
  /\ Home \in [Transition -> Region]
  /\ In \in [Transition -> Place] /\ Out \in [Transition -> Place]
  /\ OutputLocking \subseteq Place /\ MayDestroy \subseteq Transition
  /\ Start \in [Token -> Place]
  /\ MayFail \subseteq Node
  /\ NoNode \notin Node /\ Nothing \notin Place

VARIABLES
  tokens,    \* etcd: <<t, p>>: the key pl/{p}/{t} exists
  taken,     \* etcd: <<t, p, tr>>: the key pl/{p}/{t}/{tr} exists
  election,  \* etcd: election[g]: the nodes with an election key for g, by age
  lease,     \* etcd: the nodes whose lease is alive
  sent,      \* transactions that etcd has not got yet
  status,    \* status[n]: off, campaigning, elected, up, or stopped
  view,      \* view[n]: the keys as the local net of n shows them
  pc, firing,  \* pc[n][tr]: state of the task; firing[n][tr]: its token and place
  by,        \* auxiliary: by[t]: the node whose firing has taken t, or NoNode
  slipped    \* auxiliary: a commit without a lock came after the lease was gone

etcdVars == <<tokens, taken, election, lease>>
nodeVars == <<status, view, pc, firing>>
vars == <<etcdVars, sent, nodeVars, by, slipped>>

TransitionsOf(n) == {tr \in Transition : Home[tr] = RegionOf[n]}
Keys == [tokens |-> tokens, taken |-> taken]

Init ==
  /\ tokens = {<<t, Start[t]>> : t \in Token}
  /\ taken = {} /\ lease = {} /\ sent = {}
  /\ election = [g \in Region |-> <<>>]
  /\ status = [n \in Node |-> "off"]
  /\ view = [n \in Node |-> Keys]
  /\ pc = [n \in Node |-> [tr \in TransitionsOf(n) |-> "spawned"]]
  /\ firing = [n \in Node |-> [tr \in TransitionsOf(n) |-> Nothing]]
  /\ by = [t \in Token |-> NoNode] /\ slipped = FALSE

-----------------------------------------------------------------------------
(***************************************************************************)
(* The life of a runner.                                                   *)
(***************************************************************************)

\* connect and the call of campaign: a lease, and a key of the election.
Campaign(n) ==
  /\ status[n] = "off"
  /\ status' = [status EXCEPT ![n] = "campaigning"]
  /\ lease' = lease \cup {n}
  /\ election' = [election EXCEPT ![RegionOf[n]] = Append(@, n)]
  /\ UNCHANGED <<tokens, taken, sent, view, pc, firing, by, slipped>>

\* An election that answers every candidate.
AnyCandidate(n) == n \in lease

\* etcd answers the campaign of the oldest key.
IsLeader(n) == election[RegionOf[n]] # <<>> /\ Head(election[RegionOf[n]]) = n

Elected(n) ==
  /\ status[n] = "campaigning"
  /\ IsLeader(n)
  /\ status' = [status EXCEPT ![n] = "elected"]
  /\ UNCHANGED <<etcdVars, sent, view, pc, firing, by, slipped>>

\* load_data; the tasks are spawned.
Load(n) ==
  /\ status[n] = "elected"
  /\ status' = [status EXCEPT ![n] = "up"]
  /\ view' = [view EXCEPT ![n] = Keys]
  /\ UNCHANGED <<etcdVars, sent, pc, firing, by, slipped>>

\* The watch brings the local net up to date.
Refresh(n) ==
  /\ status[n] = "up" /\ view[n] # Keys
  /\ view' = [view EXCEPT ![n] = Keys]
  /\ UNCHANGED <<etcdVars, sent, status, pc, firing, by, slipped>>

\* All tasks are dropped at the await they are at.
Dropped(n) ==
  /\ status' = [status EXCEPT ![n] = "stopped"]
  /\ pc' = [pc EXCEPT ![n] = [tr \in TransitionsOf(n) |-> "spawned"]]
  /\ firing' = [firing EXCEPT ![n] = [tr \in TransitionsOf(n) |-> Nothing]]
  /\ view' = [view EXCEPT ![n] = [tokens |-> {}, taken |-> {}]]

\* Cancelled, crashed, or ended by an error.
Stop(n) ==
  /\ n \in MayFail /\ status[n] \in {"campaigning", "elected", "up"}
  /\ Dropped(n)
  /\ UNCHANGED <<etcdVars, sent, by, slipped>>

\* disconnect revokes the lease; or it expires, maybe unnoticed.  What hangs
\* on it goes with it: the key of the election and, see Fenced, the locks.
LoseLease(n) ==
  /\ n \in lease /\ (status[n] = "stopped" \/ n \in MayFail)
  /\ lease' = lease \ {n}
  /\ \E i \in DOMAIN election[RegionOf[n]] :
       /\ election[RegionOf[n]][i] = n
       /\ election' = [election EXCEPT ![RegionOf[n]] = RemoveAt(@, i)]
  /\ UNCHANGED <<tokens, taken, sent, nodeVars, by, slipped>>

-----------------------------------------------------------------------------
(***************************************************************************)
(* The tasks.  A firing takes one token.                                   *)
(***************************************************************************)

\* A request is the transaction of node n for its transition tr: about token
\* t at place p, with its target (Nothing: t is destroyed).
Request(op, n, tr, t, p, to) ==
  [op |-> op, node |-> n, tr |-> tr, token |-> t, from |-> p, to |-> to]

Send(q) ==
  /\ sent' = sent \cup {q}
  /\ pc' = [pc EXCEPT ![q.node][q.tr] = q.op]

\* A start has the lock of its in place until it is answered, another
\* transaction that of its target, if that has output locking.
LocksPlace(q, p) ==
  IF q.op = "start" THEN p = q.from ELSE p = q.to /\ p \in OutputLocking

\* Locks that keep nobody out.
NoLocks(n, p) == TRUE

\* Node n gets the lock of p: no task of its own holds the mutex, and no other
\* runner the lock in etcd, which is there for as long as the lease.
LockFree(n, p) ==
  \A q \in sent : LocksPlace(q, p) => q.node # n /\ ~({q.node, n} \subseteq lease)

\* A version that loads tokens without what is below their keys.
NothingLeft(n, tr) == {}

\* What the local net shows as taken by tr.
LeftTaken(n, tr) == {k \in view[n].taken : k[3] = tr}

\* _cancel_running: tokens are given back to the place they were taken from.
CancelRunning(n, tr) ==
  /\ status[n] = "up" /\ pc[n][tr] = "spawned"
  /\ \/ /\ LeftTaken(n, tr) = {}
        /\ pc' = [pc EXCEPT ![n][tr] = "idle"] /\ UNCHANGED sent
     \/ \E k \in LeftTaken(n, tr) :
          /\ k[2] \in OutputLocking => LockFree(n, k[2])
          /\ Send(Request("return", n, tr, k[1], k[2], k[2]))
  /\ UNCHANGED <<etcdVars, status, view, firing, by, slipped>>

\* check_start and the locks of the in place: a token that is there.
BeginStart(n, tr) ==
  /\ status[n] = "up" /\ pc[n][tr] = "idle" /\ LockFree(n, In[tr])
  /\ \E t \in Token :
       /\ <<t, In[tr]>> \in tokens
       /\ \A k \in taken : <<k[1], k[2]>> # <<t, In[tr]>>
       /\ firing' = [firing EXCEPT ![n][tr] = <<t, In[tr]>>]
       /\ Send(Request("start", n, tr, t, In[tr], In[tr]))
  /\ UNCHANGED <<etcdVars, status, view, by, slipped>>

\* run returns: the token is moved, stays, or is destroyed.
BeginFinish(n, tr) ==
  /\ status[n] = "up" /\ pc[n][tr] = "run"
  /\ LET t == firing[n][tr][1]  p == firing[n][tr][2] IN
     \E to \in {p, Out[tr]} \cup (IF tr \in MayDestroy THEN {Nothing} ELSE {}) :
       /\ to \in OutputLocking => LockFree(n, to)
       /\ Send(Request("end", n, tr, t, p, to))
  /\ UNCHANGED <<etcdVars, status, view, firing, by, slipped>>

-----------------------------------------------------------------------------
(***************************************************************************)
(* The transactions.                                                       *)
(***************************************************************************)

\* Transactions without comparisons.
Unfenced(q) == FALSE

\* The transaction compares the lease of at least one lock key: a start locks
\* its in place, an end its target if that has output locking.
Fenced(q) == q.op = "start" \/ q.to \in OutputLocking

\* A commit without a fencing token whose runner has lost its lease.
Slips(q) == q.op # "start" /\ q.to \notin OutputLocking /\ q.node \notin lease

Admitted(q) == Fenced(q) => q.node \in lease

Effect(q) ==
  LET t == q.token  p == q.from IN
  CASE q.op = "start" ->
         /\ taken' = taken \cup {<<t, p, q.tr>>}
         /\ tokens' = tokens
    [] q.op # "start" /\ q.to = p ->
         /\ taken' = taken \ {<<t, p, q.tr>>}
         /\ tokens' = tokens \cup {<<t, p>>}
    [] OTHER ->
         /\ taken' = {k \in taken : <<k[1], k[2]>> # <<t, p>>}
         /\ tokens' = (tokens \ {<<t, p>>}) \cup ({<<t, q.to>>} \ {<<t, Nothing>>})

\* The task that waits for the answer goes on, unless it has been dropped.
Answer(q) ==
  /\ pc' = IF status[q.node] = "up"
           THEN [pc EXCEPT ![q.node][q.tr] = CASE q.op = "start" -> "run"
                                               [] q.op = "return" -> "returned"
                                               [] OTHER -> "idle"]
           ELSE pc
  /\ firing' = IF status[q.node] = "up" /\ q.op # "start"
               THEN [firing EXCEPT ![q.node][q.tr] = Nothing] ELSE firing

Apply(q) ==
  /\ Admitted(q)
  /\ Effect(q)
  /\ by' = [by EXCEPT ![q.token] = IF q.op = "start" THEN q.node ELSE NoNode]
  /\ slipped' = (slipped \/ Slips(q))
  /\ Answer(q)
  /\ sent' = sent \ {q}
  /\ UNCHANGED <<election, lease, status, view>>

\* A refusal is an error, which ends the runner.  A runner that stops gives its
\* locks back, after which what it has sent is refused.
Refuse(q) ==
  /\ ~Admitted(q) \/ (Fenced(q) /\ status[q.node] = "stopped")
  /\ sent' = sent \ {q}
  /\ IF status[q.node] = "up" THEN Dropped(q.node) ELSE UNCHANGED nodeVars
  /\ UNCHANGED <<etcdVars, by, slipped>>

\* The wait for the revision of the return.
Returned(n, tr) ==
  /\ status[n] = "up" /\ pc[n][tr] = "returned"
  /\ pc' = [pc EXCEPT ![n][tr] = "idle"]
  /\ view' = [view EXCEPT ![n] = Keys]
  /\ UNCHANGED <<etcdVars, sent, status, firing, by, slipped>>

Next ==
  \/ \E n \in Node :
       \/ Campaign(n) \/ Elected(n) \/ Load(n) \/ Refresh(n) \/ Stop(n) \/ LoseLease(n)
       \/ \E tr \in TransitionsOf(n) :
            \/ CancelRunning(n, tr) \/ BeginStart(n, tr) \/ BeginFinish(n, tr)
            \/ Returned(n, tr)
  \/ \E q \in sent : Apply(q) \/ Refuse(q)

Spec == Init /\ [][Next]_vars

(***************************************************************************)
(* Fairness.  Runners are started, tasks are polled, etcd answers those    *)
(* who wait, run returns, the lease of a stopped runner ends, and a task   *)
(* that waits for a lock which others give back gets it.                   *)
(***************************************************************************)
Advance(n) == Campaign(n) \/ Elected(n) \/ Load(n) \/ (status[n] = "stopped" /\ LoseLease(n))
Continue(n, tr) == CancelRunning(n, tr) \/ Returned(n, tr) \/ BeginFinish(n, tr)
Serve(n, tr) == \E q \in sent : q.node = n /\ q.tr = tr /\ status[n] = "up"
                                /\ (Apply(q) \/ Refuse(q))

FairSpec ==
  /\ Spec
  /\ \A n \in Node :
       /\ WF_vars(Advance(n))
       /\ \A tr \in TransitionsOf(n) : SF_vars(Continue(n, tr)) /\ WF_vars(Serve(n, tr))

-----------------------------------------------------------------------------
Ops == {"start", "return", "end"}
RequestType == [op : Ops, node : Node, tr : Transition, token : Token, from : Place,
                to : Place \cup {Nothing}]

\* Types; only tasks of a runner that is up are under way.
TypeOK ==
  /\ tokens \subseteq Token \X Place
  /\ taken \subseteq Token \X Place \X Transition
  /\ lease \subseteq Node
  /\ election \in [Region -> Seq(Node)]
  /\ sent \subseteq RequestType
  /\ status \in [Node -> {"off", "campaigning", "elected", "up", "stopped"}]
  /\ by \in [Token -> Node \cup {NoNode}] /\ slipped \in BOOLEAN
  /\ \A n \in Node, tr \in Transition :
       Home[tr] = RegionOf[n] =>
         /\ pc[n][tr] \in Ops \cup {"spawned", "returned", "idle", "run"}
         /\ firing[n][tr] \in {Nothing} \cup Token \X Place
         /\ pc[n][tr] # "spawned" => status[n] = "up"

InOnePlace ==
  /\ \A k, l \in tokens : k[1] = l[1] => k = l
  /\ \A k, l \in taken : k[1] = l[1] => k = l
  /\ \A k \in taken : <<k[1], k[2]>> \in tokens

\* A token is in one place, and taken by one transition there: whatever the
\* runner before had under way when the next one took over, and whoever else
\* takes from the place.  Only a commit that nothing fences can break that, by
\* coming after the lease of its runner is gone.
TokenInOnePlace == ~slipped => InOnePlace

\* Only the runner that took a token ends its firing, up to the first such
\* commit: a firing that has been given back is not ended any more.
EndsOwnFiring ==
  [][~slipped' =>
       \A q \in sent \ sent' : q.op = "end" /\ Admitted(q) => by[q.token] = q.node]_vars

\* The firing of a runner that stopped does not keep its token for ever: its
\* last transaction is still applied, or the next runner gives it back.
InterruptedFiringEnds ==
  \A n \in Node, t \in Token : (by[t] = n /\ status[n] = "stopped") ~> by[t] # n
=============================================================================
