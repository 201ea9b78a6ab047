----------------------------- MODULE PlaceLocks -----------------------------
(***************************************************************************)
(* The distributed place locks of dipen (etcd/place_locks.rs), as the      *)
(* transition runners use them (runner/transition.rs) and as the watcher   *)
(* and the lock request task of a runner give them back (etcd/gate.rs).    *)
(*                                                                         *)
(* A runner holds ONE etcd lease.  For a place it wants, it puts the key   *)
(* pl/{place}/lock/{lease}; the key with the lowest create revision owns   *)
(* the place.  Inside the runner a tokio mutex per place serialises the    *)
(* transition tasks.  The etcd lock is cached: it stays with the runner    *)
(* after a task drops its guard and is given back only when the watcher    *)
(* reports a lock key put by another lease.                                *)
(*                                                                         *)
(* A Node of this module is one lease, that is one run of a runner: a      *)
(* restarted or a failover runner is another node.                         *)
(***************************************************************************)
EXTENDS Naturals, Sequences

CONSTANTS
  Node,          \* leases: runs of a runner
  Place,         \* place ids, ordered as the code sorts them
  Task,          \* transition tasks of all nodes
  Home,          \* Home[t]: the node task t runs in
  StartPlaces,   \* StartPlaces[t]: the places locked before t starts firing
  TargetPlaces,  \* TargetPlaces[t]: the places t may have to lock to finish
  MayFail,       \* bound: the nodes that may stop or lose their lease
  MaxRounds      \* bound: how often a task tries to start firing

ASSUME PlaceLocksAssumption ==
  /\ Place \subseteq Nat
  /\ Home \in [Task -> Node]
  /\ StartPlaces \in [Task -> SUBSET Place]
  /\ TargetPlaces \in [Task -> SUBSET Place]
  /\ MayFail \subseteq Node
  /\ MaxRounds \in Nat

VARIABLES
  keys,    \* etcd: keys[p] is the set of nodes with a lock key for p
  ahead,   \* etcd: ahead[p][n]: keys of p created before the key of n
  lease,   \* etcd: lease[n] is TRUE while the lease of n is alive
  status,  \* status[n]: not started, up, or cancelled
  token,   \* token[n]: the places whose fencing token n caches
  stream,  \* stream[n]: lock keys put by others that n's watcher will report
  work,    \* work[n]: the message the lock request task of n is working on
  held,    \* held[t]: the places whose local mutex task t holds
  todo,    \* todo[t]: the places t has still to acquire
  phase,   \* phase[t]: t has just been spawned, or what it locks for: to give
           \* back tokens a former leader left taken, to start, to finish
  pc,      \* pc[t]: control state of task t
  rounds   \* rounds[t]: how often t began to lock its start places

etcdVars == <<keys, ahead, lease>>
nodeVars == <<status, token, stream, work>>
taskVars == <<held, todo, phase, pc, rounds>>
vars == <<etcdVars, nodeVars, taskVars>>

TasksOf(n) == {t \in Task : Home[t] = n}

\* The places of the reduced net a runner builds for its region.
NetPlaces(n) == UNION {StartPlaces[t] \cup TargetPlaces[t] : t \in TasksOf(n)}

\* etcd answers a lock call when no older lock key for the place is left.
Owns(n, p) == n \in keys[p] /\ ahead[p][n] = {}

\* The mutex of a version whose guards do not exclude one another.
NoMutex(n, p) == TRUE

\* No task of n is between locking the mutex of p and dropping its guard.
MutexFree(n, p) == \A t \in TasksOf(n) : p \notin held[t]

\* The places whose lock task t has: guards pushed and not yet dropped.
Guards(t) == held[t] \ todo[t]

\* The order of a version that does not sort the locks.
AnyOrder(p, S) == p \in S

\* The locks are sorted by place id and acquired one after the other.
IsFirst(p, S) == p \in S /\ \A q \in S : p <= q

Init ==
  /\ keys = [p \in Place |-> {}]
  /\ ahead = [p \in Place |-> [n \in Node |-> {}]]
  /\ lease = [n \in Node |-> FALSE]
  /\ status = [n \in Node |-> "down"]
  /\ token = [n \in Node |-> {}]
  /\ stream = [n \in Node |-> <<>>]
  /\ work = [n \in Node |-> {}]
  /\ held = [t \in Task |-> {}]
  /\ todo = [t \in Task |-> {}]
  /\ phase = [t \in Task |-> "load"]
  /\ pc = [t \in Task |-> "idle"]
  /\ rounds = [t \in Task |-> 0]

-----------------------------------------------------------------------------
(***************************************************************************)
(* The transition tasks.                                                   *)
(***************************************************************************)

Up(t) == status[Home[t]] = "up"

\* Task t goes for the places S: it begins with the first or needs none.
LockAll(t, S) ==
  /\ todo' = [todo EXCEPT ![t] = S]
  /\ pc' = [pc EXCEPT ![t] = IF S = {} THEN "locked" ELSE "lock"]

\* The task has just been spawned and the loaded net shows tokens taken by its
\* transition: they go back to their places, under the locks of those that
\* have output locking.
BeginReturn(t) ==
  /\ Up(t) /\ pc[t] = "idle" /\ phase[t] = "load"
  /\ \E S \in SUBSET StartPlaces[t] : LockAll(t, S)
  /\ phase' = [phase EXCEPT ![t] = "return"]
  /\ UNCHANGED <<etcdVars, nodeVars, held, rounds>>

\* The first, lock-free check_start found the transition enabled.
BeginStart(t) ==
  /\ Up(t) /\ pc[t] = "idle" /\ rounds[t] < MaxRounds
  /\ LockAll(t, StartPlaces[t])
  /\ phase' = [phase EXCEPT ![t] = "start"]
  /\ rounds' = [rounds EXCEPT ![t] = @ + 1]
  /\ UNCHANGED <<etcdVars, nodeVars, held>>

\* The run method returned; its result decides which places are locked.  A
\* place without output locking is not among them, so there may be none.
BeginFinish(t) ==
  /\ Up(t) /\ pc[t] = "run"
  /\ \E S \in SUBSET TargetPlaces[t] : LockAll(t, S)
  /\ phase' = [phase EXCEPT ![t] = "finish"]
  /\ UNCHANGED <<etcdVars, nodeVars, held, rounds>>

\* Task t takes the local mutex of the first place it still needs.
LockMutex(t, p) ==
  /\ Up(t) /\ pc[t] = "lock"
  /\ IsFirst(p, todo[t])
  /\ MutexFree(Home[t], p)
  /\ held' = [held EXCEPT ![t] = @ \cup {p}]

\* The guard for p is pushed: go on with the other places.
PushGuard(t, p) == LockAll(t, todo[t] \ {p})

\* The node still has the lock from earlier: no call to etcd.
AcquireCached(t, p) ==
  /\ LockMutex(t, p)
  /\ p \in token[Home[t]]
  /\ PushGuard(t, p)
  /\ UNCHANGED <<etcdVars, nodeVars, phase, rounds>>

\* No fencing token: the lock call goes out while the local mutex is held.
CallLock(t, p) ==
  /\ LockMutex(t, p)
  /\ p \notin token[Home[t]]
  /\ pc' = [pc EXCEPT ![t] = "call"]
  /\ UNCHANGED <<etcdVars, nodeVars, todo, phase, rounds>>

\* A version whose runner listens to requests only for locks it has cached.
ReportedIfCached(n, m, p) == m # n /\ status[m] = "up" /\ p \in token[m]

\* A watcher hands a lock key on when the place is in its net and the key
\* is not its own lease's.
Reported(n, m, p) == m # n /\ status[m] = "up" /\ p \in NetPlaces(m)

\* etcd creates the key; every other runner watching the prefix will see it.
PutLockKey(t, p) ==
  LET n == Home[t] IN
  /\ Up(t) /\ pc[t] = "call" /\ p \in todo[t] \cap held[t]
  /\ lease[n]
  /\ keys' = [keys EXCEPT ![p] = @ \cup {n}]
  /\ ahead' = [ahead EXCEPT ![p][n] = keys[p]]
  /\ stream' = [m \in Node |-> IF Reported(n, m, p)
                               THEN Append(stream[m], p) ELSE stream[m]]
  /\ pc' = [pc EXCEPT ![t] = "wait"]
  /\ UNCHANGED <<lease, status, token, work, held, todo, phase, rounds>>

\* etcd answers: the fencing token is stored and the guard is returned.
AcquireGranted(t, p) ==
  LET n == Home[t] IN
  /\ Up(t) /\ pc[t] = "wait" /\ p \in todo[t] \cap held[t]
  /\ Owns(n, p)
  /\ token' = [token EXCEPT ![n] = @ \cup {p}]
  /\ PushGuard(t, p)
  /\ UNCHANGED <<etcdVars, status, stream, work, held, phase, rounds>>

\* The release of a version that lets the guards live as long as the task.
ReleaseLate(t, next) ==
  /\ held' = held
  /\ pc' = [pc EXCEPT ![t] = next]
  /\ UNCHANGED <<todo, phase, rounds>>

\* All guards of t are dropped.
Release(t, next) ==
  /\ held' = [held EXCEPT ![t] = {}]
  /\ pc' = [pc EXCEPT ![t] = next]
  /\ UNCHANGED <<todo, phase, rounds>>

\* The second check_start, with all locks, found the transition disabled.
RecheckFails(t) ==
  /\ Up(t) /\ pc[t] = "locked" /\ phase[t] = "start"
  /\ Release(t, "idle")
  /\ UNCHANGED <<etcdVars, nodeVars>>

\* The commit of a version whose transactions do not carry the fencing tokens.
FenceIgnored(t) == TRUE

\* The transaction compares the lease of each lock key with the own lease.
FenceHolds(t) == \A p \in Guards(t) : Home[t] \in keys[p]

\* The start or the end transaction is applied, then the locks are released.
Commit(t) ==
  /\ Up(t) /\ pc[t] = "locked"
  /\ FenceHolds(t)
  /\ Release(t, IF phase[t] = "start" THEN "run" ELSE "idle")
  /\ UNCHANGED <<etcdVars, nodeVars>>

-----------------------------------------------------------------------------
(***************************************************************************)
(* The watcher and the lock request task of a runner.                      *)
(***************************************************************************)

\* One watch response holds the lock keys of a prefix of the stream; the
\* task receives the set of their places.
ReceiveRequests(n) ==
  /\ status[n] = "up" /\ work[n] = {}
  /\ \E k \in 1 .. Len(stream[n]) :
       /\ work' = [work EXCEPT ![n] = {stream[n][i] : i \in 1 .. k}]
       /\ stream' = [stream EXCEPT ![n] = SubSeq(@, k + 1, Len(@))]
  /\ UNCHANGED <<etcdVars, status, token, taskVars>>

\* The keys of the nodes S for the places P are deleted.
DeleteKeys(P, S) ==
  /\ keys' = [p \in Place |-> IF p \in P THEN keys[p] \ S ELSE keys[p]]
  /\ ahead' = [p \in Place |-> [m \in Node |->
                 IF p \notin P THEN ahead[p][m]
                 ELSE IF m \in S THEN {} ELSE ahead[p][m] \ S]]

\* The task waits for the local mutex of the first place of its message;
\* a cached lock is then given back, whether or not it is still asked for.
ExternalAcquire(n, p) ==
  /\ status[n] = "up"
  /\ IsFirst(p, work[n])
  /\ MutexFree(n, p)
  /\ work' = [work EXCEPT ![n] = @ \ {p}]
  /\ token' = [token EXCEPT ![n] = @ \ {p}]
  /\ IF p \in token[n] THEN DeleteKeys({p}, {n}) ELSE UNCHANGED <<keys, ahead>>
  /\ UNCHANGED <<lease, status, stream, taskVars>>

-----------------------------------------------------------------------------
(***************************************************************************)
(* The life of a runner.                                                   *)
(***************************************************************************)

\* Lease granted, elected, data loaded, watch open from the next revision.
StartRunner(n) ==
  /\ status[n] = "down"
  /\ status' = [status EXCEPT ![n] = "up"]
  /\ lease' = [lease EXCEPT ![n] = TRUE]
  /\ UNCHANGED <<keys, ahead, token, stream, work, taskVars>>

\* The cancel token fires: tasks, watcher and lock task are dropped.
StopRunner(n) ==
  /\ status' = [status EXCEPT ![n] = "stopped"]
  /\ token' = [token EXCEPT ![n] = {}]
  /\ stream' = [stream EXCEPT ![n] = <<>>]
  /\ work' = [work EXCEPT ![n] = {}]
  /\ held' = [t \in Task |-> IF Home[t] = n THEN {} ELSE held[t]]
  /\ todo' = [t \in Task |-> IF Home[t] = n THEN {} ELSE todo[t]]
  /\ pc' = [t \in Task |-> IF Home[t] = n THEN "idle" ELSE pc[t]]
  /\ UNCHANGED <<etcdVars, phase, rounds>>

\* A shutdown, a failed keep alive, or any error of the runner.
Cancel(n) ==
  /\ n \in MayFail /\ status[n] = "up"
  /\ StopRunner(n)

\* The transaction or the lock call is refused, the lease being gone: the
\* error ends the task, and with it the runner.
Refused(t) ==
  /\ Up(t)
  /\ \/ pc[t] = "locked" /\ ~FenceHolds(t)
     \/ pc[t] \in {"call", "wait"} /\ ~lease[Home[t]]
  /\ StopRunner(Home[t])

\* The lease is revoked after a stop, or expires while the runner is cut
\* off and still believes it has its locks.
LoseLease(n) ==
  /\ lease[n] /\ (status[n] = "stopped" \/ n \in MayFail)
  /\ lease' = [lease EXCEPT ![n] = FALSE]
  /\ DeleteKeys(Place, {n})
  /\ UNCHANGED <<nodeVars, taskVars>>

\* Every task has used up its rounds and no request is left to handle.
AllDone ==
  /\ \A n \in Node : status[n] # "down" /\ stream[n] = <<>> /\ work[n] = {}
  /\ \A t \in Task : pc[t] = "idle" /\ (Up(t) => rounds[t] = MaxRounds)
  /\ UNCHANGED vars

Locking(t) ==
  \E p \in Place : AcquireCached(t, p) \/ CallLock(t, p)

Calling(t) ==
  \E p \in Place : PutLockKey(t, p) \/ AcquireGranted(t, p)

LockRequests(n) == \E p \in Place : ExternalAcquire(n, p)

Next ==
  \/ \E t \in Task :
       \/ BeginReturn(t) \/ BeginStart(t) \/ BeginFinish(t)
       \/ \E p \in Place :
            \/ AcquireCached(t, p) \/ CallLock(t, p)
            \/ PutLockKey(t, p) \/ AcquireGranted(t, p)
       \/ RecheckFails(t) \/ Commit(t) \/ Refused(t)
  \/ \E n \in Node :
       \/ ReceiveRequests(n)
       \/ \E p \in Place : ExternalAcquire(n, p)
       \/ StartRunner(n) \/ Cancel(n) \/ LoseLease(n)
  \/ AllDone

Spec == Init /\ [][Next]_vars

(***************************************************************************)
(* Fairness.  A ready task is polled again (tokio), an etcd call is        *)
(* answered, and a lease that is not kept alive ends.  tokio's Mutex       *)
(* queues its waiters first in, first out: whoever waits for a mutex that  *)
(* is free again and again gets it, hence strong fairness there.  Nothing  *)
(* obliges a transition to begin, or a runner to fail.                     *)
(***************************************************************************)
Fairness ==
  /\ \A t \in Task :
       /\ SF_vars(Locking(t))
       /\ WF_vars(Calling(t))
       /\ WF_vars(BeginFinish(t))
       /\ WF_vars(RecheckFails(t) \/ Commit(t))
       /\ WF_vars(Refused(t))
  /\ \A n \in Node :
       /\ WF_vars(ReceiveRequests(n))
       /\ SF_vars(LockRequests(n))
       /\ WF_vars(status[n] = "stopped" /\ LoseLease(n))

FairSpec == Spec /\ Fairness

-----------------------------------------------------------------------------
(***************************************************************************)
(* Properties.                                                             *)
(***************************************************************************)

Phase == {"load", "return", "start", "finish"}
Control == {"idle", "lock", "call", "wait", "locked", "run"}
Status == {"down", "up", "stopped"}

\* Every variable has its type; a task that is idle or runs its method holds
\* no mutex, and only keys that exist are ahead of others.
TypeOK ==
  /\ keys \in [Place -> SUBSET Node]
  /\ ahead \in [Place -> [Node -> SUBSET Node]]
  /\ lease \in [Node -> BOOLEAN]
  /\ status \in [Node -> Status]
  /\ token \in [Node -> SUBSET Place]
  /\ stream \in [Node -> Seq(Place)]
  /\ work \in [Node -> SUBSET Place]
  /\ held \in [Task -> SUBSET Place]
  /\ todo \in [Task -> SUBSET Place]
  /\ phase \in [Task -> Phase]
  /\ pc \in [Task -> Control]
  /\ rounds \in [Task -> Nat]
  /\ \A t \in Task : pc[t] \in {"idle", "run"} => held[t] = {}
  /\ \A p \in Place, n \in Node : ahead[p][n] \subseteq keys[p]

\* Two tasks have a guard for the same place at the same time only if the
\* lease of one of them is gone: inside a runner the tokio mutex separates
\* them, between runners the etcd lock, which the lock request task must not
\* give back under a guard that is still in use.
GuardExclusive ==
  \A t, u \in Task : \A p \in Guards(t) \cap Guards(u) :
    t # u => ~lease[Home[t]] \/ ~lease[Home[u]]

\* As long as its lease lives, a task with a guard for a place owns the place
\* in etcd: the cached fencing token a guard carries is never one that was
\* unlocked, so no transaction is refused while the lease lives.
GuardImpliesOwned ==
  \A t \in Task : lease[Home[t]] => \A p \in Guards(t) : Owns(Home[t], p)

\* Whoever waits for a lock behind the key of a running node is known to that
\* node: the request is in the stream of its watcher or with its lock request
\* task.  The initial load may therefore ignore the lock keys it finds, and a
\* node that asks again after giving a lock back loses no request either.
NoLostRequest ==
  \A n, m \in Node : \A p \in Place :
    /\ status[n] = "up"
    /\ n \in ahead[p][m]
    => p \in work[n] \/ \E i \in 1 .. Len(stream[n]) : stream[n][i] = p

\* The step applies a transaction of t.
Commits(t) ==
  /\ pc[t] = "locked" /\ status'[Home[t]] = "up"
  /\ \/ pc'[t] = "run"
     \/ pc'[t] = "idle" /\ phase[t] # "start"

\* The fence of every commit: see CommitFenced.
CommitStep ==
  \A t \in Task : Commits(t) =>
    \A p \in Guards(t) :
      /\ Owns(Home[t], p)
      /\ \A u \in Task \ {t} :
           p \in Guards(u) => Home[u] \notin keys'[p] /\ ~lease'[Home[u]]

\* When a transaction is applied, its node owns every place it has a guard
\* for, and whoever else has a guard for one of them has lost its key for
\* good: its own transaction will be refused.  This is what the fencing
\* tokens are for, when a node is cut off and does not notice.
CommitFenced == [][CommitStep]_vars

\* The lock of a place, seen from outside: whose guard counts.
Holder == [p \in Place |-> {t \in Task : p \in Guards(t) /\ lease[Home[t]]}]

Mutex == INSTANCE PlaceMutex WITH holder <- Holder

\* The cached, distributed locks implement one plain lock per place: a step
\* gives a free lock to one task, or takes locks away from tasks.
ImplementsPlaceMutex == Mutex!Spec

\* "If a second lock request appears, the lock owner should free its lock as
\* soon as possible" (etcd/gate.rs): an owner others wait for does not keep
\* the lock for ever.
RequestedLockIsFreed ==
  \A n \in Node : \A m \in Node \ {n} : \A p \in NetPlaces(n) \cap NetPlaces(m) :
    (Owns(n, p) /\ n \in ahead[p][m]) ~> ~Owns(n, p)

\* A task that began to lock gets all the locks, or its runner stops: tasks
\* of a runner that share several places never wait for one another for ever.
LockingTerminates ==
  \A t \in Task : (pc[t] \in {"lock", "call", "wait"})
                    ~> (pc[t] \notin {"lock", "call", "wait"})
=============================================================================
