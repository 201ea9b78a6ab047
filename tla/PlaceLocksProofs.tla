-------------------------- MODULE PlaceLocksProofs --------------------------
(***************************************************************************)
(* Proofs about the place locks, for any number of runners, tasks and      *)
(* places.                                                                 *)
(***************************************************************************)
EXTENDS PlaceLocks, TLAPS

(***************************************************************************)
(* The inductive invariant.                                                *)
(***************************************************************************)

\* What a task holds and still needs fits its control state.
TaskInv(t) ==
  /\ pc[t] \in {"idle", "run"} => todo[t] = {}
  /\ pc[t] = "locked" => todo[t] = {}
  /\ pc[t] = "lock" => todo[t] \cap held[t] = {}
  /\ pc[t] \in {"call", "wait"} => \E p \in Place : todo[t] \cap held[t] = {p}
  /\ todo[t] \subseteq StartPlaces[t] \cup TargetPlaces[t]
  /\ status[Home[t]] # "up" => pc[t] = "idle"

\* The mutex of a place is held by one task of the runner at most.
MutexInv ==
  \A t, u \in Task :
    t # u /\ Home[t] = Home[u] => held[t] \cap held[u] = {}

\* The keys of a place are ordered by their creation, and live with a lease.
KeysInv(p, n) ==
  /\ n \notin ahead[p][n]
  /\ n \in keys[p] => lease[n] /\ status[n] # "down"
  /\ n \notin keys[p] => ahead[p][n] = {}
  /\ \A m \in keys[p] :
       n \in keys[p] /\ m # n => n \in ahead[p][m] \/ m \in ahead[p][n]

\* A task is in a lock call for p.
Asks(t, p) == pc[t] \in {"call", "wait"} /\ p \in todo[t] \cap held[t]

\* A cached token stands for an owned lock; a key of a running node stands
\* for a cached token or for a call that is under way.
TokenInv(p, n) ==
  /\ p \in token[n] /\ lease[n] => Owns(n, p)
  /\ p \in token[n] => status[n] = "up"
  /\ status[n] = "up" /\ n \in keys[p] =>
       \/ p \in token[n]
       \/ \E t \in TasksOf(n) : pc[t] = "wait" /\ Asks(t, p)

\* A guard carries a cached token; a lock call is made without one.
GuardInv(p, t) ==
  /\ p \in Guards(t) => p \in token[Home[t]]
  /\ Asks(t, p) => p \notin token[Home[t]]
  /\ Asks(t, p) /\ pc[t] = "call" => Home[t] \notin keys[p]

\* What the keys of running nodes are for, and what is left when one stops.
NetInv(p, n) ==
  /\ status[n] = "up" /\ n \in keys[p] => p \in NetPlaces(n)
  /\ status[n] = "down" => ~lease[n]

LocksInv ==
  /\ TypeOK
  /\ \A t \in Task : TaskInv(t)
  /\ MutexInv
  /\ \A p \in Place, n \in Node : KeysInv(p, n) /\ TokenInv(p, n) /\ NetInv(p, n)
  /\ \A p \in Place, t \in Task : GuardInv(p, t)
  /\ NoLostRequest

-----------------------------------------------------------------------------
(***************************************************************************)
(* Type correctness.                                                       *)
(***************************************************************************)

\* The node a task runs in is a node, and it never leaves it.
LEMMA HomeIsNode == \A t \in Task : Home[t] \in Node
BY PlaceLocksAssumption

\* The initial state has its type.
LEMMA InitTypeOK == Init => TypeOK
BY DEF Init, TypeOK, Status, Phase, Control

\* Beginning to lock a set of places, and going on after a guard.
LEMMA LockAllType ==
  ASSUME TypeOK, NEW t \in Task, NEW S \in SUBSET Place, LockAll(t, S)
  PROVE  /\ todo' \in [Task -> SUBSET Place]
         /\ pc' \in [Task -> Control]
         /\ \A u \in Task : pc'[u] \in {"idle", "run"} => pc[u] \in {"idle", "run"} /\ u # t
BY DEF TypeOK, LockAll, Control

\* Deleting keys keeps the types, and what is ahead of a key exists.
LEMMA DeleteKeysType ==
  ASSUME TypeOK, NEW P \in SUBSET Place, NEW S \in SUBSET Node, DeleteKeys(P, S)
  PROVE  /\ keys' \in [Place -> SUBSET Node]
         /\ ahead' \in [Place -> [Node -> SUBSET Node]]
         /\ \A p \in Place, n \in Node : ahead'[p][n] \subseteq keys'[p]
BY DEF TypeOK, DeleteKeys

\* A runner that stops keeps the types.
LEMMA StopRunnerType ==
  ASSUME TypeOK, NEW n \in Node, StopRunner(n)
  PROVE  TypeOK'
BY DEF TypeOK, StopRunner, Status, Control, Phase, etcdVars

\* Every step keeps the types.
LEMMA NextTypeOK == TypeOK /\ [Next]_vars => TypeOK'
<1> SUFFICES ASSUME TypeOK, [Next]_vars PROVE TypeOK'
  OBVIOUS
<1> USE PlaceLocksAssumption
<1>1. ASSUME NEW t \in Task, BeginReturn(t) PROVE TypeOK'
  <2>1. PICK S \in SUBSET StartPlaces[t] : LockAll(t, S)
    BY <1>1 DEF BeginReturn
  <2> QED
    BY <1>1, <2>1, LockAllType DEF BeginReturn, TypeOK, Phase, etcdVars, nodeVars
<1>2. ASSUME NEW t \in Task, BeginStart(t) PROVE TypeOK'
  <2>1. LockAll(t, StartPlaces[t])
    BY <1>2 DEF BeginStart
  <2> QED
    BY <1>2, <2>1, LockAllType DEF BeginStart, TypeOK, Phase, etcdVars, nodeVars
<1>3. ASSUME NEW t \in Task, BeginFinish(t) PROVE TypeOK'
  <2>1. PICK S \in SUBSET TargetPlaces[t] : LockAll(t, S)
    BY <1>3 DEF BeginFinish
  <2> QED
    BY <1>3, <2>1, LockAllType DEF BeginFinish, TypeOK, Phase, etcdVars, nodeVars
<1>4. ASSUME NEW t \in Task, NEW p \in Place, AcquireCached(t, p) PROVE TypeOK'
  <2>1. LockAll(t, todo[t] \ {p}) /\ todo[t] \ {p} \in SUBSET Place
    BY <1>4 DEF AcquireCached, PushGuard, TypeOK
  <2> QED
    BY <1>4, <2>1, LockAllType DEF AcquireCached, LockMutex, TypeOK, etcdVars, nodeVars
<1>5. ASSUME NEW t \in Task, NEW p \in Place, CallLock(t, p) PROVE TypeOK'
  BY <1>5 DEF CallLock, LockMutex, TypeOK, Control, etcdVars, nodeVars
<1>6. ASSUME NEW t \in Task, NEW p \in Place, PutLockKey(t, p) PROVE TypeOK'
  <2>1. keys' \in [Place -> SUBSET Node] /\ ahead' \in [Place -> [Node -> SUBSET Node]]
    BY <1>6 DEF PutLockKey, TypeOK
  <2>2. \A q \in Place, n \in Node : ahead'[q][n] \subseteq keys'[q]
    BY <1>6 DEF PutLockKey, TypeOK
  <2>3. stream' \in [Node -> Seq(Place)]
    BY <1>6 DEF PutLockKey, TypeOK
  <2> QED
    BY <1>6, <2>1, <2>2, <2>3 DEF PutLockKey, TypeOK, Control
<1>7. ASSUME NEW t \in Task, NEW p \in Place, AcquireGranted(t, p) PROVE TypeOK'
  <2>1. LockAll(t, todo[t] \ {p}) /\ todo[t] \ {p} \in SUBSET Place
    BY <1>7 DEF AcquireGranted, PushGuard, TypeOK
  <2>2. token' \in [Node -> SUBSET Place]
    BY <1>7 DEF AcquireGranted, TypeOK
  <2> QED
    BY <1>7, <2>1, <2>2, LockAllType DEF AcquireGranted, TypeOK, etcdVars
<1>8. ASSUME NEW t \in Task, RecheckFails(t) PROVE TypeOK'
  BY <1>8 DEF RecheckFails, Release, TypeOK, Control, etcdVars, nodeVars
<1>9. ASSUME NEW t \in Task, Commit(t) PROVE TypeOK'
  BY <1>9 DEF Commit, Release, TypeOK, Control, etcdVars, nodeVars
<1>10. ASSUME NEW t \in Task, Refused(t) PROVE TypeOK'
  BY <1>10, StopRunnerType, HomeIsNode DEF Refused
<1>11. ASSUME NEW n \in Node, ReceiveRequests(n) PROVE TypeOK'
  <2>1. PICK k \in 1 .. Len(stream[n]) :
          /\ work' = [work EXCEPT ![n] = {stream[n][i] : i \in 1 .. k}]
          /\ stream' = [stream EXCEPT ![n] = SubSeq(@, k + 1, Len(@))]
    BY <1>11 DEF ReceiveRequests
  <2>2. stream[n] \in Seq(Place) /\ Len(stream[n]) \in Nat
    BY DEF TypeOK
  <2>3. {stream[n][i] : i \in 1 .. k} \subseteq Place
    BY <2>2
  <2>4. SubSeq(stream[n], k + 1, Len(stream[n])) \in Seq(Place)
    BY <2>2
  <2> QED
    BY <1>11, <2>1, <2>3, <2>4 DEF ReceiveRequests, TypeOK, etcdVars, taskVars
<1>12. ASSUME NEW n \in Node, NEW p \in Place, ExternalAcquire(n, p) PROVE TypeOK'
  <2>1. /\ keys' \in [Place -> SUBSET Node]
        /\ ahead' \in [Place -> [Node -> SUBSET Node]]
        /\ \A q \in Place, m \in Node : ahead'[q][m] \subseteq keys'[q]
    <3>1. CASE p \in token[n]
      BY <1>12, <3>1, DeleteKeysType DEF ExternalAcquire
    <3>2. CASE p \notin token[n]
      BY <1>12, <3>2 DEF ExternalAcquire, TypeOK
    <3> QED
      BY <3>1, <3>2
  <2> QED
    BY <1>12, <2>1 DEF ExternalAcquire, TypeOK, taskVars
<1>13. ASSUME NEW n \in Node, StartRunner(n) PROVE TypeOK'
  BY <1>13 DEF StartRunner, TypeOK, Status, taskVars
<1>14. ASSUME NEW n \in Node, Cancel(n) PROVE TypeOK'
  BY <1>14, StopRunnerType DEF Cancel
<1>15. ASSUME NEW n \in Node, LoseLease(n) PROVE TypeOK'
  <2>1. /\ keys' \in [Place -> SUBSET Node]
        /\ ahead' \in [Place -> [Node -> SUBSET Node]]
        /\ \A q \in Place, m \in Node : ahead'[q][m] \subseteq keys'[q]
    BY <1>15, DeleteKeysType DEF LoseLease
  <2> QED
    BY <1>15, <2>1 DEF LoseLease, TypeOK, nodeVars, taskVars
<1>16. CASE UNCHANGED vars
  BY <1>16 DEF TypeOK, vars, etcdVars, nodeVars, taskVars
<1> QED
  BY <1>1, <1>2, <1>3, <1>4, <1>5, <1>6, <1>7, <1>8, <1>9, <1>10, <1>11,
     <1>12, <1>13, <1>14, <1>15, <1>16 DEF Next, AllDone

\* Every variable of the place locks always has its type, and a task that is
\* idle or runs its method holds no mutex.
THEOREM TypeCorrect == Spec => []TypeOK
BY InitTypeOK, NextTypeOK, PTL DEF Spec
-----------------------------------------------------------------------------
(***************************************************************************)
(* The inductive invariant: one lemma for each of its parts.               *)
(***************************************************************************)

\* The initial state satisfies the invariant.
LEMMA InitLocksInv == Init => LocksInv
BY InitTypeOK, PlaceLocksAssumption
   DEF Init, LocksInv, TaskInv, MutexInv, KeysInv, TokenInv, GuardInv, NetInv,
       NoLostRequest, Guards, Asks

\* Every step keeps what a task holds and needs in line with its control
\* state.
LEMMA TaskNext ==
  ASSUME LocksInv, [Next]_vars, NEW u \in Task
  PROVE  TaskInv(u)'
<1> USE PlaceLocksAssumption
<1>1. ASSUME NEW t \in Task, BeginReturn(t) PROVE TaskInv(u)'
  <2>1. PICK S \in SUBSET StartPlaces[t] : LockAll(t, S)
    BY <1>1 DEF BeginReturn
  <2>2. CASE u = t
    <3>1. /\ todo'[t] = S /\ pc'[t] = IF S = {} THEN "locked" ELSE "lock"
          /\ status'[Home[t]] = "up" /\ held'[t] = held[t]
      BY <1>1, <2>1 DEF BeginReturn, LockAll, Up, nodeVars, LocksInv, TypeOK
    <3>2. held[t] = {}
      BY <1>1 DEF BeginReturn, LocksInv, TypeOK
    <3> QED
      BY <2>2, <3>1, <3>2 DEF TaskInv
  <2>3. CASE u # t
    BY <1>1, <2>1, <2>3 DEF BeginReturn, LockAll, etcdVars, nodeVars, LocksInv, TypeOK,
       TaskInv
  <2> QED
    BY <2>2, <2>3
<1>2. ASSUME NEW t \in Task, BeginStart(t) PROVE TaskInv(u)'
  <2>1. CASE u = t
    BY <1>2, <2>1 DEF BeginStart, LockAll, Up, etcdVars, nodeVars, LocksInv, TypeOK, TaskInv
  <2>2. CASE u # t
    BY <1>2, <2>2 DEF BeginStart, LockAll, etcdVars, nodeVars, LocksInv, TypeOK, TaskInv
  <2> QED
    BY <2>1, <2>2
<1>3. ASSUME NEW t \in Task, BeginFinish(t) PROVE TaskInv(u)'
  <2>1. PICK S \in SUBSET TargetPlaces[t] : LockAll(t, S)
    BY <1>3 DEF BeginFinish
  <2>2. CASE u = t
    <3>1. /\ todo'[t] = S /\ pc'[t] = IF S = {} THEN "locked" ELSE "lock"
          /\ status'[Home[t]] = "up" /\ held'[t] = held[t]
      BY <1>3, <2>1 DEF BeginFinish, LockAll, Up, nodeVars, LocksInv, TypeOK
    <3>2. held[t] = {}
      BY <1>3 DEF BeginFinish, LocksInv, TypeOK
    <3> QED
      BY <2>2, <3>1, <3>2 DEF TaskInv
  <2>3. CASE u # t
    <3>1. /\ todo'[u] = todo[u] /\ pc'[u] = pc[u] /\ held' = held
          /\ UNCHANGED <<etcdVars, nodeVars>>
      BY <1>3, <2>1, <2>3 DEF BeginFinish, LockAll, etcdVars, nodeVars, LocksInv, TypeOK
    <3> QED
      BY <3>1 DEF etcdVars, nodeVars, LocksInv, TaskInv
  <2> QED
    BY <2>2, <2>3
<1>4. ASSUME NEW t \in Task, NEW p \in Place, AcquireCached(t, p) PROVE TaskInv(u)'
  <2>1. CASE u = t
    BY <1>4, <2>1 DEF AcquireCached, PushGuard, LockAll, LockMutex, Up, etcdVars, nodeVars,
       LocksInv, TypeOK, TaskInv
  <2>2. CASE u # t
    BY <1>4, <2>2 DEF AcquireCached, PushGuard, LockAll, LockMutex, etcdVars, nodeVars,
       LocksInv, TypeOK, TaskInv
  <2> QED
    BY <2>1, <2>2
<1>5. ASSUME NEW t \in Task, NEW p \in Place, CallLock(t, p) PROVE TaskInv(u)'
  <2>1. CASE u = t
    <3>1. todo'[t] \cap held'[t] = {p}
      BY <1>5 DEF CallLock, LockMutex, IsFirst, LocksInv, TypeOK, TaskInv
    <3> QED
      BY <1>5, <2>1, <3>1 DEF CallLock, LockMutex, Up, etcdVars, nodeVars, LocksInv,
         TypeOK, TaskInv
  <2>2. CASE u # t
    BY <1>5, <2>2 DEF CallLock, LockMutex, etcdVars, nodeVars, LocksInv, TypeOK, TaskInv
  <2> QED
    BY <2>1, <2>2
<1>6. ASSUME NEW t \in Task, NEW p \in Place, PutLockKey(t, p) PROVE TaskInv(u)'
  BY <1>6 DEF PutLockKey, Up, LocksInv, TypeOK, TaskInv
<1>7. ASSUME NEW t \in Task, NEW p \in Place, AcquireGranted(t, p) PROVE TaskInv(u)'
  <2>1. CASE u = t
    BY <1>7, <2>1 DEF AcquireGranted, PushGuard, LockAll, Up, etcdVars, LocksInv, TypeOK, TaskInv
  <2>2. CASE u # t
    BY <1>7, <2>2 DEF AcquireGranted, PushGuard, LockAll, etcdVars, LocksInv, TypeOK, TaskInv
  <2> QED
    BY <2>1, <2>2
<1>8. ASSUME NEW t \in Task, RecheckFails(t) PROVE TaskInv(u)'
  BY <1>8 DEF RecheckFails, Release, Up, etcdVars, nodeVars, LocksInv, TypeOK, TaskInv
<1>9. ASSUME NEW t \in Task, Commit(t) PROVE TaskInv(u)'
  BY <1>9 DEF Commit, Release, Up, etcdVars, nodeVars, LocksInv, TypeOK, TaskInv
<1>10. ASSUME NEW t \in Task, Refused(t) PROVE TaskInv(u)'
  BY <1>10 DEF Refused, StopRunner, etcdVars, LocksInv, TypeOK, TaskInv
<1>11. ASSUME NEW n \in Node, ReceiveRequests(n) PROVE TaskInv(u)'
  BY <1>11 DEF ReceiveRequests, etcdVars, taskVars, LocksInv, TypeOK, TaskInv
<1>12. ASSUME NEW n \in Node, NEW p \in Place, ExternalAcquire(n, p) PROVE TaskInv(u)'
  BY <1>12 DEF ExternalAcquire, taskVars, LocksInv, TypeOK, TaskInv
<1>13. ASSUME NEW n \in Node, StartRunner(n) PROVE TaskInv(u)'
  BY <1>13 DEF StartRunner, taskVars, LocksInv, TypeOK, TaskInv
<1>14. ASSUME NEW n \in Node, Cancel(n) PROVE TaskInv(u)'
  BY <1>14 DEF Cancel, StopRunner, etcdVars, LocksInv, TypeOK, TaskInv
<1>15. ASSUME NEW n \in Node, LoseLease(n) PROVE TaskInv(u)'
  BY <1>15 DEF LoseLease, nodeVars, taskVars, LocksInv, TypeOK, TaskInv
<1>16. CASE UNCHANGED vars
  BY <1>16 DEF LocksInv, TypeOK, TaskInv, vars, etcdVars, nodeVars, taskVars
<1> QED
  BY <1>1, <1>2, <1>3, <1>4, <1>5, <1>6, <1>7, <1>8, <1>9, <1>10, <1>11,
     <1>12, <1>13, <1>14, <1>15, <1>16 DEF Next, AllDone

\* No step gives a mutex to two tasks of a runner.
LEMMA MutexNext ==
  ASSUME LocksInv, [Next]_vars
  PROVE  MutexInv'
<1> USE PlaceLocksAssumption
<1>1. ASSUME NEW t \in Task, BeginReturn(t) PROVE MutexInv'
  BY <1>1 DEF BeginReturn, LockAll, Up, etcdVars, nodeVars, LocksInv, TypeOK, MutexInv
<1>2. ASSUME NEW t \in Task, BeginStart(t) PROVE MutexInv'
  BY <1>2 DEF BeginStart, LockAll, Up, etcdVars, nodeVars, LocksInv, TypeOK, MutexInv
<1>3. ASSUME NEW t \in Task, BeginFinish(t) PROVE MutexInv'
  BY <1>3 DEF BeginFinish, LockAll, Up, etcdVars, nodeVars, LocksInv, TypeOK, MutexInv
<1>4. ASSUME NEW t \in Task, NEW p \in Place, AcquireCached(t, p) PROVE MutexInv'
  BY <1>4 DEF AcquireCached, PushGuard, LockAll, LockMutex, Up, MutexFree, TasksOf,
     etcdVars, nodeVars, LocksInv, TypeOK, MutexInv
<1>5. ASSUME NEW t \in Task, NEW p \in Place, CallLock(t, p) PROVE MutexInv'
  BY <1>5 DEF CallLock, LockMutex, Up, IsFirst, MutexFree, TasksOf, etcdVars,
     nodeVars, LocksInv, TypeOK, MutexInv
<1>6. ASSUME NEW t \in Task, NEW p \in Place, PutLockKey(t, p) PROVE MutexInv'
  BY <1>6 DEF PutLockKey, Up, LocksInv, TypeOK, MutexInv
<1>7. ASSUME NEW t \in Task, NEW p \in Place, AcquireGranted(t, p) PROVE MutexInv'
  BY <1>7 DEF AcquireGranted, PushGuard, LockAll, Up, etcdVars, LocksInv, TypeOK,
     MutexInv
<1>8. ASSUME NEW t \in Task, RecheckFails(t) PROVE MutexInv'
  BY <1>8 DEF RecheckFails, Release, Up, etcdVars, nodeVars, LocksInv, TypeOK,
     MutexInv
<1>9. ASSUME NEW t \in Task, Commit(t) PROVE MutexInv'
  BY <1>9 DEF Commit, Release, Up, etcdVars, nodeVars, LocksInv, TypeOK, MutexInv
<1>10. ASSUME NEW t \in Task, Refused(t) PROVE MutexInv'
  BY <1>10 DEF Refused, StopRunner, etcdVars, LocksInv, TypeOK, MutexInv
<1>11. ASSUME NEW n \in Node, ReceiveRequests(n) PROVE MutexInv'
  BY <1>11 DEF ReceiveRequests, etcdVars, taskVars, LocksInv, TypeOK, MutexInv
<1>12. ASSUME NEW n \in Node, NEW p \in Place, ExternalAcquire(n, p) PROVE MutexInv'
  BY <1>12 DEF ExternalAcquire, taskVars, LocksInv, TypeOK, MutexInv
<1>13. ASSUME NEW n \in Node, StartRunner(n) PROVE MutexInv'
  BY <1>13 DEF StartRunner, taskVars, LocksInv, TypeOK, MutexInv
<1>14. ASSUME NEW n \in Node, Cancel(n) PROVE MutexInv'
  BY <1>14 DEF Cancel, StopRunner, etcdVars, LocksInv, TypeOK, MutexInv
<1>15. ASSUME NEW n \in Node, LoseLease(n) PROVE MutexInv'
  BY <1>15 DEF LoseLease, nodeVars, taskVars, LocksInv, TypeOK, MutexInv
<1>16. CASE UNCHANGED vars
  BY <1>16 DEF LocksInv, TypeOK, MutexInv, vars, etcdVars, nodeVars, taskVars
<1> QED
  BY <1>1, <1>2, <1>3, <1>4, <1>5, <1>6, <1>7, <1>8, <1>9, <1>10, <1>11,
     <1>12, <1>13, <1>14, <1>15, <1>16 DEF Next, AllDone

\* What a step may do beyond the tasks: it leaves etcd and the nodes alone, or
\* it is one of these.
LEMMA NodeSteps ==
  ASSUME [Next]_vars
  PROVE  \/ UNCHANGED <<etcdVars, nodeVars>>
         \/ \E t \in Task, p \in Place : PutLockKey(t, p) \/ AcquireGranted(t, p)
         \/ \E n \in Node, p \in Place : ExternalAcquire(n, p)
         \/ \E n \in Node : ReceiveRequests(n) \/ StartRunner(n) \/ LoseLease(n)
         \/ \E n \in Node : status[n] = "up" /\ StopRunner(n)
<1>1. ASSUME NEW t \in Task, Refused(t)
      PROVE  \E n \in Node : status[n] = "up" /\ StopRunner(n)
  BY <1>1, HomeIsNode DEF Refused, Up
<1> QED
  BY <1>1 DEF Next, AllDone, vars, BeginReturn, BeginStart, BeginFinish, AcquireCached,
     CallLock, RecheckFails, Commit, Cancel

\* Deleting keys leaves the other keys of a place in their order.
LEMMA DeleteKeysOrder ==
  ASSUME LocksInv, NEW P \in SUBSET Place, NEW S \in SUBSET Node, DeleteKeys(P, S),
         NEW q \in Place, NEW k \in Node
  PROVE  /\ k \notin ahead'[q][k]
         /\ k \in keys'[q] => k \in keys[q]
         /\ k \notin keys'[q] => ahead'[q][k] = {}
         /\ \A m \in keys'[q] :
              k \in keys'[q] /\ m # k => k \in ahead'[q][m] \/ m \in ahead'[q][k]
<1>1. /\ keys \in [Place -> SUBSET Node]
      /\ \A n \in Node : KeysInv(q, n)
  BY DEF LocksInv, TypeOK
<1>2. CASE q \in P
  <2>1. keys'[q] = keys[q] \ S
    BY <1>2 DEF DeleteKeys
  <2>2. \A n \in Node : ahead'[q][n] = IF n \in S THEN {} ELSE ahead[q][n] \ S
    BY <1>2 DEF DeleteKeys
  <2>3. k \notin ahead'[q][k] /\ (k \notin keys'[q] => ahead'[q][k] = {})
    BY <1>1, <2>1, <2>2 DEF KeysInv
  <2>4. ASSUME NEW m \in keys'[q], k \in keys'[q], m # k
        PROVE  k \in ahead'[q][m] \/ m \in ahead'[q][k]
    <3>1. m \in Node /\ m \in keys[q] /\ k \in keys[q] /\ m \notin S /\ k \notin S
      BY <1>1, <2>1, <2>4
    <3>2. k \in ahead[q][m] \/ m \in ahead[q][k]
      BY <1>1, <2>4, <3>1 DEF KeysInv
    <3> QED
      BY <2>2, <3>1, <3>2
  <2> QED
    BY <2>1, <2>3, <2>4
<1>3. CASE q \notin P
  BY <1>1, <1>3 DEF DeleteKeys, KeysInv
<1> QED
  BY <1>2, <1>3

\* Every step keeps the keys of a place in the order of their creation.
LEMMA KeysNext ==
  ASSUME LocksInv, [Next]_vars, NEW q \in Place, NEW k \in Node
  PROVE  KeysInv(q, k)'
<1>1. CASE UNCHANGED <<etcdVars, nodeVars>>
  BY <1>1 DEF LocksInv, KeysInv, etcdVars, nodeVars
<1>2. ASSUME NEW t \in Task, NEW p \in Place, PutLockKey(t, p) PROVE KeysInv(q, k)'
  <2>1. Home[t] \in Node /\ Home[t] \notin keys[p]
    BY <1>2, HomeIsNode DEF PutLockKey, LocksInv, GuardInv, Asks
  <2> QED
    BY <1>2, <2>1 DEF PutLockKey, Up, LocksInv, TypeOK, KeysInv
<1>3. ASSUME NEW t \in Task, NEW p \in Place, AcquireGranted(t, p) PROVE KeysInv(q, k)'
  BY <1>3 DEF AcquireGranted, etcdVars, LocksInv, KeysInv
<1>4. ASSUME NEW n \in Node, NEW p \in Place, ExternalAcquire(n, p) PROVE KeysInv(q, k)'
  <2>1. CASE p \in token[n]
    <3>1. DeleteKeys({p}, {n}) /\ lease' = lease /\ status' = status
      BY <1>4, <2>1 DEF ExternalAcquire
    <3>2. {p} \in SUBSET Place /\ {n} \in SUBSET Node
      OBVIOUS
    <3> QED
      BY <3>1, <3>2, DeleteKeysOrder DEF KeysInv, LocksInv
  <2>2. CASE p \notin token[n]
    BY <1>4, <2>2 DEF ExternalAcquire, LocksInv, KeysInv
  <2> QED
    BY <2>1, <2>2
<1>5. ASSUME NEW n \in Node, ReceiveRequests(n) PROVE KeysInv(q, k)'
  BY <1>5 DEF ReceiveRequests, etcdVars, LocksInv, KeysInv
<1>6. ASSUME NEW n \in Node, StartRunner(n) PROVE KeysInv(q, k)'
  BY <1>6 DEF StartRunner, LocksInv, TypeOK, KeysInv
<1>7. ASSUME NEW n \in Node, LoseLease(n) PROVE KeysInv(q, k)'
  <2>1. DeleteKeys(Place, {n}) /\ lease' = [lease EXCEPT ![n] = FALSE] /\ status' = status
    BY <1>7 DEF LoseLease, nodeVars
  <2>2. n \notin keys'[q]
    BY <2>1 DEF DeleteKeys
  <2>3. Place \in SUBSET Place /\ {n} \in SUBSET Node
    OBVIOUS
  <2>4. /\ k \notin ahead'[q][k]
        /\ k \in keys'[q] => k \in keys[q]
        /\ k \notin keys'[q] => ahead'[q][k] = {}
        /\ \A m \in keys'[q] :
             k \in keys'[q] /\ m # k => k \in ahead'[q][m] \/ m \in ahead'[q][k]
    BY <2>1, <2>3, DeleteKeysOrder
  <2>5. k \in keys'[q] => lease'[k] /\ status'[k] # "down"
    BY <2>1, <2>2, <2>4 DEF KeysInv, LocksInv, TypeOK
  <2> QED
    BY <2>4, <2>5 DEF KeysInv
<1>8. ASSUME NEW n \in Node, status[n] = "up", StopRunner(n) PROVE KeysInv(q, k)'
  BY <1>8 DEF StopRunner, etcdVars, LocksInv, TypeOK, KeysInv
<1> QED
  BY <1>1, <1>2, <1>3, <1>4, <1>5, <1>6, <1>7, <1>8, NodeSteps

\* A cached token goes on standing for an owned lock, and a key for a token or
\* a call.
LEMMA TokenNext ==
  ASSUME LocksInv, [Next]_vars, NEW q \in Place, NEW k \in Node
  PROVE  TokenInv(q, k)'
<1> USE PlaceLocksAssumption
<1>1. ASSUME NEW t \in Task, BeginReturn(t) PROVE TokenInv(q, k)'
  BY <1>1 DEF BeginReturn, LockAll, etcdVars, nodeVars, LocksInv, TypeOK, TokenInv,
     Owns, Asks, TasksOf
<1>2. ASSUME NEW t \in Task, BeginStart(t) PROVE TokenInv(q, k)'
  BY <1>2 DEF BeginStart, LockAll, etcdVars, nodeVars, LocksInv, TypeOK, TokenInv,
     Owns, Asks, TasksOf
<1>3. ASSUME NEW t \in Task, BeginFinish(t) PROVE TokenInv(q, k)'
  BY <1>3 DEF BeginFinish, LockAll, etcdVars, nodeVars, LocksInv, TypeOK, TokenInv,
     Owns, Asks, TasksOf
<1>4. ASSUME NEW t \in Task, NEW p \in Place, AcquireCached(t, p) PROVE TokenInv(q, k)'
  BY <1>4 DEF AcquireCached, PushGuard, LockAll, LockMutex, etcdVars, nodeVars,
     LocksInv, TypeOK, TokenInv, Owns, Asks, TasksOf
<1>5. ASSUME NEW t \in Task, NEW p \in Place, CallLock(t, p) PROVE TokenInv(q, k)'
  BY <1>5 DEF CallLock, LockMutex, etcdVars, nodeVars, LocksInv, TypeOK, TokenInv,
     Owns, Asks, TasksOf
<1>6. ASSUME NEW t \in Task, NEW p \in Place, PutLockKey(t, p) PROVE TokenInv(q, k)'
  <2>1. Home[t] \in Node /\ Home[t] \notin keys[p]
    BY <1>6 DEF PutLockKey, LocksInv, GuardInv, Asks
  <2> QED
    BY <1>6, <2>1 DEF PutLockKey, Up, LocksInv, TypeOK, TokenInv, Owns, Asks, TasksOf,
       GuardInv
<1>7. ASSUME NEW t \in Task, NEW p \in Place, AcquireGranted(t, p) PROVE TokenInv(q, k)'
  <2>1. /\ keys' = keys /\ ahead' = ahead /\ lease' = lease /\ status' = status
        /\ held' = held /\ status[Home[t]] = "up" /\ Owns(Home[t], p)
    BY <1>7 DEF AcquireGranted, Up, etcdVars
  <2>2. token'[k] = IF k = Home[t] THEN token[k] \cup {p} ELSE token[k]
    BY <1>7 DEF AcquireGranted, LocksInv, TypeOK
  <2>3. TokenInv(q, k)
    BY DEF LocksInv
  <2>4. CASE k = Home[t] /\ q = p
    BY <2>1, <2>2, <2>4 DEF TokenInv, Owns
  <2>5. CASE ~(k = Home[t] /\ q = p)
    <3>1. q \in token'[k] <=> q \in token[k]
      BY <2>2, <2>5
    <3>2. ASSUME NEW u \in TasksOf(k), pc[u] = "wait", Asks(u, q)
          PROVE  pc'[u] = "wait" /\ Asks(u, q)'
      <4>1. \E r \in Place : todo[t] \cap held[t] = {r}
        BY <1>7 DEF AcquireGranted, LocksInv, TaskInv
      <4>2. u # t
        BY <1>7, <2>5, <3>2, <4>1 DEF AcquireGranted, TasksOf, Asks
      <4> QED
        BY <1>7, <3>2, <4>2 DEF AcquireGranted, PushGuard, LockAll, TasksOf, Asks,
           LocksInv, TypeOK
    <3> QED
      BY <2>1, <2>3, <3>1, <3>2 DEF TokenInv, Owns, TasksOf
  <2> QED
    BY <2>4, <2>5
<1>8. ASSUME NEW t \in Task, RecheckFails(t) PROVE TokenInv(q, k)'
  BY <1>8 DEF RecheckFails, Release, etcdVars, nodeVars, LocksInv, TypeOK, TokenInv,
     Owns, Asks, TasksOf
<1>9. ASSUME NEW t \in Task, Commit(t) PROVE TokenInv(q, k)'
  BY <1>9 DEF Commit, Release, etcdVars, nodeVars, LocksInv, TypeOK, TokenInv, Owns,
     Asks, TasksOf
<1>10. ASSUME NEW n \in Node, StopRunner(n) PROVE TokenInv(q, k)'
  BY <1>10 DEF StopRunner, etcdVars, LocksInv, TypeOK, TokenInv, Owns, Asks, TasksOf
<1>11. ASSUME NEW n \in Node, ReceiveRequests(n) PROVE TokenInv(q, k)'
  BY <1>11 DEF ReceiveRequests, etcdVars, taskVars, LocksInv, TokenInv, Owns, Asks,
     TasksOf
<1>12. ASSUME NEW n \in Node, NEW p \in Place, ExternalAcquire(n, p)
       PROVE  TokenInv(q, k)'
  <2>1. /\ lease' = lease /\ status' = status /\ UNCHANGED taskVars
        /\ token' = [token EXCEPT ![n] = @ \ {p}]
    BY <1>12 DEF ExternalAcquire
  <2>2. token'[k] = IF k = n THEN token[k] \ {p} ELSE token[k]
    BY <2>1 DEF LocksInv, TypeOK
  <2>3. TokenInv(q, k)
    BY DEF LocksInv
  <2>4. CASE p \in token[n]
    <3>1. DeleteKeys({p}, {n})
      BY <1>12, <2>4 DEF ExternalAcquire
    <3>2. keys'[q] = IF q = p THEN keys[q] \ {n} ELSE keys[q]
      BY <3>1 DEF DeleteKeys
    <3>3. ahead'[q][k] = IF q # p THEN ahead[q][k]
                         ELSE IF k = n THEN {} ELSE ahead[q][k] \ {n}
      BY <3>1 DEF DeleteKeys
    <3> QED
      BY <2>1, <2>2, <2>3, <3>2, <3>3 DEF TokenInv, Owns, Asks, taskVars
  <2>5. CASE p \notin token[n]
    BY <1>12, <2>1, <2>2, <2>3, <2>5 DEF ExternalAcquire, TokenInv, Owns, Asks, taskVars
  <2> QED
    BY <2>4, <2>5
<1>13. ASSUME NEW n \in Node, StartRunner(n) PROVE TokenInv(q, k)'
  <2>1. ~lease[n]
    BY <1>13 DEF StartRunner, LocksInv, NetInv
  <2>2. k = n => k \notin keys[q] /\ q \notin token[k]
    BY <1>13, <2>1 DEF StartRunner, LocksInv, KeysInv, TokenInv
  <2> QED
    BY <1>13, <2>2 DEF StartRunner, taskVars, LocksInv, TypeOK, TokenInv, Owns, Asks,
       TasksOf
<1>14. ASSUME NEW n \in Node, LoseLease(n) PROVE TokenInv(q, k)'
  <2>1. /\ lease' = [lease EXCEPT ![n] = FALSE] /\ UNCHANGED <<nodeVars, taskVars>>
        /\ DeleteKeys(Place, {n})
    BY <1>14 DEF LoseLease
  <2>2. keys'[q] = keys[q] \ {n} /\ (k # n => ahead'[q][k] = ahead[q][k] \ {n})
    BY <2>1 DEF DeleteKeys
  <2>3. TokenInv(q, k)
    BY DEF LocksInv
  <2> QED
    BY <2>1, <2>2, <2>3 DEF TokenInv, Owns, Asks, LocksInv, TypeOK, nodeVars, taskVars
<1>15. CASE UNCHANGED vars
  BY <1>15 DEF LocksInv, TokenInv, Owns, Asks, TasksOf, vars, etcdVars, nodeVars, taskVars
<1> QED
  BY <1>1, <1>2, <1>3, <1>4, <1>5, <1>6, <1>7, <1>8, <1>9, <1>10, <1>11, <1>12,
     <1>13, <1>14, <1>15 DEF Next, AllDone, Refused, Cancel

\* Every step keeps the guards backed by cached tokens, and the lock calls
\* free of them.
LEMMA GuardNext ==
  ASSUME LocksInv, [Next]_vars, NEW q \in Place, NEW v \in Task
  PROVE  GuardInv(q, v)'
<1> USE PlaceLocksAssumption
<1>0. GuardInv(q, v) /\ TaskInv(v) /\ TypeOK
  BY DEF LocksInv
<1>1. ASSUME NEW t \in Task, BeginReturn(t) \/ BeginStart(t) \/ BeginFinish(t)
      PROVE  GuardInv(q, v)'
  <2>1. token' = token /\ keys' = keys /\ held' = held /\ held[t] = {}
    BY <1>0, <1>1 DEF BeginReturn, BeginStart, BeginFinish, etcdVars, nodeVars, TypeOK
  <2>2. pc'[t] \in {"lock", "locked"}
    BY <1>0, <1>1 DEF BeginReturn, BeginStart, BeginFinish, LockAll, TypeOK
  <2>3. v # t => todo'[v] = todo[v] /\ pc'[v] = pc[v]
    BY <1>0, <1>1 DEF BeginReturn, BeginStart, BeginFinish, LockAll, TypeOK
  <2> QED
    BY <1>0, <2>1, <2>2, <2>3 DEF GuardInv, Guards, Asks
<1>2. ASSUME NEW t \in Task, NEW p \in Place, AcquireCached(t, p) PROVE GuardInv(q, v)'
  BY <1>0, <1>2 DEF AcquireCached, PushGuard, LockAll, LockMutex, etcdVars, nodeVars,
     TypeOK, GuardInv, Guards, Asks
<1>3. ASSUME NEW t \in Task, NEW p \in Place, CallLock(t, p) PROVE GuardInv(q, v)'
  <2>1. Home[t] \notin keys[p]
    <3>1. TokenInv(p, Home[t]) /\ status[Home[t]] = "up" /\ p \notin token[Home[t]]
      BY <1>3 DEF CallLock, LockMutex, Up, LocksInv
    <3>2. \A u \in TasksOf(Home[t]) : p \notin held[u]
      BY <1>3 DEF CallLock, LockMutex, MutexFree
    <3> QED
      BY <3>1, <3>2 DEF TokenInv, Asks
  <2>2. todo[t] \cap held[t] = {} /\ p \in todo[t]
    BY <1>3 DEF CallLock, LockMutex, IsFirst, LocksInv, TaskInv
  <2> QED
    BY <1>0, <1>3, <2>1, <2>2 DEF CallLock, LockMutex, etcdVars, nodeVars, TypeOK,
       GuardInv, Guards, Asks
<1>4. ASSUME NEW t \in Task, NEW p \in Place, PutLockKey(t, p) \/ AcquireGranted(t, p),
             v # t
      PROVE  GuardInv(q, v)'
  <2>1. UNCHANGED held /\ todo'[v] = todo[v] /\ pc'[v] = pc[v]
    BY <1>0, <1>4 DEF PutLockKey, AcquireGranted, PushGuard, LockAll, TypeOK
  <2>2. Home[v] = Home[t] => p \notin held[v]
    BY <1>4 DEF PutLockKey, AcquireGranted, LocksInv, MutexInv
  <2>3. q \in token[Home[v]] => q \in token'[Home[v]]
    <3>1. CASE PutLockKey(t, p)
      BY <3>1 DEF PutLockKey
    <3>2. CASE AcquireGranted(t, p)
      BY <1>0, <3>2 DEF AcquireGranted, TypeOK
    <3> QED
      BY <1>4, <3>1, <3>2
  <2>4. Asks(v, q) /\ q \in token'[Home[v]] => q \in token[Home[v]]
    <3>1. CASE PutLockKey(t, p)
      BY <3>1 DEF PutLockKey
    <3>2. CASE AcquireGranted(t, p)
      BY <1>0, <2>2, <3>2 DEF AcquireGranted, TypeOK, Asks
    <3> QED
      BY <1>4, <3>1, <3>2
  <2>5. Asks(v, q) /\ Home[v] \in keys'[q] => Home[v] \in keys[q]
    <3>1. CASE PutLockKey(t, p)
      BY <1>0, <2>2, <3>1 DEF PutLockKey, TypeOK, Asks
    <3>2. CASE AcquireGranted(t, p)
      BY <3>2 DEF AcquireGranted, etcdVars
    <3> QED
      BY <1>4, <3>1, <3>2
  <2> QED
    BY <1>0, <2>1, <2>3, <2>4, <2>5 DEF GuardInv, Guards, Asks
<1>5. ASSUME NEW t \in Task, NEW p \in Place, PutLockKey(t, p), v = t
      PROVE  GuardInv(q, v)'
  BY <1>0, <1>5 DEF PutLockKey, TypeOK, GuardInv, Guards, Asks
<1>6. ASSUME NEW t \in Task, NEW p \in Place, AcquireGranted(t, p), v = t
      PROVE  GuardInv(q, v)'
  <2>1. held' = held /\ todo'[v] = todo[v] \ {p} /\ pc'[v] \in {"lock", "locked"}
    BY <1>0, <1>6 DEF AcquireGranted, PushGuard, LockAll, TypeOK
  <2>2. token'[Home[v]] = token[Home[v]] \cup {p}
    BY <1>0, <1>6 DEF AcquireGranted, TypeOK
  <2> QED
    BY <1>0, <2>1, <2>2 DEF GuardInv, Guards, Asks
<1>7. ASSUME NEW t \in Task, RecheckFails(t) \/ Commit(t) PROVE GuardInv(q, v)'
  <2>1. token' = token /\ keys' = keys /\ todo' = todo
    BY <1>7 DEF RecheckFails, Commit, Release, etcdVars, nodeVars
  <2>2. held'[t] = {} /\ pc'[t] \in {"idle", "run"}
    BY <1>0, <1>7 DEF RecheckFails, Commit, Release, TypeOK
  <2>3. v # t => held'[v] = held[v] /\ pc'[v] = pc[v]
    BY <1>0, <1>7 DEF RecheckFails, Commit, Release, TypeOK
  <2> QED
    BY <1>0, <2>1, <2>2, <2>3 DEF GuardInv, Guards, Asks
<1>8. ASSUME NEW n \in Node, StopRunner(n) PROVE GuardInv(q, v)'
  BY <1>0, <1>8 DEF StopRunner, etcdVars, TypeOK, GuardInv, Guards, Asks
<1>9. ASSUME NEW n \in Node, ReceiveRequests(n) PROVE GuardInv(q, v)'
  BY <1>0, <1>9 DEF ReceiveRequests, etcdVars, taskVars, GuardInv, Guards, Asks
<1>10. ASSUME NEW n \in Node, NEW p \in Place, ExternalAcquire(n, p)
       PROVE  GuardInv(q, v)'
  <2>1. UNCHANGED taskVars /\ keys'[q] \subseteq keys[q]
    BY <1>0, <1>10 DEF ExternalAcquire, DeleteKeys, TypeOK
  <2>2. token'[Home[v]] = IF Home[v] = n THEN token[n] \ {p} ELSE token[Home[v]]
    BY <1>0, <1>10 DEF ExternalAcquire, TypeOK
  <2>3. Home[v] = n => p \notin held[v]
    BY <1>10 DEF ExternalAcquire, MutexFree, TasksOf
  <2> QED
    BY <1>0, <2>1, <2>2, <2>3 DEF GuardInv, Guards, Asks, taskVars
<1>11. ASSUME NEW n \in Node, StartRunner(n) PROVE GuardInv(q, v)'
  BY <1>0, <1>11 DEF StartRunner, taskVars, GuardInv, Guards, Asks
<1>12. ASSUME NEW n \in Node, LoseLease(n) PROVE GuardInv(q, v)'
  <2>1. UNCHANGED <<token, taskVars>> /\ keys'[q] \subseteq keys[q]
    BY <1>12 DEF LoseLease, DeleteKeys, nodeVars
  <2> QED
    BY <1>0, <2>1 DEF GuardInv, Guards, Asks, taskVars
<1>13. CASE UNCHANGED vars
  BY <1>0, <1>13 DEF GuardInv, Guards, Asks, vars, etcdVars, nodeVars, taskVars
<1> QED
  BY <1>1, <1>2, <1>3, <1>4, <1>5, <1>6, <1>7, <1>8, <1>9, <1>10, <1>11, <1>12, <1>13
     DEF Next, AllDone, Refused, Cancel

\* A runner has keys of its net's places only.
LEMMA NetNext ==
  ASSUME LocksInv, [Next]_vars, NEW q \in Place, NEW k \in Node
  PROVE  NetInv(q, k)'
<1>0. NetInv(q, k) /\ TypeOK /\ KeysInv(q, k)
  BY DEF LocksInv
<1>1. CASE UNCHANGED <<etcdVars, nodeVars>>
  BY <1>0, <1>1 DEF NetInv, etcdVars, nodeVars
<1>2. ASSUME NEW t \in Task, NEW p \in Place, PutLockKey(t, p) PROVE NetInv(q, k)'
  <2>1. p \in NetPlaces(Home[t])
    BY <1>2 DEF PutLockKey, NetPlaces, TasksOf, LocksInv, TaskInv
  <2> QED
    BY <1>0, <1>2, <2>1 DEF PutLockKey, NetInv, TypeOK
<1>3. ASSUME NEW t \in Task, NEW p \in Place, AcquireGranted(t, p) PROVE NetInv(q, k)'
  BY <1>0, <1>3 DEF AcquireGranted, NetInv, etcdVars
<1>4. ASSUME NEW n \in Node, NEW p \in Place, ExternalAcquire(n, p) PROVE NetInv(q, k)'
  BY <1>0, <1>4 DEF ExternalAcquire, DeleteKeys, NetInv
<1>5. ASSUME NEW n \in Node, ReceiveRequests(n) PROVE NetInv(q, k)'
  BY <1>0, <1>5 DEF ReceiveRequests, NetInv, etcdVars
<1>6. ASSUME NEW n \in Node, StartRunner(n) PROVE NetInv(q, k)'
  BY <1>0, <1>6 DEF StartRunner, NetInv, KeysInv, TypeOK
<1>7. ASSUME NEW n \in Node, LoseLease(n) PROVE NetInv(q, k)'
  BY <1>0, <1>7 DEF LoseLease, DeleteKeys, NetInv, nodeVars, TypeOK
<1>8. ASSUME NEW n \in Node, StopRunner(n) PROVE NetInv(q, k)'
  BY <1>0, <1>8 DEF StopRunner, NetInv, etcdVars, TypeOK
<1> QED
  BY <1>1, <1>2, <1>3, <1>4, <1>5, <1>6, <1>7, <1>8, NodeSteps

\* No step loses a lock request.
LEMMA NoLostNext ==
  ASSUME LocksInv, [Next]_vars
  PROVE  NoLostRequest'
<1> DEFINE Pending(n, p) == p \in work[n] \/ \E i \in 1 .. Len(stream[n]) : stream[n][i] = p
<1> SUFFICES ASSUME NEW a \in Node, NEW b \in Node, NEW q \in Place,
                    status'[a] = "up", a \in ahead'[q][b]
             PROVE  Pending(a, q)'
  BY DEF NoLostRequest
<1>0. /\ TypeOK
      /\ status[a] = "up" /\ a \in ahead[q][b] => Pending(a, q)
  BY DEF LocksInv, NoLostRequest
<1>1. CASE UNCHANGED <<etcdVars, nodeVars>>
  BY <1>0, <1>1 DEF etcdVars, nodeVars
<1>2. ASSUME NEW t \in Task, NEW p \in Place, PutLockKey(t, p) PROVE Pending(a, q)'
  <2>1. /\ status' = status /\ work' = work
        /\ stream'[a] = IF Reported(Home[t], a, p) THEN Append(stream[a], p) ELSE stream[a]
    BY <1>2 DEF PutLockKey
  <2>2. stream[a] \in Seq(Place)
    BY <1>0 DEF TypeOK
  <2>3. CASE a \in ahead[q][b]
    <3>1. CASE q \in work[a]
      BY <2>1, <3>1
    <3>2. CASE q \notin work[a]
      <4>1. PICK i \in 1 .. Len(stream[a]) : stream[a][i] = q
        BY <1>0, <2>1, <2>3, <3>2
      <4>2. i \in 1 .. Len(stream'[a]) /\ stream'[a][i] = q
        BY <2>1, <2>2, <4>1
      <4> QED
        BY <4>2
    <3> QED
      BY <3>1, <3>2
  <2>4. CASE a \notin ahead[q][b]
    <3>1. q = p /\ b = Home[t] /\ a \in keys[p]
      BY <1>0, <1>2, <2>4, HomeIsNode DEF PutLockKey, TypeOK
    <3>2. a # Home[t]
      BY <1>2, <3>1 DEF PutLockKey, Asks, LocksInv, GuardInv
    <3>3. Reported(Home[t], a, p)
      BY <2>1, <3>1, <3>2 DEF Reported, LocksInv, NetInv
    <3>4. Len(stream'[a]) \in 1 .. Len(stream'[a]) /\ stream'[a][Len(stream'[a])] = q
      BY <2>1, <2>2, <3>1, <3>3
    <3> QED
      BY <3>4
  <2> QED
    BY <2>3, <2>4
<1>3. ASSUME NEW t \in Task, NEW p \in Place, AcquireGranted(t, p) PROVE Pending(a, q)'
  BY <1>0, <1>3 DEF AcquireGranted, etcdVars
<1>4. ASSUME NEW n \in Node, NEW p \in Place, ExternalAcquire(n, p) PROVE Pending(a, q)'
  <2>1. UNCHANGED <<status, stream, taskVars>> /\ work' = [work EXCEPT ![n] = @ \ {p}]
    BY <1>4 DEF ExternalAcquire
  <2>2. a \in ahead[q][b] /\ ~(a = n /\ q = p /\ p \in token[n])
    <3>1. CASE p \in token[n]
      BY <1>0, <1>4, <3>1 DEF ExternalAcquire, DeleteKeys
    <3>2. CASE p \notin token[n]
      BY <1>4, <3>2 DEF ExternalAcquire
    <3> QED
      BY <3>1, <3>2
  <2>3. ASSUME a = n, q = p PROVE FALSE
    <3>1. TokenInv(p, n) /\ p \notin token[n] /\ n \in keys[p] /\ status[n] = "up"
      BY <1>0, <2>1, <2>2, <2>3 DEF LocksInv, TypeOK
    <3>2. \A u \in TasksOf(n) : p \notin held[u]
      BY <1>4 DEF ExternalAcquire, MutexFree
    <3> QED
      BY <3>1, <3>2 DEF TokenInv, Asks
  <2> QED
    BY <1>0, <2>1, <2>2, <2>3 DEF TypeOK
<1>5. ASSUME NEW n \in Node, ReceiveRequests(n) PROVE Pending(a, q)'
  <2>1. PICK k \in 1 .. Len(stream[n]) :
          /\ work' = [work EXCEPT ![n] = {stream[n][i] : i \in 1 .. k}]
          /\ stream' = [stream EXCEPT ![n] = SubSeq(@, k + 1, Len(@))]
    BY <1>5 DEF ReceiveRequests
  <2>2. status' = status /\ ahead' = ahead /\ work[n] = {}
    BY <1>5 DEF ReceiveRequests, etcdVars
  <2>3. Pending(a, q)
    BY <1>0, <2>2
  <2>4. CASE a # n
    BY <1>0, <2>1, <2>3, <2>4 DEF TypeOK
  <2>5. CASE a = n
    <3>1. PICK i \in 1 .. Len(stream[n]) : stream[n][i] = q
      BY <2>2, <2>3, <2>5
    <3>2. stream[n] \in Seq(Place)
      BY <1>0 DEF TypeOK
    <3>3. work'[n] = {stream[n][j] : j \in 1 .. k}
      BY <1>0, <2>1 DEF TypeOK
    <3>4. stream'[n] = SubSeq(stream[n], k + 1, Len(stream[n]))
      BY <1>0, <2>1 DEF TypeOK
    <3>5. CASE i <= k
      BY <2>5, <3>1, <3>3, <3>5
    <3>6. CASE i > k
      <4>1. i - k \in 1 .. Len(stream'[n]) /\ stream'[n][i - k] = q
        BY <3>1, <3>2, <3>4, <3>6
      <4> QED
        BY <2>5, <4>1
    <3> QED
      BY <3>5, <3>6
  <2> QED
    BY <2>4, <2>5
<1>6. ASSUME NEW n \in Node, StartRunner(n) PROVE Pending(a, q)'
  <2>1. a # n
    BY <1>0, <1>6 DEF StartRunner, LocksInv, NetInv, KeysInv, TypeOK
  <2> QED
    BY <1>0, <1>6, <2>1 DEF StartRunner, TypeOK
<1>7. ASSUME NEW n \in Node, LoseLease(n) PROVE Pending(a, q)'
  BY <1>0, <1>7 DEF LoseLease, DeleteKeys, nodeVars
<1>8. ASSUME NEW n \in Node, StopRunner(n) PROVE Pending(a, q)'
  BY <1>0, <1>8 DEF StopRunner, etcdVars, TypeOK
<1> QED
  BY <1>1, <1>2, <1>3, <1>4, <1>5, <1>6, <1>7, <1>8, NodeSteps

\* The invariant is inductive.
LEMMA NextLocksInv == LocksInv /\ [Next]_vars => LocksInv'
<1> SUFFICES ASSUME LocksInv, [Next]_vars PROVE LocksInv'
  OBVIOUS
<1>1. TypeOK'
  BY NextTypeOK DEF LocksInv
<1>2. \A t \in Task : TaskInv(t)'
  BY TaskNext
<1>3. MutexInv' /\ NoLostRequest'
  BY MutexNext, NoLostNext
<1>4. \A p \in Place, n \in Node : KeysInv(p, n)' /\ TokenInv(p, n)' /\ NetInv(p, n)'
  BY KeysNext, TokenNext, NetNext
<1>5. \A p \in Place, t \in Task : GuardInv(p, t)'
  BY GuardNext
<1> QED
  BY <1>1, <1>2, <1>3, <1>4, <1>5 DEF LocksInv

\* The invariant holds in every reachable state.
LEMMA LocksInvariant == Spec => []LocksInv
BY InitLocksInv, NextLocksInv, PTL DEF Spec
-----------------------------------------------------------------------------
(***************************************************************************)
(* What the invariant is for.                                              *)
(***************************************************************************)

\* A guard stands for an owned lock while the lease lives.
LEMMA GuardOwned ==
  ASSUME LocksInv, NEW t \in Task, NEW p \in Place, p \in Guards(t), lease[Home[t]]
  PROVE  Owns(Home[t], p)
BY HomeIsNode DEF LocksInv, GuardInv, TokenInv

\* A place has one owner at most.
LEMMA OneOwner ==
  ASSUME LocksInv, NEW p \in Place, NEW n \in Node, NEW m \in Node,
         Owns(n, p), Owns(m, p)
  PROVE  n = m
BY DEF LocksInv, KeysInv, Owns

\* The guards of tasks with live leases exclude one another.
LEMMA InvExclusive == LocksInv => GuardExclusive
<1> SUFFICES ASSUME LocksInv, NEW t \in Task, NEW u \in Task,
                    NEW p \in Guards(t) \cap Guards(u), t # u,
                    lease[Home[t]], lease[Home[u]]
             PROVE  FALSE
  BY DEF GuardExclusive
<1>1. p \in Place /\ p \in held[t] /\ p \in held[u]
  BY DEF Guards, LocksInv, TypeOK
<1>2. Owns(Home[t], p) /\ Owns(Home[u], p)
  BY <1>1, GuardOwned
<1>3. Home[t] = Home[u]
  BY <1>1, <1>2, OneOwner, HomeIsNode
<1> QED
  BY <1>1, <1>3 DEF LocksInv, MutexInv

\* Two tasks, of one runner or of two, never have a guard for the same place
\* at the same time while the leases of both live.
THEOREM GuardsExclude == Spec => []GuardExclusive
BY InvExclusive, LocksInvariant, PTL

\* The cached token of a guard is never one that was unlocked: while its lease
\* lives, the runner owns in etcd what its tasks have guards for.
THEOREM GuardsOwned == Spec => []GuardImpliesOwned
<1>1. LocksInv => GuardImpliesOwned
  BY GuardOwned DEF GuardImpliesOwned, Guards, LocksInv, TypeOK
<1> QED
  BY <1>1, LocksInvariant, PTL

\* A running node that others wait for has their request in its watch stream
\* or in its lock request task, although locks are cached, given back and
\* asked for again, and the initial load ignores the lock keys.
THEOREM RequestsNotLost == Spec => []NoLostRequest
<1>1. LocksInv => NoLostRequest
  BY DEF LocksInv
<1> QED
  BY <1>1, LocksInvariant, PTL

\* Only the commit applies a transaction.
LEMMA CommitsIsCommit ==
  ASSUME LocksInv, [Next]_vars, NEW t \in Task, Commits(t)
  PROVE  Commit(t)
<1>0. /\ TypeOK /\ pc[t] = "locked" /\ status'[Home[t]] = "up"
      /\ pc'[t] # "locked" /\ (pc'[t] = "run" \/ phase[t] # "start")
  BY DEF Commits, LocksInv
<1>1. ASSUME NEW u \in Task, BeginReturn(u) \/ BeginStart(u) \/ BeginFinish(u) PROVE FALSE
  BY <1>0, <1>1 DEF BeginReturn, BeginStart, BeginFinish, LockAll, TypeOK
<1>2. ASSUME NEW u \in Task, NEW p \in Place, AcquireCached(u, p) \/ CallLock(u, p)
      PROVE  FALSE
  BY <1>0, <1>2 DEF AcquireCached, CallLock, LockMutex, PushGuard, LockAll, TypeOK
<1>3. ASSUME NEW u \in Task, NEW p \in Place, PutLockKey(u, p) \/ AcquireGranted(u, p)
      PROVE  FALSE
  BY <1>0, <1>3 DEF PutLockKey, AcquireGranted, PushGuard, LockAll, TypeOK
<1>4. ASSUME NEW u \in Task, RecheckFails(u) PROVE FALSE
  BY <1>0, <1>4 DEF RecheckFails, Release, TypeOK
<1>5. ASSUME NEW n \in Node, StopRunner(n) PROVE FALSE
  BY <1>0, <1>5 DEF StopRunner, TypeOK
<1>6. ASSUME UNCHANGED taskVars PROVE FALSE
  BY <1>0, <1>6 DEF taskVars
<1>7. ASSUME NEW u \in Task, Commit(u) PROVE Commit(t)
  BY <1>0, <1>7 DEF Commit, Release, TypeOK
<1> QED
  BY <1>1, <1>2, <1>3, <1>4, <1>5, <1>6, <1>7, HomeIsNode
     DEF Next, AllDone, Refused, Cancel, ReceiveRequests, ExternalAcquire, StartRunner,
         LoseLease, vars

\* When a transaction is applied its node owns every place it has a guard for,
\* and any other holder of such a guard has lost its lease and its keys.
THEOREM CommitsFenced == Spec => CommitFenced
<1>1. ASSUME LocksInv, [Next]_vars PROVE CommitStep
  <2> SUFFICES ASSUME NEW t \in Task, Commits(t), NEW p \in Guards(t)
               PROVE  /\ Owns(Home[t], p)
                      /\ \A u \in Task \ {t} : p \in Guards(u) =>
                           Home[u] \notin keys'[p] /\ ~lease'[Home[u]]
    BY DEF CommitStep
  <2>1. Commit(t)
    BY <1>1, CommitsIsCommit
  <2>2. p \in Place /\ Home[t] \in keys[p] /\ keys' = keys /\ lease' = lease
    BY <1>1, <2>1 DEF Commit, FenceHolds, etcdVars, Guards, LocksInv, TypeOK
  <2>3. lease[Home[t]]
    BY <1>1, <2>2, HomeIsNode DEF LocksInv, KeysInv
  <2>4. Owns(Home[t], p)
    BY <1>1, <2>2, <2>3, GuardOwned
  <2>5. ASSUME NEW u \in Task \ {t}, p \in Guards(u)
        PROVE  Home[u] \notin keys'[p] /\ ~lease'[Home[u]]
    <3>1. ~lease[Home[u]]
      BY <1>1, <2>3, <2>5, InvExclusive DEF GuardExclusive
    <3>2. Home[u] \notin keys[p]
      BY <1>1, <2>2, <3>1, HomeIsNode DEF LocksInv, KeysInv
    <3> QED
      BY <2>2, <3>1, <3>2
  <2> QED
    BY <2>4, <2>5
<1> QED
  BY <1>1, LocksInvariant, PTL DEF Spec, CommitFenced

-----------------------------------------------------------------------------
(***************************************************************************)
(* The place locks implement one lock per place.                           *)
(***************************************************************************)

\* A task whose guards and lease stay counts as before.
LEMMA HolderKept ==
  ASSUME \A u \in Task : Guards(u)' = Guards(u) /\ lease'[Home[u]] = lease[Home[u]]
  PROVE  Holder' = Holder
BY DEF Holder

\* A new guard is a lock that was free.
LEMMA HolderTaken ==
  ASSUME LocksInv, LocksInv', NEW t \in Task, NEW p \in Place, p \notin Guards(t),
         lease' = lease, Guards(t)' = Guards(t) \cup {p},
         \A u \in Task \ {t} : Guards(u)' = Guards(u)
  PROVE  [Mutex!Next]_Holder
<1>1. CASE lease[Home[t]]
  <2>1. Holder[p] = {}
    <3>1. ASSUME NEW u \in Task, p \in Guards(u), lease[Home[u]] PROVE FALSE
      <4>1. u # t /\ p \in Guards(u)' /\ p \in Guards(t)'
        BY <3>1
      <4>2. GuardExclusive'
        BY InvExclusive, PTL
      <4> QED
        BY <1>1, <3>1, <4>1, <4>2 DEF GuardExclusive
    <3> QED
      BY <3>1 DEF Holder
  <2>2. Holder' = [Holder EXCEPT ![p] = {t}]
    <3>1. \A q \in Place : Holder'[q] = IF q = p THEN {t} ELSE Holder[q]
      BY <1>1, <2>1 DEF Holder
    <3> QED
      BY <3>1 DEF Holder
  <2> QED
    BY <2>1, <2>2 DEF Mutex!Next, Mutex!Take
<1>2. CASE ~lease[Home[t]]
  BY <1>2 DEF Holder
<1> QED
  BY <1>1, <1>2

\* Guards that go, or leases that end, are locks given back.
LEMMA HolderDropped ==
  ASSUME NEW T \in SUBSET Task,
         \A u \in Task :
           IF u \in T THEN Guards(u)' = {} \/ ~lease'[Home[u]]
           ELSE Guards(u)' = Guards(u) /\ lease'[Home[u]] = lease[Home[u]]
  PROVE  [Mutex!Next]_Holder
<1>1. Holder' = [p \in Place |-> Holder[p] \ T]
  BY DEF Holder
<1> QED
  BY <1>1 DEF Mutex!Next, Mutex!Drop

\* Every step is a step of the plain locks, or none.
LEMMA MutexStep == LocksInv /\ LocksInv' /\ [Next]_vars => [Mutex!Next]_Holder
<1> SUFFICES ASSUME LocksInv, LocksInv', [Next]_vars PROVE [Mutex!Next]_Holder
  OBVIOUS
<1>0. TypeOK /\ \A t \in Task : TaskInv(t)
  BY DEF LocksInv
<1>1. ASSUME NEW t \in Task, BeginReturn(t) \/ BeginStart(t) \/ BeginFinish(t)
      PROVE  [Mutex!Next]_Holder
  <2>1. lease' = lease /\ held' = held /\ held[t] = {}
    BY <1>0, <1>1 DEF BeginReturn, BeginStart, BeginFinish, etcdVars, TypeOK
  <2>2. \A u \in Task : u # t => todo'[u] = todo[u]
    BY <1>0, <1>1 DEF BeginReturn, BeginStart, BeginFinish, LockAll, TypeOK
  <2> QED
    BY <2>1, <2>2, HolderKept DEF Guards
<1>2. ASSUME NEW t \in Task, NEW p \in Place, AcquireCached(t, p)
      PROVE  [Mutex!Next]_Holder
  <2>1. lease' = lease /\ held' = [held EXCEPT ![t] = @ \cup {p}]
        /\ todo' = [todo EXCEPT ![t] = todo[t] \ {p}] /\ p \in todo[t]
    BY <1>2 DEF AcquireCached, PushGuard, LockAll, LockMutex, IsFirst, etcdVars
  <2>2. p \notin Guards(t) /\ Guards(t)' = Guards(t) \cup {p}
    BY <1>0, <2>1 DEF Guards, TypeOK
  <2>3. \A u \in Task \ {t} : Guards(u)' = Guards(u)
    BY <1>0, <2>1 DEF Guards, TypeOK
  <2> QED
    BY <2>1, <2>2, <2>3, HolderTaken
<1>3. ASSUME NEW t \in Task, NEW p \in Place, CallLock(t, p) PROVE [Mutex!Next]_Holder
  <2>1. lease' = lease /\ held' = [held EXCEPT ![t] = @ \cup {p}] /\ todo' = todo
        /\ p \in todo[t]
    BY <1>3 DEF CallLock, LockMutex, IsFirst, etcdVars
  <2>2. \A u \in Task : Guards(u)' = Guards(u)
    BY <1>0, <2>1 DEF Guards, TypeOK
  <2> QED
    BY <2>1, <2>2, HolderKept
<1>4. ASSUME NEW t \in Task, NEW p \in Place, PutLockKey(t, p) PROVE [Mutex!Next]_Holder
  <2>1. UNCHANGED <<lease, held, todo>>
    BY <1>4 DEF PutLockKey
  <2> QED
    BY <2>1, HolderKept DEF Guards
<1>5. ASSUME NEW t \in Task, NEW p \in Place, AcquireGranted(t, p)
      PROVE  [Mutex!Next]_Holder
  <2>1. lease' = lease /\ held' = held /\ todo' = [todo EXCEPT ![t] = todo[t] \ {p}]
        /\ p \in todo[t] /\ p \in held[t]
    BY <1>5 DEF AcquireGranted, PushGuard, LockAll, etcdVars
  <2>2. p \notin Guards(t) /\ Guards(t)' = Guards(t) \cup {p}
    BY <1>0, <2>1 DEF Guards, TypeOK
  <2>3. \A u \in Task \ {t} : Guards(u)' = Guards(u)
    BY <1>0, <2>1 DEF Guards, TypeOK
  <2> QED
    BY <2>1, <2>2, <2>3, HolderTaken
<1>6. ASSUME NEW t \in Task, RecheckFails(t) \/ Commit(t) PROVE [Mutex!Next]_Holder
  <2>1. lease' = lease /\ todo' = todo /\ held' = [held EXCEPT ![t] = {}]
    BY <1>6 DEF RecheckFails, Commit, Release, etcdVars
  <2>2. \A u \in Task : IF u \in {t} THEN Guards(u)' = {} ELSE Guards(u)' = Guards(u)
    BY <1>0, <2>1 DEF Guards, TypeOK
  <2> QED
    BY <2>1, <2>2, HolderDropped
<1>7. ASSUME NEW n \in Node, StopRunner(n) PROVE [Mutex!Next]_Holder
  <2>1. \A u \in Task : IF u \in TasksOf(n) THEN Guards(u)' = {} ELSE Guards(u)' = Guards(u)
    BY <1>7 DEF StopRunner, Guards, TasksOf
  <2>2. lease' = lease /\ TasksOf(n) \in SUBSET Task
    BY <1>7 DEF StopRunner, etcdVars, TasksOf
  <2> QED
    BY <2>1, <2>2, HolderDropped
<1>8. ASSUME NEW n \in Node, ReceiveRequests(n) \/ \E p \in Place : ExternalAcquire(n, p)
      PROVE  [Mutex!Next]_Holder
  <2>1. UNCHANGED <<lease, held, todo>>
    BY <1>8 DEF ReceiveRequests, ExternalAcquire, etcdVars, taskVars
  <2> QED
    BY <2>1, HolderKept DEF Guards
<1>9. ASSUME NEW n \in Node, StartRunner(n) PROVE [Mutex!Next]_Holder
  <2>1. UNCHANGED <<held, todo>> /\ lease' = [lease EXCEPT ![n] = TRUE]
        /\ status[n] = "down"
    BY <1>9 DEF StartRunner, taskVars
  <2>2. \A u \in TasksOf(n) : Guards(u) = {} /\ Guards(u)' = {}
    BY <1>0, <2>1 DEF TasksOf, Guards, TaskInv, TypeOK
  <2>3. \A u \in Task \ TasksOf(n) : lease'[Home[u]] = lease[Home[u]]
    BY <1>0, <2>1, HomeIsNode DEF TasksOf, TypeOK
  <2>4. \A u \in Task : Guards(u)' = Guards(u)
    BY <2>1 DEF Guards
  <2>5. \A u \in Task : IF u \in TasksOf(n) THEN Guards(u)' = {}
          ELSE Guards(u)' = Guards(u) /\ lease'[Home[u]] = lease[Home[u]]
    BY <2>2, <2>3, <2>4
  <2>6. TasksOf(n) \in SUBSET Task
    BY DEF TasksOf
  <2> QED
    BY <2>5, <2>6, HolderDropped
<1>10. ASSUME NEW n \in Node, LoseLease(n) PROVE [Mutex!Next]_Holder
  <2>1. UNCHANGED <<held, todo>> /\ lease' = [lease EXCEPT ![n] = FALSE]
    BY <1>10 DEF LoseLease, taskVars
  <2>2. \A u \in Task : IF u \in TasksOf(n) THEN ~lease'[Home[u]]
          ELSE Guards(u)' = Guards(u) /\ lease'[Home[u]] = lease[Home[u]]
    BY <1>0, <2>1, HomeIsNode DEF TasksOf, Guards, TypeOK
  <2>3. TasksOf(n) \in SUBSET Task
    BY DEF TasksOf
  <2> QED
    BY <2>2, <2>3, HolderDropped
<1>11. CASE UNCHANGED vars
  <2>1. UNCHANGED <<lease, held, todo>>
    BY <1>11 DEF vars, etcdVars, taskVars
  <2> QED
    BY <2>1, HolderKept DEF Guards
<1> QED
  BY <1>1, <1>2, <1>3, <1>4, <1>5, <1>6, <1>7, <1>8, <1>9, <1>10, <1>11, HomeIsNode
     DEF Next, AllDone, Refused, Cancel

\* The cached locks of any number of runners behave as one plain lock per
\* place: whoever gets a guard finds the lock free of every task whose lease
\* lives.
THEOREM LocksImplementMutex == Spec => ImplementsPlaceMutex
<1>1. Init => Mutex!Init
  BY DEF Init, Mutex!Init, Holder, Guards
<1> QED
  BY <1>1, LocksInvariant, MutexStep, PTL DEF Spec, ImplementsPlaceMutex, Mutex!Spec
=============================================================================
