------------------------------ MODULE EventPump ------------------------------
(***************************************************************************)
(* How a revision of etcd gets to a task that waits for it, inside one     *)
(* runner: the watcher (etcd/gate.rs _watch_events), two bounded channels, *)
(* the main loop (runner/main.rs), the lock request task (_lock_requests), *)
(* and a transition task (runner/transition.rs) that holds the mutex of a  *)
(* place while it waits.                                                   *)
(*                                                                         *)
(* Revisions are counted from the load on.  The watch reports those that   *)
(* change keys below pl/, whatever these say about the net.  One place and *)
(* one task.                                                               *)
(***************************************************************************)
EXTENDS Naturals, Sequences, FiniteSetsExt, Functions

CONSTANTS
  Capacity,   \* of the two channels
  Batch,      \* events the main loop receives at once
  Foreign,    \* the kinds of revisions that others make
  MaxForeign, \* bound: the number of these
  MaxRounds   \* bound: how often the task locks the place

\* A revision puts or deletes keys below pl/ ("net"), among them a lock key of
\* another runner ("request"), or keys elsewhere: elections, ids ("other").
KindOfRevision == {"net", "request", "other"}

ASSUME EventPumpAssumption ==
  /\ Capacity \in Nat \ {0} /\ Batch \in Nat \ {0}
  /\ Foreign \subseteq KindOfRevision
  /\ MaxForeign \in Nat /\ MaxRounds \in Nat

VARIABLES
  log,       \* etcd: the kind of each revision
  foreign,   \* the number of revisions that others have made
  read,      \* the watcher has got the revisions up to this one
  out,       \* the events it has still to send: their revisions
  ask,       \* and then a lock request
  events, requests,  \* the channels; lock requests are all for the one place
  handling,  \* the lock request task is at a request
  applied,   \* the last revision the local net has applied
  writing,   \* the main loop keeps the local net locked
  reported,  \* the last revision the tasks have been told
  cached,    \* the fencing token of the place is cached
  minRev,    \* the minimal revision of the place lock
  pc, need,  \* the task, and the revision it waits for at the end
  rounds

storeVars == <<log, foreign>>
watchVars == <<read, out, ask, events, requests>>
loopVars == <<applied, writing, reported>>
taskVars == <<pc, need, rounds>>
vars == <<storeVars, watchVars, handling, loopVars, cached, minRev, taskVars>>

Init ==
  /\ log = <<>> /\ foreign = 0
  /\ read = 0 /\ out = {} /\ ask = FALSE /\ events = <<>> /\ requests = 0
  /\ handling = FALSE
  /\ applied = 0 /\ writing = FALSE /\ reported = 0
  /\ cached = FALSE /\ minRev = 0
  /\ pc = "idle" /\ need = 0 /\ rounds = 0

\* The revisions from a to b that the watch reports.
Reported(a, b) == {i \in a .. b : log[i] # "other"}

-----------------------------------------------------------------------------
Others ==
  /\ foreign < MaxForeign
  /\ foreign' = foreign + 1
  /\ \E k \in Foreign : log' = Append(log, k)
  /\ UNCHANGED <<watchVars, handling, loopVars, cached, minRev, taskVars>>

\* A response of the watch: one revision or several.
ReadResponse ==
  /\ out = {} /\ ~ask
  /\ \E k \in read + 1 .. Len(log) :
       /\ read' = k
       /\ out' = Reported(read + 1, k)
       /\ ask' = (\E i \in read + 1 .. k : log[i] = "request")
  /\ UNCHANGED <<storeVars, events, requests, handling, loopVars, cached, minRev, taskVars>>

\* try_send: an event that finds the channel full is lost.
TriesToSend(x) == events' = IF Len(events) < Capacity THEN Append(events, x) ELSE events

\* send: waits for room in the channel.
Sends(x) == Len(events) < Capacity /\ events' = Append(events, x)

\* The events of a response are sent in their order.
SendEvent ==
  /\ \E x \in out :
       /\ \A y \in out : x <= y
       /\ Sends(x)
       /\ out' = out \ {x}
  /\ UNCHANGED <<storeVars, read, ask, requests, handling, loopVars, cached, minRev, taskVars>>

SendRequest ==
  /\ out = {} /\ ask
  /\ requests < Capacity
  /\ requests' = requests + 1 /\ ask' = FALSE
  /\ UNCHANGED <<storeVars, read, out, events, handling, loopVars, cached, minRev, taskVars>>

\* recv_many, and the changes of the batch.
Apply ==
  /\ events # <<>>
  /\ LET k == Min({Batch, Len(events)}) IN
       /\ applied' = events[k]
       /\ events' = SubSeq(events, k + 1, Len(events))
  /\ writing' = TRUE
  /\ UNCHANGED <<storeVars, read, out, ask, requests, handling, reported, cached, minRev,
                 taskVars>>

\* Nothing more to apply: the revision is sent, and the net can be read.
Report ==
  /\ writing /\ events = <<>>
  /\ reported' = applied
  /\ writing' = FALSE
  /\ UNCHANGED <<storeVars, watchVars, handling, applied, cached, minRev, taskVars>>

-----------------------------------------------------------------------------
MutexFree == pc \notin {"call", "wait", "sync", "check"}

TakeRequest ==
  /\ ~handling /\ requests > 0
  /\ handling' = TRUE /\ requests' = requests - 1
  /\ UNCHANGED <<storeVars, read, out, ask, events, loopVars, cached, minRev, taskVars>>

\* external_acquire: the lock key is deleted, if there is one.
GiveBack ==
  /\ handling /\ MutexFree
  /\ handling' = FALSE /\ cached' = FALSE
  /\ log' = IF cached THEN Append(log, "net") ELSE log
  /\ UNCHANGED <<foreign, watchVars, loopVars, minRev, taskVars>>

-----------------------------------------------------------------------------
Goto(l) == pc' = l

\* The first check was a yes: the mutex, and the etcd lock if it is not cached.
BeginLock ==
  /\ pc = "idle" /\ rounds < MaxRounds /\ ~writing
  /\ rounds' = rounds + 1
  /\ Goto(IF cached THEN "sync" ELSE "call")
  /\ UNCHANGED <<storeVars, watchVars, handling, loopVars, cached, minRev, need>>

PutLockKey ==
  /\ pc = "call"
  /\ log' = Append(log, "net")
  /\ Goto("wait")
  /\ UNCHANGED <<foreign, watchVars, handling, loopVars, cached, minRev, need, rounds>>

\* etcd answers with the revision its store has now.
Granted ==
  /\ pc = "wait"
  /\ cached' = TRUE /\ minRev' = Len(log)
  /\ Goto("sync")
  /\ UNCHANGED <<storeVars, watchVars, handling, loopVars, need, rounds>>

\* _wait_for_revision.
ReachedLater(rev) == reported > rev
Reached(rev) == reported >= rev

\* Waiting for min_revision, then the second check.
Synced ==
  /\ pc = "sync" /\ Reached(minRev)
  /\ Goto("check")
  /\ UNCHANGED <<storeVars, watchVars, handling, loopVars, cached, minRev, need, rounds>>

\* A transaction that changes keys makes a revision; one that does not, as
\* nothing is taken or placed, answers with the last revision of the store.
Transaction == log' \in {log, Append(log, "net")}

\* The second check says no, or the start transaction is done.
Start ==
  /\ pc = "check" /\ ~writing
  /\ \/ Goto("idle") /\ UNCHANGED <<log, minRev>>
     \/ Goto("run") /\ Transaction /\ minRev' = Max({minRev, Len(log')})
  /\ UNCHANGED <<foreign, watchVars, handling, loopVars, cached, need, rounds>>

\* The end transaction; if it locks places, the mutex of those is as before.
Finish ==
  /\ pc = "run"
  /\ Transaction /\ need' = Len(log')
  /\ Goto("end")
  /\ UNCHANGED <<foreign, watchVars, handling, loopVars, cached, minRev, rounds>>

Ended ==
  /\ pc = "end" /\ Reached(need)
  /\ Goto("idle")
  /\ UNCHANGED <<storeVars, watchVars, handling, loopVars, cached, minRev, need, rounds>>

Watcher == ReadResponse \/ SendEvent \/ SendRequest
MainLoop == Apply \/ Report
Task == PutLockKey \/ Granted \/ Synced \/ Start \/ Finish \/ Ended

Next == Others \/ Watcher \/ MainLoop \/ TakeRequest \/ GiveBack \/ BeginLock \/ Task

Spec == Init /\ [][Next]_vars

(***************************************************************************)
(* Fairness: tokio polls what is ready, etcd answers, and the lock request *)
(* task, queued at the mutex, gets it when it is free again and again.     *)
(***************************************************************************)
FairSpec ==
  /\ Spec
  /\ WF_vars(Watcher) /\ WF_vars(MainLoop) /\ WF_vars(TakeRequest) /\ WF_vars(Task)
  /\ SF_vars(GiveBack)

-----------------------------------------------------------------------------
\* Types; the channels keep to their capacity.
TypeOK ==
  /\ log \in Seq(KindOfRevision) /\ foreign \in 0..MaxForeign
  /\ read \in 0..Len(log) /\ out \in SUBSET (1..read) /\ ask \in BOOLEAN
  /\ events \in Seq(1..read) /\ Len(events) <= Capacity
  /\ requests \in 0..Capacity /\ handling \in BOOLEAN
  /\ applied \in 0..read /\ writing \in BOOLEAN /\ reported \in 0..applied
  /\ cached \in BOOLEAN /\ minRev \in 0..Len(log)
  /\ pc \in {"idle", "call", "wait", "sync", "check", "run", "end"}
  /\ need \in 0..Len(log) /\ rounds \in 0..MaxRounds

\* Between etcd and the local net no revision is lost, doubled or overtaken,
\* however full the channels are: what is under way is what the watch has
\* reported and the net has not applied, in the order of the revisions.
NothingLost ==
  /\ Range(events) \cup out = Reported(applied + 1, read)
  /\ \A i, j \in DOMAIN events : i < j => events[i] < events[j]
  /\ \A i \in DOMAIN events, x \in out : events[i] < x

\* The revision the task waits for.
Awaited == IF pc = "sync" THEN minRev ELSE need

\* A task that waits for its net to reach a revision (that of its locks, or of
\* its end transaction) goes on, as soon as that revision or a later one is one
\* the watch reports: lib.rs, "if we can start, acquire a distributed lock".
TaskGoesOn ==
  (pc \in {"sync", "end"} /\ \E i \in Max({1, Awaited}) .. Len(log) : log[i] # "other")
    ~> pc \notin {"sync", "end"}

\* Every change of the net in etcd is applied to the local net.
ChangesApplied ==
  \A i \in 1 .. MaxForeign + 5 * MaxRounds :
    (Len(log) >= i /\ log[i] # "other") ~> (applied >= i)
=============================================================================
