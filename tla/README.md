# Formal specification of dipen

dipen runs Petri nets on several machines. The state of a net, that is which
token is at which place or has been taken by which transition, lies in etcd. The
transitions of a net are divided into regions; a *runner* executes the
transitions of one region, watches etcd, keeps a local copy of its part of the
net, and coordinates with the runners of other regions by distributed locks on
places. This directory specifies that coordination in TLA+, checks it with TLC on
small instances and proves the most important part of it with TLAPS for all
instances.

Paths below are relative to `src/dipen/src/`.

## 1. Inventory

| Component | State | Operations | Correct if |
|---|---|---|---|
| place locks (`etcd/place_locks.rs`) | per runner and place a tokio mutex around a cached fencing token and a minimal revision; in etcd the lock keys `pl/{place}/lock/{lease}` | `acquire`, `external_acquire` | guards exclude one another, inside a runner and between runners; a cached token is never one that was unlocked |
| lock requests (`etcd/gate.rs` `_watch_events`, `_lock_requests`) | the watch stream, a channel of place sets, the message being worked on | report a lock key of another lease; give cached locks back | no request is lost; a lock others wait for is freed |
| transition task (`runner/transition.rs`) | guards, taken tokens, `wait_for`, `auto_recheck` | wait, check, lock, recheck, start, run, finish, cancel what was running | a decision to start is still right when it is committed; every change that matters leads to a check |
| transactions (`etcd/transition.rs`) | keys `pl/{place}/{token}` and `pl/{place}/{token}/{transition}` | `start_transition`, `end_transition` | only tokens of the firing change; never applied without the locks |
| event analysis (`etcd/gate.rs` `_analyze_place_events`) | none | the events of a revision become changes | the local net ends where etcd is |
| local net (`net/net_state.rs`) | places, tokens, transitions, taken tokens | `_apply_change` | never inconsistent; reports the places that changed |
| load and watch (`etcd/gate.rs` `load_data`, `runner/main.rs`) | revision, event channel | initial events, watch from the next revision, apply | no gap, no overlap, nothing of an interrupted firing forgotten |
| notifications (`runner/main.rs`, `runner/transition.rs`) | watch channels per place and for the revision | send, `changed`, `mark_unchanged`, `wait_for` | no wakeup is lost |
| leadership (`etcd/gate.rs` `campaign_for_region`, `connect`, `disconnect`) | election key, lease | campaign, cancel | one active runner per region; the next one undoes what the last one left |
| keep alive (`etcd/gate.rs` `_keep_alive`) | timers | renew, give up, revoke | a runner stops before its lease ends |
| ids (`etcd/gate.rs` `assign_ids`) | counters, `place_ids/`, `transition_ids/` | get or assign, check the region | one id a name, one name an id |
| net builder (`net/builder.rs`) | the net as configured | `only_region`, `build` | a region has all the places its transitions touch |
| results, contexts, dispatch (`exec/`, `runner/context/`, `runner/dispatch.rs`, `runner/registry.rs`) | none of their own | builders, views of the net | every taken token is placed or destroyed once |
| Python bindings (`dipen-py/src/`) | the net and the registry of the program, a run handle, the GIL, three kinds of threads | `start`, `cancel`, `join`, calls of Python executors | a run works with the net and the executors it was started with; threads that all need the GIL do not block each other, so that `join` comes back |
| examples, benchmarks | – | – | – |

How they interact: transition tasks read the local net under a read lock, take
`PlaceLock` guards and send transactions that compare the lease of the lock keys.
etcd's watch returns the result of the transactions, of all runners, to the
watcher. It turns them into changes for the main loop, which alone writes the
local net and then notifies the tasks. Lock keys travel on the same watch, and
go to the lock request task, which competes with the transition tasks for the
mutexes of the places.

What is hard about it: the lock is cached and given back by a third party; a
lock call is awaited with a mutex held; decisions are made on a copy that lags
behind; a runner may be cut off at any await and another one may continue its
firings; the watch stream is the only way in which both data and lock requests
arrive. `PROJECT.json` lists each of these hazards at its line.

## 2. Modules

| Module | What it is |
|---|---|
| `PlaceLocks` | lock protocol: transition tasks, local mutexes, etcd lock keys, watch stream, lock request task, leases |
| `PlaceMutex` | abstract: one lock per place; `PlaceLocks` implements it |
| `PlaceLocksProofs` | theorems about `PlaceLocks` |
| `LocalNet` | `_apply_change`, token by token |
| `PlaceEvents` | `_analyze_place_events`, case by case; uses `LocalNet` |
| `NetSync` | etcd's keys, the transactions of all transitions, manual edits, load and watch of one runner; uses `PlaceEvents` |
| `NetSyncProofs` | theorems about `NetSync`, and the lemmas about `PlaceEvents` and `LocalNet` they need |
| `TransitionRunner` | the loop of the transition tasks: waiting, checking on a lagging net, locking, starting, running, finishing; composes `PlaceMutex` with lagging nets |
| `TransitionRunnerProofs` | theorems about `TransitionRunner` |
| `TokenGame` | abstract: tokens that are at places or in firings; `NetSync` and `TransitionRunner` implement it |
| `Failover` | several runners of one region: election, leases, load, return of tokens, transactions that outlive their runner |
| `FailoverProofs` | theorems about `Failover` |
| `EventPump` | one runner from the watch to the task: bounded channels, batches, revisions that are never reported |
| `EventPumpProofs` | theorems about `EventPump` |
| `KeepAlive` | the lease and its timers in discrete time |
| `KeepAliveProofs` | theorems about `KeepAlive` |
| `IdAssignment` | races for ids, regions and counters in etcd |
| `IdAssignmentProofs` | theorems about `IdAssignment` |
| `RegionNet` | the builder, the reduction to a region, validation, ids, tasks |
| `RegionNetProofs` | theorems about `RegionNet` |
| `PyRun` | a run started from Python: threads, GIL, tokio workers, the program's objects, `join` |
| `MC...` | instances for TLC, one for each of the above that has runs |

`PlaceLocks` and `NetSync` are the two halves of the distributed system, locks
and data; `TransitionRunner` puts a program on top of both. It takes the lock
that `PlaceLocks` implements, and nets that lag behind etcd as `NetSync` shows
they do (`NetMatchesStore`: what a net holds is what etcd held at some revision).

### PlaceLocks

A *node* is one lease, so one run of a runner. `keys[p]` is the set of nodes with
a lock key for place `p`, and `ahead[p][n]` the older keys when that of `n` was
made: etcd answers the lock call of `n` when none of them is left, so `n` owns
the place when `ahead[p][n]` is empty. Only the order of the create revisions
matters, not their values. `token[n]` holds the places whose fencing token `n`
caches (`PlaceLockData::fencing_token` not empty). `held[t]` are the mutexes task
`t` has locked, `todo[t]` the places it has still to acquire; a guard is a place
in `held` that is no longer in `todo`, since between `self.value.lock()` and the
return of `acquire` the mutex is held but there is no guard yet. `stream[n]` are
the lock keys of others that the watcher of `n` will report; `work[n]` is the
message `_lock_requests` works on.

| Action | Code |
|---|---|
| `BeginReturn`, `BeginStart`, `BeginFinish` | the three calls of `_lock`: in `_cancel_running`, after the first `_check_start`, after `run` |
| `AcquireCached`, `CallLock`, `PutLockKey`, `AcquireGranted` | `acquire`, cut where others can interfere: with the mutex taken, with the key in etcd, with the answer |
| `RecheckFails`, `Commit`, `Refused` | second `_check_start`; the transaction, applied or refused; `_release_locks` |
| `ReceiveRequests`, `ExternalAcquire` | `_lock_requests` |
| `StartRunner`, `Cancel`, `LoseLease` | life of a runner; a lease can end while the runner is cut off and still believes in its locks |

Simplifications. `external_acquire` is one step: the mutex is held from the test
of the token to the answer of the unlock call, so nobody else in the runner sees
a state between, and for other runners the deletion of the key is one step
anyway. When a runner stops, its tasks are dropped with the calls they have
made; a transaction already sent is in `Failover`. The wait for
the minimal revision after locking is in `TransitionRunner`; here `Commit` is
only assumed to happen eventually. Which places a start
locks is fixed per task, as in `_cond_place_locks`; a finish may lock any subset
of the target places, since it depends on the result and on `output_locking`.

### LocalNet, PlaceEvents, NetSync

Everything `_apply_change` touches is a map with the token of the change as its
key. So the local net is a function from tokens to a record of what the net keeps
about a token, and a change is an operator on one record: `Accepts` has the
assertions of the code, `Effect` the assignments, `Modified` the places it
reports. An assertion that fails sets `err`, which stands for the shutdown of the
runner. `Changes` translates the events of one revision for one token, in the
order of the code's case table (A to E).

`NetSync` has the token keys and taken keys of etcd. `Txn` is a transaction: what
it deletes and puts, etcd's refusal of a transaction that puts a key it deletes,
and the watch events with their versions and previous values. `StartTransition`
and `EndTransition` are the two transactions of a firing, `CancelRunning` the one
that returns the tokens, `Edit` a manual insertion, move or deletion of a token
at rest. The observed runner loads (`Load`), begins its watch later, in
a request of its own that names the revision after the load (`BeginWatch`), applies
one revision at a time (`ApplyNext`), and may stop at any time and start again
(`Stop`). Transitions of other regions write the same places; places outside of the
region are unknown to the runner, which sees only half of such a move.

A token id has the set of ids that begin with its digits (`Covers`), because keys are
deleted by prefix. So a firing may lose tokens that another firing or nobody has
taken; `strayed` are the ids lost in this way, until the firing that had taken one
ends and puts it somewhere, which the code does without asking whether it is still
there. Ids are not assumed to be separate anywhere.

A start takes tokens that are there in etcd: that the decision of a start, made
on the local net, amounts to that, is what locks and minimal revisions are for,
and what `TransitionRunner` is about.

### TransitionRunner

etcd is `where`, the position of every token. `nets[n]` is the local net of
runner `n` followed by the revisions it has still to apply, so the head is what
`check_start` sees and the last one is what etcd holds. A revision is counted by
how many of these the runner has to apply to reach it: `need[n][p]` is the
`min_revision` of place `p`, `await[tr]` the revision the task waits for at the
end of the loop. `owner[p]` is the runner that has the lock of `p` cached,
`holder[p]` the task that has a guard; `Locks!Take` and `Locks!Drop` are the
operations of `PlaceMutex`. `changed[tr]` are the watch channels of places with
a value the task has not seen, `waitFor` and `timer` its `run_data`.

| Action | Code (`runner/transition.rs` unless named) |
|---|---|
| `WaitForChange` | `_wait_for_change`: one of the watched places or the timer, then `mark_unchanged` for all |
| `FirstCheck`, `SecondCheck` | `_check_start` without and with locks; a no sets `wait_for` and `auto_recheck` and drops the guards |
| `Acquire` | `acquire` of the next place in order; a lock that etcd grants brings its revision, a cached one keeps what it has |
| `NetIsRecent` | the wait at the end of `_lock` |
| `StartTransition`, `EndTransition` | the transaction and `_release_locks`, which leaves its revision in the locks |
| `Run` | `run`, and the places `_finish_transition` needs locks for |
| `Synced` | the last wait of the loop |
| `ApplyChange` | main loop of `runner/main.rs`: apply, notify places, report the revision |
| `ExternalAcquire` | a cached lock is given back, as a request arrives or as an old one is left over |

Executors are user code. `AnyExecutor` may do what it likes as long as it keeps to its
arcs: take any tokens it sees at rest at its in places, or refuse with any
`wait_for` and `auto_recheck`; `run` may move, return or destroy what was taken
and create a token. Keeping to the arcs is a convention of `lib.rs:80-89`: `tokens()`
and `tokens_at` also show tokens at out places and, by place, of the whole region, and
`take` checks nothing. An executor that takes those decides on places its task
neither hears of nor locks, and nothing here is about it (listed as a hazard).
`Initialize` and `Move` are those of the examples, and `InitializeValidated` and
`MoveValidated` what their `validate` asks of the arcs. Of
a result, all that matters of new tokens is where they are created; their ids are
any that are not used.

Simplifications. Only revisions in which tokens change are counted; others, of
lock keys for instance, have the net wait longer in the code, or too long: see
`EventPump`. The main loop applies up to ten revisions with the net locked for
writing; here one by one, so that tasks see more nets than in the code. The
transaction and the release of its locks are one step: between them the code
only keeps others waiting. `run` terminates. Runners do not fail, and the
deadlock of `PlaceLocks` is assumed away. The data of tokens is left out, and so
is the deletion of a token by `DelayedMove` where it sees three or more.

### Failover

A *node* is one run of a runner. `election[g]` are the nodes with an election key
of region `g` in the order of the keys, and `lease` those whose lease lives; when
a lease ends its election key goes with it (`LoseLease`). `tokens` and `taken` are
the keys of etcd. `view[n]` is what the local net of `n` shows; it is needed by
`_cancel_running` only, which reads what is left taken from it. A task sends a
transaction (`BeginStart`, `BeginFinish`, `CancelRunning`) and etcd applies it
later or refuses it (`Apply`, `Refuse`), also when the task has been dropped
meanwhile. `Fenced` says which transactions compare the lease of a lock key: a
start has locked the place of its token, an end has locked its target only if
that has output locking.

| Action | Code |
|---|---|
| `Campaign`, `Elected` | `connect`, `campaign_for_region` |
| `Load`, `Refresh` | `load_data` and the start of the tasks; the main loop |
| `Stop`, `LoseLease` | cancellation, an error or a crash; revocation or expiry |
| `CancelRunning`, `Returned` | `_cancel_running` |
| `BeginStart`, `BeginFinish` | the transactions of a firing are sent |
| `Apply`, `Refuse` | what etcd does with them, and the task with the answer |

Place locks appear in what they do to transactions. A start has the lock of its in
place until it is answered, an end or a return that of its target, if that has output
locking (`LocksPlace`); a task does not send before the lock is free (`LockFree`):
no task of its own runner has the mutex, and no runner with a living lease has the
lock in etcd. This is `PlaceMutex`, which `PlaceLocks` implements. From there too is
that a transaction with a fencing token is applied only while its lease lives
(`CommitFenced`), and from `TransitionRunner` that a start is decided on what is in
etcd (`DecisionIsCurrent`). A firing takes one token and locks one place at a time.
What a stopped runner has sent may also be refused although its lease still lives,
since its locks are given back first (`Refuse`).

`slipped` is a history variable: a commit without fencing token has been applied
after the lease of its runner was gone (`Slips`). The code allows that
(`runner/transition.rs:309`), the run has it, and the two safety properties are about
everything before the first such commit.

### EventPump

One runner, one place, one task. `log` is the kind of each revision of etcd since
the load: one with keys of the net, one with a lock request among them, or one
with other keys only. The watcher reads a response of one revision or several
(`ReadResponse`), keeps the events it has still to send in `out`, and sends them in
their order, then the lock requests (`SendEvent`, `SendRequest`), waiting while a
channel is full. `Apply` and `Report` are the two
halves of the main loop: it receives a batch, keeps the net locked while more
events are there, and reports the revision at the end. `TakeRequest` and
`GiveBack` are the lock request task. The task waits for the revision of its lock
(`Synced`) and for that of its end transaction (`Ended`); it has the mutex of the
place from `BeginLock` to `Start`.

`Granted` takes the revision of the store at the time of the answer, which is what
etcd puts into the header; `Transaction` need not make a revision, as with empty
lists of operations. Both channels have one `Capacity`; in the code they are the
128 of the requests and the one of the events.

### KeepAlive

Time is in ticks; `Second` and `LeaseTtl` are constants. The intervals are the
fractions the code computes (`Interval`, `TimeLimit`, `Grace`); `Duration` does not
round, and so an assumption makes ten divide `LeaseTtl`: an instance chooses its tick
short enough for all timers to be whole. A tick does not happen while
the runner has something to do (`NothingDue`): timers are exact, the machine is
fast. The network is the environment: a request is renewed at any time (`Renew`),
its answer is on the way for up to `AnswerWithin` ticks, the first call takes up
to `OpenWithin`, a connection may break (`Fails`) or the stream may end
(`EndOfStream`, with `StreamEnds`). `StopWithin` is the time that cancelled tasks
take to stop. What the code assumes of its environment becomes visible as the
values for which `LeaseOutlivesWork` holds.

### IdAssignment

Every request of `assign_ids` is a step, and every runner may be stopped at each
(`Stop`); `late` are the requests whose runner is gone, which etcd may still carry
out (`CarryOut`). `counter[k]` is the version of the key `id_generator/{k}`, which
is put without a value and whose previous version is answered. `GetId`, `DrawId`
and `PutId` are `_get_or_assign_id`, with the transaction that compares the create
revision; `GetRegion`, `PutRegion` are `_check_or_assign_region`; `DrawTokenId` and
`PutToken` are the two requests of `end_transition` for a token it creates.
`passed` is auxiliary.

### RegionNet

The program inserts places, transitions and arcs into the builder, in any order
and again; then the runner of each region validates (`Validate`: executors are
there and approve of what they are shown), gets its ids (`AssignIds`), and starts
its tasks with the net that `Build` makes of its part (`StartTasks`). `PlacesOf`,
`TransitionsOf` and `ArcsOf` are `only_region`. Ids are assigned in one step per
runner: races are in `IdAssignment`. The builder's maps are TLA+ functions with
the places etc. inserted so far as their domains.

### PyRun

The thread of the program (`main`), the thread `start` spawns for the runner
(`runner`), and the workers of tokio, of which a task that runs or waits for Python
code occupies one (`OnWorker`, `FreeWorker`). `gil` is who holds the GIL: the program in
its own code, the runner while it calls the `validate` of an executor, a task while it
makes its executor, asks `check_start`, calls `run` or takes its result. Between the
last two its coroutine waits for the event loop of the program. `join` gives the GIL
up and takes it again when it is back in Python.

| Action | Code (`dipen-py/src/` unless named) |
|---|---|
| `Insert`, `Register` | `net.rs`, `Arc::make_mut`: a builder in use is cloned; `registry.rs`, `Arc::get_mut`: a registry in use is refused |
| `Start`, `Cancel`, `Join`, `Joined` | `run.rs` |
| `GetGil`, `YieldGil` | `with_gil`, and the interpreter's switches |
| `ReadNet`, `BeginValidate`, `EndValidate` | the runner's thread: `only_region`, then `validate` of one executor after the other (`runner/main.rs`), each of which may end the run |
| `Connect`, `Write`, `Close`, `Send` | connection and its failure; the main loop with the write lock of the net; `disconnect`, which waits for the tasks of the gate; the result |
| `Keep` | the tasks of the gate (`keeper`), which need a worker to notice the cancellation |
| `Poll`, `EndPython`, `RunCoroutine`, `EndTask` | a transition task: a poll that gets into Python code, its end with a result or an exception, the coroutine, and the ways to be dropped |

`heap` are two net builders, by how often they have been changed, of which the program
and the run have one each or the same (`pyNet`, `runNet`). `classes` is the registry:
the program and the run always share that one, so that its refusal to change while it is in
use is all that keeps the executors of a run. The history variables are net and
registry at the start, and what the run has read of them.

## 3. Runs

| Run | Question | Bounds |
|---|---|---|
| `locks_two_runners` | types, exclusion, ownership, requests, fencing, refinement of `PlaceMutex` | 2 runners with 2 and 1 tasks, 1 place, 2 rounds a task, one runner may fail. 2 rounds make a runner ask again after giving back; the second task makes the mutex matter |
| `locks_live` | a lock others wait for is freed, and whoever begins to lock gets all locks | 2 tasks of one runner that share 2 places, of which a task of another runner needs one; no failures, 1 round, fairness |
| `locks_deadlock` | the promise to free a requested lock: violated | 2 runners, 2 places, 1 task each, 1 round |
| `net_sync` | local net, notifications, stored state, what a firing does to tokens of others, the token game | 2 tokens, one with an id that begins with the other's, 3 places (one outside the region), 2 transitions (one foreign), 2 data values, up to 2 tokens a firing, the runner up to 2 revisions behind |
| `net_prefix_delete` | only the tokens of a firing change: violated when ids share digits | the same |
| `runner_example` | types, decisions are current at the start, refinement of `TokenGame`; never two tokens, no task sleeps that could start, the net is filled, tokens move on | a filling transition and a moving one in one runner, a moving one in another, for the tokens of the same place; 2 places, ids for 2 tokens, nets up to 2 revisions behind, fairness. Deadlock is not checked: a token at place 2 stays there, and all tasks sleep |
| `failover_fenced` | one place and one firing a token, firings ended by who began them, interrupted firings ended | 2 runners of one region, of which the first may fail at any step, and 1 of another, all of which take the one token from the same place; that place has output locking, the other one has not, and one of the transitions may destroy the token; fairness. Deadlock is not checked: without a token at its place all tasks wait |
| `pump` | nothing is lost or overtaken on the way to the net, changes get there, the task goes on | channels of 2 messages, batches of 2, 2 revisions of others of any kind, 1 round of the task, fairness. Up to 2 own and 2 foreign events are under way at once, so that sends wait; requests cannot fill their channel. Deadlock is not checked: the task locks the place once |
| `alive` | work stops before the lease ends, no false alarm, a cancelled runner ends its lease | 12.5 s in quarters of a second, of which etcd grants 12, an answer within 2 s, the first call within 8 s, streams that may end, tasks that stop within 1 s |
| `ids` | agreement, uniqueness, termination | 3 runners in 2 regions, 2 transitions, 1 place, 2 token ids; each runner may stop once, with its last request carried out later. 3 runners make two lose to a third. Deadlock is not checked: runners stop, and token ids are used up |
| `region_nets` | types, the regions' nets fit together, tasks get what was validated | 2 places, 2 transitions, 2 regions, all 5 variants. Symmetry in places, transitions and regions, which no definition tells apart. Deadlock is not checked: all runners get started |
| `py_join` | the net and the executors of a run, `join` comes back | 2 tasks on 1 worker, so that a task in Python code keeps the worker from the other one and from the tasks of the gate; 1 change of the net, 2 calls of `register` for a name, 1 run, fairness. Deadlock is not checked: after `join` nothing is left to do |

The bounds are those at which every action fires and at which the mutants listed
in `PROJECT.json`, each a plausible mistake in one definition, are found. A place
more in `locks_two_runners`, or a lag of three revisions in `net_sync`, gives no
new behaviour of one place or one token: places and tokens do not interact but
through the order of locking and the shared message, which `locks_live` and
`locks_deadlock` have. What a small instance leaves out is what the proofs of
section 4 are for: arbitrary executors and places without output locking in
`TransitionRunner`, for example, are in no run and in its first three theorems; so are
any number of runners of a region, of names, of revisions a net lags behind, and of
ticks. The type invariants of `Failover`, `KeepAlive`, `IdAssignment` and `EventPump`
are proved and in no run; `PyRun` has none.

Fairness (`FairSpec` in `PlaceLocks`). Tokio polls a ready task again, etcd
answers its calls, a lease that is not renewed ends: weak fairness of these
steps. Tokio's mutex is first in, first out, so a waiter gets a mutex that is
free again and again: strong fairness of locking a mutex, for the transition
tasks and the lock request task. Nothing is assumed of starting to fire, of
failing, or of anything in `NetSync`.

In `TransitionRunner` every step of a task and of the main loop is weakly fair.
Acquiring is strongly fair, because of the queue of the mutex and because etcd
grants locks in the order of their keys; giving a lock back that another runner
waits for is strongly fair too, which is `RequestedLockIsFreed` of `PlaceLocks`:
`locks_live` shows it for one contended place, and `locks_deadlock` that it fails
for two. So `runner_example` says what the tasks achieve when the lock service
keeps its promise; giving back without being waited for is allowed and not fair.

Fairness in the other modules. `Failover`: runners are started, transactions of a
waiting task answered, leases of stopped runners end, each weakly fair; a task goes on,
strongly fair, because the lock it waits for may be taken by others again and again and
mutex and etcd both serve in turn; a transaction without a waiting task may stay on its way
for ever, as far as its own lock goes: it stops being in anybody's way with its lease.
`EventPump`: the watcher, the main loop and the task are weakly fair, giving a lock
back is strongly fair, since the queue of the mutex is first in, first out.
`IdAssignment`: etcd answers a runner, weakly fair; no strong fairness is needed,
as a lost race means that the id is there. `KeepAlive`: time goes on (`WF` of the
next step; the clock stands still only while something is due). `PyRun`: who
waits for the GIL gets it in the end, as CPython has its holder give it up every
few milliseconds, hence strong fairness of `GetGil`; Python code returns, which needs
strong fairness since it may be interrupted any number of times; a `select!` takes what
is ready in the end (`Close`), and a worker that is free again and again gets to the tasks of
the gate (`Keep`). Coroutines need not end.

### What the runs found

*Deadlock between two runners* (`locks_deadlock`). `etcd/gate.rs:140` says the
owner of a lock should free it as soon as possible when a second request
appears. The lock request task handles its places one after the other and waits
for the mutex of each, and `acquire` holds that mutex while it waits for etcd.
Runner *a* owns place 1 and asks for place 2, runner *b* owns 2 and asks for 1;
each lock request task is stuck at an older request for the place its own task
asks for, and the request that matters is queued behind it. No task needs two
locks at once, and the net of `examples/02-split-loop.rs` is enough. The leases
stay alive, so nothing ends the wait.

*Deletion by prefix* (`net_prefix_delete`). `end_transition` deletes
`pl/{place}/{token}` with everything that has it as a prefix. Moving token 1 away
from a place deletes tokens 10 to 19 there too, whoever has taken them. If the same
transaction puts one of them back there, etcd refuses it and the runner ends. If
another firing has taken one, the token comes back when that firing ends, and is lost for
good when its runner fails before, since nothing says any more that it was taken. The
local nets follow all of this without an error (`NetMatchesStore` in `net_sync`), so
nobody notices.

*The limits of what holds.* The following properties hold in their runs because of
one value of a constant; with another one, which the code allows, TLC finds them
violated.

- `failover_fenced`: both safety properties end with the first commit that slips. Without
  `~slipped` TLC finds both violated in the same instance: an end
  transaction to a place without output locking, or one that destroys its token, compares nothing
  (`runner/transition.rs:309`); sent before the lease ends, and applied after the
  next leader has given the token back and started a firing with it, it moves the
  token although another firing has it. `lib.rs:263` says fencing tokens ensure that
  tokens may be placed; an end without a lock has none. With output locking everywhere
  and no firing that destroys its token this cannot happen (`FencedNeverDoubles`).
- `pump`: `TaskGoesOn` is stated for revisions the watch reports. The revision of a
  lock is that of the whole store; if it changed other keys only (an id, an
  election), nobody reports it, and the task waits with its locks held until
  something changes under `pl/`. When it is alone in the net, nothing does.
- `pump`: with `Capacity = 1`, `Foreign = {"request"}` and `MaxForeign = 3`,
  `ChangesApplied` fails. The lock request task waits for the mutex of a task which
  waits for a revision; the watcher, which would bring it, waits for room in the
  channel of requests (`etcd/gate.rs:299`). In the code 128 requests have to arrive
  while a task is in its lock call or waits for the net.
- `alive`: `LeaseOutlivesWork` ("we want to fail fast and cease all operation
  before the lease expires", `etcd/gate.rs:840`) depends on bounds the code does not
  enforce. From the values of the run (quarters of a second) it fails with
  `OpenWithin = 44` (43 is still right), since the first call has no timer
  (`gate.rs:816`); with `AnswerWithin = 9`, since the end of a stream counts as an
  answer (`gate.rs:821`); without streams that end with `AnswerWithin = 19` (18 is
  still right), since the timer counts from the arrival
  of an answer and not from its request; and with `Second = 20`, `LeaseTtl = 30`,
  `MinLease = 1`, `OpenWithin = 1`, `AnswerWithin = 0`, `StopWithin = 0`, that is a second and
  a half on a perfect network, since a fraction of a second in the configuration is
  dropped only on one side (`gate.rs:881`). `NoFalseAlarm` and `CancelEndsLease` hold
  in all of these. What a late stop can do is limited by the fencing tokens, see above.

*Comments.* Three comments say what the code does not do: taken keys are "leased"
(`etcd/gate.rs:139`; `start_transition` puts them without a lease, and they could not
be leased if interrupted firings are to be given back); `insert_arc` returns the
arc "for this name" (`net/builder.rs:68`; it goes by place and transition); and
`dipen.pyi` says that `join` waits for the runner to finish and that `cancel` gives
tasks one second (`join` may come back while an executor is still in Python code, and
a task that awaits is dropped at once).

*The TODO at `runner/transition.rs:298`* asks whether the places a firing took
tokens from have to be locked when it ends. `DecisionIsCurrent` holds without:
tokens at rest are in etcd as they were seen, and no place has a taken token that
was not seen there. What is not guaranteed, and is violated in the model within a
few steps, is that a token seen as *taken* is still taken when the decision
is committed. The code promises that nowhere. An executor that starts only
because it sees taken tokens may start although the last one is gone; one that
starts only if there are none, as `Initialize`, is safe.

## 4. Proofs

### PlaceLocksProofs

Proved for any sets of runners, tasks and places:

| Theorem | Statement |
|---|---|
| `TypeCorrect` | `Spec => []TypeOK` |
| `GuardsExclude` | `Spec => []GuardExclusive` |
| `GuardsOwned` | `Spec => []GuardImpliesOwned` |
| `RequestsNotLost` | `Spec => []NoLostRequest` |
| `CommitsFenced` | `Spec => CommitFenced` |
| `LocksImplementMutex` | `Spec => ImplementsPlaceMutex` |

The assumptions are those of `PlaceLocksAssumption`: places are natural numbers,
every task has a node, its places are places.

The argument. None of the properties is inductive. `LocksInv` adds, as one
definition each:

- `TaskInv`: what a task holds and still needs fits its control state; while it
  is in a lock call it holds exactly one mutex without a guard;
- `MutexInv`: two tasks of a runner never hold the same mutex;
- `KeysInv`: of two keys of a place one is ahead of the other; keys live only as
  long as their lease;
- `TokenInv`: a cached token stands for an owned lock, and a key of a running
  node for a cached token or for a call under way. The second half is why a
  mutex that is free with no token cached means that the node has no key;
- `GuardInv`: a guard has a cached token, and a call is only made without one;
- `NetInv`: a node has keys of places of its own net only, so its watcher does
  not filter out requests for them;
- `NoLostRequest` itself. Its hard case is a lock request that is handled while
  nothing is cached: `TokenInv` and the free mutex say the node has no key then,
  so nobody waits behind it.

Exclusion follows from ownership (`TokenInv`, `GuardInv`), the order of the keys
(two owners are one) and `MutexInv`. `CommitFenced` needs in addition that a
key means a live lease. The refinement maps each place to the tasks that have a
guard for it and a live lease: `AcquireCached` and `AcquireGranted` take a lock
that is free by `GuardExclusive` one step later, releases, stops and ended leases
drop locks, everything else stutters.

`LocksInv` is split into one lemma per part (`TaskNext`, `MutexNext`, `KeysNext`,
`TokenNext`, `GuardNext`, `NetNext`, `NoLostNext`), each with a step per action.

### TransitionRunnerProofs

Proved for any sets of runners, transitions, places and tokens and any bound of the
lag; the first three for any executors, the others for nets of which more is known:

| Theorem | Statement |
|---|---|
| `TypeCorrect` | `Spec => []TypeOK` |
| `DecisionsAreCurrent` | `Spec => DecisionIsCurrent` |
| `RunnersPlayTokenGame` | `Spec => ImplementsTokenGame` |
| `NoSecondToken` | if `OneInitialize`, then `Spec => []AtMostOneToken` |
| `SleepersMissNothing` | if `ExamplesValidated`, then `Spec => []SleepersNeedNotRun` |

From `TransitionRunnerAssumption`: the constants have their types, and a
transition watches and locks all places it takes tokens from, as
`runner/main.rs:91` makes sure. `RunnerInv` has

- `LastInv`: what a runner will apply last is what etcd holds;
- `HolderInv`: a place has one holder, and its runner has the lock cached;
- `TaskInv`: what a task holds and still needs fits its control state;
- `FreshInv`, the heart: while a runner has the lock of a place cached, all
  revisions of its net from the minimal revision of the lock on show that place
  as it is in etcd (`StillSo`). A lock from etcd gets the latest revision, for
  which this is `LastInv`; a transaction of the holder itself sets the revision
  to its own; a transaction of anybody else only does at that place what needs no
  lock, which `StillSo` allows;
- `ViewInv`: so a decision made when the net has reached the minimal revision of
  all locks (`NetIsRecent`) stays right until the start;
- `FiringInv`, `ResultInv`, `UsedInv`: a firing has exactly the tokens it has
  taken, its result puts each of them somewhere, and new ids are new.

`StillSo` is weaker than equality in two ways that the code makes necessary:
tokens appear at places that do without output locks, and taken tokens disappear
when their firing ends, which needs no lock of the place they came from. Each of
`StartMoves` and `EndMoves` says token by token what a transaction does;
`StoreFresh` turns that into `FreshInv`. In the refinement `StartTransition` is
`Fire`, `EndTransition` is `Finish`, and all else stutters.

The two theorems about the executors of the examples build on `RunnerInv` and on
`ExampleInv`, which says what a firing of an example has taken and will create.

`OneInitialize` describes the nets in which `Initialize` is meant to create the only
token: all transitions are examples, there is at most one token to begin with, and
one `Initialize`, which has conditional arcs to all places with in or out arcs, all
with output locking. `OneInv` adds to `AtMostOneToken` that there is none while an
`Initialize` is between its decision and the end of its firing. When it decides,
`ViewInv` (its locks, at the revision its net has reached) turns what it sees into
what etcd holds, and taken tokens count because they are seen at the place they were
taken from. With two of them the property would be false: an `Initialize` takes no
token, and gives its locks back while it runs, so that a second one may decide in
the meantime; hence *one* is in the hypothesis. `runner_example` is such a net,
and TLC evaluates `OneInitialize` and `ExamplesValidated` there.

`ExamplesValidated` is what `validate` of the two executors makes sure of. The other
transitions of the net may be anything. `WakeInv` has one clause for each way of
missing a change: the notifications that are thrown away at a check are of revisions
the check has seen; `wait_for` narrows them to the only place a move depends on; and
after a firing the task does not look at the net before it sleeps, so the end of the
firing itself has to notify it, which is either done or in the revisions its runner
has still to apply (`WillHear`), among those the task waits for in `Synced`. It holds
initially only because every place is notified when the load is applied
(`FirstNotified`): a task waits before it checks for the first time.

### FailoverProofs

Proved for any sets of nodes, regions, transitions, places and tokens, with nodes
that stop and lose their leases at any step:

| Theorem | Statement |
|---|---|
| `TypeCorrect` | `Spec => []TypeOK` |
| `FailoverKeepsTokens` | `Spec => []TokenInOnePlace` |
| `RunnersEndTheirOwn` | `Spec => EndsOwnFiring` |

There is no hypothesis on the net: any places may have output locking, any transitions
may take from the same place or destroy their token. Both properties speak of the
time before the first commit slips, and `FencedNeverDoubles`, a corollary, says that
this is all the time if all places have output locking and no firing destroys its
token (`EveryCommitFenced`): then `Spec => []InOnePlace`. The argument:

- `AskedInv`: a task waits for at most one transaction, its own, and the tasks
  that are not waiting have none that would still be answered to them;
- `LeaderInv`: a node with a living lease that works, or has something under way
  from when it worked, is the head of the election of its region; so a region
  has one (`OneLeader`). A key of the election goes with the lease, and that is
  why a request of the runner before is refused and not merely late;
- `LockInv`: of two requests of nodes with a living lease at most one has the lock
  of a place. It keeps two transitions that take from the same place, of one region or
  of two, from booking the same token;
- `SafeInv`, as long as nothing has slipped (`TakenInv`, `RequestsRight`,
  `TasksRight`): for nodes with a living lease only,
  what is sent and what is running fits the keys in etcd, and a task that has not
  begun sees in its local net all that its transition had taken. For nodes
  whose lease has ended nothing is claimed, and nothing need be: `Admitted`
  refuses them, or `slipped` notes that it does not.

`ApplyRight` is the step that matters: etcd applies a transaction, and everything
the other live nodes have under way still fits.

### KeepAliveProofs

| Theorem | Statement |
|---|---|
| `TypeCorrect` | `Spec => []TypeOK` |
| `TimerMeansSilence` | `Spec => []NoFalseAlarm` |
| `WorkEndsFirst` | if `LeaseLongEnough`, then `Spec => []LeaseOutlivesWork` |

For any time to live of a second or more, in ticks that make the timers whole.
`LeaseLongEnough` is the condition on the network that the code leaves implicit:
with `Silence == AnswerWithin + TimeLimit + Interval` (the last one if streams may
end), `Silence + StopWithin < Granted`, `OpenWithin + StopWithin < Granted` and
`StopWithin < Grace`. With a time to live of ten seconds `TimeLimit` is five and
`Interval` two, so that answers may take a little less than three seconds, tasks
included, when streams end. The run `alive` is just inside (47 < 48, 36 < 48 and 4
< 5 quarters of a second), and each of the values for which section 3 reports a violation
outside. `PauseInv` relates the timer and the pause between requests,
`StageInv` what may be under way at each stage, and `RenewalInv` bounds, stage by
stage, how much of the lease has gone by.

### IdAssignmentProofs

| Theorem | Statement |
|---|---|
| `TypeCorrect` | `Spec => []TypeOK` |
| `IdsStandForOne` | `Spec => []IdsUnique` |
| `ReadyRunnersAgree` | `Spec => []ReadyAgrees` |

For any runners, names and regions, any number of restarts, and requests that are
carried out late or never; only from the types of the constants. `FreshInv` is why
ids are unique: an id that has been drawn and not stored, by a runner that is
there or by a request that outlived its own, is below the counter, is nobody
else's and is stored nowhere (`DrawnInv`); what is stored is below the counter and
different (`StoredInv`). `KnowledgeInv` is why runners agree: what a runner has
read of ids and regions is what etcd holds, since neither ever changes
(`StoreGrows`, which rests on the comparison of the create revision), and what it
has not read yet is still to be done.

### NetSyncProofs

Proved for any sets of tokens, places, transitions and data, any places the
region knows and any transitions it has, any number of tokens in a firing, and a
watch that lags behind by any number of revisions:

| Theorem | Statement |
|---|---|
| `TypeCorrect` | `Spec => []TypeOK` |
| `StoreStaysCoherent` | `Spec => []StoreCoherent` |
| `NetFollowsStore` | `Spec => []NetMatchesStore` |
| `FiringsAreKnown` | `Spec => []FiringIsKnown` |
| `ChangesAreTold` | `Spec => ChangedPlacesTold` |
| `OthersKeepTokens` | `Spec => OthersGoByPrefix` |
| `StorePlaysTokenGame` | `Spec => PlaysTokenGame` |

Nothing is assumed of the ids: `Covers` may be any reflexive relation. What the deletion by
prefix does is part of what is proved. `StoreCoherent` says that a token that goes
with the prefix of another one goes with all its keys, so that it is nowhere rather
than torn, and that the firing that had taken it may put it back; `NetFollowsStore`
that the local nets follow even then, without a failing assertion; `OthersGoByPrefix`
bounds what of others can be lost, in place of `OnlyTakenTokensChange`, which
`net_prefix_delete` shows violated. `PlaysTokenGame` leaves out just the steps in which
`strayed` changes: a token that vanishes, or comes back, is no move of the token game. As long
as there are fewer than ten tokens there is no such step.

`NetMatchesStore` compares the net with the last snapshot it has applied and says
nothing of what is under way, so it is not inductive. `SyncInv` adds `WatchInv`: the
backlog is a chain of revisions from what the runner has seen to what etcd holds, and
of each of them, token by token, the events are enough (`Follows`): the changes that
`_analyze_place_events` makes of them lead from what the net shows of the token
before the revision to what it shows after it, no assertion of `_apply_change` fails
on the way, and the places they report include the one the token looks different at.
With that a step of the main loop (`ApplyStep`) takes one revision off the chain, and
a transaction (`Committed`) adds one.

That every transaction adds a revision with this property is the substance. It takes
three layers. A transaction does to one token one of nine things: it takes, returns,
consumes or moves it, creates it, updates, carries or removes it by hand, or leaves it
alone (`StartParts`, `EndParts`,
`CancelParts`, `EditParts`); a token that is struck by the prefix of another one is removed
(`Swept`), and one that comes back is created (`Restored`). For each of these the events etcd sends follow from the
keys, half of them being filtered out when the token crosses the border of the region
(`TokenTaken`, `TokenMoved`, ...). And for each combination of events the case table
makes changes that lead where they should (`ChangesMoved`, ..., `FollowsMove`, ...).
`StoreCoherent` is needed for the second layer: it says that a token has one of three
forms, no key, a key at one place, or a key and one taken key at that place
(`CoherentSettled`).

The refinement reads the position of a token from its keys (`SpotOf`).
`StartTransition` is `Fire`, `EndTransition` and `CancelRunning` are `Finish`, `Edit`
is the token game's `Edit`; the watch stutters.

### RegionNetProofs

Proved for any finite sets of places and transitions, any regions, and any
order in which the net is put together and the runners start:

| Theorem | Statement |
|---|---|
| `TypeCorrect` | `Spec => []TypeOK` |
| `RegionsFit` | `Spec => []RegionsFitTogether` |
| `ExecutorsRunAsValidated` | `Spec => []RunsWhatWasValidated` |

The invariant `NetInv` says of the definition that arcs have both ends
(`DefinitionInv`), of the ids that they count the names and are different (`IdsInv`),
and of each runner, by how far it is, that its executors have seen what was defined,
that all names of its region have an id, and that its net has just the things of the
region under their ids (`Fits`). `Fits` is by ids and `ApprovedInv` by names; that ids
stand for one name, and are never given out again while runners of other
regions get more of them (`RegionKept`, `FreshNumbered`), is what connects the two, and
makes the nets of two regions agree on the places they share.

### EventPumpProofs

| Theorem | Statement |
|---|---|
| `TypeCorrect` | `Spec => []TypeOK` |
| `NoRevisionIsLost` | `Spec => []NothingLost` |

For channels and batches of any size, any number of rounds and revisions of others.
`NothingLost` is inductive with the types: `ReadResponse` extends the right end of
what is under way, `SendEvent` moves the smallest from `out` to the channel, and
`Apply` cuts off the left end; since the events are in order, the batch it takes is
just the revisions up to the last one in it.

### Only model-checked

The liveness properties `LockingTerminates`, `EmptyNetIsFilled`,
`TokensMoveOn`, `InterruptedFiringEnds`, `AssignmentEnds`, `CancelEndsLease`,
`TaskGoesOn`, `ChangesApplied` and `JoinComesBack`, and `RequestedLockIsFreed`, which
is stated for two runs, held by one and violated in the other: the prover has neither
fairness nor `ENABLED`. Of the safety properties there are two, `NetOfStart` and
`RegistryOfStart` of `PyRun`: what can go wrong with them is a matter of one edit, one
`register` and one start.

## 5. Plan

What is left, in this order:

1. Firings of several tokens in `Failover`, so that one transaction compares several
   fencing tokens and may have some places locked and others not.
2. A theorem for more than one `Initialize`: which nets keep two of them apart.
3. The deletion of surplus tokens by `DelayedMove`; edits of the net by hand that
   race with a start.

## 6. Not modelled

- `error.rs`, `etcd/common.rs` and the documentation in `lib.rs`: types,
  conversions and text.
- The benchmarks and the diagrams of a net: users of the crate.
- In `dipen-py` the contexts (`contexts/`), which copy names, ids and data between
  Rust and Python objects, and `logging.rs`, which forwards records: neither keeps
  state that takes part in a protocol. The second start in a process after its
  event loop was closed (`run.rs:47`) is listed as a hazard only, as are executors that
  take tokens of places their arcs do not allow (`runner/context/start.rs:55`).
- The parsing of etcd keys; events arrive sorted by kind. A name with a slash can
  collide with a region key (listed as a hazard).
- The limits of etcd on the size of a transaction (128 operations by default), and
  a compacted watch, which ends the runner as any error does.
- Panics of the runner on results and choices that name places without an arc
  (listed as hazards): executors of the models name places they are given.

## 7. Running

    tlc -config MCPlaceLocks_two_runners.cfg MCPlaceLocks
    tlapm PlaceLocksProofs.tla
    tlapm TransitionRunnerProofs.tla
    tlapm FailoverProofs.tla
    tlapm KeepAliveProofs.tla
    tlapm IdAssignmentProofs.tla
    tlapm NetSyncProofs.tla
    tlapm RegionNetProofs.tla
    tlapm EventPumpProofs.tla
