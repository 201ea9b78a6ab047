-------------------------------- MODULE PyRun --------------------------------
(***************************************************************************)
(* A run started from Python (dipen-py/src/run.rs, exec.rs, net.rs,        *)
(* registry.rs), once, from the start to the join.  The thread of the      *)
(* program, the thread of the runner and the worker threads of tokio share *)
(* the global interpreter lock (GIL): the runner needs it to validate its  *)
(* executors, a worker each time a transition task calls Python, and a     *)
(* worker that waits for it does nothing else.  The program goes on with   *)
(* its net and its registry while the run uses them.                       *)
(***************************************************************************)
EXTENDS Naturals, FiniteSets

CONSTANTS
  Transition,   \* of the region of the run
  Workers,      \* worker threads of the tokio runtime
  MaxInserts,   \* bound: changes of the net
  MaxRegisters  \* bound: calls of register by name, one of them before the start

ASSUME PyRunAssumption ==
  /\ IsFiniteSet(Transition)
  /\ Workers \in Nat \ {0} /\ MaxInserts \in Nat /\ MaxRegisters \in Nat

VARIABLES
  gil,         \* who holds the GIL: "free", "main", "runner" or a transition
  main,        \* the thread of the program: "code", "join"
  receiver,    \* the handle still has the receiver of the result
  heap,        \* two net builders, by how often they have been changed
  pyNet, runNet,   \* which of the two the program and the run have
  classes,     \* the registry: the executor class of each name, 0 if none
  runner,      \* "none", "spawned", "validating", "validate", "connecting",
               \* "running", "writing", "closing", "sent"
  todo,        \* the transitions it has yet to validate
  cancelled,   \* the cancellation token
  keeper,      \* keep alive, watch and lock requests: "none", "up", "ended"
  task,        \* by transition: the state of its task
  startNet, startClasses,  \* history: net and registry when start was called
  readNet, readClasses     \* history: what the run has made of them

objectVars == <<heap, pyNet, runNet, classes>>
historyVars == <<startNet, startClasses, readNet, readClasses>>
runVars == <<runner, todo, cancelled, keeper>>
vars == <<gil, main, receiver, objectVars, runVars, task, historyVars>>

Init ==
  /\ gil = "main" /\ main = "code" /\ receiver = FALSE
  /\ heap = <<0, 0>> /\ pyNet = 1 /\ runNet = 1
  /\ classes = [t \in Transition |-> 0]
  /\ runner = "none" /\ todo = {} /\ cancelled = FALSE /\ keeper = "none"
  /\ task = [t \in Transition |-> "none"]
  /\ startNet = 0 /\ startClasses = classes /\ readNet = {} /\ readClasses = {}

-----------------------------------------------------------------------------
(***************************************************************************)
(* The GIL.                                                                *)
(***************************************************************************)
OnWorker == {t \in Transition : task[t] \in {"new", "check", "run", "result"}}

FreeWorker == Cardinality(OnWorker) < Workers

\* Who runs Python code, or waits for the GIL to do so.
InPython == OnWorker \cup (IF main = "code" THEN {"main"} ELSE {})
              \cup (IF runner = "validate" THEN {"runner"} ELSE {})

GetGil(x) ==
  /\ gil = "free" /\ x \in InPython
  /\ gil' = x
  /\ UNCHANGED <<main, receiver, objectVars, runVars, task, historyVars>>

\* The interpreter gives it up every few milliseconds, and while its event
\* loop has nothing to do.
YieldGil(x) ==
  /\ gil = x /\ x \in InPython
  /\ gil' = "free"
  /\ UNCHANGED <<main, receiver, objectVars, runVars, task, historyVars>>

-----------------------------------------------------------------------------
(***************************************************************************)
(* The program.                                                            *)
(***************************************************************************)
HasGil == main = "code" /\ gil = "main"

\* Arc counts: the runner has its net until it returns, its dispatchers hold
\* the registry as long, and so does each task.
NetInUse == runner \notin {"none", "sent"} /\ runNet = pyNet
RegistryInUse ==
  \/ runner \notin {"none", "sent"} /\ \E t \in Transition : startClasses[t] # 0
  \/ \E t \in Transition : task[t] \notin {"none", "ended"}

\* A version that changes the net builder in use.
MutInPlace == heap' = [heap EXCEPT ![pyNet] = @ + 1] /\ UNCHANGED pyNet

\* Arc::make_mut: one in use is cloned, and the clone is changed.
MakeMut ==
  LET other == 3 - pyNet IN
  \/ ~NetInUse /\ MutInPlace
  \/ NetInUse /\ pyNet' = other /\ heap' = [heap EXCEPT ![other] = heap[pyNet] + 1]

\* insert_place, insert_transition, insert_arc.
Insert ==
  /\ HasGil /\ heap[pyNet] < MaxInserts
  /\ MakeMut
  /\ UNCHANGED <<gil, main, receiver, runNet, classes, runVars, task, historyVars>>

\* A version that does not ask whether the registry is in use.
AlwaysMut == TRUE

\* Arc::get_mut: a registry in use stays as it is, the caller gets an error.
GetMut == ~RegistryInUse

Register(t) ==
  /\ HasGil /\ classes[t] < (IF runner = "none" THEN 1 ELSE MaxRegisters)
  /\ GetMut
  /\ classes' = [classes EXCEPT ![t] = @ + 1]
  /\ UNCHANGED <<gil, main, receiver, heap, pyNet, runNet, runVars, task, historyVars>>

Start ==
  /\ HasGil /\ runner = "none"
  /\ runner' = "spawned" /\ runNet' = pyNet /\ receiver' = TRUE
  /\ startNet' = heap[pyNet] /\ startClasses' = classes
  /\ UNCHANGED <<gil, main, heap, pyNet, classes, todo, cancelled, keeper, task,
                 readNet, readClasses>>

Cancel ==
  /\ HasGil /\ runner # "none" /\ cancelled' = TRUE
  /\ UNCHANGED <<gil, main, receiver, objectVars, runner, todo, keeper, task, historyVars>>

\* The event loop gets to the end of the coroutine of a firing.
RunCoroutine(t) ==
  /\ HasGil /\ task[t] = "awaiting"
  /\ task' = [task EXCEPT ![t] = "returned"]
  /\ UNCHANGED <<gil, main, receiver, objectVars, runVars, historyVars>>

\* Versions of blocking_recv: with the GIL, and without (allow_threads).
KeepsGil == UNCHANGED gil
AllowThreads == gil' = "free"

\* Only the first join, or join_async, gets the receiver.
Join ==
  /\ HasGil /\ receiver
  /\ receiver' = FALSE
  /\ \/ main' = "join" /\ AllowThreads
     \/ UNCHANGED <<main, gil>>
  /\ UNCHANGED <<objectVars, runVars, task, historyVars>>

Joined ==
  /\ main = "join" /\ runner = "sent"
  /\ main' = "code"
  /\ UNCHANGED <<gil, receiver, objectVars, runVars, task, historyVars>>

-----------------------------------------------------------------------------
(***************************************************************************)
(* The thread of the runner.                                               *)
(***************************************************************************)

\* only_region: later changes of the net builder are not looked at.
ReadNet ==
  /\ runner = "spawned" /\ runner' = "validating"
  /\ readNet' = {heap[runNet]} /\ todo' = Transition
  /\ UNCHANGED <<gil, main, receiver, objectVars, cancelled, keeper, task, startNet,
                 startClasses, readClasses>>

\* A transition that was not registered ends the run, before it connects.
BeginValidate(t) ==
  /\ runner = "validating" /\ t \in todo
  /\ todo' = todo \ {t}
  /\ \/ startClasses[t] = 0 /\ runner' = "sent" /\ UNCHANGED readClasses
     \/ startClasses[t] # 0 /\ runner' = "validate"
        /\ readClasses' = readClasses \cup {<<t, classes[t]>>}
  /\ UNCHANGED <<gil, main, receiver, objectVars, cancelled, keeper, task, startNet,
                 startClasses, readNet>>

\* So does one whose validate fails or raises an exception.
EndValidate ==
  /\ gil = "runner" /\ gil' = "free"
  /\ runner' \in {"validating", "sent"}
  /\ UNCHANGED <<main, receiver, objectVars, todo, cancelled, keeper, task, historyVars>>

\* connect, which starts the tasks of the gate, up to the load: it can fail.
Connect ==
  /\ \/ runner = "validating" /\ todo = {} /\ runner' = "connecting" /\ keeper' = "up"
        /\ UNCHANGED task
     \/ runner = "validating" /\ todo = {} /\ runner' = "closing" /\ UNCHANGED <<keeper, task>>
     \/ runner = "connecting" /\ runner' = "closing" /\ UNCHANGED <<keeper, task>>
     \/ runner = "connecting" /\ runner' = "running"
        /\ task' = [t \in Transition |-> "spawned"] /\ UNCHANGED keeper
  /\ UNCHANGED <<gil, main, receiver, objectVars, todo, cancelled, historyVars>>

\* The main loop has events and waits for the tasks that read the net.
Write ==
  /\ \/ runner = "running" /\ runner' = "writing"
     \/ /\ runner = "writing" /\ runner' = "running"
        /\ \A t \in Transition : task[t] \notin {"new", "check"}
  /\ UNCHANGED <<gil, main, receiver, objectVars, todo, cancelled, keeper, task, historyVars>>

\* It ends when the run is cancelled or a task has ended, and disconnects.
Close ==
  /\ runner = "running" /\ runner' = "closing"
  /\ cancelled \/ \E t \in Transition : task[t] = "ended"
  /\ cancelled' = TRUE
  /\ UNCHANGED <<gil, main, receiver, objectVars, todo, keeper, task, historyVars>>

\* disconnect waits for the tasks of the gate, but nobody for the transition
\* tasks, and run_async makes a success of whatever the run returns.
Send ==
  /\ runner = "closing" /\ keeper # "up"
  /\ runner' = "sent"
  /\ UNCHANGED <<gil, main, receiver, objectVars, todo, cancelled, keeper, task, historyVars>>

-----------------------------------------------------------------------------
(***************************************************************************)
(* The workers.                                                            *)
(***************************************************************************)

\* The tasks of the gate end when cancelled, or cancel when they fail.
Keep ==
  /\ keeper = "up" /\ FreeWorker
  /\ \/ (cancelled \/ runner = "closing") /\ keeper' = "ended" /\ UNCHANGED cancelled
     \/ cancelled' = TRUE /\ UNCHANGED keeper
  /\ UNCHANGED <<gil, main, receiver, objectVars, runner, todo, task, historyVars>>

\* Where a task goes on that has been waiting: a start is checked a second
\* time, under the locks, and a coroutine that raised an exception is a panic.
Step == [spawned |-> {"new"}, idle |-> {"check"}, startable |-> {"check", "run"},
         returned |-> {"result", "ended"}]

\* To make and to ask its executor it reads the net, behind a waiting writer.
Poll(t) ==
  /\ runner \in {"running", "writing"} /\ FreeWorker
  /\ task[t] \in DOMAIN Step
  /\ \E s \in Step[task[t]] :
       /\ s \in {"new", "check"} => runner = "running"
       /\ task' = [task EXCEPT ![t] = s]
       /\ readClasses' = readClasses \cup IF s = "new" THEN {<<t, classes[t]>>} ELSE {}
  /\ UNCHANGED <<gil, main, receiver, objectVars, runVars, startNet, startClasses, readNet>>

\* What its Python code leads to; an exception is a panic, which ends it.
Outcomes == [new |-> {"idle"}, check |-> {"idle", "startable"}, run |-> {"awaiting"},
             result |-> {"idle"}]

EndPython(t) ==
  /\ gil = t /\ gil' = "free"
  /\ \E s \in Outcomes[task[t]] \cup {"ended"} : task' = [task EXCEPT ![t] = s]
  /\ UNCHANGED <<main, receiver, objectVars, runVars, historyVars>>

\* Where it waits, a task is dropped when it is cancelled or aborted, and it
\* may end by itself when etcd fails.
EndTask(t) ==
  /\ task[t] \in DOMAIN Step \cup {"awaiting"} /\ FreeWorker
  /\ task' = [task EXCEPT ![t] = "ended"]
  /\ UNCHANGED <<gil, main, receiver, objectVars, runVars, historyVars>>

Next ==
  \/ \E x \in {"main", "runner"} \cup Transition : GetGil(x) \/ YieldGil(x)
  \/ Insert \/ Start \/ Cancel \/ Join \/ Joined
  \/ ReadNet \/ EndValidate \/ Connect \/ Write \/ Close \/ Send
  \/ Keep
  \/ \E t \in Transition :
       \/ Register(t) \/ RunCoroutine(t) \/ BeginValidate(t)
       \/ Poll(t) \/ EndPython(t) \/ EndTask(t)

Spec == Init /\ [][Next]_vars

Advance ==
  \/ ReadNet \/ Connect \/ Send \/ Joined
  \/ \E t \in Transition : BeginValidate(t)
  \/ runner = "writing" /\ Write

\* Threads run, etcd answers, Python code returns, the interpreter switches
\* threads and leaves none of them out, select! takes what is ready in the end.
FairSpec ==
  /\ Spec
  /\ \A x \in {"main", "runner"} \cup Transition : SF_vars(GetGil(x))
  /\ WF_vars(YieldGil("main")) /\ SF_vars(EndValidate)
  /\ \A t \in Transition : SF_vars(EndPython(t))
  /\ WF_vars(Advance) /\ SF_vars(Close) /\ SF_vars(Keep /\ keeper' = "ended")

-----------------------------------------------------------------------------
\* The net a run works on is the net as it was when start was called, though
\* the runner looks at it later, in its own thread, while the program may
\* already change the net for the next run.
NetOfStart == readNet \subseteq {startNet}

\* The classes a run validates, and later makes executors of, are those that
\* were registered when start was called.
RegistryOfStart == \A c \in readClasses : c[2] = startClasses[c[1]]

\* A join comes back when the run is cancelled, or a task has ended, as by an
\* exception of its executor: a thread that waits for the end of a run does
\* not keep from the runner and its workers what they need to get there.
JoinComesBack ==
  (main = "join" /\ (cancelled \/ \E t \in Transition : task[t] = "ended")) ~> HasGil
=============================================================================
