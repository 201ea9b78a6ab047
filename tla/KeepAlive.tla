------------------------------ MODULE KeepAlive ------------------------------
(***************************************************************************)
(* The lease of a runner (etcd/gate.rs: connect, _get_lease, _keep_alive,  *)
(* _keep_alive_loop, disconnect) in discrete time.  A runner asks etcd     *)
(* again and again to renew its lease, gives up when it has not had an     *)
(* answer for too long, and then has its tasks stop before it revokes the  *)
(* lease.                                                                  *)
(*                                                                         *)
(* A timer of the runner that is due keeps the clock from ticking; the     *)
(* network may take its time within the bounds below.                      *)
(***************************************************************************)
EXTENDS Integers

CONSTANTS
  Second,        \* ticks of a second
  LeaseTtl,      \* lease_ttl of the configuration, in ticks; a tick is so short
                 \* that all timers, down to a tenth of it, are whole
  MinLease,      \* etcd grants no lease of fewer seconds
  OpenWithin,    \* environment: ticks the first keep alive call takes at most
  AnswerWithin,  \* environment: an answer that takes longer is never delivered
  StreamEnds,    \* environment: the server may end the stream of answers
  StopWithin     \* environment: ticks cancelled tasks need to stop

ASSUME KeepAliveAssumption ==
  /\ Second \in Nat \ {0} /\ MinLease \in Nat
  /\ LeaseTtl \in Nat /\ LeaseTtl >= Second /\ LeaseTtl % 10 = 0
  /\ OpenWithin \in Nat /\ AnswerWithin \in Nat /\ StopWithin \in Nat
  /\ StreamEnds \in BOOLEAN

\* Duration::as_secs drops the fraction.
AsSecs == LeaseTtl \div Second

\* The time to live of the lease that etcd grants for these seconds.
Granted == Second * (IF AsSecs < MinLease THEN MinLease ELSE AsSecs)

\* Versions whose send is repeated too late, and which give up too late.
IntervalHalf == LeaseTtl \div 2
TimeLimitFull == LeaseTtl

Interval == LeaseTtl \div 5    \* between an answer and the next request
TimeLimit == LeaseTtl \div 2   \* without an answer
Grace == LeaseTtl \div 10      \* between the cancellation and the revocation

VARIABLES
  lease,      \* etcd: ticks the lease has left, 0 if there is none
  wire,       \* what is on its way: nothing, a request, an answer, an answer
              \* about an unknown lease, or the stream has ended
  transit,    \* ticks the answer has been on its way
  pc,         \* control state of _keep_alive
  idle,       \* ticks since the last answer or the start of the call
  nap,        \* ticks until the current sleep ends
  cancelled,  \* the cancellation token of the runner
  working,    \* tasks of the runner are still at work
  linger      \* ticks since the cancellation, while they are

vars == <<lease, wire, transit, pc, idle, nap, cancelled, working, linger>>

Init ==
  /\ lease = 0 /\ wire = "nothing" /\ transit = 0
  /\ pc = "off" /\ idle = 0 /\ nap = 0
  /\ cancelled = FALSE /\ working = FALSE /\ linger = 0

-----------------------------------------------------------------------------
\* connect: a lease is granted and the keep alive task starts with a call of
\* its own, which no timer watches.
Connect ==
  /\ pc = "off"
  /\ lease' = Granted
  /\ pc' = "open" /\ wire' = "request"
  /\ working' = TRUE
  /\ UNCHANGED <<transit, idle, nap, cancelled, linger>>

\* etcd gets a request: it renews the lease or does not know it any more.
Renew ==
  /\ wire = "request"
  /\ IF lease > 0
     THEN lease' = Granted /\ wire' = "answer"
     ELSE lease' = lease /\ wire' = "unknown"
  /\ transit' = 0
  /\ UNCHANGED <<pc, idle, nap, cancelled, working, linger>>

\* A version that only cancels, and goes on to keep the lease alive.
GiveUpCancels ==
  /\ cancelled' = TRUE
  /\ UNCHANGED <<pc, nap>>

\* The loop ends or is dropped: cancel, and leave the others time to stop.
GiveUp ==
  /\ cancelled' = TRUE
  /\ pc' = "grace" /\ nap' = Grace

\* The first call has its answer: now the loop begins, with a request.
Opened ==
  /\ pc = "open" /\ wire = "answer"
  /\ pc' = "ask" /\ wire' = "nothing" /\ idle' = 0
  /\ UNCHANGED <<lease, transit, nap, cancelled, working, linger>>

Ask ==
  /\ pc = "ask" /\ wire # "ended"
  /\ pc' = "wait" /\ wire' = "request"
  /\ UNCHANGED <<lease, transit, idle, nap, cancelled, working, linger>>

\* Whatever the stream yields without an error resets the timer.
Success ==
  /\ idle' = 0
  /\ pc' = "sleep" /\ nap' = Interval
  /\ UNCHANGED <<lease, transit, cancelled, working, linger>>

\* An answer counts if it has the time to live the runner asked for.
Answered ==
  /\ pc = "wait" /\ wire = "answer"
  /\ Granted = Second * AsSecs
  /\ wire' = "nothing"
  /\ Success

\* message() yields None.
EndOfStream ==
  /\ StreamEnds
  /\ pc = "wait"
  /\ wire' = "ended"
  /\ Success

Wake ==
  /\ pc = "sleep" /\ nap = 0
  /\ pc' = "ask"
  /\ UNCHANGED <<lease, wire, transit, idle, nap, cancelled, working, linger>>

InLoop == pc \in {"ask", "wait", "sleep"}

\* The errors of the loop: another time to live, an unknown lease, a request
\* that cannot be sent, a connection that breaks, and the timer.
Fails ==
  /\ \/ pc = "wait" /\ wire = "answer" /\ Granted # Second * AsSecs
     \/ pc \in {"open", "wait"} /\ wire = "unknown"
     \/ pc = "ask" /\ wire = "ended"
     \/ pc \in {"open", "wait"}
     \/ InLoop /\ idle >= TimeLimit
  /\ GiveUp
  /\ UNCHANGED <<lease, wire, transit, idle, working, linger>>

\* disconnect, or an error of another task of the runner.
Cancel ==
  /\ InLoop \/ pc = "open"
  /\ GiveUp
  /\ UNCHANGED <<lease, wire, transit, idle, working, linger>>

\* Every task waits for the cancellation as well, and stops.
TasksStop ==
  /\ cancelled /\ working
  /\ working' = FALSE
  /\ UNCHANGED <<lease, wire, transit, pc, idle, nap, cancelled, linger>>

\* The lease is revoked, or the call fails and the lease is left to expire.
Revoke ==
  /\ pc = "grace" /\ nap = 0
  /\ pc' = "done"
  /\ lease' \in {0, lease}
  /\ UNCHANGED <<wire, transit, idle, nap, cancelled, working, linger>>

Less(n) == IF n = 0 THEN 0 ELSE n - 1

\* Nothing the runner or its tasks have to do now is left undone.
NothingDue ==
  /\ pc # "ask"
  /\ pc \in {"sleep", "grace"} => nap > 0
  /\ InLoop => idle < TimeLimit
  /\ pc = "open" => idle < OpenWithin
  /\ cancelled /\ working => linger < StopWithin

Tick ==
  /\ pc # "off"
  /\ NothingDue
  /\ lease' = Less(lease)
  /\ nap' = Less(nap)
  /\ idle' = IF InLoop \/ pc = "open" THEN idle + 1 ELSE idle
  /\ linger' = IF cancelled /\ working THEN linger + 1 ELSE linger
  /\ IF wire = "answer" /\ transit < AnswerWithin
     THEN transit' = transit + 1 /\ wire' = wire
     ELSE transit' = 0 /\ wire' = IF wire = "answer" THEN "nothing" ELSE wire
  /\ UNCHANGED <<pc, cancelled, working>>

Next ==
  \/ Connect \/ Renew \/ Opened \/ Ask \/ Answered \/ EndOfStream \/ Wake
  \/ Fails \/ Cancel \/ TasksStop \/ Revoke \/ Tick

Spec == Init /\ [][Next]_vars

\* Time goes on, and what is due is done.
FairSpec == Spec /\ WF_vars(Next)

-----------------------------------------------------------------------------
\* Types; the timers stay within their limits.
TypeOK ==
  /\ lease \in 0..Granted
  /\ wire \in {"nothing", "request", "answer", "unknown", "ended"}
  /\ transit \in 0..AnswerWithin
  /\ pc \in {"off", "open", "ask", "wait", "sleep", "grace", "done"}
  /\ idle \in Nat /\ (InLoop => idle <= TimeLimit)
  /\ nap \in 0..(LeaseTtl \div 5)
  /\ cancelled \in BOOLEAN /\ working \in BOOLEAN
  /\ linger \in 0..StopWithin

\* All tasks of a runner have stopped before its lease ends: while it is cut
\* off from etcd, by the timer of the loop, and otherwise because revoking
\* waits for them.
LeaseOutlivesWork == lease = 0 => ~working

\* The timer fires only while an answer is due: a runner that etcd answers at
\* once does not give up.
NoFalseAlarm == pc \in {"ask", "sleep"} => idle < TimeLimit

\* A cancelled runner frees its lease, whether or not etcd can be reached, and
\* with it its locks and its leadership.
CancelEndsLease == cancelled ~> (lease = 0 /\ ~working)
=============================================================================
