--------------------------- MODULE KeepAliveProofs ---------------------------
(***************************************************************************)
(* Proofs about the lease of a runner: for which times to live, and for    *)
(* which networks, its tasks have stopped before its lease ends.           *)
(***************************************************************************)
EXTENDS KeepAlive, TLAPS

(***************************************************************************)
(* What has to be assumed.                                                 *)
(***************************************************************************)

\* The longest time between a renewal of the lease and the moment at which the
\* loop gives up: the answer is slow, the timer runs, and if the stream can end
\* it is reset once more, by the end of the stream, until the next request.
Silence == AnswerWithin + TimeLimit + (IF StreamEnds THEN Interval ELSE 0)

\* The lease that etcd grants outlives the silence and the stopping of tasks,
\* as does one whose first call is not answered; and tasks need less time to
\* stop than the runner leaves them.
LeaseLongEnough ==
  /\ Silence + StopWithin < Granted
  /\ OpenWithin + StopWithin < Granted
  /\ StopWithin < Grace

(***************************************************************************)
(* The times, for the provers.                                             *)
(***************************************************************************)

LEMMA TimesAreNumbers ==
  /\ Granted \in Nat /\ Interval \in Nat /\ TimeLimit \in Nat /\ Grace \in Nat
  /\ Interval <= TimeLimit /\ Grace <= Interval /\ LeaseTtl \div 5 = Interval
  /\ Interval < TimeLimit
<1>1. /\ LeaseTtl \in Nat /\ Second \in Nat /\ Second >= 1 /\ MinLease \in Nat
      /\ LeaseTtl >= 1 /\ LeaseTtl % 10 = 0
  BY KeepAliveAssumption
<1>2. LeaseTtl >= 10
  BY <1>1
<1>3. AsSecs \in Nat
  BY <1>1 DEF AsSecs
<1>4. Granted \in Nat
  BY <1>1, <1>3 DEF Granted
<1> QED
  BY <1>1, <1>2, <1>4 DEF Interval, TimeLimit, Grace

(***************************************************************************)
(* Types.                                                                  *)
(***************************************************************************)

LEMMA TypeStep == TypeOK /\ [Next]_vars => TypeOK'
<1> SUFFICES ASSUME TypeOK, [Next]_vars PROVE TypeOK'
  OBVIOUS
<1> USE TimesAreNumbers, KeepAliveAssumption DEF TypeOK, InLoop
<1>1. CASE Connect
  BY <1>1 DEF Connect
<1>2. CASE Renew
  BY <1>2 DEF Renew
<1>3. CASE Opened \/ Ask \/ Wake
  BY <1>3 DEF Opened, Ask, Wake
<1>4. CASE Answered \/ EndOfStream
  BY <1>4 DEF Answered, EndOfStream, Success
<1>5. CASE Fails \/ Cancel
  <2>1. GiveUp /\ UNCHANGED <<lease, wire, transit, idle, working, linger>>
    BY <1>5 DEF Fails, Cancel
  <2> QED
    BY <2>1 DEF GiveUp
<1>6. CASE TasksStop
  BY <1>6 DEF TasksStop
<1>7. CASE Revoke
  BY <1>7 DEF Revoke
<1>8. CASE Tick
  <2>1. linger' \in 0 .. StopWithin
    BY <1>8 DEF Tick, NothingDue
  <2>2. idle' \in Nat /\ (InLoop' => idle' <= TimeLimit)
    BY <1>8 DEF Tick, NothingDue
  <2>3. transit' \in 0 .. AnswerWithin /\ lease' \in 0 .. Granted /\ nap' \in 0 .. Interval
    BY <1>8 DEF Tick, Less
  <2> QED
    BY <1>8, <2>1, <2>2, <2>3 DEF Tick
<1>9. CASE UNCHANGED vars
  BY <1>9 DEF vars
<1> QED
  BY <1>1, <1>2, <1>3, <1>4, <1>5, <1>6, <1>7, <1>8, <1>9 DEF Next

\* Every timer of the runner, and the answer on its way, stays within its
\* limit, and etcd keeps no lease longer than it granted it.
THEOREM TypeCorrect == Spec => []TypeOK
<1>1. Init => TypeOK
  <2> SUFFICES ASSUME Init PROVE TypeOK
    OBVIOUS
  <2>1. lease \in 0 .. Granted /\ nap \in 0 .. LeaseTtl \div 5
    BY TimesAreNumbers DEF Init
  <2>2. transit \in 0 .. AnswerWithin /\ linger \in 0 .. StopWithin
    BY KeepAliveAssumption DEF Init
  <2>3. cancelled \in BOOLEAN /\ working \in BOOLEAN
    BY DEF Init
  <2> QED
    BY <2>1, <2>2, <2>3 DEF Init, TypeOK, InLoop
<1> QED
  BY <1>1, TypeStep, PTL DEF Spec

(***************************************************************************)
(* The timer fires only while an answer is due.                            *)
(***************************************************************************)

\* Between an answer and the next request the timer and the sleep run together.
PauseInv ==
  /\ pc = "sleep" => idle + nap = Interval
  /\ pc = "ask" => idle <= Interval

LEMMA PauseStep == TypeOK /\ PauseInv /\ [Next]_vars => PauseInv'
<1> SUFFICES ASSUME TypeOK, PauseInv, [Next]_vars PROVE PauseInv'
  OBVIOUS
<1> USE TimesAreNumbers DEF TypeOK, InLoop, PauseInv
<1>1. CASE Connect \/ Renew \/ Ask \/ TasksStop \/ Revoke
  BY <1>1 DEF Connect, Renew, Ask, TasksStop, Revoke
<1>2. CASE Opened \/ Wake
  BY <1>2 DEF Opened, Wake
<1>3. CASE Answered \/ EndOfStream
  BY <1>3 DEF Answered, EndOfStream, Success
<1>4. CASE Fails \/ Cancel
  BY <1>4 DEF Fails, Cancel, GiveUp
<1>5. CASE Tick
  BY <1>5 DEF Tick, NothingDue, Less
<1>6. CASE UNCHANGED vars
  BY <1>6 DEF vars
<1> QED
  BY <1>1, <1>2, <1>3, <1>4, <1>5, <1>6 DEF Next

LEMMA PauseInvariant == Spec => []PauseInv
<1>1. Init => PauseInv
  BY DEF Init, PauseInv
<1> QED
  BY <1>1, TypeCorrect, PauseStep, PTL DEF Spec

\* A runner that is not waiting for an answer never gives its lease up for the
\* lack of one, whatever the time to live.
THEOREM TimerMeansSilence == Spec => []NoFalseAlarm
<1>1. TypeOK /\ PauseInv => NoFalseAlarm
  BY TimesAreNumbers, KeepAliveAssumption DEF TypeOK, PauseInv, NoFalseAlarm
<1> QED
  BY <1>1, TypeCorrect, PauseInvariant, PTL

(***************************************************************************)
(* The lease outlives the work.                                            *)
(***************************************************************************)

\* The lease has ended, or could have, only t ticks after it was renewed.
RenewedWithin(t) == lease + t >= Granted

\* Where the runner stands in the life of its lease.
StageInv ==
  /\ cancelled <=> pc \in {"grace", "done"}
  /\ ~cancelled => linger = 0
  /\ pc \in {"off", "done"} => ~working
  /\ pc = "off" => idle = 0
  /\ pc = "open" => idle <= OpenWithin
  /\ wire = "ended" => StreamEnds /\ pc \notin {"off", "open", "wait"}
  /\ pc = "grace" /\ working => nap + linger = Grace

\* How long ago etcd has renewed the lease at most.  An answer has been renewed
\* as long ago as it is on its way; the timer starts with an answer, or with
\* the end of the stream, at which it may have been running for its full time.
RenewalInv ==
  /\ wire = "answer" /\ pc \notin {"off", "done"} => RenewedWithin(transit)
  /\ pc = "open" => RenewedWithin(idle)
  /\ InLoop /\ wire # "ended" => RenewedWithin(idle + AnswerWithin)
  /\ InLoop /\ wire = "ended" => RenewedWithin(idle + AnswerWithin + TimeLimit)
  /\ pc = "grace" /\ working =>
       RenewedWithin(linger + Silence) \/ RenewedWithin(linger + OpenWithin)

LEMMA StageStep ==
  ASSUME LeaseLongEnough
  PROVE  TypeOK /\ StageInv /\ [Next]_vars => StageInv'
<1> SUFFICES ASSUME TypeOK, StageInv, [Next]_vars PROVE StageInv'
  OBVIOUS
<1> USE TimesAreNumbers, KeepAliveAssumption DEF TypeOK, InLoop, StageInv
<1>1. CASE Connect \/ Renew
  BY <1>1 DEF Connect, Renew
<1>2. CASE Opened \/ Ask \/ Wake
  BY <1>2 DEF Opened, Ask, Wake
<1>3. CASE Answered \/ EndOfStream
  BY <1>3 DEF Answered, EndOfStream, Success
<1>8. CASE Fails \/ Cancel
  <2>1. GiveUp /\ UNCHANGED <<lease, wire, transit, idle, working, linger>>
    BY <1>8 DEF Fails, Cancel
  <2>2. InLoop \/ pc = "open"
    BY <1>8 DEF Fails, Cancel
  <2> QED
    BY <2>1, <2>2 DEF GiveUp
<1>4. CASE TasksStop
  BY <1>4 DEF TasksStop
<1>5. CASE Revoke
  BY <1>5 DEF Revoke, LeaseLongEnough
<1>6. CASE Tick
  BY <1>6 DEF Tick, NothingDue, Less, LeaseLongEnough
<1>7. CASE UNCHANGED vars
  BY <1>7 DEF vars
<1> QED
  BY <1>1, <1>2, <1>3, <1>4, <1>5, <1>6, <1>7, <1>8 DEF Next

LEMMA RenewalStep ==
  TypeOK /\ PauseInv /\ StageInv /\ RenewalInv /\ [Next]_vars => RenewalInv'
<1> SUFFICES ASSUME TypeOK, PauseInv, StageInv, RenewalInv, [Next]_vars PROVE RenewalInv'
  OBVIOUS
<1> USE TimesAreNumbers, KeepAliveAssumption
    DEF TypeOK, InLoop, StageInv, RenewalInv, RenewedWithin
<1>1. CASE Connect
  BY <1>1 DEF Connect
<1>2. CASE Renew
  BY <1>2 DEF Renew
<1>3. CASE Opened
  BY <1>3 DEF Opened
<1>4. CASE Ask \/ Wake
  BY <1>4 DEF Ask, Wake
<1>5. CASE Answered
  BY <1>5 DEF Answered, Success
<1>6. CASE EndOfStream
  BY <1>6 DEF EndOfStream, Success
<1>7. CASE Fails \/ Cancel
  <2>1. GiveUp /\ UNCHANGED <<lease, wire, transit, idle, working, linger>>
    BY <1>7 DEF Fails, Cancel
  <2>2. (InLoop \/ pc = "open") /\ linger = 0
    BY <1>7 DEF Fails, Cancel
  <2>3. pc = "open" => RenewedWithin(linger + OpenWithin)
    BY <2>2
  <2>4. InLoop /\ wire # "ended" => RenewedWithin(linger + Silence)
    BY <2>2 DEF Silence
  <2>5. InLoop /\ wire = "ended" => RenewedWithin(linger + Silence)
    BY <2>2 DEF Silence, PauseInv
  <2> QED
    BY <2>1, <2>2, <2>3, <2>4, <2>5 DEF GiveUp
<1>8. CASE TasksStop \/ Revoke
  BY <1>8 DEF TasksStop, Revoke
<1>9. CASE Tick
  BY <1>9 DEF Tick, NothingDue, Less, Silence
<1>10. CASE UNCHANGED vars
  BY <1>10 DEF vars
<1> QED
  BY <1>1, <1>2, <1>3, <1>4, <1>5, <1>6, <1>7, <1>8, <1>9, <1>10 DEF Next

LEMMA RenewalInvariant ==
  ASSUME LeaseLongEnough
  PROVE  Spec => [](StageInv /\ RenewalInv)
<1>1. Init => StageInv /\ RenewalInv
  BY DEF Init, StageInv, RenewalInv, InLoop
<1> QED
  BY <1>1, TypeCorrect, PauseInvariant, StageStep, RenewalStep, PTL DEF Spec

\* For every time to live, and every network, with which the lease is long
\* enough: no task of the runner is at work when its lease ends, however the
\* requests, the answers, the end of the stream and a cancellation fall.
THEOREM WorkEndsFirst ==
  ASSUME LeaseLongEnough
  PROVE  Spec => []LeaseOutlivesWork
<1>1. TypeOK /\ PauseInv /\ StageInv /\ RenewalInv => LeaseOutlivesWork
  <2> SUFFICES ASSUME TypeOK, PauseInv, StageInv, RenewalInv, lease = 0, working
               PROVE  FALSE
    BY DEF LeaseOutlivesWork
  <2> USE TimesAreNumbers, KeepAliveAssumption
      DEF TypeOK, InLoop, StageInv, RenewalInv, RenewedWithin, LeaseLongEnough, Silence
  <2>1. CASE pc = "open"
    BY <2>1
  <2>2. CASE InLoop /\ wire # "ended"
    BY <2>2
  <2>3. CASE InLoop /\ wire = "ended"
    BY <2>3 DEF PauseInv
  <2>4. CASE pc = "grace"
    BY <2>4
  <2> QED
    BY <2>1, <2>2, <2>3, <2>4
<1> QED
  BY <1>1, TypeCorrect, PauseInvariant, RenewalInvariant, PTL
=============================================================================
