--------------------------- MODULE EventPumpProofs ---------------------------
(***************************************************************************)
(* Proofs about the way of a revision from etcd to the local net: however  *)
(* small the channels are, and however the watch, the main loop and the    *)
(* task are interleaved.                                                   *)
(***************************************************************************)
EXTENDS EventPump, SequenceTheorems, TLAPS

(***************************************************************************)
(* Numbers and sequences.                                                  *)
(***************************************************************************)

\* Greatest and smallest of sets of revisions.
LEMMA MaxOfTwo ==
  ASSUME NEW a \in Nat, NEW b \in Nat
  PROVE  Max({a, b}) = IF a >= b THEN a ELSE b
<1> DEFINE m == IF a >= b THEN a ELSE b
<1>1. m \in {a, b} /\ \A y \in {a, b} : m >= y
  OBVIOUS
<1>2. \A x \in {a, b} : (\A y \in {a, b} : x >= y) => x = m
  OBVIOUS
<1> HIDE DEF m
<1>3. Max({a, b}) = m
  BY <1>1, <1>2 DEF Max
<1> QED
  BY <1>3 DEF m

LEMMA MinOfTwo ==
  ASSUME NEW a \in Nat, NEW b \in Nat
  PROVE  Min({a, b}) = IF a <= b THEN a ELSE b
<1> DEFINE m == IF a <= b THEN a ELSE b
<1>1. m \in {a, b} /\ \A y \in {a, b} : m <= y
  OBVIOUS
<1>2. \A x \in {a, b} : (\A y \in {a, b} : x <= y) => x = m
  OBVIOUS
<1> HIDE DEF m
<1>3. Min({a, b}) = m
  BY <1>1, <1>2 DEF Min
<1> QED
  BY <1>3 DEF m

\* A sequence from position k + 1 on.
LEMMA RestOfSequence ==
  ASSUME NEW S, NEW s \in Seq(S), NEW k \in 1 .. Len(s),
         NEW r, r = SubSeq(s, k + 1, Len(s))
  PROVE  /\ r \in Seq(S) /\ Len(r) = Len(s) - k /\ DOMAIN r = 1 .. Len(s) - k
         /\ \A i \in 1 .. Len(s) - k : r[i] = s[k + i]
<1>1. Len(s) \in Nat /\ \A i \in 1 .. Len(s) : s[i] \in S
  OBVIOUS
<1> QED
  BY <1>1

\* The types of what is under way.
LEMMA UnderWay ==
  ASSUME TypeOK
  PROVE  /\ Len(log) \in Nat /\ read \in 0 .. Len(log) /\ read \in Nat
         /\ applied \in Nat /\ out \subseteq 1 .. read /\ out \subseteq Nat
         /\ events \in Seq(1 .. read) /\ Len(events) \in Nat /\ Len(events) <= Capacity
         /\ DOMAIN events = 1 .. Len(events)
         /\ \A i \in 1 .. Len(events) : events[i] \in 1 .. read
<1>1. log \in Seq(KindOfRevision) /\ read \in 0 .. Len(log) /\ applied \in 0 .. read
      /\ out \subseteq 1 .. read /\ events \in Seq(1 .. read) /\ Len(events) <= Capacity
  BY DEF TypeOK
<1>2. Len(log) \in Nat /\ Len(events) \in Nat
  BY <1>1
<1>3. read \in Nat /\ applied \in Nat /\ out \subseteq Nat
  BY <1>1, <1>2
<1>4. DOMAIN events = 1 .. Len(events) /\ \A i \in 1 .. Len(events) : events[i] \in 1 .. read
  BY <1>1
<1> QED
  BY <1>1, <1>2, <1>3, <1>4

(***************************************************************************)
(* The inductive invariant: the types, and what is under way.              *)
(***************************************************************************)

PumpInv == TypeOK /\ NothingLost

\* Etcd may go on; what the watch has read stays as it was.
LogGrows == log' = log \/ \E x \in KindOfRevision : log' = Append(log, x)

\* More revisions do not change what was reported of those before.
LEMMA GrownLog ==
  ASSUME TypeOK, LogGrows, read' = read
  PROVE  /\ log' \in Seq(KindOfRevision) /\ Len(log') \in {Len(log), Len(log) + 1}
         /\ \A a \in Nat : Reported(a + 1, read)' = Reported(a + 1, read)
<1>1. log \in Seq(KindOfRevision) /\ read \in 0 .. Len(log) /\ Len(log) \in Nat
  BY DEF TypeOK
<1>2. /\ log' \in Seq(KindOfRevision) /\ Len(log') \in {Len(log), Len(log) + 1}
      /\ \A i \in 1 .. Len(log) : log'[i] = log[i]
  BY <1>1, AppendProperties DEF LogGrows
<1>3. ASSUME NEW a \in Nat
      PROVE  {i \in a + 1 .. read : log'[i] # "other"} = {i \in a + 1 .. read : log[i] # "other"}
  BY <1>1, <1>2
<1> QED
  BY <1>2, <1>3 DEF Reported

\* What is under way does not change while the watch, the channel and the net
\* rest.
LEMMA NothingLostKept ==
  ASSUME PumpInv, LogGrows, UNCHANGED <<read, out, events, applied>>
  PROVE  NothingLost'
<1>1. TypeOK /\ NothingLost /\ applied \in Nat
  BY DEF PumpInv, TypeOK
<1>2. Reported(applied + 1, read)' = Reported(applied + 1, read)
  <2>1. read' = read /\ applied' = applied
    OBVIOUS
  <2>2. \A a \in Nat : Reported(a + 1, read)' = Reported(a + 1, read)
    BY <1>1, <2>1, GrownLog
  <2> QED
    BY <1>1, <2>1, <2>2 DEF Reported
<1> QED
  BY <1>1, <1>2 DEF NothingLost

(***************************************************************************)
(* The watcher and the main loop.                                          *)
(***************************************************************************)

\* The steps of the next-state relation, one by one.
LEMMA ReadStep ==
  ASSUME PumpInv, ReadResponse
  PROVE  PumpInv'
<1> USE DEF PumpInv, TypeOK
<1>1. PICK k \in read + 1 .. Len(log) :
        /\ read' = k
        /\ out' = Reported(read + 1, k)
        /\ ask' = (\E i \in read + 1 .. k : log[i] = "request")
  BY DEF ReadResponse
<1>2. /\ out = {} /\ UNCHANGED <<storeVars, events, requests, handling, loopVars, cached, minRev,
                                 taskVars>>
  BY DEF ReadResponse
<1>3. Len(log) \in Nat /\ read \in Nat /\ applied \in 0 .. read /\ k \in Nat /\ read < k
  BY <1>1
<1>4. out' \in SUBSET (1 .. k) /\ \A x \in out' : x > read
  BY <1>1, <1>3 DEF Reported
<1>5. events \in Seq(1 .. k)
  <2>1. events \in Seq(1 .. read) /\ 1 .. read \subseteq 1 .. k
    BY <1>3
  <2> QED
    BY <2>1, SeqDef
<1>6. ask' \in BOOLEAN
  BY <1>1
<1>7. TypeOK'
  BY <1>1, <1>2, <1>3, <1>4, <1>5, <1>6 DEF storeVars, loopVars, taskVars
<1>8. Reported(applied + 1, k) = Reported(applied + 1, read) \cup Reported(read + 1, k)
  BY <1>3 DEF Reported
<1>9. \A i \in DOMAIN events : events[i] \in 1 .. read
  OBVIOUS
<1>10. NothingLost'
  <2>1. events' = events /\ applied' = applied /\ log' = log
    BY <1>2 DEF loopVars, storeVars
  <2>2. Range(events) = Reported(applied + 1, read)
    BY <1>2 DEF NothingLost
  <2>3. \A i \in DOMAIN events, x \in out' : events[i] < x
    BY <1>3, <1>4, <1>9
  <2>4. \A i, j \in DOMAIN events : i < j => events[i] < events[j]
    BY DEF NothingLost
  <2>5. Reported(applied + 1, read)' = Reported(applied + 1, k)
    BY <1>1, <2>1 DEF Reported
  <2> QED
    BY <1>1, <1>8, <2>1, <2>2, <2>3, <2>4, <2>5 DEF NothingLost
<1> QED
  BY <1>7, <1>10

LEMMA SendStep ==
  ASSUME PumpInv, SendEvent
  PROVE  PumpInv'
<1>1. PICK x \in out :
        /\ \A y \in out : x <= y
        /\ Len(events) < Capacity /\ events' = Append(events, x)
        /\ out' = out \ {x}
  BY DEF SendEvent, Sends
<1>2. UNCHANGED <<storeVars, read, ask, requests, handling, loopVars, cached, minRev, taskVars>>
  BY DEF SendEvent
<1>3. PICK n : n = Len(events)
  OBVIOUS
<1>4. /\ n \in Nat /\ events \in Seq(1 .. read) /\ DOMAIN events = 1 .. n
      /\ out \subseteq Nat /\ \A i \in 1 .. n : events[i] \in Nat
      /\ x \in 1 .. read
  BY <1>3, UnderWay DEF PumpInv
<1>5. /\ events' \in Seq(1 .. read) /\ Len(events') = n + 1 /\ DOMAIN events' = 1 .. n + 1
      /\ \A i \in 1 .. n : events'[i] = events[i]
      /\ events'[n + 1] = x
  BY <1>1, <1>3, <1>4, AppendProperties
<1>6. TypeOK'
  BY <1>1, <1>2, <1>3, <1>4, <1>5, EventPumpAssumption
     DEF PumpInv, TypeOK, EventPumpAssumption, storeVars, loopVars, taskVars
<1>7. /\ Range(events) \cup out = Reported(applied + 1, read)
      /\ \A i, j \in 1 .. n : i < j => events[i] < events[j]
      /\ \A i \in 1 .. n, y \in out : events[i] < y
  BY <1>4 DEF PumpInv, NothingLost
<1>8. Range(events') = Range(events) \cup {x}
  <2>1. 1 .. n + 1 = (1 .. n) \cup {n + 1}
    BY <1>4
  <2>2. Range(events) = {events[i] : i \in 1 .. n}
    BY <1>4 DEF Range
  <2>3. Range(events') = {events'[i] : i \in (1 .. n) \cup {n + 1}}
    BY <1>5, <2>1 DEF Range
  <2> QED
    BY <1>5, <2>2, <2>3
<1>9. Range(events') \cup out' = Reported(applied + 1, read)
  BY <1>1, <1>7, <1>8
<1>10. ASSUME NEW i \in 1 .. n + 1, NEW j \in 1 .. n + 1, i < j
       PROVE  events'[i] < events'[j]
  <2>1. i \in 1 .. n /\ events'[i] = events[i]
    BY <1>4, <1>5, <1>10
  <2>2. CASE j = n + 1
    BY <1>5, <1>7, <2>1, <2>2
  <2>3. CASE j # n + 1
    <3>1. j \in 1 .. n /\ events'[j] = events[j]
      BY <1>4, <1>5, <1>10, <2>3
    <3> QED
      BY <1>7, <1>10, <2>1, <3>1
  <2> QED
    BY <2>2, <2>3
<1>11. ASSUME NEW i \in 1 .. n + 1, NEW y \in out'
       PROVE  events'[i] < y
  <2>1. y \in out /\ x < y
    BY <1>1, <1>4, <1>11
  <2>2. CASE i = n + 1
    BY <1>5, <2>1, <2>2
  <2>3. CASE i # n + 1
    <3>1. i \in 1 .. n
      BY <1>4, <1>11, <2>3
    <3> QED
      BY <1>5, <1>7, <2>1, <3>1
  <2> QED
    BY <2>2, <2>3
<1>12. Reported(applied + 1, read)' = Reported(applied + 1, read)
  BY <1>2 DEF Reported, storeVars, loopVars
<1>13. NothingLost'
  BY <1>5, <1>9, <1>10, <1>11, <1>12 DEF NothingLost
<1> QED
  BY <1>6, <1>13 DEF PumpInv

LEMMA ApplyStep ==
  ASSUME PumpInv, Apply
  PROVE  PumpInv'
<1>1. PICK k : k = Min({Batch, Len(events)})
  OBVIOUS
<1>2. PICK n : n = Len(events)
  OBVIOUS
<1>3. /\ events # <<>> /\ applied' = events[k] /\ events' = SubSeq(events, k + 1, n)
      /\ writing' = TRUE
      /\ UNCHANGED <<storeVars, read, out, ask, requests, handling, reported, cached, minRev,
                     taskVars>>
  BY <1>1, <1>2 DEF Apply
<1>4. /\ n \in Nat /\ n >= 1 /\ events \in Seq(1 .. read) /\ DOMAIN events = 1 .. n
      /\ \A i \in 1 .. n : events[i] \in 1 .. read
      /\ read \in Nat /\ applied \in Nat /\ out \subseteq Nat /\ n <= Capacity
  <2>1. n # 0
    <3>1. events \in Seq(1 .. read)
      BY UnderWay DEF PumpInv
    <3> QED
      BY <1>2, <1>3, <3>1, EmptySeq
  <2> QED
    BY <1>2, <2>1, UnderWay DEF PumpInv
<1>5. k \in 1 .. n
  <2>1. Batch \in Nat /\ Batch >= 1
    BY EventPumpAssumption DEF EventPumpAssumption
  <2>2. k = IF Batch <= n THEN Batch ELSE n
    BY <1>1, <1>2, <1>4, <2>1, MinOfTwo
  <2> QED
    BY <1>4, <2>1, <2>2
<1>6. /\ events' \in Seq(1 .. read) /\ Len(events') = n - k /\ DOMAIN events' = 1 .. n - k
      /\ \A i \in 1 .. n - k : events'[i] = events[k + i]
  <2>1. PICK r : r = SubSeq(events, k + 1, n)
    OBVIOUS
  <2>2. r \in Seq(1 .. read) /\ Len(r) = n - k /\ DOMAIN r = 1 .. n - k
        /\ \A i \in 1 .. n - k : r[i] = events[k + i]
    BY <1>2, <1>4, <1>5, <2>1, RestOfSequence
  <2> QED
    BY <1>3, <2>1, <2>2
<1>7. /\ Range(events) \cup out = Reported(applied + 1, read)
      /\ \A i, j \in 1 .. n : i < j => events[i] < events[j]
      /\ \A i \in 1 .. n, y \in out : events[i] < y
  BY <1>4 DEF PumpInv, NothingLost
<1>8. PICK e : e = events[k]
  OBVIOUS
<1>9. e \in applied + 1 .. read
  BY <1>4, <1>5, <1>7, <1>8 DEF Range, Reported
<1>10. TypeOK'
  <2>1. applied' \in 0 .. read /\ reported \in 0 .. applied'
    <3>1. reported \in 0 .. applied /\ applied' = e
      BY <1>3, <1>8 DEF PumpInv, TypeOK
    <3> QED
      BY <1>4, <1>9, <3>1
  <2>2. events' \in Seq(1 .. read) /\ Len(events') <= Capacity
    BY <1>4, <1>5, <1>6, EventPumpAssumption DEF EventPumpAssumption
  <2>3. /\ log' \in Seq(KindOfRevision) /\ foreign' \in 0 .. MaxForeign
        /\ read' \in 0 .. Len(log') /\ out' \in SUBSET (1 .. read') /\ ask' \in BOOLEAN
        /\ minRev' \in 0 .. Len(log') /\ need' \in 0 .. Len(log')
    <3>1. /\ log \in Seq(KindOfRevision) /\ foreign \in 0 .. MaxForeign
          /\ read \in 0 .. Len(log) /\ out \in SUBSET (1 .. read) /\ ask \in BOOLEAN
          /\ minRev \in 0 .. Len(log) /\ need \in 0 .. Len(log)
      BY DEF PumpInv, TypeOK
    <3>2. UNCHANGED <<log, foreign, read, out, ask, minRev, need>>
      BY <1>3 DEF storeVars, taskVars
    <3> QED
      BY <3>1, <3>2
  <2>4. /\ requests' \in 0 .. Capacity /\ handling' \in BOOLEAN /\ writing' \in BOOLEAN
        /\ cached' \in BOOLEAN /\ rounds' \in 0 .. MaxRounds
        /\ pc' \in {"idle", "call", "wait", "sync", "check", "run", "end"}
    BY <1>3 DEF PumpInv, TypeOK, taskVars
  <2>5. read' = read /\ reported' = reported
    BY <1>3
  <2> QED
    BY <2>1, <2>2, <2>3, <2>4, <2>5 DEF TypeOK
<1>11. ASSUME NEW x \in Range(events') \cup out PROVE x \in Reported(e + 1, read)
  <2>1. x > e /\ x \in Range(events) \cup out
    <3>1. CASE x \in out
      BY <1>4, <1>5, <1>7, <1>8, <3>1
    <3>2. CASE x \in Range(events')
      <4>1. PICK i \in 1 .. n - k : x = events[k + i]
        BY <1>6, <3>2 DEF Range
      <4>2. PICK j : j = k + i
        OBVIOUS
      <4>3. j \in 1 .. n /\ k < j
        BY <1>4, <1>5, <4>2
      <4> QED
        BY <1>4, <1>5, <1>7, <1>8, <4>1, <4>2, <4>3 DEF Range
    <3> QED
      BY <1>11, <3>1, <3>2
  <2> QED
    BY <1>4, <1>7, <1>9, <2>1 DEF Reported
<1>12. ASSUME NEW x \in Reported(e + 1, read) PROVE x \in Range(events') \cup out
  <2>1. x \in Reported(applied + 1, read) /\ x > e /\ x \in Nat
    BY <1>4, <1>9, <1>12 DEF Reported
  <2>2. ASSUME x \in Range(events) PROVE x \in Range(events')
    <3>1. PICK i \in 1 .. n : x = events[i]
      BY <1>4, <2>2 DEF Range
    <3>2. i > k
      <4>1. events[k] < events[i]
        BY <1>8, <2>1, <3>1
      <4>2. i < k => events[i] < events[k]
        BY <1>5, <1>7
      <4> QED
        BY <1>4, <1>5, <4>1, <4>2
    <3>3. PICK j : j = i - k
      OBVIOUS
    <3>4. j \in 1 .. n - k /\ k + j = i
      BY <1>4, <1>5, <3>2, <3>3
    <3>5. j \in DOMAIN events' /\ events'[j] = x
      BY <1>6, <3>1, <3>4
    <3> QED
      BY <3>5 DEF Range
  <2> QED
    BY <1>7, <2>1, <2>2
<1>13. Range(events') \cup out = Reported(e + 1, read)
  BY <1>11, <1>12
<1>14. ASSUME NEW i \in 1 .. n - k, NEW j \in 1 .. n - k, i < j
       PROVE  events'[i] < events'[j]
  <2>1. k + i \in 1 .. n /\ k + j \in 1 .. n /\ k + i < k + j
    BY <1>4, <1>5, <1>14
  <2> QED
    BY <1>6, <1>7, <2>1
<1>15. ASSUME NEW i \in 1 .. n - k, NEW y \in out PROVE events'[i] < y
  <2>1. k + i \in 1 .. n
    BY <1>4, <1>5
  <2> QED
    BY <1>6, <1>7, <2>1
<1>16. Reported(applied + 1, read)' = Reported(e + 1, read)
  BY <1>3, <1>8 DEF Reported, storeVars
<1>17. NothingLost'
  BY <1>3, <1>6, <1>13, <1>14, <1>15, <1>16 DEF NothingLost
<1> QED
  BY <1>10, <1>17 DEF PumpInv

(***************************************************************************)
(* The other steps: etcd may go on.                                        *)
(***************************************************************************)

LEMMA OtherStep ==
  ASSUME PumpInv,
         \/ Others \/ SendRequest \/ Report \/ TakeRequest \/ GiveBack \/ BeginLock \/ Task
         \/ UNCHANGED vars
  PROVE  PumpInv'
<1> USE EventPumpAssumption DEF PumpInv, EventPumpAssumption
<1>1. LogGrows /\ UNCHANGED <<read, out, events, applied>>
  BY DEF LogGrows, Others, SendRequest, Report, TakeRequest, GiveBack, BeginLock, Task,
     PutLockKey, Granted, Synced, Start, Finish, Ended, Transaction, KindOfRevision,
     vars, storeVars, watchVars, loopVars
<1>2. /\ log' \in Seq(KindOfRevision) /\ Len(log') \in {Len(log), Len(log) + 1}
      /\ Len(log) \in Nat
  BY <1>1, GrownLog DEF TypeOK
<1>3. minRev' \in 0 .. Len(log') /\ need' \in 0 .. Len(log')
  <2>1. CASE Start
    <3>1. minRev' \in {minRev, Max({minRev, Len(log')})} /\ need' = need
      BY <2>1 DEF Start
    <3>2. minRev \in 0 .. Len(log) /\ need \in 0 .. Len(log) /\ minRev \in Nat
          /\ Len(log') \in Nat /\ Len(log) <= Len(log')
      BY <1>2 DEF TypeOK
    <3>3. Max({minRev, Len(log')}) = Len(log')
      <4>1. PICK l \in Nat : l = Len(log')
        BY <3>2
      <4>2. Max({minRev, l}) = IF minRev >= l THEN minRev ELSE l
        BY <3>2, MaxOfTwo
      <4> QED
        BY <1>2, <3>2, <4>1, <4>2
    <3> QED
      BY <1>2, <3>1, <3>2, <3>3
  <2>2. CASE ~Start
    <3>1. minRev' \in {minRev, Len(log')} /\ need' \in {need, Len(log')}
      BY <2>2 DEF Others, SendRequest, Report, TakeRequest, GiveBack, BeginLock, Task,
         PutLockKey, Granted, Synced, Finish, Ended, vars, storeVars, taskVars
    <3>2. minRev \in 0 .. Len(log) /\ need \in 0 .. Len(log)
      BY DEF TypeOK
    <3> QED
      BY <1>2, <3>1, <3>2
  <2> QED
    BY <2>1, <2>2
<1>4. /\ foreign' \in 0..MaxForeign /\ rounds' \in 0..MaxRounds
      /\ pc' \in {"idle", "call", "wait", "sync", "check", "run", "end"}
  <2>1. /\ foreign \in 0..MaxForeign /\ rounds \in 0..MaxRounds
        /\ pc \in {"idle", "call", "wait", "sync", "check", "run", "end"}
    BY DEF TypeOK
  <2>2. CASE Task
    BY <2>1, <2>2 DEF Task, PutLockKey, Granted, Synced, Start, Finish, Ended, Goto, storeVars
  <2>3. CASE ~Task
    BY <2>1, <2>3 DEF Others, SendRequest, Report, TakeRequest, GiveBack, BeginLock, Goto, vars,
       storeVars, taskVars
  <2> QED
    BY <2>2, <2>3
<1>5. /\ ask' \in BOOLEAN /\ requests' \in 0..Capacity /\ handling' \in BOOLEAN
      /\ writing' \in BOOLEAN /\ cached' \in BOOLEAN /\ reported' \in 0..applied
  <2>1. /\ ask \in BOOLEAN /\ requests \in 0..Capacity /\ handling \in BOOLEAN
        /\ writing \in BOOLEAN /\ cached \in BOOLEAN /\ reported \in 0..applied
        /\ applied \in Nat
    BY UnderWay DEF TypeOK
  <2>2. requests' \in 0..Capacity /\ reported' \in 0..applied
    BY <2>1 DEF Others, SendRequest, Report, TakeRequest, GiveBack, BeginLock, Task, PutLockKey,
       Granted, Synced, Start, Finish, Ended, vars, watchVars, loopVars
  <2>3. ask' \in BOOLEAN /\ handling' \in BOOLEAN
    BY <2>1 DEF Others, SendRequest, Report, TakeRequest, GiveBack, BeginLock, Task, PutLockKey,
       Granted, Synced, Start, Finish, Ended, vars, watchVars
  <2>4. writing' \in BOOLEAN /\ cached' \in BOOLEAN
    BY <2>1 DEF Others, SendRequest, Report, TakeRequest, GiveBack, BeginLock, Task, PutLockKey,
       Granted, Synced, Start, Finish, Ended, vars, loopVars
  <2> QED
    BY <2>2, <2>3, <2>4
<1>6. read \in 0 .. Len(log')
  BY <1>2 DEF TypeOK
<1>7. TypeOK'
  BY <1>1, <1>2, <1>3, <1>4, <1>5, <1>6 DEF TypeOK
<1> QED
  BY <1>1, <1>7, NothingLostKept

\* PumpInv is an invariant.
LEMMA InitPump ==
  ASSUME Init
  PROVE  PumpInv
<1> USE DEF Init
<1>1. TypeOK
  <2>1. log \in Seq(KindOfRevision) /\ Len(log) = 0
    OBVIOUS
  <2>2. events \in Seq(1 .. read) /\ Len(events) = 0
    OBVIOUS
  <2>3. /\ read \in 0 .. Len(log) /\ out \in SUBSET (1 .. read) /\ applied \in 0 .. read
        /\ reported \in 0 .. applied /\ minRev \in 0 .. Len(log) /\ need \in 0 .. Len(log)
    BY <2>1
  <2>4. /\ foreign \in 0..MaxForeign /\ requests \in 0..Capacity /\ rounds \in 0..MaxRounds
        /\ Len(events) <= Capacity
    BY <2>2, EventPumpAssumption DEF EventPumpAssumption
  <2>5. /\ ask \in BOOLEAN /\ handling \in BOOLEAN /\ writing \in BOOLEAN /\ cached \in BOOLEAN
        /\ pc \in {"idle", "call", "wait", "sync", "check", "run", "end"}
    OBVIOUS
  <2> HIDE DEF Init
  <2> QED
    BY <2>1, <2>2, <2>3, <2>4, <2>5 DEF TypeOK
<1>2. Range(events) = {} /\ DOMAIN events = {} /\ Reported(applied + 1, read) = {}
  BY DEF Range, Reported
<1>3. NothingLost
  BY <1>2 DEF NothingLost
<1> QED
  BY <1>1, <1>3 DEF PumpInv

LEMMA PumpInvariance == Spec => []PumpInv
<1>1. PumpInv /\ [Next]_vars => PumpInv'
  BY ReadStep, SendStep, ApplyStep, OtherStep DEF Next, Watcher, MainLoop
<1> QED
  BY <1>1, InitPump, PTL DEF Spec

(***************************************************************************)
(* The theorems.                                                           *)
(***************************************************************************)

\* Every variable always has its type: the channels keep to their capacity, the
\* net is never ahead of the watch, the watch never ahead of etcd, and no
\* revision is reported to the tasks before it is applied.
THEOREM TypeCorrect == Spec => []TypeOK
<1>1. PumpInv => TypeOK
  BY DEF PumpInv
<1> QED
  BY <1>1, PumpInvariance, PTL

\* With channels and batches of any size, what the watch has reported and the
\* local net has not applied is under way, once and in order.
THEOREM NoRevisionIsLost == Spec => []NothingLost
<1>1. PumpInv => NothingLost
  BY DEF PumpInv
<1> QED
  BY <1>1, PumpInvariance, PTL
=============================================================================
