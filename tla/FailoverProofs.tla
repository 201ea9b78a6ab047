--------------------------- MODULE FailoverProofs ---------------------------
(***************************************************************************)
(* Proofs about the change of runners in a region: what a runner that has  *)
(* gone still sends changes nothing, and tokens are neither doubled nor    *)
(* taken twice, until a commit that carries no fencing token comes after   *)
(* the lease of its runner is gone.                                        *)
(***************************************************************************)
EXTENDS Failover, SequenceTheorems, TLAPS

(***************************************************************************)
(* Types.                                                                  *)
(***************************************************************************)

\* f has a value for each runner and each of its transitions.
ByTask(f) == f = [n \in Node |-> [tr \in TransitionsOf(n) |-> f[n][tr]]]

LEMMA HeadOfRemove ==
  ASSUME NEW s \in Seq(Node), NEW i \in DOMAIN s
  PROVE  /\ RemoveAt(s, i) \in Seq(Node)
         /\ Head(s) # s[i] => RemoveAt(s, i) # <<>> /\ Head(RemoveAt(s, i)) = Head(s)
<1> DEFINE before == SubSeq(s, 1, i - 1)  after == SubSeq(s, i + 1, Len(s))
<1>1. i \in 1 .. Len(s) /\ Len(s) \in Nat
  OBVIOUS
<1>2. before \in Seq(Node) /\ Len(before) = i - 1 /\ \A j \in 1 .. i - 1 : before[j] = s[j]
  BY <1>1, SubSeqProperties
<1>3. after \in Seq(Node)
  BY <1>1, SubSeqProperties
<1>4. /\ before \o after \in Seq(Node) /\ Len(before \o after) >= i - 1
      /\ \A j \in 1 .. i - 1 : (before \o after)[j] = before[j]
  BY <1>2, <1>3, ConcatProperties
<1>5. CASE i = 1
  BY <1>4, <1>5 DEF RemoveAt
<1>6. CASE i # 1
  BY <1>1, <1>2, <1>4, <1>6 DEF RemoveAt
<1> QED
  BY <1>5, <1>6

LEMMA HeadOfAppend ==
  ASSUME NEW s \in Seq(Node), NEW n \in Node
  PROVE  /\ Append(s, n) \in Seq(Node)
         /\ s # <<>> => Append(s, n) # <<>> /\ Head(Append(s, n)) = Head(s)
OBVIOUS

\* The task of n for tr.
TaskFits(n, tr) ==
  /\ pc[n][tr] \in Ops \cup {"spawned", "returned", "idle", "run"}
  /\ firing[n][tr] \in {Nothing} \cup Token \X Place
  /\ pc[n][tr] # "spawned" => status[n] = "up"
  /\ pc[n][tr] \in {"start", "run", "end"} => firing[n][tr] \in Token \X Place

TasksFit == \A n \in Node : \A tr \in TransitionsOf(n) : TaskFits(n, tr)

\* The other types.
StoreTypes ==
  /\ tokens \subseteq Token \X Place
  /\ taken \subseteq Token \X Place \X Transition
  /\ lease \subseteq Node
  /\ election \in [Region -> Seq(Node)]
  /\ by \in [Token -> Node \cup {NoNode}]
  /\ slipped \in BOOLEAN

NodeTypes ==
  /\ status \in [Node -> {"off", "campaigning", "elected", "up", "stopped"}]
  /\ view \in [Node -> [tokens : SUBSET (Token \X Place),
                        taken : SUBSET (Token \X Place \X Transition)]]
  /\ ByTask(pc) /\ ByTask(firing)

SentTypes == sent \subseteq RequestType /\ \A q \in sent : q.tr \in TransitionsOf(q.node)

TypeInv == StoreTypes /\ NodeTypes /\ SentTypes /\ TasksFit

LEMMA TypesFit == TypeInv => TypeOK
BY DEF TypeInv, TypeOK, StoreTypes, NodeTypes, SentTypes, TasksFit, TaskFits, TransitionsOf

\* One task gets a new value.
SetTask(f, n, tr, v) == [f EXCEPT ![n][tr] = v]

LEMMA SetOneTask ==
  ASSUME NEW f, ByTask(f), NEW n \in Node, NEW tr \in TransitionsOf(n), NEW v
  PROVE  /\ ByTask(SetTask(f, n, tr, v)) /\ SetTask(f, n, tr, v)[n][tr] = v
         /\ \A m \in Node : \A u \in TransitionsOf(m) :
              m # n \/ u # tr => SetTask(f, n, tr, v)[m][u] = f[m][u]
<1> DEFINE g == SetTask(f, n, tr, v)
<1>1. DOMAIN f = Node /\ \A m \in Node : f[m] = [u \in TransitionsOf(m) |-> f[m][u]]
  BY DEF ByTask
<1>2. g = [m \in Node |-> IF m = n THEN [f[n] EXCEPT ![tr] = v] ELSE f[m]]
  BY <1>1 DEF SetTask, ByTask
<1>3. g[n] = [u \in TransitionsOf(n) |-> IF u = tr THEN v ELSE f[n][u]]
  BY <1>1, <1>2
<1>4. \A m \in Node : m # n => g[m] = [u \in TransitionsOf(m) |-> f[m][u]]
  BY <1>1, <1>2
<1>5. \A m \in Node : g[m] = [u \in TransitionsOf(m) |-> g[m][u]]
  BY <1>3, <1>4
<1> HIDE DEF g
<1>6. g = [m \in Node |-> g[m]]
  BY <1>2
<1>7. ByTask(g)
  BY <1>5, <1>6 DEF ByTask
<1>8. g[n][tr] = v
  BY <1>3
<1>9. ASSUME NEW m \in Node, NEW u \in TransitionsOf(m), m # n \/ u # tr
      PROVE  g[m][u] = f[m][u]
  <2>1. CASE m = n
    BY <1>3, <1>9, <2>1
  <2>2. CASE m # n
    BY <1>4, <1>9, <2>2
  <2> QED
    BY <2>1, <2>2
<1> QED
  BY <1>7, <1>8, <1>9 DEF g

LEMMA ResetTasks ==
  ASSUME ByTask(pc), ByTask(firing), NEW n \in Node, Dropped(n)
  PROVE  /\ ByTask(pc)' /\ ByTask(firing)'
         /\ \A tr \in TransitionsOf(n) : pc'[n][tr] = "spawned" /\ firing'[n][tr] = Nothing
         /\ \A m \in Node : \A u \in TransitionsOf(m) :
              m # n => pc'[m][u] = pc[m][u] /\ firing'[m][u] = firing[m][u]
BY DEF ByTask, Dropped

LEMMA KeysType ==
  ASSUME StoreTypes, NodeTypes, NEW n \in Node, view' = [view EXCEPT ![n] = Keys]
  PROVE  view' \in [Node -> [tokens : SUBSET (Token \X Place),
                             taken : SUBSET (Token \X Place \X Transition)]]
BY DEF StoreTypes, NodeTypes, Keys

\* A task sends a request of its own, or goes on by itself.
LEMMA SetTaskFits ==
  ASSUME TypeInv, NEW n \in Node, NEW tr \in TransitionsOf(n),
         status' = status, status[n] = "up",
         pc'[n][tr] \in Ops \cup {"spawned", "returned", "idle", "run"},
         firing'[n][tr] \in {Nothing} \cup Token \X Place,
         pc'[n][tr] \in {"start", "run", "end"} => firing'[n][tr] \in Token \X Place,
         \A m \in Node : \A u \in TransitionsOf(m) :
           m # n \/ u # tr => pc'[m][u] = pc[m][u] /\ firing'[m][u] = firing[m][u]
  PROVE  TasksFit'
BY DEF TypeInv, TasksFit, TaskFits

LEMMA DroppedTypes ==
  ASSUME TypeInv, NEW n \in Node, Dropped(n)
  PROVE  NodeTypes' /\ TasksFit'
<1>1. ByTask(pc) /\ ByTask(firing) /\ NodeTypes /\ TasksFit
  BY DEF TypeInv, NodeTypes
<1>2. /\ ByTask(pc)' /\ ByTask(firing)'
      /\ \A tr \in TransitionsOf(n) : pc'[n][tr] = "spawned" /\ firing'[n][tr] = Nothing
      /\ \A m \in Node : \A u \in TransitionsOf(m) :
           m # n => pc'[m][u] = pc[m][u] /\ firing'[m][u] = firing[m][u]
  BY <1>1, ResetTasks
<1>4. status' \in [Node -> {"off", "campaigning", "elected", "up", "stopped"}]
  BY <1>1 DEF NodeTypes, Dropped
<1>5. \A m \in Node \ {n} : status'[m] = status[m]
  BY <1>1 DEF NodeTypes, Dropped
<1>6. view' \in [Node -> [tokens : SUBSET (Token \X Place),
                          taken : SUBSET (Token \X Place \X Transition)]]
  BY <1>1 DEF NodeTypes, Dropped
<1>7. TasksFit'
  BY <1>1, <1>2, <1>5 DEF TasksFit, TaskFits
<1> QED
  BY <1>2, <1>4, <1>6, <1>7 DEF NodeTypes

\* What a runner does before its tasks run, and at its end.
LEMMA LifeTypes ==
  ASSUME TypeInv, NEW n \in Node,
         \/ Campaign(n) \/ Elected(n) \/ Load(n) \/ Refresh(n) \/ Stop(n) \/ LoseLease(n)
  PROVE  TypeInv'
<1>1. StoreTypes /\ NodeTypes /\ SentTypes /\ TasksFit
  BY DEF TypeInv
<1>2. SentTypes'
  BY <1>1 DEF Campaign, Elected, Load, Refresh, Stop, LoseLease, SentTypes, RequestType
<1>3. CASE Campaign(n)
  <2>1. election' \in [Region -> Seq(Node)]
    BY <1>1, <1>3, FailoverAssumption, HeadOfAppend DEF Campaign, StoreTypes
  <2>2. StoreTypes'
    BY <1>1, <1>3, <2>1 DEF Campaign, StoreTypes
  <2>3. NodeTypes'
    BY <1>1, <1>3 DEF Campaign, NodeTypes, ByTask
  <2>4. TasksFit'
    BY <1>1, <1>3 DEF Campaign, NodeTypes, TasksFit, TaskFits
  <2> QED
    BY <1>2, <2>2, <2>3, <2>4 DEF TypeInv
<1>4. CASE Elected(n)
  <2>1. StoreTypes' /\ NodeTypes'
    BY <1>1, <1>4 DEF Elected, etcdVars, StoreTypes, NodeTypes, ByTask
  <2>2. TasksFit'
    BY <1>1, <1>4 DEF Elected, NodeTypes, TasksFit, TaskFits
  <2> QED
    BY <1>2, <2>1, <2>2 DEF TypeInv
<1>5. CASE Load(n)
  <2>1. StoreTypes' /\ NodeTypes'
    BY <1>1, <1>5, KeysType DEF Load, etcdVars, StoreTypes, NodeTypes, ByTask
  <2>2. TasksFit'
    BY <1>1, <1>5 DEF Load, NodeTypes, TasksFit, TaskFits
  <2> QED
    BY <1>2, <2>1, <2>2 DEF TypeInv
<1>6. CASE Refresh(n)
  <2>1. StoreTypes' /\ NodeTypes'
    BY <1>1, <1>6, KeysType DEF Refresh, etcdVars, StoreTypes, NodeTypes, ByTask
  <2>2. TasksFit'
    BY <1>1, <1>6 DEF Refresh, TasksFit, TaskFits
  <2> QED
    BY <1>2, <2>1, <2>2 DEF TypeInv
<1>7. CASE Stop(n)
  <2>1. StoreTypes'
    BY <1>1, <1>7 DEF Stop, etcdVars, StoreTypes
  <2> QED
    BY <1>2, <1>7, <2>1, DroppedTypes DEF Stop, TypeInv
<1>8. CASE LoseLease(n)
  <2>1. election' \in [Region -> Seq(Node)]
    BY <1>1, <1>8, FailoverAssumption, HeadOfRemove DEF LoseLease, StoreTypes
  <2>2. StoreTypes'
    BY <1>1, <1>8, <2>1 DEF LoseLease, StoreTypes
  <2>3. NodeTypes' /\ TasksFit'
    BY <1>1, <1>8 DEF LoseLease, nodeVars, NodeTypes, ByTask, TasksFit, TaskFits
  <2> QED
    BY <1>2, <2>2, <2>3 DEF TypeInv
<1> QED
  BY <1>3, <1>4, <1>5, <1>6, <1>7, <1>8

\* A task of n sends a request about a token at a place.
LEMMA SendTypes ==
  ASSUME TypeInv, NEW n \in Node, NEW tr \in TransitionsOf(n), status[n] = "up",
         NEW op \in Ops, NEW t \in Token, NEW p \in Place, NEW to \in Place \cup {Nothing},
         Send(Request(op, n, tr, t, p, to)), status' = status,
         ByTask(firing)', firing'[n][tr] \in {Nothing} \cup Token \X Place,
         op \in {"start", "end"} => firing'[n][tr] \in Token \X Place,
         \A m \in Node : \A u \in TransitionsOf(m) :
           m # n \/ u # tr => firing'[m][u] = firing[m][u]
  PROVE  SentTypes' /\ ByTask(pc)' /\ TasksFit' /\ pc'[n][tr] = op
<1> DEFINE q == Request(op, n, tr, t, p, to)
<1>1. q \in RequestType /\ q.node = n /\ q.tr = tr /\ q.op = op
  BY DEF Request, RequestType, TransitionsOf
<1>2. sent' = sent \cup {q} /\ pc' = [pc EXCEPT ![n][tr] = op]
  BY <1>1 DEF Send
<1>3. SentTypes'
  <2>1. sent' \subseteq RequestType
    BY <1>1, <1>2 DEF TypeInv, SentTypes
  <2>2. \A r \in sent' : r.tr \in TransitionsOf(r.node)
    BY <1>1, <1>2 DEF TypeInv, SentTypes
  <2> QED
    BY <2>1, <2>2 DEF SentTypes, RequestType, TransitionsOf
<1>4. /\ op \in Ops \cup {"spawned", "returned", "idle", "run"}
      /\ op \in {"start", "run", "end"} => firing'[n][tr] \in Token \X Place
  BY DEF Ops
<1>5. /\ ByTask(pc)' /\ pc'[n][tr] = op
      /\ \A m \in Node : \A u \in TransitionsOf(m) : m # n \/ u # tr => pc'[m][u] = pc[m][u]
  <2>1. ByTask(pc) /\ pc' = SetTask(pc, n, tr, op)
    BY <1>2 DEF TypeInv, NodeTypes, SetTask
  <2> QED
    BY <2>1, SetOneTask
<1> QED
  BY <1>3, <1>4, <1>5, SetTaskFits

LEMMA TaskTypes ==
  ASSUME TypeInv, NEW n \in Node, NEW tr \in TransitionsOf(n),
         CancelRunning(n, tr) \/ BeginStart(n, tr) \/ BeginFinish(n, tr) \/ Returned(n, tr)
  PROVE  TypeInv'
<1>1. StoreTypes /\ NodeTypes /\ SentTypes /\ TasksFit /\ ByTask(firing) /\ tr \in Transition
  BY DEF TypeInv, NodeTypes, TransitionsOf
<1>2. CASE CancelRunning(n, tr)
  <2>1. StoreTypes'
    BY <1>1, <1>2 DEF CancelRunning, etcdVars, StoreTypes
  <2>2. /\ status' = status /\ view' = view /\ firing' = firing /\ status[n] = "up"
        /\ pc[n][tr] = "spawned" /\ ByTask(firing)' /\ TaskFits(n, tr)
    BY <1>1, <1>2 DEF CancelRunning, ByTask, TasksFit
  <2>3. CASE pc' = [pc EXCEPT ![n][tr] = "idle"] /\ UNCHANGED sent
    <3>1. /\ ByTask(pc)' /\ pc'[n][tr] = "idle"
          /\ \A m \in Node : \A u \in TransitionsOf(m) : m # n \/ u # tr => pc'[m][u] = pc[m][u]
      <4>1. ByTask(pc) /\ pc' = SetTask(pc, n, tr, "idle")
        BY <1>1, <2>3 DEF NodeTypes, SetTask
      <4> QED
        BY <4>1, SetOneTask
    <3>3. TasksFit'
      BY <2>2, <3>1, SetTaskFits DEF TaskFits
    <3>2. SentTypes'
      BY <1>1, <2>3 DEF SentTypes, RequestType
    <3> QED
      BY <1>1, <2>1, <2>2, <3>1, <3>2, <3>3 DEF TypeInv, NodeTypes
  <2>4. ASSUME NEW k \in LeftTaken(n, tr), Send(Request("return", n, tr, k[1], k[2], k[2]))
        PROVE  TypeInv'
    <3>1. k[1] \in Token /\ k[2] \in Place
      BY <1>1 DEF LeftTaken, NodeTypes
    <3>2. SentTypes' /\ ByTask(pc)' /\ TasksFit'
      BY <2>2, <2>4, <3>1, SendTypes DEF TaskFits, Ops
    <3> QED
      BY <1>1, <2>1, <2>2, <3>2 DEF TypeInv, NodeTypes
  <2> QED
    BY <1>2, <2>3, <2>4 DEF CancelRunning
<1>3. CASE BeginStart(n, tr)
  <2>1. StoreTypes'
    BY <1>1, <1>3 DEF BeginStart, etcdVars, StoreTypes
  <2>2. PICK t \in Token : /\ firing' = [firing EXCEPT ![n][tr] = <<t, In[tr]>>]
                           /\ Send(Request("start", n, tr, t, In[tr], In[tr]))
    BY <1>3 DEF BeginStart
  <2>3. In[tr] \in Place
    BY <1>1, FailoverAssumption
  <2>4. status' = status /\ view' = view /\ status[n] = "up"
    BY <1>3 DEF BeginStart
  <2>5. /\ ByTask(firing)' /\ firing'[n][tr] = <<t, In[tr]>>
        /\ \A m \in Node : \A u \in TransitionsOf(m) :
             m # n \/ u # tr => firing'[m][u] = firing[m][u]
    <3>1. firing' = SetTask(firing, n, tr, <<t, In[tr]>>)
      BY <2>2 DEF SetTask
    <3> QED
      BY <1>1, <3>1, SetOneTask
  <2>6. SentTypes' /\ ByTask(pc)' /\ TasksFit'
    <3>1. "start" \in Ops /\ In[tr] \in Place \cup {Nothing}
          /\ firing'[n][tr] \in Token \X Place
      BY <2>3, <2>5 DEF Ops
    <3> QED
      BY <2>2, <2>3, <2>4, <2>5, <3>1, SendTypes
  <2> QED
    BY <1>1, <2>1, <2>4, <2>5, <2>6 DEF TypeInv, NodeTypes
<1>4. CASE BeginFinish(n, tr)
  <2>1. StoreTypes'
    BY <1>1, <1>4 DEF BeginFinish, etcdVars, StoreTypes
  <2>2. firing[n][tr] \in Token \X Place /\ Out[tr] \in Place
    BY <1>1, <1>4, FailoverAssumption DEF BeginFinish, TasksFit, TaskFits
  <2>3. PICK to \in Place \cup {Nothing} :
          Send(Request("end", n, tr, firing[n][tr][1], firing[n][tr][2], to))
    BY <1>4, <2>2 DEF BeginFinish
  <2>4. status' = status /\ view' = view /\ status[n] = "up" /\ firing' = firing /\ ByTask(firing)'
    BY <1>1, <1>4 DEF BeginFinish, ByTask
  <2>5. SentTypes' /\ ByTask(pc)' /\ TasksFit'
    BY <2>2, <2>3, <2>4, SendTypes DEF Ops
  <2> QED
    BY <1>1, <2>1, <2>4, <2>5 DEF TypeInv, NodeTypes
<1>5. CASE Returned(n, tr)
  <2>1. StoreTypes' /\ SentTypes'
    BY <1>1, <1>5 DEF Returned, etcdVars, StoreTypes, SentTypes, RequestType
  <2>2. /\ status' = status /\ status[n] = "up" /\ firing' = firing /\ ByTask(firing)'
        /\ pc' = [pc EXCEPT ![n][tr] = "idle"] /\ TaskFits(n, tr)
    BY <1>1, <1>5 DEF Returned, ByTask, TasksFit
  <2>3. /\ ByTask(pc)' /\ pc'[n][tr] = "idle"
        /\ \A m \in Node : \A u \in TransitionsOf(m) : m # n \/ u # tr => pc'[m][u] = pc[m][u]
    <3>1. ByTask(pc) /\ pc' = SetTask(pc, n, tr, "idle")
      BY <1>1, <2>2 DEF NodeTypes, SetTask
    <3> QED
      BY <3>1, SetOneTask
  <2>4. TasksFit'
    BY <2>2, <2>3, SetTaskFits DEF TaskFits
  <2> QED
    BY <1>1, <1>5, <2>1, <2>2, <2>3, <2>4, KeysType DEF Returned, TypeInv, NodeTypes
<1> QED
  BY <1>2, <1>3, <1>4, <1>5

LEMMA RefuseTypes ==
  ASSUME TypeInv, NEW q \in sent, Refuse(q)
  PROVE  TypeInv'
<1>1. StoreTypes' /\ SentTypes' /\ q.node \in Node
  BY DEF TypeInv, Refuse, etcdVars, StoreTypes, SentTypes, RequestType
<1>2. CASE status[q.node] = "up"
  BY <1>1, <1>2, DroppedTypes DEF Refuse, TypeInv
<1>3. CASE status[q.node] # "up"
  <2>1. NodeTypes' /\ TasksFit'
    BY <1>3 DEF Refuse, nodeVars, TypeInv, NodeTypes, ByTask, TasksFit, TaskFits
  <2> QED
    BY <1>1, <2>1 DEF TypeInv
<1> QED
  BY <1>2, <1>3

\* Where the task goes when its request is answered.
After(q) == CASE q.op = "start" -> "run" [] q.op = "return" -> "returned" [] OTHER -> "idle"

\* Requests come from tasks that wait for their answer, unless their runner has
\* stopped, and no task has two.
AskedInv ==
  /\ \A q \in sent :
       /\ status[q.node] \in {"up", "stopped"}
       /\ status[q.node] = "up" => pc[q.node][q.tr] = q.op
  /\ \A q, r \in sent : q.node = r.node /\ q.tr = r.tr => q = r

\* An answer lets the task go on that has asked, and no other.
LEMMA AnswerTypes ==
  ASSUME TypeInv, AskedInv, NEW q \in sent, Apply(q)
  PROVE  /\ ByTask(pc)' /\ ByTask(firing)' /\ TasksFit' /\ status' = status
         /\ status[q.node] = "up" =>
              /\ pc'[q.node][q.tr] = After(q)
              /\ firing'[q.node][q.tr] =
                   (IF q.op = "start" THEN firing[q.node][q.tr] ELSE Nothing)
         /\ \A m \in Node : \A u \in TransitionsOf(m) :
              m # q.node \/ u # q.tr \/ status[q.node] # "up" =>
                pc'[m][u] = pc[m][u] /\ firing'[m][u] = firing[m][u]
<1> DEFINE n == q.node  tr == q.tr
<1>1. /\ q.op \in Ops /\ n \in Node /\ tr \in TransitionsOf(n) /\ TasksFit
      /\ ByTask(pc) /\ ByTask(firing) /\ status' = status
  BY DEF TypeInv, SentTypes, RequestType, NodeTypes, Apply
<1>2. CASE status[n] # "up"
  BY <1>1, <1>2 DEF Apply, Answer, ByTask, TasksFit, TaskFits
<1>3. CASE status[n] = "up"
  <2>1. pc' = [pc EXCEPT ![n][tr] = After(q)]
    BY <1>3 DEF Apply, Answer, After
  <2>2. pc[n][tr] = q.op /\ (q.op = "start" => firing[n][tr] \in Token \X Place)
    BY <1>1, <1>3 DEF AskedInv, TasksFit, TaskFits
  <2>3. /\ ByTask(firing)'
        /\ firing'[n][tr] = (IF q.op = "start" THEN firing[n][tr] ELSE Nothing)
        /\ \A m \in Node : \A u \in TransitionsOf(m) :
             m # n \/ u # tr => firing'[m][u] = firing[m][u]
    <3>1. CASE q.op = "start"
      BY <1>1, <3>1 DEF Apply, Answer, ByTask
    <3>2. CASE q.op # "start"
      <4>1. firing' = [firing EXCEPT ![n][tr] = Nothing]
        BY <1>3, <3>2 DEF Apply, Answer
      <4>2. /\ ByTask(firing)' /\ firing'[n][tr] = Nothing
            /\ \A m \in Node : \A u \in TransitionsOf(m) :
                 m # n \/ u # tr => firing'[m][u] = firing[m][u]
        <5>1. firing' = SetTask(firing, n, tr, Nothing)
          BY <4>1 DEF SetTask
        <5> QED
          BY <1>1, <5>1, SetOneTask
      <4> QED
        BY <3>2, <4>2
    <3> QED
      BY <3>1, <3>2
  <2>4. /\ After(q) \in Ops \cup {"spawned", "returned", "idle", "run"}
        /\ firing'[n][tr] \in {Nothing} \cup Token \X Place
        /\ After(q) \in {"start", "run", "end"} => firing'[n][tr] \in Token \X Place
    BY <1>1, <2>2, <2>3 DEF After, Ops
  <2>5. /\ ByTask(pc)' /\ pc'[n][tr] = After(q)
        /\ \A m \in Node : \A u \in TransitionsOf(m) : m # n \/ u # tr => pc'[m][u] = pc[m][u]
    <3>1. pc' = SetTask(pc, n, tr, After(q))
      BY <2>1 DEF SetTask
    <3> QED
      BY <1>1, <3>1, SetOneTask
  <2>6. TasksFit'
    BY <1>1, <1>3, <2>3, <2>4, <2>5, SetTaskFits
  <2> QED
    BY <1>1, <1>3, <2>3, <2>5, <2>6
<1> QED
  BY <1>2, <1>3

LEMMA ApplyTypes ==
  ASSUME TypeInv, AskedInv, NEW q \in sent, Apply(q)
  PROVE  TypeInv'
<1>1. /\ q.node \in Node /\ q.tr \in Transition /\ q.token \in Token
      /\ q.from \in Place /\ q.to \in Place \cup {Nothing}
      /\ StoreTypes /\ NodeTypes /\ SentTypes
  BY DEF TypeInv, SentTypes, RequestType
<1>2. StoreTypes'
  <2>1. tokens' \subseteq Token \X Place
    BY <1>1 DEF Apply, Effect, StoreTypes
  <2>2. taken' \subseteq Token \X Place \X Transition
    BY <1>1 DEF Apply, Effect, StoreTypes
  <2>3. by' \in [Token -> Node \cup {NoNode}]
    BY <1>1 DEF Apply, StoreTypes
  <2>4. slipped' \in BOOLEAN
    BY DEF Apply
  <2> QED
    BY <1>1, <2>1, <2>2, <2>3, <2>4 DEF Apply, StoreTypes
<1>3. SentTypes'
  BY <1>1 DEF Apply, SentTypes, RequestType
<1> QED
  BY <1>1, <1>2, <1>3, AnswerTypes DEF Apply, TypeInv, NodeTypes

LEMMA AskedStep ==
  ASSUME TypeInv, AskedInv, [Next]_vars
  PROVE  AskedInv'
<1>0. NodeTypes /\ SentTypes /\ TasksFit /\ ByTask(pc) /\ ByTask(firing)
  BY DEF TypeInv, NodeTypes
<1>1. ASSUME NEW n \in Node,
             \/ Campaign(n) \/ Elected(n) \/ Load(n) \/ Refresh(n) \/ LoseLease(n)
      PROVE  AskedInv'
  <2>1. /\ sent' = sent /\ pc' = pc
        /\ \A m \in Node : status[m] \in {"up", "stopped"} => status'[m] = status[m]
    BY <1>0, <1>1 DEF Campaign, Elected, Load, Refresh, LoseLease, nodeVars, NodeTypes
  <2>2. \A m \in Node : status'[m] = "up" => status[m] = "up" \/ status[m] = "elected"
    BY <1>0, <1>1 DEF Campaign, Elected, Load, Refresh, LoseLease, nodeVars, NodeTypes
  <2> QED
    BY <1>0, <2>1, <2>2 DEF AskedInv, SentTypes, RequestType
<1>2. ASSUME NEW n \in Node, Dropped(n), status[n] # "off", sent' \subseteq sent
      PROVE  AskedInv'
  <2>1. \A m \in Node : status'[m] = IF m = n THEN "stopped" ELSE status[m]
    BY <1>0, <1>2 DEF Dropped, NodeTypes
  <2>2. \A m \in Node : \A u \in TransitionsOf(m) : m # n => pc'[m][u] = pc[m][u]
    BY <1>0, <1>2, ResetTasks
  <2>3. \A q \in sent' : q.node \in Node /\ q.tr \in TransitionsOf(q.node)
    BY <1>0, <1>2 DEF SentTypes, RequestType
  <2> QED
    BY <1>2, <2>1, <2>2, <2>3 DEF AskedInv
<1>3. ASSUME NEW n \in Node, Stop(n) PROVE AskedInv'
  BY <1>2, <1>3 DEF Stop
<1>4. ASSUME NEW n \in Node, NEW tr \in TransitionsOf(n),
             status' = status, status[n] = "up",
             \A q \in sent : q.node # n \/ q.tr # tr,
             \A m \in Node : \A u \in TransitionsOf(m) :
               m # n \/ u # tr => pc'[m][u] = pc[m][u],
             \A q \in sent' \ sent : q.node = n /\ q.tr = tr /\ q.op = pc'[n][tr],
             \A q, r \in sent' \ sent : q = r
      PROVE  AskedInv'
  <2>1. \A q \in sent : q.node \in Node /\ q.tr \in TransitionsOf(q.node)
    BY <1>0 DEF SentTypes, RequestType
  <2> QED
    BY <1>4, <2>1 DEF AskedInv
<1>5. ASSUME NEW n \in Node, NEW tr \in TransitionsOf(n),
             CancelRunning(n, tr) \/ BeginStart(n, tr) \/ BeginFinish(n, tr) \/ Returned(n, tr)
      PROVE  AskedInv'
  <2>1. /\ status' = status /\ status[n] = "up"
        /\ pc[n][tr] \notin Ops
    BY <1>5 DEF CancelRunning, BeginStart, BeginFinish, Returned, Ops
  <2>2. \A q \in sent : q.node # n \/ q.tr # tr
    BY <1>0, <2>1 DEF AskedInv, SentTypes, RequestType
  <2>3. CASE pc' = [pc EXCEPT ![n][tr] = "idle"] /\ sent' = sent
    <3>1. \A m \in Node : \A u \in TransitionsOf(m) : m # n \/ u # tr => pc'[m][u] = pc[m][u]
      <4>1. pc' = SetTask(pc, n, tr, "idle")
        BY <2>3 DEF SetTask
      <4> QED
        BY <1>0, <4>1, SetOneTask
    <3> QED
      BY <1>4, <2>1, <2>2, <2>3, <3>1
  <2>4. ASSUME NEW op, NEW t, NEW p, NEW to, Send(Request(op, n, tr, t, p, to))
        PROVE  AskedInv'
    <3> DEFINE q == Request(op, n, tr, t, p, to)
    <3>1. q.node = n /\ q.tr = tr /\ q.op = op
      BY DEF Request
    <3>2. pc' = [pc EXCEPT ![n][tr] = op] /\ sent' = sent \cup {q}
      BY <2>4, <3>1 DEF Send
    <3> HIDE DEF q
    <3>3. /\ pc'[n][tr] = op
          /\ \A m \in Node : \A u \in TransitionsOf(m) : m # n \/ u # tr => pc'[m][u] = pc[m][u]
      <4>1. pc' = SetTask(pc, n, tr, op)
        BY <3>2 DEF SetTask
      <4> QED
        BY <1>0, <4>1, SetOneTask
    <3> QED
      BY <1>4, <2>1, <2>2, <3>1, <3>2, <3>3
  <2> QED
    BY <1>5, <2>3, <2>4 DEF CancelRunning, BeginStart, BeginFinish, Returned
<1>6. ASSUME NEW q \in sent, Refuse(q) PROVE AskedInv'
  <2>1. q.node \in Node /\ sent' \subseteq sent
    BY <1>0, <1>6 DEF SentTypes, RequestType, Refuse
  <2> QED
    BY <1>2, <1>6, <2>1 DEF Refuse, nodeVars, AskedInv
<1>7. ASSUME NEW q \in sent, Apply(q) PROVE AskedInv'
  <2>1. \A r \in sent' : r \in sent /\ r # q /\ r.node \in Node /\ r.tr \in TransitionsOf(r.node)
    BY <1>0, <1>7 DEF SentTypes, RequestType, Apply
  <2>2. \A r \in sent' : r.node # q.node \/ r.tr # q.tr
    BY <2>1 DEF AskedInv
  <2>3. \A r \in sent' : pc'[r.node][r.tr] = pc[r.node][r.tr] /\ status' = status
    BY <1>7, <2>1, <2>2, AnswerTypes
  <2> QED
    BY <2>1, <2>3 DEF AskedInv
<1>8. CASE UNCHANGED vars
  BY <1>8 DEF vars, nodeVars, AskedInv
<1> QED
  BY <1>1, <1>3, <1>5, <1>6, <1>7, <1>8 DEF Next

LEMMA TypeInvariant == Spec => [](TypeInv /\ AskedInv)
<1>1. Init => TypeInv /\ AskedInv
  <2> SUFFICES ASSUME Init PROVE TypeInv /\ AskedInv
    OBVIOUS
  <2>1. StoreTypes
    <3>1. slipped \in BOOLEAN
      BY DEF Init
    <3>2. election \in [Region -> Seq(Node)]
      BY EmptySeq DEF Init
    <3> QED
      BY <3>1, <3>2, FailoverAssumption DEF Init, StoreTypes
  <2>2. NodeTypes
    <3>1. Keys \in [tokens : SUBSET (Token \X Place), taken : SUBSET (Token \X Place \X Transition)]
      BY <2>1 DEF Keys, StoreTypes
    <3>2. ByTask(pc) /\ ByTask(firing)
      BY DEF Init, ByTask
    <3> QED
      BY <3>1, <3>2 DEF Init, NodeTypes
  <2>3. SentTypes /\ AskedInv
    BY DEF Init, SentTypes, AskedInv
  <2>4. TasksFit
    BY DEF Init, TasksFit, TaskFits
  <2> QED
    BY <2>1, <2>2, <2>3, <2>4 DEF TypeInv
<1>2. TypeInv /\ AskedInv /\ [Next]_vars => TypeInv'
  <2> SUFFICES ASSUME TypeInv, AskedInv, [Next]_vars PROVE TypeInv'
    OBVIOUS
  <2>1. CASE UNCHANGED vars
    BY <2>1 DEF vars, etcdVars, nodeVars, TypeInv, StoreTypes, NodeTypes, ByTask, SentTypes,
                RequestType, TasksFit, TaskFits
  <2> QED
    BY <2>1, LifeTypes, TaskTypes, ApplyTypes, RefuseTypes DEF Next
<1> QED
  BY <1>1, <1>2, AskedStep, PTL DEF Spec

\* The keys, leases and elections in etcd and the state of all tasks always
\* have their types, and only tasks of a runner that is up are under way.
THEOREM TypeCorrect == Spec => []TypeOK
BY TypeInvariant, TypesFit, PTL

(***************************************************************************)
(* One runner of a region at a time.                                       *)
(***************************************************************************)

\* The runner n works, or has worked, with a lease that lives.
Rules(n) == n \in lease /\ (status[n] \in {"elected", "up"} \/ \E q \in sent : q.node = n)

\* It is the one that has been elected.
LeaderInv ==
  /\ \A n \in Node : Rules(n) => IsLeader(n)
  /\ \A n \in lease : status[n] # "off"

LEMMA OneLeader ==
  ASSUME LeaderInv, NEW m \in Node, NEW n \in Node, Rules(m), Rules(n), RegionOf[m] = RegionOf[n]
  PROVE  m = n
BY DEF LeaderInv, IsLeader

LEMMA LeaderStep ==
  ASSUME TypeInv, AskedInv, LeaderInv, [Next]_vars
  PROVE  LeaderInv'
<1>0. /\ StoreTypes /\ NodeTypes /\ SentTypes
      /\ \A q \in sent : q.node \in Node
  BY DEF TypeInv, SentTypes, RequestType
<1>1. ASSUME UNCHANGED <<lease, election>>,
             \A n \in lease : n \in Node /\ status'[n] # "off",
             \A n \in Node : Rules(n)' => Rules(n) \/ IsLeader(n)
      PROVE  LeaderInv'
  BY <1>1 DEF LeaderInv, IsLeader
<1>2. ASSUME NEW n \in Node, Campaign(n) PROVE LeaderInv'
  <2>1. /\ \A g \in Region : election[g] \in Seq(Node)
        /\ RegionOf[n] \in Region
        /\ status' = [status EXCEPT ![n] = "campaigning"]
        /\ election' = [election EXCEPT ![RegionOf[n]] = Append(election[RegionOf[n]], n)]
    BY <1>0, <1>2, FailoverAssumption DEF Campaign, StoreTypes
  <2>2. \A m \in Node : IsLeader(m) => IsLeader(m)'
    BY <1>0, <2>1, FailoverAssumption, HeadOfAppend DEF IsLeader, StoreTypes
  <2>3. status'[n] = "campaigning" /\ \A m \in Node \ {n} : status'[m] = status[m]
    BY <1>0, <2>1 DEF NodeTypes
  <2>4. ~Rules(n)'
    BY <1>0, <1>2, <2>3 DEF Rules, Campaign, AskedInv
  <2>5. \A m \in Node \ {n} : Rules(m)' => Rules(m)
    BY <1>2, <2>3 DEF Rules, Campaign
  <2>6. \A m \in lease' : status'[m] # "off"
    BY <1>0, <1>2, <2>3 DEF LeaderInv, Campaign, StoreTypes
  <2> QED
    BY <2>2, <2>4, <2>5, <2>6 DEF LeaderInv
<1>3. ASSUME NEW n \in Node, LoseLease(n) PROVE LeaderInv'
  <2>1. PICK i \in DOMAIN election[RegionOf[n]] :
          /\ election[RegionOf[n]][i] = n
          /\ election' = [election EXCEPT ![RegionOf[n]] = RemoveAt(election[RegionOf[n]], i)]
    BY <1>3 DEF LoseLease
  <2>2. /\ \A g \in Region : election[g] \in Seq(Node)
        /\ \A m \in Node : RegionOf[m] \in Region
    BY <1>0, FailoverAssumption DEF StoreTypes
  <2>3. ASSUME NEW m \in Node \ {n}, IsLeader(m) PROVE IsLeader(m)'
    <3>1. CASE RegionOf[m] # RegionOf[n]
      BY <1>0, <2>1, <2>2, <2>3, <3>1 DEF IsLeader, StoreTypes
    <3>2. CASE RegionOf[m] = RegionOf[n]
      <4> DEFINE s == election[RegionOf[n]]
      <4>1. s \in Seq(Node) /\ Head(s) = m /\ s # <<>>
        BY <2>2, <2>3, <3>2 DEF IsLeader
      <4>2. RemoveAt(s, i) # <<>> /\ Head(RemoveAt(s, i)) = m
        BY <2>1, <2>3, <4>1, HeadOfRemove
      <4>3. election'[RegionOf[m]] = RemoveAt(s, i)
        BY <1>0, <2>1, <2>2, <3>2 DEF StoreTypes
      <4> QED
        BY <4>2, <4>3 DEF IsLeader
    <3> QED
      BY <3>1, <3>2
  <2>4. lease' = lease \ {n} /\ status' = status /\ sent' = sent
    BY <1>3 DEF LoseLease, nodeVars
  <2> QED
    BY <2>3, <2>4 DEF LeaderInv, Rules
<1>4. ASSUME NEW n \in Node, Elected(n) \/ Load(n) \/ Refresh(n) \/ Stop(n) PROVE LeaderInv'
  <2>1. UNCHANGED <<lease, election, sent>>
    BY <1>4 DEF Elected, Load, Refresh, Stop, etcdVars
  <2>2. /\ \A m \in Node \ {n} : status'[m] = status[m]
        /\ status[n] # "off" /\ status'[n] # "off"
        /\ status'[n] \in {"elected", "up"} =>
             status[n] \in {"elected", "up"} \/ IsLeader(n)
    BY <1>0, <1>4 DEF Elected, Load, Refresh, Stop, Dropped, NodeTypes
  <2>3. \A m \in Node : Rules(m)' => Rules(m) \/ IsLeader(m)
    BY <2>1, <2>2 DEF Rules
  <2>4. \A m \in lease : m \in Node /\ status'[m] # "off"
    BY <1>0, <2>2 DEF LeaderInv, StoreTypes
  <2> QED
    BY <1>1, <2>1, <2>3, <2>4
<1>5. ASSUME NEW n \in Node, NEW tr \in TransitionsOf(n),
             CancelRunning(n, tr) \/ BeginStart(n, tr) \/ BeginFinish(n, tr) \/ Returned(n, tr)
      PROVE  LeaderInv'
  <2>1. UNCHANGED <<lease, election, status>> /\ status[n] = "up"
    BY <1>5 DEF CancelRunning, BeginStart, BeginFinish, Returned, etcdVars
  <2>2. \A q \in sent' : q \in sent \/ q.node = n
    <3>1. \A op, t, p, to : Request(op, n, tr, t, p, to).node = n
      BY DEF Request
    <3>2. CASE CancelRunning(n, tr)
      <4>1. ASSUME NEW k, Send(Request("return", n, tr, k[1], k[2], k[2]))
            PROVE  \A q \in sent' : q \in sent \/ q.node = n
        BY <3>1, <4>1 DEF Send
      <4> QED
        BY <3>2, <4>1 DEF CancelRunning
    <3>3. CASE BeginStart(n, tr)
      BY <3>1, <3>3 DEF BeginStart, Send
    <3>4. CASE BeginFinish(n, tr)
      <4>1. PICK to : Send(Request("end", n, tr, firing[n][tr][1], firing[n][tr][2], to))
        BY <3>4 DEF BeginFinish
      <4> QED
        BY <3>1, <4>1 DEF Send
    <3>5. CASE Returned(n, tr)
      BY <3>5 DEF Returned
    <3> QED
      BY <1>5, <3>2, <3>3, <3>4, <3>5
  <2>3. \A m \in Node : Rules(m)' => Rules(m)
    BY <2>1, <2>2 DEF Rules
  <2> QED
    BY <1>0, <1>1, <2>1, <2>3 DEF LeaderInv, StoreTypes
<1>6. ASSUME NEW q \in sent, Apply(q) \/ Refuse(q) PROVE LeaderInv'
  <2>1. UNCHANGED <<lease, election>> /\ sent' \subseteq sent
    BY <1>6 DEF Apply, Refuse, etcdVars
  <2>2. \A m \in Node : status'[m] = status[m] \/ (status'[m] = "stopped" /\ status[m] # "off")
    BY <1>0, <1>6 DEF Apply, Refuse, Dropped, nodeVars, NodeTypes
  <2>3. \A m \in Node : Rules(m)' => Rules(m)
    BY <2>1, <2>2 DEF Rules
  <2> QED
    BY <1>0, <1>1, <2>1, <2>2, <2>3 DEF LeaderInv, StoreTypes
<1>7. CASE UNCHANGED vars
  BY <1>7 DEF vars, etcdVars, nodeVars, LeaderInv, Rules, IsLeader
<1> QED
  BY <1>2, <1>3, <1>4, <1>5, <1>6, <1>7 DEF Next

LEMMA LeaderInvariant == Spec => []LeaderInv
<1>1. Init => LeaderInv
  BY DEF Init, LeaderInv, Rules
<1> QED
  BY <1>1, TypeInvariant, LeaderStep, PTL DEF Spec

(***************************************************************************)
(* The lock of an in place.                                                *)
(***************************************************************************)

\* Two starts of runners with leases are about different places.
LockInv ==
  \A q, r \in sent :
    q.op = "start" /\ r.op = "start" /\ q.from = r.from /\ {q.node, r.node} \subseteq lease =>
      q = r

\* A step that sends no start.
LEMMA LocksStay ==
  ASSUME AskedInv, LockInv,
         \A q \in sent' : q \in sent \/ q.op # "start",
         \A n \in lease' : n \in lease \/ status[n] = "off"
  PROVE  LockInv'
<1>1. ASSUME NEW q \in sent, q.node \in lease' PROVE q.node \in lease
  BY <1>1 DEF AskedInv
<1> QED
  BY <1>1 DEF LockInv

LEMMA LockStep ==
  ASSUME TypeInv, AskedInv, LockInv, [Next]_vars
  PROVE  LockInv'
<1>0. \A op, n, tr, t, p, to :
        /\ Request(op, n, tr, t, p, to).op = op /\ Request(op, n, tr, t, p, to).node = n
        /\ Request(op, n, tr, t, p, to).from = p
  BY DEF Request
<1>1. ASSUME NEW n \in Node,
             \/ Campaign(n) \/ Elected(n) \/ Load(n) \/ Refresh(n) \/ Stop(n) \/ LoseLease(n)
      PROVE  LockInv'
  <2>1. sent' = sent /\ \A m \in lease' : m \in lease \/ status[m] = "off"
    BY <1>1 DEF Campaign, Elected, Load, Refresh, Stop, LoseLease, etcdVars
  <2> QED
    BY <2>1, LocksStay
<1>2. ASSUME NEW n \in Node, NEW tr \in TransitionsOf(n), BeginStart(n, tr) PROVE LockInv'
  <2>1. PICK t \in Token : Send(Request("start", n, tr, t, In[tr], In[tr]))
    BY <1>2 DEF BeginStart
  <2> DEFINE r == Request("start", n, tr, t, In[tr], In[tr])
  <2>2. sent' = sent \cup {r} /\ r.node = n /\ r.from = In[tr] /\ lease' = lease
    BY <1>0, <1>2, <2>1 DEF Send, BeginStart, etcdVars
  <2> HIDE DEF r
  <2>3. \A q \in sent : q.op = "start" /\ q.from = In[tr] => ~({q.node, n} \subseteq lease)
    BY <1>2 DEF BeginStart, LockFree, LocksPlace
  <2> QED
    BY <2>2, <2>3 DEF LockInv
<1>3. ASSUME NEW n \in Node, NEW tr \in TransitionsOf(n),
             CancelRunning(n, tr) \/ BeginFinish(n, tr) \/ Returned(n, tr)
      PROVE  LockInv'
  <2>1. lease' = lease
    BY <1>3 DEF CancelRunning, BeginFinish, Returned, etcdVars
  <2>2. \A q \in sent' : q \in sent \/ q.op # "start"
    <3>1. ASSUME NEW op \in {"return", "end"}, NEW t, NEW p, NEW to,
                 Send(Request(op, n, tr, t, p, to)), NEW q \in sent', q \notin sent
          PROVE  q.op # "start"
      BY <1>0, <3>1 DEF Send
    <3>2. CASE CancelRunning(n, tr)
      <4>1. ASSUME NEW k, Send(Request("return", n, tr, k[1], k[2], k[2]))
            PROVE  \A q \in sent' : q \in sent \/ q.op # "start"
        BY <3>1, <4>1
      <4> QED
        BY <3>2, <4>1 DEF CancelRunning
    <3>3. CASE BeginFinish(n, tr)
      <4>1. PICK to : Send(Request("end", n, tr, firing[n][tr][1], firing[n][tr][2], to))
        BY <3>3 DEF BeginFinish
      <4> QED
        BY <3>1, <4>1
    <3>4. CASE Returned(n, tr)
      BY <3>4 DEF Returned
    <3> QED
      BY <1>3, <3>2, <3>3, <3>4
  <2> QED
    BY <2>1, <2>2, LocksStay
<1>4. ASSUME NEW q \in sent, Apply(q) \/ Refuse(q) PROVE LockInv'
  <2>1. lease' = lease /\ sent' \subseteq sent
    BY <1>4 DEF Apply, Refuse, etcdVars
  <2> QED
    BY <2>1, LocksStay
<1>5. CASE UNCHANGED vars
  BY <1>5 DEF vars, etcdVars, LockInv
<1> QED
  BY <1>1, <1>2, <1>3, <1>4, <1>5 DEF Next

LEMMA LockInvariant == Spec => []LockInv
<1>1. Init => LockInv
  BY DEF Init, LockInv
<1> QED
  BY <1>1, TypeInvariant, LockStep, PTL DEF Spec

(***************************************************************************)
(* Until a commit slips through, what a runner with a living lease sends   *)
(* is right.                                                               *)
(***************************************************************************)

\* Tokens are taken by the transition of their place.
TakenInv == InOnePlace /\ \A k \in taken : k[2] = In[k[3]]

\* The request q fits what etcd holds: the token of a start is there and free,
\* that of an end has been taken by the runner that ends the firing.
RequestRight(q) ==
  /\ q.from = In[q.tr] /\ <<q.token, q.from>> \in tokens
  /\ q.op = "start" =>
       /\ \A k \in taken : k[1] # q.token
       /\ status[q.node] = "up" => firing[q.node][q.tr] = <<q.token, q.from>>
  /\ q.op # "start" => <<q.token, q.from, q.tr>> \in taken
  /\ q.op = "end" => by[q.token] = q.node

RequestsRight == \A q \in sent : q.node \in lease => RequestRight(q)

\* A running task of n has its token.
RunRight(n, tr) ==
  pc[n][tr] = "run" =>
    \E t \in Token : /\ firing[n][tr] = <<t, In[tr]>> /\ <<t, In[tr], tr>> \in taken
                     /\ <<t, In[tr]>> \in tokens /\ by[t] = n

\* Until a task of n begins, its local net shows what is left of the last run.
SpawnedRight(n, tr) ==
  status[n] = "up" /\ pc[n][tr] = "spawned" => LeftTaken(n, tr) = {k \in taken : k[3] = tr}

TasksRight ==
  \A n \in lease : \A tr \in TransitionsOf(n) : RunRight(n, tr) /\ SpawnedRight(n, tr)

SafeInv == TakenInv /\ RequestsRight /\ TasksRight

BaseInv == TypeInv /\ AskedInv /\ LeaderInv /\ LockInv

LEMMA RequestParts ==
  ASSUME BaseInv, NEW q \in sent
  PROVE  /\ q.op \in Ops /\ q.node \in Node /\ q.tr \in Transition /\ q.token \in Token
         /\ q.from \in Place /\ q.tr \in TransitionsOf(q.node) /\ Home[q.tr] = RegionOf[q.node]
         /\ q.node \in lease => Rules(q.node)
BY DEF BaseInv, TypeInv, SentTypes, RequestType, TransitionsOf, Rules

\* A token is in one place, for the provers.
LEMMA OnePlace ==
  ASSUME TakenInv, NEW t, NEW p, NEW o, <<t, p>> \in tokens, <<t, o>> \in tokens
  PROVE  p = o
BY DEF TakenInv, InOnePlace

\* Two requests that can both be applied are about different tokens.
LEMMA TokensDiffer ==
  ASSUME BaseInv, SafeInv, NEW q \in sent, NEW r \in sent,
         q.node \in lease, r.node \in lease, q.token = r.token
  PROVE  q = r
<1>0. RequestRight(q) /\ RequestRight(r)
  BY DEF SafeInv, RequestsRight
<1>1. q.from = r.from
  BY <1>0, OnePlace DEF SafeInv, RequestRight
<1>2. CASE q.op = "start" /\ r.op = "start"
  BY <1>1, <1>2 DEF BaseInv, LockInv
<1>3. CASE q.op # "start" /\ r.op # "start"
  <2>1. <<q.token, q.from, q.tr>> \in taken /\ <<q.token, r.from, r.tr>> \in taken
    BY <1>0, <1>3 DEF RequestRight
  <2>2. q.tr = r.tr
    BY <2>1 DEF SafeInv, TakenInv, InOnePlace
  <2>3. q.node = r.node
    BY <2>2, RequestParts, OneLeader DEF BaseInv
  <2> QED
    BY <2>2, <2>3 DEF BaseInv, AskedInv
<1>4. CASE q.op = "start" /\ r.op # "start"
  BY <1>0, <1>4 DEF RequestRight
<1>5. CASE q.op # "start" /\ r.op = "start"
  BY <1>0, <1>5 DEF RequestRight
<1> QED
  BY <1>2, <1>3, <1>4, <1>5

\* A task that another runner of the region has, with a living lease, has none.
LEMMA SameTask ==
  ASSUME BaseInv, NEW q \in sent, q.node \in lease,
         NEW n \in lease, status[n] = "up", q.tr \in TransitionsOf(n)
  PROVE  n = q.node /\ pc[n][q.tr] = q.op
<1>1. n \in Node /\ RegionOf[n] = RegionOf[q.node]
  BY RequestParts DEF BaseInv, TypeInv, StoreTypes, TransitionsOf
<1>2. n = q.node
  BY <1>1, RequestParts, OneLeader DEF BaseInv, Rules
<1> QED
  BY <1>2 DEF BaseInv, AskedInv

\* What an admitted transaction changes is the keys of its token.
LEMMA EffectOnKeys ==
  ASSUME BaseInv, SafeInv, NEW q \in sent, RequestRight(q), Effect(q)
  PROVE  /\ \A l : l[1] # q.token => (l \in tokens' <=> l \in tokens)
         /\ \A k : k \in taken \cup taken' /\ k[1] # q.token => (k \in taken' <=> k \in taken)
         /\ q.op = "start" =>
              /\ tokens' = tokens /\ taken' = taken \cup {<<q.token, q.from, q.tr>>}
         /\ q.op # "start" =>
              /\ \A k \in taken' : k[1] # q.token
              /\ taken' \subseteq taken
              /\ \A p : <<q.token, p>> \in tokens' => p = q.to
<1>1. /\ tokens \subseteq Token \X Place /\ taken \subseteq Token \X Place \X Transition
      /\ q.token \in Token /\ q.from \in Place /\ q.tr \in Transition
  BY RequestParts DEF BaseInv, TypeInv, StoreTypes
<1>2. CASE q.op = "start"
  <2>1. taken' = taken \cup {<<q.token, q.from, q.tr>>} /\ tokens' = tokens
    BY <1>2 DEF Effect
  <2> QED
    BY <1>2, <2>1
<1>3. ASSUME q.op # "start", NEW k \in taken, k[1] = q.token
      PROVE  k = <<q.token, q.from, q.tr>>
  <2>1. <<k[1], k[2]>> \in tokens /\ k[2] = In[k[3]]
    BY <1>3 DEF SafeInv, TakenInv, InOnePlace
  <2>2. <<q.token, q.from, q.tr>> \in taken
    BY <1>3 DEF RequestRight
  <2> QED
    BY <1>3, <2>2 DEF SafeInv, TakenInv, InOnePlace
<1>4. CASE q.op # "start" /\ q.to = q.from
  <2>1. /\ taken' = taken \ {<<q.token, q.from, q.tr>>}
        /\ tokens' = tokens \cup {<<q.token, q.from>>}
    BY <1>4 DEF Effect
  <2>2. tokens' = tokens
    BY <2>1 DEF RequestRight
  <2>3. \A p : <<q.token, p>> \in tokens' => p = q.to
    BY <1>4, <2>2, OnePlace DEF RequestRight, SafeInv
  <2> QED
    BY <1>3, <1>4, <2>1, <2>2, <2>3 DEF RequestRight
<1>5. CASE q.op # "start" /\ q.to # q.from
  <2>1. /\ taken' = {k \in taken : <<k[1], k[2]>> # <<q.token, q.from>>}
        /\ tokens' = (tokens \ {<<q.token, q.from>>})
                       \cup ({<<q.token, q.to>>} \ {<<q.token, Nothing>>})
    BY <1>5 DEF Effect
  <2>3. tokens' \subseteq (tokens \ {<<q.token, q.from>>}) \cup {<<q.token, q.to>>}
    BY <2>1
  <2>4. \A p : <<q.token, p>> \in tokens => p = q.from
    BY OnePlace DEF RequestRight, SafeInv
  <2> QED
    BY <1>3, <1>5, <2>1, <2>3, <2>4
<1> QED
  BY <1>2, <1>4, <1>5

\* A step that leaves the keys alone.
LEMMA KeysStay ==
  ASSUME BaseInv, SafeInv,
         UNCHANGED <<tokens, taken, by>>,
         \A q \in sent' : q.node \in lease' => RequestRight(q)',
         \A n \in lease' : \A tr \in TransitionsOf(n) : RunRight(n, tr)' /\ SpawnedRight(n, tr)'
  PROVE  SafeInv'
<1>1. TakenInv'
  BY DEF SafeInv, TakenInv, InOnePlace
<1> QED
  BY <1>1 DEF SafeInv, RequestsRight, TasksRight

\* What is right for a task stays so while the keys and the runner do.
LEMMA TaskStaysRight ==
  ASSUME NEW n \in Node, NEW tr \in TransitionsOf(n), RunRight(n, tr), SpawnedRight(n, tr),
         UNCHANGED <<tokens, taken, by>>, status'[n] = status[n], view'[n] = view[n],
         pc'[n][tr] = pc[n][tr], firing'[n][tr] = firing[n][tr]
  PROVE  RunRight(n, tr)' /\ SpawnedRight(n, tr)'
BY DEF RunRight, SpawnedRight, LeftTaken

LEMMA LifeRight ==
  ASSUME BaseInv, SafeInv, NEW n \in Node,
         \/ Campaign(n) \/ Elected(n) \/ Load(n) \/ Refresh(n) \/ Stop(n) \/ LoseLease(n)
  PROVE  SafeInv'
<1>0. /\ StoreTypes /\ NodeTypes /\ SentTypes /\ TasksFit /\ ByTask(pc) /\ ByTask(firing)
      /\ \A q \in sent : q.node \in Node /\ q.tr \in TransitionsOf(q.node)
  BY RequestParts DEF BaseInv, TypeInv, NodeTypes
<1>1. UNCHANGED <<tokens, taken, by, sent>>
  BY DEF Campaign, Elected, Load, Refresh, Stop, LoseLease, etcdVars
<1>2. \A m \in lease' : m \in lease \/ (m = n /\ status[n] = "off" /\ status'[n] = "campaigning")
  BY <1>0 DEF Campaign, Elected, Load, Refresh, Stop, LoseLease, etcdVars, NodeTypes
<1>3. \A m \in Node \ {n} :
        /\ status'[m] = status[m] /\ view'[m] = view[m]
        /\ \A u \in TransitionsOf(m) : pc'[m][u] = pc[m][u] /\ firing'[m][u] = firing[m][u]
  <2>1. CASE Stop(n)
    <3>1. \A m \in Node : \A u \in TransitionsOf(m) :
            m # n => pc'[m][u] = pc[m][u] /\ firing'[m][u] = firing[m][u]
      BY <1>0, <2>1, ResetTasks DEF Stop
    <3>2. \A m \in Node \ {n} : status'[m] = status[m] /\ view'[m] = view[m]
      BY <1>0, <2>1 DEF Stop, Dropped, NodeTypes
    <3> QED
      BY <3>1, <3>2
  <2>2. CASE ~Stop(n)
    BY <1>0, <2>2 DEF Campaign, Elected, Load, Refresh, LoseLease, nodeVars, NodeTypes
  <2> QED
    BY <2>1, <2>2
<1>4. \/ /\ status'[n] \in {"campaigning", "elected", "stopped"}
         /\ \A u \in TransitionsOf(n) : pc'[n][u] = "spawned"
      \/ /\ status[n] \in {"elected", "up"} /\ status'[n] = "up" /\ view'[n] = Keys
         /\ \A u \in TransitionsOf(n) : pc'[n][u] = pc[n][u] /\ firing'[n][u] = firing[n][u]
         /\ status[n] = "up" \/ \A u \in TransitionsOf(n) : pc'[n][u] = "spawned"
      \/ UNCHANGED nodeVars
  <2>1. \A u \in TransitionsOf(n) : status[n] # "up" => pc[n][u] = "spawned"
    BY <1>0 DEF TasksFit, TaskFits
  <2>2. CASE Campaign(n) \/ Elected(n)
    BY <1>0, <2>1, <2>2 DEF Campaign, Elected, NodeTypes
  <2>3. CASE Load(n) \/ Refresh(n)
    BY <1>0, <2>1, <2>3 DEF Load, Refresh, NodeTypes
  <2>4. CASE Stop(n)
    <3>1. \A u \in TransitionsOf(n) : pc'[n][u] = "spawned"
      BY <1>0, <2>4, ResetTasks DEF Stop
    <3> QED
      BY <1>0, <2>4, <3>1 DEF Stop, Dropped, NodeTypes
  <2>5. CASE LoseLease(n)
    BY <2>5 DEF LoseLease
  <2> QED
    BY <2>2, <2>3, <2>4, <2>5
<1>5. \A q \in sent' : q.node \in lease' => RequestRight(q)'
  <2> SUFFICES ASSUME NEW q \in sent, q.node \in lease' PROVE RequestRight(q)'
    BY <1>1
  <2>1. q.node \in lease /\ RequestRight(q) /\ status[q.node] \in {"up", "stopped"}
    BY <1>2 DEF BaseInv, AskedInv, SafeInv, RequestsRight
  <2>2. status'[q.node] = "up" =>
          status[q.node] = "up" /\ firing'[q.node][q.tr] = firing[q.node][q.tr]
    BY <1>0, <1>3, <1>4, <2>1 DEF nodeVars, BaseInv, AskedInv, Ops, SentTypes, RequestType
  <2> QED
    BY <1>1, <2>1, <2>2 DEF RequestRight
<1>6. ASSUME NEW m \in lease', NEW tr \in TransitionsOf(m)
      PROVE  RunRight(m, tr)' /\ SpawnedRight(m, tr)'
  <2>1. m \in Node
    BY <1>0, <1>2 DEF StoreTypes
  <2>2. CASE m # n
    BY <1>1, <1>2, <1>3, <1>6, <2>1, <2>2, TaskStaysRight DEF SafeInv, TasksRight
  <2>3. CASE m = n /\ m \in lease
    <3>1. RunRight(n, tr) /\ SpawnedRight(n, tr)
      BY <1>6, <2>3 DEF SafeInv, TasksRight
    <3>2. CASE UNCHANGED nodeVars
      BY <1>1, <1>6, <2>3, <3>1, <3>2, TaskStaysRight DEF nodeVars
    <3>3. CASE status'[n] # "up" /\ pc'[n][tr] = "spawned"
      BY <2>3, <3>3 DEF RunRight, SpawnedRight
    <3>4. CASE /\ status'[n] = "up" /\ view'[n] = Keys
               /\ pc'[n][tr] = pc[n][tr] /\ firing'[n][tr] = firing[n][tr]
      <4>1. RunRight(n, tr)'
        BY <1>1, <3>1, <3>4 DEF RunRight
      <4>2. SpawnedRight(n, tr)'
        BY <1>1, <3>4 DEF SpawnedRight, LeftTaken, Keys
      <4> QED
        BY <2>3, <4>1, <4>2
    <3> QED
      BY <1>4, <1>6, <2>3, <3>2, <3>3, <3>4
  <2>4. CASE m = n /\ m \notin lease
    <3>1. status[n] = "off" /\ status'[n] = "campaigning"
      BY <1>2, <1>6, <2>4
    <3>2. pc'[n][tr] = "spawned"
      BY <1>4, <1>6, <2>4, <3>1 DEF nodeVars
    <3> QED
      BY <2>4, <3>1, <3>2 DEF RunRight, SpawnedRight
  <2> QED
    BY <2>2, <2>3, <2>4
<1> QED
  BY <1>1, <1>5, <1>6, KeysStay

\* What a task of a runner with a living lease sends is right.
LEMMA SendRight ==
  ASSUME BaseInv, SafeInv, NEW n \in Node, NEW tr \in TransitionsOf(n), NEW op, NEW t, NEW p,
         NEW to, Send(Request(op, n, tr, t, p, to)), pc[n][tr] \notin Ops,
         op # "run", op # "spawned",
         UNCHANGED <<tokens, taken, by, lease, status, view>>, status[n] = "up",
         \A m \in Node : \A u \in TransitionsOf(m) :
           m # n \/ u # tr => firing'[m][u] = firing[m][u],
         n \in lease => RequestRight(Request(op, n, tr, t, p, to))'
  PROVE  SafeInv'
<1> DEFINE r == Request(op, n, tr, t, p, to)
<1>0. /\ ByTask(pc) /\ lease \subseteq Node
      /\ \A q \in sent : q.node \in Node /\ q.tr \in TransitionsOf(q.node)
  BY RequestParts DEF BaseInv, TypeInv, NodeTypes, StoreTypes
<1>1. r.node = n /\ r.tr = tr /\ r.op = op
  BY DEF Request
<1>2. sent' = sent \cup {r} /\ pc' = [pc EXCEPT ![n][tr] = op]
  BY <1>1 DEF Send
<1>3. /\ pc'[n][tr] = op
      /\ \A m \in Node : \A u \in TransitionsOf(m) : m # n \/ u # tr => pc'[m][u] = pc[m][u]
  <2>1. pc' = SetTask(pc, n, tr, op)
    BY <1>2 DEF SetTask
  <2> QED
    BY <1>0, <2>1, SetOneTask
<1>4. ASSUME NEW q \in sent, q.node \in lease PROVE RequestRight(q)'
  <2>1. RequestRight(q) /\ (q.node # n \/ q.tr # tr)
    BY <1>4 DEF SafeInv, RequestsRight, BaseInv, AskedInv, TypeInv, SentTypes, RequestType
  <2>2. firing'[q.node][q.tr] = firing[q.node][q.tr]
    BY <1>0, <2>1
  <2> QED
    BY <2>1, <2>2 DEF RequestRight
<1>5. \A q \in sent' : q.node \in lease' => RequestRight(q)'
  BY <1>1, <1>2, <1>4
<1>7. ASSUME NEW m \in lease', NEW u \in TransitionsOf(m)
      PROVE  RunRight(m, u)' /\ SpawnedRight(m, u)'
  <2>1. CASE m = n /\ u = tr
    BY <1>3, <2>1 DEF RunRight, SpawnedRight
  <2>2. CASE m # n \/ u # tr
    <3>1. m \in lease /\ m \in Node
      BY <1>0, <1>7
    <3>2. RunRight(m, u) /\ SpawnedRight(m, u)
      BY <1>7, <3>1 DEF SafeInv, TasksRight
    <3>3. pc'[m][u] = pc[m][u] /\ firing'[m][u] = firing[m][u]
      BY <1>3, <1>7, <2>2, <3>1
    <3> QED
      BY <1>7, <3>1, <3>2, <3>3, TaskStaysRight
  <2> QED
    BY <2>1, <2>2
<1> QED
  BY <1>5, <1>7, KeysStay

\* A task of n goes on without a request, to where nothing is claimed of it.
LEMMA IdleRight ==
  ASSUME BaseInv, SafeInv, NEW n \in Node, NEW tr \in TransitionsOf(n),
         pc[n][tr] \notin Ops, pc' = [pc EXCEPT ![n][tr] = "idle"],
         UNCHANGED <<tokens, taken, by, lease, status, sent, firing>>,
         view' = view \/ view' = [view EXCEPT ![n] = Keys]
  PROVE  SafeInv'
<1>0. ByTask(pc) /\ lease \subseteq Node /\ NodeTypes
  BY DEF BaseInv, TypeInv, NodeTypes, StoreTypes
<1>1. /\ pc'[n][tr] = "idle"
      /\ \A m \in Node : \A u \in TransitionsOf(m) : m # n \/ u # tr => pc'[m][u] = pc[m][u]
  <2>1. pc' = SetTask(pc, n, tr, "idle") /\ n \in Node /\ tr \in TransitionsOf(n)
    BY DEF SetTask
  <2> QED
    BY ONLY <1>0, <2>1, SetOneTask
<1>2. \A q \in sent' : q.node \in lease' => RequestRight(q)'
  BY DEF SafeInv, RequestsRight, RequestRight
<1>3. ASSUME NEW m \in lease', NEW u \in TransitionsOf(m)
      PROVE  RunRight(m, u)' /\ SpawnedRight(m, u)'
  <2>1. m \in Node /\ RunRight(m, u) /\ SpawnedRight(m, u)
    BY <1>0, <1>3 DEF SafeInv, TasksRight
  <2>2. CASE m = n /\ u = tr
    BY <1>1, <2>2 DEF RunRight, SpawnedRight
  <2>3. CASE m # n \/ u # tr
    <3>1. pc'[m][u] = pc[m][u]
      BY <1>1, <1>3, <2>1, <2>3
    <3>2. view'[m] = view[m] \/ view'[m] = Keys
      BY <1>0, <2>1 DEF NodeTypes
    <3> QED
      BY <2>1, <3>1, <3>2 DEF RunRight, SpawnedRight, LeftTaken, Keys
  <2> QED
    BY <2>2, <2>3
<1> QED
  BY <1>2, <1>3, KeysStay

LEMMA TaskRight ==
  ASSUME BaseInv, SafeInv, NEW n \in Node, NEW tr \in TransitionsOf(n),
         CancelRunning(n, tr) \/ BeginStart(n, tr) \/ BeginFinish(n, tr) \/ Returned(n, tr)
  PROVE  SafeInv'
<1>0. /\ ByTask(pc) /\ ByTask(firing) /\ tr \in Transition /\ TasksFit
      /\ In[tr] \in Place /\ Out[tr] \in Place
  BY FailoverAssumption DEF BaseInv, TypeInv, NodeTypes, TransitionsOf
<1>1. UNCHANGED <<tokens, taken, by, lease, status>> /\ status[n] = "up" /\ pc[n][tr] \notin Ops
  BY DEF CancelRunning, BeginStart, BeginFinish, Returned, etcdVars, Ops
<1>2. n \in lease => RunRight(n, tr) /\ SpawnedRight(n, tr)
  BY DEF SafeInv, TasksRight
<1>3. CASE CancelRunning(n, tr)
  <2>1. CASE pc' = [pc EXCEPT ![n][tr] = "idle"] /\ UNCHANGED sent
    BY <1>1, <1>3, <2>1, IdleRight DEF CancelRunning
  <2>2. ASSUME NEW k \in LeftTaken(n, tr), Send(Request("return", n, tr, k[1], k[2], k[2]))
        PROVE  SafeInv'
    <3> DEFINE r == Request("return", n, tr, k[1], k[2], k[2])
    <3>1. /\ r.node = n /\ r.tr = tr /\ r.op = "return" /\ r.token = k[1] /\ r.from = k[2]
      BY DEF Request
    <3>2. k \in Token \X Place \X Transition /\ k[3] = tr /\ k[2] \in Place
      BY DEF LeftTaken, BaseInv, TypeInv, NodeTypes
    <3>3. n \in lease => k \in taken
      BY <1>2, <1>3, <2>2 DEF SpawnedRight, CancelRunning
    <3>4. n \in lease => RequestRight(r)'
      BY <1>1, <3>1, <3>2, <3>3 DEF RequestRight, SafeInv, TakenInv, InOnePlace
    <3>5. view' = view /\ firing' = firing
      BY <1>3 DEF CancelRunning
    <3> QED
      BY <1>1, <2>2, <3>2, <3>4, <3>5, SendRight
  <2> QED
    BY <1>3, <2>1, <2>2 DEF CancelRunning
<1>4. CASE BeginStart(n, tr)
  <2>1. PICK t \in Token :
          /\ <<t, In[tr]>> \in tokens
          /\ \A k \in taken : <<k[1], k[2]>> # <<t, In[tr]>>
          /\ firing' = [firing EXCEPT ![n][tr] = <<t, In[tr]>>]
          /\ Send(Request("start", n, tr, t, In[tr], In[tr]))
    BY <1>4 DEF BeginStart
  <2> DEFINE r == Request("start", n, tr, t, In[tr], In[tr])
  <2>2. r.node = n /\ r.tr = tr /\ r.op = "start" /\ r.token = t /\ r.from = In[tr]
    BY DEF Request
  <2>3. /\ firing'[n][tr] = <<t, In[tr]>>
        /\ \A m \in Node : \A u \in TransitionsOf(m) :
             m # n \/ u # tr => firing'[m][u] = firing[m][u]
    <3>1. firing' = SetTask(firing, n, tr, <<t, In[tr]>>)
      BY <2>1 DEF SetTask
    <3> QED
      BY <1>0, <3>1, SetOneTask
  <2>4. \A k \in taken : k[1] # t
    <3> SUFFICES ASSUME NEW k \in taken, k[1] = t PROVE FALSE
      OBVIOUS
    <3>1. <<t, k[2]>> \in tokens
      BY DEF SafeInv, TakenInv, InOnePlace
    <3>2. k[2] = In[tr]
      BY <2>1, <3>1, OnePlace DEF SafeInv
    <3> QED
      BY <2>1, <3>2
  <2>5. RequestRight(r)'
    BY <1>1, <2>1, <2>2, <2>3, <2>4 DEF RequestRight
  <2>6. view' = view
    BY <1>4 DEF BeginStart
  <2> QED
    BY <1>0, <1>1, <2>1, <2>3, <2>5, <2>6, SendRight
<1>5. CASE BeginFinish(n, tr)
  <2>1. PICK t \in Token, p \in Place, to \in Place \cup {Nothing} :
          firing[n][tr] = <<t, p>> /\ Send(Request("end", n, tr, t, p, to))
    <3>1. PICK t \in Token, p \in Place : firing[n][tr] = <<t, p>>
      BY <1>0, <1>5 DEF BeginFinish, TasksFit, TaskFits
    <3> QED
      BY <1>0, <1>5, <3>1 DEF BeginFinish
  <2> DEFINE r == Request("end", n, tr, t, p, to)
  <2>2. r.node = n /\ r.tr = tr /\ r.op = "end" /\ r.token = t /\ r.from = p
    BY DEF Request
  <2>3. n \in lease => RequestRight(r)'
    <3> SUFFICES ASSUME n \in lease PROVE RequestRight(r)'
      OBVIOUS
    <3>1. PICK u \in Token : /\ firing[n][tr] = <<u, In[tr]>> /\ <<u, In[tr], tr>> \in taken
                             /\ <<u, In[tr]>> \in tokens /\ by[u] = n
      BY <1>2, <1>5 DEF RunRight, BeginFinish
    <3>2. u = t /\ In[tr] = p
      BY <2>1, <3>1
    <3> HIDE DEF r
    <3> QED
      BY <1>1, <2>2, <3>1, <3>2 DEF RequestRight
  <2>4. view' = view /\ firing' = firing
    BY <1>5 DEF BeginFinish
  <2> QED
    BY <1>1, <2>1, <2>3, <2>4, SendRight
<1>6. CASE Returned(n, tr)
  BY <1>1, <1>6, IdleRight DEF Returned
<1> QED
  BY <1>3, <1>4, <1>5, <1>6

\* A refused request is that of a runner that stopped or has no lease.
LEMMA RefuseRight ==
  ASSUME BaseInv, SafeInv, NEW q \in sent, Refuse(q)
  PROVE  SafeInv'
<1>0. /\ lease \subseteq Node /\ ByTask(pc) /\ ByTask(firing) /\ NodeTypes
      /\ \A r \in sent : r.node \in Node /\ r.tr \in TransitionsOf(r.node)
  BY RequestParts DEF BaseInv, TypeInv, NodeTypes, StoreTypes
<1>1. q.node \notin lease \/ UNCHANGED nodeVars
  BY DEF Refuse, Admitted
<1>2. UNCHANGED <<tokens, taken, by, lease>> /\ sent' \subseteq sent
  BY DEF Refuse, etcdVars
<1>3. \A m \in Node \ {q.node} :
        /\ status'[m] = status[m] /\ view'[m] = view[m]
        /\ \A u \in TransitionsOf(m) : pc'[m][u] = pc[m][u] /\ firing'[m][u] = firing[m][u]
  <2>1. CASE Dropped(q.node)
    <3>1. \A m \in Node : \A u \in TransitionsOf(m) :
            m # q.node => pc'[m][u] = pc[m][u] /\ firing'[m][u] = firing[m][u]
      BY <1>0, <2>1, ResetTasks
    <3>2. \A m \in Node \ {q.node} : status'[m] = status[m] /\ view'[m] = view[m]
      BY <1>0, <2>1 DEF Dropped, NodeTypes
    <3> QED
      BY <3>1, <3>2
  <2>2. CASE UNCHANGED nodeVars
    BY <2>2 DEF nodeVars
  <2> QED
    BY <2>1, <2>2 DEF Refuse
<1>4. ASSUME NEW m \in lease, NEW u \in TransitionsOf(m)
      PROVE  /\ status'[m] = status[m] /\ view'[m] = view[m]
             /\ pc'[m][u] = pc[m][u] /\ firing'[m][u] = firing[m][u]
  <2>1. CASE UNCHANGED nodeVars
    BY <2>1 DEF nodeVars
  <2>2. CASE m # q.node /\ m \in Node
    BY <1>3, <1>4, <2>2
  <2> QED
    BY <1>0, <1>1, <2>1, <2>2
<1>5. ASSUME NEW r \in sent', r.node \in lease' PROVE RequestRight(r)'
  <2>1. r \in sent /\ r.node \in lease /\ r.tr \in TransitionsOf(r.node)
    BY <1>0, <1>2, <1>5
  <2>2. RequestRight(r)
    BY <2>1 DEF SafeInv, RequestsRight
  <2>3. status'[r.node] = status[r.node] /\ firing'[r.node][r.tr] = firing[r.node][r.tr]
    BY <1>4, <2>1
  <2> QED
    BY <1>2, <2>2, <2>3 DEF RequestRight
<1>6. ASSUME NEW m \in lease', NEW u \in TransitionsOf(m)
      PROVE  RunRight(m, u)' /\ SpawnedRight(m, u)'
  <2>1. m \in lease /\ m \in Node /\ RunRight(m, u) /\ SpawnedRight(m, u)
    BY <1>0, <1>2, <1>6 DEF SafeInv, TasksRight
  <2> QED
    BY <1>2, <1>4, <1>6, <2>1, TaskStaysRight
<1> QED
  BY <1>2, <1>5, <1>6, KeysStay

\* An admitted request changes the keys of its token, about which no other
\* request and no other task of a runner with a living lease is.
LEMMA ApplyRight ==
  ASSUME BaseInv, SafeInv, NEW q \in sent, Apply(q), ~slipped'
  PROVE  SafeInv'
<1> DEFINE t == q.token
<1>0. /\ lease \subseteq Node /\ lease' = lease /\ status' = status /\ view' = view
      /\ sent' = sent \ {q} /\ Effect(q)
      /\ q.node \in Node /\ q.tr \in TransitionsOf(q.node) /\ q.tr \in Transition
      /\ t \in Token /\ q.from \in Place /\ q.op \in Ops
      /\ \A r \in sent : r.node \in Node /\ r.tr \in TransitionsOf(r.node) /\ r.token \in Token
      /\ by \in [Token -> Node \cup {NoNode}]
      /\ tokens \subseteq Token \X Place /\ taken \subseteq Token \X Place \X Transition
  BY RequestParts DEF BaseInv, TypeInv, StoreTypes, Apply
<1>1. q.node \in lease /\ RequestRight(q)
  BY DEF Apply, Slips, Admitted, Fenced, SafeInv, RequestsRight
<1>2. /\ \A l : l[1] # t => (l \in tokens' <=> l \in tokens)
      /\ \A k : k \in taken \cup taken' /\ k[1] # t => (k \in taken' <=> k \in taken)
      /\ q.op = "start" => tokens' = tokens /\ taken' = taken \cup {<<t, q.from, q.tr>>}
      /\ q.op # "start" =>
           /\ \A k \in taken' : k[1] # t
           /\ taken' \subseteq taken
           /\ \A p : <<t, p>> \in tokens' => p = q.to
  BY <1>0, <1>1, EffectOnKeys
<1>3. /\ \A u \in Token : u # t => by'[u] = by[u]
      /\ q.op = "start" => by'[t] = q.node
  BY <1>0 DEF Apply
<1>4. /\ status[q.node] = "up" =>
           /\ pc'[q.node][q.tr] = After(q)
           /\ firing'[q.node][q.tr] = (IF q.op = "start" THEN firing[q.node][q.tr] ELSE Nothing)
      /\ \A m \in Node : \A u \in TransitionsOf(m) :
           m # q.node \/ u # q.tr \/ status[q.node] # "up" =>
             pc'[m][u] = pc[m][u] /\ firing'[m][u] = firing[m][u]
  BY AnswerTypes DEF BaseInv
<1>5. TakenInv'
  <2>1. TakenInv /\ <<t, q.from>> \in tokens /\ q.from = In[q.tr]
        /\ (q.op = "start" => \A k \in taken : k[1] # t)
    BY <1>1 DEF SafeInv, RequestRight
  <2>2. tokens' \subseteq Token \X Place /\ taken' \subseteq Token \X Place \X Transition
    BY ApplyTypes DEF BaseInv, TypeInv, StoreTypes
  <2>3. ASSUME NEW k \in tokens', NEW l \in tokens', k[1] = l[1] PROVE k = l
    <3>1. CASE k[1] # t \/ q.op = "start"
      BY <1>2, <2>1, <2>3, <3>1 DEF TakenInv, InOnePlace
    <3>2. CASE k[1] = t /\ q.op # "start"
      <4>0. k \in Token \X Place /\ l \in Token \X Place /\ k[1] = t /\ l[1] = t
        BY <2>2, <2>3, <3>2
      <4>1. k = <<t, k[2]>> /\ l = <<t, l[2]>>
        BY <4>0
      <4> QED
        BY <1>2, <2>3, <3>2, <4>1
    <3> QED
      BY <3>1, <3>2
  <2>4. ASSUME NEW k \in taken', NEW l \in taken', k[1] = l[1] PROVE k = l
    BY <1>2, <2>1, <2>4 DEF TakenInv, InOnePlace
  <2>5. ASSUME NEW k \in taken' PROVE <<k[1], k[2]>> \in tokens' /\ k[2] = In[k[3]]
    BY <1>2, <2>1, <2>5 DEF TakenInv, InOnePlace
  <2> QED
    BY <2>3, <2>4, <2>5 DEF TakenInv, InOnePlace
<1>6. ASSUME NEW r \in sent', r.node \in lease PROVE RequestRight(r)'
  <2>1. r \in sent /\ r # q /\ RequestRight(r) /\ r.token # t
    BY <1>0, <1>1, <1>6, TokensDiffer DEF SafeInv, RequestsRight
  <2>2. r.node # q.node \/ r.tr # q.tr
    BY <2>1 DEF BaseInv, AskedInv
  <2>3. firing'[r.node][r.tr] = firing[r.node][r.tr]
    BY <1>0, <1>4, <2>1, <2>2
  <2>4. (\A k \in taken : k[1] # r.token) => \A k \in taken' : k[1] # r.token
    BY <1>2, <2>1
  <2>5. <<r.token, r.from, r.tr>> \in taken => <<r.token, r.from, r.tr>> \in taken'
    BY <1>2, <2>1
  <2>6. <<r.token, r.from>> \in tokens' /\ by'[r.token] = by[r.token]
    BY <1>0, <1>2, <1>3, <2>1 DEF RequestRight
  <2> QED
    BY <1>0, <2>1, <2>3, <2>4, <2>5, <2>6 DEF RequestRight
<1>7. ASSUME NEW n \in lease, NEW tr \in TransitionsOf(n), n = q.node /\ tr = q.tr,
             status[n] = "up"
      PROVE  RunRight(n, tr)' /\ SpawnedRight(n, tr)'
  <2>1. pc'[n][tr] = After(q) /\ pc'[n][tr] # "spawned" /\ (pc'[n][tr] = "run" => q.op = "start")
    BY <1>4, <1>7 DEF After
  <2>2. q.op = "start" =>
          /\ firing'[n][tr] = <<t, In[tr]>> /\ <<t, In[tr], tr>> \in taken'
          /\ <<t, In[tr]>> \in tokens' /\ by'[t] = n
    BY <1>1, <1>2, <1>3, <1>4, <1>7 DEF RequestRight
  <2> QED
    BY <1>0, <2>1, <2>2 DEF RunRight, SpawnedRight
<1>8. ASSUME NEW n \in lease, NEW tr \in TransitionsOf(n),
             n # q.node \/ tr # q.tr \/ status[n] # "up"
      PROVE  RunRight(n, tr)' /\ SpawnedRight(n, tr)'
  <2>1. n \in Node /\ RunRight(n, tr) /\ SpawnedRight(n, tr)
        /\ pc'[n][tr] = pc[n][tr] /\ firing'[n][tr] = firing[n][tr]
    BY <1>0, <1>4, <1>8 DEF SafeInv, TasksRight
  <2>2. status[n] = "up" => tr # q.tr
    BY <1>1, <1>8, SameTask
  <2>3. RunRight(n, tr)'
    <3> SUFFICES ASSUME pc[n][tr] = "run" PROVE RunRight(n, tr)'
      BY <2>1 DEF RunRight
    <3>1. PICK u \in Token : /\ firing[n][tr] = <<u, In[tr]>> /\ <<u, In[tr], tr>> \in taken
                             /\ <<u, In[tr]>> \in tokens /\ by[u] = n
      BY <2>1 DEF RunRight
    <3>2. status[n] = "up"
      BY <2>1 DEF BaseInv, TypeInv, TasksFit, TaskFits
    <3>3. u # t
      <4> SUFFICES ASSUME u = t PROVE FALSE
        OBVIOUS
      <4>1. CASE q.op = "start"
        BY <1>1, <3>1, <4>1 DEF RequestRight
      <4>2. CASE q.op # "start"
        <5>1. <<t, q.from, q.tr>> \in taken
          BY <1>1, <4>2 DEF RequestRight
        <5>2. tr = q.tr
          BY <3>1, <5>1 DEF SafeInv, TakenInv, InOnePlace
        <5> QED
          BY <2>2, <3>2, <5>2
      <4> QED
        BY <4>1, <4>2
    <3> QED
      BY <1>2, <1>3, <2>1, <3>1, <3>3 DEF RunRight
  <2>4. SpawnedRight(n, tr)'
    <3> SUFFICES ASSUME status[n] = "up", pc[n][tr] = "spawned" PROVE SpawnedRight(n, tr)'
      BY <1>0, <2>1 DEF SpawnedRight
    <3>1. \A k \in taken \cup taken' : k[3] = tr => (k \in taken' <=> k \in taken)
      <4>1. \A k \in taken : k[1] = t /\ q.op # "start" => k[3] = q.tr
        BY <1>1 DEF RequestRight, SafeInv, TakenInv, InOnePlace
      <4> QED
        BY <1>2, <2>2, <4>1
    <3> QED
      BY <1>0, <2>1, <3>1 DEF SpawnedRight, LeftTaken
  <2> QED
    BY <2>3, <2>4
<1> QED
  BY <1>0, <1>5, <1>6, <1>7, <1>8 DEF SafeInv, RequestsRight, TasksRight

(***************************************************************************)
(* The theorems.                                                           *)
(***************************************************************************)

LEMMA SafeStep ==
  ASSUME BaseInv, SafeInv, [Next]_vars, ~slipped'
  PROVE  SafeInv'
<1>1. ASSUME NEW n \in Node, NEW tr \in TransitionsOf(n),
             CancelRunning(n, tr) \/ BeginStart(n, tr) \/ BeginFinish(n, tr) \/ Returned(n, tr)
      PROVE  SafeInv'
  BY <1>1, TaskRight
<1>2. CASE UNCHANGED vars
  <2>1. UNCHANGED <<tokens, taken, lease, sent, status, view, pc, firing, by>>
    BY <1>2 DEF vars, etcdVars, nodeVars
  <2>2. TakenInv'
    BY <2>1 DEF SafeInv, TakenInv, InOnePlace
  <2>3. RequestsRight'
    BY <2>1 DEF SafeInv, RequestsRight, RequestRight
  <2>4. ASSUME NEW n \in lease', NEW tr \in TransitionsOf(n)
        PROVE  RunRight(n, tr)' /\ SpawnedRight(n, tr)'
    <3>1. n \in lease /\ RunRight(n, tr) /\ SpawnedRight(n, tr)
      BY <2>1, <2>4 DEF SafeInv, TasksRight
    <3>2. RunRight(n, tr)'
      BY <2>1, <3>1 DEF RunRight
    <3>3. SpawnedRight(n, tr)'
      BY <2>1, <3>1 DEF SpawnedRight, LeftTaken
    <3> QED
      BY <3>2, <3>3
  <2> QED
    BY <2>2, <2>3, <2>4 DEF SafeInv, TasksRight
<1> QED
  BY <1>1, <1>2, LifeRight, ApplyRight, RefuseRight DEF Next

\* A commit that has slipped through is not forgotten.
LEMMA SlipsStay ==
  ASSUME [Next]_vars, slipped
  PROVE  slipped'
<1>1. CASE \E q \in sent : Apply(q)
  BY <1>1 DEF Apply
<1>2. CASE UNCHANGED slipped
  BY <1>2
<1>3. CASE UNCHANGED vars
  BY <1>3 DEF vars
<1> QED
  BY <1>1, <1>2, <1>3 DEF Next, Campaign, Elected, Load, Refresh, Stop, LoseLease,
    CancelRunning, BeginStart, BeginFinish, Returned, Refuse

LEMMA SafeInvariant == Spec => [](BaseInv /\ (~slipped => SafeInv))
<1>1. Init => SafeInv
  BY DEF Init, SafeInv, TakenInv, InOnePlace, RequestsRight, TasksRight
<1>2. BaseInv /\ (~slipped => SafeInv) /\ [Next]_vars => (~slipped => SafeInv)'
  BY SafeStep, SlipsStay
<1>3. Spec => []BaseInv
  BY TypeInvariant, LeaderInvariant, LockInvariant, PTL DEF BaseInv
<1> QED
  BY <1>1, <1>2, <1>3, PTL DEF Spec

\* However many runners a region has, and however they stop, lose their leases
\* and follow each other, and whichever transitions of whichever regions take
\* from a place: a token is in one place, and taken once, for as long as no
\* commit without a fencing token has come after the lease of its runner.
THEOREM FailoverKeepsTokens == Spec => []TokenInOnePlace
<1>1. BaseInv /\ (~slipped => SafeInv) => TokenInOnePlace
  BY DEF SafeInv, TakenInv, TokenInOnePlace
<1> QED
  BY <1>1, SafeInvariant, PTL

\* A request that etcd has dealt with was applied or refused.
LEMMA DealtWith ==
  ASSUME [Next]_vars, NEW q \in sent, q \notin sent'
  PROVE  Apply(q) \/ Refuse(q)
<1>1. CASE \E r \in sent : Apply(r) \/ Refuse(r)
  BY <1>1 DEF Apply, Refuse
<1>2. CASE sent \subseteq sent'
  BY <1>2
<1>3. CASE UNCHANGED vars
  BY <1>3 DEF vars
<1>4. ASSUME NEW n \in Node, NEW tr \in TransitionsOf(n),
             CancelRunning(n, tr) \/ BeginStart(n, tr) \/ BeginFinish(n, tr) \/ Returned(n, tr)
      PROVE  sent \subseteq sent'
  BY <1>4 DEF CancelRunning, BeginStart, BeginFinish, Returned, Send
<1>5. ASSUME NEW n \in Node,
             \/ Campaign(n) \/ Elected(n) \/ Load(n) \/ Refresh(n) \/ Stop(n) \/ LoseLease(n)
      PROVE  sent \subseteq sent'
  BY <1>5 DEF Campaign, Elected, Load, Refresh, Stop, LoseLease
<1> QED
  BY <1>1, <1>2, <1>3, <1>4, <1>5 DEF Next

\* Up to such a commit, the end of a firing is only applied for the runner that
\* took the token: never after the next runner has given it back.
THEOREM RunnersEndTheirOwn == Spec => EndsOwnFiring
<1>1. ASSUME BaseInv, ~slipped => SafeInv, [Next]_vars, ~slipped',
             NEW q \in sent \ sent', q.op = "end", Admitted(q)
      PROVE  by[q.token] = q.node
  <2>1. SafeInv
    BY <1>1, SlipsStay
  <2>2. q.node \in lease
    BY <1>1, DealtWith DEF Apply, Refuse, Slips, Admitted, Fenced
  <2> QED
    BY <1>1, <2>1, <2>2 DEF SafeInv, RequestsRight, RequestRight
<1>2. BaseInv /\ (~slipped => SafeInv) /\ [Next]_vars =>
        (~slipped' =>
           \A q \in sent \ sent' : q.op = "end" /\ Admitted(q) => by[q.token] = q.node)
  BY <1>1
<1> QED
  BY <1>2, SafeInvariant, PTL DEF Spec, EndsOwnFiring

\* Every transaction locks a place, and so compares a lease: all places have
\* output locking, and no token is destroyed.
EveryCommitFenced == OutputLocking = Place /\ MayDestroy = {}

\* No commit has slipped through, and no request destroys its token.
TargetsInv == ~slipped /\ \A q \in sent : q.to \in Place

LEMMA TargetsStep ==
  ASSUME EveryCommitFenced, TypeInv, TargetsInv, [Next]_vars
  PROVE  TargetsInv'
<1>1. ASSUME NEW n \in Node,
             \/ Campaign(n) \/ Elected(n) \/ Load(n) \/ Refresh(n) \/ Stop(n) \/ LoseLease(n)
      PROVE  TargetsInv'
  <2>1. sent' = sent /\ slipped' = slipped
    BY <1>1 DEF Campaign, Elected, Load, Refresh, Stop, LoseLease
  <2> QED
    BY <2>1 DEF TargetsInv
<1>2. ASSUME NEW n \in Node, NEW tr \in TransitionsOf(n),
             CancelRunning(n, tr) \/ BeginStart(n, tr) \/ BeginFinish(n, tr) \/ Returned(n, tr)
      PROVE  TargetsInv'
  <2>0. tr \in Transition /\ In[tr] \in Place /\ Out[tr] \in Place
    BY FailoverAssumption DEF TransitionsOf
  <2>1. slipped' = slipped
    BY <1>2 DEF CancelRunning, BeginStart, BeginFinish, Returned
  <2>2. ASSUME NEW op, NEW t, NEW p, NEW to \in Place, Send(Request(op, n, tr, t, p, to))
        PROVE  TargetsInv'
    BY <2>1, <2>2 DEF TargetsInv, Send, Request
  <2>3. CASE CancelRunning(n, tr)
    <3>1. CASE sent' = sent
      BY <2>1, <3>1 DEF TargetsInv
    <3>2. ASSUME NEW k \in LeftTaken(n, tr), Send(Request("return", n, tr, k[1], k[2], k[2]))
          PROVE  TargetsInv'
      <4>1. k[2] \in Place
        BY DEF LeftTaken, TypeInv, NodeTypes
      <4> QED
        BY <2>2, <3>2, <4>1
    <3> QED
      BY <2>3, <3>1, <3>2 DEF CancelRunning
  <2>4. CASE BeginStart(n, tr)
    <3>1. PICK t \in Token : Send(Request("start", n, tr, t, In[tr], In[tr]))
      BY <2>4 DEF BeginStart
    <3> QED
      BY <2>0, <2>2, <3>1
  <2>5. CASE BeginFinish(n, tr)
    <3>1. firing[n][tr][2] \in Place
      BY <2>5 DEF BeginFinish, TypeInv, TasksFit, TaskFits
    <3>2. PICK to \in Place : Send(Request("end", n, tr, firing[n][tr][1], firing[n][tr][2], to))
      BY <2>0, <2>5, <3>1 DEF BeginFinish, EveryCommitFenced
    <3> QED
      BY <2>2, <3>2
  <2>6. CASE Returned(n, tr)
    BY <2>1, <2>6 DEF Returned, TargetsInv
  <2> QED
    BY <1>2, <2>3, <2>4, <2>5, <2>6
<1>3. ASSUME NEW q \in sent, Apply(q) \/ Refuse(q) PROVE TargetsInv'
  <2>1. ~Slips(q) /\ sent' \subseteq sent
    BY <1>3 DEF TargetsInv, Slips, EveryCommitFenced, Apply, Refuse
  <2>2. ~slipped'
    BY <1>3, <2>1 DEF TargetsInv, Apply, Refuse
  <2> QED
    BY <2>1, <2>2 DEF TargetsInv
<1>4. CASE UNCHANGED vars
  BY <1>4 DEF vars, TargetsInv
<1> QED
  BY <1>1, <1>2, <1>3, <1>4 DEF Next

\* Then no commit slips through, and a token is always in one place.
COROLLARY FencedNeverDoubles ==
  ASSUME EveryCommitFenced
  PROVE  Spec => []InOnePlace
<1>1. Init => TargetsInv
  BY DEF Init, TargetsInv
<1>2. Spec => []TargetsInv
  BY <1>1, TypeInvariant, TargetsStep, PTL DEF Spec
<1>3. TargetsInv /\ TokenInOnePlace => InOnePlace
  BY DEF TargetsInv, TokenInOnePlace
<1> QED
  BY <1>2, <1>3, FailoverKeepsTokens, PTL
=============================================================================
