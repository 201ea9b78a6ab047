----------------------- MODULE TransitionRunnerProofs -----------------------
(***************************************************************************)
(* Proofs about the transition tasks: whatever the executors decide, and   *)
(* however far the local nets lag behind, what a decision depends on is    *)
(* still so when it is committed.                                          *)
(***************************************************************************)
EXTENDS TransitionRunner, FiniteSetTheorems, SequenceTheorems, TLAPS

(***************************************************************************)
(* The inductive invariant.                                                *)
(***************************************************************************)

\* Every runner will hear of what etcd holds.
LastInv == \A n \in Node : nets[n][Len(nets[n])] = where

\* A lock has one holder, whose runner owns it.
HolderInv ==
  \A p \in Place :
    /\ \A t, u \in holder[p] : t = u
    /\ \A t \in holder[p] : owner[p] = NodeOf[t]

\* What a task holds and has still to lock fits its control state.
TaskInv(tr) ==
  /\ pc[tr] \notin {"lock", "start", "finish"} => todo[tr] = {} /\ Held(tr) = {}
  /\ pc[tr] = "lock" => CondPlaces[tr] \subseteq Held(tr) \cup todo[tr]
  /\ pc[tr] = "start" => todo[tr] = {} /\ CondPlaces[tr] \subseteq Held(tr)
  /\ pc[tr] = "finish" => TargetPlaces(result[tr]) \subseteq Held(tr) \cup todo[tr]

\* While a runner has the lock of p cached, nothing has happened at p since
\* the minimal revision of the lock but what needs no lock.
FreshInv ==
  \A n \in Node, p \in Place :
    owner[p] = n =>
      \A i \in need[n][p] + 1 .. Len(nets[n]) : StillSo(nets[n][i], where, p)

\* Between decision and start, the decision is still right.
ViewInv(tr) ==
  pc[tr] = "start" =>
    /\ view[tr] \in [Token -> Positions]
    /\ \A p \in CondPlaces[tr] : StillSo(view[tr], where, p)
    /\ \A k \in take[tr] :
         k \in InPlaces[tr] \X Token /\ view[tr][k[2]] = Game!At(k[1])

\* A firing has exactly the tokens it has taken.
FiringInv(tr) ==
  /\ pc[tr] \in {"run", "finish"} =>
       \A k \in take[tr] :
         k \in InPlaces[tr] \X Token /\ where[k[2]] = Game!With(tr, k[1])
  /\ \A t \in Token, p \in Place :
       where[t] = Game!With(tr, p) => pc[tr] \in {"run", "finish"} /\ <<p, t>> \in take[tr]

\* A result places or destroys what was taken, and creates at out places.
ResultInv(tr) ==
  pc[tr] = "finish" =>
    /\ DOMAIN result[tr].goes = take[tr]
    /\ \A k \in take[tr] : result[tr].goes[k] \in Fates(tr, k)
    /\ result[tr].new \subseteq OutPlaces[tr]

\* A token that has never existed is nowhere.
UsedInv == \A t \in Token \ used : where[t] = Game!Nowhere

RunnerInv ==
  /\ TypeOK
  /\ DOMAIN result = Transition
  /\ LastInv
  /\ HolderInv
  /\ FreshInv
  /\ UsedInv
  /\ \A tr \in Transition :
       TaskInv(tr) /\ ViewInv(tr) /\ FiringInv(tr) /\ ResultInv(tr)

(***************************************************************************)
(* Positions of tokens, and what is still so at a place.                   *)
(***************************************************************************)

LEMMA PositionsDiffer ==
  ASSUME NEW p \in Place, NEW q \in Place, NEW t \in Transition, NEW u \in Transition
  PROVE  /\ Game!At(p) = Game!At(q) => p = q
         /\ Game!With(t, p) = Game!With(u, q) => t = u /\ p = q
         /\ Game!At(p) # Game!With(t, q)
         /\ Game!At(p) # Game!Nowhere
         /\ Game!With(t, p) # Game!Nowhere
         /\ {Game!Nowhere, Game!At(p), Game!With(t, p)} \subseteq Positions
BY DEF Game!At, Game!With, Game!Nowhere, Positions

LEMMA StillSoReflexive == \A s, p : StillSo(s, s, p)
BY DEF StillSo

LEMMA StillSoTransitive ==
  ASSUME NEW r, NEW s, NEW u, NEW p, StillSo(r, s, p), StillSo(s, u, p)
  PROVE  StillSo(r, u, p)
BY DEF StillSo

\* Nothing changes at a place if no token changes its position there.
LEMMA StillSoPointwise ==
  ASSUME NEW r, NEW s, NEW p,
         \A t \in Token :
           /\ r[t] = Game!At(p) => s[t] = Game!At(p)
           /\ p \in OutputLocking /\ s[t] = Game!At(p) => r[t] = Game!At(p)
           /\ \A tr \in Transition : s[t] = Game!With(tr, p) => r[t] = Game!With(tr, p)
  PROVE  StillSo(r, s, p)
BY DEF StillSo, TokensAt, TakenTokensAt

(***************************************************************************)
(* The initial state.                                                      *)
(***************************************************************************)

LEMMA InitRunnerInv == Init => RunnerInv
<1> SUFFICES ASSUME Init PROVE RunnerInv
  OBVIOUS
<1> USE DEF Init
<1>1. where \in [Token -> Positions]
  BY TransitionRunnerAssumption, PositionsDiffer DEF Positions, TransitionRunnerAssumption
<1>2. nets \in [Node -> Seq([Token -> Positions])]
      /\ \A n \in Node : Len(nets[n]) = 1 /\ nets[n][1] = where
  BY <1>1
<1>3. TypeOK
  BY <1>1, <1>2, TransitionRunnerAssumption
     DEF TypeOK, Locks!Init, FirstNotified, TransitionRunnerAssumption
<1>4. LastInv /\ FreshInv
  <2>1. LastInv
    BY <1>2 DEF LastInv
  <2>2. ASSUME NEW n \in Node, NEW p \in Place, owner[p] = n PROVE FALSE
    BY <2>2, TransitionRunnerAssumption DEF TransitionRunnerAssumption
  <2> QED
    BY <2>1, <2>2 DEF FreshInv
<1>5. HolderInv
  BY DEF HolderInv, Locks!Init
<1>6. UsedInv
  BY DEF UsedInv
<1>7. ASSUME NEW tr \in Transition
      PROVE TaskInv(tr) /\ ViewInv(tr) /\ FiringInv(tr) /\ ResultInv(tr)
  <2>1. \A t \in Token, p \in Place : where[t] # Game!With(tr, p)
    BY TransitionRunnerAssumption, PositionsDiffer DEF TransitionRunnerAssumption
  <2>2. Held(tr) = {}
    BY DEF Held, Locks!Init
  <2> QED
    BY <2>1, <2>2 DEF TaskInv, ViewInv, FiringInv, ResultInv
<1>8. DOMAIN result = Transition
  OBVIOUS
<1> QED
  BY <1>3, <1>4, <1>5, <1>6, <1>7, <1>8 DEF RunnerInv

(***************************************************************************)
(* A transaction, with the release of the locks of its task: everything    *)
(* at places that are not locked is still so, or it is of no concern.      *)
(***************************************************************************)

\* What the store steps of tr do to etcd, to the runners and to the locks.
StoreStep(tr, s) ==
  /\ s \in [Token -> Positions]
  /\ Store(s) /\ ReleaseLocks(tr)
  /\ \A p \in Place : p \in Held(tr) \/ StillSo(where, s, p)

LEMMA StoreNets ==
  ASSUME TypeOK, LastInv, NEW s \in [Token -> Positions], Store(s)
  PROVE  /\ nets' \in [Node -> Seq([Token -> Positions])]
         /\ \A n \in Node :
              /\ Len(nets'[n]) \in 1 .. MaxLag + 1
              /\ Len(nets'[n]) \in {Len(nets[n]), Len(nets[n]) + 1}
              /\ \A i \in 1 .. Len(nets[n]) : nets'[n][i] = nets[n][i]
              /\ nets'[n][Len(nets'[n])] = where'
<1>1. CASE s = where
  BY <1>1 DEF Store, LastInv, TypeOK
<1>2. CASE s # where
  <2>1. /\ where' = s
        /\ nets' = [n \in Node |-> Append(nets[n], s)]
        /\ \A n \in Node : Len(nets[n]) - 1 < MaxLag
    BY <1>2 DEF Store, Lag
  <2>2. ASSUME NEW n \in Node
        PROVE  /\ Append(nets[n], s) \in Seq([Token -> Positions])
               /\ Len(Append(nets[n], s)) = Len(nets[n]) + 1
               /\ \A i \in 1 .. Len(nets[n]) : Append(nets[n], s)[i] = nets[n][i]
               /\ Append(nets[n], s)[Len(nets[n]) + 1] = s
    BY AppendProperties DEF TypeOK
  <2>3. \A n \in Node : Len(nets[n]) \in 1 .. MaxLag + 1
    BY DEF TypeOK
  <2> QED
    BY <2>1, <2>2, <2>3, TransitionRunnerAssumption DEF TransitionRunnerAssumption
<1> QED
  BY <1>1, <1>2

LEMMA StoreFresh ==
  ASSUME TypeOK, LastInv, HolderInv, FreshInv,
         NEW tr \in Transition, NEW s, StoreStep(tr, s)
  PROVE  LastInv' /\ FreshInv'
<1>1. /\ where' = s /\ owner' = owner
      /\ \A n \in Node, p \in Place :
           need'[n][p] = IF n = NodeOf[tr] /\ p \in Held(tr) THEN Len(nets'[n]) - 1
                         ELSE need[n][p]
  BY TransitionRunnerAssumption
     DEF StoreStep, Store, ReleaseLocks, SetMinRevision, TypeOK, TransitionRunnerAssumption
<1>2. \A n \in Node :
        /\ Len(nets'[n]) \in Nat /\ Len(nets[n]) \in Nat
        /\ Len(nets'[n]) \in {Len(nets[n]), Len(nets[n]) + 1}
        /\ \A i \in 1 .. Len(nets[n]) : nets'[n][i] = nets[n][i]
        /\ nets'[n][Len(nets'[n])] = where'
  <2>1. s \in [Token -> Positions] /\ Store(s)
    BY DEF StoreStep
  <2>2. \A n \in Node : Len(nets[n]) \in Nat
    BY DEF TypeOK
  <2>3. MaxLag \in Nat
    BY TransitionRunnerAssumption DEF TransitionRunnerAssumption
  <2> QED
    BY <2>1, <2>2, <2>3, StoreNets
<1>3. LastInv'
  BY <1>2 DEF LastInv
<1>4. ASSUME NEW n \in Node, NEW p \in Place, owner'[p] = n,
             NEW i \in need'[n][p] + 1 .. Len(nets'[n])
      PROVE  StillSo(nets'[n][i], where', p)
  <2>1. need[n][p] \in Nat
    BY DEF TypeOK
  <2>2. CASE i = Len(nets'[n])
    BY <2>2, <1>2, StillSoReflexive
  <2>3. CASE i # Len(nets'[n])
    <3>1. p \notin Held(tr)
      <4>1. SUFFICES ASSUME p \in Held(tr) PROVE FALSE
        OBVIOUS
      <4>2. owner[p] = NodeOf[tr]
        BY <4>1 DEF HolderInv, Held
      <4>3. need'[n][p] = Len(nets'[n]) - 1
        BY <4>1, <4>2, <1>1, <1>4
      <4> QED
        BY <4>3, <2>3, <1>2
    <3>2. need'[n][p] = need[n][p] /\ owner[p] = n
      BY <3>1, <1>1, <1>4
    <3>3. i \in need[n][p] + 1 .. Len(nets[n]) /\ nets'[n][i] = nets[n][i]
      BY <3>2, <2>1, <2>3, <1>2
    <3>4. StillSo(nets[n][i], where, p)
      BY <3>2, <3>3 DEF FreshInv
    <3>5. StillSo(where, where', p)
      BY <3>1, <1>1 DEF StoreStep
    <3> QED
      BY <3>3, <3>4, <3>5, StillSoTransitive
  <2> QED
    BY <2>2, <2>3
<1> QED
  BY <1>3, <1>4 DEF FreshInv

\* The decision of another task, and what it has locked, are as they were.
LEMMA StoreOthers ==
  ASSUME TypeOK, HolderInv,
         NEW tr \in Transition, NEW s, StoreStep(tr, s),
         NEW u \in Transition, u # tr, TaskInv(u), ViewInv(u),
         pc'[u] = pc[u], todo'[u] = todo[u], view'[u] = view[u],
         take'[u] = take[u], result'[u] = result[u]
  PROVE  TaskInv(u)' /\ ViewInv(u)'
<1>1. where' = s /\ Held(u)' = Held(u)
  BY DEF StoreStep, Store, ReleaseLocks, Locks!Drop, Held, TypeOK
<1>2. TaskInv(u)'
  BY <1>1 DEF TaskInv, TargetPlaces
<1>3. ASSUME pc[u] = "start", NEW p \in CondPlaces[u]
      PROVE  StillSo(view[u], where', p)
  <2>1. p \in Place /\ u \in holder[p]
    BY <1>3 DEF TaskInv, Held
  <2>2. p \notin Held(tr)
    BY <2>1 DEF HolderInv, Held
  <2>3. StillSo(view[u], where, p) /\ StillSo(where, where', p)
    BY <1>1, <1>3, <2>1, <2>2 DEF ViewInv, StoreStep
  <2> QED
    BY <2>3, StillSoTransitive
<1>4. ViewInv(u)'
  BY <1>3 DEF ViewInv
<1> QED
  BY <1>2, <1>4

\* After a store step nobody holds what the task has held.
LEMMA StoreHolder ==
  ASSUME TypeOK, HolderInv, NEW tr \in Transition, ReleaseLocks(tr)
  PROVE  /\ HolderInv' /\ Held(tr)' = {}
         /\ holder' \in [Place -> SUBSET Transition]
         /\ owner' = owner
<1>1. holder' = [p \in Place |-> holder[p] \ {tr}] /\ owner' = owner
  BY DEF ReleaseLocks, Locks!Drop
<1> QED
  BY <1>1 DEF HolderInv, Held, TypeOK
(***************************************************************************)
(* A start transaction finds the tokens it takes.                          *)
(***************************************************************************)

\* The tokens a task has decided to take are there when it starts.
LEMMA TakesWhatIsThere ==
  ASSUME NEW tr \in Transition, ViewInv(tr), pc[tr] = "start", NEW k \in take[tr]
  PROVE  k \in InPlaces[tr] \X Token /\ k[1] \in Place /\ where[k[2]] = Game!At(k[1])
<1>1. k \in InPlaces[tr] \X Token /\ view[tr][k[2]] = Game!At(k[1])
  BY DEF ViewInv
<1>2. k[1] \in CondPlaces[tr] /\ k[1] \in Place /\ k[2] \in Token
  BY <1>1, TransitionRunnerAssumption DEF TransitionRunnerAssumption
<1>3. StillSo(view[tr], where, k[1])
  BY <1>2 DEF ViewInv
<1>4. k[2] \in TokensAt(where, k[1])
  BY <1>1, <1>2, <1>3 DEF StillSo, TokensAt
<1> QED
  BY <1>1, <1>2, <1>4 DEF TokensAt

LEMMA StartMoves ==
  ASSUME TypeOK, NEW tr \in Transition, TaskInv(tr), ViewInv(tr), StartTransition(tr)
  PROVE  /\ StoreStep(tr, where')
         /\ \A t \in Token :
              \/ where'[t] = where[t] /\ \A p \in Place : <<p, t>> \notin take[tr]
              \/ \E p \in InPlaces[tr] :
                   /\ p \in Place /\ <<p, t>> \in take[tr]
                   /\ where[t] = Game!At(p) /\ where'[t] = Game!With(tr, p)
<1>1. where' = [t \in Token |->
                  IF \E p \in Place : <<p, t>> \in take[tr]
                  THEN Taken(tr, t, CHOOSE p \in Place : <<p, t>> \in take[tr])
                  ELSE where[t]]
      /\ Store(where') /\ ReleaseLocks(tr) /\ pc[tr] = "start"
  BY DEF StartTransition, Store
<1>2. ASSUME NEW t \in Token, NEW q \in Place, <<q, t>> \in take[tr]
      PROVE  \E p \in InPlaces[tr] :
                /\ p \in Place /\ <<p, t>> \in take[tr]
                /\ where[t] = Game!At(p) /\ where'[t] = Game!With(tr, p)
  <2>1. PICK p \in Place :
          <<p, t>> \in take[tr] /\ where'[t] = Taken(tr, t, p)
    BY <1>1, <1>2
  <2>2. p \in InPlaces[tr] /\ where[t] = Game!At(p)
    BY <2>1, <1>1, TakesWhatIsThere
  <2> QED
    BY <2>1, <2>2 DEF Taken
<1>3. ASSUME NEW t \in Token
      PROVE  \/ where'[t] = where[t] /\ \A p \in Place : <<p, t>> \notin take[tr]
             \/ \E p \in InPlaces[tr] :
                  /\ p \in Place /\ <<p, t>> \in take[tr]
                  /\ where[t] = Game!At(p) /\ where'[t] = Game!With(tr, p)
  BY <1>1, <1>2
<1>4. where' \in [Token -> Positions]
  <2>1. ASSUME NEW t \in Token PROVE where'[t] \in Positions
    <3>1. CASE where'[t] = where[t]
      BY <3>1 DEF TypeOK
    <3>2. CASE where'[t] # where[t]
      <4>1. PICK p \in Place : where'[t] = Game!With(tr, p)
        BY <1>3, <3>2
      <4> QED
        BY <4>1, PositionsDiffer
    <3> QED
      BY <3>1, <3>2
  <2> QED
    BY <1>1, <2>1
<1>5. ASSUME NEW p \in Place, p \notin Held(tr)
      PROVE  StillSo(where, where', p)
  <2>1. p \notin InPlaces[tr]
    BY <1>1, <1>5, TransitionRunnerAssumption DEF TaskInv, TransitionRunnerAssumption
  <2>2. ASSUME NEW t \in Token
        PROVE  /\ where[t] = Game!At(p) => where'[t] = Game!At(p)
               /\ where'[t] = Game!At(p) => where[t] = Game!At(p)
               /\ \A u \in Transition :
                    where'[t] = Game!With(u, p) => where[t] = Game!With(u, p)
    <3>1. CASE where'[t] = where[t]
      BY <3>1
    <3>2. CASE where'[t] # where[t]
      <4>1. PICK q \in InPlaces[tr] :
              q \in Place /\ where[t] = Game!At(q) /\ where'[t] = Game!With(tr, q)
        BY <1>3, <3>2
      <4>2. q # p
        BY <2>1
      <4> QED
        BY <4>1, <4>2, PositionsDiffer
    <3> QED
      BY <3>1, <3>2
  <2> QED
    BY <2>2, StillSoPointwise
<1> QED
  BY <1>1, <1>3, <1>4, <1>5 DEF StoreStep

LEMMA StartNext ==
  ASSUME RunnerInv, NEW tr \in Transition, StartTransition(tr)
  PROVE  RunnerInv'
<1> USE DEF RunnerInv
<1>1. StoreStep(tr, where')
  BY StartMoves
<1>8. \A t \in Token :
        \/ where'[t] = where[t] /\ \A p \in Place : <<p, t>> \notin take[tr]
        \/ \E p \in InPlaces[tr] :
             /\ p \in Place /\ <<p, t>> \in take[tr]
             /\ where[t] = Game!At(p) /\ where'[t] = Game!With(tr, p)
  BY StartMoves
<1>2. HolderInv' /\ Held(tr)' = {} /\ holder' \in [Place -> SUBSET Transition] /\ owner' = owner
  BY StoreHolder DEF StartTransition
<1>3. LastInv' /\ FreshInv'
  BY <1>1, StoreFresh
<1>4. /\ pc' = [pc EXCEPT ![tr] = "run"] /\ view' = [view EXCEPT ![tr] = <<>>]
      /\ UNCHANGED <<used, todo, wakeVars, take, result, await>>
      /\ pc[tr] = "start" /\ todo[tr] = {}
  BY DEF StartTransition, TaskInv
<1>5. TypeOK'
  <2>1. /\ nets' \in [Node -> Seq([Token -> Positions])]
        /\ \A n \in Node : Len(nets'[n]) \in 1 .. MaxLag + 1
    BY <1>1, StoreNets DEF StoreStep
  <2>2. \A n \in Node : Len(nets'[n]) - 1 \in Nat
    BY <2>1, TransitionRunnerAssumption DEF TransitionRunnerAssumption
  <2>3. need' \in [Node -> [Place -> Nat]]
    BY <1>1, <2>2, TransitionRunnerAssumption
       DEF StoreStep, ReleaseLocks, SetMinRevision, TypeOK, TransitionRunnerAssumption
  <2> QED
    BY <1>1, <1>2, <1>4, <2>1, <2>3 DEF TypeOK, StoreStep, wakeVars
<1>6. UsedInv'
  <2>1. ASSUME NEW t \in Token, where[t] = Game!Nowhere PROVE where'[t] = Game!Nowhere
    <3>1. CASE where'[t] = where[t]
      BY <2>1, <3>1
    <3>2. CASE where'[t] # where[t]
      <4>1. PICK p \in Place : where[t] = Game!At(p)
        BY <1>8, <3>2
      <4> QED
        BY <2>1, <4>1, PositionsDiffer
    <3> QED
      BY <3>1, <3>2
  <2> QED
    BY <1>4, <2>1 DEF UsedInv
<1>7. ASSUME NEW u \in Transition
      PROVE TaskInv(u)' /\ ViewInv(u)' /\ FiringInv(u)' /\ ResultInv(u)'
  <2>1. TaskInv(u)' /\ ViewInv(u)'
    <3>1. CASE u = tr
      BY <3>1, <1>2, <1>4 DEF TaskInv, ViewInv, TypeOK
    <3>2. CASE u # tr
      <4>1. /\ pc'[u] = pc[u] /\ todo'[u] = todo[u] /\ view'[u] = view[u]
            /\ take'[u] = take[u] /\ result'[u] = result[u]
        BY <3>2, <1>4 DEF TypeOK
      <4> QED
        BY <3>2, <4>1, <1>1, StoreOthers
    <3> QED
      BY <3>1, <3>2
  <2>2. FiringInv(u)'
    <3>1. take' = take /\ pc'[tr] = "run" /\ (u # tr => pc'[u] = pc[u])
      BY <1>4 DEF TypeOK
    <3>2. ASSUME pc'[u] \in {"run", "finish"}, NEW k \in take[u]
          PROVE  k \in InPlaces[u] \X Token /\ where'[k[2]] = Game!With(u, k[1])
      <4>1. CASE u = tr
        <5>1. k \in InPlaces[tr] \X Token /\ k[1] \in Place /\ where[k[2]] = Game!At(k[1])
          BY <4>1, <1>4, TakesWhatIsThere
        <5>2. k = <<k[1], k[2]>> /\ k[2] \in Token
          BY <5>1
        <5>3. PICK p \in InPlaces[tr] :
                /\ p \in Place
                /\ where[k[2]] = Game!At(p) /\ where'[k[2]] = Game!With(tr, p)
          BY <4>1, <5>1, <5>2, <1>8
        <5>4. p = k[1]
          BY <5>1, <5>3 DEF Game!At
        <5> QED
          BY <4>1, <5>1, <5>3, <5>4
      <4>2. CASE u # tr
        <5>1. k \in InPlaces[u] \X Token /\ where[k[2]] = Game!With(u, k[1])
          BY <3>1, <3>2, <4>2 DEF FiringInv
        <5>2. k[1] \in Place /\ k[2] \in Token
          BY <5>1, TransitionRunnerAssumption DEF TransitionRunnerAssumption
        <5>3. \A p \in Place : where[k[2]] # Game!At(p)
          BY <5>1, <5>2, PositionsDiffer
        <5>4. where'[k[2]] = where[k[2]]
          BY <5>2, <5>3, <1>8
        <5> QED
          BY <5>1, <5>4
      <4> QED
        BY <4>1, <4>2
    <3>3. ASSUME NEW t \in Token, NEW p \in Place, where'[t] = Game!With(u, p)
          PROVE  pc'[u] \in {"run", "finish"} /\ <<p, t>> \in take[u]
      <4>1. CASE where'[t] = where[t]
        BY <3>1, <3>3, <4>1 DEF FiringInv
      <4>2. CASE where'[t] # where[t]
        <5>1. PICK q \in Place :
                <<q, t>> \in take[tr] /\ where'[t] = Game!With(tr, q)
          BY <4>2, <1>8
        <5>2. tr = u /\ q = p
          BY <3>3, <5>1 DEF Game!With
        <5> QED
          BY <3>1, <5>1, <5>2
      <4> QED
        BY <4>1, <4>2
    <3> QED
      BY <3>1, <3>2, <3>3 DEF FiringInv
  <2>3. ResultInv(u)'
    BY <1>4 DEF ResultInv, TypeOK
  <2> QED
    BY <2>1, <2>2, <2>3
<1> QED
  BY <1>2, <1>3, <1>4, <1>5, <1>6, <1>7
(***************************************************************************)
(* An end transaction moves the tokens of the firing, and new ones.        *)
(***************************************************************************)

\* Token t is put to one of the places Q, which is locked if it has to be.
PutAt(tr, t, Q) ==
  \E q \in Q : /\ q \in Place /\ where'[t] = Game!At(q)
               /\ q \in OutputLocking => q \in Held(tr)

\* What becomes of a token of the firing, and of any other token.
Finished(tr, t) ==
  \E k \in take[tr] :
    /\ k[2] = t /\ k[1] \in InPlaces[tr] /\ k[1] \in Place
    /\ where[t] = Game!With(tr, k[1])
    /\ where'[t] = Game!Nowhere \/ PutAt(tr, t, OutPlaces[tr] \cup {k[1]})

Untouched(tr, t) ==
  /\ \A k \in take[tr] : k[2] # t
  /\ \/ where'[t] = where[t]
     \/ t \notin used /\ t \in used' /\ PutAt(tr, t, OutPlaces[tr])

LEMMA EndMoves ==
  ASSUME TypeOK, UsedInv, NEW tr \in Transition,
         TaskInv(tr), FiringInv(tr), ResultInv(tr), EndTransition(tr)
  PROVE  /\ StoreStep(tr, where')
         /\ used \subseteq used' /\ used' \in SUBSET Token
         /\ \A t \in Token : Finished(tr, t) \/ Untouched(tr, t)
<1>0. PICK I \in SUBSET (Token \ used) :
         /\ \E ids \in Bijection(I, result[tr].new) :
              where' = [t \in Token |-> Left(tr, t, ids)]
         /\ used' = used \cup I
  BY DEF EndTransition, Store
<1>1. PICK ids \in [I -> result[tr].new] :
        /\ where' = [t \in Token |-> Left(tr, t, ids)]
        /\ used' = used \cup I
  BY <1>0 DEF Bijection, Injection
<1>2. Store(where') /\ ReleaseLocks(tr) /\ pc[tr] = "finish" /\ todo[tr] = {}
  BY DEF EndTransition, Store
<1>3. /\ DOMAIN result[tr].goes = take[tr]
      /\ \A k \in take[tr] : result[tr].goes[k] \in Fates(tr, k)
      /\ result[tr].new \subseteq OutPlaces[tr]
  BY <1>2 DEF ResultInv
<1>4. \A q \in Place :
        /\ q \in OutputLocking
        /\ q \in result[tr].new \/ \E k \in take[tr] : result[tr].goes[k] = q
        => q \in Held(tr)
  BY <1>2, <1>3 DEF TaskInv, TargetPlaces
<1>5. \A k \in take[tr] :
        /\ k \in InPlaces[tr] \X Token /\ k[1] \in Place
        /\ where[k[2]] = Game!With(tr, k[1])
  BY <1>2, TransitionRunnerAssumption DEF FiringInv, TransitionRunnerAssumption
<1>6. OutPlaces[tr] \subseteq Place /\ InPlaces[tr] \subseteq Place /\ Destroyed \notin Place
  BY TransitionRunnerAssumption DEF TransitionRunnerAssumption, Destroyed
<1>7. ASSUME NEW t \in Token, NEW j \in take[tr], j[2] = t
      PROVE  Finished(tr, t)
  <2>1. PICK k \in take[tr] :
          /\ k[2] = t
          /\ where'[t] = IF result[tr].goes[k] = Destroyed THEN Game!Nowhere
                         ELSE Game!At(result[tr].goes[k])
    <3> DEFINE mine == {k \in take[tr] : k[2] = t}
               key == CHOOSE k \in mine : TRUE
    <3>1. mine # {} /\ key \in mine
      BY <1>7
    <3>2. where'[t] = IF result[tr].goes[key] = Destroyed THEN Game!Nowhere
                      ELSE Game!At(result[tr].goes[key])
      BY <1>1, <3>1 DEF Left
    <3> QED
      BY <3>1, <3>2
  <2>2. where'[t] = Game!Nowhere \/ PutAt(tr, t, OutPlaces[tr] \cup {k[1]})
    <3>1. CASE result[tr].goes[k] = Destroyed
      BY <2>1, <3>1
    <3>2. CASE result[tr].goes[k] # Destroyed
      <4> DEFINE q == result[tr].goes[k]
      <4>1. q \in OutPlaces[tr] \cup {k[1]} /\ q \in Place
        BY <1>3, <1>5, <1>6, <3>2 DEF Fates
      <4>2. q \in OutputLocking => q \in Held(tr)
        BY <1>4, <4>1
      <4>3. where'[t] = Game!At(q)
        BY <2>1, <3>2
      <4> HIDE DEF q
      <4> QED
        BY <4>1, <4>2, <4>3 DEF PutAt
    <3> QED
      BY <3>1, <3>2
  <2> QED
    BY <1>5, <2>1, <2>2 DEF Finished
<1>8. ASSUME NEW t \in Token, \A k \in take[tr] : k[2] # t
      PROVE  Untouched(tr, t)
  <2>1. where'[t] = IF t \in DOMAIN ids THEN Game!At(ids[t]) ELSE where[t]
    BY <1>1, <1>8 DEF Left
  <2>2. CASE t \in I
    <3>1. where'[t] = Game!At(ids[t]) /\ ids[t] \in result[tr].new
      BY <2>1, <2>2
    <3>2. ids[t] \in OutPlaces[tr] /\ ids[t] \in Place
      BY <1>3, <1>6, <3>1
    <3>3. PutAt(tr, t, OutPlaces[tr])
      BY <1>4, <3>1, <3>2 DEF PutAt
    <3> QED
      BY <1>1, <1>8, <2>2, <3>3 DEF Untouched
  <2>3. CASE t \notin I
    BY <1>8, <2>1, <2>3 DEF Untouched
  <2> QED
    BY <2>2, <2>3
<1>9. \A t \in Token : Finished(tr, t) \/ Untouched(tr, t)
  BY <1>7, <1>8
<1>10. where' \in [Token -> Positions]
  <2>1. ASSUME NEW t \in Token PROVE where'[t] \in Positions
    <3>1. Game!Nowhere \in Positions /\ \A q \in Place : Game!At(q) \in Positions
      BY DEF Positions
    <3>2. where[t] \in Positions
      BY DEF TypeOK
    <3> QED
      BY <1>9, <3>1, <3>2 DEF Finished, Untouched, PutAt
  <2> QED
    BY <1>1, <2>1
<1>11. ASSUME NEW p \in Place, p \notin Held(tr)
       PROVE  StillSo(where, where', p)
  <2>1. ASSUME NEW t \in Token
        PROVE  /\ where[t] = Game!At(p) => where'[t] = Game!At(p)
               /\ p \in OutputLocking /\ where'[t] = Game!At(p) => where[t] = Game!At(p)
               /\ \A u \in Transition :
                    where'[t] = Game!With(u, p) => where[t] = Game!With(u, p)
    <3>1. CASE where'[t] = where[t]
      BY <3>1
    <3>2. CASE where'[t] # where[t]
      <4>1. where[t] # Game!At(p)
        <5>1. CASE Finished(tr, t)
          BY <5>1, PositionsDiffer DEF Finished
        <5>2. CASE Untouched(tr, t)
          BY <5>2, <3>2, <1>11, PositionsDiffer DEF Untouched, UsedInv
        <5> QED
          BY <5>1, <5>2, <1>9
      <4>2. where'[t] = Game!Nowhere \/ PutAt(tr, t, Place)
        BY <1>6, <1>9, <3>2 DEF Finished, Untouched, PutAt
      <4>3. CASE where'[t] = Game!Nowhere
        BY <4>1, <4>3, PositionsDiffer
      <4>4. CASE PutAt(tr, t, Place)
        <5>1. PICK q \in Place :
                where'[t] = Game!At(q) /\ (q \in OutputLocking => q \in Held(tr))
          BY <4>4 DEF PutAt
        <5>2. p \in OutputLocking => where'[t] # Game!At(p)
          BY <5>1, <1>11 DEF Game!At
        <5>3. \A u \in Transition : where'[t] # Game!With(u, p)
          BY <5>1, PositionsDiffer
        <5> QED
          BY <4>1, <5>2, <5>3
      <4> QED
        BY <4>2, <4>3, <4>4
    <3> QED
      BY <3>1, <3>2
  <2> QED
    BY <2>1, StillSoPointwise
<1>12. used \subseteq used' /\ used' \in SUBSET Token
  BY <1>1 DEF TypeOK
<1> QED
  BY <1>2, <1>9, <1>10, <1>11, <1>12 DEF StoreStep

LEMMA EndNext ==
  ASSUME RunnerInv, NEW tr \in Transition, EndTransition(tr)
  PROVE  RunnerInv'
<1> USE DEF RunnerInv
<1>1. /\ StoreStep(tr, where')
      /\ used \subseteq used' /\ used' \in SUBSET Token
      /\ \A t \in Token : Finished(tr, t) \/ Untouched(tr, t)
  BY EndMoves
<1>2. HolderInv' /\ Held(tr)' = {} /\ holder' \in [Place -> SUBSET Transition] /\ owner' = owner
  BY StoreHolder DEF EndTransition
<1>3. LastInv' /\ FreshInv'
  BY <1>1, StoreFresh
<1>4. /\ pc' = [pc EXCEPT ![tr] = "sync"] /\ take' = [take EXCEPT ![tr] = {}]
      /\ result' = [result EXCEPT ![tr] = Empty]
      /\ await' = [await EXCEPT ![tr] = Len(nets'[NodeOf[tr]]) - 1]
      /\ UNCHANGED <<todo, wakeVars, view>>
      /\ pc[tr] = "finish" /\ todo[tr] = {}
  BY DEF EndTransition
<1>5. TypeOK'
  <2>1. /\ nets' \in [Node -> Seq([Token -> Positions])]
        /\ \A n \in Node : Len(nets'[n]) \in 1 .. MaxLag + 1
    BY <1>1, StoreNets DEF StoreStep
  <2>2. \A n \in Node : Len(nets'[n]) - 1 \in Nat
    BY <2>1, TransitionRunnerAssumption DEF TransitionRunnerAssumption
  <2>3. need' \in [Node -> [Place -> Nat]]
    BY <1>1, <2>2, TransitionRunnerAssumption
       DEF StoreStep, ReleaseLocks, SetMinRevision, TypeOK, TransitionRunnerAssumption
  <2>4. await' \in [Transition -> Nat]
    BY <1>4, <2>2, TransitionRunnerAssumption DEF TypeOK, TransitionRunnerAssumption
  <2> QED
    BY <1>1, <1>2, <1>4, <2>1, <2>3, <2>4 DEF TypeOK, StoreStep, wakeVars
<1>6. UsedInv'
  <2>1. ASSUME NEW t \in Token, t \notin used' PROVE where'[t] = Game!Nowhere
    <3>1. where[t] = Game!Nowhere
      BY <1>1, <2>1 DEF UsedInv
    <3>2. ~Finished(tr, t)
      BY <3>1, PositionsDiffer DEF Finished
    <3> QED
      BY <1>1, <2>1, <3>1, <3>2 DEF Untouched
  <2> QED
    BY <2>1 DEF UsedInv
<1>7. ASSUME NEW u \in Transition
      PROVE TaskInv(u)' /\ ViewInv(u)' /\ FiringInv(u)' /\ ResultInv(u)'
  <2>1. TaskInv(u)' /\ ViewInv(u)' /\ ResultInv(u)'
    <3>1. CASE u = tr
      BY <3>1, <1>2, <1>4 DEF TaskInv, ViewInv, ResultInv, TypeOK
    <3>2. CASE u # tr
      <4>1. /\ pc'[u] = pc[u] /\ todo'[u] = todo[u] /\ view'[u] = view[u]
            /\ take'[u] = take[u] /\ result'[u] = result[u]
        BY <3>2, <1>4 DEF TypeOK
      <4>2. TaskInv(u)' /\ ViewInv(u)'
        BY <3>2, <4>1, <1>1, StoreOthers
      <4>3. ResultInv(u)'
        BY <4>1 DEF ResultInv
      <4> QED
        BY <4>2, <4>3
    <3> QED
      BY <3>1, <3>2
  <2>2. FiringInv(u)'
    <3>1. /\ pc'[tr] = "sync"
          /\ u # tr => pc'[u] = pc[u] /\ take'[u] = take[u]
      BY <1>4 DEF TypeOK
    <3>2. ASSUME pc'[u] \in {"run", "finish"}, NEW k \in take'[u]
          PROVE  k \in InPlaces[u] \X Token /\ where'[k[2]] = Game!With(u, k[1])
      <4>1. u # tr /\ k \in take[u] /\ pc[u] \in {"run", "finish"}
        BY <3>1, <3>2
      <4>2. k \in InPlaces[u] \X Token /\ where[k[2]] = Game!With(u, k[1])
        BY <4>1 DEF FiringInv
      <4>3. k[1] \in Place /\ k[2] \in Token
        BY <4>2, TransitionRunnerAssumption DEF TransitionRunnerAssumption
      <4>4. ~Finished(tr, k[2])
        <5>1. SUFFICES ASSUME Finished(tr, k[2]) PROVE FALSE
          OBVIOUS
        <5>2. PICK p \in Place : where[k[2]] = Game!With(tr, p)
          BY <5>1 DEF Finished
        <5>3. Game!With(tr, p) = Game!With(u, k[1])
          BY <4>2, <5>2
        <5> QED
          BY <4>1, <5>3 DEF Game!With
      <4>5. k[2] \in used
        BY <4>2, <4>3, PositionsDiffer DEF UsedInv
      <4>6. where'[k[2]] = where[k[2]]
        BY <1>1, <4>3, <4>4, <4>5 DEF Untouched
      <4> QED
        BY <4>2, <4>6
    <3>3. ASSUME NEW t \in Token, NEW p \in Place, where'[t] = Game!With(u, p)
          PROVE  pc'[u] \in {"run", "finish"} /\ <<p, t>> \in take'[u]
      <4>1. ~PutAt(tr, t, Place) /\ where'[t] # Game!Nowhere
        BY <3>3, PositionsDiffer DEF PutAt
      <4>2. (\A k \in take[tr] : k[2] # t) /\ where'[t] = where[t]
        BY <1>1, <4>1 DEF Finished, Untouched, PutAt
      <4>3. pc[u] \in {"run", "finish"} /\ <<p, t>> \in take[u]
        BY <3>3, <4>2 DEF FiringInv
      <4> QED
        BY <3>1, <4>2, <4>3
    <3> QED
      BY <3>2, <3>3 DEF FiringInv
  <2> QED
    BY <2>1, <2>2
<1>8. DOMAIN result' = Transition
  BY <1>4
<1> QED
  BY <1>2, <1>3, <1>5, <1>6, <1>7, <1>8

(***************************************************************************)
(* The main loop applies a change: the minimal revisions come nearer.      *)
(***************************************************************************)

LEMMA ApplyNextChange ==
  ASSUME RunnerInv, NEW n \in Node, ApplyChange(n)
  PROVE  RunnerInv'
<1> USE DEF RunnerInv
<1>1. /\ nets' = [nets EXCEPT ![n] = Tail(@)]
      /\ need' = [need EXCEPT ![n] = [p \in Place |-> Less(@[p])]]
      /\ UNCHANGED <<where, used, holder, owner, pc, todo, waitFor, timer, view, take, result>>
      /\ Len(nets[n]) > 1
  BY DEF ApplyChange, fireVars
<1>2. /\ Tail(nets[n]) \in Seq([Token -> Positions])
      /\ Len(Tail(nets[n])) = Len(nets[n]) - 1
      /\ \A i \in 1 .. Len(nets[n]) - 1 : Tail(nets[n])[i] = nets[n][i + 1]
  <2>1. nets[n] \in Seq([Token -> Positions]) /\ nets[n] # <<>>
    BY <1>1 DEF TypeOK
  <2> QED
    BY <2>1, HeadTailProperties
<1>3. \A m \in Node : Len(nets[m]) \in Nat /\ Len(nets[m]) <= MaxLag + 1
  BY TransitionRunnerAssumption DEF TypeOK, TransitionRunnerAssumption
<1>4. \A k \in Nat : Less(k) \in Nat
  BY DEF Less
<1>5. TypeOK'
  <2>1. /\ nets' \in [Node -> Seq([Token -> Positions])]
        /\ \A m \in Node : Len(nets'[m]) \in 1 .. MaxLag + 1
    BY <1>1, <1>2, <1>3, TransitionRunnerAssumption DEF TypeOK, TransitionRunnerAssumption
  <2>2. need' \in [Node -> [Place -> Nat]]
    BY <1>1, <1>4 DEF TypeOK
  <2>3. await' \in [Transition -> Nat] /\ changed' \in [Transition -> SUBSET Place]
    BY <1>4, TransitionRunnerAssumption DEF ApplyChange, TypeOK, TransitionRunnerAssumption
  <2> QED
    BY <1>1, <2>1, <2>2, <2>3 DEF TypeOK
<1>6. LastInv'
  BY <1>1, <1>2, <1>3 DEF LastInv, TypeOK
<1>7. ASSUME NEW m \in Node, NEW p \in Place, owner'[p] = m,
             NEW i \in need'[m][p] + 1 .. Len(nets'[m])
      PROVE  StillSo(nets'[m][i], where', p)
  <2>1. need[m][p] \in Nat /\ owner[p] = m /\ where' = where
    BY <1>1, <1>7 DEF TypeOK
  <2>2. CASE m = n
    <3>1. need'[m][p] = Less(need[m][p]) /\ nets'[m] = Tail(nets[m])
      BY <1>1, <2>2 DEF TypeOK
    <3>2. i + 1 \in need[m][p] + 1 .. Len(nets[m]) /\ nets'[m][i] = nets[m][i + 1]
      BY <1>2, <1>3, <1>7, <2>1, <2>2, <3>1 DEF Less
    <3> QED
      BY <2>1, <3>2 DEF FreshInv
  <2>3. CASE m # n
    <3>1. need'[m][p] = need[m][p] /\ nets'[m] = nets[m]
      BY <1>1, <2>3 DEF TypeOK
    <3> QED
      BY <1>7, <2>1, <3>1 DEF FreshInv
  <2> QED
    BY <2>2, <2>3
<1>8. FreshInv'
  BY <1>7 DEF FreshInv
<1>9. HolderInv' /\ UsedInv'
  BY <1>1 DEF HolderInv, UsedInv
<1>10. \A u \in Transition : TaskInv(u)' /\ ViewInv(u)' /\ FiringInv(u)' /\ ResultInv(u)'
  BY <1>1 DEF TaskInv, Held, ViewInv, FiringInv, ResultInv
<1> QED
  BY <1>1, <1>5, <1>6, <1>8, <1>9, <1>10

(***************************************************************************)
(* The other steps.                                                        *)
(***************************************************************************)

\* What check_start returns: tokens it has seen at in places of tr, or a
\* place of the transition to wait for.
LEMMA CheckStartSound ==
  ASSUME NEW tr \in Transition, NEW s, NEW d \in CheckStart(tr, s)
  PROVE  /\ d.go => \A k \in d.take : k \in InPlaces[tr] \X Token /\ s[k[2]] = Game!At(k[1])
         /\ ~d.go => d.waitFor \in Place \cup {NoPlace} /\ d.timer \in BOOLEAN
<1> USE TransitionRunnerAssumption DEF TransitionRunnerAssumption, Enabled, Disabled
<1>1. CASE Executor[tr] = "initialize"
  <2>1. d = Disabled(NoPlace, FALSE) \/ d = Enabled({})
    BY <1>1 DEF CheckStart, Initialize
  <2>2. CASE d = Disabled(NoPlace, FALSE)
    BY <2>2
  <2>3. CASE d = Enabled({})
    <3>1. d.go /\ d.take = {}
      BY <2>3
    <3> QED
      BY <3>1
  <2> QED
    BY <2>1, <2>2, <2>3
<1>2. CASE Executor[tr] = "move"
  <2>1. \/ \E p \in InPlaces[tr] : d = Disabled(p, FALSE)
        \/ \E p \in InPlaces[tr], t \in Token : t \in TokensAt(s, p) /\ d = Enabled({<<p, t>>})
    BY <1>2 DEF CheckStart, Move
  <2>2. CASE \E p \in InPlaces[tr] : d = Disabled(p, FALSE)
    BY <2>2
  <2>3. CASE \E p \in InPlaces[tr], t \in Token :
               t \in TokensAt(s, p) /\ d = Enabled({<<p, t>>})
    BY <2>3 DEF TokensAt
  <2> QED
    BY <2>1, <2>2, <2>3
<1>3. CASE Executor[tr] = "any"
  <2>1. CASE d.go
    <3>1. PICK X \in SUBSET (InPlaces[tr] \X Token) :
            d = Enabled(X) /\ \A k \in X : k[2] \in TokensAt(s, k[1])
      BY <1>3, <2>1 DEF CheckStart, AnyExecutor
    <3> QED
      BY <2>1, <3>1 DEF TokensAt
  <2>2. CASE ~d.go
    <3>1. PICK p \in CondPlaces[tr] \cup {NoPlace}, auto \in BOOLEAN : d = Disabled(p, auto)
      BY <1>3, <2>2 DEF CheckStart, AnyExecutor
    <3> QED
      BY <2>2, <3>1
  <2> QED
    BY <2>1, <2>2
<1> QED
  BY <1>1, <1>2, <1>3

\* What run returns: every token it was given goes somewhere it may go.
LEMMA RunResultsSound ==
  ASSUME NEW tr \in Transition, NEW r \in RunResults(tr)
  PROVE  /\ DOMAIN r.goes = take[tr]
         /\ \A k \in take[tr] : r.goes[k] \in Fates(tr, k)
         /\ r.new \subseteq OutPlaces[tr]
<1> USE TransitionRunnerAssumption DEF TransitionRunnerAssumption, Fates
<1>1. CASE Executor[tr] = "initialize"
  BY <1>1 DEF RunResults
<1>2. CASE Executor[tr] = "move"
  BY <1>2 DEF RunResults
<1>3. CASE Executor[tr] = "any"
  BY <1>3 DEF RunResults
<1> QED
  BY <1>1, <1>2, <1>3

LEMMA WaitNext ==
  ASSUME RunnerInv, NEW tr \in Transition, WaitForChange(tr)
  PROVE  RunnerInv'
<1> USE DEF RunnerInv, WaitForChange, storeVars, lockVars, fireVars
<1>1. TypeOK'
  BY TransitionRunnerAssumption DEF TypeOK, TransitionRunnerAssumption
<1>2. LastInv' /\ HolderInv' /\ FreshInv' /\ UsedInv'
  BY DEF LastInv, HolderInv, FreshInv, UsedInv
<1>3. \A u \in Transition : TaskInv(u)' /\ ViewInv(u)' /\ FiringInv(u)' /\ ResultInv(u)'
  BY DEF TypeOK, TaskInv, Held, ViewInv, FiringInv, ResultInv
<1> QED
  BY <1>1, <1>2, <1>3

LEMMA SyncedNext ==
  ASSUME RunnerInv, NEW tr \in Transition, Synced(tr)
  PROVE  RunnerInv'
<1> USE DEF RunnerInv, Synced, Noticed, storeVars, lockVars, fireVars
<1>1. TypeOK'
  BY DEF TypeOK
<1>2. LastInv' /\ HolderInv' /\ FreshInv' /\ UsedInv'
  BY DEF LastInv, HolderInv, FreshInv, UsedInv
<1>3. \A u \in Transition : TaskInv(u)' /\ ViewInv(u)' /\ FiringInv(u)' /\ ResultInv(u)'
  BY DEF TypeOK, TaskInv, Held, ViewInv, FiringInv, ResultInv
<1> QED
  BY <1>1, <1>2, <1>3

LEMMA FirstCheckNext ==
  ASSUME RunnerInv, NEW tr \in Transition, FirstCheck(tr)
  PROVE  RunnerInv'
<1> USE DEF RunnerInv
<1>1. PICK d \in CheckStart(tr, Copy(tr)) :
        IF d.go
        THEN /\ pc' = [pc EXCEPT ![tr] = "lock"]
             /\ todo' = [todo EXCEPT ![tr] = CondPlaces[tr]]
             /\ UNCHANGED wakeVars
        ELSE GoToSleep(tr, d) /\ UNCHANGED todo
  BY DEF FirstCheck
<1>2. pc[tr] = "check" /\ UNCHANGED <<storeVars, lockVars, fireVars, await>>
  BY DEF FirstCheck
<1>3. ~d.go => d.waitFor \in Place \cup {NoPlace} /\ d.timer \in BOOLEAN
  BY CheckStartSound
<1>4. TypeOK'
  <2>1. /\ pc' \in [Transition -> {"wait", "check", "lock", "start", "run", "finish", "sync"}]
        /\ todo' \in [Transition -> SUBSET Place]
        /\ changed' \in [Transition -> SUBSET Place]
        /\ waitFor' \in [Transition -> Place \cup {NoPlace}]
        /\ timer' \in [Transition -> BOOLEAN]
    <3>1. CASE d.go
      <4>1. /\ pc' = [pc EXCEPT ![tr] = "lock"]
            /\ todo' = [todo EXCEPT ![tr] = CondPlaces[tr]]
            /\ changed' = changed /\ waitFor' = waitFor /\ timer' = timer
        BY <1>1, <3>1 DEF wakeVars
      <4>2. CondPlaces[tr] \in SUBSET Place
        BY TransitionRunnerAssumption DEF TransitionRunnerAssumption
      <4> QED
        BY <4>1, <4>2 DEF TypeOK
    <3>2. CASE ~d.go
      <4>1. /\ pc' = [pc EXCEPT ![tr] = "wait"]
            /\ waitFor' = [waitFor EXCEPT ![tr] = d.waitFor]
            /\ timer' = [timer EXCEPT ![tr] = d.timer]
            /\ changed' = changed /\ todo' = todo
        BY <1>1, <3>2 DEF GoToSleep
      <4> QED
        BY <1>3, <3>2, <4>1 DEF TypeOK
    <3> QED
      BY <3>1, <3>2
  <2> QED
    BY <1>2, <2>1 DEF TypeOK, storeVars, lockVars, fireVars
<1>5. LastInv' /\ HolderInv' /\ FreshInv' /\ UsedInv'
  BY <1>2 DEF LastInv, HolderInv, FreshInv, UsedInv, storeVars, lockVars
<1>6. \A u \in Transition : TaskInv(u)' /\ ViewInv(u)' /\ FiringInv(u)' /\ ResultInv(u)'
  BY <1>1, <1>2
     DEF GoToSleep, TypeOK, TaskInv, Held, ViewInv, FiringInv, ResultInv, storeVars, lockVars,
         fireVars
<1> QED
  BY <1>2, <1>4, <1>5, <1>6 DEF fireVars

LEMMA AcquireNext ==
  ASSUME RunnerInv, NEW tr \in Transition, NEW p \in Place, Acquire(tr, p)
  PROVE  RunnerInv'
<1> USE DEF RunnerInv
<1> DEFINE n == NodeOf[tr]
<1>1. /\ p \in todo[tr] /\ owner[p] \in {n, NoNode}
      /\ holder[p] = {} /\ holder' = [holder EXCEPT ![p] = {tr}]
      /\ owner' = [owner EXCEPT ![p] = n]
      /\ need' = IF owner[p] = n THEN need ELSE [need EXCEPT ![n][p] = Len(nets[n]) - 1]
      /\ todo' = [todo EXCEPT ![tr] = @ \ {p}]
      /\ UNCHANGED <<storeVars, pc, wakeVars, fireVars, await>>
  BY DEF Acquire, Locks!Take, GrantedRevision, Lag
<1>2. n \in Node /\ Len(nets[n]) - 1 \in Nat
  BY TransitionRunnerAssumption DEF TypeOK, TransitionRunnerAssumption
<1>3. TypeOK'
  <2>1. need' \in [Node -> [Place -> Nat]]
    BY <1>1, <1>2 DEF TypeOK
  <2> QED
    BY <1>1, <1>2, <2>1 DEF TypeOK, storeVars, fireVars, wakeVars
<1>4. LastInv' /\ UsedInv'
  BY <1>1 DEF LastInv, UsedInv, storeVars
<1>5. HolderInv'
  BY <1>1 DEF HolderInv, TypeOK
<1>6. ASSUME NEW m \in Node, NEW q \in Place, owner'[q] = m,
             NEW i \in need'[m][q] + 1 .. Len(nets'[m])
      PROVE  StillSo(nets'[m][i], where', q)
  <2>1. nets' = nets /\ where' = where
    BY <1>1 DEF storeVars
  <2>2. CASE q = p /\ owner[p] # n
    <3>1. m = n /\ need'[m][q] = Len(nets[n]) - 1
      BY <1>1, <1>2, <1>6, <2>2 DEF TypeOK
    <3>2. i = Len(nets[n])
      BY <1>2, <1>6, <2>1, <3>1
    <3> QED
      BY <2>1, <3>1, <3>2, StillSoReflexive DEF LastInv
  <2>3. CASE ~(q = p /\ owner[p] # n)
    <3>1. owner[q] = m
      BY <1>1, <1>6, <2>3 DEF TypeOK
    <3>2. need'[m][q] = need[m][q]
      BY <1>1, <1>2, <2>3 DEF TypeOK
    <3> QED
      BY <1>6, <2>1, <3>1, <3>2 DEF FreshInv
  <2> QED
    BY <2>2, <2>3
<1>7. FreshInv'
  BY <1>6 DEF FreshInv
<1>8. ASSUME NEW u \in Transition
      PROVE  TaskInv(u)' /\ ViewInv(u)' /\ FiringInv(u)' /\ ResultInv(u)'
  <2>1. Held(u)' = IF u = tr THEN Held(u) \cup {p} ELSE Held(u)
    BY <1>1 DEF Held, TypeOK
  <2>2. todo'[u] = IF u = tr THEN todo[u] \ {p} ELSE todo[u]
    BY <1>1 DEF TypeOK
  <2>3. pc' = pc /\ result' = result
    BY <1>1 DEF fireVars
  <2>4. TaskInv(u)'
    BY <1>1, <2>1, <2>2, <2>3 DEF TaskInv
  <2>5. ViewInv(u)' /\ FiringInv(u)' /\ ResultInv(u)'
    BY <1>1 DEF ViewInv, FiringInv, ResultInv, storeVars, fireVars
  <2> QED
    BY <2>4, <2>5
<1>9. DOMAIN result' = Transition
  BY <1>1 DEF fireVars
<1> QED
  BY <1>3, <1>4, <1>5, <1>7, <1>8, <1>9

\* When a task has all the locks and its net has reached their revisions, the
\* net shows the places as they are in etcd.
LEMMA NetIsRight ==
  ASSUME RunnerInv, NEW tr \in Transition, pc[tr] = "lock", todo[tr] = {}, NetIsRecent(tr),
         NEW p \in CondPlaces[tr]
  PROVE  StillSo(Copy(tr), where, p)
<1> DEFINE n == NodeOf[tr]
<1>1. p \in Held(tr) /\ p \in Place /\ n \in Node
  BY TransitionRunnerAssumption DEF RunnerInv, TaskInv, Held, TransitionRunnerAssumption
<1>2. need[n][p] = 0 /\ owner[p] = n
  BY <1>1 DEF NetIsRecent, RunnerInv, HolderInv, Held
<1>3. nets[n] \in Seq([Token -> Positions]) /\ Len(nets[n]) \in 1 .. MaxLag + 1
  BY <1>1 DEF RunnerInv, TypeOK
<1>4. 1 \in need[n][p] + 1 .. Len(nets[n]) /\ Copy(tr) = nets[n][1]
  BY <1>2, <1>3, TransitionRunnerAssumption DEF Copy, TransitionRunnerAssumption
<1> QED
  BY <1>1, <1>2, <1>4 DEF RunnerInv, FreshInv

LEMMA SecondCheckNext ==
  ASSUME RunnerInv, NEW tr \in Transition, SecondCheck(tr)
  PROVE  RunnerInv'
<1> USE DEF RunnerInv
<1>1. PICK d \in CheckStart(tr, Copy(tr)) :
        IF d.go
        THEN /\ pc' = [pc EXCEPT ![tr] = "start"]
             /\ view' = [view EXCEPT ![tr] = Copy(tr)]
             /\ take' = [take EXCEPT ![tr] = d.take]
             /\ UNCHANGED <<lockVars, wakeVars>>
        ELSE GoToSleep(tr, d) /\ Locks!Drop({tr}) /\ UNCHANGED <<owner, need, view, take>>
  BY DEF SecondCheck
<1>2. /\ pc[tr] = "lock" /\ todo[tr] = {} /\ NetIsRecent(tr)
      /\ UNCHANGED <<storeVars, todo, result, await>>
  BY DEF SecondCheck
<1>3. /\ d.go => \A k \in d.take : k \in InPlaces[tr] \X Token /\ Copy(tr)[k[2]] = Game!At(k[1])
      /\ ~d.go => d.waitFor \in Place \cup {NoPlace} /\ d.timer \in BOOLEAN
  BY CheckStartSound
<1>4. Copy(tr) \in [Token -> Positions]
  BY TransitionRunnerAssumption DEF Copy, TypeOK, TransitionRunnerAssumption
<1>5. \A p \in CondPlaces[tr] : StillSo(Copy(tr), where, p)
  BY <1>2, NetIsRight
<1>6. LastInv' /\ UsedInv'
  BY <1>2 DEF LastInv, UsedInv, storeVars
<1>7. CASE d.go
  <2>1. d.take \in SUBSET (Place \X Token)
    BY <1>3, <1>7, TransitionRunnerAssumption DEF TransitionRunnerAssumption
  <2>2. TypeOK'
    <3>1. /\ pc' = [pc EXCEPT ![tr] = "start"] /\ view' = [view EXCEPT ![tr] = Copy(tr)]
          /\ take' = [take EXCEPT ![tr] = d.take]
          /\ UNCHANGED <<storeVars, lockVars, wakeVars, todo, result, await>>
      BY <1>1, <1>2, <1>7
    <3> QED
      BY <1>4, <2>1, <3>1 DEF TypeOK, storeVars, lockVars, wakeVars
  <2>3. HolderInv' /\ FreshInv'
    BY <1>1, <1>2, <1>7 DEF HolderInv, FreshInv, storeVars, lockVars
  <2>4. ASSUME NEW u \in Transition
        PROVE  TaskInv(u)' /\ ViewInv(u)' /\ FiringInv(u)' /\ ResultInv(u)'
    <3>1. where' = where /\ Held(u)' = Held(u) /\ todo' = todo /\ result' = result
      BY <1>1, <1>2, <1>7 DEF Held, storeVars, lockVars
    <3>2. CASE u = tr
      <4>1. pc'[u] = "start" /\ view'[u] = Copy(tr) /\ take'[u] = d.take
        BY <1>1, <1>7, <3>2 DEF TypeOK
      <4>2. TaskInv(u)' /\ ResultInv(u)'
        BY <1>2, <3>1, <3>2, <4>1 DEF TaskInv, ResultInv
      <4>3. ViewInv(u)'
        BY <1>3, <1>4, <1>5, <1>7, <3>1, <3>2, <4>1 DEF ViewInv
      <4>4. FiringInv(u)'
        BY <1>2, <3>1, <3>2, <4>1 DEF FiringInv
      <4> QED
        BY <4>2, <4>3, <4>4
    <3>3. CASE u # tr
      <4>1. pc'[u] = pc[u] /\ view'[u] = view[u] /\ take'[u] = take[u]
        BY <1>1, <1>7, <3>3 DEF TypeOK
      <4> QED
        BY <3>1, <4>1 DEF TaskInv, ViewInv, FiringInv, ResultInv
    <3> QED
      BY <3>2, <3>3
  <2> QED
    BY <1>2, <1>6, <2>2, <2>3, <2>4
<1>8. CASE ~d.go
  <2>1. /\ pc' = [pc EXCEPT ![tr] = "wait"]
        /\ holder' = [p \in Place |-> holder[p] \ {tr}]
        /\ UNCHANGED <<where, used, nets, owner, need, view, take, todo, result, await>>
    BY <1>1, <1>2, <1>8 DEF GoToSleep, Locks!Drop, storeVars
  <2>2. TypeOK'
    BY <1>1, <1>3, <1>8, <2>1 DEF TypeOK, GoToSleep
  <2>3. HolderInv' /\ FreshInv'
    BY <2>1 DEF HolderInv, FreshInv
  <2>4. ASSUME NEW u \in Transition
        PROVE  TaskInv(u)' /\ ViewInv(u)' /\ FiringInv(u)' /\ ResultInv(u)'
    <3>1. Held(u)' = IF u = tr THEN {} ELSE Held(u)
      BY <2>1 DEF Held
    <3>2. pc'[u] = IF u = tr THEN "wait" ELSE pc[u]
      BY <2>1 DEF TypeOK
    <3>3. TaskInv(u)'
      BY <1>2, <2>1, <3>1, <3>2 DEF TaskInv
    <3>4. ViewInv(u)' /\ FiringInv(u)' /\ ResultInv(u)'
      BY <1>2, <2>1, <3>2 DEF ViewInv, FiringInv, ResultInv
    <3> QED
      BY <3>3, <3>4
  <2> QED
    BY <1>2, <1>6, <2>2, <2>3, <2>4
<1> QED
  BY <1>7, <1>8

LEMMA RunNext ==
  ASSUME RunnerInv, NEW tr \in Transition, Run(tr)
  PROVE  RunnerInv'
<1> USE DEF RunnerInv
<1>1. PICK r \in RunResults(tr) :
        /\ result' = [result EXCEPT ![tr] = r]
        /\ todo' = [todo EXCEPT ![tr] = TargetPlaces(r)]
  BY DEF Run
<1>2. /\ pc[tr] = "run" /\ pc' = [pc EXCEPT ![tr] = "finish"]
      /\ UNCHANGED <<storeVars, lockVars, wakeVars, view, take, await>>
  BY DEF Run
<1>3. /\ DOMAIN r.goes = take[tr]
      /\ \A k \in take[tr] : r.goes[k] \in Fates(tr, k)
      /\ r.new \subseteq OutPlaces[tr]
  BY RunResultsSound
<1>4. TargetPlaces(r) \subseteq Place
  BY TransitionRunnerAssumption DEF TargetPlaces, TransitionRunnerAssumption
<1>5. TypeOK'
  BY <1>1, <1>2, <1>4 DEF TypeOK, storeVars, lockVars, wakeVars
<1>6. LastInv' /\ HolderInv' /\ FreshInv' /\ UsedInv'
  BY <1>2 DEF LastInv, HolderInv, FreshInv, UsedInv, storeVars, lockVars
<1>7. ASSUME NEW u \in Transition
      PROVE  TaskInv(u)' /\ ViewInv(u)' /\ FiringInv(u)' /\ ResultInv(u)'
  <2>1. where' = where /\ Held(u)' = Held(u) /\ view' = view /\ take' = take
    BY <1>2 DEF Held, storeVars, lockVars
  <2>2. CASE u = tr
    <3>1. pc'[u] = "finish" /\ result'[u] = r /\ todo'[u] = TargetPlaces(r)
      BY <1>1, <1>2, <2>2 DEF TypeOK
    <3> QED
      BY <1>2, <1>3, <2>1, <2>2, <3>1 DEF TaskInv, ViewInv, FiringInv, ResultInv
  <2>3. CASE u # tr
    <3>1. pc'[u] = pc[u] /\ result'[u] = result[u] /\ todo'[u] = todo[u]
      BY <1>1, <1>2, <2>3 DEF TypeOK
    <3> QED
      BY <2>1, <3>1 DEF TaskInv, ViewInv, FiringInv, ResultInv
  <2> QED
    BY <2>2, <2>3
<1> QED
  BY <1>1, <1>5, <1>6, <1>7

LEMMA ExternalNext ==
  ASSUME RunnerInv, NEW p \in Place, ExternalAcquire(p)
  PROVE  RunnerInv'
<1> USE DEF RunnerInv, ExternalAcquire, storeVars, wakeVars, fireVars
<1>1. TypeOK'
  BY DEF TypeOK
<1>2. LastInv' /\ HolderInv' /\ UsedInv'
  BY DEF LastInv, HolderInv, UsedInv, TypeOK
<1>3. FreshInv'
  BY TransitionRunnerAssumption DEF FreshInv, TypeOK, TransitionRunnerAssumption
<1>4. \A u \in Transition : TaskInv(u)' /\ ViewInv(u)' /\ FiringInv(u)' /\ ResultInv(u)'
  BY DEF TaskInv, Held, ViewInv, FiringInv, ResultInv
<1> QED
  BY <1>1, <1>2, <1>3, <1>4

LEMMA NextRunnerInv == RunnerInv /\ [Next]_vars => RunnerInv'
<1> SUFFICES ASSUME RunnerInv, [Next]_vars PROVE RunnerInv'
  OBVIOUS
<1>1. ASSUME NEW tr \in Transition, Work(tr) PROVE RunnerInv'
  BY <1>1, WaitNext, FirstCheckNext, SecondCheckNext, StartNext, RunNext, EndNext, SyncedNext
     DEF Work
<1>2. ASSUME NEW tr \in Transition, NEW p \in Place, Acquire(tr, p) PROVE RunnerInv'
  BY <1>2, AcquireNext
<1>3. ASSUME NEW n \in Node, ApplyChange(n) PROVE RunnerInv'
  BY <1>3, ApplyNextChange
<1>4. ASSUME NEW p \in Place, ExternalAcquire(p) PROVE RunnerInv'
  BY <1>4, ExternalNext
<1>5. CASE UNCHANGED vars
  BY <1>5 DEF vars, storeVars, lockVars, wakeVars, fireVars, RunnerInv, TypeOK, LastInv,
     HolderInv, FreshInv, UsedInv, TaskInv, Held, ViewInv, FiringInv, ResultInv
<1> QED
  BY <1>1, <1>2, <1>3, <1>4, <1>5 DEF Next

LEMMA RunnerInvariant == Spec => []RunnerInv
BY InitRunnerInv, NextRunnerInv, PTL DEF Spec

(***************************************************************************)
(* The transitions play the token game.                                    *)
(***************************************************************************)

\* A token of nobody is nowhere, at a place, or with a transition.
LEMMA InitPlaysGame == Init => Game!Init
<1> SUFFICES ASSUME Init PROVE Game!Init
  OBVIOUS
<1>1. ASSUME NEW t \in Token
      PROVE  /\ where[t] = Game!Nowhere \/ \E p \in Place : where[t] = Game!At(p)
             /\ t \in used <=> where[t] # Game!Nowhere
  <2>1. where[t] = IF Initial[t] = NoPlace THEN Game!Nowhere ELSE Game!At(Initial[t])
    BY DEF Init
  <2>2. Initial[t] \in Place \cup {NoPlace}
    BY TransitionRunnerAssumption DEF TransitionRunnerAssumption
  <2>3. t \in used <=> Initial[t] # NoPlace
    BY DEF Init
  <2> QED
    BY <2>1, <2>2, <2>3 DEF Game!At, Game!Nowhere
<1>2. used \subseteq Token
  BY DEF Init
<1> QED
  BY <1>1, <1>2 DEF Game!Init

\* A start takes tokens that are at the in places.
LEMMA StartPlaysGame ==
  ASSUME RunnerInv, NEW tr \in Transition, StartTransition(tr)
  PROVE  Game!Fire(tr)
<1>1. \A t \in Token :
        where'[t] # where[t] =>
          \E p \in InPlaces[tr] : where[t] = Game!At(p) /\ where'[t] = Game!With(tr, p)
  BY StartMoves DEF RunnerInv
<1>2. used' = used
  BY DEF StartTransition
<1> QED
  BY <1>1, <1>2 DEF Game!Fire

\* An end puts back or destroys what the firing has, and creates tokens.
LEMMA EndPlaysGame ==
  ASSUME RunnerInv, NEW tr \in Transition, EndTransition(tr)
  PROVE  Game!Finish(tr)
<1>1. /\ used \subseteq used'
      /\ \A t \in Token : Finished(tr, t) \/ Untouched(tr, t)
  BY EndMoves DEF RunnerInv
<1>2. FiringInv(tr) /\ UsedInv
  BY DEF RunnerInv
<1>3. ASSUME NEW t \in Token, Finished(tr, t)
      PROVE  /\ \E p \in Place : where[t] = Game!With(tr, p)
             /\ where'[t] \in {Game!Nowhere, Game!At(where[t].pl)}
                               \cup {Game!At(p) : p \in OutPlaces[tr]}
  <2>1. PICK k \in take[tr] :
          /\ k[1] \in Place /\ where[t] = Game!With(tr, k[1])
          /\ where'[t] = Game!Nowhere \/ PutAt(tr, t, OutPlaces[tr] \cup {k[1]})
    BY <1>3 DEF Finished
  <2>2. where[t].pl = k[1]
    BY <2>1 DEF Game!With
  <2>3. CASE where'[t] = Game!Nowhere
    BY <2>1, <2>3
  <2>4. CASE PutAt(tr, t, OutPlaces[tr] \cup {k[1]})
    <3>1. PICK q \in OutPlaces[tr] \cup {k[1]} : where'[t] = Game!At(q)
      BY <2>4 DEF PutAt
    <3> QED
      BY <2>1, <2>2, <3>1
  <2> QED
    BY <2>1, <2>3, <2>4
<1>4. ASSUME NEW t \in Token, Untouched(tr, t)
      PROVE  /\ ~\E p \in Place : where[t] = Game!With(tr, p)
             /\ where'[t] = where[t] \/ Game!Appears(t, OutPlaces[tr])
  <2>1. ASSUME NEW p \in Place, where[t] = Game!With(tr, p) PROVE FALSE
    BY <1>2, <1>4, <2>1 DEF FiringInv, Untouched
  <2>2. CASE t \notin used /\ t \in used' /\ PutAt(tr, t, OutPlaces[tr])
    BY <1>2, <2>1, <2>2 DEF UsedInv, PutAt, Game!Appears
  <2> QED
    BY <1>4, <2>1, <2>2 DEF Untouched
<1> QED
  BY <1>1, <1>3, <1>4 DEF Game!Finish

\* Nothing else changes where tokens are.
LEMMA NextPlaysGame ==
  RunnerInv /\ [Next]_vars => [Game!Next]_<<where, used>>
<1> SUFFICES ASSUME RunnerInv, [Next]_vars PROVE [Game!Next]_<<where, used>>
  OBVIOUS
<1>1. ASSUME NEW tr \in Transition, Work(tr) PROVE [Game!Next]_<<where, used>>
  <2>1. CASE StartTransition(tr)
    BY <2>1, StartPlaysGame DEF Game!Next
  <2>2. CASE EndTransition(tr)
    BY <2>2, EndPlaysGame DEF Game!Next
  <2>3. CASE WaitForChange(tr) \/ FirstCheck(tr) \/ SecondCheck(tr) \/ Run(tr) \/ Synced(tr)
    BY <2>3 DEF WaitForChange, FirstCheck, SecondCheck, Run, Synced, storeVars
  <2> QED
    BY <1>1, <2>1, <2>2, <2>3 DEF Work
<1>2. ASSUME NEW tr \in Transition, NEW p \in Place, Acquire(tr, p)
      PROVE  UNCHANGED <<where, used>>
  BY <1>2 DEF Acquire, storeVars
<1>3. ASSUME NEW n \in Node, ApplyChange(n) PROVE UNCHANGED <<where, used>>
  BY <1>3 DEF ApplyChange
<1>4. ASSUME NEW p \in Place, ExternalAcquire(p) PROVE UNCHANGED <<where, used>>
  BY <1>4 DEF ExternalAcquire, storeVars
<1>5. CASE UNCHANGED vars
  BY <1>5 DEF vars, storeVars
<1> QED
  BY <1>1, <1>2, <1>3, <1>4, <1>5 DEF Next

(***************************************************************************)
(* The executors of the examples.                                          *)
(***************************************************************************)

\* A firing of an example: what it has taken, and what it creates.
ExampleInv(tr) ==
  /\ Executor[tr] = "move" /\ pc[tr] \in {"start", "run", "finish"} =>
       \E k \in InPlaces[tr] \X Token : take[tr] = {k}
  /\ Executor[tr] = "initialize" /\ pc[tr] \in {"start", "run", "finish"} => take[tr] = {}
  /\ Executor[tr] = "move" /\ pc[tr] = "finish" => result[tr].new = {}
  /\ Executor[tr] = "initialize" /\ pc[tr] = "finish" =>
       \E p \in OutPlaces[tr] : result[tr].new = {p}

\* check_start says yes.
SaysYes(tr, s) == \E d \in CheckStart(tr, s) : d.go

\* What the executors of the examples decide, by what they see.
LEMMA MoveDecides ==
  ASSUME NEW tr \in Transition, NEW s, Executor[tr] = "move"
  PROVE  /\ SaysYes(tr, s) <=> \E p \in InPlaces[tr] : TokensAt(s, p) # {}
         /\ \A d \in CheckStart(tr, s) :
              /\ d.go => \E k \in InPlaces[tr] \X Token : d.take = {k}
              /\ ~d.go => d.waitFor \in InPlaces[tr] /\ ~d.timer /\ ~SaysYes(tr, s)
<1> DEFINE here == {<<p, t>> : p \in InPlaces[tr], t \in Token}
           there == {k \in here : k[2] \in TokensAt(s, k[1])}
<1>1. CheckStart(tr, s) = IF there = {} THEN {Disabled(p, FALSE) : p \in InPlaces[tr]}
                          ELSE {Enabled({k}) : k \in there}
  BY DEF CheckStart, Move
<1>2. there # {} <=> \E p \in InPlaces[tr] : TokensAt(s, p) # {}
  <2>1. ASSUME NEW p \in InPlaces[tr], NEW t \in TokensAt(s, p) PROVE there # {}
    <3>1. <<p, t>> \in there
      BY <2>1 DEF TokensAt
    <3> QED
      BY <3>1
  <2> QED
    BY <2>1
<1>3. there \subseteq InPlaces[tr] \X Token
  OBVIOUS
<1> HIDE DEF there
<1>4. /\ \A S : Enabled(S).go /\ Enabled(S).take = S
      /\ \A p, auto : Disabled(p, auto).go = FALSE /\ Disabled(p, auto).waitFor = p
                      /\ Disabled(p, auto).timer = auto
  BY DEF Enabled, Disabled
<1>5. CASE there = {}
  <2>1. \A d \in CheckStart(tr, s) :
          d.go = FALSE /\ d.waitFor \in InPlaces[tr] /\ d.timer = FALSE
    <3>1. SUFFICES ASSUME NEW d \in CheckStart(tr, s)
                   PROVE  d.go = FALSE /\ d.waitFor \in InPlaces[tr] /\ d.timer = FALSE
      OBVIOUS
    <3>2. PICK p \in InPlaces[tr] : d = Disabled(p, FALSE)
      BY <1>1, <1>5
    <3> QED
      BY <3>2 DEF Disabled
  <2> QED
    BY <1>2, <1>5, <2>1 DEF SaysYes
<1>6. CASE there # {}
  <2>1. \A d \in CheckStart(tr, s) : d.go /\ \E k \in InPlaces[tr] \X Token : d.take = {k}
    <3>1. SUFFICES ASSUME NEW d \in CheckStart(tr, s)
                   PROVE  d.go /\ \E k \in InPlaces[tr] \X Token : d.take = {k}
      OBVIOUS
    <3>2. PICK k \in there : d = Enabled({k})
      BY <1>1, <1>6
    <3>3. d.go /\ d.take = {k}
      BY <3>2 DEF Enabled
    <3> QED
      BY <1>3, <3>3
  <2>2. SaysYes(tr, s)
    <3>1. PICK k \in there : TRUE
      BY <1>6
    <3>2. Enabled({k}) \in CheckStart(tr, s)
      BY <1>1, <1>6
    <3> QED
      BY <1>4, <3>2 DEF SaysYes
  <2> QED
    BY <1>2, <1>6, <2>1, <2>2
<1> QED
  BY <1>5, <1>6

LEMMA InitializeDecides ==
  ASSUME NEW tr \in Transition, NEW s, Executor[tr] = "initialize"
  PROVE  /\ SaysYes(tr, s)
              <=> \A p \in CondPlaces[tr] : TokensAt(s, p) \cup TakenTokensAt(s, p) = {}
         /\ \A d \in CheckStart(tr, s) :
              /\ d.go => d.take = {} /\ SaysYes(tr, s)
              /\ ~d.go => d.waitFor = NoPlace /\ ~d.timer /\ ~SaysYes(tr, s)
<1> DEFINE found == \E p \in CondPlaces[tr] : TokensAt(s, p) \cup TakenTokensAt(s, p) # {}
<1>1. CheckStart(tr, s) = IF found THEN {Disabled(NoPlace, FALSE)} ELSE {Enabled({})}
  BY DEF CheckStart, Initialize
<1>2. found <=> ~\A p \in CondPlaces[tr] : TokensAt(s, p) \cup TakenTokensAt(s, p) = {}
  OBVIOUS
<1> HIDE DEF found
<1>3. /\ Enabled({}).go /\ Enabled({}).take = {}
      /\ Disabled(NoPlace, FALSE).go = FALSE /\ Disabled(NoPlace, FALSE).timer = FALSE
      /\ Disabled(NoPlace, FALSE).waitFor = NoPlace
  BY DEF Enabled, Disabled
<1>4. CASE found
  BY <1>1, <1>2, <1>3, <1>4 DEF SaysYes
<1>5. CASE ~found
  BY <1>1, <1>2, <1>3, <1>5 DEF SaysYes
<1> QED
  BY <1>4, <1>5

\* What run of an example creates.
LEMMA ExampleResults ==
  ASSUME NEW tr \in Transition, NEW r \in RunResults(tr)
  PROVE  /\ Executor[tr] = "move" => r.new = {}
         /\ Executor[tr] = "initialize" => \E p \in OutPlaces[tr] : r.new = {p}
<1>1. CASE Executor[tr] = "move"
  BY <1>1 DEF RunResults
<1>2. CASE Executor[tr] = "initialize"
  BY <1>2 DEF RunResults
<1> QED
  BY <1>1, <1>2

\* The control of a task changes in its own steps.
LEMMA OthersRest ==
  ASSUME RunnerInv, NEW u \in Transition,
         \/ \E tr \in Transition \ {u} : Work(tr)
         \/ \E tr \in Transition, p \in Place : Acquire(tr, p)
         \/ \E n \in Node : ApplyChange(n)
         \/ \E p \in Place : ExternalAcquire(p)
         \/ UNCHANGED vars
  PROVE  /\ pc'[u] = pc[u] /\ take'[u] = take[u] /\ result'[u] = result[u]
         /\ waitFor'[u] = waitFor[u]
<1> USE DEF RunnerInv, TypeOK, storeVars, lockVars, wakeVars, fireVars
<1>1. ASSUME NEW tr \in Transition \ {u}, Work(tr)
      PROVE  /\ pc'[u] = pc[u] /\ take'[u] = take[u] /\ result'[u] = result[u]
             /\ waitFor'[u] = waitFor[u]
  <2>1. CASE WaitForChange(tr)
    BY <2>1 DEF WaitForChange
  <2>2. CASE FirstCheck(tr)
    BY <2>2 DEF FirstCheck, GoToSleep
  <2>3. CASE SecondCheck(tr)
    BY <2>3 DEF SecondCheck, GoToSleep
  <2>4. CASE StartTransition(tr)
    BY <2>4 DEF StartTransition
  <2>5. CASE Run(tr)
    BY <2>5 DEF Run
  <2>6. CASE EndTransition(tr)
    BY <2>6 DEF EndTransition
  <2>7. CASE Synced(tr)
    BY <2>7 DEF Synced
  <2> QED
    BY <1>1, <2>1, <2>2, <2>3, <2>4, <2>5, <2>6, <2>7 DEF Work
<1>2. ASSUME NEW tr \in Transition, NEW p \in Place, Acquire(tr, p)
      PROVE  UNCHANGED <<pc, take, result, waitFor>>
  BY <1>2 DEF Acquire
<1>3. ASSUME NEW n \in Node, ApplyChange(n) PROVE UNCHANGED <<pc, take, result, waitFor>>
  BY <1>3 DEF ApplyChange
<1>4. ASSUME NEW p \in Place, ExternalAcquire(p) PROVE UNCHANGED <<pc, take, result, waitFor>>
  BY <1>4 DEF ExternalAcquire
<1>5. CASE UNCHANGED vars
  BY <1>5 DEF vars
<1> QED
  BY <1>1, <1>2, <1>3, <1>4, <1>5

\* A firing of an example keeps what its executor began with.
LEMMA ExampleNext ==
  ASSUME RunnerInv, NEW u \in Transition, ExampleInv(u), [Next]_vars
  PROVE  ExampleInv(u)'
<1>1. CASE Work(u)
  <2> USE DEF RunnerInv, TypeOK, fireVars
  <2>1. CASE pc'[u] \notin {"start", "run", "finish"}
    BY <2>1 DEF ExampleInv
  <2>2. CASE SecondCheck(u) /\ pc'[u] = "start"
    <3>1. PICK d \in CheckStart(u, Copy(u)) : d.go /\ take'[u] = d.take
      BY <2>2 DEF SecondCheck, GoToSleep
    <3> QED
      BY <2>2, <3>1, MoveDecides, InitializeDecides DEF ExampleInv
  <2>3. CASE StartTransition(u)
    BY <2>3 DEF StartTransition, ExampleInv
  <2>4. CASE Run(u)
    <3>1. PICK r \in RunResults(u) : result'[u] = r
      BY <2>4 DEF Run
    <3>2. pc[u] = "run" /\ take' = take
      BY <2>4 DEF Run
    <3> QED
      BY <3>1, <3>2, ExampleResults DEF ExampleInv
  <2>5. CASE WaitForChange(u) \/ FirstCheck(u) \/ EndTransition(u) \/ Synced(u)
    <3>1. pc'[u] \notin {"start", "run", "finish"}
      BY <2>5 DEF WaitForChange, FirstCheck, GoToSleep, EndTransition, Synced
    <3> QED
      BY <2>1, <3>1
  <2>6. CASE SecondCheck(u) /\ pc'[u] # "start"
    <3>1. pc'[u] = "wait"
      BY <2>6 DEF SecondCheck, GoToSleep
    <3> QED
      BY <2>1, <3>1
  <2> QED
    BY <1>1, <2>2, <2>3, <2>4, <2>5, <2>6 DEF Work
<1>2. CASE ~Work(u)
  <2>1. /\ pc'[u] = pc[u] /\ take'[u] = take[u] /\ result'[u] = result[u]
    BY <1>2, OthersRest DEF Next
  <2> QED
    BY <2>1 DEF ExampleInv
<1> QED
  BY <1>1, <1>2

\* At its end a move creates no token, and an initialize creates one.
LEMMA ExampleEnds ==
  ASSUME RunnerInv, NEW tr \in Transition, ExampleInv(tr), EndTransition(tr)
  PROVE  /\ Executor[tr] = "move" =>
              \A t \in Token : where[t] = Game!Nowhere => where'[t] = Game!Nowhere
         /\ Executor[tr] = "initialize" =>
              \E u \in Token, p \in OutPlaces[tr] :
                /\ where[u] = Game!Nowhere /\ where'[u] = Game!At(p)
                /\ \A t \in Token \ {u} : where'[t] = where[t]
<1> USE DEF RunnerInv
<1>0. PICK I \in SUBSET (Token \ used) :
         \E ids \in Bijection(I, result[tr].new) : where' = [t \in Token |-> Left(tr, t, ids)]
  BY DEF EndTransition, Store
<1>1. PICK ids \in Bijection(I, result[tr].new) : where' = [t \in Token |-> Left(tr, t, ids)]
  BY <1>0
<1>2. /\ ids \in [I -> result[tr].new]
      /\ \A t, u \in I : ids[t] = ids[u] => t = u
      /\ \A p \in result[tr].new : \E t \in I : ids[t] = p
  BY DEF Bijection, Injection, Surjection, IsInjective
<1>3. pc[tr] = "finish"
  BY DEF EndTransition
<1>4. ASSUME NEW t \in Token, \A k \in take[tr] : k[2] # t
      PROVE  where'[t] = IF t \in I THEN Game!At(ids[t]) ELSE where[t]
  BY <1>1, <1>2, <1>4 DEF Left
<1>5. \A t \in I : t \in Token /\ where[t] = Game!Nowhere
  BY DEF UsedInv
<1>6. CASE Executor[tr] = "move"
  <2>1. I = {}
    BY <1>2, <1>3, <1>6 DEF ExampleInv
  <2>2. ASSUME NEW t \in Token, where[t] = Game!Nowhere PROVE where'[t] = Game!Nowhere
    <3>1. ASSUME NEW k \in take[tr] PROVE k[2] # t
      <4>1. k \in InPlaces[tr] \X Token /\ where[k[2]] = Game!With(tr, k[1])
        BY <1>3 DEF FiringInv
      <4> QED
        BY <2>2, <4>1 DEF Game!With, Game!Nowhere
    <3> QED
      BY <1>4, <2>1, <2>2, <3>1
  <2> QED
    BY <1>6, <2>2
<1>7. CASE Executor[tr] = "initialize"
  <2>1. PICK p \in OutPlaces[tr] : result[tr].new = {p}
    BY <1>3, <1>7 DEF ExampleInv
  <2>2. PICK u \in I : ids[u] = p
    BY <1>2, <2>1
  <2>3. I = {u}
    BY <1>2, <2>1, <2>2
  <2>4. take[tr] = {}
    BY <1>3, <1>7 DEF ExampleInv
  <2>5. where'[u] = Game!At(p) /\ \A t \in Token \ {u} : where'[t] = where[t]
    BY <1>4, <1>5, <2>2, <2>3, <2>4
  <2> QED
    BY <1>5, <1>7, <2>2, <2>5
<1> QED
  BY <1>6, <1>7

(***************************************************************************)
(* An initialize that watches the whole net.                               *)
(***************************************************************************)

Firing(tr) == pc[tr] \in {"start", "run", "finish"}

\* There is at most one token, and none while an initialize has decided to
\* create one.
OneInv ==
  /\ \A t, u \in Token : where[t] # Game!Nowhere /\ where[u] # Game!Nowhere => t = u
  /\ \A t \in Token, p \in Place : where[t] = Game!At(p) => p \in TokenPlaces
  /\ \A tr \in Transition :
       Executor[tr] = "initialize" /\ Firing(tr) =>
         \A t \in Token : where[t] = Game!Nowhere

\* Tokens are nowhere else than at places that are watched, or were taken there.
LEMMA WhereTokensAre ==
  ASSUME RunnerInv, OneInv, NEW t \in Token
  PROVE  \/ where[t] = Game!Nowhere
         \/ \E p \in TokenPlaces : \/ where[t] = Game!At(p)
                                   \/ \E tr \in Transition : where[t] = Game!With(tr, p)
<1>1. where[t] \in Positions
  BY DEF RunnerInv, TypeOK
<1>2. ASSUME NEW tr \in Transition, NEW p \in Place, where[t] = Game!With(tr, p)
      PROVE  p \in TokenPlaces
  <2>1. /\ pc[tr] \in {"run", "finish"} /\ <<p, t>> \in take[tr]
        /\ \A k \in take[tr] : k \in InPlaces[tr] \X Token
    BY <1>2 DEF RunnerInv, FiringInv
  <2> QED
    BY <2>1 DEF TokenPlaces
<1> QED
  BY <1>1, <1>2 DEF Positions, OneInv

\* An initialize that says yes with its locks has no token before it.
LEMMA NoTokenAnywhere ==
  ASSUME OneInitialize, RunnerInv, OneInv, NEW tr \in Transition, Executor[tr] = "initialize",
         pc[tr] = "lock", todo[tr] = {}, NetIsRecent(tr), SaysYes(tr, Copy(tr)),
         NEW t \in Token
  PROVE  where[t] = Game!Nowhere
<1>1. TokenPlaces \subseteq CondPlaces[tr] \cap OutputLocking
  BY DEF OneInitialize
<1>2. ASSUME NEW p \in TokenPlaces
      PROVE  TokensAt(where, p) = {} /\ TakenTokensAt(where, p) = {}
  <2>1. TokensAt(Copy(tr), p) = {} /\ TakenTokensAt(Copy(tr), p) = {}
    BY <1>1, InitializeDecides
  <2>2. StillSo(Copy(tr), where, p)
    BY <1>1, NetIsRight
  <2> QED
    BY <1>1, <2>1, <2>2 DEF StillSo
<1>3. \A p \in TokenPlaces : /\ where[t] # Game!At(p)
                             /\ \A u \in Transition : where[t] # Game!With(u, p)
  BY <1>2 DEF TokensAt, TakenTokensAt
<1> QED
  BY <1>3, WhereTokensAre

\* Steps in which no token comes to be, and no initialize starts.
LEMMA OneKept ==
  ASSUME OneInv,
         \A t \in Token : where[t] = Game!Nowhere => where'[t] = Game!Nowhere,
         \A t \in Token, p \in Place :
           where'[t] = Game!At(p) => where[t] = Game!At(p) \/ p \in TokenPlaces,
         \A tr \in Transition : Executor[tr] = "initialize" /\ Firing(tr)' => Firing(tr)
  PROVE  OneInv'
BY DEF OneInv

\* There is never a second token.
LEMMA OneNext ==
  ASSUME OneInitialize, RunnerInv, OneInv, \A tr \in Transition : ExampleInv(tr), [Next]_vars
  PROVE  OneInv'
<1> USE DEF RunnerInv
<1>1. ASSUME UNCHANGED where,
             \A tr \in Transition : Executor[tr] = "initialize" /\ Firing(tr)' => Firing(tr)
      PROVE  OneInv'
  BY <1>1, OneKept
<1>2. ASSUME NEW tr \in Transition, Work(tr) PROVE OneInv'
  <2>1. \A u \in Transition \ {tr} : pc'[u] = pc[u]
    BY <1>2, OthersRest
  <2>2. CASE SecondCheck(tr) /\ pc'[tr] = "start" /\ Executor[tr] = "initialize"
    <3>1. /\ pc[tr] = "lock" /\ todo[tr] = {} /\ NetIsRecent(tr) /\ where' = where
      BY <2>2 DEF SecondCheck, storeVars
    <3>2. PICK d \in CheckStart(tr, Copy(tr)) : d.go
      BY <2>2 DEF SecondCheck, GoToSleep, TypeOK
    <3>3. SaysYes(tr, Copy(tr))
      BY <3>2 DEF SaysYes
    <3>4. \A t \in Token : where[t] = Game!Nowhere
      BY <2>2, <3>1, <3>3, NoTokenAnywhere
    <3> QED
      BY <3>1, <3>4 DEF OneInv, TypeOK
  <2>3. CASE \/ WaitForChange(tr) \/ FirstCheck(tr) \/ Run(tr) \/ Synced(tr)
             \/ SecondCheck(tr) /\ ~(pc'[tr] = "start" /\ Executor[tr] = "initialize")
    <3>1. where' = where
      BY <2>3 DEF WaitForChange, FirstCheck, Run, Synced, SecondCheck, storeVars
    <3>2. Executor[tr] = "initialize" /\ Firing(tr)' => Firing(tr)
      BY <2>3 DEF WaitForChange, FirstCheck, Run, Synced, SecondCheck, GoToSleep, Firing, TypeOK
    <3> QED
      BY <1>1, <2>1, <3>1, <3>2 DEF Firing
  <2>4. CASE StartTransition(tr)
    <3>1. \A t \in Token :
            \/ where'[t] = where[t]
            \/ \E p \in Place : where[t] = Game!At(p) /\ where'[t] = Game!With(tr, p)
      BY <2>4, StartMoves
    <3>2. Firing(tr)
      BY <2>4 DEF StartTransition, Firing
    <3>3. \A t \in Token : where[t] = Game!Nowhere => where'[t] = Game!Nowhere
      BY <3>1, PositionsDiffer
    <3>4. \A t \in Token, p \in Place : where'[t] = Game!At(p) => where[t] = Game!At(p)
      BY <3>1, PositionsDiffer
    <3> QED
      BY <2>1, <3>2, <3>3, <3>4, OneKept DEF Firing
  <2>5. CASE EndTransition(tr)
    <3>1. \A t \in Token, p \in Place :
            where'[t] = Game!At(p) => where[t] = Game!At(p) \/ p \in TokenPlaces
      <4>1. ASSUME NEW t \in Token, NEW p \in Place, where'[t] = Game!At(p),
                   where'[t] # where[t]
            PROVE  p \in TokenPlaces
        <5>1. Finished(tr, t) \/ Untouched(tr, t)
          BY <2>5, EndMoves
        <5>2. \E q \in InPlaces[tr] \cup OutPlaces[tr] : where'[t] = Game!At(q)
          <6>1. CASE Finished(tr, t)
            <7>1. PICK k \in take[tr] :
                    /\ k[1] \in InPlaces[tr]
                    /\ where'[t] = Game!Nowhere \/ PutAt(tr, t, OutPlaces[tr] \cup {k[1]})
              BY <6>1 DEF Finished
            <7>2. where'[t] # Game!Nowhere
              BY <4>1 DEF Game!At, Game!Nowhere
            <7> QED
              BY <7>1, <7>2 DEF PutAt
          <6>2. CASE Untouched(tr, t)
            BY <4>1, <6>2 DEF Untouched, PutAt
          <6> QED
            BY <5>1, <6>1, <6>2
        <5>3. \A q : where'[t] = Game!At(q) => q = p
          BY <4>1 DEF Game!At
        <5> QED
          BY <5>2, <5>3 DEF TokenPlaces
      <4> QED
        BY <4>1
    <3>2. Firing(tr) /\ ~Firing(tr)'
      BY <2>5 DEF EndTransition, Firing, TypeOK
    <3>3. CASE Executor[tr] = "move"
      <4>1. \A t \in Token : where[t] = Game!Nowhere => where'[t] = Game!Nowhere
        BY <2>5, <3>3, ExampleEnds
      <4> QED
        BY <2>1, <3>1, <3>2, <4>1, OneKept DEF Firing
    <3>4. CASE Executor[tr] = "initialize"
      <4>1. \A t \in Token : where[t] = Game!Nowhere
        BY <3>2, <3>4 DEF OneInv
      <4>2. PICK u \in Token : \A t \in Token \ {u} : where'[t] = where[t]
        BY <2>5, <3>4, ExampleEnds
      <4>3. \A v \in Transition : Executor[v] = "initialize" => ~Firing(v)'
        BY <3>2, <3>4 DEF OneInitialize
      <4> QED
        BY <3>1, <4>1, <4>2, <4>3 DEF OneInv
    <3> QED
      BY <3>3, <3>4 DEF OneInitialize
  <2> QED
    BY <1>2, <2>2, <2>3, <2>4, <2>5 DEF Work
<1>3. CASE \/ \E tr \in Transition, p \in Place : Acquire(tr, p)
           \/ \E n \in Node : ApplyChange(n)
           \/ \E p \in Place : ExternalAcquire(p)
           \/ UNCHANGED vars
  <2>1. UNCHANGED <<where, pc>>
    BY <1>3 DEF Acquire, ApplyChange, ExternalAcquire, vars, storeVars
  <2> QED
    BY <1>1, <2>1 DEF Firing
<1> QED
  BY <1>2, <1>3 DEF Next

LEMMA OneInit == Init /\ OneInitialize => OneInv
<1> SUFFICES ASSUME Init, OneInitialize PROVE OneInv
  OBVIOUS
<1>1. \A t \in Token : where[t] = IF Initial[t] = NoPlace THEN Game!Nowhere
                                  ELSE Game!At(Initial[t])
  BY DEF Init
<1>2. \A p, q : Game!At(p) = Game!At(q) => p = q
  BY DEF Game!At
<1>3. \A p : Game!At(p) # Game!Nowhere
  BY DEF Game!At, Game!Nowhere
<1>4. \A t \in Token : Initial[t] \in TokenPlaces \cup {NoPlace}
  BY DEF OneInitialize
<1>5. \A t \in Token, p \in Place : where[t] = Game!At(p) => p \in TokenPlaces
  BY <1>1, <1>2, <1>3, <1>4
<1>6. \A tr \in Transition : ~Firing(tr)
  BY DEF Init, Firing
<1> QED
  BY <1>1, <1>5, <1>6 DEF OneInv, OneInitialize

\* So etcd holds at most one.
LEMMA OneToken == ASSUME OneInv PROVE AtMostOneToken
<1> DEFINE S == {t \in Token : where[t] # Game!Nowhere}
<1>1. CASE S = {}
  BY <1>1, FS_EmptySet DEF AtMostOneToken
<1>2. CASE S # {}
  <2>1. PICK t \in S : TRUE
    BY <1>2
  <2>2. S = {t}
    BY <2>1 DEF OneInv
  <2>3. Cardinality({t}) = 1
    BY FS_Singleton
  <2> QED
    BY <2>2, <2>3 DEF AtMostOneToken
<1> QED
  BY <1>1, <1>2

(***************************************************************************)
(* Tasks that sleep.                                                       *)
(***************************************************************************)

\* Place p looks different in two nets.
Differs(s, r, p) ==
  \/ TokensAt(s, p) # TokensAt(r, p)
  \/ \E tr \in Transition, t \in Token :
       (s[t] = Game!With(tr, p)) # (r[t] = Game!With(tr, p))

\* The end of the firing of tr, which its runner has still to apply, notifies
\* tr: it is the revision await[tr].
WillHear(tr) ==
  /\ await[tr] \in 1 .. Len(nets[NodeOf[tr]]) - 1
  /\ \E p \in CondPlaces[tr] :
       Differs(nets[NodeOf[tr]][await[tr]], nets[NodeOf[tr]][await[tr] + 1], p)

\* A task that sleeps unnoticed would say no, and after a firing a task is
\* notified at the latest when its net shows the end of the firing.
WakeInv(tr) ==
  /\ pc[tr] # "wait" => waitFor[tr] = NoPlace
  /\ Executor[tr] = "move" => waitFor[tr] \in InPlaces[tr] \cup {NoPlace}
  /\ Executor[tr] = "initialize" => waitFor[tr] = NoPlace
  /\ pc[tr] = "wait" /\ changed[tr] \cap Watched(tr) = {} => ~SaysYes(tr, Copy(tr))
  /\ pc[tr] = "sync" => changed[tr] \cap CondPlaces[tr] # {} \/ WillHear(tr)

\* The example has been validated.
IsExample(tr) ==
  /\ Executor[tr] \in {"move", "initialize"}
  /\ Executor[tr] = "move" => MoveValidated(tr)
  /\ Executor[tr] = "initialize" => InitializeValidated(tr)

\* A decision depends on what a task watches only.
LEMMA SameDecision ==
  ASSUME NEW tr \in Transition, IsExample(tr), NEW s, NEW r, ~SaysYes(tr, s),
         Executor[tr] = "move" => waitFor[tr] \in InPlaces[tr] \cup {NoPlace},
         Executor[tr] = "initialize" => waitFor[tr] = NoPlace,
         \A p \in Watched(tr) \cap CondPlaces[tr] : ~Differs(s, r, p)
  PROVE  ~SaysYes(tr, r)
<1>1. ASSUME NEW p, ~Differs(s, r, p)
      PROVE  TokensAt(s, p) = TokensAt(r, p) /\ TakenTokensAt(s, p) = TakenTokensAt(r, p)
  BY <1>1 DEF Differs, TakenTokensAt
<1>2. CASE Executor[tr] = "move"
  <2>1. PICK q \in Place : InPlaces[tr] = {q}
    BY <1>2 DEF IsExample, MoveValidated
  <2>2. q \in CondPlaces[tr]
    BY <2>1, TransitionRunnerAssumption DEF TransitionRunnerAssumption
  <2>3. q \in Watched(tr)
    BY <1>2, <2>1, <2>2 DEF Watched
  <2>4. TokensAt(s, q) = TokensAt(r, q)
    BY <1>1, <2>2, <2>3
  <2> QED
    BY <1>2, <2>1, <2>4, MoveDecides
<1>3. CASE Executor[tr] = "initialize"
  <2>1. Watched(tr) = CondPlaces[tr]
    BY <1>3 DEF Watched
  <2>2. \A p \in CondPlaces[tr] :
          TokensAt(s, p) = TokensAt(r, p) /\ TakenTokensAt(s, p) = TakenTokensAt(r, p)
    BY <1>1, <2>1
  <2> QED
    BY <1>3, <2>2, InitializeDecides
<1> QED
  BY <1>2, <1>3 DEF IsExample

\* The end of a firing shows at a place of the transition.
LEMMA EndShows ==
  ASSUME RunnerInv, NEW tr \in Transition, IsExample(tr), ExampleInv(tr), EndTransition(tr)
  PROVE  \E p \in CondPlaces[tr] : Differs(where, where', p)
<1> USE DEF RunnerInv
<1>1. pc[tr] = "finish"
  BY DEF EndTransition
<1>2. CASE Executor[tr] = "move"
  <2>1. PICK k \in InPlaces[tr] \X Token : take[tr] = {k}
    BY <1>1, <1>2 DEF ExampleInv
  <2>2. k[1] \in CondPlaces[tr] /\ k[1] \in Place /\ k[2] \in Token
    BY <2>1, TransitionRunnerAssumption DEF TransitionRunnerAssumption
  <2>3. where[k[2]] = Game!With(tr, k[1])
    BY <1>1, <2>1 DEF FiringInv
  <2>4. Finished(tr, k[2])
    BY <2>1, <2>2, EndMoves DEF Untouched
  <2>5. where'[k[2]] = Game!Nowhere \/ \E q \in Place : where'[k[2]] = Game!At(q)
    BY <2>4 DEF Finished, PutAt
  <2>6. where'[k[2]] # Game!With(tr, k[1])
    BY <2>2, <2>5, PositionsDiffer
  <2> QED
    BY <2>2, <2>3, <2>6 DEF Differs
<1>3. CASE Executor[tr] = "initialize"
  <2>1. PICK u \in Token, p \in OutPlaces[tr] :
          where[u] = Game!Nowhere /\ where'[u] = Game!At(p)
    BY <1>3, ExampleEnds
  <2>2. p \in CondPlaces[tr]
    BY <1>3 DEF IsExample, InitializeValidated
  <2>3. u \in TokensAt(where', p) /\ u \notin TokensAt(where, p)
    BY <2>1 DEF TokensAt, Game!At, Game!Nowhere
  <2> QED
    BY <2>2, <2>3 DEF Differs
<1> QED
  BY <1>2, <1>3 DEF IsExample

\* Steps of others, in which the nets may get longer.
LEMMA WakeKept ==
  ASSUME RunnerInv, NEW u \in Transition, WakeInv(u),
         pc'[u] = pc[u], waitFor'[u] = waitFor[u], changed'[u] = changed[u],
         await'[u] = await[u],
         Len(nets'[NodeOf[u]]) \in {Len(nets[NodeOf[u]]), Len(nets[NodeOf[u]]) + 1},
         \A i \in 1 .. Len(nets[NodeOf[u]]) : nets'[NodeOf[u]][i] = nets[NodeOf[u]][i]
  PROVE  WakeInv(u)'
<1> DEFINE n == NodeOf[u]
<1>1. n \in Node /\ Len(nets[n]) \in Nat /\ Len(nets[n]) >= 1
  BY TransitionRunnerAssumption DEF RunnerInv, TypeOK, TransitionRunnerAssumption
<1>2. Copy(u)' = Copy(u)
  BY <1>1 DEF Copy
<1>3. WillHear(u) => WillHear(u)'
  <2>1. SUFFICES ASSUME WillHear(u) PROVE WillHear(u)'
    OBVIOUS
  <2>2. PICK k : k = await[u]
    OBVIOUS
  <2>3. PICK p \in CondPlaces[u] : Differs(nets[n][k], nets[n][k + 1], p)
    BY <2>1, <2>2 DEF WillHear
  <2>4. k \in 1 .. Len(nets[n]) - 1
    BY <2>1, <2>2 DEF WillHear
  <2>5. nets'[n][k] = nets[n][k] /\ nets'[n][k + 1] = nets[n][k + 1]
    BY <1>1, <2>4
  <2>6. k \in 1 .. Len(nets'[n]) - 1
    BY <1>1, <2>4
  <2>7. await'[u] = k
    BY <2>2
  <2> HIDE DEF n
  <2>8. Differs(nets'[n][k], nets'[n][k + 1], p)
    BY <2>3, <2>5
  <2> QED
    BY <2>3, <2>6, <2>7, <2>8 DEF WillHear, n
<1>4. Watched(u)' = Watched(u)
  BY DEF Watched
<1>5. SaysYes(u, Copy(u))' <=> SaysYes(u, Copy(u))
  BY <1>2 DEF SaysYes
<1> QED
  BY <1>3, <1>4, <1>5 DEF WakeInv

\* Sleepers have been told all that matters.
LEMMA WakeInit == Init => \A tr \in Transition : IsExample(tr) => WakeInv(tr)
<1> SUFFICES ASSUME Init, NEW tr \in Transition, IsExample(tr) PROVE WakeInv(tr)
  OBVIOUS
<1>1. pc[tr] = "wait" /\ waitFor[tr] = NoPlace /\ changed[tr] = CondPlaces[tr]
  BY DEF Init, FirstNotified
<1>2. CondPlaces[tr] # {}
  BY TransitionRunnerAssumption
     DEF IsExample, MoveValidated, InitializeValidated, TransitionRunnerAssumption
<1> QED
  BY <1>1, <1>2 DEF WakeInv, Watched

\* The main loop notifies the tasks of what looks different.
LEMMA WakeApply ==
  ASSUME RunnerInv, NEW u \in Transition, IsExample(u), WakeInv(u),
         NEW n \in Node, ApplyChange(n)
  PROVE  WakeInv(u)'
<1> USE DEF RunnerInv
<1>1. /\ nets' = [nets EXCEPT ![n] = Tail(@)] /\ Len(nets[n]) > 1
      /\ pc' = pc /\ waitFor' = waitFor /\ UNCHANGED where
      /\ await' = [tr \in Transition |-> IF NodeOf[tr] = n THEN Less(await[tr]) ELSE await[tr]]
      /\ changed' = [tr \in Transition |->
                       IF NodeOf[tr] = n
                       THEN changed[tr] \cup {p \in CondPlaces[tr] : Changes(n, p)}
                       ELSE changed[tr]]
  BY DEF ApplyChange
<1>2. CASE NodeOf[u] # n
  <2>1. nets'[NodeOf[u]] = nets[NodeOf[u]] /\ NodeOf[u] \in Node
    BY <1>1, <1>2, TransitionRunnerAssumption DEF TypeOK, TransitionRunnerAssumption
  <2>2. await'[u] = await[u] /\ changed'[u] = changed[u]
    BY <1>1, <1>2
  <2> QED
    BY <1>1, <2>1, <2>2, WakeKept
<1>3. CASE NodeOf[u] = n
  <2>1. /\ Len(nets'[n]) = Len(nets[n]) - 1 /\ Len(nets[n]) \in Nat
        /\ \A i \in 1 .. Len(nets[n]) - 1 : nets'[n][i] = nets[n][i + 1]
    <3>1. nets[n] \in Seq([Token -> Positions]) /\ nets[n] # <<>> /\ nets'[n] = Tail(nets[n])
      BY <1>1 DEF TypeOK
    <3> QED
      BY <3>1, HeadTailProperties
  <2>2. /\ changed'[u] = changed[u] \cup {p \in CondPlaces[u] : Changes(n, p)}
        /\ await'[u] = Less(await[u]) /\ await[u] \in Nat
    BY <1>1, <1>3 DEF TypeOK
  <2>3. PICK s : s = nets[n][1]
    OBVIOUS
  <2>4. PICK r : r = nets[n][2]
    OBVIOUS
  <2>5. Copy(u) = s /\ Copy(u)' = r
    BY <1>1, <1>3, <2>1, <2>3, <2>4 DEF Copy, TypeOK
  <2>6. \A p : Changes(n, p) <=> Differs(s, r, p)
    BY <2>3, <2>4 DEF Changes, Differs
  <2>7. Watched(u)' = Watched(u)
    BY <1>1 DEF Watched
  <2>8. ASSUME pc[u] = "wait", changed'[u] \cap Watched(u) = {}
        PROVE  ~SaysYes(u, r)
    <3>1. changed[u] \cap Watched(u) = {}
      BY <2>2, <2>8
    <3>2. ~SaysYes(u, s)
      BY <2>5, <2>8, <3>1 DEF WakeInv
    <3>3. \A p \in Watched(u) \cap CondPlaces[u] : ~Differs(s, r, p)
      BY <2>2, <2>6, <2>8
    <3> QED
      BY <3>2, <3>3, SameDecision DEF WakeInv
  <2>9. ASSUME pc[u] = "sync"
        PROVE  changed'[u] \cap CondPlaces[u] # {} \/ WillHear(u)'
    <3>1. CASE changed[u] \cap CondPlaces[u] # {}
      BY <2>2, <3>1
    <3>2. CASE WillHear(u)
      <4>1. PICK k : k = await[u]
        OBVIOUS
      <4>2. k \in 1 .. Len(nets[n]) - 1
        BY <1>3, <3>2, <4>1 DEF WillHear
      <4>3. PICK p \in CondPlaces[u] : Differs(nets[n][k], nets[n][k + 1], p)
        BY <1>3, <3>2, <4>1 DEF WillHear
      <4>4. CASE k = 1
        <5>1. Changes(n, p)
          BY <2>3, <2>4, <2>6, <4>3, <4>4
        <5> QED
          BY <2>2, <5>1
      <4>5. CASE k # 1
        <5>1. await'[u] = k - 1 /\ k - 1 \in 1 .. Len(nets'[n]) - 1
          BY <2>1, <2>2, <4>1, <4>2, <4>5 DEF Less
        <5>2. nets'[n][k - 1] = nets[n][k] /\ nets'[n][k] = nets[n][k + 1]
          BY <2>1, <4>2, <4>5
        <5>3. PICK j : j = k - 1
          OBVIOUS
        <5>4. Differs(nets'[n][j], nets'[n][j + 1], p)
          BY <4>2, <4>3, <5>2, <5>3
        <5> QED
          BY <1>3, <4>3, <5>1, <5>3, <5>4 DEF WillHear
      <4> QED
        BY <4>4, <4>5
    <3> QED
      BY <2>9, <3>1, <3>2 DEF WakeInv
  <2> QED
    BY <1>1, <2>5, <2>7, <2>8, <2>9 DEF WakeInv
<1> QED
  BY <1>2, <1>3

\* A check that says no tells the task what to wait for.
LEMMA WakeSleeps ==
  ASSUME RunnerInv, NEW u \in Transition, IsExample(u),
         NEW d \in CheckStart(u, Copy(u)), ~d.go, GoToSleep(u, d), nets' = nets
  PROVE  WakeInv(u)'
<1>1. pc'[u] = "wait" /\ waitFor'[u] = d.waitFor /\ changed' = changed
  BY DEF GoToSleep, RunnerInv, TypeOK
<1>2. Copy(u)' = Copy(u)
  BY DEF Copy
<1>3. /\ Executor[u] = "move" => d.waitFor \in InPlaces[u]
      /\ Executor[u] = "initialize" => d.waitFor = NoPlace
      /\ ~SaysYes(u, Copy(u))
  BY MoveDecides, InitializeDecides DEF IsExample
<1>4. ~SaysYes(u, Copy(u)')
  BY <1>2, <1>3
<1> QED
  BY <1>1, <1>3, <1>4 DEF WakeInv

LEMMA WakeNext ==
  ASSUME RunnerInv, NEW u \in Transition, IsExample(u), ExampleInv(u), WakeInv(u), [Next]_vars
  PROVE  WakeInv(u)'
<1> USE DEF RunnerInv
<1>1. CASE Work(u)
  <2>1. ASSUME pc'[u] \notin {"wait", "sync"}, waitFor'[u] = NoPlace PROVE WakeInv(u)'
    BY <2>1 DEF WakeInv
  <2>2. pc[u] # "wait" => waitFor[u] = NoPlace
    BY DEF WakeInv
  <2>3. CASE WaitForChange(u)
    BY <2>1, <2>3 DEF WaitForChange, TypeOK
  <2>4. CASE FirstCheck(u)
    <3>1. nets' = nets /\ pc[u] = "check"
      BY <2>4 DEF FirstCheck, storeVars
    <3>2. PICK d \in CheckStart(u, Copy(u)) :
            IF d.go THEN pc' = [pc EXCEPT ![u] = "lock"] /\ UNCHANGED wakeVars
            ELSE GoToSleep(u, d)
      BY <2>4 DEF FirstCheck
    <3>3. CASE d.go
      BY <2>1, <2>2, <3>1, <3>2, <3>3 DEF wakeVars, TypeOK
    <3>4. CASE ~d.go
      BY <3>1, <3>2, <3>4, WakeSleeps
    <3> QED
      BY <3>3, <3>4
  <2>5. CASE SecondCheck(u)
    <3>1. nets' = nets /\ pc[u] = "lock"
      BY <2>5 DEF SecondCheck, storeVars
    <3>2. PICK d \in CheckStart(u, Copy(u)) :
            IF d.go THEN pc' = [pc EXCEPT ![u] = "start"] /\ UNCHANGED wakeVars
            ELSE GoToSleep(u, d)
      BY <2>5 DEF SecondCheck
    <3>3. CASE d.go
      BY <2>1, <2>2, <3>1, <3>2, <3>3 DEF wakeVars, TypeOK
    <3>4. CASE ~d.go
      BY <3>1, <3>2, <3>4, WakeSleeps
    <3> QED
      BY <3>3, <3>4
  <2>6. CASE StartTransition(u) \/ Run(u)
    BY <2>1, <2>2, <2>6 DEF StartTransition, Run, wakeVars, TypeOK
  <2>7. CASE EndTransition(u)
    <3> DEFINE n == NodeOf[u]
    <3>1. PICK p \in CondPlaces[u] : Differs(where, where', p)
      BY <2>7, EndShows
    <3>2. where' # where
      <4>1. \A s : ~Differs(s, s, p)
        BY DEF Differs
      <4> QED
        BY <3>1, <4>1
    <3>3. /\ nets' = [m \in Node |-> Append(nets[m], where')] /\ n \in Node
          /\ await'[u] = Len(nets'[n]) - 1 /\ pc'[u] = "sync" /\ UNCHANGED wakeVars
          /\ pc[u] = "finish"
      BY <2>7, <3>2, TransitionRunnerAssumption
         DEF EndTransition, Store, TypeOK, TransitionRunnerAssumption
    <3>4. where' \in [Token -> Positions]
      BY <2>7, EndMoves DEF StoreStep
    <3>5. /\ nets[n] \in Seq([Token -> Positions]) /\ Len(nets[n]) \in Nat /\ Len(nets[n]) >= 1
          /\ nets[n][Len(nets[n])] = where
      BY <3>3, TransitionRunnerAssumption DEF TypeOK, LastInv, TransitionRunnerAssumption
    <3>6. PICK k : k = Len(nets[n])
      OBVIOUS
    <3>7. PICK s : s = Append(nets[n], where')
      OBVIOUS
    <3>8. Len(s) = k + 1 /\ s[k] = where /\ s[k + 1] = where'
      BY <3>4, <3>5, <3>6, <3>7, AppendProperties
    <3>9. nets'[n] = s /\ await'[u] = k
      BY <3>3, <3>5, <3>6, <3>7, <3>8
    <3>10. k \in 1 .. Len(s) - 1 /\ Differs(s[k], s[k + 1], p)
      BY <3>1, <3>5, <3>6, <3>8
    <3>11. WillHear(u)'
      BY <3>9, <3>10 DEF WillHear
    <3> QED
      BY <2>2, <3>3, <3>11 DEF WakeInv, wakeVars
  <2>8. CASE Synced(u)
    <3>1. /\ pc[u] = "sync" /\ await[u] = 0 /\ pc'[u] = "wait" /\ changed'[u] = changed[u]
          /\ waitFor' = waitFor
      BY <2>8 DEF Synced, Noticed, TypeOK
    <3>2. changed[u] \cap CondPlaces[u] # {}
      BY <3>1 DEF WakeInv, WillHear
    <3>3. waitFor[u] = NoPlace
      BY <2>2, <3>1
    <3>4. changed'[u] \cap Watched(u)' # {}
      BY <3>1, <3>2, <3>3 DEF Watched
    <3> QED
      BY <3>1, <3>3, <3>4 DEF WakeInv
  <2> QED
    BY <1>1, <2>3, <2>4, <2>5, <2>6, <2>7, <2>8 DEF Work
<1>2. CASE \E n \in Node : ApplyChange(n)
  BY <1>2, WakeApply
<1>3. CASE ~Work(u) /\ ~\E n \in Node : ApplyChange(n)
  <2>1. pc'[u] = pc[u] /\ waitFor'[u] = waitFor[u]
    BY <1>3, OthersRest DEF Next
  <2>2. /\ changed'[u] = changed[u] /\ await'[u] = await[u]
        /\ nets' = nets \/ \E tr \in Transition : StartTransition(tr) \/ EndTransition(tr)
    <3>1. ASSUME NEW tr \in Transition \ {u}, Work(tr)
          PROVE  /\ changed'[u] = changed[u] /\ await'[u] = await[u]
                 /\ nets' = nets \/ StartTransition(tr) \/ EndTransition(tr)
      BY <3>1 DEF Work, WaitForChange, FirstCheck, SecondCheck, GoToSleep, StartTransition, Run,
         EndTransition, Synced, storeVars, wakeVars, TypeOK
    <3>2. ASSUME NEW tr \in Transition, NEW p \in Place, Acquire(tr, p)
          PROVE  UNCHANGED <<changed, await, nets>>
      BY <3>2 DEF Acquire, storeVars, wakeVars
    <3>3. ASSUME NEW p \in Place, ExternalAcquire(p) PROVE UNCHANGED <<changed, await, nets>>
      BY <3>3 DEF ExternalAcquire, storeVars, wakeVars
    <3>4. CASE UNCHANGED vars
      BY <3>4 DEF vars, storeVars, wakeVars
    <3> QED
      BY <1>3, <3>1, <3>2, <3>3, <3>4 DEF Next
  <2>3. NodeOf[u] \in Node
    BY TransitionRunnerAssumption DEF TransitionRunnerAssumption
  <2>4. /\ Len(nets'[NodeOf[u]]) \in {Len(nets[NodeOf[u]]), Len(nets[NodeOf[u]]) + 1}
        /\ \A i \in 1 .. Len(nets[NodeOf[u]]) : nets'[NodeOf[u]][i] = nets[NodeOf[u]][i]
    <3>1. CASE nets' = nets
      BY <3>1
    <3>2. ASSUME NEW tr \in Transition, StartTransition(tr) \/ EndTransition(tr)
          PROVE  StoreStep(tr, where')
      BY <3>2, StartMoves, EndMoves
    <3>3. ASSUME NEW tr \in Transition, StoreStep(tr, where')
          PROVE  /\ Len(nets'[NodeOf[u]]) \in {Len(nets[NodeOf[u]]), Len(nets[NodeOf[u]]) + 1}
                 /\ \A i \in 1 .. Len(nets[NodeOf[u]]) :
                      nets'[NodeOf[u]][i] = nets[NodeOf[u]][i]
      <4>1. PICK s \in [Token -> Positions] : s = where'
        BY <3>3 DEF StoreStep
      <4>2. Store(s)
        BY <3>3, <4>1 DEF StoreStep, Store
      <4> QED
        BY <2>3, <4>2, StoreNets
    <3> QED
      BY <2>2, <3>1, <3>2, <3>3
  <2> QED
    BY <2>1, <2>2, <2>4, WakeKept
<1> QED
  BY <1>1, <1>2, <1>3

\* So who sleeps would not start.
LEMMA SleepersSayNo ==
  ASSUME ExamplesValidated, RunnerInv, \A tr \in Transition : IsExample(tr) => WakeInv(tr)
  PROVE  SleepersNeedNotRun
<1> SUFFICES ASSUME NEW tr \in Transition, Executor[tr] # "any", pc[tr] = "wait",
                    changed[tr] \cap Watched(tr) = {}, NEW d \in CheckStart(tr, Copy(tr))
             PROVE  ~d.go
  BY DEF SleepersNeedNotRun
<1>1. IsExample(tr)
  BY TransitionRunnerAssumption
     DEF IsExample, ExamplesValidated, TransitionRunnerAssumption
<1>2. ~SaysYes(tr, Copy(tr))
  BY <1>1 DEF WakeInv
<1> QED
  BY <1>2 DEF SaysYes

(***************************************************************************)
(* The theorems.                                                           *)
(***************************************************************************)

\* Every variable of the transition tasks always has its type; in particular
\* etcd never holds a token that is torn between transitions.
THEOREM TypeCorrect == Spec => []TypeOK
<1>1. RunnerInv => TypeOK
  BY DEF RunnerInv
<1> QED
  BY <1>1, RunnerInvariant, PTL

\* Whatever the transitions are and however far the runners lag behind, a
\* transition starts on what is in etcd, not on what was.
THEOREM DecisionsAreCurrent == Spec => DecisionIsCurrent
<1>1. RunnerInv /\ [Next]_vars =>
        [\A tr \in Transition : pc[tr] = "start" /\ pc'[tr] = "run" =>
           \A p \in CondPlaces[tr] : StillSo(view[tr], where, p)]_vars
  BY DEF RunnerInv, ViewInv
<1> QED
  BY <1>1, RunnerInvariant, PTL DEF Spec, DecisionIsCurrent

\* Transitions that decide on lagging copies of the net, under locks whose
\* revisions they wait for, never do more than the token game allows: a token
\* is taken where it is, by one transition, which alone decides where it goes.
THEOREM RunnersPlayTokenGame == Spec => ImplementsTokenGame
<1>1. RunnerInv /\ [Next]_vars => [Game!Next]_<<where, used>>
  BY NextPlaysGame
<1> QED
  BY <1>1, InitPlaysGame, RunnerInvariant, PTL DEF Spec, ImplementsTokenGame, Game!Spec

\* An initialize that watches all places a token can get to never creates a
\* second one: its locks come with the revision at which its check was right,
\* and it counts the tokens that other transitions have taken.
THEOREM NoSecondToken == ASSUME OneInitialize PROVE Spec => []AtMostOneToken
<1> DEFINE Inv == OneInv /\ \A tr \in Transition : ExampleInv(tr)
<1>1. Init => Inv
  BY OneInit DEF Init, ExampleInv
<1>2. RunnerInv /\ Inv /\ [Next]_vars => Inv'
  BY OneNext, ExampleNext
<1>3. Inv => AtMostOneToken
  BY OneToken
<1> HIDE DEF Inv
<1> QED
  BY <1>1, <1>2, <1>3, RunnerInvariant, PTL DEF Spec

\* A task of a validated example that sleeps with nothing to wake it misses no
\* start: whatever makes its check say yes notifies it, and the end of its own
\* firing does so before it sleeps again.
THEOREM SleepersMissNothing == ASSUME ExamplesValidated PROVE Spec => []SleepersNeedNotRun
<1> DEFINE Inv == \A tr \in Transition : ExampleInv(tr) /\ (IsExample(tr) => WakeInv(tr))
<1>1. Init => Inv
  BY WakeInit DEF Init, ExampleInv
<1>2. RunnerInv /\ Inv /\ [Next]_vars => Inv'
  <2>1. SUFFICES ASSUME RunnerInv, Inv, [Next]_vars, NEW tr \in Transition
                 PROVE  ExampleInv(tr)' /\ (IsExample(tr) => WakeInv(tr)')
    BY DEF IsExample, MoveValidated, InitializeValidated
  <2> QED
    BY <2>1, ExampleNext, WakeNext
<1>3. RunnerInv /\ Inv => SleepersNeedNotRun
  BY SleepersSayNo
<1> HIDE DEF Inv
<1> QED
  BY <1>1, <1>2, <1>3, RunnerInvariant, PTL DEF Spec
=============================================================================
