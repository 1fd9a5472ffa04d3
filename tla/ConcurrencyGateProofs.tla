------------------------- MODULE ConcurrencyGateProofs -------------------------
(***************************************************************************)
(* SlotsConserved and NoStrandedSlot of the concurrency gate, for any number *)
(* of requests, any chains of pools of any size, any deadline and any number *)
(* of cancellations.                                                         *)
(*                                                                           *)
(* Both follow from one inductive invariant.  What it adds to them: where a  *)
(* request stands in its chain at each point of the code, who has the lock of *)
(* a pool, that a pool has no slot left while a request prepares to wait for  *)
(* it, that the queue of a condition holds waiting tasks once each, and that  *)
(* a pool with waiters has a task on its way to look for each free slot.      *)
(***************************************************************************)
EXTENDS ConcurrencyGate, FiniteSetTheorems, SequenceTheorems, TLAPS

\* Points of acquire, of release, and those at which a task has the lock.
Acquiring == {"new", "next"} \cup Queued \cup Return
Giving    == {"release", "relwait"}
Locking   == {"arming", "resumed", "late", "dropped"}
Looking   == {"woken", "expired", "resumed", "late"}

Wakers(p) == {r \in Reqs : req[r].pc \in Looking /\ Wanted(r) = p}

InChain ==
    \A r \in Reqs :
        /\ req[r].got <= Len(Chain[r])
        /\ req[r].pc \in Acquiring => req[r].got < Len(Chain[r])
        /\ req[r].pc \in Giving => req[r].got > 0

HasLock == \A r \in Reqs : req[r].pc \in Locking => lock[Wanted(r)] = r

NothingLeft == \A r \in Reqs : req[r].pc = "arming" => free[Wanted(r)] = 0

WaitingOnce ==
    \A p \in Pools :
        /\ \A i \in DOMAIN queue[p] : req[queue[p][i]].pc = "waiting" /\ Wanted(queue[p][i]) = p
        /\ \A i, k \in DOMAIN queue[p] : queue[p][i] = queue[p][k] => i = k

Slots == \A p \in Pools : IsFiniteSet(Holders(p)) /\ free[p] + Cardinality(Holders(p)) = Size[p]

EnoughWakers ==
    cancels = 0 =>
        \A p \in Pools : /\ IsFiniteSet(Wakers(p))
                         /\ queue[p] # <<>> => free[p] <= Cardinality(Wakers(p))

Inv == TypeOK /\ InChain /\ HasLock /\ NothingLeft /\ WaitingOnce /\ Slots /\ EnoughWakers

(***************************************************************************)
(* Queues and cardinalities                                                 *)
(***************************************************************************)
\* _waiters.remove of a task from a queue that holds every task at most once.
LEMMA RemoveFirstOnce ==
    ASSUME NEW s \in Seq(Reqs), NEW r \in Reqs, NEW t, t = RemoveFirst(s, r),
           \A i, k \in DOMAIN s : s[i] = s[k] => i = k
    PROVE  /\ t \in Seq(Reqs)
           /\ \A i \in DOMAIN t : t[i] # r /\ \E k \in DOMAIN s : t[i] = s[k]
           /\ \A i, k \in DOMAIN t : t[i] = t[k] => i = k
<1>1. CASE ~ \E i \in 1..Len(s) : s[i] = r
  <2>1. t = s
    BY <1>1 DEF RemoveFirst
  <2> QED BY <2>1, <1>1
<1>2. CASE \E i \in 1..Len(s) : s[i] = r
  <2>1. PICK j \in 1..Len(s) : s[j] = r
    BY <1>2
  <2> DEFINE I == {i \in 1..Len(s) : s[i] = r}
  <2>2. I = {j}
    BY <2>1
  <2>3. Min(I) = j
    BY <2>2 DEF Min
  <2>4. t = RemoveAt(s, j)
    BY <1>2, <2>2, <2>3 DEF RemoveFirst, SelectInSeq
  <2>5. t = SubSeq(s, 1, j - 1) \o SubSeq(s, j + 1, Len(s))
    BY <2>4 DEF RemoveAt
  <2> DEFINE a == SubSeq(s, 1, j - 1)
             b == SubSeq(s, j + 1, Len(s))
  <2>6. Len(s) \in Nat /\ j \in 1..Len(s)
    OBVIOUS
  <2>7. /\ a \in Seq(Reqs) /\ Len(a) = j - 1
        /\ \A i \in 1..(j - 1) : a[i] = s[i]
    BY <2>6
  <2>8. /\ b \in Seq(Reqs) /\ Len(b) = Len(s) - j
        /\ \A i \in 1..(Len(s) - j) : b[i] = s[i + j]
    BY <2>6
  <2> HIDE DEF a, b
  <2>9. /\ t \in Seq(Reqs) /\ Len(t) = Len(s) - 1
        /\ \A i \in 1..Len(t) : t[i] = IF i < j THEN s[i] ELSE s[i + 1]
    <3>1. t = a \o b
      BY <2>5 DEF a, b
    <3>2. /\ t \in Seq(Reqs) /\ Len(t) = Len(a) + Len(b)
          /\ \A i \in 1..Len(t) : t[i] = IF i <= Len(a) THEN a[i] ELSE b[i - Len(a)]
      <4>1. a \in Seq(Reqs) /\ b \in Seq(Reqs)
        BY <2>7, <2>8
      <4>2. /\ a \o b \in Seq(Reqs) /\ Len(a \o b) = Len(a) + Len(b)
            /\ \A i \in 1..(Len(a) + Len(b)) : (a \o b)[i] = IF i <= Len(a) THEN a[i] ELSE b[i - Len(a)]
        BY <4>1, ConcatProperties, Zenon
      <4> QED BY <3>1, <4>2, Zenon
    <3>3. ASSUME NEW i \in 1..Len(t) PROVE t[i] = IF i < j THEN s[i] ELSE s[i + 1]
      <4>1. CASE i < j
        BY <3>2, <2>6, <2>7, <4>1
      <4>2. CASE i >= j
        <5>1. i - (j - 1) \in 1..(Len(s) - j) /\ (i - (j - 1)) + j = i + 1
          BY <3>2, <2>6, <2>7, <2>8, <4>2
        <5>2. t[i] = b[i - (j - 1)]
          BY <3>2, <2>6, <2>7, <4>2
        <5> QED BY <5>1, <5>2, <2>8, <2>6, <4>2
      <4> QED BY <4>1, <4>2, <2>6, <2>7, <2>8, <3>2
    <3> QED BY <3>2, <3>3, <2>6, <2>7, <2>8
  <2>10. \A i \in 1..Len(t) : t[i] # r /\ \E k \in DOMAIN s : t[i] = s[k]
    BY <2>1, <2>6, <2>9, SMTT(30)
  <2>11. \A i, k \in 1..Len(t) : t[i] = t[k] => i = k
    BY <2>6, <2>9, SMTT(30)
  <2> QED BY <2>9, <2>10, <2>11, SMTT(30)
<1> QED BY <1>1, <1>2

\* A set that differs from a finite one in at most one element.
LEMMA NearlySame ==
    ASSUME NEW S, NEW T, NEW x, IsFiniteSet(S), T \ {x} = S \ {x}
    PROVE  /\ IsFiniteSet(T) /\ Cardinality(S) \in Nat /\ Cardinality(T) \in Nat
           /\ Cardinality(T) >= Cardinality(S) - 1
           /\ (x \notin S \/ x \in T) => Cardinality(T) >= Cardinality(S)
           /\ (x \notin S /\ x \in T) => Cardinality(T) = Cardinality(S) + 1
           /\ (x \in S /\ x \notin T) => Cardinality(T) = Cardinality(S) - 1
<1> DEFINE U == S \ {x}
<1>1. IsFiniteSet(U) /\ Cardinality(U) \in Nat /\ Cardinality(S) \in Nat
  BY FS_RemoveElement, FS_CardinalityType, FS_Subset
<1>2. x \in S => Cardinality(S) = Cardinality(U) + 1
  BY <1>1, FS_RemoveElement
<1>3. x \notin S => S = U
  OBVIOUS
<1>4. x \notin T => T = U
  OBVIOUS
<1>5. x \in T => T = U \cup {x} /\ x \notin U
  OBVIOUS
<1>6. x \in T => IsFiniteSet(T) /\ Cardinality(T) = Cardinality(U) + 1
  <2> SUFFICES ASSUME x \in T PROVE IsFiniteSet(T) /\ Cardinality(T) = Cardinality(U) + 1
    OBVIOUS
  <2> HIDE DEF U
  <2> QED BY <1>1, <1>5, FS_AddElement
<1> HIDE DEF U
<1>7. IsFiniteSet(T) /\ (x \notin T => Cardinality(T) = Cardinality(U))
  BY <1>1, <1>4, <1>6
<1>8. (x \notin S => Cardinality(S) = Cardinality(U))
  BY <1>3
<1> QED BY <1>1, <1>2, <1>6, <1>7, <1>8

(***************************************************************************)
(* Steps of one task                                                        *)
(***************************************************************************)
Others(r) == \A q \in Reqs \ {r} : req'[q] = req[q]

\* A step of one request leaves the others where they are.
LEMMA BecomeIs ==
    ASSUME TypeOK, NEW r \in Reqs, NEW v \in Request, Become(r, v)
    PROVE  req' \in [Reqs -> Request] /\ req'[r] = v /\ Others(r)
  BY DEF TypeOK, Become, Others

\* The except and finally clauses end the task, or let it give back what it has.
LEMMA UnwindIs ==
    ASSUME TypeOK, NEW r \in Reqs, NEW o \in Outcomes, Unwind(r, o)
    PROVE  \E v \in Request : /\ Become(r, v) /\ v.got = req[r].got
                              /\ v.pc \in {"end", "release"} /\ (v.pc = "release" => req[r].got > 0)
<1> DEFINE l == IF req[r].got = 0 THEN "end" ELSE "release"
           v == [req[r] EXCEPT !.pc = l, !.out = o]
<1>1. req[r] \in Request
  BY DEF TypeOK
<1>2. l \in {"end", "release"} /\ (l = "release" => req[r].got > 0)
  BY <1>1 DEF Request
<1>3. Become(r, v)
  BY DEF Unwind
<1> HIDE DEF l
<1>4. v \in Request /\ v.got = req[r].got /\ v.pc = l
  BY <1>1, <1>2 DEF Request, PCs
<1> QED BY <1>2, <1>3, <1>4

\* A task moves on without taking or giving a slot.
LEMMA GotoIs ==
    ASSUME TypeOK, NEW r \in Reqs, NEW l \in PCs, Goto(r, l)
    PROVE  \E v \in Request : Become(r, v) /\ v.got = req[r].got /\ v.pc = l
<1> DEFINE v == [req[r] EXCEPT !.pc = l]
<1>1. req[r] \in Request
  BY DEF TypeOK
<1>2. v \in Request /\ v.got = req[r].got /\ v.pc = l
  BY <1>1 DEF Request
<1> QED BY <1>2 DEF Goto

\* What is known of a request that is acquiring.
LEMMA WantedIsPool ==
    ASSUME TypeOK, InChain, NEW r \in Reqs, req[r].pc \in Acquiring
    PROVE  /\ req[r].got + 1 \in DOMAIN Chain[r] /\ req[r].got \in Nat /\ req[r].got < Len(Chain[r])
           /\ Wanted(r) \in Pools /\ free[Wanted(r)] \in Nat
<1>1. Chain[r] \in Seq(Pools) /\ req[r].got \in Nat
  BY GateAssumption DEF TypeOK, Request
<1>2. req[r].got < Len(Chain[r])
  BY DEF InChain
<1>3. req[r].got + 1 \in 1..Len(Chain[r])
  BY <1>1, <1>2
<1>4. Wanted(r) \in Pools
  BY <1>1, <1>3 DEF Wanted
<1>5. free[Wanted(r)] \in Nat
  BY <1>4 DEF TypeOK
<1> QED BY <1>1, <1>2, <1>3, <1>4, <1>5

\* A task that stays at its place in the chain leaves the slots alone.
LEMMA StaysInChain ==
    ASSUME InChain, Slots, NEW r \in Reqs, Others(r), req'[r].got = req[r].got, free' = free,
           req'[r].pc \in Acquiring => req[r].pc \in Acquiring,
           req'[r].pc \in Giving => req[r].got > 0
    PROVE  InChain' /\ Slots'
<1>1. \A q \in Reqs : req'[q].got = req[q].got
  BY DEF Others
<1>2. InChain'
  BY <1>1 DEF InChain, Others
<1>3. \A p \in Pools : Holders(p)' = Holders(p)
  BY <1>1 DEF Holders
<1>4. Slots'
  BY <1>3 DEF Slots
<1> QED BY <1>2, <1>4

\* A task that is on its way to look at _free may turn away from it only with a
\* slot, or when there is none.
LEMMA StillEnoughWakers ==
    ASSUME EnoughWakers, NEW r \in Reqs, Others(r),
           free \in [Pools -> Nat], free' \in [Pools -> Nat],
           cancels' = 0 => cancels = 0,
           \A p \in Pools : free'[p] <= free[p],
           \A p \in Pools : queue'[p] # <<>> => queue[p] # <<>> \/ free'[p] = 0,
           \A p \in Pools : cancels' = 0 /\ r \in Wakers(p) /\ r \notin Wakers(p)'
                            => free'[p] < free[p] \/ free'[p] = 0
    PROVE  EnoughWakers'
<1> SUFFICES ASSUME cancels' = 0, NEW p \in Pools
             PROVE  /\ IsFiniteSet(Wakers(p)')
                    /\ queue'[p] # <<>> => free'[p] <= Cardinality(Wakers(p)')
  BY DEF EnoughWakers
<1>1. Wakers(p)' \ {r} = Wakers(p) \ {r}
  BY DEF Wakers, Wanted, Others
<1>2. IsFiniteSet(Wakers(p)) /\ (queue[p] # <<>> => free[p] <= Cardinality(Wakers(p)))
  BY DEF EnoughWakers
<1> DEFINE S == Wakers(p)
           T == Wakers(p)'
<1>3. /\ IsFiniteSet(T) /\ Cardinality(S) \in Nat /\ Cardinality(T) \in Nat
      /\ Cardinality(T) >= Cardinality(S) - 1
      /\ (r \notin S \/ r \in T) => Cardinality(T) >= Cardinality(S)
  <2> HIDE DEF S, T
  <2>1. IsFiniteSet(S) /\ T \ {r} = S \ {r}
    BY <1>1, <1>2 DEF S, T
  <2> QED BY <2>1, NearlySame
<1>4. free[p] \in Nat /\ free'[p] \in Nat
  OBVIOUS
<1> HIDE DEF S, T
<1>5. queue'[p] # <<>> => free'[p] <= Cardinality(T)
  <2>1. r \in S /\ r \notin T => free'[p] < free[p] \/ free'[p] = 0
    BY DEF S, T
  <2>2. queue[p] # <<>> => free[p] <= Cardinality(S)
    BY <1>2 DEF S
  <2> QED BY <1>3, <1>4, <2>1, <2>2
<1> QED BY <1>3, <1>5 DEF T

\* Only a task in the queue of a condition is waiting.
LEMMA QueueKept ==
    ASSUME WaitingOnce, TypeOK, NEW r \in Reqs, Others(r), queue' = queue, req[r].pc # "waiting"
    PROVE  WaitingOnce'
<1> SUFFICES ASSUME NEW p \in Pools
             PROVE  /\ \A i \in DOMAIN queue[p] : req'[queue[p][i]].pc = "waiting" /\ Wanted(queue[p][i])' = p
                    /\ \A i, k \in DOMAIN queue[p] : queue[p][i] = queue[p][k] => i = k
  BY DEF WaitingOnce
<1>1. \A i \in DOMAIN queue[p] : queue[p][i] \in Reqs \ {r}
  BY DEF WaitingOnce, TypeOK
<1> QED BY <1>1 DEF WaitingOnce, Wanted, Others

\* The locks of the others: no two tasks have the lock of a pool.
LEMMA LockKept ==
    ASSUME HasLock, NothingLeft, NEW r \in Reqs, Others(r), free' = free,
           \A p \in Pools : lock'[p] = lock[p] \/ lock[p] \in {Null, r},
           \A q \in Reqs : req[q].pc \in Locking => Wanted(q) \in Pools,
           req'[r].pc \in Locking => lock'[Wanted(r)'] = r,
           req'[r].pc = "arming" => free[Wanted(r)'] = 0
    PROVE  HasLock' /\ NothingLeft'
<1>1. ASSUME NEW q \in Reqs, q # r, req'[q].pc \in Locking
      PROVE  lock'[Wanted(q)'] = q /\ (req'[q].pc = "arming" => free[Wanted(q)'] = 0)
  <2>1. req'[q] = req[q] /\ Wanted(q)' = Wanted(q)
    BY <1>1 DEF Others, Wanted
  <2>2. lock[Wanted(q)] = q /\ Wanted(q) \in Pools
    BY <1>1, <2>1 DEF HasLock
  <2>3. lock'[Wanted(q)] = lock[Wanted(q)]
    BY <1>1, <2>2, GateAssumption
  <2> QED BY <2>1, <2>2, <2>3 DEF NothingLeft
<1> QED BY <1>1 DEF HasLock, NothingLeft, Locking

\* A task that has, or is about to take back, a lock wants a pool of its chain.
LEMMA LockingWants ==
    ASSUME TypeOK, InChain
    PROVE  \A q \in Reqs : req[q].pc \in Locking => Wanted(q) \in Pools
  BY WantedIsPool DEF Locking, Acquiring, Queued, Return

\* A round of the loop, by a task that has the lock or takes it.
LEMMA RoundKeeps ==
    ASSUME Inv, NEW r \in Reqs, Round(r), queue' = queue, cancels' = cancels,
           req[r].pc \in {"next", "lockwait", "resumed", "late"},
           lock[Wanted(r)] \in {Null, r}
    PROVE  Inv'
<1> DEFINE w == Wanted(r)
<1>1. /\ req[r].got \in Nat /\ req[r].got < Len(Chain[r]) /\ w \in Pools /\ free[w] \in Nat
      /\ req[r].got + 1 \in DOMAIN Chain[r]
  BY WantedIsPool DEF Inv, Acquiring, Queued, Return
<1>2. req[r] \in Request /\ Timeout \in Nat /\ Chain[r] \in Seq(Pools)
  BY GateAssumption DEF Inv, TypeOK
<1>3. /\ TypeOK /\ InChain /\ HasLock /\ NothingLeft /\ WaitingOnce /\ Slots /\ EnoughWakers
      /\ \A q \in Reqs : req[q].pc \in Locking => Wanted(q) \in Pools
  BY LockingWants DEF Inv
<1>4. ASSUME Others(r) PROVE WaitingOnce'
  BY <1>3, <1>4, QueueKept
<1>5. CASE free[w] > 0
  <2> DEFINE l == IF req[r].got + 1 = Len(Chain[r]) THEN "held" ELSE "next"
             v == [req[r] EXCEPT !.pc = l, !.got = @ + 1, !.left = Timeout]
  <2>1. /\ free' = [free EXCEPT ![w] = @ - 1] /\ lock' = [lock EXCEPT ![w] = Null] /\ Become(r, v)
    BY <1>1, <1>5 DEF Round, Lock
  <2>2. /\ v \in Request /\ v.got = req[r].got + 1 /\ v.pc \in {"held", "next"}
        /\ v.pc = "next" => req[r].got + 1 # Len(Chain[r])
    <3>1. l \in {"held", "next"} /\ (l = "next" => req[r].got + 1 # Len(Chain[r]))
      OBVIOUS
    <3> HIDE DEF l
    <3>2. v \in Request
      <4> DEFINE g == req[r].got + 1
                 u == [req[r] EXCEPT !.pc = l, !.got = g, !.left = Timeout]
      <4>1. l \in PCs /\ g \in Nat /\ Timeout \in 0..Timeout
        BY <1>1, <1>2, <3>1 DEF PCs
      <4> HIDE DEF g
      <4>2. u \in Request
        BY <1>2, <4>1 DEF Request
      <4>3. v = u
        BY DEF g
      <4> QED BY <4>2, <4>3
    <3>3. v.got = req[r].got + 1 /\ v.pc = l
      BY <1>1, <1>2 DEF Request
    <3> QED BY <3>1, <3>2, <3>3
  <2> HIDE DEF v
  <2>3. req' \in [Reqs -> Request] /\ req'[r] = v /\ Others(r)
    BY <1>3, <2>1, <2>2, BecomeIs
  <2>4. free' \in [Pools -> Nat] /\ lock' \in [Pools -> Reqs \cup {Null}]
    BY <1>1, <1>3, <1>5, <2>1 DEF TypeOK
  <2>5. TypeOK'
    BY <1>3, <2>3, <2>4 DEF TypeOK
  <2>6. InChain'
    <3>1. \A q \in Reqs \ {r} : req'[q] = req[q]
      BY <2>3 DEF Others
    <3>2. /\ req'[r].got <= Len(Chain[r])
          /\ req'[r].pc \in Acquiring => req'[r].got < Len(Chain[r])
          /\ req'[r].pc \notin Giving
      BY <1>1, <1>2, <2>2, <2>3 DEF Acquiring, Giving, Queued, Return
    <3> QED BY <1>3, <3>1, <3>2 DEF InChain
  <2>7. HasLock' /\ NothingLeft'
    <3> SUFFICES ASSUME NEW q \in Reqs, req'[q].pc \in Locking
                 PROVE  lock'[Wanted(q)'] = q /\ (req'[q].pc = "arming" => free'[Wanted(q)'] = 0)
      BY DEF HasLock, NothingLeft, Locking
    <3>1. q # r
      BY <2>2, <2>3 DEF Locking
    <3>2. req'[q] = req[q] /\ Wanted(q)' = Wanted(q)
      BY <2>3, <3>1 DEF Others, Wanted
    <3>3. lock[Wanted(q)] = q /\ Wanted(q) \in Pools
      BY <1>3, <3>2 DEF HasLock
    <3>4. Wanted(q) # w
      BY <3>1, <3>3, GateAssumption
    <3> QED BY <1>1, <1>3, <2>1, <3>2, <3>3, <3>4 DEF NothingLeft, TypeOK
  <2>8. Slots'
    <3> SUFFICES ASSUME NEW p \in Pools
                 PROVE  /\ IsFiniteSet(Holders(p)')
                        /\ free'[p] + Cardinality(Holders(p)') = Size[p]
      BY DEF Slots
    <3> DEFINE S == Holders(p)
               T == Holders(p)'
    <3>1. \A k \in 1..req[r].got : Chain[r][k] # w
      <4> TAKE k \in 1..req[r].got
      <4>1. k \in DOMAIN Chain[r] /\ k # req[r].got + 1
        BY <1>1, <1>2
      <4> QED BY <1>1, <4>1, GateAssumption DEF Wanted
    <3>2. \A q \in Reqs \ {r} : req'[q].got = req[q].got
      BY <2>3 DEF Others
    <3>3. T \ {r} = S \ {r}
      BY <3>2 DEF Holders
    <3>4. 1..req'[r].got = (1..req[r].got) \cup {req[r].got + 1}
      BY <1>1, <2>2, <2>3
    <3>5. r \in S <=> \E k \in 1..req[r].got : Chain[r][k] = p
      BY DEF Holders
    <3>6. r \in T <=> \E k \in 1..req'[r].got : Chain[r][k] = p
      BY DEF Holders
    <3>7. p = w => r \notin S /\ r \in T
      BY <3>1, <3>4, <3>5, <3>6 DEF Wanted
    <3>8. p # w => (r \in S <=> r \in T)
      BY <3>4, <3>5, <3>6 DEF Wanted
    <3>9. IsFiniteSet(S) /\ free[p] + Cardinality(S) = Size[p] /\ free[p] \in Nat
      BY <1>3 DEF Slots, TypeOK
    <3>10. free'[p] = IF p = w THEN free[p] - 1 ELSE free[p]
      BY <1>3, <2>1 DEF TypeOK
    <3> HIDE DEF S, T
    <3>11. p # w => T = S
      BY <3>3, <3>8
    <3>12. /\ IsFiniteSet(T) /\ Cardinality(S) \in Nat /\ Cardinality(T) \in Nat
           /\ (r \notin S /\ r \in T) => Cardinality(T) = Cardinality(S) + 1
      BY <3>3, <3>9, NearlySame
    <3>13. free'[p] + Cardinality(T) = Size[p]
      BY <3>7, <3>9, <3>10, <3>11, <3>12
    <3> QED BY <3>12, <3>13 DEF T
  <2>9. EnoughWakers'
    <3>1. \A p \in Pools : free'[p] <= free[p] /\ (r \in Wakers(p) => free'[p] < free[p])
      BY <1>1, <1>3, <2>1 DEF TypeOK, Wakers
    <3>2. free \in [Pools -> Nat]
      BY <1>3 DEF TypeOK
    <3> QED BY <1>3, <2>3, <2>4, <3>1, <3>2, StillEnoughWakers
  <2> QED BY <1>4, <2>3, <2>5, <2>6, <2>7, <2>8, <2>9 DEF Inv
<1>6. CASE ~(free[w] > 0)
  <2>1. free[w] = 0 /\ free' = free
    BY <1>1, <1>6 DEF Round
  <2>2. PICK v \in Request :
           /\ Become(r, v) /\ v.got = req[r].got
           /\ \/ lock' = [lock EXCEPT ![w] = Null] /\ v.pc \in {"end", "release"}
                 /\ (v.pc = "release" => req[r].got > 0)
              \/ lock' = [lock EXCEPT ![w] = r] /\ v.pc = "arming"
    <3>1. CASE req[r].left = 0
      <4>1. Unwind(r, "timeout") /\ lock' = [lock EXCEPT ![w] = Null]
        BY <1>1, <1>6, <3>1 DEF Round, Lock
      <4> QED BY <1>3, <4>1, UnwindIs DEF Outcomes
    <3>2. CASE req[r].left # 0
      <4> DEFINE u == [req[r] EXCEPT !.pc = "arming"]
      <4>1. Become(r, u) /\ lock' = [lock EXCEPT ![w] = r]
        BY <1>1, <1>6, <3>2 DEF Round, Lock, Goto
      <4>2. u \in Request /\ u.got = req[r].got /\ u.pc = "arming"
        BY <1>1, <1>2 DEF Request, PCs, Queued
      <4> HIDE DEF u
      <4> QED BY <4>1, <4>2
    <3> QED BY <3>1, <3>2
  <2>3. req' \in [Reqs -> Request] /\ req'[r] = v /\ Others(r)
    BY <1>3, <2>2, BecomeIs
  <2>4. lock' \in [Pools -> Reqs \cup {Null}]
    BY <1>3, <2>2 DEF TypeOK
  <2>5. TypeOK'
    BY <1>3, <2>1, <2>3, <2>4 DEF TypeOK
  <2>6. InChain' /\ Slots'
    <3>1. req'[r].pc \in Acquiring => req[r].pc \in Acquiring
      BY DEF Acquiring, Queued, Return
    <3>2. req'[r].pc \in Giving => req[r].got > 0
      BY <2>2, <2>3 DEF Giving
    <3> QED BY <1>3, <2>1, <2>2, <2>3, <3>1, <3>2, StaysInChain
  <2>7. HasLock' /\ NothingLeft'
    <3>1. Wanted(r)' = w
      BY <2>2, <2>3 DEF Wanted
    <3>2. \A p \in Pools : lock'[p] = lock[p] \/ lock[p] \in {Null, r}
      BY <1>3, <2>2 DEF TypeOK
    <3>3. req'[r].pc \in Locking => lock'[Wanted(r)'] = r
      BY <1>1, <1>3, <2>2, <2>3, <3>1 DEF Locking, TypeOK
    <3> QED BY <1>3, <2>1, <2>3, <3>1, <3>2, <3>3, LockKept
  <2>8. EnoughWakers'
    <3>1. \A p \in Pools : free'[p] <= free[p] /\ (r \in Wakers(p) => free'[p] = 0)
      BY <1>3, <2>1 DEF Wakers, TypeOK
    <3>2. free \in [Pools -> Nat]
      BY <1>3 DEF TypeOK
    <3> QED BY <1>3, <2>1, <2>3, <3>1, <3>2, StillEnoughWakers
  <2> QED BY <1>4, <2>3, <2>5, <2>6, <2>7, <2>8 DEF Inv
<1> QED BY <1>1, <1>5, <1>6

\* Any other step of one task, which neither takes nor gives a slot.
LEMMA MoveKeeps ==
    ASSUME Inv, NEW r \in Reqs, NEW v \in Request, Become(r, v),
           v.got = req[r].got, free' = free, cancels' \in 0..MaxCancels, cancels' = 0 => cancels = 0,
           lock' \in [Pools -> Reqs \cup {Null}], queue' \in [Pools -> Seq(Reqs)],
           v.pc \in Acquiring => req[r].pc \in Acquiring,
           v.pc \in Giving => req[r].got > 0,
           \A p \in Pools : lock'[p] = lock[p] \/ lock[p] \in {Null, r},
           v.pc \in Locking => lock'[Wanted(r)] = r,
           v.pc = "arming" => free[Wanted(r)] = 0,
           Others(r) /\ req'[r] = v => WaitingOnce',
           \A p \in Pools : queue'[p] # <<>> => queue[p] # <<>> \/ free[p] = 0,
           cancels' = 0 /\ req[r].pc \in Looking => v.pc \in Looking
    PROVE  Inv'
<1>1. /\ TypeOK /\ InChain /\ HasLock /\ NothingLeft /\ WaitingOnce /\ Slots /\ EnoughWakers
      /\ \A q \in Reqs : req[q].pc \in Locking => Wanted(q) \in Pools
  BY LockingWants DEF Inv
<1>2. req' \in [Reqs -> Request] /\ req'[r] = v /\ Others(r)
  BY <1>1, BecomeIs
<1>3. TypeOK'
  BY <1>1, <1>2 DEF TypeOK
<1>4. InChain' /\ Slots'
  BY <1>1, <1>2, StaysInChain
<1>5. Wanted(r)' = Wanted(r)
  BY <1>2 DEF Wanted
<1>6. HasLock' /\ NothingLeft'
  <2>1. req'[r].pc \in Locking => lock'[Wanted(r)'] = r
    BY <1>2, <1>5
  <2>2. req'[r].pc = "arming" => free[Wanted(r)'] = 0
    BY <1>2, <1>5
  <2> QED BY <1>1, <1>2, <2>1, <2>2, LockKept
<1>7. EnoughWakers'
  <2>1. free \in [Pools -> Nat] /\ \A p \in Pools : free'[p] <= free[p]
    BY <1>1 DEF TypeOK
  <2>2. \A p \in Pools : cancels' = 0 /\ r \in Wakers(p) => r \in Wakers(p)'
    BY <1>2, <1>5 DEF Wakers
  <2> QED BY <1>1, <1>2, <2>1, <2>2, StillEnoughWakers
<1> QED BY <1>2, <1>3, <1>4, <1>6, <1>7 DEF Inv

\* A task leaves the queue of the pool it wants.
LEMMA LeaveIs ==
    ASSUME Inv, NEW r \in Reqs, req[r].pc \in {"waiting", "woken"}, Leave(Wanted(r), r)
    PROVE  /\ queue' \in [Pools -> Seq(Reqs)]
           /\ \A p \in Pools : queue'[p] # <<>> => queue[p] # <<>>
           /\ Others(r) => WaitingOnce'
<1> DEFINE w == Wanted(r)
<1>1. w \in Pools
  BY WantedIsPool DEF Inv, Acquiring, Queued
<1>2. queue \in [Pools -> Seq(Reqs)] /\ WaitingOnce
  BY DEF Inv, TypeOK
<1> DEFINE t == RemoveFirst(queue[w], r)
<1>3. queue' = [queue EXCEPT ![w] = t]
  BY DEF Leave
<1>4. /\ t \in Seq(Reqs)
      /\ \A i \in DOMAIN t : t[i] # r /\ \E k \in DOMAIN queue[w] : t[i] = queue[w][k]
      /\ \A i, k \in DOMAIN t : t[i] = t[k] => i = k
  <2>1. queue[w] \in Seq(Reqs) /\ \A i, k \in DOMAIN queue[w] : queue[w][i] = queue[w][k] => i = k
    BY <1>1, <1>2 DEF WaitingOnce
  <2> HIDE DEF w
  <2> QED BY <2>1, RemoveFirstOnce
<1> HIDE DEF t
<1>5. queue' \in [Pools -> Seq(Reqs)]
  BY <1>1, <1>2, <1>3, <1>4
<1>6. queue'[w] # <<>> => queue[w] # <<>>
  <2> SUFFICES ASSUME queue[w] = <<>> PROVE queue'[w] = <<>>
    OBVIOUS
  <2>1. DOMAIN queue[w] = {}
    OBVIOUS
  <2>2. DOMAIN t = {}
    BY <1>4, <2>1
  <2>3. t = <<>>
    BY <1>4, <2>2
  <2> QED BY <1>1, <1>2, <1>3, <2>3
<1>7. \A p \in Pools : queue'[p] # <<>> => queue[p] # <<>>
  BY <1>1, <1>2, <1>3, <1>6
<1>8. ASSUME Others(r) PROVE WaitingOnce'
  <2> DEFINE W(q) == Chain[q][req'[q].got + 1]
  <2> SUFFICES ASSUME NEW p \in Pools
               PROVE  /\ \A i \in DOMAIN queue'[p] : req'[queue'[p][i]].pc = "waiting" /\ W(queue'[p][i]) = p
                      /\ \A i, k \in DOMAIN queue'[p] : queue'[p][i] = queue'[p][k] => i = k
    BY DEF WaitingOnce, Wanted
  <2>1. \A q \in Reqs : q # r /\ req[q].pc = "waiting" => req'[q].pc = "waiting" /\ W(q) = Wanted(q)
    BY <1>8 DEF Others, Wanted
  <2>2. CASE p = w
    <3>1. queue'[p] = t
      BY <1>1, <1>2, <1>3, <2>2
    <3>2. ASSUME NEW i \in DOMAIN t PROVE req'[t[i]].pc = "waiting" /\ W(t[i]) = p
      <4>1. PICK k \in DOMAIN queue[w] : t[i] = queue[w][k] /\ t[i] # r
        BY <1>4
      <4>2. t[i] \in Reqs /\ req[t[i]].pc = "waiting" /\ Wanted(t[i]) = p
        BY <1>1, <1>2, <2>2, <4>1 DEF WaitingOnce
      <4> QED BY <2>1, <4>1, <4>2
    <3> QED BY <1>4, <3>1, <3>2
  <2>3. CASE p # w
    <3>1. queue'[p] = queue[p]
      BY <1>2, <1>3, <2>3
    <3>2. ASSUME NEW i \in DOMAIN queue[p] PROVE req'[queue[p][i]].pc = "waiting" /\ W(queue[p][i]) = p
      <4>1. queue[p][i] \in Reqs /\ req[queue[p][i]].pc = "waiting" /\ Wanted(queue[p][i]) = p
        BY <1>2 DEF WaitingOnce
      <4>2. queue[p][i] # r
        BY <2>3, <4>1
      <4> QED BY <2>1, <4>1, <4>2
    <3> QED BY <1>2, <3>1, <3>2 DEF WaitingOnce
  <2> QED BY <2>2, <2>3
<1> QED BY <1>5, <1>7, <1>8

\* release: _free += 1 and notify(1).
LEMMA ReleaseKeeps ==
    ASSUME Inv, NEW r \in Reqs, Release(r)
    PROVE  Inv'
<1> DEFINE w == Newest(r)
           l == IF req[r].got = 1 THEN "end" ELSE "release"
           gone == [req[r] EXCEPT !.got = @ - 1, !.pc = l]
           first == Head(queue[w])
           woken == [req[first] EXCEPT !.pc = "woken"]
<1>1. /\ TypeOK /\ InChain /\ HasLock /\ NothingLeft /\ WaitingOnce /\ Slots /\ EnoughWakers
      /\ \A q \in Reqs : req[q].pc \in Locking => Wanted(q) \in Pools
  BY LockingWants DEF Inv
<1>2. req[r].pc \in Giving /\ lock[w] = Null /\ lock' = lock /\ cancels' = cancels
  BY DEF Release, Giving
<1>3. /\ req[r] \in Request /\ req[r].got \in Nat /\ Chain[r] \in Seq(Pools)
      /\ req[r].got > 0 /\ req[r].got <= Len(Chain[r])
  BY <1>1, <1>2, GateAssumption DEF TypeOK, Request, InChain
<1>4. req[r].got \in DOMAIN Chain[r] /\ w \in Pools
  BY <1>3 DEF Newest
<1>5. free' = [free EXCEPT ![w] = @ + 1]
  BY DEF Release
<1>6. /\ gone \in Request /\ gone.got = req[r].got - 1 /\ gone.pc \in {"end", "release"}
      /\ gone.pc = "release" => req[r].got > 1
  <2> DEFINE g == req[r].got - 1
             u == [req[r] EXCEPT !.got = g, !.pc = l]
  <2>1. l \in {"end", "release"} /\ (l = "release" => req[r].got > 1) /\ l \in PCs /\ g \in Nat
    BY <1>3 DEF PCs
  <2> HIDE DEF l, g
  <2>2. u \in Request /\ u.got = g /\ u.pc = l
    BY <1>3, <2>1 DEF Request
  <2>3. u = gone
    BY DEF g
  <2> QED BY <2>1, <2>2, <2>3 DEF g
<1>7. queue[w] \in Seq(Reqs)
  BY <1>1, <1>4 DEF TypeOK
<1>8. queue[w] # <<>> => /\ first \in Reqs /\ req[first].pc = "waiting" /\ Wanted(first) = w /\ first # r
                         /\ woken \in Request /\ woken.got = req[first].got /\ woken.pc = "woken"
  <2> SUFFICES ASSUME queue[w] # <<>>
               PROVE  /\ first \in Reqs /\ req[first].pc = "waiting" /\ Wanted(first) = w /\ first # r
                      /\ woken \in Request /\ woken.got = req[first].got /\ woken.pc = "woken"
    OBVIOUS
  <2>1. 1 \in DOMAIN queue[w] /\ first = queue[w][1] /\ first \in Reqs
    BY <1>7
  <2>2. req[first].pc = "waiting" /\ Wanted(first) = w
    BY <1>1, <1>4, <2>1 DEF WaitingOnce
  <2>3. first # r
    BY <1>2, <2>2 DEF Giving
  <2>4. req[first] \in Request
    BY <1>1, <2>1 DEF TypeOK
  <2> HIDE DEF first
  <2>5. woken \in Request /\ woken.got = req[first].got /\ woken.pc = "woken"
    BY <2>4 DEF Request, PCs, Queued
  <2> QED BY <2>1, <2>2, <2>3, <2>5
<1>9. /\ req' \in [Reqs -> Request] /\ req'[r] = gone
      /\ queue[w] = <<>> => Others(r) /\ queue' = queue
      /\ queue[w] # <<>> => /\ req'[first] = woken /\ \A q \in Reqs \ {r, first} : req'[q] = req[q]
                            /\ queue' = [queue EXCEPT ![w] = Tail(@)]
  <2>1. req \in [Reqs -> Request]
    BY <1>1 DEF TypeOK
  <2>2. CASE queue[w] = <<>>
    <3>1. Become(r, gone) /\ queue' = queue
      BY <2>2 DEF Release
    <3> QED BY <1>1, <1>6, <2>2, <3>1, BecomeIs
  <2>3. CASE queue[w] # <<>>
    <3>1. req' = [req EXCEPT ![r] = gone, ![first] = woken] /\ queue' = [queue EXCEPT ![w] = Tail(@)]
      BY <2>3 DEF Release
    <3> HIDE DEF gone, woken, first
    <3> QED BY <1>6, <1>8, <2>1, <2>3, <3>1
  <2> QED BY <2>2, <2>3
<1> HIDE DEF gone, woken, first
<1>10. \A q \in Reqs : q # r => /\ req'[q].got = req[q].got
                                /\ req'[q].pc = req[q].pc \/ (queue[w] # <<>> /\ q = first /\ req'[q].pc = "woken")
  BY <1>8, <1>9 DEF Others
<1>11. TypeOK'
  <2>1. free' \in [Pools -> Nat]
    BY <1>1, <1>4, <1>5 DEF TypeOK
  <2>2. queue[w] # <<>> => Tail(queue[w]) \in Seq(Reqs)
    BY <1>7
  <2>3. queue \in [Pools -> Seq(Reqs)]
    BY <1>1 DEF TypeOK
  <2>4. queue' \in [Pools -> Seq(Reqs)]
    <3>1. CASE queue[w] = <<>>
      BY <1>9, <2>3, <3>1
    <3>2. CASE queue[w] # <<>>
      <4>1. queue' = [queue EXCEPT ![w] = Tail(queue[w])]
        BY <1>9, <3>2
      <4> QED BY <1>4, <2>2, <2>3, <3>2, <4>1
    <3> QED BY <3>1, <3>2
  <2> QED BY <1>1, <1>2, <1>9, <2>1, <2>4 DEF TypeOK
<1>12. InChain'
  <2> SUFFICES ASSUME NEW q \in Reqs
               PROVE  /\ req'[q].got <= Len(Chain[q])
                      /\ req'[q].pc \in Acquiring => req'[q].got < Len(Chain[q])
                      /\ req'[q].pc \in Giving => req'[q].got > 0
    BY DEF InChain
  <2>1. CASE q = r
    BY <1>3, <1>6, <1>9, <2>1 DEF Acquiring, Giving, Queued, Return
  <2>2. CASE q # r
    BY <1>1, <1>8, <1>10, <2>2 DEF InChain, Acquiring, Giving, Queued
  <2> QED BY <2>1, <2>2
<1>13. HasLock' /\ NothingLeft'
  <2> SUFFICES ASSUME NEW q \in Reqs, req'[q].pc \in Locking
               PROVE  lock'[Wanted(q)'] = q /\ (req'[q].pc = "arming" => free'[Wanted(q)'] = 0)
    BY DEF HasLock, NothingLeft, Locking
  <2>1. q # r /\ req'[q].pc = req[q].pc
    BY <1>6, <1>9, <1>10 DEF Locking
  <2>2. Wanted(q)' = Wanted(q)
    BY <1>10, <2>1 DEF Wanted
  <2>3. lock[Wanted(q)] = q /\ Wanted(q) \in Pools
    BY <1>1, <2>1 DEF HasLock
  <2>4. Wanted(q) # w
    BY <1>2, <2>3, GateAssumption
  <2> QED BY <1>1, <1>2, <1>5, <2>1, <2>2, <2>3, <2>4 DEF NothingLeft, TypeOK
<1>14. WaitingOnce'
  <2> DEFINE W(q) == Chain[q][req'[q].got + 1]
  <2> SUFFICES ASSUME NEW p \in Pools
               PROVE  /\ \A i \in DOMAIN queue'[p] : req'[queue'[p][i]].pc = "waiting" /\ W(queue'[p][i]) = p
                      /\ \A i, k \in DOMAIN queue'[p] : queue'[p][i] = queue'[p][k] => i = k
    BY DEF WaitingOnce, Wanted
  <2>1. queue[p] \in Seq(Reqs)
    BY <1>1 DEF TypeOK
  <2>2. \A i \in DOMAIN queue[p] : /\ queue[p][i] \in Reqs \ {r}
                                   /\ req[queue[p][i]].pc = "waiting" /\ Wanted(queue[p][i]) = p
    BY <1>1, <1>2, <2>1 DEF WaitingOnce, Giving
  <2>3. \A i \in DOMAIN queue[p] : (queue[w] = <<>> \/ queue[p][i] # first)
                                   => req'[queue[p][i]].pc = "waiting" /\ W(queue[p][i]) = p
    BY <1>10, <2>2 DEF Wanted
  <2>4. CASE queue[w] = <<>> \/ p # w
    <3>1. queue'[p] = queue[p]
      BY <1>1, <1>9, <2>4 DEF TypeOK
    <3>2. \A i \in DOMAIN queue[p] : queue[w] = <<>> \/ queue[p][i] # first
      BY <1>8, <2>2, <2>4
    <3> QED BY <1>1, <2>3, <3>1, <3>2 DEF WaitingOnce
  <2>5. CASE queue[w] # <<>> /\ p = w
    <3>1. queue'[p] = Tail(queue[p]) /\ first = queue[p][1]
      BY <1>1, <1>7, <1>9, <2>5 DEF TypeOK, first
    <3>2. /\ Len(queue[p]) \in Nat /\ Len(queue[p]) > 0 /\ DOMAIN queue[p] = 1..Len(queue[p])
          /\ DOMAIN queue'[p] = 1..(Len(queue[p]) - 1)
          /\ \A i \in DOMAIN queue'[p] : i + 1 \in DOMAIN queue[p] /\ queue'[p][i] = queue[p][i + 1]
      BY <2>1, <2>5, <3>1
    <3>3. \A i, k \in DOMAIN queue[p] : queue[p][i] = queue[p][k] => i = k
      BY <1>1 DEF WaitingOnce
    <3>4. \A i \in DOMAIN queue'[p] : queue[p][i + 1] # first
      BY <3>1, <3>2, <3>3
    <3>5. \A i, k \in DOMAIN queue'[p] : queue'[p][i] = queue'[p][k] => i = k
      BY <3>2, <3>3
    <3> HIDE DEF W
    <3> QED BY <2>3, <3>2, <3>4, <3>5
  <2> QED BY <2>4, <2>5
<1>15. Slots'
  <2> SUFFICES ASSUME NEW p \in Pools
               PROVE  /\ IsFiniteSet(Holders(p)')
                      /\ free'[p] + Cardinality(Holders(p)') = Size[p]
    BY DEF Slots
  <2> DEFINE S == Holders(p)
             T == Holders(p)'
  <2>1. \A k \in 1..(req[r].got - 1) : Chain[r][k] # w
    <3> TAKE k \in 1..(req[r].got - 1)
    <3>1. k \in DOMAIN Chain[r] /\ k # req[r].got
      BY <1>3
    <3> QED BY <1>4, <3>1, GateAssumption DEF Newest
  <2>2. T \ {r} = S \ {r}
    BY <1>10 DEF Holders
  <2>3. req'[r].got = req[r].got - 1 /\ 1..req[r].got = (1..(req[r].got - 1)) \cup {req[r].got}
    BY <1>3, <1>6, <1>9
  <2>4. r \in S <=> \E k \in 1..req[r].got : Chain[r][k] = p
    BY DEF Holders
  <2>5. r \in T <=> \E k \in 1..(req[r].got - 1) : Chain[r][k] = p
    BY <2>3 DEF Holders
  <2>6. p = w => r \in S /\ r \notin T
    BY <2>1, <2>3, <2>4, <2>5 DEF Newest
  <2>7. p # w => (r \in S <=> r \in T)
    BY <2>3, <2>4, <2>5 DEF Newest
  <2>8. IsFiniteSet(S) /\ free[p] + Cardinality(S) = Size[p] /\ free[p] \in Nat
    BY <1>1 DEF Slots, TypeOK
  <2>9. free'[p] = IF p = w THEN free[p] + 1 ELSE free[p]
    BY <1>1, <1>5 DEF TypeOK
  <2> HIDE DEF S, T
  <2>10. p # w => T = S
    BY <2>2, <2>7
  <2>11. /\ IsFiniteSet(T) /\ Cardinality(S) \in Nat /\ Cardinality(T) \in Nat
         /\ (r \in S /\ r \notin T) => Cardinality(T) = Cardinality(S) - 1
    BY <2>2, <2>8, NearlySame
  <2>12. free'[p] + Cardinality(T) = Size[p]
    BY <2>6, <2>8, <2>9, <2>10, <2>11
  <2> QED BY <2>11, <2>12 DEF T
<1>16. EnoughWakers'
  <2> SUFFICES ASSUME cancels = 0, NEW p \in Pools
               PROVE  /\ IsFiniteSet(Wakers(p)')
                      /\ queue'[p] # <<>> => free'[p] <= Cardinality(Wakers(p)')
    BY <1>2 DEF EnoughWakers
  <2> DEFINE S == Wakers(p)
             T == Wakers(p)'
  <2>1. IsFiniteSet(S) /\ (queue[p] # <<>> => free[p] <= Cardinality(S)) /\ free[p] \in Nat
    BY <1>1 DEF EnoughWakers, TypeOK
  <2>2. r \notin S /\ r \notin T
    BY <1>2, <1>6, <1>9 DEF Wakers, Giving, Looking
  <2>3. \A q \in Reqs : q # r /\ (queue[w] = <<>> \/ q # first) => (q \in T <=> q \in S)
    BY <1>10 DEF Wakers, Wanted
  <2>4. queue[w] # <<>> => (first \notin S /\ (first \in T <=> p = w))
    <3> SUFFICES ASSUME queue[w] # <<>> PROVE first \notin S /\ (first \in T <=> p = w)
      OBVIOUS
    <3>1. first \in Reqs /\ req[first].pc = "waiting" /\ req'[first].pc = "woken" /\ req'[first].got = req[first].got
      BY <1>8, <1>9, <1>10
    <3>2. Chain[first][req'[first].got + 1] = w
      BY <1>8, <3>1 DEF Wanted
    <3> QED BY <3>1, <3>2 DEF Wakers, Looking, Wanted
  <2>5. S \subseteq Reqs /\ T \subseteq Reqs
    BY DEF Wakers
  <2>6. free'[p] = IF p = w THEN free[p] + 1 ELSE free[p]
    BY <1>1, <1>5 DEF TypeOK
  <2>7. queue'[p] # <<>> => queue[p] # <<>>
    BY <1>1, <1>7, <1>9 DEF TypeOK
  <2> HIDE DEF S, T
  <2>8. CASE queue[w] = <<>> \/ p # w
    <3>1. ASSUME NEW q \in Reqs PROVE q \in T <=> q \in S
      <4>1. CASE q = r
        BY <2>2, <4>1
      <4>2. CASE q # r /\ queue[w] # <<>> /\ q = first
        BY <2>4, <2>8, <4>2
      <4>3. CASE q # r /\ ~(queue[w] # <<>> /\ q = first)
        BY <2>3, <4>3
      <4> QED BY <4>1, <4>2, <4>3
    <3>3. T = S
      BY <2>5, <3>1
    <3>2. queue'[p] # <<>> => free'[p] = free[p]
      BY <2>6, <2>7, <2>8
    <3> QED BY <2>1, <2>7, <3>2, <3>3 DEF T
  <2>9. CASE queue[w] # <<>> /\ p = w
    <3>1. T \ {first} = S \ {first} /\ first \notin S /\ first \in T
      BY <2>2, <2>3, <2>4, <2>5, <2>9
    <3>2. IsFiniteSet(T) /\ Cardinality(S) \in Nat /\ Cardinality(T) = Cardinality(S) + 1
      BY <2>1, <3>1, NearlySame
    <3> QED BY <2>1, <2>6, <2>9, <3>2 DEF T
  <2> QED BY <2>8, <2>9
<1> QED BY <1>11, <1>12, <1>13, <1>14, <1>15, <1>16 DEF Inv

\* Steps that only move a task on.
LEMMA QuietKeeps ==
    ASSUME Inv, NEW r \in Reqs, NEW v \in Request, Become(r, v), v.got = req[r].got,
           free' = free, lock' = lock, queue' = queue, cancels' \in {cancels, cancels + 1}, cancels' \in 0..MaxCancels,
           req[r].pc \notin {"waiting"} \cup Looking,
           v.pc \in Acquiring => req[r].pc \in Acquiring,
           v.pc \in Giving => req[r].got > 0, v.pc \notin Locking
    PROVE  Inv'
<1>1. TypeOK /\ WaitingOnce
  BY DEF Inv
<1>2. Others(r) => WaitingOnce'
  BY <1>1, QueueKept
<1>3. lock' \in [Pools -> Reqs \cup {Null}] /\ queue' \in [Pools -> Seq(Reqs)] /\ cancels \in Nat
  BY <1>1, GateAssumption DEF TypeOK
<1>4. cancels' = 0 => cancels = 0
  BY <1>3
<1>5. v.pc # "arming"
  BY DEF Locking
<1> QED BY <1>2, <1>3, <1>4, <1>5, MoveKeeps

\* Arriving, and queueing for the lock of a pool, take no slot and no lock.
LEMMA StartKeeps ==
    ASSUME Inv, NEW r \in Reqs, Start(r) \/ Contend(r) \/ RelContend(r)
    PROVE  Inv'
<1>1. TypeOK /\ InChain
  BY DEF Inv
<1>2. /\ free' = free /\ lock' = lock /\ queue' = queue /\ cancels' = cancels
      /\ \E l \in {"next", "lockwait", "relwait"} :
            /\ Goto(r, l) /\ (l \in {"next", "lockwait"} => req[r].pc \in {"new", "next"})
            /\ (l = "relwait" => req[r].pc = "release")
  BY DEF Start, Contend, RelContend
<1>3. PICK l \in {"next", "lockwait", "relwait"} :
            /\ Goto(r, l) /\ (l \in {"next", "lockwait"} => req[r].pc \in {"new", "next"})
            /\ (l = "relwait" => req[r].pc = "release")
  BY <1>2
<1>4. l \in PCs
  BY DEF PCs, Queued
<1>5. PICK v \in Request : Become(r, v) /\ v.got = req[r].got /\ v.pc = l
  BY <1>1, <1>3, <1>4, GotoIs
<1>6. /\ req[r].pc \notin {"waiting"} \cup Looking
      /\ v.pc \in Acquiring => req[r].pc \in Acquiring
      /\ v.pc \notin Locking
  BY <1>3, <1>5 DEF Looking, Acquiring, Locking, Queued, Return
<1>7. v.pc \in Giving => req[r].got > 0
  BY <1>1, <1>3, <1>5 DEF InChain, Giving
<1>8. cancels' \in 0..MaxCancels
  BY <1>1, <1>2 DEF TypeOK
<1> QED BY <1>2, <1>5, <1>6, <1>7, <1>8, QuietKeeps

\* A request that was cancelled or refused at a lock goes on to give back what it holds.
LEMMA UnwindKeeps ==
    ASSUME Inv, NEW r \in Reqs, NEW o \in Outcomes, Unwind(r, o), free' = free, lock' = lock, queue' = queue,
           cancels' \in {cancels, cancels + 1}, cancels' \in 0..MaxCancels,
           req[r].pc \in {"lockwait", "held"}
    PROVE  Inv'
<1>1. PICK v \in Request : /\ Become(r, v) /\ v.got = req[r].got
                           /\ v.pc \in {"end", "release"} /\ (v.pc = "release" => req[r].got > 0)
  BY UnwindIs DEF Inv
<1>2. /\ req[r].pc \notin {"waiting"} \cup Looking
      /\ v.pc \notin Acquiring /\ v.pc \notin Locking
      /\ v.pc \in Giving => req[r].got > 0
  BY <1>1 DEF Looking, Acquiring, Giving, Locking, Queued, Return
<1> QED BY <1>1, <1>2, QuietKeeps

\* With the lock a request takes a free slot or prepares to wait for one.
LEMMA GetLockKeeps ==
    ASSUME Inv, NEW r \in Reqs, GetLock(r)
    PROVE  Inv'
<1>1. /\ req[r].pc \in {"next", "lockwait"} /\ lock[Wanted(r)] = Null /\ Round(r)
      /\ queue' = queue /\ cancels' = cancels
  BY DEF GetLock
<1> QED BY <1>1, RoundKeeps

\* The lock goes back while the task that had it gives up.
LEMMA UnlockKeeps ==
    ASSUME Inv, NEW r \in Reqs, NEW o \in Outcomes, Unwind(r, o), Lock(Wanted(r), Null), free' = free, queue' = queue,
           cancels' \in {cancels, cancels + 1}, cancels' \in 0..MaxCancels,
           req[r].pc \in {"arming", "resumed", "dropped"}, req[r].pc = "resumed" => cancels' # cancels
    PROVE  Inv'
<1>1. TypeOK /\ WaitingOnce /\ HasLock
  BY DEF Inv
<1>2. PICK v \in Request : /\ Become(r, v) /\ v.got = req[r].got
                           /\ v.pc \in {"end", "release"} /\ (v.pc = "release" => req[r].got > 0)
  BY <1>1, UnwindIs
<1>3. v.pc \notin Acquiring /\ v.pc \notin Locking /\ (v.pc \in Giving => req[r].got > 0) /\ v.pc # "arming"
  BY <1>2 DEF Acquiring, Giving, Locking, Queued, Return
<1>4. lock[Wanted(r)] = r
  BY <1>1 DEF HasLock, Locking
<1>5. lock' \in [Pools -> Reqs \cup {Null}] /\ queue' \in [Pools -> Seq(Reqs)] /\ cancels \in Nat
  <2>1. cancels \in Nat
    BY <1>1, GateAssumption DEF TypeOK
  <2>2. queue' \in [Pools -> Seq(Reqs)]
    BY <1>1 DEF TypeOK
  <2>3. lock' \in [Pools -> Reqs \cup {Null}]
    BY <1>1 DEF TypeOK, Lock
  <2> QED BY <2>1, <2>2, <2>3
<1>6. \A p \in Pools : lock'[p] = lock[p] \/ lock[p] \in {Null, r}
  BY <1>1, <1>4 DEF Lock, TypeOK
<1>7. Others(r) => WaitingOnce'
  BY <1>1, QueueKept
<1>8. cancels' = 0 => cancels = 0 /\ req[r].pc \notin Looking
  BY <1>5 DEF Looking
<1> QED BY <1>2, <1>3, <1>5, <1>6, <1>7, <1>8, MoveKeeps

\* A waiter that has the lock again takes the slot, goes on waiting, or gives up.
LEMMA ResumeKeeps ==
    ASSUME Inv, NEW r \in Reqs, Resume(r)
    PROVE  Inv'
<1>1. queue' = queue /\ cancels' = cancels
  BY DEF Resume
<1>2. CASE req[r].pc \in {"resumed", "late"} /\ Round(r)
  <2>1. lock[Wanted(r)] = r
    BY <1>2 DEF Inv, HasLock, Locking
  <2> QED BY <1>1, <1>2, <2>1, RoundKeeps
<1>3. CASE req[r].pc = "dropped" /\ Lock(Wanted(r), Null) /\ Unwind(r, "cancelled") /\ free' = free
  <2>1. cancels' \in 0..MaxCancels /\ "cancelled" \in Outcomes
    BY <1>1 DEF Inv, TypeOK, Outcomes
  <2> QED BY <1>1, <1>3, <2>1, UnlockKeeps
<1> QED BY <1>2, <1>3 DEF Resume

\* Condition.wait enters the queue and gives the lock back.
LEMMA ArmKeeps ==
    ASSUME Inv, NEW r \in Reqs, Arm(r)
    PROVE  Inv'
<1> DEFINE w == Wanted(r)
<1>1. /\ TypeOK /\ InChain /\ WaitingOnce /\ HasLock /\ NothingLeft
      /\ queue \in [Pools -> Seq(Reqs)] /\ lock \in [Pools -> Reqs \cup {Null}]
  BY DEF Inv, TypeOK
<1>2. req[r].pc = "arming" /\ free' = free /\ cancels' = cancels /\ Goto(r, "waiting")
  BY DEF Arm
<1>3. w \in Pools
  BY <1>1, <1>2, WantedIsPool DEF Acquiring, Queued
<1>4. lock[w] = r /\ free[w] = 0
  BY <1>1, <1>2 DEF HasLock, NothingLeft, Locking
<1>5. lock' = [lock EXCEPT ![w] = Null] /\ queue' = [queue EXCEPT ![w] = Append(@, r)]
  BY DEF Arm, Lock
<1>6. PICK v \in Request : Become(r, v) /\ v.got = req[r].got /\ v.pc = "waiting"
  BY <1>1, <1>2, GotoIs DEF PCs, Queued
<1>7. v.pc \in Acquiring /\ req[r].pc \in Acquiring /\ v.pc \notin Giving /\ v.pc \notin Locking
      /\ req[r].pc \notin Looking
  BY <1>2, <1>6 DEF Acquiring, Giving, Locking, Looking, Queued
<1>8. lock' \in [Pools -> Reqs \cup {Null}] /\ \A p \in Pools : lock'[p] = lock[p] \/ lock[p] \in {Null, r}
  BY <1>1, <1>3, <1>4, <1>5
<1>9. queue' \in [Pools -> Seq(Reqs)] /\ \A p \in Pools : queue'[p] # <<>> => queue[p] # <<>> \/ free[p] = 0
  BY <1>1, <1>3, <1>4, <1>5
<1>10. ASSUME Others(r), req'[r] = v PROVE WaitingOnce'
  <2> DEFINE W(q) == Chain[q][req'[q].got + 1]
  <2> SUFFICES ASSUME NEW p \in Pools
               PROVE  /\ \A i \in DOMAIN queue'[p] : req'[queue'[p][i]].pc = "waiting" /\ W(queue'[p][i]) = p
                      /\ \A i, k \in DOMAIN queue'[p] : queue'[p][i] = queue'[p][k] => i = k
    BY DEF WaitingOnce, Wanted
  <2>1. \A i \in DOMAIN queue[p] : /\ queue[p][i] \in Reqs /\ queue[p][i] # r
                                   /\ req[queue[p][i]].pc = "waiting" /\ Wanted(queue[p][i]) = p
    BY <1>1, <1>2 DEF WaitingOnce
  <2>2. \A i \in DOMAIN queue[p] : req'[queue[p][i]].pc = "waiting" /\ W(queue[p][i]) = p
    BY <1>10, <2>1 DEF Others, Wanted
  <2>3. req'[r].pc = "waiting" /\ W(r) = w
    BY <1>6, <1>10 DEF Wanted
  <2>4. \A i, k \in DOMAIN queue[p] : queue[p][i] = queue[p][k] => i = k
    BY <1>1 DEF WaitingOnce
  <2> HIDE DEF W
  <2>5. CASE p # w
    <3>1. queue'[p] = queue[p]
      BY <1>1, <1>5, <2>5
    <3> QED BY <2>2, <2>4, <3>1
  <2>6. CASE p = w
    <3>1. queue'[p] = Append(queue[p], r) /\ queue[p] \in Seq(Reqs)
      BY <1>1, <1>3, <1>5, <2>6
    <3>2. /\ Len(queue[p]) \in Nat /\ DOMAIN queue[p] = 1..Len(queue[p])
          /\ DOMAIN queue'[p] = 1..(Len(queue[p]) + 1)
          /\ \A i \in 1..Len(queue[p]) : queue'[p][i] = queue[p][i]
          /\ queue'[p][Len(queue[p]) + 1] = r
      BY <3>1
    <3>3. \A i \in DOMAIN queue'[p] : i \in DOMAIN queue[p] \/ i = Len(queue[p]) + 1
      BY <3>2
    <3>4. \A i \in DOMAIN queue'[p] : req'[queue'[p][i]].pc = "waiting" /\ W(queue'[p][i]) = p
      BY <2>2, <2>3, <2>6, <3>2, <3>3
    <3>5. \A i, k \in DOMAIN queue'[p] : queue'[p][i] = queue'[p][k] => i = k
      BY <2>1, <2>4, <3>2, <3>3
    <3> QED BY <3>4, <3>5
  <2> QED BY <2>5, <2>6
<1>11. cancels' \in 0..MaxCancels
  BY <1>1, <1>2 DEF TypeOK
<1> QED BY <1>2, <1>6, <1>7, <1>8, <1>9, <1>10, <1>11, MoveKeeps DEF Locking

\* A timer or a cancellation ends the wait.
LEMMA LeaveKeeps ==
    ASSUME Inv, NEW r \in Reqs, req[r].pc \in {"waiting", "woken"}, Leave(Wanted(r), r),
           free' = free, lock' = lock, NEW l \in {"expired", "aborted"}, Goto(r, l),
           cancels' \in {cancels, cancels + 1}, cancels' \in 0..MaxCancels, l = "aborted" => cancels' # cancels
    PROVE  Inv'
<1>1. TypeOK
  BY DEF Inv
<1>2. PICK v \in Request : Become(r, v) /\ v.got = req[r].got /\ v.pc = l
  BY <1>1, GotoIs DEF PCs, Return
<1>3. v.pc \in Acquiring /\ req[r].pc \in Acquiring /\ v.pc \notin Giving /\ v.pc \notin Locking /\ v.pc # "arming"
  BY <1>2 DEF Acquiring, Giving, Locking, Queued, Return
<1>4. cancels \in Nat /\ lock' \in [Pools -> Reqs \cup {Null}]
  BY <1>1, GateAssumption DEF TypeOK
<1>5. cancels' = 0 => cancels = 0 /\ v.pc \in Looking
  BY <1>2, <1>4 DEF Looking
<1>6. /\ queue' \in [Pools -> Seq(Reqs)]
      /\ \A p \in Pools : queue'[p] # <<>> => queue[p] # <<>>
      /\ Others(r) => WaitingOnce'
  BY LeaveIs
<1> QED BY <1>2, <1>3, <1>4, <1>5, <1>6, MoveKeeps

\* Condition.wait takes the lock back.
LEMMA RelockKeeps ==
    ASSUME Inv, NEW r \in Reqs, Relock(r)
    PROVE  Inv'
<1> DEFINE w == Wanted(r)
<1>1. /\ TypeOK /\ InChain /\ WaitingOnce
      /\ lock \in [Pools -> Reqs \cup {Null}] /\ queue \in [Pools -> Seq(Reqs)] /\ cancels \in 0..MaxCancels
  BY DEF Inv, TypeOK
<1>2. /\ req[r].pc \in {"woken", "expired", "aborted"} /\ lock[w] = Null /\ lock' = [lock EXCEPT ![w] = r]
      /\ free' = free /\ queue' = queue /\ cancels' = cancels
  BY DEF Relock, Lock
<1>3. PICK l \in {"resumed", "late", "dropped"} : Goto(r, l) /\ (l = "dropped" => req[r].pc = "aborted")
  BY DEF Relock
<1>4. PICK v \in Request : Become(r, v) /\ v.got = req[r].got /\ v.pc = l
  BY <1>1, <1>3, GotoIs DEF PCs, Return
<1>5. w \in Pools
  BY <1>1, <1>2, WantedIsPool DEF Acquiring, Queued, Return
<1>6. lock' \in [Pools -> Reqs \cup {Null}] /\ (\A p \in Pools : lock'[p] = lock[p] \/ lock[p] \in {Null, r})
      /\ lock'[w] = r
  BY <1>1, <1>2, <1>5
<1>7. /\ v.pc \in Acquiring /\ req[r].pc \in Acquiring /\ v.pc \notin Giving /\ v.pc # "arming"
      /\ req[r].pc \in Looking => v.pc \in Looking
      /\ req[r].pc # "waiting"
  BY <1>2, <1>3, <1>4 DEF Acquiring, Giving, Looking, Queued, Return
<1>8. Others(r) => WaitingOnce'
  BY <1>1, <1>2, <1>7, QueueKept
<1> QED BY <1>1, <1>2, <1>4, <1>6, <1>7, <1>8, MoveKeeps

\* A task suspended inside release is lost with the slots it has.
LEMMA CancelKeeps ==
    ASSUME Inv, NEW r \in Reqs, Cancel(r)
    PROVE  Inv'
<1>1. TypeOK /\ MaxCancels \in Nat /\ cancels \in 0..MaxCancels
  BY GateAssumption DEF Inv, TypeOK
<1>2. free' = free /\ cancels' = cancels + 1 /\ cancels < MaxCancels
  BY DEF Cancel
<1>3. cancels' \in 0..MaxCancels /\ cancels' # cancels /\ "cancelled" \in Outcomes
  BY <1>1, <1>2 DEF Outcomes
<1>4. CASE req[r].pc \in {"lockwait", "held"} /\ Unwind(r, "cancelled") /\ lock' = lock /\ queue' = queue
  BY <1>2, <1>3, <1>4, UnwindKeeps
<1>5. CASE req[r].pc \in {"arming", "resumed"} /\ Lock(Wanted(r), Null) /\ Unwind(r, "cancelled") /\ queue' = queue
  BY <1>2, <1>3, <1>5, UnlockKeeps
<1>6. CASE req[r].pc \in {"waiting", "woken"} /\ Leave(Wanted(r), r) /\ Goto(r, "aborted") /\ lock' = lock
  BY <1>2, <1>3, <1>6, LeaveKeeps
<1>7. CASE req[r].pc = "relwait" /\ Goto(r, "end") /\ lock' = lock /\ queue' = queue
  <2>1. PICK v \in Request : Become(r, v) /\ v.got = req[r].got /\ v.pc = "end"
    BY <1>1, <1>7, GotoIs DEF PCs
  <2>2. /\ req[r].pc \notin {"waiting"} \cup Looking
        /\ v.pc \notin Acquiring /\ v.pc \notin Giving /\ v.pc \notin Locking
    BY <1>7, <2>1 DEF Looking, Acquiring, Giving, Locking, Queued, Return
  <2> QED BY <1>2, <1>3, <1>7, <2>1, <2>2, QuietKeeps
<1> QED BY <1>4, <1>5, <1>6, <1>7 DEF Cancel

\* A deadline only turns waiters into tasks that will look for a slot once more.
LEMMA TickKeeps ==
    ASSUME Inv, Tick
    PROVE  Inv'
<1>1. /\ TypeOK /\ InChain /\ HasLock /\ NothingLeft /\ WaitingOnce /\ Slots /\ EnoughWakers
  BY DEF Inv
<1>2. free' = free /\ lock' = lock /\ queue' = queue /\ cancels' = cancels
  BY DEF Tick
<1>3. ASSUME NEW q \in Reqs
      PROVE  req'[q] \in Request /\ req'[q].pc = req[q].pc /\ req'[q].got = req[q].got
  <2>1. req[q] \in Request /\ Timeout \in Nat
    BY <1>1, GateAssumption DEF TypeOK
  <2>2. CASE req[q].pc \in Queued
    <3>1. req'[q] = [req[q] EXCEPT !.left = req[q].left - 1] /\ req[q].left > 0
      BY <2>2 DEF Tick
    <3>2. req[q].left - 1 \in 0..Timeout
      BY <2>1, <3>1 DEF Request
    <3> DEFINE d == req[q].left - 1
    <3> HIDE DEF d
    <3> QED BY <2>1, <3>1, <3>2 DEF Request, d
  <2>3. CASE req[q].pc \notin Queued
    BY <2>1, <2>3 DEF Tick
  <2> QED BY <2>2, <2>3
<1>4. TypeOK'
  <2>1. req' \in [Reqs -> Request]
    BY <1>3 DEF Tick
  <2> QED BY <1>1, <1>2, <2>1 DEF TypeOK
<1>5. InChain' /\ HasLock' /\ NothingLeft'
  BY <1>1, <1>2, <1>3 DEF InChain, HasLock, NothingLeft, Wanted
<1>6. WaitingOnce'
  <2>1. \A p \in Pools : \A i \in DOMAIN queue[p] : queue[p][i] \in Reqs
    BY <1>1 DEF TypeOK
  <2> QED BY <1>1, <1>2, <1>3, <2>1 DEF WaitingOnce, Wanted
<1>7. \A p \in Pools : Holders(p)' = Holders(p) /\ Wakers(p)' = Wakers(p)
  BY <1>3 DEF Holders, Wakers, Wanted
<1>8. Slots' /\ EnoughWakers'
  BY <1>1, <1>2, <1>7 DEF Slots, EnoughWakers
<1> QED BY <1>4, <1>5, <1>6, <1>8 DEF Inv

(***************************************************************************)
(* The theorems                                                             *)
(***************************************************************************)
\* An empty gate satisfies the invariant.
LEMMA InitInv == Init => Inv
<1> SUFFICES ASSUME Init PROVE Inv
  OBVIOUS
<1>1. TypeOK
  <2>1. [pc |-> "new", got |-> 0, out |-> "none", left |-> Timeout] \in Request
    BY GateAssumption DEF Request, PCs, Outcomes
  <2>2. req \in [Reqs -> Request]
    BY <2>1 DEF Init
  <2>3. cancels \in 0..MaxCancels /\ free \in [Pools -> Nat]
    BY GateAssumption DEF Init
  <2>4. lock \in [Pools -> Reqs \cup {Null}] /\ queue \in [Pools -> Seq(Reqs)]
    BY DEF Init
  <2> QED BY <2>2, <2>3, <2>4 DEF TypeOK
<1>2. InChain
  BY GateAssumption DEF Init, InChain, Acquiring, Giving
<1>3. HasLock /\ NothingLeft /\ WaitingOnce
  BY DEF Init, HasLock, NothingLeft, WaitingOnce, Locking
<1>4. \A p \in Pools : Holders(p) = {} /\ Wakers(p) = {}
  BY DEF Init, Holders, Wakers, Looking
<1>5. Slots /\ EnoughWakers
  <2>1. IsFiniteSet({}) /\ Cardinality({}) = 0
    BY FS_EmptySet
  <2>2. \A p \in Pools : free[p] \in Nat /\ free[p] = Size[p] /\ queue[p] = <<>>
    BY GateAssumption DEF Init
  <2>3. Slots
    <3> SUFFICES ASSUME NEW p \in Pools
                 PROVE  IsFiniteSet(Holders(p)) /\ free[p] + Cardinality(Holders(p)) = Size[p]
      BY DEF Slots
    <3>1. Holders(p) = {}
      BY <1>4
    <3>2. IsFiniteSet(Holders(p)) /\ Cardinality(Holders(p)) = 0
      BY <3>1, <2>1
    <3> QED BY <2>2, <3>2
  <2>4. EnoughWakers
    BY <1>4, <2>1, <2>2 DEF EnoughWakers
  <2> QED BY <2>3, <2>4
<1> QED BY <1>1, <1>2, <1>3, <1>5 DEF Inv

\* Every step keeps the invariant.
LEMMA NextInv == Inv /\ [Next]_vars => Inv'
<1> SUFFICES ASSUME Inv, [Next]_vars PROVE Inv'
  OBVIOUS
<1>1. ASSUME NEW r \in Reqs, Start(r) \/ Contend(r) \/ RelContend(r) PROVE Inv'
  BY <1>1, StartKeeps
<1>2. ASSUME NEW r \in Reqs, GetLock(r) PROVE Inv'
  BY <1>2, GetLockKeeps
<1>3. ASSUME NEW r \in Reqs, Arm(r) PROVE Inv'
  BY <1>3, ArmKeeps
<1>4. ASSUME NEW r \in Reqs, Expire(r) PROVE Inv'
  <2>1. cancels' = cancels /\ cancels \in 0..MaxCancels /\ free' = free /\ lock' = lock
    BY <1>4 DEF Expire, Inv, TypeOK
  <2> QED BY <1>4, <2>1, LeaveKeeps DEF Expire
<1>5. ASSUME NEW r \in Reqs, Relock(r) PROVE Inv'
  BY <1>5, RelockKeeps
<1>6. ASSUME NEW r \in Reqs, Resume(r) PROVE Inv'
  BY <1>6, ResumeKeeps
<1>7. ASSUME NEW r \in Reqs, Finish(r) PROVE Inv'
  <2>1. cancels' = cancels /\ cancels \in 0..MaxCancels /\ "ok" \in Outcomes
    BY <1>7 DEF Finish, Inv, TypeOK, Outcomes
  <2> QED BY <1>7, <2>1, UnwindKeeps DEF Finish
<1>8. ASSUME NEW r \in Reqs, Release(r) PROVE Inv'
  BY <1>8, ReleaseKeeps
<1>9. ASSUME NEW r \in Reqs, Cancel(r) PROVE Inv'
  BY <1>9, CancelKeeps
<1>10. ASSUME Tick PROVE Inv'
  BY <1>10, TickKeeps
<1>11. ASSUME UNCHANGED vars PROVE Inv'
  <2>1. free' = free /\ lock' = lock /\ queue' = queue /\ req' = req /\ cancels' = cancels
    BY <1>11 DEF vars
  <2>2. TypeOK' /\ InChain' /\ HasLock' /\ NothingLeft'
    BY <2>1 DEF Inv, TypeOK, InChain, HasLock, NothingLeft, Wanted
  <2>3. WaitingOnce'
    BY <2>1 DEF Inv, WaitingOnce, Wanted
  <2>4. \A p \in Pools : Holders(p)' = Holders(p) /\ Wakers(p)' = Wakers(p)
    BY <2>1 DEF Holders, Wakers, Wanted
  <2>5. Slots' /\ EnoughWakers'
    BY <2>1, <2>4 DEF Inv, Slots, EnoughWakers
  <2> QED BY <2>2, <2>3, <2>5 DEF Inv
<1> QED BY <1>1, <1>2, <1>3, <1>4, <1>5, <1>6, <1>7, <1>8, <1>9, <1>10, <1>11 DEF Next, Step

\* The inductive invariant holds in every reachable state.
LEMMA InvAlways == Spec => []Inv
  BY InitInv, NextInv, PTL DEF Spec

\* R-P2-15 for every gate: the free slots of a pool and the requests that have
\* one of its slots add up to its size at every moment, so that no more requests
\* than it has slots hold a pool, and no slot is given back twice.
THEOREM SlotsConservedAlways == Spec => []SlotsConserved
<1>1. Inv => SlotsConserved
  BY DEF Inv, TypeOK, Slots, SlotsConserved
<1> QED BY <1>1, InvAlways, PTL

\* notify(1) for every gate: as long as nobody was cancelled, a free slot of a
\* pool with waiters always has a task on its way to look at it.
THEOREM NoStrandedSlotAlways == Spec => []NoStrandedSlot
<1>1. Inv => NoStrandedSlot
  <2> SUFFICES ASSUME Inv, NEW p \in Pools, cancels = 0, free[p] > 0, queue[p] # <<>>
               PROVE  \E r \in Reqs : /\ req[r].pc \in {"woken", "expired", "resumed", "late"}
                                      /\ Wanted(r) = p
    BY DEF NoStrandedSlot
  <2>1. free[p] \in Nat /\ IsFiniteSet(Wakers(p)) /\ free[p] <= Cardinality(Wakers(p))
    BY DEF Inv, TypeOK, EnoughWakers
  <2>2. Wakers(p) # {}
    BY <2>1, FS_EmptySet
  <2> QED BY <2>2 DEF Wakers, Looking
<1> QED BY <1>1, InvAlways, PTL
===============================================================================
