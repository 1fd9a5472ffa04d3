---------------------------- MODULE ConcurrencyGate ----------------------------
(***************************************************************************)
(* The concurrency gate every request passes: slot pools taken in a fixed  *)
(* order (global, tenant, model), a condition variable per pool whose lock *)
(* guards the count of free slots, a deadline per pool, and the release in *)
(* reverse order by the holder or by a failed acquire.                     *)
(*                                                                         *)
(* A step runs from one suspension of a task to the next.  Cancellation    *)
(* (the server shutting down, a caller's own timeout) reaches a task only  *)
(* where it is suspended.                                                  *)
(***************************************************************************)
EXTENDS Integers, SequencesExt, FiniteSets

CONSTANTS
    Reqs,            \* request tasks
    Pools,           \* slot pools
    Null,            \* nobody holds the lock
    Chain,           \* pools each request goes through, outermost first
    Size,            \* slots of each pool
    Timeout,         \* queue_timeout_seconds, in ticks
    MaxCancels       \* bound: cancellations in a behaviour

ASSUME GateAssumption ==
    /\ Null \notin Reqs
    /\ \A r \in Reqs : Chain[r] \in Seq(Pools) /\ Chain[r] # <<>>
    /\ \A r \in Reqs : \A i, k \in DOMAIN Chain[r] : Chain[r][i] = Chain[r][k] => i = k
    /\ Size \in [Pools -> Nat]
    /\ Timeout \in Nat
    /\ MaxCancels \in Nat

VARIABLES
    free,      \* _free of each pool
    lock,      \* who holds the lock of each pool's condition
    queue,     \* waiters of each condition, oldest first
    req,       \* request tasks: where they stand, slots held, outcome and time left
    cancels

vars == <<free, lock, queue, req, cancels>>

\* Suspended on the lock, with the waiter task not yet run, in Condition.wait.
Queued == {"lockwait", "arming", "waiting", "woken"}
\* Condition.wait is over and takes the lock back, then the task goes on.
Return == {"expired", "aborted", "resumed", "late", "dropped"}
PCs    == {"new", "next", "held", "release", "relwait", "end"} \cup Queued \cup Return

Outcomes == {"none", "ok", "timeout", "cancelled"}
Request  == [pc : PCs, got : Nat, out : Outcomes, left : 0..Timeout]

TypeOK ==
    /\ free \in [Pools -> Nat]
    /\ lock \in [Pools -> Reqs \cup {Null}]
    /\ queue \in [Pools -> Seq(Reqs)]
    /\ req \in [Reqs -> Request]
    /\ cancels \in 0..MaxCancels

Init ==
    /\ free = Size
    /\ lock = [p \in Pools |-> Null]
    /\ queue = [p \in Pools |-> <<>>]
    /\ req = [r \in Reqs |-> [pc |-> "new", got |-> 0, out |-> "none", left |-> Timeout]]
    /\ cancels = 0

Wanted(r) == Chain[r][req[r].got + 1]
Newest(r) == Chain[r][req[r].got]

Become(r, v) == req' = [req EXCEPT ![r] = v]
Goto(r, l)   == Become(r, [req[r] EXCEPT !.pc = l])
Lock(p, o)   == lock' = [lock EXCEPT ![p] = o]
Leave(p, r)  == queue' = [queue EXCEPT ![p] = RemoveFirst(@, r)]

\* The except and finally clauses: release what was acquired, if anything.
Unwind(r, out) ==
    Become(r, [req[r] EXCEPT !.pc = IF req[r].got = 0 THEN "end" ELSE "release", !.out = out])

(***************************************************************************)
(* acquire                                                                 *)
(***************************************************************************)
Start(r) ==
    /\ req[r].pc = "new"
    /\ Goto(r, "next")
    /\ UNCHANGED <<free, lock, queue, cancels>>

Contend(r) ==
    /\ req[r].pc = "next" /\ lock[Wanted(r)] # Null
    /\ Goto(r, "lockwait")
    /\ UNCHANGED <<free, lock, queue, cancels>>

\* Mutant: the loop is an if, so a slot is taken after one wait whatever is left.
RoundOnce(r) ==
    \/ /\ free[Wanted(r)] > 0 \/ req[r].pc = "resumed"
       /\ free' = [free EXCEPT ![Wanted(r)] = @ - 1]
       /\ Lock(Wanted(r), Null)
       /\ Become(r, [req[r] EXCEPT !.pc = IF req[r].got + 1 = Len(Chain[r]) THEN "held" ELSE "next",
                                   !.got = @ + 1, !.left = Timeout])
    \/ /\ free[Wanted(r)] <= 0 /\ req[r].left = 0
       /\ Lock(Wanted(r), Null)
       /\ Unwind(r, "timeout")
       /\ UNCHANGED free
    \/ /\ free[Wanted(r)] <= 0 /\ req[r].left > 0
       /\ Lock(Wanted(r), r)
       /\ Goto(r, "arming")
       /\ UNCHANGED free

\* One turn of the while loop, with the lock: take a slot, give up, or wait.
Round(r) ==
    \/ /\ free[Wanted(r)] > 0
       /\ free' = [free EXCEPT ![Wanted(r)] = @ - 1]
       /\ Lock(Wanted(r), Null)
       /\ Become(r, [req[r] EXCEPT !.pc = IF req[r].got + 1 = Len(Chain[r]) THEN "held" ELSE "next",
                                   !.got = @ + 1, !.left = Timeout])
    \/ /\ free[Wanted(r)] <= 0 /\ req[r].left = 0
       /\ Lock(Wanted(r), Null)
       /\ Unwind(r, "timeout")
       /\ UNCHANGED free
    \/ /\ free[Wanted(r)] <= 0 /\ req[r].left > 0
       /\ Lock(Wanted(r), r)
       /\ Goto(r, "arming")
       /\ UNCHANGED free

GetLock(r) ==
    /\ req[r].pc \in {"next", "lockwait"} /\ lock[Wanted(r)] = Null
    /\ Round(r)
    /\ UNCHANGED <<queue, cancels>>

\* Mutant: the wait keeps the lock.
ArmHolding(r) ==
    /\ req[r].pc = "arming"
    /\ queue' = [queue EXCEPT ![Wanted(r)] = Append(@, r)]
    /\ Goto(r, "waiting")
    /\ UNCHANGED <<free, lock, cancels>>

\* The waiter task runs Condition.wait, which releases the lock: until then
\* the lock is held across a turn of the event loop.
Arm(r) ==
    /\ req[r].pc = "arming"
    /\ Lock(Wanted(r), Null)
    /\ queue' = [queue EXCEPT ![Wanted(r)] = Append(@, r)]
    /\ Goto(r, "waiting")
    /\ UNCHANGED <<free, cancels>>

\* wait_for's timer cancels the waiter, notified or not.
Expire(r) ==
    /\ req[r].pc \in {"waiting", "woken"} /\ req[r].left = 0
    /\ Leave(Wanted(r), r)
    /\ Goto(r, "expired")
    /\ UNCHANGED <<free, lock, cancels>>

\* Condition.wait ends by taking the lock back, however it ended.
Relock(r) ==
    /\ req[r].pc \in {"woken", "expired", "aborted"} /\ lock[Wanted(r)] = Null
    /\ Lock(Wanted(r), r)
    /\ Goto(r, CASE req[r].pc = "woken"   -> "resumed"
                 [] req[r].pc = "expired" -> "late"
                 [] req[r].pc = "aborted" -> "dropped")
    /\ UNCHANGED <<free, queue, cancels>>

\* Mutant: a waiter whose timer fired is refused without a look at _free.
ResumeRefused(r) ==
    /\ \/ req[r].pc = "resumed" /\ Round(r)
       \/ /\ req[r].pc = "late"
          /\ Lock(Wanted(r), Null)
          /\ Unwind(r, "timeout")
          /\ UNCHANGED free
       \/ /\ req[r].pc = "dropped"
          /\ Lock(Wanted(r), Null)
          /\ Unwind(r, "cancelled")
          /\ UNCHANGED free
    /\ UNCHANGED <<queue, cancels>>

\* The task goes on: after a notify and after a timeout it looks at _free again.
Resume(r) ==
    /\ \/ req[r].pc \in {"resumed", "late"} /\ Round(r)
       \/ /\ req[r].pc = "dropped"
          /\ Lock(Wanted(r), Null)
          /\ Unwind(r, "cancelled")
          /\ UNCHANGED free
    /\ UNCHANGED <<queue, cancels>>

(***************************************************************************)
(* The request itself, and release                                         *)
(***************************************************************************)
Finish(r) ==
    /\ req[r].pc = "held"
    /\ Unwind(r, "ok")
    /\ UNCHANGED <<free, lock, queue, cancels>>

RelContend(r) ==
    /\ req[r].pc = "release" /\ lock[Newest(r)] # Null
    /\ Goto(r, "relwait")
    /\ UNCHANGED <<free, lock, queue, cancels>>

\* _free += 1 and notify(1), which wakes the oldest waiter still waiting.
Release(r) ==
    LET p == Newest(r)
        gone == [req[r] EXCEPT !.got = @ - 1, !.pc = IF req[r].got = 1 THEN "end" ELSE "release"]
        first == Head(queue[p])
    IN  /\ req[r].pc \in {"release", "relwait"} /\ lock[p] = Null
        /\ free' = [free EXCEPT ![p] = @ + 1]
        /\ IF queue[p] = <<>>
           THEN Become(r, gone) /\ UNCHANGED queue
           ELSE /\ req' = [req EXCEPT ![r] = gone, ![first] = [req[first] EXCEPT !.pc = "woken"]]
                /\ queue' = [queue EXCEPT ![p] = Tail(@)]
        /\ UNCHANGED <<lock, cancels>>

(***************************************************************************)
(* Cancellation and time                                                   *)
(***************************************************************************)
\* A task suspended inside release() drops the slots it still holds.
Cancel(r) ==
    /\ cancels < MaxCancels
    /\ cancels' = cancels + 1
    /\ \/ /\ req[r].pc = "lockwait"
          /\ Unwind(r, "cancelled")
          /\ UNCHANGED <<lock, queue>>
       \/ /\ req[r].pc \in {"arming", "resumed"}
          /\ Lock(Wanted(r), Null)
          /\ Unwind(r, "cancelled")
          /\ UNCHANGED queue
       \/ /\ req[r].pc \in {"waiting", "woken"}
          /\ Leave(Wanted(r), r)
          /\ Goto(r, "aborted")
          /\ UNCHANGED lock
       \/ /\ req[r].pc = "held"
          /\ Unwind(r, "cancelled")
          /\ UNCHANGED <<lock, queue>>
       \/ /\ req[r].pc = "relwait"
          /\ Goto(r, "end")
          /\ UNCHANGED <<lock, queue>>
    /\ UNCHANGED free

\* Timers fire on time: the clock waits for a task whose deadline has come.
Tick ==
    /\ \E r \in Reqs : req[r].pc \in Queued
    /\ \A r \in Reqs : req[r].pc \in Queued => req[r].left > 0
    /\ req' = [r \in Reqs |-> IF req[r].pc \in Queued
                              THEN [req[r] EXCEPT !.left = @ - 1] ELSE req[r]]
    /\ UNCHANGED <<free, lock, queue, cancels>>

Step(r) ==
    \/ Contend(r) \/ GetLock(r) \/ Arm(r) \/ Expire(r) \/ Relock(r) \/ Resume(r)
    \/ RelContend(r) \/ Release(r)

Next ==
    \/ \E r \in Reqs : Start(r) \/ Step(r) \/ Finish(r) \/ Cancel(r)
    \/ Tick

Spec == Init /\ [][Next]_vars

\* The event loop runs a task that can go on, an admitted request ends (every
\* upstream call has a timeout) and the clock advances.  Arrivals and
\* cancellations need not happen.
FairSpec ==
    /\ Spec
    /\ \A r \in Reqs : WF_vars(Step(r)) /\ WF_vars(Finish(r))
    /\ WF_vars(Tick)

(***************************************************************************)
(* Properties                                                              *)
(***************************************************************************)
Holders(p) == {r \in Reqs : \E k \in 1..req[r].got : Chain[r][k] = p}

\* R-P2-15, no more requests hold a pool than it has slots: whatever order
\* wake-ups, timeouts and cancellations come in, a slot is free or recorded in
\* the hold of one request, never taken twice or given back twice.
SlotsConserved ==
    \A p \in Pools : free[p] >= 0 /\ free[p] + Cardinality(Holders(p)) = Size[p]

\* While nobody is cancelled, a pool never has a free slot and sleeping waiters
\* with no task on its way to look: a notify spent on a waiter whose timer fires
\* at the same moment is not lost, because that waiter looks at _free again.
NoStrandedSlot ==
    \A p \in Pools :
        cancels = 0 /\ free[p] > 0 /\ queue[p] # <<>> =>
            \E r \in Reqs : /\ req[r].pc \in {"woken", "expired", "resumed", "late"}
                           /\ Wanted(r) = p

\* Every request that arrives leaves: it is admitted or refused, nobody waits
\* for a lock or a slot for ever, also when a notify died with a cancelled
\* waiter.
EveryoneLeaves == \A r \in Reqs : req[r].pc = "next" ~> req[r].pc = "end"
===============================================================================
